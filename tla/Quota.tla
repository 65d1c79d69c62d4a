-------------------------------- MODULE Quota --------------------------------
(***************************************************************************)
(* Who may have paid work done, and how much of it: the senders, their     *)
(* roles, and the durable quota counters in PostgreSQL.                    *)
(*                                                                         *)
(* Every action is one transaction.  The row locks they take (the sender   *)
(* FOR UPDATE, the counter by its upsert) make each of them atomic, but    *)
(* for the first registration of a number, which has no row to lock.  A    *)
(* refused submission or registration rolls back and changes nothing, and  *)
(* so does a submission that finds its job made before (the same inbound   *)
(* message, or the same sender and audio content): neither is an action.   *)
(***************************************************************************)
EXTENDS Naturals, FiniteSets

CONSTANTS
  Senders,         \* phone numbers
  Tester,          \* WHATSAPP_TESTER_PHONE, or no sender
  Admins,          \* senders that are administrators from the start
  TextJobs,        \* text translations
  AudioJobs,       \* transcriptions
  Days,            \* days 0, 1, ..., the bound on CURRENT_DATE
  NoSender,        \* the sender of a job not made yet
  GlobalLimit,     \* accepted jobs a day (globalDailyLimit)
  DailyLimit,      \* a permitted user's accepted jobs a day (10 in the code)
  RecruiterLimit   \* a recruiter's accepted jobs, ever (3 in the code)

Jobs == TextJobs \union AudioJobs

ASSUME JobsAssumption ==
  IsFiniteSet(TextJobs) /\ IsFiniteSet(AudioJobs) /\ TextJobs \intersect AudioJobs = {}
ASSUME SendersAssumption == Admins \subseteq Senders /\ NoSender \notin Senders
ASSUME DaysAssumption == Days \subseteq Nat /\ 0 \in Days
ASSUME LimitsAssumption ==
  GlobalLimit \in Nat /\ DailyLimit \in Nat /\ RecruiterLimit \in Nat \ {0}

VARIABLES
  sender,           \* table whatsapp_senders
  job,              \* tables text_translations and transcriptions
  globalReserved,   \* global_quota_usage.reserved_requests, by usage_date
  globalCompleted,  \* global_quota_usage.completed_requests, by usage_date
  dailyReserved,    \* daily_quota_usage.reserved_requests, by sender and date
  dailyCompleted,   \* daily_quota_usage.completed_requests, by sender and date
  today,            \* CURRENT_DATE
  registering       \* <<sender, role>> of registrations that found no row

vars == <<sender, job, globalReserved, globalCompleted, dailyReserved,
          dailyCompleted, today, registering>>

-------------------------------------------------------------------------------

CodeRoles == {"PERMITTED_USER", "RECRUITER"}

Roles == {"NONE", "ADMIN", "PERMITTED_USER", "RECRUITER"}

\* role, access_status and paid_messages_used; "NONE" is no row.
Sender == [role : Roles, status : {"ACTIVE", "DISABLED"}, used : 0..RecruiterLimit]

\* status: PENDING and PROCESSING count the same here.  as is the role the sender
\* had when the job was accepted; the code does not store it.
Job == [status : {"ABSENT", "ACTIVE", "COMPLETED", "FAILED"},
        sender : Senders \union {NoSender}, day : Days, as : Roles]

TypeOK ==
  /\ sender \in [Senders -> Sender]
  /\ job \in [Jobs -> Job]
  /\ globalReserved \in [Days -> Nat]
  /\ globalCompleted \in [Days -> Nat]
  /\ dailyReserved \in [Senders -> [Days -> Nat]]
  /\ dailyCompleted \in [Senders -> [Days -> Nat]]
  /\ today \in Days
  /\ registering \subseteq Senders \X CodeRoles

Init ==
  /\ sender = [s \in Senders |->
       [role |-> IF s \in Admins THEN "ADMIN" ELSE "NONE",
        status |-> "ACTIVE", used |-> 0]]
  /\ job = [j \in Jobs |->
       [status |-> "ABSENT", sender |-> NoSender, day |-> 0, as |-> "NONE"]]
  /\ globalReserved = [d \in Days |-> 0]
  /\ globalCompleted = [d \in Days |-> 0]
  /\ dailyReserved = [s \in Senders |-> [d \in Days |-> 0]]
  /\ dailyCompleted = [s \in Senders |-> [d \in Days |-> 0]]
  /\ today = 0
  /\ registering = {}

-------------------------------------------------------------------------------
\* Registration: access.PostgresRepository.Register.

\* Mutant: a permitted user may become a recruiter.
MutRegistrationTransition(current, requested) ==
  CASE current = "ADMIN" -> [next |-> current, allowed |-> FALSE]
    [] current \in {"RECRUITER", "PERMITTED_USER", "NONE"} ->
         [next |-> requested, allowed |-> TRUE]

RegistrationTransition(current, requested) ==
  CASE current = "ADMIN" -> [next |-> current, allowed |-> FALSE]
    [] current = "PERMITTED_USER" /\ requested = "RECRUITER" ->
         [next |-> current, allowed |-> FALSE]
    [] current = "RECRUITER" /\ requested = "PERMITTED_USER" ->
         [next |-> requested, allowed |-> TRUE]
    [] current = "NONE" -> [next |-> requested, allowed |-> TRUE]
    [] current = requested -> [next |-> current, allowed |-> TRUE]

Registered(role) == [role |-> role, status |-> "ACTIVE", used |-> 0]

\* SELECT ... FOR UPDATE finds no row, so it locks nothing.
FindNoSender(s, requested) ==
  /\ sender[s].role = "NONE"
  /\ registering' = registering \union {<<s, requested>>}
  /\ UNCHANGED <<sender, job, globalReserved, globalCompleted, dailyReserved,
                 dailyCompleted, today>>

\* Mutant: ON CONFLICT (phone_number) DO UPDATE.
MutNumberTaken(s) == FALSE

\* The phone number is UNIQUE.
NumberTaken(s) == sender[s].role # "NONE"

\* The INSERT of a first registration; when another was faster it is an error,
\* and whoever asked may register again.
InsertSender(s, requested) ==
  /\ <<s, requested>> \in registering
  /\ registering' = registering \ {<<s, requested>>}
  /\ sender' = IF NumberTaken(s) THEN sender
               ELSE [sender EXCEPT ![s] = Registered(requested)]
  /\ UNCHANGED <<job, globalReserved, globalCompleted, dailyReserved,
                 dailyCompleted, today>>

\* Register of a sender that has a row, for the roles a code can stand for.  Who
\* already has the role keeps the row as it is, a disabled one included.
Register(s, requested) ==
  /\ sender[s].role # "NONE"
  /\ LET transition == RegistrationTransition(sender[s].role, requested) IN
     \/ s = Tester
     \/ transition.allowed /\ transition.next # sender[s].role
  /\ sender' = [sender EXCEPT ![s] = Registered(requested)]
  /\ UNCHANGED <<job, globalReserved, globalCompleted, dailyReserved,
                 dailyCompleted, today, registering>>

-------------------------------------------------------------------------------
\* Accepting a job: the transactions of translation.Submit and of
\* transcription.CreateOrGetAccepted.

\* Mutant: the limit is compared after the reservation.
MutReserveGlobal ==
  /\ globalReserved[today] <= GlobalLimit
  /\ globalReserved' = [globalReserved EXCEPT ![today] = @ + 1]

ReserveGlobal ==
  /\ globalReserved[today] < GlobalLimit
  /\ globalReserved' = [globalReserved EXCEPT ![today] = @ + 1]

\* Mutant: the counter of the first day is used for ever.
MutReserveDaily(s) ==
  /\ dailyReserved[s][today] < DailyLimit
  /\ dailyReserved' = [dailyReserved EXCEPT ![s][0] = @ + 1]
  /\ UNCHANGED sender

\* A permitted user pays from the daily counter.
ReserveDaily(s) ==
  /\ dailyReserved[s][today] < DailyLimit
  /\ dailyReserved' = [dailyReserved EXCEPT ![s][today] = @ + 1]
  /\ UNCHANGED sender

\* Mutant: without AND paid_messages_used < limit, disabled one message late.
MutReserveLifetime(s) ==
  /\ sender' = [sender EXCEPT ![s].used = @ + 1,
       ![s].status = IF sender[s].used >= RecruiterLimit THEN "DISABLED" ELSE "ACTIVE"]
  /\ UNCHANGED dailyReserved

\* A recruiter pays from the lifetime counter; the last message disables it.
ReserveLifetime(s) ==
  /\ sender[s].used < RecruiterLimit
  /\ sender' = [sender EXCEPT ![s].used = @ + 1,
       ![s].status = IF sender[s].used + 1 >= RecruiterLimit THEN "DISABLED" ELSE "ACTIVE"]
  /\ UNCHANGED dailyReserved

Accept(j, s) ==
  /\ job[j].status = "ABSENT"
  /\ sender[s].status = "ACTIVE"
  /\ ReserveGlobal
  /\ \/ sender[s].role = "PERMITTED_USER" /\ ReserveDaily(s)
     \/ sender[s].role = "RECRUITER" /\ ReserveLifetime(s)
  /\ job' = [job EXCEPT ![j] =
       [status |-> "ACTIVE", sender |-> s, day |-> today, as |-> sender[s].role]]
  /\ UNCHANGED <<globalCompleted, dailyCompleted, today, registering>>

SubmitText(j, s) == j \in TextJobs /\ Accept(j, s)

CreateOrGetAccepted(j, s) == j \in AudioJobs /\ Accept(j, s)

-------------------------------------------------------------------------------
\* The end of a job.

\* The UPDATE of daily_quota_usage ... AND completed_requests < reserved_requests,
\* which may match no row.
CountDaily(j) ==
  LET s == job[j].sender  d == job[j].day IN
  dailyCompleted' =
    IF dailyCompleted[s][d] < dailyReserved[s][d]
    THEN [dailyCompleted EXCEPT ![s][d] = @ + 1] ELSE dailyCompleted

\* Mutant: the completion is counted on the day it happens.
MutCompleteText(j) ==
  /\ job[j].status = "ACTIVE" /\ j \in TextJobs
  /\ globalCompleted[today] < globalReserved[today]
  /\ globalCompleted' = [globalCompleted EXCEPT ![today] = @ + 1]
  /\ CountDaily(j)
  /\ job' = [job EXCEPT ![j].status = "COMPLETED"]
  /\ UNCHANGED <<sender, globalReserved, dailyReserved, today, registering>>

\* translation.Complete gives up, and the job stays as it is, when the global
\* counter has no reservation left for it ("global completion reservation missing").
CompleteText(j) ==
  /\ job[j].status = "ACTIVE" /\ j \in TextJobs
  /\ LET d == job[j].day IN
     /\ globalCompleted[d] < globalReserved[d]
     /\ globalCompleted' = [globalCompleted EXCEPT ![d] = @ + 1]
  /\ CountDaily(j)
  /\ job' = [job EXCEPT ![j].status = "COMPLETED"]
  /\ UNCHANGED <<sender, globalReserved, dailyReserved, today, registering>>

\* PostgresRepository.complete of the audio worker goes on when no row matches.
CompleteAudio(j) ==
  /\ job[j].status = "ACTIVE" /\ j \in AudioJobs
  /\ LET d == job[j].day IN
     globalCompleted' =
       IF globalCompleted[d] < globalReserved[d]
       THEN [globalCompleted EXCEPT ![d] = @ + 1] ELSE globalCompleted
  /\ CountDaily(j)
  /\ job' = [job EXCEPT ![j].status = "COMPLETED"]
  /\ UNCHANGED <<sender, globalReserved, dailyReserved, today, registering>>

\* A job that failed keeps its reservation.
FailJob(j) ==
  /\ job[j].status = "ACTIVE"
  /\ job' = [job EXCEPT ![j].status = "FAILED"]
  /\ UNCHANGED <<sender, globalReserved, globalCompleted, dailyReserved,
                 dailyCompleted, today, registering>>

\* Midnight.
NextDay ==
  /\ today + 1 \in Days
  /\ today' = today + 1
  /\ UNCHANGED <<sender, job, globalReserved, globalCompleted, dailyReserved,
                 dailyCompleted, registering>>

Next ==
  \/ \E s \in Senders, role \in CodeRoles :
       FindNoSender(s, role) \/ InsertSender(s, role) \/ Register(s, role)
  \/ \E j \in Jobs, s \in Senders : SubmitText(j, s) \/ CreateOrGetAccepted(j, s)
  \/ \E j \in Jobs : CompleteText(j) \/ CompleteAudio(j) \/ FailJob(j)
  \/ NextDay

Spec == Init /\ [][Next]_vars

-------------------------------------------------------------------------------
\* Properties.  They count jobs, never counters: the counters are how the code
\* keeps them.

Accepted(d) == {j \in Jobs : job[j].status # "ABSENT" /\ job[j].day = d}
AcceptedFrom(s, role) ==
  {j \in Jobs : job[j].status # "ABSENT" /\ job[j].sender = s /\ job[j].as = role}

\* On no day are more jobs accepted than the global limit, over all senders,
\* roles and both kinds of work.
GlobalCap == \A d \in Days : Cardinality(Accepted(d)) <= GlobalLimit

\* On no day are more jobs of one permitted user accepted than the daily limit.
DailyCap ==
  \A s \in Senders, d \in Days :
    Cardinality(AcceptedFrom(s, "PERMITTED_USER") \intersect Accepted(d)) <= DailyLimit

\* Nobody but the tester ever has more jobs accepted as a recruiter than the
\* lifetime limit, whatever codes are redeemed in between.
RecruiterLifetimeCap ==
  \A s \in Senders \ {Tester} :
    Cardinality(AcceptedFrom(s, "RECRUITER")) <= RecruiterLimit

\* A sender is disabled exactly when it is a recruiter that used its messages up,
\* and only recruiters have used any (the CHECKs of whatsapp_senders): no
\* registration leaves an account disabled, or active with nothing left.
DisabledWhenUsedUp ==
  \A s \in Senders :
    /\ sender[s].status = "DISABLED" <=>
         sender[s].role = "RECRUITER" /\ sender[s].used = RecruiterLimit
    /\ sender[s].used > 0 => sender[s].role = "RECRUITER"

\* Nobody but the tester is ever taken back to recruiter, nor is a recruiter given
\* its messages back, by a registration that began before it had a role.
PermittedForGood ==
  [][\A s \in Senders \ {Tester} :
       /\ sender[s].role = "PERMITTED_USER" => sender'[s].role = "PERMITTED_USER"
       /\ sender[s].role = "RECRUITER" /\ sender'[s].role = "RECRUITER" =>
            sender'[s].used >= sender[s].used]_vars

\* translation.Complete never meets "global completion reservation missing",
\* which would leave a translation that was paid for undelivered.
CompletionNeverRefused ==
  \A j \in TextJobs :
    job[j].status = "ACTIVE" => globalCompleted[job[j].day] < globalReserved[job[j].day]
===============================================================================
