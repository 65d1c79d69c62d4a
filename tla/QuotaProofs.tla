----------------------------- MODULE QuotaProofs -----------------------------
(***************************************************************************)
(* What TLAPS proves about Quota, for any number of senders, jobs and days *)
(* and any limits.  The counters of the code are shown to count the jobs   *)
(* they stand for; the limits follow.                                      *)
(***************************************************************************)
EXTENDS Quota, FiniteSetTheorems, TLAPS

Done(d) == {j \in Accepted(d) : job[j].status = "COMPLETED"}

DailyJobs(s, d) == AcceptedFrom(s, "PERMITTED_USER") \intersect Accepted(d)

\* Every reservation is one accepted job, every completion one completed job.
GlobalCounted ==
  \A d \in Days :
    /\ globalReserved[d] = Cardinality(Accepted(d))
    /\ globalReserved[d] <= GlobalLimit
    /\ globalCompleted[d] = Cardinality(Done(d))

DailyCounted ==
  \A s \in Senders, d \in Days :
    /\ dailyReserved[s][d] = Cardinality(DailyJobs(s, d))
    /\ dailyReserved[s][d] <= DailyLimit

\* paid_messages_used counts a recruiter's accepted jobs; before it was one a
\* sender has none, after it was one at most the limit.
LifetimeCounted ==
  \A s \in Senders \ {Tester} :
    LET n == Cardinality(AcceptedFrom(s, "RECRUITER")) IN
    /\ n <= RecruiterLimit
    /\ sender[s].role = "RECRUITER" => n = sender[s].used
    /\ sender[s].role \in {"NONE", "ADMIN"} => n = 0

IInv == TypeOK /\ DisabledWhenUsedUp /\ GlobalCounted /\ DailyCounted /\ LifetimeCounted

-------------------------------------------------------------------------------

LEMMA JobsFinite == IsFiniteSet(Jobs)
BY JobsAssumption, FS_Union DEF Jobs

\* Sets of jobs are finite.
LEMMA CountType ==
  ASSUME NEW S \in SUBSET Jobs
  PROVE  IsFiniteSet(S) /\ Cardinality(S) \in Nat
BY JobsFinite, FS_Subset, FS_CardinalityType

\* A set of jobs that a new one joins grows by one.
LEMMA CountOneMore ==
  ASSUME NEW S \in SUBSET Jobs, NEW j \in Jobs, j \notin S
  PROVE  Cardinality(S \union {j}) = Cardinality(S) + 1
BY CountType, FS_AddElement

-------------------------------------------------------------------------------

LEMMA InvInit == Init => IInv
<1> SUFFICES ASSUME Init PROVE IInv
    OBVIOUS
<1> USE SendersAssumption, DaysAssumption, LimitsAssumption
<1>1. TypeOK
  <2>1. sender \in [Senders -> Sender]
    <3>1. 0 \in 0..RecruiterLimit OBVIOUS
    <3> QED BY <3>1 DEF Init, Sender, Roles
  <2>2. job \in [Jobs -> Job] BY DEF Init, Job, Roles
  <2> QED BY <2>1, <2>2 DEF Init, TypeOK
<1>2. DisabledWhenUsedUp
  <2>1. \A s \in Senders : sender[s].status = "ACTIVE" /\ sender[s].used = 0
    BY DEF Init
  <2> QED BY <2>1 DEF DisabledWhenUsedUp
<1>3. \A d \in Days : Accepted(d) = {} /\ Done(d) = {}
  BY DEF Init, Accepted, Done
<1>4. \A s \in Senders, role \in Roles : AcceptedFrom(s, role) = {}
  BY DEF Init, AcceptedFrom
<1>5. \A s \in Senders, d \in Days : DailyJobs(s, d) = {}
  BY <1>3 DEF DailyJobs
<1>6. GlobalCounted /\ DailyCounted
  <2>1. Cardinality({}) = 0 BY FS_EmptySet
  <2>2. \A d \in Days :
          Cardinality(Accepted(d)) = 0 /\ Cardinality(Done(d)) = 0
    BY <1>3, <2>1
  <2>3. \A s \in Senders, d \in Days : Cardinality(DailyJobs(s, d)) = 0
    BY <1>5, <2>1
  <2>4. GlobalCounted BY <2>2 DEF Init, GlobalCounted
  <2>5. DailyCounted BY <2>3 DEF Init, DailyCounted
  <2> QED BY <2>4, <2>5
<1>7. LifetimeCounted
  <2>1. \A s \in Senders : Cardinality(AcceptedFrom(s, "RECRUITER")) = 0
    BY <1>4, FS_EmptySet DEF Roles
  <2>2. \A s \in Senders : sender[s].used = 0 BY DEF Init
  <2> QED BY <2>1, <2>2 DEF LifetimeCounted
<1> QED BY <1>1, <1>2, <1>6, <1>7 DEF IInv

\* Registration touches the sender's row only; a first one finds none.
LEMMA RegisterStep ==
  ASSUME IInv, NEW s \in Senders, NEW requested \in CodeRoles,
         Register(s, requested) \/ (InsertSender(s, requested) /\ ~NumberTaken(s))
  PROVE  IInv'
<1> USE LimitsAssumption
<1>1. /\ sender' = [sender EXCEPT ![s] = Registered(requested)]
      /\ UNCHANGED <<job, globalReserved, globalCompleted, dailyReserved,
                     dailyCompleted, today>>
      /\ registering' \subseteq registering
  BY DEF Register, InsertSender
<1>2. TypeOK'
  <2>1. Registered(requested) \in Sender
    <3>1. 0 \in 0..RecruiterLimit OBVIOUS
    <3> QED BY <3>1 DEF Registered, Sender, Roles, CodeRoles
  <2> QED BY <1>1, <2>1 DEF IInv, TypeOK
<1>3. DisabledWhenUsedUp'
  BY <1>1 DEF IInv, TypeOK, DisabledWhenUsedUp, Registered
<1>4. GlobalCounted' /\ DailyCounted'
  <2>1. \A d \in Days : Accepted(d)' = Accepted(d) /\ Done(d)' = Done(d)
    BY <1>1 DEF Accepted, Done
  <2>2. \A t \in Senders, r \in Roles : AcceptedFrom(t, r)' = AcceptedFrom(t, r)
    BY <1>1 DEF AcceptedFrom
  <2> QED BY <1>1, <2>1, <2>2
          DEF IInv, GlobalCounted, DailyCounted, DailyJobs, Roles
<1>5. \A t \in Senders : AcceptedFrom(t, "RECRUITER")' = AcceptedFrom(t, "RECRUITER")
  BY <1>1 DEF AcceptedFrom
<1>6. s # Tester /\ requested = "RECRUITER" => sender[s].role = "NONE"
  BY DEF Register, InsertSender, NumberTaken, RegistrationTransition, IInv, TypeOK,
         Sender, Roles
<1>7. sender'[s].role = requested /\ sender'[s].used = 0
  BY <1>1 DEF IInv, TypeOK, Registered
<1>8. \A t \in Senders \ {s} : sender'[t] = sender[t]
  BY <1>1 DEF IInv, TypeOK
<1>9. LifetimeCounted'
  BY <1>5, <1>6, <1>7, <1>8 DEF IInv, LifetimeCounted, CodeRoles
<1> QED BY <1>2, <1>3, <1>4, <1>9 DEF IInv

\* An accepted job is one more in the sets it is reserved from, and in no other.
LEMMA AcceptStep ==
  ASSUME IInv, NEW j \in Jobs, NEW s \in Senders, Accept(j, s)
  PROVE  IInv'
<1> USE LimitsAssumption
<1> DEFINE role == sender[s].role
<1>1. /\ job[j].status = "ABSENT" /\ sender[s].status = "ACTIVE"
      /\ job' = [job EXCEPT ![j] =
           [status |-> "ACTIVE", sender |-> s, day |-> today, as |-> role]]
      /\ globalReserved[today] < GlobalLimit
      /\ globalReserved' = [globalReserved EXCEPT ![today] = @ + 1]
      /\ UNCHANGED <<globalCompleted, dailyCompleted, today, registering>>
  BY DEF Accept, ReserveGlobal
<1>2. \/ role = "PERMITTED_USER" /\ ReserveDaily(s)
      \/ role = "RECRUITER" /\ ReserveLifetime(s)
  BY DEF Accept
<1>3. today \in Days /\ role \in Roles /\ j \in Jobs BY DEF IInv, TypeOK, Sender
<1>4. TypeOK'
  <2>1. job' \in [Jobs -> Job] BY <1>1, <1>3 DEF IInv, TypeOK, Job
  <2>2. sender' \in [Senders -> Sender] /\ dailyReserved' \in [Senders -> [Days -> Nat]]
    <3>1. CASE role = "PERMITTED_USER" /\ ReserveDaily(s)
      BY <1>3, <3>1 DEF ReserveDaily, IInv, TypeOK
    <3>2. CASE role = "RECRUITER" /\ ReserveLifetime(s)
      <4>1. sender[s].used + 1 \in 0..RecruiterLimit
        BY <3>2 DEF ReserveLifetime, IInv, TypeOK, Sender
      <4> QED BY <3>2, <4>1 DEF ReserveLifetime, IInv, TypeOK, Sender
    <3> QED BY <1>2, <3>1, <3>2
  <2> QED BY <1>1, <1>3, <2>1, <2>2 DEF IInv, TypeOK
<1>5. DisabledWhenUsedUp'
  <2>1. CASE role = "PERMITTED_USER" /\ ReserveDaily(s)
    BY <2>1 DEF ReserveDaily, IInv, DisabledWhenUsedUp
  <2>2. CASE role = "RECRUITER" /\ ReserveLifetime(s)
    BY <2>2 DEF ReserveLifetime, IInv, DisabledWhenUsedUp, TypeOK, Sender
  <2> QED BY <1>2, <2>1, <2>2
<1>6. \A d \in Days :
        /\ Accepted(d)' = IF d = today THEN Accepted(d) \union {j} ELSE Accepted(d)
        /\ Done(d)' = Done(d)
        /\ j \notin Accepted(d)
  BY <1>1, <1>3 DEF IInv, TypeOK, Job, Accepted, Done
<1>7. \A t \in Senders, r \in Roles :
        /\ AcceptedFrom(t, r)' = IF t = s /\ r = role
                                 THEN AcceptedFrom(t, r) \union {j}
                                 ELSE AcceptedFrom(t, r)
        /\ j \notin AcceptedFrom(t, r)
  BY <1>1, <1>3 DEF IInv, TypeOK, Job, AcceptedFrom
<1>8. \A d \in Days, t \in Senders, r \in Roles :
        Accepted(d) \in SUBSET Jobs /\ AcceptedFrom(t, r) \in SUBSET Jobs
  BY DEF Accepted, AcceptedFrom
<1>9. GlobalCounted'
  <2>1. \A d \in Days :
          Cardinality(Accepted(d)') =
            IF d = today THEN Cardinality(Accepted(d)) + 1 ELSE Cardinality(Accepted(d))
    BY <1>3, <1>6, <1>8, CountOneMore
  <2>2. \A d \in Days : globalReserved'[d] =
          IF d = today THEN globalReserved[d] + 1 ELSE globalReserved[d]
    BY <1>1 DEF IInv, TypeOK
  <2>3. \A d \in Days :
          /\ globalReserved'[d] = Cardinality(Accepted(d)')
          /\ globalReserved'[d] <= GlobalLimit
    BY <1>1, <1>3, <2>1, <2>2 DEF IInv, TypeOK, GlobalCounted
  <2>4. \A d \in Days : globalCompleted'[d] = Cardinality(Done(d)')
    BY <1>1, <1>6 DEF IInv, GlobalCounted
  <2> QED BY <2>3, <2>4 DEF GlobalCounted
<1>10. DailyCounted'
  <2>1. \A t \in Senders, d \in Days :
          /\ t = s /\ d = today /\ role = "PERMITTED_USER" =>
               DailyJobs(t, d)' = DailyJobs(t, d) \union {j}
          /\ t # s \/ d # today \/ role # "PERMITTED_USER" =>
               DailyJobs(t, d)' = DailyJobs(t, d)
    BY <1>6, <1>7 DEF DailyJobs, Roles
  <2>2. \A t \in Senders, d \in Days :
          DailyJobs(t, d) \in SUBSET Jobs /\ j \notin DailyJobs(t, d)
    BY <1>6, <1>8 DEF DailyJobs, Roles
  <2>3. CASE role = "PERMITTED_USER" /\ ReserveDaily(s)
    <3>1. Cardinality(DailyJobs(s, today)') = Cardinality(DailyJobs(s, today)) + 1
      <4>1. DailyJobs(s, today)' = DailyJobs(s, today) \union {j}
        BY <1>1, <1>3, <2>1, <2>3
      <4>2. DailyJobs(s, today) \in SUBSET Jobs /\ j \notin DailyJobs(s, today)
        BY <1>3, <2>2
      <4> QED BY <1>3, <4>1, <4>2, CountOneMore
    <3>2. /\ dailyReserved'[s][today] = dailyReserved[s][today] + 1
          /\ dailyReserved[s][today] < DailyLimit
          /\ dailyReserved[s][today] \in Nat
      BY <1>3, <2>3 DEF ReserveDaily, IInv, TypeOK
    <3>3. \A t \in Senders, d \in Days :
            t # s \/ d # today => dailyReserved'[t][d] = dailyReserved[t][d]
      BY <2>3 DEF ReserveDaily, IInv, TypeOK
    <3>4. \A t \in Senders, d \in Days :
            t # s \/ d # today => DailyJobs(t, d)' = DailyJobs(t, d)
      BY <2>1
    <3>5. dailyReserved[s][today] = Cardinality(DailyJobs(s, today))
      BY <1>3 DEF IInv, DailyCounted
    <3>6. /\ dailyReserved'[s][today] = Cardinality(DailyJobs(s, today)')
          /\ dailyReserved'[s][today] <= DailyLimit
      BY <3>1, <3>2, <3>5
    <3>7. \A t \in Senders, d \in Days : t # s \/ d # today =>
            /\ dailyReserved'[t][d] = Cardinality(DailyJobs(t, d)')
            /\ dailyReserved'[t][d] <= DailyLimit
      BY <3>3, <3>4 DEF IInv, DailyCounted
    <3>8. ASSUME NEW t \in Senders, NEW d \in Days
          PROVE  /\ dailyReserved'[t][d] = Cardinality(DailyJobs(t, d)')
                 /\ dailyReserved'[t][d] <= DailyLimit
      BY <1>1, <3>6, <3>7
    <3> QED BY <3>8 DEF DailyCounted
  <2>4. CASE role = "RECRUITER" /\ ReserveLifetime(s)
    BY <2>1, <2>4 DEF ReserveLifetime, IInv, DailyCounted
  <2> QED BY <1>2, <2>3, <2>4
<1>11. LifetimeCounted'
  <2>1. CASE role = "PERMITTED_USER" /\ ReserveDaily(s)
    BY <1>7, <2>1 DEF ReserveDaily, IInv, LifetimeCounted, Roles
  <2>2. CASE role = "RECRUITER" /\ ReserveLifetime(s)
    <3>1. Cardinality(AcceptedFrom(s, "RECRUITER")') =
            Cardinality(AcceptedFrom(s, "RECRUITER")) + 1
      <4>1. /\ AcceptedFrom(s, "RECRUITER")' = AcceptedFrom(s, "RECRUITER") \union {j}
            /\ j \notin AcceptedFrom(s, "RECRUITER")
        BY <1>3, <1>7, <2>2
      <4>2. AcceptedFrom(s, "RECRUITER") \in SUBSET Jobs BY DEF AcceptedFrom
      <4> QED BY <1>3, <4>1, <4>2, CountOneMore
    <3>2. /\ sender'[s].used = sender[s].used + 1 /\ sender'[s].role = "RECRUITER"
          /\ sender[s].used < RecruiterLimit /\ sender[s].used \in Nat
      BY <2>2 DEF ReserveLifetime, IInv, TypeOK, Sender
    <3>3. \A t \in Senders \ {s} :
            /\ sender'[t] = sender[t]
            /\ AcceptedFrom(t, "RECRUITER")' = AcceptedFrom(t, "RECRUITER")
      BY <1>7, <2>2 DEF ReserveLifetime, IInv, TypeOK, Roles
    <3>4. s # Tester => Cardinality(AcceptedFrom(s, "RECRUITER")) = sender[s].used
      BY <2>2 DEF IInv, LifetimeCounted
    <3> QED BY <3>1, <3>2, <3>3, <3>4 DEF IInv, LifetimeCounted
  <2> QED BY <1>2, <2>1, <2>2
<1> QED BY <1>4, <1>5, <1>9, <1>10, <1>11 DEF IInv

\* While a job of the day is not completed, fewer are completed than reserved.
LEMMA RoomToComplete ==
  ASSUME IInv, NEW j \in Jobs, job[j].status = "ACTIVE"
  PROVE  globalCompleted[job[j].day] < globalReserved[job[j].day]
<1> DEFINE d == job[j].day
<1>1. d \in Days BY DEF IInv, TypeOK, Job
<1>2. j \in Accepted(d) /\ j \notin Done(d) BY DEF Accepted, Done
<1>3. Accepted(d) \in SUBSET Jobs /\ Done(d) \in SUBSET Accepted(d)
  BY DEF Accepted, Done
<1>4. /\ IsFiniteSet(Accepted(d)) /\ Cardinality(Accepted(d)) \in Nat
      /\ Cardinality(Done(d)) \in Nat
  BY <1>3, CountType
<1>5. Cardinality(Done(d)) <= Cardinality(Accepted(d))
  BY <1>3, <1>4, FS_Subset
<1>6. Cardinality(Done(d)) # Cardinality(Accepted(d))
  BY <1>2, <1>3, <1>4, FS_Subset
<1> QED BY <1>1, <1>4, <1>5, <1>6 DEF IInv, GlobalCounted

\* A completed job is one more completed, on the day it was accepted.
LEMMA CompleteStep ==
  ASSUME IInv, NEW j \in Jobs, CompleteText(j) \/ CompleteAudio(j)
  PROVE  IInv'
<1> DEFINE d == job[j].day
<1>1. /\ job[j].status = "ACTIVE"
      /\ job' = [job EXCEPT ![j].status = "COMPLETED"]
      /\ UNCHANGED <<sender, globalReserved, dailyReserved, today, registering>>
      /\ CountDaily(j)
  BY DEF CompleteText, CompleteAudio
<1>2. globalCompleted' = [globalCompleted EXCEPT ![d] = @ + 1]
  BY <1>1, RoomToComplete DEF CompleteText, CompleteAudio
<1>3. d \in Days /\ job[j] \in Job BY DEF IInv, TypeOK, Job
<1>4. TypeOK'
  <2>1. job' \in [Jobs -> Job] BY <1>1 DEF IInv, TypeOK, Job
  <2>2. globalCompleted' \in [Days -> Nat]
    <3>1. globalCompleted[d] + 1 \in Nat BY <1>3 DEF IInv, TypeOK
    <3> QED BY <1>2, <3>1 DEF IInv, TypeOK
  <2>3. dailyCompleted' \in [Senders -> [Days -> Nat]]
    <3>1. dailyCompleted \in [Senders -> [Days -> Nat]] BY DEF IInv, TypeOK
    <3>2. \/ dailyCompleted' = dailyCompleted
          \/ dailyCompleted' = [dailyCompleted EXCEPT ![job[j].sender][d] = @ + 1]
      BY <1>1 DEF CountDaily
    <3>3. ASSUME job[j].sender \in Senders
          PROVE  [dailyCompleted[job[j].sender] EXCEPT ![d] = @ + 1] \in [Days -> Nat]
      BY <1>3, <3>1, <3>3
    <3> QED BY <3>1, <3>2, <3>3
  <2> QED BY <1>1, <2>1, <2>2, <2>3 DEF IInv, TypeOK
<1>5. DisabledWhenUsedUp' BY <1>1 DEF IInv, DisabledWhenUsedUp
<1>6. \A i \in Jobs :
        /\ job'[i].sender = job[i].sender /\ job'[i].day = job[i].day
        /\ job'[i].as = job[i].as
        /\ job'[i].status = IF i = j THEN "COMPLETED" ELSE job[i].status
  BY <1>1 DEF IInv, TypeOK, Job
<1>7. \A e \in Days : Accepted(e)' = Accepted(e)
  BY <1>1, <1>6 DEF Accepted
<1>8. \A t \in Senders, r \in Roles : AcceptedFrom(t, r)' = AcceptedFrom(t, r)
  BY <1>1, <1>6 DEF AcceptedFrom
<1>9. \A e \in Days : Done(e)' = IF e = d THEN Done(e) \union {j} ELSE Done(e)
  BY <1>1, <1>6 DEF Done, Accepted
<1>10. \A e \in Days : Done(e) \in SUBSET Jobs /\ j \notin Done(e)
  BY <1>1 DEF Done, Accepted
<1>11. \A e \in Days : Cardinality(Done(e)') =
         IF e = d THEN Cardinality(Done(e)) + 1 ELSE Cardinality(Done(e))
  BY <1>9, <1>10, CountOneMore
<1>12. GlobalCounted'
  BY <1>1, <1>2, <1>3, <1>7, <1>11 DEF IInv, GlobalCounted, TypeOK
<1>13. DailyCounted' /\ LifetimeCounted'
  BY <1>1, <1>7, <1>8 DEF IInv, DailyCounted, LifetimeCounted, DailyJobs, Roles
<1> QED BY <1>4, <1>5, <1>12, <1>13 DEF IInv

LEMMA FailStep ==
  ASSUME IInv, NEW j \in Jobs, FailJob(j)
  PROVE  IInv'
<1>1. /\ job[j].status = "ACTIVE"
      /\ job' = [job EXCEPT ![j].status = "FAILED"]
      /\ UNCHANGED <<sender, globalReserved, globalCompleted, dailyReserved,
                     dailyCompleted, today, registering>>
  BY DEF FailJob
<1>2. TypeOK' BY <1>1 DEF IInv, TypeOK, Job
<1>3. \A i \in Jobs :
        /\ job'[i].sender = job[i].sender /\ job'[i].day = job[i].day
        /\ job'[i].as = job[i].as
        /\ job'[i].status = IF i = j THEN "FAILED" ELSE job[i].status
  BY <1>1 DEF IInv, TypeOK, Job
<1>4. \A d \in Days : Accepted(d)' = Accepted(d) /\ Done(d)' = Done(d)
  BY <1>1, <1>3 DEF Accepted, Done
<1>5. \A t \in Senders, r \in Roles : AcceptedFrom(t, r)' = AcceptedFrom(t, r)
  BY <1>1, <1>3 DEF AcceptedFrom
<1> QED BY <1>1, <1>2, <1>4, <1>5
        DEF IInv, DisabledWhenUsedUp, GlobalCounted, DailyCounted, LifetimeCounted,
            DailyJobs, Roles

LEMMA InvStep == IInv /\ [Next]_vars => IInv'
<1> SUFFICES ASSUME IInv, [Next]_vars PROVE IInv'
    OBVIOUS
<1>1. ASSUME UNCHANGED <<sender, job, globalReserved, globalCompleted, dailyReserved,
                         dailyCompleted>>,
             today' \in Days, registering' \subseteq Senders \X CodeRoles
      PROVE  IInv'
  <2>1. TypeOK' /\ DisabledWhenUsedUp'
    BY <1>1 DEF IInv, TypeOK, DisabledWhenUsedUp
  <2>2. \A d \in Days : Accepted(d)' = Accepted(d) /\ Done(d)' = Done(d)
    BY <1>1 DEF Accepted, Done
  <2>3. \A t \in Senders, r \in Roles : AcceptedFrom(t, r)' = AcceptedFrom(t, r)
    BY <1>1 DEF AcceptedFrom
  <2> QED BY <1>1, <2>1, <2>2, <2>3
          DEF IInv, GlobalCounted, DailyCounted, LifetimeCounted, DailyJobs, Roles
<1>2. CASE \E s \in Senders, role \in CodeRoles :
             FindNoSender(s, role) \/ InsertSender(s, role) \/ Register(s, role)
  <2>0. PICK s \in Senders, role \in CodeRoles :
          FindNoSender(s, role) \/ InsertSender(s, role) \/ Register(s, role)
    BY <1>2
  <2>1. CASE FindNoSender(s, role) \/ (InsertSender(s, role) /\ NumberTaken(s))
    <3>1. /\ UNCHANGED <<sender, job, globalReserved, globalCompleted, dailyReserved,
                         dailyCompleted, today>>
          /\ registering' \subseteq Senders \X CodeRoles
      BY <2>1 DEF FindNoSender, InsertSender, IInv, TypeOK
    <3> QED BY <1>1, <3>1 DEF IInv, TypeOK
  <2>2. CASE Register(s, role) \/ (InsertSender(s, role) /\ ~NumberTaken(s))
    BY <2>2, RegisterStep
  <2> QED BY <2>0, <2>1, <2>2
<1>3. CASE \E j \in Jobs, s \in Senders : SubmitText(j, s) \/ CreateOrGetAccepted(j, s)
  BY <1>3, AcceptStep DEF SubmitText, CreateOrGetAccepted
<1>4. CASE \E j \in Jobs : CompleteText(j) \/ CompleteAudio(j) \/ FailJob(j)
  BY <1>4, CompleteStep, FailStep
<1>5. CASE NextDay \/ UNCHANGED vars
  BY <1>1, <1>5 DEF NextDay, vars, IInv, TypeOK
<1> QED BY <1>2, <1>3, <1>4, <1>1, <1>5 DEF Next

-------------------------------------------------------------------------------

\* Type correctness: no reservation ever breaks the CHECK on paid_messages_used.
THEOREM QuotaTypeCorrect == Spec => []TypeOK
<1>1. IInv => TypeOK BY DEF IInv
<1> QED BY InvInit, InvStep, <1>1, PTL DEF Spec

\* On no day are more jobs accepted than the global limit.
THEOREM GlobalCapHolds == Spec => []GlobalCap
<1>1. IInv => GlobalCap BY DEF IInv, GlobalCounted, GlobalCap
<1> QED BY InvInit, InvStep, <1>1, PTL DEF Spec

\* A permitted user never has more jobs accepted on a day than its limit.
THEOREM DailyCapHolds == Spec => []DailyCap
<1>1. IInv => DailyCap BY DEF IInv, DailyCounted, DailyJobs, DailyCap
<1> QED BY InvInit, InvStep, <1>1, PTL DEF Spec

\* Nobody but the tester ever has more jobs accepted as a recruiter than the
\* lifetime limit, in any order of registrations and submissions.
THEOREM RecruiterLifetimeCapHolds == Spec => []RecruiterLifetimeCap
<1>1. IInv => RecruiterLifetimeCap BY DEF IInv, LifetimeCounted, RecruiterLifetimeCap
<1> QED BY InvInit, InvStep, <1>1, PTL DEF Spec

\* A sender is disabled exactly when it is a recruiter with nothing left.
THEOREM DisabledWhenUsedUpHolds == Spec => []DisabledWhenUsedUp
<1>1. IInv => DisabledWhenUsedUp BY DEF IInv
<1> QED BY InvInit, InvStep, <1>1, PTL DEF Spec

\* A permitted user stays one, and a recruiter keeps what it has used, whatever
\* registrations overlap.
THEOREM PermittedForGoodHolds == Spec => PermittedForGood
<1> DEFINE Kept == \A s \in Senders \ {Tester} :
      /\ sender[s].role = "PERMITTED_USER" => sender'[s].role = "PERMITTED_USER"
      /\ sender[s].role = "RECRUITER" /\ sender'[s].role = "RECRUITER" =>
           sender'[s].used >= sender[s].used
<1>1. IInv /\ [Next]_vars => [Kept]_vars
  <2> SUFFICES ASSUME IInv, Next PROVE Kept
      OBVIOUS
  <2> USE LimitsAssumption
  <2>0. sender \in [Senders -> Sender] /\ \A s \in Senders : sender[s].used \in Nat
    BY DEF IInv, TypeOK, Sender
  <2>1. CASE UNCHANGED sender
    BY <2>0, <2>1
  <2>2. ASSUME NEW t \in Senders, NEW role \in CodeRoles,
               Register(t, role) \/ (InsertSender(t, role) /\ ~NumberTaken(t))
        PROVE  Kept
    <3>1. sender' = [sender EXCEPT ![t] = Registered(role)]
      BY <2>2 DEF Register, InsertSender
    <3>2. \/ t = Tester
          \/ /\ sender[t].role = "PERMITTED_USER" => role = "PERMITTED_USER"
             /\ sender[t].role = "RECRUITER" => role = "PERMITTED_USER"
      BY <2>2 DEF Register, InsertSender, NumberTaken, RegistrationTransition, CodeRoles
    <3>3. sender'[t].role = role BY <2>0, <3>1 DEF Registered
    <3>4. \A s \in Senders \ {t} : sender'[s] = sender[s] BY <2>0, <3>1
    <3> QED BY <2>0, <3>2, <3>3, <3>4
  <2>3. ASSUME NEW j \in Jobs, NEW t \in Senders, Accept(j, t)
        PROVE  Kept
    <3>1. \/ UNCHANGED sender
          \/ /\ sender[t].role = "RECRUITER"
             /\ \E status \in {"ACTIVE", "DISABLED"} : sender' =
                  [sender EXCEPT ![t].used = @ + 1, ![t].status = status]
      BY <2>3 DEF Accept, ReserveDaily, ReserveLifetime
    <3>2. CASE UNCHANGED sender
      BY <2>1, <3>2
    <3>3. ASSUME NEW status \in {"ACTIVE", "DISABLED"},
                 sender' = [sender EXCEPT ![t].used = @ + 1, ![t].status = status]
          PROVE  Kept
      <4>1. /\ sender'[t].role = sender[t].role
            /\ sender'[t].used = sender[t].used + 1
        BY <2>0, <3>3 DEF Sender
      <4>2. \A s \in Senders \ {t} : sender'[s] = sender[s] BY <2>0, <3>3
      <4> QED BY <2>0, <4>1, <4>2
    <3> QED BY <3>1, <3>2, <3>3
  <2>4. CASE \E s \in Senders, role \in CodeRoles :
               FindNoSender(s, role) \/ InsertSender(s, role) \/ Register(s, role)
    BY <2>1, <2>2, <2>4 DEF FindNoSender, InsertSender
  <2>5. CASE \E j \in Jobs, s \in Senders : SubmitText(j, s) \/ CreateOrGetAccepted(j, s)
    BY <2>3, <2>5 DEF SubmitText, CreateOrGetAccepted
  <2>6. CASE (\E j \in Jobs : CompleteText(j) \/ CompleteAudio(j) \/ FailJob(j)) \/ NextDay
    BY <2>1, <2>6 DEF CompleteText, CompleteAudio, FailJob, NextDay
  <2> QED BY <2>4, <2>5, <2>6 DEF Next
<1> QED BY InvInit, InvStep, <1>1, PTL DEF Spec, PermittedForGood

\* The error "global completion reservation missing" is never met.
THEOREM CompletionNeverRefusedHolds == Spec => []CompletionNeverRefused
<1>1. IInv => CompletionNeverRefused
  BY RoomToComplete DEF CompletionNeverRefused, Jobs
<1> QED BY InvInit, InvStep, <1>1, PTL DEF Spec
===============================================================================
