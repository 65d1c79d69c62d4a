--------------------------------- MODULE Intake ---------------------------------
(***************************************************************************)
(* What stands before the two pipelines: the webhook that saves messages   *)
(* (Webhook), the intake loop that takes each of them up as often as it    *)
(* must, and the rate limiter it asks every time (RateLimiter), together   *)
(* with the HTTP uploads that share the sender's counter.  What becomes of *)
(* a message that is let through is in TextPipeline and AudioPipeline;     *)
(* here it is answered, retried, or left to a job that ends it at once.    *)
(***************************************************************************)
EXTENDS Webhook, RateLimiter

CONSTANTS
  Processors,  \* intake loops
  KeyOf,       \* [Messages -> Keys]: the counter of the sender and the kind
  UploadKeys,  \* counters that HTTP uploads use too
  Late,        \* intake loops that may hold a message for over five minutes
  Nobody       \* the message of a processor that has none

ASSUME IntakeAssumption ==
  /\ Messages \subseteq Passes
  /\ KeyOf \in [Messages -> Keys]
  /\ UploadKeys \subseteq Keys
  /\ Late \subseteq Processors
  /\ Nobody \notin Messages

VARIABLES
  processor,  \* local state of Processor.ProcessOne
  passed,     \* history: messages let through, while their pass lasts
  answer      \* what a message came to

vars == <<inbound, type, codes, request, delivered, count, ttl, pass, recent,
          processor, passed, answer>>

intakeVars == <<processor, passed, answer>>

Polling(pc) == [pc |-> pc, message |-> Nobody, attempts |-> 0, result |-> "none"]

Init ==
  /\ InitWebhook
  /\ InitLimiter
  /\ processor = [p \in Processors |-> Polling("reconcile")]
  /\ passed = {}
  /\ answer = [m \in Messages |-> "none"]

\* process answers without the limiter: a type that is not supported, or a voice
\* note of a sender that may send none.
Unlimited(m) == type[m] \in {"other", "audio"}

Limited(m) == type[m] # "other"

\* The WHERE of ReconcileInbound.
Reconcilable(m) ==
  /\ inbound[m].attempts >= IntakeAttempts
  /\ inbound[m].status \in {"PENDING", "FAILED"} \/ Abandoned(inbound[m])

\* ReconcileInbound: the loop turns again, before it claims anything.
Reconcile(p, m) ==
  /\ processor[p].pc = "reconcile"
  /\ Reconcilable(m)
  /\ inbound' = [inbound EXCEPT ![m] = FailedRow(@)]
  /\ answer' = [answer EXCEPT ![m] = IF @ = "none" THEN "failed" ELSE @]
  /\ UNCHANGED <<type, codes, request, delivered, processor, passed>>
  /\ UNCHANGED limiterVars

\* It found none that no other processor has locked.
NothingToReconcile(p) ==
  /\ processor[p].pc = "reconcile"
  /\ Cardinality({m \in Messages : Reconcilable(m)}) <=
       Cardinality({q \in Processors \ {p} : processor[q].pc = "reconcile"})
  /\ processor' = [processor EXCEPT ![p] = Polling("claim")]
  /\ UNCHANGED <<inbound, type, codes, request, delivered, passed, answer>>
  /\ UNCHANGED limiterVars

\* Mutant: a message may be taken up once too often.
MutClaimable(m) == Waiting(inbound[m]) \/ Abandoned(inbound[m])

\* The WHERE of ClaimInbound.
Claimable(m) ==
  /\ inbound[m].attempts < IntakeAttempts
  /\ Waiting(inbound[m]) \/ Abandoned(inbound[m])

\* ClaimInbound.
Claim(p, m) ==
  /\ processor[p].pc = "claim"
  /\ Claimable(m)
  /\ inbound' = [inbound EXCEPT ![m] = ClaimedRow(@)]
  /\ processor' = [processor EXCEPT ![p] =
       [pc |-> "check", message |-> m, attempts |-> inbound[m].attempts + 1,
        result |-> "none"]]
  /\ UNCHANGED <<type, codes, request, delivered, passed, answer>>
  /\ UNCHANGED limiterVars

NothingToClaim(p) ==
  /\ processor[p].pc = "claim"
  /\ \A m \in Messages : ~Claimable(m)
  /\ processor' = [processor EXCEPT ![p] = Polling("reconcile")]
  /\ UNCHANGED <<inbound, type, codes, request, delivered, passed, answer>>
  /\ UNCHANGED limiterVars

\* process returns: what it returns is settled in a transaction of its own.
Return(p, result) ==
  processor' = [processor EXCEPT ![p].pc = "settle", ![p].result = result]

\* What an error comes to, of Redis too: it is retried while attempts are left.
Failure(p) == IF processor[p].attempts < IntakeAttempts THEN "retry" ELSE "failed"

\* AllowMessage, as Redis carries it out; the message is let through or not.
Asked(m, allowed) ==
  /\ AllowMessage(KeyOf[m], m, allowed)
  /\ passed' = IF allowed THEN passed \union {m} ELSE passed

\* The check of processText, processAudio and processRegistrationAttempt.
Admit(p) ==
  LET m == processor[p].message IN
  /\ processor[p].pc = "check"
  /\ \/ /\ Unlimited(m)
        /\ Return(p, "notice")
        /\ UNCHANGED limiterVars
        /\ UNCHANGED passed
     \/ /\ Limited(m)
        /\ Asked(m, TRUE)
        /\ processor' = [processor EXCEPT ![p].pc = "work"]
     \/ /\ Limited(m)
        /\ Asked(m, FALSE)
        /\ Return(p, "too many")
  /\ UNCHANGED <<inbound, type, codes, request, delivered, answer>>

\* Redis did not run the script, or did and could not say so.
CheckFails(p) ==
  LET m == processor[p].message IN
  /\ processor[p].pc = "check"
  /\ Limited(m)
  /\ \/ UNCHANGED limiterVars /\ UNCHANGED passed
     \/ \E allowed \in BOOLEAN : Asked(m, allowed)
  /\ Return(p, Failure(p))
  /\ UNCHANGED <<inbound, type, codes, request, delivered, answer>>

\* What follows the check is answered, or goes wrong.
Work(p) ==
  /\ processor[p].pc = "work"
  /\ \E result \in {"done", Failure(p)} : Return(p, result)
  /\ UNCHANGED <<inbound, type, codes, request, delivered, passed, answer>>
  /\ UNCHANGED limiterVars

Answered(m, kind) == answer' = [answer EXCEPT ![m] = IF @ = "none" THEN kind ELSE @]

\* A text or a voice note that is PROCESSING is left to a job, which ends it.
HandOver(p) ==
  LET m == processor[p].message IN
  /\ processor[p].pc = "work"
  /\ type[m] \in {"text", "audio"}
  /\ inbound[m].status = "PROCESSING"
  /\ inbound' = [inbound EXCEPT ![m] = CompletedRow(@)]
  /\ Answered(m, "done")
  /\ processor' = [processor EXCEPT ![p] = Polling("reconcile")]
  /\ UNCHANGED <<type, codes, request, delivered, passed>>
  /\ UNCHANGED limiterVars

RetryInbound(p) ==
  /\ processor[p].pc = "settle" /\ processor[p].result = "retry"
  /\ inbound' = [inbound EXCEPT ![processor[p].message] = RetriedRow(@)]
  /\ processor' = [processor EXCEPT ![p] = Polling("reconcile")]
  /\ UNCHANGED <<type, codes, request, delivered, passed, answer>>
  /\ UNCHANGED limiterVars

\* It asks whether the row is PROCESSING, not by whose claim; one reply per message.
CompleteInbound(p) ==
  LET m == processor[p].message IN
  /\ processor[p].pc = "settle" /\ processor[p].result # "retry"
  /\ IF inbound[m].status = "PROCESSING"
     THEN /\ inbound' = [inbound EXCEPT ![m] = CompletedRow(@)]
          /\ Answered(m, processor[p].result)
     ELSE UNCHANGED <<inbound, answer>>
  /\ processor' = [processor EXCEPT ![p] = Polling("reconcile")]
  /\ UNCHANGED <<type, codes, request, delivered, passed>>
  /\ UNCHANGED limiterVars

\* The intake loop stops and is started again.
Stop(p) ==
  /\ processor[p].pc \in {"check", "work", "settle"}
  /\ processor' = [processor EXCEPT ![p] = Polling("reconcile")]
  /\ UNCHANGED <<inbound, type, codes, request, delivered, passed, answer>>
  /\ UNCHANGED limiterVars

\* Five minutes have passed since it was claimed.
Expire(m) ==
  /\ inbound[m].status = "PROCESSING" /\ ~inbound[m].stale
  /\ \A p \in Processors \ Late : processor[p].message # m
  /\ inbound' = [inbound EXCEPT ![m].stale = TRUE]
  /\ UNCHANGED <<type, codes, request, delivered, processor, passed, answer>>
  /\ UNCHANGED limiterVars

Upload(key) ==
  /\ \E allowed \in BOOLEAN : Allow(key, allowed)
  /\ UNCHANGED webhookVars
  /\ UNCHANGED intakeVars

TimePasses ==
  /\ Tick
  /\ UNCHANGED webhookVars
  /\ UNCHANGED intakeVars

ForgetPass(m) ==
  /\ PassExpires(m)
  /\ passed' = passed \ {m}
  /\ UNCHANGED webhookVars
  /\ UNCHANGED <<processor, answer>>

Receive ==
  /\ WebhookNext
  /\ UNCHANGED limiterVars
  /\ UNCHANGED intakeVars

Next ==
  \/ Receive
  \/ \E p \in Processors :
       \/ \E m \in Messages : Reconcile(p, m) \/ Claim(p, m)
       \/ NothingToReconcile(p) \/ NothingToClaim(p)
       \/ Admit(p) \/ CheckFails(p) \/ Work(p) \/ HandOver(p)
       \/ RetryInbound(p) \/ CompleteInbound(p) \/ Stop(p)
  \/ \E m \in Messages : Expire(m)
  \/ \E m \in Passes : ForgetPass(m)
  \/ \E key \in UploadKeys : Upload(key)
  \/ TimePasses

Spec == Init /\ [][Next]_vars

-------------------------------------------------------------------------------
\* Properties; those of Webhook and RateLimiter hold here too.

TypeOK ==
  /\ WebhookTypeOK
  /\ LimiterTypeOK
  /\ processor \in [Processors ->
       [pc : {"reconcile", "claim", "check", "work", "settle"},
        message : Messages \union {Nobody}, attempts : 0..IntakeAttempts,
        result : {"none", "retry", "notice", "too many", "failed", "done"}]]
  /\ passed \subseteq Messages
  /\ answer \in [Messages -> {"none", "notice", "too many", "failed", "done"}]

\* A message that was let through is not told that there were too many, when it is
\* taken up again after a failure or by another processor, however full the window
\* is by then; even if nobody learnt that it was let through.  As long as no processor
\* is late: one that was refused, and takes over five minutes to say so, says so of a
\* message that another has taken up in the next window.
LetThroughForGood ==
  [][\A m \in passed : answer'[m] = "too many" => answer[m] = "too many"]_vars
===============================================================================
