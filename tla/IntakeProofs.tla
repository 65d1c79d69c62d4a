------------------------------ MODULE IntakeProofs ------------------------------
(***************************************************************************)
(* What TLAPS proves about Intake: for any messages, batches, limits and   *)
(* any number of requests and processors.                                  *)
(***************************************************************************)
EXTENDS Intake, RateLimiterProofs

\* A request saves a batch that could be parsed, and what it got past is saved.
RequestSaved(r) ==
  Saving(r) =>
    /\ request[r].delivery \in Deliveries
    /\ request[r].saved \in 0..Len(BatchOf[request[r].delivery])
    /\ Parsed(request[r].delivery)
    /\ \A i \in 1..request[r].saved :
         inbound[BatchOf[request[r].delivery][i]].status # "ABSENT"

WebhookInv ==
  /\ inbound \in [Messages -> InboundRows(IntakeAttempts)]
  /\ type \in [Messages -> Types]
  /\ codes \in CodeSettings
  /\ request \in [Requests -> Request]
  /\ delivered \subseteq Deliveries
  /\ \A r \in Requests : RequestSaved(r)
  /\ DeliveredIsSaved

Answers == {"none", "notice", "too many", "failed", "done"}

Results == {"none", "retry", "notice", "too many", "failed", "done"}

ProcessorState ==
  [pc : {"reconcile", "claim", "check", "work", "settle"},
   message : Messages \union {Nobody}, attempts : 0..IntakeAttempts,
   result : Results]

\* It has claimed a message and not settled it.
Busy(p) == processor[p].pc \in {"check", "work", "settle"}

ProcessorInv ==
  /\ processor \in [Processors -> ProcessorState]
  /\ \A p \in Processors :
       /\ Busy(p) => processor[p].message \in Messages
       /\ processor[p].pc = "settle" => processor[p].result # "none"
  /\ passed \subseteq Messages
  /\ answer \in [Messages -> Answers]

\* Who was let through has a pass.
PassKept == \A m \in passed : HasPass(m)

IntakeInv == WebhookInv /\ ProcessorInv /\ LimiterInv /\ PassKept

-------------------------------------------------------------------------------
\* The rows.

\* A row that is there stays, and is never less attempted.
RowsKept ==
  /\ inbound' \in [Messages -> InboundRows(IntakeAttempts)]
  /\ \A m \in Messages : inbound[m].status # "ABSENT" =>
       /\ inbound'[m].status # "ABSENT"
       /\ inbound'[m].attempts >= inbound[m].attempts

\* What a row may be replaced by.
Later(row, new) ==
  /\ new \in InboundRows(IntakeAttempts)
  /\ new.attempts >= row.attempts
  /\ row.status # "ABSENT" => new.status # "ABSENT"

\* The writes of the intake loop and of the clock are of this kind.
LEMMA RowWrites ==
  ASSUME NEW row \in InboundRows(IntakeAttempts)
  PROVE  /\ Later(row, RetriedRow(row))
         /\ Later(row, CompletedRow(row))
         /\ Later(row, FailedRow(row))
         /\ Later(row, [row EXCEPT !.stale = TRUE])
         /\ row.attempts < IntakeAttempts => Later(row, ClaimedRow(row))
<1>1. IntakeAttempts \in Nat BY WebhookAssumption
<1>2. row.attempts \in Nat BY <1>1 DEF InboundRows
<1>3. /\ RetriedRow(row) \in InboundRows(IntakeAttempts)
      /\ RetriedRow(row).attempts = row.attempts
      /\ row.status # "ABSENT" => RetriedRow(row).status # "ABSENT"
  BY DEF RetriedRow, InboundRows, InboundStatuses
<1>4. /\ CompletedRow(row) \in InboundRows(IntakeAttempts)
      /\ CompletedRow(row).attempts = row.attempts
      /\ CompletedRow(row).status # "ABSENT"
  BY DEF CompletedRow, InboundRows, InboundStatuses
<1>5. /\ FailedRow(row) \in InboundRows(IntakeAttempts)
      /\ FailedRow(row).attempts = row.attempts
      /\ FailedRow(row).status # "ABSENT"
  BY DEF FailedRow, InboundRows, InboundStatuses
<1>6. /\ [row EXCEPT !.stale = TRUE] \in InboundRows(IntakeAttempts)
      /\ [row EXCEPT !.stale = TRUE].attempts = row.attempts
      /\ [row EXCEPT !.stale = TRUE].status = row.status
  BY DEF InboundRows, InboundStatuses
<1>7. ASSUME row.attempts < IntakeAttempts
      PROVE  /\ ClaimedRow(row) \in InboundRows(IntakeAttempts)
             /\ ClaimedRow(row).attempts = row.attempts + 1
             /\ ClaimedRow(row).status # "ABSENT"
  <2>1. row.attempts + 1 \in 0..IntakeAttempts BY <1>1, <1>2, <1>7
  <2> QED BY <2>1 DEF ClaimedRow, InboundRows, InboundStatuses
<1>8. /\ row.attempts >= row.attempts /\ row.attempts + 1 >= row.attempts
  BY <1>2
<1> QED BY <1>3, <1>4, <1>5, <1>6, <1>7, <1>8 DEF Later

\* One row is written, as one of them does it.
LEMMA OneRow ==
  ASSUME WebhookInv, NEW m \in Messages, NEW new, Later(inbound[m], new),
         inbound' = [inbound EXCEPT ![m] = new]
  PROVE  RowsKept
<1>1. \A n \in Messages : inbound[n].attempts \in Nat
  BY WebhookAssumption DEF WebhookInv, InboundRows
<1> QED BY <1>1 DEF WebhookInv, RowsKept, Later

LEMMA SameRows ==
  ASSUME WebhookInv, UNCHANGED inbound
  PROVE  RowsKept
<1>1. \A n \in Messages : inbound[n].attempts \in Nat
  BY WebhookAssumption DEF WebhookInv, InboundRows
<1> QED BY <1>1 DEF WebhookInv, RowsKept

LEMMA Rewritten ==
  ASSUME WebhookInv, NEW m \in Messages,
         \/ inbound' = [inbound EXCEPT ![m] = RetriedRow(inbound[m])]
         \/ inbound' = [inbound EXCEPT ![m] = CompletedRow(inbound[m])]
         \/ inbound' = [inbound EXCEPT ![m] = FailedRow(inbound[m])]
         \/ inbound' = [inbound EXCEPT ![m] = [inbound[m] EXCEPT !.stale = TRUE]]
         \/ /\ inbound[m].attempts < IntakeAttempts
            /\ inbound' = [inbound EXCEPT ![m] = ClaimedRow(inbound[m])]
  PROVE  RowsKept
<1>1. inbound[m] \in InboundRows(IntakeAttempts) BY DEF WebhookInv
<1>2. PICK new : Later(inbound[m], new) /\ inbound' = [inbound EXCEPT ![m] = new]
  BY <1>1, RowWrites
<1> QED BY <1>2, OneRow

\* The loop and the clock write rows and nothing else of the webhook's.
LoopOrClock ==
  \/ \E p \in Processors :
       \/ \E m \in Messages : Reconcile(p, m) \/ Claim(p, m)
       \/ NothingToReconcile(p) \/ NothingToClaim(p)
       \/ Admit(p) \/ CheckFails(p) \/ Work(p) \/ HandOver(p)
       \/ RetryInbound(p) \/ CompleteInbound(p) \/ Stop(p)
  \/ \E m \in Messages : Expire(m)
  \/ \E m \in Passes : ForgetPass(m)
  \/ \E key \in UploadKeys : Upload(key)
  \/ TimePasses

LEMMA LoopKeeps ==
  ASSUME WebhookInv, ProcessorInv, LoopOrClock
  PROVE  RowsKept /\ UNCHANGED <<type, codes, request, delivered>>
<1>1. ASSUME NEW p \in Processors, NEW m \in Messages, Reconcile(p, m) PROVE RowsKept
  BY <1>1, Rewritten DEF Reconcile, WebhookInv
<1>2. ASSUME NEW p \in Processors, NEW m \in Messages, Claim(p, m) PROVE RowsKept
  BY <1>2, Rewritten DEF Claim, Claimable, WebhookInv
<1>3. ASSUME NEW p \in Processors,
             HandOver(p) \/ RetryInbound(p) \/ CompleteInbound(p)
      PROVE  RowsKept
  <2> DEFINE m == processor[p].message
  <2>1. m \in Messages
    BY <1>3 DEF HandOver, RetryInbound, CompleteInbound, ProcessorInv, Busy
  <2>2. \/ inbound' = [inbound EXCEPT ![m] = CompletedRow(inbound[m])]
        \/ inbound' = [inbound EXCEPT ![m] = RetriedRow(inbound[m])]
        \/ UNCHANGED inbound
    BY <1>3, <2>1 DEF HandOver, RetryInbound, CompleteInbound, WebhookInv
  <2> HIDE DEF m
  <2> QED BY <2>1, <2>2, Rewritten, SameRows
<1>4. ASSUME NEW m \in Messages, Expire(m) PROVE RowsKept
  BY <1>4, Rewritten DEF Expire, WebhookInv
<1>5. ASSUME UNCHANGED inbound PROVE RowsKept BY <1>5, SameRows
<1>6. RowsKept
  BY <1>1, <1>2, <1>3, <1>4, <1>5
     DEF LoopOrClock, NothingToReconcile, NothingToClaim, Admit, CheckFails, Work,
         Stop, ForgetPass, Upload, TimePasses, webhookVars
<1>7. UNCHANGED <<type, codes, request, delivered>>
  BY DEF LoopOrClock, Reconcile, Claim, Admit, CheckFails, Work, HandOver,
     RetryInbound, CompleteInbound, Expire, NothingToReconcile, NothingToClaim, Stop,
     ForgetPass, Upload, TimePasses, webhookVars
<1> QED BY <1>6, <1>7

LEMMA LoopInv ==
  ASSUME WebhookInv, RowsKept, UNCHANGED <<type, codes, request, delivered>>
  PROVE  WebhookInv'
<1>b. BatchOf \in [Deliveries -> Seq(Messages)] BY WebhookAssumption
<1>1. ASSUME NEW r \in Requests PROVE RequestSaved(r)'
  <2> SUFFICES ASSUME Saving(r) PROVE RequestSaved(r)'
    BY DEF RequestSaved, Saving
  <2>1. RequestSaved(r) /\ Saving(r) BY DEF WebhookInv
  <2> DEFINE d == request[r].delivery
  <2>2. ASSUME NEW i \in 1..request[r].saved
        PROVE  BatchOf[d][i] \in Messages
    BY <1>b, <2>1 DEF RequestSaved
  <2> QED BY <2>1, <2>2 DEF RequestSaved, RowsKept, Saving, Parsed
<1>2. DeliveredIsSaved'
  <2>1. \A d \in delivered : \A i \in DOMAIN BatchOf[d] : BatchOf[d][i] \in Messages
    BY <1>b DEF WebhookInv
  <2> QED BY <2>1 DEF WebhookInv, DeliveredIsSaved, RowsKept
<1> QED BY <1>1, <1>2 DEF WebhookInv, RowsKept

-------------------------------------------------------------------------------
\* The webhook.

\* A request that is saving is a record of that form.
LEMMA SavingRequest ==
  ASSUME WebhookInv, NEW r \in Requests, Saving(r)
  PROVE  /\ request[r].delivery \in Deliveries
         /\ request[r].saved \in 0..Len(BatchOf[request[r].delivery])
         /\ request[r] = [state |-> "saving", delivery |-> request[r].delivery,
                          saved |-> request[r].saved]
         /\ BatchOf[request[r].delivery] \in Seq(Messages)
         /\ Len(BatchOf[request[r].delivery]) \in Nat
<1>1. RequestSaved(r) BY DEF WebhookInv
<1>2. request[r] # NoRequest BY DEF Saving, NoRequest
<1>3. PICK d \in Deliveries :
        request[r] \in [state : {"saving"}, delivery : {d}, saved : 0..Len(BatchOf[d])]
  BY <1>2 DEF WebhookInv, Request
<1>4. request[r] = [state |-> "saving", delivery |-> request[r].delivery,
                    saved |-> request[r].saved]
  BY <1>3
<1>5. BatchOf[request[r].delivery] \in Seq(Messages)
  BY <1>1, WebhookAssumption DEF RequestSaved
<1> QED BY <1>1, <1>4, <1>5 DEF RequestSaved

\* Positions of a batch.
LEMMA Following ==
  ASSUME NEW n \in Nat, NEW k \in 0..n, k # n
  PROVE  k + 1 \in 1..n /\ k + 1 \in 0..n
OBVIOUS

LEMMA Position ==
  ASSUME NEW batch \in Seq(Messages), NEW k \in 0..Len(batch)
  PROVE  /\ k \in Nat /\ Len(batch) \in Nat
         /\ DOMAIN batch = 1..Len(batch)
         /\ \A i \in 1..k : batch[i] \in Messages
         /\ k # Len(batch) =>
              /\ k + 1 \in 1..Len(batch) /\ k + 1 \in 0..Len(batch)
              /\ k + 1 \in DOMAIN batch
              /\ batch[k + 1] \in Messages
<1>1. Len(batch) \in Nat /\ DOMAIN batch = 1..Len(batch) OBVIOUS
<1>2. k \in Nat /\ k <= Len(batch) BY <1>1
<1>3. k # Len(batch) => k + 1 \in 1..Len(batch) /\ k + 1 \in 0..Len(batch)
  BY <1>1, Following
<1>4. \A i \in 1..Len(batch) : batch[i] \in Messages OBVIOUS
<1>5. \A i \in 1..k : i \in 1..Len(batch) BY <1>1, <1>2
<1> QED BY <1>1, <1>2, <1>3, <1>4, <1>5

\* What a request comes to next.
LEMMA NextOfRequest ==
  ASSUME WebhookInv, NEW r \in Requests, Saving(r), ~Complete(r)
  PROVE  /\ request[r].saved + 1 \in 0..Len(BatchOf[request[r].delivery])
         /\ NextMessage(r) \in Messages
         /\ ContentOf[NextMessage(r)] \in MessageContents \ {"malformed"}
<1>1. /\ BatchOf[request[r].delivery] \in Seq(Messages)
      /\ request[r].saved \in 0..Len(BatchOf[request[r].delivery])
  BY SavingRequest
<1>2. request[r].saved # Len(BatchOf[request[r].delivery]) BY DEF Complete
<1>3. /\ request[r].saved + 1 \in 0..Len(BatchOf[request[r].delivery])
      /\ request[r].saved + 1 \in DOMAIN BatchOf[request[r].delivery]
      /\ NextMessage(r) \in Messages
  BY <1>1, <1>2, Position DEF NextMessage
<1>4. Parsed(request[r].delivery) BY DEF WebhookInv, RequestSaved
<1>5. ContentOf[NextMessage(r)] # "malformed"
  BY <1>3, <1>4 DEF Parsed, NextMessage
<1>6. ContentOf[NextMessage(r)] \in MessageContents BY <1>3, WebhookAssumption
<1> QED BY <1>3, <1>5, <1>6

LEMMA SaveKeeps ==
  ASSUME WebhookInv, NEW m \in Messages, SaveInbound(m),
         ContentOf[m] \in MessageContents \ {"malformed", "unsavable"}
  PROVE  /\ RowsKept
         /\ inbound'[m].status # "ABSENT"
         /\ type' \in [Messages -> Types]
         /\ \A n \in Messages : inbound[n].status # "ABSENT" => type'[n] = type[n]
<1>1. CASE ConflictDoesNothing(m)
  BY <1>1, SameRows DEF SaveInbound, ConflictDoesNothing, WebhookInv
<1>2. CASE ~ConflictDoesNothing(m)
  <2>1. /\ inbound' = [inbound EXCEPT ![m] = NewRow]
        /\ type' = [type EXCEPT ![m] = Classified(ContentOf[m])]
        /\ inbound[m].status = "ABSENT"
    BY <1>2 DEF SaveInbound, ConflictDoesNothing
  <2>2. NewRow \in InboundRows(IntakeAttempts) /\ NewRow.status # "ABSENT"
    BY WebhookAssumption DEF NewRow, InboundRows, InboundStatuses
  <2>3. Classified(ContentOf[m]) \in Types
    BY DEF Classified, Types, MessageContents, Codes
  <2>4. \A n \in Messages : inbound[n].attempts \in Nat
    BY WebhookAssumption DEF WebhookInv, InboundRows
  <2> QED BY <2>1, <2>2, <2>3, <2>4 DEF RowsKept, WebhookInv
<1> QED BY <1>1, <1>2

\* What a request may do to the others, and to what is told.
LEMMA RequestStep ==
  ASSUME WebhookInv, RowsKept, type' \in [Messages -> Types], codes' \in CodeSettings,
         UNCHANGED delivered,
         \A r \in Requests :
           request'[r] = request[r] \/ request'[r] = NoRequest \/ RequestSaved(r)',
         request' \in [Requests -> Request]
  PROVE  WebhookInv'
<1>b. BatchOf \in [Deliveries -> Seq(Messages)] BY WebhookAssumption
<1>1. ASSUME NEW r \in Requests PROVE RequestSaved(r)'
  <2>1. CASE request'[r] = NoRequest
    BY <2>1 DEF RequestSaved, Saving, NoRequest
  <2>2. CASE request'[r] = request[r] /\ Saving(r)
    <3>1. RequestSaved(r) BY DEF WebhookInv
    <3> DEFINE d == request[r].delivery
    <3>2. ASSUME NEW i \in 1..request[r].saved
          PROVE  BatchOf[d][i] \in Messages
      BY <1>b, <2>2, <3>1 DEF RequestSaved
    <3> QED BY <2>2, <3>1, <3>2 DEF RequestSaved, RowsKept, Saving, Parsed
  <2>3. CASE request'[r] = request[r] /\ ~Saving(r)
    BY <2>3 DEF RequestSaved, Saving
  <2> QED BY <2>1, <2>2, <2>3
<1>2. DeliveredIsSaved'
  <2>1. \A d \in delivered : \A i \in DOMAIN BatchOf[d] : BatchOf[d][i] \in Messages
    BY <1>b DEF WebhookInv
  <2> QED BY <2>1 DEF WebhookInv, DeliveredIsSaved, RowsKept
<1> QED BY <1>1, <1>2 DEF WebhookInv, RowsKept

LEMMA WebhookStep ==
  ASSUME WebhookInv, WebhookNext
  PROVE  /\ WebhookInv' /\ RowsKept
         /\ \A n \in Messages : inbound[n].status # "ABSENT" => type'[n] = type[n]
<1> DEFINE TypesKept ==
      \A n \in Messages : inbound[n].status # "ABSENT" => type'[n] = type[n]
<1>n. NoRequest \in Request BY DEF Request
<1>1. ASSUME NEW r \in Requests, NEW d \in Deliveries, Deliver(r, d)
      PROVE  WebhookInv' /\ RowsKept /\ TypesKept
  <2> DEFINE new == [state |-> "saving", delivery |-> d, saved |-> 0]
  <2>1. Len(BatchOf[d]) \in Nat BY WebhookAssumption
  <2>2. new \in Request BY <2>1 DEF Request
  <2>3. request' = [request EXCEPT ![r] = new] BY <1>1 DEF Deliver
  <2>4. RequestSaved(r)'
    BY <1>1, <2>1, <2>3 DEF RequestSaved, Deliver, Parsed, WebhookInv
  <2>5. RowsKept BY <1>1, SameRows DEF Deliver
  <2> QED BY <1>1, <2>2, <2>3, <2>4, <2>5, RequestStep DEF Deliver, WebhookInv
<1>2. ASSUME NEW r \in Requests, SaveNext(r)
      PROVE  WebhookInv' /\ RowsKept /\ TypesKept
  <2> DEFINE d == request[r].delivery
             new == [state |-> "saving", delivery |-> d,
                     saved |-> request[r].saved + 1]
  <2>1. Saving(r) /\ ~Complete(r) /\ UNCHANGED <<codes, delivered>>
    BY <1>2 DEF SaveNext
  <2>2. /\ RowsKept /\ TypesKept /\ type' \in [Messages -> Types]
        /\ inbound'[NextMessage(r)].status # "ABSENT"
    BY <1>2, <2>1, NextOfRequest, SaveKeeps DEF SaveNext, CanSave
  <2>a. /\ d \in Deliveries /\ BatchOf[d] \in Seq(Messages)
        /\ request[r].saved \in 0..Len(BatchOf[d])
    BY <2>1, SavingRequest
  <2>b. request[r].saved + 1 \in 0..Len(BatchOf[d]) BY <2>1, NextOfRequest
  <2>3. request' = [request EXCEPT ![r] = new]
    <3>1. request[r] = [state |-> "saving", delivery |-> d, saved |-> request[r].saved]
      BY <2>1, SavingRequest
    <3>2. [request[r] EXCEPT !.saved = request[r].saved + 1] = new
      BY <3>1
    <3>3. request' = [request EXCEPT ![r] =
                        [request[r] EXCEPT !.saved = request[r].saved + 1]]
      BY <1>2 DEF SaveNext
    <3> QED BY <3>2, <3>3
  <2>4. new \in Request
    <3>1. new \in [state : {"saving"}, delivery : {d}, saved : 0..Len(BatchOf[d])]
      BY <2>b
    <3> QED BY <2>a, <3>1 DEF Request
  <2>5. RequestSaved(r)'
    <3>1. RequestSaved(r) BY DEF WebhookInv
    <3>2. request'[r] = new BY <2>3 DEF WebhookInv
    <3>3. request[r].saved \in Nat BY <2>a, Position
    <3>4. ASSUME NEW i \in 1..(request[r].saved + 1)
          PROVE  inbound'[BatchOf[d][i]].status # "ABSENT"
      <4>1. CASE i = request[r].saved + 1
        BY <2>2, <4>1 DEF NextMessage
      <4>2. CASE i # request[r].saved + 1
        <5>1. i \in 1..request[r].saved BY <3>3, <4>2
        <5>2. BatchOf[d][i] \in Messages
          BY <2>a, <5>1, Position
        <5> QED BY <2>1, <2>2, <3>1, <5>1, <5>2 DEF RequestSaved, RowsKept
      <4> QED BY <4>1, <4>2
    <3>5. request'[r].delivery = d /\ request'[r].saved = request[r].saved + 1
      BY <3>2
    <3>6. Parsed(d) BY <2>1, <3>1 DEF RequestSaved
    <3>7. Parsed(request[r].delivery)' BY <3>5, <3>6 DEF Parsed
    <3> QED BY <2>a, <2>b, <3>4, <3>5, <3>7 DEF RequestSaved
  <2>6. \A q \in Requests \ {r} : request'[q] = request[q] BY <2>3 DEF WebhookInv
  <2>7. request' \in [Requests -> Request] BY <2>3, <2>4 DEF WebhookInv
  <2>8. codes' \in CodeSettings BY <2>1 DEF WebhookInv
  <2>9. WebhookInv' BY <2>1, <2>2, <2>5, <2>6, <2>7, <2>8, RequestStep
  <2> QED BY <2>2, <2>9
<1>3. ASSUME NEW r \in Requests, RefuseNext(r) \/ AbandonRequest(r)
      PROVE  WebhookInv' /\ RowsKept /\ TypesKept
  <2>1. /\ request' = [request EXCEPT ![r] = NoRequest]
        /\ UNCHANGED <<inbound, type, codes, delivered>>
    BY <1>3 DEF RefuseNext, AbandonRequest, Unavailable
  <2> QED BY <1>n, <2>1, SameRows, RequestStep DEF WebhookInv
<1>4. ASSUME NEW setting \in CodeSettings, Reconfigure(setting)
      PROVE  WebhookInv' /\ RowsKept /\ TypesKept
  <2>1. /\ request' = [q \in Requests |-> NoRequest] /\ codes' = setting
        /\ UNCHANGED <<inbound, type, delivered>>
    BY <1>4 DEF Reconfigure
  <2> QED BY <1>n, <2>1, SameRows, RequestStep DEF WebhookInv
<1>5. ASSUME NEW r \in Requests, Acknowledge(r)
      PROVE  WebhookInv' /\ RowsKept /\ TypesKept
  <2> DEFINE d == request[r].delivery
  <2>1. /\ request' = [request EXCEPT ![r] = NoRequest]
        /\ UNCHANGED <<inbound, type, codes>>
        /\ delivered' = delivered \union {d}
        /\ Saving(r) /\ request[r].saved = Len(BatchOf[d])
    BY <1>5 DEF Acknowledge, Complete
  <2>2. RowsKept BY <2>1, SameRows
  <2>3. \A q \in Requests : RequestSaved(q)'
    <3> SUFFICES ASSUME NEW q \in Requests PROVE RequestSaved(q)'
      OBVIOUS
    <3>1. CASE q = r
      BY <2>1, <3>1 DEF RequestSaved, Saving, NoRequest, WebhookInv
    <3>2. CASE q # r
      BY <2>1, <3>2 DEF RequestSaved, Saving, Parsed, WebhookInv
    <3> QED BY <3>1, <3>2
  <2>4. \A i \in DOMAIN BatchOf[d] : inbound[BatchOf[d][i]].status # "ABSENT"
    <3>1. DOMAIN BatchOf[d] = 1..request[r].saved BY <2>1, SavingRequest
    <3> QED BY <2>1, <3>1 DEF WebhookInv, RequestSaved
  <2>5. DeliveredIsSaved' BY <2>1, <2>4 DEF DeliveredIsSaved, WebhookInv
  <2>6. d \in Deliveries BY <2>1, SavingRequest
  <2> QED BY <1>n, <2>1, <2>2, <2>3, <2>5, <2>6 DEF WebhookInv
<1> QED BY <1>1, <1>2, <1>3, <1>4, <1>5 DEF WebhookNext

-------------------------------------------------------------------------------
\* The limiter.
LEMMA LimiterFacts ==
  ASSUME LimiterInv, NEW k \in Keys
  PROVE  /\ LimitOf[k] \in Nat \ {0} /\ Period \in Nat \ {0}
         /\ count[k] \in Nat /\ ttl[k] \in 0..Period
         /\ recent[k] \in SUBSET [age : Nat, place : Nat]
         /\ WindowInv(recent[k], count[k], ttl[k], LimitOf[k])
BY RateLimiterAssumption DEF LimiterInv

\* An operation that leaves every counter as the invariant wants it.
LEMMA LimiterStep ==
  ASSUME LimiterInv,
         count' = [k \in Keys |-> count'[k]],
         ttl' = [k \in Keys |-> ttl'[k]], recent' = [k \in Keys |-> recent'[k]],
         pass' \in [Passes -> [state : {"none", "old"}]
                              \union [state : {"fresh"}, key : Keys]],
         \A k \in Keys : WindowInv(recent'[k], count'[k], ttl'[k], LimitOf[k])
  PROVE  LimiterInv'
<1>1. ASSUME NEW k \in Keys
      PROVE  /\ count'[k] \in Nat /\ ttl'[k] \in 0..Period
             /\ recent'[k] \in SUBSET [age : Nat, place : Nat]
  <2>1. WindowInv(recent'[k], count'[k], ttl'[k], LimitOf[k]) OBVIOUS
  <2>2. LimitOf[k] \in Nat /\ Period \in Nat BY RateLimiterAssumption
  <2> QED BY <2>1, <2>2 DEF WindowInv
<1> QED BY <1>1 DEF LimiterInv

LEMMA CountKeeps ==
  ASSUME LimiterInv, NEW key \in Keys, Count(key),
         pass' \in [Passes -> [state : {"none", "old"}]
                              \union [state : {"fresh"}, key : Keys]]
  PROVE  LimiterInv'
<1> DEFINE n == IF count[key] < LimitOf[key] + 1 THEN count[key] + 1 ELSE count[key]
           t == IF count[key] = 0 THEN Period ELSE ttl[key]
           row == IF count[key] < LimitOf[key]
                  THEN recent[key] \union {[age |-> 1, place |-> count[key] + 1]}
                  ELSE recent[key]
<1>1. WindowInv(row, n, t, LimitOf[key]) BY LimiterFacts, CountedWindow
<1>2. count' = [count EXCEPT ![key] = n] BY DEF Count, Cap
<1>3. ttl' = [ttl EXCEPT ![key] = t] BY DEF Count, TtlAfterCount
<1>4. recent' = [recent EXCEPT ![key] = row] BY DEF Count, LetsThrough, LetThroughNow
<1> HIDE DEF n, t, row
<1>5. ASSUME NEW k \in Keys
      PROVE  WindowInv(recent'[k], count'[k], ttl'[k], LimitOf[k])
  <2>1. CASE k = key
    <3>1. count'[k] = n /\ ttl'[k] = t /\ recent'[k] = row
      BY <1>2, <1>3, <1>4, <2>1 DEF LimiterInv
    <3> QED BY <1>1, <2>1, <3>1
  <2>2. CASE k # key
    <3>1. count'[k] = count[k] /\ ttl'[k] = ttl[k] /\ recent'[k] = recent[k]
      BY <1>2, <1>3, <1>4, <2>2 DEF LimiterInv
    <3> QED BY <3>1, LimiterFacts
  <2> QED BY <2>1, <2>2
<1>6. /\ count' = [k \in Keys |-> count'[k]]
      /\ ttl' = [k \in Keys |-> ttl'[k]] /\ recent' = [k \in Keys |-> recent'[k]]
  BY <1>2, <1>3, <1>4 DEF LimiterInv
<1> QED BY <1>5, <1>6, LimiterStep

LEMMA AllowKeeps ==
  ASSUME LimiterInv, NEW key \in Keys, NEW allowed, Allow(key, allowed)
  PROVE  LimiterInv' /\ \A m : HasPass(m) => HasPass(m)'
<1>1. Count(key) /\ pass' = pass BY DEF Allow
<1>2. LimiterInv' BY <1>1, CountKeeps DEF LimiterInv
<1> QED BY <1>1, <1>2 DEF HasPass

\* No pass is lost; who is let through has one; who has one is let through.
LEMMA AllowMessageKeeps ==
  ASSUME LimiterInv, NEW m \in Passes, NEW key \in Keys, NEW allowed \in BOOLEAN,
         AllowMessage(key, m, allowed)
  PROVE  /\ LimiterInv'
         /\ \A n \in Passes : HasPass(n) => HasPass(n)'
         /\ allowed => HasPass(m)'
         /\ HasPass(m) => allowed
<1>1. CASE HasPass(m)
  <2>1. UNCHANGED limiterVars /\ allowed BY <1>1 DEF AllowMessage
  <2> QED BY <1>1, <2>1 DEF LimiterInv, HasPass, limiterVars
<1>2. CASE ~HasPass(m)
  <2> DEFINE given == [state |-> "fresh", key |-> key]
  <2>1. /\ allowed = LetsThrough(key) /\ Count(key)
        /\ pass' = IF LetsThrough(key) THEN [pass EXCEPT ![m] = given] ELSE pass
    BY <1>2 DEF AllowMessage
  <2>2. given \in [state : {"fresh"}, key : Keys] /\ given.state # "none" OBVIOUS
  <2>3. pass' \in [Passes -> [state : {"none", "old"}]
                             \union [state : {"fresh"}, key : Keys]]
    BY <2>1, <2>2 DEF LimiterInv
  <2>4. LimiterInv' BY <2>1, <2>3, CountKeeps
  <2>5. \A n \in Passes : HasPass(n) => HasPass(n)'
    BY <2>1, <2>2 DEF HasPass, LimiterInv
  <2>6. allowed => HasPass(m)' BY <2>1, <2>2 DEF HasPass, LimiterInv
  <2> QED BY <1>2, <2>4, <2>5, <2>6
<1> QED BY <1>1, <1>2

LEMMA TickKeeps ==
  ASSUME LimiterInv, Tick
  PROVE  LimiterInv' /\ \A m \in Passes : HasPass(m) => HasPass(m)'
<1>1. /\ ttl' = [k \in Keys |-> IF ttl[k] > 0 THEN ttl[k] - 1 ELSE 0]
      /\ count' = [k \in Keys |-> IF k \in Closing THEN 0 ELSE count[k]]
      /\ pass' = [m \in Passes |->
           IF pass[m].state = "fresh" /\ pass[m].key \in Closing
           THEN [state |-> "old"] ELSE pass[m]]
      /\ recent' = [k \in Keys |-> Aged(recent[k])]
  BY DEF Tick
<1>2. ASSUME NEW k \in Keys
      PROVE  WindowInv(recent'[k], count'[k], ttl'[k], LimitOf[k])
  <2>1. /\ recent'[k] = Aged(recent[k])
        /\ count'[k] = IF ttl[k] = 1 THEN 0 ELSE count[k]
        /\ ttl'[k] = IF ttl[k] > 0 THEN ttl[k] - 1 ELSE 0
    BY <1>1 DEF Closing
  <2>2. WindowInv(Aged(recent[k]), IF ttl[k] = 1 THEN 0 ELSE count[k],
                  IF ttl[k] > 0 THEN ttl[k] - 1 ELSE 0, LimitOf[k])
    BY LimiterFacts, AgedWindow
  <2> QED BY <2>1, <2>2
<1>3. pass' \in [Passes -> [state : {"none", "old"}]
                           \union [state : {"fresh"}, key : Keys]]
  BY <1>1 DEF LimiterInv
<1>4. LimiterInv'
  <2>1. /\ count' = [k \in Keys |-> count'[k]]
        /\ ttl' = [k \in Keys |-> ttl'[k]] /\ recent' = [k \in Keys |-> recent'[k]]
    BY <1>1
  <2> QED BY <1>2, <1>3, <2>1, LimiterStep
<1>5. \A m \in Passes : HasPass(m) => HasPass(m)'
  BY <1>1 DEF HasPass
<1> QED BY <1>4, <1>5

-------------------------------------------------------------------------------
\* The loop.

Polls == {"reconcile", "claim"}

LEMMA PollingState ==
  ASSUME NEW pc \in Polls
  PROVE  /\ Polling(pc) \in ProcessorState
         /\ Polling(pc).pc \notin {"check", "work", "settle"}
<1>1. 0 \in 0..IntakeAttempts BY WebhookAssumption
<1> QED BY <1>1 DEF Polling, Polls, ProcessorState, Results

\* A processor comes to another state, and no answer but one that is known is given.
LEMMA ProcessorKeeps ==
  ASSUME ProcessorInv, NEW p \in Processors, NEW new \in ProcessorState,
         new.pc \in {"check", "work", "settle"} => new.message \in Messages,
         new.pc = "settle" => new.result # "none",
         processor' = [processor EXCEPT ![p] = new],
         passed' \subseteq Messages,
         answer' \in [Messages -> Answers]
  PROVE  ProcessorInv'
BY DEF ProcessorInv, Busy

\* It polls again; a message may have been answered.
LEMMA PollState ==
  ASSUME ProcessorInv, NEW p \in Processors, NEW pc \in Polls,
         processor' = [processor EXCEPT ![p] = Polling(pc)],
         passed' = passed, answer' \in [Messages -> Answers]
  PROVE  ProcessorInv'
<1>1. /\ Polling(pc) \in ProcessorState
      /\ Polling(pc).pc \notin {"check", "work", "settle"}
  BY PollingState
<1>2. passed' \subseteq Messages BY DEF ProcessorInv
<1> QED BY <1>1, <1>2, ProcessorKeeps

\* It goes on with its message.
LEMMA GoesOn ==
  ASSUME ProcessorInv, NEW p \in Processors, Busy(p),
         \/ processor' = [processor EXCEPT ![p].pc = "work"]
         \/ \E result \in Results \ {"none"} : Return(p, result),
         passed' \subseteq Messages, answer' = answer
  PROVE  ProcessorInv'
<1>1. answer' \in [Messages -> Answers] BY DEF ProcessorInv
<1>2. /\ processor[p] \in ProcessorState /\ processor[p].message \in Messages
      /\ processor \in [Processors -> ProcessorState]
  BY DEF ProcessorInv
<1>3. CASE processor' = [processor EXCEPT ![p].pc = "work"]
  <2> DEFINE new == [processor[p] EXCEPT !.pc = "work"]
  <2>1. processor' = [processor EXCEPT ![p] = new] BY <1>3
  <2>2. new \in ProcessorState /\ new.message \in Messages /\ new.pc = "work"
    BY <1>2 DEF ProcessorState
  <2> HIDE DEF new
  <2> QED BY <1>1, <2>1, <2>2, ProcessorKeeps
<1>4. ASSUME NEW result \in Results \ {"none"}, Return(p, result)
      PROVE  ProcessorInv'
  <2> DEFINE new == [processor[p] EXCEPT !.pc = "settle", !.result = result]
  <2>1. processor' = [processor EXCEPT ![p] = new] BY <1>2, <1>4 DEF Return
  <2>2. /\ new \in ProcessorState /\ new.message \in Messages
        /\ new.result # "none"
    BY <1>2 DEF ProcessorState
  <2> HIDE DEF new
  <2> QED BY <1>1, <2>1, <2>2, ProcessorKeeps
<1> QED BY <1>3, <1>4

LEMMA LimiterSame ==
  ASSUME LimiterInv, PassKept, UNCHANGED limiterVars, passed' = passed
  PROVE  LimiterInv' /\ PassKept'
<1>1. count' = count /\ ttl' = ttl /\ pass' = pass /\ recent' = recent
  BY DEF limiterVars
<1>2. LimiterInv' BY <1>1 DEF LimiterInv
<1>3. PassKept' BY <1>1 DEF PassKept, HasPass
<1> QED BY <1>2, <1>3

\* What a step of the loop or of time leaves.
LoopEffect == ProcessorInv' /\ LimiterInv' /\ PassKept'

\* The script runs: the limiter's invariant is kept, and who passes has a pass.
LEMMA AskedKeeps ==
  ASSUME IntakeInv, NEW m \in Messages, NEW allowed \in BOOLEAN, Asked(m, allowed)
  PROVE  /\ LimiterInv' /\ PassKept' /\ passed' \subseteq Messages
         /\ ~allowed => m \notin passed
<1> USE DEF IntakeInv
<1>m. m \in Passes /\ KeyOf[m] \in Keys BY IntakeAssumption
<1>p. passed \subseteq Messages /\ passed \subseteq Passes
  BY IntakeAssumption DEF ProcessorInv
<1>1. /\ LimiterInv' /\ \A n \in Passes : HasPass(n) => HasPass(n)'
      /\ allowed => HasPass(m)'
      /\ HasPass(m) => allowed
  BY <1>m, AllowMessageKeeps DEF Asked
<1>2. passed' = IF allowed THEN passed \union {m} ELSE passed BY DEF Asked
<1>3. PassKept' BY <1>p, <1>1, <1>2 DEF PassKept, HasPass
<1>4. ~allowed => m \notin passed BY <1>1 DEF PassKept
<1> QED BY <1>p, <1>1, <1>2, <1>3, <1>4

LEMMA CheckEffect ==
  ASSUME IntakeInv, NEW p \in Processors, Admit(p) \/ CheckFails(p)
  PROVE  LoopEffect
<1> USE DEF IntakeInv
<1> DEFINE m == processor[p].message
<1>m. Busy(p) /\ m \in Messages /\ answer' = answer
  BY DEF Admit, CheckFails, ProcessorInv, Busy
<1>1. LimiterInv' /\ PassKept' /\ passed' \subseteq Messages
  <2>1. \/ UNCHANGED limiterVars /\ passed' = passed
        \/ \E allowed \in BOOLEAN : Asked(m, allowed)
    BY DEF Admit, CheckFails
  <2>2. passed \subseteq Messages BY DEF ProcessorInv
  <2> QED BY <1>m, <2>1, <2>2, LimiterSame, AskedKeeps
<1>2. \/ processor' = [processor EXCEPT ![p].pc = "work"]
      \/ \E result \in Results \ {"none"} : Return(p, result)
  BY DEF Admit, CheckFails, Failure, Results
<1> QED BY <1>m, <1>1, <1>2, GoesOn DEF LoopEffect

LEMMA LoopSteps ==
  ASSUME IntakeInv, LoopOrClock
  PROVE  LoopEffect
<1> USE DEF IntakeInv
<1>p. passed \subseteq Messages /\ passed \subseteq Passes
  BY IntakeAssumption DEF ProcessorInv
<1>1. ASSUME NEW p \in Processors, NEW m \in Messages, Reconcile(p, m)
      PROVE  LoopEffect
  <2>1. /\ answer' = [answer EXCEPT ![m] = IF @ = "none" THEN "failed" ELSE @]
        /\ processor' = processor /\ passed' = passed /\ UNCHANGED limiterVars
    BY <1>1 DEF Reconcile
  <2>2. ProcessorInv' BY <2>1 DEF ProcessorInv, Busy, Answers
  <2>3. LimiterInv' /\ PassKept' BY <2>1, LimiterSame
  <2> QED BY <2>2, <2>3 DEF LoopEffect
<1>2. ASSUME NEW p \in Processors, NEW m \in Messages, Claim(p, m)
      PROVE  LoopEffect
  <2> DEFINE new == [pc |-> "check", message |-> m,
                     attempts |-> inbound[m].attempts + 1, result |-> "none"]
  <2>1. /\ processor' = [processor EXCEPT ![p] = new]
        /\ passed' = passed /\ answer' = answer /\ UNCHANGED limiterVars
        /\ inbound[m].attempts < IntakeAttempts
    BY <1>2 DEF Claim, Claimable
  <2>2. inbound[m].attempts \in 0..IntakeAttempts BY DEF WebhookInv, InboundRows
  <2>3. inbound[m].attempts + 1 \in 0..IntakeAttempts
    BY <2>1, <2>2, WebhookAssumption
  <2>4. new \in ProcessorState BY <2>3 DEF ProcessorState, Results
  <2>5. passed' \subseteq Messages /\ answer' \in [Messages -> Answers]
    BY <2>1, <1>p DEF ProcessorInv
  <2>6. new.message \in Messages /\ new.pc # "settle" OBVIOUS
  <2>7. ProcessorInv'
    <3> HIDE DEF new
    <3> QED BY <2>1, <2>4, <2>5, <2>6, ProcessorKeeps
  <2>8. LimiterInv' /\ PassKept' BY <2>1, LimiterSame
  <2> QED BY <2>7, <2>8 DEF LoopEffect
<1>3. ASSUME NEW p \in Processors, NEW pc \in Polls,
             processor' = [processor EXCEPT ![p] = Polling(pc)],
             passed' = passed, answer' \in [Messages -> Answers],
             UNCHANGED limiterVars
      PROVE  LoopEffect
  BY <1>3, PollState, LimiterSame DEF LoopEffect
<1>4. ASSUME NEW p \in Processors,
             NothingToReconcile(p) \/ NothingToClaim(p) \/ Stop(p)
      PROVE  LoopEffect
  <2>1. \E pc \in Polls : processor' = [processor EXCEPT ![p] = Polling(pc)]
    BY <1>4 DEF NothingToReconcile, NothingToClaim, Stop, Polls
  <2>2. passed' = passed /\ answer' = answer /\ UNCHANGED limiterVars
    BY <1>4 DEF NothingToReconcile, NothingToClaim, Stop
  <2>3. answer' \in [Messages -> Answers] BY <2>2 DEF ProcessorInv
  <2> QED BY <1>3, <2>1, <2>2, <2>3
<1>5. ASSUME NEW p \in Processors, Work(p)
      PROVE  LoopEffect
  <2>1. /\ Busy(p) /\ passed' = passed /\ answer' = answer
        /\ UNCHANGED limiterVars
        /\ \E result \in Results \ {"none"} : Return(p, result)
    BY <1>5 DEF Work, Busy, Failure, Results
  <2>2. LimiterInv' /\ PassKept' BY <2>1, LimiterSame
  <2> QED BY <1>p, <2>1, <2>2, GoesOn DEF LoopEffect
<1>5a. ASSUME NEW p \in Processors,
              HandOver(p) \/ RetryInbound(p) \/ CompleteInbound(p)
       PROVE  LoopEffect
  <2>1. /\ processor' = [processor EXCEPT ![p] = Polling("reconcile")]
        /\ passed' = passed /\ UNCHANGED limiterVars
    BY <1>5a DEF HandOver, RetryInbound, CompleteInbound
  <2>2. answer' \in [Messages -> Answers]
    <3> DEFINE m == processor[p].message
    <3>1. /\ m \in Messages /\ answer \in [Messages -> Answers]
          /\ processor[p].pc = "settle" => processor[p].result \in Results \ {"none"}
      BY <1>5a
         DEF HandOver, RetryInbound, CompleteInbound, ProcessorInv, Busy, ProcessorState
    <3>2. \/ answer' = answer
          \/ \E kind \in Answers : Answered(m, kind)
      BY <1>5a, <3>1
         DEF HandOver, RetryInbound, CompleteInbound, Answers, Results
    <3> QED BY <3>1, <3>2 DEF Answered
  <2> QED BY <1>3, <2>1, <2>2 DEF Polls
<1>6. ASSUME NEW m \in Messages, Expire(m) PROVE LoopEffect
  <2>1. /\ processor' = processor /\ passed' = passed /\ answer' = answer
        /\ UNCHANGED limiterVars
    BY <1>6 DEF Expire
  <2> QED BY <2>1, LimiterSame DEF LoopEffect, ProcessorInv, Busy
<1>7. ASSUME NEW m \in Passes, ForgetPass(m) PROVE LoopEffect
  <2>1. /\ processor' = processor /\ answer' = answer /\ passed' = passed \ {m}
        /\ pass[m].state = "old"
        /\ pass' = [pass EXCEPT ![m] = [state |-> "none"]]
        /\ count' = count /\ ttl' = ttl /\ recent' = recent
    BY <1>7 DEF ForgetPass, PassExpires
  <2>2. LimiterInv' BY <2>1 DEF LimiterInv
  <2>3. PassKept' BY <2>1, <1>p DEF PassKept, HasPass, LimiterInv
  <2>4. ProcessorInv' BY <2>1 DEF ProcessorInv, Busy
  <2> QED BY <2>2, <2>3, <2>4 DEF LoopEffect
<1>8. ASSUME UNCHANGED intakeVars, LimiterInv',
             \A m \in Passes : HasPass(m) => HasPass(m)'
      PROVE  LoopEffect
  <2>1. processor' = processor /\ passed' = passed /\ answer' = answer
    BY <1>8 DEF intakeVars
  <2>2. PassKept' BY <1>p, <1>8, <2>1 DEF PassKept, HasPass
  <2>3. ProcessorInv' BY <2>1 DEF ProcessorInv, Busy
  <2> QED BY <1>8, <2>2, <2>3 DEF LoopEffect
<1>9. ASSUME NEW key \in UploadKeys, Upload(key) PROVE LoopEffect
  <2>1. key \in Keys BY IntakeAssumption
  <2>2. PICK allowed \in BOOLEAN : Allow(key, allowed) BY <1>9 DEF Upload
  <2>3. LimiterInv' /\ \A m : HasPass(m) => HasPass(m)' BY <2>1, <2>2, AllowKeeps
  <2> QED BY <1>8, <1>9, <2>3 DEF Upload
<1>10. ASSUME TimePasses PROVE LoopEffect
  BY <1>8, <1>10, TickKeeps DEF TimePasses
<1> QED BY <1>1, <1>2, <1>4, <1>5, <1>5a, <1>6, <1>7, <1>9, <1>10, CheckEffect
       DEF LoopOrClock

-------------------------------------------------------------------------------
\* The theorems.

LEMMA InitIntake == Init => IntakeInv
<1> SUFFICES ASSUME Init PROVE IntakeInv OBVIOUS
<1>1. WebhookInv
  <2>1. NoRow \in InboundRows(IntakeAttempts)
    BY WebhookAssumption DEF NoRow, InboundRows, InboundStatuses
  <2> QED BY <2>1 DEF Init, InitWebhook, WebhookInv, RequestSaved, Saving, NoRequest,
                      Request, Types, DeliveredIsSaved
<1>2. ProcessorInv
  <2>1. Polling("reconcile") \in ProcessorState
        /\ Polling("reconcile").pc \notin {"check", "work", "settle"}
    BY PollingState DEF Polls
  <2> QED BY <2>1 DEF Init, ProcessorInv, Busy, Answers
<1>3. LimiterInv
  <2>1. ASSUME NEW k \in Keys
        PROVE  WindowInv(recent[k], count[k], ttl[k], LimitOf[k])
    <3>1. recent[k] = {} /\ count[k] = 0 /\ ttl[k] = 0 BY DEF Init, InitLimiter
    <3>2. LimitOf[k] \in Nat BY RateLimiterAssumption
    <3> QED BY <3>1, <3>2, NoWindow
  <2>2. Period \in Nat BY RateLimiterAssumption
  <2> QED BY <2>1, <2>2 DEF Init, InitLimiter, LimiterInv
<1>4. PassKept BY DEF Init, PassKept
<1> QED BY <1>1, <1>2, <1>3, <1>4 DEF IntakeInv

LEMMA StepIntake ==
  ASSUME IntakeInv, [Next]_vars
  PROVE  /\ IntakeInv' /\ RowsKept
         /\ \A m \in Messages : inbound[m].status # "ABSENT" => type'[m] = type[m]
<1>1. CASE Receive
  <2>1. WebhookNext /\ UNCHANGED limiterVars /\ UNCHANGED intakeVars
    BY <1>1 DEF Receive
  <2>2. /\ WebhookInv' /\ RowsKept
        /\ \A m \in Messages : inbound[m].status # "ABSENT" => type'[m] = type[m]
    BY <2>1, WebhookStep DEF IntakeInv
  <2>3. processor' = processor /\ passed' = passed /\ answer' = answer
    BY <2>1 DEF intakeVars
  <2>4. LimiterInv' /\ PassKept' BY <2>1, <2>3, LimiterSame DEF IntakeInv
  <2>5. ProcessorInv' BY <2>3 DEF IntakeInv, ProcessorInv, Busy
  <2> QED BY <2>2, <2>3, <2>4, <2>5 DEF IntakeInv
<1>2. CASE LoopOrClock
  <2>1. RowsKept /\ UNCHANGED <<type, codes, request, delivered>>
    BY <1>2, LoopKeeps DEF IntakeInv
  <2>2. WebhookInv' BY <2>1, LoopInv DEF IntakeInv
  <2>3. LoopEffect BY <1>2, LoopSteps
  <2> QED BY <2>1, <2>2, <2>3 DEF LoopEffect, IntakeInv
<1>3. CASE UNCHANGED vars
  <2>1. /\ UNCHANGED <<type, codes, request, delivered>> /\ UNCHANGED inbound
        /\ processor' = processor /\ passed' = passed /\ answer' = answer
        /\ UNCHANGED limiterVars
    BY <1>3 DEF vars, limiterVars
  <2>2. RowsKept BY <2>1, SameRows DEF IntakeInv
  <2>3. WebhookInv' BY <2>1, <2>2, LoopInv DEF IntakeInv
  <2>4. LimiterInv' /\ PassKept' BY <2>1, LimiterSame DEF IntakeInv
  <2>5. ProcessorInv' BY <2>1 DEF IntakeInv, ProcessorInv, Busy
  <2> QED BY <2>1, <2>2, <2>3, <2>4, <2>5 DEF IntakeInv
<1> QED BY <1>1, <1>2, <1>3 DEF Next, LoopOrClock

\* The inductive invariant.
THEOREM IntakeInvariant == Spec => []IntakeInv
<1>1. IntakeInv /\ [Next]_vars => IntakeInv' BY StepIntake
<1> QED BY InitIntake, <1>1, PTL DEF Spec

\* Every value of the model has its type: what TypeOK says of the rows, the
\* requests of the API, the counters of Redis and the loop's local state.
THEOREM IntakeTypes == Spec => []TypeOK
<1>1. IntakeInv => TypeOK
  <2> SUFFICES ASSUME IntakeInv PROVE TypeOK OBVIOUS
  <2>1. WebhookTypeOK BY DEF IntakeInv, WebhookInv, WebhookTypeOK
  <2>2. LimiterTypeOK
    <3>1. ASSUME NEW k \in Keys
          PROVE  /\ count[k] \in 0..Cap(k) /\ ttl[k] \in 0..Period
                 /\ recent[k] \subseteq [age : 1..Period, place : 1..Cap(k)]
      <4>1. /\ LimitOf[k] \in Nat /\ Period \in Nat
            /\ WindowInv(recent[k], count[k], ttl[k], LimitOf[k])
        BY LimiterFacts DEF IntakeInv
      <4>2. 1..LimitOf[k] \subseteq 1..Cap(k) BY <4>1 DEF Cap
      <4>3. recent[k] \subseteq [age : 1..Period, place : 1..LimitOf[k]]
        BY <4>1 DEF WindowInv
      <4> QED BY <4>1, <4>2, <4>3 DEF WindowInv, Cap
    <3> QED BY <3>1 DEF IntakeInv, LimiterInv, LimiterTypeOK
  <2>3. /\ passed \subseteq Messages
        /\ answer \in [Messages -> {"none", "notice", "too many", "failed", "done"}]
    BY DEF IntakeInv, ProcessorInv, Answers
  <2> QED BY <2>1, <2>2, <2>3
         DEF TypeOK, IntakeInv, ProcessorInv, ProcessorState, Results
<1> QED BY IntakeInvariant, <1>1, PTL

\* WhatsApp is told 200 only for a batch of which every message is kept, however
\* the messages are spread over batches and whatever the request before it left.
THEOREM DeliveredMessagesAreSaved == Spec => []DeliveredIsSaved
<1>1. IntakeInv => DeliveredIsSaved BY DEF IntakeInv, WebhookInv
<1> QED BY IntakeInvariant, <1>1, PTL

\* However the requests fall into windows, in the length of one window at most two
\* limits are let through: at most two windows meet in it, and none lets through
\* two requests at the same place.
THEOREM BurstIsBounded == Spec => []BurstBound
<1>1. IntakeInv => BurstBound
  BY LimiterFacts, WindowBound DEF IntakeInv, BurstBound
<1> QED BY IntakeInvariant, <1>1, PTL

\* Requests that were refused keep nobody out: while a counter refuses, every place
\* of its window is taken by a request let through in the window's length before.
THEOREM RefusedForAFullWindow == Spec => []RefusedOnlyWhenFull
<1>1. IntakeInv => RefusedOnlyWhenFull
  BY LimiterFacts, WindowFull DEF IntakeInv, RefusedOnlyWhenFull, LetsThrough
<1> QED BY IntakeInvariant, <1>1, PTL

\* No redelivery, and no step of the loop, writes a message anew.
THEOREM MessagesAreSavedOnce == Spec => SavedOnce
<1>1. ASSUME IntakeInv, [Next]_vars
      PROVE  [\A m \in Messages : inbound[m].status # "ABSENT" =>
                type'[m] = type[m] /\ inbound'[m].attempts >= inbound[m].attempts]_webhookVars
  BY <1>1, StepIntake DEF RowsKept
<1> QED BY IntakeInvariant, <1>1, PTL DEF Spec, SavedOnce

-------------------------------------------------------------------------------
\* As long as no processor is late, a message has one processor at a time, and one
\* that was refused is not let through before that is settled.

HeldOnce ==
  /\ \A p \in Processors : Busy(p) =>
       /\ inbound[processor[p].message].status = "PROCESSING"
       /\ ~inbound[processor[p].message].stale
  /\ \A p, q \in Processors :
       Busy(p) /\ Busy(q) /\ processor[p].message = processor[q].message => p = q

RefusedIsOut ==
  \A p \in Processors :
    processor[p].pc = "settle" /\ processor[p].result = "too many" =>
      processor[p].message \notin passed

Keeping == HeldOnce /\ RefusedIsOut

\* Who was let through is told nothing of too many in this step.
NotTurnedAway == \A m \in passed : answer'[m] = "too many" => answer[m] = "too many"

\* Nobody's claim changes: rows that are held stay as they are.
LEMMA KeepingStays ==
  ASSUME IntakeInv, Keeping,
         processor' = processor, passed' \subseteq passed,
         \A p \in Processors : Busy(p) =>
           /\ inbound'[processor[p].message].status = "PROCESSING"
           /\ ~inbound'[processor[p].message].stale
  PROVE  Keeping'
BY DEF Keeping, HeldOnce, RefusedIsOut, Busy

\* A processor lets go of its message, if it has one; the row is nobody's then.
LEMMA LetsGo ==
  ASSUME IntakeInv, Keeping, NEW p \in Processors, NEW pc \in Polls,
         processor' = [processor EXCEPT ![p] = Polling(pc)], passed' = passed,
         \A m \in Messages : inbound'[m] = inbound[m] \/ m = processor[p].message,
         Busy(p) \/ UNCHANGED inbound
  PROVE  Keeping'
<1>1. Polling(pc).pc \notin {"check", "work", "settle"} BY PollingState
<1>2. \A q \in Processors : processor'[q] = IF q = p THEN Polling(pc) ELSE processor[q]
  BY DEF IntakeInv, ProcessorInv
<1>3. \A q \in Processors : Busy(q)' => q # p /\ Busy(q) /\ processor'[q] = processor[q]
  BY <1>1, <1>2 DEF Busy
<1>4. \A q \in Processors : Busy(q)' =>
        inbound'[processor[q].message] = inbound[processor[q].message]
  <2> SUFFICES ASSUME NEW q \in Processors, Busy(q)'
               PROVE  inbound'[processor[q].message] = inbound[processor[q].message]
    OBVIOUS
  <2>1. q # p /\ Busy(q) BY <1>3
  <2>2. processor[q].message \in Messages BY <2>1 DEF IntakeInv, ProcessorInv
  <2>3. Busy(p) => processor[q].message # processor[p].message
    BY <2>1 DEF Keeping, HeldOnce
  <2> QED BY <2>2, <2>3
<1>5. HeldOnce' BY <1>3, <1>4 DEF Keeping, HeldOnce
<1>6. RefusedIsOut'
  <2> SUFFICES ASSUME NEW q \in Processors, processor'[q].pc = "settle",
                      processor'[q].result = "too many"
               PROVE  processor'[q].message \notin passed
    BY DEF RefusedIsOut
  <2>1. Busy(q)' BY DEF Busy
  <2> QED BY <1>3, <2>1 DEF Keeping, RefusedIsOut
<1> QED BY <1>5, <1>6 DEF Keeping

\* A processor goes on with its message, which may be let through in this step.
LEMMA HoldsOn ==
  ASSUME IntakeInv, Keeping, NEW p \in Processors, Busy(p), UNCHANGED inbound,
         NEW new, processor' = [processor EXCEPT ![p] = new],
         new.message = processor[p].message,
         passed' \subseteq passed \union {processor[p].message},
         new.pc = "settle" /\ new.result = "too many" =>
           processor[p].message \notin passed'
  PROVE  Keeping'
<1>1. \A q \in Processors : processor'[q] = IF q = p THEN new ELSE processor[q]
  BY DEF IntakeInv, ProcessorInv
<1>2. \A q \in Processors :
        /\ processor'[q].message = processor[q].message
        /\ Busy(q)' => Busy(q)
  BY <1>1 DEF Busy
<1>3. HeldOnce' BY <1>2 DEF Keeping, HeldOnce
<1>4. RefusedIsOut'
  <2> SUFFICES ASSUME NEW q \in Processors, processor'[q].pc = "settle",
                      processor'[q].result = "too many"
               PROVE  processor'[q].message \notin passed'
    BY DEF RefusedIsOut
  <2>1. CASE q = p BY <1>1, <2>1
  <2>2. CASE q # p
    <3>1. processor'[q] = processor[q] /\ Busy(q) BY <1>1, <2>2 DEF Busy
    <3>2. processor[q].message # processor[p].message
      BY <2>2, <3>1 DEF Keeping, HeldOnce
    <3> QED BY <3>1, <3>2 DEF Keeping, RefusedIsOut
  <2> QED BY <2>1, <2>2
<1> QED BY <1>3, <1>4 DEF Keeping

LEMMA CheckHolds ==
  ASSUME IntakeInv, Keeping, NEW p \in Processors, Admit(p) \/ CheckFails(p)
  PROVE  Keeping' /\ NotTurnedAway
<1> DEFINE m == processor[p].message
<1>m. /\ Busy(p) /\ m \in Messages /\ answer' = answer /\ UNCHANGED inbound
      /\ processor \in [Processors -> ProcessorState]
  BY DEF Admit, CheckFails, IntakeInv, ProcessorInv, Busy
<1>1. passed' \subseteq passed \union {m} BY DEF Admit, CheckFails, Asked
<1>2. PICK new : /\ processor' = [processor EXCEPT ![p] = new]
                 /\ new.message = m
                 /\ new.pc = "settle" /\ new.result = "too many" => m \notin passed'
  <2>1. CASE processor' = [processor EXCEPT ![p].pc = "work"]
    <3> WITNESS [processor[p] EXCEPT !.pc = "work"]
    <3> QED BY <1>m, <2>1 DEF ProcessorState
  <2>2. ASSUME NEW result, Return(p, result), result = "too many" => m \notin passed'
        PROVE  \E new : /\ processor' = [processor EXCEPT ![p] = new]
                        /\ new.message = m
                        /\ new.pc = "settle" /\ new.result = "too many" =>
                             m \notin passed'
    <3> WITNESS [processor[p] EXCEPT !.pc = "settle", !.result = result]
    <3> QED BY <1>m, <2>2 DEF Return, ProcessorState
  <2>3. \/ processor' = [processor EXCEPT ![p].pc = "work"]
        \/ \E result : Return(p, result) /\ (result = "too many" => m \notin passed')
    <3>1. ASSUME Asked(m, FALSE) PROVE m \notin passed'
      BY <1>m, <3>1, AskedKeeps DEF Asked
    <3> QED BY <3>1 DEF Admit, CheckFails, Failure
  <2> QED BY <2>1, <2>2, <2>3
<1>3. Keeping' BY <1>m, <1>1, <1>2, HoldsOn
<1> QED BY <1>m, <1>3 DEF NotTurnedAway

LEMMA LoopHolds ==
  ASSUME IntakeInv, Keeping, Late = {}, LoopOrClock
  PROVE  Keeping' /\ NotTurnedAway
<1> USE DEF IntakeInv
<1>t. /\ inbound \in [Messages -> InboundRows(IntakeAttempts)]
      /\ processor \in [Processors -> ProcessorState]
      /\ passed \subseteq Messages /\ answer \in [Messages -> Answers]
      /\ \A p \in Processors : Busy(p) => processor[p].message \in Messages
  BY DEF WebhookInv, ProcessorInv
<1>1. ASSUME NEW p \in Processors, NEW m \in Messages, Reconcile(p, m)
      PROVE  Keeping' /\ NotTurnedAway
  <2>1. /\ processor' = processor /\ passed' = passed
        /\ inbound' = [inbound EXCEPT ![m] = FailedRow(inbound[m])]
        /\ answer' = [answer EXCEPT ![m] = IF @ = "none" THEN "failed" ELSE @]
        /\ inbound[m].status # "PROCESSING" \/ inbound[m].stale
    BY <1>1, <1>t DEF Reconcile, Reconcilable, Abandoned
  <2>2. \A q \in Processors : Busy(q) => processor[q].message # m
    BY <2>1 DEF Keeping, HeldOnce
  <2>3. Keeping'
    BY <1>t, <2>1, <2>2, KeepingStays DEF Keeping, HeldOnce
  <2> QED BY <1>t, <2>1, <2>3 DEF NotTurnedAway
<1>2. ASSUME NEW p \in Processors, NEW m \in Messages, Claim(p, m)
      PROVE  Keeping' /\ NotTurnedAway
  <2> DEFINE new == [pc |-> "check", message |-> m,
                     attempts |-> inbound[m].attempts + 1, result |-> "none"]
  <2>1. /\ processor[p].pc = "claim" /\ processor' = [processor EXCEPT ![p] = new]
        /\ inbound' = [inbound EXCEPT ![m] = ClaimedRow(inbound[m])]
        /\ passed' = passed /\ answer' = answer
        /\ inbound[m].status # "PROCESSING" \/ inbound[m].stale
    BY <1>2 DEF Claim, Claimable, Waiting, Abandoned
  <2>2. \A q \in Processors : Busy(q) => processor[q].message # m
    BY <2>1 DEF Keeping, HeldOnce
  <2>3. \A q \in Processors : processor'[q] = IF q = p THEN new ELSE processor[q]
    BY <1>t, <2>1
  <2>4. /\ inbound'[m].status = "PROCESSING" /\ ~inbound'[m].stale
        /\ \A n \in Messages \ {m} : inbound'[n] = inbound[n]
    BY <1>t, <2>1 DEF ClaimedRow
  <2>5. \A q \in Processors : q # p /\ Busy(q)' =>
          Busy(q) /\ processor'[q] = processor[q]
    BY <2>3 DEF Busy
  <2>6. processor'[p].message = m /\ processor'[p].pc = "check" BY <2>3
  <2>7. HeldOnce'
    <3>1. ASSUME NEW q \in Processors, Busy(q)'
          PROVE  /\ inbound'[processor'[q].message].status = "PROCESSING"
                 /\ ~inbound'[processor'[q].message].stale
      BY <1>t, <2>2, <2>4, <2>5, <2>6, <3>1 DEF Keeping, HeldOnce
    <3>2. ASSUME NEW q \in Processors, NEW r \in Processors, Busy(q)', Busy(r)',
                 processor'[q].message = processor'[r].message
          PROVE  q = r
      BY <2>2, <2>5, <2>6, <3>2 DEF Keeping, HeldOnce
    <3> QED BY <3>1, <3>2 DEF HeldOnce
  <2>8. RefusedIsOut'
    <3> SUFFICES ASSUME NEW q \in Processors, processor'[q].pc = "settle",
                        processor'[q].result = "too many"
                 PROVE  processor'[q].message \notin passed
      BY <2>1 DEF RefusedIsOut
    <3>1. q # p /\ Busy(q)' BY <2>6 DEF Busy
    <3>2. processor'[q] = processor[q] BY <2>5, <3>1
    <3> QED BY <3>2 DEF Keeping, RefusedIsOut
  <2> QED BY <2>1, <2>7, <2>8 DEF Keeping, NotTurnedAway
<1>3. ASSUME NEW p \in Processors,
             NothingToReconcile(p) \/ NothingToClaim(p) \/ Stop(p)
      PROVE  Keeping' /\ NotTurnedAway
  <2>1. \E pc \in Polls : processor' = [processor EXCEPT ![p] = Polling(pc)]
    BY <1>3 DEF NothingToReconcile, NothingToClaim, Stop, Polls
  <2>2. passed' = passed /\ answer' = answer /\ UNCHANGED inbound
    BY <1>3 DEF NothingToReconcile, NothingToClaim, Stop
  <2>3. Keeping' BY <2>1, <2>2, LetsGo
  <2> QED BY <2>2, <2>3 DEF NotTurnedAway
<1>4. ASSUME NEW p \in Processors, Work(p)
      PROVE  Keeping' /\ NotTurnedAway
  <2>1. PICK result \in {"done", Failure(p)} : Return(p, result)
    BY <1>4 DEF Work
  <2>2. /\ Busy(p) /\ passed' = passed /\ answer' = answer /\ UNCHANGED inbound
        /\ result # "too many"
    BY <1>4, <2>1 DEF Work, Busy, Failure
  <2> DEFINE new == [processor[p] EXCEPT !.pc = "settle", !.result = result]
  <2>3. /\ processor' = [processor EXCEPT ![p] = new]
        /\ new.message = processor[p].message /\ new.result = result
    BY <1>t, <2>1 DEF Return, ProcessorState
  <2>4. Keeping'
    <3> HIDE DEF new
    <3> QED BY <2>2, <2>3, HoldsOn
  <2> QED BY <2>2, <2>4 DEF NotTurnedAway
<1>5. ASSUME NEW p \in Processors,
             HandOver(p) \/ RetryInbound(p) \/ CompleteInbound(p)
      PROVE  Keeping' /\ NotTurnedAway
  <2> DEFINE m == processor[p].message
  <2>1. /\ processor' = [processor EXCEPT ![p] = Polling("reconcile")]
        /\ passed' = passed /\ Busy(p)
    BY <1>5 DEF HandOver, RetryInbound, CompleteInbound, Busy
  <2>2. \A n \in Messages : inbound'[n] = inbound[n] \/ n = m
    BY <1>5, <1>t DEF HandOver, RetryInbound, CompleteInbound
  <2>3. Keeping' BY <2>1, <2>2, LetsGo DEF Polls
  <2>4. NotTurnedAway
    <3>1. \/ answer' = answer
          \/ Answered(m, "done")
          \/ /\ Answered(m, processor[p].result)
             /\ processor[p].pc = "settle"
      BY <1>5 DEF HandOver, RetryInbound, CompleteInbound
    <3>2. processor[p].pc = "settle" /\ processor[p].result = "too many" =>
            m \notin passed
      BY DEF Keeping, RefusedIsOut
    <3> QED BY <1>t, <3>1, <3>2 DEF NotTurnedAway, Answered
  <2> QED BY <2>3, <2>4
<1>6. ASSUME NEW m \in Messages, Expire(m)
      PROVE  Keeping' /\ NotTurnedAway
  <2>1. /\ \A p \in Processors : processor[p].message # m
        /\ processor' = processor /\ passed' = passed /\ answer' = answer
        /\ inbound' = [inbound EXCEPT ![m].stale = TRUE]
    BY <1>6 DEF Expire
  <2>2. Keeping' BY <1>t, <2>1, KeepingStays DEF Keeping, HeldOnce
  <2> QED BY <2>1, <2>2 DEF NotTurnedAway
<1>7. ASSUME processor' = processor, passed' \subseteq passed, answer' = answer,
             UNCHANGED inbound
      PROVE  Keeping' /\ NotTurnedAway
  BY <1>7, KeepingStays DEF Keeping, HeldOnce, NotTurnedAway
<1>8. ASSUME \/ \E m \in Passes : ForgetPass(m)
             \/ \E key \in UploadKeys : Upload(key)
             \/ TimePasses
      PROVE  Keeping' /\ NotTurnedAway
  <2>1. /\ processor' = processor /\ passed' \subseteq passed /\ answer' = answer
        /\ UNCHANGED inbound
    BY <1>8 DEF ForgetPass, Upload, TimePasses, webhookVars, intakeVars
  <2> QED BY <1>7, <2>1
<1> QED BY <1>1, <1>2, <1>3, <1>4, <1>5, <1>6, <1>8, CheckHolds DEF LoopOrClock

\* The webhook writes no row that is there.
LEMMA WebhookHolds ==
  ASSUME IntakeInv, Keeping, Receive \/ UNCHANGED vars
  PROVE  Keeping' /\ NotTurnedAway
<1>1. processor' = processor /\ passed' = passed /\ answer' = answer
  BY DEF Receive, intakeVars, vars
<1>2. ASSUME NEW m \in Messages, inbound[m].status = "PROCESSING"
      PROVE  inbound'[m] = inbound[m]
  <2>1. ASSUME NEW n \in Messages, SaveInbound(n) PROVE inbound'[m] = inbound[m]
    BY <1>2, <2>1 DEF SaveInbound, ConflictDoesNothing, IntakeInv, WebhookInv
  <2>2. ASSUME NEW r \in Requests, SaveNext(r) PROVE inbound'[m] = inbound[m]
    BY <2>1, <2>2, NextOfRequest DEF SaveNext, IntakeInv
  <2> QED BY <2>2 DEF Receive, WebhookNext, Deliver, RefuseNext, AbandonRequest,
                      Acknowledge, Reconfigure, vars
<1>3. \A p \in Processors : Busy(p) => processor[p].message \in Messages
  BY DEF IntakeInv, ProcessorInv
<1>4. Keeping' BY <1>1, <1>2, <1>3, KeepingStays DEF Keeping, HeldOnce
<1> QED BY <1>1, <1>4 DEF NotTurnedAway

\* A message that was let through has a pass, so no later check refuses it, however
\* full the counter is; and a check that refused it earlier has been settled, as long
\* as no processor holds a message for over five minutes.  With any number of them.
THEOREM PassedIsNeverRefused ==
  ASSUME Late = {}
  PROVE  Spec => LetThroughForGood
<1>1. Init => Keeping
  BY PollingState DEF Init, Keeping, HeldOnce, RefusedIsOut, Busy, Polls
<1>2. IntakeInv /\ Keeping /\ [Next]_vars => Keeping' /\ NotTurnedAway
  BY LoopHolds, WebhookHolds DEF Next, LoopOrClock
<1>3. IntakeInv /\ Keeping /\ [Next]_vars =>
        [\A m \in passed : answer'[m] = "too many" => answer[m] = "too many"]_vars
  BY <1>2 DEF NotTurnedAway
<1> QED BY IntakeInvariant, <1>1, <1>2, <1>3, PTL DEF Spec, LetThroughForGood
===============================================================================
