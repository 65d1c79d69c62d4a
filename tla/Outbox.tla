-------------------------------- MODULE Outbox --------------------------------
(***************************************************************************)
(* The transactional outbox: the replies in whatsapp_outbound_messages and *)
(* the dispatchers inside cmd/api (whatsapp.Dispatcher) that send them     *)
(* through the WhatsApp Graph API.                                         *)
(*                                                                         *)
(* A send may reach the recipient without the dispatcher being told.  The  *)
(* dispatcher sorts what it is told into four classes and writes one of    *)
(* four ends; a row it leaves SENDING is set to UNKNOWN after five         *)
(* minutes.  The clock is not bound to the dispatchers: a dispatcher may   *)
(* be suspended at any point and go on after its row was given up.         *)
(***************************************************************************)
EXTENDS Naturals

CONSTANTS
  Replies,       \* replies, by source_message_id
  NoReply,       \* what a dispatcher that holds no reply holds
  Dispatchers,   \* dispatcher loops, one in each cmd/api process
  MaxAttempts,   \* maxAttempts of whatsapp.Dispatcher
  LateErrors,    \* may the API answer 429 or 5xx to a message it delivers?
  NamelessIds    \* may it answer 2xx with no message id?

ASSUME NoReplyAssumption == NoReply \notin Replies
ASSUME MaxAttemptsAssumption == MaxAttempts \in Nat \ {0}
ASSUME ApiAssumption == LateErrors \in BOOLEAN /\ NamelessIds \in BOOLEAN

VARIABLES
  outbox,      \* table whatsapp_outbound_messages
  dispatcher,  \* local state of each dispatcher
  delivered    \* how often the recipient was shown the reply

vars == <<outbox, dispatcher, delivered>>

-------------------------------------------------------------------------------

OutboundStatuses ==
  {"ABSENT", "PENDING", "SENDING", "SENT", "FAILED", "UNKNOWN"}

\* due: next_attempt_at is not NULL; stale: sending_started_at is too old.
OutboundRow == [status : OutboundStatuses, attempts : 0..MaxAttempts,
                due : BOOLEAN, stale : BOOLEAN]

\* The CHECKs of the table.
RowChecks(row) ==
  /\ row.status \in {"SENDING", "FAILED", "UNKNOWN"} => row.attempts > 0
  /\ row.due => row.status \in {"PENDING", "FAILED"}

DispatcherState ==
  [pc : {"sweep", "claim", "send", "settle"},
   msg : Replies \union {NoReply},
   attempts : 0..MaxAttempts,
   class : {"none", "sent", "ambiguous", "transient", "permanent"}]

TypeOK ==
  /\ outbox \in [Replies -> OutboundRow]
  /\ \A m \in Replies : RowChecks(outbox[m])
  /\ dispatcher \in [Dispatchers -> DispatcherState]
  /\ delivered \in [Replies -> Nat]

Polling(pc) ==
  [pc |-> pc, msg |-> NoReply, attempts |-> 0, class |-> "none"]

Init ==
  /\ outbox = [m \in Replies |->
       [status |-> "ABSENT", attempts |-> 0, due |-> FALSE, stale |-> FALSE]]
  /\ dispatcher = [d \in Dispatchers |-> Polling("sweep")]
  /\ delivered = [m \in Replies |-> 0]

-------------------------------------------------------------------------------
\* The INSERT of the transaction that ends an inbound message.

Queue(m) ==
  /\ outbox[m].status = "ABSENT"
  /\ outbox' = [outbox EXCEPT ![m].status = "PENDING", ![m].due = TRUE]
  /\ UNCHANGED <<dispatcher, delivered>>

-------------------------------------------------------------------------------
\* Dispatcher.DispatchOne.

\* Mutant: an interrupted send is tried again.
MutSweptRow(row) ==
  IF row.status = "SENDING" /\ row.stale
  THEN [row EXCEPT !.status = "FAILED", !.due = row.attempts < MaxAttempts,
                   !.stale = FALSE]
  ELSE row

\* First statement of ClaimOutbound, for every row.
SweptRow(row) ==
  IF row.status = "SENDING" /\ row.stale
  THEN [row EXCEPT !.status = "UNKNOWN", !.due = FALSE, !.stale = FALSE]
  ELSE row

Sweep(d) ==
  /\ dispatcher[d].pc = "sweep"
  /\ outbox' = [m \in Replies |-> SweptRow(outbox[m])]
  /\ dispatcher' = [dispatcher EXCEPT ![d] = Polling("claim")]
  /\ UNCHANGED delivered

\* Mutant: next_attempt_at is left as it is.
MutClaimedRow(row) ==
  [row EXCEPT !.status = "SENDING", !.attempts = @ + 1, !.stale = FALSE]

ClaimedRow(row) ==
  [status |-> "SENDING", attempts |-> row.attempts + 1, due |-> FALSE,
   stale |-> FALSE]

\* Mutant: next_attempt_at is not asked for, so that a FAILED row is never final.
MutClaimable(m) ==
  /\ outbox[m].attempts < MaxAttempts
  /\ outbox[m].status \in {"PENDING", "FAILED"}

Claimable(m) ==
  /\ outbox[m].attempts < MaxAttempts
  /\ outbox[m].status \in {"PENDING", "FAILED"}
  /\ outbox[m].due

ClaimOutbound(d, m) ==
  /\ dispatcher[d].pc = "claim"
  /\ Claimable(m)
  /\ outbox' = [outbox EXCEPT ![m] = ClaimedRow(@)]
  /\ dispatcher' = [dispatcher EXCEPT ![d] =
       [pc |-> "send", msg |-> m, attempts |-> outbox[m].attempts + 1,
        class |-> "none"]]
  /\ UNCHANGED delivered

\* ErrNoWork.
NoOutboundWork(d) ==
  /\ dispatcher[d].pc = "claim"
  /\ \A m \in Replies : ~Claimable(m)
  /\ dispatcher' = [dispatcher EXCEPT ![d] = Polling("sweep")]
  /\ UNCHANGED <<outbox, delivered>>

\* What comes back from the Graph API: a message id, a 2xx without one, a 2xx
\* that cannot be decoded, 429 or 5xx, any other status, or nothing.
Responses == {"id", "no_id", "garbled", "busy", "refused", "none"}

\* Whether the recipient is shown the message, for each response.
MayDeliver(response) ==
  CASE response \in {"id", "garbled"} -> {TRUE}
    [] response = "no_id" -> IF NamelessIds THEN {TRUE} ELSE {}
    [] response = "busy" -> IF LateErrors THEN BOOLEAN ELSE {FALSE}
    [] response = "refused" -> {FALSE}
    [] response = "none" -> BOOLEAN

\* Mutants: no response is an error to retry; the status is not looked at.
MutClassRetry(response) ==
  CASE response = "id" -> "sent"
    [] response = "garbled" -> "ambiguous"
    [] response \in {"busy", "none"} -> "transient"
    [] response \in {"no_id", "refused"} -> "permanent"

MutClassStatus(response) ==
  CASE response \in {"id", "busy"} -> "sent"
    [] response \in {"garbled", "none"} -> "ambiguous"
    [] response \in {"no_id", "refused"} -> "permanent"

\* Which error SendText returns, if any.
Class(response) ==
  CASE response = "id" -> "sent"
    [] response \in {"garbled", "none"} -> "ambiguous"
    [] response = "busy" -> "transient"
    [] response \in {"no_id", "refused"} -> "permanent"

SendText(d) ==
  /\ dispatcher[d].pc = "send"
  /\ \E response \in Responses : \E shown \in MayDeliver(response) :
       /\ delivered' =
            IF shown THEN [delivered EXCEPT ![dispatcher[d].msg] = @ + 1]
            ELSE delivered
       /\ dispatcher' = [dispatcher EXCEPT
            ![d].pc = "settle", ![d].class = Class(response)]
  /\ UNCHANGED outbox

\* Mutant: the last attempt may be retried too.
MutRetries(d) ==
  dispatcher[d].class = "transient" /\ dispatcher[d].attempts <= MaxAttempts

Retries(d) ==
  dispatcher[d].class = "transient" /\ dispatcher[d].attempts < MaxAttempts

\* Mutant: without AND status = 'SENDING'.
MutSettled(d, status, due) ==
  outbox' = [outbox EXCEPT ![dispatcher[d].msg] =
    [@ EXCEPT !.status = status, !.due = due, !.stale = FALSE]]

\* The UPDATE ... WHERE status = 'SENDING' each of the four ends makes.
Settled(d, status, due) ==
  outbox' = [outbox EXCEPT ![dispatcher[d].msg] =
    IF @.status = "SENDING"
    THEN [@ EXCEPT !.status = status, !.due = due, !.stale = FALSE]
    ELSE @]

\* MarkOutboundSent fails when it finds no SENDING row.  The loop then stops
\* and cmd/api starts it again, which is what the other three do anyway.
MarkOutboundSent(d) ==
  dispatcher[d].class = "sent" /\ Settled(d, "SENT", FALSE)

MarkOutboundUnknown(d) ==
  dispatcher[d].class = "ambiguous" /\ Settled(d, "UNKNOWN", FALSE)

RetryOutbound(d) == Retries(d) /\ Settled(d, "FAILED", TRUE)

FailOutbound(d) ==
  /\ dispatcher[d].class \in {"transient", "permanent"}
  /\ ~Retries(d)
  /\ Settled(d, "FAILED", FALSE)

Settle(d) ==
  /\ dispatcher[d].pc = "settle"
  /\ \/ MarkOutboundSent(d) \/ MarkOutboundUnknown(d)
     \/ RetryOutbound(d) \/ FailOutbound(d)
  /\ dispatcher' = [dispatcher EXCEPT ![d] = Polling("sweep")]
  /\ UNCHANGED delivered

\* The process stops, or is told to stop (a send that is cancelled can write
\* nothing either), or a statement fails.
DispatcherCrash(d) ==
  /\ dispatcher[d].pc \in {"send", "settle"}
  /\ dispatcher' = [dispatcher EXCEPT ![d] = Polling("sweep")]
  /\ IF dispatcher[d].pc = "send"
     THEN \E shown \in BOOLEAN : delivered' =
       IF shown THEN [delivered EXCEPT ![dispatcher[d].msg] = @ + 1]
       ELSE delivered
     ELSE UNCHANGED delivered
  /\ UNCHANGED outbox

\* Five minutes have passed since the row was claimed.
Expire(m) ==
  /\ outbox[m].status = "SENDING" /\ ~outbox[m].stale
  /\ outbox' = [outbox EXCEPT ![m].stale = TRUE]
  /\ UNCHANGED <<dispatcher, delivered>>

-------------------------------------------------------------------------------

DispatchOne(d) ==
  \/ Sweep(d) \/ NoOutboundWork(d) \/ SendText(d) \/ Settle(d)
  \/ \E m \in Replies : ClaimOutbound(d, m)

Next ==
  \/ \E m \in Replies : Queue(m) \/ Expire(m)
  \/ \E d \in Dispatchers : DispatchOne(d) \/ DispatcherCrash(d)

Spec == Init /\ [][Next]_vars

\* The loops poll for ever (Runner.Run) and clocks advance.
Fairness ==
  /\ \A d \in Dispatchers : WF_vars(DispatchOne(d))
  /\ \A m \in Replies : WF_vars(Expire(m))

FairSpec == Spec /\ Fairness

-------------------------------------------------------------------------------
\* Properties.

\* Nobody is shown a reply twice, although sends are retried and dispatchers
\* stop, restart and outlive their claims.  As far as a 429 or a 5xx means that
\* the message was not delivered (~LateErrors).
DeliveredAtMostOnce == \A m \in Replies : delivered[m] <= 1

\* A reply that may still be sent was not delivered and is in nobody's hands.
\* As far as a 429 or a 5xx means that the message was not delivered.
WaitingIsUndelivered ==
  \A m \in Replies :
    Claimable(m) =>
      /\ delivered[m] = 0
      /\ \A d \in Dispatchers : dispatcher[d].msg # m

\* What the row says of the delivery is so: SENT is delivered, and FAILED (for a
\* retry or for good) is not.  As far as the API tells (~LateErrors,
\* ~NamelessIds); UNKNOWN says nothing.
RowTellsDelivery ==
  \A m \in Replies :
    /\ outbox[m].status = "SENT" => delivered[m] = 1
    /\ outbox[m].status = "FAILED" => delivered[m] = 0

HasEnded(row) ==
  row.status \in {"SENT", "UNKNOWN"} \/ (row.status = "FAILED" /\ ~row.due)

\* An end is final: no late dispatcher, sweep or claim changes the row again.
EndIsFinal ==
  [][\A m \in Replies : HasEnded(outbox[m]) => outbox'[m] = outbox[m]]_vars

\* What a row says of its reply; a FAILED row that is due waits as a PENDING one.
StageOf(row) ==
  CASE row.status = "ABSENT" -> "none"
    [] row.due -> "waiting"
    [] row.status = "SENDING" -> "sending"
    [] row.status = "SENT" -> "sent"
    [] row.status = "UNKNOWN" -> "unknown"
    [] OTHER -> "failed"

\* The dispatchers implement TellOnce: a reply is shown once and never after word of
\* it was given, it is sent again only by those who know that it was not shown, and
\* what a row says of the delivery is true when it is written and stays so.  As far
\* as the API tells (~LateErrors, ~NamelessIds).
Promise == INSTANCE TellOnce WITH
  Reply <- Replies,
  stage <- [m \in Replies |-> StageOf(outbox[m])],
  shown <- delivered

ImplementsTellOnce == Promise!Spec

\* Every reply that is queued comes to an end, however often dispatchers stop.
RepliesEnd ==
  \A m \in Replies : outbox[m].status = "PENDING" ~> HasEnded(outbox[m])
===============================================================================
