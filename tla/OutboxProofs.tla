----------------------------- MODULE OutboxProofs -----------------------------
(***************************************************************************)
(* What TLAPS proves about Outbox, for any number of replies, dispatchers  *)
(* and attempts.                                                           *)
(*                                                                         *)
(* DeliveredAtMostOnce is not inductive.  What keeps a reply from a second *)
(* send is who holds it: a dispatcher holds a row that is SENDING, or      *)
(* UNKNOWN when it was given up meanwhile, no two hold the same one, and   *)
(* the only way back to a row that can be claimed is the holder's own      *)
(* retry after an answer that says "not delivered".                        *)
(***************************************************************************)
EXTENDS Outbox, TLAPS

Busy(d) == dispatcher[d].pc \in {"send", "settle"}

\* A dispatcher at work holds a row, an idle one none.
HoldersInv ==
  \A d \in Dispatchers :
    IF Busy(d)
    THEN /\ dispatcher[d].msg \in Replies
         /\ outbox[dispatcher[d].msg].status \in {"SENDING", "UNKNOWN"}
    ELSE dispatcher[d].msg = NoReply

ExclusiveInv ==
  \A c, d \in Dispatchers :
    Busy(c) /\ Busy(d) /\ dispatcher[c].msg = dispatcher[d].msg => c = d

\* What a dispatcher was told is so.
ToldInv ==
  \A d \in Dispatchers :
    LET shown == delivered[dispatcher[d].msg]  class == dispatcher[d].class IN
    /\ dispatcher[d].pc = "send" => shown = 0
    /\ dispatcher[d].pc = "settle" =>
         /\ class = "sent" => shown = 1
         /\ class = "transient" => shown = 0
         /\ class = "permanent" => shown = 0 \/ NamelessIds

DeliveryInv ==
  \A m \in Replies :
    /\ delivered[m] <= 1
    /\ outbox[m].status \in {"ABSENT", "PENDING"} => delivered[m] = 0
    /\ outbox[m].status = "FAILED" =>
         delivered[m] = 0 \/ (NamelessIds /\ ~outbox[m].due)
    /\ outbox[m].status = "SENT" => delivered[m] = 1

HoldInv == TypeOK /\ HoldersInv /\ ExclusiveInv

SendInv == ToldInv /\ DeliveryInv

-------------------------------------------------------------------------------
\* Types and holders; in every environment.

LEMMA HoldInit == Init => HoldInv
<1> SUFFICES ASSUME Init PROVE HoldInv
    OBVIOUS
<1>1. 0 \in 0..MaxAttempts
  BY MaxAttemptsAssumption
<1>2. TypeOK
  BY <1>1 DEF Init, TypeOK, RowChecks, OutboundRow, OutboundStatuses,
              DispatcherState, Polling
<1>3. HoldersInv
  BY DEF Init, HoldersInv, Busy, Polling
<1>4. ExclusiveInv
  BY DEF Init, ExclusiveInv, Busy, Polling
<1> QED BY <1>2, <1>3, <1>4 DEF HoldInv

\* A row of the table that is written has its type and its CHECKs.
LEMMA WriteTypes ==
  ASSUME TypeOK, NEW m \in Replies, NEW row \in OutboundRow, RowChecks(row),
         outbox' = [outbox EXCEPT ![m] = row],
         dispatcher' \in [Dispatchers -> DispatcherState],
         delivered' \in [Replies -> Nat]
  PROVE  TypeOK'
<1>1. outbox' \in [Replies -> OutboundRow]
  BY DEF TypeOK
<1>2. \A r \in Replies : RowChecks(outbox'[r])
  BY DEF TypeOK
<1> QED BY <1>1, <1>2 DEF TypeOK, RowChecks

LEMMA PollingType == \A pc \in {"sweep", "claim"} : Polling(pc) \in DispatcherState
<1>1. 0 \in 0..MaxAttempts
  BY MaxAttemptsAssumption
<1> QED BY <1>1 DEF Polling, DispatcherState

LEMMA HoldStep == HoldInv /\ [Next]_vars => HoldInv'
<1> SUFFICES ASSUME HoldInv, [Next]_vars PROVE HoldInv'
    OBVIOUS
<1> USE MaxAttemptsAssumption, NoReplyAssumption
<1>t. /\ outbox \in [Replies -> OutboundRow]
      /\ \A m \in Replies : RowChecks(outbox[m])
      /\ dispatcher \in [Dispatchers -> DispatcherState]
      /\ delivered \in [Replies -> Nat]
      /\ TypeOK /\ HoldersInv /\ ExclusiveInv
  BY DEF HoldInv, TypeOK
<1>1. ASSUME NEW m \in Replies, Queue(m) PROVE HoldInv'
  <2> DEFINE row == [outbox[m] EXCEPT !.status = "PENDING", !.due = TRUE]
  <2>1. outbox' = [outbox EXCEPT ![m] = row] /\ UNCHANGED <<dispatcher, delivered>>
    BY <1>1, <1>t DEF Queue, OutboundRow
  <2>2. row \in OutboundRow /\ RowChecks(row)
    BY <1>t DEF OutboundRow, OutboundStatuses, RowChecks
  <2>3. TypeOK'
    BY <1>t, <2>1, <2>2, WriteTypes
  <2>4. HoldersInv'
    BY <1>1, <1>t, <2>1 DEF HoldersInv, Busy, Queue
  <2>5. ExclusiveInv'
    BY <1>t, <2>1 DEF ExclusiveInv, Busy
  <2> QED BY <2>3, <2>4, <2>5 DEF HoldInv
<1>2. ASSUME NEW m \in Replies, Expire(m) PROVE HoldInv'
  <2> DEFINE row == [outbox[m] EXCEPT !.stale = TRUE]
  <2>1. outbox' = [outbox EXCEPT ![m] = row] /\ UNCHANGED <<dispatcher, delivered>>
    BY <1>2, <1>t DEF Expire, OutboundRow
  <2>2. row \in OutboundRow /\ RowChecks(row)
    BY <1>t DEF OutboundRow, OutboundStatuses, RowChecks
  <2>3. TypeOK'
    BY <1>t, <2>1, <2>2, WriteTypes
  <2>4. HoldersInv'
    BY <1>t, <2>1 DEF HoldersInv, Busy, OutboundRow
  <2>5. ExclusiveInv'
    BY <1>t, <2>1 DEF ExclusiveInv, Busy
  <2> QED BY <2>3, <2>4, <2>5 DEF HoldInv
<1>3. ASSUME NEW d \in Dispatchers, Sweep(d) PROVE HoldInv'
  <2>1. /\ outbox' = [m \in Replies |-> SweptRow(outbox[m])]
        /\ dispatcher' = [dispatcher EXCEPT ![d] = Polling("claim")]
        /\ delivered' = delivered
    BY <1>3 DEF Sweep
  <2>2. \A m \in Replies :
          SweptRow(outbox[m]) \in OutboundRow /\ RowChecks(SweptRow(outbox[m]))
    BY <1>t DEF SweptRow, OutboundRow, OutboundStatuses, RowChecks
  <2>3. TypeOK'
    <3>1. outbox' \in [Replies -> OutboundRow]
      BY <2>1, <2>2
    <3>2. \A m \in Replies : RowChecks(outbox'[m])
      BY <2>1, <2>2
    <3>3. dispatcher' \in [Dispatchers -> DispatcherState]
      BY <1>t, <2>1, PollingType
    <3> QED BY <1>t, <2>1, <3>1, <3>2, <3>3 DEF TypeOK, RowChecks
  <2>4. \A m \in Replies : outbox[m].status \in {"SENDING", "UNKNOWN"} =>
          outbox'[m].status \in {"SENDING", "UNKNOWN"}
    BY <1>t, <2>1 DEF SweptRow, OutboundRow
  <2>5. HoldersInv'
    BY <1>t, <2>1, <2>4 DEF HoldersInv, Busy, Polling
  <2>6. ExclusiveInv'
    BY <1>t, <2>1 DEF ExclusiveInv, Busy, Polling
  <2> QED BY <2>3, <2>5, <2>6 DEF HoldInv
<1>4. ASSUME NEW d \in Dispatchers, NEW m \in Replies, ClaimOutbound(d, m)
      PROVE  HoldInv'
  <2> DEFINE state == [pc |-> "send", msg |-> m,
                       attempts |-> outbox[m].attempts + 1, class |-> "none"]
  <2>1. /\ outbox' = [outbox EXCEPT ![m] = ClaimedRow(outbox[m])]
        /\ dispatcher' = [dispatcher EXCEPT ![d] = state]
        /\ delivered' = delivered
        /\ outbox[m].attempts < MaxAttempts
    BY <1>4, <1>t DEF ClaimOutbound, Claimable
  <2>2. outbox[m].attempts + 1 \in 0..MaxAttempts /\ outbox[m].attempts + 1 > 0
    BY <1>t, <2>1 DEF OutboundRow
  <2>3. ClaimedRow(outbox[m]) \in OutboundRow /\ RowChecks(ClaimedRow(outbox[m]))
    BY <2>2 DEF ClaimedRow, OutboundRow, OutboundStatuses, RowChecks
  <2>4. state \in DispatcherState
    BY <2>2 DEF DispatcherState
  <2>5. TypeOK'
    BY <1>t, <2>1, <2>3, <2>4, WriteTypes
  <2>6. HoldersInv'
    BY <1>t, <2>1 DEF HoldersInv, Busy, ClaimedRow
  <2>7. \A c \in Dispatchers : Busy(c) => dispatcher[c].msg # m
    BY <1>4, <1>t DEF HoldersInv, ClaimOutbound, Claimable
  <2>8. ExclusiveInv'
    BY <1>t, <2>1, <2>7 DEF ExclusiveInv, Busy
  <2> QED BY <2>5, <2>6, <2>8 DEF HoldInv
<1>5. ASSUME NEW d \in Dispatchers, NoOutboundWork(d) PROVE HoldInv'
  <2>1. TypeOK'
    BY <1>5, <1>t, PollingType DEF NoOutboundWork, TypeOK, RowChecks
  <2>2. HoldersInv'
    BY <1>5, <1>t DEF NoOutboundWork, HoldersInv, Busy, Polling
  <2>3. ExclusiveInv'
    BY <1>5, <1>t DEF NoOutboundWork, ExclusiveInv, Busy, Polling
  <2> QED BY <2>1, <2>2, <2>3 DEF HoldInv
<1>6. ASSUME NEW d \in Dispatchers, SendText(d) PROVE HoldInv'
  <2>1. PICK response \in Responses, shown \in BOOLEAN :
          /\ delivered' =
               IF shown THEN [delivered EXCEPT ![dispatcher[d].msg] = @ + 1]
               ELSE delivered
          /\ dispatcher' = [dispatcher EXCEPT
               ![d].pc = "settle", ![d].class = Class(response)]
          /\ outbox' = outbox /\ dispatcher[d].pc = "send"
    BY <1>6 DEF SendText, MayDeliver, Responses
  <2>2. Class(response) \in {"sent", "ambiguous", "transient", "permanent"}
    BY DEF Class, Responses
  <2>3. dispatcher' \in [Dispatchers -> DispatcherState]
    BY <1>t, <2>1, <2>2 DEF DispatcherState
  <2>4. delivered' \in [Replies -> Nat]
    <3>1. dispatcher[d].msg \in Replies
      BY <1>t, <2>1 DEF HoldersInv, Busy
    <3> QED BY <1>t, <2>1, <3>1
  <2>5. TypeOK'
    BY <1>t, <2>1, <2>3, <2>4 DEF TypeOK, RowChecks
  <2>6. HoldersInv'
    BY <1>t, <2>1 DEF HoldersInv, Busy, DispatcherState
  <2>7. ExclusiveInv'
    BY <1>t, <2>1 DEF ExclusiveInv, Busy, DispatcherState
  <2> QED BY <2>5, <2>6, <2>7 DEF HoldInv
<1>7. ASSUME NEW d \in Dispatchers, Settle(d) PROVE HoldInv'
  <2>1. PICK status \in {"SENT", "UNKNOWN", "FAILED"}, due \in BOOLEAN :
          Settled(d, status, due) /\ (due => status = "FAILED")
    BY <1>7 DEF Settle, MarkOutboundSent, MarkOutboundUnknown, RetryOutbound,
                FailOutbound
  <2>2. /\ dispatcher[d].pc = "settle"
        /\ dispatcher' = [dispatcher EXCEPT ![d] = Polling("sweep")]
        /\ delivered' = delivered
    BY <1>7 DEF Settle
  <2> DEFINE m == dispatcher[d].msg
             row == IF outbox[m].status = "SENDING"
                    THEN [outbox[m] EXCEPT !.status = status, !.due = due,
                                           !.stale = FALSE]
                    ELSE outbox[m]
  <2>3. m \in Replies
    BY <1>t, <2>2 DEF HoldersInv, Busy
  <2>4. outbox' = [outbox EXCEPT ![m] = row]
    BY <1>t, <2>1, <2>3 DEF Settled
  <2>5. row \in OutboundRow /\ RowChecks(row)
    BY <1>t, <2>1, <2>3 DEF OutboundRow, OutboundStatuses, RowChecks
  <2>6. dispatcher' \in [Dispatchers -> DispatcherState]
    BY <1>t, <2>2, PollingType
  <2>7. TypeOK'
    BY <1>t, <2>2, <2>3, <2>4, <2>5, <2>6, WriteTypes
  <2>8. \A c \in Dispatchers \ {d} : Busy(c) => dispatcher[c].msg # m
    BY <1>t, <2>2 DEF ExclusiveInv, Busy
  <2>9. HoldersInv'
    BY <1>t, <2>2, <2>3, <2>4, <2>8 DEF HoldersInv, Busy, Polling
  <2>10. ExclusiveInv'
    BY <1>t, <2>2 DEF ExclusiveInv, Busy, Polling
  <2> QED BY <2>7, <2>9, <2>10 DEF HoldInv
<1>8. ASSUME NEW d \in Dispatchers, DispatcherCrash(d) PROVE HoldInv'
  <2>1. /\ dispatcher' = [dispatcher EXCEPT ![d] = Polling("sweep")]
        /\ outbox' = outbox /\ Busy(d)
    BY <1>8 DEF DispatcherCrash, Busy
  <2>2. delivered' \in [Replies -> Nat]
    <3>1. dispatcher[d].msg \in Replies
      BY <1>t, <2>1 DEF HoldersInv
    <3> QED BY <1>8, <1>t, <3>1 DEF DispatcherCrash
  <2>3. TypeOK'
    BY <1>t, <2>1, <2>2, PollingType DEF TypeOK, RowChecks
  <2>4. HoldersInv'
    BY <1>t, <2>1 DEF HoldersInv, Busy, Polling
  <2>5. ExclusiveInv'
    BY <1>t, <2>1 DEF ExclusiveInv, Busy, Polling
  <2> QED BY <2>3, <2>4, <2>5 DEF HoldInv
<1>9. CASE UNCHANGED vars
  BY <1>9 DEF vars, HoldInv, TypeOK, RowChecks, HoldersInv, ExclusiveInv, Busy
<1> QED BY <1>1, <1>2, <1>3, <1>4, <1>5, <1>6, <1>7, <1>8, <1>9
        DEF Next, DispatchOne

LEMMA HoldInvariant == Spec => []HoldInv
<1> QED BY HoldInit, HoldStep, PTL DEF Spec

\* The types, and the CHECKs of the table: no statement of the code is refused
\* by the schema.
THEOREM OutboxTypeCorrect == Spec => []TypeOK
<1>1. HoldInv => TypeOK
  BY DEF HoldInv
<1> QED BY <1>1, HoldInvariant, PTL

-------------------------------------------------------------------------------
\* What is sent and what is told.

LEMMA SendInit == Init => SendInv
  BY DEF Init, SendInv, ToldInv, DeliveryInv, Polling

LEMMA SendStep ==
  ASSUME ~LateErrors, HoldInv, SendInv, [Next]_vars
  PROVE  SendInv'
<1> USE NoReplyAssumption
<1>t. /\ outbox \in [Replies -> OutboundRow]
      /\ dispatcher \in [Dispatchers -> DispatcherState]
      /\ delivered \in [Replies -> Nat]
      /\ HoldersInv /\ ExclusiveInv /\ ToldInv /\ DeliveryInv
  BY DEF HoldInv, SendInv, TypeOK
<1>b. \A d \in Dispatchers :
        Busy(d) => /\ dispatcher[d].msg \in Replies
                   /\ outbox[dispatcher[d].msg].status \in {"SENDING", "UNKNOWN"}
  BY <1>t DEF HoldersInv
\* A step that shows the recipient nothing keeps what is told of every reply but
\* the one whose dispatcher it moves.
<1>n. ASSUME NEW d \in Dispatchers, NEW pc \in {"sweep", "claim"},
             dispatcher' = [dispatcher EXCEPT ![d] = Polling(pc)],
             delivered' = delivered
      PROVE  ToldInv'
  BY <1>n, <1>t DEF ToldInv, Polling
<1>1. ASSUME NEW m \in Replies, Queue(m) PROVE SendInv'
  BY <1>1, <1>t DEF Queue, SendInv, ToldInv, DeliveryInv, OutboundRow
<1>2. ASSUME NEW m \in Replies, Expire(m) PROVE SendInv'
  BY <1>2, <1>t DEF Expire, SendInv, ToldInv, DeliveryInv, OutboundRow
<1>3. ASSUME NEW d \in Dispatchers, Sweep(d) PROVE SendInv'
  <2>1. ToldInv'
    BY <1>3, <1>n DEF Sweep
  <2>2. DeliveryInv'
    BY <1>3, <1>t DEF Sweep, SweptRow, DeliveryInv, OutboundRow
  <2> QED BY <2>1, <2>2 DEF SendInv
<1>4. ASSUME NEW d \in Dispatchers, NEW m \in Replies, ClaimOutbound(d, m)
      PROVE  SendInv'
  <2>1. delivered[m] = 0
    BY <1>4, <1>t DEF ClaimOutbound, Claimable, DeliveryInv
  <2>2. ToldInv'
    BY <1>4, <1>t, <2>1 DEF ClaimOutbound, ToldInv
  <2>3. DeliveryInv'
    BY <1>4, <1>t DEF ClaimOutbound, ClaimedRow, DeliveryInv
  <2> QED BY <2>2, <2>3 DEF SendInv
<1>5. ASSUME NEW d \in Dispatchers, NoOutboundWork(d) PROVE SendInv'
  <2>1. ToldInv'
    BY <1>5, <1>n DEF NoOutboundWork
  <2> QED BY <1>5, <1>t, <2>1 DEF NoOutboundWork, SendInv, DeliveryInv
<1>6. ASSUME NEW d \in Dispatchers, SendText(d) PROVE SendInv'
  <2> DEFINE m == dispatcher[d].msg
  <2>1. PICK response \in Responses, shown \in BOOLEAN :
          /\ shown \in MayDeliver(response)
          /\ delivered' = IF shown THEN [delivered EXCEPT ![m] = @ + 1]
                          ELSE delivered
          /\ dispatcher' = [dispatcher EXCEPT
               ![d].pc = "settle", ![d].class = Class(response)]
    BY <1>6 DEF SendText, MayDeliver, Responses
  <2>2. outbox' = outbox /\ dispatcher[d].pc = "send" /\ Busy(d)
    BY <1>6 DEF SendText, Busy
  <2>3. /\ m \in Replies /\ delivered[m] = 0
        /\ outbox[m].status \in {"SENDING", "UNKNOWN"}
    BY <1>b, <1>t, <2>2 DEF ToldInv
  <2>4. /\ Class(response) = "sent" => shown = TRUE
        /\ Class(response) = "transient" => shown = FALSE
        /\ Class(response) = "permanent" => shown = FALSE \/ NamelessIds
    BY <2>1 DEF Class, MayDeliver, Responses
  <2>5. delivered'[m] = IF shown THEN 1 ELSE 0
    BY <1>t, <2>1, <2>3
  <2>6. \A r \in Replies \ {m} : delivered'[r] = delivered[r]
    BY <1>t, <2>1, <2>3
  <2>7. \A c \in Dispatchers \ {d} :
          /\ dispatcher'[c] = dispatcher[c]
          /\ Busy(c) => dispatcher[c].msg \in Replies \ {m}
    BY <1>b, <1>t, <2>1, <2>2 DEF ExclusiveInv
  <2>8. /\ dispatcher'[d].pc = "settle" /\ dispatcher'[d].msg = m
        /\ dispatcher'[d].class = Class(response)
    BY <1>t, <2>1 DEF DispatcherState
  <2>9. ToldInv'
    <3>1. ASSUME NEW c \in Dispatchers \ {d}
          PROVE  /\ dispatcher'[c] = dispatcher[c]
                 /\ Busy(c) => delivered'[dispatcher[c].msg] = delivered[dispatcher[c].msg]
      BY <2>6, <2>7
    <3> QED BY <1>t, <2>4, <2>5, <2>8, <3>1 DEF ToldInv, Busy
  <2>10. DeliveryInv'
    BY <1>t, <2>2, <2>3, <2>5, <2>6 DEF DeliveryInv
  <2> QED BY <2>9, <2>10 DEF SendInv
<1>7. ASSUME NEW d \in Dispatchers, Settle(d) PROVE SendInv'
  <2> DEFINE m == dispatcher[d].msg
  <2>1. ToldInv'
    BY <1>7, <1>n DEF Settle
  <2>2. /\ delivered' = delivered /\ m \in Replies
        /\ outbox[m].status \in {"SENDING", "UNKNOWN"}
    BY <1>7, <1>b DEF Settle, Busy
  <2>3. ASSUME NEW status \in {"SENT", "UNKNOWN", "FAILED"}, NEW due \in BOOLEAN,
               Settled(d, status, due),
               status = "SENT" => delivered[m] = 1,
               status = "FAILED" => delivered[m] = 0 \/ (NamelessIds /\ ~due)
        PROVE  DeliveryInv'
    <3>1. \A r \in Replies \ {m} : outbox'[r] = outbox[r]
      BY <1>t, <2>2, <2>3 DEF Settled
    <3>2. \/ outbox'[m] = outbox[m]
          \/ outbox'[m].status = status /\ outbox'[m].due = due
      BY <1>t, <2>2, <2>3 DEF Settled, OutboundRow
    <3> QED BY <1>t, <2>2, <2>3, <3>1, <3>2 DEF DeliveryInv
  <2>4. PICK status \in {"SENT", "UNKNOWN", "FAILED"}, due \in BOOLEAN :
          /\ Settled(d, status, due)
          /\ status = "SENT" => delivered[m] = 1
          /\ status = "FAILED" => delivered[m] = 0 \/ (NamelessIds /\ ~due)
    <3>1. /\ dispatcher[d].class = "sent" => delivered[m] = 1
          /\ dispatcher[d].class = "transient" => delivered[m] = 0
          /\ dispatcher[d].class = "permanent" => delivered[m] = 0 \/ NamelessIds
      BY <1>7, <1>t DEF Settle, ToldInv
    <3>2. CASE MarkOutboundSent(d)
      BY <3>1, <3>2, Zenon DEF MarkOutboundSent
    <3>3. CASE MarkOutboundUnknown(d)
      BY <3>3, Zenon DEF MarkOutboundUnknown
    <3>4. CASE RetryOutbound(d)
      BY <3>1, <3>4, Zenon DEF RetryOutbound, Retries
    <3>5. CASE FailOutbound(d)
      <4>1. Settled(d, "FAILED", FALSE)
        BY <3>5 DEF FailOutbound
      <4>2. delivered[m] = 0 \/ NamelessIds
        BY <3>1, <3>5 DEF FailOutbound
      <4> QED BY <4>1, <4>2, Zenon
    <3> QED BY <1>7, <3>2, <3>3, <3>4, <3>5 DEF Settle
  <2>5. DeliveryInv'
    BY <2>3, <2>4
  <2> QED BY <2>1, <2>5 DEF SendInv
<1>8. ASSUME NEW d \in Dispatchers, DispatcherCrash(d) PROVE SendInv'
  <2> DEFINE m == dispatcher[d].msg
  <2>1. /\ dispatcher' = [dispatcher EXCEPT ![d] = Polling("sweep")]
        /\ outbox' = outbox /\ Busy(d) /\ m \in Replies
        /\ outbox[m].status \in {"SENDING", "UNKNOWN"}
    BY <1>8, <1>b DEF DispatcherCrash, Busy
  <2>2. CASE delivered' = delivered
    BY <1>n, <1>t, <2>1, <2>2 DEF SendInv, DeliveryInv
  <2>3. CASE dispatcher[d].pc = "send" /\ delivered' = [delivered EXCEPT ![m] = @ + 1]
    <3>1. delivered[m] = 0 /\ delivered'[m] = 1
      BY <1>t, <2>1, <2>3 DEF ToldInv
    <3>2. \A r \in Replies \ {m} : delivered'[r] = delivered[r]
      BY <1>t, <2>1, <2>3
    <3>3. DeliveryInv'
      BY <1>t, <2>1, <3>1, <3>2 DEF DeliveryInv
    <3>4. \A c \in Dispatchers \ {d} :
            /\ dispatcher'[c] = dispatcher[c]
            /\ Busy(c) => delivered'[dispatcher[c].msg] = delivered[dispatcher[c].msg]
      BY <1>b, <1>t, <2>1, <3>2 DEF ExclusiveInv
    <3>5. dispatcher'[d] = Polling("sweep")
      BY <1>t, <2>1
    <3>6. ToldInv'
      BY <1>t, <3>4, <3>5 DEF ToldInv, Busy, Polling
    <3> QED BY <3>3, <3>6 DEF SendInv
  <2> QED BY <1>8, <2>2, <2>3 DEF DispatcherCrash
<1>9. CASE UNCHANGED vars
  BY <1>9, <1>t DEF vars, SendInv, ToldInv, DeliveryInv
<1> QED BY <1>1, <1>2, <1>3, <1>4, <1>5, <1>6, <1>7, <1>8, <1>9
        DEF Next, DispatchOne

LEMMA SendInvariant == ASSUME ~LateErrors PROVE Spec => [](HoldInv /\ SendInv)
<1>1. HoldInv /\ SendInv /\ [Next]_vars => (HoldInv /\ SendInv)'
  BY HoldStep, SendStep
<1> QED BY HoldInit, SendInit, <1>1, PTL DEF Spec

\* No recipient is shown a reply twice: whatever crashes, late dispatchers and
\* lost answers there are, as long as a 429 or a 5xx means "not delivered".
THEOREM DeliveredAtMostOnceHolds ==
  ASSUME ~LateErrors
  PROVE  Spec => []DeliveredAtMostOnce
<1>1. SendInv => DeliveredAtMostOnce
  BY DEF SendInv, DeliveryInv, DeliveredAtMostOnce
<1> QED BY <1>1, SendInvariant, PTL

\* A reply that can be claimed is undelivered and in nobody's hands.
THEOREM WaitingIsUndeliveredHolds ==
  ASSUME ~LateErrors
  PROVE  Spec => []WaitingIsUndelivered
<1>1. HoldInv /\ SendInv => WaitingIsUndelivered
  BY NoReplyAssumption DEF HoldInv, HoldersInv, SendInv, DeliveryInv,
     WaitingIsUndelivered, Claimable
<1> QED BY <1>1, SendInvariant, PTL

\* SENT says delivered and FAILED says not, as long as the API tells the truth.
THEOREM RowTellsDeliveryHolds ==
  ASSUME ~LateErrors, ~NamelessIds
  PROVE  Spec => []RowTellsDelivery
<1>1. SendInv => RowTellsDelivery
  BY DEF SendInv, DeliveryInv, RowTellsDelivery
<1> QED BY <1>1, SendInvariant, PTL

-------------------------------------------------------------------------------
\* Ends; in every environment.

LEMMA EndStep ==
  ASSUME TypeOK, [Next]_vars, NEW m \in Replies, HasEnded(outbox[m])
  PROVE  outbox'[m] = outbox[m]
<1>t. outbox \in [Replies -> OutboundRow]
  BY DEF TypeOK
<1>e. /\ outbox[m].status \notin {"ABSENT", "PENDING", "SENDING"}
      /\ outbox[m].status = "FAILED" => ~outbox[m].due
  BY DEF HasEnded
<1>1. ASSUME NEW r \in Replies, Queue(r) \/ Expire(r) PROVE outbox'[m] = outbox[m]
  BY <1>1, <1>t, <1>e DEF Queue, Expire
<1>2. ASSUME NEW d \in Dispatchers, Sweep(d) PROVE outbox'[m] = outbox[m]
  BY <1>2, <1>t, <1>e DEF Sweep, SweptRow
<1>3. ASSUME NEW d \in Dispatchers, NEW r \in Replies, ClaimOutbound(d, r)
      PROVE  outbox'[m] = outbox[m]
  BY <1>3, <1>t, <1>e DEF ClaimOutbound, Claimable
<1>4. ASSUME NEW d \in Dispatchers, Settle(d) PROVE outbox'[m] = outbox[m]
  <2>1. PICK status, due : Settled(d, status, due)
    BY <1>4 DEF Settle, MarkOutboundSent, MarkOutboundUnknown, RetryOutbound,
                FailOutbound
  <2> QED BY <1>t, <1>e, <2>1 DEF Settled
<1>5. ASSUME NEW d \in Dispatchers,
             NoOutboundWork(d) \/ SendText(d) \/ DispatcherCrash(d)
      PROVE  outbox'[m] = outbox[m]
  BY <1>5 DEF NoOutboundWork, SendText, DispatcherCrash
<1> QED BY <1>1, <1>2, <1>3, <1>4, <1>5 DEF Next, DispatchOne, vars

\* An end is final, in every environment.
THEOREM EndIsFinalHolds == Spec => EndIsFinal
<1>1. TypeOK /\ [Next]_vars =>
        [\A m \in Replies : HasEnded(outbox[m]) => outbox'[m] = outbox[m]]_vars
  BY EndStep
<1> QED BY <1>1, OutboxTypeCorrect, PTL DEF Spec, EndIsFinal

-------------------------------------------------------------------------------
\* The refinement of TellOnce, where the API tells what it did.

Stage == [m \in Replies |-> StageOf(outbox[m])]

Stutter == Stage' = Stage /\ delivered' = delivered

\* What a row says, read from its status.
LEMMA StageFacts ==
  ASSUME NEW row \in OutboundRow, RowChecks(row)
  PROVE  /\ StageOf(row) = "none" <=> row.status = "ABSENT"
         /\ StageOf(row) = "waiting" <=> row.due
         /\ StageOf(row) = "sending" <=> row.status = "SENDING"
         /\ StageOf(row) = "sent" <=> row.status = "SENT"
         /\ StageOf(row) = "unknown" <=> row.status = "UNKNOWN"
         /\ row.status = "FAILED" /\ ~row.due => StageOf(row) = "failed"
  BY DEF StageOf, RowChecks, OutboundRow, OutboundStatuses

\* A step that writes one row moves one reply.
LEMMA RowMoves ==
  ASSUME NEW m \in Replies, delivered' = delivered,
         \A n \in Replies \ {m} : outbox'[n] = outbox[n]
  PROVE  /\ Promise!Moves(m, Stage[m], Stage'[m])
         /\ Stage'[m] = Stage[m] => Stutter
<1>1. Stage' = [Stage EXCEPT ![m] = Stage'[m]]
  BY DEF Stage
<1>2. Promise!Moves(m, Stage[m], Stage'[m])
  BY <1>1 DEF Promise!Moves, Stage
<1>3. ASSUME Stage'[m] = Stage[m] PROVE Stutter
  BY <1>1, <1>3 DEF Stutter, Stage
<1> QED BY <1>2, <1>3

\* A send, whatever is told of it, shows one reply or none.
LEMMA SendShows ==
  ASSUME HoldInv, SendInv, outbox' = outbox,
         NEW d \in Dispatchers, dispatcher[d].pc = "send",
         \/ delivered' = [delivered EXCEPT ![dispatcher[d].msg] = @ + 1]
         \/ delivered' = delivered
  PROVE  Promise!Show(dispatcher[d].msg) \/ Stutter
<1> DEFINE m == dispatcher[d].msg
<1>1. /\ m \in Replies /\ delivered[m] = 0
      /\ outbox[m].status \in {"SENDING", "UNKNOWN"}
  BY DEF HoldInv, HoldersInv, SendInv, ToldInv, Busy
<1>2. /\ outbox[m] \in OutboundRow /\ RowChecks(outbox[m])
      /\ delivered \in [Replies -> Nat]
  BY <1>1 DEF HoldInv, TypeOK
<1>3. Stage' = Stage
  BY DEF Stage
<1>4. CASE delivered' = [delivered EXCEPT ![m] = @ + 1]
  <2>1. delivered' = [delivered EXCEPT ![m] = 1]
    BY <1>1, <1>2, <1>4
  <2>2. Stage[m] \in {"sending", "unknown"}
    BY <1>1, <1>2, StageFacts DEF Stage
  <2> QED BY <1>1, <1>3, <2>1, <2>2 DEF Promise!Show, Stage
<1>5. CASE delivered' = delivered
  BY <1>3, <1>5 DEF Stutter
<1> QED BY <1>4, <1>5

LEMMA TellStep ==
  ASSUME ~NamelessIds, HoldInv, HoldInv', SendInv, [Next]_vars
  PROVE  Promise!Next \/ Stutter
<1>t. /\ outbox \in [Replies -> OutboundRow] /\ outbox' \in [Replies -> OutboundRow]
      /\ \A m \in Replies : RowChecks(outbox[m]) /\ RowChecks(outbox'[m])
      /\ delivered \in [Replies -> Nat]
      /\ HoldersInv /\ ToldInv /\ DeliveryInv
  BY DEF HoldInv, SendInv, TypeOK, RowChecks
<1>p. \A m \in Replies :
        Promise!Queue(m) \/ Promise!Take(m) \/ Promise!Show(m) \/ Promise!GiveBack(m)
          \/ Promise!Report(m) \/ Promise!GiveUp({m}) => Promise!Next
  BY DEF Promise!Next
<1>1. ASSUME NEW m \in Replies, Queue(m) PROVE Promise!Next
  <2>0. outbox[m].status = "ABSENT" /\ outbox'[m].due
    BY <1>1, <1>t DEF Queue, OutboundRow
  <2>1. Stage[m] = "none" /\ Stage'[m] = "waiting"
    BY <2>0, <1>t, StageFacts DEF Stage
  <2>2. delivered' = delivered /\ \A n \in Replies \ {m} : outbox'[n] = outbox[n]
    BY <1>1, <1>t DEF Queue
  <2> QED BY <2>1, <2>2, <1>p, RowMoves DEF Promise!Queue
<1>2. ASSUME NEW m \in Replies, Expire(m) PROVE Stutter
  <2>1. outbox[m].status = "SENDING" /\ outbox'[m].status = "SENDING"
    BY <1>2, <1>t DEF Expire, OutboundRow
  <2>2. Stage[m] = "sending" /\ Stage'[m] = "sending"
    BY <2>1, <1>t, StageFacts DEF Stage
  <2>3. delivered' = delivered /\ \A n \in Replies \ {m} : outbox'[n] = outbox[n]
    BY <1>2, <1>t DEF Expire
  <2> QED BY <2>2, <2>3, RowMoves
<1>3. ASSUME NEW d \in Dispatchers, Sweep(d) PROVE Promise!Next
  <2> DEFINE rs == {m \in Replies : outbox[m].status = "SENDING" /\ outbox[m].stale}
  <2>1. \A m \in rs : Stage[m] = "sending"
    BY <1>t, StageFacts DEF Stage
  <2>2. \A m \in rs : outbox'[m].status = "UNKNOWN"
    BY <1>3, <1>t DEF Sweep, SweptRow, OutboundRow
  <2>3. \A m \in rs : Stage'[m] = "unknown"
    BY <2>2, <1>t, StageFacts DEF Stage
  <2>4. \A m \in Replies \ rs : Stage'[m] = Stage[m]
    BY <1>3 DEF Sweep, SweptRow, Stage
  <2>5. Stage' = [m \in Replies |-> IF m \in rs THEN "unknown" ELSE Stage[m]]
    BY <2>3, <2>4 DEF Stage
  <2>6. delivered' = delivered
    BY <1>3 DEF Sweep
  <2>7. rs \in SUBSET Replies
    OBVIOUS
  <2> HIDE DEF rs
  <2>8. Promise!GiveUp(rs)
    BY <2>1, <2>5, <2>6, <2>7 DEF Promise!GiveUp, Stage
  <2> QED BY <2>7, <2>8 DEF Promise!Next
<1>4. ASSUME NEW d \in Dispatchers, NEW m \in Replies, ClaimOutbound(d, m)
      PROVE  Promise!Next
  <2>1. outbox[m].due /\ outbox'[m].status = "SENDING"
    BY <1>4, <1>t DEF ClaimOutbound, Claimable, ClaimedRow
  <2>2. Stage[m] = "waiting" /\ Stage'[m] = "sending"
    BY <2>1, <1>t, StageFacts DEF Stage
  <2>3. delivered[m] = 0
    BY <1>4, <1>t DEF ClaimOutbound, Claimable, DeliveryInv
  <2>4. delivered' = delivered /\ \A n \in Replies \ {m} : outbox'[n] = outbox[n]
    BY <1>4, <1>t DEF ClaimOutbound
  <2> QED BY <2>2, <2>3, <2>4, <1>p, RowMoves DEF Promise!Take
<1>5. ASSUME NEW d \in Dispatchers, SendText(d) PROVE Promise!Next \/ Stutter
  <2>1. \/ delivered' = [delivered EXCEPT ![dispatcher[d].msg] = @ + 1]
        \/ delivered' = delivered
    BY <1>5 DEF SendText
  <2>2. dispatcher[d].pc = "send" /\ outbox' = outbox
    BY <1>5 DEF SendText
  <2>3. dispatcher[d].msg \in Replies
    BY <2>2, <1>t DEF HoldersInv, Busy
  <2>4. Promise!Show(dispatcher[d].msg) \/ Stutter
    BY <2>1, <2>2, SendShows
  <2> QED BY <2>3, <2>4, <1>p
<1>6. ASSUME NEW d \in Dispatchers, DispatcherCrash(d) PROVE Promise!Next \/ Stutter
  <2>1. outbox' = outbox /\ dispatcher[d].msg \in Replies
    BY <1>6, <1>t DEF DispatcherCrash, HoldersInv, Busy
  <2>2. CASE dispatcher[d].pc = "send"
    <3>1. \/ delivered' = [delivered EXCEPT ![dispatcher[d].msg] = @ + 1]
          \/ delivered' = delivered
      BY <1>6, <2>2 DEF DispatcherCrash
    <3>2. Promise!Show(dispatcher[d].msg) \/ Stutter
      BY <2>1, <2>2, <3>1, SendShows
    <3> QED BY <2>1, <3>2, <1>p
  <2>3. CASE dispatcher[d].pc # "send"
    BY <1>6, <2>1, <2>3 DEF DispatcherCrash, Stutter, Stage
  <2> QED BY <2>2, <2>3
<1>7. ASSUME NEW d \in Dispatchers, Settle(d) PROVE Promise!Next \/ Stutter
  <2>1. PICK m \in Replies : m = dispatcher[d].msg
    BY <1>7, <1>t DEF Settle, HoldersInv, Busy
  <2>2. /\ delivered' = delivered /\ dispatcher[d].pc = "settle"
        /\ \A n \in Replies \ {m} : outbox'[n] = outbox[n]
    BY <1>7, <1>t, <2>1 DEF Settle, MarkOutboundSent, MarkOutboundUnknown,
       RetryOutbound, FailOutbound, Settled
  <2>3. CASE outbox[m].status # "SENDING"
    <3>1. outbox'[m] = outbox[m]
      BY <1>7, <1>t, <2>1, <2>3 DEF Settle, MarkOutboundSent, MarkOutboundUnknown,
         RetryOutbound, FailOutbound, Settled
    <3> QED BY <2>2, <3>1, RowMoves DEF Stage
  <2>4. CASE outbox[m].status = "SENDING"
    <3>1. Stage[m] = "sending" BY <2>4, <1>t, StageFacts DEF Stage
    <3>2. /\ dispatcher[d].class = "sent" => delivered[m] = 1
          /\ dispatcher[d].class \in {"transient", "permanent"} => delivered[m] = 0
      BY <2>1, <2>2, <1>t DEF ToldInv
    <3>3. CASE MarkOutboundSent(d)
      <4>1. outbox'[m].status = "SENT"
        BY <1>t, <2>1, <2>4, <3>3 DEF MarkOutboundSent, Settled, OutboundRow
      <4>2. Stage'[m] = "sent" BY <4>1, <1>t, StageFacts DEF Stage
      <4>3. delivered[m] = 1 BY <3>2, <3>3 DEF MarkOutboundSent
      <4>4. Promise!Report(m)
        BY <2>2, <3>1, <4>2, <4>3, RowMoves DEF Promise!Report
      <4> QED BY <4>4, <1>p
    <3>4. CASE MarkOutboundUnknown(d)
      <4>1. outbox'[m].status = "UNKNOWN"
        BY <1>t, <2>1, <2>4, <3>4 DEF MarkOutboundUnknown, Settled, OutboundRow
      <4>2. Stage'[m] = "unknown" BY <4>1, <1>t, StageFacts DEF Stage
      <4>3. Stage' = [n \in Replies |-> IF n \in {m} THEN "unknown" ELSE Stage[n]]
        BY <2>2, <4>2 DEF Stage
      <4>4. Promise!GiveUp({m})
        BY <2>2, <3>1, <4>3 DEF Promise!GiveUp, Stage
      <4> QED BY <4>4, <1>p
    <3>5. CASE RetryOutbound(d)
      <4>1. outbox'[m].due
        BY <1>t, <2>1, <2>4, <3>5 DEF RetryOutbound, Settled, OutboundRow
      <4>2. Stage'[m] = "waiting" BY <4>1, <1>t, StageFacts DEF Stage
      <4>3. delivered[m] = 0 BY <3>2, <3>5 DEF RetryOutbound, Retries
      <4>4. Promise!GiveBack(m)
        BY <2>2, <3>1, <4>2, <4>3, RowMoves DEF Promise!GiveBack
      <4> QED BY <4>4, <1>p
    <3>6. CASE FailOutbound(d)
      <4>1. outbox'[m].status = "FAILED" /\ ~outbox'[m].due
        BY <1>t, <2>1, <2>4, <3>6 DEF FailOutbound, Settled, OutboundRow
      <4>2. Stage'[m] = "failed" BY <4>1, <1>t, StageFacts DEF Stage
      <4>3. delivered[m] = 0 BY <3>2, <3>6 DEF FailOutbound
      <4>4. Promise!Report(m)
        BY <2>2, <3>1, <4>2, <4>3, RowMoves DEF Promise!Report
      <4> QED BY <4>4, <1>p
    <3> QED BY <1>7, <3>3, <3>4, <3>5, <3>6 DEF Settle
  <2> QED BY <2>3, <2>4
<1>8. ASSUME NEW d \in Dispatchers, NoOutboundWork(d) PROVE Stutter
  BY <1>8 DEF NoOutboundWork, Stutter, Stage
<1>9. CASE UNCHANGED vars
  BY <1>9 DEF vars, Stutter, Stage
<1> QED BY <1>1, <1>2, <1>3, <1>4, <1>5, <1>6, <1>7, <1>8, <1>9
        DEF Next, DispatchOne

\* The dispatchers implement TellOnce, as long as the API tells what it did: no
\* reply is shown twice, and no word of the outbox is false or taken back.
THEOREM OutboxImplementsTellOnce ==
  ASSUME ~LateErrors, ~NamelessIds
  PROVE  Spec => ImplementsTellOnce
<1>1. Init => Promise!Init
  BY DEF Init, Promise!Init, StageOf
<1>2. HoldInv /\ HoldInv' /\ SendInv /\ [Next]_vars => [Promise!Next]_<<Stage, delivered>>
  BY TellStep DEF Stutter
<1>3. ImplementsTellOnce <=> Promise!Init /\ [][Promise!Next]_<<Stage, delivered>>
  BY DEF ImplementsTellOnce, Promise!Spec, Stage
<1> QED BY HoldInvariant, SendInvariant, <1>1, <1>2, <1>3, PTL DEF Spec
===============================================================================
