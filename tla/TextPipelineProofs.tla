-------------------------- MODULE TextPipelineProofs --------------------------
(***************************************************************************)
(* What TLAPS proves about TextPipeline, for any number of messages,       *)
(* processes and attempts.                                                 *)
(***************************************************************************)
EXTENDS TextPipeline, TLAPS

\* A process at work holds a message; with it TypeOK is inductive.
Holding ==
  /\ \A p \in Processors :
       processor[p].pc \in {"process", "settle"} => processor[p].msg \in Messages
  /\ \A w \in Runners :
       runner[w].pc = "translate" => runner[w].job \in Messages

TypeInv == TypeOK /\ Holding

-------------------------------------------------------------------------------

\* The writes keep a row a row (the UPDATEs of InboundRow).
LEMMA RowTypes ==
  ASSUME NEW max \in Nat, NEW row \in InboundRows(max)
  PROVE  /\ RetriedRow(row) \in InboundRows(max)
         /\ CompletedRow(row) \in InboundRows(max)
         /\ FailedRow(row) \in InboundRows(max)
         /\ row.attempts < max => ClaimedRow(row) \in InboundRows(max)
<1>1. RetriedRow(row) \in InboundRows(max)
  BY DEF InboundRows, InboundStatuses, RetriedRow
<1>2. CompletedRow(row) \in InboundRows(max)
  BY DEF InboundRows, InboundStatuses, CompletedRow
<1>3. FailedRow(row) \in InboundRows(max)
  BY DEF InboundRows, InboundStatuses, FailedRow
<1>4. ASSUME row.attempts < max PROVE ClaimedRow(row) \in InboundRows(max)
  <2>1. row.attempts + 1 \in 0..max BY <1>4 DEF InboundRows
  <2> QED BY <2>1 DEF InboundRows, InboundStatuses, ClaimedRow
<1> QED BY <1>1, <1>2, <1>3, <1>4

\* What the writes do to the questions asked of a row.
LEMMA RowFacts ==
  ASSUME NEW max \in Nat, NEW row \in InboundRows(max)
  PROVE  /\ Settled(CompletedRow(row)) /\ Settled(FailedRow(row))
         /\ CompletedRow(row).status = "COMPLETED"
         /\ FailedRow(row).status = "FAILED" /\ ~FailedRow(row).due
         /\ ~Settled(ClaimedRow(row)) /\ ClaimedRow(row).status = "PROCESSING"
         /\ ~ClaimedRow(row).stale
         /\ Settled(RetriedRow(row)) <=> Settled(row)
         /\ row.status # "PROCESSING" => RetriedRow(row) = row
         /\ Waiting(row) => ~Settled(row)
         /\ Abandoned(row) => ~Settled(row)
BY DEF InboundRows, InboundStatuses, RetriedRow, CompletedRow, FailedRow,
       ClaimedRow, Settled, Waiting, Abandoned

\* The outbox holds one kind of reply to a message, the first one.
LEMMA AddReplyTypes ==
  ASSUME NEW m \in Messages, NEW kind \in Replies \ {"none"},
         reply \in [Messages -> Replies], AddReply(m, kind)
  PROVE  /\ reply' \in [Messages -> Replies]
         /\ reply'[m] # "none"
         /\ reply'[m] = IF reply[m] = "none" THEN kind ELSE reply[m]
         /\ \A n \in Messages \ {m} : reply'[n] = reply[n]
BY DEF AddReply, Replies

-------------------------------------------------------------------------------

LEMMA TypeInit == Init => TypeInv
BY MaxAttemptsAssumption, MaxProviderAttemptsAssumption
   DEF Init, TypeInv, TypeOK, Holding, InboundRows, InboundStatuses, NoRow,
       TextRow, TextStatuses, NoText, Replies, ProcessorState, Polling,
       RunnerState, Idle

LEMMA TypeStep == TypeInv /\ [Next]_vars => TypeInv'
<1> SUFFICES ASSUME TypeInv, [Next]_vars PROVE TypeInv'
    OBVIOUS
<1> USE MaxAttemptsAssumption, MaxProviderAttemptsAssumption
<1>1. ASSUME NEW m \in Messages, Receive(m) PROVE TypeInv'
  BY <1>1 DEF TypeInv, TypeOK, Holding, Receive, InboundRows, InboundStatuses, NewRow
<1>2. ASSUME NEW p \in Processors, NEW m \in Messages, ReconcileInbound(p, m)
      PROVE  TypeInv'
  <2>1. inbound[m] \in InboundRows(MaxAttempts) BY DEF TypeInv, TypeOK
  <2>2. FailedRow(inbound[m]) \in InboundRows(MaxAttempts) BY <2>1, RowTypes
  <2>3. reply' \in [Messages -> Replies]
    <3>1. "exhausted" \in Replies \ {"none"} BY DEF Replies
    <3> QED BY <1>2, <3>1, AddReplyTypes DEF ReconcileInbound, TypeInv, TypeOK
  <2> QED BY <1>2, <2>2, <2>3 DEF TypeInv, TypeOK, Holding, ReconcileInbound
<1>3. ASSUME NEW p \in Processors, NothingToReconcile(p) \/ NoInboundWork(p)
      PROVE  TypeInv'
  BY <1>3 DEF TypeInv, TypeOK, Holding, NothingToReconcile, NoInboundWork,
              ProcessorState, Polling
<1>4. ASSUME NEW p \in Processors, NEW m \in Messages, ClaimInbound(p, m)
      PROVE  TypeInv'
  <2>1. inbound[m] \in InboundRows(MaxAttempts) BY DEF TypeInv, TypeOK
  <2>2. inbound[m].attempts < MaxAttempts BY <1>4 DEF ClaimInbound, Claimable
  <2>3. ClaimedRow(inbound[m]) \in InboundRows(MaxAttempts)
    BY <2>1, <2>2, RowTypes
  <2>4. inbound[m].attempts + 1 \in 0..MaxAttempts
    BY <2>1, <2>2 DEF InboundRows
  <2> QED BY <1>4, <2>3, <2>4
          DEF TypeInv, TypeOK, Holding, ClaimInbound, ProcessorState
<1>5. ASSUME NEW p \in Processors,
             Answer(p) \/ TransientError(p) \/ SubmitInvalid(p)
      PROVE  TypeInv'
  BY <1>5 DEF TypeInv, TypeOK, Holding, Answer, TransientError, SubmitInvalid,
              Settle, TransientResult, ProcessorState
<1>6. ASSUME NEW p \in Processors,
             \/ SubmitAgain(p) \/ CompleteInboundTooLate(p) \/ ProcessorCrash(p)
      PROVE  TypeInv'
  BY <1>6 DEF TypeInv, TypeOK, Holding, SubmitAgain, CompleteInboundTooLate,
              ProcessorCrash, Polling, ProcessorState
<1>7. ASSUME NEW p \in Processors, Submit(p) PROVE TypeInv'
  <2>1. texts' \in [Messages -> TextRow]
    <3>1. NewText \in TextRow BY DEF NewText, TextRow, TextStatuses
    <3>2. texts' = [texts EXCEPT ![processor[p].msg] = NewText]
      BY <1>7 DEF Submit
    <3> QED BY <3>1, <3>2 DEF TypeInv, TypeOK
  <2>2. processor' \in [Processors -> ProcessorState]
    BY <1>7 DEF TypeInv, TypeOK, Submit, Settle, TransientResult, Polling,
                ProcessorState
  <2>3. Holding'
    BY <1>7 DEF TypeInv, TypeOK, Holding, Submit, Settle, Polling, ProcessorState
  <2> QED BY <1>7, <2>1, <2>2, <2>3 DEF TypeInv, TypeOK, Submit
<1>8. ASSUME NEW p \in Processors, RetryInbound(p) PROVE TypeInv'
  <2> DEFINE m == processor[p].msg
  <2>1. m \in Messages BY <1>8 DEF TypeInv, Holding, RetryInbound
  <2>2. RetriedRow(inbound[m]) \in InboundRows(MaxAttempts)
    BY <2>1, RowTypes DEF TypeInv, TypeOK
  <2> QED BY <1>8, <2>1, <2>2 DEF TypeInv, TypeOK, Holding, RetryInbound,
          Polling, ProcessorState
<1>9. ASSUME NEW p \in Processors, CompleteInbound(p) PROVE TypeInv'
  <2> DEFINE m == processor[p].msg
  <2>1. m \in Messages BY <1>9 DEF TypeInv, Holding, CompleteInbound
  <2>2. CompletedRow(inbound[m]) \in InboundRows(MaxAttempts)
    BY <2>1, RowTypes DEF TypeInv, TypeOK
  <2>3. reply' \in [Messages -> Replies]
    <3>1. "notice" \in Replies \ {"none"} BY DEF Replies
    <3> QED BY <1>9, <2>1, <3>1, AddReplyTypes DEF CompleteInbound, TypeInv, TypeOK
  <2>4. processor' \in [Processors -> ProcessorState] /\ Holding'
    BY <1>9 DEF TypeInv, TypeOK, Holding, CompleteInbound, Polling, ProcessorState
  <2> QED BY <1>9, <2>1, <2>2, <2>3, <2>4 DEF TypeInv, TypeOK, CompleteInbound
<1>10. ASSUME NEW m \in Messages, FailJob(m)
       PROVE  /\ texts' \in [Messages -> TextRow]
              /\ inbound' \in [Messages -> InboundRows(MaxAttempts)]
              /\ reply' \in [Messages -> Replies]
  <2>1. FailedRow(inbound[m]) \in InboundRows(MaxAttempts)
    BY RowTypes DEF TypeInv, TypeOK
  <2>2. reply' \in [Messages -> Replies]
    <3>1. "failed" \in Replies \ {"none"} BY DEF Replies
    <3> QED BY <1>10, <3>1, AddReplyTypes DEF FailJob, TypeInv, TypeOK
  <2>3. texts' \in [Messages -> TextRow]
    BY <1>10 DEF FailJob, TypeInv, TypeOK, TextRow, TextStatuses
  <2> QED BY <1>10, <2>1, <2>2, <2>3 DEF FailJob, TypeInv, TypeOK
<1>11. ASSUME NEW w \in Runners, NEW m \in Messages, FailExhausted(w, m)
       PROVE  TypeInv'
  BY <1>11, <1>10 DEF FailExhausted, TypeInv, TypeOK, Holding
<1>12. ASSUME NEW w \in Runners,
              NothingExhausted(w) \/ NoTextWork(w) \/ ErrNotFound(w) \/ RunnerCrash(w)
       PROVE  TypeInv'
  <2>1. PICK pc \in {"exhausted", "claim"} : runner' = [runner EXCEPT ![w] = Idle(pc)]
    BY <1>12 DEF NothingExhausted, NoTextWork, ErrNotFound, RunnerCrash
  <2>2. UNCHANGED <<inbound, texts, reply, processor>>
    BY <1>12 DEF NothingExhausted, NoTextWork, ErrNotFound, RunnerCrash
  <2>3. Idle(pc) \in RunnerState /\ Idle(pc).pc # "translate"
    BY DEF Idle, RunnerState
  <2> QED BY <2>1, <2>2, <2>3 DEF TypeInv, TypeOK, Holding
<1>13. ASSUME NEW w \in Runners, NEW m \in Messages, Claim(w, m) PROVE TypeInv'
  <2>1. texts[m] \in TextRow /\ texts[m].attempts + 1 \in 0..MaxProviderAttempts
    BY <1>13 DEF Claim, Translatable, TypeInv, TypeOK, TextRow
  <2>2. texts' \in [Messages -> TextRow]
    BY <1>13, <2>1 DEF Claim, ClaimedText, TypeInv, TypeOK, TextRow, TextStatuses
  <2> QED BY <1>13, <2>1, <2>2 DEF Claim, ClaimedText, TypeInv, TypeOK, Holding, RunnerState
<1>14. ASSUME NEW w \in Runners, Complete(w) PROVE TypeInv'
  <2> DEFINE m == runner[w].job
  <2>1. m \in Messages BY <1>14 DEF TypeInv, Holding, Complete
  <2>2. CompletedRow(inbound[m]) \in InboundRows(MaxAttempts)
    BY <2>1, RowTypes DEF TypeInv, TypeOK
  <2>3. reply' \in [Messages -> Replies]
    <3>1. "result" \in Replies \ {"none"} BY DEF Replies
    <3> QED BY <1>14, <2>1, <3>1, AddReplyTypes DEF Complete, TypeInv, TypeOK
  <2>4. texts' \in [Messages -> TextRow]
    BY <1>14, <2>1 DEF Complete, TypeInv, TypeOK, TextRow, TextStatuses
  <2>5. runner' \in [Runners -> RunnerState] /\ Holding'
    BY <1>14 DEF Complete, TypeInv, TypeOK, Holding, RunnerState, Idle
  <2> QED BY <1>14, <2>1, <2>2, <2>3, <2>4, <2>5 DEF TypeInv, TypeOK, Complete
<1>15. ASSUME NEW w \in Runners, Retry(w) PROVE TypeInv'
  <2>1. runner[w].job \in Messages BY <1>15 DEF TypeInv, Holding, Retry
  <2>2. texts' \in [Messages -> TextRow]
    BY <1>15, <2>1 DEF Retry, TypeInv, TypeOK, TextRow, TextStatuses
  <2> QED BY <1>15, <2>2 DEF Retry, TypeInv, TypeOK, Holding, RunnerState, Idle
<1>16. ASSUME NEW w \in Runners, Fail(w) PROVE TypeInv'
  <2>1. runner[w].job \in Messages BY <1>16 DEF TypeInv, Holding, Fail
  <2>2. runner' \in [Runners -> RunnerState] /\ Holding'
    BY <1>16 DEF Fail, TypeInv, TypeOK, Holding, RunnerState, Idle
  <2> QED BY <1>16, <1>10, <2>1, <2>2 DEF Fail, TypeInv, TypeOK
<1>17. ASSUME NEW m \in Messages, ExpireInbound(m) \/ ExpireText(m) PROVE TypeInv'
  <2>1. CASE ExpireInbound(m)
    BY <2>1 DEF ExpireInbound, TypeInv, TypeOK, Holding, InboundRows
  <2>2. CASE ExpireText(m)
    BY <2>2 DEF ExpireText, TypeInv, TypeOK, Holding, TextRow
  <2> QED BY <1>17, <2>1, <2>2
<1>18. CASE UNCHANGED vars
  BY <1>18 DEF vars, TypeInv, TypeOK, Holding
<1> QED
  BY <1>1, <1>2, <1>3, <1>4, <1>5, <1>6, <1>7, <1>8, <1>9, <1>11, <1>12, <1>13,
     <1>14, <1>15, <1>16, <1>17, <1>18
     DEF Next, ProcessorWork, RunnerWork

\* Type correctness: every attempt counter stays within its limit, every process
\* holds what its step needs.
THEOREM TypeCorrect == Spec => []TypeOK
<1>1. TypeInv => TypeOK BY DEF TypeInv
<1> QED BY TypeInit, TypeStep, <1>1, PTL DEF Spec

-------------------------------------------------------------------------------

\* JobAndMessageAgree and AnsweredWhenSettled, for one message.  With TypeInv
\* they are inductive: the only writes that reopen a row demand a status or a
\* next_attempt_at that no settled row has.
Agreed(m) ==
  /\ texts[m].status = "COMPLETED" => inbound[m].status = "COMPLETED"
  /\ texts[m].status = "FAILED" => inbound[m].status = "FAILED" /\ ~inbound[m].due
  /\ reply[m] # "none" <=> Settled(inbound[m])

AgreeInv == \A m \in Messages : Agreed(m)

LEMMA AgreeInit == Init => AgreeInv
BY DEF Init, AgreeInv, Agreed, NoRow, NoText, Settled

\* Nothing that concerns the messages' rows but a message settled for good.
LEMMA FailJobAgrees ==
  ASSUME TypeInv, AgreeInv, NEW m \in Messages, FailJob(m)
  PROVE  AgreeInv'
<1>1. inbound[m] \in InboundRows(MaxAttempts) BY DEF TypeInv, TypeOK
<1>2. /\ Settled(FailedRow(inbound[m]))
      /\ FailedRow(inbound[m]).status = "FAILED" /\ ~FailedRow(inbound[m]).due
  BY <1>1, RowFacts, MaxAttemptsAssumption
<1>3. reply'[m] # "none" /\ \A n \in Messages \ {m} : reply'[n] = reply[n]
  <2>1. "failed" \in Replies \ {"none"} BY DEF Replies
  <2> QED BY <2>1, AddReplyTypes DEF FailJob, TypeInv, TypeOK
<1>4. texts'[m].status = "FAILED" /\ inbound'[m] = FailedRow(inbound[m])
  BY DEF FailJob, TypeInv, TypeOK, TextRow
<1>5. \A n \in Messages \ {m} : texts'[n] = texts[n] /\ inbound'[n] = inbound[n]
  BY DEF FailJob, TypeInv, TypeOK
<1> QED BY <1>2, <1>3, <1>4, <1>5 DEF AgreeInv, Agreed

LEMMA AgreeStep == TypeInv /\ AgreeInv /\ [Next]_vars => AgreeInv'
<1> SUFFICES ASSUME TypeInv, AgreeInv, [Next]_vars PROVE AgreeInv'
    OBVIOUS
<1> USE MaxAttemptsAssumption
<1>t. \A m \in Messages : inbound[m] \in InboundRows(MaxAttempts)
  BY DEF TypeInv, TypeOK
<1>1. ASSUME NEW m \in Messages, Receive(m) PROVE AgreeInv'
  BY <1>1 DEF Receive, AgreeInv, Agreed, TypeInv, TypeOK, NewRow, Settled
<1>2. ASSUME NEW p \in Processors, NEW m \in Messages, ReconcileInbound(p, m)
      PROVE  AgreeInv'
  <2>1. reply'[m] # "none" /\ \A n \in Messages \ {m} : reply'[n] = reply[n]
    <3>1. "exhausted" \in Replies \ {"none"} BY DEF Replies
    <3> QED BY <1>2, <3>1, AddReplyTypes DEF ReconcileInbound, TypeInv, TypeOK
  <2>2. inbound'[m] = FailedRow(inbound[m]) /\ texts' = texts
    BY <1>2 DEF ReconcileInbound, TypeInv, TypeOK
  <2>3. \A n \in Messages \ {m} : inbound'[n] = inbound[n]
    BY <1>2 DEF ReconcileInbound, TypeInv, TypeOK
  <2>4. /\ Settled(inbound'[m]) /\ inbound'[m].status = "FAILED"
        /\ ~inbound'[m].due
    BY <2>2, <1>t, RowFacts
  <2>5. inbound[m].status # "COMPLETED"
    BY <1>2 DEF ReconcileInbound, Reconcilable, Orphaned, Abandoned
  <2> QED BY <2>1, <2>2, <2>3, <2>4, <2>5 DEF AgreeInv, Agreed
<1>3. ASSUME NEW p \in Processors, NEW m \in Messages, ClaimInbound(p, m)
      PROVE  AgreeInv'
  <2>1. ~Settled(inbound[m])
    BY <1>3, <1>t, RowFacts DEF ClaimInbound, Claimable, Orphaned
  <2>2. inbound'[m] = ClaimedRow(inbound[m]) /\ UNCHANGED <<texts, reply>>
    BY <1>3 DEF ClaimInbound, TypeInv, TypeOK
  <2>3. \A n \in Messages \ {m} : inbound'[n] = inbound[n]
    BY <1>3 DEF ClaimInbound, TypeInv, TypeOK
  <2>4. ~Settled(inbound'[m]) BY <2>2, <1>t, RowFacts
  <2>5. texts[m].status \notin {"COMPLETED", "FAILED"}
    BY <2>1 DEF AgreeInv, Agreed, Settled
  <2> QED BY <2>1, <2>2, <2>3, <2>4, <2>5 DEF AgreeInv, Agreed
<1>4. ASSUME NEW p \in Processors, RetryInbound(p) PROVE AgreeInv'
  <2> DEFINE m == processor[p].msg
  <2>1. m \in Messages BY <1>4 DEF TypeInv, Holding, RetryInbound
  <2>2. inbound'[m] = RetriedRow(inbound[m]) /\ UNCHANGED <<texts, reply>>
    BY <1>4, <2>1 DEF RetryInbound, TypeInv, TypeOK
  <2>3. \A n \in Messages \ {m} : inbound'[n] = inbound[n]
    BY <1>4 DEF RetryInbound, TypeInv, TypeOK
  <2>4. Settled(inbound'[m]) <=> Settled(inbound[m])
    BY <2>1, <2>2, <1>t, RowFacts
  <2>5. inbound[m].status # "PROCESSING" => inbound'[m] = inbound[m]
    BY <2>1, <2>2, <1>t, RowFacts
  <2>6. inbound[m].status = "PROCESSING" =>
          texts[m].status \notin {"COMPLETED", "FAILED"}
    BY <2>1 DEF AgreeInv, Agreed
  <2> QED BY <2>1, <2>2, <2>3, <2>4, <2>5, <2>6 DEF AgreeInv, Agreed
<1>5. ASSUME NEW p \in Processors, CompleteInbound(p) PROVE AgreeInv'
  <2> DEFINE m == processor[p].msg
  <2>1. m \in Messages BY <1>5 DEF TypeInv, Holding, CompleteInbound
  <2>2. reply'[m] # "none" /\ \A n \in Messages \ {m} : reply'[n] = reply[n]
    <3>1. "notice" \in Replies \ {"none"} BY DEF Replies
    <3> QED BY <1>5, <2>1, <3>1, AddReplyTypes DEF CompleteInbound, TypeInv, TypeOK
  <2>3. inbound'[m] = CompletedRow(inbound[m]) /\ texts' = texts
    BY <1>5, <2>1 DEF CompleteInbound, TypeInv, TypeOK
  <2>4. \A n \in Messages \ {m} : inbound'[n] = inbound[n]
    BY <1>5 DEF CompleteInbound, TypeInv, TypeOK
  <2>5. Settled(inbound'[m]) /\ inbound'[m].status = "COMPLETED"
    BY <2>1, <2>3, <1>t, RowFacts
  <2>6. texts[m].status # "FAILED"
    BY <1>5, <2>1 DEF AgreeInv, Agreed, CompleteInbound
  <2> QED BY <2>1, <2>2, <2>3, <2>4, <2>5, <2>6 DEF AgreeInv, Agreed
<1>6. ASSUME NEW p \in Processors, Submit(p) PROVE AgreeInv'
  <2>1. texts' = [texts EXCEPT ![processor[p].msg] = NewText]
    BY <1>6 DEF Submit
  <2>2. UNCHANGED <<inbound, reply>> BY <1>6 DEF Submit
  <2>3. NewText.status = "PENDING" BY DEF NewText
  <2> QED BY <2>1, <2>2, <2>3 DEF AgreeInv, Agreed, TypeInv, TypeOK
<1>7. ASSUME NEW w \in Runners,
             Fail(w) \/ \E m \in Messages : FailExhausted(w, m)
      PROVE  AgreeInv'
  <2>1. PICK m \in Messages : FailJob(m)
    BY <1>7 DEF FailExhausted, Fail, TypeInv, Holding
  <2> QED BY <2>1, FailJobAgrees
<1>8. ASSUME NEW w \in Runners, NEW m \in Messages, Claim(w, m) PROVE AgreeInv'
  BY <1>8 DEF Claim, ClaimedText, Translatable, AgreeInv, Agreed, TypeInv, TypeOK
<1>9. ASSUME NEW w \in Runners, Complete(w) PROVE AgreeInv'
  <2> DEFINE m == runner[w].job
  <2>1. m \in Messages BY <1>9 DEF TypeInv, Holding, Complete
  <2>2. reply'[m] # "none" /\ \A n \in Messages \ {m} : reply'[n] = reply[n]
    <3>1. "result" \in Replies \ {"none"} BY DEF Replies
    <3> QED BY <1>9, <2>1, <3>1, AddReplyTypes DEF Complete, TypeInv, TypeOK
  <2>3. inbound'[m] = CompletedRow(inbound[m]) /\ texts'[m].status = "COMPLETED"
    BY <1>9, <2>1 DEF Complete, TypeInv, TypeOK, TextRow
  <2>4. \A n \in Messages \ {m} : inbound'[n] = inbound[n] /\ texts'[n] = texts[n]
    BY <1>9 DEF Complete, TypeInv, TypeOK
  <2>5. Settled(inbound'[m]) /\ inbound'[m].status = "COMPLETED"
    BY <2>1, <2>3, <1>t, RowFacts
  <2> QED BY <2>1, <2>2, <2>3, <2>4, <2>5 DEF AgreeInv, Agreed
<1>10. ASSUME NEW w \in Runners, Retry(w) PROVE AgreeInv'
  <2>1. texts'[runner[w].job].status = "PENDING" \/ runner[w].job \notin Messages
    BY <1>10 DEF Retry, TypeInv, TypeOK, TextRow
  <2>2. UNCHANGED <<inbound, reply>> BY <1>10 DEF Retry
  <2>3. \A n \in Messages \ {runner[w].job} : texts'[n] = texts[n]
    BY <1>10 DEF Retry, TypeInv, TypeOK
  <2> QED BY <2>1, <2>2, <2>3 DEF AgreeInv, Agreed
<1>11. ASSUME NEW m \in Messages, ExpireInbound(m) PROVE AgreeInv'
  BY <1>11, <1>t DEF ExpireInbound, AgreeInv, Agreed, Settled, TypeInv, TypeOK,
     InboundRows
<1>12. ASSUME NEW m \in Messages, ExpireText(m) PROVE AgreeInv'
  BY <1>12 DEF ExpireText, AgreeInv, Agreed, TypeInv, TypeOK, TextRow
<1>13. ASSUME UNCHANGED <<inbound, texts, reply>> PROVE AgreeInv'
  BY <1>13 DEF AgreeInv, Agreed
<1>14. ASSUME NEW p \in Processors,
              \/ NothingToReconcile(p) \/ NoInboundWork(p) \/ Answer(p)
              \/ TransientError(p) \/ SubmitAgain(p) \/ SubmitInvalid(p)
              \/ CompleteInboundTooLate(p) \/ ProcessorCrash(p)
       PROVE  AgreeInv'
  BY <1>13, <1>14 DEF NothingToReconcile, NoInboundWork, Answer, TransientError,
     SubmitAgain, SubmitInvalid, CompleteInboundTooLate, ProcessorCrash
<1>15. ASSUME NEW w \in Runners,
              NothingExhausted(w) \/ NoTextWork(w) \/ ErrNotFound(w) \/ RunnerCrash(w)
       PROVE  AgreeInv'
  BY <1>13, <1>15 DEF NothingExhausted, NoTextWork, ErrNotFound, RunnerCrash
<1>16. CASE UNCHANGED vars
  BY <1>13, <1>16 DEF vars
<1> QED
  BY <1>1, <1>2, <1>3, <1>4, <1>5, <1>6, <1>7, <1>8, <1>9, <1>10, <1>11, <1>12,
     <1>14, <1>15, <1>16
     DEF Next, ProcessorWork, RunnerWork

\* A translation job and its message end the same way, whatever processors and
\* workers do late, twice or after each other.
THEOREM JobAndMessageAgreeAlways == Spec => []JobAndMessageAgree
<1>1. AgreeInv => JobAndMessageAgree BY DEF AgreeInv, Agreed, JobAndMessageAgree
<1> QED BY TypeInit, TypeStep, AgreeInit, AgreeStep, <1>1, PTL DEF Spec

\* A message has a reply exactly when nobody will pick it up again.
THEOREM AnsweredWhenSettledAlways == Spec => []AnsweredWhenSettled
<1>1. AgreeInv => AnsweredWhenSettled BY DEF AgreeInv, Agreed, AnsweredWhenSettled
<1> QED BY TypeInit, TypeStep, AgreeInit, AgreeStep, <1>1, PTL DEF Spec

-------------------------------------------------------------------------------
(***************************************************************************)
(* Processors that are neither late nor misinformed: whoever holds a       *)
(* message is its only holder, nothing has happened to its row since it    *)
(* was claimed, and its job is not there yet.  A job that is there is then *)
(* in the workers' hands alone, late ones included.                        *)
(***************************************************************************)

CalmRow(m) ==
  /\ texts[m].status = "COMPLETED" => reply[m] = "result"
  /\ texts[m].status = "FAILED" => reply[m] = "failed"
  /\ texts[m].status \in {"PENDING", "PROCESSING"} =>
       inbound[m].status = "PROCESSING"

CalmMessage(m) ==
  \A p \in Processors : HoldsMessage(p, m) =>
    /\ inbound[m].status = "PROCESSING" /\ ~inbound[m].stale
    /\ texts[m].status = "ABSENT"
    /\ \A q \in Processors \ {p} : ~HoldsMessage(q, m)

CalmInv == \A m \in Messages : CalmRow(m) /\ CalmMessage(m)

LEMMA CalmInit == Init => CalmInv
BY DEF Init, CalmInv, CalmRow, CalmMessage, HoldsMessage, NoText, Polling

\* A processor that goes back to polling lets go of its message ...
LEMMA LetGo ==
  ASSUME TypeInv, NEW p \in Processors, NEW pc \in {"reconcile", "claim"},
         processor' = [processor EXCEPT ![p] = Polling(pc)],
         NEW q \in Processors, NEW m \in Messages, HoldsMessage(q, m)'
  PROVE  q # p /\ HoldsMessage(q, m)
BY DEF TypeInv, TypeOK, HoldsMessage, Polling

\* ... and so does a worker.
LEMMA LetGoJob ==
  ASSUME TypeInv, NEW w \in Runners, NEW pc \in {"exhausted", "claim"},
         runner' = [runner EXCEPT ![w] = Idle(pc)],
         NEW v \in Runners, NEW m \in Messages, HoldsJob(v, m)'
  PROVE  v # w /\ HoldsJob(v, m) /\ runner'[v] = runner[v]
BY DEF TypeInv, TypeOK, HoldsJob, Idle

\* The processors' steps that leave the tables alone.
LEMMA CalmProcessorStep ==
  ASSUME TypeInv, CalmInv, NEW p \in Processors,
         \/ NothingToReconcile(p) \/ NoInboundWork(p) \/ Answer(p)
         \/ TransientError(p) \/ SubmitAgain(p) \/ SubmitInvalid(p)
         \/ CompleteInboundTooLate(p) \/ ProcessorCrash(p)
  PROVE  CalmInv'
<1>1. UNCHANGED <<inbound, texts, reply>>
  BY DEF NothingToReconcile, NoInboundWork, Answer, TransientError, SubmitAgain,
         SubmitInvalid, CompleteInboundTooLate, ProcessorCrash
<1>2. ASSUME NEW q \in Processors, NEW m \in Messages, HoldsMessage(q, m)'
      PROVE  HoldsMessage(q, m)
  <2>1. CASE Answer(p) \/ TransientError(p) \/ SubmitInvalid(p)
    <3>1. processor[p].pc = "process"
      BY <2>1 DEF Answer, TransientError, SubmitInvalid
    <3>2. PICK result :
            processor' = [processor EXCEPT ![p].pc = "settle", ![p].result = result]
      BY <2>1 DEF Answer, TransientError, SubmitInvalid, Settle
    <3> QED
      BY <1>2, <3>1, <3>2 DEF TypeInv, TypeOK, ProcessorState, HoldsMessage
  <2>2. CASE \/ NothingToReconcile(p) \/ NoInboundWork(p) \/ SubmitAgain(p)
             \/ CompleteInboundTooLate(p) \/ ProcessorCrash(p)
    <3>1. PICK pc \in {"reconcile", "claim"} :
            processor' = [processor EXCEPT ![p] = Polling(pc)]
      BY <2>2 DEF NothingToReconcile, NoInboundWork, SubmitAgain,
                  CompleteInboundTooLate, ProcessorCrash
    <3> QED BY <1>2, <3>1, LetGo
  <2> QED BY <2>1, <2>2
<1> QED
  BY <1>1, <1>2 DEF CalmInv, CalmRow, CalmMessage

\* A worker's write to a job that has not ended: whoever makes it, the message is
\* as the job needs it, and in no processor's hands.
LEMMA CalmJobStep ==
  ASSUME TypeInv, CalmInv, UNCHANGED processor, NEW m \in Messages,
         texts[m].status \in {"PENDING", "PROCESSING"},
         CalmRow(m)',
         \A n \in Messages \ {m} :
           texts'[n] = texts[n] /\ inbound'[n] = inbound[n] /\ reply'[n] = reply[n]
  PROVE  CalmInv'
<1>1. \A p \in Processors, n \in Messages : HoldsMessage(p, n)' <=> HoldsMessage(p, n)
  BY DEF HoldsMessage
<1>2. \A p \in Processors : ~HoldsMessage(p, m)
  BY DEF CalmInv, CalmMessage
<1> QED BY <1>1, <1>2 DEF CalmInv, CalmRow, CalmMessage

LEMMA CalmFailJob ==
  ASSUME TypeInv, AgreeInv, CalmInv, NEW m \in Messages, FailJob(m),
         texts[m].status \in {"PENDING", "PROCESSING"}, UNCHANGED processor
  PROVE  CalmInv'
<1>1. inbound[m].status = "PROCESSING" /\ reply[m] = "none"
  BY DEF CalmInv, CalmRow, AgreeInv, Agreed, Settled
<1>2. reply'[m] = "failed" /\ \A n \in Messages \ {m} : reply'[n] = reply[n]
  <2>1. "failed" \in Replies \ {"none"} BY DEF Replies
  <2> QED BY <1>1, <2>1, AddReplyTypes DEF FailJob, TypeInv, TypeOK
<1>3. texts'[m].status = "FAILED" BY DEF FailJob, TypeInv, TypeOK, TextRow
<1>4. \A n \in Messages \ {m} : texts'[n] = texts[n] /\ inbound'[n] = inbound[n]
  BY DEF FailJob, TypeInv, TypeOK
<1>5. CalmRow(m)' BY <1>2, <1>3 DEF CalmRow
<1> QED BY <1>2, <1>4, <1>5, CalmJobStep

LEMMA CalmStep ==
  ASSUME Processors \cap (Late \union LostAcks) = {}
  PROVE  TypeInv /\ AgreeInv /\ CalmInv /\ [Next]_vars => CalmInv'
<1> SUFFICES ASSUME TypeInv, AgreeInv, CalmInv, [Next]_vars PROVE CalmInv'
    OBVIOUS
<1> USE MaxAttemptsAssumption
<1>t. \A m \in Messages : inbound[m] \in InboundRows(MaxAttempts)
  BY DEF TypeInv, TypeOK
<1>1. ASSUME NEW m \in Messages, Receive(m) PROVE CalmInv'
  <2>1. \A p \in Processors : ~HoldsMessage(p, m)
    BY <1>1 DEF Receive, CalmInv, CalmMessage
  <2>2. texts[m].status \notin {"PENDING", "PROCESSING"}
    BY <1>1 DEF Receive, CalmInv, CalmRow
  <2>3. /\ \A n \in Messages \ {m} : inbound'[n] = inbound[n]
        /\ UNCHANGED <<texts, reply, processor>>
    BY <1>1 DEF Receive, TypeInv, TypeOK
  <2> QED BY <2>1, <2>2, <2>3 DEF CalmInv, CalmRow, CalmMessage, HoldsMessage
<1>2. ASSUME NEW p \in Processors, NEW m \in Messages, ReconcileInbound(p, m)
      PROVE  CalmInv'
  <2>1. \A q \in Processors : ~HoldsMessage(q, m)
    BY <1>2 DEF ReconcileInbound, Reconcilable, Orphaned, Abandoned, CalmInv,
                CalmMessage
  <2>2. texts[m].status \notin {"PENDING", "PROCESSING"}
    BY <1>2 DEF ReconcileInbound, Reconcilable, Orphaned, CalmInv, CalmRow
  <2>3. texts[m].status # "COMPLETED"
    BY <1>2 DEF ReconcileInbound, Reconcilable, Orphaned, AgreeInv, Agreed
  <2>4. texts[m].status = "FAILED" => reply'[m] = "failed"
    BY <1>2 DEF ReconcileInbound, AddReply, CalmInv, CalmRow
  <2>5. /\ \A n \in Messages \ {m} : inbound'[n] = inbound[n] /\ reply'[n] = reply[n]
        /\ UNCHANGED <<texts, processor>>
    BY <1>2 DEF ReconcileInbound, AddReply, TypeInv, TypeOK
  <2> QED BY <2>1, <2>2, <2>3, <2>4, <2>5
          DEF CalmInv, CalmRow, CalmMessage, HoldsMessage
<1>3. ASSUME NEW p \in Processors, NEW m \in Messages, ClaimInbound(p, m)
      PROVE  CalmInv'
  <2>1. ~Settled(inbound[m])
    BY <1>3, <1>t, RowFacts DEF ClaimInbound, Claimable, Orphaned
  <2>2. \A q \in Processors : ~HoldsMessage(q, m)
    BY <1>3 DEF ClaimInbound, Claimable, Waiting, Orphaned, Abandoned, CalmInv,
                CalmMessage
  <2>3. texts[m].status = "ABSENT"
    <3>1. texts[m].status \notin {"COMPLETED", "FAILED"}
      BY <2>1 DEF AgreeInv, Agreed, Settled
    <3>2. texts[m].status \notin {"PENDING", "PROCESSING"}
      BY <1>3 DEF ClaimInbound, Claimable, Waiting, Orphaned, CalmInv, CalmRow
    <3> QED BY <3>1, <3>2 DEF TypeInv, TypeOK, TextRow, TextStatuses
  <2>4. inbound'[m].status = "PROCESSING" /\ ~inbound'[m].stale
    BY <1>3, <1>t, RowFacts DEF ClaimInbound, TypeInv, TypeOK
  <2>5. /\ \A n \in Messages \ {m} : inbound'[n] = inbound[n]
        /\ UNCHANGED <<texts, reply>>
    BY <1>3 DEF ClaimInbound, TypeInv, TypeOK
  <2>6. \A q \in Processors, n \in Messages :
          HoldsMessage(q, n)' => HoldsMessage(q, n) \/ (q = p /\ n = m)
    BY <1>3 DEF ClaimInbound, HoldsMessage, TypeInv, TypeOK
  <2>7. \A n \in Messages : ~HoldsMessage(p, n)
    BY <1>3 DEF ClaimInbound, HoldsMessage
  <2> QED BY <2>2, <2>3, <2>4, <2>5, <2>6, <2>7 DEF CalmInv, CalmRow, CalmMessage
<1>4. ASSUME NEW p \in Processors,
             Submit(p) \/ RetryInbound(p) \/ CompleteInbound(p)
      PROVE  CalmInv'
  <2>m. processor[p].msg \in Messages
    BY <1>4 DEF Submit, RetryInbound, CompleteInbound, TypeInv, Holding
  <2>0. PICK m \in Messages : m = processor[p].msg
    BY <2>m
  <2>1. m \in Messages /\ HoldsMessage(p, m)
    BY <1>4, <2>0 DEF Submit, RetryInbound, CompleteInbound, HoldsMessage
  <2>2. /\ inbound[m].status = "PROCESSING" /\ texts[m].status = "ABSENT"
        /\ \A q \in Processors \ {p} : ~HoldsMessage(q, m)
    BY <2>1 DEF CalmInv, CalmMessage
  <2>3. processor' = [processor EXCEPT ![p] = Polling("reconcile")]
    BY <1>4, <2>0 DEF Submit, RetryInbound, CompleteInbound
  <2>4. \A q \in Processors, n \in Messages :
          HoldsMessage(q, n)' => q # p /\ HoldsMessage(q, n)
    BY <2>3, LetGo
  <2>5. \A q \in Processors : ~HoldsMessage(q, m)'
    BY <2>0, <2>1, <2>2, <2>4
  <2>6. \A n \in Messages \ {m} :
          inbound'[n] = inbound[n] /\ texts'[n] = texts[n] /\ reply'[n] = reply[n]
    BY <1>4, <2>0 DEF Submit, RetryInbound, CompleteInbound, AddReply, TypeInv, TypeOK
  <2>7. CalmRow(m)'
    <3>1. CASE Submit(p)
      BY <2>0, <2>1, <2>2, <3>1 DEF Submit, CalmRow, NewText, TypeInv, TypeOK
    <3>2. CASE RetryInbound(p) \/ CompleteInbound(p)
      BY <2>0, <2>1, <2>2, <3>2 DEF RetryInbound, CompleteInbound, CalmRow
    <3> QED BY <1>4, <3>1, <3>2
  <2>8. CalmMessage(m)'
    BY <2>5 DEF CalmMessage
  <2>9. ASSUME NEW n \in Messages \ {m} PROVE CalmRow(n)' /\ CalmMessage(n)'
    BY <2>4, <2>6, <2>9 DEF CalmInv, CalmRow, CalmMessage
  <2> QED BY <2>7, <2>8, <2>9 DEF CalmInv
<1>5. ASSUME NEW w \in Runners,
             Fail(w) \/ \E m \in Messages : FailExhausted(w, m)
      PROVE  CalmInv'
  <2>1. PICK m \in Messages :
          FailJob(m) /\ texts[m].status \in {"PENDING", "PROCESSING"}
    BY <1>5 DEF FailExhausted, Exhausted, Fail, TypeInv, Holding
  <2>2. UNCHANGED processor
    BY <1>5 DEF FailExhausted, Fail
  <2> QED BY <2>1, <2>2, CalmFailJob
<1>6. ASSUME NEW w \in Runners, NEW m \in Messages, Claim(w, m) PROVE CalmInv'
  <2>1. texts[m].status \in {"PENDING", "PROCESSING"}
    BY <1>6 DEF Claim, Translatable
  <2>2. texts'[m].status = "PROCESSING" /\ UNCHANGED <<inbound, reply, processor>>
    BY <1>6 DEF Claim, ClaimedText, TypeInv, TypeOK
  <2>3. \A n \in Messages \ {m} : texts'[n] = texts[n]
    BY <1>6 DEF Claim, TypeInv, TypeOK
  <2>4. CalmRow(m)' BY <2>1, <2>2 DEF CalmInv, CalmRow
  <2> QED BY <2>1, <2>2, <2>3, <2>4, CalmJobStep
<1>7. ASSUME NEW w \in Runners, Complete(w) \/ Retry(w) PROVE CalmInv'
  <2>m. runner[w].job \in Messages
    BY <1>7 DEF Complete, Retry, TypeInv, Holding
  <2>0. PICK m \in Messages : m = runner[w].job
    BY <2>m
  <2>1. texts[m].status = "PROCESSING" /\ UNCHANGED processor
    BY <1>7, <2>0 DEF Complete, Retry
  <2>2. inbound[m].status = "PROCESSING" /\ reply[m] = "none"
    BY <2>1 DEF CalmInv, CalmRow, AgreeInv, Agreed, Settled
  <2>3. \A n \in Messages \ {m} :
          inbound'[n] = inbound[n] /\ texts'[n] = texts[n] /\ reply'[n] = reply[n]
    BY <1>7, <2>0 DEF Complete, Retry, AddReply, TypeInv, TypeOK
  <2>4. CalmRow(m)'
    <3>1. CASE Complete(w)
      <4>1. texts'[m].status = "COMPLETED"
        BY <2>0, <3>1 DEF Complete, TypeInv, TypeOK, TextRow
      <4>2. reply'[m] = "result"
        BY <2>0, <2>2, <3>1 DEF Complete, AddReply, TypeInv, TypeOK
      <4> QED BY <4>1, <4>2 DEF CalmRow
    <3>2. CASE Retry(w)
      <4>1. texts'[m].status = "PENDING" /\ inbound' = inbound
        BY <2>0, <3>2 DEF Retry, TypeInv, TypeOK, TextRow
      <4> QED BY <2>2, <4>1 DEF CalmRow
    <3> QED BY <1>7, <3>1, <3>2
  <2> QED BY <2>1, <2>3, <2>4, CalmJobStep
<1>8. ASSUME NEW m \in Messages, ExpireInbound(m) PROVE CalmInv'
  <2>1. /\ \A p \in Processors : ~HoldsMessage(p, m)
        /\ UNCHANGED <<texts, reply, processor>>
    BY <1>8 DEF ExpireInbound
  <2>2. /\ inbound'[m].status = inbound[m].status
        /\ \A n \in Messages \ {m} : inbound'[n] = inbound[n]
    BY <1>8, <1>t DEF ExpireInbound, TypeInv, TypeOK, InboundRows
  <2> QED BY <2>1, <2>2 DEF CalmInv, CalmRow, CalmMessage, HoldsMessage
<1>9. ASSUME NEW m \in Messages, ExpireText(m) PROVE CalmInv'
  <2>1. UNCHANGED <<inbound, reply, processor>>
    BY <1>9 DEF ExpireText
  <2>2. \A n \in Messages : texts'[n].status = texts[n].status
    BY <1>9 DEF ExpireText, TypeInv, TypeOK, TextRow
  <2> QED BY <2>1, <2>2 DEF CalmInv, CalmRow, CalmMessage, HoldsMessage
<1>10. ASSUME UNCHANGED <<inbound, texts, reply, processor>> PROVE CalmInv'
  BY <1>10 DEF CalmInv, CalmRow, CalmMessage, HoldsMessage
<1>11. ASSUME NEW w \in Runners,
              NothingExhausted(w) \/ NoTextWork(w) \/ ErrNotFound(w) \/ RunnerCrash(w)
       PROVE  CalmInv'
  BY <1>10, <1>11 DEF NothingExhausted, NoTextWork, ErrNotFound, RunnerCrash
<1>12. CASE UNCHANGED vars
  BY <1>10, <1>12 DEF vars
<1> QED
  BY <1>1, <1>2, <1>3, <1>4, <1>5, <1>6, <1>7, <1>8, <1>9, <1>11, <1>12,
     CalmProcessorStep
     DEF Next, ProcessorWork, RunnerWork

\* If no processor is late or misinformed of a commit, the sender reads how the
\* job ended, however late the workers are.
THEOREM ResultDeliveredByLateWorkers ==
  ASSUME Processors \cap (Late \union LostAcks) = {}
  PROVE  Spec => []ResultDelivered
<1>1. CalmInv => ResultDelivered BY DEF CalmInv, CalmRow, ResultDelivered
<1>2. TypeInv /\ AgreeInv /\ CalmInv /\ [Next]_vars => CalmInv' BY CalmStep
<1> QED BY TypeInit, TypeStep, AgreeInit, AgreeStep, CalmInit, <1>1, <1>2, PTL
        DEF Spec

\* If no processor is late or misinformed of a commit, a job that has not ended
\* keeps its message from being answered or picked up by anybody else.
THEOREM ActiveJobKeepsItsMessage ==
  ASSUME Processors \cap (Late \union LostAcks) = {}
  PROVE  Spec => []ActiveJobKeepsMessage
<1>1. AgreeInv /\ CalmInv => ActiveJobKeepsMessage
  BY DEF AgreeInv, Agreed, CalmInv, CalmRow, ActiveJobKeepsMessage, Settled
<1>2. TypeInv /\ AgreeInv /\ CalmInv /\ [Next]_vars => CalmInv' BY CalmStep
<1> QED BY TypeInit, TypeStep, AgreeInit, AgreeStep, CalmInit, <1>1, <1>2, PTL
        DEF Spec

-------------------------------------------------------------------------------
(***************************************************************************)
(* The workers.  One lemma says what a step can do to a job and to those   *)
(* who hold it; three invariants follow from its five cases.               *)
(***************************************************************************)

\* Nobody takes the job, and who keeps it keeps its attempt.
NobodyTakes(m) ==
  \A w \in Runners : HoldsJob(w, m)' => HoldsJob(w, m) /\ runner'[w] = runner[w]

\* A job that is left to FailExhausted, or in the hands of who now lets go of it.
LetGoOf(m) ==
  Exhausted(m) \/ \E w \in Runners : HoldsJob(w, m) /\ ~HoldsJob(w, m)'

Written(m) ==
  /\ texts[m].status \in {"PENDING", "PROCESSING"}
  /\ texts'[m].status \in {"PENDING", "COMPLETED", "FAILED"}
  /\ texts'[m].attempts = texts[m].attempts

GrownStale(m) ==
  /\ texts[m].status = "PROCESSING"
  /\ texts'[m] = [texts[m] EXCEPT !.stale = TRUE]
  /\ \A w \in Runners \ Late : ~HoldsJob(w, m)

JobStep(m) ==
  \/ \E w \in Runners : Claim(w, m)
  \/ /\ NobodyTakes(m)
     /\ \/ texts'[m] = texts[m]
        \/ texts[m].status = "ABSENT" /\ texts'[m] = NewText
        \/ Written(m) /\ LetGoOf(m)
        \/ GrownStale(m)

\* A worker's write, at the end of an attempt.
LEMMA WorkerWrites ==
  ASSUME TypeInv, NEW w \in Runners, Complete(w) \/ Retry(w) \/ Fail(w),
         NEW m \in Messages
  PROVE  JobStep(m)
<1>1. runner' = [runner EXCEPT ![w] = Idle("exhausted")]
  BY DEF Complete, Retry, Fail
<1>2. NobodyTakes(m) /\ ~HoldsJob(w, m)'
  BY <1>1, LetGoJob DEF NobodyTakes
<1>3. CASE m # runner[w].job
  <2>1. texts'[m] = texts[m]
    BY <1>3 DEF Complete, Retry, Fail, FailJob, TypeInv, TypeOK
  <2> QED BY <1>2, <2>1 DEF JobStep
<1>4. CASE m = runner[w].job
  <2>1. HoldsJob(w, m) BY <1>4 DEF Complete, Retry, Fail, HoldsJob
  <2>2. texts[m] \in TextRow BY DEF TypeInv, TypeOK
  <2>3. Written(m)
    <3>1. PICK status \in {"PENDING", "COMPLETED", "FAILED"} :
            texts' = [texts EXCEPT ![m].status = status, ![m].stale = FALSE]
      BY <1>4 DEF Complete, Retry, Fail, FailJob
    <3>2. texts[m].status \in {"PENDING", "PROCESSING"}
      BY <1>4 DEF Complete, Retry, Fail
    <3> QED BY <2>2, <3>1, <3>2 DEF Written, TypeInv, TypeOK, TextRow
  <2> QED BY <1>2, <2>1, <2>3 DEF JobStep, LetGoOf
<1> QED BY <1>3, <1>4

LEMMA JobStepLemma ==
  ASSUME TypeInv, [Next]_vars, NEW m \in Messages
  PROVE  JobStep(m)
<1>1. ASSUME UNCHANGED <<texts, runner>> PROVE JobStep(m)
  BY <1>1 DEF JobStep, NobodyTakes, HoldsJob
<1>2. ASSUME NEW p \in Processors, Submit(p) PROVE JobStep(m)
  <2>1. NobodyTakes(m) BY <1>2 DEF Submit, NobodyTakes, HoldsJob
  <2>2. \/ texts'[m] = texts[m]
        \/ texts[m].status = "ABSENT" /\ texts'[m] = NewText
    BY <1>2 DEF Submit, TypeInv, TypeOK
  <2> QED BY <2>1, <2>2 DEF JobStep
<1>3. ASSUME NEW w \in Runners, NEW n \in Messages, FailExhausted(w, n)
      PROVE  JobStep(m)
  <2>1. NobodyTakes(m) BY <1>3 DEF FailExhausted, NobodyTakes, HoldsJob
  <2>2. CASE n # m
    BY <1>3, <2>1, <2>2 DEF FailExhausted, FailJob, JobStep, TypeInv, TypeOK
  <2>3. CASE n = m
    BY <1>3, <2>1, <2>3
       DEF FailExhausted, Exhausted, FailJob, JobStep, Written, LetGoOf, TypeInv,
           TypeOK, TextRow
  <2> QED BY <2>2, <2>3
<1>4. ASSUME NEW w \in Runners, NEW n \in Messages, Claim(w, n) PROVE JobStep(m)
  <2>1. CASE n = m
    BY <1>4, <2>1 DEF JobStep
  <2>2. CASE n # m
    BY <1>4, <2>2 DEF Claim, JobStep, NobodyTakes, HoldsJob, TypeInv, TypeOK
  <2> QED BY <2>1, <2>2
<1>5. ASSUME NEW w \in Runners,
             NothingExhausted(w) \/ NoTextWork(w) \/ ErrNotFound(w) \/ RunnerCrash(w)
      PROVE  JobStep(m)
  <2>1. PICK pc \in {"exhausted", "claim"} : runner' = [runner EXCEPT ![w] = Idle(pc)]
    BY <1>5 DEF NothingExhausted, NoTextWork, ErrNotFound, RunnerCrash
  <2>2. texts' = texts
    BY <1>5 DEF NothingExhausted, NoTextWork, ErrNotFound, RunnerCrash
  <2> QED BY <2>1, <2>2, LetGoJob DEF JobStep, NobodyTakes
<1>6. ASSUME NEW n \in Messages, ExpireText(n) PROVE JobStep(m)
  <2>1. NobodyTakes(m) BY <1>6 DEF ExpireText, NobodyTakes, HoldsJob
  <2>2. CASE n # m
    BY <1>6, <2>1, <2>2 DEF ExpireText, JobStep, TypeInv, TypeOK
  <2>3. CASE n = m
    BY <1>6, <2>1, <2>3 DEF ExpireText, JobStep, GrownStale, TypeInv, TypeOK
  <2> QED BY <2>2, <2>3
<1>7. ASSUME NEW n \in Messages, Receive(n) \/ ExpireInbound(n) PROVE JobStep(m)
  BY <1>1, <1>7 DEF Receive, ExpireInbound
<1>8. ASSUME NEW p \in Processors, ProcessorWork(p) \/ ProcessorCrash(p), ~Submit(p)
      PROVE  UNCHANGED <<texts, runner>>
  BY <1>8 DEF ProcessorWork, ReconcileInbound, ClaimInbound, NothingToReconcile,
     NoInboundWork, Answer, TransientError, SubmitAgain, SubmitInvalid,
     RetryInbound, CompleteInbound, CompleteInboundTooLate, ProcessorCrash
<1>9. CASE UNCHANGED vars
  BY <1>1, <1>9 DEF vars
<1> QED
  BY <1>1, <1>2, <1>3, <1>4, <1>5, <1>6, <1>7, <1>8, <1>9, WorkerWrites
     DEF Next, RunnerWork

\* Nothing changes a job that has ended: no late worker, no second one that has
\* found the same job, no processor that submits its message again.
TextEndIsFinal ==
  [][\A m \in Messages :
       texts[m].status \in {"COMPLETED", "FAILED"} => texts'[m] = texts[m]]_vars

\* In every environment nothing changes what a translation job came to.
THEOREM TextEndIsFinalAlways == Spec => TextEndIsFinal
<1>1. ASSUME TypeInv, [Next]_vars, NEW m \in Messages,
             texts[m].status \in {"COMPLETED", "FAILED"}
      PROVE  texts'[m] = texts[m]
  BY <1>1, JobStepLemma DEF JobStep, Claim, Translatable, Written, GrownStale
<1>2. TypeInv /\ [Next]_vars =>
        \A m \in Messages :
          texts[m].status \in {"COMPLETED", "FAILED"} => texts'[m] = texts[m]
  BY <1>1
<1> QED BY TypeInit, TypeStep, <1>2, PTL DEF Spec, TextEndIsFinal

\* Who holds a job counted its attempt when nobody else had; the row has counted
\* them all.
Counted(m) ==
  \A w \in Runners : HoldsJob(w, m) =>
    /\ texts[m].status # "ABSENT"
    /\ runner[w].attempts <= texts[m].attempts
    /\ \A v \in Runners \ {w} :
         HoldsJob(v, m) => runner[v].attempts # runner[w].attempts

CountedInv == \A m \in Messages : Counted(m)

LEMMA CountedStep == TypeInv /\ CountedInv /\ [Next]_vars => CountedInv'
<1> SUFFICES ASSUME TypeInv, CountedInv, [Next]_vars, NEW m \in Messages
             PROVE  Counted(m)'
    BY DEF CountedInv
<1>1. Counted(m) BY DEF CountedInv
<1>2. ASSUME NEW w \in Runners, Claim(w, m) PROVE Counted(m)'
  <2>1. /\ texts'[m].status = "PROCESSING"
        /\ texts'[m].attempts = texts[m].attempts + 1
        /\ runner'[w].attempts = texts[m].attempts + 1
    BY <1>2 DEF Claim, ClaimedText, TypeInv, TypeOK
  <2>2. \A v \in Runners \ {w} :
          HoldsJob(v, m)' => HoldsJob(v, m) /\ runner'[v] = runner[v]
    BY <1>2 DEF Claim, HoldsJob, TypeInv, TypeOK
  <2>3. texts[m].attempts \in Nat /\ \A v \in Runners : runner[v].attempts \in Nat
    BY MaxProviderAttemptsAssumption DEF TypeInv, TypeOK, TextRow, RunnerState
  <2>4. \A v \in Runners \ {w} : HoldsJob(v, m)' =>
          runner'[v].attempts <= texts[m].attempts /\ runner'[v].attempts \in Nat
    BY <1>1, <2>2, <2>3 DEF Counted
  <2>5. \A v, u \in Runners \ {w} : v # u /\ HoldsJob(v, m)' /\ HoldsJob(u, m)' =>
          runner'[v].attempts # runner'[u].attempts
    BY <1>1, <2>2 DEF Counted
  <2> QED BY <2>1, <2>3, <2>4, <2>5 DEF Counted
<1>3. ASSUME NobodyTakes(m), texts[m].status = "ABSENT" PROVE Counted(m)'
  BY <1>1, <1>3 DEF Counted, NobodyTakes
<1>4. ASSUME NobodyTakes(m), texts'[m].attempts = texts[m].attempts,
             texts[m].status # "ABSENT" => texts'[m].status # "ABSENT"
      PROVE  Counted(m)'
  BY <1>1, <1>4 DEF Counted, NobodyTakes
<1>5. ASSUME Written(m) \/ GrownStale(m)
      PROVE  texts'[m].attempts = texts[m].attempts /\ texts'[m].status # "ABSENT"
  BY <1>5 DEF Written, GrownStale, TypeInv, TypeOK, TextRow
<1> QED BY <1>2, <1>3, <1>4, <1>5, JobStepLemma DEF JobStep

\* In every environment no attempt at a job is made by two workers.
THEOREM AttemptsMadeOnceAlways == Spec => []AttemptsMadeOnce
<1>1. Init => CountedInv
  BY DEF Init, CountedInv, Counted, HoldsJob, Idle
<1>2. CountedInv => AttemptsMadeOnce
  BY DEF CountedInv, Counted, AttemptsMadeOnce
<1> QED BY TypeInit, TypeStep, CountedStep, <1>1, <1>2, PTL DEF Spec

\* No worker is late: whoever holds a job is its only holder, and nothing has
\* happened to the row since it was claimed.
OnlyClaim(m) ==
  \A w \in Runners : HoldsJob(w, m) =>
    /\ texts[m].status = "PROCESSING" /\ ~texts[m].stale
    /\ texts[m].attempts = runner[w].attempts
    /\ \A v \in Runners \ {w} : ~HoldsJob(v, m)

OnlyClaimInv == \A m \in Messages : OnlyClaim(m)

LEMMA OnlyClaimStep ==
  ASSUME Runners \cap Late = {}
  PROVE  TypeInv /\ OnlyClaimInv /\ [Next]_vars => OnlyClaimInv'
<1> SUFFICES ASSUME TypeInv, OnlyClaimInv, [Next]_vars, NEW m \in Messages
             PROVE  OnlyClaim(m)'
    BY DEF OnlyClaimInv
<1>1. OnlyClaim(m) BY DEF OnlyClaimInv
<1>2. ASSUME NEW w \in Runners, Claim(w, m) PROVE OnlyClaim(m)'
  <2>1. \A v \in Runners : ~HoldsJob(v, m)
    BY <1>1, <1>2 DEF Claim, Translatable, OnlyClaim
  <2>2. /\ texts'[m].status = "PROCESSING" /\ ~texts'[m].stale
        /\ texts'[m].attempts = runner'[w].attempts
    BY <1>2 DEF Claim, ClaimedText, TypeInv, TypeOK
  <2>3. \A v \in Runners \ {w} : ~HoldsJob(v, m)'
    BY <1>2, <2>1 DEF Claim, HoldsJob, TypeInv, TypeOK
  <2> QED BY <2>2, <2>3 DEF OnlyClaim
<1>3. ASSUME NobodyTakes(m), texts'[m] = texts[m] PROVE OnlyClaim(m)'
  BY <1>1, <1>3 DEF OnlyClaim, NobodyTakes
<1>4. ASSUME NobodyTakes(m), texts[m].status = "ABSENT" PROVE OnlyClaim(m)'
  BY <1>1, <1>4 DEF OnlyClaim, NobodyTakes
<1>5. ASSUME NobodyTakes(m), LetGoOf(m) PROVE OnlyClaim(m)'
  BY <1>1, <1>5 DEF OnlyClaim, NobodyTakes, LetGoOf, Exhausted
<1>6. ASSUME NobodyTakes(m), GrownStale(m) PROVE OnlyClaim(m)'
  BY <1>6 DEF OnlyClaim, NobodyTakes, GrownStale
<1> QED BY <1>2, <1>3, <1>4, <1>5, <1>6, JobStepLemma DEF JobStep

\* If no worker is late, no two of them translate the same job at once, and the
\* one at work holds the newest claim, whatever the processors do.
THEOREM ExclusiveTranslationWithoutLateWorkers ==
  ASSUME Runners \cap Late = {}
  PROVE  Spec => []ExclusiveTranslation
<1>1. Init => OnlyClaimInv
  BY DEF Init, OnlyClaimInv, OnlyClaim, HoldsJob, Idle
<1>2. OnlyClaimInv => ExclusiveTranslation
  BY DEF OnlyClaimInv, OnlyClaim, ExclusiveTranslation
<1>3. TypeInv /\ OnlyClaimInv /\ [Next]_vars => OnlyClaimInv' BY OnlyClaimStep
<1> QED BY TypeInit, TypeStep, <1>1, <1>2, <1>3, PTL DEF Spec

-------------------------------------------------------------------------------
(***************************************************************************)
(* TextPipeline implements AnswerOnce.                                     *)
(***************************************************************************)

\* A job exists only for a message that was saved.
HeardInv ==
  \A m \in Messages : texts[m].status # "ABSENT" => inbound[m].status # "ABSENT"

LEMMA HeardStep == TypeInv /\ HeardInv /\ [Next]_vars => HeardInv'
<1> SUFFICES ASSUME TypeInv, HeardInv, [Next]_vars PROVE HeardInv'
    OBVIOUS
<1>1. ASSUME NEW m \in Messages, Receive(m) PROVE HeardInv'
  BY <1>1 DEF Receive, NewRow, HeardInv, TypeInv, TypeOK
<1>t. \A m \in Messages : inbound[m] \in InboundRows(MaxAttempts)
  BY DEF TypeInv, TypeOK
<1>2. ASSUME NEW p \in Processors, NEW m \in Messages,
             ReconcileInbound(p, m) \/ ClaimInbound(p, m)
      PROVE  HeardInv'
  <2>1. inbound'[m].status # "ABSENT" /\ texts' = texts
    BY <1>2, <1>t, RowFacts, MaxAttemptsAssumption
       DEF ReconcileInbound, ClaimInbound, TypeInv, TypeOK
  <2>2. \A n \in Messages \ {m} : inbound'[n] = inbound[n]
    BY <1>2 DEF ReconcileInbound, ClaimInbound, TypeInv, TypeOK
  <2> QED BY <2>1, <2>2 DEF HeardInv
<1>3. ASSUME NEW p \in Processors, RetryInbound(p) \/ CompleteInbound(p)
      PROVE  HeardInv'
  <2>m. processor[p].msg \in Messages
    BY <1>3 DEF RetryInbound, CompleteInbound, TypeInv, Holding
  <2>0. PICK m \in Messages : m = processor[p].msg
    BY <2>m
  <2>1. inbound[m].status # "ABSENT" => inbound'[m].status # "ABSENT"
    <3>1. CASE RetryInbound(p)
      BY <2>0, <3>1, <1>t DEF RetryInbound, RetriedRow, TypeInv, TypeOK, InboundRows
    <3>2. CASE CompleteInbound(p)
      BY <2>0, <3>2, <1>t, RowFacts, MaxAttemptsAssumption
         DEF CompleteInbound, TypeInv, TypeOK
    <3> QED BY <1>3, <3>1, <3>2
  <2>2. texts' = texts /\ \A n \in Messages \ {m} : inbound'[n] = inbound[n]
    BY <1>3, <2>0 DEF RetryInbound, CompleteInbound, TypeInv, TypeOK
  <2> QED BY <2>1, <2>2 DEF HeardInv
<1>4. ASSUME NEW p \in Processors, Submit(p) PROVE HeardInv'
  BY <1>4 DEF Submit, HeardInv, TypeInv, TypeOK
<1>5. ASSUME NEW m \in Messages, FailJob(m) PROVE HeardInv'
  BY <1>5 DEF FailJob, FailedRow, HeardInv, TypeInv, TypeOK, InboundRows, TextRow
<1>6. ASSUME NEW w \in Runners,
             Fail(w) \/ \E m \in Messages : FailExhausted(w, m)
      PROVE  HeardInv'
  BY <1>5, <1>6 DEF FailExhausted, Fail, TypeInv, Holding
<1>7. ASSUME NEW w \in Runners, NEW m \in Messages, Claim(w, m) PROVE HeardInv'
  BY <1>7 DEF Claim, ClaimedText, Translatable, HeardInv, TypeInv, TypeOK
<1>8. ASSUME NEW w \in Runners, Complete(w) \/ Retry(w) PROVE HeardInv'
  <2>1. CASE Complete(w)
    BY <2>1 DEF Complete, CompletedRow, HeardInv, TypeInv, TypeOK, InboundRows,
                TextRow
  <2>2. CASE Retry(w)
    BY <2>2 DEF Retry, HeardInv, TypeInv, TypeOK, TextRow
  <2> QED BY <1>8, <2>1, <2>2
<1>9. ASSUME NEW m \in Messages, ExpireInbound(m) \/ ExpireText(m) PROVE HeardInv'
  <2>1. CASE ExpireInbound(m)
    BY <2>1 DEF ExpireInbound, HeardInv, TypeInv, TypeOK, InboundRows
  <2>2. CASE ExpireText(m)
    BY <2>2 DEF ExpireText, HeardInv, TypeInv, TypeOK, TextRow
  <2> QED BY <1>9, <2>1, <2>2
<1>10. ASSUME UNCHANGED <<inbound, texts>> PROVE HeardInv'
  BY <1>10 DEF HeardInv
<1>11. ASSUME NEW p \in Processors,
              \/ NothingToReconcile(p) \/ NoInboundWork(p) \/ Answer(p)
              \/ TransientError(p) \/ SubmitAgain(p) \/ SubmitInvalid(p)
              \/ CompleteInboundTooLate(p) \/ ProcessorCrash(p)
       PROVE  HeardInv'
  BY <1>10, <1>11 DEF NothingToReconcile, NoInboundWork, Answer, TransientError,
     SubmitAgain, SubmitInvalid, CompleteInboundTooLate, ProcessorCrash
<1>12. ASSUME NEW w \in Runners,
              NothingExhausted(w) \/ NoTextWork(w) \/ ErrNotFound(w) \/ RunnerCrash(w)
       PROVE  HeardInv'
  BY <1>10, <1>12 DEF NothingExhausted, NoTextWork, ErrNotFound, RunnerCrash
<1>13. CASE UNCHANGED vars
  BY <1>10, <1>13 DEF vars
<1> QED
  BY <1>1, <1>2, <1>3, <1>4, <1>6, <1>7, <1>8, <1>9, <1>11, <1>12, <1>13
     DEF Next, ProcessorWork, RunnerWork

\* The refinement mapping: the stage of every message.
Stage ==
  [m \in Messages |->
     IF inbound[m].status = "ABSENT" THEN "unheard"
     ELSE IF Settled(inbound[m]) THEN "closed" ELSE "open"]

Stutter == UNCHANGED <<Stage, reply>>

\* The rows of all messages but one stay as they are: what becomes of that one
\* decides which step of AnswerOnce this is.
LEMMA OneMessage ==
  ASSUME TypeInv, TypeInv', NEW m \in Messages,
         \A n \in Messages \ {m} : inbound'[n] = inbound[n] /\ reply'[n] = reply[n]
  PROVE  /\ /\ Stage[m] = "open" /\ Stage'[m] = "closed" /\ reply'[m] # "none"
            => Promise!Close({m})
         /\ Stage[m] = "unheard" /\ Stage'[m] = "open" /\ reply'[m] = reply[m]
            => Promise!Hear(m)
         /\ Stage'[m] = Stage[m] /\ reply'[m] = reply[m] => Stutter
<1>1. Stage' = [Stage EXCEPT ![m] = Stage'[m]]
  BY DEF Stage
<1>2. reply' = [reply EXCEPT ![m] = reply'[m]] /\ reply'[m] \in Replies
  BY DEF TypeInv, TypeOK
<1>3. ASSUME Stage[m] = "open", Stage'[m] = "closed", reply'[m] # "none"
      PROVE  Promise!Close({m})
  <2>1. Stage' = [n \in Messages |-> IF n \in {m} THEN "closed" ELSE Stage[n]]
    BY <1>1, <1>3 DEF Stage
  <2>2. reply' = [n \in Messages |-> IF n \in {m} THEN reply'[m] ELSE reply[n]]
    BY <1>2 DEF TypeInv, TypeOK
  <2>3. reply'[m] \in Replies \ {"none"}
    BY <1>2, <1>3
  <2> QED BY <1>3, <2>1, <2>2, <2>3 DEF Promise!Close, Stage
<1>4. ASSUME Stage[m] = "unheard", Stage'[m] = "open", reply'[m] = reply[m]
      PROVE  Promise!Hear(m)
  <2>1. reply' = reply BY <1>2, <1>4 DEF TypeInv, TypeOK
  <2>2. Stage' = [Stage EXCEPT ![m] = "open"] BY <1>1, <1>4
  <2> QED BY <1>4, <2>1, <2>2 DEF Promise!Hear, Stage
<1>5. ASSUME Stage'[m] = Stage[m], reply'[m] = reply[m] PROVE Stutter
  BY <1>1, <1>2, <1>5 DEF Stutter, Stage, TypeInv, TypeOK
<1> QED BY <1>3, <1>4, <1>5

\* Giving the message of a job its last status: it was open and is closed now,
\* or it was closed already and keeps its reply.
LEMMA EndsMessage ==
  ASSUME TypeInv, TypeInv', AgreeInv, NEW m \in Messages, NEW kind \in Replies \ {"none"},
         inbound[m].status # "ABSENT", AddReply(m, kind),
         Settled(inbound'[m]),
         \A n \in Messages \ {m} : inbound'[n] = inbound[n]
  PROVE  Promise!Close({m}) \/ Stutter
<1>1. /\ reply'[m] # "none"
      /\ reply'[m] = IF reply[m] = "none" THEN kind ELSE reply[m]
      /\ \A n \in Messages \ {m} : reply'[n] = reply[n]
  BY AddReplyTypes DEF TypeInv, TypeOK
<1>2. Stage'[m] = "closed" BY DEF Settled, Stage
<1>3. CASE Settled(inbound[m])
  <2>1. Stage[m] = "closed" BY <1>3 DEF Stage
  <2>2. reply'[m] = reply[m] BY <1>1, <1>3 DEF AgreeInv, Agreed
  <2> QED BY <1>1, <1>2, <2>1, <2>2, OneMessage
<1>4. CASE ~Settled(inbound[m])
  <2>1. Stage[m] = "open" BY <1>4 DEF Stage
  <2> QED BY <1>1, <1>2, <2>1, OneMessage
<1> QED BY <1>3, <1>4

LEMMA RefinementStep ==
  TypeInv /\ TypeInv' /\ AgreeInv /\ HeardInv /\ [Next]_vars => Promise!Next \/ Stutter
<1> SUFFICES ASSUME TypeInv, TypeInv', AgreeInv, HeardInv, [Next]_vars
             PROVE  Promise!Next \/ Stutter
    OBVIOUS
<1> USE MaxAttemptsAssumption
<1>t. \A m \in Messages : inbound[m] \in InboundRows(MaxAttempts)
  BY DEF TypeInv, TypeOK
<1>p. \A m \in Messages : Promise!Close({m}) \/ Promise!Hear(m) => Promise!Next
  BY DEF Promise!Next
<1>1. ASSUME NEW m \in Messages, Receive(m) PROVE Promise!Next \/ Stutter
  <2>1. Stage[m] = "unheard" /\ Stage'[m] = "open" /\ reply' = reply
    BY <1>1 DEF Receive, NewRow, Stage, Settled, TypeInv, TypeOK
  <2>2. \A n \in Messages \ {m} : inbound'[n] = inbound[n]
    BY <1>1 DEF Receive, TypeInv, TypeOK
  <2> QED BY <2>1, <2>2, <1>p, OneMessage
<1>2. ASSUME NEW p \in Processors, NEW m \in Messages, ReconcileInbound(p, m)
      PROVE  Promise!Next \/ Stutter
  <2>1. inbound[m].status # "ABSENT"
    BY <1>2 DEF ReconcileInbound, Reconcilable, Orphaned, Abandoned
  <2>2. Settled(inbound'[m])
    BY <1>2, <1>t, RowFacts DEF ReconcileInbound, TypeInv, TypeOK
  <2>3. AddReply(m, "exhausted") /\ "exhausted" \in Replies \ {"none"}
    BY <1>2 DEF ReconcileInbound, Replies
  <2>4. \A n \in Messages \ {m} : inbound'[n] = inbound[n]
    BY <1>2 DEF ReconcileInbound, TypeInv, TypeOK
  <2> QED BY <2>1, <2>2, <2>3, <2>4, <1>p, EndsMessage
<1>3. ASSUME NEW p \in Processors, NEW m \in Messages, ClaimInbound(p, m)
      PROVE  Promise!Next \/ Stutter
  <2>1. inbound[m].status # "ABSENT" /\ ~Settled(inbound[m])
    BY <1>3, <1>t, RowFacts
       DEF ClaimInbound, Claimable, Orphaned, Abandoned, Waiting
  <2>2. inbound'[m].status # "ABSENT" /\ ~Settled(inbound'[m]) /\ reply' = reply
    BY <1>3, <1>t, RowFacts DEF ClaimInbound, TypeInv, TypeOK
  <2>3. Stage'[m] = Stage[m] BY <2>1, <2>2 DEF Stage
  <2>4. \A n \in Messages \ {m} : inbound'[n] = inbound[n]
    BY <1>3 DEF ClaimInbound, TypeInv, TypeOK
  <2> QED BY <2>2, <2>3, <2>4, OneMessage
<1>4. ASSUME NEW p \in Processors, RetryInbound(p) PROVE Promise!Next \/ Stutter
  <2>m. processor[p].msg \in Messages
    BY <1>4 DEF RetryInbound, TypeInv, Holding
  <2>0. PICK m \in Messages : m = processor[p].msg
    BY <2>m
  <2>1. inbound'[m] = RetriedRow(inbound[m]) /\ reply' = reply
    BY <1>4, <2>0 DEF RetryInbound, TypeInv, TypeOK
  <2>2. Settled(inbound'[m]) <=> Settled(inbound[m])
    BY <2>1, <1>t, RowFacts
  <2>3. inbound'[m].status = "ABSENT" <=> inbound[m].status = "ABSENT"
    BY <2>1, <1>t DEF RetriedRow, InboundRows
  <2>4. Stage'[m] = Stage[m] BY <2>2, <2>3 DEF Stage
  <2>5. \A n \in Messages \ {m} : inbound'[n] = inbound[n]
    BY <1>4, <2>0 DEF RetryInbound, TypeInv, TypeOK
  <2> QED BY <2>1, <2>4, <2>5, OneMessage
<1>5. ASSUME NEW p \in Processors, CompleteInbound(p) PROVE Promise!Next \/ Stutter
  <2>m. processor[p].msg \in Messages
    BY <1>5 DEF CompleteInbound, TypeInv, Holding
  <2>0. PICK m \in Messages : m = processor[p].msg
    BY <2>m
  <2>1. inbound[m].status # "ABSENT" /\ Settled(inbound'[m])
    BY <1>5, <2>0, <1>t, RowFacts DEF CompleteInbound, TypeInv, TypeOK
  <2>2. AddReply(m, "notice") /\ "notice" \in Replies \ {"none"}
    BY <1>5, <2>0 DEF CompleteInbound, Replies
  <2>3. \A n \in Messages \ {m} : inbound'[n] = inbound[n]
    BY <1>5, <2>0 DEF CompleteInbound, TypeInv, TypeOK
  <2> QED BY <2>1, <2>2, <2>3, <1>p, EndsMessage
<1>6. ASSUME NEW m \in Messages, FailJob(m), texts[m].status # "ABSENT"
      PROVE  Promise!Next \/ Stutter
  <2>1. inbound[m].status # "ABSENT" /\ Settled(inbound'[m])
    BY <1>6, <1>t, RowFacts DEF FailJob, HeardInv, TypeInv, TypeOK
  <2>2. AddReply(m, "failed") /\ "failed" \in Replies \ {"none"}
    BY <1>6 DEF FailJob, Replies
  <2>3. \A n \in Messages \ {m} : inbound'[n] = inbound[n]
    BY <1>6 DEF FailJob, TypeInv, TypeOK
  <2> QED BY <2>1, <2>2, <2>3, <1>p, EndsMessage
<1>7. ASSUME NEW w \in Runners,
             Fail(w) \/ \E m \in Messages : FailExhausted(w, m)
      PROVE  Promise!Next \/ Stutter
  BY <1>6, <1>7 DEF FailExhausted, Exhausted, Fail, TypeInv, Holding
<1>8. ASSUME NEW w \in Runners, Complete(w) PROVE Promise!Next \/ Stutter
  <2>m. runner[w].job \in Messages
    BY <1>8 DEF Complete, TypeInv, Holding
  <2>0. PICK m \in Messages : m = runner[w].job
    BY <2>m
  <2>1. inbound[m].status # "ABSENT" /\ Settled(inbound'[m])
    BY <1>8, <2>0, <1>t, RowFacts DEF Complete, HeardInv, TypeInv, TypeOK
  <2>2. AddReply(m, "result") /\ "result" \in Replies \ {"none"}
    BY <1>8, <2>0 DEF Complete, Replies
  <2>3. \A n \in Messages \ {m} : inbound'[n] = inbound[n]
    BY <1>8, <2>0 DEF Complete, TypeInv, TypeOK
  <2> QED BY <2>1, <2>2, <2>3, <1>p, EndsMessage
<1>9. ASSUME NEW m \in Messages, ExpireInbound(m) PROVE Promise!Next \/ Stutter
  <2>1. inbound'[m] = [inbound[m] EXCEPT !.stale = TRUE] /\ reply' = reply
    BY <1>9 DEF ExpireInbound, TypeInv, TypeOK
  <2>2. Stage'[m] = Stage[m] BY <2>1, <1>t DEF Stage, Settled, InboundRows
  <2>3. \A n \in Messages \ {m} : inbound'[n] = inbound[n]
    BY <1>9 DEF ExpireInbound, TypeInv, TypeOK
  <2> QED BY <2>1, <2>2, <2>3, OneMessage
<1>10. ASSUME UNCHANGED <<inbound, reply>> PROVE Stutter
  BY <1>10 DEF Stutter, Stage
<1>11. ASSUME NEW p \in Processors,
              \/ NothingToReconcile(p) \/ NoInboundWork(p) \/ Answer(p)
              \/ TransientError(p) \/ SubmitAgain(p) \/ SubmitInvalid(p) \/ Submit(p)
              \/ CompleteInboundTooLate(p) \/ ProcessorCrash(p)
       PROVE  Stutter
  BY <1>10, <1>11 DEF NothingToReconcile, NoInboundWork, Answer, TransientError,
     SubmitAgain, SubmitInvalid, Submit, CompleteInboundTooLate, ProcessorCrash
<1>12. ASSUME NEW w \in Runners,
              \/ NothingExhausted(w) \/ NoTextWork(w) \/ ErrNotFound(w)
              \/ RunnerCrash(w) \/ Retry(w) \/ \E m \in Messages : Claim(w, m)
       PROVE  Stutter
  BY <1>10, <1>12 DEF NothingExhausted, NoTextWork, ErrNotFound, RunnerCrash,
     Retry, Claim
<1>13. ASSUME NEW m \in Messages, ExpireText(m) PROVE Stutter
  BY <1>10, <1>13 DEF ExpireText
<1>14. CASE UNCHANGED vars
  BY <1>10, <1>14 DEF vars
<1> QED
  BY <1>1, <1>2, <1>3, <1>4, <1>5, <1>7, <1>8, <1>9, <1>11, <1>12, <1>13, <1>14
     DEF Next, ProcessorWork, RunnerWork

\* Every message is answered once, in the step that settles it, and that answer
\* is final: TextPipeline implements AnswerOnce in every environment.
THEOREM TextPipelineImplementsAnswerOnce == Spec => ImplementsAnswerOnce
<1>1. Init => Promise!Init
  BY DEF Init, Promise!Init, NoRow
<1>2. Init => HeardInv
  BY DEF Init, HeardInv, NoText
<1>3. TypeInv /\ TypeInv' /\ AgreeInv /\ HeardInv /\ [Next]_vars
        => [Promise!Next]_<<Stage, reply>>
  BY RefinementStep DEF Stutter
<1>4. ImplementsAnswerOnce <=> Promise!Init /\ [][Promise!Next]_<<Stage, reply>>
  BY DEF ImplementsAnswerOnce, Promise!Spec, Stage
<1> QED BY TypeInit, TypeStep, AgreeInit, AgreeStep, HeardStep, <1>1, <1>2, <1>3,
           <1>4, PTL DEF Spec
===============================================================================
