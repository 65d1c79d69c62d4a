-------------------------- MODULE AudioPipelineProofs --------------------------
(***************************************************************************)
(* What TLAPS proves about AudioPipeline, for any number of voice notes,   *)
(* uploads, recordings, processes and attempts.                            *)
(***************************************************************************)
EXTENDS AudioPipeline, TLAPS

Busy == {"process", "rename", "probe", "create", "discard", "enqueue", "settle"}

InTransaction == {"exhausting", "completing", "failing"}

Working == {"open", "provider", "completing", "fail", "failing", "remove"}

\* Whoever is at work holds what it works on; with it TypeOK is inductive.
HoldingNotes ==
  /\ \A p \in Processors : processor[p].pc \in Busy => processor[p].msg \in Notes
  /\ \A u \in Uploads : processor[u].pc \in Busy => processor[u].msg \in Uploads

HoldingJobs ==
  \A w \in Workers : worker[w].pc \in Working => worker[w].job \in Jobs

\* What a worker has updated and not committed is as it found it: nobody else writes
\* these rows.
Transaction(w) ==
  /\ worker[w].pc \in {"completing", "failing"} =>
       worker[w].ending = {worker[w].job} /\ StillProcessing(worker[w].job)
  /\ worker[w].pc = "exhausting" => \A j \in worker[w].ending : Exhausted(j)
  /\ worker[w].pc \notin InTransaction => worker[w].ending = {}
  /\ worker[w].ended \subseteq LinkedTo(worker[w].ending)
  /\ \A v \in Workers \ {w} : worker[w].ending \cap worker[v].ending = {}

LockInv == \A w \in Workers : Transaction(w)

TypeInv == TypeOK /\ HoldingNotes /\ HoldingJobs /\ LockInv

\* A submitter goes on with what it holds, or lets go of it.
Moves(p) ==
  \E s \in ProcessorState :
    /\ processor' = [processor EXCEPT ![p] = s]
    /\ s.pc \in Busy => processor[p].pc \in Busy /\ s.msg = processor[p].msg

\* So does a worker, outside of a transaction ...
WorkerMoves(w) ==
  \E s \in WorkerState :
    /\ worker' = [worker EXCEPT ![w] = s]
    /\ s.pc \notin InTransaction /\ s.ending = {} /\ s.ended = {}
    /\ s.pc \in Working => worker[w].pc \in Working /\ s.job = worker[w].job

\* ... or into one, on rows that nobody else has updated.
WorkerBegins(w) ==
  \E pc \in InTransaction, js \in SUBSET Jobs :
    /\ BeginEnd(w, pc, js)
    /\ \A j \in js : ~Locked(j)
    /\ IF pc = "exhausting"
       THEN worker[w].pc = "exhaust" /\ \A j \in js : Exhausted(j)
       ELSE /\ worker[w].pc \in {"provider", "fail"}
            /\ worker[w].pc = "fail" => StillProcessing(worker[w].job)
            /\ js = {worker[w].job} /\ StillProcessing(worker[w].job)
    /\ UNCHANGED <<inbound, linked, audio, files, stream, reply, processor>>

-------------------------------------------------------------------------------

\* What a job has come to of which a note is told this.
JobKinds == {"result", "unsupported", "failed"}

EndOf(kind) ==
  CASE kind = "result" -> "COMPLETED"
    [] kind = "unsupported" -> "UNSUPPORTED"
    [] kind = "failed" -> "FAILED"

\* The writes keep a row a row (the UPDATEs of InboundRow).
LEMMA RowTypes ==
  ASSUME NEW max \in Nat, NEW row \in InboundRows(max)
  PROVE  /\ RetriedRow(row) \in InboundRows(max)
         /\ CompletedRow(row) \in InboundRows(max)
         /\ FailedRow(row) \in InboundRows(max)
         /\ row.attempts < max => ClaimedRow(row) \in InboundRows(max)
<1>1. RetriedRow(row) \in InboundRows(max)
  BY DEF InboundRows, InboundStatuses, RetriedRow
<1>2. CompletedRow(row) \in InboundRows(max)
  BY DEF InboundRows, InboundStatuses, CompletedRow
<1>3. FailedRow(row) \in InboundRows(max)
  BY DEF InboundRows, InboundStatuses, FailedRow
<1>4. ASSUME row.attempts < max PROVE ClaimedRow(row) \in InboundRows(max)
  <2>1. row.attempts + 1 \in 0..max BY <1>4 DEF InboundRows
  <2> QED BY <2>1, <1>4 DEF InboundRows, InboundStatuses, ClaimedRow
<1> QED BY <1>1, <1>2, <1>3, <1>4

\* What the writes do to the questions asked of a row.
LEMMA RowFacts ==
  ASSUME NEW max \in Nat, NEW row \in InboundRows(max)
  PROVE  /\ Settled(CompletedRow(row)) /\ Settled(FailedRow(row))
         /\ ~Settled(ClaimedRow(row)) /\ ClaimedRow(row).status = "PROCESSING"
         /\ ~ClaimedRow(row).stale
         /\ Settled(RetriedRow(row)) <=> Settled(row)
         /\ row.status # "PROCESSING" => RetriedRow(row) = row
         /\ RetriedRow(row).status = "ABSENT" <=> row.status = "ABSENT"
         /\ Waiting(row) => ~Settled(row)
         /\ Abandoned(row) => ~Settled(row)
BY DEF InboundRows, InboundStatuses, RetriedRow, CompletedRow, FailedRow,
       ClaimedRow, Settled, Waiting, Abandoned

\* The same of the two ways a worker ends a message.
LEMMA EndedRowFacts ==
  ASSUME NEW max \in Nat, NEW row \in InboundRows(max), NEW kind
  PROVE  EndedRow(row, kind) \in InboundRows(max) /\ Settled(EndedRow(row, kind))
BY RowTypes, RowFacts DEF EndedRow

\* The outbox holds one kind of reply to a message, the first one.
LEMMA AddReplyTypes ==
  ASSUME NEW m \in Notes, NEW kind \in Replies \ {"none"},
         reply \in [Notes -> Replies], AddReply(m, kind)
  PROVE  /\ reply' \in [Notes -> Replies]
         /\ reply'[m] = IF reply[m] = "none" THEN kind ELSE reply[m]
         /\ \A n \in Notes \ {m} : reply'[n] = reply[n]
BY DEF AddReply, Replies

LEMMA EndMessagesTypes ==
  ASSUME TypeInv, NEW w \in Workers, NEW kind \in Replies \ {"none"},
         EndMessages(w, kind)
  PROVE  /\ inbound' \in [Notes -> InboundRows(MaxAttempts)]
         /\ reply' \in [Notes -> Replies]
BY BoundsAssumption, EndedRowFacts DEF EndMessages, TypeInv, TypeOK

LEMMA ReconciledKind ==
  ASSUME NEW m \in Notes
  PROVE  /\ Reconciled(m) \in {"result", "failed", "exhausted"}
         /\ Reconciled(m) \in JobKinds =>
              linked[m] /\ audio[JobOf[m]].status = EndOf(Reconciled(m))
BY DEF Reconciled, JobStatus, JobKinds, EndOf

\* submit and the loop around it leave the submitter with what it had.
LEMMA FinishMoves ==
  ASSUME TypeInv, NEW p \in Submitters, processor[p].pc \in Busy,
         NEW result \in {"none", "retry", "notice", "deferred"},
         Finish(p, result) \/ Leave(p, result)
  PROVE  Moves(p)
<1> DEFINE s == processor'[p]
<1>1. processor[p] \in ProcessorState BY DEF TypeInv, TypeOK
<1>2. processor' = [processor EXCEPT ![p] = s]
  BY DEF Finish, Responded, Leave, TypeInv, TypeOK
<1>3. CASE Finish(p, result)
  <2>1. \/ s = [Polling("answered") EXCEPT !.result = result]
        \/ s = Polling("reconcile")
        \/ s = [processor[p] EXCEPT !.pc = "settle", !.result = result]
    BY <1>3 DEF Finish, Responded, TypeInv, TypeOK
  <2>2. CASE s = [Polling("answered") EXCEPT !.result = result] \/ s = Polling("reconcile")
    <3>1. s.pc \in {"answered", "reconcile"} BY <2>2 DEF Polling
    <3>2. Polling("answered") \in ProcessorState /\ Polling("reconcile") \in ProcessorState
      BY BoundsAssumption DEF Polling, ProcessorState
    <3>3. s \in ProcessorState
      BY <2>2, <3>2 DEF ProcessorState
    <3> QED BY <1>2, <3>1, <3>3 DEF Moves, Busy
  <2>3. CASE s = [processor[p] EXCEPT !.pc = "settle", !.result = result]
    <3>1. s \in ProcessorState /\ s.msg = processor[p].msg
      BY <1>1, <2>3 DEF ProcessorState
    <3> QED BY <1>2, <3>1 DEF Moves
  <2> QED BY <2>1, <2>2, <2>3
<1>4. CASE ~Finish(p, result)
  <2>1. s = [processor[p] EXCEPT !.pc = "discard", !.result = result]
    BY <1>4 DEF Leave, TypeInv, TypeOK
  <2>2. s \in ProcessorState /\ s.msg = processor[p].msg
    BY <1>1, <2>1 DEF ProcessorState
  <2> QED BY <1>2, <2>2 DEF Moves
<1> QED BY <1>3, <1>4

LEMMA TransientResults ==
  ASSUME NEW p PROVE TransientResult(p) \in {"retry", "notice"}
BY DEF TransientResult

\* Every step of a submitter but the two that take something up.
LEMMA SubmitterMoves ==
  ASSUME TypeInv, NEW p \in Submitters,
         \/ NothingToReconcile(p) \/ NoInboundWork(p) \/ Submit(p)
         \/ RetryInbound(p) \/ CompleteInbound(p) \/ CompleteInboundTooLate(p)
         \/ ProcessorCrash(p)
  PROVE  Moves(p)
<1>1. ASSUME NEW pc \in {"reconcile", "claim", "waiting"},
             processor' = [processor EXCEPT ![p] = Polling(pc)]
      PROVE  Moves(p)
  <2>1. Polling(pc) \in ProcessorState
    BY BoundsAssumption DEF Polling, ProcessorState
  <2>2. Polling(pc).pc \notin Busy BY DEF Polling, Busy
  <2> QED BY <1>1, <2>1, <2>2 DEF Moves
<1>2. ASSUME NEW pc \in {"rename", "probe", "create", "enqueue"},
             processor[p].pc \in Busy,
             NEW c \in BOOLEAN,
             processor' = [processor EXCEPT ![p].pc = pc, ![p].created = c]
      PROVE  Moves(p)
  <2> DEFINE s == [processor[p] EXCEPT !.pc = pc, !.created = c]
  <2>1. s \in ProcessorState /\ s.msg = processor[p].msg
    BY DEF TypeInv, TypeOK, ProcessorState
  <2>2. processor' = [processor EXCEPT ![p] = s]
    BY <1>2 DEF TypeInv, TypeOK
  <2> QED BY <1>2, <2>1, <2>2 DEF Moves
<1>3. ASSUME NEW pc \in {"rename", "probe", "create", "enqueue"},
             processor[p].pc \in Busy,
             processor' = [processor EXCEPT ![p].pc = pc]
      PROVE  Moves(p)
  <2> DEFINE s == [processor[p] EXCEPT !.pc = pc]
  <2>1. s \in ProcessorState /\ s.msg = processor[p].msg
    BY DEF TypeInv, TypeOK, ProcessorState
  <2>2. processor' = [processor EXCEPT ![p] = s]
    BY <1>3 DEF TypeInv, TypeOK
  <2> QED BY <1>3, <2>1, <2>2 DEF Moves
<1>4. CASE \/ NothingToReconcile(p) \/ NoInboundWork(p) \/ RetryInbound(p)
           \/ CompleteInbound(p) \/ CompleteInboundTooLate(p) \/ ProcessorCrash(p)
  BY <1>1, <1>4 DEF NothingToReconcile, NoInboundWork, RetryInbound,
     CompleteInbound, CompleteInboundTooLate, ProcessorCrash
<1>5. CASE FindFile(p) \/ ProbeAccepts(p)
  BY <1>3, <1>5 DEF FindFile, ProbeAccepts, Busy
<1>6. CASE RenameFile(p)
  BY <1>2, <1>6 DEF RenameFile, Busy
<1>7. CASE Create(p)
  BY <1>3, <1>7, FinishMoves, TransientResults DEF Create, Busy
<1>8. CASE \/ Refuse(p) \/ ProbeRefuses(p) \/ CreateRefused(p) \/ GetExisting(p)
           \/ Enqueue(p) \/ EnqueueFails(p)
  BY <1>8, FinishMoves, TransientResults
     DEF Refuse, ProbeRefuses, CreateRefused, GetExisting, Enqueue, EnqueueFails, Busy
<1>9. CASE DiscardFile(p)
  <2>1. processor[p].result \in {"none", "retry", "notice", "deferred"}
    BY DEF TypeInv, TypeOK, ProcessorState
  <2> QED BY <1>9, <2>1, FinishMoves DEF DiscardFile, Busy
<1> QED BY <1>4, <1>5, <1>6, <1>7, <1>8, <1>9 DEF Submit

LEMMA MovesTypes ==
  ASSUME TypeInv, NEW p \in Submitters, Moves(p)
  PROVE  processor' \in [Submitters -> ProcessorState] /\ HoldingNotes'
<1>1. PICK s \in ProcessorState :
        /\ processor' = [processor EXCEPT ![p] = s]
        /\ s.pc \in Busy => processor[p].pc \in Busy /\ s.msg = processor[p].msg
  BY DEF Moves
<1>2. processor' \in [Submitters -> ProcessorState]
  BY <1>1 DEF TypeInv, TypeOK
<1>3. HoldingNotes'
  BY <1>1 DEF TypeInv, TypeOK, HoldingNotes, Submitters
<1> QED BY <1>2, <1>3

LEMMA WorkersMove ==
  ASSUME TypeInv, NEW w \in Workers,
         \/ RecoverStalled(w) \/ FailExhausted(w) \/ CommitExhausted(w) \/ Requeue(w)
         \/ OpenFile(w) \/ Complete(w) \/ CommitComplete(w) \/ GiveUp(w) \/ Retry(w)
         \/ Fail(w) \/ CommitFail(w) \/ FailTooLate(w) \/ RemoveFile(w)
         \/ WorkerCrash(w)
  PROVE  WorkerMoves(w) \/ WorkerBegins(w)
<1>t. worker \in [Workers -> WorkerState] /\ worker[w] \in WorkerState
  BY DEF TypeInv, TypeOK
<1>l. worker[w].pc \notin InTransaction => worker[w].ending = {} /\ worker[w].ended = {}
  BY DEF TypeInv, LockInv, Transaction, LinkedTo
<1>1. ASSUME NEW pc \in {"recover", "exhaust", "requeue", "read"},
             worker' = [worker EXCEPT ![w] = Idle(pc)]
      PROVE  WorkerMoves(w)
  <2>1. Idle(pc) \in WorkerState
    BY BoundsAssumption DEF Idle, WorkerState
  <2>2. /\ Idle(pc).pc \notin Working /\ Idle(pc).pc \notin InTransaction
        /\ Idle(pc).ending = {} /\ Idle(pc).ended = {}
    BY DEF Idle, Working, InTransaction
  <2> QED BY <1>1, <2>1, <2>2 DEF WorkerMoves
<1>2. ASSUME NEW pc \in {"provider", "fail"},
             worker[w].pc \in {"open", "provider"},
             worker' = [worker EXCEPT ![w].pc = pc]
      PROVE  WorkerMoves(w)
  <2> DEFINE s == [worker[w] EXCEPT !.pc = pc]
  <2>1. /\ s \in WorkerState /\ s.job = worker[w].job /\ s.pc = pc
        /\ s.ending = worker[w].ending /\ s.ended = worker[w].ended
    BY <1>t DEF WorkerState
  <2>2. worker' = [worker EXCEPT ![w] = s]
    BY <1>2, <1>t
  <2>3. worker[w].pc \in Working /\ worker[w].pc \notin InTransaction
    BY <1>2 DEF Working, InTransaction
  <2>4. s.pc \notin InTransaction BY <2>1 DEF InTransaction
  <2> HIDE DEF s
  <2> QED BY <1>l, <2>1, <2>2, <2>3, <2>4 DEF WorkerMoves
<1>3. CASE CommitComplete(w)
  <2>1. PICK pc \in {"remove", "fail"} :
          worker' = [worker EXCEPT ![w].pc = pc, ![w].ending = {}, ![w].ended = {}]
    BY <1>3 DEF CommitComplete
  <2> DEFINE s == [worker[w] EXCEPT !.pc = pc, !.ending = {}, !.ended = {}]
  <2>2. /\ s \in WorkerState /\ s.job = worker[w].job /\ s.pc = pc
        /\ s.ending = {} /\ s.ended = {}
    BY <1>t DEF WorkerState
  <2>3. worker' = [worker EXCEPT ![w] = s]
    BY <2>1, <1>t
  <2>4. worker[w].pc \in Working BY <1>3 DEF CommitComplete, Working
  <2>5. s.pc \notin InTransaction BY <2>2 DEF InTransaction
  <2> HIDE DEF s
  <2> QED BY <2>2, <2>3, <2>4, <2>5 DEF WorkerMoves
<1>4. CASE FailExhausted(w)
  <2> DEFINE js == {j \in Jobs : Exhausted(j)}
  <2>1. CASE js = {} BY <1>1, <1>4, <2>1 DEF FailExhausted
  <2>2. CASE js # {}
    <3>1. /\ BeginEnd(w, "exhausting", js) /\ js \in SUBSET Jobs
          /\ \A j \in js : ~Locked(j) /\ Exhausted(j)
          /\ worker[w].pc = "exhaust"
          /\ UNCHANGED <<inbound, linked, audio, files, stream, reply, processor>>
      BY <1>4, <2>2 DEF FailExhausted
    <3> HIDE DEF js
    <3> QED BY <3>1 DEF WorkerBegins, InTransaction
  <2> QED BY <2>1, <2>2
<1>5. CASE Complete(w) \/ Fail(w)
  <2>1. worker[w].job \in Jobs
    BY <1>5 DEF Complete, Fail, TypeInv, HoldingJobs, Working
  <2>2. PICK pc \in {"completing", "failing"} : BeginEnd(w, pc, {worker[w].job})
    BY <1>5 DEF Complete, Fail
  <2>3. /\ StillProcessing(worker[w].job) /\ ~Locked(worker[w].job)
        /\ worker[w].pc \in {"provider", "fail"}
        /\ UNCHANGED <<inbound, linked, audio, files, stream, reply, processor>>
    BY <1>5 DEF Complete, Fail
  <2> QED BY <2>1, <2>2, <2>3 DEF WorkerBegins, InTransaction
<1>6. CASE \/ RecoverStalled(w) \/ CommitExhausted(w) \/ Requeue(w) \/ Retry(w)
           \/ CommitFail(w) \/ FailTooLate(w) \/ RemoveFile(w) \/ WorkerCrash(w)
  BY <1>1, <1>6 DEF RecoverStalled, CommitExhausted, Requeue, Retry, CommitFail,
     FailTooLate, RemoveFile, WorkerCrash, Acknowledge, PutBack
<1>7. CASE OpenFile(w) \/ GiveUp(w)
  BY <1>2, <1>7 DEF OpenFile, GiveUp
<1> QED BY <1>3, <1>4, <1>5, <1>6, <1>7

LEMMA WorkerMovesTypes ==
  ASSUME TypeInv, NEW w \in Workers, WorkerMoves(w) \/ WorkerBegins(w)
  PROVE  worker' \in [Workers -> WorkerState] /\ HoldingJobs'
<1>t. worker \in [Workers -> WorkerState] /\ worker[w] \in WorkerState
  BY DEF TypeInv, TypeOK
<1>1. CASE WorkerMoves(w)
  BY <1>1 DEF WorkerMoves, TypeInv, TypeOK, HoldingJobs
<1>2. CASE WorkerBegins(w)
  <2>1. PICK pc \in InTransaction, js \in SUBSET Jobs :
          /\ BeginEnd(w, pc, js)
          /\ pc # "exhausting" => worker[w].pc \in {"provider", "fail"}
    BY <1>2 DEF WorkerBegins
  <2> DEFINE s == [worker[w] EXCEPT !.pc = pc, !.ending = js, !.ended = LinkedTo(js)]
  <2>2. LinkedTo(js) \in SUBSET Notes BY DEF LinkedTo
  <2>3. /\ s \in WorkerState /\ s.pc = pc /\ s.job = worker[w].job
    BY <1>t, <2>2 DEF WorkerState, InTransaction
  <2>4. worker' = [worker EXCEPT ![w] = s] BY <1>t, <2>1 DEF BeginEnd
  <2>5. pc \in Working => worker[w].job \in Jobs
    BY <2>1 DEF Working, TypeInv, HoldingJobs
  <2> HIDE DEF s
  <2> QED BY <1>t, <2>3, <2>4, <2>5 DEF HoldingJobs, TypeInv
<1> QED BY <1>1, <1>2

-------------------------------------------------------------------------------
\* What a step does to the processors and to the workers.

LEMMA SubmitterTypes ==
  TypeInv /\ [Next]_vars =>
    processor' \in [Submitters -> ProcessorState] /\ HoldingNotes'
<1> SUFFICES ASSUME TypeInv, [Next]_vars
             PROVE  processor' \in [Submitters -> ProcessorState] /\ HoldingNotes'
    OBVIOUS
<1>1. ASSUME UNCHANGED processor
      PROVE  processor' \in [Submitters -> ProcessorState] /\ HoldingNotes'
  BY <1>1 DEF TypeInv, TypeOK, HoldingNotes
<1>2. ASSUME NEW p \in Processors, NEW m \in Notes, ClaimInbound(p, m)
      PROVE  processor' \in [Submitters -> ProcessorState] /\ HoldingNotes'
  <2> DEFINE s == [Polling("process") EXCEPT !.msg = m, !.attempts = inbound[m].attempts + 1]
  <2>1. inbound[m].attempts + 1 \in 0..MaxAttempts
    BY <1>2, BoundsAssumption DEF ClaimInbound, Claimable, TypeInv, TypeOK, InboundRows
  <2>2. s \in ProcessorState /\ s.msg = m
    BY <2>1 DEF Polling, ProcessorState
  <2>3. processor' = [processor EXCEPT ![p] = s] BY <1>2 DEF ClaimInbound
  <2> QED BY <2>2, <2>3, UploadsAssumption
          DEF TypeInv, TypeOK, HoldingNotes, Submitters
<1>3. ASSUME NEW u \in Uploads, Upload(u)
      PROVE  processor' \in [Submitters -> ProcessorState] /\ HoldingNotes'
  <2> DEFINE s == [Polling("process") EXCEPT !.msg = u]
  <2>0. Polling("process") \in ProcessorState
    BY BoundsAssumption DEF Polling, ProcessorState
  <2>1. s \in ProcessorState /\ s.msg = u
    BY <2>0 DEF ProcessorState
  <2>2. processor' = [processor EXCEPT ![u] = s] BY <1>3 DEF Upload
  <2> QED BY <2>1, <2>2, UploadsAssumption
          DEF TypeInv, TypeOK, HoldingNotes, Submitters
<1>4. ASSUME NEW p \in Processors,
             \/ NothingToReconcile(p) \/ NoInboundWork(p) \/ RetryInbound(p)
             \/ CompleteInbound(p) \/ CompleteInboundTooLate(p)
      PROVE  processor' \in [Submitters -> ProcessorState] /\ HoldingNotes'
  BY <1>4, SubmitterMoves, MovesTypes DEF Submitters
<1>5. ASSUME NEW p \in Submitters, Submit(p) \/ ProcessorCrash(p)
      PROVE  processor' \in [Submitters -> ProcessorState] /\ HoldingNotes'
  BY <1>5, SubmitterMoves, MovesTypes
<1>6. ASSUME NEW m \in Notes,
             Receive(m) \/ ExpireInbound(m) \/ \E p \in Processors : ReconcileInbound(p, m)
      PROVE  UNCHANGED processor
  BY <1>6 DEF Receive, ExpireInbound, ReconcileInbound
<1>7. ASSUME NEW w \in Workers, WorkerWork(w) \/ RecoverStalled(w) \/ WorkerCrash(w)
      PROVE  UNCHANGED processor
  BY <1>7 DEF WorkerWork, RecoverStalled, FailExhausted, CommitExhausted, Requeue,
     Claim, DropEntry, OpenFile, Complete, CommitComplete, GiveUp, Retry, Fail,
     CommitFail, FailTooLate, RemoveFile, WorkerCrash
<1>8. ASSUME NEW j \in Jobs, ExpireAudio(j) \/ BackoffOver(j) \/ LoseEntries(j)
      PROVE  UNCHANGED processor
  BY <1>8 DEF ExpireAudio, BackoffOver, LoseEntries
<1> QED
  BY <1>1, <1>2, <1>3, <1>4, <1>5, <1>6, <1>7, <1>8
     DEF Next, ProcessorWork, Clock, Submitters, vars

LEMMA WorkerTypes ==
  TypeInv /\ [Next]_vars => worker' \in [Workers -> WorkerState] /\ HoldingJobs'
<1> SUFFICES ASSUME TypeInv, [Next]_vars
             PROVE  worker' \in [Workers -> WorkerState] /\ HoldingJobs'
    OBVIOUS
<1>1. ASSUME UNCHANGED worker
      PROVE  worker' \in [Workers -> WorkerState] /\ HoldingJobs'
  BY <1>1 DEF TypeInv, TypeOK, HoldingJobs
<1>2. ASSUME NEW w \in Workers, NEW j \in Jobs, Claim(w, j)
      PROVE  worker' \in [Workers -> WorkerState] /\ HoldingJobs'
  <2>1. audio[j].attempts + 1 \in 0..MaxProviderAttempts
    BY <1>2, BoundsAssumption
       DEF Claim, ClaimableJob, Ready, TypeInv, TypeOK, AudioRow
  <2> DEFINE s == [Idle("open") EXCEPT !.job = j, !.attempts = audio[j].attempts + 1]
  <2>2. s \in WorkerState /\ s.job = j
    BY <2>1 DEF Idle, WorkerState
  <2>3. worker' = [worker EXCEPT ![w] = s] BY <1>2 DEF Claim
  <2> HIDE DEF s
  <2> QED BY <2>2, <2>3 DEF TypeInv, TypeOK, HoldingJobs
<1>3. ASSUME NEW w \in Workers, NEW j \in Jobs, DropEntry(w, j)
      PROVE  UNCHANGED worker
  BY <1>3 DEF DropEntry
<1>4. ASSUME NEW w \in Workers,
             \/ RecoverStalled(w) \/ FailExhausted(w) \/ CommitExhausted(w)
             \/ Requeue(w) \/ OpenFile(w) \/ Complete(w) \/ CommitComplete(w)
             \/ GiveUp(w) \/ Retry(w) \/ Fail(w) \/ CommitFail(w) \/ FailTooLate(w)
             \/ RemoveFile(w) \/ WorkerCrash(w)
      PROVE  worker' \in [Workers -> WorkerState] /\ HoldingJobs'
  BY <1>4, WorkersMove, WorkerMovesTypes
<1>5. ASSUME NEW p \in Processors, ProcessorWork(p) PROVE UNCHANGED worker
  BY <1>5 DEF ProcessorWork, Submit, ReconcileInbound, ClaimInbound,
     NothingToReconcile, NoInboundWork, Refuse, FindFile, RenameFile, ProbeRefuses,
     ProbeAccepts, CreateRefused, GetExisting, Create, DiscardFile, Enqueue,
     EnqueueFails, RetryInbound, CompleteInbound, CompleteInboundTooLate
<1>6. ASSUME NEW p \in Submitters, Submit(p) \/ ProcessorCrash(p) PROVE UNCHANGED worker
  BY <1>6 DEF Submit, Refuse, FindFile, RenameFile, ProbeRefuses, ProbeAccepts,
     CreateRefused, GetExisting, Create, DiscardFile, Enqueue, EnqueueFails,
     ProcessorCrash
<1>7. ASSUME NEW u \in Uploads, Upload(u) PROVE UNCHANGED worker
  BY <1>7 DEF Upload
<1>8. ASSUME NEW m \in Notes, Receive(m) \/ ExpireInbound(m) PROVE UNCHANGED worker
  BY <1>8 DEF Receive, ExpireInbound
<1>9. ASSUME NEW j \in Jobs, ExpireAudio(j) \/ BackoffOver(j) \/ LoseEntries(j)
      PROVE  UNCHANGED worker
  BY <1>9 DEF ExpireAudio, BackoffOver, LoseEntries
<1> QED
  BY <1>1, <1>2, <1>3, <1>4, <1>5, <1>6, <1>7, <1>8, <1>9
     DEF Next, WorkerWork, Clock, Submitters, vars

-------------------------------------------------------------------------------
(***************************************************************************)
(* What a step does to the jobs.                                           *)
(***************************************************************************)

\* A job stays a job, and so does its end once it has ended.
JobKept(j) ==
  /\ audio'[j] \in AudioRow
  /\ audio'[j].status = "ABSENT" => audio[j].status = "ABSENT"
  /\ audio[j].status \in Ended => audio'[j].status = audio[j].status

LEMMA JobStep ==
  TypeInv /\ [Next]_vars =>
    audio' \in [Jobs -> AudioRow] /\ \A j \in Jobs : JobKept(j)
<1> SUFFICES ASSUME TypeInv, [Next]_vars
             PROVE  audio' \in [Jobs -> AudioRow] /\ \A j \in Jobs : JobKept(j)
    OBVIOUS
<1> DEFINE Goal == audio' \in [Jobs -> AudioRow] /\ \A j \in Jobs : JobKept(j)
<1>t. audio \in [Jobs -> AudioRow] BY DEF TypeInv, TypeOK
<1>1. ASSUME UNCHANGED audio PROVE Goal
  BY <1>1, <1>t DEF JobKept
<1>2. ASSUME NEW j \in Jobs, NEW row \in AudioRow,
             audio' = [audio EXCEPT ![j] = row],
             row.status = "ABSENT" => audio[j].status = "ABSENT",
             audio[j].status \in Ended => row.status = audio[j].status
      PROVE  Goal
  BY <1>2, <1>t DEF JobKept
<1>3. ASSUME NEW p \in Submitters, Submit(p) PROVE Goal
  <2>1. CASE Create(p)
    <3>1. Job(p) \in Jobs
      BY <2>1, JobOfAssumption
         DEF Create, TypeInv, HoldingNotes, Job, Busy, Submitters
    <3>2. NewAudio \in AudioRow /\ NewAudio.status = "PENDING"
      BY BoundsAssumption DEF NewAudio, AudioRow, AudioStatuses
    <3> QED BY <1>2, <2>1, <3>1, <3>2 DEF Create, Ended
  <2>2. CASE ~Create(p)
    BY <1>1, <1>3, <2>2 DEF Submit, Refuse, FindFile, RenameFile, ProbeRefuses,
       ProbeAccepts, CreateRefused, GetExisting, DiscardFile, Enqueue, EnqueueFails
  <2> QED BY <2>1, <2>2
<1>4. ASSUME NEW p \in Processors,
             \/ \E m \in Notes : ReconcileInbound(p, m) \/ ClaimInbound(p, m)
             \/ NothingToReconcile(p) \/ NoInboundWork(p) \/ RetryInbound(p)
             \/ CompleteInbound(p) \/ CompleteInboundTooLate(p)
      PROVE  Goal
  BY <1>1, <1>4 DEF ReconcileInbound, ClaimInbound, NothingToReconcile,
     NoInboundWork, RetryInbound, CompleteInbound, CompleteInboundTooLate
<1>5. ASSUME NEW p \in Submitters, ProcessorCrash(p) PROVE Goal
  BY <1>1, <1>5 DEF ProcessorCrash
<1>6. ASSUME NEW u \in Uploads, Upload(u) PROVE Goal
  BY <1>1, <1>6 DEF Upload
<1>7. ASSUME NEW m \in Notes, Receive(m) \/ ExpireInbound(m) PROVE Goal
  BY <1>1, <1>7 DEF Receive, ExpireInbound
<1>8. ASSUME NEW w \in Workers, RecoverStalled(w) PROVE Goal
  BY <1>8, <1>t DEF RecoverStalled, Stalled, JobKept, AudioRow, AudioStatuses, Ended
<1>9. ASSUME NEW w \in Workers, CommitExhausted(w) PROVE Goal
  <2>1. \A j \in worker[w].ending : audio[j].status = "PENDING"
    BY <1>9 DEF CommitExhausted, TypeInv, LockInv, Transaction, Exhausted
  <2>2. audio' = [j \in Jobs |-> IF j \in worker[w].ending
                                 THEN [audio[j] EXCEPT !.status = "FAILED"] ELSE audio[j]]
    BY <1>9 DEF CommitExhausted
  <2>3. ASSUME NEW j \in Jobs PROVE JobKept(j)
    <3>1. audio[j] \in AudioRow BY <1>t
    <3>2. [audio[j] EXCEPT !.status = "FAILED"] \in AudioRow
      BY <3>1 DEF AudioRow, AudioStatuses
    <3>3. [audio[j] EXCEPT !.status = "FAILED"].status = "FAILED"
      BY <3>1 DEF AudioRow
    <3> QED BY <2>1, <2>2, <3>1, <3>2, <3>3 DEF JobKept, Ended
  <2> QED BY <2>2, <2>3 DEF JobKept
<1>10. ASSUME NEW w \in Workers, NEW j \in Jobs, Claim(w, j) PROVE Goal
  <2>1. audio[j].attempts + 1 \in 0..MaxProviderAttempts
    BY <1>10, <1>t, BoundsAssumption DEF Claim, ClaimableJob, Ready, AudioRow
  <2> QED BY <1>10, <1>t, <2>1
          DEF Claim, ClaimableJob, Ready, JobKept, AudioRow, AudioStatuses, Ended
<1>11. ASSUME NEW w \in Workers, CommitComplete(w) \/ CommitFail(w) PROVE Goal
  <2>1. worker[w].job \in Jobs /\ audio[worker[w].job].status = "PROCESSING"
    BY <1>11 DEF CommitComplete, CommitFail, StillProcessing, TypeInv, HoldingJobs,
                 Working, LockInv, Transaction
  <2>2. PICK status \in Ended :
          audio' = [audio EXCEPT ![worker[w].job].status = status,
                                 ![worker[w].job].stale = FALSE]
    BY <1>11 DEF CommitComplete, CommitFail, Ended
  <2> DEFINE row == [audio[worker[w].job] EXCEPT !.status = status, !.stale = FALSE]
  <2>3. audio[worker[w].job] \in AudioRow BY <1>t, <2>1
  <2>4. row \in AudioRow /\ row.status = status
    BY <2>3 DEF AudioRow, AudioStatuses, Ended
  <2>5. audio' = [audio EXCEPT ![worker[w].job] = row] BY <1>t, <2>2
  <2> HIDE DEF row
  <2> QED BY <1>2, <2>1, <2>4, <2>5 DEF Ended
<1>12. ASSUME NEW w \in Workers, Retry(w) PROVE Goal
  <2>1. worker[w].job \in Jobs
    BY <1>12 DEF Retry, TypeInv, HoldingJobs, Working
  <2> QED BY <1>12, <1>t, <2>1 DEF Retry, JobKept, AudioRow, AudioStatuses, Ended
<1>13. ASSUME NEW w \in Workers,
              \/ FailExhausted(w) \/ Requeue(w) \/ (\E j \in Jobs : DropEntry(w, j))
              \/ OpenFile(w) \/ Complete(w) \/ GiveUp(w) \/ Fail(w) \/ FailTooLate(w)
              \/ RemoveFile(w) \/ WorkerCrash(w)
       PROVE  Goal
  BY <1>1, <1>13 DEF FailExhausted, Requeue, DropEntry, OpenFile, Complete, GiveUp,
     Fail, FailTooLate, RemoveFile, WorkerCrash
<1>14. ASSUME NEW j \in Jobs, ExpireAudio(j) \/ BackoffOver(j) PROVE Goal
  <2>1. CASE ExpireAudio(j)
    <3>1. [audio[j] EXCEPT !.stale = TRUE] \in AudioRow BY <1>t DEF AudioRow
    <3> QED BY <1>2, <1>t, <2>1, <3>1 DEF ExpireAudio, AudioRow
  <2>2. CASE BackoffOver(j)
    <3>1. [audio[j] EXCEPT !.due = TRUE] \in AudioRow BY <1>t DEF AudioRow
    <3> QED BY <1>2, <1>t, <2>2, <3>1 DEF BackoffOver, AudioRow
  <2> QED BY <1>14, <2>1, <2>2
<1>15. ASSUME NEW j \in Jobs, LoseEntries(j) PROVE Goal
  BY <1>1, <1>15 DEF LoseEntries
<1>16. CASE UNCHANGED vars
  BY <1>1, <1>16 DEF vars
<1> QED
  BY <1>3, <1>4, <1>5, <1>6, <1>7, <1>8, <1>9, <1>10, <1>11, <1>12, <1>13, <1>14,
     <1>15, <1>16
     DEF Next, ProcessorWork, WorkerWork, Clock, Submitters

-------------------------------------------------------------------------------
(***************************************************************************)
(* What a step does to the messages.                                       *)
(***************************************************************************)

\* A note is linked to its job only while it is PROCESSING.
LeavesNotes ==
  /\ UNCHANGED <<inbound, reply>>
  /\ linked' \in [Notes -> BOOLEAN]
  /\ \A m \in Notes :
       /\ linked[m] => linked'[m]
       /\ linked'[m] => linked[m] \/ inbound[m].status = "PROCESSING"

\* The row of one note is written.
Writes(m, row) ==
  /\ row \in InboundRows(MaxAttempts)
  /\ inbound' = [inbound EXCEPT ![m] = row]
  /\ UNCHANGED linked

Hears(m) ==
  inbound[m].status = "ABSENT" /\ Writes(m, NewRow) /\ UNCHANGED reply

\* The note is neither heard of nor settled by the step.
Goes(m) ==
  \E row \in InboundRows(MaxAttempts) :
    /\ Writes(m, row)
    /\ row.status = "ABSENT" <=> inbound[m].status = "ABSENT"
    /\ Settled(row) <=> Settled(inbound[m])
    /\ UNCHANGED reply

Settles(m) ==
  \E row \in InboundRows(MaxAttempts), kind \in Replies \ {"none"} :
    /\ inbound[m].status # "ABSENT"
    /\ Writes(m, row) /\ Settled(row)
    /\ AddReply(m, kind)
    /\ kind \in JobKinds => linked[m] /\ audio[JobOf[m]].status = EndOf(kind)

\* A worker commits the end of its jobs and of the notes it has updated, and answers
\* all that are linked to them.
EndsJobs ==
  \E w \in Workers, kind \in JobKinds :
    /\ EndMessages(w, kind)
    /\ UNCHANGED <<linked, processor>>
    /\ \A j \in worker[w].ending :
         audio[j].status \notin Ended /\ audio'[j].status = EndOf(kind)

LEMMA CommitEnds ==
  ASSUME TypeInv, NEW w \in Workers,
         CommitExhausted(w) \/ CommitComplete(w) \/ CommitFail(w)
  PROVE  EndsJobs
<1>t. /\ audio \in [Jobs -> AudioRow] /\ Transaction(w)
      /\ worker[w].ending \in SUBSET Jobs
  BY DEF TypeInv, TypeOK, LockInv, WorkerState
<1>1. /\ UNCHANGED <<linked, processor>>
      /\ {"failed", "result", "unsupported"} \subseteq JobKinds
  BY DEF CommitExhausted, CommitComplete, CommitFail, JobKinds
<1>2. CASE CommitExhausted(w)
  <2>1. ASSUME NEW j \in worker[w].ending
        PROVE  audio[j].status \notin Ended /\ audio'[j].status = "FAILED"
    <3>1. j \in Jobs /\ audio[j].status = "PENDING" /\ audio[j] \in AudioRow
      BY <1>t, <1>2 DEF CommitExhausted, Transaction, Exhausted
    <3>2. audio'[j] = [audio[j] EXCEPT !.status = "FAILED"]
      BY <1>2, <3>1 DEF CommitExhausted
    <3> QED BY <3>1, <3>2 DEF Ended, AudioRow
  <2> QED BY <1>1, <1>2, <2>1 DEF CommitExhausted, EndsJobs, EndOf
<1>3. CASE CommitComplete(w) \/ CommitFail(w)
  <2>1. PICK j \in Jobs : /\ j = worker[w].job /\ worker[w].ending = {j}
                          /\ audio[j].status = "PROCESSING" /\ audio[j] \in AudioRow
    BY <1>t, <1>3 DEF CommitComplete, CommitFail, Transaction, StillProcessing,
                      TypeInv, HoldingJobs, Working
  <2>2. PICK kind \in JobKinds :
          /\ EndMessages(w, kind)
          /\ audio' = [audio EXCEPT ![j].status = EndOf(kind), ![j].stale = FALSE]
    BY <1>1, <1>3, <2>1 DEF CommitComplete, CommitFail, EndOf
  <2>3. audio'[j] = [audio[j] EXCEPT !.status = EndOf(kind), !.stale = FALSE]
    BY <1>t, <2>2
  <2>4. audio'[j].status = EndOf(kind) BY <2>1, <2>3 DEF AudioRow
  <2> QED BY <1>1, <2>1, <2>2, <2>4 DEF EndsJobs, Ended
<1> QED BY <1>2, <1>3

LEMMA NoteStep ==
  TypeInv /\ [Next]_vars =>
    \/ LeavesNotes \/ EndsJobs
    \/ \E m \in Notes : Hears(m) \/ Goes(m) \/ Settles(m)
<1> SUFFICES ASSUME TypeInv, [Next]_vars
             PROVE  \/ LeavesNotes \/ EndsJobs
                    \/ \E m \in Notes : Hears(m) \/ Goes(m) \/ Settles(m)
    OBVIOUS
<1>t. inbound \in [Notes -> InboundRows(MaxAttempts)]
  BY DEF TypeInv, TypeOK
<1>n. MaxAttempts \in Nat BY BoundsAssumption
<1>1. ASSUME UNCHANGED <<inbound, linked, reply>> PROVE LeavesNotes
  BY <1>1 DEF LeavesNotes, TypeInv, TypeOK
<1>2. ASSUME NEW m \in Notes, Receive(m) PROVE Hears(m)
  <2>1. NewRow \in InboundRows(MaxAttempts)
    BY <1>n DEF NewRow, InboundRows, InboundStatuses
  <2> QED BY <1>2, <2>1 DEF Receive, Hears, Writes
<1>3. ASSUME NEW m \in Notes, ExpireInbound(m) PROVE Goes(m)
  <2> DEFINE row == [inbound[m] EXCEPT !.stale = TRUE]
  <2>1. row \in InboundRows(MaxAttempts) /\ row.status = inbound[m].status
    BY <1>t DEF InboundRows
  <2>2. Settled(row) <=> Settled(inbound[m]) BY <1>t DEF Settled, InboundRows
  <2>3. inbound' = [inbound EXCEPT ![m] = row] BY <1>3, <1>t DEF ExpireInbound
  <2> QED BY <1>3, <2>1, <2>2, <2>3 DEF ExpireInbound, Goes, Writes
<1>4. ASSUME NEW p \in Processors, NEW m \in Notes, ClaimInbound(p, m) PROVE Goes(m)
  <2>1. inbound[m] \in InboundRows(MaxAttempts) BY <1>t
  <2>2. inbound[m].attempts < MaxAttempts /\ ~Settled(inbound[m])
    BY <1>4, <2>1, <1>n, RowFacts DEF ClaimInbound, Claimable, Orphaned
  <2>3. inbound[m].status # "ABSENT"
    BY <1>4 DEF ClaimInbound, Claimable, Orphaned, Waiting, Abandoned
  <2>4. /\ ClaimedRow(inbound[m]) \in InboundRows(MaxAttempts)
        /\ ~Settled(ClaimedRow(inbound[m]))
        /\ ClaimedRow(inbound[m]).status = "PROCESSING"
    BY <2>1, <2>2, <1>n, RowTypes, RowFacts
  <2> QED BY <1>4, <2>2, <2>3, <2>4 DEF ClaimInbound, Goes, Writes
<1>5. ASSUME NEW p \in Processors, RetryInbound(p)
      PROVE  \E m \in Notes : Goes(m)
  <2>1. processor[p].msg \in Notes
    BY <1>5 DEF RetryInbound, TypeInv, HoldingNotes, Busy
  <2>2. PICK m \in Notes : m = processor[p].msg BY <2>1
  <2>3. inbound[m] \in InboundRows(MaxAttempts) BY <1>t
  <2>4. /\ RetriedRow(inbound[m]) \in InboundRows(MaxAttempts)
        /\ Settled(RetriedRow(inbound[m])) <=> Settled(inbound[m])
        /\ RetriedRow(inbound[m]).status = "ABSENT" <=> inbound[m].status = "ABSENT"
    BY <2>3, <1>n, RowTypes, RowFacts
  <2> QED BY <1>5, <2>2, <2>4 DEF RetryInbound, Goes, Writes
<1>6. ASSUME NEW p \in Processors, NEW m \in Notes, ReconcileInbound(p, m)
      PROVE  Settles(m)
  <2>1. inbound[m] \in InboundRows(MaxAttempts) BY <1>t
  <2>2. inbound[m].status # "ABSENT"
    BY <1>6 DEF ReconcileInbound, Unreconciled, Reconcilable, Orphaned, Abandoned
  <2>3. Reconciled(m) \in Replies \ {"none"}
    BY ReconciledKind DEF Replies
  <2>6. Reconciled(m) \in JobKinds =>
          linked[m] /\ audio[JobOf[m]].status = EndOf(Reconciled(m))
    BY ReconciledKind
  <2>4. /\ CompletedRow(inbound[m]) \in InboundRows(MaxAttempts)
        /\ FailedRow(inbound[m]) \in InboundRows(MaxAttempts)
        /\ Settled(CompletedRow(inbound[m])) /\ Settled(FailedRow(inbound[m]))
    BY <2>1, <1>n, RowTypes, RowFacts
  <2>5. PICK row \in {CompletedRow(inbound[m]), FailedRow(inbound[m])} :
          inbound' = [inbound EXCEPT ![m] = row]
    BY <1>6, <1>t DEF ReconcileInbound
  <2> QED BY <1>6, <2>2, <2>3, <2>4, <2>5, <2>6 DEF ReconcileInbound, Settles, Writes
<1>7. ASSUME NEW p \in Processors, CompleteInbound(p)
      PROVE  \E m \in Notes : Settles(m)
  <2>1. processor[p].msg \in Notes
    BY <1>7 DEF CompleteInbound, TypeInv, HoldingNotes, Busy
  <2>2. PICK m \in Notes : m = processor[p].msg BY <2>1
  <2>3. inbound[m] \in InboundRows(MaxAttempts) BY <1>t
  <2>4. /\ CompletedRow(inbound[m]) \in InboundRows(MaxAttempts)
        /\ Settled(CompletedRow(inbound[m]))
    BY <2>3, <1>n, RowTypes, RowFacts
  <2>5. "notice" \in Replies \ {"none"} /\ "notice" \notin JobKinds
    BY DEF Replies, JobKinds
  <2> QED BY <1>7, <2>2, <2>4, <2>5 DEF CompleteInbound, Settles, Writes
<1>8. ASSUME NEW p \in Submitters, GetExisting(p) \/ Create(p) PROVE LeavesNotes
  <2>1. UNCHANGED <<inbound, reply>> /\ Linkable(p) /\ Link(p)
    BY <1>8 DEF GetExisting, Create
  <2>2. p \in Uploads => processor[p].msg \notin Notes
    BY <1>8, UploadsAssumption DEF GetExisting, Create, TypeInv, HoldingNotes, Busy
  <2> QED BY <2>1, <2>2 DEF LeavesNotes, Link, Linkable, Submitters, TypeInv, TypeOK
<1>9. ASSUME NEW p \in Submitters, Submit(p) \/ ProcessorCrash(p) PROVE LeavesNotes
  <2>1. CASE GetExisting(p) \/ Create(p) BY <1>8, <2>1
  <2>2. CASE ~(GetExisting(p) \/ Create(p))
    BY <1>1, <1>9, <2>2 DEF Submit, Refuse, FindFile, RenameFile, ProbeRefuses,
       ProbeAccepts, CreateRefused, DiscardFile, Enqueue, EnqueueFails, ProcessorCrash
  <2> QED BY <2>1, <2>2
<1>10. ASSUME NEW p \in Processors,
              NothingToReconcile(p) \/ NoInboundWork(p) \/ CompleteInboundTooLate(p)
       PROVE  LeavesNotes
  BY <1>1, <1>10 DEF NothingToReconcile, NoInboundWork, CompleteInboundTooLate
<1>11. ASSUME NEW u \in Uploads, Upload(u) PROVE LeavesNotes
  BY <1>1, <1>11 DEF Upload
<1>12. ASSUME NEW w \in Workers,
              CommitExhausted(w) \/ CommitComplete(w) \/ CommitFail(w)
       PROVE  EndsJobs
  BY <1>12, CommitEnds
<1>13. ASSUME NEW w \in Workers,
              \/ RecoverStalled(w) \/ FailExhausted(w) \/ Requeue(w) \/ OpenFile(w)
              \/ Complete(w) \/ GiveUp(w) \/ Retry(w) \/ Fail(w) \/ FailTooLate(w)
              \/ RemoveFile(w) \/ WorkerCrash(w)
              \/ \E j \in Jobs : Claim(w, j) \/ DropEntry(w, j)
       PROVE  LeavesNotes
  BY <1>1, <1>13 DEF RecoverStalled, FailExhausted, Requeue, OpenFile, Complete,
     GiveUp, Retry, Fail, FailTooLate, RemoveFile, WorkerCrash, Claim, DropEntry
<1>14. ASSUME NEW j \in Jobs, ExpireAudio(j) \/ BackoffOver(j) \/ LoseEntries(j)
       PROVE  LeavesNotes
  BY <1>1, <1>14 DEF ExpireAudio, BackoffOver, LoseEntries
<1>15. CASE UNCHANGED vars
  BY <1>1, <1>15 DEF vars
<1> QED
  BY <1>2, <1>3, <1>4, <1>5, <1>6, <1>7, <1>9, <1>10, <1>11, <1>12, <1>13, <1>14,
     <1>15
     DEF Next, ProcessorWork, WorkerWork, Clock, Submitters

LEMMA NoteTypes ==
  ASSUME TypeInv,
         \/ LeavesNotes \/ EndsJobs
         \/ \E m \in Notes : Hears(m) \/ Goes(m) \/ Settles(m)
  PROVE  /\ inbound' \in [Notes -> InboundRows(MaxAttempts)]
         /\ linked' \in [Notes -> BOOLEAN]
         /\ reply' \in [Notes -> Replies]
<1>t. /\ inbound \in [Notes -> InboundRows(MaxAttempts)]
      /\ linked \in [Notes -> BOOLEAN]
      /\ reply \in [Notes -> Replies]
  BY DEF TypeInv, TypeOK
<1>1. CASE LeavesNotes BY <1>1, <1>t DEF LeavesNotes
<1>2. CASE EndsJobs
  BY <1>2, <1>t, EndMessagesTypes DEF EndsJobs, JobKinds, Replies
<1>3. ASSUME NEW m \in Notes, Hears(m) \/ Goes(m)
      PROVE  /\ inbound' \in [Notes -> InboundRows(MaxAttempts)]
             /\ linked' = linked /\ reply' = reply
  BY <1>3, <1>t DEF Hears, Goes, Writes
<1>4. ASSUME NEW m \in Notes, Settles(m)
      PROVE  /\ inbound' \in [Notes -> InboundRows(MaxAttempts)]
             /\ linked' = linked /\ reply' \in [Notes -> Replies]
  BY <1>4, <1>t, AddReplyTypes DEF Settles, Writes
<1> QED BY <1>1, <1>2, <1>3, <1>4, <1>t

-------------------------------------------------------------------------------
\* What a step does to the directory and to the stream.

LEMMA FileTypes == TypeInv /\ [Next]_vars => files' \in SUBSET Recordings
<1> SUFFICES ASSUME TypeInv, [Next]_vars PROVE files' \in SUBSET Recordings
    OBVIOUS
<1>t. files \in SUBSET Recordings BY DEF TypeInv, TypeOK
<1>1. ASSUME NEW p \in Submitters, Submit(p) PROVE files' \in SUBSET Recordings
  <2>1. CASE RenameFile(p)
    <3>1. File(p) \in Recordings
      BY <2>1, JobOfAssumption
         DEF RenameFile, File, Job, TypeInv, HoldingNotes, Busy, Submitters
    <3> QED BY <2>1, <3>1, <1>t DEF RenameFile
  <2>2. CASE DiscardFile(p) BY <2>2, <1>t DEF DiscardFile
  <2>3. CASE ~RenameFile(p) /\ ~DiscardFile(p)
    BY <1>1, <2>3, <1>t DEF Submit, Refuse, FindFile, ProbeRefuses, ProbeAccepts,
       CreateRefused, GetExisting, Create, Enqueue, EnqueueFails
  <2> QED BY <2>1, <2>2, <2>3
<1>2. ASSUME NEW p \in Processors,
             \/ \E m \in Notes : ReconcileInbound(p, m) \/ ClaimInbound(p, m)
             \/ NothingToReconcile(p) \/ NoInboundWork(p) \/ RetryInbound(p)
             \/ CompleteInbound(p) \/ CompleteInboundTooLate(p)
      PROVE  UNCHANGED files
  BY <1>2 DEF ReconcileInbound, ClaimInbound, NothingToReconcile,
     NoInboundWork, RetryInbound, CompleteInbound, CompleteInboundTooLate
<1>3. ASSUME NEW p \in Submitters, ProcessorCrash(p) \/ Upload(p) PROVE UNCHANGED files
  BY <1>3 DEF ProcessorCrash, Upload
<1>4. ASSUME NEW m \in Notes, Receive(m) \/ ExpireInbound(m) PROVE UNCHANGED files
  BY <1>4 DEF Receive, ExpireInbound
<1>5. ASSUME NEW w \in Workers, WorkerWork(w) \/ RecoverStalled(w) \/ WorkerCrash(w)
      PROVE  files' \in SUBSET Recordings
  BY <1>5, <1>t DEF WorkerWork, RecoverStalled, FailExhausted, CommitExhausted,
     Requeue, Claim, DropEntry, OpenFile, Complete, CommitComplete, GiveUp, Retry,
     Fail, CommitFail, FailTooLate, RemoveFile, WorkerCrash
<1>6. ASSUME NEW j \in Jobs, ExpireAudio(j) \/ BackoffOver(j) \/ LoseEntries(j)
      PROVE  UNCHANGED files
  BY <1>6 DEF ExpireAudio, BackoffOver, LoseEntries
<1> QED
  BY <1>t, <1>1, <1>2, <1>3, <1>4, <1>5, <1>6
     DEF Next, ProcessorWork, Clock, Submitters, vars

LEMMA StreamTypes == TypeInv /\ [Next]_vars => stream' \in [Jobs -> 0..MaxEntries]
<1> SUFFICES ASSUME TypeInv, [Next]_vars PROVE stream' \in [Jobs -> 0..MaxEntries]
    OBVIOUS
<1> USE BoundsAssumption
<1>t. stream \in [Jobs -> 0..MaxEntries] BY DEF TypeInv, TypeOK
<1>a. \A entries \in 0..MaxEntries : Added(entries) \in 0..MaxEntries
  BY DEF Added
<1>1. ASSUME NEW p \in Submitters, Submit(p) PROVE stream' \in [Jobs -> 0..MaxEntries]
  <2>1. CASE Enqueue(p)
    BY <2>1, <1>t, <1>a DEF Enqueue
  <2>2. CASE ~Enqueue(p)
    BY <1>1, <2>2, <1>t DEF Submit, Refuse, FindFile, RenameFile, ProbeRefuses,
       ProbeAccepts, CreateRefused, GetExisting, Create, DiscardFile, EnqueueFails
  <2> QED BY <2>1, <2>2
<1>2. ASSUME NEW p \in Processors,
             \/ \E m \in Notes : ReconcileInbound(p, m) \/ ClaimInbound(p, m)
             \/ NothingToReconcile(p) \/ NoInboundWork(p) \/ RetryInbound(p)
             \/ CompleteInbound(p) \/ CompleteInboundTooLate(p)
      PROVE  UNCHANGED stream
  BY <1>2 DEF ReconcileInbound, ClaimInbound, NothingToReconcile,
     NoInboundWork, RetryInbound, CompleteInbound, CompleteInboundTooLate
<1>3. ASSUME NEW p \in Submitters, ProcessorCrash(p) \/ Upload(p) PROVE UNCHANGED stream
  BY <1>3 DEF ProcessorCrash, Upload
<1>4. ASSUME NEW m \in Notes, Receive(m) \/ ExpireInbound(m) PROVE UNCHANGED stream
  BY <1>4 DEF Receive, ExpireInbound
<1>5. ASSUME NEW w \in Workers,
             \/ Requeue(w) \/ Retry(w) \/ CommitFail(w) \/ FailTooLate(w)
             \/ WorkerCrash(w)
      PROVE  stream' \in [Jobs -> 0..MaxEntries]
  BY <1>5, <1>t, <1>a DEF Requeue, Retry, CommitFail, FailTooLate, WorkerCrash,
     Acknowledge, PutBack
<1>6. ASSUME NEW w \in Workers, NEW j \in Jobs, Claim(w, j) \/ DropEntry(w, j)
      PROVE  stream' \in [Jobs -> 0..MaxEntries]
  <2>1. stream[j] - 1 \in 0..MaxEntries BY <1>6, <1>t DEF Claim, DropEntry
  <2>2. stream' = [stream EXCEPT ![j] = stream[j] - 1]
    BY <1>6 DEF Claim, DropEntry
  <2> QED BY <2>1, <2>2, <1>t
<1>7. ASSUME NEW w \in Workers,
             \/ RecoverStalled(w) \/ FailExhausted(w) \/ CommitExhausted(w)
             \/ OpenFile(w) \/ Complete(w) \/ CommitComplete(w) \/ GiveUp(w)
             \/ Fail(w) \/ RemoveFile(w)
      PROVE  UNCHANGED stream
  BY <1>7 DEF RecoverStalled, FailExhausted, CommitExhausted, OpenFile, Complete,
     CommitComplete, GiveUp, Fail, RemoveFile
<1>8. ASSUME NEW j \in Jobs, ExpireAudio(j) \/ BackoffOver(j) \/ LoseEntries(j)
      PROVE  stream' \in [Jobs -> 0..MaxEntries]
  BY <1>8, <1>t DEF ExpireAudio, BackoffOver, LoseEntries
<1> QED
  BY <1>t, <1>1, <1>2, <1>3, <1>4, <1>5, <1>6, <1>7, <1>8
     DEF Next, ProcessorWork, WorkerWork, Clock, Submitters, vars

-------------------------------------------------------------------------------
(***************************************************************************)
(* What a step does to the open transactions of the workers.               *)
(***************************************************************************)

\* A note that is linked to a job stays linked to it.
LEMMA LinksStay ==
  TypeInv /\ [Next]_vars => \A m \in Notes : linked[m] => linked'[m]
BY NoteStep DEF LeavesNotes, EndsJobs, Hears, Goes, Settles, Writes

\* Nobody else writes the jobs that a worker has updated and not committed.
LEMMA LockedJobsStay ==
  ASSUME TypeInv, [Next]_vars, NEW w \in Workers, worker'[w] = worker[w],
         NEW j \in worker[w].ending
  PROVE  audio'[j].status = audio[j].status /\ audio'[j].attempts = audio[j].attempts
<1> DEFINE Goal == audio'[j].status = audio[j].status /\ audio'[j].attempts = audio[j].attempts
<1>t. audio \in [Jobs -> AudioRow] /\ worker \in [Workers -> WorkerState] /\ j \in Jobs
  BY DEF TypeInv, TypeOK, WorkerState
<1>0. audio[j] \in AudioRow BY <1>t
<1>l. Transaction(w) BY DEF TypeInv, LockInv
<1>k. Locked(j) BY DEF Locked
<1>s. \/ audio[j].status = "PROCESSING" /\ worker[w].ending = {j}
      \/ audio[j].status = "PENDING" /\ audio[j].attempts >= MaxProviderAttempts
  BY <1>l DEF Transaction, InTransaction, StillProcessing, Exhausted
<1>1. ASSUME audio'[j] = audio[j] PROVE Goal
  BY <1>1
<1>2. ASSUME NEW p \in Submitters, Submit(p) PROVE Goal
  <2>1. CASE Create(p)
    <3>1. Job(p) # j BY <1>s, <2>1 DEF Create
    <3> QED BY <1>1, <1>t, <2>1, <3>1 DEF Create
  <2>2. CASE ~Create(p)
    BY <1>1, <1>2, <2>2 DEF Submit, Refuse, FindFile, RenameFile, ProbeRefuses,
       ProbeAccepts, CreateRefused, GetExisting, DiscardFile, Enqueue, EnqueueFails
  <2> QED BY <2>1, <2>2
<1>3. ASSUME NEW p \in Processors,
             \/ \E m \in Notes : ReconcileInbound(p, m) \/ ClaimInbound(p, m)
             \/ NothingToReconcile(p) \/ NoInboundWork(p) \/ RetryInbound(p)
             \/ CompleteInbound(p) \/ CompleteInboundTooLate(p)
      PROVE  Goal
  BY <1>1, <1>3 DEF ReconcileInbound, ClaimInbound, NothingToReconcile,
     NoInboundWork, RetryInbound, CompleteInbound, CompleteInboundTooLate
<1>4. ASSUME NEW p \in Submitters, ProcessorCrash(p) \/ Upload(p) PROVE Goal
  BY <1>1, <1>4 DEF ProcessorCrash, Upload
<1>5. ASSUME NEW m \in Notes, Receive(m) \/ ExpireInbound(m) PROVE Goal
  BY <1>1, <1>5 DEF Receive, ExpireInbound
<1>6. ASSUME NEW v \in Workers, RecoverStalled(v) PROVE Goal
  BY <1>1, <1>6, <1>t, <1>k DEF RecoverStalled
<1>7. ASSUME NEW v \in Workers,
             CommitExhausted(v) \/ CommitComplete(v) \/ CommitFail(v)
      PROVE  Goal
  <2>1. v # w
    <3>1. worker[v].pc \in InTransaction
      BY <1>7 DEF CommitExhausted, CommitComplete, CommitFail, InTransaction
    <3>2. WorkerMoves(v)
      <4>1. WorkerMoves(v) \/ WorkerBegins(v) BY <1>7, WorkersMove
      <4>2. ~WorkerBegins(v) BY <3>1 DEF WorkerBegins, InTransaction
      <4> QED BY <4>1, <4>2
    <3>3. worker'[v].pc \notin InTransaction BY <1>t, <3>2 DEF WorkerMoves
    <3> QED BY <3>1, <3>3
  <2>2. j \notin worker[v].ending
    BY <1>l, <2>1 DEF Transaction
  <2>3. CASE CommitExhausted(v)
    BY <1>1, <1>t, <2>2, <2>3 DEF CommitExhausted
  <2>4. CASE CommitComplete(v) \/ CommitFail(v)
    <3>1. worker[v].ending = {worker[v].job}
      BY <2>4 DEF CommitComplete, CommitFail, TypeInv, LockInv, Transaction
    <3>2. worker[v].job # j BY <2>2, <3>1
    <3> QED BY <1>1, <1>t, <2>4, <3>2 DEF CommitComplete, CommitFail
  <2> QED BY <1>7, <2>3, <2>4
<1>8. ASSUME NEW v \in Workers, NEW i \in Jobs, Claim(v, i) PROVE Goal
  <2>1. i # j
    BY <1>8, <1>s, <1>0, BoundsAssumption DEF Claim, ClaimableJob, Ready, AudioRow
  <2> QED BY <1>1, <1>8, <1>t, <2>1 DEF Claim
<1>9. ASSUME NEW v \in Workers, Retry(v) PROVE Goal
  <2>1. CASE worker[v].job # j BY <1>1, <1>9, <1>t, <2>1 DEF Retry
  <2>2. CASE worker[v].job = j
    <3>1. audio[j].status # "PROCESSING" BY <1>9, <1>k, <2>2 DEF Retry, StillProcessing
    <3> QED BY <1>1, <1>9, <1>t, <2>2, <3>1 DEF Retry
  <2> QED BY <2>1, <2>2
<1>10. ASSUME NEW v \in Workers,
              \/ FailExhausted(v) \/ Requeue(v) \/ (\E i \in Jobs : DropEntry(v, i))
              \/ OpenFile(v) \/ Complete(v) \/ GiveUp(v) \/ Fail(v) \/ FailTooLate(v)
              \/ RemoveFile(v) \/ WorkerCrash(v)
       PROVE  Goal
  BY <1>1, <1>10 DEF FailExhausted, Requeue, DropEntry, OpenFile, Complete, GiveUp,
     Fail, FailTooLate, RemoveFile, WorkerCrash
<1>11. ASSUME NEW i \in Jobs, ExpireAudio(i) \/ BackoffOver(i) PROVE Goal
  BY <1>11, <1>t, <1>0 DEF ExpireAudio, BackoffOver, AudioRow
<1>12. ASSUME NEW i \in Jobs, LoseEntries(i) PROVE Goal
  BY <1>1, <1>12 DEF LoseEntries
<1>13. CASE UNCHANGED vars
  BY <1>1, <1>13 DEF vars
<1> QED
  BY <1>2, <1>3, <1>4, <1>5, <1>6, <1>7, <1>8, <1>9, <1>10, <1>11, <1>12, <1>13
     DEF Next, ProcessorWork, WorkerWork, Clock, Submitters

\* A transaction that stays open still has the rows it has updated.
LEMMA OpenStays ==
  ASSUME TypeInv, [Next]_vars, NEW w \in Workers, worker'[w] = worker[w],
         \A v \in Workers \ {w} : worker[w].ending \cap worker'[v].ending = {}
  PROVE  Transaction(w)'
<1>1. Transaction(w) BY DEF TypeInv, LockInv
<1>2. \A j \in worker[w].ending :
        audio'[j].status = audio[j].status /\ audio'[j].attempts = audio[j].attempts
  BY LockedJobsStay
<1>3. LinkedTo(worker[w].ending) \subseteq LinkedTo(worker[w].ending)'
  BY LinksStay DEF LinkedTo
<1> QED BY <1>1, <1>2, <1>3 DEF Transaction, StillProcessing, Exhausted

\* No transaction: nothing to keep.
LEMMA ClosedStays ==
  ASSUME NEW w \in Workers, worker'[w].pc \notin InTransaction,
         worker'[w].ending = {}, worker'[w].ended = {}
  PROVE  Transaction(w)'
BY DEF Transaction, InTransaction

LEMMA LockStep == TypeInv /\ [Next]_vars => LockInv'
<1> SUFFICES ASSUME TypeInv, [Next]_vars PROVE LockInv'
    OBVIOUS
<1>t. worker \in [Workers -> WorkerState] BY DEF TypeInv, TypeOK
<1>d. \A w, v \in Workers : w # v => worker[w].ending \cap worker[v].ending = {}
  BY DEF TypeInv, LockInv, Transaction
<1>1. ASSUME UNCHANGED worker PROVE LockInv'
  BY <1>1, <1>d, OpenStays DEF LockInv
<1>2. ASSUME NEW w \in Workers,
             worker'[w].pc \notin InTransaction,
             worker'[w].ending = {}, worker'[w].ended = {},
             \A v \in Workers \ {w} : worker'[v] = worker[v]
      PROVE  LockInv'
  <2>1. Transaction(w)' BY <1>2, ClosedStays
  <2>2. ASSUME NEW v \in Workers \ {w} PROVE Transaction(v)'
    <3>1. \A u \in Workers \ {v} : worker[v].ending \cap worker'[u].ending = {}
      BY <1>2, <1>d
    <3> QED BY <1>2, <3>1, OpenStays
  <2> QED BY <2>1, <2>2 DEF LockInv
<1>3. ASSUME NEW w \in Workers, WorkerMoves(w) PROVE LockInv'
  BY <1>2, <1>3, <1>t DEF WorkerMoves
<1>4. ASSUME NEW w \in Workers, WorkerBegins(w) PROVE LockInv'
  <2>1. PICK pc \in InTransaction, js \in SUBSET Jobs :
          /\ BeginEnd(w, pc, js)
          /\ \A j \in js : ~Locked(j)
          /\ IF pc = "exhausting" THEN \A j \in js : Exhausted(j)
             ELSE js = {worker[w].job} /\ StillProcessing(worker[w].job)
    BY <1>4 DEF WorkerBegins
  <2>2. UNCHANGED <<audio, linked>> BY <1>4 DEF WorkerBegins
  <2>3. /\ worker'[w] = [worker[w] EXCEPT !.pc = pc, !.ending = js, !.ended = LinkedTo(js)]
        /\ \A v \in Workers \ {w} : worker'[v] = worker[v]
    BY <1>t, <2>1 DEF BeginEnd
  <2>4. /\ worker'[w].pc = pc /\ worker'[w].ending = js /\ worker'[w].ended = LinkedTo(js)
        /\ worker'[w].job = worker[w].job
    BY <1>t, <2>3 DEF WorkerState
  <2>5. \A v \in Workers \ {w} : js \cap worker[v].ending = {}
    BY <2>1 DEF Locked
  <2>6. Transaction(w)'
    BY <2>1, <2>2, <2>3, <2>4, <2>5
       DEF Transaction, InTransaction, StillProcessing, Exhausted, LinkedTo
  <2>7. ASSUME NEW v \in Workers \ {w} PROVE Transaction(v)'
    <3>1. \A u \in Workers \ {v} : worker[v].ending \cap worker'[u].ending = {}
      BY <1>d, <2>3, <2>4, <2>5
    <3> QED BY <2>3, <3>1, OpenStays
  <2> QED BY <2>6, <2>7 DEF LockInv
<1>5. ASSUME NEW w \in Workers, NEW j \in Jobs, Claim(w, j) PROVE LockInv'
  <2>1. /\ worker'[w].pc = "open" /\ worker'[w].ending = {} /\ worker'[w].ended = {}
        /\ \A v \in Workers \ {w} : worker'[v] = worker[v]
    BY <1>5, <1>t DEF Claim, Idle
  <2> QED BY <1>2, <2>1 DEF InTransaction
<1>6. ASSUME NEW w \in Workers,
             \/ RecoverStalled(w) \/ FailExhausted(w) \/ CommitExhausted(w)
             \/ Requeue(w) \/ OpenFile(w) \/ Complete(w) \/ CommitComplete(w)
             \/ GiveUp(w) \/ Retry(w) \/ Fail(w) \/ CommitFail(w) \/ FailTooLate(w)
             \/ RemoveFile(w) \/ WorkerCrash(w)
      PROVE  LockInv'
  BY <1>3, <1>4, <1>6, WorkersMove
<1>7. ASSUME NEW w \in Workers, NEW j \in Jobs, DropEntry(w, j) PROVE LockInv'
  BY <1>1, <1>7 DEF DropEntry
<1>8. ASSUME NEW p \in Submitters, Submit(p) \/ ProcessorCrash(p) \/ Upload(p)
      PROVE  LockInv'
  BY <1>1, <1>8 DEF Submit, Refuse, FindFile, RenameFile, ProbeRefuses, ProbeAccepts,
     CreateRefused, GetExisting, Create, DiscardFile, Enqueue, EnqueueFails,
     ProcessorCrash, Upload
<1>9. ASSUME NEW p \in Processors,
             \/ \E m \in Notes : ReconcileInbound(p, m) \/ ClaimInbound(p, m)
             \/ NothingToReconcile(p) \/ NoInboundWork(p) \/ RetryInbound(p)
             \/ CompleteInbound(p) \/ CompleteInboundTooLate(p)
      PROVE  LockInv'
  BY <1>1, <1>9 DEF ReconcileInbound, ClaimInbound, NothingToReconcile,
     NoInboundWork, RetryInbound, CompleteInbound, CompleteInboundTooLate
<1>10. ASSUME NEW m \in Notes, Receive(m) \/ ExpireInbound(m) PROVE LockInv'
  BY <1>1, <1>10 DEF Receive, ExpireInbound
<1>11. ASSUME NEW j \in Jobs, ExpireAudio(j) \/ BackoffOver(j) \/ LoseEntries(j)
       PROVE  LockInv'
  BY <1>1, <1>11 DEF ExpireAudio, BackoffOver, LoseEntries
<1>12. CASE UNCHANGED vars
  BY <1>1, <1>12 DEF vars
<1> QED
  BY <1>5, <1>6, <1>7, <1>8, <1>9, <1>10, <1>11, <1>12
     DEF Next, ProcessorWork, WorkerWork, Clock, Submitters

-------------------------------------------------------------------------------

LEMMA TypeInit == Init => TypeInv
<1> SUFFICES ASSUME Init PROVE TypeInv
    OBVIOUS
<1> USE BoundsAssumption
<1>1. inbound \in [Notes -> InboundRows(MaxAttempts)]
  BY DEF Init, NoRow, InboundRows, InboundStatuses
<1>2. audio \in [Jobs -> AudioRow]
  <2>1. NewAudio \in AudioRow BY DEF NewAudio, AudioRow, AudioStatuses
  <2>2. [NewAudio EXCEPT !.status = "ABSENT"] \in AudioRow
    BY <2>1 DEF AudioRow, AudioStatuses
  <2> QED BY <2>2 DEF Init
<1>3. processor \in [Submitters -> ProcessorState] /\ HoldingNotes
  <2>1. Polling("waiting") \in ProcessorState /\ Polling("reconcile") \in ProcessorState
    BY DEF Polling, ProcessorState
  <2>2. Polling("waiting").pc \notin Busy /\ Polling("reconcile").pc \notin Busy
    BY DEF Polling, Busy
  <2> QED BY <2>1, <2>2 DEF Init, HoldingNotes, Submitters
<1>4. worker \in [Workers -> WorkerState] /\ HoldingJobs /\ LockInv
  BY DEF Init, Idle, WorkerState, HoldingJobs, Working, LockInv, Transaction,
         InTransaction
<1> QED BY <1>1, <1>2, <1>3, <1>4 DEF Init, TypeInv, TypeOK, Replies

LEMMA TypeStep == TypeInv /\ [Next]_vars => TypeInv'
<1> SUFFICES ASSUME TypeInv, [Next]_vars PROVE TypeInv'
    OBVIOUS
<1>1. /\ inbound' \in [Notes -> InboundRows(MaxAttempts)]
      /\ linked' \in [Notes -> BOOLEAN]
      /\ reply' \in [Notes -> Replies]
  BY NoteStep, NoteTypes
<1> QED
  BY <1>1, SubmitterTypes, WorkerTypes, JobStep, FileTypes, StreamTypes, LockStep
     DEF TypeInv, TypeOK

\* Type correctness: every attempt counter stays within its limit, whoever is at
\* work holds what its step needs.
THEOREM AudioTypeCorrect == Spec => []TypeOK
<1>1. TypeInv => TypeOK BY DEF TypeInv
<1> QED BY TypeInit, TypeStep, <1>1, PTL DEF Spec

\* What became of a job is never taken back, in any environment: every UPDATE that
\* could do it asks for the status it expects.
THEOREM JobEndIsFinalAlways == Spec => JobEndIsFinal
<1>1. TypeInv /\ [Next]_vars =>
        [\A j \in Jobs :
           audio[j].status \in Ended => audio'[j].status = audio[j].status]_vars
  BY JobStep DEF JobKept
<1> QED BY TypeInit, TypeStep, <1>1, PTL DEF Spec, JobEndIsFinal

-------------------------------------------------------------------------------

\* AnsweredWhenSettled for one note, and that only a note that was saved has a job.
Answered(m) ==
  /\ Settled(inbound[m]) => reply[m] # "none"
  /\ reply[m] # "none" /\ ~Settled(inbound[m]) =>
       linked[m] /\ audio[JobOf[m]].status \in Ended
  /\ linked[m] => inbound[m].status # "ABSENT"

AnsweredInv == \A m \in Notes : Answered(m)

LEMMA AnsweredInit == Init => AnsweredInv
BY DEF Init, AnsweredInv, Answered, NoRow, Settled

\* What a note was told of an ended job stays, whatever else happens to the job.
LEMMA AnswersStay ==
  ASSUME TypeInv, AnsweredInv, [Next]_vars, NEW m \in Notes, reply'[m] = reply[m],
         Settled(inbound'[m]) <=> Settled(inbound[m]),
         linked'[m] => inbound'[m].status # "ABSENT"
  PROVE  Answered(m)'
<1>1. JobOf[m] \in Jobs BY JobOfAssumption
<1>2. audio[JobOf[m]].status \in Ended => audio'[JobOf[m]].status \in Ended
  BY <1>1, JobStep DEF JobKept
<1>3. linked[m] => linked'[m] BY LinksStay
<1> QED BY <1>2, <1>3 DEF AnsweredInv, Answered

LEMMA AnsweredStep == TypeInv /\ AnsweredInv /\ [Next]_vars => AnsweredInv'
<1> SUFFICES ASSUME TypeInv, AnsweredInv, [Next]_vars PROVE AnsweredInv'
    OBVIOUS
<1>t. /\ inbound \in [Notes -> InboundRows(MaxAttempts)]
      /\ reply \in [Notes -> Replies]
  BY DEF TypeInv, TypeOK
<1>1. CASE LeavesNotes
  <2> SUFFICES ASSUME NEW m \in Notes PROVE Answered(m)'
    BY DEF AnsweredInv
  <2>1. inbound'[m] = inbound[m] /\ reply'[m] = reply[m]
    BY <1>1 DEF LeavesNotes
  <2>2. linked'[m] => inbound'[m].status # "ABSENT"
    BY <1>1 DEF LeavesNotes, AnsweredInv, Answered
  <2> QED BY <2>1, <2>2, AnswersStay
<1>2. CASE EndsJobs
  <2>1. PICK w \in Workers, kind \in JobKinds :
          /\ EndMessages(w, kind) /\ UNCHANGED linked
          /\ \A j \in worker[w].ending : audio'[j].status = EndOf(kind)
    BY <1>2 DEF EndsJobs
  <2>2. worker[w].ended \subseteq LinkedTo(worker[w].ending)
    BY DEF TypeInv, LockInv, Transaction
  <2>3. EndOf(kind) \in Ended /\ kind # "none" BY DEF JobKinds, EndOf, Ended
  <2>4. ASSUME NEW m \in LinkedTo(worker[w].ending) PROVE Answered(m)'
    <3>1. m \in Notes /\ linked'[m] /\ audio'[JobOf[m]].status \in Ended
      BY <2>1, <2>3 DEF LinkedTo
    <3>2. reply'[m] # "none" BY <2>1, <2>3, <3>1 DEF EndMessages
    <3>3. inbound'[m].status # "ABSENT"
      <4>1. inbound'[m] \in {inbound[m], EndedRow(inbound[m], kind)}
        BY <2>1, <3>1 DEF EndMessages
      <4>2. Settled(EndedRow(inbound[m], kind))
        BY <1>t, <3>1, BoundsAssumption, EndedRowFacts
      <4>3. inbound[m].status # "ABSENT" BY <2>4 DEF LinkedTo, AnsweredInv, Answered
      <4> QED BY <4>1, <4>2, <4>3 DEF Settled
    <3> QED BY <3>1, <3>2, <3>3 DEF Answered
  <2>5. ASSUME NEW m \in Notes \ LinkedTo(worker[w].ending) PROVE Answered(m)'
    <3>1. inbound'[m] = inbound[m] /\ reply'[m] = reply[m] /\ linked'[m] = linked[m]
      BY <2>1, <2>2, <2>5 DEF EndMessages
    <3> QED BY <3>1, AnswersStay DEF AnsweredInv, Answered
  <2> QED BY <2>4, <2>5 DEF AnsweredInv
<1>3. ASSUME NEW m \in Notes, Hears(m) \/ Goes(m) \/ Settles(m) PROVE AnsweredInv'
  <2>1. /\ \A n \in Notes \ {m} : inbound'[n] = inbound[n] /\ reply'[n] = reply[n]
        /\ UNCHANGED linked
    BY <1>3, <1>t, AddReplyTypes DEF Hears, Goes, Settles, Writes
  <2>2. Answered(m)'
    <3>1. CASE Hears(m)
      <4>1. /\ inbound'[m] = NewRow /\ reply'[m] = reply[m] /\ inbound[m].status = "ABSENT"
        BY <3>1, <1>t DEF Hears, Writes
      <4>2. ~Settled(inbound[m]) /\ ~Settled(NewRow) /\ NewRow.status # "ABSENT"
        BY <4>1 DEF Settled, NewRow
      <4> QED BY <4>1, <4>2, AnswersStay
    <3>2. CASE Goes(m)
      <4>1. /\ reply'[m] = reply[m]
            /\ Settled(inbound'[m]) <=> Settled(inbound[m])
            /\ inbound'[m].status = "ABSENT" <=> inbound[m].status = "ABSENT"
        BY <3>2, <1>t DEF Goes, Writes
      <4> QED BY <2>1, <4>1, AnswersStay DEF AnsweredInv, Answered
    <3>3. CASE Settles(m)
      <4>1. Settled(inbound'[m]) /\ reply'[m] # "none"
        BY <3>3, <1>t, AddReplyTypes DEF Settles, Writes
      <4> QED BY <4>1 DEF Answered, Settled
    <3> QED BY <1>3, <3>1, <3>2, <3>3
  <2>3. ASSUME NEW n \in Notes \ {m} PROVE Answered(n)'
    BY <2>1, <2>3, AnswersStay DEF AnsweredInv, Answered
  <2> QED BY <2>2, <2>3 DEF AnsweredInv
<1> QED BY <1>1, <1>2, <1>3, NoteStep

\* A voice note that nobody will pick up again has a reply, although two services
\* settle notes and one of them never looks at their status.  One that has a reply
\* before is linked to a job that has ended, and is left to ReconcileInbound.
THEOREM AudioAnsweredWhenSettled == Spec => []AnsweredWhenSettled
<1>1. AnsweredInv => AnsweredWhenSettled
  BY DEF AnsweredInv, Answered, AnsweredWhenSettled, JobStatus
<1> QED BY TypeInit, TypeStep, AnsweredInit, AnsweredStep, <1>1, PTL DEF Spec

\* What a note is told of its job is what the job came to.
TrueInv ==
  \A m \in Notes :
    reply[m] \in JobKinds => linked[m] /\ audio[JobOf[m]].status = EndOf(reply[m])

LEMMA TrueStep == TypeInv /\ TrueInv /\ [Next]_vars => TrueInv'
<1> SUFFICES ASSUME TypeInv, TrueInv, [Next]_vars, NEW m \in Notes,
                    reply'[m] \in JobKinds
             PROVE  linked'[m] /\ audio'[JobOf[m]].status = EndOf(reply'[m])
    BY DEF TrueInv
<1>k. JobOf[m] \in Jobs /\ \A kind \in JobKinds : EndOf(kind) \in Ended
  BY JobOfAssumption DEF JobKinds, EndOf, Ended
<1>1. ASSUME linked[m], audio[JobOf[m]].status = EndOf(reply'[m])
      PROVE  linked'[m] /\ audio'[JobOf[m]].status = EndOf(reply'[m])
  BY <1>1, <1>k, LinksStay, JobStep DEF JobKept
<1>2. CASE reply'[m] = reply[m]
  BY <1>1, <1>2 DEF TrueInv
<1>3. CASE reply'[m] # reply[m]
  <2>1. CASE EndsJobs
    BY <1>3, <2>1 DEF EndsJobs, EndMessages, LinkedTo
  <2>2. ASSUME NEW n \in Notes, Settles(n)
        PROVE  linked[m] /\ audio[JobOf[m]].status = EndOf(reply'[m])
    <3>1. reply \in [Notes -> Replies] BY DEF TypeInv, TypeOK
    <3>2. n = m
      BY <1>3, <2>2, <3>1, AddReplyTypes DEF Settles
    <3> QED BY <1>3, <2>2, <3>1, <3>2, AddReplyTypes DEF Settles
  <2> QED BY <1>1, <1>3, <2>1, <2>2, NoteStep DEF LeavesNotes, Hears, Goes
<1> QED BY <1>2, <1>3

\* In every environment a note is told of a result, of an unsupported language or of
\* a failed job only if that is what its job came to.
THEOREM AudioRepliesAreTrue == Spec => []RepliesAreTrue
<1>1. Init => TrueInv BY DEF Init, TrueInv, JobKinds
<1>2. TrueInv => RepliesAreTrue
  BY DEF TrueInv, JobKinds, EndOf, RepliesAreTrue, JobStatus
<1> QED BY TypeInit, TypeStep, TrueStep, <1>1, <1>2, PTL DEF Spec

-------------------------------------------------------------------------------
(***************************************************************************)
(* AudioPipeline implements OneAnswer.                                     *)
(***************************************************************************)

\* The refinement mapping: the stage of every note.
Stage ==
  [m \in Notes |->
     IF inbound[m].status = "ABSENT" THEN "unheard"
     ELSE IF Settled(inbound[m]) THEN "closed" ELSE "open"]

Stutter == UNCHANGED <<Stage, reply>>

LEMMA RefinementStep ==
  TypeInv /\ AnsweredInv /\ [Next]_vars => Promise!Next \/ Stutter
<1> SUFFICES ASSUME TypeInv, AnsweredInv, [Next]_vars PROVE Promise!Next \/ Stutter
    OBVIOUS
<1>t. /\ inbound \in [Notes -> InboundRows(MaxAttempts)]
      /\ reply \in [Notes -> Replies]
  BY DEF TypeInv, TypeOK
<1>1. CASE LeavesNotes
  BY <1>1 DEF LeavesNotes, Stutter, Stage
<1>2. CASE EndsJobs
  <2>1. PICK w \in Workers, kind \in JobKinds : EndMessages(w, kind)
    BY <1>2 DEF EndsJobs
  <2> DEFINE waiting == LinkedTo(worker[w].ending)
  <2>2. worker[w].ended \subseteq waiting /\ waiting \subseteq Notes
    BY DEF TypeInv, LockInv, Transaction, LinkedTo
  <2>3. kind \in Replies \ {"none"} BY DEF JobKinds, Replies
  <2>4. PICK answered \in SUBSET Notes : answered = {m \in waiting : reply[m] = "none"}
    BY <2>2
  <2>5. PICK closed \in SUBSET Notes :
          closed = {m \in worker[w].ended : ~Settled(inbound[m])}
    BY <2>2
  <2>6. \A m \in waiting : inbound[m].status # "ABSENT"
    BY DEF LinkedTo, AnsweredInv, Answered
  <2>7. \A m \in answered : Stage[m] = "open" /\ reply[m] = "none"
    BY <2>2, <2>4, <2>6 DEF Stage, AnsweredInv, Answered
  <2>8. \A m \in closed : Stage[m] = "open" /\ (m \in answered \/ reply[m] # "none")
    BY <2>2, <2>4, <2>5, <2>6 DEF Stage
  <2>9. \A m \in Notes : Stage'[m] = IF m \in closed THEN "closed" ELSE Stage[m]
    <3> SUFFICES ASSUME NEW m \in Notes
                 PROVE  Stage'[m] = IF m \in closed THEN "closed" ELSE Stage[m]
      OBVIOUS
    <3>1. CASE m \notin worker[w].ended
      BY <2>1, <2>5, <3>1 DEF EndMessages, Stage
    <3>2. CASE m \in worker[w].ended
      <4>1. inbound'[m] = EndedRow(inbound[m], kind) BY <2>1, <3>2 DEF EndMessages
      <4>2. Settled(inbound'[m]) BY <1>t, <4>1, BoundsAssumption, EndedRowFacts
      <4>3. Stage'[m] = "closed" BY <4>2 DEF Stage, Settled
      <4>4. Settled(inbound[m]) => Stage[m] = "closed" BY DEF Stage, Settled
      <4> QED BY <2>5, <3>2, <4>3, <4>4
    <3> QED BY <3>1, <3>2
  <2>10. Stage' = [m \in Notes |-> IF m \in closed THEN "closed" ELSE Stage[m]]
    BY <2>9 DEF Stage
  <2>11. reply' = [m \in Notes |-> IF m \in answered THEN kind ELSE reply[m]]
    BY <2>1, <2>2, <2>4 DEF EndMessages
  <2>12. Promise!Settle(answered, closed)
    BY <2>3, <2>7, <2>8, <2>10, <2>11 DEF Promise!Settle, Stage
  <2> QED BY <2>12 DEF Promise!Next
<1>3. ASSUME NEW m \in Notes, Hears(m) PROVE Promise!Next
  <2>1. Stage[m] = "unheard" /\ Stage'[m] = "open" /\ UNCHANGED reply
    BY <1>3, <1>t DEF Hears, Writes, NewRow, Stage, Settled
  <2>2. \A n \in Notes \ {m} : Stage'[n] = Stage[n]
    BY <1>3, <1>t DEF Hears, Writes, Stage
  <2>3. Stage' = [Stage EXCEPT ![m] = "open"]
    BY <2>1, <2>2 DEF Stage
  <2> QED BY <2>1, <2>3 DEF Promise!Next, Promise!Hear, Stage
<1>4. ASSUME NEW m \in Notes, Goes(m) PROVE Stutter
  BY <1>4, <1>t DEF Goes, Writes, Stutter, Stage
<1>5. ASSUME NEW m \in Notes, Settles(m) PROVE Promise!Next \/ Stutter
  <2>1. PICK row \in InboundRows(MaxAttempts), kind \in Replies \ {"none"} :
          /\ inbound[m].status # "ABSENT"
          /\ Writes(m, row) /\ Settled(row)
          /\ AddReply(m, kind)
    BY <1>5 DEF Settles
  <2>2. Stage'[m] = "closed" BY <2>1, <1>t DEF Writes, Stage, Settled
  <2>3. \A n \in Notes \ {m} : Stage'[n] = Stage[n] BY <2>1, <1>t DEF Writes, Stage
  <2>4. CASE Settled(inbound[m])
    <3>1. reply' = reply BY <2>1, <2>4 DEF AddReply, AnsweredInv, Answered
    <3>2. Stage[m] = "closed" BY <2>1, <2>4 DEF Stage
    <3> QED BY <2>2, <2>3, <3>1, <3>2 DEF Stutter, Stage
  <2>5. CASE ~Settled(inbound[m])
    <3>1. PICK answered \in SUBSET Notes :
            answered = {n \in {m} : reply[n] = "none"}
      OBVIOUS
    <3>2. reply' = [n \in Notes |-> IF n \in answered THEN kind ELSE reply[n]]
      BY <2>1, <3>1, <1>t DEF AddReply
    <3>3. Stage[m] = "open" BY <2>1, <2>5 DEF Stage
    <3>4. Stage' = [n \in Notes |-> IF n \in {m} THEN "closed" ELSE Stage[n]]
      BY <2>2, <2>3 DEF Stage
    <3>5. Promise!Settle(answered, {m})
      BY <3>1, <3>2, <3>3, <3>4 DEF Promise!Settle, Stage
    <3> QED BY <3>5 DEF Promise!Next
  <2> QED BY <2>4, <2>5
<1> QED BY <1>1, <1>2, <1>3, <1>4, <1>5, NoteStep

\* Every voice note is answered once, no note is settled without an answer, and no
\* answer is taken back: AudioPipeline implements OneAnswer in every environment.
THEOREM AudioImplementsOneAnswer == Spec => ImplementsOneAnswer
<1>1. Init => Promise!Init
  BY DEF Init, Promise!Init, NoRow
<1>2. TypeInv /\ AnsweredInv /\ [Next]_vars => [Promise!Next]_<<Stage, reply>>
  BY RefinementStep DEF Stutter
<1>3. ImplementsOneAnswer <=> Promise!Init /\ [][Promise!Next]_<<Stage, reply>>
  BY DEF ImplementsOneAnswer, Promise!Spec, Stage
<1> QED BY TypeInit, TypeStep, AnsweredInit, AnsweredStep, <1>1, <1>2, <1>3, PTL
        DEF Spec

-------------------------------------------------------------------------------
(***************************************************************************)
(* The workers.  One lemma says what a step can do to a job and to those   *)
(* who hold it; two invariants follow from its cases.                      *)
(***************************************************************************)

\* Nobody takes the job, who keeps it keeps its attempt, and who is about to fail a
\* job that is over does not go on.
NobodyTakes(j) ==
  \A w \in Workers : HoldsJob(w, j)' =>
    HoldsJob(w, j) /\ worker'[w].attempts = worker[w].attempts

NobodyFails(j) ==
  \A w \in Workers :
    HoldsJob(w, j)' /\ worker[w].pc = "fail" /\ audio[j].status # "PROCESSING" =>
      worker'[w].pc = "fail"

\* All of a row but next_attempt_at.
SameRow(j) ==
  /\ audio'[j].status = audio[j].status
  /\ audio'[j].attempts = audio[j].attempts
  /\ audio'[j].stale = audio[j].stale

\* By recover_pending, to a job that is left to it.
Recovered(j) ==
  /\ Exhausted(j) \/ (audio[j].status = "PROCESSING" /\ audio[j].stale)
  /\ audio'[j].status \in {"PENDING", "FAILED"}
  /\ audio'[j].attempts = audio[j].attempts

\* By a worker at the end of an attempt.  It lets go of the job, unless it is told
\* that it did not end it.
WrittenBy(w, j) ==
  /\ HoldsJob(w, j) /\ audio[j].status = "PROCESSING"
  /\ audio'[j].status \in {"PENDING"} \union Ended
  /\ audio'[j].attempts = audio[j].attempts
  /\ \/ ~HoldsJob(w, j)'
     \/ w \in LostAcks /\ worker'[w].pc = "fail" /\ audio'[j].status \in Ended

GrownStale(j) ==
  /\ audio[j].status = "PROCESSING" /\ audio'[j].status = "PROCESSING"
  /\ audio'[j].attempts = audio[j].attempts
  /\ \A w \in Workers \ Late : ~HoldsJob(w, j)

HoldersStep(j) ==
  \/ \E w \in Workers : Claim(w, j)
  \/ /\ NobodyTakes(j) /\ NobodyFails(j)
     /\ SameRow(j) \/ audio[j].status = "ABSENT" \/ Recovered(j) \/ GrownStale(j)
  \/ NobodyTakes(j) /\ \E w \in Workers : WrittenBy(w, j)

\* A worker that goes back to the stream lets go of its job.
LEMMA LetGo ==
  ASSUME TypeInv, NEW w \in Workers,
         \/ \E pc \in {"recover", "exhaust", "requeue", "read"} :
              worker' = [worker EXCEPT ![w] = Idle(pc)]
         \/ worker' = [worker EXCEPT ![w].pc = "remove", ![w].ending = {},
                                     ![w].ended = {}],
         NEW v \in Workers, NEW j \in Jobs, HoldsJob(v, j)'
  PROVE  v # w /\ HoldsJob(v, j) /\ worker'[v] = worker[v]
<1>1. worker \in [Workers -> WorkerState] BY DEF TypeInv, TypeOK
<1>2. worker'[w].pc \in {"recover", "exhaust", "requeue", "read", "remove"}
  <2>1. CASE \E pc \in {"recover", "exhaust", "requeue", "read"} :
               worker' = [worker EXCEPT ![w] = Idle(pc)]
    BY <1>1, <2>1 DEF Idle
  <2>2. CASE worker' = [worker EXCEPT ![w].pc = "remove", ![w].ending = {},
                                      ![w].ended = {}]
    BY <1>1, <2>2 DEF WorkerState
  <2> QED BY <2>1, <2>2
<1>3. \A u \in Workers \ {w} : worker'[u] = worker[u] BY <1>1
<1> QED BY <1>2, <1>3 DEF HoldsJob

\* A worker's write, at the end of an attempt.
LEMMA WorkerWrites ==
  ASSUME TypeInv, NEW w \in Workers, CommitComplete(w) \/ Retry(w) \/ CommitFail(w),
         NEW j \in Jobs
  PROVE  HoldersStep(j)
<1>t. audio \in [Jobs -> AudioRow] /\ worker \in [Workers -> WorkerState]
  BY DEF TypeInv, TypeOK
<1>0. audio[j] \in AudioRow BY <1>t
<1>p. CommitComplete(w) \/ CommitFail(w) => audio[worker[w].job].status = "PROCESSING"
  BY DEF CommitComplete, CommitFail, TypeInv, LockInv, Transaction, StillProcessing
<1>h. worker[w].pc \in {"completing", "provider", "failing"}
  BY DEF CommitComplete, Retry, CommitFail
<1>w. /\ audio[j].status = "PROCESSING" /\ j = worker[w].job =>
           /\ audio'[j].status \in {"PENDING"} \union Ended
           /\ audio'[j].attempts = audio[j].attempts
           /\ ~Retry(w) => audio'[j].status \in Ended
      /\ audio[j].status # "PROCESSING" \/ j # worker[w].job => audio'[j] = audio[j]
  <2>1. CASE CommitComplete(w) \/ CommitFail(w)
    <3>1. PICK status \in Ended :
            audio' = [audio EXCEPT ![worker[w].job].status = status,
                                   ![worker[w].job].stale = FALSE]
      BY <2>1 DEF CommitComplete, CommitFail, Ended
    <3>2. j = worker[w].job =>
            audio'[j] = [audio[j] EXCEPT !.status = status, !.stale = FALSE]
      BY <1>t, <3>1
    <3>3. j # worker[w].job => audio'[j] = audio[j] BY <1>t, <3>1
    <3>4. j = worker[w].job =>
            audio'[j].status = status /\ audio'[j].attempts = audio[j].attempts
      BY <1>0, <3>2 DEF AudioRow
    <3> QED BY <1>p, <2>1, <3>3, <3>4
  <2>2. CASE Retry(w)
    <3>1. j = worker[w].job /\ audio[j].status = "PROCESSING" =>
            audio'[j] = [audio[j] EXCEPT !.status = "PENDING", !.due = FALSE,
                                         !.stale = FALSE]
      BY <1>t, <2>2 DEF Retry
    <3>2. j # worker[w].job \/ audio[j].status # "PROCESSING" => audio'[j] = audio[j]
      BY <1>t, <2>2 DEF Retry
    <3> QED BY <1>0, <2>2, <3>1, <3>2 DEF AudioRow
  <2> QED BY <2>1, <2>2
<1>1. CASE /\ CommitComplete(w) /\ w \in LostAcks
           /\ worker' = [worker EXCEPT ![w].pc = "fail", ![w].ending = {},
                                       ![w].ended = {}]
  <2>1. worker[w].pc = "completing" BY <1>1 DEF CommitComplete
  <2>2. /\ worker'[w].pc = "fail" /\ worker'[w].job = worker[w].job
        /\ worker'[w].attempts = worker[w].attempts
        /\ \A v \in Workers \ {w} : worker'[v] = worker[v]
    BY <1>1, <1>t DEF WorkerState
  <2>3. NobodyTakes(j) /\ NobodyFails(j)
    BY <2>1, <2>2 DEF NobodyTakes, NobodyFails, HoldsJob
  <2>4. CASE j # worker[w].job
    BY <1>w, <2>3, <2>4 DEF HoldersStep, SameRow
  <2>5. CASE j = worker[w].job
    <3>1. HoldsJob(w, j) /\ audio[j].status = "PROCESSING" /\ ~Retry(w)
      BY <1>1, <1>p, <2>1, <2>5 DEF HoldsJob, Retry
    <3> QED BY <1>1, <1>w, <2>2, <2>3, <2>5, <3>1 DEF HoldersStep, WrittenBy
  <2> QED BY <2>4, <2>5
<1>2. CASE \/ \E pc \in {"recover", "exhaust", "requeue", "read"} :
                worker' = [worker EXCEPT ![w] = Idle(pc)]
           \/ worker' = [worker EXCEPT ![w].pc = "remove", ![w].ending = {},
                                       ![w].ended = {}]
  <2>1. NobodyTakes(j) /\ NobodyFails(j) /\ ~HoldsJob(w, j)'
    BY <1>2, LetGo DEF NobodyTakes, NobodyFails
  <2>2. CASE j # worker[w].job \/ audio[j].status # "PROCESSING"
    BY <1>w, <2>1, <2>2 DEF HoldersStep, SameRow
  <2>3. CASE j = worker[w].job /\ audio[j].status = "PROCESSING"
    <3>1. HoldsJob(w, j) BY <1>h, <2>3 DEF HoldsJob
    <3> QED BY <1>w, <2>1, <2>3, <3>1 DEF HoldersStep, WrittenBy
  <2> QED BY <2>2, <2>3
<1> QED
  BY <1>1, <1>2 DEF CommitComplete, Retry, CommitFail, Acknowledge, PutBack

LEMMA HoldersStepLemma ==
  ASSUME TypeInv, [Next]_vars, NEW j \in Jobs
  PROVE  HoldersStep(j)
<1>t. audio \in [Jobs -> AudioRow] /\ worker \in [Workers -> WorkerState]
  BY DEF TypeInv, TypeOK
<1>w. ASSUME UNCHANGED worker PROVE NobodyTakes(j) /\ NobodyFails(j)
  BY <1>w DEF NobodyTakes, NobodyFails, HoldsJob
<1>1. ASSUME UNCHANGED <<audio, worker>> PROVE HoldersStep(j)
  BY <1>1, <1>w DEF HoldersStep, SameRow
<1>2. ASSUME NEW p \in Submitters, Submit(p) PROVE HoldersStep(j)
  <2>1. CASE Create(p)
    <3>1. UNCHANGED worker /\ (audio'[j] = audio[j] \/ audio[j].status = "ABSENT")
      BY <2>1, <1>t DEF Create
    <3> QED BY <3>1, <1>w DEF HoldersStep, SameRow
  <2>2. CASE ~Create(p)
    BY <1>1, <1>2, <2>2 DEF Submit, Refuse, FindFile, RenameFile, ProbeRefuses,
       ProbeAccepts, CreateRefused, GetExisting, DiscardFile, Enqueue, EnqueueFails
  <2> QED BY <2>1, <2>2
<1>3. ASSUME NEW p \in Processors,
             \/ \E m \in Notes : ReconcileInbound(p, m) \/ ClaimInbound(p, m)
             \/ NothingToReconcile(p) \/ NoInboundWork(p) \/ RetryInbound(p)
             \/ CompleteInbound(p) \/ CompleteInboundTooLate(p)
      PROVE  HoldersStep(j)
  BY <1>1, <1>3 DEF ReconcileInbound, ClaimInbound, NothingToReconcile,
     NoInboundWork, RetryInbound, CompleteInbound, CompleteInboundTooLate
<1>4. ASSUME NEW p \in Submitters, ProcessorCrash(p) \/ Upload(p) PROVE HoldersStep(j)
  BY <1>1, <1>4 DEF ProcessorCrash, Upload
<1>5. ASSUME NEW m \in Notes, Receive(m) \/ ExpireInbound(m) PROVE HoldersStep(j)
  BY <1>1, <1>5 DEF Receive, ExpireInbound
<1>6. ASSUME NEW w \in Workers, RecoverStalled(w) \/ CommitExhausted(w)
      PROVE  HoldersStep(j)
  <2>1. NobodyTakes(j) /\ NobodyFails(j)
    BY <1>6, LetGo DEF RecoverStalled, CommitExhausted, NobodyTakes, NobodyFails
  <2>0. audio[j] \in AudioRow BY <1>t
  <2>2. audio'[j] = audio[j] \/ Recovered(j)
    <3>1. CASE RecoverStalled(w)
      BY <2>0, <3>1 DEF RecoverStalled, Stalled, Recovered, AudioRow
    <3>2. CASE CommitExhausted(w)
      <4>1. audio'[j] = IF j \in worker[w].ending
                        THEN [audio[j] EXCEPT !.status = "FAILED"] ELSE audio[j]
        BY <3>2 DEF CommitExhausted
      <4>2. j \in worker[w].ending => Exhausted(j)
        BY <3>2 DEF CommitExhausted, TypeInv, LockInv, Transaction
      <4> QED BY <2>0, <4>1, <4>2 DEF Recovered, AudioRow
    <3> QED BY <1>6, <3>1, <3>2
  <2> QED BY <2>1, <2>2 DEF HoldersStep, SameRow
<1>7. ASSUME NEW w \in Workers, NEW i \in Jobs, Claim(w, i) PROVE HoldersStep(j)
  <2>1. CASE i = j BY <1>7, <2>1 DEF HoldersStep
  <2>2. CASE i # j
    <3>1. audio'[j] = audio[j] BY <1>7, <1>t, <2>2 DEF Claim
    <3>2. NobodyTakes(j) /\ NobodyFails(j)
      BY <1>7, <1>t, <2>2 DEF Claim, Idle, NobodyTakes, NobodyFails, HoldsJob
    <3> QED BY <3>1, <3>2 DEF HoldersStep, SameRow
  <2> QED BY <2>1, <2>2
<1>8. ASSUME NEW w \in Workers,
             OpenFile(w) \/ GiveUp(w) \/ FailExhausted(w) \/ Complete(w) \/ Fail(w)
      PROVE  HoldersStep(j)
  <2>1. CASE OpenFile(w) \/ GiveUp(w)
    <3>1. NobodyTakes(j) /\ NobodyFails(j)
      BY <2>1, <1>t DEF OpenFile, GiveUp, NobodyTakes, NobodyFails, HoldsJob, WorkerState
    <3> QED BY <2>1, <3>1 DEF OpenFile, GiveUp, HoldersStep, SameRow
  <2>2. CASE WorkerBegins(w)
    <3>1. PICK pc \in InTransaction, js \in SUBSET Jobs :
            /\ BeginEnd(w, pc, js)
            /\ pc # "exhausting" => worker[w].pc \in {"provider", "fail"}
            /\ worker[w].pc = "fail" => StillProcessing(worker[w].job)
      BY <2>2 DEF WorkerBegins
    <3>2. worker'[w] = [worker[w] EXCEPT !.pc = pc, !.ending = js, !.ended = LinkedTo(js)]
      BY <1>t, <3>1 DEF BeginEnd
    <3>3. /\ worker'[w].pc = pc /\ worker'[w].job = worker[w].job
          /\ worker'[w].attempts = worker[w].attempts
          /\ \A v \in Workers \ {w} : worker'[v] = worker[v]
      BY <1>t, <3>1, <3>2 DEF BeginEnd, WorkerState
    <3>4. NobodyTakes(j) /\ NobodyFails(j)
      BY <3>1, <3>3
         DEF NobodyTakes, NobodyFails, HoldsJob, InTransaction, StillProcessing
    <3> QED BY <2>2, <3>4 DEF WorkerBegins, HoldersStep, SameRow
  <2>3. CASE FailExhausted(w) /\ WorkerMoves(w)
    <3>1. worker'[w].pc \notin InTransaction BY <1>t, <2>3 DEF WorkerMoves
    <3>2. worker' = [worker EXCEPT ![w] = Idle("requeue")]
      <4>1. \A js : ~BeginEnd(w, "exhausting", js)
        <5> SUFFICES ASSUME NEW js, BeginEnd(w, "exhausting", js) PROVE FALSE
          OBVIOUS
        <5>1. worker'[w].pc = "exhausting" BY <1>t DEF BeginEnd, WorkerState
        <5> QED BY <3>1, <5>1 DEF InTransaction
      <4> QED BY <2>3, <4>1 DEF FailExhausted
    <3>3. NobodyTakes(j) /\ NobodyFails(j)
      BY <3>2, LetGo DEF NobodyTakes, NobodyFails
    <3> QED BY <2>3, <3>3 DEF FailExhausted, HoldersStep, SameRow
  <2>4. CASE (Complete(w) \/ Fail(w)) /\ ~WorkerBegins(w)
    <3>1. WorkerMoves(w) BY <2>4, WorkersMove
    <3>2. worker'[w].pc \notin InTransaction BY <1>t, <3>1 DEF WorkerMoves
    <3>3. \E js : BeginEnd(w, "completing", js) \/ BeginEnd(w, "failing", js)
      BY <2>4 DEF Complete, Fail
    <3>4. worker'[w].pc \in {"completing", "failing"}
      BY <1>t, <3>3 DEF BeginEnd, WorkerState
    <3> QED BY <3>2, <3>4 DEF InTransaction
  <2> QED BY <1>8, <2>1, <2>2, <2>3, <2>4, WorkersMove
<1>9. ASSUME NEW w \in Workers,
             Requeue(w) \/ FailTooLate(w) \/ RemoveFile(w) \/ WorkerCrash(w)
      PROVE  HoldersStep(j)
  <2>1. NobodyTakes(j) /\ NobodyFails(j)
    BY <1>9, LetGo DEF Requeue, FailTooLate, RemoveFile, WorkerCrash, PutBack,
       NobodyTakes, NobodyFails
  <2> QED BY <1>9, <2>1 DEF Requeue, FailTooLate, RemoveFile, WorkerCrash,
          HoldersStep, SameRow
<1>10. ASSUME NEW i \in Jobs, ExpireAudio(i) \/ BackoffOver(i) PROVE HoldersStep(j)
  <2>1. ExpireAudio(i) => SameRow(j) \/ GrownStale(j)
    <3> SUFFICES ASSUME ExpireAudio(i) PROVE SameRow(j) \/ GrownStale(j)
      OBVIOUS
    <3>0. audio[j] \in AudioRow BY <1>t
    <3>1. CASE i = j
      <4>1. audio'[j] = [audio[j] EXCEPT !.stale = TRUE]
        BY <1>t, <3>1 DEF ExpireAudio
      <4> QED BY <3>0, <3>1, <4>1 DEF ExpireAudio, GrownStale, AudioRow
    <3>2. CASE i # j
      BY <1>t, <3>2 DEF ExpireAudio, SameRow
    <3> QED BY <3>1, <3>2
  <2>2. BackoffOver(i) => SameRow(j)
    BY <1>t DEF BackoffOver, SameRow, AudioRow
  <2>3. UNCHANGED worker BY <1>10 DEF ExpireAudio, BackoffOver
  <2> QED BY <1>10, <1>w, <2>1, <2>2, <2>3 DEF HoldersStep
<1>11. ASSUME NEW i \in Jobs,
              LoseEntries(i) \/ \E w \in Workers : DropEntry(w, i)
       PROVE  HoldersStep(j)
  BY <1>1, <1>11 DEF LoseEntries, DropEntry
<1>12. CASE UNCHANGED vars
  BY <1>1, <1>12 DEF vars
<1> QED
  BY <1>2, <1>3, <1>4, <1>5, <1>6, <1>7, <1>8, <1>9, <1>10, <1>11, <1>12,
     WorkerWrites
     DEF Next, ProcessorWork, WorkerWork, Clock, Submitters

\* What a claim makes of the row and of the worker.
LEMMA ClaimTakes ==
  ASSUME TypeInv, NEW w \in Workers, NEW j \in Jobs, Claim(w, j)
  PROVE  /\ audio[j].status = "PENDING"
         /\ audio'[j].status = "PROCESSING" /\ ~audio'[j].stale
         /\ audio'[j].attempts = audio[j].attempts + 1
         /\ worker'[w].attempts = audio[j].attempts + 1
         /\ \A v \in Workers \ {w} :
              HoldsJob(v, j)' => HoldsJob(v, j) /\ worker'[v] = worker[v]
BY DEF Claim, ClaimableJob, Ready, Idle, HoldsJob, TypeInv, TypeOK, AudioRow

\* Who holds a job counted its attempt when nobody else had; the row has counted
\* them all.
Counted(j) ==
  \A w \in Workers : HoldsJob(w, j) =>
    /\ audio[j].status # "ABSENT"
    /\ worker[w].attempts <= audio[j].attempts
    /\ \A v \in Workers \ {w} :
         HoldsJob(v, j) => worker[v].attempts # worker[w].attempts

CountedInv == \A j \in Jobs : Counted(j)

LEMMA CountedStep == TypeInv /\ CountedInv /\ [Next]_vars => CountedInv'
<1> SUFFICES ASSUME TypeInv, CountedInv, [Next]_vars, NEW j \in Jobs
             PROVE  Counted(j)'
    BY DEF CountedInv
<1>1. Counted(j) BY DEF CountedInv
<1>2. ASSUME NEW w \in Workers, Claim(w, j) PROVE Counted(j)'
  <2>1. /\ audio'[j].status = "PROCESSING"
        /\ audio'[j].attempts = audio[j].attempts + 1
        /\ worker'[w].attempts = audio[j].attempts + 1
        /\ \A v \in Workers \ {w} :
             HoldsJob(v, j)' => HoldsJob(v, j) /\ worker'[v] = worker[v]
    BY <1>2, ClaimTakes
  <2>2. audio[j].attempts \in Nat /\ \A v \in Workers : worker[v].attempts \in Nat
    BY BoundsAssumption DEF TypeInv, TypeOK, AudioRow, WorkerState
  <2>3. \A v \in Workers \ {w} : HoldsJob(v, j)' =>
          worker'[v].attempts <= audio[j].attempts /\ worker'[v].attempts \in Nat
    BY <1>1, <2>1, <2>2 DEF Counted
  <2>4. \A v, u \in Workers \ {w} : v # u /\ HoldsJob(v, j)' /\ HoldsJob(u, j)' =>
          worker'[v].attempts # worker'[u].attempts
    BY <1>1, <2>1 DEF Counted
  <2> QED BY <2>1, <2>2, <2>3, <2>4 DEF Counted
<1>3. ASSUME NobodyTakes(j), audio[j].status = "ABSENT" PROVE Counted(j)'
  BY <1>1, <1>3 DEF Counted, NobodyTakes
<1>4. ASSUME NobodyTakes(j), audio'[j].attempts = audio[j].attempts,
             audio[j].status # "ABSENT" => audio'[j].status # "ABSENT"
      PROVE  Counted(j)'
  BY <1>1, <1>4 DEF Counted, NobodyTakes
<1>5. audio[j].status # "ABSENT" => audio'[j].status # "ABSENT"
  BY JobStep DEF JobKept
<1>6. SameRow(j) \/ Recovered(j) \/ GrownStale(j) \/ (\E w \in Workers : WrittenBy(w, j))
        => audio'[j].attempts = audio[j].attempts
  BY DEF SameRow, Recovered, GrownStale, WrittenBy
<1> QED BY <1>2, <1>3, <1>4, <1>5, <1>6, HoldersStepLemma DEF HoldersStep

\* In every environment no attempt at a recording is made by two workers.
THEOREM AudioAttemptsMadeOnce == Spec => []AttemptsMadeOnce
<1>1. Init => CountedInv
  BY DEF Init, CountedInv, Counted, HoldsJob, Idle
<1>2. CountedInv => AttemptsMadeOnce
  BY DEF CountedInv, Counted, AttemptsMadeOnce
<1> QED BY TypeInit, TypeStep, CountedStep, <1>1, <1>2, PTL DEF Spec

\* No worker is late: the one that holds a job is the only one, and nothing has
\* happened to the row since it was claimed, unless the worker ended it itself and
\* was told that it did not.
Exclusive(j) ==
  \A w \in Workers : HoldsJob(w, j) =>
    /\ \/ audio[j].status = "PROCESSING" /\ ~audio[j].stale
       \/ w \in LostAcks /\ worker[w].pc = "fail" /\ audio[j].status \in Ended
    /\ audio[j].attempts = worker[w].attempts
    /\ \A v \in Workers \ {w} : ~HoldsJob(v, j)

ExclusiveInv == \A j \in Jobs : Exclusive(j)

LEMMA ExclusiveStep ==
  ASSUME Workers \cap Late = {}
  PROVE  TypeInv /\ ExclusiveInv /\ [Next]_vars => ExclusiveInv'
<1> SUFFICES ASSUME TypeInv, ExclusiveInv, [Next]_vars, NEW j \in Jobs
             PROVE  Exclusive(j)'
    BY DEF ExclusiveInv
<1>1. Exclusive(j) BY DEF ExclusiveInv
<1>2. ASSUME NEW w \in Workers, Claim(w, j) PROVE Exclusive(j)'
  <2>1. \A v \in Workers : ~HoldsJob(v, j)
    BY <1>1, <1>2, ClaimTakes DEF Exclusive, Ended
  <2> QED BY <1>2, <2>1, ClaimTakes DEF Exclusive
<1>3. ASSUME NobodyTakes(j), NobodyFails(j), SameRow(j) PROVE Exclusive(j)'
  <2>1. ASSUME NEW w \in Workers, HoldsJob(w, j)'
        PROVE  /\ HoldsJob(w, j) /\ worker'[w].attempts = worker[w].attempts
               /\ worker[w].pc = "fail" /\ audio[j].status \in Ended =>
                    worker'[w].pc = "fail"
    BY <1>3, <2>1 DEF NobodyTakes, NobodyFails, Ended
  <2> QED BY <1>1, <1>3, <2>1 DEF Exclusive, SameRow
<1>4. ASSUME NobodyTakes(j), \A w \in Workers : ~HoldsJob(w, j) PROVE Exclusive(j)'
  BY <1>4 DEF Exclusive, NobodyTakes
<1>5. audio[j].status = "ABSENT" \/ Recovered(j) \/ GrownStale(j)
        => \A w \in Workers : ~HoldsJob(w, j)
  BY <1>1 DEF Exclusive, Recovered, Exhausted, GrownStale, Ended
<1>6. ASSUME NobodyTakes(j), NEW w \in Workers, WrittenBy(w, j) PROVE Exclusive(j)'
  <2>1. \A v \in Workers \ {w} : ~HoldsJob(v, j)'
    BY <1>1, <1>6 DEF Exclusive, NobodyTakes, WrittenBy
  <2>2. HoldsJob(w, j)' =>
          /\ w \in LostAcks /\ worker'[w].pc = "fail" /\ audio'[j].status \in Ended
          /\ audio'[j].attempts = worker'[w].attempts
    BY <1>1, <1>6 DEF Exclusive, NobodyTakes, WrittenBy
  <2> QED BY <2>1, <2>2 DEF Exclusive
<1> QED BY <1>2, <1>3, <1>4, <1>5, <1>6, HoldersStepLemma DEF HoldersStep

\* If no worker is late, no two of them pay the providers for the same job at once,
\* and the one at work holds the newest claim, however often the entry of the job
\* is in the stream and whatever commits are misreported.
THEOREM ExclusiveWorkWithoutLateWorkers ==
  ASSUME Workers \cap Late = {}
  PROVE  Spec => []ExclusiveWork
<1>1. Init => ExclusiveInv
  BY DEF Init, ExclusiveInv, Exclusive, HoldsJob, Idle
<1>2. ExclusiveInv => ExclusiveWork BY DEF ExclusiveInv, Exclusive, ExclusiveWork
<1>3. TypeInv /\ ExclusiveInv /\ [Next]_vars => ExclusiveInv' BY ExclusiveStep
<1> QED BY TypeInit, TypeStep, <1>1, <1>2, <1>3, PTL DEF Spec

-------------------------------------------------------------------------------
(***************************************************************************)
(* Processors that are neither late nor misinformed, and a Redis that      *)
(* takes every entry.  A processor works on a note until it has linked it  *)
(* to a job; from then on only what becomes of the job answers the note.   *)
(* Workers may be late and misinformed, and uploads misinformed.           *)
(***************************************************************************)

WorksOn(p, m) ==
  /\ processor[p].msg = m
  /\ \/ processor[p].pc \in {"process", "rename", "probe", "create", "settle"}
     \/ processor[p].pc = "discard" /\ processor[p].result # "deferred"

Told(m) ==
  LET status == audio[JobOf[m]].status IN
  /\ status \in Ended
  /\ status = "COMPLETED" => reply[m] = "result"
  /\ status = "FAILED" => reply[m] = "failed"

LinkedNote(m) ==
  linked[m] =>
    /\ audio[JobOf[m]].status # "ABSENT"
    /\ inbound[m].status = "PROCESSING" \/ Settled(inbound[m])
    /\ reply[m] # "none" => Told(m)

WorkedNote(m) ==
  \A p \in Processors : WorksOn(p, m) =>
    /\ inbound[m].status = "PROCESSING" /\ ~inbound[m].stale
    /\ ~linked[m]
    /\ \A q \in Processors \ {p} : ~WorksOn(q, m)

OutcomeInv == \A m \in Notes : LinkedNote(m) /\ WorkedNote(m)

LEMMA OutcomeInit == Init => OutcomeInv
BY UploadsAssumption
   DEF Init, OutcomeInv, LinkedNote, WorkedNote, WorksOn, Polling, Submitters

\* What happens to the jobs alone leaves every note what it was told.
LEMMA NotesStay ==
  ASSUME TypeInv, OutcomeInv, \A j \in Jobs : JobKept(j),
         NEW m \in Notes, linked'[m] = linked[m], reply'[m] = reply[m],
         linked[m] => /\ inbound'[m].status = inbound[m].status
                      /\ inbound'[m].due = inbound[m].due
  PROVE  LinkedNote(m)'
<1>1. JobOf[m] \in Jobs BY JobOfAssumption
<1>2. /\ audio'[JobOf[m]].status = "ABSENT" => audio[JobOf[m]].status = "ABSENT"
      /\ audio[JobOf[m]].status \in Ended =>
           audio'[JobOf[m]].status = audio[JobOf[m]].status
  BY <1>1 DEF JobKept
<1> QED BY <1>2 DEF OutcomeInv, LinkedNote, Told, Settled

\* Nobody starts to work on a note that stays as it is.
LEMMA WorkersOnStay ==
  ASSUME OutcomeInv, NEW m \in Notes,
         \A p \in Processors : WorksOn(p, m)' =>
           /\ WorksOn(p, m)
           /\ inbound'[m].status = inbound[m].status
           /\ inbound'[m].stale = inbound[m].stale /\ linked'[m] = linked[m]
  PROVE  WorkedNote(m)'
BY DEF OutcomeInv, WorkedNote

\* finish and leave with a result that is not deferred keep the note, with it
\* they give it up.
LEMMA FinishWorks ==
  ASSUME TypeInv, NEW p \in Processors, NEW result \in {"none", "retry", "notice", "deferred"},
         Finish(p, result) \/ Leave(p, result),
         NEW q \in Processors, NEW m \in Notes, WorksOn(q, m)'
  PROVE  /\ q # p => WorksOn(q, m)
         /\ q = p => processor[p].msg = m /\ result # "deferred"
<1>1. processor[p] \in ProcessorState /\ p \notin Uploads /\ p \in Submitters
  BY UploadsAssumption DEF TypeInv, TypeOK, Submitters
<1>2. \A r \in Submitters \ {p} : processor'[r] = processor[r]
  BY DEF Finish, Responded, Leave, TypeInv, TypeOK
<1>3. CASE q # p
  BY <1>2, <1>3 DEF WorksOn, Submitters
<1>4. CASE q = p
  <2>1. \/ processor'[p] = Polling("reconcile")
        \/ processor'[p] = [processor[p] EXCEPT !.pc = "settle", !.result = result]
           /\ result # "deferred"
        \/ processor'[p] = [processor[p] EXCEPT !.pc = "discard", !.result = result]
    BY <1>1 DEF Finish, Responded, Leave, TypeInv, TypeOK
  <2>2. processor'[p] # Polling("reconcile") BY <1>4 DEF WorksOn, Polling
  <2>3. processor'[p].msg = m BY <1>4 DEF WorksOn
  <2>4. CASE processor'[p] = [processor[p] EXCEPT !.pc = "settle", !.result = result]
             /\ result # "deferred"
    BY <1>1, <1>4, <2>3, <2>4 DEF ProcessorState
  <2>5. CASE processor'[p] = [processor[p] EXCEPT !.pc = "discard", !.result = result]
    <3>1. /\ processor'[p].msg = processor[p].msg
          /\ processor'[p].pc = "discard" /\ processor'[p].result = result
      BY <1>1, <2>5 DEF ProcessorState
    <3> QED BY <1>4, <2>3, <3>1 DEF WorksOn
  <2> QED BY <2>1, <2>2, <2>4, <2>5
<1> QED BY <1>3, <1>4

\* A submission that does not link its note keeps the note or lets it go; one that
\* does lets it go.
LEMMA SubmitWorks ==
  ASSUME ~Refusals, TypeInv, NEW p \in Processors, p \notin LostAcks, Submit(p),
         NEW q \in Processors, NEW m \in Notes, WorksOn(q, m)'
  PROVE  WorksOn(q, m) /\ (q = p => ~GetExisting(p) /\ ~Create(p))
<1>1. processor[p] \in ProcessorState /\ p \in Submitters
  BY DEF TypeInv, TypeOK, Submitters
<1>2. CASE Refuse(p) \/ ProbeRefuses(p) \/ CreateRefused(p)
  <2>1. PICK result \in {"retry", "notice"} : Finish(p, result) \/ Leave(p, result)
    BY <1>2, TransientResults DEF Refuse, ProbeRefuses, CreateRefused
  <2>2. /\ q # p => WorksOn(q, m)
        /\ q = p => processor[p].msg = m
    BY <2>1, FinishWorks
  <2>3. processor[p].pc \in {"process", "probe", "create"}
    BY <1>2 DEF Refuse, ProbeRefuses, CreateRefused
  <2>4. (~GetExisting(p) /\ ~Create(p)) \/ processor[p].pc = "create"
    BY DEF GetExisting, Create
  <2>5. CASE processor[p].pc # "create" \/ q # p
    BY <2>2, <2>3, <2>4, <2>5 DEF WorksOn
  <2>6. CASE processor[p].pc = "create" /\ q = p
    <3>1. WorksOn(q, m) BY <2>2, <2>6 DEF WorksOn
    <3>2. GetExisting(p) => Leave(p, "deferred") BY DEF GetExisting
    <3>3. ~GetExisting(p) BY <2>6, <3>2, FinishWorks
    <3>4. Create(p) => processor' = [processor EXCEPT ![p].pc = "enqueue"]
      BY DEF Create
    <3>5. Create(p) => processor'[p].pc = "enqueue"
      BY <1>1, <3>4 DEF TypeInv, TypeOK, ProcessorState
    <3>6. ~Create(p) BY <2>6, <3>5 DEF WorksOn
    <3> QED BY <3>1, <3>3, <3>6
  <2> QED BY <2>5, <2>6
<1>3. CASE FindFile(p) \/ RenameFile(p) \/ ProbeAccepts(p)
  <2>1. /\ processor[p].pc \in {"process", "rename", "probe"}
        /\ processor'[p].msg = processor[p].msg
        /\ \A r \in Submitters \ {p} : processor'[r] = processor[r]
    BY <1>1, <1>3 DEF FindFile, RenameFile, ProbeAccepts, TypeInv, TypeOK, ProcessorState
  <2> QED BY <2>1 DEF WorksOn, GetExisting, Create, Submitters
<1>4. CASE GetExisting(p) \/ Enqueue(p)
  <2>1. Leave(p, "deferred") \/ Finish(p, "deferred")
    BY <1>4 DEF GetExisting, Enqueue
  <2>2. q # p /\ WorksOn(q, m) BY <2>1, FinishWorks
  <2> QED BY <2>2
<1>5. CASE Create(p)
  <2>1. processor' = [processor EXCEPT ![p].pc = "enqueue"]
    BY <1>5 DEF Create
  <2>2. /\ processor'[p].pc = "enqueue"
        /\ \A r \in Submitters \ {p} : processor'[r] = processor[r]
    BY <1>1, <2>1 DEF TypeInv, TypeOK, ProcessorState
  <2> QED BY <2>2 DEF WorksOn, Submitters
<1>6. CASE DiscardFile(p)
  <2>1. Finish(p, processor[p].result) /\ processor[p].pc = "discard"
    BY <1>6 DEF DiscardFile
  <2>2. processor[p].result \in {"none", "retry", "notice", "deferred"}
    BY <1>1 DEF ProcessorState
  <2>3. /\ q # p => WorksOn(q, m)
        /\ q = p => processor[p].msg = m /\ processor[p].result # "deferred"
    BY <2>1, <2>2, FinishWorks
  <2> QED BY <2>1, <2>3 DEF WorksOn, GetExisting, Create
<1>7. ~EnqueueFails(p) BY DEF EnqueueFails
<1> QED BY <1>2, <1>3, <1>4, <1>5, <1>6, <1>7 DEF Submit

\* Jobs that had not ended end, and the notes linked to them are told.
LEMMA EndTells ==
  ASSUME TypeInv, OutcomeInv, \A j \in Jobs : JobKept(j), EndsJobs
  PROVE  OutcomeInv'
<1>t. inbound \in [Notes -> InboundRows(MaxAttempts)] BY DEF TypeInv, TypeOK
<1>1. PICK w \in Workers, kind \in JobKinds :
        /\ EndMessages(w, kind) /\ UNCHANGED <<linked, processor>>
        /\ \A j \in worker[w].ending :
             audio[j].status \notin Ended /\ audio'[j].status = EndOf(kind)
  BY DEF EndsJobs
<1>2. worker[w].ended \subseteq LinkedTo(worker[w].ending)
  BY DEF TypeInv, LockInv, Transaction
<1>3. ASSUME NEW m \in LinkedTo(worker[w].ending) PROVE LinkedNote(m)' /\ WorkedNote(m)'
  <2>1. m \in Notes /\ linked[m] /\ JobOf[m] \in worker[w].ending BY DEF LinkedTo
  <2>2. reply[m] = "none" BY <1>1, <2>1 DEF OutcomeInv, LinkedNote, Told
  <2>3. reply'[m] = kind BY <1>1, <1>3, <2>1, <2>2 DEF EndMessages
  <2>4. audio'[JobOf[m]].status = EndOf(kind) BY <1>1, <2>1
  <2>5. inbound'[m].status = "PROCESSING" \/ Settled(inbound'[m])
    <3>1. inbound'[m] \in {inbound[m], EndedRow(inbound[m], kind)}
      BY <1>1, <2>1 DEF EndMessages
    <3>2. Settled(EndedRow(inbound[m], kind))
      BY <1>t, <2>1, BoundsAssumption, EndedRowFacts
    <3> QED BY <2>1, <3>1, <3>2 DEF OutcomeInv, LinkedNote
  <2>6. LinkedNote(m)'
    BY <2>3, <2>4, <2>5 DEF LinkedNote, Told, Ended, EndOf, JobKinds
  <2>7. \A p \in Processors : ~WorksOn(p, m)'
    BY <1>1, <2>1 DEF OutcomeInv, WorkedNote, WorksOn
  <2> QED BY <2>6, <2>7 DEF WorkedNote
<1>4. ASSUME NEW m \in Notes \ LinkedTo(worker[w].ending)
      PROVE  LinkedNote(m)' /\ WorkedNote(m)'
  <2>1. inbound'[m] = inbound[m] /\ reply'[m] = reply[m]
    BY <1>1, <1>2, <1>4 DEF EndMessages
  <2>2. LinkedNote(m)' BY <1>1, <2>1, NotesStay
  <2>3. \A p \in Processors : WorksOn(p, m)' <=> WorksOn(p, m) BY <1>1 DEF WorksOn
  <2>4. WorkedNote(m)' BY <1>1, <2>1, <2>3, WorkersOnStay
  <2> QED BY <2>2, <2>4
<1> QED BY <1>3, <1>4 DEF OutcomeInv, LinkedTo

LEMMA OutcomeStep ==
  ASSUME Processors \cap (Late \union LostAcks) = {}, ~Refusals
  PROVE  TypeInv /\ AnsweredInv /\ OutcomeInv /\ [Next]_vars => OutcomeInv'
<1> SUFFICES ASSUME TypeInv, AnsweredInv, OutcomeInv, [Next]_vars PROVE OutcomeInv'
    OBVIOUS
<1>t. /\ inbound \in [Notes -> InboundRows(MaxAttempts)]
      /\ linked \in [Notes -> BOOLEAN]
      /\ reply \in [Notes -> Replies]
      /\ processor \in [Submitters -> ProcessorState]
      /\ audio \in [Jobs -> AudioRow]
  BY DEF TypeInv, TypeOK
<1>n. MaxAttempts \in Nat BY BoundsAssumption
<1>j. \A j \in Jobs : JobKept(j) BY JobStep
<1>1. ASSUME UNCHANGED <<inbound, linked, reply>>,
             \A p \in Processors, m \in Notes : WorksOn(p, m)' => WorksOn(p, m)
      PROVE  OutcomeInv'
  BY <1>1, <1>j, NotesStay, WorkersOnStay DEF OutcomeInv
<1>2. ASSUME UNCHANGED <<inbound, linked, reply, processor>> PROVE OutcomeInv'
  BY <1>1, <1>2 DEF WorksOn
<1>3. ASSUME NEW m \in Notes, Receive(m) PROVE OutcomeInv'
  <2>1. ~linked[m] BY <1>3 DEF Receive, AnsweredInv, Answered
  <2>2. \A p \in Processors : ~WorksOn(p, m)
    BY <1>3 DEF Receive, OutcomeInv, WorkedNote
  <2>3. /\ UNCHANGED <<linked, reply, processor>>
        /\ \A n \in Notes \ {m} : inbound'[n] = inbound[n]
    BY <1>3, <1>t DEF Receive
  <2>4. \A n \in Notes, p \in Processors : WorksOn(p, n)' <=> WorksOn(p, n)
    BY <2>3 DEF WorksOn
  <2>5. \A n \in Notes : LinkedNote(n)'
    BY <2>1, <2>3, <1>j, NotesStay
  <2>6. \A n \in Notes : WorkedNote(n)'
    BY <2>2, <2>3, <2>4, WorkersOnStay
  <2> QED BY <2>5, <2>6 DEF OutcomeInv
<1>4. ASSUME NEW m \in Notes, ExpireInbound(m) PROVE OutcomeInv'
  <2>1. \A p \in Processors : ~WorksOn(p, m)
    BY <1>4 DEF ExpireInbound, HoldsNote, WorksOn
  <2>2. /\ UNCHANGED <<linked, reply, processor>>
        /\ inbound'[m].status = inbound[m].status /\ inbound'[m].due = inbound[m].due
        /\ \A n \in Notes \ {m} : inbound'[n] = inbound[n]
    BY <1>4, <1>t DEF ExpireInbound, InboundRows
  <2>3. \A n \in Notes, p \in Processors : WorksOn(p, n)' <=> WorksOn(p, n)
    BY <2>2 DEF WorksOn
  <2>4. \A n \in Notes : LinkedNote(n)'
    BY <2>2, <1>j, NotesStay
  <2>5. \A n \in Notes : WorkedNote(n)'
    BY <2>1, <2>2, <2>3, WorkersOnStay
  <2> QED BY <2>4, <2>5 DEF OutcomeInv
<1>5. ASSUME NEW p \in Processors, NEW m \in Notes, ClaimInbound(p, m)
      PROVE  OutcomeInv'
  <2>r. inbound[m] \in InboundRows(MaxAttempts) BY <1>t
  <2>1. ~linked[m]
    <3>1. ~Settled(inbound[m])
      BY <1>5, <2>r, <1>n, RowFacts DEF ClaimInbound, Claimable, Orphaned
    <3> QED BY <1>5, <3>1
            DEF ClaimInbound, Claimable, Orphaned, Waiting, OutcomeInv, LinkedNote
  <2>2. \A q \in Processors : ~WorksOn(q, m)
    BY <1>5 DEF ClaimInbound, Claimable, Orphaned, Waiting, Abandoned, OutcomeInv,
                WorkedNote
  <2>3. /\ UNCHANGED <<linked, reply>>
        /\ \A n \in Notes \ {m} : inbound'[n] = inbound[n]
        /\ inbound'[m].status = "PROCESSING" /\ ~inbound'[m].stale
    BY <1>5, <1>t, <2>r, <1>n, RowFacts DEF ClaimInbound
  <2>4. \A n \in Notes, q \in Processors :
          WorksOn(q, n)' => WorksOn(q, n) \/ (q = p /\ n = m)
    BY <1>5, <1>t DEF ClaimInbound, WorksOn, Submitters, Polling
  <2>5. \A n \in Notes : LinkedNote(n)'
    BY <2>1, <2>3, <1>j, NotesStay
  <2>6. WorkedNote(m)'
    BY <2>1, <2>2, <2>3, <2>4 DEF WorkedNote
  <2>7. \A n \in Notes \ {m} : WorkedNote(n)'
    BY <2>3, <2>4, WorkersOnStay
  <2> QED BY <2>5, <2>6, <2>7 DEF OutcomeInv
<1>6. ASSUME NEW p \in Processors, NEW m \in Notes, ReconcileInbound(p, m)
      PROVE  OutcomeInv'
  <2>1. \A q \in Processors : ~WorksOn(q, m)
    <3>1. JobStatus(m) \in Ended => linked[m] BY DEF JobStatus, Ended
    <3> QED BY <1>6, <3>1 DEF ReconcileInbound, Unreconciled, Reconcilable, Orphaned,
                Abandoned, OutcomeInv, WorkedNote
  <2>2. /\ UNCHANGED <<linked, audio, processor>>
        /\ \A n \in Notes \ {m} : inbound'[n] = inbound[n] /\ reply'[n] = reply[n]
        /\ reply'[m] = IF reply[m] = "none" THEN Reconciled(m) ELSE reply[m]
    BY <1>6, <1>t DEF ReconcileInbound, AddReply
  <2>3. \A n \in Notes, q \in Processors : WorksOn(q, n)' <=> WorksOn(q, n)
    BY <2>2 DEF WorksOn
  <2>4. LinkedNote(m)'
    <3>0. Settled(inbound'[m])
      <4>1. inbound'[m] \in {CompletedRow(inbound[m]), FailedRow(inbound[m])}
        BY <1>6, <1>t DEF ReconcileInbound
      <4>2. inbound[m] \in InboundRows(MaxAttempts) BY <1>t
      <4> QED BY <4>1, <4>2, <1>n, RowFacts
    <3>1. CASE ~linked[m] BY <2>2, <3>1 DEF LinkedNote
    <3>2. CASE linked[m] /\ reply[m] # "none"
      BY <2>2, <3>0, <3>2 DEF OutcomeInv, LinkedNote, Told
    <3>3. CASE linked[m] /\ reply[m] = "none"
      <4>1. inbound[m].status = "PROCESSING"
        BY <3>3 DEF OutcomeInv, LinkedNote, AnsweredInv, Answered
      <4>2. audio[JobOf[m]].status \in Ended
        BY <1>6, <3>3, <4>1
           DEF ReconcileInbound, Unreconciled, Reconcilable, Orphaned, JobStatus
      <4>3. /\ audio[JobOf[m]].status = "COMPLETED" => Reconciled(m) = "result"
            /\ audio[JobOf[m]].status = "FAILED" => Reconciled(m) = "failed"
        BY <3>3 DEF Reconciled, JobStatus
      <4>4. reply'[m] = Reconciled(m) BY <2>2, <3>3
      <4> QED BY <2>2, <3>0, <4>2, <4>3, <4>4, ReconciledKind DEF LinkedNote, Told, Ended
    <3> QED BY <3>1, <3>2, <3>3
  <2>5. \A n \in Notes \ {m} : LinkedNote(n)'
    BY <2>2, <1>j, NotesStay
  <2>6. \A n \in Notes : WorkedNote(n)'
    BY <2>1, <2>2, <2>3, WorkersOnStay
  <2> QED BY <2>4, <2>5, <2>6 DEF OutcomeInv
<1>7. ASSUME NEW p \in Processors, RetryInbound(p) \/ CompleteInbound(p)
      PROVE  OutcomeInv'
  <2>0. processor[p].msg \in Notes
    BY <1>7 DEF RetryInbound, CompleteInbound, TypeInv, HoldingNotes, Busy
  <2>1. PICK m \in Notes : m = processor[p].msg BY <2>0
  <2>2. WorksOn(p, m)
    BY <1>7, <2>1 DEF RetryInbound, CompleteInbound, WorksOn
  <2>3. ~linked[m] /\ \A q \in Processors \ {p} : ~WorksOn(q, m)
    BY <2>2 DEF OutcomeInv, WorkedNote
  <2>4. /\ UNCHANGED linked
        /\ \A n \in Notes \ {m} : inbound'[n] = inbound[n] /\ reply'[n] = reply[n]
        /\ processor' = [processor EXCEPT ![p] = Polling("reconcile")]
    BY <1>7, <2>1, <1>t DEF RetryInbound, CompleteInbound, AddReply
  <2>5. \A n \in Notes, q \in Processors : WorksOn(q, n)' => q # p /\ WorksOn(q, n)
    BY <2>4, <1>t DEF WorksOn, Polling, Submitters
  <2>6. LinkedNote(m)' BY <2>3, <2>4 DEF LinkedNote
  <2>7. \A n \in Notes \ {m} : LinkedNote(n)'
    BY <2>4, <1>j, NotesStay
  <2>8. WorkedNote(m)' BY <2>3, <2>5 DEF WorkedNote
  <2>9. \A n \in Notes \ {m} : WorkedNote(n)' BY <2>4, <2>5, WorkersOnStay
  <2> QED BY <2>6, <2>7, <2>8, <2>9 DEF OutcomeInv
<1>8. ASSUME NEW p \in Processors, GetExisting(p) \/ Create(p) PROVE OutcomeInv'
  <2>0. processor[p].msg \in Notes
    BY <1>8 DEF GetExisting, Create, TypeInv, HoldingNotes, Busy
  <2>1. PICK m \in Notes : m = processor[p].msg BY <2>0
  <2>2. WorksOn(p, m) BY <1>8, <2>1 DEF GetExisting, Create, WorksOn
  <2>3. /\ inbound[m].status = "PROCESSING" /\ ~linked[m]
        /\ \A q \in Processors \ {p} : ~WorksOn(q, m)
    BY <2>2 DEF OutcomeInv, WorkedNote
  <2>4. reply[m] = "none" BY <2>3 DEF AnsweredInv, Answered, Settled
  <2>5. /\ UNCHANGED <<inbound, reply>>
        /\ \A n \in Notes \ {m} : linked'[n] = linked[n]
    BY <1>8, <2>1, <1>t DEF GetExisting, Create, Link
  <2>6. \A n \in Notes, q \in Processors : WorksOn(q, n)' => q # p /\ WorksOn(q, n)
    BY <1>8, SubmitWorks DEF Submit
  <2>7. audio'[JobOf[m]].status # "ABSENT"
    <3>1. JobOf[m] \in Jobs /\ Job(p) = JobOf[m] BY <2>1, JobOfAssumption DEF Job
    <3> QED BY <1>8, <3>1, <1>t DEF GetExisting, Create, NewAudio
  <2>8. LinkedNote(m)' BY <2>3, <2>4, <2>5, <2>7 DEF LinkedNote
  <2>9. \A n \in Notes \ {m} : LinkedNote(n)'
    BY <2>5, <1>j, NotesStay
  <2>10. WorkedNote(m)' BY <2>3, <2>6 DEF WorkedNote
  <2>11. \A n \in Notes \ {m} : WorkedNote(n)' BY <2>5, <2>6, WorkersOnStay
  <2> QED BY <2>8, <2>9, <2>10, <2>11 DEF OutcomeInv
<1>9. ASSUME NEW p \in Processors, Submit(p), ~GetExisting(p), ~Create(p)
      PROVE  OutcomeInv'
  <2>1. UNCHANGED <<inbound, linked, reply>>
    BY <1>9 DEF Submit, Refuse, FindFile, RenameFile, ProbeRefuses, ProbeAccepts,
       CreateRefused, DiscardFile, Enqueue, EnqueueFails
  <2> QED BY <1>1, <1>9, <2>1, SubmitWorks
<1>10. ASSUME NEW p \in Processors,
              \/ NothingToReconcile(p) \/ NoInboundWork(p)
              \/ CompleteInboundTooLate(p) \/ ProcessorCrash(p)
       PROVE  OutcomeInv'
  <2>1. PICK pc \in {"reconcile", "claim"} : processor' = [processor EXCEPT ![p] = Polling(pc)]
    BY <1>10, UploadsAssumption
       DEF NothingToReconcile, NoInboundWork, CompleteInboundTooLate, ProcessorCrash
  <2>2. \A n \in Notes, q \in Processors : WorksOn(q, n)' => WorksOn(q, n)
    BY <2>1, <1>t DEF WorksOn, Polling, Submitters
  <2> QED BY <1>1, <1>10, <2>2 DEF NothingToReconcile, NoInboundWork,
          CompleteInboundTooLate, ProcessorCrash
<1>11. ASSUME NEW u \in Uploads, Upload(u) \/ Submit(u) \/ ProcessorCrash(u)
       PROVE  OutcomeInv'
  <2>1. UNCHANGED <<inbound, reply>>
    BY <1>11 DEF Upload, Submit, Refuse, FindFile, RenameFile, ProbeRefuses,
       ProbeAccepts, CreateRefused, GetExisting, Create, DiscardFile, Enqueue,
       EnqueueFails, ProcessorCrash
  <2>2. UNCHANGED linked
    <3>1. CASE GetExisting(u) \/ Create(u)
      <4>1. processor[u].msg \notin Notes
        BY <3>1, UploadsAssumption DEF GetExisting, Create, TypeInv, HoldingNotes, Busy
      <4> QED BY <3>1, <4>1, <1>t DEF GetExisting, Create, Link
    <3>2. CASE ~(GetExisting(u) \/ Create(u))
      BY <1>11, <3>2 DEF Upload, Submit, Refuse, FindFile, RenameFile, ProbeRefuses,
         ProbeAccepts, CreateRefused, DiscardFile, Enqueue, EnqueueFails,
         ProcessorCrash
    <3> QED BY <3>1, <3>2
  <2>3. \A q \in Processors : processor'[q] = processor[q]
    <3>1. u \in Submitters /\ u \notin Processors BY UploadsAssumption DEF Submitters
    <3>2. \E s : processor' = [processor EXCEPT ![u] = s]
      <4>1. CASE Upload(u) BY <4>1 DEF Upload
      <4>2. CASE Submit(u) \/ ProcessorCrash(u)
        BY <3>1, <4>2, SubmitterMoves DEF Moves
      <4> QED BY <1>11, <4>1, <4>2
    <3> QED BY <3>1, <3>2, <1>t DEF Submitters
  <2> QED BY <1>1, <2>1, <2>2, <2>3 DEF WorksOn
<1>12. ASSUME EndsJobs PROVE OutcomeInv'
  BY <1>12, <1>j, EndTells
<1>13. ASSUME NEW w \in Workers,
              CommitExhausted(w) \/ CommitComplete(w) \/ CommitFail(w)
       PROVE  OutcomeInv'
  BY <1>12, <1>13, CommitEnds
<1>14. ASSUME NEW w \in Workers,
              \/ RecoverStalled(w) \/ FailExhausted(w) \/ Requeue(w) \/ OpenFile(w)
              \/ Complete(w) \/ GiveUp(w) \/ Retry(w) \/ Fail(w) \/ FailTooLate(w)
              \/ RemoveFile(w) \/ WorkerCrash(w)
              \/ \E j \in Jobs : Claim(w, j) \/ DropEntry(w, j)
       PROVE  OutcomeInv'
  BY <1>2, <1>14 DEF RecoverStalled, FailExhausted, Requeue, OpenFile, Complete,
     GiveUp, Retry, Fail, FailTooLate, RemoveFile, WorkerCrash, Claim, DropEntry
<1>15. ASSUME NEW j \in Jobs, ExpireAudio(j) \/ BackoffOver(j) \/ LoseEntries(j)
       PROVE  OutcomeInv'
  BY <1>2, <1>15 DEF ExpireAudio, BackoffOver, LoseEntries
<1>16. CASE UNCHANGED vars
  BY <1>2, <1>16 DEF vars
<1> QED
  BY <1>3, <1>4, <1>5, <1>6, <1>7, <1>8, <1>9, <1>10, <1>11, <1>13, <1>14, <1>15,
     <1>16
     DEF Next, ProcessorWork, WorkerWork, Clock

\* If no processor is late or misinformed of a commit, and as long as Redis takes
\* every entry, a note that is linked to a job is answered when the job has ended,
\* not before, and with its result or its failure if it has one, whatever befalls the
\* workers and the uploads.  Of a language that is not supported it says nothing:
\* what such a sender is told is not always that.
THEOREM ReplyTellsOutcomeOfLateWorkers ==
  ASSUME Processors \cap (Late \union LostAcks) = {}, ~Refusals
  PROVE  Spec => []ReplyTellsOutcome
<1>1. OutcomeInv => ReplyTellsOutcome
  <2> SUFFICES ASSUME OutcomeInv, NEW m \in Notes, linked[m], reply[m] # "none"
               PROVE  LET status == audio[JobOf[m]].status IN
                      /\ status \in Ended
                      /\ status = "COMPLETED" => reply[m] = "result"
                      /\ status = "FAILED" => reply[m] = "failed"
    BY DEF ReplyTellsOutcome, JobStatus
  <2>1. Told(m) BY DEF OutcomeInv, LinkedNote
  <2> QED BY <2>1 DEF Told, Ended
<1>2. TypeInv /\ AnsweredInv /\ OutcomeInv /\ [Next]_vars => OutcomeInv'
  BY OutcomeStep
<1> QED BY TypeInit, TypeStep, AnsweredInit, AnsweredStep, OutcomeInit, <1>1, <1>2,
        PTL DEF Spec

-------------------------------------------------------------------------------
(***************************************************************************)
(* The files.  What it takes for the recording of a job to be kept: no     *)
(* file of two jobs, no commit of a submitter that is misreported, and no  *)
(* two submitters of the same recording at the same time.                  *)
(***************************************************************************)

Active(j) == audio[j].status \in {"PENDING", "PROCESSING"}

\* Who created a file, or is about to, created it for a job that nobody works on.
FileOf(p) ==
  /\ processor[p].pc \in {"process", "rename"} => ~processor[p].created
  /\ \/ processor[p].pc \in {"rename", "discard"}
     \/ processor[p].pc \in {"probe", "create"} /\ processor[p].created
     => ~Active(Job(p))
  /\ processor[p].pc = "create" /\ audio[Job(p)].status = "ABSENT" => File(p) \in files

KeepInv ==
  /\ \A j \in Jobs : Active(j) => RecordingOf[j] \in files
  /\ \A w \in Workers :
       worker[w].pc = "remove" => audio[worker[w].job].status \in Ended
  /\ \A p \in Submitters : FileOf(p)

\* A step that makes no job and removes no file.
LEMMA KeepStays ==
  ASSUME TypeInv, KeepInv, \A j \in Jobs : JobKept(j),
         \A j \in Jobs : Active(j)' => Active(j),
         files \subseteq files',
         \A w \in Workers : worker'[w].pc = "remove" =>
           /\ worker'[w].job \in Jobs
           /\ audio'[worker'[w].job].status \in Ended,
         \A p \in Submitters :
           \/ processor'[p] = processor[p]
           \/ processor'[p].pc \in {"reconcile", "claim", "settle", "waiting", "answered"}
           \/ processor'[p].pc = "process" /\ ~processor'[p].created
  PROVE  KeepInv'
<1>1. \A j \in Jobs : Active(j)' => RecordingOf[j] \in files'
  BY DEF KeepInv
<1>2. ASSUME NEW p \in Submitters PROVE FileOf(p)'
  <2>1. CASE processor'[p] = processor[p]
    <3>1. Job(p)' = Job(p) /\ File(p)' = File(p) BY <2>1 DEF Job, File
    <3>2. processor[p].pc \in {"rename", "discard", "probe", "create"} => Job(p) \in Jobs
      BY JobOfAssumption DEF TypeInv, HoldingNotes, Busy, Submitters, Job
    <3>3. Job(p) \in Jobs =>
            /\ audio'[Job(p)].status = "ABSENT" => audio[Job(p)].status = "ABSENT"
            /\ Active(Job(p))' => Active(Job(p))
      BY <3>1 DEF JobKept, Active
    <3>4. FileOf(p) BY DEF KeepInv
    <3> QED BY <2>1, <3>1, <3>2, <3>3, <3>4 DEF FileOf, Active
  <2>2. CASE processor'[p].pc \in {"reconcile", "claim", "settle", "waiting", "answered"}
    BY <2>2 DEF FileOf
  <2>3. CASE processor'[p].pc = "process" /\ ~processor'[p].created
    BY <2>3 DEF FileOf
  <2> QED BY <2>1, <2>2, <2>3
<1> QED BY <1>1, <1>2 DEF KeepInv

\* Where leaving leads: to the discarding of a file that was created, or out.
LEMMA LeaveTo ==
  ASSUME TypeInv, NEW p \in Submitters, NEW result,
         Finish(p, result) \/ Leave(p, result)
  PROVE  /\ Finish(p, result) =>
              processor'[p].pc \in {"reconcile", "settle", "answered"}
         /\ \/ processor'[p].pc \in {"reconcile", "settle", "answered"}
            \/ /\ processor[p].created /\ processor'[p].pc = "discard"
               /\ processor'[p].msg = processor[p].msg
<1>1. processor \in [Submitters -> ProcessorState] /\ processor[p] \in ProcessorState
  BY DEF TypeInv, TypeOK
<1>2. CASE Finish(p, result)
  <2>1. \/ processor'[p] = [Polling("answered") EXCEPT !.result = result]
        \/ processor'[p] = Polling("reconcile")
        \/ processor'[p] = [processor[p] EXCEPT !.pc = "settle", !.result = result]
    BY <1>1, <1>2 DEF Finish, Responded
  <2>2. CASE processor'[p] = [Polling("answered") EXCEPT !.result = result]
    <3>1. processor'[p].pc = "answered" BY <2>2 DEF Polling
    <3> QED BY <3>1
  <2>3. CASE processor'[p] = Polling("reconcile")
    <3>1. processor'[p].pc = "reconcile" BY <2>3 DEF Polling
    <3> QED BY <3>1
  <2>4. CASE processor'[p] = [processor[p] EXCEPT !.pc = "settle", !.result = result]
    <3>1. processor'[p].pc = "settle" BY <1>1, <2>4 DEF ProcessorState
    <3> QED BY <3>1
  <2> QED BY <2>1, <2>2, <2>3, <2>4
<1>3. CASE ~Finish(p, result)
  <2>1. /\ processor[p].created
        /\ processor' = [processor EXCEPT ![p].pc = "discard", ![p].result = result]
    BY <1>3 DEF Leave
  <2>2. processor'[p] = [processor[p] EXCEPT !.pc = "discard", !.result = result]
    BY <1>1, <2>1
  <2>3. processor'[p].pc = "discard" /\ processor'[p].msg = processor[p].msg
    BY <1>1, <2>2 DEF ProcessorState
  <2> QED BY <1>3, <2>1, <2>3
<1> QED BY <1>2, <1>3

\* The steps of one submitter, if no other is at work on the same job.
LEMMA KeepSubmit ==
  ASSUME Submitters \cap LostAcks = {},
         \A i, j \in Jobs : RecordingOf[i] = RecordingOf[j] => i = j,
         TypeInv, TypeInv', KeepInv, OneAtWork, \A j \in Jobs : JobKept(j),
         NEW p \in Submitters, Submit(p)
  PROVE  KeepInv'
<1>t. /\ processor \in [Submitters -> ProcessorState] /\ processor[p] \in ProcessorState
      /\ audio \in [Jobs -> AudioRow]
  BY DEF TypeInv, TypeOK
<1>f. FileOf(p) BY DEF KeepInv
<1>j. Job(p) \in Jobs
  <2>1. processor[p].pc \in Busy
    BY DEF Submit, Refuse, FindFile, RenameFile, ProbeRefuses, ProbeAccepts,
       CreateRefused, GetExisting, Create, DiscardFile, Enqueue, EnqueueFails, Busy
  <2> QED BY <2>1, JobOfAssumption DEF Job, TypeInv, HoldingNotes, Submitters
<1>w. UNCHANGED worker
  BY DEF Submit, Refuse, FindFile, RenameFile, ProbeRefuses, ProbeAccepts,
     CreateRefused, GetExisting, Create, DiscardFile, Enqueue, EnqueueFails
<1>r. \A w \in Workers :
        worker'[w].pc = "remove" => audio'[worker'[w].job].status \in Ended
  BY <1>w DEF KeepInv, TypeInv, HoldingJobs, Working, JobKept
<1>o. ASSUME NEW q \in Submitters \ {p}
      PROVE  processor'[q] = processor[q] /\ Job(q)' = Job(q) /\ File(q)' = File(q)
  <2>1. processor'[q] = processor[q]
    BY <1>t, SubmitterMoves DEF Moves
  <2> QED BY <2>1 DEF Job, File
<1>q. ASSUME NEW q \in Submitters \ {p}, AtWork(q)
      PROVE  Job(q) \in Jobs /\ (AtWork(p) => Job(q) # Job(p) /\ File(q) # File(p))
  <2>1. Job(q) \in Jobs
    BY <1>q, JobOfAssumption DEF AtWork, Job, TypeInv, HoldingNotes, Submitters, Busy
  <2>2. AtWork(p) => Job(q) # Job(p) BY <1>q DEF OneAtWork
  <2> QED BY <1>j, <2>1, <2>2 DEF File
<1>1. ASSUME UNCHANGED audio, files \subseteq files', FileOf(p)' PROVE KeepInv'
  <2>1. ASSUME NEW q \in Submitters \ {p} PROVE FileOf(q)'
    <3>1. FileOf(q) BY DEF KeepInv
    <3> QED BY <1>1, <1>o, <3>1 DEF FileOf, Active
  <2> QED BY <1>1, <1>r, <2>1 DEF KeepInv, Active
<1>2. ASSUME NEW result, Leave(p, result),
             processor[p].pc \in {"probe", "create"}, UNCHANGED audio
      PROVE  FileOf(p)'
  <2>1. CASE processor'[p].pc \in {"reconcile", "settle", "answered"}
    BY <2>1 DEF FileOf
  <2>2. CASE /\ processor[p].created /\ processor'[p].pc = "discard"
             /\ processor'[p].msg = processor[p].msg
    <3>1. Job(p)' = Job(p) BY <2>2 DEF Job
    <3> QED BY <1>2, <1>f, <2>2, <3>1 DEF FileOf, Active
  <2> QED BY <1>2, <2>1, <2>2, LeaveTo
<1>3. ASSUME NEW result, Finish(p, result) PROVE FileOf(p)'
  BY <1>3, LeaveTo DEF FileOf
<1>4. CASE Refuse(p) \/ Enqueue(p) \/ EnqueueFails(p)
  BY <1>1, <1>3, <1>4 DEF Refuse, Enqueue, EnqueueFails
<1>5. CASE ProbeRefuses(p) \/ CreateRefused(p) \/ GetExisting(p)
  BY <1>1, <1>2, <1>5 DEF ProbeRefuses, CreateRefused, GetExisting
<1>6. CASE FindFile(p)
  <2>1. /\ processor'[p] = [processor[p] EXCEPT !.pc =
             IF File(p) \in files THEN "probe" ELSE "rename"]
        /\ processor[p].pc = "process" /\ UNCHANGED <<audio, files>>
    BY <1>6, <1>t DEF FindFile
  <2>2. /\ processor'[p].pc = IF File(p) \in files THEN "probe" ELSE "rename"
        /\ processor'[p].msg = processor[p].msg
        /\ processor'[p].created = processor[p].created
    BY <1>t, <2>1 DEF ProcessorState
  <2>3. Job(p)' = Job(p) BY <2>2 DEF Job
  <2>4. File(p) \notin files => ~Active(Job(p))
    BY <1>j DEF KeepInv, File
  <2>5. ~processor[p].created BY <1>f, <2>1 DEF FileOf
  <2>6. FileOf(p)' BY <2>1, <2>2, <2>3, <2>4, <2>5 DEF FileOf, Active
  <2> QED BY <1>1, <2>1, <2>6
<1>7. CASE RenameFile(p)
  <2>1. /\ processor'[p].pc = "probe" /\ processor'[p].msg = processor[p].msg
        /\ processor[p].pc = "rename" /\ UNCHANGED audio /\ files \subseteq files'
    BY <1>7, <1>t DEF RenameFile, ProcessorState
  <2>2. Job(p)' = Job(p) BY <2>1 DEF Job
  <2>3. FileOf(p)' BY <1>f, <2>1, <2>2 DEF FileOf, Active
  <2> QED BY <1>1, <2>1, <2>3
<1>8. CASE ProbeAccepts(p)
  <2>1. /\ processor'[p].pc = "create" /\ processor'[p].msg = processor[p].msg
        /\ processor'[p].created = processor[p].created
        /\ processor[p].pc = "probe" /\ UNCHANGED <<audio, files>>
        /\ File(p) \in files
    BY <1>8, <1>t DEF ProbeAccepts, ProcessorState
  <2>2. Job(p)' = Job(p) /\ File(p)' = File(p) BY <2>1 DEF Job, File
  <2>3. FileOf(p)' BY <1>f, <2>1, <2>2 DEF FileOf, Active
  <2> QED BY <1>1, <2>1, <2>3
<1>9. CASE Create(p)
  <2>1. /\ processor'[p].pc = "enqueue"
        /\ processor[p].pc = "create" /\ audio[Job(p)].status = "ABSENT"
        /\ UNCHANGED files /\ \A j \in Jobs \ {Job(p)} : audio'[j] = audio[j]
    BY <1>9, <1>t DEF Create, ProcessorState
  <2>2. FileOf(p)' BY <2>1 DEF FileOf
  <2>3. RecordingOf[Job(p)] \in files BY <1>f, <2>1 DEF FileOf, File
  <2>4. ASSUME NEW q \in Submitters \ {p} PROVE FileOf(q)'
    <3>1. FileOf(q) BY DEF KeepInv
    <3>2. AtWork(q) => audio'[Job(q)] = audio[Job(q)]
      BY <1>q, <2>1 DEF AtWork
    <3> QED BY <1>o, <2>1, <3>1, <3>2 DEF FileOf, Active, AtWork
  <2> QED BY <1>r, <2>1, <2>2, <2>3, <2>4 DEF KeepInv, Active
<1>10. CASE DiscardFile(p)
  <2>1. /\ processor[p].pc = "discard" /\ Finish(p, processor[p].result)
        /\ UNCHANGED audio /\ files' = files \ {RecordingOf[Job(p)]}
    BY <1>10 DEF DiscardFile, File
  <2>2. ~Active(Job(p)) BY <1>f, <2>1 DEF FileOf
  <2>3. \A j \in Jobs : Active(j) => RecordingOf[j] \in files'
    BY <1>j, <2>1, <2>2 DEF KeepInv
  <2>4. FileOf(p)' BY <1>3, <2>1
  <2>5. ASSUME NEW q \in Submitters \ {p} PROVE FileOf(q)'
    <3>1. FileOf(q) BY DEF KeepInv
    <3>2. AtWork(q) /\ File(q) \in files => File(q) \in files'
      BY <1>q, <2>1 DEF AtWork, File
    <3> QED BY <1>o, <2>1, <3>1, <3>2 DEF FileOf, Active, AtWork
  <2> QED BY <1>r, <2>1, <2>3, <2>4, <2>5 DEF KeepInv, Active
<1> QED BY <1>4, <1>5, <1>6, <1>7, <1>8, <1>9, <1>10 DEF Submit

LEMMA KeepStep ==
  ASSUME Submitters \cap LostAcks = {},
         \A i, j \in Jobs : RecordingOf[i] = RecordingOf[j] => i = j
  PROVE  TypeInv /\ TypeInv' /\ KeepInv /\ OneAtWork /\ [Next]_vars => KeepInv'
<1> SUFFICES ASSUME TypeInv, TypeInv', KeepInv, OneAtWork, [Next]_vars PROVE KeepInv'
    OBVIOUS
<1>t. /\ processor \in [Submitters -> ProcessorState]
      /\ audio \in [Jobs -> AudioRow] /\ worker \in [Workers -> WorkerState]
  BY DEF TypeInv, TypeOK
<1>j. \A j \in Jobs : JobKept(j) BY JobStep
<1>r. \A w \in Workers : worker[w].pc = "remove" =>
        worker[w].job \in Jobs /\ audio'[worker[w].job].status \in Ended
  BY <1>j DEF KeepInv, TypeInv, HoldingJobs, Working, JobKept
<1>1. ASSUME NEW p \in Submitters, Submit(p) PROVE KeepInv'
  BY <1>1, <1>j, KeepSubmit
<1>2. ASSUME UNCHANGED <<audio, files, worker>>,
             \A p \in Submitters :
               \/ processor'[p] = processor[p]
               \/ processor'[p].pc \in {"reconcile", "claim", "settle", "waiting", "answered"}
               \/ processor'[p].pc = "process" /\ ~processor'[p].created
      PROVE  KeepInv'
  BY <1>2, <1>j, <1>r, KeepStays DEF Active
<1>3. ASSUME NEW p \in Submitters,
             \/ \E m \in Notes : ClaimInbound(p, m)
             \/ NothingToReconcile(p) \/ NoInboundWork(p) \/ RetryInbound(p)
             \/ CompleteInbound(p) \/ CompleteInboundTooLate(p)
             \/ ProcessorCrash(p) \/ Upload(p)
      PROVE  KeepInv'
  <2>1. UNCHANGED <<audio, files, worker>>
    BY <1>3 DEF ClaimInbound, NothingToReconcile, NoInboundWork, RetryInbound,
       CompleteInbound, CompleteInboundTooLate, ProcessorCrash, Upload
  <2>2. \A q \in Submitters \ {p} : processor'[q] = processor[q]
    BY <1>3, <1>t DEF ClaimInbound, NothingToReconcile, NoInboundWork, RetryInbound,
       CompleteInbound, CompleteInboundTooLate, ProcessorCrash, Upload
  <2>3. CASE \E m \in Notes : ClaimInbound(p, m)
    <3>1. PICK m \in Notes : ClaimInbound(p, m) BY <2>3
    <3>2. processor'[p] = [Polling("process") EXCEPT !.msg = m,
                              !.attempts = inbound[m].attempts + 1]
      BY <3>1, <1>t DEF ClaimInbound
    <3>3. processor'[p].pc = "process" /\ ~processor'[p].created
      BY <3>2 DEF Polling
    <3> QED BY <1>2, <2>1, <2>2, <3>3
  <2>4. CASE Upload(p)
    <3>1. processor'[p] = [Polling("process") EXCEPT !.msg = p]
      BY <2>4, <1>t DEF Upload
    <3>2. processor'[p].pc = "process" /\ ~processor'[p].created
      BY <3>1 DEF Polling
    <3> QED BY <1>2, <2>1, <2>2, <3>2
  <2>5. CASE ~Upload(p) /\ \A m \in Notes : ~ClaimInbound(p, m)
    <3>1. PICK pc \in {"reconcile", "claim", "waiting"} : processor'[p] = Polling(pc)
      BY <1>3, <1>t, <2>5 DEF NothingToReconcile, NoInboundWork, RetryInbound,
         CompleteInbound, CompleteInboundTooLate, ProcessorCrash
    <3>2. processor'[p].pc = pc BY <3>1 DEF Polling
    <3> QED BY <1>2, <2>1, <2>2, <3>2
  <2> QED BY <2>3, <2>4, <2>5
<1>4. ASSUME NEW m \in Notes,
             \/ Receive(m) \/ ExpireInbound(m)
             \/ \E p \in Processors : ReconcileInbound(p, m)
      PROVE  KeepInv'
  BY <1>2, <1>4 DEF Receive, ExpireInbound, ReconcileInbound
<1>5. ASSUME UNCHANGED <<files, processor>>, \A j \in Jobs : Active(j)' => Active(j),
             \A w \in Workers : worker'[w].pc = "remove" =>
               /\ worker'[w].job \in Jobs
               /\ audio'[worker'[w].job].status \in Ended
      PROVE  KeepInv'
  BY <1>5, <1>j, KeepStays
<1>6. ASSUME NEW w \in Workers,
             \/ RecoverStalled(w) \/ CommitExhausted(w) \/ Retry(w) \/ CommitFail(w)
             \/ Requeue(w) \/ FailTooLate(w) \/ WorkerCrash(w)
      PROVE  KeepInv'
  <2>1. \A j \in Jobs : Active(j)' => Active(j)
    <3>1. CASE RecoverStalled(w)
      BY <3>1, <1>t DEF RecoverStalled, Stalled, Active, AudioRow
    <3>2. CASE CommitExhausted(w)
      BY <3>2, <1>t DEF CommitExhausted, Active, AudioRow
    <3>3. CASE Retry(w)
      BY <3>3, <1>t DEF Retry, Active, AudioRow
    <3>4. CASE CommitFail(w)
      BY <3>4, <1>t DEF CommitFail, Active, AudioRow
    <3>5. CASE Requeue(w) \/ FailTooLate(w) \/ WorkerCrash(w)
      BY <3>5 DEF Requeue, FailTooLate, WorkerCrash, Active
    <3> QED BY <1>6, <3>1, <3>2, <3>3, <3>4, <3>5
  <2>2. PICK pc \in {"recover", "exhaust", "requeue", "read"} :
          worker' = [worker EXCEPT ![w] = Idle(pc)]
    BY <1>6 DEF RecoverStalled, CommitExhausted, Retry, CommitFail, Requeue,
       FailTooLate, WorkerCrash, Acknowledge, PutBack
  <2>3. \A v \in Workers : worker'[v].pc = "remove" => worker'[v] = worker[v]
    BY <1>t, <2>2 DEF Idle
  <2>4. UNCHANGED <<files, processor>>
    BY <1>6 DEF RecoverStalled, CommitExhausted, Retry, CommitFail, Requeue,
       FailTooLate, WorkerCrash
  <2> QED BY <1>5, <1>r, <2>1, <2>3, <2>4
<1>7. ASSUME NEW w \in Workers, CommitComplete(w) PROVE KeepInv'
  <2>1. PICK j \in Jobs : j = worker[w].job
    BY <1>7 DEF CommitComplete, TypeInv, HoldingJobs, Working
  <2>2. PICK status \in {"COMPLETED", "UNSUPPORTED"} :
          audio' = [audio EXCEPT ![j].status = status, ![j].stale = FALSE]
    BY <1>7, <2>1 DEF CommitComplete
  <2>3. audio'[j] = [audio[j] EXCEPT !.status = status, !.stale = FALSE]
    BY <1>t, <2>2
  <2>4. /\ audio'[j].status \in Ended /\ \A i \in Jobs \ {j} : audio'[i] = audio[i]
        /\ UNCHANGED <<files, processor>>
    BY <1>7, <1>t, <2>2, <2>3 DEF CommitComplete, Ended, AudioRow
  <2>5. /\ worker'[w].job = j
        /\ \A v \in Workers \ {w} : worker'[v] = worker[v]
    BY <1>7, <2>1, <1>t DEF CommitComplete, WorkerState
  <2>6. \A i \in Jobs : Active(i)' => Active(i)
    BY <2>4 DEF Active, Ended
  <2> QED BY <1>5, <1>r, <2>4, <2>5, <2>6
<1>8. ASSUME NEW w \in Workers,
             OpenFile(w) \/ GiveUp(w) \/ FailExhausted(w) \/ Complete(w) \/ Fail(w)
      PROVE  KeepInv'
  <2>1. UNCHANGED <<audio, files, processor>>
    BY <1>8 DEF OpenFile, GiveUp, FailExhausted, Complete, Fail
  <2>2. /\ \A v \in Workers \ {w} : worker'[v] = worker[v]
        /\ worker'[w].pc # "remove"
    <3>1. CASE OpenFile(w) BY <3>1, <1>t DEF OpenFile, WorkerState
    <3>2. CASE GiveUp(w) BY <3>2, <1>t DEF GiveUp, WorkerState
    <3>3. ASSUME NEW pc \in {"exhausting", "completing", "failing"}, NEW js,
                 BeginEnd(w, pc, js)
          PROVE  /\ \A v \in Workers \ {w} : worker'[v] = worker[v]
                 /\ worker'[w].pc # "remove"
      BY <3>3, <1>t DEF BeginEnd, WorkerState
    <3>4. CASE worker' = [worker EXCEPT ![w] = Idle("requeue")]
      BY <3>4, <1>t DEF Idle
    <3>5. CASE FailExhausted(w) BY <3>5, <3>3, <3>4 DEF FailExhausted
    <3>6. CASE Complete(w) BY <3>6, <3>3 DEF Complete
    <3>7. CASE Fail(w) BY <3>7, <3>3 DEF Fail
    <3> QED BY <1>8, <3>1, <3>2, <3>5, <3>6, <3>7
  <2> QED BY <1>5, <1>r, <2>1, <2>2 DEF Active
<1>9. ASSUME NEW w \in Workers, NEW j \in Jobs, Claim(w, j) \/ DropEntry(w, j)
      PROVE  KeepInv'
  <2>1. UNCHANGED <<files, processor>> BY <1>9 DEF Claim, DropEntry
  <2>2. \A i \in Jobs : Active(i)' => Active(i)
    BY <1>9, <1>t DEF Claim, ClaimableJob, Ready, DropEntry, Active, AudioRow
  <2>3. \A v \in Workers : worker'[v].pc = "remove" => worker'[v] = worker[v]
    <3>1. CASE Claim(w, j)
      <4>1. worker'[w].pc = "open" /\ \A v \in Workers \ {w} : worker'[v] = worker[v]
        BY <3>1, <1>t DEF Claim, Idle
      <4> QED BY <4>1
    <3>2. CASE DropEntry(w, j) BY <3>2 DEF DropEntry
    <3> QED BY <1>9, <3>1, <3>2
  <2> QED BY <1>5, <1>r, <2>1, <2>2, <2>3
<1>10. ASSUME NEW w \in Workers, RemoveFile(w) PROVE KeepInv'
  <2>1. PICK j \in Jobs : j = worker[w].job /\ audio[j].status \in Ended
    BY <1>10 DEF RemoveFile, KeepInv, TypeInv, HoldingJobs, Working
  <2>2. files' = files \ {RecordingOf[j]} /\ UNCHANGED <<audio, processor>>
    BY <1>10, <2>1 DEF RemoveFile
  <2>3. \A i \in Jobs : Active(i)' => RecordingOf[i] \in files'
    BY <2>1, <2>2 DEF Active, Ended, KeepInv
  <2>4. \A v \in Workers : worker'[v].pc = "remove" => worker'[v] = worker[v]
    BY <1>10, <1>t DEF RemoveFile, Idle
  <2>5. ASSUME NEW p \in Submitters PROVE FileOf(p)'
    <3>1. Job(p)' = Job(p) /\ File(p)' = File(p) /\ processor'[p] = processor[p]
      BY <2>2 DEF Job, File
    <3>2. processor[p].pc = "create" => Job(p) \in Jobs
      BY JobOfAssumption DEF TypeInv, HoldingNotes, Busy, Submitters, Job
    <3>3. processor[p].pc = "create" /\ audio[Job(p)].status = "ABSENT" =>
            File(p) \in files'
      BY <2>1, <2>2, <3>2 DEF KeepInv, FileOf, File, Ended
    <3> QED BY <2>2, <3>1, <3>3 DEF KeepInv, FileOf, Active
  <2> QED BY <1>r, <2>2, <2>3, <2>4, <2>5 DEF KeepInv
<1>11. ASSUME NEW j \in Jobs, ExpireAudio(j) \/ BackoffOver(j) \/ LoseEntries(j)
       PROVE  KeepInv'
  <2>1. UNCHANGED <<files, processor, worker>>
    BY <1>11 DEF ExpireAudio, BackoffOver, LoseEntries
  <2>2. \A i \in Jobs : Active(i)' => Active(i)
    BY <1>11, <1>t DEF ExpireAudio, BackoffOver, LoseEntries, Active, AudioRow
  <2> QED BY <1>5, <1>r, <2>1, <2>2
<1>12. CASE UNCHANGED vars
  BY <1>2, <1>12 DEF vars
<1> QED
  BY <1>1, <1>3, <1>4, <1>6, <1>7, <1>8, <1>9, <1>10, <1>11, <1>12
     DEF Next, ProcessorWork, WorkerWork, Clock, Submitters

\* The recording of a job is kept until the job has ended, where no two senders
\* send the same one, no commit of a submitter is misreported, and at no time two
\* submitters are at work on the same job.  Workers may be late and misinformed.
\* Without any of the three the code does lose it.
THEOREM JobKeepsRecordingOneAtWork ==
  ASSUME Submitters \cap LostAcks = {},
         \A i, j \in Jobs : RecordingOf[i] = RecordingOf[j] => i = j
  PROVE  Spec /\ []OneAtWork => []JobKeepsRecording
<1>1. Init => KeepInv
  <2> SUFFICES ASSUME Init PROVE KeepInv
      OBVIOUS
  <2>1. \A j \in Jobs : audio[j].status = "ABSENT" BY DEF Init, NewAudio
  <2>2. \A w \in Workers : worker[w].pc # "remove" BY DEF Init, Idle
  <2>3. \A p \in Submitters : processor[p].pc \in {"waiting", "reconcile"}
    BY DEF Init, Polling
  <2> QED BY <2>1, <2>2, <2>3 DEF KeepInv, Active, FileOf
<1>2. KeepInv => JobKeepsRecording BY DEF KeepInv, Active, JobKeepsRecording
<1>3. TypeInv /\ TypeInv' /\ KeepInv /\ OneAtWork /\ [Next]_vars => KeepInv'
  BY KeepStep
<1> QED BY TypeInit, TypeStep, <1>1, <1>2, <1>3, PTL DEF Spec

-------------------------------------------------------------------------------
(***************************************************************************)
(* Several processors.  A processor that is not late has its note to       *)
(* itself, through every retry of it, and an upload itself.                *)
(***************************************************************************)

Holds(p, m) == processor[p].pc \in Busy /\ processor[p].msg = m

\* Nobody else holds the note, and nobody else may claim it.
HeldOnce(m) ==
  \A p \in Processors : Holds(p, m) =>
    /\ inbound[m].status # "ABSENT"
    /\ ~Waiting(inbound[m]) /\ ~Abandoned(inbound[m])
    /\ \A q \in Processors \ {p} : ~Holds(q, m)

HolderInv ==
  /\ \A m \in Notes : HeldOnce(m)
  /\ \A u \in Uploads : processor[u].pc \in Busy => processor[u].msg = u

LEMMA HolderInit == Init => HolderInv
<1> SUFFICES ASSUME Init PROVE HolderInv
    OBVIOUS
<1>1. \A p \in Submitters : processor[p].pc \in {"waiting", "reconcile"}
  BY DEF Init, Polling
<1> QED BY <1>1 DEF HolderInv, HeldOnce, Holds, Busy, Submitters

\* A note that nobody takes up in this step, and that the step does not make ready
\* to be claimed while somebody holds it.
LEMMA HoldersStay ==
  ASSUME HolderInv, NEW m \in Notes,
         \A p \in Processors : Holds(p, m)' =>
           /\ Holds(p, m)
           /\ \/ inbound'[m] = inbound[m]
              \/ /\ inbound'[m].status # "ABSENT"
                 /\ ~Waiting(inbound'[m]) /\ ~Abandoned(inbound'[m])
  PROVE  HeldOnce(m)'
BY DEF HolderInv, HeldOnce

\* Going on with what it holds, or letting go of it, a submitter takes up nothing.
LEMMA MovesHold ==
  ASSUME TypeInv, NEW p \in Submitters, Moves(p)
  PROVE  \A q \in Submitters :
           /\ \A m : Holds(q, m)' => Holds(q, m)
           /\ processor'[q].pc \in Busy =>
                processor[q].pc \in Busy /\ processor'[q].msg = processor[q].msg
BY DEF Moves, Holds, TypeInv, TypeOK

\* A row that was ended is not taken up any more.
LEMMA EndedRowsRest ==
  ASSUME NEW max \in Nat, NEW row \in InboundRows(max)
  PROVE  /\ ~Waiting(CompletedRow(row)) /\ ~Abandoned(CompletedRow(row))
         /\ ~Waiting(FailedRow(row)) /\ ~Abandoned(FailedRow(row))
         /\ CompletedRow(row).status # "ABSENT" /\ FailedRow(row).status # "ABSENT"
BY DEF InboundRows, CompletedRow, FailedRow, Waiting, Abandoned

LEMMA HolderStep ==
  ASSUME Processors \cap Late = {}
  PROVE  TypeInv /\ HolderInv /\ [Next]_vars => HolderInv'
<1> SUFFICES ASSUME TypeInv, HolderInv, [Next]_vars PROVE HolderInv'
    OBVIOUS
<1>t. /\ inbound \in [Notes -> InboundRows(MaxAttempts)]
      /\ processor \in [Submitters -> ProcessorState]
  BY DEF TypeInv, TypeOK
<1>n. MaxAttempts \in Nat BY BoundsAssumption
<1>1. ASSUME UNCHANGED processor,
             \A m \in Notes :
               \/ inbound'[m] = inbound[m]
               \/ /\ inbound'[m].status # "ABSENT"
                  /\ ~Waiting(inbound'[m]) /\ ~Abandoned(inbound'[m])
               \/ \A p \in Processors : ~Holds(p, m)
      PROVE  HolderInv'
  <2>1. \A p \in Processors, m \in Notes : Holds(p, m)' <=> Holds(p, m)
    BY <1>1 DEF Holds
  <2>2. \A m \in Notes : HeldOnce(m)' BY <1>1, <2>1, HoldersStay
  <2> QED BY <1>1, <2>2 DEF HolderInv
<1>2. ASSUME NEW p \in Submitters, Moves(p),
             \A m \in Notes :
               \/ inbound'[m] = inbound[m]
               \/ /\ inbound'[m].status # "ABSENT"
                  /\ ~Waiting(inbound'[m]) /\ ~Abandoned(inbound'[m])
               \/ \A q \in Processors : ~Holds(q, m)'
      PROVE  HolderInv'
  <2>1. \A q \in Processors, m \in Notes : Holds(q, m)' => Holds(q, m)
    BY <1>2, MovesHold DEF Submitters
  <2>2. \A m \in Notes : HeldOnce(m)' BY <1>2, <2>1, HoldersStay
  <2>3. \A u \in Uploads : processor'[u].pc \in Busy => processor'[u].msg = u
    BY <1>2, MovesHold DEF HolderInv, Submitters
  <2> QED BY <2>2, <2>3 DEF HolderInv
<1>3. ASSUME NEW p \in Submitters,
             \/ Submit(p) \/ ProcessorCrash(p) \/ NothingToReconcile(p)
             \/ NoInboundWork(p) \/ CompleteInboundTooLate(p)
      PROVE  HolderInv'
  <2>1. UNCHANGED inbound
    BY <1>3 DEF Submit, Refuse, FindFile, RenameFile, ProbeRefuses, ProbeAccepts,
       CreateRefused, GetExisting, Create, DiscardFile, Enqueue, EnqueueFails,
       ProcessorCrash, NothingToReconcile, NoInboundWork, CompleteInboundTooLate
  <2>2. Moves(p) BY <1>3, SubmitterMoves
  <2> QED BY <1>2, <2>1, <2>2
<1>4. ASSUME NEW p \in Processors, RetryInbound(p) \/ CompleteInbound(p)
      PROVE  HolderInv'
  <2>1. p \in Submitters /\ Moves(p) BY <1>4, SubmitterMoves DEF Submitters
  <2>2. PICK m \in Notes : m = processor[p].msg /\ Holds(p, m)
    BY <1>4 DEF RetryInbound, CompleteInbound, TypeInv, HoldingNotes, Busy, Holds
  <2>3. \A n \in Notes \ {m} : inbound'[n] = inbound[n]
    BY <1>4, <2>2, <1>t DEF RetryInbound, CompleteInbound
  <2>4. processor'[p].pc \notin Busy
    BY <1>4, <2>1, <1>t DEF RetryInbound, CompleteInbound, Polling, Busy
  <2>5. \A q \in Processors : ~Holds(q, m)'
    BY <2>1, <2>2, <2>4, MovesHold DEF HolderInv, HeldOnce, Holds, Submitters
  <2> QED BY <1>2, <2>1, <2>3, <2>5
<1>5. ASSUME NEW p \in Processors, NEW m \in Notes, ClaimInbound(p, m)
      PROVE  HolderInv'
  <2>1. \A q \in Processors : ~Holds(q, m)
    BY <1>5 DEF ClaimInbound, Claimable, Orphaned, HolderInv, HeldOnce
  <2>2. /\ inbound'[m] = ClaimedRow(inbound[m])
        /\ \A n \in Notes \ {m} : inbound'[n] = inbound[n]
    BY <1>5, <1>t DEF ClaimInbound
  <2>3. /\ inbound'[m].status # "ABSENT"
        /\ ~Waiting(inbound'[m]) /\ ~Abandoned(inbound'[m])
    BY <2>2 DEF ClaimedRow, Waiting, Abandoned
  <2>4. /\ processor'[p].msg = m
        /\ \A q \in Submitters \ {p} : processor'[q] = processor[q]
    BY <1>5, <1>t DEF ClaimInbound, Submitters, Polling
  <2>5. HeldOnce(m)' BY <2>1, <2>3, <2>4 DEF HeldOnce, Holds, Submitters
  <2>6. \A n \in Notes \ {m} : HeldOnce(n)'
    BY <2>2, <2>4, HoldersStay DEF Holds, Submitters
  <2>7. \A u \in Uploads : processor'[u] = processor[u]
    BY <2>4, UploadsAssumption DEF Submitters
  <2> QED BY <2>5, <2>6, <2>7 DEF HolderInv
<1>6. ASSUME NEW u \in Uploads, Upload(u) PROVE HolderInv'
  <2>1. /\ processor'[u].msg = u /\ UNCHANGED inbound
        /\ \A q \in Submitters \ {u} : processor'[q] = processor[q]
    BY <1>6, <1>t DEF Upload, Submitters, Polling
  <2>2. \A q \in Processors : processor'[q] = processor[q]
    BY <2>1, UploadsAssumption DEF Submitters
  <2>3. \A m \in Notes : HeldOnce(m)' BY <2>1, <2>2, HoldersStay DEF Holds
  <2> QED BY <2>1, <2>3 DEF HolderInv, Submitters
<1>7. ASSUME NEW m \in Notes,
             \/ Receive(m) \/ ExpireInbound(m)
             \/ \E p \in Processors : ReconcileInbound(p, m)
      PROVE  HolderInv'
  <2>1. UNCHANGED processor /\ \A n \in Notes \ {m} : inbound'[n] = inbound[n]
    BY <1>7, <1>t DEF Receive, ExpireInbound, ReconcileInbound
  <2>2. CASE Receive(m)
    <3>1. \A p \in Processors : ~Holds(p, m)
      BY <2>2 DEF Receive, HolderInv, HeldOnce
    <3> QED BY <1>1, <2>1, <3>1
  <2>3. CASE ExpireInbound(m)
    <3>1. \A p \in Processors : ~Holds(p, m)
      BY <2>3 DEF ExpireInbound, HoldsNote, Holds, Busy
    <3> QED BY <1>1, <2>1, <3>1
  <2>4. CASE \E p \in Processors : ReconcileInbound(p, m)
    <3>1. inbound'[m] \in {CompletedRow(inbound[m]), FailedRow(inbound[m])}
      BY <2>4, <1>t DEF ReconcileInbound
    <3>2. inbound[m] \in InboundRows(MaxAttempts) BY <1>t
    <3>3. /\ inbound'[m].status # "ABSENT"
          /\ ~Waiting(inbound'[m]) /\ ~Abandoned(inbound'[m])
      BY <1>n, <3>1, <3>2, EndedRowsRest
    <3> QED BY <1>1, <2>1, <3>3
  <2> QED BY <1>7, <2>2, <2>3, <2>4
<1>8. ASSUME NEW w \in Workers,
             CommitExhausted(w) \/ CommitComplete(w) \/ CommitFail(w)
      PROVE  HolderInv'
  <2>1. PICK kind : EndMessages(w, kind)
    BY <1>8 DEF CommitExhausted, CommitComplete, CommitFail
  <2>2. UNCHANGED processor
    BY <1>8 DEF CommitExhausted, CommitComplete, CommitFail
  <2>3. ASSUME NEW m \in Notes
        PROVE  \/ inbound'[m] = inbound[m]
               \/ /\ inbound'[m].status # "ABSENT"
                  /\ ~Waiting(inbound'[m]) /\ ~Abandoned(inbound'[m])
    <3>1. inbound'[m] \in {inbound[m], CompletedRow(inbound[m]), FailedRow(inbound[m])}
      BY <2>1 DEF EndMessages, EndedRow
    <3>2. inbound[m] \in InboundRows(MaxAttempts) BY <1>t
    <3> QED BY <1>n, <3>1, <3>2, EndedRowsRest
  <2> QED BY <1>1, <2>2, <2>3
<1>9. ASSUME NEW w \in Workers,
             \/ RecoverStalled(w) \/ FailExhausted(w) \/ Requeue(w) \/ OpenFile(w)
             \/ Complete(w) \/ GiveUp(w) \/ Retry(w) \/ Fail(w) \/ FailTooLate(w)
             \/ RemoveFile(w) \/ WorkerCrash(w)
             \/ \E j \in Jobs : Claim(w, j) \/ DropEntry(w, j)
      PROVE  HolderInv'
  BY <1>1, <1>9 DEF RecoverStalled, FailExhausted, Requeue, OpenFile, Complete, GiveUp,
     Retry, Fail, FailTooLate, RemoveFile, WorkerCrash, Claim, DropEntry
<1>10. ASSUME NEW j \in Jobs, ExpireAudio(j) \/ BackoffOver(j) \/ LoseEntries(j)
       PROVE  HolderInv'
  BY <1>1, <1>10 DEF ExpireAudio, BackoffOver, LoseEntries
<1>11. CASE UNCHANGED vars
  BY <1>1, <1>11 DEF vars
<1> QED
  BY <1>3, <1>4, <1>5, <1>6, <1>7, <1>8, <1>9, <1>10, <1>11
     DEF Next, ProcessorWork, WorkerWork, Clock, Submitters

\* The recording of a job is kept until the job has ended, where every recording is
\* sent once and by one sender, no processor is late and no commit of a submitter is
\* misreported: whatever the number of processors and of retries, what Redis refuses
\* or loses, and what becomes of the workers.
THEOREM JobKeepsRecordingSentOnce ==
  ASSUME Submitters \cap LostAcks = {}, Processors \cap Late = {},
         \A i, j \in Jobs : RecordingOf[i] = RecordingOf[j] => i = j,
         \A m, n \in Notes \union Uploads : JobOf[m] = JobOf[n] => m = n
  PROVE  Spec => []JobKeepsRecording
<1>1. TypeInv /\ HolderInv => OneAtWork
  <2> SUFFICES ASSUME TypeInv, HolderInv, NEW p \in Submitters, NEW q \in Submitters,
                      AtWork(p), AtWork(q), Job(p) = Job(q)
               PROVE  p = q
      BY DEF OneAtWork
  <2>1. processor[p].pc \in Busy /\ processor[q].pc \in Busy BY DEF AtWork, Busy
  <2>2. /\ processor[p].msg \in Notes \union Uploads
        /\ processor[q].msg \in Notes \union Uploads
    BY <2>1 DEF TypeInv, HoldingNotes, Submitters
  <2>3. processor[p].msg = processor[q].msg BY <2>2 DEF Job
  <2>4. CASE p \in Processors /\ q \in Processors
    <3>1. processor[p].msg \in Notes BY <2>1, <2>4 DEF TypeInv, HoldingNotes
    <3> QED BY <2>1, <2>3, <2>4, <3>1 DEF HolderInv, HeldOnce, Holds
  <2>5. CASE p \in Uploads /\ q \in Uploads
    BY <2>1, <2>3, <2>5 DEF HolderInv
  <2>6. CASE (p \in Uploads /\ q \in Processors) \/ (p \in Processors /\ q \in Uploads)
    BY <2>1, <2>3, <2>6, UploadsAssumption DEF TypeInv, HoldingNotes
  <2> QED BY <2>4, <2>5, <2>6 DEF Submitters
<1>2. TypeInv /\ HolderInv /\ [Next]_vars => HolderInv' BY HolderStep
<1> QED BY TypeInit, TypeStep, HolderInit, <1>1, <1>2, JobKeepsRecordingOneAtWork,
        PTL DEF Spec
===============================================================================
