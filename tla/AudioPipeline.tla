----------------------------- MODULE AudioPipeline -----------------------------
(***************************************************************************)
(* The path of a recording.  As a voice note, from the row the webhook     *)
(* saves to the reply in the outbox: the intake processors inside cmd/api, *)
(* the files and jobs that transcription.Service makes, the Redis stream,  *)
(* and the audio workers (worker.py).  As an upload, from the request to   *)
(* its response: the same service and workers, and no message.             *)
(*                                                                         *)
(* A job is one sender's recording: sent again, either way, it finds the   *)
(* job of the first.  A recording is one file, whoever sends it.           *)
(*                                                                         *)
(* Simplifications, besides those of TextPipeline:                         *)
(*  - The stream is a bag: nothing depends on its order.  An entry that    *)
(*    was read and never acknowledged is back in the bag.                  *)
(*  - recover_pending adds the entries in the step that selects the jobs.  *)
(*    An entry may be read at any later time, so nothing is lost by it.    *)
(*  - The three provider calls are one step of the worker.                 *)
(*  - A transaction is one step, except those that end jobs: they update   *)
(*    the messages of the jobs in one statement and insert the replies in  *)
(*    another, and each statement sees what was committed when it began.   *)
(*    They are two steps, and hold the rows they have written in between.  *)
(***************************************************************************)
EXTENDS Naturals, FiniteSets, InboundRow

CONSTANTS
  Notes,                \* voice notes, by WhatsApp message id
  Uploads,              \* HTTP requests that upload a recording
  Jobs,                 \* transcriptions, by sender and content_sha256
  JobOf,                \* JobOf[m], the job a voice note or an upload leads to
  CreatedAt,            \* CreatedAt[m], created_at of the row of a voice note
  Recordings,           \* files, by content_sha256 and extension
  RecordingOf,          \* RecordingOf[j], the file of a job
  NoNote,               \* what a processor that holds no message holds
  NoJob,                \* what a worker that holds no job holds
  Processors,           \* intake loops, one in each cmd/api process
  Workers,              \* audio workers
  MaxAttempts,          \* maxAttempts of whatsapp.Processor
  MaxProviderAttempts,  \* PROVIDER_MAX_ATTEMPTS of the workers
  MaxEntries,           \* bound on the stream's entries for one job
  Late,                 \* processes that may outlive the staleness limit
  LostAcks,             \* those that may be told of an error by a commit that
                        \* succeeded
  Refusals,             \* may Redis refuse an entry?
  Losses                \* may Redis lose its entries?

ASSUME JobOfAssumption ==
  JobOf \in [Notes \union Uploads -> Jobs] /\ RecordingOf \in [Jobs -> Recordings]
ASSUME CreatedAtAssumption == CreatedAt \in [Notes -> Nat]
ASSUME NobodyAssumption == NoNote \notin Notes \union Uploads /\ NoJob \notin Jobs
ASSUME UploadsAssumption == Uploads \intersect (Notes \union Processors) = {}
ASSUME BoundsAssumption ==
  /\ MaxAttempts \in Nat \ {0}
  /\ MaxProviderAttempts \in Nat \ {0}
  /\ MaxEntries \in Nat \ {0}
ASSUME FaultsAssumption ==
  /\ Late \subseteq Processors \union Workers
  /\ LostAcks \subseteq Processors \union Uploads \union Workers
  /\ Refusals \in BOOLEAN /\ Losses \in BOOLEAN

VARIABLES
  inbound,    \* table whatsapp_inbound_messages, by voice note
  linked,     \* is transcription_id of the row not NULL?
  audio,      \* table transcriptions
  files,      \* recordings in the audio directory
  stream,     \* Redis stream: entries not acknowledged, by job
  reply,      \* table whatsapp_outbound_messages, by source message
  processor,  \* local state of each intake loop and of each upload
  worker      \* local state of each worker

vars == <<inbound, linked, audio, files, stream, reply, processor, worker>>

-------------------------------------------------------------------------------

\* "UNSUPPORTED" is COMPLETED without a target language and a translation.
AudioStatuses ==
  {"ABSENT", "PENDING", "PROCESSING", "COMPLETED", "UNSUPPORTED", "FAILED"}

Ended == {"COMPLETED", "UNSUPPORTED", "FAILED"}

\* due: next_attempt_at has come; stale: PROCESSING and updated_at is too old.
AudioRow == [status : AudioStatuses, attempts : 0..MaxProviderAttempts,
             due : BOOLEAN, stale : BOOLEAN]

\* "none" is no row in the outbox yet.
Replies == {"none", "notice", "result", "unsupported", "failed", "exhausted"}

\* An upload is its own submitter: the API serves each request on its own.
Submitters == Processors \union Uploads

\* created is StoredFile.Created; result is what the message comes to, and of an
\* upload the response: "deferred" is 202, "notice" an error.
ProcessorState ==
  [pc : {"reconcile", "claim", "process", "rename", "probe", "create",
         "discard", "enqueue", "settle", "waiting", "answered"},
   msg : Notes \union Uploads \union {NoNote},
   attempts : 0..MaxAttempts,
   created : BOOLEAN,
   result : {"none", "retry", "notice", "deferred"}]

\* ending and ended are the jobs and the messages that the open transaction of the
\* worker has updated.
WorkerState ==
  [pc : {"recover", "exhaust", "exhausting", "requeue", "read", "open",
         "provider", "completing", "fail", "failing", "remove"},
   job : Jobs \union {NoJob},
   attempts : 0..MaxProviderAttempts,
   ending : SUBSET Jobs,
   ended : SUBSET Notes]

TypeOK ==
  /\ inbound \in [Notes -> InboundRows(MaxAttempts)]
  /\ linked \in [Notes -> BOOLEAN]
  /\ audio \in [Jobs -> AudioRow]
  /\ files \in SUBSET Recordings
  /\ stream \in [Jobs -> 0..MaxEntries]
  /\ reply \in [Notes -> Replies]
  /\ processor \in [Submitters -> ProcessorState]
  /\ worker \in [Workers -> WorkerState]

NewAudio == [status |-> "PENDING", attempts |-> 0, due |-> TRUE, stale |-> FALSE]

Polling(pc) == [pc |-> pc, msg |-> NoNote, attempts |-> 0, created |-> FALSE,
                result |-> "none"]

Idle(pc) == [pc |-> pc, job |-> NoJob, attempts |-> 0, ending |-> {}, ended |-> {}]

Init ==
  /\ inbound = [m \in Notes |-> NoRow]
  /\ linked = [m \in Notes |-> FALSE]
  /\ audio = [j \in Jobs |-> [NewAudio EXCEPT !.status = "ABSENT"]]
  /\ files = {}
  /\ stream = [j \in Jobs |-> 0]
  /\ reply = [m \in Notes |-> "none"]
  /\ processor = [p \in Submitters |->
       Polling(IF p \in Uploads THEN "waiting" ELSE "reconcile")]
  /\ worker = [w \in Workers |-> Idle("recover")]

-------------------------------------------------------------------------------
\* The webhook.

Receive(m) ==
  /\ inbound[m].status = "ABSENT"
  /\ inbound' = [inbound EXCEPT ![m] = NewRow]
  /\ UNCHANGED <<linked, audio, files, stream, reply, processor, worker>>

-------------------------------------------------------------------------------
\* The intake loop: reconciling and claiming.

\* A row that a worker has updated and not committed.  Reconciling and claiming
\* pass over it (SKIP LOCKED), other statements wait.
RowLocked(m) == \E w \in Workers : m \in worker[w].ended

\* The job of the message, as the LEFT JOIN on transcription_id finds it.
JobStatus(m) == IF linked[m] THEN audio[JobOf[m]].status ELSE "ABSENT"

Orphaned(m) == Abandoned(inbound[m]) /\ ~linked[m]

\* Mutant: without the first disjunct.
MutReconcilable(m) ==
  /\ inbound[m].attempts >= MaxAttempts
  /\ inbound[m].status \in {"PENDING", "FAILED"} \/ Orphaned(m)

\* WHERE of ReconcileInbound.
Reconcilable(m) ==
  \/ inbound[m].status = "PROCESSING" /\ JobStatus(m) \in Ended
  \/ /\ inbound[m].attempts >= MaxAttempts
     /\ inbound[m].status \in {"PENDING", "FAILED"} \/ Orphaned(m)

\* Mutant: without AND transcription_id IS NULL.
MutClaimable(m) ==
  /\ inbound[m].attempts < MaxAttempts
  /\ Waiting(inbound[m]) \/ Abandoned(inbound[m])

\* WHERE of ClaimInbound.
Claimable(m) ==
  /\ inbound[m].attempts < MaxAttempts
  /\ Waiting(inbound[m]) \/ Orphaned(m)

\* Mutant: without the look at the target language.
MutReconciled(m) ==
  CASE JobStatus(m) \in {"COMPLETED", "UNSUPPORTED"} -> "result"
    [] JobStatus(m) = "FAILED" -> "failed"
    [] OTHER -> "exhausted"

\* How ReconcileInbound ends the message.  A job in an unsupported language has
\* no target language and is taken for no result at all.
Reconciled(m) ==
  CASE JobStatus(m) = "COMPLETED" -> "result"
    [] JobStatus(m) = "FAILED" -> "failed"
    [] OTHER -> "exhausted"

AddReply(m, kind) ==
  reply' = IF reply[m] = "none" THEN [reply EXCEPT ![m] = kind] ELSE reply

\* How many rows the other processors may be reconciling at this moment.
OthersReconciling(p) ==
  Cardinality({q \in Processors \ {p} : processor[q].pc = "reconcile"})

Unreconciled == {m \in Notes : Reconcilable(m) /\ ~RowLocked(m)}

\* ORDER BY created_at LIMIT 1: an older row is passed over only if it is locked.
Oldest(p, m) ==
  Cardinality({n \in Unreconciled : CreatedAt[n] < CreatedAt[m]}) <=
    OthersReconciling(p)

ReconcileInbound(p, m) ==
  /\ processor[p].pc = "reconcile"
  /\ m \in Unreconciled /\ Oldest(p, m)
  /\ inbound' = [inbound EXCEPT ![m] =
       IF Reconciled(m) = "result" THEN CompletedRow(@) ELSE FailedRow(@)]
  /\ AddReply(m, Reconciled(m))
  /\ UNCHANGED <<linked, audio, files, stream, processor, worker>>

\* No row that could be locked.
NothingToReconcile(p) ==
  /\ processor[p].pc = "reconcile"
  /\ Cardinality(Unreconciled) <= OthersReconciling(p)
  /\ processor' = [processor EXCEPT ![p] = Polling("claim")]
  /\ UNCHANGED <<inbound, linked, audio, files, stream, reply, worker>>

\* The oldest row first, of those whose time has come: after a back-off it may be
\* any.
ClaimInbound(p, m) ==
  /\ processor[p].pc = "claim"
  /\ Claimable(m) /\ ~RowLocked(m)
  /\ inbound' = [inbound EXCEPT ![m] = ClaimedRow(@)]
  /\ processor' = [processor EXCEPT ![p] =
       [Polling("process") EXCEPT !.msg = m, !.attempts = inbound[m].attempts + 1]]
  /\ UNCHANGED <<linked, audio, files, stream, reply, worker>>

NoInboundWork(p) ==
  /\ processor[p].pc = "claim"
  /\ \A m \in Notes : Claimable(m) => RowLocked(m)
  /\ processor' = [processor EXCEPT ![p] = Polling("reconcile")]
  /\ UNCHANGED <<inbound, linked, audio, files, stream, reply, worker>>

-------------------------------------------------------------------------------
\* processAudio and create, and transcription.Service.submit, which both call.

\* create, let through by the limiter.  Who was not told 202 may try again.
Upload(u) ==
  /\ processor[u].pc \in {"waiting", "answered"}
  /\ processor[u].result # "deferred"
  /\ processor' = [processor EXCEPT ![u] = [Polling("process") EXCEPT !.msg = u]]
  /\ UNCHANGED <<inbound, linked, audio, files, stream, reply, worker>>

Job(p) == JobOf[processor[p].msg]
File(p) == RecordingOf[Job(p)]

\* create responds: 202 with the job, or an error, whose wording tells what of.
Responded(result) == [Polling("answered") EXCEPT !.result = result]

\* process returned, and a deferred message is left to its job; or the upload is
\* responded to.
Finish(p, result) ==
  processor' = [processor EXCEPT ![p] =
    IF p \in Uploads THEN Responded(result)
    ELSE IF result = "deferred" THEN Polling("reconcile")
    ELSE [@ EXCEPT !.pc = "settle", !.result = result]]

\* submit returns; it first deletes the file it created.
Leave(p, result) ==
  IF processor[p].created
  THEN processor' = [processor EXCEPT ![p].pc = "discard", ![p].result = result]
  ELSE Finish(p, result)

\* A transient error is retried while attempts are left, and answered after;
\* nobody but the client retries an upload.
TransientResult(p) ==
  IF p \in Processors /\ processor[p].attempts < MaxAttempts
  THEN "retry" ELSE "notice"

\* Not registered, disabled (perhaps by this very job, when its entry could not
\* be added), over a limit, too large, of a type that is not supported; or an
\* error of the database, the limiter, the media API or the disk.
Refuse(p) ==
  /\ processor[p].pc = "process"
  /\ \E result \in {"notice", TransientResult(p)} : Finish(p, result)
  /\ UNCHANGED <<inbound, linked, audio, files, stream, reply, worker>>

\* FileStorage.Store finds the file ...
FindFile(p) ==
  /\ processor[p].pc = "process"
  /\ processor' = [processor EXCEPT ![p].pc =
       IF File(p) \in files THEN "probe" ELSE "rename"]
  /\ UNCHANGED <<inbound, linked, audio, files, stream, reply, worker>>

\* ... or renames its own to that name, whoever has done so meanwhile.
RenameFile(p) ==
  /\ processor[p].pc = "rename"
  /\ files' = files \union {File(p)}
  /\ processor' = [processor EXCEPT ![p].pc = "probe", ![p].created = TRUE]
  /\ UNCHANGED <<inbound, linked, audio, stream, reply, worker>>

\* ffprobe cannot read the file, or finds it too long; it cannot read a file
\* that is not there.
ProbeRefuses(p) ==
  /\ processor[p].pc = "probe"
  /\ Leave(p, "notice")
  /\ UNCHANGED <<inbound, linked, audio, files, stream, reply, worker>>

ProbeAccepts(p) ==
  /\ processor[p].pc = "probe"
  /\ File(p) \in files
  /\ processor' = [processor EXCEPT ![p].pc = "create"]
  /\ UNCHANGED <<inbound, linked, audio, files, stream, reply, worker>>

\* CreateOrGetAccepted rolls back: the sender or a quota refuses, or linkInbound
\* finds that the message is not PROCESSING any more, or a statement fails.
CreateRefused(p) ==
  /\ processor[p].pc = "create"
  /\ \E result \in {"notice", TransientResult(p)} : Leave(p, result)
  /\ UNCHANGED <<inbound, linked, audio, files, stream, reply, worker>>

\* linkInbound, which has nothing to do for an upload.
Linkable(p) ==
  p \in Processors =>
    inbound[processor[p].msg].status = "PROCESSING" /\ ~RowLocked(processor[p].msg)

Link(p) ==
  linked' = [m \in Notes |-> linked[m] \/ m = processor[p].msg]

\* CreateOrGetAccepted finds the job, links the message to it, and leaves it.
GetExisting(p) ==
  /\ processor[p].pc = "create"
  /\ Linkable(p)
  /\ audio[Job(p)].status # "ABSENT"
  /\ Link(p)
  /\ \/ Leave(p, "deferred")
     \/ p \in LostAcks /\ Leave(p, TransientResult(p))
  /\ UNCHANGED <<inbound, audio, files, stream, reply, worker>>

\* CreateOrGetAccepted inserts the job and links the message to it.
Create(p) ==
  /\ processor[p].pc = "create"
  /\ Linkable(p)
  /\ audio[Job(p)].status = "ABSENT"
  /\ audio' = [audio EXCEPT ![Job(p)] = NewAudio]
  /\ Link(p)
  /\ \/ processor' = [processor EXCEPT ![p].pc = "enqueue"]
     \/ p \in LostAcks /\ Leave(p, TransientResult(p))
  /\ UNCHANGED <<inbound, files, stream, reply, worker>>

DiscardFile(p) ==
  /\ processor[p].pc = "discard"
  /\ files' = files \ {File(p)}
  /\ Finish(p, processor[p].result)
  /\ UNCHANGED <<inbound, linked, audio, stream, reply, worker>>

\* XADD.  Beyond the bound an entry more makes no difference.
Added(entries) == IF entries < MaxEntries THEN entries + 1 ELSE entries

Enqueue(p) ==
  /\ processor[p].pc = "enqueue"
  /\ stream' = [stream EXCEPT ![Job(p)] = Added(@)]
  /\ Finish(p, "deferred")
  /\ UNCHANGED <<inbound, linked, audio, files, reply, worker>>

EnqueueFails(p) ==
  /\ Refusals
  /\ processor[p].pc = "enqueue"
  /\ Finish(p, TransientResult(p))
  /\ UNCHANGED <<inbound, linked, audio, files, stream, reply, worker>>

RetryInbound(p) ==
  /\ processor[p].pc = "settle"
  /\ processor[p].result = "retry"
  /\ inbound[processor[p].msg].status = "PROCESSING" => ~RowLocked(processor[p].msg)
  /\ inbound' = [inbound EXCEPT ![processor[p].msg] = RetriedRow(@)]
  /\ processor' = [processor EXCEPT ![p] = Polling("reconcile")]
  /\ UNCHANGED <<linked, audio, files, stream, reply, worker>>

CompleteInbound(p) ==
  LET m == processor[p].msg IN
  /\ processor[p].pc = "settle"
  /\ processor[p].result = "notice"
  /\ inbound[m].status = "PROCESSING" /\ ~RowLocked(m)
  /\ inbound' = [inbound EXCEPT ![m] = CompletedRow(@)]
  /\ AddReply(m, "notice")
  /\ processor' = [processor EXCEPT ![p] = Polling("reconcile")]
  /\ UNCHANGED <<linked, audio, files, stream, worker>>

CompleteInboundTooLate(p) ==
  /\ processor[p].pc = "settle"
  /\ processor[p].result = "notice"
  /\ inbound[processor[p].msg].status # "PROCESSING"
  /\ processor' = [processor EXCEPT ![p] = Polling("reconcile")]
  /\ UNCHANGED <<inbound, linked, audio, files, stream, reply, worker>>

\* The client of an upload is told nothing and may try again.
ProcessorCrash(p) ==
  /\ processor[p].pc \notin {"reconcile", "claim", "waiting", "answered"}
  /\ processor' = [processor EXCEPT ![p] =
       Polling(IF p \in Uploads THEN "waiting" ELSE "reconcile")]
  /\ UNCHANGED <<inbound, linked, audio, files, stream, reply, worker>>

-------------------------------------------------------------------------------
\* The audio worker: Worker.recover_pending.

LinkedTo(js) == {m \in Notes : linked[m] /\ JobOf[m] \in js}

EndedRow(row, kind) ==
  IF kind = "failed" THEN FailedRow(row) ELSE CompletedRow(row)

\* A row of transcriptions that a worker has updated and not committed.
Locked(j) == \E w \in Workers : j \in worker[w].ending

\* The UPDATE of the jobs, and that of the messages linked to them by now.
BeginEnd(w, pc, js) ==
  worker' = [worker EXCEPT ![w].pc = pc, ![w].ending = js, ![w].ended = LinkedTo(js)]

\* Mutant: without ON CONFLICT DO NOTHING, replies are replaced.
MutEndMessages(w, kind) ==
  /\ inbound' = [m \in Notes |->
       IF m \in worker[w].ended THEN EndedRow(inbound[m], kind) ELSE inbound[m]]
  /\ reply' = [m \in Notes |->
       IF m \in LinkedTo(worker[w].ending) THEN kind ELSE reply[m]]

\* The INSERT of the replies that the messages linked by now have not, whether or
\* not the UPDATE has seen them; and the commit.
EndMessages(w, kind) ==
  /\ inbound' = [m \in Notes |->
       IF m \in worker[w].ended THEN EndedRow(inbound[m], kind) ELSE inbound[m]]
  /\ reply' = [m \in Notes |->
       IF m \in LinkedTo(worker[w].ending) /\ reply[m] = "none" THEN kind ELSE reply[m]]

Stalled(j) == audio[j].status = "PROCESSING" /\ audio[j].stale

\* At the start, and between two reads once a minute has passed.
RecoverStalled(w) ==
  /\ worker[w].pc \in {"recover", "read"}
  /\ \A j \in Jobs : Stalled(j) => ~Locked(j)
  /\ audio' = [j \in Jobs |->
       IF Stalled(j)
       THEN [audio[j] EXCEPT !.status = "PENDING", !.stale = FALSE] ELSE audio[j]]
  /\ worker' = [worker EXCEPT ![w] = Idle("exhaust")]
  /\ UNCHANGED <<inbound, linked, files, stream, reply, processor>>

\* Mutant: a job may be tried once more.
MutExhausted(j) ==
  audio[j].status = "PENDING" /\ audio[j].attempts > MaxProviderAttempts

Exhausted(j) ==
  audio[j].status = "PENDING" /\ audio[j].attempts >= MaxProviderAttempts

FailExhausted(w) ==
  LET js == {j \in Jobs : Exhausted(j)} IN
  /\ worker[w].pc = "exhaust"
  /\ \A j \in js : ~Locked(j)
  /\ IF js = {} THEN worker' = [worker EXCEPT ![w] = Idle("requeue")]
     ELSE BeginEnd(w, "exhausting", js)
  /\ UNCHANGED <<inbound, linked, audio, files, stream, reply, processor>>

CommitExhausted(w) ==
  /\ worker[w].pc = "exhausting"
  /\ audio' = [j \in Jobs |->
       IF j \in worker[w].ending THEN [audio[j] EXCEPT !.status = "FAILED"] ELSE audio[j]]
  /\ EndMessages(w, "failed")
  /\ worker' = [worker EXCEPT ![w] = Idle("requeue")]
  /\ UNCHANGED <<linked, files, stream, processor>>

\* WHERE of pending_ids, and of claim but for the id.
Ready(j) ==
  /\ audio[j].status = "PENDING" /\ audio[j].due
  /\ audio[j].attempts < MaxProviderAttempts

Requeue(w) ==
  /\ worker[w].pc = "requeue"
  /\ stream' = [j \in Jobs |-> IF Ready(j) THEN Added(stream[j]) ELSE stream[j]]
  /\ worker' = [worker EXCEPT ![w] = Idle("read")]
  /\ UNCHANGED <<inbound, linked, audio, files, reply, processor>>

-------------------------------------------------------------------------------
\* The audio worker: Worker.process.

\* Mutants: claim takes any job that has not ended; it is off by one.
MutClaimableMax(j) ==
  /\ audio[j].status = "PENDING" /\ audio[j].due
  /\ audio[j].attempts <= MaxProviderAttempts

MutClaimableJob(j) ==
  /\ audio[j].status \in {"PENDING", "PROCESSING"} /\ audio[j].due
  /\ audio[j].attempts < MaxProviderAttempts

ClaimableJob(j) == Ready(j)

Claim(w, j) ==
  /\ worker[w].pc = "read"
  /\ stream[j] > 0 /\ ClaimableJob(j)
  /\ stream' = [stream EXCEPT ![j] = @ - 1]
  /\ audio' = [audio EXCEPT ![j].status = "PROCESSING", ![j].attempts = @ + 1,
                            ![j].stale = FALSE]
  /\ worker' = [worker EXCEPT ![w] =
       [Idle("open") EXCEPT !.job = j, !.attempts = audio[j].attempts + 1]]
  /\ UNCHANGED <<inbound, linked, files, reply, processor>>

\* claim returns nothing: the entry is acknowledged.
DropEntry(w, j) ==
  /\ worker[w].pc = "read"
  /\ stream[j] > 0 /\ ~ClaimableJob(j)
  /\ stream' = [stream EXCEPT ![j] = @ - 1]
  /\ UNCHANGED <<inbound, linked, audio, files, reply, processor, worker>>

\* transcribe opens the file; without it the job cannot be done.
OpenFile(w) ==
  /\ worker[w].pc = "open"
  /\ worker' = [worker EXCEPT ![w].pc =
       IF RecordingOf[worker[w].job] \in files THEN "provider" ELSE "fail"]
  /\ UNCHANGED <<inbound, linked, audio, files, stream, reply, processor>>

\* Mutant: without AND status = 'PROCESSING'.
MutStillProcessing(j) == TRUE

\* What complete and fail ask of the row they update.
StillProcessing(j) == audio[j].status = "PROCESSING"

\* The entry is not acknowledged.
PutBack(w, pc) ==
  /\ worker' = [worker EXCEPT ![w] = Idle(pc)]
  /\ stream' = [j \in Jobs |->
       IF j = worker[w].job THEN Added(stream[j]) ELSE stream[j]]

\* The entry is acknowledged, unless the commit before it is misreported.
Acknowledge(w) ==
  \/ worker' = [worker EXCEPT ![w] = Idle("read")] /\ UNCHANGED stream
  \/ w \in LostAcks /\ PutBack(w, "read")

\* The providers answered.
Complete(w) ==
  LET j == worker[w].job IN
  /\ worker[w].pc = "provider"
  /\ StillProcessing(j) /\ ~Locked(j)
  /\ BeginEnd(w, "completing", {j})
  /\ UNCHANGED <<inbound, linked, audio, files, stream, reply, processor>>

\* The result is stored and on its way.
CommitComplete(w) ==
  LET j == worker[w].job IN
  /\ worker[w].pc = "completing"
  /\ \/ /\ audio' = [audio EXCEPT ![j].status = "COMPLETED", ![j].stale = FALSE]
        /\ EndMessages(w, "result")
     \/ /\ audio' = [audio EXCEPT ![j].status = "UNSUPPORTED", ![j].stale = FALSE]
        /\ EndMessages(w, "unsupported")
  /\ \E pc \in {"remove"} \union (IF w \in LostAcks THEN {"fail"} ELSE {}) :
       worker' = [worker EXCEPT ![w].pc = pc, ![w].ending = {}, ![w].ended = {}]
  /\ UNCHANGED <<linked, files, stream, processor>>

\* complete finds the job not PROCESSING, a provider refuses, its answer is not
\* valid, or it fails for now at the last attempt.
GiveUp(w) ==
  /\ worker[w].pc = "provider"
  /\ worker' = [worker EXCEPT ![w].pc = "fail"]
  /\ UNCHANGED <<inbound, linked, audio, files, stream, reply, processor>>

\* A provider fails for now; retry does nothing to a job that is not PROCESSING.
Retry(w) ==
  LET j == worker[w].job IN
  /\ worker[w].pc = "provider"
  /\ worker[w].attempts < MaxProviderAttempts
  /\ StillProcessing(j) => ~Locked(j)
  /\ audio' = [audio EXCEPT ![j] =
       IF @.status = "PROCESSING"
       THEN [@ EXCEPT !.status = "PENDING", !.due = FALSE, !.stale = FALSE] ELSE @]
  /\ Acknowledge(w)
  /\ UNCHANGED <<inbound, linked, files, reply, processor>>

Fail(w) ==
  LET j == worker[w].job IN
  /\ worker[w].pc = "fail"
  /\ StillProcessing(j) /\ ~Locked(j)
  /\ BeginEnd(w, "failing", {j})
  /\ UNCHANGED <<inbound, linked, audio, files, stream, reply, processor>>

CommitFail(w) ==
  LET j == worker[w].job IN
  /\ worker[w].pc = "failing"
  /\ audio' = [audio EXCEPT ![j].status = "FAILED", ![j].stale = FALSE]
  /\ EndMessages(w, "failed")
  /\ Acknowledge(w)
  /\ UNCHANGED <<linked, files, processor>>

FailTooLate(w) ==
  /\ worker[w].pc = "fail"
  /\ ~StillProcessing(worker[w].job)
  /\ PutBack(w, "read")
  /\ UNCHANGED <<inbound, linked, audio, files, reply, processor>>

\* os.remove.
RemoveFile(w) ==
  /\ worker[w].pc = "remove"
  /\ files' = files \ {RecordingOf[worker[w].job]}
  /\ worker' = [worker EXCEPT ![w] = Idle("read")]
  /\ UNCHANGED <<inbound, linked, audio, stream, reply, processor>>

\* The worker stops with a job in hand, or a statement fails, and it starts again;
\* a transaction that is open is rolled back.
\* To stop in recover_pending and begin it anew is to be late with it.
WorkerCrash(w) ==
  /\ worker[w].job # NoJob \/ worker[w].ending # {}
  /\ PutBack(w, "recover")
  /\ UNCHANGED <<inbound, linked, audio, files, reply, processor>>

-------------------------------------------------------------------------------
\* Time, and Redis.

HoldsNote(p, m) ==
  processor[p].pc \notin {"reconcile", "claim"} /\ processor[p].msg = m

HoldsJob(w, j) ==
  /\ worker[w].pc \in {"open", "provider", "completing", "fail", "failing"}
  /\ worker[w].job = j

ExpireInbound(m) ==
  /\ inbound[m].status = "PROCESSING" /\ ~inbound[m].stale
  /\ \A p \in Processors \ Late : ~HoldsNote(p, m)
  /\ inbound' = [inbound EXCEPT ![m].stale = TRUE]
  /\ UNCHANGED <<linked, audio, files, stream, reply, processor, worker>>

ExpireAudio(j) ==
  /\ audio[j].status = "PROCESSING" /\ ~audio[j].stale
  /\ \A w \in Workers \ Late : ~HoldsJob(w, j)
  /\ audio' = [audio EXCEPT ![j].stale = TRUE]
  /\ UNCHANGED <<inbound, linked, files, stream, reply, processor, worker>>

BackoffOver(j) ==
  /\ ~audio[j].due
  /\ audio' = [audio EXCEPT ![j].due = TRUE]
  /\ UNCHANGED <<inbound, linked, files, stream, reply, processor, worker>>

LoseEntries(j) ==
  /\ Losses
  /\ stream[j] > 0
  /\ stream' = [stream EXCEPT ![j] = 0]
  /\ UNCHANGED <<inbound, linked, audio, files, reply, processor, worker>>

-------------------------------------------------------------------------------

Submit(p) ==
  \/ Refuse(p) \/ FindFile(p) \/ RenameFile(p) \/ ProbeRefuses(p) \/ ProbeAccepts(p)
  \/ CreateRefused(p) \/ GetExisting(p) \/ Create(p) \/ DiscardFile(p)
  \/ Enqueue(p) \/ EnqueueFails(p)

ProcessorWork(p) ==
  \/ \E m \in Notes : ReconcileInbound(p, m) \/ ClaimInbound(p, m)
  \/ NothingToReconcile(p) \/ NoInboundWork(p)
  \/ Submit(p)
  \/ RetryInbound(p) \/ CompleteInbound(p) \/ CompleteInboundTooLate(p)

WorkerWork(w) ==
  \/ FailExhausted(w) \/ CommitExhausted(w) \/ Requeue(w)
  \/ \E j \in Jobs : Claim(w, j) \/ DropEntry(w, j)
  \/ OpenFile(w) \/ Complete(w) \/ CommitComplete(w) \/ GiveUp(w) \/ Retry(w)
  \/ Fail(w) \/ CommitFail(w) \/ FailTooLate(w) \/ RemoveFile(w)

Clock ==
  \/ \E m \in Notes : ExpireInbound(m)
  \/ \E j \in Jobs : ExpireAudio(j) \/ BackoffOver(j)

Next ==
  \/ \E m \in Notes : Receive(m)
  \/ \E p \in Processors : ProcessorWork(p) \/ ProcessorCrash(p)
  \/ \E u \in Uploads : Upload(u) \/ Submit(u) \/ ProcessorCrash(u)
  \/ \E w \in Workers : WorkerWork(w) \/ RecoverStalled(w) \/ WorkerCrash(w)
  \/ \E j \in Jobs : LoseEntries(j)
  \/ Clock

Spec == Init /\ [][Next]_vars

\* The loops poll for ever, clocks advance, and a worker looks at the clock
\* before every read: after a minute it calls recover_pending.  Redis may lose
\* entries, but not every entry there ever is of a job; and a worker may stop in
\* fail_exhausted, but not in every transaction of it there ever is (in the others it
\* uses up an attempt each time).
Fairness ==
  /\ \A p \in Processors : WF_vars(ProcessorWork(p))
  /\ \A w \in Workers : WF_vars(WorkerWork(w)) /\ SF_vars(RecoverStalled(w))
  /\ SF_vars(\E w \in Workers : CommitExhausted(w))
  /\ \A m \in Notes : WF_vars(ExpireInbound(m))
  /\ \A j \in Jobs : WF_vars(ExpireAudio(j)) /\ WF_vars(BackoffOver(j))
  /\ \A j \in Jobs : SF_vars(\E w \in Workers : Claim(w, j))

FairSpec == Spec /\ Fairness

-------------------------------------------------------------------------------
\* Properties.

\* A voice note that is settled has a reply in the outbox, although the processors of
\* one service and the workers of another both end messages, the workers without
\* looking at their status.  One that has a reply and is not settled was linked to
\* its job while that ended, and is what ReconcileInbound looks for.  In every
\* environment.
AnsweredWhenSettled ==
  \A m \in Notes :
    /\ Settled(inbound[m]) => reply[m] # "none"
    /\ reply[m] # "none" /\ ~Settled(inbound[m]) => linked[m] /\ JobStatus(m) \in Ended

\* The pipeline implements OneAnswer.  In every environment.
Promise == INSTANCE OneAnswer WITH
  Message <- Notes,
  Answers <- Replies \ {"none"},
  NoAnswer <- "none",
  stage <- [m \in Notes |->
              IF inbound[m].status = "ABSENT" THEN "unheard"
              ELSE IF Settled(inbound[m]) THEN "closed" ELSE "open"],
  answer <- reply

ImplementsOneAnswer == Promise!Spec

\* What a voice note is told of its job is what the job came to, whoever told it:
\* the worker that ended the job, or a processor that found the job ended.  In every
\* environment.
RepliesAreTrue ==
  \A m \in Notes :
    /\ reply[m] = "result" => linked[m] /\ JobStatus(m) = "COMPLETED"
    /\ reply[m] = "unsupported" => linked[m] /\ JobStatus(m) = "UNSUPPORTED"
    /\ reply[m] = "failed" => linked[m] /\ JobStatus(m) = "FAILED"

\* A message linked to a job is answered when the job has ended, not before, and with
\* nothing but its result or its failure: what was transcribed and paid for reaches
\* its sender.  As long as no processor is late or misinformed of a commit, and Redis
\* refuses no entry; workers may be late and misinformed, uploads misinformed.  It
\* says nothing of a language that is not supported: see UnsupportedIsExplained.
ReplyTellsOutcome ==
  \A m \in Notes :
    linked[m] /\ reply[m] # "none" =>
      /\ JobStatus(m) \in Ended
      /\ JobStatus(m) = "COMPLETED" => reply[m] = "result"
      /\ JobStatus(m) = "FAILED" => reply[m] = "failed"

\* Who speaks another language is told so.  Violated: ReconcileInbound, which answers
\* what was linked after the job had ended, takes such a job for no result.
UnsupportedIsExplained ==
  \A m \in Notes :
    reply[m] # "none" /\ JobStatus(m) = "UNSUPPORTED" => reply[m] = "unsupported"

\* Every attempt at a job is made by one worker: those that took a job from each
\* other, and are all still at it, have counted an attempt each.  In every
\* environment.
AttemptsMadeOnce ==
  \A w, v \in Workers, j \in Jobs :
    HoldsJob(w, j) /\ HoldsJob(v, j) /\ w # v =>
      worker[w].attempts # worker[v].attempts

\* No two workers pay the providers for the same job at the same time, however
\* often its entry is in the stream, and the one at work holds the newest claim;
\* what is over under its hands it has ended itself, and was misinformed of it.
\* As long as no worker is late.
ExclusiveWork ==
  \A w \in Workers, j \in Jobs :
    HoldsJob(w, j) =>
      /\ \/ audio[j].status = "PROCESSING"
         \/ w \in LostAcks /\ worker[w].pc = "fail" /\ audio[j].status \in Ended
      /\ audio[j].attempts = worker[w].attempts
      /\ \A v \in Workers \ {w} : ~HoldsJob(v, j)

\* What a job came to is never taken back: neither a worker that was taken for dead
\* nor a recording sent again changes what GET /api/transcriptions/{id} has shown
\* and what was replied.  In every environment.
JobEndIsFinal ==
  [][\A j \in Jobs :
       audio[j].status \in Ended => audio'[j].status = audio[j].status]_vars

\* The recording of a job is kept until the job has ended.  Violated: two senders
\* share a file, and a submission deletes a file that another has found.
JobKeepsRecording ==
  \A j \in Jobs :
    audio[j].status \in {"PENDING", "PROCESSING"} => RecordingOf[j] \in files

\* A submitter has looked for the file of a job, and not come to the end of it.
AtWork(p) == processor[p].pc \in {"rename", "probe", "create", "discard"}

\* No two submitters are at work on one job.
OneAtWork ==
  \A p, q \in Submitters : AtWork(p) /\ AtWork(q) /\ Job(p) = Job(q) => p = q

\* Every job ends, whatever is lost and however often workers stop.
JobsEnd ==
  \A j \in Jobs : audio[j].status = "PENDING" ~> audio[j].status \in Ended

\* Every message with a job is settled, unless an older one fails for good at its
\* last attempt: ReconcileInbound then picks that one again and again.  As long as
\* Redis refuses no entry and no processor is misinformed of a commit: what is
\* linked then waits for nobody to claim it again, which any message that has failed
\* at its last attempt prevents.
LinkedNotesEnd ==
  \A m \in Notes :
    [](\A n \in Notes :
         CreatedAt[n] < CreatedAt[m] /\ inbound[n].attempts = MaxAttempts =>
           inbound[n].status # "FAILED")
      => (linked[m] ~> Settled(inbound[m]))
===============================================================================
