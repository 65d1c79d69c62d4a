# A verification project for hadal

hadal answers WhatsApp messages: a registered sender writes a text or records a
voice note in Somali or English and is sent its translation.  A Go API (`cmd/api`)
takes messages in and sends replies out, a Go worker (`cmd/translation-worker`)
translates texts, a Python worker (`worker/worker.py`) transcribes and translates
recordings.  They share one PostgreSQL database, a Redis and a directory of files.
No component calls another: each leaves rows for the next, and each may be stopped,
started again and run several times over.  What can go wrong is therefore almost
never in one function.  It is between two transactions of two processes, and this
is what the modules here are about.

Paths below are relative to the repository.

## Inventory

| component | code | state it keeps | operations |
|---|---|---|---|
| webhook intake | `internal/httpapi/webhook.go`, `internal/whatsapp/payload.go` | rows of `whatsapp_inbound_messages` | verify, `receive` (`ParsePayload`, `SaveInbound` per message) |
| intake processor | `internal/whatsapp/processor.go`, `postgres.go` | status, attempts and timestamps of the inbound row | `ReconcileInbound`, `ClaimInbound`, `process`, `RetryInbound`, `CompleteInbound` |
| text translation jobs | `internal/translation/postgres.go`, `runner.go` | rows of `text_translations` | `Submit`, `FailExhausted`, `Claim`, `Complete`, `Retry`, `Fail` |
| translation provider adapter | `internal/translation/openai.go`, `translation.go` | none | `Translate`, `Validate` |
| transcription submission | `internal/transcription/service.go`, `repository_postgres.go` | rows of `transcriptions`, the link from a message to its job | `submit`, `CreateOrGetAccepted`, `linkInbound` |
| audio storage | `internal/transcription/storage.go`, `prober.go` | files named by content | `Store`, `Delete`, `Probe` |
| audio worker | `worker/worker.py` | `transcriptions`, inbound rows, files | `claim`, `complete`, `fail`, `retry`, `recover_stalled`, `fail_exhausted`, `pending_ids`, `process`, `recover_pending`, `run` |
| Redis stream | `internal/transcription/queue_redis.go`, `worker.py` | entries not acknowledged | XADD, XREADGROUP, XAUTOCLAIM, XACK |
| rate limiter | `internal/transcription/ratelimit.go` | Redis counters and keys that expire | `Allow`, `AllowMessage`, `AllowRegistration` |
| access and quotas | `internal/access/*`, the reservations in both `postgres` repositories | `whatsapp_senders`, `daily_quota_usage`, `global_quota_usage` | `Register`, reserve, count a completion |
| outbound dispatcher | `internal/whatsapp/dispatcher.go`, `graph.go`, `postgres.go` | rows of `whatsapp_outbound_messages` | `ClaimOutbound`, `SendText`, `MarkOutboundSent`, `RetryOutbound`, `FailOutbound`, `MarkOutboundUnknown` |
| HTTP API | `internal/httpapi/transcriptions.go` | none of its own | `create`, `register`, `get` |
| schema | `db/migrations` | tables, defaults, CHECKs | |
| start-up | `cmd/*` | none | configuration, starting and restarting loops |
| photo OCR | `docs/architecture.md` only | | not implemented |

**How they interact.**  The webhook inserts an inbound row.  The intake processor
claims it and answers it at once (a registration, a refusal), or leaves it
`PROCESSING` with a job: a row of `text_translations` of its own, or a row of
`transcriptions` that several messages of a sender may share (same recording) with
a file and a stream entry.  The worker that ends the job also ends the messages
linked to it and inserts their replies, in one transaction but, in the Python worker,
in two statements, which may see different messages.  `ReconcileInbound` settles what
fell through.  The dispatcher sends what is in the outbox.

**What is hard.**

- *Concurrency.*  Six transactions of three services settle inbound rows, each
  with another guard; claims are taken with `SKIP LOCKED` and given away by age,
  and the final writes name the row, not the claim.  What a loop asked before (the
  limiter, the directory) is settled in a later transaction.
- *Failure between two steps.*  Job committed, entry not queued; message sent,
  outcome not recorded; file renamed, job not created; a commit that succeeded and
  is reported as an error.
- *Retries.*  Of intake, of providers and of sends, each with its own counter, and
  a last attempt after which somebody else has to end the row.
- *Delivery.*  Stream entries are duplicated by design and may be lost; webhook
  messages are redelivered; a POST to the Graph API may have an unknown outcome.
- *Limits.*  Three counters, two kinds of job, roles that change, and midnight.

**What makes each component correct.**  Intake and jobs: every message gets
exactly one reply, and is not settled without it, that tells what its job came to; every job and every message ends; nobody pays for a job twice at a time.
Storage: the file is there as long as the job needs it.  Quotas: no limit is
exceeded, whatever is registered in between.  Dispatcher: no reply is delivered
twice, and the row says what happened.

`PROJECT.json` lists the hazards at their lines with the properties that cover
them, or the reason why none does.

## Modules

| module | models |
|---|---|
| `InboundRow` | one row of `whatsapp_inbound_messages` and every write to it, shared by both pipelines |
| `AnswerOnce` | the abstract promise: a message is heard, and closed with its one answer in one step |
| `OneAnswer` | what is kept of it for voice notes: one answer, none closed without it, neither taken back; it may come before the note is closed |
| `TellOnce` | the abstract promise of the outbox: a reply is shown once, and what is said of it is true and stays so |
| `TextPipeline` | webhook, intake processors and translation workers, for every message but a voice note |
| `AudioPipeline` | webhook, intake processors, HTTP uploads, files, jobs, stream and audio workers, for recordings |
| `Quota` | senders, registrations, reservations and completions of both kinds of job |
| `Outbox` | dispatchers, the Graph API as the client sees it, and what recipients were shown |
| `TranslationResult` | what a provider answers, what the adapters and `Validate` make of it, the rows written and the CHECKs they meet |
| `Webhook` | batches of messages, delivered again and again, saved one by one |
| `RateLimiter` | the two Lua scripts, and keys that expire |
| `Intake` | `Webhook` and `RateLimiter` composed with the intake loop and the uploads |
| `TextPipelineProofs`, `AudioPipelineProofs`, `QuotaProofs`, `OutboxProofs`, `TranslationResultProofs`, `RateLimiterProofs`, `IntakeProofs` | theorems about the modules they are named for; `IntakeProofs` takes those about the counters from `RateLimiterProofs` |
| `MC*` | symmetry sets and small functions for TLC |

### InboundRow

A record of the columns that decide anything: `status` (with `ABSENT` for no row),
`attempts` for `attempt_count`, `due` for "`next_attempt_at` is not NULL", `stale`
for "`processing_started_at` is over five minutes old".  `FAILED` has two meanings
in this table, and `due` tells them apart: waiting for a retry, or failed for good.
A back-off that has not run out needs no state: the claim just has not happened yet.

### TextPipeline

`inbound` and `texts` are the two tables, `reply[m]` what the outbox holds for a
message (the kind of reply, `none` for no row), `processor` and `runner` the local
variables of the loops between two statements.  One action is one transaction, or
one step of local control: `ReconcileInbound`, `ClaimInbound`, `Submit` in its three
outcomes, `RetryInbound`, `CompleteInbound`; `FailExhausted`, `Claim`, `Complete`,
`Retry`, `Fail`.  Writes that find no row (`CompleteInboundTooLate`, `ErrNotFound`)
are actions of their own.

- `Answer` stands for everything a processor answers without making a job: the
  registration flows, an unsupported type, a refused or invalid text, and, when
  `TransientResult` says so, an error at the last attempt.  Every reply the code
  builds is non-empty, so the branch without an outbound row does not exist.
- The limiter lets a message it has admitted pass for a day, so a retry of an
  admitted message is not refused by it.
- `FOR UPDATE SKIP LOCKED` makes a loop pass over rows that others hold at this
  moment.  Transactions are steps here, so no lock is ever seen; the only effect,
  "no row" although a row qualifies, is in the guard of `NothingToReconcile`.
- `LostAcks` is the set of processes that may be told that a commit failed which did
  not; `Late` the set of those that may outlive the staleness limit of what they hold.
  Timeouts are what keeps a process out of `Late`: HTTP calls end after 30 or 60 seconds,
  claims are given away after five minutes (an hour for audio).  They are sets because
  the question is *whose* lateness does harm: a row in the hands of a process outside
  `Late` does not grow stale.  Crashes happen in every environment.

### AudioPipeline

Besides the above: `audio` is the table `transcriptions`, `linked` the column
`transcription_id`, `files` the audio directory, `stream` a bag of entries.  A *job*
is a sender's recording (the unique key of the table), a *recording* is a file (its
name is its hash), and the constants `JobOf` and `RecordingOf` say who sends what.

`submit` is followed statement by statement: `FindFile` (the Stat) and `RenameFile`
are two steps, then the probe, then `CreateOrGetAccepted` as `CreateRefused`,
`GetExisting` or `Create`, then `DiscardFile` or `Enqueue`; `Leave` is the
`if stored.Created` before each return.  The worker: `RecoverStalled`,
`FailExhausted` and `CommitExhausted`, and `Requeue` are `recover_pending`, `Claim` to
`RemoveFile` are `process`.  `COMPLETED` with no target language (the speaker's language is not
supported) is written `UNSUPPORTED`, because `ReconcileInbound` treats it otherwise.
`Refusals` lets Redis refuse entries, `Losses` lose them.  Entries beyond `MaxEntries` for one
job are not told apart.

A transaction that ends a job updates the job and the messages linked to it in its first
statements and inserts the replies in its last, and under READ COMMITTED each sees what
was committed when it began.  Linking a note takes no lock that keeps these statements
waiting.  Such a transaction is therefore two steps: `Complete`, `Fail` and
`FailExhausted` take the rows (`BeginEnd`: the jobs in `ending`, the messages linked by
now in `ended`), and `CommitComplete`, `CommitFail` and `CommitExhausted` answer the
messages linked by *then* and commit (`EndMessages`).  In between the rows are locked
(`Locked`, `RowLocked`): other statements on them wait, `SKIP LOCKED` passes over them,
and a crash rolls back.  A note linked between the two is answered and stays
`PROCESSING` until `ReconcileInbound` finds it.

`ReconcileInbound` takes the oldest row (`Oldest`), which decides who starves: a row that
failed at its last attempt is found again and again, and those younger than it are not
reached.  `CreatedAt` gives the rows their age; an older row is passed over only when
another processor may have it locked.

An upload over HTTP is a submitter of its own: `create` calls the same `submit`, which
is why the steps of `Submit` are written for both.  Where they differ is named once
each: `Linkable` and `Link` do nothing for an upload (`linkInbound` with a nil id),
`TransientResult` is an error response (only the client may try again), and `Finish`
responds instead of settling.  An upload that was told 202 is not sent again in the
model; one that got an error or no response is, as often as the client likes.

### Quota

`sender` is the row of `whatsapp_senders`, `job` the accepted jobs of both tables
with the day, the sender and the role each was accepted under, and the four counters
are the columns of the two usage tables.  Each transaction locks the sender's row
first, so `Register`, `Accept` and the completions are one step each.  The
properties count jobs and never look at the counters, except where the code's own
error branch does (`CompletionNeverRefused`).  A sender that is not there yet cannot
be locked: `Register` then takes two steps, `FindNoSender` and `InsertSender`, and
the second of two such registrations meets the unique phone number (`NumberTaken`),
fails and changes nothing.

### Outbox

`outbox` is the table, `delivered[m]` how often the recipient was shown reply `m`
(nothing in the code knows this), `dispatcher` the loop's variables.  `SendText`
draws what the API answers, and `MayDeliver` what each answer may mean; `Class` is
what `doJSON`, `statusError` and the two predicates make of it.  `LateErrors`: a 429
or 5xx may come from a request that was carried out.  `NamelessIds`: a 2xx may name
no message.  `Expire` is never prevented: a dispatcher may always outlive its claim.

### TranslationResult

One job of either kind, workers that may all outlive their claims, and every answer a
provider can give.  A string is `null`, `blank`, `empty` (blank, trimmed) or `text`;
that is all that `Validate`, the Python checks and the CHECKs tell apart.  The CHECKs
are written in three-valued logic, because a row is refused only when one is *false*:
`All3` and `Any3` are AND and OR, `In3` and `Differ3` give `"N"` for NULL.  `Write`
rolls back when a CHECK or the outbox (`body` not blank) refuses, and remembers that in
`refused`.  `Translate`, `DecodedResult` and `Validate` are the Go adapter,
`TranscribeFails`, `TranslateFails`, `Translation` and `Usable` the Python ones.

### Webhook, RateLimiter, Intake

`Webhook` follows a batch message by message (`SaveNext`, `RefuseNext`); a request may
be broken off after any of them, and a batch delivered again at any time, to an API
that was started with other registration codes (`Reconfigure`).  `RateLimiter` has
ticks instead of seconds.  `recent` remembers what was let through in a window's length
before now, each request with its age and its place, that is the value the counter had
when it was let through; no state of the code does, and no action reads it.

`Intake` has the intake loops ask the limiter for every message they claim, at every
attempt, next to uploads that use the same counter.  `Admit` is the question and no
more: who is refused goes on to `settle`, and `CompleteInbound` writes it later, in a
transaction that asks whether the row is `PROCESSING` and not by whose claim.  Who is let
through goes on to `work`, which answers, fails, or hands the message over to a job;
`CheckFails` is a limiter that could not be asked, or that counted and could not say so.
As in the pipelines, `Late` are the loops that may hold a message for over five minutes.

## Runs

| run | instance | asks |
|---|---|---|
| `text_hostile` | 1 text, 3 processors, 2 workers, 3 intake and 2 provider attempts, all faults | what holds whatever happens: `JobAndMessageAgree`, `AttemptsMadeOnce`, refinement of `AnswerOnce` |
| `text_calm` | 2 texts, 1 processor, 2 workers, crashes only | what holds besides when nobody outlives a claim: `ResultDelivered`, `ActiveJobKeepsMessage`, `ExclusiveTranslation`; and that jobs and messages end: `JobsEnd`, `MessagesEndWhileAttemptsLast` |
| `text_starved` | 2 texts, 1 + 1, crashes only | `MessagesEnd`, **violated** |
| `audio_hostile` | 1 recording sent twice, 2 processors, 1 worker, 2 intake attempts, 1 of the worker, all faults | refinement of `OneAnswer` |
| `audio_late` | 1 recording sent as a voice note and uploaded, 1 processor, 2 workers, 2 + 2 attempts; the workers late and misinformed, entries duplicated and lost | `ReplyTellsOutcome`, `RepliesAreTrue`, `JobEndIsFinal` |
| `audio_calm` | 1 recording sent twice, the first note older, 1 processor, 2 workers, 1 intake attempt, 2 of the workers; misreported commits of the workers, up to two entries besides the one that was read, which may be lost | `ExclusiveWork`, and that jobs and notes end: `JobsEnd`, `LinkedNotesEnd` |
| `audio_shared` | 2 senders, 1 recording | `JobKeepsRecording`, **violated** |
| `audio_queue_down` | 1 recording sent twice, Redis refuses entries | `ReplyTellsOutcome`, **violated** |
| `quota` | a sender, the tester, an administrator, 2 + 1 jobs, 2 days, limits 2 (global), 1 (daily), 2 (recruiter) | the caps, `DisabledWhenUsedUp`, `CompletionNeverRefused`, `PermittedForGood` |
| `results` | 1 job of either kind, 3 workers and attempts, every answer | `EveryWriteIsTaken`, `ChecksAreDefinite` |
| `intake` | a voice note, a code that cannot be saved while the codes are broken, a malformed message, in 2 batches; 1 request, 2 processors, 2 attempts, windows of 2 ticks and 1 request | `DeliveredIsSaved`, `SavedOnce`, `BurstBound`, `RefusedOnlyWhenFull`, `LetThroughForGood` |
| `outbox` | 2 replies, 2 dispatchers, 3 attempts, an API that says what it did | `DeliveredAtMostOnce`, `WaitingIsUndelivered`, `RowTellsDelivery`, `EndIsFinal`, `RepliesEnd`, refinement of `TellOnce` |

"Violated" runs show what the code does against what a document says; they are
explained below.  All others pass.

**Why the bounds are enough.**  The rows of two messages touch each other only
through a loop that is busy (two messages show that), through a shared job (two
notes) or through a shared file (two jobs).  A hazard of a single message needs a
holder that is late, one that took over, and one that finds the outcome: two or
three processors.  Two attempts make a first, a last and the row after the last; the
intake counter gets a third in the text runs, so that a message can be taken over
between two retries.  In `audio_hostile` a job has one attempt, which is enough to be
ended, and answered, by several; retries of the worker are in the other audio runs.  In
`audio_late` two workers hold the same job, one that was taken for dead and one that took
over, with a result each.  In `audio_calm` an intake attempt is the last one, so that a
note can fail for good at it and be reconciled again.  The calm text run has one processor, which after
a crash is its own successor; the theorems say the same of any number.  `LateErrors`
and `NamelessIds` change what was delivered and never what a dispatcher does next, so
that `EndIsFinal` and `RepliesEnd` need no run of their own for them.  Two stream entries
besides the one that a worker has read are two too many.
Limits of one and two let three jobs hit every one of them, and let a second day and a
change of role undo what they should not.  In `results` three workers are a late one,
its successor and the one that finds the outcome.  In `intake` a limit of one is
passed, met and exceeded by a message and any number of uploads, two ticks make a window
that others overlap, and two loops hold a message one after the other.  Jobs of one sender or of two, one file or two, are
instances of `JobOf` and `RecordingOf`; uploads are in `audio_late` only, because an
upload is a processor that never claims anything, and the theorems are about any number
of both.

**Deadlock** is checked except in `Quota`, which stops when all jobs have ended on
the last day, and in `results`, whose one job ends.

**Fairness** (for the liveness properties; `FairSpec`).  Every loop polls for ever (`Runner.Run`
of both packages, `runWhatsAppRunner`, `Worker.run`): weak fairness on each loop's
work.  Clocks advance: weak fairness on the expiry and back-off actions.  The audio
worker looks at the clock before every read of the stream and calls
`recover_pending` when a minute has passed, however much there is to read: strong
fairness on `RecoverStalled`.  Redis may lose entries, but not every entry there ever
is of one job: strong fairness on `Claim` of a job.  A worker may stop in the transaction
of `fail_exhausted`, but not in every one there ever is: strong fairness on
`CommitExhausted` of some worker; the other transactions use an attempt up each time,
and need no such assumption.  Nothing forces a message to
arrive, and nothing keeps processes from stopping, policies from refusing or Redis
from failing.

### Where the code disagrees with its documentation

1. **A message that used its attempts up stops the intake** (`text_starved`).  The
   WHERE of `ReconcileInbound` (`internal/whatsapp/postgres.go:50`) matches a message
   that has already failed for good, again in every turn, and reconciling comes
   before claiming.  `MessagesEndWhileAttemptsLast` shows it is the only way for a
   text to be left without an answer.
2. **A refused stream entry loses a result** (`audio_queue_down`).  The error of
   `Enqueue` (`internal/transcription/service.go:92`) reaches the processor although
   the job is committed; at the last attempt the sender is told of a failure, and the
   result is dropped by `ON CONFLICT DO NOTHING`.  A recruiter's third message is
   refused in the same way at the first retry, because the job has just disabled the
   sender.
3. **A file shared by two senders is removed under the second job**
   (`audio_shared`; `worker/worker.py:413`).

Each has its entry, with the sentence it contradicts, in `PROJECT.json`.  Other things
were seen while modelling and have no run of their own:

- **A refused submission removes the file of an accepted one**
  (`internal/transcription/service.go:82`).  It created the file; another submission of
  the same sender found it there, made the job, and the first then deletes what it
  created.  The second can be an upload or a voice note taken by another `cmd/api`.
  `JobKeepsRecording`, the property that `audio_shared` violates with two senders, fails
  so in eleven steps in an instance with `Notes = {m1}`, `Uploads = {u1}` and one job: one
  sender is enough.  It is no invariant of this code; what excludes both is proved (below, `OneAtWork`).  The
  same happens when the commit of `Create` is reported as an error.
- A recording in an unsupported language that is sent again after its job ended is
  answered with the generic failure: for `ReconcileInbound`
  (`internal/whatsapp/postgres.go:66`) a `COMPLETED` row without a target language is
  no result.  `README.md:50` promises the Somali/English-only notice.
  `UnsupportedIsExplained` states it, and TLC refutes it in twenty steps with one voice
  note, one upload of the same recording, one loop of each kind and no fault at all.
- A note that is linked while its job ends is answered by the worker and settled later,
  by `ReconcileInbound` (`worker/worker.py:124` and `:132` see different notes); hence
  `OneAnswer`, and not `AnswerOnce`, is what the audio pipeline implements.
- A note that joins a job at its end is not settled at all when an older message has
  failed at its last attempt: `ReconcileInbound` takes the oldest row
  (`internal/whatsapp/postgres.go:55`), for ever the same.  That is the first divergence
  again, and the hypothesis of `LinkedNotesEnd`.
- An intake loop that was refused by the limiter and takes over five minutes to say so
  answers "too many" to a message that another loop has taken up and been let through
  with (`internal/whatsapp/processor.go:134` and `:85`).  With `Late` not empty
  `LetThroughForGood` is violated.
- A completion is counted in the sender's daily row whatever role the job was accepted
  under (`internal/translation/postgres.go:199`): after an upgrade a recruiter's job
  may take the place of a permitted user's.  `dailyCompleted` in `Quota` does so too.
- The two ends of a message with a job differ in what they say: the worker replies
  with the translation, `ReconcileInbound` with the transcript and the translation
  (`internal/whatsapp/postgres.go:64`).  Both are `"result"` here.
- `docs/architecture.md:77` says that "other languages fail"; the worker completes
  them with the notice (`UNSUPPORTED`).
- A time-out of the second or third call of the audio worker is a failure for good:
  `raise_provider_failure` (`worker.py:367`) would retry it, but the `except` clauses at
  lines 329 and 358 do not catch `TimeoutError`, and only `transcribe` catches `OSError`.
  `README.md:50` says that workers "retry transient failures".  `TranslateFails` does
  what the code does.  The Go adapter, too, fails for good when the body cannot be read.
- An upload whose entry Redis refuses is told 503, though its job runs; sent again, it
  finds that job.
- One message of a webhook batch that no CHECK accepts blocks those behind it, however
  often the batch comes (`internal/httpapi/webhook.go:116`); `DeliveredIsSaved` shows
  that WhatsApp is never told otherwise.
- "Three requests per sender per minute" (`README.md:42`) is a fixed window: two of
  them may meet within a minute.  `BurstBound` states the twofold limit that holds.  The
  counter also counts what it refuses; `RefusedOnlyWhenFull` shows that this keeps nobody
  out who has not had a whole limit let through in the window's length before.

## Proofs

TLAPS proves the following for all values of the constants: any number of messages,
processes and attempts.

**TextPipeline.**  `TypeCorrect`, then invariants that build on it.

- In every environment, `AgreeInv`: a row has a reply exactly when it is settled, and a
  job that has ended has ended its message (`JobAndMessageAgreeAlways`,
  `AnsweredWhenSettledAlways`).  It is inductive only with the guards on `PROCESSING`,
  which is the point of it: no step assumes anything of who else is at work.
  `TextPipelineImplementsAnswerOnce` maps every step to `Hear`, `Close` of one message
  or a stutter.
- The processors' half, if none of them is late or misinformed (`CalmInv`): whoever holds
  a message is its only holder, the row is `PROCESSING` and not stale meanwhile, and its
  job is not there yet.  What happens to a job that is there is then no processor's
  doing, and the workers' guards on `PROCESSING` are enough, *however late the workers
  are*: `ResultDeliveredByLateWorkers`, `ActiveJobKeepsItsMessage`.
- The workers' half starts from one lemma (`JobStepLemma`) that says what a step can do
  to a job and to those who hold it: somebody claims it; or nobody takes it, and it is
  unchanged, made, written by one who lets go of it, or grown stale.  Hence, in every
  environment, `TextEndIsFinalAlways`, and `AttemptsMadeOnceAlways` by `CountedInv` (who
  holds a job has an attempt number of its own, at most that of the row).  If no worker
  is late, `OnlyClaimInv` makes the holder the only one with the row's number, whatever
  processors do: `ExclusiveTranslationWithoutLateWorkers`.

**Quota.**  The properties count jobs, the code counts in columns.  The invariant ties
the two together: each counter is the cardinality of a set of jobs (a recruiter's
`used` is bounded by it from one side, because an upgrade resets it).  Every cap is then
the guard of the reservation.

**Outbox.**  `HoldInv`: two dispatchers never hold the same claim unless its row is no
longer `SENDING`.  `SendInv`: what was told of a delivery is so.
`DeliveredAtMostOnceHolds` and `WaitingIsUndeliveredHolds` assume `~LateErrors`,
`RowTellsDeliveryHolds` assumes `~NamelessIds` besides; `EndIsFinalHolds` assumes
nothing.  From the same two invariants, under the assumptions of `RowTellsDeliveryHolds`,
`OutboxImplementsTellOnce`: a claim is `Take`, a send `Show` (also that of a dispatcher
whose row was given up) or a stutter, the four ends are `Report`, `GiveBack` and `GiveUp`,
and a sweep is `GiveUp` of a set.  The step that needs `SendInv` is `Show`: a late
dispatcher sends a reply that nobody else can have sent.

**AudioPipeline.**  `TypeInv` contains `LockInv`: what a worker has updated and not
committed is still as it found it, the job `PROCESSING` or exhausted and every message in
`ended` linked to it.  Only this makes two steps of one transaction say something about
each other.  Three lemmas say what a step can do at all, and every proof starts
from one of them.  `NoteStep`: it hears of a note, writes one row without settling it,
settles one note, ends and answers notes linked to some jobs, or leaves notes alone.
`JobStep`: what ended stays, and what is there stays there.  `HoldersStepLemma`: what
happens to a job together with those who hold it, as in the text pipeline; a worker that
was misinformed of its last write goes on to `fail` with the job it has itself ended.
From them:

- in every environment, `AnsweredInv`: a settled note has a reply, and one that has a
  reply and is open is linked to a job that has ended (`AudioAnsweredWhenSettled`).
  `AudioImplementsOneAnswer` maps the commit of a worker to `Settle` with two different
  sets, the notes it answers and those it closes, and uses that the latter are among the
  linked ones, locked since they were updated (only a note that was saved has a job, so
  the worker, which looks at no status, never answers a note nobody has heard of, and
  `ON CONFLICT` keeps the first answer).  `AudioRepliesAreTrue` is `TrueInv`: whoever
  told of a job told what it had come to, and that is final.  `JobEndIsFinalAlways` needs
  types and the guards on `PROCESSING` only; and `AudioAttemptsMadeOnce`;
- if no worker is late, `ExclusiveInv`: a job in a worker's hands is `PROCESSING` and not
  stale (or ended by that worker, misinformed of it), and has the attempt number that
  worker took.  Duplicate entries then do no harm: a second claim finds no `PENDING` row.
  Nothing is asked of processors, uploads, Redis or commits;
- if no processor is late or misinformed and Redis refuses no entry, `OutcomeInv`: a note
  in a processor's hands is not linked yet and in no other's hands (`WorkedNote`), and a
  linked one is answered by what ends its job, or by `ReconcileInbound` after that, with
  what the job came to (`LinkedNote`).  Both
  halves are needed: the processor's own answer is harmless only because it holds no
  linked note.  Workers may be late and misinformed;
- if no submitter is misinformed of its commits and no two jobs share a file, `KeepInv`
  holds as long as no two submitters are past `FindFile` with the same job
  (`OneAtWork`): whoever created a file, or is about to, created it for a job nobody
  works on, and who is at `create` for a job not there yet has the file in place.
  `JobKeepsRecordingOneAtWork` is this rule, with `[]OneAtWork` for its hypothesis: it
  names the race by which a file is lost, and shows that there is no other.  The code
  does not keep it when one sender sends a recording twice at a time.  When every
  recording is sent once it does, with any number of processors, none of them late, and
  of uploads (`JobKeepsRecordingSentOnce`).  That
  is `HolderInv`: through all its retries a note is in one processor's hands, and its row
  is meanwhile neither waiting nor abandoned.  `OutcomeInv` would not do, because it
  gives a note up when it is linked, asks that Redis refuse nothing, and is about notes
  alone.

Where the environment has to be friendly, it says so in an `ASSUME` of the theorem
over the constants of the module; the violated runs, and the first divergence above, are
what happens without.

**TranslationResult.**  `IInv` gives the row a shape by its status (`Shape`) and says
that an outcome in a worker's hands is one the adapters let through; a row of that
shape makes every CHECK true, none of them NULL (`ResultTypeCorrect`,
`EveryWriteIsTakenHolds`, `ChecksAreDefiniteHolds`).

**Intake.**  `IntakeInv`: a request that is saving has saved everything before its
position, in a batch that could be parsed (`WebhookInv`, hence
`DeliveredMessagesAreSaved`); each counter stands in a certain relation to what is
remembered of it (`LimiterInv`, below); and who was let through has a pass
(`PassKept`).  `PassedIsNeverRefused` needs more, because a refusal is written later than
it was pronounced: `Keeping` says that as long as no loop is late a message that is
held has one holder, is `PROCESSING` and not stale (`HeldOnce`), and one whose holder is
about to say "too many" is not let through meanwhile (`RefusedIsOut`).  `RowsKept`, the effect common to every
step of the webhook and of the loop, is what `MessagesAreSavedOnce` says of rows.

**RateLimiter.**  `BurstBound` counts requests over a stretch of time, and looks like an
induction over its ticks.  It is proved without one: what is let through has a place,
the value of the counter, and `WindowInv` says that a request is known by its place and
by whether it belongs to the window that is open now, so that what is remembered maps one
to one into two copies of `1..limit` (`WindowBound`, hence `BurstIsBounded`).  The
inductive step is `Tick`: when a window closes, all that is remembered of it still fits
into *one* window, because what belonged to the window before it is too old by then.
`RefusedForAFullWindow` is the converse half of `WindowInv`: no place of the open window
is missing, so that who is refused finds all of them taken, and recently enough.  That a
limit is not zero and a window has a length is assumed of the constants; the code's are
3 in a minute and 5 in a day.

**Only model-checked:** liveness (`JobsEnd`, `MessagesEndWhileAttemptsLast`,
`LinkedNotesEnd`, `RepliesEnd`), which is beyond the prover.  No module uses
`RECURSIVE`.  `AnsweredWhenSettled`, `TextEndIsFinal` and the `AttemptsMadeOnce` of
`AudioPipeline` are proved and in no run: the first is implied by the refinement of
`AnswerOnce` or, but for its second half, of `OneAnswer`, which the hostile runs check.

## Not modelled

- Start-up: it reads configuration and starts the loops.  The numbers it fixes are
  constants here, and the restart of a loop that failed is in the crash actions.
- Running the migrations; the signature and size of webhook requests, and the reads of
  `GET` (no state); the wording of replies; what ffprobe and the providers do inside.
- Photo OCR, which is not implemented.
- Which consumer owns a stream entry (XAUTOCLAIM): in the bag any worker may read any
  entry that was not acknowledged, which allows more than Redis does.
- The media calls of the Graph client are a call that succeeds or fails.
- The order of row locks.  A transaction is a step here, except those of the audio worker
  that end jobs, so that a deadlock of two transactions cannot be seen.  Reading them: sender, job, counters and messages are taken in this
  order, except that `Submit` for a text locks its message first, one that has no job
  yet and that no other of these transactions waits for; the rest lock one row, or rows
  found with `SKIP LOCKED`.
- A pipeline composed with the `Outbox`.  They meet in one INSERT: the pipelines
  implement `AnswerOnce` and `OneAnswer` in every environment, so that a message adds at
  most one row and never changes it, and `Outbox` starts from rows that appear at any time
  (`Queue`); `Outbox` implements `TellOnce`, which takes it from there.  The composition would multiply two state spaces and could fail at nothing
  either does not show.
