----------------------------- MODULE TextPipeline -----------------------------
(***************************************************************************)
(* The path of a WhatsApp message that is not a voice note, from the row   *)
(* the webhook saves to the reply in the outbox: the intake processors     *)
(* inside cmd/api (whatsapp.Processor), the translation jobs they submit   *)
(* and the translation workers that run them (translation.Runner).         *)
(*                                                                         *)
(* Every statement or transaction on PostgreSQL is one action.  What a     *)
(* process remembers between two of them is its local state, so that       *)
(* another process may take any step in between, and it may stop there.    *)
(*                                                                         *)
(* Simplifications:                                                        *)
(*  - ORDER BY created_at is left out: a claim takes any candidate.        *)
(*  - An elapsed back-off is an action that has happened; a back-off still *)
(*    running is one that has not.                                         *)
(*  - What a reply says is reduced to its kind.  Policies, quotas and      *)
(*    limits are a choice here; module Quota says how it is made.          *)
(*  - An error of a statement leaves the database and the process where a  *)
(*    stop before it would: ProcessorCrash and RunnerCrash cover it.       *)
(***************************************************************************)
EXTENDS Naturals, FiniteSets, InboundRow

CONSTANTS
  Messages,             \* inbound messages, by WhatsApp message id
  TextMessages,         \* those with message_type 'text'
  NoMessage,            \* what a process that holds no message or job holds
  Processors,           \* intake loops, one in each cmd/api process
  Runners,              \* loops of the translation workers
  MaxAttempts,          \* maxAttempts of whatsapp.Processor
  MaxProviderAttempts,  \* maxAttempts of translation.Runner
  Late,                 \* processes that may outlive the staleness limit
  LostAcks              \* processors that may be told of an error by a commit
                        \* that succeeded

ASSUME MessagesAssumption == TextMessages \subseteq Messages
ASSUME NoMessageAssumption == NoMessage \notin Messages
ASSUME MaxAttemptsAssumption == MaxAttempts \in Nat \ {0}
ASSUME MaxProviderAttemptsAssumption == MaxProviderAttempts \in Nat \ {0}
ASSUME EnvironmentAssumption ==
  Late \subseteq Processors \union Runners /\ LostAcks \subseteq Processors

VARIABLES
  inbound,    \* table whatsapp_inbound_messages, by message
  texts,      \* table text_translations, by message (UNIQUE inbound_message_id)
  reply,      \* table whatsapp_outbound_messages, by source message
  processor,  \* local state of each intake loop
  runner      \* local state of each translation loop

vars == <<inbound, texts, reply, processor, runner>>

-------------------------------------------------------------------------------

TextStatuses == {"ABSENT", "PENDING", "PROCESSING", "COMPLETED", "FAILED"}

\* A row of text_translations: status, provider_attempt_count, and whether
\* processing_started_at is older than the worker's limit.
TextRow == [status : TextStatuses, attempts : 0..MaxProviderAttempts,
            stale : BOOLEAN]

\* "none" is no row in the outbox yet.
Replies == {"none", "notice", "result", "failed", "exhausted"}

ProcessorState ==
  [pc : {"reconcile", "claim", "process", "settle"},
   msg : Messages \union {NoMessage},
   attempts : 0..MaxAttempts,
   result : {"none", "retry", "notice"}]

RunnerState ==
  [pc : {"exhausted", "claim", "translate"},
   job : Messages \union {NoMessage},
   attempts : 0..MaxProviderAttempts]

TypeOK ==
  /\ inbound \in [Messages -> InboundRows(MaxAttempts)]
  /\ texts \in [Messages -> TextRow]
  /\ reply \in [Messages -> Replies]
  /\ processor \in [Processors -> ProcessorState]
  /\ runner \in [Runners -> RunnerState]

-------------------------------------------------------------------------------

NoText == [status |-> "ABSENT", attempts |-> 0, stale |-> FALSE]
NewText == [status |-> "PENDING", attempts |-> 0, stale |-> FALSE]

Polling(pc) ==
  [pc |-> pc, msg |-> NoMessage, attempts |-> 0, result |-> "none"]

Idle(pc) == [pc |-> pc, job |-> NoMessage, attempts |-> 0]

Init ==
  /\ inbound = [m \in Messages |-> NoRow]
  /\ texts = [m \in Messages |-> NoText]
  /\ reply = [m \in Messages |-> "none"]
  /\ processor = [p \in Processors |-> Polling("reconcile")]
  /\ runner = [w \in Runners |-> Idle("exhausted")]

\* Mutant: ON CONFLICT DO UPDATE.
MutAddReply(m, kind) == reply' = [reply EXCEPT ![m] = kind]

\* The INSERT INTO whatsapp_outbound_messages ... ON CONFLICT DO NOTHING that
\* every transaction which ends a message makes.
AddReply(m, kind) ==
  reply' = IF reply[m] = "none" THEN [reply EXCEPT ![m] = kind] ELSE reply

-------------------------------------------------------------------------------
\* The webhook.  A message delivered again meets ON CONFLICT DO NOTHING and
\* changes nothing.

Receive(m) ==
  /\ inbound[m].status = "ABSENT"
  /\ inbound' = [inbound EXCEPT ![m] = NewRow]
  /\ UNCHANGED <<texts, reply, processor, runner>>

-------------------------------------------------------------------------------
\* The intake loop: Processor.ProcessOne.

\* Mutant: without NOT EXISTS (SELECT 1 FROM text_translations ...).
MutOrphaned(m) == Abandoned(inbound[m])

\* The row was left behind by a processor before it became a job.
Orphaned(m) == Abandoned(inbound[m]) /\ texts[m].status = "ABSENT"

\* Mutant: a message at its last attempt counts as left behind at once.
MutReconcilable(m) ==
  /\ inbound[m].attempts >= MaxAttempts
  /\ inbound[m].status \in {"PENDING", "FAILED", "PROCESSING"}

\* WHERE of ReconcileInbound for a message without a transcription.
Reconcilable(m) ==
  /\ inbound[m].attempts >= MaxAttempts
  /\ inbound[m].status \in {"PENDING", "FAILED"} \/ Orphaned(m)

\* WHERE of ClaimInbound.
Claimable(m) ==
  /\ inbound[m].attempts < MaxAttempts
  /\ Waiting(inbound[m]) \/ Orphaned(m)

\* ReconcileInbound found a row: ProcessOne returns and is called again at once.
ReconcileInbound(p, m) ==
  /\ processor[p].pc = "reconcile"
  /\ Reconcilable(m)
  /\ inbound' = [inbound EXCEPT ![m] = FailedRow(@)]
  /\ AddReply(m, "exhausted")
  /\ UNCHANGED <<texts, processor, runner>>

\* ReconcileInbound found no row it could lock.  SKIP LOCKED passes over the
\* rows that other processors are reconciling at this moment.
NothingToReconcile(p) ==
  /\ processor[p].pc = "reconcile"
  /\ Cardinality({m \in Messages : Reconcilable(m)}) <=
       Cardinality({q \in Processors \ {p} : processor[q].pc = "reconcile"})
  /\ processor' = [processor EXCEPT ![p] = Polling("claim")]
  /\ UNCHANGED <<inbound, texts, reply, runner>>

ClaimInbound(p, m) ==
  /\ processor[p].pc = "claim"
  /\ Claimable(m)
  /\ inbound' = [inbound EXCEPT ![m] = ClaimedRow(@)]
  /\ processor' = [processor EXCEPT ![p] =
       [pc |-> "process", msg |-> m, attempts |-> inbound[m].attempts + 1,
        result |-> "none"]]
  /\ UNCHANGED <<texts, reply, runner>>

\* ErrNoWork.
NoInboundWork(p) ==
  /\ processor[p].pc = "claim"
  /\ \A m \in Messages : ~Claimable(m)
  /\ processor' = [processor EXCEPT ![p] = Polling("reconcile")]
  /\ UNCHANGED <<inbound, texts, reply, runner>>

\* process returned; ProcessOne decides how to settle the message.
Settle(p, result) ==
  processor' = [processor EXCEPT ![p].pc = "settle", ![p].result = result]

\* A transient error is retried while attempts are left, and answered after.
TransientResult(p) ==
  IF processor[p].attempts < MaxAttempts THEN "retry" ELSE "notice"

\* The message is answered at once: a registration, a message of a kind that
\* is not supported, a limit, a policy, a source text that is not accepted.
\* For a text with a job no such answer can come: the text was accepted before
\* and AllowMessage lets an admitted message pass again.
Answer(p) ==
  LET m == processor[p].msg IN
  /\ processor[p].pc = "process"
  /\ m \in TextMessages => texts[m].status = "ABSENT"
  /\ Settle(p, "notice")
  /\ UNCHANGED <<inbound, texts, reply, runner>>

\* The limiter, the media API or the database failed before anything changed.
TransientError(p) ==
  /\ processor[p].pc = "process"
  /\ Settle(p, TransientResult(p))
  /\ UNCHANGED <<inbound, texts, reply, runner>>

\* translation.Submit finds the job it made at an earlier attempt.
SubmitAgain(p) ==
  LET m == processor[p].msg IN
  /\ processor[p].pc = "process"
  /\ m \in TextMessages
  /\ texts[m].status # "ABSENT"
  /\ processor' = [processor EXCEPT ![p] = Polling("reconcile")]
  /\ UNCHANGED <<inbound, texts, reply, runner>>

\* translation.Submit: ErrInvalidInbound, the message is not PROCESSING.
SubmitInvalid(p) ==
  LET m == processor[p].msg IN
  /\ processor[p].pc = "process"
  /\ m \in TextMessages
  /\ texts[m].status = "ABSENT"
  /\ inbound[m].status # "PROCESSING"
  /\ Settle(p, "notice")
  /\ UNCHANGED <<inbound, texts, reply, runner>>

\* translation.Submit inserts the job.  The processor is done with the message
\* (deferred), unless the answer to the commit is lost.
Submit(p) ==
  LET m == processor[p].msg IN
  /\ processor[p].pc = "process"
  /\ m \in TextMessages
  /\ texts[m].status = "ABSENT"
  /\ inbound[m].status = "PROCESSING"
  /\ texts' = [texts EXCEPT ![m] = NewText]
  /\ \/ processor' = [processor EXCEPT ![p] = Polling("reconcile")]
     \/ p \in LostAcks /\ Settle(p, TransientResult(p))
  /\ UNCHANGED <<inbound, reply, runner>>

RetryInbound(p) ==
  /\ processor[p].pc = "settle"
  /\ processor[p].result = "retry"
  /\ inbound' = [inbound EXCEPT ![processor[p].msg] = RetriedRow(@)]
  /\ processor' = [processor EXCEPT ![p] = Polling("reconcile")]
  /\ UNCHANGED <<texts, reply, runner>>

CompleteInbound(p) ==
  LET m == processor[p].msg IN
  /\ processor[p].pc = "settle"
  /\ processor[p].result = "notice"
  /\ inbound[m].status = "PROCESSING"
  /\ inbound' = [inbound EXCEPT ![m] = CompletedRow(@)]
  /\ AddReply(m, "notice")
  /\ processor' = [processor EXCEPT ![p] = Polling("reconcile")]
  /\ UNCHANGED <<texts, runner>>

\* CompleteInbound finds no PROCESSING row: the loop stops with the error and
\* cmd/api starts it again.
CompleteInboundTooLate(p) ==
  /\ processor[p].pc = "settle"
  /\ processor[p].result = "notice"
  /\ inbound[processor[p].msg].status # "PROCESSING"
  /\ processor' = [processor EXCEPT ![p] = Polling("reconcile")]
  /\ UNCHANGED <<inbound, texts, reply, runner>>

\* The process stops with a message in hand, or a statement fails, and the
\* loop starts again.
ProcessorCrash(p) ==
  /\ processor[p].pc \in {"process", "settle"}
  /\ processor' = [processor EXCEPT ![p] = Polling("reconcile")]
  /\ UNCHANGED <<inbound, texts, reply, runner>>

-------------------------------------------------------------------------------
\* The translation worker: Runner.ProcessOne.

\* Mutant: only PENDING jobs can be exhausted.
MutExhausted(m) ==
  texts[m].attempts >= MaxProviderAttempts /\ texts[m].status = "PENDING"

\* WHERE of FailExhausted.
Exhausted(m) ==
  /\ texts[m].attempts >= MaxProviderAttempts
  /\ \/ texts[m].status = "PENDING"
     \/ texts[m].status = "PROCESSING" /\ texts[m].stale

\* Mutants: provider_attempt_count <= max; any PROCESSING job is abandoned.
MutTranslatableMax(m) ==
  /\ texts[m].attempts <= MaxProviderAttempts
  /\ \/ texts[m].status = "PENDING"
     \/ texts[m].status = "PROCESSING" /\ texts[m].stale

MutTranslatable(m) ==
  /\ texts[m].attempts < MaxProviderAttempts
  /\ texts[m].status \in {"PENDING", "PROCESSING"}

\* WHERE of Claim.
Translatable(m) ==
  /\ texts[m].attempts < MaxProviderAttempts
  /\ \/ texts[m].status = "PENDING"
     \/ texts[m].status = "PROCESSING" /\ texts[m].stale

\* failOne; the inbound row is updated whatever its status.
FailJob(m) ==
  /\ texts' = [texts EXCEPT ![m].status = "FAILED", ![m].stale = FALSE]
  /\ inbound' = [inbound EXCEPT ![m] = FailedRow(@)]
  /\ AddReply(m, "failed")

FailExhausted(w, m) ==
  /\ runner[w].pc = "exhausted"
  /\ Exhausted(m)
  /\ FailJob(m)
  /\ UNCHANGED <<processor, runner>>

NothingExhausted(w) ==
  /\ runner[w].pc = "exhausted"
  /\ \A m \in Messages : ~Exhausted(m)
  /\ runner' = [runner EXCEPT ![w] = Idle("claim")]
  /\ UNCHANGED <<inbound, texts, reply, processor>>

\* Mutant: a job taken from a worker that stopped is not counted again.
MutClaimedText(row) ==
  [status |-> "PROCESSING", stale |-> FALSE,
   attempts |-> IF row.status = "PENDING" THEN row.attempts + 1 ELSE row.attempts]

\* SET of Claim, which returns the attempt it has counted.
ClaimedText(row) ==
  [status |-> "PROCESSING", attempts |-> row.attempts + 1, stale |-> FALSE]

Claim(w, m) ==
  /\ runner[w].pc = "claim"
  /\ Translatable(m)
  /\ texts' = [texts EXCEPT ![m] = ClaimedText(@)]
  /\ runner' = [runner EXCEPT ![w] =
       [pc |-> "translate", job |-> m, attempts |-> ClaimedText(texts[m]).attempts]]
  /\ UNCHANGED <<inbound, reply, processor>>

NoTextWork(w) ==
  /\ runner[w].pc = "claim"
  /\ \A m \in Messages : ~Translatable(m)
  /\ runner' = [runner EXCEPT ![w] = Idle("exhausted")]
  /\ UNCHANGED <<inbound, texts, reply, processor>>

\* The provider answered with a valid translation.
Complete(w) ==
  LET m == runner[w].job IN
  /\ runner[w].pc = "translate"
  /\ texts[m].status = "PROCESSING"
  /\ texts' = [texts EXCEPT ![m].status = "COMPLETED", ![m].stale = FALSE]
  /\ inbound' = [inbound EXCEPT ![m] = CompletedRow(@)]
  /\ AddReply(m, "result")
  /\ runner' = [runner EXCEPT ![w] = Idle("exhausted")]
  /\ UNCHANGED processor

\* The provider failed for now and attempts are left.
Retry(w) ==
  LET m == runner[w].job IN
  /\ runner[w].pc = "translate"
  /\ runner[w].attempts < MaxProviderAttempts
  /\ texts[m].status = "PROCESSING"
  /\ texts' = [texts EXCEPT ![m].status = "PENDING", ![m].stale = FALSE]
  /\ runner' = [runner EXCEPT ![w] = Idle("exhausted")]
  /\ UNCHANGED <<inbound, reply, processor>>

\* The provider refused, or failed at the last attempt.
Fail(w) ==
  LET m == runner[w].job IN
  /\ runner[w].pc = "translate"
  /\ texts[m].status \in {"PENDING", "PROCESSING"}
  /\ FailJob(m)
  /\ runner' = [runner EXCEPT ![w] = Idle("exhausted")]
  /\ UNCHANGED processor

\* The write finds the job in no status it accepts: ErrNotFound ends the worker,
\* which is started again.
ErrNotFound(w) ==
  /\ runner[w].pc = "translate"
  /\ texts[runner[w].job].status # "PROCESSING"
  /\ runner' = [runner EXCEPT ![w] = Idle("exhausted")]
  /\ UNCHANGED <<inbound, texts, reply, processor>>

\* The worker stops with a job in hand, or its write fails, and starts again.
RunnerCrash(w) ==
  /\ runner[w].pc = "translate"
  /\ runner' = [runner EXCEPT ![w] = Idle("exhausted")]
  /\ UNCHANGED <<inbound, texts, reply, processor>>

-------------------------------------------------------------------------------
\* Time.  Five minutes have passed since the row was claimed.  Nobody who claimed
\* it is still at work on it, but those that are Late.

HoldsMessage(p, m) ==
  processor[p].pc \in {"process", "settle"} /\ processor[p].msg = m

HoldsJob(w, m) == runner[w].pc = "translate" /\ runner[w].job = m

ExpireInbound(m) ==
  /\ inbound[m].status = "PROCESSING"
  /\ ~inbound[m].stale
  /\ \A p \in Processors \ Late : ~HoldsMessage(p, m)
  /\ inbound' = [inbound EXCEPT ![m].stale = TRUE]
  /\ UNCHANGED <<texts, reply, processor, runner>>

ExpireText(m) ==
  /\ texts[m].status = "PROCESSING"
  /\ ~texts[m].stale
  /\ \A w \in Runners \ Late : ~HoldsJob(w, m)
  /\ texts' = [texts EXCEPT ![m].stale = TRUE]
  /\ UNCHANGED <<inbound, reply, processor, runner>>

-------------------------------------------------------------------------------

ProcessorWork(p) ==
  \/ \E m \in Messages : ReconcileInbound(p, m) \/ ClaimInbound(p, m)
  \/ NothingToReconcile(p) \/ NoInboundWork(p)
  \/ Answer(p) \/ TransientError(p)
  \/ SubmitAgain(p) \/ SubmitInvalid(p) \/ Submit(p)
  \/ RetryInbound(p) \/ CompleteInbound(p) \/ CompleteInboundTooLate(p)

RunnerWork(w) ==
  \/ \E m \in Messages : FailExhausted(w, m) \/ Claim(w, m)
  \/ NothingExhausted(w) \/ NoTextWork(w)
  \/ Complete(w) \/ Retry(w) \/ Fail(w) \/ ErrNotFound(w)

Next ==
  \/ \E m \in Messages : Receive(m) \/ ExpireInbound(m) \/ ExpireText(m)
  \/ \E p \in Processors : ProcessorWork(p) \/ ProcessorCrash(p)
  \/ \E w \in Runners : RunnerWork(w) \/ RunnerCrash(w)

Spec == Init /\ [][Next]_vars

\* Each loop polls for ever (Runner.Run of both packages) and clocks advance.
\* Nothing forces a message to arrive, and a process may stop again and again.
Fairness ==
  /\ \A p \in Processors : WF_vars(ProcessorWork(p))
  /\ \A w \in Runners : WF_vars(RunnerWork(w))
  /\ \A m \in Messages : WF_vars(ExpireInbound(m)) /\ WF_vars(ExpireText(m))

FairSpec == Spec /\ Fairness

-------------------------------------------------------------------------------
\* Properties.

\* When a translation job has ended, its message has ended the same way and can
\* never be picked up again.  Complete and failOne write both rows in one
\* transaction; what could go wrong is a processor or another worker that still
\* works on the message and moves one of the two rows afterwards.  In every
\* environment.
JobAndMessageAgree ==
  \A m \in Messages :
    /\ texts[m].status = "COMPLETED" => inbound[m].status = "COMPLETED"
    /\ texts[m].status = "FAILED" =>
         inbound[m].status = "FAILED" /\ ~inbound[m].due

\* A message has a reply in the outbox exactly when it is settled: none is
\* forgotten, and none is answered while somebody may still pick it up, although
\* six transactions of two services write both rows.  In every environment.
AnsweredWhenSettled ==
  \A m \in Messages : reply[m] # "none" <=> Settled(inbound[m])

\* Every attempt at a job is made by one worker: those that took a job from each
\* other, and are all still at it, have counted an attempt each, so that together
\* they call the provider no more than MaxProviderAttempts times.  In every
\* environment.
AttemptsMadeOnce ==
  \A w, v \in Runners, m \in Messages :
    HoldsJob(w, m) /\ HoldsJob(v, m) /\ w # v =>
      runner[w].attempts # runner[v].attempts

\* The sender reads how the job ended: a translation that was paid for is the
\* reply, and no message is told of a failure or a notice while its job is done.
\* As long as no processor is late or misinformed of a commit; workers may be late.
ResultDelivered ==
  \A m \in Messages :
    /\ texts[m].status = "COMPLETED" => reply[m] = "result"
    /\ texts[m].status = "FAILED" => reply[m] = "failed"

\* A job that has not ended keeps its message PROCESSING, so that nobody else
\* can answer or reject it.  As long as no processor is late or misinformed of a
\* commit; workers may be late.
ActiveJobKeepsMessage ==
  \A m \in Messages :
    texts[m].status \in {"PENDING", "PROCESSING"} =>
      inbound[m].status = "PROCESSING" /\ reply[m] = "none"

\* No two workers pay a provider for the same job at the same time, and the one
\* at work holds the newest claim: the write it makes at the end, which names
\* the job and not the claim, is for its own.  As long as no worker is late.
ExclusiveTranslation ==
  \A w \in Runners, m \in Messages :
    HoldsJob(w, m) =>
      /\ texts[m].status = "PROCESSING"
      /\ texts[m].attempts = runner[w].attempts
      /\ \A v \in Runners \ {w} : ~HoldsJob(v, m)

\* The pipeline implements AnswerOnce: a message is answered in the step that
\* settles it, and no retry, late worker or second claim reopens it or changes
\* the reply.  In every environment.
Promise == INSTANCE AnswerOnce WITH
  Message <- Messages,
  Answers <- Replies \ {"none"},
  NoAnswer <- "none",
  stage <- [m \in Messages |->
              IF inbound[m].status = "ABSENT" THEN "unheard"
              ELSE IF Settled(inbound[m]) THEN "closed" ELSE "open"],
  answer <- reply

ImplementsAnswerOnce == Promise!Spec

\* Every translation job ends, however often the workers are stopped: the claim
\* counts the attempt before the provider is called, and FailExhausted ends the
\* job of a worker that stopped at the last one.
JobsEnd ==
  \A m \in Messages :
    texts[m].status = "PENDING" ~> texts[m].status \in {"COMPLETED", "FAILED"}

\* Every message that is received is answered.
MessagesEnd ==
  \A m \in Messages : inbound[m].status = "PENDING" ~> Settled(inbound[m])

\* Every message that is received is answered as long as no message uses up its
\* attempts without an answer.
MessagesEndWhileAttemptsLast ==
  [](\A m \in Messages :
       inbound[m].attempts = MaxAttempts => inbound[m].status # "FAILED")
    => MessagesEnd
===============================================================================
