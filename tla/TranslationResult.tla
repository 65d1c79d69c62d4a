--------------------------- MODULE TranslationResult ---------------------------
(***************************************************************************)
(* From what a provider answers to what is stored and said: the adapters   *)
(* of both workers (OpenAIProvider in Go; OpenAITranscriber, -Translator   *)
(* and -Validator in worker.py), the UPDATEs that write a job's columns,   *)
(* and the CHECKs of the tables text_translations and transcriptions,      *)
(* which refuse a row only when they are false: NULL passes.               *)
(*                                                                         *)
(* A string is "null", "blank" (nothing but white space), "empty" (what    *)
(* trimming leaves of it) or "text".  A timestamp is set or not.  One job  *)
(* is followed; its kind says which table and which worker.  Who else is   *)
(* written with it is in TextPipeline and AudioPipeline.                   *)
(***************************************************************************)
EXTENDS Naturals

CONSTANTS
  Workers,     \* translation workers, or audio workers
  MaxAttempts  \* PROVIDER_MAX_ATTEMPTS of the workers

ASSUME MaxAttemptsAssumption == MaxAttempts \in Nat \ {0}

VARIABLES
  job,     \* the row of text_translations or transcriptions
  worker,  \* local state of each worker
  refused  \* history: the database refused a write of a worker

vars == <<job, worker, refused>>

-------------------------------------------------------------------------------
\* Three-valued logic: "T", "F" and "N" for NULL.

All3(values) ==
  IF "F" \in values THEN "F" ELSE IF "N" \in values THEN "N" ELSE "T"

Any3(values) ==
  IF "T" \in values THEN "T" ELSE IF "N" \in values THEN "N" ELSE "F"

Is3(b) == IF b THEN "T" ELSE "F"

In3(value, set) == IF value = "null" THEN "N" ELSE Is3(value \in set)

Differ3(a, b) == IF "null" \in {a, b} THEN "N" ELSE Is3(a # b)

NotBlank3(value) == IF value = "null" THEN "N" ELSE Is3(value = "text")

-------------------------------------------------------------------------------
\* Rows.

Statuses == {"PENDING", "PROCESSING", "COMPLETED", "FAILED"}

\* A text column, and a language column.
Column == {"null", "empty", "text"}
Language == {"null", "empty", "so", "en", "unsupported", "other"}

\* What a call comes to and is stored: interpreted, required and question are
\* columns of text_translations only, transcript is one of transcriptions only.
Result == [transcript : Column, source : Language, target : Language,
           translated : Column, interpreted : Column, required : BOOLEAN,
           question : Column]

NoResult == [transcript |-> "null", source |-> "null", target |-> "null",
             translated |-> "null", interpreted |-> "null", required |-> FALSE,
             question |-> "null"]

\* started, due, completed and failure: processing_started_at, next_attempt_at,
\* completed_at and failure_reason are not NULL.  stale: it has been PROCESSING
\* for too long.
Row == [kind : {"text", "audio"}, status : Statuses, attempts : 0..MaxAttempts,
        started : BOOLEAN, due : BOOLEAN, completed : BOOLEAN,
        failure : BOOLEAN, result : Result, stale : BOOLEAN]

NoResultChecks(row) ==
  LET r == row.result IN
  {Is3(r.source = "null"), Is3(r.target = "null"), Is3(r.interpreted = "null"),
   Is3(r.translated = "null"), Is3(~r.required), Is3(r.question = "null")}

\* text_translations_language_pair_check.
LanguagePairCheck(row) ==
  LET r == row.result IN
  Any3({All3({Is3(r.source = "null"), Is3(r.target = "null")}),
        All3({In3(r.source, {"so", "en"}), In3(r.target, {"so", "en"}),
              Differ3(r.source, r.target)}),
        All3({In3(r.source, {"unsupported"}), Is3(r.target = "null")})})

\* The branch COMPLETED of text_translations_state_result_check.
TextResultCheck(row) ==
  LET r == row.result
      Pair == {In3(r.source, {"so", "en"}), In3(r.target, {"so", "en"})}
  IN Any3({All3(Pair \union {Is3(~r.required), Is3(r.translated # "null"),
                             Is3(r.question = "null")}),
           All3(Pair \union {Is3(r.required), Is3(r.translated = "null"),
                             Is3(r.question # "null")}),
           All3({In3(r.source, {"unsupported"}), Is3(r.target = "null"),
                 Is3(r.interpreted = "null"), Is3(r.translated = "null"),
                 Is3(~r.required), Is3(r.question = "null")})})

\* text_translations_state_result_check.
TextStateCheck(row) ==
  CASE row.status = "COMPLETED" ->
         All3({Is3(row.attempts > 0), Is3(row.started), Is3(row.completed),
               Is3(~row.due), Is3(~row.failure), TextResultCheck(row)})
    [] row.status = "FAILED" ->
         All3({Is3(row.attempts > 0), Is3(row.started), Is3(~row.completed),
               Is3(~row.due), Is3(row.failure)} \union NoResultChecks(row))
    [] row.status = "PENDING" ->
         All3({Is3(~row.started), Is3(~row.completed), Is3(row.due),
               Is3(~row.failure)} \union NoResultChecks(row))
    [] row.status = "PROCESSING" ->
         All3({Is3(row.attempts > 0), Is3(row.started), Is3(~row.completed),
               Is3(~row.due), Is3(~row.failure)} \union NoResultChecks(row))

\* The CHECKs of the text columns.
TextColumnChecks(row) ==
  {Any3({Is3(c = "null"), NotBlank3(c)}) :
     c \in {row.result.interpreted, row.result.translated, row.result.question}}

\* transcriptions_state_result_check.
AudioStateCheck(row) ==
  LET r == row.result
      NoAudioResult ==
        {Is3(r.transcript = "null"), Is3(r.source = "null"),
         Is3(r.target = "null"), Is3(r.translated = "null")}
  IN CASE row.status = "COMPLETED" ->
            All3({Is3(r.transcript # "null"), Is3(~row.failure),
                  Is3(row.completed),
                  Any3({All3({In3(r.source, {"so", "en"}),
                              In3(r.target, {"so", "en"}),
                              Differ3(r.source, r.target),
                              Is3(r.translated # "null")}),
                        All3({In3(r.source, {"unsupported"}),
                              Is3(r.target = "null"),
                              Is3(r.translated = "null")})})})
       [] row.status = "FAILED" -> All3(NoAudioResult \union {Is3(row.failure)})
       [] OTHER -> All3(NoAudioResult \union {Is3(~row.failure)})

\* All CHECKs of the row's table, taken together.
Checks(row) ==
  IF row.kind = "text"
  THEN All3({LanguagePairCheck(row), TextStateCheck(row)}
              \union TextColumnChecks(row))
  ELSE AudioStateCheck(row)

Accepted(row) == Checks(row) # "F"

-------------------------------------------------------------------------------
\* The Go adapter.

\* What the content of an answer that fits the schema may hold: decodeResult
\* refuses other fields, missing fields and other types, but null fits each.
Texts == {"null", "blank", "text"}
Languages == {"null", "blank", "so", "en", "unsupported", "other"}

Contents == [source : Languages, target : Languages, translated : Texts,
             interpreted : Texts, required : {"null", "true", "false"},
             question : Texts]

\* trimOptional, of a pointer.
Trimmed(value) == IF value = "blank" THEN "empty" ELSE value

\* Into a string: nil is the empty string.
Plain(value) == IF value \in {"null", "blank"} THEN "empty" ELSE value

DecodedResult(content) ==
  [transcript |-> "null",
   source |-> Plain(content.source), target |-> Plain(content.target),
   translated |-> Plain(content.translated),
   interpreted |-> Trimmed(content.interpreted),
   required |-> content.required = "true",
   question |-> Trimmed(content.question)]

\* Mutant: the target is not looked at.
MutValidPair(source, target) == source \in {"so", "en"}

ValidPair(source, target) == {source, target} = {"so", "en"}

Validate(r) ==
  \/ /\ r.source = "unsupported"
     /\ r.target = "empty" /\ r.translated = "empty"
     /\ r.interpreted = "null" /\ ~r.required /\ r.question = "null"
  \/ /\ ValidPair(r.source, r.target)
     /\ r.interpreted # "empty"
     /\ IF r.required THEN r.translated = "empty" /\ r.question = "text"
        ELSE r.translated = "text" /\ r.question = "null"

\* An HTTP call: no connection, no answer in time, 429 or 5xx,
\* another status, a body that cannot be used, or a content.
Failures == {"none", "slow", "busy", "refused", "garbled"}

Transient == [kind |-> "transient", result |-> NoResult]
Permanent == [kind |-> "permanent", result |-> NoResult]

Translate(failure) ==
  IF failure \in {"none", "slow", "busy"} THEN Transient ELSE Permanent

TextOutcome(content) ==
  LET r == DecodedResult(content) IN
  IF Validate(r) THEN [kind |-> "result", result |-> r] ELSE Permanent

-------------------------------------------------------------------------------
\* The Python adapters.

\* Only transcribe catches a time-out, so that only there it is transient.
TranscribeFails(failure) ==
  IF failure \in {"none", "slow", "busy"} THEN Transient ELSE Permanent

TranslateFails(failure) ==
  IF failure \in {"none", "busy"} THEN Transient ELSE Permanent

AudioContents == [source : Languages, target : Languages, translated : Texts]

Verdicts == [valid : BOOLEAN, corrected : Texts]

\* What OpenAITranslator.translate returns and does not raise.
Translation(content) ==
  \/ content.source = "unsupported"
       /\ content.target = "null" /\ content.translated = "null"
  \/ {content.source, content.target} = {"so", "en"}
       /\ content.translated = "text"

\* validate does not raise, and there is a translation to use.
Usable(verdict) ==
  /\ verdict.corrected # "blank"
  /\ verdict.valid \/ verdict.corrected = "text"

\* Worker.process after a translation that is supported.
Heard(content, translated) ==
  [kind |-> "result",
   result |-> [transcript |-> "text", source |-> content.source,
               target |-> content.target, translated |-> translated,
               interpreted |-> "null", required |-> FALSE,
               question |-> "null"]]

\* What of the two texts is stored: corrected_text or translated_text.
AudioOutcome(content, verdict) ==
  CASE ~Translation(content) -> Permanent
    [] Translation(content) /\ content.source = "unsupported" ->
         Heard(content, "null")
    [] Translation(content) /\ content.source # "unsupported" ->
         IF Usable(verdict)
         THEN Heard(content,
                    IF verdict.corrected = "null" THEN content.translated
                    ELSE Trimmed(verdict.corrected))
         ELSE Permanent

-------------------------------------------------------------------------------
\* What is said: FormatReply, format_result_reply.
FormatReply(r) ==
  CASE r.source = "unsupported" -> "text"
    [] r.source # "unsupported" /\ r.required -> r.question
    [] r.source # "unsupported" /\ ~r.required -> r.translated

\* whatsapp_outbound_messages.body: NOT NULL and not blank.
Sendable(body) == body = "text"

-------------------------------------------------------------------------------
\* The rows that the UPDATEs of the translation worker write.

TextClaimed(row) ==
  [row EXCEPT !.status = "PROCESSING", !.attempts = @ + 1, !.started = TRUE,
              !.due = FALSE, !.failure = FALSE]

\* NULLIF(value, '').
NullIfEmpty(value) == IF value = "empty" THEN "null" ELSE value

TextCompleted(row, r) ==
  [row EXCEPT !.status = "COMPLETED", !.due = FALSE, !.completed = TRUE,
              !.result = [r EXCEPT !.target = NullIfEmpty(@),
                                   !.translated = NullIfEmpty(@)]]

TextRetried(row) ==
  [row EXCEPT !.status = "PENDING", !.failure = FALSE, !.started = FALSE,
              !.due = TRUE]

\* Mutant: processing_started_at is left as it is.
MutTextFailed(row) ==
  [row EXCEPT !.status = "FAILED", !.failure = TRUE, !.due = FALSE,
              !.completed = FALSE]

\* failOne; it finds processing_started_at NULL in a row that is PENDING.
TextFailed(row) ==
  [row EXCEPT !.status = "FAILED", !.failure = TRUE, !.started = TRUE,
              !.due = FALSE, !.completed = FALSE]

\* The rows that the UPDATEs of the audio worker write.

AudioClaimed(row) ==
  [row EXCEPT !.status = "PROCESSING", !.attempts = @ + 1, !.started = TRUE]

AudioCompleted(row, r) ==
  [row EXCEPT !.status = "COMPLETED", !.result = r, !.completed = TRUE]

AudioRetried(row) ==
  [row EXCEPT !.status = "PENDING", !.failure = FALSE, !.started = FALSE]

AudioFailed(row) == [row EXCEPT !.status = "FAILED", !.failure = TRUE]

AudioRecovered(row) == [row EXCEPT !.status = "PENDING"]

AudioExhausted(row) ==
  [row EXCEPT !.status = "FAILED", !.failure = TRUE, !.started = FALSE]

-------------------------------------------------------------------------------
\* State.

NoOutcome == [kind |-> "none", result |-> NoResult]

Idle == [pc |-> "poll", attempts |-> 0, outcome |-> NoOutcome]

\* due: the column of text_translations has a default, so has that of
\* transcriptions, which nothing ever sets to NULL.
NewJob(kind) ==
  [kind |-> kind, status |-> "PENDING", attempts |-> 0, started |-> FALSE,
   due |-> TRUE, completed |-> FALSE, failure |-> FALSE,
   result |-> NoResult, stale |-> FALSE]

Init ==
  /\ job \in {NewJob(kind) : kind \in {"text", "audio"}}
  /\ worker = [w \in Workers |-> Idle]
  /\ refused = FALSE

\* A row that a CHECK refuses is not written, nor is one whose reply is refused:
\* the transaction is rolled back.
Taken(row, body) == Accepted(row) /\ Sendable(body)

\* The fixed texts of failures are in "Sorry".
Sorry == "text"

Write(row, body) ==
  /\ job' = IF Taken(row, body) THEN [row EXCEPT !.stale = FALSE] ELSE job
  /\ refused' = (refused \/ ~Taken(row, body))

NoWrite == UNCHANGED <<job, refused>>

To(w, pc, attempts, outcome) ==
  worker' = [worker EXCEPT ![w] = [pc |-> pc, attempts |-> attempts,
                                   outcome |-> outcome]]

\* What the worker does with an outcome.
Completes(w) == worker[w].pc = "write" /\ worker[w].outcome.kind = "result"

Retries(w) ==
  /\ worker[w].pc = "write"
  /\ worker[w].outcome.kind = "transient"
  /\ worker[w].attempts < MaxAttempts

Fails(w) == worker[w].pc = "write" /\ ~Completes(w) /\ ~Retries(w)

-------------------------------------------------------------------------------
\* The translation worker.

TextClaimable ==
  /\ job.kind = "text" /\ job.attempts < MaxAttempts
  /\ \/ job.status = "PENDING"
     \/ job.status = "PROCESSING" /\ job.stale

TextExhausted ==
  /\ job.kind = "text" /\ job.attempts >= MaxAttempts
  /\ \/ job.status = "PENDING"
     \/ job.status = "PROCESSING" /\ job.stale

TextFailExhausted(w) ==
  /\ worker[w].pc = "poll"
  /\ TextExhausted
  /\ Write(TextFailed(job), Sorry)
  /\ UNCHANGED worker

TextClaim(w) ==
  /\ worker[w].pc = "poll"
  /\ ~TextExhausted
  /\ TextClaimable
  /\ Write(TextClaimed(job), Sorry)
  /\ IF Accepted(TextClaimed(job))
     THEN To(w, "call", job.attempts + 1, NoOutcome) ELSE UNCHANGED worker

TextCall(w) ==
  /\ job.kind = "text" /\ worker[w].pc = "call"
  /\ \/ \E failure \in Failures :
          To(w, "write", worker[w].attempts, Translate(failure))
     \/ \E content \in Contents :
          To(w, "write", worker[w].attempts, TextOutcome(content))
  /\ NoWrite

\* Complete adds the reply in the same transaction.
TextComplete(w) ==
  LET r == worker[w].outcome.result IN
  /\ job.kind = "text" /\ Completes(w)
  /\ IF job.status = "PROCESSING"
     THEN Write(TextCompleted(job, r), FormatReply(r)) ELSE NoWrite
  /\ To(w, "poll", 0, NoOutcome)

TextRetry(w) ==
  /\ job.kind = "text" /\ Retries(w)
  /\ IF job.status = "PROCESSING" THEN Write(TextRetried(job), Sorry)
     ELSE NoWrite
  /\ To(w, "poll", 0, NoOutcome)

TextFail(w) ==
  /\ job.kind = "text" /\ Fails(w)
  /\ IF job.status \in {"PENDING", "PROCESSING"} THEN Write(TextFailed(job), Sorry)
     ELSE NoWrite
  /\ To(w, "poll", 0, NoOutcome)

-------------------------------------------------------------------------------
\* The audio worker.

\* recover_pending: one transaction after the other, but nobody else is needed
\* between them, so that each is a step.
RecoverStalled(w) ==
  /\ job.kind = "audio" /\ worker[w].pc = "poll"
  /\ job.status = "PROCESSING" /\ job.stale
  /\ Write(AudioRecovered(job), Sorry)
  /\ UNCHANGED worker

AudioFailExhausted(w) ==
  /\ job.kind = "audio" /\ worker[w].pc = "poll"
  /\ job.status = "PENDING" /\ job.attempts >= MaxAttempts
  /\ Write(AudioExhausted(job), Sorry)
  /\ UNCHANGED worker

\* Mutant: the attempts are not looked at.
MutAudioClaimable == job.kind = "audio" /\ job.status = "PENDING"

AudioClaimable ==
  job.kind = "audio" /\ job.status = "PENDING" /\ job.attempts < MaxAttempts

AudioClaim(w) ==
  /\ worker[w].pc = "poll"
  /\ AudioClaimable
  /\ Write(AudioClaimed(job), Sorry)
  /\ IF Accepted(AudioClaimed(job))
     THEN To(w, "call", job.attempts + 1, NoOutcome) ELSE UNCHANGED worker

\* transcribe, translate and validate: the first that fails decides.
AudioCall(w) ==
  /\ job.kind = "audio" /\ worker[w].pc = "call"
  /\ \/ \E failure \in Failures :
          To(w, "write", worker[w].attempts, TranscribeFails(failure))
     \/ \E failure \in Failures :
          To(w, "write", worker[w].attempts, TranslateFails(failure))
     \/ \E content \in AudioContents, verdict \in Verdicts :
          To(w, "write", worker[w].attempts, AudioOutcome(content, verdict))
  /\ NoWrite

\* An error of complete is handled like one of a call: the worker goes on to
\* fail the job.
AudioComplete(w) ==
  LET r == worker[w].outcome.result
      found == job.status = "PROCESSING"
  IN /\ job.kind = "audio" /\ Completes(w)
     /\ IF found THEN Write(AudioCompleted(job, r), FormatReply(r)) ELSE NoWrite
     /\ IF found /\ Taken(AudioCompleted(job, r), FormatReply(r))
        THEN To(w, "poll", 0, NoOutcome)
        ELSE To(w, "write", worker[w].attempts, Permanent)

AudioRetry(w) ==
  /\ job.kind = "audio" /\ Retries(w)
  /\ IF job.status = "PROCESSING" THEN Write(AudioRetried(job), Sorry)
     ELSE NoWrite
  /\ To(w, "poll", 0, NoOutcome)

AudioFail(w) ==
  /\ job.kind = "audio" /\ Fails(w)
  /\ IF job.status = "PROCESSING" THEN Write(AudioFailed(job), Sorry)
     ELSE NoWrite
  /\ To(w, "poll", 0, NoOutcome)

-------------------------------------------------------------------------------
\* The job has been PROCESSING for too long, whoever works on it.
Expire ==
  /\ job.status = "PROCESSING" /\ ~job.stale
  /\ job' = [job EXCEPT !.stale = TRUE]
  /\ UNCHANGED <<worker, refused>>

\* A worker stops and is started again.
Crash(w) ==
  /\ worker[w].pc # "poll"
  /\ To(w, "poll", 0, NoOutcome)
  /\ NoWrite

TextStep(w) ==
  \/ TextFailExhausted(w) \/ TextClaim(w) \/ TextCall(w)
  \/ TextComplete(w) \/ TextRetry(w) \/ TextFail(w)

AudioStep(w) ==
  \/ RecoverStalled(w) \/ AudioFailExhausted(w) \/ AudioClaim(w)
  \/ AudioCall(w) \/ AudioComplete(w) \/ AudioRetry(w) \/ AudioFail(w)

Next == Expire \/ \E w \in Workers : TextStep(w) \/ AudioStep(w) \/ Crash(w)

Spec == Init /\ [][Next]_vars

-------------------------------------------------------------------------------
\* Properties.

TypeOK ==
  /\ job \in Row
  /\ refused \in BOOLEAN
  /\ worker \in [Workers -> [pc : {"poll", "call", "write"},
                             attempts : 0..MaxAttempts,
                             outcome : [kind : {"none", "transient",
                                                "permanent", "result"},
                                        result : Result]]]

\* No write is refused by a CHECK of the schema or for want of a text to send: a
\* job whose last write is refused would be claimed, paid for and refused again.
EveryWriteIsTaken == ~refused

\* A row that is stored makes its CHECKs true, none of them NULL: that languages
\* and texts are there when the status says so is checked and not just not
\* contradicted (migration 9 leaves IS NOT NULL out for the languages).
ChecksAreDefinite == Checks(job) = "T"
===============================================================================
