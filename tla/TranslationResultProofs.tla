------------------------ MODULE TranslationResultProofs ------------------------
(***************************************************************************)
(* For any number of workers and attempts no CHECK refuses what a worker   *)
(* writes, and no CHECK of a stored row is NULL.  The invariant says what  *)
(* each status goes with, in the two-valued terms of the code, and what a  *)
(* worker holds in its hands; the lemmas carry it over to the three-valued *)
(* CHECKs.                                                                 *)
(***************************************************************************)
EXTENDS TranslationResult, TLAPS

Untouched(r) ==
  /\ r.transcript = "null" /\ r.source = "null" /\ r.target = "null"
  /\ r.translated = "null" /\ r.interpreted = "null" /\ ~r.required
  /\ r.question = "null"

\* A stored result, of a text and of a recording.
GoodText(r) ==
  \/ /\ r.source = "unsupported" /\ r.target = "null"
     /\ r.translated = "null" /\ r.interpreted = "null"
     /\ ~r.required /\ r.question = "null"
  \/ /\ \/ r.source = "so" /\ r.target = "en"
        \/ r.source = "en" /\ r.target = "so"
     /\ r.interpreted \in {"null", "text"}
     /\ \/ r.required /\ r.translated = "null" /\ r.question = "text"
        \/ ~r.required /\ r.translated = "text" /\ r.question = "null"

GoodAudio(r) ==
  /\ r.transcript = "text" /\ ~r.required
  /\ \/ r.source = "unsupported" /\ r.target = "null" /\ r.translated = "null"
     \/ r.source = "so" /\ r.target = "en" /\ r.translated = "text"
     \/ r.source = "en" /\ r.target = "so" /\ r.translated = "text"

TextShape(row) ==
  /\ row.status = "PENDING" =>
       /\ ~row.started /\ ~row.completed /\ row.due /\ ~row.failure
       /\ Untouched(row.result)
  /\ row.status = "PROCESSING" =>
       /\ row.attempts > 0 /\ row.started /\ ~row.completed
       /\ ~row.due /\ ~row.failure /\ Untouched(row.result)
  /\ row.status = "COMPLETED" =>
       /\ row.attempts > 0 /\ row.started /\ row.completed
       /\ ~row.due /\ ~row.failure /\ GoodText(row.result)
  /\ row.status = "FAILED" =>
       /\ row.attempts > 0 /\ row.started /\ ~row.completed
       /\ ~row.due /\ row.failure /\ Untouched(row.result)

AudioShape(row) ==
  /\ row.status \in {"PENDING", "PROCESSING"} =>
       ~row.failure /\ Untouched(row.result)
  /\ row.status = "COMPLETED" =>
       row.completed /\ ~row.failure /\ GoodAudio(row.result)
  /\ row.status = "FAILED" => row.failure /\ Untouched(row.result)

Shape(row) ==
  /\ row.kind = "text" => TextShape(row)
  /\ row.kind = "audio" => AudioShape(row)

\* What a worker may write of a result, with the text columns still unchanged.
Ready(kind, r) ==
  /\ Sendable(FormatReply(r))
  /\ kind = "text" => GoodText([r EXCEPT !.target = NullIfEmpty(@),
                                         !.translated = NullIfEmpty(@)])
  /\ kind = "audio" => GoodAudio(r)

IInv ==
  /\ TypeOK
  /\ Shape(job)
  /\ ~refused
  /\ \A w \in Workers :
       /\ worker[w].pc # "poll" => job.attempts > 0
       /\ worker[w].pc = "write" /\ worker[w].outcome.kind = "result" =>
            Ready(job.kind, worker[w].outcome.result)

-------------------------------------------------------------------------------
\* A row of the right shape makes every CHECK true.

LEMMA TextShapeChecked ==
  ASSUME NEW row \in Row, row.kind = "text", TextShape(row)
  PROVE  Checks(row) = "T"
<1> DEFINE r == row.result
<1>1. /\ row.status \in Statuses /\ r \in Result
      /\ row.started \in BOOLEAN /\ row.due \in BOOLEAN
      /\ row.completed \in BOOLEAN /\ row.failure \in BOOLEAN
  BY DEF Row
<1>2. CASE row.status = "COMPLETED"
  <2>1. GoodText(r) /\ row.attempts > 0 /\ row.started /\ row.completed
        /\ ~row.due /\ ~row.failure
    BY <1>2 DEF TextShape
  <2>2. LanguagePairCheck(row) = "T"
    BY <2>1 DEF LanguagePairCheck, GoodText, All3, Any3, Is3, In3, Differ3
  <2>3. TextResultCheck(row) = "T"
    <3>1. CASE r.source = "unsupported"
      BY <2>1, <3>1 DEF TextResultCheck, GoodText, All3, Any3, Is3, In3
    <3>2. CASE r.source # "unsupported" /\ r.required
      BY <2>1, <3>2 DEF TextResultCheck, GoodText, All3, Any3, Is3, In3
    <3>3. CASE r.source # "unsupported" /\ ~r.required
      BY <2>1, <3>3 DEF TextResultCheck, GoodText, All3, Any3, Is3, In3
    <3> QED
      BY <3>1, <3>2, <3>3
  <2>4. TextStateCheck(row) = "T"
    BY <1>2, <2>1, <2>3 DEF TextStateCheck, All3, Is3
  <2>5. TextColumnChecks(row) = {"T"}
    BY <2>1 DEF TextColumnChecks, GoodText, Any3, Is3, NotBlank3
  <2> QED
    BY <2>2, <2>4, <2>5 DEF Checks, All3
<1>3. CASE row.status # "COMPLETED"
  <2>1. Untouched(r)
    BY <1>1, <1>3 DEF TextShape, Statuses
  <2>2. LanguagePairCheck(row) = "T"
    BY <2>1 DEF LanguagePairCheck, Untouched, All3, Any3, Is3
  <2>3. NoResultChecks(row) = {"T"}
    BY <2>1 DEF NoResultChecks, Untouched, Is3
  <2>4. TextStateCheck(row) = "T"
    BY <1>1, <1>3, <2>3 DEF TextStateCheck, TextShape, All3, Is3, Statuses
  <2>5. TextColumnChecks(row) = {"T"}
    BY <2>1 DEF TextColumnChecks, Untouched, Any3, Is3, NotBlank3
  <2> QED
    BY <2>2, <2>4, <2>5 DEF Checks, All3
<1> QED
  BY <1>2, <1>3

LEMMA AudioShapeChecked ==
  ASSUME NEW row \in Row, row.kind = "audio", AudioShape(row)
  PROVE  Checks(row) = "T"
<1>1. row.status \in Statuses
  BY DEF Row
<1>2. CASE row.status = "COMPLETED"
  BY <1>2 DEF AudioShape, GoodAudio, Checks, AudioStateCheck,
              All3, Any3, Is3, In3, Differ3
<1>3. CASE row.status # "COMPLETED"
  BY <1>1, <1>3 DEF AudioShape, Untouched, Statuses, Checks,
                    AudioStateCheck, All3, Is3
<1> QED
  BY <1>2, <1>3

\* A write of a row of the right shape, with something to say, is taken.
LEMMA ShapeTaken ==
  ASSUME NEW row \in Row, Shape(row), NEW body, Sendable(body)
  PROVE  Taken(row, body) /\ Checks(row) = "T"
<1>1. row.kind \in {"text", "audio"}
  BY DEF Row
<1> QED
  BY <1>1, TextShapeChecked, AudioShapeChecked DEF Shape, Taken, Accepted

-------------------------------------------------------------------------------
\* What the adapters make of an answer.

\* An answer that Validate lets through may be stored and has a text to send.
LEMMA TextOutcomeReady ==
  ASSUME NEW content \in Contents
  PROVE  /\ TextOutcome(content).kind \in {"permanent", "result"}
         /\ TextOutcome(content).result \in Result
         /\ TextOutcome(content).kind = "result" =>
              Ready("text", TextOutcome(content).result)
<1> DEFINE r == DecodedResult(content)
<1>1. r \in Result
  BY DEF Contents, Texts, Languages, DecodedResult, NoResult, Result, Column,
         Language, Plain, Trimmed
<1>2. NoResult \in Result
  BY DEF NoResult, Result, Column, Language
<1>3. ASSUME Validate(r)
      PROVE  Ready("text", r)
  <2>1. /\ r.interpreted \in {"null", "empty", "text"}
        /\ r.question \in {"null", "empty", "text"}
        /\ r.required \in BOOLEAN
    BY <1>1 DEF Result, Column
  <2> DEFINE s == [r EXCEPT !.target = NullIfEmpty(@),
                            !.translated = NullIfEmpty(@)]
  <2>2. /\ s.source = r.source /\ s.interpreted = r.interpreted
        /\ s.required = r.required /\ s.question = r.question
        /\ s.target = NullIfEmpty(r.target)
        /\ s.translated = NullIfEmpty(r.translated)
    BY <1>1 DEF Result
  <2>3. CASE r.source = "unsupported"
    <3>1. /\ r.target = "empty" /\ r.translated = "empty"
          /\ r.interpreted = "null" /\ ~r.required /\ r.question = "null"
      BY <1>3, <2>3 DEF Validate, ValidPair
    <3>2. Sendable(FormatReply(r))
      BY <2>3 DEF Sendable, FormatReply
    <3> QED
      BY <2>2, <2>3, <3>1, <3>2 DEF Ready, GoodText, NullIfEmpty
  <2>4. CASE r.source # "unsupported"
    <3>1. /\ ValidPair(r.source, r.target)
          /\ r.interpreted # "empty"
          /\ IF r.required THEN r.translated = "empty" /\ r.question = "text"
             ELSE r.translated = "text" /\ r.question = "null"
      BY <1>3, <2>4 DEF Validate
    <3>2. \/ r.source = "so" /\ r.target = "en"
          \/ r.source = "en" /\ r.target = "so"
      BY <3>1 DEF ValidPair
    <3>3. Sendable(FormatReply(r))
      BY <2>1, <2>4, <3>1 DEF Sendable, FormatReply
    <3>4. GoodText(s)
      BY <2>1, <2>2, <3>1, <3>2 DEF GoodText, NullIfEmpty
    <3> QED
      BY <3>3, <3>4 DEF Ready
  <2> QED
    BY <2>3, <2>4
<1> QED
  BY <1>1, <1>2, <1>3 DEF TextOutcome, Permanent

\* The same for the audio worker: translation, verdict and correction.
LEMMA AudioOutcomeReady ==
  ASSUME NEW content \in AudioContents, NEW verdict \in Verdicts
  PROVE  /\ AudioOutcome(content, verdict).kind \in {"permanent", "result"}
         /\ AudioOutcome(content, verdict).result \in Result
         /\ AudioOutcome(content, verdict).kind = "result" =>
              Ready("audio", AudioOutcome(content, verdict).result)
<1> DEFINE o == AudioOutcome(content, verdict)
<1>1. CASE ~Translation(content)
  BY <1>1 DEF AudioOutcome, Permanent, NoResult, Result, Column, Language
<1>2. CASE Translation(content) /\ content.source = "unsupported"
  <2>1. content.target = "null"
    BY <1>2 DEF Translation
  <2>2. o = Heard(content, "null")
    BY <1>2 DEF AudioOutcome
  <2> QED
    BY <1>2, <2>1, <2>2 DEF Heard, NoResult, Result, Column, Language, Ready,
       GoodAudio, Sendable, FormatReply
<1>3. CASE Translation(content) /\ content.source # "unsupported"
  <2>1. /\ \/ content.source = "so" /\ content.target = "en"
           \/ content.source = "en" /\ content.target = "so"
        /\ content.translated = "text"
    BY <1>3 DEF Translation
  <2>2. CASE ~Usable(verdict)
    BY <1>3, <2>2 DEF AudioOutcome, Permanent, NoResult, Result, Column,
                      Language
  <2>3. CASE Usable(verdict)
    <3>1. o = Heard(content, "text")
      BY <1>3, <2>1, <2>3
      DEF AudioOutcome, Usable, Verdicts, Texts, Trimmed
    <3> QED
      BY <1>3, <2>1, <3>1 DEF Heard, NoResult, Result, Column, Language, Ready,
         GoodAudio, Sendable, FormatReply
  <2> QED
    BY <2>2, <2>3
<1> QED
  BY <1>1, <1>2, <1>3

-------------------------------------------------------------------------------
\* The invariant.

LEMMA NoResultIsResult == NoResult \in Result /\ Untouched(NoResult)
BY DEF NoResult, Result, Column, Language, Untouched

\* What the database does with a row of the right shape.
LEMMA WriteKeeps ==
  ASSUME IInv, NEW row \in Row, Shape(row), row.kind = job.kind,
         row.attempts >= job.attempts, NEW body, Sendable(body),
         Write(row, body)
  PROVE  /\ job' \in Row /\ Shape(job') /\ ~refused' /\ refused' \in BOOLEAN
         /\ job'.kind = job.kind /\ job'.attempts >= job.attempts
         /\ job'.attempts = row.attempts
<1>1. job' = [row EXCEPT !.stale = FALSE] /\ ~refused' /\ refused' \in BOOLEAN
  BY ShapeTaken DEF Write, IInv
<1>2. /\ job' \in Row /\ job'.kind = row.kind /\ job'.status = row.status
      /\ job'.attempts = row.attempts /\ job'.started = row.started
      /\ job'.due = row.due /\ job'.completed = row.completed
      /\ job'.failure = row.failure /\ job'.result = row.result
  BY <1>1 DEF Row
<1>3. Shape(job')
  BY <1>2 DEF Shape, TextShape, AudioShape
<1> QED
  BY <1>1, <1>2, <1>3

LEMMA NoWriteKeeps ==
  ASSUME IInv, NoWrite
  PROVE  /\ job' \in Row /\ Shape(job') /\ ~refused' /\ refused' \in BOOLEAN
         /\ job'.kind = job.kind /\ job'.attempts >= job.attempts
         /\ job'.attempts = job.attempts
BY DEF NoWrite, IInv, TypeOK, Row, Shape, TextShape, AudioShape

\* A worker that goes on, while the job keeps its shape.
LEMMA MoveKeeps ==
  ASSUME IInv, MaxAttempts \in Nat,
         job' \in Row, Shape(job'), ~refused', refused' \in BOOLEAN,
         job'.kind = job.kind, job'.attempts >= job.attempts,
         NEW w \in Workers, NEW pc \in {"poll", "call", "write"},
         NEW attempts \in 0..MaxAttempts, NEW outcome,
         outcome \in [kind : {"none", "transient", "permanent", "result"},
                      result : Result],
         pc # "poll" => job'.attempts > 0,
         outcome.kind = "result" => Ready(job.kind, outcome.result),
         To(w, pc, attempts, outcome)
  PROVE  IInv'
<1>1. job.attempts \in 0..MaxAttempts /\ job'.attempts \in 0..MaxAttempts
  BY DEF IInv, TypeOK, Row
<1>2. TypeOK'
  BY DEF IInv, TypeOK, To
<1>3. \A v \in Workers :
        /\ worker[v].pc # "poll" => job'.attempts > 0
        /\ worker[v].pc = "write" /\ worker[v].outcome.kind = "result" =>
             Ready(job'.kind, worker[v].outcome.result)
  BY <1>1 DEF IInv
<1>4. \A v \in Workers : worker'[v] = IF v = w
        THEN [pc |-> pc, attempts |-> attempts, outcome |-> outcome]
        ELSE worker[v]
  BY DEF To, IInv, TypeOK
<1>5. \A v \in Workers :
        /\ worker'[v].pc # "poll" => job'.attempts > 0
        /\ worker'[v].pc = "write" /\ worker'[v].outcome.kind = "result" =>
             Ready(job'.kind, worker'[v].outcome.result)
  <2> TAKE v \in Workers
  <2>1. CASE v = w
    <3>1. worker'[v] = [pc |-> pc, attempts |-> attempts, outcome |-> outcome]
      BY <1>4, <2>1
    <3> QED
      BY <3>1
  <2>2. CASE v # w
    BY <1>3, <1>4, <2>2
  <2> QED
    BY <2>1, <2>2
<1> QED
  BY <1>2, <1>5 DEF IInv

LEMMA StayKeeps ==
  ASSUME IInv, MaxAttempts \in Nat,
         job' \in Row, Shape(job'), ~refused', refused' \in BOOLEAN,
         job'.kind = job.kind, job'.attempts >= job.attempts,
         UNCHANGED worker
  PROVE  IInv'
<1>1. job.attempts \in 0..MaxAttempts /\ job'.attempts \in 0..MaxAttempts
  BY DEF IInv, TypeOK, Row
<1> QED
  BY <1>1 DEF IInv, TypeOK

\* Each write of the translation worker, then of the audio worker, has the
\* right shape.

LEMMA TextRowsShaped ==
  ASSUME IInv, job.kind = "text", MaxAttempts \in Nat \ {0}
  PROVE  /\ job.status \in {"PENDING", "PROCESSING"} /\ job.attempts < MaxAttempts =>
              /\ TextClaimed(job) \in Row /\ Shape(TextClaimed(job))
              /\ TextClaimed(job).kind = job.kind
              /\ TextClaimed(job).attempts = job.attempts + 1
         /\ job.status = "PROCESSING" =>
              /\ TextRetried(job) \in Row /\ Shape(TextRetried(job))
              /\ TextRetried(job).kind = job.kind
              /\ TextRetried(job).attempts = job.attempts
         /\ job.status \in {"PENDING", "PROCESSING"} /\ job.attempts > 0 =>
              /\ TextFailed(job) \in Row /\ Shape(TextFailed(job))
              /\ TextFailed(job).kind = job.kind
              /\ TextFailed(job).attempts = job.attempts
<1>1. job \in Row /\ TextShape(job) /\ job.attempts \in 0..MaxAttempts
  BY DEF IInv, TypeOK, Shape, Row
<1>2. ASSUME job.status \in {"PENDING", "PROCESSING"}, job.attempts < MaxAttempts
      PROVE  /\ TextClaimed(job) \in Row /\ Shape(TextClaimed(job))
             /\ TextClaimed(job).kind = job.kind
             /\ TextClaimed(job).attempts = job.attempts + 1
  <2>1. job.attempts + 1 \in 0..MaxAttempts /\ job.attempts + 1 > 0
    BY <1>1, <1>2
  <2>2. /\ TextClaimed(job) \in Row
        /\ TextClaimed(job).attempts = job.attempts + 1
        /\ TextClaimed(job).kind = job.kind
    BY <1>1, <2>1 DEF Row, Statuses, TextClaimed
  <2>3. TextShape(TextClaimed(job))
    BY <1>1, <1>2, <2>1 DEF Row, TextShape, TextClaimed
  <2> QED
    BY <2>2, <2>3 DEF Shape
<1>3. ASSUME job.status = "PROCESSING"
      PROVE  /\ TextRetried(job) \in Row /\ Shape(TextRetried(job))
             /\ TextRetried(job).kind = job.kind
             /\ TextRetried(job).attempts = job.attempts
  BY <1>1, <1>3 DEF Row, Statuses, Shape, TextShape, TextRetried
<1>4. ASSUME job.status \in {"PENDING", "PROCESSING"}, job.attempts > 0
      PROVE  /\ TextFailed(job) \in Row /\ Shape(TextFailed(job))
             /\ TextFailed(job).kind = job.kind
             /\ TextFailed(job).attempts = job.attempts
  BY <1>1, <1>4 DEF Row, Statuses, Shape, TextShape, TextFailed
<1> QED
  BY <1>2, <1>3, <1>4

LEMMA TextCompletedShaped ==
  ASSUME IInv, job.kind = "text", job.status = "PROCESSING",
         NEW r \in Result, Ready("text", r)
  PROVE  /\ TextCompleted(job, r) \in Row /\ Shape(TextCompleted(job, r))
         /\ TextCompleted(job, r).kind = job.kind
         /\ TextCompleted(job, r).attempts = job.attempts
<1> DEFINE s == [r EXCEPT !.target = NullIfEmpty(@),
                          !.translated = NullIfEmpty(@)]
<1>1. s \in Result
  BY DEF Result, Column, Language, NullIfEmpty
<1>2. GoodText(s)
  BY DEF Ready
<1>3. TextCompleted(job, r) = [job EXCEPT !.status = "COMPLETED", !.due = FALSE,
                                          !.completed = TRUE, !.result = s]
  BY DEF TextCompleted
<1>4. job \in Row /\ TextShape(job)
  BY DEF IInv, TypeOK, Shape
<1> HIDE DEF s
<1> QED
  BY <1>1, <1>2, <1>3, <1>4 DEF Row, Statuses, Shape, TextShape

LEMMA AudioRowsShaped ==
  ASSUME IInv, job.kind = "audio", MaxAttempts \in Nat \ {0}
  PROVE  /\ job.status = "PENDING" /\ job.attempts < MaxAttempts =>
              /\ AudioClaimed(job) \in Row /\ Shape(AudioClaimed(job))
              /\ AudioClaimed(job).kind = job.kind
              /\ AudioClaimed(job).attempts = job.attempts + 1
         /\ job.status \in {"PENDING", "PROCESSING"} =>
              \A row \in {AudioRetried(job), AudioFailed(job),
                          AudioRecovered(job), AudioExhausted(job)} :
                /\ row \in Row /\ Shape(row)
                /\ row.kind = job.kind /\ row.attempts = job.attempts
         /\ \A r \in Result :
              job.status = "PROCESSING" /\ Ready("audio", r) =>
                /\ AudioCompleted(job, r) \in Row
                /\ Shape(AudioCompleted(job, r))
                /\ AudioCompleted(job, r).kind = job.kind
                /\ AudioCompleted(job, r).attempts = job.attempts
<1>1. job \in Row /\ AudioShape(job) /\ job.attempts \in 0..MaxAttempts
  BY DEF IInv, TypeOK, Shape, Row
<1>2. ASSUME job.status = "PENDING", job.attempts < MaxAttempts
      PROVE  /\ AudioClaimed(job) \in Row /\ Shape(AudioClaimed(job))
             /\ AudioClaimed(job).kind = job.kind
             /\ AudioClaimed(job).attempts = job.attempts + 1
  <2>1. job.attempts + 1 \in 0..MaxAttempts /\ job.attempts + 1 > 0
    BY <1>1, <1>2
  <2>2. /\ AudioClaimed(job) \in Row
        /\ AudioClaimed(job).attempts = job.attempts + 1
        /\ AudioClaimed(job).kind = job.kind
    BY <1>1, <2>1 DEF Row, Statuses, AudioClaimed
  <2>3. AudioShape(AudioClaimed(job))
    BY <1>1, <1>2, <2>1 DEF Row, AudioShape, AudioClaimed
  <2> QED
    BY <2>2, <2>3 DEF Shape
<1>3. ASSUME job.status \in {"PENDING", "PROCESSING"},
             NEW row \in {AudioRetried(job), AudioFailed(job),
                          AudioRecovered(job), AudioExhausted(job)}
      PROVE  /\ row \in Row /\ Shape(row)
             /\ row.kind = job.kind /\ row.attempts = job.attempts
  <2>1. CASE row = AudioRetried(job)
    BY <1>1, <1>3, <2>1 DEF Row, Statuses, Shape, AudioShape, AudioRetried
  <2>2. CASE row = AudioFailed(job)
    BY <1>1, <1>3, <2>2 DEF Row, Statuses, Shape, AudioShape, AudioFailed
  <2>3. CASE row = AudioRecovered(job)
    BY <1>1, <1>3, <2>3 DEF Row, Statuses, Shape, AudioShape, AudioRecovered
  <2>4. CASE row = AudioExhausted(job)
    BY <1>1, <1>3, <2>4 DEF Row, Statuses, Shape, AudioShape, AudioExhausted
  <2> QED
    BY <1>3, <2>1, <2>2, <2>3, <2>4
<1>4. ASSUME NEW r \in Result, job.status = "PROCESSING", Ready("audio", r)
      PROVE  /\ AudioCompleted(job, r) \in Row /\ Shape(AudioCompleted(job, r))
             /\ AudioCompleted(job, r).kind = job.kind
             /\ AudioCompleted(job, r).attempts = job.attempts
  <2>1. GoodAudio(r)
    BY <1>4 DEF Ready
  <2> QED
    BY <1>1, <1>4, <2>1 DEF Row, Statuses, Shape, AudioShape, AudioCompleted
<1> QED
  BY <1>2, <1>3, <1>4

LEMMA OutcomeTypes ==
  /\ NoOutcome \in [kind : {"none", "transient", "permanent", "result"},
                    result : Result]
  /\ Transient \in [kind : {"none", "transient", "permanent", "result"},
                    result : Result]
  /\ Permanent \in [kind : {"none", "transient", "permanent", "result"},
                    result : Result]
  /\ NoOutcome.kind # "result" /\ Transient.kind # "result"
  /\ Permanent.kind # "result"
BY NoResultIsResult DEF NoOutcome, Transient, Permanent

LEMMA InitIInv == ASSUME MaxAttempts \in Nat \ {0}, Init PROVE IInv
<1>1. PICK kind \in {"text", "audio"} : job = NewJob(kind)
  BY DEF Init
<1>2. job \in Row /\ Shape(job)
  BY <1>1, NoResultIsResult
  DEF NewJob, Row, Statuses, Shape, TextShape, AudioShape
<1>3. TypeOK
  <2>1. Idle \in [pc : {"poll", "call", "write"}, attempts : 0..MaxAttempts,
                 outcome : [kind : {"none", "transient", "permanent", "result"},
                            result : Result]]
    BY OutcomeTypes DEF Idle
  <2> QED
    BY <1>2, <2>1 DEF Init, TypeOK
<1> QED
  BY <1>2, <1>3 DEF Init, IInv, Idle

\* A worker that holds nothing any more.
LEMMA PollKeeps ==
  ASSUME IInv, MaxAttempts \in Nat,
         job' \in Row, Shape(job'), ~refused', refused' \in BOOLEAN,
         job'.kind = job.kind, job'.attempts >= job.attempts,
         NEW w \in Workers, To(w, "poll", 0, NoOutcome)
  PROVE  IInv'
BY MoveKeeps, OutcomeTypes

LEMMA NextIInv == ASSUME IInv, [Next]_vars PROVE IInv'
<1> USE MaxAttemptsAssumption
<1>0. /\ MaxAttempts \in Nat /\ MaxAttempts > 0
      /\ job \in Row /\ Shape(job) /\ job.attempts \in 0..MaxAttempts
      /\ job.kind \in {"text", "audio"} /\ job.status \in Statuses
      /\ worker \in [Workers -> [pc : {"poll", "call", "write"},
                                 attempts : 0..MaxAttempts,
                                 outcome : [kind : {"none", "transient",
                                                    "permanent", "result"},
                                            result : Result]]]
  BY DEF IInv, TypeOK, Row
<1>1. Sendable(Sorry)
  BY DEF Sendable, Sorry
<1>2. CASE UNCHANGED vars
  BY <1>2 DEF vars, IInv, TypeOK, Row, Shape, TextShape, AudioShape
<1>3. CASE Expire
  <2>1. /\ job' \in Row /\ job'.kind = job.kind /\ job'.status = job.status
        /\ job'.attempts = job.attempts /\ job'.started = job.started
        /\ job'.due = job.due /\ job'.completed = job.completed
        /\ job'.failure = job.failure /\ job'.result = job.result
    BY <1>0, <1>3 DEF Expire, Row
  <2>2. Shape(job')
    BY <1>0, <2>1 DEF Shape, TextShape, AudioShape
  <2>3. ~refused' /\ refused' \in BOOLEAN /\ UNCHANGED worker
    BY <1>3 DEF Expire, IInv, TypeOK
  <2> QED
    BY <1>0, <2>1, <2>2, <2>3, StayKeeps
<1>4. ASSUME NEW w \in Workers, TextStep(w) PROVE IInv'
  <2>0. job.kind = "text"
    BY <1>4 DEF TextStep, TextFailExhausted, TextExhausted, TextClaim,
                TextClaimable, TextCall, TextComplete, TextRetry, TextFail
  <2>1. CASE TextFailExhausted(w)
    <3>1. /\ job.status \in {"PENDING", "PROCESSING"} /\ job.attempts > 0
          /\ Write(TextFailed(job), Sorry) /\ UNCHANGED worker
      BY <1>0, <2>1 DEF TextFailExhausted, TextExhausted
    <3> QED
      BY <1>0, <1>1, <2>0, <3>1, TextRowsShaped, WriteKeeps, StayKeeps
  <2>2. CASE TextClaim(w)
    <3>1. /\ job.status \in {"PENDING", "PROCESSING"}
          /\ job.attempts < MaxAttempts /\ Write(TextClaimed(job), Sorry)
      BY <1>0, <2>2 DEF TextClaim, TextClaimable
    <3>2. /\ TextClaimed(job) \in Row /\ Shape(TextClaimed(job))
          /\ TextClaimed(job).kind = job.kind
          /\ TextClaimed(job).attempts = job.attempts + 1
      BY <2>0, <3>1, TextRowsShaped
    <3>3. /\ job' \in Row /\ Shape(job') /\ ~refused' /\ refused' \in BOOLEAN
          /\ job'.kind = job.kind /\ job'.attempts = job.attempts + 1
      BY <1>0, <1>1, <3>1, <3>2, WriteKeeps
    <3>4. To(w, "call", job.attempts + 1, NoOutcome)
      BY <1>1, <2>2, <3>2, ShapeTaken DEF TextClaim, Taken
    <3> QED
      BY <1>0, <1>4, <3>1, <3>3, <3>4, OutcomeTypes, MoveKeeps
  <2>3. CASE TextCall(w)
    <3>1. NoWrite /\ worker[w].pc = "call" /\ job.attempts > 0
          /\ worker[w].attempts \in 0..MaxAttempts
      BY <1>0, <1>4, <2>3 DEF TextCall, IInv
    <3>2. PICK outcome \in [kind : {"none", "transient", "permanent", "result"},
                            result : Result] :
            /\ To(w, "write", worker[w].attempts, outcome)
            /\ outcome.kind = "result" => Ready("text", outcome.result)
      <4>1. CASE \E failure \in Failures :
                   To(w, "write", worker[w].attempts, Translate(failure))
        BY <4>1, OutcomeTypes DEF Translate
      <4>2. CASE \E content \in Contents :
                   To(w, "write", worker[w].attempts, TextOutcome(content))
        <5>1. PICK content \in Contents :
                To(w, "write", worker[w].attempts, TextOutcome(content))
          BY <4>2
        <5>2. TextOutcome(content) = [kind |-> TextOutcome(content).kind,
                                      result |-> TextOutcome(content).result]
          BY DEF TextOutcome, Permanent
        <5> QED
          BY <5>1, <5>2, TextOutcomeReady
      <4> QED
        BY <2>3, <4>1, <4>2 DEF TextCall
    <3> QED
      BY <1>0, <1>4, <2>0, <3>1, <3>2, NoWriteKeeps, MoveKeeps
  <2>4. CASE TextComplete(w)
    <3> DEFINE r == worker[w].outcome.result
    <3>1. r \in Result /\ Ready("text", r)
      BY <1>0, <1>4, <2>0, <2>4 DEF TextComplete, Completes, IInv
    <3>2. CASE job.status = "PROCESSING"
      <4>1. Write(TextCompleted(job, r), FormatReply(r))
            /\ To(w, "poll", 0, NoOutcome)
        BY <2>4, <3>2 DEF TextComplete
      <4>2. Sendable(FormatReply(r))
        BY <3>1 DEF Ready
      <4> QED
        BY <1>0, <1>4, <2>0, <3>1, <3>2, <4>1, <4>2, TextCompletedShaped,
           WriteKeeps, PollKeeps
    <3>3. CASE job.status # "PROCESSING"
      BY <1>0, <1>4, <2>4, <3>3, NoWriteKeeps, PollKeeps DEF TextComplete
    <3> QED
      BY <3>2, <3>3
  <2>5. CASE TextRetry(w)
    <3>1. To(w, "poll", 0, NoOutcome)
      BY <2>5 DEF TextRetry
    <3>2. CASE job.status = "PROCESSING"
      <4>1. Write(TextRetried(job), Sorry)
        BY <2>5, <3>2 DEF TextRetry
      <4> QED
        BY <1>0, <1>1, <1>4, <2>0, <3>1, <3>2, <4>1, TextRowsShaped,
           WriteKeeps, PollKeeps
    <3>3. CASE job.status # "PROCESSING"
      BY <1>0, <1>4, <2>5, <3>1, <3>3, NoWriteKeeps, PollKeeps DEF TextRetry
    <3> QED
      BY <3>2, <3>3
  <2>6. CASE TextFail(w)
    <3>1. To(w, "poll", 0, NoOutcome) /\ job.attempts > 0
      BY <1>4, <2>6 DEF TextFail, Fails, IInv
    <3>2. CASE job.status \in {"PENDING", "PROCESSING"}
      <4>1. Write(TextFailed(job), Sorry)
        BY <2>6, <3>2 DEF TextFail
      <4> QED
        BY <1>0, <1>1, <1>4, <2>0, <3>1, <3>2, <4>1, TextRowsShaped,
           WriteKeeps, PollKeeps
    <3>3. CASE job.status \notin {"PENDING", "PROCESSING"}
      BY <1>0, <1>4, <2>6, <3>1, <3>3, NoWriteKeeps, PollKeeps DEF TextFail
    <3> QED
      BY <3>2, <3>3
  <2> QED
    BY <1>4, <2>1, <2>2, <2>3, <2>4, <2>5, <2>6 DEF TextStep
<1>5. ASSUME NEW w \in Workers, AudioStep(w) PROVE IInv'
  <2>0. job.kind = "audio"
    BY <1>5 DEF AudioStep, RecoverStalled, AudioFailExhausted, AudioClaim,
                AudioClaimable, AudioCall, AudioComplete, AudioRetry, AudioFail
  <2>1. CASE RecoverStalled(w)
    BY <1>0, <1>1, <2>0, <2>1, AudioRowsShaped, WriteKeeps, StayKeeps
    DEF RecoverStalled
  <2>2. CASE AudioFailExhausted(w)
    BY <1>0, <1>1, <2>0, <2>2, AudioRowsShaped, WriteKeeps, StayKeeps
    DEF AudioFailExhausted
  <2>3. CASE AudioClaim(w)
    <3>1. /\ job.status = "PENDING" /\ job.attempts < MaxAttempts
          /\ Write(AudioClaimed(job), Sorry)
      BY <2>3 DEF AudioClaim, AudioClaimable
    <3>2. /\ AudioClaimed(job) \in Row /\ Shape(AudioClaimed(job))
          /\ AudioClaimed(job).kind = job.kind
          /\ AudioClaimed(job).attempts = job.attempts + 1
      BY <2>0, <3>1, AudioRowsShaped
    <3>3. /\ job' \in Row /\ Shape(job') /\ ~refused' /\ refused' \in BOOLEAN
          /\ job'.kind = job.kind /\ job'.attempts = job.attempts + 1
      BY <1>0, <1>1, <3>1, <3>2, WriteKeeps
    <3>4. To(w, "call", job.attempts + 1, NoOutcome)
      BY <1>1, <2>3, <3>2, ShapeTaken DEF AudioClaim, Taken
    <3> QED
      BY <1>0, <1>5, <3>1, <3>3, <3>4, OutcomeTypes, MoveKeeps
  <2>4. CASE AudioCall(w)
    <3>1. NoWrite /\ worker[w].pc = "call" /\ job.attempts > 0
          /\ worker[w].attempts \in 0..MaxAttempts
      BY <1>0, <1>5, <2>4 DEF AudioCall, IInv
    <3>2. PICK outcome \in [kind : {"none", "transient", "permanent", "result"},
                            result : Result] :
            /\ To(w, "write", worker[w].attempts, outcome)
            /\ outcome.kind = "result" => Ready("audio", outcome.result)
      <4>1. CASE \E failure \in Failures :
                   To(w, "write", worker[w].attempts, TranscribeFails(failure))
        BY <4>1, OutcomeTypes DEF TranscribeFails
      <4>2. CASE \E failure \in Failures :
                   To(w, "write", worker[w].attempts, TranslateFails(failure))
        BY <4>2, OutcomeTypes DEF TranslateFails
      <4>3. CASE \E content \in AudioContents, verdict \in Verdicts :
                   To(w, "write", worker[w].attempts,
                      AudioOutcome(content, verdict))
        <5>1. PICK content \in AudioContents, verdict \in Verdicts :
                To(w, "write", worker[w].attempts,
                   AudioOutcome(content, verdict))
          BY <4>3
        <5> DEFINE o == AudioOutcome(content, verdict)
        <5>2. o = [kind |-> o.kind, result |-> o.result]
          <6>1. CASE ~Translation(content)
            BY <6>1 DEF AudioOutcome, Permanent
          <6>2. CASE Translation(content) /\ content.source = "unsupported"
            BY <6>2 DEF AudioOutcome, Heard
          <6>3. CASE Translation(content) /\ content.source # "unsupported"
            BY <6>3 DEF AudioOutcome, Heard, Permanent
          <6> QED
            BY <6>1, <6>2, <6>3
        <5>3. /\ o.kind \in {"permanent", "result"} /\ o.result \in Result
              /\ o.kind = "result" => Ready("audio", o.result)
          BY AudioOutcomeReady
        <5> HIDE DEF o
        <5>4. o \in [kind : {"none", "transient", "permanent", "result"},
                     result : Result]
          BY <5>2, <5>3
        <5> QED
          BY <5>1, <5>3, <5>4 DEF o
      <4> QED
        BY <2>4, <4>1, <4>2, <4>3 DEF AudioCall
    <3> QED
      BY <1>0, <1>5, <2>0, <3>1, <3>2, NoWriteKeeps, MoveKeeps
  <2>5. CASE AudioComplete(w)
    <3> DEFINE r == worker[w].outcome.result
    <3>1. r \in Result /\ Ready("audio", r) /\ job.attempts > 0
          /\ worker[w].attempts \in 0..MaxAttempts
      BY <1>0, <1>5, <2>0, <2>5 DEF AudioComplete, Completes, IInv
    <3>2. CASE job.status = "PROCESSING"
      <4>1. Sendable(FormatReply(r))
        BY <3>1 DEF Ready
      <4>2. /\ AudioCompleted(job, r) \in Row /\ Shape(AudioCompleted(job, r))
            /\ AudioCompleted(job, r).kind = job.kind
            /\ AudioCompleted(job, r).attempts = job.attempts
        BY <2>0, <3>1, <3>2, AudioRowsShaped
      <4>3. Write(AudioCompleted(job, r), FormatReply(r))
            /\ To(w, "poll", 0, NoOutcome)
        BY <2>5, <3>2, <4>1, <4>2, ShapeTaken DEF AudioComplete
      <4> QED
        BY <1>0, <1>5, <4>1, <4>2, <4>3, WriteKeeps, PollKeeps
    <3>3. CASE job.status # "PROCESSING"
      <4>1. NoWrite /\ To(w, "write", worker[w].attempts, Permanent)
        BY <2>5, <3>3 DEF AudioComplete
      <4> QED
        BY <1>0, <1>5, <3>1, <4>1, OutcomeTypes, NoWriteKeeps, MoveKeeps
    <3> QED
      BY <3>2, <3>3
  <2>6. CASE AudioRetry(w)
    <3>1. To(w, "poll", 0, NoOutcome)
      BY <2>6 DEF AudioRetry
    <3>2. CASE job.status = "PROCESSING"
      <4>1. Write(AudioRetried(job), Sorry)
        BY <2>6, <3>2 DEF AudioRetry
      <4> QED
        BY <1>0, <1>1, <1>5, <2>0, <3>1, <3>2, <4>1, AudioRowsShaped,
           WriteKeeps, PollKeeps
    <3>3. CASE job.status # "PROCESSING"
      BY <1>0, <1>5, <2>6, <3>1, <3>3, NoWriteKeeps, PollKeeps DEF AudioRetry
    <3> QED
      BY <3>2, <3>3
  <2>7. CASE AudioFail(w)
    <3>1. To(w, "poll", 0, NoOutcome)
      BY <2>7 DEF AudioFail
    <3>2. CASE job.status = "PROCESSING"
      <4>1. Write(AudioFailed(job), Sorry)
        BY <2>7, <3>2 DEF AudioFail
      <4> QED
        BY <1>0, <1>1, <1>5, <2>0, <3>1, <3>2, <4>1, AudioRowsShaped,
           WriteKeeps, PollKeeps
    <3>3. CASE job.status # "PROCESSING"
      BY <1>0, <1>5, <2>7, <3>1, <3>3, NoWriteKeeps, PollKeeps DEF AudioFail
    <3> QED
      BY <3>2, <3>3
  <2> QED
    BY <1>5, <2>1, <2>2, <2>3, <2>4, <2>5, <2>6, <2>7 DEF AudioStep
<1>6. ASSUME NEW w \in Workers, Crash(w) PROVE IInv'
  <2>1. NoWrite /\ To(w, "poll", 0, NoOutcome)
    BY <1>6 DEF Crash
  <2> QED
    BY <1>0, <1>6, <2>1, NoWriteKeeps, PollKeeps
<1> QED
  BY <1>2, <1>3, <1>4, <1>5, <1>6 DEF Next

LEMMA InvariantAlways == Spec => []IInv
<1>1. Init => IInv
  BY InitIInv, MaxAttemptsAssumption
<1>2. IInv /\ [Next]_vars => IInv'
  BY NextIInv
<1> QED
  BY <1>1, <1>2, PTL DEF Spec

\* The row and the workers have their types, the row no more attempts than
\* MaxAttempts.
THEOREM ResultTypeCorrect == Spec => []TypeOK
<1>1. IInv => TypeOK
  BY DEF IInv
<1> QED
  BY <1>1, InvariantAlways, PTL

\* With any number of workers and attempts, whatever the provider answers and
\* however late it does, no CHECK refuses a write and every reply has a text.
THEOREM EveryWriteIsTakenHolds == Spec => []EveryWriteIsTaken
<1>1. IInv => EveryWriteIsTaken
  BY DEF IInv, EveryWriteIsTaken
<1> QED
  BY <1>1, InvariantAlways, PTL

\* No row is stored because a CHECK was NULL.
THEOREM ChecksAreDefiniteHolds == Spec => []ChecksAreDefinite
<1>1. IInv => ChecksAreDefinite
  <2>1. ASSUME IInv PROVE job \in Row /\ Shape(job)
    BY <2>1 DEF IInv, TypeOK
  <2>2. Sendable("text")
    BY DEF Sendable
  <2> QED
    BY <2>1, <2>2, ShapeTaken DEF ChecksAreDefinite
<1> QED
  BY <1>1, InvariantAlways, PTL
===============================================================================
