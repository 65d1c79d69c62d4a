\* One recording sent as a voice note and uploaded, two attempts, and two workers that
\* outlive their claims and are misinformed of their commits; entries are lost.
SPECIFICATION Spec
CONSTANTS
  m1 = m1
  m2 = m2
  u1 = u1
  j1 = j1
  j2 = j2
  r1 = r1
  NoNote = NoNote
  NoJob = NoJob
  Notes = {m1}
  Uploads = {u1}
  Jobs = {j1}
  JobOf <- NoteAndUpload
  CreatedAt <- SameAge
  Recordings = {r1}
  RecordingOf <- OneFile
  Processors = {p1}
  Workers = {w1, w2}
  MaxAttempts = 2
  MaxProviderAttempts = 2
  MaxEntries = 2
  Late = {w1, w2}
  LostAcks = {w1, w2}
  Refusals = FALSE
  Losses = TRUE
SYMMETRY Interchangeable
INVARIANTS
  TypeOK
  ReplyTellsOutcome
  RepliesAreTrue
PROPERTY JobEndIsFinal
