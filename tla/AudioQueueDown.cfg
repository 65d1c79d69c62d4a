\* One recording sent twice; Redis may refuse an entry.
SPECIFICATION Spec
CONSTANTS
  m1 = m1
  m2 = m2
  u1 = u1
  j1 = j1
  j2 = j2
  r1 = r1
  NoNote = NoNote
  NoJob = NoJob
  Notes = {m1, m2}
  Uploads = {}
  Jobs = {j1}
  JobOf <- SameJob
  CreatedAt <- SameAge
  Recordings = {r1}
  RecordingOf <- OneFile
  Processors = {p1}
  Workers = {w1}
  MaxAttempts = 2
  MaxProviderAttempts = 2
  MaxEntries = 1
  Late = {}
  LostAcks = {}
  Refusals = TRUE
  Losses = FALSE
INVARIANT ReplyTellsOutcome
