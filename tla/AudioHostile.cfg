\* One recording sent twice, two processors, a worker, every fault there is.
SPECIFICATION Spec
CONSTANTS
  m1 = m1
  m2 = m2
  u1 = u1
  j1 = j1
  j2 = j2
  r1 = r1
  NoNote = NoNote
  NoJob = NoJob
  Notes = {m1, m2}
  Uploads = {}
  Jobs = {j1}
  JobOf <- SameJob
  CreatedAt <- SameAge
  Recordings = {r1}
  RecordingOf <- OneFile
  Processors = {p1, p2}
  Workers = {w1}
  MaxAttempts = 2
  MaxProviderAttempts = 1
  MaxEntries = 1
  Late = {p1, p2, w1}
  LostAcks = {p1, p2, w1}
  Refusals = TRUE
  Losses = TRUE
SYMMETRY InterchangeableNotes
PROPERTY ImplementsOneAnswer
