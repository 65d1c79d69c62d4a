\* One recording sent twice, the second time when it may have failed; a processor and
\* two workers, misreported commits of the workers and lost entries, but no process
\* outlives the staleness limit.
SPECIFICATION FairSpec
CONSTANTS
  m1 = m1
  m2 = m2
  u1 = u1
  j1 = j1
  j2 = j2
  r1 = r1
  NoNote = NoNote
  NoJob = NoJob
  Notes = {m1, m2}
  Uploads = {}
  Jobs = {j1}
  JobOf <- SameJob
  CreatedAt <- FirstIsOlder
  Recordings = {r1}
  RecordingOf <- OneFile
  Processors = {p1}
  Workers = {w1, w2}
  MaxAttempts = 1
  MaxProviderAttempts = 2
  MaxEntries = 2
  Late = {}
  LostAcks = {w1, w2}
  Refusals = FALSE
  Losses = TRUE
INVARIANT ExclusiveWork
PROPERTIES
  JobsEnd
  LinkedNotesEnd
