\* A sender, the tester and an administrator, two texts and a voice note, over midnight.
SPECIFICATION Spec
CONSTANTS
  Senders = {s1, s2, s3}
  Tester = s2
  Admins = {s3}
  TextJobs = {t1, t2}
  AudioJobs = {a1}
  Days = {0, 1}
  NoSender = NoSender
  GlobalLimit = 2
  DailyLimit = 1
  RecruiterLimit = 2
SYMMETRY JobSymmetry
INVARIANTS
  TypeOK
  GlobalCap
  DailyCap
  RecruiterLifetimeCap
  DisabledWhenUsedUp
  CompletionNeverRefused
PROPERTIES
  PermittedForGood
CHECK_DEADLOCK FALSE
