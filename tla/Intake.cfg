\* A voice note and a registration code, in a batch that breaks off at the code while
\* the codes are broken, and in one that cannot be parsed; two intake loops, neither
\* late; uploads of the same sender besides.
SPECIFICATION Spec
CONSTANTS
  voice = voice
  code = code
  garbage = garbage
  submissions = submissions
  registrations = registrations
  b1 = b1
  b2 = b2
  Nobody = Nobody
  Messages = {voice, code, garbage}
  ContentOf <- MCContentOf
  Deliveries = {b1, b2}
  BatchOf <- MCBatchOf
  Requests = {r1}
  IntakeAttempts = 2
  Keys = {submissions, registrations}
  Passes = {voice, code, garbage}
  LimitOf <- MCLimitOf
  Period = 2
  Processors = {p1, p2}
  Late = {}
  KeyOf <- MCKeyOf
  UploadKeys = {submissions}
SYMMETRY Interchangeable
INVARIANTS
  TypeOK
  DeliveredIsSaved
  BurstBound
  RefusedOnlyWhenFull
PROPERTIES
  SavedOnce
  LetThroughForGood
