\* One text message, three processors and two workers, every fault there is.
SPECIFICATION Spec
CONSTANTS
  NoMessage = NoMessage
  Messages = {m1}
  TextMessages = {m1}
  Processors = {p1, p2, p3}
  Runners = {w1, w2}
  MaxAttempts = 3
  MaxProviderAttempts = 2
  Late = {p1, p2, p3, w1, w2}
  LostAcks = {p1, p2, p3}
SYMMETRY Interchangeable
INVARIANTS
  JobAndMessageAgree
  AttemptsMadeOnce
PROPERTY ImplementsAnswerOnce
