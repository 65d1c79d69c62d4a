\* Two text messages, a processor and two workers; crashes at any point, but no
\* process outlives the staleness limit and no commit is misreported.
SPECIFICATION FairSpec
CONSTANTS
  NoMessage = NoMessage
  Messages = {m1, m2}
  TextMessages = {m1, m2}
  Processors = {p1}
  Runners = {w1, w2}
  MaxAttempts = 2
  MaxProviderAttempts = 2
  Late = {}
  LostAcks = {}
INVARIANTS
  TypeOK
  ResultDelivered
  ActiveJobKeepsMessage
  ExclusiveTranslation
PROPERTIES
  JobsEnd
  MessagesEndWhileAttemptsLast
