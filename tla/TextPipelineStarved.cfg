\* Two text messages, one of each process: a message that used up its attempts.
SPECIFICATION FairSpec
CONSTANTS
  NoMessage = NoMessage
  Messages = {m1, m2}
  TextMessages = {m1, m2}
  Processors = {p1}
  Runners = {w1}
  MaxAttempts = 2
  MaxProviderAttempts = 2
  Late = {}
  LostAcks = {}
PROPERTY MessagesEnd
