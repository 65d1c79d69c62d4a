\* Two replies, two dispatchers; an API that says what it did.
SPECIFICATION FairSpec
CONSTANTS
  Replies = {r1, r2}
  NoReply = NoReply
  Dispatchers = {d1, d2}
  MaxAttempts = 3
  LateErrors = FALSE
  NamelessIds = FALSE
INVARIANTS
  TypeOK
  DeliveredAtMostOnce
  WaitingIsUndelivered
  RowTellsDelivery
PROPERTIES
  EndIsFinal
  ImplementsTellOnce
  RepliesEnd
