SPECIFICATION FairSpec
CONSTANTS
  c1 = c1
  c2 = c2
  w1 = w1
  w2 = w2
  Conns = {c1, c2}
  Workers = {w1, w2}
  Sender = "sender"
  Producer = "producer"
INVARIANTS
  TypeOK
  RequestsAreServed
  BackgroundEndsFirst
PROPERTIES
  SignalEndsProcess
CHECK_DEADLOCK FALSE
