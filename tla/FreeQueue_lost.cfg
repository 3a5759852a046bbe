CONSTANTS
  Producer = {p1, p2}
  Taker = {t1}
  Poller = {}
  Value = {a, b, c}
  Nil = Nil
SPECIFICATION FairSpec
PROPERTIES
  AllReceived
CHECK_DEADLOCK FALSE
