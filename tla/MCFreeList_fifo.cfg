CONSTANTS
  Proc = {p1, p2}
  Value = {a, b, c}
  Dummy = Dummy
  Nil = Nil
SPECIFICATION FairSpec
INVARIANTS
  OneList
PROPERTIES
  Implements
  CallsReturn
