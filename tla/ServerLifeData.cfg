SPECIFICATION Spec
CONSTANTS
  k1 = k1
  i1 = i1
  i2 = i2
  Operators = {k1}
  Invs = {i1, i2}
  Crashes = {"game"}
  Slow = {"dynasty"}
  Patient = {}
INVARIANT DataSaved
