SPECIFICATION LiveSpec
CONSTANTS
  k1 = k1
  k2 = k2
  c1 = c1
  c2 = c2
  s1 = s1
  s2 = s2
  Keys = {k1, k2}
  Clients = {c1, c2}
  Savers = {s1, s2}
  MaxSize = 1
  Expires = TRUE
  MaxVersion = 3
  NoKey = NoKey
INVARIANTS TypeOK CacheCurrent NothingForgotten WritesTakeEffect
PROPERTY ImplementsStore EventuallyDurable
CHECK_DEADLOCK FALSE
