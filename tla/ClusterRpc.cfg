SPECIFICATION FairSpec
CONSTANTS
  a = a
  b = b
  Nodes = {a, b}
  Calls = {1, 2, 3}
  Caller <- MCCaller
  Callee <- MCCallee
  SessionLimit = 3
  MaxConns = 5
  MaxFaults = 2
  Restarting = {a, b}
CHECK_DEADLOCK FALSE
INVARIANT AnswersMatch
INVARIANT ExecutedOnce
INVARIANT OneConnection
PROPERTY CallsEnd
