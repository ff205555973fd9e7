CONSTANTS
  t1 = t1 t2 = t2 t3 = t3 a = a b = b sock = sock key = key
  Threads = {t1, t2, t3}
  Locks = {a, b}
  LockIds = {sock, key}
  Managed = {key}
  Timed = {sock, key}
  MaxDepth = 1
  NoThread = NoThread NoLock = NoLock NoId = NoId
SPECIFICATION FairSpec
INVARIANTS TypeOK MutualExclusion   NoLostWaiter
PROPERTIES WaiterRuns
