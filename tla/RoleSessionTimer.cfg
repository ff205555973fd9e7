SPECIFICATION Spec
CONSTANTS
  u1 = u1
  u2 = u2
  s1 = s1
  s2 = s2
  s3 = s3
  t1 = t1
  t2 = t2
  t3 = t3
  o1 = o1
  o2 = o2
  o3 = o3
  NoSock = NoSock
  NoRole = NoRole
  NoThread = NoThread
  NoUuid = NoUuid
  Uuids = {u1}
  Socks = {s1}
  Threads = {t1, t2}
  Roles = {o1, o2, o3}
SYMMETRY Symmetry
INVARIANT LogoutScheduled
CHECK_DEADLOCK FALSE
