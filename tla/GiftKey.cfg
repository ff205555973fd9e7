SPECIFICATION FairSpec
CONSTANTS
  k1 = k1
  k2 = k2
  r1 = r1
  r2 = r2
  r3 = r3
  q1 = q1
  q2 = q2
  q3 = q3
  q4 = q4
  None = None
  NoRow = NoRow
  Keys = {k1, k2}
  Roles = {r1, r2, r3}
  Requests = {q1, q2, q3, q4}
  RoleOf <- MCRoleOf
  KeyOf <- MCKeyOf
  BatchOf <- MCBatchOf
  Total = 2
  MaxReconnects = 1
  MaxDeletes = 1
CHECK_DEADLOCK FALSE
INVARIANT TypeOK
INVARIANT NeverOverused
INVARIANT CountsKept
INVARIANT OnePerBatch
PROPERTY KeysUnlocked
