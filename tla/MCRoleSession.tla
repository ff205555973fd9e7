--------------------------- MODULE MCRoleSession ---------------------------
EXTENDS RoleSession, TLC

CONSTANTS u1, u2, s1, s2, s3, t1, t2, t3, o1, o2, o3

Symmetry == Permutations(Socks) \cup Permutations(Threads) \cup Permutations(Roles)
              \cup Permutations(Uuids)
=============================================================================
