SPECIFICATION Spec
CONSTANTS
  Socks = {s1, s2, s3}
  Users = {u1, u2}
  NoSock = NoSock
  NoUser = NoUser
  MaxCtrl = 7
SYMMETRY Symmetry
INVARIANTS TypeOK LuaBijection RoleCountExact IndexExact Settled
