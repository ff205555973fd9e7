SPECIFICATION FairSpec
CONSTANTS
  r1 = r1
  r2 = r2
  r3 = r3
  r4 = r4
  n1 = n1
  Online = {r1, r2, r3, r4}
  Changed = {r1, r2, r3, r4}
  Late = {n1}
  Batch = 3
  MaxSaving = 2
INVARIANT EarlierChangesSaved
PROPERTY ShutdownEnds
INVARIANT FewPassedOver
