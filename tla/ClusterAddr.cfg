SPECIFICATION FairSpec
CONSTANTS
  n1 = n1
  n2 = n2
  Nodes = {n1, n2}
  Addrs = {"a1", "a2"}
  Leaving = {n1}
  RefreshCount = 2
  MaxStarts = 3
  MaxPauses = 1
PROPERTY DownMeansSilent
PROPERTY BooksConverge
PROPERTY DeadForgotten
PROPERTY RouterConverges
