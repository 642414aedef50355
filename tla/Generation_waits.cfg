SPECIFICATION FairSpec
CONSTANTS
  f1 = f1
  c1 = c1
  Feeds = {f1}
  Conns = {c1}
  MaxGen = 2
PROPERTY WaitsOutSwap
