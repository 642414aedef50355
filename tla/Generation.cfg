SPECIFICATION FairSpec
CONSTANTS
  f1 = f1
  c1 = c1
  c2 = c2
  Feeds = {f1}
  Conns = {c1, c2}
  MaxGen = 3
INVARIANT CurrentListOnly
INVARIANT OneGeneration
INVARIANT CountersExact
INVARIANT ReadyMeansServing
PROPERTY ImplementsRevocation
PROPERTY SwapReturns
PROPERTY ShutdownReturns
PROPERTY EveryClientAnswered
