SPECIFICATION FairSpec
CONSTANTS
  k1 = k1
  s1 = s1
  h1 = h1
  Keys = {k1}
  Ssh = {s1}
  Http = {h1}
  MaxIds = 2
  MaxSwaps = 1
  MaxFired = 1
INVARIANT NoStrayWorker
INVARIANT SessionsEndFirst
PROPERTY IdleClosesUnused
PROPERTY StopEnds
PROPERTY UnusedEnds
