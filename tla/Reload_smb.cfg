SPECIFICATION FairSpec
CONSTANTS
  p1 = p1
  g1 = g1
  People = {p1}
  Groups = {g1}
  MaxMoves = 2
  MaxChanges = 1
PROPERTY AddedReachesSmb
