SPECIFICATION FairSpec
CONSTANTS
  p1 = p1
  g1 = g1
  People = {p1}
  Groups = {g1}
  MaxMoves = 3
  MaxChanges = 1
INVARIANT SessionsEntitled
INVARIANT AccessByGrantOnly
PROPERTY DisconnectsOnlyForCause
PROPERTY RevokedIsOut
PROPERTY AddedIsIn
