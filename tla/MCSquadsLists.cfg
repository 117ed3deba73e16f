CONSTANTS
  n1 = n1
  n2 = n2
  g1 = g1
  g2 = g2
  Monsters = {n1, n2, g1, g2}
  Named = {}
  Flagged = {}
  Placed = {n1, n2, g1}
  Enemies = {foe}
  NumSlots = 1
  Grenades = {0}
  MaxFollowers = 2
  None = none
SPECIFICATION Spec
INVARIANTS
  ListedMembersBelong
