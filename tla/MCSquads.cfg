CONSTANTS
  n1 = n1
  n2 = n2
  g1 = g1
  g2 = g2
  Monsters = {n1, n2, g1}
  Named = {n1, n2, g1}
  Flagged = {n1, n2}
  Placed = {n1, g1}
  Enemies = {foe}
  NumSlots = 2
  Grenades = {0, 1}
  MaxFollowers = 2
  None = none
SPECIFICATION Spec
INVARIANTS
  LiveSquadsAgree
  SlotExclusive
  NoSlotLeaks
PROPERTIES
  ImplementsRolls
