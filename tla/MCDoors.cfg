CONSTANTS
  slide = slide
  swing = swing
  hatch = hatch
  gate = gate
  ajar = ajar
  Doors = {slide, swing, gate, ajar}
  Named = {slide, swing}
  NoAutoReturn = {swing, ajar}
  UseOnly = {slide}
  Forever = {ajar}
  Rotating = {swing, gate, ajar}
  TwoWay = {gate}
  StartOpen = {ajar}
  MaxBlocks = 2
SPECIFICATION Spec
INVARIANTS
  NoDoorStranded
  RestingDoorListens
PROPERTIES
  AutoReturnCloses
  ClosingApproaches
