CONSTANTS
  slide = slide
  swing = swing
  hatch = hatch
  gate = gate
  ajar = ajar
  Doors = {slide, swing, hatch, gate}
  Named = {slide, swing}
  NoAutoReturn = {swing, hatch}
  UseOnly = {slide}
  Forever = {hatch}
  Rotating = {swing, gate}
  TwoWay = {gate}
  StartOpen = {}
  MaxBlocks = 2
SPECIFICATION Spec
INVARIANTS
  TouchDisabledTemporarily
