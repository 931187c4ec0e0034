CONSTANTS
  FullWidth = 10
  MaxHeight = 10
  Widths = {4, 5}
  Heights = {2, 3}
  MaxItemID = 2

SPECIFICATION Spec

INVARIANT
  SecondItemOpensShelf
