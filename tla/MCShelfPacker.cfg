CONSTANTS
  FullWidth = 4
  MaxHeight = 3
  Widths <- MCWidths
  Heights <- MCHeights
  MaxItemID = 4

SPECIFICATION Spec

INVARIANTS
  TypeOK
  LocationsConsistent
  EmptyMeansNoItem
  NoOvercommit
  AccountingExact
  PromisesAreSafe
  RemovalKeepsPromises

PROPERTIES
  ImplementsLedger
