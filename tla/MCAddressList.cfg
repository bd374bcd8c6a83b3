CONSTANTS
  Cells = {"a", "b"}
  Sessions <- MCSessions
  Places <- MCPlaces
  Typed <- MCTyped
  Codecs <- MCCodecs
  Combos <- MCCombos
  Passwords = {"right", "wrong"}
  Modes = {"increaseOnly"}
  TargetValues = {2, 16}
  MaxRows = 5
SPECIFICATION Spec
INVARIANTS
  IdsUnique
  StoredAsShown
  FreezeHolds
  TableSurvives
PROPERTIES
  SubtreesTravel
CHECK_DEADLOCK FALSE
