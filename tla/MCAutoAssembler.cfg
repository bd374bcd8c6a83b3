SPECIFICATION Spec
CONSTANTS
  Names <- MCNames
  Modules <- MCModules
  Addresses <- MCAddresses
  Scripts <- MCScripts
  Caves <- MCCaves
  CaveSize = 6
  InitMem <- MCInitMem
  ReadOnly = {2, 3, 4, 5, 6, 7}
INVARIANTS Restored CavesOwned LabelsAgree
