SPECIFICATION Spec
CONSTANTS
  Units <- MCUnits
  Addresses = {0, 1, 2, 3, 4, 5}
  Code = {"code0", "code1", "code2"}
  CacheSize = 2
  HideSets <- MCHideSets
  None = None
INVARIANTS
  CacheIsCurrent
  RunsLoadedCode
  
  HiddenIsNeverEntered
