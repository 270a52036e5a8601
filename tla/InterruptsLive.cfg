SPECIFICATION FairSpec
CONSTANTS
  Sources = {"vblank", "aica"}
  External = {"aica"}
  OnChip = {}
  Devices = {"aica"}
  Raises <- MCRaises
  VBlank = "vblank"
  ImlChoices <- MCIml
  IprChoices = {0}
  ImaskChoices = {0, 6}
  LinePeriods = {1}
  Delays = {1}
  Steps = {1}
  DeliverLimit = 1
  Polite = TRUE
  Horizon = 2
  Never = 9
  MaxNesting = 2
PROPERTIES
  DeliversEventually
  StormYields
CHECK_DEADLOCK FALSE
