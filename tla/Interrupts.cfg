SPECIFICATION Spec
CONSTANTS
  Sources = {"vblank", "aica"}
  External = {"aica"}
  OnChip = {"Tmu0"}
  Devices = {"aica", "tmu"}
  Raises <- MCRaises
  VBlank = "vblank"
  ImlChoices <- MCIml
  IprChoices = {0, 4}
  ImaskChoices = {0, 4}
  LinePeriods = {1, 2}
  Delays = {1}
  Steps = {1}
  DeliverLimit = 1
  Polite = TRUE
  Horizon = 2
  Never = 9
  MaxNesting = 2
INVARIANTS
  IrlMirrorsHolly
  PollsEveryLine
  NestsByPriority
PROPERTIES
  ImplementsAlarmClock
CHECK_DEADLOCK FALSE
