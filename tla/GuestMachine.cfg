SPECIFICATION Spec
CONSTANTS
  W = 4
  AfterMode = {"FMOV", "FMOV_LOAD_INC", "FMOV_STORE_DEC", "FADD", "FTRC"}
  SlotOps = {"FADD", "FMOV_LOAD_INC", "MOV_LI", "TST", "LDC", "STC_L"}
  Functions = {f, g}
  Cells = {c}
  JournalLimit = 1
  Sites = {1}
  MaxOps = 5
  MaxDepth = 2
  Words = 4
  Burst = 2
  Entries = 2
  MaxUnique = 2
  Values = {1}
  MaxSteps = 2
INVARIANTS
  
  
  ComparisonUnseen
  OneMemory
PROPERTIES
  AlarmsAreWrong
CHECK_DEADLOCK FALSE
