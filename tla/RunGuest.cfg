SPECIFICATION Spec
CONSTANTS
  Funcs = {"f", "g"}
  Tasks = {"t1", "t2"}
  Main = "t1"
  MaxStack = 3
  MaxExc = 2
  Situations = {}
INVARIANTS
  
  HostFollowsGuest
CHECK_DEADLOCK FALSE
