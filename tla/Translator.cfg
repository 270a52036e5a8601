SPECIFICATION Spec
CONSTANTS
  FunctionSize = 6
  FunctionTexts <- MCFunctionTexts
  Count = 3
  Bodies <- MCBodies
  Depth = 3
  MaxSteps = 9
  Instructions <- MCInstructions
  Switches <- MCSwitches
  Indices <- MCIndices
  Alias = 500
  MaxEntries = 8
  ImageSize = 9
  Images <- MCImages
  Seeds <- MCSeeds
INVARIANTS
  OneInstructionEach
  SameInstructions
  
  ConstantsHold
  
  
CHECK_DEADLOCK FALSE
