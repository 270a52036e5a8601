SPECIFICATION Spec
CONSTANTS
  Headers <- MCHeaders
  MaxVertices = 5
  MaxHeaders = 2
  Shapes <- MCShapes
  Bases = {0, 4096}
  Rounds = 1
  Controls <- MCControls
  Limit = 16
  Registers <- MCRegisters
  Images <- MCImages
  Fields <- MCFields
  Buffers = {0, 2}
  Textures <- MCTextures
  BufferSize = 2
  MaxTargets = 1
  MaxSets = 2
  MaxContents = 4
  WritesBack = TRUE
  Rows = {1}
  MaxEvents = 2
  HasFile = TRUE
PROPERTIES
  WindowFollowsTheDisplay
CHECK_DEADLOCK FALSE
