SPECIFICATION Spec
CONSTANTS
  Size <- MethodSize
  Loaded <- WideBody
  Bodies <- MethodBodies
  Absent = Absent
INVARIANTS
  MethodTypeOK
  WalkFindsInstructions
  BodyKept
  OperandsReached
