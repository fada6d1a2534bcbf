SPECIFICATION Spec
CONSTANTS
  Functions = {f1, f2}
  Depth = 2
  Arguments <- TwoArguments
  StackSize <- WordsOfStack
  None = None
PROPERTIES FpuRestored
