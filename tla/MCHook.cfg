SPECIFICATION HookSpec
CONSTANTS
  Threads = {t1, t2}
  Early = {t1}
  Start <- InstructionStarts
  shell_size = 3
  None = None
INVARIANTS
  HookTypeOK
  CallsRunWhole
  LateCallsIntercepted
  NobodyLeftSuspended
PROPERTIES
  BeyondTheJump
  InterceptionKept
CHECK_DEADLOCK FALSE
