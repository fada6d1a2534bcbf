SPECIFICATION FairHookSpec
CONSTANTS
  Threads = {t1, t2}
  Early = {t1}
  Start <- InstructionStarts
  shell_size = 3
  None = None
PROPERTIES
  SuspendedAreResumed
CHECK_DEADLOCK FALSE
