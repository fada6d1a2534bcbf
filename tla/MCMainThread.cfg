SPECIFICATION FairMainSpec
CONSTANTS
  Threads = {t1, t2}
  CodeEnd = 5
  Code <- MulCode
  Entry <- MulEntry
  Targets <- MulEntry
  Methods <- OneMethod
  Start <- OneStart
  MethodOf <- OneMethodOf
  Callbacks = {c1}
  Empty = Empty
  Absent = Absent
  TestMul = "test_mul"
  Header <- HeaderByte
  Printf = c1
  Machines <- Interpreters
  Jvm <- JvmTruth
INVARIANTS
  MainTypeOK
  HooksBeforeArmed
  OffsetsFound
  BreakpointWorks
  RegistryRacesOnlyInRemoval
  UnloadRestoresCode
  LateHitsContained
PROPERTIES
  QuietAfterRemoval
CHECK_DEADLOCK FALSE
