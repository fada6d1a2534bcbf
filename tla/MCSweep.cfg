SPECIFICATION FairSweepSpec
CONSTANTS
  Threads = {t1}
  CodeEnd = 5
  Code <- OperandCode
  Entry <- OperandEntry
  Targets <- OperandTargets
  Methods <- OneMethod
  Start <- OneStart
  MethodOf <- OneMethodOf
  Callbacks = {c1}
  Empty = Empty
  Absent = Absent
INVARIANTS
  TypeOK
  BystandersIntact
PROPERTIES
  SweepClearsMethods
  HitCompletes
