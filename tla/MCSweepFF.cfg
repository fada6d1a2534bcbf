SPECIFICATION SweepSpec
CONSTANTS
  Threads = {t1}
  CodeEnd = 5
  Code <- FFCode
  Entry <- OperandEntry
  Targets <- OperandEntry
  Methods <- OneMethod
  Start <- OneStart
  MethodOf <- OneMethodOf
  Callbacks = {c1}
  Empty = Empty
  Absent = Absent
PROPERTIES
  SweepClearsMethods
