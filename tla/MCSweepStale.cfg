SPECIFICATION SweepSpec
CONSTANTS
  Threads = {t1}
  CodeEnd = 3
  Code <- ShortCode
  Entry <- SingleEntry
  Targets <- SingleEntry
  Methods <- OneMethod
  Start <- OneStart
  MethodOf <- OneMethodOf
  Callbacks = {c1}
  Empty = Empty
  Absent = Absent
INVARIANTS
  SweepWritesBreakpointsOnly
