SPECIFICATION PairedSpec
CONSTANTS
  Threads = {t1, t2}
  CodeEnd = 3
  Code <- ShortCode
  Entry <- ShortEntry
  Targets <- ShortEntry
  Methods <- OneMethod
  Start <- OneStart
  MethodOf <- OneMethodOf
  Callbacks = {c1, c2}
  Empty = Empty
  Absent = Absent
SYMMETRY ThreadSymmetry
CONSTRAINT NoRaceYet
INVARIANTS
  FaithfulDispatch
  EveryHitCallsBack
  OpcodeTransparent
  CodeIntact
  ArmedIsRecoverable
PROPERTIES PromiseKept
