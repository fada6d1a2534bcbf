------------------------- MODULE BreakpointsRefinement -------------------------
(***************************************************************************)
(* Breakpoints implements BreakpointSpec, for every number of threads,      *)
(* every code and every set of breakpoints: the proof of PromiseKept.       *)
(***************************************************************************)
EXTENDS BreakpointsProofs

(***************************************************************************)
(* PairedInv says what holds of hits that are covered.  That the others do  *)
(* what BreakpointSpec allows them needs two facts more: which locals are   *)
(* set at which place of the handlers, and that the registry never holds an *)
(* opcode other than the original and the 0 that a look-up inserts.         *)
(***************************************************************************)
VisitHolds(t) ==
  /\ pc[t] = "run" => hit[t] = NoHit
  /\ hit[t].rbx # breakpoint
  /\ pc[t] \in {"get_original", "insert_original"} => hit[t].rbx = Absent
  /\ pc[t] \in {"get_original", "insert_original", "breakpoint", "insert_callback"} =>
       hit[t].callback = Absent
  /\ pc[t] \in {"find", "index", "insert_opcode", "offsets", "insert_offset", "callback"} =>
       hit[t].callback \in Callbacks
  /\ pc[t] = "dispatch" => hit[t].callback # Absent

StoredOpcodes ==
  OriginalRaced \/ \A a \in Address : original_bytecodes[a] \in {Absent, nop, Code[a]}

VisitInv == StoredOpcodes /\ \A t \in Threads : VisitHolds(t)

LEMMA VisitInit == Init => VisitInv
<1>1. nop # breakpoint /\ Absent # breakpoint
  BY ValueAssumption DEF ValueAssumption, nop, breakpoint
<1> QED
  BY <1>1 DEF Init, VisitInv, VisitHolds, StoredOpcodes, NoHit

\* A step that leaves the place of a thread and its locals alone keeps what is
\* said of them; withdrawing a breakpoint changes a history field only.
LEMMA VisitKept ==
  ASSUME TypeInv, NEW t \in Threads, VisitHolds(t), pc'[t] = pc[t],
         hit'[t] = hit[t] \/ \E a \in Address : Uncover(a)
  PROVE  VisitHolds(t)'
<1>1. CASE hit'[t] = hit[t]
  BY <1>1 DEF VisitHolds
<1>2. ASSUME NEW a \in Address, Uncover(a)
      PROVE  VisitHolds(t)'
  <2>1. hit'[t].rbx = hit[t].rbx /\ hit'[t].callback = hit[t].callback
    BY <1>2, UncoverType DEF TypeInv, TypeOK
  <2>2. hit[t] = NoHit => hit'[t] = NoHit
    <3>1. NoHit.bcp # a
      BY ValueAssumption DEF ValueAssumption, Address, NoHit
    <3> QED
      BY <1>2, <3>1 DEF Uncover
  <2> QED
    BY <2>1, <2>2 DEF VisitHolds
<1> QED
  BY <1>1, <1>2

\* The steps of the agent keep VisitInv.
LEMMA VisitAgent ==
  ASSUME TypeInv, PairedInv, VisitInv, PairedCall \/ AgentStep
  PROVE  VisitInv'
<1>1. /\ UNCHANGED pc
      /\ UNCHANGED hit \/ \E a \in Address : Uncover(a)
  BY Addresses DEF PairedCall, PairedCalls, AgentStep, AddBreakpoint, RemoveBreakpoint, AddOriginal,
     AddCallback, AddArm, RemoveOriginal, RemoveCallback, RemoveRestore, SweepStop,
     SweepSkip, SweepFound, TypeInv, TypeOK, AgentType, Assigned, Registered, AtEnd
<1>2. (\A t \in Threads : VisitHolds(t))'
  BY <1>1, VisitKept DEF VisitInv
<1>3. /\ OriginalRaced => OriginalRaced'
      /\ \/ UNCHANGED original_bytecodes
         \/ \E a \in Address : \/ original_bytecodes' \in Inserted(original_bytecodes, a, nop)
                               \/ original_bytecodes' = [original_bytecodes EXCEPT ![a] = Absent]
                               \/ /\ original_bytecodes' = [original_bytecodes EXCEPT ![a] = agent.byte]
                                  /\ OriginalRaced \/ agent.byte = Code[a]
  <2>1. agent.addr \in Address
    BY DEF TypeInv, TypeOK, AgentType
  <2>2. agent.pc = "add_original" => OriginalRaced \/ agent.byte = Code[agent.addr]
    BY DEF PairedInv, AgentHolds, Adding
  <2> QED
    BY <2>1, <2>2, Addresses DEF PairedCall, PairedCalls, AgentStep, AddBreakpoint, RemoveBreakpoint,
       AddOriginal, AddCallback, AddArm, RemoveOriginal, RemoveCallback, RemoveRestore,
       SweepStop, SweepSkip, SweepFound, OriginalRaced, Access, maps, Assigned, Registered, AtEnd
<1>4. StoredOpcodes'
  BY <1>3 DEF VisitInv, StoredOpcodes, Inserted, TypeInv, TypeOK
<1> QED
  BY <1>2, <1>4 DEF VisitInv

\* The steps of a Java thread keep VisitInv.
LEMMA VisitThread ==
  ASSUME TypeInv, PairedInv, VisitInv, NEW t \in Threads, ThreadStep(t)
  PROVE  VisitInv'
<1> DEFINE h == hit[t]
<1>1. /\ h \in HitType /\ hit \in [Threads -> HitType] /\ pc \in [Threads -> ThreadPc]
      /\ pc[t] # "run" => h.bcp \in Entry
      /\ VisitHolds(t)
      /\ \A a \in Address : original_bytecodes[a] # breakpoint
      /\ nop # breakpoint /\ Absent # breakpoint /\ Empty # Absent /\ Absent \notin Callbacks
  BY ValueAssumption DEF ValueAssumption, TypeInv, TypeOK, VisitInv, PairedInv,
     NoSavedBreakpoint, nop, breakpoint
<1>2. /\ OriginalRaced => OriginalRaced'
      /\ UNCHANGED original_bytecodes \/ original_bytecodes' \in Inserted(original_bytecodes, h.bcp, nop)
  BY DEF ThreadStep, HandlerStep, Fetch, OriginalBytecodeHandler, OriginalInserted,
     BreakpointHandler, CallbackInserted, GetOpcodeFind, GetOpcodeIndex, GetOpcodeInserted,
     StoreOffset, OffsetInserted, CallbackAsks, CallbackReturns, Dispatch, OriginalRaced,
     Access, maps, Registered
<1>3. StoredOpcodes'
  BY <1>2 DEF VisitInv, StoredOpcodes, Inserted, TypeInv, TypeOK
<1>4. \A u \in Threads : u # t => pc'[u] = pc[u] /\ hit'[u] = hit[u]
  BY <1>1 DEF ThreadStep, HandlerStep, Fetch, OriginalBytecodeHandler, OriginalInserted,
     BreakpointHandler, CallbackInserted, GetOpcodeFind, GetOpcodeIndex, GetOpcodeInserted,
     GetOpcodeReturns, StoreOffset, OffsetInserted, CallbackAsks, CallbackReturns, Dispatch, Registered
<1>5. VisitHolds(t)'
  <2>1. CASE Fetch(t)
    <3>1. PICK a \in Entry : hit'[t] = NewHit(a, ~Removing(a)) /\ pc'[t] = "get_original"
      BY <1>1, <2>1 DEF Fetch
    <3>2. hit'[t].rbx = Absent /\ hit'[t].callback = Absent
      BY <3>1 DEF NewHit, NoHit
    <3> QED
      BY <1>1, <3>1, <3>2 DEF VisitHolds
  <2>2. CASE OriginalBytecodeHandler(t) \/ OriginalInserted(t)
    <3>1. \/ hit'[t] = h /\ pc[t] = "get_original" /\ pc'[t] = "insert_original"
          \/ /\ pc[t] \in {"get_original", "insert_original"} /\ pc'[t] = "breakpoint"
             /\ hit'[t] = [h EXCEPT !.rbx = original_bytecodes[h.bcp]] \/ hit'[t] = [h EXCEPT !.rbx = nop]
      BY <1>1, <2>2 DEF OriginalBytecodeHandler, OriginalInserted
    <3>2. h.bcp \in Address
      BY <1>1, <2>2, Addresses DEF OriginalBytecodeHandler, OriginalInserted
    <3> QED
      BY <1>1, <3>1, <3>2 DEF VisitHolds, HitType
  <2>3. CASE BreakpointHandler(t) \/ CallbackInserted(t)
    <3>1. breakpoint_callbacks[h.bcp] \in Callbacks \cup {Empty, Absent}
      BY <1>1, <2>3, Addresses DEF BreakpointHandler, CallbackInserted, TypeInv, TypeOK
    <3>2. /\ pc[t] \in {"breakpoint", "insert_callback"}
          /\ \/ hit'[t] = h /\ pc'[t] = "insert_callback"
             \/ pc'[t] = "dispatch" /\ hit'[t] = [h EXCEPT !.callback = Empty]
             \/ \E c \in Callbacks : pc'[t] = "find" /\ hit'[t] = [h EXCEPT !.callback = c]
      BY <1>1, <2>3, <3>1 DEF BreakpointHandler, CallbackInserted
    <3> QED
      BY <1>1, <3>2 DEF VisitHolds, HitType
  <2>4. CASE \/ GetOpcodeFind(t) \/ GetOpcodeIndex(t) \/ GetOpcodeInserted(t)
             \/ StoreOffset(t) \/ OffsetInserted(t) \/ CallbackAsks(t) \/ CallbackReturns(t)
    <3>1. /\ pc[t] \in {"find", "index", "insert_opcode", "offsets", "insert_offset", "callback"}
          /\ pc'[t] \in {"find", "index", "insert_opcode", "offsets", "insert_offset", "callback",
                         "dispatch"}
      BY <1>1, <2>4 DEF GetOpcodeFind, GetOpcodeIndex, GetOpcodeInserted, GetOpcodeReturns,
         StoreOffset, OffsetInserted, CallbackAsks, CallbackReturns, Registered
    <3>2. \/ hit'[t] = h
          \/ \E b : hit'[t] = [h EXCEPT !.opcode = b]
          \/ \E i : hit'[t] = [h EXCEPT !.info = i]
      BY <1>1, <2>4 DEF GetOpcodeFind, GetOpcodeIndex, GetOpcodeInserted, GetOpcodeReturns,
         StoreOffset, OffsetInserted, CallbackAsks, CallbackReturns, Registered
    <3>3. hit'[t].rbx = h.rbx /\ hit'[t].callback = h.callback
      BY <1>1, <3>2 DEF HitType
    <3> QED
      BY <1>1, <3>1, <3>3 DEF VisitHolds
  <2>5. CASE Dispatch(t)
    <3>1. pc'[t] = "run" /\ hit'[t] = NoHit
      BY <1>1, <2>5 DEF Dispatch, VisitHolds
    <3> QED
      BY <1>1, <3>1 DEF VisitHolds, NoHit
  <2> QED
    BY <2>1, <2>2, <2>3, <2>4, <2>5 DEF ThreadStep, HandlerStep
<1>6. ASSUME NEW u \in Threads PROVE VisitHolds(u)'
  BY <1>4, <1>5 DEF VisitInv, VisitHolds
<1> QED
  BY <1>3, <1>6 DEF VisitInv

LEMMA VisitInvariant == PairedSpec => []VisitInv
<1>1. VisitInv /\ UNCHANGED vars => VisitInv'
  BY DEF VisitInv, VisitHolds, StoredOpcodes, OriginalRaced, vars
<1>2. TypeInv /\ PairedInv /\ VisitInv /\ [PairedNext]_vars => VisitInv'
  BY <1>1, VisitAgent, VisitThread DEF PairedNext
<1> QED
  BY PairedType, PairedInvariant, VisitInit, <1>2, PTL DEF PairedSpec

-----------------------------------------------------------------------------
(* Every step is a step of BreakpointSpec or leaves what it shows alone.      *)

Unbroken == ~OriginalRaced' /\ ~CallbackRaced'

\* What the invariants say of a state in which no race has hit the registry.
LEMMA WithoutRace ==
  ASSUME TypeInv, PairedInv, VisitInv, ~OriginalRaced, ~CallbackRaced
  PROVE  /\ \A a \in Entry : /\ original_bytecodes[a] \in {Absent, nop, Code[a]}
                            /\ memory[a] \in {breakpoint, Code[a]}
                            /\ memory[a] = breakpoint /\ ~Removing(a) =>
                                 /\ original_bytecodes[a] = Code[a]
                                 /\ breakpoint_callbacks[a] \in Callbacks
         /\ \A t \in Threads :
              /\ hit[t].covered => /\ hit[t].bcp \in Entry
                                  /\ memory[hit[t].bcp] = breakpoint
                                  /\ ~Removing(hit[t].bcp)
              /\ ChangesOriginal(t) => original_bytecodes[hit[t].bcp] = Absent
              /\ ChangesCallback(t) => breakpoint_callbacks[hit[t].bcp] = Absent
BY Addresses DEF OriginalRaced, CallbackRaced, PairedInv, VisitInv, StoredOpcodes,
   CodeIntact, ArmedIsRegistered, CoveredIsArmed, OriginalExclusive, CallbackExclusive

\* What is shown of the breakpoints, and of one hit.
LEMMA Shown ==
  /\ \A a \in Entry : Site[a] = IF memory[a] # breakpoint THEN Absent
                               ELSE IF Removing(a) THEN Empty ELSE breakpoint_callbacks[a]
  /\ \A t \in Threads : /\ Visit[t].at = hit[t].bcp /\ Visit[t].sure = hit[t].covered
                        /\ Visit[t].opcode = hit[t].rbx
                        /\ Visit[t].callback = hit[t].callback
                        /\ Visit[t].told = hit[t].opcode
BY DEF Site, Visit

\* The initial state is one of BreakpointSpec.
LEMMA PromiseInit == Init => Promise!Init
<1> SUFFICES ASSUME Init PROVE Promise!Init
  OBVIOUS
<1>1. \A a \in Entry : memory[a] # breakpoint
  BY CodeAssumption DEF CodeAssumption, Init
<1>2. Site = [a \in Entry |-> Absent]
  BY <1>1 DEF Site
<1>3. Visit = [t \in Threads |-> Promise!NoVisit]
  BY DEF Init, Visit, NoHit, Promise!NoVisit, Promise!Arrival
<1>4. Broken = FALSE
  BY DEF Init, Broken
<1> QED
  BY <1>2, <1>3, <1>4 DEF Promise!Init

\* The steps of the agent.
LEMMA PromiseAgent ==
  ASSUME TypeInv, PairedInv, VisitInv, PairedCall \/ AgentStep, Unbroken,
         ~OriginalRaced, ~CallbackRaced
  PROVE  [Promise!Next]_Promise!specVars
<1>0. /\ Broken = FALSE /\ Broken' = FALSE
      /\ \A a \in Entry : memory[a] = breakpoint /\ ~Removing(a) => breakpoint_callbacks[a] \in Callbacks
  <2>1. Broken = FALSE /\ Broken' = FALSE
    BY DEF Unbroken, OriginalRaced, CallbackRaced, Broken
  <2> QED
    BY <2>1 DEF PairedInv, ArmedIsRegistered
<1>1. ASSUME NEW a \in Entry, NEW callback \in Callbacks, AddBreakpoint(a, callback)
      PROVE  UNCHANGED Promise!specVars
  <2>1. \A x \in Entry : ~Removing(x) /\ ~Removing(x)'
    BY <1>1 DEF AddBreakpoint, Removing, Idle
  <2>2. UNCHANGED <<memory, breakpoint_callbacks, hit>>
    BY <1>1 DEF AddBreakpoint, maps
  <2> QED
    BY <1>0, <2>1, <2>2 DEF Promise!specVars, Site, Visit
<1>2. CASE AddOriginal \/ RemoveOriginal
  <2>1. UNCHANGED <<memory, breakpoint_callbacks, hit>>
    BY <1>2 DEF AddOriginal, RemoveOriginal, Assigned
  <2>2. \A x \in Entry : Removing(x)' <=> Removing(x)
    BY <1>2 DEF AddOriginal, RemoveOriginal, Removing, TypeInv, TypeOK, AgentType, Assigned
  <2>3. Site' = Site
    BY <2>1, <2>2 DEF Site
  <2> QED
    BY <1>0, <2>1, <2>3 DEF Promise!specVars, Visit
<1>3. CASE AddCallback \/ RemoveCallback
  <2>1. /\ UNCHANGED <<memory, hit>>
        /\ \A x \in Entry : x # agent.addr => breakpoint_callbacks'[x] = breakpoint_callbacks[x]
    BY <1>3, Addresses DEF AddCallback, RemoveCallback, TypeInv, TypeOK, Assigned
  <2>2. \A x \in Entry : Removing(x)' <=> Removing(x)
    BY <1>3 DEF AddCallback, RemoveCallback, Removing, TypeInv, TypeOK, AgentType, Assigned
  <2>3. memory[agent.addr] # breakpoint \/ Removing(agent.addr)
    BY <1>3 DEF AddCallback, RemoveCallback, Removing, PairedInv, AgentHolds, Adding, Assigned
  <2>4. Site' = Site
    BY <2>1, <2>2, <2>3 DEF Site
  <2> QED
    BY <1>0, <2>1, <2>4 DEF Promise!specVars, Visit
<1>4. CASE AddArm
  <2> DEFINE a == agent.addr
  <2>1. /\ a \in Entry /\ memory[a] # breakpoint
        /\ agent.callback \in Callbacks /\ breakpoint_callbacks[a] = agent.callback
    BY <1>4 DEF AddArm, PairedInv, AgentHolds, Adding, TypeInv, AgentAtEntry
  <2>2. /\ UNCHANGED <<breakpoint_callbacks, hit>>
        /\ memory' = [memory EXCEPT ![a] = breakpoint]
        /\ \A x \in Entry : ~Removing(x) /\ ~Removing(x)'
    BY <1>4 DEF AddArm, Removing, Idle, maps
  <2>3. Site' = [Site EXCEPT ![a] = agent.callback]
    BY <2>1, <2>2, Addresses DEF Site, TypeInv, TypeOK
  <2>4. Promise!Set(a, agent.callback)
    BY <1>0, <2>1, <2>2, <2>3, Shown DEF Promise!Set, Visit
  <2> QED
    BY <2>1, <2>4 DEF Promise!Next
<1>5. ASSUME NEW a \in Entry, memory[a] = breakpoint, RemoveBreakpoint(a)
      PROVE  Promise!Withdraw(a)
  <2>1. /\ UNCHANGED <<memory, breakpoint_callbacks>> /\ Uncover(a)
        /\ \A x \in Entry : ~Removing(x)
    BY <1>5 DEF RemoveBreakpoint, Removing
  <2>2. \A x \in Entry : Removing(x)' <=> x = a
    BY <1>5 DEF RemoveBreakpoint, Removing, Idle
  <2>3. Site' = [Site EXCEPT ![a] = Empty]
    BY <1>5, <2>1, <2>2 DEF Site
  <2>4. Visit' = [t \in Threads |-> IF Visit[t].at = a THEN [Visit[t] EXCEPT !.sure = FALSE]
                                    ELSE Visit[t]]
    <3>1. ASSUME NEW t \in Threads
          PROVE  Visit'[t] = IF Visit[t].at = a THEN [Visit[t] EXCEPT !.sure = FALSE] ELSE Visit[t]
      <4>1. hit'[t] = IF hit[t].bcp = a THEN [hit[t] EXCEPT !.covered = FALSE] ELSE hit[t]
        BY <2>1 DEF Uncover
      <4>2. hit[t] \in HitType
        BY DEF TypeInv, TypeOK
      <4> QED
        BY <4>1, <4>2 DEF Visit, HitType
    <3>2. Visit' = [t \in Threads |-> Visit'[t]]
      BY DEF Visit
    <3> QED
      BY <3>1, <3>2
  <2>5. Site[a] \in Callbacks
    BY <1>0, <1>5, <2>1 DEF Site
  <2> QED
    BY <1>0, <2>3, <2>4, <2>5 DEF Promise!Withdraw
<1>6. CASE RemoveRestore
  <2> DEFINE a == agent.addr
  <2>1. /\ a \in Entry /\ memory[a] = breakpoint /\ agent.byte # breakpoint /\ ~agent.all
        /\ Removing(a) /\ \A x \in Entry : Removing(x) => x = a
    BY <1>6 DEF RemoveRestore, PairedInv, AgentHolds, InRemoval, TypeInv, AgentAtEntry, Removing
  <2>2. /\ UNCHANGED <<breakpoint_callbacks, hit>>
        /\ memory' = [memory EXCEPT ![a] = agent.byte]
        /\ \A x \in Entry : ~Removing(x)'
    BY <1>6, <2>1 DEF RemoveRestore, Removing, Idle, maps
  <2>3. Site' = [Site EXCEPT ![a] = Absent]
    BY <2>1, <2>2, Addresses DEF Site, TypeInv, TypeOK
  <2>4. Site[a] = Empty
    BY <2>1 DEF Site
  <2> QED
    BY <1>0, <2>1, <2>2, <2>3, <2>4 DEF Promise!Clear, Promise!Next, Visit
<1>7. agent.pc # "sweep"
  BY DEF PairedInv, AgentHolds
<1> QED
  BY <1>1, <1>2, <1>3, <1>4, <1>5, <1>6, <1>7
     DEF PairedCall, PairedCalls, AgentStep, SweepStop, SweepSkip, SweepFound, Promise!Next, Registered, AtEnd

\* A thread that leaves the registry's code, agent and callbacks alone shows the
\* same breakpoints, and every other hit as it was.
LEMMA ShownByThread ==
  ASSUME NEW t \in Threads, UNCHANGED <<memory, agent>>, Broken = FALSE, Broken' = FALSE,
         \A a \in Entry : breakpoint_callbacks'[a] = breakpoint_callbacks[a]
                           \/ memory[a] # breakpoint \/ Removing(a),
         \A u \in Threads : u # t => hit'[u] = hit[u]
  PROVE  /\ Site' = Site /\ Broken' = Broken
         /\ Visit' = [Visit EXCEPT ![t] = Visit'[t]]
<1>1. \A a \in Entry : Removing(a)' <=> Removing(a)
  BY DEF Removing
<1>2. Site' = Site
  BY <1>1 DEF Site
<1>3. Visit' = [Visit EXCEPT ![t] = Visit'[t]]
  BY DEF Visit
<1> QED
  BY <1>2, <1>3

\* A hit whose shown locals do not change is shown as it was.
LEMMA ShownAsBefore ==
  ASSUME NEW t \in Threads, hit'[t].bcp = hit[t].bcp, hit'[t].covered = hit[t].covered,
         hit'[t].rbx = hit[t].rbx, hit'[t].callback = hit[t].callback,
         hit'[t].opcode = hit[t].opcode
  PROVE  Visit'[t] = Visit[t]
BY DEF Visit

\* The steps of a Java thread.
LEMMA PromiseThread ==
  ASSUME TypeInv, PairedInv, VisitInv, NEW t \in Threads, ThreadStep(t), Unbroken,
         ~OriginalRaced, ~CallbackRaced
  PROVE  [Promise!Next]_Promise!specVars
<1> DEFINE h == hit[t]
           a == hit[t].bcp
           Kept == Site' = Site /\ Broken' = Broken
<1>0. Broken = FALSE /\ Broken' = FALSE
  BY DEF Unbroken, OriginalRaced, CallbackRaced, Broken
<1>1. /\ h \in HitType /\ hit \in [Threads -> HitType] /\ pc \in [Threads -> ThreadPc]
      /\ pc[t] # "run" => a \in Entry
      /\ VisitHolds(t)
      /\ h.covered \in BOOLEAN
  BY DEF TypeInv, TypeOK, VisitInv, HitType
<1>19. /\ nop # breakpoint /\ Absent # breakpoint /\ Empty # Absent /\ Absent \notin Callbacks
      /\ Absent \notin Byte /\ Absent \notin Entry /\ Empty \notin Callbacks
      /\ nop # Absent
  <2>1. Absent \notin Entry
    <3>1. \A x \in Address : x \in Nat
      BY DEF Address
    <3> QED
      BY <3>1, Addresses, ValueAssumption DEF ValueAssumption
  <2> QED
    BY <2>1, ValueAssumption DEF ValueAssumption, nop, breakpoint, Byte
<1> USE <1>19
<1>2. /\ UNCHANGED <<memory, agent>>
      /\ \A u \in Threads : u # t => hit'[u] = hit[u]
  BY <1>1 DEF ThreadStep, HandlerStep, Fetch, OriginalBytecodeHandler, OriginalInserted,
     BreakpointHandler, CallbackInserted, GetOpcodeFind, GetOpcodeIndex, GetOpcodeInserted,
     GetOpcodeReturns, StoreOffset, OffsetInserted, CallbackAsks, CallbackReturns, Dispatch, Registered
<1>3. \A x \in Entry : \/ breakpoint_callbacks'[x] = breakpoint_callbacks[x]
                        \/ memory[x] # breakpoint \/ Removing(x)
  <2>1. CASE CallbackInserted(t)
    <3>1. pc[t] = "insert_callback" /\ breakpoint_callbacks' \in Inserted(breakpoint_callbacks, a, Empty)
      BY <2>1 DEF CallbackInserted
    <3>2. breakpoint_callbacks[a] = Absent
      BY <3>1 DEF PairedInv, CallbackExclusive, ChangesCallback
    <3>3. memory[a] # breakpoint \/ Removing(a)
      BY <1>1, <3>1, <3>2 DEF PairedInv, ArmedIsRegistered
    <3>4. \A x \in Entry : x # a => breakpoint_callbacks'[x] = breakpoint_callbacks[x]
      BY <3>1, Addresses DEF Inserted, TypeInv, TypeOK
    <3> QED
      BY <3>3, <3>4
  <2>2. CASE ~CallbackInserted(t)
    <3>1. UNCHANGED breakpoint_callbacks
      BY <2>2 DEF ThreadStep, HandlerStep, Fetch, OriginalBytecodeHandler, OriginalInserted,
         BreakpointHandler, GetOpcodeFind, GetOpcodeIndex, GetOpcodeInserted,
         StoreOffset, OffsetInserted, CallbackAsks, CallbackReturns, Dispatch, maps, Registered
    <3> QED
      BY <3>1
  <2> QED
    BY <2>1, <2>2
<1>4. Kept /\ Visit' = [Visit EXCEPT ![t] = Visit'[t]]
  BY <1>0, <1>2, <1>3, ShownByThread
<1>5. ASSUME Visit'[t] = Visit[t]
      PROVE  UNCHANGED Promise!specVars
  <2>1. Visit' = Visit
    BY <1>4, <1>5 DEF Visit
  <2> QED
    BY <1>4, <2>1 DEF Promise!specVars
<1>6. /\ Visit[t] = [at |-> a, sure |-> h.covered, opcode |-> h.rbx, callback |-> h.callback, told |-> h.opcode]
      /\ Visit'[t] = [at |-> hit'[t].bcp, sure |-> hit'[t].covered, opcode |-> hit'[t].rbx,
                     callback |-> hit'[t].callback, told |-> hit'[t].opcode]
  BY DEF Visit
<1>7. CASE Fetch(t)
  <2>1. PICK x \in Entry : memory[x] = breakpoint /\ hit'[t] = NewHit(x, ~Removing(x))
    BY <1>1, <1>7 DEF Fetch
  <2>2. hit[t] = NoHit
    BY <1>1, <1>7 DEF Fetch, VisitHolds
  <2>3. Visit[t] = Promise!NoVisit
    BY <1>6, <2>2 DEF NoHit, Promise!NoVisit, Promise!Arrival
  <2>4. /\ Site[x] # Absent
        /\ Removing(x) => Site[x] \notin Callbacks
        /\ ~Removing(x) => Site[x] \in Callbacks
    <3>1. ~Removing(x) => breakpoint_callbacks[x] \in Callbacks
      BY <2>1 DEF PairedInv, ArmedIsRegistered
    <3>2. Site[x] = IF Removing(x) THEN Empty ELSE breakpoint_callbacks[x]
      BY <2>1 DEF Site
    <3> QED
      BY <3>1, <3>2
  <2>5. /\ hit'[t].bcp = x /\ hit'[t].covered = ~Removing(x) /\ hit'[t].rbx = Absent
        /\ hit'[t].callback = Absent /\ hit'[t].opcode = Absent
    BY <2>1 DEF NewHit, NoHit
  <2>6. hit'[t].covered = (Site[x] \in Callbacks)
    <3>1. CASE Removing(x)
      BY <2>4, <2>5, <3>1
    <3>2. CASE ~Removing(x)
      BY <2>4, <2>5, <3>2
    <3> QED
      BY <3>1, <3>2
  <2>7. Visit'[t] = Promise!Arrival(x, Site[x] \in Callbacks)
    BY <1>6, <2>5, <2>6 DEF Promise!Arrival
  <2>8. Promise!Arrive(t, x)
    BY <1>4, <2>3, <2>4, <2>7 DEF Promise!Arrive
  <2> QED
    BY <2>8 DEF Promise!Next
<1>8. ASSUME NEW b \in {nop, Code[a]}, pc[t] \in {"get_original", "insert_original"},
             hit'[t] = [h EXCEPT !.rbx = b], h.covered => b = Code[a]
      PROVE  Promise!Learn(t)
  <2>1. Visit[t].at # Absent /\ Visit[t].opcode = Absent
    BY <1>1, <1>6, <1>8 DEF VisitHolds
  <2>2. b \in Promise!Opcodes(Visit[t])
    <3>1. Visit[t].at = a /\ Visit[t].sure = h.covered
      BY <1>6
    <3>2. \/ b = Code[a]
          \/ b = nop /\ Visit[t].sure = FALSE
      BY <1>1, <1>8, <3>1
    <3> QED
      BY <3>1, <3>2 DEF Promise!Opcodes, Promise!nop, nop
  <2>3. Visit'[t] = [Visit[t] EXCEPT !.opcode = b]
    BY <1>1, <1>6, <1>8 DEF HitType
  <2>4. Visit' = [Visit EXCEPT ![t].opcode = b]
    BY <1>4, <2>3
  <2> QED
    BY <1>4, <2>1, <2>2, <2>4 DEF Promise!Learn
<1>9. ASSUME NEW c \in Callbacks \cup {Empty}, pc[t] \in {"breakpoint", "insert_callback"},
             hit'[t] = [h EXCEPT !.callback = c], h.covered => c \in Callbacks /\ c = Site[a]
      PROVE  Promise!Call(t, c)
  <2>1. Visit[t].opcode # Absent /\ Visit[t].callback = Absent
    BY <1>1, <1>6, <1>9 DEF VisitHolds, TypeInv, TypeOK
  <2>2. Visit'[t] = [Visit[t] EXCEPT !.callback = c]
    BY <1>1, <1>6, <1>9 DEF HitType
  <2>3. Visit' = [Visit EXCEPT ![t].callback = c]
    BY <1>4, <2>2
  <2>4. Visit[t].sure => c \in Callbacks /\ c = Site[Visit[t].at]
    BY <1>6, <1>9
  <2> QED
    BY <1>4, <2>1, <2>3, <2>4 DEF Promise!Call
<1>10. ASSUME NEW b \in {nop, breakpoint, Code[a]}, GetOpcodeReturns(t, b),
              pc[t] \in {"find", "index", "insert_opcode"}, h.covered => b = Code[a]
       PROVE  [Promise!Next]_Promise!specVars
  <2>1. CASE hit'[t] = h
    BY <1>5, <2>1, ShownAsBefore
  <2>2. CASE hit'[t] = [h EXCEPT !.opcode = b]
    <3>1. Visit[t].callback \in Callbacks
      BY <1>1, <1>6, <1>10 DEF VisitHolds
    <3>2. b \in Promise!Opcodes(Visit[t]) \cup IF Visit[t].sure THEN {} ELSE {Promise!breakpoint}
      <4>1. Visit[t].at = a /\ Visit[t].sure = h.covered
        BY <1>6
      <4>2. \/ b = Code[a]
            \/ b \in {nop, breakpoint} /\ Visit[t].sure = FALSE
        BY <1>1, <1>10, <4>1
      <4> QED
        BY <4>1, <4>2 DEF Promise!Opcodes, Promise!nop, nop, Promise!breakpoint, breakpoint
    <3>3. Visit'[t] = [Visit[t] EXCEPT !.told = b]
      BY <1>1, <1>6, <2>2 DEF HitType
    <3>4. Visit' = [Visit EXCEPT ![t].told = b]
      BY <1>4, <3>3
    <3>5. Promise!Tell(t)
      BY <1>4, <3>1, <3>2, <3>4 DEF Promise!Tell
    <3> QED
      BY <3>5 DEF Promise!Next
  <2> QED
    BY <1>1, <1>10, <2>1, <2>2 DEF GetOpcodeReturns
<1>11. /\ h.covered => original_bytecodes[a] = Code[a] /\ breakpoint_callbacks[a] \in Callbacks
       /\ h.covered => Site[a] = breakpoint_callbacks[a]
       /\ pc[t] \in {"insert_original", "insert_opcode"} => ~h.covered
       /\ pc[t] = "insert_callback" => ~h.covered
       /\ pc[t] # "run" => /\ original_bytecodes[a] \in {Absent, nop, Code[a]}
                          /\ memory[a] \in {breakpoint, Code[a]}
  <2>1. h.covered => a \in Entry /\ memory[a] = breakpoint /\ ~Removing(a)
    BY DEF PairedInv, CoveredIsArmed
  <2>2. h.covered => original_bytecodes[a] = Code[a] /\ breakpoint_callbacks[a] \in Callbacks
    BY <2>1 DEF PairedInv, ArmedIsRegistered
  <2>3. h.covered => Site[a] = breakpoint_callbacks[a]
    BY <2>1 DEF Site
  <2>4. pc[t] \in {"insert_original", "insert_opcode"} => original_bytecodes[a] = Absent
    BY DEF PairedInv, OriginalExclusive, ChangesOriginal
  <2>5. pc[t] = "insert_callback" => breakpoint_callbacks[a] = Absent
    BY DEF PairedInv, CallbackExclusive, ChangesCallback
  <2>6. h.covered => Code[a] # Absent
    BY <1>1, <2>1, Addresses
  <2>7. pc[t] # "run" => /\ original_bytecodes[a] \in {Absent, nop, Code[a]}
                         /\ memory[a] \in {breakpoint, Code[a]}
    BY <1>1, Addresses DEF VisitInv, StoredOpcodes, PairedInv, CodeIntact, OriginalRaced
  <2> QED
    BY <1>1, <2>2, <2>3, <2>4, <2>5, <2>6, <2>7
<1>12. /\ Busy("original_bytecodes", t) => ~(\/ OriginalBytecodeHandler(t) \/ GetOpcodeFind(t)
                                              \/ GetOpcodeIndex(t))
       /\ Busy("breakpoint_callbacks", t) => ~BreakpointHandler(t)
  BY DEF Unbroken, OriginalRaced, CallbackRaced, OriginalBytecodeHandler, GetOpcodeFind,
     GetOpcodeIndex, BreakpointHandler, Access, Registered
<1>13. CASE OriginalBytecodeHandler(t) \/ OriginalInserted(t)
  <2>1. CASE hit'[t] = h
    BY <1>5, <2>1, ShownAsBefore
  <2>2. CASE hit'[t] # h
    <3>1. \/ /\ pc[t] = "get_original" /\ original_bytecodes[a] # Absent
             /\ hit'[t] = [h EXCEPT !.rbx = original_bytecodes[a]]
          \/ pc[t] = "insert_original" /\ hit'[t] = [h EXCEPT !.rbx = nop]
      BY <1>1, <1>13, <2>2 DEF OriginalBytecodeHandler, OriginalInserted
    <3>2. Promise!Learn(t)
      BY <1>8, <1>11, <3>1
    <3> QED
      BY <3>2 DEF Promise!Next
  <2> QED
    BY <2>1, <2>2
<1>14. CASE BreakpointHandler(t) \/ CallbackInserted(t)
  <2>1. CASE hit'[t] = h
    BY <1>5, <2>1, ShownAsBefore
  <2>2. CASE hit'[t] # h
    <3>1. \/ /\ pc[t] = "breakpoint" /\ breakpoint_callbacks[a] # Absent
             /\ hit'[t] = [h EXCEPT !.callback = breakpoint_callbacks[a]]
          \/ pc[t] = "insert_callback" /\ hit'[t] = [h EXCEPT !.callback = Empty]
      BY <1>1, <1>14, <2>2 DEF BreakpointHandler, CallbackInserted
    <3>2. breakpoint_callbacks[a] \in Callbacks \cup {Empty, Absent}
      BY <1>1, <3>1, Addresses DEF TypeInv, TypeOK
    <3>3. \E c \in Callbacks \cup {Empty} : Promise!Call(t, c)
      BY <1>9, <1>11, <3>1, <3>2
    <3> QED
      BY <3>3 DEF Promise!Next
  <2> QED
    BY <2>1, <2>2
<1>15. CASE GetOpcodeFind(t)
  <2>1. CASE hit'[t] = h
    BY <1>5, <2>1, ShownAsBefore
  <2>2. CASE hit'[t] # h
    <3>1. pc[t] = "find" /\ original_bytecodes[a] = Absent /\ GetOpcodeReturns(t, memory[a])
      BY <1>1, <1>12, <1>15, <2>2 DEF GetOpcodeFind, Registered
    <3>2. ~h.covered
      BY <1>1, <1>11, <3>1, Addresses
    <3> QED
      BY <1>10, <1>11, <3>1, <3>2
  <2> QED
    BY <2>1, <2>2
<1>16. CASE GetOpcodeIndex(t) \/ GetOpcodeInserted(t)
  <2>1. CASE hit'[t] = h
    BY <1>5, <2>1, ShownAsBefore
  <2>2. CASE hit'[t] # h
    <3>1. \/ /\ pc[t] = "index" /\ original_bytecodes[a] # Absent
             /\ GetOpcodeReturns(t, original_bytecodes[a])
          \/ pc[t] = "insert_opcode" /\ GetOpcodeReturns(t, nop)
      BY <1>1, <1>16, <2>2 DEF GetOpcodeIndex, GetOpcodeInserted
    <3> QED
      BY <1>10, <1>11, <3>1
  <2> QED
    BY <2>1, <2>2
<1>17. CASE StoreOffset(t) \/ OffsetInserted(t) \/ CallbackAsks(t) \/ CallbackReturns(t)
  <2>1. hit'[t] = h \/ \E i \in BOOLEAN : hit'[t] = [h EXCEPT !.info = i]
    BY <1>1, <1>17 DEF StoreOffset, OffsetInserted, CallbackAsks, CallbackReturns
  <2>2. /\ hit'[t].bcp = h.bcp /\ hit'[t].covered = h.covered /\ hit'[t].rbx = h.rbx
        /\ hit'[t].callback = h.callback /\ hit'[t].opcode = h.opcode
    BY <1>1, <2>1 DEF HitType
  <2> QED
    BY <1>5, <2>2, ShownAsBefore
<1>18. CASE Dispatch(t)
  <2>1. pc[t] = "dispatch" /\ hit'[t] = NoHit
    BY <1>1, <1>18 DEF Dispatch, VisitHolds
  <2>2. Visit'[t] = Promise!NoVisit /\ Visit[t].callback # Absent
    BY <1>1, <1>6, <2>1 DEF VisitHolds, NoHit, Promise!NoVisit, Promise!Arrival
  <2>3. Promise!Leave(t)
    BY <1>4, <2>2 DEF Promise!Leave
  <2> QED
    BY <2>3 DEF Promise!Next
<1> QED
  BY <1>7, <1>13, <1>14, <1>15, <1>16, <1>17, <1>18 DEF ThreadStep, HandlerStep

\* Every step of a paired client and the Java threads is a step of BreakpointSpec
\* or a stutter; a step that races on the registry breaks it.
LEMMA PromiseStep ==
  ASSUME TypeInv, PairedInv, VisitInv, [PairedNext]_vars
  PROVE  [Promise!Next]_Promise!specVars
<1>1. CASE UNCHANGED vars
  BY <1>1 DEF vars, Promise!specVars, Site, Visit, Broken, Removing
<1>2. CASE PairedNext /\ Unbroken
  <2>1. ~OriginalRaced /\ ~CallbackRaced
    <3>1. raced \subseteq raced'
      BY <1>2 DEF PairedNext, PairedCall, PairedCalls, AgentStep, ThreadStep, HandlerStep, AddBreakpoint,
         RemoveBreakpoint, AddOriginal, AddCallback, AddArm, RemoveOriginal, RemoveCallback,
         RemoveRestore, SweepStop, SweepSkip, SweepFound, Fetch, OriginalBytecodeHandler,
         OriginalInserted, BreakpointHandler, CallbackInserted, GetOpcodeFind, GetOpcodeIndex,
         GetOpcodeInserted, StoreOffset, OffsetInserted, CallbackAsks, CallbackReturns,
         Dispatch, Access, Assigned, Registered
    <3> QED
      BY <1>2, <3>1 DEF Unbroken, OriginalRaced, CallbackRaced
  <2> QED
    BY <1>2, <2>1, PromiseAgent, PromiseThread DEF PairedNext
<1>3. CASE ~Unbroken
  <2>1. Broken'
    BY <1>3 DEF Unbroken, OriginalRaced, CallbackRaced, Broken
  <2> QED
    BY <2>1 DEF Promise!Break, Promise!Next
<1> QED
  BY <1>1, <1>2, <1>3

\* A paired client and the Java threads keep the promise of BreakpointSpec:
\* breakpoints appear and disappear at one step, a thread that meets one runs
\* exactly the callback registered for it and goes on with the original opcode.
THEOREM PromiseCorrect == PairedSpec => PromiseKept
<1>1. TypeInv /\ PairedInv /\ VisitInv /\ [PairedNext]_vars => [Promise!Next]_Promise!specVars
  BY PromiseStep
<1> QED
  BY PromiseInit, PairedType, PairedInvariant, VisitInvariant, <1>1, PTL
     DEF PairedSpec, PromiseKept, Promise!Spec
=============================================================================
