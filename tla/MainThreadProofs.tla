---------------------------- MODULE MainThreadProofs ----------------------------
(***************************************************************************)
(* Proofs about MainThread, for every method, every number of Java threads  *)
(* and every set of interpreters.                                           *)
(***************************************************************************)
EXTENDS MainThread, BreakpointsProofs, FiniteSetTheorems, WellFoundedInduction

-----------------------------------------------------------------------------
(* The invariant.  The DLL uses one address, CodeStart; it is an opcode's    *)
(* only if the offset of the bytecode was found.                             *)

\* The phases before the first write to the code.
Before == {"attach", "setup", "hook_original", "hook_breakpoint", "find_class",
           "find_method", "set_breakpoint"}

Restored == memory = Code

\* No thread is in a handler or has anything left of one.
Quiet == \A t \in Threads : pc[t] = "run" /\ hit[t] = NoHit

\* The registry has never been used.
Fresh ==
  /\ agent = Idle /\ Restored /\ Quiet /\ raced = {}
  /\ \A a \in Address : original_bytecodes[a] = Absent /\ breakpoint_callbacks[a] = Absent

\* Nothing but CodeStart is ever written, registered or hit.
Elsewhere ==
  /\ \A a \in Address \ {CodeStart} :
       /\ memory[a] = Code[a]
       /\ original_bytecodes[a] = Absent /\ breakpoint_callbacks[a] = Absent
  /\ \A t \in Threads : pc[t] # "run" => hit[t].bcp = CodeStart

\* A hit while the breakpoint is armed: it misses no key, so it opens no window
\* of the registry, and it learns what it should.
Working(t) ==
  /\ pc[t] \notin {"insert_original", "insert_callback", "insert_opcode"}
  /\ hit[t].rbx \in {Absent, Code[CodeStart]}
  /\ hit[t].opcode \in {Absent, Code[CodeStart]}
  /\ hit[t].rbx # Absent \/ hit[t].opcode # Absent => hit[t].bcp = CodeStart
  /\ pc[t] \in {"find", "index", "offsets", "insert_offset", "callback", "dispatch"} =>
       hit[t].callback = Printf

Armed ==
  /\ memory[CodeStart] = breakpoint
  /\ original_bytecodes[CodeStart] = Code[CodeStart]
  /\ breakpoint_callbacks[CodeStart] = Printf
  /\ \A t \in Threads : Working(t)
  /\ raced \subseteq {"bytecode_offsets"}

\* add_breakpoint is running: nobody has noticed yet.
AddInProgress ==
  /\ agent.pc \in {"add_original", "add_callback", "add_arm"}
  /\ agent.addr = CodeStart /\ agent.byte = Code[CodeStart]
  /\ agent.callback = Printf /\ agent.all = FALSE
  /\ Restored /\ Quiet /\ raced = {}
  /\ agent.pc # "add_original" => original_bytecodes[CodeStart] = Code[CodeStart]
  /\ agent.pc = "add_arm" => breakpoint_callbacks[CodeStart] = Printf

\* remove_all_breakpoints finds the breakpoint at its first byte, removes it, and
\* finds nothing more.
RemovalInProgress ==
  \/ agent.pc = "sweep" /\ agent.all = TRUE /\ agent.addr = CodeStart /\ Armed
  \/ /\ agent.pc \in {"remove_original", "remove_callback", "remove_restore"}
     /\ agent.all = TRUE /\ agent.addr = CodeStart /\ agent.byte = Code[CodeStart]
  \/ agent.pc = "sweep" /\ agent.all = TRUE /\ CodeStart < agent.addr /\ Restored
  \/ agent.pc = "idle" /\ Restored

MainInv ==
  /\ TypeOK /\ phase \in Phase /\ offsets.bytecode_start \in Byte
  /\ Elsewhere
  /\ phase \in Before => Fresh
  /\ phase = "wait_home" => AddInProgress \/ (agent.pc = "idle" /\ Armed)
  /\ phase = "removing" => RemovalInProgress
  /\ phase \in {"wait_insert", "unloaded", "crashed"} => agent.pc = "idle" /\ Restored

\* Where the breakpoint goes: never behind the code, and on an opcode or in the
\* ConstMethod.
LEMMA Places == Start[TestMul] \in Address /\ Header \in Address
BY CodeAssumption, MainAssumption DEF CodeAssumption, MainAssumption

\* What set_breakpoint is called with is a place of the method and a callback.
LEMMA Target ==
  /\ CodeStart \in Address /\ CodeStart # CodeEnd /\ CodeStart + 1 \in Address
  /\ Code[CodeStart] \in Byte
  /\ Printf \in Callbacks /\ Printf # Absent /\ Printf # Empty
<1>1. Start[TestMul] \in Entry /\ Entry \subseteq Address \ {CodeEnd}
  BY CodeAssumption, MainAssumption DEF CodeAssumption, MainAssumption
<1>2. Header \in Address /\ Header # CodeEnd
  <2>1. Header \in Address /\ Header < Start[TestMul]
    BY MainAssumption DEF MainAssumption
  <2>2. CodeEnd \in Nat /\ Start[TestMul] \in 1..CodeEnd
    BY <1>1, CodeAssumption DEF CodeAssumption, Address
  <2> QED
    BY <2>1, <2>2 DEF Address
<1>3. CodeStart \in Address /\ CodeStart # CodeEnd
  BY <1>1, <1>2 DEF CodeStart
<1>4. CodeStart + 1 \in Address /\ Code[CodeStart] \in Byte
  BY <1>3, Addresses
<1>5. Printf \in Callbacks /\ Printf # Absent /\ Printf # Empty
  BY MainAssumption, ValueAssumption DEF MainAssumption, ValueAssumption
<1> QED
  BY <1>3, <1>4, <1>5

\* The opcodes of instructions are not 0xCA.
LEMMA PlainOpcodes == \A a \in Entry : Code[a] # breakpoint
BY CodeAssumption DEF CodeAssumption

\* Where the agent is in a call, the call is one of CodeStart.
LEMMA AgentPlaces ==
  ASSUME MainInv
  PROVE  /\ agent.pc # "idle" => phase \in {"wait_home", "removing"}
         /\ agent.pc \notin {"idle", "sweep"} => agent.addr = CodeStart
<1>1. phase \in Before => agent.pc = "idle"
  BY DEF MainInv, Fresh, Idle
<1>2. phase \in Before \cup {"wait_home", "removing", "wait_insert", "unloaded", "crashed"}
  BY DEF MainInv, Phase, Before
<1>3. phase = "wait_home" /\ agent.pc \notin {"idle", "sweep"} => agent.addr = CodeStart
  BY DEF MainInv, AddInProgress
<1>4. phase = "removing" /\ agent.pc \notin {"idle", "sweep"} => agent.addr = CodeStart
  BY DEF MainInv, RemovalInProgress
<1> QED
  BY <1>1, <1>2, <1>3, <1>4 DEF MainInv

\* If the offset was found the DLL is a client of the registry as Breakpoints
\* knows it.
LEMMA RegistryInv == MainInv /\ CodeStart \in Entry => TypeInv
<1> SUFFICES ASSUME MainInv, CodeStart \in Entry PROVE TypeInv
  OBVIOUS
<1>1. TypeOK
  BY DEF MainInv
<1>2. OperandsIntact /\ KeysAtEntries
  BY DEF MainInv, Elsewhere, OperandsIntact, KeysAtEntries
<1>3. AgentAtEntry
  BY AgentPlaces DEF AgentAtEntry
<1> QED
  BY <1>1, <1>2, <1>3 DEF TypeInv

-----------------------------------------------------------------------------
(* Steps of the Java threads *)

\* In code without a breakpoint a thread that is in no handler does nothing here.
LEMMA NothingToHit ==
  ASSUME NEW t \in Threads, pc[t] = "run", \A a \in Entry : memory[a] = Code[a]
  PROVE  ~ThreadStep(t)
<1>1. ~Fetch(t)
  BY PlainOpcodes DEF Fetch
<1>2. ~HandlerStep(t)
  BY DEF HandlerStep, OriginalBytecodeHandler, OriginalInserted, BreakpointHandler,
         CallbackInserted, GetOpcodeFind, GetOpcodeIndex, GetOpcodeInserted, StoreOffset,
         OffsetInserted, CallbackAsks, CallbackReturns, Dispatch
<1> QED
  BY <1>1, <1>2 DEF ThreadStep

\* Thread t changes the registry only where its hit is, and stays there.
Local(t) ==
  /\ OthersKept(t)
  /\ \/ pc[t] # "run" /\ hit'[t].bcp = hit[t].bcp
     \/ pc'[t] = "run"
     \/ pc[t] = "run" /\ hit'[t].bcp \in Entry /\ memory[hit'[t].bcp] = breakpoint
  /\ \A a \in Address : a # hit[t].bcp \/ pc[t] = "run" =>
       original_bytecodes'[a] = original_bytecodes[a]
         /\ breakpoint_callbacks'[a] = breakpoint_callbacks[a]

\* A step that changes no map and nothing of a hit but the fields it fills in.
LEMMA LocalStep ==
  ASSUME TypeInv, NEW t \in Threads, NEW r, NEW p, r.bcp = hit[t].bcp, pc[t] # "run",
         pc' = [pc EXCEPT ![t] = p], hit' = [hit EXCEPT ![t] = r],
         UNCHANGED <<original_bytecodes, breakpoint_callbacks>>
  PROVE  Local(t)
BY DEF Local, OthersKept, TypeInv, TypeOK

\* A hit keeps its address whatever field is filled in.
LEMMA Fields ==
  ASSUME NEW h \in HitType, NEW v
  PROVE  /\ [h EXCEPT !.rbx = v].bcp = h.bcp /\ [h EXCEPT !.callback = v].bcp = h.bcp
         /\ [h EXCEPT !.opcode = v].bcp = h.bcp /\ [h EXCEPT !.info = v].bcp = h.bcp
BY DEF HitType

\* A Java thread writes no code, and of the registry only what it has hit.
LEMMA ThreadLocal ==
  ASSUME TypeInv, NEW t \in Threads, ThreadStep(t)
  PROVE  UNCHANGED <<memory, agent>> /\ Local(t)
<1> DEFINE h == hit[t]
<1>1. UNCHANGED <<memory, agent>>
  BY DEF ThreadStep, Fetch, HandlerStep, OriginalBytecodeHandler, OriginalInserted,
         BreakpointHandler, CallbackInserted, GetOpcodeFind, GetOpcodeIndex,
         GetOpcodeInserted, StoreOffset, OffsetInserted, CallbackAsks, CallbackReturns,
         Dispatch
<1>2. /\ hit \in [Threads -> HitType] /\ pc \in [Threads -> ThreadPc]
      /\ h \in HitType
      /\ original_bytecodes \in [Address -> Byte \cup {Absent}]
      /\ breakpoint_callbacks \in [Address -> Callbacks \cup {Empty, Absent}]
  BY DEF TypeInv, TypeOK
<1>3. ASSUME NEW p, pc' = [pc EXCEPT ![t] = p], UNCHANGED hit, pc[t] # "run",
             UNCHANGED <<original_bytecodes, breakpoint_callbacks>>
      PROVE  Local(t)
  BY <1>2, <1>3 DEF Local, OthersKept
<1>4. CASE Fetch(t)
  <2>1. PICK a \in Entry : /\ memory[a] = breakpoint
                           /\ hit' = [hit EXCEPT ![t] = NewHit(a, ~Removing(a))]
    BY <1>4 DEF Fetch
  <2>2. hit'[t].bcp = a
    BY <1>2, <2>1 DEF NewHit, NoHit
  <2> QED
    BY <1>2, <1>4, <2>1, <2>2 DEF Fetch, Local, OthersKept, maps
<1>5. CASE OriginalBytecodeHandler(t)
  BY <1>2, <1>3, <1>5, LocalStep, Fields DEF OriginalBytecodeHandler, maps
<1>6. CASE OriginalInserted(t)
  <2>1. hit'[t].bcp = h.bcp
    BY <1>2, <1>6, Fields DEF OriginalInserted
  <2> QED
    BY <1>2, <1>6, <2>1 DEF OriginalInserted, Inserted, Local, OthersKept
<1>7. CASE BreakpointHandler(t)
  BY <1>2, <1>3, <1>7, LocalStep, Fields DEF BreakpointHandler, maps
<1>8. CASE CallbackInserted(t)
  <2>1. hit'[t].bcp = h.bcp
    BY <1>2, <1>8, Fields DEF CallbackInserted
  <2> QED
    BY <1>2, <1>8, <2>1 DEF CallbackInserted, Inserted, Local, OthersKept
<1>9. ASSUME NEW opcode, GetOpcodeReturns(t, opcode)
      PROVE  OthersKept(t) /\ hit'[t].bcp = h.bcp
  <2>1. CASE /\ hit' = [hit EXCEPT ![t].opcode = opcode]
             /\ pc' = [pc EXCEPT ![t] = "callback"]
    <3>1. hit'[t] = [h EXCEPT !.opcode = opcode]
      BY <1>2, <2>1
    <3> QED
      BY <1>2, <2>1, <3>1, Fields DEF OthersKept
  <2>2. CASE pc' = [pc EXCEPT ![t] = "offsets"] /\ UNCHANGED hit
    BY <1>2, <2>2 DEF OthersKept
  <2> QED
    BY <1>9, <2>1, <2>2 DEF GetOpcodeReturns
<1>10. CASE GetOpcodeFind(t)
  <2>1. UNCHANGED <<original_bytecodes, breakpoint_callbacks>> /\ pc[t] # "run"
    BY <1>10 DEF GetOpcodeFind, maps
  <2>2. OthersKept(t) /\ hit'[t].bcp = h.bcp
    BY <1>2, <1>9, <1>10 DEF GetOpcodeFind, OthersKept
  <2> QED
    BY <1>1, <2>1, <2>2 DEF Local
<1>11. CASE GetOpcodeIndex(t)
  <2>1. UNCHANGED <<original_bytecodes, breakpoint_callbacks>> /\ pc[t] # "run"
    BY <1>11 DEF GetOpcodeIndex, maps
  <2>2. OthersKept(t) /\ hit'[t].bcp = h.bcp
    BY <1>2, <1>9, <1>11 DEF GetOpcodeIndex, OthersKept
  <2> QED
    BY <1>1, <2>1, <2>2 DEF Local
<1>12. CASE GetOpcodeInserted(t)
  <2>1. OthersKept(t) /\ hit'[t].bcp = h.bcp
    BY <1>9, <1>12 DEF GetOpcodeInserted
  <2> QED
    BY <1>2, <1>12, <2>1 DEF GetOpcodeInserted, Inserted, Local
<1>13. CASE StoreOffset(t)
  BY <1>2, <1>3, <1>13, LocalStep, Fields DEF StoreOffset
<1>14. CASE OffsetInserted(t)
  BY <1>2, <1>14, LocalStep, Fields DEF OffsetInserted
<1>15. CASE CallbackAsks(t)
  BY <1>3, <1>15 DEF CallbackAsks, maps
<1>16. CASE CallbackReturns(t)
  BY <1>2, <1>16, LocalStep, Fields DEF CallbackReturns, maps
<1>17. CASE Dispatch(t)
  <2>1. CASE /\ pc' = [pc EXCEPT ![t] = "run"]
             /\ hit' = [hit EXCEPT ![t] = NoHit]
    BY <1>2, <1>17, <2>1 DEF Dispatch, Local, OthersKept, maps
  <2>2. CASE /\ pc' = [pc EXCEPT ![t] = "get_original"]
             /\ hit' = [hit EXCEPT ![t] = NewHit(h.bcp, h.covered)]
    <3>1. NewHit(h.bcp, h.covered).bcp = h.bcp
      BY DEF NewHit, NoHit
    <3> QED
      BY <1>17, <2>2, <3>1, LocalStep DEF Dispatch, maps
  <2> QED
    BY <1>17, <2>1, <2>2 DEF Dispatch
<1> QED
  BY <1>1, <1>4, <1>5, <1>6, <1>7, <1>8, <1>10, <1>11, <1>12, <1>13, <1>14, <1>15, <1>16,
     <1>17 DEF ThreadStep, HandlerStep

\* So whatever is true elsewhere stays true.
LEMMA ElsewhereThread ==
  ASSUME Elsewhere, TypeInv, NEW t \in Threads, Local(t), UNCHANGED memory,
         CodeStart' = CodeStart
  PROVE  Elsewhere'
<1>1. pc'[t] # "run" => hit'[t].bcp = CodeStart
  <2>1. CASE pc[t] = "run" /\ hit'[t].bcp \in Entry /\ memory[hit'[t].bcp] = breakpoint
    BY <2>1, PlainOpcodes, Addresses DEF Elsewhere
  <2>2. CASE pc[t] # "run" /\ hit'[t].bcp = hit[t].bcp
    BY <2>2 DEF Elsewhere
  <2> QED
    BY <2>1, <2>2 DEF Local
<1> QED
  BY <1>1 DEF Elsewhere, Local, OthersKept

\* Nobody misses a key of the armed breakpoint, so nobody opens a window.
LEMMA ArmedClosed ==
  ASSUME Armed, agent.pc \in {"idle", "sweep"}
  PROVE  /\ original_bytecodes[CodeStart] # Absent
         /\ \A t \in Threads : /\ ~Busy("original_bytecodes", t)
                               /\ ~Busy("breakpoint_callbacks", t)
         /\ ~BusyForAgent("original_bytecodes") /\ ~BusyForAgent("breakpoint_callbacks")
<1>1. \A u \in Threads : ~ChangesOriginal(u) /\ ~ChangesCallback(u)
  BY DEF Armed, Working, ChangesOriginal, ChangesCallback
<1>2. original_bytecodes[CodeStart] # Absent
  BY Target, NotAByte DEF Armed
<1> QED
  BY <1>1, <1>2, BusyMaps

\* What is left to show of a step that changes neither the code nor the registry.
LEMMA ArmedStep ==
  ASSUME Armed, NEW t \in Threads, OthersKept(t), Working(t)', CodeStart' = CodeStart,
         UNCHANGED <<memory, original_bytecodes, breakpoint_callbacks>>,
         raced' \subseteq {"bytecode_offsets"}
  PROVE  Armed'
<1>1. \A u \in Threads : Working(u)'
  <2> TAKE u \in Threads
  <2>1. CASE u = t
    BY <2>1
  <2>2. CASE u # t
    <3>1. Working(u) /\ pc'[u] = pc[u] /\ hit'[u] = hit[u]
      BY <2>2 DEF Armed, OthersKept
    <3> QED
      BY <3>1 DEF Working
  <2> QED
    BY <2>1, <2>2
<1> QED
  BY <1>1 DEF Armed

\* A Java thread leaves the armed breakpoint as it is, and learns what it should.
LEMMA ArmedThread ==
  ASSUME TypeInv, TypeInv', CodeStart \in Entry, Elsewhere, Armed,
         agent.pc \in {"idle", "sweep"}, CodeStart' = CodeStart,
         NEW t \in Threads, ThreadStep(t)
  PROVE  Armed'
<1> DEFINE h == hit[t]
           C == Code[CodeStart]
<1>1. UNCHANGED <<memory, agent>> /\ OthersKept(t)
  BY ThreadLocal DEF Local
<1>2. /\ hit \in [Threads -> HitType] /\ pc \in [Threads -> ThreadPc] /\ h \in HitType
      /\ Working(t) /\ raced \subseteq {"bytecode_offsets"}
      /\ pc[t] # "run" => h.bcp = CodeStart
      /\ original_bytecodes[CodeStart] = C /\ breakpoint_callbacks[CodeStart] = Printf
      /\ C # breakpoint /\ C # Absent /\ Printf # Absent /\ Printf # Empty
  BY Target, PlainOpcodes, NotAByte DEF TypeInv, TypeOK, Elsewhere, Armed
<1>3. ~Busy("original_bytecodes", t) /\ ~Busy("breakpoint_callbacks", t)
  BY ArmedClosed
<1> SUFFICES /\ Working(t)' /\ UNCHANGED <<original_bytecodes, breakpoint_callbacks>>
             /\ raced' \subseteq {"bytecode_offsets"}
  BY <1>1, ArmedStep
<1>4. CASE Fetch(t)
  <2>1. PICK a \in Entry : hit' = [hit EXCEPT ![t] = NewHit(a, ~Removing(a))]
    BY <1>4 DEF Fetch
  <2>2. hit'[t] = NewHit(a, ~Removing(a)) /\ pc'[t] = "get_original"
    BY <1>2, <1>4, <2>1 DEF Fetch
  <2> QED
    BY <1>2, <1>4, <2>2 DEF Fetch, NewHit, NoHit, Working, maps
<1>5. CASE OriginalBytecodeHandler(t)
  <2>1. hit' = [hit EXCEPT ![t].rbx = C] /\ pc' = [pc EXCEPT ![t] = "breakpoint"]
    BY <1>2, <1>3, <1>5 DEF OriginalBytecodeHandler
  <2>2. hit'[t] = [h EXCEPT !.rbx = C] /\ pc'[t] = "breakpoint"
    BY <1>2, <2>1
  <2> QED
    BY <1>2, <1>3, <1>5, <2>2 DEF OriginalBytecodeHandler, Access, HitType, Working, maps
<1>6. ~OriginalInserted(t) /\ ~CallbackInserted(t) /\ ~GetOpcodeInserted(t)
  BY <1>2 DEF OriginalInserted, CallbackInserted, GetOpcodeInserted, Working
<1>7. CASE BreakpointHandler(t)
  <2>1. hit' = [hit EXCEPT ![t].callback = Printf] /\ pc' = [pc EXCEPT ![t] = "find"]
    BY <1>2, <1>3, <1>7 DEF BreakpointHandler
  <2>2. hit'[t] = [h EXCEPT !.callback = Printf] /\ pc'[t] = "find"
    BY <1>2, <2>1
  <2> QED
    BY <1>2, <1>3, <1>7, <2>2 DEF BreakpointHandler, Access, HitType, Working, maps
<1>8. ASSUME GetOpcodeReturns(t, C), pc[t] \in {"find", "index"}
      PROVE  Working(t)'
  <2>1. CASE hit' = [hit EXCEPT ![t].opcode = C] /\ pc' = [pc EXCEPT ![t] = "callback"]
    <3>1. hit'[t] = [h EXCEPT !.opcode = C] /\ pc'[t] = "callback"
      BY <1>2, <2>1
    <3> QED
      BY <1>2, <1>8, <3>1 DEF HitType, Working
  <2>2. CASE pc' = [pc EXCEPT ![t] = "offsets"] /\ UNCHANGED hit
    BY <1>2, <1>8, <2>2 DEF Working
  <2> QED
    BY <1>8, <2>1, <2>2 DEF GetOpcodeReturns
<1>9. CASE GetOpcodeFind(t)
  <2>1. pc' = [pc EXCEPT ![t] = "index"] /\ UNCHANGED hit
    BY <1>2, <1>3, <1>9 DEF GetOpcodeFind, Registered
  <2> QED
    BY <1>2, <1>3, <1>9, <2>1 DEF GetOpcodeFind, Access, Working, maps
<1>10. CASE GetOpcodeIndex(t)
  <2>1. GetOpcodeReturns(t, C) /\ pc[t] = "index"
    BY <1>2, <1>3, <1>10 DEF GetOpcodeIndex
  <2> QED
    BY <1>2, <1>3, <1>8, <1>10, <2>1 DEF GetOpcodeIndex, Access, maps
<1>11. ASSUME hit' = [hit EXCEPT ![t].info = TRUE], pc' = [pc EXCEPT ![t] = "callback"],
              pc[t] \in {"offsets", "insert_offset"}
       PROVE  Working(t)'
  <2>1. hit'[t] = [h EXCEPT !.info = TRUE] /\ pc'[t] = "callback"
    BY <1>2, <1>11
  <2> QED
    BY <1>2, <1>11, <2>1 DEF HitType, Working
<1>12. CASE StoreOffset(t)
  <2>1. CASE pc' = [pc EXCEPT ![t] = "insert_offset"] /\ UNCHANGED hit
    BY <1>2, <1>12, <2>1 DEF StoreOffset, Working, Access
  <2>2. CASE hit' = [hit EXCEPT ![t].info = TRUE] /\ pc' = [pc EXCEPT ![t] = "callback"]
    BY <1>2, <1>11, <1>12, <2>2 DEF StoreOffset, Access
  <2> QED
    BY <1>12, <2>1, <2>2 DEF StoreOffset
<1>13. CASE OffsetInserted(t)
  BY <1>2, <1>11, <1>13 DEF OffsetInserted
<1>14. CASE CallbackAsks(t)
  BY <1>2, <1>14 DEF CallbackAsks, Working, maps
<1>15. CASE CallbackReturns(t)
  <2>1. hit'[t] = [h EXCEPT !.info = FALSE] /\ pc'[t] = "dispatch" /\ pc[t] = "callback"
    BY <1>2, <1>15 DEF CallbackReturns
  <2> QED
    BY <1>2, <1>15, <2>1 DEF CallbackReturns, HitType, Working, maps
<1>16. CASE Dispatch(t)
  <2>1. h.rbx # breakpoint
    <3>1. h.rbx \in {Absent, C} /\ h.rbx \in Byte
      BY <1>2, <1>16 DEF Dispatch, Working, TypeInv, TypeOK
    <3> QED
      BY <1>2, <3>1, NotAByte
  <2>2. hit'[t] = NoHit /\ pc'[t] = "run"
    BY <1>2, <1>16, <2>1 DEF Dispatch
  <2> QED
    BY <1>2, <1>16, <2>2 DEF Dispatch, NoHit, Working, maps
<1> QED
  BY <1>4, <1>5, <1>6, <1>7, <1>9, <1>10, <1>12, <1>13, <1>14, <1>15, <1>16
     DEF ThreadStep, HandlerStep

\* A Java thread meets the breakpoint only if the offset was found.
LEMMA JavaMeets ==
  ASSUME MainInv, NEW t \in Threads, ThreadStep(t)
  PROVE  CodeStart \in Entry /\ TypeInv
<1>1. CASE CodeStart \notin Entry
  <2>1. \A a \in Entry : memory[a] = Code[a]
    BY <1>1, Addresses DEF MainInv, Elsewhere
  <2>2. pc[t] = "run"
    BY <1>1 DEF MainInv, TypeOK, Elsewhere
  <2> QED
    BY <2>1, <2>2, NothingToHit
<1> QED
  BY <1>1, RegistryInv

\* Steps of Java threads keep the invariant, whatever main_thread is doing.
LEMMA MainJava ==
  ASSUME MainInv, NEW t \in Threads, ThreadStep(t), UNCHANGED <<phase, set>>
  PROVE  MainInv'
<1>1. CodeStart' = CodeStart
  BY DEF CodeStart, set
<1>2. CodeStart \in Entry
  BY JavaMeets
<1>3. TypeInv /\ TypeInv'
  BY JavaMeets, TypeThread
<1>4. UNCHANGED <<memory, agent>> /\ Local(t)
  BY <1>3, ThreadLocal
<1>5. Elsewhere'
  BY <1>1, <1>3, <1>4, ElsewhereThread DEF MainInv
<1>6. ~(Quiet /\ Restored)
  BY NothingToHit, Addresses DEF Quiet, Restored
<1>7. Armed /\ agent.pc \in {"idle", "sweep"} => Armed'
  BY <1>1, <1>2, <1>3, ArmedThread DEF MainInv
<1>8. Restored => Restored'
  BY <1>4 DEF Restored
<1>9. phase \notin Before /\ ~AddInProgress
  BY <1>6 DEF MainInv, Fresh, AddInProgress
<1>10. RemovalInProgress => RemovalInProgress'
  BY <1>1, <1>4, <1>7, <1>8 DEF RemovalInProgress
<1> QED
  BY <1>1, <1>3, <1>4, <1>5, <1>7, <1>8, <1>9, <1>10 DEF MainInv, TypeInv, set

-----------------------------------------------------------------------------
(* Steps of main_thread *)

\* While nothing has been hit no map is being changed by a Java thread.
LEMMA QuietClosed ==
  ASSUME Quiet
  PROVE  ~BusyForAgent("original_bytecodes") /\ ~BusyForAgent("breakpoint_callbacks")
BY BusyMaps DEF Quiet, ChangesOriginal, ChangesCallback

\* The part of TypeOK that speaks of the Java threads stays while they do.
LEMMA TypeRest ==
  ASSUME TypeOK, UNCHANGED <<pc, hit, bytecode_offsets>>,
         memory' \in [Address -> Byte],
         original_bytecodes' \in [Address -> Byte \cup {Absent}],
         breakpoint_callbacks' \in [Address -> Callbacks \cup {Empty, Absent}],
         agent' \in AgentType, raced' \in SUBSET Maps
  PROVE  TypeOK'
BY DEF TypeOK

\* add_breakpoint keeps the invariant.
LEMMA MainAdd ==
  ASSUME MainInv, AddOriginal \/ AddCallback \/ AddArm, UNCHANGED <<phase, set>>
  PROVE  MainInv'
<1> DEFINE C == Code[CodeStart]
<1>1. CodeStart' = CodeStart /\ UNCHANGED <<phase, offsets, vm_calls, hooks>>
  BY DEF CodeStart, set
<1>2. phase = "wait_home" /\ AddInProgress
  <2>1. agent.pc \in {"add_original", "add_callback", "add_arm"}
    BY DEF AddOriginal, AddCallback, AddArm
  <2>2. phase \in {"wait_home", "removing"}
    BY <2>1, AgentPlaces
  <2>3. ~RemovalInProgress
    BY <2>1 DEF RemovalInProgress
  <2> QED
    BY <2>1, <2>2, <2>3 DEF MainInv
<1>3. /\ agent.addr = CodeStart /\ agent.byte = C /\ agent.callback = Printf
      /\ agent \in AgentType /\ raced = {} /\ Restored /\ Quiet /\ TypeOK
      /\ ~BusyForAgent("original_bytecodes") /\ ~BusyForAgent("breakpoint_callbacks")
      /\ original_bytecodes \in [Address -> Byte \cup {Absent}]
      /\ breakpoint_callbacks \in [Address -> Callbacks \cup {Empty, Absent}]
      /\ memory \in [Address -> Byte]
  BY <1>2, QuietClosed DEF AddInProgress, MainInv, TypeOK
<1>4. CASE AddOriginal
  <2>1. /\ original_bytecodes' = [original_bytecodes EXCEPT ![CodeStart] = C]
        /\ UNCHANGED <<memory, breakpoint_callbacks, bytecode_offsets, pc, hit, raced>>
        /\ agent' = [agent EXCEPT !.pc = "add_callback"]
    BY <1>3, <1>4 DEF AddOriginal, Assigned, Access
  <2>2. agent' \in AgentType
    BY <1>3, <2>1 DEF AgentType, AgentPc
  <2>3. TypeOK'
    BY <1>3, <2>1, <2>2, Target, TypeRest
  <2>4. AddInProgress'
    BY <1>1, <1>2, <1>3, <2>1, Target DEF AddInProgress, Restored, Quiet, AgentType
  <2>5. Elsewhere'
    BY <1>1, <1>3, <2>1 DEF MainInv, Elsewhere
  <2> QED
    BY <1>1, <1>2, <2>3, <2>4, <2>5 DEF MainInv, Before
<1>5. CASE AddCallback
  <2>1. /\ breakpoint_callbacks' = [breakpoint_callbacks EXCEPT ![CodeStart] = Printf]
        /\ UNCHANGED <<memory, original_bytecodes, bytecode_offsets, pc, hit, raced>>
        /\ agent' = [agent EXCEPT !.pc = "add_arm"] /\ agent.pc = "add_callback"
    BY <1>3, <1>5 DEF AddCallback, Assigned
  <2>2. agent' \in AgentType
    BY <1>3, <2>1 DEF AgentType, AgentPc
  <2>3. TypeOK'
    BY <1>3, <2>1, <2>2, Target, TypeRest DEF TypeOK
  <2>4. AddInProgress'
    BY <1>1, <1>2, <1>3, <2>1, Target DEF AddInProgress, Restored, Quiet, AgentType
  <2>5. Elsewhere'
    BY <1>1, <1>3, <2>1 DEF MainInv, Elsewhere
  <2> QED
    BY <1>1, <1>2, <2>3, <2>4, <2>5 DEF MainInv, Before
<1>6. CASE AddArm
  <2>1. /\ memory' = [memory EXCEPT ![CodeStart] = breakpoint]
        /\ UNCHANGED <<original_bytecodes, breakpoint_callbacks, bytecode_offsets, pc, hit, raced>>
        /\ agent' = Idle /\ agent.pc = "add_arm"
    BY <1>3, <1>6 DEF AddArm, maps
  <2>2. agent' \in AgentType /\ agent'.pc = "idle"
    BY <2>1, Addresses DEF Idle, AgentType, AgentPc, Byte, nop
  <2>3. TypeOK'
    <3>1. breakpoint \in Byte
      BY DEF breakpoint, Byte
    <3> QED
      BY <1>3, <2>1, <2>2, <3>1, TypeRest DEF TypeOK
  <2>4. \A t \in Threads : Working(t)'
    BY <1>1, <1>3, <2>1 DEF Quiet, NoHit, Working
  <2>5. Armed'
    BY <1>1, <1>2, <1>3, <2>1, <2>4, Target DEF Armed, AddInProgress
  <2>6. Elsewhere'
    BY <1>1, <1>3, <2>1 DEF MainInv, Elsewhere
  <2> QED
    BY <1>1, <1>2, <2>2, <2>3, <2>5, <2>6 DEF MainInv, Before
<1> QED
  BY <1>4, <1>5, <1>6

\* The sweep finds the breakpoint where it begins, and after that nothing but
\* the end.
LEMMA MainSweep ==
  ASSUME MainInv, SweepStop \/ SweepSkip \/ SweepFound, UNCHANGED <<phase, set>>
  PROVE  MainInv'
<1> DEFINE C == Code[CodeStart]
<1>1. CodeStart' = CodeStart /\ UNCHANGED <<phase, offsets, vm_calls, hooks>>
  BY DEF CodeStart, set
<1>2. /\ agent.pc = "sweep" /\ phase = "removing" /\ agent.all = TRUE
      /\ \/ agent.addr = CodeStart /\ Armed
         \/ CodeStart < agent.addr /\ Restored
  <2>1. agent.pc = "sweep"
    BY DEF SweepStop, SweepSkip, SweepFound
  <2>2. phase \in {"wait_home", "removing"}
    BY <2>1, AgentPlaces
  <2>3. ~AddInProgress
    BY <2>1 DEF AddInProgress
  <2>4. phase = "removing"
    BY <2>1, <2>2, <2>3 DEF MainInv
  <2> QED
    BY <2>1, <2>4 DEF MainInv, RemovalInProgress
<1>3. /\ TypeOK /\ Elsewhere /\ agent \in AgentType /\ agent.addr \in Address
      /\ raced \in SUBSET Maps
      /\ memory \in [Address -> Byte]
      /\ original_bytecodes \in [Address -> Byte \cup {Absent}]
      /\ breakpoint_callbacks \in [Address -> Callbacks \cup {Empty, Absent}]
  BY DEF MainInv, TypeOK, AgentType
<1>4. CASE SweepStop
  <2>1. Restored
    BY <1>2, <1>4 DEF SweepStop, AtEnd, Armed, breakpoint, invalid
  <2>2. agent' = Idle /\ UNCHANGED <<memory, maps, pc, hit, raced>>
    BY <1>4 DEF SweepStop
  <2>3. agent' \in AgentType /\ agent'.pc = "idle"
    BY <2>2, Addresses DEF Idle, AgentType, AgentPc, Byte, nop
  <2>4. TypeOK'
    BY <1>3, <2>2, <2>3, TypeRest DEF maps
  <2>5. Elsewhere'
    BY <1>1, <1>3, <2>2 DEF Elsewhere, maps
  <2> QED
    BY <1>1, <1>2, <2>1, <2>2, <2>3, <2>4, <2>5
       DEF MainInv, Before, RemovalInProgress, Restored
<1>5. CASE SweepSkip
  <2>1. CodeStart < agent.addr /\ Restored
    <3>1. CASE agent.addr = CodeStart /\ Armed
      <4>1. ~Registered(CodeStart) \/ BusyForAgent("original_bytecodes")
        BY <1>5, <3>1 DEF SweepSkip
      <4> QED
        BY <1>2, <3>1, <4>1, ArmedClosed DEF Registered
    <3> QED
      BY <1>2, <3>1
  <2>2. agent.addr # CodeEnd
    BY <1>5, <2>1, Addresses DEF SweepSkip, AtEnd, Restored
  <2>3. agent.addr + 1 \in Address /\ CodeStart < agent.addr + 1
    BY <1>3, <2>1, <2>2, Addresses, Target DEF Address
  <2>4. /\ agent' = [agent EXCEPT !.addr = agent.addr + 1]
        /\ UNCHANGED <<memory, maps, pc, hit>> /\ raced' \in SUBSET Maps
    BY <1>3, <1>5 DEF SweepSkip, Access, Maps
  <2>5. agent' \in AgentType /\ agent'.addr = agent.addr + 1
        /\ agent'.pc = "sweep" /\ agent'.all = TRUE
    BY <1>2, <1>3, <2>3, <2>4 DEF AgentType
  <2>6. TypeOK'
    BY <1>3, <2>4, <2>5, TypeRest DEF maps
  <2>7. Elsewhere'
    BY <1>1, <1>3, <2>4 DEF Elsewhere, maps
  <2> QED
    BY <1>1, <1>2, <2>1, <2>3, <2>4, <2>5, <2>6, <2>7
       DEF MainInv, Before, RemovalInProgress, Restored
<1>6. CASE SweepFound
  <2>1. agent.addr = CodeStart /\ Armed
    <3>1. original_bytecodes[agent.addr] # Absent
      BY <1>6 DEF SweepFound, Registered
    <3>2. agent.addr = CodeStart
      BY <1>3, <3>1 DEF Elsewhere
    <3> QED
      BY <1>2, <3>2, Target DEF Address
  <2>2. /\ agent' = [agent EXCEPT !.pc = "remove_original", !.byte = C]
        /\ Uncover(CodeStart)
        /\ UNCHANGED <<memory, maps, pc>> /\ raced' \in SUBSET Maps
    BY <1>3, <1>6, <2>1 DEF SweepFound, Access, Maps, Armed
  <2>3. /\ agent' \in AgentType /\ agent'.addr = CodeStart /\ agent'.byte = C
        /\ agent'.pc = "remove_original" /\ agent'.all = TRUE
    <3>1. "remove_original" \in AgentPc /\ C \in Byte
      BY Target DEF AgentPc
    <3> QED
      BY <1>2, <1>3, <2>1, <2>2, <3>1 DEF AgentType
  <2>4. /\ hit' \in [Threads -> HitType]
        /\ \A t \in Threads : hit'[t].bcp = hit[t].bcp /\ hit'[t].rbx = hit[t].rbx
    BY <1>3, <2>2, Target, UncoverType DEF TypeOK
  <2>5. TypeOK'
    BY <1>3, <2>2, <2>3, <2>4 DEF TypeOK, maps
  <2>6. Elsewhere'
    BY <1>1, <1>3, <2>2, <2>4 DEF Elsewhere, maps
  <2> QED
    BY <1>1, <1>2, <2>3, <2>5, <2>6 DEF MainInv, Before, RemovalInProgress
<1> QED
  BY <1>4, <1>5, <1>6

\* remove_breakpoint, called by the sweep, keeps the invariant.
LEMMA MainRemove ==
  ASSUME MainInv, RemoveOriginal \/ RemoveCallback \/ RemoveRestore,
         UNCHANGED <<phase, set>>
  PROVE  MainInv'
<1> DEFINE C == Code[CodeStart]
<1>1. CodeStart' = CodeStart /\ UNCHANGED <<phase, offsets, vm_calls, hooks>>
  BY DEF CodeStart, set
<1>2. /\ phase = "removing" /\ agent.all = TRUE /\ agent.addr = CodeStart /\ agent.byte = C
      /\ agent.pc \in {"remove_original", "remove_callback", "remove_restore"}
  <2>1. agent.pc \in {"remove_original", "remove_callback", "remove_restore"}
    BY DEF RemoveOriginal, RemoveCallback, RemoveRestore
  <2>2. phase \in {"wait_home", "removing"}
    BY <2>1, AgentPlaces
  <2>3. ~AddInProgress
    BY <2>1 DEF AddInProgress
  <2>4. phase = "removing"
    BY <2>1, <2>2, <2>3 DEF MainInv
  <2> QED
    BY <2>1, <2>4 DEF MainInv, RemovalInProgress
<1>3. /\ TypeOK /\ Elsewhere /\ agent \in AgentType /\ raced \in SUBSET Maps
      /\ memory \in [Address -> Byte]
      /\ original_bytecodes \in [Address -> Byte \cup {Absent}]
      /\ breakpoint_callbacks \in [Address -> Callbacks \cup {Empty, Absent}]
  BY DEF MainInv, TypeOK
<1>4. CASE RemoveOriginal
  <2>1. /\ original_bytecodes' = [original_bytecodes EXCEPT ![CodeStart] = Absent]
        /\ UNCHANGED <<memory, breakpoint_callbacks, bytecode_offsets, pc, hit>>
        /\ agent' = [agent EXCEPT !.pc = "remove_callback"] /\ raced' \in SUBSET Maps
    BY <1>2, <1>3, <1>4 DEF RemoveOriginal, Access, Maps
  <2>2. /\ agent' \in AgentType /\ agent'.pc = "remove_callback" /\ agent'.all = TRUE
        /\ agent'.addr = CodeStart /\ agent'.byte = C
    BY <1>2, <1>3, <2>1 DEF AgentType, AgentPc
  <2>3. TypeOK'
    BY <1>3, <2>1, <2>2, TypeRest
  <2>4. Elsewhere'
    BY <1>1, <1>3, <2>1 DEF Elsewhere
  <2> QED
    BY <1>1, <1>2, <2>2, <2>3, <2>4 DEF MainInv, Before, RemovalInProgress
<1>5. CASE RemoveCallback
  <2>1. /\ breakpoint_callbacks' = [breakpoint_callbacks EXCEPT ![CodeStart] = Absent]
        /\ UNCHANGED <<memory, original_bytecodes, bytecode_offsets, pc, hit, raced>>
        /\ agent' = [agent EXCEPT !.pc = "remove_restore"]
    BY <1>2, <1>5 DEF RemoveCallback
  <2>2. /\ agent' \in AgentType /\ agent'.pc = "remove_restore" /\ agent'.all = TRUE
        /\ agent'.addr = CodeStart /\ agent'.byte = C
    BY <1>2, <1>3, <2>1 DEF AgentType, AgentPc
  <2>3. TypeOK'
    BY <1>3, <2>1, <2>2, TypeRest
  <2>4. Elsewhere'
    BY <1>1, <1>3, <2>1 DEF Elsewhere
  <2> QED
    BY <1>1, <1>2, <2>2, <2>3, <2>4 DEF MainInv, Before, RemovalInProgress
<1>6. CASE RemoveRestore
  <2>1. /\ memory' = [memory EXCEPT ![CodeStart] = C]
        /\ UNCHANGED <<maps, pc, hit, raced>>
        /\ agent' = [Idle EXCEPT !.pc = "sweep", !.addr = CodeStart + 1, !.all = TRUE]
    BY <1>2, <1>6 DEF RemoveRestore
  <2>2. /\ agent' \in AgentType /\ agent'.pc = "sweep" /\ agent'.all = TRUE
        /\ agent'.addr = CodeStart + 1
    <3>1. "sweep" \in AgentPc /\ CodeStart + 1 \in Address /\ Idle \in AgentType
      BY Target, Addresses DEF AgentPc, Idle, AgentType, Byte, nop
    <3> QED
      BY <2>1, <3>1 DEF AgentType
  <2>3. CodeStart < agent'.addr
    BY <2>2, Target DEF Address
  <2>4. memory' = Code
    <3>1. \A a \in Address : memory'[a] = Code[a]
      BY <1>3, <2>1 DEF Elsewhere
    <3> QED
      BY <1>3, <2>1, <3>1, Addresses
  <2>5. TypeOK'
    BY <1>3, <2>1, <2>2, <2>4, Addresses, TypeRest DEF maps
  <2>6. Elsewhere'
    BY <1>1, <1>3, <2>1, <2>4 DEF Elsewhere, maps
  <2> QED
    BY <1>1, <1>2, <2>2, <2>3, <2>4, <2>5, <2>6
       DEF MainInv, Before, RemovalInProgress, Restored
<1> QED
  BY <1>4, <1>5, <1>6

\* What a step that leaves the registry and the offsets alone has to show.
LEMMA MainMoves ==
  ASSUME MainInv, UNCHANGED vars, UNCHANGED offsets, phase' \in Phase,
         phase' \in Before => phase \in Before,
         phase' = "wait_home" => phase = "wait_home",
         phase' = "removing" => phase = "removing",
         phase' \in {"wait_insert", "unloaded", "crashed"} =>
           \/ phase \in Before \cup {"wait_insert", "unloaded", "crashed"}
           \/ phase = "removing" /\ agent.pc = "idle"
  PROVE  MainInv'
<1>1. CodeStart' = CodeStart
  BY DEF CodeStart
<1>2. TypeOK'
  BY DEF MainInv, TypeOK, vars
<1>3. Elsewhere'
  BY <1>1 DEF MainInv, Elsewhere, vars
<1>4. Fresh => Fresh'
  BY DEF Fresh, Restored, Quiet, vars
<1>5. Armed => Armed'
  BY <1>1 DEF Armed, Working, vars
<1>6. AddInProgress => AddInProgress'
  BY <1>1 DEF AddInProgress, Restored, Quiet, vars
<1>7. Restored => Restored'
  BY DEF Restored, vars
<1>8. RemovalInProgress => RemovalInProgress'
  BY <1>1, <1>5, <1>7 DEF RemovalInProgress, vars
<1>9. phase \in Before => agent.pc = "idle" /\ Restored
  BY DEF MainInv, Fresh, Idle
<1>10. phase = "removing" /\ agent.pc = "idle" => Restored
  BY DEF MainInv, RemovalInProgress
<1>11. agent' = agent
  BY DEF vars
<1> QED
  BY <1>2, <1>3, <1>4, <1>5, <1>6, <1>7, <1>8, <1>9, <1>10, <1>11 DEF MainInv

\* main_thread outside the calls of the API.
LEMMA MainOwn ==
  ASSUME MainInv,
         \/ JavaInterop \/ HookOriginal \/ HookBreakpoint \/ FindClass \/ FindStaticMethod
         \/ RemovalReturns \/ Fails \/ PressInsert \/ (\E t \in Threads : Faults(t))
  PROVE  MainInv'
<1>1. CASE JavaInterop \/ HookOriginal \/ HookBreakpoint \/ FindClass \/ FindStaticMethod
  BY <1>1, MainMoves DEF JavaInterop, HookOriginal, HookBreakpoint, FindClass,
     FindStaticMethod, Goes, Before, Phase, set
<1>2. CASE RemovalReturns \/ PressInsert
  BY <1>2, MainMoves DEF RemovalReturns, PressInsert, Goes, Before, Phase, set
<1>3. CASE Fails
  BY <1>3, MainMoves DEF Fails, Goes, Before, Phase, set
<1>4. CASE \E t \in Threads : Faults(t)
  <2>1. phase = "unloaded" /\ phase' = "crashed" /\ UNCHANGED <<vars, set>>
    BY <1>4 DEF Faults
  <2> QED
    BY <2>1, MainMoves DEF Before, Phase, set
<1> QED
  BY <1>1, <1>2, <1>3, <1>4

\* setup decides which address is CodeStart; whichever it is, it is untouched.
LEMMA MainSetup ==
  ASSUME MainInv, NEW vm \in Machines, SetupStops(vm) \/ SetupScans(vm)
  PROVE  MainInv'
<1>1. Fresh /\ UNCHANGED vars /\ phase' \in {"wait_insert", "crashed", "hook_original"}
  BY DEF SetupStops, SetupScans, MainInv, Before
<1>2. offsets'.bytecode_start \in Byte
  <2>1. CASE SetupStops(vm)
    <3>1. \/ offsets' = offsets
          \/ offsets' = [bytecode_start |-> FindBytecodeStartOffset(vm.entry),
                         thread |-> offsets.thread]
      BY <2>1 DEF SetupStops
    <3>2. FindBytecodeStartOffset(vm.entry) \in Byte
      BY MainAssumption DEF MainAssumption
    <3> QED
      BY <3>1, <3>2 DEF MainInv
  <2>2. CASE SetupScans(vm)
    BY <2>2, MainAssumption DEF MainAssumption, SetupScans, MainInv
  <2> QED
    BY <2>1, <2>2
<1>3. TypeOK'
  BY <1>1 DEF MainInv, TypeOK, vars
<1>4. Fresh'
  BY <1>1 DEF Fresh, Restored, Quiet, vars
<1>5. Elsewhere'
  BY <1>4 DEF Fresh, Restored, Quiet, Elsewhere
<1>6. agent'.pc = "idle" /\ Restored'
  BY <1>4 DEF Fresh, Idle
<1> QED
  BY <1>1, <1>2, <1>3, <1>4, <1>5, <1>6 DEF MainInv, Phase

\* add_breakpoint of the one breakpoint begins.
LEMMA MainSet ==
  ASSUME MainInv, SetBreakpoint
  PROVE  MainInv'
<1> DEFINE C == Code[CodeStart]
<1>1. /\ CodeStart' = CodeStart /\ UNCHANGED <<offsets, vm_calls, hooks>>
      /\ phase = "set_breakpoint" /\ phase' = "wait_home"
      /\ AddBreakpoint(CodeStart, Printf)
  BY DEF SetBreakpoint, Goes, CodeStart, set
<1>2. Fresh
  BY <1>1 DEF MainInv, Before
<1>3. /\ agent' = [Idle EXCEPT !.pc = "add_original", !.addr = CodeStart, !.byte = C,
                               !.callback = Printf]
      /\ UNCHANGED <<memory, maps, pc, hit, raced>>
  BY <1>1, <1>2, QuietClosed DEF Fresh, Restored, AddBreakpoint, SavedByte, Access
<1>4. /\ agent' \in AgentType /\ agent'.pc = "add_original" /\ agent'.addr = CodeStart
      /\ agent'.byte = C /\ agent'.callback = Printf /\ agent'.all = FALSE
  <2>1. "add_original" \in AgentPc /\ CodeStart \in Address /\ C \in Byte
        /\ Printf \in Callbacks /\ Idle \in AgentType
    BY Target, Addresses DEF AgentPc, Idle, AgentType, Byte, nop
  <2> QED
    BY <1>3, <2>1 DEF AgentType, Idle
<1>5. TypeOK'
  BY <1>3, <1>4, TypeRest DEF MainInv, TypeOK, maps
<1>6. AddInProgress'
  BY <1>1, <1>2, <1>3, <1>4 DEF Fresh, AddInProgress, Restored, Quiet
<1>7. Elsewhere'
  BY <1>1, <1>3 DEF MainInv, Elsewhere, maps
<1> QED
  BY <1>1, <1>5, <1>6, <1>7 DEF MainInv, Before, Phase

\* remove_all_breakpoints begins where the breakpoint is.
LEMMA MainHome ==
  ASSUME MainInv, PressHome
  PROVE  MainInv'
<1>1. /\ CodeStart' = CodeStart /\ UNCHANGED <<offsets, vm_calls, hooks>>
      /\ phase = "wait_home" /\ phase' = "removing" /\ agent.pc = "idle"
      /\ RemoveAllBreakpoints(CodeStart)
  BY DEF PressHome, Goes, CodeStart, set
<1>2. Armed
  BY <1>1 DEF MainInv, AddInProgress
<1>3. /\ agent' = [Idle EXCEPT !.pc = "sweep", !.addr = CodeStart, !.all = TRUE]
      /\ UNCHANGED <<memory, maps, pc, hit, raced>>
  BY <1>1 DEF RemoveAllBreakpoints
<1>4. /\ agent' \in AgentType /\ agent'.pc = "sweep" /\ agent'.addr = CodeStart
      /\ agent'.all = TRUE
  <2>1. "sweep" \in AgentPc /\ CodeStart \in Address /\ Idle \in AgentType
    BY Target, Addresses DEF AgentPc, Idle, AgentType, Byte, nop
  <2> QED
    BY <1>3, <2>1 DEF AgentType
<1>5. TypeOK'
  BY <1>3, <1>4, TypeRest DEF MainInv, TypeOK, maps
<1>6. Armed'
  BY <1>1, <1>2, <1>3 DEF Armed, Working, maps
<1>7. Elsewhere'
  BY <1>1, <1>3 DEF MainInv, Elsewhere, maps
<1> QED
  BY <1>1, <1>4, <1>5, <1>6, <1>7 DEF MainInv, Before, Phase, RemovalInProgress

\* The initial state has the invariant.
LEMMA MainStart == MainInit => MainInv
<1> SUFFICES ASSUME MainInit PROVE MainInv
  OBVIOUS
<1>1. TypeOK
  BY TypeInit DEF MainInit, TypeInv
<1>2. Fresh
  BY DEF MainInit, Init, Fresh, Restored, Quiet
<1>3. Elsewhere
  BY <1>2 DEF Fresh, Restored, Quiet, Elsewhere
<1>4. phase = "attach" /\ phase \in Phase /\ offsets.bytecode_start \in Byte
  BY DEF MainInit, Phase, Byte
<1> QED
  BY <1>1, <1>2, <1>3, <1>4 DEF MainInv

\* Every step of the DLL or of a Java thread keeps the invariant.
LEMMA MainKept == MainInv /\ [MainNext]_mainVars => MainInv'
<1> SUFFICES ASSUME MainInv, [MainNext]_mainVars PROVE MainInv'
  OBVIOUS
<1>1. CASE MainStep
  <2>1. InCall => MainInv'
    BY MainAdd, MainRemove, MainSweep DEF InCall, AgentStep
  <2> QED
    BY <1>1, <2>1, MainOwn, MainSetup, MainSet DEF MainStep
<1>2. CASE Fails \/ PressHome \/ PressInsert
  BY <1>2, MainOwn, MainHome
<1>3. CASE \E t \in Threads : JavaFetch(t) \/ JavaHandler(t) \/ Faults(t)
  <2>1. ASSUME NEW t \in Threads, JavaFetch(t) \/ JavaHandler(t)
        PROVE  MainInv'
    BY <2>1, MainJava DEF JavaFetch, JavaHandler, ThreadStep
  <2> QED
    BY <1>3, <2>1, MainOwn
<1>4. CASE UNCHANGED mainVars
  <2>1. phase \in Phase
    BY DEF MainInv
  <2>2. UNCHANGED <<vars, phase, offsets>>
    BY <1>4 DEF mainVars
  <2> QED
    BY <2>1, <2>2, MainMoves
<1> QED
  BY <1>1, <1>2, <1>3, <1>4 DEF MainNext

\* It holds in every state the process can reach.
LEMMA MainInvariant == MainSpec => []MainInv
BY MainStart, MainKept, PTL DEF MainSpec

-----------------------------------------------------------------------------
(* What follows from it *)

\* main_thread and the call of the API it makes fit together, for every method
\* and every outcome of the look-ups (main.cpp, breakpoints.cpp).
THEOREM MainTypeCorrect == MainSpec => []MainTypeOK
<1>1. MainInv => MainTypeOK
  BY AgentPlaces DEF MainInv, MainTypeOK
<1> QED
  BY MainInvariant, <1>1, PTL

\* For every number of Java threads: while the breakpoint of the DLL is armed
\* every hit dispatches the original opcode, is told it, and runs print_callback.
\* No race is excused: there is none to be excused.
THEOREM BreakpointCorrect == MainSpec => []BreakpointWorks
<1>1. MainInv => BreakpointWorks
  <2> SUFFICES ASSUME MainInv, phase = "wait_home", NEW t \in Threads
               PROVE  /\ hit[t].rbx # Absent => hit[t].rbx = Code[hit[t].bcp]
                      /\ hit[t].opcode # Absent => hit[t].opcode = Code[hit[t].bcp]
                      /\ pc[t] \in {"callback", "dispatch"} => hit[t].callback = Printf
    BY DEF BreakpointWorks
  <2>1. CASE AddInProgress
    BY <2>1 DEF AddInProgress, Quiet, NoHit
  <2>2. CASE Armed
    <3>1. Working(t)
      BY <2>2 DEF Armed
    <3> QED
      BY <3>1 DEF Working
  <2> QED
    BY <2>1, <2>2 DEF MainInv
<1> QED
  BY MainInvariant, <1>1, PTL

\* The registry is first raced on when HOME has been pressed.
THEOREM RacesCorrect == MainSpec => []RegistryRacesOnlyInRemoval
<1>1. MainInv => RegistryRacesOnlyInRemoval
  BY DEF MainInv, Phase, Before, Fresh, AddInProgress, Armed, RegistryRacesOnlyInRemoval
<1> QED
  BY MainInvariant, <1>1, PTL

\* The module never leaves a changed byte behind: not after a failure, and not
\* after a removal that Java threads have raced on.
THEOREM UnloadCorrect == MainSpec => []UnloadRestoresCode
<1>1. MainInv => UnloadRestoresCode
  BY DEF MainInv, Restored, UnloadRestoresCode
<1> QED
  BY MainInvariant, <1>1, PTL

\* What the registry can still hold of the breakpoint, and what hits have got of it.
LateRegistry ==
  /\ original_bytecodes[CodeStart] \in {Absent, nop, Code[CodeStart]}
  /\ breakpoint_callbacks[CodeStart] \in {Absent, Empty, Printf}

LateHit(t) ==
  /\ hit[t].rbx \in {Absent, nop, Code[CodeStart]}
  /\ hit[t].rbx # Absent => hit[t].bcp = CodeStart
  /\ pc[t] \in {"find", "index", "insert_opcode", "offsets", "insert_offset", "callback"} =>
       hit[t].callback = Printf

LateInv == LateRegistry /\ \A t \in Threads : LateHit(t)

\* Before the registry is used there is nothing to show.
LEMMA LateFresh == ASSUME Fresh PROVE LateInv
<1>1. LateRegistry
  BY Target DEF Fresh, LateRegistry
<1>2. \A t \in Threads : LateHit(t)
  BY DEF Fresh, Quiet, NoHit, LateHit
<1> QED
  BY <1>1, <1>2 DEF LateInv

\* The agent gives the registry the original opcode and print_callback, or takes
\* them away.
LEMMA LateAgent ==
  ASSUME MainInv, LateInv, AgentStep, CodeStart' = CodeStart
  PROVE  LateInv'
<1>1. CASE AddOriginal \/ AddCallback \/ AddArm
  <2>1. agent.pc \in {"add_original", "add_callback", "add_arm"}
    BY <1>1 DEF AddOriginal, AddCallback, AddArm
  <2>2. AddInProgress
    <3>1. phase \in {"wait_home", "removing"} /\ ~RemovalInProgress
      BY <2>1, AgentPlaces DEF RemovalInProgress
    <3> QED
      BY <2>1, <3>1 DEF MainInv
  <2>3. /\ agent.addr = CodeStart /\ agent.byte = Code[CodeStart] /\ agent.callback = Printf
        /\ original_bytecodes \in [Address -> Byte \cup {Absent}]
        /\ breakpoint_callbacks \in [Address -> Callbacks \cup {Empty, Absent}]
    BY <2>2 DEF AddInProgress, MainInv, TypeOK
  <2>4. UNCHANGED <<pc, hit>>
    BY <1>1 DEF AddOriginal, AddCallback, AddArm
  <2>5. LateRegistry'
    BY <1>1, <2>3, Target DEF AddOriginal, AddCallback, AddArm, Assigned, maps, LateInv, LateRegistry
  <2> QED
    BY <2>4, <2>5 DEF LateInv, LateHit
<1>2. CASE RemoveOriginal \/ RemoveCallback \/ RemoveRestore \/ SweepStop \/ SweepSkip
  <2>1. /\ UNCHANGED <<pc, hit>>
        /\ \/ original_bytecodes' = original_bytecodes
           \/ original_bytecodes' = [original_bytecodes EXCEPT ![agent.addr] = Absent]
        /\ \/ breakpoint_callbacks' = breakpoint_callbacks
           \/ breakpoint_callbacks' = [breakpoint_callbacks EXCEPT ![agent.addr] = Absent]
    BY <1>2 DEF RemoveOriginal, RemoveCallback, RemoveRestore, SweepStop, SweepSkip, maps
  <2>2. /\ original_bytecodes \in [Address -> Byte \cup {Absent}]
        /\ breakpoint_callbacks \in [Address -> Callbacks \cup {Empty, Absent}]
    BY DEF MainInv, TypeOK
  <2>3. LateRegistry'
    BY <2>1, <2>2, Target DEF LateInv, LateRegistry
  <2> QED
    BY <2>1, <2>3 DEF LateInv, LateHit
<1>3. CASE SweepFound
  <2>1. /\ hit \in [Threads -> HitType] /\ agent.addr \in Address
        /\ UNCHANGED <<original_bytecodes, breakpoint_callbacks, pc>> /\ Uncover(agent.addr)
    BY <1>3 DEF MainInv, TypeOK, AgentType, SweepFound, maps
  <2>2. \A t \in Threads : /\ hit'[t].bcp = hit[t].bcp /\ hit'[t].rbx = hit[t].rbx
                           /\ hit'[t].callback = hit[t].callback
    BY <2>1, UncoverType
  <2> QED
    BY <2>1, <2>2 DEF LateInv, LateRegistry, LateHit
<1> QED
  BY <1>1, <1>2, <1>3 DEF AgentStep

\* A handler finds what the agent left, or inserts 0 and an empty function.
LEMMA LateThread ==
  ASSUME MainInv, LateInv, NEW t \in Threads, ThreadStep(t), CodeStart' = CodeStart
  PROVE  LateInv'
<1> DEFINE h == hit[t]
           C == Code[CodeStart]
<1>0. /\ hit \in [Threads -> HitType] /\ pc \in [Threads -> ThreadPc] /\ h \in HitType
      /\ pc[t] # "run" => h.bcp = CodeStart
      /\ original_bytecodes \in [Address -> Byte \cup {Absent}]
      /\ breakpoint_callbacks \in [Address -> Callbacks \cup {Empty, Absent}]
      /\ LateRegistry /\ LateHit(t)
      /\ Printf # Empty /\ Printf # Absent /\ Empty # Absent /\ nop # Absent /\ C # Absent
  BY Target, NotAByte, ValueAssumption
     DEF MainInv, TypeOK, Elsewhere, LateInv, ValueAssumption, Byte, nop
<1>1. Local(t)
  BY JavaMeets, ThreadLocal
<1> SUFFICES LateHit(t)' /\ LateRegistry'
  BY <1>1 DEF LateInv, LateHit, Local, OthersKept
<1>2. CASE Fetch(t)
  <2>1. PICK a \in Entry : hit' = [hit EXCEPT ![t] = NewHit(a, ~Removing(a))]
    BY <1>2 DEF Fetch
  <2>2. hit'[t].rbx = Absent /\ pc'[t] = "get_original"
    BY <1>0, <1>2, <2>1 DEF Fetch, NewHit, NoHit
  <2> QED
    BY <1>0, <1>2, <2>2 DEF Fetch, LateHit, LateRegistry, maps
<1>3. CASE OriginalBytecodeHandler(t)
  <2>1. CASE /\ original_bytecodes[CodeStart] # Absent
             /\ hit' = [hit EXCEPT ![t].rbx = original_bytecodes[CodeStart]]
             /\ pc' = [pc EXCEPT ![t] = "breakpoint"]
    <3>1. /\ hit'[t].rbx = original_bytecodes[CodeStart] /\ hit'[t].bcp = h.bcp
          /\ pc'[t] = "breakpoint"
      BY <1>0, <2>1 DEF HitType
    <3> QED
      BY <1>0, <1>3, <3>1 DEF OriginalBytecodeHandler, LateHit, LateRegistry, maps
  <2>2. CASE pc' = [pc EXCEPT ![t] = "insert_original"] /\ UNCHANGED hit
    BY <1>0, <1>3, <2>2 DEF OriginalBytecodeHandler, LateHit, LateRegistry, maps
  <2> QED
    BY <1>0, <1>3, <2>1, <2>2 DEF OriginalBytecodeHandler
<1>4. CASE OriginalInserted(t)
  <2>1. hit'[t].rbx = nop /\ hit'[t].bcp = h.bcp /\ pc'[t] = "breakpoint"
    BY <1>0, <1>4 DEF OriginalInserted, HitType
  <2>2. LateRegistry'
    BY <1>0, <1>4 DEF OriginalInserted, Inserted, LateRegistry
  <2> QED
    BY <1>0, <1>4, <2>1, <2>2 DEF OriginalInserted, LateHit
<1>5. CASE BreakpointHandler(t)
  <2>1. CASE /\ breakpoint_callbacks[CodeStart] # Absent
             /\ hit' = [hit EXCEPT ![t].callback = breakpoint_callbacks[CodeStart]]
             /\ pc' = [pc EXCEPT ![t] = IF breakpoint_callbacks[CodeStart] = Empty
                                        THEN "dispatch" ELSE "find"]
    <3>1. /\ hit'[t].callback = breakpoint_callbacks[CodeStart]
          /\ hit'[t].bcp = h.bcp /\ hit'[t].rbx = h.rbx
          /\ pc'[t] = IF breakpoint_callbacks[CodeStart] = Empty THEN "dispatch" ELSE "find"
      BY <1>0, <2>1 DEF HitType
    <3> QED
      BY <1>0, <1>5, <2>1, <3>1 DEF BreakpointHandler, LateHit, LateRegistry, maps
  <2>2. CASE pc' = [pc EXCEPT ![t] = "insert_callback"] /\ UNCHANGED hit
    BY <1>0, <1>5, <2>2 DEF BreakpointHandler, LateHit, LateRegistry, maps
  <2> QED
    BY <1>0, <1>5, <2>1, <2>2 DEF BreakpointHandler
<1>6. CASE CallbackInserted(t)
  <2>1. hit'[t].rbx = h.rbx /\ hit'[t].bcp = h.bcp /\ pc'[t] = "dispatch"
    BY <1>0, <1>6 DEF CallbackInserted, HitType
  <2>2. LateRegistry'
    BY <1>0, <1>6 DEF CallbackInserted, Inserted, LateRegistry
  <2> QED
    BY <1>0, <1>6, <2>1, <2>2 DEF CallbackInserted, LateHit
<1>7. ASSUME NEW opcode, GetOpcodeReturns(t, opcode),
             pc[t] \in {"find", "index", "insert_opcode"}
      PROVE  LateHit(t)'
  <2>1. hit'[t].rbx = h.rbx /\ hit'[t].bcp = h.bcp /\ hit'[t].callback = h.callback
    BY <1>0, <1>7 DEF GetOpcodeReturns, HitType
  <2> QED
    BY <1>0, <1>7, <2>1 DEF LateHit
<1>8. CASE GetOpcodeFind(t) \/ GetOpcodeIndex(t)
  <2>1. UNCHANGED maps /\ pc[t] \in {"find", "index"}
    BY <1>8 DEF GetOpcodeFind, GetOpcodeIndex
  <2>2. LateHit(t)'
    <3>1. CASE UNCHANGED hit /\ pc' \in {[pc EXCEPT ![t] = "index"], [pc EXCEPT ![t] = "insert_opcode"]}
      BY <1>0, <2>1, <3>1 DEF LateHit
    <3>2. CASE \E opcode : GetOpcodeReturns(t, opcode)
      BY <1>7, <2>1, <3>2
    <3> QED
      BY <1>8, <3>1, <3>2 DEF GetOpcodeFind, GetOpcodeIndex
  <2> QED
    BY <1>0, <2>1, <2>2 DEF LateRegistry, maps
<1>9. CASE GetOpcodeInserted(t)
  <2>1. LateRegistry'
    BY <1>0, <1>9 DEF GetOpcodeInserted, Inserted, LateRegistry
  <2> QED
    BY <1>7, <1>9, <2>1 DEF GetOpcodeInserted
<1>10. CASE StoreOffset(t) \/ OffsetInserted(t) \/ CallbackAsks(t) \/ CallbackReturns(t)
  <2>1. /\ hit'[t].rbx = h.rbx /\ hit'[t].bcp = h.bcp /\ hit'[t].callback = h.callback
        /\ UNCHANGED <<original_bytecodes, breakpoint_callbacks>>
        /\ pc[t] \in {"offsets", "insert_offset", "callback"}
    BY <1>0, <1>10 DEF StoreOffset, OffsetInserted, CallbackAsks, CallbackReturns, HitType, maps
  <2> QED
    BY <1>0, <2>1 DEF LateHit, LateRegistry
<1>11. CASE Dispatch(t)
  <2>1. hit'[t].rbx = Absent /\ pc'[t] \in {"run", "get_original"}
    <3>1. CASE hit' = [hit EXCEPT ![t] = NoHit] /\ pc' = [pc EXCEPT ![t] = "run"]
      <4>1. hit'[t] = NoHit /\ pc'[t] = "run"
        BY <1>0, <3>1
      <4> QED
        BY <4>1 DEF NoHit
    <3>2. CASE /\ hit' = [hit EXCEPT ![t] = NewHit(h.bcp, h.covered)]
               /\ pc' = [pc EXCEPT ![t] = "get_original"]
      <4>1. hit'[t] = NewHit(h.bcp, h.covered) /\ pc'[t] = "get_original"
        BY <1>0, <3>2
      <4> QED
        BY <4>1 DEF NewHit, NoHit
    <3> QED
      BY <1>11, <3>1, <3>2 DEF Dispatch
  <2> QED
    BY <1>0, <1>11, <2>1 DEF Dispatch, LateHit, LateRegistry, maps
<1> QED
  BY <1>2, <1>3, <1>4, <1>5, <1>6, <1>8, <1>9, <1>10, <1>11 DEF ThreadStep, HandlerStep

\* A thread that meets the breakpoint, in time or late, dispatches the original
\* opcode or 0 and runs print_callback or nothing, whatever is raced on.
THEOREM LateHitsCorrect == MainSpec => []LateHitsContained
<1>1. MainInit => LateInv
  BY LateFresh DEF MainInit, Init, Fresh, Restored, Quiet
<1>2. MainInv /\ MainInv' /\ LateInv /\ [MainNext]_mainVars => LateInv'
  <2> SUFFICES ASSUME MainInv, MainInv', LateInv, [MainNext]_mainVars PROVE LateInv'
    OBVIOUS
  <2>1. ASSUME UNCHANGED <<original_bytecodes, breakpoint_callbacks, pc, hit, offsets>>
        PROVE  LateInv'
    BY <2>1 DEF LateInv, LateRegistry, LateHit, CodeStart
  <2>2. ASSUME NEW vm \in Machines, SetupStops(vm) \/ SetupScans(vm)
        PROVE  LateInv'
    <3>1. Fresh
      BY <2>2 DEF SetupStops, SetupScans, MainInv, Before
    <3>2. Fresh'
      BY <2>2, <3>1 DEF SetupStops, SetupScans, Fresh, Restored, Quiet, vars
    <3>3. CodeStart' \in Address
      <4>1. CodeStart' \in {Start[TestMul], Header}
        BY DEF CodeStart
      <4> QED
        BY <4>1, Places
    <3>4. LateRegistry'
      BY <3>2, <3>3 DEF Fresh, LateRegistry
    <3> QED
      BY <3>2, <3>4 DEF Fresh, Quiet, NoHit, LateHit, LateInv
  <2>3. CASE JavaInterop \/ HookOriginal \/ HookBreakpoint \/ FindClass
               \/ FindStaticMethod \/ SetBreakpoint \/ RemovalReturns
               \/ Fails \/ PressHome \/ PressInsert \/ UNCHANGED mainVars
    BY <2>1, <2>3 DEF JavaInterop, HookOriginal, HookBreakpoint, FindClass,
       FindStaticMethod, SetBreakpoint, AddBreakpoint, RemovalReturns, Fails, PressHome,
       RemoveAllBreakpoints, PressInsert, mainVars, vars, maps, set
  <2>4. CASE InCall
    BY <2>4, LateAgent DEF InCall, CodeStart, set
  <2>5. CASE \E t \in Threads : JavaFetch(t) \/ JavaHandler(t)
    BY <2>5, LateThread DEF JavaFetch, JavaHandler, ThreadStep, CodeStart, set
  <2>6. CASE \E t \in Threads : Faults(t)
    BY <2>1, <2>6 DEF Faults, vars, set
  <2> QED
    BY <2>2, <2>3, <2>4, <2>5, <2>6 DEF MainNext, MainStep
<1>3. LateInv => LateHitsContained
  BY DEF LateInv, LateHit, LateHitsContained
<1> QED
  BY MainInvariant, <1>1, <1>2, <1>3, PTL DEF MainSpec

-----------------------------------------------------------------------------
(* The hooks *)

OriginalHook == <<Jvm.get_original_bytecode_at, "original_bytecode_handler">>
BreakpointHook == <<Jvm._breakpoint, "breakpoint_callback">>

\* What setup has found and hooked when main_thread is in each of its phases.
HookInv ==
  /\ phase \in {"attach", "setup", "hook_original"} => hooks = {}
  /\ phase \in {"hook_original", "hook_breakpoint"} =>
       vm_calls[1] = Jvm.get_original_bytecode_at /\ vm_calls[2] = Jvm._breakpoint
  /\ phase = "hook_breakpoint" => hooks = {OriginalHook}
  /\ phase \in {"find_class", "find_method", "set_breakpoint", "wait_home", "removing"} =>
       hooks = {OriginalHook, BreakpointHook}

\* If the signatures lead setup to the right functions, no byte of the code is
\* changed before both hooks are in.
THEOREM HooksCorrect ==
  ASSUME Recognised
  PROVE  MainSpec => []HooksBeforeArmed
<1>1. MainInit => HookInv
  BY DEF MainInit, HookInv
<1>2. HookInv /\ [MainNext]_mainVars => HookInv'
  <2> SUFFICES ASSUME HookInv, [MainNext]_mainVars PROVE HookInv'
    OBVIOUS
  <2>1. ASSUME NEW vm \in Machines, SetupStops(vm) \/ SetupScans(vm)
        PROVE  HookInv'
    <3>1. phase = "setup" /\ hooks' = {} /\ phase' \in {"wait_insert", "crashed", "hook_original"}
      BY <2>1 DEF SetupStops, SetupScans, HookInv
    <3>2. phase' = "hook_original" =>
            vm_calls'[1] = Jvm.get_original_bytecode_at /\ vm_calls'[2] = Jvm._breakpoint
      BY <2>1 DEF SetupStops, SetupScans, Recognised
    <3> QED
      BY <3>1, <3>2 DEF HookInv
  <2>2. CASE HookOriginal
    BY <2>2 DEF HookOriginal, Goes, HookInv, OriginalHook
  <2>3. CASE HookBreakpoint
    BY <2>3 DEF HookBreakpoint, Goes, HookInv, OriginalHook, BreakpointHook
  <2>4. CASE JavaInterop \/ FindClass \/ FindStaticMethod \/ SetBreakpoint
               \/ RemovalReturns \/ InCall
    BY <2>4 DEF JavaInterop, FindClass, FindStaticMethod, SetBreakpoint,
       RemovalReturns, InCall, Goes, HookInv, set
  <2>5. CASE Fails \/ PressHome \/ PressInsert
    BY <2>5 DEF Fails, PressHome, PressInsert, Goes, HookInv, set
  <2>6. CASE \E t \in Threads : JavaFetch(t) \/ JavaHandler(t) \/ Faults(t)
    BY <2>6 DEF JavaFetch, JavaHandler, Faults, HookInv, set
  <2>7. CASE UNCHANGED mainVars
    BY <2>7 DEF mainVars, HookInv
  <2> QED
    BY <2>1, <2>2, <2>3, <2>4, <2>5, <2>6, <2>7 DEF MainNext, MainStep
<1>3. MainInv /\ HookInv => HooksBeforeArmed
  <2> SUFFICES ASSUME MainInv, HookInv, memory # Code PROVE HooksBeforeArmed
    BY DEF HooksBeforeArmed
  <2>1. phase \in {"wait_home", "removing"}
    BY DEF MainInv, Phase, Before, Fresh, Restored
  <2> QED
    BY <2>1 DEF HookInv, HooksBeforeArmed, OriginalHook, BreakpointHook
<1> QED
  BY MainInvariant, <1>1, <1>2, <1>3, PTL DEF MainSpec

-----------------------------------------------------------------------------
(* The offsets *)

\* A set of natural numbers has a least one.
LEMMA LeastMember ==
  ASSUME NEW S \in SUBSET Nat, S # {}
  PROVE  Min(S) \in S
<1> DEFINE R == OpToRel(<, Nat)
<1>1. IsWellFoundedOn(R, Nat)
  BY NatLessThanWellFounded
<1>2. \A x, y \in Nat : y < x => <<y, x>> \in R
  BY DEF OpToRel
<1> HIDE DEF R
<1>3. PICK x \in S : \A y \in S : ~(<<y, x>> \in R)
  BY <1>1, WFMin
<1>4. ASSUME NEW y \in S PROVE x <= y
  <2>1. x \in Nat /\ y \in Nat /\ ~(y < x)
    BY <1>2, <1>3
  <2> QED
    BY <2>1
<1> QED
  BY <1>4 DEF Min

\* A scan fails or answers with an address at which the pattern matches.
LEMMA ScanFinds ==
  ASSUME NEW code, NEW pattern, NEW end \in Nat
  PROVE  \/ Scan(code, pattern, 1, end) = 0 /\ Found(code, pattern, 1, end) = {}
         \/ Scan(code, pattern, 1, end) # 0
              /\ Scan(code, pattern, 1, end) \in Found(code, pattern, 1, end)
<1> DEFINE found == Found(code, pattern, 1, end)
<1>1. found \in SUBSET Nat /\ 0 \notin found
  BY DEF Found
<1>2. Scan(code, pattern, 1, end) = IF found = {} THEN 0 ELSE Min(found)
  BY DEF Scan
<1> HIDE DEF found
<1>3. found # {} => Min(found) \in found
  BY <1>1, LeastMember
<1> QED
  BY <1>1, <1>2, <1>3 DEF found

\* Where the first scan fails there are no calls.
LEMMA NoCalls == ASSUME NEW code, FirstVmCall(code) = 0 PROVE Len(FindVmCalls(code)) = 0
<1>1. 1 + max_len \in Nat
  BY DEF max_len
<1>2. Found(code, CallPattern(code), 1, 1 + max_len) = {}
  BY <1>1, ScanFinds DEF FirstVmCall
<1>3. Cardinality({}) = 0
  BY FS_EmptySet
<1>4. DOMAIN VmCallAddrs(code) = {}
  BY <1>2, <1>3 DEF VmCallAddrs
<1>5. FindVmCalls(code) = <<>>
  BY <1>4 DEF FindVmCalls
<1> QED
  BY <1>5

\* The first match of the call signature gives the offsets of the thread.
LEMMA GenuineThread ==
  ASSUME SignaturesGenuine, NEW vm \in Machines, FirstVmCall(vm.template) # 0
  PROVE  ThreadOffsets(vm.template) = Jvm.thread
<1> DEFINE a == FirstVmCall(vm.template)
           found == Found(vm.template, CallPattern(vm.template), 1, 1 + max_len)
<1>1. 1 + max_len \in Nat
  BY DEF max_len
<1>2. a \in found
  BY <1>1, ScanFinds DEF FirstVmCall
<1>3. a \in Nat
  BY <1>1, <1>2 DEF Found
<1>4. a + 3 + 3 = a + 6 /\ a + 3 + 7 + 3 = a + 13
  BY <1>3
<1>5. Jvm.thread = [frame |-> Read(vm.template, a + 6, 4),
                    operand_stack |-> Read(vm.template, a + 13, 4)]
  BY <1>2 DEF SignaturesGenuine
<1> QED
  BY <1>4, <1>5 DEF ThreadOffsets

\* The bytecode offset is the right one, or 0 where the scan fails.
LEMMA GenuineStart ==
  ASSUME SignaturesGenuine, NEW vm \in Machines
  PROVE  FindBytecodeStartOffset(vm.entry) \in {0, Jvm.bytecode_start}
<1> DEFINE a == Scan(vm.entry, fixed_frame_entry, 1, 1 + \h100)
<1>0. 1 + \h100 \in Nat
  OBVIOUS
<1>1. a = 0 \/ a \in Found(vm.entry, fixed_frame_entry, 1, 1 + \h100)
  BY <1>0, ScanFinds
<1>2. a = 0 \/ vm.entry[a + 19] = Jvm.bytecode_start
  BY <1>1 DEF SignaturesGenuine
<1>3. a # 0 => a \in 1..(1 + \h100) - 1
  BY <1>1 DEF Found
<1>4. ASSUME NEW n \in 1..(1 + \h100) - 1 PROVE n + \h10 + 3 = n + 19
  OBVIOUS
<1>5. a # 0 => a + \h10 + 3 = a + 19
  <2> HIDE DEF a
  <2> QED
    BY <1>3, <1>4
<1> QED
  BY <1>2, <1>5 DEF FindBytecodeStartOffset

\* If the signatures match only where they should, setup never goes on with an
\* offset read in the wrong place: if no call was found it stops, and if the frame
\* entry was not, the offset of the bytecode is 0.
THEOREM OffsetsCorrect ==
  ASSUME SignaturesGenuine
  PROVE  MainSpec => []OffsetsFound
<1>1. MainInit => OffsetsFound
  BY DEF MainInit, OffsetsFound
<1>2. OffsetsFound /\ [MainNext]_mainVars => OffsetsFound'
  <2> SUFFICES ASSUME OffsetsFound, [MainNext]_mainVars PROVE OffsetsFound'
    OBVIOUS
  <2>1. ASSUME NEW vm \in Machines, SetupStops(vm) \/ SetupScans(vm)
        PROVE  OffsetsFound'
    <3>1. phase' \in {"wait_insert", "crashed", "hook_original"}
      BY <2>1 DEF SetupStops, SetupScans
    <3>2. ASSUME phase' = "hook_original"
          PROVE  /\ offsets'.bytecode_start = FindBytecodeStartOffset(vm.entry)
                 /\ offsets'.thread = IF FirstVmCall(vm.template) = 0 THEN offsets.thread
                                      ELSE ThreadOffsets(vm.template)
                 /\ ~(Len(FindVmCalls(vm.template)) < 2)
      BY <2>1, <3>2 DEF SetupStops, SetupScans
    <3>3. phase' = "hook_original" => FirstVmCall(vm.template) # 0
      BY <3>2, NoCalls
    <3>4. phase' = "hook_original" =>
            /\ offsets'.thread = Jvm.thread
            /\ offsets'.bytecode_start \in {0, Jvm.bytecode_start}
      BY <3>2, <3>3, GenuineThread, GenuineStart
    <3> QED
      BY <3>1, <3>4 DEF OffsetsFound
  <2>2. CASE HookOriginal \/ HookBreakpoint
    BY <2>2 DEF HookOriginal, HookBreakpoint, Goes, OffsetsFound
  <2>3. CASE JavaInterop \/ FindClass \/ FindStaticMethod \/ SetBreakpoint
               \/ RemovalReturns \/ InCall
    BY <2>3 DEF JavaInterop, FindClass, FindStaticMethod, SetBreakpoint,
       RemovalReturns, InCall, Goes, OffsetsFound, set
  <2>4. CASE Fails \/ PressHome \/ PressInsert
    BY <2>4 DEF Fails, PressHome, PressInsert, Goes, OffsetsFound, set
  <2>5. CASE \E t \in Threads : JavaFetch(t) \/ JavaHandler(t) \/ Faults(t)
    BY <2>5 DEF JavaFetch, JavaHandler, Faults, OffsetsFound, set
  <2>6. CASE UNCHANGED mainVars
    BY <2>6 DEF mainVars, OffsetsFound
  <2> QED
    BY <2>1, <2>2, <2>3, <2>4, <2>5, <2>6 DEF MainNext, MainStep
<1> QED
  BY <1>1, <1>2, PTL DEF MainSpec
=============================================================================
