--------------------------- MODULE BreakpointsProofs ---------------------------
(***************************************************************************)
(* Proofs about Breakpoints, for every number of threads, every code and    *)
(* every set of breakpoints.                                                *)
(***************************************************************************)
EXTENDS Breakpoints, TLAPS

-----------------------------------------------------------------------------
(* Types, for the client that may call anything *)

\* The invariant speaks of the addresses S that the client's calls name: Targets,
\* or Entry where the client is known to name instructions.  Outside S nothing is
\* written or registered; a call in progress works in S, only the sweep visits
\* every byte; and hits are in S, because elsewhere no opcode is an 0xCA.
Untouched(S) == \A a \in Address \ S : memory[a] = Code[a]
KeysWithin(S) == \A a \in Address \ S : original_bytecodes[a] = Absent
AgentWithin(S) == agent.pc \notin {"idle", "sweep"} => agent.addr \in S
HitsWithin(S) == \A t \in Threads : pc[t] # "run" => hit[t].bcp \in S

ClientInv(S) ==
  /\ TypeOK
  /\ Untouched(S)
  /\ KeysWithin(S)
  /\ AgentWithin(S)
  /\ HitsWithin(S)

\* What a client that names instructions can rely on.
OperandsIntact == \A a \in Address \ Entry : memory[a] = Code[a]
KeysAtEntries == \A a \in Address \ Entry : original_bytecodes[a] = Absent
AgentAtEntry == agent.pc \notin {"idle", "sweep"} => agent.addr \in Entry

TypeInv ==
  /\ TypeOK
  /\ OperandsIntact
  /\ KeysAtEntries
  /\ AgentAtEntry

LEMMA TypeIsClient == TypeInv <=> ClientInv(Entry)
BY DEF TypeInv, ClientInv, TypeOK, OperandsIntact, KeysAtEntries, AgentAtEntry,
       Untouched, KeysWithin, AgentWithin, HitsWithin

\* What the assumptions on the constants say of addresses.
LEMMA Addresses ==
  /\ 1 \in Address
  /\ CodeEnd \in Address \ Entry
  /\ Entry \subseteq Address
  /\ \A a \in Address : a # CodeEnd => a + 1 \in Address
  /\ Code \in [Address -> Byte]
  /\ Code[CodeEnd] = invalid
BY CodeAssumption DEF CodeAssumption, Address

\* Absent can be told from every byte.
LEMMA NotAByte == Absent \notin Byte
BY ValueAssumption DEF ValueAssumption, Byte

\* The initial state has its type.
LEMMA ClientInit == ASSUME NEW S, Init PROVE ClientInv(S)
<1>1. memory \in [Address -> Byte] /\ Untouched(S)
  BY Addresses DEF Init, Untouched
<1>2. agent \in AgentType
  BY Addresses DEF Init, Idle, AgentType, AgentPc, Byte, nop
<1>3. hit \in [Threads -> HitType]
  BY DEF Init, HitType, NoHit
<1>4. pc \in [Threads -> ThreadPc] /\ \A t \in Threads : pc[t] = "run"
  BY DEF Init, ThreadPc
<1>5. TypeOK
  BY <1>1, <1>2, <1>3, <1>4 DEF Init, TypeOK
<1>6. KeysWithin(S) /\ AgentWithin(S) /\ HitsWithin(S)
  BY <1>4 DEF Init, KeysWithin, AgentWithin, HitsWithin, Idle
<1> QED
  BY <1>1, <1>5, <1>6 DEF ClientInv

LEMMA TypeInit == Init => TypeInv
BY ClientInit, TypeIsClient

\* The records the agent starts a call and an iteration of the sweep with.
LEMMA AgentRecords ==
  ASSUME NEW p \in AgentPc, NEW a \in Address, NEW b \in Byte
  PROVE  LET call  == [Idle EXCEPT !.pc = p, !.addr = a, !.byte = b]
             empty == [Idle EXCEPT !.pc = p, !.addr = a]
             sweep == [Idle EXCEPT !.pc = p, !.addr = a, !.all = TRUE]
         IN  /\ Idle \in AgentType /\ Idle.pc = "idle"
             /\ call \in AgentType /\ empty \in AgentType
             /\ sweep \in AgentType /\ sweep.pc = p
<1>1. Idle \in AgentType
  BY Addresses DEF Idle, AgentType, AgentPc, Byte, nop
<1>2. [Idle EXCEPT !.pc = p, !.addr = a, !.byte = b] \in AgentType
  BY <1>1 DEF Idle, AgentType
<1>3. [Idle EXCEPT !.pc = p, !.addr = a] \in AgentType
  BY <1>1 DEF Idle, AgentType
<1>4. [Idle EXCEPT !.pc = p, !.addr = a, !.all = TRUE] \in AgentType
  BY <1>1 DEF Idle, AgentType
<1>5. Idle.pc = "idle" /\ [Idle EXCEPT !.pc = p, !.addr = a, !.all = TRUE].pc = p
  BY DEF Idle
<1> QED
  BY <1>1, <1>2, <1>3, <1>4, <1>5

\* Uncover changes the history field of a hit and nothing else.
LEMMA UncoverType ==
  ASSUME NEW a \in Address, hit \in [Threads -> HitType], Uncover(a)
  PROVE  /\ hit' \in [Threads -> HitType]
         /\ \A t \in Threads : /\ hit'[t].bcp = hit[t].bcp
                               /\ hit'[t].rbx = hit[t].rbx
                               /\ hit'[t].callback = hit[t].callback
                               /\ hit'[t].opcode = hit[t].opcode
                               /\ hit'[t].covered = (hit[t].covered /\ hit[t].bcp # a)
<1> DEFINE h(t) == IF hit[t].bcp = a THEN [hit[t] EXCEPT !.covered = FALSE] ELSE hit[t]
<1>1. hit' = [t \in Threads |-> h(t)]
  BY DEF Uncover
<1>2. ASSUME NEW t \in Threads
      PROVE  /\ h(t) \in HitType
             /\ h(t).bcp = hit[t].bcp /\ h(t).rbx = hit[t].rbx
             /\ h(t).callback = hit[t].callback /\ h(t).opcode = hit[t].opcode
             /\ h(t).covered = (hit[t].covered /\ hit[t].bcp # a)
  <2>1. hit[t] \in HitType
    OBVIOUS
  <2> QED
    BY <2>1 DEF HitType
<1> HIDE DEF h
<1> QED
  BY <1>1, <1>2

\* Every call on S, and every step of a call, keeps the invariant.
LEMMA ClientAgent ==
  ASSUME NEW S \in SUBSET (Address \ {CodeEnd}), ClientInv(S), Calls(S) \/ AgentStep
  PROVE  ClientInv(S)'
<1> USE Addresses DEF ClientInv, TypeOK, Untouched, KeysWithin, AgentWithin, HitsWithin
<1>1. ASSUME NEW a \in S, NEW callback \in Callbacks, AddBreakpoint(a, callback)
      PROVE  ClientInv(S)'
  BY <1>1 DEF AddBreakpoint, SavedByte, Idle, AgentType, AgentPc, Access, Maps, maps
<1>2. ASSUME NEW a \in S, RemoveBreakpoint(a)
      PROVE  ClientInv(S)'
  <2>1. /\ agent' \in AgentType
        /\ agent'.addr = a
    <3>1. /\ "remove_original" \in AgentPc /\ a \in Address /\ nop \in Byte
          /\ original_bytecodes[a] # Absent => original_bytecodes[a] \in Byte
      BY DEF AgentPc, Byte, nop
    <3>2. \/ /\ original_bytecodes[a] # Absent
             /\ agent' = [Idle EXCEPT !.pc = "remove_original", !.addr = a,
                                      !.byte = original_bytecodes[a]]
          \/ agent' = [Idle EXCEPT !.pc = "remove_original", !.addr = a]
      BY <1>2 DEF RemoveBreakpoint
    <3> HIDE DEF ClientInv, TypeOK, Untouched, KeysWithin, AgentWithin, HitsWithin
    <3>3. CASE /\ original_bytecodes[a] # Absent
               /\ agent' = [Idle EXCEPT !.pc = "remove_original", !.addr = a,
                                        !.byte = original_bytecodes[a]]
      <4>1. agent' \in AgentType
        BY <3>1, <3>3, AgentRecords
      <4> QED
        BY <3>3, <4>1 DEF Idle
    <3>4. CASE agent' = [Idle EXCEPT !.pc = "remove_original", !.addr = a]
      <4>1. agent' \in AgentType
        BY <3>1, <3>4, AgentRecords
      <4> QED
        BY <3>4, <4>1 DEF Idle
    <3> QED
      BY <3>2, <3>3, <3>4
  <2>2. /\ original_bytecodes' \in [Address -> Byte \cup {Absent}]
        /\ KeysWithin(S)'
    BY <1>2 DEF RemoveBreakpoint, Inserted, Byte, nop
  <2>3. hit' \in [Threads -> HitType] /\ \A t \in Threads : hit'[t].bcp = hit[t].bcp /\ hit'[t].rbx = hit[t].rbx
    BY <1>2, UncoverType DEF RemoveBreakpoint
  <2>4. UNCHANGED <<memory, breakpoint_callbacks, bytecode_offsets, pc>> /\ raced' \in SUBSET Maps
    BY <1>2 DEF RemoveBreakpoint, Access, Maps
  <2> QED
    BY <2>1, <2>2, <2>3, <2>4
<1>3. CASE AddOriginal
  BY <1>3 DEF AddOriginal, AgentType, AgentPc, Access, Maps, Assigned
<1>4. CASE AddCallback
  BY <1>4 DEF AddCallback, AgentType, AgentPc, Assigned
<1>5. CASE AddArm
  BY <1>5 DEF AddArm, AgentType, AgentPc, Idle, maps, breakpoint, Byte, nop
<1>6. CASE RemoveOriginal
  BY <1>6 DEF RemoveOriginal, AgentType, AgentPc, Access, Maps
<1>7. CASE RemoveCallback
  BY <1>7 DEF RemoveCallback, AgentType, AgentPc
<1>8. CASE RemoveRestore
  <2>1. agent.addr \in S /\ agent.byte \in Byte
    BY <1>8 DEF RemoveRestore, AgentType
  <2>2. agent' \in AgentType /\ agent'.pc \in {"idle", "sweep"}
    <3>1. "sweep" \in AgentPc /\ agent.addr + 1 \in Address /\ nop \in Byte
      BY <2>1 DEF AgentPc, Byte, nop
    <3>2. \/ agent' = [Idle EXCEPT !.pc = "sweep", !.addr = agent.addr + 1, !.all = TRUE]
          \/ agent' = Idle
      BY <1>8 DEF RemoveRestore
    <3> HIDE DEF ClientInv, TypeOK, Untouched, KeysWithin, AgentWithin, HitsWithin
    <3>3. CASE agent' = [Idle EXCEPT !.pc = "sweep", !.addr = agent.addr + 1, !.all = TRUE]
      BY <3>1, <3>3, AgentRecords
    <3>4. CASE agent' = Idle
      BY <3>1, <3>4, AgentRecords
    <3> QED
      BY <3>2, <3>3, <3>4
  <2>3. memory' \in [Address -> Byte] /\ Untouched(S)'
    BY <1>8, <2>1 DEF RemoveRestore
  <2> QED
    BY <1>8, <2>2, <2>3 DEF RemoveRestore, maps
<1>9. ASSUME NEW m \in Methods, RemoveAllBreakpoints(Start[m])
      PROVE  ClientInv(S)'
  <2>1. Start[m] \in Address
    BY CodeAssumption DEF CodeAssumption
  <2>2. agent' \in AgentType /\ agent'.pc = "sweep"
    <3>1. "sweep" \in AgentPc /\ nop \in Byte
      BY DEF AgentPc, Byte, nop
    <3>2. agent' = [Idle EXCEPT !.pc = "sweep", !.addr = Start[m], !.all = TRUE]
      BY <1>9 DEF RemoveAllBreakpoints
    <3> HIDE DEF ClientInv, TypeOK, Untouched, KeysWithin, AgentWithin, HitsWithin
    <3> QED
      BY <2>1, <3>1, <3>2, AgentRecords
  <2> QED
    BY <1>9, <2>2 DEF RemoveAllBreakpoints, maps
<1>10. CASE SweepStop
  BY <1>10 DEF SweepStop, AgentType, AgentPc, Idle, maps, Byte, nop, AtEnd
<1>11. CASE SweepSkip
  BY <1>11 DEF SweepSkip, AgentType, AgentPc, Access, Maps, maps, Registered, AtEnd
<1>12. CASE SweepFound
  <2>1. agent.addr \in S
    BY <1>12 DEF SweepFound, AgentType, Registered, AtEnd
  <2>2. agent' \in AgentType /\ agent'.addr = agent.addr
    BY <1>12, <2>1 DEF SweepFound, AgentType, AgentPc, Registered, AtEnd
  <2>3. hit' \in [Threads -> HitType] /\ \A t \in Threads : hit'[t].bcp = hit[t].bcp /\ hit'[t].rbx = hit[t].rbx
    BY <1>12, <2>1, UncoverType DEF SweepFound, Registered, AtEnd
  <2> QED
    BY <1>12, <2>1, <2>2, <2>3 DEF SweepFound, Access, Maps, maps, Registered, AtEnd
<1> QED
  BY <1>1, <1>2, <1>3, <1>4, <1>5, <1>6, <1>7, <1>8, <1>9, <1>10, <1>11, <1>12
     DEF Calls, AgentStep

\* The part of TypeOK that speaks of the Java threads.
HitsOK ==
  /\ pc \in [Threads -> ThreadPc]
  /\ hit \in [Threads -> HitType]
  /\ \A t \in Threads : pc[t] # "run" => hit[t].bcp \in Entry
  /\ \A t \in Threads :
       pc[t] \notin {"run", "get_original", "insert_original"} => hit[t].rbx \in Byte

\* A step that gives thread t the record r and the place p keeps HitsOK.
LEMMA HitsStep ==
  ASSUME HitsOK, NEW t \in Threads, NEW r \in HitType, NEW p \in ThreadPc,
         hit' = [hit EXCEPT ![t] = r], pc' = [pc EXCEPT ![t] = p],
         p # "run" => r.bcp \in Entry,
         p \notin {"run", "get_original", "insert_original"} => r.rbx \in Byte
  PROVE  HitsOK'
BY DEF HitsOK

\* A handler puts a byte in rbx.
LEMMA SetRbx ==
  ASSUME HitsOK, NEW t \in Threads, hit[t].bcp \in Entry, NEW p \in ThreadPc,
         NEW b \in Byte,
         hit' = [hit EXCEPT ![t].rbx = b], pc' = [pc EXCEPT ![t] = p]
  PROVE  HitsOK'
<1>1. [hit[t] EXCEPT !.rbx = b] \in HitType
  BY DEF HitsOK, HitType
<1>2. /\ hit'[t] = [hit[t] EXCEPT !.rbx = b]
      /\ hit'[t].bcp = hit[t].bcp
      /\ hit'[t].rbx = b
  BY <1>1 DEF HitsOK, HitType
<1> QED
  BY <1>1, <1>2 DEF HitsOK

\* breakpoint_handler keeps a copy of the callback.
LEMMA SetCallback ==
  ASSUME HitsOK, NEW t \in Threads, hit[t].bcp \in Entry, NEW p \in ThreadPc,
         NEW c \in Callbacks \cup {Empty},
         hit' = [hit EXCEPT ![t].callback = c], pc' = [pc EXCEPT ![t] = p],
         p \notin {"run", "get_original", "insert_original"} => hit[t].rbx \in Byte
  PROVE  HitsOK'
<1>1. [hit[t] EXCEPT !.callback = c] \in HitType
  BY DEF HitsOK, HitType
<1>2. /\ hit'[t] = [hit[t] EXCEPT !.callback = c]
      /\ hit'[t].bcp = hit[t].bcp
      /\ hit'[t].rbx = hit[t].rbx
  BY <1>1 DEF HitsOK, HitType
<1> QED
  BY <1>1, <1>2 DEF HitsOK

\* get_opcode hands a byte to the callback.
LEMMA SetOpcode ==
  ASSUME HitsOK, NEW t \in Threads, hit[t].bcp \in Entry, NEW p \in ThreadPc,
         NEW b \in Byte,
         hit' = [hit EXCEPT ![t].opcode = b], pc' = [pc EXCEPT ![t] = p],
         p \notin {"run", "get_original", "insert_original"} => hit[t].rbx \in Byte
  PROVE  HitsOK'
<1>1. [hit[t] EXCEPT !.opcode = b] \in HitType
  BY DEF HitsOK, HitType
<1>2. /\ hit'[t] = [hit[t] EXCEPT !.opcode = b]
      /\ hit'[t].bcp = hit[t].bcp
      /\ hit'[t].rbx = hit[t].rbx
  BY <1>1 DEF HitsOK, HitType
<1> QED
  BY <1>1, <1>2 DEF HitsOK

\* The BreakpointInfo is constructed or deleted.
LEMMA SetInfo ==
  ASSUME HitsOK, NEW t \in Threads, hit[t].bcp \in Entry, NEW p \in ThreadPc,
         NEW i \in BOOLEAN,
         hit' = [hit EXCEPT ![t].info = i], pc' = [pc EXCEPT ![t] = p],
         p \notin {"run", "get_original", "insert_original"} => hit[t].rbx \in Byte
  PROVE  HitsOK'
<1>1. [hit[t] EXCEPT !.info = i] \in HitType
  BY DEF HitsOK, HitType
<1>2. /\ hit'[t] = [hit[t] EXCEPT !.info = i]
      /\ hit'[t].bcp = hit[t].bcp
      /\ hit'[t].rbx = hit[t].rbx
  BY <1>1 DEF HitsOK, HitType
<1> QED
  BY <1>1, <1>2 DEF HitsOK

\* A fresh hit has its type.
LEMMA FreshHit ==
  ASSUME NEW a \in Address, NEW i \in BOOLEAN
  PROVE  NoHit \in HitType /\ NewHit(a, i) \in HitType /\ NewHit(a, i).bcp = a
<1>1. NoHit \in HitType
  BY DEF HitType, NoHit
<1>2. NewHit(a, i) \in HitType
  BY DEF HitType, NewHit, NoHit
<1>3. NewHit(a, i).bcp = a
  BY DEF NewHit, NoHit
<1> QED
  BY <1>1, <1>2, <1>3

\* Storing a difference in a uint16_t truncates it.
LEMMA Truncated == \A x \in Int : x % 65536 \in OffsetValue
BY DEF OffsetValue

\* A thread meets breakpoints only where the client has set them, and a hit stays
\* where it is.
LEMMA HitsStay ==
  ASSUME NEW S, TypeOK, Untouched(S), HitsWithin(S), NEW t \in Threads, ThreadStep(t)
  PROVE  HitsWithin(S)'
<1> DEFINE h == hit[t]
<1>0. hit \in [Threads -> HitType] /\ pc \in [Threads -> ThreadPc] /\ h \in HitType
  BY DEF TypeOK
<1>1. \A u \in Threads : u # t => pc'[u] = pc[u] /\ hit'[u] = hit[u]
  BY <1>0 DEF ThreadStep, Fetch, HandlerStep, OriginalBytecodeHandler, OriginalInserted,
     BreakpointHandler, CallbackInserted, GetOpcodeFind, GetOpcodeIndex,
     GetOpcodeInserted, GetOpcodeReturns, StoreOffset, OffsetInserted, CallbackAsks,
     CallbackReturns, Dispatch
<1>2. pc'[t] # "run" => hit'[t].bcp \in S
  <2>1. CASE Fetch(t)
    <3>1. PICK a \in Entry : /\ memory[a] = breakpoint
                             /\ hit' = [hit EXCEPT ![t] = NewHit(a, ~Removing(a))]
      BY <2>1 DEF Fetch
    <3>2. a \in S
      BY <3>1, CodeAssumption DEF Untouched, CodeAssumption
    <3>3. hit'[t].bcp = a
      BY <1>0, <3>1 DEF NewHit, NoHit
    <3> QED
      BY <3>2, <3>3
  <2>2. CASE HandlerStep(t)
    <3>1. pc[t] # "run"
      BY <2>2 DEF HandlerStep, OriginalBytecodeHandler, OriginalInserted,
         BreakpointHandler, CallbackInserted, GetOpcodeFind, GetOpcodeIndex,
         GetOpcodeInserted, StoreOffset, OffsetInserted, CallbackAsks, CallbackReturns,
         Dispatch
    <3>2. \/ hit'[t].bcp = h.bcp
          \/ pc'[t] = "run"
      <4>1. CASE Dispatch(t)
        BY <1>0, <4>1 DEF Dispatch, NewHit, NoHit
      <4>2. CASE OriginalBytecodeHandler(t) \/ OriginalInserted(t)
        BY <1>0, <4>2 DEF OriginalBytecodeHandler, OriginalInserted, HitType
      <4>3. CASE BreakpointHandler(t) \/ CallbackInserted(t)
        BY <1>0, <4>3 DEF BreakpointHandler, CallbackInserted, HitType
      <4>4. CASE GetOpcodeFind(t) \/ GetOpcodeIndex(t) \/ GetOpcodeInserted(t)
        <5>1. ASSUME NEW opcode, GetOpcodeReturns(t, opcode)
              PROVE  hit'[t].bcp = h.bcp
          BY <1>0, <5>1 DEF GetOpcodeReturns, HitType
        <5> QED
          BY <4>4, <5>1 DEF GetOpcodeFind, GetOpcodeIndex, GetOpcodeInserted
      <4>5. CASE StoreOffset(t) \/ OffsetInserted(t)
        BY <1>0, <4>5 DEF StoreOffset, OffsetInserted, HitType
      <4>6. CASE CallbackAsks(t) \/ CallbackReturns(t)
        BY <1>0, <4>6 DEF CallbackAsks, CallbackReturns, HitType
      <4> QED
        BY <2>2, <4>1, <4>2, <4>3, <4>4, <4>5, <4>6 DEF HandlerStep
    <3> QED
      BY <3>1, <3>2 DEF HitsWithin
  <2> QED
    BY <2>1, <2>2 DEF ThreadStep
<1> QED
  BY <1>1, <1>2 DEF HitsWithin

\* Every step of a Java thread keeps the invariant.
LEMMA ClientThread ==
  ASSUME NEW S \in SUBSET (Address \ {CodeEnd}), ClientInv(S),
         NEW t \in Threads, ThreadStep(t)
  PROVE  ClientInv(S)'
<1> DEFINE h == hit[t]
           Rest == /\ memory \in [Address -> Byte]
                   /\ original_bytecodes \in [Address -> Byte \cup {Absent}]
                   /\ breakpoint_callbacks \in [Address -> Callbacks \cup {Empty, Absent}]
                   /\ bytecode_offsets \in [Methods -> OffsetValue \cup {Absent}]
                   /\ agent \in AgentType
                   /\ raced \in SUBSET Maps
                   /\ Untouched(S) /\ KeysWithin(S) /\ AgentWithin(S)
<1>0. /\ HitsOK /\ Rest
      /\ h \in HitType
      /\ pc[t] # "run" => h.bcp \in Entry /\ h.bcp \in Address /\ h.bcp \in S
      /\ pc[t] \notin {"run", "get_original", "insert_original"} => h.rbx \in Byte
  BY Addresses DEF ClientInv, TypeOK, HitsOK, HitsWithin
<1>a. (HitsOK /\ Rest)' => ClientInv(S)'
  <2>1. HitsWithin(S)'
    BY HitsStay DEF ClientInv
  <2> QED
    BY <2>1 DEF ClientInv, TypeOK, HitsOK
<1> USE <1>0
<1> SUFFICES (HitsOK /\ Rest)'
  BY <1>a
<1>1. CASE Fetch(t)
  <2>1. PICK a \in Entry : hit' = [hit EXCEPT ![t] = NewHit(a, ~Removing(a))]
    BY <1>1 DEF Fetch
  <2>2. NewHit(a, ~Removing(a)) \in HitType /\ NewHit(a, ~Removing(a)).bcp = a
    <3>1. Removing(a) \in BOOLEAN
      BY DEF Removing
    <3> QED
      BY <3>1, Addresses, FreshHit
  <2>3. HitsOK'
    BY <1>1, <2>1, <2>2, HitsStep DEF Fetch, ThreadPc
  <2> QED
    BY <1>1, <2>3 DEF Fetch, maps, Untouched, KeysWithin, AgentWithin
<1>2. CASE OriginalBytecodeHandler(t)
  <2>1. CASE /\ original_bytecodes[h.bcp] # Absent
             /\ hit' = [hit EXCEPT ![t].rbx = original_bytecodes[h.bcp]]
             /\ pc' = [pc EXCEPT ![t] = "breakpoint"]
    <3>1. original_bytecodes[h.bcp] \in Byte
      BY <1>2, <2>1 DEF OriginalBytecodeHandler
    <3>2. HitsOK'
      BY <1>2, <2>1, <3>1, SetRbx DEF OriginalBytecodeHandler, ThreadPc
    <3> QED
      BY <1>2, <3>2 DEF OriginalBytecodeHandler, Access, Maps, maps, Untouched, KeysWithin, AgentWithin
  <2>2. CASE pc' = [pc EXCEPT ![t] = "insert_original"] /\ UNCHANGED hit
    <3>1. HitsOK'
      BY <1>2, <2>2 DEF OriginalBytecodeHandler, HitsOK, ThreadPc
    <3> QED
      BY <1>2, <3>1 DEF OriginalBytecodeHandler, Access, Maps, maps, Untouched, KeysWithin, AgentWithin
  <2> QED
    BY <1>2, <2>1, <2>2 DEF OriginalBytecodeHandler
<1>3. CASE OriginalInserted(t)
  <2>1. HitsOK'
    <3>1. nop \in Byte
      BY DEF nop, Byte
    <3> QED
      BY <1>3, <3>1, SetRbx DEF OriginalInserted, ThreadPc
  <2>2. /\ original_bytecodes' \in [Address -> Byte \cup {Absent}]
        /\ KeysWithin(S)'
    BY <1>3 DEF OriginalInserted, Inserted, KeysWithin, Byte, nop
  <2> QED
    BY <1>3, <2>1, <2>2 DEF OriginalInserted, Untouched, AgentWithin
<1>4. CASE BreakpointHandler(t)
  <2>1. HitsOK'
    <3>1. CASE /\ breakpoint_callbacks[h.bcp] # Absent
               /\ hit' = [hit EXCEPT ![t].callback = breakpoint_callbacks[h.bcp]]
               /\ pc' = [pc EXCEPT ![t] = IF breakpoint_callbacks[h.bcp] = Empty
                                          THEN "dispatch" ELSE "find"]
      <4>1. breakpoint_callbacks[h.bcp] \in Callbacks \cup {Empty}
        BY <1>4, <3>1 DEF BreakpointHandler
      <4> QED
        BY <1>4, <3>1, <4>1, SetCallback DEF BreakpointHandler, ThreadPc
    <3>2. CASE pc' = [pc EXCEPT ![t] = "insert_callback"] /\ UNCHANGED hit
      BY <1>4, <3>2 DEF BreakpointHandler, HitsOK, ThreadPc
    <3> QED
      BY <1>4, <3>1, <3>2 DEF BreakpointHandler
  <2> QED
    BY <1>4, <2>1 DEF BreakpointHandler, Access, Maps, maps, Untouched, KeysWithin, AgentWithin
<1>5. CASE CallbackInserted(t)
  <2>1. HitsOK'
    BY <1>5, SetCallback DEF CallbackInserted, ThreadPc
  <2>2. breakpoint_callbacks' \in [Address -> Callbacks \cup {Empty, Absent}]
    BY <1>5 DEF CallbackInserted, Inserted
  <2> QED
    BY <1>5, <2>1, <2>2 DEF CallbackInserted, Untouched, KeysWithin, AgentWithin
<1>6. ASSUME NEW b \in Byte, GetOpcodeReturns(t, b), pc[t] \in {"find", "index", "insert_opcode"}
      PROVE  HitsOK'
  <2>1. CASE hit' = [hit EXCEPT ![t].opcode = b] /\ pc' = [pc EXCEPT ![t] = "callback"]
    BY <1>6, <2>1, SetOpcode DEF ThreadPc
  <2>2. CASE pc' = [pc EXCEPT ![t] = "offsets"] /\ UNCHANGED hit
    BY <1>6, <2>2 DEF HitsOK, ThreadPc
  <2> QED
    BY <1>6, <2>1, <2>2 DEF GetOpcodeReturns
<1>7. CASE GetOpcodeFind(t)
  <2>1. HitsOK'
    <3>1. CASE pc' = [pc EXCEPT ![t] = "index"] /\ UNCHANGED hit
      BY <1>7, <3>1 DEF GetOpcodeFind, HitsOK, ThreadPc, Registered
    <3>2. CASE GetOpcodeReturns(t, memory[h.bcp])
      BY <1>7, <3>2, <1>6 DEF GetOpcodeFind, Registered
    <3> QED
      BY <1>7, <3>1, <3>2 DEF GetOpcodeFind, Registered
  <2> QED
    BY <1>7, <2>1 DEF GetOpcodeFind, Access, Maps, maps, Untouched, KeysWithin, AgentWithin, Registered
<1>8. CASE GetOpcodeIndex(t)
  <2>1. HitsOK'
    <3>1. CASE original_bytecodes[h.bcp] # Absent /\ GetOpcodeReturns(t, original_bytecodes[h.bcp])
      <4>1. original_bytecodes[h.bcp] \in Byte
        BY <1>8, <3>1 DEF GetOpcodeIndex
      <4> QED
        BY <1>8, <3>1, <4>1, <1>6 DEF GetOpcodeIndex
    <3>2. CASE pc' = [pc EXCEPT ![t] = "insert_opcode"] /\ UNCHANGED hit
      BY <1>8, <3>2 DEF GetOpcodeIndex, HitsOK, ThreadPc
    <3> QED
      BY <1>8, <3>1, <3>2 DEF GetOpcodeIndex
  <2> QED
    BY <1>8, <2>1 DEF GetOpcodeIndex, Access, Maps, maps, Untouched, KeysWithin, AgentWithin
<1>9. CASE GetOpcodeInserted(t)
  <2>1. HitsOK'
    <3>1. nop \in Byte
      BY DEF nop, Byte
    <3> QED
      BY <1>9, <3>1, <1>6 DEF GetOpcodeInserted
  <2>2. /\ original_bytecodes' \in [Address -> Byte \cup {Absent}]
        /\ KeysWithin(S)'
    BY <1>9 DEF GetOpcodeInserted, Inserted, KeysWithin, Byte, nop
  <2> QED
    BY <1>9, <2>1, <2>2 DEF GetOpcodeInserted, Untouched, AgentWithin
<1>10. ASSUME pc[t] \in {"offsets", "insert_offset"}
       PROVE  /\ MethodOf[h.bcp] \in Methods
              /\ (h.bcp - Start[MethodOf[h.bcp]]) % 65536 \in OffsetValue
  <2>1. MethodOf[h.bcp] \in Methods /\ Start[MethodOf[h.bcp]] \in Address
    BY <1>10, CodeAssumption DEF CodeAssumption
  <2>2. h.bcp - Start[MethodOf[h.bcp]] \in Int
    BY <1>10, <2>1 DEF Address
  <2> QED
    BY <2>1, <2>2, Truncated
<1>11. CASE StoreOffset(t)
  <2>1. CASE /\ bytecode_offsets' = [bytecode_offsets EXCEPT ![MethodOf[h.bcp]] = Offset(t)]
             /\ hit' = [hit EXCEPT ![t].info = TRUE]
             /\ pc' = [pc EXCEPT ![t] = "callback"]
    <3>1. HitsOK'
      BY <1>11, <2>1, SetInfo DEF StoreOffset, ThreadPc
    <3>2. bytecode_offsets' \in [Methods -> OffsetValue \cup {Absent}]
      BY <1>11, <2>1, <1>10 DEF StoreOffset, Offset
    <3> QED
      BY <1>11, <3>1, <3>2 DEF StoreOffset, Access, Maps, Untouched, KeysWithin, AgentWithin
  <2>2. CASE pc' = [pc EXCEPT ![t] = "insert_offset"] /\ UNCHANGED <<bytecode_offsets, hit>>
    <3>1. HitsOK'
      BY <1>11, <2>2 DEF StoreOffset, HitsOK, ThreadPc
    <3> QED
      BY <1>11, <2>2, <3>1 DEF StoreOffset, Access, Maps, Untouched, KeysWithin, AgentWithin
  <2> QED
    BY <1>11, <2>1, <2>2 DEF StoreOffset
<1>12. CASE OffsetInserted(t)
  <2>1. HitsOK'
    BY <1>12, SetInfo DEF OffsetInserted, ThreadPc
  <2>2. bytecode_offsets' \in [Methods -> OffsetValue \cup {Absent}]
    BY <1>12, <1>10 DEF OffsetInserted, Inserted, Offset
  <2> QED
    BY <1>12, <2>1, <2>2 DEF OffsetInserted, Untouched, KeysWithin, AgentWithin
<1>13. CASE CallbackAsks(t)
  <2>1. HitsOK'
    BY <1>13 DEF CallbackAsks, HitsOK, ThreadPc
  <2> QED
    BY <1>13, <2>1 DEF CallbackAsks, maps, Untouched, KeysWithin, AgentWithin
<1>14. CASE CallbackReturns(t)
  <2>1. HitsOK'
    BY <1>14, SetInfo DEF CallbackReturns, ThreadPc
  <2> QED
    BY <1>14, <2>1 DEF CallbackReturns, maps, Untouched, KeysWithin, AgentWithin
<1>15. CASE Dispatch(t)
  <2>1. HitsOK'
    <3>1. CASE pc' = [pc EXCEPT ![t] = "run"] /\ hit' = [hit EXCEPT ![t] = NoHit]
      <4>1. NoHit \in HitType
        BY Addresses, FreshHit
      <4> QED
        BY <3>1, <4>1, HitsStep DEF ThreadPc
    <3>2. CASE /\ pc' = [pc EXCEPT ![t] = "get_original"]
               /\ hit' = [hit EXCEPT ![t] = NewHit(h.bcp, h.covered)]
      <4>1. /\ NewHit(h.bcp, h.covered) \in HitType
            /\ NewHit(h.bcp, h.covered).bcp = h.bcp
        <5>1. h.covered \in BOOLEAN /\ h.bcp \in Address
          BY <1>15 DEF Dispatch, HitType
        <5> QED
          BY <5>1, FreshHit
      <4> QED
        BY <1>15, <3>2, <4>1, HitsStep DEF Dispatch, ThreadPc
    <3> QED
      BY <1>15, <3>1, <3>2 DEF Dispatch
  <2> QED
    BY <1>15, <2>1 DEF Dispatch, maps, Untouched, KeysWithin, AgentWithin
<1> QED
  BY <1>1, <1>2, <1>3, <1>4, <1>5, <1>7, <1>8, <1>9, <1>11, <1>12, <1>13, <1>14, <1>15
     DEF ThreadStep, HandlerStep

\* Stuttering keeps the invariant.
LEMMA ClientStutter == ASSUME NEW S, ClientInv(S), UNCHANGED vars PROVE ClientInv(S)'
BY DEF ClientInv, TypeOK, Untouched, KeysWithin, AgentWithin, HitsWithin, vars

\* The same for a client that names instructions.
LEMMA TypeThread ==
  ASSUME TypeInv, NEW t \in Threads, ThreadStep(t)
  PROVE  TypeInv'
<1>1. Entry \in SUBSET (Address \ {CodeEnd})
  BY Addresses
<1>2. ClientInv(Entry)
  BY TypeIsClient
<1>3. ClientInv(Entry)'
  BY <1>1, <1>2, ClientThread
<1>4. (TypeInv <=> ClientInv(Entry))'
  BY DEF TypeInv, ClientInv, TypeOK, OperandsIntact, KeysAtEntries, AgentAtEntry,
     Untouched, KeysWithin, AgentWithin, HitsWithin
<1> QED
  BY <1>3, <1>4

LEMMA TypeStep ==
  ASSUME TypeInv, \/ Calls(Entry) \/ AgentStep \/ \E t \in Threads : ThreadStep(t)
                  \/ UNCHANGED vars
  PROVE  TypeInv'
<1>1. Entry \in SUBSET (Address \ {CodeEnd})
  BY Addresses
<1>2. ClientInv(Entry)
  BY TypeIsClient
<1>3. ClientInv(Entry)'
  BY <1>1, <1>2, ClientAgent, ClientThread, ClientStutter
<1>4. (TypeInv <=> ClientInv(Entry))'
  BY DEF TypeInv, ClientInv, TypeOK, OperandsIntact, KeysAtEntries, AgentAtEntry,
     Untouched, KeysWithin, AgentWithin, HitsWithin
<1> QED
  BY <1>3, <1>4

\* For every client of the API the invariant holds of the addresses it names.
LEMMA ClientInvariant == Spec => []ClientInv(Targets)
<1>1. Targets \in SUBSET (Address \ {CodeEnd})
  BY CodeAssumption DEF CodeAssumption
<1>2. Init => ClientInv(Targets)
  BY ClientInit
<1>3. ClientInv(Targets) /\ [Next]_vars => ClientInv(Targets)'
  BY <1>1, ClientAgent, ClientThread, ClientStutter DEF Next, AnyCall
<1> QED
  BY <1>2, <1>3, PTL DEF Spec

\* For every client of the API: the registry, the code and the threads keep
\* their types, and the sweep stays inside the code.
THEOREM TypeCorrect == Spec => []TypeOK
<1>1. ClientInv(Targets) => TypeOK
  BY DEF ClientInv
<1> QED
  BY ClientInvariant, <1>1, PTL

\* For every client of the API: no byte is written but those it names, whatever
\* races and whatever keys late hits leave behind.
THEOREM BystandersCorrect == Spec => []BystandersIntact
<1>1. ClientInv(Targets) => BystandersIntact
  BY DEF ClientInv, Untouched, BystandersIntact
<1> QED
  BY ClientInvariant, <1>1, PTL

-----------------------------------------------------------------------------
(* Safety, for the client that pairs its calls.  The parts of the inductive  *)
(* invariant speak of executions in which the map concerned has not been hit *)
(* by a data race.                                                           *)

OriginalRaced == "original_bytecodes" \in raced
CallbackRaced == "breakpoint_callbacks" \in raced

ChangesOriginal(t) == pc[t] \in {"insert_original", "insert_opcode"}
ChangesCallback(t) == pc[t] = "insert_callback"

Adding == agent.pc \in {"add_original", "add_callback", "add_arm"}
InRemoval == agent.pc \in {"remove_original", "remove_callback", "remove_restore"}

\* Without a race only one thread changes a map, and the key it missed is
\* still missing.
OriginalExclusive ==
  OriginalRaced \/ \A t \in Threads :
    ChangesOriginal(t) =>
      /\ agent.pc \notin {"add_original", "remove_original"}
      /\ original_bytecodes[hit[t].bcp] = Absent
      /\ \A u \in Threads : ChangesOriginal(u) => u = t

CallbackExclusive ==
  CallbackRaced \/ \A t \in Threads :
    ChangesCallback(t) =>
      /\ agent.pc \notin {"add_callback", "remove_callback"}
      /\ breakpoint_callbacks[hit[t].bcp] = Absent
      /\ \A u \in Threads : ChangesCallback(u) => u = t

\* What the locals of a call in progress hold, and what it has already stored.
AgentHolds ==
  /\ agent.pc # "sweep" /\ ~agent.all
  /\ agent.byte # breakpoint
  /\ Adding =>
       /\ memory[agent.addr] # breakpoint
       /\ OriginalRaced \/ agent.byte = Code[agent.addr]
       /\ agent.callback \in Callbacks
       /\ agent.pc # "add_original" =>
            OriginalRaced \/ original_bytecodes[agent.addr] = Code[agent.addr]
       /\ agent.pc = "add_arm" =>
            CallbackRaced \/ breakpoint_callbacks[agent.addr] = agent.callback
  /\ InRemoval =>
       /\ memory[agent.addr] = breakpoint
       /\ OriginalRaced \/ agent.byte = Code[agent.addr]

\* 0xCA is never saved as an original.
NoSavedBreakpoint == \A a \in Address : original_bytecodes[a] # breakpoint

\* An 0xCA that is not being removed is registered in both maps.
ArmedIsRegistered ==
  \A a \in Entry :
    memory[a] = breakpoint /\ ~Removing(a) =>
      /\ OriginalRaced \/ original_bytecodes[a] = Code[a]
      /\ CallbackRaced \/ breakpoint_callbacks[a] \in Callbacks

\* A covered hit is at such an 0xCA.
CoveredIsArmed ==
  \A t \in Threads :
    hit[t].covered =>
      /\ hit[t].bcp \in Entry
      /\ memory[hit[t].bcp] = breakpoint
      /\ ~Removing(hit[t].bcp)

Outcomes == FaithfulDispatch /\ EveryHitCallsBack /\ OpcodeTransparent

PairedInv ==
  /\ OriginalExclusive
  /\ CallbackExclusive
  /\ AgentHolds
  /\ NoSavedBreakpoint
  /\ CodeIntact
  /\ ArmedIsRegistered
  /\ CoveredIsArmed
  /\ Outcomes

\* What Busy and BusyForAgent say of the two maps of the registry.
LEMMA BusyMaps ==
  /\ BusyForAgent("original_bytecodes") <=> \E u \in Threads : ChangesOriginal(u)
  /\ BusyForAgent("breakpoint_callbacks") <=> \E u \in Threads : ChangesCallback(u)
  /\ \A t \in Threads :
       /\ Busy("original_bytecodes", t) <=>
            \/ agent.pc \in {"add_original", "remove_original"}
            \/ \E u \in Threads \ {t} : ChangesOriginal(u)
       /\ Busy("breakpoint_callbacks", t) <=>
            \/ agent.pc \in {"add_callback", "remove_callback"}
            \/ \E u \in Threads \ {t} : ChangesCallback(u)
BY DEF BusyForAgent, Busy, AgentWindow, ThreadWindow, ChangesOriginal, ChangesCallback

\* The initial state satisfies the invariant.
LEMMA PairedInit == Init => PairedInv
<1> SUFFICES ASSUME Init PROVE PairedInv
  OBVIOUS
<1>1. OriginalExclusive /\ CallbackExclusive
  BY DEF Init, OriginalExclusive, CallbackExclusive, ChangesOriginal, ChangesCallback
<1>2. AgentHolds
  BY DEF Init, Idle, AgentHolds, Adding, InRemoval, nop, breakpoint
<1>3. NoSavedBreakpoint
  BY ValueAssumption DEF ValueAssumption, Init, NoSavedBreakpoint, Byte, breakpoint
<1>4. CodeIntact /\ ArmedIsRegistered
  BY Addresses, CodeAssumption DEF CodeAssumption, Init, CodeIntact, ArmedIsRegistered
<1>5. CoveredIsArmed
  BY DEF Init, NoHit, CoveredIsArmed
<1>6. Outcomes
  BY DEF Init, NoHit, Outcomes, FaithfulDispatch, EveryHitCallsBack, OpcodeTransparent
<1> QED
  BY <1>1, <1>2, <1>3, <1>4, <1>5, <1>6 DEF PairedInv

\* The steps of the agent keep the invariant.
LEMMA PairedAgent ==
  ASSUME TypeInv, TypeInv', PairedInv, PairedCall \/ AgentStep
  PROVE  PairedInv'
<1> USE DEF PairedInv
<1>1. ASSUME NEW a \in Entry, NEW callback \in Callbacks,
              memory[a] # breakpoint, AddBreakpoint(a, callback)
       PROVE  PairedInv'
  <2>1. /\ UNCHANGED <<memory, original_bytecodes, breakpoint_callbacks, pc, hit>>
        /\ agent.pc = "idle"
        /\ agent'.pc = "add_original"
        /\ agent'.addr = a
        /\ agent'.byte = memory[a]
        /\ agent'.callback = callback
        /\ agent'.all = FALSE
        /\ memory[a] # breakpoint
    BY <1>1 DEF AddBreakpoint, TypeInv, TypeOK, AgentType, AgentAtEntry, maps, SavedByte, Idle
  <2>2. /\ OriginalRaced' <=> OriginalRaced \/ \E u \in Threads : ChangesOriginal(u)
        /\ CallbackRaced' <=> CallbackRaced
    BY <1>1, BusyMaps DEF AddBreakpoint, Access, OriginalRaced, CallbackRaced
  <2>3. OriginalExclusive'
    BY <2>1, <2>2, Addresses DEF TypeInv, TypeOK, OriginalExclusive, ChangesOriginal
  <2>4. CallbackExclusive'
    BY <2>1, <2>2, Addresses DEF TypeInv, TypeOK, CallbackExclusive, ChangesCallback
  <2>5. AgentHolds'
    BY <2>1, <2>2, Addresses DEF TypeInv, TypeOK, AgentHolds, Adding, InRemoval, CodeIntact, OriginalRaced, nop, breakpoint
  <2>6. NoSavedBreakpoint'
    BY <2>1, <2>2, Addresses, ValueAssumption DEF TypeInv, TypeOK, NoSavedBreakpoint, AgentHolds, Adding, InRemoval, ValueAssumption, Byte, breakpoint
  <2>7. CodeIntact'
    BY <2>1, <2>2, Addresses DEF TypeInv, TypeOK, OriginalRaced, CallbackRaced, CodeIntact, AgentHolds, Adding, InRemoval
  <2>8. ArmedIsRegistered'
    BY <2>1, <2>2, Addresses DEF TypeInv, TypeOK, ArmedIsRegistered, Removing, AgentHolds, Adding, InRemoval
  <2>9. CoveredIsArmed'
    BY <2>1, <2>2, Addresses DEF TypeInv, TypeOK, CoveredIsArmed, Removing, AgentHolds, Adding, InRemoval
  <2>10. Outcomes'
    BY <2>1, <2>2, Addresses DEF TypeInv, TypeOK, OriginalRaced, CallbackRaced, Outcomes, FaithfulDispatch, EveryHitCallsBack, OpcodeTransparent
  <2> QED
    BY <2>3, <2>4, <2>5, <2>6, <2>7, <2>8, <2>9, <2>10
<1>2. CASE AddOriginal
  <2>1. /\ original_bytecodes' = [original_bytecodes EXCEPT ![agent.addr] = agent.byte]
        /\ UNCHANGED <<memory, breakpoint_callbacks, pc, hit>>
        /\ agent.pc = "add_original" /\ agent'.pc = "add_callback"
        /\ agent'.addr = agent.addr
        /\ agent'.byte = agent.byte
        /\ agent'.callback = agent.callback
        /\ agent'.all = agent.all
        /\ agent.addr \in Entry
    BY <1>2 DEF AddOriginal, TypeInv, TypeOK, AgentType, AgentAtEntry, maps, Assigned
  <2>2. /\ OriginalRaced' <=> OriginalRaced
        /\ CallbackRaced' <=> CallbackRaced \/ \E u \in Threads : ChangesCallback(u)
    BY <1>2, BusyMaps DEF AddOriginal, Access, OriginalRaced, CallbackRaced, Assigned
  <2>3. OriginalExclusive'
    BY <2>1, <2>2, Addresses DEF TypeInv, TypeOK, OriginalExclusive, ChangesOriginal
  <2>4. CallbackExclusive'
    BY <2>1, <2>2, Addresses DEF TypeInv, TypeOK, CallbackExclusive, ChangesCallback
  <2>5. AgentHolds'
    BY <2>1, <2>2, Addresses DEF TypeInv, TypeOK, AgentHolds, Adding, InRemoval, CodeIntact, OriginalRaced, nop, breakpoint
  <2>6. NoSavedBreakpoint'
    BY <2>1, <2>2, Addresses, ValueAssumption DEF TypeInv, TypeOK, NoSavedBreakpoint, AgentHolds, Adding, InRemoval, ValueAssumption, Byte, breakpoint
  <2>7. CodeIntact'
    BY <2>1, <2>2, Addresses DEF TypeInv, TypeOK, OriginalRaced, CallbackRaced, CodeIntact, AgentHolds, Adding, InRemoval
  <2>8. ArmedIsRegistered'
    BY <2>1, <2>2, Addresses DEF TypeInv, TypeOK, ArmedIsRegistered, Removing, AgentHolds, Adding, InRemoval
  <2>9. CoveredIsArmed'
    BY <2>1, <2>2, Addresses DEF TypeInv, TypeOK, CoveredIsArmed, Removing, AgentHolds, Adding, InRemoval
  <2>10. Outcomes'
    BY <2>1, <2>2, Addresses DEF TypeInv, TypeOK, OriginalRaced, CallbackRaced, Outcomes, FaithfulDispatch, EveryHitCallsBack, OpcodeTransparent
  <2> QED
    BY <2>3, <2>4, <2>5, <2>6, <2>7, <2>8, <2>9, <2>10
<1>3. CASE AddCallback
  <2>1. /\ breakpoint_callbacks' = [breakpoint_callbacks EXCEPT ![agent.addr] = agent.callback]
        /\ UNCHANGED <<memory, original_bytecodes, pc, hit>>
        /\ agent.pc = "add_callback" /\ agent'.pc = "add_arm"
        /\ agent'.addr = agent.addr
        /\ agent'.byte = agent.byte
        /\ agent'.callback = agent.callback
        /\ agent'.all = agent.all
        /\ agent.addr \in Entry
    BY <1>3 DEF AddCallback, TypeInv, TypeOK, AgentType, AgentAtEntry, maps, Assigned
  <2>2. /\ OriginalRaced' <=> OriginalRaced
        /\ CallbackRaced' <=> CallbackRaced
    BY <1>3, BusyMaps DEF AddCallback, Access, OriginalRaced, CallbackRaced, Assigned
  <2>3. OriginalExclusive'
    BY <2>1, <2>2, Addresses DEF TypeInv, TypeOK, OriginalExclusive, ChangesOriginal
  <2>4. CallbackExclusive'
    BY <2>1, <2>2, Addresses DEF TypeInv, TypeOK, CallbackExclusive, ChangesCallback
  <2>5. AgentHolds'
    BY <2>1, <2>2, Addresses DEF TypeInv, TypeOK, AgentHolds, Adding, InRemoval, CodeIntact, OriginalRaced, nop, breakpoint
  <2>6. NoSavedBreakpoint'
    BY <2>1, <2>2, Addresses, ValueAssumption DEF TypeInv, TypeOK, NoSavedBreakpoint, AgentHolds, Adding, InRemoval, ValueAssumption, Byte, breakpoint
  <2>7. CodeIntact'
    BY <2>1, <2>2, Addresses DEF TypeInv, TypeOK, OriginalRaced, CallbackRaced, CodeIntact, AgentHolds, Adding, InRemoval
  <2>8. ArmedIsRegistered'
    BY <2>1, <2>2, Addresses DEF TypeInv, TypeOK, ArmedIsRegistered, Removing, AgentHolds, Adding, InRemoval
  <2>9. CoveredIsArmed'
    BY <2>1, <2>2, Addresses DEF TypeInv, TypeOK, CoveredIsArmed, Removing, AgentHolds, Adding, InRemoval
  <2>10. Outcomes'
    BY <2>1, <2>2, Addresses DEF TypeInv, TypeOK, OriginalRaced, CallbackRaced, Outcomes, FaithfulDispatch, EveryHitCallsBack, OpcodeTransparent
  <2> QED
    BY <2>3, <2>4, <2>5, <2>6, <2>7, <2>8, <2>9, <2>10
<1>4. CASE AddArm
  <2>1. /\ memory' = [memory EXCEPT ![agent.addr] = breakpoint]
        /\ UNCHANGED <<original_bytecodes, breakpoint_callbacks, pc, hit>>
        /\ agent.pc = "add_arm"
        /\ agent'.pc = "idle"
        /\ agent'.byte = nop
        /\ agent'.all = FALSE
        /\ agent.addr \in Entry
    BY <1>4 DEF AddArm, TypeInv, TypeOK, AgentType, AgentAtEntry, maps, Idle
  <2>2. /\ OriginalRaced' <=> OriginalRaced
        /\ CallbackRaced' <=> CallbackRaced
    BY <1>4, BusyMaps DEF AddArm, Access, OriginalRaced, CallbackRaced
  <2>3. OriginalExclusive'
    BY <2>1, <2>2, Addresses DEF TypeInv, TypeOK, OriginalExclusive, ChangesOriginal
  <2>4. CallbackExclusive'
    BY <2>1, <2>2, Addresses DEF TypeInv, TypeOK, CallbackExclusive, ChangesCallback
  <2>5. AgentHolds'
    BY <2>1, <2>2, Addresses DEF TypeInv, TypeOK, AgentHolds, Adding, InRemoval, CodeIntact, OriginalRaced, nop, breakpoint
  <2>6. NoSavedBreakpoint'
    BY <2>1, <2>2, Addresses, ValueAssumption DEF TypeInv, TypeOK, NoSavedBreakpoint, AgentHolds, Adding, InRemoval, ValueAssumption, Byte, breakpoint
  <2>7. CodeIntact'
    BY <2>1, <2>2, Addresses DEF TypeInv, TypeOK, OriginalRaced, CallbackRaced, CodeIntact, AgentHolds, Adding, InRemoval
  <2>8. ArmedIsRegistered'
    BY <2>1, <2>2, Addresses DEF TypeInv, TypeOK, ArmedIsRegistered, Removing, AgentHolds, Adding, InRemoval
  <2>9. CoveredIsArmed'
    BY <2>1, <2>2, Addresses DEF TypeInv, TypeOK, CoveredIsArmed, Removing, AgentHolds, Adding, InRemoval
  <2>10. Outcomes'
    BY <2>1, <2>2, Addresses DEF TypeInv, TypeOK, OriginalRaced, CallbackRaced, Outcomes, FaithfulDispatch, EveryHitCallsBack, OpcodeTransparent
  <2> QED
    BY <2>3, <2>4, <2>5, <2>6, <2>7, <2>8, <2>9, <2>10
<1>5. ASSUME NEW a \in Entry, memory[a] = breakpoint, RemoveBreakpoint(a)
      PROVE  PairedInv'
  <2>1. /\ UNCHANGED <<memory, breakpoint_callbacks, pc>>
        /\ agent.pc = "idle" /\ agent'.pc = "remove_original"
        /\ agent'.addr = a
        /\ ~agent'.all
        /\ memory[a] = breakpoint
    BY <1>5 DEF RemoveBreakpoint, Idle
  <2>2. /\ OriginalRaced' <=> OriginalRaced \/ \E u \in Threads : ChangesOriginal(u)
        /\ CallbackRaced' <=> CallbackRaced
    BY <1>5, BusyMaps DEF RemoveBreakpoint, Access, OriginalRaced, CallbackRaced
  <2>3. /\ ~OriginalRaced => original_bytecodes[a] = Code[a]
        /\ Code[a] # Absent /\ Code[a] # breakpoint
    BY NotAByte, <2>1, Addresses, CodeAssumption, ValueAssumption
       DEF CodeAssumption, ValueAssumption, ArmedIsRegistered, Removing
  <2>4. ~OriginalRaced' => agent'.byte = Code[a] /\ UNCHANGED original_bytecodes
    BY <1>5, <2>2, <2>3, BusyMaps DEF RemoveBreakpoint, Idle
  <2>5. agent'.byte # breakpoint
    <3>1. agent'.byte \in {nop, original_bytecodes[a]}
      BY <1>5 DEF RemoveBreakpoint, Idle
    <3>2. original_bytecodes[a] # breakpoint
      BY Addresses DEF NoSavedBreakpoint
    <3> QED
      BY <3>1, <3>2 DEF nop, breakpoint
  <2>6. NoSavedBreakpoint'
    BY <1>5 DEF RemoveBreakpoint, Inserted, NoSavedBreakpoint, nop, breakpoint, TypeInv, TypeOK
  <2>7. \A t \in Threads : /\ hit'[t].bcp = hit[t].bcp
                            /\ hit'[t].rbx = hit[t].rbx
                            /\ hit'[t].callback = hit[t].callback
                            /\ hit'[t].opcode = hit[t].opcode
    BY <1>5, Addresses, UncoverType DEF RemoveBreakpoint, TypeInv, TypeOK
  <2>8. \A t \in Threads : hit'[t].covered => hit[t].covered /\ hit[t].bcp # a
    BY <1>5, Addresses, UncoverType DEF RemoveBreakpoint, TypeInv, TypeOK
  <2>9. OriginalExclusive'
    BY <2>1, <2>2, <2>4, <2>7 DEF OriginalExclusive, ChangesOriginal
  <2>10. CallbackExclusive'
    BY <2>1, <2>2, <2>7 DEF CallbackExclusive, ChangesCallback
  <2>11. AgentHolds'
    BY <2>1, <2>4, <2>5 DEF AgentHolds, Adding, InRemoval
  <2>12. CodeIntact'
    BY <2>1, <2>2 DEF CodeIntact, OriginalRaced
  <2>13. ArmedIsRegistered'
    BY <2>1, <2>2, <2>4 DEF ArmedIsRegistered, Removing
  <2>14. CoveredIsArmed'
    BY <2>1, <2>7, <2>8 DEF CoveredIsArmed, Removing
  <2>15. Outcomes'
    BY <2>1, <2>2, <2>7, <2>8
       DEF Outcomes, FaithfulDispatch, EveryHitCallsBack, OpcodeTransparent,
           OriginalRaced, CallbackRaced
  <2> QED
    BY <2>6, <2>9, <2>10, <2>11, <2>12, <2>13, <2>14, <2>15
<1>6. CASE RemoveOriginal
  <2>1. /\ original_bytecodes' = [original_bytecodes EXCEPT ![agent.addr] = Absent]
        /\ UNCHANGED <<memory, breakpoint_callbacks, pc, hit>>
        /\ agent.pc = "remove_original" /\ agent'.pc = "remove_callback"
        /\ agent'.addr = agent.addr
        /\ agent'.byte = agent.byte
        /\ agent'.callback = agent.callback
        /\ agent'.all = agent.all
        /\ agent.addr \in Entry
    BY <1>6 DEF RemoveOriginal, TypeInv, TypeOK, AgentType, AgentAtEntry, maps
  <2>2. /\ OriginalRaced' <=> OriginalRaced
        /\ CallbackRaced' <=> CallbackRaced \/ \E u \in Threads : ChangesCallback(u)
    BY <1>6, BusyMaps DEF RemoveOriginal, Access, OriginalRaced, CallbackRaced
  <2>3. OriginalExclusive'
    BY <2>1, <2>2, Addresses DEF TypeInv, TypeOK, OriginalExclusive, ChangesOriginal
  <2>4. CallbackExclusive'
    BY <2>1, <2>2, Addresses DEF TypeInv, TypeOK, CallbackExclusive, ChangesCallback
  <2>5. AgentHolds'
    BY <2>1, <2>2, Addresses DEF TypeInv, TypeOK, AgentHolds, Adding, InRemoval, CodeIntact, OriginalRaced, nop, breakpoint
  <2>6. NoSavedBreakpoint'
    BY <2>1, <2>2, Addresses, ValueAssumption DEF TypeInv, TypeOK, NoSavedBreakpoint, AgentHolds, Adding, InRemoval, ValueAssumption, Byte, breakpoint
  <2>7. CodeIntact'
    BY <2>1, <2>2, Addresses DEF TypeInv, TypeOK, OriginalRaced, CallbackRaced, CodeIntact, AgentHolds, Adding, InRemoval
  <2>8. ArmedIsRegistered'
    BY <2>1, <2>2, Addresses DEF TypeInv, TypeOK, ArmedIsRegistered, Removing, AgentHolds, Adding, InRemoval
  <2>9. CoveredIsArmed'
    BY <2>1, <2>2, Addresses DEF TypeInv, TypeOK, CoveredIsArmed, Removing, AgentHolds, Adding, InRemoval
  <2>10. Outcomes'
    BY <2>1, <2>2, Addresses DEF TypeInv, TypeOK, OriginalRaced, CallbackRaced, Outcomes, FaithfulDispatch, EveryHitCallsBack, OpcodeTransparent
  <2> QED
    BY <2>3, <2>4, <2>5, <2>6, <2>7, <2>8, <2>9, <2>10
<1>7. CASE RemoveCallback
  <2>1. /\ breakpoint_callbacks' = [breakpoint_callbacks EXCEPT ![agent.addr] = Absent]
        /\ UNCHANGED <<memory, original_bytecodes, pc, hit>>
        /\ agent.pc = "remove_callback" /\ agent'.pc = "remove_restore"
        /\ agent'.addr = agent.addr
        /\ agent'.byte = agent.byte
        /\ agent'.callback = agent.callback
        /\ agent'.all = agent.all
        /\ agent.addr \in Entry
    BY <1>7 DEF RemoveCallback, TypeInv, TypeOK, AgentType, AgentAtEntry, maps
  <2>2. /\ OriginalRaced' <=> OriginalRaced
        /\ CallbackRaced' <=> CallbackRaced
    BY <1>7, BusyMaps DEF RemoveCallback, Access, OriginalRaced, CallbackRaced
  <2>3. OriginalExclusive'
    BY <2>1, <2>2, Addresses DEF TypeInv, TypeOK, OriginalExclusive, ChangesOriginal
  <2>4. CallbackExclusive'
    BY <2>1, <2>2, Addresses DEF TypeInv, TypeOK, CallbackExclusive, ChangesCallback
  <2>5. AgentHolds'
    BY <2>1, <2>2, Addresses DEF TypeInv, TypeOK, AgentHolds, Adding, InRemoval, CodeIntact, OriginalRaced, nop, breakpoint
  <2>6. NoSavedBreakpoint'
    BY <2>1, <2>2, Addresses, ValueAssumption DEF TypeInv, TypeOK, NoSavedBreakpoint, AgentHolds, Adding, InRemoval, ValueAssumption, Byte, breakpoint
  <2>7. CodeIntact'
    BY <2>1, <2>2, Addresses DEF TypeInv, TypeOK, OriginalRaced, CallbackRaced, CodeIntact, AgentHolds, Adding, InRemoval
  <2>8. ArmedIsRegistered'
    BY <2>1, <2>2, Addresses DEF TypeInv, TypeOK, ArmedIsRegistered, Removing, AgentHolds, Adding, InRemoval
  <2>9. CoveredIsArmed'
    BY <2>1, <2>2, Addresses DEF TypeInv, TypeOK, CoveredIsArmed, Removing, AgentHolds, Adding, InRemoval
  <2>10. Outcomes'
    BY <2>1, <2>2, Addresses DEF TypeInv, TypeOK, OriginalRaced, CallbackRaced, Outcomes, FaithfulDispatch, EveryHitCallsBack, OpcodeTransparent
  <2> QED
    BY <2>3, <2>4, <2>5, <2>6, <2>7, <2>8, <2>9, <2>10
<1>8. CASE RemoveRestore
  <2>1. /\ memory' = [memory EXCEPT ![agent.addr] = agent.byte]
        /\ UNCHANGED <<original_bytecodes, breakpoint_callbacks, pc, hit>>
        /\ agent.pc = "remove_restore"
        /\ agent'.pc = "idle"
        /\ agent'.byte = nop
        /\ agent'.all = FALSE
        /\ agent.addr \in Entry
    BY <1>8 DEF RemoveRestore, TypeInv, TypeOK, AgentType, AgentAtEntry, maps, Idle, AgentHolds
  <2>2. /\ OriginalRaced' <=> OriginalRaced
        /\ CallbackRaced' <=> CallbackRaced
    BY <1>8, BusyMaps DEF RemoveRestore, Access, OriginalRaced, CallbackRaced
  <2>3. OriginalExclusive'
    BY <2>1, <2>2, Addresses DEF TypeInv, TypeOK, OriginalExclusive, ChangesOriginal
  <2>4. CallbackExclusive'
    BY <2>1, <2>2, Addresses DEF TypeInv, TypeOK, CallbackExclusive, ChangesCallback
  <2>5. AgentHolds'
    BY <2>1, <2>2, Addresses DEF TypeInv, TypeOK, AgentHolds, Adding, InRemoval, CodeIntact, OriginalRaced, nop, breakpoint
  <2>6. NoSavedBreakpoint'
    BY <2>1, <2>2, Addresses, ValueAssumption DEF TypeInv, TypeOK, NoSavedBreakpoint, AgentHolds, Adding, InRemoval, ValueAssumption, Byte, breakpoint
  <2>7. CodeIntact'
    BY <2>1, <2>2, Addresses DEF TypeInv, TypeOK, OriginalRaced, CallbackRaced, CodeIntact, AgentHolds, Adding, InRemoval
  <2>8. ArmedIsRegistered'
    BY <2>1, <2>2, Addresses DEF TypeInv, TypeOK, ArmedIsRegistered, Removing, AgentHolds, Adding, InRemoval
  <2>9. CoveredIsArmed'
    BY <2>1, <2>2, Addresses DEF TypeInv, TypeOK, CoveredIsArmed, Removing, AgentHolds, Adding, InRemoval
  <2>10. Outcomes'
    BY <2>1, <2>2, Addresses DEF TypeInv, TypeOK, OriginalRaced, CallbackRaced, Outcomes, FaithfulDispatch, EveryHitCallsBack, OpcodeTransparent
  <2> QED
    BY <2>3, <2>4, <2>5, <2>6, <2>7, <2>8, <2>9, <2>10
<1>9. agent.pc # "sweep"
  BY DEF AgentHolds
<1> QED
  BY <1>1, <1>2, <1>3, <1>4, <1>5, <1>6, <1>7, <1>8, <1>9
     DEF PairedCall, PairedCalls, AgentStep, SweepStop, SweepSkip, SweepFound, Registered, AtEnd

\* What the invariant says of one hit.
HitHolds(t) ==
  /\ hit[t].covered =>
       /\ hit[t].bcp \in Entry
       /\ memory[hit[t].bcp] = breakpoint
       /\ ~Removing(hit[t].bcp)
  /\ hit[t].covered /\ hit[t].rbx # Absent =>
       OriginalRaced \/ hit[t].rbx = Code[hit[t].bcp]
  /\ hit[t].covered /\ hit[t].opcode # Absent =>
       OriginalRaced \/ hit[t].opcode = Code[hit[t].bcp]
  /\ hit[t].covered /\ pc[t] \notin {"run", "get_original", "insert_original", "breakpoint"} =>
       CallbackRaced \/ hit[t].callback \in Callbacks

\* What is said of all hits, said of each.
LEMMA HitsHold ==
  (CoveredIsArmed /\ Outcomes) <=> \A t \in Threads : HitHolds(t)
BY DEF CoveredIsArmed, Outcomes, FaithfulDispatch, EveryHitCallsBack,
       OpcodeTransparent, OriginalRaced, CallbackRaced, HitHolds

\* What it says of the state the threads share.
SharedHolds == AgentHolds /\ NoSavedBreakpoint /\ CodeIntact /\ ArmedIsRegistered

OthersKept(t) == \A u \in Threads : u # t => pc'[u] = pc[u] /\ hit'[u] = hit[u]

RacesKept == /\ OriginalRaced => OriginalRaced'
             /\ CallbackRaced => CallbackRaced'

\* A thread that changes neither the code nor the maps keeps that part.
LEMMA SharedKept ==
  ASSUME SharedHolds, RacesKept,
         UNCHANGED <<memory, agent, original_bytecodes, breakpoint_callbacks>>
  PROVE  SharedHolds'
<1>1. AgentHolds'
  BY DEF SharedHolds, RacesKept, AgentHolds, Adding, InRemoval
<1>2. NoSavedBreakpoint'
  BY DEF SharedHolds, NoSavedBreakpoint
<1>3. CodeIntact'
  BY DEF SharedHolds, RacesKept, CodeIntact, OriginalRaced
<1>4. ArmedIsRegistered'
  BY DEF SharedHolds, RacesKept, ArmedIsRegistered, Removing
<1> QED
  BY <1>1, <1>2, <1>3, <1>4 DEF SharedHolds

\* Nor does a thread that inserts 0 for a key that is missing.
LEMMA OriginalInsertKept ==
  ASSUME SharedHolds, RacesKept, TypeInv, NEW a \in Entry,
         UNCHANGED <<memory, agent, breakpoint_callbacks>>,
         original_bytecodes' \in Inserted(original_bytecodes, a, nop),
         ~OriginalRaced => original_bytecodes[a] = Absent
  PROVE  SharedHolds'
<1>1. Code[a] # Absent /\ \A x \in Entry : Code[x] # Absent
  BY NotAByte, Addresses, ValueAssumption DEF ValueAssumption
<1>2. ASSUME ~OriginalRaced
      PROVE  \A x \in Entry : original_bytecodes[x] = Code[x] => original_bytecodes'[x] = Code[x]
  BY <1>1, <1>2, Addresses DEF Inserted, TypeInv, TypeOK
<1>3. AgentHolds'
  <2>1. Adding \/ InRemoval => agent.addr \in Entry
    BY DEF TypeInv, AgentAtEntry, Adding, InRemoval
  <2> QED
    BY <1>2, <2>1 DEF SharedHolds, RacesKept, AgentHolds, Adding, InRemoval
<1>4. NoSavedBreakpoint'
  BY Addresses DEF SharedHolds, NoSavedBreakpoint, Inserted, TypeInv, TypeOK, nop, breakpoint
<1>5. CodeIntact'
  BY DEF SharedHolds, RacesKept, CodeIntact, OriginalRaced
<1>6. ArmedIsRegistered'
  BY <1>2 DEF SharedHolds, RacesKept, ArmedIsRegistered, Removing
<1> QED
  BY <1>3, <1>4, <1>5, <1>6 DEF SharedHolds

\* The same for a thread that inserts an empty callback.
LEMMA CallbackInsertKept ==
  ASSUME SharedHolds, RacesKept, TypeInv, NEW a \in Entry,
         UNCHANGED <<memory, agent, original_bytecodes>>,
         breakpoint_callbacks' \in Inserted(breakpoint_callbacks, a, Empty),
         ~CallbackRaced => breakpoint_callbacks[a] = Absent
  PROVE  SharedHolds'
<1>1. Absent \notin Callbacks
  BY ValueAssumption DEF ValueAssumption
<1>2. ASSUME ~CallbackRaced
      PROVE  \A x \in Entry : breakpoint_callbacks[x] \in Callbacks =>
               breakpoint_callbacks'[x] = breakpoint_callbacks[x]
  BY <1>1, <1>2, Addresses DEF Inserted, TypeInv, TypeOK
<1>3. AgentHolds'
  <2>1. Adding \/ InRemoval => agent.addr \in Entry
    BY DEF TypeInv, AgentAtEntry, Adding, InRemoval
  <2> QED
    BY <1>2, <2>1 DEF SharedHolds, RacesKept, AgentHolds, Adding, InRemoval
<1>4. NoSavedBreakpoint'
  BY DEF SharedHolds, NoSavedBreakpoint
<1>5. CodeIntact'
  BY DEF SharedHolds, RacesKept, CodeIntact, OriginalRaced
<1>6. ArmedIsRegistered'
  BY <1>2 DEF SharedHolds, RacesKept, ArmedIsRegistered, Removing
<1> QED
  BY <1>3, <1>4, <1>5, <1>6 DEF SharedHolds

\* A thread that does not enter a window of original_bytecodes: it leaves the
\* map alone, or was in a window itself.
LEMMA OriginalWindowKept ==
  ASSUME OriginalExclusive, RacesKept, NEW t \in Threads, OthersKept(t), UNCHANGED agent,
         pc'[t] \notin {"insert_original", "insert_opcode"},
         UNCHANGED original_bytecodes \/ ChangesOriginal(t)
  PROVE  OriginalExclusive'
BY DEF OriginalExclusive, RacesKept, OthersKept, ChangesOriginal

\* A thread that enters one: it missed its key, and a second thread is a race.
LEMMA OriginalWindowEntered ==
  ASSUME OriginalExclusive, RacesKept, NEW t \in Threads, OthersKept(t), UNCHANGED agent,
         hit'[t].bcp = hit[t].bcp, UNCHANGED original_bytecodes,
         Busy("original_bytecodes", t) => OriginalRaced',
         ~OriginalRaced' => original_bytecodes[hit[t].bcp] = Absent
  PROVE  OriginalExclusive'
BY BusyMaps DEF OriginalExclusive, RacesKept, OthersKept, ChangesOriginal

\* The same for the windows of breakpoint_callbacks.
LEMMA CallbackWindowKept ==
  ASSUME CallbackExclusive, RacesKept, NEW t \in Threads, OthersKept(t), UNCHANGED agent,
         pc'[t] # "insert_callback",
         UNCHANGED breakpoint_callbacks \/ ChangesCallback(t)
  PROVE  CallbackExclusive'
BY DEF CallbackExclusive, RacesKept, OthersKept, ChangesCallback

\* Entering one of those.
LEMMA CallbackWindowEntered ==
  ASSUME CallbackExclusive, RacesKept, NEW t \in Threads, OthersKept(t), UNCHANGED agent,
         hit'[t].bcp = hit[t].bcp, UNCHANGED breakpoint_callbacks,
         Busy("breakpoint_callbacks", t) => CallbackRaced',
         ~CallbackRaced' => breakpoint_callbacks[hit[t].bcp] = Absent
  PROVE  CallbackExclusive'
BY BusyMaps DEF CallbackExclusive, RacesKept, OthersKept, ChangesCallback

\* The other threads' hits are what they were.
LEMMA ThreadKeeps ==
  ASSUME PairedInv, RacesKept, NEW t \in Threads, OthersKept(t), UNCHANGED <<memory, agent>>,
         SharedHolds', OriginalExclusive', CallbackExclusive', HitHolds(t)'
  PROVE  PairedInv'
<1>1. ASSUME NEW u \in Threads, u # t
      PROVE  HitHolds(u)'
  <2>1. HitHolds(u)
    BY HitsHold DEF PairedInv
  <2>2. pc'[u] = pc[u] /\ hit'[u] = hit[u]
    BY <1>1 DEF OthersKept
  <2> QED
    BY <2>1, <2>2 DEF HitHolds, RacesKept, Removing
<1>2. (\A u \in Threads : HitHolds(u))'
  BY <1>1
<1>3. (CoveredIsArmed /\ Outcomes)'
  BY <1>2 DEF CoveredIsArmed, Outcomes, FaithfulDispatch, EveryHitCallsBack,
              OpcodeTransparent, OriginalRaced, CallbackRaced, HitHolds
<1> QED
  BY <1>3 DEF PairedInv, SharedHolds

\* The steps of a Java thread keep the invariant.
LEMMA PairedThread ==
  ASSUME TypeInv, PairedInv, NEW t \in Threads, ThreadStep(t)
  PROVE  PairedInv'
<1> DEFINE h == hit[t]
<1>1. /\ SharedHolds /\ OriginalExclusive /\ CallbackExclusive /\ HitHolds(t)
  BY HitsHold DEF PairedInv, SharedHolds
<1>2. /\ h \in HitType /\ hit \in [Threads -> HitType] /\ pc \in [Threads -> ThreadPc]
      /\ pc[t] # "run" => h.bcp \in Entry
  BY DEF TypeInv, TypeOK
<1>3. /\ Absent \notin Callbacks /\ Empty \notin Callbacks
      /\ \A a \in Entry : Code[a] # Absent
  BY NotAByte, Addresses, ValueAssumption DEF ValueAssumption
<1>4. /\ h.covered /\ ~OriginalRaced => original_bytecodes[h.bcp] = Code[h.bcp]
      /\ h.covered /\ ~CallbackRaced => breakpoint_callbacks[h.bcp] \in Callbacks
  BY <1>1 DEF HitHolds, SharedHolds, ArmedIsRegistered
<1>5. CASE Fetch(t)
  <2>1. PICK a \in Entry : /\ memory[a] = breakpoint
                           /\ hit' = [hit EXCEPT ![t] = NewHit(a, ~Removing(a))]
    BY <1>5 DEF Fetch
  <2>2. /\ OthersKept(t) /\ RacesKept /\ pc'[t] = "get_original"
        /\ UNCHANGED <<memory, agent, original_bytecodes, breakpoint_callbacks>>
    BY <1>2, <1>5 DEF Fetch, OthersKept, RacesKept, OriginalRaced, CallbackRaced, maps
  <2>3. hit'[t] = NewHit(a, ~Removing(a))
    BY <1>2, <2>1
  <2>4. HitHolds(t)'
    <3>1. /\ hit'[t].bcp = a /\ hit'[t].covered = ~Removing(a)
          /\ hit'[t].rbx = Absent /\ hit'[t].opcode = Absent
      BY <2>3 DEF NewHit, NoHit
    <3> QED
      BY <2>1, <2>2, <3>1 DEF HitHolds, Removing
  <2> QED
    BY <1>1, <2>2, <2>4, SharedKept, OriginalWindowKept, CallbackWindowKept, ThreadKeeps
<1>6. CASE OriginalBytecodeHandler(t)
  <2>1. /\ OthersKept(t) /\ RacesKept /\ pc[t] = "get_original"
        /\ UNCHANGED <<memory, agent, original_bytecodes, breakpoint_callbacks>>
        /\ Busy("original_bytecodes", t) => OriginalRaced'
        /\ CallbackRaced' <=> CallbackRaced
    BY <1>2, <1>6 DEF OriginalBytecodeHandler, OthersKept, RacesKept, Access,
                      OriginalRaced, CallbackRaced, maps
  <2>2. CASE /\ original_bytecodes[h.bcp] # Absent
             /\ hit' = [hit EXCEPT ![t].rbx = original_bytecodes[h.bcp]]
             /\ pc' = [pc EXCEPT ![t] = "breakpoint"]
    <3>1. /\ hit'[t] = [h EXCEPT !.rbx = original_bytecodes[h.bcp]]
          /\ pc'[t] = "breakpoint"
      BY <1>2, <2>2
    <3>2. HitHolds(t)'
      BY <1>1, <1>2, <1>4, <2>1, <3>1 DEF HitHolds, HitType, RacesKept, Removing
    <3> QED
      BY <1>1, <2>1, <3>1, <3>2, SharedKept, OriginalWindowKept, CallbackWindowKept, ThreadKeeps
  <2>3. CASE /\ original_bytecodes[h.bcp] = Absent \/ Busy("original_bytecodes", t)
             /\ pc' = [pc EXCEPT ![t] = "insert_original"]
             /\ UNCHANGED hit
    <3>1. hit'[t] = h /\ pc'[t] = "insert_original"
      BY <1>2, <2>3
    <3>2. HitHolds(t)'
      BY <1>1, <2>1, <3>1 DEF HitHolds, RacesKept, Removing
    <3>3. OriginalExclusive'
      BY <1>1, <2>1, <2>3, <3>1, OriginalWindowEntered
    <3> QED
      BY <1>1, <2>1, <3>1, <3>2, <3>3, SharedKept, CallbackWindowKept, ThreadKeeps
  <2> QED
    BY <1>6, <2>2, <2>3 DEF OriginalBytecodeHandler
<1>7. CASE OriginalInserted(t)
  <2>1. /\ OthersKept(t) /\ RacesKept
        /\ pc[t] = "insert_original" /\ pc'[t] = "breakpoint"
        /\ UNCHANGED <<memory, agent, breakpoint_callbacks>>
        /\ original_bytecodes' \in Inserted(original_bytecodes, h.bcp, nop)
        /\ hit'[t] = [h EXCEPT !.rbx = nop]
    BY <1>2, <1>7 DEF OriginalInserted, OthersKept, RacesKept, OriginalRaced, CallbackRaced
  <2>2. /\ ~OriginalRaced => original_bytecodes[h.bcp] = Absent
        /\ ~OriginalRaced => ~h.covered
    BY <1>1, <1>2, <1>3, <1>4, <2>1 DEF OriginalExclusive, ChangesOriginal
  <2>3. HitHolds(t)'
    BY <1>1, <1>2, <2>1, <2>2 DEF HitHolds, HitType, RacesKept, Removing
  <2>4. SharedHolds'
    BY <1>1, <1>2, <2>1, <2>2, OriginalInsertKept
  <2> QED
    BY <1>1, <2>1, <2>3, <2>4, OriginalWindowKept, CallbackWindowKept, ThreadKeeps
       DEF ChangesOriginal
<1>8. CASE BreakpointHandler(t)
  <2>1. /\ OthersKept(t) /\ RacesKept /\ pc[t] = "breakpoint"
        /\ UNCHANGED <<memory, agent, original_bytecodes, breakpoint_callbacks>>
        /\ Busy("breakpoint_callbacks", t) => CallbackRaced'
        /\ OriginalRaced' <=> OriginalRaced
    BY <1>2, <1>8 DEF BreakpointHandler, OthersKept, RacesKept, Access,
                      OriginalRaced, CallbackRaced, maps
  <2>2. CASE /\ breakpoint_callbacks[h.bcp] # Absent
             /\ hit' = [hit EXCEPT ![t].callback = breakpoint_callbacks[h.bcp]]
             /\ pc' = [pc EXCEPT ![t] = IF breakpoint_callbacks[h.bcp] = Empty
                                        THEN "dispatch" ELSE "find"]
    <3>1. /\ hit'[t] = [h EXCEPT !.callback = breakpoint_callbacks[h.bcp]]
          /\ pc'[t] \in {"dispatch", "find"}
      BY <1>2, <2>2
    <3>2. HitHolds(t)'
      BY <1>1, <1>2, <1>4, <2>1, <3>1 DEF HitHolds, HitType, RacesKept, Removing
    <3> QED
      BY <1>1, <2>1, <3>1, <3>2, SharedKept, OriginalWindowKept, CallbackWindowKept, ThreadKeeps
  <2>3. CASE /\ breakpoint_callbacks[h.bcp] = Absent \/ Busy("breakpoint_callbacks", t)
             /\ pc' = [pc EXCEPT ![t] = "insert_callback"]
             /\ UNCHANGED hit
    <3>1. hit'[t] = h /\ pc'[t] = "insert_callback"
      BY <1>2, <2>3
    <3>2. HitHolds(t)'
      BY <1>1, <1>3, <1>4, <2>1, <2>3, <3>1 DEF HitHolds, RacesKept, Removing
    <3>3. CallbackExclusive'
      BY <1>1, <2>1, <2>3, <3>1, CallbackWindowEntered
    <3> QED
      BY <1>1, <2>1, <3>1, <3>2, <3>3, SharedKept, OriginalWindowKept, ThreadKeeps
  <2> QED
    BY <1>8, <2>2, <2>3 DEF BreakpointHandler
<1>9. CASE CallbackInserted(t)
  <2>1. /\ OthersKept(t) /\ RacesKept
        /\ pc[t] = "insert_callback" /\ pc'[t] = "dispatch"
        /\ UNCHANGED <<memory, agent, original_bytecodes>>
        /\ breakpoint_callbacks' \in Inserted(breakpoint_callbacks, h.bcp, Empty)
        /\ hit'[t] = [h EXCEPT !.callback = Empty]
    BY <1>2, <1>9 DEF CallbackInserted, OthersKept, RacesKept, OriginalRaced, CallbackRaced
  <2>2. /\ ~CallbackRaced => breakpoint_callbacks[h.bcp] = Absent
        /\ ~CallbackRaced => ~h.covered
    BY <1>1, <1>2, <1>3, <1>4, <2>1 DEF CallbackExclusive, ChangesCallback
  <2>3. HitHolds(t)'
    BY <1>1, <1>2, <2>1, <2>2 DEF HitHolds, HitType, RacesKept, Removing
  <2>4. SharedHolds'
    BY <1>1, <1>2, <2>1, <2>2, CallbackInsertKept
  <2> QED
    BY <1>1, <2>1, <2>3, <2>4, OriginalWindowKept, CallbackWindowKept, ThreadKeeps
       DEF ChangesCallback
<1>10. ASSUME NEW b \in Byte, GetOpcodeReturns(t, b), RacesKept, OthersKept(t),
              UNCHANGED <<memory, agent>>, SharedHolds',
              pc[t] \in {"find", "index", "insert_opcode"},
              h.covered /\ ~OriginalRaced' => b = Code[h.bcp],
              UNCHANGED original_bytecodes \/ ChangesOriginal(t),
              UNCHANGED breakpoint_callbacks
       PROVE  PairedInv'
  <2>1. /\ pc'[t] \in {"callback", "offsets"}
        /\ hit'[t] = h \/ hit'[t] = [h EXCEPT !.opcode = b]
    BY <1>2, <1>10 DEF GetOpcodeReturns
  <2>2. HitHolds(t)'
    BY <1>1, <1>2, <1>10, <2>1 DEF HitHolds, HitType, RacesKept, Removing
  <2> QED
    BY <1>1, <1>10, <2>1, <2>2, OriginalWindowKept, CallbackWindowKept, ThreadKeeps
<1>11. CASE GetOpcodeFind(t)
  <2>1. /\ OthersKept(t) /\ RacesKept /\ pc[t] = "find"
        /\ UNCHANGED <<memory, agent, original_bytecodes, breakpoint_callbacks>>
        /\ Busy("original_bytecodes", t) => OriginalRaced'
    BY <1>2, <1>11 DEF GetOpcodeFind, GetOpcodeReturns, OthersKept, RacesKept, Access,
                       OriginalRaced, CallbackRaced, maps, Registered
  <2>2. CASE pc' = [pc EXCEPT ![t] = "index"] /\ UNCHANGED hit
    <3>1. hit'[t] = h /\ pc'[t] = "index"
      BY <1>2, <2>2
    <3>2. HitHolds(t)'
      BY <1>1, <2>1, <3>1 DEF HitHolds, RacesKept, Removing
    <3> QED
      BY <1>1, <2>1, <3>1, <3>2, SharedKept, OriginalWindowKept, CallbackWindowKept, ThreadKeeps
  <2>3. CASE /\ original_bytecodes[h.bcp] = Absent \/ Busy("original_bytecodes", t)
             /\ GetOpcodeReturns(t, memory[h.bcp])
    <3>1. memory[h.bcp] \in Byte /\ h.bcp \in Entry
      BY <1>2, <2>1, Addresses DEF TypeInv, TypeOK
    <3>2. ~(h.covered /\ ~OriginalRaced')
      BY <1>3, <1>4, <2>1, <2>3, <3>1 DEF RacesKept
    <3> QED
      BY <1>1, <1>10, <2>1, <2>3, <3>1, <3>2, SharedKept
  <2> QED
    BY <1>11, <2>2, <2>3 DEF GetOpcodeFind, Registered
<1>12. CASE GetOpcodeIndex(t)
  <2>1. /\ OthersKept(t) /\ RacesKept /\ pc[t] = "index"
        /\ UNCHANGED <<memory, agent, original_bytecodes, breakpoint_callbacks>>
        /\ Busy("original_bytecodes", t) => OriginalRaced'
    BY <1>2, <1>12 DEF GetOpcodeIndex, GetOpcodeReturns, OthersKept, RacesKept, Access,
                       OriginalRaced, CallbackRaced, maps
  <2>2. CASE /\ original_bytecodes[h.bcp] # Absent
             /\ GetOpcodeReturns(t, original_bytecodes[h.bcp])
    <3>1. original_bytecodes[h.bcp] \in Byte
      BY <1>2, <2>1, <2>2, Addresses DEF TypeInv, TypeOK
    <3>2. h.covered /\ ~OriginalRaced' => original_bytecodes[h.bcp] = Code[h.bcp]
      BY <1>4, <2>1 DEF RacesKept
    <3> QED
      BY <1>1, <1>10, <2>1, <2>2, <3>1, <3>2, SharedKept
  <2>3. CASE /\ original_bytecodes[h.bcp] = Absent \/ Busy("original_bytecodes", t)
             /\ pc' = [pc EXCEPT ![t] = "insert_opcode"]
             /\ UNCHANGED hit
    <3>1. hit'[t] = h /\ pc'[t] = "insert_opcode"
      BY <1>2, <2>3
    <3>2. HitHolds(t)'
      BY <1>1, <2>1, <3>1 DEF HitHolds, RacesKept, Removing
    <3>3. OriginalExclusive'
      BY <1>1, <2>1, <2>3, <3>1, OriginalWindowEntered
    <3> QED
      BY <1>1, <2>1, <3>1, <3>2, <3>3, SharedKept, CallbackWindowKept, ThreadKeeps
  <2> QED
    BY <1>12, <2>2, <2>3 DEF GetOpcodeIndex
<1>13. CASE GetOpcodeInserted(t)
  <2>1. /\ OthersKept(t) /\ RacesKept /\ pc[t] = "insert_opcode"
        /\ UNCHANGED <<memory, agent, breakpoint_callbacks>>
        /\ original_bytecodes' \in Inserted(original_bytecodes, h.bcp, nop)
        /\ OriginalRaced' <=> OriginalRaced
        /\ GetOpcodeReturns(t, nop)
    BY <1>2, <1>13 DEF GetOpcodeInserted, GetOpcodeReturns, OthersKept, RacesKept,
                       OriginalRaced, CallbackRaced
  <2>2. /\ ~OriginalRaced => original_bytecodes[h.bcp] = Absent
        /\ ~OriginalRaced => ~h.covered
    BY <1>1, <1>2, <1>3, <1>4, <2>1 DEF OriginalExclusive, ChangesOriginal
  <2>3. SharedHolds'
    BY <1>1, <1>2, <2>1, <2>2, OriginalInsertKept
  <2>4. nop \in Byte
    BY DEF nop, Byte
  <2> QED
    BY <1>10, <2>1, <2>2, <2>3, <2>4 DEF ChangesOriginal
<1>14. CASE StoreOffset(t) \/ OffsetInserted(t) \/ CallbackAsks(t) \/ CallbackReturns(t)
  <2>1. /\ OthersKept(t) /\ RacesKept
        /\ pc[t] \in {"offsets", "insert_offset", "callback"}
        /\ pc'[t] \in {"insert_offset", "callback", "find", "dispatch"}
        /\ UNCHANGED <<memory, agent, original_bytecodes, breakpoint_callbacks>>
    BY <1>2, <1>14 DEF StoreOffset, OffsetInserted, CallbackAsks, CallbackReturns,
                       OthersKept, RacesKept, Access, OriginalRaced, CallbackRaced, maps
  <2>2. \E i \in BOOLEAN : hit'[t] = [h EXCEPT !.info = i]
    BY <1>2, <1>14 DEF StoreOffset, OffsetInserted, CallbackAsks, CallbackReturns, HitType
  <2>3. HitHolds(t)'
    BY <1>1, <1>2, <2>1, <2>2 DEF HitHolds, HitType, RacesKept, Removing
  <2> QED
    BY <1>1, <2>1, <2>3, SharedKept, OriginalWindowKept, CallbackWindowKept, ThreadKeeps
<1>15. CASE Dispatch(t)
  <2>1. /\ OthersKept(t) /\ RacesKept
        /\ UNCHANGED <<memory, agent, original_bytecodes, breakpoint_callbacks>>
        /\ \/ pc'[t] = "run" /\ hit'[t] = NoHit
           \/ pc'[t] = "get_original" /\ hit'[t] = NewHit(h.bcp, h.covered)
    BY <1>2, <1>15 DEF Dispatch, OthersKept, RacesKept, OriginalRaced, CallbackRaced, maps
  <2>2. HitHolds(t)'
    <3>1. CASE hit'[t] = NoHit
      BY <3>1 DEF HitHolds, NoHit
    <3>2. CASE pc'[t] = "get_original" /\ hit'[t] = NewHit(h.bcp, h.covered)
      <4>1. /\ hit'[t].bcp = h.bcp /\ hit'[t].covered = h.covered
            /\ hit'[t].rbx = Absent /\ hit'[t].opcode = Absent
        BY <3>2 DEF NewHit, NoHit
      <4> QED
        BY <1>1, <2>1, <3>2, <4>1 DEF HitHolds, Removing
    <3> QED
      BY <2>1, <3>1, <3>2
  <2>3. pc'[t] \in {"run", "get_original"}
    BY <2>1
  <2> QED
    BY <1>1, <2>1, <2>2, <2>3, SharedKept, OriginalWindowKept, CallbackWindowKept, ThreadKeeps
<1> QED
  BY <1>5, <1>6, <1>7, <1>8, <1>9, <1>11, <1>12, <1>13, <1>14, <1>15
     DEF ThreadStep, HandlerStep

\* A paired client is one that names instructions.
LEMMA PairedType == PairedSpec => []TypeInv
<1>1. TypeInv /\ [PairedNext]_vars => TypeInv'
  <2>1. PairedCall => Calls(Entry)
    BY DEF PairedCall, PairedCalls, Calls
  <2> QED
    BY <2>1, TypeStep DEF PairedNext
<1> QED
  BY TypeInit, <1>1, PTL DEF PairedSpec

\* A step that changes nothing keeps the invariant.
LEMMA PairedStutter == PairedInv /\ UNCHANGED vars => PairedInv'
BY DEF PairedInv, OriginalExclusive, CallbackExclusive, AgentHolds, NoSavedBreakpoint,
       CodeIntact, ArmedIsRegistered, CoveredIsArmed, Outcomes, FaithfulDispatch,
       EveryHitCallsBack, OpcodeTransparent, OriginalRaced, CallbackRaced,
       ChangesOriginal, ChangesCallback, Adding, InRemoval, Removing, vars

\* The invariant holds in every state a paired client can reach.
LEMMA PairedInvariant == PairedSpec => []PairedInv
<1>1. TypeInv /\ TypeInv' /\ PairedInv /\ [PairedNext]_vars => PairedInv'
  BY PairedAgent, PairedThread, PairedStutter DEF PairedNext
<1> QED
  BY PairedType, PairedInit, <1>1, PTL DEF PairedSpec

\* What a thread that meets a breakpoint can rely on, while nobody removes the
\* breakpoint and no data race has happened: it dispatches the original opcode.
THEOREM HitsCorrect == PairedSpec => []FaithfulDispatch
<1>1. PairedInv => FaithfulDispatch
  BY DEF PairedInv, Outcomes
<1> QED
  BY PairedInvariant, <1>1, PTL

\* It calls a callback of the client before it passes the breakpoint.
THEOREM CallbacksCorrect == PairedSpec => []EveryHitCallsBack
<1>1. PairedInv => EveryHitCallsBack
  BY DEF PairedInv, Outcomes
<1> QED
  BY PairedInvariant, <1>1, PTL

\* And it tells that callback the original opcode.
THEOREM OpcodesCorrect == PairedSpec => []OpcodeTransparent
<1>1. PairedInv => OpcodeTransparent
  BY DEF PairedInv, Outcomes
<1> QED
  BY PairedInvariant, <1>1, PTL

\* A paired client leaves the code as the class loader made it, up to the 0xCA
\* of the breakpoints that are set.
THEOREM CodeCorrect == PairedSpec => []CodeIntact
<1>1. PairedInv => CodeIntact
  BY DEF PairedInv
<1> QED
  BY PairedInvariant, <1>1, PTL

\* The original byte of every 0xCA in the code can be found.
THEOREM RecoveryCorrect == PairedSpec => []ArmedIsRecoverable
<1>1. PairedInv => ArmedIsRecoverable
  BY DEF PairedInv, ArmedIsRegistered, ArmedIsRecoverable, AgentHolds, InRemoval,
         Removing, OriginalRaced
<1> QED
  BY PairedInvariant, <1>1, PTL

-----------------------------------------------------------------------------
(* The sweep, for the client that pairs its calls on instructions and sweeps *)

\* The code is that of one method: its sweep begins at or before its first
\* instruction, and every 0xFF, also in an operand, is behind the last one.
OneMethodCode ==
  /\ \A m \in Methods, a \in Entry : Start[m] <= a
  /\ \A a \in Address : Code[a] = invalid => \A b \in Entry : b < a

\* What ends a sweep was there when the code was loaded: no removal writes it.
EndsLoaded ==
  /\ \A a \in Address : memory[a] = invalid \/ original_bytecodes[a] = invalid =>
                          Code[a] = invalid
  /\ agent.byte = invalid => Code[agent.addr] = invalid

\* No removal sets a breakpoint on an instruction; on an operand it may.
NoneRestored ==
  /\ \A a \in Entry : original_bytecodes[a] # breakpoint
  /\ agent.addr \in Entry => agent.byte # breakpoint
  /\ agent.pc = "sweep" => agent.byte = nop

\* An 0xCA has a key, raced on or not: only its removal erases it.
ArmedHasKey ==
  /\ \A a \in Entry : memory[a] = breakpoint /\ ~Removing(a) => original_bytecodes[a] # Absent
  /\ agent.pc \in {"add_callback", "add_arm"} => original_bytecodes[agent.addr] # Absent

\* Behind a sweep no 0xCA is left.
SweptIsClear ==
  /\ agent.pc = "sweep" => agent.all
  /\ Adding => ~agent.all
  /\ agent.all => OriginalRaced \/ \A a \in Entry : a < agent.addr => memory[a] # breakpoint

SweepInv == EndsLoaded /\ NoneRestored /\ ArmedHasKey /\ SweptIsClear

LEMMA SweepInit == ASSUME OneMethodCode PROVE Init => SweepInv
<1> SUFFICES ASSUME Init PROVE SweepInv
  OBVIOUS
<1>1. Absent # breakpoint /\ Absent # invalid
  BY NotAByte DEF Byte, breakpoint, invalid
<1>2. EndsLoaded /\ NoneRestored
  BY <1>1, CodeAssumption DEF CodeAssumption, Init, Idle, EndsLoaded, NoneRestored, nop,
     breakpoint, invalid
<1>3. ArmedHasKey
  BY CodeAssumption DEF CodeAssumption, Init, Idle, ArmedHasKey
<1>4. SweptIsClear
  BY DEF Init, Idle, SweptIsClear, Adding
<1> QED
  BY <1>2, <1>3, <1>4 DEF SweepInv

\* The calls.  None of them starts while another is in progress.
LEMMA SweepCalls ==
  ASSUME OneMethodCode, TypeOK, SweepInv, SweepCall
  PROVE  SweepInv'
<1>1. ASSUME NEW a \in Targets, NEW callback \in Callbacks,
             a \in Entry => memory[a] # breakpoint, AddBreakpoint(a, callback)
      PROVE  SweepInv'
  <2>0. a \in Address
    BY CodeAssumption DEF CodeAssumption
  <2>1. /\ agent'.pc = "add_original" /\ agent'.addr = a /\ agent'.byte = memory[a]
        /\ ~agent'.all
    BY <1>1 DEF AddBreakpoint, Idle, SavedByte
  <2>2. UNCHANGED <<memory, original_bytecodes>> /\ agent.pc = "idle"
    BY <1>1 DEF AddBreakpoint, maps
  <2>3. EndsLoaded' /\ NoneRestored'
    BY <1>1, <2>0, <2>1, <2>2 DEF SweepInv, EndsLoaded, NoneRestored
  <2>4. ArmedHasKey'
    BY <2>1, <2>2 DEF SweepInv, ArmedHasKey, Removing
  <2>5. SweptIsClear'
    BY <2>1 DEF SweptIsClear
  <2> QED
    BY <2>3, <2>4, <2>5 DEF SweepInv
<1>2. ASSUME NEW a \in Targets, RemoveBreakpoint(a) PROVE SweepInv'
  <2>1. /\ agent'.pc = "remove_original" /\ agent'.addr = a /\ ~agent'.all
        /\ agent'.byte = original_bytecodes[a] \/ agent'.byte = nop
    BY <1>2 DEF RemoveBreakpoint, Idle
  <2>2. UNCHANGED memory /\ agent.pc = "idle" /\ a \in Address
    BY <1>2, CodeAssumption DEF CodeAssumption, RemoveBreakpoint
  <2>3. \A b \in Address : \/ original_bytecodes'[b] = original_bytecodes[b]
                           \/ b = a /\ original_bytecodes'[b] = nop
    BY <1>2 DEF RemoveBreakpoint, Inserted, TypeOK
  <2>4. EndsLoaded' /\ NoneRestored'
    BY <2>1, <2>2, <2>3, Addresses DEF SweepInv, EndsLoaded, NoneRestored, nop,
       breakpoint, invalid
  <2>5. ArmedHasKey'
    <3>1. nop # Absent
      BY NotAByte DEF nop, Byte
    <3>2. \A b \in Entry : b \in Address
      BY Addresses
    <3>3. agent'.pc \notin {"add_callback", "add_arm"} /\ \A b : ~Removing(b)
      BY <2>1, <2>2 DEF Removing
    <3> QED
      BY <2>1, <2>2, <2>3, <3>1, <3>2, <3>3 DEF SweepInv, ArmedHasKey
  <2>6. SweptIsClear'
    BY <2>1 DEF SweptIsClear, Adding
  <2> QED
    BY <2>4, <2>5, <2>6 DEF SweepInv
<1>3. ASSUME NEW m \in Methods, RemoveAllBreakpoints(Start[m]) PROVE SweepInv'
  <2>1. /\ agent'.pc = "sweep" /\ agent'.addr = Start[m] /\ agent'.byte = nop
        /\ UNCHANGED <<memory, original_bytecodes>> /\ agent.pc = "idle"
    BY <1>3 DEF RemoveAllBreakpoints, Idle, maps
  <2>2. agent'.all
    BY <1>3 DEF RemoveAllBreakpoints, Idle
  <2>3. \A a \in Entry : ~(a < Start[m])
    <3>1. Start[m] \in Entry
      BY CodeAssumption DEF CodeAssumption
    <3>2. \A a \in Entry : a \in Int
      BY CodeAssumption DEF CodeAssumption, Address
    <3> QED
      BY <3>1, <3>2 DEF OneMethodCode
  <2>4. EndsLoaded' /\ NoneRestored'
    BY <2>1 DEF SweepInv, EndsLoaded, NoneRestored, nop, breakpoint, invalid
  <2>5. ArmedHasKey'
    BY <2>1 DEF SweepInv, ArmedHasKey, Removing
  <2>6. SweptIsClear'
    BY <2>1, <2>2, <2>3 DEF SweptIsClear, Adding
  <2> QED
    BY <2>4, <2>5, <2>6 DEF SweepInv
<1> QED
  BY <1>1, <1>2, <1>3 DEF SweepCall, PairedCalls, Calls

\* The steps inside a call.
LEMMA SweepAgent ==
  ASSUME TypeOK, SweepInv, AgentStep
  PROVE  SweepInv'
<1> USE DEF SweepInv
<1>1. /\ agent \in AgentType /\ agent.addr \in Address
      /\ memory \in [Address -> Byte] /\ original_bytecodes \in [Address -> Byte \cup {Absent}]
      /\ Entry \subseteq Address
  BY Addresses DEF TypeOK, AgentType
<1>2. agent.byte # Absent /\ Absent # breakpoint /\ Absent # invalid
  BY <1>1, NotAByte DEF AgentType, Byte, breakpoint, invalid
<1>3. CASE AddOriginal
  <2>1. /\ agent.pc = "add_original" /\ agent'.pc = "add_callback" /\ agent'.addr = agent.addr
        /\ agent'.byte = agent.byte /\ agent'.all = agent.all /\ UNCHANGED memory
        /\ original_bytecodes' = [original_bytecodes EXCEPT ![agent.addr] = agent.byte]
    BY <1>1, <1>3 DEF AddOriginal, Assigned, AgentType
  <2>2. original_bytecodes'[agent.addr] = agent.byte
        /\ \A a \in Address : a # agent.addr => original_bytecodes'[a] = original_bytecodes[a]
    BY <1>1, <2>1
  <2>3. EndsLoaded' /\ NoneRestored'
    BY <2>1, <2>2 DEF EndsLoaded, NoneRestored
  <2>4. ArmedHasKey'
    BY <1>1, <1>2, <2>1, <2>2 DEF ArmedHasKey, Removing
  <2>5. SweptIsClear'
    BY <2>1 DEF SweptIsClear, Adding
  <2> QED
    BY <2>3, <2>4, <2>5
<1>4. CASE AddCallback
  <2>1. /\ agent.pc = "add_callback" /\ agent'.pc = "add_arm" /\ agent'.addr = agent.addr
        /\ agent'.byte = agent.byte /\ agent'.all = agent.all
        /\ UNCHANGED <<memory, original_bytecodes>>
    BY <1>1, <1>4 DEF AddCallback, AgentType
  <2>2. EndsLoaded' /\ NoneRestored' /\ ArmedHasKey' /\ SweptIsClear'
    BY <2>1 DEF EndsLoaded, NoneRestored, ArmedHasKey, SweptIsClear, Removing, Adding
  <2> QED
    BY <2>2
<1>5. CASE AddArm
  <2>1. /\ agent.pc = "add_arm" /\ agent'.pc = "idle" /\ agent'.byte = nop /\ ~agent'.all
        /\ UNCHANGED original_bytecodes
        /\ memory' = [memory EXCEPT ![agent.addr] = breakpoint]
    BY <1>5 DEF AddArm, Idle, maps
  <2>2. \A a \in Entry : IF a = agent.addr THEN memory'[a] = breakpoint
                         ELSE memory'[a] = memory[a]
    BY <1>1, <2>1
  <2>3. EndsLoaded' /\ NoneRestored'
    BY <2>1, <2>2 DEF EndsLoaded, NoneRestored, nop, breakpoint, invalid
  <2>4. ArmedHasKey'
    BY <2>1, <2>2 DEF ArmedHasKey, Removing
  <2>5. SweptIsClear'
    BY <2>1 DEF SweptIsClear, Adding
  <2> QED
    BY <2>3, <2>4, <2>5
<1>6. CASE RemoveOriginal
  <2>1. /\ agent.pc = "remove_original" /\ agent'.pc = "remove_callback"
        /\ agent'.addr = agent.addr /\ agent'.byte = agent.byte /\ agent'.all = agent.all
        /\ UNCHANGED memory /\ (OriginalRaced => OriginalRaced')
        /\ original_bytecodes' = [original_bytecodes EXCEPT ![agent.addr] = Absent]
    BY <1>1, <1>6 DEF RemoveOriginal, AgentType, OriginalRaced, Access
  <2>2. original_bytecodes'[agent.addr] = Absent
        /\ \A a \in Address : a # agent.addr => original_bytecodes'[a] = original_bytecodes[a]
    BY <1>1, <2>1
  <2>3. EndsLoaded' /\ NoneRestored'
    BY <1>2, <2>1, <2>2 DEF EndsLoaded, NoneRestored
  <2>4. ArmedHasKey'
    BY <1>1, <2>1, <2>2 DEF ArmedHasKey, Removing
  <2>5. SweptIsClear'
    BY <2>1 DEF SweptIsClear, Adding
  <2> QED
    BY <2>3, <2>4, <2>5
<1>7. CASE RemoveCallback
  <2>1. /\ agent.pc = "remove_callback" /\ agent'.pc = "remove_restore"
        /\ agent'.addr = agent.addr /\ agent'.byte = agent.byte /\ agent'.all = agent.all
        /\ UNCHANGED <<memory, original_bytecodes, raced>>
    BY <1>1, <1>7 DEF RemoveCallback, AgentType
  <2>2. EndsLoaded' /\ NoneRestored' /\ ArmedHasKey' /\ SweptIsClear'
    BY <2>1 DEF EndsLoaded, NoneRestored, ArmedHasKey, SweptIsClear, Removing, Adding, OriginalRaced
  <2> QED
    BY <2>2
<1>8. CASE RemoveRestore
  <2>1. /\ agent.pc = "remove_restore" /\ UNCHANGED <<original_bytecodes, raced>>
        /\ memory' = [memory EXCEPT ![agent.addr] = agent.byte]
        /\ agent'.pc \in {"idle", "sweep"} /\ agent'.byte = nop
        /\ agent'.all = agent.all /\ (agent'.pc = "sweep" => agent.all)
        /\ agent.all => agent'.addr = agent.addr + 1
    BY <1>1, <1>8 DEF RemoveRestore, Idle, maps, AgentType
  <2>2. \A a \in Entry : IF a = agent.addr THEN memory'[a] = agent.byte
                         ELSE memory'[a] = memory[a]
    BY <1>1, <2>1
  <2>3. agent.addr \in Entry => agent.byte # breakpoint
    BY DEF NoneRestored
  <2>4. EndsLoaded' /\ NoneRestored'
    BY <2>1, <2>2, <2>3 DEF EndsLoaded, NoneRestored, nop, breakpoint, invalid
  <2>5. ArmedHasKey'
    BY <2>1, <2>2, <2>3 DEF ArmedHasKey, Removing
  <2>6. SweptIsClear'
    <3>1. ASSUME agent.all, ~OriginalRaced, NEW a \in Entry, a < agent.addr + 1
          PROVE  memory'[a] # breakpoint
      <4>1. a = agent.addr \/ a < agent.addr
        BY <1>1, <3>1 DEF Address
      <4> QED
        BY <2>2, <2>3, <3>1, <4>1 DEF SweptIsClear
    <3> QED
      BY <2>1, <3>1 DEF SweptIsClear, Adding, OriginalRaced
  <2> QED
    BY <2>4, <2>5, <2>6
<1>9. CASE SweepStop
  <2>1. /\ agent.pc = "sweep" /\ agent'.pc = "idle" /\ agent'.byte = nop /\ ~agent'.all
        /\ UNCHANGED <<memory, original_bytecodes>>
    BY <1>9 DEF SweepStop, Idle, maps
  <2>2. EndsLoaded' /\ NoneRestored'
    BY <2>1 DEF EndsLoaded, NoneRestored, nop, breakpoint, invalid
  <2>3. ArmedHasKey' /\ SweptIsClear'
    BY <2>1 DEF ArmedHasKey, SweptIsClear, Removing, Adding
  <2> QED
    BY <2>2, <2>3
<1>10. CASE SweepSkip
  <2>1. /\ agent.pc = "sweep" /\ agent'.pc = "sweep" /\ agent'.addr = agent.addr + 1
        /\ agent'.byte = agent.byte /\ agent'.all = agent.all
        /\ UNCHANGED <<memory, original_bytecodes>> /\ (OriginalRaced => OriginalRaced')
        /\ original_bytecodes[agent.addr] = Absent \/ OriginalRaced'
    BY <1>1, <1>10 DEF SweepSkip, AgentType, maps, Access, OriginalRaced, Registered
  <2>2. EndsLoaded' /\ NoneRestored'
    BY <2>1 DEF EndsLoaded, NoneRestored, nop, breakpoint, invalid
  <2>3. ArmedHasKey'
    BY <2>1 DEF ArmedHasKey, Removing
  <2>4. SweptIsClear'
    <3>1. ASSUME ~OriginalRaced', NEW a \in Entry, a < agent.addr + 1
          PROVE  memory[a] # breakpoint
      <4>1. a = agent.addr \/ a < agent.addr
        BY <1>1, <3>1 DEF Address
      <4>2. CASE a = agent.addr
        BY <2>1, <3>1, <4>2 DEF ArmedHasKey, Removing
      <4>3. CASE a < agent.addr
        BY <2>1, <3>1, <4>3 DEF SweptIsClear
      <4> QED
        BY <4>1, <4>2, <4>3
    <3> QED
      BY <2>1, <3>1 DEF SweptIsClear, Adding
  <2> QED
    BY <2>2, <2>3, <2>4
<1>11. CASE SweepFound
  <2>1. /\ agent.pc = "sweep" /\ agent'.pc = "remove_original" /\ agent'.addr = agent.addr
        /\ agent'.byte = original_bytecodes[agent.addr] /\ agent'.all = agent.all
        /\ UNCHANGED <<memory, original_bytecodes>> /\ (OriginalRaced => OriginalRaced')
    BY <1>1, <1>11 DEF SweepFound, AgentType, maps, Access, OriginalRaced
  <2>2. EndsLoaded' /\ NoneRestored'
    BY <1>1, <2>1 DEF EndsLoaded, NoneRestored
  <2>3. ArmedHasKey'
    BY <2>1 DEF ArmedHasKey, Removing
  <2>4. SweptIsClear'
    BY <2>1 DEF SweptIsClear, Adding
  <2> QED
    BY <2>2, <2>3, <2>4
<1> QED
  BY <1>3, <1>4, <1>5, <1>6, <1>7, <1>8, <1>9, <1>10, <1>11 DEF AgentStep

\* The threads only insert zeros for keys they miss.
LEMMA SweepThread ==
  ASSUME TypeOK, SweepInv, NEW t \in Threads, ThreadStep(t)
  PROVE  SweepInv'
<1>1. UNCHANGED <<memory, agent>> /\ (OriginalRaced => OriginalRaced')
  BY DEF ThreadStep, HandlerStep, Fetch, OriginalBytecodeHandler, OriginalInserted,
         BreakpointHandler, CallbackInserted, GetOpcodeFind, GetOpcodeIndex,
         GetOpcodeInserted, StoreOffset, OffsetInserted, CallbackAsks, CallbackReturns,
         Dispatch, Access, OriginalRaced
<1>2. UNCHANGED original_bytecodes
        \/ original_bytecodes' \in Inserted(original_bytecodes, hit[t].bcp, nop)
  BY DEF ThreadStep, HandlerStep, Fetch, OriginalBytecodeHandler, OriginalInserted,
         BreakpointHandler, CallbackInserted, GetOpcodeFind, GetOpcodeIndex,
         GetOpcodeInserted, StoreOffset, OffsetInserted, CallbackAsks, CallbackReturns,
         Dispatch, maps
<1>3. \A a \in Address : original_bytecodes'[a] = original_bytecodes[a]
                           \/ original_bytecodes'[a] = nop
  BY <1>2 DEF Inserted, TypeOK
<1>4. nop # Absent /\ Entry \subseteq Address /\ agent.addr \in Address
  BY NotAByte, Addresses DEF nop, Byte, TypeOK, AgentType
<1>5. EndsLoaded' /\ NoneRestored'
  BY <1>1, <1>3, <1>4 DEF SweepInv, EndsLoaded, NoneRestored, nop, breakpoint, invalid
<1>6. ArmedHasKey'
  BY <1>1, <1>3, <1>4 DEF SweepInv, ArmedHasKey, Removing
<1>7. SweptIsClear'
  BY <1>1 DEF SweepInv, SweptIsClear, Adding
<1> QED
  BY <1>5, <1>6, <1>7 DEF SweepInv

\* remove_all_breakpoints leaves no 0xCA on an instruction of the method, whatever was
\* added and removed before and whatever the threads do, unless a race hid a key from it.
THEOREM SweepCorrect == ASSUME OneMethodCode PROVE SweepSpec => SweepClearsMethods
<1>1. SweepCall => Calls(Targets)
  BY DEF SweepCall, PairedCalls, Calls
<1>2. Targets \in SUBSET (Address \ {CodeEnd})
  BY CodeAssumption DEF CodeAssumption
<1>3. ClientInv(Targets) /\ [SweepNext]_vars => ClientInv(Targets)'
  BY <1>1, <1>2, ClientAgent, ClientThread, ClientStutter DEF SweepNext
<1>4. ClientInv(Targets) => TypeOK
  BY DEF ClientInv
<1>5. SweepInv /\ UNCHANGED vars => SweepInv'
  BY DEF SweepInv, EndsLoaded, NoneRestored, ArmedHasKey, SweptIsClear, Removing, Adding,
         OriginalRaced, vars
<1>6. TypeOK /\ SweepInv /\ [SweepNext]_vars => SweepInv'
  BY <1>5, SweepCalls, SweepAgent, SweepThread DEF SweepNext
<1>7. Init => SweepInv /\ ClientInv(Targets)
  BY SweepInit, ClientInit
<1>8. TypeOK /\ SweepInv /\ [SweepNext]_vars =>
        [SweepStop => (\A a \in Entry : memory[a] # breakpoint)
                      \/ "original_bytecodes" \in raced]_vars
  <2> SUFFICES ASSUME TypeOK, SweepInv, SweepStop, ~OriginalRaced, NEW a \in Entry
               PROVE  memory[a] # breakpoint
    BY DEF OriginalRaced
  <2>1. agent.all /\ memory[agent.addr] = invalid /\ agent.addr \in Address
    BY DEF SweepInv, SweptIsClear, SweepStop, AtEnd, TypeOK, AgentType
  <2>2. Code[agent.addr] = invalid
    BY <2>1 DEF SweepInv, EndsLoaded
  <2>3. a < agent.addr
    BY <2>1, <2>2 DEF OneMethodCode
  <2> QED
    BY <2>1, <2>3 DEF SweepInv, SweptIsClear
<1> QED
  BY <1>3, <1>4, <1>6, <1>7, <1>8, PTL DEF SweepSpec, SweepClearsMethods
=============================================================================
