------------------------------ MODULE Breakpoints ------------------------------
(***************************************************************************)
(* The breakpoint registry of src/breakpoints: the agent thread that adds  *)
(* and removes breakpoints, and the Java threads that run into them.       *)
(*                                                                         *)
(* The two sides share, without a lock, the bytes of the methods           *)
(* (memory), the two std::maps original_bytecodes and                      *)
(* breakpoint_callbacks, and the static map Bytecode::bytecode_offsets.    *)
(* One action is one access to shared memory.                              *)
(*                                                                         *)
(* A change of a std::map takes two steps.  Between them the thread is in  *)
(* a WINDOW of the map: an access by another thread inside the window is a *)
(* data race, recorded in raced.  A racing look-up may find the key or     *)
(* miss it; a missed key is inserted a second time, and which of the two   *)
(* values later look-ups see is left open.                                 *)
(***************************************************************************)
EXTENDS Bytecode

CONSTANTS
  Threads,    \* Java threads that interpret the methods
  CodeEnd,    \* last modelled address: the 0xFF byte where every sweep stops
  Code,       \* Code[a]: the byte the class loader put at address a
  Entry,      \* the addresses that hold the opcode of an instruction
  Targets,    \* the addresses any client names; no offset is ever checked
  Methods,    \* the methods whose bytecode lies in 1..CodeEnd
  Start,      \* Start[m]: ConstMethod::get_bytecode_start() of m
  MethodOf,   \* MethodOf[a]: the method the instruction at a belongs to
  Callbacks,  \* the callbacks clients register
  Empty,      \* a std::function that holds no callback
  Absent      \* "no such key", "no value yet"

Address == 1..CodeEnd
OffsetValue == 0..65535      \* uint16_t

ASSUME CodeAssumption ==
  /\ CodeEnd \in Nat \ {0}
  /\ Code \in [Address -> Byte]
  /\ Code[CodeEnd] = invalid
  /\ Entry \subseteq Address \ {CodeEnd}
  /\ Targets \subseteq Address \ {CodeEnd}
  /\ \A a \in Entry : Code[a] # breakpoint
  /\ Start \in [Methods -> Entry]
  /\ MethodOf \in [Entry -> Methods]

ASSUME ValueAssumption ==
  /\ Absent \notin Nat \cup Callbacks \cup {Empty}
  /\ Empty \notin Callbacks

VARIABLES
  memory,                \* the bytes of the methods
  original_bytecodes,    \* std::map<uintptr_t, uint8_t>
  breakpoint_callbacks,  \* std::map<uintptr_t, breakpoint_callback_t>
  bytecode_offsets,      \* std::map<uint8_t*, uint16_t>
  agent,                 \* the thread that calls the API, with its locals
  pc,                    \* pc[t]: where Java thread t is
  hit,                   \* hit[t]: the breakpoint t is handling
  raced                  \* history: the maps on which a data race happened

vars == <<memory, original_bytecodes, breakpoint_callbacks, bytecode_offsets,
          agent, pc, hit, raced>>
maps == <<original_bytecodes, breakpoint_callbacks, bytecode_offsets>>

Maps == {"original_bytecodes", "breakpoint_callbacks", "bytecode_offsets"}

AgentPc == {"idle", "add_original", "add_callback", "add_arm",
            "remove_original", "remove_callback", "remove_restore", "sweep"}

ThreadPc == {"run", "get_original", "insert_original", "breakpoint",
             "insert_callback", "find", "index", "insert_opcode", "offsets",
             "insert_offset", "callback", "dispatch"}

(***************************************************************************)
(* hit[t] holds the registers and locals of t between the fetch of 0xCA    *)
(* and the dispatch of the original instruction:                           *)
(*   bcp       r13, the bytecode address                                   *)
(*   rbx       the opcode that will be dispatched                          *)
(*   callback  breakpoint_handler's copy of the registered callback        *)
(*   info      whether the BreakpointInfo has been constructed             *)
(*   opcode    what the callback got from get_opcode()                     *)
(*   covered   history: no removal of bcp has begun since the fetch        *)
(***************************************************************************)
NoHit == [bcp |-> Absent, rbx |-> Absent, callback |-> Absent,
          info |-> FALSE, opcode |-> Absent, covered |-> FALSE]

NewHit(a, covered) == [NoHit EXCEPT !.bcp = a, !.covered = covered]

Idle == [pc |-> "idle", addr |-> 1, byte |-> nop, callback |-> Empty,
         all |-> FALSE]

Init ==
  /\ memory = Code
  /\ original_bytecodes = [a \in Address |-> Absent]
  /\ breakpoint_callbacks = [a \in Address |-> Absent]
  /\ bytecode_offsets = [m \in Methods |-> Absent]
  /\ agent = Idle
  /\ pc = [t \in Threads |-> "run"]
  /\ hit = [t \in Threads |-> NoHit]
  /\ raced = {}

-----------------------------------------------------------------------------
(* Windows and races *)

AgentWindow(m) ==
  agent.pc \in CASE m = "original_bytecodes"   -> {"add_original", "remove_original"}
                 [] m = "breakpoint_callbacks" -> {"add_callback", "remove_callback"}
                 [] OTHER                      -> {}

ThreadWindow(m, t) ==
  pc[t] \in CASE m = "original_bytecodes"   -> {"insert_original", "insert_opcode"}
              [] m = "breakpoint_callbacks" -> {"insert_callback"}
              [] OTHER                      -> {"insert_offset"}

\* Some thread other than t is changing map m.
Busy(m, t) == AgentWindow(m) \/ \E u \in Threads \ {t} : ThreadWindow(m, u)

\* Some Java thread is changing map m.
BusyForAgent(m) == \E u \in Threads : ThreadWindow(m, u)

Access(m, busy) == raced' = IF busy THEN raced \cup {m} ELSE raced

\* The maps operator[] may leave after it inserted key k: a key that was missed
\* although present is there twice, and either value may be found from now on.
Inserted(map, k, v) ==
  {[map EXCEPT ![k] = v]} \cup (IF map[k] = Absent THEN {} ELSE {map})

\* std::map::insert where operator[] is meant: an old value stays.
AssignedIfNew(map, k, v) == IF map[k] = Absent THEN [map EXCEPT ![k] = v] ELSE map

\* map[k] = v
Assigned(map, k, v) == [map EXCEPT ![k] = v]

\* A look-up that always, or never, takes the key for found.
AlwaysRegistered(a) == TRUE
NeverRegistered(a) == FALSE

\* original_bytecodes.find(a) != original_bytecodes.end()
Registered(a) == original_bytecodes[a] # Absent

-----------------------------------------------------------------------------
(* The agent: add_breakpoint *)

Removing(a) ==
  agent.addr = a /\ agent.pc \in {"remove_original", "remove_callback", "remove_restore"}

\* add_breakpoint that reads the byte after it has armed the breakpoint.
SavedAfterArming(a) == breakpoint

\* The byte behind the breakpoint.
SavedNext(a) == memory[a + 1]

\* The byte add_breakpoint saves.
SavedByte(a) == memory[a]

\* add_breakpoint that arms the breakpoint before it registers it.
ArmBeforeRegistering(a, callback) ==
  /\ agent.pc = "idle"
  /\ agent' = [Idle EXCEPT !.pc = "add_original", !.addr = a,
                           !.byte = SavedByte(a), !.callback = callback]
  /\ Access("original_bytecodes", BusyForAgent("original_bytecodes"))
  /\ memory' = [memory EXCEPT ![a] = breakpoint]
  /\ UNCHANGED <<maps, pc, hit>>

\* Reads the byte and starts original_bytecodes[address] = bytecode.
AddBreakpoint(a, callback) ==
  /\ agent.pc = "idle"
  /\ agent' = [Idle EXCEPT !.pc = "add_original", !.addr = a,
                           !.byte = SavedByte(a), !.callback = callback]
  /\ Access("original_bytecodes", BusyForAgent("original_bytecodes"))
  /\ UNCHANGED <<memory, maps, pc, hit>>

AddOriginal ==
  /\ agent.pc = "add_original"
  /\ original_bytecodes' = Assigned(original_bytecodes, agent.addr, agent.byte)
  /\ agent' = [agent EXCEPT !.pc = "add_callback"]
  /\ Access("breakpoint_callbacks", BusyForAgent("breakpoint_callbacks"))
  /\ UNCHANGED <<memory, breakpoint_callbacks, bytecode_offsets, pc, hit>>

AddCallback ==
  /\ agent.pc = "add_callback"
  /\ breakpoint_callbacks' = Assigned(breakpoint_callbacks, agent.addr, agent.callback)
  /\ agent' = [agent EXCEPT !.pc = "add_arm"]
  /\ UNCHANGED <<memory, original_bytecodes, bytecode_offsets, pc, hit, raced>>

AddArm ==
  /\ agent.pc = "add_arm"
  /\ memory' = [memory EXCEPT ![agent.addr] = breakpoint]
  /\ agent' = Idle
  /\ UNCHANGED <<maps, pc, hit, raced>>

-----------------------------------------------------------------------------
(* The agent: remove_breakpoint and remove_all_breakpoints *)

\* From here on threads at a are no longer sure to find the original.
Uncover(a) ==
  hit' = [t \in Threads |->
            IF hit[t].bcp = a THEN [hit[t] EXCEPT !.covered = FALSE] ELSE hit[t]]

\* original_bytecodes[address], and the start of the erase that follows it.
RemoveBreakpoint(a) ==
  /\ agent.pc = "idle"
  /\ \/ /\ original_bytecodes[a] # Absent
        /\ agent' = [Idle EXCEPT !.pc = "remove_original", !.addr = a,
                                 !.byte = original_bytecodes[a]]
        /\ UNCHANGED original_bytecodes
     \/ /\ original_bytecodes[a] = Absent \/ BusyForAgent("original_bytecodes")
        /\ agent' = [Idle EXCEPT !.pc = "remove_original", !.addr = a]
        /\ original_bytecodes' \in Inserted(original_bytecodes, a, nop)
  /\ Uncover(a)
  /\ Access("original_bytecodes", BusyForAgent("original_bytecodes"))
  /\ UNCHANGED <<memory, breakpoint_callbacks, bytecode_offsets, pc>>

RemoveOriginal ==
  /\ agent.pc = "remove_original"
  /\ original_bytecodes' = [original_bytecodes EXCEPT ![agent.addr] = Absent]
  /\ agent' = [agent EXCEPT !.pc = "remove_callback"]
  /\ Access("breakpoint_callbacks", BusyForAgent("breakpoint_callbacks"))
  /\ UNCHANGED <<memory, breakpoint_callbacks, bytecode_offsets, pc, hit>>

RemoveCallback ==
  /\ agent.pc = "remove_callback"
  /\ breakpoint_callbacks' = [breakpoint_callbacks EXCEPT ![agent.addr] = Absent]
  /\ agent' = [agent EXCEPT !.pc = "remove_restore"]
  /\ UNCHANGED <<memory, original_bytecodes, bytecode_offsets, pc, hit, raced>>

RemoveRestore ==
  /\ agent.pc = "remove_restore"
  /\ memory' = [memory EXCEPT ![agent.addr] = agent.byte]
  /\ agent' = IF agent.all
              THEN [Idle EXCEPT !.pc = "sweep", !.addr = agent.addr + 1, !.all = TRUE]
              ELSE Idle
  /\ UNCHANGED <<maps, pc, hit, raced>>

\* remove_all_breakpoints that begins one byte too late.
SweepFromSecond(start) ==
  /\ agent.pc = "idle"
  /\ agent' = [Idle EXCEPT !.pc = "sweep", !.addr = start + 1, !.all = TRUE]
  /\ UNCHANGED <<memory, maps, pc, hit, raced>>

\* remove_all_breakpoints of a method whose get_bytecode_start() is start.
RemoveAllBreakpoints(start) ==
  /\ agent.pc = "idle"
  /\ agent' = [Idle EXCEPT !.pc = "sweep", !.addr = start, !.all = TRUE]
  /\ UNCHANGED <<memory, maps, pc, hit, raced>>

\* A loop without its exit, and one that ends one byte early.
NeverAtEnd == FALSE
AtLastByte == memory[agent.addr + 1] = invalid

AtEnd == memory[agent.addr] = invalid

\* One iteration of the loop of remove_all_breakpoints, up to the erase.
SweepStop ==
  /\ agent.pc = "sweep"
  /\ AtEnd
  /\ agent' = Idle
  /\ UNCHANGED <<memory, maps, pc, hit, raced>>

SweepSkip ==
  /\ agent.pc = "sweep"
  /\ ~AtEnd
  /\ ~Registered(agent.addr) \/ BusyForAgent("original_bytecodes")
  /\ agent' = [agent EXCEPT !.addr = agent.addr + 1]
  /\ Access("original_bytecodes", BusyForAgent("original_bytecodes"))
  /\ UNCHANGED <<memory, maps, pc, hit>>

SweepFound ==
  /\ agent.pc = "sweep"
  /\ ~AtEnd
  /\ Registered(agent.addr)
  /\ agent' = [agent EXCEPT !.pc = "remove_original",
                            !.byte = original_bytecodes[agent.addr]]
  /\ Uncover(agent.addr)
  /\ Access("original_bytecodes", BusyForAgent("original_bytecodes"))
  /\ UNCHANGED <<memory, maps, pc>>

-----------------------------------------------------------------------------
(* A Java thread at a breakpoint: the template of bytecode 0xCA calls       *)
(* get_original_bytecode_at, then _breakpoint, then dispatches.  Both calls *)
(* are hooked.                                                              *)

\* The interpreter dispatches on an opcode of the method.  Bytes other than 0xCA
\* run their own template and touch none of the variables.  That an opcode
\* overwritten with another one moves the later instructions is not modelled.
Fetch(t) ==
  /\ pc[t] = "run"
  /\ \E a \in Entry :
       /\ memory[a] = breakpoint
       /\ hit' = [hit EXCEPT ![t] = NewHit(a, ~Removing(a))]
  /\ pc' = [pc EXCEPT ![t] = "get_original"]
  /\ UNCHANGED <<memory, maps, agent, raced>>

OriginalBytecodeHandler(t) ==
  /\ pc[t] = "get_original"
  /\ \/ /\ original_bytecodes[hit[t].bcp] # Absent
        /\ hit' = [hit EXCEPT ![t].rbx = original_bytecodes[hit[t].bcp]]
        /\ pc' = [pc EXCEPT ![t] = "breakpoint"]
     \/ /\ \/ original_bytecodes[hit[t].bcp] = Absent
           \/ Busy("original_bytecodes", t)
        /\ pc' = [pc EXCEPT ![t] = "insert_original"]
        /\ UNCHANGED hit
  /\ Access("original_bytecodes", Busy("original_bytecodes", t))
  /\ UNCHANGED <<memory, maps, agent>>

\* original_bytecodes[bytecode_address] did not find the key: it inserts 0.
OriginalInserted(t) ==
  /\ pc[t] = "insert_original"
  /\ original_bytecodes' \in Inserted(original_bytecodes, hit[t].bcp, nop)
  /\ hit' = [hit EXCEPT ![t].rbx = nop]
  /\ pc' = [pc EXCEPT ![t] = "breakpoint"]
  /\ UNCHANGED <<memory, breakpoint_callbacks, bytecode_offsets, agent, raced>>

\* Copies the callback; without one, returns.
BreakpointHandler(t) ==
  LET found == breakpoint_callbacks[hit[t].bcp]
  IN  /\ pc[t] = "breakpoint"
      /\ \/ /\ found # Absent
            /\ hit' = [hit EXCEPT ![t].callback = found]
            /\ pc' = [pc EXCEPT ![t] = IF found = Empty THEN "dispatch" ELSE "find"]
         \/ /\ found = Absent \/ Busy("breakpoint_callbacks", t)
            /\ pc' = [pc EXCEPT ![t] = "insert_callback"]
            /\ UNCHANGED hit
      /\ Access("breakpoint_callbacks", Busy("breakpoint_callbacks", t))
      /\ UNCHANGED <<memory, maps, agent>>

CallbackInserted(t) ==
  /\ pc[t] = "insert_callback"
  /\ breakpoint_callbacks' \in Inserted(breakpoint_callbacks, hit[t].bcp, Empty)
  /\ hit' = [hit EXCEPT ![t].callback = Empty]
  /\ pc' = [pc EXCEPT ![t] = "dispatch"]
  /\ UNCHANGED <<memory, original_bytecodes, bytecode_offsets, agent, raced>>

(***************************************************************************)
(* Bytecode::get_opcode looks twice: find() and, when it found the key,    *)
(* operator[].  The constructor of Bytecode calls it and drops the result; *)
(* the callback may call it through its BreakpointInfo.                    *)
(***************************************************************************)
GetOpcodeReturns(t, opcode) ==
  IF hit[t].info
  THEN /\ hit' = [hit EXCEPT ![t].opcode = opcode]
       /\ pc' = [pc EXCEPT ![t] = "callback"]
  ELSE /\ pc' = [pc EXCEPT ![t] = "offsets"]
       /\ UNCHANGED hit

GetOpcodeFind(t) ==
  /\ pc[t] = "find"
  /\ \/ /\ Registered(hit[t].bcp)
        /\ pc' = [pc EXCEPT ![t] = "index"]
        /\ UNCHANGED hit
     \/ /\ ~Registered(hit[t].bcp) \/ Busy("original_bytecodes", t)
        /\ GetOpcodeReturns(t, memory[hit[t].bcp])
  /\ Access("original_bytecodes", Busy("original_bytecodes", t))
  /\ UNCHANGED <<memory, maps, agent>>

GetOpcodeIndex(t) ==
  /\ pc[t] = "index"
  /\ \/ /\ original_bytecodes[hit[t].bcp] # Absent
        /\ GetOpcodeReturns(t, original_bytecodes[hit[t].bcp])
     \/ /\ \/ original_bytecodes[hit[t].bcp] = Absent
           \/ Busy("original_bytecodes", t)
        /\ pc' = [pc EXCEPT ![t] = "insert_opcode"]
        /\ UNCHANGED hit
  /\ Access("original_bytecodes", Busy("original_bytecodes", t))
  /\ UNCHANGED <<memory, maps, agent>>

GetOpcodeInserted(t) ==
  /\ pc[t] = "insert_opcode"
  /\ original_bytecodes' \in Inserted(original_bytecodes, hit[t].bcp, nop)
  /\ GetOpcodeReturns(t, nop)
  /\ UNCHANGED <<memory, breakpoint_callbacks, bytecode_offsets, agent, raced>>

\* bytecode_offsets[bytecode_start] = address - bytecode_start
Offset(t) == (hit[t].bcp - Start[MethodOf[hit[t].bcp]]) % 65536

StoreOffset(t) ==
  LET method == MethodOf[hit[t].bcp]
  IN  /\ pc[t] = "offsets"
      /\ \/ /\ bytecode_offsets[method] # Absent
            /\ bytecode_offsets' = [bytecode_offsets EXCEPT ![method] = Offset(t)]
            /\ hit' = [hit EXCEPT ![t].info = TRUE]
            /\ pc' = [pc EXCEPT ![t] = "callback"]
         \/ /\ bytecode_offsets[method] = Absent \/ Busy("bytecode_offsets", t)
            /\ pc' = [pc EXCEPT ![t] = "insert_offset"]
            /\ UNCHANGED <<bytecode_offsets, hit>>
      /\ Access("bytecode_offsets", Busy("bytecode_offsets", t))
      /\ UNCHANGED <<memory, original_bytecodes, breakpoint_callbacks, agent>>

OffsetInserted(t) ==
  /\ pc[t] = "insert_offset"
  /\ bytecode_offsets' \in
       Inserted(bytecode_offsets, MethodOf[hit[t].bcp], Offset(t))
  /\ hit' = [hit EXCEPT ![t].info = TRUE]
  /\ pc' = [pc EXCEPT ![t] = "callback"]
  /\ UNCHANGED <<memory, original_bytecodes, breakpoint_callbacks, agent, raced>>

\* The callback asks its BreakpointInfo for the opcode, at most once.
CallbackAsks(t) ==
  /\ pc[t] = "callback"
  /\ hit[t].opcode = Absent
  /\ pc' = [pc EXCEPT ![t] = "find"]
  /\ UNCHANGED <<memory, maps, agent, hit, raced>>

\* The callback returns and breakpoint_handler deletes the BreakpointInfo.
CallbackReturns(t) ==
  /\ pc[t] = "callback"
  /\ hit' = [hit EXCEPT ![t].info = FALSE]
  /\ pc' = [pc EXCEPT ![t] = "dispatch"]
  /\ UNCHANGED <<memory, maps, agent, raced>>

\* dispatch_only_normal on rbx: 0xCA enters the breakpoint template again.
Dispatch(t) ==
  /\ pc[t] = "dispatch"
  /\ \/ /\ hit[t].rbx # breakpoint
        /\ pc' = [pc EXCEPT ![t] = "run"]
        /\ hit' = [hit EXCEPT ![t] = NoHit]
     \/ /\ hit[t].rbx = breakpoint
        /\ pc' = [pc EXCEPT ![t] = "get_original"]
        /\ hit' = [hit EXCEPT ![t] = NewHit(hit[t].bcp, hit[t].covered)]
  /\ UNCHANGED <<memory, maps, agent, raced>>

-----------------------------------------------------------------------------
(* Specifications *)

\* What the agent does inside a call of the API.
AgentStep ==
  \/ AddOriginal \/ AddCallback \/ AddArm
  \/ RemoveOriginal \/ RemoveCallback \/ RemoveRestore
  \/ SweepStop \/ SweepSkip \/ SweepFound

\* What a Java thread does once it has fetched 0xCA.
HandlerStep(t) ==
  \/ OriginalBytecodeHandler(t) \/ OriginalInserted(t)
  \/ BreakpointHandler(t) \/ CallbackInserted(t)
  \/ GetOpcodeFind(t) \/ GetOpcodeIndex(t) \/ GetOpcodeInserted(t)
  \/ StoreOffset(t) \/ OffsetInserted(t)
  \/ CallbackAsks(t) \/ CallbackReturns(t)
  \/ Dispatch(t)

ThreadStep(t) == Fetch(t) \/ HandlerStep(t)

\* Calls of the API that name addresses of S, and sweeps, in any order.
Calls(S) ==
  \/ \E a \in S, callback \in Callbacks : AddBreakpoint(a, callback)
  \/ \E a \in S : RemoveBreakpoint(a)
  \/ \E m \in Methods : RemoveAllBreakpoints(Start[m])

\* A client that adds twice, removes where nothing is set, names operands.
AnyCall == Calls(Targets)

Next == AnyCall \/ AgentStep \/ \E t \in Threads : ThreadStep(t)

Spec == Init /\ [][Next]_vars

(***************************************************************************)
(* A client that pairs its calls: it adds where no breakpoint is set and   *)
(* removes where one is.  Its calls are serial: the API does not lock.     *)
(***************************************************************************)
PairedCalls(S) ==
  \/ \E a \in S, callback \in Callbacks :
       memory[a] # breakpoint /\ AddBreakpoint(a, callback)
  \/ \E a \in S : memory[a] = breakpoint /\ RemoveBreakpoint(a)

PairedCall == PairedCalls(Entry)

\* A client that sweeps methods too, pairs its calls on instructions and has no
\* such discipline on the operands it names.
SweepCall == PairedCalls(Targets \cap Entry) \/ Calls(Targets \ Entry)

SweepNext == SweepCall \/ AgentStep \/ \E t \in Threads : ThreadStep(t)

SweepSpec == Init /\ [][SweepNext]_vars

PairedNext == PairedCall \/ AgentStep \/ \E t \in Threads : ThreadStep(t)

\* The operating system schedules every thread.  A callback asks for the opcode
\* at most once, so this makes it return.
Fairness ==
  /\ WF_vars(AgentStep)
  /\ \A t \in Threads : WF_vars(HandlerStep(t))

PairedSpec == Init /\ [][PairedNext]_vars

FairSweepSpec == SweepSpec /\ Fairness

-----------------------------------------------------------------------------
(* Properties *)

HitType ==
  [bcp : Address \cup {Absent}, rbx : Byte \cup {Absent},
   callback : Callbacks \cup {Empty, Absent}, info : BOOLEAN,
   opcode : Byte \cup {Absent}, covered : BOOLEAN]

AgentType ==
  [pc : AgentPc, addr : Address, byte : Byte,
   callback : Callbacks \cup {Empty}, all : BOOLEAN]

\* Every variable keeps its type whatever the client calls: a key without a
\* value is never used as one, and the sweep of remove_all_breakpoints stays
\* inside the modelled bytes (breakpoints.cpp, all of it).
TypeOK ==
  /\ memory \in [Address -> Byte]
  /\ original_bytecodes \in [Address -> Byte \cup {Absent}]
  /\ breakpoint_callbacks \in [Address -> Callbacks \cup {Empty, Absent}]
  /\ bytecode_offsets \in [Methods -> OffsetValue \cup {Absent}]
  /\ agent \in AgentType
  /\ pc \in [Threads -> ThreadPc]
  /\ hit \in [Threads -> HitType]
  /\ raced \in SUBSET Maps
  /\ \A t \in Threads : pc[t] # "run" => hit[t].bcp \in Entry
  /\ \A t \in Threads :
       pc[t] \notin {"run", "get_original", "insert_original"} => hit[t].rbx \in Byte

\* Whatever is added twice, removed unset, set on an operand, swept or raced on, no
\* byte is written but those the calls name: neither a sweep nor a key that a late
\* hit left behind reaches another one (add_breakpoint, remove_breakpoint,
\* remove_all_breakpoints).  An operand that is 0xCA itself is left out: behind an
\* overwritten opcode it may be dispatched.
BystandersIntact ==
  \A a \in Address \ Targets : Code[a] # breakpoint => memory[a] = Code[a]

\* A thread that met a breakpoint whose removal has not begun dispatches the
\* opcode the class loader put there, unless a data race hit the registry
\* (original_bytecode_handler).
FaithfulDispatch ==
  \A t \in Threads :
    hit[t].covered /\ hit[t].rbx # Absent =>
      hit[t].rbx = Code[hit[t].bcp] \/ "original_bytecodes" \in raced

\* Such a thread does not pass the breakpoint before it has called a callback
\* of the client (breakpoint_handler).
EveryHitCallsBack ==
  \A t \in Threads :
    hit[t].covered /\ pc[t] \notin {"run", "get_original", "insert_original", "breakpoint"} =>
      hit[t].callback \in Callbacks \/ "breakpoint_callbacks" \in raced

\* A callback that asks for the opcode of its breakpoint is told the original
\* one, never 0xCA (Bytecode::get_opcode).
OpcodeTransparent ==
  \A t \in Threads :
    hit[t].covered /\ hit[t].opcode # Absent =>
      hit[t].opcode = Code[hit[t].bcp] \/ "original_bytecodes" \in raced

\* With paired calls every byte is the class loader's or an 0xCA on the opcode
\* of an instruction, unless a data race hit the registry.
CodeIntact ==
  \A a \in Address :
    \/ memory[a] = Code[a]
    \/ a \in Entry /\ memory[a] = breakpoint
    \/ "original_bytecodes" \in raced

\* While an 0xCA is in the code, its original byte is in the registry or in the
\* hands of the remove_breakpoint that is about to write it back.
ArmedIsRecoverable ==
  \A a \in Entry :
    memory[a] = breakpoint =>
      \/ original_bytecodes[a] = Code[a]
      \/ Removing(a) /\ agent.byte = Code[a]
      \/ "original_bytecodes" \in raced

\* remove_all_breakpoints leaves no 0xCA on an instruction of a method ("Iterate
\* over all bytecodes", breakpoints.cpp:50), unless a data race hides a key from it.
SweepClearsMethods ==
  [][SweepStop => (\A a \in Entry : memory[a] # breakpoint)
                  \/ "original_bytecodes" \in raced]_vars

\* remove_all_breakpoints writes only where a breakpoint is set ("Check if this
\* bytecode is a breakpoint", breakpoints.cpp:56); only executions without a
\* data race are asked.
SweepWritesBreakpointsOnly ==
  raced = {} /\ agent.all /\ agent.pc = "remove_restore" =>
    memory[agent.addr] = breakpoint

\* The byte handed to the interpreter is the original one, also when the
\* breakpoint is being removed ("Return original bytecode", breakpoints.cpp:77);
\* only executions without a data race are asked.
OriginalReturned ==
  raced = {} => \A t \in Threads :
    hit[t].rbx # Absent => hit[t].rbx = Code[hit[t].bcp]

\* What the registry shows of the promise: the breakpoints in the code, with the
\* callbacks registered for them, and the hits.
Site ==
  [a \in Entry |-> IF memory[a] # breakpoint THEN Absent
                  ELSE IF Removing(a) THEN Empty ELSE breakpoint_callbacks[a]]

Visit ==
  [t \in Threads |-> [at |-> hit[t].bcp, sure |-> hit[t].covered, opcode |-> hit[t].rbx,
                     callback |-> hit[t].callback, told |-> hit[t].opcode]]

Broken == raced \cap {"original_bytecodes", "breakpoint_callbacks"} # {}

Promise ==
  INSTANCE BreakpointSpec WITH
    Sites <- Entry, NoCallback <- Empty, None <- Absent,
    site <- Site, visit <- Visit, broken <- Broken

\* The registry with its handlers implements BreakpointSpec: breakpoints appear
\* and disappear at one step, a thread that meets one runs exactly the callback
\* registered for it, and goes on with the original opcode.
PromiseKept == Promise!Spec

\* A hit ends: the handlers return and the dispatched opcode is not 0xCA again
\* (the template of bytecode 0xCA with both hooks in place).
HitCompletes == \A t \in Threads : pc[t] # "run" ~> pc[t] = "run"
=============================================================================
