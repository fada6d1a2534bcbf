------------------------------ MODULE MainThread ------------------------------
(***************************************************************************)
(* The life of the DLL: the thread DllMain starts (main.cpp) attaches to    *)
(* the VM, sets up the two hooks, sets one breakpoint at the first byte of  *)
(* Main.test_mul, removes it when HOME is pressed and unloads the module    *)
(* when INSERT is pressed.  Until then, and after, Java threads run.        *)
(*                                                                         *)
(* The main thread is the agent of Breakpoints.  Keys may be pressed at any *)
(* time.  Which interpreter the DLL meets, and that a look-up or a hook     *)
(* fails, are choices of the environment.                                   *)
(***************************************************************************)
EXTENDS Breakpoints, VmCalls

CONSTANTS
  TestMul,   \* the method Main.test_mul
  Header,    \* an address of its ConstMethod in front of its bytecode
  Printf,    \* the callback main_thread registers
  Machines,  \* interpreters: the code at an entry and the template of 0xCA,
             \* NoTemplate where the dispatch table leads to none
  Jvm        \* what setup should find in them

ASSUME MainAssumption ==
  /\ TestMul \in Methods /\ Printf \in Callbacks
  /\ Header \in Address \ Entry /\ Header < Start[TestMul]
  /\ \A vm \in Machines : FindBytecodeStartOffset(vm.entry) \in Byte

VARIABLES
  phase,     \* where main_thread is
  offsets,   \* ConstMethod::bytecode_start_offset and the offsets of JavaThread
  vm_calls,  \* what find_vm_calls returned to setup
  hooks      \* the functions of jvm.dll that jump to a handler of the module

mainVars == <<vars, phase, offsets, vm_calls, hooks>>
set == <<offsets, vm_calls, hooks>>

Phase == {"attach", "setup", "hook_original", "hook_breakpoint", "find_class", "find_method",
          "set_breakpoint", "wait_home", "removing", "wait_insert", "unloaded", "crashed"}

Zero == <<0, 0, 0, 0>>

MainInit ==
  /\ Init
  /\ phase = "attach"
  /\ offsets = [bytecode_start |-> 0, thread |-> [frame |-> Zero, operand_stack |-> Zero]]
  /\ vm_calls = <<>>
  /\ hooks = {}

\* main_thread goes from one place of its body to the next.
Goes(from, to) == phase = from /\ agent.pc = "idle" /\ phase' = to

-----------------------------------------------------------------------------
(* main_thread *)

\* The constructor of JavaInterop: GetCreatedJavaVMs, AttachCurrentThread.
JavaInterop == Goes("attach", "setup") /\ UNCHANGED <<vars, set>>

\* The dispatch table, or its entry for 0xCA, is null.
NoTemplate == <<>>

\* setup finds no way to the template of 0xCA.  It has then stored the bytecode
\* offset already, or not even looked for it.
SetupStops(vm) ==
  /\ phase = "setup"
  /\ \/ /\ GetInterceptionAddress(vm.entry) = 0
        /\ UNCHANGED offsets
     \/ /\ GetInterceptionAddress(vm.entry) # 0
        /\ vm.template = NoTemplate
        /\ offsets' = [bytecode_start |-> FindBytecodeStartOffset(vm.entry),
                       thread |-> offsets.thread]
  /\ phase' = "wait_insert"
  /\ UNCHANGED <<vars, vm_calls, hooks>>

\* setup up to its first hook.  It does not look whether the bytecode offset was
\* found; that it needs two calls is all it checks of find_vm_calls.
SetupScans(vm) ==
  /\ phase = "setup"
  /\ GetInterceptionAddress(vm.entry) # 0
  /\ vm.template # NoTemplate
  /\ offsets' = [bytecode_start |-> FindBytecodeStartOffset(vm.entry),
                 thread |-> IF FirstVmCall(vm.template) = 0 THEN offsets.thread
                            ELSE ThreadOffsets(vm.template)]
  /\ IF FindVmCallsFaults(vm.template)
     THEN phase' = "crashed" /\ UNCHANGED vm_calls
     ELSE /\ vm_calls' = FindVmCalls(vm.template)
          /\ phase' = IF Len(vm_calls') < 2 THEN "wait_insert" ELSE "hook_original"
  /\ UNCHANGED <<vars, hooks>>

HookOriginal ==
  /\ Goes("hook_original", "hook_breakpoint")
  /\ hooks' = hooks \cup {<<vm_calls[1], "original_bytecode_handler">>}
  /\ UNCHANGED <<vars, offsets, vm_calls>>

HookBreakpoint ==
  /\ Goes("hook_breakpoint", "find_class")
  /\ hooks' = hooks \cup {<<vm_calls[2], "breakpoint_callback">>}
  /\ UNCHANGED <<vars, offsets, vm_calls>>

FindClass == Goes("find_class", "find_method") /\ UNCHANGED <<vars, set>>

FindStaticMethod == Goes("find_method", "set_breakpoint") /\ UNCHANGED <<vars, set>>

\* An exception, or a setup that returns false, ends in the catch clause: what
\* has been hooked stays hooked, and the thread goes on to wait for INSERT.
Fails ==
  /\ \E from \in {"attach", "setup", "hook_original", "hook_breakpoint", "find_class",
                  "find_method"} :
       Goes(from, "wait_insert")
  /\ UNCHANGED <<vars, set>>

\* get_bytecode_start of test_mul: without the offset it lies in the ConstMethod.
CodeStart ==
  IF offsets.bytecode_start = Jvm.bytecode_start THEN Start[TestMul] ELSE Header

\* main_thread that does not wait for HOME.
SetBreakpointOnly ==
  /\ Goes("set_breakpoint", "wait_insert")
  /\ AddBreakpoint(CodeStart, Printf)
  /\ UNCHANGED set

\* test_mul_method->set_breakpoint( 0x00, ... )
SetBreakpoint ==
  /\ Goes("set_breakpoint", "wait_home")
  /\ AddBreakpoint(CodeStart, Printf)
  /\ UNCHANGED set

\* HOME that does not remove the breakpoints.
HomeWithoutRemoval == Goes("wait_home", "wait_insert") /\ UNCHANGED <<vars, set>>

\* HOME: test_mul_method->remove_all_breakpoints( )
PressHome ==
  /\ Goes("wait_home", "removing")
  /\ RemoveAllBreakpoints(CodeStart)
  /\ UNCHANGED set

RemovalReturns == Goes("removing", "wait_insert") /\ UNCHANGED <<vars, set>>

\* INSERT: FreeLibraryAndExitThread.  The hooks are not taken out.
PressInsert == Goes("wait_insert", "unloaded") /\ UNCHANGED <<vars, set>>

InCall == AgentStep /\ UNCHANGED <<phase, set>>

MainStep ==
  \/ JavaInterop \/ (\E vm \in Machines : SetupStops(vm) \/ SetupScans(vm))
  \/ HookOriginal \/ HookBreakpoint
  \/ FindClass \/ FindStaticMethod \/ SetBreakpoint \/ RemovalReturns \/ InCall

-----------------------------------------------------------------------------
(* The Java threads *)

Mapped == phase \notin {"unloaded", "crashed"}

JavaFetch(t) == phase # "crashed" /\ Fetch(t) /\ UNCHANGED <<phase, set>>

\* The handlers are code of the module.
JavaHandler(t) == Mapped /\ HandlerStep(t) /\ UNCHANGED <<phase, set>>

\* A thread whose handler is no longer mapped faults, and the process dies.
Faults(t) ==
  /\ phase = "unloaded"
  /\ pc[t] # "run"
  /\ phase' = "crashed"
  /\ UNCHANGED <<vars, set>>

-----------------------------------------------------------------------------

MainNext ==
  \/ MainStep \/ Fails \/ PressHome \/ PressInsert
  \/ \E t \in Threads : JavaFetch(t) \/ JavaHandler(t) \/ Faults(t)

MainSpec == MainInit /\ [][MainNext]_mainVars

\* The operating system schedules every thread; nobody is obliged to press a
\* key, and no call is obliged to fail.
FairMainSpec ==
  /\ MainSpec
  /\ WF_mainVars(MainStep)
  /\ \A t \in Threads : WF_mainVars(JavaHandler(t))

-----------------------------------------------------------------------------
(* Properties *)

\* The program counters of main_thread and of its call fit together.
MainTypeOK ==
  /\ TypeOK
  /\ phase \in Phase
  /\ offsets.bytecode_start \in Byte
  /\ agent.pc # "idle" => phase \in {"wait_home", "removing"}

\* Where setup can go on with the calls it has found, the signatures have led it to
\* the functions they stand for.
Recognised ==
  \A vm \in Machines :
    LET calls == FindVmCalls(vm.template)
    IN  GetInterceptionAddress(vm.entry) # 0 /\ ~FindVmCallsFaults(vm.template)
          /\ ~(Len(calls) < 2) =>
            calls[1] = Jvm.get_original_bytecode_at /\ calls[2] = Jvm._breakpoint

\* Wherever a signature matches, the operands beside it are those the interpreter
\* uses: where the thread keeps rbp and rax, and where the bytecode of a method is.
SignaturesGenuine ==
  \A vm \in Machines :
    /\ \A a \in Found(vm.template, CallPattern(vm.template), 1, 1 + max_len) :
         Jvm.thread = [frame |-> Read(vm.template, a + 6, 4),
                       operand_stack |-> Read(vm.template, a + 13, 4)]
    /\ \A a \in Found(vm.entry, fixed_frame_entry, 1, 1 + \h100) :
         vm.entry[a + 19] = Jvm.bytecode_start

\* The code is not touched unless the two runtime functions that the template of
\* 0xCA calls jump to their handlers, so no Java thread reaches the JVM's own
\* breakpoint code, whichever of Machines setup has scanned and wherever it has
\* failed.
HooksBeforeArmed ==
  memory # Code =>
    hooks = {<<Jvm.get_original_bytecode_at, "original_bytecode_handler">>,
             <<Jvm._breakpoint, "breakpoint_callback">>}

\* From when setup goes on to hook, the DLL knows where the thread keeps its frame
\* and its operand stack, and the bytecode offset or nothing: no scan that fails
\* leaves a wrong one behind (find_vm_calls, find_bytecode_start_offset).
OffsetsFound ==
  phase \in {"hook_original", "hook_breakpoint", "find_class", "find_method",
             "set_breakpoint", "wait_home", "removing"} =>
    /\ offsets.thread = Jvm.thread
    /\ offsets.bytecode_start \in {0, Jvm.bytecode_start}

\* From the moment the breakpoint is armed until HOME is pressed every Java thread
\* dispatches the original opcode and runs the callback, with no allowance for
\* data races (main.cpp:42-53).
BreakpointWorks ==
  phase = "wait_home" =>
    \A t \in Threads :
      /\ hit[t].rbx # Absent => hit[t].rbx = Code[hit[t].bcp]
      /\ hit[t].opcode # Absent => hit[t].opcode = Code[hit[t].bcp]
      /\ pc[t] \in {"callback", "dispatch"} => hit[t].callback = Printf

\* The registry of the breakpoints is not raced on before its only breakpoint
\* is being removed; what two Java threads can race on is bytecode_offsets.
RegistryRacesOnlyInRemoval ==
  raced \subseteq {"bytecode_offsets"}
  \/ phase \in {"removing", "wait_insert", "unloaded", "crashed"}

\* When the module is gone the code is what the class loader made it, whatever
\* failed before and whatever raced (main.cpp:54-69).
UnloadRestoresCode == phase \in {"wait_insert", "unloaded"} => memory = Code

\* A thread that the removal overtakes in its handlers, or that comes to them only
\* after it, dispatches the original opcode or the 0 that operator[] supplies, never
\* 0xCA, and runs print_callback or nothing, however the maps have been raced on
\* (main.cpp:54, breakpoints.cpp:73-94).
LateHitsContained ==
  \A t \in Threads :
    /\ hit[t].rbx # Absent => hit[t].rbx \in {Code[hit[t].bcp], nop}
    /\ pc[t] = "callback" => hit[t].callback = Printf

\* After the removal the threads leave the handlers for good, unless the module
\* is unloaded before they have.
QuietAfterRemoval ==
  phase = "removing" ~>
    ((\A t \in Threads : pc[t] = "run") /\ memory = Code) \/ ~Mapped
=============================================================================
