# A TLA+ model of java-breakpoint-breakout

The program is a DLL that is loaded into a running JVM. It writes the breakpoint
opcode `0xCA` over bytes of interpreted Java methods and hooks the two runtime
functions the interpreter calls when it dispatches that opcode, so that a
callback runs and the original instruction is executed afterwards. This
directory holds TLA+ modules of its parts, TLC configurations that check them on
small instances, and TLAPS proofs of what matters most for every instance.

Source paths below are relative to the repository (`src/` in `PROJECT.json`).

## The system

| part | source | state | operations | what makes it correct |
|---|---|---|---|---|
| breakpoint registry | `src/breakpoints/breakpoints.cpp`, `src/classes/method.cpp` | the bytes of the methods; the maps `original_bytecodes` and `breakpoint_callbacks` | `add_breakpoint`, `remove_breakpoint`, `remove_all_breakpoints`; the handlers `original_bytecode_handler` and `breakpoint_handler` that replace two functions of jvm.dll | a hit executes the original opcode and runs the callback; only `0xCA` on opcodes is ever written; removing restores the code |
| decoding | `src/classes/bytecode.cpp`, `include/classes/bytecode.hpp`, `src/breakpoints/bytecode_info.cpp` | static map `bytecode_offsets` | `get_opcode`, `get_length`, `get_stack_consumption`, two constructors | an armed instruction decodes as if it were not armed |
| method code | `include/classes/method.hpp` | the bytes of one method | `get_bytecode_size`, `set_bytecode`, `get_bytecode` | a walk stops at the instructions and nowhere else; a new body fills the method exactly; a copy written back restores it |
| breakpoint information | `src/breakpoints/breakpoint_info.cpp` | one object per hit | construction, opcode, operands, parameters, destruction | what the callback sees belongs to its hit; it reaches the operands of its instruction and no others |
| main thread | `src/main.cpp`, `src/java.cpp`, `setup` in `breakpoints.cpp` | where `main_thread` is; which functions are hooked | attach, setup, find, set, wait for HOME, remove, wait for INSERT, unload | hooks before the first `0xCA`; the code is restored before the module goes |
| inline hooks | `src/utility/hook.cpp` | `hook_map`, `original_functions`, bytes of hooked functions, suspended threads | `hook`, `hook_normal`, `unhook`, `get_original` | a caller of a hooked function runs the callback or the whole original |
| naked shell | `src/utility/naked_hook.asm`, `run_xsave_callback` | saved registers, FPU buffers per thread | enter, save, call, restore, return | registers after the callback are what it left |
| scanner | `src/utility/vm_calls.cpp` | offsets found | `scan`, `find_vm_calls`, `find_bytecode_start_offset` | what is found is what the signature describes |
| object accessors | `include/classes/*.hpp`, `src/classes/klass.cpp` | none | field reads | none to model |
| hde64 | `src/hde`, `include/hde` | none | instruction lengths | vendored |

How they interact: `main_thread` calls `setup`, which scans for the two runtime
functions and hooks them, and then the registry through `Method`. Java threads
meet an `0xCA` in a method's bytes, jump through the hooks into the two
handlers, and these read the registry; `breakpoint_handler` builds a
`BreakpointInfo`, whose `Bytecode` reads the registry again and writes
`bytecode_offsets`. No lock protects any of this: the agent thread and all Java
threads share the bytes and the three maps. That concurrency, and the order of
the writes in add and remove, is the hard part of the program; the other hard
parts are failures half-way through the set-up, unloading while handlers run,
sweeps and walks over raw bytes, and patching code other threads execute. The
list of hazards with their lines is in `PROJECT.json`.

## Modules

* `Bytecode` - opcodes, the tables of lengths and of operands consumed, and
  `get_length`. The `-1` entries of the first are 255, as in the `uint8_t` they
  are stored in. The switch branches of `get_length` are left out: their comment
  says they are wrong, and the constructor that `get_bytecode_size` uses throws
  for switches (`Throws`).
* `BreakpointSpec` - what a breakpoint promises, without a registry.
* `Breakpoints` - the registry, one agent thread and any number of Java threads,
  and the mapping under which it implements `BreakpointSpec`.
* `BreakpointsProofs`, `BreakpointsRefinement` - theorems about `Breakpoints`.
* `VmCalls` - signatures, scans, and what is read next to where they match.
* `MainThread` - composes `Breakpoints` and `VmCalls`: the agent becomes
  `main_thread`, the Java threads run before, during and after its life;
  `MainThreadProofs` - theorems about it.
* `MethodCode` - the code of one method with breakpoints in it, used by one thread;
  `MethodCodeProofs` - theorems about it, on top of `FlattenProofs`, which says what
  `FlattenSeq` computes.
* `Hook` - `hook`, `hook_normal` and `unhook` of one function, one agent and any
  number of threads that call the function, and the mapping under which it
  implements `InterceptSpec`; `HookProofs` - theorems about it.
* `InterceptSpec` - what hooking a function promises to its callers, without bytes
  and trampolines; `HookRefinement` - the proof that `Hook` implements it.
* `NakedShell` - the code between a function hooked by `hook` and its callback;
  `NakedShellProofs` - theorems about it.
* `MCBreakpoints`, `MCMainThread`, `MCMethodCode`, `MCHook`, `MCNakedShell` -
  instances for TLC.

Definitions whose comment says what they do wrong (`SavedAfterArming`,
`HomeSpaceOnly`, ...) are faulty variants of the operator that follows them.
No specification uses them. They are there to see that a property notices when
the operator is replaced by its variant.

### Breakpoints

`memory`, `original_bytecodes`, `breakpoint_callbacks` and `bytecode_offsets` are
the variables of the program. `agent` holds the program counter and the locals
of the API call in progress, `pc[t]` and `hit[t]` those of Java thread `t`
between the dispatch of `0xCA` and the dispatch of the original opcode. The
callback is a value the handler copies; running it is the state `"callback"`, in
which it may ask its `BreakpointInfo` for the opcode once.

One action is one access to shared memory, in the order of the code:

| code | actions |
|---|---|
| `add_breakpoint` | `AddBreakpoint` (read the byte, start the insertion), `AddOriginal`, `AddCallback`, `AddArm` |
| `remove_breakpoint` | `RemoveBreakpoint` (`operator[]`, start the erase), `RemoveOriginal`, `RemoveCallback`, `RemoveRestore` |
| `remove_all_breakpoints` | `RemoveAllBreakpoints`, then per byte `SweepStop`, `SweepSkip` or `SweepFound` with the three steps of a removal |
| `original_bytecode_handler` | `OriginalBytecodeHandler`, `OriginalInserted` |
| `breakpoint_handler` | `BreakpointHandler`, `CallbackInserted`, then `GetOpcode*` and `StoreOffset`/`OffsetInserted` (the `BreakpointInfo`), `CallbackAsks`, `CallbackReturns` |
| the interpreter (external) | `Fetch`, `Dispatch` |

`operator[]` inserts a missing key: 0 in `original_bytecodes`, an empty function
in `breakpoint_callbacks`. The models do the same.

**Data races.** A change of a `std::map` takes two steps. Between them its thread
is in a *window* of the map, and an access by another thread inside the window is
a data race, which C++ leaves undefined. The model records the map in `raced` and
goes on with a choice: the racing look-up finds the key or misses it; a key that
is missed is inserted a second time and either value may be found later. Crashes
and corrupted trees are not modelled. Properties that can only hold without a
race say so by name (`... \/ "original_bytecodes" \in raced`), and the `MainThread`
properties have no such allowance where the program can be shown not to race.

**History variables.** `raced`, and `hit[t].covered`: no removal of the
breakpoint had begun when `t` fetched `0xCA`, nor has one since.

**Clients.** `Spec`, which the theorems about every client are about, lets the client
make any call on any address of `Targets`, operands included, because `add_breakpoint` and `remove_breakpoint` do not look at
`offset`. What a Java thread executes behind an opcode the client has overwritten (its
instructions begin elsewhere then) is not modelled: threads meet breakpoints on
instructions only. `PairedSpec` has the client the API is made for: it adds where no
breakpoint is set and removes where one is. `SweepSpec` adds
`remove_all_breakpoints` and calls in any order on those of `Targets` that are operands. The API has no lock, so its calls are serial in
all three.

**What it implements.** In `BreakpointSpec` a site has no breakpoint, one with a
callback, or one that is being withdrawn; a thread arrives, learns the opcode it
will go on with, runs the callback, may be told the opcode, and leaves. A visit
during which nothing is withdrawn is `sure`: it gets the callback of the site and
the original opcode and nothing else. The mapping takes the site from the byte in
memory and the removal in progress, not from the maps (`Site`), so setting a
breakpoint is the single step `AddArm` and withdrawing it the first step of the
removal; all writes to the two maps are stutters that must have prepared what the
visits are promised. A data race on one of these two maps makes the promise void
(`Broken`).

### MainThread

`phase` is where `main_thread` is, `hooks` the functions of jvm.dll that jump into
the module. `Fails` is every exit to the `catch` clause: a failed attach, look-up,
scan or hook. What was hooked stays hooked. `SetupStops` is `setup` that finds no way to the template of `0xCA`
(no dispatch jump, or a null in the dispatch table), the second after the offset of
the bytecode is stored; `SetupScans` runs the scans of
`setup` over the machine code of one of `Machines` and keeps what they find:
`vm_calls`, which is what gets hooked, and `offsets`. `Jvm` says what there is to
find, so that a scan that matches the wrong place shows. HOME and INSERT may be pressed at any
time. After INSERT the module's code is not mapped, and a thread that is still in
a handler faults (`Faults`). Installing one hook is one step here: how the bytes
are patched is the subject of `Hook`.

### VmCalls

A pattern is a sequence of bytes and wildcards. It goes through `HexToBytes` (a
wildcard becomes the byte `0x3F`, which `scan` takes for one) and `CString`
(`scan` gets a `char*` and so the signature ends at its first zero byte: the
second call pattern is cut in the middle). A scan that fails returns 0; the
address pattern is then read relative to 0, which is `FindVmCallsFaults`. The seven
interpreters are: one for each call pattern; one whose frame entry does not match,
so that `bytecode_start_offset` stays 0 and the breakpoint lands in the
`ConstMethod`; one without a dispatch jump; one without a template for `0xCA` (`NoTemplate`); one
with a single call; and one that
only the cut signature matches, which faults.

### MethodCode

The client installs bodies with `set_bytecode`, or copies the code with
`get_bytecode` and writes the copy back, while no breakpoint is in the method, and
sets and removes breakpoints on instructions. A body is made of instructions as a
class file has them (`IsInstruction`), as the JVM's verifier demands. Where instructions start is known
from how a body is written down (a sequence of instructions), not from the length
table, so the walk is compared with something independent. In the same way the
operands that `get_operand` reaches are compared with what an instruction pops
by its kind (`Pops`), not with the table the code uses.

### Hook

A function is given by the addresses of its instructions (`Start`), and
`code` holds its first `shell_size` bytes, each its own or one of the jump. A call
is what a thread does in the function: at its next instruction, in the callback, on
the trampoline, or returned. It executes an instruction if none of its bytes is
overwritten, takes the jump if all of it is there, and otherwise is `"wild"`: it
runs a mixture of both. `ran` is the history of instructions executed,
in place or on the trampoline.

| code | actions |
|---|---|
| `suspend_all_threads`, `resume_all_threads` | `Hook` takes the snapshot, `SuspendThread` per thread, `AllSuspended`; `Unprotect` takes the second snapshot, `ResumeThread`, `AllResumed` |
| `get_minimum_shell_size`, `create_trampoline` | `LastDisplaced`, `CreateTrampoline`, `Trampoline` |
| the bytes kept for `unhook` | `CopyOriginalBytes`, freed in `HookReturns` |
| `ScopedVirtualProtect` and the `memcpy` of the jump | `Protect`, `WriteByte` in any order, `Unprotect` |
| `unhook` | `Unhook`, `UnhookErase` |

Allocation takes the lock of the heap (`heap`), which a thread may hold when it
is suspended. `get_original` is read in `CallsOriginal`. Instructions are taken to
work at any address, as the code does when it copies them.

**What it implements.** In `InterceptSpec` a function is plain, being switched, or
hooked; a call runs its instructions in order, or is intercepted and then returns or
has the function run. `Phase` says when: the switch begins with the change of the
page's protection and ends with the last byte of the jump, in whatever order the bytes
are written. `Shown` forgets where an instruction was executed, so the end of the
trampoline is a stutter, and so are suspending, resuming and allocating. A call may be
lost (`Lose`) only while the next of its instructions is one of the displaced ones and
it has not been in the callback: while the jump is written, or after that if it had
begun before. A call that finds the jump complete is never lost.

### NakedShell

The stack is a sequence of words that grows towards 1; words below `rsp` keep
their contents until something is pushed over them, because the shell reads one
there. `regs`, `rsp` and the FPU state are those of the one thread modelled: all
that a shell keeps is on its thread's stack or `thread_local`. `pc` is the place
in a shell, a callback or an original function; `frames` is history: the state
each hooked call was entered with and what its callback did.

| code | actions |
|---|---|
| `create_naked_shell`, `init_shell_args` | `CreateNakedShell` |
| `save_cpu_state_gpr`; the argument `skip_original_call` | `SaveRegisters`, `PushSkip` |
| `preserve_fpu_state`, `run_xsave_callback` | `SaveFpu`, `RestoreFpu` |
| the call of the callback and the test behind it | `CallHook`, `TestSkip` |
| `restore_cpu_state_gpr` and the jump or `ret` | `Leave` |
| the callback, which writes through `hook_context` | `WriteContext`, `SkipOriginalCall`, `SetParameter`, `CallbackCalls`, `CallbackReturns` |

Whether FXSAVE is used is a choice of `Init`: the code tests a bit of ECX where the
processor reports it in EDX, so either may happen on the same machine.

## Runs

| run | question | instance | result |
|---|---|---|---|
| `paired` | are hits faithful, does every hit call back, does the callback see the original opcode, is the code intact, can every `0xCA` be undone, and is all this `BreakpointSpec`? | 2 threads, 2 neighbouring opcodes, 2 callbacks, paired client | holds (1 584 989 states) |
| `sweep` | does `remove_all_breakpoints` remove all, does every hit end, and is no byte written that no call names? | 1 thread, a 3-byte and a 1-byte instruction, calls on the latter and on an operand of the former, fair | holds (143 892 states) |
| `main_thread` | the life of the DLL, see below | 2 threads, 3 one-byte instructions of `test_mul` behind one byte of `ConstMethod`, 7 interpreters, fair | holds (191 279 states) |
| `method_code` | walk, copy and replacement of bodies, operands of a breakpoint | 12 bytes, 6 bodies | holds (33 072 states) |
| `hook` | what happens to the threads that call a function while it is hooked, and is it what `InterceptSpec` promises? | 2 threads, one started at any time; 3 instructions of 2, 2 and 1 bytes under a jump of 3 | holds (31 482 states) |
| `naked_shell` | do registers, stack and skip request survive the shell? | 2 hooked functions, calls 2 deep, 2 locals, with and without FXSAVE | holds (36 100 states) |
| `sweep_ff` | `sweep` with an operand `0xFF` | `sipush -1; ireturn` | **violated** |
| `sweep_stale` | does a sweep write only over breakpoints? | 1 opcode | **violated** |
| `removal` | is the byte handed to the interpreter always the original one? | 1 opcode | **violated** |
| `hook_resume` | is every suspended thread resumed? | as `hook`, fair | **violated** |
| `unhook` | does `unhook` restore the function? | as `hook` | **violated** |
| `shell_fpu` | is the FPU state after the shell the one before it? | as `naked_shell` | **violated** |

`paired` shows `FaithfulDispatch`, `EveryHitCallsBack`, `OpcodeTransparent`,
`CodeIntact`, `ArmedIsRecoverable` and the refinement `PromiseKept`. `sweep` shows
`TypeOK`, `SweepClearsMethods` (when a sweep returns no `0xCA` is
left on an instruction of its method), `HitCompletes` (a hit ends, races or not) and
`BystandersIntact`: no byte is written but those some call names, although the operand is
added twice, removed where nothing is set and swept.

`main_thread` shows: the code is not touched unless exactly the two functions the template of
`0xCA` calls are hooked, each to its own handler (`HooksBeforeArmed`); what the
scans found is what there is, or nothing (`OffsetsFound`); from arming
to HOME every thread dispatches the original opcode and runs the callback, with
no allowance for races (`BreakpointWorks`), because the only map the threads can
race on then is `bytecode_offsets` (`RegistryRacesOnlyInRemoval`); when the
removal is over the code is the loaded one whatever failed or raced
(`UnloadRestoresCode`); a thread that comes to a handler during the removal or after it, also over
a raced map, dispatches the original opcode or 0 and runs `print_callback` or nothing
(`LateHitsContained`); and threads inside the handlers get out unless the module is unloaded
under them (`QuietAfterRemoval`). Threads that had fetched `0xCA` before still enter
both handlers after the removal has returned. The interpreters are given ones; for others see the
hypotheses of `HooksCorrect` and `OffsetsCorrect`.

`hook` shows: a thread that returns has run the whole function once, in place or
over the trampoline, or the callback and nothing (`CallsRunWhole`); a call that
begins when the jump is complete is intercepted, whatever `hook` has still to do
(`LateCallsIntercepted`); threads behind the displaced instructions are not
disturbed (`BeyondTheJump`); nobody stays suspended when `hook` returns, unless
Windows failed to list or open threads while resuming (`NobodyLeftSuspended`); and
what callers see is `InterceptSpec` (`InterceptionKept`). It does not show that no thread goes wild: threads inside the first 13 bytes do,
under `hook_normal` and, when they are resumed there, under `hook`.

`method_code` shows: `get_bytecode_size` stops at exactly the instructions
(`WalkFindsInstructions`), a new body or a copy written back fills the method and
no byte more (`BodyKept`), and a callback reaches what its instruction pops and
nothing below, although the byte in memory is `0xCA` (`OperandsReached`; putfield,
putstatic, the invokes and the like pop a number of words the code does not know
and are left out of it). `get_operand` takes a signed index and lets a negative one
through to the words above the top; the property asks for indices from 0 on.

`naked_shell` shows: the callback is entered aligned (`CallbackAligned`) with a
`hook_context` that is the registers at the call (`ContextShowsRegisters`), which
are in force again when the shell is left, with what the callback changed
(`RegistersReflected`); the caller's stack is not touched but for a local the
callback names (`CallerStackKept`); the original runs exactly if the callback has
not asked to skip it, although the pushes around the FPU calls overwrite the word
the shell tests (`SkipObeyed`); and each shell goes to its own callback
(`OwnCallback`). All this holds for hooked calls inside callbacks.

**What the violations show.**
1. `sweep_ff`: `remove_all_breakpoints` ends at the first byte `0xFF`
   (`breakpoints.cpp:54`), an operand as well as the end of the code, although it
   says "Iterate over all bytecodes" (line 50). The breakpoint behind `sipush -1`
   stays.
2. `sweep_stale`: a hit that overlaps a removal re-inserts its key with value 0
   (line 76); the next sweep takes the key for a breakpoint (line 56) and turns
   the opcode into `nop`.
3. `removal`: `remove_breakpoint` erases the entry before it restores the byte,
   and in any case after a thread may have fetched `0xCA`. That thread is told the
   original opcode is 0, against `paper/README.md:142` and line 77.
4. `hook_resume`: `hook` suspends all threads (`hook.cpp:321`) and then allocates (323,
   325). If a suspended thread holds the lock of the heap, `hook` waits for it for
   ever and line 354, "Resume all threads in the process", is never reached.
5. `unhook`: the buffer in `hook_map` belongs to a `unique_ptr` and is freed when
   `hook` or `hook_normal` returns (372), so `unhook` copies freed memory (406), and
   on a page that is not writable it faults with the jump still in place. Line 405
   says "Write the original bytes to the original pointer". Nothing in the
   repository calls `unhook`.
6. `shell_fpu`: `run_xsave_callback` finds its buffer by `_ReturnAddress()`
   (`hook.cpp:134`), which differs between the calls that save and restore, so the
   restore loads a buffer of zeros. Line 37 says "saving/restoring FPU state".

Violations 2 and 3 need no data race: the properties ask only about executions
without one.

**Bounds.** One agent and two Java threads give every pair of parties that can
overlap on a map: agent with thread and thread with thread; one thread is enough
where a run asks about the agent's loop. The code has two instructions because
the actions touch one address at a time; a second address shows that nothing
leaks to a neighbour. A three-byte instruction is there for what must not touch
operands. `NoRaceYet` (in `paired`) cuts executions after the first
data race: the racing state itself is checked, its continuations, of which C++
promises nothing, are not. The other runs have no constraint. In `main_thread` the system may stop (`CHECK_DEADLOCK FALSE`): the
process dies, or everything is over. In `hook` a jump of 3 bytes stands for the 13 of the code: what matters is that it
covers one instruction, ends inside another and leaves one alone. A function is
hooked once. `CHECK_DEADLOCK FALSE` there because threads need not call again and
may all be wild. The threads of the registry are interchangeable
(`ThreadSymmetry`, only in `paired`, which has no liveness property), and so are
the hooked functions (`FunctionSymmetry`). In `method_code` the bodies hold what
could mislead a walk: operands that look like `0xFF`, `0xCA` or a switch, a wide
iinc, a switch, a body shorter than the method and one longer. In `naked_shell` one
nested call is enough to have a shell whose frame lies below another's, and a
callback writes once because its writes are independent.

**Fairness.** `FairSweepSpec` and `FairMainSpec` let the operating system schedule
every thread: weak fairness of the steps inside a call of the agent and of the
steps of each thread inside a hit, both enabled until taken. `FairHookSpec` schedules every thread that is not suspended and gives the agent the
lock of the heap if it is free again and again (strong fairness: without it a busy
thread, and not the suspended one, could be blamed). Nothing is fair
about calls of the API, keys, failures or fetching.

## Proofs

`BreakpointsProofs` proves, for every number of threads, code, set of
instructions, methods and callbacks that satisfies `CodeAssumption` (an `0xFF` ends
the modelled bytes, no original opcode is `0xCA`, methods start at instructions)
and `ValueAssumption` (the special values are not ordinary ones):

* `TypeCorrect`: `Spec => []TypeOK`, and `BystandersCorrect`: `Spec => []BystandersIntact`,
  for every set of `Targets`. The invariant is `ClientInv(S)` for the addresses `S` a client
  names: only those are keys of the registry (`KeysWithin`), a call in progress
  works on one of them (`AgentWithin`), so do hits (`HitsWithin`), and
  the other bytes are as loaded (`Untouched`). Without the first, a sweep could find a key
  elsewhere. The other clients are the case of `S` the instructions.
* `HitsCorrect`, `CallbacksCorrect`, `OpcodesCorrect`, `CodeCorrect`,
  `RecoveryCorrect`: `PairedSpec => []P` for `FaithfulDispatch`, `EveryHitCallsBack`,
  `OpcodeTransparent`, `CodeIntact` and `ArmedIsRecoverable`. The invariant is
  `PairedInv`. Beside the properties
  it says that whoever is in a window of a map without a race is alone
  there and missed its key for good (`OriginalExclusive`, `CallbackExclusive`); what
  an add or a removal in progress holds in its locals (`AgentHolds`); that no saved
  byte is `0xCA` (`NoSavedBreakpoint`), that an armed address not being removed is
  registered (`ArmedIsRegistered`), and that the breakpoint of a covered hit is
  still armed (`CoveredIsArmed`). Without the last, a thread could be at a
  breakpoint that was removed and set again with nothing known about its entry.

* `SweepCorrect`: `SweepSpec => SweepClearsMethods`, for the code of one method in
  which every `0xFF` is behind the instructions (`OneMethodCode`; `sweep_ff` is what
  happens otherwise) and any `Targets` in it. In the invariant `SweepInv` only the bytes
  behind the sweep depend on there being no race: an `0xCA` on an instruction
  keeps its key until its removal erases it (`ArmedHasKey`), removals write no `0xCA` to an
  instruction (`NoneRestored`) and no `0xFF` where none was (`EndsLoaded`), and
  behind a sweep no instruction has an `0xCA` (`SweptIsClear`).

A step of the agent is handled action by action and conjunct by conjunct; a step
of a thread by what it leaves alone (`SharedKept`, `OriginalWindowKept`, ...) and
what it does to its own hit (`HitHolds`).

`BreakpointsRefinement` proves `PromiseCorrect`: `PairedSpec => PromiseKept`. Two
facts are needed beyond `PairedInv` (`VisitInv`): what the registry holds for an
address is the original opcode or a 0 left by a late hit, and what a visit has
learned so far fits where its thread is. The agent's steps map to `Set`,
`Withdraw`, `Clear` or a stutter, the threads' to the visits; a step that races
maps to `Break`.

`HookProofs` proves for every number of threads and every function whose
instructions cover the jump (`FunctionAssumption`, `HookAssumption`):

* `HookTypeCorrect`: `HookSpec \/ UnhookSpec => []HookTypeOK`; `ResumeCorrect`:
  `[]NobodyLeftSuspended`, from what the suspending and resuming loops have still to
  do (`Suspension`).
* `WholeCorrect`: `[]CallsRunWhole`. The invariant follows a call through the
  instructions: what it `ran` is a beginning of the function, and its next
  instruction is the one after (`Progress`, `Whole`).
* `LateCorrect`: `[]LateCallsIntercepted`, from how much of the jump is there in each
  phase (`Patched`), that a trampoline exists before the jump does, and that a late
  call is never among the displaced bytes (`Intercepted`).
* `BeyondCorrect`: `HookSpec => BeyondTheJump`, a property of steps.

`HookRefinement` proves `InterceptionCorrect`: `HookSpec => InterceptionKept`. Two
facts are needed beyond those above (`ShownInv`): a byte of the jump is in the code
only while it is written or when all of it is (`JumpByPhase`), and a call that has been
in the callback is on the trampoline or behind the displaced instructions, also if it
began before the jump was complete (`Safe`). `LateCallsIntercepted` says
the latter only of calls that began later. `CallSteps` lists what a step of a thread
makes of its call; each is one of the steps of `InterceptSpec` or does not show.

`MainThreadProofs` proves for every method, number of Java threads and set of
interpreters (`CodeAssumption`, `ValueAssumption`, `MainAssumption`):

* `MainTypeCorrect`, `BreakpointCorrect`, `RacesCorrect`, `UnloadCorrect`
  and `LateHitsCorrect` (`MainSpec => []P`). The
  invariant `MainInv` says for each phase what the registry looks like: unused
  before the first write (`Fresh`), a removal or an add of the one address in
  progress, armed (`Armed`), or restored (`Restored`). Two parts carry it.
  `Elsewhere`: nothing but `CodeStart` is ever written, registered or hit, also
  when the offset of the bytecode was not found and the address is in the
  `ConstMethod`. `Working`: a hit while the breakpoint is armed misses no key, so it
  opens no window of the two maps and there is no race to excuse. The steps of
  the Java threads are taken from the lemmas of `BreakpointsProofs`. `LateHitsCorrect`
  needs what races cannot change: at `CodeStart` the registry holds the original opcode, 0
  or nothing and the callback map `print_callback`, the empty callback or nothing
  (`LateRegistry`), and so does what a thread has copied out of them (`LateHit`).
* `HooksCorrect`: `[]HooksBeforeArmed` under the hypothesis `Recognised`: where
  `setup` goes on with what it found, the signatures have led it to the functions
  they stand for. That is a fact about the machine code of a JVM, not about this
  program; the seven interpreters of the run satisfy it. `HookInv` follows the hooks
  through the phases, and `MainInv` gives that the code is untouched in all phases
  but two.
* `OffsetsCorrect`: `[]OffsetsFound` under the hypothesis `SignaturesGenuine`: wherever
  a signature matches, the operands beside it are those the interpreter uses. This
  too is about the machine code, and `MCMainThread` assumes it, so TLC evaluates
  it for the seven interpreters. What the proof adds is `setup`: a scan answers with 0 or
  with a match (`ScanFinds`, which needs that a set of addresses has a least one), and
  where the first scan for a call fails there are no calls (`NoCalls`) and `setup` stops,
  so an offset that was never found is not used. The offset of the bytecode may
  still be 0: `setup` does not look.

`NakedShellProofs` proves for every set of functions, every depth of hooked calls
inside callbacks and every number of locals (`ShellAssumption`): `ShellTypeCorrect`,
`AlignedCorrect`, `SkipCorrect`, `OwnCallbackCorrect`, `ContextCorrect`, and of
steps `RegistersCorrect` and `CallerStackCorrect`. The invariant `ShellInv`
gives the stack its layout: the `i`-th call in progress has its return address at
`Base(i)`, 28 words below the one around it, and under it its registers
(`Keeps`), the argument `skip_original_call` (`Asked`) and the return address of
its callback (`FrameOK`). It is needed for all calls in progress and not only
the innermost, because the frame of an outer call must be found whole when the
inner one returns. `Asked` says only that the argument is 1 or is not: the FPU call
before the callback overwrites the 0 with `rcx`, a pointer into the stack. The
layout rests on lemmas about the order of the pushes (`Orders`), the fields of
`hook_context` (`FieldPlaces`) and what pushes and calls leave of the stack
(`PushedAt`, `UsedAt`, `FpuCall`).

`MethodCodeProofs` proves for every size of the method and every set of bodies made
of instructions as class files have them (`MethodAssumption`): `MethodTypeCorrect`,
`WalkCorrect`, `BodyCorrect` and `OperandsCorrect`. The assumption says how long an
instruction is by the kinds of its operands (`OperandBytes`), which `LengthTable`
compares with `bytecode_lengths`; `PopsTable` compares the other table with `Pops`.

* The invariant `MethodInv` adds to `BodyKept` that the installed and the copied
  body are made of instructions and fill the method, that the copy is the bytes of
  the copied one, and that only starts of instructions are keys (`KeysAtStarts`):
  otherwise a breakpoint could cover the byte that tells the length of a `wide`.
* The recursion of `Walk` has a solution because the least sets closed under its
  steps are one (`Reached`); how far it goes is an induction over the instructions
  from the last to the first (`WalkStops`).
* Where the instructions are in the bytes is what `FlattenProofs` proves about
  `FlattenSeq` by induction. The induction theorems of the library take
  an operator, which the provers cannot instantiate; `SetInduction` is the same for a
  set, from the well-foundedness of `<`.

All invariants were checked by TLC before they were proved.

Every invariant, property of steps and refinement that a passing run checks is proved.
Only model-checked: liveness (`HitCompletes`, `QuietAfterRemoval`), which these
provers cannot reach; that the interpreters of `MCMainThread` satisfy
`SignaturesGenuine` (an assumption TLC evaluates) and `Recognised` (`HooksBeforeArmed`
would fail for one that does not), which is about given machine code; and what the
violated properties show.

## Not modelled, and the plan

Left to do:

1. Two agents: two threads in `hook` at once, or a second client of the registry.
   Nothing in the repository does either.
2. Switches in `get_length`. Their lengths are read from bytes in the wrong order
   and with a padding that is one off; the comment beside them says that they are
   wrong, and the walk does not ask for them.

Left out for good: `hde64` (vendored), the accessors of VM objects and the macros
that look up field offsets (single reads without state), the parameter accessors of
`BreakpointInfo` (the same two lines as those of `hook_context`, which are
modelled), how the bytes of the stub are delimited, console output, the
JIT (a compiled method does not dispatch bytecodes, the README of the program
asks for one that is interpreted).
