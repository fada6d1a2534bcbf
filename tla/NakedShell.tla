------------------------------ MODULE NakedShell ------------------------------
(***************************************************************************)
(* The naked shell of hook::hook (utility/naked_hook.asm): the code between *)
(* a hooked function and its C++ callback.  It pushes the registers, hands  *)
(* the callback a pointer to them, saves and restores the FPU state, and    *)
(* goes on to the trampoline or back to the caller.                         *)
(*                                                                         *)
(* One thread calls hooked functions; a callback may call them too.  What   *)
(* the shell keeps is on the thread's stack or thread_local, so threads do  *)
(* not meet here.  The stack is counted in words of eight bytes and grows   *)
(* towards 1; words below rsp keep their contents until they are reused.    *)
(*                                                                         *)
(* Left out: how the bytes of the stub are found and copied.                *)
(***************************************************************************)
EXTENDS Integers, Sequences, SequencesExt

CONSTANTS
  Functions,  \* the functions that can be hooked
  Depth,      \* bound: hooked calls in progress at the same time
  Arguments,  \* the locals of the Java method that calls
  StackSize,  \* bound: words of the stack
  None

VARIABLES
  support,  \* pointer 0 of the arguments: does the CPU support FXSAVE?
  shells,   \* shells[f]: the arguments in f's copy of the stub
  pc,       \* where the thread is
  rsp, regs, stack, fpu,
  xsave_state_bufs,  \* thread_local: the FPU state saved for a return address
  frames    \* history: the hooked calls in progress, with their entry states

vars == <<support, shells, pc, rsp, regs, stack, fpu, xsave_state_bufs, frames>>
hooked == <<support, shells>>

(* Words: integers, addresses on the stack, return addresses, values. *)
Int0 == <<"int", 0>>
Int1 == <<"int", 1>>
Pointer(i) == <<"pointer", i>>
Junk == <<"value", "junk">>     \* whatever a C++ function leaves behind
New == <<"value", "new">>       \* what a callback writes

\* save_cpu_state_gpr, in the order of its pushes.
Saved == <<"rax", "rbx", "rcx", "rdx", "rsi", "rdi", "rbp", "r8", "r9", "r10",
           "r11", "r12", "r13", "r14", "r15", "flags">>

\* A struct hook_context that lists the registers as they are pushed.
FieldsAsPushed == <<"skip_original_call">> \o Saved

\* struct hook_context, in the order of its addresses.
hook_context ==
  <<"skip_original_call", "flags", "r15", "r14", "r13", "r12", "r11", "r10", "r9",
    "r8", "rbp", "rdi", "rsi", "rdx", "rcx", "rbx", "rax">>

Register == ToSet(Saved)

ASSUME ShellAssumption ==
  /\ None \notin Functions \cup Register \cup [hook : Functions, orig : Functions]
  /\ Depth \in Nat \ {0} /\ Arguments \in Nat \ {0}
  /\ StackSize \in Nat /\ StackSize >= Arguments + 1 + 40 * Depth

\* What a C++ function need not preserve.
Volatile == {"rax", "rcx", "rdx", "r8", "r9", "r10", "r11", "flags"}

\* The call sites of run_xsave_callback: three expansions of preserve_fpu_state.
Site == {"save_fpu", "skip_original_call", "invoke_original_call"}

Clobbered == [r \in Register |-> IF r \in Volatile THEN Junk ELSE regs[r]]

\* The stack after words are pushed, and after a function called with rsp = sp
\* (return address included) has used its home space and what is below it.
Pushed(st, words, sp) ==
  [i \in 1..StackSize |-> IF sp - Len(words) <= i /\ i < sp THEN words[sp - i] ELSE st[i]]

Push(words, sp) == Pushed(stack, words, sp)

Used(st, sp) == [i \in 1..StackSize |-> IF i <= sp + 4 /\ i # sp THEN Junk ELSE st[i]]

At(f, label) == [function |-> f, label |-> label]

Here(label) == pc.label = label

Top == frames[Len(frames)]

\* The program calls with registers, a stack and an FPU state of its own.
ProgramRegs == [r \in Register |-> IF r = "r14" THEN Pointer(StackSize) ELSE <<"value", r>>]
ProgramStack == [i \in 1..StackSize |-> Int0]
ProgramRsp == StackSize - Arguments - ((StackSize - Arguments) % 2)

Goes(label) == pc' = At(pc.function, label)

\* get_xsave_support_level: none or FXSAVE; XSAVE, 2, is switched off there.
XsaveSupportLevels == {0, 1}

\* alloc_xsave_state zeroes the buffer it allocates.
AllocXsaveState == "zero"

Init ==
  /\ support \in XsaveSupportLevels
  /\ shells = [f \in Functions |-> None]
  /\ pc = At(None, "program")
  /\ rsp = ProgramRsp
  /\ regs = ProgramRegs
  /\ stack = ProgramStack
  /\ fpu = "program"
  /\ xsave_state_bufs = [f \in Functions |-> [s \in Site |-> AllocXsaveState]]
  /\ frames = <<>>

-----------------------------------------------------------------------------
(* create_naked_shell *)

\* init_shell_args: the callback and the trampoline of f.
InitShellArgs(f) == [hook |-> f, orig |-> f]

\* Shells that go on reading the arguments of the stub, which are those of the
\* function hooked last.
SharedArguments(f) ==
  /\ shells[f] = None
  /\ shells' = [g \in Functions |->
                 IF g = f \/ shells[g] # None THEN InitShellArgs(f) ELSE None]
  /\ UNCHANGED <<support, pc, rsp, regs, stack, fpu, xsave_state_bufs, frames>>

\* The stub is copied with the arguments that have just been written into it.
CreateNakedShell(f) ==
  /\ shells[f] = None
  /\ shells' = [shells EXCEPT ![f] = InitShellArgs(f)]
  /\ UNCHANGED <<support, pc, rsp, regs, stack, fpu, xsave_state_bufs, frames>>

-----------------------------------------------------------------------------
(* The shell *)

\* f is called with the stack aligned: rsp is sp, and the entry state is recorded.
Enter(f, st, sp, registers, fpuState) ==
  /\ shells[f] # None /\ Len(frames) < Depth
  /\ stack' = Pushed(st, << <<"return", pc>> >>, sp)
  /\ rsp' = sp - 1
  /\ regs' = registers /\ fpu' = fpuState
  /\ pc' = At(f, "save_gpr")
  /\ frames' = Append([i \in DOMAIN frames |-> [frames[i] EXCEPT !.called = TRUE]],
                      [function |-> f, rsp |-> sp - 1, regs |-> registers, fpu |-> fpuState,
                       context |-> None, wrote |-> None, skip |-> FALSE, called |-> FALSE])
  /\ UNCHANGED <<hooked, xsave_state_bufs>>

ProgramCalls(f) ==
  Here("program") /\ Enter(f, ProgramStack, ProgramRsp, ProgramRegs, "program")

\* A callback has entered with an odd rsp and makes room for its callee.  Bound:
\* it calls once, and writes afterwards.
CallbackCalls(f) ==
  /\ Here("callback") /\ Top.wrote = None /\ ~Top.skip /\ ~Top.called
  /\ Enter(f, stack, rsp - 5, regs, fpu)

\* save_cpu_state_gpr
SaveRegisters ==
  /\ Here("save_gpr") /\ Goes("push_skip")
  /\ stack' = Push([i \in DOMAIN Saved |-> regs[Saved[i]]], rsp)
  /\ rsp' = rsp - Len(Saved)
  /\ UNCHANGED <<hooked, regs, fpu, xsave_state_bufs, frames>>

\* The argument skip_original_call, 0, is popped again: it stays below rsp, and
\* rcx points to it.
PushSkip ==
  /\ Here("push_skip") /\ Goes("save_fpu")
  /\ stack' = Push(<<Int0>>, rsp)
  /\ regs' = [regs EXCEPT !["rcx"] = Pointer(rsp - 1), !["rax"] = Int0]
  /\ UNCHANGED <<hooked, rsp, fpu, xsave_state_bufs, frames>>

\* preserve_fpu_state: saves the argument registers around the call.  Its pushes
\* overwrite the word below rsp.
PreserveFpuState ==
  IF support = 0 THEN UNCHANGED <<regs, stack>>
  ELSE /\ stack' = Used(Push(<<regs["rcx"], regs["rdx"], regs["r8"]>>, rsp), rsp - 9)
       /\ regs' = [r \in Register |->
                     IF r \in {"rcx", "rdx", "r8"} THEN regs[r] ELSE Clobbered[r]]

\* run_xsave_callback finds the buffer by its return address; one that is not
\* found is allocated and zeroed.
SaveFpu ==
  /\ Here("save_fpu") /\ Goes("call_hook")
  /\ PreserveFpuState
  /\ xsave_state_bufs' = IF support = 0 THEN xsave_state_bufs
                         ELSE [xsave_state_bufs EXCEPT ![pc.function]["save_fpu"] = fpu]
  /\ UNCHANGED <<hooked, rsp, fpu, frames>>

\* sub rsp, 28h: home space and one word more, so that the callback is aligned.
HomeSpaceOnly == 4
Room == 5

CallHook ==
  /\ Here("call_hook")
  /\ pc' = At(shells[pc.function].hook, "callback")
  /\ stack' = Used(Push(<< <<"return", At(pc.function, "test_skip")>> >>, rsp - Room),
                   rsp - Room - 1)
  /\ rsp' = rsp - Room - 1
  /\ frames' = [frames EXCEPT ![Len(frames)].context = regs["rcx"][2]]
  /\ UNCHANGED <<hooked, regs, fpu, xsave_state_bufs>>

\* "Adjust for the additional skip_original_call argument": [rsp] and [rsp - 8].
UnadjustedSkip == stack[rsp]
SkipArgument == stack[rsp - 1]

TestSkip ==
  /\ Here("test_skip")
  /\ Goes(IF SkipArgument = Int1 THEN "skip_original_call" ELSE "invoke_original_call")
  /\ UNCHANGED <<hooked, rsp, regs, stack, fpu, xsave_state_bufs, frames>>

RestoreFpu ==
  /\ pc.label \in {"skip_original_call", "invoke_original_call"}
  /\ Goes(IF Here("skip_original_call") THEN "return" ELSE "jump")
  /\ PreserveFpuState
  /\ fpu' = IF support = 0 THEN fpu ELSE xsave_state_bufs[pc.function][pc.label]
  /\ UNCHANGED <<hooked, rsp, xsave_state_bufs, frames>>

\* restore_cpu_state_gpr that pops in the order of the pushes.
PoppedAsPushed == [r \in Register |->
                     stack[rsp - 1 + (CHOOSE i \in DOMAIN Saved : Saved[i] = r)]]

\* restore_cpu_state_gpr: the last register pushed is at rsp.
Popped == [r \in Register |->
             stack[rsp + Len(Saved) - (CHOOSE i \in DOMAIN Saved : Saved[i] = r)]]

\* Returns to the address at sp; a callback gives back the room it made.
Return(sp) ==
  /\ pc' = stack[sp][2]
  /\ rsp' = IF pc'.label = "callback" THEN sp + 6 ELSE sp + 1

\* restore_cpu_state_gpr and the jump to the trampoline, or the ret.
Leave ==
  /\ Here("jump") \/ Here("return")
  /\ regs' = Popped
  /\ IF Here("jump")
     THEN /\ pc' = At(shells[pc.function].orig, "original")
          /\ rsp' = rsp + Len(Saved)
          /\ UNCHANGED frames
     ELSE Return(rsp + Len(Saved)) /\ frames' = Front(frames)
  /\ UNCHANGED <<hooked, stack, fpu, xsave_state_bufs>>

-----------------------------------------------------------------------------
(* The callback and the hooked function *)

Field(name) == Top.context + (CHOOSE i \in DOMAIN hook_context : hook_context[i] = name) - 1

\* Bound: a callback writes once, one register of its context or one local.
WriteContext(r) ==
  /\ Here("callback") /\ Top.wrote = None
  /\ stack' = [stack EXCEPT ![Field(r)] = New]
  /\ frames' = [frames EXCEPT ![Len(frames)].wrote = r]
  /\ UNCHANGED <<hooked, pc, rsp, regs, fpu, xsave_state_bufs>>

SkipOriginalCall ==
  /\ Here("callback") /\ ~Top.skip
  /\ stack' = [stack EXCEPT ![Field("skip_original_call")] = Int1]
  /\ frames' = [frames EXCEPT ![Len(frames)].skip = TRUE]
  /\ UNCHANGED <<hooked, pc, rsp, regs, fpu, xsave_state_bufs>>

\* The locals of a Java method are below the address in r14.
LocalsFromOne(index) == stack[Field("r14")][2] - index - 1
Local(index) == stack[Field("r14")][2] - index

\* hook_context::set_parameter, in a hook of the interpreter.
SetParameter(index) ==
  /\ Here("callback") /\ Top.wrote = None
  /\ stack[Field("r14")] = Pointer(StackSize)
  /\ stack' = [stack EXCEPT ![Local(index)] = New]
  /\ frames' = [frames EXCEPT ![Len(frames)].wrote = "locals"]
  /\ UNCHANGED <<hooked, pc, rsp, regs, fpu, xsave_state_bufs>>

\* The callback uses the FPU and returns; add rsp, 28h takes the room back.
RoomNotFreed == rsp + 1
RoomFreed == rsp + 1 + Room

CallbackReturns ==
  /\ Here("callback")
  /\ pc' = stack[rsp][2]
  /\ rsp' = RoomFreed
  /\ regs' = Clobbered
  /\ fpu' = "callback"
  /\ UNCHANGED <<hooked, stack, xsave_state_bufs, frames>>

OriginalReturns ==
  /\ Here("original")
  /\ Return(rsp)
  /\ regs' = Clobbered
  /\ frames' = Front(frames)
  /\ UNCHANGED <<hooked, stack, fpu, xsave_state_bufs>>

-----------------------------------------------------------------------------

ShellStep ==
  \/ SaveRegisters \/ PushSkip \/ SaveFpu \/ CallHook \/ TestSkip \/ RestoreFpu \/ Leave

CallbackStep ==
  \/ \E r \in Register : WriteContext(r)
  \/ SkipOriginalCall
  \/ \E index \in 0..Arguments - 1 : SetParameter(index)
  \/ CallbackReturns

Next ==
  \/ \E f \in Functions : CreateNakedShell(f) \/ ProgramCalls(f) \/ CallbackCalls(f)
  \/ ShellStep \/ CallbackStep \/ OriginalReturns

Spec == Init /\ [][Next]_vars

-----------------------------------------------------------------------------
(* Properties *)

\* How far rsp is below the return address of the hooked call.
Pushes ==
  CASE pc.label \in {"save_gpr", "original"} -> 0
    [] pc.label = "callback" -> Len(Saved) + 6
    [] OTHER -> Len(Saved)

\* The stack is balanced wherever the thread is, and where it is fits the hooked
\* calls in progress (all of naked_hook.asm).
ShellTypeOK ==
  /\ support \in XsaveSupportLevels
  /\ IF frames = <<>> THEN rsp = ProgramRsp ELSE rsp = Top.rsp - Pushes
  /\ DOMAIN regs = Register /\ DOMAIN stack = 1..StackSize
  /\ fpu \in {"program", "callback", "zero"}
  /\ Len(frames) <= Depth
  /\ Here("program") <=> frames = <<>>

\* A callback gets a pointer to the registers its hooked function was called
\* with, in the layout of hook_context, until it changes them.
ContextShowsRegisters ==
  Here("callback") =>
    \A r \in Register :
      stack[Field(r)] = IF r = Top.wrote THEN New ELSE Top.regs[r]

\* When the shell is left the registers are those of the call, but for what the
\* callback changed ("Any modified registers will be reflected after restoring
\* the CPU state below", naked_hook.asm:184), and the stack is as it was.
RegistersReflected ==
  [][Leave =>
       /\ regs' = [r \in Register |-> IF r = Top.wrote THEN New ELSE Top.regs[r]]
       /\ rsp' \in {Top.rsp, Top.rsp + 1, Top.rsp + 6}
       /\ pc'.label # "original" => pc' = stack[Top.rsp][2]]_vars

\* Nothing the shell or a callback does touches the caller's part of the stack;
\* set_parameter changes the locals of the Java method only.
CallerStackKept ==
  [][frames # <<>> =>
       \A i \in Top.rsp..StackSize :
         stack'[i] # stack[i] => stack'[i] = New /\ i > StackSize - Arguments]_vars

\* The original function runs exactly if the callback has not asked to skip it,
\* although what it finds in skip_original_call need not be 0.
SkipObeyed ==
  /\ pc.label \in {"skip_original_call", "return"} => Top.skip
  /\ pc.label \in {"invoke_original_call", "jump", "original"} => ~Top.skip

\* Each copy of the shell goes to the callback and the trampoline of its own
\* function, whatever is hooked later (create_naked_shell).
OwnCallback ==
  pc.label \in {"callback", "original"} => pc.function = Top.function

\* A callback is entered with the stack the calling convention asks for.
CallbackAligned == Here("callback") => rsp % 2 = 1

\* Where FXSAVE is supported, the FPU state after the shell is the one before it
\* ("saving/restoring FPU state", hook.cpp:37).
FpuRestored == [][Leave /\ support = 1 => fpu' = Top.fpu]_vars
=============================================================================
