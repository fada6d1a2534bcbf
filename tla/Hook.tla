--------------------------------- MODULE Hook ---------------------------------
(***************************************************************************)
(* Inline hooks (utility/hook.cpp): one agent thread writes a jump over the *)
(* first bytes of a function while other threads call the function.         *)
(*                                                                         *)
(* hook_normal, which breakpoints::setup uses, lets the threads run; hook   *)
(* suspends all it can see.  The copy of the jump is not atomic: its bytes  *)
(* appear one by one, in any order.  A thread that executes a mixture of    *)
(* old and new bytes goes "wild": nothing is said of what it does then.     *)
(*                                                                         *)
(* The windows API may fail to list or to open threads; hook goes on.       *)
(*                                                                         *)
(* Left out: instructions that change their meaning when they are copied    *)
(* to a trampoline, a second hook of the same function, two agents at the   *)
(* same time, and the registers the naked shell saves around the callback.  *)
(* "length < shell_size" in hook and hook_normal is never true: the loop of *)
(* get_minimum_shell_size ends when it is false.                            *)
(***************************************************************************)
EXTENDS Integers, Sequences

CONSTANTS
  Threads,    \* the threads that may call the function
  Early,      \* those that exist from the beginning
  Start,      \* Start[i]: where instruction i of the function begins; the last
              \* element is where the function ends
  shell_size, \* the bytes of the jump, 13
  None        \* "nobody", "no pointer"

ASSUME HookAssumption ==
  /\ Early \subseteq Threads
  /\ Start \in Seq(Nat) /\ Len(Start) > 1 /\ Start[1] = 0
  /\ \A i, j \in 1..Len(Start) : i < j => Start[i] < Start[j]
  /\ shell_size \in Nat \ {0}
  /\ None \notin Threads \cup {"trampoline", "live", "freed"}

VARIABLES
  code,                \* the first shell_size bytes of the function
  page,                \* the protection of their page
  hook_map,            \* what hook_map[original] points to
  original_functions,  \* original_functions[hook]: is the trampoline there?
  agent,               \* the thread in hook, hook_normal or unhook
  alive,               \* the threads that have been started
  suspended,           \* the threads that are suspended
  heap,                \* the thread that holds the lock of the C++ heap
  call                 \* call[t]: what t does in the function

vars == <<code, page, hook_map, original_functions, agent, alive, suspended, heap, call>>
world == <<alive, suspended, heap, call>>

Count == Len(Start) - 1
Instructions == 1..Count

\* A loop that stops one byte before the jump is covered.
OneByteShort == CHOOSE i \in Instructions : Start[i] + 1 < shell_size /\ shell_size <= Start[i + 1] + 1

\* get_minimum_shell_size: the last instruction the jump touches.
LastDisplaced == CHOOSE i \in Instructions : Start[i] < shell_size /\ shell_size <= Start[i + 1]

\* The code does not look where the function ends: it has to reach that far.
ASSUME FunctionAssumption ==
  \E i \in Instructions : Start[i] < shell_size /\ shell_size <= Start[i + 1]

Bytes == 0..shell_size - 1

\* The bytes of instruction i that a jump may overwrite.
Touched(i) == {b \in Bytes : Start[i] <= b /\ b < Start[i + 1]}

Own == [b \in Bytes |-> "own"]      \* the function's own bytes
Jump == [b \in Bytes |-> "jump"]    \* callbackShell

(***************************************************************************)
(* A call of the function:                                                 *)
(*   at       where the thread is                                           *)
(*   next     the next instruction it executes                              *)
(*   ran      history: the instructions it has executed                     *)
(*   called   history: the callback has run                                 *)
(*   late     history: it began when the jump was complete                  *)
(***************************************************************************)
Out == [at |-> "out", next |-> 1, ran |-> <<>>, called |-> FALSE, late |-> FALSE]

\* The agent: whether it is in hook, the threads of the snapshot it has still to
\* visit, the protection to restore, and, as history, whether resume_all_threads
\* could not list the threads or open one.
Idle == [pc |-> "idle", suspends |-> FALSE, snapshot |-> {}, old |-> "rx", failed |-> FALSE]

Init ==
  /\ code = Own
  /\ page \in {"rx", "rwx"}
  /\ hook_map = None
  /\ original_functions = None
  /\ agent = Idle
  /\ alive = Early
  /\ suspended = {}
  /\ heap = None
  /\ call = [t \in Threads |-> Out]

-----------------------------------------------------------------------------
(* hook and hook_normal *)

AgentGoes(from, to) == agent.pc = from /\ agent' = [agent EXCEPT !.pc = to]

HookNormal ==
  /\ hook_map = None /\ code = Own       \* bound: one hook of the function
  /\ AgentGoes("idle", "copy")
  /\ UNCHANGED <<code, page, hook_map, original_functions, world>>

\* suspend_all_threads returns at once when there is no snapshot.
Hook ==
  /\ hook_map = None /\ code = Own       \* bound: one hook of the function
  /\ agent.pc = "idle"
  /\ \E listed \in {alive, {}} :
       agent' = [Idle EXCEPT !.pc = "suspend", !.suspends = TRUE, !.snapshot = listed]
  /\ UNCHANGED <<code, page, hook_map, original_functions, world>>

\* A thread that cannot be opened is left running.
SuspendThread ==
  /\ agent.pc = "suspend"
  /\ \E t \in agent.snapshot :
       /\ suspended' \in {suspended \cup {t}, suspended}
       /\ agent' = [agent EXCEPT !.snapshot = @ \ {t}]
  /\ UNCHANGED <<code, page, hook_map, original_functions, alive, heap, call>>

AllSuspended ==
  /\ agent.snapshot = {}
  /\ AgentGoes("suspend", "copy")
  /\ UNCHANGED <<code, page, hook_map, original_functions, world>>

\* make_unique and the insertion into hook_map allocate.
CopyOriginalBytes ==
  /\ heap = None
  /\ hook_map' = "live"
  /\ AgentGoes("copy", "trampoline")
  /\ UNCHANGED <<code, page, original_functions, world>>

\* original_functions with the function as key, where get_original does not look.
UnderTheFunction == original_functions

\* original_functions[hook] = trampoline
UnderTheHook == "trampoline"

\* create_trampoline, and create_naked_shell in hook.
CreateTrampoline ==
  /\ heap = None
  /\ original_functions' = UnderTheHook
  /\ AgentGoes("trampoline", "protect")
  /\ UNCHANGED <<code, page, hook_map, world>>

\* The constructor of ScopedVirtualProtect.
Protect ==
  /\ agent.pc = "protect"
  /\ agent' = [agent EXCEPT !.pc = "patch", !.old = page]
  /\ page' = "rwx"
  /\ UNCHANGED <<code, hook_map, original_functions, world>>

WriteByte ==
  /\ agent.pc = "patch"
  /\ \E b \in {b \in Bytes : code[b] # "jump"} : code' = [code EXCEPT ![b] = "jump"]
  /\ UNCHANGED <<page, hook_map, original_functions, agent, world>>

\* The jump is written, and the destructor of ScopedVirtualProtect runs.
Unprotect ==
  /\ agent.pc = "patch"
  /\ code = Jump
  /\ page' = agent.old
  /\ \/ /\ agent.suspends
        /\ agent' = [agent EXCEPT !.pc = "resume", !.snapshot = alive]
     \/ /\ agent.suspends                  \* no snapshot
        /\ agent' = [agent EXCEPT !.pc = "resume", !.failed = TRUE]
     \/ /\ ~ agent.suspends
        /\ agent' = [agent EXCEPT !.pc = "return"]
  /\ UNCHANGED <<code, hook_map, original_functions, world>>

\* OpenThread and CloseHandle without ResumeThread.
OpenedOnly(t) == suspended

Resumed(t) == suspended \ {t}

ResumeThread ==
  /\ agent.pc = "resume"
  /\ \E t \in agent.snapshot :
       \/ /\ suspended' = Resumed(t)
          /\ agent' = [agent EXCEPT !.snapshot = @ \ {t}]
       \/ /\ UNCHANGED suspended              \* OpenThread fails
          /\ agent' = [agent EXCEPT !.snapshot = @ \ {t}, !.failed = TRUE]
  /\ UNCHANGED <<code, page, hook_map, original_functions, alive, heap, call>>

AllResumed ==
  /\ agent.snapshot = {}
  /\ AgentGoes("resume", "return")
  /\ UNCHANGED <<code, page, hook_map, original_functions, world>>

\* The unique_ptr frees the buffer hook_map points to.
HookReturns ==
  /\ agent.pc = "return"
  /\ heap = None
  /\ hook_map' = "freed"
  /\ agent' = [Idle EXCEPT !.failed = agent.failed]
  /\ UNCHANGED <<code, page, original_functions, world>>

-----------------------------------------------------------------------------
(* unhook *)

\* memcpy from the pointer of hook_map, without a change of the protection: a
\* write to a page that is only executable, or a read through the null pointer
\* operator[] inserts, is a fault.  Freed memory may still hold the old bytes.
Unhook ==
  /\ agent.pc = "idle"
  /\ \/ /\ page = "rx" \/ hook_map = None
        /\ AgentGoes("idle", "fault")
        /\ UNCHANGED code
     \/ /\ page = "rwx" /\ hook_map # None
        /\ AgentGoes("idle", "unhook")
        /\ code' \in {Own, [b \in Bytes |-> "freed"]}
  /\ UNCHANGED <<page, hook_map, original_functions, world>>

\* delete[] of memory that is already free, and the two calls of erase: the key
\* of original_functions is the callback, so the second one finds nothing.
UnhookErase ==
  /\ \/ AgentGoes("unhook", "fault")
     \/ AgentGoes("unhook", "idle")
  /\ hook_map' = None
  /\ UNCHANGED <<code, page, original_functions, world>>

-----------------------------------------------------------------------------
(* The threads *)

Runs(t) == t \in alive \ suspended

Become(t, value) == call' = [call EXCEPT ![t] = value]

ThreadOnly == UNCHANGED <<code, page, hook_map, original_functions, agent>>

Starts(t) ==
  /\ t \notin alive
  /\ alive' = alive \cup {t}
  /\ UNCHANGED <<suspended, heap, call>> /\ ThreadOnly

Allocate(t) ==
  /\ Runs(t) /\ call[t].at = "out" /\ heap = None
  /\ heap' = t
  /\ UNCHANGED <<alive, suspended, call>> /\ ThreadOnly

AllocationEnds(t) ==
  /\ Runs(t) /\ heap = t
  /\ heap' = None
  /\ UNCHANGED <<alive, suspended, call>> /\ ThreadOnly

Enter(t) ==
  /\ Runs(t) /\ call[t].at = "out" /\ heap # t
  /\ Become(t, [Out EXCEPT !.at = "function", !.late = code = Jump])
  /\ UNCHANGED <<alive, suspended, heap>> /\ ThreadOnly

Intact(i) == \A b \in Touched(i) : code[b] = "own"

\* The next instruction at the function's own address.
Execute(t) ==
  LET i == call[t].next
  IN  /\ Runs(t) /\ call[t].at = "function"
      /\ IF i > Count
         THEN Become(t, [call[t] EXCEPT !.at = "returned"])
         ELSE IF Intact(i)
         THEN Become(t, [call[t] EXCEPT !.next = i + 1, !.ran = Append(@, i)])
         ELSE IF i = 1 /\ code = Jump
         THEN Become(t, [call[t] EXCEPT !.at = "callback", !.called = TRUE])
         ELSE Become(t, [call[t] EXCEPT !.at = "wild"])
      /\ UNCHANGED <<alive, suspended, heap>> /\ ThreadOnly

\* The callback of hook_normal returns to the caller of the function; the naked
\* shell of hook does so when it is told to skip the original.
CallbackReturns(t) ==
  /\ Runs(t) /\ call[t].at = "callback"
  /\ Become(t, [call[t] EXCEPT !.at = "returned"])
  /\ UNCHANGED <<alive, suspended, heap>> /\ ThreadOnly

\* The callback calls what get_original gives it, or the naked shell goes on.
CallsOriginal(t) ==
  /\ Runs(t) /\ call[t].at = "callback"
  /\ Become(t, [call[t] EXCEPT !.at = IF original_functions = None THEN "wild" ELSE "trampoline"])
  /\ UNCHANGED <<alive, suspended, heap>> /\ ThreadOnly

\* The end of a trampoline: without a jump back, with a jump to the function and
\* as it is, a jump to original + length.
NoJumpBack(c) == [c EXCEPT !.next = @ + 1]
JumpToStart(c) == [c EXCEPT !.at = "function", !.next = 1]
JumpBack(c) == [c EXCEPT !.at = "function"]

\* The copied instructions, and what is behind them.
Trampoline(t) ==
  LET i == call[t].next
  IN  /\ Runs(t) /\ call[t].at = "trampoline"
      /\ Become(t, IF i <= LastDisplaced
                   THEN [call[t] EXCEPT !.next = i + 1, !.ran = Append(@, i)]
                   ELSE JumpBack(call[t]))
      /\ UNCHANGED <<alive, suspended, heap>> /\ ThreadOnly

Leave(t) ==
  /\ Runs(t) /\ call[t].at = "returned"
  /\ Become(t, Out)
  /\ UNCHANGED <<alive, suspended, heap>> /\ ThreadOnly

-----------------------------------------------------------------------------
(* Specifications *)

\* What the agent does inside hook or hook_normal.
AgentStep ==
  \/ SuspendThread \/ AllSuspended \/ CopyOriginalBytes \/ CreateTrampoline
  \/ Protect \/ WriteByte \/ Unprotect \/ ResumeThread \/ AllResumed \/ HookReturns

ThreadStep(t) ==
  \/ Starts(t) \/ Allocate(t) \/ AllocationEnds(t) \/ Enter(t) \/ Execute(t)
  \/ CallbackReturns(t) \/ CallsOriginal(t) \/ Trampoline(t) \/ Leave(t)

HookNext ==
  \/ HookNormal \/ Hook \/ AgentStep
  \/ \E t \in Threads : ThreadStep(t)

HookSpec == Init /\ [][HookNext]_vars

\* Every thread that is not suspended is scheduled, and the agent gets the lock of
\* the heap when it is free again and again; no thread has to start a call.
FairHookSpec ==
  /\ HookSpec
  /\ SF_vars(AgentStep)
  /\ \A t \in Threads : WF_vars(AllocationEnds(t) \/ Execute(t) \/ Trampoline(t))

UnhookSpec == Init /\ [][HookNext \/ Unhook \/ UnhookErase]_vars

-----------------------------------------------------------------------------
(* Properties *)

AgentPc == {"idle", "suspend", "copy", "trampoline", "protect", "patch", "resume",
            "return", "unhook", "fault"}

CallType ==
  [at : {"out", "function", "callback", "trampoline", "returned", "wild"},
   next : 1..Count + 1, ran : Seq(Instructions), called : BOOLEAN, late : BOOLEAN]

\* Every variable has its type: only threads that exist are listed, suspended or
\* hold the heap, and no thread runs out of the function or its trampoline.
HookTypeOK ==
  /\ code \in [Bytes -> {"own", "jump", "freed"}]
  /\ page \in {"rx", "rwx"}
  /\ hook_map \in {None, "live", "freed"}
  /\ original_functions \in {None, "trampoline"}
  /\ agent \in [pc : AgentPc, suspends : BOOLEAN, snapshot : SUBSET alive,
               old : {"rx", "rwx"}, failed : BOOLEAN]
  /\ suspended \subseteq alive /\ alive \subseteq Threads
  /\ heap \in {None} \cup alive
  /\ call \in [Threads -> CallType]

\* A call that returns has executed every instruction of the function once and
\* in order, in place or through the trampoline, or none and the callback
\* (create_trampoline, get_minimum_shell_size).
CallsRunWhole ==
  \A t \in Threads : call[t].at = "returned" =>
    \/ call[t].ran = [i \in Instructions |-> i]
    \/ call[t].ran = <<>> /\ call[t].called

\* A call that begins when the jump is complete runs the callback before anything
\* of the function and never goes wild, whatever hook is still doing.
LateCallsIntercepted ==
  \A t \in Threads : call[t].late =>
    /\ call[t].at # "wild"
    /\ call[t].ran # <<>> \/ call[t].at = "returned" => call[t].called

\* A thread that has the displaced bytes behind it when hooking begins is not
\* disturbed: from there on it executes the rest of the function.
BeyondTheJump ==
  [][\A t \in Threads :
       call[t].at = "function" /\ call[t].next > LastDisplaced => call'[t].at # "wild"]_vars

\* No thread is left suspended when hook returns ("Resume all threads in the
\* process", hook.cpp:354), whatever has started in between, unless
\* resume_all_threads could not list the threads or open one.
NobodyLeftSuspended ==
  agent.pc \in {"idle", "return"} => suspended = {} \/ agent.failed

\* The same as a promise to the thread: who is suspended is resumed ("Resume all
\* threads in the process", hook.cpp:354).
SuspendedAreResumed ==
  \A t \in Threads : t \in suspended ~> t \notin suspended \/ agent.failed

\* The hook as its callers see it: it is being written from the change of the
\* protection to the last byte of the jump.
Phase == IF code = Jump THEN "hooked" ELSE IF agent.pc = "patch" THEN "switching" ELSE "plain"

\* A call as its caller sees it: instructions on the trampoline are the function's.
Shown(c) == [at |-> IF c.at = "trampoline" THEN "function" ELSE c.at,
             ran |-> c.ran, called |-> c.called]
Calls == [t \in Threads |-> Shown(call[t])]

Intercept ==
  INSTANCE InterceptSpec WITH
    Size <- Count, Overlaid <- LastDisplaced,
    phase <- Phase, call <- Calls

\* hook and hook_normal implement InterceptSpec: a call runs the function's
\* instructions once and in order, goes to the callback if the jump is complete when
\* it begins, may have the function run from there, and can only be lost while
\* it has displaced instructions before it and has not been in the callback.
InterceptionKept == Intercept!Spec

\* When unhook has written "the original bytes to the original pointer"
\* (hook.cpp:405) the function has its own bytes again.
UnhookRestores == agent.pc \in {"unhook", "fault"} => code = Own
=============================================================================
