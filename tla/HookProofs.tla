------------------------------ MODULE HookProofs ------------------------------
(***************************************************************************)
(* Proofs about Hook, for every function, every length of the jump and      *)
(* every set of threads.                                                    *)
(***************************************************************************)
EXTENDS Hook, TLAPS

-----------------------------------------------------------------------------
(* The function and its displaced instructions *)

\* The last displaced instruction is the one the end of the jump falls into.
LEMMA Displaced ==
  /\ LastDisplaced \in Instructions
  /\ Start[LastDisplaced] < shell_size /\ shell_size <= Start[LastDisplaced + 1]
BY FunctionAssumption DEF LastDisplaced, FunctionAssumption

\* The function has an instruction, and every instruction has its two ends.
LEMMA Places ==
  /\ Count \in Nat \ {0} /\ 1 \in Instructions
  /\ Instructions = 1..Count
  /\ \A i \in Instructions : /\ i \in Nat /\ i + 1 \in 1..Count + 1
                             /\ Start[i] \in Nat /\ Start[i + 1] \in Nat
                             /\ Start[i] < Start[i + 1]
BY HookAssumption DEF HookAssumption, Count, Instructions

\* The jump touches no instruction behind the last displaced one.
LEMMA BehindTheJump ==
  ASSUME NEW i \in Instructions, i > LastDisplaced
  PROVE  Intact(i)
<1>1. Start[LastDisplaced + 1] <= Start[i]
  <2>1. LastDisplaced + 1 \in 1..Len(Start) /\ i \in 1..Len(Start)
    BY Displaced, HookAssumption DEF Instructions, Count, HookAssumption
  <2>2. CASE i = LastDisplaced + 1
    BY <2>2, <2>1, HookAssumption DEF HookAssumption
  <2>3. CASE i > LastDisplaced + 1
    <3>1. Start[LastDisplaced + 1] < Start[i]
      BY <2>1, <2>3, HookAssumption DEF HookAssumption
    <3> QED
      BY <3>1, <2>1, HookAssumption DEF HookAssumption
  <2> QED
    BY <2>1, <2>2, <2>3, Displaced, Places
<1>2. shell_size <= Start[i]
  <2>1. Start[LastDisplaced + 1] \in Nat /\ Start[i] \in Nat
    BY Displaced, Places
  <2>2. shell_size \in Nat /\ shell_size <= Start[LastDisplaced + 1]
    BY Displaced, HookAssumption DEF HookAssumption
  <2> QED
    BY <1>1, <2>1, <2>2
<1>3. Touched(i) = {}
  BY <1>2, Places, HookAssumption DEF Touched, Bytes, HookAssumption
<1> QED
  BY <1>3 DEF Intact

\* A complete jump is over the first instruction.
LEMMA JumpAtStart == code = Jump => ~Intact(1)
<1>1. 0 \in Touched(1)
  <2>1. Start[1] = 0 /\ Start[1 + 1] > 0
    BY Places, HookAssumption DEF HookAssumption
  <2> QED
    BY <2>1, HookAssumption DEF Touched, Bytes, HookAssumption
<1>2. 0 \in Bytes
  BY HookAssumption DEF Bytes, HookAssumption
<1> QED
  BY <1>1, <1>2 DEF Intact, Jump

-----------------------------------------------------------------------------
(* Types *)

\* A call that goes on in another place, and one that executes an instruction.
LEMMA CallRecords ==
  ASSUME NEW c \in CallType
  PROVE  /\ Out \in CallType
         /\ \A at \in {"function", "callback", "trampoline", "returned", "wild"} :
              [c EXCEPT !.at = at] \in CallType
         /\ [c EXCEPT !.at = "callback", !.called = TRUE] \in CallType
         /\ \A late \in BOOLEAN : [Out EXCEPT !.at = "function", !.late = late] \in CallType
         /\ c.next \in Instructions =>
              [c EXCEPT !.next = c.next + 1, !.ran = Append(@, c.next)] \in CallType
<1>1. Out \in CallType
  BY Places DEF Out, CallType
<1>2. \A at \in {"function", "callback", "trampoline", "returned", "wild"} :
        [c EXCEPT !.at = at] \in CallType
  BY DEF CallType
<1>3. [c EXCEPT !.at = "callback", !.called = TRUE] \in CallType
  BY DEF CallType
<1>4. \A late \in BOOLEAN : [Out EXCEPT !.at = "function", !.late = late] \in CallType
  BY <1>1 DEF CallType, Out
<1>5. ASSUME c.next \in Instructions
      PROVE  [c EXCEPT !.next = c.next + 1, !.ran = Append(@, c.next)] \in CallType
  <2>1. c.next + 1 \in 1..Count + 1
    BY <1>5, Places
  <2>2. Append(c.ran, c.next) \in Seq(Instructions)
    BY <1>5 DEF CallType
  <2> QED
    BY <2>1, <2>2 DEF CallType
<1> QED
  BY <1>1, <1>2, <1>3, <1>4, <1>5

\* What Execute and Trampoline make of a call.
LEMMA ThreadCall ==
  ASSUME NEW t \in Threads, call \in [Threads -> CallType], ThreadStep(t)
  PROVE  call' \in [Threads -> CallType]
<1> DEFINE c == call[t]
<1>0. c \in CallType /\ c.next \in 1..Count + 1 /\ Count \in Nat
  BY Places DEF CallType
<1>1. ASSUME NEW v \in CallType, Become(t, v)
      PROVE  call' \in [Threads -> CallType]
  BY <1>1 DEF Become
<1>2. CASE Starts(t) \/ Allocate(t) \/ AllocationEnds(t)
  BY <1>2 DEF Starts, Allocate, AllocationEnds
<1>3. CASE Enter(t)
  BY <1>0, <1>1, <1>3, CallRecords DEF Enter
<1>4. CASE Execute(t)
  <2>1. c.next \notin Instructions => c.next > Count
    BY <1>0, Places
  <2>2. c.next \in Instructions => ~(c.next > Count)
    BY <1>0, Places
  <2> QED
    BY <1>0, <1>1, <1>4, <2>1, <2>2, CallRecords DEF Execute
<1>5. CASE CallbackReturns(t)
  BY <1>0, <1>1, <1>5, CallRecords DEF CallbackReturns
<1>6. CASE CallsOriginal(t)
  BY <1>0, <1>1, <1>6, CallRecords DEF CallsOriginal
<1>7. CASE Trampoline(t)
  <2>1. c.next <= LastDisplaced => c.next \in Instructions
    BY <1>0, Displaced, Places
  <2> QED
    BY <1>0, <1>1, <1>7, <2>1, CallRecords DEF Trampoline, JumpBack
<1>8. CASE Leave(t)
  BY <1>0, <1>1, <1>8, CallRecords DEF Leave
<1> QED
  BY <1>2, <1>3, <1>4, <1>5, <1>6, <1>7, <1>8 DEF ThreadStep


\* The initial state has its type.
LEMMA HookTypeInit == Init => HookTypeOK
<1> SUFFICES ASSUME Init PROVE HookTypeOK
  OBVIOUS
<1>1. agent \in [pc : AgentPc, suspends : BOOLEAN, snapshot : SUBSET alive,
                 old : {"rx", "rwx"}, failed : BOOLEAN]
  BY DEF Init, Idle, AgentPc
<1>2. call \in [Threads -> CallType]
  BY Places DEF Init, Out, CallType
<1> QED
  BY <1>1, <1>2, HookAssumption DEF Init, HookTypeOK, Own, HookAssumption

\* Every step of the agent keeps the types.
LEMMA HookTypeAgent == HookTypeOK /\ (HookNormal \/ Hook \/ AgentStep) => HookTypeOK'
<1> SUFFICES ASSUME HookTypeOK, HookNormal \/ Hook \/ AgentStep PROVE HookTypeOK'
  OBVIOUS
<1> USE DEF HookTypeOK, AgentPc
<1>1. CASE HookNormal
  BY <1>1 DEF HookNormal, AgentGoes, world
<1>2. CASE Hook
  <2>1. PICK listed \in {alive, {}} :
          agent' = [Idle EXCEPT !.pc = "suspend", !.suspends = TRUE, !.snapshot = listed]
    BY <1>2 DEF Hook
  <2>2. agent' \in [pc : AgentPc, suspends : BOOLEAN, snapshot : SUBSET alive,
                   old : {"rx", "rwx"}, failed : BOOLEAN]
    <3>1. listed \in SUBSET alive
      OBVIOUS
    <3> QED
      BY <2>1, <3>1 DEF Idle
  <2> QED
    BY <1>2, <2>2 DEF Hook, world
<1>3. CASE SuspendThread
  BY <1>3 DEF SuspendThread
<1>4. CASE AllSuspended
  BY <1>4 DEF AllSuspended, AgentGoes, world
<1>5. CASE CopyOriginalBytes
  BY <1>5 DEF CopyOriginalBytes, AgentGoes, world
<1>6. CASE CreateTrampoline
  BY <1>6 DEF CreateTrampoline, AgentGoes, UnderTheHook, world
<1>7. CASE Protect
  BY <1>7 DEF Protect, world
<1>8. CASE WriteByte
  BY <1>8 DEF WriteByte, world
<1>9. CASE Unprotect
  BY <1>9 DEF Unprotect, world
<1>10. CASE ResumeThread
  BY <1>10 DEF ResumeThread, Resumed
<1>11. CASE AllResumed
  BY <1>11 DEF AllResumed, AgentGoes, world
<1>12. CASE HookReturns
  BY <1>12 DEF HookReturns, Idle, world
<1> QED
  BY <1>1, <1>2, <1>3, <1>4, <1>5, <1>6, <1>7, <1>8, <1>9, <1>10, <1>11, <1>12 DEF AgentStep

\* Every step of a thread keeps the types.
LEMMA HookTypeThread ==
  ASSUME NEW t \in Threads, HookTypeOK, ThreadStep(t)
  PROVE  HookTypeOK'
<1>1. call' \in [Threads -> CallType]
  BY ThreadCall DEF HookTypeOK
<1>2. ThreadOnly
  BY DEF ThreadStep, Starts, Allocate, AllocationEnds, Enter, Execute, CallbackReturns,
         CallsOriginal, Trampoline, Leave
<1>3. /\ suspended' = suspended
      /\ alive \subseteq alive' /\ alive' \subseteq Threads
      /\ heap' \in {None} \cup alive'
  <2>1. CASE Starts(t)
    BY <2>1 DEF Starts, HookTypeOK
  <2>2. CASE Allocate(t)
    BY <2>2 DEF Allocate, Runs, HookTypeOK
  <2>3. CASE AllocationEnds(t)
    BY <2>3 DEF AllocationEnds, HookTypeOK
  <2>4. CASE UNCHANGED <<alive, suspended, heap>>
    BY <2>4 DEF HookTypeOK
  <2> QED
    BY <2>1, <2>2, <2>3, <2>4
    DEF ThreadStep, Enter, Execute, CallbackReturns, CallsOriginal, Trampoline, Leave
<1> QED
  BY <1>1, <1>2, <1>3 DEF ThreadOnly, HookTypeOK

\* Every step keeps the types.
LEMMA HookTypeStep == HookTypeOK /\ [HookNext]_vars => HookTypeOK'
<1>1. HookTypeOK /\ UNCHANGED vars => HookTypeOK'
  BY DEF HookTypeOK, vars
<1> QED
  BY <1>1, HookTypeAgent, HookTypeThread DEF HookNext

\* unhook, the fault of its memcpy and the bytes of freed memory included, keeps
\* the types.
LEMMA HookTypeUnhook == HookTypeOK /\ (Unhook \/ UnhookErase) => HookTypeOK'
<1>1. HookTypeOK /\ Unhook => HookTypeOK'
  <2> SUFFICES ASSUME HookTypeOK, Unhook PROVE HookTypeOK'
    OBVIOUS
  <2>1. code' \in [Bytes -> {"own", "jump", "freed"}]
    BY DEF Unhook, HookTypeOK, Own
  <2>2. agent' \in [pc : AgentPc, suspends : BOOLEAN, snapshot : SUBSET alive,
                   old : {"rx", "rwx"}, failed : BOOLEAN]
    BY DEF Unhook, AgentGoes, HookTypeOK, AgentPc
  <2> QED
    BY <2>1, <2>2 DEF Unhook, HookTypeOK, world
<1>2. HookTypeOK /\ UnhookErase => HookTypeOK'
  BY DEF UnhookErase, AgentGoes, HookTypeOK, AgentPc, world
<1> QED
  BY <1>1, <1>2

\* Type correctness of hook, hook_normal and the threads, with unhook at any time
\* or without it and with nothing assumed of what the Windows API lists or opens.
THEOREM HookTypeCorrect == HookSpec \/ UnhookSpec => []HookTypeOK
BY HookTypeInit, HookTypeStep, HookTypeUnhook, PTL DEF HookSpec, UnhookSpec

-----------------------------------------------------------------------------
(* Suspended threads *)

\* While hook may still have to resume a thread, it is in the snapshot it visits;
\* hook_normal has none to resume.
Suspension ==
  /\ agent.pc \in {"idle", "return"} \/ agent.suspends = FALSE =>
       suspended = {} \/ agent.failed = TRUE
  /\ agent.pc = "resume" => suspended \subseteq agent.snapshot \/ agent.failed = TRUE
  /\ agent.pc = "idle" => agent.suspends = FALSE
  /\ agent.pc = "suspend" => agent.suspends = TRUE

\* Every step keeps Suspension.
LEMMA SuspensionStep ==
  HookTypeOK /\ Suspension /\ [HookNext]_vars => Suspension'
<1> SUFFICES ASSUME HookTypeOK, Suspension, [HookNext]_vars PROVE Suspension'
  OBVIOUS
<1>a. /\ agent \in [pc : AgentPc, suspends : BOOLEAN, snapshot : SUBSET alive,
                   old : {"rx", "rwx"}, failed : BOOLEAN]
      /\ suspended \subseteq alive
  BY DEF HookTypeOK
<1> USE DEF Suspension
<1>0. CASE UNCHANGED vars
  BY <1>0 DEF vars
<1>1. CASE HookNormal
  BY <1>a, <1>1 DEF HookNormal, AgentGoes, world
<1>2. CASE Hook
  BY <1>2 DEF Hook, Idle, world
<1>3. CASE SuspendThread
  BY <1>a, <1>3 DEF SuspendThread
<1>4. CASE AllSuspended \/ CopyOriginalBytes \/ CreateTrampoline
  BY <1>a, <1>4 DEF AllSuspended, CopyOriginalBytes, CreateTrampoline, AgentGoes, world
<1>5. CASE Protect \/ WriteByte
  BY <1>a, <1>5 DEF Protect, WriteByte, world
<1>6. CASE Unprotect
  BY <1>a, <1>6 DEF Unprotect, world
<1>7. CASE ResumeThread
  BY <1>a, <1>7 DEF ResumeThread, Resumed
<1>8. CASE AllResumed
  BY <1>a, <1>8 DEF AllResumed, AgentGoes, world
<1>9. CASE HookReturns
  BY <1>a, <1>9 DEF HookReturns, Idle, world
<1>10. ASSUME NEW t \in Threads, ThreadStep(t) PROVE Suspension'
  <2>1. UNCHANGED <<agent, suspended>>
    BY <1>10 DEF ThreadStep, Starts, Allocate, AllocationEnds, Enter, Execute, CallbackReturns,
                 CallsOriginal, Trampoline, Leave, ThreadOnly
  <2> QED
    BY <2>1
<1> QED
  BY <1>0, <1>1, <1>2, <1>3, <1>4, <1>5, <1>6, <1>7, <1>8, <1>9, <1>10 DEF HookNext, AgentStep

\* Whatever threads start while hook runs and whichever it cannot open, nobody is
\* left suspended unless resume_all_threads failed for it.
THEOREM ResumeCorrect == HookSpec => []NobodyLeftSuspended
<1>1. Init => Suspension
  BY DEF Init, Idle, Suspension
<1>2. Suspension => NobodyLeftSuspended
  BY DEF Suspension, NobodyLeftSuspended
<1> QED
  BY <1>1, <1>2, SuspensionStep, HookTypeCorrect, PTL DEF HookSpec

-----------------------------------------------------------------------------
(* What a call has executed *)

\* The instructions before the next one, and where a call may be without them.
Whole(c) ==
  /\ c.ran = [i \in 1..c.next - 1 |-> i]
  /\ c.at = "callback" => c.next = 1 /\ c.called = TRUE
  /\ c.at = "returned" => c.next = Count + 1 \/ (c.next = 1 /\ c.called = TRUE)

Progress == \A t \in Threads : Whole(call[t])

\* Executing the next instruction extends what has run by it.
LEMMA OneMore ==
  ASSUME NEW n \in Nat \ {0}
  PROVE  Append([i \in 1..n - 1 |-> i], n) = [i \in 1..(n + 1) - 1 |-> i]
<1> DEFINE s == [i \in 1..n - 1 |-> i]
<1>1. s \in Seq(Nat) /\ Len(s) = n - 1
  OBVIOUS
<1>2. Append(s, n) \in Seq(Nat) /\ Len(Append(s, n)) = n
  BY <1>1
<1>3. \A i \in 1..n : Append(s, n)[i] = i
  BY <1>1
<1> QED
  BY <1>2, <1>3

\* A thread outside the function has run nothing of it.
LEMMA WholeOut == Whole(Out)
BY DEF Whole, Out

\* A step of a thread keeps what is said of its own call.
LEMMA WholeStep ==
  ASSUME NEW t \in Threads, HookTypeOK, Whole(call[t]), ThreadStep(t)
  PROVE  Whole(call'[t])
<1> DEFINE c == call[t]
<1>a. call \in [Threads -> CallType] /\ c \in CallType /\ c.next \in Nat \ {0} /\ Count \in Nat
  BY Places DEF HookTypeOK, CallType
<1>b. Whole(Out)
  BY WholeOut
<1>f. Whole(c)
  OBVIOUS
<1>c. ASSUME NEW at \in {"function", "trampoline", "wild"}
      PROVE  Whole([c EXCEPT !.at = at])
  BY <1>a DEF Whole, CallType
<1>d. c.at # "callback" /\ c.at # "returned" =>
        Whole([c EXCEPT !.next = c.next + 1, !.ran = Append(@, c.next)])
  <2>1. c.ran = [i \in 1..c.next - 1 |-> i]
    BY DEF Whole
  <2>2. Append(c.ran, c.next) = [i \in 1..(c.next + 1) - 1 |-> i]
    BY <1>a, <2>1, OneMore
  <2> DEFINE d == [c EXCEPT !.next = c.next + 1, !.ran = Append(@, c.next)]
  <2>3. d.ran = Append(c.ran, c.next) /\ d.next = c.next + 1 /\ d.at = c.at
    BY <1>a DEF CallType
  <2> HIDE DEF d
  <2>4. c.at # "callback" /\ c.at # "returned" => Whole(d)
    BY <2>2, <2>3 DEF Whole
  <2> QED
    BY <2>4 DEF d
<1> HIDE DEF c
<1>e. ASSUME NEW v, Become(t, v), Whole(v)
      PROVE  Whole(call'[t])
  BY <1>a, <1>e DEF Become
<1>1. CASE Starts(t) \/ Allocate(t) \/ AllocationEnds(t)
  BY <1>1 DEF Starts, Allocate, AllocationEnds
<1>2. CASE Enter(t)
  <2>1. Whole([Out EXCEPT !.at = "function", !.late = code = Jump])
    BY DEF Whole, Out
  <2> QED
    BY <1>2, <1>e, <2>1 DEF Enter
<1>3. CASE Execute(t)
  <2>1. c.at = "function"
    BY <1>3 DEF Execute, c
  <2>2. CASE Become(t, [c EXCEPT !.at = "returned"]) /\ c.next > Count
    <3>1. c.next = Count + 1
      BY <1>a, <2>2 DEF CallType
    <3> DEFINE d == [c EXCEPT !.at = "returned"]
    <3>3. d.ran = c.ran /\ d.next = c.next /\ d.at = "returned"
      BY <1>a DEF CallType
    <3> HIDE DEF d
    <3>4. Whole(d)
      BY <3>1, <3>3, <1>f DEF Whole
    <3>2. Whole([c EXCEPT !.at = "returned"])
      BY <3>4 DEF d
    <3> QED
      BY <2>2, <3>2, <1>e
  <2>3. CASE Become(t, [c EXCEPT !.next = c.next + 1, !.ran = Append(@, c.next)])
    BY <2>1, <2>3, <1>d, <1>e DEF c
  <2>4. CASE Become(t, [c EXCEPT !.at = "callback", !.called = TRUE]) /\ c.next = 1
    <3>1. Whole([c EXCEPT !.at = "callback", !.called = TRUE])
      BY <1>a, <2>4, <1>f DEF Whole, CallType
    <3> QED
      BY <2>4, <3>1, <1>e
  <2>5. CASE Become(t, [c EXCEPT !.at = "wild"])
    BY <2>5, <1>c, <1>e DEF c
  <2> QED
    BY <1>3, <2>2, <2>3, <2>4, <2>5 DEF Execute, c
<1>4. CASE CallbackReturns(t)
  <2>1. c.at = "callback"
    BY <1>4 DEF CallbackReturns, c
  <2>2. Whole([c EXCEPT !.at = "returned"])
    BY <1>a, <2>1, <1>f DEF Whole, CallType
  <2> QED
    BY <1>4, <1>e, <2>2 DEF CallbackReturns, c
<1>5. CASE CallsOriginal(t)
  BY <1>5, <1>c, <1>e DEF CallsOriginal, c
<1>6. CASE Trampoline(t)
  <2>1. c.at = "trampoline"
    BY <1>6 DEF Trampoline, c
  <2> QED
    BY <1>6, <1>c, <1>d, <1>e, <2>1 DEF Trampoline, JumpBack, c
<1>7. CASE Leave(t)
  BY <1>7, <1>b, <1>e DEF Leave
<1> QED
  BY <1>1, <1>2, <1>3, <1>4, <1>5, <1>6, <1>7 DEF ThreadStep

\* Who takes a step leaves the calls of the others alone.
LEMMA OtherCalls ==
  /\ HookNormal \/ Hook \/ AgentStep \/ UNCHANGED vars => call' = call
  /\ \A t, u \in Threads :
       t # u /\ HookTypeOK /\ ThreadStep(t) => call'[u] = call[u]
<1>1. HookNormal \/ Hook \/ AgentStep \/ UNCHANGED vars => call' = call
  BY DEF HookNormal, Hook, AgentStep, SuspendThread, AllSuspended, CopyOriginalBytes,
         CreateTrampoline, Protect, WriteByte, Unprotect, ResumeThread, AllResumed,
         HookReturns, world, vars
<1>2. ASSUME NEW t \in Threads, NEW u \in Threads, t # u, HookTypeOK, ThreadStep(t)
      PROVE  call'[u] = call[u]
  <2>1. ASSUME NEW v, Become(t, v) PROVE call'[u] = call[u]
    BY <1>2, <2>1 DEF Become, HookTypeOK
  <2>2. call' = call \/ \E v : Become(t, v)
    BY <1>2 DEF ThreadStep, Starts, Allocate, AllocationEnds, Enter, Execute, CallbackReturns,
                CallsOriginal, Trampoline, Leave
  <2> QED
    BY <2>1, <2>2
<1> QED
  BY <1>1, <1>2

\* Every step keeps Progress.
LEMMA ProgressStep == HookTypeOK /\ Progress /\ [HookNext]_vars => Progress'
<1> SUFFICES ASSUME HookTypeOK, Progress, [HookNext]_vars, NEW u \in Threads
             PROVE  Whole(call[u])'
  BY DEF Progress
<1>1. CASE call' = call
  BY <1>1 DEF Progress, Whole
<1>2. ASSUME NEW t \in Threads, ThreadStep(t) PROVE Whole(call'[u])
  <2>1. CASE u = t
    BY <1>2, <2>1, WholeStep DEF Progress
  <2>2. CASE u # t
    BY <1>2, <2>2, OtherCalls DEF Progress
  <2> QED
    BY <2>1, <2>2
<1> QED
  BY <1>1, <1>2, OtherCalls DEF HookNext, Whole

\* A call that returns has run all of the function or none of it, wherever the
\* jump cuts the instructions.
THEOREM WholeCorrect == HookSpec => []CallsRunWhole
<1>1. Init => Progress
  BY WholeOut DEF Init, Progress
<1>2. HookTypeOK /\ Progress => CallsRunWhole
  <2> SUFFICES ASSUME NEW t \in Threads, HookTypeOK, Whole(call[t]), call[t].at = "returned"
               PROVE  \/ call[t].ran = [i \in Instructions |-> i]
                      \/ call[t].ran = <<>> /\ call[t].called
    BY DEF Progress, CallsRunWhole
  <2>1. CASE call[t].next = Count + 1
    BY <2>1, Places DEF Whole
  <2>2. CASE call[t].next = 1 /\ call[t].called = TRUE
    BY <2>2 DEF Whole
  <2> QED
    BY <2>1, <2>2 DEF Whole
<1> QED
  BY <1>1, <1>2, ProgressStep, HookTypeCorrect, PTL DEF HookSpec

-----------------------------------------------------------------------------
(* Calls after the jump is complete *)

\* A byte of the jump is in the code only when the trampoline can be found.
Patched ==
  /\ code \in [Bytes -> {"own", "jump"}]
  /\ agent.pc \in {"protect", "patch"} => original_functions = "trampoline"
  /\ (\E b \in Bytes : code[b] = "jump") => original_functions = "trampoline"

\* Where a call is that began under a complete jump: it has not executed anything,
\* or it has been in the callback and beyond the displaced instructions.
Intercepted(c) ==
  c.late = TRUE =>
    /\ code = Jump
    /\ c.at \in {"function", "callback", "trampoline", "returned"}
    /\ c.at # "function" => c.called = TRUE
    /\ c.at = "function" => \/ c.next = 1 /\ c.ran = <<>>
                            \/ c.called = TRUE /\ c.next > LastDisplaced

Interception == Patched /\ \A t \in Threads : Intercepted(call[t])

\* A complete jump stays, and so does the trampoline that belongs to it.
LEMMA PatchedStep ==
  ASSUME HookTypeOK, Patched, [HookNext]_vars
  PROVE  Patched' /\ (code = Jump => code' = Jump)
<1>a. agent \in [pc : AgentPc, suspends : BOOLEAN, snapshot : SUBSET alive,
                 old : {"rx", "rwx"}, failed : BOOLEAN]
  BY DEF HookTypeOK
<1> USE DEF Patched
<1>0. CASE UNCHANGED vars
  BY <1>0 DEF vars
<1>1. CASE HookNormal
  BY <1>a, <1>1 DEF HookNormal, AgentGoes
<1>2. CASE Hook
  BY <1>2 DEF Hook, Idle
<1>3. CASE SuspendThread
  BY <1>a, <1>3 DEF SuspendThread
<1>4. CASE AllSuspended \/ CopyOriginalBytes
  BY <1>a, <1>4 DEF AllSuspended, CopyOriginalBytes, AgentGoes
<1>5. CASE CreateTrampoline
  BY <1>a, <1>5 DEF CreateTrampoline, AgentGoes, UnderTheHook
<1>6. CASE Protect
  BY <1>a, <1>6 DEF Protect
<1>7. CASE WriteByte
  <2>1. PICK b \in Bytes : code[b] # "jump" /\ code' = [code EXCEPT ![b] = "jump"]
    BY <1>7 DEF WriteByte
  <2>2. code # Jump
    BY <2>1 DEF Jump
  <2>3. code' \in [Bytes -> {"own", "jump"}]
    BY <2>1
  <2>4. agent.pc = "patch" /\ agent' = agent /\ original_functions' = original_functions
    BY <1>7 DEF WriteByte
  <2> QED
    BY <2>2, <2>3, <2>4
<1>8. CASE Unprotect
  BY <1>a, <1>8 DEF Unprotect
<1>9. CASE ResumeThread
  BY <1>a, <1>9 DEF ResumeThread
<1>10. CASE AllResumed
  BY <1>a, <1>10 DEF AllResumed, AgentGoes
<1>11. CASE HookReturns
  BY <1>a, <1>11 DEF HookReturns, Idle
<1>12. ASSUME NEW t \in Threads, ThreadStep(t)
       PROVE  Patched' /\ (code = Jump => code' = Jump)
  <2>1. ThreadOnly
    BY <1>12 DEF ThreadStep, Starts, Allocate, AllocationEnds, Enter, Execute, CallbackReturns,
                 CallsOriginal, Trampoline, Leave
  <2> QED
    BY <2>1 DEF ThreadOnly
<1> QED
  BY <1>0, <1>1, <1>2, <1>3, <1>4, <1>5, <1>6, <1>7, <1>8, <1>9, <1>10, <1>11, <1>12
  DEF HookNext, AgentStep

\* A step of a thread keeps what is said of its own call.
LEMMA InterceptedStep ==
  ASSUME NEW t \in Threads, HookTypeOK, Patched, Intercepted(call[t]), ThreadStep(t)
  PROVE  Intercepted(call'[t])
<1> DEFINE c == call[t]
<1>a. /\ call \in [Threads -> CallType] /\ c \in CallType
      /\ c.next \in Nat \ {0} /\ Count \in Nat \ {0}
      /\ LastDisplaced \in Instructions /\ LastDisplaced \in Nat \ {0}
  BY Places, Displaced DEF HookTypeOK, CallType, Instructions
<1>b. Intercepted(c)
  OBVIOUS
<1> HIDE DEF c
<1>e. ASSUME NEW v, Become(t, v), Intercepted(v)
      PROVE  Intercepted(call'[t])
  BY <1>a, <1>e DEF Become
<1>1. CASE Starts(t) \/ Allocate(t) \/ AllocationEnds(t)
  BY <1>1, <1>b DEF Starts, Allocate, AllocationEnds, c
<1>2. CASE Enter(t)
  <2> DEFINE d == [Out EXCEPT !.at = "function", !.late = code = Jump]
  <2>1. d.at = "function" /\ d.next = 1 /\ d.ran = <<>> /\ d.late = (code = Jump)
    BY DEF Out
  <2> HIDE DEF d
  <2>2. Intercepted(d)
    BY <2>1 DEF Intercepted
  <2> QED
    BY <1>2, <1>e, <2>2 DEF Enter, d
<1>3. CASE Execute(t)
  <2>1. c.at = "function"
    BY <1>3 DEF Execute, c
  <2>2. CASE c.late = TRUE /\ c.next = 1
    <3>1. code = Jump /\ ~Intact(1) /\ ~(1 > Count)
      BY <1>a, <1>b, <2>2, JumpAtStart DEF Intercepted
    <3>2. Become(t, [c EXCEPT !.at = "callback", !.called = TRUE])
      BY <1>3, <2>2, <3>1 DEF Execute, c
    <3> DEFINE d == [c EXCEPT !.at = "callback", !.called = TRUE]
    <3>3. d.at = "callback" /\ d.called = TRUE
      BY <1>a DEF CallType
    <3> HIDE DEF d
    <3>4. Intercepted(d)
      BY <3>1, <3>3 DEF Intercepted
    <3> QED
      BY <1>e, <3>2, <3>4 DEF d
  <2>3. CASE c.late = TRUE /\ c.next # 1
    <3>1. code = Jump /\ c.called = TRUE /\ c.next > LastDisplaced
      BY <1>b, <2>1, <2>3 DEF Intercepted
    <3>2. CASE c.next > Count
      <4>1. Become(t, [c EXCEPT !.at = "returned"])
        BY <1>3, <3>2 DEF Execute, c
      <4> DEFINE d == [c EXCEPT !.at = "returned"]
      <4>2. d.at = "returned" /\ d.called = c.called
        BY <1>a DEF CallType
      <4> HIDE DEF d
      <4>3. Intercepted(d)
        BY <3>1, <4>2 DEF Intercepted
      <4> QED
        BY <1>e, <4>1, <4>3 DEF d
    <3>3. CASE ~(c.next > Count)
      <4>1. c.next \in Instructions
        BY <1>a, <3>3, Places
      <4>2. Intact(c.next)
        BY <3>1, <4>1, BehindTheJump
      <4>3. Become(t, [c EXCEPT !.next = c.next + 1, !.ran = Append(@, c.next)])
        BY <1>3, <3>3, <4>2 DEF Execute, c
      <4> DEFINE d == [c EXCEPT !.next = c.next + 1, !.ran = Append(@, c.next)]
      <4>4. d.at = c.at /\ d.called = c.called /\ d.next = c.next + 1
        BY <1>a DEF CallType
      <4> HIDE DEF d
      <4>5. d.next > LastDisplaced
        BY <1>a, <3>1, <4>4
      <4>6. Intercepted(d)
        BY <2>1, <3>1, <4>4, <4>5 DEF Intercepted
      <4> QED
        BY <1>e, <4>3, <4>6 DEF d
    <3> QED
      BY <3>2, <3>3
  <2>4. CASE c.late # TRUE
    <3>1. /\ [c EXCEPT !.at = "returned"].late = c.late
          /\ [c EXCEPT !.next = c.next + 1, !.ran = Append(@, c.next)].late = c.late
          /\ [c EXCEPT !.at = "callback", !.called = TRUE].late = c.late
          /\ [c EXCEPT !.at = "wild"].late = c.late
      BY <1>a DEF CallType
    <3>2. \E v : Become(t, v) /\ v.late = c.late
      BY <1>3, <3>1 DEF Execute, c
    <3>3. \A v : v.late = c.late => Intercepted(v)
      BY <2>4 DEF Intercepted
    <3> QED
      BY <1>e, <3>2, <3>3
  <2> QED
    BY <2>2, <2>3, <2>4
<1>4. CASE CallbackReturns(t)
  <2>1. c.at = "callback"
    BY <1>4 DEF CallbackReturns, c
  <2> DEFINE d == [c EXCEPT !.at = "returned"]
  <2>2. d.at = "returned" /\ d.called = c.called /\ d.late = c.late
    BY <1>a DEF CallType
  <2> HIDE DEF d
  <2>3. Intercepted(d)
    BY <1>b, <2>1, <2>2 DEF Intercepted
  <2> QED
    BY <1>4, <1>e, <2>3 DEF CallbackReturns, c, d
<1>5. CASE CallsOriginal(t)
  <2>1. c.at = "callback"
    BY <1>5 DEF CallsOriginal, c
  <2>2. c.late = TRUE => original_functions # None
    <3>1. 0 \in Bytes
      BY HookAssumption DEF Bytes, HookAssumption
    <3> QED
      BY <1>b, <3>1, HookAssumption DEF Intercepted, Jump, Patched, HookAssumption
  <2>3. ASSUME NEW at \in {"wild", "trampoline"}, c.late = TRUE => at = "trampoline"
        PROVE  Intercepted([c EXCEPT !.at = at])
    <3> DEFINE d == [c EXCEPT !.at = at]
    <3>1. d.at = at /\ d.called = c.called /\ d.late = c.late
      BY <1>a DEF CallType
    <3> HIDE DEF d
    <3>2. Intercepted(d)
      BY <1>b, <2>1, <2>3, <3>1 DEF Intercepted
    <3> QED
      BY <3>2 DEF d
  <2> QED
    BY <1>5, <1>e, <2>2, <2>3 DEF CallsOriginal, c
<1>6. CASE Trampoline(t)
  <2>1. c.at = "trampoline"
    BY <1>6 DEF Trampoline, c
  <2>2. CASE c.next <= LastDisplaced
    <3> DEFINE d == [c EXCEPT !.next = c.next + 1, !.ran = Append(@, c.next)]
    <3>1. d.at = c.at /\ d.called = c.called /\ d.late = c.late
      BY <1>a DEF CallType
    <3> HIDE DEF d
    <3>2. Intercepted(d)
      BY <1>b, <2>1, <3>1 DEF Intercepted
    <3> QED
      BY <1>6, <1>e, <2>2, <3>2 DEF Trampoline, c, d
  <2>3. CASE ~(c.next <= LastDisplaced)
    <3> DEFINE d == [c EXCEPT !.at = "function"]
    <3>1. d.at = "function" /\ d.next = c.next /\ d.called = c.called /\ d.late = c.late
      BY <1>a DEF CallType
    <3>2. c.next > LastDisplaced
      BY <1>a, <2>3
    <3> HIDE DEF d
    <3>3. Intercepted(d)
      BY <1>b, <2>1, <3>1, <3>2 DEF Intercepted
    <3> QED
      BY <1>6, <1>e, <2>3, <3>3 DEF Trampoline, JumpBack, c, d
  <2> QED
    BY <2>2, <2>3
<1>7. CASE Leave(t)
  <2>1. Intercepted(Out)
    BY DEF Intercepted, Out
  <2> QED
    BY <1>7, <1>e, <2>1 DEF Leave
<1> QED
  BY <1>1, <1>2, <1>3, <1>4, <1>5, <1>6, <1>7 DEF ThreadStep

\* A call that begins when the jump is complete runs the callback first and never
\* meets a mixture of old and new code, whatever hook is still doing.
THEOREM LateCorrect == HookSpec => []LateCallsIntercepted
<1>1. Init => Interception
  BY DEF Init, Interception, Patched, Intercepted, Own, Idle, Out
<1>2. HookTypeOK /\ Interception /\ [HookNext]_vars => Interception'
  <2> SUFFICES ASSUME HookTypeOK, Interception, [HookNext]_vars PROVE Interception'
    OBVIOUS
  <2>1. Patched' /\ (code = Jump => code' = Jump)
    BY PatchedStep DEF Interception
  <2>2. ASSUME NEW u \in Threads PROVE Intercepted(call[u])'
    <3>1. CASE call'[u] = call[u]
      BY <2>1, <3>1 DEF Interception, Intercepted
    <3>2. ASSUME ThreadStep(u) PROVE Intercepted(call[u])'
      <4>1. Intercepted(call'[u])
        BY <3>2, InterceptedStep DEF Interception
      <4> QED
        BY <2>1, <4>1 DEF Intercepted
    <3>3. ASSUME NEW t \in Threads, t # u, ThreadStep(t) PROVE call'[u] = call[u]
      BY <3>3, OtherCalls
    <3> QED
      BY <3>1, <3>2, <3>3, OtherCalls DEF HookNext
  <2> QED
    BY <2>1, <2>2 DEF Interception
<1>3. Interception => LateCallsIntercepted
  BY DEF Interception, Intercepted, LateCallsIntercepted
<1> QED
  BY <1>1, <1>2, <1>3, HookTypeCorrect, PTL DEF HookSpec

\* A thread in the function behind the displaced instructions is not disturbed by
\* a hook, also while the jump is being written.
THEOREM BeyondCorrect == HookSpec => BeyondTheJump
<1> DEFINE Undisturbed == \A t \in Threads :
             call[t].at = "function" /\ call[t].next > LastDisplaced => call'[t].at # "wild"
<1>1. HookTypeOK /\ [HookNext]_vars => [Undisturbed]_vars
  <2> SUFFICES ASSUME HookTypeOK, HookNext, NEW u \in Threads,
                      call[u].at = "function", call[u].next > LastDisplaced
               PROVE  call'[u].at # "wild"
    OBVIOUS
  <2>1. ASSUME ThreadStep(u) PROVE call'[u].at # "wild"
    <3>a. /\ call \in [Threads -> CallType] /\ call[u] \in CallType
          /\ call[u].next \in Nat \ {0}
      BY Places DEF HookTypeOK, CallType
    <3>1. CASE Execute(u)
      <4>1. ~(call[u].next > Count) => Intact(call[u].next)
        BY <3>a, Places, BehindTheJump
      <4> QED
        BY <3>1, <3>a, <4>1 DEF Execute, Become, CallType
    <3>2. CASE Starts(u) \/ Allocate(u) \/ AllocationEnds(u)
      BY <3>2 DEF Starts, Allocate, AllocationEnds
    <3> QED
      BY <2>1, <3>1, <3>2 DEF ThreadStep, Enter, CallbackReturns, CallsOriginal, Trampoline, Leave
  <2>2. ASSUME NEW t \in Threads, t # u, ThreadStep(t) PROVE call'[u] = call[u]
    BY <2>2, OtherCalls
  <2> QED
    BY <2>1, <2>2, OtherCalls DEF HookNext
<1>2. HookSpec => [][Undisturbed]_vars
  BY <1>1, HookTypeCorrect, PTL DEF HookSpec
<1> QED
  BY <1>2 DEF BeyondTheJump
=============================================================================
