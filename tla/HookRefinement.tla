---------------------------- MODULE HookRefinement ----------------------------
(***************************************************************************)
(* Hook implements InterceptSpec, for every function, every length of the   *)
(* jump and every set of threads: the proof of InterceptionKept.            *)
(***************************************************************************)
EXTENDS HookProofs

(***************************************************************************)
(* Progress, Patched and Intercepted speak of the calls that return and of  *)
(* those that begin late.  What is missing is how much of the jump there is *)
(* in each phase of the agent, and that a call which has been in the        *)
(* callback is out of danger even if it began before the jump was complete. *)
(***************************************************************************)
JumpByPhase ==
  /\ agent.pc \in {"suspend", "copy", "trampoline", "protect"} => code = Own
  /\ agent.pc \in {"resume", "return"} => code = Jump
  /\ agent.pc \notin {"unhook", "fault"}
  /\ agent.pc = "idle" => code \in {Own, Jump}

Safe(c) ==
  /\ c.at \in {"callback", "trampoline"} => c.called = TRUE
  /\ c.called = TRUE => /\ code = Jump
                        /\ c.at \notin {"out", "wild"}
                        /\ c.at = "function" => c.next > LastDisplaced

ShownInv == JumpByPhase /\ \A t \in Threads : Safe(call[t])

\* There is a byte for the jump to overwrite.
LEMMA OwnIsNoJump == Own # Jump /\ 0 \in Bytes
<1>1. 0 \in Bytes
  BY HookAssumption DEF HookAssumption, Bytes
<1> QED
  BY <1>1 DEF Own, Jump

\* A complete jump has overwritten bytes of every displaced instruction.
LEMMA DisplacedIsTouched ==
  ASSUME NEW i \in Instructions, i <= LastDisplaced, code = Jump
  PROVE  ~Intact(i)
<1>1. Start[i] <= Start[LastDisplaced]
  <2>1. i \in 1..Len(Start) /\ LastDisplaced \in 1..Len(Start)
    BY Displaced, HookAssumption DEF Instructions, Count, HookAssumption
  <2>2. i < LastDisplaced => Start[i] < Start[LastDisplaced]
    BY <2>1, HookAssumption DEF HookAssumption
  <2> QED
    BY <2>1, <2>2, Places, Displaced
<1>2. Start[i] \in Bytes
  <2>1. Start[i] \in Nat /\ Start[LastDisplaced] \in Nat /\ Start[LastDisplaced] < shell_size
    BY Places, Displaced
  <2> QED
    BY <1>1, <2>1, HookAssumption DEF Bytes, HookAssumption
<1>3. Start[i] \in Touched(i)
  BY <1>2, Places DEF Touched
<1> QED
  BY <1>2, <1>3 DEF Intact, Jump

\* A byte of the jump is in the code only while it is written, or all of it is.
LEMMA JumpByPhaseStep ==
  ASSUME HookTypeOK, Patched, JumpByPhase, [HookNext]_vars
  PROVE  JumpByPhase'
<1>a. agent \in [pc : AgentPc, suspends : BOOLEAN, snapshot : SUBSET alive,
                 old : {"rx", "rwx"}, failed : BOOLEAN]
  BY DEF HookTypeOK
<1> USE DEF JumpByPhase
<1>0. CASE UNCHANGED vars
  BY <1>0 DEF vars
<1>1. CASE HookNormal
  BY <1>a, <1>1 DEF HookNormal, AgentGoes
<1>2. CASE Hook
  BY <1>2 DEF Hook, Idle
<1>3. CASE SuspendThread
  BY <1>a, <1>3 DEF SuspendThread
<1>4. CASE AllSuspended \/ CopyOriginalBytes \/ CreateTrampoline
  BY <1>a, <1>4 DEF AllSuspended, CopyOriginalBytes, CreateTrampoline, AgentGoes
<1>5. CASE Protect
  BY <1>a, <1>5 DEF Protect
<1>6. CASE WriteByte
  BY <1>6 DEF WriteByte
<1>7. CASE Unprotect
  BY <1>a, <1>7 DEF Unprotect
<1>8. CASE ResumeThread
  BY <1>a, <1>8 DEF ResumeThread
<1>9. CASE AllResumed
  BY <1>a, <1>9 DEF AllResumed, AgentGoes
<1>10. CASE HookReturns
  BY <1>a, <1>10 DEF HookReturns, Idle
<1>11. ASSUME NEW t \in Threads, ThreadStep(t) PROVE JumpByPhase'
  <2>1. ThreadOnly
    BY <1>11 DEF ThreadStep, Starts, Allocate, AllocationEnds, Enter, Execute, CallbackReturns,
                 CallsOriginal, Trampoline, Leave
  <2> QED
    BY <2>1 DEF ThreadOnly
<1> QED
  BY <1>0, <1>1, <1>2, <1>3, <1>4, <1>5, <1>6, <1>7, <1>8, <1>9, <1>10, <1>11 DEF HookNext, AgentStep

-----------------------------------------------------------------------------
(* The steps of a call *)

\* What a step of a thread makes of its call c, if it does not leave it alone.
CallGoes(c, v) ==
  \/ /\ c.at = "out"                                             \* Enter
     /\ v.at = "function" /\ v.ran = <<>> /\ v.called = FALSE
  \/ /\ c.at = "function" /\ c.next = Count + 1                   \* Execute, at the end
     /\ v.at = "returned" /\ v.ran = c.ran /\ v.called = c.called
  \/ /\ c.at \in {"function", "trampoline"}                       \* Execute, Trampoline
     /\ c.next \in Instructions
     /\ c.at = "function" /\ c.called = FALSE /\ c.next <= LastDisplaced => code # Jump
     /\ v.at = c.at /\ v.ran = Append(c.ran, c.next) /\ v.called = c.called
     /\ v.next = c.next + 1
  \/ /\ c.at = "function" /\ c.next = 1 /\ c.called = FALSE       \* Execute, the jump
     /\ code = Jump
     /\ v.at = "callback" /\ v.ran = c.ran /\ v.called = TRUE
  \/ /\ c.at = "function" /\ c.next <= LastDisplaced              \* Execute, a mixture
     /\ c.called = FALSE /\ code # Own /\ (c.next = 1 => code # Jump)
     /\ v.at = "wild" /\ v.ran = c.ran /\ v.called = c.called
  \/ /\ c.at = "callback" /\ v.at \in {"returned", "trampoline"}  \* CallbackReturns, CallsOriginal
     /\ v.ran = c.ran /\ v.called = c.called
  \/ /\ c.at = "trampoline" /\ c.next > LastDisplaced             \* Trampoline, its end
     /\ v.at = "function" /\ v.ran = c.ran /\ v.called = c.called
     /\ v.next = c.next
  \/ c.at = "returned" /\ v = Out                                 \* Leave

\* Every step of a thread is one of these.
LEMMA CallSteps ==
  ASSUME NEW t \in Threads, HookTypeOK, Patched, JumpByPhase, Whole(call[t]), Safe(call[t]),
         ThreadStep(t)
  PROVE  call' = call \/ \E v : Become(t, v) /\ CallGoes(call[t], v)
<1> DEFINE c == call[t]
<1>a. /\ c \in CallType /\ c.next \in Nat \ {0} /\ c.next \in 1..Count + 1
      /\ Count \in Nat \ {0} /\ Instructions = 1..Count
      /\ LastDisplaced \in Instructions /\ LastDisplaced \in Nat \ {0}
      /\ c.called \in BOOLEAN
  BY Places, Displaced DEF HookTypeOK, CallType
<1>b. Safe(c) /\ Whole(c)
  OBVIOUS
<1>f. /\ \A at : /\ [c EXCEPT !.at = at].at = at /\ [c EXCEPT !.at = at].ran = c.ran
                 /\ [c EXCEPT !.at = at].called = c.called /\ [c EXCEPT !.at = at].next = c.next
      /\ LET d == [c EXCEPT !.at = "callback", !.called = TRUE]
         IN  d.at = "callback" /\ d.ran = c.ran /\ d.called = TRUE
      /\ LET d == [c EXCEPT !.next = c.next + 1, !.ran = Append(@, c.next)]
         IN  d.at = c.at /\ d.ran = Append(c.ran, c.next) /\ d.called = c.called /\ d.next = c.next + 1
  BY <1>a DEF CallType
<1> HIDE DEF c
<1>e. ASSUME NEW v, Become(t, v), CallGoes(c, v)
      PROVE  call' = call \/ \E w : Become(t, w) /\ CallGoes(call[t], w)
  BY <1>e DEF c
<1>1. CASE Starts(t) \/ Allocate(t) \/ AllocationEnds(t)
  BY <1>1 DEF Starts, Allocate, AllocationEnds
<1>2. CASE Enter(t)
  <2> DEFINE d == [Out EXCEPT !.at = "function", !.late = code = Jump]
  <2>1. d.at = "function" /\ d.ran = <<>> /\ d.called = FALSE
    BY DEF Out
  <2>2. c.at = "out" /\ Become(t, d)
    BY <1>2 DEF Enter, c
  <2> HIDE DEF d
  <2> QED
    BY <1>e, <2>1, <2>2 DEF CallGoes
<1>3. CASE Execute(t)
  <2>1. c.at = "function" /\ (c.called = TRUE => c.next > LastDisplaced)
    BY <1>3, <1>b DEF Execute, Safe, c
  <2>2. CASE c.next > Count
    <3>1. Become(t, [c EXCEPT !.at = "returned"])
      BY <1>3, <2>2 DEF Execute, c
    <3>2. c.next = Count + 1
      BY <1>a, <2>2
    <3>3. CallGoes(c, [c EXCEPT !.at = "returned"])
      BY <1>f, <2>1, <3>1, <3>2 DEF CallGoes
    <3> QED
      BY <1>e, <3>1, <3>3
  <2>3. CASE ~(c.next > Count) /\ Intact(c.next)
    <3>1. Become(t, [c EXCEPT !.next = c.next + 1, !.ran = Append(@, c.next)])
      BY <1>3, <2>3 DEF Execute, c
    <3>2. c.next \in Instructions
      BY <1>a, <2>3
    <3>3. c.next <= LastDisplaced => code # Jump
      BY <2>3, <3>2, DisplacedIsTouched
    <3>4. CallGoes(c, [c EXCEPT !.next = c.next + 1, !.ran = Append(@, c.next)])
      BY <1>f, <2>1, <3>1, <3>2, <3>3 DEF CallGoes
    <3> QED
      BY <1>e, <3>1, <3>4
  <2>4. CASE ~(c.next > Count) /\ ~Intact(c.next)
    <3>1. c.next \in Instructions
      BY <1>a, <2>4
    <3>2. c.next <= LastDisplaced
      BY <1>a, <2>4, <3>1, BehindTheJump
    <3>3. c.called = FALSE
      BY <1>a, <2>1, <3>2
    <3>4. code # Own
      BY <2>4 DEF Intact, Own, Touched
    <3>5. CASE c.next = 1 /\ code = Jump
      <4>1. Become(t, [c EXCEPT !.at = "callback", !.called = TRUE])
        BY <1>3, <2>4, <3>5 DEF Execute, c
      <4>2. CallGoes(c, [c EXCEPT !.at = "callback", !.called = TRUE])
        BY <1>f, <2>1, <3>3, <3>5, <4>1 DEF CallGoes
      <4> QED
        BY <1>e, <4>1, <4>2
    <3>6. CASE ~(c.next = 1 /\ code = Jump)
      <4>1. Become(t, [c EXCEPT !.at = "wild"])
        BY <1>3, <2>4, <3>6 DEF Execute, c
      <4>2. CallGoes(c, [c EXCEPT !.at = "wild"])
        BY <1>f, <2>1, <3>2, <3>3, <3>4, <3>6, <4>1 DEF CallGoes
      <4> QED
        BY <1>e, <4>1, <4>2
    <3> QED
      BY <3>5, <3>6
  <2> QED
    BY <2>2, <2>3, <2>4
<1>4. CASE CallbackReturns(t)
  <2>1. c.at = "callback" /\ Become(t, [c EXCEPT !.at = "returned"])
    BY <1>4 DEF CallbackReturns, c
  <2>2. CallGoes(c, [c EXCEPT !.at = "returned"])
    BY <1>f, <2>1 DEF CallGoes
  <2> QED
    BY <1>e, <2>1, <2>2
<1>5. CASE CallsOriginal(t)
  <2>1. c.at = "callback" /\ c.called = TRUE /\ code = Jump
    BY <1>5, <1>b DEF CallsOriginal, Safe, c
  <2>2. original_functions # None
    BY <2>1, OwnIsNoJump, HookAssumption DEF Patched, Jump, HookAssumption
  <2>3. Become(t, [c EXCEPT !.at = "trampoline"])
    BY <1>5, <2>2 DEF CallsOriginal, c
  <2>4. CallGoes(c, [c EXCEPT !.at = "trampoline"])
    BY <1>f, <2>1, <2>3 DEF CallGoes
  <2> QED
    BY <1>e, <2>3, <2>4
<1>6. CASE Trampoline(t)
  <2>1. c.at = "trampoline"
    BY <1>6 DEF Trampoline, c
  <2>2. CASE c.next <= LastDisplaced
    <3>1. Become(t, [c EXCEPT !.next = c.next + 1, !.ran = Append(@, c.next)])
      BY <1>6, <2>2 DEF Trampoline, c
    <3>2. c.next \in Instructions
      BY <1>a, <2>2
    <3>3. CallGoes(c, [c EXCEPT !.next = c.next + 1, !.ran = Append(@, c.next)])
      BY <1>f, <2>1, <3>1, <3>2 DEF CallGoes
    <3> QED
      BY <1>e, <3>1, <3>3
  <2>3. CASE ~(c.next <= LastDisplaced)
    <3>1. Become(t, [c EXCEPT !.at = "function"])
      BY <1>6, <2>3 DEF Trampoline, JumpBack, c
    <3>2. c.next > LastDisplaced
      BY <1>a, <2>3
    <3>3. CallGoes(c, [c EXCEPT !.at = "function"])
      BY <1>f, <2>1, <3>1, <3>2 DEF CallGoes
    <3> QED
      BY <1>e, <3>1, <3>3
  <2> QED
    BY <2>2, <2>3
<1>7. CASE Leave(t)
  BY <1>7 DEF Leave, CallGoes
<1> QED
  BY <1>1, <1>2, <1>3, <1>4, <1>5, <1>6, <1>7 DEF ThreadStep

\* A step of a thread keeps what is said of its own call.
LEMMA SafeStep ==
  ASSUME NEW t \in Threads, HookTypeOK, Patched, JumpByPhase, Whole(call[t]), Safe(call[t]),
         ThreadStep(t)
  PROVE  Safe(call'[t])
<1> DEFINE c == call[t]
<1>a. /\ call \in [Threads -> CallType] /\ c.next \in Nat /\ c.called \in BOOLEAN
      /\ LastDisplaced \in Nat
  BY Places, Displaced DEF HookTypeOK, CallType
<1>1. CASE call' = call
  BY <1>1
<1>2. ASSUME NEW v, Become(t, v), CallGoes(call[t], v)
      PROVE  Safe(call'[t])
  <2>1. call'[t] = v
    BY <1>a, <1>2 DEF Become
  <2>2. Safe(v)
    BY <1>a, <1>2 DEF CallGoes, Safe, Out
  <2> QED
    BY <2>1, <2>2
<1> QED
  BY <1>1, <1>2, CallSteps

\* No byte of the jump is there and nobody is in the function.
LEMMA ShownInit == Init => ShownInv
<1> SUFFICES ASSUME Init PROVE ShownInv
  OBVIOUS
<1>1. JumpByPhase
  BY DEF Init, Idle, JumpByPhase
<1>2. Safe(Out)
  BY DEF Out, Safe
<1> QED
  BY <1>1, <1>2 DEF Init, ShownInv

\* Every step keeps ShownInv.
LEMMA ShownStep ==
  ASSUME HookTypeOK, Progress, Patched, ShownInv, [HookNext]_vars
  PROVE  ShownInv'
<1>1. JumpByPhase' /\ (code = Jump => code' = Jump)
  BY JumpByPhaseStep, PatchedStep DEF ShownInv
<1>2. ASSUME NEW u \in Threads PROVE Safe(call[u])'
  <2>1. CASE call'[u] = call[u]
    BY <1>1, <2>1 DEF ShownInv, Safe
  <2>2. ASSUME ThreadStep(u) PROVE Safe(call[u])'
    <3>1. Safe(call'[u])
      BY <2>2, SafeStep DEF ShownInv, Progress
    <3> QED
      BY <1>1, <3>1 DEF Safe
  <2>3. ASSUME NEW t \in Threads, t # u, ThreadStep(t) PROVE call'[u] = call[u]
    BY <2>3, OtherCalls
  <2> QED
    BY <2>1, <2>2, <2>3, OtherCalls DEF HookNext
<1> QED
  BY <1>1, <1>2 DEF ShownInv

\* What the theorems about HookSpec rest on, together.
RefinementInv == HookTypeOK /\ Progress /\ Patched /\ ShownInv

\* They hold in every state.
LEMMA RefinementInvariant == HookSpec => []RefinementInv
<1>1. Init => RefinementInv
  BY HookTypeInit, WholeOut, ShownInit DEF Init, RefinementInv, Progress, Patched, Own, Idle
<1>2. RefinementInv /\ [HookNext]_vars => RefinementInv'
  BY HookTypeStep, ProgressStep, PatchedStep, ShownStep DEF RefinementInv
<1> QED
  BY <1>1, <1>2, PTL DEF HookSpec

-----------------------------------------------------------------------------
(* Every step is a step of InterceptSpec or leaves what it shows alone.      *)

\* At first the function is plain and nobody is in it.
LEMMA InterceptInit == Init => Intercept!Init
<1> SUFFICES ASSUME Init PROVE Intercept!Init
  OBVIOUS
<1>1. Phase = "plain"
  BY OwnIsNoJump DEF Init, Idle, Phase
<1>2. Shown(Out) = Intercept!NoCall
  BY DEF Out, Shown, Intercept!NoCall, Intercept!Before
<1>3. Calls = [t \in Threads |-> Intercept!NoCall]
  BY <1>2 DEF Init, Calls
<1> QED
  BY <1>1, <1>3 DEF Intercept!Init

\* The steps of the agent: only the first and the last byte of the jump show.
LEMMA InterceptAgent ==
  ASSUME RefinementInv, HookNormal \/ Hook \/ AgentStep
  PROVE  [Intercept!Next]_Intercept!specVars
<1>a. /\ agent \in [pc : AgentPc, suspends : BOOLEAN, snapshot : SUBSET alive,
                    old : {"rx", "rwx"}, failed : BOOLEAN]
      /\ JumpByPhase /\ Own # Jump
  BY OwnIsNoJump DEF RefinementInv, ShownInv, HookTypeOK
<1>b. Calls' = Calls
  BY OtherCalls DEF Calls
<1>1. ASSUME UNCHANGED code, agent.pc # "patch", agent'.pc # "patch"
      PROVE  Phase' = Phase
  BY <1>1 DEF Phase
<1>2. CASE HookNormal \/ Hook
  BY <1>a, <1>b, <1>1, <1>2 DEF HookNormal, Hook, AgentGoes, Idle, Intercept!specVars
<1>3. CASE SuspendThread \/ AllSuspended \/ CopyOriginalBytes \/ CreateTrampoline
  BY <1>a, <1>b, <1>1, <1>3
     DEF SuspendThread, AllSuspended, CopyOriginalBytes, CreateTrampoline, AgentGoes,
         Intercept!specVars
<1>4. CASE Protect
  <2>1. Phase = "plain" /\ Phase' = "switching"
    BY <1>a, <1>4 DEF Protect, JumpByPhase, Phase
  <2> QED
    BY <1>b, <2>1 DEF Intercept!BeginSwitch, Intercept!Next
<1>5. CASE WriteByte
  <2>1. Phase = "switching" /\ Phase' \in {"switching", "hooked"}
    BY <1>a, <1>5 DEF WriteByte, Phase, Jump
  <2> QED
    BY <1>b, <2>1 DEF Intercept!EndSwitch, Intercept!Next, Intercept!specVars
<1>6. CASE Unprotect
  BY <1>b, <1>6 DEF Unprotect, Phase, Intercept!specVars
<1>7. CASE ResumeThread \/ AllResumed \/ HookReturns
  BY <1>a, <1>b, <1>1, <1>7
     DEF ResumeThread, AllResumed, HookReturns, AgentGoes, Idle, Intercept!specVars
<1> QED
  BY <1>2, <1>3, <1>4, <1>5, <1>6, <1>7 DEF AgentStep

\* The steps of a call: Enter, Return, Run, Intercept, Lose, Continue and Leave; the
\* end of the trampoline does not show.
LEMMA InterceptThread ==
  ASSUME RefinementInv, NEW t \in Threads, ThreadStep(t)
  PROVE  [Intercept!Next]_Intercept!specVars
<1> DEFINE c == call[t]
           s == Calls[t]
<1>a. /\ call \in [Threads -> CallType] /\ c.next \in Nat \ {0} /\ c.next \in 1..Count + 1
      /\ Count \in Nat \ {0} /\ Instructions = 1..Count
      /\ LastDisplaced \in Nat \ {0} /\ LastDisplaced <= Count
      /\ c.called \in BOOLEAN /\ c.ran \in Seq(Instructions)
  BY Places, Displaced DEF RefinementInv, HookTypeOK, CallType
<1>b. Safe(c) /\ Whole(c) /\ JumpByPhase /\ Own # Jump
  BY OwnIsNoJump DEF RefinementInv, ShownInv, Progress
<1>c. Len(c.ran) = c.next - 1 /\ (c.ran = <<>> <=> c.next = 1)
  BY <1>a, <1>b DEF Whole
<1>d. /\ Calls = [u \in Threads |-> Calls[u]]
      /\ s = [at |-> s.at, ran |-> s.ran, called |-> s.called]
      /\ s.at = IF c.at = "trampoline" THEN "function" ELSE c.at
      /\ s.ran = c.ran /\ s.called = c.called
  BY DEF Calls, Shown
<1>e. Phase' = Phase
  BY DEF ThreadStep, Starts, Allocate, AllocationEnds, Enter, Execute, CallbackReturns,
         CallsOriginal, Trampoline, Leave, ThreadOnly, Phase
<1>f. /\ Phase = "hooked" <=> code = Jump
      /\ code # Own => Phase \in {"switching", "hooked"}
  BY <1>b DEF Phase, JumpByPhase, RefinementInv, HookTypeOK, AgentPc
<1>g. Intercept!Exposed(t) <=> s.at = "function" /\ ~c.called /\ c.next <= LastDisplaced
  BY <1>a, <1>c, <1>d DEF Intercept!Exposed
<1>1. CASE call' = call
  BY <1>1, <1>e DEF Calls, Intercept!specVars
<1>2. ASSUME NEW v, Become(t, v), CallGoes(c, v)
      PROVE  [Intercept!Next]_Intercept!specVars
  <2> HIDE DEF c, s
  <2>a. Calls' = [Calls EXCEPT ![t] = Shown(v)]
    BY <1>a, <1>2 DEF Become, Calls
  <2>b. ASSUME NEW w, Shown(v) = w PROVE Intercept!Step(t, w)
    BY <1>e, <2>a, <2>b DEF Intercept!Step
  <2>1. CASE /\ c.at = "out"
             /\ v.at = "function" /\ v.ran = <<>> /\ v.called = FALSE
    <3>1. Shown(v) = Intercept!Before("function", FALSE)
      BY <2>1 DEF Shown, Intercept!Before
    <3>2. Intercept!Enter(t)
      BY <1>d, <2>1, <2>b, <3>1 DEF Intercept!Enter, s
    <3> QED
      BY <3>2 DEF Intercept!Next
  <2>2. CASE /\ c.at = "function" /\ c.next = Count + 1
             /\ v.at = "returned" /\ v.ran = c.ran /\ v.called = c.called
    <3>1. Shown(v) = [s EXCEPT !.at = "returned"]
      BY <1>d, <2>2 DEF Shown
    <3>2. s.at = "function" /\ Len(s.ran) = Count
      BY <1>a, <1>c, <1>d, <2>2
    <3>3. Intercept!Return(t)
      BY <2>b, <3>1, <3>2 DEF Intercept!Return, s
    <3> QED
      BY <3>3 DEF Intercept!Next
  <2>3. CASE /\ c.at \in {"function", "trampoline"} /\ c.next \in Instructions
             /\ c.at = "function" /\ c.called = FALSE /\ c.next <= LastDisplaced => code # Jump
             /\ v.at = c.at /\ v.ran = Append(c.ran, c.next) /\ v.called = c.called
    <3>1. Len(s.ran) + 1 = c.next /\ Len(s.ran) < Count
      BY <1>a, <1>c, <1>d, <2>3
    <3>2. Shown(v) = [s EXCEPT !.ran = Append(s.ran, Len(s.ran) + 1)]
      BY <1>d, <2>3, <3>1 DEF Shown
    <3>3. Intercept!Exposed(t) => Phase # "hooked"
      BY <1>b, <1>d, <1>f, <1>g, <2>3 DEF Safe
    <3>4. s.at = "function"
      BY <1>d, <2>3
    <3>5. Intercept!Run(t)
      BY <2>b, <3>1, <3>2, <3>3, <3>4 DEF Intercept!Run, s
    <3> QED
      BY <3>5 DEF Intercept!Next
  <2>4. CASE /\ c.at = "function" /\ c.next = 1 /\ c.called = FALSE /\ code = Jump
             /\ v.at = "callback" /\ v.ran = c.ran /\ v.called = TRUE
    <3>1. Shown(v) = Intercept!Before("callback", TRUE)
      BY <1>c, <2>4 DEF Shown, Intercept!Before
    <3>2. Intercept!Exposed(t) /\ s.ran = <<>> /\ Phase = "hooked"
      BY <1>a, <1>c, <1>d, <1>f, <1>g, <2>4
    <3>3. Intercept!Intercept(t)
      BY <2>b, <3>1, <3>2 DEF Intercept!Intercept, s
    <3> QED
      BY <3>3 DEF Intercept!Next
  <2>5. CASE /\ c.at = "function" /\ c.next <= LastDisplaced /\ c.called = FALSE
             /\ code # Own /\ (c.next = 1 => code # Jump)
             /\ v.at = "wild" /\ v.ran = c.ran /\ v.called = c.called
    <3>1. Shown(v) = [s EXCEPT !.at = "wild"]
      BY <1>d, <2>5 DEF Shown
    <3>2. Intercept!Exposed(t)
      BY <1>d, <1>g, <2>5
    <3>3. Phase = "switching" \/ (Phase = "hooked" /\ s.ran # <<>>)
      BY <1>c, <1>d, <1>f, <2>5
    <3>4. Intercept!Lose(t)
      BY <2>b, <3>1, <3>2, <3>3 DEF Intercept!Lose, s
    <3> QED
      BY <3>4 DEF Intercept!Next
  <2>6. CASE /\ c.at = "callback" /\ v.at \in {"returned", "trampoline"}
             /\ v.ran = c.ran /\ v.called = c.called
    <3>1. s.at = "callback"
      BY <1>d, <2>6
    <3>2. CASE v.at = "returned"
      <4>1. Shown(v) = [s EXCEPT !.at = "returned"]
        BY <1>d, <2>6, <3>2 DEF Shown
      <4>2. Intercept!Return(t)
        BY <2>b, <3>1, <4>1 DEF Intercept!Return, s
      <4> QED
        BY <4>2 DEF Intercept!Next
    <3>3. CASE v.at = "trampoline"
      <4>1. Shown(v) = [s EXCEPT !.at = "function"]
        BY <1>d, <2>6, <3>3 DEF Shown
      <4>2. Intercept!Continue(t)
        BY <2>b, <3>1, <4>1 DEF Intercept!Continue, s
      <4> QED
        BY <4>2 DEF Intercept!Next
    <3> QED
      BY <2>6, <3>2, <3>3
  <2>7. CASE /\ c.at = "trampoline"
             /\ v.at = "function" /\ v.ran = c.ran /\ v.called = c.called
    <3>1. Shown(v) = s
      BY <1>d, <2>7 DEF Shown
    <3>2. Calls' = Calls
      BY <1>d, <2>a, <3>1 DEF s
    <3> QED
      BY <1>e, <3>2 DEF Intercept!specVars
  <2>8. CASE c.at = "returned" /\ v = Out
    <3>1. Shown(v) = Intercept!NoCall
      BY <2>8 DEF Shown, Out, Intercept!NoCall, Intercept!Before
    <3>2. s.at = "returned"
      BY <1>d, <2>8
    <3>3. Intercept!Leave(t)
      BY <2>b, <3>1, <3>2 DEF Intercept!Leave, s
    <3> QED
      BY <3>3 DEF Intercept!Next
  <2> QED
    BY <1>2, <2>1, <2>2, <2>3, <2>4, <2>5, <2>6, <2>7, <2>8 DEF CallGoes
<1>3. call' = call \/ \E v : Become(t, v) /\ CallGoes(c, v)
  BY CallSteps DEF RefinementInv, ShownInv, Progress
<1> QED
  BY <1>1, <1>2, <1>3

\* Whoever calls a function while hook or hook_normal patches it gets what
\* InterceptSpec promises: the whole function or the callback, the callback for
\* certain once the jump is complete, and nobody is lost who has been in the callback
\* or has the displaced instructions behind him.
THEOREM InterceptionCorrect == HookSpec => InterceptionKept
<1>1. RefinementInv /\ [HookNext]_vars => [Intercept!Next]_Intercept!specVars
  <2>1. UNCHANGED vars => UNCHANGED Intercept!specVars
    BY DEF vars, Intercept!specVars, Phase, Calls
  <2> QED
    BY <2>1, InterceptAgent, InterceptThread DEF HookNext
<1> QED
  BY <1>1, InterceptInit, RefinementInvariant, PTL DEF HookSpec, InterceptionKept, Intercept!Spec
=============================================================================
