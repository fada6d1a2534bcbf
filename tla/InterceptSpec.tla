----------------------------- MODULE InterceptSpec -----------------------------
(***************************************************************************)
(* What hooking a function promises to those who call it, without bytes,    *)
(* trampolines or addresses: once the function is hooked a call that has    *)
(* not begun goes to the callback, which returns for the function or has    *)
(* all of it run; a call that was there before runs all of it.              *)
(*                                                                         *)
(* The function begins with Overlaid instructions that a hook takes away.   *)
(* A call that stands among them when that happens may be lost, and only    *)
(* then.                                                                    *)
(***************************************************************************)
EXTENDS Naturals, Sequences

CONSTANTS
  Threads,
  Size,      \* the instructions of the function
  Overlaid   \* how many of them a hook takes away

VARIABLES
  phase,     \* "plain", "switching" while the hook is written, or "hooked"
  call       \* call[t]: where t is, what it has run, and whether it was in the callback

specVars == <<phase, call>>

\* A call that has run nothing.
Before(at, called) == [at |-> at, ran |-> <<>>, called |-> called]

NoCall == Before("out", FALSE)

Init == phase = "plain" /\ call = [t \in Threads |-> NoCall]

-----------------------------------------------------------------------------

\* A call whose next instruction is one of those a hook takes away.
Exposed(t) ==
  call[t].at = "function" /\ ~ call[t].called /\ Len(call[t].ran) < Overlaid

Step(t, value) == call' = [call EXCEPT ![t] = value] /\ UNCHANGED phase

BeginSwitch == phase = "plain" /\ phase' = "switching" /\ UNCHANGED call

EndSwitch == phase = "switching" /\ phase' = "hooked" /\ UNCHANGED call

Enter(t) ==
  /\ call[t].at = "out"
  /\ Step(t, Before("function", FALSE))

Run(t) ==
  /\ call[t].at = "function" /\ Len(call[t].ran) < Size
  /\ Exposed(t) => phase # "hooked"
  /\ Step(t, [call[t] EXCEPT !.ran = Append(@, Len(@) + 1)])

Intercept(t) ==
  /\ Exposed(t) /\ call[t].ran = <<>> /\ phase = "hooked"
  /\ Step(t, Before("callback", TRUE))

\* The callback has the function run.
Continue(t) ==
  /\ call[t].at = "callback"
  /\ Step(t, [call[t] EXCEPT !.at = "function"])

Return(t) ==
  /\ \/ call[t].at = "callback"
     \/ call[t].at = "function" /\ Len(call[t].ran) = Size
  /\ Step(t, [call[t] EXCEPT !.at = "returned"])

\* A call that has run nothing is at risk only while the hook is written.
Lose(t) ==
  /\ Exposed(t)
  /\ phase = "switching" \/ (phase = "hooked" /\ call[t].ran # <<>>)
  /\ Step(t, [call[t] EXCEPT !.at = "wild"])

Leave(t) ==
  /\ call[t].at = "returned"
  /\ Step(t, NoCall)

Next ==
  \/ BeginSwitch \/ EndSwitch
  \/ \E t \in Threads :
       \/ Enter(t) \/ Run(t) \/ Intercept(t) \/ Continue(t) \/ Return(t)
       \/ Lose(t) \/ Leave(t)

Spec == Init /\ [][Next]_specVars
=============================================================================
