---------------------------- MODULE BreakpointSpec ----------------------------
(***************************************************************************)
(* What a breakpoint promises, without a registry: a site carries the       *)
(* callback of its breakpoint, and a thread that arrives there calls it,    *)
(* may be told the original opcode, and goes on with that opcode.           *)
(*                                                                         *)
(* Withdrawing a breakpoint takes the promise from the visits in progress;  *)
(* they still end, but may go on with nop.  Once a data race has broken the *)
(* registry nothing is promised.                                            *)
(***************************************************************************)
EXTENDS Bytecode

CONSTANTS Threads, Sites, Code, Callbacks, NoCallback, None

VARIABLES
  site,    \* site[a]: None, the callback of the breakpoint at a, or NoCallback
           \* while the breakpoint is being withdrawn
  visit,   \* visit[t]: what t does at a breakpoint
  broken

specVars == <<site, visit, broken>>

\* A visit to a that has not learned anything yet.
Arrival(a, sure) == [at |-> a, sure |-> sure, opcode |-> None, callback |-> None, told |-> None]

NoVisit == Arrival(None, FALSE)

Init ==
  /\ site = [a \in Sites |-> None]
  /\ visit = [t \in Threads |-> NoVisit]
  /\ broken = FALSE

-----------------------------------------------------------------------------

Set(a, callback) ==
  /\ site[a] = None
  /\ site' = [site EXCEPT ![a] = callback]
  /\ UNCHANGED <<visit, broken>>

Withdraw(a) ==
  /\ site[a] \in Callbacks
  /\ site' = [site EXCEPT ![a] = NoCallback]
  /\ visit' = [t \in Threads |-> IF visit[t].at = a THEN [visit[t] EXCEPT !.sure = FALSE]
                                 ELSE visit[t]]
  /\ UNCHANGED broken

Clear(a) ==
  /\ site[a] = NoCallback
  /\ site' = [site EXCEPT ![a] = None]
  /\ UNCHANGED <<visit, broken>>

Arrive(t, a) ==
  /\ visit[t] = NoVisit
  /\ site[a] # None
  /\ visit' = [visit EXCEPT ![t] = Arrival(a, site[a] \in Callbacks)]
  /\ UNCHANGED <<site, broken>>

\* The opcodes a visit may go on with.
Opcodes(v) == {Code[v.at]} \cup IF v.sure THEN {} ELSE {nop}

\* The interpreter learns the opcode it will go on with.
Learn(t) ==
  /\ visit[t].at # None /\ visit[t].opcode = None
  /\ \E opcode \in Opcodes(visit[t]) : visit' = [visit EXCEPT ![t].opcode = opcode]
  /\ UNCHANGED <<site, broken>>

\* NoCallback: the breakpoint is passed without a call.
Call(t, callback) ==
  /\ visit[t].opcode # None /\ visit[t].callback = None
  /\ visit[t].sure => callback \in Callbacks /\ callback = site[visit[t].at]
  /\ visit' = [visit EXCEPT ![t].callback = callback]
  /\ UNCHANGED <<site, broken>>

\* The callback asks for the opcode at the breakpoint; while that is withdrawn it
\* may even see the 0xCA.
Tell(t) ==
  /\ visit[t].callback \in Callbacks
  /\ \E opcode \in Opcodes(visit[t]) \cup IF visit[t].sure THEN {} ELSE {breakpoint} :
       visit' = [visit EXCEPT ![t].told = opcode]
  /\ UNCHANGED <<site, broken>>

Leave(t) ==
  /\ visit[t].callback # None
  /\ visit' = [visit EXCEPT ![t] = NoVisit]
  /\ UNCHANGED <<site, broken>>

Break == broken'

Next ==
  \/ \E a \in Sites : Withdraw(a) \/ Clear(a) \/ \E callback \in Callbacks : Set(a, callback)
  \/ \E t \in Threads :
       \/ Learn(t) \/ Tell(t) \/ Leave(t)
       \/ \E a \in Sites : Arrive(t, a)
       \/ \E callback \in Callbacks \cup {NoCallback} : Call(t, callback)
  \/ Break

Spec == Init /\ [][Next]_specVars
=============================================================================
