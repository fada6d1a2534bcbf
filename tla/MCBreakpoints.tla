----------------------------- MODULE MCBreakpoints -----------------------------
(***************************************************************************)
(* Instances of Breakpoints for TLC: short methods with one or two          *)
(* instructions that can carry a breakpoint, and the 0xFF that ends a sweep. *)
(***************************************************************************)
EXTENDS Breakpoints, TLC

\* iconst_0; ireturn
ShortCode == <<3, 172, 255>>
ShortEntry == {1, 2}

\* bipush 1: the threads and the agent contend for one instruction
SingleCode == <<16, 1, 255>>
SingleEntry == {1}

\* sipush 256; ireturn, and a client that names ireturn and an operand of sipush
OperandCode == <<17, 1, 0, 172, 255>>
OperandEntry == {1, 4}
OperandTargets == {2, 4}

\* sipush -1; ireturn: the operand of sipush is 0xFF 0xFF
FFCode == <<17, 255, 255, 172, 255>>

OneMethod == {"m"}
OneStart == [m \in OneMethod |-> 1]
OneMethodOf == [a \in Entry |-> "m"]

\* States in which a data race has happened are checked and not explored
\* further.
NoRaceYet == raced = {}

ThreadSymmetry == Permutations(Threads) \cup Permutations(Callbacks)
=============================================================================
