----------------------------- MODULE MCNakedShell -----------------------------
(***************************************************************************)
(* Two hooked functions and one call inside a callback for TLC.             *)
(***************************************************************************)
EXTENDS NakedShell, TLC

FunctionSymmetry == Permutations(Functions)

TwoArguments == 2
WordsOfStack == 90
=============================================================================
