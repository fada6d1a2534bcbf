-------------------------------- MODULE MCHook --------------------------------
(***************************************************************************)
(* A function of three instructions for TLC: the jump covers the first and  *)
(* a part of the second, so a thread may stand in the middle of it.         *)
(***************************************************************************)
EXTENDS Hook

InstructionStarts == <<0, 2, 4, 5>>
=============================================================================
