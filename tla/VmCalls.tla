-------------------------------- MODULE VmCalls --------------------------------
(***************************************************************************)
(* How the DLL finds its way in the interpreter (utility/vm_calls.cpp and   *)
(* InterpreterEntry in classes/method.hpp): scans of machine code for       *)
(* signatures, and what is read next to where they match.                   *)
(*                                                                         *)
(* Code is a sequence of bytes whose first is at address 1; a scan fails    *)
(* with 0.  Bytes behind the sequence match nothing.  A value read from the *)
(* code is the sequence of its bytes.                                       *)
(***************************************************************************)
EXTENDS Integers, Sequences, SequencesExt, FiniteSetsExt

Wild == -1   \* a '?' in the text of a pattern

vm_call_pattern ==
  <<\hC5, \hF8, \h77, \h49, \h89, \hAF, Wild, Wild, Wild, Wild, \h49, \h89, \h87, Wild, Wild,
    Wild, Wild, \h48, \h83, \hEC, \h20, \h40, \hF6, \hC4, \h0F, \h0F, \h84, Wild, Wild, Wild,
    Wild, \h48, \h83, \hEC, \h08, \h48, Wild, Wild, Wild, Wild, Wild, Wild, Wild, Wild, Wild, \hFF>>

vm_call_pattern2 ==
  <<\hC5, \hF8, \h77, \h49, \h89, \hAF, Wild, Wild, Wild, Wild, \h49, \h89, \h87, Wild, Wild,
    Wild, Wild, \h48, \h83, \hEC, \h20, \hF7, \hC4, \h0F, \h00, \h00, \h00, \h0F, \h84, Wild,
    Wild, Wild, Wild, \h48, \h83, \hEC, \h08, \h49, Wild, Wild, Wild, Wild, Wild, Wild, Wild, Wild,
    Wild, \h41, \hFF>>

vm_call_address_pattern == <<\h48, \h83, \hEC, \h08>>

fixed_frame_entry ==
  <<\h50, \h55, \h48, \h8B, \hEC, \h41, \h55, \h68, 0, 0, 0, 0, \h4C, \h8B, \h6B, \h10>>

\* jmp qword ptr ds:[r10+rbx*8]
interception_pattern == <<\h41, \hFF, \h24, \hDA>>

\* A '?' becomes the byte 0x3F.
HexToBytes(pattern) == [i \in DOMAIN pattern |-> IF pattern[i] = Wild THEN \h3F ELSE pattern[i]]

\* The signature up to its first zero byte: scan reads it as a C string.
CString(signature) ==
  IF 0 \in ToSet(signature)
  THEN SubSeq(signature, 1, SelectInSeq(signature, LAMBDA b : b = 0) - 1)
  ELSE signature

Matches(code, signature, a) ==
  /\ a + Len(signature) - 1 <= Len(code)
  /\ \A i \in DOMAIN signature : signature[i] \in {\h3F, code[a + i - 1]}

\* The addresses from start on, and before end, at which the pattern matches.
Found(code, pattern, start, end) ==
  LET signature == CString(HexToBytes(pattern))
  IN  {a \in start..end - 1 : a <= Len(code) /\ code[a] = signature[1]
                                /\ Matches(code, signature, a)}

Scan(code, pattern, start, end) ==
  LET found == Found(code, pattern, start, end)
  IN  IF found = {} THEN 0 ELSE Min(found)

Read(code, a, size) == SubSeq(code, a, a + size - 1)

-----------------------------------------------------------------------------
(* find_vm_calls *)

max_len == \h500

\* The second pattern is tried where the first is not found at all.
CallPattern(code) ==
  IF Scan(code, vm_call_pattern, 1, 1 + max_len) # 0 THEN vm_call_pattern ELSE vm_call_pattern2

FirstVmCall(code) == Scan(code, CallPattern(code), 1, 1 + max_len)

\* Every match, the i-th of them with i - 1 in front of it.
VmCallAddrs(code) ==
  LET found == Found(code, CallPattern(code), 1, 1 + max_len)
  IN  [i \in 1..Cardinality(found) |->
         CHOOSE a \in found : Cardinality({b \in found : b < a}) = i - 1]

\* The `sub rsp, 8` behind a call's prologue; what is 6 bytes on is the address.
VmCallAddress(code, a) == Scan(code, vm_call_address_pattern, a, a + \h50)

\* find_vm_calls dereferences the failure of a scan.
FindVmCallsFaults(code) ==
  \E i \in DOMAIN VmCallAddrs(code) : VmCallAddress(code, VmCallAddrs(code)[i]) = 0

\* The operand of the mov behind `sub rsp, 8`, taken one byte early.
AddressWithOpcode(code, a) == Read(code, VmCallAddress(code, a) + 5, 8)

FunctionAddress(code, a) == Read(code, VmCallAddress(code, a) + 6, 8)

FindVmCalls(code) ==
  [i \in DOMAIN VmCallAddrs(code) |-> FunctionAddress(code, VmCallAddrs(code)[i])]

\* Where the thread keeps rbp and rax while it is in the VM: the operands of the
\* two movs behind the first vzeroupper, in the order of the code or swapped.
ThreadOffsetsSwapped(code) ==
  LET a == FirstVmCall(code)
  IN  [frame |-> Read(code, a + 3 + 7 + 3, 4), operand_stack |-> Read(code, a + 3 + 3, 4)]

ThreadOffsets(code) ==
  LET a == FirstVmCall(code)
  IN  [frame |-> Read(code, a + 3 + 3, 4), operand_stack |-> Read(code, a + 3 + 7 + 3, 4)]

-----------------------------------------------------------------------------
(* The interpreter entry of a method *)

\* The operand of the lea behind the frame's entry; 0 if that is not found.
FindBytecodeStartOffset(code) ==
  LET a == Scan(code, fixed_frame_entry, 1, 1 + \h100)
  IN  IF a = 0 THEN 0 ELSE code[a + \h10 + 3]

\* The mov in front of the jump that dispatches the first bytecode.  memcmp knows
\* neither wildcards nor strings.
GetInterceptionAddress(code) ==
  LET found == {a \in 1..\h1000 : a + 3 <= Len(code) /\ Read(code, a, 4) = interception_pattern}
  IN  IF found = {} THEN 0 ELSE Min(found) - 10
=============================================================================
