----------------------------- MODULE MCMainThread -----------------------------
(***************************************************************************)
(* An instance of MainThread for TLC: a ConstMethod of one byte, test_mul   *)
(* (iload_0; imul; ireturn), and seven interpreters.                          *)
(***************************************************************************)
EXTENDS MainThread

MulCode == <<7, 26, 104, 172, 255>>
MulEntry == {2, 3, 4}
HeaderByte == 1

OneMethod == {"test_mul"}
OneStart == [m \in OneMethod |-> 2]
OneMethodOf == [a \in Entry |-> "test_mul"]

JvmTruth ==
  [get_original_bytecode_at |-> <<\hA0, \hA5, \h37, \hF9, \hFB, \h7F, 0, 0>>,
   _breakpoint |-> <<\h60, \h56, \hE2, \h91, \hFD, \h7F, 0, 0>>,
   bytecode_start |-> \h38,
   thread |-> [frame |-> <<\hF0, 3, 0, 0>>, operand_stack |-> <<\hE0, 3, 0, 0>>]]

\* A call into the VM, up to the address, and what follows it up to the next.
Prologue(test, realign) ==
  <<\hC5, \hF8, \h77>> \o <<\h49, \h89, \hAF>> \o JvmTruth.thread.frame
    \o <<\h49, \h89, \h87>> \o JvmTruth.thread.operand_stack \o <<\h48, \h83, \hEC, \h20>>
    \o test \o <<\h0F, \h84, \h19, 0, 0, 0>> \o realign

Epilogue == <<\h48, \h83, \hC4, 8, \hE9, \h0C, 0, 0, 0>>

Push8 == <<\h48, \h83, \hEC, 8>>
TestSpl == <<\h40, \hF6, \hC4, \h0F>>
TestEsp == <<\hF7, \hC4, \h0F, 0, 0, 0>>

ViaRax(function) == Prologue(TestSpl, Push8) \o <<\h48, \hB8>> \o function \o <<\hFF, \hD0>> \o Epilogue
ViaR10(function) ==
  Prologue(TestEsp, Push8) \o <<\h49, \hBA>> \o function \o <<\h41, \hFF, \hD2>> \o Epilogue

Template(Call(_)) ==
  <<\h90>> \o Call(JvmTruth.get_original_bytecode_at) \o <<\h8B, \hD8>> \o Call(JvmTruth._breakpoint)

\* The cut second signature also matches a call that aligns with push.
PushAligned ==
  Prologue(TestEsp, <<\h50>>) \o <<\h49, \hBA>> \o JvmTruth._breakpoint \o [i \in 1..90 |-> \h90]

FrameEntry ==
  <<\h90, \h50, \h55, \h48, \h8B, \hEC, \h41, \h55, \h68, 0, 0, 0, 0, \h4C, \h8B, \h6B, \h10,
    \h4D, \h8D, \h6D, JvmTruth.bytecode_start, \h53>>

\* push 0 in two bytes instead of five
ShortPushEntry ==
  <<\h90, \h50, \h55, \h48, \h8B, \hEC, \h41, \h55, \h6A, 0, \h4C, \h8B, \h6B, \h10,
    \h4D, \h8D, \h6D, JvmTruth.bytecode_start, \h53>>

DispatchCode == <<\h49, \hBA, 1, 2, 3, 4, 5, 6, 0, 0, \h41, \hFF, \h24, \hDA>>

Interpreters ==
  {[entry |-> FrameEntry \o DispatchCode, template |-> Template(ViaRax)],
   [entry |-> FrameEntry \o DispatchCode, template |-> Template(ViaR10)],
   [entry |-> ShortPushEntry \o DispatchCode, template |-> Template(ViaRax)],
   [entry |-> FrameEntry, template |-> Template(ViaRax)],
   [entry |-> FrameEntry \o DispatchCode, template |-> ViaR10(JvmTruth._breakpoint)],
   [entry |-> FrameEntry \o DispatchCode, template |-> PushAligned],
   [entry |-> FrameEntry \o DispatchCode, template |-> NoTemplate]}

\* The signatures match where they should, so the hypothesis of OffsetsCorrect is
\* one that interpreters meet.
ASSUME InterpretersAreGenuine == SignaturesGenuine
=============================================================================
