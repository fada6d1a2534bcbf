----------------------------- MODULE MCMethodCode -----------------------------
(***************************************************************************)
(* A method of twelve bytes for TLC, with bodies whose operands hold 0xCA,  *)
(* 0xFF and opcodes, one that is too long and one with a switch.            *)
(***************************************************************************)
EXTENDS MethodCode

MethodSize == 12

\* bipush -54; wide iinc 1 1; iload_0; iload_1; imul; ireturn
WideBody == << <<16, 202>>, <<196, 132, 0, 1, 0, 1>>, <<26>>, <<27>>, <<104>>, <<172>> >>

\* sipush -1; wide iload 171; invokeinterface: 3 + 4 + 5 bytes
OperandBody == << <<17, 255, 255>>, <<196, 21, 0, 171>>, <<185, 0, 202, 1, 0>> >>

\* iconst_0; ireturn
ShortBody == << <<3>>, <<172>> >>

\* iload_0; lookupswitch with no pairs
SwitchBody == << <<26>>, <<171, 0, 0, 0, 0, 0, 11, 0, 0, 0, 0>> >>

\* fourteen bytes: three of multianewarray, pop and a return
LongBody == << <<197, 0, 1, 2>>, <<197, 0, 1, 2>>, <<197, 0, 1, 2>>, <<87>>, <<177>> >>

\* instructions that pop: iaload, lstore_1, dastore, dup2_x2, ladd, ineg, lshl, land,
\* l2i, lcmp, fcmpg and lreturn
PoppingBody == << <<46>>, <<64>>, <<82>>, <<94>>, <<97>>, <<116>>, <<121>>, <<127>>,
                  <<136>>, <<148>>, <<150>>, <<173>> >>

MethodBodies == {PoppingBody, WideBody, OperandBody, ShortBody, SwitchBody, LongBody}
=============================================================================
