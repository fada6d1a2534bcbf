------------------------------- MODULE Bytecode -------------------------------
(***************************************************************************)
(* How java::Bytecode decodes an instruction: the opcodes the code names,   *)
(* the table of lengths and get_opcode and get_length.                      *)
(*                                                                         *)
(* The lengths of tableswitch and lookupswitch are left out: the code says  *)
(* they are wrong, and the constructor get_bytecode_size uses refuses both. *)
(***************************************************************************)
EXTENDS Integers

Byte == 0..255

nop == 0                     \* Bytecodes::nop, and what operator[] inserts
iinc == 132
tableswitch == 170
lookupswitch == 171
wide == 196
breakpoint == 202            \* breakpoint_opcode, 0xCA
invalid == 255               \* the byte that ends every walk over a method

\* The bytes after the opcode; the -1 of the table is 255 in a uint8_t.
bytecode_lengths ==
  [opcode \in 0..202 |->
     CASE opcode \in {16, 18, 169, 188} \cup 21..25 \cup 54..58 -> 1
       [] opcode \in {17, 19, 20, 132, 187, 189, 192, 193, 198, 199}
                       \cup 153..168 \cup 178..184              -> 2
       [] opcode = 197                                          -> 3
       [] opcode \in {185, 186, 200, 201}                       -> 4
       [] opcode \in {tableswitch, lookupswitch, wide}          -> 255
       [] OTHER                                                 -> 0]

\* The default branch of get_length.
TableLength(opcode) == bytecode_lengths[opcode] + 1

\* get_length of an instruction other than a switch; operand is the byte after
\* the opcode.
GetLength(opcode, operand) ==
  IF opcode = wide
  THEN IF operand = iinc THEN 6 ELSE 4
  ELSE TableLength(opcode)

\* The words an instruction takes from the operand stack; 0 where that depends on
\* its operands.
bytecode_operand_consumption ==
  << 0, 0, 0, 0, 0, 0, 0, 0, 0, 0, 0, 0, 0, 0, 0, 0, 0, 0, 0, 0, 0, 0, 0, 0, 0,
    0, 0, 0, 0, 0, 0, 0, 0, 0, 0, 0, 0, 0, 0, 0, 0, 0, 0, 0, 0, 0, 2, 2, 2, 2,
    2, 2, 2, 2, 1, 2, 1, 2, 1, 1, 1, 1, 1, 2, 2, 2, 2, 1, 1, 1, 1, 2, 2, 2, 2,
    1, 1, 1, 1, 3, 4, 3, 4, 3, 3, 3, 3, 1, 2, 1, 2, 3, 2, 3, 4, 2, 2, 4, 2, 4,
    2, 4, 2, 4, 2, 4, 2, 4, 2, 4, 2, 4, 2, 4, 2, 4, 1, 2, 1, 2, 2, 3, 2, 3, 2,
    3, 2, 4, 2, 4, 2, 4, 0, 1, 1, 1, 2, 2, 2, 1, 1, 1, 2, 2, 2, 1, 1, 1, 4, 2,
    2, 4, 4, 1, 1, 1, 1, 1, 1, 2, 2, 2, 2, 2, 2, 2, 2, 0, 0, 0, 1, 1, 1, 2, 1,
    2, 1, 0, 0, 0, 1, 0, 0, 0, 0, 0, 0, 0, 1, 1, 1, 1, 1, 1, 1, 1, 0, 0, 1, 1,
    0, 0, 0 >>

\* The constructor of Bytecode with one argument throws for these.
Throws(opcode) == opcode \in {tableswitch, lookupswitch}
=============================================================================
