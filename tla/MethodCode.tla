------------------------------ MODULE MethodCode ------------------------------
(***************************************************************************)
(* The code of one method as its owner sees it: get_bytecode_size walks it, *)
(* get_bytecode copies it, set_bytecode replaces it, and breakpoints are    *)
(* set in it and removed.                                                   *)
(* One client thread makes the calls, and no Java thread runs the method:   *)
(* what other threads do to a breakpoint is in Breakpoints.                 *)
(*                                                                         *)
(* A body is a sequence of instructions and an instruction a sequence of    *)
(* bytes, so where instructions start is known without the table of         *)
(* lengths the code uses.                                                   *)
(***************************************************************************)
EXTENDS Bytecode, FiniteSets, SequencesExt

CONSTANTS
  Size,     \* bytes of the method, as the class loader laid it out
  Loaded,   \* the body the class loader gave it
  Bodies,   \* the bodies the client may install
  Absent    \* "no such key"

Bytes(body) == FlattenSeq(body)

\* The bytes behind an opcode in a class file: the number of a local variable, an
\* entry of the constant pool, the offset of a branch, or a constant.
LocalVariable == {169} \cup 21..25 \cup 54..58
PoolEntry == {19, 20, 187, 189, 192, 193} \cup 178..184
BranchOffset == {198, 199} \cup 153..168

OperandBytes(opcode) ==
  CASE opcode \in {16, 18, 188} \cup LocalVariable             -> 1
    [] opcode \in {17, iinc} \cup PoolEntry \cup BranchOffset  -> 2
    [] opcode = 197                                            -> 3
    [] opcode \in {185, 186, 200, 201}                         -> 4
    [] OTHER                                                   -> 0

\* An instruction of a class file.  A switch has as many bytes as its pairs need.
IsInstruction(i) ==
  /\ i # <<>> /\ i[1] \in 0..201
  /\ IF i[1] = wide THEN Len(i) > 1 /\ Len(i) = IF i[2] = iinc THEN 6 ELSE 4
     ELSE i[1] \in {tableswitch, lookupswitch} \/ Len(i) = 1 + OperandBytes(i[1])

Instructions(body) ==
  body \in Seq(Seq(Byte)) /\ \A i \in DOMAIN body : IsInstruction(body[i])

\* The class loader and the client lay out instructions as class files have them.
ASSUME MethodAssumption ==
  /\ Loaded \in Bodies
  /\ Len(Bytes(Loaded)) = Size
  /\ \A body \in Bodies : Instructions(body)
  /\ Absent \notin Byte

VARIABLES
  memory,              \* the method's bytes and the 0xFF behind them
  original_bytecodes,  \* the registry, for the addresses of the method
  copy,                \* what get_bytecode returned to the client
  body,                \* history: the instructions the method should consist of
  copied               \* history: those it consisted of when it was copied

vars == <<memory, original_bytecodes, copy, body, copied>>

Address == 1..Size + 1

Init ==
  /\ memory = Append(Bytes(Loaded), invalid)
  /\ original_bytecodes = [a \in Address |-> Absent]
  /\ body = Loaded
  /\ copy = Bytes(Loaded) /\ copied = Loaded

\* Where the instructions of a body start.
Starts(b) == {Len(Bytes(SubSeq(b, 1, i - 1))) + 1 : i \in DOMAIN b}

\* A body that is shorter than the method is followed by nops.
Padded(b) == b \o [i \in 1..(Size - Len(Bytes(b))) |-> <<nop>>]

-----------------------------------------------------------------------------
(* The walk of get_bytecode_size *)

\* get_opcode that reads the byte and does not ask the registry.
OpcodeInMemory(a) == memory[a]

GetOpcode(a) ==
  IF original_bytecodes[a] # Absent THEN original_bytecodes[a] ELSE memory[a]

\* The addresses at which get_bytecode_size constructs a Bytecode.  An address
\* behind the 0xFF stands for a walk that leaves the method.
Walk ==
  LET visited[a \in 1..Size + 1] ==
        IF GetOpcode(a) = invalid \/ Throws(GetOpcode(a)) THEN {a}
        ELSE LET next == a + GetLength(GetOpcode(a), memory[a + 1])
             IN  {a} \cup IF next \in Address THEN visited[next] ELSE {next}
  IN  visited[1]

WalkThrows == \E a \in Walk \cap Address : Throws(GetOpcode(a))

\* The number of bytes it returns.
GetBytecodeSize == (CHOOSE a \in Walk : \A b \in Walk : b <= a) - 1

-----------------------------------------------------------------------------
(* The operands a breakpoint's callback sees *)

\* get_stack_consumption with the byte in memory, and as it is.
ConsumptionInMemory(a) == bytecode_operand_consumption[memory[a] + 1]

GetStackConsumption(a) == bytecode_operand_consumption[GetOpcode(a) + 1]

\* The word of the operand stack get_operand points at, counted from the top;
\* Absent for nullptr.  has_thread: the BreakpointInfo has a java_thread.  A
\* negative i is not refused.
GetOperand(has_thread, a, i) ==
  IF ~has_thread \/ i >= GetStackConsumption(a) THEN Absent ELSE i

-----------------------------------------------------------------------------
(* The operations *)

SetBreakpoint(a) ==
  /\ original_bytecodes' = [original_bytecodes EXCEPT ![a] = memory[a]]
  /\ memory' = [memory EXCEPT ![a] = breakpoint]
  /\ UNCHANGED <<copy, body, copied>>

\* operator[] supplies 0 for a key that is missing.
RemoveBreakpoint(a) ==
  /\ memory' = [memory EXCEPT ![a] =
                  IF original_bytecodes[a] = Absent THEN nop ELSE original_bytecodes[a]]
  /\ original_bytecodes' = [original_bytecodes EXCEPT ![a] = Absent]
  /\ UNCHANGED <<copy, body, copied>>

\* What set_bytecode leaves in the code: without its memset, without its check
\* of the size, and as it is.
WrittenWithoutNops(bytes) ==
  [a \in Address \cup DOMAIN bytes |-> IF a \in DOMAIN bytes THEN bytes[a] ELSE memory[a]]

FitsAnyway(bytes) == ~WalkThrows

Written(bytes) ==
  [a \in Address \cup DOMAIN bytes |-> IF a \in DOMAIN bytes THEN bytes[a]
                                       ELSE IF a <= GetBytecodeSize THEN nop
                                       ELSE memory[a]]

\* When get_bytecode_size throws, or the bytes are longer than the method,
\* nothing changes.
Fits(bytes) == ~WalkThrows /\ Len(bytes) <= GetBytecodeSize

\* bytes encode the instructions b.
SetBytecode(bytes, b) ==
  /\ Fits(bytes)
  /\ memory' = Written(bytes)
  /\ body' = Padded(b)
  /\ UNCHANGED <<original_bytecodes, copy, copied>>

GetBytecode ==
  /\ ~WalkThrows
  /\ copy' = [a \in 1..GetBytecodeSize |-> memory[a]]
  /\ copied' = body
  /\ UNCHANGED <<memory, original_bytecodes, body>>

\* The client sets breakpoints on instructions, removes those it set, and copies
\* the code, writes the copy back or replaces the body only while it has none set.
Next ==
  \/ \E a \in Starts(body) : memory[a] # breakpoint /\ SetBreakpoint(a)
  \/ \E a \in Starts(body) : memory[a] = breakpoint /\ RemoveBreakpoint(a)
  \/ /\ \A a \in Address : original_bytecodes[a] = Absent
     /\ \/ GetBytecode
        \/ SetBytecode(copy, copied)
        \/ \E b \in Bodies : SetBytecode(Bytes(b), b)

Spec == Init /\ [][Next]_vars

-----------------------------------------------------------------------------
(* Properties *)

\* The bytes stay bytes and the method keeps its length: nothing is written
\* behind the 0xFF that ends it (set_bytecode).
MethodTypeOK ==
  /\ memory \in [Address -> Byte]
  /\ original_bytecodes \in [Address -> Byte \cup {Absent}]
  /\ copy \in Seq(Byte) /\ Len(copy) = Size
  /\ body \in Seq(Seq(Byte)) /\ copied \in Seq(Seq(Byte))

\* get_bytecode_size stops at exactly the instructions of the method up to its
\* first switch, or up to the 0xFF, whatever breakpoints are set and whatever
\* was installed before: operands that look like 0xCA or 0xFF do not mislead it
\* (get_opcode, get_length, bytecode_lengths).
WalkFindsInstructions ==
  LET code == Bytes(body)
      switches == {a \in Starts(body) : Throws(code[a])}
  IN  Walk = {a \in Starts(body) \cup {Size + 1} : \A s \in switches : a <= s}

\* The words an instruction pops by its kind, one for int, float and reference
\* and two for long and double: i l f d in turn, with a where there are five.
Width(k) == 1 + (k % 2)

Pops(opcode) ==
  CASE opcode \in 46..53                                  -> 2
    [] opcode \in 54..58                                  -> Width(opcode - 54)
    [] opcode \in 59..78                                  -> Width((opcode - 59) \div 4)
    [] opcode \in 79..82                                  -> 2 + Width(opcode - 79)
    [] opcode \in 83..86                                  -> 3
    [] opcode \in {87, 89}                                -> 1
    [] opcode \in {88, 90, 92, 95}                        -> 2
    [] opcode \in {91, 93}                                -> 3
    [] opcode = 94                                        -> 4
    [] opcode \in 96..115                                 -> 2 * Width(opcode - 96)
    [] opcode \in 116..119                                -> Width(opcode - 116)
    [] opcode \in 120..125                                -> 1 + Width(opcode - 120)
    [] opcode \in 126..131                                -> 2 * Width(opcode - 126)
    [] opcode \in 133..147                                -> IF opcode \in 136..138 \cup 142..144
                                                             THEN 2 ELSE 1
    [] opcode \in 148..152                                -> IF opcode \in {149, 150} THEN 2 ELSE 4
    [] opcode \in 159..166                                -> 2
    [] opcode \in 172..176                                -> Width(opcode - 172)
    [] opcode \in {180} \cup 188..195 \cup 153..158
                       \cup {170, 171, 198, 199}          -> 1
    [] OTHER                                              -> 0

\* putstatic, putfield, the invokes, wide and multianewarray.
Variable == {179, 181} \cup 182..186 \cup {wide, 197}

\* At an instruction that pops a fixed number of words a callback reaches those
\* words of the operand stack and none below them, whether the byte in memory is
\* the opcode or the 0xCA over it (get_operand with an index that is not negative,
\* get_stack_consumption).
OperandsReached ==
  \A a \in Starts(body) :
    LET opcode == Bytes(body)[a]
    IN  opcode \in Variable
          \/ {GetOperand(TRUE, a, i) : i \in 0..4} \ {Absent} = 0..Pops(opcode) - 1

\* The code is the installed body with its breakpoints, the registry holds what
\* removing them will write back, and a copy that is written back restores the
\* body it was made of (get_bytecode, set_bytecode, set_breakpoint,
\* remove_breakpoint).
BodyKept ==
  \A a \in Address :
    LET plain == Append(Bytes(body), invalid)[a]
    IN  \/ memory[a] = plain /\ original_bytecodes[a] = Absent
        \/ memory[a] = breakpoint /\ original_bytecodes[a] = plain
=============================================================================
