--------------------------- MODULE MethodCodeProofs ---------------------------
(***************************************************************************)
(* Proofs about MethodCode: for every method and every bodies laid out as   *)
(* class files lay them out, get_bytecode_size finds the instructions, a    *)
(* callback reaches the operands of its instruction and the code is the     *)
(* installed body with the breakpoints that are set.                        *)
(***************************************************************************)
EXTENDS MethodCode, FlattenProofs

-----------------------------------------------------------------------------
(* The tables against the class file format *)

LEMMA LengthTable ==
  ASSUME NEW opcode \in 0..201, opcode # wide, ~Throws(opcode)
  PROVE  bytecode_lengths[opcode] = OperandBytes(opcode)
BY SMTT(30) DEF bytecode_lengths, OperandBytes, LocalVariable, PoolEntry, BranchOffset,
                wide, iinc, Throws, tableswitch, lookupswitch

LEMMA PopsTable ==
  ASSUME NEW opcode \in 0..201 \ Variable
  PROVE  /\ bytecode_operand_consumption[opcode + 1] = Pops(opcode)
         /\ Pops(opcode) \in 0..4
BY SMTT(30) DEF bytecode_operand_consumption, Pops, Width, Variable, wide

\* get_length returns the length of an instruction that is not a switch.
LEMMA InstructionLength ==
  ASSUME NEW i \in Seq(Byte), IsInstruction(i), ~Throws(i[1]),
         NEW operand, i[1] = wide => operand = i[2]
  PROVE  GetLength(i[1], operand) = Len(i)
<1>1. CASE i[1] = wide
  BY <1>1 DEF GetLength, TableLength, IsInstruction
<1>2. CASE i[1] # wide
  <2>1. i[1] \in 0..201 /\ Len(i) = 1 + OperandBytes(i[1])
    BY <1>2 DEF IsInstruction, Throws
  <2>2. bytecode_lengths[i[1]] = OperandBytes(i[1])
    BY <1>2, <2>1, LengthTable
  <2>3. OperandBytes(i[1]) \in Int
    BY <2>1 DEF OperandBytes
  <2>4. GetLength(i[1], operand) = bytecode_lengths[i[1]] + 1
    BY <1>2 DEF GetLength, TableLength
  <2> QED
    BY <2>1, <2>2, <2>3, <2>4
<1> QED
  BY <1>1, <1>2

-----------------------------------------------------------------------------
(* Where the instructions of a body start *)

At(b, i) == End(b, i - 1) + 1

LEMMA BodyStarts ==
  ASSUME NEW b, Instructions(b)
  PROVE  /\ b \in Seq(Seq(Byte)) /\ Len(b) \in Nat /\ DOMAIN b = 1..Len(b)
         /\ Bytes(b) \in Seq(Byte) /\ Len(Bytes(b)) \in Nat
         /\ Starts(b) = {At(b, i) : i \in 1..Len(b)}
         /\ At(b, 1) = 1 /\ At(b, Len(b) + 1) = Len(Bytes(b)) + 1
         /\ \A i \in 1..Len(b) + 1 : At(b, i) \in Nat
         /\ \A i, j \in 1..Len(b) + 1 : i < j => At(b, i) < At(b, j)
<1>1. b \in Seq(Seq(Byte)) /\ Len(b) \in Nat /\ DOMAIN b = 1..Len(b)
  BY LenProperties DEF Instructions
<1>2. Bytes(b) \in Seq(Byte) /\ Len(Bytes(b)) \in Nat
  BY <1>1, FlattenType, LenProperties DEF Bytes
<1>3. Starts(b) = {At(b, i) : i \in 1..Len(b)}
  BY <1>1 DEF Starts, At, End, Bytes
<1>4. End(b, 0) = 0 /\ End(b, Len(b)) = Len(Bytes(b)) /\ \A i \in 0..Len(b) : End(b, i) \in Nat
  BY <1>1, Ends DEF Bytes
<1>5. At(b, 1) = 1 /\ At(b, Len(b) + 1) = Len(Bytes(b)) + 1
  <2>1. 1 - 1 = 0 /\ Len(b) + 1 - 1 = Len(b)
    BY <1>1
  <2> QED
    BY <1>4, <2>1 DEF At
<1>6. ASSUME NEW i \in 1..Len(b) + 1 PROVE At(b, i) \in Nat
  <2>1. i - 1 \in 0..Len(b)
    BY <1>1
  <2> QED
    BY <1>4, <2>1 DEF At
<1>7. ASSUME NEW i \in 1..Len(b) + 1, NEW j \in 1..Len(b) + 1, i < j PROVE At(b, i) < At(b, j)
  <2>1. i - 1 \in 0..Len(b) /\ j - 1 \in 0..Len(b) /\ i - 1 < j - 1
    BY <1>1, <1>7
  <2>2. \A k \in 1..Len(b) : b[k] # <<>>
    BY <1>1 DEF Instructions, IsInstruction
  <2>3. End(b, i - 1) < End(b, j - 1)
    BY <1>1, <2>1, <2>2, EndsGrow
  <2> QED
    BY <1>4, <2>1, <2>3 DEF At
<1> QED
  BY <1>1, <1>2, <1>3, <1>5, <1>6, <1>7

\* The bytes of an instruction follow its start, and the next one follows them.
LEMMA BodyBytes ==
  ASSUME NEW b, Instructions(b), NEW i \in 1..Len(b)
  PROVE  /\ b[i] \in Seq(Byte) /\ IsInstruction(b[i]) /\ Len(b[i]) \in Nat /\ Len(b[i]) >= 1
         /\ At(b, i) \in 1..Len(Bytes(b)) /\ Bytes(b)[At(b, i)] = b[i][1]
         /\ Len(b[i]) > 1 => /\ At(b, i) + 1 \in 1..Len(Bytes(b))
                             /\ Bytes(b)[At(b, i) + 1] = b[i][2]
         /\ At(b, i + 1) = At(b, i) + Len(b[i])
<1>1. b \in Seq(Seq(Byte)) /\ Len(b) \in Nat /\ DOMAIN b = 1..Len(b)
  BY BodyStarts
<1>2. b[i] \in Seq(Byte) /\ IsInstruction(b[i])
  BY <1>1, ElementOfSeq DEF Instructions
<1>3. Len(b[i]) \in Nat /\ Len(b[i]) >= 1
  BY <1>2, EmptySeq DEF IsInstruction
<1>4. End(b, i) = End(b, i - 1) + Len(b[i])
  BY <1>1, Ends
<1>5. End(b, i - 1) \in Nat
  <2>1. i - 1 \in 0..Len(b)
    BY <1>1
  <2> QED
    BY <1>1, <2>1, Ends
<1>6. ASSUME NEW k \in 1..Len(b[i])
      PROVE  End(b, i - 1) + k \in 1..Len(Bytes(b)) /\ Bytes(b)[End(b, i - 1) + k] = b[i][k]
  BY <1>1, FlattenAt DEF Bytes
<1>7. At(b, i) \in 1..Len(Bytes(b)) /\ Bytes(b)[At(b, i)] = b[i][1]
  <2>1. 1 \in 1..Len(b[i])
    BY <1>3
  <2> QED
    BY <1>6, <2>1 DEF At
<1>8. ASSUME Len(b[i]) > 1
      PROVE  At(b, i) + 1 \in 1..Len(Bytes(b)) /\ Bytes(b)[At(b, i) + 1] = b[i][2]
  <2>1. 2 \in 1..Len(b[i]) /\ At(b, i) + 1 = End(b, i - 1) + 2
    BY <1>3, <1>5, <1>8 DEF At
  <2> QED
    BY <1>6, <2>1
<1>9. At(b, i + 1) = At(b, i) + Len(b[i])
  <2>1. i + 1 - 1 = i
    OBVIOUS
  <2> QED
    BY <1>3, <1>4, <1>5, <2>1 DEF At
<1> QED
  BY <1>2, <1>3, <1>7, <1>8, <1>9

-----------------------------------------------------------------------------
(* The walk *)

\* A walk over the places of st that stops at those of sw and else goes on to the
\* next sees the places up to the first of sw.
LEMMA WalkStops ==
  ASSUME NEW n \in Nat, NEW st, NEW sw \in SUBSET (1..n), NEW v,
         \A i \in 1..n + 1 : st[i] \in Nat,
         \A i, j \in 1..n + 1 : i < j => st[i] < st[j],
         v[st[n + 1]] = {st[n + 1]},
         \A i \in 1..n : v[st[i]] = IF i \in sw THEN {st[i]} ELSE {st[i]} \cup v[st[i + 1]]
  PROVE  /\ v[st[1]] = {st[i] : i \in {j \in 1..n + 1 : \A k \in sw : j <= k}}
         /\ st[n + 1] \in v[st[1]] \/ \E k \in sw : st[k] \in v[st[1]]
<1> DEFINE Sees(i) == {st[j] : j \in {l \in i..n + 1 : \A k \in sw : k >= i => l <= k}}
           P(i) == /\ v[st[i]] = Sees(i)
                   /\ st[n + 1] \in v[st[i]] \/ \E k \in sw : st[k] \in v[st[i]]
           S == {d \in Nat : d <= n => P(n + 1 - d)}
<1>1. P(n + 1)
  <2>1. \A k \in sw : ~(k >= n + 1)
    OBVIOUS
  <2>2. {l \in n + 1..n + 1 : \A k \in sw : k >= n + 1 => l <= k} = {n + 1}
    BY <2>1
  <2>3. Sees(n + 1) = {st[n + 1]}
    BY <2>2
  <2> QED
    BY <2>3
<1>2. ASSUME NEW i \in 1..n, P(i + 1) PROVE P(i)
  <2>1. v[st[i]] = IF i \in sw THEN {st[i]} ELSE {st[i]} \cup v[st[i + 1]]
    OBVIOUS
  <2>2. CASE i \in sw
    <3>1. {l \in i..n + 1 : \A k \in sw : k >= i => l <= k} = {i}
      BY <2>2
    <3>2. Sees(i) = {st[i]}
      BY <3>1
    <3> QED
      BY <2>1, <2>2, <3>2
  <2>3. CASE i \notin sw
    <3>1. {l \in i..n + 1 : \A k \in sw : k >= i => l <= k}
            = {i} \cup {l \in i + 1..n + 1 : \A k \in sw : k >= i + 1 => l <= k}
      <4>1. \A k \in sw : k >= i <=> k >= i + 1
        BY <2>3
      <4>2. i..n + 1 = {i} \cup (i + 1..n + 1)
        OBVIOUS
      <4> QED
        BY <4>1, <4>2
    <3>2. Sees(i) = {st[i]} \cup Sees(i + 1)
      BY <3>1
    <3>3. v[st[i]] = {st[i]} \cup v[st[i + 1]]
      BY <2>1, <2>3
    <3> QED
      BY <1>2, <3>2, <3>3
  <2> QED
    BY <2>2, <2>3
<1> HIDE DEF P
<1>3. 0 \in S
  <2>1. n + 1 - 0 = n + 1
    OBVIOUS
  <2> QED
    BY <1>1, <2>1
<1>4. ASSUME NEW d \in Nat, d \in S PROVE d + 1 \in S
  <2> SUFFICES ASSUME d + 1 <= n PROVE P(n + 1 - (d + 1))
    OBVIOUS
  <2> DEFINE i == n + 1 - (d + 1)
  <2>1. i \in 1..n /\ i + 1 = n + 1 - d /\ d <= n
    OBVIOUS
  <2>2. P(n + 1 - d)
    BY <1>4, <2>1
  <2> HIDE DEF i
  <2>3. P(i + 1)
    BY <2>1, <2>2
  <2>4. P(i)
    BY <1>2, <2>1, <2>3
  <2> QED
    BY <2>4 DEF i
<1> HIDE DEF S
<1>5. \A d \in Nat : d \in S
  BY <1>3, <1>4, SetInduction
<1>6. P(1)
  <2>1. n \in S /\ n + 1 - n = 1
    BY <1>5
  <2> QED
    BY <2>1 DEF S
<1>7. {l \in 1..n + 1 : \A k \in sw : k >= 1 => l <= k} = {j \in 1..n + 1 : \A k \in sw : j <= k}
  OBVIOUS
<1> QED
  BY <1>6, <1>7 DEF P

\* v holds what is reached from each place of A, where next is behind it.
IsReached(v, A, stop, next) ==
  v = [a \in A |-> IF a \in stop THEN {a}
                   ELSE {a} \cup IF next[a] \in A THEN v[next[a]] ELSE {next[a]}]

\* The least sets that are closed under next are such sets, also where it turns back.
LEMMA Reached == \A A, stop, next : \E v : IsReached(v, A, stop, next)
<1> SUFFICES ASSUME NEW A, NEW stop, NEW next PROVE \E v : IsReached(v, A, stop, next)
  OBVIOUS
<1> DEFINE U == A \cup {next[a] : a \in A}
           Closed(C) == \A b \in A : b \in C /\ b \notin stop => next[b] \in C
           L(a) == {u \in U : \A C \in SUBSET U : a \in C /\ Closed(C) => u \in C}
           v == [a \in A |-> L(a)]
<1>1. ASSUME NEW a \in A PROVE a \in L(a) /\ Closed(L(a)) /\ L(a) \in SUBSET U
  OBVIOUS
<1>2. ASSUME NEW a \in A, a \in stop PROVE L(a) = {a}
  <2>1. {a} \in SUBSET U /\ Closed({a})
    BY <1>2
  <2> QED
    BY <1>1, <2>1
<1>3. ASSUME NEW a \in A, a \notin stop, next[a] \notin A PROVE L(a) = {a} \cup {next[a]}
  <2>1. {a, next[a]} \in SUBSET U /\ Closed({a, next[a]})
    BY <1>3
  <2>2. a \in {a, next[a]} /\ L(a) \subseteq {a, next[a]}
    BY <2>1
  <2>3. a \in L(a) /\ next[a] \in L(a)
    BY <1>1, <1>3
  <2> QED
    BY <2>2, <2>3
<1>4. ASSUME NEW a \in A, a \notin stop, next[a] \in A PROVE L(a) = {a} \cup L(next[a])
  <2>1. /\ next[a] \in L(a) /\ Closed(L(a)) /\ L(a) \in SUBSET U /\ a \in L(a)
        /\ next[a] \in L(next[a]) /\ Closed(L(next[a])) /\ L(next[a]) \in SUBSET U
    BY <1>1, <1>4
  <2>2. L(next[a]) \subseteq L(a)
    BY <2>1
  <2>3. {a} \cup L(next[a]) \in SUBSET U /\ Closed({a} \cup L(next[a]))
    BY <2>1
  <2>4. L(a) \subseteq {a} \cup L(next[a])
    BY <2>3
  <2> QED
    BY <2>1, <2>2, <2>4
<1> HIDE DEF L
<1>5. IsReached(v, A, stop, next)
  BY <1>2, <1>3, <1>4 DEF IsReached
<1> QED
  BY <1>5

Stop(a) == GetOpcode(a) = invalid \/ Throws(GetOpcode(a))
Following(a) == a + GetLength(GetOpcode(a), memory[a + 1])
Visits(v) ==
  \A a \in Address :
    v[a] = IF Stop(a) THEN {a}
           ELSE {a} \cup IF Following(a) \in Address THEN v[Following(a)] ELSE {Following(a)}

\* What the recursion of Walk computes obeys its equation.
LEMMA WalkVisits == \E v : Visits(v) /\ Walk = v[1]
<1> DEFINE Is(v) == v = [a \in 1..Size + 1 |->
                           IF Stop(a) THEN {a}
                           ELSE {a} \cup IF Following(a) \in Address THEN v[Following(a)]
                                         ELSE {Following(a)}]
           c == CHOOSE v : Is(v)
<1>1. \E v : Is(v)
  <2> DEFINE stop == {a \in Address : Stop(a)}
             next == [a \in Address |-> Following(a)]
  <2>1. PICK v : IsReached(v, Address, stop, next)
    BY Reached
  <2>2. \A a \in Address : (a \in stop <=> Stop(a)) /\ next[a] = Following(a)
    OBVIOUS
  <2> HIDE DEF stop, next
  <2>3. Is(v)
    BY <2>1, <2>2 DEF IsReached, Address
  <2> QED
    BY <2>3
<1>2. Is(c)
  BY <1>1
<1>3. Walk = c[1]
  BY DEF Walk, Stop, Following
<1> HIDE DEF c
<1>4. Visits(c)
  BY <1>2 DEF Visits, Address
<1> QED
  BY <1>3, <1>4

-----------------------------------------------------------------------------
(* The nops behind a shorter body *)

Nops(p) == [i \in 1..p |-> <<nop>>]

LEMMA NopInstructions ==
  ASSUME NEW p \in Nat
  PROVE  /\ Nops(p) \in Seq(Seq(Byte)) /\ Len(Nops(p)) = p
         /\ \A i \in 1..p : Nops(p)[i] = <<nop>>
         /\ <<nop>> \in Seq(Byte) /\ IsInstruction(<<nop>>)
<1>1. <<nop>> \in Seq(Byte)
  BY DEF nop, Byte
<1>2. OperandBytes(nop) = 0
  BY DEF OperandBytes, LocalVariable, PoolEntry, BranchOffset, nop, iinc
<1>3. IsInstruction(<<nop>>)
  BY <1>2 DEF IsInstruction, nop, wide
<1>4. Nops(p) \in Seq(Seq(Byte))
  <2> DEFINE e == <<nop>>
  <2>1. e \in Seq(Byte)
    BY <1>1
  <2> HIDE DEF e
  <2>2. [i \in 1..p |-> e] \in Seq(Seq(Byte))
    BY <2>1
  <2> QED
    BY <2>2 DEF e, Nops
<1>5. Len(Nops(p)) = p
  <2>1. DOMAIN Nops(p) = 1..p
    BY DEF Nops
  <2> QED
    BY <1>4, <2>1, LenProperties
<1> QED
  BY <1>1, <1>3, <1>4, <1>5 DEF Nops

LEMMA PaddedBytes ==
  ASSUME NEW b, Instructions(b), NEW p \in Nat
  PROVE  /\ Instructions(b \o Nops(p))
         /\ Len(Bytes(b \o Nops(p))) = Len(Bytes(b)) + p
         /\ \A a \in 1..Len(Bytes(b)) + p :
              Bytes(b \o Nops(p))[a] = IF a <= Len(Bytes(b)) THEN Bytes(b)[a] ELSE nop
<1> DEFINE c(q) == b \o Nops(q)
           P(q) == /\ c(q) \in Seq(Seq(Byte))
                   /\ Len(Bytes(c(q))) = Len(Bytes(b)) + q
                   /\ \A a \in 1..Len(Bytes(b)) + q :
                        Bytes(c(q))[a] = IF a <= Len(Bytes(b)) THEN Bytes(b)[a] ELSE nop
           S == {q \in Nat : P(q)}
<1>1. b \in Seq(Seq(Byte)) /\ Bytes(b) \in Seq(Byte) /\ Len(Bytes(b)) \in Nat /\ Len(b) \in Nat
  BY BodyStarts
<1>2. ASSUME NEW q \in Nat
      PROVE  /\ c(q) \in Seq(Seq(Byte)) /\ Len(c(q)) = Len(b) + q
             /\ \A i \in 1..Len(b) + q : c(q)[i] = IF i <= Len(b) THEN b[i] ELSE <<nop>>
  <2> DEFINE e == Nops(q)
  <2>1. e \in Seq(Seq(Byte)) /\ Len(e) = q /\ \A i \in 1..q : e[i] = <<nop>>
    BY NopInstructions
  <2> HIDE DEF e
  <2>2. /\ b \o e \in Seq(Seq(Byte)) /\ Len(b \o e) = Len(b) + Len(e)
        /\ \A i \in 1..Len(b) + Len(e) :
             (b \o e)[i] = IF i <= Len(b) THEN b[i] ELSE e[i - Len(b)]
    BY <1>1, <2>1, ConcatProperties
  <2>3. \A i \in 1..Len(b) + q : ~(i <= Len(b)) => i - Len(b) \in 1..q
    BY <1>1
  <2> QED
    BY <2>1, <2>2, <2>3 DEF e
<1>3. P(0)
  <2>1. Nops(0) = <<>>
    BY NopInstructions, EmptySeq
  <2>2. c(0) = b
    BY <1>1, <2>1, ConcatEmptySeq
  <2>3. Len(Bytes(b)) + 0 = Len(Bytes(b))
    BY <1>1
  <2>4. \A a \in 1..Len(Bytes(b)) : a <= Len(Bytes(b))
    BY <1>1
  <2> HIDE DEF c
  <2> QED
    BY <1>1, <2>2, <2>3, <2>4
<1>4. ASSUME NEW q \in Nat, P(q) PROVE P(q + 1)
  <2> DEFINE x == c(q)
             y == c(q + 1)
             e == <<nop>>
  <2>1. e \in Seq(Byte) /\ Len(e) = 1 /\ e[1] = nop
    BY NopInstructions
  <2>2. y = Append(x, e)
    <3>1. q + 1 \in Nat
      OBVIOUS
    <3>2. /\ x \in Seq(Seq(Byte)) /\ Len(x) = Len(b) + q
          /\ \A i \in 1..Len(b) + q : x[i] = IF i <= Len(b) THEN b[i] ELSE e
      BY <1>2
    <3>3. /\ y \in Seq(Seq(Byte)) /\ Len(y) = Len(b) + (q + 1)
          /\ \A i \in 1..Len(b) + (q + 1) : y[i] = IF i <= Len(b) THEN b[i] ELSE e
      BY <1>2, <3>1
    <3> HIDE DEF x, y, e
    <3> DEFINE z == Append(x, e)
    <3>4. /\ z \in Seq(Seq(Byte)) /\ Len(z) = Len(x) + 1 /\ z[Len(x) + 1] = e
          /\ \A i \in 1..Len(x) : z[i] = x[i]
      BY <2>1, <3>2, AppendProperties
    <3> HIDE DEF z
    <3>5. \A i \in 1..Len(y) : y[i] = z[i]
      <4>1. Len(y) = Len(x) + 1 /\ ~(Len(x) + 1 <= Len(b))
        BY <1>1, <3>2, <3>3
      <4>2. \A i \in 1..Len(x) + 1 : i \in 1..Len(x) \/ i = Len(x) + 1
        BY <1>1, <3>2
      <4> QED
        BY <1>1, <3>2, <3>3, <3>4, <4>1, <4>2
    <3>6. Len(y) = Len(z)
      BY <1>1, <3>2, <3>3, <3>4
    <3> QED
      BY <3>3, <3>4, <3>5, <3>6, SeqEqual DEF z
  <2>3. x \in Seq(Seq(Byte)) /\ y \in Seq(Seq(Byte)) /\ Bytes(x) \in Seq(Byte)
    <3>1. q + 1 \in Nat
      OBVIOUS
    <3>2. x \in Seq(Seq(Byte)) /\ y \in Seq(Seq(Byte))
      BY <1>2, <3>1
    <3> HIDE DEF x, y
    <3> QED
      BY <3>2, FlattenType DEF Bytes
  <2>4. /\ Len(Bytes(x)) = Len(Bytes(b)) + q
        /\ \A a \in 1..Len(Bytes(b)) + q :
             Bytes(x)[a] = IF a <= Len(Bytes(b)) THEN Bytes(b)[a] ELSE nop
    BY <1>4
  <2> HIDE DEF x, y, e
  <2>5. Bytes(y) = Bytes(x) \o e
    BY <2>1, <2>2, <2>3, FlattenAppend DEF Bytes
  <2>6. /\ Len(Bytes(y)) = Len(Bytes(x)) + 1
        /\ \A a \in 1..Len(Bytes(x)) + 1 :
             Bytes(y)[a] = IF a <= Len(Bytes(x)) THEN Bytes(x)[a] ELSE e[a - Len(Bytes(x))]
    <3> DEFINE u == Bytes(x)
    <3>1. u \in Seq(Byte) /\ Bytes(y) = u \o e
      BY <2>3, <2>5
    <3> HIDE DEF u
    <3>2. /\ Len(u \o e) = Len(u) + Len(e)
          /\ \A a \in 1..Len(u) + Len(e) :
               (u \o e)[a] = IF a <= Len(u) THEN u[a] ELSE e[a - Len(u)]
      BY <2>1, <3>1, ConcatProperties
    <3> QED
      BY <2>1, <3>1, <3>2 DEF u
  <2>7. /\ Len(Bytes(y)) = Len(Bytes(b)) + (q + 1)
        /\ \A a \in 1..Len(Bytes(b)) + (q + 1) :
             Bytes(y)[a] = IF a <= Len(Bytes(b)) THEN Bytes(b)[a] ELSE nop
    <3>1. Len(Bytes(y)) = Len(Bytes(b)) + (q + 1) /\ Len(Bytes(x)) + 1 = Len(Bytes(b)) + (q + 1)
      BY <1>1, <2>4, <2>6
    <3>2. ASSUME NEW a \in 1..Len(Bytes(b)) + (q + 1)
          PROVE  Bytes(y)[a] = IF a <= Len(Bytes(b)) THEN Bytes(b)[a] ELSE nop
      <4>1. Bytes(y)[a] = IF a <= Len(Bytes(x)) THEN Bytes(x)[a] ELSE e[a - Len(Bytes(x))]
        BY <2>6, <3>1
      <4>2. CASE a <= Len(Bytes(x))
        <5>1. a \in 1..Len(Bytes(b)) + q
          BY <1>1, <2>4, <4>2
        <5> QED
          BY <2>4, <4>1, <4>2, <5>1
      <4>3. CASE ~(a <= Len(Bytes(x)))
        <5>1. a - Len(Bytes(x)) = 1 /\ ~(a <= Len(Bytes(b)))
          BY <1>1, <2>4, <4>3
        <5> QED
          BY <2>1, <4>1, <4>3, <5>1
      <4> QED
        BY <4>2, <4>3
    <3> QED
      BY <3>1, <3>2
  <2> QED
    BY <2>3, <2>7 DEF y
<1> HIDE DEF P
<1>5. \A q \in Nat : q \in S
  <2>1. 0 \in S /\ \A q \in Nat : q \in S => q + 1 \in S
    BY <1>3, <1>4
  <2> HIDE DEF S
  <2> QED
    BY <2>1, SetInduction
<1>6. P(p)
  BY <1>5
<1>7. Instructions(c(p))
  <2>1. \A i \in 1..Len(b) : IsInstruction(b[i])
    BY BodyBytes
  <2>2. IsInstruction(<<nop>>)
    BY NopInstructions
  <2>3. /\ c(p) \in Seq(Seq(Byte)) /\ Len(c(p)) = Len(b) + p
        /\ \A i \in 1..Len(b) + p : c(p)[i] = IF i <= Len(b) THEN b[i] ELSE <<nop>>
    BY <1>2
  <2> HIDE DEF c
  <2>4. DOMAIN c(p) = 1..Len(b) + p
    BY <2>3, LenProperties
  <2>5. \A i \in 1..Len(b) + p : i <= Len(b) => i \in 1..Len(b)
    BY <1>1
  <2>6. \A i \in 1..Len(b) + p : IsInstruction(c(p)[i])
    BY <2>1, <2>2, <2>3, <2>5
  <2> QED
    BY <2>3, <2>4, <2>6 DEF Instructions
<1> QED
  BY <1>6, <1>7 DEF P

\* set_bytecode's bytes with its nops are the bytes of a body of the method's size.
LEMMA PaddedBody ==
  ASSUME NEW b, Instructions(b), Size \in Nat, Len(Bytes(b)) <= Size
  PROVE  /\ Instructions(Padded(b)) /\ Len(Bytes(Padded(b))) = Size
         /\ \A a \in 1..Size :
              Bytes(Padded(b))[a] = IF a <= Len(Bytes(b)) THEN Bytes(b)[a] ELSE nop
<1> DEFINE p == Size - Len(Bytes(b))
<1>1. p \in Nat /\ Len(Bytes(b)) + p = Size
  BY BodyStarts
<1>2. Padded(b) = b \o Nops(p)
  BY DEF Padded, Nops
<1> HIDE DEF p
<1> QED
  BY <1>1, <1>2, PaddedBytes

-----------------------------------------------------------------------------
(* The invariant *)

\* Where set_breakpoint left a key: at the starts of instructions.
KeysAtStarts == \A a \in Address : original_bytecodes[a] # Absent => a \in Starts(body)

MethodInv ==
  /\ memory \in [Address -> Byte]
  /\ original_bytecodes \in [Address -> Byte \cup {Absent}]
  /\ Instructions(body) /\ Len(Bytes(body)) = Size
  /\ Instructions(copied) /\ Len(Bytes(copied)) = Size
  /\ copy = Bytes(copied)
  /\ BodyKept
  /\ KeysAtStarts

\* The byte at an address when no breakpoint is set.
Plain(a) == Append(Bytes(body), invalid)[a]

LEMMA InvPlain ==
  ASSUME MethodInv
  PROVE  /\ Size \in Nat
         /\ \A a \in 1..Size : a \in Address /\ Plain(a) = Bytes(body)[a] /\ Plain(a) \in Byte
         /\ Size + 1 \in Address /\ Plain(Size + 1) = invalid
         /\ \A a \in Address : a \in 1..Size \/ a = Size + 1
         /\ \A a \in Starts(body) : a \in 1..Size /\ Plain(a) \in 0..201
         /\ \A a \in Address : original_bytecodes[a] = Absent => memory[a] = Plain(a)
         /\ \A a \in Address : GetOpcode(a) = Plain(a)
<1>1. Bytes(body) \in Seq(Byte) /\ Size \in Nat
  BY BodyStarts DEF MethodInv
<1>2. /\ \A a \in 1..Size : Plain(a) = Bytes(body)[a]
      /\ Plain(Size + 1) = invalid
  <2> DEFINE s == Bytes(body)
  <2>1. s \in Seq(Byte) /\ Len(s) = Size
    BY <1>1 DEF MethodInv
  <2>2. invalid \in Byte
    BY DEF invalid, Byte
  <2> HIDE DEF s
  <2>3. /\ Append(s, invalid)[Len(s) + 1] = invalid
        /\ \A i \in 1..Len(s) : Append(s, invalid)[i] = s[i]
    BY <2>1, <2>2, AppendProperties
  <2> QED
    BY <2>1, <2>3 DEF s, Plain
<1>3. \A a \in 1..Size : Bytes(body)[a] \in Byte
  <2> DEFINE s == Bytes(body)
  <2>1. s \in Seq(Byte) /\ Len(s) = Size
    BY <1>1 DEF MethodInv
  <2> HIDE DEF s
  <2>2. \A a \in 1..Size : s[a] \in Byte
    BY <2>1, ElementOfSeq
  <2> QED
    BY <2>2 DEF s
<1>4. Size + 1 \in Address /\ \A a \in 1..Size : a \in Address
  BY <1>1 DEF Address
<1>5. \A a \in Address : a \in 1..Size \/ a = Size + 1
  BY <1>1 DEF Address
<1>6. ASSUME NEW a \in Starts(body) PROVE a \in 1..Size /\ Plain(a) \in 0..201
  <2>1. PICK i \in 1..Len(body) : a = At(body, i)
    BY BodyStarts DEF MethodInv
  <2>2. a \in 1..Size /\ Bytes(body)[a] = body[i][1] /\ IsInstruction(body[i])
    BY <2>1, BodyBytes DEF MethodInv
  <2> QED
    BY <1>2, <2>2 DEF IsInstruction
<1>7. ASSUME NEW a \in Address
      PROVE  (original_bytecodes[a] = Absent => memory[a] = Plain(a)) /\ GetOpcode(a) = Plain(a)
  <2>1. \/ memory[a] = Plain(a) /\ original_bytecodes[a] = Absent
        \/ memory[a] = breakpoint /\ original_bytecodes[a] = Plain(a)
    BY DEF MethodInv, BodyKept, Plain
  <2>2. Plain(a) \in Byte
    BY <1>2, <1>3, <1>5 DEF invalid, Byte
  <2>3. Plain(a) # Absent
    BY <2>2, MethodAssumption
  <2> QED
    BY <2>1, <2>3 DEF GetOpcode
<1> QED
  BY <1>1, <1>2, <1>3, <1>4, <1>5, <1>6, <1>7

-----------------------------------------------------------------------------
(* What the walk finds *)

\* The walk goes from the start of an instruction to the start of the next.
LEMMA InvVisits ==
  ASSUME MethodInv, NEW v, Visits(v)
  PROVE  /\ v[Size + 1] = {Size + 1}
         /\ \A i \in 1..Len(body) :
              v[At(body, i)] = IF Throws(body[i][1]) THEN {At(body, i)}
                               ELSE {At(body, i)} \cup v[At(body, i + 1)]
<1>1. v[Size + 1] = {Size + 1}
  BY InvPlain DEF Visits, Stop
<1>2. ASSUME NEW i \in 1..Len(body)
      PROVE  v[At(body, i)] = IF Throws(body[i][1]) THEN {At(body, i)}
                              ELSE {At(body, i)} \cup v[At(body, i + 1)]
  <2> DEFINE a == At(body, i)
             ins == body[i]
  <2>1. /\ ins \in Seq(Byte) /\ IsInstruction(ins) /\ Len(ins) \in Nat /\ Len(ins) >= 1
        /\ a \in 1..Size /\ Bytes(body)[a] = ins[1]
        /\ Len(ins) > 1 => a + 1 \in 1..Size /\ Bytes(body)[a + 1] = ins[2]
        /\ At(body, i + 1) = a + Len(ins)
    BY BodyBytes DEF MethodInv
  <2>2. At(body, i + 1) \in Address
    <3>1. /\ Len(body) \in Nat /\ At(body, Len(body) + 1) = Size + 1
          /\ \A j \in 1..Len(body) + 1 : At(body, j) \in Nat
          /\ \A j, k \in 1..Len(body) + 1 : j < k => At(body, j) < At(body, k)
          /\ Size \in Nat
      BY BodyStarts, InvPlain DEF MethodInv
    <3> DEFINE m == i + 1
               n == Len(body) + 1
    <3>2. m \in 1..n /\ n \in 1..n /\ (m = n \/ m < n)
      BY <3>1
    <3> HIDE DEF m, n
    <3>3. At(body, m) <= Size + 1 /\ At(body, m) \in Nat
      BY <3>1, <3>2 DEF n
    <3>4. At(body, m) > 1
      BY <2>1, <3>1, <3>3 DEF m
    <3> QED
      BY <3>1, <3>3, <3>4 DEF m, Address
  <2>3. a \in Address /\ GetOpcode(a) = ins[1]
    BY <2>1, InvPlain
  <2>4. ins[1] \in 0..201 /\ ins[1] # invalid
    <3> HIDE DEF ins
    <3>1. ins[1] \in 0..201
      BY <2>1 DEF IsInstruction
    <3>2. \A x \in 0..201 : x # invalid
      BY DEF invalid
    <3> QED
      BY <3>1, <3>2
  <2>5. ins[1] = wide => memory[a + 1] = ins[2]
    <3> SUFFICES ASSUME ins[1] = wide PROVE memory[a + 1] = ins[2]
      OBVIOUS
    <3>1. Len(ins) > 1
      BY <2>1 DEF IsInstruction
    <3>2. a + 1 \in 1..Size /\ a + 1 \in Address /\ Plain(a + 1) = ins[2]
      BY <2>1, <3>1, InvPlain
    <3>3. a + 1 \notin Starts(body)
      <4> SUFFICES ASSUME NEW k \in 1..Len(body), a + 1 = At(body, k) PROVE FALSE
        BY BodyStarts DEF MethodInv
      <4>1. /\ Len(body) \in Nat
            /\ \A j, l \in 1..Len(body) + 1 : j < l => At(body, j) < At(body, l)
            /\ \A j \in 1..Len(body) + 1 : At(body, j) \in Nat
        BY BodyStarts DEF MethodInv
      <4> DEFINE m == i + 1
      <4>2. i \in 1..Len(body) + 1 /\ k \in 1..Len(body) + 1 /\ m \in 1..Len(body) + 1
        BY <4>1
      <4>3. k < i \/ k = i \/ k = m \/ m < k
        BY <4>1
      <4>4. At(body, m) = a + Len(ins)
        BY <2>1
      <4> HIDE DEF m, ins
      <4>5. At(body, k) < At(body, i) \/ At(body, k) = At(body, i) \/ At(body, k) >= At(body, m)
        BY <4>1, <4>2, <4>3
      <4> QED
        BY <2>1, <3>1, <4>1, <4>2, <4>4, <4>5
    <3>4. original_bytecodes[a + 1] = Absent
      BY <3>2, <3>3 DEF MethodInv, KeysAtStarts
    <3> QED
      BY <3>2, <3>4, InvPlain
  <2> HIDE DEF ins
  <2>6. CASE Throws(ins[1])
    <3>1. Stop(a)
      BY <2>3, <2>6 DEF Stop
    <3>2. v[a] = {a}
      BY <2>3, <3>1 DEF Visits
    <3> QED
      BY <2>6, <3>2 DEF ins
  <2>7. CASE ~Throws(ins[1])
    <3>1. ~Stop(a)
      BY <2>3, <2>4, <2>7 DEF Stop
    <3>2. GetLength(ins[1], memory[a + 1]) = Len(ins)
      BY <2>1, <2>5, <2>7, InstructionLength
    <3>3. Following(a) = At(body, i + 1)
      BY <2>1, <2>3, <3>2 DEF Following
    <3>4. v[a] = {a} \cup v[At(body, i + 1)]
      BY <2>2, <2>3, <3>1, <3>3 DEF Visits
    <3> QED
      BY <2>7, <3>4 DEF ins
  <2> QED
    BY <2>6, <2>7
<1> QED
  BY <1>1, <1>2

LEMMA InvWalk ==
  ASSUME MethodInv
  PROVE  WalkFindsInstructions /\ (~WalkThrows => GetBytecodeSize = Size)
<1> DEFINE n == Len(body)
           st == [i \in 1..n + 1 |-> At(body, i)]
           sw == {i \in 1..n : Throws(body[i][1])}
           switches == {a \in Starts(body) : Throws(Bytes(body)[a])}
<1>1. /\ n \in Nat /\ Size \in Nat
      /\ Starts(body) = {At(body, i) : i \in 1..n}
      /\ At(body, 1) = 1 /\ At(body, n + 1) = Size + 1
      /\ \A i \in 1..n + 1 : At(body, i) \in Nat
      /\ \A i, j \in 1..n + 1 : i < j => At(body, i) < At(body, j)
  BY BodyStarts, InvPlain DEF MethodInv
<1>2. PICK v : Visits(v) /\ Walk = v[1]
  BY WalkVisits
<1>3. /\ v[Size + 1] = {Size + 1}
      /\ \A i \in 1..n :
           v[At(body, i)] = IF i \in sw THEN {At(body, i)}
                            ELSE {At(body, i)} \cup v[At(body, i + 1)]
  BY <1>2, InvVisits
<1>4. \A i \in 1..n : At(body, i) \in 1..Size /\ Bytes(body)[At(body, i)] = body[i][1]
  BY BodyBytes DEF MethodInv
<1>5. switches = {At(body, k) : k \in sw}
  BY <1>1, <1>4
<1>6. sw \in SUBSET (1..n)
  OBVIOUS
<1> HIDE DEF sw, switches, n
<1>7. /\ v[st[1]] = {st[i] : i \in {j \in 1..n + 1 : \A k \in sw : j <= k}}
      /\ st[n + 1] \in v[st[1]] \/ \E k \in sw : st[k] \in v[st[1]]
  <2>1. \A i \in 1..n + 1 : st[i] \in Nat
    BY <1>1
  <2>2. \A i, j \in 1..n + 1 : i < j => st[i] < st[j]
    BY <1>1
  <2>3. st[n + 1] = Size + 1
    BY <1>1
  <2>4. \A i \in 1..n : st[i] = At(body, i) /\ st[i + 1] = At(body, i + 1)
    BY <1>1
  <2> HIDE DEF st
  <2>5. v[st[n + 1]] = {st[n + 1]}
    BY <1>3, <2>3
  <2>6. \A i \in 1..n : v[st[i]] = IF i \in sw THEN {st[i]} ELSE {st[i]} \cup v[st[i + 1]]
    BY <1>3, <2>4
  <2> QED
    BY <1>1, <1>6, <2>1, <2>2, <2>5, <2>6, WalkStops
<1>8. st[1] = 1 /\ st[n + 1] = Size + 1 /\ \A i \in 1..n + 1 : st[i] = At(body, i)
  BY <1>1
<1> HIDE DEF st
<1>9. Walk = {At(body, i) : i \in {j \in 1..n + 1 : \A k \in sw : j <= k}}
  BY <1>2, <1>7, <1>8
<1>10. Starts(body) \cup {Size + 1} = {At(body, i) : i \in 1..n + 1}
  <2>1. 1..n + 1 = (1..n) \cup {n + 1}
    BY <1>1
  <2> QED
    BY <1>1, <2>1
<1>11. WalkFindsInstructions
  <2>1. ASSUME NEW j \in 1..n + 1, NEW k \in sw PROVE j <= k <=> At(body, j) <= At(body, k)
    <3>1. k \in 1..n + 1 /\ (j < k \/ j = k \/ k < j)
      BY <1>1, <1>6
    <3> QED
      BY <1>1, <1>6, <3>1
  <2>2. Walk = {a \in Starts(body) \cup {Size + 1} : \A s \in switches : a <= s}
    <3>1. \A j \in 1..n + 1 : (\A k \in sw : j <= k) <=> (\A s \in switches : At(body, j) <= s)
      BY <1>5, <2>1
    <3> QED
      BY <1>9, <1>10, <3>1
  <2> QED
    BY <2>2 DEF WalkFindsInstructions, switches
<1>12. ASSUME ~WalkThrows PROVE GetBytecodeSize = Size
  <2>1. Walk \subseteq 1..Size + 1
    <3>1. Starts(body) \cup {Size + 1} \subseteq 1..Size + 1
      BY <1>1, <1>4
    <3> QED
      BY <1>9, <1>10, <3>1
  <2>2. ASSUME NEW k \in sw PROVE At(body, k) \notin Walk
    <3>1. k \in 1..n /\ Throws(body[k][1])
      BY <2>2 DEF sw
    <3>2. At(body, k) \in Address /\ GetOpcode(At(body, k)) = body[k][1]
      BY <1>4, <3>1, InvPlain
    <3> QED
      BY <1>12, <3>1, <3>2 DEF WalkThrows
  <2>3. Size + 1 \in Walk
    <3>1. \A k \in sw : st[k] = At(body, k)
      BY <1>1, <1>6, <1>8
    <3> QED
      BY <1>2, <1>7, <1>8, <2>2, <3>1
  <2> DEFINE IsLast(a) == a \in Walk /\ \A b \in Walk : b <= a
  <2>4. IsLast(Size + 1)
    BY <2>1, <2>3
  <2>5. ASSUME NEW a, IsLast(a) PROVE a = Size + 1
    <3>1. Size \in Nat /\ a \in 1..Size + 1 /\ Size + 1 <= a
      BY <1>1, <2>1, <2>3, <2>5
    <3> QED
      BY <3>1
  <2> DEFINE c == CHOOSE a \in Walk : \A b \in Walk : b <= a
  <2>6. c = Size + 1
    BY <2>4, <2>5
  <2>7. GetBytecodeSize = c - 1
    BY DEF GetBytecodeSize
  <2> HIDE DEF c
  <2> QED
    BY <1>1, <2>6, <2>7
<1> QED
  BY <1>11, <1>12

-----------------------------------------------------------------------------
(* The steps *)

LEMMA InitInv == Init => MethodInv
<1> SUFFICES ASSUME Init PROVE MethodInv
  OBVIOUS
<1>1. Instructions(Loaded) /\ Len(Bytes(Loaded)) = Size
  BY MethodAssumption
<1>2. Bytes(Loaded) \in Seq(Byte) /\ Size \in Nat
  BY <1>1, BodyStarts
<1>3. original_bytecodes = [a \in Address |-> Absent]
  BY DEF Init
<1>4. memory \in [Address -> Byte]
  <2> DEFINE s == Bytes(Loaded)
             t == Append(s, invalid)
  <2>1. s \in Seq(Byte) /\ Len(s) = Size /\ invalid \in Byte
    BY <1>1, <1>2 DEF invalid, Byte
  <2> HIDE DEF s
  <2>2. t \in Seq(Byte) /\ Len(t) = Size + 1
    BY <2>1, AppendProperties
  <2> HIDE DEF t
  <2>3. t \in [1..Size + 1 -> Byte]
    BY <2>2, LenProperties
  <2>4. memory = t
    BY DEF Init, t, s
  <2> QED
    BY <2>3, <2>4 DEF Address
<1>5. BodyKept
  BY <1>3 DEF Init, BodyKept
<1>6. KeysAtStarts
  BY <1>3 DEF KeysAtStarts
<1>7. body = Loaded /\ copied = Loaded /\ copy = Bytes(Loaded)
  BY DEF Init
<1> QED
  BY <1>1, <1>3, <1>4, <1>5, <1>6, <1>7 DEF MethodInv

LEMMA SetBreakpointInv ==
  ASSUME MethodInv, NEW a \in Starts(body), memory[a] # breakpoint, SetBreakpoint(a)
  PROVE  MethodInv'
<1>1. a \in 1..Size /\ a \in Address
  BY InvPlain
<1>2. memory[a] = Plain(a) /\ memory[a] \in Byte
  BY <1>1 DEF MethodInv, BodyKept, Plain
<1>3. /\ memory' \in [Address -> Byte]
      /\ original_bytecodes' \in [Address -> Byte \cup {Absent}]
      /\ memory'[a] = breakpoint /\ original_bytecodes'[a] = Plain(a)
      /\ \A b \in Address :
           b # a => memory'[b] = memory[b] /\ original_bytecodes'[b] = original_bytecodes[b]
  BY <1>1, <1>2 DEF MethodInv, SetBreakpoint, breakpoint, Byte
<1>4. UNCHANGED <<copy, body, copied>>
  BY DEF SetBreakpoint
<1>5. BodyKept'
  <2> SUFFICES ASSUME NEW b \in Address
               PROVE  \/ memory'[b] = Plain(b) /\ original_bytecodes'[b] = Absent
                      \/ memory'[b] = breakpoint /\ original_bytecodes'[b] = Plain(b)
    BY <1>4 DEF BodyKept, Plain, Address
  <2>1. \/ memory[b] = Plain(b) /\ original_bytecodes[b] = Absent
        \/ memory[b] = breakpoint /\ original_bytecodes[b] = Plain(b)
    BY DEF MethodInv, BodyKept, Plain
  <2> QED
    BY <1>3, <2>1
<1>6. KeysAtStarts'
  <2> SUFFICES ASSUME NEW b \in Address, original_bytecodes'[b] # Absent
               PROVE  b \in Starts(body)
    BY <1>4 DEF KeysAtStarts, Address, Starts
  <2> QED
    BY <1>3 DEF MethodInv, KeysAtStarts
<1> QED
  BY <1>3, <1>4, <1>5, <1>6 DEF MethodInv, Instructions, Bytes, Address

LEMMA RemoveBreakpointInv ==
  ASSUME MethodInv, NEW a \in Starts(body), memory[a] = breakpoint, RemoveBreakpoint(a)
  PROVE  MethodInv'
<1>1. a \in 1..Size /\ a \in Address /\ Plain(a) \in 0..201
  BY InvPlain
<1>2. original_bytecodes[a] = Plain(a)
  <2>1. \/ memory[a] = Plain(a) /\ original_bytecodes[a] = Absent
        \/ memory[a] = breakpoint /\ original_bytecodes[a] = Plain(a)
    BY <1>1 DEF MethodInv, BodyKept, Plain
  <2>2. \A x \in 0..201 : x # breakpoint
    BY DEF breakpoint
  <2> QED
    BY <1>1, <2>1, <2>2
<1>3. Plain(a) \in Byte /\ Plain(a) # Absent
  <2>1. \A x \in 0..201 : x \in Byte
    BY DEF Byte
  <2> QED
    BY <1>1, <2>1, MethodAssumption
<1>4. /\ memory' \in [Address -> Byte]
      /\ original_bytecodes' \in [Address -> Byte \cup {Absent}]
      /\ memory'[a] = Plain(a) /\ original_bytecodes'[a] = Absent
      /\ \A b \in Address :
           b # a => memory'[b] = memory[b] /\ original_bytecodes'[b] = original_bytecodes[b]
  BY <1>1, <1>2, <1>3 DEF MethodInv, RemoveBreakpoint
<1>5. UNCHANGED <<copy, body, copied>>
  BY DEF RemoveBreakpoint
<1>6. BodyKept'
  <2> SUFFICES ASSUME NEW b \in Address
               PROVE  \/ memory'[b] = Plain(b) /\ original_bytecodes'[b] = Absent
                      \/ memory'[b] = breakpoint /\ original_bytecodes'[b] = Plain(b)
    BY <1>5 DEF BodyKept, Plain, Address
  <2>1. \/ memory[b] = Plain(b) /\ original_bytecodes[b] = Absent
        \/ memory[b] = breakpoint /\ original_bytecodes[b] = Plain(b)
    BY DEF MethodInv, BodyKept, Plain
  <2> QED
    BY <1>4, <2>1
<1>7. KeysAtStarts'
  <2> SUFFICES ASSUME NEW b \in Address, original_bytecodes'[b] # Absent
               PROVE  b \in Starts(body)
    BY <1>5 DEF KeysAtStarts, Address, Starts
  <2> QED
    BY <1>4 DEF MethodInv, KeysAtStarts
<1> QED
  BY <1>4, <1>5, <1>6, <1>7 DEF MethodInv, Instructions, Bytes, Address

\* Without breakpoints the memory is the installed body.
LEMMA GetBytecodeInv ==
  ASSUME MethodInv, \A a \in Address : original_bytecodes[a] = Absent, GetBytecode
  PROVE  MethodInv'
<1>1. GetBytecodeSize = Size
  BY InvWalk DEF GetBytecode
<1>2. UNCHANGED <<memory, original_bytecodes, body>> /\ copied' = body
  BY DEF GetBytecode
<1>3. copy' = [a \in 1..Size |-> memory[a]]
  BY <1>1 DEF GetBytecode
<1>4. copy' = Bytes(body)
  <2> DEFINE s == Bytes(body)
  <2>1. s \in [1..Size -> Byte]
    <3>1. s \in Seq(Byte) /\ Len(s) = Size
      BY BodyStarts DEF MethodInv
    <3> HIDE DEF s
    <3> QED
      BY <3>1, LenProperties
  <2>2. \A a \in 1..Size : memory[a] = s[a]
    BY InvPlain
  <2> HIDE DEF s
  <2>3. copy' = s
    BY <1>3, <2>1, <2>2
  <2> QED
    BY <2>3 DEF s
<1> QED
  BY <1>2, <1>4 DEF MethodInv, BodyKept, KeysAtStarts, Instructions, Bytes, Address, Starts

\* set_bytecode leaves the body it is given, with nops behind it, and the 0xFF.
LEMMA SetBytecodeInv ==
  ASSUME MethodInv, \A a \in Address : original_bytecodes[a] = Absent,
         NEW b, Instructions(b), SetBytecode(Bytes(b), b)
  PROVE  MethodInv'
<1> DEFINE s == Bytes(b)
           t == Bytes(Padded(b))
<1>1. GetBytecodeSize = Size /\ Len(s) <= Size
  BY InvWalk DEF SetBytecode, Fits
<1>2. /\ Size \in Nat /\ Size + 1 \in Address /\ memory[Size + 1] = invalid
      /\ \A a \in Address : a \in 1..Size \/ a = Size + 1
      /\ \A a \in 1..Size : a \in Address
  BY InvPlain
<1>3. s \in Seq(Byte) /\ Len(s) \in Nat /\ DOMAIN s = 1..Len(s)
  <2>1. s \in Seq(Byte)
    BY BodyStarts
  <2> HIDE DEF s
  <2> QED
    BY <2>1, LenProperties
<1>4. /\ Instructions(Padded(b)) /\ Len(t) = Size
      /\ \A a \in 1..Size : t[a] = IF a <= Len(s) THEN s[a] ELSE nop
  BY <1>1, <1>2, PaddedBody
<1>5. t \in Seq(Byte)
  BY <1>4, BodyStarts
<1>6. /\ UNCHANGED <<original_bytecodes, copy, copied>> /\ body' = Padded(b)
      /\ memory' = [a \in Address \cup DOMAIN s |->
                      IF a \in DOMAIN s THEN s[a] ELSE IF a <= Size THEN nop ELSE memory[a]]
  BY <1>1 DEF SetBytecode, Written
<1> HIDE DEF s, t
<1>7. Address \cup DOMAIN s = Address
  BY <1>1, <1>2, <1>3
<1>8. \A a \in 1..Size : memory'[a] = t[a]
  <2> SUFFICES ASSUME NEW a \in 1..Size PROVE memory'[a] = t[a]
    OBVIOUS
  <2>1. a \in Address /\ a <= Size
    BY <1>2
  <2>2. memory'[a] = IF a \in DOMAIN s THEN s[a] ELSE nop
    BY <1>6, <1>7, <2>1
  <2>3. a \in DOMAIN s <=> a <= Len(s)
    BY <1>2, <1>3
  <2> QED
    BY <1>4, <2>2, <2>3
<1>9. memory'[Size + 1] = invalid
  <2>1. Size + 1 \notin DOMAIN s /\ ~(Size + 1 <= Size)
    BY <1>1, <1>2, <1>3
  <2> QED
    BY <1>2, <1>6, <1>7, <2>1
<1>10. /\ \A a \in 1..Size : Append(t, invalid)[a] = t[a]
       /\ Append(t, invalid)[Size + 1] = invalid
  <2>1. invalid \in Byte
    BY DEF invalid, Byte
  <2> QED
    BY <1>4, <1>5, <2>1, AppendProperties
<1>11. \A a \in Address : memory'[a] = Append(t, invalid)[a]
  BY <1>2, <1>8, <1>9, <1>10
<1>12. memory' \in [Address -> Byte]
  <2>1. \A a \in 1..Size : t[a] \in Byte
    BY <1>4, <1>5, ElementOfSeq
  <2>2. \A a \in Address : memory'[a] \in Byte
    <3>1. invalid \in Byte
      BY DEF invalid, Byte
    <3> QED
      BY <1>2, <1>8, <1>9, <2>1, <3>1
  <2>3. memory' = [a \in Address |-> memory'[a]]
    BY <1>6, <1>7
  <2> QED
    BY <2>2, <2>3
<1>13. BodyKept'
  <2> SUFFICES ASSUME NEW a \in Address
               PROVE  memory'[a] = Append(t, invalid)[a] /\ original_bytecodes'[a] = Absent
    BY <1>6 DEF BodyKept, Address, Bytes, t
  <2> QED
    BY <1>6, <1>11
<1>14. KeysAtStarts'
  BY <1>6 DEF KeysAtStarts, Address
<1>15. Instructions(body)' /\ (Len(Bytes(body)) = Size)'
  BY <1>4, <1>6 DEF Instructions, Bytes, t
<1> QED
  BY <1>6, <1>12, <1>13, <1>14, <1>15 DEF MethodInv, Instructions, Bytes, Address

LEMMA StepInv == MethodInv /\ [Next]_vars => MethodInv'
<1> SUFFICES ASSUME MethodInv, [Next]_vars PROVE MethodInv'
  OBVIOUS
<1>1. ASSUME NEW a \in Starts(body), memory[a] # breakpoint, SetBreakpoint(a) PROVE MethodInv'
  BY <1>1, SetBreakpointInv
<1>2. ASSUME NEW a \in Starts(body), memory[a] = breakpoint, RemoveBreakpoint(a)
      PROVE  MethodInv'
  BY <1>2, RemoveBreakpointInv
<1>3. ASSUME \A a \in Address : original_bytecodes[a] = Absent, GetBytecode PROVE MethodInv'
  BY <1>3, GetBytecodeInv
<1>4. ASSUME \A a \in Address : original_bytecodes[a] = Absent, SetBytecode(copy, copied)
      PROVE  MethodInv'
  <2>1. Instructions(copied) /\ SetBytecode(Bytes(copied), copied)
    BY <1>4 DEF MethodInv
  <2> QED
    BY <1>4, <2>1, SetBytecodeInv
<1>5. ASSUME \A a \in Address : original_bytecodes[a] = Absent,
             NEW b \in Bodies, SetBytecode(Bytes(b), b)
      PROVE  MethodInv'
  BY <1>5, SetBytecodeInv, MethodAssumption
<1>6. CASE UNCHANGED vars
  BY <1>6 DEF vars, MethodInv, BodyKept, KeysAtStarts, Instructions, Bytes, Address, Starts
<1> QED
  BY <1>1, <1>2, <1>3, <1>4, <1>5, <1>6 DEF Next

LEMMA SpecInv == Spec => []MethodInv
<1>1. Init => MethodInv
  BY InitInv
<1>2. MethodInv /\ [Next]_vars => MethodInv'
  BY StepInv
<1> QED
  BY <1>1, <1>2, PTL DEF Spec

-----------------------------------------------------------------------------
(* The theorems *)

\* The bytes stay bytes, and set_bytecode and get_bytecode keep the method's length.
THEOREM MethodTypeCorrect == Spec => []MethodTypeOK
<1>1. MethodInv => MethodTypeOK
  <2> SUFFICES ASSUME MethodInv PROVE MethodTypeOK
    OBVIOUS
  <2>1. Bytes(copied) \in Seq(Byte)
    BY BodyStarts DEF MethodInv
  <2> QED
    BY <2>1 DEF MethodInv, MethodTypeOK, Instructions
<1> QED
  BY <1>1, SpecInv, PTL

\* get_bytecode_size walks the instructions up to the first switch or to the end,
\* whatever breakpoints are set and whatever the operands look like.
THEOREM WalkCorrect == Spec => []WalkFindsInstructions
<1>1. MethodInv => WalkFindsInstructions
  BY InvWalk
<1> QED
  BY <1>1, SpecInv, PTL

\* The code is the installed body with its breakpoints and the registry holds what
\* remove_breakpoint will write back.
THEOREM BodyCorrect == Spec => []BodyKept
<1>1. MethodInv => BodyKept
  BY DEF MethodInv
<1> QED
  BY <1>1, SpecInv, PTL

\* With an index that is not negative get_operand reaches the words its instruction
\* pops and none below them.
THEOREM OperandsCorrect == Spec => []OperandsReached
<1>1. ASSUME MethodInv, NEW a \in Starts(body), Bytes(body)[a] \notin Variable
      PROVE  {GetOperand(TRUE, a, i) : i \in 0..4} \ {Absent} = 0..Pops(Bytes(body)[a]) - 1
  <2> DEFINE opcode == Bytes(body)[a]
             p == Pops(opcode)
  <2>1. opcode \in 0..201 /\ GetOpcode(a) = opcode
    BY <1>1, InvPlain
  <2>2. GetStackConsumption(a) = p /\ p \in 0..4
    <3>1. opcode \in 0..201 \ Variable
      BY <1>1, <2>1
    <3> HIDE DEF opcode
    <3>2. bytecode_operand_consumption[opcode + 1] = p /\ p \in 0..4
      BY <3>1, PopsTable
    <3>3. GetStackConsumption(a) = bytecode_operand_consumption[opcode + 1]
      BY <2>1 DEF GetStackConsumption
    <3> QED
      BY <3>2, <3>3
  <2> HIDE DEF p
  <2>3. \A i \in 0..4 : i # Absent
    <3>1. \A i \in 0..4 : i \in Byte
      BY DEF Byte
    <3> QED
      BY <3>1, MethodAssumption
  <2>4. \A i \in 0..4 : GetOperand(TRUE, a, i) = IF i >= p THEN Absent ELSE i
    BY <2>2 DEF GetOperand
  <2>5. {GetOperand(TRUE, a, i) : i \in 0..4} \ {Absent} = {i \in 0..4 : ~(i >= p)}
    BY <2>3, <2>4
  <2>6. {i \in 0..4 : ~(i >= p)} = 0..p - 1
    BY <2>2
  <2> QED
    BY <2>5, <2>6 DEF p
<1>2. MethodInv => OperandsReached
  BY <1>1 DEF OperandsReached
<1> QED
  BY <1>2, SpecInv, PTL
=============================================================================
