----------------------------- MODULE FlattenProofs -----------------------------
(***************************************************************************)
(* What FlattenSeq computes, for every sequence of sequences: the bytes of  *)
(* a method's body are such a sequence.  Induction over the length is done  *)
(* with sets of naturals: one that lacks a number lacks a least one.        *)
(***************************************************************************)
EXTENDS Integers, SequencesExt, SequenceTheorems, WellFoundedInduction, TLAPS

-----------------------------------------------------------------------------
(* Induction *)

\* A set that holds 0 and each successor holds every natural number.
LEMMA SetInduction ==
  ASSUME NEW S, 0 \in S, \A n \in Nat : n \in S => n + 1 \in S
  PROVE  \A n \in Nat : n \in S
<1> SUFFICES ASSUME Nat \ S # {} PROVE FALSE
  OBVIOUS
<1> DEFINE R == OpToRel(<, Nat)
<1>1. IsWellFoundedOn(R, Nat)
  BY NatLessThanWellFounded
<1>2. \A x, y \in Nat : y < x => <<y, x>> \in R
  BY DEF OpToRel
<1> HIDE DEF R
<1>3. PICK x \in Nat \ S : \A y \in Nat \ S : ~(<<y, x>> \in R)
  BY <1>1, WFMin
<1>4. x # 0 /\ x - 1 \in Nat /\ x - 1 + 1 = x /\ x - 1 < x
  BY <1>3
<1>5. x - 1 \in S
  BY <1>2, <1>3, <1>4
<1> QED
  BY <1>3, <1>4, <1>5

-----------------------------------------------------------------------------
(* The function that FlattenSeq defines recursively *)

\* What it says of the places up to k.
Flattens(f, s, k) ==
  \A i \in 1..k : f[i] = IF i = 1 THEN s[i] ELSE f[i - 1] \o s[i]

\* There is one.
LEMMA FlattenExists ==
  ASSUME NEW T, NEW s \in Seq(Seq(T)), Len(s) # 0
  PROVE  \E f \in [1..Len(s) -> Seq(T)] : Flattens(f, s, Len(s))
<1> DEFINE n == Len(s)
           S == {k \in Nat : k <= n => \E f \in [1..n -> Seq(T)] : Flattens(f, s, k)}
<1>1. n \in Nat /\ \A i \in 1..n : s[i] \in Seq(T)
  BY LenProperties, ElementOfSeq
<1>2. 0 \in S
  <2>1. [i \in 1..n |-> <<>>] \in [1..n -> Seq(T)]
    BY EmptySeq
  <2>2. Flattens([i \in 1..n |-> <<>>], s, 0)
    BY DEF Flattens
  <2> QED
    BY <2>1, <2>2
<1>3. ASSUME NEW k \in Nat, k \in S, k + 1 <= n
      PROVE  \E f \in [1..n -> Seq(T)] : Flattens(f, s, k + 1)
  <2>1. PICK f \in [1..n -> Seq(T)] : Flattens(f, s, k)
    BY <1>1, <1>3
  <2> DEFINE e == IF k = 0 THEN s[1] ELSE f[k] \o s[k + 1]
             g == [f EXCEPT ![k + 1] = e]
  <2>2. e \in Seq(T)
    <3>1. k = 0 => s[1] \in Seq(T)
      BY <1>1, <1>3
    <3>2. k # 0 => f[k] \in Seq(T) /\ s[k + 1] \in Seq(T)
      <4>1. k + 1 \in 1..n /\ (k # 0 => k \in 1..n)
        BY <1>1, <1>3
      <4> HIDE DEF n
      <4> QED
        BY <1>1, <2>1, <4>1
    <3> QED
      BY <3>1, <3>2, ConcatProperties
  <2> HIDE DEF e, n
  <2>3. g \in [1..n -> Seq(T)] /\ g[k + 1] = e /\ \A i \in 1..n : i # k + 1 => g[i] = f[i]
    BY <1>1, <1>3, <2>1, <2>2
  <2> HIDE DEF g
  <2>4. ASSUME NEW i \in 1..k + 1
        PROVE  g[i] = IF i = 1 THEN s[i] ELSE g[i - 1] \o s[i]
    <3>1. CASE i = k + 1
      <4>1. k # 0 => g[k] = f[k]
        BY <1>1, <1>3, <2>3
      <4> QED
        BY <1>3, <2>3, <3>1, <4>1 DEF e
    <3>2. CASE i # k + 1
      <4>1. i \in 1..k /\ i \in 1..n /\ (i # 1 => i - 1 \in 1..n /\ i - 1 # k + 1)
        BY <1>1, <1>3, <3>2
      <4> QED
        BY <2>1, <2>3, <3>2, <4>1 DEF Flattens
    <3> QED
      BY <3>1, <3>2
  <2> QED
    BY <2>3, <2>4 DEF Flattens
<1>4. \A k \in Nat : k \in S => k + 1 \in S
  BY <1>3
<1>5. n \in S
  <2> HIDE DEF S
  <2> QED
    BY <1>1, <1>2, <1>4, SetInduction
<1> QED
  BY <1>1, <1>5

Agree(f, g, k) == \A i \in 1..k : f[i] = g[i]

\* And no other, also if it is looked at for a longer sequence.
LEMMA FlattenUnique ==
  ASSUME NEW s, NEW t, NEW k \in Nat, NEW f, NEW g, Flattens(f, s, k), Flattens(g, t, k),
         Agree(s, t, k)
  PROVE  Agree(f, g, k)
<1> DEFINE S == {i \in Nat : i \in 1..k => f[i] = g[i]}
<1>1. 0 \in S
  OBVIOUS
<1>2. ASSUME NEW i \in Nat, i \in S PROVE i + 1 \in S
  <2> SUFFICES ASSUME i + 1 \in 1..k PROVE f[i + 1] = g[i + 1]
    OBVIOUS
  <2> DEFINE j == i + 1
  <2>1. j \in 1..k /\ (j # 1 => j - 1 = i /\ i \in 1..k)
    OBVIOUS
  <2>2. j # 1 => f[j - 1] = g[j - 1]
    BY <1>2, <2>1
  <2> HIDE DEF j
  <2>3. f[j] = g[j]
    BY <2>1, <2>2 DEF Flattens, Agree
  <2> QED
    BY <2>3 DEF j
<1> HIDE DEF S
<1>3. \A i \in Nat : i \in S
  BY <1>1, <1>2, SetInduction
<1> QED
  BY <1>3 DEF S, Agree

\* FlattenSeq returns its last value.
LEMMA FlattenValue ==
  ASSUME NEW T, NEW s \in Seq(Seq(T)), Len(s) # 0
  PROVE  \E f \in [1..Len(s) -> Seq(T)] : Flattens(f, s, Len(s)) /\ FlattenSeq(s) = f[Len(s)]
<1> DEFINE n == Len(s)
           Is(f) == f = [i \in 1..n |-> IF i = 1 THEN s[i] ELSE f[i - 1] \o s[i]]
           c == CHOOSE f : Is(f)
<1>1. PICK f \in [1..n -> Seq(T)] : Flattens(f, s, n)
  BY FlattenExists
<1>2. Is(f)
  BY <1>1 DEF Flattens
<1>3. Is(c)
  BY <1>2
<1>4. FlattenSeq(s) = c[n]
  BY DEF FlattenSeq
<1> HIDE DEF c
<1>5. Flattens(c, s, n)
  BY <1>3 DEF Flattens
<1>6. n \in Nat /\ n \in 1..n
  BY LenProperties
<1>7. \A i \in 1..n : c[i] = f[i]
  <2>1. Agree(s, s, n) /\ n \in Nat
    BY <1>6 DEF Agree
  <2> HIDE DEF n
  <2>2. Agree(c, f, n)
    BY <1>1, <1>5, <2>1, FlattenUnique
  <2> QED
    BY <2>2 DEF Agree
<1> QED
  BY <1>1, <1>4, <1>6, <1>7

-----------------------------------------------------------------------------
(* What it computes *)

LEMMA FlattenEmpty == FlattenSeq(<<>>) = <<>>
BY EmptySeq DEF FlattenSeq

LEMMA FlattenType ==
  ASSUME NEW T, NEW s \in Seq(Seq(T))
  PROVE  FlattenSeq(s) \in Seq(T)
<1>1. CASE Len(s) = 0
  BY <1>1, EmptySeq, FlattenEmpty
<1>2. CASE Len(s) # 0
  <2>1. PICK f \in [1..Len(s) -> Seq(T)] : FlattenSeq(s) = f[Len(s)]
    BY <1>2, FlattenValue
  <2>2. Len(s) \in 1..Len(s)
    BY <1>2, LenProperties
  <2> QED
    BY <2>1, <2>2
<1> QED
  BY <1>1, <1>2

\* The last sequence comes last.
LEMMA FlattenAppend ==
  ASSUME NEW T, NEW s \in Seq(Seq(T)), NEW e \in Seq(T)
  PROVE  FlattenSeq(Append(s, e)) = FlattenSeq(s) \o e
<1> DEFINE t == Append(s, e)
           n == Len(s)
<1>1. /\ t \in Seq(Seq(T)) /\ Len(t) = n + 1 /\ n \in Nat /\ t[n + 1] = e
      /\ \A i \in 1..n : t[i] = s[i]
  BY AppendProperties, LenProperties
<1> HIDE DEF t
<1>2. PICK g : Flattens(g, t, n + 1) /\ FlattenSeq(t) = g[n + 1]
  <2>1. Len(t) # 0
    BY <1>1
  <2>2. \E g \in [1..Len(t) -> Seq(T)] : Flattens(g, t, Len(t)) /\ FlattenSeq(t) = g[Len(t)]
    BY <1>1, <2>1, FlattenValue
  <2> QED
    BY <1>1, <2>2
<1>3. CASE n = 0
  <2>1. s = <<>> /\ FlattenSeq(s) = <<>>
    BY <1>3, EmptySeq, FlattenEmpty
  <2>2. g[1] = e
    BY <1>1, <1>2, <1>3 DEF Flattens
  <2>3. FlattenSeq(t) = e
    BY <1>2, <1>3, <2>2
  <2> QED
    BY <2>1, <2>3, ConcatEmptySeq DEF t
<1>4. CASE n # 0
  <2>1. PICK f : Flattens(f, s, n) /\ FlattenSeq(s) = f[n]
    BY <1>4, FlattenValue
  <2>2. Flattens(g, t, n) /\ g[n + 1] = g[n] \o e
    <3> HIDE DEF n
    <3>1. \A i \in 1..n + 1 : g[i] = IF i = 1 THEN t[i] ELSE g[i - 1] \o t[i]
      BY <1>2 DEF Flattens
    <3>2. n + 1 \in 1..n + 1 /\ n + 1 # 1 /\ n + 1 - 1 = n /\ \A i \in 1..n : i \in 1..n + 1
      BY <1>1, <1>4
    <3>3. g[n + 1] = g[n] \o e
      <4> DEFINE j == n + 1
      <4>1. j \in 1..n + 1 /\ j # 1 /\ j - 1 = n /\ t[j] = e
        BY <1>1, <3>2
      <4> HIDE DEF j
      <4>2. g[j] = g[n] \o e
        BY <3>1, <4>1
      <4> QED
        BY <4>2 DEF j
    <3>4. Flattens(g, t, n)
      BY <3>1, <3>2 DEF Flattens
    <3> QED
      BY <3>3, <3>4
  <2>3. \A i \in 1..n : f[i] = g[i]
    <3>1. n \in Nat /\ Flattens(f, s, n) /\ Flattens(g, t, n) /\ Agree(s, t, n)
      BY <1>1, <2>1, <2>2 DEF Agree
    <3> HIDE DEF n
    <3>2. Agree(f, g, n)
      BY <3>1, FlattenUnique
    <3> QED
      BY <3>2 DEF Agree
  <2>4. g[n + 1] = g[n] \o e
    BY <2>2
  <2>5. n \in 1..n
    BY <1>1, <1>4
  <2> QED
    BY <1>2, <2>1, <2>3, <2>4, <2>5 DEF t
<1> QED
  BY <1>3, <1>4

-----------------------------------------------------------------------------
(* Where the sequences end in the flattened one *)

End(s, i) == Len(FlattenSeq(SubSeq(s, 1, i)))

\* A beginning of a sequence grows by one member at a time.
LEMMA Beginnings ==
  ASSUME NEW T, NEW s \in Seq(Seq(T))
  PROVE  /\ Len(s) \in Nat /\ SubSeq(s, 1, 0) = <<>> /\ SubSeq(s, 1, Len(s)) = s
         /\ \A i \in 0..Len(s) : SubSeq(s, 1, i) \in Seq(Seq(T))
         /\ \A i \in 1..Len(s) :
              s[i] \in Seq(T) /\ SubSeq(s, 1, i) = Append(SubSeq(s, 1, i - 1), s[i])
<1> DEFINE n == Len(s)
<1>1. n \in Nat /\ \A i \in 1..n : s[i] \in Seq(T)
  BY LenProperties, ElementOfSeq
<1>2. ASSUME NEW i \in 0..n
      PROVE  /\ SubSeq(s, 1, i) \in Seq(Seq(T)) /\ Len(SubSeq(s, 1, i)) = i
             /\ \A j \in 1..i : SubSeq(s, 1, i)[j] = s[j]
  <2>1. i \in Int /\ 1 \in Int /\ \A j \in 1..i : s[j] \in Seq(T)
    BY <1>1
  <2>2. /\ SubSeq(s, 1, i) \in Seq(Seq(T))
        /\ Len(SubSeq(s, 1, i)) = IF 1 <= i THEN i - 1 + 1 ELSE 0
        /\ \A j \in 1..i - 1 + 1 : SubSeq(s, 1, i)[j] = s[1 + j - 1]
    BY <2>1, SubSeqProperties
  <2>3. i - 1 + 1 = i /\ (~(1 <= i) => i = 0) /\ \A j \in 1..i : 1 + j - 1 = j
    BY <1>1
  <2> QED
    BY <2>2, <2>3
<1>3. SubSeq(s, 1, 0) = <<>>
  BY SubSeqEmpty
<1>4. SubSeq(s, 1, n) = s
  <2>1. n \in 0..n
    BY <1>1
  <2>2. /\ SubSeq(s, 1, n) \in Seq(Seq(T)) /\ Len(SubSeq(s, 1, n)) = n
        /\ \A j \in 1..n : SubSeq(s, 1, n)[j] = s[j]
    BY <1>2, <2>1
  <2> QED
    BY <2>2, SeqEqual
<1>5. ASSUME NEW i \in 1..n PROVE SubSeq(s, 1, i) = Append(SubSeq(s, 1, i - 1), s[i])
  <2> DEFINE a == SubSeq(s, 1, i)
             b == SubSeq(s, 1, i - 1)
             c == Append(b, s[i])
  <2>1. i \in 0..n /\ i - 1 \in 0..n /\ i - 1 + 1 = i /\ i \in Nat
    BY <1>1
  <2>2. a \in Seq(Seq(T)) /\ Len(a) = i /\ \A j \in 1..i : a[j] = s[j]
    BY <1>2, <2>1
  <2>3. b \in Seq(Seq(T)) /\ Len(b) = i - 1 /\ \A j \in 1..i - 1 : b[j] = s[j]
    BY <1>2, <2>1
  <2> HIDE DEF a, b
  <2>4. /\ c \in Seq(Seq(T)) /\ Len(c) = Len(b) + 1 /\ c[Len(b) + 1] = s[i]
        /\ \A j \in 1..Len(b) : c[j] = b[j]
    BY <1>1, <2>3, AppendProperties
  <2> HIDE DEF c
  <2>5. Len(c) = i /\ \A j \in 1..i : c[j] = s[j]
    <3>1. Len(c) = i /\ c[i] = s[i] /\ \A j \in 1..i - 1 : c[j] = s[j]
      BY <2>1, <2>3, <2>4
    <3>2. \A j \in 1..i : j = i \/ j \in 1..i - 1
      BY <2>1
    <3> QED
      BY <3>1, <3>2
  <2>6. \A j \in 1..Len(a) : a[j] = c[j]
    BY <2>2, <2>5
  <2>7. a = c
    BY <2>2, <2>4, <2>5, <2>6, SeqEqual
  <2> QED
    BY <2>7 DEF a, b, c
<1> QED
  BY <1>1, <1>2, <1>3, <1>4, <1>5

\* A sequence ends as far behind the one before it as it is long.
LEMMA Ends ==
  ASSUME NEW T, NEW s \in Seq(Seq(T))
  PROVE  /\ End(s, 0) = 0 /\ End(s, Len(s)) = Len(FlattenSeq(s))
         /\ \A i \in 0..Len(s) : End(s, i) \in Nat
         /\ \A i \in 1..Len(s) :
              /\ End(s, i) = End(s, i - 1) + Len(s[i]) /\ Len(s[i]) \in Nat
              /\ FlattenSeq(SubSeq(s, 1, i)) = FlattenSeq(SubSeq(s, 1, i - 1)) \o s[i]
<1>1. End(s, 0) = 0 /\ End(s, Len(s)) = Len(FlattenSeq(s))
  BY Beginnings, FlattenEmpty, EmptySeq DEF End
<1>2. ASSUME NEW i \in 0..Len(s) PROVE End(s, i) \in Nat
  BY Beginnings, FlattenType, LenProperties DEF End
<1>3. ASSUME NEW i \in 1..Len(s)
      PROVE  /\ End(s, i) = End(s, i - 1) + Len(s[i]) /\ Len(s[i]) \in Nat
             /\ FlattenSeq(SubSeq(s, 1, i)) = FlattenSeq(SubSeq(s, 1, i - 1)) \o s[i]
  <2> DEFINE b == SubSeq(s, 1, i - 1)
             e == s[i]
  <2>1. i - 1 \in 0..Len(s)
    BY Beginnings
  <2>2. b \in Seq(Seq(T)) /\ e \in Seq(T) /\ SubSeq(s, 1, i) = Append(b, e)
    BY <2>1, Beginnings
  <2> HIDE DEF b, e
  <2>3. FlattenSeq(SubSeq(s, 1, i)) = FlattenSeq(b) \o e /\ FlattenSeq(b) \in Seq(T)
    BY <2>2, FlattenAppend, FlattenType
  <2>4. Len(FlattenSeq(SubSeq(s, 1, i))) = Len(FlattenSeq(b)) + Len(e) /\ Len(e) \in Nat
    BY <2>2, <2>3, ConcatProperties, LenProperties
  <2> QED
    BY <2>3, <2>4 DEF b, e, End
<1> QED
  BY <1>1, <1>2, <1>3

\* So the ends are in order.
LEMMA EndsGrow ==
  ASSUME NEW T, NEW s \in Seq(Seq(T)), \A i \in 1..Len(s) : s[i] # <<>>
  PROVE  \A i, j \in 0..Len(s) : i < j => End(s, i) < End(s, j)
<1> DEFINE n == Len(s)
           S == {d \in Nat : \A i \in 0..n : i + d <= n => End(s, i) + d <= End(s, i + d)}
<1>1. n \in Nat /\ \A i \in 0..n : End(s, i) \in Nat
  BY Beginnings, Ends
<1>2. ASSUME NEW i \in 1..n PROVE End(s, i - 1) + 1 <= End(s, i)
  <2>1. /\ End(s, i) = End(s, i - 1) + Len(s[i]) /\ Len(s[i]) \in Nat
        /\ s[i] \in Seq(T) /\ s[i] # <<>>
    BY Ends, Beginnings
  <2>2. Len(s[i]) >= 1 /\ i - 1 \in 0..n
    BY <1>1, <2>1, EmptySeq
  <2> QED
    BY <1>1, <2>1, <2>2
<1> HIDE DEF n
<1>3. 0 \in S
  BY <1>1
<1>4. ASSUME NEW d \in Nat, d \in S PROVE d + 1 \in S
  <2> SUFFICES ASSUME NEW i \in 0..n, i + (d + 1) <= n
               PROVE  End(s, i) + (d + 1) <= End(s, i + (d + 1))
    OBVIOUS
  <2> DEFINE k == i + d
             m == i + (d + 1)
  <2>1. k \in 0..n /\ m \in 1..n /\ m \in 0..n /\ m - 1 = k /\ i + d <= n
    BY <1>1
  <2>2. End(s, i) + d <= End(s, k)
    BY <1>4, <2>1
  <2> HIDE DEF k, m
  <2>3. End(s, k) + 1 <= End(s, m)
    BY <1>2, <2>1
  <2>4. End(s, i) \in Nat /\ End(s, k) \in Nat /\ End(s, m) \in Nat
    BY <1>1, <2>1
  <2>5. End(s, i) + (d + 1) <= End(s, m)
    BY <2>2, <2>3, <2>4
  <2> QED
    BY <2>5 DEF m
<1> HIDE DEF S
<1>5. \A d \in Nat : d \in S
  BY <1>3, <1>4, SetInduction
<1>6. ASSUME NEW i \in 0..n, NEW j \in 0..n, i < j PROVE End(s, i) < End(s, j)
  <2>1. j - i \in Nat /\ j - i >= 1 /\ i + (j - i) = j /\ i + (j - i) <= n
    BY <1>1, <1>6
  <2>2. j - i \in S
    BY <1>5, <2>1
  <2>3. End(s, i) + (j - i) <= End(s, j)
    BY <2>1, <2>2 DEF S
  <2>4. End(s, i) \in Nat /\ End(s, j) \in Nat
    BY <1>1
  <2> QED
    BY <2>1, <2>3, <2>4
<1> QED
  BY <1>6 DEF n

\* The members of a sequence are found where the one before it ends.
LEMMA FlattenAt ==
  ASSUME NEW T, NEW s \in Seq(Seq(T)), NEW i \in 1..Len(s), NEW k \in 1..Len(s[i])
  PROVE  /\ End(s, i - 1) + k \in 1..Len(FlattenSeq(s))
         /\ FlattenSeq(s)[End(s, i - 1) + k] = s[i][k]
<1> DEFINE n == Len(s)
           F(j) == FlattenSeq(SubSeq(s, 1, j))
           x == End(s, i - 1) + k
           S == {d \in Nat : i + d <= n => x \in 1..End(s, i + d) /\ F(i + d)[x] = s[i][k]}
<1>1. /\ n \in Nat /\ i \in 0..n /\ i - 1 \in 0..n
      /\ \A j \in 0..n : End(s, j) \in Nat /\ F(j) \in Seq(T) /\ End(s, j) = Len(F(j))
  <2>1. n \in Nat
    BY Beginnings
  <2>2. i \in 0..n /\ i - 1 \in 0..n
    BY <2>1
  <2>3. ASSUME NEW j \in 0..n
        PROVE  End(s, j) \in Nat /\ F(j) \in Seq(T) /\ End(s, j) = Len(F(j))
    <3>1. SubSeq(s, 1, j) \in Seq(Seq(T)) /\ End(s, j) \in Nat
      BY Beginnings, Ends
    <3> QED
      BY <3>1, FlattenType DEF End
  <2> QED
    BY <2>1, <2>2, <2>3
<1>2. ASSUME NEW j \in 1..n
      PROVE  /\ F(j) = F(j - 1) \o s[j] /\ Len(s[j]) \in Nat /\ s[j] \in Seq(T)
             /\ End(s, j) = End(s, j - 1) + Len(s[j])
             /\ \A y \in 1..End(s, j) :
                  F(j)[y] = IF y <= End(s, j - 1) THEN F(j - 1)[y] ELSE s[j][y - End(s, j - 1)]
  <2>1. /\ F(j) = F(j - 1) \o s[j] /\ Len(s[j]) \in Nat /\ s[j] \in Seq(T)
        /\ End(s, j) = End(s, j - 1) + Len(s[j])
    BY Ends, Beginnings
  <2>2. j - 1 \in 0..n
    BY <1>1
  <2>3. F(j - 1) \in Seq(T) /\ Len(F(j - 1)) = End(s, j - 1)
    BY <1>1, <2>2
  <2> HIDE DEF F
  <2>4. \A y \in 1..Len(F(j - 1)) + Len(s[j]) :
          (F(j - 1) \o s[j])[y] =
            IF y <= Len(F(j - 1)) THEN F(j - 1)[y] ELSE s[j][y - Len(F(j - 1))]
    BY <2>1, <2>3, ConcatProperties
  <2> QED
    BY <2>1, <2>3, <2>4
<1> HIDE DEF F, n
<1>3. 0 \in S
  <2>1. /\ End(s, i) = End(s, i - 1) + Len(s[i]) /\ Len(s[i]) \in Nat
        /\ End(s, i - 1) \in Nat
    BY <1>1, <1>2 DEF n
  <2>2. x \in 1..End(s, i) /\ ~(x <= End(s, i - 1)) /\ x - End(s, i - 1) = k
    BY <2>1
  <2>3. F(i)[x] = s[i][k]
    BY <1>2, <2>2 DEF n
  <2>4. i + 0 = i
    OBVIOUS
  <2> QED
    BY <2>2, <2>3, <2>4
<1>4. ASSUME NEW d \in Nat, d \in S PROVE d + 1 \in S
  <2> DEFINE j == i + d
             m == i + (d + 1)
  <2> SUFFICES ASSUME m <= n PROVE x \in 1..End(s, m) /\ F(m)[x] = s[i][k]
    OBVIOUS
  <2>1. j \in 0..n /\ m \in 1..n /\ m \in 0..n /\ m - 1 = j /\ j <= n
    BY <1>1
  <2>2. x \in 1..End(s, j) /\ F(j)[x] = s[i][k]
    BY <1>4, <2>1
  <2> HIDE DEF j, m, x
  <2>3. End(s, m) = End(s, j) + Len(s[m]) /\ Len(s[m]) \in Nat /\ End(s, j) \in Nat
    BY <1>1, <1>2, <2>1
  <2>4. x \in 1..End(s, m) /\ x <= End(s, j)
    BY <2>2, <2>3
  <2>5. F(m)[x] = F(j)[x]
    BY <1>2, <2>1, <2>4
  <2> QED
    BY <2>2, <2>4, <2>5
<1> HIDE DEF S
<1>5. \A d \in Nat : d \in S
  BY <1>3, <1>4, SetInduction
<1>6. n - i \in Nat /\ i + (n - i) = n /\ i + (n - i) <= n
  BY <1>1
<1>7. x \in 1..End(s, n) /\ F(n)[x] = s[i][k]
  BY <1>5, <1>6 DEF S
<1>8. End(s, n) = Len(FlattenSeq(s)) /\ F(n) = FlattenSeq(s)
  BY Beginnings, Ends DEF F, n
<1> QED
  BY <1>7, <1>8
=============================================================================
