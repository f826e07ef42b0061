--------------------------- MODULE FramingProofs ---------------------------
(***************************************************************************)
(* Proofs about Framing: nothing is assumed of its constants beyond        *)
(* ConstantsAssumption.                                                    *)
(*                                                                         *)
(* The module's operators that go over a sequence are recursive functions. *)
(* What holds of them for every sequence is proved by induction over its   *)
(* length, which is stated with a set of indices (UpTo).                   *)
(***************************************************************************)
EXTENDS Framing, SequenceTheorems, FiniteSetTheorems, WellFoundedInduction, TLAPS

---------------------------------------------------------------------------
(* Induction *)

LEMMA Least ==
  ASSUME NEW T \in SUBSET Nat, T # {}
  PROVE  \E x \in T : \A y \in T : x <= y
<1> DEFINE R == OpToRel(<, Nat)
<1>1. IsWellFoundedOn(R, Nat)
  BY NatLessThanWellFounded
<1>2. \A i, j \in Nat : i < j => <<i, j>> \in R
  BY DEF OpToRel
<1> HIDE DEF R
<1>3. PICK x \in T : \A y \in T : <<y, x>> \notin R
  BY <1>1, WFMin, Zenon
<1>4. x \in Nat /\ \A y \in T : y \in Nat
  OBVIOUS
<1>5. \A y \in T : ~(y < x)
  BY <1>2, <1>3, <1>4
<1> QED
  BY <1>4, <1>5

\* A set of indices that holds 0, and with an index below n the next one, holds
\* all indices up to n.
LEMMA UpTo ==
  ASSUME NEW n \in Nat, NEW S, 0 \in S,
         \A i \in 0 .. n : i < n /\ i \in S => i + 1 \in S
  PROVE  \A i \in 0 .. n : i \in S
<1> DEFINE T == {i \in 0 .. n : i \notin S}
<1> SUFFICES ASSUME T # {} PROVE FALSE
  OBVIOUS
<1>0. T \in SUBSET Nat
  OBVIOUS
<1>1. PICK x \in T : \A y \in T : x <= y
  <2> HIDE DEF T
  <2> QED
    BY <1>0, Least
<1>2. x \in 0 .. n /\ x \notin S /\ x # 0
  OBVIOUS
<1>3. x - 1 \in 0 .. n /\ x - 1 < n /\ (x - 1) + 1 = x /\ ~(x <= x - 1)
  BY <1>2
<1>4. x - 1 \notin T
  BY <1>1, <1>3
<1>5. x - 1 \in S
  BY <1>3, <1>4
<1> QED
  BY <1>2, <1>3, <1>5

\* A function of the indices up to n that begins with base, and goes on with a
\* step for each index.
Steps(n, S) == [1 .. n -> [S -> S]]
Goes(f, n, base, step) ==
    /\ f[0] = base
    /\ \A i \in 0 .. n : i < n => f[i + 1] = step[i + 1][f[i]]

LEMMA Recursion ==
  ASSUME NEW n \in Nat, NEW S, NEW base \in S, NEW step \in Steps(n, S)
  PROVE  \E f \in [0 .. n -> S] : Goes(f, n, base, step)
<1> DEFINE Ms == {m \in 0 .. n : \E f \in [0 .. m -> S] : Goes(f, m, base, step)}
<1>1. 0 \in Ms
  <2>1. [i \in 0 .. 0 |-> base] \in [0 .. 0 -> S]
    OBVIOUS
  <2>2. Goes([i \in 0 .. 0 |-> base], 0, base, step)
    BY DEF Goes
  <2> QED
    BY <2>1, <2>2
<1>2. ASSUME NEW m \in 0 .. n, m < n, m \in Ms PROVE m + 1 \in Ms
  <2>1. PICK f \in [0 .. m -> S] : Goes(f, m, base, step)
    BY <1>2
  <2> DEFINE g == [i \in 0 .. m + 1 |-> IF i <= m THEN f[i] ELSE step[m + 1][f[m]]]
  <2>2. m + 1 \in 1 .. n /\ m + 1 \in 0 .. n /\ m \in 0 .. m
    BY <1>2
  <2>3. step[m + 1] \in [S -> S] /\ f[m] \in S
    BY <2>2 DEF Steps
  <2>4. step[m + 1][f[m]] \in S
    BY <2>3
  <2>5. g \in [0 .. m + 1 -> S]
    <3>1. \A i \in 0 .. m + 1 : i <= m => f[i] \in S
      BY <1>2
    <3> QED
      BY <2>4, <3>1
  <2>6. \A i \in 0 .. m : g[i] = f[i]
    BY <1>2
  <2>7. g[m + 1] = step[m + 1][f[m]]
    BY <1>2
  <2> HIDE DEF g
  <2>8. Goes(g, m + 1, base, step)
    <3>1. g[0] = base
      BY <2>1, <2>6 DEF Goes
    <3>2. ASSUME NEW i \in 0 .. m + 1, i < m + 1
          PROVE  g[i + 1] = step[i + 1][g[i]]
      <4>1. CASE i = m
        BY <2>2, <2>6, <2>7, <4>1
      <4>2. CASE i # m
        <5>1. i \in 0 .. m /\ i < m /\ i + 1 \in 0 .. m
          BY <3>2, <4>2
        <5> QED
          BY <2>1, <2>6, <5>1 DEF Goes
      <4> QED
        BY <4>1, <4>2
    <3> QED
      BY <3>1, <3>2 DEF Goes
  <2> QED
    BY <2>2, <2>5, <2>8
<1>3. \A m \in 0 .. n : m \in Ms
  <2> HIDE DEF Ms
  <2> QED
    BY <1>1, <1>2, UpTo
<1> QED
  BY <1>3

\* Two functions that begin alike and go on alike are alike.
LEMMA SameRecursion ==
  ASSUME NEW m \in Nat, NEW f, NEW g,
         f[0] = g[0],
         \A i \in 0 .. m : i < m /\ f[i] = g[i] => f[i + 1] = g[i + 1]
  PROVE  \A i \in 0 .. m : f[i] = g[i]
<1> DEFINE S == {i \in 0 .. m : f[i] = g[i]}
<1>1. 0 \in S
  OBVIOUS
<1>2. \A i \in 0 .. m : i < m /\ i \in S => i + 1 \in S
  OBVIOUS
<1>3. \A i \in 0 .. m : i \in S
  <2> HIDE DEF S
  <2> QED
    BY <1>1, <1>2, UpTo
<1> QED
  BY <1>3

---------------------------------------------------------------------------
(* FlattenSeq *)

Flattens(f, s) ==
    f = [i \in 1 .. Len(s) |-> IF i = 1 THEN s[i] ELSE f[i - 1] \o s[i]]
IsFlat(f, s) ==
    /\ Len(s) > 0 => f[1] = s[1]
    /\ \A i \in 1 .. Len(s) : i < Len(s) => f[i + 1] = f[i] \o s[i + 1]

LEMMA FlatExists ==
  ASSUME NEW S, NEW s \in Seq(Seq(S)), s # <<>>
  PROVE  \E f : Flattens(f, s)
<1> DEFINE n == Len(s) - 1
           Q == Seq(S)
           step == [i \in 1 .. n |-> [v \in Q |-> v \o s[i + 1]]]
<1>1. n \in Nat /\ s[1] \in Q
  OBVIOUS
<1>2. step \in Steps(n, Q)
  <2>1. ASSUME NEW i \in 1 .. n, NEW v \in Q PROVE v \o s[i + 1] \in Q
    <3>1. s[i + 1] \in Q
      BY <2>1
    <3> QED
      BY <3>1, ConcatProperties
  <2> HIDE DEF Q, n
  <2> QED
    BY <2>1 DEF Steps
<1>3. PICK f \in [0 .. n -> Q] : Goes(f, n, s[1], step)
  <2> HIDE DEF n, step, Q
  <2> QED
    BY <1>1, <1>2, Recursion
<1>4. f[0] = s[1] /\ \A i \in 0 .. n : i < n => f[i + 1] = f[i] \o s[i + 2]
  <2>1. f[0] = s[1]
    BY <1>3 DEF Goes
  <2>2. ASSUME NEW i \in 0 .. n, i < n PROVE f[i + 1] = f[i] \o s[i + 2]
    <3>1. f[i + 1] = step[i + 1][f[i]]
      BY <1>3, <2>2 DEF Goes
    <3>2. i + 1 \in 1 .. n /\ f[i] \in Q /\ (i + 1) + 1 = i + 2
      <4> HIDE DEF n, Q, step
      <4> QED
        BY <1>1, <1>3, <2>2
    <3>3. step[i + 1] = [v \in Q |-> v \o s[(i + 1) + 1]]
      BY <3>2
    <3> HIDE DEF step, Q, n
    <3> QED
      BY <3>1, <3>2, <3>3
  <2> QED
    BY <2>1, <2>2
<1> DEFINE g == [i \in 1 .. Len(s) |-> f[i - 1]]
<1>5. Flattens(g, s)
  <2>1. ASSUME NEW i \in 1 .. Len(s)
        PROVE  g[i] = IF i = 1 THEN s[i] ELSE g[i - 1] \o s[i]
    <3>1. CASE i = 1
      BY <1>4, <2>1, <3>1
    <3>2. CASE i # 1
      <4>1. /\ i - 2 \in 0 .. n /\ i - 2 < n /\ (i - 2) + 1 = i - 1 /\ (i - 2) + 2 = i
            /\ i - 1 \in 1 .. Len(s) /\ (i - 1) - 1 = i - 2
        BY <2>1, <3>2
      <4>2. g[i] = f[i - 1] /\ g[i - 1] = f[i - 2]
        BY <2>1, <4>1
      <4>3. f[(i - 2) + 1] = f[i - 2] \o s[(i - 2) + 2]
        BY <1>4, <4>1
      <4> HIDE DEF g, n
      <4> QED
        BY <3>2, <4>1, <4>2, <4>3
    <3> QED
      BY <3>1, <3>2
  <2>2. g = [i \in 1 .. Len(s) |-> g[i]]
    OBVIOUS
  <2> HIDE DEF g
  <2>3. [i \in 1 .. Len(s) |-> g[i]]
          = [i \in 1 .. Len(s) |-> IF i = 1 THEN s[i] ELSE g[i - 1] \o s[i]]
    BY <2>1
  <2> QED
    BY <2>2, <2>3 DEF Flattens
<1> QED
  BY <1>5

LEMMA FlattenIs ==
  ASSUME NEW S, NEW s \in Seq(Seq(S)), s # <<>>
  PROVE  \E f : IsFlat(f, s) /\ FlattenSeq(s) = f[Len(s)]
<1> DEFINE flat == CHOOSE f : Flattens(f, s)
<1>1. Flattens(flat, s)
  BY FlatExists
<1>2. FlattenSeq(s) = flat[Len(s)]
  BY DEF FlattenSeq, Flattens
<1> HIDE DEF flat
<1>3. \A i \in 1 .. Len(s) : flat[i] = IF i = 1 THEN s[i] ELSE flat[i - 1] \o s[i]
  BY <1>1 DEF Flattens
<1>4. ASSUME NEW i \in 1 .. Len(s), i < Len(s)
      PROVE  flat[i + 1] = flat[i] \o s[i + 1]
  <2>1. i + 1 \in 1 .. Len(s) /\ i + 1 # 1 /\ (i + 1) - 1 = i
    BY <1>4
  <2>2. flat[i + 1] = flat[(i + 1) - 1] \o s[i + 1]
    BY <1>3, <2>1
  <2> QED
    BY <2>1, <2>2
<1>5. Len(s) > 0 => flat[1] = s[1]
  BY <1>3
<1>6. IsFlat(flat, s)
  BY <1>4, <1>5 DEF IsFlat
<1> QED
  BY <1>2, <1>6

LEMMA FlatTyped ==
  ASSUME NEW S, NEW s \in Seq(Seq(S)), NEW f, IsFlat(f, s)
  PROVE  \A i \in 1 .. Len(s) : f[i] \in Seq(S)
<1> DEFINE n == Len(s)
           T == {i \in 0 .. n : i # 0 => f[i] \in Seq(S)}
<1>1. n \in Nat
  OBVIOUS
<1>2. 0 \in T
  OBVIOUS
<1>3. ASSUME NEW i \in 0 .. n, i < n, i \in T PROVE i + 1 \in T
  <2>1. s[i + 1] \in Seq(S) /\ i + 1 \in 0 .. n
    BY <1>3
  <2>2. f[i + 1] = IF i = 0 THEN s[i + 1] ELSE f[i] \o s[i + 1]
    <3>1. CASE i = 0
      BY <1>3, <3>1 DEF IsFlat
    <3>2. CASE i # 0
      <4>1. i \in 1 .. Len(s) /\ i < Len(s)
        BY <1>3, <3>2
      <4> QED
        BY <3>2, <4>1 DEF IsFlat
    <3> QED
      BY <3>1, <3>2
  <2>3. f[i + 1] \in Seq(S)
    <3>1. CASE i = 0
      BY <2>1, <2>2, <3>1
    <3>2. CASE i # 0
      <4>1. f[i] \in Seq(S)
        BY <1>3, <3>2
      <4>2. f[i + 1] = f[i] \o s[i + 1]
        BY <2>2, <3>2
      <4> QED
        BY <2>1, <4>1, <4>2, ConcatProperties
    <3> QED
      BY <3>1, <3>2
  <2> QED
    BY <2>1, <2>3
<1>4. \A i \in 0 .. n : i \in T
  <2> HIDE DEF n, T
  <2> QED
    BY <1>1, <1>2, <1>3, UpTo
<1> QED
  BY <1>4

LEMMA FlatSame ==
  ASSUME NEW S, NEW s \in Seq(Seq(S)), NEW x \in Seq(S), NEW f, NEW g,
         IsFlat(f, s), IsFlat(g, Append(s, x))
  PROVE  \A i \in 1 .. Len(s) : f[i] = g[i]
<1> DEFINE n == Len(s)
           sx == Append(s, x)
           T == {i \in 0 .. n : i # 0 => f[i] = g[i]}
<1>1. n \in Nat /\ Len(sx) = n + 1 /\ \A i \in 1 .. n : sx[i] = s[i]
  BY AppendProperties
<1>2. 0 \in T
  OBVIOUS
<1>3. ASSUME NEW i \in 0 .. n, i < n, i \in T PROVE i + 1 \in T
  <2>1. i + 1 \in 1 .. n /\ i + 1 \in 0 .. n /\ sx[i + 1] = s[i + 1]
    BY <1>1, <1>3
  <2>2. CASE i = 0
    <3>1. f[1] = s[1] /\ g[1] = sx[1]
      <4> HIDE DEF sx
      <4>1. n > 0 /\ Len(sx) > 0
        BY <1>1, <1>3
      <4> QED
        BY <4>1 DEF IsFlat, sx
    <3> QED
      BY <2>1, <2>2, <3>1
  <2>3. CASE i # 0
    <3>1. i \in 1 .. n /\ i \in 1 .. n + 1 /\ i < n + 1
      BY <1>1, <1>3, <2>3
    <3>2. f[i + 1] = f[i] \o s[i + 1]
      BY <1>3, <3>1 DEF IsFlat
    <3>3. g[i + 1] = g[i] \o sx[i + 1]
      <4>1. \A j \in 1 .. Len(sx) : j < Len(sx) => g[j + 1] = g[j] \o sx[j + 1]
        BY DEF IsFlat
      <4> HIDE DEF sx, n
      <4> QED
        BY <1>1, <3>1, <4>1
    <3>4. f[i] = g[i]
      BY <1>3, <2>3
    <3> HIDE DEF sx
    <3> QED
      BY <2>1, <3>2, <3>3, <3>4
  <2> QED
    BY <2>2, <2>3
<1>4. \A i \in 0 .. n : i \in T
  <2> HIDE DEF n, T
  <2> QED
    BY <1>1, <1>2, <1>3, UpTo
<1> QED
  BY <1>4

\* One more sequence is appended to what the others were flattened to.
LEMMA FlattenAppend ==
  ASSUME NEW S, NEW s \in Seq(Seq(S)), NEW x \in Seq(S)
  PROVE  /\ FlattenSeq(s) \in Seq(S)
         /\ FlattenSeq(Append(s, x)) = FlattenSeq(s) \o x
<1> DEFINE sx == Append(s, x)
<1>1. /\ sx \in Seq(Seq(S)) /\ sx # <<>> /\ Len(sx) = Len(s) + 1
      /\ sx[Len(s) + 1] = x
  BY AppendProperties
<1>2. PICK g : IsFlat(g, sx) /\ FlattenSeq(sx) = g[Len(s) + 1]
  <2> HIDE DEF sx
  <2> QED
    BY <1>1, FlattenIs
<1>3. CASE s = <<>>
  <2>1. FlattenSeq(s) = <<>>
    BY <1>3 DEF FlattenSeq
  <2>2. FlattenSeq(sx) = x
    <3>1. Len(s) = 0
      BY <1>3
    <3> HIDE DEF sx
    <3>2. g[1] = sx[1]
      BY <1>1, <1>2, <3>1 DEF IsFlat
    <3> QED
      BY <1>1, <1>2, <3>1, <3>2
  <2>3. <<>> \in Seq(S) /\ <<>> \o x = x
    BY ConcatEmptySeq, EmptySeq
  <2> QED
    BY <2>1, <2>2, <2>3
<1>4. CASE s # <<>>
  <2>1. PICK f : IsFlat(f, s) /\ FlattenSeq(s) = f[Len(s)]
    BY <1>4, FlattenIs
  <2>2. Len(s) \in 1 .. Len(s) /\ Len(s) \in 1 .. Len(s) + 1 /\ Len(s) < Len(s) + 1
    BY <1>4
  <2>3. f[Len(s)] = g[Len(s)]
    BY <1>2, <2>1, <2>2, FlatSame
  <2>4. f[Len(s)] \in Seq(S)
    BY <2>1, <2>2, FlatTyped
  <2>5. g[Len(s) + 1] = g[Len(s)] \o sx[Len(s) + 1]
    <3>1. \A j \in 1 .. Len(sx) : j < Len(sx) => g[j + 1] = g[j] \o sx[j + 1]
      BY <1>2 DEF IsFlat
    <3> HIDE DEF sx
    <3> QED
      BY <1>1, <2>2, <3>1
  <2> HIDE DEF sx
  <2> QED
    BY <1>1, <1>2, <2>1, <2>3, <2>4, <2>5 DEF sx
<1> QED
  BY <1>3, <1>4

---------------------------------------------------------------------------
(* Accepted *)

Call == [payload : Seq(Byte), ok : BOOLEAN, bytes : Nat]

Taking(v, c) == IF c.ok THEN Append(v, c.payload) ELSE v

Accepts(f, calls) ==
    f = [i \in 0 .. Len(calls) |-> IF i = 0 THEN <<>> ELSE Taking(f[i - 1], calls[i])]
IsAccepted(f, calls) ==
    /\ f[0] = <<>>
    /\ \A i \in 0 .. Len(calls) : i < Len(calls) => f[i + 1] = Taking(f[i], calls[i + 1])

LEMMA TakingTyped ==
  ASSUME NEW v \in Seq(Seq(Byte)), NEW c \in Call
  PROVE  Taking(v, c) \in Seq(Seq(Byte))
BY DEF Taking, Call

LEMMA AcceptsExists ==
  ASSUME NEW calls \in Seq(Call)
  PROVE  \E f : Accepts(f, calls)
<1> DEFINE n == Len(calls)
           Q == Seq(Seq(Byte))
           step == [i \in 1 .. n |-> [v \in Q |-> Taking(v, calls[i])]]
<1>1. n \in Nat /\ <<>> \in Q
  OBVIOUS
<1>2. step \in Steps(n, Q)
  <2>1. \A i \in 1 .. n, v \in Q : Taking(v, calls[i]) \in Q
    BY TakingTyped
  <2> HIDE DEF n, Q
  <2> QED
    BY <2>1 DEF Steps
<1>3. PICK f \in [0 .. n -> Q] : Goes(f, n, <<>>, step)
  <2> HIDE DEF n, step, Q
  <2> QED
    BY <1>1, <1>2, Recursion
<1>4. ASSUME NEW i \in 0 .. n
      PROVE  f[i] = IF i = 0 THEN <<>> ELSE Taking(f[i - 1], calls[i])
  <2>1. CASE i = 0
    BY <1>3, <2>1 DEF Goes
  <2>2. CASE i # 0
    <3>1. i - 1 \in 0 .. n /\ i - 1 < n /\ (i - 1) + 1 = i /\ i \in 1 .. n
      <4> HIDE DEF n
      <4> QED
        BY <1>1, <1>4, <2>2
    <3>2. f[i - 1] \in Q
      <4> HIDE DEF n, Q, step
      <4> QED
        BY <1>3, <3>1
    <3>3. step[i] = [v \in Q |-> Taking(v, calls[i])]
      BY <3>1
    <3> HIDE DEF step, Q, n
    <3>4. f[i] = step[i][f[i - 1]]
      BY <1>3, <3>1 DEF Goes
    <3> QED
      BY <2>2, <3>2, <3>3, <3>4
  <2> QED
    BY <2>1, <2>2
<1>5. f = [i \in 0 .. n |-> f[i]]
  BY <1>3
<1>6. [i \in 0 .. n |-> f[i]]
        = [i \in 0 .. n |-> IF i = 0 THEN <<>> ELSE Taking(f[i - 1], calls[i])]
  BY <1>4
<1> QED
  BY <1>5, <1>6 DEF Accepts

LEMMA AcceptedIs ==
  ASSUME NEW calls \in Seq(Call)
  PROVE  \E f : IsAccepted(f, calls) /\ Accepted(calls) = f[Len(calls)]
<1> DEFINE acc == CHOOSE f : Accepts(f, calls)
<1>1. Accepts(acc, calls)
  BY AcceptsExists
<1>2. Accepted(calls) = acc[Len(calls)]
  BY DEF Accepted, Accepts, Taking
<1> HIDE DEF acc
<1>3. \A i \in 0 .. Len(calls) :
          acc[i] = IF i = 0 THEN <<>> ELSE Taking(acc[i - 1], calls[i])
  BY <1>1 DEF Accepts
<1>4. ASSUME NEW i \in 0 .. Len(calls), i < Len(calls)
      PROVE  acc[i + 1] = Taking(acc[i], calls[i + 1])
  <2>1. i + 1 \in 0 .. Len(calls) /\ i + 1 # 0 /\ (i + 1) - 1 = i
    BY <1>4
  <2>2. acc[i + 1] = Taking(acc[(i + 1) - 1], calls[i + 1])
    BY <1>3, <2>1
  <2> QED
    BY <2>1, <2>2
<1>5. acc[0] = <<>>
  <2>1. 0 \in 0 .. Len(calls)
    OBVIOUS
  <2> QED
    BY <1>3, <2>1
<1> QED
  BY <1>2, <1>4, <1>5 DEF IsAccepted

LEMMA AcceptedTyped ==
  ASSUME NEW calls \in Seq(Call), NEW f, IsAccepted(f, calls)
  PROVE  f[Len(calls)] \in Seq(Seq(Byte))
<1> DEFINE n == Len(calls)
           T == {i \in 0 .. n : f[i] \in Seq(Seq(Byte))}
<1>1. n \in Nat
  OBVIOUS
<1>2. 0 \in T
  <2>1. <<>> \in Seq(Seq(Byte)) /\ 0 \in 0 .. n
    OBVIOUS
  <2> QED
    BY <2>1 DEF IsAccepted
<1>3. ASSUME NEW i \in 0 .. n, i < n, i \in T PROVE i + 1 \in T
  <2>1. i + 1 \in 0 .. n /\ i + 1 \in 1 .. n
    BY <1>1, <1>3
  <2>2. calls[i + 1] \in Call /\ f[i] \in Seq(Seq(Byte))
    BY <1>3, <2>1
  <2>3. f[i + 1] = Taking(f[i], calls[i + 1])
    BY <1>3 DEF IsAccepted
  <2>4. Taking(f[i], calls[i + 1]) \in Seq(Seq(Byte))
    BY <2>2, TakingTyped
  <2> QED
    BY <2>1, <2>3, <2>4
<1>4. \A i \in 0 .. n : i \in T
  <2> HIDE DEF n, T
  <2> QED
    BY <1>1, <1>2, <1>3, UpTo
<1>5. n \in 0 .. n
  BY <1>1
<1> QED
  BY <1>4, <1>5

\* One more call adds its payload if it returned true.
LEMMA AcceptedAppend ==
  ASSUME NEW calls \in Seq(Call), NEW c \in Call
  PROVE  /\ Accepted(calls) \in Seq(Seq(Byte))
         /\ Accepted(Append(calls, c)) = Taking(Accepted(calls), c)
<1> DEFINE n == Len(calls)
           cs == Append(calls, c)
<1>1. /\ n \in Nat /\ cs \in Seq(Call) /\ Len(cs) = n + 1 /\ cs[n + 1] = c
      /\ \A i \in 1 .. n : cs[i] = calls[i]
  BY AppendProperties
<1>2. PICK f : IsAccepted(f, calls) /\ Accepted(calls) = f[n]
  BY AcceptedIs
<1>3. PICK g : IsAccepted(g, cs) /\ Accepted(cs) = g[n + 1]
  <2> HIDE DEF cs
  <2> QED
    BY <1>1, AcceptedIs
<1>4. g[0] = <<>> /\ \A i \in 0 .. n + 1 : i < n + 1 => g[i + 1] = Taking(g[i], cs[i + 1])
  <2> HIDE DEF cs, n
  <2> QED
    BY <1>1, <1>3 DEF IsAccepted
<1>5. f[0] = <<>> /\ \A i \in 0 .. n : i < n => f[i + 1] = Taking(f[i], calls[i + 1])
  BY <1>2 DEF IsAccepted
<1> HIDE DEF cs, n
<1>6. \A i \in 0 .. n : f[i] = g[i]
  <2>1. \A i \in 0 .. n : i < n => i \in 0 .. n + 1 /\ i < n + 1 /\ i + 1 \in 1 .. n
    BY <1>1
  <2>2. \A i \in 0 .. n : i < n /\ f[i] = g[i] => f[i + 1] = g[i + 1]
    BY <1>1, <1>4, <1>5, <2>1
  <2> QED
    <3>1. f[0] = g[0]
      BY <1>4, <1>5
    <3> QED
      BY SMTT(30), <1>1, <2>2, <3>1, SameRecursion
<1>7. g[n + 1] = Taking(g[n], c)
  BY <1>1, <1>4
<1>8. Accepted(calls) \in Seq(Seq(Byte))
  BY <1>2, AcceptedTyped DEF n
<1>9. f[n] = g[n]
  BY <1>1, <1>6
<1> QED
  BY <1>2, <1>3, <1>7, <1>8, <1>9 DEF cs

LEMMA AcceptedNone == Accepted(<<>>) = <<>>
<1>1. <<>> \in Seq(Call) /\ Len(<<>>) = 0
  OBVIOUS
<1>2. PICK f : IsAccepted(f, <<>>) /\ Accepted(<<>>) = f[Len(<<>>)]
  BY <1>1, AcceptedIs
<1> QED
  BY <1>1, <1>2 DEF IsAccepted

---------------------------------------------------------------------------
(* Scan *)

Scanning == [lines : Seq(Seq(Byte)), left : Seq(Byte)]
NothingScanned == [lines |-> <<>>, left |-> <<>>]

Scans(f, b) ==
    f = [i \in 0 .. Len(b) |-> IF i = 0 THEN NothingScanned ELSE Scanned(f[i - 1], b[i])]
IsScan(f, b) ==
    /\ f[0] = NothingScanned
    /\ \A i \in 0 .. Len(b) : i < Len(b) => f[i + 1] = Scanned(f[i], b[i + 1])

\* What the loop does with one byte.
LEMMA ScannedIs ==
  ASSUME NEW v \in Scanning, NEW x \in Byte
  PROVE  /\ v.lines \in Seq(Seq(Byte)) /\ v.left \in Seq(Byte)
         /\ x = NewLine => /\ Scanned(v, x).lines = Append(v.lines, Append(v.left, x))
                           /\ Scanned(v, x).left = <<>>
         /\ x # NewLine => /\ Scanned(v, x).lines = v.lines
                           /\ Scanned(v, x).left = Append(v.left, x)
BY DEF Scanned, Scanning

LEMMA ScannedTyped ==
  ASSUME NEW v \in Scanning, NEW x \in Byte
  PROVE  Scanned(v, x) \in Scanning
<1> DEFINE Q == Seq(Byte)
           ls == v.lines
           line == Append(v.left, x)
<1>1. ls \in Seq(Q) /\ v.left \in Q
  BY DEF Scanning
<1>2. line \in Q
  BY <1>1, AppendProperties
<1>3. CASE x = NewLine
  <2>1. Scanned(v, x) = [lines |-> Append(ls, line), left |-> <<>>]
    BY <1>3 DEF Scanned
  <2> HIDE DEF ls, line
  <2>2. Append(ls, line) \in Seq(Q)
    <3> HIDE DEF Q
    <3> QED
      BY <1>1, <1>2, AppendProperties
  <2>3. <<>> \in Q
    OBVIOUS
  <2> HIDE DEF Q
  <2> QED
    BY <2>1, <2>2, <2>3 DEF Scanning, Q
<1>4. CASE x # NewLine
  <2>1. Scanned(v, x) = [lines |-> ls, left |-> line]
    BY <1>4 DEF Scanned, Scanning
  <2> HIDE DEF ls, line
  <2> QED
    BY <1>1, <1>2, <2>1 DEF Scanning
<1> QED
  BY <1>3, <1>4

LEMMA NothingTyped == NothingScanned \in Scanning
<1>1. <<>> \in Seq(Seq(Byte)) /\ <<>> \in Seq(Byte)
  OBVIOUS
<1> QED
  BY <1>1 DEF NothingScanned, Scanning

LEMMA ScansExists ==
  ASSUME NEW b \in Seq(Byte)
  PROVE  \E f \in [0 .. Len(b) -> Scanning] : Scans(f, b)
<1> DEFINE n == Len(b)
           step == [i \in 1 .. n |-> [v \in Scanning |-> Scanned(v, b[i])]]
<1>1. n \in Nat /\ NothingScanned \in Scanning
  BY NothingTyped
<1>2. step \in Steps(n, Scanning)
  <2>1. \A i \in 1 .. n, v \in Scanning : Scanned(v, b[i]) \in Scanning
    BY ScannedTyped
  <2> HIDE DEF n
  <2> QED
    BY <2>1 DEF Steps
<1>3. PICK f \in [0 .. n -> Scanning] : Goes(f, n, NothingScanned, step)
  <2> HIDE DEF n, step
  <2> QED
    BY <1>1, <1>2, Recursion
<1>4. ASSUME NEW i \in 0 .. n
      PROVE  f[i] = IF i = 0 THEN NothingScanned ELSE Scanned(f[i - 1], b[i])
  <2>1. CASE i = 0
    BY <1>3, <2>1 DEF Goes
  <2>2. CASE i # 0
    <3>1. i - 1 \in 0 .. n /\ i - 1 < n /\ (i - 1) + 1 = i /\ i \in 1 .. n
      <4> HIDE DEF n
      <4> QED
        BY <1>1, <1>4, <2>2
    <3>2. f[i - 1] \in Scanning
      <4> HIDE DEF n, step
      <4> QED
        BY <1>3, <3>1
    <3>3. step[i] = [v \in Scanning |-> Scanned(v, b[i])]
      BY <3>1
    <3> HIDE DEF step, n
    <3>4. f[i] = step[i][f[i - 1]]
      BY <1>3, <3>1 DEF Goes
    <3> QED
      BY <2>2, <3>2, <3>3, <3>4
  <2> QED
    BY <2>1, <2>2
<1>5. f = [i \in 0 .. n |-> f[i]]
  BY <1>3
<1>6. [i \in 0 .. n |-> f[i]]
        = [i \in 0 .. n |-> IF i = 0 THEN NothingScanned ELSE Scanned(f[i - 1], b[i])]
  BY <1>4
<1> QED
  BY <1>3, <1>5, <1>6 DEF Scans

LEMMA ScanIs ==
  ASSUME NEW b \in Seq(Byte)
  PROVE  \E f : IsScan(f, b) /\ Scan(b) = f[Len(b)]
<1> DEFINE upTo == CHOOSE f : Scans(f, b)
<1>1. Scans(upTo, b)
  BY ScansExists
<1>2. Scan(b) = upTo[Len(b)]
  BY DEF Scan, Scans, NothingScanned
<1> HIDE DEF upTo
<1>3. \A i \in 0 .. Len(b) :
          upTo[i] = IF i = 0 THEN NothingScanned ELSE Scanned(upTo[i - 1], b[i])
  BY <1>1 DEF Scans
<1>4. ASSUME NEW i \in 0 .. Len(b), i < Len(b)
      PROVE  upTo[i + 1] = Scanned(upTo[i], b[i + 1])
  <2>1. i + 1 \in 0 .. Len(b) /\ i + 1 # 0 /\ (i + 1) - 1 = i
    BY <1>4
  <2>2. upTo[i + 1] = Scanned(upTo[(i + 1) - 1], b[i + 1])
    BY <1>3, <2>1
  <2> QED
    BY <2>1, <2>2
<1>5. upTo[0] = NothingScanned
  <2>1. 0 \in 0 .. Len(b)
    OBVIOUS
  <2> QED
    BY <1>3, <2>1
<1> QED
  BY <1>2, <1>4, <1>5 DEF IsScan

---------------------------------------------------------------------------
(* Where the lines of a stream end *)

LEMMA EndsAppend ==
  ASSUME NEW s \in Seq(Byte), NEW x \in Byte
  PROVE  /\ IsFiniteSet(Ends(s)) /\ Count(s) \in Nat
         /\ Ends(s) \subseteq 1 .. Len(s)
         /\ Ends(Append(s, x)) =
                IF x = NewLine THEN Ends(s) \union {Len(s) + 1} ELSE Ends(s)
         /\ Count(Append(s, x)) = IF x = NewLine THEN Count(s) + 1 ELSE Count(s)
<1>1. Ends(s) \subseteq 1 .. Len(s) /\ Len(s) \in Nat
  BY DEF Ends
<1>2. IsFiniteSet(Ends(s)) /\ Count(s) \in Nat
  <2>1. IsFiniteSet(1 .. Len(s))
    BY <1>1, FS_Interval
  <2>2. IsFiniteSet(Ends(s))
    BY <1>1, <2>1, FS_Subset
  <2> QED
    BY <2>2, FS_CardinalityType DEF Count
<1>3. /\ DOMAIN Append(s, x) = 1 .. Len(s) + 1
      /\ Append(s, x)[Len(s) + 1] = x
      /\ \A i \in 1 .. Len(s) : Append(s, x)[i] = s[i]
  BY AppendProperties
<1>4. Ends(Append(s, x)) = IF x = NewLine THEN Ends(s) \union {Len(s) + 1} ELSE Ends(s)
  <2> DEFINE sx == Append(s, x)
             n == Len(s)
  <2>1. DOMAIN sx = 1 .. n + 1 /\ DOMAIN s = 1 .. n /\ n \in Nat
    BY <1>3
  <2>2. Ends(sx) = {i \in 1 .. n + 1 : sx[i] = NewLine}
    BY <2>1 DEF Ends
  <2>3. Ends(s) = {i \in 1 .. n : s[i] = NewLine}
    BY <2>1 DEF Ends
  <2>4. \A i : i \in 1 .. n + 1 <=> i \in 1 .. n \/ i = n + 1
    BY <2>1
  <2>5. /\ sx[n + 1] = x
        /\ \A i \in 1 .. n : sx[i] = s[i]
    BY <1>3
  <2> HIDE DEF sx, n
  <2>6. CASE x = NewLine
    <3>1. \A i : i \in Ends(sx) <=> i \in Ends(s) \/ i = n + 1
      BY <2>2, <2>3, <2>4, <2>5, <2>6
    <3> QED
      BY <2>6, <3>1 DEF sx, n
  <2>7. CASE x # NewLine
    <3>1. \A i : i \in Ends(sx) <=> i \in Ends(s)
      BY <2>2, <2>3, <2>4, <2>5, <2>7
    <3> QED
      BY <2>7, <3>1 DEF sx, n
  <2> QED
    BY <2>6, <2>7
<1>5. Count(Append(s, x)) = IF x = NewLine THEN Count(s) + 1 ELSE Count(s)
  <2>1. Len(s) + 1 \notin Ends(s)
    BY <1>1
  <2>2. Cardinality(Ends(s) \union {Len(s) + 1}) = Cardinality(Ends(s)) + 1
    BY <1>2, <2>1, FS_AddElement
  <2> QED
    BY <1>4, <2>2 DEF Count
<1> QED
  BY <1>1, <1>2, <1>4, <1>5

\* The first lines end where they ended before.
LEMMA EndingAppend ==
  ASSUME NEW s \in Seq(Byte), NEW x \in Byte, NEW k \in 1 .. Count(s)
  PROVE  Ending(Append(s, x), k) = Ending(s, k)
<1> DEFINE E == Ends(s)
           Ex == Ends(Append(s, x))
           n == Len(s)
<1>1. /\ IsFiniteSet(E) /\ Cardinality(E) \in Nat /\ E \subseteq 1 .. n /\ n \in Nat
      /\ Ex = IF x = NewLine THEN E \union {n + 1} ELSE E
  BY EndsAppend DEF Count
<1>2. k \in Nat /\ k <= Cardinality(E)
  BY <1>1 DEF Count
<1> HIDE DEF E, Ex, n
<1>3. CASE x # NewLine
  BY <1>1, <1>3 DEF Ending, E, Ex
<1>4. CASE x = NewLine
  <2>1. Ex = E \union {n + 1}
    BY <1>1, <1>4
  <2>2. \A i \in E : Ex \intersect (1 .. i) = E \intersect (1 .. i)
    BY <1>1, <2>1
  <2>3. Ex \intersect (1 .. n + 1) = E \union {n + 1}
    <3>1. n + 1 \in 1 .. n + 1 /\ \A i \in 1 .. n : i \in 1 .. n + 1
      BY <1>1
    <3>2. \A i : i \in Ex \intersect (1 .. n + 1) <=> i \in E \union {n + 1}
      BY <1>1, <2>1, <3>1, Zenon
    <3> QED
      BY <3>2, Zenon
  <2>4. Cardinality(E \union {n + 1}) = Cardinality(E) + 1
    <3>1. n + 1 \notin E
      BY <1>1
    <3> QED
      BY <1>1, <3>1, FS_AddElement
  <2>5. Cardinality(Ex \intersect (1 .. n + 1)) # k
    <3> DEFINE c == Cardinality(E)
    <3>1. Cardinality(Ex \intersect (1 .. n + 1)) = c + 1
      BY <2>3, <2>4, Zenon
    <3>2. c \in Nat /\ k \in Nat /\ k <= c
      BY <1>1, <1>2
    <3> HIDE DEF c
    <3> QED
      BY <3>1, <3>2
  <2>6. {i \in Ex : Cardinality(Ex \intersect (1 .. i)) = k}
          = {i \in E : Cardinality(E \intersect (1 .. i)) = k}
    BY <2>1, <2>2, <2>5
  <2> QED
    BY <2>6 DEF Ending, E, Ex
<1> QED
  BY <1>3, <1>4

LEMMA EndAppend ==
  ASSUME NEW s \in Seq(Byte), NEW x \in Byte, NEW k \in 0 .. Count(s)
  PROVE  End(Append(s, x), k) = End(s, k)
<1>1. CASE k = 0
  BY <1>1 DEF End
<1>2. CASE k # 0
  <2>1. k \in 1 .. Count(s)
    BY <1>2, EndsAppend
  <2>2. Ending(Append(s, x), k) = Ending(s, k)
    BY <2>1, EndingAppend
  <2> QED
    BY <1>2, <2>2 DEF End
<1> QED
  BY <1>1, <1>2

\* The next line ends with the next delimiter.
LEMMA EndNew ==
  ASSUME NEW s \in Seq(Byte)
  PROVE  End(Append(s, NewLine), Count(s) + 1) = Len(s) + 1
<1> DEFINE E == Ends(s)
           Ex == Ends(Append(s, NewLine))
           n == Len(s)
           c == Count(s)
<1>0. NewLine \in Byte
  BY DEF NewLine, Byte
<1>1. /\ IsFiniteSet(E) /\ Cardinality(E) = c /\ c \in Nat /\ E \subseteq 1 .. n /\ n \in Nat
      /\ Ex = E \union {n + 1}
  BY <1>0, EndsAppend DEF Count
<1> HIDE DEF E, Ex, n, c
<1>2. \A i \in E : Cardinality(Ex \intersect (1 .. i)) # c + 1
  <2> SUFFICES ASSUME NEW i \in E PROVE Cardinality(Ex \intersect (1 .. i)) # c + 1
    OBVIOUS
  <2>1. Ex \intersect (1 .. i) \in SUBSET E
    BY <1>1
  <2>2. Cardinality(Ex \intersect (1 .. i)) <= Cardinality(E)
        /\ IsFiniteSet(Ex \intersect (1 .. i))
    BY <1>1, <2>1, FS_Subset
  <2>3. Cardinality(Ex \intersect (1 .. i)) \in Nat
    BY <2>2, FS_CardinalityType
  <2> QED
    BY <1>1, <2>2, <2>3
<1>3. Cardinality(Ex \intersect (1 .. n + 1)) = c + 1
  <2>1. Ex \intersect (1 .. n + 1) = E \union {n + 1}
    <3>1. n + 1 \in 1 .. n + 1 /\ \A i \in 1 .. n : i \in 1 .. n + 1
      BY <1>1
    <3>2. \A i : i \in Ex \intersect (1 .. n + 1) <=> i \in E \union {n + 1}
      BY <1>1, <3>1, Zenon
    <3> QED
      BY <3>2, Zenon
  <2>2. n + 1 \notin E
    BY <1>1
  <2> QED
    BY <1>1, <2>1, <2>2, FS_AddElement
<1>4. {i \in Ex : Cardinality(Ex \intersect (1 .. i)) = c + 1} = {n + 1}
  BY <1>1, <1>2, <1>3
<1>5. Ending(Append(s, NewLine), c + 1) = {n + 1}
  BY <1>4 DEF Ending, Ex
<1>6. (CHOOSE i \in {n + 1} : TRUE) = n + 1
  OBVIOUS
<1>7. c + 1 # 0
  BY <1>1
<1> QED
  BY <1>5, <1>6, <1>7 DEF End, c, n

---------------------------------------------------------------------------
(* What the loop over the delimiters leaves *)

Clean(l) == \A i \in 1 .. Len(l) : l[i] # NewLine

\* What is left holds no delimiter and no more than there was; nothing is left
\* of bytes that end with a delimiter.
LEMMA ScanStays ==
  ASSUME NEW b \in Seq(Byte), NEW f, IsScan(f, b)
  PROVE  \A i \in 0 .. Len(b) : /\ f[i] \in Scanning
                                /\ Len(f[i].left) <= i
                                /\ Clean(f[i].left)
                                /\ i # 0 /\ b[i] = NewLine => f[i].left = <<>>
<1> DEFINE n == Len(b)
<1> DEFINE T == {i \in 0 .. n : /\ f[i] \in Scanning
                                /\ Len(f[i].left) <= i
                                /\ Clean(f[i].left)
                                /\ i # 0 /\ b[i] = NewLine => f[i].left = <<>>}
<1>2. n \in Nat /\ n \in 0 .. n
  OBVIOUS
<1>3. 0 \in T
  <2>1. f[0] = NothingScanned
    BY DEF IsScan
  <2>2. f[0].left = <<>> /\ Len(f[0].left) = 0
    BY <2>1 DEF NothingScanned
  <2>3. Clean(f[0].left)
    BY <2>2 DEF Clean
  <2>4. f[0] \in Scanning
    BY <2>1, NothingTyped
  <2> QED
    BY <1>2, <2>2, <2>3, <2>4
<1>4. ASSUME NEW i \in 0 .. n, i < n, i \in T PROVE i + 1 \in T
  <2> DEFINE v == f[i]
             x == b[i + 1]
             w == f[i + 1]
  <2>1. /\ v \in Scanning /\ Len(v.left) <= i /\ Clean(v.left)
        /\ i + 1 \in 0 .. n /\ i + 1 \in 1 .. n /\ i \in Nat
    BY <1>4
  <2>2. x \in Byte
    BY <2>1
  <2>3. w = Scanned(v, x)
    BY <1>4 DEF IsScan
  <2> HIDE DEF v, x, w
  <2>4. w \in Scanning
    BY <2>1, <2>2, <2>3, ScannedTyped
  <2>5. CASE x = NewLine
    <3>1. w.left = <<>>
      BY <2>1, <2>2, <2>3, <2>5, ScannedIs
    <3>2. Clean(w.left) /\ Len(w.left) = 0
      BY <3>1 DEF Clean
    <3> QED
      BY <2>1, <2>4, <3>1, <3>2 DEF w
  <2>6. CASE x # NewLine
    <3>1. w.left = Append(v.left, x) /\ v.left \in Seq(Byte)
      BY <2>1, <2>2, <2>3, <2>6, ScannedIs
    <3>2. Len(w.left) = Len(v.left) + 1 /\ Len(v.left) \in Nat
      BY <3>1, AppendProperties
    <3>3. Len(w.left) <= i + 1
      BY <2>1, <3>2
    <3>4. Clean(w.left)
      <4> SUFFICES ASSUME NEW j \in 1 .. Len(w.left) PROVE w.left[j] # NewLine
        BY DEF Clean
      <4>1. CASE j = Len(w.left)
        BY <2>6, <3>1, <3>2, <4>1, AppendProperties
      <4>2. CASE j # Len(w.left)
        <5>1. j \in 1 .. Len(v.left)
          BY <3>2, <4>2
        <5>2. w.left[j] = v.left[j]
          BY <3>1, <5>1, AppendProperties
        <5> QED
          BY <2>1, <5>1, <5>2 DEF Clean
      <4> QED
        BY <4>1, <4>2
    <3> QED
      BY <2>1, <2>4, <2>6, <3>3, <3>4 DEF w, x
  <2> QED
    BY <2>5, <2>6
<1>5. \A i \in 0 .. n : i \in T
  <2> HIDE DEF n, T
  <2> QED
    BY <1>2, <1>3, <1>4, UpTo
<1> QED
  BY <1>5

LEMMA ScanClean ==
  ASSUME NEW b \in Seq(Byte)
  PROVE  /\ Scan(b) \in Scanning
         /\ Len(Scan(b).left) <= Len(b) /\ Clean(Scan(b).left)
         /\ b # <<>> /\ b[Len(b)] = NewLine => Scan(b).left = <<>>
<1> DEFINE n == Len(b)
<1>1. PICK f : IsScan(f, b) /\ Scan(b) = f[n]
  BY ScanIs
<1>2. n \in 0 .. n /\ (b # <<>> => n # 0)
  OBVIOUS
<1> HIDE DEF n
<1>3. /\ f[n] \in Scanning /\ Len(f[n].left) <= n /\ Clean(f[n].left)
      /\ n # 0 /\ b[n] = NewLine => f[n].left = <<>>
  BY <1>1, <1>2, ScanStays DEF n
<1> QED
  BY <1>1, <1>2, <1>3 DEF n

---------------------------------------------------------------------------
(* Types *)

Buffered(b) == b \in Seq(Byte) /\ Len(b) <= BufSize /\ Clean(b)

\* A write() in progress has sent bytes_written of the frame of the next payload,
\* which fits, and has something left to send.
Writing ==
    /\ done \in Seq(Call)
    /\ Len(done) <= Len(Payloads)
    /\ m_write_buffer \in Seq(Byte)
    /\ bytes_to_write \in Nat
    /\ bytes_written \in Nat
    /\ cuts \in Nat
    /\ bytes_written + bytes_to_write <= Len(m_write_buffer)
    /\ m_write_buffer # <<>> => /\ link # "hungup"
                                /\ Len(done) < Len(Payloads)
                                /\ bytes_to_write > 0
                                /\ m_write_buffer = Frame(Payloads[Len(done) + 1])
                                /\ Len(m_write_buffer) <= BufSize
    /\ m_write_buffer = <<>> => bytes_to_write = 0 /\ bytes_written = 0 /\ cuts = 0

Reading ==
    /\ wire \in Seq(Byte)
    /\ rx \in Seq(Byte)
    /\ size \in {None} \union Nat
    /\ heard \in Seq(Seq(Byte))
    /\ Buffered(buffer)
    /\ overrun \in BOOLEAN

Types ==
    /\ env \in Env
    /\ link \in {"down", "up", "hungup"}
    /\ links \in 0 .. MaxLinks
    /\ Writing
    /\ Reading

LEMMA SizeType == BufSize \in Nat /\ BufSize > 0 /\ BufSize < 65536
BY SMT, ConstantsAssumption

LEMMA PayloadsType == Payloads \in Seq(Seq(Byte))
BY SMT, ConstantsAssumption

LEMMA TypesAreTyped ==
  ASSUME Types
  PROVE  TypeOK
<1>1. /\ {wire, m_write_buffer, buffer, rx} \subseteq Seq(Byte)
      /\ Len(m_write_buffer) \in Nat
  BY DEF Types, Writing, Reading, Buffered
<1>2. bytes_written + bytes_to_write \in 0 .. Len(m_write_buffer)
  BY <1>1 DEF Types, Writing
<1>3. Len(buffer) <= BufSize /\ ~Contains(buffer, NewLine)
  BY DEF Types, Reading, Buffered, Clean, Contains
<1> QED
  BY <1>1, <1>2, <1>3 DEF TypeOK, Types, Writing, Reading, Call

LEMMA HeaderTyped ==
  ASSUME NEW n \in Nat
  PROVE  /\ Header(n) \in Seq(Nat) /\ Len(Header(n)) = 4
         /\ n < 65536 => Header(n) \in Seq(Byte)
<1> DEFINE a == n \div 16777216
           b == (n \div 65536) % 256
           c == (n \div 256) % 256
           d == n % 256
<1>1. n \div 65536 \in Nat /\ n \div 256 \in Nat
  OBVIOUS
<1>2. a \in Nat /\ b \in Byte /\ c \in Byte /\ d \in Byte
  BY <1>1 DEF Byte
<1>3. n < 65536 => a = 0
  OBVIOUS
<1>4. Header(n) = <<a, b, c, d>>
  BY DEF Header
<1>5. a \in Nat /\ b \in Nat /\ c \in Nat /\ d \in Nat
  BY <1>2 DEF Byte
<1>6. n < 65536 => a \in Byte
  BY <1>3 DEF Byte
<1> HIDE DEF a, b, c, d
<1>7. Header(n) \in Seq(Nat) /\ Len(Header(n)) = 4
  BY <1>4, <1>5
<1>8. n < 65536 => Header(n) \in Seq(Byte)
  BY <1>2, <1>4, <1>6
<1> QED
  BY <1>7, <1>8

LEMMA ByteNat ==
  ASSUME NEW p \in Seq(Byte)
  PROVE  p \in Seq(Nat) /\ Len(p) \in Nat
<1>1. Byte \subseteq Nat
  BY DEF Byte
<1>2. p \in Seq(Nat)
  BY <1>1, SeqMonotonic, Zenon
<1> QED
  BY <1>2

\* The bytes before a payload.
HeaderLength == IF env.mode = "PAYLOAD_HEADER" THEN 4 ELSE 0

LEMMA FrameTyped ==
  ASSUME NEW p \in Seq(Byte)
  PROVE  /\ Frame(p) \in Seq(Nat)
         /\ Len(Frame(p)) = HeaderLength + Len(p) /\ Len(p) \in Nat
         /\ Fits(Frame(p)) => Frame(p) \in Seq(Byte)
<1> DEFINE h == IF env.mode = "PAYLOAD_HEADER" THEN Header(Len(p)) ELSE <<>>
<1>1. p \in Seq(Nat) /\ Len(p) \in Nat
  BY ByteNat
<1>2. Frame(p) = h \o p
  BY DEF Frame
<1>3. h \in Seq(Nat) /\ Len(h) = HeaderLength /\ Len(h) \in Nat
  <2>1. CASE env.mode = "PAYLOAD_HEADER"
    <3>1. h = Header(Len(p)) /\ HeaderLength = 4
      BY <2>1 DEF HeaderLength
    <3> HIDE DEF h
    <3> QED
      BY <1>1, <3>1, HeaderTyped
  <2>2. CASE env.mode # "PAYLOAD_HEADER"
    <3>1. h = <<>> /\ HeaderLength = 0
      BY <2>2 DEF HeaderLength
    <3>2. <<>> \in Seq(Nat) /\ Len(<<>>) = 0
      OBVIOUS
    <3> HIDE DEF h
    <3> QED
      BY <3>1, <3>2
  <2> QED
    BY <2>1, <2>2
<1>4. Len(p) < 65536 => h \in Seq(Byte)
  BY <1>1, HeaderTyped
<1> HIDE DEF h
<1>5. h \o p \in Seq(Nat) /\ Len(h \o p) = Len(h) + Len(p)
  BY <1>1, <1>3, ConcatProperties, Zenon
<1>6. ASSUME Fits(Frame(p)) PROVE Frame(p) \in Seq(Byte)
  <2>1. Len(h) + Len(p) <= BufSize
    BY <1>2, <1>5, <1>6 DEF Fits
  <2>2. Len(p) < 65536
    BY <1>1, <1>3, <2>1, SizeType
  <2>3. h \in Seq(Byte)
    BY <1>4, <2>2
  <2>4. h \o p \in Seq(Byte)
    BY <2>3, ConcatProperties, Zenon
  <2> QED
    BY <1>2, <2>4
<1> QED
  BY <1>1, <1>2, <1>3, <1>5, <1>6

LEMMA PayloadTyped ==
  ASSUME Types, Len(done) < Len(Payloads)
  PROVE  Payloads[Len(done) + 1] \in Seq(Byte)
<1> DEFINE Q == Seq(Byte)
           k == Len(done)
           n == Len(Payloads)
<1>1. k \in Nat /\ k < n /\ n \in Nat
  <2>1. k \in Nat
    BY DEF Types, Writing
  <2>2. n \in Nat
    <3> HIDE DEF Q
    <3>1. Payloads \in Seq(Q)
      BY PayloadsType DEF Q
    <3> QED
      BY <3>1
  <2> QED
    BY <2>1, <2>2
<1>2. k + 1 \in 1 .. n
  BY <1>1
<1>3. Payloads \in Seq(Q)
  BY PayloadsType
<1> HIDE DEF Q, k
<1> QED
  BY <1>2, <1>3 DEF Q, k

\* What recv() takes and leaves.
LEMMA TakenIs ==
  ASSUME NEW n \in Nat, wire \in Seq(Byte), n <= Len(wire)
  PROVE  /\ Taken(n) \in Seq(Byte) /\ Len(Taken(n)) = n
         /\ Rest(wire, n) \in Seq(Byte) /\ Len(Rest(wire, n)) = Len(wire) - n
         /\ Taken(n) \o Rest(wire, n) = wire
<1>1. Len(wire) \in Nat
  OBVIOUS
<1>2. Taken(n) \in Seq(Byte) /\ Len(Taken(n)) = n
  <2>1. \A i \in 1 .. n : wire[i] \in Byte
    BY <1>1
  <2> QED
    BY <1>1, <2>1, SubSeqProperties DEF Taken
<1>3. Rest(wire, n) \in Seq(Byte) /\ Len(Rest(wire, n)) = Len(wire) - n
  <2>1. \A i \in n + 1 .. Len(wire) : wire[i] \in Byte
    BY <1>1
  <2> QED
    BY <1>1, <2>1, SubSeqProperties DEF Rest
<1>4. Taken(n) \o Rest(wire, n) = wire
  <2>1. 1 \in 1 .. Len(wire) + 1 /\ n \in 1 - 1 .. Len(wire) /\ Len(wire) \in n .. Len(wire)
    BY <1>1
  <2>2. SubSeq(wire, 1, n) \o SubSeq(wire, n + 1, Len(wire)) = SubSeq(wire, 1, Len(wire))
    BY <2>1, ConcatAdjacentSubSeq
  <2> QED
    BY <2>2, SubSeqFull DEF Taken, Rest
<1> QED
  BY <1>2, <1>3, <1>4

LEMMA CountsIs ==
  ASSUME NEW asked \in Nat, wire \in Seq(Byte), NEW n \in Counts(asked)
  PROVE  n \in Nat /\ n > 0 /\ n <= Len(wire) /\ n <= asked
<1> DEFINE m == Smaller(asked, Len(wire))
<1>1. m \in Nat /\ m <= asked /\ m <= Len(wire) /\ Len(wire) \in Nat
  BY DEF Smaller
<1> HIDE DEF m
<1>2. CASE env.recvs = "any"
  <2>1. n \in 1 .. m
    BY <1>2 DEF Counts, m
  <2> QED
    BY <1>1, <2>1
<1>3. CASE env.recvs # "any"
  <2>1. n = m /\ 0 < n
    BY <1>3 DEF Counts, m
  <2> QED
    BY <1>1, <2>1
<1> QED
  BY <1>2, <1>3

LEMMA KeptIs ==
  ASSUME Buffered(buffer)
  PROVE  /\ Kept \in Seq(Byte) /\ Clean(Kept)
         /\ Room \in Nat /\ Room > 0 /\ Len(Kept) + Room = BufSize /\ Len(Kept) \in Nat
<1>1. CASE Len(buffer) = BufSize
  <2>1. Kept = <<>> /\ Len(Kept) = 0
    BY <1>1 DEF Kept
  <2>2. <<>> \in Seq(Byte)
    OBVIOUS
  <2> QED
    BY <2>1, <2>2, SizeType DEF Clean, Room
<1>2. CASE Len(buffer) # BufSize
  <2>1. Kept = buffer
    BY <1>2 DEF Kept
  <2>2. Len(buffer) \in Nat /\ Len(buffer) <= BufSize
    BY DEF Buffered
  <2> QED
    BY <1>2, <2>1, <2>2, SizeType DEF Buffered, Room
<1> QED
  BY <1>1, <1>2

LEMMA FinishIs ==
  ASSUME Types, NEW ok \in BOOLEAN, NEW written \in Nat, Len(done) < Len(Payloads),
         Finish(ok, written)
  PROVE  \E c \in Call : /\ c = [payload |-> Payloads[Len(done) + 1], ok |-> ok, bytes |-> written]
                         /\ done' = Append(done, c)
                         /\ done' \in Seq(Call) /\ Len(done') = Len(done) + 1
<1> DEFINE c == [payload |-> Payloads[Len(done) + 1], ok |-> ok, bytes |-> written]
<1>1. Payloads[Len(done) + 1] \in Seq(Byte)
  BY PayloadTyped
<1>2. c \in Call
  BY <1>1 DEF Call
<1>3. done' = Append(done, c)
  BY DEF Finish
<1>4. done \in Seq(Call)
  BY DEF Types, Writing
<1> HIDE DEF c
<1>5. done' \in Seq(Call) /\ Len(done') = Len(done) + 1
  BY <1>2, <1>3, <1>4, AppendProperties
<1> QED
  BY <1>2, <1>3, <1>5 DEF c

LEMMA FrameSame ==
  ASSUME env' = env, NEW p
  PROVE  Frame(p)' = Frame(p) /\ HeaderLength' = HeaderLength
BY DEF Frame, HeaderLength

LEMMA WritingSame ==
  ASSUME Writing, env' = env, UNCHANGED writing,
         link' = "hungup" => link = "hungup" \/ m_write_buffer = <<>>
  PROVE  Writing'
<1>1. Frame(Payloads[Len(done) + 1])' = Frame(Payloads[Len(done) + 1])
  BY FrameSame DEF writing, Frame
<1> QED
  BY <1>1 DEF Writing, writing

LEMMA ReadingSame ==
  ASSUME Reading, UNCHANGED reading, wire' \in Seq(Byte)
  PROVE  Reading'
BY DEF Reading, reading, Buffered

LEMMA NothingClean == Buffered(<<>>)
<1>1. <<>> \in Seq(Byte) /\ Len(<<>>) = 0
  OBVIOUS
<1> QED
  BY <1>1, SizeType DEF Buffered, Clean

LEMMA TypesInit == Init => Types
<1> SUFFICES ASSUME Init PROVE Types
  OBVIOUS
<1> DEFINE Q == Seq(Byte)
<1>1. /\ env \in Env /\ link \in {"down", "up", "hungup"} /\ links \in 0 .. MaxLinks
  <2>1. MaxLinks \in Nat /\ Envs \subseteq Env
    BY SMT, ConstantsAssumption
  <2>2. env \in Envs /\ link = "down" /\ links = 0
    BY Zenon DEF Init
  <2> QED
    BY <2>1, <2>2
<1>2. <<>> \in Seq(Call) /\ <<>> \in Seq(Byte) /\ Len(<<>>) = 0 /\ <<>> \in Seq(Q)
  OBVIOUS
<1>3. Len(Payloads) \in Nat
  <2>1. Payloads \in Seq(Q)
    BY PayloadsType
  <2> HIDE DEF Q
  <2> QED
    BY <2>1
<1>4. Writing
  BY <1>2, <1>3 DEF Init, Writing
<1>5. Reading
  BY <1>2, NothingClean DEF Init, Reading
<1> QED
  BY <1>1, <1>4, <1>5 DEF Types

LEMMA TypesConnect ==
  ASSUME Types, Connect
  PROVE  Types'
<1> DEFINE Q == Seq(Byte)
<1>1. <<>> \in Seq(Call) /\ <<>> \in Seq(Byte) /\ Len(<<>>) = 0 /\ <<>> \in Seq(Q)
  OBVIOUS
<1>2. env' \in Env /\ link' \in {"down", "up", "hungup"} /\ links' \in 0 .. MaxLinks
  <2>1. MaxLinks \in Nat
    BY SMT, ConstantsAssumption
  <2>2. env' = env /\ link' = "up" /\ links' = links + 1 /\ links < MaxLinks
    BY Zenon DEF Connect
  <2>3. env \in Env /\ links \in 0 .. MaxLinks
    BY Zenon DEF Types
  <2> QED
    BY <2>1, <2>2, <2>3
<1>3. Writing'
  <2>1. 0 <= Len(Payloads)
    BY DEF Types, Writing
  <2> QED
    BY <1>1, <2>1 DEF Types, Writing, Connect
<1>4. buffer' = buffer \/ buffer' = <<>>
  BY DEF Connect
<1>5. Buffered(buffer')
  BY <1>4, NothingClean DEF Types, Reading
<1>6. Reading'
  <2>1. overrun' \in BOOLEAN
    BY Zenon DEF Types, Reading, Connect
  <2> QED
    BY <1>1, <1>5, <2>1 DEF Reading, Connect
<1> QED
  BY <1>2, <1>3, <1>6 DEF Types

LEMMA TypesHangUp ==
  ASSUME Types, HangUp
  PROVE  Types'
<1>1. Writing'
  BY WritingSame DEF Types, HangUp
<1>2. Reading'
  BY ReadingSame DEF Types, Reading, HangUp
<1> QED
  BY <1>1, <1>2 DEF Types, HangUp

LEMMA TypesDisconnect ==
  ASSUME Types, Disconnect
  PROVE  Types'
<1>1. Writing'
  BY WritingSame DEF Types, Disconnect
<1>2. Reading'
  <2>1. wire' \in Seq(Byte)
    BY DEF Disconnect
  <2> QED
    BY <2>1, ReadingSame DEF Types, Disconnect
<1> QED
  BY <1>1, <1>2 DEF Types, Disconnect

LEMMA FinishTyped ==
  ASSUME Types, NEW ok \in BOOLEAN, NEW written \in Nat, Len(done) < Len(Payloads),
         Finish(ok, written)
  PROVE  Writing'
<1>1. done' \in Seq(Call) /\ Len(done') = Len(done) + 1
  BY FinishIs
<1>2. Len(done) \in Nat /\ Len(Payloads) \in Nat
  <2> DEFINE Q == Seq(Byte)
  <2>1. Payloads \in Seq(Q)
    BY PayloadsType
  <2>2. Len(Payloads) \in Nat
    <3> HIDE DEF Q
    <3> QED
      BY <2>1
  <2> QED
    BY <2>2 DEF Types, Writing
<1>3. Len(done') <= Len(Payloads)
  BY <1>1, <1>2
<1>4. <<>> \in Seq(Byte) /\ Len(<<>>) = 0
  OBVIOUS
<1> QED
  BY <1>1, <1>3, <1>4 DEF Finish, Writing

LEMMA TypesWrite ==
  ASSUME Types, Write
  PROVE  Types'
<1> DEFINE b == Frame(Payloads[Len(done) + 1])
<1>1. Len(done) < Len(Payloads) /\ UNCHANGED <<env, link, links, wire, reading>> /\ link = "up"
  BY DEF Write
<1>2. Payloads[Len(done) + 1] \in Seq(Byte)
  BY <1>1, PayloadTyped
<1>3. Writing'
  <2>1. CASE Fits(b)
    <3>1. b \in Seq(Byte)
      BY <1>2, <2>1, FrameTyped
    <3>2. b' = b /\ UNCHANGED <<bytes_written, cuts, done>> /\ m_write_buffer' = b
          /\ bytes_to_write' = Len(b) /\ Len(b) <= BufSize
      BY <1>1, <2>1, FrameSame DEF Write, Frame, Fits
    <3>3. bytes_written = 0 /\ cuts = 0
      BY DEF Types, Writing, Write
    <3>4. Frame(Payloads[Len(done) + 1])' = b
      BY <3>2
    <3> HIDE DEF b
    <3>5. Len(b) \in Nat /\ (b # <<>> => Len(b) > 0) /\ (b = <<>> => Len(b) = 0)
      BY <3>1
    <3> QED
      BY <1>1, <3>1, <3>2, <3>3, <3>4, <3>5 DEF Types, Writing
  <2>2. CASE ~Fits(b)
    <3>1. Finish(FALSE, 0)
      BY <2>2 DEF Write
    <3> QED
      BY <1>1, <3>1, FinishTyped
  <2> QED
    BY <2>1, <2>2
<1>4. Reading'
  BY <1>1, ReadingSame DEF Types, Reading
<1> QED
  BY <1>1, <1>3, <1>4 DEF Types

\* What one send() does.
LEMMA SendIs ==
  ASSUME Types, NEW n \in 1 .. bytes_to_write
  PROVE  /\ m_write_buffer # <<>> /\ Len(done) < Len(Payloads) /\ link # "hungup"
         /\ n \in Nat /\ n > 0 /\ bytes_written \in Nat
         /\ bytes_written + n \in Nat /\ bytes_written + n <= Len(m_write_buffer)
         /\ Len(m_write_buffer) \in Nat
         /\ SubSeq(m_write_buffer, bytes_written + 1, bytes_written + n) \in Seq(Byte)
         /\ Left(bytes_to_write, bytes_written + n) \in Int
         /\ bytes_written + n + Left(bytes_to_write, bytes_written + n) = bytes_to_write
<1>1. /\ bytes_to_write \in Nat /\ bytes_written \in Nat /\ m_write_buffer \in Seq(Byte)
      /\ bytes_written + bytes_to_write <= Len(m_write_buffer)
      /\ m_write_buffer = <<>> => bytes_to_write = 0
  BY DEF Types, Writing
<1>2. n \in Nat /\ n > 0 /\ n <= bytes_to_write /\ Len(m_write_buffer) \in Nat
  BY <1>1
<1>3. m_write_buffer # <<>>
  BY <1>1, <1>2
<1>4. Len(done) < Len(Payloads) /\ link # "hungup"
  BY <1>3 DEF Types, Writing
<1>5. bytes_written + n \in Nat /\ bytes_written + n <= Len(m_write_buffer)
  BY <1>1, <1>2
<1>6. SubSeq(m_write_buffer, bytes_written + 1, bytes_written + n) \in Seq(Byte)
  <2>1. \A i \in bytes_written + 1 .. bytes_written + n : m_write_buffer[i] \in Byte
    BY <1>1, <1>2, <1>5
  <2> QED
    BY <1>1, <1>5, <2>1, SubSeqProperties
<1> QED
  BY <1>1, <1>2, <1>3, <1>4, <1>5, <1>6 DEF Left

LEMMA TypesSend ==
  ASSUME Types, Send
  PROVE  Types'
<1>0. PICK n \in 1 .. bytes_to_write :
        LET written == bytes_written + n
            left == Left(bytes_to_write, written)
        IN /\ n = bytes_to_write \/ MayCut
           /\ wire' = IF link = "down" THEN <<>>
                      ELSE wire \o SubSeq(m_write_buffer, bytes_written + 1, written)
           /\ IF left > 0
              THEN /\ bytes_written' = written
                   /\ bytes_to_write' = left
                   /\ cuts' = IF n < bytes_to_write THEN cuts + 1 ELSE cuts
                   /\ UNCHANGED <<m_write_buffer, done>>
              ELSE Finish(TRUE, written)
           /\ UNCHANGED <<env, link, links, reading>>
  BY DEF Send
<1> DEFINE written == bytes_written + n
           left == Left(bytes_to_write, written)
           sent == SubSeq(m_write_buffer, bytes_written + 1, written)
<1>1. /\ m_write_buffer # <<>> /\ Len(done) < Len(Payloads)
      /\ written \in Nat /\ written <= Len(m_write_buffer) /\ Len(m_write_buffer) \in Nat
      /\ sent \in Seq(Byte) /\ left \in Int /\ written + left = bytes_to_write
  BY SendIs
<1>2. UNCHANGED <<env, link, links, reading>>
  BY <1>0
<1>3. Writing'
  <2>1. CASE left > 0
    <3>1. /\ bytes_written' = written
          /\ bytes_to_write' = left
          /\ cuts' = cuts + 1 \/ cuts' = cuts
          /\ UNCHANGED <<m_write_buffer, done>>
      BY <1>0, <2>1
    <3>2. Frame(Payloads[Len(done) + 1])' = Frame(Payloads[Len(done) + 1])
      BY <1>2, <3>1 DEF Frame
    <3>3. bytes_to_write' \in Nat /\ bytes_to_write' > 0 /\ bytes_written' \in Nat /\ cuts' \in Nat
      <4>1. cuts \in Nat
        BY DEF Types, Writing
      <4> HIDE DEF written, left
      <4> QED
        BY <1>1, <2>1, <3>1, <4>1
    <3>4. bytes_written' + bytes_to_write' <= Len(m_write_buffer')
      <4>1. bytes_to_write <= Len(m_write_buffer)
        BY <1>1 DEF Types, Writing
      <4> HIDE DEF written, left
      <4> QED
        BY <1>1, <3>1, <4>1
    <3> QED
      BY <1>1, <1>2, <3>1, <3>2, <3>3, <3>4 DEF Types, Writing
  <2>2. CASE ~(left > 0)
    <3>1. Finish(TRUE, written)
      BY <1>0, <2>2
    <3> HIDE DEF written
    <3> QED
      BY <1>1, <3>1, FinishTyped
  <2> QED
    BY <2>1, <2>2
<1>4. Reading'
  <2>1. wire' = <<>> \/ wire' = wire \o sent
    BY <1>0
  <2>2. wire \in Seq(Byte) /\ <<>> \in Seq(Byte)
    BY DEF Types, Reading
  <2> HIDE DEF sent
  <2>3. wire \o sent \in Seq(Byte)
    BY <1>1, <2>2, ConcatProperties, Zenon
  <2>4. wire' \in Seq(Byte)
    BY <2>1, <2>2, <2>3
  <2> QED
    BY <1>2, <2>4, ReadingSame DEF Types
<1> QED
  BY <1>2, <1>3, <1>4 DEF Types

LEMMA TypesSendFails ==
  ASSUME Types, SendFails
  PROVE  Types'
<1>1. Len(done) < Len(Payloads) /\ UNCHANGED <<env, link, links, wire, reading>>
  BY DEF Types, Writing, SendFails
<1>2. Writing'
  <2>1. bytes_written \in Nat /\ Finish(FALSE, bytes_written)
    BY DEF Types, Writing, SendFails, Failed
  <2> QED
    BY <1>1, <2>1, FinishTyped
<1>3. Reading'
  BY <1>1, ReadingSame DEF Types, Reading
<1> QED
  BY <1>1, <1>2, <1>3 DEF Types

LEMMA TakeIs ==
  ASSUME Types, NEW n \in Nat, n <= Len(wire), Take(n)
  PROVE  /\ link # "down"
         /\ Taken(n) \in Seq(Byte) /\ Len(Taken(n)) = n
         /\ wire' \in Seq(Byte) /\ wire = Taken(n) \o wire' /\ Len(wire') = Len(wire) - n
         /\ rx' = rx \o Taken(n) /\ rx' \in Seq(Byte)
<1>1. wire \in Seq(Byte) /\ rx \in Seq(Byte)
  BY DEF Types, Reading
<1>2. /\ Taken(n) \in Seq(Byte) /\ Len(Taken(n)) = n
      /\ Rest(wire, n) \in Seq(Byte) /\ Len(Rest(wire, n)) = Len(wire) - n
      /\ Taken(n) \o Rest(wire, n) = wire
  BY <1>1, TakenIs
<1>3. link # "down" /\ wire' = Rest(wire, n) /\ rx' = rx \o Taken(n)
  BY DEF Take
<1>4. rx \o Taken(n) \in Seq(Byte)
  BY <1>1, <1>2, ConcatProperties, Zenon
<1> QED
  BY <1>2, <1>3, <1>4

\* One recv() in delimiter mode: it fits, and what the loop leaves does.
LEMMA RecvLinesIs ==
  ASSUME Types, RecvLines
  PROVE  \E n \in Nat :
           /\ n > 0 /\ n <= Len(wire) /\ Len(Kept) + n <= BufSize
           /\ Take(n)
           /\ Kept \o Taken(n) \in Seq(Byte)
           /\ Len(Kept \o Taken(n)) = Len(Kept) + n
           /\ heard' = heard \o Scan(Kept \o Taken(n)).lines
           /\ buffer' = Scan(Kept \o Taken(n)).left
           /\ Scan(Kept \o Taken(n)).lines \in Seq(Seq(Byte))
           /\ Buffered(buffer')
<1>1. PICK n \in 1 .. Smaller(Room, Len(wire)) :
           /\ Take(n)
           /\ heard' = heard \o Scan(Kept \o Taken(n)).lines
           /\ buffer' = Scan(Kept \o Taken(n)).left
  BY DEF RecvLines, Lines
<1>2. /\ Kept \in Seq(Byte) /\ Len(Kept) \in Nat
      /\ Room \in Nat /\ Len(Kept) + Room = BufSize
  BY KeptIs DEF Types, Reading
<1>3. n \in Nat /\ n > 0 /\ n <= Len(wire) /\ Len(Kept) + n <= BufSize
  <2>1. Len(wire) \in Nat
    BY DEF Types, Reading
  <2> QED
    BY <1>2, <2>1, SizeType DEF Smaller
<1>4. Taken(n) \in Seq(Byte) /\ Len(Taken(n)) = n
  BY <1>1, <1>3, TakeIs
<1> DEFINE b == Kept \o Taken(n)
<1>5. b \in Seq(Byte) /\ Len(b) = Len(Kept) + n
  BY <1>2, <1>4, ConcatProperties
<1> HIDE DEF b
<1>6. Scan(b) \in Scanning /\ Len(Scan(b).left) <= Len(b) /\ Clean(Scan(b).left)
  BY <1>5, ScanClean
<1>7. Scan(b).lines \in Seq(Seq(Byte)) /\ Scan(b).left \in Seq(Byte)
  BY <1>6 DEF Scanning
<1>8. Len(Scan(b).left) <= BufSize
  <2>1. Len(Scan(b).left) \in Nat
    BY <1>7
  <2> QED
    BY <1>2, <1>3, <1>5, <1>6, <2>1, SizeType
<1>9. Buffered(Scan(b).left)
  BY <1>6, <1>7, <1>8 DEF Buffered
<1> QED
  BY <1>1, <1>3, <1>5, <1>7, <1>9 DEF b

LEMMA TypesRecvLines ==
  ASSUME Types, RecvLines
  PROVE  Types'
<1>1. PICK n \in Nat :
           /\ n > 0 /\ n <= Len(wire)
           /\ Take(n)
           /\ heard' = heard \o Scan(Kept \o Taken(n)).lines
           /\ Scan(Kept \o Taken(n)).lines \in Seq(Seq(Byte))
           /\ Buffered(buffer')
  BY RecvLinesIs
<1>2. UNCHANGED <<env, link, links, writing, size, overrun>>
  BY DEF RecvLines
<1>3. wire' \in Seq(Byte) /\ rx' \in Seq(Byte)
  BY <1>1, TakeIs
<1>4. heard' \in Seq(Seq(Byte))
  <2> DEFINE Q == Seq(Byte)
  <2>1. heard \in Seq(Q) /\ Scan(Kept \o Taken(n)).lines \in Seq(Q)
    BY <1>1 DEF Types, Reading
  <2> HIDE DEF Q
  <2>2. heard' \in Seq(Q)
    BY <1>1, <2>1, ConcatProperties, Zenon
  <2> QED
    BY <2>2 DEF Q
<1>5. Reading'
  BY <1>1, <1>2, <1>3, <1>4 DEF Types, Reading
<1>6. Writing'
  BY <1>2, WritingSame DEF Types
<1> QED
  BY <1>2, <1>5, <1>6 DEF Types

LEMMA decodeTyped ==
  ASSUME NEW h \in Seq(Nat), Len(h) = 4
  PROVE  decodeMessageLength(h) \in Nat
<1>1. h[1] \in Nat /\ h[2] \in Nat /\ h[3] \in Nat /\ h[4] \in Nat
  <2>1. \A i \in 1 .. Len(h) : h[i] \in Nat
    BY ElementOfSeq, Zenon
  <2>2. 1 \in 1 .. Len(h) /\ 2 \in 1 .. Len(h) /\ 3 \in 1 .. Len(h) /\ 4 \in 1 .. Len(h)
    OBVIOUS
  <2> QED
    BY <2>1, <2>2
<1> QED
  BY SMTT(30), <1>1 DEF decodeMessageLength

LEMMA RecvHeaderIs ==
  ASSUME Types, RecvHeader
  PROVE  \E n \in Nat :
           /\ n \in Counts(4) /\ n > 0 /\ n <= Len(wire) /\ n <= 4
           /\ Take(n)
           /\ size' = IF n = 4 THEN decodeMessageLength(Taken(n)) ELSE None
<1>1. PICK n \in Counts(4) :
           /\ Take(n)
           /\ size' = IF n = 4 THEN decodeMessageLength(Taken(n)) ELSE None
  BY DEF RecvHeader, HeaderSize
<1>2. n \in Nat /\ n > 0 /\ n <= Len(wire) /\ n <= 4
  BY CountsIs DEF Types, Reading
<1> QED
  BY <1>1, <1>2

LEMMA TypesRecvHeader ==
  ASSUME Types, RecvHeader
  PROVE  Types'
<1>1. PICK n \in Nat :
           /\ n > 0 /\ n <= Len(wire)
           /\ Take(n)
           /\ size' = IF n = 4 THEN decodeMessageLength(Taken(n)) ELSE None
  BY RecvHeaderIs
<1>2. UNCHANGED <<env, link, links, writing, buffer, heard, overrun>>
  BY DEF RecvHeader
<1>3. wire' \in Seq(Byte) /\ rx' \in Seq(Byte) /\ Taken(n) \in Seq(Byte) /\ Len(Taken(n)) = n
  BY <1>1, TakeIs
<1>4. size' \in {None} \union Nat
  <2>1. CASE n = 4
    <3>1. Taken(n) \in Seq(Nat)
      BY <1>3, ByteNat
    <3> QED
      BY <1>1, <1>3, <2>1, <3>1, decodeTyped
  <2>2. CASE n # 4
    BY <1>1, <2>2
  <2> QED
    BY <2>1, <2>2
<1>5. Reading'
  BY <1>2, <1>3, <1>4 DEF Types, Reading, Buffered
<1>6. Writing'
  BY <1>2, WritingSame DEF Types
<1> QED
  BY <1>2, <1>5, <1>6 DEF Types

LEMMA RecvPayloadIs ==
  ASSUME Types, RecvPayload
  PROVE  /\ size \in Nat /\ size' = None
         /\ \E n \in Nat :
              /\ n \in Counts(size) \/ (n = 0 /\ size = 0)
              /\ n <= Len(wire) /\ n <= size
              /\ Take(n)
              /\ heard' = IF n = size THEN Append(heard, Taken(n)) ELSE heard
              /\ overrun' = (overrun \/ Overruns(n))
<1>1. size \in Nat /\ size' = None
  BY DEF Types, Reading, RecvPayload
<1>2. PICK n \in Counts(size) \union {s \in {size} : s = 0} :
           /\ Take(n)
           /\ heard' = IF n = size THEN Append(heard, Taken(n)) ELSE heard
           /\ overrun' = (overrun \/ Overruns(n))
  BY DEF RecvPayload
<1>3. wire \in Seq(Byte) /\ Len(wire) \in Nat
  BY DEF Types, Reading
<1>4. n \in Counts(size) \/ (n = 0 /\ size = 0)
  OBVIOUS
<1>5. n \in Nat /\ n <= Len(wire) /\ n <= size
  <2>1. CASE n \in Counts(size)
    BY <1>1, <1>3, <2>1, CountsIs
  <2>2. CASE n = 0 /\ size = 0
    BY <1>3, <2>2
  <2> QED
    BY <1>4, <2>1, <2>2
<1> QED
  BY <1>1, <1>2, <1>4, <1>5

LEMMA TypesRecvPayload ==
  ASSUME Types, RecvPayload
  PROVE  Types'
<1>1. PICK n \in Nat :
           /\ n <= Len(wire)
           /\ Take(n)
           /\ heard' = IF n = size THEN Append(heard, Taken(n)) ELSE heard
           /\ overrun' = (overrun \/ Overruns(n))
  BY RecvPayloadIs
<1>2. UNCHANGED <<env, link, links, writing, buffer>> /\ size' = None
  BY DEF RecvPayload
<1>3. wire' \in Seq(Byte) /\ rx' \in Seq(Byte) /\ Taken(n) \in Seq(Byte)
  BY <1>1, TakeIs
<1>4. heard' \in Seq(Seq(Byte))
  <2> DEFINE Q == Seq(Byte)
  <2>1. heard \in Seq(Q) /\ Taken(n) \in Q
    BY <1>3 DEF Types, Reading
  <2> HIDE DEF Q
  <2>2. Append(heard, Taken(n)) \in Seq(Q)
    BY <2>1, AppendProperties
  <2>3. heard' \in Seq(Q)
    BY <1>1, <2>1, <2>2
  <2> QED
    BY <2>3 DEF Q
<1>5. overrun' \in BOOLEAN
  BY Zenon, <1>1
<1>6. Reading'
  BY <1>2, <1>3, <1>4, <1>5 DEF Types, Reading, Buffered
<1>7. Writing'
  BY <1>2, WritingSame DEF Types
<1> QED
  BY <1>2, <1>6, <1>7 DEF Types

LEMMA TypesRecvTimesOut ==
  ASSUME Types, RecvTimesOut
  PROVE  Types'
<1>1. /\ UNCHANGED <<env, link, links, wire, writing, buffer, rx, overrun>>
      /\ size' = None /\ (heard' = heard \/ heard' = Append(heard, <<>>))
  BY DEF RecvTimesOut
<1>2. heard' \in Seq(Seq(Byte))
  <2> DEFINE Q == Seq(Byte)
  <2>1. heard \in Seq(Q) /\ <<>> \in Q
    BY DEF Types, Reading
  <2> HIDE DEF Q
  <2>2. Append(heard, <<>>) \in Seq(Q)
    BY <2>1, AppendProperties
  <2>3. heard' \in Seq(Q)
    BY <1>1, <2>1, <2>2
  <2> QED
    BY <2>3 DEF Q
<1>3. Writing'
  BY <1>1, WritingSame DEF Types
<1>4. Reading'
  BY <1>1, <1>2 DEF Types, Reading, Buffered
<1> QED
  BY <1>1, <1>3, <1>4 DEF Types

LEMMA TypesRecvEnd ==
  ASSUME Types, RecvEnd
  PROVE  Types'
<1>1. /\ UNCHANGED <<env, links, wire, writing, buffer, rx, heard, overrun>>
      /\ size' = None /\ link' = "down"
  BY DEF RecvEnd
<1>2. Writing'
  BY <1>1, WritingSame DEF Types
<1>3. Reading'
  BY <1>1 DEF Types, Reading, Buffered
<1> QED
  BY <1>1, <1>2, <1>3 DEF Types

LEMMA TypesStep == Types /\ [Next]_vars => Types'
<1> SUFFICES ASSUME Types, [Next]_vars PROVE Types'
  OBVIOUS
<1>1. CASE Connect
  BY <1>1, TypesConnect
<1>2. CASE HangUp
  BY <1>2, TypesHangUp
<1>3. CASE Disconnect
  BY <1>3, TypesDisconnect
<1>4. CASE Write
  BY <1>4, TypesWrite
<1>5. CASE Send
  BY <1>5, TypesSend
<1>6. CASE SendFails
  BY <1>6, TypesSendFails
<1>7. CASE RecvLines
  BY <1>7, TypesRecvLines
<1>8. CASE RecvHeader
  BY <1>8, TypesRecvHeader
<1>9. CASE RecvPayload
  BY <1>9, TypesRecvPayload
<1>10. CASE RecvTimesOut
  BY <1>10, TypesRecvTimesOut
<1>11. CASE RecvEnd
  BY <1>11, TypesRecvEnd
<1>12. CASE UNCHANGED vars
  <2>1. UNCHANGED <<env, link, links, wire>> /\ UNCHANGED writing /\ UNCHANGED reading
    BY <1>12 DEF vars
  <2>2. Writing'
    BY <2>1, WritingSame DEF Types
  <2>3. Reading'
    BY <2>1, ReadingSame DEF Types, Reading
  <2> QED
    BY <2>1, <2>2, <2>3 DEF Types
<1> QED
  BY <1>1, <1>2, <1>3, <1>4, <1>5, <1>6, <1>7, <1>8, <1>9, <1>10, <1>11, <1>12 DEF Next

LEMMA TypesInvariant == Spec => []Types
<1>1. Init => Types
  BY TypesInit
<1>2. Types /\ [Next]_vars => Types'
  BY TypesStep
<1> QED
  BY <1>1, <1>2, PTL DEF Spec

\* Whatever is written and however it is cut: the counters of write() stay
\* within its buffer, and what is kept of an unfinished line within that of the
\* reader; no whole line is kept.
THEOREM TypeCorrect == Spec => []TypeOK
<1>1. Types => TypeOK
  BY TypesAreTyped
<1> QED
  BY <1>1, TypesInvariant, PTL

---------------------------------------------------------------------------
(* What write() reports *)

Told(c) == c.ok <=> c.bytes = Len(Frame(c.payload))

\* The counters add up to the frame as long as nothing was cut twice: the first
\* cut takes off what was sent, and the next send goes to the end.
Truth ==
    env.sends # "any" =>
        /\ \A i \in 1 .. Len(done) : Told(done[i])
        /\ m_write_buffer # <<>> =>
               /\ bytes_written + bytes_to_write = Len(m_write_buffer)
               /\ cuts = 0 => bytes_written = 0
               /\ env.sends = "whole" => cuts = 0

LEMMA TruthFinish ==
  ASSUME Types, Truth, NEW ok \in BOOLEAN, NEW written \in Nat, Len(done) < Len(Payloads),
         Finish(ok, written), env' = env,
         env.sends # "any" => (ok <=> written = Len(Frame(Payloads[Len(done) + 1])))
  PROVE  Truth'
<1> DEFINE n == Len(done)
           p == Payloads[n + 1]
<1>1. PICK c \in Call : /\ c = [payload |-> p, ok |-> ok, bytes |-> written]
                        /\ done' = Append(done, c) /\ Len(done') = n + 1
  BY FinishIs
<1>2. done \in Seq(Call) /\ n \in Nat
  BY DEF Types, Writing
<1>3. done'[n + 1] = c /\ \A i \in 1 .. n : done'[i] = done[i]
  BY <1>1, <1>2, AppendProperties
<1>4. c.payload = p /\ c.ok = ok /\ c.bytes = written
  BY <1>1
<1> HIDE DEF n, p
<1>5. ASSUME env.sends # "any" PROVE (\A i \in 1 .. Len(done) : Told(done[i]))'
  <2> SUFFICES ASSUME NEW i \in 1 .. n + 1 PROVE Told(done[i])'
    BY <1>1
  <2>1. CASE i = n + 1
    <3>1. Told(c)
      BY <1>4, <1>5 DEF Told, n, p
    <3> QED
      BY <1>3, <2>1, <3>1 DEF Told, Frame
  <2>2. CASE i # n + 1
    <3>1. i \in 1 .. n
      BY <1>2, <2>2
    <3>2. Told(done[i])
      BY <1>5, <3>1 DEF Truth, n
    <3> QED
      BY <1>3, <3>1, <3>2 DEF Told, Frame
  <2> QED
    BY <2>1, <2>2
<1>6. m_write_buffer' = <<>>
  BY DEF Finish
<1> QED
  BY <1>5, <1>6 DEF Truth

LEMMA TruthSame ==
  ASSUME Truth, env' = env, UNCHANGED writing
  PROVE  Truth'
BY DEF Truth, Told, Frame, writing

LEMMA TruthInit == Init => Truth
<1> SUFFICES ASSUME Init PROVE Truth
  OBVIOUS
<1>1. done = <<>> /\ m_write_buffer = <<>> /\ Len(done) = 0
  BY DEF Init
<1> QED
  BY <1>1 DEF Truth

LEMMA TruthConnect ==
  ASSUME Truth, Connect
  PROVE  Truth'
<1>1. done' = <<>> /\ m_write_buffer' = <<>> /\ Len(done') = 0
  BY DEF Connect
<1> QED
  BY <1>1 DEF Truth

LEMMA TruthWrite ==
  ASSUME Types, Truth, Write
  PROVE  Truth'
<1> DEFINE p == Payloads[Len(done) + 1]
           b == Frame(p)
<1>1. Len(done) < Len(Payloads) /\ env' = env
  BY DEF Write
<1>2. p \in Seq(Byte)
  BY <1>1, PayloadTyped
<1>3. CASE Fits(b)
  <2>1. /\ m_write_buffer' = b /\ bytes_to_write' = Len(b)
        /\ UNCHANGED <<bytes_written, cuts, done>>
    BY <1>3 DEF Write
  <2>2. bytes_written = 0 /\ cuts = 0
    BY DEF Types, Writing, Write
  <2>3. Len(b) \in Nat
    BY <1>2, FrameTyped
  <2>4. (\A i \in 1 .. Len(done) : Told(done[i])) => (\A i \in 1 .. Len(done) : Told(done[i]))'
    BY <1>1, <2>1 DEF Told, Frame
  <2>5. bytes_written' + bytes_to_write' = Len(m_write_buffer') /\ bytes_written' = 0 /\ cuts' = 0
    <3> HIDE DEF b
    <3> QED
      BY <2>1, <2>2, <2>3
  <2> QED
    BY <1>1, <2>4, <2>5 DEF Truth
<1>4. CASE ~Fits(b)
  <2>1. Finish(FALSE, 0)
    BY <1>4 DEF Write
  <2>2. Len(b) # 0
    <3>1. Len(b) \in Nat
      BY <1>2, FrameTyped
    <3> HIDE DEF b
    <3> QED
      BY <1>4, <3>1, SizeType DEF Fits
  <2>3. 0 \in Nat /\ FALSE \in BOOLEAN
    OBVIOUS
  <2> QED
    BY <1>1, <2>1, <2>2, <2>3, TruthFinish
<1> QED
  BY <1>3, <1>4

LEMMA TruthSend ==
  ASSUME Types, Truth, Send
  PROVE  Truth'
<1>0. PICK n \in 1 .. bytes_to_write :
        LET written == bytes_written + n
            left == Left(bytes_to_write, written)
        IN /\ n = bytes_to_write \/ MayCut
           /\ IF left > 0
              THEN /\ bytes_written' = written
                   /\ bytes_to_write' = left
                   /\ cuts' = IF n < bytes_to_write THEN cuts + 1 ELSE cuts
                   /\ UNCHANGED <<m_write_buffer, done>>
              ELSE Finish(TRUE, written)
           /\ env' = env
  BY DEF Send
<1> DEFINE written == bytes_written + n
           left == Left(bytes_to_write, written)
           len == Len(m_write_buffer)
<1>1. /\ m_write_buffer # <<>> /\ Len(done) < Len(Payloads)
      /\ written \in Nat /\ len \in Nat /\ n \in Nat /\ n > 0 /\ n <= bytes_to_write
      /\ bytes_written \in Nat /\ bytes_to_write \in Nat /\ cuts \in Nat
      /\ left = bytes_to_write - written
      /\ m_write_buffer = Frame(Payloads[Len(done) + 1])
  BY SendIs DEF Types, Writing, Left
<1>2. /\ n = bytes_to_write \/ MayCut
      /\ env' = env
  BY <1>0
<1>3. ASSUME env.sends # "any"
      PROVE  /\ bytes_written + bytes_to_write = len
             /\ cuts = 0 => bytes_written = 0
             /\ env.sends = "whole" => cuts = 0
             /\ \A i \in 1 .. Len(done) : Told(done[i])
             /\ n < bytes_to_write => env.sends = "once" /\ cuts = 0
  BY <1>1, <1>2, <1>3 DEF Truth, MayCut
<1>4. CASE left > 0
  <2>1. /\ bytes_written' = written
        /\ bytes_to_write' = left
        /\ cuts' = IF n < bytes_to_write THEN cuts + 1 ELSE cuts
        /\ UNCHANGED <<m_write_buffer, done>>
    BY <1>0, <1>4
  <2>2. ASSUME env.sends # "any"
        PROVE  /\ bytes_written' + bytes_to_write' = len
               /\ cuts' # 0
               /\ env.sends # "whole"
    <3>1. n < bytes_to_write
      <4> HIDE DEF len
      <4>1. bytes_written + n < bytes_to_write
        BY <1>1, <1>4
      <4> QED
        BY <1>1, <4>1
    <3>2. bytes_written = 0 /\ env.sends = "once" /\ cuts = 0
      BY <1>3, <2>2, <3>1
    <3> HIDE DEF len
    <3> QED
      BY <1>1, <1>3, <2>1, <2>2, <3>1, <3>2
  <2> QED
    BY <1>2, <1>3, <2>1, <2>2 DEF Truth, Told, Frame
<1>5. CASE ~(left > 0)
  <2>1. Finish(TRUE, written)
    BY <1>0, <1>5
  <2>2. ASSUME env.sends # "any" PROVE written = len
    <3>1. ~(n < bytes_to_write)
      <4>1. SUFFICES ASSUME n < bytes_to_write PROVE FALSE
        OBVIOUS
      <4>2. bytes_written = 0
        BY <1>3, <2>2, <4>1
      <4> QED
        BY <1>1, <1>5, <4>1, <4>2
    <3> HIDE DEF len
    <3> QED
      BY <1>1, <1>3, <2>2, <3>1
  <2>3. env.sends # "any" => (TRUE <=> written = Len(Frame(Payloads[Len(done) + 1])))
    BY <1>1, <2>2
  <2>4. TRUE \in BOOLEAN
    OBVIOUS
  <2> HIDE DEF written
  <2> QED
    BY <1>1, <1>2, <2>1, <2>3, <2>4, TruthFinish
<1> QED
  BY <1>4, <1>5

LEMMA TruthSendFails ==
  ASSUME Types, Truth, SendFails
  PROVE  Truth'
<1>1. /\ m_write_buffer # <<>> /\ env' = env
      /\ Finish(FALSE, bytes_written)
  BY DEF SendFails, Failed
<1>2. /\ bytes_written \in Nat /\ bytes_to_write \in Nat /\ bytes_to_write > 0
      /\ bytes_written + bytes_to_write <= Len(m_write_buffer)
      /\ m_write_buffer = Frame(Payloads[Len(done) + 1]) /\ Len(done) < Len(Payloads)
      /\ Len(m_write_buffer) \in Nat
  BY <1>1 DEF Types, Writing
<1>3. bytes_written # Len(Frame(Payloads[Len(done) + 1]))
  BY <1>2
<1>4. env.sends # "any" => (FALSE <=> bytes_written = Len(Frame(Payloads[Len(done) + 1])))
  BY <1>3
<1>5. FALSE \in BOOLEAN
  OBVIOUS
<1> QED
  BY <1>1, <1>2, <1>4, <1>5, TruthFinish

\* The steps that are no part of write().
LEMMA SendsRest ==
  ASSUME Next
  PROVE  Connect \/ Write \/ Send \/ SendFails \/ (env' = env /\ UNCHANGED writing)
BY DEF Next, HangUp, Disconnect, RecvLines, RecvHeader, RecvPayload, RecvTimesOut, RecvEnd

LEMMA TruthStep == Types /\ Truth /\ [Next]_vars => Truth'
<1> SUFFICES ASSUME Types, Truth, [Next]_vars PROVE Truth'
  OBVIOUS
<1>1. CASE Connect
  BY <1>1, TruthConnect
<1>2. CASE Write
  BY <1>2, TruthWrite
<1>3. CASE Send
  BY <1>3, TruthSend
<1>4. CASE SendFails
  BY <1>4, TruthSendFails
<1>5. CASE env' = env /\ UNCHANGED writing
  BY <1>5, TruthSame
<1>6. CASE UNCHANGED vars
  BY <1>6, TruthSame DEF vars
<1> QED
  BY <1>1, <1>2, <1>3, <1>4, <1>5, <1>6, SendsRest

LEMMA TruthTold == Types /\ Truth => WriteTruth
<1> SUFFICES ASSUME Types, Truth PROVE WriteTruth
  OBVIOUS
<1>1. DOMAIN done = 1 .. Len(done)
  BY DEF Types, Writing
<1> QED
  BY <1>1 DEF Truth, WriteTruth, Told

LEMMA TruthInvariant == Spec => []Truth
<1>1. Init => Truth
  BY TruthInit
<1>2. Types /\ Types' /\ Truth /\ [Next]_vars => Truth'
  BY TruthStep
<1> QED
  BY <1>1, <1>2, TypesInvariant, PTL DEF Spec

\* Whatever is written, write() returns true if and only if all bytes of the
\* frame were sent, as long as no write() is cut twice.
THEOREM WritesAreTrue == Spec => []WriteTruth
<1>1. Types /\ Truth => WriteTruth
  BY TruthTold
<1> QED
  BY <1>1, TypesInvariant, TruthInvariant, PTL

---------------------------------------------------------------------------
(* Sequences *)

Nats == Seq(Nat)

LEMMA FromFunction ==
  ASSUME NEW S, NEW n \in Nat, NEW f, f = [i \in 1 .. n |-> f[i]],
         \A i \in 1 .. n : f[i] \in S
  PROVE  f \in Seq(S) /\ Len(f) = n
<1>1. f \in [1 .. n -> S]
  OBVIOUS
<1> QED
  BY <1>1

LEMMA Associative == \A a, b, c \in Nats : (a \o b) \o c = a \o (b \o c)
BY SMTT(30), ConcatAssociative DEF Nats

LEMMA Concatenated ==
  \A a, b \in Nats : a \o b \in Nats /\ Len(a \o b) = Len(a) + Len(b) /\ Len(a) \in Nat
BY ConcatProperties DEF Nats

LEMMA Cancelled == \A a, b, c \in Nats : a \o b = a \o c => b = c
BY ConcatSimplifications DEF Nats

LEMMA NothingAdded == <<>> \in Nats /\ Len(<<>>) = 0 /\ \A a \in Nats : a \o <<>> = a /\ <<>> \o a = a
<1>1. <<>> \in Nats /\ Len(<<>>) = 0
  BY DEF Nats
<1>2. \A a \in Nats : a \o <<>> = a /\ <<>> \o a = a
  BY ConcatEmptySeq DEF Nats
<1> QED
  BY <1>1, <1>2

LEMMA SameHeads ==
  ASSUME NEW a \in Nats, NEW b \in Nats, NEW c \in Nats, NEW d \in Nats,
         a \o b = c \o d, Len(a) = Len(c)
  PROVE  a = c /\ b = d
<1>1. Len(a) \in Nat /\ Len(b) \in Nat
  BY DEF Nats
<1>2. ASSUME NEW i \in 1 .. Len(a) PROVE a[i] = c[i]
  <2>1. i \in 1 .. Len(a) + Len(b) /\ i <= Len(a) /\ i \in 1 .. Len(c) + Len(d)
    BY <1>1 DEF Nats
  <2>2. (a \o b)[i] = a[i]
    BY <2>1, ConcatProperties DEF Nats
  <2>3. (c \o d)[i] = c[i]
    BY <2>1, ConcatProperties DEF Nats
  <2> QED
    BY <2>2, <2>3
<1>3. a = c
  BY <1>2, SeqEqual DEF Nats
<1> QED
  BY <1>3, Cancelled

\* A sequence is a prefix if it is as long and has the same elements.
LEMMA PrefixIs ==
  ASSUME NEW S, NEW s \in Seq(S), NEW t \in Seq(S)
  PROVE  IsPrefix(s, t) <=> Len(s) <= Len(t) /\ \A i \in 1 .. Len(s) : s[i] = t[i]
<1> DEFINE n == Len(s)
<1>1. n \in Nat /\ Len(t) \in Nat
  OBVIOUS
<1>2. SubSeq(s, 1, n) = s
  BY SubSeqFull
<1>3. ASSUME n <= Len(t)
      PROVE  SubSeq(t, 1, n) \in Seq(S) /\ Len(SubSeq(t, 1, n)) = n
             /\ \A i \in 1 .. n : SubSeq(t, 1, n)[i] = t[i]
  <2>1. \A i \in 1 .. n : t[i] \in S
    BY <1>1, <1>3
  <2>2. /\ SubSeq(t, 1, n) \in Seq(S)
        /\ Len(SubSeq(t, 1, n)) = IF 1 <= n THEN n - 1 + 1 ELSE 0
        /\ \A i \in 1 .. n - 1 + 1 : SubSeq(t, 1, n)[i] = t[1 + i - 1]
    BY <1>1, <2>1, SubSeqProperties
  <2>3. n - 1 + 1 = n /\ \A i \in 1 .. n : 1 + i - 1 = i
    BY <1>1
  <2> QED
    BY <1>1, <2>2, <2>3
<1>4. ASSUME IsPrefix(s, t) PROVE n <= Len(t) /\ \A i \in 1 .. n : s[i] = t[i]
  <2>1. n <= Len(t) /\ s = SubSeq(t, 1, n)
    BY <1>2, <1>4 DEF IsPrefix
  <2> HIDE DEF n
  <2> QED
    BY <1>3, <2>1
<1>5. ASSUME n <= Len(t), \A i \in 1 .. n : s[i] = t[i] PROVE IsPrefix(s, t)
  <2>1. s = SubSeq(t, 1, n)
    BY <1>3, <1>5, SeqEqual
  <2> QED
    BY <1>2, <1>5, <2>1 DEF IsPrefix
<1> QED
  BY <1>4, <1>5

---------------------------------------------------------------------------
(* Messages *)

\* A payload with its header, and all of those in a row.
Message(p) == Header(Len(p)) \o p
Messages(s) == FlattenSeq([i \in DOMAIN s |-> Message(s[i])])

LEMMA FramesAre ==
  ASSUME env.mode = "PAYLOAD_HEADER", NEW s
  PROVE  Frames(s) = Messages(s)
BY DEF Frames, Messages, Frame, Message

LEMMA MessageIs ==
  ASSUME NEW p \in Seq(Byte)
  PROVE  /\ Message(p) \in Nats /\ Len(Message(p)) = 4 + Len(p) /\ Len(p) \in Nat
         /\ p \in Nats
         /\ Header(Len(p)) \in Nats /\ Len(Header(Len(p))) = 4
<1>1. p \in Nats /\ Len(p) \in Nat
  BY ByteNat DEF Nats
<1>2. Header(Len(p)) \in Nats /\ Len(Header(Len(p))) = 4
  BY <1>1, HeaderTyped DEF Nats
<1> QED
  BY <1>1, <1>2, Concatenated DEF Message

LEMMA MessagesNone == Messages(<<>>) = <<>>
<1> DEFINE e == [i \in DOMAIN <<>> |-> Message(<<>>[i])]
<1>1. DOMAIN <<>> = {}
  OBVIOUS
<1>2. e = <<>>
  BY <1>1
<1>3. FlattenSeq(<<>>) = <<>>
  BY DEF FlattenSeq
<1> HIDE DEF e
<1> QED
  BY <1>2, <1>3 DEF Messages, e

LEMMA MessagesAppend ==
  ASSUME NEW s \in Seq(Seq(Byte)), NEW p \in Seq(Byte)
  PROVE  /\ Messages(s) \in Nats
         /\ Messages(Append(s, p)) = Messages(s) \o Message(p)
<1> DEFINE Q == Seq(Byte)
           sp == Append(s, p)
           n == Len(s)
           m == [i \in DOMAIN s |-> Message(s[i])]
           mp == [i \in DOMAIN sp |-> Message(sp[i])]
<1>1. s \in Seq(Q) /\ p \in Q /\ \A q \in Q : Message(q) \in Nats
  BY MessageIs
<1>2. /\ sp \in Seq(Q) /\ Len(sp) = n + 1 /\ n \in Nat
      /\ sp[n + 1] = p /\ \A i \in 1 .. n : sp[i] = s[i]
      /\ DOMAIN s = 1 .. n /\ DOMAIN sp = 1 .. n + 1 /\ \A i \in 1 .. n : s[i] \in Q
  <2> HIDE DEF Q
  <2> QED
    BY <1>1, AppendProperties
<1>3. m \in Seq(Nats) /\ Len(m) = n
  <2> HIDE DEF Q, n
  <2>1. \A i \in 1 .. n : Message(s[i]) \in Nats
    BY <1>1, <1>2
  <2>2. /\ m = [i \in 1 .. n |-> m[i]]
        /\ \A i \in 1 .. n : m[i] = Message(s[i])
    BY <1>2
  <2>3. n \in Nat
    BY <1>2
  <2> HIDE DEF m
  <2>4. \A i \in 1 .. n : m[i] \in Nats
    BY <2>1, <2>2
  <2> QED
    BY <2>2, <2>3, <2>4, FromFunction
<1>4. mp = Append(m, Message(p))
  <2>1. mp \in Seq(Nats) /\ Len(mp) = n + 1
    <3> HIDE DEF Q, n, sp
    <3>1. \A i \in 1 .. n + 1 : Message(sp[i]) \in Nats
      <4>1. \A i \in 1 .. n + 1 : i \in 1 .. n \/ i = n + 1
        BY <1>2
      <4> QED
        BY <1>1, <1>2, <4>1
    <3>2. /\ mp = [i \in 1 .. n + 1 |-> mp[i]] /\ n + 1 \in Nat
          /\ \A i \in 1 .. n + 1 : mp[i] = Message(sp[i])
      BY <1>2
    <3> HIDE DEF mp
    <3>3. \A i \in 1 .. n + 1 : mp[i] \in Nats
      BY <3>1, <3>2
    <3> QED
      BY <3>2, <3>3, FromFunction
  <2>2. /\ Append(m, Message(p)) \in Seq(Nats) /\ Len(Append(m, Message(p))) = n + 1
        /\ Append(m, Message(p))[n + 1] = Message(p)
        /\ \A i \in 1 .. n : Append(m, Message(p))[i] = m[i]
    <3> HIDE DEF m, n, Q
    <3>1. Message(p) \in Nats
      BY <1>1
    <3> QED
      BY <1>3, <3>1, AppendProperties
  <2>3. ASSUME NEW i \in 1 .. n + 1 PROVE mp[i] = Append(m, Message(p))[i]
    <3>1. CASE i = n + 1
      BY <1>2, <2>2, <3>1
    <3>2. CASE i # n + 1
      <4>1. i \in 1 .. n
        BY <1>2, <3>2
      <4>2. mp[i] = Message(sp[i]) /\ m[i] = Message(s[i]) /\ sp[i] = s[i]
        BY <1>2, <4>1
      <4> QED
        BY <2>2, <4>1, <4>2
    <3> QED
      BY <3>1, <3>2
  <2> HIDE DEF mp, m, n
  <2> QED
    BY <2>1, <2>2, <2>3, SeqEqual
<1>5. /\ FlattenSeq(m) \in Nats
      /\ FlattenSeq(Append(m, Message(p))) = FlattenSeq(m) \o Message(p)
  <2> HIDE DEF m, Q
  <2>1. m \in Seq(Seq(Nat)) /\ Message(p) \in Seq(Nat)
    BY <1>1, <1>3 DEF Nats
  <2> QED
    BY <2>1, FlattenAppend DEF Nats
<1> HIDE DEF m, mp
<1> QED
  BY <1>4, <1>5 DEF Messages, m, mp

\* The bytes of the first messages come first.
LEMMA MessagesPrefix ==
  ASSUME NEW s \in Seq(Seq(Byte)), NEW t \in Seq(Seq(Byte)), IsPrefix(s, t)
  PROVE  \E z \in Nats : Messages(t) = Messages(s) \o z
<1> DEFINE Q == Seq(Byte)
           k == Len(s)
           n == Len(t)
           first(m) == SubSeq(t, 1, m)
<1>1. s \in Seq(Q) /\ t \in Seq(Q)
  OBVIOUS
<1> HIDE DEF Q
<1>2. k \in Nat /\ n \in Nat /\ k <= n /\ \A i \in 1 .. k : s[i] = t[i]
  BY <1>1, PrefixIs
<1>3. ASSUME NEW m \in 0 .. n
      PROVE  /\ first(m) \in Seq(Q) /\ Len(first(m)) = m
             /\ \A i \in 1 .. m : first(m)[i] = t[i]
  <2>1. \A i \in 1 .. m : t[i] \in Q
    BY <1>1, <1>2
  <2>2. /\ first(m) \in Seq(Q)
        /\ Len(first(m)) = IF 1 <= m THEN m - 1 + 1 ELSE 0
        /\ \A i \in 1 .. m - 1 + 1 : first(m)[i] = t[1 + i - 1]
    BY <1>2, <2>1, SubSeqProperties
  <2>3. m - 1 + 1 = m /\ \A i \in 1 .. m : 1 + i - 1 = i
    BY <1>2
  <2> HIDE DEF first
  <2> QED
    BY <1>2, <2>2, <2>3
<1>4. k \in 0 .. n /\ n \in 0 .. n
  BY <1>2
<1>5. first(k) = s
  <2> HIDE DEF first, k
  <2> QED
    BY <1>1, <1>2, <1>3, <1>4, SeqEqual DEF k
<1>6. first(n) = t
  BY <1>1, SubSeqFull
<1> DEFINE T == {m \in 0 .. n : m >= k => \E z \in Nats : Messages(first(m)) = Messages(s) \o z}
<1>7. \A q \in Seq(Q), p \in Q : Messages(q) \in Nats /\ Messages(Append(q, p)) = Messages(q) \o Message(p)
  BY MessagesAppend DEF Q
<1>8. Messages(s) = Messages(s) \o <<>> /\ Messages(s) \in Nats /\ <<>> \in Nats
  <2>1. <<>> \in Q
    BY DEF Q
  <2> QED
    BY <1>1, <1>7, <2>1, NothingAdded
<1>9. ASSUME NEW m \in 0 .. n, m = k PROVE m \in T
  BY <1>5, <1>8, <1>9
<1>10. 0 \in T
  <2>1. 0 \in 0 .. n /\ (0 >= k => k = 0)
    BY <1>2
  <2> QED
    BY <1>9, <2>1
<1>11. ASSUME NEW m \in 0 .. n, m < n, m \in T PROVE m + 1 \in T
  <2>1. m + 1 \in 0 .. n /\ m + 1 \in 1 .. n
    BY <1>2, <1>11
  <2>2. CASE m + 1 <= k
    <3>1. m + 1 >= k => m + 1 = k
      BY <1>2, <2>2
    <3> HIDE DEF T
    <3>2. CASE m + 1 = k
      BY <1>9, <2>1, <3>2
    <3>3. CASE m + 1 # k
      BY <2>1, <3>1, <3>3 DEF T
    <3> QED
      BY <3>2, <3>3
  <2>3. CASE ~(m + 1 <= k)
    <3>1. m >= k
      BY <1>2, <2>3
    <3>2. PICK z \in Nats : Messages(first(m)) = Messages(s) \o z
      BY <1>11, <3>1
    <3>3. t[m + 1] \in Q
      BY <1>1, <2>1
    <3>4. first(m + 1) = Append(first(m), t[m + 1])
      <4>1. first(m + 1) \in Seq(Q) /\ Len(first(m + 1)) = m + 1
            /\ \A i \in 1 .. m + 1 : first(m + 1)[i] = t[i]
        BY <1>3, <2>1
      <4>2. first(m) \in Seq(Q) /\ Len(first(m)) = m
            /\ \A i \in 1 .. m : first(m)[i] = t[i]
        BY <1>3
      <4> HIDE DEF first
      <4>3. /\ Append(first(m), t[m + 1]) \in Seq(Q) /\ Len(Append(first(m), t[m + 1])) = m + 1
            /\ Append(first(m), t[m + 1])[m + 1] = t[m + 1]
            /\ \A i \in 1 .. m : Append(first(m), t[m + 1])[i] = first(m)[i]
        BY <3>3, <4>2, AppendProperties
      <4>4. \A i \in 1 .. m + 1 : i = m + 1 \/ i \in 1 .. m
        BY <1>11
      <4>5. \A i \in 1 .. m + 1 : first(m + 1)[i] = Append(first(m), t[m + 1])[i]
        BY <4>1, <4>2, <4>3, <4>4
      <4> QED
        BY <4>1, <4>3, <4>5, SeqEqual
    <3>5. first(m) \in Seq(Q)
      BY <1>3
    <3>6. Message(t[m + 1]) \in Nats
      BY <3>3, MessageIs DEF Q
    <3> HIDE DEF first
    <3>7. Messages(first(m + 1)) = (Messages(s) \o z) \o Message(t[m + 1])
      BY <1>7, <3>2, <3>3, <3>4, <3>5
    <3>8. Messages(first(m + 1)) = Messages(s) \o (z \o Message(t[m + 1]))
      BY <1>8, <3>2, <3>6, <3>7, Associative, Zenon
    <3>9. z \o Message(t[m + 1]) \in Nats
      BY <3>2, <3>6, Concatenated, Zenon
    <3> QED
      BY <2>1, <3>8, <3>9
  <2> QED
    BY <2>2, <2>3
<1>12. \A m \in 0 .. n : m \in T
  <2> HIDE DEF T, n
  <2> QED
    BY <1>2, <1>10, <1>11, UpTo
<1>13. n >= k
  BY <1>2
<1> HIDE DEF first, n, k
<1> QED
  BY <1>4, <1>6, <1>12, <1>13

---------------------------------------------------------------------------
(* The reader and the headers *)

\* The header that is read and whose payload is awaited.
Pending == IF size = None THEN <<>> ELSE Header(size)

\* What the write() in progress has sent.
Partial == SubSeq(m_write_buffer, 1, bytes_written)

InStepMode == env.mode = "PAYLOAD_HEADER" /\ env.recvs = "full" /\ env.sends # "any"

\* What was read are the messages reported and the header pending; with what is on
\* the wire they are the messages accepted and the beginning of the next one.
InStep ==
    InStepMode =>
        /\ IsPrefix(heard, Accepted(done))
        /\ rx = Messages(heard) \o Pending
        /\ link # "down" => rx \o wire = Messages(Accepted(done)) \o Partial

LEMMA InStepTypes ==
  ASSUME Types
  PROVE  /\ wire \in Nats /\ rx \in Nats /\ heard \in Seq(Seq(Byte))
         /\ Pending \in Nats /\ Partial \in Nats
         /\ done \in Seq(Call) /\ Accepted(done) \in Seq(Seq(Byte))
         /\ Messages(heard) \in Nats /\ Messages(Accepted(done)) \in Nats
<1>1. wire \in Nats /\ rx \in Nats
  BY ByteNat DEF Types, Reading, Nats
<1>2. Pending \in Nats
  <2>1. CASE size = None
    BY <2>1, NothingAdded DEF Pending
  <2>2. CASE size # None
    <3>1. size \in Nat
      BY <2>2 DEF Types, Reading
    <3> QED
      BY <2>2, <3>1, HeaderTyped DEF Pending, Nats
  <2> QED
    BY <2>1, <2>2
<1>3. Partial \in Nats
  <2>1. m_write_buffer \in Seq(Nat) /\ Len(m_write_buffer) \in Nat
    BY ByteNat DEF Types, Writing
  <2>2. bytes_written \in Nat /\ bytes_written <= Len(m_write_buffer)
    BY <2>1 DEF Types, Writing
  <2>3. \A i \in 1 .. bytes_written : m_write_buffer[i] \in Nat
    BY <2>1, <2>2
  <2> QED
    BY <2>2, <2>3, SubSeqProperties DEF Partial, Nats
<1>4. heard \in Seq(Seq(Byte)) /\ done \in Seq(Call)
  BY DEF Types, Writing, Reading
<1>5. Accepted(done) \in Seq(Seq(Byte))
  <2> DEFINE c == [payload |-> <<>>, ok |-> TRUE, bytes |-> 0]
  <2>1. c \in Call
    BY DEF Call
  <2> HIDE DEF c
  <2> QED
    BY <1>4, <2>1, AcceptedAppend
<1>6. \A s \in Seq(Seq(Byte)) : Messages(s) \in Nats
  <2>1. <<>> \in Seq(Byte)
    OBVIOUS
  <2> QED
    BY <2>1, MessagesAppend
<1>7. Messages(heard) \in Nats /\ Messages(Accepted(done)) \in Nats
  BY <1>4, <1>5, <1>6, Zenon
<1> QED
  BY <1>1, <1>2, <1>3, <1>4, <1>5, <1>7

\* One message more than reported is a prefix of those accepted.
LEMMA NextMessage ==
  ASSUME NEW s \in Seq(Seq(Byte)), NEW t \in Seq(Seq(Byte)), IsPrefix(s, t)
  PROVE  s = t \/ \E p \in Seq(Byte) : IsPrefix(Append(s, p), t)
<1> DEFINE Q == Seq(Byte)
           k == Len(s)
<1>1. s \in Seq(Q) /\ t \in Seq(Q)
  OBVIOUS
<1> HIDE DEF Q
<1>2. /\ k \in Nat /\ Len(t) \in Nat /\ k <= Len(t)
      /\ \A i \in 1 .. k : s[i] = t[i]
  BY <1>1, PrefixIs
<1>3. CASE k = Len(t)
  <2>1. s = t
    BY <1>1, <1>2, <1>3, SeqEqual
  <2> QED
    BY <2>1
<1>4. CASE k # Len(t)
  <2> DEFINE p == t[k + 1]
             sp == Append(s, p)
  <2>1. k + 1 \in 1 .. Len(t) /\ k + 1 <= Len(t)
    BY <1>2, <1>4
  <2>2. p \in Q
    BY <1>1, <2>1
  <2>3. /\ sp \in Seq(Q) /\ Len(sp) = k + 1
        /\ sp[k + 1] = p /\ \A i \in 1 .. k : sp[i] = s[i]
    <3> HIDE DEF p
    <3> QED
      BY <1>1, <2>2, AppendProperties
  <2>4. \A i \in 1 .. k + 1 : i = k + 1 \/ i \in 1 .. k
    BY <1>2
  <2> HIDE DEF sp
  <2>5. \A i \in 1 .. k + 1 : sp[i] = t[i]
    BY <1>2, <2>3, <2>4
  <2>6. IsPrefix(sp, t)
    BY <1>1, <2>1, <2>3, <2>5, PrefixIs
  <2> QED
    BY <2>2, <2>6 DEF sp, Q
<1> QED
  BY <1>3, <1>4

\* What the reader has before it: nothing, a message it has not reported, or the
\* beginning of one that is being written.
Ahead ==
    \/ Pending \o wire = <<>>
    \/ \E p \in Seq(Byte), z \in Nats :
           /\ Pending \o wire = Message(p) \o z
           /\ IsPrefix(Append(heard, p), Accepted(done))
    \/ \E p \in Seq(Byte), z \in Nats :
           /\ (Pending \o wire) \o z = Message(p)
           /\ z # <<>> /\ link # "hungup" /\ Len(Message(p)) <= BufSize

\* The write() in progress has sent the beginning of a message.
LEMMA PartialIs ==
  ASSUME Types, env.mode = "PAYLOAD_HEADER"
  PROVE  \/ Partial = <<>>
         \/ /\ link # "hungup"
            /\ \E p \in Seq(Byte), z \in Nats :
                   Partial \o z = Message(p) /\ z # <<>> /\ Len(Message(p)) <= BufSize
<1> DEFINE b == m_write_buffer
           n == bytes_written
<1>1. b \in Seq(Nat) /\ Len(b) \in Nat /\ n \in Nat /\ bytes_to_write \in Nat
      /\ n + bytes_to_write <= Len(b)
  BY ByteNat DEF Types, Writing
<1>2. CASE b = <<>>
  <2>1. n = 0
    BY <1>2 DEF Types, Writing
  <2>2. Partial = <<>>
    BY <2>1, SubSeqEmpty DEF Partial
  <2> QED
    BY <2>2
<1>3. CASE b # <<>>
  <2> DEFINE p == Payloads[Len(done) + 1]
             z == SubSeq(b, n + 1, Len(b))
  <2>1. /\ link # "hungup" /\ bytes_to_write > 0 /\ Len(done) < Len(Payloads)
        /\ b = Frame(p) /\ Len(b) <= BufSize
    BY <1>3 DEF Types, Writing
  <2>2. p \in Seq(Byte)
    BY <2>1, PayloadTyped
  <2>3. b = Message(p)
    BY <2>1 DEF Frame, Message
  <2>4. n < Len(b)
    BY <1>1, <2>1
  <2> HIDE DEF b, n, p
  <2>5. z \in Seq(Nat) /\ Len(z) = Len(b) - n
    <3>1. \A i \in n + 1 .. Len(b) : b[i] \in Nat
      BY <1>1
    <3> QED
      BY <1>1, <2>4, <3>1, SubSeqProperties
  <2>6. z # <<>>
    <3> HIDE DEF z
    <3> QED
      BY <1>1, <2>4, <2>5
  <2>7. SubSeq(b, 1, n) \o z = b
    <3>1. 1 \in 1 .. Len(b) + 1 /\ n \in 1 - 1 .. Len(b) /\ Len(b) \in n .. Len(b)
      BY <1>1, <2>4
    <3>2. SubSeq(b, 1, n) \o z = SubSeq(b, 1, Len(b))
      BY <1>1, <3>1, ConcatAdjacentSubSeq
    <3> QED
      BY <1>1, <3>2, SubSeqFull
  <2>8. Partial = SubSeq(b, 1, n)
    BY DEF Partial, b, n
  <2> HIDE DEF z
  <2> QED
    BY <2>1, <2>2, <2>3, <2>5, <2>6, <2>7, <2>8 DEF Nats
<1> QED
  BY <1>2, <1>3

LEMMA CurrentIs ==
  ASSUME Types, InStep, InStepMode, link # "down"
  PROVE  Ahead
<1> DEFINE H == Messages(heard)
           P == Pending
           W == wire
           R == Partial
           A == Messages(Accepted(done))
<1>1. /\ W \in Nats /\ P \in Nats /\ R \in Nats /\ H \in Nats /\ A \in Nats
      /\ P \o W \in Nats
      /\ heard \in Seq(Seq(Byte)) /\ Accepted(done) \in Seq(Seq(Byte))
  <2>1. W \in Nats /\ P \in Nats /\ R \in Nats /\ H \in Nats /\ A \in Nats
        /\ heard \in Seq(Seq(Byte)) /\ Accepted(done) \in Seq(Seq(Byte))
    BY InStepTypes
  <2> HIDE DEF H, P, W, R, A
  <2> QED
    BY <2>1, Concatenated, Zenon
<1>2. /\ IsPrefix(heard, Accepted(done)) /\ rx = H \o P /\ rx \o W = A \o R
      /\ env.mode = "PAYLOAD_HEADER"
  BY DEF InStep, InStepMode
<1>3. H \o (P \o W) = A \o R
  <2> HIDE DEF H, P, W, R, A
  <2>1. (H \o P) \o W = H \o (P \o W)
    BY ZenonT(60), <1>1, Associative
  <2> QED
    BY <1>2, <2>1
<1>4. CASE heard = Accepted(done)
  <2>1. A = H
    BY <1>4
  <2>2. P \o W = R
    <3> HIDE DEF H, P, W, R, A
    <3>1. H \o (P \o W) = H \o R
      BY <1>3, <2>1
    <3> QED
      BY <1>1, <3>1, Cancelled, Zenon
  <2>3. \/ R = <<>>
        \/ /\ link # "hungup"
           /\ \E p \in Seq(Byte), z \in Nats :
                  R \o z = Message(p) /\ z # <<>> /\ Len(Message(p)) <= BufSize
    BY <1>2, PartialIs
  <2> HIDE DEF R
  <2> QED
    BY <2>2, <2>3 DEF Ahead
<1>5. CASE heard # Accepted(done)
  <2>1. PICK p \in Seq(Byte) : IsPrefix(Append(heard, p), Accepted(done))
    BY <1>1, <1>2, <1>5, NextMessage
  <2>2. Append(heard, p) \in Seq(Seq(Byte))
    <3> DEFINE Q == Seq(Byte)
    <3>1. heard \in Seq(Q) /\ p \in Q
      BY <1>1
    <3> HIDE DEF Q
    <3>2. Append(heard, p) \in Seq(Q)
      BY <3>1, AppendProperties
    <3> QED
      BY <3>2 DEF Q
  <2>3. PICK z \in Nats : A = Messages(Append(heard, p)) \o z
    BY <1>1, <2>1, <2>2, MessagesPrefix
  <2>4. Messages(Append(heard, p)) = H \o Message(p) /\ Message(p) \in Nats
    BY <1>1, MessagesAppend, MessageIs
  <2> DEFINE M == Message(p)
  <2>5. A = (H \o M) \o z /\ M \in Nats
    BY <2>3, <2>4
  <2>6. P \o W = M \o (z \o R) /\ z \o R \in Nats
    <3> HIDE DEF H, P, W, R, A, M
    <3>1. /\ H \o M \in Nats /\ z \o R \in Nats /\ M \o (z \o R) \in Nats
      BY <1>1, <2>5, Concatenated, Zenon
    <3>2. ((H \o M) \o z) \o R = (H \o M) \o (z \o R)
      <4> DEFINE HM == H \o M
      <4>1. HM \in Nats /\ z \in Nats /\ R \in Nats
        BY <1>1, <3>1
      <4> HIDE DEF HM
      <4>2. (HM \o z) \o R = HM \o (z \o R)
        BY <4>1, Associative
      <4> QED
        BY <4>2 DEF HM
    <3>3. (H \o M) \o (z \o R) = H \o (M \o (z \o R))
      <4> DEFINE zR == z \o R
      <4>1. H \in Nats /\ M \in Nats /\ zR \in Nats
        BY <1>1, <2>5, <3>1
      <4> HIDE DEF zR
      <4>2. (H \o M) \o zR = H \o (M \o zR)
        BY <4>1, Associative
      <4> QED
        BY <4>2 DEF zR
    <3>4. H \o (P \o W) = H \o (M \o (z \o R))
      BY <1>3, <2>5, <3>2, <3>3
    <3> QED
      BY <1>1, <3>1, <3>4, Cancelled, Zenon
  <2> HIDE DEF R
  <2> QED
    BY <2>1, <2>6 DEF Ahead
<1> QED
  BY <1>4, <1>5

LEMMA InStepModeSame ==
  ASSUME env' = env
  PROVE  InStepMode' <=> InStepMode
BY DEF InStepMode

\* If messages arrive whole, recv() returns as much as was asked for, or all that
\* was sent before the writer hung up.
LEMMA CountsFull ==
  ASSUME NEW asked \in Nat, wire \in Nats, NEW n \in Counts(asked), env.recvs = "full"
  PROVE  n = asked \/ (n = Len(wire) /\ n < asked /\ n > 0 /\ link = "hungup")
<1>1. Len(wire) \in Nat
  BY DEF Nats
<1>2. n = Smaller(asked, Len(wire)) /\ 0 < n /\ (n = asked \/ link = "hungup")
  BY DEF Counts
<1> QED
  BY <1>1, <1>2 DEF Smaller

LEMMA DecodeIs ==
  ASSUME NEW n \in Nat
  PROVE  decodeMessageLength(Header(n)) = n
<1> DEFINE a == n \div 16777216
           q == n \div 65536
           r == n \div 256
           b == q % 256
           c == r % 256
           d == n % 256
<1>1. a \in Nat /\ b \in Nat /\ c \in Nat /\ d \in Nat
  OBVIOUS
<1>2. q = (256 * a) + b
  <2>1. q \div 256 = a /\ q \in Nat
    OBVIOUS
  <2> HIDE DEF a, q
  <2> QED
    BY <2>1
<1>3. r = (256 * q) + c
  <2>1. r \div 256 = q /\ r \in Nat
    OBVIOUS
  <2> HIDE DEF q, r
  <2> QED
    BY <2>1
<1>4. n = (256 * r) + d
  OBVIOUS
<1>5. Header(n) = <<a, b, c, d>>
  BY DEF Header
<1> HIDE DEF a, q, r, b, c, d
<1>6. decodeMessageLength(<<a, b, c, d>>)
        = (256 * ((256 * ((256 * a) + b)) + c)) + d
  BY DEF decodeMessageLength
<1> QED
  BY <1>2, <1>3, <1>4, <1>5, <1>6

LEMMA HeadersDiffer ==
  ASSUME NEW m \in Nat, NEW n \in Nat, Header(m) = Header(n)
  PROVE  m = n
BY DecodeIs

\* A header that is read is that of the message ahead.
LEMMA NextHeader ==
  ASSUME Types, Ahead, size = None, NEW n \in Nat, n <= Len(wire), n > 0,
         n = 4 \/ (n = Len(wire) /\ n < 4 /\ link = "hungup")
  PROVE  /\ n = 4
         /\ \E p \in Seq(Byte) :
                /\ Taken(4) = Header(Len(p))
                /\ \/ IsPrefix(Append(heard, p), Accepted(done))
                   \/ Len(Message(p)) <= BufSize
<1> DEFINE T == Taken(n)
           R == Rest(wire, n)
<1>1. wire \in Seq(Byte) /\ wire \in Nats
  BY InStepTypes DEF Types, Reading
<1>2. T \o R = wire /\ T \in Nats /\ R \in Nats /\ Len(T) = n
  BY <1>1, TakenIs, ByteNat DEF Nats
<1>3. Pending \o wire = wire
  BY <1>1, NothingAdded DEF Pending
<1>4. wire # <<>>
  BY <1>1 DEF Nats
<1> HIDE DEF T, R
<1>5. CASE \E p \in Seq(Byte), z \in Nats :
           wire = Message(p) \o z /\ IsPrefix(Append(heard, p), Accepted(done))
  <2>1. PICK p \in Seq(Byte), z \in Nats :
           wire = Message(p) \o z /\ IsPrefix(Append(heard, p), Accepted(done))
    BY <1>5
  <2> DEFINE h == Header(Len(p))
             q == p \o z
  <2>2. h \in Nats /\ Len(h) = 4 /\ p \in Nats
    BY MessageIs
  <2>3. wire = h \o q /\ q \in Nats
    <3>1. Message(p) = h \o p
      BY DEF Message
    <3> HIDE DEF h
    <3> QED
      BY SMTT(30), <2>1, <2>2, <3>1, Associative, Concatenated
  <2> HIDE DEF h, q
  <2>4. Len(wire) >= 4
    <3>1. Len(h \o q) = Len(h) + Len(q) /\ Len(q) \in Nat
      BY <2>2, <2>3, Concatenated, Zenon
    <3>2. Len(wire) = Len(h) + Len(q)
      BY <2>3, <3>1
    <3> QED
      BY <2>2, <3>1, <3>2
  <2>5. n = 4
    BY <2>4
  <2>6. T = h
    BY <1>2, <2>2, <2>3, <2>5, SameHeads
  <2> QED
    BY <2>1, <2>5, <2>6 DEF h, T
<1>6. CASE \E p \in Seq(Byte), z \in Nats :
           wire \o z = Message(p) /\ link # "hungup" /\ Len(Message(p)) <= BufSize
  <2>1. PICK p \in Seq(Byte), z \in Nats :
           wire \o z = Message(p) /\ link # "hungup" /\ Len(Message(p)) <= BufSize
    BY <1>6
  <2> DEFINE h == Header(Len(p))
             q == R \o z
  <2>2. h \in Nats /\ Len(h) = 4 /\ p \in Nats
    BY MessageIs
  <2>3. n = 4
    BY <2>1
  <2>4. T \o q = h \o p /\ q \in Nats
    <3>1. Message(p) = h \o p
      BY DEF Message
    <3>2. (T \o R) \o z = Message(p)
      BY <1>2, <2>1
    <3>3. (T \o R) \o z = T \o (R \o z) /\ R \o z \in Nats
      BY <1>2, Associative, Concatenated, ZenonT(30)
    <3> HIDE DEF h
    <3> QED
      BY <3>1, <3>2, <3>3
  <2> HIDE DEF h, q
  <2>5. T = h
    BY <1>2, <2>2, <2>3, <2>4, SameHeads
  <2> QED
    BY <2>1, <2>3, <2>5 DEF h, T
<1> QED
  BY <1>3, <1>4, <1>5, <1>6 DEF Ahead

\* The payload that is read is that of the message ahead.
LEMMA NextPayload ==
  ASSUME Types, Ahead, size \in Nat, NEW n \in Nat, n <= Len(wire), n <= size,
         n = size \/ (n = Len(wire) /\ n < size /\ link = "hungup")
  PROVE  /\ n = size
         /\ \E p \in Seq(Byte) : Len(p) = size /\ Taken(n) = p
                                 /\ IsPrefix(Append(heard, p), Accepted(done))
<1> DEFINE T == Taken(n)
           R == Rest(wire, n)
           P == Header(size)
           W == wire
<1>1. wire \in Seq(Byte) /\ W \in Nats
  BY InStepTypes DEF Types, Reading
<1>2. T \o R = W /\ T \in Nats /\ R \in Nats /\ Len(T) = n
  BY <1>1, TakenIs, ByteNat DEF Nats
<1>3. Pending = P
  BY DEF Pending, None
<1>4. P \in Nats /\ Len(P) = 4
  BY HeaderTyped DEF Nats
<1>5. Pending \o wire # <<>>
  <2> HIDE DEF P, W
  <2>1. Len(P \o W) = 4 + Len(W) /\ Len(W) \in Nat
    BY <1>1, <1>4, Concatenated
  <2>2. P \o W # <<>>
    BY <2>1, NothingAdded
  <2> QED
    BY <1>3, <2>2 DEF W
<1>6. CASE \E p \in Seq(Byte), z \in Nats :
           Pending \o wire = Message(p) \o z /\ IsPrefix(Append(heard, p), Accepted(done))
  <2>1. PICK p \in Seq(Byte), z \in Nats :
           Pending \o wire = Message(p) \o z /\ IsPrefix(Append(heard, p), Accepted(done))
    BY <1>6
  <2> DEFINE h == Header(Len(p))
             q == p \o z
  <2>2. h \in Nats /\ Len(h) = 4 /\ p \in Nats /\ Len(p) \in Nat
    BY MessageIs
  <2>3. P \o W = h \o q /\ q \in Nats
    <3>1. Message(p) = h \o p /\ P \o W = Message(p) \o z
      BY <1>3, <2>1 DEF Message
    <3> HIDE DEF h, P, W
    <3> QED
      BY SMTT(30), <2>2, <3>1, Associative, Concatenated
  <2>4. P = h /\ W = q
    <3> HIDE DEF h, q, P, W
    <3> QED
      BY <1>1, <1>4, <2>2, <2>3, SameHeads
  <2>5. size = Len(p)
    BY <2>2, <2>4, HeadersDiffer
  <2>6. Len(W) >= size
    <3> HIDE DEF W
    <3> QED
      BY <2>2, <2>4, <2>5, Concatenated
  <2>7. n = size
    BY <2>6
  <2>8. T = p
    <3> HIDE DEF T, R, W
    <3> QED
      BY <1>2, <2>2, <2>4, <2>5, <2>7, SameHeads
  <2> QED
    BY <2>1, <2>5, <2>7, <2>8
<1>7. CASE \E p \in Seq(Byte), z \in Nats :
           (Pending \o wire) \o z = Message(p) /\ z # <<>> /\ link # "hungup"
  <2>1. PICK p \in Seq(Byte), z \in Nats :
           (Pending \o wire) \o z = Message(p) /\ z # <<>> /\ link # "hungup"
    BY <1>7
  <2> DEFINE h == Header(Len(p))
             q == W \o z
  <2>2. h \in Nats /\ Len(h) = 4 /\ p \in Nats /\ Len(p) \in Nat
    BY MessageIs
  <2>3. P \o q = h \o p /\ q \in Nats
    <3>1. Message(p) = h \o p /\ (P \o W) \o z = Message(p)
      BY <1>3, <2>1 DEF Message
    <3> HIDE DEF h, P, W
    <3> QED
      BY ZenonT(60), <1>1, <1>4, <2>2, <3>1, Associative, Concatenated
  <2>4. P = h /\ q = p
    <3> HIDE DEF h, q, P
    <3> QED
      BY <1>4, <2>2, <2>3, SameHeads
  <2>5. size = Len(p)
    BY <2>2, <2>4, HeadersDiffer
  <2>6. Len(W) < size
    <3> HIDE DEF W
    <3>1. Len(q) = Len(W) + Len(z) /\ Len(W) \in Nat /\ Len(z) \in Nat
      BY <1>1, Concatenated
    <3>2. Len(z) # 0
      BY <2>1 DEF Nats
    <3> HIDE DEF q
    <3> QED
      BY <2>4, <2>5, <3>1, <3>2
  <2>7. n = size
    BY <2>1
  <2> QED
    BY <1>1, <2>6, <2>7
<1> QED
  BY <1>5, <1>6, <1>7 DEF Ahead

LEMMA NothingFirst == IsPrefix(<<>>, <<>>)
<1>1. SubSeq(<<>>, 1, 0) = <<>> /\ Len(<<>>) = 0
  BY SubSeqEmpty
<1> QED
  BY <1>1 DEF IsPrefix

LEMMA PrefixGrows ==
  ASSUME NEW s \in Seq(Seq(Byte)), NEW t \in Seq(Seq(Byte)), NEW p \in Seq(Byte),
         IsPrefix(s, t)
  PROVE  IsPrefix(s, Append(t, p))
<1> DEFINE Q == Seq(Byte)
           tp == Append(t, p)
<1>1. s \in Seq(Q) /\ t \in Seq(Q) /\ p \in Q
  OBVIOUS
<1> HIDE DEF Q
<1>2. Len(s) <= Len(t) /\ (\A i \in 1 .. Len(s) : s[i] = t[i]) /\ Len(s) \in Nat /\ Len(t) \in Nat
  BY <1>1, PrefixIs
<1>3. tp \in Seq(Q) /\ Len(tp) = Len(t) + 1 /\ \A i \in 1 .. Len(t) : tp[i] = t[i]
  BY <1>1, AppendProperties
<1> HIDE DEF tp
<1>4. Len(s) <= Len(tp) /\ \A i \in 1 .. Len(s) : s[i] = tp[i]
  BY <1>2, <1>3
<1>5. IsPrefix(s, tp)
  BY <1>1, <1>3, <1>4, PrefixIs
<1> QED
  BY <1>5 DEF tp

LEMMA InStepSame ==
  ASSUME InStep, env' = env, UNCHANGED <<wire, writing, reading>>, link' = "down" \/ link' = link
         \/ (link' = "hungup" /\ link = "up")
  PROVE  InStep'
BY DEF InStep, InStepMode, Pending, Partial, writing, reading

LEMMA PartialNone ==
  ASSUME m_write_buffer = <<>>, bytes_written = 0
  PROVE  Partial = <<>>
<1>1. SubSeq(<<>>, 1, 0) = <<>>
  BY SubSeqEmpty
<1> QED
  BY <1>1 DEF Partial

LEMMA NothingInStep ==
  ASSUME done = <<>>, heard = <<>>, rx = <<>>, wire = <<>>, size = None, Partial = <<>>
  PROVE  InStep
<1>1. Accepted(done) = <<>> /\ Messages(heard) = <<>>
  BY AcceptedNone, MessagesNone
<1>2. Pending = <<>>
  BY DEF Pending
<1>3. <<>> \o <<>> = <<>> /\ <<>> \in Nats /\ Len(<<>>) = 0
  BY NothingAdded
<1> QED
  BY <1>1, <1>2, <1>3, NothingFirst DEF InStep

LEMMA InStepInit == Init => InStep
<1> SUFFICES ASSUME Init PROVE InStep
  OBVIOUS
<1>1. Partial = <<>>
  BY PartialNone DEF Init
<1> QED
  BY <1>1, NothingInStep DEF Init

LEMMA InStepConnect ==
  ASSUME Types, Connect
  PROVE  InStep'
<1>1. /\ done' = <<>> /\ heard' = <<>> /\ rx' = <<>> /\ wire' = <<>> /\ size' = None
      /\ m_write_buffer' = <<>> /\ bytes_written' = bytes_written
      /\ m_write_buffer = <<>>
  BY DEF Connect
<1>2. bytes_written' = 0
  BY <1>1 DEF Types, Writing
<1>3. Accepted(done)' = <<>> /\ Messages(heard)' = <<>>
  BY <1>1, AcceptedNone, MessagesNone
<1>4. Pending' = <<>> /\ Partial' = <<>>
  <2>1. SubSeq(<<>>, 1, 0) = <<>>
    BY SubSeqEmpty
  <2> QED
    BY <1>1, <1>2, <2>1 DEF Pending, Partial
<1>5. <<>> \o <<>> = <<>>
  BY NothingAdded
<1> QED
  BY <1>1, <1>3, <1>4, <1>5, NothingFirst DEF InStep

\* A write() that ends adds its payload to those accepted if it returns true.
LEMMA AcceptedFinish ==
  ASSUME Types, NEW ok \in BOOLEAN, NEW written \in Nat, Len(done) < Len(Payloads),
         Finish(ok, written)
  PROVE  /\ ok => Accepted(done)' = Append(Accepted(done), Payloads[Len(done) + 1])
         /\ ~ok => Accepted(done)' = Accepted(done)
         /\ Partial' = <<>>
<1>1. PICK c \in Call : /\ c = [payload |-> Payloads[Len(done) + 1], ok |-> ok, bytes |-> written]
                        /\ done' = Append(done, c)
  BY FinishIs
<1>2. c.ok = ok /\ c.payload = Payloads[Len(done) + 1]
  BY <1>1
<1>3. done \in Seq(Call)
  BY DEF Types, Writing
<1>4. Accepted(Append(done, c)) = Taking(Accepted(done), c)
  BY <1>3, AcceptedAppend
<1>5. Partial' = <<>>
  <2>1. SubSeq(<<>>, 1, 0) = <<>>
    BY SubSeqEmpty
  <2> QED
    BY <2>1 DEF Finish, Partial
<1>6. Accepted(done)' = Taking(Accepted(done), c)
  BY <1>1, <1>4
<1> QED
  BY <1>2, <1>5, <1>6 DEF Taking

\* A write() that fails with nothing sent, or with the reader gone.
LEMMA InStepFailed ==
  ASSUME Types, InStep, NEW written \in Nat, Len(done) < Len(Payloads),
         Finish(FALSE, written), UNCHANGED <<env, link, links, wire, reading>>,
         link = "down" \/ Partial = <<>>
  PROVE  InStep'
<1>1. Accepted(done)' = Accepted(done) /\ Partial' = <<>>
  <2>1. FALSE \in BOOLEAN
    OBVIOUS
  <2> QED
    BY <2>1, AcceptedFinish
<1>2. /\ Pending' = Pending /\ heard' = heard /\ rx' = rx /\ wire' = wire /\ link' = link
      /\ (InStepMode' <=> InStepMode)
  BY DEF Pending, reading, InStepMode
<1> QED
  BY <1>1, <1>2 DEF InStep

LEMMA InStepWrite ==
  ASSUME Types, InStep, Write
  PROVE  InStep'
<1> DEFINE b == Frame(Payloads[Len(done) + 1])
<1>1. /\ Len(done) < Len(Payloads) /\ UNCHANGED <<env, link, links, wire, reading>>
      /\ m_write_buffer = <<>> /\ bytes_written = 0
  BY DEF Types, Writing, Write
<1>2. Partial = <<>>
  BY <1>1, PartialNone
<1>3. CASE Fits(b)
  <2>1. bytes_written' = 0 /\ done' = done
    BY <1>1, <1>3 DEF Write
  <2>2. Partial' = <<>>
    BY <2>1, SubSeqEmpty DEF Partial
  <2>3. /\ Pending' = Pending /\ heard' = heard /\ rx' = rx /\ wire' = wire /\ link' = link
        /\ (InStepMode' <=> InStepMode)
    BY <1>1 DEF Pending, reading, InStepMode
  <2> QED
    BY <1>2, <2>1, <2>2, <2>3 DEF InStep
<1>4. CASE ~Fits(b)
  <2>1. Finish(FALSE, 0) /\ 0 \in Nat
    BY <1>4 DEF Write
  <2> QED
    BY <1>1, <1>2, <2>1, InStepFailed
<1> QED
  BY <1>3, <1>4

LEMMA InStepSendFails ==
  ASSUME Types, InStep, SendFails
  PROVE  InStep'
<1>1. /\ m_write_buffer # <<>> /\ Finish(FALSE, bytes_written)
      /\ UNCHANGED <<env, link, links, wire, reading>>
      /\ link = "down" \/ env.sends = "any" \/ bytes_written = 0
  BY DEF SendFails, Failed
<1>2. bytes_written \in Nat /\ Len(done) < Len(Payloads)
  BY <1>1 DEF Types, Writing
<1>3. bytes_written = 0 => Partial = <<>>
  BY SubSeqEmpty DEF Partial
<1>4. CASE env.sends = "any"
  BY <1>1, <1>4 DEF InStep, InStepMode
<1>5. CASE env.sends # "any"
  BY <1>1, <1>2, <1>3, <1>5, InStepFailed
<1> QED
  BY <1>4, <1>5

LEMMA InStepSend ==
  ASSUME Types, Truth, InStep, Send
  PROVE  InStep'
<1>0. PICK n \in 1 .. bytes_to_write :
        LET written == bytes_written + n
            left == Left(bytes_to_write, written)
        IN /\ n = bytes_to_write \/ MayCut
           /\ wire' = IF link = "down" THEN <<>>
                      ELSE wire \o SubSeq(m_write_buffer, bytes_written + 1, written)
           /\ IF left > 0
              THEN /\ bytes_written' = written
                   /\ bytes_to_write' = left
                   /\ cuts' = IF n < bytes_to_write THEN cuts + 1 ELSE cuts
                   /\ UNCHANGED <<m_write_buffer, done>>
              ELSE Finish(TRUE, written)
           /\ UNCHANGED <<env, link, links, reading>>
  BY DEF Send
<1> DEFINE written == bytes_written + n
           left == Left(bytes_to_write, written)
           b == m_write_buffer
           sent == SubSeq(b, bytes_written + 1, written)
           R == Partial
           A == Messages(Accepted(done))
           p == Payloads[Len(done) + 1]
<1>1. UNCHANGED <<env, link, links, reading>>
  BY <1>0
<1> SUFFICES ASSUME InStepMode PROVE InStep'
  BY <1>1, InStepModeSame DEF InStep
<1>2. /\ b # <<>> /\ Len(done) < Len(Payloads)
      /\ written \in Nat /\ written <= Len(b) /\ Len(b) \in Nat
      /\ bytes_written \in Nat /\ bytes_written <= written
      /\ sent \in Seq(Byte)
      /\ b = Frame(p) /\ b \in Seq(Byte)
  BY SendIs DEF Types, Writing
<1>3. /\ wire \in Nats /\ rx \in Nats /\ R \in Nats /\ A \in Nats
      /\ Accepted(done) \in Seq(Seq(Byte)) /\ heard \in Seq(Seq(Byte))
      /\ sent \in Nats
  BY <1>2, InStepTypes, ByteNat DEF Nats
<1>4. R \o sent = SubSeq(b, 1, written)
  <2>1. /\ 1 \in 1 .. Len(b) + 1 /\ bytes_written \in 1 - 1 .. Len(b)
        /\ written \in bytes_written .. Len(b)
    <3> HIDE DEF written
    <3> QED
      BY <1>2
  <2> HIDE DEF written, b
  <2> QED
    BY <1>2, <2>1, ConcatAdjacentSubSeq DEF Partial, b
<1>5. ASSUME link # "down" PROVE rx \o wire' = A \o (R \o sent)
  <2>1. wire' = wire \o sent
    BY <1>0, <1>5
  <2>2. rx \o wire = A \o R
    BY <1>5 DEF InStep
  <2> HIDE DEF sent, A, R
  <2>3. (rx \o wire) \o sent = rx \o (wire \o sent)
    BY ZenonT(60), <1>3, Associative
  <2>4. (A \o R) \o sent = A \o (R \o sent)
    BY <1>3, Associative
  <2> QED
    BY <2>1, <2>2, <2>3, <2>4
<1>6. /\ IsPrefix(heard, Accepted(done)) /\ rx = Messages(heard) \o Pending
  BY DEF InStep
<1>7. heard' = heard /\ rx' = rx /\ Pending' = Pending /\ link' = link
  BY <1>1 DEF reading, Pending
<1>8. CASE left > 0
  <2>1. bytes_written' = written /\ UNCHANGED <<m_write_buffer, done>>
    BY <1>0, <1>8
  <2>2. Partial' = SubSeq(b, 1, written) /\ Accepted(done)' = Accepted(done)
    BY <2>1 DEF Partial
  <2> HIDE DEF written, sent, b
  <2> QED
    BY <1>4, <1>5, <1>6, <1>7, <2>2 DEF InStep
<1>9. CASE ~(left > 0)
  <2>1. Finish(TRUE, written)
    BY <1>0, <1>9
  <2>2. written = Len(b)
    \* the write() was cut before, and this send went to the end; or it was not cut
    <3>1. /\ bytes_written + bytes_to_write = Len(b)
          /\ cuts = 0 => bytes_written = 0
          /\ env.sends = "whole" => cuts = 0
      BY <1>2 DEF Truth, InStepMode
    <3>2. n = bytes_to_write \/ (env.sends = "once" /\ cuts = 0)
      BY <1>0 DEF MayCut, InStepMode
    <3>3. bytes_to_write \in Nat /\ n \in Nat /\ n <= bytes_to_write /\ left = bytes_to_write - written
      BY DEF Types, Writing, Left
    <3> HIDE DEF b, left
    <3> QED
      BY <1>2, <1>9, <3>1, <3>2, <3>3
  <2>3. SubSeq(b, 1, written) = b
    <3> HIDE DEF written
    <3> QED
      BY <1>2, <2>2, SubSeqFull
  <2>4. b = Message(p) /\ p \in Seq(Byte)
    BY <1>2, PayloadTyped DEF Frame, Message, InStepMode
  <2>5. Accepted(done)' = Append(Accepted(done), p) /\ Partial' = <<>>
    <3>1. TRUE \in BOOLEAN
      OBVIOUS
    <3> HIDE DEF written
    <3> QED
      BY <1>2, <2>1, <3>1, AcceptedFinish
  <2>6. Messages(Accepted(done))' = A \o b
    BY <1>3, <2>4, <2>5, MessagesAppend
  <2>7. IsPrefix(heard', Accepted(done)')
    BY <1>3, <1>6, <1>7, <2>4, <2>5, PrefixGrows
  <2>8. A \o b = (A \o b) \o <<>>
    <3>1. b \in Nats
      BY <1>2, ByteNat DEF Nats
    <3> HIDE DEF A, b
    <3> QED
      BY <1>3, <3>1, Concatenated, NothingAdded
  <2>9. link # "down" => rx' \o wire' = (A \o b) \o <<>>
    <3> HIDE DEF A, b, sent, R, written
    <3> QED
      BY <1>4, <1>5, <1>7, <2>3, <2>8
  <2> HIDE DEF A, b
  <2> QED
    BY <1>6, <1>7, <2>5, <2>6, <2>7, <2>9 DEF InStep
<1> QED
  BY <1>8, <1>9

\* What recv() takes moves from the wire to what was read.
LEMMA TakenOver ==
  ASSUME Types, NEW n \in Nat, n <= Len(wire), Take(n)
  PROVE  /\ rx' = rx \o Taken(n) /\ rx' \o wire' = rx \o wire
         /\ Taken(n) \in Nats /\ wire' \in Nats /\ link # "down"
<1> DEFINE T == Taken(n)
           W == wire'
<1>1. /\ T \in Seq(Byte) /\ W \in Seq(Byte)
      /\ wire = T \o W /\ rx' = rx \o T /\ link # "down"
  BY TakeIs
<1>2. T \in Nats /\ W \in Nats /\ rx \in Nats
  BY <1>1, InStepTypes, ByteNat DEF Nats
<1> HIDE DEF T, W
<1>3. (rx \o T) \o W = rx \o (T \o W)
  BY <1>2, Associative
<1> QED
  BY <1>1, <1>2, <1>3 DEF T, W

LEMMA InStepRecvHeader ==
  ASSUME Types, InStep, RecvHeader
  PROVE  InStep'
<1>0. UNCHANGED <<env, link, links, writing, buffer, heard>> /\ size = None
  BY DEF RecvHeader
<1> SUFFICES ASSUME InStepMode PROVE InStep'
  BY <1>0, InStepModeSame DEF InStep
<1>1. PICK n \in Nat :
           /\ n \in Counts(4) /\ n > 0 /\ n <= Len(wire)
           /\ Take(n)
           /\ size' = IF n = 4 THEN decodeMessageLength(Taken(n)) ELSE None
  BY RecvHeaderIs
<1>2. wire \in Nats
  BY InStepTypes
<1>3. n = 4 \/ (n = Len(wire) /\ n < 4 /\ link = "hungup")
  <2>1. env.recvs = "full" /\ 4 \in Nat
    BY DEF InStepMode
  <2> QED
    BY <1>1, <1>2, <2>1, CountsFull
<1>4. link # "down" /\ rx' = rx \o Taken(n) /\ rx' \o wire' = rx \o wire
  BY <1>1, TakenOver
<1>5. Ahead
  BY <1>4, CurrentIs
<1>6. n = 4 /\ \E p \in Seq(Byte) : Taken(4) = Header(Len(p))
  BY <1>0, <1>1, <1>3, <1>5, NextHeader
<1>7. PICK p \in Seq(Byte) : Taken(4) = Header(Len(p))
  BY <1>6
<1>8. size' = Len(p) /\ Len(p) \in Nat
  BY <1>1, <1>6, <1>7, DecodeIs, ByteNat
<1>9. Pending' = Taken(n)
  BY <1>6, <1>7, <1>8 DEF Pending, None
<1>10. rx' = Messages(heard) \o Taken(n)
  <2>1. rx = Messages(heard) \o <<>> /\ Messages(heard) \in Nats
    BY <1>0, InStepTypes DEF InStep, Pending
  <2>2. rx = Messages(heard)
    BY <2>1, NothingAdded
  <2> QED
    BY <1>4, <2>2
<1>11. Partial' = Partial
  BY <1>0 DEF writing, Partial
<1> QED
  BY <1>0, <1>4, <1>9, <1>10, <1>11 DEF InStep, writing

LEMMA InStepRecvPayload ==
  ASSUME Types, InStep, RecvPayload
  PROVE  InStep'
<1>0. UNCHANGED <<env, link, links, writing, buffer>> /\ size # None
  BY DEF RecvPayload
<1> SUFFICES ASSUME InStepMode PROVE InStep'
  BY <1>0, InStepModeSame DEF InStep
<1>1. size \in Nat /\ size' = None
  BY RecvPayloadIs
<1>2. PICK n \in Nat :
              /\ n \in Counts(size) \/ (n = 0 /\ size = 0)
              /\ n <= Len(wire) /\ n <= size
              /\ Take(n)
              /\ heard' = IF n = size THEN Append(heard, Taken(n)) ELSE heard
  BY RecvPayloadIs
<1>3. wire \in Nats
  BY InStepTypes
<1>4. n = size \/ (n = Len(wire) /\ n < size /\ link = "hungup")
  <2>1. env.recvs = "full"
    BY DEF InStepMode
  <2> QED
    BY <1>1, <1>2, <1>3, <2>1, CountsFull
<1>5. link # "down" /\ rx' = rx \o Taken(n) /\ rx' \o wire' = rx \o wire
  BY <1>2, TakenOver
<1>6. Ahead
  BY <1>5, CurrentIs
<1>7. n = size /\ \E p \in Seq(Byte) : Len(p) = size /\ Taken(n) = p
                                       /\ IsPrefix(Append(heard, p), Accepted(done))
  BY <1>1, <1>2, <1>4, <1>6, NextPayload
<1>8. PICK p \in Seq(Byte) : Len(p) = size /\ Taken(n) = p
                             /\ IsPrefix(Append(heard, p), Accepted(done))
  BY <1>7
<1>9. heard' = Append(heard, p)
  BY <1>2, <1>7, <1>8
<1> DEFINE H == Messages(heard)
           h == Header(Len(p))
<1>10. Messages(heard') = H \o (h \o p)
  BY <1>9, InStepTypes, MessagesAppend DEF Message
<1>11. rx' = (H \o h) \o p
  <2>1. rx = H \o Pending /\ Pending = h
    BY <1>0, <1>8 DEF InStep, Pending
  <2> QED
    BY <1>5, <1>8, <2>1
<1>12. rx' = Messages(heard') \o <<>>
  <2>1. H \in Nats /\ h \in Nats /\ p \in Nats
    BY InStepTypes, MessageIs
  <2> HIDE DEF H, h
  <2>2. (H \o h) \o p = H \o (h \o p) /\ H \o (h \o p) \in Nats
    BY SMTT(30), <2>1, Associative, Concatenated
  <2>3. (H \o (h \o p)) \o <<>> = H \o (h \o p)
    BY <2>2, NothingAdded
  <2> QED
    BY <1>10, <1>11, <2>2, <2>3
<1>13. Pending' = <<>> /\ Partial' = Partial /\ Accepted(done)' = Accepted(done)
  BY <1>0, <1>1 DEF Pending, Partial, writing
<1> HIDE DEF H, h
<1>14. Messages(heard)' = Messages(heard')
  OBVIOUS
<1> QED
  BY <1>0, <1>5, <1>8, <1>9, <1>12, <1>13, <1>14 DEF InStep

LEMMA InStepRecvEnd ==
  ASSUME Types, InStep, RecvEnd
  PROVE  InStep'
<1>0. /\ UNCHANGED <<env, links, wire, writing, buffer, rx, heard>>
      /\ link = "hungup" /\ wire = <<>> /\ size # 0 /\ size' = None /\ link' = "down"
  BY DEF RecvEnd
<1> SUFFICES ASSUME InStepMode PROVE InStep'
  BY <1>0, InStepModeSame DEF InStep
<1>1. Ahead
  BY <1>0, CurrentIs
<1>2. size = None
  <2>1. SUFFICES ASSUME size # None PROVE FALSE
    OBVIOUS
  <2>2. size \in Nat /\ Len(wire) = 0 /\ 0 \in Nat /\ size > 0
    BY <1>0, <2>1 DEF Types, Reading
  <2>3. 0 = Len(wire) /\ 0 < size
    BY <2>2
  <2> QED
    BY <1>0, <1>1, <2>2, <2>3, NextPayload
<1>3. Pending' = Pending /\ Partial' = Partial
  BY <1>0, <1>2 DEF Pending, Partial, writing
<1> QED
  BY <1>0, <1>3 DEF InStep, writing

LEMMA InStepStep == Types /\ Truth /\ InStep /\ [Next]_vars => InStep'
<1> SUFFICES ASSUME Types, Truth, InStep, [Next]_vars PROVE InStep'
  OBVIOUS
<1>1. CASE Connect
  BY <1>1, InStepConnect
<1>2. CASE HangUp
  BY <1>2, InStepSame DEF HangUp
<1>3. CASE Disconnect
  <2>1. /\ link' = "down" /\ UNCHANGED <<env, links, writing, reading>>
    BY <1>3 DEF Disconnect
  <2> QED
    BY <2>1 DEF InStep, InStepMode, Pending, writing, reading
<1>4. CASE Write
  BY <1>4, InStepWrite
<1>5. CASE Send
  BY <1>5, InStepSend
<1>6. CASE SendFails
  BY <1>6, InStepSendFails
<1>7. CASE RecvLines
  BY <1>7 DEF RecvLines, InStep, InStepMode
<1>8. CASE RecvHeader
  BY <1>8, InStepRecvHeader
<1>9. CASE RecvPayload
  BY <1>9, InStepRecvPayload
<1>10. CASE RecvTimesOut
  BY <1>10 DEF RecvTimesOut, InStep, InStepMode
<1>11. CASE RecvEnd
  BY <1>11, InStepRecvEnd
<1>12. CASE UNCHANGED vars
  <2>1. UNCHANGED <<wire, writing, reading>> /\ env' = env /\ link' = link
    BY <1>12 DEF vars
  <2> QED
    BY <2>1, InStepSame
<1> QED
  BY <1>1, <1>2, <1>3, <1>4, <1>5, <1>6, <1>7, <1>8, <1>9, <1>10, <1>11, <1>12 DEF Next

LEMMA StepKept == Spec => []InStep
<1>1. Init => InStep
  BY InStepInit
<1>2. Types /\ Types' /\ Truth /\ Truth' /\ InStep /\ [Next]_vars => InStep'
  BY InStepStep
<1> QED
  BY <1>1, <1>2, TypesInvariant, TruthInvariant, PTL DEF Spec

LEMMA InStepKept == InStep => HeadersInStep
<1> SUFFICES ASSUME InStep, env.mode = "PAYLOAD_HEADER", env.recvs = "full", env.sends # "any"
             PROVE  /\ IsPrefix(heard, Accepted(done))
                    /\ rx = Frames(heard) \o (IF size = None THEN <<>> ELSE Header(size))
  BY DEF HeadersInStep
<1>1. Frames(heard) = Messages(heard)
  BY DEF Frames, Messages, Frame, Message
<1> QED
  BY <1>1 DEF InStep, InStepMode, Pending

\* Whatever is written, and however connections end: if messages arrive whole and
\* no write() is cut twice, the reader reports the messages written, in order,
\* and never takes part of one for a header.
THEOREM ReaderKeepsStep == Spec => []HeadersInStep
<1>1. InStep => HeadersInStep
  BY InStepKept
<1> QED
  BY <1>1, StepKept, PTL

---------------------------------------------------------------------------
(* The sizes awaited *)

Whole(p) == Len(Message(p)) <= BufSize

\* Every message that was accepted has passed the length check of write().
AcceptedFit ==
    env.mode = "PAYLOAD_HEADER" =>
        \A i \in 1 .. Len(Accepted(done)) : Whole(Accepted(done)[i])

\* No size is awaited in the other mode, and none that does not fit in step.
SizesFit ==
    /\ env.mode = "NEW_LINE_DELIMITER" => size = None /\ ~overrun
    /\ InStepMode => (size # None => size + 4 <= BufSize) /\ ~overrun

LEMMA AcceptedFitInit == Init => AcceptedFit
<1>1. Len(<<>>) = 0
  OBVIOUS
<1> QED
  BY <1>1, AcceptedNone DEF Init, AcceptedFit

\* A write() that returns true had its frame in m_write_buffer.
LEMMA AcceptedFitFinish ==
  ASSUME Types, AcceptedFit, NEW ok \in BOOLEAN, NEW written \in Nat,
         Len(done) < Len(Payloads), Finish(ok, written), env' = env,
         ok => m_write_buffer # <<>>
  PROVE  AcceptedFit'
<1> SUFFICES ASSUME env.mode = "PAYLOAD_HEADER"
             PROVE  \A i \in 1 .. Len(Accepted(done)') : Whole(Accepted(done)'[i])
  BY DEF AcceptedFit, Whole
<1> DEFINE p == Payloads[Len(done) + 1]
           A == Accepted(done)
           Q == Seq(Byte)
<1>1. \A i \in 1 .. Len(A) : Whole(A[i])
  BY DEF AcceptedFit
<1>2. A \in Seq(Q) /\ p \in Q
  BY InStepTypes, PayloadTyped
<1>3. CASE ok
  <2>1. Accepted(done)' = Append(A, p)
    BY <1>3, AcceptedFinish
  <2>2. Whole(p)
    BY <1>3 DEF Types, Writing, Frame, Message, Whole
  <2> HIDE DEF A, p, Q
  <2> DEFINE B == Append(A, p)
  <2>3. Len(B) = Len(A) + 1 /\ Len(A) \in Nat /\ B[Len(A) + 1] = p
        /\ \A i \in 1 .. Len(A) : B[i] = A[i]
    BY <1>2, AppendProperties
  <2>4. \A i \in 1 .. Len(B) : i = Len(A) + 1 \/ i \in 1 .. Len(A)
    BY <2>3
  <2> HIDE DEF B
  <2>5. \A i \in 1 .. Len(B) : Whole(B[i])
    BY <1>1, <2>2, <2>3, <2>4
  <2> QED
    BY <2>1, <2>5 DEF B
<1>4. CASE ~ok
  <2>1. Accepted(done)' = A
    BY <1>4, AcceptedFinish
  <2> HIDE DEF A
  <2> QED
    BY <1>1, <2>1
<1> QED
  BY <1>3, <1>4

LEMMA AcceptedFitStep == Types /\ AcceptedFit /\ [Next]_vars => AcceptedFit'
<1> SUFFICES ASSUME Types, AcceptedFit, [Next]_vars PROVE AcceptedFit'
  OBVIOUS
<1>1. ASSUME env' = env, done' = done PROVE AcceptedFit'
  BY <1>1 DEF AcceptedFit
<1>2. CASE Connect
  <2>1. done' = <<>> /\ Len(<<>>) = 0
    BY <1>2 DEF Connect
  <2>2. Accepted(done)' = <<>>
    BY <2>1, AcceptedNone
  <2> QED
    BY <2>1, <2>2 DEF AcceptedFit
<1>3. CASE Write
  <2>1. env' = env /\ Len(done) < Len(Payloads)
        /\ (done' = done \/ Finish(FALSE, 0))
    BY <1>3 DEF Write
  <2>2. CASE done' = done
    BY <1>1, <2>1, <2>2
  <2>3. CASE Finish(FALSE, 0)
    <3>1. FALSE \in BOOLEAN /\ 0 \in Nat
      OBVIOUS
    <3> QED
      BY <2>1, <2>3, <3>1, AcceptedFitFinish
  <2> QED
    BY <2>1, <2>2, <2>3
<1>4. CASE Send
  <2>1. PICK n \in 1 .. bytes_to_write :
           /\ env' = env
           /\ done' = done \/ Finish(TRUE, bytes_written + n)
    BY <1>4 DEF Send
  <2>2. /\ m_write_buffer # <<>> /\ Len(done) < Len(Payloads)
        /\ bytes_written + n \in Nat
    BY SendIs
  <2>3. CASE done' = done
    BY <1>1, <2>1, <2>3
  <2>4. CASE Finish(TRUE, bytes_written + n)
    <3>1. TRUE \in BOOLEAN
      OBVIOUS
    <3> QED
      BY <2>1, <2>2, <2>4, <3>1, AcceptedFitFinish
  <2> QED
    BY <2>1, <2>3, <2>4
<1>5. CASE SendFails
  <2>1. /\ env' = env /\ Len(done) < Len(Payloads) /\ bytes_written \in Nat
        /\ Finish(FALSE, bytes_written)
    BY <1>5 DEF SendFails, Failed, Types, Writing
  <2>2. FALSE \in BOOLEAN
    OBVIOUS
  <2> QED
    BY <2>1, <2>2, AcceptedFitFinish
<1>6. CASE env' = env /\ UNCHANGED writing
  BY <1>1, <1>6 DEF writing
<1>7. CASE UNCHANGED vars
  BY <1>1, <1>7 DEF vars, writing
<1> QED
  BY <1>2, <1>3, <1>4, <1>5, <1>6, <1>7, SendsRest

LEMMA SizesFitRecvHeader ==
  ASSUME Types, InStep, AcceptedFit, SizesFit, RecvHeader
  PROVE  SizesFit'
<1>0. /\ UNCHANGED <<env, overrun>> /\ size = None
      /\ env.mode = "PAYLOAD_HEADER"
  BY DEF RecvHeader
<1>1. env.mode # "NEW_LINE_DELIMITER" /\ (InStepMode' <=> InStepMode)
  BY <1>0, InStepModeSame
<1> SUFFICES ASSUME InStepMode PROVE size' # None => size' + 4 <= BufSize
  BY <1>0, <1>1 DEF SizesFit
<1>2. PICK n \in Nat :
           /\ n \in Counts(4) /\ n > 0 /\ n <= Len(wire)
           /\ Take(n)
           /\ size' = IF n = 4 THEN decodeMessageLength(Taken(n)) ELSE None
  BY RecvHeaderIs
<1>3. wire \in Nats
  BY InStepTypes
<1>4. n = 4 \/ (n = Len(wire) /\ n < 4 /\ link = "hungup")
  <2>1. env.recvs = "full" /\ 4 \in Nat
    BY DEF InStepMode
  <2> QED
    BY <1>2, <1>3, <2>1, CountsFull
<1>5. Ahead
  BY <1>2, TakenOver, CurrentIs
<1>6. PICK p \in Seq(Byte) :
           /\ Taken(4) = Header(Len(p))
           /\ IsPrefix(Append(heard, p), Accepted(done)) \/ Len(Message(p)) <= BufSize
  BY <1>0, <1>2, <1>4, <1>5, NextHeader
<1>7. n = 4
  BY <1>0, <1>2, <1>4, <1>5, NextHeader
<1>8. Whole(p)
  <2>1. CASE Len(Message(p)) <= BufSize
    BY <2>1 DEF Whole
  <2>2. CASE IsPrefix(Append(heard, p), Accepted(done))
    <3> DEFINE Q == Seq(Byte)
               A == Accepted(done)
               B == Append(heard, p)
               k == Len(heard) + 1
    <3>1. heard \in Seq(Q) /\ A \in Seq(Q) /\ p \in Q
      BY InStepTypes
    <3>2. \A i \in 1 .. Len(A) : Whole(A[i])
      BY <1>0 DEF AcceptedFit
    <3> HIDE DEF Q, A
    <3>3. B \in Seq(Q) /\ Len(B) = k /\ B[k] = p /\ k \in Nat /\ k > 0
      BY <3>1, AppendProperties
    <3>4. IsPrefix(B, A)
      BY <2>2 DEF A
    <3> HIDE DEF B
    <3>5. Len(B) <= Len(A) /\ \A i \in 1 .. Len(B) : B[i] = A[i]
      BY <3>1, <3>3, <3>4, PrefixIs
    <3>6. k \in 1 .. Len(A) /\ A[k] = p
      BY <3>1, <3>3, <3>5
    <3> QED
      BY <3>2, <3>6
  <2> QED
    BY <1>6, <2>1, <2>2
<1>9. size' = Len(p) /\ Len(p) \in Nat
  BY <1>2, <1>6, <1>7, DecodeIs, ByteNat
<1>10. Len(Message(p)) = 4 + Len(p)
  <2> DEFINE h == Header(Len(p))
  <2>1. h \in Nats /\ Len(h) = 4 /\ p \in Nats
    BY MessageIs
  <2>2. Message(p) = h \o p
    BY DEF Message
  <2> HIDE DEF h
  <2> QED
    BY <2>1, <2>2, Concatenated
<1> QED
  BY <1>8, <1>9, <1>10, SizeType DEF Whole

LEMMA SizesFitRecvPayload ==
  ASSUME Types, SizesFit, RecvPayload
  PROVE  SizesFit'
<1>1. PICK n \in Nat : n <= size /\ overrun' = (overrun \/ Overruns(n))
  BY RecvPayloadIs
<1>2. env' = env /\ size \in Nat /\ size # None /\ size' = None
  BY RecvPayloadIs DEF RecvPayload
<1>3. env.mode # "NEW_LINE_DELIMITER" /\ (InStepMode' <=> InStepMode)
  BY <1>2, InStepModeSame DEF SizesFit
<1>4. ASSUME InStepMode PROVE ~overrun'
  <2>1. size + 4 <= BufSize /\ ~overrun
    BY <1>2, <1>4 DEF SizesFit
  <2>2. ~(n > BufSize)
    BY <1>1, <1>2, <2>1, SizeType
  <2> QED
    BY <1>1, <2>1, <2>2 DEF Overruns
<1> QED
  BY <1>2, <1>3, <1>4 DEF SizesFit

LEMMA SizesFitStep ==
  Types /\ InStep /\ AcceptedFit /\ SizesFit /\ [Next]_vars => SizesFit'
<1> SUFFICES ASSUME Types, InStep, AcceptedFit, SizesFit, [Next]_vars PROVE SizesFit'
  OBVIOUS
<1>1. ASSUME env' = env, overrun' = overrun, size' = size \/ size' = None
      PROVE  SizesFit'
  BY <1>1, InStepModeSame DEF SizesFit
<1>2. CASE RecvHeader
  BY <1>2, SizesFitRecvHeader
<1>3. CASE RecvPayload
  BY <1>3, SizesFitRecvPayload
<1>4. CASE ~RecvHeader /\ ~RecvPayload
  <2>1. env' = env /\ overrun' = overrun /\ (size' = size \/ size' = None)
    BY <1>4 DEF Next, Connect, HangUp, Disconnect, Write, Send, SendFails,
                RecvLines, RecvTimesOut, RecvEnd, reading, vars
  <2> QED
    BY <1>1, <2>1
<1> QED
  BY <1>2, <1>3, <1>4

LEMMA SizesFitting == SizesFit /\ Types => PayloadsFit
<1> SUFFICES ASSUME SizesFit, Types, env.recvs = "full", env.sends # "any"
             PROVE  (size # None => size + 4 <= BufSize) /\ ~overrun
  BY DEF PayloadsFit, HeaderSize
<1>1. env.mode = "NEW_LINE_DELIMITER" \/ env.mode = "PAYLOAD_HEADER"
  BY DEF Types, Env
<1> QED
  BY <1>1 DEF SizesFit, InStepMode

\* Whatever is written, and whichever side reads: a handler never checks a size
\* it decodes against its buffer, but if messages arrive whole and no write()
\* is cut twice each one fits, so that recv() never writes behind its end.
THEOREM HandlersAreNotOverrun == Spec => []PayloadsFit
<1>1. Init => AcceptedFit /\ SizesFit
  BY AcceptedFitInit DEF Init, SizesFit
<1>2. Types /\ AcceptedFit /\ [Next]_vars => AcceptedFit'
  BY AcceptedFitStep
<1>3. Types /\ InStep /\ AcceptedFit /\ SizesFit /\ [Next]_vars => SizesFit'
  BY SizesFitStep
<1>4. SizesFit /\ Types => PayloadsFit
  BY SizesFitting
<1> QED
  BY <1>1, <1>2, <1>3, <1>4, TypesInvariant, StepKept, PTL DEF Spec

---------------------------------------------------------------------------
(* The lines of a stream *)

\* The lines of the bytes s are h, and b is what does not end in a delimiter yet,
\* less q full buffers.
Heard(s, h, b) ==
    /\ h = LinesOf(s)
    /\ \A k \in 0 .. Count(s) : End(s, k) \in 0 .. Len(s)
    /\ b \in Seq(Byte)
    /\ Len(b) <= BufSize
    /\ \E q \in Nat : /\ Len(s) = End(s, Count(s)) + (q * BufSize) + Len(b)
                      /\ b = SubSeq(s, Len(s) - Len(b) + 1, Len(s))

LEMMA SubSeqIs ==
  ASSUME NEW S, NEW s, NEW i \in Nat, NEW j \in Nat, i <= j, \A k \in i + 1 .. j : s[k] \in S
  PROVE  /\ SubSeq(s, i + 1, j) \in Seq(S) /\ Len(SubSeq(s, i + 1, j)) = j - i
         /\ \A k \in 1 .. j - i : SubSeq(s, i + 1, j)[k] = s[i + k]
<1> DEFINE t == SubSeq(s, i + 1, j)
<1>1. /\ t \in Seq(S)
      /\ Len(t) = IF i + 1 <= j THEN j - (i + 1) + 1 ELSE 0
      /\ \A k \in 1 .. j - (i + 1) + 1 : t[k] = s[i + 1 + k - 1]
  <2>1. i + 1 \in Int /\ j \in Int
    OBVIOUS
  <2> QED
    BY <2>1, SubSeqProperties
<1>2. j - (i + 1) + 1 = j - i /\ \A k \in 1 .. j - i : i + 1 + k - 1 = i + k
  OBVIOUS
<1>3. (IF i + 1 <= j THEN j - (i + 1) + 1 ELSE 0) = j - i
  OBVIOUS
<1> HIDE DEF t
<1> QED
  BY <1>1, <1>2, <1>3 DEF t

LEMMA SubSeqAppend ==
  ASSUME NEW S, NEW s \in Seq(S), NEW x \in S, NEW i \in 0 .. Len(s), NEW j \in 0 .. Len(s)
  PROVE  SubSeq(Append(s, x), i + 1, j) = SubSeq(s, i + 1, j)
<1> DEFINE sx == Append(s, x)
           n == Len(s)
<1>1. n \in Nat /\ i \in Nat /\ j \in Nat /\ j <= n
  OBVIOUS
<1>2. \A k \in 1 .. n : sx[k] = s[k] /\ s[k] \in S
  BY AppendProperties
<1> HIDE DEF sx, n
<1>3. \A k \in i + 1 .. j : k \in 1 .. n
  BY <1>1
<1>4. \A k \in i + 1 .. j : sx[k] \in S /\ s[k] \in S
  BY <1>2, <1>3
<1>5. CASE i <= j
  <2>1. /\ SubSeq(sx, i + 1, j) \in Seq(S) /\ Len(SubSeq(sx, i + 1, j)) = j - i
        /\ \A k \in 1 .. j - i : SubSeq(sx, i + 1, j)[k] = sx[i + k]
    BY <1>1, <1>4, <1>5, SubSeqIs
  <2>2. /\ SubSeq(s, i + 1, j) \in Seq(S) /\ Len(SubSeq(s, i + 1, j)) = j - i
        /\ \A k \in 1 .. j - i : SubSeq(s, i + 1, j)[k] = s[i + k]
    BY <1>1, <1>4, <1>5, SubSeqIs
  <2>3. \A k \in 1 .. j - i : i + k \in 1 .. n
    BY <1>1
  <2> QED
    BY <1>2, <2>1, <2>2, <2>3, SeqEqual DEF sx
<1>6. CASE ~(i <= j)
  <2>1. i + 1 \in Int /\ j \in Int /\ j < i + 1
    BY <1>1, <1>6
  <2> QED
    BY <2>1, SubSeqEmpty DEF sx
<1> QED
  BY <1>5, <1>6

\* The lines that were there stay as they are.
LEMMA LinesAppend ==
  ASSUME NEW s \in Seq(Byte), NEW x \in Byte,
         \A k \in 0 .. Count(s) : End(s, k) \in 0 .. Len(s)
  PROVE  /\ \A k \in 1 .. Count(s) : LinesOf(Append(s, x))[k] = LinesOf(s)[k]
         /\ DOMAIN LinesOf(Append(s, x)) = 1 .. Count(Append(s, x))
         /\ DOMAIN LinesOf(s) = 1 .. Count(s)
<1> DEFINE sx == Append(s, x)
           c == Count(s)
<1>1. c \in Nat /\ (Count(sx) = c \/ Count(sx) = c + 1)
  BY EndsAppend
<1>2. ASSUME NEW k \in 1 .. c PROVE LinesOf(sx)[k] = LinesOf(s)[k]
  <2>1. k \in 1 .. Count(sx) /\ k - 1 \in 0 .. c /\ k \in 0 .. c
    BY <1>1
  <2>2. End(sx, k - 1) = End(s, k - 1) /\ End(sx, k) = End(s, k)
    BY <2>1, EndAppend
  <2>3. End(s, k - 1) \in 0 .. Len(s) /\ End(s, k) \in 0 .. Len(s)
    BY <2>1
  <2>4. SubSeq(sx, End(s, k - 1) + 1, End(s, k)) = SubSeq(s, End(s, k - 1) + 1, End(s, k))
    BY <2>3, SubSeqAppend
  <2>5. LinesOf(sx)[k] = FittingTail(SubSeq(sx, End(sx, k - 1) + 1, End(sx, k)))
    BY <2>1 DEF LinesOf
  <2>6. LinesOf(s)[k] = FittingTail(SubSeq(s, End(s, k - 1) + 1, End(s, k)))
    BY DEF LinesOf
  <2> HIDE DEF sx
  <2> QED
    BY <2>2, <2>4, <2>5, <2>6
<1> QED
  BY <1>2 DEF LinesOf

LEMMA DivExact ==
  ASSUME NEW q \in Nat, NEW l \in Nat, NEW B \in Nat, l < B
  PROVE  ((q * B) + l) \div B = q
OBVIOUS

\* Of a line that has filled q buffers and gone on for l bytes, those and the
\* delimiter are left.
LEMMA TailIs ==
  ASSUME NEW s \in Seq(Byte), NEW x \in Byte, NEW e \in Nat, NEW q \in Nat, NEW l \in Nat,
         l < BufSize, Len(s) = e + (q * BufSize) + l
  PROVE  FittingTail(SubSeq(Append(s, x), e + 1, Len(s) + 1))
            = Append(SubSeq(s, Len(s) - l + 1, Len(s)), x)
<1> DEFINE n == Len(s)
           m == q * BufSize
           sx == Append(s, x)
           line == SubSeq(sx, e + 1, n + 1)
           b == SubSeq(s, n - l + 1, n)
<1>0. BufSize \in Nat /\ BufSize > 0
  BY SizeType
<1>1. m \in Nat /\ n \in Nat /\ n = e + m + l
  BY <1>0
<1>2. (m + l) \div BufSize = q /\ BufSize * q = m
  <2>1. ((q * BufSize) + l) \div BufSize = q
    BY <1>0, DivExact, Zenon
  <2>2. BufSize * q = q * BufSize
    BY <1>0
  <2> QED
    BY <2>1, <2>2
<1> HIDE DEF m
<1>3. /\ sx \in Seq(Byte) /\ Len(sx) = n + 1 /\ sx[n + 1] = x
      /\ \A i \in 1 .. n : sx[i] = s[i]
  BY AppendProperties
<1> HIDE DEF n, sx
<1>4. /\ line \in Seq(Byte) /\ Len(line) = m + l + 1
      /\ \A i \in 1 .. m + l + 1 : line[i] = sx[e + i]
  <2>1. \A i \in e + 1 .. n + 1 : i \in 1 .. Len(sx)
    BY <1>1, <1>3
  <2>2. \A i \in e + 1 .. n + 1 : sx[i] \in Byte
    BY <1>3, <2>1
  <2>3. n + 1 \in Nat /\ e <= n + 1 /\ (n + 1) - e = m + l + 1
    BY <1>1
  <2>4. /\ line \in Seq(Byte) /\ Len(line) = (n + 1) - e
        /\ \A i \in 1 .. (n + 1) - e : line[i] = sx[e + i]
    <3> DEFINE j == n + 1
    <3>1. j \in Nat /\ e <= j /\ \A i \in e + 1 .. j : sx[i] \in Byte
      BY <2>2, <2>3
    <3> HIDE DEF j
    <3>2. /\ SubSeq(sx, e + 1, j) \in Seq(Byte) /\ Len(SubSeq(sx, e + 1, j)) = j - e
          /\ \A i \in 1 .. j - e : SubSeq(sx, e + 1, j)[i] = sx[e + i]
      BY <3>1, SubSeqIs
    <3> QED
      BY <3>2, Zenon DEF j
  <2> HIDE DEF line
  <2> QED
    BY <2>3, <2>4
<1> HIDE DEF line
<1> DEFINE tail == SubSeq(line, m + 1, m + l + 1)
<1>5. FittingTail(line) = tail
  <2>1. Len(line) - 1 = m + l
    BY <1>1, <1>4
  <2> QED
    BY <1>2, <1>4, <2>1 DEF FittingTail
<1>6. /\ tail \in Seq(Byte) /\ Len(tail) = l + 1
      /\ \A i \in 1 .. l + 1 : tail[i] = sx[n - l + i]
  <2>1. \A i \in m + 1 .. m + l + 1 : i \in 1 .. Len(line)
    BY <1>1, <1>4
  <2>2. \A i \in m + 1 .. m + l + 1 : line[i] \in Byte
    BY <1>4, <2>1
  <2>3. m \in Nat /\ m + l + 1 \in Nat /\ m <= m + l + 1 /\ m + l + 1 - m = l + 1
    BY <1>1
  <2>4. /\ tail \in Seq(Byte) /\ Len(tail) = m + l + 1 - m
        /\ \A i \in 1 .. m + l + 1 - m : tail[i] = line[m + i]
    BY SMTT(30), <2>2, <2>3, SubSeqIs
  <2>5. \A i \in 1 .. l + 1 : m + i \in 1 .. m + l + 1 /\ e + (m + i) = n - l + i
    BY <1>1
  <2> HIDE DEF tail
  <2> QED
    BY <1>4, <2>3, <2>4, <2>5
<1> HIDE DEF tail
<1>7. /\ b \in Seq(Byte) /\ Len(b) = l
      /\ \A i \in 1 .. l : b[i] = s[n - l + i]
  <2>1. \A i \in n - l + 1 .. n : i \in 1 .. n
    BY <1>1
  <2>2. \A i \in n - l + 1 .. n : s[i] \in Byte
    BY <2>1 DEF n
  <2>3. n - l \in Nat /\ n - l <= n /\ n - (n - l) = l
    BY <1>1
  <2>4. /\ b \in Seq(Byte) /\ Len(b) = n - (n - l)
        /\ \A i \in 1 .. n - (n - l) : b[i] = s[n - l + i]
    <3> DEFINE i == n - l
    <3>1. i \in Nat /\ n \in Nat /\ i <= n /\ \A k \in i + 1 .. n : s[k] \in Byte
      BY <1>1, <2>2, <2>3
    <3> HIDE DEF i
    <3>2. /\ SubSeq(s, i + 1, n) \in Seq(Byte) /\ Len(SubSeq(s, i + 1, n)) = n - i
          /\ \A k \in 1 .. n - i : SubSeq(s, i + 1, n)[k] = s[i + k]
      BY SMTT(30), <3>1, SubSeqIs
    <3> QED
      BY <3>2, Zenon DEF i
  <2> HIDE DEF b
  <2> QED
    BY <2>3, <2>4
<1> HIDE DEF b
<1>8. /\ Append(b, x) \in Seq(Byte) /\ Len(Append(b, x)) = l + 1
      /\ Append(b, x)[l + 1] = x /\ \A i \in 1 .. l : Append(b, x)[i] = b[i]
  BY <1>7, AppendProperties
<1>9. ASSUME NEW i \in 1 .. l + 1 PROVE tail[i] = Append(b, x)[i]
  <2>1. CASE i = l + 1
    <3>1. n - l + (l + 1) = n + 1
      BY <1>1
    <3> QED
      BY <1>3, <1>6, <1>8, <2>1, <3>1
  <2>2. CASE i # l + 1
    <3>1. i \in 1 .. l /\ n - l + i \in 1 .. n
      BY <1>1, <2>2
    <3> QED
      BY SMTT(30), <1>3, <1>6, <1>7, <1>8, <3>1
  <2> QED
    BY <2>1, <2>2
<1>10. tail = Append(b, x)
  BY <1>6, <1>8, <1>9, SeqEqual
<1> QED
  BY <1>5, <1>10 DEF line, b, sx, n

LEMMA EndsTypes ==
  ASSUME NEW s \in Seq(Byte)
  PROVE  Ends(s) \subseteq 1 .. Len(s) /\ IsFiniteSet(Ends(s)) /\ Count(s) \in Nat
<1>1. NewLine \in Byte
  BY DEF NewLine, Byte
<1> QED
  BY <1>1, EndsAppend

LEMMA HeardTypes ==
  ASSUME NEW s \in Seq(Byte), NEW h, NEW b, Heard(s, h, b)
  PROVE  /\ b \in Seq(Byte) /\ Len(b) \in Nat /\ Len(b) <= Len(s) /\ Len(s) \in Nat
         /\ Count(s) \in Nat /\ End(s, Count(s)) \in 0 .. Len(s)
         /\ b = SubSeq(s, Len(s) - Len(b) + 1, Len(s))
         /\ \E q \in Nat : Len(s) = End(s, Count(s)) + (q * BufSize) + Len(b)
<1> DEFINE n == Len(s)
           l == Len(b)
           e == End(s, Count(s))
<1>1. n \in Nat /\ Count(s) \in Nat
  BY EndsTypes
<1>2. e \in 0 .. n
  BY <1>1 DEF Heard
<1>3. PICK q \in Nat : n = e + (q * BufSize) + l /\ b = SubSeq(s, n - l + 1, n)
  BY DEF Heard
<1> DEFINE m == q * BufSize
<1>4. m \in Nat
  BY SizeType
<1>5. n = e + m + l
  BY <1>3
<1>6. b \in Seq(Byte) /\ l \in Nat
  BY DEF Heard
<1> HIDE DEF m, e, n, l
<1>7. l <= n
  BY <1>1, <1>2, <1>4, <1>5, <1>6
<1> QED
  BY <1>1, <1>2, <1>3, <1>6, <1>7 DEF e, n, l

\* How the fact is established.
LEMMA HeardIs ==
  ASSUME NEW s \in Seq(Byte), NEW h, NEW b \in Seq(Byte), NEW q \in Nat,
         h = LinesOf(s), \A k \in 0 .. Count(s) : End(s, k) \in 0 .. Len(s),
         Len(b) <= BufSize,
         Len(s) = End(s, Count(s)) + (q * BufSize) + Len(b),
         b = SubSeq(s, Len(s) - Len(b) + 1, Len(s))
  PROVE  Heard(s, h, b)
<1>1. \E r \in Nat : /\ Len(s) = End(s, Count(s)) + (r * BufSize) + Len(b)
                     /\ b = SubSeq(s, Len(s) - Len(b) + 1, Len(s))
  BY Zenon
<1> QED
  BY <1>1, Zenon DEF Heard

LEMMA HeardNothing == Heard(<<>>, <<>>, <<>>)
<1> DEFINE e == <<>>
<1>1. e \in Seq(Byte) /\ Len(e) = 0
  OBVIOUS
<1>2. Ends(e) = {}
  BY DEF Ends
<1>3. Count(e) = 0
  BY <1>2, FS_EmptySet DEF Count
<1>4. LinesOf(e) = <<>>
  <2>1. 1 .. 0 = {}
    OBVIOUS
  <2> QED
    BY <1>3, <2>1 DEF LinesOf
<1>5. End(e, 0) = 0
  BY DEF End
<1>6. \A k \in 0 .. Count(e) : End(e, k) \in 0 .. Len(e)
  <2>1. \A k \in 0 .. 0 : k = 0
    OBVIOUS
  <2> QED
    BY <1>1, <1>3, <1>5, <2>1
<1>7. SubSeq(e, 0 - 0 + 1, 0) = <<>>
  BY SubSeqEmpty
<1>8. 0 = 0 + (0 * BufSize) + 0 /\ 0 <= BufSize
  BY SizeType
<1> HIDE DEF e
<1>9. /\ Len(e) = End(e, Count(e)) + (0 * BufSize) + Len(e)
      /\ e = SubSeq(e, Len(e) - Len(e) + 1, Len(e))
      /\ Len(e) <= BufSize
  <2>1. e = <<>>
    BY DEF e
  <2> QED
    BY <1>1, <1>3, <1>5, <1>7, <1>8, <2>1
<1>10. \E q \in Nat : /\ Len(e) = End(e, Count(e)) + (q * BufSize) + Len(e)
                      /\ e = SubSeq(e, Len(e) - Len(e) + 1, Len(e))
  <2>1. 0 \in Nat
    OBVIOUS
  <2> QED
    BY <1>9, <2>1, Zenon
<1>11. Heard(e, LinesOf(e), e)
  BY <1>1, <1>6, <1>9, <1>10, Zenon DEF Heard
<1> QED
  BY <1>4, <1>11 DEF e

\* A buffer that is full starts over.
LEMMA HeardRestart ==
  ASSUME NEW s \in Seq(Byte), NEW h, NEW b, Heard(s, h, b), Len(b) = BufSize
  PROVE  Heard(s, h, <<>>)
<1> DEFINE n == Len(s)
           e == End(s, Count(s))
<1>1. n \in Nat /\ e \in 0 .. n
  BY HeardTypes
<1>2. PICK q \in Nat : n = e + (q * BufSize) + Len(b)
  BY HeardTypes
<1>3. <<>> \in Seq(Byte) /\ Len(<<>>) = 0
  OBVIOUS
<1>4. q + 1 \in Nat /\ (q + 1) * BufSize = (q * BufSize) + BufSize /\ (q * BufSize) \in Nat
  BY SizeType
<1> DEFINE m == q * BufSize
           m1 == (q + 1) * BufSize
<1>5. n = e + m1 + 0
  <2>1. n = e + m + BufSize /\ m1 = m + BufSize /\ m \in Nat /\ BufSize \in Nat /\ e \in Nat
    BY <1>1, <1>2, <1>4, SizeType
  <2> HIDE DEF n, e, m, m1
  <2> QED
    BY <2>1
<1>6. SubSeq(s, n - 0 + 1, n) = <<>>
  BY <1>1, SubSeqEmpty
<1>7. 0 <= BufSize
  BY SizeType
<1>8. h = LinesOf(s) /\ \A k \in 0 .. Count(s) : End(s, k) \in 0 .. Len(s)
  BY DEF Heard
<1> DEFINE d == <<>>
<1>9. d \in Seq(Byte) /\ Len(d) <= BufSize /\ n = e + m1 + Len(d) /\ d = SubSeq(s, n - Len(d) + 1, n)
  BY <1>3, <1>5, <1>6, <1>7
<1> HIDE DEF d
<1>10. Heard(s, h, d)
  BY <1>4, <1>8, <1>9, HeardIs
<1> QED
  BY <1>10 DEF d

\* A byte that is no delimiter goes into the buffer.
LEMMA HeardByte ==
  ASSUME NEW s \in Seq(Byte), NEW h, NEW b, NEW x \in Byte,
         Heard(s, h, b), Len(b) < BufSize, x # NewLine
  PROVE  Heard(Append(s, x), h, Append(b, x))
<1> DEFINE sx == Append(s, x)
           bx == Append(b, x)
           c == Count(s)
           n == Len(s)
           l == Len(b)
           e == End(s, c)
<1>1. /\ b \in Seq(Byte) /\ l \in Nat /\ l <= n /\ n \in Nat
      /\ c \in Nat /\ e \in 0 .. n /\ b = SubSeq(s, n - l + 1, n)
  BY HeardTypes
<1>2. PICK q \in Nat : n = e + (q * BufSize) + l
  BY HeardTypes
<1>3. h = LinesOf(s) /\ \A k \in 0 .. c : End(s, k) \in 0 .. n
  BY DEF Heard
<1>4. /\ sx \in Seq(Byte) /\ Len(sx) = n + 1 /\ sx[n + 1] = x
      /\ \A i \in 1 .. n : sx[i] = s[i]
  BY AppendProperties
<1>5. /\ bx \in Seq(Byte) /\ Len(bx) = l + 1 /\ bx[l + 1] = x
      /\ \A i \in 1 .. l : bx[i] = b[i]
  BY <1>1, AppendProperties
<1>6. Count(sx) = c
  BY EndsAppend
<1>7. \A k \in 0 .. c : End(sx, k) = End(s, k)
  BY EndAppend
<1>8. LinesOf(sx) = h
  <2>1. /\ \A k \in 1 .. c : LinesOf(sx)[k] = LinesOf(s)[k]
        /\ DOMAIN LinesOf(sx) = 1 .. c /\ DOMAIN LinesOf(s) = 1 .. c
    <3> HIDE DEF sx, c
    <3>1. /\ \A k \in 1 .. c : LinesOf(sx)[k] = LinesOf(s)[k]
          /\ DOMAIN LinesOf(sx) = 1 .. Count(sx) /\ DOMAIN LinesOf(s) = 1 .. c
      BY <1>3, LinesAppend DEF sx, c
    <3> QED
      BY <1>6, <3>1
  <2>2. LinesOf(sx) = [k \in 1 .. c |-> LinesOf(sx)[k]] /\ LinesOf(s) = [k \in 1 .. c |-> LinesOf(s)[k]]
    <3>1. LinesOf(sx) = [k \in DOMAIN LinesOf(sx) |-> LinesOf(sx)[k]]
      BY DEF LinesOf
    <3>2. LinesOf(s) = [k \in DOMAIN LinesOf(s) |-> LinesOf(s)[k]]
      BY DEF LinesOf
    <3> HIDE DEF sx, c
    <3> QED
      BY <2>1, <3>1, <3>2
  <2> HIDE DEF sx, c
  <2>3. [k \in 1 .. c |-> LinesOf(sx)[k]] = [k \in 1 .. c |-> LinesOf(s)[k]]
    BY <2>1
  <2> QED
    BY <1>3, <2>2, <2>3
<1>9. \A k \in 0 .. Count(sx) : End(sx, k) \in 0 .. Len(sx)
  <2>1. \A j \in 0 .. n : j \in 0 .. n + 1
    BY <1>1
  <2> HIDE DEF sx, c, n
  <2> QED
    BY <1>3, <1>4, <1>6, <1>7, <2>1
<1> DEFINE m == q * BufSize
<1>10. Len(sx) = End(sx, Count(sx)) + m + Len(bx)
  <2>1. c \in 0 .. c /\ m \in Nat
    BY <1>1, SizeType
  <2>2. End(sx, Count(sx)) = e
    <3> HIDE DEF sx, n
    <3> QED
      BY <1>6, <1>7, <2>1
  <2>3. n = e + m + l
    BY <1>2
  <2> HIDE DEF sx, bx, n, l, e, m
  <2> QED
    BY <1>1, <1>4, <1>5, <2>1, <2>2, <2>3
<1>11. bx = SubSeq(sx, Len(sx) - Len(bx) + 1, Len(sx))
  <2> HIDE DEF sx, bx, n, l
  <2> DEFINE i == n - l
             j == n + 1
  <2>1. Len(sx) - Len(bx) + 1 = i + 1 /\ i \in Nat /\ j \in Nat /\ i <= j /\ j - i = l + 1 /\ i <= n
        /\ Len(sx) = j
    BY <1>1, <1>4, <1>5
  <2>2. \A k \in i + 1 .. j : k \in 1 .. Len(sx)
    BY <1>4, <2>1
  <2>3. \A k \in i + 1 .. j : sx[k] \in Byte
    BY <1>4, <2>2
  <2>4. n - l + 1 = i + 1 /\ \A k \in 1 .. l : i + k \in 1 .. n
    BY <1>1
  <2>5. i + (l + 1) = n + 1
    BY <1>1
  <2> HIDE DEF i, j
  <2>6. /\ SubSeq(sx, i + 1, j) \in Seq(Byte) /\ Len(SubSeq(sx, i + 1, j)) = j - i
        /\ \A k \in 1 .. j - i : SubSeq(sx, i + 1, j)[k] = sx[i + k]
    BY <2>1, <2>3, SubSeqIs
  <2>7. \A k \in 1 .. l : b[k] = s[i + k]
    <3>1. b = SubSeq(s, i + 1, n)
      BY <1>1, <2>4
    <3>2. n - i = l
      BY <1>1 DEF i
    <3>3. \A k \in i + 1 .. n : s[k] \in Byte
      <4>1. \A k \in i + 1 .. n : k \in 1 .. Len(s)
        BY <1>1, <2>1 DEF n
      <4> QED
        BY <4>1
    <3>4. \A k \in 1 .. n - i : SubSeq(s, i + 1, n)[k] = s[i + k]
      BY <1>1, <2>1, <3>3, SubSeqIs
    <3> QED
      BY <3>1, <3>2, <3>4
  <2>8. ASSUME NEW k \in 1 .. l + 1 PROVE bx[k] = SubSeq(sx, i + 1, j)[k]
    <3>1. CASE k = l + 1
      BY <1>4, <1>5, <2>1, <2>5, <2>6, <3>1
    <3>2. CASE k # l + 1
      <4>1. k \in 1 .. l
        BY <1>1, <3>2
      <4> QED
        BY <1>4, <1>5, <2>1, <2>4, <2>6, <2>7, <4>1
    <3> QED
      BY <3>1, <3>2
  <2>9. bx = SubSeq(sx, i + 1, j)
    <3> DEFINE t == SubSeq(sx, i + 1, j)
    <3>1. t \in Seq(Byte) /\ Len(t) = l + 1 /\ Len(bx) = l + 1 /\ bx \in Seq(Byte)
      BY <1>5, <2>1, <2>6
    <3>2. \A k \in 1 .. l + 1 : bx[k] = t[k]
      BY <2>8
    <3> HIDE DEF t
    <3>3. bx = t
      BY <3>1, <3>2, SeqEqual
    <3> QED
      BY <3>3 DEF t
  <2> QED
    BY <2>1, <2>9
<1>12. Len(bx) <= BufSize
  <2> HIDE DEF bx, l
  <2> QED
    BY <1>1, <1>5, SizeType DEF l
<1>13. h = LinesOf(sx)
  BY <1>8
<1> HIDE DEF sx, bx
<1>14. Heard(sx, h, bx)
  BY <1>4, <1>5, <1>9, <1>10, <1>11, <1>12, <1>13, HeardIs
<1> QED
  BY <1>14 DEF sx, bx

\* A delimiter ends the line: what is buffered is its tail.
LEMMA HeardDelimiter ==
  ASSUME NEW s \in Seq(Byte), NEW h, NEW b,
         Heard(s, h, b), Len(b) < BufSize
  PROVE  Heard(Append(s, NewLine), Append(h, Append(b, NewLine)), <<>>)
<1> DEFINE sx == Append(s, NewLine)
           bx == Append(b, NewLine)
           hx == Append(h, bx)
           c == Count(s)
           n == Len(s)
           l == Len(b)
           e == End(s, c)
<1>0. NewLine \in Byte
  BY DEF NewLine, Byte
<1>1. /\ b \in Seq(Byte) /\ l \in Nat /\ l <= n /\ n \in Nat
      /\ c \in Nat /\ e \in 0 .. n /\ b = SubSeq(s, n - l + 1, n)
  BY HeardTypes
<1>2. PICK q \in Nat : n = e + (q * BufSize) + l
  BY HeardTypes
<1>3. h = LinesOf(s) /\ \A k \in 0 .. c : End(s, k) \in 0 .. n
  BY DEF Heard
<1>4. sx \in Seq(Byte) /\ Len(sx) = n + 1
  BY <1>0, AppendProperties
<1>5. Count(sx) = c + 1 /\ End(sx, c + 1) = n + 1
  BY <1>0, EndsAppend, EndNew
<1>6. \A k \in 0 .. c : End(sx, k) = End(s, k)
  BY <1>0, EndAppend
<1>7. LinesOf(sx)[c + 1] = bx
  <2>1. c + 1 \in 1 .. Count(sx) /\ (c + 1) - 1 = c /\ c \in 0 .. c
    BY <1>1, <1>5
  <2>2. LinesOf(sx)[c + 1] = FittingTail(SubSeq(sx, End(sx, (c + 1) - 1) + 1, End(sx, c + 1)))
    BY <2>1 DEF LinesOf
  <2>3. End(sx, (c + 1) - 1) = e
    <3> HIDE DEF sx
    <3> QED
      BY <1>6, <2>1
  <2>4. FittingTail(SubSeq(sx, e + 1, n + 1)) = Append(SubSeq(s, n - l + 1, n), NewLine)
    <3>1. e \in Nat /\ l \in Nat /\ l < BufSize /\ Len(s) = e + (q * BufSize) + l
      BY <1>1, <1>2
    <3> HIDE DEF e, l
    <3> QED
      BY <1>0, <3>1, TailIs, ZenonT(30)
  <2> HIDE DEF sx, e, n, l, c
  <2> QED
    BY <1>1, <1>5, <2>2, <2>3, <2>4
<1>8. /\ \A k \in 1 .. c : LinesOf(sx)[k] = h[k]
      /\ DOMAIN LinesOf(sx) = 1 .. c + 1 /\ DOMAIN h = 1 .. c
  <2> HIDE DEF sx, c
  <2>1. /\ \A k \in 1 .. c : LinesOf(sx)[k] = LinesOf(s)[k]
        /\ DOMAIN LinesOf(sx) = 1 .. Count(sx) /\ DOMAIN LinesOf(s) = 1 .. c
    BY <1>0, <1>3, LinesAppend DEF sx, c
  <2> QED
    BY <1>3, <1>5, <2>1
<1>9. LinesOf(sx) = hx
  <2> DEFINE V == {h[k] : k \in 1 .. c}
             W == V \union {bx}
  <2>1. h = [k \in 1 .. c |-> h[k]]
    <3>1. LinesOf(s) = [k \in DOMAIN LinesOf(s) |-> LinesOf(s)[k]]
      BY DEF LinesOf
    <3> HIDE DEF c
    <3> QED
      BY <1>3, <1>8, <3>1
  <2>2. LinesOf(sx) = [k \in 1 .. c + 1 |-> LinesOf(sx)[k]]
    <3>1. LinesOf(sx) = [k \in DOMAIN LinesOf(sx) |-> LinesOf(sx)[k]]
      BY DEF LinesOf
    <3> HIDE DEF sx, c
    <3> QED
      BY <1>8, <3>1
  <2>3. h \in Seq(W) /\ Len(h) = c
    <3>1. \A k \in 1 .. c : h[k] \in W
      OBVIOUS
    <3> HIDE DEF W, c
    <3> QED
      BY <1>1, <2>1, <3>1, FromFunction
  <2>4. bx \in W
    OBVIOUS
  <2>5. \A k \in 1 .. c + 1 : LinesOf(sx)[k] \in W
    <3>1. \A k \in 1 .. c + 1 : k \in 1 .. c \/ k = c + 1
      BY <1>1
    <3>2. \A k \in 1 .. c : h[k] \in W
      OBVIOUS
    <3> HIDE DEF W, sx, bx, c
    <3> QED
      BY <1>7, <1>8, <2>4, <3>1, <3>2
  <2>6. LinesOf(sx) \in Seq(W) /\ Len(LinesOf(sx)) = c + 1
    <3> DEFINE L == LinesOf(sx)
    <3>1. c + 1 \in Nat
      BY <1>1
    <3> HIDE DEF W, L, c
    <3> QED
      BY <2>2, <2>5, <3>1, FromFunction DEF L
  <2> HIDE DEF W, V, sx, bx, c
  <2>7. /\ hx \in Seq(W) /\ Len(hx) = c + 1 /\ hx[c + 1] = bx
        /\ \A k \in 1 .. c : hx[k] = h[k]
    BY <2>3, <2>4, AppendProperties
  <2>8. \A k \in 1 .. c + 1 : LinesOf(sx)[k] = hx[k]
    <3>1. \A k \in 1 .. c + 1 : k \in 1 .. c \/ k = c + 1
      BY <1>1
    <3> HIDE DEF hx
    <3> QED
      BY <1>7, <1>8, <2>7, <3>1
  <2> HIDE DEF hx
  <2> QED
    BY <2>6, <2>7, <2>8, SeqEqual
<1>10. \A k \in 0 .. Count(sx) : End(sx, k) \in 0 .. Len(sx)
  <2>1. \A j \in 0 .. n : j \in 0 .. n + 1
    BY <1>1
  <2>2. \A k \in 0 .. c + 1 : k = c + 1 \/ k \in 0 .. c
    BY <1>1
  <2>3. n + 1 \in 0 .. n + 1
    BY <1>1
  <2> HIDE DEF sx, c, n
  <2> QED
    BY <1>3, <1>4, <1>5, <1>6, <2>1, <2>2, <2>3
<1> DEFINE d == <<>>
<1>11. d \in Seq(Byte) /\ Len(d) = 0
  OBVIOUS
<1>12. Len(sx) = End(sx, Count(sx)) + (0 * BufSize) + Len(d)
  <2>1. 0 * BufSize = 0
    BY SizeType
  <2> HIDE DEF sx, d
  <2> QED
    BY <1>1, <1>4, <1>5, <1>11, <2>1
<1>13. d = SubSeq(sx, Len(sx) - Len(d) + 1, Len(sx))
  <2>1. Len(sx) - 0 + 1 \in Int /\ Len(sx) \in Int /\ Len(sx) < Len(sx) - 0 + 1
    BY <1>1, <1>4
  <2>2. SubSeq(sx, Len(sx) - 0 + 1, Len(sx)) = <<>>
    BY <2>1, SubSeqEmpty
  <2> QED
    BY <1>11, <2>2
<1>14. Len(d) <= BufSize
  BY <1>11, SizeType
<1> HIDE DEF d, sx, hx
<1>15. \E r \in Nat : /\ Len(sx) = End(sx, Count(sx)) + (r * BufSize) + Len(d)
                      /\ d = SubSeq(sx, Len(sx) - Len(d) + 1, Len(sx))
  <2>1. 0 \in Nat
    OBVIOUS
  <2> QED
    BY <1>12, <1>13, <2>1, Zenon
<1>16. hx = LinesOf(sx)
  BY <1>9
<1>17. Heard(sx, hx, d)
  BY <1>10, <1>11, <1>14, <1>15, <1>16, Zenon DEF Heard
<1> QED
  BY <1>17 DEF sx, hx, d

\* The loop passes over a head without delimiters.
LEMMA ScanKept ==
  ASSUME NEW kept \in Seq(Byte), NEW t \in Seq(Byte), Clean(kept),
         NEW f, IsScan(f, kept \o t)
  PROVE  f[Len(kept)] = [lines |-> <<>>, left |-> kept]
<1> DEFINE K == Len(kept)
           b == kept \o t
           first(i) == SubSeq(kept, 1, i)
           T == {i \in 0 .. K : f[i] = [lines |-> <<>>, left |-> first(i)]}
<1>1. K \in Nat /\ Len(t) \in Nat
  OBVIOUS
<1>2. /\ b \in Seq(Byte) /\ Len(b) = K + Len(t)
      /\ \A i \in 1 .. K : b[i] = kept[i]
  <2>1. \A i \in 1 .. K : i \in 1 .. K + Len(t) /\ i <= K
    BY <1>1
  <2> QED
    BY <2>1, ConcatProperties
<1>3. /\ f[0] = NothingScanned
      /\ \A i \in 0 .. Len(b) : i < Len(b) => f[i + 1] = Scanned(f[i], b[i + 1])
  BY DEF IsScan
<1> HIDE DEF b
<1>4. ASSUME NEW i \in 0 .. K
      PROVE  first(i) \in Seq(Byte) /\ Len(first(i)) = i /\ \A j \in 1 .. i : first(i)[j] = kept[j]
  <2>1. \A j \in 0 + 1 .. i : kept[j] \in Byte
    BY <1>1
  <2>2. /\ SubSeq(kept, 0 + 1, i) \in Seq(Byte) /\ Len(SubSeq(kept, 0 + 1, i)) = i - 0
        /\ \A j \in 1 .. i - 0 : SubSeq(kept, 0 + 1, i)[j] = kept[0 + j]
    BY <1>1, <2>1, SubSeqIs
  <2> QED
    BY <2>2
<1>5. 0 \in T
  <2>1. 0 \in 0 .. K /\ first(0) = <<>>
    BY <1>1, SubSeqEmpty
  <2> QED
    BY <1>3, <2>1 DEF NothingScanned
<1>6. ASSUME NEW i \in 0 .. K, i < K, i \in T PROVE i + 1 \in T
  <2>1. /\ i + 1 \in 0 .. K /\ i + 1 \in 1 .. K /\ i \in 0 .. Len(b) /\ i < Len(b)
    BY <1>1, <1>2, <1>6
  <2> DEFINE x == kept[i + 1]
  <2>2. x \in Byte /\ x # NewLine /\ b[i + 1] = x
    BY <1>2, <2>1 DEF Clean
  <2>3. f[i] = [lines |-> <<>>, left |-> first(i)]
    BY <1>6
  <2>4. f[i + 1] = Scanned(f[i], x)
    BY <1>3, <2>1, <2>2
  <2>5. first(i + 1) = Append(first(i), x)
    <3>1. /\ first(i + 1) \in Seq(Byte) /\ Len(first(i + 1)) = i + 1
          /\ \A j \in 1 .. i + 1 : first(i + 1)[j] = kept[j]
      BY <1>4, <2>1
    <3>2. first(i) \in Seq(Byte) /\ Len(first(i)) = i /\ \A j \in 1 .. i : first(i)[j] = kept[j]
      BY <1>4
    <3>3. \A j \in 1 .. i + 1 : j = i + 1 \/ j \in 1 .. i
      BY <1>6
    <3> HIDE DEF first
    <3>4. /\ Append(first(i), x) \in Seq(Byte) /\ Len(Append(first(i), x)) = i + 1
          /\ Append(first(i), x)[i + 1] = x
          /\ \A j \in 1 .. i : Append(first(i), x)[j] = first(i)[j]
      BY <2>2, <3>2, AppendProperties
    <3>5. \A j \in 1 .. i + 1 : first(i + 1)[j] = Append(first(i), x)[j]
      BY <3>1, <3>2, <3>3, <3>4
    <3> QED
      BY <3>1, <3>4, <3>5, SeqEqual
  <2> HIDE DEF first, x
  <2>6. f[i + 1] = [lines |-> <<>>, left |-> Append(first(i), x)]
    <3> DEFINE v == f[i]
               w == f[i + 1]
    <3>1. v \in Scanning
      BY <1>2, <2>1, ScanStays DEF b
    <3>2. v.lines = <<>> /\ v.left = first(i)
      BY <2>3
    <3>3. w = Scanned(v, x)
      BY <2>4
    <3> HIDE DEF v, w
    <3>4. w.lines = <<>> /\ w.left = Append(first(i), x)
      BY <2>2, <3>1, <3>2, <3>3, ScannedIs
    <3>5. w \in Scanning
      BY <2>2, <3>1, <3>3, ScannedTyped
    <3>6. w = [lines |-> w.lines, left |-> w.left]
      BY <3>5 DEF Scanning
    <3> QED
      BY <3>4, <3>6 DEF w
  <2> QED
    BY <2>1, <2>5, <2>6
<1>7. \A i \in 0 .. K : i \in T
  <2> HIDE DEF T, K
  <2> QED
    BY <1>1, <1>5, <1>6, UpTo
<1>8. first(K) = kept /\ K \in 0 .. K
  BY <1>1, SubSeqFull
<1> HIDE DEF first
<1> QED
  BY <1>7, <1>8

LEMMA ConcatAppend ==
  ASSUME NEW S, NEW s \in Seq(S), NEW t \in Seq(S), NEW x \in S
  PROVE  s \o Append(t, x) = Append(s \o t, x)
OBVIOUS

\* The loop reports the lines of the stream and leaves what was heard of the next.
LEMMA ScanHeard ==
  ASSUME NEW s \in Seq(Byte), NEW h \in Seq(Seq(Byte)), NEW kept,
         Heard(s, h, kept), Clean(kept), NEW t \in Seq(Byte), Len(kept) + Len(t) <= BufSize
  PROVE  Heard(s \o t, h \o Scan(kept \o t).lines, Scan(kept \o t).left)
<1> DEFINE K == Len(kept)
           N == Len(t)
           b == kept \o t
           first(i) == SubSeq(t, 1, i)
<1>1. K \in Nat /\ N \in Nat /\ kept \in Seq(Byte)
  BY DEF Heard
<1>2. /\ b \in Seq(Byte) /\ Len(b) = K + N
      /\ \A i \in 1 .. N : b[K + i] = t[i]
  <2>1. \A i \in 1 .. N : K + i \in 1 .. K + N /\ ~(K + i <= K) /\ (K + i) - K = i
    BY <1>1
  <2> QED
    BY <1>1, <2>1, ConcatProperties
<1>3. PICK f : IsScan(f, b) /\ Scan(b) = f[K + N]
  BY <1>2, ScanIs
<1>4. f[K] = [lines |-> <<>>, left |-> kept]
  BY <1>1, <1>3, ScanKept
<1> HIDE DEF b
<1>5. \A i \in 0 .. N : f[K + i] \in Scanning /\ Len(f[K + i].left) <= K + i
  <2>1. \A i \in 0 .. N : K + i \in 0 .. Len(b)
    BY <1>1, <1>2
  <2> QED
    BY <1>2, <1>3, <2>1, ScanStays
<1>6. ASSUME NEW i \in 0 .. N
      PROVE  first(i) \in Seq(Byte) /\ Len(first(i)) = i /\ \A j \in 1 .. i : first(i)[j] = t[j]
  <2>1. \A j \in 0 + 1 .. i : t[j] \in Byte
    BY <1>1
  <2>2. /\ SubSeq(t, 0 + 1, i) \in Seq(Byte) /\ Len(SubSeq(t, 0 + 1, i)) = i - 0
        /\ \A j \in 1 .. i - 0 : SubSeq(t, 0 + 1, i)[j] = t[0 + j]
    BY <1>1, <2>1, SubSeqIs
  <2> QED
    BY <2>2
<1> DEFINE T == {i \in 0 .. N : Heard(s \o first(i), h \o f[K + i].lines, f[K + i].left)}
<1>7. 0 \in T
  <2>1. 0 \in 0 .. N /\ first(0) = <<>> /\ K + 0 = K
    BY <1>1, SubSeqEmpty
  <2>2. s \o <<>> = s
    BY ConcatEmptySeq
  <2>3. h \o <<>> = h
    BY ConcatEmptySeq
  <2> HIDE DEF first, K
  <2>4. f[K + 0].lines = <<>> /\ f[K + 0].left = kept
    BY <1>4, <2>1
  <2>5. Heard(s \o first(0), h \o f[K + 0].lines, f[K + 0].left)
    BY <2>1, <2>2, <2>3, <2>4
  <2> QED
    BY <2>1, <2>5
<1>8. ASSUME NEW i \in 0 .. N, i < N, i \in T PROVE i + 1 \in T
  <2> DEFINE x == t[i + 1]
             v == f[K + i]
             w == f[K + (i + 1)]
             si == s \o first(i)
             hi == h \o v.lines
  <2>1. i + 1 \in 0 .. N /\ i + 1 \in 1 .. N /\ K + (i + 1) = (K + i) + 1
        /\ K + i \in 0 .. Len(b) /\ K + i < Len(b) /\ i \in Nat
    BY <1>1, <1>2, <1>8
  <2>2. x \in Byte /\ b[K + (i + 1)] = x
    BY <1>2, <2>1
  <2>3. w = Scanned(v, x)
    <3>1. f[(K + i) + 1] = Scanned(f[K + i], b[(K + i) + 1])
      BY <1>3, <2>1 DEF IsScan
    <3> QED
      BY <2>1, <2>2, <3>1
  <2>4. v \in Scanning /\ Len(v.left) <= K + i
    BY <1>5
  <2>5. Heard(si, hi, v.left)
    BY <1>8
  <2>6. first(i + 1) = Append(first(i), x)
    <3>1. /\ first(i + 1) \in Seq(Byte) /\ Len(first(i + 1)) = i + 1
          /\ \A j \in 1 .. i + 1 : first(i + 1)[j] = t[j]
      BY <1>6, <2>1
    <3>2. first(i) \in Seq(Byte) /\ Len(first(i)) = i /\ \A j \in 1 .. i : first(i)[j] = t[j]
      BY <1>6
    <3>3. \A j \in 1 .. i + 1 : j = i + 1 \/ j \in 1 .. i
      BY <2>1
    <3> HIDE DEF first
    <3>4. /\ Append(first(i), x) \in Seq(Byte) /\ Len(Append(first(i), x)) = i + 1
          /\ Append(first(i), x)[i + 1] = x
          /\ \A j \in 1 .. i : Append(first(i), x)[j] = first(i)[j]
      BY <2>2, <3>2, AppendProperties
    <3>5. \A j \in 1 .. i + 1 : first(i + 1)[j] = Append(first(i), x)[j]
      BY <3>1, <3>2, <3>3, <3>4
    <3> QED
      BY <3>1, <3>4, <3>5, SeqEqual
  <2>7. first(i) \in Seq(Byte)
    BY <1>6
  <2> HIDE DEF first, x
  <2>8. s \o first(i + 1) = Append(si, x)
    <3> DEFINE fi == first(i)
    <3>1. fi \in Seq(Byte)
      BY <2>7
    <3> HIDE DEF fi
    <3>2. s \o Append(fi, x) = Append(s \o fi, x)
      BY <2>2, <3>1, ConcatAppend
    <3> QED
      BY <2>6, <3>2 DEF fi
  <2>9. si \in Seq(Byte)
    BY <2>7, ConcatProperties, Zenon
  <2>10. Len(v.left) < BufSize
    <3>1. v.left \in Seq(Byte)
      BY <2>4 DEF Scanning
    <3>2. Len(v.left) \in Nat
      BY <3>1
    <3> HIDE DEF v, K, N
    <3>3. K + i < K + N /\ K + N <= BufSize
      BY <1>1, <1>8 DEF K, N
    <3> QED
      BY <1>1, <2>1, <2>4, <3>2, <3>3, SizeType
  <2> HIDE DEF v, w, si
  <2>11. CASE x = NewLine
    <3>1. /\ v.lines \in Seq(Seq(Byte)) /\ v.left \in Seq(Byte)
          /\ w.lines = Append(v.lines, Append(v.left, x)) /\ w.left = <<>>
      BY <2>2, <2>3, <2>4, <2>11, ScannedIs
    <3>2. h \o w.lines = Append(hi, Append(v.left, x))
      <4> DEFINE Q == Seq(Byte)
                 line == Append(v.left, x)
      <4>1. line \in Q
        BY <2>2, <3>1, AppendProperties
      <4>2. h \in Seq(Q) /\ v.lines \in Seq(Q)
        BY <3>1
      <4> HIDE DEF Q, line
      <4>3. h \o Append(v.lines, line) = Append(h \o v.lines, line)
        BY SMTT(30), <4>1, <4>2, ConcatAppend
      <4> QED
        BY <3>1, <4>3 DEF line
    <3> HIDE DEF hi
    <3>3. Heard(Append(si, x), Append(hi, Append(v.left, x)), <<>>)
      BY <2>5, <2>9, <2>10, <2>11, HeardDelimiter
    <3>4. Heard(s \o first(i + 1), h \o w.lines, w.left)
      BY <2>8, <3>1, <3>2, <3>3
    <3> QED
      BY <2>1, <3>4 DEF w
  <2>12. CASE x # NewLine
    <3>1. w.lines = v.lines /\ w.left = Append(v.left, x)
      BY <2>2, <2>3, <2>4, <2>12, ScannedIs
    <3>2. h \o w.lines = hi
      BY <3>1
    <3> HIDE DEF hi
    <3>3. Heard(Append(si, x), hi, Append(v.left, x))
      BY <2>2, <2>5, <2>9, <2>10, <2>12, HeardByte
    <3>4. Heard(s \o first(i + 1), h \o w.lines, w.left)
      BY <2>8, <3>1, <3>2, <3>3
    <3> QED
      BY <2>1, <3>4 DEF w
  <2> QED
    BY <2>11, <2>12
<1>9. \A i \in 0 .. N : i \in T
  <2> HIDE DEF T, N
  <2> QED
    BY <1>1, <1>7, <1>8, UpTo
<1>10. first(N) = t /\ N \in 0 .. N
  BY <1>1, SubSeqFull
<1> HIDE DEF first
<1>11. Heard(s \o first(N), h \o f[K + N].lines, f[K + N].left)
  BY <1>9, <1>10
<1> QED
  BY <1>3, <1>10, <1>11 DEF b

---------------------------------------------------------------------------
(* The reader and the lines *)

\* Of what was read the lines are reported and the rest is buffered; connections
\* that end at the end of a line leave nothing in the buffer.
Following ==
    env.mode = "NEW_LINE_DELIMITER" =>
        /\ size = None
        /\ env.reader = "handler" \/ env.ends = "line" => Heard(rx, heard, buffer)
        /\ env.ends = "line" =>
               /\ link = "down" => buffer = <<>>
               /\ link = "hungup" => IF wire = <<>> THEN buffer = <<>>
                                     ELSE wire[Len(wire)] = NewLine

LEMMA FollowingSame ==
  ASSUME Following, env' = env, link' = link, UNCHANGED reading,
         wire' = wire \/ link # "hungup"
  PROVE  Following'
BY DEF Following, reading

LEMMA FollowingInit == Init => Following
BY HeardNothing DEF Init, Following

LEMMA FollowingConnect ==
  ASSUME Following, Connect
  PROVE  Following'
<1>1. /\ env' = env /\ link' = "up" /\ rx' = <<>> /\ heard' = <<>> /\ size' = None
      /\ buffer' = IF env.reader = "handler" THEN <<>> ELSE buffer
      /\ link = "down"
  BY DEF Connect
<1>2. ASSUME env.mode = "NEW_LINE_DELIMITER", env.reader = "handler" \/ env.ends = "line"
      PROVE  buffer' = <<>>
  BY <1>1, <1>2 DEF Following
<1>3. ASSUME env.mode = "NEW_LINE_DELIMITER", env.reader = "handler" \/ env.ends = "line"
      PROVE  Heard(rx, heard, buffer)'
  <2>1. Heard(rx', heard', buffer')
    BY <1>1, <1>2, <1>3, HeardNothing
  <2> QED
    BY <2>1
<1> QED
  BY <1>1, <1>3 DEF Following

\* Of a clean buffer, only an empty one can end with a delimiter.
LEMMA NothingUnread ==
  ASSUME Types, Unread # <<>> => Last(Unread) = NewLine
  PROVE  IF wire = <<>> THEN buffer = <<>> ELSE wire[Len(wire)] = NewLine
<1>1. /\ buffer \in Seq(Byte) /\ wire \in Seq(Byte) /\ Clean(buffer)
      /\ Len(buffer) \in Nat /\ Len(wire) \in Nat
  BY DEF Types, Reading, Buffered
<1>2. CASE wire = <<>>
  <2>1. Unread = buffer
    BY <1>1, <1>2, ConcatEmptySeq DEF Unread
  <2>2. SUFFICES ASSUME buffer # <<>> PROVE FALSE
    BY <1>2
  <2>3. Len(buffer) \in 1 .. Len(buffer)
    BY <1>1, <2>2
  <2>4. buffer[Len(buffer)] # NewLine
    BY <1>1, <2>3 DEF Clean
  <2> QED
    BY <2>1, <2>2, <2>4 DEF Last
<1>3. CASE wire # <<>>
  <2> DEFINE a == Len(buffer)
             c == Len(wire)
  <2>1. c > 0 /\ c \in Nat /\ a \in Nat
    BY <1>1, <1>3
  <2>2. /\ Unread \in Seq(Byte) /\ Len(Unread) = a + c
        /\ \A i \in 1 .. a + c : Unread[i] = IF i <= a THEN buffer[i] ELSE wire[i - a]
    BY <1>1, ConcatProperties DEF Unread
  <2>3. Unread # <<>>
    BY <2>1, <2>2
  <2>4. Last(Unread) = wire[c]
    <3> HIDE DEF a, c
    <3>1. a + c \in 1 .. a + c /\ ~(a + c <= a) /\ (a + c) - a = c
      BY <2>1
    <3> QED
      BY <2>2, <3>1 DEF Last
  <2> QED
    BY <1>3, <2>3, <2>4
<1> QED
  BY <1>2, <1>3

LEMMA FollowingHangUp ==
  ASSUME Types, Following, HangUp
  PROVE  Following'
<1>1. /\ link' = "hungup" /\ UNCHANGED <<env, links, wire, writing, reading>>
      /\ env.ends = "line" /\ Unread # <<>> => Last(Unread) = NewLine
  BY DEF HangUp, AtLineEnd
<1>2. env.ends = "line" => IF wire = <<>> THEN buffer = <<>> ELSE wire[Len(wire)] = NewLine
  BY <1>1, NothingUnread
<1> QED
  BY <1>1, <1>2 DEF Following, reading

LEMMA FollowingDisconnect ==
  ASSUME Following, Disconnect
  PROVE  Following'
BY DEF Following, Disconnect, reading

\* The buffer that recv() goes on with holds what was heard.
LEMMA KeptHeard ==
  ASSUME Types, Heard(rx, heard, buffer)
  PROVE  Heard(rx, heard, Kept)
<1>1. rx \in Seq(Byte)
  BY DEF Types, Reading
<1>2. CASE Len(buffer) = BufSize
  BY <1>1, <1>2, HeardRestart DEF Kept
<1>3. CASE Len(buffer) # BufSize
  BY <1>3 DEF Kept
<1> QED
  BY <1>2, <1>3

LEMMA FollowingRecvLines ==
  ASSUME Types, Following, RecvLines
  PROVE  Following'
<1>0. UNCHANGED <<env, link, links, writing, size>> /\ env.mode = "NEW_LINE_DELIMITER"
  BY DEF RecvLines
<1>1. PICK n \in Nat :
           /\ n > 0 /\ n <= Len(wire) /\ Len(Kept) + n <= BufSize
           /\ Take(n)
           /\ Kept \o Taken(n) \in Seq(Byte)
           /\ Len(Kept \o Taken(n)) = Len(Kept) + n
           /\ heard' = heard \o Scan(Kept \o Taken(n)).lines
           /\ buffer' = Scan(Kept \o Taken(n)).left
  BY RecvLinesIs
<1> DEFINE t == Taken(n)
           b == Kept \o t
           w == wire'
<1>2. /\ link # "down" /\ t \in Seq(Byte) /\ Len(t) = n
      /\ w \in Seq(Byte) /\ wire = t \o w /\ Len(w) = Len(wire) - n
      /\ rx' = rx \o t
  BY <1>1, TakeIs
<1>3. rx \in Seq(Byte) /\ heard \in Seq(Seq(Byte)) /\ wire \in Seq(Byte) /\ Len(wire) \in Nat
  BY DEF Types, Reading
<1>4. Kept \in Seq(Byte) /\ Clean(Kept) /\ Len(Kept) \in Nat
  BY KeptIs DEF Types, Reading
<1>5. ASSUME env.reader = "handler" \/ env.ends = "line" PROVE Heard(rx, heard, buffer)'
  <2>1. Heard(rx, heard, Kept)
    BY <1>0, <1>5, KeptHeard DEF Following
  <2>2. Len(Kept) + Len(t) <= BufSize
    BY <1>1, <1>2
  <2> HIDE DEF t
  <2>3. Heard(rx \o t, heard \o Scan(Kept \o t).lines, Scan(Kept \o t).left)
    BY <1>2, <1>3, <1>4, <2>1, <2>2, ScanHeard
  <2>4. Heard(rx', heard', buffer')
    BY <1>1, <1>2, <2>3 DEF t
  <2> QED
    BY <2>4
<1>6. ASSUME env.ends = "line", link = "hungup"
      PROVE  IF w = <<>> THEN buffer' = <<>> ELSE w[Len(w)] = NewLine
  <2>1. wire # <<>>
    BY <1>1, <1>3
  <2>2. wire[Len(wire)] = NewLine
    BY <1>0, <1>6, <2>1 DEF Following
  <2>3. CASE w = <<>>
    <3>1. wire = t /\ n = Len(wire)
      <4> HIDE DEF t, w
      <4>1. t \o <<>> = t
        BY <1>2, ConcatEmptySeq
      <4> QED
        BY <1>2, <2>3, <4>1
    <3>2. b \in Seq(Byte) /\ Len(b) = Len(Kept) + n
      BY <1>1
    <3>3. b[Len(b)] = NewLine
      <4> DEFINE a == Len(Kept)
      <4>1. a \in Nat /\ n \in 1 .. n /\ a + n \in 1 .. a + n /\ ~(a + n <= a) /\ (a + n) - a = n
        BY <1>1, <1>4
      <4>2. \A i \in 1 .. a + n : b[i] = IF i <= a THEN Kept[i] ELSE t[i - a]
        BY <1>2, <1>4, ConcatProperties
      <4> HIDE DEF a, b
      <4>3. b[a + n] = t[n]
        BY <4>1, <4>2
      <4> QED
        BY <2>2, <3>1, <3>2, <4>3 DEF a
    <3>4. b # <<>>
      <4>1. Len(b) # 0
        <5> HIDE DEF b
        <5> QED
          BY <1>1, <1>4, <3>2
      <4> QED
        BY <4>1
    <3> HIDE DEF b
    <3>5. Scan(b).left = <<>>
      BY <3>2, <3>3, <3>4, ScanClean
    <3> QED
      BY <1>1, <2>3, <3>5 DEF b
  <2>4. CASE w # <<>>
    <3> DEFINE m == Len(w)
    <3>1. m \in Nat /\ m > 0 /\ Len(wire) = n + m
      BY <1>1, <1>2, <1>3, <2>4
    <3>2. \A i \in 1 .. n + m : wire[i] = IF i <= n THEN t[i] ELSE w[i - n]
      <4> HIDE DEF t, w, m
      <4> QED
        BY <1>2, ConcatProperties DEF m
    <3> HIDE DEF m
    <3>3. n + m \in 1 .. n + m /\ ~(n + m <= n) /\ (n + m) - n = m
      BY <3>1
    <3>4. wire[n + m] = w[m]
      BY <3>2, <3>3
    <3> QED
      BY <2>2, <2>4, <3>1, <3>4 DEF m
  <2> QED
    BY <2>3, <2>4
<1>7. size' = None
  BY <1>0 DEF Following
<1> HIDE DEF t, b
<1> QED
  BY <1>0, <1>2, <1>5, <1>6, <1>7 DEF Following

LEMMA FollowingRecvEnd ==
  ASSUME Following, RecvEnd
  PROVE  Following'
BY DEF Following, RecvEnd

LEMMA FollowingStep == Types /\ Following /\ [Next]_vars => Following'
<1> SUFFICES ASSUME Types, Following, [Next]_vars PROVE Following'
  OBVIOUS
<1>1. CASE Connect
  BY <1>1, FollowingConnect
<1>2. CASE HangUp
  BY <1>2, FollowingHangUp
<1>3. CASE Disconnect
  BY <1>3, FollowingDisconnect
<1>4. CASE Write
  BY <1>4, FollowingSame DEF Write
<1>5. CASE Send
  <2>1. link # "hungup"
    <3>1. bytes_to_write # 0
      BY <1>5 DEF Send, Types, Writing
    <3> QED
      BY <3>1 DEF Types, Writing
  <2>2. UNCHANGED <<env, link, links, reading>>
    BY <1>5 DEF Send
  <2> QED
    BY <2>1, <2>2, FollowingSame
<1>6. CASE SendFails
  BY <1>6, FollowingSame DEF SendFails
<1>7. CASE RecvLines
  BY <1>7, FollowingRecvLines
<1>8. CASE RecvHeader
  BY <1>8 DEF RecvHeader, Following
<1>9. CASE RecvPayload
  <2>1. size # None /\ env' = env
    BY <1>9 DEF RecvPayload
  <2> QED
    BY <2>1 DEF Following
<1>10. CASE RecvTimesOut
  <2>1. size # None /\ env' = env
    BY <1>10 DEF RecvTimesOut
  <2> QED
    BY <2>1 DEF Following
<1>11. CASE RecvEnd
  BY <1>11, FollowingRecvEnd
<1>12. CASE UNCHANGED vars
  BY <1>12, FollowingSame DEF vars
<1> QED
  BY <1>1, <1>2, <1>3, <1>4, <1>5, <1>6, <1>7, <1>8, <1>9, <1>10, <1>11, <1>12 DEF Next

LEMMA FollowingHears == Following => LinesHeard
BY DEF Following, LinesHeard, Heard

\* Whatever is written and however TCP cuts it: the lines reported are those of
\* the stream of bytes, each once and in order, and one that does not fit loses
\* exactly the buffers it filled.
THEOREM LinesAreHeard == Spec => []LinesHeard
<1>1. Init => Following
  BY FollowingInit
<1>2. Types /\ Types' /\ Following /\ [Next]_vars => Following'
  BY FollowingStep
<1>3. Following => LinesHeard
  BY FollowingHears
<1> QED
  BY <1>1, <1>2, <1>3, TypesInvariant, PTL DEF Spec
=============================================================================
