--------------------------- MODULE SequenceLemmas ---------------------------
(***************************************************************************)
(* What a function that is defined by recursion over an interval computes: *)
(* it exists, and what holds at its start and is kept by its steps holds   *)
(* all along.  Sets take the place of predicates.                          *)
(***************************************************************************)
EXTENDS SequencesExt, FiniteSetTheorems, WellFoundedInduction, TLAPS

LEMMA NatSetInduction ==
  ASSUME NEW S, 0 \in S, \A n \in Nat : n \in S => n + 1 \in S
  PROVE  Nat \subseteq S
<1> SUFFICES ASSUME NEW k \in Nat \ S PROVE FALSE
  OBVIOUS
<1> DEFINE R == {p \in Nat \X Nat : p[1] < p[2]}
<1>1. IsWellFoundedOn(R, Nat)
  BY NatLessThanWellFounded DEF OpToRel
<1> HIDE DEF R
<1>2. PICK n \in Nat \ S : \A m \in Nat \ S : <<m, n>> \notin R
  BY <1>1, WFMin
<1>3. n - 1 \in Nat /\ n - 1 < n
  OBVIOUS
<1>4. n - 1 \in S
  BY <1>2, <1>3 DEF R
<1> QED
  BY <1>3, <1>4

(* What holds of 0 and of every number after one it holds of, up to n.      *)
LEMMA UpToInduction ==
  ASSUME NEW n \in Nat, NEW S, 0 \in S, \A i \in 1..n : i - 1 \in S => i \in S
  PROVE  0..n \subseteq S
<1> DEFINE T == {i \in Nat : i <= n => i \in S}
<1>1. 0 \in T
  OBVIOUS
<1>2. ASSUME NEW i \in Nat, i \in T PROVE i + 1 \in T
  <2>1. CASE i + 1 <= n
    <3>1. i + 1 \in 1..n /\ (i + 1) - 1 = i /\ i <= n
      BY <2>1
    <3> QED
      BY <1>2, <3>1
  <2>2. CASE ~(i + 1 <= n)
    BY <2>2
  <2> QED
    BY <2>1, <2>2
<1> HIDE DEF T
<1>3. Nat \subseteq T
  BY <1>1, <1>2, NatSetInduction
<1> QED
  BY <1>3 DEF T

(* The functions over 0..n that go from a base by steps which stay in D.    *)
Recursions(n, D, base, step) ==
  { f \in [0..n -> D] : f[0] = base /\ \A i \in 1..n : f[i] = step[<<i, f[i - 1]>>] }

LEMMA RecursionExists ==
  ASSUME NEW n \in Nat, NEW D, NEW base \in D, NEW step \in [(1..n) \X D -> D]
  PROVE  Recursions(n, D, base, step) # {}
<1> DEFINE Upto(m, g) == g[0] = base /\ \A i \in 1..m : g[i] = step[<<i, g[i - 1]>>]
           S == {m \in 0..n : \E g \in [0..m -> D] : Upto(m, g)}
<1>1. 0 \in S
  <2> DEFINE h == [i \in 0..0 |-> base]
  <2>1. h \in [0..0 -> D] /\ Upto(0, h)
    OBVIOUS
  <2> HIDE DEF h, Upto
  <2> QED
    BY <2>1
<1>2. ASSUME NEW m \in 1..n, m - 1 \in S PROVE m \in S
  <2>1. PICK g \in [0..(m - 1) -> D] : Upto(m - 1, g)
    BY <1>2
  <2> DEFINE h == [i \in 0..m |-> IF i = m THEN step[<<m, g[m - 1]>>] ELSE g[i]]
  <2>2. g[m - 1] \in D
    OBVIOUS
  <2>3. <<m, g[m - 1]>> \in (1..n) \X D
    BY <2>2
  <2>4. step[<<m, g[m - 1]>>] \in D
    BY <2>3
  <2>5. h \in [0..m -> D]
    BY <2>4
  <2>6. h[0] = base
    BY <2>1
  <2>7. ASSUME NEW i \in 1..m PROVE h[i] = step[<<i, h[i - 1]>>]
    <3>1. i - 1 \in 0..m /\ i - 1 # m /\ i \in 0..m
      OBVIOUS
    <3>2. h[i - 1] = g[i - 1]
      BY <3>1
    <3>3. CASE i = m
      <4>1. h[m] = step[<<m, g[m - 1]>>]
        OBVIOUS
      <4> QED
        BY <3>2, <3>3, <4>1
    <3>4. CASE i # m
      <4>1. i \in 1..(m - 1)
        BY <3>4
      <4>2. h[i] = g[i]
        BY <3>1, <3>4
      <4> QED
        BY <2>1, <3>2, <4>1, <4>2
    <3> QED
      BY <3>3, <3>4
  <2> HIDE DEF h
  <2>8. Upto(m, h)
    BY <2>6, <2>7
  <2> QED
    BY <2>5, <2>8
<1> HIDE DEF S
<1>3. 0..n \subseteq S
  BY <1>1, <1>2, UpToInduction
<1> QED
  BY <1>3 DEF S, Recursions

-----------------------------------------------------------------------------
LEMMA LargerElements ==
  ASSUME NEW S, NEW T, S \subseteq T, NEW s \in Seq(S)
  PROVE  s \in Seq(T)
  OBVIOUS

LEMMA FunctionIsSeq ==
  ASSUME NEW n \in Nat, NEW S, NEW f \in [1..n -> S]
  PROVE  f \in Seq(S) /\ Len(f) = n /\ DOMAIN f = 1..n
  OBVIOUS

LEMMA AppendFacts ==
  ASSUME NEW S, NEW s \in Seq(S), NEW e \in S
  PROVE  /\ Append(s, e) \in Seq(S) /\ Len(Append(s, e)) = Len(s) + 1
         /\ \A i \in 1..Len(s) : Append(s, e)[i] = s[i]
         /\ Append(s, e)[Len(s) + 1] = e
  OBVIOUS

(* A sequence without repetitions stays one when it gets a new element.     *)
LEMMA AppendNew ==
  ASSUME NEW S, NEW s \in Seq(S), IsInjective(s), NEW e \in S, ~Contains(s, e)
  PROVE  Append(s, e) \in Seq(S) /\ IsInjective(Append(s, e))
<1> DEFINE n == Len(s)
           t == Append(s, e)
<1>1. n \in Nat /\ DOMAIN s = 1..n /\ t \in Seq(S) /\ DOMAIN t = 1..(n + 1)
  OBVIOUS
<1>2. (\A k \in 1..n : t[k] = s[k] /\ s[k] # e) /\ t[n + 1] = e
  BY DEF Contains
<1>3. \A k, l \in 1..n : s[k] = s[l] => k = l
  BY <1>1 DEF IsInjective
<1> HIDE DEF n, t
<1>4. ASSUME NEW i \in DOMAIN t, NEW j \in DOMAIN t, t[i] = t[j] PROVE i = j
  BY <1>1, <1>2, <1>3, <1>4
<1> QED
  BY <1>1, <1>4 DEF IsInjective, t

LEMMA ToSetOfAppend ==
  ASSUME NEW S, NEW s \in Seq(S), NEW e \in S
  PROVE  ToSet(Append(s, e)) = ToSet(s) \cup {e}
<1>1. /\ DOMAIN Append(s, e) = 1..(Len(s) + 1) /\ DOMAIN s = 1..Len(s) /\ Len(s) \in Nat
      /\ \A i \in 1..Len(s) : Append(s, e)[i] = s[i]
      /\ Append(s, e)[Len(s) + 1] = e
  OBVIOUS
<1> HIDE DEF Append
<1>2. 1..(Len(s) + 1) = (1..Len(s)) \cup {Len(s) + 1}
  BY <1>1
<1> QED
  BY <1>1, <1>2 DEF ToSet

LEMMA PrefixGrows ==
  ASSUME NEW S, NEW s \in Seq(S), NEW i \in 1..Len(s)
  PROVE  /\ Append(SubSeq(s, 1, i - 1), s[i]) = SubSeq(s, 1, i)
         /\ SubSeq(s, 1, i - 1) \in Seq(S) /\ Len(SubSeq(s, 1, i - 1)) = i - 1
         /\ \A j \in 1..(i - 1) : SubSeq(s, 1, i - 1)[j] = s[j]
  OBVIOUS

LEMMA WholePrefix ==
  ASSUME NEW S, NEW s \in Seq(S)
  PROVE  SubSeq(s, 1, Len(s)) = s /\ SubSeq(s, 1, 0) = <<>>
  OBVIOUS

LEMMA ToSetOfConcat ==
  ASSUME NEW S, NEW s \in Seq(S), NEW t \in Seq(S)
  PROVE  s \o t \in Seq(S) /\ ToSet(s \o t) = ToSet(s) \cup ToSet(t)
<1>1. /\ s \o t \in Seq(S) /\ DOMAIN (s \o t) = 1..(Len(s) + Len(t))
      /\ DOMAIN s = 1..Len(s) /\ Len(s) \in Nat /\ DOMAIN t = 1..Len(t) /\ Len(t) \in Nat
      /\ \A i \in 1..Len(s) : (s \o t)[i] = s[i]
      /\ \A i \in (Len(s) + 1)..(Len(s) + Len(t)) : (s \o t)[i] = t[i - Len(s)]
  OBVIOUS
<1> DEFINE c == s \o t
<1> HIDE DEF c
<1>2. ASSUME NEW i \in DOMAIN c PROVE c[i] \in ToSet(s) \cup ToSet(t)
  <2>1. CASE i \in 1..Len(s)
    BY <1>1, <2>1 DEF ToSet, c
  <2>2. CASE i \in (Len(s) + 1)..(Len(s) + Len(t))
    <3>1. i - Len(s) \in 1..Len(t)
      BY <1>1, <2>2
    <3> QED
      BY <1>1, <2>2, <3>1 DEF ToSet, c
  <2> QED
    BY <1>1, <2>1, <2>2 DEF c
<1>3. ASSUME NEW i \in 1..Len(s) PROVE s[i] \in ToSet(c)
  <2>1. i \in DOMAIN c /\ c[i] = s[i]
    BY <1>1 DEF c
  <2> QED
    BY <2>1 DEF ToSet
<1>4. ASSUME NEW i \in 1..Len(t) PROVE t[i] \in ToSet(c)
  <2>1. i + Len(s) \in (Len(s) + 1)..(Len(s) + Len(t)) /\ (i + Len(s)) - Len(s) = i
    BY <1>1
  <2>2. i + Len(s) \in DOMAIN c /\ c[i + Len(s)] = t[i]
    BY <1>1, <2>1 DEF c
  <2> QED
    BY <2>2 DEF ToSet
<1>5. ToSet(c) = ToSet(s) \cup ToSet(t)
  BY <1>1, <1>2, <1>3, <1>4 DEF ToSet
<1> QED
  BY <1>1, <1>5 DEF c

LEMMA ConcatIs ==
  ASSUME NEW S, NEW x \in Seq(S), NEW y \in Seq(S), NEW z \in Seq(S), Len(x) = Len(y) + Len(z),
         \A i \in 1..(Len(y) + Len(z)) : x[i] = IF i <= Len(y) THEN y[i] ELSE z[i - Len(y)]
  PROVE  x = y \o z
  OBVIOUS

LEMMA TupleFacts ==
  ASSUME NEW S, NEW a \in S, NEW b \in S
  PROVE  /\ <<a>> \in Seq(S) /\ <<a, b>> \in Seq(S) /\ <<a, b, b>> \in Seq(S)
         /\ <<a, b>> = <<a>> \o <<b>> /\ Append(<<>>, a) = <<a>>
<1> DEFINE x == <<a, b>>
           y == <<a>>
           z == <<b>>
<1>1. x \in Seq(S) /\ y \in Seq(S) /\ z \in Seq(S) /\ Len(x) = 2 /\ Len(y) = 1 /\ Len(z) = 1
  OBVIOUS
<1>2. x[1] = y[1] /\ x[2] = z[1]
  OBVIOUS
<1>3. x = y \o z
  <2> HIDE DEF x, y, z
  <2>1. Len(x) = Len(y) + Len(z)
    BY <1>1
  <2>2. \A i \in 1..(Len(y) + Len(z)) : x[i] = IF i <= Len(y) THEN y[i] ELSE z[i - Len(y)]
    BY <1>1, <1>2
  <2> QED
    BY <1>1, <2>1, <2>2, ConcatIs
<1>4. <<a, b, b>> \in Seq(S)
  OBVIOUS
<1>5. Append(<<>>, a) = <<a>>
  OBVIOUS
<1> QED
  BY <1>1, <1>3, <1>4, <1>5

(* Flattening goes from the left: every sequence is put behind the ones     *)
(* before it.                                                               *)
LEMMA FlattenSteps ==
  ASSUME NEW S, NEW seqs \in Seq(Seq(S))
  PROVE  \E flat \in [0..Len(seqs) -> Seq(S)] :
           /\ flat[0] = <<>>
           /\ \A i \in 1..Len(seqs) : flat[i] = flat[i - 1] \o seqs[i]
           /\ FlattenSeq(seqs) = flat[Len(seqs)]
<1> DEFINE n == Len(seqs)
           D == Seq(S)
           step == [x \in (1..n) \X D |-> x[2] \o seqs[x[1]]]
           Is(f) == f = [i \in 1..n |-> IF i = 1 THEN seqs[i] ELSE f[i - 1] \o seqs[i]]
           flatten == CHOOSE f : Is(f)
           flat == [i \in 0..n |-> IF i = 0 THEN <<>> ELSE flatten[i]]
<1>1. n \in Nat /\ <<>> \in D /\ \A i \in 1..n : seqs[i] \in D
  OBVIOUS
<1>2. \A s \in D, t \in D : s \o t \in D
  OBVIOUS
<1>3. \A s \in D : <<>> \o s = s
  OBVIOUS
<1>4. step \in [(1..n) \X D -> D]
  <2> HIDE DEF D, n
  <2> QED
    BY <1>1, <1>2
<1>5. Recursions(n, D, <<>>, step) # {}
  <2> HIDE DEF step, n, D
  <2> QED
    BY <1>1, <1>4, RecursionExists
<1>6. PICK f : Is(f)
  <2>1. PICK g \in [0..n -> D] : g[0] = <<>> /\ \A i \in 1..n : g[i] = step[<<i, g[i - 1]>>]
    <3> HIDE DEF step, D
    <3> QED
      BY <1>5 DEF Recursions
  <2>2. ASSUME NEW i \in 1..n PROVE g[i] = g[i - 1] \o seqs[i]
    <3> HIDE DEF D, n
    <3>1. i - 1 \in 0..n
      BY <1>1
    <3>2. <<i, g[i - 1]>> \in (1..n) \X D
      BY <3>1
    <3> QED
      BY <2>1, <3>2
  <2> DEFINE h == [i \in 1..n |-> g[i]]
  <2>3. ASSUME NEW i \in 1..n PROVE h[i] = IF i = 1 THEN seqs[i] ELSE h[i - 1] \o seqs[i]
    <3> HIDE DEF D, n
    <3>1. CASE i = 1
      <4>1. h[i] = g[i] /\ g[i] = g[i - 1] \o seqs[i]
        BY <2>2
      <4>2. h[i] = <<>> \o seqs[i]
        <5>1. i - 1 = 0
          BY <3>1
        <5>2. g[i - 1] = <<>>
          BY <2>1, <5>1
        <5> HIDE DEF h
        <5> QED
          BY <4>1, <5>2
      <4> QED
        BY <1>1, <1>3, <3>1, <4>2
    <3>2. CASE i # 1
      <4>1. i - 1 \in 1..n
        BY <1>1, <3>2
      <4> QED
        BY <2>2, <3>2, <4>1
    <3> QED
      BY <3>1, <3>2
  <2>4. Is(h)
    <3> HIDE DEF D, n
    <3> QED
      BY <2>3
  <2> QED
    BY <2>4
<1>7. Is(flatten)
  <2> HIDE DEF Is
  <2> QED
    BY <1>6
<1> HIDE DEF flatten
<1>8. \A i \in 1..n : flatten[i] = IF i = 1 THEN seqs[i] ELSE flatten[i - 1] \o seqs[i]
  <2> HIDE DEF n
  <2> QED
    BY <1>7
<1>9. flat[0] = <<>>
  BY <1>1
<1>10. \A i \in 0..n : flat[i] \in D
  <2> DEFINE T == {i \in 0..n : flat[i] \in D}
  <2>1. 0 \in T
    BY <1>1
  <2>2. ASSUME NEW i \in 1..n, i - 1 \in T PROVE i \in T
    <3> HIDE DEF D, n
    <3>1. flat[i] = flatten[i] /\ i \in 0..n
      BY <1>1
    <3>2. CASE i = 1
      BY <1>1, <1>8, <3>1, <3>2
    <3>3. CASE i # 1
      <4>1. flat[i - 1] = flatten[i - 1] /\ flat[i - 1] \in D
        BY <1>1, <2>2, <3>3
      <4> QED
        BY <1>1, <1>2, <1>8, <3>1, <3>3, <4>1
    <3> QED
      BY <3>2, <3>3
  <2>3. 0..n \subseteq T
    <3> HIDE DEF T, n
    <3> QED
      BY <1>1, <2>1, <2>2, UpToInduction
  <2> QED
    BY <2>3
<1>11. ASSUME NEW i \in 1..n PROVE flat[i] = flat[i - 1] \o seqs[i]
  <2> HIDE DEF D, n
  <2>1. flat[i] = flatten[i]
    BY <1>1
  <2>2. CASE i = 1
    <3>1. i - 1 = 0 /\ flat[i] = seqs[i]
      BY <1>8, <2>1, <2>2
    <3>2. flat[i - 1] \o seqs[i] = <<>> \o seqs[i]
      BY <1>9, <3>1
    <3> QED
      BY <1>1, <1>3, <3>1, <3>2
  <2>3. CASE i # 1
    <3>1. flat[i - 1] = flatten[i - 1]
      BY <1>1, <2>3
    <3> QED
      BY <1>8, <2>1, <2>3, <3>1
  <2> QED
    BY <2>2, <2>3
<1>12. FlattenSeq(seqs) = flat[n]
  <2>1. CASE n = 0
    BY <2>1 DEF FlattenSeq
  <2>2. CASE n # 0
    <3>1. FlattenSeq(seqs) = flatten[n]
      BY <2>2 DEF FlattenSeq, flatten
    <3> QED
      BY <1>1, <2>2, <3>1
  <2> QED
    BY <2>1, <2>2
<1> HIDE DEF flat
<1>13. flat \in [0..n -> D]
  <2>1. flat = [i \in 0..n |-> flat[i]]
    BY DEF flat
  <2> HIDE DEF D, n
  <2> QED
    BY <1>10, <2>1
<1> QED
  BY <1>9, <1>11, <1>12, <1>13

LEMMA ToSetOfFlatten ==
  ASSUME NEW S, NEW seqs \in Seq(Seq(S))
  PROVE  FlattenSeq(seqs) \in Seq(S) /\ ToSet(FlattenSeq(seqs)) = UNION {ToSet(seqs[i]) : i \in DOMAIN seqs}
<1> DEFINE n == Len(seqs)
           All(i) == UNION {ToSet(seqs[j]) : j \in 1..i}
<1>1. PICK flat \in [0..n -> Seq(S)] :
        /\ flat[0] = <<>>
        /\ \A i \in 1..n : flat[i] = flat[i - 1] \o seqs[i]
        /\ FlattenSeq(seqs) = flat[n]
  BY FlattenSteps
<1>2. n \in Nat /\ DOMAIN seqs = 1..n /\ \A i \in 1..n : seqs[i] \in Seq(S)
  OBVIOUS
<1> HIDE DEF n
<1> DEFINE T == {i \in 0..n : ToSet(flat[i]) = All(i)}
<1>3. 0 \in T
  <2>1. ToSet(<<>>) = {} /\ All(0) = {}
    BY DEF ToSet
  <2> QED
    BY <1>1, <1>2, <2>1
<1>4. ASSUME NEW i \in 1..n, i - 1 \in T PROVE i \in T
  <2>1. ToSet(flat[i]) = ToSet(flat[i - 1]) \cup ToSet(seqs[i])
    <3>1. flat[i - 1] \in Seq(S) /\ seqs[i] \in Seq(S)
      BY <1>2
    <3>2. ToSet(flat[i - 1] \o seqs[i]) = ToSet(flat[i - 1]) \cup ToSet(seqs[i])
      BY <3>1, ToSetOfConcat
    <3> QED
      BY <1>1, <3>2
  <2>2. All(i) = All(i - 1) \cup ToSet(seqs[i])
    <3>1. \A j : j \in 1..i <=> j \in 1..(i - 1) \/ j = i
      OBVIOUS
    <3> QED
      BY <3>1
  <2>3. ToSet(flat[i - 1]) = All(i - 1)
    BY <1>4
  <2>4. ToSet(flat[i]) = All(i)
    <3> HIDE DEF All
    <3> QED
      BY <2>1, <2>2, <2>3
  <2> QED
    BY <1>2, <2>4
<1> HIDE DEF T
<1>5. 0..n \subseteq T
  BY <1>2, <1>3, <1>4, UpToInduction
<1>6. n \in T
  BY <1>2, <1>5
<1> QED
  BY <1>1, <1>2, <1>6 DEF T

(* Flattening a sequence with one more at its end.                          *)
LEMMA FlattenAppend ==
  ASSUME NEW S, NEW seqs \in Seq(Seq(S)), NEW e \in Seq(S)
  PROVE  FlattenSeq(Append(seqs, e)) = FlattenSeq(seqs) \o e
<1> DEFINE n == Len(seqs)
           more == Append(seqs, e)
<1>1. more \in Seq(Seq(S)) /\ Len(more) = n + 1 /\ n \in Nat /\ more[n + 1] = e
      /\ \A i \in 1..n : more[i] = seqs[i] /\ seqs[i] \in Seq(S)
  OBVIOUS
<1>2. PICK f \in [0..n -> Seq(S)] : /\ f[0] = <<>>
                                    /\ \A i \in 1..n : f[i] = f[i - 1] \o seqs[i]
                                    /\ FlattenSeq(seqs) = f[n]
  BY FlattenSteps
<1> HIDE DEF more
<1>3. PICK g \in [0..Len(more) -> Seq(S)] : /\ g[0] = <<>>
                                            /\ \A i \in 1..Len(more) : g[i] = g[i - 1] \o more[i]
                                            /\ FlattenSeq(more) = g[Len(more)]
  BY <1>1, FlattenSteps
<1> HIDE DEF n
<1> DEFINE T == {i \in 0..n : f[i] = g[i]}
<1>4. 0 \in T
  BY <1>1, <1>2, <1>3
<1>5. ASSUME NEW i \in 1..n, i - 1 \in T PROVE i \in T
  <2>1. i \in 1..Len(more) /\ more[i] = seqs[i]
    BY <1>1
  <2>2. f[i] = f[i - 1] \o seqs[i] /\ g[i] = g[i - 1] \o more[i] /\ f[i - 1] = g[i - 1]
    BY <1>2, <1>3, <1>5, <2>1
  <2>3. f[i] = g[i]
    <3> HIDE DEF T
    <3> QED
      BY <2>1, <2>2
  <2> QED
    BY <1>1, <2>3
<1> HIDE DEF T
<1>6. n \in T
  <2>1. n \in Nat
    BY <1>1
  <2>2. 0..n \subseteq T
    BY <1>4, <1>5, <2>1, UpToInduction
  <2> QED
    BY <2>1, <2>2
<1>7. g[n + 1] = g[n] \o e
  <2>1. n + 1 \in 1..Len(more) /\ (n + 1) - 1 = n
    BY <1>1
  <2> QED
    BY <1>1, <1>3, <2>1
<1>8. f[n] = g[n]
  BY <1>6 DEF T
<1> QED
  BY <1>1, <1>2, <1>3, <1>7, <1>8 DEF more, n

LEMMA FlattenType ==
  ASSUME NEW S, NEW seqs \in Seq(Seq(S))
  PROVE  FlattenSeq(seqs) \in Seq(S)
BY ToSetOfFlatten

LEMMA FlattenEmpty == FlattenSeq(<<>>) = <<>>
BY DEF FlattenSeq

(* What is true of no elements, and of one more whenever it is true of some,
   is true of every sequence. *)
LEMMA SeqSetInduction ==
  ASSUME NEW S, NEW P, <<>> \in P, \A s \in Seq(S), e \in S : s \in P => Append(s, e) \in P
  PROVE  Seq(S) \subseteq P
<1> SUFFICES ASSUME NEW t \in Seq(S) PROVE t \in P
  OBVIOUS
<1> DEFINE T == {i \in 0..Len(t) : SubSeq(t, 1, i) \in P}
<1>1. 0 \in T
  <2>1. SubSeq(t, 1, 0) = <<>> /\ 0 \in 0..Len(t)
    OBVIOUS
  <2>2. SubSeq(t, 1, 0) \in P
    BY <2>1
  <2> QED
    BY <2>1, <2>2
<1>2. ASSUME NEW i \in 1..Len(t), i - 1 \in T PROVE i \in T
  <2>1. /\ Append(SubSeq(t, 1, i - 1), t[i]) = SubSeq(t, 1, i)
        /\ SubSeq(t, 1, i - 1) \in Seq(S) /\ t[i] \in S
    BY PrefixGrows
  <2>2. i - 1 \in 0..Len(t) /\ i \in 0..Len(t) /\ SubSeq(t, 1, i - 1) \in P
    BY <1>2
  <2>3. Append(SubSeq(t, 1, i - 1), t[i]) \in P
    BY <2>1, <2>2
  <2> QED
    BY <2>1, <2>2, <2>3
<1>3. Len(t) \in Nat
  OBVIOUS
<1> HIDE DEF T
<1>4. Len(t) \in T
  <2>1. 0..Len(t) \subseteq T
    BY <1>1, <1>2, <1>3, UpToInduction
  <2> QED
    BY <1>3, <2>1
<1> QED
  BY <1>4, WholePrefix DEF T

LEMMA FlattenConcat ==
  ASSUME NEW S, NEW s \in Seq(Seq(S)), NEW t \in Seq(Seq(S))
  PROVE  FlattenSeq(s \o t) = FlattenSeq(s) \o FlattenSeq(t)
<1> DEFINE D == Seq(S)
           P == {u \in Seq(D) : FlattenSeq(s \o u) = FlattenSeq(s) \o FlattenSeq(u)}
<1>1. <<>> \in P
  <2>1. FlattenSeq(s) \in Seq(S)
    BY FlattenType
  <2>2. s \o <<>> = s
    OBVIOUS
  <2>3. FlattenSeq(s) \o <<>> = FlattenSeq(s)
    BY <2>1
  <2>4. FlattenSeq(s \o <<>>) = FlattenSeq(s) \o FlattenSeq(<<>>)
    BY <2>2, <2>3, FlattenEmpty
  <2>5. <<>> \in Seq(D)
    <3> HIDE DEF D
    <3> QED
      OBVIOUS
  <2> QED
    BY <2>4, <2>5
<1>2. ASSUME NEW u \in Seq(D), NEW e \in D, u \in P PROVE Append(u, e) \in P
  <2>1. s \o u \in Seq(D) /\ s \o Append(u, e) = Append(s \o u, e) /\ Append(u, e) \in Seq(D)
    <3> HIDE DEF D
    <3> QED
      BY DEF D
  <2>2. FlattenSeq(Append(s \o u, e)) = FlattenSeq(s \o u) \o e
    BY <2>1, FlattenAppend
  <2>3. FlattenSeq(Append(u, e)) = FlattenSeq(u) \o e
    BY FlattenAppend
  <2>4. FlattenSeq(s) \in Seq(S) /\ FlattenSeq(u) \in Seq(S)
    BY FlattenType
  <2>5. (FlattenSeq(s) \o FlattenSeq(u)) \o e = FlattenSeq(s) \o (FlattenSeq(u) \o e)
    BY <2>4
  <2> QED
    BY <1>2, <2>1, <2>2, <2>3, <2>5
<1> HIDE DEF D, P
<1>3. Seq(D) \subseteq P
  BY <1>1, <1>2, SeqSetInduction
<1> QED
  BY <1>3 DEF D, P

(* A map over the elements, with a sequence for each, goes through          *)
(* concatenation.                                                           *)
FlatMap(m, s) == FlattenSeq([i \in DOMAIN s |-> m[s[i]]])

LEMMA FlatMapFacts ==
  ASSUME NEW A, NEW B, NEW m \in [A -> Seq(B)]
  PROVE  /\ FlatMap(m, <<>>) = <<>>
         /\ \A a \in A : FlatMap(m, <<a>>) = m[a]
         /\ \A s \in Seq(A) : FlatMap(m, s) \in Seq(B)
         /\ \A s, t \in Seq(A) : FlatMap(m, s \o t) = FlatMap(m, s) \o FlatMap(m, t)
<1> DEFINE D == Seq(B)
           Mapped(s) == [i \in DOMAIN s |-> m[s[i]]]
<1>1. ASSUME NEW s \in Seq(A) PROVE Mapped(s) \in Seq(D) /\ Len(Mapped(s)) = Len(s)
  <2>1. DOMAIN s = 1..Len(s) /\ Len(s) \in Nat /\ \A i \in 1..Len(s) : s[i] \in A
    OBVIOUS
  <2>2. \A i \in 1..Len(s) : m[s[i]] \in D
    BY <2>1
  <2>3. Mapped(s) \in [1..Len(s) -> D]
    <3> HIDE DEF D
    <3> QED
      BY <2>1, <2>2
  <2> HIDE DEF D, Mapped
  <2> QED
    BY <2>1, <2>3, FunctionIsSeq
<1>2. FlatMap(m, <<>>) = <<>>
  <2>1. Mapped(<<>>) = <<>>
    OBVIOUS
  <2> QED
    BY <2>1, FlattenEmpty DEF FlatMap
<1>3. ASSUME NEW a \in A PROVE FlatMap(m, <<a>>) = m[a]
  <2>1. Mapped(<<a>>) = Append(<<>>, m[a])
    OBVIOUS
  <2>2. m[a] \in Seq(B) /\ <<>> \in Seq(Seq(B)) /\ <<>> \o m[a] = m[a]
    OBVIOUS
  <2>3. FlattenSeq(Append(<<>>, m[a])) = FlattenSeq(<<>>) \o m[a]
    BY <2>2, FlattenAppend
  <2> QED
    BY <2>1, <2>2, <2>3, FlattenEmpty DEF FlatMap
<1>4. ASSUME NEW s \in Seq(A) PROVE FlatMap(m, s) \in Seq(B)
  BY <1>1, FlattenType DEF FlatMap
<1>5. ASSUME NEW s \in Seq(A), NEW t \in Seq(A) PROVE FlatMap(m, s \o t) = FlatMap(m, s) \o FlatMap(m, t)
  <2>1. Mapped(s) \in Seq(D) /\ Mapped(t) \in Seq(D) /\ s \o t \in Seq(A) /\ Mapped(s \o t) \in Seq(D)
        /\ Len(Mapped(s)) = Len(s) /\ Len(Mapped(t)) = Len(t) /\ Len(Mapped(s \o t)) = Len(s \o t)
    BY <1>1
  <2>2. /\ DOMAIN s = 1..Len(s) /\ DOMAIN t = 1..Len(t) /\ DOMAIN (s \o t) = 1..(Len(s) + Len(t))
        /\ Len(s) \in Nat /\ Len(t) \in Nat /\ Len(s \o t) = Len(s) + Len(t)
        /\ \A i \in 1..Len(s) : (s \o t)[i] = s[i]
        /\ \A i \in (Len(s) + 1)..(Len(s) + Len(t)) : (s \o t)[i] = t[i - Len(s)]
    OBVIOUS
  <2>3. ASSUME NEW i \in 1..(Len(s) + Len(t))
        PROVE  Mapped(s \o t)[i] = IF i <= Len(s) THEN Mapped(s)[i] ELSE Mapped(t)[i - Len(s)]
    <3>1. Mapped(s \o t)[i] = m[(s \o t)[i]]
      BY <2>2
    <3>2. CASE i <= Len(s)
      <4>1. i \in 1..Len(s)
        BY <2>2, <3>2
      <4> QED
        BY <2>2, <3>1, <3>2, <4>1
    <3>3. CASE ~(i <= Len(s))
      <4>1. i \in (Len(s) + 1)..(Len(s) + Len(t)) /\ i - Len(s) \in 1..Len(t)
        BY <2>2, <3>3
      <4> QED
        BY <2>2, <3>1, <3>3, <4>1
    <3> QED
      BY <3>2, <3>3
  <2>4. Mapped(s \o t) = Mapped(s) \o Mapped(t)
    <3> DEFINE x == Mapped(s \o t)
               y == Mapped(s)
               z == Mapped(t)
    <3> HIDE DEF x, y, z, D
    <3>1. x \in Seq(D) /\ y \in Seq(D) /\ z \in Seq(D) /\ Len(x) = Len(y) + Len(z)
      BY <2>1, <2>2 DEF x, y, z
    <3>2. \A i \in 1..(Len(y) + Len(z)) : x[i] = IF i <= Len(y) THEN y[i] ELSE z[i - Len(y)]
      <4>1. Len(y) = Len(s) /\ Len(z) = Len(t)
        BY <2>1 DEF y, z
      <4>2. \A i \in 1..(Len(s) + Len(t)) : x[i] = IF i <= Len(s) THEN y[i] ELSE z[i - Len(s)]
        <5> HIDE DEF Mapped
        <5> QED
          BY <2>3 DEF x, y, z
      <4> QED
        BY <4>1, <4>2
    <3>3. x = y \o z
      BY <3>1, <3>2, ConcatIs
    <3> QED
      BY <3>3 DEF x, y, z
  <2> HIDE DEF D
  <2>5. FlattenSeq(Mapped(s) \o Mapped(t)) = FlattenSeq(Mapped(s)) \o FlattenSeq(Mapped(t))
    <3> HIDE DEF Mapped
    <3> QED
      BY <2>1, FlattenConcat DEF D
  <2> QED
    BY <2>4, <2>5 DEF FlatMap
<1> QED
  BY <1>2, <1>3, <1>4, <1>5

LEMMA FlatMapConcat ==
  ASSUME NEW A, NEW B, NEW m \in [A -> Seq(B)], NEW s \in Seq(A), NEW t \in Seq(A)
  PROVE  FlatMap(m, s \o t) = FlatMap(m, s) \o FlatMap(m, t)
BY FlatMapFacts

LEMMA FlatMapSplit ==
  ASSUME NEW A, NEW m \in [A -> Seq(A)], NEW s \in Seq(A), NEW t \in Seq(A)
  PROVE  FlatMap(m, s \o t) = FlatMap(m, s) \o FlatMap(m, t)
BY FlatMapConcat

-----------------------------------------------------------------------------
(* The least and the greatest number of a set.                              *)
LEMMA MinFact ==
  ASSUME NEW S, S \subseteq Nat, S # {}
  PROVE  Min(S) \in S /\ \A x \in S : Min(S) <= x
<1> DEFINE R == {p \in Nat \X Nat : p[1] < p[2]}
<1>1. IsWellFoundedOn(R, Nat)
  BY NatLessThanWellFounded DEF OpToRel
<1> HIDE DEF R
<1>2. PICK n \in S : \A m \in S : <<m, n>> \notin R
  BY <1>1, WFMin
<1>3. ASSUME NEW x \in S PROVE n <= x
  <2>1. n \in Nat /\ x \in Nat /\ <<x, n>> \notin R
    BY <1>2
  <2> QED
    BY <2>1 DEF R
<1> QED
  BY <1>3 DEF Min

LEMMA MaxFact ==
  ASSUME NEW n \in Nat, NEW S, S \subseteq 0..n, S # {}
  PROVE  Max(S) \in S /\ \A x \in S : x <= Max(S)
<1> DEFINE T == {n - x : x \in S}
<1>1. T \subseteq Nat /\ T # {}
  <2>1. ASSUME NEW x \in S PROVE n - x \in Nat
    <3>1. x \in 0..n
      OBVIOUS
    <3> QED
      BY <3>1
  <2> QED
    BY <2>1
<1>2. PICK m \in T : \A y \in T : m <= y
  <2> HIDE DEF T
  <2> QED
    BY <1>1, MinFact
<1>3. PICK x \in S : m = n - x
  BY <1>2
<1>4. x \in S /\ \A y \in S : y <= x
  <2>1. ASSUME NEW y \in S PROVE y <= x
    <3>1. n - x <= n - y
      BY <1>2, <1>3
    <3> QED
      BY <3>1
  <2> QED
    BY <2>1
<1> QED
  BY <1>4 DEF Max

(* A function of numbers has a largest value.                               *)
LEMMA LargestExists ==
  ASSUME NEW n \in Nat \ {0}, NEW f \in [1..n -> Nat]
  PROVE  \E i \in 1..n : \A j \in 1..n : f[j] <= f[i]
<1> DEFINE S == {m \in 0..n : m = 0 \/ \E i \in 1..m : \A j \in 1..m : f[j] <= f[i]}
<1>1. 0 \in S
  OBVIOUS
<1>2. ASSUME NEW m \in 1..n, m - 1 \in S PROVE m \in S
  <2>1. CASE m = 1
    BY <2>1
  <2>2. CASE m # 1
    <3>1. PICK i \in 1..(m - 1) : \A j \in 1..(m - 1) : f[j] <= f[i]
      BY <1>2, <2>2
    <3>2. \E k \in {i, m} : k \in 1..m /\ \A j \in 1..m : f[j] <= f[k]
      <4>1. CASE f[i] <= f[m]
        <5>1. ASSUME NEW j \in 1..m PROVE f[j] <= f[m]
          BY <3>1, <4>1
        <5> QED
          BY <5>1
      <4>2. CASE ~(f[i] <= f[m])
        <5>1. ASSUME NEW j \in 1..m PROVE f[j] <= f[i]
          BY <3>1, <4>2
        <5> QED
          BY <5>1
      <4> QED
        BY <4>1, <4>2
    <3> QED
      BY <3>2
  <2> QED
    BY <2>1, <2>2
<1> HIDE DEF S
<1>3. 0..n \subseteq S
  BY <1>1, <1>2, UpToInduction
<1>4. n \in S
  BY <1>3
<1> QED
  BY <1>4 DEF S

-----------------------------------------------------------------------------
(* Sequences that increase along an order, a set of pairs.                  *)

Increasing(s, R) == \A i, j \in DOMAIN s : i < j => <<s[i], s[j]>> \in R

(* There is one way to put the elements of a set in order.                  *)
LEMMA SortedUnique ==
  ASSUME NEW T, NEW s \in Seq(T), NEW t \in Seq(T), NEW R,
         \A a, b \in T : ~(<<a, b>> \in R /\ <<b, a>> \in R),
         Increasing(s, R), Increasing(t, R), ToSet(s) = ToSet(t)
  PROVE  s = t
<1> DEFINE n == Len(s)
           m == Len(t)
           S == {i \in 0..n : \A k \in 1..i : k <= m /\ s[k] = t[k]}
<1>1. /\ n \in Nat /\ DOMAIN s = 1..n /\ \A i \in 1..n : s[i] \in T
      /\ m \in Nat /\ DOMAIN t = 1..m /\ \A i \in 1..m : t[i] \in T
  OBVIOUS
<1> HIDE DEF n, m
<1>2. /\ \A i \in 1..n : \E j \in 1..m : s[i] = t[j]
      /\ \A j \in 1..m : \E i \in 1..n : s[i] = t[j]
  BY <1>1 DEF ToSet
<1>3. /\ \A i, j \in 1..n : i < j => <<s[i], s[j]>> \in R
      /\ \A i, j \in 1..m : i < j => <<t[i], t[j]>> \in R
  BY <1>1 DEF Increasing
<1>4. 0 \in S
  BY <1>1
<1>5. ASSUME NEW i \in 1..n, i - 1 \in S PROVE i \in S
  <2>1. \A k \in 1..(i - 1) : k <= m /\ s[k] = t[k]
    BY <1>5
  <2>2. PICK j \in 1..m : s[i] = t[j]
    BY <1>2
  <2>3. j >= i
    <3>1. SUFFICES ASSUME j < i PROVE FALSE
      BY <1>1
    <3>2. j \in 1..(i - 1) /\ j \in 1..n
      BY <1>1, <3>1
    <3>3. <<s[j], s[i]>> \in R /\ s[j] = s[i]
      BY <1>3, <2>1, <2>2, <3>1, <3>2
    <3> QED
      BY <1>1, <3>3
  <2>4. i \in 1..m
    BY <1>1, <2>3
  <2>5. PICK k \in 1..n : s[k] = t[i]
    BY <1>2, <2>4
  <2>6. s[i] = t[i]
    <3>1. SUFFICES ASSUME s[i] # t[i] PROVE FALSE
      OBVIOUS
    <3>2. j > i /\ k # i
      BY <1>1, <2>2, <2>3, <2>5, <3>1
    <3>3. <<t[i], s[i]>> \in R
      BY <1>3, <2>2, <2>4, <3>2
    <3>4. k > i
      <4>1. SUFFICES ASSUME k < i PROVE FALSE
        BY <1>1, <3>2
      <4>2. k \in 1..(i - 1)
        BY <1>1, <4>1
      <4>3. k \in 1..m /\ t[k] = t[i] /\ <<t[k], t[i]>> \in R
        BY <1>1, <1>3, <2>1, <2>4, <2>5, <4>1, <4>2
      <4> QED
        BY <1>1, <4>3
    <3>5. <<s[i], t[i]>> \in R
      BY <1>3, <2>5, <3>4
    <3> QED
      BY <1>1, <2>4, <3>3, <3>5
  <2>7. \A l \in 1..i : l = i \/ l \in 1..(i - 1)
    OBVIOUS
  <2> QED
    BY <1>1, <2>1, <2>4, <2>6, <2>7
<1> HIDE DEF S
<1>6. n \in S
  BY <1>1, <1>4, <1>5, UpToInduction
<1>7. \A k \in 1..n : k <= m /\ s[k] = t[k]
  BY <1>6 DEF S
<1>8. m = n
  <2>1. SUFFICES ASSUME m > n PROVE FALSE
    BY <1>1, <1>7
  <2>2. n + 1 \in 1..m
    BY <1>1, <2>1
  <2>3. PICK k \in 1..n : s[k] = t[n + 1]
    BY <1>2, <2>2
  <2>4. k \in 1..m /\ k < n + 1 /\ t[k] = t[n + 1]
    BY <1>1, <1>7, <2>1, <2>3
  <2>5. <<t[k], t[n + 1]>> \in R
    BY <1>3, <2>2, <2>4
  <2> QED
    BY <1>1, <2>2, <2>4, <2>5
<1> QED
  BY <1>1, <1>7, <1>8 DEF n, m

(* Any order on the numbers from 1 to n can be enumerated: each number goes *)
(* to the place that as many numbers come before as before the number.      *)
LEMMA SortingExists ==
  ASSUME NEW n \in Nat, NEW R,
         \A x \in 1..n : <<x, x>> \notin R,
         \A x, y, z \in 1..n : <<x, y>> \in R /\ <<y, z>> \in R => <<x, z>> \in R,
         \A x, y \in 1..n : x = y \/ <<x, y>> \in R \/ <<y, x>> \in R
  PROVE  \E p \in Bijection(1..n, 1..n) : Increasing(p, R)
<1> DEFINE N == 1..n
           Below(x) == {y \in N : <<y, x>> \in R}
           rank == [x \in N |-> Cardinality(Below(x)) + 1]
<1>1. IsFiniteSet(N) /\ Cardinality(N) = n
  BY FS_Interval
<1>2. ASSUME NEW x \in N
      PROVE  IsFiniteSet(Below(x)) /\ Cardinality(Below(x)) \in Nat /\ Cardinality(Below(x)) < n
  <2>1. Below(x) \in SUBSET N /\ x \notin Below(x)
    OBVIOUS
  <2> HIDE DEF Below, N
  <2>2. IsFiniteSet(Below(x)) /\ Cardinality(Below(x)) <= n /\ Cardinality(Below(x)) # n
    BY <1>1, <2>1, FS_Subset
  <2> QED
    BY <2>2, FS_CardinalityType
<1>3. rank \in [N -> N]
  <2>1. ASSUME NEW x \in N PROVE Cardinality(Below(x)) + 1 \in N
    <3> HIDE DEF Below
    <3> QED
      BY <1>2
  <2> QED
    BY <2>1
<1>4. ASSUME NEW x \in N, NEW y \in N, <<x, y>> \in R PROVE rank[x] < rank[y]
  <2>1. Below(x) \in SUBSET Below(y) /\ x \in Below(y) /\ x \notin Below(x)
    BY <1>4
  <2> HIDE DEF Below, N
  <2>2. Cardinality(Below(x)) <= Cardinality(Below(y)) /\ Cardinality(Below(x)) # Cardinality(Below(y))
    BY <1>2, <2>1, FS_Subset
  <2>3. Cardinality(Below(x)) < Cardinality(Below(y))
    BY <1>2, <2>2
  <2> QED
    BY <1>2, <2>3
<1> HIDE DEF rank
<1>5. rank \in Injection(N, N)
  <2>1. ASSUME NEW x \in N, NEW y \in N, rank[x] = rank[y] PROVE x = y
    <3>1. rank[x] \in Int /\ rank[y] \in Int
      BY <1>3
    <3>2. <<x, y>> \notin R /\ <<y, x>> \notin R
      BY <1>4, <2>1, <3>1
    <3> QED
      BY <3>2
  <2> QED
    BY <1>3, <2>1 DEF Injection, IsInjective
<1>6. rank \in Surjection(N, N)
  <2> HIDE DEF N
  <2> QED
    BY <1>1, <1>5, FS_Injection
<1> DEFINE p == [i \in N |-> CHOOSE x \in N : rank[x] = i]
<1>7. ASSUME NEW i \in N PROVE p[i] \in N /\ rank[p[i]] = i
  BY <1>6 DEF Surjection
<1>8. ASSUME NEW x \in N PROVE p[rank[x]] = x
  <2>1. rank[x] \in N
    BY <1>3
  <2>2. p[rank[x]] \in N /\ rank[p[rank[x]]] = rank[x]
    BY <1>7, <2>1
  <2> HIDE DEF p
  <2> QED
    BY <1>3, <1>5, <2>2 DEF Injection, IsInjective
<1>9. p \in [N -> N]
  BY <1>7
<1> HIDE DEF p
<1>10. p \in Bijection(N, N)
  <2>1. p \in Injection(N, N)
    BY <1>7, <1>9 DEF Injection, IsInjective
  <2>2. p \in Surjection(N, N)
    BY <1>3, <1>8, <1>9 DEF Surjection
  <2> QED
    BY <2>1, <2>2 DEF Bijection
<1>11. ASSUME NEW i \in N, NEW j \in N, i < j PROVE <<p[i], p[j]>> \in R
  <2>1. p[i] \in N /\ p[j] \in N /\ rank[p[i]] = i /\ rank[p[j]] = j
    BY <1>7
  <2>2. p[i] # p[j] /\ ~(rank[p[j]] < rank[p[i]])
    BY <1>11, <2>1
  <2> QED
    BY <1>4, <2>1, <2>2
<1>12. Increasing(p, R)
  BY <1>9, <1>11 DEF Increasing
<1> QED
  BY <1>10, <1>12
=============================================================================
