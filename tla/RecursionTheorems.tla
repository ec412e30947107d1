------------------------- MODULE RecursionTheorems -------------------------
(***************************************************************************)
(* What recursive functions compute: FlattenSeq, a fold over an interval,  *)
(* a walk up the naturals; and the extreme elements of a set of naturals.  *)
(*                                                                         *)
(* The proofs are by induction over the naturals.  The library's induction *)
(* theorem takes a predicate as a parameter, which none of the provers can *)
(* instantiate; NatSetInduction takes a set in its place, and follows from *)
(* the well-foundedness of the naturals.                                   *)
(***************************************************************************)
EXTENDS SequencesExt, TLAPS, WellFoundedInduction, SequenceTheorems

-----------------------------------------------------------------------------
\* Induction over the naturals.
LEMMA NatSetInduction ==
  ASSUME NEW S, 0 \in S, \A n \in Nat : n \in S => n + 1 \in S
  PROVE  Nat \subseteq S
<1> DEFINE T == Nat \ S
           R == OpToRel(<, Nat)
<1>1. SUFFICES ASSUME T # {} PROVE FALSE
  OBVIOUS
<1>2. IsWellFoundedOn(R, Nat)
  BY NatLessThanWellFounded
<1>3. \A m, n \in Nat : <<m, n>> \in R <=> m < n
  BY DEF OpToRel
<1> HIDE DEF R
<1>4. PICK n \in T : \A m \in T : ~ (<<m, n>> \in R)
  BY <1>1, <1>2, WFMin
<1>5. n # 0 /\ n - 1 \in Nat
  BY <1>4
<1>6. n - 1 \in T
  BY <1>4, <1>5
<1>7. <<n - 1, n>> \notin R
  BY <1>4, <1>6
<1>8. n \in Nat /\ n - 1 < n
  BY <1>4
<1> QED
  BY <1>3, <1>5, <1>7, <1>8

-----------------------------------------------------------------------------
(* FlattenSeq *)

\* The function that FlattenSeq is defined by.
Flattens(f, s) ==
  f = [i \in 1 .. Len(s) |-> IF i = 1 THEN s[i] ELSE f[i - 1] \o s[i]]

\* It takes up one sequence after another.
LEMMA FlattensAt ==
  ASSUME NEW s, NEW f, Flattens(f, s), NEW i \in 1 .. Len(s)
  PROVE  f[i] = IF i = 1 THEN s[i] ELSE f[i - 1] \o s[i]
<1> DEFINE h == [j \in 1 .. Len(s) |-> IF j = 1 THEN s[j] ELSE f[j - 1] \o s[j]]
<1>1. f = h
  BY DEF Flattens
<1>2. h[i] = IF i = 1 THEN s[i] ELSE f[i - 1] \o s[i]
  OBVIOUS
<1> HIDE DEF h
<1> QED
  BY <1>1, <1>2

\* There is such a function.
LEMMA FlattensExists ==
  ASSUME NEW s, Len(s) \in Nat
  PROVE  \E f : Flattens(f, s)
<1> DEFINE P(f, n) == f = [i \in 1 .. n |-> IF i = 1 THEN s[i] ELSE f[i - 1] \o s[i]]
           G == {n \in Nat : \E f : P(f, n)}
<1>1. 0 \in G
  <2>1. P([i \in 1 .. 0 |-> 0], 0)
    OBVIOUS
  <2> QED
    BY <2>1
<1>2. ASSUME NEW n \in Nat, n \in G PROVE n + 1 \in G
  <2>1. PICK f : P(f, n)
    BY <1>2
  <2> DEFINE g == [i \in 1 .. n + 1 |-> IF i <= n THEN f[i]
                                       ELSE IF i = 1 THEN s[i] ELSE f[i - 1] \o s[i]]
  <2>2. ASSUME NEW i \in 1 .. n + 1
        PROVE  g[i] = IF i = 1 THEN s[i] ELSE g[i - 1] \o s[i]
    <3>1. CASE i <= n
      <4>1. g[i] = f[i] /\ i \in 1 .. n
        BY <3>1
      <4>2. f[i] = IF i = 1 THEN s[i] ELSE f[i - 1] \o s[i]
        BY <2>1, <4>1
      <4>3. i # 1 => g[i - 1] = f[i - 1]
        BY <3>1
      <4> QED
        BY <4>1, <4>2, <4>3
    <3>2. CASE i = n + 1
      BY <3>2
    <3> QED
      BY <3>1, <3>2
  <2>3. P(g, n + 1)
    <3> DEFINE h == [i \in 1 .. n + 1 |-> IF i = 1 THEN s[i] ELSE g[i - 1] \o s[i]]
    <3>1. \A i \in 1 .. n + 1 : g[i] = h[i]
      BY <2>2
    <3> QED
      BY <3>1
  <2>4. \E h : P(h, n + 1)
    <3> HIDE DEF g, P
    <3> QED
      BY <2>3
  <2> HIDE DEF P
  <2> QED
    BY <2>4
<1>3. Len(s) \in G
  <2> HIDE DEF G
  <2> QED
    BY <1>1, <1>2, NatSetInduction
<1> QED
  BY <1>3 DEF Flattens

\* FlattenSeq is its last value.
LEMMA FlattenSeqIs ==
  ASSUME NEW s, Len(s) \in Nat \ {0}
  PROVE  \E f : Flattens(f, s) /\ FlattenSeq(s) = f[Len(s)]
<1> DEFINE F == CHOOSE f : Flattens(f, s)
<1>1. Flattens(F, s)
  BY FlattensExists
<1>2. FlattenSeq(s) = F[Len(s)]
  BY DEF FlattenSeq, Flattens
<1> QED
  BY <1>1, <1>2

\* The same for a shorter sequence that begins alike.
LEMMA FlattensAgree ==
  ASSUME NEW s, NEW t, Len(s) \in Nat, Len(t) \in Nat, Len(s) <= Len(t),
         \A i \in 1 .. Len(s) : s[i] = t[i],
         NEW f, NEW g, Flattens(f, s), Flattens(g, t)
  PROVE  Len(s) > 0 => f[Len(s)] = g[Len(s)]
<1> DEFINE G == {n \in Nat : n \in 1 .. Len(s) => f[n] = g[n]}
<1>1. 0 \in G
  OBVIOUS
<1>2. ASSUME NEW n \in Nat, n \in G PROVE n + 1 \in G
  <2> SUFFICES ASSUME n + 1 \in 1 .. Len(s) PROVE f[n + 1] = g[n + 1]
    OBVIOUS
  <2>1. /\ f[n + 1] = IF n + 1 = 1 THEN s[n + 1] ELSE f[n] \o s[n + 1]
        /\ g[n + 1] = IF n + 1 = 1 THEN t[n + 1] ELSE g[n] \o t[n + 1]
    <3>1. n + 1 \in 1 .. Len(t) /\ (n + 1) - 1 = n
      OBVIOUS
    <3> QED
      BY <3>1, FlattensAt
  <2>2. n = 0 \/ f[n] = g[n]
    BY <1>2
  <2> QED
    BY <2>1, <2>2
<1>3. Nat \subseteq G
  <2> HIDE DEF G
  <2> QED
    BY <1>1, <1>2, NatSetInduction
<1> QED
  BY <1>3

\* Flattening sequences of S gives a sequence of S.
LEMMA FlattensType ==
  ASSUME NEW S, NEW s \in Seq(Seq(S)), NEW f, Flattens(f, s)
  PROVE  \A i \in 1 .. Len(s) : f[i] \in Seq(S)
<1> DEFINE G == {n \in Nat : n \in 1 .. Len(s) => f[n] \in Seq(S)}
<1>0. Len(s) \in Nat /\ \A i \in 1 .. Len(s) : s[i] \in Seq(S)
  BY LenProperties
<1>1. 0 \in G
  OBVIOUS
<1>2. ASSUME NEW n \in Nat, n \in G PROVE n + 1 \in G
  <2> SUFFICES ASSUME n + 1 \in 1 .. Len(s) PROVE f[n + 1] \in Seq(S)
    OBVIOUS
  <2>1. f[n + 1] = IF n + 1 = 1 THEN s[n + 1] ELSE f[n] \o s[n + 1]
    <3>1. (n + 1) - 1 = n
      OBVIOUS
    <3> QED
      BY <3>1, FlattensAt
  <2>2. n = 0 \/ f[n] \in Seq(S)
    BY <1>0, <1>2
  <2>3. s[n + 1] \in Seq(S)
    BY <1>0
  <2> QED
    BY <2>1, <2>2, <2>3, ConcatProperties
<1>3. Nat \subseteq G
  <2> HIDE DEF G
  <2> QED
    BY <1>1, <1>2, NatSetInduction
<1> QED
  BY <1>0, <1>3

LEMMA FlattenSeqType ==
  ASSUME NEW S, NEW s \in Seq(Seq(S))
  PROVE  FlattenSeq(s) \in Seq(S)
<1>1. Len(s) \in Nat
  BY LenProperties
<1>2. CASE Len(s) = 0
  BY <1>1, <1>2, EmptySeq DEF FlattenSeq
<1>3. CASE Len(s) # 0
  <2>1. PICK f : Flattens(f, s) /\ FlattenSeq(s) = f[Len(s)]
    BY <1>1, <1>3, FlattenSeqIs
  <2> QED
    BY <1>1, <1>3, <2>1, FlattensType
<1> QED
  BY <1>2, <1>3

\* Flattening takes a sequence of sequences one by one.
LEMMA FlattenSeqAppend ==
  ASSUME NEW S, NEW s \in Seq(Seq(S)), NEW t \in Seq(S)
  PROVE  FlattenSeq(Append(s, t)) = FlattenSeq(s) \o t
<1> DEFINE a == Append(s, t)
           n == Len(s)
<1>1. /\ n \in Nat /\ a \in Seq(Seq(S)) /\ Len(a) = n + 1
      /\ \A i \in 1 .. n : a[i] = s[i]
      /\ a[n + 1] = t
  BY AppendProperties, LenProperties
<1> HIDE DEF a
<1>2. PICK g : Flattens(g, a) /\ FlattenSeq(a) = g[n + 1]
  <2>1. Len(a) \in Nat \ {0}
    BY <1>1
  <2> QED
    BY <1>1, <2>1, FlattenSeqIs
<1>3. g[n + 1] = IF n + 1 = 1 THEN t ELSE g[n] \o t
  <2>1. n + 1 \in 1 .. Len(a) /\ (n + 1) - 1 = n
    BY <1>1
  <2>2. g[n + 1] = IF n + 1 = 1 THEN a[n + 1] ELSE g[(n + 1) - 1] \o a[n + 1]
    BY <1>2, <2>1, FlattensAt
  <2> QED
    BY <1>1, <2>1, <2>2
<1>4. CASE n = 0
  <2>1. s = <<>> /\ FlattenSeq(s) = <<>>
    BY <1>4, EmptySeq DEF FlattenSeq
  <2>2. FlattenSeq(s) \o t = t
    BY <2>1, ConcatEmptySeq
  <2> QED
    BY <1>2, <1>3, <1>4, <2>2 DEF a
<1>5. CASE n # 0
  <2>1. PICK f : Flattens(f, s) /\ FlattenSeq(s) = f[n]
    BY <1>1, <1>5, FlattenSeqIs
  <2>2. f[n] = g[n]
    <3>1. Len(a) \in Nat /\ n <= Len(a) /\ \A i \in 1 .. n : s[i] = a[i]
      BY <1>1
    <3>2. n > 0 => f[n] = g[n]
      BY <1>1, <1>2, <2>1, <3>1, FlattensAgree
    <3> QED
      BY <1>1, <1>5, <3>2
  <2> QED
    BY <1>1, <1>2, <1>3, <1>5, <2>1, <2>2 DEF a
<1> QED
  BY <1>4, <1>5

\* A function on 1 .. n + 1 is its restriction to 1 .. n with one more element.
LEMMA LastApart ==
  ASSUME NEW S, NEW n \in Nat, NEW f \in [1 .. n + 1 -> S],
         NEW g \in [1 .. n -> S], \A i \in 1 .. n : f[i] = g[i]
  PROVE  /\ f \in Seq(S) /\ g \in Seq(S) /\ f[n + 1] \in S
         /\ f = Append(g, f[n + 1])
<1>1. f \in Seq(S) /\ g \in Seq(S) /\ f[n + 1] \in S
  BY IsASeq
<1>2. Len(f) = n + 1 /\ Len(g) = n
  BY <1>1, LenProperties
<1> DEFINE a == Append(g, f[n + 1])
<1>3. /\ a \in Seq(S) /\ Len(a) = n + 1
      /\ \A i \in 1 .. n : a[i] = g[i]
      /\ a[n + 1] = f[n + 1]
  BY <1>1, <1>2, AppendProperties
<1> HIDE DEF a
<1>4. \A i \in 1 .. Len(f) : f[i] = a[i]
  BY <1>2, <1>3
<1>5. f = a
  BY <1>1, <1>2, <1>3, <1>4, SeqEqual
<1> QED
  BY <1>1, <1>5 DEF a

\* A sequence cut in two.
LEMMA CutInTwo ==
  ASSUME NEW S, NEW q \in Seq(S), NEW n \in 0 .. Len(q)
  PROVE  /\ SubSeq(q, 1, n) \in Seq(S) /\ Len(SubSeq(q, 1, n)) = n
         /\ SubSeq(q, n + 1, Len(q)) \in Seq(S)
         /\ Len(SubSeq(q, n + 1, Len(q))) = Len(q) - n
         /\ SubSeq(q, 1, n) \o SubSeq(q, n + 1, Len(q)) = q
         /\ \A i \in 1 .. n : SubSeq(q, 1, n)[i] = q[i]
         /\ \A i \in 1 .. Len(q) - n : SubSeq(q, n + 1, Len(q))[i] = q[n + i]
<1>1. Len(q) \in Nat /\ n \in Nat /\ n <= Len(q) /\ \A i \in 1 .. Len(q) : q[i] \in S
  BY LenProperties, ElementOfSeq
<1>2. /\ SubSeq(q, 1, n) \in Seq(S) /\ Len(SubSeq(q, 1, n)) = n
      /\ \A i \in 1 .. n : SubSeq(q, 1, n)[i] = q[i]
  BY <1>1, SubSeqProperties
<1>3. /\ SubSeq(q, n + 1, Len(q)) \in Seq(S)
      /\ Len(SubSeq(q, n + 1, Len(q))) = Len(q) - n
      /\ \A i \in 1 .. Len(q) - n : SubSeq(q, n + 1, Len(q))[i] = q[n + i]
  BY <1>1, SubSeqProperties
<1>4. PICK a \in Seq(S), b \in Seq(S) :
        a = SubSeq(q, 1, n) /\ b = SubSeq(q, n + 1, Len(q))
  BY <1>2, <1>3
<1>a. Len(a) = n /\ Len(b) = Len(q) - n
  BY <1>2, <1>3, <1>4
<1>5. /\ a \o b \in Seq(S) /\ Len(a \o b) = Len(q)
      /\ \A i \in 1 .. Len(q) : (a \o b)[i] = IF i <= n THEN a[i] ELSE b[i - n]
  <2>1. /\ a \o b \in Seq(S) /\ Len(a \o b) = Len(a) + Len(b)
        /\ \A i \in 1 .. Len(a) + Len(b) :
             (a \o b)[i] = IF i <= Len(a) THEN a[i] ELSE b[i - Len(a)]
    BY ConcatProperties
  <2> QED
    BY <1>1, <1>a, <2>1
<1>6. ASSUME NEW i \in 1 .. Len(a \o b) PROVE (a \o b)[i] = q[i]
  <2>1. i \in 1 .. Len(q) /\ i \in Nat
    BY <1>1, <1>5
  <2>2. CASE i <= n
    <3>1. (a \o b)[i] = a[i]
      BY <1>5, <2>1, <2>2, Zenon
    <3>2. i \in 1 .. n
      BY <1>1, <2>1, <2>2
    <3>3. a[i] = q[i]
      BY <1>2, <1>4, <3>2
    <3> QED
      BY <3>1, <3>3
  <2>3. CASE ~ (i <= n)
    <3>1. i - n \in 1 .. Len(q) - n /\ n + (i - n) = i
      BY <1>1, <2>1, <2>3
    <3>2. b[i - n] = q[n + (i - n)]
      BY <1>3, <1>4, <3>1
    <3> QED
      BY <1>5, <2>1, <2>3, <3>1, <3>2
  <2> QED
    BY <2>2, <2>3
<1>7. a \o b = q
  BY <1>5, <1>6, SeqEqual
<1> QED
  BY <1>2, <1>3, <1>4, <1>7

\* Two sequences, and four, one after another.
LEMMA ConcatTwo ==
  ASSUME NEW S, NEW a \in Seq(S), NEW b \in Seq(S), NEW q, q = a \o b
  PROVE  /\ q \in Seq(S) /\ Len(q) = Len(a) + Len(b)
         /\ \A i \in 1 .. Len(a) : q[i] = a[i]
         /\ \A i \in 1 .. Len(b) : q[Len(a) + i] = b[i]
<1>1. Len(a) \in Nat /\ Len(b) \in Nat
  BY LenProperties
<1>2. /\ q \in Seq(S) /\ Len(q) = Len(a) + Len(b)
      /\ \A i \in 1 .. Len(a) + Len(b) : q[i] = IF i <= Len(a) THEN a[i] ELSE b[i - Len(a)]
  BY ConcatProperties
<1>3. ASSUME NEW i \in 1 .. Len(a) PROVE q[i] = a[i]
  BY <1>1, <1>2
<1>4. ASSUME NEW i \in 1 .. Len(b) PROVE q[Len(a) + i] = b[i]
  <2>1. /\ Len(a) + i \in 1 .. Len(a) + Len(b) /\ ~ (Len(a) + i <= Len(a))
        /\ Len(a) + i - Len(a) = i
    BY <1>1
  <2> QED
    BY <1>2, <2>1
<1> QED
  BY <1>2, <1>3, <1>4

LEMMA ConcatFour ==
  ASSUME NEW S, NEW a \in Seq(S), NEW b \in Seq(S), NEW c \in Seq(S), NEW d \in Seq(S),
         NEW q, q = ((a \o b) \o c) \o d
  PROVE  /\ q \in Seq(S)
         /\ Len(q) = Len(a) + Len(b) + Len(c) + Len(d)
         /\ \A i \in 1 .. Len(a) : q[i] = a[i]
         /\ \A i \in 1 .. Len(b) : q[Len(a) + i] = b[i]
         /\ \A i \in 1 .. Len(c) : q[Len(a) + Len(b) + i] = c[i]
         /\ \A i \in 1 .. Len(d) : q[Len(a) + Len(b) + Len(c) + i] = d[i]
<1>1. Len(a) \in Nat /\ Len(b) \in Nat /\ Len(c) \in Nat /\ Len(d) \in Nat
  BY LenProperties
<1>2. PICK u : u = a \o b
  OBVIOUS
<1>3. PICK v : v = u \o c
  OBVIOUS
<1>4. q = v \o d
  BY <1>2, <1>3, Zenon
<1>5. u \in Seq(S)
  BY <1>2, ConcatTwo
<1>6. v \in Seq(S)
  BY <1>3, <1>5, ConcatTwo
<1>7. /\ Len(u) = Len(a) + Len(b)
      /\ \A i \in 1 .. Len(a) : u[i] = a[i]
      /\ \A i \in 1 .. Len(b) : u[Len(a) + i] = b[i]
  BY <1>2, ConcatTwo
<1>8. /\ Len(v) = Len(u) + Len(c)
      /\ \A i \in 1 .. Len(u) : v[i] = u[i]
      /\ \A i \in 1 .. Len(c) : v[Len(u) + i] = c[i]
  BY <1>3, <1>5, ConcatTwo
<1>9. /\ q \in Seq(S)
      /\ Len(q) = Len(v) + Len(d)
      /\ \A i \in 1 .. Len(v) : q[i] = v[i]
      /\ \A i \in 1 .. Len(d) : q[Len(v) + i] = d[i]
  BY <1>4, <1>6, ConcatTwo
<1>10. ASSUME NEW i \in 1 .. Len(a) PROVE q[i] = a[i]
  <2>1. i \in 1 .. Len(u) /\ i \in 1 .. Len(v)
    BY <1>1, <1>7, <1>8
  <2> QED
    BY <1>7, <1>8, <1>9, <2>1
<1>11. ASSUME NEW i \in 1 .. Len(b) PROVE q[Len(a) + i] = b[i]
  <2>1. Len(a) + i \in 1 .. Len(u) /\ Len(a) + i \in 1 .. Len(v)
    BY <1>1, <1>7, <1>8
  <2> QED
    BY <1>7, <1>8, <1>9, <2>1
<1>12. ASSUME NEW i \in 1 .. Len(c) PROVE q[Len(a) + Len(b) + i] = c[i]
  <2>1. Len(u) + i \in 1 .. Len(v) /\ Len(u) + i = Len(a) + Len(b) + i
    BY <1>1, <1>7, <1>8
  <2> QED
    BY <1>8, <1>9, <2>1
<1>13. ASSUME NEW i \in 1 .. Len(d) PROVE q[Len(a) + Len(b) + Len(c) + i] = d[i]
  <2>1. Len(v) + i = Len(a) + Len(b) + Len(c) + i
    BY <1>1, <1>7, <1>8
  <2> QED
    BY <1>9, <2>1
<1>14. Len(q) = Len(a) + Len(b) + Len(c) + Len(d)
  BY <1>1, <1>7, <1>8, <1>9
<1> QED
  BY <1>9, <1>10, <1>11, <1>12, <1>13, <1>14

\* Concatenation with one element more, and its associativity.
LEMMA ConcatAppend ==
  ASSUME NEW S, NEW a \in Seq(S), NEW b \in Seq(S), NEW x \in S
  PROVE  a \o Append(b, x) = Append(a \o b, x)
BY Z3

Cat(a, b) == a \o b

LEMMA CatAssociative ==
  ASSUME NEW S
  PROVE  \A a, b, c \in Seq(S) : Cat(Cat(a, b), c) = Cat(a, Cat(b, c))
<1> SUFFICES ASSUME NEW a \in Seq(S), NEW b \in Seq(S), NEW c \in Seq(S)
             PROVE  Cat(Cat(a, b), c) = Cat(a, Cat(b, c))
  OBVIOUS
<1> QED
  BY Z3T(40) DEF Cat

\* FlattenSeq distributes over concatenation.
LEMMA FlattenSeqConcat ==
  ASSUME NEW S, NEW s \in Seq(Seq(S)), NEW t \in Seq(Seq(S))
  PROVE  FlattenSeq(s \o t) = FlattenSeq(s) \o FlattenSeq(t)
<1> DEFINE G == {n \in Nat : \A u \in Seq(Seq(S)) : Len(u) = n =>
                   FlattenSeq(s \o u) = FlattenSeq(s) \o FlattenSeq(u)}
<1>1. 0 \in G
  <2> SUFFICES ASSUME NEW u \in Seq(Seq(S)), Len(u) = 0
               PROVE  FlattenSeq(s \o u) = FlattenSeq(s) \o FlattenSeq(u)
    OBVIOUS
  <2>1. u = <<>>
    BY EmptySeq
  <2>2. FlattenSeq(u) = <<>>
    BY <2>1 DEF FlattenSeq
  <2>3. FlattenSeq(s) \in Seq(S)
    BY FlattenSeqType
  <2>4. s \o u = s /\ FlattenSeq(s) \o FlattenSeq(u) = FlattenSeq(s)
    BY <2>1, <2>2, <2>3, ConcatEmptySeq
  <2> QED
    BY <2>4
<1>2. ASSUME NEW n \in Nat, n \in G PROVE n + 1 \in G
  <2> SUFFICES ASSUME NEW u \in Seq(Seq(S)), Len(u) = n + 1
               PROVE  FlattenSeq(s \o u) = FlattenSeq(s) \o FlattenSeq(u)
    OBVIOUS
  <2>1. u # <<>>
    BY EmptySeq
  <2>2. PICK v \in Seq(Seq(S)), x \in Seq(S) : u = Append(v, x)
    BY <2>1, SequenceEmptyOrAppend
  <2>3. Len(v) = n
    BY <2>2, AppendProperties, LenProperties
  <2>4. s \o v \in Seq(Seq(S)) /\ s \o u = Append(s \o v, x)
    <3>1. s \o v \in Seq(Seq(S))
      BY <2>2, ConcatProperties
    <3>2. s \o Append(v, x) = Append(s \o v, x)
      BY <2>2, ConcatAppend, SMTT(30)
    <3> QED
      BY <2>2, <3>1, <3>2, Zenon
  <2>5. FlattenSeq(s \o v) = FlattenSeq(s) \o FlattenSeq(v)
    BY <1>2, <2>3
  <2>6. /\ FlattenSeq(s \o u) = FlattenSeq(s \o v) \o x
        /\ FlattenSeq(u) = FlattenSeq(v) \o x
    BY <2>2, <2>4, FlattenSeqAppend
  <2>7. FlattenSeq(s) \in Seq(S) /\ FlattenSeq(v) \in Seq(S)
    BY FlattenSeqType
  <2>8. (FlattenSeq(s) \o FlattenSeq(v)) \o x = FlattenSeq(s) \o (FlattenSeq(v) \o x)
    <3>1. \A a, b, c \in Seq(S) : Cat(Cat(a, b), c) = Cat(a, Cat(b, c))
      BY CatAssociative
    <3>2. Cat(Cat(FlattenSeq(s), FlattenSeq(v)), x) = Cat(FlattenSeq(s), Cat(FlattenSeq(v), x))
      BY <2>2, <2>7, <3>1, Zenon
    <3> QED
      BY <3>2, Zenon DEF Cat
  <2> QED
    BY <2>5, <2>6, <2>8
<1>3. Len(t) \in G
  <2> HIDE DEF G
  <2> QED
    BY <1>1, <1>2, NatSetInduction, LenProperties
<1> QED
  BY <1>3

-----------------------------------------------------------------------------
(* Folds and walks *)

\* A fold over 1 .. n by a function: base, and one more element at a time.
LEMMA FoldExists ==
  ASSUME NEW S, NEW base \in S, NEW n \in Nat, NEW op \in [1 .. n -> [S -> S]]
  PROVE  \E f \in [0 .. n -> S] :
           f[0] = base /\ \A i \in 1 .. n : f[i] = op[i][f[i - 1]]
<1> DEFINE Folds(f, m) == f[0] = base /\ \A i \in 1 .. m : f[i] = op[i][f[i - 1]]
           G == {m \in Nat : m <= n => \E f \in [0 .. m -> S] : Folds(f, m)}
<1>1. 0 \in G
  <2>1. [i \in 0 .. 0 |-> base] \in [0 .. 0 -> S] /\ Folds([i \in 0 .. 0 |-> base], 0)
    OBVIOUS
  <2> HIDE DEF Folds
  <2> QED
    BY <2>1
<1>2. ASSUME NEW m \in Nat, m \in G PROVE m + 1 \in G
  <2> SUFFICES ASSUME m + 1 <= n PROVE \E f \in [0 .. m + 1 -> S] : Folds(f, m + 1)
    OBVIOUS
  <2>1. PICK f \in [0 .. m -> S] : Folds(f, m)
    BY <1>2
  <2> DEFINE g == [i \in 0 .. m + 1 |-> IF i <= m THEN f[i] ELSE op[m + 1][f[m]]]
  <2>2. f[m] \in S /\ m + 1 \in 1 .. n
    OBVIOUS
  <2>3. op[m + 1][f[m]] \in S
    BY <2>2
  <2>4. g \in [0 .. m + 1 -> S]
    BY <2>3
  <2>5. ASSUME NEW i \in 1 .. m + 1 PROVE g[i] = op[i][g[i - 1]]
    <3>1. CASE i <= m
      <4>1. g[i] = f[i] /\ g[i - 1] = f[i - 1] /\ i \in 1 .. m
        BY <3>1
      <4> QED
        BY <2>1, <4>1
    <3>2. CASE i = m + 1
      <4>1. g[i] = op[m + 1][f[m]] /\ g[i - 1] = f[m]
        BY <3>2
      <4> QED
        BY <3>2, <4>1
    <3> QED
      BY <3>1, <3>2
  <2>6. g[0] = base
    BY <2>1
  <2>7. Folds(g, m + 1)
    BY <2>5, <2>6
  <2> HIDE DEF g, Folds
  <2> QED
    BY <2>4, <2>7
<1>3. n \in G
  <2> HIDE DEF G
  <2> QED
    BY <1>1, <1>2, NatSetInduction
<1> QED
  BY <1>3

\* Induction up an interval.
LEMMA IntervalInduction ==
  ASSUME NEW n \in Nat, NEW P, 0 \in P, \A i \in 1 .. n : i - 1 \in P => i \in P
  PROVE  \A i \in 0 .. n : i \in P
<1> DEFINE G == {m \in Nat : m <= n => m \in P}
<1>1. 0 \in G
  OBVIOUS
<1>2. ASSUME NEW m \in Nat, m \in G PROVE m + 1 \in G
  <2> SUFFICES ASSUME m + 1 <= n PROVE m + 1 \in P
    OBVIOUS
  <2>1. m \in P
    BY <1>2
  <2>2. m + 1 \in 1 .. n /\ (m + 1) - 1 = m
    OBVIOUS
  <2> QED
    BY <2>1, <2>2
<1>3. Nat \subseteq G
  <2> HIDE DEF G
  <2> QED
    BY <1>1, <1>2, NatSetInduction
<1> QED
  BY <1>3

\* A walk up the naturals that ends behind m, or earlier where stop says so.
IsWalk(S, m, end, stop, op, next) ==
  /\ m \in Nat /\ end \in [Nat -> S] /\ stop \in [Nat -> BOOLEAN]
  /\ op \in [Nat -> [S -> S]] /\ next \in [Nat -> Nat]
  /\ \A p \in Nat : p > m => stop[p]
  /\ \A p \in Nat : ~ stop[p] => next[p] > p

WalkedBy(f, S, end, stop, op, next) ==
  /\ f \in [Nat -> S]
  /\ \A p \in Nat : f[p] = IF stop[p] THEN end[p] ELSE op[p][f[next[p]]]

LEMMA WalkExists ==
  ASSUME NEW S, NEW m, NEW end, NEW stop, NEW op, NEW next,
         IsWalk(S, m, end, stop, op, next)
  PROVE  \E f : WalkedBy(f, S, end, stop, op, next)
<1> SUFFICES ASSUME m \in Nat, end \in [Nat -> S], stop \in [Nat -> BOOLEAN],
                    op \in [Nat -> [S -> S]], next \in [Nat -> Nat],
                    \A p \in Nat : p > m => stop[p],
                    \A p \in Nat : ~ stop[p] => next[p] > p
             PROVE  \E f : WalkedBy(f, S, end, stop, op, next)
  BY DEF IsWalk
<1> DEFINE Walks(f, p) == f[p] = IF stop[p] THEN end[p] ELSE op[p][f[next[p]]]
           G == {n \in Nat : \E f \in [Nat -> S] : \A p \in Nat : p + n > m => Walks(f, p)}
<1>1. 0 \in G
  <2>1. end \in [Nat -> S] /\ \A p \in Nat : p + 0 > m => Walks(end, p)
    OBVIOUS
  <2> HIDE DEF Walks
  <2> QED
    BY <2>1
<1>2. ASSUME NEW n \in Nat, n \in G PROVE n + 1 \in G
  <2>1. PICK f \in [Nat -> S] : \A p \in Nat : p + n > m => Walks(f, p)
    BY <1>2
  <2> DEFINE step(p) == IF stop[p] THEN end[p] ELSE op[p][f[next[p]]]
             g == [p \in Nat |-> IF p + n > m THEN f[p] ELSE step(p)]
  <2>2. ASSUME NEW p \in Nat PROVE step(p) \in S
    <3>1. end[p] \in S /\ next[p] \in Nat
      OBVIOUS
    <3>2. f[next[p]] \in S
      BY <3>1
    <3> QED
      BY <3>1, <3>2
  <2>3. g \in [Nat -> S]
    <3> HIDE DEF step
    <3> QED
      BY <2>2
  <2>4. ASSUME NEW p \in Nat, p + (n + 1) > m PROVE Walks(g, p)
    <3>1. g[p] = step(p)
      <4>1. CASE p + n > m
        BY <2>1, <4>1
      <4>2. CASE ~ (p + n > m)
        BY <4>2
      <4> QED
        BY <4>1, <4>2
    <3>2. CASE stop[p]
      BY <3>1, <3>2
    <3>3. CASE ~ stop[p]
      <4>1. next[p] \in Nat /\ next[p] + n > m
        BY <2>4, <3>3
      <4>2. g[next[p]] = f[next[p]]
        BY <4>1
      <4> QED
        BY <3>1, <3>3, <4>2
    <3> QED
      BY <3>2, <3>3
  <2> HIDE DEF g, Walks
  <2>5. \E h \in [Nat -> S] : \A p \in Nat : p + (n + 1) > m => Walks(h, p)
    BY <2>3, <2>4, Zenon
  <2> QED
    BY <2>5, SMTT(30)
<1>3. m + 1 \in G
  <2> HIDE DEF G
  <2> QED
    BY <1>1, <1>2, NatSetInduction
<1>4. PICK f \in [Nat -> S] : \A p \in Nat : p + (m + 1) > m => Walks(f, p)
  BY <1>3
<1>5. \A p \in Nat : p + (m + 1) > m
  OBVIOUS
<1> QED
  BY <1>4, <1>5 DEF WalkedBy

-----------------------------------------------------------------------------
(* Extreme elements *)

\* A set of naturals has a least element.
LEMMA MinIs ==
  ASSUME NEW S \in SUBSET Nat, S # {}
  PROVE  Min(S) \in S /\ \A x \in S : Min(S) <= x
<1> DEFINE R == OpToRel(<, Nat)
<1>1. IsWellFoundedOn(R, Nat)
  BY NatLessThanWellFounded
<1>2. \A m, n \in Nat : <<m, n>> \in R <=> m < n
  BY DEF OpToRel
<1> HIDE DEF R
<1>3. PICK x \in S : \A y \in S : ~ (<<y, x>> \in R)
  BY <1>1, WFMin
<1>4. ASSUME NEW y \in S PROVE x =< y
  <2>1. x \in Nat /\ y \in Nat
    OBVIOUS
  <2>2. ~ (<<y, x>> \in R)
    BY <1>3
  <2>3. ~ (y < x)
    BY <1>2, <2>1, <2>2, Zenon
  <2> QED
    BY <2>1, <2>3
<1>5. \E z \in S : \A y \in S : z =< y
  BY <1>4
<1>6. Min(S) \in S /\ \A z \in S : Min(S) =< z
  BY <1>5, Zenon DEF Min
<1> QED
  BY <1>6

\* A set of naturals up to n has a greatest element.
LEMMA MaxIs ==
  ASSUME NEW n \in Nat, NEW S \in SUBSET (0 .. n), S # {}
  PROVE  Max(S) \in S /\ \A x \in S : x <= Max(S)
<1> DEFINE T == {n - x : x \in S}
<1>1. T \in SUBSET Nat /\ T # {}
  <2>1. \A x \in S : n - x \in Nat
    OBVIOUS
  <2> QED
    BY <2>1
<1>2. PICK y \in T : \A z \in T : y <= z
  <2> HIDE DEF T
  <2> QED
    BY <1>1, MinIs
<1>3. PICK x \in S : y = n - x
  BY <1>2
<1>4. ASSUME NEW z \in S PROVE x >= z
  <2>1. n - z \in T
    OBVIOUS
  <2>2. n - x <= n - z
    BY <1>2, <1>3, <2>1
  <2>3. n \in Int /\ x \in Int /\ z \in Int
    OBVIOUS
  <2> HIDE DEF T
  <2> QED
    BY ONLY <2>2, <2>3
<1>5. \E v \in S : \A z \in S : v >= z
  BY <1>4
<1>6. Max(S) \in S /\ \A z \in S : Max(S) >= z
  BY <1>5, Zenon DEF Max
<1> QED
  BY <1>6
=============================================================================
