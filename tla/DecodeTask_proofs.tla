------------------------- MODULE DecodeTask_proofs -------------------------
(***************************************************************************)
(* Proofs about DecodeTask for any windows, any number of spots and any    *)
(* number of faults.                                                       *)
(***************************************************************************)
EXTENDS DecodeTask, RecursionTheorems, FiniteSetTheorems

-----------------------------------------------------------------------------
(* Sequences. *)

LEMMA PrefixIs ==
  ASSUME NEW S, NEW s \in Seq(S), NEW t \in Seq(S)
  PROVE  IsPrefix(s, t) <=> /\ Len(s) <= Len(t)
                            /\ \A i \in 1 .. Len(s) : s[i] = t[i]
<1>1. Len(s) \in Nat /\ Len(t) \in Nat
  BY LenProperties
<1> SUFFICES ASSUME Len(s) <= Len(t)
             PROVE  SubSeq(s, 1, Len(s)) = SubSeq(t, 1, Len(s))
                      <=> \A i \in 1 .. Len(s) : s[i] = t[i]
  BY DEF IsPrefix
<1> DEFINE u == SubSeq(t, 1, Len(s))
<1>2. SubSeq(s, 1, Len(s)) = s
  BY SubSeqFull
<1>3. u \in Seq(S) /\ Len(u) = Len(s) /\ \A i \in 1 .. Len(s) : u[i] = t[i]
  <2>1. \A i \in 1 .. Len(s) : t[i] \in S
    BY <1>1, ElementOfSeq
  <2>2. /\ u \in Seq(S) /\ Len(u) = IF 1 <= Len(s) THEN Len(s) - 1 + 1 ELSE 0
        /\ \A i \in 1 .. Len(s) - 1 + 1 : u[i] = t[1 + i - 1]
    <3> HIDE DEF u
    <3> QED
      BY <1>1, <2>1, SubSeqProperties DEF u
  <2> HIDE DEF u
  <2> QED
    BY <1>1, <2>2
<1> HIDE DEF u
<1>4. (\A i \in 1 .. Len(s) : s[i] = u[i]) => s = u
  BY <1>3, SeqEqual
<1> QED
  BY <1>2, <1>3, <1>4 DEF u

LEMMA SuffixIs ==
  ASSUME NEW S, NEW s \in Seq(S), NEW t \in Seq(S)
  PROVE  IsSuffix(s, t) <=>
           /\ Len(s) <= Len(t)
           /\ \A i \in 1 .. Len(s) : s[i] = t[Len(t) - Len(s) + i]
<1>1. Len(s) \in Nat /\ Len(t) \in Nat
  BY LenProperties
<1>2. ASSUME NEW x \in Seq(S)
      PROVE  /\ Reverse(x) \in Seq(S) /\ Len(Reverse(x)) = Len(x)
             /\ \A i \in 1 .. Len(x) : Reverse(x)[i] = x[Len(x) - i + 1]
  <2>1. Len(x) \in Nat /\ \A i \in 1 .. Len(x) : x[(Len(x) - i) + 1] \in S
    BY LenProperties, ElementOfSeq
  <2> QED
    BY <2>1 DEF Reverse
<1>3. IsSuffix(s, t) <=> /\ Len(s) <= Len(t)
                         /\ \A i \in 1 .. Len(s) : Reverse(s)[i] = Reverse(t)[i]
  <2>1. Reverse(s) \in Seq(S) /\ Reverse(t) \in Seq(S)
    BY <1>2
  <2>2. IsPrefix(Reverse(s), Reverse(t))
          <=> /\ Len(Reverse(s)) <= Len(Reverse(t))
              /\ \A i \in 1 .. Len(Reverse(s)) : Reverse(s)[i] = Reverse(t)[i]
    BY <2>1, PrefixIs
  <2>3. Len(Reverse(s)) = Len(s) /\ Len(Reverse(t)) = Len(t)
    BY <1>2
  <2>4. IsSuffix(s, t) <=> IsPrefix(Reverse(s), Reverse(t))
    BY DEF IsSuffix
  <2> QED
    BY <2>2, <2>3, <2>4
<1> SUFFICES ASSUME Len(s) <= Len(t)
             PROVE  (\A i \in 1 .. Len(s) : Reverse(s)[i] = Reverse(t)[i])
                      <=> \A i \in 1 .. Len(s) : s[i] = t[Len(t) - Len(s) + i]
  BY <1>3
<1>4. \A i \in 1 .. Len(s) : /\ Reverse(s)[i] = s[Len(s) - i + 1]
                             /\ Reverse(t)[i] = t[Len(t) - i + 1]
  <2>1. \A i \in 1 .. Len(s) : Reverse(s)[i] = s[Len(s) - i + 1]
    BY <1>2
  <2>2. \A i \in 1 .. Len(t) : Reverse(t)[i] = t[Len(t) - i + 1]
    BY <1>2
  <2>3. \A i \in 1 .. Len(s) : i \in 1 .. Len(t)
    BY <1>1
  <2> QED
    BY <2>1, <2>2, <2>3
<1>5. ASSUME \A i \in 1 .. Len(s) : s[Len(s) - i + 1] = t[Len(t) - i + 1],
             NEW i \in 1 .. Len(s)
      PROVE  s[i] = t[Len(t) - Len(s) + i]
  <2>1. Len(s) - i + 1 \in 1 .. Len(s)
    BY <1>1
  <2>2. /\ Len(s) - (Len(s) - i + 1) + 1 = i
        /\ Len(t) - (Len(s) - i + 1) + 1 = Len(t) - Len(s) + i
    BY <1>1
  <2> QED
    BY <1>5, <2>1, <2>2
<1>6. ASSUME \A i \in 1 .. Len(s) : s[i] = t[Len(t) - Len(s) + i],
             NEW i \in 1 .. Len(s)
      PROVE  s[Len(s) - i + 1] = t[Len(t) - i + 1]
  <2>1. Len(s) - i + 1 \in 1 .. Len(s)
    BY <1>1
  <2>2. Len(t) - Len(s) + (Len(s) - i + 1) = Len(t) - i + 1
    BY <1>1
  <2> QED
    BY <1>6, <2>1, <2>2
<1> QED
  BY <1>4, <1>5, <1>6

-----------------------------------------------------------------------------
(* The spots of the results at some places, and their lines. *)

SpotsIn(rep, places) ==
  FlattenSeq([i \in 1 .. Len(rep) |-> IF i \in places THEN rep[i].spots ELSE <<>>])

Lines(all) == FlattenSeq([i \in 1 .. Len(all) |-> Line(all[i])])

LEMMA SpotsInType ==
  ASSUME NEW rep \in Seq(Results), NEW P
  PROVE  SpotsIn(rep, P) \in Seq(Spots)
<1> DEFINE f == [i \in 1 .. Len(rep) |-> IF i \in P THEN rep[i].spots ELSE <<>>]
<1>1. Len(rep) \in Nat /\ \A i \in 1 .. Len(rep) : rep[i] \in Results
  BY LenProperties
<1>2. <<>> \in Seq(Spots)
  BY EmptySeq
<1>3. \A i \in 1 .. Len(rep) : rep[i].spots \in Seq(Spots)
  BY <1>1 DEF Results
<1>4. f \in [1 .. Len(rep) -> Seq(Spots)]
  BY <1>2, <1>3
<1> HIDE DEF f
<1>5. f \in Seq(Seq(Spots))
  BY <1>1, <1>4, IsASeq
<1>6. FlattenSeq(f) \in Seq(Spots)
  BY <1>5, FlattenSeqType
<1> QED
  BY <1>6 DEF SpotsIn, f

\* One more result adds its spots, or nothing.
LEMMA SpotsInAppend ==
  ASSUME NEW rep \in Seq(Results), NEW r \in Results, NEW P
  PROVE  SpotsIn(Append(rep, r), P) =
           SpotsIn(rep, P) \o (IF Len(rep) + 1 \in P THEN r.spots ELSE <<>>)
<1> DEFINE n == Len(rep)
           a == Append(rep, r)
           g == [i \in 1 .. n |-> IF i \in P THEN rep[i].spots ELSE <<>>]
           f == [i \in 1 .. n + 1 |-> IF i \in P THEN a[i].spots ELSE <<>>]
<1>1. /\ n \in Nat /\ \A i \in 1 .. n : rep[i] \in Results
      /\ a \in Seq(Results) /\ Len(a) = n + 1
      /\ \A i \in 1 .. n : a[i] = rep[i]
      /\ a[n + 1] = r
  BY LenProperties, AppendProperties
<1> HIDE DEF a
<1>2. <<>> \in Seq(Spots)
  BY EmptySeq
<1>3. \A x \in Results : x.spots \in Seq(Spots)
  BY DEF Results
<1>4. /\ \A i \in 1 .. n + 1 : a[i] \in Results
      /\ n \in Nat
  BY <1>1, LenProperties
<1>5. f \in [1 .. n + 1 -> Seq(Spots)] /\ g \in [1 .. n -> Seq(Spots)]
  BY <1>1, <1>2, <1>3, <1>4
<1>6. \A i \in 1 .. n : f[i] = g[i]
  BY <1>1
<1>7. f[n + 1] = IF n + 1 \in P THEN r.spots ELSE <<>>
  BY <1>1
<1>8. FlattenSeq(f) = SpotsIn(a, P) /\ FlattenSeq(g) = SpotsIn(rep, P)
  BY <1>1 DEF SpotsIn
<1> HIDE DEF f, g
<1>9. /\ f \in Seq(Seq(Spots)) /\ g \in Seq(Seq(Spots))
      /\ f[n + 1] \in Seq(Spots) /\ f = Append(g, f[n + 1])
  <2>1. PICK T : T = Seq(Spots)
    OBVIOUS
  <2>2. f \in [1 .. n + 1 -> T] /\ g \in [1 .. n -> T] /\ n \in Nat
    BY <1>4, <1>5, <2>1
  <2>3. /\ f \in Seq(T) /\ g \in Seq(T)
        /\ f[n + 1] \in T /\ f = Append(g, f[n + 1])
    BY ONLY <2>2, <1>6, LastApart
  <2> QED
    BY <2>1, <2>3
<1>10. FlattenSeq(f) = FlattenSeq(g) \o f[n + 1]
  <2>1. FlattenSeq(Append(g, f[n + 1])) = FlattenSeq(g) \o f[n + 1]
    BY <1>9, FlattenSeqAppend
  <2> QED
    BY <1>9, <2>1
<1> QED
  BY <1>7, <1>8, <1>10 DEF a

LEMMA SpotsLast ==
  ASSUME NEW rep \in Seq(Results), rep # <<>>,
         NEW P \in SUBSET (1 .. Len(rep) - 1)
  PROVE  SpotsIn(rep, P \cup {Len(rep)}) = SpotsIn(rep, P) \o rep[Len(rep)].spots
<1>1. PICK old \in Seq(Results), r \in Results : rep = Append(old, r)
  BY SequenceEmptyOrAppend
<1> DEFINE n == Len(old)
           Q == P \cup {Len(rep)}
<1>2. n \in Nat /\ Len(rep) = n + 1 /\ rep[n + 1] = r
  BY <1>1, LenProperties, AppendProperties
<1>3. SpotsIn(rep, P) = SpotsIn(old, P)
  <2>1. n + 1 \notin P
    BY <1>2
  <2>2. SpotsIn(rep, P) = SpotsIn(old, P) \o <<>>
    <3>1. SpotsIn(Append(old, r), P) =
            SpotsIn(old, P) \o (IF n + 1 \in P THEN r.spots ELSE <<>>)
      BY SpotsInAppend
    <3> QED
      BY <1>1, <2>1, <3>1, Zenon
  <2>3. SpotsIn(old, P) \in Seq(Spots)
    BY SpotsInType
  <2> QED
    BY <2>2, <2>3, ConcatEmptySeq
<1>4. SpotsIn(rep, Q) = SpotsIn(old, Q) \o r.spots
  <2>1. n + 1 \in Q
    BY <1>2
  <2> HIDE DEF Q
  <2> QED
    BY <1>1, <2>1, SpotsInAppend
<1>5. SpotsIn(old, Q) = SpotsIn(old, P)
  <2>1. \A i \in 1 .. n : i \in Q <=> i \in P
    BY <1>2
  <2> HIDE DEF Q
  <2>2. [i \in 1 .. n |-> IF i \in Q THEN old[i].spots ELSE <<>>]
          = [i \in 1 .. n |-> IF i \in P THEN old[i].spots ELSE <<>>]
    BY <2>1
  <2> QED
    BY <2>2 DEF SpotsIn
<1> QED
  BY <1>2, <1>3, <1>4, <1>5

LEMMA LineType ==
  ASSUME NEW spot \in Spots
  PROVE  /\ Line(spot) \in Seq(Pieces) /\ Len(Line(spot)) = 3
         /\ Line(spot)[1] = <<spot, "head">> /\ Line(spot)[2] = <<spot, "tail">>
         /\ Line(spot)[3] = Newline
<1>1. <<spot, "head">> \in Pieces /\ <<spot, "tail">> \in Pieces /\ Newline \in Pieces
  BY DEF Pieces
<1> QED
  BY <1>1 DEF Line

\* One more spot adds its line.
LEMMA LinesAppend ==
  ASSUME NEW all \in Seq(Spots), NEW x \in Spots
  PROVE  Lines(Append(all, x)) = Lines(all) \o Line(x)
<1> DEFINE n == Len(all)
           a == Append(all, x)
           g == [i \in 1 .. n |-> Line(all[i])]
           f == [i \in 1 .. n + 1 |-> Line(a[i])]
<1>1. /\ n \in Nat /\ \A i \in 1 .. n : all[i] \in Spots
      /\ a \in Seq(Spots) /\ Len(a) = n + 1
      /\ \A i \in 1 .. n : a[i] = all[i]
      /\ a[n + 1] = x
  BY LenProperties, AppendProperties
<1> HIDE DEF a
<1>2. \A i \in 1 .. n + 1 : a[i] \in Spots
  BY <1>1, LenProperties
<1>3. \A y \in Spots : Line(y) \in Seq(Pieces)
  BY LineType
<1>4. f \in [1 .. n + 1 -> Seq(Pieces)] /\ g \in [1 .. n -> Seq(Pieces)]
  <2>1. f \in [1 .. n + 1 -> Seq(Pieces)]
    BY <1>2, <1>3
  <2>2. g \in [1 .. n -> Seq(Pieces)]
    BY <1>1, <1>3
  <2> QED
    BY <2>1, <2>2
<1>5. \A i \in 1 .. n : f[i] = g[i]
  BY <1>1
<1>6. n \in Nat /\ f[n + 1] = Line(x)
  BY <1>1
<1>7. FlattenSeq(f) = Lines(a) /\ FlattenSeq(g) = Lines(all)
  BY <1>1 DEF Lines
<1> HIDE DEF f, g
<1>8. /\ f \in Seq(Seq(Pieces)) /\ g \in Seq(Seq(Pieces))
      /\ f[n + 1] \in Seq(Pieces) /\ f = Append(g, f[n + 1])
  <2> HIDE DEF n
  <2>1. n \in Nat
    BY <1>6
  <2> QED
    BY <1>4, <1>5, <2>1, LastApart
<1>9. FlattenSeq(Append(g, f[n + 1])) = FlattenSeq(g) \o f[n + 1]
  BY <1>8, FlattenSeqAppend
<1> QED
  BY <1>6, <1>7, <1>8, <1>9 DEF a

\* What is in front of a sequence, and behind it.
LEMMA ConcatParts ==
  ASSUME NEW S, NEW s \in Seq(S), NEW t \in Seq(S)
  PROVE  IsPrefix(s, s \o t) /\ IsSuffix(t, s \o t)
<1>1. /\ Len(s) \in Nat /\ Len(t) \in Nat
      /\ s \o t \in Seq(S) /\ Len(s \o t) = Len(s) + Len(t)
      /\ \A i \in 1 .. Len(s) + Len(t) :
           (s \o t)[i] = IF i <= Len(s) THEN s[i] ELSE t[i - Len(s)]
  BY LenProperties, ConcatProperties
<1> DEFINE c == s \o t
<1> HIDE DEF c
<1>2. IsPrefix(s, c)
  <2>1. c \in Seq(S) /\ Len(s) <= Len(c) /\ \A i \in 1 .. Len(s) : s[i] = c[i]
    BY <1>1 DEF c
  <2> QED
    BY <2>1, PrefixIs
<1>3. IsSuffix(t, c)
  <2>1. ASSUME NEW i \in 1 .. Len(t)
        PROVE  t[i] = c[Len(c) - Len(t) + i]
    <3>1. Len(c) - Len(t) + i = Len(s) + i /\ ~ (Len(s) + i <= Len(s))
      BY <1>1 DEF c
    <3>2. Len(s) + i \in 1 .. Len(s) + Len(t) /\ (Len(s) + i) - Len(s) = i
      BY <1>1
    <3>3. c[Len(s) + i] = t[(Len(s) + i) - Len(s)]
      BY <1>1, <3>1, <3>2 DEF c
    <3> QED
      BY <3>1, <3>2, <3>3
  <2>2. c \in Seq(S) /\ Len(t) <= Len(c)
    BY <1>1 DEF c
  <2> QED
    BY <2>1, <2>2, SuffixIs
<1> QED
  BY <1>2, <1>3 DEF c

\* The head of the second part goes over to the first.
LEMMA MoveHead ==
  ASSUME NEW S, NEW s \in Seq(S), NEW t \in Seq(S), t # <<>>
  PROVE  /\ Head(t) \in S /\ Tail(t) \in Seq(S)
         /\ Append(s, Head(t)) \in Seq(S)
         /\ s \o t = Append(s, Head(t)) \o Tail(t)
         /\ (s \o t)[Len(s) + 1] = Head(t)
<1> DEFINE h == <<Head(t)>>
<1>1. /\ Head(t) \in S /\ Tail(t) \in Seq(S) /\ Len(t) \in Nat \ {0}
      /\ Len(Tail(t)) = Len(t) - 1
      /\ \A i \in 1 .. Len(Tail(t)) : Tail(t)[i] = t[i + 1]
      /\ Head(t) = t[1]
  <2>1. Len(t) \in Nat \ {0}
    BY LenProperties, EmptySeq
  <2> QED
    BY <2>1, HeadTailProperties
<1>2. /\ Len(s) \in Nat
      /\ Append(s, Head(t)) \in Seq(S) /\ Len(Append(s, Head(t))) = Len(s) + 1
      /\ \A i \in 1 .. Len(s) : Append(s, Head(t))[i] = s[i]
      /\ Append(s, Head(t))[Len(s) + 1] = Head(t)
  BY <1>1, LenProperties, AppendProperties
<1> DEFINE c == s \o t
           a == Append(s, Head(t))
           d == a \o Tail(t)
<1>3. /\ c \in Seq(S) /\ Len(c) = Len(s) + Len(t)
      /\ \A i \in 1 .. Len(s) + Len(t) : c[i] = IF i <= Len(s) THEN s[i] ELSE t[i - Len(s)]
  BY ConcatProperties
<1>4. /\ d \in Seq(S) /\ Len(d) = Len(s) + Len(t)
      /\ \A i \in 1 .. Len(s) + Len(t) :
           d[i] = IF i <= Len(s) + 1 THEN a[i] ELSE Tail(t)[i - (Len(s) + 1)]
  <2>1. /\ d \in Seq(S) /\ Len(d) = Len(a) + Len(Tail(t))
        /\ \A i \in 1 .. Len(a) + Len(Tail(t)) :
             d[i] = IF i <= Len(a) THEN a[i] ELSE Tail(t)[i - Len(a)]
    BY <1>1, <1>2, ConcatProperties
  <2>2. Len(a) = Len(s) + 1 /\ Len(a) + Len(Tail(t)) = Len(s) + Len(t)
    BY <1>1, <1>2
  <2> QED
    BY <2>1, <2>2
<1> HIDE DEF a, c, d
<1>5. ASSUME NEW i \in 1 .. Len(s) + Len(t) PROVE c[i] = d[i]
  <2>1. CASE i <= Len(s)
    <3>1. i \in 1 .. Len(s) /\ i <= Len(s) + 1
      BY <1>2, <2>1
    <3>2. c[i] = s[i] /\ d[i] = a[i]
      BY <1>3, <1>4, <2>1, <3>1
    <3>3. a[i] = s[i]
      BY <1>2, <3>1 DEF a
    <3> QED
      BY <3>2, <3>3
  <2>2. CASE i = Len(s) + 1
    <3>1. ~ (i <= Len(s)) /\ i - Len(s) = 1
      BY <1>2, <2>2
    <3> QED
      BY <1>1, <1>2, <1>3, <1>4, <2>2, <3>1 DEF a
  <2>3. CASE i > Len(s) + 1
    <3> DEFINE j == i - (Len(s) + 1)
    <3>1. j \in 1 .. Len(Tail(t)) /\ j + 1 = i - Len(s)
      BY <1>1, <1>2, <2>3
    <3>2. ~ (i <= Len(s)) /\ ~ (i <= Len(s) + 1)
      BY <1>2, <2>3
    <3>3. c[i] = t[i - Len(s)] /\ d[i] = Tail(t)[j]
      BY <1>3, <1>4, <3>2
    <3>4. Tail(t)[j] = t[j + 1]
      BY <1>1, <3>1
    <3> QED
      BY <3>1, <3>3, <3>4
  <2> QED
    BY <1>2, <2>1, <2>2, <2>3
<1>6. c = d
  BY <1>3, <1>4, <1>5, SeqEqual
<1>7. c[Len(s) + 1] = Head(t)
  <2>1. Len(s) + 1 \in 1 .. Len(s) + Len(t) /\ ~ (Len(s) + 1 <= Len(s)) /\ (Len(s) + 1) - Len(s) = 1
    BY <1>1, <1>2
  <2>2. c[Len(s) + 1] = t[(Len(s) + 1) - Len(s)]
    BY <1>3, <2>1
  <2> QED
    BY <1>1, <2>1, <2>2
<1> QED
  BY <1>1, <1>2, <1>6, <1>7 DEF a, c, d

-----------------------------------------------------------------------------
(* The inductive invariant. *)

Busy == pc \in {"writing", "inserting"}

\* The result in hand: what is written and what is to write make it up, and
\* the insert is a part from its start.
Hands ==
  /\ todo \in Seq(Spots) /\ insert \in Seq(Spots)
  /\ \E written \in Seq(Spots) : result = written \o todo
  /\ \E rest \in Seq(Spots) : result = insert \o rest
  /\ pc # "writing" => todo = <<>>
  /\ pc # "inserting" => insert = <<>>

\* It is the last one reported, and a failed decode brings no spots.
Reports ==
  /\ Busy => reported # <<>> /\ reported[Len(reported)].spots = result
  /\ \A i \in 1 .. Len(spot_chan) : spot_chan[i].ok \/ spot_chan[i].spots = <<>>

\* The batches in the table; the result in hand is not one of them.
Batches == \E places \in SUBSET (1 .. Len(reported)) :
             table = SpotsIn(reported, places) /\ (Busy => Len(reported) \notin places)

\* Without a fault the program has not died and the configured file is open.
Healthy == faults = 0 => /\ pc # "crashed"
                         /\ has_file /\ pc # "opening" => out_file

\* The results that are through: all but the one in hand.
Before == IF Busy THEN 1 .. Len(reported) - 1 ELSE 1 .. Len(reported)

Agree ==
  faults = 0 =>
    /\ has_ch => table = SpotsIn(reported, Before)
    /\ has_file =>
         IF Busy THEN \E written \in Seq(Spots) :
                        result = written \o todo /\ file = Lines(SpotsIn(reported, Before) \o written)
                 ELSE file = Lines(SpotsIn(reported, Before))

\* A line left in part, at the end of the file, has not done its damage yet.
Dirty == IF file = <<>> \/ file[Len(file)] = Newline THEN 0 ELSE 1
Spoilt == {s \in acked : ~Readable(s)}
Damage == IsFiniteSet(acked) /\ Cardinality(Spoilt) + Dirty <= torn

IInv == /\ TypeOK /\ Hands /\ Reports /\ Batches /\ Healthy /\ Agree /\ Damage

LEMMA InitIInv == Init => IInv
<1> SUFFICES ASSUME Init PROVE IInv
  OBVIOUS
<1> USE DEF Init
<1>1. <<>> \in Seq(Spots) /\ <<>> \o <<>> = <<>>
  <2>1. <<>> \in Seq(Spots)
    BY EmptySeq
  <2> QED
    BY <2>1, ConcatEmptySeq
<1>2. IsPrefix(<<>>, <<>>) /\ IsSuffix(<<>>, <<>>)
  <2>1. /\ IsPrefix(<<>>, <<>> \o <<>>) /\ IsSuffix(<<>>, <<>> \o <<>>)
    BY <1>1, ConcatParts
  <2> QED
    BY <1>1, <2>1
<1>3. SpotsIn(<<>>, {}) = <<>> /\ SpotsIn(<<>>, 1 .. 0) = <<>> /\ Lines(<<>>) = <<>>
  <2>1. [i \in 1 .. 0 |-> IF i \in {} THEN <<>>[i].spots ELSE <<>>] = <<>>
    OBVIOUS
  <2>2. [i \in 1 .. 0 |-> IF i \in 1 .. 0 THEN <<>>[i].spots ELSE <<>>] = <<>>
    OBVIOUS
  <2>3. [i \in 1 .. 0 |-> Line(<<>>[i])] = <<>>
    OBVIOUS
  <2>4. Len(<<>>) = 0
    OBVIOUS
  <2> QED
    BY <2>1, <2>2, <2>3, <2>4 DEF SpotsIn, Lines, FlattenSeq
<1>4. TypeOK
  <2>1. /\ win_chan \in Seq(Windows) /\ Len(win_chan) <= WindowChanCap
        /\ spot_chan \in Seq(Results) /\ reported \in Seq(Results)
        /\ file \in Seq(Pieces)
    BY DecodeAssumption
  <2>2. /\ torn \in 0 .. faults /\ faults \in 0 .. MaxFaults
        /\ decoding \subseteq Windows /\ acked \subseteq Spots /\ to_seal \subseteq Windows
    BY DecodeAssumption
  <2>3. /\ result \in Seq(Spots) /\ IsSuffix(todo, result) /\ IsPrefix(insert, result)
        /\ table \in Seq(Spots)
    BY <1>1, <1>2
  <2>4. /\ has_file \in BOOLEAN /\ has_ch \in BOOLEAN
        /\ closed \in BOOLEAN /\ told \in BOOLEAN
        /\ pc \in {"opening", "select", "writing", "inserting", "flushing", "done",
                  "crashed"}
        /\ out_file \in BOOLEAN /\ (out_file => has_file)
    OBVIOUS
  <2> QED
    BY <2>1, <2>2, <2>3, <2>4 DEF TypeOK
<1>5. Hands
  BY <1>1 DEF Hands
<1>6. Reports
  BY DEF Reports, Busy
<1>7. Batches
  BY <1>3 DEF Batches, Busy
<1>8. Healthy
  BY DEF Healthy
<1>9. Agree
  <2>1. Before = 1 .. 0 /\ ~Busy
    BY DEF Before, Busy
  <2> QED
    BY <1>3, <2>1 DEF Agree
<1>10. Damage
  <2>1. Spoilt = {} /\ Dirty = 0
    BY DEF Spoilt, Dirty
  <2> QED
    BY <2>1, FS_EmptySet DEF Damage
<1> QED
  BY <1>4, <1>5, <1>6, <1>7, <1>8, <1>9, <1>10 DEF IInv

-----------------------------------------------------------------------------
(* The steps. *)

\* A step that leaves the result in hand and the outputs alone.
Quiet == /\ UNCHANGED <<config_vars, handler_vars, output_vars, reported>>
         /\ pc = "writing" <=> pc' = "writing"
         /\ pc = "inserting" <=> pc' = "inserting"

LEMMA StepKinds ==
  ASSUME [Next]_vars
  PROVE  \/ Quiet
         \/ TakeResult \/ WriteSpot \/ BeginInsert \/ InsertRow \/ EndInsert
         \/ Crash
<1> USE DEF Quiet, config_vars, handler_vars, output_vars
<1>1. CASE UNCHANGED vars
  BY <1>1 DEF vars
<1>2. CASE \E w \in Windows : SealWindow(w) \/ DecodeOk(w) \/ DecodeFails(w)
  BY <1>2 DEF SealWindow, DecodeOk, DecodeFails, SendResult, Fault
<1>3. CASE CloseWindows \/ CtrlC \/ OpenFile \/ Stop \/ Take \/ WindowsClosed
  BY <1>3 DEF CloseWindows, CtrlC, OpenFile, Stop, Take, WindowsClosed, Fault
<1>4. CASE Finish \/ Restart
  BY <1>4 DEF Finish, Restart
<1> QED
  BY <1>1, <1>2, <1>3, <1>4 DEF Next

\* Faults are counted and no step takes one back.
LEMMA StepFaults ==
  ASSUME TypeOK, [Next]_vars
  PROVE  /\ faults' \in 0 .. MaxFaults /\ faults <= faults'
         /\ faults' = 0 => faults = 0
<1>1. \/ UNCHANGED faults
      \/ faults < MaxFaults /\ faults' = faults + 1
  BY DEF Next, vars, SealWindow, DecodeOk, DecodeFails, SendResult, Fault, CloseWindows,
     CtrlC, OpenFile, Stop, Take, WindowsClosed, TakeResult, WriteSpot, BeginInsert,
     InsertRow, EndInsert, Finish, Crash, Restart
<1> QED
  BY <1>1, DecodeAssumption DEF TypeOK

LEMMA StepHealthy ==
  ASSUME TypeOK, Healthy, [Next]_vars
  PROVE  Healthy'
<1> SUFFICES ASSUME faults' = 0
             PROVE  /\ pc' # "crashed"
                    /\ has_file' /\ pc' # "opening" => out_file'
  BY DEF Healthy
<1>1. faults = 0 /\ pc # "crashed" /\ (has_file /\ pc # "opening" => out_file)
  BY StepFaults DEF Healthy
<1>2. ~Fault
  BY <1>1 DEF Fault
<1> USE DEF config_vars
<1>3. CASE UNCHANGED vars
  BY <1>1, <1>3 DEF vars
<1>4. CASE \E w \in Windows : SealWindow(w) \/ DecodeOk(w) \/ DecodeFails(w)
  <2>1. UNCHANGED <<pc, out_file, has_file>>
    BY <1>4 DEF SealWindow, DecodeOk, DecodeFails, SendResult
  <2> QED
    BY <1>1, <2>1
<1>5. CASE CloseWindows \/ CtrlC \/ OpenFile \/ Stop \/ Take \/ WindowsClosed
  BY <1>1, <1>2, <1>5 DEF CloseWindows, CtrlC, OpenFile, Stop, Take, WindowsClosed
<1>6. CASE TakeResult \/ WriteSpot
  BY <1>1, <1>6 DEF TakeResult, WriteSpot
<1>7. CASE BeginInsert \/ InsertRow \/ EndInsert
  BY <1>1, <1>7 DEF BeginInsert, InsertRow, EndInsert
<1>8. CASE Finish \/ Crash \/ Restart
  BY <1>1, <1>2, <1>8 DEF Finish, Crash, Restart
<1> QED
  BY <1>3, <1>4, <1>5, <1>6, <1>7, <1>8 DEF Next

LEMMA StepHands ==
  ASSUME TypeOK, Hands, [Next]_vars
  PROVE  Hands' /\ result' \in Seq(Spots)
<1>1. /\ result \in Seq(Spots) /\ todo \in Seq(Spots) /\ insert \in Seq(Spots)
      /\ spot_chan \in Seq(Results)
  BY DEF TypeOK, Hands
<1>2. PICK written \in Seq(Spots), rest \in Seq(Spots) :
        result = written \o todo /\ result = insert \o rest
  BY DEF Hands
<1>3. /\ pc # "writing" => todo = <<>>
      /\ pc # "inserting" => insert = <<>>
  BY DEF Hands
<1>4. /\ <<>> \in Seq(Spots)
      /\ \A x \in Seq(Spots) : x = <<>> \o x /\ x = x \o <<>>
  BY EmptySeq, ConcatEmptySeq
<1>5. CASE Quiet
  BY <1>1, <1>2, <1>3, <1>5 DEF Quiet, handler_vars, Hands
<1>6. CASE TakeResult
  <2> USE <1>6 DEF TakeResult
  <2>1. Head(spot_chan) \in Results /\ Head(spot_chan).spots \in Seq(Spots)
    <3>1. Head(spot_chan) \in Results
      BY <1>1, HeadTailProperties
    <3> QED
      BY <3>1 DEF Results
  <2>2. pc = "select" /\ insert' = <<>> /\ todo = <<>>
    BY <1>3
  <2>3. CASE Head(spot_chan).ok
    <3> DEFINE x == Head(spot_chan).spots
    <3>1. result' = x /\ todo' = x /\ pc' = "writing"
      BY <2>3
    <3>2. x \in Seq(Spots)
      BY <2>1
    <3> HIDE DEF x, TakeResult
    <3> QED
      BY <1>4, <2>2, <3>1, <3>2 DEF Hands
  <2>4. CASE ~Head(spot_chan).ok
    <3>1. UNCHANGED <<result, todo, pc>>
      BY <2>4
    <3> QED
      BY <1>1, <1>2, <1>4, <2>2, <3>1 DEF Hands
  <2> QED
    BY <2>3, <2>4
<1>7. CASE WriteSpot
  <2>1. /\ pc = "writing" /\ todo # <<>> /\ todo' = Tail(todo)
        /\ UNCHANGED <<pc, result, insert>>
    BY <1>7 DEF WriteSpot
  <2>2. /\ Tail(todo) \in Seq(Spots) /\ Append(written, Head(todo)) \in Seq(Spots)
        /\ written \o todo = Append(written, Head(todo)) \o Tail(todo)
    BY <1>1, <2>1, MoveHead
  <2> QED
    BY <1>1, <1>2, <1>3, <2>1, <2>2 DEF Hands
<1>8. CASE BeginInsert
  <2>1. /\ todo = <<>> /\ pc' \in {"inserting", "select"} /\ insert' = <<>>
        /\ UNCHANGED <<result, todo>>
    BY <1>8 DEF BeginInsert
  <2> QED
    BY <1>1, <1>2, <1>4, <2>1 DEF Hands
<1>9. CASE InsertRow
  <2>1. pc = "inserting" /\ Len(insert) < Len(result) /\ UNCHANGED <<result, todo>>
    BY <1>9 DEF InsertRow
  <2>2. todo = <<>>
    BY <1>3, <2>1
  <2>3. CASE insert' = Append(insert, result[Len(insert) + 1]) /\ UNCHANGED pc
    <3>1. rest # <<>>
      <4>1. Len(result) = Len(insert) + Len(rest) /\ Len(insert) \in Nat
        BY <1>1, <1>2, ConcatProperties, LenProperties
      <4> QED
        BY <2>1, <4>1
    <3>2. /\ Tail(rest) \in Seq(Spots) /\ Append(insert, Head(rest)) \in Seq(Spots)
          /\ insert \o rest = Append(insert, Head(rest)) \o Tail(rest)
          /\ (insert \o rest)[Len(insert) + 1] = Head(rest)
      BY <1>1, <3>1, MoveHead, SMTT(30)
    <3>3. insert' = Append(insert, Head(rest)) /\ result' = insert' \o Tail(rest)
      BY <1>2, <2>1, <2>3, <3>2
    <3> QED
      BY <1>1, <1>2, <2>1, <2>2, <2>3, <3>2, <3>3 DEF Hands
  <2>4. CASE insert' = <<>> /\ pc' = "select"
    BY <1>1, <1>2, <1>4, <2>1, <2>2, <2>4 DEF Hands
  <2> QED
    BY <1>9, <2>3, <2>4 DEF InsertRow
<1>10. CASE EndInsert
  <2>1. /\ pc = "inserting" /\ insert' = <<>> /\ pc' = "select"
        /\ UNCHANGED <<result, todo>>
    BY <1>10 DEF EndInsert
  <2> QED
    BY <1>1, <1>2, <1>3, <1>4, <2>1 DEF Hands
<1>11. CASE Crash
  <2>1. todo' = <<>> /\ insert' = <<>> /\ result' = <<>> /\ pc' = "crashed"
    BY <1>11 DEF Crash
  <2>2. <<>> = <<>> \o <<>>
    BY <1>4
  <2> QED
    BY <1>4, <2>1, <2>2 DEF Hands
<1> QED
  BY <1>5, <1>6, <1>7, <1>8, <1>9, <1>10, <1>11, StepKinds

\* The windows on their way in, and the switches.
LEMMA StepInput ==
  ASSUME TypeOK, [Next]_vars
  PROVE  /\ has_file' \in BOOLEAN /\ has_ch' \in BOOLEAN
         /\ closed' \in BOOLEAN /\ told' \in BOOLEAN /\ out_file' \in BOOLEAN
         /\ out_file' => has_file'
         /\ pc' \in {"opening", "select", "writing", "inserting", "flushing", "done",
                     "crashed"}
         /\ to_seal' \subseteq Windows /\ decoding' \subseteq Windows
         /\ win_chan' \in Seq(Windows) /\ Len(win_chan') <= WindowChanCap
<1> USE DEF TypeOK, config_vars, input_vars, decode_vars
<1>0. <<>> \in Seq(Windows) /\ Len(<<>>) <= WindowChanCap
  BY EmptySeq, DecodeAssumption
<1>10. /\ closed \in BOOLEAN /\ told \in BOOLEAN
       /\ has_file \in BOOLEAN /\ out_file \in BOOLEAN /\ (out_file => has_file)
  OBVIOUS
<1>1. CASE UNCHANGED vars
  BY <1>1 DEF vars
<1>2. ASSUME NEW w \in Windows, SealWindow(w)
      PROVE  win_chan' \in Seq(Windows) /\ Len(win_chan') <= WindowChanCap
  <2>1. /\ Append(win_chan, w) \in Seq(Windows)
        /\ Len(Append(win_chan, w)) = Len(win_chan) + 1
    BY AppendProperties
  <2>2. Len(win_chan) \in Nat /\ Len(win_chan) < WindowChanCap
    BY <1>2, LenProperties DEF SealWindow
  <2>3. win_chan' = IF pc = "done" THEN win_chan ELSE Append(win_chan, w)
    BY <1>2 DEF SealWindow
  <2> QED
    BY <2>1, <2>2, <2>3, DecodeAssumption
<1>3. CASE \E w \in Windows : SealWindow(w)
  BY <1>2, <1>3 DEF SealWindow
<1>4. CASE \E w \in Windows : DecodeOk(w) \/ DecodeFails(w)
  <2>1. /\ UNCHANGED <<has_file, has_ch, closed, told, out_file, pc, to_seal, win_chan>>
        /\ decoding' \subseteq decoding
    BY <1>4 DEF DecodeOk, DecodeFails, SendResult
  <2> QED
    BY <2>1
<1>5. CASE Take
  <2>1. Head(win_chan) \in Windows /\ Tail(win_chan) \in Seq(Windows)
        /\ Len(Tail(win_chan)) = Len(win_chan) - 1 /\ Len(win_chan) \in Nat
    BY <1>5, HeadTailProperties, LenProperties DEF Take
  <2>2. /\ UNCHANGED <<has_file, has_ch, closed, told, out_file, pc, to_seal>>
        /\ win_chan' = Tail(win_chan) /\ decoding' = decoding \cup {Head(win_chan)}
    BY <1>5 DEF Take
  <2> QED
    BY <2>1, <2>2, DecodeAssumption
<1>6. CASE CloseWindows \/ CtrlC \/ OpenFile \/ Stop \/ WindowsClosed
  <2>1. /\ UNCHANGED <<has_file, has_ch, to_seal, win_chan, decoding>>
        /\ pc' \in {pc, "select", "flushing"}
    BY <1>6 DEF CloseWindows, CtrlC, OpenFile, Stop, WindowsClosed
  <2>2. /\ closed' = closed \/ closed' = TRUE
        /\ told' = told \/ told' = TRUE
        /\ out_file' = out_file \/ out_file' = has_file \/ out_file' = FALSE
    BY <1>6 DEF CloseWindows, CtrlC, OpenFile, Stop, WindowsClosed
  <2>3. closed' \in BOOLEAN /\ told' \in BOOLEAN
    <3> HIDE DEF TypeOK
    <3> QED
      BY <1>10, <2>2
  <2>4. out_file' \in BOOLEAN /\ (out_file' => has_file')
    <3> HIDE DEF TypeOK
    <3>1. CASE out_file' = out_file
      BY <1>10, <2>1, <3>1
    <3>2. CASE out_file' = FALSE
      BY <3>2
    <3>3. CASE out_file' = has_file
      BY <1>10, <2>1, <3>3
    <3> QED
      BY <2>2, <3>1, <3>2, <3>3
  <2> QED
    BY <2>1, <2>3, <2>4
<1>7. CASE TakeResult \/ WriteSpot
  <2>1. /\ UNCHANGED <<has_file, has_ch, closed, told, out_file, to_seal, win_chan, decoding>>
        /\ pc' \in {"select", "writing"}
    BY <1>7 DEF TakeResult, WriteSpot
  <2> QED
    BY <2>1
<1>8. CASE BeginInsert \/ InsertRow \/ EndInsert
  <2>1. /\ UNCHANGED <<has_file, has_ch, closed, told, out_file, to_seal, win_chan, decoding>>
        /\ pc' \in {"select", "inserting"}
    BY <1>8 DEF BeginInsert, InsertRow, EndInsert
  <2> QED
    BY <2>1
<1>9. CASE Finish \/ Crash \/ Restart
  <2>1. /\ UNCHANGED <<has_file, has_ch, to_seal>>
        /\ decoding' = decoding \/ decoding' = {}
        /\ win_chan' = win_chan \/ win_chan' = <<>>
        /\ pc' \in {"done", "crashed", "opening"}
    BY <1>9 DEF Finish, Crash, Restart
  <2>2. /\ closed' = closed \/ closed' = FALSE
        /\ told' = told \/ told' = FALSE
        /\ out_file' = out_file \/ out_file' = FALSE
    BY <1>9 DEF Finish, Crash, Restart
  <2>3. closed' \in BOOLEAN /\ told' \in BOOLEAN
    <3> HIDE DEF TypeOK
    <3> QED
      BY <1>10, <2>2
  <2>4. out_file' \in BOOLEAN /\ (out_file' => has_file')
    <3> HIDE DEF TypeOK
    <3>1. CASE out_file' = out_file
      BY <1>10, <2>1, <3>1
    <3>2. CASE out_file' = FALSE
      BY <3>2
    <3>3. CASE out_file' = has_file
      BY <1>10, <2>1, <3>3
    <3> QED
      BY <2>2, <3>1, <3>2, <3>3
  <2> QED
    BY <1>0, <2>1, <2>3, <2>4
<1> QED
  BY <1>1, <1>3, <1>4, <1>5, <1>6, <1>7, <1>8, <1>9 DEF Next

\* The results: sent with no spots for a failed decode, and taken in order.
LEMMA SendTyped ==
  ASSUME NEW w \in Windows, TypeOK, DecodeOk(w) \/ DecodeFails(w)
  PROVE  \E r \in Results : /\ r.ok \/ r.spots = <<>>
                            /\ spot_chan' \in {spot_chan, Append(spot_chan, r)}
<1>1. CASE DecodeOk(w)
  <2>1. PICK n \in 0 .. MaxSpots : SendResult(w, TRUE, SpotsOf(w, n))
    BY <1>1 DEF DecodeOk
  <2> DEFINE r == [window |-> w, ok |-> TRUE, spots |-> SpotsOf(w, n)]
  <2>2. SpotsOf(w, n) \in Seq(Spots)
    <3>1. n \in Nat /\ \A i \in 1 .. n : <<w, i>> \in Spots
      BY DecodeAssumption DEF Spots
    <3>2. SpotsOf(w, n) \in [1 .. n -> Spots]
      BY <3>1 DEF SpotsOf
    <3> QED
      BY <3>1, <3>2, IsASeq
  <2>3. r \in Results /\ r.ok
    BY <2>2 DEF Results
  <2>4. spot_chan' \in {spot_chan, Append(spot_chan, r)}
    BY <2>1 DEF SendResult
  <2> HIDE DEF r
  <2> QED
    BY <2>3, <2>4
<1>2. CASE DecodeFails(w)
  <2> DEFINE r == [window |-> w, ok |-> FALSE, spots |-> <<>>]
  <2>1. r \in Results /\ r.spots = <<>>
    BY EmptySeq DEF Results
  <2>2. spot_chan' \in {spot_chan, Append(spot_chan, r)}
    BY <1>2 DEF DecodeFails, SendResult
  <2> HIDE DEF r
  <2> QED
    BY <2>1, <2>2
<1> QED
  BY <1>1, <1>2

LEMMA StepReports ==
  ASSUME TypeOK, Reports, Hands, [Next]_vars
  PROVE  spot_chan' \in Seq(Results) /\ reported' \in Seq(Results) /\ Reports'
<1>1. /\ spot_chan \in Seq(Results) /\ reported \in Seq(Results)
      /\ \A i \in 1 .. Len(spot_chan) : spot_chan[i].ok \/ spot_chan[i].spots = <<>>
      /\ Busy => reported # <<>> /\ reported[Len(reported)].spots = result
  BY DEF TypeOK, Reports
<1>2. /\ spot_chan' \in Seq(Results)
      /\ \A i \in 1 .. Len(spot_chan') : spot_chan'[i].ok \/ spot_chan'[i].spots = <<>>
  <2>1. CASE \E w \in Windows : DecodeOk(w) \/ DecodeFails(w)
    <3>1. PICK r \in Results : /\ r.ok \/ r.spots = <<>>
                               /\ spot_chan' \in {spot_chan, Append(spot_chan, r)}
      BY <2>1, SendTyped
    <3> DEFINE a == Append(spot_chan, r)
    <3>2. /\ a \in Seq(Results) /\ Len(a) = Len(spot_chan) + 1
          /\ \A i \in 1 .. Len(spot_chan) : a[i] = spot_chan[i]
          /\ a[Len(spot_chan) + 1] = r /\ Len(spot_chan) \in Nat
      BY <1>1, AppendProperties, LenProperties
    <3> HIDE DEF a
    <3>3. \A i \in 1 .. Len(a) : a[i].ok \/ a[i].spots = <<>>
      <4> TAKE i \in 1 .. Len(a)
      <4>1. CASE i = Len(spot_chan) + 1
        BY <3>1, <3>2, <4>1
      <4>2. CASE i # Len(spot_chan) + 1
        <5>1. i \in 1 .. Len(spot_chan)
          BY <3>2, <4>2
        <5> QED
          BY <1>1, <3>2, <5>1
      <4> QED
        BY <4>1, <4>2
    <3>4. spot_chan' = spot_chan \/ spot_chan' = a
      BY <3>1 DEF a
    <3> QED
      BY <1>1, <3>2, <3>3, <3>4
  <2>2. CASE TakeResult
    <3>1. spot_chan # <<>> /\ spot_chan' = Tail(spot_chan)
      BY <2>2 DEF TakeResult
    <3>2. /\ Tail(spot_chan) \in Seq(Results) /\ Len(Tail(spot_chan)) = Len(spot_chan) - 1
          /\ \A i \in 1 .. Len(Tail(spot_chan)) : Tail(spot_chan)[i] = spot_chan[i + 1]
          /\ Len(spot_chan) \in Nat
      BY <1>1, <3>1, HeadTailProperties, LenProperties
    <3>3. \A i \in 1 .. Len(spot_chan) - 1 : i + 1 \in 1 .. Len(spot_chan)
      BY <3>2
    <3> QED
      BY <1>1, <3>1, <3>2, <3>3
  <2>3. CASE spot_chan' \in {spot_chan, <<>>}
    <3>1. <<>> \in Seq(Results) /\ 1 .. Len(<<>>) = {}
      BY EmptySeq
    <3> QED
      BY <1>1, <2>3, <3>1
  <2>4. CASE \E w \in Windows : SealWindow(w)
    BY <2>3, <2>4 DEF SealWindow, decode_vars
  <2>5. CASE UNCHANGED vars \/ CloseWindows \/ CtrlC \/ OpenFile \/ Stop \/ Take \/ WindowsClosed
    BY <2>3, <2>5 DEF vars, CloseWindows, CtrlC, OpenFile, Stop, Take, WindowsClosed, decode_vars
  <2>6. CASE WriteSpot \/ BeginInsert \/ InsertRow \/ EndInsert \/ Finish \/ Crash \/ Restart
    BY <2>3, <2>6 DEF WriteSpot, BeginInsert, InsertRow, EndInsert, Finish, Crash, Restart,
       decode_vars
  <2> QED
    BY <2>1, <2>2, <2>4, <2>5, <2>6 DEF Next
<1>3. /\ reported' \in Seq(Results)
      /\ Busy' => reported' # <<>> /\ reported'[Len(reported')].spots = result'
  <2>1. CASE Quiet
    BY <1>1, <2>1 DEF Quiet, handler_vars, Busy
  <2>2. CASE TakeResult
    <3> DEFINE r == Head(spot_chan)
               a == Append(reported, r)
    <3>1. r \in Results
      BY <1>1, <2>2, HeadTailProperties DEF TakeResult
    <3>2. /\ pc = "select" /\ reported' = a
          /\ r.ok => result' = r.spots
          /\ ~r.ok => pc' = pc
      BY <2>2 DEF TakeResult
    <3> HIDE DEF r
    <3>3. /\ a \in Seq(Results) /\ Len(a) = Len(reported) + 1 /\ a # <<>>
          /\ a[Len(reported) + 1] = r
      BY <1>1, <3>1, AppendProperties
    <3> HIDE DEF a
    <3> QED
      BY <3>2, <3>3 DEF Busy
  <2>3. CASE WriteSpot \/ BeginInsert \/ InsertRow \/ EndInsert
    <3>1. Busy /\ UNCHANGED <<reported, result>>
      BY <2>3 DEF WriteSpot, BeginInsert, InsertRow, EndInsert, Busy
    <3> QED
      BY <1>1, <3>1
  <2>4. CASE Crash
    <3>1. UNCHANGED reported /\ ~Busy'
      BY <2>4 DEF Crash, Busy
    <3> QED
      BY <1>1, <3>1
  <2> QED
    BY <2>1, <2>2, <2>3, <2>4, StepKinds
<1> QED
  BY <1>2, <1>3 DEF Reports

\* The table: one more batch, or as it was.
LEMMA StepBatches ==
  ASSUME TypeOK, Hands, Reports, Batches, [Next]_vars
  PROVE  Batches' /\ table' \in Seq(Spots)
<1>1. PICK P \in SUBSET (1 .. Len(reported)) :
        table = SpotsIn(reported, P) /\ (Busy => Len(reported) \notin P)
  BY DEF Batches
<1>2. reported \in Seq(Results) /\ Len(reported) \in Nat /\ spot_chan \in Seq(Results)
  BY LenProperties DEF TypeOK
<1>3. \A Q \in SUBSET (1 .. Len(reported')) :
        table' = SpotsIn(reported', Q) /\ (Busy' => Len(reported') \notin Q) => Batches'
  BY DEF Batches
<1>4. \A Q : SpotsIn(reported, Q) \in Seq(Spots)
  BY <1>2, SpotsInType
<1>5. CASE Busy /\ table' = table \o result /\ UNCHANGED reported /\ ~Busy'
  <2> DEFINE Q == P \cup {Len(reported)}
  <2>1. /\ reported # <<>> /\ Len(reported) # 0
        /\ reported[Len(reported)].spots = result
    BY <1>2, <1>5, EmptySeq DEF Reports
  <2>2. P \in SUBSET (1 .. Len(reported) - 1)
    BY <1>1, <1>2, <1>5
  <2>3. SpotsIn(reported, Q) = SpotsIn(reported, P) \o result
    BY <1>2, <2>1, <2>2, SpotsLast
  <2>4. Q \in SUBSET (1 .. Len(reported))
    <3>1. Len(reported) \in 1 .. Len(reported)
      BY <1>2, <2>1
    <3> QED
      BY <3>1
  <2> HIDE DEF Q
  <2>5. table' = SpotsIn(reported, Q)
    BY <1>1, <1>5, <2>3
  <2> QED
    BY <1>3, <1>4, <1>5, <2>4, <2>5
<1>6. CASE UNCHANGED <<table, reported>> /\ (Busy' => Busy)
  BY <1>1, <1>3, <1>4, <1>6
<1>7. CASE Quiet
  BY <1>6, <1>7 DEF Quiet, output_vars, Busy
<1>8. CASE TakeResult
  <2> DEFINE r == Head(spot_chan)
  <2>1. r \in Results
    BY <1>2, <1>8, HeadTailProperties DEF TakeResult
  <2>2. UNCHANGED table /\ reported' = Append(reported, r)
    BY <1>8 DEF TakeResult, output_vars
  <2> HIDE DEF r
  <2>3. Len(reported') = Len(reported) + 1
    BY <1>2, <2>1, <2>2, AppendProperties
  <2>4. Len(reported) + 1 \notin P
    BY <1>1, <1>2
  <2>5. SpotsIn(Append(reported, r), P) = SpotsIn(reported, P) \o <<>>
    BY <1>2, <2>1, <2>4, SpotsInAppend
  <2>6. table' = SpotsIn(reported', P)
    BY <1>1, <1>4, <2>2, <2>5, ConcatEmptySeq
  <2>7. P \in SUBSET (1 .. Len(reported'))
    BY <1>1, <1>2, <2>3
  <2> QED
    BY <1>1, <1>3, <1>4, <2>2, <2>3, <2>4, <2>6, <2>7
<1>9. CASE WriteSpot \/ BeginInsert \/ InsertRow
  <2>1. UNCHANGED <<table, reported>> /\ Busy
    BY <1>9 DEF WriteSpot, BeginInsert, InsertRow, output_vars, Busy
  <2> QED
    BY <1>6, <2>1
<1>10. CASE EndInsert
  <2>1. /\ Busy /\ ~Busy' /\ UNCHANGED reported
        /\ table' = table \o result \/ table' = table
    BY <1>10 DEF EndInsert, Busy
  <2> QED
    BY <1>5, <1>6, <2>1
<1>11. CASE Crash
  <2>1. /\ ~Busy' /\ UNCHANGED reported
        /\ (Busy /\ table' = table \o result) \/ table' = table
    BY <1>11 DEF Crash, Busy, output_vars
  <2> QED
    BY <1>5, <1>6, <2>1
<1> QED
  BY <1>7, <1>8, <1>9, <1>10, <1>11, StepKinds

\* Without a fault: each output takes up one batch, one line at a time.
LEMMA StepAgree ==
  ASSUME TypeOK, Hands, Reports, Healthy, Agree, [Next]_vars
  PROVE  Agree'
<1> SUFFICES ASSUME faults' = 0
             PROVE  /\ has_ch' => table' = SpotsIn(reported', Before')
                    /\ has_file' =>
                         IF Busy' THEN \E written \in Seq(Spots) :
                                         /\ result' = written \o todo'
                                         /\ file' = Lines(SpotsIn(reported', Before') \o written)
                                  ELSE file' = Lines(SpotsIn(reported', Before'))
  BY DEF Agree
<1>1. /\ faults = 0 /\ ~Fault
      /\ has_ch => table = SpotsIn(reported, Before)
      /\ has_file =>
           IF Busy THEN \E written \in Seq(Spots) :
                          /\ result = written \o todo
                          /\ file = Lines(SpotsIn(reported, Before) \o written)
                   ELSE file = Lines(SpotsIn(reported, Before))
  BY StepFaults DEF Agree, Fault
<1>2. /\ reported \in Seq(Results) /\ Len(reported) \in Nat /\ spot_chan \in Seq(Results)
      /\ result \in Seq(Spots) /\ todo \in Seq(Spots)
  BY LenProperties DEF TypeOK, Hands
<1>3. \A Q : SpotsIn(reported, Q) \in Seq(Spots)
  BY <1>2, SpotsInType
<1>4. UNCHANGED <<has_file, has_ch>>
  BY DEF Next, vars, config_vars, SealWindow, DecodeOk, DecodeFails, SendResult,
     CloseWindows, CtrlC, OpenFile, Stop, Take, WindowsClosed, TakeResult, WriteSpot,
     BeginInsert, InsertRow, EndInsert, Finish, Crash, Restart
<1>5. ASSUME Busy
      PROVE  SpotsIn(reported, 1 .. Len(reported)) = SpotsIn(reported, Before) \o result
  <2>1. reported # <<>> /\ Len(reported) # 0 /\ reported[Len(reported)].spots = result
    BY <1>2, <1>5, EmptySeq DEF Reports
  <2>2. /\ Before \in SUBSET (1 .. Len(reported) - 1)
        /\ Before \cup {Len(reported)} = 1 .. Len(reported)
    BY <1>2, <1>5, <2>1 DEF Before
  <2> QED
    BY <1>2, <2>1, <2>2, SpotsLast
<1>6. CASE Quiet
  <2>1. /\ UNCHANGED <<result, todo, file, table, reported>>
        /\ Busy' <=> Busy
    BY <1>6 DEF Quiet, handler_vars, output_vars, Busy
  <2>2. Before' = Before
    BY <2>1 DEF Before
  <2> QED
    BY <1>1, <1>4, <2>1, <2>2
<1>7. CASE TakeResult
  <2> DEFINE r == Head(spot_chan)
             n == Len(reported)
  <2>1. /\ pc = "select" /\ ~Busy /\ UNCHANGED <<table, file>>
        /\ reported' = Append(reported, r) /\ spot_chan # <<>>
        /\ r.ok => result' = r.spots /\ todo' = r.spots /\ pc' = "writing"
        /\ ~r.ok => UNCHANGED <<result, todo, pc>>
    BY <1>7 DEF TakeResult, output_vars, Busy
  <2>2. r \in Results /\ (r.ok \/ r.spots = <<>>)
    <3>1. Len(spot_chan) \in Nat /\ Len(spot_chan) # 0 /\ Head(spot_chan) = spot_chan[1]
      BY <1>2, <2>1, LenProperties, EmptySeq
    <3> QED
      BY <1>2, <2>1, <3>1, HeadTailProperties DEF Reports
  <2>3. r.spots \in Seq(Spots)
    BY <2>2 DEF Results
  <2> HIDE DEF r
  <2>4. Len(reported') = n + 1 /\ n \in Nat
    BY <1>2, <2>1, <2>2, AppendProperties
  <2>5. /\ SpotsIn(reported', 1 .. n) = SpotsIn(reported, 1 .. n)
        /\ SpotsIn(reported', 1 .. n + 1) = SpotsIn(reported, 1 .. n) \o r.spots
    <3>1. /\ SpotsIn(reported', 1 .. n) = SpotsIn(reported, 1 .. n) \o <<>>
          /\ SpotsIn(reported', 1 .. n + 1) = SpotsIn(reported, 1 .. n + 1) \o r.spots
      <4>1. n + 1 \notin 1 .. n /\ n + 1 \in 1 .. n + 1
        BY <2>4
      <4> QED
        <5>1. reported' = Append(reported, r) /\ reported \in Seq(Results) /\ n = Len(reported)
          BY <1>2, <2>1
        <5>2. \A P : SpotsIn(reported', P) =
                       SpotsIn(reported, P) \o (IF n + 1 \in P THEN r.spots ELSE <<>>)
          BY <2>2, <5>1, SpotsInAppend
        <5> QED
          BY <4>1, <5>2, Zenon
    <3>2. SpotsIn(reported, 1 .. n + 1) = SpotsIn(reported, 1 .. n)
      <4>1. \A i \in 1 .. n : i \in 1 .. n + 1
        BY <2>4
      <4>2. [i \in 1 .. n |-> IF i \in 1 .. n + 1 THEN reported[i].spots ELSE <<>>]
              = [i \in 1 .. n |-> IF i \in 1 .. n THEN reported[i].spots ELSE <<>>]
        BY <4>1
      <4> QED
        BY <4>2 DEF SpotsIn
    <3> QED
      BY <1>3, <3>1, <3>2, ConcatEmptySeq
  <2>6. Before = 1 .. n
    BY <2>1 DEF Before
  <2>7. CASE r.ok
    <3>1. Busy' /\ Before' = 1 .. n
      <4>1. (n + 1) - 1 = n
        BY <2>4
      <4> QED
        BY <2>1, <2>4, <2>7, <4>1 DEF Before, Busy
    <3>2. <<>> \in Seq(Spots) /\ result' = <<>> \o todo'
      BY <2>1, <2>3, <2>7, EmptySeq, ConcatEmptySeq
    <3>3. SpotsIn(reported', Before') \o <<>> = SpotsIn(reported, Before)
      BY <1>3, <2>5, <2>6, <3>1, ConcatEmptySeq
    <3> QED
      BY <1>1, <1>4, <2>1, <2>5, <2>6, <3>1, <3>2, <3>3
  <2>8. CASE ~r.ok
    <3>1. ~Busy' /\ Before' = 1 .. n + 1
      BY <2>1, <2>4, <2>8 DEF Before, Busy
    <3>2. SpotsIn(reported', Before') = SpotsIn(reported, Before)
      BY <1>3, <2>2, <2>5, <2>6, <2>8, <3>1, ConcatEmptySeq
    <3> QED
      BY <1>1, <1>4, <2>1, <3>1, <3>2
  <2> QED
    BY <2>7, <2>8
<1>8. CASE WriteSpot
  <2>1. /\ pc = "writing" /\ Busy /\ Busy' /\ todo # <<>> /\ todo' = Tail(todo)
        /\ UNCHANGED <<result, table, reported>>
    BY <1>8 DEF WriteSpot, Busy
  <2>2. Before' = Before
    BY <2>1 DEF Before
  <2>3. ASSUME has_file
        PROVE  \E written \in Seq(Spots) :
                 /\ result' = written \o todo'
                 /\ file' = Lines(SpotsIn(reported, Before) \o written)
    <3>1. PICK written \in Seq(Spots) :
            /\ result = written \o todo
            /\ file = Lines(SpotsIn(reported, Before) \o written)
      BY <1>1, <2>1, <2>3
    <3>2. out_file
      BY <1>1, <2>1, <2>3 DEF Healthy
    <3>3. file' = file \o Line(Head(todo))
      BY <1>1, <1>8, <3>2 DEF WriteSpot
    <3> DEFINE more == Append(written, Head(todo))
               all == SpotsIn(reported, Before)
    <3>4. /\ Head(todo) \in Spots /\ Tail(todo) \in Seq(Spots) /\ more \in Seq(Spots)
          /\ written \o todo = more \o Tail(todo)
      BY <1>2, <2>1, MoveHead
    <3>5. all \in Seq(Spots) /\ all \o written \in Seq(Spots)
      BY <1>3, ConcatProperties
    <3>6. all \o more = Append(all \o written, Head(todo))
      <4>1. <<Head(todo)>> \in Seq(Spots) /\ more = written \o <<Head(todo)>>
        BY <3>4, AppendIsConcat
      <4>2. (all \o written) \o <<Head(todo)>> = all \o (written \o <<Head(todo)>>)
        BY <3>5, <4>1, ConcatAssociative
      <4>3. Append(all \o written, Head(todo)) = (all \o written) \o <<Head(todo)>>
        BY <3>4, <3>5, AppendIsConcat
      <4> QED
        BY <4>1, <4>2, <4>3
    <3>7. Lines(Append(all \o written, Head(todo))) = Lines(all \o written) \o Line(Head(todo))
      BY <3>4, <3>5, LinesAppend
    <3> QED
      BY <2>1, <3>1, <3>3, <3>4, <3>6, <3>7
  <2> QED
    BY <1>1, <1>4, <2>1, <2>2, <2>3
<1>9. CASE (BeginInsert \/ InsertRow) /\ Busy'
  <2>1. Busy /\ UNCHANGED <<result, todo, file, table, reported>>
    BY <1>9 DEF BeginInsert, InsertRow, output_vars, Busy
  <2>2. Before' = Before
    BY <1>9, <2>1 DEF Before
  <2> QED
    BY <1>1, <1>4, <1>9, <2>1, <2>2
<1>10. CASE Busy /\ ~Busy' /\ UNCHANGED <<reported, file>> /\ todo = <<>>
            /\ (has_ch => table' = table \o result)
  <2>1. Before' = 1 .. Len(reported)
    BY <1>10 DEF Before
  <2>2. SpotsIn(reported', Before') = SpotsIn(reported, Before) \o result
    BY <1>5, <1>10, <2>1
  <2>3. ASSUME has_file PROVE file' = Lines(SpotsIn(reported', Before'))
    <3>1. PICK written \in Seq(Spots) :
            /\ result = written \o todo
            /\ file = Lines(SpotsIn(reported, Before) \o written)
      BY <1>1, <1>10, <2>3
    <3>2. written = result
      BY <1>10, <3>1, ConcatEmptySeq
    <3> QED
      BY <1>10, <2>2, <3>1, <3>2
  <2> QED
    BY <1>1, <1>4, <1>10, <2>2, <2>3
<1>11. CASE (BeginInsert \/ InsertRow) /\ ~Busy'
  <2>1. BeginInsert
    BY <1>1, <1>11 DEF InsertRow, Busy
  <2>2. /\ Busy /\ UNCHANGED <<reported, file, table>> /\ todo = <<>>
        /\ ~ (has_ch /\ result # <<>>)
    BY <1>1, <1>11, <2>1 DEF BeginInsert, output_vars, Busy
  <2>3. has_ch => table' = table \o result
    BY <1>1, <1>3, <2>2, ConcatEmptySeq
  <2> QED
    BY <1>10, <1>11, <2>2, <2>3
<1>12. CASE EndInsert
  <2>1. /\ Busy /\ ~Busy' /\ UNCHANGED <<reported, file>> /\ pc # "writing"
        /\ table' = table \o result
    BY <1>1, <1>12 DEF EndInsert, Busy
  <2>2. todo = <<>>
    BY <2>1 DEF Hands
  <2> QED
    BY <1>10, <2>1, <2>2
<1>13. CASE Crash
  BY <1>1, <1>13 DEF Crash
<1> QED
  BY <1>6, <1>7, <1>8, <1>9, <1>11, <1>12, <1>13, StepKinds

\* What was readable stays so when the file grows.
LEMMA StillReadable ==
  ASSUME NEW p \in Seq(Pieces), TypeOK, file' = file \o p, NEW spot, Readable(spot)
  PROVE  Readable(spot)'
<1>1. PICK i \in 1 .. Len(file) - 2 :
        /\ i = 1 \/ file[i - 1] = Newline
        /\ file[i] = <<spot, "head">> /\ file[i + 1] = <<spot, "tail">>
        /\ file[i + 2] = Newline
  BY DEF Readable
<1>2. /\ Len(file) \in Nat /\ Len(p) \in Nat /\ Len(file') = Len(file) + Len(p)
      /\ \A j \in 1 .. Len(file) + Len(p) :
           file'[j] = IF j <= Len(file) THEN file[j] ELSE p[j - Len(file)]
  BY ConcatProperties, LenProperties DEF TypeOK
<1>3. \A j \in 1 .. Len(file) : file'[j] = file[j]
  BY <1>2
<1>4. /\ i \in 1 .. Len(file) /\ i + 1 \in 1 .. Len(file) /\ i + 2 \in 1 .. Len(file)
      /\ i # 1 => i - 1 \in 1 .. Len(file)
      /\ i \in 1 .. Len(file') - 2
  BY <1>2
<1>5. /\ i = 1 \/ file'[i - 1] = Newline
      /\ file'[i] = <<spot, "head">> /\ file'[i + 1] = <<spot, "tail">>
      /\ file'[i + 2] = Newline
  BY <1>1, <1>3, <1>4
<1> QED
  BY <1>4, <1>5 DEF Readable

\* A line behind the end of another one is readable.
LEMMA LineReadable ==
  ASSUME NEW spot \in Spots, TypeOK, file' = file \o Line(spot)
  PROVE  /\ file' \in Seq(Pieces) /\ Dirty' = 0
         /\ Dirty = 0 => Readable(spot)'
<1> DEFINE p == Line(spot)
<1>1. /\ p \in Seq(Pieces) /\ Len(p) = 3
      /\ p[1] = <<spot, "head">> /\ p[2] = <<spot, "tail">> /\ p[3] = Newline
  BY LineType
<1> HIDE DEF p
<1>2. /\ Len(file) \in Nat /\ file' \in Seq(Pieces) /\ Len(file') = Len(file) + 3
      /\ \A j \in 1 .. Len(file) + 3 :
           file'[j] = IF j <= Len(file) THEN file[j] ELSE p[j - Len(file)]
  <2>1. /\ file' \in Seq(Pieces) /\ Len(file') = Len(file) + Len(p)
        /\ \A j \in 1 .. Len(file) + Len(p) :
             file'[j] = IF j <= Len(file) THEN file[j] ELSE p[j - Len(file)]
    BY <1>1, ConcatProperties DEF TypeOK, p
  <2>2. Len(file) \in Nat
    BY LenProperties DEF TypeOK
  <2> QED
    BY <1>1, <2>1, <2>2
<1> DEFINE n == Len(file)
<1>3. /\ file'[n + 1] = p[1] /\ file'[n + 2] = p[2] /\ file'[n + 3] = p[3]
      /\ n # 0 => file'[n] = file[n]
  <2>1. /\ n + 1 \in 1 .. n + 3 /\ n + 2 \in 1 .. n + 3 /\ n + 3 \in 1 .. n + 3
        /\ (n + 1) - n = 1 /\ (n + 2) - n = 2 /\ (n + 3) - n = 3
        /\ n # 0 => n \in 1 .. n + 3
    BY <1>2
  <2> HIDE DEF n
  <2>2. n \in Nat /\ \A j \in 1 .. n + 3 :
                       file'[j] = IF j <= n THEN file[j] ELSE p[j - n]
    BY <1>2 DEF n
  <2>3. file'[n + 1] = p[1]
    <3>1. ~ (n + 1 <= n)
      BY <2>2
    <3>2. file'[n + 1] = p[(n + 1) - n]
      BY <2>1, <2>2, <3>1
    <3> QED
      BY <2>1, <3>2
  <2>4. file'[n + 2] = p[2]
    <3>1. ~ (n + 2 <= n)
      BY <2>2
    <3>2. file'[n + 2] = p[(n + 2) - n]
      BY <2>1, <2>2, <3>1
    <3> QED
      BY <2>1, <3>2
  <2>5. file'[n + 3] = p[3]
    <3>1. ~ (n + 3 <= n)
      BY <2>2
    <3>2. file'[n + 3] = p[(n + 3) - n]
      BY <2>1, <2>2, <3>1
    <3> QED
      BY <2>1, <3>2
  <2>6. ASSUME n # 0 PROVE file'[n] = file[n]
    <3>1. n \in 1 .. n + 3 /\ n <= n
      BY <2>1, <2>2, <2>6
    <3> QED
      BY <2>2, <3>1
  <2> QED
    BY <2>3, <2>4, <2>5, <2>6
<1>4. Dirty' = 0
  BY <1>1, <1>2, <1>3 DEF Dirty
<1>5. ASSUME Dirty = 0 PROVE Readable(spot)'
  <2>1. n # 0 => file[n] = Newline
    BY <1>5, EmptySeq DEF Dirty, TypeOK
  <2>2. /\ n + 1 = 1 \/ file'[(n + 1) - 1] = Newline
        /\ file'[n + 1] = <<spot, "head">> /\ file'[(n + 1) + 1] = <<spot, "tail">>
        /\ file'[(n + 1) + 2] = Newline
    <3>1. (n + 1) - 1 = n /\ (n + 1) + 1 = n + 2 /\ (n + 1) + 2 = n + 3 /\ n \in Nat
      BY <1>2
    <3> HIDE DEF n
    <3>2. n + 1 = 1 \/ file'[n] = Newline
      <4>1. CASE n = 0
        BY <4>1
      <4>2. CASE n # 0
        BY <1>3, <2>1, <4>2
      <4> QED
        BY <4>1, <4>2
    <3>3. /\ file'[n + 1] = <<spot, "head">> /\ file'[n + 2] = <<spot, "tail">>
          /\ file'[n + 3] = Newline
      BY <1>1, <1>3
    <3> QED
      BY <3>1, <3>2, <3>3
  <2>3. n + 1 \in 1 .. Len(file') - 2
    BY <1>2
  <2> HIDE DEF n
  <2> QED
    BY <2>2, <2>3 DEF Readable
<1> QED
  BY <1>2, <1>4, <1>5

LEMMA PartialType ==
  ASSUME NEW spot \in Spots, NEW p \in Partial(spot)
  PROVE  p \in Seq(Pieces) /\ Len(p) \in 0 .. 2 /\ (p = <<>> <=> Len(p) = 0)
<1>1. PICK n \in 0 .. 2 : p = SubSeq(Line(spot), 1, n)
  BY DEF Partial
<1>2. \A i \in 1 .. n : Line(spot)[i] \in Pieces
  <2>1. \A i \in 1 .. n : i \in 1 .. 3
    OBVIOUS
  <2> QED
    BY <2>1, LineType, LenProperties
<1>3. p \in Seq(Pieces) /\ Len(p) = IF 1 <= n THEN n - 1 + 1 ELSE 0
  BY <1>1, <1>2, SubSeqProperties
<1> QED
  BY <1>3, EmptySeq

\* The spots a step can spoil: none, or the one it acknowledges.
LEMMA SpoiltCounts ==
  ASSUME NEW A, NEW B, IsFiniteSet(A), B \subseteq A
  PROVE  IsFiniteSet(B) /\ Cardinality(B) \in Nat /\ Cardinality(A) \in Nat
         /\ Cardinality(B) <= Cardinality(A)
BY FS_Subset, FS_CardinalityType

LEMMA StepDamage ==
  ASSUME TypeOK, Hands, Damage, [Next]_vars
  PROVE  /\ Damage' /\ file' \in Seq(Pieces) /\ acked' \subseteq Spots
         /\ torn' \in 0 .. faults'
<1>1. /\ IsFiniteSet(acked) /\ Cardinality(Spoilt) + Dirty <= torn
      /\ file \in Seq(Pieces) /\ acked \subseteq Spots
      /\ torn \in 0 .. faults /\ faults \in Nat /\ Dirty \in {0, 1}
      /\ todo \in Seq(Spots)
  BY DecodeAssumption DEF Damage, TypeOK, Dirty, Hands
<1>2. IsFiniteSet(Spoilt) /\ Cardinality(Spoilt) \in Nat
  <2>1. Spoilt \subseteq acked
    BY DEF Spoilt
  <2> QED
    BY <1>1, <2>1, SpoiltCounts
<1>3. faults' \in Nat /\ faults <= faults'
  BY StepFaults, DecodeAssumption
<1>4. Dirty' \in {0, 1}
  BY DEF Dirty
\* The file grows, and no spot is acknowledged.
<1>5. ASSUME NEW p \in Seq(Pieces), file' = file \o p, UNCHANGED acked
      PROVE  Cardinality(Spoilt') \in Nat /\ Cardinality(Spoilt') <= Cardinality(Spoilt)
  <2>1. \A s \in acked : Readable(s) => Readable(s)'
    BY <1>5, StillReadable
  <2>2. Spoilt' \subseteq Spoilt
    BY <1>5, <2>1 DEF Spoilt
  <2> QED
    BY <1>2, <2>2, SpoiltCounts
<1>6. CASE UNCHANGED <<file, acked, torn>>
  <2>1. Spoilt' = Spoilt /\ Dirty' = Dirty
    BY <1>6 DEF Spoilt, Dirty, Readable
  <2> QED
    BY <1>1, <1>2, <1>3, <1>6, <2>1 DEF Damage
\* Part of a line, counted.
<1>7. ASSUME NEW spot \in Spots, NEW p \in Partial(spot), UNCHANGED acked,
             file' = file \o p, torn' = torn + (IF p = <<>> THEN 0 ELSE 1),
             faults' = faults + 1
      PROVE  /\ Damage' /\ file' \in Seq(Pieces) /\ acked' \subseteq Spots
             /\ torn' \in 0 .. faults'
  <2>1. p \in Seq(Pieces)
    BY PartialType
  <2>2. file' \in Seq(Pieces)
    BY <1>1, <1>7, <2>1, ConcatProperties
  <2>3. Cardinality(Spoilt') \in Nat /\ Cardinality(Spoilt') <= Cardinality(Spoilt)
    BY <1>5, <1>7, <2>1
  <2>4. torn' \in Nat /\ torn' <= faults'
    BY <1>1, <1>7
  <2>5. p = <<>> => Dirty' = Dirty /\ torn' = torn
    <3>1. p = <<>> => file' = file
      BY <1>1, <1>7, ConcatEmptySeq
    <3> QED
      BY <1>1, <1>7, <3>1 DEF Dirty
  <2>6. p # <<>> => torn' = torn + 1
    BY <1>7
  <2>7. Cardinality(Spoilt') + Dirty' <= torn'
    BY <1>1, <1>2, <1>4, <2>3, <2>5, <2>6
  <2> QED
    BY <1>1, <1>7, <2>2, <2>4, <2>7 DEF Damage
<1>8. CASE Quiet
  BY <1>6, <1>8 DEF Quiet, output_vars
<1>9. CASE WriteSpot
  <2>1. PICK spot \in Spots : spot = Head(todo)
    BY <1>1, <1>9, HeadTailProperties DEF WriteSpot
  <2>2. CASE file' = file \o Line(spot) /\ acked' = acked \cup {spot} /\ UNCHANGED torn
    <3>1. file' \in Seq(Pieces) /\ Dirty' = 0 /\ (Dirty = 0 => Readable(spot)')
      BY <2>1, <2>2, LineReadable
    <3>2. \A s \in acked : Readable(s) => Readable(s)'
      BY <2>1, <2>2, LineType, StillReadable
    <3>3. Spoilt' \subseteq Spoilt \cup {spot} /\ (Dirty = 0 => Spoilt' \subseteq Spoilt)
      BY <2>2, <3>1, <3>2 DEF Spoilt
    <3>4. /\ IsFiniteSet(Spoilt \cup {spot})
          /\ Cardinality(Spoilt \cup {spot}) <= Cardinality(Spoilt) + 1
          /\ Cardinality(Spoilt \cup {spot}) \in Nat
      <4>1. /\ IsFiniteSet(Spoilt \cup {spot})
            /\ Cardinality(Spoilt \cup {spot}) =
                 IF spot \in Spoilt THEN Cardinality(Spoilt) ELSE Cardinality(Spoilt) + 1
        BY <1>2, FS_AddElement
      <4> QED
        BY <1>2, <4>1
    <3>5. Cardinality(Spoilt') \in Nat /\ Cardinality(Spoilt') <= Cardinality(Spoilt) + 1
      <4>1. /\ Cardinality(Spoilt') \in Nat
            /\ Cardinality(Spoilt') <= Cardinality(Spoilt \cup {spot})
        BY <3>3, <3>4, SpoiltCounts
      <4> QED
        BY <1>2, <3>4, <4>1
    <3>6. Dirty = 0 => Cardinality(Spoilt') <= Cardinality(Spoilt)
      BY <1>2, <3>3, SpoiltCounts
    <3>7. Cardinality(Spoilt') + Dirty' <= torn'
      BY <1>1, <1>2, <2>2, <3>1, <3>5, <3>6
    <3>8. IsFiniteSet(acked') /\ acked' \subseteq Spots
      BY <1>1, <2>1, <2>2, FS_AddElement
    <3> QED
      BY <1>1, <1>3, <2>2, <3>1, <3>7, <3>8 DEF Damage
  <2>3. CASE /\ Fault /\ UNCHANGED acked
             /\ \E p \in Partial(spot) :
                  file' = file \o p /\ torn' = torn + (IF p = <<>> THEN 0 ELSE 1)
    BY <1>7, <2>1, <2>3 DEF Fault
  <2> QED
    BY <1>6, <1>9, <2>1, <2>2, <2>3 DEF WriteSpot
<1>10. CASE TakeResult \/ BeginInsert \/ InsertRow \/ EndInsert
  BY <1>6, <1>10 DEF TakeResult, BeginInsert, InsertRow, EndInsert, output_vars
<1>11. CASE Crash
  <2>1. Fault
    BY <1>11 DEF Crash
  <2>2. CASE /\ todo # <<>> /\ UNCHANGED acked
             /\ \E p \in Partial(Head(todo)) \cup {Line(Head(todo))} :
                  /\ file' = file \o p
                  /\ torn' = torn + (IF Len(p) \in {1, 2} THEN 1 ELSE 0)
    <3>1. PICK spot \in Spots : spot = Head(todo)
      BY <1>1, <2>2, HeadTailProperties
    <3>2. PICK p \in Partial(spot) \cup {Line(spot)} :
            /\ file' = file \o p
            /\ torn' = torn + (IF Len(p) \in {1, 2} THEN 1 ELSE 0)
      BY <2>2, <3>1
    <3>3. CASE p \in Partial(spot)
      <4>1. Len(p) \in 0 .. 2 /\ (p = <<>> <=> Len(p) = 0)
        BY <3>1, <3>3, PartialType
      <4>2. torn' = torn + (IF p = <<>> THEN 0 ELSE 1)
        <5>1. Len(p) \in {1, 2} <=> p # <<>>
          BY <4>1
        <5> QED
          BY <3>2, <5>1
      <4> QED
        BY <1>7, <2>1, <2>2, <3>1, <3>2, <3>3, <4>2 DEF Fault
    <3>4. CASE p = Line(spot)
      <4>1. p \in Seq(Pieces) /\ Len(p) = 3
        BY <3>1, <3>4, LineType
      <4>2. torn' = torn
        BY <1>1, <3>2, <4>1
      <4>3. file' \in Seq(Pieces) /\ Dirty' = 0
        BY <3>1, <3>2, <3>4, LineReadable
      <4>4. Cardinality(Spoilt') \in Nat /\ Cardinality(Spoilt') <= Cardinality(Spoilt)
        BY <1>5, <2>2, <3>2, <4>1
      <4> QED
        BY <1>1, <1>2, <1>3, <2>2, <4>2, <4>3, <4>4 DEF Damage
    <3> QED
      BY <3>2, <3>3, <3>4
  <2> QED
    BY <1>6, <1>11, <2>2 DEF Crash, output_vars
<1> QED
  BY <1>8, <1>9, <1>10, <1>11, StepKinds

LEMMA StepType ==
  ASSUME IInv, [Next]_vars
  PROVE  TypeOK'
<1>1. Hands' /\ result' \in Seq(Spots)
  BY StepHands DEF IInv
<1>2. IsSuffix(todo', result') /\ IsPrefix(insert', result')
  <2>1. todo' \in Seq(Spots) /\ insert' \in Seq(Spots)
    BY <1>1 DEF Hands
  <2>2. PICK written \in Seq(Spots), rest \in Seq(Spots) :
          result' = written \o todo' /\ result' = insert' \o rest
    BY <1>1 DEF Hands
  <2>3. IsSuffix(todo', written \o todo') /\ IsPrefix(insert', insert' \o rest)
    BY <2>1, ConcatParts
  <2> QED
    BY <2>2, <2>3
<1>3. /\ spot_chan' \in Seq(Results) /\ reported' \in Seq(Results)
      /\ table' \in Seq(Spots)
  BY StepReports, StepBatches DEF IInv
<1>4. /\ file' \in Seq(Pieces) /\ acked' \subseteq Spots /\ torn' \in 0 .. faults'
      /\ faults' \in 0 .. MaxFaults
  BY StepDamage, StepFaults DEF IInv
<1>5. /\ has_file' \in BOOLEAN /\ has_ch' \in BOOLEAN
      /\ closed' \in BOOLEAN /\ told' \in BOOLEAN /\ out_file' \in BOOLEAN
      /\ out_file' => has_file'
      /\ pc' \in {"opening", "select", "writing", "inserting", "flushing", "done",
                  "crashed"}
      /\ to_seal' \subseteq Windows /\ decoding' \subseteq Windows
      /\ win_chan' \in Seq(Windows) /\ Len(win_chan') <= WindowChanCap
  BY StepInput DEF IInv
<1> QED
  BY <1>1, <1>2, <1>3, <1>4, <1>5 DEF TypeOK

LEMMA NextIInv == IInv /\ [Next]_vars => IInv'
<1> SUFFICES ASSUME IInv, [Next]_vars PROVE IInv'
  OBVIOUS
<1>1. TypeOK'
  BY StepType
<1>2. TypeOK /\ Hands /\ Reports /\ Batches /\ Healthy /\ Agree /\ Damage
  BY DEF IInv
<1>3. Hands' /\ Reports' /\ Batches' /\ Healthy' /\ Agree' /\ Damage'
  BY <1>2, StepHands, StepReports, StepBatches, StepHealthy, StepAgree, StepDamage
<1> QED
  BY <1>1, <1>3 DEF IInv

LEMMA AlwaysIInv == Spec => []IInv
<1>1. Init => IInv
  BY InitIInv
<1>2. IInv /\ [Next]_vars => IInv'
  BY NextIInv
<1> QED
  BY <1>1, <1>2, PTL DEF Spec

-----------------------------------------------------------------------------
(* The theorems. *)

\* Every variable of decode_task has its type: what is still to be written is
\* the end of the result in hand, what was sent to ClickHouse its beginning,
\* and no fault leaves more than one line in part (main.rs:583-792).
THEOREM TypeCorrect == Spec => []TypeOK
<1>1. IInv => TypeOK
  BY DEF IInv
<1> QED
  BY <1>1, AlwaysIInv, PTL

\* The table is the spots of some of the results, whole and in their order,
\* whatever fails: the insert in hand never repeats one that is committed
\* (insert_spots_ch, main.rs:739-767).
THEOREM TableIsBatchesCorrect == Spec => []TableIsBatches
<1>1. IInv => TableIsBatches
  BY DEF IInv, Batches, TableIsBatches, SpotsAt, SpotsIn
<1> QED
  BY <1>1, AlwaysIInv, PTL

\* Where nothing failed, the file and the table both hold every spot that
\* decode_task took, in order, whenever it is between two results or has
\* stopped (main.rs:583-677).
THEOREM OutputsAgreeCorrect == Spec => []OutputsAgree
<1>1. IInv => OutputsAgree
  <2> SUFFICES ASSUME IInv, faults = 0, pc \in {"select", "flushing", "done"}
               PROVE  /\ has_ch => table = SpotsAt(1 .. Len(reported))
                      /\ has_file => file = Lines(SpotsAt(1 .. Len(reported)))
    BY DEF OutputsAgree, Lines
  <2>1. ~Busy /\ Before = 1 .. Len(reported)
    BY DEF Busy, Before
  <2>2. SpotsAt(1 .. Len(reported)) = SpotsIn(reported, 1 .. Len(reported))
    BY DEF SpotsAt, SpotsIn
  <2> QED
    BY <2>1, <2>2 DEF IInv, Agree
<1> QED
  BY <1>1, AlwaysIInv, PTL

\* No more acknowledged spots are unreadable than lines were left in part:
\* each of them costs the file at most the line behind it (write_spot,
\* main.rs:772-792).
THEOREM DamageContainedCorrect == Spec => []DamageContained
<1>1. IInv => DamageContained
  <2> SUFFICES ASSUME IInv PROVE Cardinality(Spoilt) <= torn
    BY DEF DamageContained, Spoilt
  <2>1. IsFiniteSet(acked) /\ Cardinality(Spoilt) + Dirty <= torn /\ torn \in Nat
    BY DecodeAssumption DEF IInv, Damage, TypeOK
  <2>2. Spoilt \subseteq acked
    BY DEF Spoilt
  <2>3. Cardinality(Spoilt) \in Nat
    BY <2>1, <2>2, SpoiltCounts
  <2>4. Dirty \in {0, 1}
    BY DEF Dirty
  <2> QED
    BY <2>1, <2>3, <2>4
<1> QED
  BY <1>1, AlwaysIInv, PTL
=============================================================================
