--------------------------- MODULE Formats_proofs ---------------------------
(***************************************************************************)
(* Proofs about Formats: what the code makes of a status packet, an RTP    *)
(* packet, a line and a window is right for every input, of any length and *)
(* cut anywhere.                                                           *)
(***************************************************************************)
EXTENDS Formats, RecursionTheorems, FiniteSetTheorems

\* The numbers that bytes are, as a set of its own for the prover.
Num == Nat

\* The first n elements of d.
IsCut(d, n, buf) == n \in 0 .. Len(d) /\ buf = SubSeq(d, 1, n)

LEMMA CutIs ==
  ASSUME NEW S, NEW d \in Seq(S), NEW n, NEW buf, IsCut(d, n, buf)
  PROVE  /\ buf \in Seq(S) /\ Len(buf) = n /\ n \in Nat /\ n <= Len(d) /\ Len(d) \in Nat
         /\ \A i \in 1 .. n : buf[i] = d[i]
<1>1. n \in 0 .. Len(d) /\ buf = SubSeq(d, 1, n) /\ Len(d) \in Nat
  BY LenProperties DEF IsCut
<1> QED
  BY <1>1, CutInTwo

-----------------------------------------------------------------------------
(* Inputs *)

\* An input is a sequence of the parts that its kind is made of.
Typed ==
  /\ kind \in {"status", "cmd"} => input \in Seq(FieldSet)
  /\ kind = "txt" => input \in Seq(Lines)
  /\ kind = "file" => input \in Seq(FileLines)
  /\ kind = "wav" => input \in Seq(SampleSet)
  /\ kind = "rtp" => \E r \in RtpInputs : input = <<r>>

LEMMA InitTyped == Init => Typed
BY EmptySeq DEF Init, Typed

LEMMA NextTyped == Typed /\ [Next]_vars => Typed'
<1> SUFFICES ASSUME Typed, [Next]_vars PROVE Typed'
  OBVIOUS
<1> HIDE DEF Lines, RtpInputs
<1>1. CASE AddField
  BY <1>1, AppendProperties DEF Typed, AddField
<1>2. CASE AddLine
  BY <1>2, AppendProperties DEF Typed, AddLine
<1>3. CASE AddFileLine
  BY <1>3, AppendProperties DEF Typed, AddFileLine
<1>4. CASE AddSample
  BY <1>4, AppendProperties DEF Typed, AddSample
<1>5. CASE UNCHANGED vars
  BY <1>5 DEF Typed, vars
<1> QED
  BY <1>1, <1>2, <1>3, <1>4, <1>5 DEF Next

\* Every input the model builds is one.
THEOREM TypeCorrect == Spec => []Typed
<1> QED
  BY InitTyped, NextTyped, PTL DEF Spec

-----------------------------------------------------------------------------
(* The columns of a damaged line *)

\* A line of type 1 or 3, whose seventh word is a grid.
GridLine(l) ==
  /\ Len(l) = 17
  /\ \A i \in 1 .. 17 : l[i].text = <<i, l[i].types>> /\ l[i].types \subseteq TypeNames
  /\ IsGridSquare(l[7])
  /\ l[3].types = Integer /\ l[4].types = Real /\ l[5].types = Real /\ l[6].types = Opaque
  /\ l[8].types = Small /\ l[9].types = Integer /\ l[10].types = Real
  /\ l[11].types = Small /\ l[12].types = Small /\ l[13].types = Integer
  /\ l[14].types = Small /\ l[15].types = Small /\ l[16].types = Small
  /\ l[17].types = Integer
  /\ ~ IsGridSquare(l[8])

\* A line of type 2, which has none.
PlainLine(l) ==
  /\ Len(l) = 16
  /\ \A i \in 1 .. 6 : l[i].text = <<i, l[i].types>>
  /\ \A i \in 7 .. 16 : l[i].text = <<i + 1, l[i].types>>
  /\ \A i \in 1 .. 16 : l[i].types \subseteq TypeNames
  /\ ~ IsGridSquare(l[7])
  /\ l[3].types = Integer /\ l[4].types = Real /\ l[5].types = Real /\ l[6].types = Opaque
  /\ l[7].types = Small /\ l[8].types = Integer /\ l[9].types = Real
  /\ l[10].types = Small /\ l[11].types = Small /\ l[12].types = Integer
  /\ l[13].types = Small /\ l[14].types = Small /\ l[15].types = Small
  /\ l[16].types = Integer

LEMMA GridWords ==
  ASSUME NEW i, NEW types
  PROVE  /\ ~ IsGridSquare(Word(i, types, <<>>))
         /\ IsGridSquare(Word(i, types, Letters))
         /\ IsGridSquare(Word(i, types, SixChars))
<1>1. \A chars : Word(i, types, chars).chars = chars
  BY DEF Word
<1>2. ~ IsGridSquare(Word(i, types, <<>>))
  <2>1. PICK w : w = Word(i, types, <<>>)
    OBVIOUS
  <2>2. w.chars = <<>> /\ Len(w.chars) = 0
    BY <1>1, <2>1
  <2>3. ~ IsGridSquare(w)
    BY <2>2 DEF IsGridSquare
  <2> QED
    BY <2>1, <2>3
<1>3. PICK a, b, c : a = {"major", "minor"} /\ b = {"digit"} /\ c = {"minor"}
  OBVIOUS
<1>4. PICK U : U = {a, b, c}
  OBVIOUS
<1>5. PICK four : four = <<a, a, b, b>>
  OBVIOUS
<1>6. PICK two : two = <<c, c>>
  OBVIOUS
<1>7. /\ four \in Seq(U) /\ Len(four) = 4
      /\ four[1] = a /\ four[2] = a /\ four[3] = b /\ four[4] = b
  BY <1>4, <1>5
<1>8. two \in Seq(U) /\ Len(two) = 2 /\ two[1] = c /\ two[2] = c
  BY <1>4, <1>6
<1>9. PICK six : six = four \o two
  OBVIOUS
<1>10. /\ Len(six) = Len(four) + Len(two)
       /\ \A x \in 1 .. Len(four) : six[x] = four[x]
       /\ \A x \in 1 .. Len(two) : six[Len(four) + x] = two[x]
  <2>1. four \in Seq(U) /\ two \in Seq(U)
    BY <1>7, <1>8
  <2> QED
    BY <1>9, <2>1, ConcatTwo
<1>11. /\ Len(six) = 6
       /\ six[1] = a /\ six[2] = a /\ six[3] = b /\ six[4] = b /\ six[5] = c /\ six[6] = c
  <2>1. Len(six) = 6 /\ \A x \in 1 .. 4 : six[x] = four[x]
    BY <1>7, <1>8, <1>10
  <2>2. \A x \in 1 .. 2 : six[4 + x] = two[x]
    BY <1>7, <1>8, <1>10
  <2>3. six[4 + 1] = two[1] /\ six[4 + 2] = two[2]
    BY <2>2
  <2> QED
    BY <1>7, <1>8, <2>1, <2>3
<1>12. Letters = four /\ SixChars = six
  BY <1>3, <1>5, <1>6, <1>9 DEF Letters, SixChars
<1>13. "major" \in a /\ "minor" \in a /\ "digit" \in b /\ "minor" \in c
  BY <1>3
<1>14. IsGridSquare(Word(i, types, Letters))
  <2>1. PICK w : w = Word(i, types, Letters)
    OBVIOUS
  <2>2. w.chars = four
    BY <1>1, <1>12, <2>1
  <2>3. IsGridSquare(w)
    BY <1>7, <1>13, <2>2 DEF IsGridSquare
  <2> QED
    BY <2>1, <2>3
<1>15. IsGridSquare(Word(i, types, SixChars))
  <2>1. PICK w : w = Word(i, types, SixChars)
    OBVIOUS
  <2>2. w.chars = six
    BY <1>1, <1>12, <2>1
  <2>3. IsGridSquare(w)
    BY <1>11, <1>13, <2>2 DEF IsGridSquare
  <2> QED
    BY <2>1, <2>3
<1> QED
  BY <1>2, <1>14, <1>15

\* The words of a line: six, k of a grid, and ten.
LineHas(l, type, k) ==
  /\ Len(l) = 16 + k /\ \E U : l \in Seq(U)
  /\ l[1] = Word(1, Opaque, <<>>) /\ l[2] = Word(2, Opaque, <<>>)
  /\ l[3] = Word(3, Integer, <<>>) /\ l[4] = Word(4, Real, <<>>)
  /\ l[5] = Word(5, Real, <<>>) /\ l[6] = Word(6, Opaque, <<>>)
  /\ type # 2 => l[7] = Word(7, Opaque, IF type = 1 THEN Letters ELSE SixChars)
  /\ l[6 + k + 1] = Word(8, Small, <<>>) /\ l[6 + k + 2] = Word(9, Integer, <<>>)
  /\ l[6 + k + 3] = Word(10, Real, <<>>) /\ l[6 + k + 4] = Word(11, Small, <<>>)
  /\ l[6 + k + 5] = Word(12, Small, <<>>) /\ l[6 + k + 6] = Word(13, Integer, <<>>)
  /\ l[6 + k + 7] = Word(14, Small, <<>>) /\ l[6 + k + 8] = Word(15, Small, <<>>)
  /\ l[6 + k + 9] = Word(16, Small, <<>>) /\ l[6 + k + 10] = Word(17, Integer, <<>>)

LEMMA LineWords ==
  ASSUME NEW type \in 1 .. 3, NEW l, l = LineOf(type), NEW k, k = IF type = 2 THEN 0 ELSE 1
  PROVE  LineHas(l, type, k)
<1>1. PICK a, b, c, d, e, f : /\ a = Word(1, Opaque, <<>>) /\ b = Word(2, Opaque, <<>>)
                              /\ c = Word(3, Integer, <<>>) /\ d = Word(4, Real, <<>>)
                              /\ e = Word(5, Real, <<>>) /\ f = Word(6, Opaque, <<>>)
  OBVIOUS
<1>2. PICK g : g = Word(7, Opaque, IF type = 1 THEN Letters ELSE SixChars)
  OBVIOUS
<1>3. PICK tail : tail = <<Small, Integer, Real, Small, Small, Integer, Small, Small, Small,
                           Integer>>
  OBVIOUS
<1>4. /\ tail[1] = Small /\ tail[2] = Integer /\ tail[3] = Real /\ tail[4] = Small
      /\ tail[5] = Small /\ tail[6] = Integer /\ tail[7] = Small /\ tail[8] = Small
      /\ tail[9] = Small /\ tail[10] = Integer
  BY <1>3
<1>5. PICK last : last = [i \in 1 .. 10 |-> Word(7 + i, tail[i], <<>>)]
  OBVIOUS
<1>6. PICK U : /\ a \in U /\ b \in U /\ c \in U /\ d \in U /\ e \in U /\ f \in U /\ g \in U
               /\ \A i \in 1 .. 10 : last[i] \in U
  <2>1. PICK U : U = {a, b, c, d, e, f, g} \cup {last[i] : i \in 1 .. 10}
    OBVIOUS
  <2> QED
    BY <2>1
<1>7. PICK head : head = <<a, b, c, d, e, f>>
  OBVIOUS
<1>8. /\ head \in Seq(U) /\ Len(head) = 6 /\ head[1] = a /\ head[2] = b /\ head[3] = c
      /\ head[4] = d /\ head[5] = e /\ head[6] = f
  BY <1>6, <1>7
<1>9. PICK grid : grid = IF type = 2 THEN <<>> ELSE <<g>>
  OBVIOUS
<1>10. grid \in Seq(U) /\ Len(grid) = k /\ (type # 2 => grid[1] = g)
  BY <1>6, <1>9
<1>11. last \in Seq(U) /\ Len(last) = 10 /\ \A i \in 1 .. 10 : last[i] = Word(7 + i, tail[i], <<>>)
  BY <1>5, <1>6
<1>12. l = (head \o grid) \o last
  BY <1>1, <1>2, <1>3, <1>5, <1>7, <1>9 DEF LineOf
<1>13. PICK p : p = head \o grid
  OBVIOUS
<1>14. /\ p \in Seq(U) /\ Len(p) = Len(head) + Len(grid)
       /\ \A i \in 1 .. Len(head) : p[i] = head[i]
       /\ \A i \in 1 .. Len(grid) : p[Len(head) + i] = grid[i]
  <2>1. head \in Seq(U) /\ grid \in Seq(U)
    BY <1>8, <1>10
  <2> QED
    BY <1>13, <2>1, ConcatTwo
<1>15. /\ l \in Seq(U) /\ Len(l) = Len(p) + Len(last)
       /\ \A i \in 1 .. Len(p) : l[i] = p[i]
       /\ \A i \in 1 .. Len(last) : l[Len(p) + i] = last[i]
  <2>1. p \in Seq(U) /\ last \in Seq(U)
    BY <1>11, <1>14
  <2> QED
    BY <1>12, <1>13, <2>1, ConcatTwo
<1>16. k \in {0, 1} /\ (type # 2 => k = 1) /\ Len(p) = 6 + k /\ Len(l) = 16 + k
  BY <1>8, <1>10, <1>11, <1>14, <1>15
<1>17. /\ l[1] = a /\ l[2] = b /\ l[3] = c /\ l[4] = d /\ l[5] = e /\ l[6] = f
  <2>1. \A i \in 1 .. 6 : l[i] = head[i]
    BY <1>8, <1>14, <1>15, <1>16
  <2> QED
    BY <1>8, <2>1
<1>18. type # 2 => l[7] = g
  <2> SUFFICES ASSUME type # 2 PROVE l[7] = g
    OBVIOUS
  <2>1. l[7] = p[7] /\ p[6 + 1] = grid[1]
    BY <1>8, <1>10, <1>14, <1>15, <1>16
  <2> QED
    BY <1>10, <2>1
<1>19. ASSUME NEW i \in 1 .. 10, NEW j, j = 7 + i
       PROVE  l[6 + k + i] = Word(j, tail[i], <<>>)
  <2>1. i \in 1 .. Len(last) /\ last[i] = Word(7 + i, tail[i], <<>>)
    BY <1>11
  <2>2. l[Len(p) + i] = last[i]
    BY <1>15, <2>1
  <2>3. Len(p) = 6 + k
    BY <1>16
  <2> QED
    BY <1>19, <2>1, <2>2, <2>3, Zenon
<1>20. /\ l[6 + k + 1] = Word(8, tail[1], <<>>) /\ l[6 + k + 2] = Word(9, tail[2], <<>>)
       /\ l[6 + k + 3] = Word(10, tail[3], <<>>) /\ l[6 + k + 4] = Word(11, tail[4], <<>>)
       /\ l[6 + k + 5] = Word(12, tail[5], <<>>) /\ l[6 + k + 6] = Word(13, tail[6], <<>>)
       /\ l[6 + k + 7] = Word(14, tail[7], <<>>) /\ l[6 + k + 8] = Word(15, tail[8], <<>>)
       /\ l[6 + k + 9] = Word(16, tail[9], <<>>) /\ l[6 + k + 10] = Word(17, tail[10], <<>>)
  BY <1>19
<1>21. /\ l[6 + k + 1] = Word(8, Small, <<>>) /\ l[6 + k + 2] = Word(9, Integer, <<>>)
       /\ l[6 + k + 3] = Word(10, Real, <<>>) /\ l[6 + k + 4] = Word(11, Small, <<>>)
       /\ l[6 + k + 5] = Word(12, Small, <<>>) /\ l[6 + k + 6] = Word(13, Integer, <<>>)
       /\ l[6 + k + 7] = Word(14, Small, <<>>) /\ l[6 + k + 8] = Word(15, Small, <<>>)
       /\ l[6 + k + 9] = Word(16, Small, <<>>) /\ l[6 + k + 10] = Word(17, Integer, <<>>)
  BY <1>4, <1>20
<1>22. /\ Len(l) = 16 + k /\ \E V : l \in Seq(V)
       /\ l[1] = Word(1, Opaque, <<>>) /\ l[2] = Word(2, Opaque, <<>>)
       /\ l[3] = Word(3, Integer, <<>>) /\ l[4] = Word(4, Real, <<>>)
       /\ l[5] = Word(5, Real, <<>>) /\ l[6] = Word(6, Opaque, <<>>)
       /\ type # 2 => l[7] = Word(7, Opaque, IF type = 1 THEN Letters ELSE SixChars)
  BY <1>1, <1>2, <1>15, <1>16, <1>17, <1>18
<1> QED
  BY <1>21, <1>22 DEF LineHas

LEMMA LineIs ==
  ASSUME NEW type \in 1 .. 3, NEW l, l = LineOf(type)
  PROVE  /\ type # 2 => GridLine(l)
         /\ type = 2 => PlainLine(l)
         /\ \E U : l \in Seq(U)
<1>1. PICK k : k = IF type = 2 THEN 0 ELSE 1
  OBVIOUS
<1>2. LineHas(l, type, k)
  BY <1>1, LineWords
<1>3. \A i, types, chars : /\ Word(i, types, chars).types = types
                           /\ Word(i, types, chars).text = <<i, types>>
  BY DEF Word
<1>4. /\ l[1].text = <<1, l[1].types>> /\ l[2].text = <<2, l[2].types>>
      /\ l[3].text = <<3, l[3].types>> /\ l[4].text = <<4, l[4].types>>
      /\ l[5].text = <<5, l[5].types>> /\ l[6].text = <<6, l[6].types>>
      /\ l[3].types = Integer /\ l[4].types = Real /\ l[5].types = Real
      /\ l[6].types = Opaque /\ l[1].types = Opaque /\ l[2].types = Opaque
  <2>1. /\ l[1] = Word(1, Opaque, <<>>) /\ l[2] = Word(2, Opaque, <<>>)
        /\ l[3] = Word(3, Integer, <<>>) /\ l[4] = Word(4, Real, <<>>)
        /\ l[5] = Word(5, Real, <<>>) /\ l[6] = Word(6, Opaque, <<>>)
    BY <1>2 DEF LineHas
  <2> QED
    BY <1>3, <2>1
<1>5. /\ Opaque \subseteq TypeNames /\ Small \subseteq TypeNames
      /\ Integer \subseteq TypeNames /\ Real \subseteq TypeNames
  BY DEF Opaque, Small, Integer, Real, TypeNames
<1>6. CASE type # 2
  <2>1. k = 1
    BY <1>1, <1>6
  <2>2. Len(l) = 17 /\ l[7] = Word(7, Opaque, IF type = 1 THEN Letters ELSE SixChars)
    BY <1>2, <1>6, <2>1 DEF LineHas
  <2>3. /\ l[8] = Word(8, Small, <<>>) /\ l[9] = Word(9, Integer, <<>>)
        /\ l[10] = Word(10, Real, <<>>) /\ l[11] = Word(11, Small, <<>>)
        /\ l[12] = Word(12, Small, <<>>) /\ l[13] = Word(13, Integer, <<>>)
        /\ l[14] = Word(14, Small, <<>>) /\ l[15] = Word(15, Small, <<>>)
        /\ l[16] = Word(16, Small, <<>>) /\ l[17] = Word(17, Integer, <<>>)
    BY <1>2, <2>1 DEF LineHas
  <2>4. IsGridSquare(l[7]) /\ ~ IsGridSquare(l[8])
    BY <2>2, <2>3, GridWords
  <2>5. l[7].text = <<7, l[7].types>> /\ l[7].types = Opaque
    BY <1>3, <2>2
  <2>6. /\ l[8].types = Small /\ l[9].types = Integer /\ l[10].types = Real
        /\ l[11].types = Small /\ l[12].types = Small /\ l[13].types = Integer
        /\ l[14].types = Small /\ l[15].types = Small /\ l[16].types = Small
        /\ l[17].types = Integer
        /\ l[8].text = <<8, l[8].types>> /\ l[9].text = <<9, l[9].types>>
        /\ l[10].text = <<10, l[10].types>> /\ l[11].text = <<11, l[11].types>>
        /\ l[12].text = <<12, l[12].types>> /\ l[13].text = <<13, l[13].types>>
        /\ l[14].text = <<14, l[14].types>> /\ l[15].text = <<15, l[15].types>>
        /\ l[16].text = <<16, l[16].types>> /\ l[17].text = <<17, l[17].types>>
    BY <1>3, <2>3
  <2>7. \A i \in 1 .. 17 : l[i].text = <<i, l[i].types>> /\ l[i].types \subseteq TypeNames
    <3>1. \A i \in 1 .. 17 : i \in {1, 2, 3, 4, 5, 6, 7, 8, 9, 10, 11, 12, 13, 14, 15, 16, 17}
      OBVIOUS
    <3> QED
      BY <1>4, <1>5, <2>5, <2>6, <3>1
  <2> QED
    BY <1>2, <1>4, <1>6, <2>2, <2>4, <2>6, <2>7 DEF GridLine, LineHas
<1>7. CASE type = 2
  <2>1. k = 0
    BY <1>1, <1>7
  <2>2. Len(l) = 16
    BY <1>2, <2>1 DEF LineHas
  <2>3. /\ l[7] = Word(8, Small, <<>>) /\ l[8] = Word(9, Integer, <<>>)
        /\ l[9] = Word(10, Real, <<>>) /\ l[10] = Word(11, Small, <<>>)
        /\ l[11] = Word(12, Small, <<>>) /\ l[12] = Word(13, Integer, <<>>)
        /\ l[13] = Word(14, Small, <<>>) /\ l[14] = Word(15, Small, <<>>)
        /\ l[15] = Word(16, Small, <<>>) /\ l[16] = Word(17, Integer, <<>>)
    BY <1>2, <2>1 DEF LineHas
  <2>4. ~ IsGridSquare(l[7])
    BY <2>3, GridWords
  <2>6. /\ l[7].types = Small /\ l[8].types = Integer /\ l[9].types = Real
        /\ l[10].types = Small /\ l[11].types = Small /\ l[12].types = Integer
        /\ l[13].types = Small /\ l[14].types = Small /\ l[15].types = Small
        /\ l[16].types = Integer
        /\ l[7].text = <<8, l[7].types>> /\ l[8].text = <<9, l[8].types>>
        /\ l[9].text = <<10, l[9].types>> /\ l[10].text = <<11, l[10].types>>
        /\ l[11].text = <<12, l[11].types>> /\ l[12].text = <<13, l[12].types>>
        /\ l[13].text = <<14, l[13].types>> /\ l[14].text = <<15, l[14].types>>
        /\ l[15].text = <<16, l[15].types>> /\ l[16].text = <<17, l[16].types>>
    BY <1>3, <2>3
  <2>7. \A i \in 7 .. 16 : l[i].text = <<i + 1, l[i].types>>
    <3>1. \A i \in 7 .. 16 : i \in {7, 8, 9, 10, 11, 12, 13, 14, 15, 16}
      OBVIOUS
    <3> QED
      BY <2>6, <3>1
  <2>8. \A i \in 1 .. 6 : l[i].text = <<i, l[i].types>>
    <3>1. \A i \in 1 .. 6 : i \in {1, 2, 3, 4, 5, 6}
      OBVIOUS
    <3> QED
      BY <1>4, <3>1
  <2>9. \A i \in 1 .. 16 : l[i].types \subseteq TypeNames
    <3>1. \A i \in 1 .. 16 : i \in {1, 2, 3, 4, 5, 6, 7, 8, 9, 10, 11, 12, 13, 14, 15, 16}
      OBVIOUS
    <3> QED
      BY <1>4, <1>5, <2>6, <3>1
  <2> QED
    BY <1>2, <1>4, <1>7, <2>2, <2>4, <2>6, <2>7, <2>8, <2>9 DEF PlainLine, LineHas
<1> QED
  BY <1>2, <1>6, <1>7 DEF LineHas

\* What must have parsed when a line gave a spot, and where its columns are from.
ReadFrom(row, f, b) ==
  /\ row.snr_db = f[3].text /\ row.dt_sec = f[4].text /\ row.freq_hz = f[5].text
  /\ row.callsign = f[6].text /\ row.power_dbm = f[b + 1].text /\ row.drift = f[b + 2].text
  /\ row.sync_quality = f[b + 3].text /\ row.npass = f[b + 4].text
  /\ row.osd_pass = f[b + 5].text /\ row.nhardmin = f[b + 6].text
  /\ row.decode_cycles = f[b + 8].text /\ row.candidates = f[b + 9].text
  /\ row.nfano = f[b + 10].text

Parsed(f, b) ==
  /\ Len(f) >= 16 /\ Len(f) >= b + 10
  /\ "i32" \in f[3].types /\ "f32" \in f[4].types /\ "f64" \in f[5].types
  /\ "u8" \in f[b + 4].types

Refused(f, b) ==
  \/ Len(f) < 16
  \/ Len(f) < b + 10
  \/ ~Parses(f, 2, "i32") \/ ~Parses(f, 3, "f32") \/ ~Parses(f, 4, "f64")
  \/ \E c \in 1 .. 10 : Columns[c] # "any" /\ ~Parses(f, b + c - 1, Columns[c])

\* The spot of a line, with this grid and message.
SpotOf(f, b, ws, grid, message) ==
  [time_utc |-> HhmmUtc(ws), snr_db |-> f[3].text, dt_sec |-> f[4].text,
   freq_hz |-> f[5].text, callsign |-> f[6].text, grid |-> grid, message |-> message,
   power_dbm |-> f[b + 1].text, drift |-> f[b + 2].text, sync_quality |-> f[b + 3].text,
   npass |-> f[b + 4].text, osd_pass |-> f[b + 5].text, nhardmin |-> f[b + 6].text,
   decode_cycles |-> f[b + 8].text, candidates |-> f[b + 9].text, nfano |-> f[b + 10].text]

GridOf(f, b) == IF b = 7 THEN f[7].text ELSE NoGrid

MessageOf(f, b) ==
  IF GridOf(f, b) = NoGrid THEN <<f[6].text, f[b + 1].text>>
  ELSE <<f[6].text, GridOf(f, b), f[b + 1].text>>

\* parse_all_wspr_line in two parts, counting words from 1.
LEMMA ParseIs ==
  ASSUME NEW f, NEW ws, NEW b, b = Base(f)
  PROVE  /\ Refused(f, b) => ParseAllWsprLine(f, ws) = NoSpot
         /\ ~ Refused(f, b) => ParseAllWsprLine(f, ws) =
                                 SpotOf(f, b, ws, GridOf(f, b), MessageOf(f, b))
<1>1. b \in {6, 7}
  BY DEF Base
<1>2. Refused(f, b) => ParseAllWsprLine(f, ws) = NoSpot
  BY Zenon DEF ParseAllWsprLine, Refused
<1>3. ASSUME ~ Refused(f, b), NEW spot, spot = ParseAllWsprLine(f, ws)
      PROVE  spot = SpotOf(f, b, ws, GridOf(f, b), MessageOf(f, b))
  <2>1. PICK grid : grid = GridOf(f, b)
    OBVIOUS
  <2>2. PICK message : message = MessageOf(f, b)
    OBVIOUS
  <2>3. grid = IF b = 7 THEN f[6 + 1].text ELSE NoGrid
    BY <2>1 DEF GridOf
  <2>4. message = IF grid = NoGrid THEN <<f[5 + 1].text, f[b + 1].text>>
                  ELSE <<f[5 + 1].text, grid, f[b + 1].text>>
    BY <2>1, <2>2 DEF MessageOf
  <2>5. spot = [time_utc |-> HhmmUtc(ws), snr_db |-> f[2 + 1].text, dt_sec |-> f[3 + 1].text,
                freq_hz |-> f[4 + 1].text, callsign |-> f[5 + 1].text, grid |-> grid,
                message |-> message,
                power_dbm |-> f[b + 1].text, drift |-> f[b + 1 + 1].text,
                sync_quality |-> f[b + 2 + 1].text,
                npass |-> f[b + 3 + 1].text, osd_pass |-> f[b + 4 + 1].text,
                nhardmin |-> f[b + 5 + 1].text,
                decode_cycles |-> f[b + Ncycles + 1].text,
                candidates |-> f[b + Ncycles + 1 + 1].text,
                nfano |-> f[b + Ncycles + 2 + 1].text]
    BY <1>3, <2>3, <2>4, Zenon DEF ParseAllWsprLine, Refused
  <2>6. f[2 + 1] = f[3] /\ f[3 + 1] = f[4] /\ f[4 + 1] = f[5] /\ f[5 + 1] = f[6]
    OBVIOUS
  <2>7. /\ b + 1 + 1 = b + 2 /\ b + 2 + 1 = b + 3 /\ b + 3 + 1 = b + 4
        /\ b + 4 + 1 = b + 5 /\ b + 5 + 1 = b + 6 /\ b + Ncycles + 1 = b + 8
        /\ b + Ncycles + 1 + 1 = b + 9 /\ b + Ncycles + 2 + 1 = b + 10
    BY <1>1 DEF Ncycles
  <2>8. /\ f[b + 1 + 1] = f[b + 2] /\ f[b + 2 + 1] = f[b + 3] /\ f[b + 3 + 1] = f[b + 4]
        /\ f[b + 4 + 1] = f[b + 5] /\ f[b + 5 + 1] = f[b + 6]
        /\ f[b + Ncycles + 1] = f[b + 8] /\ f[b + Ncycles + 1 + 1] = f[b + 9]
        /\ f[b + Ncycles + 2 + 1] = f[b + 10]
    BY <2>7, Zenon
  <2>9. spot = SpotOf(f, b, ws, grid, message)
    BY <2>5, <2>6, <2>8, SMTT(30) DEF SpotOf
  <2> QED
    BY <2>1, <2>2, <2>9
<1> QED
  BY <1>2, <1>3

LEMMA SpotIs ==
  ASSUME NEW U, NEW f \in Seq(U), NEW ws, NEW spot, spot = ParseAllWsprLine(f, ws),
         spot # NoSpot, NEW b, b = Base(f), NEW row, row = FromSpot(spot, ws)
  PROVE  /\ Parsed(f, b) /\ ReadFrom(row, f, b)
         /\ row.window_start_unix = ws /\ row.time_utc = HhmmUtc(ws)
<1>1. Len(f) \in Nat
  BY LenProperties
<1>2. b \in {6, 7}
  BY DEF Base
<1>3. ~ Refused(f, b)
  BY ParseIs
<1>4. Columns[4] = "u8"
  BY DEF Columns
<1>5. Parses(f, b + 4 - 1, "u8")
  <2>1. 4 \in 1 .. 10
    OBVIOUS
  <2> QED
    BY <1>3, <1>4, <2>1 DEF Refused
<1>6. Parsed(f, b)
  BY <1>1, <1>2, <1>3, <1>5, SMTT(30) DEF Parsed, Parses, Refused
<1>7. PICK grid, message : grid = GridOf(f, b) /\ message = MessageOf(f, b)
  OBVIOUS
<1>9. spot = SpotOf(f, b, ws, grid, message)
  BY <1>3, <1>7, ParseIs
<1>10. /\ DOMAIN spot = {"time_utc", "snr_db", "dt_sec", "freq_hz", "callsign", "grid",
                         "message", "power_dbm", "drift", "sync_quality", "npass",
                         "osd_pass", "nhardmin", "decode_cycles", "candidates", "nfano"}
  BY <1>9 DEF SpotOf
<1>11. row = [x \in DOMAIN spot \cup {"window_start_unix"} |->
               IF x = "window_start_unix" THEN ws ELSE spot[x]]
  BY DEF FromSpot
<1>12. row.window_start_unix = ws /\ row.time_utc = spot.time_utc
  BY <1>10, <1>11
<1>13. /\ row.snr_db = spot.snr_db /\ row.dt_sec = spot.dt_sec /\ row.freq_hz = spot.freq_hz
       /\ row.callsign = spot.callsign /\ row.power_dbm = spot.power_dbm
       /\ row.drift = spot.drift /\ row.sync_quality = spot.sync_quality
       /\ row.npass = spot.npass /\ row.osd_pass = spot.osd_pass
       /\ row.nhardmin = spot.nhardmin /\ row.decode_cycles = spot.decode_cycles
       /\ row.candidates = spot.candidates /\ row.nfano = spot.nfano
  BY <1>10, <1>11
<1>14. ReadFrom(row, f, b)
  <2>1. /\ spot.snr_db = f[3].text /\ spot.dt_sec = f[4].text /\ spot.freq_hz = f[5].text
        /\ spot.callsign = f[6].text /\ spot.power_dbm = f[b + 1].text
        /\ spot.drift = f[b + 2].text /\ spot.sync_quality = f[b + 3].text
        /\ spot.npass = f[b + 4].text
    BY <1>9 DEF SpotOf
  <2>2. /\ spot.osd_pass = f[b + 5].text /\ spot.nhardmin = f[b + 6].text
        /\ spot.decode_cycles = f[b + 8].text /\ spot.candidates = f[b + 9].text
        /\ spot.nfano = f[b + 10].text
    BY <1>9 DEF SpotOf
  <2> QED
    BY <1>13, <2>1, <2>2, Zenon DEF ReadFrom
<1>15. row.time_utc = HhmmUtc(ws)
  BY <1>9, <1>12 DEF SpotOf
<1> QED
  BY <1>6, <1>12, <1>14, <1>15

\* The words that the columns are read from are those of their places, or 0 for
\* the replaced one.
Aligned(f, b) ==
  /\ \A i \in 3 .. 6 : f[i].text[1] \in {0, i}
  /\ \A j \in 1 .. 10 : f[b + j].text[1] \in {0, 7 + j}

LEMMA RowPlaces ==
  ASSUME NEW row, NEW f, NEW b, ReadFrom(row, f, b), Aligned(f, b)
  PROVE  \A c \in DOMAIN ColumnPlace : row[c][1] \in {0, ColumnPlace[c]}
<1>1. PICK place : place = ColumnPlace
  OBVIOUS
<1>2. /\ place.snr_db = 3 /\ place.dt_sec = 4 /\ place.freq_hz = 5 /\ place.callsign = 6
      /\ place.power_dbm = 8 /\ place.drift = 9 /\ place.sync_quality = 10
      /\ place.npass = 11 /\ place.osd_pass = 12 /\ place.nhardmin = 13
      /\ place.decode_cycles = 15 /\ place.candidates = 16 /\ place.nfano = 17
  BY <1>1 DEF ColumnPlace
<1>3. DOMAIN place = {"snr_db", "dt_sec", "freq_hz", "callsign", "power_dbm", "drift",
                      "sync_quality", "npass", "osd_pass", "nhardmin", "decode_cycles",
                      "candidates", "nfano"}
  BY <1>1 DEF ColumnPlace
<1>4. /\ f[3].text[1] \in {0, 3} /\ f[4].text[1] \in {0, 4} /\ f[5].text[1] \in {0, 5}
      /\ f[6].text[1] \in {0, 6}
  BY DEF Aligned
<1>5. /\ f[b + 1].text[1] \in {0, 8} /\ f[b + 2].text[1] \in {0, 9}
      /\ f[b + 3].text[1] \in {0, 10} /\ f[b + 4].text[1] \in {0, 11}
      /\ f[b + 5].text[1] \in {0, 12} /\ f[b + 6].text[1] \in {0, 13}
      /\ f[b + 8].text[1] \in {0, 15} /\ f[b + 9].text[1] \in {0, 16}
      /\ f[b + 10].text[1] \in {0, 17}
  BY DEF Aligned
<1>6. /\ row.snr_db[1] \in {0, 3} /\ row.dt_sec[1] \in {0, 4} /\ row.freq_hz[1] \in {0, 5}
      /\ row.callsign[1] \in {0, 6} /\ row.power_dbm[1] \in {0, 8}
      /\ row.drift[1] \in {0, 9} /\ row.sync_quality[1] \in {0, 10}
      /\ row.npass[1] \in {0, 11} /\ row.osd_pass[1] \in {0, 12}
      /\ row.nhardmin[1] \in {0, 13} /\ row.decode_cycles[1] \in {0, 15}
      /\ row.candidates[1] \in {0, 16} /\ row.nfano[1] \in {0, 17}
  BY <1>4, <1>5 DEF ReadFrom
<1>7. \A c \in DOMAIN place : row[c][1] \in {0, place[c]}
  BY <1>2, <1>3, <1>6
<1> QED
  BY <1>1, <1>7

LEMMA RemoveAtIs ==
  ASSUME NEW U, NEW l \in Seq(U), NEW k \in 1 .. Len(l), NEW f, f = RemoveAt(l, k)
  PROVE  /\ f \in Seq(U) /\ Len(f) = Len(l) - 1
         /\ \A i \in 1 .. k - 1 : f[i] = l[i]
         /\ \A i \in k .. Len(l) - 1 : f[i] = l[i + 1]
<1>1. Len(l) \in Nat /\ k \in Nat /\ k >= 1 /\ k <= Len(l)
  BY LenProperties
<1>2. PICK a : a = SubSeq(l, 1, k - 1)
  OBVIOUS
<1>3. PICK c : c = SubSeq(l, k + 1, Len(l))
  OBVIOUS
<1>4. a \in Seq(U) /\ Len(a) = k - 1 /\ \A i \in 1 .. k - 1 : a[i] = l[i]
  <2>1. k - 1 \in 0 .. Len(l)
    BY <1>1
  <2> QED
    BY <1>2, <2>1, CutInTwo
<1>5. c \in Seq(U) /\ Len(c) = Len(l) - k /\ \A i \in 1 .. Len(l) - k : c[i] = l[k + i]
  <2>1. k \in 0 .. Len(l)
    BY <1>1
  <2> QED
    BY <1>3, <2>1, CutInTwo
<1>6. /\ f \in Seq(U) /\ Len(f) = Len(a) + Len(c)
      /\ \A i \in 1 .. Len(a) : f[i] = a[i]
      /\ \A i \in 1 .. Len(c) : f[Len(a) + i] = c[i]
  <2>1. f = a \o c
    BY <1>2, <1>3, Zenon DEF RemoveAt
  <2>2. a \in Seq(U) /\ c \in Seq(U)
    BY <1>4, <1>5
  <2> QED
    BY <2>1, <2>2, ConcatTwo
<1>7. Len(f) = Len(l) - 1 /\ \A i \in 1 .. k - 1 : f[i] = l[i]
  BY <1>1, <1>4, <1>5, <1>6
<1>8. ASSUME NEW i \in k .. Len(l) - 1 PROVE f[i] = l[i + 1]
  <2>1. i - k + 1 \in 1 .. Len(l) - k /\ Len(a) + (i - k + 1) = i /\ k + (i - k + 1) = i + 1
    BY <1>1, <1>4
  <2>2. f[Len(a) + (i - k + 1)] = c[i - k + 1] /\ c[i - k + 1] = l[k + (i - k + 1)]
    BY <1>5, <1>6, <2>1
  <2> QED
    BY <2>1, <2>2
<1> QED
  BY <1>6, <1>7, <1>8

LEMMA ReplacedIs ==
  ASSUME NEW U, NEW l \in Seq(U), NEW k \in 1 .. Len(l), NEW w, NEW f, f = [l EXCEPT ![k] = w]
  PROVE  /\ Len(f) = Len(l) /\ f[k] = w /\ f \in Seq(U \cup {w})
         /\ \A i \in 1 .. Len(l) : i # k => f[i] = l[i]
<1>1. Len(l) \in Nat /\ l = [i \in 1 .. Len(l) |-> l[i]] /\ \A i \in 1 .. Len(l) : l[i] \in U
  BY LenProperties, ElementOfSeq
<1>2. f = [i \in 1 .. Len(l) |-> IF i = k THEN w ELSE l[i]]
  BY <1>1
<1>3. f \in Seq(U \cup {w}) /\ Len(f) = Len(l)
  BY <1>1, <1>2
<1> QED
  BY <1>2, <1>3

\* A line that lost a word other than its callsign, and still gives a spot.
LEMMA LostAligned ==
  ASSUME NEW U, NEW l \in Seq(U), GridLine(l), NEW k \in 1 .. 17, k # 6,
         NEW f, f = RemoveAt(l, k), NEW b, b = Base(f), Parsed(f, b)
  PROVE  Aligned(f, b)
<1>1. Len(l) = 17
  BY DEF GridLine
<1>2. /\ Len(f) = 16
      /\ \A i \in 1 .. k - 1 : f[i] = l[i]
      /\ \A i \in k .. 16 : f[i] = l[i + 1]
  <2>1. k \in 1 .. Len(l)
    BY <1>1
  <2>2. /\ Len(f) = Len(l) - 1
        /\ \A i \in 1 .. k - 1 : f[i] = l[i]
        /\ \A i \in k .. Len(l) - 1 : f[i] = l[i + 1]
    BY <2>1, RemoveAtIs
  <2> QED
    BY <1>1, <2>2
<1>3. l[4].types = Real /\ l[6].types = Opaque
  BY DEF GridLine
<1>4. CASE k <= 3
  <2>1. f[3] = l[4]
    <3>1. 3 \in k .. 16 /\ 3 + 1 = 4
      BY <1>4
    <3>2. f[3] = l[3 + 1]
      BY <1>2, <3>1
    <3> QED
      BY <3>1, <3>2
  <2>2. "i32" \in Real
    BY <1>3, <2>1 DEF Parsed
  <2> QED
    BY <2>2 DEF Real
<1>5. CASE k \in 4 .. 5
  <2>1. f[5] = l[6]
    BY <1>2, <1>5
  <2>2. "f64" \in Opaque
    BY <1>3, <2>1 DEF Parsed
  <2> QED
    BY <2>2 DEF Opaque
<1>6. CASE k = 7
  <2>1. f[7] = l[8] /\ ~ IsGridSquare(l[8])
    BY <1>2, <1>6 DEF GridLine
  <2>2. b = 6
    BY <2>1 DEF Base
  <2>3. \A i \in 1 .. 17 : l[i].text[1] = i
    BY SMTT(30) DEF GridLine
  <2>4. ASSUME NEW i \in 3 .. 6 PROVE f[i].text[1] = i
    <3>1. i \in 1 .. k - 1 /\ i \in 1 .. 17
      BY <1>6
    <3> QED
      BY <1>2, <2>3, <3>1
  <2>5. ASSUME NEW j \in 1 .. 10 PROVE f[b + j].text[1] = 7 + j
    <3>1. 6 + j \in k .. 16 /\ 6 + j + 1 = 7 + j /\ 7 + j \in 1 .. 17
      BY <1>6
    <3>2. f[6 + j] = l[7 + j] /\ l[7 + j].text[1] = 7 + j
      BY <1>2, <2>3, <3>1, ZenonT(40)
    <3> QED
      BY <2>2, <3>2
  <2> QED
    BY <2>4, <2>5 DEF Aligned
<1>7. CASE k >= 8
  <2>1. f[7] = l[7] /\ IsGridSquare(l[7])
    BY <1>2, <1>7 DEF GridLine
  <2>2. b = 7
    BY <2>1 DEF Base
  <2> QED
    BY <1>2, <2>2 DEF Parsed
<1> QED
  BY <1>4, <1>5, <1>6, <1>7

\* A line of type 1 or 3 with at most the k-th word replaced.
LEMMA GridAligned ==
  ASSUME NEW l, GridLine(l), NEW k \in 0 .. 17, NEW f,
         \A i \in 1 .. 17 : i # k => f[i] = l[i],
         k # 0 => f[k].text[1] = 0, NEW b, b = Base(f), Parsed(f, b)
  PROVE  Aligned(f, b)
<1>1. \A i \in 1 .. 17 : l[i].text[1] = i
  BY DEF GridLine
<1>2. \A i \in 1 .. 17 : f[i].text[1] \in {0, i}
  BY <1>1
<1>3. b = 7
  <2>1. CASE k = 7
    <3>1. f[10] = l[10] /\ l[10].types = Real
      BY <2>1 DEF GridLine
    <3>2. "u8" \notin f[10].types
      BY <3>1 DEF Real
    <3>3. b # 6
      BY <3>2 DEF Parsed
    <3> QED
      BY <3>3 DEF Base
  <2>2. CASE k # 7
    <3>1. f[7] = l[7] /\ IsGridSquare(l[7])
      BY <2>2 DEF GridLine
    <3> QED
      BY <3>1 DEF Base
  <2> QED
    BY <2>1, <2>2
<1>4. \A i \in 3 .. 6 : f[i].text[1] \in {0, i}
  BY <1>2
<1>5. \A j \in 1 .. 10 : f[b + j].text[1] \in {0, 7 + j}
  BY <1>2, <1>3
<1> QED
  BY <1>4, <1>5 DEF Aligned

\* The same for a line of type 2.
LEMMA PlainAligned ==
  ASSUME NEW l, PlainLine(l), NEW k \in 0 .. 16, NEW f, Len(f) = 16,
         \A i \in 1 .. 16 : i # k => f[i] = l[i],
         k # 0 => f[k].text[1] = 0, NEW b, b = Base(f), Parsed(f, b)
  PROVE  Aligned(f, b)
<1>1. \A i \in 1 .. 6 : l[i].text[1] = i
  BY DEF PlainLine
<1>2. \A i \in 7 .. 16 : l[i].text[1] = i + 1
  BY DEF PlainLine
<1>3. b = 6
  BY DEF Base, Parsed
<1>4. \A i \in 3 .. 6 : f[i].text[1] \in {0, i}
  BY <1>1
<1>5. ASSUME NEW j \in 1 .. 10 PROVE f[b + j].text[1] \in {0, 7 + j}
  <2>1. 6 + j \in 7 .. 16 /\ 6 + j \in 1 .. 16 /\ 6 + j + 1 = 7 + j
    OBVIOUS
  <2>2. f[6 + j].text[1] \in {0, 7 + j}
    BY <1>2, <2>1
  <2> QED
    BY <1>3, <2>2
<1> QED
  BY <1>4, <1>5 DEF Aligned

\* A line that is not refused gives a spot, whatever its texts T are.
LEMMA SpotType ==
  ASSUME NEW T, NEW f, NEW ws, NEW b, b = Base(f), ~ Refused(f, b),
         \A i \in 1 .. b + 10 : f[i].text \in T, HhmmUtc(ws) \in Nat \X Nat
  PROVE  ParseAllWsprLine(f, ws) \in WsprSpot(T)
<1>1. PICK spot, grid, message : /\ spot = ParseAllWsprLine(f, ws)
                                 /\ grid = GridOf(f, b) /\ message = MessageOf(f, b)
  OBVIOUS
<1>2. spot = SpotOf(f, b, ws, grid, message)
  BY <1>1, ParseIs
<1>3. b \in {6, 7}
  BY DEF Base
<1>4. /\ f[3].text \in T /\ f[4].text \in T /\ f[5].text \in T /\ f[6].text \in T
      /\ f[7].text \in T /\ f[b + 1].text \in T /\ f[b + 2].text \in T
      /\ f[b + 3].text \in T /\ f[b + 4].text \in T /\ f[b + 5].text \in T
      /\ f[b + 6].text \in T /\ f[b + 8].text \in T /\ f[b + 9].text \in T
      /\ f[b + 10].text \in T
  BY <1>3
<1>5. grid \in T \cup {NoGrid} /\ (grid # NoGrid => grid \in T)
  BY <1>1, <1>4 DEF GridOf
<1>6. message \in Seq(T)
  <2>1. PICK x, y : x = f[6].text /\ y = f[b + 1].text
    OBVIOUS
  <2>2. message = IF grid = NoGrid THEN <<x, y>> ELSE <<x, grid, y>>
    BY <1>1, <2>1 DEF MessageOf
  <2>3. x \in T /\ y \in T
    BY <1>4, <2>1
  <2> QED
    BY <1>5, <2>2, <2>3
<1>7. spot \in WsprSpot(T)
  BY <1>2, <1>4, <1>5, <1>6 DEF SpotOf, WsprSpot
<1> QED
  BY <1>1, <1>7

\* Columns, where the words stand behind place b.
LEMMA ColumnsParse ==
  ASSUME NEW l, NEW b \in {6, 7}, l[3].types = Integer, l[4].types = Real,
         l[5].types = Real, Len(l) = b + 10, l[b + 1].types = Small,
         l[b + 2].types = Integer, l[b + 3].types = Real, l[b + 4].types = Small,
         l[b + 5].types = Small, l[b + 6].types = Integer, l[b + 8].types = Small,
         l[b + 9].types = Small, l[b + 10].types = Integer
  PROVE  ~ Refused(l, b)
<1>1. PICK c : c = Columns
  OBVIOUS
<1>2. /\ c[1] = "i32" /\ c[2] = "i32" /\ c[3] = "f32" /\ c[4] = "u8" /\ c[5] = "u8"
      /\ c[6] = "i32" /\ c[7] = "any" /\ c[8] = "u32" /\ c[9] = "u32" /\ c[10] = "i32"
  BY <1>1 DEF Columns
<1>3. /\ c[1] \in l[b + 1].types /\ c[2] \in l[b + 2].types /\ c[3] \in l[b + 3].types
      /\ c[4] \in l[b + 4].types /\ c[5] \in l[b + 5].types /\ c[6] \in l[b + 6].types
      /\ c[8] \in l[b + 8].types /\ c[9] \in l[b + 9].types /\ c[10] \in l[b + 10].types
  BY <1>2 DEF Small, Integer, Real
<1>4. \A i \in 1 .. 10 : c[i] # "any" => c[i] \in l[b + i].types
  <2>1. \A i \in 1 .. 10 : i \in {1, 2, 3, 4, 5, 6, 7, 8, 9, 10}
    OBVIOUS
  <2> QED
    BY <1>2, <1>3, <2>1
<1>5. \A i \in 1 .. 10 : b + i - 1 + 1 = b + i
  OBVIOUS
<1>6. \A i \in 1 .. 10 : c[i] # "any" => Parses(l, b + i - 1, c[i])
  BY <1>4, <1>5 DEF Parses
<1>7. Parses(l, 2, "i32") /\ Parses(l, 3, "f32") /\ Parses(l, 4, "f64")
  BY DEF Parses, Integer, Real
<1>8. ~ (Len(l) < 16) /\ ~ (Len(l) < b + 10)
  OBVIOUS
<1>9. ~ \E i \in 1 .. 10 : Columns[i] # "any" /\ ~ Parses(l, b + i - 1, Columns[i])
  BY <1>1, <1>6, Zenon
<1> QED
  BY <1>7, <1>8, <1>9, Zenon DEF Refused

LEMMA WindowStartIs == WindowStart \in Nat /\ HhmmUtc(WindowStart) = <<23, 58>>
BY DEF WindowStart, DaySeconds, HhmmUtc

\* A line that came through whole gives a spot.
LEMMA WholeLineGivesSpot ==
  ASSUME NEW l, GridLine(l) \/ PlainLine(l)
  PROVE  ParseAllWsprLine(l, WindowStart) # NoSpot
<1>1. PICK b : b = Base(l)
  OBVIOUS
<1>2. b \in {6, 7} /\ Len(l) = b + 10 /\ ~ Refused(l, b)
  <2>1. CASE GridLine(l)
    <3>1. b = 7
      BY <1>1, <2>1 DEF Base, GridLine
    <3>2. /\ l[3].types = Integer /\ l[4].types = Real /\ l[5].types = Real
          /\ l[8].types = Small /\ l[9].types = Integer /\ l[10].types = Real
          /\ l[11].types = Small /\ l[12].types = Small /\ l[13].types = Integer
          /\ l[15].types = Small /\ l[16].types = Small /\ l[17].types = Integer
          /\ Len(l) = 17
      BY <2>1, Zenon DEF GridLine
    <3>3. ~ Refused(l, 7)
      BY <3>2, ColumnsParse
    <3> QED
      BY <3>1, <3>2, <3>3
  <2>2. CASE PlainLine(l)
    <3>1. b = 6
      BY <1>1, <2>2 DEF Base, PlainLine
    <3>2. /\ l[3].types = Integer /\ l[4].types = Real /\ l[5].types = Real
          /\ l[7].types = Small /\ l[8].types = Integer /\ l[9].types = Real
          /\ l[10].types = Small /\ l[11].types = Small /\ l[12].types = Integer
          /\ l[14].types = Small /\ l[15].types = Small /\ l[16].types = Integer
          /\ Len(l) = 16
      BY <2>2, Zenon DEF PlainLine
    <3>3. ~ Refused(l, 6)
      BY <3>2, ColumnsParse
    <3> QED
      BY <3>1, <3>2, <3>3
  <2> QED
    BY <2>1, <2>2
<1>3. ASSUME NEW i \in 1 .. b + 10 PROVE l[i].text \in Texts
  <2>1. \E n \in Nat : l[i].text = <<n, l[i].types>> /\ l[i].types \subseteq TypeNames
    <3>1. CASE GridLine(l)
      <4>1. i \in 1 .. 17 /\ i \in Nat
        <5>1. Len(l) = 17
          BY <3>1 DEF GridLine
        <5>2. (b = 6 \/ b = 7) /\ Len(l) = b + 10
          BY <1>2
        <5> QED
          BY <5>1, <5>2
      <4> QED
        BY <3>1, <4>1 DEF GridLine
    <3>2. CASE PlainLine(l)
      <4>1. i \in 1 .. 16 /\ i \in Nat /\ i + 1 \in Nat /\ (i \in 1 .. 6 \/ i \in 7 .. 16)
        <5>1. Len(l) = 16
          BY <3>2 DEF PlainLine
        <5>2. b = 6 \/ b = 7
          BY <1>2
        <5>3. Len(l) = b + 10
          BY <1>2
        <5> QED
          BY <5>1, <5>2, <5>3
      <4> QED
        BY <3>2, <4>1 DEF PlainLine
    <3> QED
      BY <3>1, <3>2
  <2> QED
    BY <2>1 DEF Texts
<1>4. HhmmUtc(WindowStart) \in Nat \X Nat
  BY WindowStartIs
<1>5. ParseAllWsprLine(l, WindowStart) \in WsprSpot(Texts)
  <2>1. PICK T : T = Texts
    OBVIOUS
  <2>2. \A i \in 1 .. b + 10 : l[i].text \in T
    BY <1>3, <2>1
  <2>3. ParseAllWsprLine(l, WindowStart) \in WsprSpot(T)
    BY <1>1, <1>2, <1>4, <2>2, SpotType
  <2> QED
    BY <2>1, <2>3
<1> QED
  BY <1>5, NoSpotAssumption

\* What a column of a damaged line gives, and what a whole line does.
LineGives(line, spot, row) ==
  /\ line.damage.op = "none" => spot # NoSpot
  /\ spot # NoSpot => row.window_start_unix = WindowStart /\ row.time_utc = <<23, 58>>
  /\ (spot # NoSpot /\ line.damage # [op |-> "lost", at |-> 6]) =>
       \A c \in DOMAIN ColumnPlace : row[c][1] \in {0, ColumnPlace[c]}

LEMMA LineType ==
  ASSUME NEW line \in Lines
  PROVE  /\ line.type \in 1 .. 3
         /\ \/ line.damage.op = "none"
            \/ line.damage.op = "blank"
            \/ /\ line.damage.op = "lost" /\ line.damage.at \in 1 .. Len(LineOf(line.type))
               /\ line.damage = [op |-> "lost", at |-> line.damage.at]
            \/ /\ line.damage.op = "replaced"
               /\ line.damage.at \in 1 .. Len(LineOf(line.type))
<1>1. PICK t \in 1 .. 3 : line \in [type : {t}, damage : Damages(t)]
  BY DEF Lines
<1>2. line.type = t /\ line.damage \in Damages(t)
  BY <1>1
<1>3. PICK n : n = Len(LineOf(t))
  OBVIOUS
<1>4. line.damage \in [op : {"none", "blank"}] \cup [op : {"lost"}, at : 1 .. n]
                       \cup [op : {"replaced"}, at : 1 .. n, by : Words]
  BY <1>2, <1>3 DEF Damages
<1> QED
  BY <1>2, <1>3, <1>4

LEMMA EveryLine ==
  ASSUME NEW line \in Lines, NEW f, f = WordsOf(line), NEW spot,
         spot = ParseAllWsprLine(f, WindowStart), NEW row, row = FromSpot(spot, WindowStart)
  PROVE  LineGives(line, spot, row)
<1>1. PICK d, l, n : d = line.damage /\ l = LineOf(line.type) /\ n = Len(l)
  OBVIOUS
<1>2. /\ line.type \in 1 .. 3
      /\ \/ d.op = "none" \/ d.op = "blank"
         \/ d.op = "lost" /\ d.at \in 1 .. n /\ d = [op |-> "lost", at |-> d.at]
         \/ d.op = "replaced" /\ d.at \in 1 .. n
  BY <1>1, LineType
<1>3. GridLine(l) \/ PlainLine(l)
  BY <1>1, <1>2, LineIs
<1>4. PICK U : l \in Seq(U)
  BY <1>1, <1>2, LineIs
<1>5. /\ d.op = "none" => f = l
      /\ d.op = "blank" => f = <<>>
      /\ d.op = "lost" => f = RemoveAt(l, d.at)
      /\ d.op = "replaced" => f = [l EXCEPT ![d.at] = Word(0, d.by.types, d.by.chars)]
  BY <1>1, Zenon DEF WordsOf
<1>6. d.op = "none" => spot # NoSpot
  BY <1>3, <1>5, WholeLineGivesSpot
<1>7. \E V : f \in Seq(V)
  <2>1. CASE d.op = "none"
    BY <1>4, <1>5, <2>1
  <2>2. CASE d.op = "blank"
    <3>1. f = <<>>
      BY <1>5, <2>2
    <3> QED
      BY <3>1, EmptySeq
  <2>3. CASE d.op = "lost"
    <3>1. d.at \in 1 .. Len(l)
      BY <1>1, <1>2, <2>3
    <3> QED
      BY <1>4, <1>5, <2>3, <3>1, RemoveAtIs
  <2>4. CASE d.op = "replaced"
    <3>1. d.at \in 1 .. Len(l)
      BY <1>1, <1>2, <2>4
    <3> QED
      <4>1. PICK w, k : w = Word(0, d.by.types, d.by.chars) /\ k = d.at
        OBVIOUS
      <4>2. f = [l EXCEPT ![k] = w] /\ k \in 1 .. Len(l)
        BY <1>5, <2>4, <3>1, <4>1
      <4>3. /\ Len(f) = Len(l) /\ f[k] = w /\ f \in Seq(U \cup {w})
            /\ \A i \in 1 .. Len(l) : i # k => f[i] = l[i]
        BY <1>4, <4>2, ReplacedIs
      <4> QED
        BY <4>3
  <2> QED
    BY <1>2, <2>1, <2>2, <2>3, <2>4
<1>8. ASSUME spot # NoSpot
      PROVE  /\ row.window_start_unix = WindowStart /\ row.time_utc = <<23, 58>>
             /\ d # [op |-> "lost", at |-> 6] =>
                  \A c \in DOMAIN ColumnPlace : row[c][1] \in {0, ColumnPlace[c]}
  <2>1. PICK b : b = Base(f)
    OBVIOUS
  <2>2. /\ Parsed(f, b) /\ ReadFrom(row, f, b)
        /\ row.window_start_unix = WindowStart /\ row.time_utc = HhmmUtc(WindowStart)
    BY <1>7, <1>8, <2>1, SpotIs
  <2>3. ASSUME d # [op |-> "lost", at |-> 6] PROVE Aligned(f, b)
    <3>1. CASE d.op = "none"
      <4>1. f = l /\ 0 \in 0 .. 17 /\ 0 \in 0 .. 16
        BY <1>5, <3>1
      <4>2. CASE GridLine(l)
        BY <2>1, <2>2, <4>1, <4>2, GridAligned
      <4>3. CASE PlainLine(l)
        <5>1. Len(f) = 16
          BY <4>1, <4>3 DEF PlainLine
        <5> QED
          BY <2>1, <2>2, <4>1, <4>3, <5>1, PlainAligned
      <4> QED
        BY <1>3, <4>2, <4>3
    <3>2. CASE d.op = "blank"
      <4>1. f = <<>>
        BY <1>5, <3>2
      <4>2. Len(f) = 0
        BY <4>1
      <4> QED
        BY <2>2, <4>2 DEF Parsed
    <3>3. CASE d.op = "lost"
      <4>1. f = RemoveAt(l, d.at) /\ d.at \in 1 .. Len(l) /\ d.at # 6
        BY <1>1, <1>2, <1>5, <2>3, <3>3
      <4>2. CASE GridLine(l)
        <5>1. d.at \in 1 .. 17
          BY <4>1, <4>2 DEF GridLine
        <5> QED
          BY <1>4, <2>1, <2>2, <4>1, <4>2, <5>1, LostAligned
      <4>3. CASE PlainLine(l)
        <5>1. Len(f) = Len(l) - 1
          BY <1>4, <4>1, RemoveAtIs
        <5>2. Len(f) = 15
          BY <4>3, <5>1 DEF PlainLine
        <5> QED
          BY <2>2, <5>2 DEF Parsed
      <4> QED
        BY <1>3, <4>2, <4>3
    <3>4. CASE d.op = "replaced"
      <4>1. PICK w, k : w = Word(0, d.by.types, d.by.chars) /\ k = d.at
        OBVIOUS
      <4>2. f = [l EXCEPT ![k] = w] /\ k \in 1 .. Len(l)
        BY <1>1, <1>2, <1>5, <3>4, <4>1
      <4>3. Len(f) = Len(l) /\ f[k] = w /\ \A i \in 1 .. Len(l) : i # k => f[i] = l[i]
        BY <1>4, <4>2, ReplacedIs
      <4>4. f[k].text[1] = 0
        BY <4>1, <4>3 DEF Word
      <4>5. CASE GridLine(l)
        <5>1. Len(l) = 17 /\ k \in 0 .. 17
          BY <4>2, <4>5 DEF GridLine
        <5>2. \A i \in 1 .. 17 : i # k => f[i] = l[i]
          BY <4>3, <5>1
        <5> QED
          BY <2>1, <2>2, <4>4, <4>5, <5>1, <5>2, GridAligned
      <4>6. CASE PlainLine(l)
        <5>1. Len(l) = 16 /\ k \in 0 .. 16 /\ Len(f) = 16
          BY <4>2, <4>3, <4>6 DEF PlainLine
        <5>2. \A i \in 1 .. 16 : i # k => f[i] = l[i]
          BY <4>3, <5>1
        <5> QED
          BY <2>1, <2>2, <4>4, <4>6, <5>1, <5>2, PlainAligned
      <4> QED
        BY <1>3, <4>5, <4>6
    <3> QED
      BY <1>2, <3>1, <3>2, <3>3, <3>4
  <2> QED
    BY <2>2, <2>3, RowPlaces, WindowStartIs
<1> QED
  BY <1>1, <1>6, <1>8 DEF LineGives

\* No damaged word shifts a column (decode.rs:296-359).
THEOREM NoShiftedColumnCorrect == Spec => []NoShiftedColumn
<1>1. Typed => NoShiftedColumn
  <2> SUFFICES ASSUME Typed, kind = "txt" PROVE NoShiftedColumn
    BY DEF NoShiftedColumn
  <2>1. PICK q : q = input
    OBVIOUS
  <2>2. q \in Seq(Lines)
    BY <2>1 DEF Typed
  <2>3. ASSUME NEW i \in 1 .. Len(q), NEW spot, NEW row,
               spot = ParseAllWsprLine(WordsOf(q[i]), WindowStart),
               row = FromSpot(spot, WindowStart)
        PROVE  LineGives(q[i], spot, row)
    <3>1. q[i] \in Lines
      <4> HIDE DEF Lines
      <4> QED
        BY <2>2, ElementOfSeq
    <3> QED
      BY <2>3, <3>1, EveryLine
  <2>4. \A i \in 1 .. Len(q) :
          LineGives(q[i], ParseAllWsprLine(WordsOf(q[i]), WindowStart),
                    FromSpot(ParseAllWsprLine(WordsOf(q[i]), WindowStart), WindowStart))
    BY <2>3, Zenon
  <2> QED
    BY <2>1, <2>4, Zenon DEF NoShiftedColumn, LineGives
<1> QED
  BY <1>1, TypeCorrect, PTL

-----------------------------------------------------------------------------
(* The spots of a file *)

\* Flattening sequences of one element and empty ones counts the former, W.
LEMMA FlattenCounts ==
  ASSUME NEW x, NEW s, Len(s) \in Nat, NEW W \in SUBSET (1 .. Len(s)), s \in Seq(Seq({x})),
         \A i \in 1 .. Len(s) : s[i] = IF i \in W THEN <<x>> ELSE <<>>
  PROVE  Len(FlattenSeq(s)) = Cardinality(W)
<1>1. CASE Len(s) = 0
  <2>1. W = {}
    BY <1>1
  <2>2. Len(FlattenSeq(s)) = 0
    BY <1>1 DEF FlattenSeq
  <2> QED
    BY <2>1, <2>2, FS_EmptySet
<1>2. CASE Len(s) # 0
  <2>1. PICK f : Flattens(f, s) /\ FlattenSeq(s) = f[Len(s)]
    BY <1>2, FlattenSeqIs
  <2> DEFINE Upto(m) == W \cap 1 .. m
             G == {m \in Nat : m \in 1 .. Len(s) => Len(f[m]) = Cardinality(Upto(m))}
  <2>2. \A m \in Nat : IsFiniteSet(Upto(m))
    <3> SUFFICES ASSUME NEW m \in Nat PROVE IsFiniteSet(Upto(m))
      OBVIOUS
    <3>1. IsFiniteSet(1 .. m)
      BY FS_Interval
    <3>2. Upto(m) \in SUBSET (1 .. m)
      OBVIOUS
    <3> HIDE DEF Upto
    <3> QED
      BY <3>1, <3>2, FS_Subset
  <2>3. \A m \in 1 .. Len(s) : f[m] \in Seq({x})
    BY <2>1, FlattensType
  <2>4. ASSUME NEW m \in Nat, m + 1 \in 1 .. Len(s)
        PROVE  Cardinality(Upto(m + 1)) =
                 IF m + 1 \in W THEN Cardinality(Upto(m)) + 1 ELSE Cardinality(Upto(m))
    <3>1. m + 1 \notin Upto(m)
      OBVIOUS
    <3>2. Upto(m + 1) = IF m + 1 \in W THEN Upto(m) \cup {m + 1} ELSE Upto(m)
      BY <2>4
    <3>3. IsFiniteSet(Upto(m))
      BY <2>2
    <3> HIDE DEF Upto
    <3> QED
      BY <3>1, <3>2, <3>3, FS_AddElement
  <2>5. Upto(0) = {} /\ Cardinality(Upto(0)) = 0
    BY FS_EmptySet
  <2>6. 0 \in G
    OBVIOUS
  <2>7. ASSUME NEW m \in Nat, m \in G PROVE m + 1 \in G
    <3> SUFFICES ASSUME m + 1 \in 1 .. Len(s)
                 PROVE  Len(f[m + 1]) = Cardinality(Upto(m + 1))
      OBVIOUS
    <3>1. s[m + 1] = IF m + 1 \in W THEN <<x>> ELSE <<>>
      OBVIOUS
    <3>2. f[m + 1] = IF m = 0 THEN s[m + 1] ELSE f[m] \o s[m + 1]
      <4>1. PICK k \in 1 .. Len(s) : k = m + 1
        OBVIOUS
      <4>2. f[k] = IF k = 1 THEN s[k] ELSE f[k - 1] \o s[k]
        BY <2>1, FlattensAt
      <4>3. k - 1 = m /\ (k = 1 <=> m = 0)
        BY <4>1
      <4> QED
        BY <4>1, <4>2, <4>3
    <3>3. CASE m = 0
      <4>1. Len(f[m + 1]) = IF m + 1 \in W THEN 1 ELSE 0
        BY <3>1, <3>2, <3>3
      <4>2. Cardinality(Upto(m)) = 0
        BY <2>5, <3>3
      <4> HIDE DEF Upto
      <4> QED
        BY <2>4, <4>1, <4>2
    <3>4. CASE m # 0
      <4>1. m \in 1 .. Len(s)
        BY <3>4
      <4>2. f[m] \in Seq({x}) /\ Len(f[m]) = Cardinality(Upto(m))
        BY <2>3, <2>7, <4>1
      <4>3. PICK g \in Seq({x}) : g = f[m]
        BY <4>2
      <4>4. Len(g \o <<x>>) = Len(g) + 1 /\ Len(g \o <<>>) = Len(g)
        OBVIOUS
      <4>5. Len(f[m + 1]) = IF m + 1 \in W THEN Len(g) + 1 ELSE Len(g)
        BY <3>1, <3>2, <3>4, <4>3, <4>4
      <4> HIDE DEF Upto
      <4> QED
        BY <2>4, <4>2, <4>3, <4>5
    <3> QED
      BY <3>3, <3>4
  <2>8. Nat \subseteq G
    <3> HIDE DEF G
    <3> QED
      BY <2>6, <2>7, NatSetInduction
  <2>9. Len(s) \in G /\ Len(s) \in 1 .. Len(s)
    BY <1>2, <2>8
  <2>10. Upto(Len(s)) = W
    OBVIOUS
  <2> QED
    BY <2>1, <2>9, <2>10
<1> QED
  BY <1>1, <1>2

LEMMA OneIsSeq == ASSUME NEW x PROVE <<x>> \in Seq({x})
OBVIOUS

\* A function on 1 .. n is a sequence of length n.
LEMMA MapIsSeq ==
  ASSUME NEW S, NEW n \in Nat, NEW f \in [1 .. n -> S]
  PROVE  f \in Seq(S) /\ Len(f) = n
<1>1. f \in Seq(S)
  BY SeqDef, Zenon
<1>2. DOMAIN f = 1 .. n
  OBVIOUS
<1>3. Len(f) \in Nat /\ DOMAIN f = 1 .. Len(f)
  BY <1>1, LenProperties, Zenon
<1>4. PICK k \in Nat : k = Len(f)
  BY <1>3, Zenon
<1>5. 1 .. n = 1 .. k
  BY <1>2, <1>3, <1>4, Zenon
<1>6. \A i \in Int : (i \in 1 .. n) <=> (i \in 1 .. k)
  BY <1>5, Zenon
<1>7. CASE n < k
  BY <1>6, <1>7
<1>8. CASE k < n
  BY <1>6, <1>8
<1>9. CASE n = k
  BY <1>1, <1>4, <1>9, Zenon
<1> QED
  BY <1>7, <1>8, <1>9

\* What each kind of line of a file gives.
LEMMA FileLineGives ==
  /\ ParseAllWsprLine(LineOf(1), WindowStart) # NoSpot
  /\ ParseAllWsprLine(RemoveAt(LineOf(1), 3), WindowStart) = NoSpot
<1>1. PICK l : l = LineOf(1)
  OBVIOUS
<1>2. GridLine(l) /\ \E U : l \in Seq(U)
  BY <1>1, LineIs
<1>3. PICK U : l \in Seq(U)
  BY <1>2
<1>4. PICK f : f = RemoveAt(l, 3)
  OBVIOUS
<1>5. Len(l) = 17 /\ l[4].types = Real
  BY <1>2 DEF GridLine
<1>6. f \in Seq(U) /\ f[3] = l[4]
  <2>1. 3 \in 1 .. Len(l) /\ 3 \in 3 .. Len(l) - 1
    BY <1>5
  <2>2. f \in Seq(U) /\ \A i \in 3 .. Len(l) - 1 : f[i] = l[i + 1]
    BY <1>3, <1>4, <2>1, RemoveAtIs
  <2> QED
    BY <2>1, <2>2
<1>7. "i32" \notin f[3].types
  BY <1>5, <1>6 DEF Real
<1>8. ParseAllWsprLine(f, WindowStart) = NoSpot
  <2> SUFFICES ASSUME ParseAllWsprLine(f, WindowStart) # NoSpot PROVE FALSE
    OBVIOUS
  <2>1. PICK spot, row, b : /\ spot = ParseAllWsprLine(f, WindowStart) /\ b = Base(f)
                            /\ row = FromSpot(spot, WindowStart)
    OBVIOUS
  <2>2. Parsed(f, b)
    BY <1>6, <2>1, SpotIs
  <2> QED
    BY <1>7, <2>2 DEF Parsed
<1>9. ParseAllWsprLine(l, WindowStart) # NoSpot
  BY <1>2, WholeLineGivesSpot
<1> QED
  BY <1>1, <1>4, <1>8, <1>9

\* A file that can be read gives a spot for each whole line.
LEMMA WholeLinesGive ==
  ASSUME NEW q \in Seq(FileLines), \A i \in 1 .. Len(q) : q[i] # "not utf8"
  PROVE  Len(ParseAllWsprTxt(FileOf(q).lines, WindowStart))
           = Cardinality({i \in 1 .. Len(q) : q[i] = "whole"})
<1>1. PICK n \in Nat : n = Len(q)
  BY LenProperties
<1>a. PICK good, bad : good = LineOf(1) /\ bad = RemoveAt(LineOf(1), 3)
  OBVIOUS
<1>2. PICK ls : ls = [i \in 1 .. n |-> IF q[i] = "whole" THEN good ELSE bad]
  OBVIOUS
<1>3. FileOf(q).lines = ls
  BY <1>1, <1>2, <1>a DEF FileOf
<1>4. Len(ls) = n
  <2>1. PICK S : S = {good, bad}
    OBVIOUS
  <2>2. ls \in [1 .. n -> S]
    BY <1>2, <2>1
  <2> QED
    BY <2>2, MapIsSeq, Zenon
<1>5. PICK x, W : /\ x = ParseAllWsprLine(LineOf(1), WindowStart)
                  /\ W = {i \in 1 .. Len(q) : q[i] = "whole"}
  OBVIOUS
<1>6. ASSUME NEW i \in 1 .. n
      PROVE  SpotsOfLine(ls[i], WindowStart) = IF i \in W THEN <<x>> ELSE <<>>
  <2>1. CASE i \in W
    <3>1. ls[i] = LineOf(1)
      BY <1>2, <1>5, <1>a, <2>1
    <3>2. x # NoSpot /\ ParseAllWsprLine(ls[i], WindowStart) = x
      BY <1>5, <3>1, FileLineGives
    <3> QED
      BY <2>1, <3>2 DEF SpotsOfLine
  <2>2. CASE i \notin W
    <3>1. ls[i] = RemoveAt(LineOf(1), 3)
      BY <1>1, <1>2, <1>5, <1>a, <2>2
    <3>2. ParseAllWsprLine(ls[i], WindowStart) = NoSpot
      BY <3>1, FileLineGives
    <3> QED
      BY <2>2, <3>2 DEF SpotsOfLine
  <2> QED
    BY <2>1, <2>2
<1>7. PICK s : s = [i \in 1 .. n |-> SpotsOfLine(ls[i], WindowStart)]
  OBVIOUS
<1>8. \A i \in 1 .. n : s[i] = IF i \in W THEN <<x>> ELSE <<>>
  BY <1>6, <1>7
<1>9. s \in [1 .. n -> Seq({x})]
  <2>1. \A i \in 1 .. n : s[i] \in Seq({x})
    <3>1. <<x>> \in Seq({x}) /\ <<>> \in Seq({x})
      BY EmptySeq, OneIsSeq
    <3> QED
      BY <1>8, <3>1
  <2> QED
    BY <1>7, <2>1
<1>10. s \in Seq(Seq({x})) /\ Len(s) = n
  <2>1. PICK S : S = Seq({x})
    OBVIOUS
  <2>2. s \in [1 .. n -> S]
    BY <1>9, <2>1
  <2>3. s \in Seq(S) /\ Len(s) = n
    BY <2>2, MapIsSeq, Zenon
  <2> QED
    BY <2>1, <2>3
<1>11. W \in SUBSET (1 .. Len(s))
  BY <1>1, <1>5, <1>10
<1>12. Len(FlattenSeq(s)) = Cardinality(W)
  BY <1>8, <1>10, <1>11, FlattenCounts
<1>13. ParseAllWsprTxt(ls, WindowStart) = FlattenSeq(s)
  BY <1>4, <1>7 DEF ParseAllWsprTxt
<1> QED
  BY <1>3, <1>5, <1>12, <1>13

\* A decode that ends without an error has a spot for every whole line of its
\* file, however many lines there are (decode.rs:194-213).
THEOREM SpotsOrErrorCorrect == Spec => []SpotsOrError
<1>1. ASSUME NEW q \in Seq(FileLines), NEW exit \in Exits, NEW result,
             result = RunWsprd(exit, FileOf(q), WindowStart), "ok" \in DOMAIN result
      PROVE  Len(result.ok) = Cardinality({i \in 1 .. Len(q) : q[i] = "whole"})
  <2>1. exit = "success"
    BY <1>1 DEF RunWsprd, Exits
  <2>2. PICK txt : txt = FileOf(q)
    OBVIOUS
  <2>3. /\ txt.read = IF q = <<>> THEN "not found"
                      ELSE IF \E i \in 1 .. Len(q) : q[i] = "not utf8" THEN "not utf8"
                      ELSE "read"
        /\ txt.lines = FileOf(q).lines
    BY <2>2 DEF FileOf
  <2>4. CASE q = <<>>
    <3>1. result = [ok |-> <<>>]
      BY <1>1, <2>1, <2>2, <2>3, <2>4 DEF RunWsprd
    <3>2. {i \in 1 .. Len(q) : q[i] = "whole"} = {}
      BY <2>4
    <3> QED
      BY <3>1, <3>2, FS_EmptySet
  <2>5. CASE q # <<>>
    <3>1. txt.read = "read"
      BY <1>1, <2>1, <2>2, <2>3, <2>5 DEF RunWsprd
    <3>2. \A i \in 1 .. Len(q) : q[i] # "not utf8"
      BY <2>3, <2>5, <3>1
    <3>3. result = [ok |-> ParseAllWsprTxt(txt.lines, WindowStart)]
      BY <1>1, <2>1, <2>2, <3>1 DEF RunWsprd
    <3> QED
      BY <2>3, <3>2, <3>3, WholeLinesGive
  <2> QED
    BY <2>4, <2>5
<1>2. Typed => SpotsOrError
  <2> SUFFICES ASSUME Typed, kind = "file", NEW exit \in Exits, NEW result,
                      result = RunWsprd(exit, FileOf(input), WindowStart),
                      "ok" \in DOMAIN result
               PROVE  Len(result.ok)
                        = Cardinality({i \in 1 .. Len(input) : input[i] = "whole"})
    BY Zenon DEF SpotsOrError
  <2>1. input \in Seq(FileLines)
    BY DEF Typed
  <2> QED
    BY <1>1, <2>1
<1> QED
  BY <1>2, TypeCorrect, PTL

-----------------------------------------------------------------------------
(* RTP packets *)

\* The parts of a packet: three of its headers, and what is behind them.
RtpFixed(v, p, c, w) ==
  <<v * 64 + p * 32 + (IF w = NoValue THEN 0 ELSE 1) * 16 + c,
    128 + 122, 1, 2, 3, 4, 5, 6, 7, 8, 9, 10>>
RtpCsrcs(c) == [i \in 1 .. 4 * c |-> 20 + i]
RtpExt(w) ==
  IF w = NoValue THEN <<>>
  ELSE <<190, 222, w \div 256, w % 256>> \o [i \in 1 .. 4 * w |-> (60 + i) % 256]

RtpHead(v, p, c, w) == (RtpFixed(v, p, c, w) \o RtpCsrcs(c)) \o RtpExt(w)

RtpExtLen(w) == IF w = NoValue THEN 0 ELSE 4 + 4 * w
RtpHeaderEnd(c, w) == 12 + 4 * c + RtpExtLen(w)

LEMMA RtpInputType ==
  ASSUME NEW r \in RtpInputs
  PROVE  /\ r.version \in {1, 2} /\ r.padding \in Nat /\ r.csrc \in 0 .. 15
         /\ r.words \in Nat \cup {NoValue} /\ r.payload \in Nat
         /\ RtpHeaders(r) = RtpHead(r.version, IF r.padding = 0 THEN 0 ELSE 1, r.csrc, r.words)
<1>1. MaxCsrc \in 0 .. 15 /\ WordCounts \subseteq Nat /\ MaxPadding \in Nat /\ MaxPayload \in Nat
  BY FormatsAssumption DEF Bytes
<1>2. /\ r.version \in {1, 2} /\ r.padding \in 0 .. MaxPadding /\ r.csrc \in 0 .. MaxCsrc
      /\ r.words \in WordCounts \cup {NoValue} /\ r.payload \in 0 .. MaxPayload
  BY DEF RtpInputs
<1>3. /\ r.csrc \in 0 .. 15 /\ r.words \in Nat \cup {NoValue} /\ r.payload \in Nat
      /\ r.padding \in Nat
  <2>1. r.csrc \in 0 .. 15
    BY <1>1, <1>2
  <2>2. r.words \in Nat \cup {NoValue}
    BY <1>1, <1>2, Zenon
  <2>3. r.payload \in Nat /\ r.padding \in Nat
    BY <1>1, <1>2
  <2> QED
    BY <2>1, <2>2, <2>3
<1>4. RtpHeaders(r) = RtpHead(r.version, IF r.padding = 0 THEN 0 ELSE 1, r.csrc, r.words)
  BY DEF RtpHeaders, RtpHead, RtpFixed, RtpCsrcs, RtpExt
<1> QED
  BY <1>2, <1>3, <1>4

LEMMA RtpBehindType ==
  ASSUME NEW r \in RtpInputs
  PROVE  RtpBehind(r) \in Seq(Num)
<1>1. PICK m \in Nat, k \in Nat : m = r.payload /\ k = r.padding
  BY RtpInputType
<1>2. PICK a, b : /\ a = [i \in 1 .. m |-> 100 + i]
                  /\ b = [i \in 1 .. k |-> IF i = k THEN k ELSE 0]
  OBVIOUS
<1>3. a \in Seq(Num) /\ b \in Seq(Num)
  BY <1>2 DEF Num
<1>4. a \o b \in Seq(Num)
  BY <1>3, ConcatTwo
<1> QED
  BY <1>1, <1>2, <1>4 DEF RtpBehind

LEMMA RtpExtIs ==
  ASSUME NEW w \in Nat \cup {NoValue}
  PROVE  /\ RtpExt(w) \in Seq(Num) /\ Len(RtpExt(w)) = RtpExtLen(w)
         /\ RtpExtLen(w) \in Nat
         /\ w # NoValue => /\ w \in Nat
                           /\ RtpExt(w)[3] = w \div 256 /\ RtpExt(w)[4] = w % 256
<1>1. CASE w = NoValue
  BY <1>1 DEF RtpExt, RtpExtLen, Num
<1>2. CASE w # NoValue
  <2>1. w \in Nat
    BY <1>2
  <2>2. PICK a : a = <<190, 222, w \div 256, w % 256>>
    OBVIOUS
  <2>3. PICK b : b = [i \in 1 .. 4 * w |-> (60 + i) % 256]
    OBVIOUS
  <2>4. a \in Seq(Num) /\ Len(a) = 4 /\ a[3] = w \div 256 /\ a[4] = w % 256
    <3>1. PICK x \in Nat, y \in Nat : x = w \div 256 /\ y = w % 256
      BY <2>1
    <3> QED
      BY <2>2, <3>1 DEF Num
  <2>5. b \in Seq(Num) /\ Len(b) = 4 * w
    <3>1. PICK k \in Nat : k = 4 * w
      BY <2>1
    <3>2. \A i \in 1 .. k : (60 + i) % 256 \in Nat
      BY <3>1
    <3> QED
      BY <2>3, <3>1, <3>2 DEF Num
  <2>6. PICK q : q = a \o b
    OBVIOUS
  <2>7. /\ q \in Seq(Num) /\ Len(q) = Len(a) + Len(b)
        /\ \A i \in 1 .. Len(a) : q[i] = a[i]
    <3>1. a \in Seq(Num) /\ b \in Seq(Num)
      BY <2>4, <2>5
    <3> QED
      BY <2>6, <3>1, ConcatTwo
  <2>8. q[3] = w \div 256 /\ q[4] = w % 256 /\ Len(q) = 4 + 4 * w
    BY <2>4, <2>5, <2>7
  <2>9. RtpExt(w) = q /\ RtpExtLen(w) = 4 + 4 * w
    BY <1>2, <2>2, <2>3, <2>6 DEF RtpExt, RtpExtLen
  <2> QED
    BY <2>1, <2>7, <2>8, <2>9
<1> QED
  BY <1>1, <1>2

\* A packet d with these contents, t behind its headers of h bytes.
IsRtp(v, p, c, w, t, d, h) ==
  /\ v \in {1, 2} /\ p \in {0, 1} /\ c \in 0 .. 15
  /\ w \in Nat \cup {NoValue} /\ t \in Seq(Num)
  /\ d = RtpHead(v, p, c, w) \o t /\ h = RtpHeaderEnd(c, w)

\* Where the bytes of a packet are.
LEMMA RtpLayout ==
  ASSUME NEW v, NEW p, NEW c, NEW w, NEW t, NEW d, NEW h, IsRtp(v, p, c, w, t, d, h)
  PROVE  /\ d \in Seq(Num) /\ Len(d) = h + Len(t) /\ h \in Nat /\ h >= 12
         /\ Len(RtpHead(v, p, c, w)) = h
         /\ d[1] = v * 64 + p * 32 + (IF w = NoValue THEN 0 ELSE 1) * 16 + c
         /\ \A i \in 1 .. 10 : d[2 + i] = i
         /\ w # NoValue => /\ d[12 + 4 * c + 3] = w \div 256
                           /\ d[12 + 4 * c + 4] = w % 256
         /\ \A i \in 1 .. Len(t) : d[h + i] = t[i]
<1>0. /\ v \in {1, 2} /\ p \in {0, 1} /\ c \in 0 .. 15
      /\ w \in Nat \cup {NoValue} /\ t \in Seq(Num) /\ Len(t) \in Nat
  BY LenProperties DEF IsRtp
<1>1. PICK f, b, e : f = RtpFixed(v, p, c, w) /\ b = RtpCsrcs(c) /\ e = RtpExt(w)
  OBVIOUS
<1>2. PICK a, u : u = f \o b /\ a = u \o e
  OBVIOUS
<1>6. a = RtpHead(v, p, c, w) /\ d = a \o t
  BY <1>1, <1>2 DEF RtpHead, IsRtp
<1>3. /\ f \in Seq(Num) /\ Len(f) = 12
      /\ f[1] = v * 64 + p * 32 + (IF w = NoValue THEN 0 ELSE 1) * 16 + c
      /\ \A i \in 1 .. 10 : f[2 + i] = i
  <2>1. PICK g \in Nat : g = v * 64 + p * 32 + (IF w = NoValue THEN 0 ELSE 1) * 16 + c
    BY <1>0
  <2>2. f = <<g, 128 + 122, 1, 2, 3, 4, 5, 6, 7, 8, 9, 10>>
    BY <1>1, <2>1 DEF RtpFixed
  <2> QED
    BY <2>1, <2>2 DEF Num
<1>4. b \in Seq(Num) /\ Len(b) = 4 * c
  <2>1. PICK k \in Nat : k = 4 * c
    BY <1>0
  <2> QED
    BY <1>1, <2>1 DEF RtpCsrcs, Num
<1>5. /\ e \in Seq(Num) /\ Len(e) = RtpExtLen(w) /\ RtpExtLen(w) \in Nat
      /\ w # NoValue => w \in Nat /\ e[3] = w \div 256 /\ e[4] = w % 256
  BY <1>0, <1>1, RtpExtIs
<1>7. /\ d \in Seq(Num) /\ a \in Seq(Num)
      /\ Len(a) = Len(f) + Len(b) + Len(e) /\ Len(d) = Len(a) + Len(t)
      /\ \A i \in 1 .. Len(f) : d[i] = f[i]
      /\ \A i \in 1 .. Len(e) : d[Len(f) + Len(b) + i] = e[i]
      /\ \A i \in 1 .. Len(t) : d[Len(a) + i] = t[i]
  <2>1. f \in Seq(Num) /\ b \in Seq(Num) /\ e \in Seq(Num) /\ t \in Seq(Num)
    BY <1>0, <1>3, <1>4, <1>5
  <2>2. d = ((f \o b) \o e) \o t
    BY <1>2, <1>6
  <2>3. /\ d \in Seq(Num)
        /\ Len(d) = Len(f) + Len(b) + Len(e) + Len(t)
        /\ \A i \in 1 .. Len(f) : d[i] = f[i]
        /\ \A i \in 1 .. Len(e) : d[Len(f) + Len(b) + i] = e[i]
        /\ \A i \in 1 .. Len(t) : d[Len(f) + Len(b) + Len(e) + i] = t[i]
    BY <2>1, <2>2, ConcatFour
  <2>4. u \in Seq(Num) /\ Len(u) = Len(f) + Len(b)
    BY <1>2, <2>1, ConcatTwo
  <2>5. a \in Seq(Num) /\ Len(a) = Len(u) + Len(e)
    BY <1>2, <2>1, <2>4, ConcatTwo
  <2>6. Len(a) = Len(f) + Len(b) + Len(e)
    BY <2>4, <2>5
  <2> QED
    BY <2>3, <2>5, <2>6
<1>8. h = Len(a) /\ h \in Nat /\ h >= 12
  <2>1. h = 12 + 4 * c + RtpExtLen(w)
    BY DEF IsRtp, RtpHeaderEnd
  <2>2. c \in Nat /\ RtpExtLen(w) \in Nat
    BY <1>0, <1>5
  <2>3. Len(f) = 12 /\ Len(b) = 4 * c /\ Len(e) = RtpExtLen(w)
    BY <1>3, <1>4, <1>5
  <2>4. Len(a) = Len(f) + Len(b) + Len(e)
    BY <1>7
  <2> QED
    BY <2>1, <2>2, <2>3, <2>4
<1>9. ASSUME w # NoValue
      PROVE  d[12 + 4 * c + 3] = w \div 256 /\ d[12 + 4 * c + 4] = w % 256
  <2>1. 3 \in 1 .. Len(e) /\ 4 \in 1 .. Len(e)
    BY <1>5, <1>9 DEF RtpExtLen
  <2>2. d[Len(f) + Len(b) + 3] = e[3] /\ d[Len(f) + Len(b) + 4] = e[4]
    BY <1>7, <2>1
  <2> QED
    BY <1>0, <1>3, <1>4, <1>5, <1>9, <2>2
<1>10. ASSUME NEW i \in 1 .. Len(t) PROVE d[h + i] = t[i]
  BY <1>7, <1>8
<1>11. d[1] = f[1]
  BY <1>3, <1>7
<1>12. ASSUME NEW i \in 1 .. 10 PROVE d[2 + i] = i
  <2>1. 2 + i \in 1 .. Len(f)
    BY <1>3
  <2> QED
    BY <1>3, <1>7, <2>1
<1> QED
  BY <1>3, <1>6, <1>7, <1>8, <1>9, <1>10, <1>11, <1>12

LEMMA RtpCut ==
  ASSUME NEW v, NEW p, NEW c, NEW w, NEW t, NEW d, NEW h, IsRtp(v, p, c, w, t, d, h),
         NEW n, NEW buf, IsCut(d, n, buf), n >= 12
  PROVE  /\ Version(buf) = v
         /\ Extension(buf) <=> w # NoValue
         /\ CsrcEnd(buf) = 12 + 4 * c
         /\ (w # NoValue => n >= 12 + 4 * c + 4) => PayloadPos(buf) = h
         /\ \A i \in 1 .. 10 : buf[2 + i] = i
         /\ \A i \in 1 .. n - h : buf[h + i] = t[i]
<1>1. /\ d \in Seq(Num) /\ Len(d) = h + Len(t) /\ h \in Nat /\ h >= 12
      /\ d[1] = v * 64 + p * 32 + (IF w = NoValue THEN 0 ELSE 1) * 16 + c
      /\ \A i \in 1 .. 10 : d[2 + i] = i
      /\ w # NoValue => d[12 + 4 * c + 3] = w \div 256 /\ d[12 + 4 * c + 4] = w % 256
      /\ \A i \in 1 .. Len(t) : d[h + i] = t[i]
  BY RtpLayout
<1>0. /\ v \in {1, 2} /\ p \in {0, 1} /\ c \in 0 .. 15
      /\ w \in Nat \cup {NoValue} /\ Len(t) \in Nat /\ h = RtpHeaderEnd(c, w)
  BY LenProperties DEF IsRtp
<1>2. n \in Nat /\ n <= Len(d) /\ \A i \in 1 .. n : buf[i] = d[i]
  <2>1. d \in Seq(Num)
    BY <1>1
  <2> QED
    BY <2>1, CutIs
<1>3. n \in Nat /\ n <= h + Len(t)
  BY <1>1, <1>2
<1>4. PICK x \in {0, 1} : x = IF w = NoValue THEN 0 ELSE 1
  OBVIOUS
<1>5. buf[1] = v * 64 + p * 32 + x * 16 + c
  <2>1. 1 \in 1 .. n
    BY <1>3
  <2>2. buf[1] = d[1]
    BY <1>2, <2>1
  <2> QED
    BY <1>1, <1>4, <2>2
<1>6. buf[1] \div 64 = v /\ buf[1] % 16 = c /\ (buf[1] \div 16) % 2 = x
  <2>1. PICK b : b = buf[1]
    OBVIOUS
  <2>2. b = v * 64 + p * 32 + x * 16 + c
    BY <1>5, <2>1
  <2>3. b \div 64 = v /\ b % 16 = c /\ (b \div 16) % 2 = x
    BY <1>0, <1>4, <2>2
  <2> QED
    BY <2>1, <2>3
<1>7. CsrcEnd(buf) = 12 + 4 * c
  BY <1>0, <1>6 DEF CsrcEnd, CsrcCount, FixedHeader
<1>8. Extension(buf) <=> w # NoValue
  BY <1>4, <1>6 DEF Extension
<1>9. ASSUME w # NoValue => n >= 12 + 4 * c + 4
      PROVE  PayloadPos(buf) = h
  <2>1. CASE w = NoValue
    BY <1>0, <1>7, <1>8, <2>1 DEF PayloadPos, RtpHeaderEnd, RtpExtLen
  <2>2. CASE w # NoValue
    <3>1. PICK e \in Nat : e = 12 + 4 * c
      BY <1>0
    <3>2. e + 3 \in 1 .. n /\ e + 4 \in 1 .. n
      BY <1>3, <1>9, <2>2, <3>1
    <3>3. buf[e + 3] = d[e + 3] /\ buf[e + 4] = d[e + 4]
      BY <1>2, <3>2
    <3>4. buf[e + 3] = w \div 256 /\ buf[e + 4] = w % 256
      BY <1>1, <2>2, <3>1, <3>3
    <3>5. CsrcEnd(buf) = e /\ Extension(buf)
      BY <1>7, <1>8, <2>2, <3>1
    <3>6. PayloadPos(buf) = e + 4 + 4 * ((w \div 256) * 256 + (w % 256))
      BY <3>4, <3>5 DEF PayloadPos
    <3>7. w \in Nat /\ (w \div 256) * 256 + (w % 256) = w
      BY <1>0, <2>2
    <3>8. h = e + (4 + 4 * w)
      BY <1>0, <2>2, <3>1 DEF RtpHeaderEnd, RtpExtLen
    <3> QED
      BY <3>1, <3>6, <3>7, <3>8
  <2> QED
    BY <2>1, <2>2
<1>10. ASSUME NEW i \in 1 .. 10 PROVE buf[2 + i] = i
  <2>1. 2 + i \in 1 .. n
    BY <1>3
  <2>2. buf[2 + i] = d[2 + i]
    BY <1>2, <2>1
  <2> QED
    BY <1>1, <2>2
<1>11. ASSUME NEW i \in 1 .. n - h PROVE buf[h + i] = t[i]
  <2>1. i \in 1 .. Len(t) /\ h + i \in 1 .. n
    <3>1. Len(t) \in Nat /\ h \in Nat /\ h >= 12
      BY <1>0, <1>1
    <3> QED
      BY <1>3, <3>1
  <2>2. buf[h + i] = d[h + i]
    BY <1>2, <2>1
  <2> QED
    BY <1>1, <2>1, <2>2
<1> QED
  BY <1>6, <1>7, <1>8, <1>9, <1>10, <1>11 DEF Version

\* What is read of n bytes of the packet of r, whose headers are h bytes long.
IsRead(r, n, h, pkt) ==
  IF n >= FixedHeader /\ r.version # 2 THEN pkt = [err |-> UnsupportedRtpVersion]
  ELSE IF n < h THEN pkt = [err |-> PacketTooShort]
  ELSE /\ pkt.payload = SubSeq(RtpBehind(r), 1, n - h)
       /\ pkt.header.sequence = <<1, 2>>
       /\ pkt.header.timestamp = <<3, 4, 5, 6>>
       /\ pkt.header.ssrc = <<7, 8, 9, 10>>

\* Of an RTP packet cut anywhere exactly what is behind its headers is read
\* (rtp.rs:64-127).
THEOREM RtpExactCorrect == Spec => []RtpExact
<1>1. ASSUME NEW r \in RtpInputs, NEW d, d = RtpBytes(r), NEW n \in 0 .. Len(d),
             NEW pkt, pkt = ParseRtpPacket(SubSeq(d, 1, n)),
             NEW h, h = Len(RtpHeaders(r))
      PROVE  IsRead(r, n, h, pkt)
  <2> USE DEF IsRead
  <2>1. PICK v \in {1, 2}, p \in {0, 1}, c \in 0 .. 15, w \in Nat \cup {NoValue} :
          RtpHeaders(r) = RtpHead(v, p, c, w) /\ v = r.version /\ c = r.csrc /\ w = r.words
    <3>1. PICK p \in {0, 1} : p = IF r.padding = 0 THEN 0 ELSE 1
      OBVIOUS
    <3> QED
      BY <3>1, RtpInputType
  <2>2. PICK t \in Seq(Num) : t = RtpBehind(r)
    BY RtpBehindType
  <2>a. IsRtp(v, p, c, w, t, d, RtpHeaderEnd(c, w))
    BY <1>1, <2>1, <2>2 DEF IsRtp, RtpBytes
  <2>4. h = RtpHeaderEnd(c, w)
    BY <1>1, <2>1, <2>a, RtpLayout
  <2>c. IsRtp(v, p, c, w, t, d, h)
    BY <2>4, <2>a
  <2>3. d \in Seq(Num) /\ Len(d) = h + Len(t) /\ h \in Nat /\ h >= 12 /\ Len(t) \in Nat
    BY <2>c, RtpLayout, LenProperties
  <2>5. PICK buf : buf = SubSeq(d, 1, n)
    OBVIOUS
  <2>b. IsCut(d, n, buf)
    BY <1>1, <2>5 DEF IsCut
  <2>7. buf \in Seq(Num) /\ Len(buf) = n /\ n \in Nat /\ n <= Len(d)
    BY <2>3, <2>b, CutIs
  <2>6. n \in Nat /\ n <= h + Len(t)
    BY <2>3, <2>7
  <2>8. pkt = ParseRtpPacket(buf)
    BY <1>1, <2>5
  <2>9. CASE n < 12
    <3>1. pkt = [err |-> PacketTooShort]
      BY <2>7, <2>8, <2>9 DEF ParseRtpPacket, FixedHeader
    <3>2. ~ (n >= 12) /\ n < h
      BY <2>3, <2>6, <2>9
    <3> QED
      BY <2>4, <3>1, <3>2 DEF FixedHeader
  <2>10. CASE n >= 12
    <3>1. /\ Version(buf) = v
          /\ Extension(buf) <=> w # NoValue
          /\ CsrcEnd(buf) = 12 + 4 * c
          /\ (w # NoValue => n >= 12 + 4 * c + 4) => PayloadPos(buf) = h
          /\ \A i \in 1 .. 10 : buf[2 + i] = i
          /\ \A i \in 1 .. n - h : buf[h + i] = t[i]
      BY <2>c, <2>b, <2>10, RtpCut, SMTT(30)
    <3>2. ~ (n < 12)
      BY <2>6, <2>10
    <3>3. CASE v # 2
      <4>1. pkt = [err |-> UnsupportedRtpVersion]
        BY <2>7, <2>8, <3>1, <3>2, <3>3 DEF ParseRtpPacket, FixedHeader
      <4> QED
        BY <2>1, <2>10, <3>3, <4>1 DEF FixedHeader
    <3>4. CASE v = 2 /\ n < h
      <4>1. CASE w # NoValue /\ 12 + 4 * c + 4 > n
        <5>1. pkt = [err |-> PacketTooShort]
          BY <2>7, <2>8, <3>1, <3>2, <3>4, <4>1 DEF ParseRtpPacket, FixedHeader
        <5> QED
          BY <2>1, <2>4, <3>4, <5>1
      <4>2. CASE ~ (w # NoValue /\ 12 + 4 * c + 4 > n)
        <5>1. PayloadPos(buf) = h
          BY <2>1, <2>6, <3>1, <4>2
        <5>2. ~ (Extension(buf) /\ CsrcEnd(buf) + 4 > Len(buf)) /\ PayloadPos(buf) > Len(buf)
          BY <2>3, <2>6, <2>7, <3>1, <3>4, <4>2, <5>1
        <5>3. pkt = [err |-> PacketTooShort]
          BY <2>7, <2>8, <3>1, <3>2, <3>4, <5>2 DEF ParseRtpPacket, FixedHeader
        <5> QED
          BY <2>1, <2>4, <3>4, <5>3
      <4> QED
        BY <4>1, <4>2
    <3>5. CASE v = 2 /\ ~ (n < h)
      <4>1. w # NoValue => n >= 12 + 4 * c + 4
        <5> SUFFICES ASSUME w # NoValue PROVE n >= 12 + 4 * c + 4
          OBVIOUS
        <5>1. w \in Nat /\ h = 12 + 4 * c + (4 + 4 * w)
          BY <2>1, <2>4 DEF RtpHeaderEnd, RtpExtLen
        <5> QED
          <6>a. c \in 0 .. 15
            BY <2>1, Zenon
          <6>1. c \in Nat
            BY <6>a
          <6>2. h \in Nat /\ n \in Nat
            BY <2>3, <2>6
          <6>3. n >= h
            BY <3>5, <6>2
          <6> QED
            BY <5>1, <6>1, <6>2, <6>3
      <4>2. PayloadPos(buf) = h
        BY <3>1, <4>1
      <4>3. ~ (Extension(buf) /\ CsrcEnd(buf) + 4 > Len(buf)) /\ ~ (PayloadPos(buf) > Len(buf))
        <5>1. Extension(buf) => ~ (CsrcEnd(buf) + 4 > Len(buf))
          <6> SUFFICES ASSUME Extension(buf) PROVE ~ (CsrcEnd(buf) + 4 > Len(buf))
            OBVIOUS
          <6>1. n >= 12 + 4 * c + 4 /\ CsrcEnd(buf) = 12 + 4 * c
            BY <3>1, <4>1
          <6> QED
            BY <2>1, <2>6, <2>7, <6>1
        <5> QED
          BY <2>3, <2>6, <2>7, <3>5, <4>2, <5>1
      <4>4. pkt = [header |-> RtpHeader(buf), payload |-> SubSeq(buf, h + 1, n)]
        BY <2>7, <2>8, <3>1, <3>2, <3>5, <4>2, <4>3 DEF ParseRtpPacket, FixedHeader
      <4>5. SubSeq(buf, h + 1, n) = SubSeq(t, 1, n - h)
        <5>1. PICK a, z : a = SubSeq(buf, h + 1, n) /\ z = SubSeq(t, 1, n - h)
          OBVIOUS
        <5>2. h \in 0 .. Len(buf) /\ n - h \in 0 .. Len(t)
          BY <2>3, <2>6, <2>7, <3>5
        <5>3. /\ a \in Seq(Num) /\ Len(a) = n - h
              /\ \A i \in 1 .. n - h : a[i] = buf[h + i]
          <6>1. buf \in Seq(Num) /\ Len(buf) = n
            BY <2>7
          <6>2. /\ SubSeq(buf, h + 1, Len(buf)) \in Seq(Num)
                /\ Len(SubSeq(buf, h + 1, Len(buf))) = Len(buf) - h
                /\ \A i \in 1 .. Len(buf) - h : SubSeq(buf, h + 1, Len(buf))[i] = buf[h + i]
            BY <5>2, <6>1, CutInTwo
          <6> QED
            BY <5>1, <6>1, <6>2
        <5>4. z \in Seq(Num) /\ Len(z) = n - h /\ \A i \in 1 .. n - h : z[i] = t[i]
          BY <2>2, <5>1, <5>2, CutInTwo
        <5>5. \A i \in 1 .. Len(a) : a[i] = z[i]
          BY <3>1, <5>3, <5>4
        <5>6. a = z
          BY <5>3, <5>4, <5>5, SeqEqual
        <5> QED
          BY <5>1, <5>6
      <4>6. /\ buf[3] = 1 /\ buf[4] = 2 /\ buf[5] = 3 /\ buf[6] = 4 /\ buf[7] = 5
            /\ buf[8] = 6 /\ buf[9] = 7 /\ buf[10] = 8 /\ buf[11] = 9 /\ buf[12] = 10
        <5>1. \A i \in 1 .. 10 : buf[2 + i] = i
          BY <3>1
        <5> QED
          BY <5>1
      <4>7. /\ SubSeq(buf, 3, 4) = <<buf[3], buf[4]>>
            /\ SubSeq(buf, 5, 8) = <<buf[5], buf[6], buf[7], buf[8]>>
            /\ SubSeq(buf, 9, 12) = <<buf[9], buf[10], buf[11], buf[12]>>
        <5>2. SubSeq(buf, 3, 4) = <<buf[3], buf[4]>>
          <6>1. PICK x : x = <<buf[3], buf[4]>>
            OBVIOUS
          <6>2. PICK u : u = SubSeq(buf, 3, 4)
            OBVIOUS
          <6>3. u = [i \in 1 .. 2 |-> buf[2 + i]] /\ x = [i \in 1 .. 2 |-> buf[2 + i]]
            BY <6>1, <6>2
          <6> QED
            BY <6>1, <6>2, <6>3
        <5>3. SubSeq(buf, 5, 8) = <<buf[5], buf[6], buf[7], buf[8]>>
          <6>1. PICK x : x = <<buf[5], buf[6], buf[7], buf[8]>>
            OBVIOUS
          <6>2. PICK u : u = SubSeq(buf, 5, 8)
            OBVIOUS
          <6>3. u = [i \in 1 .. 4 |-> buf[4 + i]] /\ x = [i \in 1 .. 4 |-> buf[4 + i]]
            BY <6>1, <6>2
          <6> QED
            BY <6>1, <6>2, <6>3
        <5>4. SubSeq(buf, 9, 12) = <<buf[9], buf[10], buf[11], buf[12]>>
          <6>1. PICK x : x = <<buf[9], buf[10], buf[11], buf[12]>>
            OBVIOUS
          <6>2. PICK u : u = SubSeq(buf, 9, 12)
            OBVIOUS
          <6>3. u = [i \in 1 .. 4 |-> buf[8 + i]] /\ x = [i \in 1 .. 4 |-> buf[8 + i]]
            BY <6>1, <6>2
          <6> QED
            BY <6>1, <6>2, <6>3
        <5> QED
          BY <5>2, <5>3, <5>4
      <4> QED
        BY <2>1, <2>2, <3>5, <4>4, <4>5, <4>6, <4>7 DEF RtpHeader
    <3> QED
      BY <2>1, <3>3, <3>4, <3>5
  <2> QED
    BY <2>6, <2>9, <2>10
<1>2. ASSUME NEW r \in RtpInputs, NEW n \in 0 .. Len(RtpBytes(r))
      PROVE  IsRead(r, n, Len(RtpHeaders(r)), ParseRtpPacket(SubSeq(RtpBytes(r), 1, n)))
  <2>1. PICK d : d = RtpBytes(r)
    OBVIOUS
  <2> QED
    BY <1>1, <2>1
<1>3. ASSUME NEW r \in RtpInputs, input = <<r>> PROVE RtpExact
  <2>1. input[1] = r
    BY <1>3
  <2> QED
    BY <1>2, <2>1 DEF RtpExact, IsRead
<1>4. Typed => RtpExact
  BY <1>3 DEF Typed, RtpExact
<1> QED
  BY <1>4, TypeCorrect, PTL

-----------------------------------------------------------------------------
(* The WAV file *)

\* sum[i] is the length in bytes of the first i fields.
Sums(sum, fields) ==
  sum = [i \in 0 .. Len(fields) |-> IF i = 0 THEN 0 ELSE sum[i - 1] + fields[i].bytes]

\* n fields that have lengths, and the lengths of the first ones.
HaveLengths(fields, n) ==
  n \in Num /\ Len(fields) = n /\ \A i \in 1 .. n : fields[i].bytes \in Num

SumUp(sum, fields, n) ==
  /\ sum[0] = 0
  /\ \A i \in 0 .. n : sum[i] \in Num
  /\ \A i \in 1 .. n : sum[i] = sum[i - 1] + fields[i].bytes

LEMMA BytesInIs ==
  ASSUME NEW n, NEW fields, HaveLengths(fields, n)
  PROVE  \E sum : SumUp(sum, fields, n) /\ BytesIn(fields) = sum[n]
<1>0. n \in Nat /\ Len(fields) = n /\ \A i \in 1 .. n : fields[i].bytes \in Num
  BY DEF HaveLengths, Num
<1>1. \E f : Sums(f, fields)
  <2>1. PICK op : op = [i \in 1 .. n |-> [x \in Num |-> x + fields[i].bytes]]
    OBVIOUS
  <2>2. \A i \in 1 .. n : \A x \in Num : op[i][x] = x + fields[i].bytes
    BY <2>1
  <2>3. op \in [1 .. n -> [Num -> Num]]
    <3>1. \A i \in 1 .. n : [x \in Num |-> x + fields[i].bytes] \in [Num -> Num]
      BY <1>0 DEF Num
    <3> QED
      BY <2>1, <3>1
  <2>4. 0 \in Num
    BY DEF Num
  <2>5. PICK f \in [0 .. n -> Num] : f[0] = 0 /\ \A i \in 1 .. n : f[i] = op[i][f[i - 1]]
    <3>1. PICK S, base : S = Num /\ base = 0
      OBVIOUS
    <3>2. n \in Nat /\ base \in S /\ op \in [1 .. n -> [S -> S]]
      BY <1>0, <2>3, <2>4, <3>1
    <3>3. \E f \in [0 .. n -> S] : f[0] = base /\ \A i \in 1 .. n : f[i] = op[i][f[i - 1]]
      BY ONLY <3>2, FoldExists
    <3> QED
      BY <3>1, <3>3
  <2>6. ASSUME NEW i \in 1 .. n PROVE f[i] = f[i - 1] + fields[i].bytes
    <3>1. i - 1 \in 0 .. n
      BY <1>0
    <3>2. f[i - 1] \in Num
      BY <2>5, <3>1
    <3> QED
      BY <2>2, <2>5, <3>2
  <2>7. f = [i \in 0 .. n |-> IF i = 0 THEN 0 ELSE f[i - 1] + fields[i].bytes]
    <3>1. \A i \in 0 .. n : f[i] = IF i = 0 THEN 0 ELSE f[i - 1] + fields[i].bytes
      BY <1>0, <2>5, <2>6
    <3>2. f = [i \in 0 .. n |-> f[i]]
      BY <2>5
    <3> QED
      BY <3>1, <3>2
  <2> QED
    BY <1>0, <2>7 DEF Sums
<1> DEFINE F == CHOOSE f : Sums(f, fields)
<1>2. Sums(F, fields)
  BY <1>1
<1>3. BytesIn(fields) = F[n]
  BY <1>0 DEF BytesIn, Sums
<1> HIDE DEF F
<1>4. F = [i \in 0 .. n |-> IF i = 0 THEN 0 ELSE F[i - 1] + fields[i].bytes]
  BY <1>0, <1>2 DEF Sums
<1>5. F[0] = 0
  <2>1. 0 \in 0 .. n
    BY <1>0
  <2> QED
    BY <1>4, <2>1
<1>6. ASSUME NEW i \in 1 .. n PROVE F[i] = F[i - 1] + fields[i].bytes
  <2>1. i \in 0 .. n /\ i # 0
    BY <1>0
  <2> QED
    BY <1>4, <2>1
<1>7. \A i \in 0 .. n : F[i] \in Num
  <2> DEFINE P == {i \in 0 .. n : F[i] \in Num}
  <2>1. 0 \in P
    BY <1>0, <1>5 DEF Num
  <2>2. ASSUME NEW i \in 1 .. n, i - 1 \in P PROVE i \in P
    BY <1>0, <1>6, <2>2 DEF Num
  <2>3. \A i \in 0 .. n : i \in P
    <3> HIDE DEF P
    <3> QED
      BY <1>0, <2>1, <2>2, IntervalInduction
  <2> QED
    BY <2>3
<1> QED
  BY <1>3, <1>5, <1>6, <1>7 DEF SumUp

\* From the k-th field on, fields of two bytes.
LEMMA BytesOfSamples ==
  ASSUME NEW n, NEW fields, HaveLengths(fields, n), NEW sum, SumUp(sum, fields, n),
         NEW k \in 0 .. n, \A i \in k + 1 .. n : fields[i].bytes = 2
  PROVE  sum[n] = sum[k] + 2 * (n - k)
<1> DEFINE P == {i \in 0 .. n : i < k \/ sum[i] = sum[k] + 2 * (i - k)}
<1>0. n \in Nat /\ sum[k] \in Nat /\ k \in Nat /\ k <= n
  BY DEF SumUp, HaveLengths, Num
<1>1. 0 \in P
  BY <1>0
<1>2. ASSUME NEW i \in 1 .. n, i - 1 \in P PROVE i \in P
  <2>1. CASE i <= k
    BY <1>0, <2>1
  <2>2. CASE ~ (i <= k)
    <3>1. i \in k + 1 .. n /\ ~ (i - 1 < k)
      BY <1>0, <2>2
    <3>2. sum[i] = sum[i - 1] + fields[i].bytes /\ fields[i].bytes = 2
      BY <3>1 DEF SumUp
    <3>3. sum[i - 1] = sum[k] + 2 * ((i - 1) - k)
      BY <1>2, <3>1
    <3> QED
      BY <1>0, <3>2, <3>3
  <2> QED
    BY <2>1, <2>2
<1>3. n \in P
  <2> HIDE DEF P
  <2>1. \A i \in 0 .. n : i \in P
    BY <1>0, <1>1, <1>2, IntervalInduction
  <2> QED
    BY <1>0, <2>1
<1> QED
  BY <1>0, <1>3

LEMMA TupleOfThirteen ==
  ASSUME NEW S, NEW a \in S, NEW b \in S, NEW c \in S, NEW d \in S, NEW e \in S,
         NEW f \in S, NEW g \in S, NEW i \in S, NEW j \in S, NEW k \in S, NEW l \in S,
         NEW m \in S, NEW n \in S, NEW h, h = <<a, b, c, d, e, f, g, i, j, k, l, m, n>>
  PROVE  /\ h \in Seq(S) /\ Len(h) = 13
         /\ h[1] = a /\ h[2] = b /\ h[3] = c /\ h[4] = d /\ h[5] = e /\ h[6] = f /\ h[7] = g
         /\ h[8] = i /\ h[9] = j /\ h[10] = k /\ h[11] = l /\ h[12] = m /\ h[13] = n
<1>1. h \in Seq(S)
  OBVIOUS
<1>2. Len(h) = 13
  OBVIOUS
<1>3. /\ h[1] = a /\ h[2] = b /\ h[3] = c /\ h[4] = d /\ h[5] = e /\ h[6] = f /\ h[7] = g
      /\ h[8] = i /\ h[9] = j /\ h[10] = k /\ h[11] = l /\ h[12] = m /\ h[13] = n
  OBVIOUS
<1> QED
  BY <1>1, <1>2, <1>3

\* The fields of a file of n samples: thirteen of the header, which name the
\* sizes x and y and the rates u and v, then the samples.
WavFields(f, q, n, x, y, u, v) ==
  /\ Len(f) = 13 + n
  /\ f[1] = Tag("RIFF") /\ f[2] = U32(x) /\ f[3] = Tag("WAVE")
  /\ f[4] = Tag("fmt_") /\ f[5] = U32(16) /\ f[6] = U16(1) /\ f[7] = U16(1)
  /\ f[8] = U32(u) /\ f[9] = U32(v) /\ f[10] = U16(2) /\ f[11] = U16(16)
  /\ f[12] = Tag("data") /\ f[13] = U32(y)
  /\ \A i \in 1 .. n : f[13 + i] = SampleField(q[i])

\* The file f of a window of n samples.
IsWav(q, n, f, x, y, u, v) ==
  /\ q \in Seq(SampleSet) /\ n = Len(q) /\ f = WriteWavFile(WindowOf(q))
  /\ x = RiffSize(WindowOf(q)) /\ y = DataSize(WindowOf(q))
  /\ u = SampleRate /\ v = ByteRate(WindowOf(q))

LEMMA WavFileIs ==
  ASSUME NEW q, NEW n, NEW f, NEW x, NEW y, NEW u, NEW v, IsWav(q, n, f, x, y, u, v)
  PROVE  n \in Num /\ WavFields(f, q, n, x, y, u, v) /\ \E U : f \in Seq(U)
<1>1. /\ n \in Nat /\ q \in Seq(SampleSet) /\ n = Len(q)
      /\ f = WriteWavFile(WindowOf(q))
      /\ x = RiffSize(WindowOf(q)) /\ y = DataSize(WindowOf(q))
      /\ u = SampleRate /\ v = ByteRate(WindowOf(q))
  BY LenProperties DEF IsWav
<1>2. PICK a, b, c, d : a = Tag("RIFF") /\ b = U32(x) /\ c = Tag("WAVE")
                        /\ d = Tag("fmt_")
  OBVIOUS
<1>3. PICK e, g, i : e = U32(16) /\ g = U16(1) /\ i = U32(u)
  OBVIOUS
<1>4. PICK j, k, l, m, r : j = U32(v) /\ k = U16(2) /\ l = U16(16)
                           /\ m = Tag("data") /\ r = U32(y)
  OBVIOUS
<1>5. PICK w : w = [z \in 1 .. n |-> SampleField(q[z])]
  OBVIOUS
<1>6. PICK U : /\ a \in U /\ b \in U /\ c \in U /\ d \in U /\ e \in U /\ g \in U /\ i \in U
               /\ j \in U /\ k \in U /\ l \in U /\ m \in U /\ r \in U
               /\ \A z \in 1 .. n : SampleField(q[z]) \in U
  <2>1. PICK U : U = {a, b, c, d, e, g, i, j, k, l, m, r}
                       \cup {SampleField(q[z]) : z \in 1 .. n}
    OBVIOUS
  <2> QED
    BY <2>1
<1>7. PICK h : h = <<a, b, c, d, e, g, g, i, j, k, l, m, r>>
  OBVIOUS
<1>8. /\ h \in Seq(U) /\ Len(h) = 13
      /\ h[1] = a /\ h[2] = b /\ h[3] = c /\ h[4] = d /\ h[5] = e /\ h[6] = g /\ h[7] = g
      /\ h[8] = i /\ h[9] = j /\ h[10] = k /\ h[11] = l /\ h[12] = m /\ h[13] = r
  BY <1>6, <1>7, TupleOfThirteen
<1>9. w \in Seq(U) /\ Len(w) = n /\ \A z \in 1 .. n : w[z] = SampleField(q[z])
  BY <1>1, <1>5, <1>6
<1>10. f = h \o w
  <2>1. NumChannels = 1 /\ BitsPerSample = 16 /\ BytesPerSample = 2
    BY DEF NumChannels, BytesPerSample, BitsPerSample
  <2>2. PICK o : o = WindowOf(q)
    OBVIOUS
  <2>3. o.sample_rate_hz = u /\ o.samples = q
    BY <1>1, <2>2 DEF WindowOf
  <2>4. NumChannels * BytesPerSample = 2
    BY <2>1
  <2>5. b = U32(RiffSize(o)) /\ r = U32(DataSize(o)) /\ j = U32(ByteRate(o))
    BY <1>1, <1>2, <1>4, <2>2
  <2>6. /\ g = U16(NumChannels) /\ i = U32(o.sample_rate_hz)
        /\ k = U16(NumChannels * BytesPerSample) /\ l = U16(BitsPerSample)
    BY <1>3, <1>4, <2>1, <2>3, <2>4
  <2>7. h = <<Tag("RIFF"), U32(RiffSize(o)), Tag("WAVE"),
              Tag("fmt_"), U32(16), U16(1), U16(NumChannels), U32(o.sample_rate_hz),
              U32(ByteRate(o)), U16(NumChannels * BytesPerSample), U16(BitsPerSample),
              Tag("data"), U32(DataSize(o))>>
    BY <1>2, <1>3, <1>4, <1>7, <2>5, <2>6
  <2>8. w = [z \in 1 .. Len(o.samples) |-> SampleField(o.samples[z])]
    BY <1>1, <1>5, <2>3
  <2> QED
    BY <1>1, <2>2, <2>7, <2>8 DEF WriteWavFile
<1>11. h \in Seq(U) /\ w \in Seq(U)
  BY <1>8, <1>9
<1>12. /\ f \in Seq(U) /\ Len(f) = Len(h) + Len(w)
       /\ \A z \in 1 .. Len(h) : f[z] = h[z]
       /\ \A z \in 1 .. Len(w) : f[Len(h) + z] = w[z]
  BY <1>10, <1>11, ConcatTwo
<1>13. Len(f) = 13 + n /\ \A z \in 1 .. n : f[13 + z] = SampleField(q[z])
  <2>1. Len(h) = 13 /\ Len(w) = n /\ \A z \in 1 .. n : w[z] = SampleField(q[z])
    BY <1>8, <1>9
  <2>2. Len(f) = Len(h) + Len(w) /\ \A z \in 1 .. Len(w) : f[Len(h) + z] = w[z]
    BY <1>12
  <2> QED
    BY <2>1, <2>2, Zenon
<1>14. \A z \in 1 .. 13 : f[z] = h[z]
  BY <1>8, <1>12
<1>15. /\ f[1] = a /\ f[2] = b /\ f[3] = c /\ f[4] = d /\ f[5] = e /\ f[6] = g /\ f[7] = g
       /\ f[8] = i /\ f[9] = j /\ f[10] = k /\ f[11] = l /\ f[12] = m /\ f[13] = r
  BY <1>8, <1>14
<1> QED
  <2>1. n \in Num
    BY <1>1 DEF Num
  <2>2. WavFields(f, q, n, x, y, u, v)
    BY <1>2, <1>3, <1>4, <1>13, <1>15 DEF WavFields
  <2> QED
    BY <1>12, <2>1, <2>2

\* The same field by field: what is a tag, and how long it is.
LEMMA WavFieldsAre ==
  ASSUME NEW q, NEW n \in Num, NEW f, NEW x, NEW y, NEW u, NEW v,
         WavFields(f, q, n, x, y, u, v)
  PROVE  /\ HaveLengths(f, 13 + n)
         /\ f[1].bytes = 4 /\ f[2].bytes = 4 /\ f[3].bytes = 4 /\ f[4].bytes = 4
         /\ f[5].bytes = 4 /\ f[6].bytes = 2 /\ f[7].bytes = 2 /\ f[8].bytes = 4
         /\ f[9].bytes = 4 /\ f[10].bytes = 2 /\ f[11].bytes = 2 /\ f[12].bytes = 4
         /\ f[13].bytes = 4
         /\ \A i \in 14 .. 13 + n : f[i].bytes = 2 /\ f[i].kind = "sample"
<1>0. n \in Nat
  BY DEF Num
<1>1. \A z : U32(z).bytes = 4 /\ U16(z).bytes = 2 /\ Tag(z).bytes = 4
  BY DEF U32, U16, Tag
<1>2. /\ f[1].bytes = 4 /\ f[2].bytes = 4 /\ f[3].bytes = 4 /\ f[4].bytes = 4
      /\ f[5].bytes = 4 /\ f[6].bytes = 2 /\ f[7].bytes = 2 /\ f[8].bytes = 4
      /\ f[9].bytes = 4 /\ f[10].bytes = 2 /\ f[11].bytes = 2 /\ f[12].bytes = 4
      /\ f[13].bytes = 4
  BY <1>1 DEF WavFields
<1>3. ASSUME NEW i \in 14 .. 13 + n PROVE f[i].bytes = 2 /\ f[i].kind = "sample"
  <2>1. i - 13 \in 1 .. n /\ 13 + (i - 13) = i
    BY <1>0
  <2>2. f[i] = SampleField(q[i - 13])
    BY <2>1 DEF WavFields
  <2>3. \A s : SampleField(s).bytes = 2 /\ SampleField(s).kind = "sample"
    BY DEF SampleField
  <2> QED
    BY <2>2, <2>3
<1>4. ASSUME NEW i \in 1 .. 13 + n PROVE f[i].bytes \in Nat
  <2>1. i \in 14 .. 13 + n \/ i \in {1, 2, 3, 4, 5, 6, 7, 8, 9, 10, 11, 12, 13}
    BY <1>0
  <2> QED
    BY <1>2, <1>3, <2>1
<1>5. Len(f) = 13 + n /\ 13 + n \in Nat
  <2>1. Len(f) = 13 + n
    BY DEF WavFields
  <2> QED
    BY <1>0, <2>1
<1> QED
  BY <1>2, <1>3, <1>4, <1>5 DEF HaveLengths, Num

\* The sums of the lengths that the chunks' sizes are to name.
LEMMA WavSizes ==
  ASSUME NEW q, NEW n \in Num, NEW f, NEW x, NEW y, NEW u, NEW v,
         WavFields(f, q, n, x, y, u, v), NEW U, f \in Seq(U)
  PROVE  /\ BytesIn(f) = 44 + 2 * n
         /\ BytesIn(SubSeq(f, 6, 11)) = 16
         /\ BytesIn(SubSeq(f, 14, Len(f))) = 2 * n
<1>0. n \in Nat /\ Len(f) = 13 + n
  BY DEF Num, WavFields
<1>1. /\ HaveLengths(f, 13 + n)
      /\ f[1].bytes = 4 /\ f[2].bytes = 4 /\ f[3].bytes = 4 /\ f[4].bytes = 4
      /\ f[5].bytes = 4 /\ f[6].bytes = 2 /\ f[7].bytes = 2 /\ f[8].bytes = 4
      /\ f[9].bytes = 4 /\ f[10].bytes = 2 /\ f[11].bytes = 2 /\ f[12].bytes = 4
      /\ f[13].bytes = 4
      /\ \A i \in 14 .. 13 + n : f[i].bytes = 2 /\ f[i].kind = "sample"
  BY WavFieldsAre
<1>6. BytesIn(f) = 44 + 2 * n
  <2>1. PICK sum : SumUp(sum, f, 13 + n) /\ BytesIn(f) = sum[13 + n]
    BY <1>1, BytesInIs
  <2>2. /\ sum[1] = sum[0] + f[1].bytes /\ sum[2] = sum[1] + f[2].bytes
        /\ sum[3] = sum[2] + f[3].bytes /\ sum[4] = sum[3] + f[4].bytes
        /\ sum[5] = sum[4] + f[5].bytes /\ sum[6] = sum[5] + f[6].bytes
        /\ sum[7] = sum[6] + f[7].bytes /\ sum[8] = sum[7] + f[8].bytes
        /\ sum[9] = sum[8] + f[9].bytes /\ sum[10] = sum[9] + f[10].bytes
        /\ sum[11] = sum[10] + f[11].bytes /\ sum[12] = sum[11] + f[12].bytes
        /\ sum[13] = sum[12] + f[13].bytes
    <3>1. \A i \in 1 .. 13 : i \in 1 .. 13 + n
      BY <1>0
    <3>2. \A i \in 1 .. 13 : sum[i] = sum[i - 1] + f[i].bytes
      BY <2>1, <3>1 DEF SumUp
    <3> QED
      BY <3>2
  <2>3. sum[13] = 44
    <3>1. sum[0] = 0
      BY <2>1 DEF SumUp
    <3> QED
      BY <1>1, <2>2, <3>1
  <2>4. sum[13 + n] = sum[13] + 2 * ((13 + n) - 13)
    <3>1. 13 \in 0 .. 13 + n /\ 13 + 1 = 14
      BY <1>0
    <3>2. \A i \in 13 + 1 .. 13 + n : f[i].bytes = 2
      BY <1>1
    <3> QED
      BY <1>1, <2>1, <3>1, <3>2, BytesOfSamples
  <2> QED
    BY <1>0, <2>1, <2>3, <2>4
<1>7. BytesIn(SubSeq(f, 6, 11)) = 16
  <2>1. PICK g : g = SubSeq(f, 6, 11)
    OBVIOUS
  <2>2. Len(g) = 6 /\ \A i \in 1 .. 6 : g[i] = f[5 + i]
    BY <1>0, <2>1
  <2>3. /\ g[1].bytes = 2 /\ g[2].bytes = 2 /\ g[3].bytes = 4
        /\ g[4].bytes = 4 /\ g[5].bytes = 2 /\ g[6].bytes = 2
    BY <1>1, <2>2, SMTT(30)
  <2>4. HaveLengths(g, 6)
    BY <2>2, <2>3, SMTT(30) DEF HaveLengths, Num
  <2>5. PICK sum : SumUp(sum, g, 6) /\ BytesIn(g) = sum[6]
    BY <2>4, BytesInIs
  <2>6. /\ sum[0] = 0
        /\ sum[1] = sum[0] + g[1].bytes /\ sum[2] = sum[1] + g[2].bytes
        /\ sum[3] = sum[2] + g[3].bytes /\ sum[4] = sum[3] + g[4].bytes
        /\ sum[5] = sum[4] + g[5].bytes /\ sum[6] = sum[5] + g[6].bytes
    BY <2>5 DEF SumUp
  <2> QED
    BY <2>1, <2>3, <2>5, <2>6
<1>8. BytesIn(SubSeq(f, 14, Len(f))) = 2 * n
  <2>1. PICK g : g = SubSeq(f, 14, 13 + n)
    OBVIOUS
  <2>2. Len(g) = n /\ \A i \in 1 .. n : g[i] = f[13 + i]
    BY <1>0, <2>1
  <2>3. \A i \in 1 .. n : g[i].bytes = 2
    <3>1. \A i \in 1 .. n : 13 + i \in 14 .. 13 + n
      BY <1>0
    <3> QED
      BY <1>1, <2>2, <3>1
  <2>4. HaveLengths(g, n)
    BY <1>0, <2>2, <2>3 DEF HaveLengths, Num
  <2>5. PICK sum : SumUp(sum, g, n) /\ BytesIn(g) = sum[n]
    BY <2>4, BytesInIs
  <2>6. sum[n] = sum[0] + 2 * (n - 0)
    <3>1. 0 \in 0 .. n
      BY <1>0
    <3>2. \A i \in 0 + 1 .. n : g[i].bytes = 2
      BY <2>3
    <3> QED
      BY <2>4, <2>5, <3>1, <3>2, BytesOfSamples
  <2>7. sum[0] = 0
    BY <2>5 DEF SumUp
  <2> QED
    BY <1>0, <2>1, <2>5, <2>6, <2>7
<1> QED
  BY <1>6, <1>7, <1>8

\* A sample is written with its bytes reversed, and read back by reversing them.
LEMMA SampleReadBack ==
  ASSUME NEW s \in Bytes \X Bytes
  PROVE  Reverse(SampleField(s).value) = s
<1>1. PICK a \in Bytes, b \in Bytes : s = <<a, b>>
  OBVIOUS
<1>2. Reverse(s) = <<b, a>>
  <2>1. Len(s) = 2 /\ s[1] = a /\ s[2] = b
    BY <1>1
  <2>2. Reverse(s) = [i \in 1 .. 2 |-> s[(2 - i) + 1]]
    BY <2>1 DEF Reverse
  <2>3. PICK t : t = <<b, a>>
    OBVIOUS
  <2>4. t = [i \in 1 .. 2 |-> s[(2 - i) + 1]]
    BY <2>1, <2>3
  <2> QED
    BY <2>2, <2>3, <2>4
<1>3. Reverse(<<b, a>>) = s
  <2>1. PICK t : t = <<b, a>>
    OBVIOUS
  <2>2. Len(t) = 2 /\ t[1] = b /\ t[2] = a
    BY <2>1
  <2>3. Reverse(t) = [i \in 1 .. 2 |-> t[(2 - i) + 1]]
    BY <2>2 DEF Reverse
  <2>4. s = [i \in 1 .. 2 |-> t[(2 - i) + 1]]
    BY <1>1, <2>2
  <2> QED
    BY <2>1, <2>3, <2>4
<1>4. SampleField(s).value = Reverse(s)
  BY DEF SampleField
<1> QED
  BY <1>2, <1>3, <1>4

\* The sizes that the file names are those of its parts, so its reader comes to
\* the last byte, and the samples read back are the window's (decode.rs:57-100).
LEMMA WavReads ==
  ASSUME NEW q, NEW n, NEW f, NEW x, NEW y, NEW u, NEW v, IsWav(q, n, f, x, y, u, v),
         x = 36 + 2 * n, y = 2 * n
  PROVE  ReadsBack(f, q)
<1>z. PICK tags : tags = TagsOf(f)
  OBVIOUS
<1>0. tags = {i \in 1 .. Len(f) : f[i].kind = "tag"}
  BY <1>z DEF TagsOf
<1>1. n \in Num /\ WavFields(f, q, n, x, y, u, v) /\ \E U : f \in Seq(U)
  BY WavFileIs
<1>2. n \in Nat /\ Len(f) = 13 + n
  BY <1>1 DEF Num, WavFields
<1>3. /\ BytesIn(f) = 44 + 2 * n
      /\ BytesIn(SubSeq(f, 6, 11)) = 16
      /\ BytesIn(SubSeq(f, 14, Len(f))) = 2 * n
  BY <1>1, WavSizes
<1>4. \A i \in 14 .. 13 + n : f[i].kind = "sample"
  BY <1>1, WavFieldsAre
<1>5. /\ f[2].value = 36 + 2 * n /\ f[5].value = 16 /\ f[13].value = 2 * n
      /\ f[1].value = "RIFF" /\ f[3].value = "WAVE"
  <2>1. f[2] = U32(x) /\ f[5] = U32(16) /\ f[13] = U32(y)
        /\ f[1] = Tag("RIFF") /\ f[3] = Tag("WAVE")
    BY <1>1 DEF WavFields
  <2>2. \A z : U32(z).value = z /\ Tag(z).value = z
    BY DEF U32, Tag
  <2> QED
    BY <2>1, <2>2
<1>6. f[12].kind = "tag"
  <2>1. f[12] = Tag("data")
    BY <1>1 DEF WavFields
  <2> QED
    BY <2>1 DEF Tag
<1>7. \A i \in {2, 5, 6, 7, 8, 9, 10, 11, 13} : f[i].kind = "int"
  <2>1. \A z : U32(z).kind = "int" /\ U16(z).kind = "int"
    BY DEF U32, U16
  <2>2. /\ f[2] = U32(x) /\ f[5] = U32(16) /\ f[6] = U16(1) /\ f[7] = U16(1)
        /\ f[8] = U32(u) /\ f[9] = U32(v) /\ f[10] = U16(2) /\ f[11] = U16(16)
        /\ f[13] = U32(y)
    BY <1>1 DEF WavFields
  <2>3. /\ f[2].kind = "int" /\ f[5].kind = "int" /\ f[6].kind = "int" /\ f[7].kind = "int"
        /\ f[8].kind = "int" /\ f[9].kind = "int" /\ f[10].kind = "int"
        /\ f[11].kind = "int" /\ f[13].kind = "int"
    BY <2>1, <2>2
  <2> QED
    BY <2>3
<1>8. 12 \in tags
  BY <1>0, <1>2, <1>6
<1>9. ASSUME NEW t \in tags PROVE t \in {1, 3, 4, 12}
  <2>1. t \in 1 .. 13 + n /\ f[t].kind = "tag"
    BY <1>0, <1>2
  <2>2. t \in 14 .. 13 + n \/ t \in {1, 3, 4, 12}
          \/ t \in {2, 5, 6, 7, 8, 9, 10, 11, 13}
    BY <1>2, <2>1
  <2> QED
    BY <1>4, <1>7, <2>1, <2>2
<1>10. ASSUME NEW t \in tags, f[t].value \in {"fmt_", "data"}
       PROVE  \E e \in t + 1 .. Len(f) :
                /\ f[t + 1].value = BytesIn(SubSeq(f, t + 2, e))
                /\ e = Len(f) \/ e + 1 \in tags
  <2>1. t \in {4, 12}
    BY <1>5, <1>9, <1>10
  <2>2. CASE t = 4
    <3>1. 11 \in t + 1 .. Len(f) /\ t + 1 = 5 /\ t + 2 = 6
      BY <1>2, <2>2
    <3>2. f[t + 1].value = 16 /\ BytesIn(SubSeq(f, t + 2, 11)) = 16
      BY <1>3, <1>5, <3>1
    <3>3. 11 + 1 \in tags
      BY <1>8
    <3> QED
      BY <3>1, <3>2, <3>3
  <2>3. CASE t = 12
    <3>1. Len(f) \in t + 1 .. Len(f) /\ t + 1 = 13 /\ t + 2 = 14
      BY <1>2, <2>3
    <3>2. f[t + 1].value = BytesIn(SubSeq(f, t + 2, Len(f)))
      BY <1>3, <1>5, <3>1
    <3> QED
      BY <3>1, <3>2
  <2> QED
    BY <2>1, <2>2, <2>3
<1>11. [i \in 1 .. Len(q) |-> Reverse(f[13 + i].value)] = q
  <2>0. q \in Seq(SampleSet) /\ n = Len(q)
    BY DEF IsWav
  <2>1. SampleSet \subseteq Bytes \X Bytes
    BY FormatsAssumption
  <2>2. ASSUME NEW i \in 1 .. n PROVE Reverse(f[13 + i].value) = q[i]
    <3>1. q[i] \in SampleSet
      BY <2>0, ElementOfSeq
    <3>2. q[i] \in Bytes \X Bytes
      BY <2>1, <3>1
    <3>3. f[13 + i] = SampleField(q[i])
      BY <1>1 DEF WavFields
    <3> QED
      BY <3>2, <3>3, SampleReadBack
  <2>3. q = [i \in 1 .. n |-> q[i]]
    BY <2>0, LenProperties
  <2> QED
    BY <2>0, <2>2, <2>3
<1>12. f[2].value = BytesIn(f) - 8
  BY <1>2, <1>3, <1>5
<1> QED
  BY <1>10, <1>11, <1>12, <1>z DEF ReadsBack

\* A size that does not fit into a u32 is not the one that the file names.
LEMMA WavBreaks ==
  ASSUME NEW q, NEW n, NEW f, NEW x, NEW y, NEW u, NEW v, IsWav(q, n, f, x, y, u, v),
         x # 36 + 2 * n
  PROVE  ~ ReadsBack(f, q)
<1>1. n \in Num /\ WavFields(f, q, n, x, y, u, v) /\ \E U : f \in Seq(U)
  BY WavFileIs
<1>2. BytesIn(f) = 44 + 2 * n /\ n \in Nat
  BY <1>1, WavSizes DEF Num
<1>3. f[2].value = x
  BY <1>1 DEF WavFields, U32
<1>4. BytesIn(f) - 8 = 36 + 2 * n
  BY <1>2
<1> QED
  BY <1>3, <1>4 DEF ReadsBack

\* A number stays what it is as a u32 if it fits, and fits afterwards.
LEMMA AsU32Is ==
  ASSUME NEW a \in Nat
  PROVE  /\ a < U32Wrap => AsU32(a) = a
         /\ U32Wrap > 0 => AsU32(a) \in Nat /\ AsU32(a) < U32Wrap
<1>1. U32Wrap \in Nat
  BY FormatsAssumption
<1> QED
  BY <1>1 DEF AsU32

\* The sizes that the file of n samples names.
LEMMA SizesNamed ==
  ASSUME NEW q, NEW n, NEW f, NEW x, NEW y, NEW u, NEW v, IsWav(q, n, f, x, y, u, v)
  PROVE  /\ 36 + 2 * n < U32Wrap => x = 36 + 2 * n /\ y = 2 * n
         /\ ~ (36 + 2 * n < U32Wrap) => x # 36 + 2 * n
<1>1. PICK o : o = WindowOf(q)
  OBVIOUS
<1>2. n \in Nat /\ o.capacity_samples = n /\ x = RiffSize(o) /\ y = DataSize(o)
  <2>1. n = Len(q) /\ q \in Seq(SampleSet) /\ x = RiffSize(o) /\ y = DataSize(o)
    BY <1>1 DEF IsWav
  <2> QED
    BY <1>1, <2>1, LenProperties DEF WindowOf
<1>3. U32Wrap \in Nat /\ U32Wrap > 0
  BY FormatsAssumption
<1>4. y = AsU32(AsU32(n) * 1 * 2)
  BY <1>2 DEF DataSize, NumChannels, BytesPerSample, BitsPerSample
<1>5. x = AsU32(36 + y)
  <2>1. x = AsU32(4 + 8 + 16 + 8 + y)
    BY <1>2 DEF RiffSize
  <2> QED
    BY <2>1
<1>6. PICK k \in Nat : k = AsU32(n)
  BY <1>2, <1>3, AsU32Is
<1>7. y = AsU32(2 * k) /\ 2 * k \in Nat
  BY <1>4, <1>6
<1>8. y \in Nat
  BY <1>3, <1>7, AsU32Is
<1>9. CASE 36 + 2 * n < U32Wrap
  <2>1. n < U32Wrap /\ 2 * n < U32Wrap /\ 2 * n \in Nat /\ 36 + 2 * n \in Nat
    BY <1>2, <1>3, <1>9
  <2>2. k = n
    BY <1>2, <1>6, <2>1, AsU32Is
  <2>3. y = 2 * n
    BY <1>7, <2>1, <2>2, AsU32Is
  <2>4. x = 36 + 2 * n
    <3>1. PICK z \in Nat : z = 36 + 2 * n
      BY <2>1
    <3>2. x = AsU32(z) /\ z < U32Wrap
      BY <1>5, <1>9, <2>3, <3>1
    <3> QED
      BY <3>1, <3>2, AsU32Is
  <2> QED
    BY <1>9, <2>3, <2>4
<1>10. CASE ~ (36 + 2 * n < U32Wrap)
  <2>1. 36 + y \in Nat
    BY <1>8
  <2>2. x \in Nat /\ x < U32Wrap
    BY <1>3, <1>5, <2>1, AsU32Is
  <2> QED
    BY <1>2, <1>3, <1>10, <2>2
<1> QED
  BY <1>9, <1>10

\* The WAV file of a window is readable exactly when its sizes fit into 32 bits
\* (decode.rs:57-100).
THEOREM WavReadableCorrect == Spec => []WavReadable
<1>1. Typed => WavReadable
  <2> SUFFICES ASSUME Typed, kind = "wav" PROVE WavReadable
    BY DEF WavReadable
  <2>1. PICK q, n : q = input /\ n = Len(q)
    OBVIOUS
  <2>2. PICK f, x, y, u, v : /\ f = WriteWavFile(WindowOf(q))
                             /\ x = RiffSize(WindowOf(q)) /\ y = DataSize(WindowOf(q))
                             /\ u = SampleRate /\ v = ByteRate(WindowOf(q))
    OBVIOUS
  <2>3. IsWav(q, n, f, x, y, u, v)
    BY <2>1, <2>2 DEF IsWav, Typed
  <2>4. ReadsBack(f, q) <=> 36 + 2 * n < U32Wrap
    BY <2>3, SizesNamed, WavReads, WavBreaks
  <2> QED
    BY <2>1, <2>2, <2>4 DEF WavReadable
<1> QED
  BY <1>1, TypeCorrect, PTL

-----------------------------------------------------------------------------
(* The bytes of a TLV field, and what read_tlv_len makes of them *)

\* n bytes, and the numbers that the first ones make.
AreBytes(bytes, n) ==
  n \in Num /\ Len(bytes) = n /\ \A i \in 1 .. n : bytes[i] \in Num

MakeUp(acc, bytes, n) ==
  /\ acc[0] = 0
  /\ \A i \in 0 .. n : acc[i] \in Num
  /\ \A i \in 1 .. n : acc[i] = acc[i - 1] * 256 + bytes[i]

\* acc[i] is the number that the first i bytes make.
Numbers(acc, bytes) ==
  acc = [i \in 0 .. Len(bytes) |-> IF i = 0 THEN 0 ELSE acc[i - 1] * 256 + bytes[i]]

LEMMA BigEndianIs ==
  ASSUME NEW n, NEW bytes, AreBytes(bytes, n)
  PROVE  \E acc : MakeUp(acc, bytes, n) /\ BigEndian(bytes) = acc[n]
<1>0. n \in Nat /\ Len(bytes) = n /\ \A i \in 1 .. n : bytes[i] \in Num
  BY DEF AreBytes, Num
<1>1. \E f : Numbers(f, bytes)
  <2>1. PICK op : op = [i \in 1 .. n |-> [x \in Num |-> x * 256 + bytes[i]]]
    OBVIOUS
  <2>2. \A i \in 1 .. n : \A x \in Num : op[i][x] = x * 256 + bytes[i]
    BY <2>1
  <2>3. op \in [1 .. n -> [Num -> Num]]
    <3>1. \A i \in 1 .. n : [x \in Num |-> x * 256 + bytes[i]] \in [Num -> Num]
      BY <1>0 DEF Num
    <3> QED
      BY <2>1, <3>1
  <2>4. 0 \in Num
    BY DEF Num
  <2>5. PICK f \in [0 .. n -> Num] : f[0] = 0 /\ \A i \in 1 .. n : f[i] = op[i][f[i - 1]]
    <3>1. n \in Nat
      BY <1>0
    <3> QED
      BY <2>3, <2>4, <3>1, FoldExists
  <2>6. ASSUME NEW i \in 1 .. n PROVE f[i] = f[i - 1] * 256 + bytes[i]
    <3>1. i - 1 \in 0 .. n
      BY <1>0
    <3>2. f[i - 1] \in Num
      BY <2>5, <3>1
    <3> QED
      BY <2>2, <2>5, <3>2
  <2>7. f = [i \in 0 .. n |-> IF i = 0 THEN 0 ELSE f[i - 1] * 256 + bytes[i]]
    <3>1. \A i \in 0 .. n : f[i] = IF i = 0 THEN 0 ELSE f[i - 1] * 256 + bytes[i]
      BY <1>0, <2>5, <2>6
    <3>2. f = [i \in 0 .. n |-> f[i]]
      BY <2>5
    <3> QED
      BY <3>1, <3>2
  <2> QED
    BY <1>0, <2>7 DEF Numbers
<1> DEFINE F == CHOOSE f : Numbers(f, bytes)
<1>2. Numbers(F, bytes)
  BY <1>1
<1>3. BigEndian(bytes) = F[n]
  BY <1>0 DEF BigEndian, Numbers
<1> HIDE DEF F
<1>4. F = [i \in 0 .. n |-> IF i = 0 THEN 0 ELSE F[i - 1] * 256 + bytes[i]]
  BY <1>0, <1>2 DEF Numbers
<1>5. F[0] = 0
  <2>1. 0 \in 0 .. n
    BY <1>0
  <2> QED
    BY <1>4, <2>1
<1>6. ASSUME NEW i \in 1 .. n PROVE F[i] = F[i - 1] * 256 + bytes[i]
  <2>1. i \in 0 .. n /\ i # 0
    BY <1>0
  <2> QED
    BY <1>4, <2>1
<1>7. \A i \in 0 .. n : F[i] \in Num
  <2> DEFINE P == {i \in 0 .. n : F[i] \in Num}
  <2>1. 0 \in P
    BY <1>0, <1>5 DEF Num
  <2>2. ASSUME NEW i \in 1 .. n, i - 1 \in P PROVE i \in P
    BY <1>0, <1>6, <2>2 DEF Num
  <2>3. \A i \in 0 .. n : i \in P
    <3> HIDE DEF P
    <3> QED
      BY <1>0, <2>1, <2>2, IntervalInduction
  <2> QED
    BY <2>3
<1> QED
  BY <1>3, <1>5, <1>6, <1>7 DEF MakeUp

\* v in n bytes.
IsNumber(bytes, n, v) ==
  /\ n \in 1 .. 4 /\ v \in Num /\ v \div Places[n] < 256
  /\ Len(bytes) = n /\ \A i \in 1 .. n : bytes[i] = InBytes(v, n)[i]

\* A number that is written in up to four bytes.
IsLength(v, n) == n \in 1 .. 4 /\ v \in Nat

\* Its digits to base 256.
Digits(v, n) ==
  /\ \A i \in 1 .. n : /\ n - i + 1 \in 1 .. 4
                       /\ InBytes(v, n)[i] = (v \div Places[n - i + 1]) % 256
  /\ v \div Places[1] = v
  /\ \A k \in 1 .. 4 : v \div Places[k] \in Nat
  /\ \A k \in 1 .. 3 :
       v \div Places[k] = (v \div Places[k + 1]) * 256 + ((v \div Places[k]) % 256)

LEMMA DigitsIs ==
  ASSUME NEW n, NEW v, IsLength(v, n)
  PROVE  Digits(v, n)
<1> USE DEF IsLength
<1>1. ASSUME NEW i \in 1 .. n
      PROVE  n - i + 1 \in 1 .. 4 /\ InBytes(v, n)[i] = (v \div Places[n - i + 1]) % 256
  <2>1. n - i + 1 \in 1 .. 4 /\ ~ (n - i > 3)
    OBVIOUS
  <2> QED
    BY <2>1 DEF InBytes
<1>2. Places[1] = 1 /\ Places[2] = 256 /\ Places[3] = 65536 /\ Places[4] = 16777216
  BY DEF Places
<1>3. /\ v \div 1 = v /\ v \div 256 \in Nat /\ v \div 65536 \in Nat /\ v \div 16777216 \in Nat
      /\ v = (v \div 256) * 256 + (v % 256)
      /\ v \div 256 = (v \div 65536) * 256 + ((v \div 256) % 256)
      /\ v \div 65536 = (v \div 16777216) * 256 + ((v \div 65536) % 256)
  <2>1. \A x \in Nat : x \div 256 \in Nat /\ x = (x \div 256) * 256 + (x % 256)
    OBVIOUS
  <2>2. v \div 1 = v /\ v \div 65536 \in Nat /\ v \div 16777216 \in Nat
    OBVIOUS
  <2>3. (v \div 256) \div 256 = v \div 65536
    OBVIOUS
  <2>4. (v \div 65536) \div 256 = v \div 16777216
    OBVIOUS
  <2>5. v \div 256 \in Nat /\ v = (v \div 256) * 256 + (v % 256)
    BY <2>1
  <2>6. v \div 256 = ((v \div 256) \div 256) * 256 + ((v \div 256) % 256)
    BY <2>1, <2>5
  <2>7. v \div 65536 = ((v \div 65536) \div 256) * 256 + ((v \div 65536) % 256)
    BY <2>1, <2>2
  <2> QED
    BY <2>2, <2>3, <2>4, <2>5, <2>6, <2>7
<1>4. ASSUME NEW k \in 1 .. 4 PROVE v \div Places[k] \in Nat
  <2>1. k = 1 \/ k = 2 \/ k = 3 \/ k = 4
    OBVIOUS
  <2> QED
    BY <1>2, <1>3, <2>1
<1>5. ASSUME NEW k \in 1 .. 3
      PROVE  v \div Places[k] = (v \div Places[k + 1]) * 256 + ((v \div Places[k]) % 256)
  <2>1. CASE k = 1
    BY <1>2, <1>3, <2>1
  <2>2. CASE k = 2
    BY <1>2, <1>3, <2>2
  <2>3. CASE k = 3
    BY <1>2, <1>3, <2>3
  <2> QED
    BY <2>1, <2>2, <2>3
<1>6. v \div Places[1] = v
  BY <1>2, <1>3
<1> QED
  BY <1>1, <1>4, <1>5, <1>6 DEF Digits

LEMMA BigEndianOf ==
  ASSUME NEW n, NEW bytes, NEW v, IsNumber(bytes, n, v)
  PROVE  BigEndian(bytes) = v
<1>0. n \in 1 .. 4 /\ n \in Nat /\ v \in Nat /\ v \div Places[n] < 256
  BY DEF IsNumber, Num
<1>1. PICK D : D = [k \in 1 .. 4 |-> v \div Places[k]]
  OBVIOUS
<1>2. /\ \A i \in 1 .. n : n - i + 1 \in 1 .. 4 /\ bytes[i] = D[n - i + 1] % 256
      /\ D[1] = v /\ \A k \in 1 .. 4 : D[k] \in Nat
      /\ \A k \in 1 .. 3 : D[k] = D[k + 1] * 256 + (D[k] % 256)
  <2>0. Digits(v, n)
    <3>1. IsLength(v, n)
      BY <1>0 DEF IsLength
    <3> QED
      BY <3>1, DigitsIs
  <2>1. \A k \in 1 .. 4 : D[k] = v \div Places[k]
    BY <1>1
  <2>2. \A i \in 1 .. n : n - i + 1 \in 1 .. 4 /\ bytes[i] = (v \div Places[n - i + 1]) % 256
    <3>1. \A i \in 1 .. n : bytes[i] = InBytes(v, n)[i]
      BY Zenon DEF IsNumber
    <3>2. \A i \in 1 .. n : /\ n - i + 1 \in 1 .. 4
                            /\ InBytes(v, n)[i] = (v \div Places[n - i + 1]) % 256
      BY <2>0, Zenon DEF Digits
    <3> QED
      BY <3>1, <3>2, ZenonT(40)
  <2>3. \A i \in 1 .. n : bytes[i] = D[n - i + 1] % 256
    BY <2>1, <2>2
  <2>4. D[1] = v
    BY <2>0, <2>1 DEF Digits
  <2>5. \A k \in 1 .. 4 : D[k] \in Nat
    BY <2>0, <2>1 DEF Digits
  <2>6. ASSUME NEW k \in 1 .. 3 PROVE D[k] = D[k + 1] * 256 + (D[k] % 256)
    <3>1. k \in 1 .. 4 /\ k + 1 \in 1 .. 4
      OBVIOUS
    <3>2. v \div Places[k] = (v \div Places[k + 1]) * 256 + ((v \div Places[k]) % 256)
      BY <2>0 DEF Digits
    <3>3. D[k] = v \div Places[k] /\ D[k + 1] = v \div Places[k + 1]
      BY <2>1, <3>1
    <3> QED
      BY <3>2, <3>3, ZenonT(40)
  <2> QED
    BY <2>2, <2>3, <2>4, <2>5, <2>6
<1>3. D[n] < 256
  BY <1>0, <1>1
<1>4. AreBytes(bytes, n)
  <2>1. \A i \in 1 .. n : bytes[i] \in Num
    BY <1>2 DEF Num
  <2> QED
    BY <1>0, <2>1 DEF IsNumber, AreBytes, Num
<1>5. PICK acc : MakeUp(acc, bytes, n) /\ BigEndian(bytes) = acc[n]
  BY <1>4, BigEndianIs
<1>6. acc[0] = 0 /\ \A i \in 1 .. n : acc[i] = acc[i - 1] * 256 + bytes[i]
  BY <1>5 DEF MakeUp
<1> DEFINE P == {i \in 0 .. n : i > 0 => acc[i] = D[n - i + 1]}
<1>7. 0 \in P
  BY <1>0
<1>8. ASSUME NEW i \in 1 .. n, i - 1 \in P PROVE i \in P
  <2>1. PICK k : k = n - i + 1
    OBVIOUS
  <2>2. k \in 1 .. 4 /\ D[k] \in Nat /\ bytes[i] = D[k] % 256 /\ i \in 0 .. n
    BY <1>0, <1>2, <2>1
  <2>3. acc[i] = acc[i - 1] * 256 + bytes[i]
    BY <1>6
  <2>4. CASE i = 1
    <3>1. k = n /\ i - 1 = 0
      BY <1>0, <2>1, <2>4
    <3>2. acc[i - 1] = 0 /\ D[k] < 256
      BY <1>3, <1>6, <3>1
    <3>3. acc[i] = D[k]
      BY <2>2, <2>3, <3>2
    <3> QED
      BY <2>1, <2>2, <3>3
  <2>5. CASE i # 1
    <3>1. k \in 1 .. 3 /\ i - 1 > 0 /\ n - (i - 1) + 1 = k + 1
      BY <1>0, <2>1, <2>5
    <3>2. acc[i - 1] = D[k + 1]
      BY <1>8, <3>1
    <3>3. D[k] = D[k + 1] * 256 + (D[k] % 256)
      BY <1>2, <3>1
    <3>4. acc[i] = D[k]
      BY <2>2, <2>3, <3>2, <3>3
    <3> QED
      BY <2>1, <2>2, <3>4
  <2> QED
    BY <2>4, <2>5
<1>9. n \in P
  <2> HIDE DEF P
  <2>1. \A i \in 0 .. n : i \in P
    BY <1>0, <1>7, <1>8, IntervalInduction
  <2> QED
    BY <1>0, <2>1
<1>10. acc[n] = D[n - n + 1] /\ n - n + 1 = 1
  BY <1>0, <1>9
<1> QED
  BY <1>2, <1>5, <1>10

\* A field, and its bytes: a tag, h - 1 bytes of length, the value.
HeadLen(f) == IF f.long = NoValue THEN 2 ELSE 2 + f.long

IsField(f) ==
  /\ f.tag \in Num /\ f.value \in Seq(Num) /\ Len(f.value) \in Num
  /\ f.long = NoValue \/ (f.long \in 0 .. 5 /\ f.long # NoValue)
  /\ f.long = NoValue => Len(f.value) < 128
  /\ f.long \in 1 .. 4 => Len(f.value) \div Places[f.long] < 256

Encoded(f, c, h) ==
  /\ c[1] = f.tag /\ Len(c) = h + Len(f.value) /\ h = HeadLen(f)
  /\ c[2] = IF f.long = NoValue THEN Len(f.value) ELSE 128 + f.long
  /\ \A j \in 1 .. Len(f.value) : c[h + j] = f.value[j]
  /\ f.long # NoValue =>
       \A j \in 1 .. f.long : c[2 + j] = InBytes(Len(f.value), f.long)[j]

LEMMA SeqOfMore ==
  ASSUME NEW S, NEW T, S \subseteq T, NEW s \in Seq(S)
  PROVE  s \in Seq(T)
<1>1. Len(s) \in Nat /\ s = [i \in 1 .. Len(s) |-> s[i]] /\ \A i \in 1 .. Len(s) : s[i] \in S
  BY LenProperties, ElementOfSeq
<1> QED
  BY <1>1

LEMMA FieldType ==
  ASSUME NEW f \in FieldSet
  PROVE  IsField(f)
<1>1. /\ FieldSet \subseteq [tag : Bytes, value : Seq(Bytes), long : 0 .. 5 \cup {NoValue}]
      /\ f.long = NoValue => Len(f.value) < 128
      /\ f.long \in 1 .. 4 => Len(f.value) \div Places[f.long] < 256
  BY FormatsAssumption
<1>2. f.tag \in Bytes /\ f.value \in Seq(Bytes) /\ f.long \in 0 .. 5 \cup {NoValue}
  BY <1>1
<1>3. f.value \in Seq(Num)
  <2>1. Bytes \subseteq Num
    BY DEF Bytes, Num
  <2> HIDE DEF Bytes
  <2> QED
    BY <1>2, <2>1, SeqOfMore
<1>4. Len(f.value) \in Num
  BY <1>3, LenProperties DEF Num
<1>5. f.tag \in Num
  <2>1. Bytes \subseteq Num
    BY DEF Bytes, Num
  <2> QED
    BY <1>2, <2>1
<1> QED
  BY <1>1, <1>2, <1>3, <1>4, <1>5 DEF IsField

LEMMA EncodeIs ==
  ASSUME NEW f, IsField(f), NEW c, c = EncodeField(f)
  PROVE  /\ c \in Seq(Num)
         /\ f.tag = EOL => Len(c) = 1 /\ c[1] = EOL
         /\ f.tag # EOL => Encoded(f, c, HeadLen(f))
<1>0. /\ f.tag \in Num /\ f.value \in Seq(Num) /\ Len(f.value) \in Nat
      /\ f.long = NoValue \/ f.long \in 0 .. 5
  BY DEF IsField, Num
<1>1. CASE f.tag = EOL
  <2>1. c = <<EOL>>
    BY <1>1 DEF EncodeField
  <2>2. EOL \in Num
    BY DEF EOL, Num
  <2> QED
    BY <1>1, <2>1, <2>2
<1>2. CASE f.tag # EOL
  <2>1. CASE f.long = NoValue
    <3>1. PICK a : a = <<f.tag, Len(f.value)>>
      OBVIOUS
    <3>2. Len(f.value) \in Num
      BY DEF IsField
    <3>3. a \in Seq(Num) /\ Len(a) = 2 /\ a[1] = f.tag /\ a[2] = Len(f.value)
      BY <1>0, <3>1, <3>2
    <3>4. c = a \o f.value
      BY <1>2, <2>1, <3>1 DEF EncodeField
    <3>5. a \in Seq(Num) /\ f.value \in Seq(Num)
      BY <1>0, <3>3
    <3>6. /\ c \in Seq(Num) /\ Len(c) = Len(a) + Len(f.value)
          /\ \A i \in 1 .. Len(a) : c[i] = a[i]
          /\ \A i \in 1 .. Len(f.value) : c[Len(a) + i] = f.value[i]
      BY <3>4, <3>5, ConcatTwo
    <3>7. /\ c[1] = f.tag /\ c[2] = Len(f.value) /\ Len(c) = 2 + Len(f.value)
          /\ \A i \in 1 .. Len(f.value) : c[2 + i] = f.value[i]
      BY <3>3, <3>6
    <3> QED
      BY <1>2, <2>1, <3>6, <3>7 DEF Encoded, HeadLen
  <2>2. CASE f.long # NoValue
    <3>0. f.long \in 0 .. 5
      BY <1>0, <2>2
    <3>1. PICK a, m : a = <<f.tag, 128 + f.long>> /\ m = InBytes(Len(f.value), f.long)
      OBVIOUS
    <3>2. 128 + f.long \in Num
      BY <3>0 DEF Num
    <3>3. a \in Seq(Num) /\ Len(a) = 2 /\ a[1] = f.tag /\ a[2] = 128 + f.long
      BY <1>0, <3>1, <3>2
    <3>4. m \in Seq(Num) /\ Len(m) = f.long
      <4>1. PICK n, v : n = f.long /\ v = Len(f.value)
        OBVIOUS
      <4>2. n \in 0 .. 5 /\ n \in Nat /\ v \in Nat
        BY <1>0, <3>0, <4>1
      <4>3. m = [i \in 1 .. n |-> IF n - i > 3 THEN 0 ELSE (v \div Places[n - i + 1]) % 256]
        BY <3>1, <4>1 DEF InBytes
      <4>4. ASSUME NEW i \in 1 .. n, ~ (n - i > 3)
            PROVE  (v \div Places[n - i + 1]) % 256 \in Num
        <5>1. PICK k : k = n - i + 1
          OBVIOUS
        <5>2. k \in 1 .. 4
          BY <4>2, <4>4, <5>1
        <5>3. v \div Places[k] \in Nat
          <6>1. IsLength(v, 1)
            BY <4>2 DEF IsLength
          <6>2. Digits(v, 1)
            BY <6>1, DigitsIs
          <6> QED
            BY <5>2, <6>2 DEF Digits
        <5> QED
          BY <5>1, <5>3 DEF Num
      <4>5. 0 \in Num
        BY DEF Num
      <4>6. m \in [1 .. n -> Num]
        BY <4>3, <4>4, <4>5
      <4> QED
        BY <4>1, <4>2, <4>6, IsASeq, LenProperties
    <3>5. PICK b : b = a \o m
      OBVIOUS
    <3>6. c = b \o f.value
      BY <1>2, <2>2, <3>1, <3>5 DEF EncodeField
    <3>7. a \in Seq(Num) /\ m \in Seq(Num) /\ f.value \in Seq(Num)
      BY <1>0, <3>3, <3>4
    <3>8. /\ b \in Seq(Num) /\ Len(b) = Len(a) + Len(m)
          /\ \A i \in 1 .. Len(a) : b[i] = a[i]
          /\ \A i \in 1 .. Len(m) : b[Len(a) + i] = m[i]
      BY <3>5, <3>7, ConcatTwo
    <3>9. /\ c \in Seq(Num) /\ Len(c) = Len(b) + Len(f.value)
          /\ \A i \in 1 .. Len(b) : c[i] = b[i]
          /\ \A i \in 1 .. Len(f.value) : c[Len(b) + i] = f.value[i]
      <4>1. b \in Seq(Num) /\ f.value \in Seq(Num)
        BY <3>7, <3>8
      <4> QED
        BY <3>6, <4>1, ConcatTwo
    <3>10. Len(b) = 2 + f.long /\ Len(c) = 2 + f.long + Len(f.value)
      BY <3>3, <3>4, <3>8, <3>9
    <3>11. c[1] = f.tag /\ c[2] = 128 + f.long
      <4>1. 1 \in 1 .. Len(b) /\ 2 \in 1 .. Len(b)
        BY <3>0, <3>10
      <4>2. c[1] = b[1] /\ c[2] = b[2]
        BY <3>9, <4>1
      <4>3. b[1] = a[1] /\ b[2] = a[2]
        BY <3>3, <3>8
      <4> QED
        BY <3>3, <4>2, <4>3
    <3>12. ASSUME NEW j \in 1 .. f.long
           PROVE  c[2 + j] = InBytes(Len(f.value), f.long)[j]
      <4>1. 2 + j \in 1 .. Len(b)
        BY <3>0, <3>10
      <4>2. c[2 + j] = b[2 + j] /\ b[2 + j] = m[j]
        BY <3>3, <3>4, <3>8, <3>9, <4>1
      <4> QED
        BY <3>1, <4>2
    <3>13. \A i \in 1 .. Len(f.value) : c[2 + f.long + i] = f.value[i]
      BY <3>9, <3>10
    <3> QED
      BY <1>2, <2>2, <3>9, <3>10, <3>11, <3>12, <3>13 DEF Encoded, HeadLen
  <2> QED
    BY <2>1, <2>2
<1> QED
  BY <1>1, <1>2

\* k elements of buf behind the first a.
IsMiddle(buf, a, k, g) ==
  /\ buf \in Seq(Num) /\ a \in Num /\ k \in Num
  /\ a + k <= Len(buf) /\ g = SubSeq(buf, a + 1, a + k)

LEMMA Middle ==
  ASSUME NEW buf, NEW a, NEW k, NEW g, IsMiddle(buf, a, k, g)
  PROVE  /\ g \in Seq(Num) /\ Len(g) = k
         /\ \A i \in 1 .. k : g[i] = buf[a + i]
         /\ g = [i \in 1 .. k |-> buf[a + i]]
<1>0. buf \in Seq(Num)
  BY DEF IsMiddle
<1>1. /\ a \in Nat /\ k \in Nat /\ a + 1 \in Int /\ Len(buf) \in Nat
      /\ a + k <= Len(buf) /\ g = SubSeq(buf, a + 1, a + k)
  BY LenProperties DEF Num, IsMiddle
<1> DEFINE m == a + k
<1>m. m \in Int
  BY <1>1
<1>2. \A i \in a + 1 .. m : buf[i] \in Num
  <2>1. \A i \in a + 1 .. m : i \in 1 .. Len(buf)
    BY <1>1
  <2> QED
    BY <1>0, <2>1, ElementOfSeq
<1>3. /\ g \in Seq(Num) /\ Len(g) = IF a + 1 <= m THEN m - (a + 1) + 1 ELSE 0
      /\ \A i \in 1 .. m - (a + 1) + 1 : g[i] = buf[(a + 1) + i - 1]
  BY <1>1, <1>m, <1>2, SubSeqProperties
<1>4. m - (a + 1) + 1 = k /\ (~ (a + 1 <= m) => k = 0)
  BY <1>1
<1>5. Len(g) = k
  BY <1>3, <1>4
<1>6. ASSUME NEW i \in 1 .. k PROVE g[i] = buf[a + i]
  <2>1. (a + 1) + i - 1 = a + i
    BY <1>1
  <2> QED
    BY <1>3, <1>4, <2>1
<1>7. g = [i \in 1 .. k |-> g[i]]
  BY <1>3, <1>5, LenProperties
<1> QED
  BY <1>3, <1>5, <1>6, <1>7

\* What read_tlv_len returns: a length and a position further on.
LEMMA ReadTlvLenType ==
  ASSUME NEW buf \in Seq(Num), NEW p \in Num, p > 0,
         NEW l, l = ReadTlvLen(buf, p), l # NoValue
  PROVE  l.len \in Num /\ l.pos \in Num /\ l.pos > p
<1>0. p \in Nat /\ Len(buf) \in Nat
  BY LenProperties DEF Num
<1>1. p <= Len(buf)
  BY <1>0 DEF ReadTlvLen
<1>2. buf[p] \in Nat
  <2>1. p \in 1 .. Len(buf)
    BY <1>0, <1>1
  <2>2. buf[p] \in Num
    BY <2>1, ElementOfSeq
  <2> QED
    BY <2>2 DEF Num
<1>3. CASE buf[p] < 128
  <2>1. l = [len |-> buf[p], pos |-> p + 1]
    BY <1>1, <1>3 DEF ReadTlvLen
  <2> QED
    BY <1>0, <1>2, <2>1 DEF Num
<1>4. CASE ~ (buf[p] < 128)
  <2>1. PICK n : n = buf[p] % 128
    OBVIOUS
  <2>2. n # 0 /\ ~ (n > 4) /\ ~ (p + n > Len(buf))
    BY <1>0, <1>1, <1>4, <2>1 DEF ReadTlvLen
  <2>3. n \in 1 .. 4 /\ p + n <= Len(buf)
    <3>1. PICK x, m : x = buf[p] /\ m = Len(buf)
      OBVIOUS
    <3>2. x \in Nat /\ m \in Nat /\ p \in Nat
      BY <1>0, <1>2, <3>1
    <3>3. n = x % 128 /\ n # 0 /\ ~ (n > 4) /\ ~ (p + n > m)
      BY <2>1, <2>2, <3>1
    <3>4. n \in 1 .. 4 /\ p + n <= m
      BY ONLY <3>2, <3>3
    <3> QED
      BY <3>1, <3>4
  <2>4. PICK g : g = SubSeq(buf, p + 1, p + n)
    OBVIOUS
  <2>5. l = [len |-> BigEndian(g), pos |-> p + n + 1]
    BY <1>1, <1>4, <2>1, <2>2, <2>4 DEF ReadTlvLen
  <2>6. Len(g) = n /\ \A i \in 1 .. n : g[i] = buf[p + i]
    BY <1>0, <2>3, <2>4
  <2>7. ASSUME NEW i \in 1 .. n PROVE g[i] \in Num
    <3>1. p + i \in 1 .. Len(buf)
      BY <1>0, <2>3
    <3>2. buf[p + i] \in Num
      BY <3>1, ElementOfSeq
    <3> QED
      BY <2>6, <3>2
  <2>8. AreBytes(g, n)
    <3>1. n \in Num
      BY <2>3 DEF Num
    <3> QED
      BY <2>6, <2>7, <3>1 DEF AreBytes
  <2>9. PICK acc : MakeUp(acc, g, n) /\ BigEndian(g) = acc[n]
    BY <2>8, BigEndianIs
  <2>10. BigEndian(g) \in Nat
    BY <2>3, <2>9 DEF MakeUp, Num
  <2>11. l.len = BigEndian(g) /\ l.pos = p + n + 1
    BY <2>5
  <2> QED
    BY <1>0, <2>3, <2>10, <2>11 DEF Num
<1> QED
  BY <1>3, <1>4

\* The bytes c of the field f stand at p, as far as buf reaches.
Stands(f, c, p, buf) ==
  /\ IsField(f) /\ c = EncodeField(f) /\ Len(c) \in Num
  /\ p \in Num /\ p > 0 /\ buf \in Seq(Num) /\ Len(buf) \in Num
  /\ \A j \in 1 .. Len(c) : p - 1 + j <= Len(buf) => buf[p - 1 + j] = c[j]

\* Where the walk over the fields ends.
Stop(buf, p) ==
  \/ p > Len(buf) \/ buf[p] = EOL
  \/ ReadTlvLen(buf, p + 1) = NoValue
  \/ ReadTlvLen(buf, p + 1).pos + ReadTlvLen(buf, p + 1).len - 1 > Len(buf)

\* A field that is there as a whole and can be read.
Complete(f, c, p, buf) ==
  f.tag # EOL /\ f.long # 0 /\ f.long # 5 /\ p - 1 + Len(c) <= Len(buf)

\* What the walk reads at p then.
ReadsField(f, c, p, buf) ==
  /\ ~ Stop(buf, p) /\ buf[p] = f.tag
  /\ ReadTlvLen(buf, p + 1).pos + ReadTlvLen(buf, p + 1).len = p + Len(c)
  /\ SubSeq(buf, ReadTlvLen(buf, p + 1).pos,
            ReadTlvLen(buf, p + 1).pos + ReadTlvLen(buf, p + 1).len - 1) = f.value

\* The length at p + 1, when its bytes are there.
LEMMA ReadLength ==
  ASSUME NEW f, NEW c, NEW p, NEW buf, Stands(f, c, p, buf), f.tag # EOL,
         f.long # 0, f.long # 5, p - 1 + HeadLen(f) <= Len(buf)
  PROVE  /\ ReadTlvLen(buf, p + 1).len = Len(f.value)
         /\ ReadTlvLen(buf, p + 1).pos = p + HeadLen(f)
         /\ ReadTlvLen(buf, p + 1) # NoValue
<1>0. /\ p \in Nat /\ p > 0 /\ Len(buf) \in Nat /\ Len(c) \in Nat /\ Len(f.value) \in Nat
      /\ f.long = NoValue \/ (f.long \in 1 .. 4 /\ f.long # NoValue)
      /\ f.long = NoValue => Len(f.value) < 128
  BY DEF Stands, IsField, Num
<1>1. Encoded(f, c, HeadLen(f))
  BY EncodeIs DEF Stands
<1>2. \A j \in 1 .. Len(c) : p - 1 + j <= Len(buf) => buf[p - 1 + j] = c[j]
  BY DEF Stands
<1>3. PICK l : l = ReadTlvLen(buf, p + 1)
  OBVIOUS
<1>4. \A x, y \in Nat : [len |-> x, pos |-> y] # NoValue
  <2>1. \A x, y \in Nat : [len |-> x, pos |-> y] \in [len : Nat, pos : Nat]
    OBVIOUS
  <2> QED
    BY <2>1, NoValueAssumption
<1>5. CASE f.long = NoValue
  <2>1. HeadLen(f) = 2 /\ Len(c) = 2 + Len(f.value) /\ c[2] = Len(f.value)
    BY <1>1, <1>5 DEF HeadLen, Encoded
  <2>2. buf[p + 1] = Len(f.value) /\ p + 1 <= Len(buf)
    <3>1. 2 \in 1 .. Len(c) /\ p - 1 + 2 = p + 1 /\ p + 1 <= Len(buf)
      BY <1>0, <2>1
    <3> QED
      BY <1>2, <2>1, <3>1
  <2>3. l = [len |-> Len(f.value), pos |-> p + 2]
    <3>1. l = [len |-> buf[p + 1], pos |-> p + 1 + 1]
      <4>1. ~ (p + 1 > Len(buf)) /\ buf[p + 1] < 128
        BY <1>0, <1>5, <2>2
      <4> QED
        BY <1>3, <4>1, Zenon DEF ReadTlvLen
    <3>2. p + 1 + 1 = p + 2
      BY <1>0
    <3> QED
      BY <2>2, <3>1, <3>2
  <2>4. l # NoValue /\ l.len = Len(f.value) /\ l.pos = p + 2
    BY <1>0, <1>4, <2>3
  <2> QED
    BY <1>3, <2>1, <2>4
<1>6. CASE f.long # NoValue
  <2>0. f.long \in 1 .. 4
    BY <1>0, <1>6
  <2>1. /\ HeadLen(f) = 2 + f.long /\ Len(c) = 2 + f.long + Len(f.value)
        /\ c[2] = 128 + f.long
        /\ \A j \in 1 .. f.long : c[2 + j] = InBytes(Len(f.value), f.long)[j]
    BY <1>1, <1>6 DEF HeadLen, Encoded
  <2>a. PICK k, n, v : k = f.long /\ n = Len(buf) /\ v = Len(f.value)
    OBVIOUS
  <2>b. /\ k \in 1 .. 4 /\ n \in Nat /\ v \in Nat /\ p \in Nat /\ p > 0
        /\ Len(c) = 2 + k + v /\ HeadLen(f) = 2 + k
    BY <1>0, <2>0, <2>1, <2>a
  <2>c. p - 1 + (2 + k) <= n
    BY <2>a, <2>b
  <2>d. p + 1 <= n /\ p + 1 + k <= n
    BY <2>b, <2>c
  <2>2. buf[p + 1] = 128 + f.long /\ p + 1 <= Len(buf) /\ p + 1 + f.long <= Len(buf)
    <3>1. 2 \in 1 .. Len(c) /\ p - 1 + 2 = p + 1
      BY <2>b
    <3> QED
      BY <1>2, <2>1, <2>a, <2>d, <3>1
  <2>3. PICK g : g = SubSeq(buf, p + 1 + 1, p + 1 + f.long)
    OBVIOUS
  <2>4. buf \in Seq(Num)
    BY DEF Stands
  <2>5. Len(g) = f.long /\ \A i \in 1 .. f.long : g[i] = buf[p + 1 + i]
    <3>1. PICK a : a = p + 1
      OBVIOUS
    <3>2. a \in Num /\ k \in Num /\ a + k <= Len(buf)
      BY <2>a, <2>b, <2>d, <3>1 DEF Num
    <3>3. IsMiddle(buf, a, k, g)
      BY <2>3, <2>4, <2>a, <3>1, <3>2 DEF IsMiddle
    <3>4. Len(g) = k /\ \A i \in 1 .. k : g[i] = buf[a + i]
      BY <3>3, Middle
    <3> QED
      BY <2>a, <3>1, <3>4
  <2>6. ASSUME NEW i \in 1 .. f.long PROVE g[i] = InBytes(Len(f.value), f.long)[i]
    <3>1. 2 + i \in 1 .. Len(c) /\ p - 1 + (2 + i) = p + 1 + i /\ p + 1 + i <= Len(buf)
      <4>1. i \in 1 .. k
        BY <2>a
      <4>2. 2 + i \in 1 .. 2 + k + v /\ p - 1 + (2 + i) = p + 1 + i /\ p + 1 + i <= n
        BY <2>b, <2>d, <4>1
      <4> QED
        BY <2>a, <2>b, <4>2
    <3>2. buf[p + 1 + i] = c[2 + i]
      BY <1>2, <3>1
    <3> QED
      BY <2>1, <2>5, <3>2
  <2>7. IsNumber(g, f.long, Len(f.value))
    <3>1. Len(f.value) \in Num /\ Len(f.value) \div Places[f.long] < 256
      BY <1>0, <2>0 DEF Num, Stands, IsField
    <3> QED
      BY <2>0, <2>5, <2>6, <3>1 DEF IsNumber
  <2>8. BigEndian(g) = Len(f.value)
    BY <2>7, BigEndianOf
  <2>9. buf[p + 1] % 128 = f.long /\ ~ (buf[p + 1] < 128)
    BY <2>0, <2>2
  <2>10. l = [len |-> BigEndian(g), pos |-> p + 1 + f.long + 1]
    <3>1. ~ (p + 1 > Len(buf)) /\ f.long # 0 /\ ~ (f.long > 4) /\ ~ (p + 1 + f.long > Len(buf))
      <4>1. ~ (p + 1 > n) /\ k # 0 /\ ~ (k > 4) /\ ~ (p + 1 + k > n)
        BY ONLY <2>b, <2>d
      <4> QED
        BY <2>a, <4>1, Zenon
    <3> QED
      BY <1>3, <2>3, <2>9, <3>1 DEF ReadTlvLen
  <2>11. l = [len |-> Len(f.value), pos |-> p + (2 + f.long)]
    <3>1. p + 1 + f.long + 1 = p + (2 + f.long)
      BY <1>0, <2>0
    <3> QED
      BY <2>8, <2>10, <3>1
  <2>12. p + (2 + f.long) \in Nat
    BY <1>0, <2>0
  <2>13. l # NoValue /\ l.len = Len(f.value) /\ l.pos = p + (2 + f.long)
    BY <1>0, <1>4, <2>11, <2>12
  <2> QED
    BY <1>3, <2>1, <2>13
<1> QED
  BY <1>5, <1>6

LEMMA ReadField ==
  ASSUME NEW f, NEW c, NEW p, NEW buf, Stands(f, c, p, buf)
  PROVE  /\ Complete(f, c, p, buf) => ReadsField(f, c, p, buf)
         /\ ~ Complete(f, c, p, buf) => Stop(buf, p)
<1>0. /\ p \in Nat /\ p > 0 /\ Len(buf) \in Nat /\ Len(c) \in Nat /\ Len(f.value) \in Nat
      /\ f.long = NoValue \/ (f.long \in 0 .. 5 /\ f.long # NoValue)
  BY DEF Stands, IsField, Num
<1>1. f.tag # EOL => Encoded(f, c, HeadLen(f))
  BY EncodeIs DEF Stands
<1>2. \A j \in 1 .. Len(c) : p - 1 + j <= Len(buf) => buf[p - 1 + j] = c[j]
  BY DEF Stands
<1>3. HeadLen(f) \in Nat /\ HeadLen(f) >= 2
  BY <1>0 DEF HeadLen
<1>4. ASSUME Complete(f, c, p, buf) PROVE ReadsField(f, c, p, buf)
  <2>1. /\ f.tag # EOL /\ f.long # 0 /\ f.long # 5 /\ p - 1 + Len(c) <= Len(buf)
    BY <1>4 DEF Complete
  <2>2. /\ c[1] = f.tag /\ Len(c) = HeadLen(f) + Len(f.value)
        /\ \A j \in 1 .. Len(f.value) : c[HeadLen(f) + j] = f.value[j]
    BY <1>1, <2>1 DEF Encoded
  <2>3. p - 1 + HeadLen(f) <= Len(buf)
    BY <1>0, <1>3, <2>1, <2>2
  <2>4. /\ ReadTlvLen(buf, p + 1).len = Len(f.value)
        /\ ReadTlvLen(buf, p + 1).pos = p + HeadLen(f)
        /\ ReadTlvLen(buf, p + 1) # NoValue
    BY <2>1, <2>3, ReadLength
  <2>5. p <= Len(buf) /\ buf[p] = f.tag
    <3>1. 1 \in 1 .. Len(c) /\ p - 1 + 1 = p /\ p <= Len(buf)
      <4>1. PICK n, k, h, v : n = Len(buf) /\ k = Len(c) /\ h = HeadLen(f) /\ v = Len(f.value)
        OBVIOUS
      <4>2. n \in Nat /\ k \in Nat /\ v \in Nat /\ p \in Nat /\ h \in Nat /\ h >= 2
        BY <1>0, <1>3, <4>1
      <4>3. k = h + v /\ p - 1 + k <= n
        BY <2>1, <2>2, <4>1
      <4>4. 1 \in 1 .. k /\ p - 1 + 1 = p /\ p <= n
        BY ONLY <4>2, <4>3
      <4> QED
        BY <4>1, <4>4
    <3>2. buf[p] = c[1]
      BY <1>2, <3>1
    <3> QED
      BY <2>2, <3>1, <3>2
  <2>6. PICK l : l = ReadTlvLen(buf, p + 1)
    OBVIOUS
  <2>7. l.pos + l.len = p + Len(c) /\ l.pos + l.len - 1 = p - 1 + Len(c)
    <3>1. PICK k, h, v, x, y : /\ k = Len(c) /\ h = HeadLen(f) /\ v = Len(f.value)
                               /\ x = l.pos /\ y = l.len
      OBVIOUS
    <3>2. k \in Nat /\ v \in Nat /\ p \in Nat /\ h \in Nat
      BY <1>0, <1>3, <3>1
    <3>3. k = h + v /\ x = p + h /\ y = v
      BY <2>2, <2>4, <2>6, <3>1, Zenon
    <3>4. x + y = p + k /\ x + y - 1 = p - 1 + k
      BY ONLY <3>2, <3>3
    <3> QED
      BY <3>1, <3>4, Zenon
  <2>8. ~ Stop(buf, p)
    BY <1>0, <2>1, <2>4, <2>5, <2>6, <2>7 DEF Stop
  <2>9. PICK g : g = SubSeq(buf, l.pos, l.pos + l.len - 1)
    OBVIOUS
  <2>10. buf \in Seq(Num) /\ f.value \in Seq(Num)
    BY DEF Stands, IsField
  <2>a. PICK h, n, v : h = HeadLen(f) /\ n = Len(buf) /\ v = Len(f.value)
    OBVIOUS
  <2>b. /\ h \in Nat /\ h >= 2 /\ n \in Nat /\ v \in Nat /\ p \in Nat /\ p > 0
        /\ Len(c) = h + v /\ p - 1 + (h + v) <= n
    BY <1>0, <1>3, <2>1, <2>2, <2>a
  <2>11. g = [j \in 1 .. Len(f.value) |-> buf[p + HeadLen(f) + j - 1]]
    <3>1. PICK a : a = p + h - 1
      OBVIOUS
    <3>2. a \in Nat /\ a + 1 = p + h
      BY <2>b, <3>1
    <3>3. a + v = p - 1 + (h + v) /\ a + v <= n
      BY <2>b, <3>1
    <3>4. a \in Num /\ v \in Num
      BY <2>b, <3>2 DEF Num
    <3>5. l.pos = p + h /\ l.pos + l.len - 1 = p - 1 + (h + v)
      BY <2>4, <2>6, <2>7, <2>a, <2>b
    <3>6. g = SubSeq(buf, a + 1, a + v)
      BY <2>9, <3>2, <3>3, <3>5
    <3>7. IsMiddle(buf, a, v, g)
      BY <2>10, <2>a, <3>3, <3>4, <3>6 DEF IsMiddle
    <3>8. g = [i \in 1 .. v |-> buf[a + i]]
      BY <3>7, Middle
    <3>9. ASSUME NEW i \in 1 .. v PROVE a + i = p + h + i - 1
      BY <2>b, <3>1
    <3> QED
      BY <2>a, <3>8, <3>9
  <2>12. ASSUME NEW j \in 1 .. Len(f.value) PROVE buf[p + HeadLen(f) + j - 1] = f.value[j]
    <3>1. /\ HeadLen(f) + j \in 1 .. Len(c) /\ p - 1 + (HeadLen(f) + j) = p + HeadLen(f) + j - 1
          /\ p - 1 + (HeadLen(f) + j) <= Len(buf)
      <4>1. j \in 1 .. v
        BY <2>a
      <4>2. h + j \in 1 .. h + v /\ p - 1 + (h + j) = p + h + j - 1 /\ p - 1 + (h + j) <= n
        BY <2>b, <4>1
      <4> QED
        BY <2>a, <2>b, <4>2
    <3>2. buf[p - 1 + (HeadLen(f) + j)] = c[HeadLen(f) + j]
      BY <1>2, <3>1
    <3> QED
      BY <2>2, <3>1, <3>2
  <2>13. f.value = [j \in 1 .. Len(f.value) |-> f.value[j]]
    BY <2>10, LenProperties
  <2>14. g = f.value
    BY <2>11, <2>12, <2>13
  <2> QED
    BY <2>5, <2>6, <2>7, <2>8, <2>9, <2>14 DEF ReadsField
<1>5. ASSUME ~ Complete(f, c, p, buf), ~ Stop(buf, p) PROVE FALSE
  <2>1. PICK l : l = ReadTlvLen(buf, p + 1)
    OBVIOUS
  <2>2. p <= Len(buf) /\ buf[p] # EOL /\ l # NoValue /\ ~ (l.pos + l.len - 1 > Len(buf))
    BY <1>0, <1>5, <2>1 DEF Stop
  <2>3. f.tag # EOL
    <3> SUFFICES ASSUME f.tag = EOL PROVE FALSE
      OBVIOUS
    <3>1. Len(c) = 1 /\ c[1] = EOL
      BY EncodeIs DEF Stands
    <3>2. 1 \in 1 .. Len(c) /\ p - 1 + 1 = p
      BY <1>0, <3>1
    <3> QED
      BY <1>2, <2>2, <3>1, <3>2
  <2>4. /\ c[2] = IF f.long = NoValue THEN Len(f.value) ELSE 128 + f.long
        /\ Len(c) = HeadLen(f) + Len(f.value)
    BY <1>1, <2>3 DEF Encoded
  <2>5. p + 1 <= Len(buf)
    BY <1>0, <2>1, <2>2 DEF ReadTlvLen
  <2>6. buf[p + 1] = c[2]
    <3>1. 2 \in 1 .. Len(c) /\ p - 1 + 2 = p + 1
      BY <1>0, <1>3, <2>4
    <3> QED
      BY <1>2, <2>5, <3>1
  <2>7. f.long # 0 /\ f.long # 5
    <3> SUFFICES ASSUME f.long = 0 \/ f.long = 5 PROVE FALSE
      OBVIOUS
    <3>1. f.long # NoValue
      BY NoValueAssumption
    <3>2. buf[p + 1] = 128 + f.long /\ ~ (buf[p + 1] < 128)
      BY <2>4, <2>6, <3>1
    <3>3. buf[p + 1] % 128 = f.long
      BY <3>2
    <3>4. l = NoValue
      BY <2>1, <3>2, <3>3 DEF ReadTlvLen
    <3> QED
      BY <2>2, <3>4
  <2>8. p - 1 + HeadLen(f) <= Len(buf)
    <3>1. CASE f.long = NoValue
      BY <1>0, <2>5, <3>1 DEF HeadLen
    <3>2. CASE f.long # NoValue
      <4>1. f.long \in 1 .. 4 /\ HeadLen(f) = 2 + f.long
        BY <1>0, <2>7, <3>2 DEF HeadLen
      <4>2. buf[p + 1] = 128 + f.long /\ ~ (buf[p + 1] < 128)
        BY <2>4, <2>6, <3>2, <4>1
      <4>3. buf[p + 1] % 128 = f.long
        BY <4>1, <4>2
      <4>4. ~ (p + 1 + f.long > Len(buf))
        BY <2>1, <2>2, <4>2, <4>3 DEF ReadTlvLen
      <4> QED
        BY <1>0, <4>1, <4>4
    <3> QED
      BY <3>1, <3>2
  <2>9. l.len = Len(f.value) /\ l.pos = p + HeadLen(f)
    BY <2>1, <2>3, <2>7, <2>8, ReadLength
  <2>10. p - 1 + Len(c) <= Len(buf)
    BY <1>0, <1>3, <2>2, <2>4, <2>9
  <2> QED
    BY <1>5, <2>3, <2>7, <2>10 DEF Complete
<1> QED
  BY <1>4, <1>5

-----------------------------------------------------------------------------
(* The two walks over the fields *)

\* What the walk over the fields finds at p, and where it goes on.
NextAt(buf, p) == ReadTlvLen(buf, p + 1).pos + ReadTlvLen(buf, p + 1).len

ValueAt(buf, p) ==
  SubSeq(buf, ReadTlvLen(buf, p + 1).pos,
         ReadTlvLen(buf, p + 1).pos + ReadTlvLen(buf, p + 1).len - 1)

ItemAt(buf, p) == [tag |-> buf[p], value |-> ValueAt(buf, p)]

FieldWalk(F, buf) ==
  F = [p \in Nat |-> IF Stop(buf, p) THEN <<>> ELSE <<ItemAt(buf, p)>> \o F[NextAt(buf, p)]]

PeekWalk(P, buf) ==
  P = [p \in Nat |-> IF Stop(buf, p) THEN NoValue
                     ELSE IF buf[p] = TAG_OUTPUT_SSRC THEN DecodeU32(ValueAt(buf, p))
                     ELSE P[NextAt(buf, p)]]

LEMMA NextAtIs ==
  ASSUME NEW buf \in Seq(Num), NEW p \in Num, ~ Stop(buf, p)
  PROVE  NextAt(buf, p) \in Num /\ NextAt(buf, p) > p
<1>1. p + 1 \in Num /\ p + 1 > 0 /\ p \in Nat
  BY DEF Num
<1>2. PICK l : l = ReadTlvLen(buf, p + 1)
  OBVIOUS
<1>3. l # NoValue
  BY <1>2 DEF Stop
<1>4. l.len \in Num /\ l.pos \in Num /\ l.pos > p + 1
  BY <1>1, <1>2, <1>3, ReadTlvLenType
<1>5. l.pos + l.len \in Nat /\ l.pos + l.len > p
  BY <1>1, <1>4 DEF Num
<1> QED
  BY <1>2, <1>5 DEF NextAt, Num

\* What WalkExists asks of such a walk.
LEMMA WalkGoesOn ==
  ASSUME NEW buf \in Seq(Num)
  PROVE  \E stop, next, m :
           /\ m \in Nat /\ stop \in [Nat -> BOOLEAN] /\ next \in [Nat -> Nat]
           /\ \A p \in Nat : p > m => stop[p]
           /\ \A p \in Nat : ~ stop[p] => next[p] > p
           /\ \A p \in Nat : stop[p] = Stop(buf, p)
           /\ \A p \in Nat : ~ stop[p] => next[p] = NextAt(buf, p)
<1>1. PICK m : m = Len(buf)
  OBVIOUS
<1>2. PICK stop : stop = [p \in Nat |-> Stop(buf, p)]
  OBVIOUS
<1>3. PICK next : next = [p \in Nat |-> IF Stop(buf, p) THEN 0 ELSE NextAt(buf, p)]
  OBVIOUS
<1>4. \A p : Stop(buf, p) \in BOOLEAN
  BY DEF Stop
<1>5. stop \in [Nat -> BOOLEAN] /\ \A p \in Nat : stop[p] = Stop(buf, p)
  BY <1>2, <1>4
<1>6. \A p \in Nat : ~ Stop(buf, p) => NextAt(buf, p) \in Nat /\ NextAt(buf, p) > p
  BY NextAtIs DEF Num
<1>7. next \in [Nat -> Nat] /\ \A p \in Nat : ~ stop[p] => next[p] = NextAt(buf, p)
  BY <1>3, <1>5, <1>6
<1>8. \A p \in Nat : p > m => stop[p]
  BY <1>1, <1>5 DEF Stop
<1>9. \A p \in Nat : ~ stop[p] => next[p] > p
  BY <1>5, <1>6, <1>7
<1>10. m \in Nat
  BY <1>1, LenProperties
<1> QED
  BY <1>5, <1>7, <1>8, <1>9, <1>10

LEMMA FieldsFromIs ==
  ASSUME NEW buf \in Seq(Num)
  PROVE  \E F : /\ FieldsFrom(buf) = F
                /\ \A p \in Num : F[p] = IF Stop(buf, p) THEN <<>>
                                         ELSE <<ItemAt(buf, p)>> \o F[NextAt(buf, p)]
<1>1. \E F : FieldWalk(F, buf)
  <2>1. PICK stop, next, m :
           /\ m \in Nat /\ stop \in [Nat -> BOOLEAN] /\ next \in [Nat -> Nat]
           /\ \A p \in Nat : p > m => stop[p]
           /\ \A p \in Nat : ~ stop[p] => next[p] > p
           /\ \A p \in Nat : stop[p] = Stop(buf, p)
           /\ \A p \in Nat : ~ stop[p] => next[p] = NextAt(buf, p)
    BY WalkGoesOn
  <2>2. PICK U : \A p \in Nat : ItemAt(buf, p) \in U
    <3>1. \A p \in Nat : ItemAt(buf, p) \in {ItemAt(buf, x) : x \in Nat}
      OBVIOUS
    <3> QED
      BY <3>1
  <2>3. PICK T : T = Seq(U)
    OBVIOUS
  <2>4. PICK end : end = [p \in Nat |-> <<>>]
    OBVIOUS
  <2>5. end \in [Nat -> T] /\ \A p \in Nat : end[p] = <<>>
    BY <2>3, <2>4
  <2>6. PICK op : op = [p \in Nat |-> [s \in T |-> <<ItemAt(buf, p)>> \o s]]
    OBVIOUS
  <2>7. op \in [Nat -> [T -> T]] /\ \A p \in Nat : \A s \in T : op[p][s] = <<ItemAt(buf, p)>> \o s
    <3>1. ASSUME NEW p \in Nat, NEW s \in T PROVE <<ItemAt(buf, p)>> \o s \in T
      <4>1. PICK x : x = ItemAt(buf, p)
        OBVIOUS
      <4>2. x \in U
        BY <2>2, <4>1
      <4>3. <<x>> \in Seq(U) /\ s \in Seq(U)
        BY <2>3, <4>2
      <4> QED
        BY <2>3, <4>1, <4>3, ConcatProperties
    <3>2. \A p \in Nat : [s \in T |-> <<ItemAt(buf, p)>> \o s] \in [T -> T]
      BY <3>1
    <3> QED
      BY <2>6, <3>2
  <2>w. IsWalk(T, m, end, stop, op, next)
    BY <2>1, <2>5, <2>7 DEF IsWalk
  <2>x. PICK f : WalkedBy(f, T, end, stop, op, next)
    BY <2>w, WalkExists
  <2>8. /\ f \in [Nat -> T]
        /\ \A p \in Nat : f[p] = IF stop[p] THEN end[p] ELSE op[p][f[next[p]]]
    BY <2>x DEF WalkedBy
  <2>9. ASSUME NEW p \in Nat
        PROVE  f[p] = IF Stop(buf, p) THEN <<>> ELSE <<ItemAt(buf, p)>> \o f[NextAt(buf, p)]
    <3>1. CASE Stop(buf, p)
      BY <2>1, <2>5, <2>8, <3>1
    <3>2. CASE ~ Stop(buf, p)
      <4>1. ~ stop[p] /\ next[p] = NextAt(buf, p) /\ next[p] \in Nat
        BY <2>1, <3>2
      <4>2. f[p] = op[p][f[next[p]]] /\ f[next[p]] \in T
        BY <2>8, <4>1
      <4> QED
        BY <2>7, <3>2, <4>1, <4>2
    <3> QED
      BY <3>1, <3>2
  <2>10. f = [p \in Nat |-> f[p]]
    BY <2>8
  <2> QED
    BY <2>9, <2>10 DEF FieldWalk
<1> DEFINE F == CHOOSE f : FieldWalk(f, buf)
<1>2. FieldWalk(F, buf)
  BY <1>1
<1>3. FieldsFrom(buf) = F
  BY Zenon DEF FieldsFrom, FieldWalk, Stop, ItemAt, NextAt, ValueAt
<1> HIDE DEF F
<1>4. \A p \in Num : F[p] = IF Stop(buf, p) THEN <<>>
                            ELSE <<ItemAt(buf, p)>> \o F[NextAt(buf, p)]
  BY <1>2 DEF FieldWalk, Num
<1> QED
  BY <1>3, <1>4

LEMMA PeekFromIs ==
  ASSUME NEW buf \in Seq(Num)
  PROVE  \E P : /\ PeekFrom(buf) = P
                /\ \A p \in Num : P[p] = IF Stop(buf, p) THEN NoValue
                                         ELSE IF buf[p] = TAG_OUTPUT_SSRC
                                         THEN DecodeU32(ValueAt(buf, p))
                                         ELSE P[NextAt(buf, p)]
<1>1. \E P : PeekWalk(P, buf)
  <2>1. PICK stop, next, m :
           /\ m \in Nat /\ stop \in [Nat -> BOOLEAN] /\ next \in [Nat -> Nat]
           /\ \A p \in Nat : p > m => stop[p]
           /\ \A p \in Nat : ~ stop[p] => next[p] > p
           /\ \A p \in Nat : stop[p] = Stop(buf, p)
           /\ \A p \in Nat : ~ stop[p] => next[p] = NextAt(buf, p)
    BY WalkGoesOn
  <2>2. PICK T : NoValue \in T /\ \A p \in Nat : DecodeU32(ValueAt(buf, p)) \in T
    <3>1. PICK T : T = {NoValue} \cup {DecodeU32(ValueAt(buf, p)) : p \in Nat}
      OBVIOUS
    <3> QED
      BY <3>1
  <2>4. PICK end : end = [p \in Nat |-> NoValue]
    OBVIOUS
  <2>5. end \in [Nat -> T] /\ \A p \in Nat : end[p] = NoValue
    BY <2>2, <2>4
  <2>6. PICK op : op = [p \in Nat |-> [s \in T |-> IF buf[p] = TAG_OUTPUT_SSRC
                                                  THEN DecodeU32(ValueAt(buf, p)) ELSE s]]
    OBVIOUS
  <2>7. /\ op \in [Nat -> [T -> T]]
        /\ \A p \in Nat : \A s \in T :
             op[p][s] = IF buf[p] = TAG_OUTPUT_SSRC THEN DecodeU32(ValueAt(buf, p)) ELSE s
    <3>1. \A p \in Nat : [s \in T |-> IF buf[p] = TAG_OUTPUT_SSRC
                                     THEN DecodeU32(ValueAt(buf, p)) ELSE s] \in [T -> T]
      BY <2>2
    <3> QED
      BY <2>6, <3>1
  <2>w. IsWalk(T, m, end, stop, op, next)
    BY <2>1, <2>5, <2>7 DEF IsWalk
  <2>x. PICK f : WalkedBy(f, T, end, stop, op, next)
    BY <2>w, WalkExists
  <2>8. /\ f \in [Nat -> T]
        /\ \A p \in Nat : f[p] = IF stop[p] THEN end[p] ELSE op[p][f[next[p]]]
    BY <2>x DEF WalkedBy
  <2>9. ASSUME NEW p \in Nat
        PROVE  f[p] = IF Stop(buf, p) THEN NoValue
                      ELSE IF buf[p] = TAG_OUTPUT_SSRC THEN DecodeU32(ValueAt(buf, p))
                      ELSE f[NextAt(buf, p)]
    <3>1. CASE Stop(buf, p)
      BY <2>1, <2>5, <2>8, <3>1
    <3>2. CASE ~ Stop(buf, p)
      <4>1. ~ stop[p] /\ next[p] = NextAt(buf, p) /\ next[p] \in Nat
        BY <2>1, <3>2
      <4>2. f[p] = op[p][f[next[p]]] /\ f[next[p]] \in T
        BY <2>8, <4>1
      <4> QED
        BY <2>7, <3>2, <4>1, <4>2
    <3> QED
      BY <3>1, <3>2
  <2>10. f = [p \in Nat |-> f[p]]
    BY <2>8
  <2> QED
    BY <2>9, <2>10 DEF PeekWalk
<1> DEFINE P == CHOOSE f : PeekWalk(f, buf)
<1>2. PeekWalk(P, buf)
  BY <1>1
<1>3. PeekFrom(buf) = P
  BY Zenon DEF PeekFrom, PeekWalk, Stop, NextAt, ValueAt
<1> HIDE DEF P
<1>4. \A p \in Num : P[p] = IF Stop(buf, p) THEN NoValue
                            ELSE IF buf[p] = TAG_OUTPUT_SSRC THEN DecodeU32(ValueAt(buf, p))
                            ELSE P[NextAt(buf, p)]
  BY <1>2 DEF PeekWalk, Num
<1> QED
  BY <1>3, <1>4

-----------------------------------------------------------------------------
(* The packet: its fields one after another, those that came through whole *)

\* d is x with the sequences of E behind it, one after another.
IsPile(x, E, d) ==
  E \in Seq(Seq(Num)) /\ x \in Seq(Num) /\ d = x \o FlattenSeq(E)

\* The length of d up to the i-th of them.
Upto(x, E, i) == Len(x \o FlattenSeq(SubSeq(E, 1, i)))

PileEnds(x, E, d) ==
  /\ d \in Seq(Num) /\ Len(d) \in Num /\ Len(x) \in Num /\ Len(E) \in Num
  /\ Upto(x, E, 0) = Len(x) /\ Upto(x, E, Len(E)) = Len(d)
  /\ \A j \in 1 .. Len(x) : d[j] = x[j]

LEMMA PileIs ==
  ASSUME NEW x, NEW E, NEW d, IsPile(x, E, d)
  PROVE  PileEnds(x, E, d)
<1>0. E \in Seq(Seq(Num)) /\ x \in Seq(Num) /\ d = x \o FlattenSeq(E)
  BY DEF IsPile
<1>1. FlattenSeq(E) \in Seq(Num) /\ Len(E) \in Num /\ Len(x) \in Num
  BY <1>0, FlattenSeqType, LenProperties DEF Num
<1>2. /\ d \in Seq(Num) /\ \A j \in 1 .. Len(x) : d[j] = x[j]
  BY <1>0, <1>1, ConcatTwo
<1>3. Len(d) \in Num
  BY <1>2, LenProperties DEF Num
<1>4. Upto(x, E, 0) = Len(x)
  <2>1. 0 \in 0 .. Len(E)
    BY <1>1 DEF Num
  <2>2. SubSeq(E, 1, 0) \in Seq(Seq(Num)) /\ Len(SubSeq(E, 1, 0)) = 0
    BY <1>0, <2>1, CutInTwo
  <2>3. SubSeq(E, 1, 0) = <<>>
    BY <2>2, EmptySeq
  <2>4. FlattenSeq(SubSeq(E, 1, 0)) = <<>>
    BY <2>3 DEF FlattenSeq
  <2>5. x \o FlattenSeq(SubSeq(E, 1, 0)) = x
    BY <1>0, <2>4, ConcatEmptySeq
  <2> QED
    BY <2>5 DEF Upto
<1>5. Upto(x, E, Len(E)) = Len(d)
  <2>1. Len(E) \in 0 .. Len(E)
    BY <1>1 DEF Num
  <2>2. /\ SubSeq(E, 1, Len(E)) \in Seq(Seq(Num)) /\ Len(SubSeq(E, 1, Len(E))) = Len(E)
        /\ \A i \in 1 .. Len(E) : SubSeq(E, 1, Len(E))[i] = E[i]
    BY <1>0, <2>1, CutInTwo
  <2>3. SubSeq(E, 1, Len(E)) = E
    BY <1>0, <2>2, SeqEqual
  <2> QED
    BY <1>0, <2>3 DEF Upto
<1> QED
  BY <1>1, <1>2, <1>3, <1>4, <1>5 DEF PileEnds

PileStep(x, E, d, i) ==
  /\ Upto(x, E, i - 1) \in Num /\ Upto(x, E, i) \in Num
  /\ Len(E[i]) \in Num /\ Upto(x, E, i - 1) >= Len(x)
  /\ Upto(x, E, i) = Upto(x, E, i - 1) + Len(E[i]) /\ Upto(x, E, i) <= Len(d)
  /\ \A j \in 1 .. Len(E[i]) : d[Upto(x, E, i - 1) + j] = E[i][j]

LEMMA PileAt ==
  ASSUME NEW x, NEW E, NEW d, IsPile(x, E, d), NEW i \in 1 .. Len(E)
  PROVE  PileStep(x, E, d, i)
<1>0. E \in Seq(Seq(Num)) /\ x \in Seq(Num) /\ d = x \o FlattenSeq(E)
  BY DEF IsPile
<1>1. Len(E) \in Nat /\ i \in Nat /\ i - 1 \in 0 .. Len(E) /\ i \in 0 .. Len(E) /\ i - 1 \in Nat
  BY <1>0, LenProperties
<1>2. PICK a, b, c, g : a = SubSeq(E, 1, i - 1) /\ b = SubSeq(E, 1, i)
                         /\ c = SubSeq(E, i + 1, Len(E)) /\ g = E[i]
  OBVIOUS
<1>3. /\ a \in Seq(Seq(Num)) /\ Len(a) = i - 1 /\ \A j \in 1 .. i - 1 : a[j] = E[j]
  <2>1. PICK k : k = i - 1
    OBVIOUS
  <2>2. k \in 0 .. Len(E)
    BY <1>1, <2>1
  <2>3. /\ SubSeq(E, 1, k) \in Seq(Seq(Num)) /\ Len(SubSeq(E, 1, k)) = k
        /\ \A j \in 1 .. k : SubSeq(E, 1, k)[j] = E[j]
    BY <1>0, <2>2, CutInTwo
  <2> QED
    BY <1>2, <2>1, <2>3, Zenon
<1>4. /\ b \in Seq(Seq(Num)) /\ Len(b) = i /\ \A j \in 1 .. i : b[j] = E[j]
      /\ c \in Seq(Seq(Num)) /\ b \o c = E
  BY <1>0, <1>1, <1>2, CutInTwo
<1>5. g \in Seq(Num)
  BY <1>0, <1>2, ElementOfSeq
<1>6. b = Append(a, g)
  <2>1. /\ Append(a, g) \in Seq(Seq(Num)) /\ Len(Append(a, g)) = Len(a) + 1
        /\ \A j \in 1 .. Len(a) : Append(a, g)[j] = a[j]
        /\ Append(a, g)[Len(a) + 1] = g
    BY <1>3, <1>5, AppendProperties
  <2>2. PICK h : h = Append(a, g)
    OBVIOUS
  <2>3. Len(h) = Len(b)
    BY <1>1, <1>3, <1>4, <2>1, <2>2
  <2>4. ASSUME NEW j \in 1 .. Len(b) PROVE b[j] = h[j]
    <3>1. CASE j = i
      <4>1. Len(a) + 1 = i
        BY <1>1, <1>3
      <4> QED
        BY <1>2, <1>4, <2>1, <2>2, <3>1, <4>1
    <3>2. CASE j # i
      <4>1. j \in 1 .. i - 1 /\ j \in 1 .. Len(a) /\ j \in 1 .. i
        BY <1>1, <1>3, <1>4, <3>2
      <4>2. b[j] = E[j] /\ a[j] = E[j] /\ h[j] = a[j]
        BY <1>3, <1>4, <2>1, <2>2, <4>1
      <4> QED
        BY <4>2
    <3> QED
      BY <3>1, <3>2
  <2> QED
    BY <1>4, <2>1, <2>2, <2>3, <2>4, SeqEqual
<1>7. PICK s, t, u : s = FlattenSeq(a) /\ t = FlattenSeq(b) /\ u = FlattenSeq(c)
  OBVIOUS
<1>8. s \in Seq(Num) /\ t \in Seq(Num) /\ u \in Seq(Num)
  BY <1>3, <1>4, <1>7, FlattenSeqType
<1>9. t = s \o g
  BY <1>3, <1>5, <1>6, <1>7, FlattenSeqAppend
<1>10. d = x \o (t \o u)
  BY <1>0, <1>4, <1>7, FlattenSeqConcat
<1>11. PICK k, l, m, p : k = x \o s /\ l = x \o t /\ m = (x \o t) \o u /\ p = (x \o s) \o g
  OBVIOUS
<1>12. m = d /\ p = l
  <2>1. \A v, w, y \in Seq(Num) : Cat(Cat(v, w), y) = Cat(v, Cat(w, y))
    BY CatAssociative
  <2>2. Cat(Cat(x, t), u) = Cat(x, Cat(t, u)) /\ Cat(Cat(x, s), g) = Cat(x, Cat(s, g))
    BY <1>0, <1>5, <1>8, <2>1, SMTT(30)
  <2>3. (x \o t) \o u = x \o (t \o u) /\ (x \o s) \o g = x \o (s \o g)
    BY <2>2, Zenon DEF Cat
  <2> QED
    BY <1>9, <1>10, <1>11, <2>3, Zenon
<1>13. k \in Seq(Num) /\ Len(k) = Len(x) + Len(s)
  BY <1>0, <1>8, <1>11, ConcatTwo
<1>14. l \in Seq(Num)
  BY <1>0, <1>8, <1>11, ConcatTwo
<1>15. d = l \o u /\ l = k \o g
  BY <1>11, <1>12
<1>16. /\ Len(d) = Len(l) + Len(u)
       /\ \A j \in 1 .. Len(l) : d[j] = l[j]
  BY <1>8, <1>14, <1>15, ConcatTwo
<1>17. /\ Len(l) = Len(k) + Len(g)
       /\ \A j \in 1 .. Len(g) : l[Len(k) + j] = g[j]
  <2>1. k \in Seq(Num) /\ g \in Seq(Num) /\ l = k \o g
    BY <1>5, <1>13, <1>15
  <2> QED
    BY <2>1, ConcatTwo
<1>18. /\ Len(x) \in Nat /\ Len(s) \in Nat /\ Len(g) \in Nat /\ Len(k) \in Nat
       /\ Len(l) \in Nat /\ Len(u) \in Nat
  BY <1>0, <1>5, <1>8, <1>13, <1>14, LenProperties
<1>19. Upto(x, E, i - 1) = Len(k) /\ Upto(x, E, i) = Len(l)
  BY <1>2, <1>7, <1>11 DEF Upto
<1>20. ASSUME NEW j \in 1 .. Len(g) PROVE d[Len(k) + j] = g[j]
  <2>1. Len(k) + j \in 1 .. Len(l)
    BY <1>17, <1>18
  <2> QED
    BY <1>16, <1>17, <2>1
<1>21. Len(k) >= Len(x) /\ Len(l) <= Len(d)
  BY <1>13, <1>16, <1>18
<1> QED
  BY <1>2, <1>17, <1>18, <1>19, <1>20, <1>21 DEF PileStep, Num

\* The bytes of each field of a packet.
Encodings(q) == [i \in 1 .. Len(q) |-> EncodeField(q[i])]

LEMMA EncodingsType ==
  ASSUME NEW q \in Seq(FieldSet), NEW E, E = Encodings(q)
  PROVE  /\ E \in Seq(Seq(Num)) /\ Len(E) = Len(q)
         /\ \A i \in 1 .. Len(q) : E[i] = EncodeField(q[i])
<1>1. Len(q) \in Nat
  BY LenProperties
<1>2. ASSUME NEW i \in 1 .. Len(q) PROVE EncodeField(q[i]) \in Seq(Num)
  <2>1. q[i] \in FieldSet
    BY ElementOfSeq
  <2> QED
    BY <2>1, FieldType, EncodeIs
<1>3. PICK T : T = Seq(Num)
  OBVIOUS
<1>4. E \in [1 .. Len(q) -> T]
  BY <1>2, <1>3 DEF Encodings
<1>5. E \in Seq(T)
  BY <1>1, <1>4, IsASeq
<1>6. Len(E) = Len(q)
  BY <1>1, <1>4, <1>5, LenProperties
<1> QED
  BY <1>3, <1>5, <1>6 DEF Encodings

\* The packet of these fields, which begins with t.
IsPacket(t, q, d) == t \in Num /\ q \in Seq(FieldSet) /\ d = StatusPacket(t, q)

LEMMA PacketIsPile ==
  ASSUME NEW t, NEW q, NEW d, IsPacket(t, q, d)
  PROVE  IsPile(<<t>>, Encodings(q), d)
<1>1. t \in Num /\ q \in Seq(FieldSet) /\ d = StatusPacket(t, q)
  BY DEF IsPacket
<1>2. PICK E : E = Encodings(q)
  OBVIOUS
<1>3. E \in Seq(Seq(Num))
  BY <1>1, <1>2, EncodingsType
<1>4. <<t>> \in Seq(Num)
  BY <1>1
<1>5. d = <<t>> \o FlattenSeq(E)
  BY <1>1, <1>2, Zenon DEF StatusPacket, Encodings
<1> QED
  BY <1>2, <1>3, <1>4, <1>5 DEF IsPile

LEMMA EndIsUpto ==
  ASSUME NEW q \in Seq(FieldSet), NEW i \in 0 .. Len(q)
  PROVE  EndOfField(q, i) = Upto(<<PKT_STATUS>>, Encodings(q), i)
<1>1. PICK E, s, F : E = Encodings(q) /\ s = SubSeq(q, 1, i) /\ F = Encodings(s)
  OBVIOUS
<1>2. /\ s \in Seq(FieldSet) /\ Len(s) = i /\ \A j \in 1 .. i : s[j] = q[j]
  BY <1>1, CutInTwo
<1>3. /\ E \in Seq(Seq(Num)) /\ Len(E) = Len(q)
      /\ \A j \in 1 .. Len(q) : E[j] = EncodeField(q[j])
  BY <1>1, EncodingsType
<1>4. /\ F \in Seq(Seq(Num)) /\ Len(F) = i
      /\ \A j \in 1 .. i : F[j] = EncodeField(s[j])
  <2>1. s \in Seq(FieldSet) /\ F = Encodings(s)
    BY <1>1, <1>2
  <2>2. /\ F \in Seq(Seq(Num)) /\ Len(F) = Len(s)
        /\ \A j \in 1 .. Len(s) : F[j] = EncodeField(s[j])
    BY <2>1, EncodingsType
  <2> QED
    BY <1>2, <2>2
<1>5. PICK g : g = SubSeq(E, 1, i)
  OBVIOUS
<1>6. g \in Seq(Seq(Num)) /\ Len(g) = i /\ \A j \in 1 .. i : g[j] = E[j]
  BY <1>3, <1>5, CutInTwo
<1>7. Len(q) \in Nat /\ i \in Nat /\ i <= Len(q)
  BY LenProperties
<1>8. ASSUME NEW j \in 1 .. i PROVE F[j] = g[j]
  <2>1. j \in 1 .. Len(q)
    BY <1>7
  <2> QED
    BY <1>2, <1>3, <1>4, <1>6, <2>1, Zenon
<1>9. F = g
  BY <1>4, <1>6, <1>8, SeqEqual
<1>10. EndOfField(q, i) = Len(<<PKT_STATUS>> \o FlattenSeq(F))
  BY <1>1, Zenon DEF EndOfField, StatusPacket, Encodings
<1>11. Upto(<<PKT_STATUS>>, E, i) = Len(<<PKT_STATUS>> \o FlattenSeq(g))
  BY <1>5, Zenon DEF Upto
<1> QED
  BY <1>1, <1>9, <1>10, <1>11

\* Where field i of a packet d is.
LaidOut(q, d, i) ==
  /\ EndOfField(q, i - 1) \in Num /\ EndOfField(q, i) \in Num
  /\ EndOfField(q, i - 1) >= 1 /\ Len(EncodeField(q[i])) \in Num
  /\ EndOfField(q, i) = EndOfField(q, i - 1) + Len(EncodeField(q[i]))
  /\ EndOfField(q, i) <= Len(d)
  /\ \A j \in 1 .. Len(EncodeField(q[i])) :
       d[EndOfField(q, i - 1) + j] = EncodeField(q[i])[j]

LEMMA FieldsLaidOut ==
  ASSUME NEW q, NEW d, IsPacket(PKT_STATUS, q, d), NEW i \in 1 .. Len(q)
  PROVE  LaidOut(q, d, i)
<1>1. q \in Seq(FieldSet)
  BY DEF IsPacket
<1>2. PICK E, x : E = Encodings(q) /\ x = <<PKT_STATUS>>
  OBVIOUS
<1>3. IsPile(x, E, d)
  BY <1>2, PacketIsPile
<1>4. Len(E) = Len(q) /\ E[i] = EncodeField(q[i])
  BY <1>1, <1>2, EncodingsType
<1>5. PileStep(x, E, d, i)
  BY <1>3, <1>4, PileAt
<1>6. i \in 0 .. Len(q) /\ i - 1 \in 0 .. Len(q)
  BY <1>1, LenProperties
<1>7. EndOfField(q, i) = Upto(x, E, i) /\ EndOfField(q, i - 1) = Upto(x, E, i - 1)
  BY <1>1, <1>2, <1>6, EndIsUpto
<1>8. Len(x) = 1
  BY <1>2
<1> QED
  BY <1>4, <1>5, <1>7, <1>8 DEF LaidOut, PileStep

\* A packet begins with its type; the first field begins behind it, the last one
\* ends with the packet.
LEMMA PacketEnds ==
  ASSUME NEW t, NEW q, NEW d, IsPacket(t, q, d)
  PROVE  /\ d \in Seq(Num) /\ Len(d) \in Num /\ d[1] = t /\ Len(q) \in Num
         /\ EndOfField(q, 0) = 1
<1>1. q \in Seq(FieldSet) /\ t \in Num
  BY DEF IsPacket
<1>2. PICK E, x, y : E = Encodings(q) /\ x = <<t>> /\ y = <<PKT_STATUS>>
  OBVIOUS
<1>3. PileEnds(x, E, d)
  BY <1>2, PacketIsPile, PileIs
<1>4. PICK p : p = StatusPacket(PKT_STATUS, q)
  OBVIOUS
<1>5. IsPacket(PKT_STATUS, q, p)
  BY <1>1, <1>4 DEF IsPacket, PKT_STATUS, Num
<1>6. PileEnds(y, E, p)
  BY <1>2, <1>5, PacketIsPile, PileIs
<1>7. Len(x) = 1 /\ x[1] = t /\ Len(y) = 1
  BY <1>2
<1>8. d \in Seq(Num) /\ Len(d) \in Num /\ d[1] = x[1]
  BY <1>3, <1>7 DEF PileEnds
<1>9. Len(q) \in Nat
  BY <1>1, LenProperties
<1>10. EndOfField(q, 0) = Upto(y, E, 0)
  BY <1>1, <1>2, <1>9, EndIsUpto
<1> QED
  BY <1>6, <1>7, <1>8, <1>9, <1>10 DEF PileEnds, Num

\* A packet cut behind n bytes.
IsCutPacket(q, n, d, buf) ==
  IsPacket(PKT_STATUS, q, d) /\ IsCut(d, n, buf)

LEMMA FieldStands ==
  ASSUME NEW q, NEW n, NEW d, NEW buf, IsCutPacket(q, n, d, buf), NEW i \in 1 .. Len(q)
  PROVE  Stands(q[i], EncodeField(q[i]), EndOfField(q, i - 1) + 1, buf)
<1>1. IsPacket(PKT_STATUS, q, d) /\ IsCut(d, n, buf) /\ q \in Seq(FieldSet)
  BY DEF IsCutPacket, IsPacket
<1>2. d \in Seq(Num)
  BY <1>1, PacketEnds
<1>3. /\ buf \in Seq(Num) /\ Len(buf) = n /\ n \in Nat
      /\ \A j \in 1 .. n : buf[j] = d[j]
  BY <1>1, <1>2, CutIs
<1>4. LaidOut(q, d, i)
  BY <1>1, FieldsLaidOut
<1>5. PICK c, a : c = EncodeField(q[i]) /\ a = EndOfField(q, i - 1)
  OBVIOUS
<1>6. /\ a \in Nat /\ Len(c) \in Nat
      /\ \A j \in 1 .. Len(c) : d[a + j] = c[j]
  BY <1>4, <1>5 DEF LaidOut, Num
<1>7. IsField(q[i])
  <2>1. q[i] \in FieldSet
    BY <1>1, ElementOfSeq
  <2> QED
    BY <2>1, FieldType
<1>8. ASSUME NEW j \in 1 .. Len(c), (a + 1) - 1 + j <= Len(buf)
      PROVE  buf[(a + 1) - 1 + j] = c[j]
  <2>1. (a + 1) - 1 + j = a + j /\ a + j \in 1 .. n
    BY <1>3, <1>6, <1>8
  <2> QED
    BY <1>3, <1>6, <2>1
<1>9. a + 1 \in Num /\ a + 1 > 0 /\ Len(buf) \in Num /\ Len(c) \in Num
  BY <1>3, <1>6 DEF Num
<1>10. Stands(q[i], c, a + 1, buf)
  BY <1>3, <1>5, <1>7, <1>8, <1>9 DEF Stands
<1> QED
  BY <1>5, <1>10

\* A field is complete when the reference reader would know it.
Stops(q, n, i) ==
  q[i].tag = EOL \/ q[i].long \in {0, 5} \/ EndOfField(q, i) > n

LEMMA StopsOrReads ==
  ASSUME NEW q, NEW n, NEW d, NEW buf, IsCutPacket(q, n, d, buf), NEW i \in 1 .. Len(q)
  PROVE  /\ ~ Stops(q, n, i) =>
              ReadsField(q[i], EncodeField(q[i]), EndOfField(q, i - 1) + 1, buf)
         /\ Stops(q, n, i) => Stop(buf, EndOfField(q, i - 1) + 1)
<1>1. IsPacket(PKT_STATUS, q, d) /\ IsCut(d, n, buf) /\ q \in Seq(FieldSet)
  BY DEF IsCutPacket, IsPacket
<1>2. d \in Seq(Num)
  BY <1>1, PacketEnds
<1>3. Len(buf) = n /\ n \in Nat
  BY <1>1, <1>2, CutIs
<1>4. LaidOut(q, d, i)
  BY <1>1, FieldsLaidOut
<1>5. PICK f, c, a, p, e : /\ f = q[i] /\ c = EncodeField(f) /\ a = EndOfField(q, i - 1)
                          /\ p = a + 1 /\ e = EndOfField(q, i)
  OBVIOUS
<1>6. a \in Nat /\ Len(c) \in Nat /\ e = a + Len(c)
  BY <1>4, <1>5 DEF LaidOut, Num
<1>7. Stands(f, c, p, buf)
  BY <1>5, FieldStands
<1>8. /\ Complete(f, c, p, buf) => ReadsField(f, c, p, buf)
      /\ ~ Complete(f, c, p, buf) => Stop(buf, p)
  BY <1>7, ReadField
<1>9. p - 1 + Len(c) <= Len(buf) <=> ~ (e > n)
  <2>1. PICK k \in Nat : k = Len(c)
    BY <1>6
  <2>2. p = a + 1 /\ e = a + k /\ Len(buf) = n
    BY <1>3, <1>5, <1>6, <2>1
  <2>3. p - 1 + k <= n <=> ~ (e > n)
    BY <1>3, <1>6, <2>2
  <2> QED
    BY <2>1, <2>2, <2>3
<1>10. Stops(q, n, i) <=> f.tag = EOL \/ f.long = 0 \/ f.long = 5 \/ e > n
  BY <1>5 DEF Stops
<1>11. Complete(f, c, p, buf) <=> ~ Stops(q, n, i)
  BY <1>9, <1>10 DEF Complete
<1> QED
  BY <1>5, <1>8, <1>11

LEMMA LastFieldEnds ==
  ASSUME NEW q, NEW d, IsPacket(PKT_STATUS, q, d)
  PROVE  EndOfField(q, Len(q)) = Len(d)
<1>1. q \in Seq(FieldSet)
  BY DEF IsPacket
<1>2. PICK E, x : E = Encodings(q) /\ x = <<PKT_STATUS>>
  OBVIOUS
<1>3. PileEnds(x, E, d)
  BY <1>2, PacketIsPile, PileIs
<1>4. Len(E) = Len(q) /\ Len(q) \in 0 .. Len(q)
  BY <1>1, <1>2, EncodingsType, LenProperties
<1>5. EndOfField(q, Len(q)) = Upto(x, E, Len(q))
  BY <1>1, <1>2, <1>4, EndIsUpto
<1> QED
  BY <1>3, <1>4, <1>5 DEF PileEnds

\* The whole fields are the first m, and the walk reads just them.
WholeUpTo(q, n, buf, m) ==
  /\ m \in Num /\ m <= Len(q) /\ Whole(q, n) = SubSeq(q, 1, m)
  /\ \A i \in 1 .. m :
       ReadsField(q[i], EncodeField(q[i]), EndOfField(q, i - 1) + 1, buf)
  /\ Stop(buf, EndOfField(q, m) + 1)

LEMMA WholeIs ==
  ASSUME NEW q, NEW n, NEW d, NEW buf, IsCutPacket(q, n, d, buf)
  PROVE  \E m : WholeUpTo(q, n, buf, m)
<1>1. IsPacket(PKT_STATUS, q, d) /\ IsCut(d, n, buf) /\ q \in Seq(FieldSet)
  BY DEF IsCutPacket, IsPacket
<1>2. d \in Seq(Num) /\ Len(d) \in Num
  BY <1>1, PacketEnds
<1>3. Len(buf) = n /\ n \in Nat /\ n <= Len(d) /\ Len(d) \in Nat
  BY <1>1, <1>2, CutIs
<1>4. Len(q) \in Nat
  BY <1>1, LenProperties
<1>5. PICK S : S = {i \in 1 .. Len(q) : Stops(q, n, i)}
  OBVIOUS
<1>6. Whole(q, n) = IF S = {} THEN q ELSE SubSeq(q, 1, Min(S) - 1)
  BY <1>5, Zenon DEF Whole, Stops
<1>7. CASE S = {}
  <2>1. PICK m : m = Len(q)
    OBVIOUS
  <2>2. q = SubSeq(q, 1, m)
    <3>1. PICK g : g = SubSeq(q, 1, m)
      OBVIOUS
    <3>2. Len(q) \in 0 .. Len(q)
      BY <1>4
    <3>3. g \in Seq(FieldSet) /\ Len(g) = Len(q) /\ \A i \in 1 .. Len(q) : g[i] = q[i]
      BY <1>1, <2>1, <3>1, <3>2, CutInTwo
    <3> QED
      BY <1>1, <3>1, <3>3, SeqEqual
  <2>3. \A i \in 1 .. m :
          ReadsField(q[i], EncodeField(q[i]), EndOfField(q, i - 1) + 1, buf)
    BY <1>5, <1>7, <2>1, StopsOrReads
  <2>4. Stop(buf, EndOfField(q, m) + 1)
    <3>1. EndOfField(q, m) = Len(d)
      BY <1>1, <2>1, LastFieldEnds
    <3>2. EndOfField(q, m) + 1 > Len(buf)
      BY <1>3, <3>1
    <3> QED
      BY <3>2 DEF Stop
  <2> QED
    BY <1>4, <1>6, <1>7, <2>1, <2>2, <2>3, <2>4 DEF WholeUpTo, Num
<1>8. CASE S # {}
  <2>1. S \in SUBSET Nat
    BY <1>4, <1>5
  <2>2. PICK k : k = Min(S)
    OBVIOUS
  <2>3. k \in S /\ \A x \in S : k <= x
    BY <1>8, <2>1, <2>2, MinIs
  <2>4. k \in 1 .. Len(q) /\ Stops(q, n, k)
    BY <1>5, <2>3
  <2>5. PICK m : m = k - 1
    OBVIOUS
  <2>6. m \in Nat /\ m <= Len(q) /\ k \in Nat
    BY <1>4, <2>4, <2>5
  <2>7. ASSUME NEW i \in 1 .. m
        PROVE  ReadsField(q[i], EncodeField(q[i]), EndOfField(q, i - 1) + 1, buf)
    <3>1. i \in 1 .. Len(q) /\ ~ (k <= i)
      BY <1>4, <2>4, <2>5
    <3>2. ~ Stops(q, n, i)
      BY <1>5, <2>3, <3>1
    <3> QED
      BY <3>1, <3>2, StopsOrReads
  <2>8. Stop(buf, EndOfField(q, m) + 1)
    BY <2>4, <2>5, StopsOrReads
  <2>9. Whole(q, n) = SubSeq(q, 1, m)
    BY <1>6, <1>8, <2>2, <2>5
  <2> QED
    BY <2>6, <2>7, <2>8, <2>9 DEF WholeUpTo, Num
<1> QED
  BY <1>7, <1>8

ItemOf(f) == [tag |-> f.tag, value |-> f.value]

\* Where the walk over the whole fields goes from field to field.
GoesOn(q, buf, i) ==
  /\ EndOfField(q, i - 1) + 1 \in Num /\ EndOfField(q, i) + 1 \in Num
  /\ ~ Stop(buf, EndOfField(q, i - 1) + 1)
  /\ buf[EndOfField(q, i - 1) + 1] = q[i].tag
  /\ ValueAt(buf, EndOfField(q, i - 1) + 1) = q[i].value
  /\ ItemAt(buf, EndOfField(q, i - 1) + 1) = ItemOf(q[i])
  /\ NextAt(buf, EndOfField(q, i - 1) + 1) = EndOfField(q, i) + 1

LEMMA FieldToField ==
  ASSUME NEW q, NEW n, NEW d, NEW buf, IsCutPacket(q, n, d, buf),
         NEW m, WholeUpTo(q, n, buf, m), NEW i \in 1 .. m
  PROVE  GoesOn(q, buf, i)
<1>1. IsPacket(PKT_STATUS, q, d) /\ q \in Seq(FieldSet)
  BY DEF IsCutPacket, IsPacket
<1>2. m \in Nat /\ m <= Len(q) /\ Len(q) \in Nat
  BY <1>1, LenProperties DEF WholeUpTo, Num
<1>3. i \in 1 .. Len(q)
  BY <1>2
<1>4. LaidOut(q, d, i)
  BY <1>1, <1>3, FieldsLaidOut
<1>5. PICK f, c, a, p, e : /\ f = q[i] /\ c = EncodeField(f) /\ a = EndOfField(q, i - 1)
                          /\ p = a + 1 /\ e = EndOfField(q, i)
  OBVIOUS
<1>6. a \in Nat /\ Len(c) \in Nat /\ e = a + Len(c)
  BY <1>4, <1>5 DEF LaidOut, Num
<1>7. ReadsField(f, c, p, buf)
  BY <1>5 DEF WholeUpTo
<1>8. ~ Stop(buf, p) /\ buf[p] = f.tag /\ ValueAt(buf, p) = f.value
  BY <1>7 DEF ReadsField, ValueAt
<1>9. ItemAt(buf, p) = ItemOf(f)
  BY <1>8 DEF ItemAt, ItemOf
<1>10. NextAt(buf, p) = p + Len(c)
  BY <1>7 DEF ReadsField, NextAt
<1>11. p \in Num /\ e + 1 \in Num /\ p + Len(c) = e + 1
  BY <1>5, <1>6 DEF Num
<1>12. NextAt(buf, p) = e + 1
  BY <1>10, <1>11
<1> QED
  BY <1>5, <1>8, <1>9, <1>11, <1>12 DEF GoesOn

\* The last j of the first m fields.
ItemsFrom(q, m, j) == [i \in 1 .. j |-> ItemOf(q[m - j + i])]

\* The items of the first m fields are values.
HaveItems(q, m, V) == m \in Nat /\ \A i \in 1 .. m : ItemOf(q[i]) \in V

LEMMA ItemsMore ==
  ASSUME NEW V, NEW q, NEW m, HaveItems(q, m, V), NEW j \in 1 .. m
  PROVE  ItemsFrom(q, m, j) = <<ItemOf(q[m - (j - 1)])>> \o ItemsFrom(q, m, j - 1)
<1> USE DEF HaveItems
<1>1. PICK h, a, b, x : /\ h = ItemsFrom(q, m, j) /\ x = ItemOf(q[m - (j - 1)])
                       /\ a = <<x>> /\ b = ItemsFrom(q, m, j - 1)
  OBVIOUS
<1>2. j \in Nat /\ j - 1 \in Nat /\ m - (j - 1) \in 1 .. m /\ m - j + 1 = m - (j - 1)
  OBVIOUS
<1>3. \A i \in 1 .. j : m - j + i \in 1 .. m
  OBVIOUS
<1>4. \A i \in 1 .. j - 1 : m - (j - 1) + i \in 1 .. m
  OBVIOUS
<1>5. /\ h \in [1 .. j -> V] /\ \A i \in 1 .. j : h[i] = ItemOf(q[m - j + i])
  BY <1>1, <1>3 DEF ItemsFrom
<1>6. /\ b \in [1 .. j - 1 -> V] /\ \A i \in 1 .. j - 1 : b[i] = ItemOf(q[m - (j - 1) + i])
  BY <1>1, <1>4 DEF ItemsFrom
<1>7. h \in Seq(V) /\ Len(h) = j
  BY <1>2, <1>5, IsASeq, LenProperties
<1>8. b \in Seq(V) /\ Len(b) = j - 1
  BY <1>2, <1>6, IsASeq, LenProperties
<1>9. a \in Seq(V) /\ Len(a) = 1 /\ a[1] = x
  BY <1>1, <1>2
<1>10. PICK g : g = a \o b
  OBVIOUS
<1>11. /\ g \in Seq(V) /\ Len(g) = Len(a) + Len(b)
       /\ \A i \in 1 .. Len(a) : g[i] = a[i]
       /\ \A i \in 1 .. Len(b) : g[Len(a) + i] = b[i]
  <2>1. a \in Seq(V) /\ b \in Seq(V) /\ g = a \o b
    BY <1>8, <1>9, <1>10
  <2> QED
    BY <2>1, ConcatTwo
<1>12. Len(g) = j
  BY <1>2, <1>8, <1>9, <1>11
<1>13. ASSUME NEW i \in 1 .. j PROVE h[i] = g[i]
  <2>1. CASE i = 1
    <3>1. g[1] = x
      BY <1>9, <1>11
    <3>2. h[1] = x
      BY <1>1, <1>2, <1>5, <2>1
    <3> QED
      BY <2>1, <3>1, <3>2
  <2>2. CASE i # 1
    <3>1. i - 1 \in 1 .. j - 1 /\ 1 + (i - 1) = i /\ m - (j - 1) + (i - 1) = m - j + i
      BY <1>2, <2>2
    <3>2. g[1 + (i - 1)] = b[i - 1]
      BY <1>8, <1>9, <1>11, <3>1
    <3>3. b[i - 1] = ItemOf(q[m - (j - 1) + (i - 1)])
      BY <1>6, <3>1
    <3> QED
      BY <1>5, <3>1, <3>2, <3>3
  <2> QED
    BY <2>1, <2>2
<1>14. h = g
  BY <1>7, <1>11, <1>12, <1>13, SeqEqual
<1> QED
  BY <1>1, <1>10, <1>14

LEMMA WholeFieldsRead ==
  ASSUME NEW q, NEW n, NEW d, NEW buf, IsCutPacket(q, n, d, buf),
         NEW m, WholeUpTo(q, n, buf, m)
  PROVE  FieldsFrom(buf)[2] = ItemsFrom(q, m, m)
<1>1. IsPacket(PKT_STATUS, q, d) /\ IsCut(d, n, buf) /\ q \in Seq(FieldSet)
  BY DEF IsCutPacket, IsPacket
<1>2. d \in Seq(Num) /\ Len(q) \in Num /\ EndOfField(q, 0) = 1
  BY <1>1, PacketEnds
<1>3. buf \in Seq(Num)
  BY <1>1, <1>2, CutIs
<1>4. m \in Nat /\ m <= Len(q) /\ Len(q) \in Nat
  BY <1>2 DEF WholeUpTo, Num
<1>5. PICK F : /\ FieldsFrom(buf) = F
               /\ \A p \in Num : F[p] = IF Stop(buf, p) THEN <<>>
                                        ELSE <<ItemAt(buf, p)>> \o F[NextAt(buf, p)]
  BY <1>3, FieldsFromIs
<1>6. PICK V : V = {ItemOf(q[i]) : i \in 1 .. m}
  OBVIOUS
<1>7. \A i \in 1 .. m : ItemOf(q[i]) \in V
  BY <1>6
<1> DEFINE A(j) == F[EndOfField(q, m - j) + 1] = ItemsFrom(q, m, j)
           G == {j \in Nat : A(j)}
<1>8. 0 \in G
  <2>1. EndOfField(q, m) + 1 \in Num
    <3>1. CASE m = 0
      BY <1>2, <3>1 DEF Num
    <3>2. CASE m # 0
      <4>1. m \in 1 .. m
        BY <1>4, <3>2
      <4> QED
        BY <4>1, FieldToField DEF GoesOn
    <3> QED
      BY <3>1, <3>2
  <2>2. F[EndOfField(q, m) + 1] = <<>>
    BY <1>5, <2>1 DEF WholeUpTo
  <2>3. ItemsFrom(q, m, 0) = <<>>
    <3>1. 1 .. 0 = {}
      OBVIOUS
    <3>2. ItemsFrom(q, m, 0) \in [1 .. 0 -> V]
      BY <3>1 DEF ItemsFrom
    <3> QED
      BY <3>2, EmptySeq, IsASeq, LenProperties
  <2>4. m - 0 = m
    BY <1>4
  <2> QED
    BY <2>2, <2>3, <2>4
<1>9. ASSUME NEW j \in 1 .. m, j - 1 \in G PROVE j \in G
  <2>1. PICK i : i = m - (j - 1)
    OBVIOUS
  <2>2. i \in 1 .. m /\ m - j = i - 1 /\ j \in Nat
    BY <1>4, <2>1
  <2>3. GoesOn(q, buf, i)
    BY <2>2, FieldToField
  <2>4. PICK p : p = EndOfField(q, i - 1) + 1
    OBVIOUS
  <2>5. F[p] = <<ItemOf(q[i])>> \o F[EndOfField(q, i) + 1]
    BY <1>5, <2>3, <2>4 DEF GoesOn
  <2>6. F[EndOfField(q, i) + 1] = ItemsFrom(q, m, j - 1)
    BY <1>9, <2>1
  <2>7. ItemsFrom(q, m, j) = <<ItemOf(q[m - (j - 1)])>> \o ItemsFrom(q, m, j - 1)
    <3>1. HaveItems(q, m, V)
      BY <1>4, <1>7 DEF HaveItems
    <3> QED
      BY <3>1, ItemsMore
  <2>8. A(j)
    BY <2>1, <2>2, <2>4, <2>5, <2>6, <2>7
  <2> HIDE DEF A
  <2> QED
    BY <2>2, <2>8
<1>10. m \in G
  <2> HIDE DEF G
  <2>1. \A j \in 0 .. m : j \in G
    BY <1>4, <1>8, <1>9, IntervalInduction
  <2> QED
    BY <1>4, <2>1
<1>11. m - m = 0 /\ 1 + 1 = 2
  BY <1>4
<1> QED
  BY <1>2, <1>5, <1>10, <1>11

-----------------------------------------------------------------------------
(* The values decoded from the fields *)

\* The last size bytes of a value, byte by byte.
ByteAt(value, j) == IF j >= 1 THEN value[j] ELSE 0

AreLowBytes(value, size, l) ==
  /\ l \in Seq(Num) /\ Len(l) = size
  /\ \A k \in 1 .. size : l[k] = ByteAt(value, Len(value) - size + k)

LEMMA RegisterIs ==
  ASSUME NEW n, n \in Num
  PROVE  Register(n) \in Seq(Num) /\ Len(Register(n)) = n /\ \A k \in 1 .. n : Register(n)[k] = 0
<1>1. n \in Nat /\ 0 \in Num
  BY DEF Num
<1>2. Register(n) \in [1 .. n -> Num] /\ \A k \in 1 .. n : Register(n)[k] = 0
  BY <1>1 DEF Register
<1>3. Register(n) \in Seq(Num)
  BY <1>1, <1>2, IsASeq
<1> QED
  BY <1>1, <1>2, <1>3, LenProperties

LEMMA LowBytesAre ==
  ASSUME NEW value \in Seq(Num), NEW size, size \in Num, NEW l, l = LowBytes(value, size)
  PROVE  AreLowBytes(value, size, l)
<1>1. size \in Nat /\ Len(value) \in Nat
  BY LenProperties DEF Num
<1>2. PICK r : r = Register(size)
  OBVIOUS
<1>3. r \in Seq(Num) /\ Len(r) = size /\ \A k \in 1 .. size : r[k] = 0
  BY <1>2, RegisterIs
<1>4. PICK p : p = r \o value
  OBVIOUS
<1>5. /\ p \in Seq(Num) /\ Len(p) = Len(r) + Len(value)
      /\ \A k \in 1 .. Len(r) : p[k] = r[k]
      /\ \A k \in 1 .. Len(value) : p[Len(r) + k] = value[k]
  <2>1. r \in Seq(Num) /\ p = r \o value
    BY <1>3, <1>4
  <2> QED
    BY <2>1, ConcatTwo
<1>6. PICK n : n = Len(value)
  OBVIOUS
<1>7. Len(p) = size + n
  BY <1>3, <1>5, <1>6
<1>8. Len(p) - size + 1 = n + 1 /\ Len(p) = n + size /\ n \in Num /\ n \in Nat
  BY <1>1, <1>6, <1>7 DEF Num
<1>9. l = SubSeq(p, Len(p) - size + 1, Len(p))
  BY <1>2, <1>4, Zenon DEF LowBytes
<1>10. l = SubSeq(p, n + 1, n + size)
  BY <1>8, <1>9, Zenon
<1>11. IsMiddle(p, n, size, l)
  <2>1. n + size <= Len(p)
    BY <1>1, <1>8
  <2> QED
    BY <1>5, <1>8, <1>10, <2>1 DEF IsMiddle
<1>12. l \in Seq(Num) /\ Len(l) = size /\ \A k \in 1 .. size : l[k] = p[n + k]
  BY <1>11, Middle
<1>13. ASSUME NEW k \in 1 .. size PROVE l[k] = ByteAt(value, n - size + k)
  <2>1. CASE n - size + k >= 1
    <3>1. n - size + k \in 1 .. Len(value) /\ Len(r) + (n - size + k) = n + k
      BY <1>1, <1>3, <1>6, <2>1
    <3>2. p[Len(r) + (n - size + k)] = value[n - size + k]
      BY <1>5, <3>1
    <3> QED
      BY <1>12, <2>1, <3>1, <3>2 DEF ByteAt
  <2>2. CASE ~ (n - size + k >= 1)
    <3>1. n + k \in 1 .. Len(r) /\ n + k \in 1 .. size
      BY <1>1, <1>3, <1>6, <2>2
    <3> QED
      BY <1>3, <1>5, <1>12, <2>2, <3>1 DEF ByteAt
  <2> QED
    BY <2>1, <2>2
<1> QED
  BY <1>6, <1>12, <1>13 DEF AreLowBytes

IsRegister(s) == s \in Seq(Num) /\ Len(s) = 8

LEMMA ShiftInIs ==
  ASSUME NEW s, IsRegister(s), NEW b \in Num, NEW t, t = ShiftIn(s, b)
  PROVE  IsRegister(t) /\ t[8] = b /\ \A k \in 1 .. 7 : t[k] = s[k + 1]
<1>1. s \in Seq(Num) /\ Len(s) = 8
  BY DEF IsRegister
<1>2. s # <<>>
  <2>1. \A r : r = <<>> => Len(r) = 0
    BY EmptySeq
  <2>2. Len(s) # 0
    BY <1>1
  <2> QED
    BY <2>1, <2>2, Zenon
<1>3. PICK u : u = Tail(s)
  OBVIOUS
<1>4. u \in Seq(Num) /\ Len(u) = Len(s) - 1 /\ \A k \in 1 .. Len(u) : u[k] = s[k + 1]
  BY <1>1, <1>2, <1>3, HeadTailProperties
<1>5. Len(u) = 7
  BY <1>1, <1>4
<1>6. t = Append(u, b)
  BY <1>3 DEF ShiftIn
<1>7. /\ t \in Seq(Num) /\ Len(t) = Len(u) + 1
      /\ \A k \in 1 .. Len(u) : t[k] = u[k] /\ t[Len(u) + 1] = b
  BY <1>4, <1>6, AppendProperties
<1>8. Len(u) + 1 = 8
  BY <1>5
<1>9. 7 \in 1 .. Len(u)
  BY <1>5
<1> QED
  BY <1>4, <1>5, <1>7, <1>8, <1>9 DEF IsRegister

\* The accumulator after each byte of the value.
Accumulates(acc, value) ==
  acc = [i \in 0 .. Len(value) |-> IF i = 0 THEN Register(8) ELSE ShiftIn(acc[i - 1], value[i])]

ShiftsUp(acc, value, n) ==
  /\ acc[0] = Register(8)
  /\ \A i \in 1 .. n : acc[i] = ShiftIn(acc[i - 1], value[i])

LEMMA AccumulatesIs ==
  ASSUME NEW value \in Seq(Num)
  PROVE  \E acc : ShiftsUp(acc, value, Len(value)) /\ AsU64(value) = acc[Len(value)]
<1>0. PICK n : n = Len(value)
  OBVIOUS
<1>n. n \in Nat /\ \A i \in 1 .. n : value[i] \in Num
  BY <1>0, LenProperties, ElementOfSeq
<1>1. \E f : Accumulates(f, value)
  <2>t. PICK T : T = {s \in Seq(Num) : IsRegister(s)}
    OBVIOUS
  <2>u. \A s : s \in T <=> IsRegister(s)
    BY <2>t DEF IsRegister
  <2>1. PICK op : op = [i \in 1 .. n |-> [x \in T |-> ShiftIn(x, value[i])]]
    OBVIOUS
  <2>2. \A i \in 1 .. n : \A x \in T : op[i][x] = ShiftIn(x, value[i])
    BY <2>1
  <2>3. op \in [1 .. n -> [T -> T]]
    <3>1. \A i \in 1 .. n : \A x \in T : ShiftIn(x, value[i]) \in T
      BY <1>n, <2>u, ShiftInIs
    <3>2. \A i \in 1 .. n : [x \in T |-> ShiftIn(x, value[i])] \in [T -> T]
      BY <3>1
    <3> QED
      BY <2>1, <3>2
  <2>4. Register(8) \in T
    <3>1. 8 \in Num
      BY DEF Num
    <3> QED
      BY <2>u, <3>1, RegisterIs DEF IsRegister
  <2>5. PICK f \in [0 .. n -> T] :
          f[0] = Register(8) /\ \A i \in 1 .. n : f[i] = op[i][f[i - 1]]
    <3>1. PICK base : base = Register(8)
      OBVIOUS
    <3>2. n \in Nat /\ base \in T
      BY <1>n, <2>4, <3>1
    <3>3. \E f \in [0 .. n -> T] :
            f[0] = base /\ \A i \in 1 .. n : f[i] = op[i][f[i - 1]]
      BY <2>3, <3>2, FoldExists
    <3> QED
      BY <3>1, <3>3
  <2>6. ASSUME NEW i \in 1 .. n PROVE f[i] = ShiftIn(f[i - 1], value[i])
    <3>1. i - 1 \in 0 .. n
      BY <1>n
    <3>2. f[i - 1] \in T
      BY <2>5, <3>1
    <3> QED
      BY <2>2, <2>5, <3>2
  <2>7. f = [i \in 0 .. n |-> IF i = 0 THEN Register(8) ELSE ShiftIn(f[i - 1], value[i])]
    <3>1. \A i \in 0 .. n : f[i] = IF i = 0 THEN Register(8) ELSE ShiftIn(f[i - 1], value[i])
      BY <1>n, <2>5, <2>6
    <3>2. f = [i \in 0 .. n |-> f[i]]
      BY <2>5
    <3> QED
      BY <3>1, <3>2
  <2> QED
    BY <1>0, <2>7 DEF Accumulates
<1> DEFINE F == CHOOSE f : Accumulates(f, value)
<1>2. Accumulates(F, value)
  BY <1>1
<1>3. AsU64(value) = F[n]
  BY <1>0, Zenon DEF AsU64, Accumulates
<1> HIDE DEF F
<1>4. F = [i \in 0 .. n |-> IF i = 0 THEN Register(8) ELSE ShiftIn(F[i - 1], value[i])]
  BY <1>0, <1>2 DEF Accumulates
<1>5. F[0] = Register(8)
  <2>1. 0 \in 0 .. n
    BY <1>n
  <2> QED
    BY <1>4, <2>1
<1>6. ASSUME NEW i \in 1 .. n PROVE F[i] = ShiftIn(F[i - 1], value[i])
  <2>1. i \in 0 .. n /\ i # 0
    BY <1>n
  <2> QED
    BY <1>4, <2>1
<1>7. ShiftsUp(F, value, n)
  BY <1>5, <1>6 DEF ShiftsUp
<1> QED
  BY <1>0, <1>3, <1>7

LEMMA AsU64Is ==
  ASSUME NEW value \in Seq(Num)
  PROVE  AreLowBytes(value, 8, AsU64(value))
<1>0. PICK n : n = Len(value)
  OBVIOUS
<1>1. n \in Nat /\ \A i \in 1 .. n : value[i] \in Num
  BY <1>0, LenProperties, ElementOfSeq
<1>2. PICK acc : ShiftsUp(acc, value, n) /\ AsU64(value) = acc[n]
  BY <1>0, AccumulatesIs
<1> DEFINE Holds(i) == IsRegister(acc[i]) /\ \A k \in 1 .. 8 : acc[i][k] = ByteAt(value, i - 8 + k)
           P == {i \in 0 .. n : Holds(i)}
<1>3. 0 \in P
  <2>1. acc[0] = Register(8) /\ 8 \in Num
    BY <1>2 DEF ShiftsUp, Num
  <2>2. IsRegister(acc[0]) /\ \A k \in 1 .. 8 : acc[0][k] = 0
    BY <2>1, RegisterIs DEF IsRegister
  <2>3. \A k \in 1 .. 8 : ByteAt(value, 0 - 8 + k) = 0
    BY DEF ByteAt
  <2>4. 0 \in 0 .. n
    BY <1>1
  <2> QED
    BY <2>2, <2>3, <2>4
<1>4. ASSUME NEW i \in 1 .. n, i - 1 \in P PROVE i \in P
  <2>1. PICK s, t, b : s = acc[i - 1] /\ t = acc[i] /\ b = value[i]
    OBVIOUS
  <2>2. b \in Num /\ i \in Nat /\ i \in 0 .. n
    BY <1>1, <2>1
  <2>3. IsRegister(s) /\ \A k \in 1 .. 8 : s[k] = ByteAt(value, (i - 1) - 8 + k)
    BY <1>4, <2>1
  <2>4. t = ShiftIn(s, b)
    BY <1>2, <2>1 DEF ShiftsUp
  <2>5. IsRegister(t) /\ t[8] = b /\ \A k \in 1 .. 7 : t[k] = s[k + 1]
    <3>1. IsRegister(s) /\ b \in Num
      BY <2>2, <2>3, Zenon
    <3> QED
      BY <2>4, <3>1, ShiftInIs
  <2>6. ASSUME NEW k \in 1 .. 8 PROVE t[k] = ByteAt(value, i - 8 + k)
    <3>1. CASE k = 8
      <4>1. i - 8 + k = i /\ i >= 1
        BY <2>2, <3>1
      <4> QED
        BY <2>1, <2>5, <3>1, <4>1 DEF ByteAt
    <3>2. CASE k # 8
      <4>1. k \in 1 .. 7 /\ k + 1 \in 1 .. 8 /\ (i - 1) - 8 + (k + 1) = i - 8 + k
        BY <2>2, <3>2
      <4>2. s[k + 1] = ByteAt(value, (i - 1) - 8 + (k + 1))
        BY <2>3, <4>1
      <4> QED
        BY <2>5, <4>1, <4>2
    <3> QED
      BY <3>1, <3>2
  <2> QED
    BY <2>1, <2>2, <2>5, <2>6
<1>5. n \in P
  <2> HIDE DEF P
  <2>1. \A i \in 0 .. n : i \in P
    BY <1>1, <1>3, <1>4, IntervalInduction
  <2> QED
    BY <1>1, <2>1
<1>6. Holds(n)
  BY <1>5
<1> QED
  BY <1>0, <1>2, <1>6 DEF AreLowBytes, IsRegister

\* Low bytes are determined by the value.
LEMMA SameLowBytes ==
  ASSUME NEW value, NEW size, NEW l, NEW g, size \in Num,
         AreLowBytes(value, size, l), AreLowBytes(value, size, g)
  PROVE  l = g
<1>1. l \in Seq(Num) /\ g \in Seq(Num) /\ Len(l) = size /\ Len(g) = size
  BY DEF AreLowBytes
<1>2. \A k \in 1 .. size : l[k] = g[k]
  BY DEF AreLowBytes
<1> QED
  BY <1>1, <1>2, SeqEqual

\* The values that status.rs decodes are low bytes of what it read.
LEMMA DecodedValues ==
  ASSUME NEW value \in Seq(Num)
  PROVE  /\ DecodeF64(value) = LowBytes(value, 8)
         /\ DecodeU32(value) = LowBytes(value, 4)
         /\ DecodeU8(value) = LowBytes(value, 1)[1]
         /\ DecodeF64(value) # NoValue /\ DecodeU32(value) # NoValue
         /\ DecodeU8(value) # NoValue
<1>0. 8 \in Num /\ 4 \in Num /\ 1 \in Num
  BY DEF Num
<1>1. PICK x : x = AsU64(value)
  OBVIOUS
<1>2. AreLowBytes(value, 8, x)
  BY <1>1, AsU64Is
<1>3. x \in Seq(Num) /\ Len(x) = 8 /\ \A k \in 1 .. 8 : x[k] = ByteAt(value, Len(value) - 8 + k)
  BY <1>2 DEF AreLowBytes
<1>4. x = LowBytes(value, 8)
  BY <1>0, <1>2, LowBytesAre, SameLowBytes
<1>5. PICK u : u = SubSeq(x, 5, 8)
  OBVIOUS
<1>l. Len(value) \in Nat
  BY LenProperties
<1>6. AreLowBytes(value, 4, u)
  <2>1. IsMiddle(x, 4, 4, u)
    BY <1>0, <1>3, <1>5 DEF IsMiddle
  <2>2. u \in Seq(Num) /\ Len(u) = 4 /\ \A k \in 1 .. 4 : u[k] = x[4 + k]
    <3>1. PICK c : c = 4
      OBVIOUS
    <3>2. IsMiddle(x, c, c, u)
      BY <2>1, <3>1
    <3>3. u \in Seq(Num) /\ Len(u) = c /\ \A k \in 1 .. c : u[k] = x[c + k]
      BY <3>2, Middle
    <3> QED
      BY <3>1, <3>3
  <2>3. ASSUME NEW k \in 1 .. 4 PROVE u[k] = ByteAt(value, Len(value) - 4 + k)
    <3>1. 4 + k \in 1 .. 8 /\ Len(value) - 8 + (4 + k) = Len(value) - 4 + k
      BY <1>l
    <3>2. x[4 + k] = ByteAt(value, Len(value) - 8 + (4 + k))
      BY <1>3, <3>1
    <3> QED
      BY <2>2, <3>1, <3>2
  <2> QED
    BY <2>2, <2>3 DEF AreLowBytes
<1>7. u = LowBytes(value, 4)
  BY <1>0, <1>6, LowBytesAre, SameLowBytes
<1>8. x[8] = LowBytes(value, 1)[1]
  <2>1. AreLowBytes(value, 1, LowBytes(value, 1))
    BY <1>0, LowBytesAre
  <2>2. LowBytes(value, 1)[1] = ByteAt(value, Len(value) - 1 + 1)
    BY <2>1 DEF AreLowBytes
  <2>3. x[8] = ByteAt(value, Len(value) - 8 + 8)
    BY <1>3
  <2>4. Len(value) - 1 + 1 = Len(value) - 8 + 8
    BY <1>l
  <2> QED
    BY <2>2, <2>3, <2>4
<1>9. x # NoValue /\ u # NoValue /\ x[8] # NoValue
  <2>1. 8 \in 1 .. Len(x)
    BY <1>3
  <2>2. x[8] \in Num
    BY <1>3, <2>1, ElementOfSeq
  <2>3. u \in Seq(Num)
    BY <1>6 DEF AreLowBytes
  <2>4. NoValue \notin Seq(Num) /\ NoValue \notin Num
    BY NoValueAssumption DEF Num
  <2> QED
    BY <1>3, <2>2, <2>3, <2>4
<1>10. DecodeF64(value) = x /\ DecodeU32(value) = u /\ DecodeU8(value) = x[8]
  BY <1>1, <1>5 DEF DecodeF64, DecodeU32, DecodeU8
<1> QED
  BY <1>4, <1>7, <1>8, <1>9, <1>10

-----------------------------------------------------------------------------
(* The update of the channel map *)

\* The whole fields w, and what the walk reads of them.
IsWhole(q, m, w, items) ==
  /\ q \in Seq(FieldSet) /\ m \in Num /\ m <= Len(q)
  /\ w = SubSeq(q, 1, m) /\ items = ItemsFrom(q, m, m)

LEMMA WholeFields ==
  ASSUME NEW q, NEW m, NEW w, NEW items, IsWhole(q, m, w, items)
  PROVE  /\ Len(w) = m /\ Len(items) = m /\ m \in Nat
         /\ \A i \in 1 .. m : /\ w[i] = q[i] /\ items[i] = ItemOf(w[i])
                              /\ w[i].value \in Seq(Num)
<1>1. /\ q \in Seq(FieldSet) /\ m \in Nat /\ m <= Len(q)
      /\ w = SubSeq(q, 1, m) /\ items = ItemsFrom(q, m, m)
  BY DEF IsWhole, Num
<1>2. m \in 0 .. Len(q) /\ Len(q) \in Nat
  BY <1>1, LenProperties
<1>3. Len(w) = m /\ \A i \in 1 .. m : w[i] = q[i]
  BY <1>1, <1>2, CutInTwo
<1>4. ASSUME NEW i \in 1 .. m PROVE items[i] = ItemOf(q[i])
  <2>1. m - m + i = i
    BY <1>1
  <2>2. items[i] = ItemOf(q[m - m + i])
    BY <1>1 DEF ItemsFrom
  <2> QED
    BY <2>1, <2>2
<1>5. Len(items) = m
  <2>1. PICK V : V = {ItemOf(q[m - m + i]) : i \in 1 .. m}
    OBVIOUS
  <2>2. items \in [1 .. m -> V]
    BY <1>1, <2>1 DEF ItemsFrom
  <2>3. items \in Seq(V)
    BY <1>1, <2>2, IsASeq
  <2> QED
    BY <1>1, <2>2, <2>3, LenProperties
<1>6. ASSUME NEW i \in 1 .. m PROVE w[i].value \in Seq(Num)
  <2>1. i \in 1 .. Len(q)
    BY <1>1, <1>2
  <2>2. q[i] \in FieldSet
    BY <1>1, <2>1, ElementOfSeq
  <2>3. IsField(q[i])
    BY <2>2, FieldType
  <2> QED
    BY <1>3, <2>3 DEF IsField
<1> QED
  BY <1>1, <1>3, <1>4, <1>5, <1>6

\* The last whole field of a tag.
LEMMA LastOfIs ==
  ASSUME NEW q, NEW m, NEW w, NEW items, IsWhole(q, m, w, items), NEW tag,
         NEW v, v = LastOf(items, tag)
  PROVE  IF Says(w, tag) = {} THEN v = NoValue
         ELSE /\ v = w[Max(Says(w, tag))].value /\ v \in Seq(Num)
              /\ Max(Says(w, tag)) \in Says(w, tag)
<1>1. /\ Len(w) = m /\ Len(items) = m /\ m \in Nat
      /\ \A i \in 1 .. m : items[i] = ItemOf(w[i]) /\ w[i].value \in Seq(Num)
  BY WholeFields
<1>2. PICK S : S = Says(w, tag)
  OBVIOUS
<1>3. S = {i \in 1 .. m : w[i].tag = tag}
  BY <1>1, <1>2 DEF Says
<1>4. {i \in 1 .. Len(items) : items[i].tag = tag} = S
  BY <1>1, <1>3 DEF ItemOf
<1>5. v = IF S = {} THEN NoValue ELSE items[Max(S)].value
  BY <1>4 DEF LastOf
<1>6. CASE S # {}
  <2>1. S \in SUBSET (0 .. m)
    BY <1>1, <1>3
  <2>2. Max(S) \in S
    BY <1>1, <1>6, <2>1, MaxIs
  <2>3. PICK k : k = Max(S)
    OBVIOUS
  <2>4. k \in S /\ k \in 1 .. m
    BY <1>3, <2>2, <2>3
  <2>5. items[k].value = w[k].value
    BY <1>1, <2>4 DEF ItemOf
  <2> QED
    BY <1>1, <1>2, <1>5, <1>6, <2>3, <2>4, <2>5
<1> QED
  BY <1>2, <1>5, <1>6

\* What the update says of a tag: the low bytes of its last field.
TellsBytes(x, w, tag, size) ==
  IF Says(w, tag) = {} THEN x = NoValue
  ELSE x # NoValue /\ x = LowBytes(w[Max(Says(w, tag))].value, size)

TellsByte(x, w, tag) ==
  IF Says(w, tag) = {} THEN x = NoValue
  ELSE x # NoValue /\ x = LowBytes(w[Max(Says(w, tag))].value, 1)[1]

LEMMA MappedTells ==
  ASSUME NEW q, NEW m, NEW w, NEW items, IsWhole(q, m, w, items), NEW tag
  PROVE  /\ TellsBytes(Mapped(DecodeU32, LastOf(items, tag)), w, tag, 4)
         /\ TellsBytes(Mapped(DecodeF64, LastOf(items, tag)), w, tag, 8)
         /\ TellsByte(Mapped(DecodeU8, LastOf(items, tag)), w, tag)
<1>1. PICK v : v = LastOf(items, tag)
  OBVIOUS
<1>2. IF Says(w, tag) = {} THEN v = NoValue
      ELSE v = w[Max(Says(w, tag))].value /\ v \in Seq(Num)
  BY <1>1, LastOfIs
<1>3. CASE Says(w, tag) = {}
  <2>1. v = NoValue
    BY <1>2, <1>3
  <2>2. /\ Mapped(DecodeU32, v) = NoValue /\ Mapped(DecodeF64, v) = NoValue
        /\ Mapped(DecodeU8, v) = NoValue
    BY <2>1 DEF Mapped
  <2> QED
    BY <1>1, <1>3, <2>2 DEF TellsBytes, TellsByte
<1>4. CASE Says(w, tag) # {}
  <2>1. v = w[Max(Says(w, tag))].value /\ v \in Seq(Num)
    BY <1>2, <1>4
  <2>2. v # NoValue
    BY <2>1, NoValueAssumption DEF Num
  <2>3. /\ Mapped(DecodeU32, v) = DecodeU32(v) /\ Mapped(DecodeF64, v) = DecodeF64(v)
        /\ Mapped(DecodeU8, v) = DecodeU8(v)
    BY <2>2 DEF Mapped
  <2>4. /\ DecodeF64(v) = LowBytes(v, 8) /\ DecodeU32(v) = LowBytes(v, 4)
        /\ DecodeU8(v) = LowBytes(v, 1)[1]
        /\ DecodeF64(v) # NoValue /\ DecodeU32(v) # NoValue /\ DecodeU8(v) # NoValue
    BY <2>1, DecodedValues
  <2> QED
    BY <1>1, <1>4, <2>1, <2>3, <2>4 DEF TellsBytes, TellsByte
<1> QED
  BY <1>3, <1>4

Tells(u, w) ==
  /\ TellsBytes(u.ssrc, w, TAG_OUTPUT_SSRC, 4)
  /\ TellsBytes(u.center_freq_hz, w, TAG_RADIO_FREQUENCY, 8)
  /\ TellsBytes(u.sample_rate_hz, w, TAG_OUTPUT_SAMPRATE, 4)
  /\ TellsByte(u.channels, w, TAG_OUTPUT_CHANNELS)
  /\ TellsByte(u.pt, w, TAG_RTP_PT)
  /\ TellsByte(u.encoding, w, TAG_OUTPUT_ENCODING)

LEMMA UpdateTells ==
  ASSUME NEW q, NEW m, NEW w, NEW items, IsWhole(q, m, w, items),
         NEW u, u = StatusUpdate(items)
  PROVE  Tells(u, w)
<1>1. /\ u.ssrc = Mapped(DecodeU32, LastOf(items, TAG_OUTPUT_SSRC))
      /\ u.center_freq_hz = Mapped(DecodeF64, LastOf(items, TAG_RADIO_FREQUENCY))
      /\ u.sample_rate_hz = Mapped(DecodeU32, LastOf(items, TAG_OUTPUT_SAMPRATE))
      /\ u.channels = Mapped(DecodeU8, LastOf(items, TAG_OUTPUT_CHANNELS))
      /\ u.pt = Mapped(DecodeU8, LastOf(items, TAG_RTP_PT))
      /\ u.encoding = Mapped(DecodeU8, LastOf(items, TAG_OUTPUT_ENCODING))
  BY DEF StatusUpdate
<1> QED
  BY <1>1, MappedTells DEF Tells

\* A record of ChannelInfo, and what is left of it after an update.
InfoFields == {"center_freq_hz", "sample_rate_hz", "channels", "pt", "encoding"}

LEMMA InfoIs ==
  ASSUME NEW known, DOMAIN known = InfoFields, NEW u, NEW w, Tells(u, w)
  PROVE  [f \in DOMAIN known |-> IF u[f] = NoValue THEN known[f] ELSE u[f]]
           = [center_freq_hz |-> Told(w, TAG_RADIO_FREQUENCY, 8, known.center_freq_hz),
              sample_rate_hz |-> Told(w, TAG_OUTPUT_SAMPRATE, 4, known.sample_rate_hz),
              channels       |-> Told(w, TAG_OUTPUT_CHANNELS, 1, <<known.channels>>)[1],
              pt             |-> Told(w, TAG_RTP_PT, 1, <<known.pt>>)[1],
              encoding       |-> Told(w, TAG_OUTPUT_ENCODING, 1, <<known.encoding>>)[1]]
<1>1. \A x, tag, size, old : TellsBytes(x, w, tag, size) =>
        Told(w, tag, size, old) = IF x = NoValue THEN old ELSE x
  BY DEF TellsBytes, Told
<1>2. \A x, tag, old : TellsByte(x, w, tag) =>
        Told(w, tag, 1, <<old>>)[1] = IF x = NoValue THEN old ELSE x
  <2> SUFFICES ASSUME NEW x, NEW tag, NEW old, TellsByte(x, w, tag)
               PROVE  Told(w, tag, 1, <<old>>)[1] = IF x = NoValue THEN old ELSE x
    OBVIOUS
  <2>1. CASE Says(w, tag) = {}
    BY <2>1 DEF TellsByte, Told
  <2>2. CASE Says(w, tag) # {}
    BY <2>2 DEF TellsByte, Told
  <2> QED
    BY <2>1, <2>2
<1>3. PICK a, b, c, d, e :
        /\ a = Told(w, TAG_RADIO_FREQUENCY, 8, known.center_freq_hz)
        /\ b = Told(w, TAG_OUTPUT_SAMPRATE, 4, known.sample_rate_hz)
        /\ c = Told(w, TAG_OUTPUT_CHANNELS, 1, <<known.channels>>)[1]
        /\ d = Told(w, TAG_RTP_PT, 1, <<known.pt>>)[1]
        /\ e = Told(w, TAG_OUTPUT_ENCODING, 1, <<known.encoding>>)[1]
  OBVIOUS
<1>4. /\ a = IF u.center_freq_hz = NoValue THEN known.center_freq_hz ELSE u.center_freq_hz
      /\ b = IF u.sample_rate_hz = NoValue THEN known.sample_rate_hz ELSE u.sample_rate_hz
  BY <1>1, <1>3 DEF Tells
<1>5. /\ c = IF u.channels = NoValue THEN known.channels ELSE u.channels
      /\ d = IF u.pt = NoValue THEN known.pt ELSE u.pt
      /\ e = IF u.encoding = NoValue THEN known.encoding ELSE u.encoding
  BY <1>2, <1>3 DEF Tells
<1>6. [f \in DOMAIN known |-> IF u[f] = NoValue THEN known[f] ELSE u[f]]
        = [center_freq_hz |-> a, sample_rate_hz |-> b, channels |-> c, pt |-> d, encoding |-> e]
  BY <1>4, <1>5 DEF InfoFields
<1> QED
  BY <1>3, <1>6

\* A channel map: a function from SSRCs to such records.
IsMap(map) == /\ map = [s \in DOMAIN map |-> map[s]]
              /\ \A s \in DOMAIN map : DOMAIN map[s] = InfoFields

LEMMA MapsAre ==
  ASSUME NEW map \in Maps
  PROVE  IsMap(map)
<1>1. CASE map = <<>>
  <2>1. DOMAIN map = {} /\ map = [s \in {} |-> map[s]]
    BY <1>1
  <2> QED
    BY <2>1 DEF IsMap
<1>2. CASE map = [s \in {OtherSsrc} |-> KnownInfo]
  <2>1. DOMAIN KnownInfo = InfoFields
    BY DEF KnownInfo, InfoFields
  <2>2. DOMAIN map = {OtherSsrc} /\ \A s \in DOMAIN map : map[s] = KnownInfo
    BY <1>2
  <2>3. map = [s \in DOMAIN map |-> map[s]]
    BY <1>2
  <2> QED
    BY <2>1, <2>2, <2>3 DEF IsMap
<1> QED
  BY <1>1, <1>2 DEF Maps

\* What an update does to a map is what its fields tell.
LEMMA AppliedIs ==
  ASSUME NEW map, IsMap(map), NEW u, NEW w, Tells(u, w)
  PROVE  u.ssrc # NoValue => Applied(map, u) = ReferenceMap(w, map)
<1> SUFFICES ASSUME u.ssrc # NoValue PROVE Applied(map, u) = ReferenceMap(w, map)
  OBVIOUS
<1>1. PICK s, known, info :
        /\ s = u.ssrc
        /\ known = IF s \in DOMAIN map THEN map[s] ELSE DefaultInfo
        /\ info = [f \in DOMAIN known |-> IF u[f] = NoValue THEN known[f] ELSE u[f]]
  OBVIOUS
<1>2. Says(w, TAG_OUTPUT_SSRC) # {} /\ s = Told(w, TAG_OUTPUT_SSRC, 4, <<>>)
  BY <1>1 DEF Tells, TellsBytes, Told
<1>3. DOMAIN known = InfoFields
  <2>1. DOMAIN DefaultInfo = InfoFields
    BY DEF DefaultInfo, InfoFields
  <2> QED
    BY <1>1, <2>1 DEF IsMap
<1>4. info = [center_freq_hz |-> Told(w, TAG_RADIO_FREQUENCY, 8, known.center_freq_hz),
              sample_rate_hz |-> Told(w, TAG_OUTPUT_SAMPRATE, 4, known.sample_rate_hz),
              channels       |-> Told(w, TAG_OUTPUT_CHANNELS, 1, <<known.channels>>)[1],
              pt             |-> Told(w, TAG_RTP_PT, 1, <<known.pt>>)[1],
              encoding       |-> Told(w, TAG_OUTPUT_ENCODING, 1, <<known.encoding>>)[1]]
  BY <1>1, <1>3, InfoIs
<1>5. Applied(map, u) = [r \in DOMAIN map \cup {s} |-> IF r = s THEN info ELSE map[r]]
  BY <1>1 DEF Applied
<1>6. ReferenceMap(w, map) = [r \in DOMAIN map \cup {s} |-> IF r # s THEN map[r] ELSE info]
  BY <1>1, <1>2, <1>4, Zenon DEF ReferenceMap
<1>7. [r \in DOMAIN map \cup {s} |-> IF r = s THEN info ELSE map[r]]
        = [r \in DOMAIN map \cup {s} |-> IF r # s THEN map[r] ELSE info]
  OBVIOUS
<1> QED
  BY <1>5, <1>6, <1>7

\* Of an empty packet no field is there.
LEMMA NothingWhole ==
  ASSUME NEW q, NEW n, NEW buf, NEW m, WholeUpTo(q, n, buf, m), Len(buf) = 0,
         EndOfField(q, 0) = 1
  PROVE  m = 0
<1>1. m \in Nat
  BY DEF WholeUpTo, Num
<1>2. SUFFICES ASSUME m # 0 PROVE FALSE
  OBVIOUS
<1>3. 1 \in 1 .. m
  BY <1>1, <1>2
<1>4. ReadsField(q[1], EncodeField(q[1]), EndOfField(q, 1 - 1) + 1, buf)
  BY <1>3 DEF WholeUpTo
<1>5. EndOfField(q, 1 - 1) + 1 = 2
  OBVIOUS
<1>6. ~ Stop(buf, 2)
  BY <1>4, <1>5 DEF ReadsField
<1>7. 2 > Len(buf)
  OBVIOUS
<1> QED
  BY <1>6, <1>7 DEF Stop

\* What the code and the reference make of a packet cut anywhere.
PacketRead(q, n, buf, w, items) ==
  /\ w = Whole(q, n)
  /\ \E m : WholeUpTo(q, n, buf, m) /\ IsWhole(q, m, w, items)
  /\ items = FieldsFrom(buf)[2]
  /\ IF IsStatus(buf) THEN TRUE ELSE \A tag : Says(w, tag) = {}

LEMMA CutPacketRead ==
  ASSUME NEW q, NEW n, NEW d, NEW buf, IsCutPacket(q, n, d, buf)
  PROVE  \E w, items : PacketRead(q, n, buf, w, items)
<1>1. IsPacket(PKT_STATUS, q, d) /\ IsCut(d, n, buf) /\ q \in Seq(FieldSet)
  BY DEF IsCutPacket, IsPacket
<1>2. d \in Seq(Num) /\ d[1] = PKT_STATUS /\ EndOfField(q, 0) = 1
  BY <1>1, PacketEnds
<1>3. /\ buf \in Seq(Num) /\ Len(buf) = n /\ n \in Nat
      /\ \A i \in 1 .. n : buf[i] = d[i]
  BY <1>1, <1>2, CutIs
<1>4. PICK m : WholeUpTo(q, n, buf, m)
  BY WholeIs
<1>5. PICK w, items : w = SubSeq(q, 1, m) /\ items = ItemsFrom(q, m, m)
  OBVIOUS
<1>6. IsWhole(q, m, w, items) /\ w = Whole(q, n)
  BY <1>1, <1>4, <1>5 DEF IsWhole, WholeUpTo
<1>7. items = FieldsFrom(buf)[2]
  BY <1>4, <1>5, WholeFieldsRead
<1>8. ASSUME ~ IsStatus(buf), NEW tag PROVE Says(w, tag) = {}
  <2>1. n = 0
    <3>1. SUFFICES ASSUME n # 0 PROVE FALSE
      OBVIOUS
    <3>2. 1 \in 1 .. n
      BY <1>3, <3>1
    <3>3. buf[1] = PKT_STATUS
      BY <1>2, <1>3, <3>2
    <3>4. \A r : r = <<>> => Len(r) = 0
      BY EmptySeq
    <3>5. buf # <<>>
      BY <1>3, <3>1, <3>4, Zenon
    <3> QED
      BY <1>8, <3>3, <3>5 DEF IsStatus
  <2>2. Len(buf) = 0
    BY <1>3, <2>1
  <2>3. m = 0
    BY <1>2, <1>4, <2>2, NothingWhole
  <2>4. Len(w) = 0
    BY <1>6, <2>3, WholeFields
  <2> QED
    BY <2>4 DEF Says
<1>9. IF IsStatus(buf) THEN TRUE ELSE \A tag : Says(w, tag) = {}
  BY <1>8
<1>10. PacketRead(q, n, buf, w, items)
  BY <1>4, <1>6, <1>7, <1>9 DEF PacketRead
<1> QED
  BY <1>10

LEMMA ProcessedIs ==
  ASSUME NEW q, NEW n, NEW d, NEW buf, IsCutPacket(q, n, d, buf), NEW map, IsMap(map)
  PROVE  ProcessStatusPacket(buf, map).map = ReferenceMap(Whole(q, n), map)
<1>1. PICK w, items : PacketRead(q, n, buf, w, items)
  BY CutPacketRead
<1>2. PICK u : u = StatusUpdate(items)
  OBVIOUS
<1>3. Tells(u, w)
  BY <1>1, <1>2, UpdateTells DEF PacketRead
<1>4. ProcessStatusPacket(buf, map)
        = IF IsStatus(buf) /\ u.ssrc # NoValue THEN [ssrc |-> u.ssrc, map |-> Applied(map, u)]
          ELSE [ssrc |-> NoValue, map |-> map]
  BY <1>1, <1>2 DEF ProcessStatusPacket, PacketRead
<1>5. CASE IsStatus(buf) /\ u.ssrc # NoValue
  <2>1. Applied(map, u) = ReferenceMap(w, map)
    BY <1>3, <1>5, AppliedIs
  <2> QED
    BY <1>1, <1>4, <1>5, <2>1 DEF PacketRead
<1>6. CASE ~ (IsStatus(buf) /\ u.ssrc # NoValue)
  <2>1. Says(w, TAG_OUTPUT_SSRC) = {}
    <3>1. CASE ~ IsStatus(buf)
      BY <1>1, <3>1 DEF PacketRead
    <3>2. CASE u.ssrc = NoValue
      BY <1>3, <3>2 DEF Tells, TellsBytes
    <3> QED
      BY <1>6, <3>1, <3>2
  <2>2. ReferenceMap(w, map) = map
    BY <2>1 DEF ReferenceMap
  <2> QED
    BY <1>1, <1>4, <1>6, <2>2 DEF PacketRead
<1> QED
  BY <1>5, <1>6

\* A packet of another type is not a status packet.
LEMMA OtherType ==
  ASSUME NEW q, NEW d, IsPacket(1, q, d), NEW n, NEW buf, IsCut(d, n, buf)
  PROVE  ~ IsStatus(buf)
<1>1. d \in Seq(Num) /\ d[1] = 1
  BY PacketEnds
<1>2. Len(buf) = n /\ n \in Nat /\ \A i \in 1 .. n : buf[i] = d[i]
  BY <1>1, CutIs
<1>3. CASE n = 0
  <2>1. buf = <<>>
    BY <1>1, <1>2, <1>3, CutIs, EmptySeq
  <2> QED
    BY <2>1 DEF IsStatus
<1>4. CASE n # 0
  <2>1. buf[1] = 1
    BY <1>1, <1>2, <1>4
  <2> QED
    BY <2>1 DEF IsStatus, PKT_STATUS
<1> QED
  BY <1>3, <1>4

\* A status packet, cut anywhere, changes the channel map by exactly its whole
\* fields (status.rs:109-197 and 325-383).
THEOREM StatusExactCorrect == Spec => []StatusExact
<1>1. Typed => StatusExact
  <2> SUFFICES ASSUME Typed, kind \in {"status", "cmd"}
               PROVE  LET d == StatusPacket(IF kind = "cmd" THEN 1 ELSE PKT_STATUS, input) IN
                        \A n \in 0 .. Len(d), map \in Maps :
                          ProcessStatusPacket(SubSeq(d, 1, n), map).map =
                            IF kind = "cmd" THEN map ELSE ReferenceMap(Whole(input, n), map)
    BY DEF StatusExact
  <2>1. PICK t, d : t = (IF kind = "cmd" THEN 1 ELSE PKT_STATUS) /\ d = StatusPacket(t, input)
    OBVIOUS
  <2>2. IsPacket(t, input, d)
    <3>1. input \in Seq(FieldSet)
      BY DEF Typed
    <3>2. t \in Num
      BY <2>1 DEF PKT_STATUS, Num
    <3> QED
      BY <2>1, <3>1, <3>2 DEF IsPacket
  <2>3. ASSUME NEW n \in 0 .. Len(d), NEW map \in Maps
        PROVE  ProcessStatusPacket(SubSeq(d, 1, n), map).map =
                 IF kind = "cmd" THEN map ELSE ReferenceMap(Whole(input, n), map)
    <3>1. PICK buf : buf = SubSeq(d, 1, n)
      OBVIOUS
    <3>2. IsCut(d, n, buf)
      BY <3>1 DEF IsCut
    <3>3. CASE kind = "cmd"
      <4>1. IsPacket(1, input, d)
        BY <2>1, <2>2, <3>3
      <4>2. ~ IsStatus(buf)
        BY <3>2, <4>1, OtherType
      <4>3. ProcessStatusPacket(buf, map) = [ssrc |-> NoValue, map |-> map]
        BY <4>2 DEF ProcessStatusPacket
      <4> QED
        BY <3>1, <3>3, <4>3
    <3>4. CASE kind # "cmd"
      <4>1. IsCutPacket(input, n, d, buf)
        BY <2>1, <2>2, <3>2, <3>4 DEF IsCutPacket
      <4>2. IsMap(map)
        BY MapsAre
      <4>3. ProcessStatusPacket(buf, map).map = ReferenceMap(Whole(input, n), map)
        BY <4>1, <4>2, ProcessedIs
      <4> QED
        BY <3>1, <3>4, <4>3
    <3> QED
      BY <3>3, <3>4
  <2> QED
    BY <2>1, <2>3, Zenon
<1> QED
  BY <1>1, TypeCorrect, PTL

-----------------------------------------------------------------------------
(* peek_ssrc *)

\* What peek_ssrc finds among the last j of the first m fields: an SSRC.
Peeks(x, q, m, j) ==
  \/ /\ x = NoValue
     /\ \A k \in m - j + 1 .. m : q[k].tag # TAG_OUTPUT_SSRC
  \/ \E k \in m - j + 1 .. m : q[k].tag = TAG_OUTPUT_SSRC /\ x = DecodeU32(q[k].value)

LEMMA PeeksMore ==
  ASSUME NEW x, NEW q, NEW m \in Nat, NEW j \in 1 .. m,
         q[m - (j - 1)].tag # TAG_OUTPUT_SSRC, Peeks(x, q, m, j - 1)
  PROVE  Peeks(x, q, m, j)
<1>1. m - (j - 1) + 1 = m - j + 2 /\ m - (j - 1) = m - j + 1 /\ m - j + 1 \in Int
  OBVIOUS
<1>2. CASE x = NoValue /\ \A k \in m - (j - 1) + 1 .. m : q[k].tag # TAG_OUTPUT_SSRC
  <2>1. ASSUME NEW k \in m - j + 1 .. m PROVE q[k].tag # TAG_OUTPUT_SSRC
    <3>1. k = m - (j - 1) \/ k \in m - (j - 1) + 1 .. m
      OBVIOUS
    <3> QED
      BY <1>2, <3>1
  <2> QED
    BY <1>2, <2>1 DEF Peeks
<1>3. CASE \E k \in m - (j - 1) + 1 .. m :
             q[k].tag = TAG_OUTPUT_SSRC /\ x = DecodeU32(q[k].value)
  <2>1. PICK k \in m - (j - 1) + 1 .. m :
          q[k].tag = TAG_OUTPUT_SSRC /\ x = DecodeU32(q[k].value)
    BY <1>3
  <2>2. k \in m - j + 1 .. m
    OBVIOUS
  <2> QED
    BY <2>1, <2>2 DEF Peeks
<1> QED
  BY <1>2, <1>3 DEF Peeks

LEMMA PeekFinds ==
  ASSUME NEW q, NEW n, NEW d, NEW buf, IsCutPacket(q, n, d, buf),
         NEW m, WholeUpTo(q, n, buf, m)
  PROVE  Peeks(PeekFrom(buf)[2], q, m, m)
<1>1. IsPacket(PKT_STATUS, q, d) /\ IsCut(d, n, buf) /\ q \in Seq(FieldSet)
  BY DEF IsCutPacket, IsPacket
<1>2. d \in Seq(Num) /\ Len(q) \in Num /\ EndOfField(q, 0) = 1
  BY <1>1, PacketEnds
<1>3. buf \in Seq(Num)
  BY <1>1, <1>2, CutIs
<1>4. m \in Nat /\ m <= Len(q) /\ Len(q) \in Nat
  BY <1>2 DEF WholeUpTo, Num
<1>5. PICK F : /\ PeekFrom(buf) = F
               /\ \A p \in Num : F[p] = IF Stop(buf, p) THEN NoValue
                                        ELSE IF buf[p] = TAG_OUTPUT_SSRC
                                        THEN DecodeU32(ValueAt(buf, p))
                                        ELSE F[NextAt(buf, p)]
  BY <1>3, PeekFromIs
<1> DEFINE G == {j \in Nat : Peeks(F[EndOfField(q, m - j) + 1], q, m, j)}
<1>6. 0 \in G
  <2>1. EndOfField(q, m) + 1 \in Num
    <3>1. CASE m = 0
      BY <1>2, <3>1 DEF Num
    <3>2. CASE m # 0
      <4>1. m \in 1 .. m
        BY <1>4, <3>2
      <4> QED
        BY <4>1, FieldToField DEF GoesOn
    <3> QED
      BY <3>1, <3>2
  <2>2. F[EndOfField(q, m) + 1] = NoValue
    BY <1>5, <2>1 DEF WholeUpTo
  <2>3. \A k \in m - 0 + 1 .. m : q[k].tag # TAG_OUTPUT_SSRC
    BY <1>4
  <2>4. Peeks(F[EndOfField(q, m) + 1], q, m, 0)
    BY <2>2, <2>3 DEF Peeks
  <2>5. m - 0 = m
    BY <1>4
  <2> QED
    BY <2>4, <2>5
<1>7. ASSUME NEW j \in 1 .. m, j - 1 \in G PROVE j \in G
  <2>1. PICK i, p, x, y : /\ i = m - (j - 1) /\ p = EndOfField(q, i - 1) + 1
                         /\ x = F[p] /\ y = F[EndOfField(q, i) + 1]
    OBVIOUS
  <2>2. i \in 1 .. m /\ m - j = i - 1 /\ j \in Nat
    BY <1>4, <2>1
  <2>3. GoesOn(q, buf, i)
    BY <2>2, FieldToField
  <2>4. x = IF q[i].tag = TAG_OUTPUT_SSRC THEN DecodeU32(q[i].value) ELSE y
    <3>1. /\ p \in Num /\ ~ Stop(buf, p) /\ buf[p] = q[i].tag /\ ValueAt(buf, p) = q[i].value
          /\ NextAt(buf, p) = EndOfField(q, i) + 1
      BY <2>1, <2>3 DEF GoesOn
    <3>2. F[p] = IF buf[p] = TAG_OUTPUT_SSRC THEN DecodeU32(ValueAt(buf, p))
                 ELSE F[NextAt(buf, p)]
      BY <1>5, <3>1
    <3> QED
      BY <2>1, <3>1, <3>2
  <2>5. Peeks(y, q, m, j - 1)
    BY <1>7, <2>1
  <2>6. CASE q[i].tag = TAG_OUTPUT_SSRC
    <3>1. i \in m - j + 1 .. m
      BY <1>4, <2>1, <2>2
    <3>2. x = DecodeU32(q[i].value)
      BY <2>4, <2>6
    <3>3. Peeks(x, q, m, j)
      BY <2>6, <3>1, <3>2 DEF Peeks
    <3> QED
      BY <2>1, <2>2, <3>3
  <2>7. CASE q[i].tag # TAG_OUTPUT_SSRC
    <3>1. x = y
      BY <2>4, <2>7
    <3>2. Peeks(x, q, m, j)
      BY <1>4, <2>1, <2>5, <2>7, <3>1, PeeksMore
    <3> QED
      BY <2>1, <2>2, <3>2
  <2> QED
    BY <2>6, <2>7
<1>8. m \in G
  <2> HIDE DEF G
  <2>1. \A j \in 0 .. m : j \in G
    BY <1>4, <1>6, <1>7, IntervalInduction
  <2> QED
    BY <1>4, <2>1
<1>9. m - m = 0 /\ 1 + 1 = 2
  BY <1>4
<1>10. Peeks(F[EndOfField(q, m - m) + 1], q, m, m)
  BY <1>8
<1> QED
  BY <1>2, <1>5, <1>9, <1>10

\* At most one place: any two are the same.
AtMostOne(m, S) == m \in Nat /\ S \in SUBSET (1 .. m) /\ Cardinality(S) <= 1

LEMMA OneAtMost ==
  ASSUME NEW m, NEW S, AtMostOne(m, S), NEW a \in S, NEW b \in S
  PROVE  a = b
<1>0. m \in Nat /\ S \in SUBSET (1 .. m) /\ Cardinality(S) <= 1
  BY DEF AtMostOne
<1>1. IsFiniteSet(1 .. m)
  BY <1>0, FS_Interval
<1>2. IsFiniteSet(S)
  BY <1>0, <1>1, FS_Subset
<1>3. Cardinality(S) \in Nat
  BY <1>2, FS_CardinalityType
<1>4. Cardinality(S) # 0
  BY <1>2, FS_EmptySet
<1>5. Cardinality(S) = 1
  BY <1>0, <1>3, <1>4
<1>6. PICK x : S = {x}
  BY <1>2, <1>5, FS_Singleton
<1> QED
  BY <1>6

\* What peek_ssrc and processing find in a packet cut anywhere.
PeekRight(q, n, seen, processed) ==
  /\ seen = NoValue <=> processed = NoValue
  /\ Cardinality(Says(Whole(q, n), TAG_OUTPUT_SSRC)) <= 1 => seen = processed

LEMMA PeekIs ==
  ASSUME NEW q, NEW n, NEW d, NEW buf, IsCutPacket(q, n, d, buf), NEW map,
         NEW seen, seen = PeekSsrc(buf),
         NEW processed, processed = ProcessStatusPacket(buf, map).ssrc
  PROVE  PeekRight(q, n, seen, processed)
<1>1. PICK w, items : PacketRead(q, n, buf, w, items)
  BY CutPacketRead
<1>2. PICK m : WholeUpTo(q, n, buf, m) /\ IsWhole(q, m, w, items)
  BY <1>1 DEF PacketRead
<1>3. PICK u : u = StatusUpdate(items)
  OBVIOUS
<1>4. TellsBytes(u.ssrc, w, TAG_OUTPUT_SSRC, 4)
  BY <1>2, <1>3, UpdateTells DEF Tells
<1>5. /\ Len(w) = m /\ m \in Nat
      /\ \A i \in 1 .. m : w[i] = q[i] /\ w[i].value \in Seq(Num)
  BY <1>2, WholeFields
<1>6. PICK S : S = Says(w, TAG_OUTPUT_SSRC)
  OBVIOUS
<1>7. S = {i \in 1 .. m : q[i].tag = TAG_OUTPUT_SSRC} /\ S \in SUBSET (1 .. m)
  BY <1>5, <1>6 DEF Says
<1>8. processed = IF IsStatus(buf) THEN u.ssrc ELSE NoValue
  BY <1>1, <1>3 DEF ProcessStatusPacket, PacketRead
<1>9. CASE ~ IsStatus(buf)
  BY <1>8, <1>9 DEF PeekSsrc, PeekRight
<1>10. CASE IsStatus(buf)
  <2>1. processed = u.ssrc /\ seen = PeekFrom(buf)[2]
    BY <1>8, <1>10 DEF PeekSsrc
  <2>2. Peeks(seen, q, m, m)
    BY <1>2, <2>1, PeekFinds
  <2>3. m - m + 1 = 1
    BY <1>5
  <2>4. \/ seen = NoValue /\ S = {}
        \/ \E k \in S : seen = DecodeU32(q[k].value)
    BY <1>7, <2>2, <2>3 DEF Peeks
  <2>5. CASE S = {}
    <3>1. seen = NoValue
      BY <2>4, <2>5
    <3>2. processed = NoValue
      BY <1>4, <1>6, <2>1, <2>5 DEF TellsBytes
    <3> QED
      BY <3>1, <3>2 DEF PeekRight
  <2>6. CASE S # {}
    <3>1. PICK k \in S : seen = DecodeU32(q[k].value)
      BY <2>4, <2>6
    <3>2. k \in 1 .. m /\ q[k].value \in Seq(Num)
      BY <1>5, <1>7
    <3>3. seen # NoValue /\ seen = LowBytes(q[k].value, 4)
      BY <3>1, <3>2, DecodedValues
    <3>4. processed # NoValue /\ processed = LowBytes(w[Max(S)].value, 4)
      BY <1>4, <1>6, <2>1, <2>6 DEF TellsBytes
    <3>5. ASSUME Cardinality(S) <= 1 PROVE seen = processed
      <4>1. S \in SUBSET (0 .. m)
        BY <1>5, <1>7
      <4>2. Max(S) \in S
        BY <1>5, <2>6, <4>1, MaxIs
      <4>3. Max(S) = k
        <5>1. AtMostOne(m, S)
          BY <1>5, <1>7, <3>5 DEF AtMostOne
        <5> QED
          BY <4>2, <5>1, OneAtMost
      <4>4. w[k] = q[k]
        BY <1>5, <3>2
      <4> QED
        BY <3>3, <3>4, <4>3, <4>4
    <3> QED
      BY <1>1, <1>6, <3>3, <3>4, <3>5 DEF PeekRight, PacketRead
  <2> QED
    BY <2>5, <2>6
<1> QED
  BY <1>9, <1>10

\* peek_ssrc finds an SSRC exactly when processing does, and the same one unless
\* the packet has several (status.rs:238-249).
THEOREM PeekAgreesCorrect == Spec => []PeekAgrees
<1>1. Typed => PeekAgrees
  <2> SUFFICES ASSUME Typed, kind \in {"status", "cmd"}
               PROVE  LET d == StatusPacket(IF kind = "cmd" THEN 1 ELSE PKT_STATUS, input) IN
                        \A n \in 0 .. Len(d) :
                          PeekRight(input, n, PeekSsrc(SubSeq(d, 1, n)),
                                    ProcessStatusPacket(SubSeq(d, 1, n), <<>>).ssrc)
    BY Zenon DEF PeekAgrees, PeekRight
  <2>1. PICK t, d : t = (IF kind = "cmd" THEN 1 ELSE PKT_STATUS) /\ d = StatusPacket(t, input)
    OBVIOUS
  <2>2. IsPacket(t, input, d)
    <3>1. input \in Seq(FieldSet)
      BY DEF Typed
    <3>2. t \in Num
      BY <2>1 DEF PKT_STATUS, Num
    <3> QED
      BY <2>1, <3>1, <3>2 DEF IsPacket
  <2>3. ASSUME NEW n \in 0 .. Len(d)
        PROVE  PeekRight(input, n, PeekSsrc(SubSeq(d, 1, n)),
                         ProcessStatusPacket(SubSeq(d, 1, n), <<>>).ssrc)
    <3>1. PICK buf, seen, processed :
            /\ buf = SubSeq(d, 1, n) /\ seen = PeekSsrc(buf)
            /\ processed = ProcessStatusPacket(buf, <<>>).ssrc
      OBVIOUS
    <3>2. IsCut(d, n, buf)
      BY <3>1 DEF IsCut
    <3>3. CASE kind = "cmd"
      <4>1. IsPacket(1, input, d)
        BY <2>1, <2>2, <3>3
      <4>2. ~ IsStatus(buf)
        BY <3>2, <4>1, OtherType
      <4>3. seen = NoValue /\ processed = NoValue
        BY <3>1, <4>2 DEF ProcessStatusPacket, PeekSsrc
      <4> QED
        BY <3>1, <4>3 DEF PeekRight
    <3>4. CASE kind # "cmd"
      <4>1. IsCutPacket(input, n, d, buf)
        BY <2>1, <2>2, <3>2, <3>4 DEF IsCutPacket
      <4>2. PeekRight(input, n, seen, processed)
        BY <3>1, <4>1, PeekIs
      <4> QED
        BY <3>1, <4>2
    <3> QED
      BY <3>3, <3>4
  <2> QED
    BY <2>1, <2>3, Zenon
<1> QED
  BY <1>1, TypeCorrect, PTL
=============================================================================
