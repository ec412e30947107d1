--------------------------- MODULE Wisdom_proofs ---------------------------
(***************************************************************************)
(* Proofs about Wisdom for any number of decodes, files of any length and  *)
(* any number of faults.                                                   *)
(***************************************************************************)
EXTENDS Wisdom, TLAPS, FiniteSetTheorems, FunctionTheorems

\* An inode that is free when the staging name is: the names and the open files
\* take at most one inode for each decode and one for the installed file.
LEMMA FreshInodeExists ==
  ASSUME TypeOK, names.tmp = None
  PROVE  /\ FreshInode \in Inodes
         /\ FreshInode # names.wisdom
         /\ \A d \in Decodes : FreshInode # handle[d]
<1> DEFINE H == {handle[d] : d \in Decodes}
           Used == {names.wisdom, names.tmp} \cup H
           n == Cardinality(Decodes)
<1>1. IsFiniteSet(Decodes) /\ n \in Nat
  BY WisdomAssumption, FS_CardinalityType
<1>2. IsFiniteSet(H) /\ Cardinality(H) <= n
  <2>1. handle \in Surjection(Decodes, H)
    <3>1. handle \in [Decodes -> H]
      BY DEF TypeOK
    <3> QED
      BY <3>1, Fun_IsSurj
  <2> QED
    BY <1>1, <2>1, FS_Surjection
<1> DEFINE W == H \cup {names.wisdom}
<1>3. IsFiniteSet(W) /\ Cardinality(W) \in Nat /\ Cardinality(W) <= n + 1
  <2> HIDE DEF H
  <2>1. Cardinality(H) \in Nat
    BY <1>2, FS_CardinalityType
  <2>2. /\ IsFiniteSet(W)
        /\ Cardinality(W) = IF names.wisdom \in H THEN Cardinality(H)
                                                    ELSE Cardinality(H) + 1
    BY <1>2, FS_AddElement
  <2> QED
    BY <1>1, <1>2, <2>1, <2>2
<1>4. IsFiniteSet(Inodes) /\ Cardinality(Inodes) = n + 2
  BY <1>1, FS_Interval DEF Inodes
<1>5. ~(Inodes \subseteq W)
  <2> HIDE DEF W
  <2>1. Inodes \in SUBSET W => Cardinality(Inodes) <= Cardinality(W)
    BY <1>3, FS_Subset
  <2> QED
    BY <1>1, <1>3, <1>4, <2>1
<1>6. None \notin Inodes
  BY <1>1, WisdomAssumption DEF Inodes
<1>7. \E i \in Inodes : i \notin Used
  BY <1>5, <1>6
<1> QED
  BY <1>7 DEF FreshInode

-----------------------------------------------------------------------------
(* What every reachable state satisfies, and what the properties rest on. *)

\* A decode has a file open while it copies; a copy out has complete wisdom to
\* copy and starts at its first piece; partial wisdom comes only from a file that
\* was installed, and then copy_wisdom_out has nothing to do.
Copying ==
  \A d \in Decodes :
    /\ handle[d] # None <=> pc[d] \in {"reading", "writing"}
    /\ pc[d] = "reading" => local[d] \in SUBSET Complete /\ names.wisdom # None
    /\ CopyingOut(d) => local[d] = Complete
    /\ pc[d] \in {"idle", "wsprd", "check", "stage"} => next[d] = 1
    /\ pc[d] = "writing" => next[d] <= Pieces
    /\ (local[d] # None /\ local[d] # Complete) => names.wisdom # None

\* The staging name never stands for the installed file, so truncating what it
\* stands for does not touch that file.
Apart == names.tmp # None => names.tmp # names.wisdom

\* The pieces that the copy of d has behind it are there.
Written(d, i) == /\ pc[d] = "writing" /\ handle[d] = i
                 /\ \A p \in 1 .. next[d] - 1 : p \in content[i]

\* As long as no copies out overlapped, the one under way owns the staging name.
Alone ==
  ~raced =>
    /\ InstalledIsComplete
    /\ \A d, e \in Decodes : CopyingOut(d) /\ CopyingOut(e) => d = e
    /\ \A d \in Decodes : pc[d] = "writing" => Written(d, names.tmp)
    /\ \A d \in Decodes : pc[d] = "rename" =>
         names.tmp # None /\ content[names.tmp] = Complete

\* When nothing fails, a file is complete or the copy that truncated it last is
\* still writing it, and the staging name belongs to a copy that will rename it.
Mending ==
  faults = 0 =>
    /\ \A i \in Inodes : \/ content[i] = Complete
                         \/ \E d \in Decodes : Written(d, i)
    /\ names.tmp # None => \E d \in Decodes : pc[d] \in {"writing", "rename"}

IInv == TypeOK /\ Copying /\ Apart /\ Alone /\ Mending

LEMMA InvInit == Init => IInv
<1> SUFFICES ASSUME Init PROVE IInv
  OBVIOUS
<1>1. Cardinality(Decodes) \in Nat
  BY WisdomAssumption, FS_CardinalityType
<1>2. 1 \in Inodes /\ Complete \in SUBSET Complete /\ 1 \in 1 .. Pieces + 1
  BY <1>1, WisdomAssumption DEF Inodes
<1>3. TypeOK
  <2>1. names \in [wisdom: Inodes \cup {None}, tmp: Inodes \cup {None}]
    BY <1>2 DEF Init
  <2>2. content \in [Inodes -> SUBSET Complete]
    BY <1>2 DEF Init
  <2>3. local \in [Decodes -> Files] /\ handle \in [Decodes -> Inodes \cup {None}]
    BY DEF Init, Files
  <2>4. next \in [Decodes -> 1 .. Pieces + 1]
    BY <1>2 DEF Init
  <2>5. faults \in 0 .. MaxFaults
    BY WisdomAssumption DEF Init
  <2> QED
    BY <2>1, <2>2, <2>3, <2>4, <2>5 DEF Init, TypeOK
<1>4. Copying /\ Apart
  BY DEF Init, Copying, Apart, CopyingOut
<1>5. Alone /\ Mending
  BY <1>2 DEF Init, Alone, Mending, InstalledIsComplete, CopyingOut
<1> QED
  BY <1>3, <1>4, <1>5 DEF IInv

-----------------------------------------------------------------------------
(* Each part of the invariant, action by action. *)

\* Stage opens an inode that the installed file is not, and writes no other.
LEMMA StageOpens ==
  ASSUME TypeOK, Apart, NEW d \in Decodes, Stage(d)
  PROVE  \E i \in Inodes :
           /\ i # names.wisdom /\ (names.tmp # None => i = names.tmp)
           /\ names' = [names EXCEPT !.tmp = i]
           /\ handle' = [handle EXCEPT ![d] = i]
           /\ content' = [content EXCEPT ![i] = {}]
<1> DEFINE i == IF names.tmp = None THEN FreshInode ELSE names.tmp
<1>1. i \in Inodes /\ i # names.wisdom
  <2>1. CASE names.tmp = None
    BY <2>1, FreshInodeExists
  <2>2. CASE names.tmp # None
    BY <2>2 DEF TypeOK, Apart
  <2> QED
    BY <2>1, <2>2
<1>2. /\ names.tmp # None => i = names.tmp
      /\ names' = [names EXCEPT !.tmp = i]
      /\ handle' = [handle EXCEPT ![d] = i]
      /\ content' = [content EXCEPT ![i] = {}]
  BY DEF Stage
<1> HIDE DEF i
<1> QED
  BY <1>1, <1>2

LEMMA TypeNext == TypeOK /\ Copying /\ Apart /\ [Next]_vars => TypeOK'
<1> SUFFICES ASSUME TypeOK, Copying, Apart, [Next]_vars PROVE TypeOK'
  OBVIOUS
<1>0. Pieces \in Nat \ {0} /\ MaxFaults \in Nat
  BY WisdomAssumption
<1>1. ASSUME NEW d \in Decodes, CopyIn(d) PROVE TypeOK'
  BY <1>1 DEF TypeOK, CopyIn, Goto, Files
<1>2. ASSUME NEW d \in Decodes, Read(d) PROVE TypeOK'
  <2>1. handle[d] \in Inodes /\ local[d] \in SUBSET Complete
    BY <1>2 DEF TypeOK, Copying, Read
  <2>2. CASE \E p \in content[handle[d]] : p >= next[d]
    <3>1. next[d] \in Complete
      BY <1>0, <2>1, <2>2 DEF TypeOK, Complete
    <3> QED
      BY <1>0, <1>2, <2>1, <2>2, <3>1 DEF TypeOK, Read, Files, Complete
  <2>3. CASE ~\E p \in content[handle[d]] : p >= next[d]
    BY <1>0, <1>2, <2>3 DEF TypeOK, Read, Goto
  <2> QED
    BY <2>2, <2>3
<1>3. ASSUME NEW d \in Decodes, ReadFails(d) PROVE TypeOK'
  BY <1>0, <1>3 DEF TypeOK, ReadFails, Goto
<1>4. ASSUME NEW d \in Decodes, Wsprd(d) PROVE TypeOK'
  BY <1>0, <1>4 DEF TypeOK, Wsprd, Goto, Finish, Files
<1>5. ASSUME NEW d \in Decodes, Check(d) PROVE TypeOK'
  BY <1>0, <1>5 DEF TypeOK, Check, Goto, Finish, Files
<1>6. ASSUME NEW d \in Decodes, Stage(d) PROVE TypeOK'
  <2>1. PICK i \in Inodes : /\ names' = [names EXCEPT !.tmp = i]
                            /\ handle' = [handle EXCEPT ![d] = i]
                            /\ content' = [content EXCEPT ![i] = {}]
    BY <1>6, StageOpens
  <2>2. pc' = [pc EXCEPT ![d] = "writing"] /\ UNCHANGED <<local, next, faults, raced>>
    BY <1>6 DEF Stage, Goto
  <2> QED
    BY <2>1, <2>2 DEF TypeOK
<1>7. ASSUME NEW d \in Decodes, Write(d) PROVE TypeOK'
  <2>1. /\ handle[d] \in Inodes /\ local[d] = Complete
        /\ next[d] + 1 \in 1 .. Pieces + 1
    BY <1>0, <1>7 DEF TypeOK, Copying, CopyingOut, Write
  <2> QED
    BY <1>7, <2>1 DEF TypeOK, Write, Goto
<1>8. ASSUME NEW d \in Decodes, StageFails(d) PROVE TypeOK'
  BY <1>0, <1>8 DEF TypeOK, StageFails, Goto, Finish, Files
<1>9. ASSUME NEW d \in Decodes, Rename(d) PROVE TypeOK'
  BY <1>0, <1>9 DEF TypeOK, Rename, Goto, Finish, Files
<1>10. CASE Crash
  BY <1>0, <1>10 DEF TypeOK, Crash, Files
<1>11. CASE UNCHANGED vars
  BY <1>11 DEF TypeOK, vars
<1> QED
  BY <1>1, <1>2, <1>3, <1>4, <1>5, <1>6, <1>7, <1>8, <1>9, <1>10, <1>11 DEF Next

LEMMA CopyingNext == TypeOK /\ Copying /\ Apart /\ [Next]_vars => Copying'
<1> SUFFICES ASSUME TypeOK, Copying, Apart, [Next]_vars PROVE Copying'
  OBVIOUS
<1>0. Pieces \in Nat \ {0} /\ None \notin Inodes
  BY WisdomAssumption, FS_CardinalityType DEF Inodes
<1> USE DEF Copying, CopyingOut
<1>1. ASSUME NEW d \in Decodes, CopyIn(d) PROVE Copying'
  BY <1>0, <1>1 DEF TypeOK, CopyIn, Goto
<1>2. ASSUME NEW d \in Decodes, Read(d) PROVE Copying'
  BY <1>0, <1>2 DEF TypeOK, Read, Goto
<1>3. ASSUME NEW d \in Decodes, ReadFails(d) PROVE Copying'
  BY <1>0, <1>3 DEF TypeOK, ReadFails, Goto
<1>4. ASSUME NEW d \in Decodes, Wsprd(d) PROVE Copying'
  BY <1>0, <1>4 DEF TypeOK, Wsprd, Goto, Finish
<1>5. ASSUME NEW d \in Decodes, Check(d) PROVE Copying'
  BY <1>0, <1>5 DEF TypeOK, Check, Goto, Finish
<1>6. ASSUME NEW d \in Decodes, Stage(d) PROVE Copying'
  <2>1. PICK i \in Inodes : /\ names' = [names EXCEPT !.tmp = i]
                            /\ handle' = [handle EXCEPT ![d] = i]
    BY <1>6, StageOpens
  <2>2. /\ pc[d] = "stage" /\ pc' = [pc EXCEPT ![d] = "writing"]
        /\ UNCHANGED <<local, next>>
    BY <1>6 DEF Stage, Goto
  <2> QED
    BY <1>0, <2>1, <2>2 DEF TypeOK
<1>7. ASSUME NEW d \in Decodes, Write(d) PROVE Copying'
  BY <1>0, <1>7 DEF TypeOK, Write, Goto
<1>8. ASSUME NEW d \in Decodes, StageFails(d) PROVE Copying'
  BY <1>0, <1>8 DEF TypeOK, StageFails, Goto, Finish
<1>9. ASSUME NEW d \in Decodes, Rename(d) PROVE Copying'
  BY <1>0, <1>9 DEF TypeOK, Rename, Goto, Finish
<1>10. CASE Crash
  BY <1>0, <1>10 DEF TypeOK, Crash
<1>11. CASE UNCHANGED vars
  BY <1>11 DEF vars
<1> QED
  BY <1>1, <1>2, <1>3, <1>4, <1>5, <1>6, <1>7, <1>8, <1>9, <1>10, <1>11 DEF Next

LEMMA ApartNext == TypeOK /\ Apart /\ [Next]_vars => Apart'
<1> SUFFICES ASSUME TypeOK, Apart, [Next]_vars PROVE Apart'
  OBVIOUS
<1>1. CASE UNCHANGED names
  BY <1>1 DEF Apart
<1>2. ASSUME NEW d \in Decodes, Stage(d) PROVE Apart'
  <2>1. PICK i \in Inodes : /\ i # names.wisdom
                            /\ names' = [names EXCEPT !.tmp = i]
    BY <1>2, StageOpens
  <2> QED
    BY <2>1 DEF TypeOK, Apart
<1>3. ASSUME NEW d \in Decodes, Rename(d) PROVE Apart'
  BY <1>3 DEF Rename, Apart
<1> QED
  BY <1>1, <1>2, <1>3 DEF Next, vars, CopyIn, Read, ReadFails, Wsprd, Check, Write,
     StageFails, Crash

\* A step that ends no copy out but this one's, begins none, and leaves the files
\* alone, keeps Alone.
LEMMA AloneFrame ==
  ASSUME Alone, NEW d \in Decodes,
         \A e \in Decodes \ {d} : /\ pc'[e] = pc[e] /\ handle'[e] = handle[e]
                                  /\ next'[e] = next[e],
         ~CopyingOut(d)', UNCHANGED <<names, content>>, raced => raced'
  PROVE  Alone'
BY DEF Alone, CopyingOut, Written, InstalledIsComplete

LEMMA AloneNext == TypeOK /\ Copying /\ Apart /\ Alone /\ [Next]_vars => Alone'
<1> SUFFICES ASSUME TypeOK, Copying, Apart, Alone, [Next]_vars PROVE Alone'
  OBVIOUS
<1>0. Pieces \in Nat \ {0} /\ None \notin Inodes
  BY WisdomAssumption, FS_CardinalityType DEF Inodes
<1>1. ASSUME NEW d \in Decodes, CopyIn(d) PROVE Alone'
  BY <1>1, AloneFrame DEF TypeOK, CopyIn, Goto, CopyingOut
<1>2. ASSUME NEW d \in Decodes, Read(d) PROVE Alone'
  BY <1>2, AloneFrame DEF TypeOK, Read, Goto, CopyingOut
<1>3. ASSUME NEW d \in Decodes, ReadFails(d) PROVE Alone'
  BY <1>3, AloneFrame DEF TypeOK, ReadFails, Goto, CopyingOut
<1>4. ASSUME NEW d \in Decodes, Wsprd(d) PROVE Alone'
  BY <1>4, AloneFrame DEF TypeOK, Wsprd, Goto, Finish, CopyingOut
<1>5. ASSUME NEW d \in Decodes, Check(d) PROVE Alone'
  <2>1. CASE local[d] # None /\ names.wisdom = None
    <3>1. /\ pc' = [pc EXCEPT ![d] = "stage"]
          /\ UNCHANGED <<names, content, handle, next>>
          /\ raced' = (raced \/ \E e \in Decodes : CopyingOut(e) /\ CopyingOut(d)')
      BY <1>5, <2>1 DEF Check, Goto
    <3>2. CopyingOut(d)'
      BY <3>1 DEF CopyingOut, TypeOK
    <3> SUFFICES ASSUME ~raced' PROVE Alone'
      BY DEF Alone
    <3>3. ~raced /\ \A e \in Decodes : ~CopyingOut(e)
      BY <3>1, <3>2
    <3> QED
      BY <3>1, <3>3 DEF TypeOK, Alone, CopyingOut, InstalledIsComplete
  <2>2. CASE ~(local[d] # None /\ names.wisdom = None)
    BY <1>5, <2>2, AloneFrame DEF TypeOK, Check, Finish, Goto, CopyingOut
  <2> QED
    BY <2>1, <2>2
<1>6. ASSUME NEW d \in Decodes, Stage(d) PROVE Alone'
  <2> SUFFICES ASSUME ~raced' PROVE Alone'
    BY DEF Alone
  <2>1. PICK i \in Inodes : /\ i # names.wisdom
                            /\ names' = [names EXCEPT !.tmp = i]
                            /\ handle' = [handle EXCEPT ![d] = i]
                            /\ content' = [content EXCEPT ![i] = {}]
    BY <1>6, StageOpens
  <2>2. /\ pc[d] = "stage" /\ pc' = [pc EXCEPT ![d] = "writing"]
        /\ UNCHANGED <<local, next, raced>>
    BY <1>6 DEF Stage, Goto
  <2>3. next[d] = 1 /\ CopyingOut(d)
    BY <2>2 DEF Copying, CopyingOut
  <2>4. \A e \in Decodes \ {d} : ~CopyingOut(e)
    BY <2>2, <2>3 DEF Alone
  <2>5. \A e \in Decodes \ {d} : ~CopyingOut(e)'
    BY <2>2, <2>4 DEF TypeOK, CopyingOut
  <2>6. InstalledIsComplete'
    BY <2>1, <2>2 DEF TypeOK, Alone, InstalledIsComplete
  <2>7. Written(d, names.tmp)'
    BY <2>1, <2>2, <2>3 DEF TypeOK, Written
  <2> QED
    BY <2>2, <2>5, <2>6, <2>7 DEF TypeOK, Alone, CopyingOut
<1>7. ASSUME NEW d \in Decodes, Write(d) PROVE Alone'
  <2> SUFFICES ASSUME ~raced' PROVE Alone'
    BY DEF Alone
  <2> DEFINE i == handle[d]
  <2>1. /\ pc[d] = "writing" /\ local[d] = Complete /\ next[d] \in 1 .. Pieces
        /\ content' = [content EXCEPT ![i] = @ \cup ({next[d]} \cap local[d])]
        /\ next' = [next EXCEPT ![d] = @ + 1]
        /\ UNCHANGED <<names, raced>>
    BY <1>0, <1>7 DEF TypeOK, Write, Copying, CopyingOut
  <2>2. \A e \in Decodes \ {d} : ~CopyingOut(e)
    BY <2>1 DEF Alone, CopyingOut
  <2>3. i = names.tmp /\ i \in Inodes /\ \A p \in 1 .. next[d] - 1 : p \in content[i]
    <3>1. Written(d, names.tmp)
      BY <2>1 DEF Alone
    <3>2. i \in Inodes
      BY <2>1 DEF TypeOK, Copying
    <3> QED
      BY <3>1, <3>2 DEF Written
  <2>4. \A p \in 1 .. next[d] : p \in content'[i]
    BY <2>1, <2>3 DEF TypeOK, Complete
  <2>5. InstalledIsComplete'
    BY <2>1, <2>3 DEF TypeOK, Alone, InstalledIsComplete, Apart
  <2>6. \A e \in Decodes \ {d} : ~CopyingOut(e)'
    BY <1>7, <2>2 DEF TypeOK, CopyingOut, Write, Goto
  <2>7. CASE next[d] = Pieces
    <3>1. content'[i] = Complete
      BY <1>0, <2>1, <2>3, <2>4, <2>7 DEF TypeOK, Complete
    <3>2. pc' = [pc EXCEPT ![d] = "rename"]
      BY <1>7, <2>7 DEF Write, Goto
    <3> QED
      BY <1>0, <2>1, <2>3, <2>5, <2>6, <3>1, <3>2 DEF TypeOK, Alone, CopyingOut
  <2>8. CASE next[d] # Pieces
    <3>1. UNCHANGED <<pc, handle>>
      BY <1>7, <2>8 DEF Write
    <3>2. Written(d, names.tmp)'
      BY <2>1, <2>3, <2>4, <3>1 DEF TypeOK, Written
    <3> QED
      BY <2>1, <2>5, <2>6, <3>1, <3>2 DEF TypeOK, Alone, CopyingOut
  <2> QED
    BY <2>7, <2>8
<1>8. ASSUME NEW d \in Decodes, StageFails(d) PROVE Alone'
  BY <1>8, AloneFrame DEF TypeOK, StageFails, Goto, Finish, CopyingOut
<1>9. ASSUME NEW d \in Decodes, Rename(d) PROVE Alone'
  <2> SUFFICES ASSUME ~raced' PROVE Alone'
    BY DEF Alone
  <2>1. /\ pc[d] = "rename" /\ pc' = [pc EXCEPT ![d] = "idle"]
        /\ UNCHANGED <<content, raced>>
    BY <1>9 DEF Rename, Finish, Goto
  <2>2. \A e \in Decodes \ {d} : ~CopyingOut(e)
    BY <2>1 DEF Alone, CopyingOut
  <2>3. \A e \in Decodes : ~CopyingOut(e)'
    BY <2>1, <2>2 DEF TypeOK, CopyingOut
  <2>4. InstalledIsComplete'
    <3>1. CASE names.tmp # None /\ names' = [wisdom |-> names.tmp, tmp |-> None]
      <4>1. names'.wisdom = names.tmp /\ content[names.tmp] = Complete
        BY <2>1, <3>1 DEF Alone
      <4> QED
        BY <2>1, <4>1 DEF InstalledIsComplete
    \* Nothing to rename, or a rename that fails.
    <3>2. CASE UNCHANGED names
      BY <2>1, <3>2 DEF Alone, InstalledIsComplete
    <3> QED
      BY <1>9, <3>1, <3>2 DEF Rename
  <2> QED
    BY <2>3, <2>4 DEF Alone, CopyingOut
<1>10. CASE Crash
  BY <1>10 DEF TypeOK, Alone, Crash, CopyingOut, InstalledIsComplete
<1>11. CASE UNCHANGED vars
  BY <1>11 DEF vars, Alone, CopyingOut, Written, InstalledIsComplete
<1> QED
  BY <1>1, <1>2, <1>3, <1>4, <1>5, <1>6, <1>7, <1>8, <1>9, <1>10, <1>11 DEF Next

LEMMA MendingNext == TypeOK /\ Copying /\ Apart /\ Mending /\ [Next]_vars => Mending'
<1> SUFFICES ASSUME TypeOK, Copying, Apart, Mending, [Next]_vars, faults' = 0
             PROVE  Mending'
  BY DEF Mending
<1>0. Pieces \in Nat \ {0} /\ None \notin Inodes
  BY WisdomAssumption, FS_CardinalityType DEF Inodes
\* A decode that copies nothing out, before or after the step, is no witness.
<1>1. ASSUME NEW d \in Decodes,
             \A e \in Decodes \ {d} : /\ pc'[e] = pc[e] /\ handle'[e] = handle[e]
                                      /\ next'[e] = next[e],
             pc[d] \notin {"writing", "rename"}, UNCHANGED <<names, content, faults>>
      PROVE  Mending'
  BY <1>1 DEF Mending, Written
<1>2. ASSUME NEW d \in Decodes, CopyIn(d) PROVE Mending'
  BY <1>1, <1>2 DEF TypeOK, CopyIn, Goto
<1>3. ASSUME NEW d \in Decodes, Read(d) PROVE Mending'
  BY <1>1, <1>3 DEF TypeOK, Read, Goto
<1>4. ASSUME NEW d \in Decodes, Wsprd(d) PROVE Mending'
  BY <1>1, <1>4 DEF TypeOK, Wsprd, Goto, Finish
<1>5. ASSUME NEW d \in Decodes, Check(d) PROVE Mending'
  BY <1>1, <1>5 DEF TypeOK, Check, Goto, Finish
<1>6. ASSUME NEW d \in Decodes, Stage(d) PROVE Mending'
  <2>1. PICK i \in Inodes : /\ names' = [names EXCEPT !.tmp = i]
                            /\ handle' = [handle EXCEPT ![d] = i]
                            /\ content' = [content EXCEPT ![i] = {}]
    BY <1>6, StageOpens
  <2>2. /\ pc[d] = "stage" /\ pc' = [pc EXCEPT ![d] = "writing"]
        /\ next[d] = 1 /\ UNCHANGED <<next, faults>>
    BY <1>6 DEF Stage, Goto, Copying
  <2>3. Written(d, i)'
    BY <2>1, <2>2 DEF TypeOK, Written
  <2>4. ASSUME NEW j \in Inodes, j # i
        PROVE  content'[j] = Complete \/ \E e \in Decodes : Written(e, j)'
    BY <2>1, <2>2, <2>4 DEF TypeOK, Mending, Written
  <2>5. pc'[d] = "writing"
    BY <2>2 DEF TypeOK
  <2> QED
    BY <2>2, <2>3, <2>4, <2>5 DEF Mending
<1>7. ASSUME NEW d \in Decodes, Write(d) PROVE Mending'
  <2> DEFINE i == handle[d]
  <2>1. /\ pc[d] = "writing" /\ local[d] = Complete /\ next[d] \in 1 .. Pieces
        /\ i \in Inodes
        /\ content' = [content EXCEPT ![i] = @ \cup ({next[d]} \cap local[d])]
        /\ next' = [next EXCEPT ![d] = @ + 1]
        /\ UNCHANGED <<names, faults>>
    BY <1>0, <1>7 DEF TypeOK, Write, Copying, CopyingOut
  <2>2. pc'[d] \in {"writing", "rename"}
    BY <1>7, <2>1 DEF TypeOK, Write, Goto
  <2>3. /\ \A j \in Inodes : content[j] \subseteq content'[j]
        /\ \A j \in Inodes : content'[j] \subseteq Complete
        /\ next[d] \in content'[i]
    BY <2>1 DEF TypeOK, Complete
  \* Another copy that has kept up with its file still does.
  <2>4. ASSUME NEW j \in Inodes, NEW e \in Decodes \ {d}, Written(e, j)
        PROVE  Written(e, j)'
    BY <1>7, <2>1, <2>3, <2>4 DEF TypeOK, Write, Goto, Written
  \* This one has kept up too, or is through with a file that is now complete.
  <2>5. ASSUME NEW j \in Inodes, Written(d, j)
        PROVE  content'[j] = Complete \/ Written(d, j)'
    <3>1. j = i /\ \A p \in 1 .. next[d] - 1 : p \in content[i]
      BY <2>5 DEF Written
    <3>2. \A p \in 1 .. next[d] : p \in content'[i]
      BY <2>1, <2>3, <3>1
    <3>3. CASE next[d] = Pieces
      BY <2>3, <3>1, <3>2, <3>3 DEF Complete
    <3>4. CASE next[d] # Pieces
      <4>1. UNCHANGED <<pc, handle>> /\ next'[d] = next[d] + 1
        BY <1>7, <2>1, <3>4 DEF TypeOK, Write
      <4> QED
        BY <2>1, <3>1, <3>2, <4>1 DEF Written
    <3> QED
      BY <3>3, <3>4
  <2>6. ASSUME NEW j \in Inodes, content[j] = Complete
        PROVE  content'[j] = Complete
    BY <2>3, <2>6
  <2> QED
    BY <2>1, <2>2, <2>4, <2>5, <2>6 DEF Mending
<1>8. ASSUME NEW d \in Decodes, Rename(d) PROVE Mending'
  <2>1. /\ pc[d] = "rename" /\ pc' = [pc EXCEPT ![d] = "idle"]
        /\ handle' = [handle EXCEPT ![d] = None] /\ next' = [next EXCEPT ![d] = 1]
        /\ UNCHANGED content
    BY <1>8 DEF Rename, Finish, Goto
  \* A rename that fails is a fault.
  <2>2. faults' # faults + 1
    BY DEF TypeOK
  <2>3. names'.tmp = None /\ UNCHANGED faults
    BY <1>8, <2>2 DEF Rename, TypeOK
  <2> QED
    BY <2>1, <2>3 DEF TypeOK, Mending, Written
<1>9. CASE UNCHANGED vars
  BY <1>9 DEF vars, Mending, Written
\* The other actions are faults.
<1>10. ASSUME NEW d \in Decodes, ReadFails(d) \/ StageFails(d) PROVE FALSE
  BY <1>10 DEF ReadFails, StageFails, TypeOK
<1>11. CASE Crash
  BY <1>11 DEF Crash, TypeOK
<1> QED
  BY <1>2, <1>3, <1>4, <1>5, <1>6, <1>7, <1>8, <1>9, <1>10, <1>11 DEF Next

-----------------------------------------------------------------------------
LEMMA InvCorrect == Spec => []IInv
<1>1. IInv /\ [Next]_vars => IInv'
  BY TypeNext, CopyingNext, ApartNext, AloneNext, MendingNext DEF IInv
<1> QED
  BY <1>1, InvInit, PTL DEF Spec

\* Every reachable state is type correct: handles and names stand for inodes, and
\* no copy goes past the last piece.
THEOREM TypeCorrect == Spec => []TypeOK
<1>1. IInv => TypeOK
  BY DEF IInv
<1> QED
  BY <1>1, InvCorrect, PTL

\* Whatever fails and whenever the program dies, the installed file is complete
\* as long as no two copies out have overlapped (decode.rs:130-158).
THEOREM CompleteUnlessRacedCorrect == Spec => []CompleteUnlessRaced
<1>1. IInv => CompleteUnlessRaced
  BY DEF IInv, Alone, CompleteUnlessRaced
<1> QED
  BY <1>1, InvCorrect, PTL

\* No decode copies out anything but complete wisdom (decode.rs:142-144).
THEOREM StagedIsCompleteCorrect == Spec => []StagedIsComplete
<1>1. IInv => StagedIsComplete
  BY DEF IInv, Copying, StagedIsComplete
<1> QED
  BY <1>1, InvCorrect, PTL

\* However many first decodes race, when they are over and nothing has failed the
\* installed file is complete and no staging file is left (decode.rs:147-158).
THEOREM SettlesCompleteCorrect == Spec => []SettlesComplete
<1>1. IInv => SettlesComplete
  BY DEF IInv, TypeOK, Mending, Written, SettlesComplete, InstalledIsComplete
<1> QED
  BY <1>1, InvCorrect, PTL
=============================================================================
