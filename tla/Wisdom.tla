------------------------------- MODULE Wisdom -------------------------------
(***************************************************************************)
(* The FFTW wisdom file shared by concurrent decodes: copy_wisdom_in,      *)
(* wsprd, copy_wisdom_out, as decode_window calls them.                    *)
(*                                                                         *)
(* The file system maps names to inodes.  A copy opens its destination     *)
(* with O_CREAT|O_TRUNC and then transfers it piece by piece, so two       *)
(* decodes that stage wspr_wisdom.dat.tmp at once write the same inode,    *)
(* and a rename moves whatever inode the name has at that moment.  All     *)
(* complete wisdom is the same (FFTW wisdom is deterministic for a CPU),   *)
(* hence a file is the set of pieces it holds.                             *)
(***************************************************************************)
EXTENDS Integers, FiniteSets

CONSTANTS Decodes,    \* the decodes that may run at one time
          Pieces,     \* pieces of a complete wisdom file
          MaxFaults,  \* bound on I/O errors and crashes
          None        \* no inode, no file

ASSUME WisdomAssumption == /\ IsFiniteSet(Decodes)
                           /\ Pieces \in Nat \ {0} /\ MaxFaults \in Nat
                           /\ None \notin Nat

VARIABLES names,    \* the inode that wisdom_path and its .dat.tmp sibling name
          content,  \* the pieces present in each inode
          pc,       \* where each decode is
          local,    \* wspr_wisdom.dat in the work_dir of each decode
          handle,   \* the inode each decode has open
          next,     \* the next piece of the copy under way
          faults,   \* I/O errors and crashes so far
          raced     \* two copies out have overlapped (auxiliary)

vars == <<names, content, pc, local, handle, next, faults, raced>>

Complete == 1 .. Pieces
Inodes == 1 .. Cardinality(Decodes) + 2

\* An inode that no name and no open file refers to.
FreshInode == CHOOSE i \in Inodes :
                i \notin {names.wisdom, names.tmp} \cup {handle[d] : d \in Decodes}

Init == /\ \E w \in {None, 1} : names = [wisdom |-> w, tmp |-> None]
        /\ content = [i \in Inodes |-> Complete]
        /\ pc = [d \in Decodes |-> "idle"]
        /\ local = [d \in Decodes |-> None]
        /\ handle = [d \in Decodes |-> None]
        /\ next = [d \in Decodes |-> 1]
        /\ faults = 0 /\ raced = FALSE

\* The decode is past the tests of copy_wisdom_out.
CopyingOut(d) == pc[d] \in {"stage", "writing", "rename"}

Goto(d, where) == pc' = [pc EXCEPT ![d] = where]

\* decode_window ends, for whatever reason, and drops its work_dir.
Finish(d) == /\ Goto(d, "idle")
             /\ local' = [local EXCEPT ![d] = None]
             /\ handle' = [handle EXCEPT ![d] = None]
             /\ next' = [next EXCEPT ![d] = 1]

-----------------------------------------------------------------------------
(* copy_wisdom_in *)

\* A decode with a fresh work_dir starts to copy, or finds no wisdom yet.
CopyIn(d) ==
  /\ pc[d] = "idle"
  /\ \/ /\ names.wisdom # None
        /\ handle' = [handle EXCEPT ![d] = names.wisdom]
        /\ local' = [local EXCEPT ![d] = {}]
        /\ Goto(d, "reading")
     \/ /\ names.wisdom = None
        /\ Goto(d, "wsprd")
        /\ UNCHANGED <<handle, local>>
  /\ UNCHANGED <<names, content, next, faults, raced>>

\* One more piece, or the end of the file as it is now.
Read(d) ==
  /\ pc[d] = "reading"
  /\ IF \E p \in content[handle[d]] : p >= next[d]
     THEN /\ local' = [local EXCEPT ![d] = @ \cup ({next[d]} \cap content[handle[d]])]
          /\ next' = [next EXCEPT ![d] = @ + 1]
          /\ UNCHANGED <<handle, pc>>
     ELSE /\ next' = [next EXCEPT ![d] = 1]
          /\ handle' = [handle EXCEPT ![d] = None]
          /\ Goto(d, "wsprd")
          /\ UNCHANGED local
  /\ UNCHANGED <<names, content, faults, raced>>

\* The copy fails: a warning, and wsprd runs with what there is.
ReadFails(d) ==
  /\ pc[d] = "reading" /\ faults < MaxFaults
  /\ faults' = faults + 1
  /\ next' = [next EXCEPT ![d] = 1]
  /\ handle' = [handle EXCEPT ![d] = None]
  /\ Goto(d, "wsprd")
  /\ UNCHANGED <<names, content, local, raced>>

-----------------------------------------------------------------------------
(* run_wsprd: wsprd leaves complete wisdom behind, or leaves it alone; when it *)
(* exits non-zero decode_window returns the error and nothing is copied out.   *)
Wsprd(d) ==
  /\ pc[d] = "wsprd"
  /\ \/ /\ \E file \in {local[d], Complete} : local' = [local EXCEPT ![d] = file]
        /\ Goto(d, "check")
        /\ UNCHANGED <<handle, next>>
     \/ Finish(d)
  /\ UNCHANGED <<names, content, faults, raced>>

-----------------------------------------------------------------------------
(* copy_wisdom_out *)

Check_SrcOnly(d) ==  \* mutant: the test of wisdom_path is gone
  /\ pc[d] = "check"
  /\ IF local[d] # None
     THEN Goto(d, "stage") /\ UNCHANGED <<local, handle, next>>
     ELSE Finish(d)
  /\ raced' = (raced \/ \E e \in Decodes : CopyingOut(e) /\ CopyingOut(d)')
  /\ UNCHANGED <<names, content, faults>>

\* Is there a file to save, and none saved yet?
Check(d) ==
  /\ pc[d] = "check"
  /\ IF local[d] # None /\ names.wisdom = None
     THEN Goto(d, "stage") /\ UNCHANGED <<local, handle, next>>
     ELSE Finish(d)
  /\ raced' = (raced \/ \E e \in Decodes : CopyingOut(e) /\ CopyingOut(d)')
  /\ UNCHANGED <<names, content, faults>>

\* fs::copy opens the sibling temp file: created, or truncated where it is.
Stage(d) ==
  /\ pc[d] = "stage"
  /\ LET i == IF names.tmp = None THEN FreshInode ELSE names.tmp IN
       /\ names' = [names EXCEPT !.tmp = i]
       /\ handle' = [handle EXCEPT ![d] = i]
       /\ content' = [content EXCEPT ![i] = {}]
  /\ Goto(d, "writing")
  /\ UNCHANGED <<local, next, faults, raced>>

Write_OffByOne(d) ==  \* mutant: the copy goes on past the last piece
  /\ pc[d] = "writing"
  /\ content' = [content EXCEPT ![handle[d]] = @ \cup ({next[d]} \cap local[d])]
  /\ next' = [next EXCEPT ![d] = @ + 1]
  /\ IF next[d] > Pieces
     THEN Goto(d, "rename") /\ handle' = [handle EXCEPT ![d] = None]
     ELSE UNCHANGED <<pc, handle>>
  /\ UNCHANGED <<names, local, faults, raced>>

\* fs::copy transfers the next piece, each copy at its own offset.
Write(d) ==
  /\ pc[d] = "writing"
  /\ content' = [content EXCEPT ![handle[d]] = @ \cup ({next[d]} \cap local[d])]
  /\ next' = [next EXCEPT ![d] = @ + 1]
  /\ IF next[d] = Pieces
     THEN Goto(d, "rename") /\ handle' = [handle EXCEPT ![d] = None]
     ELSE UNCHANGED <<pc, handle>>
  /\ UNCHANGED <<names, local, faults, raced>>

StageFails_Rename(d) ==  \* mutant: the return after the warning is gone
  /\ pc[d] \in {"stage", "writing"} /\ faults < MaxFaults
  /\ faults' = faults + 1
  /\ Goto(d, "rename") /\ handle' = [handle EXCEPT ![d] = None]
  /\ UNCHANGED <<names, content, local, next, raced>>

\* The staging copy fails (the disk is full): a warning, and no rename.
StageFails(d) ==
  /\ pc[d] \in {"stage", "writing"} /\ faults < MaxFaults
  /\ faults' = faults + 1
  /\ Finish(d)
  /\ UNCHANGED <<names, content, raced>>

Rename_IfAbsent(d) ==  \* mutant: the file installed meanwhile is not replaced
  /\ pc[d] = "rename"
  /\ \/ /\ names.wisdom = None
        /\ names' = [wisdom |-> names.tmp, tmp |-> None]
        /\ UNCHANGED faults
     \/ names.wisdom # None /\ UNCHANGED <<names, faults>>
     \/ faults < MaxFaults /\ faults' = faults + 1 /\ UNCHANGED names
  /\ Finish(d)
  /\ UNCHANGED <<content, raced>>

\* The rename installs what the temp name stands for now.  ENOENT, when another
\* decode has renamed it already, and every other error are only logged; the
\* staged file is left where it is.
Rename(d) ==
  /\ pc[d] = "rename"
  /\ \/ /\ names.tmp # None
        /\ names' = [wisdom |-> names.tmp, tmp |-> None]
        /\ UNCHANGED faults
     \/ names.tmp = None /\ UNCHANGED <<names, faults>>
     \/ faults < MaxFaults /\ faults' = faults + 1 /\ UNCHANGED names
  /\ Finish(d)
  /\ UNCHANGED <<content, raced>>

\* The program ends, by a crash or by Ctrl-C: main does not wait for the decodes.
Crash ==
  /\ faults < MaxFaults
  /\ faults' = faults + 1
  /\ pc' = [d \in Decodes |-> "idle"]
  /\ local' = [d \in Decodes |-> None]
  /\ handle' = [d \in Decodes |-> None]
  /\ next' = [d \in Decodes |-> 1]
  /\ UNCHANGED <<names, content, raced>>

-----------------------------------------------------------------------------
Next == \/ \E d \in Decodes : \/ CopyIn(d) \/ Read(d) \/ ReadFails(d) \/ Wsprd(d)
                              \/ Check(d) \/ Stage(d) \/ Write(d) \/ StageFails(d)
                              \/ Rename(d)
        \/ Crash

Spec == Init /\ [][Next]_vars

-----------------------------------------------------------------------------
Files == (SUBSET Complete) \cup {None}

TypeOK ==
  /\ names \in [wisdom: Inodes \cup {None}, tmp: Inodes \cup {None}]
  /\ content \in [Inodes -> SUBSET Complete]
  /\ pc \in [Decodes -> {"idle", "reading", "wsprd", "check", "stage", "writing",
                         "rename"}]
  /\ local \in [Decodes -> Files]
  /\ handle \in [Decodes -> Inodes \cup {None}]
  /\ next \in [Decodes -> 1 .. Pieces + 1]
  /\ faults \in 0 .. MaxFaults /\ raced \in BOOLEAN

\* decode.rs:130-133: write-then-rename makes concurrent calls safe.  What is
\* installed at wisdom_path is a complete file.
InstalledIsComplete == names.wisdom # None => content[names.wisdom] = Complete

\* Staging and renaming is safe against everything but another copy: as long as
\* no two copies out overlapped, the installed file is complete, whatever failed
\* and whenever the program died (decode.rs:146-158).
CompleteUnlessRaced == ~raced => InstalledIsComplete

\* A decode never stages the remains of a copy_wisdom_in that failed half-way:
\* what it copies out is complete wisdom of its own wsprd (decode.rs:142-144).
StagedIsComplete ==
  \A d \in Decodes : CopyingOut(d) => local[d] = Complete

\* However the copies of concurrent first runs interleave, once every decode is
\* over and nothing has failed, a file that was installed is complete and no
\* staging file is left behind (decode.rs:147-158).
SettlesComplete ==
  faults = 0 /\ (\A d \in Decodes : pc[d] = "idle")
    => names.tmp = None /\ InstalledIsComplete
=============================================================================
