----------------------------- MODULE DecodeTask -----------------------------
(***************************************************************************)
(* decode_task and its outputs: sealed windows come in, every one is       *)
(* decoded by a task of its own, and the spots come back through an        *)
(* unbounded channel to be appended to the NDJSON file and inserted into   *)
(* ClickHouse, spot by spot and window by window, in decode_task's loop.   *)
(*                                                                         *)
(* A line of the file is written in pieces: a write that fails, or a       *)
(* process that dies, may leave some of them.  tokio's file reports a      *)
(* failed write at the flush and keeps nothing of it; ClickHouse may have  *)
(* committed an insert whose answer was an error.                          *)
(***************************************************************************)
EXTENDS Naturals, FiniteSets, SequencesExt

CONSTANTS Windows,        \* the windows that buffer_task seals
          MaxSpots,       \* bound on the spots of a window
          WindowChanCap,  \* WINDOW_CHAN_CAP
          MaxFaults       \* bound on the failed operations and crashes

ASSUME DecodeAssumption == /\ MaxSpots \in Nat /\ MaxFaults \in Nat
                           /\ WindowChanCap \in Nat \ {0}

\* Spot i of a window; its line in the file is two pieces of JSON and the
\* line's end.
Spots == Windows \X (1 .. MaxSpots)
Newline == "newline"
Line_NoNewline(spot) == <<<<spot, "head">>, <<spot, "tail">>>>  \* mutant
Line(spot) == <<<<spot, "head">>, <<spot, "tail">>, Newline>>
Pieces == (Spots \X {"head", "tail"}) \cup {Newline}

\* What a decode sends back: Ok(spots), or Err.
SpotsOf(w, n) == [i \in 1 .. n |-> <<w, i>>]
Results == [window : Windows, ok : BOOLEAN, spots : Seq(Spots)]

VARIABLES has_file,   \* an output file is configured
          has_ch,     \* a ClickHouse client is configured
          to_seal,    \* windows that buffer_task may still send
          closed,     \* buffer_task has dropped its end of the window channel
          told,       \* notified() of decode_task's select! is triggered
          win_chan,   \* the window channel
          decoding,   \* windows whose decode runs
          spot_chan,  \* the spot channel, unbounded
          pc,         \* where decode_task is
          out_file,   \* the output file is open
          result,     \* the result in hand
          todo,       \* its spots still to be written to the file
          insert,     \* the rows of the running insert
          file,       \* content of the output file, in pieces
          table,      \* rows committed in ClickHouse, in order
          reported,   \* results taken from the spot channel, in order (auxiliary)
          acked,      \* spots whose write succeeded (auxiliary)
          torn,       \* writes that left part of a line (auxiliary)
          faults      \* faults so far (bounded by MaxFaults)

vars == <<has_file, has_ch, to_seal, closed, told, win_chan, decoding, spot_chan,
          pc, out_file, result, todo, insert, file, table, reported, acked,
          torn, faults>>

config_vars == <<has_file, has_ch>>
input_vars == <<to_seal, closed, win_chan>>
decode_vars == <<decoding, spot_chan>>
handler_vars == <<result, todo, insert>>
output_vars == <<file, table, acked, torn>>

-----------------------------------------------------------------------------
Init == /\ has_file \in BOOLEAN /\ has_ch \in BOOLEAN
        /\ to_seal = Windows /\ closed = FALSE /\ told = FALSE
        /\ win_chan = <<>> /\ decoding = {} /\ spot_chan = <<>>
        /\ pc = "opening" /\ out_file = FALSE
        /\ result = <<>> /\ todo = <<>> /\ insert = <<>>
        /\ file = <<>> /\ table = <<>>
        /\ reported = <<>> /\ acked = {} /\ torn = 0 /\ faults = 0

\* A fault is one of the bounded number of things that go wrong.
Fault == faults < MaxFaults /\ faults' = faults + 1

(* buffer_task, while the process is there, and Ctrl-C *)

SealWindow(w) ==
  /\ pc # "crashed" /\ ~closed /\ w \in to_seal /\ Len(win_chan) < WindowChanCap
  /\ to_seal' = to_seal \ {w}
  /\ win_chan' = IF pc = "done" THEN win_chan ELSE Append(win_chan, w)
  /\ UNCHANGED <<config_vars, closed, told, decode_vars, pc, out_file,
                 handler_vars, output_vars, reported, faults>>

CloseWindows ==
  /\ pc # "crashed" /\ ~closed
  /\ closed' = TRUE
  /\ UNCHANGED <<config_vars, to_seal, told, win_chan, decode_vars, pc, out_file,
                 handler_vars, output_vars, reported, faults>>

\* notify_waiters() reaches decode_task only while it is in its select!.
CtrlC ==
  /\ pc = "select"
  /\ told' = TRUE
  /\ UNCHANGED <<config_vars, input_vars, decode_vars, pc, out_file,
                 handler_vars, output_vars, reported, faults>>

-----------------------------------------------------------------------------
(* The decodes *)

\* A finished decode sends its result, in vain if decode_task is gone.
SendResult(w, ok, spots) ==
  /\ w \in decoding
  /\ decoding' = decoding \ {w}
  /\ spot_chan' = IF pc = "done" THEN spot_chan
                  ELSE Append(spot_chan, [window |-> w, ok |-> ok, spots |-> spots])
  /\ UNCHANGED <<config_vars, input_vars, told, pc, out_file, handler_vars,
                 output_vars, reported>>

\* decode_window: wsprd succeeds, with the spots of ALL_WSPR.TXT or none.
DecodeOk(w) ==
  /\ \E n \in 0 .. MaxSpots : SendResult(w, TRUE, SpotsOf(w, n))
  /\ UNCHANGED faults

DecodeFails_Silent(w) ==  \* mutant: the spawned task returns by `?`
  /\ Fault
  /\ w \in decoding /\ decoding' = decoding \ {w}
  /\ UNCHANGED <<config_vars, input_vars, told, spot_chan, pc, out_file,
                 handler_vars, output_vars, reported>>

\* The temp directory, the WAV file, wsprd or its output failed.
DecodeFails(w) == Fault /\ SendResult(w, FALSE, <<>>)

-----------------------------------------------------------------------------
(* decode_task *)

\* The output file is opened once, to append; without it spots are only logged.
OpenFile ==
  /\ pc = "opening" /\ pc' = "select"
  /\ \/ out_file' = has_file /\ UNCHANGED faults
     \/ has_file /\ Fault /\ out_file' = FALSE
  /\ UNCHANGED <<config_vars, input_vars, told, decode_vars, handler_vars,
                 output_vars, reported>>

Stop == /\ pc = "select" /\ told
        /\ pc' = "flushing"
        /\ UNCHANGED <<config_vars, input_vars, told, decode_vars, out_file,
                       handler_vars, output_vars, reported, faults>>

\* The window branch: spawn a decode.
Take ==
  /\ pc = "select" /\ ~told /\ win_chan # <<>>
  /\ win_chan' = Tail(win_chan)
  /\ decoding' = decoding \cup {Head(win_chan)}
  /\ UNCHANGED <<config_vars, to_seal, closed, told, spot_chan, pc, out_file,
                 handler_vars, output_vars, reported, faults>>

WindowsClosed ==
  /\ pc = "select" /\ ~told /\ win_chan = <<>> /\ closed
  /\ pc' = "flushing"
  /\ UNCHANGED <<config_vars, input_vars, told, decode_vars, out_file,
                 handler_vars, output_vars, reported, faults>>

\* The spot branch, polled last: take a result; an Err is only logged.
TakeResult ==
  /\ pc = "select" /\ ~told /\ win_chan = <<>> /\ ~closed
  /\ spot_chan # <<>> /\ spot_chan' = Tail(spot_chan)
  /\ LET r == Head(spot_chan) IN
       /\ reported' = Append(reported, r)
       /\ IF r.ok THEN result' = r.spots /\ todo' = r.spots /\ pc' = "writing"
                  ELSE UNCHANGED <<result, todo, pc>>
  /\ UNCHANGED <<config_vars, input_vars, told, decoding, out_file, insert,
                 output_vars, faults>>

\* What a failing write or a crash may leave of a line.
Partial(spot) == {SubSeq(Line(spot), 1, n) : n \in 0 .. 2}

\* write_spot: json, newline, flush.  An error is logged and forgotten.
WriteSpot ==
  /\ pc = "writing" /\ todo # <<>>
  /\ todo' = Tail(todo)
  /\ LET spot == Head(todo) IN
       \/ /\ out_file
          /\ file' = file \o Line(spot) /\ acked' = acked \cup {spot}
          /\ UNCHANGED <<torn, faults>>
       \/ /\ out_file /\ Fault
          /\ \E p \in Partial(spot) :
               file' = file \o p /\ torn' = torn + (IF p = <<>> THEN 0 ELSE 1)
          /\ UNCHANGED acked
       \/ ~out_file /\ UNCHANGED <<file, acked, torn, faults>>
  /\ UNCHANGED <<config_vars, input_vars, told, decode_vars, pc, out_file,
                 result, insert, table, reported>>

BeginInsert_NeedsFile ==  \* mutant: no output file, no insert
  /\ pc = "writing" /\ todo = <<>>
  /\ pc' = IF out_file /\ has_ch /\ result # <<>> THEN "inserting" ELSE "select"
  /\ insert' = <<>>
  /\ UNCHANGED <<config_vars, input_vars, told, decode_vars, out_file, result,
                 todo, output_vars, reported, faults>>

\* insert_spots_ch returns at once for an empty batch.
BeginInsert ==
  /\ pc = "writing" /\ todo = <<>>
  /\ \/ pc' = (IF has_ch /\ result # <<>> THEN "inserting" ELSE "select")
        /\ UNCHANGED faults
     \/ has_ch /\ result # <<>> /\ Fault /\ pc' = "select"
  /\ insert' = <<>>
  /\ UNCHANGED <<config_vars, input_vars, told, decode_vars, out_file, result,
                 todo, output_vars, reported>>

InsertRow_First ==  \* mutant: the loop does not advance
  /\ pc = "inserting" /\ Len(insert) < Len(result)
  /\ \/ insert' = Append(insert, result[1]) /\ UNCHANGED <<pc, faults>>
     \/ Fault /\ insert' = <<>> /\ pc' = "select"
  /\ UNCHANGED <<config_vars, input_vars, told, decode_vars, out_file, result,
                 todo, output_vars, reported>>

\* A row goes into the running request.  On an error insert_spots_ch returns
\* and drops the inserter, which aborts the request.
InsertRow ==
  /\ pc = "inserting" /\ Len(insert) < Len(result)
  /\ \/ insert' = Append(insert, result[Len(insert) + 1]) /\ UNCHANGED <<pc, faults>>
     \/ Fault /\ insert' = <<>> /\ pc' = "select"
  /\ UNCHANGED <<config_vars, input_vars, told, decode_vars, out_file, result,
                 todo, output_vars, reported>>

EndInsert_Retry ==  \* mutant: an insert that failed is made again
  /\ pc = "inserting" /\ insert = result
  /\ \/ table' = table \o insert /\ UNCHANGED faults
     \/ Fault /\ table' \in {table \o insert, table \o insert \o insert}
  /\ insert' = <<>> /\ pc' = "select"
  /\ UNCHANGED <<config_vars, input_vars, told, decode_vars, out_file, result,
                 todo, file, acked, torn, reported>>

\* end() commits the batch; an error may come before or after the commit, and
\* is only logged.
EndInsert ==
  /\ pc = "inserting" /\ insert = result
  /\ \/ table' = table \o insert /\ UNCHANGED faults
     \/ Fault /\ table' \in {table, table \o insert}
  /\ insert' = <<>> /\ pc' = "select"
  /\ UNCHANGED <<config_vars, input_vars, told, decode_vars, out_file, result,
                 todo, file, acked, torn, reported>>

\* The last flush finds nothing to write: every spot has been flushed.
Finish ==
  /\ pc = "flushing" /\ pc' = "done"
  /\ win_chan' = <<>> /\ spot_chan' = <<>>
  /\ UNCHANGED <<config_vars, to_seal, closed, told, decoding, out_file,
                 handler_vars, output_vars, reported, faults>>

\* The process dies at any point: what it held is lost, the line it was writing
\* may be there in part, and ClickHouse may have received all of the insert.
Crash ==
  /\ pc \notin {"crashed", "done"} /\ Fault
  /\ pc' = "crashed"
  /\ \/ /\ pc = "writing" /\ todo # <<>> /\ out_file
        /\ \E p \in Partial(Head(todo)) \cup {Line(Head(todo))} :
             /\ file' = file \o p
             /\ torn' = torn + (IF Len(p) \in {1, 2} THEN 1 ELSE 0)
        /\ UNCHANGED <<table, acked>>
     \/ /\ pc = "inserting" /\ insert = result
        /\ table' = table \o insert /\ UNCHANGED <<file, acked, torn>>
     \/ UNCHANGED output_vars
  /\ win_chan' = <<>> /\ decoding' = {} /\ spot_chan' = <<>>
  /\ todo' = <<>> /\ insert' = <<>> /\ result' = <<>>
  /\ closed' = FALSE /\ told' = FALSE /\ out_file' = FALSE
  /\ UNCHANGED <<config_vars, to_seal, reported>>

\* The program is started again and appends to the same file.
Restart ==
  /\ pc = "crashed" /\ pc' = "opening"
  /\ UNCHANGED <<config_vars, input_vars, told, decode_vars, out_file,
                 handler_vars, output_vars, reported, faults>>

-----------------------------------------------------------------------------
Next == \/ \E w \in Windows : SealWindow(w) \/ DecodeOk(w) \/ DecodeFails(w)
        \/ CloseWindows \/ CtrlC
        \/ OpenFile \/ Stop \/ Take \/ WindowsClosed \/ TakeResult
        \/ WriteSpot \/ BeginInsert \/ InsertRow \/ EndInsert \/ Finish
        \/ Crash \/ Restart

Spec == Init /\ [][Next]_vars

\* decode_task is polled when it can run, its file and ClickHouse answer or
\* fail, and wsprd ends.  No timeout of the code sees to the last two.
Fairness == /\ \A w \in Windows : WF_vars(DecodeOk(w) \/ DecodeFails(w))
            /\ WF_vars(OpenFile) /\ WF_vars(Stop) /\ WF_vars(Take)
            /\ WF_vars(WindowsClosed) /\ WF_vars(TakeResult)
            /\ WF_vars(WriteSpot) /\ WF_vars(BeginInsert)
            /\ WF_vars(InsertRow) /\ WF_vars(EndInsert) /\ WF_vars(Finish)

FairSpec == Spec /\ Fairness

-----------------------------------------------------------------------------
TypeOK ==
  /\ has_file \in BOOLEAN /\ has_ch \in BOOLEAN
  /\ to_seal \subseteq Windows /\ closed \in BOOLEAN /\ told \in BOOLEAN
  /\ win_chan \in Seq(Windows) /\ Len(win_chan) <= WindowChanCap
  /\ decoding \subseteq Windows /\ spot_chan \in Seq(Results)
  /\ pc \in {"opening", "select", "writing", "inserting", "flushing", "done",
             "crashed"}
  /\ out_file \in BOOLEAN /\ (out_file => has_file)
  /\ result \in Seq(Spots) /\ IsSuffix(todo, result) /\ IsPrefix(insert, result)
  /\ table \in Seq(Spots) /\ reported \in Seq(Results)
  /\ file \in Seq(Pieces) /\ acked \subseteq Spots
  /\ torn \in 0 .. faults /\ faults \in 0 .. MaxFaults

\* The results taken from the channel, of the windows at the given places.
SpotsAt(places) ==
  FlattenSeq([i \in 1 .. Len(reported) |->
                IF i \in places THEN reported[i].spots ELSE <<>>])

\* ClickHouse holds whole windows, each one once and in the order of their
\* results, whatever fails and even when the answer to a commit is lost
\* (main.rs:739-767: one insert for a window, never repeated).
TableIsBatches == \E places \in SUBSET (1 .. Len(reported)) : table = SpotsAt(places)

\* Nothing failed: then between two results, and when it has stopped,
\* decode_task has put every spot of the results it took into each output it
\* has, in order (main.rs: shutdown is polled only between two handlers).
OutputsAgree ==
  (faults = 0 /\ pc \in {"select", "flushing", "done"}) =>
     LET all == SpotsAt(1 .. Len(reported)) IN
       /\ has_ch => table = all
       /\ has_file => file = FlattenSeq([i \in 1 .. Len(all) |-> Line(all[i])])

\* A reader of the file takes it line by line.
Readable(spot) ==
  \E i \in 1 .. Len(file) - 2 :
    /\ i = 1 \/ file[i - 1] = Newline
    /\ file[i] = <<spot, "head">> /\ file[i + 1] = <<spot, "tail">>
    /\ file[i + 2] = Newline

\* A line that was left in part spoils at most one other: the one behind it,
\* be it of the same run of the program or of the next (main.rs:772-792).
DamageContained == Cardinality({s \in acked : ~Readable(s)}) <= torn

\* Every window that decode_task took is reported, decoded or failed, unless
\* the program stops or dies first (main.rs:634-643).
EveryDecodeReported ==
  \A w \in Windows : w \in decoding ~>
    \/ \E i \in 1 .. Len(reported) : reported[i].window = w
    \/ pc \in {"done", "crashed"}

-----------------------------------------------------------------------------
(* What a comment of the code says, and the code does not do. *)

\* main.rs:769: "Append a single JSON line for `spot` to `out_file` (NDJSON
\* format)".  A spot that was written is a line of the file.
AckedIsReadable == \A s \in acked : Readable(s)
=============================================================================
