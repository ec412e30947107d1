----------------------------- MODULE Shutdown ------------------------------
(***************************************************************************)
(* Start-up, Ctrl-C and the end of the program: main, its four tasks, the  *)
(* Notify they share and the two channels between them.                    *)
(*                                                                         *)
(* notify_waiters() wakes the tasks that are waiting in notified() at that *)
(* moment and stores nothing for the others.  A task waits in it only      *)
(* while it is parked in its select!: the select! drops the future before  *)
(* it runs a branch's handler and makes a new one on the next iteration.   *)
(* One poll of a select!, which looks at its branches in order, is one     *)
(* step.  What the handlers do with audio is left to Capture; here a       *)
(* window is only counted.                                                 *)
(***************************************************************************)
EXTENDS Integers, FiniteSets

CONSTANTS PacketChanCap,  \* PACKET_CHAN_CAP
          WindowChanCap,  \* WINDOW_CHAN_CAP
          MaxWindows,     \* bound on the windows opened in a run
          MaxSignals      \* bound on the times Ctrl-C is pressed

ASSUME ShutdownAssumption == /\ PacketChanCap \in Nat \ {0}
                             /\ WindowChanCap \in Nat \ {0}
                             /\ MaxWindows \in Nat /\ MaxSignals \in Nat

Tasks == {"recv", "status", "buffer", "decode"}

VARIABLES main,      \* where main is
          pc,        \* where each task is
          notified,  \* the tasks whose pending notified() has been triggered
          heard,     \* the tasks that any Ctrl-C has reached (auxiliary)
          signals,   \* how often Ctrl-C was pressed
          packets,   \* packets in the packet channel
          open,      \* open windows in buffer_task
          to_seal,   \* of these, the ones its handler still has to send
          opened,    \* windows opened so far (bounded by MaxWindows)
          sealed,    \* windows in the window channel
          decodes    \* windows being decoded, or decoded and not yet reported

vars == <<main, pc, notified, heard, signals, packets, open, to_seal, opened,
          sealed, decodes>>
signal_vars == <<main, notified, heard, signals>>
buffer_vars == <<open, to_seal, opened>>

-----------------------------------------------------------------------------
Init == /\ main = "spawning"
        /\ pc = [t \in Tasks |-> "unborn"]
        /\ notified = {} /\ heard = {} /\ signals = 0
        /\ packets = 0 /\ sealed = 0
        /\ open = 0 /\ to_seal = 0 /\ opened = 0 /\ decodes = 0

Waiting(t) == pc[t] = "select" /\ t \notin notified

\* The Ctrl-C handler, installed before any task exists: notify_waiters().
CtrlC ==
  /\ signals < MaxSignals /\ main # "exited"
  /\ signals' = signals + 1
  /\ notified' = notified \cup {t \in Tasks : pc[t] = "select"}
  /\ heard' = heard \cup {t \in Tasks : pc[t] = "select"}
  /\ UNCHANGED <<main, pc, packets, sealed, decodes, buffer_vars>>

\* main spawns three tasks, then awaits ensure_ch_table.
SpawnCapture ==
  /\ main = "spawning"
  /\ main' = "ensure_ch_table"
  /\ pc' = [t \in Tasks |-> IF t = "decode" THEN "unborn" ELSE "starting"]
  /\ UNCHANGED <<notified, heard, signals, packets, sealed, decodes, buffer_vars>>

\* The table is there, or could not be created: main spawns decode_task.
SpawnDecode ==
  /\ main = "ensure_ch_table"
  /\ main' = "join"
  /\ pc' = [pc EXCEPT !["decode"] = "starting"]
  /\ UNCHANGED <<notified, heard, signals, packets, sealed, decodes, buffer_vars>>

\* tokio::join! of the four handles.
Join ==
  /\ main = "join"
  /\ \A t \in Tasks : pc[t] = "done"
  /\ main' = "exited"
  /\ UNCHANGED <<pc, notified, heard, signals, packets, sealed, decodes,
                 buffer_vars>>

\* A task reaches its select! for the first time; decode_task has opened its
\* output file before.
Enter(t) ==
  /\ pc[t] = "starting"
  /\ pc' = [pc EXCEPT ![t] = "select"]
  /\ UNCHANGED <<signal_vars, packets, sealed, decodes, buffer_vars>>

\* The shutdown branch, the first that every select! polls (biased): break, and
\* drop the task's channel ends.
Stop(t) ==
  /\ pc[t] = "select" /\ t \in notified
  /\ pc' = [pc EXCEPT ![t] = "done"]
  /\ UNCHANGED <<signal_vars, packets, sealed, decodes, buffer_vars>>

-----------------------------------------------------------------------------
(* multicast::receive_loop and status::receive_loop *)

\* A datagram arrives and the task leaves its select!.
Arrive(t) ==
  /\ t \in {"recv", "status"} /\ Waiting(t)
  /\ pc' = [pc EXCEPT ![t] = "handling"]
  /\ UNCHANGED <<signal_vars, packets, sealed, decodes, buffer_vars>>

Forward_NoCap ==  \* mutant: an unbounded channel
  /\ pc["recv"] = "handling"
  /\ pc' = [pc EXCEPT !["recv"] = "select"]
  /\ packets' = IF pc["buffer"] # "done" THEN packets + 1 ELSE packets
  /\ UNCHANGED <<signal_vars, sealed, decodes, buffer_vars>>

\* try_send never waits: a full channel and a closed one both drop the packet.
Forward ==
  /\ pc["recv"] = "handling"
  /\ pc' = [pc EXCEPT !["recv"] = "select"]
  /\ packets' = IF pc["buffer"] # "done" /\ packets < PacketChanCap
                THEN packets + 1 ELSE packets
  /\ UNCHANGED <<signal_vars, sealed, decodes, buffer_vars>>

\* The status packet is applied once the write lock is there.
ApplyStatus ==
  /\ pc["status"] = "handling"
  /\ pc' = [pc EXCEPT !["status"] = "select"]
  /\ UNCHANGED <<signal_vars, packets, sealed, decodes, buffer_vars>>

-----------------------------------------------------------------------------
(* buffer_task *)

\* The interval branch finds any number of windows expired.
BufferTick ==
  /\ Waiting("buffer")
  /\ \E n \in 0 .. open :
       /\ to_seal' = n
       /\ pc' = [pc EXCEPT !["buffer"] = IF n = 0 THEN "handling" ELSE "sending"]
  /\ UNCHANGED <<signal_vars, packets, sealed, decodes, open, opened>>

\* The packet branch: a packet that opens a window, fills one (be it the one it
\* has just opened), or neither.
BufferPacket ==
  /\ Waiting("buffer") /\ packets > 0
  /\ packets' = packets - 1
  /\ \/ /\ opened < MaxWindows
        /\ open' = open + 1 /\ opened' = opened + 1 /\ to_seal' \in {0, 1}
     \/ /\ open > 0
        /\ to_seal' = 1 /\ UNCHANGED <<open, opened>>
     \/ to_seal' = 0 /\ UNCHANGED <<open, opened>>
  /\ pc' = [pc EXCEPT !["buffer"] = IF to_seal' = 0 THEN "handling" ELSE "sending"]
  /\ UNCHANGED <<signal_vars, sealed, decodes>>

\* The handler is over and the loop makes a new select!.
BufferHandled ==
  /\ pc["buffer"] = "handling"
  /\ pc' = [pc EXCEPT !["buffer"] = "select"]
  /\ UNCHANGED <<signal_vars, packets, sealed, decodes, buffer_vars>>

BufferSend_NoError ==  \* mutant: a send to a stopped decode_task never returns
  /\ pc["buffer"] = "sending"
  /\ pc["decode"] # "done" /\ sealed < WindowChanCap /\ sealed' = sealed + 1
  /\ open' = open - 1 /\ to_seal' = to_seal - 1
  /\ pc' = [pc EXCEPT !["buffer"] = IF to_seal' = 0 THEN "select" ELSE "sending"]
  /\ UNCHANGED <<signal_vars, packets, decodes, opened>>

\* win_tx.send(..).await: it waits while the channel is full, and fails when
\* decode_task has dropped its end; the error is logged and the window lost.
BufferSend ==
  /\ pc["buffer"] = "sending"
  /\ \/ pc["decode"] # "done" /\ sealed < WindowChanCap /\ sealed' = sealed + 1
     \/ pc["decode"] = "done" /\ UNCHANGED sealed
  /\ open' = open - 1 /\ to_seal' = to_seal - 1
  /\ pc' = [pc EXCEPT !["buffer"] = IF to_seal' = 0 THEN "select" ELSE "sending"]
  /\ UNCHANGED <<signal_vars, packets, decodes, opened>>

BufferEof_Empty ==  \* mutant: an empty channel is taken for a closed one
  /\ Waiting("buffer")
  /\ packets = 0
  /\ pc' = [pc EXCEPT !["buffer"] = "done"]
  /\ UNCHANGED <<signal_vars, packets, sealed, decodes, buffer_vars>>

BufferEof_Continue ==  \* mutant: continue for break when the channel is closed
  /\ Waiting("buffer")
  /\ packets = 0 /\ pc["recv"] = "done"
  /\ pc' = [pc EXCEPT !["buffer"] = "handling"]
  /\ UNCHANGED <<signal_vars, packets, sealed, decodes, buffer_vars>>

\* The packet channel is closed and empty: break.
BufferEof ==
  /\ Waiting("buffer")
  /\ packets = 0 /\ pc["recv"] = "done"
  /\ pc' = [pc EXCEPT !["buffer"] = "done"]
  /\ UNCHANGED <<signal_vars, packets, sealed, decodes, buffer_vars>>

-----------------------------------------------------------------------------
(* decode_task *)

\* The window branch: spawn a decode of its own.
DecodeTake ==
  /\ Waiting("decode") /\ sealed > 0
  /\ sealed' = sealed - 1 /\ decodes' = decodes + 1
  /\ pc' = [pc EXCEPT !["decode"] = "handling"]
  /\ UNCHANGED <<signal_vars, packets, buffer_vars>>

\* The window channel is closed and empty: break.
DecodeEof ==
  /\ Waiting("decode")
  /\ sealed = 0 /\ pc["buffer"] = "done"
  /\ pc' = [pc EXCEPT !["decode"] = "done"]
  /\ UNCHANGED <<signal_vars, packets, sealed, decodes, buffer_vars>>

\* The spot branch, polled last: some decode has finished, and its spots are
\* written to the file and to ClickHouse before the loop goes on.
DecodeReport ==
  /\ Waiting("decode")
  /\ sealed = 0 /\ pc["buffer"] # "done" /\ decodes > 0
  /\ decodes' = decodes - 1
  /\ pc' = [pc EXCEPT !["decode"] = "handling"]
  /\ UNCHANGED <<signal_vars, packets, sealed, buffer_vars>>

DecodeHandled ==
  /\ pc["decode"] = "handling"
  /\ pc' = [pc EXCEPT !["decode"] = "select"]
  /\ UNCHANGED <<signal_vars, packets, sealed, decodes, buffer_vars>>

-----------------------------------------------------------------------------
Next == \/ CtrlC \/ SpawnCapture \/ SpawnDecode \/ Join
        \/ \E t \in Tasks : Enter(t) \/ Stop(t) \/ Arrive(t)
        \/ Forward \/ ApplyStatus
        \/ BufferTick \/ BufferPacket \/ BufferHandled \/ BufferSend \/ BufferEof
        \/ DecodeTake \/ DecodeEof \/ DecodeReport \/ DecodeHandled

Spec == Init /\ [][Next]_vars

\* The runtime polls every task that can run, and the awaits of handlers end:
\* locks are held briefly, and ClickHouse is assumed to answer or fail.  Ticks
\* come a second apart, so they do not keep buffer_task from its packets for
\* ever.  Nobody promises datagrams, finished decodes, or a second Ctrl-C.
Fairness == /\ WF_vars(SpawnCapture) /\ WF_vars(SpawnDecode) /\ WF_vars(Join)
            /\ \A t \in Tasks : WF_vars(Enter(t)) /\ WF_vars(Stop(t))
            /\ WF_vars(Forward) /\ WF_vars(ApplyStatus)
            /\ WF_vars(BufferHandled) /\ WF_vars(BufferSend)
            /\ SF_vars(BufferPacket) /\ SF_vars(BufferEof)
            /\ WF_vars(DecodeTake) /\ WF_vars(DecodeEof) /\ WF_vars(DecodeHandled)

FairSpec == Spec /\ Fairness

-----------------------------------------------------------------------------
TypeOK ==
  /\ main \in {"spawning", "ensure_ch_table", "join", "exited"}
  /\ pc \in [Tasks -> {"unborn", "starting", "select", "handling", "sending",
                       "done"}]
  /\ notified \subseteq Tasks /\ heard \subseteq Tasks
  /\ signals \in 0 .. MaxSignals
  /\ packets \in 0 .. PacketChanCap /\ sealed \in 0 .. WindowChanCap
  /\ opened \in 0 .. MaxWindows /\ open \in Nat /\ decodes \in Nat
  /\ to_seal \in 0 .. open /\ open + sealed + decodes <= opened

\* No task stops before Ctrl-C: the closing of a channel spreads only from a
\* task that was told to stop (main.rs: the None arms of the two recv()s).
NoTaskStopsUnasked == \A t \in Tasks : pc[t] = "done" => heard # {}

\* When the receive task stops, buffer_task and decode_task stop too, even if
\* they were busy when Ctrl-C was pressed: each one drains its channel and then
\* finds it closed (main.rs:366-369 and 628-632).
CascadeExit ==
  pc["recv"] = "done" ~> pc["buffer"] = "done" /\ pc["decode"] = "done"

\* A Ctrl-C that finds the receive task and the status task in their select!
\* ends the program, wherever buffer_task and decode_task are.
HeardBySocketsStops == {"recv", "status"} \subseteq heard ~> main = "exited"

\* main.rs:26: "All tasks share a Notify for cooperative shutdown on Ctrl-C",
\* and main.rs:276: "Wait for all four tasks to complete (they each exit on
\* shutdown)".  Ctrl-C ends the program.
CtrlCStops == signals > 0 ~> main = "exited"
=============================================================================
