-------------------------- MODULE Shutdown_proofs --------------------------
(***************************************************************************)
(* Proofs about Shutdown for any channel capacities, any number of windows *)
(* and any number of Ctrl-Cs.                                              *)
(***************************************************************************)
EXTENDS Shutdown, TLAPS

-----------------------------------------------------------------------------
(* Type correctness. *)

\* What the types rest on: buffer_task waits in a send exactly when it still has
\* a window to send, and no task runs before main has spawned it.
Busy == pc["buffer"] = "sending" <=> to_seal > 0
Unborn == /\ main = "spawning" => pc = [t \in Tasks |-> "unborn"]
          /\ main \in {"spawning", "ensure_ch_table"} => pc["decode"] = "unborn"

IInv == TypeOK /\ Busy /\ Unborn

LEMMA InvInit == Init => IInv
BY ShutdownAssumption DEF Init, IInv, TypeOK, Busy, Unborn, Tasks

LEMMA InvNext == IInv /\ [Next]_vars => IInv'
<1> SUFFICES ASSUME IInv, [Next]_vars PROVE IInv'
  OBVIOUS
<1>0. /\ "recv" \in Tasks /\ "status" \in Tasks /\ "buffer" \in Tasks
      /\ "decode" \in Tasks
  BY DEF Tasks
<1> USE <1>0, ShutdownAssumption DEF IInv, TypeOK, Busy, Unborn, Waiting,
      signal_vars, buffer_vars
<1>1. CASE CtrlC
  BY <1>1 DEF CtrlC
<1>2. CASE SpawnCapture
  BY <1>2 DEF SpawnCapture
<1>3. CASE SpawnDecode
  BY <1>3 DEF SpawnDecode
<1>4. CASE Join
  BY <1>4 DEF Join
<1>5. ASSUME NEW t \in Tasks, Enter(t) PROVE IInv'
  BY <1>5 DEF Enter
<1>6. ASSUME NEW t \in Tasks, Stop(t) PROVE IInv'
  BY <1>6 DEF Stop
<1>7. ASSUME NEW t \in Tasks, Arrive(t) PROVE IInv'
  BY <1>7 DEF Arrive
<1>8. CASE Forward \/ ApplyStatus
  BY <1>8 DEF Forward, ApplyStatus
<1>9. CASE BufferTick
  BY <1>9 DEF BufferTick
<1>10. CASE BufferPacket
  BY <1>10 DEF BufferPacket
<1>11. CASE BufferHandled \/ BufferEof
  BY <1>11 DEF BufferHandled, BufferEof
<1>12. CASE BufferSend
  BY <1>12 DEF BufferSend
<1>13. CASE DecodeTake
  BY <1>13 DEF DecodeTake
<1>14. CASE DecodeReport
  BY <1>14 DEF DecodeReport
<1>15. CASE DecodeEof \/ DecodeHandled
  BY <1>15 DEF DecodeEof, DecodeHandled
<1>16. CASE UNCHANGED vars
  BY <1>16 DEF vars
<1> QED
  BY <1>1, <1>2, <1>3, <1>4, <1>5, <1>6, <1>7, <1>8, <1>9, <1>10, <1>11, <1>12,
     <1>13, <1>14, <1>15, <1>16 DEF Next

\* Every reachable state is type correct; in particular the channels keep their
\* capacities, and no window is counted twice on its way from buffer_task to the
\* report of its decode.
THEOREM TypeCorrect == Spec => []TypeOK
<1>1. Spec => []IInv
  BY InvInit, InvNext, PTL DEF Spec
<1>2. IInv => TypeOK
  BY DEF IInv
<1> QED
  BY <1>1, <1>2, PTL

-----------------------------------------------------------------------------
(* Why a task stops.  That some Ctrl-C was heard is not inductive: it has to be *)
(* known of every task that has stopped which Ctrl-C it was, its own or that of *)
(* the task at the other end of its channel.                                    *)

\* The sockets' tasks stop for a Ctrl-C of their own; buffer_task and
\* decode_task for their own, or because the task before them has stopped.
Cause == /\ notified \subseteq heard
         /\ \A t \in {"recv", "status"} : pc[t] = "done" => t \in heard
         /\ pc["buffer"] = "done" => "buffer" \in heard \/ pc["recv"] = "done"
         /\ pc["decode"] = "done" => "decode" \in heard \/ pc["buffer"] = "done"

LEMMA CauseInit == Init => Cause
BY DEF Init, Cause, Tasks

LEMMA CauseNext == IInv /\ Cause /\ [Next]_vars => Cause'
<1> SUFFICES ASSUME IInv, Cause, [Next]_vars PROVE Cause'
  OBVIOUS
<1>0. /\ "recv" \in Tasks /\ "status" \in Tasks /\ "buffer" \in Tasks
      /\ "decode" \in Tasks /\ pc \in [Tasks -> {"unborn", "starting", "select",
                                                "handling", "sending", "done"}]
  BY DEF Tasks, IInv, TypeOK
<1> USE <1>0 DEF Cause, Waiting, signal_vars, buffer_vars
<1>1. CASE CtrlC
  BY <1>1 DEF CtrlC
<1>2. CASE SpawnCapture
  BY <1>2 DEF SpawnCapture
<1>3. CASE SpawnDecode \/ Join
  BY <1>3 DEF SpawnDecode, Join, IInv, Unborn
<1>4. ASSUME NEW t \in Tasks, Enter(t) PROVE Cause'
  BY <1>4 DEF Enter
<1>5. ASSUME NEW t \in Tasks, Stop(t) PROVE Cause'
  BY <1>5 DEF Stop
<1>6. ASSUME NEW t \in Tasks, Arrive(t) PROVE Cause'
  BY <1>6 DEF Arrive
<1>7. CASE Forward \/ ApplyStatus
  BY <1>7 DEF Forward, ApplyStatus
<1>8. CASE BufferTick \/ BufferPacket
  BY <1>8 DEF BufferTick, BufferPacket
<1>9. CASE BufferHandled \/ BufferSend
  BY <1>9 DEF BufferHandled, BufferSend
<1>10. CASE BufferEof
  BY <1>10 DEF BufferEof
<1>11. CASE DecodeTake \/ DecodeReport \/ DecodeHandled
  BY <1>11 DEF DecodeTake, DecodeReport, DecodeHandled
<1>12. CASE DecodeEof
  BY <1>12 DEF DecodeEof
<1>13. CASE UNCHANGED vars
  BY <1>13 DEF vars
<1> QED
  BY <1>1, <1>2, <1>3, <1>4, <1>5, <1>6, <1>7, <1>8, <1>9, <1>10, <1>11, <1>12,
     <1>13 DEF Next

\* Following the causes back, every task that has stopped goes back to a Ctrl-C
\* that some task heard: no task stops because of a channel alone.
THEOREM NoTaskStopsUnaskedCorrect == Spec => []NoTaskStopsUnasked
<1>1. Spec => [](IInv /\ Cause)
  BY InvInit, InvNext, CauseInit, CauseNext, PTL DEF Spec
<1>2. Cause => NoTaskStopsUnasked
  BY DEF Cause, NoTaskStopsUnasked, Tasks
<1> QED
  BY <1>1, <1>2, PTL
=============================================================================
