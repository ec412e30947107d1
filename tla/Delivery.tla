------------------------------ MODULE Delivery ------------------------------
(***************************************************************************)
(* What the capture pipeline promises to the decode task, without saying   *)
(* how: the audio of a stream is collected during a cycle, in a window of  *)
(* that cycle, and every window is handed over, as it was collected and in *)
(* the order of the cycles.  Capture implements it.                        *)
(***************************************************************************)
EXTENDS Naturals, Sequences

CONSTANTS Ssrcs,     \* the streams
          CycleLen,  \* the length of a cycle, a positive number
          Capacity,  \* windows that may wait for the decode task
          NoWindow   \* no window is open

VARIABLES cycle,  \* when the present cycle began
          open,   \* per stream: its open window, or NoWindow
          queue   \* the windows that were handed over and not taken yet

vars == <<cycle, open, queue>>

\* A window is the start of its cycle and its audio, of which nothing is said.
Init == /\ cycle = 0
        /\ open = [s \in Ssrcs |-> NoWindow]
        /\ queue = <<>>

\* Time goes on; windows may stay open beyond their cycle.
NextCycle == /\ cycle' = cycle + CycleLen
             /\ UNCHANGED <<open, queue>>

\* A window is opened for the present cycle.
Open(s) == /\ open[s] = NoWindow /\ open'[s] # NoWindow
           /\ open' = [open EXCEPT ![s] =
                          [start |-> cycle, audio |-> open'[s].audio]]
           /\ UNCHANGED <<cycle, queue>>

\* Audio is collected only in the present cycle's window.
Collect(s) == /\ open[s] # NoWindow /\ open[s].start = cycle
              /\ open'[s] # NoWindow
              /\ open' = [open EXCEPT ![s].audio = open'[s].audio]
              /\ UNCHANGED <<cycle, queue>>

\* A window is handed over: once, unchanged, behind the earlier ones.
HandOver(s) == /\ open[s] # NoWindow /\ Len(queue) < Capacity
               /\ open' = [open EXCEPT ![s] = NoWindow]
               /\ queue' = Append(queue, [ssrc |-> s, window |-> open[s]])
               /\ UNCHANGED cycle

Take == /\ queue # <<>>
        /\ queue' = Tail(queue)
        /\ UNCHANGED <<cycle, open>>

Next == NextCycle \/ Take \/ \E s \in Ssrcs : Open(s) \/ Collect(s) \/ HandOver(s)

Spec == Init /\ [][Next]_vars

\* Every window is handed over and taken.
FairSpec == /\ Spec
            /\ WF_vars(Take)
            /\ \A s \in Ssrcs : WF_vars(HandOver(s))

-----------------------------------------------------------------------------
\* The windows of a stream wait in the order of their cycles, before the open
\* one (main.rs: one buffer_task fills one first-in first-out channel).
InOrder ==
  \A s \in Ssrcs :
    /\ \A i, j \in 1 .. Len(queue) :
         (i < j /\ queue[i].ssrc = s /\ queue[j].ssrc = s) =>
            queue[i].window.start <= queue[j].window.start
    /\ open[s] # NoWindow =>
         \A i \in 1 .. Len(queue) :
           queue[i].ssrc = s => queue[i].window.start <= open[s].start
=============================================================================
