------------------------------ MODULE Capture ------------------------------
(***************************************************************************)
(* The capture pipeline between start-up and Ctrl-C: the receive task, the *)
(* status task, buffer_task and the two bounded channels.  buffer_task     *)
(* routes packets to one window per SSRC, and seals a window when the      *)
(* one-second tick finds it expired or when a packet does not fit any more.*)
(*                                                                         *)
(* The code reads SystemTime::now() anew in each step of a packet, so the  *)
(* clock may move between the steps: a packet is dequeued, then routed     *)
(* (looked up in the channel map, its window opened), then ingested.  The  *)
(* await points are the select! (pc = "select"), the channel map's lock    *)
(* ("routing") and win_tx.send ("sealing").                                *)
(***************************************************************************)
EXTENDS AudioWindow, FiniteSets

CONSTANTS Ssrcs,           \* the streams in the multicast group
          Filter,          \* config: the only SSRC to capture, or None
          CaptureSeconds,  \* config: seconds of audio in a window
          MaxLateness,     \* how long a due tick may wait for a packet's handler
          PacketChanCap,   \* PACKET_CHAN_CAP
          WindowChanCap,   \* WINDOW_CHAN_CAP
          SourceRate,      \* sample rate of the streams on the wire
          PacketSamples,   \* samples in a packet
          MaxLatency,      \* bound on a packet's transit time, in clock units
          MaxLate,         \* bound on a stream's arrivals again or out of order
          Malformed,       \* a datagram that is too short or of another RTP version
          StatusUpdates,   \* what a status packet may report
          MaxNow           \* bound on the clock

\* A field that a status packet does not carry is None.
StatusUpdate == [center_freq_hz: Nat \cup {None}, sample_rate_hz: Nat \cup {None},
                 channels: Nat \cup {None}, encoding: Nat \cup {None}]

ASSUME CaptureAssumption == /\ CaptureSeconds \in Nat \ {0}
                            /\ MaxLateness \in Nat
                            /\ PacketChanCap \in Nat \ {0}
                            /\ WindowChanCap \in Nat \ {0}
                            /\ MaxNow \in Nat
                            /\ StatusUpdates \subseteq StatusUpdate

ASSUME SourceAssumption == /\ SourceRate \in Nat \ {0}
                           /\ PacketSamples \in Nat \ {0}
                           /\ MaxLatency \in Nat
                           /\ MaxLate \in Nat

VARIABLES now,          \* the clock behind SystemTime::now() and the interval
          nextTick,     \* deadline of the next interval tick
          source,       \* per stream: the first packet that none has overtaken
          late,         \* per stream: the packets that came again or overtaken
          pkt_chan,     \* the packet channel: receive task to buffer task
          channel_map,  \* per SSRC: its ChannelInfo, or None
          windows,      \* per SSRC: its open AudioWindow, or None
          win_chan,     \* the window channel: buffer task to decode task
          pc,           \* where buffer_task is
          pkt,          \* the packet in hand, while pc is "routing" or "ingest"
          info,         \* the ChannelInfo copied for it, while pc is "ingest"
          expired       \* the SSRCs whose windows are still to be sealed

vars == <<now, nextTick, source, late, pkt_chan, channel_map, windows, win_chan,
          pc, pkt, info, expired>>

TickPeriod == Second
CaptureUnits == CaptureSeconds * Second

-----------------------------------------------------------------------------
ChannelInfo == [center_freq_hz: Nat, sample_rate_hz: Nat, channels: Nat,
                encoding: Nat]

\* ChannelInfo::default()
DefaultInfo == [center_freq_hz |-> 0, sample_rate_hz |-> 0, channels |-> 0,
                encoding |-> ENC_UNKNOWN]

\* A parsed packet, or an unreadable datagram.
Datagrams == RtpPacket(Ssrcs) \cup {Malformed}

\* What win_tx sends; the code's tuple also carries the configuration.
SealedWindow == [ssrc: Ssrcs, window: Window]

\* Packet k of a stream, complete at SentAt(k): samples k * PacketSamples
\* up to (k + 1) * PacketSamples - 1 of the source.
SentAt(k) == ((k + 1) * PacketSamples * Second) \div SourceRate

Packet(s, k) ==
  [ssrc      |-> s,
   sequence  |-> k % SeqWrap,
   timestamp |-> (k * PacketSamples) % RtpWrap,
   payload   |-> [i \in 1 .. PacketSamples |-> k * PacketSamples + i - 1]]

-----------------------------------------------------------------------------
\* The program may start anywhere in a cycle; the interval's first tick is
\* due at once.
Init == /\ now \in 0 .. Cycle - 1
        /\ nextTick = now
        /\ source = [s \in Ssrcs |-> 0]
        /\ late = [s \in Ssrcs |-> <<>>]
        /\ pkt_chan = <<>>
        /\ channel_map = [s \in Ssrcs |-> None]
        /\ windows = [s \in Ssrcs |-> None]
        /\ win_chan = <<>>
        /\ pc = "select"
        /\ pkt = None
        /\ info = None
        /\ expired = {}

\* Time passes: freely while buffer_task waits, and while it handles a packet
\* for as long as that keeps a due tick waiting less than MaxLateness.
Advance ==
  /\ now < MaxNow
  /\ pc \in {"routing", "ingest"} => now + 1 < nextTick + MaxLateness
  /\ now' = now + 1
  /\ UNCHANGED <<nextTick, source, late, pkt_chan, channel_map, windows, win_chan,
                 pc, pkt, info, expired>>

\* multicast.rs, receive_loop: try_send, which drops the datagram when the
\* channel is full.
TrySend(d) == pkt_chan' = IF Len(pkt_chan) < PacketChanCap
                          THEN Append(pkt_chan, d) ELSE pkt_chan

\* The network loses packets and delays each of them by its own time.
InTransit(k) == SentAt(k) <= now /\ now <= SentAt(k) + MaxLatency

\* A packet comes that is newer than all before it; those it overtakes are
\* lost, or late.
Receive(s) ==
  /\ \E k \in source[s] .. (now * SourceRate) \div (PacketSamples * Second) :
       /\ InTransit(k)
       /\ source' = [source EXCEPT ![s] = k + 1]
       /\ TrySend(Packet(s, k))
  /\ UNCHANGED <<now, nextTick, late, channel_map, windows, win_chan, pc, pkt,
                 info, expired>>

\* A packet comes again, or after a newer one.
ReceiveLate(s) ==
  /\ Len(late[s]) < MaxLate
  /\ \E k \in 0 .. source[s] - 1 :
       /\ InTransit(k)
       /\ late' = [late EXCEPT ![s] = Append(@, k)]
       /\ TrySend(Packet(s, k))
  /\ UNCHANGED <<now, nextTick, source, channel_map, windows, win_chan, pc, pkt,
                 info, expired>>

\* A datagram comes that buffer_task will not be able to parse.
ReceiveMalformed ==
  /\ TrySend(Malformed)
  /\ UNCHANGED <<now, nextTick, source, late, channel_map, windows, win_chan, pc,
                 pkt, info, expired>>

Reported(field, old) == IF field = None THEN old ELSE field

\* status.rs, process_status_packet: the reported fields replace the known
\* ones, in an entry that starts as the default.
Update(known, u) ==
  LET i == IF known = None THEN DefaultInfo ELSE known
  IN  [center_freq_hz |-> Reported(u.center_freq_hz, i.center_freq_hz),
       sample_rate_hz |-> Reported(u.sample_rate_hz, i.sample_rate_hz),
       channels       |-> Reported(u.channels, i.channels),
       encoding       |-> Reported(u.encoding, i.encoding)]

\* status.rs, receive_loop: one status packet, applied under the write lock.
StatusPacket(s) ==
  /\ \E u \in StatusUpdates :
       channel_map' = [channel_map EXCEPT ![s] = Update(@, u)]
  /\ UNCHANGED <<now, nextTick, source, late, pkt_chan, windows, win_chan, pc, pkt,
                 info, expired>>

-----------------------------------------------------------------------------
(* buffer_task *)

TickDue == nextTick <= now

HasExpired_NextSecond(w) ==  \* mutant: > for >= on whole seconds
  Elapsed(now, w.window_start) \div Second > CaptureSeconds

HasExpired_WhenFull(w) ==    \* mutant: a window expires when it is full
  w.samples_written >= w.capacity_samples

HasExpired(w) == Elapsed(now, w.window_start) >= CaptureUnits

\* The interval branch: collect the expired windows.  A missed tick fires at
\* once and the deadlines keep their spacing (MissedTickBehavior::Burst).
IntervalTick ==
  /\ pc = "select" /\ TickDue
  /\ nextTick' = nextTick + TickPeriod
  /\ expired' = {s \in Ssrcs : windows[s] # None /\ HasExpired(windows[s])}
  /\ pc' = IF expired' = {} THEN "select" ELSE "sealing"
  /\ UNCHANGED <<now, source, late, pkt_chan, channel_map, windows, win_chan, pkt, info>>

Seal_Keep(s) ==  \* mutant: get and clone for remove
  /\ pc = "sealing" /\ s \in expired
  /\ Len(win_chan) < WindowChanCap
  /\ win_chan' = Append(win_chan, [ssrc |-> s, window |-> windows[s]])
  /\ expired' = expired \ {s}
  /\ pc' = IF expired' = {} THEN "select" ELSE "sealing"
  /\ UNCHANGED <<now, nextTick, source, late, pkt_chan, channel_map, windows, pkt, info>>

Seal_TrySend(s) ==  \* mutant: try_send for send().await
  /\ pc = "sealing" /\ s \in expired
  /\ windows' = [windows EXCEPT ![s] = None]
  /\ win_chan' = IF Len(win_chan) < WindowChanCap
                 THEN Append(win_chan, [ssrc |-> s, window |-> windows[s]])
                 ELSE win_chan
  /\ expired' = expired \ {s}
  /\ pc' = IF expired' = {} THEN "select" ELSE "sealing"
  /\ UNCHANGED <<now, nextTick, source, late, pkt_chan, channel_map, pkt, info>>

\* Remove a window and send it to the decode task.  The send waits for room
\* in the channel, and buffer_task does nothing else meanwhile; nobody can
\* see the removed window in between, so removal and send are one step.
Seal(s) ==
  /\ pc = "sealing" /\ s \in expired
  /\ Len(win_chan) < WindowChanCap
  /\ windows' = [windows EXCEPT ![s] = None]
  /\ win_chan' = Append(win_chan, [ssrc |-> s, window |-> windows[s]])
  /\ expired' = expired \ {s}
  /\ pc' = IF expired' = {} THEN "select" ELSE "sealing"
  /\ UNCHANGED <<now, nextTick, source, late, pkt_chan, channel_map, pkt, info>>

Wanted(d) == /\ d # Malformed
             /\ Filter # None => d.ssrc = Filter

PacketTurn_Unbiased == pkt_chan # <<>>  \* mutant: select! without biased

\* The packet branch is polled last (biased): its turn comes when no tick is due.
PacketTurn == pkt_chan # <<>> /\ ~TickDue

\* Take a packet, and forget the unreadable and the filtered ones.
Dequeue ==
  /\ pc = "select" /\ PacketTurn
  /\ pkt_chan' = Tail(pkt_chan)
  /\ \/ /\ Wanted(Head(pkt_chan))
        /\ pkt' = Head(pkt_chan)
        /\ pc' = "routing"
     \/ /\ ~Wanted(Head(pkt_chan))
        /\ UNCHANGED <<pkt, pc>>
  /\ UNCHANGED <<now, nextTick, source, late, channel_map, windows, win_chan, info,
                 expired>>

\* status.rs, is_audio_ready
IsAudioReady(i) == /\ i # None
                   /\ i.channels = 1
                   /\ i.sample_rate_hz > 0
                   /\ i.center_freq_hz > 0

\* A vacant entry is filled only before the capture part of the cycle is over.
LateStart == Elapsed(now, EvenMinuteBoundary(now)) \div Second >= CaptureSeconds

\* Look the SSRC up in the channel map and get or open its window.
Route ==
  LET s == pkt.ssrc
      i == channel_map[s]
  IN  /\ pc = "routing"
      /\ IF IsAudioReady(i) /\ (windows[s] = None => ~LateStart)
         THEN /\ windows' = [windows EXCEPT ![s] =
                     IF @ # None THEN @
                     ELSE NewWindow(EvenMinuteBoundary(now), i.center_freq_hz,
                                    i.sample_rate_hz, CaptureSeconds)]
              /\ info' = i
              /\ pc' = "ingest"
              /\ UNCHANGED pkt
         ELSE /\ pc' = "select"
              /\ pkt' = None
              /\ UNCHANGED <<windows, info>>
      /\ UNCHANGED <<now, nextTick, source, late, pkt_chan, channel_map, win_chan,
                     expired>>

\* Ingest the packet; a window that overflows is sealed as by the tick.
IngestPacket ==
  LET s == pkt.ssrc
      r == Ingest(windows[s], pkt, info.sample_rate_hz, info.encoding, now)
  IN  /\ pc = "ingest"
      /\ windows' = [windows EXCEPT ![s] = r.window]
      /\ expired' = IF r.result = "BufferOverflow" THEN {s} ELSE {}
      /\ pc' = IF r.result = "BufferOverflow" THEN "sealing" ELSE "select"
      /\ pkt' = None
      /\ info' = None
      /\ UNCHANGED <<now, nextTick, source, late, pkt_chan, channel_map, win_chan>>

\* decode_task takes a window and spawns its decode.
TakeWindow ==
  /\ win_chan # <<>>
  /\ win_chan' = Tail(win_chan)
  /\ UNCHANGED <<now, nextTick, source, late, pkt_chan, channel_map, windows, pc, pkt,
                 info, expired>>

-----------------------------------------------------------------------------
Next == \/ Advance
        \/ \E s \in Ssrcs : Receive(s)
        \/ \E s \in Ssrcs : ReceiveLate(s)
        \/ ReceiveMalformed
        \/ \E s \in Ssrcs : StatusPacket(s)
        \/ IntervalTick
        \/ \E s \in Ssrcs : Seal(s)
        \/ Dequeue
        \/ Route
        \/ IngestPacket
        \/ TakeWindow

Spec == Init /\ [][Next]_vars

\* Time passes, buffer_task and decode_task are polled when they can run, and
\* tokio's timer wakes buffer_task.  Nothing is assumed of the network.
Fairness == /\ WF_vars(Advance)
            /\ WF_vars(IntervalTick)
            /\ \A s \in Ssrcs : WF_vars(Seal(s))
            /\ WF_vars(Dequeue)
            /\ WF_vars(Route)
            /\ WF_vars(IngestPacket)
            /\ WF_vars(TakeWindow)

FairSpec == Spec /\ Fairness

\* buffer_task has something to do: a send that waits for room is not.
Runnable == \/ pc = "select" /\ (TickDue \/ pkt_chan # <<>>)
            \/ pc \in {"routing", "ingest"}
            \/ pc = "sealing" /\ Len(win_chan) < WindowChanCap

\* A machine that is never slow: time passes only while buffer_task waits.
EagerSpec == Init /\ [][Next /\ (now' # now => ~Runnable)]_vars

-----------------------------------------------------------------------------
TypeOK ==
  /\ now \in Nat
  /\ nextTick \in Nat
  /\ source \in [Ssrcs -> Nat]
  /\ late \in [Ssrcs -> Seq(Nat)]
  /\ pkt_chan \in Seq(Datagrams) /\ Len(pkt_chan) <= PacketChanCap
  /\ channel_map \in [Ssrcs -> ChannelInfo \cup {None}]
  /\ windows \in [Ssrcs -> Window \cup {None}]
  /\ \A s \in Ssrcs : windows[s] # None => WellFormed(windows[s])
  /\ win_chan \in Seq(SealedWindow) /\ Len(win_chan) <= WindowChanCap
  /\ pc \in {"select", "routing", "ingest", "sealing"}
  /\ pc \in {"routing", "ingest"} => pkt \in RtpPacket(Ssrcs)
  /\ pc = "ingest" => info \in ChannelInfo /\ windows[pkt.ssrc] # None
  /\ expired \subseteq {s \in Ssrcs : windows[s] # None}
  /\ expired # {} <=> pc = "sealing"

\* A packet is only ever written into the window of the cycle in which it is
\* handled, however long buffer_task was blocked before it: a tick that is due
\* is served before any packet (biased), so the previous cycle's window is
\* gone (main.rs: the select! of buffer_task), and a window holds the samples
\* "for exactly one such window" of two minutes (buffer.rs:3-4).  It takes a
\* capture time, a tick and a packet's handling that fit in a cycle: CaptureFits.
SameCycle ==
  pc = "ingest" =>
    windows[pkt.ssrc].window_start = EvenMinuteBoundary(now)

CaptureFits == CaptureUnits + TickPeriod + MaxLateness <= Cycle

\* When buffer_task turns to the packets, no window is open more than a tick
\* period after its capture time.
PromptSeal ==
  (pc = "select" /\ ~TickDue) =>
    \A s \in Ssrcs : windows[s] # None =>
      now < windows[s].window_start + CaptureUnits + TickPeriod

\* A window leaves the table of open windows only into the window channel, as
\* it is, once; what is in the channel leaves it only at the other end
\* (main.rs:482-484: a full window is sealed, not discarded).
Handover == \E s \in Ssrcs :
  /\ windows[s] # None
  /\ windows' = [windows EXCEPT ![s] = None]
  /\ win_chan' = Append(win_chan, [ssrc |-> s, window |-> windows[s]])

NoWindowDiscarded ==
  [][\/ Handover
     \/ /\ \A s \in Ssrcs : windows[s] # None => windows'[s] # None
        /\ \/ win_chan' = win_chan
           \/ win_chan # <<>> /\ win_chan' = Tail(win_chan)
    ]_vars

\* The samples of a window that some packet wrote; whether the packet of a
\* sample came again or overtaken; the order of two windows of a stream.
Audible(w) == {w.samples[i] : i \in 1 .. Len(w.samples)} \ {Silence}
IsLate(x, s) == \E i \in 1 .. Len(late[s]) : late[s][i] = x \div PacketSamples
Precedes(v, w, s) ==
  \A x \in Audible(v), y \in Audible(w) : x < y \/ IsLate(y, s)

\* A later window holds later audio, and no sample of an earlier one, but for
\* packets that came again or after a newer one: also when a window overflowed,
\* was sealed, and a packet of the same cycle opened another one
\* (main.rs:481-496 and 413-465).
AudioOnce ==
  \A i \in 1 .. Len(win_chan) : LET s == win_chan[i].ssrc IN
    /\ \A j \in i + 1 .. Len(win_chan) :
         win_chan[j].ssrc = s => Precedes(win_chan[i].window, win_chan[j].window, s)
    /\ windows[s] # None => Precedes(win_chan[i].window, windows[s], s)

\* The value of a sample tells its place in the stream only if it is read in
\* the byte order it was sent in.
EncodingReported == \A u \in StatusUpdates : u.encoding = ENC_S16BE

-----------------------------------------------------------------------------
(* Capture implements Delivery. *)

Audio(w) == [start |-> w.window_start, audio |-> w.samples]

ASSUME AudioAssumption == None \notin [start: Nat, audio: Seq(Int \cup {Silence})]

D == INSTANCE Delivery WITH
       CycleLen <- Cycle, Capacity <- WindowChanCap, NoWindow <- None,
       cycle <- EvenMinuteBoundary(now),
       open  <- [s \in Ssrcs |-> IF windows[s] = None THEN None
                                 ELSE Audio(windows[s])],
       queue <- [i \in 1 .. Len(win_chan) |->
                   [ssrc |-> win_chan[i].ssrc, window |-> Audio(win_chan[i].window)]]

\* Audio is collected only in its own cycle's window, and every window reaches
\* decode_task as it was collected, in the order of the cycles (main.rs:304-506).
ImplementsDelivery == D!Spec

\* And it reaches decode_task in the end.
DeliversAll == D!FairSpec

-----------------------------------------------------------------------------
(* What a comment of the code says, and the code does not do. *)

\* buffer.rs:55-57: the first packet's position is "derived from wall-clock
\* elapsed time within the window at the moment the first packet arrived".
\* The packet at start_offset had arrived by the time that start_offset says.
AnchorAtArrival ==
  \A s \in Ssrcs : LET w == windows[s] IN
    (w # None /\ w.samples_written > 0) =>
      w.window_start + (w.start_offset * Second) \div w.sample_rate_hz
        <= SentAt(w.samples[w.start_offset + 1] \div PacketSamples) + MaxLatency
=============================================================================
