--------------------------- MODULE Capture_proofs ---------------------------
(***************************************************************************)
(* Proofs about Capture for any number of streams, any channel capacities, *)
(* any clock and any status packets, and that it implements Delivery.      *)
(***************************************************************************)
EXTENDS Capture, AudioWindow_proofs

\* What a status packet leaves in the channel map is a ChannelInfo.
LEMMA UpdateType ==
  ASSUME NEW known \in ChannelInfo \cup {None}, NEW u \in StatusUpdates
  PROVE  Update(known, u) \in ChannelInfo
<1> DEFINE i == IF known = None THEN DefaultInfo ELSE known
<1>1. i \in ChannelInfo
  BY DEF DefaultInfo, ChannelInfo, ENC_UNKNOWN
<1>2. u \in StatusUpdate
  BY CaptureAssumption
<1> HIDE DEF i
<1>3. /\ Reported(u.center_freq_hz, i.center_freq_hz) \in Nat
      /\ Reported(u.sample_rate_hz, i.sample_rate_hz) \in Nat
      /\ Reported(u.channels, i.channels) \in Nat
      /\ Reported(u.encoding, i.encoding) \in Nat
  BY <1>1, <1>2 DEF Reported, StatusUpdate, ChannelInfo
<1>4. Update(known, u) =
        [center_freq_hz |-> Reported(u.center_freq_hz, i.center_freq_hz),
         sample_rate_hz |-> Reported(u.sample_rate_hz, i.sample_rate_hz),
         channels       |-> Reported(u.channels, i.channels),
         encoding       |-> Reported(u.encoding, i.encoding)]
  BY DEF Update, i
<1> QED
  BY <1>3, <1>4 DEF ChannelInfo

\* What the network hands over is a packet.
LEMMA PacketType ==
  ASSUME NEW s \in Ssrcs, NEW k \in Nat
  PROVE  Packet(s, k) \in Datagrams
<1> DEFINE payload == [i \in 1 .. PacketSamples |-> k * PacketSamples + i - 1]
<1>1. PacketSamples \in Nat /\ k * PacketSamples \in Nat
  BY SourceAssumption
<1>2. payload \in Seq(Int)
  <2>1. payload \in [1 .. PacketSamples -> Int]
    BY <1>1
  <2> HIDE DEF payload
  <2> QED
    BY <1>1, <2>1, FunctionIsSeq
<1>3. k % SeqWrap \in SeqNumber /\ (k * PacketSamples) % RtpWrap \in RtpTimestamp
  BY <1>1, WrapAssumption DEF SeqNumber, RtpTimestamp
<1> QED
  BY <1>2, <1>3 DEF Packet, Datagrams, RtpPacket

\* try_send leaves datagrams in the packet channel, no more than fit.
LEMMA TrySendType ==
  ASSUME TypeOK, NEW d \in Datagrams, TrySend(d)
  PROVE  /\ pkt_chan' \in Seq(Datagrams) /\ Len(pkt_chan') <= PacketChanCap
         /\ pkt_chan' = pkt_chan \/ pkt_chan' = Append(pkt_chan, d)
<1>1. pkt_chan \in Seq(Datagrams) /\ Len(pkt_chan) \in Nat /\ PacketChanCap \in Nat
  BY LenProperties, CaptureAssumption DEF TypeOK
<1> QED
  BY <1>1, AppendProperties DEF TypeOK, TrySend

\* The packet in hand goes to an open window, which it leaves well formed.
LEMMA IngestInHand ==
  ASSUME TypeOK, pc = "ingest"
  PROVE  LET s == pkt.ssrc
             r == Ingest(windows[s], pkt, info.sample_rate_hz, info.encoding, now)
         IN  /\ s \in Ssrcs
             /\ windows[s] # None /\ WellFormed(windows[s])
             /\ WellFormed(r.window) /\ r.window # None
<1> DEFINE s == pkt.ssrc
           r == Ingest(windows[s], pkt, info.sample_rate_hz, info.encoding, now)
<1>1. /\ s \in Ssrcs /\ pkt \in RtpPacket(Ssrcs)
      /\ info \in ChannelInfo /\ windows[s] # None
  BY DEF TypeOK, RtpPacket
<1>2. WellFormed(windows[s]) /\ info.sample_rate_hz \in Nat /\ now \in Nat
  BY <1>1 DEF TypeOK, ChannelInfo
<1>3. WellFormed(r.window)
  BY <1>1, <1>2, IngestType
<1>4. r.window # None
  BY <1>3, NoneAssumption DEF WellFormed
<1> QED
  BY <1>1, <1>2, <1>3, <1>4

-----------------------------------------------------------------------------
(* Type correctness. *)

LEMMA TypeInit == Init => TypeOK
<1> SUFFICES ASSUME Init PROVE TypeOK
  OBVIOUS
<1>1. now \in Nat
  BY ClockAssumption DEF Init, Cycle
<1>2. /\ pkt_chan \in Seq(Datagrams) /\ Len(pkt_chan) = 0
      /\ win_chan \in Seq(SealedWindow) /\ Len(win_chan) = 0
  BY EmptySeq DEF Init
<1> QED
  BY <1>1, <1>2, CaptureAssumption DEF Init, TypeOK

LEMMA TypeNext == TypeOK /\ [Next]_vars => TypeOK'
<1> SUFFICES ASSUME TypeOK, [Next]_vars PROVE TypeOK'
  OBVIOUS
<1> USE CaptureAssumption
<1>1. CASE Advance
  BY <1>1 DEF TypeOK, Advance
<1>2. ASSUME NEW s \in Ssrcs, Receive(s) PROVE TypeOK'
  <2>1. PICK k \in source[s] .. (now * SourceRate) \div (PacketSamples * Second) :
          source' = [source EXCEPT ![s] = k + 1] /\ TrySend(Packet(s, k))
    BY <1>2 DEF Receive
  <2>2. k \in Nat
    BY <2>1 DEF TypeOK
  <2>3. source' \in [Ssrcs -> Nat]
    BY <2>1, <2>2 DEF TypeOK
  <2>4. pkt_chan' \in Seq(Datagrams) /\ Len(pkt_chan') <= PacketChanCap
    BY <2>1, <2>2, PacketType, TrySendType
  <2> QED
    BY <1>2, <2>3, <2>4 DEF TypeOK, Receive
<1>11. ASSUME NEW s \in Ssrcs, ReceiveLate(s) PROVE TypeOK'
  <2>1. PICK k \in 0 .. source[s] - 1 :
          late' = [late EXCEPT ![s] = Append(late[s], k)] /\ TrySend(Packet(s, k))
    BY <1>11 DEF ReceiveLate
  <2>2. k \in Nat
    BY <2>1 DEF TypeOK
  <2>3. late' \in [Ssrcs -> Seq(Nat)]
    BY <2>1, <2>2, AppendProperties DEF TypeOK
  <2>4. pkt_chan' \in Seq(Datagrams) /\ Len(pkt_chan') <= PacketChanCap
    BY <2>1, <2>2, PacketType, TrySendType
  <2> QED
    BY <1>11, <2>3, <2>4 DEF TypeOK, ReceiveLate
<1>12. CASE ReceiveMalformed
  <2>1. pkt_chan' \in Seq(Datagrams) /\ Len(pkt_chan') <= PacketChanCap
    BY <1>12, TrySendType DEF ReceiveMalformed, Datagrams
  <2> QED
    BY <1>12, <2>1 DEF TypeOK, ReceiveMalformed
<1>3. ASSUME NEW s \in Ssrcs, StatusPacket(s) PROVE TypeOK'
  <2>1. PICK u \in StatusUpdates :
          channel_map' = [channel_map EXCEPT ![s] = Update(channel_map[s], u)]
    BY <1>3 DEF StatusPacket
  <2>2. channel_map' \in [Ssrcs -> ChannelInfo \cup {None}]
    BY <2>1, UpdateType DEF TypeOK
  <2> QED
    BY <1>3, <2>2 DEF TypeOK, StatusPacket
<1>4. CASE IntervalTick
  <2>1. nextTick' \in Nat
    BY <1>4, ClockAssumption DEF TypeOK, IntervalTick, TickPeriod
  <2> QED
    BY <1>4, <2>1 DEF TypeOK, IntervalTick
<1>5. ASSUME NEW s \in Ssrcs, Seal(s) PROVE TypeOK'
  <2>1. windows[s] # None /\ windows[s] \in Window
    BY <1>5 DEF TypeOK, Seal, WellFormed
  <2>2. win_chan' \in Seq(SealedWindow) /\ Len(win_chan') <= WindowChanCap
    <3>1. win_chan \in Seq(SealedWindow) /\ Len(win_chan) \in Nat
      BY LenProperties DEF TypeOK
    <3>2. [ssrc |-> s, window |-> windows[s]] \in SealedWindow
      BY <2>1 DEF SealedWindow
    <3> QED
      BY <1>5, <3>1, <3>2, AppendProperties DEF Seal
  <2>3. /\ windows' = [windows EXCEPT ![s] = None]
        /\ windows' \in [Ssrcs -> Window \cup {None}]
        /\ \A t \in Ssrcs : windows'[t] # None => t # s /\ windows'[t] = windows[t]
    BY <1>5 DEF Seal, TypeOK
  <2>4. expired' \subseteq {t \in Ssrcs : windows'[t] # None}
    BY <1>5, <2>3 DEF Seal, TypeOK
  <2>5. pc' \in {"select", "sealing"} /\ (expired' # {} <=> pc' = "sealing")
    BY <1>5 DEF Seal
  <2> QED
    BY <1>5, <2>2, <2>3, <2>4, <2>5 DEF TypeOK, Seal
<1>6. CASE Dequeue
  <2>1. /\ Head(pkt_chan) \in Datagrams
        /\ pkt_chan' \in Seq(Datagrams) /\ Len(pkt_chan') <= PacketChanCap
    <3>1. pkt_chan \in Seq(Datagrams) /\ pkt_chan # <<>> /\ Len(pkt_chan) \in Nat
      BY <1>6, LenProperties DEF TypeOK, Dequeue, PacketTurn
    <3> QED
      BY <1>6, <3>1, HeadTailProperties DEF TypeOK, Dequeue
  <2>2. CASE Wanted(Head(pkt_chan))
    BY <1>6, <2>1, <2>2 DEF TypeOK, Dequeue, Wanted, Datagrams
  <2>3. CASE ~Wanted(Head(pkt_chan))
    BY <1>6, <2>1, <2>3 DEF TypeOK, Dequeue
  <2> QED
    BY <2>2, <2>3
<1>7. CASE Route
  <2> DEFINE s == pkt.ssrc
             i == channel_map[s]
  <2>1. s \in Ssrcs /\ pc = "routing" /\ expired = {} /\ pkt \in RtpPacket(Ssrcs)
    BY <1>7 DEF TypeOK, Route, RtpPacket
  <2>2. CASE IsAudioReady(i) /\ (windows[s] = None => ~LateStart)
    <3> DEFINE w == NewWindow(EvenMinuteBoundary(now), i.center_freq_hz,
                              i.sample_rate_hz, CaptureSeconds)
    <3>1. i \in ChannelInfo
      BY <2>1, <2>2 DEF IsAudioReady, TypeOK
    <3>2. WellFormed(w) /\ w # None
      <4>1. /\ i.center_freq_hz \in Nat /\ i.sample_rate_hz \in Nat
            /\ EvenMinuteBoundary(now) \in Nat
        BY <3>1, BoundaryBelow DEF ChannelInfo, TypeOK
      <4>2. WellFormed(w)
        <5> HIDE DEF i
        <5> QED
          BY <4>1, NewWindowType
      <4> HIDE DEF w
      <4> QED
        BY <4>2, NoneAssumption DEF WellFormed
    <3>3. /\ windows' = [windows EXCEPT ![s] = IF windows[s] # None
                                               THEN windows[s] ELSE w]
          /\ info' = i /\ pc' = "ingest" /\ pkt' = pkt
      BY <1>7, <2>2 DEF Route
    <3> HIDE DEF w, i
    <3>4. /\ windows' \in [Ssrcs -> Window \cup {None}]
          /\ \A t \in Ssrcs : windows'[t] # None => WellFormed(windows'[t])
          /\ windows'[s] # None
      BY <2>1, <3>2, <3>3 DEF TypeOK, WellFormed
    <3> QED
      BY <1>7, <2>1, <3>1, <3>3, <3>4 DEF TypeOK, Route
  <2>3. CASE ~(IsAudioReady(i) /\ (windows[s] = None => ~LateStart))
    <3>1. pc' = "select" /\ pkt' = None /\ UNCHANGED <<windows, info>>
      BY <1>7, <2>3 DEF Route
    <3> QED
      BY <1>7, <2>1, <3>1 DEF TypeOK, Route
  <2> QED
    BY <2>2, <2>3
<1>8. CASE IngestPacket
  <2> DEFINE s == pkt.ssrc
             r == Ingest(windows[s], pkt, info.sample_rate_hz, info.encoding, now)
  <2>1. s \in Ssrcs /\ pc = "ingest"
    BY <1>8, IngestInHand DEF IngestPacket
  <2>2. WellFormed(r.window) /\ r.window # None
    BY <2>1, IngestInHand
  <2>3. /\ windows' = [windows EXCEPT ![s] = r.window]
        /\ expired' = IF r.result = "BufferOverflow" THEN {s} ELSE {}
        /\ pc' = IF r.result = "BufferOverflow" THEN "sealing" ELSE "select"
    BY <1>8 DEF IngestPacket
  <2> HIDE DEF r
  <2>4. /\ windows' \in [Ssrcs -> Window \cup {None}]
        /\ \A t \in Ssrcs : windows'[t] # None => WellFormed(windows'[t])
        /\ windows'[s] # None
    BY <2>1, <2>2, <2>3 DEF TypeOK, WellFormed
  <2>5. /\ expired' \subseteq {t \in Ssrcs : windows'[t] # None}
        /\ expired' # {} <=> pc' = "sealing"
        /\ pc' \in {"select", "sealing"}
    BY <2>1, <2>3, <2>4
  <2> QED
    BY <1>8, <2>4, <2>5 DEF TypeOK, IngestPacket
<1>9. CASE TakeWindow
  <2>1. win_chan' \in Seq(SealedWindow) /\ Len(win_chan') <= WindowChanCap
    <3>1. win_chan \in Seq(SealedWindow) /\ win_chan # <<>> /\ Len(win_chan) \in Nat
      BY <1>9, LenProperties DEF TypeOK, TakeWindow
    <3> QED
      BY <1>9, <3>1, HeadTailProperties DEF TypeOK, TakeWindow
  <2> QED
    BY <1>9, <2>1 DEF TypeOK, TakeWindow
<1>10. CASE UNCHANGED vars
  BY <1>10 DEF TypeOK, vars
<1> QED
  BY <1>1, <1>2, <1>3, <1>4, <1>5, <1>6, <1>7, <1>8, <1>9, <1>10, <1>11, <1>12
     DEF Next

\* Every reachable state is type correct; in particular every open window keeps
\* its buffer's length and never writes past it, the channels keep their
\* capacities, and buffer_task waits in "sealing" for windows that are open.
THEOREM TypeCorrect == Spec => []TypeOK
BY TypeInit, TypeNext, PTL DEF Spec

-----------------------------------------------------------------------------
(* Promptness.  nextTick is what bounds the age of an open window: the last    *)
(* tick served found it unexpired, and the next one is due a period later.     *)

\* The inductive invariant: a tick is never scheduled further than one period
\* ahead; a packet in hand is handled within MaxLateness of the next tick; a
\* window that no tick has yet found expired is due for one before it is a
\* period older than its capture time; windows start on a boundary.
Promptness ==
  /\ nextTick <= now + TickPeriod
  /\ pc \in {"routing", "ingest"} => now < nextTick + MaxLateness
  /\ \A s \in Ssrcs : windows[s] # None =>
       /\ \E opened \in Nat : windows[s].window_start = EvenMinuteBoundary(opened)
       /\ windows[s].window_start <= now
       /\ s \notin expired =>
            nextTick < windows[s].window_start + CaptureUnits + TickPeriod

LEMMA PromptnessInit == Init => Promptness
BY ClockAssumption DEF Init, Promptness, TickPeriod, Cycle

\* A window opened now is younger than the capture time.
LEMMA NotLate ==
  ASSUME now \in Nat, ~LateStart
  PROVE  now < EvenMinuteBoundary(now) + CaptureUnits
<1> DEFINE start == EvenMinuteBoundary(now)
           age == Elapsed(now, start)
<1>1. start \in Nat /\ start <= now
  BY BoundaryBelow
<1>2. age = now - start /\ age \in Nat
  BY <1>1 DEF Elapsed, Greater
<1>3. age \div Second < CaptureSeconds
  BY <1>2, CaptureAssumption, ClockAssumption, Quotient DEF LateStart
<1> HIDE DEF age, start
<1>4. age < (age \div Second) * Second + Second /\ age \div Second \in Nat
  BY <1>2, Quotient, ClockAssumption
<1>5. (age \div Second + 1) * Second <= CaptureSeconds * Second
  BY <1>3, <1>4, TimesMonotone, CaptureAssumption, ClockAssumption
<1>6. (age \div Second + 1) * Second = (age \div Second) * Second + Second
  BY <1>4, ClockAssumption
<1>7. age < CaptureUnits
  BY <1>2, <1>4, <1>5, <1>6, CaptureAssumption, ClockAssumption DEF CaptureUnits
<1>8. CaptureUnits \in Nat
  BY CaptureAssumption, ClockAssumption DEF CaptureUnits
<1> QED
  BY <1>1, <1>2, <1>7, <1>8 DEF start

LEMMA PromptnessNext == TypeOK /\ Promptness /\ [Next]_vars => Promptness'
<1> SUFFICES ASSUME TypeOK, Promptness, [Next]_vars PROVE Promptness'
  OBVIOUS
<1>0. /\ TickPeriod \in Nat \ {0} /\ CaptureUnits \in Nat /\ MaxLateness \in Nat
      /\ now \in Nat /\ nextTick \in Nat
      /\ \A s \in Ssrcs : windows[s] # None => windows[s].window_start \in Nat
  BY ClockAssumption, CaptureAssumption
     DEF TickPeriod, CaptureUnits, TypeOK, WellFormed, Window
<1> USE DEF Promptness
<1>1. CASE Advance
  <2>1. now' = now + 1 /\ UNCHANGED <<nextTick, windows, pc, expired>>
    BY <1>1 DEF Advance
  <2> QED
    BY <1>0, <1>1, <2>1 DEF Advance
<1>2. ASSUME NEW s \in Ssrcs, Receive(s) PROVE Promptness'
  BY <1>2 DEF Receive
<1>11. CASE ReceiveMalformed \/ \E s \in Ssrcs : ReceiveLate(s)
  BY <1>11 DEF ReceiveMalformed, ReceiveLate
<1>3. ASSUME NEW s \in Ssrcs, StatusPacket(s) PROVE Promptness'
  BY <1>3 DEF StatusPacket
<1>4. CASE IntervalTick
  <2>1. /\ pc = "select" /\ nextTick <= now /\ nextTick' = nextTick + TickPeriod
        /\ expired' = {s \in Ssrcs : windows[s] # None /\ HasExpired(windows[s])}
        /\ pc' \in {"select", "sealing"}
        /\ UNCHANGED <<now, windows>>
    BY <1>4 DEF IntervalTick, TickDue
  <2>2. ASSUME NEW s \in Ssrcs, windows[s] # None, s \notin expired'
        PROVE  now < windows[s].window_start + CaptureUnits
    <3>1. ~HasExpired(windows[s])
      BY <2>1, <2>2
    <3>2. windows[s].window_start \in Nat /\ windows[s].window_start <= now
      BY <1>0, <2>2
    <3> QED
      BY <1>0, <3>1, <3>2 DEF HasExpired, Elapsed, Greater
  <2> QED
    BY <1>0, <2>1, <2>2
<1>5. ASSUME NEW s \in Ssrcs, Seal(s) PROVE Promptness'
  <2>1. /\ \A t \in Ssrcs : windows'[t] # None => t # s /\ windows'[t] = windows[t]
        /\ expired' = expired \ {s}
        /\ pc' \in {"select", "sealing"}
        /\ UNCHANGED <<now, nextTick>>
    BY <1>5 DEF Seal, TypeOK
  <2> QED
    BY <2>1
<1>6. CASE Dequeue
  <2>1. now < nextTick /\ UNCHANGED <<now, nextTick, windows, expired>>
    BY <1>0, <1>6 DEF Dequeue, PacketTurn, TickDue
  <2> QED
    BY <1>0, <2>1
<1>7. CASE Route
  <2> DEFINE s == pkt.ssrc
             w == NewWindow(EvenMinuteBoundary(now), channel_map[s].center_freq_hz,
                            channel_map[s].sample_rate_hz, CaptureSeconds)
  <2>1. /\ s \in Ssrcs /\ pc = "routing"
        /\ UNCHANGED <<now, nextTick, expired>>
    BY <1>7 DEF TypeOK, Route, RtpPacket
  <2>2. \/ windows' = windows
        \/ /\ windows[s] = None /\ ~LateStart
           /\ windows' = [windows EXCEPT ![s] = w]
    BY <1>7 DEF Route, TypeOK
  <2>3. w.window_start = EvenMinuteBoundary(now)
    BY DEF NewWindow
  <2>4. CASE windows' = windows
    BY <2>1, <2>4
  <2>5. CASE /\ windows[s] = None /\ ~LateStart
             /\ windows' = [windows EXCEPT ![s] = w]
    <3> HIDE DEF w
    <3>1. now < w.window_start + CaptureUnits /\ w.window_start <= now
          /\ w.window_start \in Nat
      BY <1>0, <2>3, <2>5, NotLate, BoundaryBelow
    <3>2. nextTick < w.window_start + CaptureUnits + TickPeriod
      BY <1>0, <3>1
    <3>3. \A t \in Ssrcs : windows'[t] = IF t = s THEN w ELSE windows[t]
      BY <2>5 DEF TypeOK
    <3> QED
      BY <1>0, <2>1, <2>3, <3>1, <3>2, <3>3
  <2> QED
    BY <2>2, <2>4, <2>5
<1>8. CASE IngestPacket
  <2> DEFINE s == pkt.ssrc
             r == Ingest(windows[s], pkt, info.sample_rate_hz, info.encoding, now)
  <2>1. /\ s \in Ssrcs /\ windows[s] # None /\ WellFormed(windows[s])
        /\ expired = {}
    BY <1>8 DEF TypeOK, IngestPacket, RtpPacket
  <2>2. r.window.window_start = windows[s].window_start
    BY <2>1, IngestKeepsStart
  <2>3. /\ windows' = [windows EXCEPT ![s] = r.window]
        /\ pc' \in {"select", "sealing"}
        /\ UNCHANGED <<now, nextTick>>
    BY <1>8 DEF IngestPacket
  <2> HIDE DEF r
  <2>4. \A t \in Ssrcs : windows'[t] # None =>
          windows[t] # None /\ windows'[t].window_start = windows[t].window_start
    BY <2>1, <2>2, <2>3 DEF TypeOK
  <2> QED
    BY <1>0, <2>1, <2>3, <2>4
<1>9. CASE TakeWindow
  BY <1>9 DEF TakeWindow
<1>10. CASE UNCHANGED vars
  BY <1>10 DEF vars
<1> QED
  BY <1>1, <1>2, <1>3, <1>4, <1>5, <1>6, <1>7, <1>8, <1>9, <1>10, <1>11 DEF Next

\* Every reachable state satisfies both invariants.
LEMMA InvariantCorrect == Spec => [](TypeOK /\ Promptness)
<1>1. Init => TypeOK /\ Promptness
  BY TypeInit, PromptnessInit
<1>2. (TypeOK /\ Promptness) /\ [Next]_vars => (TypeOK /\ Promptness)'
  BY TypeNext, PromptnessNext
<1> QED
  BY <1>1, <1>2, PTL DEF Spec

\* When buffer_task turns to the packets, every window whose capture time ended
\* a tick period ago has been sealed, however long the task was blocked before.
THEOREM PromptSealCorrect == Spec => []PromptSeal
<1>1. TypeOK /\ Promptness => PromptSeal
  <2> SUFFICES ASSUME TypeOK, Promptness, pc = "select", ~TickDue,
                      NEW s \in Ssrcs, windows[s] # None
               PROVE  now < windows[s].window_start + CaptureUnits + TickPeriod
    BY DEF PromptSeal
  <2>1. expired = {} /\ now \in Nat /\ nextTick \in Nat
        /\ windows[s].window_start \in Nat
    BY DEF TypeOK, WellFormed, Window
  <2>2. now < nextTick
    BY <2>1 DEF TickDue
  <2>3. nextTick < windows[s].window_start + CaptureUnits + TickPeriod
    BY <2>1 DEF Promptness
  <2>4. CaptureUnits \in Nat /\ TickPeriod \in Nat
    BY CaptureAssumption, ClockAssumption DEF CaptureUnits, TickPeriod
  <2> QED
    BY <2>1, <2>2, <2>3, <2>4
<1> QED
  BY <1>1, InvariantCorrect, PTL

\* If the capture time, a tick period and the handling of a packet fit in a
\* cycle, a packet is only ever written into the window of the cycle in which
\* it is handled.
THEOREM SameCycleCorrect ==
  ASSUME CaptureFits
  PROVE  Spec => []SameCycle
<1>1. TypeOK /\ Promptness => SameCycle
  <2> SUFFICES ASSUME TypeOK, Promptness, pc = "ingest"
               PROVE  windows[pkt.ssrc].window_start = EvenMinuteBoundary(now)
    BY DEF SameCycle
  <2> DEFINE start == windows[pkt.ssrc].window_start
  <2>1. /\ pkt.ssrc \in Ssrcs /\ windows[pkt.ssrc] # None /\ expired = {}
        /\ now \in Nat /\ nextTick \in Nat /\ start \in Nat
    BY DEF TypeOK, RtpPacket, WellFormed, Window
  <2>2. /\ now < nextTick + MaxLateness
        /\ nextTick < start + CaptureUnits + TickPeriod
        /\ start <= now
    BY <2>1 DEF Promptness
  <2>3. PICK opened \in Nat : start = EvenMinuteBoundary(opened)
    BY <2>1 DEF Promptness
  <2> HIDE DEF start
  <2>4. /\ CaptureUnits \in Nat /\ TickPeriod \in Nat /\ MaxLateness \in Nat
        /\ Cycle \in Nat
    BY CaptureAssumption, ClockAssumption DEF CaptureUnits, TickPeriod, Cycle
  <2>5. now < start + Cycle
    BY <2>1, <2>2, <2>4, CaptureFits DEF CaptureFits
  <2>6. EvenMinuteBoundary(now) = start
    BY <2>1, <2>2, <2>3, <2>5, BoundaryUnique
  <2> QED
    BY <2>6 DEF start
<1> QED
  BY <1>1, InvariantCorrect, PTL

-----------------------------------------------------------------------------
\* No step discards, duplicates or alters a window on its way from the table of
\* open windows to the decode task.
THEOREM NoWindowDiscardedCorrect == Spec => NoWindowDiscarded
<1> DEFINE Step == \/ Handover
                   \/ /\ \A s \in Ssrcs : windows[s] # None => windows'[s] # None
                      /\ \/ win_chan' = win_chan
                         \/ win_chan # <<>> /\ win_chan' = Tail(win_chan)
<1>1. TypeOK /\ [Next]_vars => [Step]_vars
  <2> SUFFICES ASSUME TypeOK, Next PROVE Step
    OBVIOUS
  <2>1. CASE Advance
    BY <2>1 DEF Advance
  <2>2. ASSUME NEW s \in Ssrcs, Receive(s) PROVE Step
    BY <2>2 DEF Receive
  <2>10. CASE ReceiveMalformed \/ \E s \in Ssrcs : ReceiveLate(s)
    BY <2>10 DEF ReceiveMalformed, ReceiveLate
  <2>3. ASSUME NEW s \in Ssrcs, StatusPacket(s) PROVE Step
    BY <2>3 DEF StatusPacket
  <2>4. CASE IntervalTick
    BY <2>4 DEF IntervalTick
  <2>5. ASSUME NEW s \in Ssrcs, Seal(s) PROVE Step
    BY <2>5 DEF Seal, Handover, TypeOK
  <2>6. CASE Dequeue
    BY <2>6 DEF Dequeue
  <2>7. CASE Route
    <3> DEFINE s == pkt.ssrc
               i == channel_map[s]
               w == NewWindow(EvenMinuteBoundary(now), i.center_freq_hz,
                              i.sample_rate_hz, CaptureSeconds)
    <3>1. s \in Ssrcs /\ win_chan' = win_chan
      BY <2>7 DEF TypeOK, Route, RtpPacket
    <3>2. \/ windows' = windows
          \/ windows' = [windows EXCEPT ![s] = IF windows[s] # None
                                               THEN windows[s] ELSE w]
      BY <2>7 DEF Route
    <3> HIDE DEF w
    <3> QED
      BY <3>1, <3>2 DEF TypeOK
  <2>8. CASE IngestPacket
    <3> DEFINE s == pkt.ssrc
               r == Ingest(windows[s], pkt, info.sample_rate_hz,
                           info.encoding, now)
    <3>1. s \in Ssrcs /\ r.window # None
      BY <2>8, IngestInHand DEF IngestPacket
    <3>2. windows' = [windows EXCEPT ![s] = r.window] /\ win_chan' = win_chan
      BY <2>8 DEF IngestPacket
    <3> HIDE DEF r
    <3> QED
      BY <3>1, <3>2 DEF TypeOK
  <2>9. CASE TakeWindow
    BY <2>9 DEF TakeWindow
  <2> QED
    BY <2>1, <2>2, <2>3, <2>4, <2>5, <2>6, <2>7, <2>8, <2>9, <2>10 DEF Next
<1> QED
  BY <1>1, TypeCorrect, PTL DEF Spec, NoWindowDiscarded

-----------------------------------------------------------------------------
(* Later windows, later audio.  A packet that is not late comes after every    *)
(* other one of its stream that came before it, from the network to the window *)
(* it ends up in; what such packets may still write only shrinks.              *)

\* The samples of a packet, and one set of samples before another.
Carried(d) == {d.payload[i] : i \in 1 .. Len(d.payload)}

Before(X, Y) == \A x \in X, y \in Y : x < y

\* The packets of each stream that came again or overtaken.
Lates == [s \in Ssrcs |-> {late[s][i] : i \in 1 .. Len(late[s])}]

\* The samples of stream s that come in order behind position i of a packet
\* channel, when src[s] packets are overtaken and those of lt[s] are late.
Rest(src, lt, chan, s, i) ==
  {x \in Int : /\ x \div PacketSamples \notin lt[s]
               /\ \/ x >= src[s] * PacketSamples
                  \/ \E j \in 1 .. Len(chan) :
                       /\ j > i /\ chan[j] # Malformed /\ chan[j].ssrc = s
                       /\ x \in Carried(chan[j])}

\* The packets of a channel come in order, but for the late ones.
Sorted(src, lt, chan) ==
  \A i \in 1 .. Len(chan) :
    chan[i] # Malformed =>
      Before(Carried(chan[i]), Rest(src, lt, chan, chan[i].ssrc, i))

InHand == pc \in {"routing", "ingest"}

\* The samples that may still be written in order into a window of stream s.
Future(s) == Rest(source, Lates, pkt_chan, s, 0)
               \cup {x \in Int : /\ InHand /\ pkt.ssrc = s /\ x \in Carried(pkt)
                                 /\ x \div PacketSamples \notin Lates[s]}

Flight ==
  /\ Sorted(source, Lates, pkt_chan)
  /\ InHand => Before(Carried(pkt), Rest(source, Lates, pkt_chan, pkt.ssrc, 0))

\* The windows hold earlier samples than those still to come in order.
Written == \A s \in Ssrcs :
  /\ windows[s] # None => Before(Audible(windows[s]), Future(s))
  /\ \A i \in 1 .. Len(win_chan) :
       win_chan[i].ssrc = s => Before(Audible(win_chan[i].window), Future(s))

\* The byte order is known whenever a packet is read.
Known ==
  /\ \A s \in Ssrcs : channel_map[s] # None => channel_map[s].encoding = ENC_S16BE
  /\ pc = "ingest" => info.encoding = ENC_S16BE

\* A window with earlier audio than another, but for packets L; the windows of
\* each stream in a channel and open.
Follows(v, w, L) ==
  \A x \in Audible(v), y \in Audible(w) : x < y \/ y \div PacketSamples \in L

InTurn(chan, open, lt) ==
  \A i \in 1 .. Len(chan) :
    /\ \A j \in i + 1 .. Len(chan) :
         chan[j].ssrc = chan[i].ssrc
           => Follows(chan[i].window, chan[j].window, lt[chan[i].ssrc])
    /\ open[chan[i].ssrc] # None
         => Follows(chan[i].window, open[chan[i].ssrc], lt[chan[i].ssrc])

Onward == InTurn(win_chan, windows, Lates)

Once == Flight /\ Written /\ Known /\ Onward

\* From one step to the next: what is to come in order shrinks, what is late stays.
Shrinks == \A t \in Ssrcs : Future(t)' \subseteq Future(t) /\ Lates[t] \subseteq Lates'[t]

\* Samples are integers.
LEMMA CarriedInt ==
  ASSUME NEW d \in RtpPacket(Ssrcs)
  PROVE  Carried(d) \subseteq Int /\ d.ssrc \in Ssrcs
<1>1. d.payload \in Seq(Int) /\ d.ssrc \in Ssrcs
  BY DEF RtpPacket
<1>2. \A i \in 1 .. Len(d.payload) : d.payload[i] \in Int
  BY <1>1, ElementOfSeq
<1> QED
  BY <1>1, <1>2 DEF Carried

\* Ingest adds samples of the packet only.
LEMMA IngestAudible ==
  ASSUME NEW w, WellFormed(w), NEW rtp \in RtpPacket(Ssrcs), NEW rate \in Nat,
         NEW t \in Nat
  PROVE  Audible(Ingest(w, rtp, rate, ENC_S16BE, t).window)
           \subseteq Audible(w) \cup Carried(rtp)
<1> DEFINE u == Anchor(TrackSeq(w, rtp.sequence), rtp.timestamp, rate, t)
           delta == Delta(u.rtp_base, rtp.timestamp)
           offset == u.start_offset + delta
           stays == delta < 0 \/ offset + Len(rtp.payload) > u.capacity_samples
           v == Ingest(w, rtp, rate, ENC_S16BE, t).window
           x == Write(u, offset, rtp.payload, ENC_S16BE)
<1>1. v = IF stays THEN u ELSE x
  BY DEF Ingest
<1>2. rtp.sequence \in SeqNumber /\ rtp.timestamp \in RtpTimestamp
      /\ rtp.payload \in Seq(Int)
  BY DEF RtpPacket
<1>3. WellFormed(u)
  BY <1>2, AnchorType
<1>4. u.samples = w.samples
  BY AnchorFields
<1>5. u.rtp_base \in RtpTimestamp
  BY <1>2, AnchorBase
<1> HIDE DEF u
<1>6. offset \in Int
  <2>1. delta \in Int
    BY <1>2, <1>5, DeltaType
  <2>2. u.start_offset \in Nat
    BY <1>3 DEF WellFormed, Window
  <2> QED
    BY <2>1, <2>2
<1>7. x.samples = [i \in 1 .. Len(u.samples) |->
                     IF offset < i /\ i <= offset + Len(rtp.payload)
                     THEN rtp.payload[i - offset] ELSE u.samples[i]]
  <2> HIDE DEF offset
  <2>1. x = Write(u, offset, rtp.payload, ENC_S16BE)
    OBVIOUS
  <2> HIDE DEF x
  <2> QED
    BY <1>3, <2>1, WriteFields
<1> HIDE DEF offset, stays, x, v
<1>8. CASE stays
  <2>1. v.samples = w.samples
    BY <1>1, <1>4, <1>8
  <2> QED
    BY <2>1 DEF Audible, v
<1>9. CASE ~stays
  <2> DEFINE f == [i \in 1 .. Len(w.samples) |->
                     IF offset < i /\ i <= offset + Len(rtp.payload)
                     THEN rtp.payload[i - offset] ELSE w.samples[i]]
  <2>1. v.samples = f
    BY <1>1, <1>4, <1>7, <1>9
  <2>2. Len(w.samples) \in Nat /\ Len(rtp.payload) \in Nat
    BY <1>2, LenProperties DEF WellFormed, Window
  <2>3. Len(f) = Len(w.samples)
    BY <2>2
  <2>4. ASSUME NEW i \in 1 .. Len(w.samples)
        PROVE  f[i] \in {w.samples[i]} \cup Carried(rtp)
    <3>1. CASE offset < i /\ i <= offset + Len(rtp.payload)
      <4>1. i - offset \in 1 .. Len(rtp.payload)
        BY <1>6, <2>2, <3>1
      <4>2. f[i] = rtp.payload[i - offset]
        BY <3>1
      <4> QED
        BY <4>1, <4>2 DEF Carried
    <3>2. CASE ~(offset < i /\ i <= offset + Len(rtp.payload))
      BY <3>2
    <3> QED
      BY <3>1, <3>2
  <2> HIDE DEF f
  <2>5. ASSUME NEW y \in Audible(v) PROVE y \in Audible(w) \cup Carried(rtp)
    <3>1. PICK i \in 1 .. Len(f) : y = f[i] /\ y # Silence
      BY <2>1 DEF Audible
    <3> QED
      BY <2>3, <2>4, <3>1 DEF Audible
  <2> QED
    BY <2>5 DEF v
<1> QED
  BY <1>8, <1>9

\* A packet carries the samples its number says.
LEMMA PacketCarries ==
  ASSUME NEW s \in Ssrcs, NEW k \in Nat
  PROVE  /\ Packet(s, k).ssrc = s
         /\ \A x \in Carried(Packet(s, k)) :
              x \in Int /\ k * PacketSamples <= x /\ x < (k + 1) * PacketSamples
<1> DEFINE f == [i \in 1 .. PacketSamples |-> k * PacketSamples + i - 1]
<1>1. PacketSamples \in Nat /\ k * PacketSamples \in Nat
      /\ (k + 1) * PacketSamples = k * PacketSamples + PacketSamples
  BY SourceAssumption
<1>2. Packet(s, k).payload = f /\ Packet(s, k).ssrc = s
  BY DEF Packet
<1>3. Len(f) = PacketSamples
  BY <1>1
<1>4. \A i \in 1 .. PacketSamples : f[i] = k * PacketSamples + i - 1
  OBVIOUS
<1> HIDE DEF f
<1>5. \A x \in Carried(Packet(s, k)) : \E i \in 1 .. PacketSamples : x = f[i]
  BY <1>2, <1>3 DEF Carried
<1> QED
  BY <1>1, <1>2, <1>4, <1>5

\* A datagram d that takes src and lt to src2 and lt2: the samples of a packet
\* are new, or late, and overtaken from now on.
Comes(src, lt, d, src2, lt2) ==
  /\ src2 \in [Ssrcs -> Nat]
  /\ \A t \in Ssrcs : src[t] <= src2[t] /\ lt[t] \subseteq lt2[t]
  /\ d # Malformed => \A x \in Carried(d) :
       /\ x >= src[d.ssrc] * PacketSamples \/ x \div PacketSamples \in lt2[d.ssrc]
       /\ x < src2[d.ssrc] * PacketSamples

\* Queued, it takes nothing to come in order that was not to come before.
LEMMA RestAppend ==
  ASSUME NEW src \in [Ssrcs -> Nat], NEW lt, NEW chan \in Seq(Datagrams),
         NEW d \in Datagrams, NEW src2, NEW lt2, NEW chan2,
         Comes(src, lt, d, src2, lt2), chan2 = chan \/ chan2 = Append(chan, d)
  PROVE  /\ \A t \in Ssrcs, i \in Nat :
              Rest(src2, lt2, chan2, t, i) \subseteq Rest(src, lt, chan, t, i)
         /\ Sorted(src, lt, chan) => Sorted(src2, lt2, chan2)
<1>1. Len(chan) \in Nat /\ PacketSamples \in Nat
  BY SourceAssumption, LenProperties
<1>2. /\ \A t \in Ssrcs : /\ src[t] \in Nat /\ src2[t] \in Nat /\ src[t] <= src2[t]
                          /\ lt[t] \subseteq lt2[t]
      /\ d # Malformed => \A x \in Carried(d) :
           /\ x >= src[d.ssrc] * PacketSamples \/ x \div PacketSamples \in lt2[d.ssrc]
           /\ x < src2[d.ssrc] * PacketSamples
  BY DEF Comes
<1>3. d # Malformed => Carried(d) \subseteq Int /\ d.ssrc \in Ssrcs
  BY CarriedInt DEF Datagrams
<1>5. \A j \in 1 .. Len(chan2) :
        \/ j \in 1 .. Len(chan) /\ chan2[j] = chan[j]
        \/ j = Len(chan) + 1 /\ chan2[j] = d /\ Len(chan2) = j
  BY <1>1
<1>6. ASSUME NEW t \in Ssrcs, NEW i \in Nat, NEW x \in Rest(src2, lt2, chan2, t, i)
      PROVE  x \in Rest(src, lt, chan, t, i)
  <2>1. /\ x \in Int /\ x \div PacketSamples \notin lt2[t]
        /\ \/ x >= src2[t] * PacketSamples
           \/ \E j \in 1 .. Len(chan2) :
                /\ j > i /\ chan2[j] # Malformed /\ chan2[j].ssrc = t
                /\ x \in Carried(chan2[j])
    BY <1>6 DEF Rest
  <2>2. x \div PacketSamples \notin lt[t]
    BY <1>2, <2>1
  <2>3. CASE x >= src2[t] * PacketSamples
    <3>0. src[t] \in Int /\ src2[t] \in Int /\ src[t] <= src2[t]
      BY <1>2
    <3>1. src[t] * PacketSamples <= src2[t] * PacketSamples
      BY <1>1, <3>0, TimesMonotone
    <3>2. src[t] * PacketSamples \in Int /\ src2[t] * PacketSamples \in Int
      BY <1>1, <1>2
    <3>3. x >= src[t] * PacketSamples
      BY <2>1, <2>3, <3>1, <3>2
    <3> QED
      BY <2>1, <2>2, <3>3 DEF Rest
  <2>4. ASSUME NEW j \in 1 .. Len(chan2), j > i, chan2[j] # Malformed,
               chan2[j].ssrc = t, x \in Carried(chan2[j])
        PROVE  x \in Rest(src, lt, chan, t, i)
    <3>1. CASE j \in 1 .. Len(chan) /\ chan2[j] = chan[j]
      BY <2>1, <2>2, <2>4, <3>1 DEF Rest
    <3>2. CASE chan2[j] = d
      <4>1. d # Malformed /\ d.ssrc = t /\ x \in Carried(d)
        BY <2>4, <3>2
      <4>2. x >= src[t] * PacketSamples
        BY <1>2, <2>1, <4>1
      <4> QED
        BY <2>1, <2>2, <4>2 DEF Rest
    <3> QED
      BY <1>5, <3>1, <3>2
  <2> QED
    BY <2>1, <2>3, <2>4
<1>7. ASSUME Sorted(src, lt, chan), NEW i \in 1 .. Len(chan2), chan2[i] # Malformed
      PROVE  Before(Carried(chan2[i]), Rest(src2, lt2, chan2, chan2[i].ssrc, i))
  <2>1. CASE i \in 1 .. Len(chan) /\ chan2[i] = chan[i]
    <3> DEFINE p == chan[i]
    <3>1. p \in RtpPacket(Ssrcs) /\ i \in Nat
      <4>1. chan[i] \in Datagrams
        BY <2>1, ElementOfSeq
      <4> QED
        BY <1>7, <2>1, <4>1 DEF Datagrams
    <3>2. p.ssrc \in Ssrcs
      BY <3>1, CarriedInt
    <3>3. Before(Carried(p), Rest(src, lt, chan, p.ssrc, i))
      BY <1>7, <2>1 DEF Sorted
    <3>4. chan2[i] = p
      BY <2>1
    <3> HIDE DEF p
    <3>5. Rest(src2, lt2, chan2, p.ssrc, i) \subseteq Rest(src, lt, chan, p.ssrc, i)
      BY <1>6, <3>1, <3>2
    <3> QED
      BY <3>3, <3>4, <3>5 DEF Before
  <2>2. CASE i = Len(chan) + 1 /\ chan2[i] = d /\ Len(chan2) = i
    <3>1. PICK s \in Ssrcs : s = d.ssrc /\ d # Malformed
      BY <1>3, <1>7, <2>2
    <3>2. \A x \in Carried(d) : x \in Int /\ x < src2[s] * PacketSamples
      BY <1>2, <1>3, <3>1
    <3>3. ASSUME NEW y \in Rest(src2, lt2, chan2, s, i)
          PROVE  y \in Int /\ y >= src2[s] * PacketSamples
      BY <1>1, <2>2, <3>3 DEF Rest
    <3>4. src2[s] * PacketSamples \in Int
      BY <1>1, <1>2
    <3>5. Before(Carried(d), Rest(src2, lt2, chan2, s, i))
      BY <3>2, <3>3, <3>4 DEF Before
    <3> QED
      BY <2>2, <3>1, <3>5
  <2> QED
    BY <1>5, <2>1, <2>2
<1> QED
  BY <1>6, <1>7 DEF Sorted

\* A datagram is taken from the channel.
LEMMA RestTail ==
  ASSUME NEW src, NEW lt, NEW chan \in Seq(Datagrams), chan # <<>>
  PROVE  /\ \A t \in Ssrcs, i \in Nat :
              Rest(src, lt, Tail(chan), t, i) = Rest(src, lt, chan, t, i + 1)
         /\ Sorted(src, lt, chan) => Sorted(src, lt, Tail(chan))
<1> DEFINE tail == Tail(chan)
<1>1. /\ Len(chan) \in Nat /\ Len(tail) = Len(chan) - 1
      /\ \A j \in 1 .. Len(tail) : tail[j] = chan[j + 1]
  BY HeadTailProperties, LenProperties
<1>2. Len(chan) >= 1
  BY EmptySeq, LenProperties
<1> HIDE DEF tail
<1>3. ASSUME NEW t, NEW i \in Nat
      PROVE  Rest(src, lt, tail, t, i) = Rest(src, lt, chan, t, i + 1)
  <2>1. ASSUME NEW x, NEW j \in 1 .. Len(tail), j > i, tail[j] # Malformed,
               tail[j].ssrc = t, x \in Carried(tail[j])
        PROVE  \E m \in 1 .. Len(chan) : /\ m > i + 1 /\ chan[m] # Malformed
                                         /\ chan[m].ssrc = t /\ x \in Carried(chan[m])
    <3>1. j + 1 \in 1 .. Len(chan) /\ j + 1 > i + 1 /\ tail[j] = chan[j + 1]
      BY <1>1, <1>2, <2>1
    <3> QED
      BY <2>1, <3>1
  <2>2. ASSUME NEW x, NEW m \in 1 .. Len(chan), m > i + 1, chan[m] # Malformed,
               chan[m].ssrc = t, x \in Carried(chan[m])
        PROVE  \E j \in 1 .. Len(tail) : /\ j > i /\ tail[j] # Malformed
                                         /\ tail[j].ssrc = t /\ x \in Carried(tail[j])
    <3> DEFINE j == m - 1
    <3>1. j \in 1 .. Len(tail) /\ j > i /\ j + 1 = m
      BY <1>1, <1>2, <2>2
    <3> HIDE DEF j
    <3>2. tail[j] = chan[m]
      BY <1>1, <3>1
    <3> QED
      BY <2>2, <3>1, <3>2
  <2> QED
    BY <2>1, <2>2 DEF Rest
<1>4. ASSUME Sorted(src, lt, chan), NEW i \in 1 .. Len(tail), tail[i] # Malformed
      PROVE  Before(Carried(tail[i]), Rest(src, lt, tail, tail[i].ssrc, i))
  <2>1. i + 1 \in 1 .. Len(chan) /\ tail[i] = chan[i + 1] /\ i \in Nat
    BY <1>1, <1>2
  <2>2. Before(Carried(chan[i + 1]), Rest(src, lt, chan, chan[i + 1].ssrc, i + 1))
    BY <1>4, <2>1 DEF Sorted
  <2>3. Rest(src, lt, tail, tail[i].ssrc, i) = Rest(src, lt, chan, tail[i].ssrc, i + 1)
    BY <1>3, <2>1
  <2> QED
    BY <2>1, <2>2, <2>3
<1> QED
  BY <1>3, <1>4 DEF Sorted, tail

\* A sample of packet k has k for the number of its packet.
LEMMA SampleOf ==
  ASSUME NEW k \in Nat, NEW x \in Int,
         k * PacketSamples <= x, x < (k + 1) * PacketSamples
  PROVE  x \div PacketSamples = k
<1> DEFINE q == x \div PacketSamples
<1>1. PacketSamples \in Nat \ {0} /\ k * PacketSamples \in Nat
  BY SourceAssumption
<1>2. x \in Nat
  BY <1>1
<1>3. q \in Nat /\ q * PacketSamples <= x /\ x < q * PacketSamples + PacketSamples
  BY <1>1, <1>2, Quotient
<1> HIDE DEF q
<1>4. /\ (k + 1) * PacketSamples = k * PacketSamples + PacketSamples
      /\ (q + 1) * PacketSamples = q * PacketSamples + PacketSamples
      /\ q * PacketSamples \in Nat
  BY <1>1, <1>3
<1>5. ~(q + 1 <= k)
  <2> SUFFICES ASSUME q + 1 <= k PROVE FALSE
    OBVIOUS
  <2>1. (q + 1) * PacketSamples <= k * PacketSamples
    BY <1>1, <1>3, TimesMonotone
  <2> QED
    BY <1>1, <1>3, <1>4, <2>1
<1>6. ~(k + 1 <= q)
  <2> SUFFICES ASSUME k + 1 <= q PROVE FALSE
    OBVIOUS
  <2>1. (k + 1) * PacketSamples <= q * PacketSamples
    BY <1>1, <1>3, TimesMonotone
  <2> QED
    BY <1>1, <1>3, <1>4, <2>1
<1> QED
  BY <1>3, <1>5, <1>6 DEF q

\* What comes to the socket comes so.
LEMMA ReceiveComes ==
  ASSUME TypeOK, NEW s \in Ssrcs, NEW k \in Nat, source[s] <= k,
         source' = [source EXCEPT ![s] = k + 1], late' = late
  PROVE  Comes(source, Lates, Packet(s, k), source', Lates')
<1>1. k \in Nat /\ source \in [Ssrcs -> Nat] /\ source[s] <= k /\ PacketSamples \in Nat
  BY SourceAssumption DEF TypeOK
<1>2. Lates' = Lates
  BY DEF Lates
<1>3. source' \in [Ssrcs -> Nat] /\ source'[s] = k + 1
      /\ \A t \in Ssrcs : source[t] <= source'[t]
  BY <1>1
<1>4. source[s] * PacketSamples <= k * PacketSamples
  BY <1>1, TimesMonotone
<1>5. source[s] * PacketSamples \in Int /\ k * PacketSamples \in Int
  BY <1>1
<1>6. ASSUME NEW x \in Carried(Packet(s, k))
      PROVE  x >= source[s] * PacketSamples /\ x < source'[s] * PacketSamples
  <2>1. x \in Int /\ k * PacketSamples <= x /\ x < (k + 1) * PacketSamples
    BY <1>1, PacketCarries
  <2> QED
    BY <1>3, <1>4, <1>5, <2>1
<1>7. Packet(s, k).ssrc = s
  BY <1>1, PacketCarries
<1> QED
  BY <1>2, <1>3, <1>6, <1>7 DEF Comes

LEMMA LateComes ==
  ASSUME TypeOK, NEW s \in Ssrcs, NEW k \in 0 .. source[s] - 1,
         late' = [late EXCEPT ![s] = Append(late[s], k)], source' = source
  PROVE  Comes(source, Lates, Packet(s, k), source', Lates')
<1>1. /\ k \in Nat /\ source \in [Ssrcs -> Nat] /\ k + 1 <= source[s]
      /\ PacketSamples \in Nat
  BY SourceAssumption DEF TypeOK
<1>2. Lates[s] \subseteq Lates'[s] /\ k \in Lates'[s]
      /\ \A t \in Ssrcs : Lates[t] \subseteq Lates'[t]
  <2>1. late \in [Ssrcs -> Seq(Nat)] /\ Len(late[s]) \in Nat
    BY LenProperties DEF TypeOK
  <2>2. /\ Len(late'[s]) = Len(late[s]) + 1 /\ late'[s][Len(late[s]) + 1] = k
        /\ \A i \in 1 .. Len(late[s]) : late'[s][i] = late[s][i]
    BY <1>1, <2>1, AppendProperties
  <2>3. \A t \in Ssrcs \ {s} : late'[t] = late[t]
    BY <2>1
  <2>4. ASSUME NEW i \in 1 .. Len(late[s]) PROVE late[s][i] \in Lates'[s]
    BY <2>1, <2>2 DEF Lates
  <2>5. k \in Lates'[s]
    BY <2>1, <2>2 DEF Lates
  <2> QED
    BY <2>3, <2>4, <2>5 DEF Lates
<1>3. (k + 1) * PacketSamples <= source[s] * PacketSamples
  BY <1>1, TimesMonotone
<1>4. (k + 1) * PacketSamples \in Int /\ source[s] * PacketSamples \in Int
  BY <1>1
<1>5. ASSUME NEW x \in Carried(Packet(s, k))
      PROVE  x \div PacketSamples \in Lates'[s] /\ x < source'[s] * PacketSamples
  <2>1. x \in Int /\ k * PacketSamples <= x /\ x < (k + 1) * PacketSamples
    BY <1>1, PacketCarries
  <2>2. x \div PacketSamples = k
    BY <1>1, <2>1, SampleOf
  <2> QED
    BY <1>2, <1>3, <1>4, <2>1, <2>2
<1>6. Packet(s, k).ssrc = s
  BY <1>1, PacketCarries
<1> QED
  BY <1>1, <1>2, <1>5, <1>6 DEF Comes

\* A datagram that comes so and is queued or dropped.
LEMMA ArrivalStep ==
  ASSUME TypeOK, Flight, NEW d \in Datagrams, TrySend(d), pc' = pc, pkt' = pkt,
         Comes(source, Lates, d, source', Lates')
  PROVE  Flight' /\ Shrinks
<1>1. PICK src2, lt2, chan2 : src2 = source' /\ lt2 = Lates' /\ chan2 = pkt_chan'
  OBVIOUS
<1>2. chan2 = pkt_chan \/ chan2 = Append(pkt_chan, d)
  BY <1>1, TrySendType
<1>3. source \in [Ssrcs -> Nat] /\ pkt_chan \in Seq(Datagrams)
      /\ Comes(source, Lates, d, src2, lt2)
  BY <1>1 DEF TypeOK
<1>4. /\ \A t \in Ssrcs, i \in Nat :
           Rest(src2, lt2, chan2, t, i) \subseteq Rest(source, Lates, pkt_chan, t, i)
      /\ Sorted(source, Lates, pkt_chan) => Sorted(src2, lt2, chan2)
  BY <1>2, <1>3, RestAppend
<1>5. pkt' = pkt /\ (InHand' <=> InHand)
  BY DEF InHand
<1>6. ASSUME NEW t \in Ssrcs
      PROVE  Rest(src2, lt2, chan2, t, 0) \subseteq Rest(source, Lates, pkt_chan, t, 0)
  BY <1>4
<1>7. ASSUME InHand' PROVE Before(Carried(pkt), Rest(src2, lt2, chan2, pkt.ssrc, 0))
  <2>1. InHand /\ pkt.ssrc \in Ssrcs
    BY <1>5, <1>7, CarriedInt DEF InHand, TypeOK
  <2>2. Before(Carried(pkt), Rest(source, Lates, pkt_chan, pkt.ssrc, 0))
    BY <2>1 DEF Flight
  <2> QED
    BY <1>6, <2>1, <2>2 DEF Before
<1>8. Flight'
  <2>1. Sorted(source', Lates', pkt_chan')
    BY <1>1, <1>4 DEF Flight
  <2>2. InHand' => Before(Carried(pkt'), Rest(source', Lates', pkt_chan', pkt'.ssrc, 0))
    BY <1>1, <1>5, <1>7
  <2> QED
    BY <2>1, <2>2 DEF Flight, Sorted, Rest, Before, Carried
<1>9. ASSUME NEW t \in Ssrcs
      PROVE  Future(t)' \subseteq Future(t) /\ Lates[t] \subseteq Lates'[t]
  <2>1. Lates[t] \subseteq Lates'[t]
    BY DEF Comes
  <2>2. Future(t)' = Rest(src2, lt2, chan2, t, 0)
                       \cup {x \in Int : /\ InHand' /\ pkt'.ssrc = t /\ x \in Carried(pkt')
                                         /\ x \div PacketSamples \notin Lates'[t]}
    BY <1>1 DEF Future, Rest, Carried
  <2> QED
    BY <1>5, <1>6, <2>1, <2>2 DEF Future
<1> QED
  BY <1>8, <1>9 DEF Shrinks

\* Every step keeps the packets in order, and takes what it needs from what was
\* still to come.
LEMMA FlightStep ==
  ASSUME TypeOK, Flight, [Next]_vars
  PROVE  Flight' /\ Shrinks
<1>1. ASSUME source' = source, late' = late, pkt_chan' = pkt_chan,
             InHand' => InHand /\ pkt' = pkt
      PROVE  Flight' /\ Shrinks
  <2>2. Lates' = Lates
    BY <1>1 DEF Lates
  <2>1. Flight'
    <3>1. Sorted(source', Lates', pkt_chan')
      BY <1>1, <2>2 DEF Flight
    <3>2. InHand' => Before(Carried(pkt'), Rest(source', Lates', pkt_chan', pkt'.ssrc, 0))
      BY <1>1, <2>2 DEF Flight
    <3> QED
      BY <3>1, <3>2 DEF Flight, Sorted, Rest, Before, Carried
  <2>3. ASSUME NEW t \in Ssrcs PROVE Future(t)' \subseteq Future(t)
    BY <1>1, <2>2 DEF Future, Rest, Carried
  <2> QED
    BY <2>1, <2>2, <2>3 DEF Shrinks
<1>2. ASSUME NEW s \in Ssrcs, Receive(s) PROVE Flight' /\ Shrinks
  <2>1. PICK k \in source[s] .. (now * SourceRate) \div (PacketSamples * Second) :
          source' = [source EXCEPT ![s] = k + 1] /\ TrySend(Packet(s, k))
    BY <1>2 DEF Receive
  <2>2. k \in Nat /\ source[s] <= k /\ Packet(s, k) \in Datagrams
    BY <2>1, PacketType DEF TypeOK
  <2>3. late' = late /\ pc' = pc /\ pkt' = pkt
    BY <1>2 DEF Receive
  <2> QED
    BY <2>1, <2>2, <2>3, ReceiveComes, ArrivalStep
<1>6. ASSUME NEW s \in Ssrcs, ReceiveLate(s) PROVE Flight' /\ Shrinks
  <2>1. PICK k \in 0 .. source[s] - 1 :
          late' = [late EXCEPT ![s] = Append(late[s], k)] /\ TrySend(Packet(s, k))
    BY <1>6 DEF ReceiveLate
  <2>2. k \in Nat /\ Packet(s, k) \in Datagrams
    BY <2>1, PacketType DEF TypeOK
  <2>3. source' = source /\ pc' = pc /\ pkt' = pkt
    BY <1>6 DEF ReceiveLate
  <2> QED
    BY <2>1, <2>2, <2>3, LateComes, ArrivalStep
<1>7. CASE ReceiveMalformed
  <2>1. /\ TrySend(Malformed) /\ Malformed \in Datagrams
        /\ source' = source /\ late' = late /\ pc' = pc /\ pkt' = pkt
    BY <1>7 DEF ReceiveMalformed, Datagrams
  <2>2. Comes(source, Lates, Malformed, source', Lates')
    BY <2>1 DEF Comes, Lates, TypeOK
  <2> QED
    BY <2>1, <2>2, ArrivalStep
<1>3. CASE Dequeue
  <2>1. /\ pc = "select" /\ pkt_chan # <<>> /\ pkt_chan' = Tail(pkt_chan)
        /\ source' = source /\ late' = late /\ Lates' = Lates
        /\ \/ Wanted(Head(pkt_chan)) /\ pkt' = Head(pkt_chan) /\ InHand'
           \/ ~InHand'
    BY <1>3 DEF Dequeue, PacketTurn, InHand, Lates
  <2>2. pkt_chan \in Seq(Datagrams)
    BY DEF TypeOK
  <2>3. PICK tail : tail = Tail(pkt_chan)
    OBVIOUS
  <2>4. /\ \A t \in Ssrcs, i \in Nat :
             Rest(source, Lates, tail, t, i) = Rest(source, Lates, pkt_chan, t, i + 1)
        /\ Sorted(source, Lates, tail)
    BY <2>1, <2>2, <2>3, RestTail DEF Flight
  <2>5. ASSUME NEW t \in Ssrcs
        PROVE  /\ Rest(source, Lates, tail, t, 0) = Rest(source, Lates, pkt_chan, t, 1)
               /\ Rest(source, Lates, tail, t, 0) \subseteq Rest(source, Lates, pkt_chan, t, 0)
    <3>1. Rest(source, Lates, tail, t, 0) = Rest(source, Lates, pkt_chan, t, 0 + 1)
      BY <2>4
    <3>2. Rest(source, Lates, pkt_chan, t, 1) \subseteq Rest(source, Lates, pkt_chan, t, 0)
      BY DEF Rest
    <3> QED
      BY <3>1, <3>2
  <2> DEFINE p == Head(pkt_chan)
  <2>6. p = pkt_chan[1] /\ 1 \in 1 .. Len(pkt_chan)
    <3>1. Len(pkt_chan) \in Nat /\ Len(pkt_chan) # 0
      BY <2>1, <2>2, EmptySeq, LenProperties
    <3> QED
      BY <2>1, <2>2, <3>1, HeadTailProperties
  <2> HIDE DEF p
  <2>7. ASSUME Wanted(p)
        PROVE  /\ p.ssrc \in Ssrcs /\ Carried(p) \subseteq Int
               /\ Before(Carried(p), Rest(source, Lates, pkt_chan, p.ssrc, 1))
               /\ \A x \in Carried(p) : x \div PacketSamples \notin Lates[p.ssrc]
                    => x \in Rest(source, Lates, pkt_chan, p.ssrc, 0)
    <3>1. p # Malformed
      BY <2>7 DEF Wanted
    <3>2. p \in RtpPacket(Ssrcs)
      <4>1. pkt_chan[1] \in Datagrams
        BY <2>2, <2>6, ElementOfSeq
      <4> QED
        BY <2>6, <3>1, <4>1 DEF Datagrams
    <3>3. p.ssrc \in Ssrcs /\ Carried(p) \subseteq Int
      BY <3>2, CarriedInt
    <3>4. Before(Carried(p), Rest(source, Lates, pkt_chan, p.ssrc, 1))
      BY <2>6, <3>1 DEF Flight, Sorted
    <3>5. \A x \in Carried(p) : x \div PacketSamples \notin Lates[p.ssrc]
                    => x \in Rest(source, Lates, pkt_chan, p.ssrc, 0)
      BY <2>6, <3>1, <3>3 DEF Rest
    <3> QED
      BY <3>3, <3>4, <3>5
  <2>8. Flight'
    <3>1. InHand' => Before(Carried(pkt'), Rest(source, Lates, tail, pkt'.ssrc, 0))
      <4> SUFFICES ASSUME InHand'
                   PROVE  Before(Carried(pkt'), Rest(source, Lates, tail, pkt'.ssrc, 0))
        OBVIOUS
      <4>1. Wanted(p) /\ pkt' = p
        BY <2>1 DEF p
      <4>2. Rest(source, Lates, tail, p.ssrc, 0) = Rest(source, Lates, pkt_chan, p.ssrc, 1)
        BY <2>5, <2>7, <4>1
      <4> QED
        BY <2>7, <4>1, <4>2
    <3>2. Sorted(source', Lates', pkt_chan')
      BY <2>1, <2>3, <2>4
    <3>3. InHand' => Before(Carried(pkt'), Rest(source', Lates', pkt_chan', pkt'.ssrc, 0))
      BY <2>1, <2>3, <3>1
    <3> QED
      BY <3>2, <3>3 DEF Flight, Sorted, Rest, Before, Carried
  <2>9. ASSUME NEW t \in Ssrcs PROVE Future(t)' \subseteq Future(t)
    <3>1. Future(t)' = Rest(source, Lates, tail, t, 0)
                         \cup {x \in Int : /\ InHand' /\ pkt'.ssrc = t /\ x \in Carried(pkt')
                                           /\ x \div PacketSamples \notin Lates[t]}
      BY <2>1, <2>3 DEF Future, Rest, Carried
    <3>2. ASSUME NEW x \in Int, InHand', pkt'.ssrc = t, x \in Carried(pkt'),
                 x \div PacketSamples \notin Lates[t]
          PROVE  x \in Rest(source, Lates, pkt_chan, t, 0)
      <4>1. Wanted(p) /\ pkt' = p
        BY <2>1, <3>2 DEF p
      <4> QED
        BY <2>7, <3>2, <4>1
    <3> QED
      BY <2>5, <3>1, <3>2 DEF Future
  <2> QED
    BY <2>1, <2>8, <2>9 DEF Shrinks
<1>4. CASE Advance \/ IntervalTick \/ TakeWindow \/ UNCHANGED vars
           \/ \E s \in Ssrcs : StatusPacket(s)
  <2>1. source' = source /\ late' = late /\ pkt_chan' = pkt_chan
        /\ (InHand' => InHand /\ pkt' = pkt)
    BY <1>4 DEF Advance, IntervalTick, TakeWindow, vars, StatusPacket, InHand
  <2> QED
    BY <1>1, <2>1
<1>5. CASE (\E s \in Ssrcs : Seal(s)) \/ Route \/ IngestPacket
  <2>1. source' = source /\ late' = late /\ pkt_chan' = pkt_chan
        /\ (InHand' => InHand /\ pkt' = pkt)
    BY <1>5 DEF Seal, Route, IngestPacket, InHand
  <2> QED
    BY <1>1, <2>1
<1> QED
  BY <1>2, <1>3, <1>4, <1>5, <1>6, <1>7 DEF Next

\* The byte order stays known.
LEMMA KnownStep ==
  ASSUME TypeOK, Known, EncodingReported, [Next]_vars
  PROVE  Known'
<1>1. CASE UNCHANGED <<channel_map, info>> /\ (pc' = "ingest" => pc = "ingest")
  BY <1>1 DEF Known
<1>2. ASSUME NEW s \in Ssrcs, StatusPacket(s) PROVE Known'
  <2>1. PICK u \in StatusUpdates :
          channel_map' = [channel_map EXCEPT ![s] = Update(channel_map[s], u)]
    BY <1>2 DEF StatusPacket
  <2>2. UNCHANGED <<info, pc>>
    BY <1>2 DEF StatusPacket
  <2>3. u.encoding = ENC_S16BE /\ ENC_S16BE # None
    BY NoneAssumption DEF EncodingReported, ENC_S16BE
  <2>4. Update(channel_map[s], u).encoding = ENC_S16BE
    BY <2>3 DEF Update, Reported
  <2>5. \A t \in Ssrcs : channel_map'[t] # None => channel_map'[t].encoding = ENC_S16BE
    BY <2>1, <2>4 DEF TypeOK, Known
  <2> QED
    BY <2>2, <2>5 DEF Known
<1>3. CASE Route
  <2>1. pkt.ssrc \in Ssrcs /\ channel_map' = channel_map
    BY <1>3 DEF TypeOK, Route, RtpPacket
  <2>2. pc' = "ingest" => info' = channel_map[pkt.ssrc] /\ channel_map[pkt.ssrc] # None
    BY <1>3 DEF Route, IsAudioReady
  <2> QED
    BY <2>1, <2>2 DEF Known
<1>4. CASE IngestPacket
  <2>1. pc' # "ingest" /\ channel_map' = channel_map
    BY <1>4 DEF IngestPacket
  <2> QED
    BY <2>1 DEF Known
<1>5. CASE Dequeue
  <2>1. pc' # "ingest" /\ channel_map' = channel_map
    BY <1>5 DEF Dequeue
  <2> QED
    BY <2>1 DEF Known
<1>6. ASSUME NEW s \in Ssrcs, Receive(s) \/ ReceiveLate(s) \/ Seal(s) PROVE Known'
  BY <1>1, <1>6 DEF Receive, ReceiveLate, Seal
<1>7. CASE Advance \/ ReceiveMalformed \/ IntervalTick \/ TakeWindow \/ UNCHANGED vars
  <2>1. UNCHANGED <<channel_map, info>> /\ (pc' = "ingest" => pc = "ingest")
    BY <1>7 DEF Advance, ReceiveMalformed, IntervalTick, TakeWindow, vars
  <2> QED
    BY <1>1, <2>1
<1> QED
  BY <1>2, <1>3, <1>4, <1>5, <1>6, <1>7 DEF Next

\* Late packets stay late.
LEMMA FollowsMore ==
  ASSUME NEW v, NEW w, NEW L, NEW M, Follows(v, w, L), L \subseteq M
  PROVE  Follows(v, w, M)
BY DEF Follows

\* A window in the channel is of one of the streams.
LEMMA SealedStream ==
  ASSUME TypeOK, NEW i \in 1 .. Len(win_chan)
  PROVE  win_chan[i].ssrc \in Ssrcs
<1>1. win_chan[i] \in SealedWindow
  BY ElementOfSeq DEF TypeOK
<1> QED
  BY <1>1 DEF SealedWindow

\* A step that leaves the window channel alone, and gives a window only samples
\* that were to come or are late, all before those still to come in order.
LEMMA WindowsGrow ==
  ASSUME TypeOK, Written, Onward, win_chan' = win_chan, Shrinks,
         \A s \in Ssrcs : windows'[s] # None =>
           \A x \in Audible(windows'[s]) :
             \/ windows[s] # None /\ x \in Audible(windows[s])
             \/ /\ x \in Future(s) \/ x \div PacketSamples \in Lates'[s]
                /\ \A y \in Future(s)' : x < y
  PROVE  Written' /\ Onward'
<1>1. ASSUME NEW s \in Ssrcs, windows'[s] # None
      PROVE  Before(Audible(windows'[s]), Future(s)')
  <2> SUFFICES ASSUME NEW x \in Audible(windows'[s]), NEW y \in Future(s)'
               PROVE  x < y
    BY DEF Before
  <2>1. y \in Future(s)
    BY DEF Shrinks
  <2>2. CASE windows[s] # None /\ x \in Audible(windows[s])
    BY <2>1, <2>2 DEF Written, Before
  <2>3. CASE \A z \in Future(s)' : x < z
    BY <2>3
  <2> QED
    BY <1>1, <2>2, <2>3
<1>2. ASSUME NEW s \in Ssrcs, NEW i \in 1 .. Len(win_chan), win_chan[i].ssrc = s
      PROVE  Before(Audible(win_chan[i].window), Future(s)')
  <2>1. Before(Audible(win_chan[i].window), Future(s))
    BY <1>2 DEF Written
  <2> QED
    BY <2>1 DEF Before, Shrinks
<1>3. Written'
  <2>1. \A s \in Ssrcs :
          /\ windows'[s] # None => Before(Audible(windows'[s]), Future(s)')
          /\ \A i \in 1 .. Len(win_chan') :
               win_chan'[i].ssrc = s => Before(Audible(win_chan'[i].window), Future(s)')
    BY <1>1, <1>2
  <2> QED
    BY <2>1 DEF Written, Before, Audible
<1>4. ASSUME NEW i \in 1 .. Len(win_chan), windows'[win_chan[i].ssrc] # None
      PROVE  Follows(win_chan[i].window, windows'[win_chan[i].ssrc],
                     Lates'[win_chan[i].ssrc])
  <2> DEFINE s == win_chan[i].ssrc
             v == win_chan[i].window
  <2>1. s \in Ssrcs
    BY SealedStream
  <2>2. /\ Before(Audible(v), Future(s))
        /\ windows[s] # None => Follows(v, windows[s], Lates[s])
    BY <2>1 DEF Written, Onward, InTurn
  <2>3. windows'[s] # None /\ Lates[s] \subseteq Lates'[s]
    BY <1>4, <2>1 DEF Shrinks
  <2> HIDE DEF s, v
  <2> SUFFICES ASSUME NEW x \in Audible(v), NEW y \in Audible(windows'[s])
               PROVE  x < y \/ y \div PacketSamples \in Lates'[s]
    BY DEF Follows, s, v
  <2>4. CASE windows[s] # None /\ y \in Audible(windows[s])
    BY <2>2, <2>3, <2>4 DEF Follows
  <2>5. CASE y \in Future(s)
    BY <2>2, <2>5 DEF Before
  <2>6. CASE y \div PacketSamples \in Lates'[s]
    BY <2>6
  <2> QED
    BY <2>1, <2>3, <2>4, <2>5, <2>6
<1>5. ASSUME NEW i \in 1 .. Len(win_chan), NEW j \in i + 1 .. Len(win_chan),
             win_chan[j].ssrc = win_chan[i].ssrc
      PROVE  Follows(win_chan[i].window, win_chan[j].window, Lates'[win_chan[i].ssrc])
  <2>1. Lates[win_chan[i].ssrc] \subseteq Lates'[win_chan[i].ssrc]
    BY SealedStream DEF Shrinks
  <2>2. Follows(win_chan[i].window, win_chan[j].window, Lates[win_chan[i].ssrc])
    BY <1>5 DEF Onward, InTurn
  <2> QED
    BY <2>1, <2>2, FollowsMore
<1>6. InTurn(win_chan, windows', Lates')
  BY <1>4, <1>5 DEF InTurn
<1> QED
  BY <1>3, <1>6 DEF Onward

\* A new window is silent.
LEMMA NewWindowSilent ==
  ASSUME NEW start, NEW freq, NEW rate \in Nat
  PROVE  Audible(NewWindow(start, freq, rate, CaptureSeconds)) = {}
<1> DEFINE n == rate * CaptureSeconds
           f == [i \in 1 .. n |-> Silence]
<1>1. n \in Nat
  BY CaptureAssumption
<1>2. NewWindow(start, freq, rate, CaptureSeconds).samples = f
  BY DEF NewWindow
<1> HIDE DEF n
<1>3. Len(f) = n
  BY <1>1
<1>4. \A i \in 1 .. n : f[i] = Silence
  OBVIOUS
<1> HIDE DEF f
<1> QED
  BY <1>2, <1>3, <1>4 DEF Audible

\* The four actions that move windows or write into them.
LEMMA RouteOnce ==
  ASSUME TypeOK, Written, Onward, Route,
         Shrinks
  PROVE  Written' /\ Onward'
<1> DEFINE s == pkt.ssrc
           i == channel_map[s]
           w == NewWindow(EvenMinuteBoundary(now), i.center_freq_hz,
                          i.sample_rate_hz, CaptureSeconds)
<1>1. s \in Ssrcs /\ win_chan' = win_chan
  BY DEF TypeOK, Route, RtpPacket
<1>2. \/ windows' = windows
      \/ /\ windows[s] = None /\ i # None
         /\ windows' = [windows EXCEPT ![s] = w]
  <2>1. \/ windows' = windows
        \/ /\ IsAudioReady(i)
           /\ windows' = [windows EXCEPT ![s] = IF windows[s] # None THEN windows[s] ELSE w]
    BY DEF Route
  <2> HIDE DEF w, s, i
  <2> QED
    BY <1>1, <2>1 DEF TypeOK, IsAudioReady
<1>3. i # None => Audible(w) = {}
  <2> SUFFICES ASSUME i # None PROVE Audible(w) = {}
    OBVIOUS
  <2>1. i \in ChannelInfo
    BY <1>1 DEF TypeOK
  <2>2. i.sample_rate_hz \in Nat
    BY <2>1 DEF ChannelInfo
  <2> HIDE DEF i
  <2> QED
    BY <2>2, NewWindowSilent
<1> HIDE DEF w, i
<1>4. ASSUME NEW t \in Ssrcs, windows'[t] # None, NEW x \in Audible(windows'[t])
      PROVE  windows[t] # None /\ x \in Audible(windows[t])
  <2>1. CASE windows' = windows
    BY <1>4, <2>1
  <2>2. CASE windows[s] = None /\ i # None /\ windows' = [windows EXCEPT ![s] = w]
    <3>1. windows'[t] = IF t = s THEN w ELSE windows[t]
      BY <2>2 DEF TypeOK
    <3> QED
      BY <1>3, <1>4, <2>2, <3>1
  <2> QED
    BY <1>2, <2>1, <2>2
<1> QED
  BY <1>1, <1>4, WindowsGrow

LEMMA IngestOnce ==
  ASSUME TypeOK, Flight, Written, Known, Onward, IngestPacket,
         Shrinks
  PROVE  Written' /\ Onward'
<1>1. /\ pkt \in RtpPacket(Ssrcs) /\ info \in ChannelInfo /\ now \in Nat
      /\ windows[pkt.ssrc] # None /\ info.encoding = ENC_S16BE
  BY DEF TypeOK, IngestPacket, Known
<1>2. PICK s \in Ssrcs : s = pkt.ssrc
  BY <1>1, CarriedInt
<1> DEFINE r == Ingest(windows[s], pkt, info.sample_rate_hz, info.encoding, now)
<1>3. Audible(r.window) \subseteq Audible(windows[s]) \cup Carried(pkt)
  <2>1. info.sample_rate_hz \in Nat /\ WellFormed(windows[s])
    BY <1>1, <1>2 DEF ChannelInfo, TypeOK
  <2> QED
    BY <1>1, <2>1, IngestAudible
<1>4. windows' = [windows EXCEPT ![s] = r.window] /\ win_chan' = win_chan
  BY <1>2 DEF IngestPacket
<1> HIDE DEF r
<1>5. \A t \in Ssrcs : windows'[t] = IF t = s THEN r.window ELSE windows[t]
  BY <1>4 DEF TypeOK
<1>6. /\ InHand /\ ~InHand' /\ source' = source /\ pkt_chan' = pkt_chan
      /\ Lates' = Lates
  BY DEF InHand, IngestPacket, Lates
<1>7. Future(s)' = Rest(source, Lates, pkt_chan, s, 0)
  BY <1>6 DEF Future, Rest, Carried
<1>8. Before(Carried(pkt), Rest(source, Lates, pkt_chan, s, 0))
  BY <1>2, <1>6 DEF Flight
<1>9. \A x \in Carried(pkt) : x \in Future(s) \/ x \div PacketSamples \in Lates'[s]
  BY <1>1, <1>2, <1>6, CarriedInt DEF Future
<1>10. ASSUME NEW t \in Ssrcs, windows'[t] # None, NEW x \in Audible(windows'[t])
       PROVE  \/ windows[t] # None /\ x \in Audible(windows[t])
              \/ /\ x \in Future(t) \/ x \div PacketSamples \in Lates'[t]
                 /\ \A y \in Future(t)' : x < y
  <2>1. CASE t = s
    <3>1. x \in Audible(windows[s]) \/ x \in Carried(pkt)
      BY <1>3, <1>5, <1>10, <2>1
    <3>2. CASE x \in Carried(pkt)
      BY <1>7, <1>8, <1>9, <2>1, <3>2 DEF Before
    <3> QED
      BY <1>1, <1>2, <2>1, <3>1, <3>2
  <2>2. CASE t # s
    BY <1>5, <1>10, <2>2
  <2> QED
    BY <2>1, <2>2
<1> QED
  BY <1>4, <1>10, WindowsGrow

\* A sealed window goes from the end of its line to the end of the channel.
LEMMA SealOnce ==
  ASSUME TypeOK, Written, Onward, NEW s \in Ssrcs, Seal(s),
         Shrinks
  PROVE  Written' /\ Onward'
<1> DEFINE x == [ssrc |-> s, window |-> windows[s]]
           n == Len(win_chan)
<1>1. /\ windows[s] # None /\ windows' = [windows EXCEPT ![s] = None]
      /\ win_chan' = Append(win_chan, x)
  BY DEF TypeOK, Seal
<1>2. win_chan \in Seq(SealedWindow) /\ n \in Nat
  BY LenProperties DEF TypeOK
<1>3. x.ssrc = s /\ x.window = windows[s]
  OBVIOUS
<1> HIDE DEF x, n
<1>4. Len(win_chan') = n + 1 /\ win_chan'[n + 1] = x
      /\ \A i \in 1 .. n : win_chan'[i] = win_chan[i]
  BY <1>1, <1>2, AppendProperties DEF n
<1>5. \A i \in 1 .. Len(win_chan') : i \in 1 .. n \/ i = n + 1
  BY <1>2, <1>4
<1>6. \A t \in Ssrcs : windows'[t] = IF t = s THEN None ELSE windows[t]
  BY <1>1 DEF TypeOK
<1>7. ASSUME NEW t \in Ssrcs
      PROVE  /\ windows'[t] # None => Before(Audible(windows'[t]), Future(t)')
             /\ \A i \in 1 .. Len(win_chan') :
                  win_chan'[i].ssrc = t => Before(Audible(win_chan'[i].window), Future(t)')
  <2>1. /\ windows[t] # None => Before(Audible(windows[t]), Future(t)')
        /\ \A i \in 1 .. n :
             win_chan[i].ssrc = t => Before(Audible(win_chan[i].window), Future(t)')
    BY DEF Written, Before, Shrinks, n
  <2>2. windows'[t] # None => Before(Audible(windows'[t]), Future(t)')
    BY <1>6, <2>1
  <2>3. ASSUME NEW i \in 1 .. Len(win_chan'), win_chan'[i].ssrc = t
        PROVE  Before(Audible(win_chan'[i].window), Future(t)')
    <3>1. CASE i \in 1 .. n
      BY <1>4, <2>1, <2>3, <3>1
    <3>2. CASE i = n + 1
      BY <1>1, <1>3, <1>4, <2>1, <2>3, <3>2
    <3> QED
      BY <1>5, <3>1, <3>2
  <2> QED
    BY <2>2, <2>3
<1>8. Written'
  BY <1>7 DEF Written, Before, Audible
<1>9. \A i \in 1 .. n : win_chan[i].ssrc \in Ssrcs
  BY SealedStream DEF n
<1>12. Lates' = Lates
  BY DEF Seal, Lates
<1>10. ASSUME NEW i \in 1 .. Len(win_chan')
       PROVE  /\ \A j \in i + 1 .. Len(win_chan') :
                   win_chan'[j].ssrc = win_chan'[i].ssrc
                     => Follows(win_chan'[i].window, win_chan'[j].window, Lates[win_chan'[i].ssrc])
              /\ windows'[win_chan'[i].ssrc] # None
                   => Follows(win_chan'[i].window, windows'[win_chan'[i].ssrc], Lates[win_chan'[i].ssrc])
  <2>1. CASE i \in 1 .. n
    <3>1. win_chan'[i] = win_chan[i] /\ win_chan[i].ssrc \in Ssrcs
      BY <1>4, <1>9, <2>1
    <3>2. /\ \A j \in i + 1 .. n :
               win_chan[j].ssrc = win_chan[i].ssrc
                 => Follows(win_chan[i].window, win_chan[j].window, Lates[win_chan[i].ssrc])
          /\ windows[win_chan[i].ssrc] # None
               => Follows(win_chan[i].window, windows[win_chan[i].ssrc], Lates[win_chan[i].ssrc])
      BY <2>1 DEF Onward, InTurn, n
    <3>3. ASSUME NEW j \in i + 1 .. Len(win_chan'), win_chan'[j].ssrc = win_chan'[i].ssrc
          PROVE  Follows(win_chan'[i].window, win_chan'[j].window, Lates[win_chan'[i].ssrc])
      <4>1. j \in i + 1 .. n \/ j = n + 1
        BY <1>2, <1>4, <2>1
      <4>2. CASE j \in i + 1 .. n
        <5>1. j \in 1 .. n
          BY <1>2, <2>1, <4>2
        <5> QED
          BY <1>4, <3>1, <3>2, <3>3, <4>2, <5>1
      <4>3. CASE j = n + 1
        BY <1>1, <1>3, <1>4, <3>1, <3>2, <3>3, <4>3
      <4> QED
        BY <4>1, <4>2, <4>3
    <3>4. windows'[win_chan'[i].ssrc] # None
            => Follows(win_chan'[i].window, windows'[win_chan'[i].ssrc], Lates[win_chan'[i].ssrc])
      BY <1>6, <3>1, <3>2
    <3> QED
      BY <3>3, <3>4
  <2>2. CASE i = n + 1
    <3>1. windows'[win_chan'[i].ssrc] = None
      BY <1>3, <1>4, <1>6, <2>2
    <3>2. i + 1 .. Len(win_chan') = {}
      BY <1>2, <1>4, <2>2
    <3> QED
      BY <3>1, <3>2
  <2> QED
    BY <1>5, <2>1, <2>2
<1>11. Onward'
  BY <1>10, <1>12 DEF Onward, InTurn
<1> QED
  BY <1>8, <1>11

LEMMA TakeOnce ==
  ASSUME TypeOK, Written, Onward, TakeWindow,
         Shrinks
  PROVE  Written' /\ Onward'
<1>1. /\ win_chan # <<>> /\ win_chan' = Tail(win_chan) /\ windows' = windows
      /\ win_chan \in Seq(SealedWindow)
  BY DEF TypeOK, TakeWindow
<1>2. /\ Len(win_chan) \in Nat /\ Len(win_chan') = Len(win_chan) - 1
      /\ \A i \in 1 .. Len(win_chan') : win_chan'[i] = win_chan[i + 1]
  BY <1>1, HeadTailProperties, LenProperties
<1>3. \A i \in 1 .. Len(win_chan') : i + 1 \in 1 .. Len(win_chan)
  BY <1>2
<1>4. ASSUME NEW t \in Ssrcs
      PROVE  /\ windows'[t] # None => Before(Audible(windows'[t]), Future(t)')
             /\ \A i \in 1 .. Len(win_chan') :
                  win_chan'[i].ssrc = t => Before(Audible(win_chan'[i].window), Future(t)')
  <2>1. /\ windows[t] # None => Before(Audible(windows[t]), Future(t)')
        /\ \A i \in 1 .. Len(win_chan) :
             win_chan[i].ssrc = t => Before(Audible(win_chan[i].window), Future(t)')
    BY DEF Written, Before, Shrinks
  <2> QED
    BY <1>1, <1>2, <1>3, <2>1
<1>5. Written'
  BY <1>4 DEF Written, Before, Audible
<1>6. ASSUME NEW i \in 1 .. Len(win_chan')
      PROVE  /\ \A j \in i + 1 .. Len(win_chan') :
                  win_chan'[j].ssrc = win_chan'[i].ssrc
                    => Follows(win_chan'[i].window, win_chan'[j].window, Lates[win_chan'[i].ssrc])
             /\ windows'[win_chan'[i].ssrc] # None
                  => Follows(win_chan'[i].window, windows'[win_chan'[i].ssrc], Lates[win_chan'[i].ssrc])
  <2>1. /\ \A j \in (i + 1) + 1 .. Len(win_chan) :
             win_chan[j].ssrc = win_chan[i + 1].ssrc
               => Follows(win_chan[i + 1].window, win_chan[j].window, Lates[win_chan[i + 1].ssrc])
        /\ windows[win_chan[i + 1].ssrc] # None
             => Follows(win_chan[i + 1].window, windows[win_chan[i + 1].ssrc], Lates[win_chan[i + 1].ssrc])
    BY <1>3 DEF Onward, InTurn
  <2>2. win_chan'[i] = win_chan[i + 1]
    BY <1>2
  <2>3. ASSUME NEW j \in i + 1 .. Len(win_chan'), win_chan'[j].ssrc = win_chan'[i].ssrc
        PROVE  Follows(win_chan'[i].window, win_chan'[j].window, Lates[win_chan'[i].ssrc])
    <3>1. j \in 1 .. Len(win_chan') /\ j + 1 \in (i + 1) + 1 .. Len(win_chan)
      BY <1>2
    <3>2. win_chan'[j] = win_chan[j + 1]
      BY <1>2, <3>1
    <3> QED
      BY <2>1, <2>2, <2>3, <3>1, <3>2
  <2> QED
    BY <1>1, <2>1, <2>2, <2>3
<1>7. Lates' = Lates
  BY DEF TakeWindow, Lates
<1>8. Onward'
  BY <1>6, <1>7 DEF Onward, InTurn
<1> QED
  BY <1>5, <1>8

\* The invariant holds at first and is kept by every step.
LEMMA OnceInit == ASSUME Init PROVE Once
<1>1. /\ Len(pkt_chan) = 0 /\ Len(win_chan) = 0 /\ pc = "select"
      /\ \A s \in Ssrcs : windows[s] = None /\ channel_map[s] = None
  BY EmptySeq DEF Init
<1>2. Sorted(source, Lates, pkt_chan) /\ ~InHand
  BY <1>1 DEF Sorted, InHand
<1> QED
  BY <1>1, <1>2 DEF Once, Flight, Written, Known, Onward, InTurn

LEMMA OnceStep ==
  ASSUME TypeOK, Once, EncodingReported, [Next]_vars
  PROVE  Once'
<1>1. /\ TypeOK /\ Flight /\ Written /\ Known /\ Onward
  BY DEF Once
<1>2. Flight' /\ Shrinks
  BY <1>1, FlightStep
<1>3. Known'
  BY <1>1, KnownStep
<1>4. ASSUME windows' = windows /\ win_chan' = win_chan
      PROVE  Written' /\ Onward'
  BY <1>1, <1>2, <1>4, WindowsGrow
<1>5. Written' /\ Onward'
  <2>1. ASSUME NEW s \in Ssrcs, Receive(s) \/ ReceiveLate(s) \/ StatusPacket(s)
        PROVE  Written' /\ Onward'
    BY <1>4, <2>1 DEF Receive, ReceiveLate, StatusPacket
  <2>2. CASE Advance \/ ReceiveMalformed \/ IntervalTick \/ Dequeue \/ UNCHANGED vars
    <3>1. windows' = windows /\ win_chan' = win_chan
      BY <2>2 DEF Advance, ReceiveMalformed, IntervalTick, Dequeue, vars
    <3> QED
      BY <1>4, <3>1
  <2>3. ASSUME NEW s \in Ssrcs, Seal(s) PROVE Written' /\ Onward'
    BY <1>1, <1>2, <2>3, SealOnce
  <2>4. CASE Route
    BY <1>1, <1>2, <2>4, RouteOnce
  <2>5. CASE IngestPacket
    BY <1>1, <1>2, <2>5, IngestOnce
  <2>6. CASE TakeWindow
    BY <1>1, <1>2, <2>6, TakeOnce
  <2> QED
    BY <2>1, <2>2, <2>3, <2>4, <2>5, <2>6 DEF Next
<1> QED
  BY <1>2, <1>3, <1>5 DEF Once

\* If every status packet reports the byte order the stream is sent in, a later
\* window of a stream holds later audio than an earlier one, and none of its
\* samples, but for packets that came again or overtaken; whatever overflows, is
\* lost or waits (main.rs:413-496).
THEOREM AudioOnceCorrect ==
  ASSUME EncodingReported
  PROVE  Spec => []AudioOnce
<1>1. Init => Once
  BY OnceInit
<1>2. TypeOK /\ Once /\ [Next]_vars => Once'
  BY OnceStep
<1>3. TypeOK /\ Once => AudioOnce
  <2> SUFFICES ASSUME TypeOK, Once PROVE AudioOnce
    OBVIOUS
  <2>1. InTurn(win_chan, windows, Lates)
    BY DEF Once, Onward
  <2>2. ASSUME NEW s \in Ssrcs, NEW v, NEW w, Follows(v, w, Lates[s])
        PROVE  Precedes(v, w, s)
    BY <2>2 DEF Follows, Precedes, IsLate, Lates
  <2> QED
    BY <2>1, <2>2, SealedStream DEF InTurn, AudioOnce
<1> QED
  BY <1>1, <1>2, <1>3, TypeCorrect, PTL DEF Spec

-----------------------------------------------------------------------------
(* Capture implements Delivery: every step of the pipeline is a step of the   *)
(* abstract specification, or none that it sees.                              *)

\* The refinement mapping of D.
MapOpen == [s \in Ssrcs |-> IF windows[s] = None THEN None ELSE Audio(windows[s])]
MapQueue == [i \in 1 .. Len(win_chan) |->
               [ssrc |-> win_chan[i].ssrc, window |-> Audio(win_chan[i].window)]]

\* The boundary behind a moment is the next moment's, or lies a cycle before it.
LEMMA BoundaryStep ==
  ASSUME NEW n \in Nat
  PROVE  \/ EvenMinuteBoundary(n + 1) = EvenMinuteBoundary(n)
         \/ EvenMinuteBoundary(n + 1) = EvenMinuteBoundary(n) + Cycle
<1> DEFINE b == EvenMinuteBoundary(n)
           e == EvenMinuteBoundary(n + 1)
           p == (n \div Second) \div CycleSeconds
           q == ((n + 1) \div Second) \div CycleSeconds
<1>1. p \in Nat /\ q \in Nat /\ Cycle \in Nat \ {0}
  <2>1. n \div Second \in Nat /\ (n + 1) \div Second \in Nat
    BY Quotient, ClockAssumption
  <2> QED
    BY <2>1, Quotient, ClockAssumption DEF Cycle
<1>2. b = p * Cycle /\ e = q * Cycle
  <2> HIDE DEF p, q
  <2>1. /\ (p * CycleSeconds) * Second = p * (CycleSeconds * Second)
        /\ (q * CycleSeconds) * Second = q * (CycleSeconds * Second)
    BY <1>1, ClockAssumption
  <2> QED
    BY <2>1 DEF EvenMinuteBoundary, Cycle, p, q
<1>3. /\ b \in Nat /\ b <= n /\ n < b + Cycle
      /\ e \in Nat /\ e <= n + 1 /\ n + 1 < e + Cycle
  BY BoundaryBelow
<1>4. CASE n + 1 < b + Cycle
  BY <1>3, <1>4, BoundaryUnique
<1>5. CASE n + 1 = b + Cycle
  <2> HIDE DEF b, e, p, q
  <2>1. ~(q <= p)
    <3> SUFFICES ASSUME q <= p PROVE FALSE
      OBVIOUS
    <3>1. q * Cycle <= p * Cycle
      BY <1>1, TimesMonotone
    <3> QED
      BY <1>1, <1>2, <1>3, <1>5, <3>1
  <2>2. ~(p + 2 <= q)
    <3> SUFFICES ASSUME p + 2 <= q PROVE FALSE
      OBVIOUS
    <3>1. (p + 2) * Cycle <= q * Cycle
      BY <1>1, TimesMonotone
    <3>2. (p + 2) * Cycle = p * Cycle + Cycle + Cycle
      BY <1>1
    <3> QED
      BY <1>1, <1>2, <1>3, <1>5, <3>1, <3>2
  <2>3. q = p + 1
    BY <1>1, <2>1, <2>2
  <2>4. q * Cycle = p * Cycle + Cycle
    BY <1>1, <2>3
  <2> QED
    BY <1>2, <2>4 DEF b, e
<1> QED
  BY <1>1, <1>3, <1>4, <1>5

\* An open window has audio that tells it from none.
LEMMA AudioIsSome ==
  ASSUME NEW w \in Window
  PROVE  Audio(w) # None
<1>1. Audio(w) \in [start: Nat, audio: Seq(Int \cup {Silence})]
  BY DEF Audio, Window
<1> QED
  BY <1>1, AudioAssumption

\* The pipeline starts in the first cycle, with nothing open and nothing sent.
LEMMA MapInit == Init => D!Init
<1> SUFFICES ASSUME Init PROVE D!Init
  OBVIOUS
<1>1. now \in Nat /\ EvenMinuteBoundary(now) = 0
  <2>1. 0 \in Nat /\ now \in Nat /\ now < Cycle /\ Cycle \in Nat
    BY ClockAssumption DEF Init, Cycle
  <2>2. EvenMinuteBoundary(0) = 0
    BY <2>1, BoundaryBelow
  <2> QED
    BY <2>1, <2>2, BoundaryUnique
<1> QED
  BY <1>1 DEF Init, D!Init

\* Steps that leave clock, windows and window channel alone are not seen.
LEMMA Unseen ==
  ASSUME UNCHANGED <<now, windows, win_chan>>
  PROVE  UNCHANGED D!vars
BY DEF D!vars

\* What a step does to one stream's window, as Delivery sees it.
LEMMA MapWindow ==
  ASSUME TypeOK, NEW s \in Ssrcs, NEW w \in Window,
         windows' = [windows EXCEPT ![s] = w]
  PROVE  /\ MapOpen' = [MapOpen EXCEPT ![s] = Audio(w)]
         /\ MapOpen'[s] = Audio(w) /\ Audio(w) # None
<1>1. w # None /\ Audio(w) # None
  BY NoneAssumption, AudioIsSome
<1>2. /\ windows \in [Ssrcs -> Window \cup {None}]
  BY DEF TypeOK
<1>3. MapOpen' = [t \in Ssrcs |-> IF t = s THEN Audio(w) ELSE MapOpen[t]]
  BY <1>1, <1>2 DEF MapOpen
<1> QED
  BY <1>1, <1>3 DEF MapOpen

\* A window that leaves the table is not open any more.
LEMMA MapRemove ==
  ASSUME TypeOK, NEW s \in Ssrcs, windows' = [windows EXCEPT ![s] = None]
  PROVE  MapOpen' = [MapOpen EXCEPT ![s] = None]
BY DEF MapOpen, TypeOK

\* Time begins a new cycle, or goes on unseen.
LEMMA MapAdvance ==
  ASSUME TypeOK, Advance
  PROVE  D!NextCycle \/ UNCHANGED D!vars
<1>1. now \in Nat /\ now' = now + 1 /\ windows' = windows /\ win_chan' = win_chan
  BY DEF TypeOK, Advance
<1>2. \/ EvenMinuteBoundary(now') = EvenMinuteBoundary(now)
      \/ EvenMinuteBoundary(now') = EvenMinuteBoundary(now) + Cycle
  BY <1>1, BoundaryStep
<1>3. EvenMinuteBoundary(now)' = EvenMinuteBoundary(now')
  BY DEF EvenMinuteBoundary
<1> QED
  BY <1>1, <1>2, <1>3 DEF D!NextCycle, D!vars

\* A mapped channel is a sequence of the same length.
LEMMA MapIsSeq ==
  ASSUME NEW n \in Nat, NEW f, f = [i \in 1 .. n |-> f[i]], NEW y
  PROVE  /\ f \in Seq({f[i] : i \in 1 .. n} \cup {y})
         /\ f \in Seq({f[i] : i \in 1 .. n})
         /\ Len(f) = n
BY FunctionIsSeq

\* A window that is sealed is handed over.
LEMMA MapSeal ==
  ASSUME TypeOK, NEW s \in Ssrcs, Seal(s)
  PROVE  D!HandOver(s)
<1> DEFINE x == [ssrc |-> s, window |-> windows[s]]
           y == [ssrc |-> s, window |-> Audio(windows[s])]
<1>1. /\ windows[s] # None /\ windows[s] \in Window
      /\ windows' = [windows EXCEPT ![s] = None]
      /\ win_chan' = Append(win_chan, x) /\ now' = now
      /\ Len(win_chan) < WindowChanCap /\ win_chan \in Seq(SealedWindow)
  BY DEF TypeOK, Seal
<1>2. x \in SealedWindow
  BY <1>1 DEF SealedWindow
<1>3. /\ MapOpen' = [MapOpen EXCEPT ![s] = None]
      /\ MapOpen[s] = Audio(windows[s]) /\ MapOpen[s] # None
  BY <1>1, MapRemove, AudioIsSome DEF MapOpen
<1>4. MapQueue' = Append(MapQueue, y)
  <2>1. Len(win_chan) \in Nat /\ Len(win_chan') = Len(win_chan) + 1
    BY <1>1, <1>2
  <2>2. /\ \A i \in 1 .. Len(win_chan) : win_chan'[i] = win_chan[i]
        /\ win_chan'[Len(win_chan) + 1] = x
    BY <1>1, <1>2
  <2>3. MapQueue \in Seq({MapQueue[i] : i \in 1 .. Len(win_chan)} \cup {y})
        /\ Len(MapQueue) = Len(win_chan)
    BY <2>1, MapIsSeq DEF MapQueue
  <2>4. Append(MapQueue, y) = [i \in 1 .. Len(win_chan) + 1 |->
                                 IF i = Len(win_chan) + 1 THEN y ELSE MapQueue[i]]
    BY <2>1, <2>3
  <2>5. MapQueue' = [i \in 1 .. Len(win_chan) + 1 |->
                       [ssrc |-> win_chan'[i].ssrc, window |-> Audio(win_chan'[i].window)]]
    BY <2>1 DEF MapQueue, Audio
  <2>6. \A i \in 1 .. Len(win_chan) + 1 :
          [ssrc |-> win_chan'[i].ssrc, window |-> Audio(win_chan'[i].window)]
            = IF i = Len(win_chan) + 1 THEN y ELSE MapQueue[i]
    BY <2>1, <2>2 DEF MapQueue, Audio
  <2> HIDE DEF y
  <2> QED
    BY <2>4, <2>5, <2>6
<1>5. Len(MapQueue) = Len(win_chan)
  BY <1>1, MapIsSeq DEF MapQueue
<1> QED
  BY <1>1, <1>3, <1>4, <1>5 DEF D!HandOver, MapOpen, MapQueue

\* decode_task takes the window that waited longest.
LEMMA MapTake ==
  ASSUME TypeOK, TakeWindow
  PROVE  D!Take
<1>1. /\ win_chan \in Seq(SealedWindow) /\ win_chan # <<>>
      /\ win_chan' = Tail(win_chan) /\ windows' = windows /\ now' = now
  BY DEF TypeOK, TakeWindow
<1>2. /\ Len(win_chan) \in Nat \ {0} /\ Len(win_chan') = Len(win_chan) - 1
      /\ \A i \in 1 .. Len(win_chan') : win_chan'[i] = win_chan[i + 1]
  BY <1>1
<1>3. /\ MapQueue \in Seq({MapQueue[i] : i \in 1 .. Len(win_chan)})
      /\ Len(MapQueue) = Len(win_chan)
  BY <1>1, MapIsSeq DEF MapQueue
<1>4. Tail(MapQueue) = [i \in 1 .. Len(win_chan) - 1 |-> MapQueue[i + 1]]
  <2> DEFINE S == {MapQueue[i] : i \in 1 .. Len(win_chan)}
             n == Len(win_chan) - 1
             t == [i \in 1 .. n |-> MapQueue[i + 1]]
  <2>1. MapQueue \in Seq(S) /\ MapQueue # <<>> /\ n \in Nat
    BY <1>2, <1>3
  <2>2. t \in [1 .. n -> S]
    <3>1. \A i \in 1 .. n : i + 1 \in 1 .. Len(win_chan)
      BY <1>2
    <3> QED
      BY <3>1
  <2> HIDE DEF S, n, t
  <2>3. t \in Seq(S) /\ Len(t) = n
    BY <2>1, <2>2, FunctionIsSeq
  <2>4. /\ Tail(MapQueue) \in Seq(S) /\ Len(Tail(MapQueue)) = n
        /\ \A i \in 1 .. n : Tail(MapQueue)[i] = MapQueue[i + 1]
    BY <1>3, <2>1, HeadTailProperties DEF n
  <2>5. \A i \in 1 .. n : t[i] = MapQueue[i + 1]
    BY DEF t
  <2>6. Tail(MapQueue) = t
    BY <2>3, <2>4, <2>5, SeqEqual
  <2> QED
    BY <2>6 DEF t, n
<1>5. MapQueue' = [i \in 1 .. Len(win_chan) - 1 |->
                     [ssrc |-> win_chan'[i].ssrc, window |-> Audio(win_chan'[i].window)]]
  BY <1>2 DEF MapQueue, Audio
<1>6. MapQueue' = Tail(MapQueue) /\ MapQueue # <<>>
  BY <1>2, <1>3, <1>4, <1>5 DEF MapQueue, Audio
<1> QED
  BY <1>1, <1>6 DEF D!Take, MapQueue

\* Route opens a window of the present cycle, or changes nothing that Delivery sees.
LEMMA MapRoute ==
  ASSUME TypeOK, Route
  PROVE  (\E s \in Ssrcs : D!Open(s)) \/ UNCHANGED D!vars
<1>0. PICK s \in Ssrcs : s = pkt.ssrc
  BY DEF TypeOK, Route, RtpPacket
<1> DEFINE i == channel_map[s]
           w == NewWindow(EvenMinuteBoundary(now), i.center_freq_hz,
                          i.sample_rate_hz, CaptureSeconds)
<1>1. win_chan' = win_chan /\ now' = now /\ now \in Nat
  BY DEF TypeOK, Route
<1>2. \/ windows' = windows
      \/ /\ i # None /\ windows[s] = None
         /\ windows' = [windows EXCEPT ![s] = w]
  BY <1>0 DEF Route, TypeOK, IsAudioReady
<1>3. CASE windows' = windows
  BY <1>1, <1>3, Unseen
<1>4. CASE /\ i # None /\ windows[s] = None
           /\ windows' = [windows EXCEPT ![s] = w]
  <2>1. i \in ChannelInfo
    BY <1>1, <1>4 DEF TypeOK
  <2>2. w \in Window /\ w.window_start = EvenMinuteBoundary(now)
    <3>1. i.center_freq_hz \in Nat /\ i.sample_rate_hz \in Nat
      BY <2>1 DEF ChannelInfo
    <3>2. EvenMinuteBoundary(now) \in Nat /\ CaptureSeconds \in Nat
      BY <1>1, BoundaryBelow, CaptureAssumption
    <3> QED
      BY <3>1, <3>2, NewWindowType DEF WellFormed, NewWindow
  <2>3. MapOpen[s] = None
    BY <1>1, <1>4 DEF MapOpen
  <2> HIDE DEF w
  <2>4. /\ MapOpen' = [MapOpen EXCEPT ![s] = Audio(w)]
        /\ MapOpen'[s] = Audio(w) /\ Audio(w) # None
    BY <1>1, <1>4, <2>2, MapWindow
  <2>5. Audio(w) = [start |-> EvenMinuteBoundary(now), audio |-> MapOpen'[s].audio]
    BY <2>2, <2>4 DEF Audio
  <2>6. /\ MapOpen'[s] # None
        /\ MapOpen' = [MapOpen EXCEPT ![s] =
                         [start |-> EvenMinuteBoundary(now), audio |-> MapOpen'[s].audio]]
    BY <2>4, <2>5
  <2>7. D!Open(s)
    BY <1>1, <2>3, <2>6 DEF D!Open, MapOpen, MapQueue, EvenMinuteBoundary
  <2> QED
    BY <1>1, <2>7
<1> QED
  BY <1>2, <1>3, <1>4

\* The packet in hand adds to its window, which is of the present cycle.
LEMMA MapIngest ==
  ASSUME TypeOK, SameCycle, IngestPacket
  PROVE  \E s \in Ssrcs : D!Collect(s)
<1>0. PICK s \in Ssrcs : s = pkt.ssrc
  BY DEF TypeOK, IngestPacket, RtpPacket
<1> DEFINE r == Ingest(windows[s], pkt, info.sample_rate_hz, info.encoding, now)
           w == r.window
<1>1. /\ windows[s] # None /\ WellFormed(windows[s])
      /\ WellFormed(w) /\ w # None
  BY <1>0, IngestInHand DEF IngestPacket
<1>2. w.window_start = windows[s].window_start
  BY <1>1, IngestKeepsStart
<1>3. /\ windows[s].window_start = EvenMinuteBoundary(now)
      /\ windows' = [windows EXCEPT ![s] = w]
      /\ win_chan' = win_chan /\ now' = now
  BY <1>0 DEF SameCycle, IngestPacket
<1> HIDE DEF w
<1>4. /\ MapOpen' = [MapOpen EXCEPT ![s] = Audio(w)]
      /\ MapOpen'[s] = Audio(w) /\ Audio(w) # None
      /\ MapOpen[s] = Audio(windows[s]) /\ MapOpen[s] # None
  BY <1>1, <1>3, MapWindow, AudioIsSome DEF WellFormed, MapOpen
<1>5. Audio(w) = [Audio(windows[s]) EXCEPT !.audio = MapOpen'[s].audio]
  BY <1>2, <1>4 DEF Audio
<1>6. MapOpen[s].start = EvenMinuteBoundary(now)
  BY <1>3, <1>4 DEF Audio
<1>7. MapOpen' = [MapOpen EXCEPT ![s].audio = MapOpen'[s].audio]
  BY <1>4, <1>5
<1>8. D!Collect(s)
  BY <1>1, <1>3, <1>4, <1>6, <1>7 DEF D!Collect, MapOpen, MapQueue
<1> QED
  BY <1>1, <1>8

-----------------------------------------------------------------------------
\* Every step of Capture is one of Delivery, or unseen.
LEMMA MapNext ==
  ASSUME TypeOK, SameCycle, [Next]_vars
  PROVE  [D!Next]_(D!vars)
<1>1. CASE Advance
  BY <1>1, MapAdvance DEF D!Next
<1>2. ASSUME NEW s \in Ssrcs, Receive(s) \/ ReceiveLate(s) \/ StatusPacket(s)
      PROVE  UNCHANGED D!vars
  BY <1>2, Unseen DEF Receive, ReceiveLate, StatusPacket
<1>9. CASE ReceiveMalformed
  BY <1>9, Unseen DEF ReceiveMalformed
<1>3. CASE IntervalTick \/ Dequeue
  BY <1>3, Unseen DEF IntervalTick, Dequeue
<1>4. ASSUME NEW s \in Ssrcs, Seal(s)
      PROVE  D!Next
  BY <1>4, MapSeal DEF D!Next
<1>5. CASE Route
  BY <1>5, MapRoute DEF D!Next
<1>6. CASE IngestPacket
  BY <1>6, MapIngest DEF D!Next
<1>7. CASE TakeWindow
  BY <1>7, MapTake DEF D!Next
<1>8. CASE UNCHANGED vars
  BY <1>8, Unseen DEF vars
<1> QED
  BY <1>1, <1>2, <1>3, <1>4, <1>5, <1>6, <1>7, <1>8, <1>9 DEF Next

\* If the capture time, a tick period and the handling of a packet fit in a
\* cycle, the pipeline keeps the promise of Delivery.
THEOREM ImplementsDeliveryCorrect ==
  ASSUME CaptureFits
  PROVE  Spec => ImplementsDelivery
<1>1. Init => D!Init
  BY MapInit
<1>2. TypeOK /\ SameCycle /\ [Next]_vars => [D!Next]_(D!vars)
  BY MapNext
<1>3. Spec => []TypeOK /\ []SameCycle
  BY TypeCorrect, SameCycleCorrect
<1> QED
  BY <1>1, <1>2, <1>3, PTL DEF Spec, ImplementsDelivery, D!Spec

-----------------------------------------------------------------------------
(* What the promise of Delivery is worth.  Its invariant is stated of any      *)
(* cycle c, open windows o and queue q, which the refinement mapping takes     *)
(* from the pipeline.                                                          *)

IsWindow(w) == w = [start |-> w.start, audio |-> w.audio] /\ w.start \in Nat

\* No window, open or waiting, is of a cycle to come.
Past(c, o, q) ==
  /\ c \in Nat
  /\ o = [s \in Ssrcs |-> o[s]]
  /\ \A s \in Ssrcs : o[s] # None => IsWindow(o[s]) /\ o[s].start <= c
  /\ q \in Seq({q[i] : i \in 1 .. Len(q)})
  /\ \A i \in 1 .. Len(q) : q[i].window.start \in Nat /\ q[i].window.start <= c

\* The windows of a stream wait in the order of their cycles.
Ordered(o, q) ==
  \A s \in Ssrcs :
    /\ \A i, j \in 1 .. Len(q) :
         (i < j /\ q[i].ssrc = s /\ q[j].ssrc = s) =>
            q[i].window.start <= q[j].window.start
    /\ o[s] # None =>
         \A i \in 1 .. Len(q) : q[i].ssrc = s => q[i].window.start <= o[s].start

Promise(c, o, q) == Past(c, o, q) /\ Ordered(o, q)

\* The steps of Delivery, from c, o, q to c2, o2, q2.
Opens(s, c, o, o2) ==
  o[s] = None /\ o2 = [o EXCEPT ![s] = [start |-> c, audio |-> o2[s].audio]]
Collects(s, c, o, o2) ==
  o[s] # None /\ o[s].start = c /\ o2 = [o EXCEPT ![s].audio = o2[s].audio]
HandsOver(s, o, q, o2, q2) ==
  /\ o[s] # None /\ o2 = [o EXCEPT ![s] = None]
  /\ q2 = Append(q, [ssrc |-> s, window |-> o[s]])
Moves(c, o, q, c2, o2, q2) ==
  \/ c2 = c + Cycle /\ o2 = o /\ q2 = q
  \/ q # <<>> /\ q2 = Tail(q) /\ c2 = c /\ o2 = o
  \/ \E s \in Ssrcs : \/ Opens(s, c, o, o2) /\ c2 = c /\ q2 = q
                      \/ Collects(s, c, o, o2) /\ c2 = c /\ q2 = q
                      \/ HandsOver(s, o, q, o2, q2) /\ c2 = c

\* A sequence is one of its own elements.
LEMMA OwnRange ==
  ASSUME NEW S, NEW q \in Seq(S)
  PROVE  q \in Seq({q[i] : i \in 1 .. Len(q)})
OBVIOUS

LEMMA PromiseStep ==
  ASSUME NEW c, NEW o, NEW q, NEW c2, NEW o2, NEW q2, Cycle \in Nat,
         Promise(c, o, q), Moves(c, o, q, c2, o2, q2)
  PROVE  Promise(c2, o2, q2)
<1> DEFINE S == {q[i] : i \in 1 .. Len(q)}
<1>0. q \in Seq(S) /\ Len(q) \in Nat
  BY DEF Promise, Past
<1>1. CASE c2 = c + Cycle /\ o2 = o /\ q2 = q
  <2>1. c2 \in Nat /\ c <= c2 /\ o2 = o /\ q2 = q
    BY <1>1 DEF Promise, Past
  <2>2. Past(c2, o2, q2)
    BY <2>1 DEF Promise, Past, IsWindow
  <2> QED
    BY <2>1, <2>2 DEF Promise, Ordered
<1>2. CASE q # <<>> /\ q2 = Tail(q) /\ c2 = c /\ o2 = o
  <2>1. /\ c2 = c /\ o2 = o /\ q2 = Tail(q) /\ q # <<>>
    BY <1>2
  <2>2. /\ q2 \in Seq(S) /\ Len(q2) = Len(q) - 1 /\ Len(q2) \in Nat
        /\ \A i \in 1 .. Len(q2) : q2[i] = q[i + 1] /\ i + 1 \in 1 .. Len(q)
    BY <1>0, <2>1
  <2> HIDE DEF S
  <2>3. Past(c2, o2, q2)
    <3>1. q2 \in Seq({q2[i] : i \in 1 .. Len(q2)})
      BY <2>2, OwnRange
    <3>2. \A k \in 1 .. Len(q) : q[k].window.start \in Nat /\ q[k].window.start <= c
      BY DEF Promise, Past
    <3>3. ASSUME NEW i \in 1 .. Len(q2)
          PROVE  q2[i].window.start \in Nat /\ q2[i].window.start <= c
      <4>1. i + 1 \in 1 .. Len(q) /\ q2[i] = q[i + 1]
        BY <2>2
      <4> QED
        BY <3>2, <4>1
    <3> QED
      BY <2>1, <3>1, <3>3 DEF Promise, Past
  <2>4. Ordered(o, q2)
    <3>1. ASSUME NEW t \in Ssrcs, NEW i \in 1 .. Len(q2), NEW j \in 1 .. Len(q2),
                 i < j, q2[i].ssrc = t, q2[j].ssrc = t
          PROVE  q2[i].window.start <= q2[j].window.start
      <4>1. /\ i + 1 \in 1 .. Len(q) /\ q2[i] = q[i + 1]
            /\ j + 1 \in 1 .. Len(q) /\ q2[j] = q[j + 1]
        BY <2>2
      <4>2. i + 1 < j + 1
        BY <3>1
      <4> QED
        BY <3>1, <4>1, <4>2 DEF Promise, Ordered
    <3>2. ASSUME NEW t \in Ssrcs, o[t] # None, NEW i \in 1 .. Len(q2), q2[i].ssrc = t
          PROVE  q2[i].window.start <= o[t].start
      <4>1. i + 1 \in 1 .. Len(q) /\ q2[i] = q[i + 1]
        BY <2>2
      <4> QED
        BY <3>2, <4>1 DEF Promise, Ordered
    <3> QED
      BY <3>1, <3>2 DEF Ordered
  <2> QED
    BY <2>1, <2>3, <2>4 DEF Promise
<1>3. ASSUME NEW s \in Ssrcs, Opens(s, c, o, o2), c2 = c, q2 = q
      PROVE  Promise(c2, o2, q2)
  <2>1. /\ c2 = c /\ q2 = q /\ o[s] = None
        /\ o2[s].start = c /\ IsWindow(o2[s])
        /\ o2 = [t \in Ssrcs |-> o2[t]]
        /\ \A t \in Ssrcs \ {s} : o2[t] = o[t]
    BY <1>3 DEF Opens, Promise, Past, IsWindow
  <2>2. Past(c2, o2, q2)
    BY <2>1 DEF Promise, Past, IsWindow
  <2> QED
    BY <2>1, <2>2 DEF Promise, Past, Ordered
<1>4. ASSUME NEW s \in Ssrcs, Collects(s, c, o, o2), c2 = c, q2 = q
      PROVE  Promise(c2, o2, q2)
  <2>1. /\ c2 = c /\ q2 = q /\ o[s] # None
        /\ o2[s].start = o[s].start /\ IsWindow(o2[s])
        /\ o2 = [t \in Ssrcs |-> o2[t]]
        /\ \A t \in Ssrcs \ {s} : o2[t] = o[t]
    BY <1>4 DEF Collects, Promise, Past, IsWindow
  <2>2. Past(c2, o2, q2)
    BY <2>1 DEF Promise, Past, IsWindow
  <2> QED
    BY <2>1, <2>2 DEF Promise, Past, Ordered
<1>5. ASSUME NEW s \in Ssrcs, HandsOver(s, o, q, o2, q2), c2 = c
      PROVE  Promise(c2, o2, q2)
  <2> DEFINE x == [ssrc |-> s, window |-> o[s]]
             T == S \cup {x}
  <2>1. /\ c2 = c /\ q2 = Append(q, x) /\ o[s] # None
        /\ o2[s] = None /\ o2 = [t \in Ssrcs |-> o2[t]]
        /\ \A t \in Ssrcs \ {s} : o2[t] = o[t]
    BY <1>5 DEF HandsOver, Promise, Past
  <2>2. q \in Seq(T)
    BY <1>0
  <2>3. /\ q2 \in Seq(T) /\ Len(q2) = Len(q) + 1 /\ Len(q2) \in Nat
        /\ \A i \in 1 .. Len(q) : q2[i] = q[i]
        /\ q2[Len(q2)] = x
    BY <1>0, <2>1, <2>2
  <2>4. x.ssrc = s /\ x.window.start \in Nat /\ x.window.start <= c
    BY <2>1 DEF Promise, Past, IsWindow
  <2> HIDE DEF x
  <2>5. \A i \in 1 .. Len(q2) : i \in 1 .. Len(q) \/ (i = Len(q2) /\ q2[i] = x)
    BY <1>0, <2>3
  <2>6. Past(c2, o2, q2)
    <3>1. q2 \in Seq({q2[i] : i \in 1 .. Len(q2)})
      BY <2>3, OwnRange
    <3>2. \A i \in 1 .. Len(q2) : /\ q2[i].window.start \in Nat
                                       /\ q2[i].window.start <= c
      BY <2>3, <2>4, <2>5 DEF Promise, Past
    <3>3. \A t \in Ssrcs : o2[t] # None =>
             IsWindow(o2[t]) /\ o2[t].start <= c
      BY <2>1 DEF Promise, Past
    <3>4. c \in Nat
      BY DEF Promise, Past
    <3> QED
      BY <2>1, <3>1, <3>2, <3>3, <3>4 DEF Past
  <2>7. Ordered(o2, q2)
    <3>1. \A i \in 1 .. Len(q) :
             q[i].ssrc = s => q[i].window.start <= x.window.start
      BY <2>1 DEF Promise, Ordered, x
    <3>2. \A t \in Ssrcs : \A i, j \in 1 .. Len(q2) :
             (i < j /\ q2[i].ssrc = t /\ q2[j].ssrc = t) =>
                q2[i].window.start <= q2[j].window.start
      <4> SUFFICES ASSUME NEW t \in Ssrcs, NEW i \in 1 .. Len(q2),
                          NEW j \in 1 .. Len(q2), i < j,
                          q2[i].ssrc = t, q2[j].ssrc = t
                   PROVE  q2[i].window.start <= q2[j].window.start
        OBVIOUS
      <4>1. i \in 1 .. Len(q) /\ q2[i] = q[i]
        BY <1>0, <2>3
      <4>2. CASE j \in 1 .. Len(q)
        BY <4>1, <4>2, <2>3 DEF Promise, Ordered
      <4>3. CASE j = Len(q2) /\ q2[j] = x
        BY <4>1, <4>3, <3>1, <2>4
      <4> QED
        BY <4>2, <4>3, <2>5
    <3>3. \A t \in Ssrcs : o2[t] # None =>
             \A i \in 1 .. Len(q2) :
               q2[i].ssrc = t => q2[i].window.start <= o2[t].start
      <4> SUFFICES ASSUME NEW t \in Ssrcs, o2[t] # None,
                          NEW i \in 1 .. Len(q2), q2[i].ssrc = t
                   PROVE  q2[i].window.start <= o2[t].start
        OBVIOUS
      <4>1. t # s /\ o2[t] = o[t]
        BY <2>1
      <4>2. i \in 1 .. Len(q) /\ q2[i] = q[i]
        BY <4>1, <2>3, <2>4, <2>5
      <4> QED
        BY <4>1, <4>2 DEF Promise, Ordered
    <3> QED
      BY <3>2, <3>3 DEF Ordered
  <2> QED
    BY <2>6, <2>7 DEF Promise
<1> QED
  BY <1>1, <1>2, <1>3, <1>4, <1>5 DEF Moves

LEMMA DeliveryMoves ==
  ASSUME D!Next
  PROVE  Moves(EvenMinuteBoundary(now), MapOpen, MapQueue,
               EvenMinuteBoundary(now)', MapOpen', MapQueue')
<1>1. CASE D!NextCycle
  BY <1>1 DEF D!NextCycle, Moves, MapOpen, MapQueue
<1>2. CASE D!Take
  BY <1>2 DEF D!Take, Moves, MapOpen, MapQueue
<1>3. ASSUME NEW s \in Ssrcs, D!Open(s)
      PROVE  /\ Opens(s, EvenMinuteBoundary(now), MapOpen, MapOpen')
             /\ EvenMinuteBoundary(now)' = EvenMinuteBoundary(now) /\ MapQueue' = MapQueue
  BY <1>3 DEF D!Open, Opens, MapOpen, MapQueue
<1>4. ASSUME NEW s \in Ssrcs, D!Collect(s)
      PROVE  /\ Collects(s, EvenMinuteBoundary(now), MapOpen, MapOpen')
             /\ EvenMinuteBoundary(now)' = EvenMinuteBoundary(now) /\ MapQueue' = MapQueue
  BY <1>4 DEF D!Collect, Collects, MapOpen, MapQueue
<1>5. ASSUME NEW s \in Ssrcs, D!HandOver(s)
      PROVE  /\ HandsOver(s, MapOpen, MapQueue, MapOpen', MapQueue')
             /\ EvenMinuteBoundary(now)' = EvenMinuteBoundary(now)
  BY <1>5 DEF D!HandOver, HandsOver, MapOpen, MapQueue
<1> QED
  BY <1>1, <1>2, <1>3, <1>4, <1>5 DEF D!Next, Moves

\* Whatever keeps the promise of Delivery hands the windows of a stream over, and
\* lets them be taken, in the order of their cycles.
THEOREM PromiseKeepsOrder == D!Spec => []D!InOrder
<1> DEFINE B == EvenMinuteBoundary(now)
           I == Promise(B, MapOpen, MapQueue)
<1>1. D!Init => I
  <2> SUFFICES ASSUME D!Init PROVE I
    OBVIOUS
  <2>1. B = 0 /\ MapOpen = [s \in Ssrcs |-> None] /\ MapQueue = <<>>
    BY DEF D!Init, MapOpen, MapQueue
  <2> QED
    BY <2>1 DEF Promise, Past, Ordered
<1>2. I /\ [D!Next]_(D!vars) => I'
  <2> SUFFICES ASSUME I, [D!Next]_(D!vars) PROVE I'
    OBVIOUS
  <2>1. Cycle \in Nat
    BY ClockAssumption DEF Cycle
  <2>2. CASE D!Next
    BY <2>1, <2>2, DeliveryMoves, PromiseStep
  <2>3. CASE UNCHANGED D!vars
    <3>1. B' = B /\ MapOpen' = MapOpen /\ MapQueue' = MapQueue
      BY <2>3 DEF D!vars, MapOpen, MapQueue
    <3> QED
      BY <3>1
  <2> QED
    BY <2>2, <2>3
<1>3. I => D!InOrder
  BY DEF Promise, Ordered, D!InOrder, MapOpen, MapQueue
<1> QED
  BY <1>1, <1>2, <1>3, PTL DEF D!Spec

\* The pipeline does: the windows of a stream reach decode_task in the order of
\* their cycles, however long it leaves them waiting (main.rs:304-506).
THEOREM InOrderCorrect == ASSUME CaptureFits PROVE Spec => []D!InOrder
BY ImplementsDeliveryCorrect, PromiseKeepsOrder, PTL DEF ImplementsDelivery
=============================================================================
