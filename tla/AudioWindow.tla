---------------------------- MODULE AudioWindow ----------------------------
(***************************************************************************)
(* The audio buffer of one (SSRC, WSPR cycle): buffer.rs as pure           *)
(* operators.  WindowIngest and Capture are the state machines built on    *)
(* them.                                                                   *)
(*                                                                         *)
(* Time is a natural number of clock units since the Unix epoch, Second of *)
(* them to the second; a WSPR cycle is CycleSeconds long (120 in the code).*)
(* A PCM sample is an integer that names it; Silence is the zero that      *)
(* pre-fills the buffer, kept apart from every sample that was received.   *)
(***************************************************************************)
EXTENDS Integers, Sequences

CONSTANTS RtpWrap,        \* 2^32: RTP timestamps live in 0 .. RtpWrap - 1
          SeqWrap,        \* 2^16: RTP sequence numbers live in 0 .. SeqWrap - 1
          Second,         \* clock units in a second
          CycleSeconds,   \* 120: WSPR cycles start on even minutes
          None,           \* Rust's Option::None
          Silence         \* a sample that no packet has written

ASSUME WrapAssumption == /\ SeqWrap \in Nat \ {0}
                         /\ RtpWrap \in Nat \ {0}
                         /\ RtpWrap % 2 = 0

ASSUME ClockAssumption == /\ Second \in Nat \ {0}
                          /\ CycleSeconds \in Nat \ {0}

Cycle == CycleSeconds * Second

\* status.rs: the value the status stream uses for big-endian PCM; 0 is what
\* ChannelInfo::default() leaves there until an encoding is reported.
ENC_S16BE == 2
ENC_UNKNOWN == 0

-----------------------------------------------------------------------------
Lesser(a, b) == IF a <= b THEN a ELSE b
Greater(a, b) == IF a >= b THEN a ELSE b

\* now.duration_since(start).unwrap_or(Duration::ZERO)
Elapsed(now, start) == Greater(now - start, 0)

\* The start of the cycle that now falls in, computed on whole seconds.
EvenMinuteBoundary(now) ==
  ((now \div Second) \div CycleSeconds) * CycleSeconds * Second

-----------------------------------------------------------------------------
RtpTimestamp == 0 .. RtpWrap - 1
SeqNumber == 0 .. SeqWrap - 1

\* A parsed RTP packet of stream ssrc; payload holds its decoded samples.
RtpPacket(Ssrcs) == [ssrc: Ssrcs, sequence: SeqNumber,
                     timestamp: RtpTimestamp, payload: Seq(Int)]

\* struct AudioWindow.  samples[i + 1] is the code's samples[i].
Window == [window_start: Nat, center_freq_hz: Nat, sample_rate_hz: Nat,
           samples: Seq(Int \cup {Silence}), samples_written: Nat,
           capacity_samples: Nat, last_seq: SeqNumber \cup {None},
           gap_count: Nat, rtp_base: RtpTimestamp \cup {None},
           start_offset: Nat]

ASSUME NoneAssumption == None \notin Window /\ None \notin Nat
ASSUME SilenceAssumption == Silence \notin Int

\* What every AudioWindow satisfies: the buffer has the capacity it was given,
\* and the high-water mark is inside it.
WellFormed(w) == /\ w \in Window
                 /\ Len(w.samples) = w.capacity_samples
                 /\ w.samples_written <= w.capacity_samples

\* AudioWindow::new: a buffer of silence for capture_seconds of audio.
NewWindow(window_start, freq, rate, capture_seconds) ==
  [window_start     |-> window_start,
   center_freq_hz   |-> freq,
   sample_rate_hz   |-> rate,
   samples          |-> [i \in 1 .. rate * capture_seconds |-> Silence],
   samples_written  |-> 0,
   capacity_samples |-> rate * capture_seconds,
   last_seq         |-> None,
   gap_count        |-> 0,
   rtp_base         |-> None,
   start_offset     |-> 0]

-----------------------------------------------------------------------------
(* The steps of AudioWindow::ingest, in the code's order. *)

IsGap_NoWrap(w, seq) ==  \* mutant: no wrap at SeqWrap
  w.last_seq # None /\ seq > w.last_seq + 1

IsGap(w, seq) == /\ w.last_seq # None
                 /\ seq # (w.last_seq + 1) % SeqWrap

\* Gap detection: it runs for every packet, the discarded ones included.
TrackSeq(w, seq) ==
  [w EXCEPT !.last_seq = seq,
            !.gap_count = IF IsGap(w, seq) THEN @ + 1 ELSE @]

WallOffset_Start(w, rate, now) == 0  \* mutant: every window starts at sample 0

\* Where the wall clock puts the first packet, kept inside the buffer.
WallOffset(w, rate, now) ==
  Lesser((Elapsed(now, w.window_start) * rate) \div Second,
         Greater(w.capacity_samples - 1, 0))

\* The first packet of a window ties the RTP clock to the wall clock.
Anchor(w, timestamp, rate, now) ==
  IF w.rtp_base # None THEN w
  ELSE [w EXCEPT !.rtp_base = timestamp,
                 !.start_offset = WallOffset(w, rate, now)]

Delta_NoWrap(base, timestamp) == timestamp - base  \* mutant: no wrap correction

Delta_AnyBackward(base, timestamp) ==  \* mutant: every jump back is a wrap
  (timestamp - base) % RtpWrap

\* Displacement of a timestamp from the anchor.  Only a jump back by more
\* than half the range is taken for a wrap; nothing corrects a jump forward.
Delta(base, timestamp) ==
  LET d == timestamp - base
  IN  IF d < -(RtpWrap \div 2) THEN d + RtpWrap ELSE d

\* Reading a sample in the wrong byte order.  Swapping is an involution; the
\* few samples whose two bytes are equal are not distinguished.
ByteSwap(v) == -1 - v

\* The source sends big-endian samples; any encoding but S16BE reads them as
\* little-endian.
DecodeSample(v, encoding) ==
  IF encoding = ENC_S16BE THEN v ELSE ByteSwap(v)

Write_Cursor(w, offset, payload, encoding) ==  \* mutant: the mark follows the packet
  [w EXCEPT !.samples = [i \in 1 .. Len(@) |->
                           IF i \in offset + 1 .. offset + Len(payload)
                           THEN DecodeSample(payload[i - offset], encoding)
                           ELSE @[i]],
            !.samples_written = offset + Len(payload)]

\* Copy a payload to samples[offset ..] and raise the high-water mark.
Write(w, offset, payload, encoding) ==
  LET end == offset + Len(payload)
  IN  [w EXCEPT
         !.samples = [i \in 1 .. Len(@) |->
                        IF offset < i /\ i <= end
                        THEN DecodeSample(payload[i - offset], encoding)
                        ELSE @[i]],
         !.samples_written = Greater(@, end)]

Ingest_OffsetOnly(w, rtp, rate, encoding, now) ==  \* mutant: offset > capacity
  LET a      == Anchor(TrackSeq(w, rtp.sequence), rtp.timestamp, rate, now)
      offset == a.start_offset + Delta(a.rtp_base, rtp.timestamp)
      full   == offset > a.capacity_samples
  IN  [window |-> IF offset < a.start_offset \/ full THEN a
                  ELSE Write(a, offset, rtp.payload, encoding),
       result |-> IF full THEN "BufferOverflow" ELSE "Ok"]

\* AudioWindow::ingest: the window it leaves and what it returns.  The anchor
\* itself has displacement 0, so one rule places first and later packets.
Ingest(w, rtp, rate, encoding, now) ==
  LET a      == Anchor(TrackSeq(w, rtp.sequence), rtp.timestamp, rate, now)
      delta  == Delta(a.rtp_base, rtp.timestamp)
      offset == a.start_offset + delta
      early  == delta < 0
      full   == offset + Len(rtp.payload) > a.capacity_samples
  IN  [window |-> IF early \/ full THEN a
                  ELSE Write(a, offset, rtp.payload, encoding),
       result |-> IF ~early /\ full THEN "BufferOverflow" ELSE "Ok"]
=============================================================================
