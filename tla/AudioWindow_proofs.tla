------------------------- MODULE AudioWindow_proofs -------------------------
(***************************************************************************)
(* Facts about the operators of AudioWindow, for every value of the        *)
(* constants.  Capture_proofs rests on them.                               *)
(***************************************************************************)
EXTENDS AudioWindow, TLAPS, SequenceTheorems

\* Lesser, Greater and Elapsed stay among the naturals.
LEMMA OrderType ==
  ASSUME NEW a \in Int, NEW b \in Int
  PROVE  /\ Lesser(a, b) \in {a, b} /\ Lesser(a, b) <= a /\ Lesser(a, b) <= b
         /\ Greater(a, b) \in {a, b} /\ Greater(a, b) >= a /\ Greater(a, b) >= b
         /\ Elapsed(a, b) \in Nat
BY DEF Lesser, Greater, Elapsed

\* Division of a natural by a positive natural, as the code's integer division.
LEMMA Quotient ==
  ASSUME NEW a \in Nat, NEW b \in Nat \ {0}
  PROVE  /\ a \div b \in Nat
         /\ (a \div b) * b <= a
         /\ a < (a \div b) * b + b
OBVIOUS

\* A function on 1 .. n is a sequence of length n.
LEMMA FunctionIsSeq ==
  ASSUME NEW S, NEW n \in Nat, NEW f \in [1 .. n -> S]
  PROVE  f \in Seq(S) /\ Len(f) = n
<1>1. f \in Seq(S)
  BY SeqDef
<1>2. Len(f) \in Nat /\ DOMAIN f = 1 .. Len(f)
  BY <1>1, LenProperties
<1>3. 1 .. Len(f) = 1 .. n
  BY <1>2
<1> QED
  BY <1>1, <1>2, <1>3

\* A new window is well formed and full of silence.
LEMMA NewWindowType ==
  ASSUME NEW start \in Nat, NEW freq \in Nat, NEW rate \in Nat,
         NEW capture \in Nat
  PROVE  WellFormed(NewWindow(start, freq, rate, capture))
<1> DEFINE w == NewWindow(start, freq, rate, capture)
           n == rate * capture
<1>1. n \in Nat
  OBVIOUS
<1>2. /\ w.samples = [i \in 1 .. n |-> Silence]
      /\ w.capacity_samples = n
      /\ w.samples_written = 0
  BY DEF NewWindow
<1> HIDE DEF n
<1>3. w.samples \in Seq(Int \cup {Silence}) /\ Len(w.samples) = n
  <2>1. [i \in 1 .. n |-> Silence] \in [1 .. n -> Int \cup {Silence}]
    OBVIOUS
  <2> QED
    BY <1>1, <1>2, <2>1, FunctionIsSeq
<1>4. w \in Window
  BY <1>1, <1>3 DEF NewWindow, Window, n
<1> QED
  BY <1>1, <1>2, <1>3, <1>4 DEF WellFormed

\* The first packet is put inside the buffer, wherever the clock stands.
LEMMA WallOffsetType ==
  ASSUME NEW w \in Window, NEW rate \in Nat, NEW now \in Nat
  PROVE  WallOffset(w, rate, now) \in Nat
<1>1. Elapsed(now, w.window_start) \in Nat
  BY DEF Window, Elapsed, Greater
<1>2. Elapsed(now, w.window_start) * rate \in Nat
  BY <1>1
<1>3. (Elapsed(now, w.window_start) * rate) \div Second \in Nat
  BY <1>2, Quotient, ClockAssumption
<1>4. Greater(w.capacity_samples - 1, 0) \in Nat
  BY DEF Window, Greater
<1> QED
  BY <1>3, <1>4 DEF WallOffset, Lesser

\* Tracking a sequence number and anchoring keep a window well formed, and
\* leave it anchored.
LEMMA AnchorType ==
  ASSUME NEW w, WellFormed(w), NEW seq \in SeqNumber, NEW ts \in RtpTimestamp,
         NEW rate \in Nat, NEW now \in Nat
  PROVE  WellFormed(Anchor(TrackSeq(w, seq), ts, rate, now))
<1> DEFINE t == TrackSeq(w, seq)
           a == Anchor(t, ts, rate, now)
<1>1. WellFormed(t)
  <2>1. w \in Window
    BY DEF WellFormed
  <2> DEFINE g == IF IsGap(w, seq) THEN w.gap_count + 1 ELSE w.gap_count
  <2>2. g \in Nat
    BY <2>1 DEF Window
  <2>3. t = [w EXCEPT !.last_seq = seq, !.gap_count = g]
    BY DEF TrackSeq
  <2> HIDE DEF g
  <2>4. t \in Window
    BY <2>1, <2>2, <2>3 DEF Window
  <2>5. /\ t.samples = w.samples
        /\ t.samples_written = w.samples_written
        /\ t.capacity_samples = w.capacity_samples
    BY <2>1, <2>3 DEF Window
  <2> QED
    BY <2>4, <2>5 DEF WellFormed
<1> HIDE DEF t
<1>2. CASE t.rtp_base # None
  <2>1. a = t
    BY <1>2 DEF Anchor
  <2> QED
    BY <1>1, <2>1 DEF t
<1>3. CASE t.rtp_base = None
  <2>1. WallOffset(t, rate, now) \in Nat
    BY <1>1, WallOffsetType DEF WellFormed
  <2>2. a = [t EXCEPT !.rtp_base = ts, !.start_offset = WallOffset(t, rate, now)]
    BY <1>3 DEF Anchor
  <2> HIDE DEF a
  <2>3. /\ a \in Window
        /\ a.samples = t.samples
        /\ a.samples_written = t.samples_written
        /\ a.capacity_samples = t.capacity_samples
    BY <1>1, <2>1, <2>2 DEF WellFormed, Window
  <2>4. WellFormed(a)
    BY <1>1, <2>3 DEF WellFormed
  <2> QED
    BY <2>4 DEF t, a
<1> QED
  BY <1>2, <1>3

\* Writing a payload that fits keeps a window well formed.
LEMMA WriteType ==
  ASSUME NEW w, WellFormed(w), NEW offset \in Nat, NEW payload \in Seq(Int),
         NEW encoding, offset + Len(payload) <= w.capacity_samples
  PROVE  WellFormed(Write(w, offset, payload, encoding))
<1> DEFINE v == Write(w, offset, payload, encoding)
           end == offset + Len(payload)
           S == Int \cup {Silence}
           n == Len(w.samples)
           f == [i \in 1 .. n |-> IF offset < i /\ i <= end
                                  THEN DecodeSample(payload[i - offset], encoding)
                                  ELSE w.samples[i]]
<1>1. /\ w \in Window /\ n \in Nat /\ end \in Nat /\ Len(payload) \in Nat
      /\ w.samples \in Seq(S)
  BY LenProperties DEF WellFormed, Window
<1>2. v = [w EXCEPT !.samples = f,
                    !.samples_written = Greater(w.samples_written, end)]
  BY DEF Write
<1>3. ASSUME NEW i \in 1 .. n PROVE f[i] \in S
  <2>1. CASE offset < i /\ i <= end
    <3>1. i - offset \in 1 .. Len(payload)
      BY <1>1, <2>1
    <3>2. payload[i - offset] \in Int
      BY <3>1, ElementOfSeq
    <3> QED
      BY <2>1, <3>2 DEF DecodeSample, ByteSwap
  <2>2. CASE ~(offset < i /\ i <= end)
    BY <1>1, <2>2, ElementOfSeq
  <2> QED
    BY <2>1, <2>2
<1>4. f \in Seq(S) /\ Len(f) = n
  <2> HIDE DEF S, end
  <2>1. f \in [1 .. n -> S]
    BY <1>3
  <2> HIDE DEF f
  <2> QED
    BY <1>1, <2>1, FunctionIsSeq
<1> HIDE DEF f, end, n
<1>5. /\ v.samples = f
      /\ v.samples_written = Greater(w.samples_written, end)
      /\ v.capacity_samples = w.capacity_samples
      /\ Greater(w.samples_written, end) \in Nat
      /\ Greater(w.samples_written, end) <= w.capacity_samples
  BY <1>1, <1>2 DEF WellFormed, Window, Greater, end
<1>6. v \in Window
  BY <1>1, <1>2, <1>4, <1>5 DEF Window
<1> QED
  BY <1>4, <1>5, <1>6 DEF WellFormed, n

-----------------------------------------------------------------------------
\* Once anchored, a window has a base timestamp.
LEMMA AnchorBase ==
  ASSUME NEW w, WellFormed(w), NEW seq \in SeqNumber, NEW ts \in RtpTimestamp,
         NEW rate \in Nat, NEW now \in Nat
  PROVE  Anchor(TrackSeq(w, seq), ts, rate, now).rtp_base \in RtpTimestamp
<1> DEFINE t == TrackSeq(w, seq)
<1>1. w \in Window
  BY DEF WellFormed
<1>2. t \in [DOMAIN w -> {t[x] : x \in DOMAIN w}] /\ t.rtp_base = w.rtp_base
  BY <1>1 DEF TrackSeq, Window
<1>3. w.rtp_base \in RtpTimestamp \cup {None}
  BY <1>1 DEF Window
<1>4. DOMAIN t = DOMAIN w /\ "rtp_base" \in DOMAIN w
  BY <1>1, <1>2 DEF Window
<1> HIDE DEF t
<1>5. CASE t.rtp_base # None
  BY <1>2, <1>3, <1>5 DEF Anchor, t
<1>6. CASE t.rtp_base = None
  <2>1. Anchor(t, ts, rate, now)
          = [t EXCEPT !.rtp_base = ts, !.start_offset = WallOffset(t, rate, now)]
    BY <1>6 DEF Anchor
  <2> QED
    BY <1>4, <2>1 DEF t
<1> QED
  BY <1>5, <1>6

\* Ingesting a packet never moves a window to another cycle.
LEMMA IngestKeepsStart ==
  ASSUME NEW w, WellFormed(w), NEW rtp, NEW rate, NEW encoding, NEW now
  PROVE  Ingest(w, rtp, rate, encoding, now).window.window_start = w.window_start
<1> DEFINE t == TrackSeq(w, rtp.sequence)
           a == Anchor(t, rtp.timestamp, rate, now)
           offset == a.start_offset + Delta(a.rtp_base, rtp.timestamp)
<1>1. w \in Window
  BY DEF WellFormed
<1>2. DOMAIN t = DOMAIN w /\ t.window_start = w.window_start
  BY <1>1 DEF TrackSeq, Window
<1> HIDE DEF t
<1>3. DOMAIN a = DOMAIN w /\ a.window_start = w.window_start
  BY <1>1, <1>2 DEF Anchor, Window
<1> HIDE DEF a, offset
<1>4. Write(a, offset, rtp.payload, encoding).window_start = w.window_start
  BY <1>1, <1>3 DEF Write, Window
<1> QED
  BY <1>3, <1>4 DEF Ingest, offset, a, t

\* The displacement of two timestamps is an integer.
LEMMA DeltaType ==
  ASSUME NEW base \in RtpTimestamp, NEW ts \in RtpTimestamp
  PROVE  Delta(base, ts) \in Int
BY WrapAssumption DEF Delta, RtpTimestamp

\* Whatever the packet, ingest leaves the window well formed: no write is out
\* of bounds, and the length of the buffer never changes.
THEOREM IngestType ==
  ASSUME NEW w, WellFormed(w), NEW Ssrcs, NEW rtp \in RtpPacket(Ssrcs),
         NEW rate \in Nat, NEW encoding, NEW now \in Nat
  PROVE  WellFormed(Ingest(w, rtp, rate, encoding, now).window)
<1> DEFINE a == Anchor(TrackSeq(w, rtp.sequence), rtp.timestamp, rate, now)
           delta == Delta(a.rtp_base, rtp.timestamp)
           offset == a.start_offset + delta
           early == delta < 0
           full == offset + Len(rtp.payload) > a.capacity_samples
           r == Ingest(w, rtp, rate, encoding, now)
<1>1. /\ rtp.sequence \in SeqNumber /\ rtp.timestamp \in RtpTimestamp
      /\ rtp.payload \in Seq(Int)
  BY DEF RtpPacket
<1>2. WellFormed(a) /\ a.rtp_base \in RtpTimestamp
  BY <1>1, AnchorType, AnchorBase
<1>3. r.window = IF early \/ full THEN a
                 ELSE Write(a, offset, rtp.payload, encoding)
  BY DEF Ingest
<1> HIDE DEF a, r
<1>4. delta \in Int /\ a.start_offset \in Nat /\ a.capacity_samples \in Nat
  BY <1>1, <1>2, DeltaType DEF WellFormed, Window
<1>5. Len(rtp.payload) \in Nat
  BY <1>1, LenProperties
<1>6. CASE early \/ full
  BY <1>2, <1>3, <1>6 DEF r
<1>7. CASE ~(early \/ full)
  <2>1. offset \in Nat /\ offset + Len(rtp.payload) <= a.capacity_samples
    BY <1>4, <1>5, <1>7
  <2>2. WellFormed(Write(a, offset, rtp.payload, encoding))
    BY <1>1, <1>2, <2>1, WriteType
  <2> QED
    BY <1>3, <1>7, <2>2 DEF r
<1> QED
  BY <1>6, <1>7

-----------------------------------------------------------------------------
\* A packet less than half the range after the anchor is placed exactly there,
\* wherever the 32-bit timestamp wraps in between.
THEOREM ForwardDeltaExact ==
  ASSUME NEW base \in RtpTimestamp, NEW d \in Nat, 2 * d < RtpWrap
  PROVE  Delta(base, (base + d) % RtpWrap) = d
<1>1. RtpWrap \in Nat \ {0} /\ 2 * (RtpWrap \div 2) = RtpWrap
  BY WrapAssumption
<1>2. CASE base + d < RtpWrap
  <2>1. (base + d) % RtpWrap = base + d
    BY <1>1, <1>2 DEF RtpTimestamp
  <2> QED
    BY <1>1, <2>1 DEF Delta, RtpTimestamp
<1>3. CASE base + d >= RtpWrap
  <2>1. (base + d) % RtpWrap = base + d - RtpWrap
    BY <1>1, <1>3 DEF RtpTimestamp
  <2> QED
    BY <1>1, <2>1 DEF Delta, RtpTimestamp
<1> QED
  BY <1>1, <1>2, <1>3 DEF RtpTimestamp

\* A packet at most half the range before the anchor is seen as early only when
\* no wrap lies between the two; across a wrap it is seen far ahead.  This is
\* the asymmetry behind EarlyPacketDiscarded.
THEOREM BackwardDelta ==
  ASSUME NEW base \in RtpTimestamp, NEW d \in Nat \ {0}, 2 * d <= RtpWrap
  PROVE  Delta(base, (base - d) % RtpWrap) =
           IF d <= base THEN -d ELSE RtpWrap - d
<1>1. RtpWrap \in Nat \ {0} /\ 2 * (RtpWrap \div 2) = RtpWrap
  BY WrapAssumption
<1>2. CASE d <= base
  <2>1. (base - d) % RtpWrap = base - d
    BY <1>1, <1>2 DEF RtpTimestamp
  <2> QED
    BY <1>1, <1>2, <2>1 DEF Delta, RtpTimestamp
<1>3. CASE d > base
  <2>1. (base - d) % RtpWrap = base - d + RtpWrap
    BY <1>1, <1>3 DEF RtpTimestamp
  <2> QED
    BY <1>1, <1>3, <2>1 DEF Delta, RtpTimestamp
<1> QED
  BY <1>1, <1>2, <1>3 DEF RtpTimestamp

-----------------------------------------------------------------------------
\* Multiplication by a natural number is monotone.
LEMMA TimesMonotone ==
  ASSUME NEW a \in Int, NEW b \in Int, NEW c \in Nat, a <= b
  PROVE  a * c <= b * c
<1>1. (b - a) * c >= 0
  BY SMT
<1>2. (b - a) * c = b * c - a * c
  BY SMT
<1> QED
  BY <1>1, <1>2

\* now falls in the cycle that starts at its even-minute boundary.
LEMMA BoundaryBelow ==
  ASSUME NEW now \in Nat
  PROVE  /\ EvenMinuteBoundary(now) \in Nat
         /\ EvenMinuteBoundary(now) <= now
         /\ now < EvenMinuteBoundary(now) + Cycle
<1> DEFINE secs == now \div Second
           q == secs \div CycleSeconds
           m == q * CycleSeconds
<1>1. /\ secs \in Nat
      /\ secs * Second <= now /\ now < secs * Second + Second
  BY Quotient, ClockAssumption
<1>2. /\ q \in Nat /\ m <= secs /\ secs < m + CycleSeconds
  <2> HIDE DEF secs
  <2> QED
    BY <1>1, Quotient, ClockAssumption
<1>3. m \in Nat
  BY <1>2, ClockAssumption
<1>4. EvenMinuteBoundary(now) = m * Second
  BY DEF EvenMinuteBoundary
<1> HIDE DEF secs, q, m
<1>5. m * Second <= secs * Second
  BY <1>1, <1>2, <1>3, TimesMonotone, ClockAssumption
<1>6. (secs + 1) * Second <= (m + CycleSeconds) * Second
  BY <1>1, <1>2, <1>3, TimesMonotone, ClockAssumption
<1>7. /\ (secs + 1) * Second = secs * Second + Second
      /\ (m + CycleSeconds) * Second = m * Second + Cycle
      /\ m * Second \in Nat /\ secs * Second \in Nat /\ Cycle \in Nat
  BY <1>1, <1>3, ClockAssumption DEF Cycle
<1> QED
  BY <1>1, <1>4, <1>5, <1>6, <1>7, ClockAssumption

\* Two clock readings less than a cycle apart that start from the same boundary
\* are of the same cycle.
LEMMA BoundaryUnique ==
  ASSUME NEW opened \in Nat, NEW now \in Nat,
         EvenMinuteBoundary(opened) <= now,
         now < EvenMinuteBoundary(opened) + Cycle
  PROVE  EvenMinuteBoundary(now) = EvenMinuteBoundary(opened)
<1> DEFINE p == (opened \div Second) \div CycleSeconds
           q == (now \div Second) \div CycleSeconds
<1>1. p \in Nat /\ q \in Nat
  <2>1. opened \div Second \in Nat /\ now \div Second \in Nat
    BY Quotient, ClockAssumption
  <2> QED
    BY <2>1, Quotient, ClockAssumption
<1>2. Cycle \in Nat \ {0}
  BY ClockAssumption DEF Cycle
<1>3. /\ EvenMinuteBoundary(opened) = p * Cycle
      /\ EvenMinuteBoundary(now) = q * Cycle
  <2> HIDE DEF p, q
  <2>1. /\ (p * CycleSeconds) * Second = p * (CycleSeconds * Second)
        /\ (q * CycleSeconds) * Second = q * (CycleSeconds * Second)
    BY <1>1, ClockAssumption
  <2> QED
    BY <2>1 DEF EvenMinuteBoundary, Cycle, p, q
<1> HIDE DEF p, q
<1>4. /\ p * Cycle <= now /\ now < p * Cycle + Cycle
      /\ q * Cycle <= now /\ now < q * Cycle + Cycle
  BY <1>3, BoundaryBelow
<1>5. ~(p < q)
  <2> SUFFICES ASSUME p < q PROVE FALSE
    OBVIOUS
  <2>1. (p + 1) * Cycle <= q * Cycle
    BY <1>1, <1>2, TimesMonotone
  <2>2. (p + 1) * Cycle = p * Cycle + Cycle /\ p * Cycle \in Nat /\ q * Cycle \in Nat
    BY <1>1, <1>2
  <2> QED
    BY <1>2, <1>4, <2>1, <2>2
<1>6. ~(q < p)
  <2> SUFFICES ASSUME q < p PROVE FALSE
    OBVIOUS
  <2>1. (q + 1) * Cycle <= p * Cycle
    BY <1>1, <1>2, TimesMonotone
  <2>2. (q + 1) * Cycle = q * Cycle + Cycle /\ p * Cycle \in Nat /\ q * Cycle \in Nat
    BY <1>1, <1>2
  <2> QED
    BY <1>2, <1>4, <2>1, <2>2
<1>7. p = q
  BY <1>1, <1>5, <1>6
<1> QED
  BY <1>3, <1>7

-----------------------------------------------------------------------------
(* The fields that the steps of ingest change. *)

\* The gap counter and the anchor change these fields and no other.
LEMMA AnchorFields ==
  ASSUME NEW w, WellFormed(w), NEW seq, NEW ts, NEW rate, NEW t
  PROVE  LET v == Anchor(TrackSeq(w, seq), ts, rate, t)
         IN  /\ v.samples = w.samples /\ v.samples_written = w.samples_written
             /\ v.capacity_samples = w.capacity_samples
             /\ v.window_start = w.window_start
             /\ v.last_seq = seq
             /\ v.gap_count = IF IsGap(w, seq) THEN w.gap_count + 1 ELSE w.gap_count
             /\ v.rtp_base = IF w.rtp_base = None THEN ts ELSE w.rtp_base
             /\ v.start_offset = IF w.rtp_base = None THEN WallOffset(w, rate, t)
                                 ELSE w.start_offset
             /\ DOMAIN v = DOMAIN w
<1> DEFINE u == TrackSeq(w, seq)
           v == Anchor(u, ts, rate, t)
           off == WallOffset(u, rate, t)
<1>1. w \in Window
  BY DEF WellFormed
<1>2. /\ u.samples = w.samples /\ u.samples_written = w.samples_written
      /\ u.capacity_samples = w.capacity_samples
      /\ u.window_start = w.window_start /\ u.last_seq = seq
      /\ u.gap_count = IF IsGap(w, seq) THEN w.gap_count + 1 ELSE w.gap_count
      /\ u.rtp_base = w.rtp_base /\ u.start_offset = w.start_offset
      /\ DOMAIN u = DOMAIN w
  BY <1>1 DEF TrackSeq, Window
<1>3. off = WallOffset(w, rate, t)
  BY <1>2 DEF WallOffset
<1>4. /\ DOMAIN w = {"window_start", "center_freq_hz", "sample_rate_hz", "samples",
                     "samples_written", "capacity_samples", "last_seq", "gap_count",
                     "rtp_base", "start_offset"}
  BY <1>1 DEF Window
<1>5. v = IF u.rtp_base # None THEN u
          ELSE [u EXCEPT !.rtp_base = ts, !.start_offset = off]
  BY DEF Anchor
<1> HIDE DEF u, v, off
<1>6. CASE u.rtp_base # None
  BY <1>2, <1>5, <1>6 DEF u, v
<1>7. CASE u.rtp_base = None
  <2>1. v = [u EXCEPT !.rtp_base = ts, !.start_offset = off]
    BY <1>5, <1>7
  <2>2. /\ v.samples = u.samples /\ v.samples_written = u.samples_written
        /\ v.capacity_samples = u.capacity_samples
        /\ v.window_start = u.window_start /\ v.last_seq = u.last_seq
        /\ v.gap_count = u.gap_count
        /\ v.rtp_base = ts /\ v.start_offset = off
        /\ DOMAIN v = DOMAIN u
    BY <1>2, <1>4, <2>1
  <2> QED
    BY <1>2, <1>3, <1>7, <2>2 DEF u, v
<1> QED
  BY <1>6, <1>7

SameRest(v, w) ==
  /\ v.capacity_samples = w.capacity_samples
  /\ v.window_start = w.window_start /\ v.last_seq = w.last_seq
  /\ v.gap_count = w.gap_count /\ v.rtp_base = w.rtp_base
  /\ v.start_offset = w.start_offset

\* Writing a payload changes the samples and the mark.
LEMMA WriteFields ==
  ASSUME NEW w, WellFormed(w), NEW offset, NEW payload
  PROVE  LET v == Write(w, offset, payload, ENC_S16BE)
         IN  /\ v.samples = [i \in 1 .. Len(w.samples) |->
                               IF offset < i /\ i <= offset + Len(payload)
                               THEN payload[i - offset] ELSE w.samples[i]]
             /\ v.samples_written = Greater(w.samples_written, offset + Len(payload))
             /\ SameRest(v, w)
<1>1. \A x : DecodeSample(x, ENC_S16BE) = x
  BY DEF DecodeSample
<1>2. DOMAIN w = {"window_start", "center_freq_hz", "sample_rate_hz", "samples",
                  "samples_written", "capacity_samples", "last_seq", "gap_count",
                  "rtp_base", "start_offset"}
  BY DEF WellFormed, Window
<1> DEFINE f == [i \in 1 .. Len(w.samples) |->
                   IF offset < i /\ i <= offset + Len(payload)
                   THEN payload[i - offset] ELSE w.samples[i]]
           g == [i \in 1 .. Len(w.samples) |->
                   IF offset < i /\ i <= offset + Len(payload)
                   THEN DecodeSample(payload[i - offset], ENC_S16BE) ELSE w.samples[i]]
           v == Write(w, offset, payload, ENC_S16BE)
           m == Greater(w.samples_written, offset + Len(payload))
<1>3. f = g
  BY <1>1
<1>4. v = [w EXCEPT !.samples = g, !.samples_written = m]
  BY DEF Write
<1> HIDE DEF f, g, v, m
<1>5. v.samples = g /\ v.samples_written = m /\ SameRest(v, w)
  BY <1>2, <1>4 DEF SameRest
<1> QED
  BY <1>3, <1>5 DEF f, v, m
=============================================================================
