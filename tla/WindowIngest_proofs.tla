------------------------ MODULE WindowIngest_proofs ------------------------
(***************************************************************************)
(* Proofs about WindowIngest for any capture length, rate, packet size,    *)
(* transit time and counter width that the assumptions allow.              *)
(***************************************************************************)
EXTENDS WindowIngest, AudioWindow_proofs

-----------------------------------------------------------------------------
(* Arithmetic of counters that wrap. *)

\* A natural is its quotient times the divisor, and the remainder.
LEMMA Remainder ==
  ASSUME NEW x \in Nat, NEW w \in Nat \ {0}
  PROVE  /\ x % w \in 0 .. w - 1
         /\ x = (x \div w) * w + (x % w) /\ x \div w \in Nat
<1> DEFINE q == x \div w
           r == x % w
<1>1. r \in 0 .. w - 1 /\ q \in Nat
  OBVIOUS
<1>2. r = x - w * q
  BY Z3
<1> HIDE DEF q, r
<1>3. x = q * w + r
  <2>1. w * q = q * w /\ w * q \in Int /\ r \in Int
    BY <1>1
  <2> QED
    BY <1>2, <2>1
<1> QED
  BY <1>1, <1>3 DEF q, r

\* The remainder of a number is the only one of its class below w.
LEMMA RemainderUnique ==
  ASSUME NEW w \in Nat \ {0}, NEW r \in 0 .. w - 1, NEW s \in 0 .. w - 1,
         NEW p \in Int, NEW q \in Int, p * w + r = q * w + s
  PROVE  p = q /\ r = s
<1>1. r - s = (q - p) * w
  OBVIOUS
<1>2. ~ (p < q)
  <2> SUFFICES ASSUME p < q PROVE FALSE
    OBVIOUS
  <2>1. 1 * w <= (q - p) * w
    BY TimesMonotone
  <2> QED
    BY <1>1, <2>1
<1>3. ~ (q < p)
  <2> SUFFICES ASSUME q < p PROVE FALSE
    OBVIOUS
  <2>1. 1 * w <= (p - q) * w /\ (p - q) * w = 0 - (q - p) * w
    BY TimesMonotone
  <2> QED
    BY <1>1, <2>1
<1> QED
  BY <1>2, <1>3

\* Numbers with the same remainder lie multiples of w apart.
LEMMA SameRemainder ==
  ASSUME NEW w \in Nat \ {0}, NEW x \in Nat, NEW y \in Nat
  PROVE  x % w = y % w <=> \E j \in Int : y = x + j * w
<1>1. ASSUME x % w = y % w PROVE \E j \in Int : y = x + j * w
  <2> DEFINE j == (y \div w) - (x \div w)
  <2>1. j \in Int /\ y = x + j * w
    BY <1>1, Remainder
  <2> HIDE DEF j
  <2> QED
    BY <2>1
<1>2. ASSUME NEW j \in Int, y = x + j * w PROVE x % w = y % w
  <2> DEFINE p == x \div w
             q == y \div w
             r == x % w
             s == y % w
  <2>1. /\ p \in Int /\ q \in Int /\ r \in 0 .. w - 1 /\ s \in 0 .. w - 1
        /\ x = p * w + r /\ y = q * w + s
    BY Remainder
  <2> HIDE DEF p, q, r, s
  <2>2. (p + j) * w + r = q * w + s
    BY <1>2, <2>1
  <2>3. p + j \in Int
    BY <2>1
  <2>4. r = s
    BY <2>1, <2>2, <2>3, RemainderUnique
  <2> QED
    BY <2>4 DEF r, s
<1> QED
  BY <1>1, <1>2

\* A displacement may be taken before or after the wrap.
LEMMA WrapShift ==
  ASSUME NEW w \in Nat \ {0}, NEW x \in Nat, NEW d \in Nat
  PROVE  ((x % w) + d) % w = (x + d) % w
<1> DEFINE q == x \div w
           r == x % w
<1>1. q \in Nat /\ r \in Nat /\ x = q * w + r
  BY Remainder
<1> HIDE DEF q, r
<1>2. x + d = (r + d) + q * w
  BY <1>1
<1>3. (r + d) % w = (x + d) % w
  <2>1. \E j \in Int : x + d = (r + d) + j * w
    BY <1>1, <1>2
  <2>2. r + d \in Nat /\ x + d \in Nat
    BY <1>1
  <2> QED
    BY <2>1, <2>2, SameRemainder
<1> QED
  BY <1>3 DEF r

-----------------------------------------------------------------------------
(* The timestamps of two packets. *)

\* A packet ahead of the anchor by less than the range is placed exactly, or
\* taken for an early one if it is half the range ahead.
LEMMA DeltaAhead ==
  ASSUME NEW base \in RtpTimestamp, NEW d \in Nat, d < RtpWrap
  PROVE  LET delta == Delta(base, (base + d) % RtpWrap)
         IN  delta = d \/ (delta < 0 /\ 2 * d >= RtpWrap)
<1>1. RtpWrap \in Nat \ {0} /\ 2 * (RtpWrap \div 2) = RtpWrap
  BY WrapAssumption
<1>2. CASE 2 * d < RtpWrap
  BY <1>2, ForwardDeltaExact
<1>3. CASE 2 * d >= RtpWrap /\ base + d < RtpWrap
  <2>1. (base + d) % RtpWrap = base + d
    BY <1>1, <1>3 DEF RtpTimestamp
  <2> QED
    BY <1>1, <1>3, <2>1 DEF Delta, RtpTimestamp
<1>4. CASE 2 * d >= RtpWrap /\ base + d >= RtpWrap
  <2>1. (base + d) % RtpWrap = base + d - RtpWrap
    BY <1>1, <1>4 DEF RtpTimestamp
  <2> QED
    BY <1>1, <1>4, <2>1 DEF Delta, RtpTimestamp
<1> QED
  BY <1>1, <1>2, <1>3, <1>4 DEF RtpTimestamp

\* A packet behind the anchor is early, or far ahead if the clock has wrapped
\* between the two.
LEMMA DeltaBehind ==
  ASSUME NEW ts \in RtpTimestamp, NEW d \in Nat \ {0}, 2 * d < RtpWrap
  PROVE  LET base == (ts + d) % RtpWrap
         IN  \/ Delta(base, ts) = -d
             \/ Delta(base, ts) = RtpWrap - d /\ ts > base
<1>1. RtpWrap \in Nat \ {0} /\ 2 * (RtpWrap \div 2) = RtpWrap
  BY WrapAssumption
<1>2. CASE ts + d < RtpWrap
  <2>1. (ts + d) % RtpWrap = ts + d
    BY <1>1, <1>2 DEF RtpTimestamp
  <2> QED
    BY <1>1, <1>2, <2>1 DEF Delta, RtpTimestamp
<1>3. CASE ts + d >= RtpWrap
  <2>1. (ts + d) % RtpWrap = ts + d - RtpWrap
    BY <1>1, <1>3 DEF RtpTimestamp
  <2> QED
    BY <1>1, <1>3, <2>1 DEF Delta, RtpTimestamp
<1> QED
  BY <1>1, <1>2, <1>3 DEF RtpTimestamp

Stamp(e, k) == (e + k * PacketSamples) % RtpWrap

\* The timestamps of two packets lie as far apart as their samples, modulo the
\* RTP range.
LEMMA StampShift ==
  ASSUME NEW e \in RtpTimestamp, NEW a \in Nat, NEW k \in Nat, a <= k
  PROVE  /\ Stamp(e, a) \in RtpTimestamp /\ Stamp(e, k) \in RtpTimestamp
         /\ (k - a) * PacketSamples \in Nat
         /\ Stamp(e, k) = (Stamp(e, a) + (k - a) * PacketSamples) % RtpWrap
<1>1. RtpWrap \in Nat \ {0} /\ PacketSamples \in Nat /\ e \in Nat
  BY WrapAssumption, StreamAssumption DEF RtpTimestamp
<1> DEFINE x == e + a * PacketSamples
           d == (k - a) * PacketSamples
<1>2. x \in Nat /\ d \in Nat /\ e + k * PacketSamples \in Nat
      /\ e + k * PacketSamples = x + d
  <2>1. /\ a * PacketSamples \in Nat /\ k * PacketSamples \in Nat
        /\ (k - a) * PacketSamples \in Nat
        /\ (k - a) * PacketSamples = k * PacketSamples - a * PacketSamples
    BY <1>1
  <2> QED
    BY <1>1, <2>1
<1> HIDE DEF x, d
<1>3. x % RtpWrap \in RtpTimestamp /\ (x + d) % RtpWrap \in RtpTimestamp
  <2>1. x + d \in Nat
    BY <1>2
  <2> QED
    BY <1>1, <1>2, <2>1, Remainder DEF RtpTimestamp
<1>4. ((x % RtpWrap) + d) % RtpWrap = (x + d) % RtpWrap
  BY <1>1, <1>2, WrapShift
<1> QED
  BY <1>2, <1>3, <1>4 DEF Stamp, x, d

-----------------------------------------------------------------------------
(* The times at which packets are sent and arrive. *)

\* SentAt rounds down the time at which the last sample of a packet is over.
LEMMA SentBounds ==
  ASSUME NEW k \in Nat
  PROVE  /\ SentAt(k) \in Nat
         /\ SentAt(k) * Rate <= (k + 1) * PacketSamples * Second
         /\ (k + 1) * PacketSamples * Second < SentAt(k) * Rate + Rate
<1> DEFINE n == (k + 1) * PacketSamples * Second
<1>1. n \in Nat /\ Rate \in Nat \ {0}
  <2>1. (k + 1) * PacketSamples \in Nat
    BY StreamAssumption
  <2> QED
    BY <2>1, StreamAssumption, ClockAssumption
<1> HIDE DEF n
<1>2. /\ n \div Rate \in Nat /\ (n \div Rate) * Rate <= n
      /\ n < (n \div Rate) * Rate + Rate
  BY <1>1, Quotient
<1> QED
  BY <1>2 DEF SentAt, n

\* A packet that arrives when another one has been sent is not far behind it.
LEMMA InFlight ==
  ASSUME NEW a \in Nat, NEW k \in Nat, NEW t \in Nat,
         SentAt(a) <= t, t <= SentAt(k) + MaxLatency
  PROVE  (a - k) * PacketSamples * Second < (MaxLatency + 1) * Rate
<1> DEFINE u == PacketSamples * Second
<1>1. u \in Nat /\ Rate \in Nat /\ MaxLatency \in Nat
  BY StreamAssumption, ClockAssumption
<1>2. /\ (a + 1) * PacketSamples * Second = (a + 1) * u
      /\ (k + 1) * PacketSamples * Second = (k + 1) * u
      /\ (a - k) * PacketSamples * Second = (a - k) * u
  BY StreamAssumption, ClockAssumption
<1> HIDE DEF u
<1>3. /\ SentAt(a) \in Nat /\ SentAt(k) \in Nat
      /\ (a + 1) * u < SentAt(a) * Rate + Rate
      /\ SentAt(k) * Rate <= (k + 1) * u
  BY <1>2, SentBounds
<1>4. SentAt(a) * Rate <= (SentAt(k) + MaxLatency) * Rate
  BY <1>1, <1>3, TimesMonotone
<1>5. /\ (SentAt(k) + MaxLatency) * Rate = SentAt(k) * Rate + MaxLatency * Rate
      /\ (MaxLatency + 1) * Rate = MaxLatency * Rate + Rate
      /\ (a - k) * u = (a + 1) * u - (k + 1) * u
      /\ SentAt(a) * Rate \in Int /\ SentAt(k) * Rate \in Int
      /\ MaxLatency * Rate \in Int /\ (a + 1) * u \in Int /\ (k + 1) * u \in Int
  BY <1>1, <1>3
<1> QED
  BY <1>1, <1>2, <1>3, <1>4, <1>5

\* Then less than half the RTP range lies between the two.
LEMMA BehindInRange ==
  ASSUME NEW a \in Nat, NEW k \in Nat, k < a,
         (a - k) * PacketSamples * Second < (MaxLatency + 1) * Rate
  PROVE  /\ (a - k) * PacketSamples \in Nat \ {0}
         /\ 2 * ((a - k) * PacketSamples) < RtpWrap
         /\ RtpWrap - (a - k) * PacketSamples > Rate * CaptureSeconds
<1> DEFINE d == (a - k) * PacketSamples
           m == MaxLatency * Rate
           q == m \div Second
<1>1. /\ Rate \in Nat \ {0} /\ Second \in Nat \ {0} /\ MaxLatency \in Nat
      /\ CaptureSeconds \in Nat \ {0} /\ PacketSamples \in Nat \ {0}
  BY StreamAssumption, ClockAssumption
<1>2. d \in Nat \ {0}
  <2>1. a - k \in Nat /\ 1 <= a - k
    OBVIOUS
  <2>2. 1 * PacketSamples <= (a - k) * PacketSamples
    BY <1>1, <2>1, TimesMonotone
  <2> QED
    BY <1>1, <2>1, <2>2
<1>3. m \in Nat /\ (MaxLatency + 1) * Rate = m + Rate
  BY <1>1
<1>4. d * Second < m + Rate
  BY <1>3
<1> HIDE DEF d, m
<1>5. q \in Nat /\ m < q * Second + Second
  BY <1>1, <1>3, Quotient
<1>6. RtpWrap > 2 * (Rate * CaptureSeconds + q)
  BY RangeIsWide DEF q, m
<1> HIDE DEF q
<1>7. d <= q + Rate
  <2> SUFFICES ASSUME d >= q + Rate + 1 PROVE FALSE
    BY <1>1, <1>2, <1>5
  <2>1. (q + Rate + 1) * Second <= d * Second
    BY <1>1, <1>2, <1>5, TimesMonotone
  <2>2. /\ (q + Rate + 1) * Second = q * Second + Second + Rate * Second
        /\ q * Second \in Nat /\ d * Second \in Nat /\ Rate * Second \in Nat
    BY <1>1, <1>2, <1>5
  <2>3. Rate <= Rate * Second
    <3>1. 1 * Rate <= Second * Rate
      BY <1>1, TimesMonotone
    <3> QED
      BY <1>1, <3>1
  <2> QED
    BY <1>1, <1>3, <1>4, <1>5, <2>1, <2>2, <2>3
<1>8. Rate <= Rate * CaptureSeconds /\ Rate * CaptureSeconds \in Nat
  <2>1. 1 * Rate <= CaptureSeconds * Rate
    BY <1>1, TimesMonotone
  <2> QED
    BY <1>1, <2>1
<1> DEFINE c == Rate * CaptureSeconds
<1>9. 2 * d < RtpWrap /\ RtpWrap - d > c
  <2> HIDE DEF c
  <2>1. RtpWrap > 2 * (c + q) /\ Rate <= c /\ c \in Nat /\ RtpWrap \in Nat
    BY <1>6, <1>8, WrapAssumption DEF c
  <2> QED
    BY <1>1, <1>2, <1>5, <1>7, <2>1
<1> QED
  BY <1>2, <1>9 DEF d, c

\* The numbers of the packets stay within the RTP range.
LEMMA PacketInRange ==
  ASSUME NEW k \in Packets
  PROVE  k \in Nat /\ k * PacketSamples \in Nat /\ k * PacketSamples < RtpWrap
<1> DEFINE m == MaxNow * Rate
           u == PacketSamples * Second
           n == k * PacketSamples
           q == m \div Second
<1>1. /\ m \in Nat /\ u \in Nat \ {0} /\ Second \in Nat \ {0} /\ PacketSamples \in Nat \ {0}
      /\ MaxNow \in Nat
  <2>1. 1 * Second <= PacketSamples * Second
    BY StreamAssumption, ClockAssumption, TimesMonotone
  <2> QED
    BY <2>1, StreamAssumption, ClockAssumption
<1> HIDE DEF m, u
<1>2. k \in 0 .. m \div u
  BY DEF Packets, m, u
<1>3. m \div u \in Nat /\ (m \div u) * u <= m
  BY <1>1, Quotient
<1>4. k \in Nat /\ k * u <= m
  <2>1. k \in Nat /\ k <= m \div u
    BY <1>2, <1>3
  <2>2. k * u <= (m \div u) * u
    BY <1>1, <1>3, <2>1, TimesMonotone
  <2>3. k * u \in Int /\ (m \div u) * u \in Int
    BY <1>1, <1>3, <2>1
  <2> QED
    BY <1>1, <1>3, <2>1, <2>2, <2>3
<1>5. n \in Nat /\ k * u = n * Second
  BY <1>1, <1>4 DEF u
<1> HIDE DEF n
<1>6. q \in Nat /\ m < q * Second + Second
  BY <1>1, Quotient
<1>7. RtpWrap > q
  BY RangeIsWide DEF q, m
<1> HIDE DEF q
<1>8. n <= q
  <2> SUFFICES ASSUME n >= q + 1 PROVE FALSE
    BY <1>5, <1>6
  <2>1. (q + 1) * Second <= n * Second
    BY <1>1, <1>5, <1>6, TimesMonotone
  <2>2. (q + 1) * Second = q * Second + Second /\ q * Second \in Nat /\ n * Second \in Nat
    BY <1>1, <1>5, <1>6
  <2> QED
    BY <1>1, <1>4, <1>5, <1>6, <2>1, <2>2
<1> QED
  BY <1>4, <1>5, <1>6, <1>7, <1>8, WrapAssumption DEF n

-----------------------------------------------------------------------------
(* Where packet k belongs when packet a was put at sample s. *)

Cap == Rate * CaptureSeconds
Pos(s, a, k) == s + (k - a) * PacketSamples
FitsAt(s, a, k) == k >= a /\ Pos(s, a, k) + PacketSamples <= Cap

\* The offset that ingest computes is that place for a packet that fits, and a
\* packet that does not fit is never written.
LEMMA Placement ==
  ASSUME NEW e \in RtpTimestamp, NEW a \in Packets, NEW k \in Packets, NEW s \in Nat,
         (a - k) * PacketSamples * Second < (MaxLatency + 1) * Rate
  PROVE  LET delta == Delta(Stamp(e, a), Stamp(e, k))
             full == s + delta + PacketSamples > Cap
         IN  /\ delta \in Int
             /\ FitsAt(s, a, k) => delta >= 0 /\ s + delta = Pos(s, a, k) /\ ~full
             /\ ~FitsAt(s, a, k) => delta < 0 \/ full
             /\ delta >= 0 /\ full =>
                  \/ k >= a /\ Pos(s, a, k) + PacketSamples > Cap
                  \/ k < a /\ Stamp(e, k) > Stamp(e, a)
<1> DEFINE delta == Delta(Stamp(e, a), Stamp(e, k))
<1>1. /\ RtpWrap \in Nat \ {0} /\ PacketSamples \in Nat \ {0} /\ Cap \in Nat
      /\ a \in Nat /\ k \in Nat /\ a * PacketSamples \in Nat
      /\ k * PacketSamples \in Nat /\ k * PacketSamples < RtpWrap
  BY WrapAssumption, StreamAssumption, PacketInRange DEF Cap
<1>2. CASE a <= k
  <2> DEFINE d == (k - a) * PacketSamples
             b == Stamp(e, a)
  <2>1. /\ b \in RtpTimestamp /\ d \in Nat /\ Stamp(e, k) = (b + d) % RtpWrap
    BY <1>1, <1>2, StampShift
  <2>2. d < RtpWrap
    <3>1. d = k * PacketSamples - a * PacketSamples
      BY <1>1
    <3> QED
      BY <1>1, <3>1
  <2> HIDE DEF d, b
  <2>3. delta = d \/ (delta < 0 /\ 2 * d >= RtpWrap)
    <3>1. LET x == Delta(b, (b + d) % RtpWrap) IN x = d \/ (x < 0 /\ 2 * d >= RtpWrap)
      BY <2>1, <2>2, DeltaAhead
    <3> QED
      BY <2>1, <3>1 DEF b
  <2>4. delta \in Int
    <3>1. Stamp(e, k) \in RtpTimestamp
      BY <1>1, <1>2, StampShift
    <3> QED
      BY <2>1, <3>1, DeltaType DEF b
  <2> HIDE DEF delta
  <2>5. RtpWrap >= 2 * Cap
    <3> DEFINE q == (MaxLatency * Rate) \div Second
    <3>1. q \in Nat
      <4>1. MaxLatency * Rate \in Nat
        BY StreamAssumption
      <4> QED
        BY <4>1, ClockAssumption, Quotient
    <3>2. RtpWrap > 2 * (Cap + q)
      BY RangeIsWide DEF Cap
    <3> HIDE DEF q
    <3> QED
      BY <1>1, <3>1, <3>2
  <2>6. Pos(s, a, k) = s + d /\ (FitsAt(s, a, k) <=> s + d + PacketSamples <= Cap)
    BY <1>1, <1>2 DEF Pos, FitsAt, d
  <2> QED
    BY <1>1, <1>2, <2>1, <2>3, <2>4, <2>5, <2>6 DEF delta
<1>3. CASE k < a
  <2> DEFINE d == (a - k) * PacketSamples
             t == Stamp(e, k)
  <2>1. /\ t \in RtpTimestamp /\ d \in Nat /\ Stamp(e, a) = (t + d) % RtpWrap
    BY <1>1, <1>3, StampShift
  <2>2. d \in Nat \ {0} /\ 2 * d < RtpWrap /\ RtpWrap - d > Cap
    BY <1>1, <1>3, BehindInRange DEF Cap
  <2> HIDE DEF d, t
  <2>3. \/ delta = -d
        \/ delta = RtpWrap - d /\ t > Stamp(e, a)
    <3>1. LET b == (t + d) % RtpWrap
          IN  Delta(b, t) = -d \/ (Delta(b, t) = RtpWrap - d /\ t > b)
      BY <2>1, <2>2, DeltaBehind
    <3> QED
      BY <2>1, <3>1 DEF t
  <2> HIDE DEF delta
  <2>4. ~FitsAt(s, a, k)
    BY <1>1, <1>3 DEF FitsAt
  <2> QED
    BY <1>1, <1>3, <2>2, <2>3, <2>4 DEF delta, t
<1> QED
  BY <1>1, <1>2, <1>3

-----------------------------------------------------------------------------
(* What the arrival of a packet makes of a window. *)

\* The fields of a datagram.
LEMMA DatagramType ==
  ASSUME epoch \in RtpTimestamp, seqEpoch \in SeqNumber, NEW k \in Packets
  PROVE  /\ Datagram(k) \in RtpPacket({0})
         /\ Datagram(k).timestamp = Stamp(epoch, k)
         /\ Datagram(k).sequence = (seqEpoch + k) % SeqWrap
         /\ Len(Datagram(k).payload) = PacketSamples
         /\ \A i \in 1 .. PacketSamples : Datagram(k).payload[i] = k * PacketSamples + i - 1
<1> DEFINE f == [i \in 1 .. PacketSamples |-> k * PacketSamples + i - 1]
<1>1. k \in Nat /\ PacketSamples \in Nat /\ k * PacketSamples \in Nat
  BY PacketInRange, StreamAssumption
<1>2. f \in Seq(Int) /\ Len(f) = PacketSamples
  <2>1. f \in [1 .. PacketSamples -> Int]
    BY <1>1
  <2> HIDE DEF f
  <2> QED
    BY <1>1, <2>1, FunctionIsSeq
<1>3. Stamp(epoch, k) \in RtpTimestamp
  BY <1>1, StampShift
<1>4. (seqEpoch + k) % SeqWrap \in SeqNumber
  <2>1. seqEpoch + k \in Nat /\ SeqWrap \in Nat \ {0}
    BY <1>1, WrapAssumption DEF SeqNumber
  <2> QED
    BY <2>1, Remainder DEF SeqNumber
<1>5. /\ Datagram(k).ssrc = 0 /\ Datagram(k).payload = f
      /\ Datagram(k).timestamp = Stamp(epoch, k)
      /\ Datagram(k).sequence = (seqEpoch + k) % SeqWrap
      /\ Datagram(k) = [ssrc |-> 0, sequence |-> (seqEpoch + k) % SeqWrap,
                        timestamp |-> Stamp(epoch, k), payload |-> f]
  BY DEF Datagram, Stamp
<1>6. \A i \in 1 .. PacketSamples : f[i] = k * PacketSamples + i - 1
  OBVIOUS
<1> HIDE DEF f
<1>7. Datagram(k) \in RtpPacket({0})
  BY <1>2, <1>3, <1>4, <1>5 DEF RtpPacket
<1> QED
  BY <1>2, <1>5, <1>6, <1>7

\* Window w becomes v: packet k, whose place is counted from packet a, is
\* copied there if it fits, and nothing is written otherwise.
Arrives(w, v, a, k) ==
  LET at == Pos(v.start_offset, a, k)
  IN  IF FitsAt(v.start_offset, a, k)
      THEN /\ v.samples = [i \in 1 .. Cap |->
                             IF at < i /\ i <= at + PacketSamples
                             THEN k * PacketSamples + (i - at) - 1 ELSE w.samples[i]]
           /\ v.samples_written = Greater(w.samples_written, at + PacketSamples)
      ELSE v.samples = w.samples /\ v.samples_written = w.samples_written

\* The other fields.
Tracks(w, v, a, k, t) ==
  /\ v.capacity_samples = w.capacity_samples /\ v.window_start = w.window_start
  /\ v.last_seq = (seqEpoch + k) % SeqWrap
  /\ v.gap_count = IF IsGap(w, (seqEpoch + k) % SeqWrap) THEN w.gap_count + 1
                   ELSE w.gap_count
  /\ v.rtp_base = Stamp(epoch, a)
  /\ v.start_offset = IF w.rtp_base = None THEN WallOffset(w, Rate, t)
                      ELSE w.start_offset

\* Ingest does to a window what Arrives and Tracks say, and overflows only for
\* a packet that ends past the capacity or precedes a wrap.
LEMMA IngestEffect ==
  ASSUME epoch \in RtpTimestamp, seqEpoch \in SeqNumber,
         NEW w, WellFormed(w), w.capacity_samples = Cap,
         NEW a \in Packets, NEW k \in Packets, NEW t \in Nat,
         \/ w.rtp_base = None /\ a = k
         \/ w.rtp_base = Stamp(epoch, a),
         (a - k) * PacketSamples * Second < (MaxLatency + 1) * Rate
  PROVE  LET r == Ingest(w, Datagram(k), Rate, ENC_S16BE, t)
             v == r.window
         IN  /\ WellFormed(v) /\ Arrives(w, v, a, k) /\ Tracks(w, v, a, k, t)
             /\ r.result = "BufferOverflow" =>
                  \/ k >= a /\ Pos(v.start_offset, a, k) + PacketSamples > Cap
                  \/ k < a /\ Stamp(epoch, k) > Stamp(epoch, a)
<1> DEFINE rtp == Datagram(k)
           seq == (seqEpoch + k) % SeqWrap
           ts == Stamp(epoch, k)
           u == Anchor(TrackSeq(w, seq), ts, Rate, t)
           delta == Delta(u.rtp_base, ts)
           offset == u.start_offset + delta
           early == delta < 0
           full == offset + Len(rtp.payload) > u.capacity_samples
           r == Ingest(w, rtp, Rate, ENC_S16BE, t)
           v == r.window
           s == u.start_offset
<1>1. /\ rtp \in RtpPacket({0}) /\ rtp.timestamp = ts /\ rtp.sequence = seq
      /\ Len(rtp.payload) = PacketSamples
      /\ \A i \in 1 .. PacketSamples : rtp.payload[i] = k * PacketSamples + i - 1
  BY DatagramType
<1>2. seq \in SeqNumber /\ ts \in RtpTimestamp
  BY <1>1 DEF RtpPacket
<1>3. /\ Rate \in Nat /\ PacketSamples \in Nat \ {0} /\ Cap \in Nat
      /\ a \in Nat /\ k \in Nat
  BY StreamAssumption, PacketInRange DEF Cap
<1>4. /\ r.window = IF early \/ full THEN u
                    ELSE Write(u, offset, rtp.payload, ENC_S16BE)
      /\ r.result = IF ~early /\ full THEN "BufferOverflow" ELSE "Ok"
  BY <1>1 DEF Ingest
<1>5. WellFormed(v)
  BY <1>1, <1>3, IngestType
<1>6. WellFormed(u)
  BY <1>2, <1>3, AnchorType
<1> HIDE DEF rtp, seq, ts
<1>7. /\ u.samples = w.samples /\ u.samples_written = w.samples_written
      /\ u.capacity_samples = w.capacity_samples
      /\ u.window_start = w.window_start /\ u.last_seq = seq
      /\ u.gap_count = IF IsGap(w, seq) THEN w.gap_count + 1 ELSE w.gap_count
      /\ u.rtp_base = IF w.rtp_base = None THEN ts ELSE w.rtp_base
      /\ u.start_offset = IF w.rtp_base = None THEN WallOffset(w, Rate, t)
                          ELSE w.start_offset
  BY AnchorFields
<1> HIDE DEF u, r
<1>8. u.rtp_base = Stamp(epoch, a)
  <2>1. CASE w.rtp_base = None /\ a = k
    BY <1>7, <2>1 DEF ts
  <2>2. CASE w.rtp_base = Stamp(epoch, a)
    <3>1. Stamp(epoch, a) \in RtpTimestamp
      BY <1>3, StampShift
    <3>2. Stamp(epoch, a) \in Nat
      BY <3>1, WrapAssumption DEF RtpTimestamp
    <3>3. w.rtp_base # None
      BY <2>2, <3>2, NoneAssumption
    <3> QED
      BY <1>7, <2>2, <3>3
  <2> QED
    BY <2>1, <2>2
<1>9. s \in Nat
  BY <1>6 DEF WellFormed, Window
<1> HIDE DEF s
<1> DEFINE d == Delta(Stamp(epoch, a), Stamp(epoch, k))
           over == s + d + PacketSamples > Cap
<1>10. /\ d \in Int
       /\ FitsAt(s, a, k) => d >= 0 /\ s + d = Pos(s, a, k) /\ ~over
       /\ ~FitsAt(s, a, k) => d < 0 \/ over
       /\ d >= 0 /\ over =>
            \/ k >= a /\ Pos(s, a, k) + PacketSamples > Cap
            \/ k < a /\ Stamp(epoch, k) > Stamp(epoch, a)
  BY <1>3, <1>9, Placement
<1>11. delta = d /\ offset = s + d /\ (full <=> over)
  BY <1>1, <1>7, <1>8 DEF ts, s
<1>12. u.start_offset = s
  BY DEF s
<1>13. early <=> d < 0
  BY <1>11
<1> HIDE DEF d, over, delta, offset, full, early
<1>14. /\ v.capacity_samples = u.capacity_samples
       /\ v.window_start = u.window_start /\ v.last_seq = u.last_seq
       /\ v.gap_count = u.gap_count /\ v.rtp_base = u.rtp_base
       /\ v.start_offset = u.start_offset
  <2>1. CASE early \/ full
    BY <1>4, <2>1
  <2>2. CASE ~(early \/ full)
    <3>1. SameRest(Write(u, offset, rtp.payload, ENC_S16BE), u)
      BY <1>6, WriteFields
    <3>2. v = Write(u, offset, rtp.payload, ENC_S16BE)
      BY <1>4, <2>2
    <3> HIDE DEF v
    <3>3. SameRest(v, u)
      BY <3>1, <3>2
    <3> QED
      BY <3>3 DEF SameRest
  <2> QED
    BY <2>1, <2>2
<1>15. Tracks(w, v, a, k, t)
  BY <1>7, <1>8, <1>14 DEF Tracks, seq
<1>16. Arrives(w, v, a, k)
  <2>1. v.start_offset = s
    BY <1>12, <1>14
  <2> DEFINE at == Pos(s, a, k)
  <2>2. CASE FitsAt(s, a, k)
    <3>1. ~(early \/ full) /\ offset = at
      BY <1>10, <1>11, <1>13, <2>2
    <3>2. v = Write(u, offset, rtp.payload, ENC_S16BE)
      BY <1>4, <3>1
    <3> HIDE DEF v, at
    <3> DEFINE f == [i \in 1 .. Len(u.samples) |->
                       IF offset < i /\ i <= offset + Len(rtp.payload)
                       THEN rtp.payload[i - offset] ELSE u.samples[i]]
               g == [i \in 1 .. Cap |->
                       IF at < i /\ i <= at + PacketSamples
                       THEN k * PacketSamples + (i - at) - 1 ELSE w.samples[i]]
    <3>3. /\ v.samples = f
          /\ v.samples_written = Greater(u.samples_written, offset + Len(rtp.payload))
      BY <1>6, <3>2, WriteFields
    <3>4. Len(u.samples) = Cap /\ Len(rtp.payload) = PacketSamples /\ at \in Int
      <4>1. Len(u.samples) = Cap
        BY <1>6, <1>7 DEF WellFormed
      <4>2. at \in Int
        BY <1>3, <1>9 DEF at, Pos
      <4> QED
        BY <1>1, <4>1, <4>2 DEF rtp
    <3>5. ASSUME NEW i \in 1 .. Cap PROVE f[i] = g[i]
      <4>1. CASE at < i /\ i <= at + PacketSamples
        <5>1. i - at \in 1 .. PacketSamples
          BY <1>3, <3>4, <4>1
        <5>2. rtp.payload[i - at] = k * PacketSamples + (i - at) - 1
          BY <1>1, <5>1 DEF rtp
        <5>3. f[i] = rtp.payload[i - at]
          BY <3>1, <3>4, <4>1
        <5> QED
          BY <4>1, <5>2, <5>3
      <4>2. CASE ~(at < i /\ i <= at + PacketSamples)
        BY <1>7, <3>1, <3>4, <4>2
      <4> QED
        BY <4>1, <4>2
    <3>6. f = g
      BY <3>4, <3>5
    <3>7. v.samples = g
      BY <3>3, <3>6
    <3>8. v.samples_written = Greater(w.samples_written, at + PacketSamples)
      BY <1>7, <3>1, <3>3, <3>4
    <3> QED
      BY <2>1, <2>2, <3>7, <3>8 DEF Arrives, at
  <2>3. CASE ~FitsAt(s, a, k)
    <3>1. early \/ full
      BY <1>10, <1>11, <1>13, <2>3
    <3>2. v = u
      BY <1>4, <3>1
    <3> HIDE DEF v
    <3> QED
      BY <1>7, <2>1, <2>3, <3>2 DEF Arrives
  <2> QED
    BY <2>2, <2>3
<1>17. r.result = "BufferOverflow" =>
         \/ k >= a /\ Pos(v.start_offset, a, k) + PacketSamples > Cap
         \/ k < a /\ Stamp(epoch, k) > Stamp(epoch, a)
  <2>1. SUFFICES ASSUME r.result = "BufferOverflow"
                 PROVE  \/ k >= a /\ Pos(s, a, k) + PacketSamples > Cap
                        \/ k < a /\ Stamp(epoch, k) > Stamp(epoch, a)
    BY <1>12, <1>14
  <2>2. ~early /\ full
    BY <1>4, <2>1
  <2>3. d >= 0 /\ over
    BY <1>10, <1>11, <1>13, <2>2
  <2> QED
    BY <1>10, <2>3
<1> QED
  BY <1>5, <1>15, <1>16, <1>17 DEF r, rtp

-----------------------------------------------------------------------------
(* A window as a function of the set of packets that reached it. *)

\* Sample i belongs to a packet of D.
Holds(s, a, D, i) ==
  \E k \in D : FitsAt(s, a, k) /\ Pos(s, a, k) < i /\ i <= Pos(s, a, k) + PacketSamples

Filled(s, a, D) ==
  [i \in 1 .. Cap |-> IF Holds(s, a, D, i) THEN a * PacketSamples + (i - 1 - s)
                     ELSE Silence]

\* m is one past the last sample of the packets of D.
Marks(m, s, a, D) ==
  /\ \A k \in D : FitsAt(s, a, k) => Pos(s, a, k) + PacketSamples <= m
  /\ m > 0 => \E k \in D : FitsAt(s, a, k) /\ m = Pos(s, a, k) + PacketSamples

\* One packet more.
LEMMA FilledStep ==
  ASSUME NEW s \in Nat, NEW a \in Packets, NEW k \in Packets,
         NEW D \in SUBSET Packets, NEW w, NEW v, v.start_offset = s,
         w.samples = Filled(s, a, D), Arrives(w, v, a, k)
  PROVE  v.samples = Filled(s, a, D \cup {k})
<1> DEFINE at == Pos(s, a, k)
<1>1. /\ a \in Nat /\ k \in Nat /\ PacketSamples \in Nat /\ Cap \in Nat
      /\ k * PacketSamples \in Nat /\ a * PacketSamples \in Nat
      /\ at = s + (k * PacketSamples - a * PacketSamples) /\ at \in Int
  <2>1. a \in Nat /\ k \in Nat /\ PacketSamples \in Nat /\ Cap \in Nat
    BY PacketInRange, StreamAssumption DEF Cap
  <2>2. (k - a) * PacketSamples = k * PacketSamples - a * PacketSamples
    BY <2>1
  <2> QED
    BY <2>1, <2>2 DEF Pos
<1>2. \A i : Holds(s, a, D \cup {k}, i) <=>
        \/ Holds(s, a, D, i)
        \/ FitsAt(s, a, k) /\ at < i /\ i <= at + PacketSamples
  BY DEF Holds
<1>3. CASE FitsAt(s, a, k)
  <2> DEFINE f == [i \in 1 .. Cap |->
                     IF at < i /\ i <= at + PacketSamples
                     THEN k * PacketSamples + (i - at) - 1 ELSE w.samples[i]]
             g == Filled(s, a, D \cup {k})
  <2>1. v.samples = f
    BY <1>3 DEF Arrives
  <2>2. ASSUME NEW i \in 1 .. Cap PROVE f[i] = g[i]
    <3>1. g[i] = IF Holds(s, a, D \cup {k}, i) THEN a * PacketSamples + (i - 1 - s)
                 ELSE Silence
      BY DEF Filled
    <3>2. w.samples[i] = IF Holds(s, a, D, i) THEN a * PacketSamples + (i - 1 - s)
                         ELSE Silence
      BY DEF Filled
    <3>3. CASE at < i /\ i <= at + PacketSamples
      <4>1. f[i] = k * PacketSamples + (i - at) - 1
        BY <3>3
      <4>2. g[i] = a * PacketSamples + (i - 1 - s)
        BY <1>2, <1>3, <3>1, <3>3
      <4> QED
        BY <1>1, <4>1, <4>2
    <3>4. CASE ~(at < i /\ i <= at + PacketSamples)
      <4>1. f[i] = w.samples[i]
        BY <3>4
      <4>2. Holds(s, a, D \cup {k}, i) <=> Holds(s, a, D, i)
        BY <1>2, <3>4
      <4> QED
        BY <3>1, <3>2, <4>1, <4>2
    <3> QED
      BY <3>3, <3>4
  <2>3. f = g
    <3>1. g = [i \in 1 .. Cap |-> g[i]]
      BY DEF Filled
    <3> QED
      BY <2>2, <3>1
  <2> QED
    BY <2>1, <2>3
<1>4. CASE ~FitsAt(s, a, k)
  <2>1. v.samples = Filled(s, a, D)
    BY <1>4 DEF Arrives
  <2>2. \A i : Holds(s, a, D \cup {k}, i) <=> Holds(s, a, D, i)
    BY <1>2, <1>4
  <2>3. Filled(s, a, D \cup {k}) = Filled(s, a, D)
    BY <2>2 DEF Filled
  <2> QED
    BY <2>1, <2>3
<1> QED
  BY <1>3, <1>4

\* The mark follows.
LEMMA MarksStep ==
  ASSUME NEW s \in Nat, NEW a \in Packets, NEW k \in Packets,
         NEW D \in SUBSET Packets, NEW w, NEW v, v.start_offset = s,
         w.samples_written \in Nat, Marks(w.samples_written, s, a, D),
         Arrives(w, v, a, k)
  PROVE  Marks(v.samples_written, s, a, D \cup {k})
<1> DEFINE end(x) == Pos(s, a, x) + PacketSamples
           m == w.samples_written
           n == v.samples_written
<1>1. \A x \in Packets : end(x) \in Int
  BY PacketInRange, StreamAssumption DEF Pos
<1>2. CASE FitsAt(s, a, k)
  <2>1. n = Greater(m, end(k))
    BY <1>2 DEF Arrives
  <2> HIDE DEF m, n
  <2>2. m \in Nat /\ Marks(m, s, a, D)
    BY DEF m
  <2>3. end(k) \in Int
    BY <1>1
  <2>4. n >= m /\ n >= end(k) /\ (n = m \/ n = end(k)) /\ n \in Int
    BY <2>1, <2>2, <2>3 DEF Greater
  <2>5. ASSUME NEW x \in D \cup {k}, FitsAt(s, a, x) PROVE end(x) <= n
    <3>1. CASE x = k
      BY <2>4, <3>1
    <3>2. CASE x \in D
      <4>1. end(x) <= m /\ end(x) \in Int
        BY <1>1, <2>2, <2>5, <3>2 DEF Marks
      <4> QED
        BY <2>2, <2>4, <4>1
    <3> QED
      BY <3>1, <3>2
  <2>6. ASSUME n > 0
        PROVE  \E x \in D \cup {k} : FitsAt(s, a, x) /\ n = end(x)
    <3>1. CASE n = end(k)
      BY <1>2, <3>1
    <3>2. CASE n = m
      <4>1. \E x \in D : FitsAt(s, a, x) /\ m = end(x)
        BY <2>2, <2>6, <3>2 DEF Marks
      <4> QED
        BY <3>2, <4>1
    <3> QED
      BY <2>4, <3>1, <3>2
  <2> QED
    BY <2>5, <2>6 DEF Marks, n
<1>3. CASE ~FitsAt(s, a, k)
  <2>1. n = m
    BY <1>3 DEF Arrives
  <2> QED
    BY <1>3, <2>1 DEF Marks
<1> QED
  BY <1>2, <1>3

-----------------------------------------------------------------------------
(* The inductive invariant. *)

\* A window is open from the first packet that reached ingest; it keeps the
\* anchor's timestamp, and the sequence number of the last packet.
Opened ==
  IF window = None
  THEN anchor = None /\ delivered = {} /\ last = None /\ ~sealed
  ELSE /\ anchor \in delivered /\ last \in delivered
       /\ \A k \in delivered : SentAt(k) <= now
       /\ window.capacity_samples = Cap
       /\ window.rtp_base = Stamp(epoch, anchor)
       /\ window.last_seq = (seqEpoch + last) % SeqWrap

Placed == window # None =>
            window.samples = Filled(window.start_offset, anchor, delivered)

Marked == window # None =>
            Marks(window.samples_written, window.start_offset, anchor, delivered)

\* With no gap counted, the packets arrived in order from the anchor on, and
\* the only ones missing are past the end of the window.
InOrder(s, a, D, l) ==
  /\ \A k \in D : k <= l
  /\ \A m \in D : FitsAt(s, a, m) => a .. m \subseteq D
  /\ FitsAt(s, a, l) \/ Pos(s, a, l) + PacketSamples > Cap

Gapless == (window # None /\ window.gap_count = 0) =>
             InOrder(window.start_offset, anchor, delivered, last)

IInv == TypeOK /\ Opened /\ Placed /\ Marked /\ Gapless
          /\ AnchorSkewBounded /\ FullIsGenuine

\* Stored, in the terms of these lemmas.
LEMMA StoredIs ==
  ASSUME TypeOK, Opened, window # None
  PROVE  /\ anchor \in Packets /\ last \in Packets /\ window.start_offset \in Nat
         /\ Stored = {k \in delivered : FitsAt(window.start_offset, anchor, k)}
         /\ \A k : Position(k) = Pos(window.start_offset, anchor, k)
<1>1. \A k : Position(k) = Pos(window.start_offset, anchor, k)
  BY DEF Position, Pos
<1>2. anchor \in Packets /\ last \in Packets /\ window.capacity_samples = Cap
  BY DEF Opened, TypeOK
<1>3. window.start_offset \in Nat
  BY DEF TypeOK, WellFormed, Window
<1> QED
  BY <1>1, <1>2, <1>3 DEF Stored, FitsAt

\* The invariant holds at first.
LEMMA Start == ASSUME Init PROVE IInv
<1>1. 0 \in 0 .. MaxNow
  BY StreamAssumption
<1> QED
  BY <1>1 DEF Init, IInv, TypeOK, Opened, Placed, Marked, Gapless,
              AnchorSkewBounded, FullIsGenuine

\* Time passing changes nothing else.
LEMMA TickStep == ASSUME IInv, Tick PROVE IInv'
<1>1. /\ now \in 0 .. MaxNow /\ now < MaxNow /\ now' = now + 1
      /\ UNCHANGED <<epoch, seqEpoch, window, sealed, anchor, delivered, last>>
  BY DEF IInv, TypeOK, Tick
<1>2. now' \in 0 .. MaxNow /\ now <= now' /\ now \in Nat
  BY <1>1, StreamAssumption
<1>3. TypeOK'
  BY <1>1, <1>2 DEF IInv, TypeOK
<1>4. Opened'
  <2>1. CASE window = None
    BY <1>1, <2>1 DEF IInv, Opened
  <2>2. CASE window # None
    <3>1. ASSUME NEW k \in delivered PROVE SentAt(k) <= now'
      <4>1. k \in Nat /\ SentAt(k) <= now
        BY <2>2, PacketInRange DEF IInv, TypeOK, Opened
      <4>2. SentAt(k) \in Nat
        BY <4>1, SentBounds
      <4> QED
        BY <1>2, <4>1, <4>2
    <3>2. /\ anchor \in delivered /\ last \in delivered
          /\ window.capacity_samples = Cap
          /\ window.rtp_base = Stamp(epoch, anchor)
          /\ window.last_seq = (seqEpoch + last) % SeqWrap
      BY <2>2 DEF IInv, Opened
    <3>3. /\ anchor' \in delivered' /\ last' \in delivered'
          /\ \A k \in delivered' : SentAt(k) <= now'
      BY <1>1, <3>1, <3>2
    <3>4. /\ window'.capacity_samples = Cap
          /\ window'.rtp_base = Stamp(epoch', anchor')
          /\ window'.last_seq = (seqEpoch' + last') % SeqWrap
      BY <1>1, <3>2
    <3> QED
      BY <1>1, <2>2, <3>3, <3>4 DEF Opened, SentAt, Stamp
  <2> QED
    BY <2>1, <2>2
<1>5. Placed' /\ Marked' /\ Gapless'
  BY <1>1 DEF IInv, Placed, Marked, Gapless, Filled, Holds, Marks, InOrder, FitsAt, Pos
<1>6. AnchorSkewBounded'
  BY <1>1 DEF IInv, AnchorSkewBounded
<1>7. FullIsGenuine'
  BY <1>1 DEF IInv, FullIsGenuine, Position, Datagram
<1> QED
  BY <1>3, <1>4, <1>5, <1>6, <1>7 DEF IInv

\* The window a packet finds: the open one, or a new one that no packet of
\* delivered has reached.
LEMMA EntryIs ==
  ASSUME IInv, NEW w \in Entry, NEW k \in Packets, NEW s \in Nat,
         NEW a, a = (IF anchor = None THEN k ELSE anchor),
         window # None => s = window.start_offset
  PROVE  /\ WellFormed(w) /\ w.capacity_samples = Cap /\ a \in Packets
         /\ (w.rtp_base = None /\ a = k) \/ w.rtp_base = Stamp(epoch, a)
         /\ w.samples = Filled(s, a, delivered)
         /\ Marks(w.samples_written, s, a, delivered)
         /\ \/ window # None /\ w = window /\ a = anchor
            \/ /\ window = None /\ a = k /\ delivered = {}
               /\ w = NewWindow(EvenMinuteBoundary(now), 1, Rate, CaptureSeconds)
               /\ Elapsed(now, EvenMinuteBoundary(now)) \div Second < CaptureSeconds
<1>1. CASE window # None
  <2>1. w = window
    BY <1>1 DEF Entry
  <2>2. a = anchor /\ a \in Packets
    <3>1. anchor \in Packets
      BY <1>1 DEF IInv, TypeOK, Opened
    <3>2. anchor \in Nat
      BY <3>1, PacketInRange
    <3> QED
      BY <3>1, <3>2, NoneAssumption
  <2>3. WellFormed(w) /\ w.capacity_samples = Cap /\ w.rtp_base = Stamp(epoch, a)
    BY <1>1, <2>1, <2>2 DEF IInv, TypeOK, Opened
  <2>4. w.samples = Filled(s, a, delivered)
    BY <1>1, <2>1, <2>2 DEF IInv, Placed
  <2>5. Marks(w.samples_written, s, a, delivered)
    BY <1>1, <2>1, <2>2 DEF IInv, Marked
  <2> QED
    BY <1>1, <2>1, <2>2, <2>3, <2>4, <2>5
<1>2. CASE window = None
  <2> DEFINE start == EvenMinuteBoundary(now)
             new == NewWindow(start, 1, Rate, CaptureSeconds)
             late == Elapsed(now, start) \div Second >= CaptureSeconds
  <2>1. ~late /\ w = new
    BY <1>2 DEF Entry
  <2>2. a = k /\ delivered = {}
    BY <1>2 DEF IInv, Opened
  <2>3. now \in Nat /\ start \in Nat
    <3>1. now \in Nat
      BY StreamAssumption DEF IInv, TypeOK
    <3> QED
      BY <3>1, BoundaryBelow
  <2>4. Elapsed(now, start) \div Second < CaptureSeconds
    <3>1. Elapsed(now, start) \in Nat
      BY <2>3, OrderType
    <3>2. Elapsed(now, start) \div Second \in Nat
      BY <3>1, Quotient, ClockAssumption
    <3> QED
      BY <2>1, <3>2, StreamAssumption
  <2> HIDE DEF late, start
  <2>5. WellFormed(new)
    BY <2>3, StreamAssumption, NewWindowType
  <2>6. /\ new.capacity_samples = Cap /\ new.rtp_base = None
        /\ new.samples_written = 0
        /\ new.samples = [i \in 1 .. Cap |-> Silence]
    BY DEF NewWindow, Cap
  <2> HIDE DEF new
  <2>7. Filled(s, a, {}) = [i \in 1 .. Cap |-> Silence]
    BY DEF Filled, Holds
  <2>8. Marks(0, s, a, {})
    BY DEF Marks
  <2> QED
    BY <1>2, <2>1, <2>2, <2>4, <2>5, <2>6, <2>7, <2>8 DEF new, start
<1> QED
  BY <1>1, <1>2

\* The arrival of packet k makes window v of window w, and counts places from
\* packet a.
HandedOver(w, v, a, k) ==
  /\ a \in Packets /\ window' = v /\ anchor' = a /\ last' = k /\ delivered' = delivered \cup {k}
  /\ UNCHANGED <<now, epoch, seqEpoch>>
  /\ SentAt(k) <= now /\ now <= SentAt(k) + MaxLatency
  /\ WellFormed(w) /\ WellFormed(v)
  /\ Arrives(w, v, a, k) /\ Tracks(w, v, a, k, now)
  /\ sealed' \in BOOLEAN
  /\ sealed' => \/ k >= a /\ Pos(v.start_offset, a, k) + PacketSamples > Cap
                \/ k < a /\ Stamp(epoch, k) > Stamp(epoch, a)
  /\ w.capacity_samples = Cap
  /\ w.samples = Filled(v.start_offset, a, delivered)
  /\ Marks(w.samples_written, v.start_offset, a, delivered)
  /\ \/ /\ window # None /\ w = window /\ a = anchor
        /\ w.rtp_base = Stamp(epoch, a)
     \/ /\ window = None /\ a = k /\ delivered = {} /\ w.rtp_base = None
        /\ w = NewWindow(EvenMinuteBoundary(now), 1, Rate, CaptureSeconds)
        /\ Elapsed(now, EvenMinuteBoundary(now)) \div Second < CaptureSeconds

\* Every arrival has that effect.
LEMMA DeliverEffect ==
  ASSUME IInv, NEW k \in Packets, Deliver(k)
  PROVE  \E w, v, a : HandedOver(w, v, a, k)
<1> DEFINE a == IF anchor = None THEN k ELSE anchor
           start == EvenMinuteBoundary(now)
           new == NewWindow(start, 1, Rate, CaptureSeconds)
<1>1. /\ SentAt(k) <= now /\ now <= SentAt(k) + MaxLatency
      /\ delivered' = delivered \cup {k} /\ last' = k
      /\ UNCHANGED <<now, epoch, seqEpoch>>
  BY DEF Deliver
<1>2. PICK w \in Entry :
        LET r == Ingest(w, Datagram(k), Rate, ENC_S16BE, now)
        IN  /\ window' = r.window
            /\ sealed' = (r.result = "BufferOverflow")
            /\ anchor' = a
  BY DEF Deliver
<1> DEFINE r == Ingest(w, Datagram(k), Rate, ENC_S16BE, now)
           v == r.window
<1>3. window' = v /\ sealed' = (r.result = "BufferOverflow") /\ anchor' = a
  BY <1>2
<1>4. /\ epoch \in RtpTimestamp /\ seqEpoch \in SeqNumber /\ now \in Nat
      /\ delivered \subseteq Packets
  BY StreamAssumption DEF IInv, TypeOK
<1> HIDE DEF r, a
<1>5. ASSUME NEW s \in Nat, window # None => s = window.start_offset
      PROVE  /\ WellFormed(w) /\ w.capacity_samples = Cap /\ a \in Packets
             /\ (w.rtp_base = None /\ a = k) \/ w.rtp_base = Stamp(epoch, a)
             /\ w.samples = Filled(s, a, delivered)
             /\ Marks(w.samples_written, s, a, delivered)
             /\ \/ window # None /\ w = window /\ a = anchor
                \/ /\ window = None /\ a = k /\ delivered = {} /\ w = new
                   /\ Elapsed(now, start) \div Second < CaptureSeconds
  BY <1>5, EntryIs DEF a
<1> HIDE DEF new
<1> DEFINE s0 == IF window # None THEN window.start_offset ELSE 0
<1>6. s0 \in Nat /\ (window # None => s0 = window.start_offset)
  BY DEF IInv, TypeOK, WellFormed, Window
<1> HIDE DEF s0
<1>7. /\ WellFormed(w) /\ w.capacity_samples = Cap /\ a \in Packets
      /\ (w.rtp_base = None /\ a = k) \/ w.rtp_base = Stamp(epoch, a)
      /\ \/ window # None /\ w = window /\ a = anchor
         \/ /\ window = None /\ a = k /\ delivered = {} /\ w = new
            /\ Elapsed(now, start) \div Second < CaptureSeconds
  BY <1>5, <1>6
<1>8. SentAt(a) <= now
  <2>1. CASE a = k
    BY <1>1, <2>1
  <2>2. CASE a # k
    BY <1>7, <2>2 DEF IInv, Opened
  <2> QED
    BY <2>1, <2>2
<1>9. (a - k) * PacketSamples * Second < (MaxLatency + 1) * Rate
  BY <1>1, <1>4, <1>7, <1>8, PacketInRange, InFlight
<1>10. /\ WellFormed(v) /\ Arrives(w, v, a, k) /\ Tracks(w, v, a, k, now)
       /\ r.result = "BufferOverflow" =>
            \/ k >= a /\ Pos(v.start_offset, a, k) + PacketSamples > Cap
            \/ k < a /\ Stamp(epoch, k) > Stamp(epoch, a)
  BY <1>4, <1>7, <1>9, IngestEffect DEF r
<1> HIDE DEF v
<1>11. \/ /\ window # None /\ w = window /\ a = anchor
          /\ w.rtp_base = Stamp(epoch, a) /\ w.rtp_base # None
       \/ /\ window = None /\ a = k /\ delivered = {} /\ w = new /\ w.rtp_base = None
          /\ Elapsed(now, start) \div Second < CaptureSeconds
  <2>1. CASE window # None
    <3>1. w = window /\ a = anchor /\ w.rtp_base = Stamp(epoch, a)
      BY <1>7, <2>1 DEF IInv, Opened
    <3>2. Stamp(epoch, a) \in RtpTimestamp
      BY <1>4, <1>7, PacketInRange, StampShift
    <3>3. Stamp(epoch, a) \in Nat
      BY <3>2, WrapAssumption DEF RtpTimestamp
    <3> QED
      BY <2>1, <3>1, <3>3, NoneAssumption
  <2>2. CASE window = None
    <3>1. new.rtp_base = None
      BY DEF new, NewWindow
    <3> QED
      BY <1>7, <2>2, <3>1
  <2> QED
    BY <2>1, <2>2
<1>12. v.start_offset \in Nat
  BY <1>10 DEF WellFormed, Window
<1>13. window # None => v.start_offset = window.start_offset
  BY <1>10, <1>11 DEF Tracks
<1>14. /\ w.samples = Filled(v.start_offset, a, delivered)
       /\ Marks(w.samples_written, v.start_offset, a, delivered)
  BY <1>5, <1>12, <1>13
<1>15. /\ sealed' \in BOOLEAN
       /\ sealed' => \/ k >= a /\ Pos(v.start_offset, a, k) + PacketSamples > Cap
                     \/ k < a /\ Stamp(epoch, k) > Stamp(epoch, a)
  BY <1>3, <1>10
<1>16. /\ SentAt(k) <= now /\ now <= SentAt(k) + MaxLatency
       /\ WellFormed(w) /\ w.capacity_samples = Cap /\ a \in Packets
       /\ \/ window # None /\ w = window /\ a = anchor /\ w.rtp_base = Stamp(epoch, a)
          \/ /\ window = None /\ a = k /\ delivered = {} /\ w.rtp_base = None
             /\ w = NewWindow(EvenMinuteBoundary(now), 1, Rate, CaptureSeconds)
             /\ Elapsed(now, EvenMinuteBoundary(now)) \div Second < CaptureSeconds
  BY <1>1, <1>7, <1>11 DEF new, start
<1> HIDE DEF start
<1>17. window' = v /\ anchor' = a
  BY <1>3
<1>18. HandedOver(w, v, a, k)
  BY <1>1, <1>10, <1>14, <1>15, <1>16, <1>17 DEF HandedOver
<1> HIDE DEF a
<1> QED
  BY <1>18

\* The sequence numbers are too many to hide a loss: a packet that carries the
\* next number is the next packet, or one past the end of the window.
LEMMA NextOrBeyond ==
  ASSUME seqEpoch \in SeqNumber, NEW l \in Packets, NEW k \in Packets,
         (seqEpoch + k) % SeqWrap = (((seqEpoch + l) % SeqWrap) + 1) % SeqWrap,
         (l - k) * PacketSamples * Second < (MaxLatency + 1) * Rate
  PROVE  k = l + 1 \/ (k > l /\ (k - l) * PacketSamples >= Cap)
<1> DEFINE x == seqEpoch + l + 1
           y == seqEpoch + k
<1>1. /\ SeqWrap \in Nat \ {0} /\ seqEpoch \in Nat /\ l \in Nat /\ k \in Nat
      /\ PacketSamples \in Nat /\ Second \in Nat /\ MaxLatency \in Nat /\ Rate \in Nat
      /\ CaptureSeconds \in Nat
  BY WrapAssumption, StreamAssumption, ClockAssumption, PacketInRange DEF SeqNumber
<1>2. x \in Nat /\ y \in Nat
  BY <1>1
<1>3. x % SeqWrap = y % SeqWrap
  <2> DEFINE n == seqEpoch + l
  <2>1. n \in Nat /\ x = n + 1
    BY <1>1
  <2>2. y % SeqWrap = ((n % SeqWrap) + 1) % SeqWrap
    OBVIOUS
  <2> HIDE DEF n, x, y
  <2>3. ((n % SeqWrap) + 1) % SeqWrap = (n + 1) % SeqWrap
    <3>1. \A d \in Nat : ((n % SeqWrap) + d) % SeqWrap = (n + d) % SeqWrap
      BY <1>1, <2>1, WrapShift, Zenon
    <3>2. 1 \in Nat
      OBVIOUS
    <3> QED
      BY <3>1, <3>2, Zenon
  <2> QED
    BY <2>1, <2>2, <2>3
<1>4. PICK j \in Int : y = x + j * SeqWrap
  <2> HIDE DEF x, y
  <2> QED
    BY <1>1, <1>2, <1>3, SameRemainder
<1>5. k - l = 1 + j * SeqWrap /\ j * SeqWrap \in Int
  BY <1>1, <1>4
<1>6. CASE j = 0
  BY <1>1, <1>5, <1>6
<1>7. CASE j >= 1
  <2>1. 1 * SeqWrap <= j * SeqWrap
    BY <1>1, <1>7, TimesMonotone
  <2>2. SeqWrap <= k - l
    BY <1>1, <1>5, <2>1
  <2>3. SeqWrap * PacketSamples <= (k - l) * PacketSamples
    BY <1>1, <2>2, TimesMonotone
  <2>4. SeqWrap * PacketSamples >= Cap
    BY SeqIsWide DEF Cap
  <2>5. /\ SeqWrap * PacketSamples \in Int /\ (k - l) * PacketSamples \in Int
        /\ Cap \in Int
    BY <1>1 DEF Cap
  <2>6. (k - l) * PacketSamples >= Cap
    BY <2>3, <2>4, <2>5
  <2> QED
    BY <1>1, <2>2, <2>6
<1>8. CASE j <= -1
  <2>1. j * SeqWrap <= (-1) * SeqWrap
    BY <1>1, <1>8, TimesMonotone
  <2>2. SeqWrap - 1 <= l - k
    BY <1>1, <1>5, <2>1
  <2> DEFINE u == PacketSamples * Second
             p == SeqWrap - 1
             q == l - k
  <2>3. u \in Nat /\ p \in Int /\ q \in Int
    BY <1>1
  <2>4. (p * PacketSamples) * Second = p * u /\ (q * PacketSamples) * Second = q * u
    BY <1>1, <2>3
  <2> HIDE DEF u
  <2>5. p * u <= q * u
    BY <2>2, <2>3, TimesMonotone
  <2>6. p * u >= (MaxLatency + 1) * Rate
    BY <2>4, SeqIsWide
  <2>7. q * u < (MaxLatency + 1) * Rate
    BY <2>4
  <2>8. p * u \in Int /\ q * u \in Int /\ (MaxLatency + 1) * Rate \in Int
    BY <1>1, <2>3
  <2> QED
    BY <2>5, <2>6, <2>7, <2>8
<1> QED
  BY <1>6, <1>7, <1>8

\* Of two packets, the one that belongs earlier fits if the other does.
LEMMA FitsBelow ==
  ASSUME NEW s \in Nat, NEW a \in Packets, NEW k \in Packets, NEW m \in Packets,
         a <= k, k <= m, FitsAt(s, a, m)
  PROVE  FitsAt(s, a, k) /\ Pos(s, a, k) <= Pos(s, a, m)
<1>1. /\ a \in Nat /\ k \in Nat /\ m \in Nat /\ PacketSamples \in Nat /\ Cap \in Nat
  BY PacketInRange, StreamAssumption DEF Cap
<1>2. (k - a) * PacketSamples <= (m - a) * PacketSamples
  BY <1>1, TimesMonotone
<1>3. (k - a) * PacketSamples \in Int /\ (m - a) * PacketSamples \in Int
  BY <1>1
<1> QED
  BY <1>1, <1>2, <1>3 DEF FitsAt, Pos

\* So the packets stay in order while no gap is counted.
LEMMA InOrderStep ==
  ASSUME seqEpoch \in SeqNumber, NEW s \in Nat, NEW a \in Packets,
         NEW D \in SUBSET Packets, NEW l \in D, NEW k \in Packets, a \in D,
         InOrder(s, a, D, l),
         (seqEpoch + k) % SeqWrap = (((seqEpoch + l) % SeqWrap) + 1) % SeqWrap,
         (l - k) * PacketSamples * Second < (MaxLatency + 1) * Rate
  PROVE  InOrder(s, a, D \cup {k}, k)
<1>1. k = l + 1 \/ (k > l /\ (k - l) * PacketSamples >= Cap)
  BY NextOrBeyond
<1>2. /\ a \in Nat /\ l \in Nat /\ k \in Nat /\ PacketSamples \in Nat \ {0}
      /\ Cap \in Nat /\ D \subseteq Nat
  BY PacketInRange, StreamAssumption DEF Cap
<1>3. k > l /\ a <= l /\ \A x \in D : x <= l
  BY <1>1, <1>2 DEF InOrder
<1>4. \A x \in D \cup {k} : x <= k
  BY <1>2, <1>3
<1>5. FitsAt(s, a, k) \/ Pos(s, a, k) + PacketSamples > Cap
  <2>1. Pos(s, a, k) \in Int
    BY <1>2 DEF Pos
  <2> QED
    BY <1>2, <1>3, <2>1 DEF FitsAt
<1>6. ASSUME NEW m \in D \cup {k}, FitsAt(s, a, m) PROVE a .. m \subseteq D \cup {k}
  <2>1. CASE m \in D
    BY <1>6, <2>1 DEF InOrder
  <2>2. CASE m = k
    <3>1. k = l + 1
      <4> SUFFICES ASSUME (k - l) * PacketSamples >= Cap PROVE FALSE
        BY <1>1
      <4>1. (k - l) * PacketSamples <= (k - a) * PacketSamples
        BY <1>2, <1>3, TimesMonotone
      <4>2. /\ (k - l) * PacketSamples \in Int /\ (k - a) * PacketSamples \in Int
        BY <1>2
      <4> QED
        BY <1>2, <1>6, <2>2, <4>1, <4>2 DEF FitsAt, Pos
    <3>2. FitsAt(s, a, l)
      BY <1>2, <1>3, <1>6, <2>2, FitsBelow
    <3>3. a .. l \subseteq D
      BY <3>2 DEF InOrder
    <3> QED
      BY <1>2, <2>2, <3>1, <3>3
  <2> QED
    BY <2>1, <2>2
<1> QED
  BY <1>4, <1>5, <1>6 DEF InOrder

-----------------------------------------------------------------------------
(* A packet arrives: one lemma for each part of the invariant. *)

\* Types, and what is known of an open window.
LEMMA DeliverTypes ==
  ASSUME IInv, NEW k \in Packets, NEW w, NEW v, NEW a, HandedOver(w, v, a, k)
  PROVE  /\ TypeOK' /\ Opened' /\ window' # None
         /\ a \in Packets /\ v.start_offset \in Nat /\ v.capacity_samples = Cap
<1>1. /\ window' = v /\ anchor' = a /\ last' = k /\ delivered' = delivered \cup {k}
      /\ now' = now /\ epoch' = epoch /\ seqEpoch' = seqEpoch
      /\ a \in Packets /\ WellFormed(v) /\ sealed' \in BOOLEAN
      /\ SentAt(k) <= now
  BY DEF HandedOver
<1>2. /\ now \in 0 .. MaxNow /\ epoch \in RtpTimestamp /\ seqEpoch \in SeqNumber
      /\ delivered \subseteq Packets
  BY DEF IInv, TypeOK
<1>3. v \in Window /\ v # None /\ v.start_offset \in Nat
  BY <1>1, NoneAssumption DEF WellFormed, Window
<1>4. /\ v.capacity_samples = Cap /\ v.rtp_base = Stamp(epoch, a)
      /\ v.last_seq = (seqEpoch + k) % SeqWrap
  BY DEF HandedOver, Tracks
<1>5. TypeOK'
  BY <1>1, <1>2 DEF TypeOK
<1>6. a \in delivered \cup {k} /\ \A x \in delivered \cup {k} : SentAt(x) <= now
  <2>1. CASE window = None
    BY <1>1, <2>1 DEF HandedOver
  <2>2. CASE window # None
    BY <1>1, <2>2 DEF HandedOver, IInv, Opened
  <2> QED
    BY <2>1, <2>2
<1>7. /\ anchor' \in delivered' /\ last' \in delivered' /\ window' # None
      /\ \A x \in delivered' : SentAt(x) <= now'
  BY <1>1, <1>3, <1>6
<1>8. /\ window'.capacity_samples = Cap
      /\ window'.rtp_base = Stamp(epoch', anchor')
      /\ window'.last_seq = (seqEpoch' + last') % SeqWrap
  BY <1>1, <1>4
<1>9. Opened'
  BY <1>7, <1>8 DEF Opened, SentAt, Stamp
<1> QED
  BY <1>1, <1>3, <1>4, <1>5, <1>7, <1>9

\* The samples and the mark.
LEMMA DeliverPlaces ==
  ASSUME IInv, NEW k \in Packets, NEW w, NEW v, NEW a, HandedOver(w, v, a, k)
  PROVE  Placed' /\ Marked'
<1>1. /\ window' = v /\ anchor' = a /\ delivered' = delivered \cup {k}
      /\ a \in Packets /\ Arrives(w, v, a, k) /\ w.samples_written \in Nat
      /\ w.samples = Filled(v.start_offset, a, delivered)
      /\ Marks(w.samples_written, v.start_offset, a, delivered)
  BY DEF HandedOver, WellFormed, Window
<1>2. v.start_offset \in Nat
  BY DeliverTypes
<1>3. delivered \in SUBSET Packets
  BY DEF IInv, TypeOK
<1>4. v.samples = Filled(v.start_offset, a, delivered \cup {k})
  BY <1>1, <1>2, <1>3, FilledStep
<1>5. Marks(v.samples_written, v.start_offset, a, delivered \cup {k})
  BY <1>1, <1>2, <1>3, MarksStep
<1>6. Placed'
  <2>1. window'.samples = Filled(window'.start_offset, anchor', delivered')
    BY <1>1, <1>4
  <2> QED
    BY <2>1 DEF Placed, Filled, Holds, FitsAt, Pos
<1>7. Marked'
  <2>1. Marks(window'.samples_written, window'.start_offset, anchor', delivered')
    BY <1>1, <1>5
  <2> QED
    BY <2>1 DEF Marked, Marks, FitsAt, Pos
<1> QED
  BY <1>6, <1>7

\* The gap counter.
LEMMA DeliverGapless ==
  ASSUME IInv, NEW k \in Packets, NEW w, NEW v, NEW a, HandedOver(w, v, a, k)
  PROVE  Gapless'
<1>1. /\ window' = v /\ anchor' = a /\ last' = k /\ delivered' = delivered \cup {k}
  BY DEF HandedOver
<1>2. /\ a \in Packets /\ v.start_offset \in Nat /\ delivered \in SUBSET Packets
      /\ seqEpoch \in SeqNumber
  BY DeliverTypes DEF IInv, TypeOK
<1> DEFINE s == v.start_offset
<1>3. ASSUME v.gap_count = 0 PROVE InOrder(s, a, delivered \cup {k}, k)
  <2>1. CASE window = None
    <3>1. delivered = {} /\ a = k
      BY <2>1 DEF HandedOver
    <3>2. k \in Nat /\ PacketSamples \in Nat /\ Cap \in Nat
      BY PacketInRange, StreamAssumption DEF Cap
    <3>3. FitsAt(s, k, k) \/ Pos(s, k, k) + PacketSamples > Cap
      BY <1>2, <3>2 DEF FitsAt, Pos
    <3> QED
      BY <3>1, <3>2, <3>3 DEF InOrder
  <2>2. CASE window # None
    <3>1. /\ a = anchor /\ w = window /\ w.rtp_base = Stamp(epoch, a)
      BY <2>2 DEF HandedOver
    <3>2. /\ anchor \in delivered /\ last \in delivered /\ SentAt(last) <= now
          /\ window.last_seq = (seqEpoch + last) % SeqWrap
          /\ window.gap_count \in Nat /\ window.last_seq \in SeqNumber \cup {None}
      BY <2>2 DEF IInv, TypeOK, Opened, WellFormed, Window
    <3>3. window.last_seq # None
      <4>1. seqEpoch + last \in Nat /\ SeqWrap \in Nat \ {0}
        BY <1>2, <3>2, PacketInRange, WrapAssumption DEF SeqNumber
      <4>2. (seqEpoch + last) % SeqWrap \in Nat
        BY <4>1, Remainder
      <4> QED
        BY <3>2, <4>2, NoneAssumption
    <3>4. /\ v.gap_count = IF IsGap(w, (seqEpoch + k) % SeqWrap) THEN w.gap_count + 1
                           ELSE w.gap_count
      BY DEF HandedOver, Tracks
    <3>5. ~IsGap(w, (seqEpoch + k) % SeqWrap) /\ window.gap_count = 0
      BY <1>3, <3>1, <3>2, <3>4
    <3>6. (seqEpoch + k) % SeqWrap = (((seqEpoch + last) % SeqWrap) + 1) % SeqWrap
      <4>1. (seqEpoch + k) % SeqWrap = (window.last_seq + 1) % SeqWrap
        BY <3>1, <3>3, <3>5 DEF IsGap
      <4> QED
        BY <3>2, <4>1
    <3>7. window.start_offset = s
      <4>1. Stamp(epoch, a) # None
        <5>1. Stamp(epoch, a) \in RtpTimestamp
          <6>1. a \in Nat /\ epoch \in RtpTimestamp
            BY <1>2, PacketInRange DEF IInv, TypeOK
          <6> QED
            BY <6>1, StampShift
        <5>2. Stamp(epoch, a) \in Nat
          BY <5>1, WrapAssumption DEF RtpTimestamp
        <5> QED
          BY <5>2, NoneAssumption
      <4>2. v.start_offset = IF w.rtp_base = None THEN WallOffset(w, Rate, now)
                             ELSE w.start_offset
        BY DEF HandedOver, Tracks
      <4> QED
        BY <3>1, <4>1, <4>2
    <3>8. InOrder(s, a, delivered, last)
      BY <2>2, <3>1, <3>5, <3>7 DEF IInv, Gapless
    <3>9. (last - k) * PacketSamples * Second < (MaxLatency + 1) * Rate
      <4>1. last \in Nat /\ k \in Nat
        BY <1>2, <3>2, PacketInRange
      <4>2. now \in Nat /\ now <= SentAt(k) + MaxLatency
        BY StreamAssumption DEF HandedOver, IInv, TypeOK
      <4> QED
        BY <3>2, <4>1, <4>2, InFlight
    <3> HIDE DEF s
    <3>10. s \in Nat /\ a \in delivered /\ last \in delivered
      BY <1>2, <3>1, <3>2 DEF s
    <3> QED
      BY <1>2, <3>6, <3>8, <3>9, <3>10, InOrderStep
  <2> QED
    BY <2>1, <2>2
<1>4. window'.gap_count = 0 =>
        InOrder(window'.start_offset, anchor', delivered', last')
  BY <1>1, <1>3
<1> QED
  BY <1>4 DEF Gapless, InOrder, FitsAt, Pos

\* The rounding of the wall-clock anchor: the first packet stands at the sample
\* that its arrival time falls in.
LEMMA FirstOffset ==
  ASSUME NEW w, NEW e \in Nat, e \div Second < CaptureSeconds,
         NEW t, e = Elapsed(t, w.window_start), w.capacity_samples = Cap
  PROVE  LET off == WallOffset(w, Rate, t)
         IN  off \in Nat /\ off * Second <= e * Rate /\ e * Rate < off * Second + Second
<1> DEFINE q == (e * Rate) \div Second
<1>1. /\ Second \in Nat \ {0} /\ Rate \in Nat \ {0} /\ CaptureSeconds \in Nat
      /\ e * Rate \in Nat
  BY ClockAssumption, StreamAssumption
<1>2. q \in Nat /\ q * Second <= e * Rate /\ e * Rate < q * Second + Second
  BY <1>1, Quotient
<1>3. e < CaptureSeconds * Second
  <2> DEFINE d == e \div Second
  <2>1. d \in Nat /\ e < d * Second + Second /\ d < CaptureSeconds
    BY <1>1, Quotient
  <2> HIDE DEF d
  <2>2. (d + 1) * Second <= CaptureSeconds * Second
    <3>1. d + 1 <= CaptureSeconds /\ d + 1 \in Int
      BY <1>1, <2>1
    <3> QED
      BY <1>1, <3>1, TimesMonotone
  <2>3. (d + 1) * Second = d * Second + Second
    BY <1>1, <2>1
  <2>4. CaptureSeconds * Second \in Int /\ d * Second \in Int
    BY <1>1, <2>1
  <2> QED
    BY <1>1, <2>1, <2>2, <2>3, <2>4
<1> HIDE DEF q
<1>4. q < Cap
  <2> SUFFICES ASSUME Cap <= q PROVE FALSE
    BY <1>1, <1>2 DEF Cap
  <2>1. Cap * Second <= q * Second
    BY <1>1, <1>2, TimesMonotone DEF Cap
  <2>2. (e + 1) * Rate <= (CaptureSeconds * Second) * Rate
    <3>1. e + 1 <= CaptureSeconds * Second /\ CaptureSeconds * Second \in Int
      BY <1>1, <1>3
    <3> QED
      BY <1>1, <3>1, TimesMonotone
  <2>3. /\ (e + 1) * Rate = e * Rate + Rate
        /\ (CaptureSeconds * Second) * Rate = Cap * Second
        /\ Cap * Second \in Int /\ q * Second \in Int
    BY <1>1, <1>2 DEF Cap
  <2> QED
    BY <1>1, <1>2, <2>1, <2>2, <2>3
<1>5. WallOffset(w, Rate, t) = q
  <2>1. WallOffset(w, Rate, t) = Lesser(q, Greater(Cap - 1, 0))
    BY DEF WallOffset, q
  <2>2. Cap \in Nat
    BY <1>1 DEF Cap
  <2> QED
    BY <1>2, <1>4, <2>1, <2>2 DEF Lesser, Greater
<1> QED
  BY <1>2, <1>5

Skew(start, offset, a) ==
  (start * Rate + offset * Second) - a * PacketSamples * Second

\* The anchor: set by the first packet, left alone by the others.
LEMMA DeliverSkew ==
  ASSUME IInv, NEW k \in Packets, NEW w, NEW v, NEW a, HandedOver(w, v, a, k)
  PROVE  AnchorSkewBounded'
<1> DEFINE low == (PacketSamples - 1) * Second - Rate + 2
           high == PacketSamples * Second + MaxLatency * Rate
<1>1. /\ window' = v /\ anchor' = a
      /\ v.window_start = w.window_start
      /\ v.start_offset = IF w.rtp_base = None THEN WallOffset(w, Rate, now)
                          ELSE w.start_offset
  BY DEF HandedOver, Tracks
<1>2. Skew(v.window_start, v.start_offset, a) \in low .. high
  <2>1. CASE window = None
    <3> DEFINE start == EvenMinuteBoundary(now)
               e == Elapsed(now, start)
               off == WallOffset(w, Rate, now)
    <3>1. /\ a = k /\ w.rtp_base = None /\ e \div Second < CaptureSeconds
          /\ w = NewWindow(start, 1, Rate, CaptureSeconds)
          /\ SentAt(k) <= now /\ now <= SentAt(k) + MaxLatency
      BY <2>1 DEF HandedOver
    <3>2. now \in Nat /\ start \in Nat /\ start <= now
      <4>1. now \in Nat
        BY StreamAssumption DEF IInv, TypeOK
      <4> QED
        BY <4>1, BoundaryBelow
    <3> HIDE DEF start
    <3>3. e \in Nat /\ e = now - start
      BY <3>2 DEF Elapsed, Greater
    <3>4. w.window_start = start /\ w.capacity_samples = Cap
      BY <3>1 DEF NewWindow, Cap
    <3>5. off \in Nat /\ off * Second <= e * Rate /\ e * Rate < off * Second + Second
      <4> HIDE DEF e
      <4>1. e = Elapsed(now, w.window_start)
        BY <3>4 DEF e
      <4> QED
        BY <3>1, <3>3, <3>4, <4>1, FirstOffset
    <3>6. v.start_offset = off /\ v.window_start = start
      BY <1>1, <3>1, <3>4
    <3> HIDE DEF e, off
    <3> DEFINE n == k * PacketSamples * Second
               u == PacketSamples * Second
               x == SentAt(k) * Rate
               l == MaxLatency * Rate
    <3>7. /\ Rate \in Nat /\ PacketSamples \in Nat /\ Second \in Nat
          /\ MaxLatency \in Nat /\ k \in Nat /\ SentAt(k) \in Nat
      BY StreamAssumption, ClockAssumption, PacketInRange, SentBounds
    <3>8. n \in Int /\ u \in Int /\ x \in Int /\ l \in Int
      <4>1. k * PacketSamples \in Int
        BY <3>7
      <4> QED
        BY <3>7, <4>1
    <3>9. x <= n + u /\ n + u < x + Rate
      <4>1. (k + 1) * PacketSamples * Second = n + u
        <5>1. (k + 1) * PacketSamples = k * PacketSamples + PacketSamples
          BY <3>7
        <5>2. k * PacketSamples \in Int
          BY <3>7
        <5> QED
          BY <3>7, <5>1, <5>2
      <4>2. /\ x <= (k + 1) * PacketSamples * Second
            /\ (k + 1) * PacketSamples * Second < x + Rate
        BY <3>7, SentBounds
      <4> QED
        BY <4>1, <4>2
    <3>10. x <= now * Rate /\ now * Rate <= x + l
      <4>1. SentAt(k) * Rate <= now * Rate
        BY <3>1, <3>2, <3>7, TimesMonotone
      <4>2. now * Rate <= (SentAt(k) + MaxLatency) * Rate
        BY <3>1, <3>2, <3>7, TimesMonotone
      <4>3. (SentAt(k) + MaxLatency) * Rate = x + l
        BY <3>7
      <4> QED
        BY <4>1, <4>2, <4>3
    <3>11. e * Rate = now * Rate - start * Rate /\ now * Rate \in Int /\ start * Rate \in Int
      BY <3>2, <3>3, <3>7
    <3>12. low = u - Second - Rate + 2 /\ high = u + l
      BY <3>7
    <3>13. Skew(start, off, k) = (start * Rate + off * Second) - n /\ off * Second \in Int
      BY <3>5, <3>7 DEF Skew
    <3> HIDE DEF n, u, x, l, low, high
    <3>14. Skew(start, off, k) \in low .. high
      <4> DEFINE b == start * Rate
                 c == off * Second
                 d == now * Rate
                 f == e * Rate
      <4>1. /\ b \in Int /\ c \in Int /\ d \in Int /\ f = d - b /\ c <= f /\ f < c + Second
            /\ x <= d /\ d <= x + l /\ Skew(start, off, k) = (b + c) - n
        BY <3>5, <3>10, <3>11, <3>13
      <4> HIDE DEF b, c, d, f
      <4> QED
        BY <3>7, <3>8, <3>9, <3>12, <4>1
    <3> QED
      BY <3>1, <3>6, <3>14
  <2>2. CASE window # None
    <3>1. a = anchor /\ w = window /\ w.rtp_base = Stamp(epoch, a)
      BY <2>2 DEF HandedOver
    <3>2. Stamp(epoch, a) # None
      <4>1. a \in Nat /\ epoch \in RtpTimestamp
        BY DeliverTypes, PacketInRange DEF IInv, TypeOK
      <4>2. Stamp(epoch, a) \in RtpTimestamp
        BY <4>1, StampShift
      <4>3. Stamp(epoch, a) \in Nat
        BY <4>2, WrapAssumption DEF RtpTimestamp
      <4> QED
        BY <4>3, NoneAssumption
    <3>3. v.window_start = window.window_start /\ v.start_offset = window.start_offset
      BY <1>1, <3>1, <3>2
    <3>4. Skew(window.window_start, window.start_offset, anchor) \in low .. high
      BY <2>2 DEF IInv, AnchorSkewBounded, Skew
    <3> QED
      BY <3>1, <3>3, <3>4
  <2> QED
    BY <2>1, <2>2
<1>3. Skew(window'.window_start, window'.start_offset, anchor') \in low .. high
  BY <1>1, <1>2
<1> QED
  BY <1>3 DEF AnchorSkewBounded, Skew

\* The overflow.
LEMMA DeliverFull ==
  ASSUME IInv, NEW k \in Packets, NEW w, NEW v, NEW a, HandedOver(w, v, a, k)
  PROVE  FullIsGenuine'
<1>1. /\ window' = v /\ anchor' = a /\ last' = k /\ seqEpoch' = seqEpoch /\ epoch' = epoch
      /\ sealed' => \/ k >= a /\ Pos(v.start_offset, a, k) + PacketSamples > Cap
                    \/ k < a /\ Stamp(epoch, k) > Stamp(epoch, a)
  BY DEF HandedOver
<1>2. v.capacity_samples = Cap
  BY DeliverTypes
<1>3. sealed' =>
        \/ /\ last' >= anchor'
           /\ Pos(window'.start_offset, anchor', last') + PacketSamples
                > window'.capacity_samples
        \/ last' < anchor' /\ Stamp(epoch', last') > Stamp(epoch', anchor')
  BY <1>1, <1>2
<1> QED
  BY <1>3 DEF FullIsGenuine, Position, Pos, Datagram, Stamp

\* Every step keeps the invariant.
LEMMA Step == ASSUME IInv, [Next]_vars PROVE IInv'
<1>1. CASE UNCHANGED vars
  <2>1. UNCHANGED <<now, epoch, seqEpoch, window, sealed, anchor, delivered, last>>
    BY <1>1 DEF vars
  <2> QED
    BY <2>1 DEF IInv, TypeOK, Opened, Placed, Marked, Gapless, AnchorSkewBounded,
                FullIsGenuine, Filled, Holds, Marks, InOrder, FitsAt, Pos, Stamp,
                SentAt, Position, Datagram
<1>2. CASE Tick
  BY <1>2, TickStep
<1>3. ASSUME NEW k \in Packets, Deliver(k) PROVE IInv'
  <2>1. PICK w, v, a : HandedOver(w, v, a, k)
    BY <1>3, DeliverEffect
  <2>2. TypeOK' /\ Opened'
    BY <2>1, DeliverTypes
  <2>3. Placed' /\ Marked'
    BY <2>1, DeliverPlaces
  <2>4. Gapless' /\ AnchorSkewBounded' /\ FullIsGenuine'
    BY <2>1, DeliverGapless, DeliverSkew, DeliverFull
  <2> QED
    BY <2>2, <2>3, <2>4 DEF IInv
<1> QED
  BY <1>1, <1>2, <1>3 DEF Next

\* It holds of every behaviour.
LEMMA Invariance == Spec => []IInv
<1>1. Init => IInv
  BY Start
<1>2. IInv /\ [Next]_vars => IInv'
  BY Step
<1> QED
  BY <1>1, <1>2, PTL DEF Spec

-----------------------------------------------------------------------------
(* What the invariant implies. *)

\* Which samples of the buffer are not silence.
LEMMA NotSilent ==
  ASSUME IInv, window # None, NEW i \in 1 .. Cap
  PROVE  window.samples[i] # Silence
           <=> Holds(window.start_offset, anchor, delivered, i)
<1>1. anchor \in Nat /\ window.start_offset \in Nat
  BY StoredIs, PacketInRange DEF IInv
<1>2. anchor * PacketSamples + (i - 1 - window.start_offset) \in Int
  <2>1. anchor * PacketSamples \in Int
    BY <1>1, StreamAssumption
  <2> QED
    BY <1>1, <2>1
<1>3. window.samples[i] = IF Holds(window.start_offset, anchor, delivered, i)
                          THEN anchor * PacketSamples + (i - 1 - window.start_offset)
                          ELSE Silence
  BY DEF IInv, Placed, Filled
<1> QED
  BY <1>2, <1>3, SilenceAssumption

\* Filled is the reference buffer.
LEMMA PlacedIsFaithful == ASSUME IInv PROVE FaithfulPlacement
<1> SUFFICES ASSUME window # None PROVE window.samples = ReferenceSamples
  BY DEF FaithfulPlacement
<1> DEFINE s == window.start_offset
           R(i) == \E k \in Stored : i - 1 \in Position(k) .. Position(k) + PacketSamples - 1
<1>1. /\ anchor \in Packets /\ s \in Nat /\ window.capacity_samples = Cap
      /\ Stored = {k \in delivered : FitsAt(s, anchor, k)}
      /\ \A k : Position(k) = Pos(s, anchor, k)
  BY StoredIs DEF IInv, Opened
<1>2. Cap \in Nat /\ delivered \subseteq Packets
  BY StreamAssumption DEF Cap, IInv, TypeOK
<1>3. ASSUME NEW i \in 1 .. Cap PROVE R(i) <=> Holds(s, anchor, delivered, i)
  <2>1. ASSUME NEW k \in Packets
        PROVE  i - 1 \in Position(k) .. Position(k) + PacketSamples - 1
                 <=> (Pos(s, anchor, k) < i /\ i <= Pos(s, anchor, k) + PacketSamples)
    <3>1. Pos(s, anchor, k) \in Int /\ i \in Int /\ PacketSamples \in Int
      <4>1. anchor \in Nat /\ k \in Nat /\ PacketSamples \in Nat
        BY <1>1, PacketInRange, StreamAssumption
      <4>2. (k - anchor) * PacketSamples \in Int
        BY <4>1
      <4> QED
        BY <1>1, <1>2, <4>1, <4>2 DEF Pos
    <3>2. Position(k) = Pos(s, anchor, k)
      BY <1>1
    <3> QED
      BY <3>1, <3>2
  <2> QED
    BY <1>1, <1>2, <2>1 DEF Holds
<1> HIDE DEF R, s
<1>4. ReferenceSamples =
        [i \in 1 .. Cap |-> IF R(i) THEN anchor * PacketSamples + (i - 1 - s) ELSE Silence]
  BY <1>1 DEF ReferenceSamples, R, s
<1>5. ReferenceSamples = Filled(s, anchor, delivered)
  BY <1>3, <1>4 DEF Filled
<1> QED
  BY <1>5 DEF IInv, Placed, s

\* The mark is one past the last sample that is not silence.
LEMMA MarkedIsHigh == ASSUME IInv PROVE HighWaterMark
<1> SUFFICES ASSUME window # None PROVE HighWaterMark
  BY DEF HighWaterMark
<1> DEFINE s == window.start_offset
           m == window.samples_written
           written == {i \in 1 .. Cap : window.samples[i] # Silence}
<1>1. /\ anchor \in Packets /\ s \in Nat /\ window.capacity_samples = Cap
      /\ m \in Nat /\ m <= Cap /\ delivered \subseteq Packets
  BY StoredIs DEF IInv, Opened, TypeOK, WellFormed, Window
<1>2. Marks(m, s, anchor, delivered)
  BY DEF IInv, Marked
<1>3. /\ Cap \in Nat /\ PacketSamples \in Nat \ {0}
      /\ \A k \in delivered : Pos(s, anchor, k) \in Int
  <2>1. Cap \in Nat /\ PacketSamples \in Nat \ {0}
    BY StreamAssumption DEF Cap
  <2>2. ASSUME NEW k \in delivered PROVE Pos(s, anchor, k) \in Int
    <3>1. anchor \in Nat /\ k \in Nat
      BY <1>1, PacketInRange
    <3>2. (k - anchor) * PacketSamples \in Int
      BY <2>1, <3>1
    <3> QED
      BY <1>1, <3>2 DEF Pos
  <2> QED
    BY <2>1, <2>2
<1>4. \A i \in 1 .. Cap : i \in written <=> Holds(s, anchor, delivered, i)
  BY NotSilent
<1> HIDE DEF s, m, written
<1>5. ASSUME NEW i \in written PROVE i <= m
  <2>1. i \in 1 .. Cap
    BY DEF written
  <2>2. PICK k \in delivered : FitsAt(s, anchor, k) /\ i <= Pos(s, anchor, k) + PacketSamples
    BY <1>4, <2>1 DEF Holds
  <2>3. Pos(s, anchor, k) + PacketSamples <= m
    BY <1>2, <2>2 DEF Marks
  <2> QED
    BY <1>1, <1>3, <2>1, <2>2, <2>3
<1>6. ASSUME m > 0 PROVE m \in written
  <2>1. PICK k \in delivered : FitsAt(s, anchor, k) /\ m = Pos(s, anchor, k) + PacketSamples
    BY <1>2, <1>6 DEF Marks
  <2>2. Pos(s, anchor, k) < m /\ m <= Pos(s, anchor, k) + PacketSamples
    BY <1>1, <1>3, <2>1
  <2>3. m \in 1 .. Cap
    BY <1>1, <1>3, <1>6
  <2> QED
    BY <1>4, <2>1, <2>2, <2>3 DEF Holds
<1>7. written = {i \in 1 .. window.capacity_samples : window.samples[i] # Silence}
  BY <1>1 DEF written
<1> QED
  BY <1>5, <1>6, <1>7 DEF HighWaterMark, m

\* Between the anchor and the packet that ends at the mark nothing is missing.
LEMMA GaplessHasNoHole == ASSUME IInv PROVE NoGapNoHole
<1> SUFFICES ASSUME window # None, window.gap_count = 0,
                    NEW i \in window.start_offset + 1 .. window.samples_written
             PROVE  window.samples[i] # Silence
  BY DEF NoGapNoHole
<1> DEFINE s == window.start_offset
           n == window.samples_written
           d == (i - 1) - s
           j == d \div PacketSamples
           k == anchor + j
<1>1. /\ anchor \in Packets /\ s \in Nat /\ n \in Nat /\ n <= Cap
      /\ delivered \subseteq Packets
  BY StoredIs DEF IInv, Opened, TypeOK, WellFormed, Window
<1>2. /\ anchor \in Nat /\ PacketSamples \in Nat \ {0} /\ Cap \in Nat
  BY <1>1, PacketInRange, StreamAssumption DEF Cap
<1>3. InOrder(s, anchor, delivered, last)
  BY DEF IInv, Gapless
<1>4. i \in s + 1 .. n
  OBVIOUS
<1>5. Marks(n, s, anchor, delivered)
  BY DEF IInv, Marked
<1> HIDE DEF s, n
<1>6. i \in 1 .. Cap /\ n > 0 /\ d \in Nat
  BY <1>1, <1>2, <1>4
<1>7. PICK m \in delivered :
        FitsAt(s, anchor, m) /\ n = Pos(s, anchor, m) + PacketSamples
  BY <1>5, <1>6 DEF Marks
<1>8. m \in Nat /\ m \in Packets /\ anchor <= m
  BY <1>1, <1>7, PacketInRange DEF FitsAt
<1>9. j \in Nat /\ j * PacketSamples <= d /\ d < j * PacketSamples + PacketSamples
  BY <1>2, <1>6, Quotient
<1>10. d = (i - 1) - s
  OBVIOUS
<1> HIDE DEF d, j
<1>11. j <= m - anchor
  <2> SUFFICES ASSUME m - anchor + 1 <= j PROVE FALSE
    BY <1>2, <1>8, <1>9
  <2>1. (m - anchor + 1) * PacketSamples <= j * PacketSamples
    BY <1>2, <1>8, <1>9, TimesMonotone
  <2>2. /\ (m - anchor + 1) * PacketSamples = (m - anchor) * PacketSamples + PacketSamples
        /\ (m - anchor) * PacketSamples \in Int /\ j * PacketSamples \in Int
    BY <1>2, <1>8, <1>9
  <2>3. n = s + (m - anchor) * PacketSamples + PacketSamples
    BY <1>7 DEF Pos
  <2>4. d <= n - 1 - s
    BY <1>1, <1>4, <1>10
  <2> QED
    BY <1>1, <1>2, <1>6, <1>9, <2>1, <2>2, <2>3, <2>4
<1>12. k \in anchor .. m /\ k - anchor = j
  BY <1>2, <1>8, <1>9, <1>11
<1>13. k \in delivered
  <2>1. anchor .. m \subseteq delivered
    BY <1>3, <1>7 DEF InOrder
  <2> QED
    BY <1>12, <2>1
<1> HIDE DEF k
<1>14. FitsAt(s, anchor, k)
  <2>1. k \in Packets /\ anchor <= k /\ k <= m
    BY <1>1, <1>2, <1>8, <1>12, <1>13
  <2> QED
    BY <1>1, <1>7, <1>8, <2>1, FitsBelow
<1>15. Pos(s, anchor, k) < i /\ i <= Pos(s, anchor, k) + PacketSamples
  <2>1. Pos(s, anchor, k) = s + j * PacketSamples /\ j * PacketSamples \in Int
    BY <1>2, <1>9, <1>12 DEF Pos
  <2>2. i \in Int
    BY <1>6
  <2> QED
    BY <1>1, <1>2, <1>9, <1>10, <2>1, <2>2
<1>16. Holds(s, anchor, delivered, i)
  BY <1>13, <1>14, <1>15 DEF Holds
<1> QED
  BY <1>6, <1>16, NotSilent DEF s

-----------------------------------------------------------------------------
\* However packets are lost, duplicated and reordered, and for every length,
\* rate and width of the counters, the variables keep their types; the window
\* stays well formed: no write lands outside its buffer (buffer.rs: ingest).
THEOREM TypeCorrect == Spec => []TypeOK
<1>1. IInv => TypeOK
  BY DEF IInv
<1> QED
  BY <1>1, Invariance, PTL

\* The buffer is at all times the one computed from the set of packets that
\* arrived: each at its true distance from the anchor, silence elsewhere,
\* across every wrap of the RTP clock (buffer.rs: ingest's displacement).
THEOREM FaithfulPlacementCorrect == Spec => []FaithfulPlacement
<1>1. IInv => FaithfulPlacement
  BY PlacedIsFaithful
<1> QED
  BY <1>1, Invariance, PTL

\* A window that counted no gap has no hole before its high-water mark: no
\* wrap of the sequence numbers hides a loss (buffer.rs: gap detection).
THEOREM NoGapNoHoleCorrect == Spec => []NoGapNoHole
<1>1. IInv => NoGapNoHole
  BY GaplessHasNoHole
<1> QED
  BY <1>1, Invariance, PTL

\* samples_written is one past the last sample received, whatever the order of
\* arrival (buffer.rs: samples_written in ingest).
THEOREM HighWaterMarkCorrect == Spec => []HighWaterMark
<1>1. IInv => HighWaterMark
  BY MarkedIsHigh
<1> QED
  BY <1>1, Invariance, PTL

\* The buffer's time axis is late by the anchoring packet's duration and
\* transit time and two roundings, never by more (buffer.rs: the wall-clock
\* anchor of the first packet).
THEOREM AnchorSkewBoundedCorrect == Spec => []AnchorSkewBounded
<1>1. IInv => AnchorSkewBounded
  BY DEF IInv
<1> QED
  BY <1>1, Invariance, PTL

\* A window overflows only for a packet that ends past its capacity, or for an
\* early one when the RTP clock wrapped between it and the anchor (buffer.rs:
\* BufferOverflow).
THEOREM FullIsGenuineCorrect == Spec => []FullIsGenuine
<1>1. IInv => FullIsGenuine
  BY DEF IInv
<1> QED
  BY <1>1, Invariance, PTL
=============================================================================
