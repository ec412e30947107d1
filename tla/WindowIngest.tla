---------------------------- MODULE WindowIngest ----------------------------
(***************************************************************************)
(* One SSRC and one capture window, fed by a network that loses,           *)
(* duplicates and reorders packets: what buffer_task's packet arm and      *)
(* AudioWindow::ingest do to a window from the packet that opens it to the *)
(* packet that overflows it.  Capture adds the sealing timer, the queues   *)
(* and several streams.                                                    *)
(*                                                                         *)
(* The source samples without pause: sample t is taken at clock time       *)
(* t * Second / Rate, and packet k carries samples k * PacketSamples up to *)
(* (k + 1) * PacketSamples - 1 and is sent when the last of them is over.  *)
(* A packet arrives, any number of times, at most MaxLatency after it was  *)
(* sent, or never.                                                         *)
(***************************************************************************)
EXTENDS AudioWindow, FiniteSets

CONSTANTS CaptureSeconds,  \* config: seconds of audio in a window
          Rate,            \* the stream's sample rate, samples per second
          PacketSamples,   \* samples in a packet
          MaxLatency,      \* bound on a packet's transit time, in clock units
          MaxNow,          \* bound on the clock
          MaxGaps          \* bound on gap_count

ASSUME StreamAssumption == /\ CaptureSeconds \in Nat \ {0}
                           /\ Rate \in Nat \ {0}
                           /\ PacketSamples \in Nat \ {0}
                           /\ MaxLatency \in Nat
                           /\ MaxNow \in Nat /\ MaxGaps \in Nat

\* Half the RTP range exceeds the audio of a window plus the audio in flight,
\* so that it tells ahead from behind, and the whole range exceeds the run: the
\* sealing timer, which is in Capture, ends a window long before 2^32 samples.
ASSUME RangeIsWide ==
  /\ RtpWrap > 2 * (Rate * CaptureSeconds + (MaxLatency * Rate) \div Second)
  /\ RtpWrap > (MaxNow * Rate) \div Second

\* SeqWrap packets, 2^16 in the code, hold more audio than a window, and more
\* than can be in flight.
ASSUME SeqIsWide ==
  /\ SeqWrap * PacketSamples >= Rate * CaptureSeconds
  /\ (SeqWrap - 1) * PacketSamples * Second >= (MaxLatency + 1) * Rate

VARIABLES now,        \* the wall clock
          epoch,      \* RTP timestamp of sample 0: the source's clock origin
          seqEpoch,   \* RTP sequence number of packet 0
          window,     \* the SSRC's entry in windows, or None
          sealed,     \* ingest returned BufferOverflow and the window left
          anchor,     \* the packet that anchored the window (auxiliary)
          delivered,  \* every packet handed to ingest (auxiliary)
          last        \* the packet handed to ingest last (auxiliary)

vars == <<now, epoch, seqEpoch, window, sealed, anchor, delivered, last>>

-----------------------------------------------------------------------------
\* When packet k is complete and leaves the source.
SentAt(k) == ((k + 1) * PacketSamples * Second) \div Rate

Packets == 0 .. (MaxNow * Rate) \div (PacketSamples * Second)

\* The datagram that carries packet k.
Datagram(k) ==
  [ssrc      |-> 0,
   sequence  |-> (seqEpoch + k) % SeqWrap,
   timestamp |-> (epoch + k * PacketSamples) % RtpWrap,
   payload   |-> [i \in 1 .. PacketSamples |-> k * PacketSamples + i - 1]]

-----------------------------------------------------------------------------
Init == /\ now = 0
        /\ epoch \in RtpTimestamp
        /\ seqEpoch \in SeqNumber
        /\ window = None
        /\ sealed = FALSE
        /\ anchor = None
        /\ delivered = {}
        /\ last = None

Tick == /\ now < MaxNow
        /\ now' = now + 1
        /\ UNCHANGED <<epoch, seqEpoch, window, sealed, anchor, delivered, last>>

\* The window a packet goes to: the open one, or a new one unless the capture
\* part of the cycle is over.
Entry == 
  IF window # None THEN {window}
  ELSE LET start == EvenMinuteBoundary(now)
       IN  IF Elapsed(now, start) \div Second >= CaptureSeconds THEN {}
           ELSE {NewWindow(start, 1, Rate, CaptureSeconds)}

\* Packet k arrives and goes through buffer_task's packet arm.
Deliver(k) ==
  /\ ~sealed
  /\ SentAt(k) <= now /\ now <= SentAt(k) + MaxLatency
  /\ \E w \in Entry :
       LET r == Ingest(w, Datagram(k), Rate, ENC_S16BE, now)
       IN  /\ r.window.gap_count <= MaxGaps
           /\ window' = r.window
           /\ sealed' = (r.result = "BufferOverflow")
           /\ anchor' = IF anchor = None THEN k ELSE anchor
  /\ delivered' = delivered \cup {k}
  /\ last' = k
  /\ UNCHANGED <<now, epoch, seqEpoch>>

Next == Tick \/ \E k \in Packets : Deliver(k)

Spec == Init /\ [][Next]_vars

-----------------------------------------------------------------------------
TypeOK == /\ now \in 0 .. MaxNow
          /\ epoch \in RtpTimestamp
          /\ seqEpoch \in SeqNumber
          /\ window # None => WellFormed(window)
          /\ sealed \in BOOLEAN
          /\ anchor \in Packets \cup {None}
          /\ delivered \subseteq Packets
          /\ last \in Packets \cup {None}

\* The index in samples where packet k belongs: as far from the anchor in the
\* buffer as it is on the source's clock.
Position(k) == window.start_offset + (k - anchor) * PacketSamples

\* The packets that belong in the window and were handed to it.
Stored == {k \in delivered : /\ k >= anchor
                             /\ Position(k) + PacketSamples
                                  <= window.capacity_samples}

\* What the buffer must hold, computed from the set of packets alone: each
\* delivered packet at its place, silence elsewhere.
ReferenceSamples ==
  [i \in 1 .. window.capacity_samples |->
     IF \E k \in Stored : i - 1 \in Position(k) .. Position(k) + PacketSamples - 1
     THEN anchor * PacketSamples + (i - 1 - window.start_offset)
     ELSE Silence]

\* Whatever is lost, duplicated or reordered, and wherever the RTP clock wraps,
\* the buffer holds the delivered packets at their true distance from the
\* anchor and silence in the holes (buffer.rs: ingest).
FaithfulPlacement == window # None => window.samples = ReferenceSamples

\* A window with gap_count = 0 has no hole between its first and its last
\* sample: the sequence numbers never wrap far enough to hide a loss
\* (buffer.rs: gap detection, with last_seq kept across every packet).
NoGapNoHole ==
  (window # None /\ window.gap_count = 0) =>
    \A i \in window.start_offset + 1 .. window.samples_written :
      window.samples[i] # Silence

\* samples_written, which the progress bar and the sealing log show, stays one
\* past the last sample that was received, in any order of arrival.
HighWaterMark ==
  window # None =>
    LET written == {i \in 1 .. window.capacity_samples :
                      window.samples[i] # Silence}
    IN  /\ \A i \in written : i <= window.samples_written
        /\ window.samples_written > 0 => window.samples_written \in written

\* The buffer's time axis is late by the anchoring packet's duration and by the
\* time from its sending to its ingestion, no more: rounded once, never
\* accumulated, whatever the RTP epoch.  Here that time is at most MaxLatency;
\* in the program a packet may wait in the channel as well, which Capture's
\* AnchorAtArrival is about.  The skew counts Rate-ths of a clock unit between
\* the place of the anchor's first sample and the time it was taken; a sample
\* and a unit of it are the two roundings (buffer.rs: the wall-clock anchor of
\* the first packet).
AnchorSkewBounded ==
  window # None =>
    LET stood == window.window_start * Rate + window.start_offset * Second
        taken == anchor * PacketSamples * Second
    IN  stood - taken \in (PacketSamples - 1) * Second - Rate + 2
                            .. PacketSamples * Second + MaxLatency * Rate

\* A window overflows only for a packet whose samples end past its capacity,
\* or for one from before the anchor when the RTP clock has wrapped between
\* the two: Delta takes that packet to be most of the range ahead.
FullIsGenuine ==
  sealed => \/ /\ last >= anchor
               /\ Position(last) + PacketSamples > window.capacity_samples
            \/ /\ last < anchor
               /\ Datagram(last).timestamp > Datagram(anchor).timestamp

\* buffer.rs:194 says of a packet from before the anchor "Packet arrived
\* slightly before the anchor (reorder or duplicate); discard": such a packet
\* never changes what becomes of the window.
EarlyPacketDiscarded == sealed => last >= anchor
=============================================================================
