----------------------------- MODULE StatusTlv ------------------------------
(***************************************************************************)
(* status.rs on one datagram: the walk over the TLV chain, the values it   *)
(* decodes and what they change in the channel map, as operators.          *)
(*                                                                         *)
(* A byte is a number, a datagram a sequence of bytes; position p is the   *)
(* code's buf[p - 1].  A 32-bit or 64-bit value is the tuple of its bytes, *)
(* most significant first, so that nothing exceeds TLC's integers.         *)
(***************************************************************************)
EXTENDS Naturals, SequencesExt

CONSTANT NoValue  \* Rust's Option::None

ASSUME NoValueAssumption ==
  /\ NoValue \notin Nat /\ NoValue \notin Seq(Nat)
  /\ NoValue \notin [len : Nat, pos : Nat]

PKT_STATUS == 0
EOL == 0
TAG_OUTPUT_SSRC == 18
TAG_OUTPUT_SAMPRATE == 20
TAG_RADIO_FREQUENCY == 33
TAG_OUTPUT_CHANNELS == 49
TAG_RTP_PT == 105
TAG_OUTPUT_ENCODING == 107

-----------------------------------------------------------------------------
(* Values *)

Register(n) == [i \in 1 .. n |-> 0]

\* acc = (acc << 8) | byte, in a u64.
ShiftIn(acc, byte) == Append(Tail(acc), byte)
AsU64(value) ==
  LET acc[i \in 0 .. Len(value)] ==
        IF i = 0 THEN Register(8) ELSE ShiftIn(acc[i - 1], value[i])
  IN  acc[Len(value)]

\* decode_u32: the low half of the accumulator.
DecodeU32(value) == SubSeq(AsU64(value), 5, 8)

\* decode_f64: the accumulator is the bit pattern.
DecodeF64(value) == AsU64(value)

\* decode_u32(value) as u8
DecodeU8(value) == AsU64(value)[8]

-----------------------------------------------------------------------------
(* read_tlv_len *)

\* The length bytes of a field in the long form: big-endian.
BigEndian(bytes) ==
  LET len[i \in 0 .. Len(bytes)] ==
        IF i = 0 THEN 0 ELSE len[i - 1] * 256 + bytes[i]
  IN  len[Len(bytes)]

\* The length at p and the position behind it: a byte below 0x80 is the length,
\* one above gives the number of bytes, 1 to 4, that hold it.
ReadTlvLen(buf, p) ==
  IF p > Len(buf) THEN NoValue
  ELSE LET n == buf[p] % 128
       IN  IF buf[p] < 128 THEN [len |-> buf[p], pos |-> p + 1]
           ELSE IF n = 0 \/ n > 4 \/ p + n > Len(buf) THEN NoValue
           ELSE [len |-> BigEndian(SubSeq(buf, p + 1, p + n)), pos |-> p + n + 1]

-----------------------------------------------------------------------------
(* process_status_packet *)

IsStatus(buf) == buf # <<>> /\ buf[1] = PKT_STATUS

\* The fields from position p on, up to the EOL tag, the first malformed field
\* or the end of the datagram.
FieldsFrom(buf) ==
  LET F[p \in Nat] ==
        LET l == ReadTlvLen(buf, p + 1)
        IN  IF \/ p > Len(buf) \/ buf[p] = EOL
               \/ l = NoValue \/ l.pos + l.len - 1 > Len(buf)
            THEN <<>>
            ELSE <<[tag |-> buf[p], value |-> SubSeq(buf, l.pos, l.pos + l.len - 1)]>>
                   \o F[l.pos + l.len]
  IN F

LastOf_First(fields, tag) ==  \* mutant: the first of equal tags counts
  LET places == {i \in 1 .. Len(fields) : fields[i].tag = tag}
  IN  IF places = {} THEN NoValue ELSE fields[Min(places)].value

\* A tag that occurs again replaces what it said before.
LastOf(fields, tag) ==
  LET places == {i \in 1 .. Len(fields) : fields[i].tag = tag}
  IN  IF places = {} THEN NoValue ELSE fields[Max(places)].value

\* Option::map
Mapped(F(_), value) == IF value = NoValue THEN NoValue ELSE F(value)

\* struct StatusUpdate: what the fields report.
StatusUpdate(fields) ==
  [ssrc           |-> Mapped(DecodeU32, LastOf(fields, TAG_OUTPUT_SSRC)),
   center_freq_hz |-> Mapped(DecodeF64, LastOf(fields, TAG_RADIO_FREQUENCY)),
   sample_rate_hz |-> Mapped(DecodeU32, LastOf(fields, TAG_OUTPUT_SAMPRATE)),
   channels       |-> Mapped(DecodeU8, LastOf(fields, TAG_OUTPUT_CHANNELS)),
   pt             |-> Mapped(DecodeU8, LastOf(fields, TAG_RTP_PT)),
   encoding       |-> Mapped(DecodeU8, LastOf(fields, TAG_OUTPUT_ENCODING))]

\* ChannelInfo::default()
DefaultInfo == [center_freq_hz |-> Register(8), sample_rate_hz |-> Register(4),
                channels |-> 0, pt |-> 0, encoding |-> 0]

\* The channel map is a function on the SSRCs it knows.
Applied(map, u) ==
  LET known == IF u.ssrc \in DOMAIN map THEN map[u.ssrc] ELSE DefaultInfo
      info  == [f \in DOMAIN known |-> IF u[f] = NoValue THEN known[f] ELSE u[f]]
  IN  [s \in DOMAIN map \cup {u.ssrc} |-> IF s = u.ssrc THEN info ELSE map[s]]

\* What process_status_packet returns, and the map it leaves.
ProcessStatusPacket(buf, map) ==
  LET u == StatusUpdate(FieldsFrom(buf)[2])
  IN  IF IsStatus(buf) /\ u.ssrc # NoValue
      THEN [ssrc |-> u.ssrc, map |-> Applied(map, u)]
      ELSE [ssrc |-> NoValue, map |-> map]

-----------------------------------------------------------------------------
PeekFrom_NoBounds(buf) ==  \* mutant: a value cut short is taken
  LET P[p \in Nat] ==
        LET l == ReadTlvLen(buf, p + 1)
        IN  IF p > Len(buf) \/ buf[p] = EOL \/ l = NoValue THEN NoValue
            ELSE IF buf[p] = TAG_OUTPUT_SSRC
            THEN DecodeU32(SubSeq(buf, l.pos, Min({l.pos + l.len - 1, Len(buf)})))
            ELSE P[l.pos + l.len]
  IN P

\* peek_ssrc: a walk of its own, which ends at the first SSRC.
PeekFrom(buf) ==
  LET P[p \in Nat] ==
        LET l == ReadTlvLen(buf, p + 1)
        IN  IF \/ p > Len(buf) \/ buf[p] = EOL
               \/ l = NoValue \/ l.pos + l.len - 1 > Len(buf)
            THEN NoValue
            ELSE IF buf[p] = TAG_OUTPUT_SSRC
            THEN DecodeU32(SubSeq(buf, l.pos, l.pos + l.len - 1))
            ELSE P[l.pos + l.len]
  IN P

PeekSsrc(buf) == IF IsStatus(buf) THEN PeekFrom(buf)[2] ELSE NoValue
=============================================================================
