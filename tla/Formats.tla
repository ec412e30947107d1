------------------------------ MODULE Formats -------------------------------
(***************************************************************************)
(* The byte and text formats at the program's edges, each checked against  *)
(* what stands at the other side: radiod's status packets and RTP packets, *)
(* cut anywhere by the network, the lines of wsprd's ALL_WSPR.TXT, one     *)
(* word of which may be damaged, and a reader of the WAV file.             *)
(*                                                                         *)
(* The writer of an input puts it together part by part; the properties    *)
(* say of every input what the code makes of it.                           *)
(***************************************************************************)
EXTENDS StatusTlv, RtpParse, WsprLine, WavFile

CONSTANTS FieldSet,      \* the TLV fields of status packets
          OtherSsrc,     \* an SSRC in the channel map before the packet
          Words,         \* replacements for a word of a line
          SampleSet,     \* the samples of a window
          SampleRate,    \* the windows' sample rate
          WordCounts,    \* the words that an RTP header extension may have
          MaxFields, MaxLines, MaxSamples, MaxCsrc, MaxPayload, MaxPadding

Bytes == 0 .. 255
TypeNames == {"i32", "f32", "f64", "u8", "u32"}
CharClasses == {"major", "minor", "digit"}

\* What the last bytes of a number count.
Places == <<1, 256, 65536, 16777216>>

\* Fields and samples are bytes, and a value's length fits into the bytes that
\* its form has for it; a word is what parsing asks of it.
ASSUME FormatsAssumption ==
  /\ FieldSet \subseteq [tag : Bytes, value : Seq(Bytes), long : 0 .. 5 \cup {NoValue}]
  /\ \A f \in FieldSet : /\ f.long = NoValue => Len(f.value) < 128
                         /\ f.long \in 1 .. 4 => Len(f.value) \div Places[f.long] < 256
  /\ Words \subseteq [types : SUBSET TypeNames, chars : Seq(SUBSET CharClasses)]
  /\ SampleSet \subseteq Bytes \X Bytes
  /\ {MaxFields, MaxLines, MaxSamples, MaxPayload} \subseteq Nat
  /\ MaxCsrc \in 0 .. 15 /\ MaxPadding \in Bytes
  /\ WordCounts \subseteq Nat /\ \A n \in WordCounts : n < 65536
  /\ U32Wrap \in Nat /\ SampleRate \in 0 .. U32Wrap - 1

VARIABLES kind,   \* which format the input is of
          input   \* its parts, in order

vars == <<kind, input>>

-----------------------------------------------------------------------------
(* radiod's status packets *)

\* A length in n bytes, big-endian; it fits in four.
InBytes(v, n) == [i \in 1 .. n |-> IF n - i > 3 THEN 0 ELSE (v \div Places[n - i + 1]) % 256]

\* A field in the short form, in the long form with 1 to 4 length bytes, in a
\* long form that is not valid (0 or 5 of them), or the end of the list.
EncodeField(f) ==
  IF f.tag = EOL THEN <<EOL>>
  ELSE IF f.long = NoValue THEN <<f.tag, Len(f.value)>> \o f.value
  ELSE <<f.tag, 128 + f.long>> \o InBytes(Len(f.value), f.long) \o f.value

\* A packet with these fields.
StatusPacket(pkt_type, fields) ==
  <<pkt_type>> \o FlattenSeq([i \in 1 .. Len(fields) |-> EncodeField(fields[i])])

EndOfField(fields, i) == Len(StatusPacket(PKT_STATUS, SubSeq(fields, 1, i)))

\* The fields that a reader of the first n bytes can know: those that are
\* there as a whole, up to the end of the list or an invalid length.
Whole(fields, n) ==
  LET stop == {i \in 1 .. Len(fields) : \/ fields[i].tag = EOL \/ fields[i].long \in {0, 5}
                                        \/ EndOfField(fields, i) > n}
  IN  IF stop = {} THEN fields ELSE SubSeq(fields, 1, Min(stop) - 1)

\* The last size bytes of a value, with zeros in front.
LowBytes(value, size) ==
  LET padded == Register(size) \o value
  IN  SubSeq(padded, Len(padded) - size + 1, Len(padded))

Says(fields, tag) == {i \in 1 .. Len(fields) : fields[i].tag = tag}

\* What the whole fields say of a tag, or else what was known before.
Told(fields, tag, size, old) ==
  IF Says(fields, tag) = {} THEN old
  ELSE LowBytes(fields[Max(Says(fields, tag))].value, size)

\* The map after the packet, told by its whole fields alone.
ReferenceMap(fields, map) ==
  IF Says(fields, TAG_OUTPUT_SSRC) = {} THEN map
  ELSE LET s   == Told(fields, TAG_OUTPUT_SSRC, 4, <<>>)
           old == IF s \in DOMAIN map THEN map[s] ELSE DefaultInfo
           Byte(tag, known) == Told(fields, tag, 1, <<known>>)[1]
       IN  [r \in DOMAIN map \cup {s} |->
              IF r # s THEN map[r]
              ELSE [center_freq_hz |-> Told(fields, TAG_RADIO_FREQUENCY, 8, old.center_freq_hz),
                    sample_rate_hz |-> Told(fields, TAG_OUTPUT_SAMPRATE, 4, old.sample_rate_hz),
                    channels       |-> Byte(TAG_OUTPUT_CHANNELS, old.channels),
                    pt             |-> Byte(TAG_RTP_PT, old.pt),
                    encoding       |-> Byte(TAG_OUTPUT_ENCODING, old.encoding)]]

\* The map knows nothing, or one stream in full.
KnownInfo == [center_freq_hz |-> LowBytes(<<64, 1>>, 8),
              sample_rate_hz |-> LowBytes(<<46, 224>>, 4),
              channels |-> 1, pt |-> 122, encoding |-> 2]
Maps == {<<>>, [s \in {OtherSsrc} |-> KnownInfo]}

-----------------------------------------------------------------------------
(* RTP packets *)

\* version, octets of padding, CSRC entries, words of the extension or none,
\* octets of payload.
RtpInputs == [version : {1, 2}, padding : 0 .. MaxPadding, csrc : 0 .. MaxCsrc,
              words : WordCounts \cup {NoValue}, payload : 0 .. MaxPayload]

\* The bytes behind the fixed header are all different where it matters.
RtpHeaders(r) ==
  LET p     == IF r.padding = 0 THEN 0 ELSE 1
      x     == IF r.words = NoValue THEN 0 ELSE 1
      fixed == <<r.version * 64 + p * 32 + x * 16 + r.csrc, 128 + 122,
                 1, 2, 3, 4, 5, 6, 7, 8, 9, 10>>
      ext   == IF r.words = NoValue THEN <<>>
               ELSE <<190, 222, r.words \div 256, r.words % 256>>
                      \o [i \in 1 .. 4 * r.words |-> (60 + i) % 256]
  IN  fixed \o [i \in 1 .. 4 * r.csrc |-> 20 + i] \o ext

\* The payload, and the padding, whose last octet counts it.
RtpBehind(r) ==
  [i \in 1 .. r.payload |-> 100 + i]
    \o [i \in 1 .. r.padding |-> IF i = r.padding THEN r.padding ELSE 0]

RtpBytes(r) == RtpHeaders(r) \o RtpBehind(r)

-----------------------------------------------------------------------------
(* wsprd's lines *)

Texts == Nat \X SUBSET TypeNames

ASSUME NoSpotAssumption == NoSpot \notin WsprSpot(Texts)

\* Word i of a line; its text names its place.
Word(i, types, chars) == [text |-> <<i, types>>, types |-> types, chars |-> chars]
Opaque == {}
Small == {"i32", "f32", "f64", "u8", "u32"}
Integer == {"i32", "f32", "f64"}
Real == {"f32", "f64"}
Letters == <<{"major", "minor"}, {"major", "minor"}, {"digit"}, {"digit"}>>
SixChars == Letters \o <<{"minor"}, {"minor"}>>

\* The words of type-1, type-2 and type-3 messages, as decode.rs:278-293 has
\* them; the last word's place is 17 in each.
LineOf(type) ==
  LET head == <<Word(1, Opaque, <<>>), Word(2, Opaque, <<>>), Word(3, Integer, <<>>),
                Word(4, Real, <<>>), Word(5, Real, <<>>), Word(6, Opaque, <<>>)>>
      grid == IF type = 2 THEN <<>>
              ELSE <<Word(7, Opaque, IF type = 1 THEN Letters ELSE SixChars)>>
      tail == <<Small, Integer, Real, Small, Small, Integer, Small, Small, Small,
                Integer>>
  IN  head \o grid \o [i \in 1 .. 10 |-> Word(7 + i, tail[i], <<>>)]

\* A line as it was read: untouched, with a word lost, with a word replaced by
\* another, or blank.
Damages(type) ==
  LET n == Len(LineOf(type))
  IN  [op : {"none", "blank"}] \cup [op : {"lost"}, at : 1 .. n]
        \cup [op : {"replaced"}, at : 1 .. n, by : Words]

Lines == UNION {[type : {t}, damage : Damages(t)] : t \in 1 .. 3}

WordsOf(line) ==
  LET l == LineOf(line.type)
      d == line.damage
  IN  CASE d.op = "none"     -> l
        [] d.op = "blank"    -> <<>>
        [] d.op = "lost"     -> RemoveAt(l, d.at)
        [] d.op = "replaced" -> [l EXCEPT ![d.at] = Word(0, d.by.types, d.by.chars)]

\* The lines of a file: as wsprd writes them, with a word lost, or with a byte
\* in them that is not UTF-8.
FileLines == {"whole", "unreadable", "not utf8"}

\* The file that a decode leaves: without a line there is none.
FileOf(lines) ==
  [read  |-> IF lines = <<>> THEN "not found"
             ELSE IF \E i \in 1 .. Len(lines) : lines[i] = "not utf8" THEN "not utf8"
             ELSE "read",
   lines |-> [i \in 1 .. Len(lines) |->
                IF lines[i] = "whole" THEN LineOf(1) ELSE RemoveAt(LineOf(1), 3)]]

\* wsprd cannot be started, fails, or succeeds.
Exits == {"not spawned", "failure", "success"}

WindowStart == 3 * DaySeconds + 23 * 3600 + 58 * 60

-----------------------------------------------------------------------------
(* Windows *)

\* A window with these samples: as many as it has room for (buffer.rs:233-238).
WindowOf(samples) == [sample_rate_hz |-> SampleRate, capacity_samples |-> Len(samples),
                      samples |-> samples]

-----------------------------------------------------------------------------
Init == \/ kind \in {"status", "cmd", "txt", "file", "wav"} /\ input = <<>>
        \/ kind = "rtp" /\ \E r \in RtpInputs : input = <<r>>

AddField == /\ kind \in {"status", "cmd"} /\ Len(input) < MaxFields
            /\ \E f \in FieldSet : input' = Append(input, f)
            /\ UNCHANGED kind

AddLine == /\ kind = "txt" /\ Len(input) < MaxLines
           /\ \E l \in Lines : input' = Append(input, l)
           /\ UNCHANGED kind

AddFileLine == /\ kind = "file" /\ Len(input) < MaxLines
               /\ \E l \in FileLines : input' = Append(input, l)
               /\ UNCHANGED kind

AddSample == /\ kind = "wav" /\ Len(input) < MaxSamples
             /\ \E s \in SampleSet : input' = Append(input, s)
             /\ UNCHANGED kind

Next == AddField \/ AddLine \/ AddFileLine \/ AddSample

Spec == Init /\ [][Next]_vars

-----------------------------------------------------------------------------
\* A status packet changes the channel map by exactly the fields that came
\* through whole, wherever it is cut: nothing is read out of a value, past an
\* invalid length or behind the end of the list, the last of equal tags wins,
\* wide values keep their low bytes and no other stream is touched; a packet
\* of another type changes nothing (status.rs:109-197 and 325-383).
StatusExact ==
  kind \in {"status", "cmd"} =>
    LET d == StatusPacket(IF kind = "cmd" THEN 1 ELSE PKT_STATUS, input) IN
      \A n \in 0 .. Len(d), map \in Maps :
        ProcessStatusPacket(SubSeq(d, 1, n), map).map =
          IF kind = "cmd" THEN map ELSE ReferenceMap(Whole(input, n), map)

\* peek_ssrc, which walks the packet on its own before it is processed, finds
\* an SSRC exactly when processing does, and the same one unless the packet
\* has several; so readiness is looked up for the stream that is updated
\* (status.rs:238-249).
PeekAgrees ==
  kind \in {"status", "cmd"} =>
    LET d == StatusPacket(IF kind = "cmd" THEN 1 ELSE PKT_STATUS, input) IN
      \A n \in 0 .. Len(d) :
        LET seen      == PeekSsrc(SubSeq(d, 1, n))
            processed == ProcessStatusPacket(SubSeq(d, 1, n), <<>>).ssrc
        IN  /\ seen = NoValue <=> processed = NoValue
            /\ Cardinality(Says(Whole(input, n), TAG_OUTPUT_SSRC)) <= 1 =>
                 seen = processed

\* An RTP packet cut anywhere yields what is left behind its headers, or an error
\* when those are cut: CSRC list and extension, of whatever length, are never
\* taken for audio and no byte behind the end is read.  Padding octets are
\* handed on with the payload, as rtp.rs:123 says (rtp.rs:64-127).
RtpExact ==
  kind = "rtp" =>
    LET r == input[1]
        d == RtpBytes(r)
        h == Len(RtpHeaders(r)) IN
      \A n \in 0 .. Len(d) :
        LET p == ParseRtpPacket(SubSeq(d, 1, n)) IN
          IF n >= FixedHeader /\ r.version # 2 THEN p = [err |-> UnsupportedRtpVersion]
          ELSE IF n < h THEN p = [err |-> PacketTooShort]
          ELSE /\ p.payload = SubSeq(RtpBehind(r), 1, n - h)
               /\ p.header.sequence = <<1, 2>>
               /\ p.header.timestamp = <<3, 4, 5, 6>>
               /\ p.header.ssrc = <<7, 8, 9, 10>>

\* The columns of a spot and the places of their words.
ColumnPlace == [snr_db |-> 3, dt_sec |-> 4, freq_hz |-> 5, callsign |-> 6,
                power_dbm |-> 8, drift |-> 9, sync_quality |-> 10, npass |-> 11,
                osd_pass |-> 12, nhardmin |-> 13, decode_cycles |-> 15,
                candidates |-> 16, nfano |-> 17]

\* One damaged word never shifts a column: a line gives no spot, or one whose
\* ClickHouse row has in every column but grid and message the word of its
\* place or the damaged word itself, and names the window by its second and by its HHMM alike.  The one
\* exception is a line that lost its callsign, whose grid is then taken for the
\* callsign of a type-2 message (decode.rs:296-359, spot.rs:143-167).
NoShiftedColumn ==
  kind = "txt" =>
    \A i \in 1 .. Len(input) :
      LET spot == ParseAllWsprLine(WordsOf(input[i]), WindowStart)
          row  == FromSpot(spot, WindowStart)
          d    == input[i].damage
      IN  /\ d.op = "none" => spot # NoSpot
          /\ spot # NoSpot => /\ row.window_start_unix = WindowStart
                              /\ row.time_utc = <<23, 58>>
          /\ (spot # NoSpot /\ d # [op |-> "lost", at |-> 6]) =>
               \A c \in DOMAIN ColumnPlace : row[c][1] \in {0, ColumnPlace[c]}

\* A decode never loses a spot in silence: it ends in an error, or with a spot
\* for every whole line.  The lines that it skips are those that do not parse; a
\* line that cannot be read at all makes the decode fail (decode.rs:194-213).
SpotsOrError ==
  kind = "file" =>
    \A exit \in Exits :
      LET result == RunWsprd(exit, FileOf(input), WindowStart)
      IN  "ok" \in DOMAIN result =>
            Len(result.ok) = Cardinality({i \in 1 .. Len(input) : input[i] = "whole"})

BytesIn(fields) ==
  LET sum[i \in 0 .. Len(fields)] ==
        IF i = 0 THEN 0 ELSE sum[i - 1] + fields[i].bytes
  IN  sum[Len(fields)]

TagsOf(f) == {i \in 1 .. Len(f) : f[i].kind = "tag"}

\* Who walks the chunks of the WAV file by their sizes ends at its last byte
\* and finds these samples, little-endian.
ReadsBack(f, samples) ==
  /\ f[2].value = BytesIn(f) - 8
  /\ \A t \in TagsOf(f) : f[t].value \in {"fmt_", "data"} =>
       \E e \in t + 1 .. Len(f) :
         /\ f[t + 1].value = BytesIn(SubSeq(f, t + 2, e))
         /\ e = Len(f) \/ e + 1 \in TagsOf(f)
  /\ [i \in 1 .. Len(samples) |-> Reverse(f[13 + i].value)] = samples

\* The WAV file of a window can be read back as long as what is behind its
\* first eight bytes can be counted in a u32, up to the last such length and no
\* further: from 2^31 - 18 samples on the sizes wrap (decode.rs:57-100).
WavReadable ==
  kind = "wav" =>
    (ReadsBack(WriteWavFile(WindowOf(input)), input) <=> 36 + 2 * Len(input) < U32Wrap)
=============================================================================
