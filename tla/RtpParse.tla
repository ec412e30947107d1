------------------------------ MODULE RtpParse ------------------------------
(***************************************************************************)
(* rtp.rs: parse_rtp_packet as an operator on a sequence of bytes.         *)
(* Position p is the code's buf[p - 1]; a 16-bit or 32-bit header field is *)
(* the tuple of its bytes.                                                 *)
(***************************************************************************)
EXTENDS Naturals, Sequences

FixedHeader == 12
PacketTooShort == "PacketTooShort"
UnsupportedRtpVersion == "UnsupportedRtpVersion"

\* Byte 0: V(2) P(1) X(1) CC(4)
Version(buf) == buf[1] \div 64
Padding(buf) == (buf[1] \div 32) % 2 = 1
Extension(buf) == (buf[1] \div 16) % 2 = 1
CsrcCount(buf) == buf[1] % 16

RtpHeader(buf) ==
  [version |-> Version(buf), padding |-> Padding(buf),
   extension |-> Extension(buf), csrc_count |-> CsrcCount(buf),
   marker |-> buf[2] \div 128 = 1, payload_type |-> buf[2] % 128,
   sequence |-> SubSeq(buf, 3, 4), timestamp |-> SubSeq(buf, 5, 8),
   ssrc |-> SubSeq(buf, 9, 12)]

\* Where the CSRC list ends.
CsrcEnd(buf) == FixedHeader + CsrcCount(buf) * 4

PayloadPos_WordsAsBytes(buf) ==  \* mutant: the extension's length is in bytes
  IF Extension(buf)
  THEN CsrcEnd(buf) + 4 + buf[CsrcEnd(buf) + 3] * 256 + buf[CsrcEnd(buf) + 4]
  ELSE CsrcEnd(buf)

\* Where the payload begins: behind the extension too, whose own header gives
\* its length in 32-bit words.
PayloadPos(buf) ==
  IF Extension(buf)
  THEN CsrcEnd(buf) + 4
         + 4 * (buf[CsrcEnd(buf) + 3] * 256 + buf[CsrcEnd(buf) + 4])
  ELSE CsrcEnd(buf)

ParseRtpPacket(buf) ==
  IF Len(buf) < FixedHeader THEN [err |-> PacketTooShort]
  ELSE IF Version(buf) # 2 THEN [err |-> UnsupportedRtpVersion]
  ELSE IF Extension(buf) /\ CsrcEnd(buf) + 4 > Len(buf) THEN [err |-> PacketTooShort]
  ELSE IF PayloadPos(buf) > Len(buf) THEN [err |-> PacketTooShort]
  ELSE [header |-> RtpHeader(buf),
        payload |-> SubSeq(buf, PayloadPos(buf) + 1, Len(buf))]
=============================================================================
