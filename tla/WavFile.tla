------------------------------ MODULE WavFile -------------------------------
(***************************************************************************)
(* decode.rs: the WAV file that write_wav_file makes of a sealed window,   *)
(* as a sequence of fields: a tag, an integer with its width in bytes, or  *)
(* a sample as its two bytes.  A native i16 is <<high, low>>, and silence  *)
(* is zero.  The fourth character of "fmt_" stands for a space.            *)
(***************************************************************************)
EXTENDS Naturals, SequencesExt

CONSTANT U32Wrap  \* 2^32

\* An integer cast to u32, or computed in it by a release build.
AsU32(v) == v % U32Wrap

U16(v) == [kind |-> "int", bytes |-> 2, value |-> v]
U32(v) == [kind |-> "int", bytes |-> 4, value |-> v]
Tag(name) == [kind |-> "tag", bytes |-> 4, value |-> name]

NumChannels == 1
BitsPerSample == 16
BytesPerSample == BitsPerSample \div 8

\* sample.to_le_bytes()
SampleField(sample) == [kind |-> "sample", bytes |-> 2, value |-> Reverse(sample)]

\* capacity_samples * channels * bytes, whatever was received.
DataSize(window) ==
  AsU32(AsU32(window.capacity_samples) * NumChannels * BytesPerSample)

\* mutant: chunk headers forgotten
RiffSize_NoHeaders(window) == AsU32(4 + DataSize(window))

\* "WAVE", the two chunk headers and what the chunks hold.
RiffSize(window) == AsU32(4 + 8 + 16 + 8 + DataSize(window))

ByteRate(window) == AsU32(window.sample_rate_hz * NumChannels * BytesPerSample)

WriteWavFile(window) ==
  <<Tag("RIFF"), U32(RiffSize(window)), Tag("WAVE"),
    Tag("fmt_"), U32(16), U16(1), U16(NumChannels), U32(window.sample_rate_hz),
    U32(ByteRate(window)), U16(NumChannels * BytesPerSample), U16(BitsPerSample),
    Tag("data"), U32(DataSize(window))>>
  \o [i \in 1 .. Len(window.samples) |-> SampleField(window.samples[i])]
=============================================================================
