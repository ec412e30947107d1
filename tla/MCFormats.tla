----------------------------- MODULE MCFormats ------------------------------
(***************************************************************************)
(* Formats for TLC: the fields, words and samples of the run.              *)
(***************************************************************************)
EXTENDS Formats

Field(tag, value, long) == [tag |-> tag, value |-> value, long |-> long]
Short == NoValue

\* SSRCs of no byte, one byte and too many; values wider than their field; a
\* tag that is not known, whose value looks like a field, or is so long that its
\* length needs two bytes; every length form.
MCFieldSet ==
  {Field(TAG_OUTPUT_SSRC, <<>>, Short), Field(TAG_OUTPUT_SSRC, <<7>>, Short),
   Field(TAG_OUTPUT_SSRC, <<9, 1, 2, 3, 4>>, 1),
   Field(TAG_OUTPUT_SAMPRATE, <<93, 192>>, 4),
   Field(TAG_RADIO_FREQUENCY, <<65, 2, 3>>, 2),
   Field(TAG_RADIO_FREQUENCY, <<9, 1, 2, 3, 4, 5, 6, 7, 8>>, Short),
   Field(TAG_OUTPUT_CHANNELS, <<2>>, Short),
   Field(TAG_OUTPUT_CHANNELS, <<1, 1>>, Short),
   Field(TAG_RTP_PT, <<123>>, 3), Field(TAG_OUTPUT_ENCODING, <<>>, Short),
   Field(TAG_OUTPUT_ENCODING, <<1>>, Short),
   Field(200, <<18, 1, 7>>, Short), Field(200, [i \in 1 .. 259 |-> 18], 2),
   Field(EOL, <<>>, Short),
   Field(TAG_OUTPUT_SSRC, <<8>>, 0), Field(3, <<18, 1>>, 5)}

MCOtherSsrc == <<0, 0, 0, 7>>

MCWords == {[types |-> Opaque, chars |-> <<>>], [types |-> Integer, chars |-> <<>>],
            [types |-> Small, chars |-> <<>>], [types |-> Opaque, chars |-> Letters],
            [types |-> Opaque, chars |-> <<{"minor"}, {"minor"}, {"digit"}, {"digit"}>>]}

\* Extension lengths whose two bytes are zero, low only, or both.
MCWordCounts == {0, 2, 258}

MCSamples == {<<0, 0>>, <<1, 2>>, <<255, 254>>}
=============================================================================
