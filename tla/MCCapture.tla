----------------------------- MODULE MCCapture -----------------------------
(***************************************************************************)
(* Capture for TLC: the status packets of the runs, and their symmetry.    *)
(***************************************************************************)
EXTENDS Capture, TLC

\* Everything about a mono stream in one packet.
Complete == [center_freq_hz |-> 1, sample_rate_hz |-> SourceRate,
             channels |-> 1, encoding |-> ENC_S16BE]

CompleteOnly == {Complete}

\* No action prefers a stream to another.
Streams == Permutations(Ssrcs)
=============================================================================
