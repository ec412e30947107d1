---------------------------- MODULE MCDecodeTask ----------------------------
(***************************************************************************)
(* DecodeTask for TLC; the cfg files give every constant its value.        *)
(***************************************************************************)
EXTENDS DecodeTask
=============================================================================
