----------------------------- MODULE MCShutdown ----------------------------
(***************************************************************************)
(* Shutdown for TLC; the cfg files give every constant its value.          *)
(***************************************************************************)
EXTENDS Shutdown
=============================================================================
