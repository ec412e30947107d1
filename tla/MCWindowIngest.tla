--------------------------- MODULE MCWindowIngest ---------------------------
(***************************************************************************)
(* WindowIngest for TLC.  The cfg files give every constant a small value, *)
(* for which TLC evaluates RangeIsWide and SeqIsWide.                      *)
(***************************************************************************)
EXTENDS WindowIngest
=============================================================================
