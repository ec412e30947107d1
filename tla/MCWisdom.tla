------------------------------ MODULE MCWisdom ------------------------------
(* Wisdom on small instances. *)
EXTENDS Wisdom, TLC

\* Decodes are interchangeable.
DecodeSymmetry == Permutations(Decodes)
=============================================================================
