------------------------------ MODULE MCBuffer ------------------------------
(****************************************************************************)
(* Buffer for TLC: small areas, so that every region runs full.            *)
(****************************************************************************)
EXTENDS Buffer, TLC
==============================================================================
