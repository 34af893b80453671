------------------------- MODULE MCHysteriaBackend -------------------------
(***************************************************************************)
(* A small instance of HysteriaBackend for TLC.                            *)
(***************************************************************************)
EXTENDS HysteriaBackend

CONSTANTS u1, k1, k2, c1, c2
=============================================================================
