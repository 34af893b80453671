--------------------------- MODULE MCNodeTraffic ---------------------------
(***************************************************************************)
(* A small instance of NodeTraffic for TLC.                                *)
(***************************************************************************)
EXTENDS NodeTraffic

CONSTANT eth    \* an interface
=============================================================================
