--------------------------- MODULE MCXrayBackend ---------------------------
(***************************************************************************)
(* Small instances of XrayBackend for TLC.                                 *)
(***************************************************************************)
EXTENDS XrayBackend

CONSTANTS c1, c2, p1, p2, p3, f, bad

=============================================================================
