---------------------------- MODULE MCLogStreams ----------------------------
(***************************************************************************)
(* A small instance of LogStreams for TLC.                                 *)
(***************************************************************************)
EXTENDS LogStreams

CONSTANTS stderr, stdout, startup, s1, s2
=============================================================================
