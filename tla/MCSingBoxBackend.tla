-------------------------- MODULE MCSingBoxBackend --------------------------
(***************************************************************************)
(* Small instances of SingBoxBackend for TLC.                              *)
(***************************************************************************)
EXTENDS SingBoxBackend

CONSTANTS u1, u2, a, b, c1, c2, p1, p2, p3, bad

MCFiles == {{a, b}, {a}}

MCRequests == {{}, {a, b}}

=============================================================================
