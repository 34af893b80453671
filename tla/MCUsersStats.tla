---------------------------- MODULE MCUsersStats ----------------------------
(***************************************************************************)
(* A small instance of UsersStats for TLC: a user that was renamed, and    *)
(* the backends in the order main() makes them.                            *)
(***************************************************************************)
EXTENDS UsersStats

CONSTANTS u1, before, after, c1, c2

MCUserOf == [i \in Idents |-> u1]

MCOrder == <<"xray", "hysteria2", "sing-box">>
=============================================================================
