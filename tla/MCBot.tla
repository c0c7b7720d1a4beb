------------------------------- MODULE MCBot -------------------------------
(***************************************************************************)
(* Bot for TLC: two users in one chat, the first with two commands, the    *)
(* second with one.                                                        *)
(***************************************************************************)
EXTENDS Bot, TLC

CONSTANTS u1, u2, c1, c2, c3

MCOwner == (c1 :> u1) @@ (c2 :> u1) @@ (c3 :> u2)
=============================================================================
