----------------------------- MODULE MCSession -----------------------------
(***************************************************************************)
(* Session for TLC: two users with up to two texts each in the works, one  *)
(* account, and a login that is in no account.                             *)
(***************************************************************************)
EXTENDS Session, TLC

CONSTANTS l1, p1

MCAccounts == {<<l1, p1>>}
Symmetry == Permutations(Users) \cup Permutations(Slots)
=============================================================================
