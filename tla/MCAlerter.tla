----------------------------- MODULE MCAlerter -----------------------------
(***************************************************************************)
(* Alerter for TLC: an alert with two labels and one with a label of those. *)
(***************************************************************************)
EXTENDS Alerter, TLC

CONSTANTS l1, l2, a1, a2

MCLabelsOf == (a1 :> {l1, l2}) @@ (a2 :> {l2})
Symmetry == Permutations(Users) \cup Permutations(RowIds)
=============================================================================
