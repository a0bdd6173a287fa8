---------------------------- MODULE MCRateWindow ----------------------------
(* RateWindow for model checking. *)
EXTENDS RateWindow, TLC

Symmetry == Permutations(Requests) \cup Permutations(Lims)
=============================================================================
