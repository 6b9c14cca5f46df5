-------------------------- MODULE MCOrderLifecycle --------------------------
(* Three concurrent callers on an order worth 6 in company currency, with  *)
(* thresholds at, below and above that value, one of them between the      *)
(* value and the unconverted total.                                        *)
EXTENDS OrderLifecycle, TLC

MCAmounts == {3, 6, 7}

Symmetry == Permutations(Client)
=============================================================================
