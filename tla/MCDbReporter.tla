------------------------------ MODULE MCDbReporter -----------------------------
(***************************************************************************)
(* DbReporter with interchangeable workers.                                *)
(***************************************************************************)
EXTENDS DbReporter, TLC

CONSTANTS w1, w2

TwoWorkers == {w1, w2}
Symmetric == Permutations(TwoWorkers)
=============================================================================
