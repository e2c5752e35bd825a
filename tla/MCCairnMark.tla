---------------------------- MODULE MCCairnMark ----------------------------
(***************************************************************************)
(* CairnMark for TLC.  Request slots and idempotency keys are              *)
(* interchangeable; the runs that check liveness do not use the symmetry.  *)
(***************************************************************************)
EXTENDS CairnMarkRefinement, TLC

Symmetry == Permutations(Requests) \cup Permutations(IdemKeys)
=============================================================================
