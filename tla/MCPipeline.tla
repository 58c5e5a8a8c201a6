----------------------------- MODULE MCPipeline -----------------------------
(***************************************************************************)
(* Pipeline on small instances.  Process and pipe identifiers mean nothing *)
(* in themselves, so the safety runs use their permutations as a symmetry  *)
(* set; the runs with liveness properties do not.                          *)
(***************************************************************************)
EXTENDS Pipeline, TLC

CONSTANTS P1, P2, P3, Q1, Q2

TwoPids   == {P1, P2}
ThreePids == {P1, P2, P3}
OnePipe   == {Q1}
TwoPipes  == {Q1, Q2}

Symmetry == Permutations(Pid) \cup Permutations(PipeId)
=============================================================================
