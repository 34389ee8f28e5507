------------------------------- MODULE MCAgent -------------------------------
(***************************************************************************)
(* Instances of Agent for TLC.  The width of activeCount is scaled down    *)
(* from 2^64, so that the wrapped counter comes back to zero and the runs  *)
(* also explore restarted generations.                                     *)
(***************************************************************************)
EXTENDS Agent

CONSTANTS w1, w2, o1

MCWorkers == {w1, w2}
OneOrder == {o1}
MCAmounts == {1}
MCMeasuredRPMs == {0, 2}

=============================================================================
