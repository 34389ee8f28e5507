-------------------------- MODULE MCRequestWatcher --------------------------
(* Instances of RequestWatcher for TLC.                                    *)
EXTENDS RequestWatcher

CONSTANTS g1, g2

TwoDrainers == {g1, g2}

=============================================================================
