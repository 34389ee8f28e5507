------------------------------ MODULE MCWatcher ------------------------------
(* Instances of Watcher for TLC.                                           *)
EXTENDS Watcher, TLC

CONSTANTS o1, d1, d2, g1

OneOrder == {o1}
OneDesk == {d1}
TwoDesks == {d1, d2}
OneTick == {g1}
OneAmount == {1}

=============================================================================
