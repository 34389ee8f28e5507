------------------------------ MODULE MCService ------------------------------
(* Instances of Service for TLC.                                           *)
EXTENDS Service, TLC

CONSTANTS l1, l2, p1, p2, i1, i2, n1, c1, c2, c3, h1, h2

TwoLogins == {l1, l2}
TwoPasswords == {p1, p2}
TwoIds == {i1, i2}
OneNumber == {n1}
TwoCalls == {c1, c2}
ThreeCalls == {c1, c2, c3}
TwoProbes == {h1, h2}

(* All of these are interchangeable.                                       *)
Symmetry ==
  Permutations(TwoLogins) \cup Permutations(TwoPasswords)
    \cup Permutations(TwoIds) \cup Permutations(ThreeCalls)
    \cup Permutations(TwoProbes)

=============================================================================
