------------------------------ MODULE MCLedger ------------------------------
(* Instances of Ledger for TLC.                                            *)
EXTENDS Ledger, TLC

CONSTANTS u1, u2, o1, o2, n1, n2, c1, c2

TwoUsers == {u1, u2}
TwoOrders == {o1, o2}
OneOrder == {o1}
TwoNumbers == {n1, n2}
TwoCalls == {c1, c2}
OneCredit == {45}

Sum(negative, roubles, digits, fraction) ==
  [negative |-> negative, roubles |-> roubles, digits |-> digits, fraction |-> fraction]

OneSum == {Sum(FALSE, 0, 1, 4)}

(* 0.4; 256, of which an int64 scaled down to -512 .. 511 kopecks keeps    *)
(* nothing; 5.05, that overflows when added to 0.4; 0.005, that is refused. *)
FourSums ==
  OneSum \cup {Sum(FALSE, 256, 0, 0), Sum(FALSE, 5, 2, 5), Sum(FALSE, 0, 3, 5)}

OneOrderEach == (o1 :> u1) @@ (o2 :> u2)
OfTheFirst == o1 :> u1

(* Every user waits for an answer before asking again.                     *)
OneCallEach == (c1 :> u1) @@ (c2 :> u2)

(* One user has two requests in flight.                                    *)
BothCallsByOne == (c1 :> u1) @@ (c2 :> u1)

=============================================================================
