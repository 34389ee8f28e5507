------------------------------ MODULE Account -------------------------------
(***************************************************************************)
(* What SPECIFICATION.md:206-290 promises of balances and withdrawals, and *)
(* nothing of how it is done: an account is looked at, at one instant, and *)
(* drawn on in one step.  A balance is what the account was at an instant  *)
(* between the request and the answer; 402 says that at such an instant    *)
(* there was too little in it; 200 comes with the row of the withdrawal.   *)
(* A request may also fail with 500; then a row is there once or not at    *)
(* all.  Ledger.tla implements this module for users who wait for an       *)
(* answer before they ask again.                                           *)
(***************************************************************************)
EXTENDS Integers, Functions

CONSTANTS
  Users, Credits, Numbers,
  Sums,  \* kopecks a user may ask for
  Calls, Caller

VARIABLES
  credited,     \* what the calculator has granted to each user
  withdrawals,  \* the rows of withdrawn_orders
  ask,          \* what each call asks for
  seen,         \* what it has seen of its user's account
  reply         \* its status code, 0 before there is one

accountVars == <<credited, withdrawals, ask, seen, reply>>

Nothing == [kind |-> "none"]

Balance == [kind |-> "balance"]
Withdrawal(n, k) == [kind |-> "withdrawal", number |-> n, kopecks |-> k]

Requests == {Balance} \cup {Withdrawal(n, k) : n \in Numbers, k \in Sums}

Spent(u) == SumFunction([r \in {row \in withdrawals : row.user = u} |-> r.sum])

Init ==
  /\ credited = [u \in Users |-> 0]
  /\ withdrawals = {}
  /\ ask = [c \in Calls |-> Nothing]
  /\ seen = [c \in Calls |-> Nothing]
  /\ reply = [c \in Calls |-> 0]

-----------------------------------------------------------------------------

Credit(u, k) ==
  /\ credited' = [credited EXCEPT ![u] = @ + k]
  /\ UNCHANGED <<withdrawals, ask, seen, reply>>

Asks(c) ==
  /\ ask[c] = Nothing
  /\ ask' \in {[ask EXCEPT ![c] = q] : q \in Requests}
  /\ UNCHANGED <<credited, withdrawals, seen>>

Ask(c) == Asks(c) /\ UNCHANGED reply

Answers(c, code) == reply' = [reply EXCEPT ![c] = code]

(* The request cannot be read, or its user cannot be found.                *)
Refuse(c) == Asks(c) /\ (Answers(c, 400) \/ Answers(c, 500))

Waits(c) == ask[c] # Nothing /\ reply[c] = 0

Forgets(c) == seen' = [seen EXCEPT ![c] = Nothing]

Look(c) ==
  /\ Waits(c)
  /\ LET u == Caller[c] IN
       seen' = [seen EXCEPT ![c] = [current |-> credited[u] - Spent(u), withdrawn |-> Spent(u)]]
  /\ UNCHANGED <<credited, withdrawals, ask, reply>>

(* The client gets what was seen.                                          *)
ShowBalance(c) ==
  /\ Waits(c) /\ ask[c] = Balance
  /\ seen[c] # Nothing
  /\ Answers(c, 200)
  /\ UNCHANGED <<credited, withdrawals, ask, seen>>

Insufficient(c) ==
  /\ Waits(c) /\ ask[c] # Balance
  /\ seen[c] # Nothing /\ seen[c].current < ask[c].kopecks
  /\ Answers(c, 402)
  /\ Forgets(c)
  /\ UNCHANGED <<credited, withdrawals, ask>>

(* The account is drawn on; what the service does not know to have taken   *)
(* place is answered with 500, or gone about once more.                    *)
Withdraw(c) ==
  /\ Waits(c) /\ ask[c] # Balance
  /\ ask[c].kopecks \in 0 .. credited[Caller[c]] - Spent(Caller[c])
  /\ \A r \in withdrawals : r.number # ask[c].number
  /\ withdrawals' = withdrawals \cup
       {[number |-> ask[c].number, user |-> Caller[c], sum |-> ask[c].kopecks]}
  /\ Answers(c, 200) \/ Answers(c, 500) \/ UNCHANGED reply
  /\ UNCHANGED <<credited, ask, seen>>

StartOver(c) ==
  /\ Waits(c)
  /\ Forgets(c)
  /\ UNCHANGED <<credited, withdrawals, ask, reply>>

Fail(c) ==
  /\ Waits(c)
  /\ Answers(c, 500)
  /\ Forgets(c)
  /\ UNCHANGED <<credited, withdrawals, ask>>

(* The client has its answer.                                              *)
Leave(c) ==
  /\ reply[c] # 0
  /\ ask' = [ask EXCEPT ![c] = Nothing]
  /\ Forgets(c)
  /\ Answers(c, 0)
  /\ UNCHANGED <<credited, withdrawals>>

Next ==
  \/ \E c \in Calls : Ask(c) \/ Refuse(c) \/ StartOver(c) \/ Fail(c) \/ Leave(c)
  \/ \E c \in Calls : Look(c) \/ ShowBalance(c) \/ Insufficient(c) \/ Withdraw(c)
  \/ \E u \in Users, k \in Credits : Credit(u, k)

Spec == Init /\ [][Next]_accountVars

=============================================================================
