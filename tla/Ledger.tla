------------------------------- MODULE Ledger -------------------------------
(***************************************************************************)
(* Withdrawals and balances: the handlers Withdraw and GetBalance on top   *)
(* of OrderRepository.CreateOrder for a withdrawal and GetBalance, each a  *)
(* transaction (WithTX) of separate statements that WithRetry may run      *)
(* again.  PostgreSQL is modelled as the code uses it, at its default      *)
(* level READ COMMITTED: a statement reads what is committed when it       *)
(* starts, and an INSERT waits for a transaction that has inserted the     *)
(* same unique number and has not ended.                                   *)
(*                                                                         *)
(* A call is one HTTP request that is being served.  The watcher is the    *)
(* environment: it credits orders, and a credit stands (where it does not, *)
(* see FinalIsFinal of Watcher).                                           *)
(***************************************************************************)
EXTENDS OrderTable, Amount, Sequences, Functions

CONSTANTS
  Users, Orders, Owner,  \* Owner[o]: the user who uploads the order o
  Credits,     \* kopecks an order may be credited with
  Numbers,     \* order numbers bonuses are withdrawn for
  Literals,    \* sums a user may ask for, as they stand in the request
  MaxNumeric,  \* what a DECIMAL(12, 2) holds, in kopecks: 10^12 - 1
  Calls, Caller,  \* Caller[c]: the user whose requests the slot c serves
  MaxRetries,  \* maxAttemptCount of WithRetry, 3 in the code
  MaxFaults    \* bound on the database failures

ASSUME LedgerAssumption ==
  /\ Owner \in [Orders -> Users]
  /\ Caller \in [Calls -> Users]
  /\ Credits \subseteq Nat \ {0}
  /\ \A l \in Literals : l \in Literal /\ WellFormed(l)
  /\ MaxNumeric \in Nat /\ 2 * MaxNumeric <= MaxInt
  /\ MaxRetries \in Nat /\ MaxFaults \in Nat

VARIABLES
  table,      \* accrued_orders
  withdrawn,  \* the committed rows of withdrawn_orders
  pc,         \* where each call is
  req,        \* what it was asked for
  accrued,    \* what its transaction has read of the accruals
  spent,      \* and of the withdrawals, kept for the answer
  pending,    \* the row its transaction has inserted, as a set
  attempt,    \* the counter of WithRetry
  reply,      \* the status of its answer
  made,       \* history: whether its withdrawal was committed
  faults      \* database failures so far

callVars == <<pc, req, accrued, spent, pending, attempt, reply, made>>
vars == <<table, withdrawn, callVars, faults>>

Balance == [kind |-> "balance"]
Withdrawal(n, s) == [kind |-> "withdrawal", number |-> n, sum |-> s]

Requests == {Balance} \cup {Withdrawal(n, l) : n \in Numbers, l \in Literals}

(* SELECT sum(amount) ... GROUP BY id_user: no group without rows, NULL    *)
(* over nothing but NULLs.                                                 *)
RowsOf(u) == {o \in Orders : Owner[o] = u /\ table[o] # NoRow}

AmountsOf(u) == {o \in RowsOf(u) : table[o].amount # NULL}

Total(orders) == SumFunction([o \in orders |-> table[o].amount])

GetAccruedAmount(u) ==
  IF RowsOf(u) # {} /\ AmountsOf(u) = {} THEN NULL ELSE Total(AmountsOf(u))

GetWithdrawnAmount(u) ==
  SumFunction([r \in {row \in withdrawn : row.user = u} |-> r.sum])

(* A numeric of the precision that the columns have and that both sums     *)
(* are cast to; the CHECK non_negative_bonus_amount keeps the sign out.    *)
Decimal == 0 .. MaxNumeric

NoReply == 0

Init ==
  /\ table = [o \in Orders |-> NoRow]
  /\ withdrawn = {}
  /\ pc = [c \in Calls |-> "idle"]
  /\ req = [c \in Calls |-> Balance]
  /\ accrued = [c \in Calls |-> 0]
  /\ pending = [c \in Calls |-> {}]
  /\ attempt = [c \in Calls |-> 0]
  /\ spent = [c \in Calls |-> 0]
  /\ reply = [c \in Calls |-> NoReply]
  /\ made = [c \in Calls |-> "no"]
  /\ faults = 0

-----------------------------------------------------------------------------

Goto(c, where) == pc' = [pc EXCEPT ![c] = where]

(* The transaction is over, its rows are committed or rolled back.         *)
Ends(c) == pending' = [pending EXCEPT ![c] = {}]

(* The locals of the transaction's callback are gone.                      *)
Forgets(c) ==
  /\ accrued' = [accrued EXCEPT ![c] = 0]
  /\ spent' = [spent EXCEPT ![c] = 0]

Answers(c, status) ==
  /\ reply' = [reply EXCEPT ![c] = status]
  /\ Goto(c, "done")

(* Mutant: the header is sent with the body, the last status counts.       *)
StatusLast(codes) == codes[Len(codes)]

(* Only the first WriteHeader reaches the client.                          *)
Status(codes) == Head(codes)

(* Mutant: the balance that is answered forgets what was withdrawn.        *)
CurrentUnspent(c) == NewAmount(0, accrued[c])

Current(c) == NewAmount(0, Wrap(accrued[c] - spent[c]))

(* What the handlers write.  Withdraw does not return after a success: it  *)
(* goes on to write an unexpected error.                                   *)
Codes(c, result) ==
  CASE result = "insufficient" -> <<402>>
    [] result = "error" -> <<500>>
    [] result = "ok" /\ req[c] # Balance -> <<200, 500>>
    [] result = "ok" /\ req[c] = Balance ->
         IF IsJSONNumber(Current(c)) THEN <<200>> ELSE <<500>>

(* The transaction's call of WithRetry is over, and its counter is gone.   *)
Returns(c, result) ==
  /\ Answers(c, Status(Codes(c, result)))
  /\ attempt' = [attempt EXCEPT ![c] = 0]

Parsed(q) == q # Balance => Readable(q.sum)

(* The user is there, and the sum of a withdrawal is read.                 *)
Call(c, q) ==
  /\ pc[c] = "idle"
  /\ req' = [req EXCEPT ![c] = q]
  /\ \/ /\ Parsed(q)
        /\ Goto(c, "accrued")
        /\ UNCHANGED reply
     \/ /\ ~Parsed(q)
        /\ Answers(c, 400)
  /\ UNCHANGED <<table, withdrawn, accrued, spent, pending, attempt, made, faults>>

(* getAmount of the accruals: the cast of a sum that is too large fails,   *)
(* and NULL is an error for FromPGNumeric.                                 *)
ReadAccrued(c) ==
  /\ pc[c] = "accrued"
  /\ LET sum == GetAccruedAmount(Caller[c]) IN
       \/ /\ sum \notin Decimal
          /\ Returns(c, "error")
          /\ UNCHANGED accrued
       \/ /\ sum \in Decimal /\ UNCHANGED attempt
          /\ accrued' = [accrued EXCEPT ![c] = TotalKopecks(FromPGNumeric(sum))]
          /\ Goto(c, "withdrawn")
          /\ UNCHANGED reply
  /\ UNCHANGED <<table, withdrawn, req, spent, pending, made, faults>>

Asked(c) == FromString(req[c].sum)

Withdrawn(c) == TotalKopecks(FromPGNumeric(GetWithdrawnAmount(Caller[c])))

(* Mutant: the comparison forgets what has been withdrawn already.         *)
SufficientAccruals(c) == accrued[c] >= TotalKopecks(Asked(c))

(* Mutant: a withdrawal of all there is is refused.                        *)
SufficientStrictly(c) == accrued[c] > Wrap(TotalKopecks(Asked(c)) + Withdrawn(c))

(* The comparison of CreateOrder, whose sum may overflow.                  *)
Sufficient(c) == accrued[c] >= Wrap(TotalKopecks(Asked(c)) + Withdrawn(c))

(* getAmount of the withdrawals, cast like the accruals, and the           *)
(* comparison of CreateOrder.                                              *)
ReadWithdrawn(c) ==
  /\ pc[c] = "withdrawn"
  /\ LET known == GetWithdrawnAmount(Caller[c]) \in Decimal IN
       \/ /\ known /\ req[c] = Balance
          /\ spent' = [spent EXCEPT ![c] = Withdrawn(c)]
          /\ Goto(c, "commit")
          /\ UNCHANGED <<accrued, reply, attempt>>
       \/ /\ known /\ req[c] # Balance /\ Sufficient(c)
          /\ Goto(c, "insert")
          /\ Forgets(c)
          /\ UNCHANGED <<reply, attempt>>
       \/ /\ known => req[c] # Balance /\ ~Sufficient(c)
          /\ Returns(c, IF known THEN "insufficient" ELSE "error")
          /\ Forgets(c)
  /\ UNCHANGED <<table, withdrawn, req, pending, made, faults>>

RowOf(c) == [number |-> req[c].number, user |-> Caller[c], sum |-> ToPGNumeric(Asked(c))]

Storable(row) == row.sum \in Decimal

(* Mutant: the constraint unique_withdrawn_no is missing.                  *)
CreateAnyWithdrawal(c) ==
  /\ pc[c] = "insert"
  /\ pending' = [pending EXCEPT ![c] = {RowOf(c)}]
  /\ Goto(c, "commit")
  /\ UNCHANGED <<table, withdrawn, req, accrued, spent, attempt, reply, made, faults>>

(* Mutant: a number that is taken counts as a failure of the connection,   *)
(* and WithRetry does not count its attempts.                              *)
InsertRetried(c) ==
  /\ pc[c] = "insert"
  /\ \/ ~Storable(RowOf(c)) /\ Returns(c, "error")
     \/ /\ \E r \in withdrawn : r.number = req[c].number
        /\ Goto(c, "accrued")
        /\ UNCHANGED <<reply, attempt>>
  /\ UNCHANGED <<table, withdrawn, req, accrued, spent, pending, made, faults>>

(* A constraint is violated: an error that isRetryableError does not know. *)
InsertRefused(c) ==
  /\ pc[c] = "insert"
  /\ \/ ~Storable(RowOf(c))
     \/ \E r \in withdrawn : r.number = req[c].number
  /\ Returns(c, "error")
  /\ UNCHANGED <<table, withdrawn, req, accrued, spent, pending, made, faults>>

(* CreateWithdrawal, under the constraint unique_withdrawn_no.             *)
CreateWithdrawal(c) ==
  /\ pc[c] = "insert" /\ Storable(RowOf(c))
  /\ \A r \in withdrawn \cup UNION {pending[b] : b \in Calls} : r.number # req[c].number
  /\ pending' = [pending EXCEPT ![c] = {RowOf(c)}]
  /\ Goto(c, "commit")
  /\ UNCHANGED <<table, withdrawn, req, accrued, spent, attempt, reply, made, faults>>

Commits(c) == withdrawn' = withdrawn \cup pending[c]

Commit(c) ==
  /\ pc[c] = "commit"
  /\ Commits(c)
  /\ Ends(c)
  /\ Returns(c, "ok")
  /\ made' = IF req[c] = Balance THEN made ELSE [made EXCEPT ![c] = "yes"]
  /\ UNCHANGED <<table, req, accrued, spent, faults>>

(* WithRetry returns the error.                                            *)
GivesUp(c) == Returns(c, "error")

(* Mutant: one attempt more than maxAttemptCount allows.                   *)
RetriesOnceMore(c) ==
  IF attempt[c] <= MaxRetries
  THEN /\ attempt' = [attempt EXCEPT ![c] = @ + 1]
       /\ Goto(c, "accrued")
       /\ UNCHANGED reply
  ELSE GivesUp(c)

(* A failure: one that isRetryableError knows runs everything again, until *)
(* the attempts are used up; any other is returned.                        *)
Retries(c) ==
  IF attempt[c] < MaxRetries
  THEN /\ attempt' = [attempt EXCEPT ![c] = @ + 1]
       /\ Goto(c, "accrued")
       /\ UNCHANGED reply
  ELSE GivesUp(c)

InTransaction(c) == pc[c] \in {"accrued", "withdrawn", "insert", "commit"}

Fault == faults < MaxFaults /\ faults' = faults + 1

(* retrieveUserID has failed, after attempts of its own; the body of the   *)
(* request is not read any more.                                           *)
CallFails(c) ==
  /\ pc[c] = "idle" /\ Fault
  /\ Answers(c, 500)
  /\ UNCHANGED <<table, withdrawn, req, accrued, spent, pending, attempt, made>>

StatementFails(c, retryable) ==
  /\ InTransaction(c) /\ Fault
  /\ Ends(c)
  /\ Forgets(c)
  /\ IF retryable THEN Retries(c) ELSE GivesUp(c)
  /\ UNCHANGED <<table, withdrawn, req, made>>

(* The rows are committed, but the database cannot say so or is not heard. *)
(* TransactionResolutionUnknown (repo.go:94) is a failure to be retried;   *)
(* an error that is no PgError (a connection that broke, a context that    *)
(* was cancelled) is returned at once.                                     *)
CommitUnknown(c) ==
  /\ pc[c] = "commit" /\ Fault
  /\ Commits(c)
  /\ Ends(c)
  /\ Forgets(c)
  /\ Retries(c) \/ GivesUp(c)
  /\ made' = IF req[c] = Balance THEN made ELSE [made EXCEPT ![c] = "unknown"]
  /\ UNCHANGED <<table, req>>

(* The answer has been sent; the locals of the call are gone and the slot  *)
(* is free for another request.                                            *)
Respond(c) ==
  /\ pc[c] = "done"
  /\ Goto(c, "idle")
  /\ req' = [req EXCEPT ![c] = Balance]
  /\ Forgets(c)
  /\ reply' = [reply EXCEPT ![c] = NoReply]
  /\ made' = [made EXCEPT ![c] = "no"]
  /\ UNCHANGED <<table, withdrawn, pending, attempt, faults>>

-----------------------------------------------------------------------------
(* The environment: a user uploads an order, the watcher updates it.  An   *)
(* INVALID order is to every query of this module what a PROCESSED one     *)
(* without money is, and is left out.                                      *)

Upload(o) ==
  /\ table[o] = NoRow
  /\ table' = [table EXCEPT ![o] = CreateAccrual]
  /\ UNCHANGED <<withdrawn, callVars, faults>>

Update(o, status, kopecks) ==
  /\ table[o].status \in {"NEW", "PROCESSING"}
  /\ kopecks # 0 => status = "PROCESSED"
  /\ table' = [table EXCEPT ![o] = UpdateAccrualStatus(status, kopecks)]
  /\ UNCHANGED <<withdrawn, callVars, faults>>

-----------------------------------------------------------------------------

CallStep(c) ==
  \/ ReadAccrued(c) \/ ReadWithdrawn(c) \/ CreateWithdrawal(c) \/ InsertRefused(c)
  \/ Commit(c) \/ CommitUnknown(c) \/ Respond(c)
  \/ \E retryable \in BOOLEAN : StatementFails(c, retryable)

Next ==
  \/ \E c \in Calls, q \in Requests : Call(c, q)
  \/ \E c \in Calls : CallFails(c)
  \/ \E c \in Calls : CallStep(c)
  \/ \E o \in Orders : Upload(o)
  \/ \E o \in Orders, s \in {"PROCESSING", "PROCESSED"}, k \in Credits \cup {0} : Update(o, s, k)

Spec == Init /\ [][Next]_vars

Fairness == \A c \in Calls : WF_vars(CallStep(c))

FairSpec == Spec /\ Fairness

-----------------------------------------------------------------------------
(* Properties.                                                             *)

WithdrawnRow == [number : Numbers, user : Users, sum : Decimal]

TypeOK ==
  /\ table \in [Orders -> Row]
  /\ withdrawn \subseteq WithdrawnRow
  /\ pc \in [Calls -> {"idle", "accrued", "withdrawn", "insert", "commit", "done"}]
  /\ req \in [Calls -> Requests]
  /\ accrued \in [Calls -> Int64] /\ spent \in [Calls -> Int64]
  /\ pending \in [Calls -> SUBSET WithdrawnRow]
  /\ attempt \in [Calls -> 0 .. MaxRetries]
  /\ reply \in [Calls -> {NoReply, 200, 400, 402, 500}]
  /\ made \in [Calls -> {"no", "yes", "unknown"}]
  /\ faults \in 0 .. MaxFaults

(* SPECIFICATION.md:265, a withdrawal that the balance does not cover is   *)
(* refused: nobody has withdrawn more than was credited.                   *)
NoOverdraft == \A u \in Users : GetWithdrawnAmount(u) <= Total(AmountsOf(u))

(* An order number is paid for once, whoever asks, at the same time or     *)
(* again after a failure (unique_withdrawn_no).                            *)
PaidOnce ==
  \A r, s \in withdrawn \cup UNION {pending[c] : c \in Calls} :
    r.number = s.number => r = s

Answered(c, status) == pc[c] = "done" /\ reply[c] = status

(* A withdrawal answered with 200 has left its row, and if the sum asked   *)
(* for fits into an int64 of kopecks and has no sign, with exactly that    *)
(* sum - through FromString, the transaction, and the repetitions          *)
(* (handlers.go:430-451, amount.go:36-76).                                 *)
WithdrawnAsAsked ==
  \A c \in Calls :
    Answered(c, 200) /\ req[c] # Balance =>
      \E r \in withdrawn :
        /\ r.number = req[c].number /\ r.user = Caller[c]
        /\ Fits(req[c].sum) => r.sum = Meaning(req[c].sum)

(* The client is told 200 exactly if its withdrawal was made, although     *)
(* Withdraw writes an error after it (handlers.go:449-471); only if the    *)
(* outcome of a commit was unknown, a withdrawal that was made may be      *)
(* answered with 402 or 500.                                               *)
AnsweredAsDone ==
  \A c \in Calls :
    /\ Answered(c, 200) /\ req[c] # Balance => made[c] = "yes"
    /\ pc[c] = "done" /\ made[c] = "yes" => reply[c] = 200

(* Of a user with one request in flight: the withdrawn sum of a balance is *)
(* what it is, although it was read in a statement of its own, and the     *)
(* current sum promises nothing that is not there, whatever was credited   *)
(* between the statements and since (order_repo.go:231-254).               *)
BalanceTrue ==
  \A c \in Calls :
    Answered(c, 200) /\ req[c] = Balance =>
      LET u == Caller[c] IN
        /\ spent[c] = GetWithdrawnAmount(u)
        /\ TotalKopecks(Current(c)) \in 0 .. Total(AmountsOf(u)) - GetWithdrawnAmount(u)

(* What the account of Account.tla is here.  Of a balance, a call has seen *)
(* what it will print; of the account that a withdrawal is checked         *)
(* against, it has read the first half, and nobody else writes the second. *)
Nothing == [kind |-> "none"]

Wanted(c) ==
  IF pc[c] = "idle" THEN Nothing
  ELSE IF req[c] = Balance THEN Balance
  ELSE [kind |-> "withdrawal", number |-> req[c].number, kopecks |-> ToPGNumeric(Asked(c))]

Prints(c) == req[c] = Balance /\ (pc[c] = "commit" \/ Answered(c, 200))

Seen(c) ==
  LET had == GetWithdrawnAmount(Caller[c]) IN
  IF pc[c] = "withdrawn" THEN [current |-> accrued[c] - had, withdrawn |-> had]
  ELSE IF Prints(c) THEN [current |-> TotalKopecks(Current(c)), withdrawn |-> spent[c]]
  ELSE Nothing

Granted == [u \in Users |-> Total(AmountsOf(u))]

Asking == [c \in Calls |-> Wanted(c)]

Looking == [c \in Calls |-> Seen(c)]

Acc == INSTANCE Account WITH
         Sums <- {ToPGNumeric(FromString(l)) : l \in Literals},
         credited <- Granted, withdrawals <- withdrawn, ask <- Asking, seen <- Looking

(* Of users with one request in flight: although the check and the row of  *)
(* a withdrawal, and the two sums of a balance, are statements of their    *)
(* own, every request takes effect in one step, once, on the account as it *)
(* is at that step; a balance and a 402 are true of one instant            *)
(* (SPECIFICATION.md:206-290).                                             *)
ImplementsAccount == Acc!Spec

(* Every call comes back, whatever it waits for and however often it is    *)
(* retried.                                                                *)
CallsReturn == \A c \in Calls : []<>(pc[c] = "idle")

(* SPECIFICATION.md:221 and order_repo_test.go:479, a user without bonuses *)
(* has a balance: while the database works, the balance is answered.       *)
BalanceIsAnswered ==
  \A c \in Calls : Answered(c, 500) /\ req[c] = Balance => faults > 0

=============================================================================
