--------------------------- MODULE AccountProofs ---------------------------
(***************************************************************************)
(* What TLAPS proves about the accounts of users who wait for an answer    *)
(* before they ask again: nobody overdraws, balances are true, and Ledger  *)
(* implements Account.                                                     *)
(***************************************************************************)
EXTENDS LedgerProofs

(* No overdraft, of users who wait for an answer before they ask again.    *)
(* The check and the insertion are statements of one transaction that does *)
(* not keep others out (the run of two calls by one user shows what that   *)
(* leads to), so the calls must belong to different users.                 *)

OneCallPerUser == \A b, c \in Calls : Caller[b] = Caller[c] => b = c

Got(u) == Total(AmountsOf(u))

Had(u) == GetWithdrawnAmount(u)

(* Only a processed order has money in it, and only once.                  *)
CreditsStand ==
  \A o \in Orders :
    /\ table[o].amount \in Credits \cup {0, NULL}
    /\ table[o].amount \in Credits => table[o].status = "PROCESSED"

(* The accruals that a transaction has read are there and pay for what was *)
(* withdrawn, and the cast has found them small enough for the comparison  *)
(* of order_repo.go:54 not to overflow.                                    *)
Sound(c) ==
  /\ Had(Caller[c]) <= accrued[c]
  /\ accrued[c] <= Got(Caller[c]) /\ accrued[c] <= MaxNumeric

(* The accruals pay for what a transaction is about to withdraw as well.   *)
Paid(c) == Had(Caller[c]) + RowOf(c).sum <= Got(Caller[c])

Answering(c) == req[c] = Balance /\ (pc[c] = "commit" \/ Answered(c, 200))

Covered(c) ==
  /\ pc[c] = "withdrawn" => Sound(c)
  /\ pc[c] = "insert" /\ Storable(RowOf(c)) => Paid(c)
  /\ pc[c] = "commit" /\ req[c] # Balance => Paid(c)
  /\ Answering(c) => Sound(c) /\ spent[c] = Had(Caller[c])

MoneyInv == CreditsStand /\ NoOverdraft /\ \A c \in Calls : Covered(c)

(* A credit adds to what its owner has, and to nothing else.               *)
LEMMA CreditIs ==
  ASSUME TypeInv, TypeInv', NEW o \in Orders, NEW row, table' = [table EXCEPT ![o] = row],
         table[o].amount \in {0, NULL}, NEW u
  PROVE  /\ Got(u)' = Got(u) + IF Owner[o] = u /\ row.amount # NULL THEN row.amount ELSE 0
         /\ row.amount # NULL => row.amount \in Nat
<1> DEFINE A == AmountsOf(u)
           f == AmountOf(A)
           more == IF Owner[o] = u /\ row.amount # NULL THEN row.amount ELSE 0
<1>1. table'[o] = row /\ \A x \in Orders \ {o} : table'[x] = table[x]
  BY DEF TypeInv, TypeOK
<1>2. A \ {o} = A' \ {o}
  BY <1>1 DEF AmountsOf, RowsOf
<1>3. IsFiniteSet(A) /\ (\A x \in A : f[x] \in Nat) /\ Got(u) = SumFunctionOnSet(f, A)
  BY AccruedSum DEF Got, AccruedIs
<1>4. IsFiniteSet(A') /\ (\A x \in A' : f'[x] \in Nat) /\ Got(u)' = SumFunctionOnSet(f', A')
  BY AccruedSumNext DEF Got, AccruedIs
<1>5. \A x \in A \ {o} : f[x] = f'[x]
  BY <1>1, <1>2 DEF AmountOf, AmountsOf, RowsOf
<1>6. o \in A => f[o] = 0
  BY DEF AmountOf, AmountsOf
<1>7. o \in A' <=> Owner[o] = u /\ row.amount # NULL
  BY <1>1 DEF AmountsOf, RowsOf, NoRow
<1>8. o \in A' => f'[o] = row.amount
  BY <1>1 DEF AmountOf
<1>9. row.amount # NULL => row.amount \in Nat
  <2>1. row \in Row
    BY <1>1 DEF TypeInv, TypeOK
  <2> QED
    BY <2>1 DEF Row
<1>10. more = IF o \in A' THEN f'[o] ELSE 0
  BY <1>7, <1>8
<1> HIDE DEF A, f, more
<1>11. PICK rest \in Nat :
         /\ SumFunctionOnSet(f, A) = rest + IF o \in A THEN f[o] ELSE 0
         /\ SumFunctionOnSet(f', A') = rest + IF o \in A' THEN f'[o] ELSE 0
  BY <1>2, <1>3, <1>4, <1>5, SumChanges
<1>12. Got(u)' = Got(u) + more
  BY <1>3, <1>4, <1>6, <1>10, <1>11
<1> QED
  BY <1>9, <1>12 DEF more

(* Nothing is ever taken back.                                             *)
LEMMA CreditAdds ==
  ASSUME TypeInv, TypeInv', NEW o \in Orders, NEW row, table' = [table EXCEPT ![o] = row],
         table[o].amount \in {0, NULL}, NEW u
  PROVE  Got(u) <= Got(u)'
<1>1. Got(u) \in Nat
  BY AccruedSum DEF Got, AccruedIs
<1> DEFINE more == IF Owner[o] = u /\ row.amount # NULL THEN row.amount ELSE 0
<1>2. Got(u)' = Got(u) + more /\ more \in Nat
  BY CreditIs
<1> HIDE DEF more
<1> QED
  BY <1>1, <1>2

(* A committed withdrawal counts for the user whose it is.                 *)
LEMMA RowAdds ==
  ASSUME TypeInv, TypeInv', NEW row \in WithdrawnRow, withdrawn' = withdrawn \cup {row}
  PROVE  /\ \A u : u # row.user => Had(u)' = Had(u)
         /\ Had(row.user)' <= Had(row.user) + row.sum
<1>1. ASSUME NEW u, u # row.user PROVE Had(u)' = Had(u)
  <2>1. RowsBy(u)' = RowsBy(u)
    BY <1>1 DEF RowsBy
  <2> QED
    BY <2>1 DEF Had, GetWithdrawnAmount, RowsBy
<1> DEFINE R == RowsBy(row.user)
           f == SumOf(R)
<1>2. R \ {row} = R' \ {row}
  BY DEF RowsBy
<1>3. IsFiniteSet(R) /\ (\A x \in R : f[x] \in Nat) /\ Had(row.user) = SumFunctionOnSet(f, R)
  BY WithdrawnSum DEF Had, WithdrawnIs
<1>4. /\ IsFiniteSet(R') /\ \A x \in R' : f'[x] \in Nat
      /\ Had(row.user)' = SumFunctionOnSet(f', R')
  BY WithdrawnSumNext DEF Had, WithdrawnIs
<1>5. \A x \in R \ {row} : f[x] = f'[x]
  BY <1>2 DEF SumOf
<1>6. row \in R' /\ f'[row] = row.sum /\ (row \in R => f[row] = row.sum)
  BY DEF RowsBy, SumOf
<1>7. row.sum \in Nat
  BY LedgerAssumption DEF WithdrawnRow, Decimal
<1> HIDE DEF R, f
<1>8. PICK rest \in Nat :
        /\ SumFunctionOnSet(f, R) = rest + IF row \in R THEN f[row] ELSE 0
        /\ SumFunctionOnSet(f', R') = rest + IF row \in R' THEN f'[row] ELSE 0
  BY <1>2, <1>3, <1>4, <1>5, SumChanges
<1>9. Had(row.user)' <= Had(row.user) + row.sum
  BY <1>3, <1>4, <1>6, <1>7, <1>8
<1> QED
  BY <1>1, <1>9

(* What the steps of a call keep of the money: they touch no other call    *)
(* and no other user's withdrawals.                                        *)
OnlyOf(c) ==
  /\ OthersStay(c) /\ UNCHANGED table
  /\ \A b \in Calls \ {c} : accrued'[b] = accrued[b] /\ spent'[b] = spent[b]
  /\ \A u : u # Caller[c] => Had(u)' = Had(u)

LEMMA SlotKeeps ==
  ASSUME OneCallPerUser, MoneyInv, NEW c \in Calls, OnlyOf(c),
         Had(Caller[c])' <= Got(Caller[c]), Covered(c)'
  PROVE  MoneyInv'
<1>1. \A u : Got(u)' = Got(u)
  BY DEF OnlyOf, Got, Total, AmountsOf, RowsOf
<1>2. ASSUME NEW b \in Calls \ {c} PROVE Covered(b)'
  <2>1. Had(Caller[b])' = Had(Caller[b]) /\ Got(Caller[b])' = Got(Caller[b])
    BY <1>1 DEF OneCallPerUser, OnlyOf
  <2>2. /\ pc'[b] = pc[b] /\ req'[b] = req[b] /\ reply'[b] = reply[b]
        /\ accrued'[b] = accrued[b] /\ spent'[b] = spent[b]
    BY DEF OnlyOf, OthersStay
  <2>3. RowOf(b)' = RowOf(b)
    BY <2>2 DEF RowOf, Asked
  <2>4. Covered(b)
    BY DEF MoneyInv
  <2> QED
    BY <2>1, <2>2, <2>3, <2>4 DEF Covered, Sound, Paid, Answering, Answered, Storable, Decimal
<1>3. NoOverdraft'
  <2> SUFFICES ASSUME NEW u \in Users PROVE Had(u)' <= Got(u)'
    BY DEF NoOverdraft, Had, Got
  <2>1. Had(u) <= Got(u)
    BY DEF MoneyInv, NoOverdraft, Had, Got
  <2> QED
    BY <1>1, <2>1 DEF OnlyOf
<1>4. CreditsStand'
  BY DEF MoneyInv, CreditsStand, OnlyOf
<1> QED
  BY <1>2, <1>3, <1>4 DEF MoneyInv

(* A slot that has read nothing yet, or has nothing to promise.            *)
Silent(c) ==
  \/ pc[c] \in {"idle", "accrued"}
  \/ pc[c] = "done" /\ (reply[c] # 200 \/ req[c] # Balance)

LEMMA NothingToCover ==
  ASSUME NEW c \in Calls, Silent(c)'
  PROVE  Covered(c)'
  BY DEF Silent, Covered, Answering, Answered

(* A step that writes neither table.                                       *)
LEMMA OnlyReads ==
  ASSUME OneCallPerUser, MoneyInv, NEW c \in Calls, OthersStay(c),
         UNCHANGED <<table, withdrawn>>,
         \A b \in Calls \ {c} : accrued'[b] = accrued[b] /\ spent'[b] = spent[b],
         Covered(c)'
  PROVE  MoneyInv'
<1>1. \A u : Had(u)' = Had(u)
  BY DEF Had, GetWithdrawnAmount
<1>2. OnlyOf(c)
  BY <1>1 DEF OnlyOf
<1>3. Had(Caller[c]) <= Got(Caller[c])
  BY LedgerAssumption DEF MoneyInv, NoOverdraft, Had, Got
<1> QED
  BY <1>1, <1>2, <1>3, SlotKeeps

(* What is read is what is there.                                          *)
LEMMA ReadsCredits ==
  ASSUME TypeInv, NEW c \in Calls, GetAccruedAmount(Caller[c]) \in Decimal
  PROVE  /\ TotalKopecks(FromPGNumeric(GetAccruedAmount(Caller[c]))) = Got(Caller[c])
         /\ Got(Caller[c]) \in Decimal
<1> DEFINE u == Caller[c]
<1>1. GetAccruedAmount(u) = Got(u)
  <2>1. GetAccruedAmount(u) # NULL
    BY LedgerAssumption, NullAssumption DEF Decimal
  <2> QED
    BY <2>1 DEF GetAccruedAmount, Got
<1>2. Got(u) \in Int64 /\ Got(u) \in Int
  BY <1>1, LedgerAssumption, AmountAssumption DEF Decimal, Int64
<1> HIDE DEF u
<1> QED
  BY <1>1, <1>2, ThereAndBack, WrapInside DEF u

LEMMA ReadsWithdrawals ==
  ASSUME TypeInv, NEW c \in Calls, Sound(c)
  PROVE  Withdrawn(c) = Had(Caller[c])
<1>1. Had(Caller[c]) \in Nat /\ accrued[c] \in Int
  BY WithdrawnSum DEF WithdrawnIs, Had, TypeInv, TypeOK, Int64
<1>2. Had(Caller[c]) <= accrued[c] /\ accrued[c] <= MaxNumeric
  BY DEF Sound
<1>3. Had(Caller[c]) \in Int64
  BY <1>1, <1>2, LedgerAssumption, AmountAssumption DEF Int64
<1> QED
  BY <1>3, WithdrawnRead, WrapInside DEF Had

(* The comparison cannot overflow, so it compares the sums.                *)
LEMMA Comparison ==
  ASSUME TypeInv, NEW c \in Calls, Sufficient(c), Sound(c), Storable(RowOf(c))
  PROVE  Paid(c)
<1> DEFINE asked == TotalKopecks(Asked(c))
           had == Had(Caller[c])
           got == Got(Caller[c])
<1>1. asked \in 0 .. MaxNumeric /\ RowOf(c).sum = asked
  BY DEF Storable, Decimal, RowOf, ToPGNumeric
<1>2. had \in Nat /\ got \in Nat
  BY WithdrawnSum, AccruedSum DEF WithdrawnIs, AccruedIs, Had, Got
<1>3. accrued[c] \in Int
  BY DEF TypeInv, TypeOK, Int64
<1>4. had <= accrued[c] /\ accrued[c] <= got /\ accrued[c] <= MaxNumeric
  BY DEF Sound
<1>5. accrued[c] >= Wrap(asked + Withdrawn(c)) /\ Withdrawn(c) = had
  BY ReadsWithdrawals DEF Sufficient
<1> HIDE DEF asked, had, got
<1>6. Wrap(asked + had) = asked + had
  <2>1. asked + had \in Int64
    BY <1>1, <1>2, <1>3, <1>4, LedgerAssumption, AmountAssumption DEF Int64
  <2> QED
    BY <2>1, WrapInside
<1>7. had + asked <= got
  BY <1>1, <1>2, <1>3, <1>4, <1>5, <1>6, LedgerAssumption
<1> QED
  BY <1>1, <1>7 DEF Paid, had, got

LEMMA AccruedCovered ==
  ASSUME OneCallPerUser, TypeInv, MoneyInv, NEW c \in Calls, ReadAccrued(c)
  PROVE  MoneyInv'
<1> DEFINE u == Caller[c]
           sum == GetAccruedAmount(u)
<1>1. UNCHANGED <<table, withdrawn, req, spent, pending, made>>
  BY DEF ReadAccrued
<1>2. CASE Returns(c, "error") /\ UNCHANGED accrued
  <2>1. pc' = [pc EXCEPT ![c] = "done"] /\ reply' = [reply EXCEPT ![c] = 500]
    BY <1>2, AnsweredWith
  <2>2. OthersStay(c) /\ pc'[c] = "done" /\ reply'[c] = 500
    BY <1>1, <2>1 DEF OthersStay, TypeInv, TypeOK
  <2>3. Silent(c)'
    BY <2>2 DEF Silent
  <2> QED
    BY <1>1, <1>2, <2>2, <2>3, NothingToCover, OnlyReads
<1>3. CASE /\ sum \in Decimal /\ UNCHANGED reply
           /\ accrued' = [accrued EXCEPT ![c] = TotalKopecks(FromPGNumeric(sum))]
           /\ Goto(c, "withdrawn")
  <2>1. Had(u) <= Got(u)
    BY LedgerAssumption DEF MoneyInv, NoOverdraft, Had, Got
  <2>2. Got(u) \in Nat
    BY AccruedSum DEF AccruedIs, Got
  <2>3. TotalKopecks(FromPGNumeric(sum)) = Got(u) /\ Got(u) <= MaxNumeric
    BY <1>3, ReadsCredits DEF Decimal
  <2>4. /\ OthersStay(c) /\ pc'[c] = "withdrawn" /\ accrued'[c] = Got(u)
        /\ \A b \in Calls \ {c} : accrued'[b] = accrued[b] /\ spent'[b] = spent[b]
    BY <1>1, <1>3, <2>3 DEF Goto, OthersStay, TypeInv, TypeOK
  <2>5. Had(u)' = Had(u) /\ Got(u)' = Got(u)
    BY <1>1 DEF Had, GetWithdrawnAmount, Got, Total, AmountsOf, RowsOf
  <2>6. Sound(c)'
    <3>1. Got(u) <= Got(u)
      BY <2>2
    <3> QED
      BY <2>1, <2>3, <2>4, <2>5, <3>1 DEF Sound
  <2>7. Covered(c)'
    BY <2>4, <2>6 DEF Covered, Answering, Answered
  <2> QED
    BY <1>1, <2>4, <2>7, OnlyReads
<1> QED
  BY <1>2, <1>3 DEF ReadAccrued

LEMMA WithdrawnCovered ==
  ASSUME OneCallPerUser, TypeInv, MoneyInv, NEW c \in Calls, ReadWithdrawn(c)
  PROVE  MoneyInv'
<1>1. /\ UNCHANGED <<table, withdrawn, req, pending, made>>
      /\ pc[c] = "withdrawn"
  BY DEF ReadWithdrawn
<1>2. /\ Sound(c)
      /\ Had(Caller[c])' = Had(Caller[c]) /\ Got(Caller[c])' = Got(Caller[c])
  <2>1. Covered(c)
    BY DEF MoneyInv
  <2> QED
    BY <1>1, <2>1 DEF Covered, Had, GetWithdrawnAmount, Got, Total, AmountsOf, RowsOf
<1>3. Withdrawn(c) = Had(Caller[c])
  BY <1>2, ReadsWithdrawals
<1>4. CASE /\ req[c] = Balance /\ spent' = [spent EXCEPT ![c] = Withdrawn(c)]
           /\ Goto(c, "commit") /\ UNCHANGED <<accrued, reply>>
  <2>1. /\ OthersStay(c) /\ pc'[c] = "commit" /\ spent'[c] = Had(Caller[c])
        /\ \A b \in Calls \ {c} : accrued'[b] = accrued[b] /\ spent'[b] = spent[b]
    BY <1>1, <1>3, <1>4 DEF Goto, OthersStay, TypeInv, TypeOK
  <2>2. Sound(c)'
    BY <1>2, <1>4 DEF Sound
  <2>3. Covered(c)'
    BY <1>1, <1>2, <1>4, <2>1, <2>2 DEF Covered
  <2> QED
    BY <1>1, <2>1, <2>3, OnlyReads
<1>5. CASE /\ req[c] # Balance /\ Sufficient(c) /\ UNCHANGED reply
           /\ Goto(c, "insert") /\ Forgets(c)
  <2>1. /\ OthersStay(c) /\ pc'[c] = "insert" /\ req'[c] # Balance
        /\ \A b \in Calls \ {c} : accrued'[b] = accrued[b] /\ spent'[b] = spent[b]
    BY <1>1, <1>5 DEF Goto, Forgets, OthersStay, TypeInv, TypeOK
  <2>2. Storable(RowOf(c)) => Paid(c)
    BY <1>2, <1>5, Comparison
  <2>3. RowOf(c)' = RowOf(c) /\ Paid(c)' = Paid(c)
    BY <1>1 DEF RowOf, Asked, Paid, Had, GetWithdrawnAmount, Got, Total, AmountsOf, RowsOf
  <2>4. Covered(c)'
    BY <2>1, <2>2, <2>3 DEF Covered, Answering, Storable, Decimal
  <2> QED
    BY <1>1, <2>1, <2>4, OnlyReads
<1>6. CASE (Returns(c, "insufficient") \/ Returns(c, "error")) /\ Forgets(c)
  <2>1. /\ pc' = [pc EXCEPT ![c] = "done"]
        /\ \E code \in {402, 500} : reply' = [reply EXCEPT ![c] = code]
    BY <1>6, AnsweredWith
  <2>2. OthersStay(c) /\ pc'[c] = "done" /\ reply'[c] \in {402, 500}
    BY <1>1, <2>1 DEF OthersStay, TypeInv, TypeOK
  <2>3. Silent(c)'
    BY <2>2 DEF Silent
  <2>4. \A b \in Calls \ {c} : accrued'[b] = accrued[b] /\ spent'[b] = spent[b]
    BY <1>6 DEF Forgets, TypeInv, TypeOK
  <2> QED
    BY <1>1, <2>2, <2>3, <2>4, NothingToCover, OnlyReads
<1> QED
  BY <1>4, <1>5, <1>6 DEF ReadWithdrawn

LEMMA InsertCovered ==
  ASSUME OneCallPerUser, IInv, TypeInv, MoneyInv, NEW c \in Calls, CreateWithdrawal(c)
  PROVE  MoneyInv'
<1>1. /\ UNCHANGED <<table, withdrawn, req, accrued, spent, reply, made>>
      /\ pc[c] = "insert" /\ Storable(RowOf(c))
      /\ pc' = [pc EXCEPT ![c] = "commit"] /\ pending' = [pending EXCEPT ![c] = {RowOf(c)}]
  BY DEF CreateWithdrawal, Goto
<1>2. OthersStay(c) /\ pc'[c] = "commit" /\ req'[c] # Balance
  BY <1>1 DEF OthersStay, TypeInv, TypeOK, IInv, CallOK, Inserted
<1>3. Paid(c) /\ Paid(c)' = Paid(c)
  <2>1. Paid(c)
    BY <1>1 DEF MoneyInv, Covered
  <2> QED
    BY <1>1, <2>1 DEF RowOf, Asked, Paid, Had, GetWithdrawnAmount, Got, Total, AmountsOf, RowsOf
<1>4. Covered(c)'
  BY <1>2, <1>3 DEF Covered, Answering
<1> QED
  BY <1>1, <1>2, <1>4, OnlyReads

(* A commit, whatever the client learns of it.                             *)
LEMMA CommitsCovered ==
  ASSUME OneCallPerUser, IInv, TypeInv, TypeInv', MoneyInv, NEW c \in Calls,
         pc[c] = "commit", Commits(c), OthersStay(c), UNCHANGED table,
         \A b \in Calls \ {c} : accrued'[b] = accrued[b] /\ spent'[b] = spent[b],
         req[c] = Balance => Covered(c)' \/ Silent(c)', req[c] # Balance => Silent(c)'
  PROVE  MoneyInv'
<1>1. CASE req[c] = Balance
  <2>1. UNCHANGED withdrawn
    BY <1>1 DEF IInv, CallOK, Inserted, Commits
  <2> QED
    BY <1>1, <2>1, NothingToCover, OnlyReads
<1>2. CASE req[c] # Balance
  <2>1. pending[c] = {RowOf(c)} /\ withdrawn' = withdrawn \cup {RowOf(c)}
    BY <1>2 DEF IInv, CallOK, Inserted, Commits
  <2>2. RowOf(c) \in WithdrawnRow
    BY <2>1 DEF TypeInv, TypeOK
  <2>3. RowOf(c).user = Caller[c]
    BY DEF RowOf
  <2>4. /\ \A u : u # Caller[c] => Had(u)' = Had(u)
        /\ Had(Caller[c])' <= Had(Caller[c]) + RowOf(c).sum
    BY <2>1, <2>2, <2>3, RowAdds
  <2>5. OnlyOf(c)
    BY <2>4 DEF OnlyOf
  <2>6. Had(Caller[c])' <= Got(Caller[c])
    <3>1. Had(Caller[c]) + RowOf(c).sum <= Got(Caller[c])
      BY <1>2 DEF MoneyInv, Covered, Paid
    <3>2. Had(Caller[c]) \in Nat /\ Had(Caller[c])' \in Nat /\ Got(Caller[c]) \in Nat
      BY WithdrawnSum, WithdrawnSumNext, AccruedSum DEF WithdrawnIs, AccruedIs, Had, Got
    <3>3. RowOf(c).sum \in Nat
      BY <2>2, LedgerAssumption DEF WithdrawnRow, Decimal
    <3> QED
      BY <2>4, <3>1, <3>2, <3>3
  <2> QED
    BY <1>2, <2>5, <2>6, NothingToCover, SlotKeeps
<1> QED
  BY <1>1, <1>2

LEMMA CommitCovered ==
  ASSUME OneCallPerUser, IInv, TypeInv, TypeInv', MoneyInv, NEW c \in Calls, Commit(c)
  PROVE  MoneyInv'
<1>1. /\ pc[c] = "commit" /\ Commits(c) /\ pc' = [pc EXCEPT ![c] = "done"]
      /\ pending' = [pending EXCEPT ![c] = {}]
      /\ reply' = [reply EXCEPT ![c] = Status(Codes(c, "ok"))]
      /\ made' = IF req[c] = Balance THEN made ELSE [made EXCEPT ![c] = "yes"]
      /\ UNCHANGED <<table, req, accrued, spent>>
  BY DEF Commit, Ends, Returns, Answers, Goto
<1>2. OthersStay(c) /\ pc'[c] = "done"
  BY <1>1 DEF OthersStay, TypeInv, TypeOK
<1>3. req[c] # Balance => Silent(c)'
  BY <1>1, <1>2 DEF Silent
<1>4. ASSUME req[c] = Balance PROVE Covered(c)'
  <2>1. Sound(c) /\ spent[c] = Had(Caller[c])
    BY <1>1, <1>4 DEF MoneyInv, Covered, Answering
  <2>2. UNCHANGED withdrawn
    BY <1>1, <1>4 DEF IInv, CallOK, Inserted, Commits
  <2>3. Had(Caller[c])' = Had(Caller[c]) /\ Got(Caller[c])' = Got(Caller[c])
    BY <1>1, <2>2 DEF Had, GetWithdrawnAmount, Got, Total, AmountsOf, RowsOf
  <2>4. Sound(c)' /\ (spent[c] = Had(Caller[c]))'
    BY <1>1, <2>1, <2>3 DEF Sound
  <2> QED
    BY <1>2, <2>4 DEF Covered
<1> QED
  BY <1>1, <1>2, <1>3, <1>4, CommitsCovered

(* A call that is over, for the client or until it is tried again.         *)
LEMMA EndsCovered ==
  ASSUME OneCallPerUser, TypeInv, MoneyInv, NEW c \in Calls, Silent(c)',
         OthersStay(c), UNCHANGED <<table, withdrawn>>,
         Forgets(c) \/ UNCHANGED <<accrued, spent>>
  PROVE  MoneyInv'
<1>1. \A b \in Calls \ {c} : accrued'[b] = accrued[b] /\ spent'[b] = spent[b]
  BY DEF Forgets, TypeInv, TypeOK
<1> QED
  BY <1>1, NothingToCover, OnlyReads

LEMMA RetriesSilent ==
  ASSUME TypeInv, NEW c \in Calls, Retries(c) \/ GivesUp(c)
  PROVE  /\ Silent(c)'
         /\ \A b \in Calls \ {c} : pc'[b] = pc[b] /\ reply'[b] = reply[b]
<1>1. \/ pc' = [pc EXCEPT ![c] = "accrued"] /\ UNCHANGED reply
      \/ pc' = [pc EXCEPT ![c] = "done"] /\ reply' = [reply EXCEPT ![c] = 500]
  BY AnsweredWith DEF Retries, GivesUp, Goto
<1> QED
  BY <1>1 DEF Silent, TypeInv, TypeOK

LEMMA CommitUnknownCovered ==
  ASSUME OneCallPerUser, IInv, TypeInv, TypeInv', MoneyInv, NEW c \in Calls, CommitUnknown(c)
  PROVE  MoneyInv'
<1>1. /\ pc[c] = "commit" /\ Commits(c) /\ (Retries(c) \/ GivesUp(c))
      /\ pending' = [pending EXCEPT ![c] = {}]
      /\ accrued' = [accrued EXCEPT ![c] = 0] /\ spent' = [spent EXCEPT ![c] = 0]
      /\ made' = IF req[c] = Balance THEN made ELSE [made EXCEPT ![c] = "unknown"]
      /\ UNCHANGED <<table, req>>
  BY DEF CommitUnknown, Ends, Forgets
<1>2. Silent(c)' /\ \A b \in Calls \ {c} : pc'[b] = pc[b] /\ reply'[b] = reply[b]
  BY <1>1, RetriesSilent
<1>3. OthersStay(c)
  BY <1>1, <1>2 DEF OthersStay, TypeInv, TypeOK
<1>4. \A b \in Calls \ {c} : accrued'[b] = accrued[b] /\ spent'[b] = spent[b]
  BY <1>1 DEF TypeInv, TypeOK
<1> QED
  BY <1>1, <1>2, <1>3, <1>4, CommitsCovered

LEMMA FailsCovered ==
  ASSUME OneCallPerUser, TypeInv, MoneyInv, NEW c \in Calls,
         NEW retryable \in BOOLEAN, StatementFails(c, retryable)
  PROVE  MoneyInv'
<1>1. /\ UNCHANGED <<table, withdrawn, req, made>> /\ Forgets(c)
      /\ pending' = [pending EXCEPT ![c] = {}] /\ (Retries(c) \/ GivesUp(c))
  BY DEF StatementFails, Ends
<1>2. Silent(c)' /\ \A b \in Calls \ {c} : pc'[b] = pc[b] /\ reply'[b] = reply[b]
  BY <1>1, RetriesSilent
<1>3. OthersStay(c)
  BY <1>1, <1>2 DEF OthersStay, TypeInv, TypeOK
<1> QED
  BY <1>1, <1>2, <1>3, EndsCovered

(* The environment writes an order that has no money in it yet.            *)
LEMMA TableCovered ==
  ASSUME IInv, TypeInv, TypeInv', MoneyInv, NEW o \in Orders, NEW row,
         table' = [table EXCEPT ![o] = row], table[o].amount \in {0, NULL},
         row.amount \in Credits \cup {0, NULL}, row.amount \in Credits => row.status = "PROCESSED",
         UNCHANGED <<withdrawn, callVars>>
  PROVE  MoneyInv'
<1>1. CreditsStand'
  BY DEF MoneyInv, CreditsStand, TypeInv, TypeOK
<1>2. \A u : Had(u)' = Had(u)
  BY DEF Had, GetWithdrawnAmount
<1>3. \A u : /\ Had(u) \in Nat /\ Got(u) \in Nat /\ Got(u)' \in Nat
             /\ Got(u) <= Got(u)'
  BY CreditAdds, WithdrawnSum, AccruedSum, AccruedSumNext DEF WithdrawnIs, AccruedIs, Had, Got
<1>4. NoOverdraft'
  <2> SUFFICES ASSUME NEW u \in Users PROVE Had(u)' <= Got(u)'
    BY DEF NoOverdraft, Had, Got
  <2>1. Had(u) <= Got(u)
    BY DEF MoneyInv, NoOverdraft, Had, Got
  <2> QED
    BY <1>2, <1>3, <2>1
<1>5. ASSUME NEW c \in Calls PROVE Covered(c)'
  <2>1. UNCHANGED <<pc, req, reply, accrued, spent>> /\ RowOf(c)' = RowOf(c)
    BY DEF callVars, RowOf, Asked
  <2>2. Sound(c) => Sound(c)'
    <3>1. accrued[c] \in Int
      BY DEF TypeInv, TypeOK, Int64
    <3> QED
      BY <1>2, <1>3, <2>1, <3>1 DEF Sound
  <2>3. RowOf(c).sum \in Nat /\ Paid(c) => Paid(c)'
    BY <1>2, <1>3, <2>1 DEF Paid
  <2>4. Storable(RowOf(c)) => RowOf(c).sum \in Nat
    BY LedgerAssumption DEF Storable, Decimal
  <2>5. pc[c] = "commit" /\ req[c] # Balance => RowOf(c).sum \in Nat
    <3>1. pc[c] = "commit" /\ req[c] # Balance => RowOf(c) \in WithdrawnRow
      BY DEF IInv, CallOK, Inserted, TypeInv, TypeOK
    <3> QED
      BY <3>1, LedgerAssumption DEF WithdrawnRow, Decimal
  <2>6. Covered(c)
    BY DEF MoneyInv
  <2>7. Answering(c)' = Answering(c) /\ Storable(RowOf(c))' = Storable(RowOf(c))
    BY <2>1 DEF Answering, Answered, Storable, Decimal
  <2> QED
    BY <1>2, <2>1, <2>2, <2>3, <2>4, <2>5, <2>6, <2>7 DEF Covered
<1> QED
  BY <1>1, <1>4, <1>5 DEF MoneyInv

LEMMA InitCredits == Init => CreditsStand
<1>1. NULL \notin Credits
  BY LedgerAssumption, NullAssumption
<1>2. Init => \A o \in Orders : table[o].amount = NULL
  BY DEF Init, NoRow
<1> QED
  BY <1>1, <1>2 DEF CreditsStand

LEMMA InitMoney == Init => MoneyInv
<1> SUFFICES ASSUME Init PROVE MoneyInv
  OBVIOUS
<1>1. CreditsStand
  BY InitCredits
<1>2. NoOverdraft
  <2> SUFFICES ASSUME NEW u \in Users PROVE GetWithdrawnAmount(u) <= Total(AmountsOf(u))
    BY DEF NoOverdraft
  <2>1. RowsBy(u) = {}
    BY DEF Init, RowsBy
  <2>2. TypeInv
    BY InitTypes
  <2>3. GetWithdrawnAmount(u) = 0
    BY <2>1, <2>2, WithdrawnSum, SumOfNone DEF WithdrawnIs
  <2>4. Total(AmountsOf(u)) \in Nat
    BY <2>2, AccruedSum DEF AccruedIs
  <2> QED
    BY <2>3, <2>4
<1>3. \A c \in Calls : Covered(c)
  BY DEF Init, Covered, Answering, Answered
<1> QED
  BY <1>1, <1>2, <1>3 DEF MoneyInv

LEMMA NextMoney ==
  ASSUME OneCallPerUser, IInv, TypeInv, TypeInv', MoneyInv, [Next]_vars
  PROVE  MoneyInv'
<1>1. ASSUME NEW c \in Calls, NEW q \in Requests, Call(c, q) PROVE MoneyInv'
  <2>1. /\ UNCHANGED <<table, withdrawn, accrued, spent, pending, made>>
        /\ req' = [req EXCEPT ![c] = q]
        /\ \/ pc' = [pc EXCEPT ![c] = "accrued"] /\ UNCHANGED reply
           \/ pc' = [pc EXCEPT ![c] = "done"] /\ reply' = [reply EXCEPT ![c] = 400]
    BY <1>1 DEF Call, Answers, Goto
  <2>2. OthersStay(c) /\ Silent(c)'
    BY <2>1 DEF OthersStay, Silent, TypeInv, TypeOK
  <2> QED
    BY <2>1, <2>2, EndsCovered
<1>2. ASSUME NEW c \in Calls, CallFails(c) PROVE MoneyInv'
  <2>1. /\ UNCHANGED <<table, withdrawn, req, accrued, spent, pending, made>>
        /\ pc' = [pc EXCEPT ![c] = "done"] /\ reply' = [reply EXCEPT ![c] = 500]
    BY <1>2 DEF CallFails, Answers, Goto
  <2>2. OthersStay(c) /\ Silent(c)'
    BY <2>1 DEF OthersStay, Silent, TypeInv, TypeOK
  <2> QED
    BY <2>1, <2>2, EndsCovered
<1>3. ASSUME NEW c \in Calls, CallStep(c) PROVE MoneyInv'
  <2>1. CASE ReadAccrued(c)
    BY <2>1, AccruedCovered
  <2>2. CASE ReadWithdrawn(c)
    BY <2>2, WithdrawnCovered
  <2>3. CASE CreateWithdrawal(c)
    BY <2>3, InsertCovered
  <2>4. CASE InsertRefused(c)
    <3>1. /\ UNCHANGED <<table, withdrawn, req, accrued, spent, pending, made>>
          /\ pc' = [pc EXCEPT ![c] = "done"] /\ reply' = [reply EXCEPT ![c] = 500]
      BY <2>4, AnsweredWith DEF InsertRefused
    <3>2. OthersStay(c) /\ Silent(c)'
      BY <3>1 DEF OthersStay, Silent, TypeInv, TypeOK
    <3> QED
      BY <3>1, <3>2, EndsCovered
  <2>5. CASE Commit(c)
    BY <2>5, CommitCovered
  <2>6. CASE CommitUnknown(c)
    BY <2>6, CommitUnknownCovered
  <2>7. CASE Respond(c)
    <3>1. /\ UNCHANGED <<table, withdrawn, pending>> /\ Forgets(c)
          /\ pc' = [pc EXCEPT ![c] = "idle"] /\ req' = [req EXCEPT ![c] = Balance]
          /\ reply' = [reply EXCEPT ![c] = NoReply] /\ made' = [made EXCEPT ![c] = "no"]
      BY <2>7 DEF Respond, Goto
    <3>2. OthersStay(c) /\ Silent(c)'
      BY <3>1 DEF OthersStay, Silent, TypeInv, TypeOK
    <3> QED
      BY <3>1, <3>2, EndsCovered
  <2>8. ASSUME NEW retryable \in BOOLEAN, StatementFails(c, retryable) PROVE MoneyInv'
    BY <2>8, FailsCovered
  <2> QED
    BY <1>3, <2>1, <2>2, <2>3, <2>4, <2>5, <2>6, <2>7, <2>8 DEF CallStep
<1>4. ASSUME NEW o \in Orders, Upload(o) PROVE MoneyInv'
  <2>1. /\ table' = [table EXCEPT ![o] = CreateAccrual] /\ table[o].amount \in {0, NULL}
        /\ UNCHANGED <<withdrawn, callVars>>
    BY <1>4 DEF Upload, NoRow
  <2>2. CreateAccrual.amount = 0 /\ 0 \notin Credits
    BY LedgerAssumption DEF CreateAccrual
  <2> QED
    BY <2>1, <2>2, TableCovered
<1>5. ASSUME NEW o \in Orders, NEW s \in {"PROCESSING", "PROCESSED"}, NEW k \in Credits \cup {0},
             Update(o, s, k)
      PROVE  MoneyInv'
  <2> DEFINE row == UpdateAccrualStatus(s, k)
  <2>1. /\ table' = [table EXCEPT ![o] = row] /\ table[o].status # "PROCESSED"
        /\ k # 0 => s = "PROCESSED"
        /\ UNCHANGED <<withdrawn, callVars>>
    BY <1>5 DEF Update
  <2>2. table[o].amount \in {0, NULL}
    BY <2>1 DEF MoneyInv, CreditsStand
  <2>3. row.amount \in Credits \cup {0, NULL} /\ (row.amount \in Credits => row.status = "PROCESSED")
    BY <2>1, LedgerAssumption, NullAssumption DEF UpdateAccrualStatus
  <2> HIDE DEF row
  <2> QED
    BY <2>1, <2>2, <2>3, TableCovered
<1>6. CASE UNCHANGED vars
  <2>1. /\ UNCHANGED <<table, withdrawn, pc, req, reply, accrued, spent>>
        /\ \A u : Had(u)' = Had(u) /\ Got(u)' = Got(u)
        /\ \A c : RowOf(c)' = RowOf(c)
    BY <1>6 DEF vars, callVars, Had, GetWithdrawnAmount, Got, Total, AmountsOf, RowsOf, RowOf, Asked
  <2>2. CreditsStand' /\ NoOverdraft'
    BY <2>1 DEF MoneyInv, CreditsStand, NoOverdraft, Had, Got
  <2>3. \A c \in Calls : Covered(c)'
    BY <2>1 DEF MoneyInv, Covered, Sound, Paid, Answering, Answered, Storable, Decimal
  <2> QED
    BY <2>2, <2>3 DEF MoneyInv
<1> QED
  BY <1>1, <1>2, <1>3, <1>4, <1>5, <1>6 DEF Next

(* Rebuilding an amount from its kopecks loses nothing.                    *)
LEMMA Rebuilt ==
  ASSUME NEW k \in 0 .. MaxInt
  PROVE  TotalKopecks(NewAmount(0, Wrap(k))) = k
<1>1. k \in Int64
  BY AmountAssumption DEF Int64
<1>2. Wrap(k) = k /\ Quo(k) \in Int64 /\ k \in Int
  BY <1>1, WrapInside, QuoInside DEF Int64
<1>3. NewAmount(0, Wrap(k)) = [roubles |-> Wrap(0 + Quo(k)), kopeck |-> Rem(k)]
  BY <1>2 DEF NewAmount
<1>4. Wrap(0 + Quo(k)) = Quo(k)
  <2>1. 0 + Quo(k) = Quo(k)
    BY <1>2 DEF Int64
  <2> QED
    BY <1>2, <2>1, WrapInside
<1>5. TotalKopecks(NewAmount(0, Wrap(k))) = Wrap(k)
  BY <1>2, <1>3, <1>4, QuoRem DEF TotalKopecks
<1> QED
  BY <1>2, <1>5

LEMMA CurrentIs ==
  ASSUME NEW c \in Calls, accrued[c] - spent[c] \in 0 .. MaxInt
  PROVE  TotalKopecks(Current(c)) = accrued[c] - spent[c]
  BY Rebuilt DEF Current

LEMMA BalanceFollows == TypeInv /\ MoneyInv => BalanceTrue
<1> SUFFICES ASSUME TypeInv, MoneyInv, NEW c \in Calls, Answered(c, 200), req[c] = Balance
             PROVE  /\ spent[c] = Had(Caller[c])
                    /\ TotalKopecks(Current(c)) \in 0 .. Got(Caller[c]) - Had(Caller[c])
  BY DEF BalanceTrue, Had, Got
<1>1. Sound(c) /\ spent[c] = Had(Caller[c])
  BY DEF MoneyInv, Covered, Answering
<1>2. Had(Caller[c]) \in Nat /\ Got(Caller[c]) \in Nat
  BY WithdrawnSum, AccruedSum DEF WithdrawnIs, AccruedIs, Had, Got
<1>3. accrued[c] \in Int /\ accrued[c] <= MaxInt
  BY DEF TypeInv, TypeOK, Int64
<1>4. accrued[c] - spent[c] \in 0 .. MaxInt
  BY <1>1, <1>2, <1>3, AmountAssumption DEF Sound
<1>5. accrued[c] - spent[c] \in 0 .. Got(Caller[c]) - Had(Caller[c])
  BY <1>1, <1>2, <1>3 DEF Sound
<1> QED
  BY <1>1, <1>4, <1>5, CurrentIs

LEMMA MoneyHolds ==
  ASSUME OneCallPerUser
  PROVE  Spec => [](TypeInv /\ MoneyInv)
<1>1. IInv /\ TypeInv /\ TypeInv' /\ MoneyInv /\ [Next]_vars => MoneyInv'
  BY NextMoney
<1> QED
  BY <1>1, InitIInv, NextIInv, InitTypes, NextTypes, InitMoney, PTL DEF Spec

(* Nobody withdraws more than was credited, through any number of failures *)
(* and of repetitions after a commit of unknown outcome.                   *)
THEOREM NobodyOverdraws ==
  ASSUME OneCallPerUser
  PROVE  Spec => []NoOverdraft
<1>1. MoneyInv => NoOverdraft
  BY DEF MoneyInv
<1> QED
  BY <1>1, MoneyHolds, PTL

(* A balance is answered as it is, although it was read in two statements  *)
(* and printed from other integers than it was read into.                  *)
THEOREM BalancesTrue ==
  ASSUME OneCallPerUser
  PROVE  Spec => []BalanceTrue
  BY BalanceFollows, MoneyHolds, PTL

-----------------------------------------------------------------------------
(* Ledger implements Account.  A step of a call is seen from outside in    *)
(* the slot of that call only, because nobody else writes the withdrawals  *)
(* of its user.                                                            *)

Settled(c) == pc[c] = "done" <=> reply[c] # NoReply

(* The number of a row that is about to be committed is not taken.         *)
Fresh(c) ==
  pc[c] = "commit" /\ req[c] # Balance => \A r \in withdrawn : r.number # req[c].number

Rest == \A c \in Calls : Settled(c) /\ Fresh(c)

Within(c) ==
  /\ OthersStay(c) /\ UNCHANGED table
  /\ \A b \in Calls \ {c} : accrued'[b] = accrued[b] /\ spent'[b] = spent[b]
  /\ withdrawn \subseteq withdrawn' /\ withdrawn' \subseteq withdrawn \cup pending[c]

Serves(c) == (\E q \in Requests : Call(c, q)) \/ CallFails(c) \/ CallStep(c)

LEMMA Footprint ==
  ASSUME TypeInv, NEW c \in Calls, Serves(c)
  PROVE  Within(c)
<1> USE DEF Within, OthersStay, TypeInv, TypeOK, Goto, Answers, Returns
<1>1. CASE \E q \in Requests : Call(c, q)
  BY <1>1 DEF Call
<1>2. CASE CallFails(c)
  BY <1>2 DEF CallFails
<1>3. CASE ReadAccrued(c)
  BY <1>3 DEF ReadAccrued
<1>4. CASE ReadWithdrawn(c)
  BY <1>4 DEF ReadWithdrawn, Forgets
<1>5. CASE CreateWithdrawal(c)
  BY <1>5 DEF CreateWithdrawal
<1>6. CASE InsertRefused(c)
  BY <1>6 DEF InsertRefused
<1>7. CASE Commit(c)
  BY <1>7 DEF Commit, Commits, Ends
<1>8. CASE CommitUnknown(c)
  BY <1>8 DEF CommitUnknown, Commits, Ends, Forgets, Retries, GivesUp
<1>9. CASE Respond(c)
  BY <1>9 DEF Respond, Forgets
<1>10. CASE \E retryable \in BOOLEAN : StatementFails(c, retryable)
  BY <1>10 DEF StatementFails, Ends, Forgets, Retries, GivesUp
<1> QED
  BY <1>1, <1>2, <1>3, <1>4, <1>5, <1>6, <1>7, <1>8, <1>9, <1>10 DEF Serves, CallStep

LEMMA WithinOnly ==
  ASSUME IInv, NEW c \in Calls, Within(c)
  PROVE  OnlyOf(c)
<1>1. \A r \in pending[c] : r.user = Caller[c]
  <2>1. pending[c] = {} \/ pending[c] = {RowOf(c)}
    BY DEF IInv, CallOK, Inserted
  <2>2. RowOf(c).user = Caller[c]
    BY DEF RowOf
  <2> QED
    BY <2>1, <2>2
<1>2. ASSUME NEW u, u # Caller[c] PROVE Had(u)' = Had(u)
  <2>1. RowsBy(u)' = RowsBy(u)
    BY <1>1, <1>2 DEF Within, RowsBy
  <2> QED
    BY <2>1 DEF Had, GetWithdrawnAmount, RowsBy
<1> QED
  BY <1>2 DEF Within, OnlyOf

LEMMA Viewed ==
  ASSUME OneCallPerUser, IInv, NEW c \in Calls, Within(c)
  PROVE  /\ Granted' = Granted
         /\ Asking' = [Asking EXCEPT ![c] = Wanted(c)']
         /\ Looking' = [Looking EXCEPT ![c] = Seen(c)']
         /\ Wanted(c)' = Wanted(c) => Asking' = Asking
         /\ Seen(c)' = Seen(c) => Looking' = Looking
<1>1. OnlyOf(c)
  BY WithinOnly
<1>2. Granted' = Granted
  BY DEF Within, Granted, Total, AmountsOf, RowsOf
<1>3. ASSUME NEW b \in Calls \ {c} PROVE Wanted(b)' = Wanted(b) /\ Seen(b)' = Seen(b)
  <2>1. /\ pc'[b] = pc[b] /\ req'[b] = req[b] /\ reply'[b] = reply[b]
        /\ accrued'[b] = accrued[b] /\ spent'[b] = spent[b]
    BY DEF Within, OthersStay
  <2>2. Caller[b] # Caller[c]
    BY DEF OneCallPerUser
  <2>3. GetWithdrawnAmount(Caller[b])' = GetWithdrawnAmount(Caller[b])
    BY <1>1, <2>2 DEF OnlyOf, Had
  <2>4. Wanted(b)' = Wanted(b)
    BY <2>1 DEF Wanted, Asked
  <2>5. Seen(b)' = Seen(b)
    BY <2>1, <2>3 DEF Seen, Prints, Answered, Current
  <2> QED
    BY <2>4, <2>5
<1>4. Asking' = [Asking EXCEPT ![c] = Wanted(c)']
  BY <1>3 DEF Asking
<1>5. Looking' = [Looking EXCEPT ![c] = Seen(c)']
  BY <1>3 DEF Looking
<1>6. Wanted(c)' = Wanted(c) => Asking' = Asking
  BY <1>3 DEF Asking
<1>7. Seen(c)' = Seen(c) => Looking' = Looking
  BY <1>3 DEF Looking
<1> QED
  BY <1>2, <1>4, <1>5, <1>6, <1>7

(* A row that is committed has a number of its own.                        *)
LEMMA RestKeeps ==
  ASSUME OneCallPerUser, IInv, Rest, NEW c \in Calls, Within(c), Settled(c)',
         pc'[c] # "commit" \/ req'[c] = Balance \/ Fresh(c)'
  PROVE  Rest'
<1>1. Fresh(c)'
  BY DEF Fresh
<1>2. ASSUME NEW b \in Calls \ {c} PROVE Settled(b)' /\ Fresh(b)'
  <2>1. pc'[b] = pc[b] /\ req'[b] = req[b] /\ reply'[b] = reply[b]
    BY DEF Within, OthersStay
  <2>2. Settled(b)'
    BY <2>1 DEF Rest, Settled
  <2>3. ASSUME pc[b] = "commit", req[b] # Balance, NEW r \in withdrawn'
        PROVE  r.number # req[b].number
    <3>1. CASE r \in withdrawn
      BY <2>3, <3>1 DEF Rest, Fresh
    <3>2. CASE r \in pending[c]
      <4>1. r = RowOf(c) /\ RowOf(b) \in pending[b]
        BY <2>3, <3>2 DEF IInv, CallOK, Inserted
      <4>2. r.number = RowOf(b).number => r = RowOf(b)
        BY <3>2, <4>1 DEF IInv, PaidOnce
      <4>3. RowOf(c).user # RowOf(b).user /\ RowOf(b).number = req[b].number
        BY DEF RowOf, OneCallPerUser
      <4> QED
        BY <4>1, <4>2, <4>3
    <3> QED
      BY <2>3, <3>1, <3>2 DEF Within
  <2>4. Fresh(b)'
    BY <2>1, <2>3 DEF Fresh
  <2> QED
    BY <2>2, <2>4
<1> QED
  BY <1>1, <1>2 DEF Rest

(* What an answer says is settled, and so is a call that goes on.          *)
LEMMA AnswerSettles ==
  ASSUME TypeInv, NEW c \in Calls, pc'[c] = "done", reply'[c] \in {200, 400, 402, 500}
  PROVE  Settled(c)' /\ pc'[c] # "commit"
  BY DEF Settled, NoReply

LEMMA GoingOnSettles ==
  ASSUME TypeInv, Rest, NEW c \in Calls, NEW where \in Counters \ {"done"}, pc[c] # "done",
         pc' = [pc EXCEPT ![c] = where], UNCHANGED reply
  PROVE  Settled(c)'
  BY DEF TypeInv, TypeOK, Settled, Rest

LEMMA EndSettles ==
  ASSUME TypeInv, Rest, NEW c \in Calls, pc[c] # "done", Retries(c) \/ GivesUp(c)
  PROVE  Settled(c)' /\ pc'[c] # "commit"
<1>1. CASE pc' = [pc EXCEPT ![c] = "accrued"] /\ UNCHANGED reply
  <2>1. Settled(c)'
    BY <1>1, GoingOnSettles DEF Counters
  <2> QED
    BY <1>1, <2>1 DEF TypeInv, TypeOK
<1>2. CASE pc' = [pc EXCEPT ![c] = "done"] /\ reply' = [reply EXCEPT ![c] = 500]
  BY <1>2, AnswerSettles DEF TypeInv, TypeOK
<1>3. CASE GivesUp(c)
  BY <1>2, <1>3, AnsweredWith DEF GivesUp
<1>4. CASE Retries(c)
  <2>1. \/ pc' = [pc EXCEPT ![c] = "accrued"] /\ UNCHANGED reply
        \/ GivesUp(c)
    BY <1>4 DEF Retries, Goto
  <2> QED
    BY <2>1, <1>1, <1>3
<1> QED
  BY <1>3, <1>4

LEMMA ServesRest ==
  ASSUME OneCallPerUser, IInv, TypeInv, Rest, NEW c \in Calls, Serves(c)
  PROVE  Rest'
<1> SUFFICES Settled(c)' /\ (pc'[c] # "commit" \/ req'[c] = Balance \/ Fresh(c)')
  BY Footprint, RestKeeps
<1>1. CASE \E q \in Requests : Call(c, q)
  <2>1. /\ pc[c] = "idle"
        /\ \/ pc' = [pc EXCEPT ![c] = "accrued"] /\ UNCHANGED reply
           \/ pc' = [pc EXCEPT ![c] = "done"] /\ reply' = [reply EXCEPT ![c] = 400]
    BY <1>1 DEF Call, Answers, Goto
  <2>2. CASE pc' = [pc EXCEPT ![c] = "accrued"] /\ UNCHANGED reply
    <3>1. Settled(c)'
      BY <2>1, <2>2, GoingOnSettles DEF Counters
    <3>2. pc'[c] = "accrued"
      BY <2>2 DEF TypeInv, TypeOK
    <3> QED
      BY <3>1, <3>2
  <2>3. CASE pc' = [pc EXCEPT ![c] = "done"] /\ reply' = [reply EXCEPT ![c] = 400]
    BY <2>3, AnswerSettles DEF TypeInv, TypeOK
  <2> QED
    BY <2>1, <2>2, <2>3
<1>2. CASE CallFails(c)
  <2>1. pc' = [pc EXCEPT ![c] = "done"] /\ reply' = [reply EXCEPT ![c] = 500]
    BY <1>2 DEF CallFails, Answers, Goto
  <2>2. Settled(c)' /\ pc'[c] # "commit"
    BY <2>1, AnswerSettles DEF TypeInv, TypeOK
  <2> QED
    BY <2>2
<1>3. CASE ReadAccrued(c)
  <2>1. /\ pc[c] = "accrued"
        /\ \/ pc' = [pc EXCEPT ![c] = "withdrawn"] /\ UNCHANGED reply
           \/ pc' = [pc EXCEPT ![c] = "done"] /\ reply' = [reply EXCEPT ![c] = 500]
    BY <1>3, AnsweredWith DEF ReadAccrued, Goto
  <2>2. CASE pc' = [pc EXCEPT ![c] = "withdrawn"] /\ UNCHANGED reply
    <3>1. Settled(c)'
      BY <2>1, <2>2, GoingOnSettles DEF Counters
    <3>2. pc'[c] = "withdrawn"
      BY <2>2 DEF TypeInv, TypeOK
    <3> QED
      BY <3>1, <3>2
  <2>3. CASE pc' = [pc EXCEPT ![c] = "done"] /\ reply' = [reply EXCEPT ![c] = 500]
    BY <2>3, AnswerSettles DEF TypeInv, TypeOK
  <2> QED
    BY <2>1, <2>2, <2>3
<1>4. CASE ReadWithdrawn(c)
  <2>1. /\ pc[c] = "withdrawn" /\ UNCHANGED req
        /\ \/ req[c] = Balance /\ pc' = [pc EXCEPT ![c] = "commit"] /\ UNCHANGED reply
           \/ pc' = [pc EXCEPT ![c] = "insert"] /\ UNCHANGED reply
           \/ /\ pc' = [pc EXCEPT ![c] = "done"]
              /\ \E code \in {402, 500} : reply' = [reply EXCEPT ![c] = code]
    BY <1>4, AnsweredWith DEF ReadWithdrawn, Goto
  <2>2. CASE req[c] = Balance /\ pc' = [pc EXCEPT ![c] = "commit"] /\ UNCHANGED reply
    BY <2>1, <2>2, GoingOnSettles DEF Counters
  <2>3. CASE pc' = [pc EXCEPT ![c] = "insert"] /\ UNCHANGED reply
    <3>1. Settled(c)'
      BY <2>1, <2>3, GoingOnSettles DEF Counters
    <3>2. pc'[c] = "insert"
      BY <2>3 DEF TypeInv, TypeOK
    <3> QED
      BY <3>1, <3>2
  <2>4. CASE /\ pc' = [pc EXCEPT ![c] = "done"]
             /\ \E code \in {402, 500} : reply' = [reply EXCEPT ![c] = code]
    BY <2>4, AnswerSettles DEF TypeInv, TypeOK
  <2> QED
    BY <2>1, <2>2, <2>3, <2>4
<1>5. CASE CreateWithdrawal(c)
  <2>1. /\ pc[c] = "insert" /\ pc' = [pc EXCEPT ![c] = "commit"]
        /\ UNCHANGED <<reply, req, withdrawn>> /\ \A r \in withdrawn : r.number # req[c].number
    BY <1>5 DEF CreateWithdrawal, Goto
  <2>2. Settled(c)'
    BY <2>1, GoingOnSettles DEF Counters
  <2> QED
    BY <2>1, <2>2 DEF Fresh
<1>6. CASE InsertRefused(c)
  BY <1>6, AnsweredWith, AnswerSettles DEF InsertRefused, TypeInv, TypeOK
<1>7. CASE Commit(c)
  <2> DEFINE code == Status(Codes(c, "ok"))
  <2>1. pc' = [pc EXCEPT ![c] = "done"] /\ reply' = [reply EXCEPT ![c] = code]
    BY <1>7 DEF Commit, Returns, Answers, Goto
  <2>2. code \in {200, 400, 402, 500}
    BY StatusOf
  <2> HIDE DEF code
  <2>3. Settled(c)' /\ pc'[c] # "commit"
    BY <2>1, <2>2 DEF TypeInv, TypeOK, Settled, NoReply
  <2> QED
    BY <2>3
<1>8. CASE CommitUnknown(c)
  BY <1>8, EndSettles DEF CommitUnknown
<1>9. CASE Respond(c)
  <2>1. pc' = [pc EXCEPT ![c] = "idle"] /\ reply' = [reply EXCEPT ![c] = NoReply]
    BY <1>9 DEF Respond, Goto
  <2> QED
    BY <2>1 DEF Settled, TypeInv, TypeOK
<1>10. CASE \E retryable \in BOOLEAN : StatementFails(c, retryable)
  BY <1>10, EndSettles DEF StatementFails, InTransaction
<1> QED
  BY <1>1, <1>2, <1>3, <1>4, <1>5, <1>6, <1>7, <1>8, <1>9, <1>10 DEF Serves, CallStep

LEMMA NextRest ==
  ASSUME OneCallPerUser, IInv, TypeInv, Rest, [Next]_vars
  PROVE  Rest'
<1>1. ASSUME NEW c \in Calls, Serves(c) PROVE Rest'
  BY <1>1, ServesRest
<1>2. ASSUME UNCHANGED <<withdrawn, callVars>> PROVE Rest'
  BY <1>2 DEF callVars, Rest, Settled, Fresh
<1> QED
  BY <1>1, <1>2 DEF Next, Serves, Upload, Update, vars

LEMMA InitRest == Init => Rest
  BY DEF Init, Rest, Settled, Fresh

-----------------------------------------------------------------------------
(* What a call does, as a step of Account.                                 *)

Served(c) == pc[c] \notin {"idle", "done"}

LEMMA WantedIs ==
  ASSUME NEW c \in Calls, pc[c] # "idle"
  PROVE  /\ Wanted(c) # Acc!Nothing
         /\ req[c] = Balance <=> Wanted(c) = Acc!Balance
         /\ req[c] # Balance =>
              Wanted(c).number = req[c].number /\ Wanted(c).kopecks = RowOf(c).sum
<1>1. req[c] = Balance => Wanted(c) = [kind |-> "balance"]
  BY DEF Wanted, Balance
<1>2. req[c] # Balance =>
        Wanted(c) = [kind |-> "withdrawal", number |-> req[c].number, kopecks |-> RowOf(c).sum]
  BY DEF Wanted, RowOf
<1>3. Wanted(c).kind \in {"balance", "withdrawal"} /\ (Wanted(c).kind = "balance" <=> req[c] = Balance)
  BY <1>1, <1>2
<1>4. Acc!Nothing.kind = "none" /\ Acc!Balance = [kind |-> "balance"]
  BY DEF Acc!Nothing, Acc!Balance
<1> QED
  BY <1>1, <1>2, <1>3, <1>4

LEMMA WantedType == TypeInv => \A c \in Calls : pc[c] # "idle" => Wanted(c) \in Acc!Requests
<1> SUFFICES ASSUME TypeInv, NEW c \in Calls, pc[c] # "idle" PROVE Wanted(c) \in Acc!Requests
  OBVIOUS
<1>1. req[c] \in Requests
  BY DEF TypeInv, TypeOK
<1>2. CASE req[c] = Balance
  BY <1>2, WantedIs DEF Acc!Requests
<1>3. CASE req[c] # Balance
  <2>1. PICK n \in Numbers, l \in Literals : req[c] = Withdrawal(n, l)
    BY <1>1, <1>3 DEF Requests
  <2>2. Wanted(c) = Acc!Withdrawal(n, ToPGNumeric(FromString(l)))
    BY <1>3, <2>1 DEF Wanted, Asked, Withdrawal, Acc!Withdrawal
  <2> QED
    BY <2>2 DEF Acc!Requests
<1> QED
  BY <1>2, <1>3

LEMMA WantedTypeNext ==
  TypeInv' => (\A c \in Calls : pc[c] # "idle" => Wanted(c) \in Acc!Requests)'
  BY WantedType, PTL

LEMMA WaitsNow ==
  ASSUME Rest, NEW c \in Calls, Served(c)
  PROVE  Acc!Waits(c)
<1>1. Asking[c] # Acc!Nothing
  BY WantedIs DEF Served, Asking
<1>2. reply[c] = 0
  BY DEF Served, Rest, Settled, NoReply
<1> QED
  BY <1>1, <1>2 DEF Acc!Waits

(* The transaction fails: it is gone about once more, or 500 is answered.  *)
LEMMA Unfinished ==
  ASSUME OneCallPerUser, IInv, Rest, NEW c \in Calls, Within(c), Served(c),
         UNCHANGED withdrawn, Wanted(c)' = Wanted(c), Seen(c)' = Nothing,
         UNCHANGED reply \/ reply' = [reply EXCEPT ![c] = 500]
  PROVE  Acc!StartOver(c) \/ Acc!Fail(c)
<1>1. /\ Granted' = Granted /\ Asking' = Asking
      /\ Looking' = [Looking EXCEPT ![c] = Acc!Nothing]
  BY Viewed DEF Nothing, Acc!Nothing
<1>2. Acc!Waits(c)
  BY WaitsNow
<1> QED
  BY <1>1, <1>2 DEF Acc!StartOver, Acc!Fail, Acc!Forgets, Acc!Answers

LEMMA Hidden ==
  ASSUME OneCallPerUser, IInv, NEW c \in Calls, Within(c),
         UNCHANGED <<withdrawn, reply>>, Wanted(c)' = Wanted(c), Seen(c)' = Seen(c)
  PROVE  UNCHANGED Acc!accountVars
<1>1. Granted' = Granted /\ Asking' = Asking /\ Looking' = Looking
  BY Viewed
<1> QED
  BY <1>1 DEF Acc!accountVars

(* Nothing is seen of an account before the first statement and after the  *)
(* comparison of a withdrawal.                                             *)
LEMMA SeesNothing ==
  ASSUME NEW c \in Calls, Silent(c) \/ pc[c] = "insert" \/ (pc[c] = "commit" /\ req[c] # Balance)
  PROVE  Seen(c) = Nothing
  BY DEF Silent, Seen, Prints, Answered

LEMMA SeesNothingNext ==
  ASSUME NEW c \in Calls, Silent(c)' \/ pc'[c] = "insert" \/ (pc'[c] = "commit" /\ req'[c] # Balance)
  PROVE  Seen(c)' = Nothing
  BY DEF Silent, Seen, Prints, Answered

LEMMA SameSum == \A f : Acc!SumFunction(f) = SumFunction(f)
  BY DEF Acc!SumFunction, Acc!SumFunctionOnSet, Acc!FoldFunctionOnSet, Acc!MapThenFoldSet,
         SumFunction, SumFunctionOnSet, FoldFunctionOnSet, MapThenFoldSet

LEMMA SpentIs ==
  ASSUME NEW u
  PROVE  Acc!Spent(u) = Had(u)
  BY SameSum DEF Acc!Spent, Had, GetWithdrawnAmount

(* A look at an account is not nothing.                                    *)
LEMMA LooksAreSomething ==
  ASSUME NEW x, NEW y
  PROVE  [current |-> x, withdrawn |-> y] # Acc!Nothing
<1>1. DOMAIN [current |-> x, withdrawn |-> y] = {"current", "withdrawn"}
  OBVIOUS
<1>2. DOMAIN Acc!Nothing = {"kind"}
  BY DEF Acc!Nothing
<1>3. "current" \notin {"kind"}
  OBVIOUS
<1> QED
  BY <1>1, <1>2, <1>3

Same == UNCHANGED Acc!accountVars

(* One step of Account, on behalf of the call c.                           *)
Atomic(c) ==
  \/ Same
  \/ Acc!Ask(c) \/ Acc!Refuse(c) \/ Acc!StartOver(c) \/ Acc!Fail(c) \/ Acc!Leave(c)
  \/ Acc!Look(c) \/ Acc!ShowBalance(c) \/ Acc!Insufficient(c) \/ Acc!Withdraw(c)

LEMMA AskAtomic ==
  ASSUME OneCallPerUser, IInv, TypeInv, TypeInv', NEW c \in Calls,
         (\E q \in Requests : Call(c, q)) \/ CallFails(c)
  PROVE  Atomic(c)
<1>1. /\ pc[c] = "idle" /\ UNCHANGED withdrawn
      /\ \/ pc'[c] = "accrued" /\ UNCHANGED reply
         \/ pc'[c] = "done" /\ reply' = [reply EXCEPT ![c] = 400]
         \/ pc'[c] = "done" /\ reply' = [reply EXCEPT ![c] = 500]
  BY DEF Call, CallFails, Answers, Goto, TypeInv, TypeOK
<1>2. Within(c)
  BY Footprint DEF Serves
<1>3. Seen(c) = Nothing /\ Silent(c)
  BY <1>1, SeesNothing DEF Silent
<1>4. Seen(c)' = Nothing
  <2>1. Silent(c)'
    BY <1>1 DEF Silent, TypeInv, TypeOK
  <2> QED
    BY <2>1, SeesNothingNext
<1>5. /\ Granted' = Granted /\ Asking' = [Asking EXCEPT ![c] = Wanted(c)']
      /\ Looking' = Looking
  BY <1>2, <1>3, <1>4, Viewed
<1>7. Asking[c] = Acc!Nothing
  BY <1>1 DEF Asking, Wanted, Nothing, Acc!Nothing
<1>8. Wanted(c)' \in Acc!Requests
  BY <1>1, WantedTypeNext DEF TypeInv, TypeOK
<1>9. Acc!Asks(c)
  BY <1>1, <1>5, <1>7, <1>8 DEF Acc!Asks
<1> QED
  BY <1>1, <1>9 DEF Atomic, Acc!Ask, Acc!Refuse, Acc!Answers

(* The accruals that are read are those of the instant at which the        *)
(* account is looked at.                                                   *)
LEMMA ReadAtomic ==
  ASSUME OneCallPerUser, IInv, TypeInv, Rest, NEW c \in Calls, ReadAccrued(c)
  PROVE  Atomic(c)
<1> DEFINE u == Caller[c]
<1>1. /\ pc[c] = "accrued" /\ UNCHANGED <<table, withdrawn, req>>
      /\ \/ pc' = [pc EXCEPT ![c] = "done"] /\ reply' = [reply EXCEPT ![c] = 500]
         \/ /\ GetAccruedAmount(u) \in Decimal
            /\ accrued' = [accrued EXCEPT ![c] = TotalKopecks(FromPGNumeric(GetAccruedAmount(u)))]
            /\ pc' = [pc EXCEPT ![c] = "withdrawn"] /\ UNCHANGED reply
  BY AnsweredWith DEF ReadAccrued, Goto
<1>2. Within(c) /\ Served(c)
  BY <1>1, Footprint DEF Serves, CallStep, Served
<1>3. Wanted(c)' = Wanted(c)
  BY <1>1 DEF Wanted, Asked, TypeInv, TypeOK
<1>4. CASE pc' = [pc EXCEPT ![c] = "done"] /\ reply' = [reply EXCEPT ![c] = 500]
  <2>1. Silent(c)'
    BY <1>4 DEF Silent, TypeInv, TypeOK
  <2> QED
    BY <1>1, <1>2, <1>3, <1>4, <2>1, SeesNothingNext, Unfinished DEF Atomic
<1>5. CASE /\ GetAccruedAmount(u) \in Decimal
           /\ accrued' = [accrued EXCEPT ![c] = TotalKopecks(FromPGNumeric(GetAccruedAmount(u)))]
           /\ pc' = [pc EXCEPT ![c] = "withdrawn"] /\ UNCHANGED reply
  <2>1. accrued'[c] = Got(u) /\ pc'[c] = "withdrawn"
    BY <1>5, ReadsCredits DEF TypeInv, TypeOK
  <2>2. GetWithdrawnAmount(u)' = Had(u)
    BY <1>1 DEF Had, GetWithdrawnAmount
  <2>3. Seen(c)' = [current |-> Got(u) - Had(u), withdrawn |-> Had(u)]
    BY <2>1, <2>2 DEF Seen
  <2>4. Granted[u] = Got(u) /\ Acc!Spent(u) = Had(u)
    BY LedgerAssumption, SpentIs DEF Granted, Got
  <2>5. Asking' = Asking
    BY <1>2, <1>3, Viewed
  <2>6. /\ Granted' = Granted
        /\ Looking' = [Looking EXCEPT ![c] =
                          [current |-> Granted[u] - Acc!Spent(u), withdrawn |-> Acc!Spent(u)]]
    BY <1>2, <2>3, <2>4, Viewed
  <2>7. Acc!Waits(c)
    BY <1>2, WaitsNow
  <2>8. Acc!Look(c)
    BY <1>1, <1>5, <2>5, <2>6, <2>7 DEF Acc!Look
  <2> QED
    BY <2>8 DEF Atomic
<1> QED
  BY <1>1, <1>4, <1>5

(* What the account had when it was looked at did not cover the sum.       *)
LEMMA TooLittle ==
  ASSUME TypeInv, NEW c \in Calls, req[c] # Balance, Sound(c), ~Sufficient(c)
  PROVE  accrued[c] - Had(Caller[c]) < RowOf(c).sum
<1> DEFINE asked == TotalKopecks(Asked(c))
           had == Had(Caller[c])
<1>1. asked \in Int64 /\ RowOf(c).sum = asked
  <2>1. req[c].sum \in Literal
    BY LedgerAssumption DEF TypeInv, TypeOK, Requests, Withdrawal
  <2> QED
    BY <2>1, ReadType DEF Asked, RowOf, ToPGNumeric
<1>2. had \in Nat /\ accrued[c] \in Int64
  BY WithdrawnSum DEF WithdrawnIs, Had, TypeInv, TypeOK
<1>3. ~(accrued[c] >= Wrap(asked + had))
  BY ReadsWithdrawals DEF Sufficient
<1> HIDE DEF asked, had
<1>4. Wrap(asked + had) <= asked + had /\ Wrap(asked + had) \in Int64
  <2>1. asked + had \in Int /\ asked + had >= -MaxInt - 1
    BY <1>1, <1>2, AmountAssumption DEF Int64
  <2> QED
    BY <2>1, WrapBelow, WrapType
<1>5. accrued[c] - had < asked
  BY <1>1, <1>2, <1>3, <1>4, AmountAssumption DEF Int64
<1> QED
  BY <1>1, <1>5 DEF had

LEMMA DecideAtomic ==
  ASSUME OneCallPerUser, IInv, TypeInv, MoneyInv, Rest, NEW c \in Calls,
         ReadWithdrawn(c)
  PROVE  Atomic(c)
<1> DEFINE had == Had(Caller[c])
<1>1. /\ pc[c] = "withdrawn" /\ UNCHANGED <<table, withdrawn, req>>
      /\ \/ /\ req[c] = Balance /\ spent' = [spent EXCEPT ![c] = Withdrawn(c)]
            /\ pc' = [pc EXCEPT ![c] = "commit"] /\ UNCHANGED <<accrued, reply>>
         \/ pc' = [pc EXCEPT ![c] = "insert"] /\ UNCHANGED reply
         \/ /\ req[c] # Balance /\ ~Sufficient(c)
            /\ pc' = [pc EXCEPT ![c] = "done"] /\ reply' = [reply EXCEPT ![c] = 402]
         \/ pc' = [pc EXCEPT ![c] = "done"] /\ reply' = [reply EXCEPT ![c] = 500]
  BY AnsweredWith DEF ReadWithdrawn, Goto
<1>2. Within(c) /\ Served(c)
  BY <1>1, Footprint DEF Serves, CallStep, Served
<1>3. Wanted(c)' = Wanted(c)
  BY <1>1 DEF Wanted, Asked, TypeInv, TypeOK
<1>4. Seen(c) = [current |-> accrued[c] - had, withdrawn |-> had] /\ Sound(c)
  BY <1>1 DEF Seen, MoneyInv, Covered, Had
<1>5. CASE /\ req[c] = Balance /\ spent' = [spent EXCEPT ![c] = Withdrawn(c)]
           /\ pc' = [pc EXCEPT ![c] = "commit"] /\ UNCHANGED <<accrued, reply>>
  <2>1. spent'[c] = had /\ pc'[c] = "commit" /\ req'[c] = Balance /\ accrued'[c] = accrued[c]
    BY <1>1, <1>4, <1>5, ReadsWithdrawals DEF TypeInv, TypeOK
  <2>2. accrued[c] - had \in 0 .. MaxInt
    <3>1. had \in Nat /\ accrued[c] \in Int /\ accrued[c] <= MaxInt
      BY WithdrawnSum DEF WithdrawnIs, Had, TypeInv, TypeOK, Int64
    <3> QED
      BY <1>4, <3>1, AmountAssumption DEF Sound
  <2>3. TotalKopecks(Current(c))' = accrued[c] - had
    <3>1. Current(c)' = NewAmount(0, Wrap(accrued[c] - had))
      BY <2>1 DEF Current
    <3> HIDE DEF had
    <3> QED
      BY <2>2, <3>1, Rebuilt
  <2>4. Seen(c)' = [current |-> accrued[c] - had, withdrawn |-> had]
    BY <2>1, <2>3 DEF Seen, Prints
  <2> QED
    BY <1>1, <1>2, <1>3, <1>4, <1>5, <2>4, Hidden DEF Atomic, Same
<1>6. CASE pc' = [pc EXCEPT ![c] = "insert"] /\ UNCHANGED reply
  <2>1. Seen(c)' = Nothing
    BY <1>6, SeesNothingNext DEF TypeInv, TypeOK
  <2> QED
    BY <1>1, <1>2, <1>3, <1>6, <2>1, Unfinished DEF Atomic
<1>7. CASE /\ req[c] # Balance /\ ~Sufficient(c)
           /\ pc' = [pc EXCEPT ![c] = "done"] /\ reply' = [reply EXCEPT ![c] = 402]
  <2>1. Silent(c)'
    BY <1>7 DEF Silent, TypeInv, TypeOK
  <2>2. /\ Granted' = Granted /\ Looking' = [Looking EXCEPT ![c] = Acc!Nothing]
        /\ Asking' = Asking
    BY <1>2, <1>3, <2>1, SeesNothingNext, Viewed DEF Nothing, Acc!Nothing
  <2>4. Asking[c] # Acc!Balance /\ Asking[c].kopecks = RowOf(c).sum
    BY <1>1, <1>7, WantedIs DEF Asking
  <2>5. Looking[c] # Acc!Nothing /\ Looking[c].current < Asking[c].kopecks
    <3>1. Looking[c] = [current |-> accrued[c] - had, withdrawn |-> had]
      BY <1>4 DEF Looking
    <3>2. accrued[c] - had < RowOf(c).sum
      BY <1>4, <1>7, TooLittle
    <3> QED
      BY <2>4, <3>1, <3>2, LooksAreSomething
  <2>6. Acc!Waits(c)
    BY <1>2, WaitsNow
  <2>7. Acc!Insufficient(c)
    BY <1>1, <1>7, <2>2, <2>4, <2>5, <2>6 DEF Acc!Insufficient, Acc!Answers, Acc!Forgets
  <2> QED
    BY <2>7 DEF Atomic
<1>8. CASE pc' = [pc EXCEPT ![c] = "done"] /\ reply' = [reply EXCEPT ![c] = 500]
  <2>1. Silent(c)'
    BY <1>8 DEF Silent, TypeInv, TypeOK
  <2> QED
    BY <1>1, <1>2, <1>3, <1>8, <2>1, SeesNothingNext, Unfinished DEF Atomic
<1> QED
  BY <1>1, <1>5, <1>6, <1>7, <1>8

LEMMA InsertAtomic ==
  ASSUME OneCallPerUser, IInv, TypeInv, Rest, NEW c \in Calls,
         CreateWithdrawal(c) \/ InsertRefused(c)
  PROVE  Atomic(c)
<1>1. /\ pc[c] = "insert" /\ UNCHANGED <<withdrawn, req>>
      /\ \/ pc' = [pc EXCEPT ![c] = "commit"] /\ UNCHANGED reply
         \/ pc' = [pc EXCEPT ![c] = "done"] /\ reply' = [reply EXCEPT ![c] = 500]
  BY AnsweredWith DEF CreateWithdrawal, InsertRefused, Goto
<1>2. Within(c) /\ Served(c)
  BY <1>1, Footprint DEF Serves, CallStep, Served
<1>3. Wanted(c)' = Wanted(c) /\ Seen(c) = Nothing
  BY <1>1, SeesNothing DEF Wanted, Asked, TypeInv, TypeOK
<1>4. req'[c] # Balance
  BY <1>1 DEF IInv, CallOK, Inserted
<1>5. Seen(c)' = Nothing
  <2>1. \/ pc'[c] = "commit" /\ req'[c] # Balance
        \/ Silent(c)'
    BY <1>1, <1>4 DEF Silent, TypeInv, TypeOK
  <2> QED
    BY <2>1, SeesNothingNext
<1>6. CASE UNCHANGED reply
  BY <1>1, <1>2, <1>3, <1>5, <1>6, Hidden DEF Atomic, Same
<1>7. CASE reply' = [reply EXCEPT ![c] = 500]
  BY <1>1, <1>2, <1>3, <1>5, <1>7, Unfinished DEF Atomic
<1> QED
  BY <1>1, <1>6, <1>7

(* The commit of a withdrawal, known or not, is where the account is drawn *)
(* on: there is enough in it, and the number is not taken.                 *)
LEMMA WithdrawNow ==
  ASSUME OneCallPerUser, IInv, TypeInv, MoneyInv, Rest, NEW c \in Calls, Within(c),
         pc[c] = "commit", req[c] # Balance, Commits(c),
         Wanted(c)' = Wanted(c), Seen(c)' = Nothing,
         UNCHANGED reply \/ \E code \in {200, 500} : reply' = [reply EXCEPT ![c] = code]
  PROVE  Acc!Withdraw(c)
<1> DEFINE u == Caller[c]
           sum == RowOf(c).sum
<1>1. Acc!Waits(c)
  BY WaitsNow DEF Served
<1>2. /\ Asking[c] # Acc!Balance /\ Asking[c].number = req[c].number
      /\ Asking[c].kopecks = sum
  BY WantedIs DEF Asking
<1>3. RowOf(c) \in WithdrawnRow /\ withdrawn' = withdrawn \cup {RowOf(c)}
  <2>1. pending[c] = {RowOf(c)}
    <3>1. Inserted(c)
      BY DEF IInv, CallOK
    <3> QED
      BY <3>1 DEF Inserted
  <2>2. pending[c] \subseteq WithdrawnRow
    BY DEF TypeInv, TypeOK
  <2> QED
    BY <2>1, <2>2 DEF Commits
<1>4. RowOf(c) = [number |-> Asking[c].number, user |-> u, sum |-> Asking[c].kopecks]
  BY <1>2 DEF RowOf
<1>5. sum \in 0 .. Granted[u] - Acc!Spent(u)
  <2>1. sum \in Nat /\ Had(u) \in Nat /\ Got(u) \in Nat
    BY <1>3, WithdrawnSum, AccruedSum, LedgerAssumption
    DEF WithdrawnRow, Decimal, WithdrawnIs, AccruedIs, Had, Got
  <2>2. Had(u) + sum <= Got(u)
    BY DEF MoneyInv, Covered, Paid
  <2>3. Granted[u] = Got(u) /\ Acc!Spent(u) = Had(u)
    BY LedgerAssumption, SpentIs DEF Granted, Got
  <2> HIDE DEF sum, u
  <2> QED
    BY <2>1, <2>2, <2>3
<1>6. \A r \in withdrawn : r.number # Asking[c].number
  BY <1>2 DEF Rest, Fresh
<1>7. Granted' = Granted /\ Asking' = Asking /\ Looking' = Looking
  <2>1. Seen(c) = Nothing
    BY SeesNothing
  <2> QED
    BY <2>1, Viewed
<1> HIDE DEF sum
<1> QED
  BY <1>1, <1>2, <1>3, <1>4, <1>5, <1>6, <1>7 DEF Acc!Withdraw, Acc!Answers

(* A balance that is read is shown as it was seen; one that cannot be      *)
(* printed fails.                                                          *)
LEMMA CommitAtomic ==
  ASSUME OneCallPerUser, IInv, TypeInv, MoneyInv, Rest, NEW c \in Calls, Commit(c)
  PROVE  Atomic(c)
<1>1. /\ pc[c] = "commit" /\ Commits(c) /\ pc' = [pc EXCEPT ![c] = "done"]
      /\ reply' = [reply EXCEPT ![c] = Status(Codes(c, "ok"))]
      /\ UNCHANGED <<table, req, accrued, spent>>
  BY DEF Commit, Returns, Answers, Goto
<1>2. Within(c) /\ Served(c)
  BY <1>1, Footprint DEF Serves, CallStep, Served
<1>3. Wanted(c)' = Wanted(c) /\ pc'[c] = "done"
  BY <1>1 DEF Wanted, Asked, TypeInv, TypeOK
<1>4. CASE req[c] # Balance
  <2>1. reply' = [reply EXCEPT ![c] = 200]
    <3>1. Status(Codes(c, "ok")) = 200
      BY <1>4, StatusOf
    <3> QED
      BY <1>1, <3>1
  <2>2. Silent(c)'
    BY <1>1, <1>3, <1>4 DEF Silent
  <2>3. Seen(c)' = Nothing
    BY <2>2, SeesNothingNext
  <2>4. Acc!Withdraw(c)
    BY <1>1, <1>2, <1>3, <1>4, <2>1, <2>3, WithdrawNow
  <2> QED
    BY <2>4 DEF Atomic
<1>5. CASE req[c] = Balance
  <2> DEFINE code == Status(Codes(c, "ok"))
  <2>1. UNCHANGED withdrawn
    BY <1>1, <1>5 DEF IInv, CallOK, Inserted, Commits
  <2>2. code \in {200, 500} /\ reply' = [reply EXCEPT ![c] = code]
    BY <1>1, StatusOf
  <2>3. reply'[c] = code
    BY <2>2 DEF TypeInv, TypeOK
  <2> HIDE DEF code
  <2>4. CASE code = 200
    <3>1. Seen(c) = [current |-> TotalKopecks(Current(c)), withdrawn |-> spent[c]]
      BY <1>1, <1>5 DEF Seen, Prints
    <3>2. Seen(c)' = Seen(c)
      BY <1>1, <1>3, <1>5, <2>3, <2>4, <3>1 DEF Seen, Prints, Answered, Current
    <3>3. Granted' = Granted /\ Asking' = Asking /\ Looking' = Looking
      BY <1>2, <1>3, <3>2, Viewed
    <3>4. Looking[c] # Acc!Nothing
      BY <3>1, LooksAreSomething DEF Looking
    <3>5. Asking[c] = Acc!Balance /\ Acc!Waits(c)
      BY <1>1, <1>2, <1>5, WantedIs, WaitsNow DEF Asking
    <3>6. Acc!ShowBalance(c)
      BY <2>1, <2>2, <2>4, <3>3, <3>4, <3>5 DEF Acc!ShowBalance, Acc!Answers
    <3> QED
      BY <3>6 DEF Atomic
  <2>5. CASE code = 500
    <3>1. Silent(c)'
      BY <1>3, <2>3, <2>5 DEF Silent
    <3> QED
      BY <1>2, <1>3, <2>1, <2>2, <2>5, <3>1, SeesNothingNext, Unfinished DEF Atomic
  <2> QED
    BY <2>2, <2>4, <2>5
<1> QED
  BY <1>4, <1>5

(* What a failure leaves of a call: its request, and what the client gets  *)
(* if it is not gone about once more.                                      *)
LEMMA RetriesKeepRequest ==
  ASSUME TypeInv, NEW c \in Calls, Served(c), UNCHANGED req, Retries(c) \/ GivesUp(c)
  PROVE  /\ Wanted(c)' = Wanted(c) /\ Seen(c)' = Nothing
         /\ UNCHANGED reply \/ reply' = [reply EXCEPT ![c] = 500]
<1>1. \/ pc' = [pc EXCEPT ![c] = "accrued"] /\ UNCHANGED reply
      \/ pc' = [pc EXCEPT ![c] = "done"] /\ reply' = [reply EXCEPT ![c] = 500]
  BY AnsweredWith DEF Retries, GivesUp, Goto
<1>2. Wanted(c)' = Wanted(c)
  BY <1>1 DEF Wanted, Asked, Served, TypeInv, TypeOK
<1>3. Seen(c)' = Nothing
  BY RetriesSilent, SeesNothingNext
<1> QED
  BY <1>1, <1>2, <1>3

LEMMA CommitUnknownAtomic ==
  ASSUME OneCallPerUser, IInv, TypeInv, MoneyInv, Rest, NEW c \in Calls, CommitUnknown(c)
  PROVE  Atomic(c)
<1>1. pc[c] = "commit" /\ Commits(c) /\ (Retries(c) \/ GivesUp(c)) /\ UNCHANGED req
  BY DEF CommitUnknown
<1>2. Within(c) /\ Served(c)
  BY <1>1, Footprint DEF Serves, CallStep, Served
<1>3. /\ Wanted(c)' = Wanted(c) /\ Seen(c)' = Nothing
      /\ UNCHANGED reply \/ reply' = [reply EXCEPT ![c] = 500]
  BY <1>1, <1>2, RetriesKeepRequest
<1>4. CASE req[c] # Balance
  <2>1. UNCHANGED reply \/ \E code \in {200, 500} : reply' = [reply EXCEPT ![c] = code]
    BY <1>3
  <2>2. Acc!Withdraw(c)
    BY <1>1, <1>2, <1>3, <1>4, <2>1, WithdrawNow
  <2> QED
    BY <2>2 DEF Atomic
<1>5. CASE req[c] = Balance
  <2>1. UNCHANGED withdrawn
    BY <1>1, <1>5 DEF IInv, CallOK, Inserted, Commits
  <2> QED
    BY <1>2, <1>3, <2>1, Unfinished DEF Atomic
<1> QED
  BY <1>4, <1>5

LEMMA FailsAtomic ==
  ASSUME OneCallPerUser, IInv, TypeInv, Rest, NEW c \in Calls,
         \E retryable \in BOOLEAN : StatementFails(c, retryable)
  PROVE  Atomic(c)
<1>1. /\ UNCHANGED <<withdrawn, req>> /\ (Retries(c) \/ GivesUp(c)) /\ Served(c)
  BY DEF StatementFails, InTransaction, Served
<1>2. Within(c)
  BY Footprint DEF Serves, CallStep
<1> QED
  BY <1>1, <1>2, RetriesKeepRequest, Unfinished DEF Atomic

LEMMA RespondAtomic ==
  ASSUME OneCallPerUser, IInv, TypeInv, Rest, NEW c \in Calls, Respond(c)
  PROVE  Atomic(c)
<1>1. /\ pc[c] = "done" /\ pc'[c] = "idle" /\ UNCHANGED withdrawn
      /\ reply' = [reply EXCEPT ![c] = 0]
  BY DEF Respond, Goto, NoReply, TypeInv, TypeOK
<1>2. reply[c] # 0
  BY <1>1 DEF Rest, Settled, NoReply
<1>3. Within(c)
  BY Footprint DEF Serves, CallStep
<1>4. Wanted(c)' = Nothing /\ Silent(c)'
  BY <1>1 DEF Wanted, Silent
<1>5. /\ Granted' = Granted /\ Asking' = [Asking EXCEPT ![c] = Acc!Nothing]
      /\ Looking' = [Looking EXCEPT ![c] = Acc!Nothing]
  BY <1>3, <1>4, SeesNothingNext, Viewed DEF Nothing, Acc!Nothing
<1>6. Acc!Leave(c)
  BY <1>1, <1>2, <1>5 DEF Acc!Leave, Acc!Forgets, Acc!Answers
<1> QED
  BY <1>6 DEF Atomic

-----------------------------------------------------------------------------
(* What the environment does: an order without money in it is nothing to   *)
(* the account, and a credit is one.                                       *)

LEMMA SlotsSame ==
  ASSUME UNCHANGED <<withdrawn, callVars>>
  PROVE  Asking' = Asking /\ Looking' = Looking /\ UNCHANGED <<withdrawn, reply>>
<1>1. ASSUME NEW c \in Calls PROVE Wanted(c)' = Wanted(c) /\ Seen(c)' = Seen(c)
  <2>1. \A u : GetWithdrawnAmount(u)' = GetWithdrawnAmount(u)
    BY DEF GetWithdrawnAmount
  <2>2. Wanted(c)' = Wanted(c)
    BY DEF callVars, Wanted, Asked
  <2> QED
    BY <2>1, <2>2 DEF callVars, Seen, Prints, Answered, Current
<1> QED
  BY <1>1 DEF Asking, Looking, callVars

LEMMA WithoutMoney ==
  ASSUME TypeInv, TypeInv', NEW o \in Orders, NEW row, table' = [table EXCEPT ![o] = row],
         table[o].amount \in {0, NULL}, row.amount \in {0, NULL},
         UNCHANGED <<withdrawn, callVars>>
  PROVE  Same
<1>1. ASSUME NEW u \in Users PROVE Got(u)' = Got(u)
  <2>1. Got(u) \in Nat
    BY AccruedSum DEF Got, AccruedIs
  <2>2. Got(u)' = Got(u) + IF Owner[o] = u /\ row.amount # NULL THEN row.amount ELSE 0
    BY CreditIs
  <2> QED
    BY <2>1, <2>2
<1>2. Granted' = Granted
  BY <1>1 DEF Granted, Got
<1> QED
  BY <1>2, SlotsSame DEF Same, Acc!accountVars

LEMMA WithMoney ==
  ASSUME TypeInv, TypeInv', NEW o \in Orders, NEW row, table' = [table EXCEPT ![o] = row],
         table[o].amount \in {0, NULL}, row.amount \in Credits,
         UNCHANGED <<withdrawn, callVars>>
  PROVE  \E u \in Users, k \in Credits : Acc!Credit(u, k)
<1>1. row.amount # NULL /\ Owner[o] \in Users
  BY LedgerAssumption, NullAssumption
<1>2. ASSUME NEW u \in Users
      PROVE  Got(u) \in Nat /\ Got(u)' = IF u = Owner[o] THEN Got(u) + row.amount ELSE Got(u)
  <2>1. Got(u) \in Nat
    BY AccruedSum DEF Got, AccruedIs
  <2>2. Got(u)' = Got(u) + IF Owner[o] = u /\ row.amount # NULL THEN row.amount ELSE 0
    BY CreditIs
  <2> QED
    BY <1>1, <2>1, <2>2
<1>3. Granted' = [Granted EXCEPT ![Owner[o]] = @ + row.amount]
  BY <1>1, <1>2 DEF Granted, Got
<1>4. Acc!Credit(Owner[o], row.amount)
  BY <1>3, SlotsSame DEF Acc!Credit
<1> QED
  BY <1>1, <1>4

LEMMA TableAtomic ==
  ASSUME TypeInv, TypeInv', CreditsStand,
         \/ \E o \in Orders : Upload(o)
         \/ \E o \in Orders, s \in {"PROCESSING", "PROCESSED"}, k \in Credits \cup {0} : Update(o, s, k)
  PROVE  Same \/ \E u \in Users, k \in Credits : Acc!Credit(u, k)
<1>1. ASSUME NEW o \in Orders, Upload(o) PROVE Same
  <2>1. /\ table' = [table EXCEPT ![o] = CreateAccrual] /\ table[o].amount \in {0, NULL}
        /\ UNCHANGED <<withdrawn, callVars>> /\ CreateAccrual.amount = 0
    BY <1>1 DEF Upload, NoRow, CreateAccrual
  <2> QED
    BY <2>1, WithoutMoney
<1>2. ASSUME NEW o \in Orders, NEW s \in {"PROCESSING", "PROCESSED"}, NEW k \in Credits \cup {0},
             Update(o, s, k)
      PROVE  Same \/ \E u \in Users, j \in Credits : Acc!Credit(u, j)
  <2> DEFINE row == UpdateAccrualStatus(s, k)
  <2>1. /\ table' = [table EXCEPT ![o] = row] /\ table[o].status # "PROCESSED"
        /\ UNCHANGED <<withdrawn, callVars>>
    BY <1>2 DEF Update
  <2>2. table[o].amount \in {0, NULL}
    BY <2>1 DEF CreditsStand
  <2>3. row.amount \in Credits \cup {NULL}
    BY DEF UpdateAccrualStatus
  <2> HIDE DEF row
  <2>4. row.amount \in Credits => \E u \in Users, j \in Credits : Acc!Credit(u, j)
    BY <2>1, <2>2, WithMoney
  <2>5. row.amount = NULL => Same
    BY <2>1, <2>2, WithoutMoney
  <2> QED
    BY <2>3, <2>4, <2>5
<1> QED
  BY <1>1, <1>2

-----------------------------------------------------------------------------

LEMMA InitAccount == Init => Acc!Init
<1> SUFFICES ASSUME Init PROVE Acc!Init
  OBVIOUS
<1>1. ASSUME NEW u \in Users PROVE Got(u) = 0
  <2>1. AmountsOf(u) = {}
    BY DEF Init, AmountsOf, RowsOf
  <2>2. TypeInv
    BY InitTypes
  <2> QED
    BY <2>1, <2>2, AccruedSum, SumOfNone DEF Got, AccruedIs
<1>2. Granted = [u \in Users |-> 0]
  BY <1>1 DEF Granted, Got
<1>3. Asking = [c \in Calls |-> Acc!Nothing]
  BY DEF Init, Asking, Wanted, Nothing, Acc!Nothing
<1>4. Looking = [c \in Calls |-> Acc!Nothing]
  <2>1. \A c \in Calls : Seen(c) = Nothing
    BY SeesNothing DEF Init, Silent
  <2> QED
    BY <2>1 DEF Looking, Nothing, Acc!Nothing
<1> QED
  BY <1>2, <1>3, <1>4 DEF Init, NoReply, Acc!Init

LEMMA NextAccount ==
  ASSUME OneCallPerUser, IInv, TypeInv, TypeInv', MoneyInv, Rest, [Next]_vars
  PROVE  [Acc!Next]_(Acc!accountVars)
<1> SUFFICES Acc!Next \/ Same
  BY DEF Same
<1>1. ASSUME NEW c \in Calls, Atomic(c) PROVE Acc!Next \/ Same
  BY <1>1 DEF Atomic, Acc!Next
<1>2. ASSUME NEW c \in Calls, (\E q \in Requests : Call(c, q)) \/ CallFails(c)
      PROVE  Acc!Next \/ Same
  BY <1>1, <1>2, AskAtomic
<1>3. ASSUME NEW c \in Calls, CallStep(c) PROVE Acc!Next \/ Same
  <2>1. Atomic(c)
    BY <1>3, ReadAtomic, DecideAtomic, InsertAtomic, CommitAtomic, CommitUnknownAtomic,
       FailsAtomic, RespondAtomic
    DEF CallStep
  <2> QED
    BY <1>1, <2>1
<1>4. CASE \/ \E o \in Orders : Upload(o)
           \/ \E o \in Orders, s \in {"PROCESSING", "PROCESSED"}, k \in Credits \cup {0} :
                Update(o, s, k)
  <2>1. Same \/ \E u \in Users, k \in Credits : Acc!Credit(u, k)
    BY <1>4, TableAtomic DEF MoneyInv
  <2> QED
    BY <2>1 DEF Acc!Next
<1>5. CASE UNCHANGED vars
  <2>1. Granted' = Granted
    BY <1>5 DEF vars, Granted, Total, AmountsOf, RowsOf
  <2> QED
    BY <1>5, <2>1, SlotsSame DEF vars, Same, Acc!accountVars
<1> QED
  BY <1>2, <1>3, <1>4, <1>5 DEF Next

(* Of users with one request in flight, every request takes effect in one  *)
(* step, once, on the account as it is at that step, whatever the          *)
(* statements, the failures and the repetitions on the way.                *)
THEOREM Implements ==
  ASSUME OneCallPerUser
  PROVE  Spec => ImplementsAccount
<1>1. Init => Acc!Init
  BY InitAccount
<1>2. IInv /\ TypeInv /\ TypeInv' /\ MoneyInv /\ Rest /\ [Next]_vars
        => [Acc!Next]_(Acc!accountVars)
  BY NextAccount
<1>3. IInv /\ TypeInv /\ Rest /\ [Next]_vars => Rest'
  BY NextRest
<1>4. Spec => [](IInv /\ TypeInv /\ Rest)
  BY <1>3, InitIInv, NextIInv, InitTypes, NextTypes, InitRest, PTL DEF Spec
<1> QED
  BY <1>1, <1>2, <1>4, MoneyHolds, PTL DEF Spec, ImplementsAccount, Acc!Spec

=============================================================================
