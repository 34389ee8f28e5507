---------------------------- MODULE LedgerProofs ----------------------------
(***************************************************************************)
(* What TLAPS proves about the withdrawals, for any numbers of users,      *)
(* concurrent calls, retries and database failures.                        *)
(***************************************************************************)
EXTENDS Ledger, AmountProofs

Counters == {"idle", "accrued", "withdrawn", "insert", "commit", "done"}

Replies == {NoReply, 200, 400, 402, 500}

Locals ==
  /\ pc \in [Calls -> Counters]
  /\ req \in [Calls -> Requests]
  /\ reply \in [Calls -> Replies]
  /\ made \in [Calls -> {"no", "yes", "unknown"}]
  /\ pending = [c \in Calls |-> pending[c]]

AllRows == withdrawn \cup UNION {pending[c] : c \in Calls}

(* A transaction that is about to commit has inserted the row that was     *)
(* asked for; any other has inserted nothing.                              *)
Inserted(c) ==
  /\ pc[c] = "insert" => req[c] # Balance
  /\ pending[c] = IF pc[c] = "commit" /\ req[c] # Balance THEN {RowOf(c)} ELSE {}

(* What is known of a withdrawal that was answered.                        *)
Truthful(c) ==
  /\ Answered(c, 200) /\ req[c] # Balance => made[c] = "yes" /\ RowOf(c) \in withdrawn
  /\ made[c] = "yes" => Answered(c, 200)

CallOK(c) == Inserted(c) /\ Truthful(c)

IInv ==
  /\ Locals /\ PaidOnce
  /\ \A c \in Calls : CallOK(c)

LEMMA StatusOf ==
  ASSUME NEW c \in Calls
  PROVE  /\ Status(Codes(c, "ok")) \in {200, 500}
         /\ Status(Codes(c, "error")) = 500
         /\ Status(Codes(c, "insufficient")) = 402
         /\ req[c] # Balance => Status(Codes(c, "ok")) = 200
<1>1. Status(<<500>>) = 500 /\ Status(<<402>>) = 402 /\ Status(<<200, 500>>) = 200
  BY DEF Status
<1>2. Codes(c, "error") = <<500>>
  BY DEF Codes
<1>3. Codes(c, "insufficient") = <<402>>
  BY DEF Codes
<1>4. req[c] # Balance => Codes(c, "ok") = <<200, 500>>
  BY DEF Codes
<1>5. Codes(c, "ok") \in {<<200, 500>>, <<200>>, <<500>>}
  <2>1. req[c] = Balance => Codes(c, "ok") = IF IsJSONNumber(Current(c)) THEN <<200>> ELSE <<500>>
    BY DEF Codes
  <2> QED
    BY <1>4, <2>1
<1>6. Status(<<200>>) = 200
  BY DEF Status
<1> QED
  BY <1>1, <1>2, <1>3, <1>4, <1>5, <1>6

LEMMA AnsweredWith ==
  ASSUME NEW c \in Calls, NEW result \in {"error", "insufficient"}, Returns(c, result)
  PROVE  /\ pc' = [pc EXCEPT ![c] = "done"]
         /\ reply' = [reply EXCEPT ![c] = IF result = "error" THEN 500 ELSE 402]
<1>1. Status(Codes(c, result)) = IF result = "error" THEN 500 ELSE 402
  BY StatusOf
<1>2. pc' = [pc EXCEPT ![c] = "done"] /\ reply' = [reply EXCEPT ![c] = Status(Codes(c, result))]
  BY DEF Returns, Answers, Goto
<1> QED
  BY <1>1, <1>2

(* Rows may only disappear: nothing can be paid for twice by that.         *)
LEMMA FewerRows ==
  ASSUME PaidOnce, AllRows' \subseteq AllRows
  PROVE  PaidOnce'
  BY DEF PaidOnce, AllRows

(* A step of one call leaves the others as they are.                       *)
OthersStay(c) ==
  \A b \in Calls \ {c} :
    /\ pc'[b] = pc[b] /\ req'[b] = req[b] /\ reply'[b] = reply[b]
    /\ made'[b] = made[b] /\ pending'[b] = pending[b]

LEMMA OthersOK ==
  ASSUME IInv, NEW c \in Calls, OthersStay(c), withdrawn \subseteq withdrawn'
  PROVE  \A b \in Calls \ {c} : CallOK(b)'
<1> SUFFICES ASSUME NEW b \in Calls \ {c} PROVE CallOK(b)'
  OBVIOUS
<1>1. RowOf(b)' = RowOf(b)
  BY DEF OthersStay, RowOf, Asked
<1>2. CallOK(b)
  BY DEF IInv
<1> QED
  BY <1>1, <1>2 DEF OthersStay, CallOK, Inserted, Truthful, Answered

(* A call whose transaction has ended, and which says that it was made     *)
(* only if it was.                                                         *)
LEMMA EndKeeps ==
  ASSUME IInv, NEW c \in Calls, OthersStay(c), Locals',
         withdrawn \subseteq withdrawn', withdrawn' \subseteq withdrawn \cup pending[c],
         pending'[c] = {}, Truthful(c)', pc'[c] \notin {"insert", "commit"}
  PROVE  IInv'
<1>1. \A b \in Calls : CallOK(b)'
  BY OthersOK DEF CallOK, Inserted
<1>2. AllRows' \subseteq AllRows
  BY DEF AllRows, OthersStay
<1> QED
  BY <1>1, <1>2, FewerRows DEF IInv

LEMMA InsertKeeps ==
  ASSUME IInv, NEW c \in Calls, CreateWithdrawal(c)
  PROVE  IInv'
<1>1. /\ pc[c] = "insert" /\ pc' = [pc EXCEPT ![c] = "commit"]
      /\ pending' = [pending EXCEPT ![c] = {RowOf(c)}]
      /\ UNCHANGED <<withdrawn, req, reply, made>>
      /\ \A r \in AllRows : r.number # req[c].number
  BY DEF CreateWithdrawal, Goto, AllRows
<1>2. Locals' /\ OthersStay(c) /\ pc'[c] = "commit" /\ pending'[c] = {RowOf(c)}
  BY <1>1 DEF IInv, Locals, OthersStay, Counters
<1>3. RowOf(c)' = RowOf(c)
  BY <1>1 DEF RowOf, Asked
<1>4. Truthful(c)'
  BY <1>1, <1>2 DEF IInv, CallOK, Truthful, Answered
<1>5. \A b \in Calls : CallOK(b)'
  <2>1. Inserted(c)'
    BY <1>1, <1>2, <1>3 DEF IInv, CallOK, Inserted
  <2> QED
    BY <1>1, <1>2, <1>4, <2>1, OthersOK DEF CallOK
<1>6. PaidOnce'
  <2>1. \A r \in AllRows : r.number # RowOf(c).number
    BY <1>1 DEF RowOf
  <2>2. AllRows' \subseteq AllRows \cup {RowOf(c)}
    BY <1>1, <1>2 DEF AllRows, OthersStay
  <2> QED
    BY <2>1, <2>2 DEF IInv, PaidOnce, AllRows
<1> QED
  BY <1>2, <1>5, <1>6 DEF IInv

(* Only the request of c may be another one.                               *)
Asks(c) ==
  /\ req' \in [Calls -> Requests]
  /\ \A b \in Calls \ {c} : req'[b] = req[b]

LEMMA SameRequest == ASSUME IInv, NEW c \in Calls, UNCHANGED req PROVE Asks(c)
  BY DEF IInv, Locals, Asks

(* A call that fails, is refused, or gives up.                             *)
Replied(c, code) ==
  /\ pc[c] # "done" /\ pc' = [pc EXCEPT ![c] = "done"]
  /\ code \in {400, 402, 500} /\ reply' = [reply EXCEPT ![c] = code]
  /\ UNCHANGED <<withdrawn, made>> /\ Asks(c)
  /\ pending' = [pending EXCEPT ![c] = {}]

LEMMA RepliedKeeps ==
  ASSUME IInv, NEW c \in Calls, NEW code, Replied(c, code)
  PROVE  IInv'
<1> USE DEF Replied
<1>1. made[c] # "yes"
  BY DEF IInv, CallOK, Truthful, Answered
<1>2. req' \in [Calls -> Requests] /\ \A b \in Calls \ {c} : req'[b] = req[b]
  BY DEF Asks
<1>3. OthersStay(c) /\ pc'[c] = "done" /\ pending'[c] = {} /\ reply'[c] = code
  BY <1>2 DEF IInv, Locals, OthersStay
<1>4. Locals'
  <2>1. pc' \in [Calls -> Counters]
    BY DEF IInv, Locals, Counters
  <2>2. reply' \in [Calls -> Replies]
    BY DEF IInv, Locals, Replies
  <2>3. pending = [b \in Calls |-> pending[b]] /\ pending' = [pending EXCEPT ![c] = {}]
    BY DEF IInv, Locals
  <2>4. made' \in [Calls -> {"no", "yes", "unknown"}]
    BY DEF IInv, Locals
  <2> HIDE DEF Replied
  <2>5. pending' = [b \in Calls |-> pending'[b]]
    BY <2>3
  <2> QED
    BY <1>2, <2>1, <2>2, <2>4, <2>5 DEF Locals
<1>5. Truthful(c)'
  BY <1>1, <1>3 DEF Truthful, Answered
<1> QED
  BY <1>3, <1>4, <1>5, EndKeeps

(* A call that goes on without having inserted anything.                   *)
Moved(c, where) ==
  /\ pc[c] # "done" /\ pc' = [pc EXCEPT ![c] = where]
  /\ where \in Counters \ {"done"}
  /\ where = "commit" => req'[c] = Balance
  /\ where = "insert" => req'[c] # Balance
  /\ UNCHANGED <<withdrawn, reply, made>> /\ Asks(c)
  /\ pending' = [pending EXCEPT ![c] = {}]

LEMMA MovedKeeps ==
  ASSUME IInv, NEW c \in Calls, NEW where, Moved(c, where)
  PROVE  IInv'
<1> USE DEF Moved
<1>1. made[c] # "yes"
  BY DEF IInv, CallOK, Truthful, Answered
<1>2. req' \in [Calls -> Requests] /\ \A b \in Calls \ {c} : req'[b] = req[b]
  BY DEF Asks
<1>3. OthersStay(c) /\ pc'[c] = where /\ pending'[c] = {}
  BY <1>2 DEF IInv, Locals, OthersStay
<1>4. Locals'
  BY <1>2 DEF IInv, Locals
<1>5. Truthful(c)' /\ Inserted(c)'
  BY <1>1, <1>3 DEF Truthful, Answered, Inserted
<1>6. \A b \in Calls : CallOK(b)'
  BY <1>3, <1>5, OthersOK DEF CallOK
<1>7. AllRows' \subseteq AllRows
  BY <1>3 DEF AllRows, OthersStay
<1> QED
  BY <1>4, <1>6, <1>7, FewerRows DEF IInv

(* The same, of the results that the handlers know.                        *)
LEMMA ReturnedKeeps ==
  ASSUME IInv, NEW c \in Calls, pc[c] # "done",
         NEW result \in {"error", "insufficient"}, Returns(c, result),
         UNCHANGED <<withdrawn, made, req>>, pending' = [pending EXCEPT ![c] = {}]
  PROVE  IInv'
<1>1. pc' = [pc EXCEPT ![c] = "done"] /\ reply' = [reply EXCEPT ![c] = Status(Codes(c, result))]
  BY DEF Returns, Answers, Goto
<1>2. UNCHANGED <<withdrawn, made>> /\ Asks(c)
  BY SameRequest
<1> DEFINE code == Status(Codes(c, result))
<1>3. code \in {400, 402, 500}
  BY StatusOf
<1> HIDE DEF code
<1>4. reply' = [reply EXCEPT ![c] = code]
  BY <1>1 DEF code
<1>5. Replied(c, code)
  BY <1>1, <1>2, <1>3, <1>4 DEF Replied
<1> QED
  BY <1>5, RepliedKeeps

(* WithRetry tries again or gives up.                                      *)
LEMMA RetriesKeeps ==
  ASSUME IInv, NEW c \in Calls, pc[c] # "done", UNCHANGED <<withdrawn, req, made>>,
         Ends(c), Retries(c) \/ GivesUp(c)
  PROVE  IInv'
<1>1. CASE Goto(c, "accrued") /\ UNCHANGED reply
  <2>1. Moved(c, "accrued")
    BY <1>1, SameRequest DEF Moved, Goto, Ends, Counters
  <2> QED
    BY <2>1, MovedKeeps
<1>2. CASE Returns(c, "error")
  BY <1>2, ReturnedKeeps DEF Ends
<1> QED
  BY <1>1, <1>2 DEF Retries, GivesUp

(* The two ways a commit can go, seen from the client.                     *)
LEMMA CommitKeeps ==
  ASSUME IInv, NEW c \in Calls, Commit(c)
  PROVE  IInv'
<1>1. /\ pc[c] = "commit" /\ pc' = [pc EXCEPT ![c] = "done"]
      /\ withdrawn' = withdrawn \cup pending[c] /\ pending' = [pending EXCEPT ![c] = {}]
      /\ reply' = [reply EXCEPT ![c] = Status(Codes(c, "ok"))]
      /\ made' = IF req[c] = Balance THEN made ELSE [made EXCEPT ![c] = "yes"]
      /\ UNCHANGED req
  BY DEF Commit, Commits, Ends, Returns, Answers, Goto
<1>2. made[c] # "yes"
  BY <1>1 DEF IInv, CallOK, Truthful, Answered
<1>3. OthersStay(c) /\ pc'[c] = "done" /\ pending'[c] = {} /\ reply'[c] = Status(Codes(c, "ok"))
  BY <1>1 DEF IInv, Locals, OthersStay
<1>4. Locals'
  <2>1. Status(Codes(c, "ok")) \in Replies
    BY StatusOf DEF Replies
  <2>2. reply' \in [Calls -> Replies]
    BY <1>1, <2>1 DEF IInv, Locals
  <2>3. pending' = [b \in Calls |-> pending'[b]] /\ made' \in [Calls -> {"no", "yes", "unknown"}]
    BY <1>1 DEF IInv, Locals
  <2> QED
    BY <1>1, <2>2, <2>3 DEF IInv, Locals, Counters
<1>5. Truthful(c)'
  <2>1. CASE req[c] = Balance
    BY <1>1, <1>2, <2>1 DEF Truthful, Answered
  <2>2. CASE req[c] # Balance
    <3>1. reply'[c] = 200 /\ made'[c] = "yes"
      BY <1>1, <1>3, <2>2, StatusOf DEF IInv, Locals
    <3>2. RowOf(c)' = RowOf(c) /\ RowOf(c) \in withdrawn'
      BY <1>1, <2>2 DEF RowOf, Asked, IInv, CallOK, Inserted
    <3> QED
      BY <1>3, <3>1, <3>2 DEF Truthful, Answered
  <2> QED
    BY <2>1, <2>2
<1> QED
  BY <1>1, <1>3, <1>4, <1>5, EndKeeps

LEMMA CommitUnknownKeeps ==
  ASSUME IInv, NEW c \in Calls, CommitUnknown(c)
  PROVE  IInv'
<1>1. /\ pc[c] = "commit" /\ withdrawn' = withdrawn \cup pending[c]
      /\ pending' = [pending EXCEPT ![c] = {}]
      /\ made' = IF req[c] = Balance THEN made ELSE [made EXCEPT ![c] = "unknown"]
      /\ UNCHANGED req
  BY DEF CommitUnknown, Commits, Ends
<1>2. \/ pc' = [pc EXCEPT ![c] = "accrued"] /\ UNCHANGED reply
      \/ pc' = [pc EXCEPT ![c] = "done"] /\ reply' = [reply EXCEPT ![c] = 500]
  BY StatusOf DEF CommitUnknown, Retries, GivesUp, Returns, Answers, Goto
<1>3. OthersStay(c) /\ pc'[c] \in {"accrued", "done"} /\ pending'[c] = {}
  BY <1>1, <1>2 DEF IInv, Locals, OthersStay
<1>4. Locals'
  BY <1>1, <1>2 DEF IInv, Locals, Counters, Replies
<1>5. made[c] # "yes"
  BY <1>1 DEF IInv, CallOK, Truthful, Answered
<1>6. made'[c] # "yes" /\ ~Answered(c, 200)'
  BY <1>1, <1>2, <1>5 DEF IInv, Locals, Answered
<1>7. Truthful(c)'
  BY <1>6 DEF Truthful
<1> QED
  BY <1>1, <1>3, <1>4, <1>7, EndKeeps

LEMMA RespondKeeps ==
  ASSUME IInv, NEW c \in Calls, Respond(c)
  PROVE  IInv'
<1>1. /\ pc' = [pc EXCEPT ![c] = "idle"] /\ req' = [req EXCEPT ![c] = Balance]
      /\ reply' = [reply EXCEPT ![c] = NoReply] /\ made' = [made EXCEPT ![c] = "no"]
      /\ UNCHANGED <<withdrawn, pending>> /\ pc[c] = "done"
  BY DEF Respond, Goto
<1>2. OthersStay(c) /\ pc'[c] = "idle" /\ pending'[c] = {} /\ made'[c] = "no"
  BY <1>1 DEF IInv, Locals, OthersStay, CallOK, Inserted
<1>3. Locals'
  BY <1>1 DEF IInv, Locals, Counters, Requests, Replies
<1>4. Truthful(c)'
  BY <1>2 DEF Truthful, Answered
<1> QED
  BY <1>1, <1>2, <1>3, <1>4, EndKeeps

LEMMA NextIInv == IInv /\ [Next]_vars => IInv'
<1> SUFFICES ASSUME IInv, [Next]_vars PROVE IInv'
  OBVIOUS
<1>0. ASSUME UNCHANGED <<withdrawn, callVars>> PROVE IInv'
  BY <1>0 DEF callVars, IInv, Locals, PaidOnce, CallOK, Inserted, Truthful, Answered, RowOf, Asked
<1>1. ASSUME NEW c \in Calls, pc[c] \notin {"commit", "done"}
      PROVE  pending = [pending EXCEPT ![c] = {}]
  BY <1>1 DEF IInv, Locals, CallOK, Inserted
<1>2. ASSUME NEW c \in Calls, CallStep(c) PROVE IInv'
  <2>1. CASE ReadAccrued(c)
    <3>1. /\ pc[c] = "accrued" /\ UNCHANGED <<withdrawn, req, made, pending>>
          /\ \/ Returns(c, "error")
             \/ Goto(c, "withdrawn") /\ UNCHANGED reply
      BY <2>1 DEF ReadAccrued
    <3>2. CASE Returns(c, "error")
      BY <1>1, <3>1, <3>2, ReturnedKeeps
    <3>3. CASE Goto(c, "withdrawn") /\ UNCHANGED reply
      <4>1. Moved(c, "withdrawn")
        BY <1>1, <3>1, <3>3, SameRequest DEF Moved, Goto, Counters
      <4> QED
        BY <4>1, MovedKeeps
    <3> QED
      BY <3>1, <3>2, <3>3
  <2>2. CASE ReadWithdrawn(c)
    <3>1. /\ pc[c] = "withdrawn" /\ UNCHANGED <<withdrawn, req, made, pending>>
          /\ \/ req[c] = Balance /\ Goto(c, "commit") /\ UNCHANGED reply
             \/ req[c] # Balance /\ Goto(c, "insert") /\ UNCHANGED reply
             \/ Returns(c, "insufficient") \/ Returns(c, "error")
      BY <2>2 DEF ReadWithdrawn
    <3>2. CASE Returns(c, "insufficient") \/ Returns(c, "error")
      BY <1>1, <3>1, <3>2, ReturnedKeeps
    <3>3. CASE req[c] = Balance /\ Goto(c, "commit") /\ UNCHANGED reply
      <4>1. Moved(c, "commit")
        BY <1>1, <3>1, <3>3, SameRequest DEF Moved, Goto, Counters
      <4> QED
        BY <4>1, MovedKeeps
    <3>4. CASE req[c] # Balance /\ Goto(c, "insert") /\ UNCHANGED reply
      <4>1. Moved(c, "insert")
        BY <1>1, <3>1, <3>4, SameRequest DEF Moved, Goto, Counters
      <4> QED
        BY <4>1, MovedKeeps
    <3> QED
      BY <3>1, <3>2, <3>3, <3>4
  <2>3. CASE CreateWithdrawal(c)
    BY <2>3, InsertKeeps
  <2>4. CASE InsertRefused(c)
    <3>1. /\ pc[c] = "insert" /\ Returns(c, "error")
          /\ UNCHANGED <<withdrawn, req, made, pending>>
      BY <2>4 DEF InsertRefused
    <3> QED
      BY <1>1, <3>1, ReturnedKeeps
  <2>5. CASE Commit(c)
    BY <2>5, CommitKeeps
  <2>6. CASE CommitUnknown(c)
    BY <2>6, CommitUnknownKeeps
  <2>7. CASE Respond(c)
    BY <2>7, RespondKeeps
  <2>8. ASSUME NEW retryable \in BOOLEAN, StatementFails(c, retryable) PROVE IInv'
    BY <2>8, RetriesKeeps DEF StatementFails, InTransaction
  <2> QED
    BY <1>2, <2>1, <2>2, <2>3, <2>4, <2>5, <2>6, <2>7, <2>8 DEF CallStep
<1>3. ASSUME NEW c \in Calls, NEW q \in Requests, Call(c, q) PROVE IInv'
  <2>1. /\ pc[c] = "idle" /\ req' = [req EXCEPT ![c] = q]
        /\ UNCHANGED <<withdrawn, made, pending>>
        /\ \/ Goto(c, "accrued") /\ UNCHANGED reply
           \/ Answers(c, 400)
    BY <1>3 DEF Call
  <2>2. Asks(c) /\ pending' = [pending EXCEPT ![c] = {}]
    BY <1>1, <2>1 DEF IInv, Locals, Asks
  <2>3. CASE Goto(c, "accrued") /\ UNCHANGED reply
    <3>1. Moved(c, "accrued")
      BY <2>1, <2>2, <2>3 DEF Moved, Goto, Counters
    <3> QED
      BY <3>1, MovedKeeps
  <2>4. CASE Answers(c, 400)
    <3>1. pc' = [pc EXCEPT ![c] = "done"] /\ reply' = [reply EXCEPT ![c] = 400]
      BY <2>4 DEF Answers, Goto
    <3>2. pc[c] # "done" /\ UNCHANGED <<withdrawn, made>>
      BY <2>1
    <3>3. Replied(c, 400)
      BY <2>2, <3>1, <3>2 DEF Replied
    <3> QED
      BY <3>3, RepliedKeeps
  <2> QED
    BY <2>1, <2>3, <2>4
<1>4. ASSUME NEW c \in Calls, CallFails(c) PROVE IInv'
  <2>1. /\ pc[c] = "idle" /\ pc' = [pc EXCEPT ![c] = "done"] /\ reply' = [reply EXCEPT ![c] = 500]
        /\ UNCHANGED <<withdrawn, made, req, pending>>
    BY <1>4 DEF CallFails, Answers, Goto
  <2>2. Replied(c, 500)
    BY <1>1, <2>1, SameRequest DEF Replied
  <2> QED
    BY <2>2, RepliedKeeps
<1>5. ASSUME NEW o \in Orders, Upload(o) PROVE IInv'
  BY <1>0, <1>5 DEF Upload
<1>6. ASSUME NEW o \in Orders, NEW s \in {"PROCESSING", "PROCESSED"}, NEW k \in Credits \cup {0},
             Update(o, s, k)
      PROVE  IInv'
  BY <1>0, <1>6 DEF Update
<1>7. CASE UNCHANGED vars
  BY <1>0, <1>7 DEF vars
<1> QED
  BY <1>2, <1>3, <1>4, <1>5, <1>6, <1>7 DEF Next

LEMMA InitIInv == Init => IInv
  BY DEF Init, IInv, Locals, Counters, Requests, Replies, PaidOnce, CallOK, Inserted, Truthful, Answered

(* Whoever asks, at the same time or again after an unknown outcome, an    *)
(* order number is paid for with bonuses at most once.                     *)
THEOREM NeverPaidTwice == Spec => []PaidOnce
<1>1. IInv => PaidOnce
  BY DEF IInv
<1> QED
  BY <1>1, InitIInv, NextIInv, PTL DEF Spec

(* Nobody is told that a withdrawal was made when it was not, nor, unless  *)
(* the outcome was unknown, that it failed when it was made.               *)
THEOREM AnswersTrue == Spec => []AnsweredAsDone
<1>1. IInv => AnsweredAsDone
  BY DEF IInv, CallOK, Truthful, Answered, AnsweredAsDone
<1> QED
  BY <1>1, InitIInv, NextIInv, PTL DEF Spec

(* What was answered with 200 is in the table with the sum asked for,      *)
(* whatever the width of the integers, for every sum of at most two digits *)
(* behind the point that fits into it.                                     *)
THEOREM WithdrawsExactly == Spec => []WithdrawnAsAsked
<1>1. IInv => WithdrawnAsAsked
  <2> SUFFICES ASSUME IInv, NEW c \in Calls, Answered(c, 200), req[c] # Balance
               PROVE  \E r \in withdrawn :
                        /\ r.number = req[c].number /\ r.user = Caller[c]
                        /\ Fits(req[c].sum) => r.sum = Meaning(req[c].sum)
    BY DEF WithdrawnAsAsked
  <2>1. RowOf(c) \in withdrawn
    BY DEF IInv, CallOK, Truthful
  <2>2. req[c].sum \in Literals
    BY DEF IInv, Locals, Requests, Withdrawal
  <2>3. Fits(req[c].sum) => RowOf(c).sum = Meaning(req[c].sum)
    BY <2>2, LedgerAssumption, ReadExactly DEF RowOf, Asked, ToPGNumeric
  <2>4. RowOf(c).number = req[c].number /\ RowOf(c).user = Caller[c]
    BY DEF RowOf
  <2> QED
    BY <2>1, <2>3, <2>4
<1> QED
  BY <1>1, InitIInv, NextIInv, PTL DEF Spec

-----------------------------------------------------------------------------
(* Types.  The sums are over what is in the tables, of which there is a    *)
(* finite part only.                                                       *)

Uploaded == {o \in Orders : table[o] # NoRow}

Finite ==
  /\ IsFiniteSet(Uploaded) /\ IsFiniteSet(withdrawn)
  /\ \A c \in Calls : IsFiniteSet(pending[c])

TypeInv == TypeOK /\ Finite

RowsBy(u) == {row \in withdrawn : row.user = u}

AmountOf(orders) == [o \in orders |-> table[o].amount]

SumOf(rows) == [r \in rows |-> r.sum]

(* The sum over the uploaded orders is that of a finite set of amounts.    *)
AccruedIs(u) ==
  LET A == AmountsOf(u) IN
    /\ IsFiniteSet(A) /\ \A o \in A : AmountOf(A)[o] \in Nat
    /\ Total(A) = SumFunctionOnSet(AmountOf(A), A) /\ Total(A) \in Nat

LEMMA AccruedSum == TypeInv => \A u : AccruedIs(u)
<1> SUFFICES ASSUME TypeInv, NEW u PROVE AccruedIs(u)
  OBVIOUS
<1> DEFINE A == AmountsOf(u)
<1>1. A \subseteq Uploaded
  BY DEF AmountsOf, RowsOf, Uploaded
<1>2. IsFiniteSet(A)
  BY <1>1, FS_Subset DEF TypeInv, Finite
<1>3. \A o \in A : AmountOf(A)[o] \in Nat
  BY DEF TypeInv, TypeOK, Row, AmountOf, AmountsOf, RowsOf
<1>4. Total(A) = SumFunctionOnSet(AmountOf(A), A)
  BY DEF Total, SumFunction, AmountOf
<1> HIDE DEF A
<1>5. Total(A) \in Nat
  BY <1>2, <1>3, <1>4, SumType
<1> QED
  BY <1>2, <1>3, <1>4, <1>5 DEF A, AccruedIs

LEMMA AccruedSumNext == TypeInv' => (\A u : AccruedIs(u))'
  BY AccruedSum, PTL

(* And so is that over the withdrawals of a user.                          *)
WithdrawnIs(u) ==
  LET R == RowsBy(u) IN
    /\ IsFiniteSet(R) /\ \A r \in R : SumOf(R)[r] \in Nat
    /\ GetWithdrawnAmount(u) = SumFunctionOnSet(SumOf(R), R)
    /\ GetWithdrawnAmount(u) \in Nat

LEMMA WithdrawnSum == TypeInv => \A u : WithdrawnIs(u)
<1> SUFFICES ASSUME TypeInv, NEW u PROVE WithdrawnIs(u)
  OBVIOUS
<1> DEFINE R == RowsBy(u)
<1>1. R \subseteq withdrawn
  BY DEF RowsBy
<1>2. IsFiniteSet(R)
  BY <1>1, FS_Subset DEF TypeInv, Finite
<1>3. \A r \in R : SumOf(R)[r] \in Nat
  BY <1>1, LedgerAssumption DEF TypeInv, TypeOK, WithdrawnRow, Decimal, SumOf
<1>4. GetWithdrawnAmount(u) = SumFunctionOnSet(SumOf(R), R)
  BY DEF GetWithdrawnAmount, SumFunction, SumOf, RowsBy
<1> HIDE DEF R
<1>5. SumFunctionOnSet(SumOf(R), R) \in Nat
  BY <1>2, <1>3, SumType
<1> QED
  BY <1>2, <1>3, <1>4, <1>5 DEF R, WithdrawnIs

LEMMA WithdrawnSumNext == TypeInv' => (\A u : WithdrawnIs(u))'
  BY WithdrawnSum, PTL

(* What a kopeck count becomes in an Amount and back.                      *)
LEMMA ThereAndBack ==
  ASSUME NEW n \in Int
  PROVE  TotalKopecks(FromPGNumeric(n)) = Wrap(n) /\ Wrap(n) \in Int64
<1>1. Wrap(n) \in Int64
  BY WrapType
<1>2. KopInRub * Quo(Wrap(n)) + Rem(Wrap(n)) = Wrap(n)
  BY <1>1, QuoRem DEF Int64
<1>3. TotalKopecks(FromPGNumeric(n)) = Wrap(Wrap(n))
  BY <1>2 DEF TotalKopecks, FromPGNumeric
<1> QED
  BY <1>1, <1>3, WrapInside

LEMMA WithdrawnRead ==
  ASSUME TypeInv, NEW c \in Calls
  PROVE  Withdrawn(c) = Wrap(GetWithdrawnAmount(Caller[c])) /\ Withdrawn(c) \in Int64
<1>1. GetWithdrawnAmount(Caller[c]) \in Int
  BY WithdrawnSum DEF WithdrawnIs
<1> QED
  BY <1>1, ThereAndBack DEF Withdrawn

LEMMA InitTypes == Init => TypeInv
<1> SUFFICES ASSUME Init PROVE TypeInv
  OBVIOUS
<1>1. Uploaded = {}
  BY DEF Init, Uploaded
<1>2. Finite
  BY <1>1, FS_EmptySet DEF Init, Finite
<1>3. table \in [Orders -> Row]
  BY DEF Init, Row, NoRow
<1>4. 0 \in Int64 /\ Balance \in Requests
  BY AmountAssumption DEF Int64, Requests
<1>5. TypeOK
  BY <1>3, <1>4, LedgerAssumption DEF Init, TypeOK, NoReply
<1> QED
  BY <1>2, <1>5 DEF TypeInv

(* A row that the table takes is a row of the table.                       *)
LEMMA RowType ==
  ASSUME TypeInv, NEW c \in Calls, req[c] # Balance, Storable(RowOf(c))
  PROVE  RowOf(c) \in WithdrawnRow
<1>1. req[c].number \in Numbers
  BY DEF TypeInv, TypeOK, Requests, Withdrawal
<1> QED
  BY <1>1, LedgerAssumption DEF RowOf, Storable, WithdrawnRow

(* What a step may do to the slot of a call, seen as types only.           *)
SlotTyped ==
  /\ pc' \in [Calls -> Counters] /\ req' \in [Calls -> Requests]
  /\ accrued' \in [Calls -> Int64] /\ spent' \in [Calls -> Int64]
  /\ attempt' \in [Calls -> 0 .. MaxRetries] /\ reply' \in [Calls -> Replies]
  /\ made' \in [Calls -> {"no", "yes", "unknown"}] /\ faults' \in 0 .. MaxFaults

LEMMA ReturnsTyped ==
  ASSUME TypeInv, NEW c \in Calls, NEW result \in {"ok", "error", "insufficient"},
         Returns(c, result)
  PROVE  /\ pc' \in [Calls -> Counters] /\ reply' \in [Calls -> Replies]
         /\ attempt' \in [Calls -> 0 .. MaxRetries]
<1> DEFINE code == Status(Codes(c, result))
<1>1. code \in Replies
  BY StatusOf DEF Replies
<1>2. /\ pc' = [pc EXCEPT ![c] = "done"] /\ reply' = [reply EXCEPT ![c] = code]
      /\ attempt' = [attempt EXCEPT ![c] = 0]
  BY DEF Returns, Answers, Goto
<1> HIDE DEF code
<1>3. 0 \in 0 .. MaxRetries
  BY LedgerAssumption
<1>4. attempt' \in [Calls -> 0 .. MaxRetries]
  BY <1>2, <1>3 DEF TypeInv, TypeOK
<1> QED
  BY <1>1, <1>2, <1>4 DEF TypeInv, TypeOK, Counters, Replies

LEMMA MovesTyped ==
  ASSUME TypeInv, NEW c \in Calls, NEW where \in Counters, Goto(c, where)
  PROVE  pc' \in [Calls -> Counters]
  BY DEF TypeInv, TypeOK, Goto, Counters

LEMMA ForgetsTyped ==
  ASSUME TypeInv, NEW c \in Calls, Forgets(c)
  PROVE  accrued' \in [Calls -> Int64] /\ spent' \in [Calls -> Int64]
<1>1. 0 \in Int64
  BY AmountAssumption DEF Int64
<1> QED
  BY <1>1 DEF TypeInv, TypeOK, Forgets

LEMMA RetriesTyped ==
  ASSUME TypeInv, NEW c \in Calls, Retries(c) \/ GivesUp(c)
  PROVE  /\ pc' \in [Calls -> Counters] /\ reply' \in [Calls -> Replies]
         /\ attempt' \in [Calls -> 0 .. MaxRetries]
<1>1. CASE GivesUp(c)
  BY <1>1, ReturnsTyped DEF GivesUp
<1>2. CASE attempt[c] < MaxRetries /\ Retries(c)
  <2>1. attempt' = [attempt EXCEPT ![c] = attempt[c] + 1] /\ Goto(c, "accrued") /\ UNCHANGED reply
    BY <1>2 DEF Retries
  <2>2. attempt[c] + 1 \in 0 .. MaxRetries
    BY <1>2, LedgerAssumption DEF TypeInv, TypeOK
  <2>3. pc' \in [Calls -> Counters]
    BY <2>1, MovesTyped DEF Counters
  <2> QED
    BY <2>1, <2>2, <2>3 DEF TypeInv, TypeOK, Replies
<1> QED
  BY <1>1, <1>2 DEF Retries

(* The tables, when a call commits what it has inserted, or nothing.       *)
LEMMA TablesTyped ==
  ASSUME TypeInv, NEW c \in Calls, UNCHANGED table, Commits(c) \/ UNCHANGED withdrawn,
         Ends(c) \/ UNCHANGED pending, SlotTyped
  PROVE  TypeInv'
<1>1. pending[c] \subseteq WithdrawnRow
  BY DEF TypeInv, TypeOK
<1>2. withdrawn' \subseteq WithdrawnRow
  BY <1>1 DEF TypeInv, TypeOK, Commits
<1>3. IsFiniteSet(withdrawn')
  BY FS_Union DEF TypeInv, Finite, Commits
<1>4. pending' \in [Calls -> SUBSET WithdrawnRow]
  BY DEF TypeInv, TypeOK, Ends
<1>5. \A b \in Calls : IsFiniteSet(pending'[b])
  <2>1. \A b \in Calls : pending'[b] = pending[b] \/ pending'[b] = {}
    BY DEF TypeInv, TypeOK, Ends
  <2> QED
    BY <2>1, FS_EmptySet DEF TypeInv, Finite
<1>6. table' \in [Orders -> Row] /\ Uploaded' = Uploaded
  BY DEF TypeInv, TypeOK, Uploaded
<1>7. Finite'
  BY <1>3, <1>5, <1>6 DEF TypeInv, Finite
<1>8. TypeOK'
  BY <1>2, <1>4, <1>6 DEF SlotTyped, TypeOK, Counters, Replies, WithdrawnRow, Decimal
<1> QED
  BY <1>7, <1>8 DEF TypeInv

LEMMA InsertTyped ==
  ASSUME IInv, TypeInv, NEW c \in Calls, CreateWithdrawal(c)
  PROVE  TypeInv'
<1>1. /\ UNCHANGED <<table, withdrawn, req, accrued, spent, attempt, reply, made, faults>>
      /\ Goto(c, "commit") /\ pending' = [pending EXCEPT ![c] = {RowOf(c)}]
      /\ pc[c] = "insert" /\ Storable(RowOf(c))
  BY DEF CreateWithdrawal
<1>2. RowOf(c) \in WithdrawnRow
  BY <1>1, RowType DEF IInv, CallOK, Inserted
<1>3. pending' \in [Calls -> SUBSET WithdrawnRow]
  BY <1>1, <1>2 DEF TypeInv, TypeOK
<1>4. \A b \in Calls : IsFiniteSet(pending'[b])
  <2>1. \A b \in Calls : pending'[b] = pending[b] \/ pending'[b] = {RowOf(c)}
    BY <1>1 DEF TypeInv, TypeOK
  <2>2. IsFiniteSet({RowOf(c)})
    BY FS_Singleton
  <2> QED
    BY <2>1, <2>2 DEF TypeInv, Finite
<1>5. Finite'
  BY <1>1, <1>4 DEF TypeInv, Finite, Uploaded
<1>6. pc' \in [Calls -> Counters]
  BY <1>1, MovesTyped DEF Counters
<1>7. TypeOK'
  BY <1>1, <1>3, <1>6 DEF TypeInv, TypeOK, Counters, WithdrawnRow, Decimal
<1> QED
  BY <1>5, <1>7 DEF TypeInv

LEMMA TableTyped ==
  ASSUME TypeInv, NEW o \in Orders, NEW row \in Row, table' = [table EXCEPT ![o] = row],
         UNCHANGED <<withdrawn, callVars, faults>>
  PROVE  TypeInv'
<1>1. table' \in [Orders -> Row]
  BY DEF TypeInv, TypeOK
<1>2. Uploaded' \subseteq Uploaded \cup {o}
  BY DEF TypeInv, TypeOK, Uploaded
<1>3. IsFiniteSet(Uploaded')
  <2>1. IsFiniteSet(Uploaded \cup {o})
    BY FS_AddElement DEF TypeInv, Finite
  <2> QED
    BY <1>2, <2>1, FS_Subset
<1>4. Finite'
  BY <1>3 DEF TypeInv, Finite, callVars
<1>5. TypeOK'
  BY <1>1 DEF TypeInv, TypeOK, callVars, WithdrawnRow, Decimal
<1> QED
  BY <1>4, <1>5 DEF TypeInv

LEMMA ReadTyped ==
  ASSUME TypeInv, NEW c \in Calls, ReadAccrued(c)
  PROVE  TypeInv'
<1> DEFINE sum == GetAccruedAmount(Caller[c])
<1>1. sum \in Decimal => TotalKopecks(FromPGNumeric(sum)) \in Int64
  BY LedgerAssumption, ThereAndBack DEF Decimal
<1>2. UNCHANGED <<table, withdrawn, req, spent, pending, made, faults>>
  BY DEF ReadAccrued
<1>3. \/ Returns(c, "error") /\ UNCHANGED accrued
      \/ /\ sum \in Decimal
         /\ accrued' = [accrued EXCEPT ![c] = TotalKopecks(FromPGNumeric(sum))]
         /\ Goto(c, "withdrawn") /\ UNCHANGED <<reply, attempt>>
  BY DEF ReadAccrued
<1> HIDE DEF sum
<1>4. accrued' \in [Calls -> Int64]
  BY <1>1, <1>3 DEF TypeInv, TypeOK
<1>5. /\ pc' \in [Calls -> Counters] /\ reply' \in [Calls -> Replies]
      /\ attempt' \in [Calls -> 0 .. MaxRetries]
  <2>1. CASE Returns(c, "error")
    BY <2>1, ReturnsTyped
  <2>2. CASE Goto(c, "withdrawn") /\ UNCHANGED <<reply, attempt>>
    <3>1. pc' \in [Calls -> Counters]
      BY <2>2, MovesTyped DEF Counters
    <3> QED
      BY <2>2, <3>1 DEF TypeInv, TypeOK, Replies
  <2> QED
    BY <1>3, <2>1, <2>2
<1>6. SlotTyped
  BY <1>2, <1>4, <1>5 DEF SlotTyped, TypeInv, TypeOK
<1> QED
  BY <1>2, <1>6, TablesTyped

LEMMA DecideTyped ==
  ASSUME TypeInv, NEW c \in Calls, ReadWithdrawn(c)
  PROVE  TypeInv'
<1>1. UNCHANGED <<table, withdrawn, req, pending, made, faults>>
  BY DEF ReadWithdrawn
<1>2. CASE /\ spent' = [spent EXCEPT ![c] = Withdrawn(c)]
           /\ Goto(c, "commit") /\ UNCHANGED <<accrued, reply, attempt>>
  <2>1. spent' \in [Calls -> Int64]
    BY <1>2, WithdrawnRead DEF TypeInv, TypeOK
  <2>2. pc' \in [Calls -> Counters]
    BY <1>2, MovesTyped DEF Counters
  <2>3. SlotTyped
    BY <1>1, <1>2, <2>1, <2>2 DEF SlotTyped, TypeInv, TypeOK, Replies
  <2> QED
    BY <1>1, <2>3, TablesTyped
<1>3. CASE Goto(c, "insert") /\ Forgets(c) /\ UNCHANGED <<reply, attempt>>
  <2>1. pc' \in [Calls -> Counters]
    BY <1>3, MovesTyped DEF Counters
  <2>2. accrued' \in [Calls -> Int64] /\ spent' \in [Calls -> Int64]
    BY <1>3, ForgetsTyped
  <2>3. SlotTyped
    BY <1>1, <1>3, <2>1, <2>2 DEF SlotTyped, TypeInv, TypeOK, Replies
  <2> QED
    BY <1>1, <2>3, TablesTyped
<1>4. CASE (Returns(c, "insufficient") \/ Returns(c, "error")) /\ Forgets(c)
  <2>1. /\ pc' \in [Calls -> Counters] /\ reply' \in [Calls -> Replies]
        /\ attempt' \in [Calls -> 0 .. MaxRetries]
    BY <1>4, ReturnsTyped
  <2>2. accrued' \in [Calls -> Int64] /\ spent' \in [Calls -> Int64]
    BY <1>4, ForgetsTyped
  <2>3. SlotTyped
    BY <1>1, <2>1, <2>2 DEF SlotTyped, TypeInv, TypeOK
  <2> QED
    BY <1>1, <2>3, TablesTyped
<1> QED
  BY <1>2, <1>3, <1>4 DEF ReadWithdrawn

LEMMA MadeTyped ==
  ASSUME TypeInv, NEW c \in Calls, NEW how \in {"no", "yes", "unknown"},
         made' = IF req[c] = Balance THEN made ELSE [made EXCEPT ![c] = how]
  PROVE  made' \in [Calls -> {"no", "yes", "unknown"}]
  BY DEF TypeInv, TypeOK

LEMMA FaultTyped ==
  ASSUME TypeInv, Fault
  PROVE  faults' \in 0 .. MaxFaults
  BY LedgerAssumption DEF TypeInv, TypeOK, Fault

LEMMA NextTypes == IInv /\ TypeInv /\ [Next]_vars => TypeInv'
<1> SUFFICES ASSUME IInv, TypeInv, [Next]_vars PROVE TypeInv'
  OBVIOUS
<1>1. ASSUME NEW c \in Calls, NEW q \in Requests, Call(c, q) PROVE TypeInv'
  <2>1. /\ UNCHANGED <<table, withdrawn, accrued, spent, pending, attempt, made, faults>>
        /\ req' = [req EXCEPT ![c] = q]
        /\ \/ Goto(c, "accrued") /\ UNCHANGED reply
           \/ Goto(c, "done") /\ reply' = [reply EXCEPT ![c] = 400]
    BY <1>1 DEF Call, Answers
  <2>2. pc' \in [Calls -> Counters]
    BY <2>1, MovesTyped DEF Counters
  <2>3. reply' \in [Calls -> Replies]
    BY <2>1 DEF TypeInv, TypeOK, Replies
  <2>4. req' \in [Calls -> Requests]
    BY <2>1 DEF TypeInv, TypeOK
  <2>5. SlotTyped
    BY <2>1, <2>2, <2>3, <2>4 DEF SlotTyped, TypeInv, TypeOK
  <2> QED
    BY <2>1, <2>5, TablesTyped
<1>2. ASSUME NEW c \in Calls, CallFails(c) PROVE TypeInv'
  <2>1. /\ UNCHANGED <<table, withdrawn, req, accrued, spent, pending, attempt, made>>
        /\ Fault /\ Goto(c, "done") /\ reply' = [reply EXCEPT ![c] = 500]
    BY <1>2 DEF CallFails, Answers
  <2>2. pc' \in [Calls -> Counters] /\ faults' \in 0 .. MaxFaults
    BY <2>1, MovesTyped, FaultTyped DEF Counters
  <2>3. reply' \in [Calls -> Replies]
    BY <2>1 DEF TypeInv, TypeOK, Replies
  <2>4. SlotTyped
    BY <2>1, <2>2, <2>3 DEF SlotTyped, TypeInv, TypeOK
  <2> QED
    BY <2>1, <2>4, TablesTyped
<1>3. ASSUME NEW c \in Calls, CallStep(c) PROVE TypeInv'
  <2>1. CASE ReadAccrued(c)
    BY <2>1, ReadTyped
  <2>2. CASE ReadWithdrawn(c)
    BY <2>2, DecideTyped
  <2>3. CASE CreateWithdrawal(c)
    BY <2>3, InsertTyped
  <2>4. CASE InsertRefused(c)
    <3>1. /\ UNCHANGED <<table, withdrawn, req, accrued, spent, pending, made, faults>>
          /\ Returns(c, "error")
      BY <2>4 DEF InsertRefused
    <3>2. /\ pc' \in [Calls -> Counters] /\ reply' \in [Calls -> Replies]
          /\ attempt' \in [Calls -> 0 .. MaxRetries]
      BY <3>1, ReturnsTyped
    <3>3. SlotTyped
      BY <3>1, <3>2 DEF SlotTyped, TypeInv, TypeOK
    <3> QED
      BY <3>1, <3>3, TablesTyped
  <2>5. CASE Commit(c)
    <3>1. /\ UNCHANGED <<table, req, accrued, spent, faults>>
          /\ Commits(c) /\ Ends(c) /\ Returns(c, "ok")
          /\ made' = IF req[c] = Balance THEN made ELSE [made EXCEPT ![c] = "yes"]
      BY <2>5 DEF Commit
    <3>2. /\ pc' \in [Calls -> Counters] /\ reply' \in [Calls -> Replies]
          /\ attempt' \in [Calls -> 0 .. MaxRetries]
      BY <3>1, ReturnsTyped
    <3>3. made' \in [Calls -> {"no", "yes", "unknown"}]
      BY <3>1, MadeTyped
    <3>4. SlotTyped
      BY <3>1, <3>2, <3>3 DEF SlotTyped, TypeInv, TypeOK
    <3> QED
      BY <3>1, <3>4, TablesTyped
  <2>6. CASE CommitUnknown(c)
    <3>1. /\ UNCHANGED <<table, req>> /\ Fault
          /\ Commits(c) /\ Ends(c) /\ Forgets(c) /\ (Retries(c) \/ GivesUp(c))
          /\ made' = IF req[c] = Balance THEN made ELSE [made EXCEPT ![c] = "unknown"]
      BY <2>6 DEF CommitUnknown
    <3>2. /\ pc' \in [Calls -> Counters] /\ reply' \in [Calls -> Replies]
          /\ attempt' \in [Calls -> 0 .. MaxRetries]
      BY <3>1, RetriesTyped
    <3>3. /\ made' \in [Calls -> {"no", "yes", "unknown"}] /\ faults' \in 0 .. MaxFaults
          /\ accrued' \in [Calls -> Int64] /\ spent' \in [Calls -> Int64]
      BY <3>1, MadeTyped, FaultTyped, ForgetsTyped
    <3>4. SlotTyped
      BY <3>1, <3>2, <3>3 DEF SlotTyped, TypeInv, TypeOK
    <3> QED
      BY <3>1, <3>4, TablesTyped
  <2>7. CASE Respond(c)
    <3>1. /\ UNCHANGED <<table, withdrawn, pending, attempt, faults>>
          /\ Goto(c, "idle") /\ Forgets(c) /\ req' = [req EXCEPT ![c] = Balance]
          /\ reply' = [reply EXCEPT ![c] = NoReply]
          /\ made' = [made EXCEPT ![c] = "no"]
      BY <2>7 DEF Respond
    <3>2. /\ pc' \in [Calls -> Counters]
          /\ accrued' \in [Calls -> Int64] /\ spent' \in [Calls -> Int64]
      BY <3>1, MovesTyped, ForgetsTyped DEF Counters
    <3>3. req' \in [Calls -> Requests] /\ reply' \in [Calls -> Replies]
      BY <3>1 DEF TypeInv, TypeOK, Requests, Replies
    <3>4. attempt' \in [Calls -> 0 .. MaxRetries] /\ made' \in [Calls -> {"no", "yes", "unknown"}]
      BY <3>1, LedgerAssumption DEF TypeInv, TypeOK
    <3>5. SlotTyped
      BY <3>1, <3>2, <3>3, <3>4 DEF SlotTyped, TypeInv, TypeOK
    <3> QED
      BY <3>1, <3>5, TablesTyped
  <2>8. ASSUME NEW retryable \in BOOLEAN, StatementFails(c, retryable) PROVE TypeInv'
    <3>1. /\ UNCHANGED <<table, withdrawn, req, made>> /\ Fault
          /\ Ends(c) /\ Forgets(c) /\ (Retries(c) \/ GivesUp(c))
      BY <2>8 DEF StatementFails
    <3>2. /\ pc' \in [Calls -> Counters] /\ reply' \in [Calls -> Replies]
          /\ attempt' \in [Calls -> 0 .. MaxRetries]
      BY <3>1, RetriesTyped
    <3>3. /\ faults' \in 0 .. MaxFaults
          /\ accrued' \in [Calls -> Int64] /\ spent' \in [Calls -> Int64]
      BY <3>1, FaultTyped, ForgetsTyped
    <3>4. SlotTyped
      BY <3>1, <3>2, <3>3 DEF SlotTyped, TypeInv, TypeOK
    <3> QED
      BY <3>1, <3>4, TablesTyped
  <2> QED
    BY <1>3, <2>1, <2>2, <2>3, <2>4, <2>5, <2>6, <2>7, <2>8 DEF CallStep
<1>4. ASSUME NEW o \in Orders, Upload(o) PROVE TypeInv'
  <2>1. CreateAccrual \in Row
    BY DEF CreateAccrual, Row, Statuses
  <2> QED
    BY <1>4, <2>1, TableTyped DEF Upload
<1>5. ASSUME NEW o \in Orders, NEW s \in {"PROCESSING", "PROCESSED"}, NEW k \in Credits \cup {0},
             Update(o, s, k)
      PROVE  TypeInv'
  <2>1. UpdateAccrualStatus(s, k) \in Row
    BY LedgerAssumption DEF UpdateAccrualStatus, Row, Statuses
  <2> QED
    BY <1>5, <2>1, TableTyped DEF Update
<1>6. CASE UNCHANGED vars
  <2>1. SlotTyped
    BY <1>6 DEF vars, callVars, SlotTyped, TypeInv, TypeOK, Counters, Replies
  <2>2. UNCHANGED <<table, withdrawn, pending>>
    BY <1>6 DEF vars, callVars
  <2>3. TypeOK'
    BY <2>1, <2>2 DEF TypeInv, TypeOK, SlotTyped, Counters, Replies, WithdrawnRow, Decimal
  <2>4. Finite'
    BY <2>2 DEF TypeInv, Finite, Uploaded
  <2> QED
    BY <2>3, <2>4 DEF TypeInv
<1> QED
  BY <1>1, <1>2, <1>3, <1>4, <1>5, <1>6 DEF Next

(* The tables and the slots of the calls hold what they are meant to hold: *)
(* amounts in an int64 whatever was summed up, rows that the constraints   *)
(* of the schema accept, no more attempts than maxAttemptCount.            *)
THEOREM LedgerTypes == Spec => []TypeOK
<1>1. TypeInv => TypeOK
  BY DEF TypeInv
<1> QED
  BY <1>1, InitIInv, NextIInv, InitTypes, NextTypes, PTL DEF Spec

=============================================================================
