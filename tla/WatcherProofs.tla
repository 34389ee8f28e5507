---------------------------- MODULE WatcherProofs ----------------------------
(***************************************************************************)
(* What TLAPS proves about the watcher and its table, for any numbers of   *)
(* orders, workers, concurrent ticks and restarts.                         *)
(***************************************************************************)
EXTENDS Watcher, TLAPS

LEMMA DummyInfo ==
  ASSUME NEW o \in Orders, NEW s \in FailureStatuses
  PROVE  /\ dummy(o, s) \in AccrualInfo
         /\ Known(dummy(o, s))
  BY DEF dummy, AccrualInfo, Accruals, FailureStatuses, Known, FinalVerdicts

LEMMA AnswerInfo ==
  ASSUME calc \in [Orders -> Verdict], NEW o \in Orders
  PROVE  /\ Answer(o) \in AccrualInfo
         /\ Known(Answer(o))
<1>1. /\ calc[o] \in Verdict
      /\ calc[o].status \in {"UNREGISTERED", "REGISTERED", "PROCESSING", "INVALID",
                             "PROCESSED"}
      /\ calc[o].accrual \in Accruals
      /\ calc[o].status # "PROCESSED" => calc[o].accrual = NoAccrual
      /\ calc[o] = [status |-> calc[o].status, accrual |-> calc[o].accrual]
  BY DEF Verdict, Accruals
<1>2. Answer(o) \in AccrualInfo
  BY <1>1 DEF Answer, dummy, AccrualInfo, Accruals
<1>3. Known(Answer(o))
  BY <1>1 DEF Answer, dummy, Known, FinalVerdicts
<1> QED
  BY <1>2, <1>3

LEMMA NoInfoIsNone == NoInfo \notin AccrualInfo
  BY BrokerAssumption DEF NoInfo, AccrualInfo, BrokerAssumption

(* What an UPDATE writes is a row; it holds money only if the answer       *)
(* brought an amount, and only next to PROCESSED.                          *)
LEMMA AppliedRow ==
  ASSUME NEW i \in AccrualInfo, Known(i)
  PROVE  LET row == UpdateAccrualStatus(realStatus(i.status), FromString(i.accrual)) IN
           /\ row \in Row
           /\ Credited(row) => /\ row.status = "PROCESSED"
                              /\ calc[i.order] = [status |-> "PROCESSED", accrual |-> row.amount]
           /\ row.status = "INVALID" => calc[i.order].status = "INVALID"
<1> DEFINE row == UpdateAccrualStatus(realStatus(i.status), FromString(i.accrual))
<1>1. i.status \in {"REGISTERED", "PROCESSING", "INVALID", "PROCESSED", "NO_CONTENT",
                    "AGENT_FAILED", "CALCULATOR_FAILED"}
  BY DEF AccrualInfo, FailureStatuses
<1>2. realStatus(i.status) \in Statuses
  BY <1>1 DEF realStatus, FailureStatuses, Statuses
<1>3. FromString(i.accrual) \in Nat
  BY BrokerAssumption DEF FromString, BrokerAssumption
<1>4. row \in Row
  BY <1>2, <1>3 DEF Row, UpdateAccrualStatus
<1>5. ASSUME Credited(row)
      PROVE  /\ row.status = "PROCESSED"
             /\ calc[i.order] = [status |-> "PROCESSED", accrual |-> row.amount]
  <2>1. i.accrual \in Amounts /\ row.amount = i.accrual
    BY <1>3, <1>5 DEF Credited, UpdateAccrualStatus, FromString
  <2>2. i.status = "PROCESSED"
    BY <2>1, BrokerAssumption DEF Known, BrokerAssumption
  <2> QED
    BY <2>1, <2>2 DEF Known, FinalVerdicts, UpdateAccrualStatus, realStatus, FailureStatuses
<1>6. ASSUME row.status = "INVALID" PROVE calc[i.order].status = "INVALID"
  <2>1. i.status = "INVALID"
    BY <1>1, <1>6 DEF UpdateAccrualStatus, realStatus, FailureStatuses
  <2> QED
    BY <2>1 DEF Known, FinalVerdicts
<1> QED
  BY <1>4, <1>5, <1>6

(* A row that a tick has marked holds no money.                            *)
LEMMA MarkedRow ==
  LET row == UpdateAccrualStatus("PROCESSING", 0) IN
    row \in Row /\ ~Credited(row) /\ row.status # "INVALID"
  BY DEF UpdateAccrualStatus, Row, Statuses, Credited

-----------------------------------------------------------------------------
(* Types.                                                                  *)

LEMMA InitTypeOK == Init => TypeOK
<1> SUFFICES ASSUME Init PROVE TypeOK
  OBVIOUS
<1>1. calc \in [Orders -> Verdict]
  BY DEF Init, BrokerInit, Unregistered, Verdict
<1>2. table \in [Orders -> Row]
  BY DEF Init, NoRow, Row
<1>3. crashes \in 0 .. MaxCrashes
  BY WatcherAssumption DEF Init, WatcherAssumption
<1> QED
  BY <1>1, <1>2, <1>3 DEF Init, BrokerInit, TypeOK, Fresh

LEMMA NextTypeOK == TypeOK /\ AnswersKnown /\ [Next]_vars => TypeOK'
<1> SUFFICES ASSUME TypeOK, AnswersKnown, [Next]_vars PROVE TypeOK'
  OBVIOUS
<1> USE DEF TypeOK, brokerVars, tickVars, mainVars, procVars
<1>1. ASSUME NEW g \in Ticks, TickStep(g) PROVE TypeOK'
  <2>1. CASE TickFire(g)
    BY <2>1 DEF TickFire
  <2>2. CASE TickQuery(g)
    BY <2>2 DEF TickQuery
  <2>3. CASE TickQueryFails(g)
    BY <2>3 DEF TickQueryFails
  <2>4. ASSUME NEW o \in Orders, NEW d \in Desks, TickSend(g, o, d) PROVE TypeOK'
    BY <2>4 DEF TickSend, Take
  <2>5. CASE TickPanic(g)
    BY <2>5 DEF TickPanic
  <2>6. ASSUME Marks(g) PROVE table' \in [Orders -> Row]
    BY <2>6, MarkedRow DEF Marks, Marked
  <2>7. CASE TickMark(g)
    BY <2>6, <2>7 DEF TickMark, NextOrder
  <2>8. CASE TickMarkUnknown(g)
    BY <2>6, <2>8 DEF TickMarkUnknown
  <2>9. CASE TickMarkFails(g)
    BY <2>9 DEF TickMarkFails, NextOrder
  <2> QED
    BY <1>1, <2>1, <2>2, <2>3, <2>4, <2>5, <2>7, <2>8, <2>9 DEF TickStep
<1>2. CASE MainStep
  <2>1. ASSUME NEW d \in Desks, MainReceive(d) PROVE TypeOK'
    BY <2>1 DEF MainReceive, Deliver
  <2>2. ASSUME Applies PROVE table' \in [Orders -> Row]
    <3>1. resp \in AccrualInfo /\ Known(resp)
      BY <2>2 DEF Applies, AnswersKnown
    <3>2. UpdateAccrualStatus(realStatus(resp.status), FromString(resp.accrual)) \in Row
      BY <3>1, AppliedRow
    <3> QED
      BY <2>2, <3>2 DEF Applies
  <2>3. CASE MainApply
    BY <2>2, <2>3 DEF MainApply
  <2>4. CASE MainApplyUnknown
    BY <2>2, <2>4 DEF MainApplyUnknown
  <2>5. CASE MainApplyFails
    BY <2>5 DEF MainApplyFails
  <2>6. CASE MainDone
    BY <2>6 DEF MainDone
  <2>7. CASE MainStop
    BY <2>7 DEF MainStop
  <2> QED
    BY <1>2, <2>1, <2>3, <2>4, <2>5, <2>6, <2>7 DEF MainStep
<1>3. CASE AgentStep
  <2>1. ASSUME NEW d \in Desks, AgentLearns(d) PROVE TypeOK'
    BY <2>1, AnswerInfo DEF AgentLearns, Learn
  <2>2. ASSUME NEW d \in Desks, NEW s \in FailureStatuses, AgentFails(d, s) PROVE TypeOK'
    BY <2>2, DummyInfo DEF AgentFails, Fail
  <2>3. ASSUME NEW d \in Desks, AgentLimited(d) PROVE TypeOK'
    BY <2>3, DummyInfo DEF AgentLimited, Fail
  <2>4. CASE AgentStops
    BY <2>4 DEF AgentStops, Close
  <2> QED
    BY <1>3, <2>1, <2>2, <2>3, <2>4 DEF AgentStep
<1>4. ASSUME NEW o \in Orders, PostOrder(o) PROVE TypeOK'
  <2>1. CreateAccrual \in Row
    BY DEF CreateAccrual, Row, Statuses
  <2> QED
    BY <1>4, <2>1 DEF PostOrder
<1>5. CASE Cancel
  BY <1>5 DEF Cancel
<1>6. CASE Restart
  <2>1. crashes' \in 0 .. MaxCrashes
    BY <1>6, WatcherAssumption DEF Restart, WatcherAssumption
  <2> QED
    BY <1>6, <2>1 DEF Restart, Fresh
<1>7. ASSUME NEW o \in Orders, NEW v \in Verdict, Calculates(o, v) PROVE TypeOK'
  BY <1>7 DEF Calculates, Calculate
<1>8. CASE UNCHANGED vars
  BY <1>8 DEF vars
<1> QED
  BY <1>1, <1>2, <1>3, <1>4, <1>5, <1>6, <1>7, <1>8 DEF Next

-----------------------------------------------------------------------------
(* Answers on their way.                                                   *)

LEMMA InitAnswersKnown == Init => AnswersKnown
  BY DEF Init, BrokerInit, AnswersKnown

LEMMA NextAnswersKnown == TypeOK /\ AnswersKnown /\ [Next]_vars => AnswersKnown'
<1> SUFFICES ASSUME TypeOK, AnswersKnown, [Next]_vars PROVE AnswersKnown'
  OBVIOUS
<1> USE DEF brokerVars, tickVars, mainVars, procVars
<1>0. ASSUME UNCHANGED <<calc, info, mainPc, resp>> PROVE AnswersKnown'
  BY <1>0 DEF AnswersKnown, Known
<1>1. ASSUME NEW g \in Ticks, TickStep(g) PROVE AnswersKnown'
  BY <1>0, <1>1 DEF TickStep, TickFire, TickQuery, TickQueryFails, TickSend, Take,
     TickPanic, TickMark, TickMarkUnknown, TickMarkFails
<1>2. CASE MainStep
  <2>1. ASSUME NEW d \in Desks, MainReceive(d) PROVE AnswersKnown'
    BY <2>1 DEF MainReceive, Deliver, AnswersKnown, Known, TypeOK
  <2>2. CASE MainApply \/ MainApplyFails \/ MainStop
    BY <2>2 DEF MainApply, MainApplyFails, MainStop, AnswersKnown, Known
  <2>3. CASE MainApplyUnknown \/ MainDone
    BY <1>0, <2>3 DEF MainApplyUnknown, MainDone
  <2> QED
    BY <1>2, <2>1, <2>2, <2>3 DEF MainStep
<1>3. CASE AgentStep
  <2>1. ASSUME NEW d \in Desks, AgentLearns(d) PROVE AnswersKnown'
    <3>1. Known(Answer(job[d]))
      BY <2>1, AnswerInfo DEF AgentLearns, Learn, TypeOK
    <3> QED
      BY <2>1, <3>1 DEF AgentLearns, Learn, AnswersKnown, Known, TypeOK
  <2>2. ASSUME NEW d \in Desks, NEW s \in FailureStatuses, Fail(d, s), UNCHANGED mainVars
        PROVE  AnswersKnown'
    <3>1. Known(dummy(job[d], s))
      BY <2>2, DummyInfo DEF Fail, TypeOK
    <3> QED
      BY <2>2, <3>1 DEF Fail, AnswersKnown, Known, TypeOK
  <2>3. ASSUME NEW d \in Desks, AgentLimited(d) PROVE AnswersKnown'
    BY <2>2, <2>3 DEF AgentLimited, FailureStatuses
  <2>4. CASE AgentStops
    BY <1>0, <2>4 DEF AgentStops, Close
  <2> QED
    BY <1>3, <2>1, <2>2, <2>3, <2>4 DEF AgentStep, AgentFails
<1>4. ASSUME NEW o \in Orders, PostOrder(o) PROVE AnswersKnown'
  BY <1>0, <1>4 DEF PostOrder
<1>5. CASE Cancel
  BY <1>0, <1>5 DEF Cancel
<1>6. CASE Restart
  BY <1>6 DEF Restart, Fresh, AnswersKnown
<1>7. ASSUME NEW o \in Orders, NEW v \in Verdict, Calculates(o, v) PROVE AnswersKnown'
  <2>1. ASSUME NEW i \in AccrualInfo, Known(i) PROVE Known(i)'
    BY <1>7, <2>1 DEF Calculates, Calculate, Known, TypeOK, AccrualInfo
  <2> QED
    BY <1>7, <2>1 DEF Calculates, Calculate, AnswersKnown, TypeOK
<1>8. CASE UNCHANGED vars
  BY <1>0, <1>8 DEF vars
<1> QED
  BY <1>1, <1>2, <1>3, <1>4, <1>5, <1>6, <1>7, <1>8 DEF Next

-----------------------------------------------------------------------------
(* The table.                                                              *)

(* The part of SettledAsCalculated that is about one order.                *)
Settled(o) ==
  /\ Credited(table[o]) =>
       table[o].status = "PROCESSED"
         /\ calc[o] = [status |-> "PROCESSED", accrual |-> table[o].amount]
  /\ table[o].status = "INVALID" => calc[o].status = "INVALID"

LEMMA InitSettled == Init => SettledAsCalculated
  BY DEF Init, SettledAsCalculated, NoRow, Credited

LEMMA NextSettled ==
  TypeOK /\ AnswersKnown /\ SettledAsCalculated /\ [Next]_vars => SettledAsCalculated'
<1> SUFFICES ASSUME TypeOK, AnswersKnown, SettledAsCalculated, [Next]_vars,
                    NEW o \in Orders
             PROVE  Settled(o)'
  BY DEF SettledAsCalculated, Settled
<1>s. Settled(o)
  BY DEF SettledAsCalculated, Settled
<1> USE DEF brokerVars, tickVars, mainVars, procVars
<1>0. ASSUME UNCHANGED calc, table'[o] = table[o] PROVE Settled(o)'
  BY <1>0, <1>s DEF Settled, Credited
<1>1. ASSUME NEW g \in Ticks, TickStep(g) PROVE Settled(o)'
  <2>1. CASE TickMark(g) \/ TickMarkUnknown(g)
    <3>1. CASE cur[g] = o
      BY <2>1, <3>1, MarkedRow DEF TickMark, TickMarkUnknown, Marks, Marked, Settled,
         Credited, TypeOK
    <3>2. CASE cur[g] # o
      BY <1>0, <2>1, <3>2 DEF TickMark, TickMarkUnknown, Marks, Marked, TypeOK
    <3> QED
      BY <3>1, <3>2
  <2>2. CASE UNCHANGED <<calc, table>>
    BY <1>0, <2>2
  <2> QED
    BY <1>1, <2>1, <2>2 DEF TickStep, TickFire, TickQuery, TickQueryFails, TickSend, Take,
       TickPanic, TickMarkFails
<1>2. CASE MainStep
  <2>1. CASE MainApply \/ MainApplyUnknown
    <3>1. /\ resp \in AccrualInfo /\ Known(resp)
          /\ UNCHANGED calc
          /\ table' = [table EXCEPT ![resp.order] =
                         UpdateAccrualStatus(realStatus(resp.status), FromString(resp.accrual))]
      BY <2>1 DEF MainApply, MainApplyUnknown, Applies, AnswersKnown, TypeOK
    <3>2. CASE resp.order = o
      <4>1. table'[o] =
              UpdateAccrualStatus(realStatus(resp.status), FromString(resp.accrual))
        BY <3>1, <3>2 DEF TypeOK
      <4> QED
        BY <3>1, <3>2, <4>1, AppliedRow DEF Settled, Credited
    <3>3. CASE resp.order # o
      BY <1>0, <3>1, <3>3 DEF TypeOK
    <3> QED
      BY <3>2, <3>3
  <2>2. CASE UNCHANGED <<calc, table>>
    BY <1>0, <2>2
  <2> QED
    BY <1>2, <2>1, <2>2 DEF MainStep, MainReceive, Deliver, MainApplyFails, MainDone, MainStop
<1>3. CASE AgentStep
  BY <1>0, <1>3 DEF AgentStep, AgentLearns, Learn, AgentFails, AgentLimited, Fail, AgentStops, Close
<1>4. ASSUME NEW p \in Orders, PostOrder(p) PROVE Settled(o)'
  <2>1. CASE p = o
    BY <1>4, <2>1 DEF PostOrder, CreateAccrual, Settled, Credited, TypeOK
  <2>2. CASE p # o
    BY <1>0, <1>4, <2>2 DEF PostOrder, TypeOK
  <2> QED
    BY <2>1, <2>2
<1>5. CASE Cancel \/ Restart
  BY <1>0, <1>5 DEF Cancel, Restart
<1>6. ASSUME NEW p \in Orders, NEW v \in Verdict, Calculates(p, v) PROVE Settled(o)'
  <2>1. UNCHANGED table /\ (p # o => calc'[o] = calc[o])
    BY <1>6 DEF Calculates, Calculate, TypeOK
  <2>2. CASE p # o
    BY <1>s, <2>1, <2>2 DEF Settled, Credited
  <2>3. CASE p = o
    <3>1. calc[o].status \notin {"INVALID", "PROCESSED"}
      BY <1>6, <2>3 DEF Calculates, Calculate, FinalVerdicts
    <3> QED
      BY <1>s, <2>1, <3>1 DEF Settled, Credited
  <2> QED
    BY <2>2, <2>3
<1>7. CASE UNCHANGED vars
  BY <1>0, <1>7 DEF vars
<1> QED
  BY <1>1, <1>2, <1>3, <1>4, <1>5, <1>6, <1>7 DEF Next

-----------------------------------------------------------------------------

LEMMA Inductive == Spec => [](TypeOK /\ AnswersKnown /\ SettledAsCalculated)
<1>1. Init => TypeOK /\ AnswersKnown /\ SettledAsCalculated
  BY InitTypeOK, InitAnswersKnown, InitSettled
<1>2. TypeOK /\ AnswersKnown /\ SettledAsCalculated /\ [Next]_vars
        => (TypeOK /\ AnswersKnown /\ SettledAsCalculated)'
  BY NextTypeOK, NextAnswersKnown, NextSettled
<1> QED
  BY <1>1, <1>2, PTL DEF Spec

(* The variables keep their types; a tick marks and Watcher.Run applies    *)
(* only what it has in hand.                                               *)
THEOREM TypeCorrect == Spec => []TypeOK
  BY Inductive, PTL

(* Money in a row is what the calculator granted for that order, for any   *)
(* number of concurrent ticks, workers, lost or repeated updates and       *)
(* restarts; and no order is INVALID that the calculator did not refuse.   *)
THEOREM NoMoneyFromNowhere == Spec => []SettledAsCalculated
  BY Inductive, PTL

=============================================================================
