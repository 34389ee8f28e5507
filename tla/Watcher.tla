------------------------------- MODULE Watcher -------------------------------
(***************************************************************************)
(* The watcher: the loop of Watcher.Run, the goroutine it starts at every  *)
(* tick, and the table of orders that both of them update.  Its            *)
(* environment is the agent (Broker), the users who post orders, the       *)
(* process that is cancelled or killed and started again, and a database   *)
(* whose answers may be lost.                                              *)
(*                                                                         *)
(* A database call under the context of a cancelled service fails.  Three  *)
(* outcomes of an UPDATE are told apart: it is applied; it is applied but  *)
(* reported as a failure that WithRetry retries (08007, 08006: the same    *)
(* UPDATE runs again 1, 3 or 5 seconds later); it is not applied and the   *)
(* error is logged.  The four attempts of WithRetry are not counted.       *)
(***************************************************************************)
EXTENDS OrderTable, Broker

CONSTANTS
  Ticks,       \* bound on the tick goroutines that run at the same time
  MaxCrashes   \* bound on the restarts of the process

ASSUME WatcherAssumption == MaxCrashes \in Nat

VARIABLES
  table,         \* accrued_orders
  tickPc,        \* where each tick goroutine is
  batch,         \* the rest of the orders it has selected
  cur,           \* the order it has just handed over
  mainPc,        \* where Watcher.Run is
  resp,          \* the AccrualInfo it has received
  tickerOn, ctxDone,
  ordersClosed,  \* ordersCh is closed
  limited,       \* a request of this process was answered with a 429
  panicked,      \* the process has died of a panic
  crashes        \* restarts so far

tickVars == <<tickPc, batch, cur>>
mainVars == <<mainPc, resp, tickerOn, ordersClosed>>
procVars == <<limited, ctxDone, panicked, crashes>>
vars == <<brokerVars, table, tickVars, mainVars, procVars>>

(* The memory of a process that has just started.                          *)
Fresh ==
  [tickPc |-> [g \in Ticks |-> "idle"],
   batch |-> [g \in Ticks |-> {}],
   cur |-> [g \in Ticks |-> NoOrder],
   job |-> [d \in Desks |-> NoOrder],
   info |-> [d \in Desks |-> NoInfo]]

Init ==
  /\ BrokerInit
  /\ table = [o \in Orders |-> NoRow]
  /\ tickPc = Fresh.tickPc /\ batch = Fresh.batch /\ cur = Fresh.cur
  /\ mainPc = "select" /\ resp = NoInfo
  /\ tickerOn = TRUE /\ ordersClosed = FALSE
  /\ limited = FALSE /\ ctxDone = FALSE /\ panicked = FALSE /\ crashes = 0

-----------------------------------------------------------------------------
(* The goroutine of one tick.                                              *)

TickFire(g) ==
  /\ mainPc = "select" /\ tickerOn
  /\ tickPc[g] = "idle"
  /\ tickPc' = [tickPc EXCEPT ![g] = "query"]
  /\ UNCHANGED <<brokerVars, table, batch, cur, mainVars, procVars>>

TickQuery(g) ==
  /\ tickPc[g] = "query" /\ ~ctxDone
  /\ LET orders == {o \in Orders : SelectedForProcessing(table[o])} IN
       /\ batch' = [batch EXCEPT ![g] = orders]
       /\ tickPc' = [tickPc EXCEPT ![g] = IF orders = {} THEN "idle" ELSE "send"]
  /\ UNCHANGED <<brokerVars, table, cur, mainVars, procVars>>

TickQueryFails(g) ==
  /\ tickPc[g] = "query"
  /\ tickPc' = [tickPc EXCEPT ![g] = "idle"]
  /\ UNCHANGED <<brokerVars, table, batch, cur, mainVars, procVars>>

(* w.ordersCh <- o: the send meets a worker that receives.                 *)
TickSend(g, o, d) ==
  /\ tickPc[g] = "send" /\ o \in batch[g] /\ ~ordersClosed
  /\ Take(d, o)
  /\ batch' = [batch EXCEPT ![g] = @ \ {o}]
  /\ cur' = [cur EXCEPT ![g] = o]
  /\ tickPc' = [tickPc EXCEPT ![g] = "mark"]
  /\ UNCHANGED <<table, mainVars, procVars>>

(* A send on a closed channel panics, and nobody recovers.                 *)
TickPanic(g) ==
  /\ tickPc[g] = "send" /\ ordersClosed
  /\ panicked' = TRUE
  /\ UNCHANGED <<brokerVars, table, tickVars, mainVars, limited, ctxDone, crashes>>

(* Mutant: the UPDATE leaves the amount alone.                             *)
MarkedKeepsAmount(g) ==
  table' = [table EXCEPT ![cur[g]].status = "PROCESSING"]

(* The order that has been handed over is marked PROCESSING, by an UPDATE  *)
(* without an amount.                                                      *)
Marked(g) ==
  table' = [table EXCEPT ![cur[g]] = UpdateAccrualStatus("PROCESSING", 0)]

Marks(g) ==
  /\ tickPc[g] = "mark" /\ ~ctxDone
  /\ Marked(g)

NextOrder(g) ==
  /\ tickPc' = [tickPc EXCEPT ![g] = IF batch[g] = {} THEN "idle" ELSE "send"]
  /\ cur' = [cur EXCEPT ![g] = NoOrder]

TickMark(g) ==
  /\ Marks(g)
  /\ NextOrder(g)
  /\ UNCHANGED <<brokerVars, batch, mainVars, procVars>>

TickMarkUnknown(g) ==
  /\ Marks(g)
  /\ UNCHANGED <<brokerVars, tickVars, mainVars, procVars>>

TickMarkFails(g) ==
  /\ tickPc[g] = "mark"
  /\ NextOrder(g)
  /\ UNCHANGED <<brokerVars, table, batch, mainVars, procVars>>

-----------------------------------------------------------------------------
(* Watcher.Run                                                             *)

(* case resp, ok := <-w.responsesCh, ok                                    *)
MainReceive(d) ==
  /\ mainPc = "select"
  /\ resp' = info[d]
  /\ Deliver(d)
  /\ mainPc' = "apply"
  /\ UNCHANGED <<table, tickVars, tickerOn, ordersClosed, procVars>>

(* Mutant: the answer's own word is stored.                                *)
sameStatus(status) == status

realStatus(status) ==
  CASE status \in FailureStatuses \cup {"PROCESSING", "REGISTERED"} -> "PROCESSING"
    [] status = "INVALID" -> "INVALID"
    [] status \in {"PROCESSED", "NO_CONTENT"} -> "PROCESSED"

(* model.FromString: an error is logged and leaves the amount at zero.     *)
FromString(accrual) == IF accrual \in Amounts THEN accrual ELSE 0

Applies ==
  /\ mainPc = "apply" /\ ~ctxDone
  /\ table' = [table EXCEPT ![resp.order] =
                 UpdateAccrualStatus(realStatus(resp.status), FromString(resp.accrual))]

MainApply ==
  /\ Applies
  /\ mainPc' = "select" /\ resp' = NoInfo
  /\ UNCHANGED <<brokerVars, tickVars, tickerOn, ordersClosed, procVars>>

MainApplyUnknown ==
  /\ Applies
  /\ UNCHANGED <<brokerVars, tickVars, mainVars, procVars>>

MainApplyFails ==
  /\ mainPc = "apply"
  /\ mainPc' = "select" /\ resp' = NoInfo
  /\ UNCHANGED <<brokerVars, table, tickVars, tickerOn, ordersClosed, procVars>>

(* case <-ctx.Done(): the ticker is stopped, the loop goes on (and takes   *)
(* this branch again and again).                                           *)
MainDone ==
  /\ mainPc = "select" /\ ctxDone
  /\ tickerOn' = FALSE
  /\ UNCHANGED <<brokerVars, table, tickVars, mainPc, resp, ordersClosed, procVars>>

(* responsesCh is closed: close(w.ordersCh) and return.                    *)
MainStop ==
  /\ mainPc = "select" /\ closed
  /\ ordersClosed' = TRUE
  /\ tickerOn' = FALSE
  /\ mainPc' = "stopped"
  /\ UNCHANGED <<brokerVars, table, tickVars, resp, procVars>>

-----------------------------------------------------------------------------
(* The environment.                                                        *)

PostOrder(o) ==
  /\ table[o] = NoRow
  /\ table' = [table EXCEPT ![o] = CreateAccrual]
  /\ UNCHANGED <<brokerVars, tickVars, mainVars, procVars>>

Cancel ==
  /\ ~ctxDone
  /\ ctxDone' = TRUE
  /\ UNCHANGED <<brokerVars, table, tickVars, mainVars, limited, panicked, crashes>>

(* The process dies, by itself or after a panic, and is started again.     *)
Restart ==
  /\ crashes < MaxCrashes
  /\ crashes' = crashes + 1
  /\ tickPc' = Fresh.tickPc /\ batch' = Fresh.batch /\ cur' = Fresh.cur
  /\ job' = Fresh.job /\ info' = Fresh.info /\ closed' = FALSE
  /\ mainPc' = "select" /\ resp' = NoInfo
  /\ tickerOn' = TRUE /\ ordersClosed' = FALSE
  /\ limited' = FALSE /\ ctxDone' = FALSE /\ panicked' = FALSE
  /\ UNCHANGED <<calc, table>>

(* The steps of the agent and of the calculator.                           *)
AgentLearns(d) ==
  Learn(d) /\ UNCHANGED <<table, tickVars, mainVars, procVars>>

AgentFails(d, s) ==
  Fail(d, s) /\ UNCHANGED <<table, tickVars, mainVars, procVars>>

(* A 429: the agent waits for its workers and pauses.  What becomes of it  *)
(* after that is the subject of Agent.                                     *)
AgentLimited(d) ==
  /\ Fail(d, "CALCULATOR_FAILED")
  /\ limited' = TRUE
  /\ UNCHANGED <<table, tickVars, mainVars, ctxDone, panicked, crashes>>

AgentStops ==
  ctxDone /\ Close /\ UNCHANGED <<table, tickVars, mainVars, procVars>>

Calculates(o, v) ==
  Calculate(o, v) /\ UNCHANGED <<table, tickVars, mainVars, procVars>>

-----------------------------------------------------------------------------

TickStep(g) ==
  \/ TickFire(g)
  \/ TickQuery(g) \/ TickQueryFails(g)
  \/ \E o \in Orders, d \in Desks : TickSend(g, o, d)
  \/ TickPanic(g)
  \/ TickMark(g) \/ TickMarkUnknown(g) \/ TickMarkFails(g)

MainStep ==
  \/ \E d \in Desks : MainReceive(d)
  \/ MainApply \/ MainApplyUnknown \/ MainApplyFails
  \/ MainDone \/ MainStop

AgentStep ==
  \/ \E d \in Desks : AgentLearns(d)
  \/ \E d \in Desks, s \in FailureStatuses : AgentFails(d, s)
  \/ \E d \in Desks : AgentLimited(d)
  \/ AgentStops

Next ==
  \/ ~panicked /\ \E g \in Ticks : TickStep(g)
  \/ ~panicked /\ MainStep
  \/ ~panicked /\ AgentStep
  \/ ~panicked /\ \E o \in Orders : PostOrder(o)
  \/ ~panicked /\ Cancel
  \/ Restart
  \/ \E o \in Orders, v \in Verdict : Calculates(o, v)

Spec == Init /\ [][Next]_vars

(* The agent takes orders and asks: only as long as the calculator has not *)
(* answered a request with 429.  That its workers come back for the next   *)
(* order is WorkersComeBack of Agent; after a 429 they do not.             *)
Polls == ~panicked /\ ~limited

Asks(o) == Polls /\ \E d \in Desks : job[d] = o /\ AgentLearns(d)

ApplyFinal(o) ==
  ~panicked /\ resp.order = o /\ resp.status \in FinalVerdicts /\ MainApply

(* The ticker ticks, blocked senders on a channel are served in turn, a    *)
(* select with several ready branches takes each of them again and again.  *)
(* The database, the calculator and the way to it (the semaphore too) are  *)
(* not out of order for ever: an order that keeps being asked about gets   *)
(* an answer some time, and a final answer that keeps being stored is      *)
(* stored some time.                                                       *)
Fairness ==
  /\ \A g \in Ticks :
       /\ WF_vars(~panicked /\ TickFire(g))
       /\ SF_vars(~panicked /\ TickQuery(g))
       /\ SF_vars(Polls /\ \E o \in Orders, d \in Desks : TickSend(g, o, d))
       /\ WF_vars(~panicked /\ (TickMark(g) \/ TickMarkFails(g)))
  /\ \A d \in Desks : SF_vars(~panicked /\ MainReceive(d))
  /\ \A o \in Orders : SF_vars(Asks(o))
  /\ WF_vars(~panicked /\ (MainApply \/ MainApplyFails))
  /\ \A o \in Orders : SF_vars(ApplyFinal(o))

FairSpec == Spec /\ Fairness

-----------------------------------------------------------------------------
(* Properties.                                                             *)

(* Types, and which locals are set where a goroutine stands.               *)
TypeOK ==
  /\ calc \in [Orders -> Verdict]
  /\ job \in [Desks -> Orders \cup {NoOrder}]
  /\ info \in [Desks -> AccrualInfo \cup {NoInfo}]
  /\ closed \in BOOLEAN
  /\ table \in [Orders -> Row]
  /\ tickPc \in [Ticks -> {"idle", "query", "send", "mark"}]
  /\ batch \in [Ticks -> SUBSET Orders]
  /\ cur \in [Ticks -> Orders \cup {NoOrder}]
  /\ \A g \in Ticks : tickPc[g] = "mark" => cur[g] \in Orders
  /\ mainPc \in {"select", "apply", "stopped"}
  /\ resp \in AccrualInfo \cup {NoInfo}
  /\ mainPc = "apply" => resp \in AccrualInfo
  /\ tickerOn \in BOOLEAN /\ ordersClosed \in BOOLEAN
  /\ limited \in BOOLEAN /\ ctxDone \in BOOLEAN
  /\ panicked \in BOOLEAN /\ crashes \in 0 .. MaxCrashes

(* However answers are delayed, duplicated, stored twice, lost or read     *)
(* again after a restart, a row holds money only if the calculator has     *)
(* granted exactly that amount for that order, and only next to the status *)
(* PROCESSED; an order is INVALID only if the calculator refused it        *)
(* (watcher.go:85-116).                                                    *)
SettledAsCalculated ==
  \A o \in Orders :
    /\ Credited(table[o]) =>
         table[o].status = "PROCESSED"
           /\ calc[o] = [status |-> "PROCESSED", accrual |-> table[o].amount]
    /\ table[o].status = "INVALID" => calc[o].status = "INVALID"

(* Why it holds: what an answer on its way to the table says of a decided  *)
(* order is what the calculator has decided, because a decision stands     *)
(* (used by the proofs).                                                   *)
Known(i) ==
  /\ i.status \in FinalVerdicts => calc[i.order] = [status |-> i.status, accrual |-> i.accrual]
  /\ i.status # "PROCESSED" => i.accrual = NoAccrual

AnswersKnown ==
  /\ \A d \in Desks : info[d] # NoInfo => Known(info[d])
  /\ mainPc = "apply" => Known(resp)

(* An order that the calculator has decided about is settled in the table, *)
(* across lost updates, failed requests, calls that time out and restarts, *)
(* unless the process is told to stop or the calculator has answered with  *)
(* a 429: after that nothing obliges the agent to take an order again      *)
(* before the next restart.                                                *)
Settles ==
  \A o \in Orders :
    table[o] # NoRow /\ calc[o].status \in FinalVerdicts
      ~> table[o].status \in FinalStatuses \/ ctxDone \/ limited

(* SPECIFICATION.md:365, the statuses INVALID and PROCESSED are final: a   *)
(* settled order keeps its status.                                         *)
FinalIsFinal ==
  [][\A o \in Orders : table[o].status \in FinalStatuses =>
                          table'[o].status = table[o].status]_vars

(* SPECIFICATION.md:16, bonuses of an order that is calculated are         *)
(* credited; 365, an order may be calculated at any time.  A process that  *)
(* stops, or is paused by a 429, is not blamed for it.                     *)
CreditArrives ==
  \A o \in Orders :
    table[o] # NoRow /\ calc[o].accrual \in Amounts
      ~> table[o].amount = calc[o].accrual \/ ctxDone \/ limited

=============================================================================
