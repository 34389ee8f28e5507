-------------------------------- MODULE Agent --------------------------------
(***************************************************************************)
(* The agent: Agent.Run (agent.go), the worker pool it starts and restarts *)
(* (workerpool.go), the semaphore the workers pass (semaphore.go) and the  *)
(* buffered channel on which they count their requests.                    *)
(*                                                                         *)
(* Unbuffered channels are rendezvous: a send and its receive are one      *)
(* step.  A goroutine blocked on a channel, on wg.Wait or on cond.Wait is  *)
(* a pc value whose action is not enabled.  sync.WaitGroup is the set of   *)
(* workers whose pc is not "off".  The mutex of the semaphore is held over *)
(* single steps only, so it is left implicit; cond.Wait gives it back.     *)
(***************************************************************************)
EXTENDS Naturals, FiniteSets

CONSTANTS
  Orders, NoOrder, Amounts, NoAccrual, BadAccrual,  \* see Broker
  Workers,          \* workerCount goroutines of one generation
  RequestBuffer,    \* capacity of requestsCh
  MaxRequestCount,  \* capacity of the semaphore before the first 429
  RateLimits,       \* N of "No more than N requests per minute allowed"
  MeasuredRPMs,     \* what RequestWatcher.GetRPM may return
  CounterModulus    \* 2^64 in the build: the width of activeCount

ASSUME AgentAssumption ==
  /\ NoOrder \notin Orders
  /\ IsFiniteSet(Workers)
  /\ RequestBuffer \in Nat \ {0}
  /\ MaxRequestCount \in Nat
  /\ RateLimits \subseteq Nat
  /\ MeasuredRPMs \subseteq Nat
  /\ CounterModulus \in Nat \ {0}

VARIABLES
  calc, job, info,  \* see Broker; job and info are locals of each worker
  wpc,              \* where each worker is
  limited,          \* the worker's last error is a TooManyRequestsError
  apc,              \* where Agent.Run is
  rate,             \* rateData.RPM of Agent.Run
  timerSet,         \* the Retry-After timer is running
  newMax,           \* newMaxRequestCount handed to ChangeMaxRequests
  cancelled,        \* workerCancel of the current generation was called
  ctxDone,          \* the context of the service is cancelled
  semaCh,           \* tokens in the semaphore's channel
  capacity,         \* capacity of that channel
  activeCount,      \* uint64, see Release
  blockAcquire,
  reqBuf,           \* requests counted into requestsCh and not yet drained
  rwOn              \* the goroutine of the request watcher is draining

workerVars == <<job, info, wpc, limited>>
agentVars == <<apc, rate, timerSet, newMax>>
ctxVars == <<cancelled, ctxDone>>
semaVars == <<semaCh, capacity, activeCount, blockAcquire>>
countVars == <<reqBuf, rwOn>>
vars == <<calc, workerVars, agentVars, ctxVars, semaVars, countVars>>

B == INSTANCE Broker WITH Desks <- Workers, closed <- (apc = "stopped")

Cancelled == cancelled \/ ctxDone

AllOff == \A w \in Workers : wpc[w] = "off"

Goto(w, pc) == wpc' = [wpc EXCEPT ![w] = pc]

Answered(w, i) == info' = [info EXCEPT ![w] = i]

-----------------------------------------------------------------------------

Init ==
  /\ wpc = [w \in Workers |-> "idle"]
  /\ limited = [w \in Workers |-> FALSE]
  /\ apc = "select" /\ B!BrokerInit
  /\ rate = 0 /\ timerSet = FALSE /\ newMax = 0
  /\ cancelled = FALSE /\ ctxDone = FALSE
  /\ semaCh = 0 /\ capacity = MaxRequestCount
  /\ activeCount = 0 /\ blockAcquire = FALSE
  /\ reqBuf = 0 /\ rwOn = TRUE

-----------------------------------------------------------------------------
(* One worker: the loop of WorkerPool.worker.                              *)

(* case <-ctx.Done()                                                       *)
Quit(w) ==
  /\ wpc[w] = "idle" /\ Cancelled
  /\ Goto(w, "off")
  /\ UNCHANGED <<calc, job, info, limited, agentVars, ctxVars, semaVars, countVars>>

(* case orderID, ok := <-pool.Jobs.  A select with both branches ready     *)
(* picks either, so a cancelled worker may still take an order.  Jobs is   *)
(* closed only after responsesCh is, when no worker is left to see it.     *)
TakeJob(w, o) ==
  /\ wpc[w] = "idle"
  /\ job' = [job EXCEPT ![w] = o]
  /\ Goto(w, "acquire")
  /\ UNCHANGED <<calc, info, limited, agentVars, ctxVars, semaVars, countVars>>

(* AcquireWithTimeout up to its select.                                    *)
AcquireGate(w) ==
  /\ wpc[w] = "acquire"
  /\ IF blockAcquire
     THEN Answered(w, B!dummy(job[w], "AGENT_FAILED")) /\ Goto(w, "report")
     ELSE Goto(w, "wait") /\ UNCHANGED info
  /\ UNCHANGED <<calc, job, limited, agentVars, ctxVars, semaVars, countVars>>

AcquireSlot(w) ==
  /\ wpc[w] = "wait"
  /\ semaCh < capacity
  /\ semaCh' = semaCh + 1
  /\ Goto(w, "count")
  /\ UNCHANGED <<calc, job, info, limited, agentVars, ctxVars, capacity,
                 activeCount, blockAcquire, countVars>>

(* Mutant: an Acquire that waits for a token as long as it takes.          *)
AcquireForEver(w) == wpc[w] = "wait" /\ FALSE

(* The timer and the token may both be ready: select picks either.         *)
AcquireTimeout(w) ==
  /\ wpc[w] = "wait"
  /\ Answered(w, B!dummy(job[w], "AGENT_FAILED"))
  /\ Goto(w, "report")
  /\ UNCHANGED <<calc, job, limited, agentVars, ctxVars, semaVars, countVars>>

(* pool.RequestCounter <- struct{}{}                                       *)
CountRequest(w) ==
  /\ wpc[w] = "count"
  /\ reqBuf < RequestBuffer
  /\ reqBuf' = reqBuf + 1
  /\ Goto(w, "request")
  /\ UNCHANGED <<calc, job, info, limited, agentVars, ctxVars, semaVars, rwOn>>

(* GetOrderInfo up to the wire: a request under a cancelled context fails  *)
(* before it is sent.                                                      *)
SendRequest(w) ==
  /\ wpc[w] = "request"
  /\ IF Cancelled
     THEN Answered(w, B!dummy(job[w], "CALCULATOR_FAILED")) /\ Goto(w, "release")
     ELSE Goto(w, "inflight") /\ UNCHANGED info
  /\ UNCHANGED <<calc, job, limited, agentVars, ctxVars, semaVars, countVars>>

(* 200 or 204                                                              *)
GetAnswer(w) ==
  /\ wpc[w] = "inflight"
  /\ Answered(w, B!Answer(job[w]))
  /\ Goto(w, "release")
  /\ UNCHANGED <<calc, job, limited, agentVars, ctxVars, semaVars, countVars>>

(* Mutant: an error path that returns before Release.                      *)
GetErrorKeepToken(w, tooMany) ==
  /\ wpc[w] = "inflight"
  /\ Answered(w, B!dummy(job[w], "CALCULATOR_FAILED"))
  /\ limited' = [limited EXCEPT ![w] = tooMany]
  /\ Goto(w, "report")
  /\ UNCHANGED <<calc, job, agentVars, ctxVars, semaVars, countVars>>

(* Any error; tooMany is TRUE for a 429 whose Retry-After and body could   *)
(* be parsed.                                                              *)
GetError(w, tooMany) ==
  /\ wpc[w] = "inflight"
  /\ Answered(w, B!dummy(job[w], "CALCULATOR_FAILED"))
  /\ limited' = [limited EXCEPT ![w] = tooMany]
  /\ Goto(w, "release")
  /\ UNCHANGED <<calc, job, agentVars, ctxVars, semaVars, countVars>>

(* Mutant: activeCount is signed.                                          *)
ReleaseSigned(w) ==
  /\ wpc[w] = "release"
  /\ semaCh > 0
  /\ semaCh' = semaCh - 1
  /\ activeCount' = activeCount - 1
  /\ Goto(w, "report")
  /\ UNCHANGED <<calc, job, info, limited, agentVars, ctxVars, capacity,
                 blockAcquire, countVars>>

(* Semaphore.Release.  activeCount is decremented here and incremented     *)
(* nowhere, so it wraps on the first release.                              *)
Release(w) ==
  /\ wpc[w] = "release"
  /\ semaCh > 0
  /\ semaCh' = semaCh - 1
  /\ activeCount' = (activeCount + CounterModulus - 1) % CounterModulus
  /\ Goto(w, "report")
  /\ UNCHANGED <<calc, job, info, limited, agentVars, ctxVars, capacity,
                 blockAcquire, countVars>>

(* Mutant: the "continue" of workerpool.go:115 is missing, so that a 204   *)
(* falls through to the report of an error.                                *)
ReportFallsThrough(w) ==
  /\ wpc[w] = "report"
  /\ IF info[w].status = "NO_CONTENT"
     THEN /\ Answered(w, B!dummy(job[w], "CALCULATOR_FAILED"))
          /\ UNCHANGED <<job, wpc>>
     ELSE /\ job' = [job EXCEPT ![w] = NoOrder]
          /\ Answered(w, B!NoInfo)
          /\ Goto(w, IF info[w].status = "CALCULATOR_FAILED" THEN "check" ELSE "idle")
  /\ UNCHANGED <<calc, limited, agentVars, ctxVars, semaVars, countVars>>

(* pool.Results <- ...                                                     *)
Report(w) ==
  /\ wpc[w] = "report"
  /\ job' = [job EXCEPT ![w] = NoOrder]
  /\ Answered(w, B!NoInfo)
  /\ Goto(w, IF info[w].status = "CALCULATOR_FAILED" THEN "check" ELSE "idle")
  /\ UNCHANGED <<calc, limited, agentVars, ctxVars, semaVars, countVars>>

(* Mutant: the "continue" after an error that is not a 429 is a "return".  *)
CheckReturns(w) ==
  /\ wpc[w] = "check"
  /\ Goto(w, IF ~Cancelled /\ limited[w] THEN "cancel" ELSE "off")
  /\ limited' = [limited EXCEPT ![w] = FALSE]
  /\ UNCHANGED <<calc, job, info, agentVars, ctxVars, semaVars, countVars>>

(* After an error was reported: if ctx.Err() != nil { return }, and on a    *)
(* 429 the generation is cancelled.  The test and the cancellation are two *)
(* steps: another worker may be between them as well.                      *)
Check(w) ==
  /\ wpc[w] = "check"
  /\ Goto(w, IF Cancelled THEN "off" ELSE IF limited[w] THEN "cancel" ELSE "idle")
  /\ limited' = [limited EXCEPT ![w] = FALSE]
  /\ UNCHANGED <<calc, job, info, agentVars, ctxVars, semaVars, countVars>>

CancelAll(w) ==
  /\ wpc[w] = "cancel"
  /\ cancelled' = TRUE
  /\ Goto(w, "rate")
  /\ UNCHANGED <<calc, job, info, limited, agentVars, ctxDone, semaVars, countVars>>

-----------------------------------------------------------------------------
(* The goroutine of the request watcher.                                   *)

DrainRequest ==
  /\ rwOn /\ reqBuf > 0
  /\ reqBuf' = reqBuf - 1
  /\ UNCHANGED <<calc, workerVars, agentVars, ctxVars, semaVars, rwOn>>

-----------------------------------------------------------------------------
(* Agent.Run                                                               *)

(* case rateData = <-rateDataCh: the worker that reported returns.         *)
ReceiveRate(w, n) ==
  /\ apc = "select" /\ wpc[w] = "rate"
  /\ rate' = n
  /\ apc' = "drain"
  /\ Goto(w, "off")
  /\ UNCHANGED <<calc, job, info, limited, timerSet, newMax, ctxVars, semaVars,
                 countVars>>

(* Mutant: the wg.Wait() of agent.go:82 is missing.                        *)
PauseAtOnce ==
  /\ apc = "drain"
  /\ rwOn' = FALSE
  /\ reqBuf' \in 0 .. reqBuf
  /\ timerSet' = TRUE
  /\ apc' = "select"
  /\ UNCHANGED <<calc, workerVars, rate, newMax, ctxVars, semaVars>>

(* wg.Wait(); rpmWatcher.Stop(); timer = time.NewTimer(...)                *)
(* Its select may still take requests before it takes the stop.            *)
Pause ==
  /\ apc = "drain" /\ AllOff
  /\ rwOn' = FALSE
  /\ reqBuf' \in 0 .. reqBuf
  /\ timerSet' = TRUE
  /\ apc' = "select"
  /\ UNCHANGED <<calc, workerVars, rate, newMax, ctxVars, semaVars>>

(* case <-timer.C, up to the loop of ChangeMaxRequests                     *)
NewLimit(measured) ==
  IF measured = 0 THEN MaxRequestCount ELSE rate \div measured

(* Mutant: the rpmWatcher.Start() of agent.go:96 is missing.               *)
TimerFiresUncounted(measured) ==
  /\ apc = "select" /\ timerSet
  /\ timerSet' = FALSE
  /\ newMax' = NewLimit(measured)
  /\ blockAcquire' = TRUE
  /\ apc' = "change"
  /\ UNCHANGED <<calc, workerVars, rate, ctxVars, semaCh, capacity, activeCount,
                 countVars>>

TimerFires(measured) ==
  /\ apc = "select" /\ timerSet
  /\ timerSet' = FALSE
  /\ newMax' = NewLimit(measured)
  /\ rwOn' = TRUE
  /\ blockAcquire' = TRUE
  /\ apc' = "change"
  /\ UNCHANGED <<calc, workerVars, rate, ctxVars, semaCh, capacity, activeCount,
                 reqBuf>>

(* for s.activeCount > 0 { s.cond.Wait() }, the new channel, pool.Start    *)
Restart ==
  /\ apc = "change"
  /\ activeCount = 0
  /\ semaCh' = 0 /\ capacity' = newMax
  /\ blockAcquire' = FALSE
  /\ wpc' = [w \in Workers |-> "idle"]
  /\ cancelled' = FALSE
  /\ apc' = "select"
  /\ UNCHANGED <<calc, job, info, limited, rate, timerSet, newMax, ctxDone,
                 activeCount, countVars>>

(* case <-ctx.Done()                                                       *)
StopRequested ==
  /\ apc = "select" /\ ctxDone
  /\ cancelled' = TRUE
  /\ apc' = "stopping"
  /\ UNCHANGED <<calc, workerVars, rate, timerSet, newMax, ctxDone, semaVars,
                 countVars>>

(* Mutant: the wg.Wait() of agent.go:75 is missing.                        *)
CloseChannelsAtOnce ==
  /\ apc = "stopping"
  /\ apc' = "stopped"
  /\ rwOn' = FALSE
  /\ timerSet' = FALSE
  /\ UNCHANGED <<calc, workerVars, rate, newMax, ctxVars, semaVars, reqBuf>>

(* wg.Wait(), then requestsCh, rateDataCh and responsesCh are closed       *)
CloseChannels ==
  /\ apc = "stopping" /\ AllOff
  /\ apc' = "stopped"
  /\ rwOn' = FALSE
  /\ timerSet' = FALSE
  /\ UNCHANGED <<calc, workerVars, rate, newMax, ctxVars, semaVars, reqBuf>>

-----------------------------------------------------------------------------
(* The environment: the service is told to stop, the calculator moves on.  *)

Cancel ==
  /\ ~ctxDone
  /\ ctxDone' = TRUE
  /\ UNCHANGED <<calc, workerVars, agentVars, cancelled, semaVars, countVars>>

Calculate(o, v) ==
  /\ UNCHANGED <<job, info, wpc, limited, agentVars, ctxVars, semaVars, countVars>>
  /\ B!Calculate(o, v)

-----------------------------------------------------------------------------

WorkerStep(w) ==
  \/ Quit(w)
  \/ AcquireGate(w) \/ AcquireSlot(w) \/ AcquireTimeout(w)
  \/ CountRequest(w) \/ SendRequest(w)
  \/ GetAnswer(w) \/ \E tooMany \in BOOLEAN : GetError(w, tooMany)
  \/ Release(w) \/ Report(w) \/ Check(w) \/ CancelAll(w)

AgentStep ==
  \/ \E w \in Workers, n \in RateLimits : ReceiveRate(w, n)
  \/ Pause
  \/ \E m \in MeasuredRPMs : TimerFires(m)
  \/ Restart
  \/ StopRequested
  \/ CloseChannels

Next ==
  \/ \E w \in Workers : WorkerStep(w)
  \/ \E w \in Workers, o \in Orders : TakeJob(w, o)
  \/ DrainRequest
  \/ AgentStep
  \/ Cancel
  \/ \E o \in Orders, v \in B!Verdict : Calculate(o, v)

Spec == Init /\ [][Next]_vars

(* Goroutines that can run do run, timers fire, an HTTP request ends by    *)
(* its own 500 ms timeout and the watcher receives what is reported.       *)
(* Senders blocked on a channel are served first come, first served, so a  *)
(* worker is not overtaken for ever at requestsCh.  Nothing obliges anyone *)
(* to hand in an order, to cancel or to calculate.                         *)
Fairness ==
  /\ \A w \in Workers : WF_vars(WorkerStep(w)) /\ SF_vars(CountRequest(w))
  /\ WF_vars(DrainRequest)
  /\ WF_vars(AgentStep)

FairSpec == Spec /\ Fairness

-----------------------------------------------------------------------------
(* Properties.                                                             *)

WorkerPCs == {"off", "idle", "acquire", "wait", "count", "request", "inflight",
              "release", "report", "check", "cancel", "rate"}

AgentPCs == {"select", "drain", "change", "stopping", "stopped"}

Occupied(w) == wpc[w] \in {"acquire", "wait", "count", "request", "inflight",
                            "release", "report"}

Ready(w) == wpc[w] \in {"release", "report"}

(* A worker has an order exactly from Jobs to Results, and an answer for   *)
(* that order exactly from GetOrderInfo (or a refused Acquire) to Results. *)
WorkerTypeOK ==
  /\ job \in [Workers -> Orders \cup {NoOrder}]
  /\ info \in [Workers -> B!AccrualInfo \cup {B!NoInfo}]
  /\ wpc \in [Workers -> WorkerPCs]
  /\ limited \in [Workers -> BOOLEAN]
  /\ \A w \in Workers :
       /\ IF Occupied(w) THEN job[w] \in Orders ELSE job[w] = NoOrder
       /\ IF Ready(w) THEN info[w] \in B!AccrualInfo /\ info[w].order = job[w]
                      ELSE info[w] = B!NoInfo

(* The types of the variables; activeCount and reqBuf stay in range.       *)
TypeOK ==
  /\ WorkerTypeOK
  /\ calc \in [Orders -> B!Verdict]
  /\ apc \in AgentPCs
  /\ rate \in Nat /\ newMax \in Nat /\ timerSet \in BOOLEAN
  /\ cancelled \in BOOLEAN /\ ctxDone \in BOOLEAN
  /\ semaCh \in Nat /\ capacity \in Nat
  /\ activeCount \in 0 .. CounterModulus - 1 /\ blockAcquire \in BOOLEAN
  /\ reqBuf \in 0 .. RequestBuffer /\ rwOn \in BOOLEAN

(* After a 429 no goroutine of the pool exists until the timer has fired   *)
(* and the semaphore is replaced (agent.go:81-98): nothing is requested    *)
(* during Retry-After, and a semaphore is never replaced under a holder.   *)
QuietWhilePaused ==
  (apc = "select" /\ timerSet) \/ apc = "change" => AllOff

(* responsesCh, requestsCh and rateDataCh are closed when no worker is     *)
(* left that could send on them (agent.go:75-78).                          *)
CleanShutdown == apc = "stopped" => AllOff

Holding(w) == wpc[w] \in {"count", "request", "inflight", "release"}

Holders == {w \in Workers : Holding(w)}

(* The tokens in the semaphore are those of the workers between Acquire    *)
(* and Release (workerpool.go:92-108), whatever error path they took, and  *)
(* the limit of the generation bounds the requests in flight.              *)
LimitRespected ==
  /\ semaCh = Cardinality(Holders)
  /\ semaCh <= capacity

(* A worker counts into requestsCh only while somebody drains it, so that  *)
(* the send at workerpool.go:103 cannot block for good.                    *)
SomebodyCounts == ~AllOff => rwOn

(* Why the four hold: the phases of Agent.Run (used by the proofs).        *)
Phases ==
  /\ QuietWhilePaused
  /\ CleanShutdown
  /\ SomebodyCounts
  /\ apc = "change" => ~timerSet /\ rwOn

(* A new generation of workers (agent.go:98) starts only when nobody of    *)
(* the previous one is left.                                               *)
NoOverlappingGenerations ==
  [][(\E w \in Workers : wpc[w] = "off" /\ wpc'[w] # "off") => AllOff]_vars

(* Whatever a worker meets - a blocked or exhausted semaphore, a full      *)
(* counter, an error, a cancellation - it answers the order it took.       *)
EveryJobAnswered ==
  \A w \in Workers : job[w] # NoOrder ~> job[w] = NoOrder

(* While a generation is not cancelled its workers come back to Jobs,      *)
(* whatever has become of the order before: a timeout of the semaphore, an *)
(* error, a 204, a counter that was full (workerpool.go:83-133).  What     *)
(* Watcher assumes of the agent until the first 429 is this.               *)
WorkersComeBack ==
  \A w \in Workers : wpc[w] # "off" ~> wpc[w] = "idle" \/ Cancelled

(* The agent keeps the promise its clients rely on: see Broker.            *)
ImplementsBroker == B!BrokerSpec

(* agent.go:101 logs "restarted requesting" when the Retry-After timer has *)
(* fired; SPECIFICATION.md:351-361 has the service wait and go on.         *)
RequestingResumes == apc = "change" ~> apc # "change"

(* agent.go:75 and :82 wait for all workers: one 429 cancels the           *)
(* generation and a single report is expected of it                        *)
(* (workerpool_start_test.go:189), so that the agent gets to its pause, and *)
(* a cancelled agent closes its channels and returns (agent.go:76-80).     *)
WaitsEnd == apc \in {"drain", "stopping"} ~> apc \in {"select", "stopped"}

=============================================================================
