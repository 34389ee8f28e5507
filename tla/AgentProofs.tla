----------------------------- MODULE AgentProofs -----------------------------
(***************************************************************************)
(* What TLAPS proves about the agent, for any numbers of workers, orders,  *)
(* tokens, limits and any width of activeCount.                            *)
(***************************************************************************)
EXTENDS Agent, Integers, FiniteSetTheorems, TLAPS

LEMMA DivInNat ==
  ASSUME NEW a \in Nat, NEW b \in Nat \ {0}
  PROVE  a \div b \in Nat
  BY SMT

LEMMA ModInRange ==
  ASSUME NEW a \in Int, NEW b \in Nat \ {0}
  PROVE  a % b \in 0 .. b - 1
  BY SMT

(* An answer is an AccrualInfo about the order that was asked for.         *)
LEMMA DummyInfo ==
  ASSUME NEW o \in Orders, NEW s \in B!FailureStatuses
  PROVE  B!dummy(o, s) \in B!AccrualInfo /\ B!dummy(o, s).order = o
  BY DEF B!dummy, B!AccrualInfo, B!Accruals

LEMMA AnswerInfo ==
  ASSUME calc \in [Orders -> B!Verdict], NEW o \in Orders
  PROVE  B!Answer(o) \in B!AccrualInfo /\ B!Answer(o).order = o
<1>1. /\ calc[o].status \in {"UNREGISTERED", "REGISTERED", "PROCESSING", "INVALID",
                             "PROCESSED"}
      /\ calc[o].accrual \in B!Accruals
  BY DEF B!Verdict, B!Accruals
<1> QED
  BY <1>1 DEF B!Answer, B!dummy, B!AccrualInfo, B!Accruals

LEMMA NoInfoIsNone == B!NoInfo \notin B!AccrualInfo
  BY AgentAssumption DEF B!NoInfo, B!AccrualInfo, AgentAssumption

-----------------------------------------------------------------------------
(* Types.                                                                  *)

LEMMA InitTypeOK == Init => TypeOK
<1> SUFFICES ASSUME Init PROVE TypeOK
  OBVIOUS
<1>1. calc \in [Orders -> B!Verdict]
  BY DEF Init, B!BrokerInit, B!Unregistered, B!Verdict
<1>2. WorkerTypeOK
  BY DEF Init, B!BrokerInit, WorkerTypeOK, WorkerPCs, Occupied, Ready
<1>3. /\ apc \in AgentPCs
      /\ rate \in Nat /\ newMax \in Nat
      /\ semaCh \in Nat /\ capacity \in Nat
      /\ activeCount \in 0 .. CounterModulus - 1
      /\ reqBuf \in 0 .. RequestBuffer
  BY AgentAssumption DEF Init, AgentPCs, AgentAssumption
<1>4. /\ timerSet \in BOOLEAN /\ cancelled \in BOOLEAN /\ ctxDone \in BOOLEAN
      /\ blockAcquire \in BOOLEAN /\ rwOn \in BOOLEAN
  BY DEF Init
<1> QED
  BY <1>1, <1>2, <1>3, <1>4 DEF TypeOK

(* The locals of the workers through every step of a worker.               *)
LEMMA WorkerStepLocals ==
  ASSUME TypeOK, NEW w \in Workers, WorkerStep(w)
  PROVE  WorkerTypeOK'
<1> USE DEF WorkerTypeOK, Goto, Answered, workerVars, WorkerPCs, Occupied, Ready
<1>t. WorkerTypeOK /\ calc \in [Orders -> B!Verdict]
  BY DEF TypeOK
<1>f. "AGENT_FAILED" \in B!FailureStatuses /\ "CALCULATOR_FAILED" \in B!FailureStatuses
  BY DEF B!FailureStatuses
<1>1. CASE Quit(w)
  BY <1>1, <1>t DEF Quit
<1>2. CASE AcquireGate(w)
  BY <1>2, <1>t, <1>f, DummyInfo DEF AcquireGate
<1>3. CASE AcquireSlot(w)
  BY <1>3, <1>t DEF AcquireSlot
<1>4. CASE AcquireTimeout(w)
  BY <1>4, <1>t, <1>f, DummyInfo DEF AcquireTimeout
<1>5. CASE CountRequest(w)
  BY <1>5, <1>t DEF CountRequest
<1>6. CASE SendRequest(w)
  BY <1>6, <1>t, <1>f, DummyInfo DEF SendRequest
<1>7. CASE GetAnswer(w)
  BY <1>7, <1>t, AnswerInfo DEF GetAnswer
<1>8. ASSUME NEW tooMany \in BOOLEAN, GetError(w, tooMany) PROVE WorkerTypeOK'
  BY <1>8, <1>t, <1>f, DummyInfo DEF GetError
<1>9. CASE Release(w)
  BY <1>9, <1>t DEF Release
<1>10. CASE Report(w)
  BY <1>10, <1>t DEF Report
<1>11. CASE Check(w)
  BY <1>11, <1>t DEF Check
<1>12. CASE CancelAll(w)
  BY <1>12, <1>t DEF CancelAll
<1> QED
  BY <1>1, <1>2, <1>3, <1>4, <1>5, <1>6, <1>7, <1>8, <1>9, <1>10, <1>11, <1>12
  DEF WorkerStep

(* The shared variables that the steps of a worker may touch.              *)
LEMMA WorkerStepShared ==
  ASSUME TypeOK, NEW w \in Workers, WorkerStep(w)
  PROVE  /\ UNCHANGED <<calc, agentVars, ctxDone, capacity, blockAcquire, rwOn>>
         /\ cancelled' \in BOOLEAN
         /\ semaCh' \in Nat
         /\ activeCount' \in 0 .. CounterModulus - 1
         /\ reqBuf' \in 0 .. RequestBuffer
<1> USE DEF TypeOK, workerVars, agentVars, ctxVars, semaVars, countVars
<1>1. CASE Quit(w)
  BY <1>1 DEF Quit
<1>2. CASE AcquireGate(w)
  BY <1>2 DEF AcquireGate
<1>3. CASE AcquireSlot(w)
  BY <1>3 DEF AcquireSlot
<1>4. CASE AcquireTimeout(w)
  BY <1>4 DEF AcquireTimeout
<1>5. CASE CountRequest(w)
  BY <1>5, AgentAssumption DEF CountRequest, AgentAssumption
<1>6. CASE SendRequest(w)
  BY <1>6 DEF SendRequest
<1>7. CASE GetAnswer(w)
  BY <1>7 DEF GetAnswer
<1>8. ASSUME NEW tooMany \in BOOLEAN, GetError(w, tooMany)
      PROVE  UNCHANGED <<calc, agentVars, ctxVars, semaVars, countVars>>
  BY <1>8 DEF GetError
<1>9. CASE Release(w)
  <2>1. activeCount + CounterModulus - 1 \in Int
    BY AgentAssumption DEF AgentAssumption
  <2>2. (activeCount + CounterModulus - 1) % CounterModulus \in 0 .. CounterModulus - 1
    BY <2>1, ModInRange, AgentAssumption DEF AgentAssumption
  <2> QED
    BY <1>9, <2>2 DEF Release
<1>10. CASE Report(w)
  BY <1>10 DEF Report
<1>11. CASE Check(w)
  BY <1>11 DEF Check
<1>12. CASE CancelAll(w)
  BY <1>12 DEF CancelAll
<1> QED
  BY <1>1, <1>2, <1>3, <1>4, <1>5, <1>6, <1>7, <1>8, <1>9, <1>10, <1>11, <1>12
  DEF WorkerStep

LEMMA NextTypeOK == TypeOK /\ Phases /\ [Next]_vars => TypeOK'
<1> SUFFICES ASSUME TypeOK, Phases, [Next]_vars PROVE TypeOK'
  OBVIOUS
<1> USE DEF TypeOK, workerVars, agentVars, ctxVars, semaVars, countVars
<1>0. ASSUME UNCHANGED workerVars PROVE WorkerTypeOK'
  BY <1>0 DEF WorkerTypeOK, Occupied, Ready
<1>1. ASSUME NEW w \in Workers, WorkerStep(w) PROVE TypeOK'
  BY <1>1, WorkerStepLocals, WorkerStepShared
<1>2. ASSUME NEW w \in Workers, NEW o \in Orders, TakeJob(w, o) PROVE TypeOK'
  <2>1. WorkerTypeOK'
    BY <1>2 DEF TakeJob, WorkerTypeOK, Goto, WorkerPCs, Occupied, Ready
  <2> QED
    BY <1>2, <2>1 DEF TakeJob
<1>3. CASE DrainRequest
  BY <1>3, <1>0, AgentAssumption DEF DrainRequest, AgentAssumption
<1>4. CASE AgentStep
  <2>1. ASSUME NEW w \in Workers, NEW n \in RateLimits, ReceiveRate(w, n) PROVE TypeOK'
    <3>1. WorkerTypeOK'
      BY <2>1 DEF ReceiveRate, WorkerTypeOK, Goto, WorkerPCs, Occupied, Ready
    <3> QED
      BY <2>1, <3>1, AgentAssumption DEF ReceiveRate, AgentPCs, AgentAssumption
  <2>2. CASE Pause
    <3>1. WorkerTypeOK'
      BY <2>2, <1>0 DEF Pause
    <3>2. reqBuf' \in 0 .. RequestBuffer
      BY <2>2, AgentAssumption DEF Pause, AgentAssumption
    <3> QED
      BY <2>2, <3>1, <3>2 DEF Pause, AgentPCs
  <2>3. ASSUME NEW m \in MeasuredRPMs, TimerFires(m) PROVE TypeOK'
    <3>1. NewLimit(m) \in Nat
      BY DivInNat, AgentAssumption DEF NewLimit, AgentAssumption
    <3> QED
      BY <2>3, <3>1, <1>0 DEF TimerFires, AgentPCs
  <2>4. CASE Restart
    <3>1. WorkerTypeOK'
      BY <2>4 DEF Restart, WorkerTypeOK, WorkerPCs, Occupied, Ready,
                  Phases, QuietWhilePaused, AllOff
    <3> QED
      BY <2>4, <3>1 DEF Restart, AgentPCs
  <2>5. CASE StopRequested
    BY <2>5, <1>0 DEF StopRequested, AgentPCs
  <2>6. CASE CloseChannels
    BY <2>6, <1>0 DEF CloseChannels, AgentPCs
  <2> QED
    BY <1>4, <2>1, <2>2, <2>3, <2>4, <2>5, <2>6 DEF AgentStep
<1>5. CASE Cancel
  BY <1>5, <1>0 DEF Cancel
<1>6. ASSUME NEW o \in Orders, NEW v \in B!Verdict, Calculate(o, v) PROVE TypeOK'
  BY <1>6, <1>0 DEF Calculate, B!Calculate
<1>7. CASE UNCHANGED vars
  BY <1>7, <1>0 DEF vars
<1> QED
  BY <1>1, <1>2, <1>3, <1>4, <1>5, <1>6, <1>7 DEF Next

-----------------------------------------------------------------------------
(* The phases of Agent.Run.                                                *)

LEMMA InitPhases == Init => Phases
  BY DEF Init, Phases, QuietWhilePaused, CleanShutdown, SomebodyCounts

(* A worker that takes a step has not returned, and leaves the agent where *)
(* it is; nothing that Phases speaks about is disturbed.                   *)
LEMMA WorkerKeepsPhases ==
  ASSUME TypeOK, Phases, NEW w \in Workers, wpc[w] # "off",
         UNCHANGED <<agentVars, rwOn>>
  PROVE  Phases'
  BY DEF Phases, QuietWhilePaused, CleanShutdown, SomebodyCounts, AllOff, agentVars

LEMMA WorkerStepIsAwake ==
  ASSUME NEW w \in Workers, WorkerStep(w)
  PROVE  wpc[w] # "off"
  BY DEF WorkerStep, Quit, AcquireGate, AcquireSlot, AcquireTimeout, CountRequest,
         SendRequest, GetAnswer, GetError, Release, Report, Check, CancelAll

LEMMA NextPhases == TypeOK /\ Phases /\ [Next]_vars => Phases'
<1> SUFFICES ASSUME TypeOK, Phases, [Next]_vars PROVE Phases'
  OBVIOUS
<1> USE DEF workerVars, agentVars, ctxVars, semaVars, countVars
<1>0. ASSUME UNCHANGED <<wpc, agentVars, rwOn>> PROVE Phases'
  BY <1>0 DEF Phases, QuietWhilePaused, CleanShutdown, SomebodyCounts, AllOff
<1>1. ASSUME NEW w \in Workers, WorkerStep(w) PROVE Phases'
  BY <1>1, WorkerStepShared, WorkerStepIsAwake, WorkerKeepsPhases
<1>2. ASSUME NEW w \in Workers, NEW o \in Orders, TakeJob(w, o) PROVE Phases'
  BY <1>2, WorkerKeepsPhases DEF TakeJob
<1>3. CASE DrainRequest
  BY <1>3, <1>0 DEF DrainRequest
<1>4. CASE AgentStep
  <2> USE DEF Phases, QuietWhilePaused, CleanShutdown, SomebodyCounts, AllOff
  <2>1. ASSUME NEW w \in Workers, NEW n \in RateLimits, ReceiveRate(w, n) PROVE Phases'
    BY <2>1 DEF ReceiveRate
  <2>2. CASE Pause
    BY <2>2 DEF Pause
  <2>3. ASSUME NEW m \in MeasuredRPMs, TimerFires(m) PROVE Phases'
    BY <2>3 DEF TimerFires
  <2>4. CASE Restart
    BY <2>4 DEF Restart
  <2>5. CASE StopRequested
    BY <2>5 DEF StopRequested
  <2>6. CASE CloseChannels
    BY <2>6 DEF CloseChannels
  <2> QED
    BY <1>4, <2>1, <2>2, <2>3, <2>4, <2>5, <2>6 DEF AgentStep
<1>5. CASE Cancel
  BY <1>5, <1>0 DEF Cancel
<1>6. ASSUME NEW o \in Orders, NEW v \in B!Verdict, Calculate(o, v) PROVE Phases'
  BY <1>6, <1>0 DEF Calculate
<1>7. CASE UNCHANGED vars
  BY <1>7, <1>0 DEF vars
<1> QED
  BY <1>1, <1>2, <1>3, <1>4, <1>5, <1>6, <1>7 DEF Next

-----------------------------------------------------------------------------
(* Types and phases hold together: a restart is clean because nobody is    *)
(* left when it happens.                                                   *)
LEMMA TypesAndPhases == Spec => [](TypeOK /\ Phases)
<1>1. Init => TypeOK /\ Phases
  BY InitTypeOK, InitPhases
<1>2. TypeOK /\ Phases /\ [Next]_vars => (TypeOK /\ Phases)'
  BY NextTypeOK, NextPhases
<1> QED
  BY <1>1, <1>2, PTL DEF Spec

(* Every variable keeps its type, and every worker has an order and an     *)
(* answer exactly where workerpool.go:83-133 has them.                     *)
THEOREM TypeCorrect == Spec => []TypeOK
  BY TypesAndPhases, PTL

(* No worker exists between the end of wg.Wait at agent.go:82 and the      *)
(* restart at agent.go:98.                                                 *)
THEOREM Quiet == Spec => []QuietWhilePaused
<1>1. TypeOK /\ Phases => QuietWhilePaused
  BY DEF Phases
<1> QED
  BY <1>1, TypesAndPhases, PTL

(* The channels are closed (agent.go:76-78) when nobody can send on them.  *)
THEOREM ClosedCleanly == Spec => []CleanShutdown
<1>1. TypeOK /\ Phases => CleanShutdown
  BY DEF Phases
<1> QED
  BY <1>1, TypesAndPhases, PTL

(* While a worker exists, its counted requests are drained.                *)
THEOREM Counted == Spec => []SomebodyCounts
<1>1. TypeOK /\ Phases => SomebodyCounts
  BY DEF Phases
<1> QED
  BY <1>1, TypesAndPhases, PTL

(* pool.Start at agent.go:98 never adds workers to a generation that is    *)
(* still at work.                                                          *)
THEOREM OneGeneration == Spec => NoOverlappingGenerations
<1>1. ASSUME TypeOK, Phases, Next,
             NEW v \in Workers, wpc[v] = "off", wpc'[v] # "off"
      PROVE  AllOff
  <2> USE DEF workerVars, agentVars, ctxVars, semaVars, countVars
  <2>1. ASSUME NEW w \in Workers, WorkerStep(w) PROVE FALSE
    BY <1>1, <2>1 DEF TypeOK, WorkerTypeOK, Goto, WorkerStep, Quit, AcquireGate,
       AcquireSlot, AcquireTimeout, CountRequest, SendRequest, GetAnswer, GetError,
       Release, Report, Check, CancelAll
  <2>2. CASE Restart
    BY <2>2, <1>1 DEF Restart, Phases, QuietWhilePaused
  <2>3. ASSUME NEW w \in Workers, NEW o \in Orders, TakeJob(w, o) PROVE FALSE
    BY <1>1, <2>3 DEF TakeJob, Goto, TypeOK, WorkerTypeOK
  <2>4. ASSUME NEW w \in Workers, NEW n \in RateLimits, ReceiveRate(w, n) PROVE FALSE
    BY <1>1, <2>4 DEF ReceiveRate, Goto, TypeOK, WorkerTypeOK
  <2>5. CASE UNCHANGED wpc
    BY <2>5, <1>1
  <2> QED
    BY <1>1, <2>1, <2>2, <2>3, <2>4, <2>5 DEF Next, AgentStep, DrainRequest, Pause,
       TimerFires, StopRequested, CloseChannels, Cancel, Calculate
<1>2. TypeOK /\ Phases /\ [Next]_vars
        => [(\E w \in Workers : wpc[w] = "off" /\ wpc'[w] # "off") => AllOff]_vars
  BY <1>1
<1> QED
  BY <1>2, TypesAndPhases, PTL DEF Spec, NoOverlappingGenerations

-----------------------------------------------------------------------------
(* The semaphore.                                                          *)

LEMMA HoldersFinite == IsFiniteSet(Holders) /\ Cardinality(Holders) \in Nat
  BY AgentAssumption, FS_Subset, FS_CardinalityType DEF Holders, AgentAssumption

(* Only Acquire and Release move a worker over the edge of Holders.        *)
LEMMA WorkerStepHolders ==
  ASSUME TypeOK, NEW w \in Workers, WorkerStep(w)
  PROVE  \/ AcquireSlot(w) /\ w \notin Holders /\ Holders' = Holders \cup {w}
         \/ Release(w) /\ w \in Holders /\ Holders' = Holders \ {w}
         \/ Holders' = Holders /\ UNCHANGED semaCh
<1> USE DEF TypeOK, WorkerTypeOK, Holders, Holding, Goto, Answered, semaVars
<1>1. CASE Quit(w)
  BY <1>1 DEF Quit
<1>2. CASE AcquireGate(w)
  BY <1>2 DEF AcquireGate
<1>3. CASE AcquireSlot(w)
  BY <1>3 DEF AcquireSlot
<1>4. CASE AcquireTimeout(w)
  BY <1>4 DEF AcquireTimeout
<1>5. CASE CountRequest(w)
  BY <1>5 DEF CountRequest
<1>6. CASE SendRequest(w)
  BY <1>6 DEF SendRequest
<1>7. CASE GetAnswer(w)
  BY <1>7 DEF GetAnswer
<1>8. ASSUME NEW tooMany \in BOOLEAN, GetError(w, tooMany)
      PROVE  Holders' = Holders /\ UNCHANGED semaCh
  BY <1>8 DEF GetError
<1>9. CASE Release(w)
  BY <1>9 DEF Release
<1>10. CASE Report(w)
  BY <1>10 DEF Report
<1>11. CASE Check(w)
  BY <1>11 DEF Check
<1>12. CASE CancelAll(w)
  BY <1>12 DEF CancelAll
<1> QED
  BY <1>1, <1>2, <1>3, <1>4, <1>5, <1>6, <1>7, <1>8, <1>9, <1>10, <1>11, <1>12
  DEF WorkerStep

LEMMA InitLimit == Init => LimitRespected
<1> SUFFICES ASSUME Init PROVE LimitRespected
  OBVIOUS
<1>1. Holders = {}
  BY DEF Init, Holders, Holding
<1> QED
  BY <1>1, FS_EmptySet, AgentAssumption DEF Init, LimitRespected, AgentAssumption

LEMMA NextLimit == TypeOK /\ Phases /\ LimitRespected /\ [Next]_vars => LimitRespected'
<1> SUFFICES ASSUME TypeOK, Phases, LimitRespected, [Next]_vars PROVE LimitRespected'
  OBVIOUS
<1> USE DEF workerVars, agentVars, ctxVars, semaVars, countVars
<1>0. ASSUME Holders' = Holders, UNCHANGED <<semaCh, capacity>> PROVE LimitRespected'
  BY <1>0 DEF LimitRespected
<1>1. ASSUME NEW w \in Workers, WorkerStep(w) PROVE LimitRespected'
  <2>1. UNCHANGED capacity
    BY <1>1, WorkerStepShared
  <2>2. CASE AcquireSlot(w) /\ w \notin Holders /\ Holders' = Holders \cup {w}
    <3>1. Cardinality(Holders') = Cardinality(Holders) + 1
      BY <2>2, HoldersFinite, FS_AddElement
    <3> QED
      BY <2>1, <2>2, <3>1, HoldersFinite DEF AcquireSlot, LimitRespected, TypeOK
  <2>3. CASE Release(w) /\ w \in Holders /\ Holders' = Holders \ {w}
    <3>1. Cardinality(Holders') = Cardinality(Holders) - 1
      BY <2>3, HoldersFinite, FS_RemoveElement
    <3> QED
      BY <2>1, <2>3, <3>1, HoldersFinite DEF Release, LimitRespected, TypeOK
  <2> QED
    BY <1>0, <1>1, <2>1, <2>2, <2>3, WorkerStepHolders
<1>2. ASSUME NEW w \in Workers, NEW o \in Orders, TakeJob(w, o) PROVE LimitRespected'
  <2>1. Holders' = Holders
    BY <1>2 DEF TakeJob, Goto, Holders, Holding, TypeOK, WorkerTypeOK
  <2> QED
    BY <1>0, <1>2, <2>1 DEF TakeJob
<1>3. ASSUME NEW w \in Workers, NEW n \in RateLimits, ReceiveRate(w, n)
      PROVE  LimitRespected'
  <2>1. Holders' = Holders
    BY <1>3 DEF ReceiveRate, Goto, Holders, Holding, TypeOK, WorkerTypeOK
  <2> QED
    BY <1>0, <1>3, <2>1 DEF ReceiveRate
<1>4. CASE Restart
  <2>1. Holders' = {}
    BY <1>4 DEF Restart, Holders, Holding
  <2> QED
    BY <1>4, <2>1, FS_EmptySet DEF Restart, LimitRespected, TypeOK
<1>5. CASE UNCHANGED <<wpc, semaCh, capacity>>
  BY <1>5, <1>0 DEF Holders, Holding
<1> QED
  BY <1>1, <1>2, <1>3, <1>4, <1>5 DEF Next, AgentStep, DrainRequest, Pause, TimerFires,
     StopRequested, CloseChannels, Cancel, Calculate, vars

(* No error path of workerpool.go:92-108 loses or invents a token of the   *)
(* semaphore, and no more requests are in flight than the limit allows.    *)
THEOREM Limited == Spec => []LimitRespected
<1>1. Spec => [](TypeOK /\ Phases /\ LimitRespected)
  <2>1. Init => TypeOK /\ Phases /\ LimitRespected
    BY InitTypeOK, InitPhases, InitLimit
  <2>2. TypeOK /\ Phases /\ LimitRespected /\ [Next]_vars
          => (TypeOK /\ Phases /\ LimitRespected)'
    BY NextTypeOK, NextPhases, NextLimit
  <2> QED
    BY <2>1, <2>2, PTL DEF Spec
<1> QED
  BY <1>1, PTL

-----------------------------------------------------------------------------
(* The agent implements the broker.                                        *)

LEMMA WorkerStepIsBrokerStep ==
  ASSUME TypeOK, NEW w \in Workers, WorkerStep(w)
  PROVE  [B!BrokerNext]_(B!brokerVars)
<1> USE DEF Answered, workerVars
<1>s. UNCHANGED <<calc, apc>>
  BY WorkerStepShared DEF agentVars
<1>t. /\ Occupied(w) => job[w] \in Orders /\ job[w] # NoOrder
      /\ ~Ready(w) => info[w] = B!NoInfo
      /\ Ready(w) => info[w] # B!NoInfo
  BY NoInfoIsNone, AgentAssumption DEF TypeOK, WorkerTypeOK, AgentAssumption
<1>f. "AGENT_FAILED" \in B!FailureStatuses /\ "CALCULATOR_FAILED" \in B!FailureStatuses
  BY DEF B!FailureStatuses
<1>0. ASSUME UNCHANGED <<job, info>> PROVE UNCHANGED B!brokerVars
  BY <1>0, <1>s DEF B!brokerVars
<1>1. ASSUME NEW s \in B!FailureStatuses, Occupied(w), ~Ready(w), UNCHANGED job,
             Answered(w, B!dummy(job[w], s))
      PROVE  B!BrokerNext
  <2>1. B!Fail(w, s)
    BY <1>1, <1>s, <1>t DEF B!Fail
  <2> QED
    BY <2>1 DEF B!BrokerNext
<1>2. CASE Quit(w) \/ AcquireSlot(w) \/ CountRequest(w) \/ Release(w) \/ Check(w)
             \/ CancelAll(w)
  BY <1>2, <1>0 DEF Quit, AcquireSlot, CountRequest, Release, Check, CancelAll
<1>3. CASE AcquireGate(w) \/ AcquireTimeout(w) \/ SendRequest(w)
  BY <1>3, <1>0, <1>1, <1>f DEF AcquireGate, AcquireTimeout, SendRequest, Occupied, Ready
<1>4. ASSUME NEW tooMany \in BOOLEAN, GetError(w, tooMany)
      PROVE  [B!BrokerNext]_(B!brokerVars)
  BY <1>4, <1>1, <1>f DEF GetError, Occupied, Ready
<1>5. CASE GetAnswer(w)
  <2>1. B!Learn(w)
    BY <1>5, <1>s, <1>t DEF GetAnswer, B!Learn, Occupied, Ready
  <2> QED
    BY <2>1 DEF B!BrokerNext
<1>6. CASE Report(w)
  <2>1. B!Deliver(w)
    BY <1>6, <1>s, <1>t DEF Report, B!Deliver, Ready
  <2> QED
    BY <2>1 DEF B!BrokerNext
<1> QED
  BY <1>2, <1>3, <1>4, <1>5, <1>6 DEF WorkerStep

LEMMA StepIsBrokerStep ==
  TypeOK /\ Phases /\ [Next]_vars => [B!BrokerNext]_(B!brokerVars)
<1> SUFFICES ASSUME TypeOK, Phases, [Next]_vars PROVE [B!BrokerNext]_(B!brokerVars)
  OBVIOUS
<1> USE DEF workerVars, agentVars
<1>0. ASSUME UNCHANGED <<calc, job, info>>, (apc = "stopped") <=> (apc' = "stopped")
      PROVE  UNCHANGED B!brokerVars
  BY <1>0 DEF B!brokerVars
<1>1. ASSUME NEW w \in Workers, WorkerStep(w) PROVE [B!BrokerNext]_(B!brokerVars)
  BY <1>1, WorkerStepIsBrokerStep
<1>2. ASSUME NEW w \in Workers, NEW o \in Orders, TakeJob(w, o)
      PROVE  [B!BrokerNext]_(B!brokerVars)
  <2>1. apc # "stopped" /\ apc' # "stopped"
    BY <1>2 DEF TakeJob, Phases, CleanShutdown, AllOff
  <2>2. job[w] = NoOrder
    BY <1>2 DEF TakeJob, TypeOK, WorkerTypeOK, Occupied
  <2>3. B!Take(w, o)
    BY <1>2, <2>1, <2>2 DEF TakeJob, B!Take
  <2> QED
    BY <2>3 DEF B!BrokerNext
<1>3. ASSUME NEW w \in Workers, NEW n \in RateLimits, ReceiveRate(w, n)
      PROVE  UNCHANGED B!brokerVars
  BY <1>3, <1>0 DEF ReceiveRate
<1>4. CASE CloseChannels
  <2>1. \A w \in Workers : job[w] = NoOrder
    BY <1>4 DEF CloseChannels, AllOff, TypeOK, WorkerTypeOK, Occupied
  <2>2. B!Close
    BY <1>4, <2>1 DEF CloseChannels, B!Close
  <2> QED
    BY <2>2 DEF B!BrokerNext
<1>5. CASE Pause \/ Restart \/ StopRequested \/ DrainRequest \/ Cancel
  BY <1>5, <1>0 DEF Pause, Restart, StopRequested, DrainRequest, Cancel
<1>6. ASSUME NEW m \in MeasuredRPMs, TimerFires(m) PROVE UNCHANGED B!brokerVars
  BY <1>6, <1>0 DEF TimerFires
<1>7. ASSUME NEW o \in Orders, NEW v \in B!Verdict, Calculate(o, v) PROVE B!BrokerNext
  BY <1>7 DEF Calculate, B!BrokerNext
<1>8. CASE UNCHANGED vars
  BY <1>8, <1>0 DEF vars
<1> QED
  BY <1>1, <1>2, <1>3, <1>4, <1>5, <1>6, <1>7, <1>8 DEF Next, AgentStep

(* Every behaviour of Agent.Run and its workers is one that Broker allows: *)
(* one answer per order taken, about that order, and responsesCh closed    *)
(* behind the last of them.                                                *)
THEOREM Implements == Spec => ImplementsBroker
<1>1. Init => B!BrokerInit
  BY DEF Init
<1>2. TypeOK /\ Phases /\ [Next]_vars => [B!BrokerNext]_(B!brokerVars)
  BY StepIsBrokerStep
<1> QED
  BY <1>1, <1>2, TypesAndPhases, PTL DEF Spec, ImplementsBroker, B!BrokerSpec

=============================================================================
