------------------------ MODULE RequestWatcherProofs ------------------------
(***************************************************************************)
(* What TLAPS proves about the request watcher, for any number of          *)
(* goroutines, requests and pauses.                                        *)
(***************************************************************************)
EXTENDS RequestWatcher, TLAPS

AllOff == \A g \in Drainers : ~Alive(g)

(* g is the only goroutine, and what it has not counted yet is in the      *)
(* buffer or in its hand.                                                  *)
Counts(g) ==
  /\ Alive(g) /\ \A h \in Drainers : Alive(h) => h = g
  /\ requestCount + buf + (IF pc[g] = "add" THEN 1 ELSE 0) = sent + carried
  /\ pc[g] = "add" => seen[g] = requestCount

AllCounted == AllOff /\ requestCount + buf = sent + carried

NoneStale == \A g \in Drainers : pc[g] # "stale"

Running == ~stopped /\ \E g \in Drainers : Counts(g)

(* Until the goroutine has seen that it is stopped, no tick passes.        *)
Pausing ==
  /\ stopped /\ startTime <= stoppedAt
  /\ \/ now = stoppedAt /\ \E g \in Drainers : Counts(g)
     \/ stopTime = stoppedAt /\ AllCounted

Measured ==
  /\ AllOff /\ startTime <= stoppedAt
  /\ rpm \in PerMinute(sent + carried - buf, stoppedAt - startTime)

(* While Start writes its fields there is nobody else to read them.        *)
Renewing ==
  /\ AllOff
  /\ phase \in {"count", "channel"} => requestCount = 0
  /\ phase = "channel" => ~stopped

Ordered ==
  ~rushed =>
    /\ NoneStale
    /\ phase = "run" => Running
    /\ phase = "pause" => Pausing
    /\ phase = "measured" => Measured
    /\ phase \in {"clock", "count", "channel"} => Renewing
    /\ OneDrainer

IInv == TypeOK /\ Ordered

LEMMA NextTypeOK ==
  ASSUME TypeOK, [Next]_vars
  PROVE  TypeOK'
<1> USE RequestWatcherAssumption
<1>1. ASSUME NEW g \in Drainers, Drain(g) PROVE TypeOK'
  <2>1. CASE EnterSelect(g)
    BY <2>1 DEF EnterSelect, Goto, TypeOK, agentVars, watcherVars, bufVars
  <2>2. CASE TakeStop(g)
    BY <2>2 DEF TakeStop, Goto, TypeOK, agentVars, bufVars
  <2>3. CASE TakeRequest(g)
    BY <2>3 DEF TakeRequest, Goto, TypeOK, agentVars, watcherVars
  <2>4. CASE AddRequest(g)
    BY <2>4 DEF AddRequest, Goto, TypeOK, agentVars, bufVars
  <2>5. CASE TakeClosed(g)
    BY <2>5 DEF TakeClosed, Goto, TypeOK, agentVars, watcherVars, bufVars
  <2> QED
    BY <1>1, <2>1, <2>2, <2>3, <2>4, <2>5 DEF Drain
<1>2. CASE Request
  BY <1>2 DEF Request, TypeOK, agentVars, watcherVars, drainVars
<1>3. ASSUME NEW r \in RetryAfters, Pause(r) PROVE TypeOK'
  BY <1>3 DEF Pause, Stop, TypeOK, drainVars, bufVars
<1>4. CASE Measure
  <2>1. requestCount * TicksPerMinute \in Nat
    BY DEF TypeOK
  <2>2. ASSUME NEW n \in Nat, NEW t \in Int PROVE PerMinute(n, t) \subseteq Int
    <3>1. n * TicksPerMinute \in Int
      OBVIOUS
    <3>2. CASE t = 0
      BY <3>1, <3>2 DEF PerMinute
    <3>3. CASE t > 0
      BY <3>1, <3>3 DEF PerMinute
    <3>4. CASE t < 0
      <4> DEFINE q == (n * TicksPerMinute) \div (-t)
      <4>1. q \in Int
        BY <3>1, <3>4
      <4> HIDE DEF q
      <4>2. (-q) % CounterModulus \in Int
        BY <4>1
      <4> QED
        BY <3>4, <4>2 DEF PerMinute, q
    <3> QED
      BY <3>2, <3>3, <3>4
  <2>3. stopTime # Never => stopTime - startTime \in Int
    BY DEF TypeOK
  <2>4. GetRPM \subseteq Int
    BY <2>2, <2>3 DEF GetRPM, TypeOK
  <2> QED
    BY <1>4, <2>4 DEF Measure, TypeOK, watcherVars, drainVars, bufVars
<1>5. CASE Starting
  <2>1. CASE StartClock
    BY <2>1 DEF StartClock, TypeOK, drainVars, bufVars
  <2>2. CASE StartCount
    BY <2>2 DEF StartCount, TypeOK, drainVars, bufVars
  <2>3. CASE StartChannel
    BY <2>3 DEF StartChannel, TypeOK, bufVars
  <2>4. CASE Start
    <3>1. pc' \in [Drainers -> {"off", "loop", "select", "stale", "add"}]
      BY <2>4 DEF Start, Goto, TypeOK
    <3> QED
      BY <2>4, <3>1 DEF Start, TypeOK, watcherVars
  <2> QED
    BY <1>5, <2>1, <2>2, <2>3, <2>4 DEF Starting
<1>6. CASE Close
  BY <1>6 DEF Close, TypeOK, watcherVars, drainVars, bufVars
<1>7. CASE Tick
  BY <1>7 DEF Tick, TypeOK, watcherVars, drainVars, bufVars
<1>8. CASE UNCHANGED vars
  BY <1>8 DEF vars, TypeOK, agentVars, watcherVars, drainVars, bufVars
<1> QED
  BY <1>1, <1>2, <1>3, <1>4, <1>5, <1>6, <1>7, <1>8 DEF Next

(* The step of a goroutine, while no pause has been too short.             *)
LEMMA DrainOrdered ==
  ASSUME IInv, NEW g \in Drainers, Drain(g), ~rushed
  PROVE  Ordered'
<1> USE DEF Alive, Goto
<1>1. UNCHANGED <<now, phase, rpm, stoppedAt, rushed, stopped, startTime, sent, carried>>
  BY DEF Drain, EnterSelect, TakeStop, TakeRequest, AddRequest, TakeClosed,
         agentVars, watcherVars, bufVars
<1>2. /\ Alive(g)
      /\ \A h \in Drainers : h # g => pc'[h] = pc[h] /\ seen'[h] = seen[h]
      /\ pc'[g] # "stale"
  BY DEF Drain, EnterSelect, TakeStop, TakeRequest, AddRequest, TakeClosed, IInv, TypeOK, drainVars
<1>3. NoneStale' /\ OneDrainer'
  BY <1>1, <1>2 DEF IInv, Ordered, NoneStale, OneDrainer
<1>4. phase \notin {"measured", "clock", "count", "channel"}
  BY <1>2 DEF IInv, Ordered, Measured, Renewing, AllOff
<1>5. \A h \in Drainers : Counts(h) => h = g
  BY <1>2 DEF Counts
<1>6. pc[g] # "stale"
  BY DEF IInv, Ordered, NoneStale
<1>7. ASSUME Counts(g), phase \in {"run", "pause"}
      PROVE  Counts(g)' \/ (stopTime' = now /\ stopped /\ AllCounted')
  <2>1. CASE EnterSelect(g)
    BY <2>1, <1>7 DEF EnterSelect, Counts, agentVars, watcherVars, bufVars, IInv, TypeOK
  <2>2. CASE TakeStop(g)
    BY <2>2, <1>6, <1>7 DEF TakeStop, Counts, AllCounted, AllOff, agentVars, bufVars, IInv, TypeOK
  <2>3. CASE TakeRequest(g)
    BY <2>3, <1>7 DEF TakeRequest, Counts, agentVars, watcherVars, IInv, TypeOK
  <2>4. CASE AddRequest(g)
    BY <2>4, <1>7 DEF AddRequest, Counts, agentVars, bufVars, IInv, TypeOK
  <2>5. CASE TakeClosed(g)
    BY <2>5, <1>7 DEF TakeClosed
  <2> QED
    BY <2>1, <2>2, <2>3, <2>4, <2>5 DEF Drain
<1>8. phase = "run" => Running'
  BY <1>1, <1>5, <1>7 DEF IInv, Ordered, Running
<1>9. phase = "pause" => Pausing'
  <2>1. phase = "pause" => now = stoppedAt /\ Counts(g) /\ stopped /\ startTime <= stoppedAt
    BY <1>2, <1>5 DEF IInv, Ordered, Pausing, AllCounted, AllOff
  <2> QED
    BY <1>1, <1>7, <2>1 DEF Pausing
<1> QED
  BY <1>1, <1>3, <1>4, <1>8, <1>9 DEF Ordered

LEMMA MeasureOrdered ==
  ASSUME IInv, Measure
  PROVE  Ordered'
<1> SUFFICES ASSUME ~rushed' PROVE Ordered'
  BY DEF Ordered
<1>1. ~rushed /\ now # stoppedAt /\ phase = "pause" /\ phase' = "measured" /\ rpm' \in GetRPM
  BY DEF Measure
<1>2. UNCHANGED <<pc, buf, sent, carried, stoppedAt, startTime>>
  BY DEF Measure, watcherVars, drainVars, bufVars
<1>3. stopTime = stoppedAt /\ AllCounted /\ startTime <= stoppedAt
  BY <1>1 DEF IInv, Ordered, Pausing
<1>4. stopTime # Never /\ requestCount = sent + carried - buf
  BY <1>3, RequestWatcherAssumption DEF AllCounted, IInv, TypeOK
<1>5. rpm' \in PerMinute(sent + carried - buf, stoppedAt - startTime)
  BY <1>1, <1>3, <1>4 DEF GetRPM
<1>6. Measured'
  BY <1>2, <1>3, <1>5 DEF Measured, AllCounted, AllOff, Alive, PerMinute
<1> QED
  BY <1>1, <1>2, <1>3, <1>6
     DEF Ordered, NoneStale, OneDrainer, AllCounted, AllOff, Alive

(* While the fields are written nobody is there, and nobody comes.         *)
LEMMA FieldsOrdered ==
  ASSUME IInv, StartClock \/ StartCount \/ StartChannel
  PROVE  Ordered'
<1> SUFFICES ASSUME ~rushed PROVE Ordered'
  BY DEF Ordered, StartClock, StartCount, StartChannel
<1>1. AllOff /\ (phase = "count" => requestCount = 0)
  BY DEF StartClock, StartCount, StartChannel, IInv, Ordered, Measured, Renewing
<1>2. \A g \in Drainers : pc'[g] = "off"
  BY <1>1 DEF StartClock, StartCount, StartChannel, AllOff, Alive, drainVars
<1>3. /\ phase' \in {"clock", "count", "channel"} /\ UNCHANGED rushed
      /\ phase' \in {"count", "channel"} => requestCount' = 0
      /\ phase' = "channel" => ~stopped'
  BY <1>1 DEF StartClock, StartCount, StartChannel
<1> QED
  BY <1>2, <1>3 DEF Ordered, NoneStale, Renewing, OneDrainer, AllOff, Alive

LEMMA StartOrdered ==
  ASSUME IInv, Start
  PROVE  Ordered'
<1> SUFFICES ASSUME ~rushed PROVE Ordered'
  BY DEF Ordered, Start
<1>1. AllOff /\ requestCount = 0 /\ ~stopped
  BY DEF Start, IInv, Ordered, Renewing
<1>2. PICK g \in Drainers : Goto(g, "loop")
  BY DEF Start
<1>3. \A h \in Drainers : pc'[h] = IF h = g THEN "loop" ELSE "off"
  BY <1>1, <1>2 DEF Goto, AllOff, Alive, IInv, TypeOK
<1>4. /\ requestCount' = 0 /\ sent' = 0 /\ carried' = buf /\ buf' = buf /\ buf \in Nat
      /\ ~stopped' /\ phase' = "run" /\ UNCHANGED rushed
  BY <1>1 DEF Start, watcherVars, IInv, TypeOK
<1>5. Counts(g)'
  BY <1>3, <1>4 DEF Counts, Alive
<1> QED
  BY <1>3, <1>4, <1>5 DEF Ordered, NoneStale, Running, OneDrainer, Alive

LEMMA NextOrdered ==
  ASSUME IInv, [Next]_vars
  PROVE  Ordered'
<1>1. ASSUME NEW g \in Drainers, Drain(g) PROVE Ordered'
  <2>1. UNCHANGED rushed
    BY <1>1 DEF Drain, EnterSelect, TakeStop, TakeRequest, AddRequest, TakeClosed, agentVars
  <2> QED
    BY <1>1, <2>1, DrainOrdered DEF Ordered
<1>2. CASE Request
  <2>1. /\ UNCHANGED <<agentVars, watcherVars, drainVars, carried>>
        /\ phase = "run" /\ buf' = buf + 1 /\ sent' = sent + 1
    BY <1>2 DEF Request
  <2>2. \A g \in Drainers : Counts(g) => Counts(g)'
    BY <2>1 DEF Counts, Alive, watcherVars, drainVars, IInv, TypeOK
  <2> QED
    BY <2>1, <2>2 DEF agentVars, watcherVars, drainVars, IInv, Ordered, NoneStale, Running, OneDrainer, Alive
<1>3. ASSUME NEW r \in RetryAfters, Pause(r) PROVE Ordered'
  <2>1. /\ UNCHANGED <<now, rpm, rushed, startTime, stopTime, requestCount, drainVars, bufVars>>
        /\ phase = "run" /\ phase' = "pause" /\ stopped' /\ stoppedAt' = now
    BY <1>3 DEF Pause, Stop
  <2>2. \A g \in Drainers : Counts(g) => Counts(g)'
    BY <2>1 DEF Counts, Alive, drainVars, bufVars
  <2>3. startTime <= now
    BY DEF IInv, TypeOK
  <2> QED
    BY <2>1, <2>2, <2>3
       DEF drainVars, bufVars, IInv, Ordered, NoneStale, Running, Pausing, OneDrainer, Alive
<1>4. CASE Measure
  BY <1>4, MeasureOrdered
<1>5. CASE Starting
  BY <1>5, FieldsOrdered, StartOrdered DEF Starting
<1>6. CASE Close
  BY <1>6 DEF Close, drainVars, IInv, Ordered, NoneStale, OneDrainer, Alive
<1>7. CASE Tick
  <2>1. /\ UNCHANGED <<phase, due, rpm, stoppedAt, rushed, watcherVars, drainVars, bufVars>>
        /\ \A g \in Drainers : ~Runnable(g)
        /\ phase \in {"run", "pause", "closed"}
    BY <1>7 DEF Tick
  <2>2. \A g \in Drainers : Counts(g) <=> Counts(g)'
    BY <2>1 DEF Counts, Alive, watcherVars, drainVars, bufVars
  <2>3. ~rushed /\ stopped => \A g \in Drainers : ~Alive(g)
    BY <2>1 DEF Runnable, Alive, IInv, TypeOK
  <2>4. ~rushed /\ phase = "pause" => stopTime = stoppedAt /\ AllCounted
    BY <2>3 DEF IInv, Ordered, Pausing, Counts
  <2>5. AllCounted => AllCounted'
    BY <2>1 DEF AllCounted, AllOff, Alive, watcherVars, drainVars, bufVars
  <2> QED
    BY <2>1, <2>2, <2>4, <2>5
       DEF watcherVars, drainVars, IInv, Ordered, NoneStale, Running, Pausing, OneDrainer, Alive
<1>8. CASE UNCHANGED vars
  BY <1>8 DEF vars, agentVars, watcherVars, drainVars, bufVars, IInv, Ordered, NoneStale, Running,
              Pausing, Measured, Renewing, OneDrainer, Counts, AllCounted, AllOff, Alive
<1> QED
  BY <1>1, <1>2, <1>3, <1>4, <1>5, <1>6, <1>7, <1>8 DEF Next

LEMMA InitIInv == Init => IInv
<1> SUFFICES ASSUME Init PROVE IInv
  OBVIOUS
<1>1. PICK g \in Drainers : pc = [h \in Drainers |-> IF h = g THEN "loop" ELSE "off"]
  BY DEF Init
<1>2. TypeOK
  <2>1. pc \in [Drainers -> {"off", "loop", "select", "stale", "add"}]
    BY <1>1
  <2>2. seen \in [Drainers -> Nat] /\ stopTime \in 0 .. now \cup {Never}
    BY DEF Init
  <2>3. /\ 0 \in 0 .. MaxTime /\ 0 \in 0 .. RequestBuffer /\ 0 \in 0 .. MaxRequests
        /\ 0 \in 0 .. 0
    BY RequestWatcherAssumption
  <2>4. /\ now \in 0 .. MaxTime /\ stoppedAt \in 0 .. now /\ startTime \in 0 .. now
        /\ due \in Nat /\ rpm \in Int /\ requestCount \in Nat
    BY <2>3 DEF Init
  <2>5. buf \in 0 .. RequestBuffer /\ carried \in 0 .. RequestBuffer /\ sent \in 0 .. MaxRequests
    BY <2>3 DEF Init
  <2>6. phase = "run" /\ rushed \in BOOLEAN /\ stopped \in BOOLEAN
    BY DEF Init
  <2> QED
    BY <2>1, <2>2, <2>4, <2>5, <2>6 DEF TypeOK
<1>3. Counts(g)
  BY <1>1 DEF Init, Counts, Alive
<1> QED
  BY <1>1, <1>2, <1>3 DEF Init, IInv, Ordered, NoneStale, Running, OneDrainer, Alive

LEMMA NextIInv == IInv /\ [Next]_vars => IInv'
  BY NextTypeOK, NextOrdered DEF IInv

(* The variables have their types, also with two goroutines counting.      *)
THEOREM TypeCorrect == Spec => []TypeOK
<1>1. IInv => TypeOK
  BY DEF IInv
<1> QED
  BY <1>1, InitIInv, NextIInv, PTL DEF Spec

(* Never two goroutines drain requestsCh, as long as every pause lasts     *)
(* long enough for the one before to see that it is stopped.               *)
THEOREM OneAtATime == Spec => []OneDrainer
<1>1. IInv => OneDrainer
  BY DEF IInv, Ordered, OneDrainer
<1> QED
  BY <1>1, InitIInv, NextIInv, PTL DEF Spec

(* Under the same condition the unsynchronised reads of GetRPM see what    *)
(* belongs to the generation that was paused, all of it and nothing else.  *)
THEOREM RateMeasured == Spec => []MeasuredTrue
<1>1. IInv => MeasuredTrue
  BY DEF IInv, Ordered, Measured, AllOff, MeasuredTrue
<1> QED
  BY <1>1, InitIInv, NextIInv, PTL DEF Spec

=============================================================================
