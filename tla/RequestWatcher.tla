--------------------------- MODULE RequestWatcher ---------------------------
(***************************************************************************)
(* The request watcher (requestwatcher.go): the goroutine that Start lets  *)
(* drain requestsCh, Stop, and GetRPM, driven by Agent.Run as in           *)
(* agent.go:44-103.  Nothing synchronises them: stop, requestCount,        *)
(* startTime and stopTime are fields that Agent.Run and the goroutine read *)
(* and write in steps of their own.                                        *)
(*                                                                         *)
(* The goroutine evaluates w.stop anew for every select.  If Start has     *)
(* replaced the channel before the goroutine has seen it closed, the       *)
(* goroutine does not stop.  So everything depends on how long the pause   *)
(* is, and there is a clock: a tick is 0.001 minutes, the tolerance of     *)
(* GetRPM, and a goroutine that can run does not let a tick pass.          *)
(***************************************************************************)
EXTENDS Integers

CONSTANTS
  Drainers,        \* bound on the goroutines alive at the same time
  RequestBuffer,   \* capacity of requestsCh
  RetryAfters,     \* what a 429 may ask for, in ticks
  TicksPerMinute,  \* 1000
  CounterModulus,  \* 2^64 in the build
  MaxRequests,     \* bound on the requests of one generation and on the count
  MaxTime,         \* bound on the clock
  Never            \* the zero time.Time

ASSUME RequestWatcherAssumption ==
  /\ RequestBuffer \in Nat \ {0}
  /\ RetryAfters \subseteq Nat
  /\ TicksPerMinute \in Nat \ {0} /\ CounterModulus \in Nat \ {0}
  /\ MaxRequests \in Nat /\ MaxTime \in Nat
  /\ Never \notin Int

VARIABLES
  now,
  phase,         \* what Agent.Run is doing
  due,           \* when its timer fires
  buf,           \* requests in requestsCh
  stopped,       \* the channel w.stop is closed
  startTime, stopTime, requestCount,
  pc,            \* where each goroutine is
  seen,          \* the requestCount it is about to add one to
  rpm,           \* what GetRPM has returned
  sent, carried, \* history: requests of this generation, and those that
                 \* were still in the buffer when it started
  stoppedAt,     \* history: when Stop was called
  rushed         \* history: some pause was over within the tick

agentVars == <<now, phase, due, rpm, stoppedAt, rushed>>
watcherVars == <<stopped, startTime, stopTime, requestCount>>
drainVars == <<pc, seen>>
bufVars == <<buf, sent, carried>>
vars == <<agentVars, watcherVars, drainVars, bufVars>>

Init ==
  /\ now = 0 /\ phase = "run" /\ due = 0 /\ rpm = 0
  /\ stoppedAt = 0 /\ rushed = FALSE
  /\ stopped = FALSE /\ startTime = 0 /\ stopTime = Never /\ requestCount = 0
  /\ \E g \in Drainers : pc = [h \in Drainers |-> IF h = g THEN "loop" ELSE "off"]
  /\ seen = [g \in Drainers |-> 0]
  /\ buf = 0 /\ sent = 0 /\ carried = 0

-----------------------------------------------------------------------------
(* The goroutine of Start.  In "stale" it waits in a select that was       *)
(* entered with the channel of an earlier generation, which is closed.     *)

Goto(g, where) == pc' = [pc EXCEPT ![g] = where]

EnterSelect(g) ==
  /\ pc[g] = "loop"
  /\ Goto(g, "select")
  /\ UNCHANGED <<agentVars, watcherVars, seen, bufVars>>

(* case <-w.stop                                                           *)
TakeStop(g) ==
  /\ pc[g] = "stale" \/ (pc[g] = "select" /\ stopped)
  /\ stopTime' = now
  /\ Goto(g, "off")
  /\ UNCHANGED <<agentVars, stopped, startTime, requestCount, seen, bufVars>>

(* case _, ok := <-w.requestsCh, and the read of w.requestCount++          *)
TakeRequest(g) ==
  /\ pc[g] \in {"select", "stale"} /\ buf > 0
  /\ buf' = buf - 1
  /\ seen' = [seen EXCEPT ![g] = requestCount]
  /\ Goto(g, "add")
  /\ UNCHANGED <<agentVars, watcherVars, sent, carried>>

(* the write of w.requestCount++                                           *)
AddRequest(g) ==
  /\ pc[g] = "add"
  /\ requestCount' = seen[g] + 1
  /\ seen' = [seen EXCEPT ![g] = 0]
  /\ Goto(g, "loop")
  /\ UNCHANGED <<agentVars, stopped, startTime, stopTime, bufVars>>

(* Mutant: ok is not looked at.                                            *)
TakeClosedLoops(g) ==
  /\ pc[g] \in {"select", "stale"} /\ phase = "closed" /\ buf = 0
  /\ Goto(g, "loop")
  /\ UNCHANGED <<agentVars, watcherVars, seen, bufVars>>

(* if !ok { return }                                                       *)
TakeClosed(g) ==
  /\ pc[g] \in {"select", "stale"} /\ phase = "closed" /\ buf = 0
  /\ Goto(g, "off")
  /\ UNCHANGED <<agentVars, watcherVars, seen, bufVars>>

Drain(g) ==
  EnterSelect(g) \/ TakeStop(g) \/ TakeRequest(g) \/ AddRequest(g) \/ TakeClosed(g)

-----------------------------------------------------------------------------
(* Agent.Run and the workers                                               *)

(* Mutant: the channel takes one request more than it has room for.        *)
RequestUnbounded ==
  /\ phase = "run" /\ sent < MaxRequests
  /\ buf' = buf + 1 /\ sent' = sent + 1
  /\ UNCHANGED <<agentVars, watcherVars, drainVars, carried>>

(* A worker counts its request, workerpool.go:103.                         *)
Request ==
  /\ phase = "run" /\ buf < RequestBuffer
  /\ \A n \in {sent, requestCount} \cup {seen[g] : g \in Drainers} : n < MaxRequests
  /\ buf' = buf + 1 /\ sent' = sent + 1
  /\ UNCHANGED <<agentVars, watcherVars, drainVars, carried>>

(* Mutant: Stop forgets to close the channel.                              *)
StopNot == UNCHANGED stopped

Stop == stopped' = TRUE

(* case rateData = <-rateDataCh, when the workers are gone.                *)
Pause(retryAfter) ==
  /\ phase = "run"
  /\ Stop
  /\ due' = now + retryAfter /\ stoppedAt' = now
  /\ phase' = "pause"
  /\ UNCHANGED <<now, rpm, rushed, startTime, stopTime, requestCount, drainVars, bufVars>>

(* uint64 of a float: exact from zero on, and up to the build below it.    *)
PerMinute(count, ticks) ==
  CASE ticks = 0 -> {count * TicksPerMinute}
    [] ticks > 0 -> {(count * TicksPerMinute) \div ticks}
    [] ticks < 0 -> {0, -((count * TicksPerMinute) \div (-ticks)) % CounterModulus}

(* The zero time is so far away that the quotient is truncated to zero.    *)
GetRPM ==
  IF stopTime = Never THEN {0} ELSE PerMinute(requestCount, stopTime - startTime)

(* case <-timer.C: currRPM := rpmWatcher.GetRPM()                          *)
Measure ==
  /\ phase = "pause" /\ now >= due
  /\ rpm' \in GetRPM
  /\ rushed' = (rushed \/ now = stoppedAt)
  /\ phase' = "measured"
  /\ UNCHANGED <<now, due, stoppedAt, watcherVars, drainVars, bufVars>>

(* rpmWatcher.Start(): three fields are written one after the other, a     *)
(* goroutine of an earlier generation may be running meanwhile.            *)
StartClock ==
  /\ phase = "measured" /\ phase' = "clock"
  /\ startTime' = now
  /\ UNCHANGED <<now, due, rpm, stoppedAt, rushed, stopped, stopTime, requestCount,
                 drainVars, bufVars>>

(* Mutant: requestCount keeps the requests of the generation before.       *)
StartCounting ==
  /\ phase = "clock" /\ phase' = "count"
  /\ UNCHANGED <<now, due, rpm, stoppedAt, rushed, watcherVars, drainVars, bufVars>>

StartCount ==
  /\ phase = "clock" /\ phase' = "count"
  /\ requestCount' = 0
  /\ UNCHANGED <<now, due, rpm, stoppedAt, rushed, stopped, startTime, stopTime,
                 drainVars, bufVars>>

(* w.stop is a new channel; who waits in a select waits for the old one.   *)
StartChannel ==
  /\ phase = "count" /\ phase' = "channel"
  /\ stopped' = FALSE
  /\ pc' = [g \in Drainers |-> IF pc[g] = "select" THEN "stale" ELSE pc[g]]
  /\ UNCHANGED <<now, due, rpm, stoppedAt, rushed, startTime, stopTime, requestCount,
                 seen, bufVars>>

(* go func(), and the workers of the next generation.                      *)
Start ==
  /\ phase = "channel" /\ phase' = "run"
  /\ \E g \in Drainers : pc[g] = "off" /\ Goto(g, "loop")
  /\ sent' = 0 /\ carried' = buf
  /\ UNCHANGED <<now, due, rpm, stoppedAt, rushed, watcherVars, seen, buf>>

Starting == StartClock \/ StartCount \/ StartChannel \/ Start

(* case <-ctx.Done(): close(requestsCh)                                    *)
Close ==
  /\ phase \in {"run", "pause"}
  /\ phase' = "closed"
  /\ UNCHANGED <<now, due, rpm, stoppedAt, rushed, watcherVars, drainVars, bufVars>>

Runnable(g) ==
  \/ pc[g] \in {"loop", "add", "stale"}
  \/ pc[g] = "select" /\ (stopped \/ buf > 0 \/ phase = "closed")

Tick ==
  /\ now < MaxTime /\ phase \in {"run", "pause", "closed"}
  /\ \A g \in Drainers : ~Runnable(g)
  /\ now' = now + 1
  /\ UNCHANGED <<phase, due, rpm, stoppedAt, rushed, watcherVars, drainVars, bufVars>>

Next ==
  \/ \E g \in Drainers : Drain(g)
  \/ Request
  \/ \E r \in RetryAfters : Pause(r)
  \/ Measure \/ Starting \/ Close \/ Tick

Spec == Init /\ [][Next]_vars

(* A goroutine that can run does.                                          *)
FairSpec == Spec /\ \A g \in Drainers : WF_vars(Drain(g))

-----------------------------------------------------------------------------
(* Properties.                                                             *)

TypeOK ==
  /\ now \in 0 .. MaxTime
  /\ phase \in {"run", "pause", "measured", "clock", "count", "channel", "closed"}
  /\ due \in Nat /\ rpm \in Int
  /\ stoppedAt \in 0 .. now /\ rushed \in BOOLEAN
  /\ stopped \in BOOLEAN
  /\ startTime \in 0 .. now /\ stopTime \in 0 .. now \cup {Never}
  /\ requestCount \in Nat
  /\ pc \in [Drainers -> {"off", "loop", "select", "stale", "add"}]
  /\ seen \in [Drainers -> Nat]
  /\ buf \in 0 .. RequestBuffer /\ carried \in 0 .. RequestBuffer
  /\ sent \in 0 .. MaxRequests

Alive(g) == pc[g] # "off"

(* Only one goroutine writes requestCount and stopTime, generation after   *)
(* generation, although Start does not wait for the one before             *)
(* (requestwatcher.go:39-43) - as long as every pause lasts a tick.        *)
OneDrainer ==
  ~rushed => \A g, h \in Drainers : Alive(g) /\ Alive(h) => g = h

(* What GetRPM returns is the rate of the generation that was paused: its  *)
(* own time from Start to Stop, nobody counting any more, and its own      *)
(* requests up to what the buffer held when it began and when it ended     *)
(* (requestwatcher.go:66-78) - as long as every pause lasts a tick.        *)
MeasuredTrue ==
  phase = "measured" /\ ~rushed =>
    /\ \A g \in Drainers : ~Alive(g)
    /\ startTime <= stoppedAt
    /\ rpm \in PerMinute(sent + carried - buf, stoppedAt - startTime)

(* No goroutine outlives the agent, not even one that has missed its stop  *)
(* (requestwatcher.go:50).                                                 *)
DrainersEnd == phase = "closed" ~> \A g \in Drainers : ~Alive(g)

=============================================================================
