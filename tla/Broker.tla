------------------------------- MODULE Broker -------------------------------
(***************************************************************************)
(* What the agent promises to the watcher, and nothing of how it keeps it: *)
(* an order number that was taken from ordersCh sits on one of finitely    *)
(* many desks (a worker) until exactly one AccrualInfo for that same order *)
(* leaves on responsesCh.  The answer is what the calculator said at some  *)
(* moment while the order was on the desk, or a failure.  responsesCh is   *)
(* closed only when every desk is clear.                                   *)
(*                                                                         *)
(* The calculator itself (cmd/accrual, a binary) is modelled from the      *)
(* protocol in SPECIFICATION.md and from what httpclient.go accepts.       *)
(* Agent.tla implements this module; Watcher.tla uses it as its            *)
(* environment.                                                            *)
(***************************************************************************)
EXTENDS Naturals

CONSTANTS
  Orders,       \* order numbers
  NoOrder,      \* "no order on this desk"
  Desks,        \* the places an order can be handled at
  Amounts,      \* accruals in kopecks that FromString can read
  NoAccrual,    \* the accrual field is absent
  BadAccrual    \* an accrual FromString refuses (e.g. three decimals)

ASSUME BrokerAssumption ==
  /\ NoOrder \notin Orders
  /\ Amounts \subseteq Nat \ {0}
  /\ NoAccrual \notin Nat /\ BadAccrual \notin Nat
  /\ NoAccrual # BadAccrual

VARIABLES
  calc,     \* the calculator's verdict on each order
  job,      \* the order on each desk
  info,     \* the answer that is ready to leave each desk
  closed    \* responsesCh is closed

brokerVars == <<calc, job, info, closed>>

Accruals == Amounts \cup {NoAccrual, BadAccrual}

FinalVerdicts == {"INVALID", "PROCESSED"}

Verdict ==
  [status : {"UNREGISTERED", "REGISTERED", "PROCESSING", "INVALID"},
   accrual : {NoAccrual}]
    \cup [status : {"PROCESSED"}, accrual : Accruals]

Unregistered == [status |-> "UNREGISTERED", accrual |-> NoAccrual]

FailureStatuses == {"AGENT_FAILED", "CALCULATOR_FAILED"}

AccrualInfo ==
  [order : Orders,
   status : {"REGISTERED", "PROCESSING", "INVALID", "PROCESSED", "NO_CONTENT"}
              \cup FailureStatuses,
   accrual : Accruals]

NoInfo == [order |-> NoOrder, status |-> "NONE", accrual |-> NoAccrual]

dummy(o, s) == [order |-> o, status |-> s, accrual |-> NoAccrual]

(* What GetOrderInfo brings back for o when the calculator is reachable.   *)
Answer(o) ==
  IF calc[o].status = "UNREGISTERED"
  THEN dummy(o, "NO_CONTENT")
  ELSE [order |-> o, status |-> calc[o].status, accrual |-> calc[o].accrual]

-----------------------------------------------------------------------------

BrokerInit ==
  /\ calc = [o \in Orders |-> Unregistered]
  /\ job = [d \in Desks |-> NoOrder]
  /\ info = [d \in Desks |-> NoInfo]
  /\ closed = FALSE

(* The calculator moves an order forward; INVALID and PROCESSED are final. *)
Calculate(o, v) ==
  /\ calc[o].status \notin FinalVerdicts
  /\ v.status # "UNREGISTERED"
  /\ v.status = "REGISTERED" => calc[o].status = "UNREGISTERED"
  /\ calc[o].status # "UNREGISTERED" \/ v.status = "REGISTERED"
  /\ v # calc[o]
  /\ calc' = [calc EXCEPT ![o] = v]
  /\ UNCHANGED <<job, info, closed>>

Take(d, o) ==
  /\ ~closed
  /\ job[d] = NoOrder
  /\ job' = [job EXCEPT ![d] = o]
  /\ UNCHANGED <<calc, info, closed>>

(* The calculator is asked, and answers.                                   *)
Learn(d) ==
  /\ job[d] # NoOrder /\ info[d] = NoInfo
  /\ info' = [info EXCEPT ![d] = Answer(job[d])]
  /\ UNCHANGED <<calc, job, closed>>

(* Semaphore timeout, transport error, 429, 5xx: reported as a failure.    *)
Fail(d, s) ==
  /\ s \in FailureStatuses
  /\ job[d] # NoOrder /\ info[d] = NoInfo
  /\ info' = [info EXCEPT ![d] = dummy(job[d], s)]
  /\ UNCHANGED <<calc, job, closed>>

Deliver(d) ==
  /\ info[d] # NoInfo
  /\ job' = [job EXCEPT ![d] = NoOrder]
  /\ info' = [info EXCEPT ![d] = NoInfo]
  /\ UNCHANGED <<calc, closed>>

Close ==
  /\ ~closed
  /\ \A d \in Desks : job[d] = NoOrder
  /\ closed' = TRUE
  /\ UNCHANGED <<calc, job, info>>

BrokerNext ==
  \/ \E o \in Orders, v \in Verdict : Calculate(o, v)
  \/ \E d \in Desks, o \in Orders : Take(d, o)
  \/ \E d \in Desks : Learn(d)
  \/ \E d \in Desks, s \in FailureStatuses : Fail(d, s)
  \/ \E d \in Desks : Deliver(d)
  \/ Close

BrokerSpec == BrokerInit /\ [][BrokerNext]_brokerVars

=============================================================================
