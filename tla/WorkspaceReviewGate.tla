------------------------ MODULE WorkspaceReviewGate ------------------------
(***************************************************************************)
(* The abuse gate of the workspace review endpoint, for one principal: the *)
(* two Redis counters of enterWorkspaceReviewGate and the requests that    *)
(* enter and leave it in workspace-review-route.ts.  Each call of the      *)
(* store is one step, so a reply can be lost, a process can die and the    *)
(* slot counter can expire between any two of them.                        *)
(***************************************************************************)
EXTENDS Integers, FiniteSets

CONSTANTS
  Request,        \* concurrent invocations of the handler for the principal
  RateLimit,      \* rateLimitMax
  MaxConcurrent,  \* maxConcurrent
  SlowBody,       \* whether a request may wait for its body past the slot's TTL
  MaxGateFaults   \* bound on failed calls and deaths together

ASSUME RequestAssumption == IsFiniteSet(Request)
ASSUME LimitAssumption == RateLimit \in Nat \ {0} /\ MaxConcurrent \in Nat \ {0}
ASSUME SlowBodyAssumption == SlowBody \in BOOLEAN
ASSUME GateFaultsAssumption == MaxGateFaults \in Nat

VARIABLES
  handling,  \* where each request is in the handler
  used,      \* this window's rate counter, which is only compared with RateLimit
  slots,     \* the concurrency counter; an absent key is 0 without expiry
  expires,   \* whether the concurrency key has a TTL
  timed,     \* the requests in the gate since before that TTL was set
  leaked,    \* increments that no request will take back
  wiped,     \* whether the key ever expired under a request in the gate
  gateFaults

counterVars == <<slots, expires, timed>>
ghostVars == <<leaked, wiped>>
gateVars == <<handling, used, counterVars, ghostVars, gateFaults>>

Inside == {r \in Request : handling[r] \in {"reading", "analysing"}}
InGate == {r \in Request : handling[r] \in {"refused", "reading", "analysing"}}

GateInit ==
  /\ handling = [r \in Request |-> "out"]
  /\ used = 0
  /\ slots = 0 /\ expires = FALSE /\ timed = {}
  /\ leaked = 0 /\ wiped = FALSE
  /\ gateFaults = 0

Becomes(r, p) == handling' = [handling EXCEPT ![r] = p]
Fault == gateFaults < MaxGateFaults /\ gateFaults' = gateFaults + 1

-----------------------------------------------------------------------------
(* The store: one script for INCR with EXPIRE, and DECR.                   *)

\* Mutation: every increment sets the expiry.
EveryWrite(v) == TRUE

FirstWrite(v) == v = 1

Increment(r) ==
  /\ slots' = slots + 1
  /\ IF FirstWrite(slots + 1)
     THEN expires' = TRUE /\ timed' = InGate \cup {r}
     ELSE UNCHANGED <<expires, timed>>

\* DECR keeps the TTL, and leaves -1 without one where there was no key.
Decrement(r) ==
  /\ slots' = slots - 1
  /\ timed' = timed \ {r}
  /\ UNCHANGED expires

Count == used' = IF used > RateLimit THEN used ELSE used + 1

-----------------------------------------------------------------------------
(* The handler.                                                            *)

\* The rate counter: over the limit the request is answered 429 at once.
CountRequest(r) ==
  /\ handling[r] = "out"
  /\ Count
  /\ IF used >= RateLimit THEN UNCHANGED handling ELSE Becomes(r, "counted")
  /\ UNCHANGED <<counterVars, ghostVars, gateFaults>>

\* Mutation: one request more than the ceiling.
AdmitsOneMore(v) == v <= MaxConcurrent + 1

Admits(v) == v <= MaxConcurrent

TakeSlot(r) ==
  /\ handling[r] = "counted"
  /\ Increment(r)
  /\ Becomes(r, IF Admits(slots + 1) THEN "reading" ELSE "refused")
  /\ UNCHANGED <<used, ghostVars, gateFaults>>

\* Mutation: a refused request keeps the slot it took.
KeepSlot(r) ==
  /\ handling[r] = "refused"
  /\ Becomes(r, "out")
  /\ timed' = timed \ {r}
  /\ UNCHANGED <<used, slots, expires, ghostVars, gateFaults>>

HandBack(r) ==
  /\ handling[r] = "refused"
  /\ Decrement(r)
  /\ Becomes(r, "out")
  /\ UNCHANGED <<used, ghostVars, gateFaults>>

Analyse(r) ==
  /\ handling[r] = "reading"
  /\ Becomes(r, "analysing")
  /\ UNCHANGED <<used, counterVars, ghostVars, gateFaults>>

\* Mutation: release runs again when the answer is sent.
ReleaseTwice(r) ==
  /\ handling[r] \in {"reading", "analysing"}
  /\ slots' = slots - 2
  /\ timed' = timed \ {r}
  /\ Becomes(r, "out")
  /\ UNCHANGED <<used, expires, ghostVars, gateFaults>>

\* The finally block, on every way out of the handler.
Release(r) ==
  /\ handling[r] \in {"reading", "analysing"}
  /\ Decrement(r)
  /\ Becomes(r, "out")
  /\ UNCHANGED <<used, ghostVars, gateFaults>>

-----------------------------------------------------------------------------
(* Faults and time.                                                        *)

\* A counter call fails before it is applied: the gate fails closed.
CallFails(r) ==
  /\ handling[r] = "counted"
  /\ Fault
  /\ Becomes(r, "out")
  /\ UNCHANGED <<used, counterVars, ghostVars>>

\* The increment is applied and its answer never arrives.
ReplyLost(r) ==
  /\ handling[r] = "counted"
  /\ Fault
  /\ slots' = slots + 1
  /\ IF FirstWrite(slots + 1) THEN expires' = TRUE /\ timed' = InGate ELSE UNCHANGED <<expires, timed>>
  /\ leaked' = leaked + 1
  /\ Becomes(r, "out")
  /\ UNCHANGED <<used, wiped>>

\* The process dies in the gate, or its DECR fails.
LeaveSlot(r) ==
  /\ r \in InGate
  /\ Fault
  /\ leaked' = leaked + 1
  /\ timed' = timed \ {r}
  /\ Becomes(r, "out")
  /\ UNCHANGED <<used, slots, expires, wiped>>

\* The TTL exceeds the deadline: what was in the gate before it was set has left,
\* except a request still waiting for its body, which no deadline interrupts.
Expire ==
  /\ expires
  /\ \A r \in timed : SlowBody /\ handling[r] = "reading"
  /\ slots' = 0 /\ expires' = FALSE /\ timed' = {}
  /\ leaked' = 0
  /\ wiped' = (wiped \/ InGate # {})
  /\ UNCHANGED <<handling, used, gateFaults>>

\* The next window has a key of its own.
RollWindow ==
  /\ used > 0
  /\ used' = 0
  /\ UNCHANGED <<handling, counterVars, ghostVars, gateFaults>>

GateNext ==
  \/ \E r \in Request :
       \/ CountRequest(r) \/ TakeSlot(r) \/ HandBack(r) \/ Analyse(r) \/ Release(r)
       \/ CallFails(r) \/ ReplyLost(r) \/ LeaveSlot(r)
  \/ Expire \/ RollWindow

\* A request that is admitted or refused leaves, and time passes.
GateFairness ==
  /\ \A r \in Request : WF_gateVars(HandBack(r)) /\ WF_gateVars(Release(r))
  /\ WF_gateVars(Expire)

GateSpec == GateInit /\ [][GateNext]_gateVars
GateFairSpec == GateSpec /\ GateFairness
-----------------------------------------------------------------------------
(* The counter drifts neither below minus the requests in flight nor above *)
(* them and the leaks, whatever expires under them: each request takes     *)
(* back at most what it took (workspace-review-gate.ts:122-151).           *)
GateTypeOK ==
  /\ handling \in [Request -> {"out", "counted", "refused", "reading", "analysing"}]
  /\ used \in 0 .. RateLimit + 1
  /\ slots \in -Cardinality(Request) .. Cardinality(Request) + MaxGateFaults
  /\ expires \in BOOLEAN
  /\ timed \subseteq InGate
  /\ leaked \in 0 .. MaxGateFaults /\ wiped \in BOOLEAN /\ gateFaults \in 0 .. MaxGateFaults

(* The counter is exact until it expires under someone: one for every      *)
(* request in the gate and one for every leak, so a refused request leaves *)
(* no trace (workspace-review-gate.ts:128-137).                            *)
SlotsAreAccounted == ~wiped => slots = Cardinality(InGate) + leaked

(* The ceiling holds while no expiry has wiped the slot of a request that  *)
(* is still in the gate (workspace-review-gate.ts:122-137).                *)
CeilingHoldsUntilExpiry == ~wiped => Cardinality(Inside) <= MaxConcurrent

(* "A crashed request's slot always expires": a full gate opens again,     *)
(* however often refused requests knock (workspace-review-gate.ts:6-9).    *)
LeaksAreRecovered == slots >= MaxConcurrent ~> slots < MaxConcurrent

(* "A still-running review's slot is never handed out twice"               *)
(* (workspace-review-gate.ts:6-9).                                         *)
CeilingHolds == Cardinality(Inside) <= MaxConcurrent
=============================================================================
