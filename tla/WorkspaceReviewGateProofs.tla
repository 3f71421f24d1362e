----------------------- MODULE WorkspaceReviewGateProofs -----------------------
(***************************************************************************)
(* That the slot counter is exact, and the ceiling holds, until the        *)
(* counter expires under a request, for any requests, limits and faults.   *)
(***************************************************************************)
EXTENDS WorkspaceReviewGate, FiniteSetTheorems, TLAPS

Stages == {"out", "counted", "refused", "reading", "analysing"}

(* The counter is no more than the requests in the gate and the leaks, and *)
(* an expiry takes from it no more than the requests that could be there:  *)
(* so each of them may still take its own back.                            *)
CounterIsBounded ==
  /\ slots \in Int /\ leaked \in Nat /\ gateFaults \in Nat
  /\ slots <= Cardinality(InGate) + leaked
  /\ Cardinality(InGate) <= slots + Cardinality(Request)
  /\ leaked <= gateFaults /\ gateFaults <= MaxGateFaults

GateInv == GateTypeOK /\ CounterIsBounded /\ SlotsAreAccounted /\ CeilingHoldsUntilExpiry

-----------------------------------------------------------------------------
(* The requests in the gate, and inside, are finitely many.                *)
LEMMA GateIsFinite ==
  /\ IsFiniteSet(InGate) /\ Cardinality(InGate) \in Nat
  /\ IsFiniteSet(Inside) /\ Cardinality(Inside) \in Nat
  /\ Cardinality(Inside) <= Cardinality(InGate)
  /\ Cardinality(InGate) <= Cardinality(Request) /\ Cardinality(Request) \in Nat
<1>1. Inside \subseteq InGate /\ InGate \subseteq Request
  BY DEF Inside, InGate
<1> QED
  BY <1>1, RequestAssumption, FS_Subset, FS_CardinalityType

(* Who takes a slot is one more in the gate.                               *)
LEMMA OneEnters ==
  ASSUME NEW r \in Request, handling \in [Request -> Stages], handling[r] = "counted",
         NEW p \in {"reading", "refused"}, Becomes(r, p)
  PROVE  /\ Cardinality(InGate') = Cardinality(InGate) + 1
         /\ InGate' = InGate \cup {r} /\ Inside' \subseteq Inside \cup {r}
         /\ p = "refused" => Inside' = Inside
<1>1. InGate' = InGate \cup {r} /\ r \notin InGate
  BY DEF InGate, Becomes
<1>2. Inside' \subseteq Inside \cup {r} /\ (p = "refused" => Inside' = Inside)
  BY DEF Inside, Becomes
<1> QED
  BY <1>1, <1>2, GateIsFinite, FS_AddElement

(* Who leaves is one less, and is not inside any more.                     *)
LEMMA OneLeaves ==
  ASSUME NEW r \in Request, handling \in [Request -> Stages], r \in InGate, Becomes(r, "out")
  PROVE  /\ Cardinality(InGate') = Cardinality(InGate) - 1
         /\ InGate' = InGate \ {r} /\ Cardinality(Inside') <= Cardinality(Inside)
<1>1. InGate' = InGate \ {r} /\ Inside' \subseteq Inside
  BY DEF InGate, Inside, Becomes
<1> QED
  BY <1>1, GateIsFinite, FS_RemoveElement, FS_Subset

(* What the bounds leave of the counters' types.                           *)
LEMMA BoundsAreTypes ==
  ASSUME NEW s \in Int, NEW l \in Nat, NEW f \in Nat, NEW g \in Nat,
         s <= g + l, g <= s + Cardinality(Request), g <= Cardinality(Request),
         l <= f, f <= MaxGateFaults
  PROVE  /\ s \in -Cardinality(Request) .. Cardinality(Request) + MaxGateFaults
         /\ l \in 0 .. MaxGateFaults /\ f \in 0 .. MaxGateFaults
<1>1. Cardinality(Request) \in Nat /\ MaxGateFaults \in Nat
  BY GateIsFinite, GateFaultsAssumption
<1>2. -Cardinality(Request) <= s /\ s <= Cardinality(Request) + MaxGateFaults
  BY <1>1
<1> QED
  BY <1>1, <1>2

(* Nobody in the gate at first.                                            *)
LEMMA GateStarts == GateInit => GateInv
<1> SUFFICES ASSUME GateInit PROVE GateInv
  OBVIOUS
<1>1. InGate = {} /\ Inside = {}
  BY DEF GateInit, InGate, Inside
<1>2. Cardinality(InGate) = 0 /\ Cardinality(Inside) = 0
  BY <1>1, FS_EmptySet
<1>3. CounterIsBounded
  BY <1>2, GateIsFinite, GateFaultsAssumption DEF GateInit, CounterIsBounded
<1>4. SlotsAreAccounted /\ CeilingHoldsUntilExpiry
  BY <1>2, LimitAssumption DEF GateInit, SlotsAreAccounted, CeilingHoldsUntilExpiry
<1>5. GateTypeOK
  <2>1. -Cardinality(Request) <= 0 /\ 0 <= Cardinality(Request) + MaxGateFaults
    BY GateIsFinite, GateFaultsAssumption
  <2>2. 0 \in -Cardinality(Request) .. Cardinality(Request) + MaxGateFaults
    BY <2>1, GateIsFinite, GateFaultsAssumption
  <2>3. 0 \in 0 .. MaxGateFaults /\ 0 \in 0 .. RateLimit + 1
    BY GateFaultsAssumption, LimitAssumption
  <2> QED
    BY <2>2, <2>3 DEF GateInit, GateTypeOK
<1> QED
  BY <1>3, <1>4, <1>5 DEF GateInv

(* Nobody but requests is in the gate.                                     *)
LEMMA InGateStays == Cardinality(InGate') \in Nat /\ Cardinality(InGate') <= Cardinality(Request)
<1>1. InGate' \in SUBSET Request
  BY DEF InGate
<1> QED
  BY <1>1, RequestAssumption, FS_Subset, FS_CardinalityType

(* The rate counter saturates.                                             *)
LEMMA CountStays ==
  ASSUME used \in 0 .. RateLimit + 1, Count
  PROVE  used' \in 0 .. RateLimit + 1
  BY LimitAssumption DEF Count

(* A request takes a slot: it is admitted only where the counter, and so   *)
(* the gate, has room.                                                     *)
LEMMA TakeSlotKeeps ==
  ASSUME GateInv, NEW r \in Request, TakeSlot(r)
  PROVE  GateInv'
<1> USE DEF GateInv, GateTypeOK, CounterIsBounded, Stages
<1>1. PICK p \in {"reading", "refused"} :
        Becomes(r, p) /\ (p = "reading" => slots + 1 <= MaxConcurrent)
  BY DEF TakeSlot, Admits
<1>2. handling[r] = "counted" /\ slots' = slots + 1 /\ UNCHANGED <<used, leaked, wiped, gateFaults>>
      /\ (timed' = InGate \cup {r} \/ timed' = timed) /\ expires' \in BOOLEAN
  BY DEF TakeSlot, Increment, ghostVars
<1>3. /\ Cardinality(InGate') = Cardinality(InGate) + 1
      /\ InGate' = InGate \cup {r} /\ Inside' \subseteq Inside \cup {r}
      /\ p = "refused" => Inside' = Inside
  BY <1>1, <1>2, OneEnters
<1>4. CounterIsBounded'
  BY <1>2, <1>3, GateIsFinite
<1>5. SlotsAreAccounted'
  BY <1>2, <1>3, GateIsFinite DEF SlotsAreAccounted
<1>6. CeilingHoldsUntilExpiry'
  <2> SUFFICES ASSUME ~wiped PROVE Cardinality(Inside') <= MaxConcurrent
    BY <1>2 DEF CeilingHoldsUntilExpiry
  <2>1. CASE p = "refused"
    BY <1>3, <2>1 DEF CeilingHoldsUntilExpiry
  <2>2. CASE p = "reading"
    <3>1. Cardinality(Inside') <= Cardinality(InGate')
      <4>1. Inside' \subseteq InGate'
        BY DEF Inside, InGate
      <4> QED
        BY <1>3, <4>1, GateIsFinite, FS_AddElement, FS_Subset
    <3>2. Cardinality(InGate') <= slots + 1
      BY <1>3, GateIsFinite DEF SlotsAreAccounted
    <3>3. Cardinality(Inside') \in Nat /\ Cardinality(InGate') \in Nat
      <4>1. Inside' \subseteq InGate \cup {r}
        BY <1>3 DEF Inside, InGate
      <4> QED
        BY <1>3, <4>1, GateIsFinite, FS_AddElement, FS_Subset, FS_CardinalityType
    <3> QED
      BY <1>1, <2>2, <3>1, <3>2, <3>3, LimitAssumption
  <2> QED
    BY <2>1, <2>2
<1>7. GateTypeOK'
  <2>1. handling' \in [Request -> Stages]
    BY <1>1 DEF Becomes
  <2>2. timed' \subseteq InGate'
    BY <1>2, <1>3
  <2>3. slots' \in -Cardinality(Request) .. Cardinality(Request) + MaxGateFaults
    BY <1>2, <1>3, <1>4, GateIsFinite, BoundsAreTypes, InGateStays
  <2> QED
    BY <1>2, <1>4, <2>1, <2>2, <2>3
<1> QED
  BY <1>4, <1>5, <1>6, <1>7

(* A request gives its slot back, or dies and leaves a leak.                *)
LEMMA LeavingKeeps ==
  ASSUME GateInv, NEW r \in Request, HandBack(r) \/ Release(r) \/ LeaveSlot(r)
  PROVE  GateInv'
<1> USE DEF GateInv, GateTypeOK, CounterIsBounded, Stages
<1>1. /\ r \in InGate /\ Becomes(r, "out") /\ timed' = timed \ {r}
      /\ UNCHANGED <<used, expires, wiped>>
  BY DEF HandBack, Release, LeaveSlot, Decrement, InGate, ghostVars
<1>2. \/ slots' = slots - 1 /\ UNCHANGED <<leaked, gateFaults>>
      \/ /\ slots' = slots /\ leaked' = leaked + 1
         /\ gateFaults' = gateFaults + 1 /\ gateFaults < MaxGateFaults
  BY DEF HandBack, Release, LeaveSlot, Decrement, Fault, ghostVars
<1>3. /\ Cardinality(InGate') = Cardinality(InGate) - 1
      /\ InGate' = InGate \ {r} /\ Cardinality(Inside') <= Cardinality(Inside)
  BY <1>1, OneLeaves
<1>4. CounterIsBounded'
  BY <1>2, <1>3, GateIsFinite, GateFaultsAssumption
<1>5. SlotsAreAccounted'
  BY <1>1, <1>2, <1>3, GateIsFinite DEF SlotsAreAccounted
<1>6. CeilingHoldsUntilExpiry'
  <2>1. Cardinality(Inside') \in Nat
    <3>1. Inside' \subseteq Inside
      BY <1>1 DEF Inside, Becomes
    <3> QED
      BY <3>1, GateIsFinite, FS_Subset, FS_CardinalityType
  <2> QED
    BY <1>1, <1>3, <2>1, GateIsFinite, LimitAssumption DEF CeilingHoldsUntilExpiry
<1>7. GateTypeOK'
  <2>1. handling' \in [Request -> Stages]
    BY <1>1 DEF Becomes
  <2>2. timed' \subseteq InGate'
    BY <1>1, <1>3
  <2>3. /\ slots' \in -Cardinality(Request) .. Cardinality(Request) + MaxGateFaults
        /\ leaked' \in 0 .. MaxGateFaults /\ gateFaults' \in 0 .. MaxGateFaults
    BY <1>4, InGateStays, BoundsAreTypes
  <2> QED
    BY <1>1, <2>1, <2>2, <2>3
<1> QED
  BY <1>4, <1>5, <1>6, <1>7

(* Steps that leave everybody in the gate or out of it.                    *)
LEMMA StayingKeeps ==
  ASSUME GateInv, NEW r \in Request,
         CountRequest(r) \/ Analyse(r) \/ CallFails(r) \/ ReplyLost(r)
  PROVE  GateInv'
<1> USE DEF GateInv, GateTypeOK, CounterIsBounded, Stages
<1>1. InGate' = InGate /\ Inside' = Inside /\ handling' \in [Request -> Stages]
  BY DEF CountRequest, Analyse, CallFails, ReplyLost, Becomes, InGate, Inside
<1>2. /\ \/ UNCHANGED <<slots, leaked, gateFaults>>
         \/ /\ UNCHANGED <<slots, leaked>>
            /\ gateFaults' = gateFaults + 1 /\ gateFaults < MaxGateFaults
         \/ /\ slots' = slots + 1 /\ leaked' = leaked + 1
            /\ gateFaults' = gateFaults + 1 /\ gateFaults < MaxGateFaults
      /\ UNCHANGED wiped /\ expires' \in BOOLEAN
      /\ (timed' = timed \/ timed' = InGate)
  BY DEF CountRequest, Analyse, CallFails, ReplyLost, Fault, counterVars, ghostVars
<1>3. used' \in 0 .. RateLimit + 1
  BY CountStays DEF CountRequest, Analyse, CallFails, ReplyLost
<1>4. CounterIsBounded'
  BY <1>1, <1>2, GateIsFinite, GateFaultsAssumption
<1>5. SlotsAreAccounted' /\ CeilingHoldsUntilExpiry'
  BY <1>1, <1>2, GateIsFinite DEF SlotsAreAccounted, CeilingHoldsUntilExpiry
<1>6. GateTypeOK'
  <2>1. /\ slots' \in -Cardinality(Request) .. Cardinality(Request) + MaxGateFaults
        /\ leaked' \in 0 .. MaxGateFaults /\ gateFaults' \in 0 .. MaxGateFaults
    BY <1>1, <1>2, <1>4, GateIsFinite, GateFaultsAssumption
  <2> QED
    BY <1>1, <1>2, <1>3, <2>1
<1> QED
  BY <1>4, <1>5, <1>6

(* The counter expires, or the window of the other one is over.            *)
LEMMA TimeKeeps ==
  ASSUME GateInv, Expire \/ RollWindow \/ UNCHANGED gateVars
  PROVE  GateInv'
<1> USE DEF GateInv, GateTypeOK, CounterIsBounded, Stages
<1>1. InGate' = InGate /\ Inside' = Inside /\ UNCHANGED <<handling, gateFaults>>
  BY DEF Expire, RollWindow, gateVars, InGate, Inside, counterVars
<1>2. CASE Expire
  <2>1. /\ slots' = 0 /\ expires' = FALSE /\ timed' = {} /\ leaked' = 0
        /\ wiped' = (wiped \/ InGate # {}) /\ UNCHANGED used
    BY <1>2 DEF Expire
  <2>2. wiped' \in BOOLEAN
    BY <2>1
  <2>3. CounterIsBounded'
    BY <1>1, <2>1, GateIsFinite, GateFaultsAssumption
  <2>8. /\ slots' \in -Cardinality(Request) .. Cardinality(Request) + MaxGateFaults
        /\ leaked' \in 0 .. MaxGateFaults /\ gateFaults' \in 0 .. MaxGateFaults
    BY <1>1, <2>3, GateIsFinite, BoundsAreTypes
  <2>9. GateTypeOK'
    BY <1>1, <2>1, <2>2, <2>8
  <2>4. ~wiped' => InGate = {} /\ ~wiped
    BY <2>1
  <2>5. InGate = {} => Cardinality(InGate) = 0
    BY FS_EmptySet
  <2>6. SlotsAreAccounted'
    BY <1>1, <2>1, <2>4, <2>5 DEF SlotsAreAccounted
  <2>7. CeilingHoldsUntilExpiry'
    BY <1>1, <2>4 DEF CeilingHoldsUntilExpiry
  <2> QED
    BY <2>3, <2>6, <2>7, <2>9
<1>3. CASE RollWindow \/ UNCHANGED gateVars
  BY <1>1, <1>3, LimitAssumption
  DEF RollWindow, gateVars, counterVars, ghostVars, SlotsAreAccounted, CeilingHoldsUntilExpiry
<1> QED
  BY <1>2, <1>3

(* The invariant of the gate holds throughout.                             *)
THEOREM GateInvariant == GateSpec => []GateInv
<1>1. GateInv /\ [GateNext]_gateVars => GateInv'
  BY TakeSlotKeeps, LeavingKeeps, StayingKeeps, TimeKeeps DEF GateNext
<1> QED
  BY <1>1, GateStarts, PTL DEF GateSpec

(* The counter is exact until it expires under someone: one for every      *)
(* request in the gate and one for every leak                              *)
(* (workspace-review-gate.ts:128-137).                                     *)
THEOREM SlotsAddUp == GateSpec => []SlotsAreAccounted
<1>1. GateInv => SlotsAreAccounted
  BY DEF GateInv
<1> QED
  BY <1>1, GateInvariant, PTL

(* No more requests than the ceiling are inside, whatever is refused, lost *)
(* or dies, while no expiry has wiped the slot of one that is in the gate  *)
(* (workspace-review-gate.ts:122-137).                                     *)
THEOREM CeilingIsKept == GateSpec => []CeilingHoldsUntilExpiry
<1>1. GateInv => CeilingHoldsUntilExpiry
  BY DEF GateInv
<1> QED
  BY <1>1, GateInvariant, PTL
=============================================================================
