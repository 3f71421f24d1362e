----------------------- MODULE AccessTransitionsProofs ------------------------
(***************************************************************************)
(* The stores converge on what GitHub grants, for any number of tasks,     *)
(* changes of access and failures.  A task's changes form a plan in the    *)
(* order of the stores; while nothing is lost the plan keeps to the task's *)
(* scope; the index is right or some task has the fix ahead; and as long   *)
(* as no two tasks overlap the same holds of all stores, because the index *)
(* never answers with a time that the policies are ahead of.               *)
(***************************************************************************)
EXTENDS AccessTransitions, TLAPS

State == {"active", "revoked"}
Notices == [scope : Scope, wants : State, at : Nat]
Change == [store : Store, scope : Scope, state : State, at : Nat, own : BOOLEAN]
Times == Nat \union {Newer}
Mark == [state : State, at : Times]

\* The changes a plan consists of.
Planned(plan) == {plan[i] : i \in 1 .. Len(plan)}

\* Where a change stands among those of a restoration.
Place(x) ==
  (IF x.scope = "installation" THEN 0 ELSE 3)
  + (IF x.store = "index" THEN 0 ELSE IF x.store = "ledger" THEN 1 ELSE 2)

Ordered(plan) == \A i, j \in 1 .. Len(plan) : i < j => Place(plan[i]) < Place(plan[j])
Followed(plan) ==
  \A i \in 1 .. Len(plan) : plan[i].store = "index" =>
    /\ i + 1 <= Len(plan) /\ plan[i + 1].store = "ledger"
    /\ plan[i].state = "active" => i + 2 <= Len(plan)
Uniform(plan) ==
  /\ \A x, y \in Planned(plan) : x.state = y.state /\ x.at = y.at
  /\ \A x \in Planned(plan) : x.own => x.state = "revoked"
IsPlan(plan) == plan \in Seq(Change) /\ Ordered(plan) /\ Followed(plan) /\ Uniform(plan)

Has(plan, store, scope) == \E x \in Planned(plan) : x.store = store /\ x.scope = scope

-----------------------------------------------------------------------------
(* The changes of a plan are its first and those of the rest.               *)
LEMMA PlannedTail ==
  ASSUME NEW R, NEW s \in Seq(R), s # <<>>
  PROVE  /\ Tail(s) \in Seq(R) /\ Head(s) \in R /\ Head(s) = s[1]
         /\ Len(s) \in Nat /\ Len(s) >= 1 /\ Len(Tail(s)) = Len(s) - 1
         /\ \A i \in 1 .. Len(Tail(s)) : Tail(s)[i] = s[i + 1]
         /\ Head(s) \in Planned(s)
         /\ Planned(Tail(s)) \subseteq Planned(s)
         /\ \A x \in Planned(s) : x = Head(s) \/ x \in Planned(Tail(s))
         /\ Planned(s) \subseteq R
<1>1. /\ Tail(s) \in Seq(R) /\ Head(s) \in R /\ Head(s) = s[1]
      /\ Len(s) \in Nat /\ Len(s) >= 1 /\ Len(Tail(s)) = Len(s) - 1
      /\ \A i \in 1 .. Len(Tail(s)) : Tail(s)[i] = s[i + 1]
  OBVIOUS
<1>2. Head(s) \in Planned(s)  BY <1>1 DEF Planned
<1>3. Planned(Tail(s)) \subseteq Planned(s)
  <2> SUFFICES ASSUME NEW i \in 1 .. Len(Tail(s)) PROVE Tail(s)[i] \in Planned(s)
    BY DEF Planned
  <2>1. i + 1 \in 1 .. Len(s)  BY <1>1
  <2>2. QED  BY <1>1, <2>1 DEF Planned
<1>4. ASSUME NEW i \in 1 .. Len(s) PROVE s[i] = Head(s) \/ s[i] \in Planned(Tail(s))
  <2>1. CASE i = 1  BY <1>1, <2>1
  <2>2. CASE i # 1
    <3>1. i - 1 \in 1 .. Len(Tail(s)) /\ (i - 1) + 1 = i  BY <1>1, <2>2
    <3>2. Tail(s)[i - 1] = s[i]  BY <1>1, <3>1
    <3>3. QED  BY <3>1, <3>2 DEF Planned
  <2>3. QED  BY <2>1, <2>2
<1>5. Planned(s) \subseteq R  BY DEF Planned
<1>6. QED  BY <1>1, <1>2, <1>3, <1>4, <1>5 DEF Planned

(* The changes of a plan are changes.                                       *)
LEMMA PlannedIn == ASSUME NEW R, NEW s \in Seq(R) PROVE Planned(s) \subseteq R
  BY DEF Planned

(* What remains of a plan is a plan, and comes after what was done.         *)
LEMMA PlanTail ==
  ASSUME NEW s, IsPlan(s), s # <<>>
  PROVE  /\ IsPlan(Tail(s))
         /\ \A x \in Planned(Tail(s)) : Place(Head(s)) < Place(x)
<1>1. s \in Seq(Change)  BY DEF IsPlan
<1>2. /\ Tail(s) \in Seq(Change) /\ Head(s) = s[1] /\ Len(s) \in Nat /\ Len(s) >= 1
      /\ Len(Tail(s)) = Len(s) - 1
      /\ \A i \in 1 .. Len(Tail(s)) : Tail(s)[i] = s[i + 1]
      /\ Planned(Tail(s)) \subseteq Planned(s)
  BY <1>1, PlannedTail
<1>3. \A i \in 1 .. Len(Tail(s)) : i + 1 \in 1 .. Len(s)  BY <1>2
<1>4. Ordered(Tail(s))
  <2> SUFFICES ASSUME NEW i \in 1 .. Len(Tail(s)), NEW j \in 1 .. Len(Tail(s)), i < j
               PROVE  Place(Tail(s)[i]) < Place(Tail(s)[j])
    BY DEF Ordered
  <2>1. i + 1 < j + 1  OBVIOUS
  <2>2. Place(s[i + 1]) < Place(s[j + 1])  BY <1>3, <2>1 DEF IsPlan, Ordered
  <2>3. QED  BY <1>2, <2>2
<1>5. Followed(Tail(s))
  <2> SUFFICES ASSUME NEW i \in 1 .. Len(Tail(s)), Tail(s)[i].store = "index"
               PROVE  /\ i + 1 <= Len(Tail(s)) /\ Tail(s)[i + 1].store = "ledger"
                      /\ Tail(s)[i].state = "active" => i + 2 <= Len(Tail(s))
    BY DEF Followed
  <2>1. Tail(s)[i] = s[i + 1] /\ i + 1 \in 1 .. Len(s)  BY <1>2, <1>3
  <2>2. /\ (i + 1) + 1 <= Len(s) /\ s[(i + 1) + 1].store = "ledger"
        /\ s[i + 1].state = "active" => (i + 1) + 2 <= Len(s)
    BY <2>1 DEF IsPlan, Followed
  <2>3. i + 1 \in 1 .. Len(Tail(s))  BY <1>2, <2>2
  <2>4. Tail(s)[i + 1] = s[(i + 1) + 1]  BY <1>2, <2>3
  <2>5. QED  BY <1>2, <2>1, <2>2, <2>4
<1>6. Uniform(Tail(s))  BY <1>2 DEF IsPlan, Uniform
<1>7. \A x \in Planned(Tail(s)) : Place(Head(s)) < Place(x)
  <2> SUFFICES ASSUME NEW i \in 1 .. Len(Tail(s)) PROVE Place(s[1]) < Place(Tail(s)[i])
    BY <1>2 DEF Planned
  <2>1. 1 \in 1 .. Len(s) /\ 1 < i + 1  BY <1>2
  <2>2. Place(s[1]) < Place(s[i + 1])  BY <1>3, <2>1 DEF IsPlan, Ordered
  <2>3. QED  BY <1>2, <2>2
<1>8. QED  BY <1>2, <1>4, <1>5, <1>6, <1>7 DEF IsPlan

(* A change of the index is never the last, and is followed by the ledger's. *)
LEMMA AfterIndex ==
  ASSUME NEW s, IsPlan(s), s # <<>>, Head(s).store = "index"
  PROVE  /\ Tail(s) # <<>> /\ Head(Tail(s)).store = "ledger"
         /\ Head(s).state = "active" => Tail(Tail(s)) # <<>>
<1>1. s \in Seq(Change) /\ Followed(s)  BY DEF IsPlan
<1>2. /\ Tail(s) \in Seq(Change) /\ Head(s) = s[1] /\ Len(s) \in Nat /\ Len(s) >= 1
      /\ Len(Tail(s)) = Len(s) - 1
      /\ \A i \in 1 .. Len(Tail(s)) : Tail(s)[i] = s[i + 1]
  BY <1>1, PlannedTail
<1>3. /\ 1 + 1 <= Len(s) /\ s[1 + 1].store = "ledger"
      /\ s[1].state = "active" => 1 + 2 <= Len(s)
  BY <1>1, <1>2 DEF Followed
<1>4. Tail(s) # <<>>
  <2>1. Len(Tail(s)) >= 1  BY <1>2, <1>3
  <2>2. Len(<<>>) = 0  OBVIOUS
  <2>3. QED  BY <2>1, <2>2
<1>5. Head(Tail(s)) = Tail(s)[1] /\ Len(Tail(Tail(s))) = Len(Tail(s)) - 1
  BY <1>2, <1>4, PlannedTail
<1>6. Tail(s)[1] = s[1 + 1]  BY <1>2, <1>3
<1>7. ASSUME Head(s).state = "active" PROVE Tail(Tail(s)) # <<>>
  <2>1. 3 <= Len(s)  BY <1>2, <1>3, <1>7
  <2>2. Len(Tail(Tail(s))) >= 1  BY <1>2, <1>5, <2>1
  <2>3. Len(<<>>) = 0  OBVIOUS
  <2>4. QED  BY <2>2, <2>3
<1>8. QED  BY <1>3, <1>4, <1>5, <1>6, <1>7

-----------------------------------------------------------------------------
(* The plans of a task                                                      *)

(* What a plan of three changes consists of.                                *)
LEMMA ThreeSteps ==
  ASSUME NEW scope \in Scope, NEW state \in State, NEW at \in Nat,
         NEW a \in Change, a.store = "index", a.scope = scope, a.state = state, a.at = at, ~a.own,
         NEW b \in Change, b.store = "ledger", b.scope = scope, b.state = state, b.at = at, ~b.own,
         NEW c \in Change, c.store = "policy", c.scope = scope, c.state = state, c.at = at,
         c.own => state = "revoked",
         NEW s, s = <<a, b, c>>
  PROVE  IsPlan(s) /\ Planned(s) = {a, b, c} /\ Len(s) = 3
<1>3. s \in Seq(Change) /\ Len(s) = 3 /\ s[1] = a /\ s[2] = b /\ s[3] = c  OBVIOUS
<1>4. Planned(s) = {a, b, c}
  <2>1. 1 .. Len(s) = {1, 2, 3}  BY <1>3
  <2>2. QED  BY <1>3, <2>1 DEF Planned
<1>5. Place(a) < Place(b) /\ Place(b) < Place(c) /\ Place(a) < Place(c)
  BY DEF Place, Change, Scope
<1>6. Ordered(s)
  <2> SUFFICES ASSUME NEW i \in 1 .. Len(s), NEW j \in 1 .. Len(s), i < j
               PROVE  Place(s[i]) < Place(s[j])
    BY DEF Ordered
  <2>1. (i = 1 /\ j = 2) \/ (i = 1 /\ j = 3) \/ (i = 2 /\ j = 3)  BY <1>3
  <2>2. QED  BY <1>3, <1>5, <2>1
<1>7. Followed(s)
  <2> SUFFICES ASSUME NEW i \in 1 .. Len(s), s[i].store = "index"
               PROVE  /\ i + 1 <= Len(s) /\ s[i + 1].store = "ledger"
                      /\ s[i].state = "active" => i + 2 <= Len(s)
    BY DEF Followed
  <2>2. i = 1 \/ i = 2 \/ i = 3  BY <1>3
  <2>3. i = 1  BY <1>3, <2>2
  <2>4. i + 1 = 2 /\ i + 2 = 3  BY <2>3
  <2>5. s[i + 1].store = "ledger"  BY <1>3, <2>4
  <2>6. QED  BY <1>3, <2>4, <2>5
<1>8. Uniform(s)
  <2>1. \A x \in {a, b, c} : x.state = state /\ x.at = at  OBVIOUS
  <2>2. \A x \in {a, b, c} : x.own => x.state = "revoked"  OBVIOUS
  <2>3. QED  BY <1>4, <2>1, <2>2 DEF Uniform
<1>10. QED  BY <1>3, <1>4, <1>6, <1>7, <1>8 DEF IsPlan

(* Two plans of which one comes after the other make one.                   *)
LEMMA JoinedPlans ==
  ASSUME NEW u, IsPlan(u), NEW v, IsPlan(v),
         \A x \in Planned(u), y \in Planned(v) :
           Place(x) < Place(y) /\ x.state = y.state /\ x.at = y.at
  PROVE  IsPlan(u \o v) /\ Planned(u \o v) = Planned(u) \union Planned(v)
<1> DEFINE s == u \o v
<1>1. u \in Seq(Change) /\ v \in Seq(Change)  BY DEF IsPlan
<1>2. /\ s \in Seq(Change) /\ Len(s) = Len(u) + Len(v) /\ Len(u) \in Nat /\ Len(v) \in Nat
      /\ \A i \in 1 .. Len(u) : s[i] = u[i]
      /\ \A i \in 1 .. Len(s) : i > Len(u) => s[i] = v[i - Len(u)]
  BY <1>1
<1> HIDE DEF s
<1>3. \A i \in 1 .. Len(u) : i \in 1 .. Len(s) /\ u[i] \in Planned(u)  BY <1>2 DEF Planned
<1>4. \A i \in 1 .. Len(s) : i > Len(u) => i - Len(u) \in 1 .. Len(v)  BY <1>2
<1>5. \A i \in 1 .. Len(v) : v[i] \in Planned(v) /\ i + Len(u) \in 1 .. Len(s) /\ s[i + Len(u)] = v[i]
  <2> SUFFICES ASSUME NEW i \in 1 .. Len(v)
               PROVE  v[i] \in Planned(v) /\ i + Len(u) \in 1 .. Len(s) /\ s[i + Len(u)] = v[i]
    OBVIOUS
  <2>1. i + Len(u) \in 1 .. Len(s) /\ i + Len(u) > Len(u) /\ (i + Len(u)) - Len(u) = i  BY <1>2
  <2>2. s[i + Len(u)] = v[(i + Len(u)) - Len(u)]  BY <1>2, <2>1
  <2>3. QED  BY <2>1, <2>2 DEF Planned
<1>6. Planned(s) = Planned(u) \union Planned(v)
  <2>1. ASSUME NEW i \in 1 .. Len(s) PROVE s[i] \in Planned(u) \union Planned(v)
    <3>1. CASE i <= Len(u)
      <4>1. i \in 1 .. Len(u)  BY <1>2, <3>1
      <4>2. QED  BY <1>2, <1>3, <4>1
    <3>2. CASE i > Len(u)
      <4>1. i - Len(u) \in 1 .. Len(v) /\ s[i] = v[i - Len(u)]  BY <1>2, <1>4, <3>2
      <4>2. QED  BY <1>5, <4>1
    <3>3. QED  BY <1>2, <3>1, <3>2
  <2>2. ASSUME NEW i \in 1 .. Len(u) PROVE u[i] \in Planned(s)  BY <1>2, <1>3 DEF Planned
  <2>3. ASSUME NEW i \in 1 .. Len(v) PROVE v[i] \in Planned(s)  BY <1>5 DEF Planned
  <2>4. QED  BY <2>1, <2>2, <2>3 DEF Planned
<1>7. Ordered(s)
  <2> SUFFICES ASSUME NEW i \in 1 .. Len(s), NEW j \in 1 .. Len(s), i < j
               PROVE  Place(s[i]) < Place(s[j])
    BY DEF Ordered
  <2>1. CASE j <= Len(u)
    <3>1. i \in 1 .. Len(u) /\ j \in 1 .. Len(u)  BY <1>2, <2>1
    <3>2. QED  BY <1>2, <3>1 DEF IsPlan, Ordered
  <2>2. CASE i <= Len(u) /\ j > Len(u)
    <3>1. i \in 1 .. Len(u) /\ j - Len(u) \in 1 .. Len(v)  BY <1>2, <1>4, <2>2
    <3>2. s[i] = u[i] /\ s[j] = v[j - Len(u)]  BY <1>2, <2>2, <3>1
    <3>3. u[i] \in Planned(u) /\ v[j - Len(u)] \in Planned(v)  BY <1>3, <1>5, <3>1
    <3>4. QED  BY <3>2, <3>3
  <2>3. CASE i > Len(u)
    <3>1. i - Len(u) \in 1 .. Len(v) /\ j - Len(u) \in 1 .. Len(v) /\ i - Len(u) < j - Len(u) /\ j > Len(u)
      BY <1>2, <1>4, <2>3
    <3>2. s[i] = v[i - Len(u)] /\ s[j] = v[j - Len(u)]  BY <1>2, <2>3, <3>1
    <3>3. QED  BY <3>1, <3>2 DEF IsPlan, Ordered
  <2>4. QED  BY <1>2, <2>1, <2>2, <2>3
<1>8. Followed(s)
  <2> SUFFICES ASSUME NEW i \in 1 .. Len(s), s[i].store = "index"
               PROVE  /\ i + 1 <= Len(s) /\ s[i + 1].store = "ledger"
                      /\ s[i].state = "active" => i + 2 <= Len(s)
    BY DEF Followed
  <2>1. CASE i <= Len(u)
    <3>1. i \in 1 .. Len(u) /\ s[i] = u[i]  BY <1>2, <2>1
    <3>2. /\ i + 1 <= Len(u) /\ u[i + 1].store = "ledger"
          /\ u[i].state = "active" => i + 2 <= Len(u)
      BY <3>1 DEF IsPlan, Followed
    <3>3. i + 1 \in 1 .. Len(u)  BY <1>2, <3>2
    <3>4. s[i + 1] = u[i + 1]  BY <1>2, <3>3
    <3>5. QED  BY <1>2, <3>1, <3>2, <3>4
  <2>2. CASE i > Len(u)
    <3>1. i - Len(u) \in 1 .. Len(v) /\ s[i] = v[i - Len(u)]  BY <1>2, <1>4, <2>2
    <3>2. /\ (i - Len(u)) + 1 <= Len(v) /\ v[(i - Len(u)) + 1].store = "ledger"
          /\ v[i - Len(u)].state = "active" => (i - Len(u)) + 2 <= Len(v)
      BY <3>1 DEF IsPlan, Followed
    <3>3. i + 1 \in 1 .. Len(s) /\ i + 1 > Len(u) /\ (i + 1) - Len(u) = (i - Len(u)) + 1
      BY <1>2, <2>2, <3>2
    <3>4. s[i + 1] = v[(i + 1) - Len(u)]  BY <1>2, <3>3
    <3>5. QED  BY <1>2, <3>1, <3>2, <3>3, <3>4
  <2>3. QED  BY <1>2, <2>1, <2>2
<1>9. Uniform(s)
  <2>1. Uniform(u) /\ Uniform(v)  BY DEF IsPlan
  <2>2. QED  BY <1>6, <2>1 DEF Uniform
<1>10. QED  BY <1>2, <1>6, <1>7, <1>8, <1>9 DEF IsPlan, s

(* What the plans of a task consist of.                                     *)
LEMMA ActivationPlan ==
  ASSUME NEW scope \in Scope, NEW at \in Nat
  PROVE  /\ IsPlan(Activation(scope, at)) /\ Len(Activation(scope, at)) = 3
         /\ \A x \in Planned(Activation(scope, at)) :
              x \in Change /\ x.scope = scope /\ x.state = "active" /\ x.at = at /\ ~x.own
         /\ \A store \in Store : Has(Activation(scope, at), store, scope)
<1> DEFINE a == Step("index", scope, "active", at, FALSE)
           b == Step("ledger", scope, "active", at, FALSE)
           c == Step("policy", scope, "active", at, FALSE)
           s == Activation(scope, at)
<1>1. /\ a \in Change /\ a.store = "index" /\ a.scope = scope /\ a.state = "active" /\ a.at = at /\ ~a.own
      /\ b \in Change /\ b.store = "ledger" /\ b.scope = scope /\ b.state = "active" /\ b.at = at /\ ~b.own
      /\ c \in Change /\ c.store = "policy" /\ c.scope = scope /\ c.state = "active" /\ c.at = at /\ ~c.own
  BY DEF Step, Change, Store, State
<1>2. s = <<a, b, c>>  BY DEF Activation
<1> HIDE DEF a, b, c, s
<1>3. "active" \in State  BY DEF State
<1>4. IsPlan(s) /\ Planned(s) = {a, b, c} /\ Len(s) = 3  BY <1>1, <1>2, <1>3, ThreeSteps
<1>5. \A store \in Store : Has(s, store, scope)  BY <1>1, <1>4 DEF Has, Store
<1>6. QED  BY <1>1, <1>4, <1>5 DEF s

(* A revocation is a plan for the index and the ledger.                     *)
LEMMA RevocationPlan ==
  ASSUME NEW scope \in Scope, NEW at \in Nat
  PROVE  /\ IsPlan(Revocation(scope, at)) /\ Len(Revocation(scope, at)) = 2
         /\ \A x \in Planned(Revocation(scope, at)) :
              x \in Change /\ x.scope = scope /\ x.state = "revoked" /\ x.at = at /\ ~x.own
                    /\ x.store # "policy"
         /\ Has(Revocation(scope, at), "index", scope) /\ Has(Revocation(scope, at), "ledger", scope)
<1> DEFINE a == Step("index", scope, "revoked", at, FALSE)
           b == Step("ledger", scope, "revoked", at, FALSE)
           s == Revocation(scope, at)
<1>1. /\ a \in Change /\ a.store = "index" /\ a.scope = scope /\ a.state = "revoked" /\ a.at = at /\ ~a.own
      /\ b \in Change /\ b.store = "ledger" /\ b.scope = scope /\ b.state = "revoked" /\ b.at = at /\ ~b.own
  BY DEF Step, Change, Store, State
<1>2. s = <<a, b>>  BY DEF Revocation
<1> HIDE DEF a, b, s
<1>3. s \in Seq(Change) /\ Len(s) = 2 /\ s[1] = a /\ s[2] = b  BY <1>1, <1>2
<1>4. Planned(s) = {a, b}
  <2>1. 1 .. Len(s) = {1, 2}  BY <1>3
  <2>2. QED  BY <1>3, <2>1 DEF Planned
<1>5. Place(a) < Place(b)  BY <1>1 DEF Place, Change, Scope
<1>6. Ordered(s)
  <2> SUFFICES ASSUME NEW i \in 1 .. Len(s), NEW j \in 1 .. Len(s), i < j
               PROVE  Place(s[i]) < Place(s[j])
    BY DEF Ordered
  <2>1. i = 1 /\ j = 2  BY <1>3
  <2>2. QED  BY <1>3, <1>5, <2>1
<1>7. Followed(s)
  <2> SUFFICES ASSUME NEW i \in 1 .. Len(s), s[i].store = "index"
               PROVE  /\ i + 1 <= Len(s) /\ s[i + 1].store = "ledger"
                      /\ s[i].state = "active" => i + 2 <= Len(s)
    BY DEF Followed
  <2>1. i = 1 \/ i = 2  BY <1>3
  <2>2. i = 1  BY <1>1, <1>3, <2>1
  <2>3. i + 1 = 2  BY <2>2
  <2>4. QED  BY <1>1, <1>3, <2>2, <2>3
<1>8. Uniform(s)
  <2>1. \A x \in {a, b} : x.state = "revoked" /\ x.at = at  BY <1>1
  <2>2. QED  BY <1>4, <2>1 DEF Uniform
<1>9. Has(s, "index", scope) /\ Has(s, "ledger", scope)  BY <1>1, <1>4 DEF Has
<1>10. QED  BY <1>1, <1>3, <1>4, <1>6, <1>7, <1>8, <1>9 DEF IsPlan, s

(* A purge is a plan for the policy.                                        *)
LEMMA PurgePlan ==
  ASSUME NEW scope \in Scope, NEW at \in Nat,
         NEW c \in Change, c.store = "policy", c.scope = scope, c.state = "revoked", c.at = at,
         NEW s, s = <<c>>
  PROVE  /\ IsPlan(s) /\ Len(s) = 1
         /\ \A x \in Planned(s) :
              x \in Change /\ x.scope = scope /\ x.state = "revoked" /\ x.at = at /\ x.store = "policy"
         /\ Has(s, "policy", scope)
<1>3. s \in Seq(Change) /\ Len(s) = 1 /\ s[1] = c  OBVIOUS
<1>4. Planned(s) = {c}
  <2>1. 1 .. Len(s) = {1}  BY <1>3
  <2>2. QED  BY <1>3, <2>1 DEF Planned
<1>5. Ordered(s)
  <2>1. \A i, j \in 1 .. Len(s) : ~(i < j)  BY <1>3
  <2>2. QED  BY <2>1 DEF Ordered
<1>6. Followed(s)
  <2>1. \A i \in 1 .. Len(s) : i = 1  BY <1>3
  <2>2. QED  BY <1>3, <2>1 DEF Followed
<1>7. Uniform(s)  BY <1>4 DEF Uniform
<1>8. Has(s, "policy", scope)  BY <1>4 DEF Has
<1>9. QED  BY <1>3, <1>4, <1>5, <1>6, <1>7, <1>8 DEF IsPlan

(* A revocation and a purge after it are a plan for every store.            *)
LEMMA RevocationAndPurgePlan ==
  ASSUME NEW scope \in Scope, NEW at \in Nat,
         NEW v, IsPlan(v), Has(v, "policy", scope),
         \A x \in Planned(v) :
           x \in Change /\ x.scope = scope /\ x.state = "revoked" /\ x.at = at /\ x.store = "policy"
  PROVE  /\ IsPlan(Revocation(scope, at) \o v)
         /\ \A x \in Planned(Revocation(scope, at) \o v) : x \in Change /\ x.scope = scope
               /\ x.state = "revoked" /\ x.at = at
         /\ \A store \in Store : Has(Revocation(scope, at) \o v, store, scope)
<1> DEFINE u == Revocation(scope, at)
<1>1. /\ IsPlan(u)
      /\ \A x \in Planned(u) : x \in Change /\ x.scope = scope /\ x.state = "revoked" /\ x.at = at
            /\ x.store # "policy"
      /\ Has(u, "index", scope) /\ Has(u, "ledger", scope)
  BY RevocationPlan
<1> HIDE DEF u
<1>2. \A x \in Planned(u), y \in Planned(v) : Place(x) < Place(y) /\ x.state = y.state /\ x.at = y.at
  BY <1>1 DEF Place, Change, Store, Scope
<1>3. IsPlan(u \o v) /\ Planned(u \o v) = Planned(u) \union Planned(v)  BY <1>1, <1>2, JoinedPlans
<1>4. QED  BY <1>1, <1>3 DEF Has, Store, u

(* A restoration is a plan for every store, of the installation first.      *)
LEMMA RestorationPlan ==
  ASSUME NEW scope \in Scope, NEW at \in Nat
  PROVE  /\ IsPlan(Restoration(scope, at))
         /\ \A x \in Planned(Restoration(scope, at)) :
              x \in Change /\ (x.scope = scope \/ x.scope = "installation") /\ x.state = "active"
                    /\ x.at = at /\ ~x.own
         /\ \A store \in Store : Has(Restoration(scope, at), store, scope)
         /\ Has(Restoration(scope, at), "index", "installation")
<1> DEFINE u == Activation("installation", at)
           v == Activation("repository", at)
<1>1. "installation" \in Scope /\ "repository" \in Scope /\ "index" \in Store  BY DEF Scope, Store
<1>2. /\ IsPlan(u) /\ \A store \in Store : Has(u, store, "installation")
      /\ \A x \in Planned(u) : x \in Change /\ x.scope = "installation" /\ x.state = "active"
            /\ x.at = at /\ ~x.own
  BY <1>1, ActivationPlan
<1>3. /\ IsPlan(v) /\ \A store \in Store : Has(v, store, "repository")
      /\ \A x \in Planned(v) : x \in Change /\ x.scope = "repository" /\ x.state = "active"
            /\ x.at = at /\ ~x.own
  BY <1>1, ActivationPlan
<1>4. CASE scope = "installation"
  <2>1. Restoration(scope, at) = u  BY <1>4 DEF Restoration
  <2>2. QED  BY <1>1, <1>2, <1>4, <2>1
<1>5. CASE scope = "repository"
  <2>1. Restoration(scope, at) = u \o v  BY <1>5 DEF Restoration
  <2> HIDE DEF u, v
  <2>2. \A x \in Planned(u), y \in Planned(v) : Place(x) < Place(y) /\ x.state = y.state /\ x.at = y.at
    BY <1>2, <1>3 DEF Place
  <2>3. IsPlan(u \o v) /\ Planned(u \o v) = Planned(u) \union Planned(v)  BY <1>2, <1>3, <2>2, JoinedPlans
  <2>4. \A store \in Store : Has(u \o v, store, "repository")  BY <1>3, <2>3 DEF Has
  <2>5. Has(u \o v, "index", "installation")  BY <1>1, <1>2, <2>3 DEF Has
  <2>6. \A x \in Planned(u \o v) :
          x \in Change /\ (x.scope = scope \/ x.scope = "installation") /\ x.state = "active"
                /\ x.at = at /\ ~x.own
    BY <1>2, <1>3, <1>5, <2>3
  <2>7. QED  BY <1>5, <2>1, <2>3, <2>4, <2>5, <2>6
<1>6. QED  BY <1>4, <1>5 DEF Scope
-----------------------------------------------------------------------------
(* Types                                                                    *)

AccessTypeOK ==
  /\ granted \in [Scope -> BOOLEAN] /\ githubTime \in Nat
  /\ announced \subseteq Notices
  /\ marks \in [Store -> [Scope -> Mark]]
  /\ task \in [Task -> Notices]
  /\ doing \in [Task -> {"none", "look", "act", "undo", "finish", "done"}]
  /\ first \in [Task -> BOOLEAN] /\ steps \in [Task -> Seq(Change)]
  /\ told \in [Task -> [Scope -> Times]]
  /\ history \subseteq {"lost", "raced", "gaveUp", "overlapped"}

\* Nothing carries a time that has not come yet.
NothingFromTheFuture ==
  /\ \A n \in announced : n.at <= githubTime
  /\ \A store \in Store, s \in Scope : marks[store][s].at <= githubTime
  /\ \A t \in Task :
       /\ task[t].at <= githubTime
       /\ \A s \in Scope : told[t][s] <= githubTime
       /\ \A x \in Planned(steps[t]) : x.at <= githubTime

\* What a task does before its second look.
ActsAsSeen(t) ==
  \A x \in Planned(steps[t]) :
    /\ x.at = task[t].at /\ ~x.own
    /\ x.state = (IF first[t] THEN "active" ELSE "revoked")
    /\ ~first[t] => x.store # "policy"

PlansFit ==
  \A t \in Task :
    /\ doing[t] \in {"none", "look"} => \A s \in Scope : told[t][s] = Newer
    /\ IsPlan(steps[t])
    /\ doing[t] = "act" => ActsAsSeen(t)
    /\ InProgress(t) /\ task[t].wants = "active" => first[t]
    /\ doing[t] = "undo" => task[t].scope = "repository"

AccessFit == AccessTypeOK /\ NothingFromTheFuture /\ PlansFit

(* Nothing to do is a plan.                                                 *)
LEMMA EmptyPlan == IsPlan(<<>>) /\ Planned(<<>>) = {}
<1>1. <<>> \in Seq(Change) /\ Len(<<>>) = 0  OBVIOUS
<1>2. 1 .. Len(<<>>) = {}  BY <1>1
<1>3. Planned(<<>>) = {}  BY <1>2 DEF Planned
<1>4. QED  BY <1>1, <1>2, <1>3 DEF IsPlan, Ordered, Followed, Uniform

(* The time that goes with a change is one that has been.                   *)
LEMMA TimeOfBounds ==
  ASSUME AccessFit, NEW t \in Task, NEW h \in Planned(steps[t])
  PROVE  /\ TimeOf(t, h) \in Nat /\ TimeOf(t, h) <= githubTime
         /\ h.store = "index" => TimeOf(t, h) >= h.at
<1>1. h \in Change /\ h.at <= githubTime /\ h.at \in Nat /\ githubTime \in Nat
  <2>1. steps[t] \in Seq(Change)  BY DEF AccessFit, AccessTypeOK
  <2>2. Planned(steps[t]) \subseteq Change  BY <2>1 DEF Planned
  <2>3. QED  BY <2>2 DEF AccessFit, AccessTypeOK, NothingFromTheFuture, Change
<1>2. \A s \in Scope : told[t][s] \in Nat \union {-1} /\ told[t][s] <= githubTime
  BY DEF AccessFit, AccessTypeOK, NothingFromTheFuture, Times, Newer
<1>3. h.scope \in Scope /\ "installation" \in Scope  BY <1>1 DEF Change, Scope
<1>4. QED  BY <1>1, <1>2, <1>3 DEF TimeOf, ToldOr, Later, Newer

\* What a change does to the stores, if the index says so.
Effect(h, at, says, now, next) ==
  /\ next \in [Store -> [Scope -> Mark]]
  /\ \A store \in Store, s \in Scope :
       store # h.store \/ s # h.scope => next[store][s] = marks[store][s]
  /\ next[h.store][h.scope].at >= now.at /\ next[h.store][h.scope].at <= githubTime
  /\ next[h.store][h.scope].at \in {now.at, at}
  /\ next[h.store][h.scope].state \in {now.state, h.state}
  /\ h.store = "ledger" => next[h.store][h.scope].state = h.state
  /\ h.store = "policy" /\ now.at <= at => next[h.store][h.scope].state = h.state
  /\ h.store = "index" =>
       /\ says \in Times /\ says <= githubTime
       /\ says # Newer => /\ next[h.store][h.scope].state = h.state
                          /\ says = next[h.store][h.scope].at /\ says >= at
       /\ says = Newer => next = marks
       /\ says = Newer /\ h.state = "revoked" => now.state = "revoked" /\ now.at > at
       /\ says = Newer /\ h.state = "active" =>
            h.scope = "repository" /\ marks["index"]["installation"].state = "revoked"

(* What the index answers, and what a store does with a change.             *)
LEMMA AnswerFacts ==
  ASSUME AccessTypeOK, NothingFromTheFuture,
         NEW h \in Change, NEW at \in Nat, at <= githubTime,
         NEW now, now = marks[h.store][h.scope],
         NEW next, next = Marked(h, at),
         NEW says, h.store = "index" => says = IndexAnswer(h.scope, h.state, at)
  PROVE  Effect(h, at, says, now, next)
<1> USE DEF Effect
<1>1. /\ h.store \in Store /\ h.scope \in Scope /\ h.state \in State
      /\ now.at \in Nat \union {-1} /\ now.state \in State /\ now.at <= githubTime /\ githubTime \in Nat
      /\ now \in Mark
  BY DEF AccessTypeOK, NothingFromTheFuture, Change, Mark, Times, Newer
<1>2. Later(now.at, at) \in Nat /\ Later(now.at, at) >= now.at /\ Later(now.at, at) >= at
      /\ Later(now.at, at) \in {now.at, at} /\ Later(now.at, at) <= githubTime
  BY <1>1 DEF Later
<1>3. /\ next \in [Store -> [Scope -> Mark]]
      /\ \A store \in Store, s \in Scope :
           store # h.store \/ s # h.scope => next[store][s] = marks[store][s]
      /\ Takes(h, at) => next[h.store][h.scope] = [state |-> h.state, at |-> Later(now.at, at)]
      /\ ~Takes(h, at) => next = marks
  <2>1. CASE Takes(h, at)
    <3> DEFINE new == [state |-> h.state, at |-> Later(now.at, at)]
    <3>1. next = [marks EXCEPT ![h.store][h.scope] = new]  BY <2>1 DEF Marked
    <3>2. new \in Mark  BY <1>1, <1>2 DEF Mark, Times
    <3> HIDE DEF new
    <3>3. marks \in [Store -> [Scope -> Mark]]  BY DEF AccessTypeOK
    <3>4. next \in [Store -> [Scope -> Mark]]  BY <1>1, <3>1, <3>2, <3>3
    <3>5. \A store \in Store, s \in Scope :
            store # h.store \/ s # h.scope => next[store][s] = marks[store][s]
      BY <1>1, <3>1, <3>3
    <3>6. next[h.store][h.scope] = new  BY <1>1, <3>1, <3>3
    <3>7. QED  BY <2>1, <3>4, <3>5, <3>6 DEF new
  <2>2. CASE ~Takes(h, at)  BY <2>2 DEF Marked, AccessTypeOK
  <2>3. QED  BY <2>1, <2>2
<1>4. CASE h.store = "index"
  <2>0. says = IndexAnswer(h.scope, h.state, at)  BY <1>4
  <2>1. Takes(h, at) <=> says # Newer /\ IndexTakes(now, h.state, at)  BY <1>4, <2>0 DEF Takes
  <2>2. CASE h.scope = "repository" /\ h.state = "active" /\ marks["index"]["installation"].state = "revoked"
    <3>1. says = Newer  BY <2>0, <2>2 DEF IndexAnswer
    <3>2. QED  BY <1>1, <1>3, <1>4, <2>1, <2>2, <3>1 DEF Times, Newer
  <2>3. CASE ~(h.scope = "repository" /\ h.state = "active"
        /\ marks["index"]["installation"].state = "revoked")
    <3>1. says = IF IndexTakes(now, h.state, at) THEN Later(now.at, at)
                 ELSE IF h.state = "active" THEN now.at ELSE Newer
      BY <1>4, <2>0, <2>3 DEF IndexAnswer
    <3>2. CASE IndexTakes(now, h.state, at)
      <4>1. says = Later(now.at, at) /\ says # Newer  BY <1>2, <3>1, <3>2 DEF Newer
      <4>2. QED  BY <1>1, <1>2, <1>3, <1>4, <2>1, <3>2, <4>1 DEF Times
    <3>3. CASE ~IndexTakes(now, h.state, at)
      <4>1. now.at > at /\ now.state = h.state  BY <1>1, <3>3 DEF IndexTakes
      <4>2. next = marks  BY <1>3, <2>1, <3>3
      <4>3. now.at # Newer  BY <1>1, <4>1 DEF Newer
      <4>4. QED  BY <1>1, <1>3, <1>4, <3>1, <3>3, <4>1, <4>2, <4>3 DEF Times, Newer, State
    <3>4. QED  BY <3>2, <3>3
  <2>4. QED  BY <2>2, <2>3
<1>5. CASE h.store = "ledger"
  <2>1. Takes(h, at) <=> (now.at <= at \/ now.state # h.state)  BY <1>5 DEF Takes, LedgerTakes
  <2>2. QED  BY <1>1, <1>2, <1>3, <1>5, <2>1
<1>6. CASE h.store = "policy"
  <2>1. Takes(h, at) <=> now.at <= at  BY <1>6 DEF Takes, PolicyTakes
  <2>2. QED  BY <1>1, <1>2, <1>3, <1>6, <2>1
<1>7. QED  BY <1>1, <1>4, <1>5, <1>6 DEF Store
\* What the change that a task makes next is answered.
Says(t, h, at) ==
  IF h.store = "index" THEN IndexAnswer(h.scope, h.state, at) ELSE told[t][h.scope]
Refused(h, says) == h.store = "index" /\ says = Newer

\* What is left of a plan after the change h, of which rest remained.
Remains(t, h, says, rest, plan) ==
  /\ plan \in Seq(Change) /\ IsPlan(plan) /\ Planned(plan) \subseteq Planned(rest)
  /\ ~Refused(h, says) => plan = rest
  /\ Refused(h, says) /\ h.state = "revoked" =>
       \A x \in Planned(rest) : x.store # "ledger" => x \in Planned(plan)
GoesOn(t, h, says) ==
  \/ doing' = doing
  \/ doing' = [doing EXCEPT ![t] = "done"] /\ Refused(h, says) /\ doing[t] = "act"
     /\ task[t].wants = "active"
Took(t, h, rest, at, says) ==
  /\ InProgress(t) /\ steps[t] # <<>> /\ h \in Change /\ h \in Planned(steps[t])
  /\ steps[t] \in Seq(Change)
  /\ \A x \in Planned(steps[t]) : x = h \/ x \in Planned(rest)
  /\ Planned(rest) \subseteq Planned(steps[t]) /\ IsPlan(rest)
  /\ \A x \in Planned(rest) : Place(h) < Place(x) /\ x.state = h.state /\ x.at = h.at
  /\ granted' = granted /\ githubTime' = githubTime /\ announced' = announced
  /\ task' = task /\ first' = first
  /\ marks' = Marked(h, at)
  /\ told' = [told EXCEPT ![t][h.scope] = says]
  /\ history' = IF Refused(h, says) /\ h.state = "active" THEN history \union {"gaveUp"} ELSE history

(* What one change does to the task that makes it: it goes on with what is  *)
(* left, without the ledger if a revocation was refused, or gives up.       *)
LEMMA TakeStepFacts ==
  ASSUME AccessFit, NEW t \in Task, TakeStep(t),
         NEW h, h = Head(steps[t]), NEW rest, rest = Tail(steps[t]),
         NEW at, at = TimeOf(t, h), NEW says, says = Says(t, h, at)
  PROVE  /\ Took(t, h, rest, at, says) /\ GoesOn(t, h, says)
         /\ \E plan : steps' = [steps EXCEPT ![t] = plan] /\ Remains(t, h, says, rest, plan)
<1>1. /\ InProgress(t) /\ steps[t] # <<>>
      /\ steps[t] \in Seq(Change) /\ IsPlan(steps[t])
  BY DEF TakeStep, AccessFit, AccessTypeOK, PlansFit
<1>2. /\ rest \in Seq(Change) /\ h \in Change /\ h \in Planned(steps[t])
      /\ Planned(rest) \subseteq Planned(steps[t])
      /\ \A x \in Planned(steps[t]) : x = h \/ x \in Planned(rest)
  BY <1>1, PlannedTail
<1>3. IsPlan(rest) /\ \A x \in Planned(rest) : Place(h) < Place(x)  BY <1>1, PlanTail
<1>4. \A x \in Planned(rest) : x.state = h.state /\ x.at = h.at
  <2>1. Uniform(steps[t])  BY <1>1 DEF IsPlan
  <2>2. QED  BY <1>2, <2>1 DEF Uniform
<1>5. granted' = granted /\ githubTime' = githubTime /\ announced' = announced
      /\ task' = task /\ first' = first /\ marks' = Marked(h, at)
  BY DEF TakeStep, untouched
<1>6. told' = [told EXCEPT ![t][h.scope] = says]  BY DEF TakeStep, Says
<1>7. history' = IF Refused(h, says) /\ h.state = "active" THEN history \union {"gaveUp"} ELSE history
  BY DEF TakeStep, Says, Refused
<1>8. IF Refused(h, says) /\ doing[t] = "act" /\ task[t].wants = "active"
      THEN Becomes(t, "done", <<>>)
      ELSE Becomes(t, doing[t], IF Refused(h, says) THEN AfterRefusal(t, h) ELSE rest)
  BY DEF TakeStep, Says, Refused
<1>9. \A p : Becomes(t, doing[t], p) => doing' = doing /\ steps' = [steps EXCEPT ![t] = p]
  BY DEF Becomes, AccessFit, AccessTypeOK
<1>10. ASSUME h.store = "index"
       PROVE  /\ rest # <<>> /\ Head(rest).store = "ledger"
              /\ h.state = "active" => Tail(rest) # <<>>
  BY <1>1, <1>10, AfterIndex
<1>11. /\ GoesOn(t, h, says)
       /\ \E plan : steps' = [steps EXCEPT ![t] = plan] /\ Remains(t, h, says, rest, plan)
  <2> USE DEF GoesOn, Remains
  <2>1. CASE ~Refused(h, says)
    <3>1. doing' = doing /\ steps' = [steps EXCEPT ![t] = rest]  BY <1>8, <1>9, <2>1
    <3>2. QED  BY <1>2, <1>3, <2>1, <3>1
  <2>2. CASE Refused(h, says) /\ doing[t] = "act" /\ task[t].wants = "active"
    <3>1. doing' = [doing EXCEPT ![t] = "done"] /\ steps' = [steps EXCEPT ![t] = <<>>]
      BY <1>8, <2>2 DEF Becomes
    <3>2. h.state # "revoked"
      <4>1. first[t]  BY <1>1, <2>2 DEF AccessFit, PlansFit
      <4>2. ActsAsSeen(t)  BY <2>2 DEF AccessFit, PlansFit
      <4>3. QED  BY <1>2, <4>1, <4>2 DEF ActsAsSeen
    <3>3. <<>> \in Seq(Change)  OBVIOUS
    <3>4. IsPlan(<<>>) /\ Planned(<<>>) = {}  BY EmptyPlan
    <3>5. QED  BY <2>2, <3>1, <3>2, <3>3, <3>4
  <2>3. CASE Refused(h, says) /\ ~(doing[t] = "act" /\ task[t].wants = "active")
    <3>1. h.store = "index"  BY <2>3 DEF Refused
    <3>2. doing' = doing /\ steps' = [steps EXCEPT ![t] = AfterRefusal(t, h)]  BY <1>8, <1>9, <2>3
    <3>3. /\ Tail(rest) \in Seq(Change) /\ IsPlan(Tail(rest)) /\ Planned(Tail(rest)) \subseteq Planned(rest)
          /\ \A x \in Planned(rest) : x = Head(rest) \/ x \in Planned(Tail(rest))
      BY <1>2, <1>3, <1>10, <3>1, PlannedTail, PlanTail
    <3>4. CASE h.state = "revoked"
      <4>1. AfterRefusal(t, h) = Tail(rest)  BY <3>4 DEF AfterRefusal
      <4>2. \A x \in Planned(rest) : x.store # "ledger" => x \in Planned(Tail(rest))
        BY <1>10, <3>1, <3>3
      <4>3. QED  BY <2>3, <3>2, <3>3, <4>1, <4>2
    <3>5. CASE h.state = "active"
      <4>1. AfterRefusal(t, h) = Tail(Tail(rest))  BY <3>5 DEF AfterRefusal
      <4>2. Tail(rest) # <<>>  BY <1>10, <3>1, <3>5
      <4>3. Tail(Tail(rest)) \in Seq(Change) /\ IsPlan(Tail(Tail(rest)))
            /\ Planned(Tail(Tail(rest))) \subseteq Planned(Tail(rest))
        BY <3>3, <4>2, PlannedTail, PlanTail
      <4>4. QED  BY <2>3, <3>2, <3>3, <3>5, <4>1, <4>3
    <3>6. QED  BY <1>2, <3>4, <3>5 DEF Change, State
  <2>4. QED  BY <2>1, <2>2, <2>3
<1>12. Took(t, h, rest, at, says)  BY <1>1, <1>2, <1>3, <1>4, <1>5, <1>6, <1>7 DEF Took
<1>13. QED  BY <1>11, <1>12

\* What the change h leaves of its mark, which was now, and is new.
Leaves(h, at, says, now, new) ==
  /\ marks' \in [Store -> [Scope -> Mark]]
  /\ at \in Nat /\ at <= githubTime /\ says \in Times /\ says <= githubTime
  /\ \A store \in Store, s \in Scope :
       store # h.store \/ s # h.scope => marks'[store][s] = marks[store][s]
  /\ new.at >= now.at /\ new.at <= githubTime /\ new.at \in {now.at, at}
  /\ new.state \in {now.state, h.state}
  /\ h.store = "ledger" => new.state = h.state
  /\ h.store = "policy" /\ now.at <= at => new.state = h.state
  /\ h.store = "index" =>
       /\ at >= h.at
       /\ says # Newer => new.state = h.state /\ says = new.at /\ says >= at
       /\ says = Newer => marks' = marks
       /\ says = Newer /\ h.state = "revoked" => now.state = "revoked" /\ now.at > at
       /\ says = Newer /\ h.state = "active" =>
            h.scope = "repository" /\ marks["index"]["installation"].state = "revoked"

(* ... and to the stores.                                                   *)
LEMMA TakeStepMarks ==
  ASSUME AccessFit, NEW t \in Task, TakeStep(t),
         NEW h, h = Head(steps[t]),
         NEW at, at = TimeOf(t, h), NEW says, says = Says(t, h, at),
         NEW now, now = marks[h.store][h.scope], NEW new, new = marks'[h.store][h.scope]
  PROVE  Leaves(h, at, says, now, new)
<1>0. PICK rest : rest = Tail(steps[t])  OBVIOUS
<1>1. h \in Change /\ h \in Planned(steps[t]) /\ marks' = Marked(h, at)  BY <1>0, TakeStepFacts DEF Took
<1>2. at \in Nat /\ at <= githubTime /\ (h.store = "index" => at >= h.at)  BY <1>1, TimeOfBounds
<1>3. PICK next : next = Marked(h, at)  OBVIOUS
<1>4. Effect(h, at, says, now, next)
  <2>1. AccessTypeOK /\ NothingFromTheFuture  BY DEF AccessFit
  <2>2. h \in Change /\ at \in Nat /\ at <= githubTime  BY <1>1, <1>2
  <2>3. h.store = "index" => says = IndexAnswer(h.scope, h.state, at)  BY DEF Says
  <2>4. QED  BY <1>3, <2>1, <2>2, <2>3, AnswerFacts
<1>5. marks' = next  BY <1>1, <1>3
<1>7. says \in Times /\ says <= githubTime
  <2>1. CASE h.store = "index"  BY <1>4, <2>1 DEF Effect
  <2>2. CASE h.store # "index"
    <3>1. says = told[t][h.scope] /\ h.scope \in Scope  BY <1>1, <2>2 DEF Says, Change
    <3>2. QED  BY <3>1 DEF AccessFit, AccessTypeOK, NothingFromTheFuture
  <2>3. QED  BY <2>1, <2>2
<1>8. QED  BY <1>2, <1>4, <1>5, <1>7 DEF Effect, Leaves
-----------------------------------------------------------------------------
(* A task fits                                                              *)

\* A task that is so far, in terms of its own variables.
TaskFits(d, n, f, p, w, now) ==
  /\ n \in Notices /\ n.at <= now
  /\ d \in {"none", "look", "act", "undo", "finish", "done"}
  /\ f \in BOOLEAN /\ p \in Seq(Change) /\ IsPlan(p)
  /\ w \in [Scope -> Times] /\ \A s \in Scope : w[s] <= now
  /\ \A x \in Planned(p) : x.at <= now
  /\ d \in {"none", "look"} => \A s \in Scope : w[s] = Newer
  /\ d = "act" =>
       \A x \in Planned(p) : /\ x.at = n.at /\ ~x.own
                             /\ x.state = (IF f THEN "active" ELSE "revoked")
                             /\ ~f => x.store # "policy"
  /\ d \in {"act", "undo", "finish"} /\ n.wants = "active" => f
  /\ d = "undo" => n.scope = "repository"

(* If one task moves on and fits, and time does not go back, all fit.       *)
LEMMA OneTaskFits ==
  ASSUME AccessFit, NEW t \in Task, NEW now \in Nat, githubTime' = now, githubTime <= now,
         granted' \in [Scope -> BOOLEAN], announced' \subseteq Notices,
         \A n \in announced' : n.at <= now,
         marks' \in [Store -> [Scope -> Mark]],
         \A store \in Store, s \in Scope : marks'[store][s].at <= now,
         history' \subseteq {"lost", "raced", "gaveUp", "overlapped"},
         NEW d, NEW n, NEW f, NEW p, NEW w, TaskFits(d, n, f, p, w, now),
         task' = [task EXCEPT ![t] = n], doing' = [doing EXCEPT ![t] = d],
         first' = [first EXCEPT ![t] = f], steps' = [steps EXCEPT ![t] = p],
         told' = [told EXCEPT ![t] = w]
  PROVE  AccessFit'
<1>1. AccessTypeOK  BY DEF AccessFit
<1>2. AccessTypeOK'
  BY <1>1 DEF AccessTypeOK, TaskFits
<1>3. ASSUME NEW u \in Task
      PROVE  /\ task'[u].at <= now
             /\ \A s \in Scope : told'[u][s] <= now
             /\ \A x \in Planned(steps'[u]) : x.at <= now
  <2>1. CASE u = t  BY <1>1, <2>1 DEF AccessTypeOK, TaskFits
  <2>2. CASE u # t
    <3>1. task'[u] = task[u] /\ told'[u] = told[u] /\ steps'[u] = steps[u]  BY <1>1, <2>2 DEF AccessTypeOK
    <3>2. /\ task[u].at <= githubTime /\ task[u].at \in Nat
          /\ \A s \in Scope : told[u][s] <= githubTime /\ told[u][s] \in Nat \union {-1}
          /\ \A x \in Planned(steps[u]) : x.at <= githubTime
      BY <1>1 DEF AccessFit, NothingFromTheFuture, AccessTypeOK, Notices, Times, Newer
    <3>3. \A x \in Planned(steps[u]) : x.at \in Nat
      <4>1. Planned(steps[u]) \subseteq Change  BY <1>1 DEF AccessTypeOK, Planned
      <4>2. QED  BY <4>1 DEF Change
    <3>4. githubTime \in Nat  BY <1>1 DEF AccessTypeOK
    <3>5. task[u].at <= now  BY <3>2, <3>4
    <3>6. ASSUME NEW s \in Scope PROVE told[u][s] <= now
      <4>1. told[u][s] <= githubTime /\ told[u][s] \in Nat \union {-1}  BY <3>2
      <4>2. QED  BY <3>4, <4>1
    <3>7. ASSUME NEW x \in Planned(steps[u]) PROVE x.at <= now
      <4>1. x.at <= githubTime /\ x.at \in Nat  BY <3>2, <3>3
      <4>2. QED  BY <3>4, <4>1
    <3>8. QED  BY <3>1, <3>5, <3>6, <3>7
  <2>3. QED  BY <2>1, <2>2
<1>4. NothingFromTheFuture'
  BY <1>3 DEF NothingFromTheFuture
<1>5. ASSUME NEW u \in Task
      PROVE  /\ doing'[u] \in {"none", "look"} => \A s \in Scope : told'[u][s] = Newer
             /\ IsPlan(steps'[u])
             /\ doing'[u] = "act" =>
                  \A x \in Planned(steps'[u]) :
                     /\ x.at = task'[u].at /\ ~x.own
                     /\ x.state = (IF first'[u] THEN "active" ELSE "revoked")
                     /\ ~first'[u] => x.store # "policy"
             /\ doing'[u] \in {"act", "undo", "finish"} /\ task'[u].wants = "active" => first'[u]
             /\ doing'[u] = "undo" => task'[u].scope = "repository"
  <2>1. CASE u = t  BY <1>1, <2>1 DEF AccessTypeOK, TaskFits
  <2>2. CASE u # t
    <3>1. /\ task'[u] = task[u] /\ told'[u] = told[u] /\ steps'[u] = steps[u]
          /\ doing'[u] = doing[u] /\ first'[u] = first[u]
      BY <1>1, <2>2 DEF AccessTypeOK
    <3>2. QED  BY <3>1 DEF AccessFit, PlansFit, ActsAsSeen, InProgress
  <2>3. QED  BY <2>1, <2>2
<1>6. PlansFit'
  BY <1>5 DEF PlansFit, ActsAsSeen, InProgress
<1>7. QED  BY <1>2, <1>4, <1>6 DEF AccessFit

(* A task that has moved on so far fits.                                    *)
LEMMA TaskNowFits ==
  ASSUME AccessFit, NEW t \in Task
  PROVE  TaskFits(doing[t], task[t], first[t], steps[t], told[t], githubTime)
  BY DEF AccessFit, AccessTypeOK, NothingFromTheFuture, PlansFit, ActsAsSeen, InProgress, TaskFits
-----------------------------------------------------------------------------
(* Every action keeps the tasks fit                                         *)

(* A task that GitHub starts fits.                                          *)
LEMMA DeliveredFits ==
  ASSUME AccessFit, NEW t \in Task, doing[t] = "none", NEW n \in Notices,
         NEW now \in Nat, githubTime <= now, n.at <= now
  PROVE  TaskFits("look", n, first[t], steps[t], told[t], now)
<1>1. TaskFits(doing[t], task[t], first[t], steps[t], told[t], githubTime)  BY TaskNowFits
<1>2. githubTime \in Nat  BY DEF AccessFit, AccessTypeOK
<1>3. ASSUME NEW s \in Scope PROVE told[t][s] = Newer /\ told[t][s] <= now
  <2>1. told[t][s] = Newer  BY <1>1, <1>3 DEF TaskFits
  <2>2. QED  BY <2>1 DEF Newer
<1>4. ASSUME NEW x \in Planned(steps[t]) PROVE x.at <= now
  <2>1. x.at <= githubTime /\ x \in Change  BY <1>1, PlannedIn DEF TaskFits
  <2>2. QED  BY <1>2, <2>1 DEF Change
<1>5. QED  BY <1>1, <1>3, <1>4 DEF TaskFits

(* A change on GitHub makes one announcement and delivers it.               *)
LEMMA AccessChangesFits ==
  ASSUME AccessFit, NEW t \in Task, NEW scope \in Scope, AccessChanges(t, scope)
  PROVE  AccessFit'
<1> DEFINE n == Notice(scope, IF granted[scope] THEN "revoked" ELSE "active", githubTime + 1)
<1>1. /\ granted' = [granted EXCEPT ![scope] = ~@] /\ githubTime' = githubTime + 1
      /\ announced' = announced \union {n} /\ Deliver(t, n)
      /\ marks' = marks /\ first' = first /\ steps' = steps /\ told' = told
      /\ history' \subseteq history \union {"raced", "lost"}
  BY DEF AccessChanges
<1>2. n \in Notices /\ n.at = githubTime + 1 /\ githubTime \in Nat
  BY DEF AccessFit, AccessTypeOK, Notice, Notices, State
<1> HIDE DEF n
<1>3. doing[t] = "none" /\ task' = [task EXCEPT ![t] = n] /\ doing' = [doing EXCEPT ![t] = "look"]
  BY <1>1 DEF Deliver
<1>4. PICK now \in Nat : now = githubTime + 1 /\ githubTime <= now  BY <1>2
<1>5. TaskFits("look", n, first[t], steps[t], told[t], now)  BY <1>2, <1>3, <1>4, DeliveredFits
<1>6. granted' \in [Scope -> BOOLEAN] /\ announced' \subseteq Notices
  BY <1>1, <1>2 DEF AccessFit, AccessTypeOK
<1>7. \A m \in announced' : m.at <= now
  <2>1. ASSUME NEW m \in announced PROVE m.at <= now
    <3>1. m.at <= githubTime /\ m.at \in Nat
      BY DEF AccessFit, AccessTypeOK, NothingFromTheFuture, Notices
    <3>2. QED  BY <1>2, <1>4, <3>1
  <2>2. QED  BY <1>1, <1>2, <1>4, <2>1
<1>8. marks' \in [Store -> [Scope -> Mark]] /\ history' \subseteq {"lost", "raced", "gaveUp", "overlapped"}
  BY <1>1 DEF AccessFit, AccessTypeOK
<1>9. ASSUME NEW store \in Store, NEW s \in Scope PROVE marks'[store][s].at <= now
  <2>1. marks[store][s].at <= githubTime /\ marks[store][s].at \in Nat \union {-1}
    BY DEF AccessFit, AccessTypeOK, NothingFromTheFuture, Mark, Times, Newer
  <2>2. QED  BY <1>1, <1>2, <1>4, <2>1
<1>10. first' = [first EXCEPT ![t] = first[t]] /\ steps' = [steps EXCEPT ![t] = steps[t]]
       /\ told' = [told EXCEPT ![t] = told[t]]
  BY <1>1 DEF AccessFit, AccessTypeOK
<1>11. PICK f, p, w : f = first[t] /\ p = steps[t] /\ w = told[t]  OBVIOUS
<1>12. /\ TaskFits("look", n, f, p, w, now)
       /\ task' = [task EXCEPT ![t] = n] /\ doing' = [doing EXCEPT ![t] = "look"]
       /\ first' = [first EXCEPT ![t] = f] /\ steps' = [steps EXCEPT ![t] = p]
       /\ told' = [told EXCEPT ![t] = w]
  BY <1>3, <1>5, <1>10, <1>11
<1>13. githubTime' = now /\ githubTime <= now  BY <1>1, <1>4
<1>14. QED  BY <1>6, <1>7, <1>8, <1>9, <1>12, <1>13, OneTaskFits

(* What an action that leaves GitHub and the stores alone leaves as it was. *)
LEMMA NothingElseChanges ==
  ASSUME AccessFit, NEW t \in Task, granted' = granted, githubTime' = githubTime,
         announced' = announced, marks' = marks,
         history' \subseteq {"lost", "raced", "gaveUp", "overlapped"},
         NEW d, NEW n, NEW f, NEW p, NEW w, TaskFits(d, n, f, p, w, githubTime),
         task' = [task EXCEPT ![t] = n], doing' = [doing EXCEPT ![t] = d],
         first' = [first EXCEPT ![t] = f], steps' = [steps EXCEPT ![t] = p],
         told' = [told EXCEPT ![t] = w]
  PROVE  AccessFit'
<1>1. PICK now \in Nat : now = githubTime /\ githubTime <= now  BY DEF AccessFit, AccessTypeOK
<1>2. /\ granted' \in [Scope -> BOOLEAN] /\ announced' \subseteq Notices
      /\ \A m \in announced' : m.at <= now
      /\ marks' \in [Store -> [Scope -> Mark]]
      /\ \A store \in Store, s \in Scope : marks'[store][s].at <= now
  BY <1>1 DEF AccessFit, AccessTypeOK, NothingFromTheFuture
<1>3. TaskFits(d, n, f, p, w, now) /\ githubTime' = now  BY <1>1
<1>4. QED  BY <1>1, <1>2, <1>3, OneTaskFits

(* An announcement that is delivered again is none from the future.         *)
LEMMA AnnouncedAgainFits ==
  ASSUME AccessFit, NEW t \in Task, AnnouncedAgain(t)
  PROVE  AccessFit'
<1>1. PICK n \in announced :
        /\ Deliver(t, n)
        /\ history' = IF n.scope = "repository" /\ ~granted["installation"]
                      THEN history \union {"lost"} ELSE history
  BY DEF AnnouncedAgain
<1>2. /\ granted' = granted /\ githubTime' = githubTime /\ announced' = announced
      /\ marks' = marks /\ first' = first /\ steps' = steps /\ told' = told
  BY DEF AnnouncedAgain
<1>3. n \in Notices /\ n.at <= githubTime /\ githubTime \in Nat
  BY DEF AccessFit, AccessTypeOK, NothingFromTheFuture
<1>4. doing[t] = "none" /\ task' = [task EXCEPT ![t] = n] /\ doing' = [doing EXCEPT ![t] = "look"]
  BY <1>1 DEF Deliver
<1>5. PICK now \in Nat : now = githubTime /\ githubTime <= now /\ n.at <= now  BY <1>3
<1>6. TaskFits("look", n, first[t], steps[t], told[t], now)  BY <1>3, <1>4, <1>5, DeliveredFits
<1>7. history' \subseteq {"lost", "raced", "gaveUp", "overlapped"}
  BY <1>1 DEF AccessFit, AccessTypeOK
<1>8. first' = [first EXCEPT ![t] = first[t]] /\ steps' = [steps EXCEPT ![t] = steps[t]]
      /\ told' = [told EXCEPT ![t] = told[t]]
  BY <1>2 DEF AccessFit, AccessTypeOK
<1>9. PICK f, p, w : f = first[t] /\ p = steps[t] /\ w = told[t]  OBVIOUS
<1>10. /\ TaskFits("look", n, f, p, w, githubTime)
       /\ task' = [task EXCEPT ![t] = n] /\ doing' = [doing EXCEPT ![t] = "look"]
       /\ first' = [first EXCEPT ![t] = f] /\ steps' = [steps EXCEPT ![t] = p]
       /\ told' = [told EXCEPT ![t] = w]
  BY <1>4, <1>5, <1>6, <1>8, <1>9
<1>11. QED  BY <1>2, <1>7, <1>10, NothingElseChanges
\* What a task does that sees what it sees at first.
FirstPlan(n, sees, p) ==
  /\ p \in Seq(Change) /\ IsPlan(p)
  /\ \A x \in Planned(p) :
       /\ x.at = n.at /\ ~x.own /\ x.state = (IF sees THEN "active" ELSE "revoked")
       /\ x.scope = n.scope \/ (sees /\ x.scope = "installation")
       /\ ~sees => x.store # "policy"
  /\ Has(p, "index", n.scope) /\ Has(p, "ledger", n.scope)
  /\ sees => Has(p, "policy", n.scope) /\ Has(p, "index", "installation")

(* The first look: the plan that follows from what it sees.                 *)
LEMMA LookFacts ==
  ASSUME AccessFit, NEW t \in Task, Look(t), NEW n, n = task[t], NEW sees, sees = Accessible(n.scope)
  PROVE  /\ doing[t] = "look" /\ sees \in BOOLEAN /\ n \in Notices /\ n.at <= githubTime
         /\ granted' = granted /\ githubTime' = githubTime /\ announced' = announced
         /\ task' = task /\ marks' = marks /\ told' = told /\ taskFaults' = taskFaults
         /\ first' = [first EXCEPT ![t] = sees]
         /\ history' = history
              \union (IF n.wants = "active" /\ ~sees /\ first[t] THEN {"gaveUp"} ELSE {})
              \union (IF ~(n.wants = "active" /\ ~sees) /\ Overlapping(t) THEN {"overlapped"} ELSE {})
         /\ n.wants = "active" /\ ~sees =>
              doing' = [doing EXCEPT ![t] = "done"] /\ steps' = [steps EXCEPT ![t] = <<>>]
         /\ ~(n.wants = "active" /\ ~sees) =>
              /\ doing' = [doing EXCEPT ![t] = "act"]
              /\ \E p : steps' = [steps EXCEPT ![t] = p] /\ FirstPlan(n, sees, p)
<1>1. n \in Notices /\ n.at <= githubTime /\ n.scope \in Scope /\ n.at \in Nat
  BY DEF AccessFit, AccessTypeOK, NothingFromTheFuture, Notices
<1>2. sees \in BOOLEAN
  <2>1. granted \in [Scope -> BOOLEAN]  BY DEF AccessFit, AccessTypeOK
  <2>2. QED  BY <2>1 DEF Accessible, Scope
<1>3. /\ doing[t] = "look"
      /\ granted' = granted /\ githubTime' = githubTime /\ announced' = announced
      /\ task' = task /\ marks' = marks /\ told' = told /\ taskFaults' = taskFaults
      /\ first' = [first EXCEPT ![t] = sees]
      /\ history' = history
              \union (IF n.wants = "active" /\ ~sees /\ first[t] THEN {"gaveUp"} ELSE {})
              \union (IF ~(n.wants = "active" /\ ~sees) /\ Overlapping(t) THEN {"overlapped"} ELSE {})
      /\ IF n.wants = "active" /\ ~sees THEN Becomes(t, "done", <<>>)
         ELSE Becomes(t, "act", IF sees THEN Restoration(n.scope, n.at) ELSE Revocation(n.scope, n.at))
  BY DEF Look, untouched
<1>4. ASSUME n.wants = "active" /\ ~sees
      PROVE  doing' = [doing EXCEPT ![t] = "done"] /\ steps' = [steps EXCEPT ![t] = <<>>]
  BY <1>3, <1>4 DEF Becomes
<1>5. ASSUME ~(n.wants = "active" /\ ~sees)
      PROVE  /\ doing' = [doing EXCEPT ![t] = "act"]
             /\ \E p : steps' = [steps EXCEPT ![t] = p] /\ FirstPlan(n, sees, p)
  <2> USE DEF FirstPlan
  <2>1. PICK p : p = IF sees THEN Restoration(n.scope, n.at) ELSE Revocation(n.scope, n.at)  OBVIOUS
  <2>2. doing' = [doing EXCEPT ![t] = "act"] /\ steps' = [steps EXCEPT ![t] = p]
    BY <1>3, <1>5, <2>1 DEF Becomes
  <2>3. CASE sees
    <3>1. /\ IsPlan(p)
          /\ \A x \in Planned(p) :
               x \in Change /\ (x.scope = n.scope \/ x.scope = "installation") /\ x.state = "active"
                     /\ x.at = n.at /\ ~x.own
          /\ \A store \in Store : Has(p, store, n.scope)
          /\ Has(p, "index", "installation")
      BY <1>1, <2>1, <2>3, RestorationPlan
    <3>2. p \in Seq(Change)  BY <3>1 DEF IsPlan
    <3>3. QED  BY <2>2, <2>3, <3>1, <3>2 DEF Store
  <2>4. CASE ~sees
    <3>1. /\ IsPlan(p)
          /\ \A x \in Planned(p) :
               x \in Change /\ x.scope = n.scope /\ x.state = "revoked" /\ x.at = n.at /\ ~x.own
                     /\ x.store # "policy"
          /\ Has(p, "index", n.scope) /\ Has(p, "ledger", n.scope)
      BY <1>1, <2>1, <2>4, RevocationPlan
    <3>2. p \in Seq(Change)  BY <3>1 DEF IsPlan
    <3>3. QED  BY <2>2, <2>4, <3>1, <3>2
  <2>5. QED  BY <1>2, <2>3, <2>4
<1>6. QED  BY <1>1, <1>2, <1>3, <1>4, <1>5

(* The first look gives a task a plan that fits.                            *)
LEMMA LookFits ==
  ASSUME AccessFit, NEW t \in Task, Look(t)
  PROVE  AccessFit'
<1>1. PICK n : n = task[t]  OBVIOUS
<1>2. PICK sees : sees = Accessible(n.scope)  OBVIOUS
<1>3. /\ doing[t] = "look" /\ sees \in BOOLEAN /\ n \in Notices /\ n.at <= githubTime
      /\ granted' = granted /\ githubTime' = githubTime /\ announced' = announced
      /\ task' = task /\ marks' = marks /\ told' = told /\ first' = [first EXCEPT ![t] = sees]
      /\ history' = history
              \union (IF n.wants = "active" /\ ~sees /\ first[t] THEN {"gaveUp"} ELSE {})
              \union (IF ~(n.wants = "active" /\ ~sees) /\ Overlapping(t) THEN {"overlapped"} ELSE {})
  BY <1>1, <1>2, LookFacts
<1>10. history' \subseteq {"lost", "raced", "gaveUp", "overlapped"}
  BY <1>3 DEF AccessFit, AccessTypeOK
<1>4. PICK w : w = told[t]  OBVIOUS
<1>5. /\ told' = [told EXCEPT ![t] = w] /\ task' = [task EXCEPT ![t] = n]
  BY <1>1, <1>3, <1>4 DEF AccessFit, AccessTypeOK
<1>6. w \in [Scope -> Times] /\ \A s \in Scope : w[s] <= githubTime /\ w[s] = Newer
  BY <1>3, <1>4 DEF AccessFit, AccessTypeOK, NothingFromTheFuture, PlansFit
<1>7. CASE n.wants = "active" /\ ~sees
  <2>1. doing' = [doing EXCEPT ![t] = "done"] /\ steps' = [steps EXCEPT ![t] = <<>>]
    BY <1>1, <1>2, <1>7, LookFacts
  <2>2. <<>> \in Seq(Change) /\ IsPlan(<<>>) /\ Planned(<<>>) = {}  BY EmptyPlan DEF IsPlan
  <2>3. PICK p : p = <<>>  OBVIOUS
  <2>4. TaskFits("done", n, sees, p, w, githubTime)  BY <1>3, <1>6, <2>2, <2>3 DEF TaskFits
  <2>5. steps' = [steps EXCEPT ![t] = p]  BY <2>1, <2>3
  <2>6. PICK d : d = "done"  OBVIOUS
  <2>7. TaskFits(d, n, sees, p, w, githubTime) /\ doing' = [doing EXCEPT ![t] = d]  BY <2>1, <2>4, <2>6
  <2>8. QED  BY <1>3, <1>5, <1>10, <2>5, <2>7, NothingElseChanges
<1>8. CASE ~(n.wants = "active" /\ ~sees)
  <2>1. doing' = [doing EXCEPT ![t] = "act"]  BY <1>1, <1>2, <1>8, LookFacts
  <2>2. PICK p : steps' = [steps EXCEPT ![t] = p] /\ FirstPlan(n, sees, p)
    BY <1>1, <1>2, <1>8, LookFacts
  <2>3. TaskFits("act", n, sees, p, w, githubTime)  BY <1>3, <1>6, <1>8, <2>2 DEF TaskFits, FirstPlan
  <2>4. steps' = [steps EXCEPT ![t] = p]  BY <2>2
  <2>5. QED  BY <1>3, <1>5, <1>10, <2>1, <2>3, <2>4, NothingElseChanges
<1>9. QED  BY <1>7, <1>8
\* What a task that saw f at first has still to do when it sees now what it sees.
SecondPlan(n, f, sees, d, p) ==
  /\ p \in Seq(Change) /\ IsPlan(p) /\ d \in {"done", "undo", "finish"}
  /\ \A x \in Planned(p) :
       /\ x.at <= githubTime /\ x.state = (IF sees THEN "active" ELSE "revoked")
       /\ x.scope = n.scope \/ (sees /\ x.scope = "installation")
  /\ d = "undo" => n.scope = "repository"
  /\ d = "done" <=> sees /\ f
  /\ d = "done" => p = <<>>
  /\ ~sees /\ ~f => /\ d = "finish" /\ Has(p, "policy", n.scope)
                    /\ \A x \in Planned(p) : x.store = "policy" /\ x.at = n.at
  /\ sees # f => \A store \in Store : Has(p, store, n.scope)
  /\ sees /\ ~f => Has(p, "index", "installation")

(* The second look: what is left to do, and that it is as GitHub grants.    *)
LEMMA LookAgainFacts ==
  ASSUME AccessFit, NEW t \in Task, LookAgain(t), NEW n, n = task[t], NEW sees, sees = Accessible(n.scope)
  PROVE  /\ doing[t] = "act" /\ steps[t] = <<>> /\ sees \in BOOLEAN /\ n \in Notices
         /\ granted' = granted /\ githubTime' = githubTime /\ announced' = announced
         /\ task' = task /\ marks' = marks /\ told' = told /\ first' = first /\ history' = history
         /\ \E d, p : /\ doing' = [doing EXCEPT ![t] = d] /\ steps' = [steps EXCEPT ![t] = p]
                      /\ SecondPlan(n, first[t], sees, d, p)
<1> DEFINE at    == n.at
           late  == ToldOr(t, n.scope, at)
           back  == IF n.wants = "revoked" THEN late ELSE at
           own   == n.wants = "revoked" /\ n.scope = "installation"
           undo  == Revocation(n.scope, back) \o Purge(n.scope, back, own)
<1>1. n \in Notices /\ n.scope \in Scope /\ n.at \in Nat /\ at <= githubTime
  BY DEF AccessFit, AccessTypeOK, NothingFromTheFuture, Notices
<1>2. sees \in BOOLEAN /\ first[t] \in BOOLEAN
  <2>1. granted \in [Scope -> BOOLEAN] /\ first[t] \in BOOLEAN  BY DEF AccessFit, AccessTypeOK
  <2>2. QED  BY <2>1 DEF Accessible, Scope
<1>3. /\ doing[t] = "act" /\ steps[t] = <<>>
      /\ granted' = granted /\ githubTime' = githubTime /\ announced' = announced
      /\ task' = task /\ marks' = marks /\ told' = told /\ first' = first /\ history' = history
  BY DEF LookAgain, untouched
<1>4. \/ sees /\ first[t] /\ Becomes(t, "done", <<>>)
      \/ ~sees /\ ~first[t] /\ Becomes(t, "finish", Purge(n.scope, at, FALSE))
      \/ sees /\ ~first[t] /\ Becomes(t, "finish", Restoration(n.scope, late))
      \/ ~sees /\ first[t] /\ Becomes(t, IF n.scope = "repository" THEN "undo" ELSE "finish", undo)
  BY DEF LookAgain, SeesNow
<1>5. late \in Nat /\ late <= githubTime /\ back \in Nat /\ back <= githubTime
  <2>1. told[t][n.scope] \in Nat \union {-1} /\ told[t][n.scope] <= githubTime
    BY <1>1 DEF AccessFit, AccessTypeOK, NothingFromTheFuture, Times, Newer
  <2>2. late = IF told[t][n.scope] = -1 THEN at ELSE told[t][n.scope]  BY DEF ToldOr, Newer
  <2>3. late \in Nat /\ late <= githubTime  BY <1>1, <2>1, <2>2
  <2>4. QED  BY <1>1, <2>3
<1> HIDE DEF late, back, own, undo
<1>6. own \in BOOLEAN  BY DEF own
<1>20. SUFFICES \E d, p : /\ doing' = [doing EXCEPT ![t] = d] /\ steps' = [steps EXCEPT ![t] = p]
                        /\ SecondPlan(n, first[t], sees, d, p)
  BY <1>1, <1>2, <1>3
<1>7. CASE sees /\ first[t]
  <2>1. PICK d, p : d = "done" /\ p = <<>>  OBVIOUS
  <2>2. doing' = [doing EXCEPT ![t] = d] /\ steps' = [steps EXCEPT ![t] = p]
    BY <1>4, <1>7, <2>1 DEF Becomes
  <2>3. p \in Seq(Change) /\ IsPlan(p) /\ Planned(p) = {}  BY <2>1, EmptyPlan DEF IsPlan
  <2>4. SecondPlan(n, first[t], sees, d, p)  BY <1>1, <1>2, <1>7, <2>1, <2>3 DEF SecondPlan
  <2>5. QED  BY <2>2, <2>4
<1>8. CASE ~sees /\ ~first[t]
  <2>1. PICK d, p : d = "finish" /\ p = Purge(n.scope, at, FALSE)  OBVIOUS
  <2>2. doing' = [doing EXCEPT ![t] = d] /\ steps' = [steps EXCEPT ![t] = p]
    BY <1>4, <1>8, <2>1 DEF Becomes
  <2>3. /\ IsPlan(p) /\ Has(p, "policy", n.scope)
        /\ \A x \in Planned(p) :
              x \in Change /\ x.scope = n.scope /\ x.state = "revoked" /\ x.at = at /\ x.store = "policy"
    <3>1. PICK c : c = Step("policy", n.scope, "revoked", at, FALSE)  OBVIOUS
    <3>2. c \in Change /\ c.store = "policy" /\ c.scope = n.scope /\ c.state = "revoked" /\ c.at = at
      BY <1>1, <3>1 DEF Step, Change, Store, State
    <3>3. p = <<c>>  BY <2>1, <3>1 DEF Purge
    <3>4. QED  BY <1>1, <3>2, <3>3, PurgePlan
  <2>4. p \in Seq(Change)  BY <2>3 DEF IsPlan
  <2>5. SecondPlan(n, first[t], sees, d, p)  BY <1>1, <1>2, <1>8, <2>1, <2>3, <2>4 DEF SecondPlan
  <2>6. QED  BY <2>2, <2>5
<1>9. CASE sees /\ ~first[t]
  <2>1. PICK d, p : d = "finish" /\ p = Restoration(n.scope, late)  OBVIOUS
  <2>2. doing' = [doing EXCEPT ![t] = d] /\ steps' = [steps EXCEPT ![t] = p]
    BY <1>4, <1>9, <2>1 DEF Becomes
  <2>3. /\ IsPlan(p) /\ (\A store \in Store : Has(p, store, n.scope)) /\ Has(p, "index", "installation")
        /\ \A x \in Planned(p) :
              x \in Change /\ (x.scope = n.scope \/ x.scope = "installation") /\ x.state = "active"
                    /\ x.at = late /\ ~x.own
    BY <1>1, <1>5, <2>1, RestorationPlan
  <2>4. p \in Seq(Change)  BY <2>3 DEF IsPlan
  <2>5. SecondPlan(n, first[t], sees, d, p)  BY <1>1, <1>2, <1>5, <1>9, <2>1, <2>3, <2>4 DEF SecondPlan, Store
  <2>6. QED  BY <2>2, <2>5
<1>10. CASE ~sees /\ first[t]
  <2>1. PICK d, p : d = (IF n.scope = "repository" THEN "undo" ELSE "finish") /\ p = undo  OBVIOUS
  <2>2. doing' = [doing EXCEPT ![t] = d] /\ steps' = [steps EXCEPT ![t] = p]
    BY <1>4, <1>10, <2>1 DEF Becomes
  <2>3. p = Revocation(n.scope, back) \o Purge(n.scope, back, own)  BY <2>1 DEF undo
  <2>4. /\ IsPlan(p) /\ \A store \in Store : Has(p, store, n.scope)
        /\ \A x \in Planned(p) : x \in Change /\ x.scope = n.scope /\ x.state = "revoked" /\ x.at = back
    <3>1. PICK c : c = Step("policy", n.scope, "revoked", back, own)  OBVIOUS
    <3>2. c \in Change /\ c.store = "policy" /\ c.scope = n.scope /\ c.state = "revoked" /\ c.at = back
      BY <1>1, <1>5, <1>6, <3>1 DEF Step, Change, Store, State
    <3>3. PICK v : v = <<c>>  OBVIOUS
    <3>4. p = Revocation(n.scope, back) \o v  BY <2>3, <3>1, <3>3 DEF Purge
    <3>5. n.scope \in Scope /\ back \in Nat  BY <1>1, <1>5
    <3>6. PICK z : z = n.scope  OBVIOUS
    <3>7. z \in Scope /\ c.scope = z /\ p = Revocation(z, back) \o v  BY <3>2, <3>4, <3>5, <3>6
    <3>8. /\ IsPlan(p)
          /\ \A x \in Planned(p) : x \in Change /\ x.scope = z /\ x.state = "revoked" /\ x.at = back
          /\ \A store \in Store : Has(p, store, z)
      <4>1. PICK u, y : u = Revocation(z, back) /\ y = back  OBVIOUS
      <4>2. u = Revocation(z, y) /\ y \in Nat /\ c.at = y /\ p = u \o v  BY <3>2, <3>5, <3>7, <4>1
      <4>3. /\ IsPlan(p)
            /\ \A x \in Planned(p) : x \in Change /\ x.scope = z /\ x.state = "revoked" /\ x.at = y
            /\ \A store \in Store : Has(p, store, z)
        <5>1. /\ IsPlan(v) /\ Has(v, "policy", z)
              /\ \A x \in Planned(v) :
                   x \in Change /\ x.scope = z /\ x.state = "revoked" /\ x.at = y /\ x.store = "policy"
          BY <3>2, <3>3, <3>7, <4>2, PurgePlan
        <5>2. p = Revocation(z, y) \o v  BY <4>2
        <5>3. QED  BY <3>7, <4>2, <5>1, <5>2, RevocationAndPurgePlan
      <4>4. QED  BY <4>1, <4>3
    <3>9. QED  BY <3>6, <3>8
  <2>5. p \in Seq(Change)  BY <2>4 DEF IsPlan
  <2>6. SecondPlan(n, first[t], sees, d, p)  BY <1>1, <1>2, <1>5, <1>10, <2>1, <2>4,
        <2>5 DEF SecondPlan, Store
  <2>7. QED  BY <2>2, <2>6
<1>11. QED  BY <1>2, <1>7, <1>8, <1>9, <1>10

(* So does the second look,                                                 *)
LEMMA LookAgainFits ==
  ASSUME AccessFit, NEW t \in Task, LookAgain(t)
  PROVE  AccessFit'
<1>1. PICK n : n = task[t]  OBVIOUS
<1>2. PICK sees : sees = Accessible(n.scope)  OBVIOUS
<1>3. /\ doing[t] = "act" /\ sees \in BOOLEAN
      /\ granted' = granted /\ githubTime' = githubTime /\ announced' = announced
      /\ task' = task /\ marks' = marks /\ told' = told /\ first' = first /\ history' = history
  BY <1>1, <1>2, LookAgainFacts
<1>4. PICK d, p : /\ doing' = [doing EXCEPT ![t] = d] /\ steps' = [steps EXCEPT ![t] = p]
                  /\ SecondPlan(n, first[t], sees, d, p)
  BY <1>1, <1>2, LookAgainFacts
<1>5. PICK f, w : f = first[t] /\ w = told[t]  OBVIOUS
<1>6. TaskFits("act", n, f, steps[t], w, githubTime)  BY <1>1, <1>3, <1>5, TaskNowFits
<1>7. TaskFits(d, n, f, p, w, githubTime)  BY <1>4, <1>6 DEF TaskFits, SecondPlan
<1>8. /\ task' = [task EXCEPT ![t] = n] /\ first' = [first EXCEPT ![t] = f]
      /\ told' = [told EXCEPT ![t] = w] /\ history' \subseteq {"lost", "raced", "gaveUp", "overlapped"}
  BY <1>1, <1>3, <1>5 DEF AccessFit, AccessTypeOK
<1>9. doing' = [doing EXCEPT ![t] = d] /\ steps' = [steps EXCEPT ![t] = p]  BY <1>4
<1>10. /\ granted' = granted /\ githubTime' = githubTime /\ announced' = announced /\ marks' = marks
  BY <1>3
<1>11. QED  BY <1>7, <1>8, <1>9, <1>10, NothingElseChanges

(* A task that looks at the installation finishes with what it had left, or *)
(* with the installation.                                                   *)
LEMMA LookAtInstallationFacts ==
  ASSUME AccessFit, NEW t \in Task, LookAtInstallation(t)
  PROVE  /\ doing[t] = "undo"
         /\ granted' = granted /\ githubTime' = githubTime /\ announced' = announced
         /\ task' = task /\ marks' = marks /\ told' = told /\ first' = first /\ history' = history
         /\ doing' = [doing EXCEPT ![t] = "finish"]
         /\ granted["installation"] => steps' = steps
         /\ \E p \in Seq(Change) : /\ steps' = [steps EXCEPT ![t] = p] /\ IsPlan(p)
                                   /\ \A x \in Planned(p) : x.at <= githubTime
<1>1. /\ doing[t] = "undo"
      /\ granted' = granted /\ githubTime' = githubTime /\ announced' = announced
      /\ task' = task /\ marks' = marks /\ told' = told /\ first' = first /\ history' = history
  BY DEF LookAtInstallation, untouched
<1> DEFINE at == ToldOr(t, "installation", task[t].at)
<1>2. Becomes(t, "finish", IF granted["installation"] THEN steps[t]
                ELSE Revocation("installation", at) \o Purge("installation", at, FALSE))
  BY DEF LookAtInstallation
<1>3. at \in Nat /\ at <= githubTime
  <2>1. /\ told[t]["installation"] \in Nat \union {-1} /\ told[t]["installation"] <= githubTime
        /\ task[t].at \in Nat /\ task[t].at <= githubTime
    BY DEF AccessFit, AccessTypeOK, NothingFromTheFuture, Times, Newer, Scope, Notices
  <2>2. QED  BY <2>1 DEF ToldOr, Newer
<1> HIDE DEF at
<1>4. doing' = [doing EXCEPT ![t] = "finish"]  BY <1>2 DEF Becomes
<1>5. CASE granted["installation"]
  <2>1. PICK p : p = steps[t]  OBVIOUS
  <2>2. steps' = [steps EXCEPT ![t] = p]  BY <1>2, <1>5, <2>1 DEF Becomes
  <2>3. steps' = steps  BY <2>1, <2>2 DEF AccessFit, AccessTypeOK
  <2>4. p \in Seq(Change) /\ IsPlan(p) /\ \A x \in Planned(p) : x.at <= githubTime
    BY <2>1 DEF AccessFit, AccessTypeOK, NothingFromTheFuture, PlansFit
  <2>5. QED  BY <1>1, <1>4, <2>2, <2>3, <2>4
<1>6. CASE ~granted["installation"]
  <2>1. PICK p : p = Revocation("installation", at) \o Purge("installation", at, FALSE)  OBVIOUS
  <2>2. steps' = [steps EXCEPT ![t] = p]  BY <1>2, <1>6, <2>1 DEF Becomes
  <2>3. "installation" \in Scope  BY DEF Scope
  <2>4. IsPlan(p) /\ \A x \in Planned(p) : x.at = at
    <3>1. PICK c : c = Step("policy", "installation", "revoked", at, FALSE)  OBVIOUS
    <3>2. c \in Change /\ c.store = "policy" /\ c.scope = "installation" /\ c.state = "revoked" /\ c.at = at
      BY <1>3, <2>3, <3>1 DEF Step, Change, Store, State
    <3>3. PICK v : v = <<c>>  OBVIOUS
    <3>4. p = Revocation("installation", at) \o v  BY <2>1, <3>1, <3>3 DEF Purge
    <3>5. at \in Nat  BY <1>3
    <3>6. PICK z : z = "installation"  OBVIOUS
    <3>7. z \in Scope /\ c.scope = z /\ p = Revocation(z, at) \o v  BY <2>3, <3>2, <3>4, <3>6
    <3>8. /\ IsPlan(p)
          /\ \A x \in Planned(p) : x \in Change /\ x.scope = z /\ x.state = "revoked" /\ x.at = at
          /\ \A store \in Store : Has(p, store, z)
      <4>1. PICK u, y : u = Revocation(z, at) /\ y = at  OBVIOUS
      <4>2. u = Revocation(z, y) /\ y \in Nat /\ c.at = y /\ p = u \o v  BY <3>2, <3>5, <3>7, <4>1
      <4>3. /\ IsPlan(p)
            /\ \A x \in Planned(p) : x \in Change /\ x.scope = z /\ x.state = "revoked" /\ x.at = y
            /\ \A store \in Store : Has(p, store, z)
        <5>1. /\ IsPlan(v) /\ Has(v, "policy", z)
              /\ \A x \in Planned(v) :
                   x \in Change /\ x.scope = z /\ x.state = "revoked" /\ x.at = y /\ x.store = "policy"
          BY <3>2, <3>3, <3>7, <4>2, PurgePlan
        <5>2. p = Revocation(z, y) \o v  BY <4>2
        <5>3. QED  BY <3>7, <4>2, <5>1, <5>2, RevocationAndPurgePlan
      <4>4. QED  BY <4>1, <4>3
    <3>9. QED  BY <3>8
  <2>5. p \in Seq(Change)  BY <2>4 DEF IsPlan
  <2>6. QED  BY <1>1, <1>3, <1>4, <1>6, <2>2, <2>4, <2>5
<1>7. QED  BY <1>5, <1>6

(* and the look at the installation.                                        *)
LEMMA LookAtInstallationFits ==
  ASSUME AccessFit, NEW t \in Task, LookAtInstallation(t)
  PROVE  AccessFit'
<1>1. /\ doing[t] = "undo"
      /\ granted' = granted /\ githubTime' = githubTime /\ announced' = announced
      /\ task' = task /\ marks' = marks /\ told' = told /\ first' = first /\ history' = history
  BY LookAtInstallationFacts
<1>2. PICK p \in Seq(Change) : /\ steps' = [steps EXCEPT ![t] = p] /\ IsPlan(p)
                               /\ \A x \in Planned(p) : x.at <= githubTime
  BY LookAtInstallationFacts
<1>3. PICK d, n, f, w : d = "finish" /\ n = task[t] /\ f = first[t] /\ w = told[t]  OBVIOUS
<1>4. TaskFits("undo", n, f, steps[t], w, githubTime)  BY <1>1, <1>3, TaskNowFits
<1>5. TaskFits(d, n, f, p, w, githubTime)  BY <1>2, <1>3, <1>4 DEF TaskFits
<1>6. /\ task' = [task EXCEPT ![t] = n] /\ first' = [first EXCEPT ![t] = f]
      /\ told' = [told EXCEPT ![t] = w] /\ history' \subseteq {"lost", "raced", "gaveUp", "overlapped"}
      /\ doing' = [doing EXCEPT ![t] = d] /\ steps' = [steps EXCEPT ![t] = p]
  BY <1>1, <1>2, <1>3, LookAtInstallationFacts DEF AccessFit, AccessTypeOK
<1>7. QED  BY <1>1, <1>5, <1>6, NothingElseChanges

(* A task that ended, or failed, has forgotten what the index told it.      *)
LEMMA TaskEndsFits ==
  ASSUME AccessFit, NEW t \in Task, TaskEnds(t) \/ TaskFails(t)
  PROVE  AccessFit'
<1>1. PICK d \in {"done", "look"} : Becomes(t, d, <<>>) /\ InProgress(t)
  BY DEF TaskEnds, TaskFails, InProgress
<1>2. PICK p, n, f, w : p = <<>> /\ n = task[t] /\ f = first[t] /\ w = [s \in Scope |-> Newer]  OBVIOUS
<1>3. /\ granted' = granted /\ githubTime' = githubTime /\ announced' = announced
      /\ marks' = marks /\ history' \subseteq {"lost", "raced", "gaveUp", "overlapped"}
  BY DEF TaskEnds, TaskFails, untouched, AccessFit, AccessTypeOK
<1>4. /\ doing' = [doing EXCEPT ![t] = d] /\ steps' = [steps EXCEPT ![t] = p]
      /\ told' = [told EXCEPT ![t] = w]
  BY <1>1, <1>2 DEF Becomes, TaskEnds, TaskFails
<1>5. task' = [task EXCEPT ![t] = n] /\ first' = [first EXCEPT ![t] = f]
  BY <1>2 DEF TaskEnds, TaskFails, untouched, AccessFit, AccessTypeOK
<1>6. p \in Seq(Change) /\ IsPlan(p) /\ Planned(p) = {}  BY <1>2, EmptyPlan DEF IsPlan
<1>7. w \in [Scope -> Times] /\ \A s \in Scope : w[s] = Newer /\ w[s] <= githubTime
  <2>1. githubTime \in Nat  BY DEF AccessFit, AccessTypeOK
  <2>2. Newer \in Times /\ Newer <= githubTime  BY <2>1 DEF Times, Newer
  <2>3. QED  BY <1>2, <2>2
<1>8. TaskFits(doing[t], n, f, steps[t], told[t], githubTime)  BY <1>2, TaskNowFits
<1>9. TaskFits(d, n, f, p, w, githubTime)  BY <1>1, <1>6, <1>7, <1>8 DEF TaskFits
<1>10. QED  BY <1>3, <1>4, <1>5, <1>9, NothingElseChanges

(* A task that made a change fits, and so do the stores.                    *)
LEMMA TakeStepFits ==
  ASSUME AccessFit, NEW t \in Task, TakeStep(t)
  PROVE  AccessFit'
<1>1. PICK h : h = Head(steps[t])  OBVIOUS
<1>2. PICK rest, at : rest = Tail(steps[t]) /\ at = TimeOf(t, h)  OBVIOUS
<1>3. PICK says : says = Says(t, h, at)  OBVIOUS
<1>4. PICK now, new : now = marks[h.store][h.scope] /\ new = marks'[h.store][h.scope]  OBVIOUS
<1>5. Took(t, h, rest, at, says) /\ GoesOn(t, h, says)  BY <1>1, <1>2, <1>3, TakeStepFacts
<1>6. PICK p : steps' = [steps EXCEPT ![t] = p] /\ Remains(t, h, says, rest, p)
  BY <1>1, <1>2, <1>3, TakeStepFacts
<1>7. /\ marks' \in [Store -> [Scope -> Mark]]
      /\ says \in Times /\ says <= githubTime
      /\ \A store \in Store, s \in Scope :
           store # h.store \/ s # h.scope => marks'[store][s] = marks[store][s]
      /\ new.at <= githubTime
  BY <1>1, <1>2, <1>3, <1>4, TakeStepMarks DEF Leaves
<1>8. PICK now2 \in Nat : now2 = githubTime /\ githubTime <= now2 /\ githubTime' = now2
  BY <1>5 DEF AccessFit, AccessTypeOK, Took
<1>9. \A store \in Store, s \in Scope : marks'[store][s].at <= now2
  <2> SUFFICES ASSUME NEW store \in Store, NEW s \in Scope PROVE marks'[store][s].at <= githubTime
    BY <1>8
  <2>1. CASE store = h.store /\ s = h.scope  BY <1>4, <1>7, <2>1
  <2>2. CASE store # h.store \/ s # h.scope
    BY <1>7, <2>2 DEF AccessFit, NothingFromTheFuture
  <2>3. QED  BY <2>1, <2>2
<1>10. PICK d, n, f, w : /\ d \in {doing[t], "done"} /\ doing' = [doing EXCEPT ![t] = d]
                         /\ n = task[t] /\ f = first[t] /\ w = [told[t] EXCEPT ![h.scope] = says]
  BY <1>5 DEF AccessFit, AccessTypeOK, GoesOn
<1>11. /\ told' = [told EXCEPT ![t] = w]
       /\ task' = [task EXCEPT ![t] = n] /\ first' = [first EXCEPT ![t] = f]
  BY <1>5, <1>10 DEF AccessFit, AccessTypeOK, Took
<1>12. w \in [Scope -> Times] /\ \A s \in Scope : w[s] <= githubTime
  <2>1. told[t] \in [Scope -> Times] /\ \A s \in Scope : told[t][s] <= githubTime
    BY DEF AccessFit, AccessTypeOK, NothingFromTheFuture
  <2>2. QED  BY <1>5, <1>7, <1>10, <2>1 DEF Change, Took
<1>13. TaskFits(doing[t], n, f, steps[t], told[t], githubTime)  BY <1>10, TaskNowFits
<1>14. TaskFits(d, n, f, p, w, githubTime)
  BY <1>5, <1>6, <1>10, <1>12, <1>13 DEF TaskFits, InProgress, Took, Remains
<1>15. TaskFits(d, n, f, p, w, now2)  BY <1>8, <1>14
<1>16. /\ granted' \in [Scope -> BOOLEAN] /\ announced' \subseteq Notices
       /\ history' \subseteq {"lost", "raced", "gaveUp", "overlapped"}
       /\ \A m \in announced' : m.at <= now2
  BY <1>5, <1>8 DEF AccessFit, AccessTypeOK, NothingFromTheFuture, Took
<1>17. marks' \in [Store -> [Scope -> Mark]] /\ doing' = [doing EXCEPT ![t] = d]
       /\ steps' = [steps EXCEPT ![t] = p]
  BY <1>6, <1>7, <1>10
<1>18. QED  BY <1>8, <1>9, <1>11, <1>15, <1>16, <1>17, OneTaskFits

(* To begin with there is nothing to do.                                    *)
LEMMA InitFits == AccessInit => AccessFit
<1> SUFFICES ASSUME AccessInit PROVE AccessFit  OBVIOUS
<1>1. Newer \in Times /\ 0 \in Times /\ Newer <= 0 /\ 0 \in Nat  BY DEF Newer, Times
<1>2. \A r \in State, a \in {0, Newer} : Marks(r, a) \in [Scope -> Mark]
      /\ \A s \in Scope : Marks(r, a)[s].at <= 0
  BY <1>1 DEF Marks, Mark, State
<1>3. /\ marks \in [Store -> [Scope -> Mark]] /\ \A store \in Store, s \in Scope : marks[store][s].at <= 0
  BY <1>2 DEF AccessInit, State
<1>4. /\ granted \in [Scope -> BOOLEAN] /\ githubTime = 0 /\ history = {}
      /\ task = [t \in Task |-> Notice("repository", "active", 0)]
      /\ doing = [t \in Task |-> "none"] /\ first = [t \in Task |-> FALSE]
      /\ steps = [t \in Task |-> <<>>]
      /\ told = [t \in Task |-> [s \in Scope |-> Newer]]
      /\ announced \subseteq {Notice("repository", "revoked", 0)}
  BY DEF AccessInit
<1>5. \A r \in State : Notice("repository", r, 0) \in Notices /\ Notice("repository", r, 0).at = 0
  BY DEF Notice, Notices, Scope
<1>6. <<>> \in Seq(Change) /\ IsPlan(<<>>) /\ Planned(<<>>) = {}  BY EmptyPlan DEF IsPlan
<1>7. AccessTypeOK  BY <1>1, <1>3, <1>4, <1>5, <1>6 DEF AccessTypeOK, State
<1>8. NothingFromTheFuture  BY <1>1, <1>3, <1>4, <1>5, <1>6 DEF NothingFromTheFuture, State
<1>9. PlansFit  BY <1>4, <1>6 DEF PlansFit, ActsAsSeen, InProgress
<1>10. QED  BY <1>7, <1>8, <1>9 DEF AccessFit

(* Every step keeps the tasks fitting.                                      *)
LEMMA NextFits == ASSUME AccessFit, [AccessNext]_accessVars PROVE AccessFit'
<1>1. CASE UNCHANGED accessVars
  BY <1>1 DEF accessVars, AccessFit, AccessTypeOK, NothingFromTheFuture, PlansFit, ActsAsSeen, InProgress
<1>2. ASSUME NEW t \in Task, NEW scope \in Scope, AccessChanges(t, scope) PROVE AccessFit'
  BY <1>2, AccessChangesFits
<1>3. ASSUME NEW t \in Task, AnnouncedAgain(t) \/ Look(t) \/ TakeStep(t) \/ LookAgain(t)
             \/ LookAtInstallation(t) \/ TaskEnds(t) \/ TaskFails(t)
      PROVE  AccessFit'
  BY <1>3, AnnouncedAgainFits, LookFits, TakeStepFits, LookAgainFits, LookAtInstallationFits, TaskEndsFits
<1>4. QED  BY <1>1, <1>2, <1>3 DEF AccessNext

(* Whatever is delivered, in whatever order, every task has a plan of       *)
(* changes in the order of the stores, which agree on one state and carry   *)
(* no time that GitHub has not reached, and so do the stores.               *)
THEOREM TasksFit == AccessSpec => []AccessFit
<1>1. AccessInit => AccessFit  BY InitFits
<1>2. AccessFit /\ [AccessNext]_accessVars => AccessFit'  BY NextFits
<1>3. QED  BY <1>1, <1>2, PTL DEF AccessSpec
-----------------------------------------------------------------------------
(* A repository's task goes about the repository only                       *)

\* While nothing is lost, a task of the repository finds the installation
\* granted, and changes its own scope only, except that it restores the
\* installation along.
Scoped ==
  \A t \in Task :
    /\ Pending(t) => granted["installation"]
    /\ InProgress(t) => \A x \in Planned(steps[t]) :
         \/ x.scope = task[t].scope
         \/ x.scope = "installation" /\ x.state = "active" /\ task[t].scope = "repository"

ScopesFit == "lost" \notin history => Scoped

(* If one task moves on in its scope, all keep to theirs.                   *)
LEMMA OneTaskScoped ==
  ASSUME AccessFit, ScopesFit, NEW t \in Task, history \subseteq history',
         "lost" \notin history' => \A u \in Task \ {t} : Pending(u) => granted'["installation"],
         NEW d, NEW n, NEW p,
         task' = [task EXCEPT ![t] = n], doing' = [doing EXCEPT ![t] = d],
         steps' = [steps EXCEPT ![t] = p],
         "lost" \notin history' =>
           /\ d \in {"look", "act", "undo", "finish"} /\ n.scope = "repository" => granted'["installation"]
           /\ d \in {"act", "undo", "finish"} => \A x \in Planned(p) :
                \/ x.scope = n.scope
                \/ x.scope = "installation" /\ x.state = "active" /\ n.scope = "repository"
  PROVE  ScopesFit'
<1> SUFFICES ASSUME "lost" \notin history' PROVE Scoped'  BY DEF ScopesFit
<1>1. Scoped  BY DEF ScopesFit
<1>2. AccessTypeOK  BY DEF AccessFit
<1>3. ASSUME NEW u \in Task
      PROVE  /\ (doing'[u] = "look" \/ doing'[u] \in {"act", "undo", "finish"})
                  /\ task'[u].scope = "repository"
                  => granted'["installation"]
             /\ doing'[u] \in {"act", "undo", "finish"} => \A x \in Planned(steps'[u]) :
                  \/ x.scope = task'[u].scope
                  \/ x.scope = "installation" /\ x.state = "active" /\ task'[u].scope = "repository"
  <2>1. CASE u = t
    <3>1. task'[u] = n /\ doing'[u] = d /\ steps'[u] = p  BY <1>2, <2>1 DEF AccessTypeOK
    <3>2. QED  BY <3>1
  <2>2. CASE u # t
    <3>1. task'[u] = task[u] /\ doing'[u] = doing[u] /\ steps'[u] = steps[u]
      BY <1>2, <2>2 DEF AccessTypeOK
    <3>2. QED  BY <1>1, <2>2, <3>1 DEF Scoped, Pending, InProgress
  <2>3. QED  BY <2>1, <2>2
<1>4. QED  BY <1>3 DEF Scoped, Pending, InProgress

(* ... also when what GitHub grants stays.                                  *)
LEMMA OneTaskMovesScoped ==
  ASSUME AccessFit, ScopesFit, NEW t \in Task, history \subseteq history', granted' = granted,
         NEW d, NEW n, NEW p,
         task' = [task EXCEPT ![t] = n], doing' = [doing EXCEPT ![t] = d],
         steps' = [steps EXCEPT ![t] = p],
         "lost" \notin history' =>
           /\ d \in {"look", "act", "undo", "finish"} /\ n.scope = "repository" => granted["installation"]
           /\ d \in {"act", "undo", "finish"} => \A x \in Planned(p) :
                \/ x.scope = n.scope
                \/ x.scope = "installation" /\ x.state = "active" /\ n.scope = "repository"
  PROVE  ScopesFit'
<1>1. "lost" \notin history' => \A u \in Task \ {t} : Pending(u) => granted'["installation"]
  BY DEF ScopesFit, Scoped
<1>2. "lost" \notin history' =>
           /\ d \in {"look", "act", "undo", "finish"} /\ n.scope = "repository" => granted'["installation"]
           /\ d \in {"act", "undo", "finish"} => \A x \in Planned(p) :
                \/ x.scope = n.scope
                \/ x.scope = "installation" /\ x.state = "active" /\ n.scope = "repository"
  OBVIOUS
<1>3. QED  BY <1>1, <1>2, OneTaskScoped

(* A change on GitHub loses something, or suspends no installation under a  *)
(* task of the repository.                                                  *)
LEMMA AccessChangesScoped ==
  ASSUME AccessFit, ScopesFit, NEW t \in Task, NEW scope \in Scope, AccessChanges(t, scope)
  PROVE  ScopesFit'
<1>1. PICK n : n = Notice(scope, IF granted[scope] THEN "revoked" ELSE "active", githubTime + 1)  OBVIOUS
<1>2. /\ doing[t] = "none" /\ task' = [task EXCEPT ![t] = n] /\ doing' = [doing EXCEPT ![t] = "look"]
      /\ n.scope = scope
  BY <1>1 DEF AccessChanges, Deliver, Notice
<1>3. PICK p, d : p = steps[t] /\ d = "look"  OBVIOUS
<1>4. steps' = [steps EXCEPT ![t] = p] /\ doing' = [doing EXCEPT ![t] = d]
  BY <1>2, <1>3 DEF AccessChanges, AccessFit, AccessTypeOK
<1>5. /\ history \subseteq history'
      /\ "lost" \notin history' => \A u \in Task : Pending(u) => granted'["installation"]
  BY DEF AccessChanges
<1>6. n.scope = "repository" => granted'["installation"]
  <2>1. granted' = [granted EXCEPT ![scope] = ~@] /\ granted \in [Scope -> BOOLEAN]
        /\ (scope = "repository" => granted["installation"])
    BY DEF AccessChanges, AccessFit, AccessTypeOK
  <2>2. QED  BY <1>2, <2>1 DEF Scope
<1>7. "lost" \notin history' => \A u \in Task \ {t} : Pending(u) => granted'["installation"]
  BY <1>5
<1>8. "lost" \notin history' =>
           /\ d \in {"look", "act", "undo", "finish"} /\ n.scope = "repository" => granted'["installation"]
           /\ d \in {"act", "undo", "finish"} => \A x \in Planned(p) :
                \/ x.scope = n.scope
                \/ x.scope = "installation" /\ x.state = "active" /\ n.scope = "repository"
  BY <1>3, <1>6
<1>9. QED  BY <1>2, <1>4, <1>5, <1>7, <1>8, OneTaskScoped

(* An announcement of the repository under a suspended installation is      *)
(* lost.                                                                    *)
LEMMA DeliveryScoped ==
  ASSUME AccessFit, ScopesFit, NEW t \in Task, AnnouncedAgain(t)
  PROVE  ScopesFit'
<1>1. PICK n : Deliver(t, n) /\ history' = IF n.scope = "repository" /\ ~granted["installation"]
                                           THEN history \union {"lost"} ELSE history
  BY DEF AnnouncedAgain
<1>2. granted' = granted /\ steps' = steps /\ history \subseteq history'  BY <1>1 DEF AnnouncedAgain
<1>3. PICK p, d : p = steps[t] /\ d = "look"  OBVIOUS
<1>4. /\ steps' = [steps EXCEPT ![t] = p] /\ doing' = [doing EXCEPT ![t] = d]
      /\ task' = [task EXCEPT ![t] = n]
  BY <1>1, <1>2, <1>3 DEF Deliver, AccessFit, AccessTypeOK
<1>5. "lost" \notin history' =>
           /\ d \in {"look", "act", "undo", "finish"} /\ n.scope = "repository" => granted["installation"]
           /\ d \in {"act", "undo", "finish"} => \A x \in Planned(p) :
                \/ x.scope = n.scope
                \/ x.scope = "installation" /\ x.state = "active" /\ n.scope = "repository"
  BY <1>1, <1>3
<1>6. QED  BY <1>2, <1>4, <1>5, OneTaskMovesScoped

(* The first look plans for the task's own scope.                           *)
LEMMA LookScoped ==
  ASSUME AccessFit, ScopesFit, NEW t \in Task, Look(t)
  PROVE  ScopesFit'
<1>1. PICK n : n = task[t]  OBVIOUS
<1>2. PICK sees : sees = Accessible(n.scope)  OBVIOUS
<1>3. /\ doing[t] = "look" /\ n \in Notices /\ sees \in BOOLEAN
      /\ granted' = granted /\ task' = task /\ history \subseteq history'
      /\ n.wants = "active" /\ ~sees =>
              doing' = [doing EXCEPT ![t] = "done"] /\ steps' = [steps EXCEPT ![t] = <<>>]
      /\ ~(n.wants = "active" /\ ~sees) =>
              /\ doing' = [doing EXCEPT ![t] = "act"]
              /\ \E p : steps' = [steps EXCEPT ![t] = p] /\ FirstPlan(n, sees, p)
  BY <1>1, <1>2, LookFacts
<1>4. "lost" \notin history => Scoped  BY DEF ScopesFit
<1>5. n.scope \in Scope /\ task' = [task EXCEPT ![t] = n]
  BY <1>1, <1>3 DEF Notices, AccessFit, AccessTypeOK
<1>6. n.scope = "repository" /\ "lost" \notin history' => granted["installation"]
  BY <1>1, <1>3, <1>4 DEF Scoped, Pending
<1>7. CASE n.wants = "active" /\ ~sees
  <2>1. PICK d, p : d = "done" /\ p = <<>>  OBVIOUS
  <2>2. doing' = [doing EXCEPT ![t] = d] /\ steps' = [steps EXCEPT ![t] = p]  BY <1>3, <1>7, <2>1
  <2>3. d \notin {"look", "act", "undo", "finish"}  BY <2>1
  <2>4. QED  BY <1>3, <1>5, <2>2, <2>3, OneTaskMovesScoped
<1>8. CASE ~(n.wants = "active" /\ ~sees)
  <2>1. PICK p : steps' = [steps EXCEPT ![t] = p] /\ FirstPlan(n, sees, p)  BY <1>3, <1>8
  <2>2. PICK d : d = "act" /\ doing' = [doing EXCEPT ![t] = d]  BY <1>3, <1>8
  <2>3. d \in {"act", "undo", "finish"} => \A x \in Planned(p) :
                \/ x.scope = n.scope
                \/ x.scope = "installation" /\ x.state = "active" /\ n.scope = "repository"
    BY <1>5, <2>1 DEF FirstPlan, Scope
  <2>4. QED  BY <1>3, <1>5, <1>6, <2>1, <2>2, <2>3, OneTaskMovesScoped
<1>9. QED  BY <1>7, <1>8

(* So does the second look.                                                 *)
LEMMA LookAgainScoped ==
  ASSUME AccessFit, ScopesFit, NEW t \in Task, LookAgain(t)
  PROVE  ScopesFit'
<1>1. PICK n : n = task[t]  OBVIOUS
<1>2. PICK sees : sees = Accessible(n.scope)  OBVIOUS
<1>3. /\ doing[t] = "act" /\ n \in Notices /\ sees \in BOOLEAN
      /\ granted' = granted /\ task' = task /\ history \subseteq history'
  BY <1>1, <1>2, LookAgainFacts
<1>4. PICK d, p : /\ doing' = [doing EXCEPT ![t] = d] /\ steps' = [steps EXCEPT ![t] = p]
                  /\ SecondPlan(n, first[t], sees, d, p)
  BY <1>1, <1>2, LookAgainFacts
<1>5. "lost" \notin history => Scoped  BY DEF ScopesFit
<1>6. n.scope = "repository" /\ "lost" \notin history' => granted["installation"]
  BY <1>1, <1>3, <1>5 DEF Scoped, Pending, InProgress
<1>7. n.scope \in Scope  BY <1>3 DEF Notices
<1>8. d \in {"act", "undo", "finish"} => \A x \in Planned(p) :
                \/ x.scope = n.scope
                \/ x.scope = "installation" /\ x.state = "active" /\ n.scope = "repository"
  BY <1>4, <1>7 DEF SecondPlan, Scope
<1>9. task' = [task EXCEPT ![t] = n]  BY <1>1, <1>3 DEF AccessFit, AccessTypeOK
<1>10. QED  BY <1>3, <1>4, <1>6, <1>8, <1>9, OneTaskMovesScoped

(* A task that makes a change, ends or fails keeps the scope of its plan.   *)
LEMMA LessPlannedScoped ==
  ASSUME AccessFit, ScopesFit, NEW t \in Task, history \subseteq history', granted' = granted, task' = task,
         InProgress(t), NEW d, NEW p,
         doing' = [doing EXCEPT ![t] = d], steps' = [steps EXCEPT ![t] = p],
         Planned(p) \subseteq Planned(steps[t])
  PROVE  ScopesFit'
<1>1. PICK n : n = task[t]  OBVIOUS
<1>2. task' = [task EXCEPT ![t] = n]  BY <1>1 DEF AccessFit, AccessTypeOK
<1>3. "lost" \notin history => Scoped  BY DEF ScopesFit
<1>4. "lost" \notin history' =>
           /\ d \in {"look", "act", "undo", "finish"} /\ n.scope = "repository" => granted["installation"]
           /\ d \in {"act", "undo", "finish"} => \A x \in Planned(p) :
                \/ x.scope = n.scope
                \/ x.scope = "installation" /\ x.state = "active" /\ n.scope = "repository"
  BY <1>1, <1>3 DEF Scoped, Pending
<1>5. QED  BY <1>2, <1>4, OneTaskMovesScoped

(* A change that was made leaves a plan of the same scope.                  *)
LEMMA TakeStepScoped ==
  ASSUME AccessFit, ScopesFit, NEW t \in Task, TakeStep(t)
  PROVE  ScopesFit'
<1>1. PICK h : h = Head(steps[t])  OBVIOUS
<1>2. PICK rest, at : rest = Tail(steps[t]) /\ at = TimeOf(t, h)  OBVIOUS
<1>3. PICK says : says = Says(t, h, at)  OBVIOUS
<1>4. Took(t, h, rest, at, says) /\ GoesOn(t, h, says)  BY <1>1, <1>2, <1>3, TakeStepFacts
<1>5. PICK p : steps' = [steps EXCEPT ![t] = p] /\ Remains(t, h, says, rest, p)
  BY <1>1, <1>2, <1>3, TakeStepFacts
<1>6. PICK d : doing' = [doing EXCEPT ![t] = d]  BY <1>4 DEF GoesOn, AccessFit, AccessTypeOK
<1>7. /\ InProgress(t) /\ granted' = granted /\ task' = task /\ history \subseteq history'
      /\ Planned(p) \subseteq Planned(steps[t])
  BY <1>4, <1>5 DEF Took, Remains
<1>8. QED  BY <1>5, <1>6, <1>7, LessPlannedScoped

(* A task that ended or failed has no plan.                                 *)
LEMMA TaskEndsScoped ==
  ASSUME AccessFit, ScopesFit, NEW t \in Task, TaskEnds(t) \/ TaskFails(t)
  PROVE  ScopesFit'
<1>1. PICK d : Becomes(t, d, <<>>) /\ InProgress(t)  BY DEF TaskEnds, TaskFails, InProgress
<1>2. PICK p : p = <<>>  OBVIOUS
<1>3. /\ doing' = [doing EXCEPT ![t] = d] /\ steps' = [steps EXCEPT ![t] = p]
      /\ history \subseteq history' /\ granted' = granted /\ task' = task
  BY <1>1, <1>2 DEF Becomes, TaskEnds, TaskFails, untouched
<1>4. Planned(p) \subseteq Planned(steps[t])  BY <1>2, EmptyPlan
<1>5. QED  BY <1>1, <1>3, <1>4, LessPlannedScoped

(* While nothing is lost, the look at the installation changes no plan.     *)
LEMMA LookAtInstallationScoped ==
  ASSUME AccessFit, ScopesFit, NEW t \in Task, LookAtInstallation(t)
  PROVE  ScopesFit'
<1>1. /\ doing[t] = "undo" /\ granted' = granted /\ task' = task /\ history' = history
      /\ doing' = [doing EXCEPT ![t] = "finish"]
      /\ granted["installation"] => steps' = steps
  BY LookAtInstallationFacts
<1>2. task[t].scope = "repository" /\ InProgress(t)
  BY <1>1 DEF AccessFit, PlansFit, InProgress
<1>3. CASE "lost" \in history  BY <1>1, <1>3 DEF ScopesFit
<1>4. CASE "lost" \notin history
  <2>1. granted["installation"]  BY <1>1, <1>2, <1>4 DEF ScopesFit, Scoped, Pending
  <2>2. PICK d, p : d = "finish" /\ p = steps[t]  OBVIOUS
  <2>3. doing' = [doing EXCEPT ![t] = d] /\ steps' = [steps EXCEPT ![t] = p]
    BY <1>1, <2>1, <2>2 DEF AccessFit, AccessTypeOK
  <2>4. Planned(p) \subseteq Planned(steps[t]) /\ history \subseteq history'  BY <1>1, <2>2
  <2>5. QED  BY <1>1, <1>2, <2>3, <2>4, LessPlannedScoped
<1>5. QED  BY <1>3, <1>4

(* Every step keeps tasks in their scope.                                   *)
LEMMA NextScoped == ASSUME AccessFit, ScopesFit, [AccessNext]_accessVars PROVE ScopesFit'
<1>1. CASE UNCHANGED accessVars
  BY <1>1 DEF accessVars, ScopesFit, Scoped, Pending, InProgress
<1>2. ASSUME NEW t \in Task, NEW scope \in Scope, AccessChanges(t, scope) PROVE ScopesFit'
  BY <1>2, AccessChangesScoped
<1>3. ASSUME NEW t \in Task, AnnouncedAgain(t) \/ Look(t) \/ TakeStep(t) \/ LookAgain(t)
             \/ LookAtInstallation(t) \/ TaskEnds(t) \/ TaskFails(t)
      PROVE  ScopesFit'
  BY <1>3, DeliveryScoped, LookScoped, TakeStepScoped, LookAgainScoped, LookAtInstallationScoped,
        TaskEndsScoped
<1>4. QED  BY <1>1, <1>2, <1>3 DEF AccessNext
-----------------------------------------------------------------------------
(* The index, however the tasks overlap                                     *)

\* What the stores should say of a scope.
Target(s) == IF granted[s] THEN "active" ELSE "revoked"
Calm == history \intersect {"lost", "raced", "gaveUp"} = {}

\* What a task does after its second look is what GitHub grants.
FinishesRight ==
  \A t \in Task : doing[t] \in {"undo", "finish"} =>
    \A x \in Planned(steps[t]) : x.state = Target(x.scope)

\* The task will yet bring the index to what GitHub grants: it has not looked, it
\* saw at first what it will not see again, or it has the change ahead.
Fixes(t, s) ==
  /\ task[t].scope = s
  /\ \/ doing[t] = "look" /\ (task[t].wants = "revoked" \/ granted[s] \/ first[t])
     \/ doing[t] = "act" /\ (first[t] # granted[s])
     \/ InProgress(t) /\ \E x \in Planned(steps[t]) :
          x.store = "index" /\ x.scope = s /\ x.state = Target(s)
IndexOwed(s) == marks["index"][s].state = Target(s) \/ \E t \in Task : Fixes(t, s)
IndexFits == Calm => FinishesRight /\ \A s \in Scope : IndexOwed(s)

Moves(t, d, n, f, p) ==
  /\ doing' = [doing EXCEPT ![t] = d] /\ task' = [task EXCEPT ![t] = n]
  /\ first' = [first EXCEPT ![t] = f] /\ steps' = [steps EXCEPT ![t] = p]

(* A move of one task is none of the others.                                *)
LEMMA MovesOne ==
  ASSUME AccessTypeOK, NEW t \in Task, NEW d, NEW n, NEW f, NEW p, Moves(t, d, n, f, p)
  PROVE  /\ doing'[t] = d /\ task'[t] = n /\ first'[t] = f /\ steps'[t] = p
         /\ \A u \in Task \ {t} : /\ doing'[u] = doing[u] /\ task'[u] = task[u]
                                  /\ first'[u] = first[u] /\ steps'[u] = steps[u]
  BY DEF Moves, AccessTypeOK

(* A task of the repository that nothing was lost for sees what the         *)
(* repository is granted, since its installation is.                        *)
LEMMA SeesItsScope ==
  ASSUME AccessFit, ScopesFit, Calm, NEW t \in Task, doing[t] = "look" \/ InProgress(t),
         NEW n, n = task[t]
  PROVE  /\ n.scope \in Scope /\ (Accessible(n.scope) <=> granted[n.scope])
         /\ n.scope = "repository" => granted["installation"]
<1>1. n.scope \in Scope  BY DEF AccessFit, AccessTypeOK, Notices
<1>2. Scoped  BY DEF Calm, ScopesFit
<1>3. n.scope = "repository" => granted["installation"]  BY <1>2 DEF Scoped, Pending
<1>4. QED  BY <1>1, <1>3 DEF Accessible, Scope

(* The other tasks will still fix what they would have fixed.               *)
LEMMA OthersFix ==
  ASSUME AccessFit, NEW t \in Task, NEW d, NEW n, NEW f, NEW p, Moves(t, d, n, f, p),
         NEW s \in Scope, granted'[s] = granted[s], NEW u \in Task, u # t, Fixes(u, s)
  PROVE  Fixes(u, s)'
<1>1. /\ doing'[u] = doing[u] /\ task'[u] = task[u]
      /\ first'[u] = first[u] /\ steps'[u] = steps[u]
  BY MovesOne DEF AccessFit
<1>2. QED  BY <1>1 DEF Fixes, InProgress, Target

(* So the index is owed a fix still if the task that moves still fixes it,  *)
(* or leaves it right.                                                      *)
LEMMA IndexStillOwed ==
  ASSUME AccessFit, NEW t \in Task, NEW d, NEW n, NEW f, NEW p, Moves(t, d, n, f, p),
         NEW s \in Scope, granted'[s] = granted[s], IndexOwed(s),
         marks["index"][s].state = Target(s) => IndexOwed(s)',
         Fixes(t, s) => IndexOwed(s)'
  PROVE  IndexOwed(s)'
<1>1. CASE marks["index"][s].state = Target(s)  BY <1>1
<1>2. CASE Fixes(t, s)  BY <1>2
<1>3. ASSUME NEW u \in Task, u # t, Fixes(u, s) PROVE IndexOwed(s)'
  <2>1. Fixes(u, s)'  BY <1>3, OthersFix
  <2>2. QED  BY <2>1 DEF IndexOwed
<1>4. QED  BY <1>1, <1>2, <1>3 DEF IndexOwed

(* What the other tasks finish with stays right, if GitHub grants the same. *)
LEMMA OthersFinishRight ==
  ASSUME AccessFit, FinishesRight, NEW t \in Task, NEW d, NEW n, NEW f, NEW p, Moves(t, d, n, f, p),
         granted' = granted,
         d \in {"undo", "finish"} => \A x \in Planned(p) : x.state = Target(x.scope)
  PROVE  FinishesRight'
<1>1. ASSUME NEW u \in Task, doing'[u] \in {"undo", "finish"}, NEW x \in Planned(steps'[u])
      PROVE  x.state = IF granted[x.scope] THEN "active" ELSE "revoked"
  <2>1. CASE u = t
    <3>1. doing'[u] = d /\ steps'[u] = p  BY <2>1, MovesOne DEF AccessFit
    <3>2. QED  BY <1>1, <3>1 DEF Target
  <2>2. CASE u # t
    <3>1. doing'[u] = doing[u] /\ steps'[u] = steps[u]  BY <2>2, MovesOne DEF AccessFit
    <3>2. QED  BY <1>1, <3>1 DEF FinishesRight, Target
  <2>3. QED  BY <2>1, <2>2
<1>2. QED  BY <1>1 DEF FinishesRight, Target

(* A change on GitHub owes the index a fix, and its announcement is one.    *)
LEMMA AccessChangesIndex ==
  ASSUME AccessFit, ScopesFit, IndexFits, NEW t \in Task, NEW c \in Scope, AccessChanges(t, c)
  PROVE  IndexFits'
<1> SUFFICES ASSUME Calm' PROVE FinishesRight' /\ \A s \in Scope : IndexOwed(s)'  BY DEF IndexFits
<1>1. AccessTypeOK  BY DEF AccessFit
<1>2. PICK n : n = Notice(c, IF granted[c] THEN "revoked" ELSE "active", githubTime + 1)  OBVIOUS
<1>3. /\ n.scope = c /\ n.wants = (IF granted[c] THEN "revoked" ELSE "active")
      /\ doing[t] = "none" /\ marks' = marks /\ granted' = [granted EXCEPT ![c] = ~@]
      /\ task' = [task EXCEPT ![t] = n] /\ doing' = [doing EXCEPT ![t] = "look"]
      /\ first' = first /\ steps' = steps
  BY <1>2 DEF AccessChanges, Deliver, Notice
<1>4. PICK d, f, p : d = "look" /\ f = first[t] /\ p = steps[t]  OBVIOUS
<1>5. Moves(t, d, n, f, p)  BY <1>1, <1>3, <1>4 DEF Moves, AccessTypeOK
<1>6. Calm /\ ~\E u \in Task : doing[u] \in {"undo", "finish"}
  BY DEF Calm, AccessChanges
<1>7. FinishesRight'
  <2>1. \A u \in Task : doing'[u] \notin {"undo", "finish"}
    BY <1>1, <1>3, <1>6 DEF AccessTypeOK
  <2>2. QED  BY <2>1 DEF FinishesRight
<1>8. granted'[c] <=> ~granted[c]  BY <1>1, <1>3 DEF AccessTypeOK
<1>9. IndexOwed(c)'
  <2>1. task'[t] = n /\ doing'[t] = "look"  BY <1>1, <1>3 DEF AccessTypeOK
  <2>2. Fixes(t, c)'  BY <1>3, <1>8, <2>1 DEF Fixes
  <2>3. QED  BY <2>2 DEF IndexOwed
<1>10. ASSUME NEW s \in Scope, s # c PROVE IndexOwed(s)'
  <2>1. granted'[s] = granted[s]  BY <1>1, <1>3, <1>10 DEF AccessTypeOK
  <2>2. IndexOwed(s)  BY <1>6 DEF IndexFits
  <2>3. marks["index"][s].state = Target(s) => IndexOwed(s)'
    BY <1>3, <2>1 DEF IndexOwed, Target
  <2>4. ~Fixes(t, s)  BY <1>3 DEF Fixes, InProgress
  <2>5. QED  BY <1>5, <2>1, <2>2, <2>3, <2>4, IndexStillOwed
<1>11. QED  BY <1>7, <1>9, <1>10

(* Moves of a task that leave GitHub's grants alone.                        *)
LEMMA MovesIndex ==
  ASSUME AccessFit, ScopesFit, IndexFits, NEW t \in Task, granted' = granted, history \subseteq history',
         NEW d, NEW n, NEW f, NEW p, Moves(t, d, n, f, p),
         Calm /\ Calm' /\ d \in {"undo", "finish"} => \A x \in Planned(p) : x.state = Target(x.scope),
         Calm /\ Calm' => \A s \in Scope : IndexOwed(s) =>
           /\ marks["index"][s].state = Target(s) => IndexOwed(s)'
           /\ Fixes(t, s) => IndexOwed(s)'
  PROVE  IndexFits'
<1> SUFFICES ASSUME Calm' PROVE FinishesRight' /\ \A s \in Scope : IndexOwed(s)'  BY DEF IndexFits
<1>1. Calm  BY DEF Calm
<1>2. FinishesRight /\ \A s \in Scope : IndexOwed(s)  BY <1>1 DEF IndexFits
<1>3. FinishesRight'  BY <1>1, <1>2, OthersFinishRight
<1>4. ASSUME NEW s \in Scope PROVE IndexOwed(s)'
  <2>1. IndexOwed(s) /\ granted'[s] = granted[s]  BY <1>2
  <2>2. marks["index"][s].state = Target(s) => IndexOwed(s)'  BY <1>1, <2>1
  <2>3. Fixes(t, s) => IndexOwed(s)'  BY <1>1, <2>1
  <2>4. QED  BY <2>1, <2>2, <2>3, IndexStillOwed
<1>5. QED  BY <1>3, <1>4

(* The index that was right is right while nobody changes it.               *)
LEMMA StaysRight ==
  ASSUME NEW s, marks' = marks, granted' = granted, marks["index"][s].state = Target(s)
  PROVE  IndexOwed(s)'
  BY DEF IndexOwed, Target

(* A repeated announcement takes no fix away.                               *)
LEMMA AnnouncedAgainIndex ==
  ASSUME AccessFit, ScopesFit, IndexFits, NEW t \in Task, AnnouncedAgain(t)
  PROVE  IndexFits'
<1>1. PICK n : Deliver(t, n) /\ history \subseteq history'  BY DEF AnnouncedAgain
<1>2. doing[t] = "none" /\ granted' = granted /\ marks' = marks
  BY <1>1 DEF AnnouncedAgain, Deliver
<1>3. PICK d, f, p : d = "look" /\ f = first[t] /\ p = steps[t]  OBVIOUS
<1>4. Moves(t, d, n, f, p)
  BY <1>1, <1>3 DEF Moves, Deliver, AnnouncedAgain, AccessFit, AccessTypeOK
<1>5. \A s \in Scope : ~Fixes(t, s)  BY <1>2 DEF Fixes, InProgress
<1>6. \A s \in Scope : marks["index"][s].state = Target(s) => IndexOwed(s)'  BY <1>2, StaysRight
<1>7. d \notin {"undo", "finish"}  BY <1>3
<1>8. QED  BY <1>1, <1>2, <1>4, <1>5, <1>6, <1>7, MovesIndex

(* A task that looks has the fix ahead, or nothing to fix.                  *)
LEMMA LookIndex ==
  ASSUME AccessFit, ScopesFit, IndexFits, NEW t \in Task, Look(t)
  PROVE  IndexFits'
<1>1. PICK n : n = task[t]  OBVIOUS
<1>2. PICK sees : sees = Accessible(n.scope)  OBVIOUS
<1>3. /\ doing[t] = "look" /\ n \in Notices /\ sees \in BOOLEAN
      /\ granted' = granted /\ task' = task /\ marks' = marks /\ history \subseteq history'
      /\ first' = [first EXCEPT ![t] = sees]
      /\ n.wants = "active" /\ ~sees =>
              doing' = [doing EXCEPT ![t] = "done"] /\ steps' = [steps EXCEPT ![t] = <<>>]
      /\ ~(n.wants = "active" /\ ~sees) =>
              /\ doing' = [doing EXCEPT ![t] = "act"]
              /\ \E p : steps' = [steps EXCEPT ![t] = p] /\ FirstPlan(n, sees, p)
      /\ n.wants = "active" /\ ~sees /\ first[t] => "gaveUp" \in history'
  BY <1>1, <1>2, LookFacts
<1>4. task' = [task EXCEPT ![t] = n]  BY <1>1, <1>3 DEF AccessFit, AccessTypeOK
<1>5. \A s \in Scope : marks["index"][s].state = Target(s) => IndexOwed(s)'  BY <1>3, StaysRight
<1>6. Calm => n.scope \in Scope /\ (sees <=> granted[n.scope])  BY <1>1, <1>2, <1>3, SeesItsScope
<1>7. CASE n.wants = "active" /\ ~sees
  <2>1. PICK d, p : d = "done" /\ p = <<>>  OBVIOUS
  <2>2. Moves(t, d, n, sees, p)  BY <1>3, <1>4, <1>7, <2>1 DEF Moves
  <2>3. ASSUME Calm, Calm', NEW s \in Scope, Fixes(t, s) PROVE IndexOwed(s)'
    <3>1. s = n.scope /\ (n.wants = "revoked" \/ granted[s] \/ first[t])
      BY <1>1, <1>3, <2>3 DEF Fixes, InProgress
    <3>2. ~granted[s]  BY <1>6, <1>7, <2>3, <3>1
    <3>3. "gaveUp" \in history'  BY <1>3, <1>7, <3>1, <3>2
    <3>4. QED  BY <2>3, <3>3 DEF Calm
  <2>4. d \notin {"undo", "finish"}  BY <2>1
  <2>5. QED  BY <1>3, <1>5, <2>2, <2>3, <2>4, MovesIndex
<1>8. CASE ~(n.wants = "active" /\ ~sees)
  <2>1. PICK p : steps' = [steps EXCEPT ![t] = p] /\ FirstPlan(n, sees, p)  BY <1>3, <1>8
  <2>2. PICK d : d = "act"  OBVIOUS
  <2>3. Moves(t, d, n, sees, p)  BY <1>3, <1>4, <1>8, <2>1, <2>2 DEF Moves
  <2>4. ASSUME Calm, Calm', NEW s \in Scope, Fixes(t, s) PROVE IndexOwed(s)'
    <3>1. s = n.scope  BY <1>1, <2>4 DEF Fixes
    <3>2. PICK x \in Planned(p) : x.store = "index" /\ x.scope = s
          /\ x.state = IF sees THEN "active" ELSE "revoked"
      BY <2>1, <3>1 DEF FirstPlan, Has
    <3>3. x.state = IF granted'[s] THEN "active" ELSE "revoked"  BY <1>3, <1>6, <2>4, <3>1, <3>2
    <3>4. task'[t] = n /\ doing'[t] = "act" /\ steps'[t] = p  BY <2>2, <2>3, MovesOne DEF AccessFit
    <3>5. Fixes(t, s)'  BY <3>1, <3>2, <3>3, <3>4 DEF Fixes, InProgress, Target
    <3>6. QED  BY <3>5 DEF IndexOwed
  <2>5. d \notin {"undo", "finish"}  BY <2>2
  <2>6. QED  BY <1>3, <1>5, <2>3, <2>4, <2>5, MovesIndex
<1>9. QED  BY <1>7, <1>8

(* A task that sees another grant than at first has it ahead too.           *)
LEMMA LookAgainIndex ==
  ASSUME AccessFit, ScopesFit, IndexFits, NEW t \in Task, LookAgain(t)
  PROVE  IndexFits'
<1>1. PICK n : n = task[t]  OBVIOUS
<1>2. PICK sees : sees = Accessible(n.scope)  OBVIOUS
<1>3. /\ doing[t] = "act" /\ steps[t] = <<>> /\ n \in Notices /\ sees \in BOOLEAN
      /\ granted' = granted /\ task' = task /\ marks' = marks /\ history \subseteq history' /\ first' = first
  BY <1>1, <1>2, LookAgainFacts
<1>4. PICK d, p : /\ doing' = [doing EXCEPT ![t] = d] /\ steps' = [steps EXCEPT ![t] = p]
                  /\ SecondPlan(n, first[t], sees, d, p)
  BY <1>1, <1>2, LookAgainFacts
<1>5. PICK f : f = first[t]  OBVIOUS
<1>6. Moves(t, d, n, f, p)  BY <1>1, <1>3, <1>4, <1>5 DEF Moves, AccessFit, AccessTypeOK
<1>7. \A s \in Scope : marks["index"][s].state = Target(s) => IndexOwed(s)'  BY <1>3, StaysRight
<1>8. InProgress(t) /\ Planned(steps[t]) = {} /\ f \in BOOLEAN
  BY <1>3, <1>5, EmptyPlan DEF InProgress, AccessFit, AccessTypeOK
<1>9. Calm => /\ n.scope \in Scope /\ (sees <=> granted[n.scope])
              /\ n.scope = "repository" => granted["installation"]
  BY <1>1, <1>2, <1>8, SeesItsScope
<1>10. ASSUME Calm, Calm', NEW x \in Planned(p) PROVE x.state = Target(x.scope)
  <2>1. x.state = (IF sees THEN "active" ELSE "revoked") /\ (x.scope = n.scope \/ (sees
        /\ x.scope = "installation"))
    BY <1>4, <1>10 DEF SecondPlan
  <2>2. QED  BY <1>9, <1>10, <2>1 DEF Target, Scope
<1>11. ASSUME Calm, Calm', NEW s \in Scope, Fixes(t, s) PROVE IndexOwed(s)'
  <2>1. s = n.scope /\ (f # granted[s])
    BY <1>1, <1>3, <1>5, <1>8, <1>11 DEF Fixes
  <2>2. granted[s] \in BOOLEAN  BY DEF AccessFit, AccessTypeOK
  <2>3. (sees # first[t]) /\ ~(sees /\ first[t])  BY <1>3, <1>5, <1>8, <1>9, <1>11, <2>1, <2>2
  <2>4. Has(p, "index", n.scope) /\ d \in {"undo", "finish"}  BY <1>4, <2>3 DEF SecondPlan, Store
  <2>5. PICK x \in Planned(p) : x.store = "index" /\ x.scope = s  BY <2>1, <2>4 DEF Has
  <2>6. x.state = IF granted'[s] THEN "active" ELSE "revoked"  BY <1>3, <1>10, <1>11, <2>5 DEF Target
  <2>7. task'[t] = n /\ doing'[t] = d /\ steps'[t] = p  BY <1>6, MovesOne DEF AccessFit
  <2>8. Fixes(t, s)'  BY <2>1, <2>4, <2>5, <2>6, <2>7 DEF Fixes, InProgress, Target
  <2>9. QED  BY <2>8 DEF IndexOwed
<1>12. QED  BY <1>3, <1>6, <1>7, <1>10, <1>11, MovesIndex

(* The installation is granted, so its task goes on.                        *)
LEMMA LookAtInstallationIndex ==
  ASSUME AccessFit, ScopesFit, IndexFits, NEW t \in Task, LookAtInstallation(t)
  PROVE  IndexFits'
<1>1. /\ doing[t] = "undo" /\ granted' = granted /\ task' = task /\ history' = history
      /\ marks' = marks /\ first' = first
      /\ doing' = [doing EXCEPT ![t] = "finish"]
      /\ granted["installation"] => steps' = steps
      /\ \E p : steps' = [steps EXCEPT ![t] = p]
  BY LookAtInstallationFacts
<1>2. PICK p : steps' = [steps EXCEPT ![t] = p]  BY <1>1
<1>3. PICK d, n, f : d = "finish" /\ n = task[t] /\ f = first[t]  OBVIOUS
<1>4. Moves(t, d, n, f, p)  BY <1>1, <1>2, <1>3 DEF Moves, AccessFit, AccessTypeOK
<1>5. InProgress(t) /\ n.scope = "repository"  BY <1>1, <1>3 DEF InProgress, AccessFit, PlansFit
<1>6. Calm => p = steps[t]
  <2>1. Calm => granted["installation"]  BY <1>3, <1>5, SeesItsScope
  <2>2. granted["installation"] => steps'[t] = steps[t]  BY <1>1
  <2>3. steps'[t] = p  BY <1>4, MovesOne DEF AccessFit
  <2>4. QED  BY <2>1, <2>2, <2>3
<1>7. \A s \in Scope : marks["index"][s].state = Target(s) => IndexOwed(s)'  BY <1>1, StaysRight
<1>8. ASSUME Calm, Calm', NEW x \in Planned(p) PROVE x.state = Target(x.scope)
  BY <1>1, <1>6, <1>8 DEF IndexFits, FinishesRight
<1>9. ASSUME Calm, Calm', NEW s \in Scope, Fixes(t, s) PROVE IndexOwed(s)'
  <2>1. PICK x \in Planned(p) : x.store = "index" /\ x.scope = s /\ x.state = Target(s)
    BY <1>1, <1>6, <1>9 DEF Fixes
  <2>2. task'[t] = n /\ doing'[t] = d /\ steps'[t] = p  BY <1>4, MovesOne DEF AccessFit
  <2>3. Fixes(t, s)'  BY <1>1, <1>3, <1>9, <2>1, <2>2 DEF Fixes, InProgress, Target
  <2>4. QED  BY <2>3 DEF IndexOwed
<1>10. QED  BY <1>1, <1>4, <1>7, <1>8, <1>9, MovesIndex

(* A task that ends has nothing ahead.                                      *)
LEMMA TaskEndsIndex ==
  ASSUME AccessFit, ScopesFit, IndexFits, NEW t \in Task, TaskEnds(t)
  PROVE  IndexFits'
<1>1. /\ doing[t] = "finish" /\ steps[t] = <<>> /\ marks' = marks /\ granted' = granted
      /\ task' = task /\ first' = first /\ history' = history
      /\ doing' = [doing EXCEPT ![t] = "done"] /\ steps' = [steps EXCEPT ![t] = <<>>]
  BY DEF TaskEnds, Becomes, untouched
<1>2. PICK d, n, f, p : d = "done" /\ n = task[t] /\ f = first[t] /\ p = <<>>  OBVIOUS
<1>3. Moves(t, d, n, f, p)  BY <1>1, <1>2 DEF Moves, AccessFit, AccessTypeOK
<1>4. \A s \in Scope : marks["index"][s].state = Target(s) => IndexOwed(s)'  BY <1>1, StaysRight
<1>5. \A s \in Scope : ~Fixes(t, s)  BY <1>1, EmptyPlan DEF Fixes
<1>6. d \notin {"undo", "finish"}  BY <1>2
<1>7. QED  BY <1>1, <1>3, <1>4, <1>5, <1>6, MovesIndex

(* A task that fails will look again.                                       *)
LEMMA TaskFailsIndex ==
  ASSUME AccessFit, ScopesFit, IndexFits, NEW t \in Task, TaskFails(t)
  PROVE  IndexFits'
<1>1. /\ InProgress(t) /\ marks' = marks /\ granted' = granted
      /\ task' = task /\ first' = first /\ history' = history
      /\ doing' = [doing EXCEPT ![t] = "look"] /\ steps' = [steps EXCEPT ![t] = <<>>]
  BY DEF TaskFails, Becomes
<1>2. PICK d, n, f, p : d = "look" /\ n = task[t] /\ f = first[t] /\ p = <<>>  OBVIOUS
<1>3. Moves(t, d, n, f, p)  BY <1>1, <1>2 DEF Moves, AccessFit, AccessTypeOK
<1>4. \A s \in Scope : marks["index"][s].state = Target(s) => IndexOwed(s)'  BY <1>1, StaysRight
<1>5. ASSUME NEW s \in Scope, Fixes(t, s) PROVE IndexOwed(s)'
  <2>1. n.scope = s /\ n.wants \in State /\ f \in BOOLEAN
    BY <1>2, <1>5 DEF Fixes, AccessFit, AccessTypeOK, Notices
  <2>2. n.wants = "revoked" \/ f
    BY <1>1, <1>2, <2>1 DEF AccessFit, PlansFit, State
  <2>3. task'[t] = n /\ doing'[t] = "look" /\ first'[t] = f  BY <1>2, <1>3, MovesOne DEF AccessFit
  <2>4. Fixes(t, s)'  BY <2>1, <2>2, <2>3 DEF Fixes
  <2>5. QED  BY <2>4 DEF IndexOwed
<1>6. d \notin {"undo", "finish"}  BY <1>2
<1>7. QED  BY <1>1, <1>3, <1>4, <1>5, <1>6, MovesIndex

(* A change of the index either is what GitHub grants, or comes from a task *)
(* that will see what it did not see at first.                              *)
LEMMA ChangesRightly ==
  ASSUME AccessFit, ScopesFit, Calm, FinishesRight, NEW t \in Task, InProgress(t),
         NEW h \in Planned(steps[t])
  PROVE  \/ h.state = Target(h.scope)
         \/ task[t].scope = h.scope /\ doing[t] = "act" /\ (first[t] # granted[h.scope])
<1>1. CASE doing[t] \in {"undo", "finish"}  BY <1>1 DEF FinishesRight
<1>2. CASE doing[t] = "act"
  <2>1. h.state = IF first[t] THEN "active" ELSE "revoked"
    BY <1>2 DEF AccessFit, PlansFit, ActsAsSeen
  <2>2. CASE h.scope = task[t].scope
    <3>1. h.scope \in Scope /\ granted[h.scope] \in BOOLEAN /\ first[t] \in BOOLEAN
      BY <2>2 DEF AccessFit, AccessTypeOK, Notices
    <3>2. QED  BY <1>2, <2>1, <2>2, <3>1 DEF Target
  <2>3. CASE h.scope # task[t].scope
    <3>1. h.scope = "installation" /\ h.state = "active" /\ task[t].scope = "repository"
      BY <2>3 DEF Calm, ScopesFit, Scoped
    <3>2. PICK n : n = task[t]  OBVIOUS
    <3>3. granted["installation"]  BY <3>1, <3>2, SeesItsScope
    <3>4. QED  BY <3>1, <3>3 DEF Target
  <2>4. QED  BY <2>2, <2>3
<1>3. QED  BY <1>1, <1>2 DEF InProgress

(* A change to the index is the fix, unless another task is to make it.     *)
LEMMA TakeStepIndex ==
  ASSUME AccessFit, ScopesFit, IndexFits, NEW t \in Task, TakeStep(t)
  PROVE  IndexFits'
<1>1. PICK h : h = Head(steps[t])  OBVIOUS
<1>2. PICK rest, at : rest = Tail(steps[t]) /\ at = TimeOf(t, h)  OBVIOUS
<1>3. PICK says : says = Says(t, h, at)  OBVIOUS
<1>4. Took(t, h, rest, at, says) /\ GoesOn(t, h, says)  BY <1>1, <1>2, <1>3, TakeStepFacts
<1>5. PICK p : steps' = [steps EXCEPT ![t] = p] /\ Remains(t, h, says, rest, p)
  BY <1>1, <1>2, <1>3, TakeStepFacts
<1>6. PICK now, new : now = marks[h.store][h.scope] /\ new = marks'[h.store][h.scope]  OBVIOUS
<1>7. /\ \A store \in Store, s \in Scope :
              store # h.store \/ s # h.scope => marks'[store][s] = marks[store][s]
      /\ h.store = "index" =>
              /\ says # Newer => new.state = h.state
              /\ says = Newer => marks' = marks
              /\ says = Newer /\ h.state = "revoked" => now.state = "revoked"
  BY <1>1, <1>2, <1>3, <1>6, TakeStepMarks DEF Leaves
<1>8. /\ InProgress(t) /\ h \in Change /\ h \in Planned(steps[t])
      /\ \A x \in Planned(steps[t]) : x = h \/ x \in Planned(rest)
      /\ granted' = granted /\ task' = task /\ first' = first
      /\ history' = IF Refused(h, says) /\ h.state = "active" THEN history \union {"gaveUp"} ELSE history
      /\ Planned(p) \subseteq Planned(steps[t])
  BY <1>4, <1>5 DEF Took, Remains
<1>9. PICK d : doing' = [doing EXCEPT ![t] = d] /\ (d = doing[t] \/ d = "done")
  BY <1>4 DEF GoesOn, AccessFit, AccessTypeOK
<1>10. PICK n, f : n = task[t] /\ f = first[t]  OBVIOUS
<1>11. Moves(t, d, n, f, p)  BY <1>5, <1>8, <1>9, <1>10 DEF Moves, AccessFit, AccessTypeOK
<1>12. ASSUME Calm, Calm' PROVE doing' = doing /\ (Refused(h, says) => h.state = "revoked")
  <2>1. Refused(h, says) => h.state = "revoked"  BY <1>8, <1>12 DEF Calm, Change, State
  <2>2. ASSUME doing[t] = "act", n.wants = "active" PROVE h.state = "active"
    BY <1>8, <1>10, <2>2 DEF AccessFit, PlansFit, ActsAsSeen
  <2>3. QED  BY <1>4, <1>10, <2>1, <2>2 DEF GoesOn
<1>13. ASSUME Calm, Calm', d \in {"undo", "finish"}, NEW x \in Planned(p) PROVE x.state = Target(x.scope)
  <2>1. d = doing[t]  BY <1>9, <1>13
  <2>2. FinishesRight  BY <1>13 DEF IndexFits
  <2>3. QED  BY <1>8, <1>13, <2>1, <2>2 DEF FinishesRight
<1>14. ASSUME Calm, Calm', NEW s \in Scope, Fixes(t, s) PROVE Fixes(t, s)' \/ (h.store = "index"
      /\ h.scope = s /\ h.state = Target(s))
  <2>1. n.scope = s /\ ((doing[t] = "act"
        /\ (f # granted[s])) \/ \E x \in Planned(steps[t]) : x.store = "index" /\ x.scope = s
              /\ x.state = Target(s))
    BY <1>8, <1>10, <1>14 DEF Fixes, InProgress
  <2>2. task'[t] = n /\ doing'[t] = doing[t] /\ first'[t] = f /\ steps'[t] = p
    BY <1>11, <1>12, <1>14, MovesOne DEF AccessFit
  <2>3. CASE doing[t] = "act" /\ (f # granted[s])  BY <1>8, <2>1, <2>2, <2>3 DEF Fixes
  <2>4. ASSUME NEW x \in Planned(steps[t]), x.store = "index", x.scope = s, x.state = Target(s), x # h
        PROVE  Fixes(t, s)'
    <3>1. x \in Planned(rest)  BY <1>8, <2>4
    <3>2. x \in Planned(p)  BY <1>5, <1>12, <1>14, <2>4, <3>1 DEF Remains
    <3>3. x.state = IF granted'[s] THEN "active" ELSE "revoked"  BY <1>8, <2>4 DEF Target
    <3>4. QED  BY <1>8, <2>1, <2>2, <2>4, <3>2, <3>3 DEF Fixes, InProgress, Target
  <2>5. QED  BY <2>1, <2>3, <2>4
<1>15. ASSUME Calm, Calm', NEW s \in Scope, h.store = "index", h.scope = s, h.state = Target(s)
       PROVE  IndexOwed(s)'
  <2>1. CASE says # Newer
    <3>1. marks'["index"][s].state = Target(s)  BY <1>6, <1>7, <1>15, <2>1
    <3>2. QED  BY <1>8, <3>1 DEF IndexOwed, Target
  <2>2. CASE says = Newer
    <3>1. h.state = "revoked"  BY <1>12, <1>15, <2>2 DEF Refused
    <3>2. marks'["index"][s].state = Target(s)  BY <1>6, <1>7, <1>15, <2>2, <3>1
    <3>3. QED  BY <1>8, <3>2 DEF IndexOwed, Target
  <2>3. QED  BY <2>1, <2>2
<1>16. ASSUME Calm, Calm', NEW s \in Scope, marks["index"][s].state = Target(s) PROVE IndexOwed(s)'
  <2>1. CASE ~(h.store = "index" /\ h.scope = s)
    <3>1. marks'["index"][s] = marks["index"][s]  BY <1>7, <2>1 DEF Store
    <3>2. QED  BY <1>8, <1>16, <3>1 DEF IndexOwed, Target
  <2>2. CASE h.store = "index" /\ h.scope = s /\ h.state = Target(s)  BY <1>15, <1>16, <2>2
  <2>3. CASE h.store = "index" /\ h.scope = s /\ h.state # Target(s)
    <3>1. FinishesRight  BY <1>16 DEF IndexFits
    <3>2. task[t].scope = s /\ doing[t] = "act" /\ (first[t] # granted[s])
      BY <1>8, <1>16, <2>3, <3>1, ChangesRightly
    <3>3. Fixes(t, s)  BY <3>2 DEF Fixes
    <3>4. QED  BY <1>14, <1>16, <2>3, <3>3 DEF IndexOwed
  <2>4. QED  BY <2>1, <2>2, <2>3
<1>17. ASSUME Calm, Calm', NEW s \in Scope, Fixes(t, s) PROVE IndexOwed(s)'
  BY <1>14, <1>15, <1>17 DEF IndexOwed
<1>18. history \subseteq history'  BY <1>8
<1>19. QED  BY <1>8, <1>11, <1>13, <1>16, <1>17, <1>18, MovesIndex

(* To begin with the stores are right.                                      *)
LEMMA InitIndex == AccessInit => ScopesFit /\ IndexFits
<1> SUFFICES ASSUME AccessInit PROVE ScopesFit /\ IndexFits  OBVIOUS
<1>1. \A t \in Task : doing[t] = "none"  BY DEF AccessInit
<1>2. ScopesFit  BY <1>1 DEF ScopesFit, Scoped, Pending, InProgress
<1>3. FinishesRight  BY <1>1 DEF FinishesRight
<1>4. ASSUME NEW s \in Scope PROVE marks["index"][s].state = Target(s)
  <2>1. CASE granted = [r \in Scope |-> TRUE] /\ marks = [store \in Store |-> Marks("active", Newer)]
    BY <2>1 DEF Marks, Target, Store
  <2>2. CASE granted = [r \in Scope |-> r = "installation"]
        /\ marks = [store \in Store |-> Marks("revoked", 0)]
    <3>1. marks["index"][s].state = IF s = "repository" THEN "revoked" ELSE "active"
      BY <2>2 DEF Marks, Store
    <3>2. granted[s] <=> s = "installation"  BY <2>2
    <3>3. QED  BY <3>1, <3>2 DEF Target, Scope
  <2>3. QED  BY <2>1, <2>2 DEF AccessInit
<1>5. QED  BY <1>2, <1>3, <1>4 DEF IndexFits, IndexOwed

(* Every step keeps what the index is owed.                                 *)
LEMMA NextIndex == ASSUME AccessFit, ScopesFit, IndexFits, [AccessNext]_accessVars PROVE IndexFits'
<1>1. CASE UNCHANGED accessVars
  BY <1>1 DEF accessVars, IndexFits, Calm, FinishesRight, IndexOwed, Fixes, InProgress, Target
<1>2. ASSUME NEW t \in Task, NEW scope \in Scope, AccessChanges(t, scope) PROVE IndexFits'
  BY <1>2, AccessChangesIndex
<1>3. ASSUME NEW t \in Task, AnnouncedAgain(t) \/ Look(t) \/ TakeStep(t) \/ LookAgain(t)
             \/ LookAtInstallation(t) \/ TaskEnds(t) \/ TaskFails(t)
      PROVE  IndexFits'
  BY <1>3, AnnouncedAgainIndex, LookIndex, TakeStepIndex, LookAgainIndex, LookAtInstallationIndex,
        TaskEndsIndex, TaskFailsIndex
<1>4. QED  BY <1>1, <1>2, <1>3 DEF AccessNext
-----------------------------------------------------------------------------
(* The ledger and the policies, while no two tasks overlap                  *)

Apart == history \intersect {"lost", "overlapped"} = {}
Alone == \A t, u \in Task : InProgress(t) /\ InProgress(u) => t = u

\* A policy change whose index change was made carries a time that the index has
\* reached, and an activation's is none the policy would refuse; a repository is
\* restored after its installation.
PlanTimely(d, n, f, p, w, m) ==
  /\ \A x \in Planned(p) : x.store = "policy" /\ ~Has(p, "index", x.scope) =>
       /\ x.at <= m["index"][x.scope].at
       /\ x.state = "active" => w[x.scope] # Newer /\ m["policy"][x.scope].at <= w[x.scope]
  /\ d = "act" /\ ~f /\ ~Has(p, "index", n.scope) => n.at <= m["index"][n.scope].at
  /\ \A s \in Scope : w[s] <= m["index"][s].at
  /\ Has(p, "index", "repository") /\ ~Has(p, "index", "installation")
     /\ (\E x \in Planned(p) : x.state = "active") => m["index"]["installation"].state = "active"

\* The policies are never ahead of the index.
PoliciesBehind == \A s \in Scope : marks["policy"][s].at <= marks["index"][s].at
Timely(t) == InProgress(t) => PlanTimely(doing[t], task[t], first[t], steps[t], told[t], marks)
TimesFit == Alone /\ PoliciesBehind /\ \A t \in Task : Timely(t)
ApartFits == Apart => TimesFit

(* A move that leaves the stores alone keeps the times, if a task that goes *)
(* to work is the only one and its plan fits.                               *)
LEMMA MovesTimely ==
  ASSUME AccessFit, ApartFits, NEW t \in Task, marks' = marks, history \subseteq history',
         NEW d, NEW n, NEW f, NEW p, NEW w, Moves(t, d, n, f, p), told' = [told EXCEPT ![t] = w],
         Apart /\ Apart' /\ TimesFit /\ d \in {"act", "undo", "finish"} =>
           /\ \A u \in Task \ {t} : ~InProgress(u)
           /\ PlanTimely(d, n, f, p, w, marks)
  PROVE  ApartFits'
<1> SUFFICES ASSUME Apart' PROVE TimesFit'  BY DEF ApartFits
<1>1. Apart /\ TimesFit  BY DEF Apart, ApartFits
<1>2. doing'[t] = d /\ task'[t] = n /\ first'[t] = f /\ steps'[t] = p /\ told'[t] = w
  BY MovesOne DEF AccessFit, AccessTypeOK
<1>3. \A u \in Task \ {t} : /\ doing'[u] = doing[u] /\ task'[u] = task[u]
                            /\ first'[u] = first[u] /\ steps'[u] = steps[u] /\ told'[u] = told[u]
  BY MovesOne DEF AccessFit, AccessTypeOK
<1>4. d \in {"act", "undo", "finish"} => /\ \A u \in Task \ {t} : ~InProgress(u)
                                         /\ PlanTimely(d, n, f, p, w, marks)
  BY <1>1
<1>5. Alone'
  <2> SUFFICES ASSUME NEW u \in Task, NEW v \in Task, doing'[u] \in {"act", "undo", "finish"},
                      doing'[v] \in {"act", "undo", "finish"}
               PROVE  u = v
    BY DEF Alone, InProgress
  <2>1. CASE u = t \/ v = t  BY <1>2, <1>3, <1>4, <2>1 DEF InProgress
  <2>2. CASE u # t /\ v # t  BY <1>1, <1>3, <2>2 DEF TimesFit, Alone, InProgress
  <2>3. QED  BY <2>1, <2>2
<1>6. PoliciesBehind'  BY <1>1 DEF TimesFit, PoliciesBehind
<1>7. ASSUME NEW u \in Task PROVE Timely(u)'
  <2>1. CASE u = t
    <3>1. d \in {"act", "undo", "finish"} => PlanTimely(d, n, f, p, w, marks)  BY <1>4
    <3>2. QED  BY <1>2, <2>1, <3>1 DEF Timely, InProgress
  <2>2. CASE u # t
    <3>1. Timely(u)  BY <1>1 DEF TimesFit
    <3>2. QED  BY <1>3, <2>2, <3>1 DEF Timely, InProgress
  <2>3. QED  BY <2>1, <2>2
<1>8. QED  BY <1>5, <1>6, <1>7 DEF TimesFit

(* A delivery starts no work.                                               *)
LEMMA DeliveredTimely ==
  ASSUME AccessFit, ApartFits, NEW t \in Task, NEW n, Deliver(t, n), marks' = marks,
        history \subseteq history',
         first' = first, steps' = steps, told' = told
  PROVE  ApartFits'
<1>1. PICK d, f, p, w : d = "look" /\ f = first[t] /\ p = steps[t] /\ w = told[t]  OBVIOUS
<1>2. Moves(t, d, n, f, p) /\ told' = [told EXCEPT ![t] = w]
  BY <1>1 DEF Moves, Deliver, AccessFit, AccessTypeOK
<1>3. d \notin {"act", "undo", "finish"}  BY <1>1
<1>4. QED  BY <1>2, <1>3, MovesTimely

(* The first look of a task that is alone makes a plan whose index changes  *)
(* are all ahead.                                                           *)
LEMMA LookTimely ==
  ASSUME AccessFit, ApartFits, NEW t \in Task, Look(t)
  PROVE  ApartFits'
<1>1. PICK n : n = task[t]  OBVIOUS
<1>2. PICK sees : sees = Accessible(n.scope)  OBVIOUS
<1>3. /\ doing[t] = "look" /\ n \in Notices /\ sees \in BOOLEAN
      /\ task' = task /\ marks' = marks /\ told' = told /\ history \subseteq history'
      /\ first' = [first EXCEPT ![t] = sees]
      /\ n.wants = "active" /\ ~sees =>
              doing' = [doing EXCEPT ![t] = "done"] /\ steps' = [steps EXCEPT ![t] = <<>>]
      /\ ~(n.wants = "active" /\ ~sees) =>
              /\ doing' = [doing EXCEPT ![t] = "act"]
              /\ \E p : steps' = [steps EXCEPT ![t] = p] /\ FirstPlan(n, sees, p)
      /\ ~(n.wants = "active" /\ ~sees) /\ Overlapping(t) => "overlapped" \in history'
  BY <1>1, <1>2, LookFacts
<1>4. PICK w : w = told[t]  OBVIOUS
<1>5. task' = [task EXCEPT ![t] = n] /\ told' = [told EXCEPT ![t] = w]
  BY <1>1, <1>3, <1>4 DEF AccessFit, AccessTypeOK
<1>6. CASE n.wants = "active" /\ ~sees
  <2>1. PICK d, p : d = "done" /\ p = <<>>  OBVIOUS
  <2>2. Moves(t, d, n, sees, p)  BY <1>3, <1>5, <1>6, <2>1 DEF Moves
  <2>3. d \notin {"act", "undo", "finish"}  BY <2>1
  <2>4. QED  BY <1>3, <1>5, <2>2, <2>3, MovesTimely
<1>7. CASE ~(n.wants = "active" /\ ~sees)
  <2>1. PICK p : steps' = [steps EXCEPT ![t] = p] /\ FirstPlan(n, sees, p)  BY <1>3, <1>7
  <2>2. PICK d : d = "act"  OBVIOUS
  <2>3. Moves(t, d, n, sees, p)  BY <1>3, <1>5, <1>7, <2>1, <2>2 DEF Moves
  <2>4. ASSUME Apart' PROVE \A u \in Task \ {t} : ~InProgress(u)
    BY <1>3, <1>7, <2>4 DEF Apart, Overlapping
  <2>5. \A s \in Scope : w[s] <= marks["index"][s].at
    <3> SUFFICES ASSUME NEW s \in Scope PROVE w[s] <= marks["index"][s].at  OBVIOUS
    <3>1. w[s] = -1  BY <1>3, <1>4 DEF AccessFit, PlansFit, Newer
    <3>2. marks["index"][s].at \in Nat \union {-1}
      BY DEF AccessFit, AccessTypeOK, Mark, Times, Newer, Store
    <3>3. QED  BY <3>1, <3>2
  <2>6. PlanTimely(d, n, sees, p, w, marks)
    <3>1. \A x \in Planned(p) : x.store = "policy" => Has(p, "index", x.scope)
      BY <2>1 DEF FirstPlan
    <3>2. Has(p, "index", n.scope)  BY <2>1 DEF FirstPlan
    <3>3. (\E x \in Planned(p) : x.state = "active") => Has(p, "index", "installation")
      BY <1>3, <2>1 DEF FirstPlan
    <3>4. QED  BY <2>5, <3>1, <3>2, <3>3 DEF PlanTimely
  <2>7. QED  BY <1>3, <1>5, <2>3, <2>4, <2>6, MovesTimely
<1>8. QED  BY <1>6, <1>7

(* The second look does too, except for the purge that follows a revocation *)
(* made.                                                                    *)
LEMMA LookAgainTimely ==
  ASSUME AccessFit, ApartFits, NEW t \in Task, LookAgain(t)
  PROVE  ApartFits'
<1>1. PICK n : n = task[t]  OBVIOUS
<1>2. PICK sees : sees = Accessible(n.scope)  OBVIOUS
<1>3. /\ doing[t] = "act" /\ steps[t] = <<>> /\ n \in Notices /\ sees \in BOOLEAN
      /\ task' = task /\ marks' = marks /\ told' = told /\ history \subseteq history' /\ first' = first
  BY <1>1, <1>2, LookAgainFacts
<1>4. PICK d, p : /\ doing' = [doing EXCEPT ![t] = d] /\ steps' = [steps EXCEPT ![t] = p]
                  /\ SecondPlan(n, first[t], sees, d, p)
  BY <1>1, <1>2, LookAgainFacts
<1>5. PICK f, w : f = first[t] /\ w = told[t]  OBVIOUS
<1>6. Moves(t, d, n, f, p) /\ told' = [told EXCEPT ![t] = w]
  BY <1>1, <1>3, <1>4, <1>5 DEF Moves, AccessFit, AccessTypeOK
<1>7. InProgress(t) /\ Planned(steps[t]) = {} /\ f \in BOOLEAN
  BY <1>3, <1>5, EmptyPlan DEF InProgress, AccessFit, AccessTypeOK
<1>8. ASSUME TimesFit, d \in {"act", "undo", "finish"}
      PROVE  /\ \A u \in Task \ {t} : ~InProgress(u)
             /\ PlanTimely(d, n, f, p, w, marks)
  <2>1. \A u \in Task \ {t} : ~InProgress(u)  BY <1>7, <1>8 DEF TimesFit, Alone
  <2>2. PlanTimely(doing[t], n, f, steps[t], w, marks)  BY <1>1, <1>5, <1>7, <1>8 DEF TimesFit, Timely
  <2>3. \A s \in Scope : w[s] <= marks["index"][s].at  BY <2>2 DEF PlanTimely
  <2>4. CASE ~sees /\ ~f
    <3>1. /\ d = "finish"
          /\ \A x \in Planned(p) : x.store = "policy" /\ x.at = n.at /\ x.state = "revoked"
                /\ x.scope = n.scope
      BY <1>4, <1>5, <2>4 DEF SecondPlan
    <3>2. n.at <= marks["index"][n.scope].at
      BY <1>3, <1>7, <2>2, <2>4 DEF PlanTimely, Has
    <3>3. QED  BY <2>1, <2>3, <3>1, <3>2 DEF PlanTimely, Has
  <2>5. CASE sees # f
    <3>1. /\ d \in {"undo", "finish"} /\ \A store \in Store : Has(p, store, n.scope)
          /\ sees => Has(p, "index", "installation")
          /\ \A x \in Planned(p) : /\ x.state = (IF sees THEN "active" ELSE "revoked")
                                   /\ x.scope = n.scope \/ (sees /\ x.scope = "installation")
      BY <1>3, <1>4, <1>5, <1>7, <1>8, <2>5 DEF SecondPlan
    <3>2. \A x \in Planned(p) : Has(p, "index", x.scope)  BY <3>1 DEF Store
    <3>3. (\E x \in Planned(p) : x.state = "active") => Has(p, "index", "installation")  BY <3>1
    <3>4. QED  BY <2>1, <2>3, <3>1, <3>2, <3>3 DEF PlanTimely
  <2>6. ~(sees /\ f)  BY <1>4, <1>5, <1>8 DEF SecondPlan
  <2>7. QED  BY <1>3, <1>7, <2>4, <2>5, <2>6
<1>9. QED  BY <1>3, <1>6, <1>8, MovesTimely

(* The look at the installation changes no plan.                            *)
LEMMA LookAtInstallationTimely ==
  ASSUME AccessFit, ScopesFit, ApartFits, NEW t \in Task, LookAtInstallation(t)
  PROVE  ApartFits'
<1>1. /\ doing[t] = "undo" /\ granted' = granted /\ task' = task /\ history' = history
      /\ marks' = marks /\ first' = first /\ told' = told
      /\ doing' = [doing EXCEPT ![t] = "finish"]
      /\ granted["installation"] => steps' = steps
      /\ \E p : steps' = [steps EXCEPT ![t] = p]
  BY LookAtInstallationFacts
<1>2. PICK p : steps' = [steps EXCEPT ![t] = p]  BY <1>1
<1>3. PICK d, n, f, w : d = "finish" /\ n = task[t] /\ f = first[t] /\ w = told[t]  OBVIOUS
<1>4. Moves(t, d, n, f, p) /\ told' = [told EXCEPT ![t] = w]
  BY <1>1, <1>2, <1>3 DEF Moves, AccessFit, AccessTypeOK
<1>5. InProgress(t) /\ n.scope = "repository"  BY <1>1, <1>3 DEF InProgress, AccessFit, PlansFit
<1>6. ASSUME Apart PROVE p = steps[t]
  <2>1. granted["installation"]  BY <1>3, <1>5, <1>6 DEF Apart, ScopesFit, Scoped, Pending
  <2>2. steps' = steps  BY <1>1, <2>1
  <2>3. steps'[t] = p  BY <1>4, MovesOne DEF AccessFit
  <2>4. QED  BY <2>2, <2>3
<1>7. ASSUME Apart, TimesFit
      PROVE  (\A u \in Task \ {t} : ~InProgress(u)) /\ PlanTimely(d, n, f, p, w, marks)
  <2>1. \A u \in Task \ {t} : ~InProgress(u)  BY <1>5, <1>7 DEF TimesFit, Alone
  <2>2. PlanTimely(doing[t], n, f, steps[t], w, marks)  BY <1>3, <1>5, <1>7 DEF TimesFit, Timely
  <2>3. QED  BY <1>1, <1>3, <1>6, <1>7, <2>1, <2>2 DEF PlanTimely
<1>8. history \subseteq history'  BY <1>1
<1>9. QED  BY <1>1, <1>4, <1>7, <1>8, MovesTimely

(* A task that ended or failed works no more.                               *)
LEMMA TaskEndsTimely ==
  ASSUME AccessFit, ApartFits, NEW t \in Task, TaskEnds(t) \/ TaskFails(t)
  PROVE  ApartFits'
<1>1. PICK d \in {"done", "look"} : Becomes(t, d, <<>>)  BY DEF TaskEnds, TaskFails
<1>2. /\ marks' = marks /\ task' = task /\ first' = first /\ history \subseteq history'
      /\ told' = [told EXCEPT ![t] = [s \in Scope |-> Newer]]
  BY DEF TaskEnds, TaskFails, untouched
<1>3. PICK p, n, f, w : p = <<>> /\ n = task[t] /\ f = first[t] /\ w = [s \in Scope |-> Newer]  OBVIOUS
<1>4. Moves(t, d, n, f, p) /\ told' = [told EXCEPT ![t] = w]
  BY <1>1, <1>2, <1>3 DEF Moves, Becomes, AccessFit, AccessTypeOK
<1>5. d \notin {"act", "undo", "finish"}  BY <1>1
<1>6. QED  BY <1>2, <1>4, <1>5, MovesTimely

(* Among the changes of a plan, none of the index follows one of the same   *)
(* scope, and no two are alike.                                             *)
LEMMA HeadComesFirst ==
  ASSUME NEW h \in Change, NEW rest, rest \in Seq(Change), \A x \in Planned(rest) : Place(h) < Place(x)
  PROVE  /\ ~Has(rest, "index", h.scope)
         /\ ~Has(rest, h.store, h.scope)
         /\ h.scope = "repository" => ~Has(rest, "index", "installation")
<1>1. \A x \in Planned(rest) : x \in Change  BY PlannedIn
<1>2. \A x \in Planned(rest) : x.scope = h.scope => x.store # "index" /\ x.store # h.store
  BY <1>1 DEF Place, Change, Store, Scope
<1>3. h.scope = "repository" => \A x \in Planned(rest) : x.scope # "installation"
  BY <1>1 DEF Place, Change, Store, Scope
<1>4. QED  BY <1>2, <1>3 DEF Has

(* While tasks keep apart, the index refuses no activation: a repository    *)
(* comes after its installation.                                            *)
LEMMA ActivationTaken ==
  ASSUME AccessFit, NEW t \in Task, Timely(t),
         NEW h, h = Head(steps[t]), NEW rest, NEW at, NEW says, Took(t, h, rest, at, says), GoesOn(t,
               h, says),
         NEW now, now = marks[h.store][h.scope],
         h.store = "index" /\ says = Newer /\ h.state = "active" =>
           h.scope = "repository" /\ marks["index"]["installation"].state = "revoked"
  PROVE  Refused(h, says) => h.state = "revoked" /\ doing' = doing
<1> SUFFICES ASSUME Refused(h, says) PROVE h.state = "revoked" /\ doing' = doing  OBVIOUS
<1>1. /\ InProgress(t) /\ h \in Change /\ h \in Planned(steps[t]) /\ IsPlan(rest)
      /\ \A x \in Planned(steps[t]) : x = h \/ x \in Planned(rest)
      /\ \A x \in Planned(rest) : Place(h) < Place(x)
  BY DEF Took
<1>2. h.state = "revoked"
  <2> SUFFICES ASSUME h.state = "active" PROVE FALSE  BY <1>1 DEF Change, State
  <2>1. /\ h.scope = "repository" /\ marks["index"]["installation"].state = "revoked"
        /\ h.store = "index"
    BY DEF Refused
  <2>2. ~Has(rest, "index", "installation")  BY <1>1, <2>1, HeadComesFirst DEF IsPlan
  <2>3. ~Has(steps[t], "index", "installation") /\ Has(steps[t], "index", "repository")
    BY <1>1, <2>1, <2>2 DEF Has
  <2>4. marks["index"]["installation"].state = "active"  BY <1>1, <2>3 DEF Timely, PlanTimely
  <2>5. QED  BY <2>1, <2>4
<1>3. doing' = doing
  <2> SUFFICES ASSUME doing[t] = "act", task[t].wants = "active" PROVE FALSE  BY DEF GoesOn
  <2>1. h.state = "active"  BY <1>1 DEF AccessFit, PlansFit, ActsAsSeen
  <2>2. QED  BY <1>2, <2>1
<1>4. QED  BY <1>2, <1>3

(* The time a policy change goes by is one that the index has reached; an   *)
(* activation goes by the index's answer, which the policy does not refuse. *)
LEMMA PolicyTime ==
  ASSUME AccessFit, NEW t \in Task, Timely(t),
         NEW h, NEW rest, NEW at, NEW says, Took(t, h, rest, at, says), at = TimeOf(t, h),
         h.store = "policy"
  PROVE  /\ at <= marks["index"][h.scope].at
         /\ h.state = "active" => marks["policy"][h.scope].at <= at
<1>1. /\ InProgress(t) /\ h \in Change /\ h \in Planned(steps[t]) /\ IsPlan(rest)
      /\ \A x \in Planned(steps[t]) : x = h \/ x \in Planned(rest)
      /\ \A x \in Planned(rest) : Place(h) < Place(x)
  BY DEF Took
<1>2. ~Has(steps[t], "index", h.scope)
  <2>1. ~Has(rest, "index", h.scope)  BY <1>1, HeadComesFirst DEF IsPlan
  <2>2. QED  BY <1>1, <2>1 DEF Has
<1>3. /\ h.at <= marks["index"][h.scope].at
      /\ h.state = "active" => /\ told[t][h.scope] # Newer
                               /\ marks["policy"][h.scope].at <= told[t][h.scope]
  BY <1>1, <1>2 DEF Timely, PlanTimely
<1>4. h.scope \in Scope /\ told[t][h.scope] <= marks["index"][h.scope].at
  BY <1>1 DEF Timely, PlanTimely, Change
<1>5. h.own => h.state = "revoked"
  BY <1>1 DEF AccessFit, PlansFit, IsPlan, Uniform
<1>6. at = IF h.own THEN h.at ELSE IF told[t][h.scope] = Newer THEN h.at ELSE told[t][h.scope]
  BY DEF TimeOf, ToldOr
<1>7. QED  BY <1>3, <1>4, <1>5, <1>6

(* What a step leaves of the index changes is all but the one it made.      *)
LEMMA IndexStepMade ==
  ASSUME NEW t, NEW h, NEW rest, NEW at, NEW says, NEW p, Took(t, h, rest, at, says),
         Remains(t, h, says, rest, p), Refused(h, says) => h.state = "revoked",
         NEW s, Has(steps[t], "index", s), ~Has(p, "index", s)
  PROVE  h.store = "index" /\ h.scope = s
<1>1. PICK y \in Planned(steps[t]) : y.store = "index" /\ y.scope = s  BY DEF Has
<1>2. y \notin Planned(p)  BY <1>1 DEF Has
<1>3. y \notin Planned(rest)  BY <1>1, <1>2 DEF Remains
<1>4. QED  BY <1>1, <1>3 DEF Took

(* A change that was made leaves the policies behind the index, and the     *)
(* rest of the plan in time.                                                *)
LEMMA TakeStepTimely ==
  ASSUME AccessFit, ApartFits, NEW t \in Task, TakeStep(t)
  PROVE  ApartFits'
<1> SUFFICES ASSUME Apart' PROVE TimesFit'  BY DEF ApartFits
<1>1. PICK h : h = Head(steps[t])  OBVIOUS
<1>2. PICK rest, at : rest = Tail(steps[t]) /\ at = TimeOf(t, h)  OBVIOUS
<1>3. PICK says : says = Says(t, h, at)  OBVIOUS
<1>4. Took(t, h, rest, at, says) /\ GoesOn(t, h, says)  BY <1>1, <1>2, <1>3, TakeStepFacts
<1>5. PICK p : steps' = [steps EXCEPT ![t] = p] /\ Remains(t, h, says, rest, p)
  BY <1>1, <1>2, <1>3, TakeStepFacts
<1>6. PICK now, new : now = marks[h.store][h.scope] /\ new = marks'[h.store][h.scope]  OBVIOUS
<1>70. Leaves(h, at, says, now, new)  BY <1>1, <1>2, <1>3, <1>6, TakeStepMarks
<1>7. /\ marks' \in [Store -> [Scope -> Mark]]
      /\ at \in Nat /\ at <= githubTime /\ says \in Times /\ says <= githubTime
      /\ \A store \in Store, s \in Scope :
           store # h.store \/ s # h.scope => marks'[store][s] = marks[store][s]
      /\ new.at >= now.at /\ new.at <= githubTime /\ new.at \in {now.at, at}
      /\ new.state \in {now.state, h.state}
      /\ h.store = "ledger" => new.state = h.state
      /\ h.store = "policy" /\ now.at <= at => new.state = h.state
      /\ h.store = "index" =>
           /\ at >= h.at
           /\ says # Newer => new.state = h.state /\ says = new.at /\ says >= at
           /\ says = Newer => marks' = marks
           /\ says = Newer /\ h.state = "revoked" => now.state = "revoked" /\ now.at > at
           /\ says = Newer /\ h.state = "active" =>
                h.scope = "repository" /\ marks["index"]["installation"].state = "revoked"
  BY <1>70 DEF Leaves
<1>8. /\ InProgress(t) /\ h \in Change /\ h \in Planned(steps[t]) /\ IsPlan(rest)
      /\ \A x \in Planned(steps[t]) : x = h \/ x \in Planned(rest)
      /\ Planned(rest) \subseteq Planned(steps[t])
      /\ \A x \in Planned(rest) : Place(h) < Place(x) /\ x.state = h.state /\ x.at = h.at
      /\ task' = task /\ first' = first /\ history \subseteq history'
      /\ told' = [told EXCEPT ![t][h.scope] = says]
  BY <1>4 DEF Took
<1>9. Apart /\ TimesFit  BY <1>8 DEF Apart, ApartFits
<1>10. \A u \in Task \ {t} : ~InProgress(u)  BY <1>8, <1>9 DEF TimesFit, Alone
<1>11. Timely(t)  BY <1>9 DEF TimesFit
<1>12. Refused(h, says) => h.state = "revoked" /\ doing' = doing
  BY <1>1, <1>4, <1>6, <1>7, <1>11, ActivationTaken
<1>13. doing' = doing  BY <1>4, <1>12 DEF GoesOn
<1>14. Planned(p) \subseteq Planned(rest) /\ (~Refused(h, says) => p = rest)  BY <1>5 DEF Remains
<1>15. PICK n, f, d : n = task[t] /\ f = first[t] /\ d = doing[t]  OBVIOUS
<1>16. PICK w, w2 : w = told[t] /\ w2 = [w EXCEPT ![h.scope] = says]  OBVIOUS
<1>17. PlanTimely(d, n, f, steps[t], w, marks)  BY <1>8, <1>11, <1>15, <1>16 DEF Timely
<1>18. h.scope \in Scope /\ h.store \in Store /\ "index" \in Store /\ "policy" \in Store
  BY <1>8 DEF Change, Store
<1>19. \A store \in Store, s \in Scope : marks[store][s].at \in Int /\ marks'[store][s].at \in Int
                                         /\ marks'[store][s].at >= -1
  BY <1>7 DEF AccessFit, AccessTypeOK, Mark, Times, Newer
<1>20. ASSUME NEW store \in Store, NEW s \in Scope PROVE marks[store][s].at <= marks'[store][s].at
  <2>1. CASE store = h.store /\ s = h.scope  BY <1>6, <1>7, <1>19, <2>1
  <2>2. CASE store # h.store \/ s # h.scope  BY <1>7, <1>19, <2>2
  <2>3. QED  BY <2>1, <2>2
<1>21. says # Newer \/ h.store # "index" \/ h.state = "revoked"  BY <1>12 DEF Refused
<1>22. w \in [Scope -> Times] /\ w2 \in [Scope -> Times] /\ w2[h.scope] = says
       /\ \A s \in Scope \ {h.scope} : w2[s] = w[s]
  BY <1>7, <1>16, <1>18 DEF AccessFit, AccessTypeOK
<1>23. h.store # "index" => says = w[h.scope]  BY <1>3, <1>16 DEF Says
<1>24. ASSUME NEW s \in Scope PROVE marks'["policy"][s].at <= marks'["index"][s].at
  <2>0. marks["policy"][s].at <= marks["index"][s].at  BY <1>9 DEF TimesFit, PoliciesBehind
  <2>1. CASE h.store = "policy" /\ h.scope = s
    <3>1. at <= marks["index"][s].at  BY <1>2, <1>4, <1>11, <2>1, PolicyTime
    <3>2. marks'["index"][s] = marks["index"][s]  BY <1>7, <1>18, <2>1
    <3>3. marks'["policy"][s].at \in {marks["policy"][s].at, at}  BY <1>6, <1>7, <2>1
    <3>4. QED  BY <2>0, <3>1, <3>2, <3>3
  <2>2. CASE ~(h.store = "policy" /\ h.scope = s)
    <3>1. marks'["policy"][s] = marks["policy"][s]  BY <1>7, <1>18, <2>2
    <3>2. marks["index"][s].at <= marks'["index"][s].at  BY <1>18, <1>20
    <3>3. QED  BY <1>18, <1>19, <2>0, <3>1, <3>2
  <2>3. QED  BY <2>1, <2>2
<1>25. ASSUME NEW s \in Scope, ~Has(p, "index", s), Has(steps[t], "index", s)
       PROVE  /\ h.store = "index" /\ h.scope = s /\ h.at <= marks'["index"][s].at
              /\ says # Newer => says = marks'["index"][s].at
  <2>1. h.store = "index" /\ h.scope = s  BY <1>4, <1>5, <1>12, <1>25, IndexStepMade
  <2>2. h.at \in Nat  BY <1>8 DEF Change
  <2>3. CASE says # Newer
    <3>1. says = marks'["index"][s].at /\ says >= at /\ at >= h.at  BY <1>6, <1>7, <2>1, <2>3
    <3>2. QED  BY <1>7, <1>18, <1>19, <2>1, <2>2, <3>1
  <2>4. CASE says = Newer
    <3>1. h.state = "revoked"  BY <1>21, <2>1, <2>4
    <3>2. marks["index"][s].at > at /\ at >= h.at /\ marks' = marks  BY <1>6, <1>7, <2>1, <2>4, <3>1
    <3>3. QED  BY <1>7, <1>18, <1>19, <2>1, <2>2, <2>4, <3>2
  <2>5. QED  BY <2>3, <2>4
<1>26. ASSUME NEW x \in Planned(p), x.store = "policy", ~Has(p, "index", x.scope)
       PROVE  /\ x.at <= marks'["index"][x.scope].at
              /\ x.state = "active" => w2[x.scope] # Newer /\ marks'["policy"][x.scope].at <= w2[x.scope]
  <2>1. /\ x \in Planned(steps[t]) /\ x \in Planned(rest) /\ x.at = h.at /\ x.state = h.state
        /\ x \in Change /\ x.scope \in Scope /\ x.at \in Nat
    <3>1. x \in Planned(rest) /\ rest \in Seq(Change)  BY <1>8, <1>14, <1>26 DEF IsPlan
    <3>2. x \in Change  BY <3>1, PlannedIn
    <3>3. QED  BY <1>8, <3>1, <3>2 DEF Change
  <2>2. ~(h.store = "policy" /\ h.scope = x.scope)
    <3>1. ~Has(rest, h.store, h.scope)  BY <1>8, HeadComesFirst DEF IsPlan
    <3>2. QED  BY <1>26, <2>1, <3>1 DEF Has
  <2>3. marks'["policy"][x.scope] = marks["policy"][x.scope]  BY <1>7, <1>18, <2>1, <2>2
  <2>4. CASE ~Has(steps[t], "index", x.scope)
    <3>1. /\ x.at <= marks["index"][x.scope].at
          /\ x.state = "active" => w[x.scope] # Newer /\ marks["policy"][x.scope].at <= w[x.scope]
      BY <1>17, <1>26, <2>1, <2>4 DEF PlanTimely
    <3>2. ~(h.store = "index" /\ h.scope = x.scope)  BY <1>8, <2>4 DEF Has
    <3>3. w2[x.scope] = w[x.scope]  BY <1>22, <1>23, <2>1, <3>2
    <3>4. x.at <= marks'["index"][x.scope].at
      BY <1>18, <1>19, <1>20, <2>1, <3>1
    <3>5. QED  BY <2>3, <3>1, <3>3, <3>4
  <2>5. CASE Has(steps[t], "index", x.scope)
    <3>1. /\ h.store = "index" /\ h.scope = x.scope /\ h.at <= marks'["index"][x.scope].at
          /\ says # Newer => says = marks'["index"][x.scope].at
      BY <1>25, <1>26, <2>1, <2>5
    <3>2. ASSUME x.state = "active"
          PROVE  w2[x.scope] # Newer /\ marks'["policy"][x.scope].at <= w2[x.scope]
      <4>1. says # Newer  BY <1>21, <2>1, <3>1, <3>2
      <4>2. w2[x.scope] = marks'["index"][x.scope].at  BY <1>22, <3>1, <4>1
      <4>3. QED  BY <1>22, <1>24, <2>1, <3>1, <4>1, <4>2
    <3>3. QED  BY <2>1, <3>1, <3>2
  <2>6. QED  BY <2>4, <2>5
<1>27. ASSUME d = "act", ~f, ~Has(p, "index", n.scope) PROVE n.at <= marks'["index"][n.scope].at
  <2>1. n.scope \in Scope /\ n.at \in Nat  BY <1>15 DEF AccessFit, AccessTypeOK, Notices
  <2>2. CASE ~Has(steps[t], "index", n.scope)
    <3>1. n.at <= marks["index"][n.scope].at  BY <1>17, <1>27, <2>2 DEF PlanTimely
    <3>2. QED  BY <1>18, <1>19, <1>20, <2>1, <3>1
  <2>3. CASE Has(steps[t], "index", n.scope)
    <3>1. h.at = n.at  BY <1>8, <1>15, <1>27 DEF AccessFit, PlansFit, ActsAsSeen
    <3>2. h.at <= marks'["index"][n.scope].at  BY <1>25, <1>27, <2>1, <2>3
    <3>3. QED  BY <3>1, <3>2
  <2>4. QED  BY <2>2, <2>3
<1>28. ASSUME NEW s \in Scope PROVE w2[s] <= marks'["index"][s].at
  <2>1. w[s] <= marks["index"][s].at /\ w[s] \in Int  BY <1>17, <1>22 DEF PlanTimely, Times, Newer
  <2>2. CASE s = h.scope /\ h.store = "index"
    <3>1. w2[s] = says  BY <1>22, <2>2
    <3>2. CASE says = Newer
      <4>1. marks'["index"][s].at >= -1 /\ marks'["index"][s].at \in Int  BY <1>18, <1>19
      <4>2. QED  BY <3>1, <3>2, <4>1 DEF Newer
    <3>3. CASE says # Newer
      <4>1. says = marks'["index"][s].at  BY <1>6, <1>7, <2>2, <3>3
      <4>2. QED  BY <1>18, <1>19, <3>1, <4>1
    <3>4. QED  BY <3>2, <3>3
  <2>3. CASE ~(s = h.scope /\ h.store = "index")
    <3>1. w2[s] = w[s]  BY <1>22, <1>23, <2>3
    <3>2. marks["index"][s].at <= marks'["index"][s].at  BY <1>18, <1>20
    <3>3. QED  BY <1>18, <1>19, <2>1, <3>1, <3>2
  <2>4. QED  BY <2>2, <2>3
<1>29. ASSUME Has(p, "index", "repository"), ~Has(p, "index", "installation"), NEW x \in Planned(p),
      x.state = "active"
       PROVE  marks'["index"]["installation"].state = "active"
  <2>0. "installation" \in Scope  BY DEF Scope
  <2>1. h.state = "active" /\ h.state # "revoked"  BY <1>8, <1>14, <1>29
  <2>2. Has(steps[t], "index", "repository")  BY <1>8, <1>14, <1>29 DEF Has
  <2>3. CASE ~Has(steps[t], "index", "installation")
    <3>1. marks["index"]["installation"].state = "active"
      BY <1>8, <1>17, <2>1, <2>2, <2>3 DEF PlanTimely
    <3>2. ~(h.store = "index" /\ h.scope = "installation")  BY <1>8, <2>3 DEF Has
    <3>3. marks'["index"]["installation"] = marks["index"]["installation"]
      BY <1>7, <1>18, <2>0, <3>2
    <3>4. QED  BY <3>1, <3>3
  <2>4. CASE Has(steps[t], "index", "installation")
    <3>1. h.store = "index" /\ h.scope = "installation"  BY <1>25, <1>29, <2>0, <2>4
    <3>2. says # Newer  BY <1>21, <2>1, <3>1
    <3>3. QED  BY <1>6, <1>7, <2>1, <3>1, <3>2
  <2>5. QED  BY <2>3, <2>4
<1>30. PlanTimely(d, n, f, p, w2, marks')  BY <1>26, <1>27, <1>28, <1>29 DEF PlanTimely
<1>31. /\ doing'[t] = d /\ task'[t] = n /\ first'[t] = f /\ steps'[t] = p /\ told'[t] = w2
  BY <1>5, <1>8, <1>13, <1>15, <1>16, <1>18 DEF AccessFit, AccessTypeOK
<1>32. Timely(t)'  BY <1>30, <1>31 DEF Timely
<1>33. \A u \in Task \ {t} : Timely(u)'  BY <1>10, <1>13 DEF Timely, InProgress
<1>34. Alone'  BY <1>9, <1>13 DEF TimesFit, Alone, InProgress
<1>35. PoliciesBehind'  BY <1>24 DEF PoliciesBehind
<1>36. QED  BY <1>32, <1>33, <1>34, <1>35 DEF TimesFit

(* Every step keeps the times.                                              *)
LEMMA NextTimely == ASSUME AccessFit, ScopesFit, ApartFits, [AccessNext]_accessVars PROVE ApartFits'
<1>1. CASE UNCHANGED accessVars
  BY <1>1 DEF accessVars, ApartFits, Apart, TimesFit, Alone, PoliciesBehind, Timely, InProgress
<1>2. ASSUME NEW t \in Task, NEW scope \in Scope, AccessChanges(t, scope) PROVE ApartFits'
  <2>1. PICK n : /\ Deliver(t, n) /\ marks' = marks /\ history \subseteq history'
                 /\ first' = first /\ steps' = steps /\ told' = told
    BY <1>2 DEF AccessChanges
  <2>2. QED  BY <2>1, DeliveredTimely
<1>3. ASSUME NEW t \in Task, AnnouncedAgain(t) PROVE ApartFits'
  <2>1. PICK n : /\ Deliver(t, n) /\ marks' = marks /\ history \subseteq history'
                 /\ first' = first /\ steps' = steps /\ told' = told
    BY <1>3 DEF AnnouncedAgain
  <2>2. QED  BY <2>1, DeliveredTimely
<1>4. ASSUME NEW t \in Task, Look(t) \/ TakeStep(t) \/ LookAgain(t)
             \/ LookAtInstallation(t) \/ TaskEnds(t) \/ TaskFails(t)
      PROVE  ApartFits'
  BY <1>4, LookTimely, TakeStepTimely, LookAgainTimely, LookAtInstallationTimely, TaskEndsTimely
<1>5. QED  BY <1>1, <1>2, <1>3, <1>4 DEF AccessNext

-----------------------------------------------------------------------------
(* ... and what they are owed                                               *)

\* The task has not looked, and will bring all stores to what GitHub grants.
WillFix(t, s) ==
  /\ task[t].scope = s /\ doing[t] = "look"
  /\ granted[s] \/ (task[t].wants = "revoked" /\ task[t].at = githubTime)
Settled(s) == \A store \in Store : marks[store][s].state = Target(s)
\* The store is right, or the task has the change ahead.
Provides(t, store, s) == marks[store][s].state = Target(s) \/ Has(steps[t], store, s)
\* The task is about to have all stores right.
Mends(t, s) ==
  /\ task[t].scope = s
  /\ \/ /\ granted[s] /\ doing[t] = "act" /\ first[t] /\ \A store \in Store : Provides(t, store, s)
     \/ /\ ~granted[s] /\ doing[t] \in {"act", "finish"} /\ ~first[t]
        /\ task[t].wants = "revoked" /\ task[t].at = githubTime
        /\ told[t][s] \in {Newer, githubTime}
        /\ \A x \in Planned(steps[t]) : x.at = githubTime
        /\ \A store \in Store : Provides(t, store, s) \/ (store = "policy" /\ doing[t] = "act")
\* The task makes no change that GitHub has overtaken.
Current(t, s) ==
  InProgress(t) => /\ \A x \in Planned(steps[t]) : x.scope = s => x.state = Target(s)
                   /\ doing[t] = "act" /\ task[t].scope = s => (first[t] <=> granted[s])
UpToDate(s) == \A t \in Task : Current(t, s)
Owed(s) ==
  \/ \E t \in Task : WillFix(t, s)
  \/ UpToDate(s) /\ (Settled(s) \/ \E t \in Task : Mends(t, s))
OwedFits == Apart => \A s \in Scope : Owed(s)

(* What a move of one task leaves the others with, if GitHub grants the     *)
(* scope as before.                                                         *)
LEMMA OthersOwe ==
  ASSUME AccessFit, NEW t \in Task, NEW d, NEW n, NEW f, NEW p, Moves(t, d, n, f, p),
         NEW s \in Scope, granted'[s] = granted[s],
         NEW w, told' = [told EXCEPT ![t] = w], NEW u \in Task, u # t
  PROVE  /\ Current(u, s) => Current(u, s)'
         /\ githubTime' = githubTime /\ WillFix(u, s) => WillFix(u, s)'
         /\ githubTime' = githubTime /\ marks' = marks /\ Mends(u, s) => Mends(u, s)'
<1>1. /\ doing'[u] = doing[u] /\ task'[u] = task[u] /\ told'[u] = told[u]
      /\ first'[u] = first[u] /\ steps'[u] = steps[u]
  BY MovesOne DEF AccessFit, AccessTypeOK
<1>2. QED  BY <1>1 DEF Current, WillFix, Mends, Provides, InProgress, Target

(* A move that leaves the stores and GitHub alone: what is owed is owed     *)
(* still, if it is by the task that moves.                                  *)
LEMMA MovesOwed ==
  ASSUME AccessFit, OwedFits, NEW t \in Task, marks' = marks, granted' = granted, githubTime' = githubTime,
         history \subseteq history',
         NEW d, NEW n, NEW f, NEW p, NEW w, Moves(t, d, n, f, p), told' = [told EXCEPT ![t] = w],
         Apart /\ Apart' => \A s \in Scope :
           /\ WillFix(t, s) => Owed(s)'
           /\ UpToDate(s) => Current(t, s)'
           /\ UpToDate(s) /\ Mends(t, s) => Owed(s)'
  PROVE  OwedFits'
<1> SUFFICES ASSUME Apart', NEW s \in Scope PROVE Owed(s)'  BY DEF OwedFits
<1>1. Apart /\ Owed(s)  BY DEF Apart, OwedFits
<1>2. /\ WillFix(t, s) => Owed(s)'
      /\ UpToDate(s) => Current(t, s)'
      /\ UpToDate(s) /\ Mends(t, s) => Owed(s)'
  BY <1>1
<1>3. ASSUME NEW u \in Task, WillFix(u, s) PROVE Owed(s)'
  <2>1. CASE u = t  BY <1>2, <1>3, <2>1
  <2>2. CASE u # t
    <3>1. WillFix(u, s)'  BY <1>3, <2>2, OthersOwe
    <3>2. QED  BY <3>1 DEF Owed
  <2>3. QED  BY <2>1, <2>2
<1>4. ASSUME UpToDate(s) PROVE UpToDate(s)'
  <2>1. \A u \in Task \ {t} : Current(u, s)'
    <3> SUFFICES ASSUME NEW u \in Task, u # t PROVE Current(u, s)'  OBVIOUS
    <3>1. Current(u, s)  BY <1>4 DEF UpToDate
    <3>2. QED  BY <3>1, OthersOwe
  <2>2. QED  BY <1>2, <1>4, <2>1 DEF UpToDate
<1>5. ASSUME UpToDate(s), Settled(s) PROVE Owed(s)'
  <2>1. Settled(s)'  BY <1>5 DEF Settled, Target
  <2>2. QED  BY <1>4, <1>5, <2>1 DEF Owed
<1>6. ASSUME UpToDate(s), NEW u \in Task, Mends(u, s) PROVE Owed(s)'
  <2>1. CASE u = t  BY <1>2, <1>6, <2>1
  <2>2. CASE u # t
    <3>1. Mends(u, s)'  BY <1>6, <2>2, OthersOwe
    <3>2. QED  BY <1>4, <1>6, <3>1 DEF Owed
  <2>3. QED  BY <2>1, <2>2
<1>7. QED  BY <1>1, <1>3, <1>5, <1>6 DEF Owed

(* A repeated announcement leaves what is owed.                             *)
LEMMA AnnouncedAgainOwed ==
  ASSUME AccessFit, OwedFits, NEW t \in Task, AnnouncedAgain(t)
  PROVE  OwedFits'
<1>1. PICK n : Deliver(t, n) /\ history \subseteq history'  BY DEF AnnouncedAgain
<1>2. /\ doing[t] = "none" /\ granted' = granted /\ marks' = marks /\ githubTime' = githubTime
      /\ told' = told
  BY <1>1 DEF AnnouncedAgain, Deliver
<1>3. PICK d, f, p, w : d = "look" /\ f = first[t] /\ p = steps[t] /\ w = told[t]  OBVIOUS
<1>4. Moves(t, d, n, f, p) /\ told' = [told EXCEPT ![t] = w]
  BY <1>1, <1>2, <1>3 DEF Moves, Deliver, AnnouncedAgain, AccessFit, AccessTypeOK
<1>5. \A s \in Scope : ~WillFix(t, s) /\ ~Mends(t, s)  BY <1>2 DEF WillFix, Mends
<1>6. \A s \in Scope : Current(t, s)'
  <2>1. doing'[t] = "look"  BY <1>3, <1>4, MovesOne DEF AccessFit
  <2>2. QED  BY <2>1 DEF Current, InProgress
<1>7. QED  BY <1>1, <1>2, <1>4, <1>5, <1>6, MovesOwed

(* The announcement of a change is the task that will fix it.               *)
LEMMA AccessChangesOwed ==
  ASSUME AccessFit, ScopesFit, OwedFits, NEW t \in Task, NEW c \in Scope, AccessChanges(t, c)
  PROVE  OwedFits'
<1> SUFFICES ASSUME Apart', NEW s \in Scope PROVE Owed(s)'  BY DEF OwedFits
<1>1. AccessTypeOK  BY DEF AccessFit
<1>2. PICK n : n = Notice(c, IF granted[c] THEN "revoked" ELSE "active", githubTime + 1)  OBVIOUS
<1>3. /\ n.scope = c /\ n.wants = (IF granted[c] THEN "revoked" ELSE "active") /\ n.at = githubTime + 1
      /\ doing[t] = "none" /\ marks' = marks /\ granted' = [granted EXCEPT ![c] = ~@]
      /\ githubTime' = githubTime + 1 /\ told' = told
      /\ task' = [task EXCEPT ![t] = n] /\ doing' = [doing EXCEPT ![t] = "look"]
      /\ first' = first /\ steps' = steps
      /\ c = "repository" => granted["installation"]
      /\ history \subseteq history'
      /\ (\E u \in Task : Pending(u)) /\ ~granted'["installation"] => "lost" \in history'
  BY <1>2 DEF AccessChanges, Deliver, Notice
<1>4. PICK d, f, p, w : d = "look" /\ f = first[t] /\ p = steps[t] /\ w = told[t]  OBVIOUS
<1>5. Moves(t, d, n, f, p) /\ told' = [told EXCEPT ![t] = w]
  BY <1>1, <1>3, <1>4 DEF Moves, AccessTypeOK
<1>6. Apart /\ Owed(s) /\ "lost" \notin history'  BY <1>3 DEF Apart, OwedFits
<1>7. granted'[c] <=> ~granted[c]  BY <1>1, <1>3 DEF AccessTypeOK
<1>8. task'[t] = n /\ doing'[t] = "look"  BY <1>4, <1>5, MovesOne DEF AccessFit
<1>9. CASE s = c
  <2>1. WillFix(t, c)'  BY <1>3, <1>7, <1>8 DEF WillFix
  <2>2. QED  BY <1>9, <2>1 DEF Owed
<1>10. CASE s # c
  <2>1. granted'[s] = granted[s]  BY <1>1, <1>3, <1>10 DEF AccessTypeOK
  <2>2. ASSUME NEW u \in Task, doing[u] = "look" \/ InProgress(u), task[u].scope = s PROVE granted[s]
    <3>1. CASE s = "installation"  BY <1>3, <1>10, <3>1 DEF Scope
    <3>2. CASE s = "repository"
      <4>1. Pending(u)  BY <2>2, <3>2 DEF Pending
      <4>2. granted["installation"]  BY <1>6, <4>1 DEF Apart, ScopesFit, Scoped
      <4>3. c = "installation"  BY <1>10, <3>2 DEF Scope
      <4>4. QED  BY <1>3, <1>6, <1>7, <4>1, <4>2, <4>3
    <3>3. QED  BY <3>1, <3>2 DEF Scope
  <2>3. ASSUME NEW u \in Task, WillFix(u, s) PROVE Owed(s)'
    <3>1. u # t  BY <1>3, <2>3 DEF WillFix
    <3>2. granted[s]  BY <2>2, <2>3 DEF WillFix
    <3>3. task'[u] = task[u] /\ doing'[u] = doing[u]  BY <1>5, <3>1, MovesOne DEF AccessFit
    <3>4. WillFix(u, s)'  BY <2>1, <2>3, <3>2, <3>3 DEF WillFix
    <3>5. QED  BY <3>4 DEF Owed
  <2>4. ASSUME UpToDate(s) PROVE UpToDate(s)'
    <3>1. ASSUME NEW u \in Task, u # t PROVE Current(u, s)'
      <4>1. Current(u, s)  BY <2>4 DEF UpToDate
      <4>2. QED  BY <1>5, <2>1, <3>1, <4>1, OthersOwe
    <3>2. Current(t, s)'  BY <1>8 DEF Current, InProgress
    <3>3. QED  BY <3>1, <3>2 DEF UpToDate
  <2>5. ASSUME UpToDate(s), Settled(s) PROVE Owed(s)'
    <3>1. Settled(s)'  BY <1>3, <2>1, <2>5 DEF Settled, Target
    <3>2. QED  BY <2>4, <2>5, <3>1 DEF Owed
  <2>6. ASSUME UpToDate(s), NEW u \in Task, Mends(u, s) PROVE Owed(s)'
    <3>1. u # t /\ InProgress(u) /\ task[u].scope = s  BY <1>3, <2>6 DEF Mends, InProgress
    <3>2. granted[s]  BY <2>2, <3>1
    <3>3. task'[u] = task[u] /\ doing'[u] = doing[u] /\ first'[u] = first[u] /\ steps'[u] = steps[u]
      BY <1>5, <3>1, MovesOne DEF AccessFit
    <3>4. Mends(u, s)'  BY <1>3, <2>1, <2>6, <3>2, <3>3 DEF Mends, Provides, Target
    <3>5. QED  BY <2>4, <2>6, <3>4 DEF Owed
  <2>7. QED  BY <1>6, <2>3, <2>5, <2>6 DEF Owed
<1>11. QED  BY <1>9, <1>10

(* The task that looks mends what it will fix: it is the only one at work.  *)
LEMMA LookOwed ==
  ASSUME AccessFit, ScopesFit, OwedFits, NEW t \in Task, Look(t)
  PROVE  OwedFits'
<1>1. PICK n : n = task[t]  OBVIOUS
<1>2. PICK sees : sees = Accessible(n.scope)  OBVIOUS
<1>3. /\ doing[t] = "look" /\ n \in Notices /\ sees \in BOOLEAN
      /\ granted' = granted /\ githubTime' = githubTime
      /\ task' = task /\ marks' = marks /\ told' = told /\ history \subseteq history'
      /\ first' = [first EXCEPT ![t] = sees]
      /\ n.wants = "active" /\ ~sees =>
              doing' = [doing EXCEPT ![t] = "done"] /\ steps' = [steps EXCEPT ![t] = <<>>]
      /\ ~(n.wants = "active" /\ ~sees) =>
              /\ doing' = [doing EXCEPT ![t] = "act"]
              /\ \E p : steps' = [steps EXCEPT ![t] = p] /\ FirstPlan(n, sees, p)
      /\ ~(n.wants = "active" /\ ~sees) /\ Overlapping(t) => "overlapped" \in history'
  BY <1>1, <1>2, LookFacts
<1>4. PICK w : w = told[t]  OBVIOUS
<1>5. task' = [task EXCEPT ![t] = n] /\ told' = [told EXCEPT ![t] = w]
  BY <1>1, <1>3, <1>4 DEF AccessFit, AccessTypeOK
<1>6. \A s \in Scope : ~Mends(t, s)  BY <1>3 DEF Mends
<1>7. ASSUME Apart
      PROVE  /\ n.scope \in Scope /\ (sees <=> granted[n.scope])
             /\ n.scope = "repository" => granted["installation"]
  <2>1. n.scope \in Scope  BY <1>3 DEF Notices
  <2>2. n.scope = "repository" => granted["installation"]
    BY <1>1, <1>3, <1>7 DEF Apart, ScopesFit, Scoped, Pending
  <2>3. QED  BY <1>2, <2>1, <2>2 DEF Accessible, Scope
<1>8. CASE n.wants = "active" /\ ~sees
  <2>1. PICK d, p : d = "done" /\ p = <<>>  OBVIOUS
  <2>2. Moves(t, d, n, sees, p)  BY <1>3, <1>5, <1>8, <2>1 DEF Moves
  <2>3. ASSUME Apart, NEW s \in Scope PROVE ~WillFix(t, s)
    BY <1>1, <1>7, <1>8, <2>3 DEF WillFix
  <2>4. doing'[t] = "done"  BY <2>1, <2>2, MovesOne DEF AccessFit
  <2>5. \A s \in Scope : Current(t, s)'  BY <2>4 DEF Current, InProgress
  <2>6. QED  BY <1>3, <1>5, <1>6, <2>2, <2>3, <2>5, MovesOwed
<1>9. CASE ~(n.wants = "active" /\ ~sees)
  <2>1. PICK p : steps' = [steps EXCEPT ![t] = p] /\ FirstPlan(n, sees, p)  BY <1>3, <1>9
  <2>2. PICK d : d = "act"  OBVIOUS
  <2>3. Moves(t, d, n, sees, p)  BY <1>3, <1>5, <1>9, <2>1, <2>2 DEF Moves
  <2>4. /\ task'[t] = n /\ doing'[t] = "act" /\ first'[t] = sees /\ steps'[t] = p
        /\ \A u \in Task \ {t} : doing'[u] = doing[u]
    BY <2>2, <2>3, MovesOne DEF AccessFit
  <2>5. ASSUME Apart, NEW s \in Scope PROVE Current(t, s)'
    <3>1. \A x \in Planned(p) : x.scope = s => x.state = IF granted[s] THEN "active" ELSE "revoked"
      BY <1>7, <2>1, <2>5 DEF FirstPlan, Scope
    <3>2. n.scope = s => (sees <=> granted[s])  BY <1>7, <2>5
    <3>3. QED  BY <1>3, <2>4, <3>1, <3>2 DEF Current, Target
  <2>6. ASSUME Apart, Apart', NEW s \in Scope, WillFix(t, s) PROVE Owed(s)'
    <3>1. s = n.scope /\ (granted[s] \/ (n.wants = "revoked" /\ n.at = githubTime))
      BY <1>1, <2>6 DEF WillFix
    <3>2. \A u \in Task \ {t} : ~InProgress(u)  BY <1>3, <1>9, <2>6 DEF Apart, Overlapping
    <3>3. UpToDate(s)'
      <4>1. \A u \in Task \ {t} : Current(u, s)'  BY <2>4, <3>2 DEF Current, InProgress
      <4>2. QED  BY <2>5, <2>6, <4>1 DEF UpToDate
    <3>4. \A x \in Planned(p) : x.at = n.at  BY <2>1 DEF FirstPlan
    <3>5. Has(p, "index", s) /\ Has(p, "ledger", s) /\ (sees => Has(p, "policy", s))
      BY <2>1, <3>1 DEF FirstPlan
    <3>6. Mends(t, s)'
      <4>1. CASE granted[s]
        <5>1. sees  BY <1>7, <2>6, <3>1, <4>1
        <5>2. \A store \in Store : Has(p, store, s)  BY <3>5, <5>1 DEF Store
        <5>3. QED  BY <1>3, <2>4, <3>1, <4>1, <5>1, <5>2 DEF Mends, Provides
      <4>2. CASE ~granted[s]
        <5>1. ~sees /\ n.wants = "revoked" /\ n.at = githubTime  BY <1>7, <2>6, <3>1, <4>2
        <5>2. told'[t][s] = Newer  BY <1>3 DEF AccessFit, PlansFit
        <5>3. \A store \in Store : Has(p, store, s) \/ store = "policy"  BY <3>5 DEF Store
        <5>4. QED  BY <1>3, <2>4, <3>1, <3>4, <4>2, <5>1, <5>2, <5>3 DEF Mends, Provides
      <4>3. QED  BY <4>1, <4>2
    <3>7. QED  BY <3>3, <3>6 DEF Owed
  <2>7. QED  BY <1>3, <1>5, <1>6, <2>3, <2>5, <2>6, MovesOwed
<1>10. QED  BY <1>8, <1>9

(* The task that looks again has mended its scope, or has only the policies *)
(* left.                                                                    *)
LEMMA LookAgainOwed ==
  ASSUME AccessFit, ScopesFit, OwedFits, NEW t \in Task, LookAgain(t)
  PROVE  OwedFits'
<1>1. PICK n : n = task[t]  OBVIOUS
<1>2. PICK sees : sees = Accessible(n.scope)  OBVIOUS
<1>3. /\ doing[t] = "act" /\ steps[t] = <<>> /\ n \in Notices /\ sees \in BOOLEAN
      /\ granted' = granted /\ githubTime' = githubTime
      /\ task' = task /\ marks' = marks /\ told' = told /\ history \subseteq history' /\ first' = first
  BY <1>1, <1>2, LookAgainFacts
<1>4. PICK d, p : /\ doing' = [doing EXCEPT ![t] = d] /\ steps' = [steps EXCEPT ![t] = p]
                  /\ SecondPlan(n, first[t], sees, d, p)
  BY <1>1, <1>2, LookAgainFacts
<1>5. PICK f, w : f = first[t] /\ w = told[t]  OBVIOUS
<1>6. Moves(t, d, n, f, p) /\ told' = [told EXCEPT ![t] = w]
  BY <1>1, <1>3, <1>4, <1>5 DEF Moves, AccessFit, AccessTypeOK
<1>7. InProgress(t) /\ Planned(steps[t]) = {} /\ f \in BOOLEAN
  BY <1>3, <1>5, EmptyPlan DEF InProgress, AccessFit, AccessTypeOK
<1>8. ASSUME Apart
      PROVE  /\ n.scope \in Scope /\ (sees <=> granted[n.scope])
             /\ n.scope = "repository" => granted["installation"]
  <2>1. n.scope \in Scope  BY <1>3 DEF Notices
  <2>2. n.scope = "repository" => granted["installation"]
    BY <1>1, <1>7, <1>8 DEF Apart, ScopesFit, Scoped, Pending
  <2>3. QED  BY <1>2, <2>1, <2>2 DEF Accessible, Scope
<1>9. /\ task'[t] = n /\ doing'[t] = d /\ first'[t] = f /\ steps'[t] = p /\ told'[t] = w
      /\ \A u \in Task \ {t} : doing'[u] = doing[u]
  BY <1>3, <1>5, <1>6, MovesOne DEF AccessFit
<1>10. ASSUME Apart, NEW s \in Scope PROVE Current(t, s)'
  <2>1. \A x \in Planned(p) : x.scope = s => x.state = IF granted[s] THEN "active" ELSE "revoked"
    BY <1>4, <1>8, <1>10 DEF SecondPlan, Scope
  <2>2. d # "act"  BY <1>4 DEF SecondPlan
  <2>3. QED  BY <1>3, <1>9, <2>1, <2>2 DEF Current, Target
<1>11. \A s \in Scope : ~WillFix(t, s)  BY <1>3 DEF WillFix
<1>12. ASSUME Apart, NEW s \in Scope, UpToDate(s), Mends(t, s) PROVE Owed(s)'
  <2>1. UpToDate(s)'
    <3>1. ASSUME NEW u \in Task, u # t PROVE Current(u, s)'
      <4>1. Current(u, s)  BY <1>12 DEF UpToDate
      <4>2. granted'[s] = granted[s]  BY <1>3
      <4>3. QED  BY <1>6, <3>1, <4>1, <4>2, OthersOwe
    <3>2. QED  BY <1>10, <1>12, <3>1 DEF UpToDate
  <2>2. n.scope = s  BY <1>1, <1>12 DEF Mends
  <2>3. ASSUME NEW store \in Store, Provides(t, store, s) PROVE marks'[store][s].state = Target(s)'
    BY <1>3, <1>7, <2>3 DEF Provides, Has, Target
  <2>4. CASE granted[s]
    <3>1. \A store \in Store : Provides(t, store, s)  BY <1>12, <2>4 DEF Mends
    <3>2. Settled(s)'  BY <2>3, <3>1 DEF Settled
    <3>3. QED  BY <2>1, <3>2 DEF Owed
  <2>5. CASE ~granted[s]
    <3>1. /\ ~f /\ n.wants = "revoked" /\ n.at = githubTime /\ w[s] \in {Newer, githubTime}
          /\ \A store \in Store : Provides(t, store, s) \/ store = "policy"
      BY <1>1, <1>5, <1>12, <2>5 DEF Mends
    <3>2. ~sees  BY <1>8, <1>12, <2>2, <2>5
    <3>3. d = "finish" /\ Has(p, "policy", n.scope) /\ \A x \in Planned(p) : x.at = n.at
      BY <1>4, <1>5, <3>1, <3>2 DEF SecondPlan
    <3>4. \A store \in Store : Provides(t, store, s)'
      BY <1>9, <2>2, <2>3, <3>1, <3>3 DEF Provides
    <3>5. Mends(t, s)'  BY <1>3, <1>9, <2>2, <2>5, <3>1, <3>3, <3>4 DEF Mends
    <3>6. QED  BY <2>1, <3>5 DEF Owed
  <2>6. QED  BY <2>4, <2>5
<1>13. QED  BY <1>3, <1>6, <1>10, <1>11, <1>12, MovesOwed

(* The look at the installation changes no plan.                            *)
LEMMA LookAtInstallationOwed ==
  ASSUME AccessFit, ScopesFit, OwedFits, NEW t \in Task, LookAtInstallation(t)
  PROVE  OwedFits'
<1>1. /\ doing[t] = "undo" /\ granted' = granted /\ githubTime' = githubTime
      /\ task' = task /\ history' = history
      /\ marks' = marks /\ first' = first /\ told' = told
      /\ doing' = [doing EXCEPT ![t] = "finish"]
      /\ granted["installation"] => steps' = steps
      /\ \E p : steps' = [steps EXCEPT ![t] = p]
  BY LookAtInstallationFacts
<1>2. PICK p : steps' = [steps EXCEPT ![t] = p]  BY <1>1
<1>3. PICK d, n, f, w : d = "finish" /\ n = task[t] /\ f = first[t] /\ w = told[t]  OBVIOUS
<1>4. Moves(t, d, n, f, p) /\ told' = [told EXCEPT ![t] = w]
  BY <1>1, <1>2, <1>3 DEF Moves, AccessFit, AccessTypeOK
<1>5. InProgress(t) /\ n.scope = "repository"  BY <1>1, <1>3 DEF InProgress, AccessFit, PlansFit
<1>6. ASSUME Apart PROVE steps' = steps
  <2>1. granted["installation"]  BY <1>3, <1>5, <1>6 DEF Apart, ScopesFit, Scoped, Pending
  <2>2. QED  BY <1>1, <2>1
<1>7. \A s \in Scope : ~WillFix(t, s) /\ ~Mends(t, s)  BY <1>1 DEF WillFix, Mends
<1>8. ASSUME Apart, NEW s \in Scope, UpToDate(s) PROVE Current(t, s)'
  <2>1. Current(t, s)  BY <1>8 DEF UpToDate
  <2>2. doing'[t] = "finish"  BY <1>3, <1>4, MovesOne DEF AccessFit
  <2>3. QED  BY <1>1, <1>5, <1>6, <1>8, <2>1, <2>2 DEF Current, Target
<1>9. history \subseteq history'  BY <1>1
<1>10. QED  BY <1>1, <1>4, <1>7, <1>8, <1>9, MovesOwed

(* A task that ends has mended its scope.                                   *)
LEMMA TaskEndsOwed ==
  ASSUME AccessFit, OwedFits, NEW t \in Task, TaskEnds(t)
  PROVE  OwedFits'
<1>1. /\ doing[t] = "finish" /\ steps[t] = <<>> /\ granted' = granted /\ githubTime' = githubTime
      /\ marks' = marks /\ history \subseteq history' /\ task' = task /\ first' = first
      /\ doing' = [doing EXCEPT ![t] = "done"] /\ steps' = [steps EXCEPT ![t] = <<>>]
      /\ told' = [told EXCEPT ![t] = [s \in Scope |-> Newer]]
  BY DEF TaskEnds, untouched, Becomes
<1>2. PICK d, p, n, f, w : /\ d = "done" /\ p = <<>> /\ n = task[t] /\ f = first[t]
                           /\ w = [s \in Scope |-> Newer]
  OBVIOUS
<1>3. Moves(t, d, n, f, p) /\ told' = [told EXCEPT ![t] = w]
  BY <1>1, <1>2 DEF Moves, AccessFit, AccessTypeOK
<1>4. doing'[t] = "done"  BY <1>2, <1>3, MovesOne DEF AccessFit
<1>5. \A s \in Scope : Current(t, s)'  BY <1>4 DEF Current, InProgress
<1>6. \A s \in Scope : ~WillFix(t, s)  BY <1>1 DEF WillFix
<1>7. ASSUME NEW s \in Scope, UpToDate(s), Mends(t, s) PROVE Owed(s)'
  <2>1. \A store \in Store : Provides(t, store, s)  BY <1>1, <1>7 DEF Mends
  <2>2. Planned(steps[t]) = {}  BY <1>1, EmptyPlan
  <2>3. Settled(s)'  BY <1>1, <2>1, <2>2 DEF Settled, Provides, Has, Target
  <2>4. UpToDate(s)'
    <3>1. ASSUME NEW u \in Task, u # t PROVE Current(u, s)'
      <4>1. Current(u, s)  BY <1>7 DEF UpToDate
      <4>2. granted'[s] = granted[s]  BY <1>1
      <4>3. QED  BY <1>3, <3>1, <4>1, <4>2, OthersOwe
    <3>2. QED  BY <1>5, <3>1 DEF UpToDate
  <2>5. QED  BY <2>3, <2>4 DEF Owed
<1>8. QED  BY <1>1, <1>3, <1>5, <1>6, <1>7, MovesOwed

(* A task that fails will fix its scope after its next look.                *)
LEMMA TaskFailsOwed ==
  ASSUME AccessFit, OwedFits, NEW t \in Task, TaskFails(t)
  PROVE  OwedFits'
<1>1. /\ InProgress(t) /\ granted' = granted /\ githubTime' = githubTime
      /\ marks' = marks /\ history \subseteq history' /\ task' = task /\ first' = first
      /\ doing' = [doing EXCEPT ![t] = "look"] /\ steps' = [steps EXCEPT ![t] = <<>>]
      /\ told' = [told EXCEPT ![t] = [s \in Scope |-> Newer]]
  BY DEF TaskFails, Becomes
<1>2. PICK d, p, n, f, w : /\ d = "look" /\ p = <<>> /\ n = task[t] /\ f = first[t]
                           /\ w = [s \in Scope |-> Newer]
  OBVIOUS
<1>3. Moves(t, d, n, f, p) /\ told' = [told EXCEPT ![t] = w]
  BY <1>1, <1>2 DEF Moves, AccessFit, AccessTypeOK
<1>4. doing'[t] = "look" /\ task'[t] = task[t]  BY <1>2, <1>3, MovesOne DEF AccessFit
<1>5. \A s \in Scope : Current(t, s)'  BY <1>4 DEF Current, InProgress
<1>6. \A s \in Scope : ~WillFix(t, s)  BY <1>1 DEF WillFix, InProgress
<1>7. ASSUME NEW s \in Scope, Mends(t, s) PROVE Owed(s)'
  <2>1. task[t].scope = s /\ (granted[s] \/ (task[t].wants = "revoked" /\ task[t].at = githubTime))
    BY <1>7 DEF Mends
  <2>2. WillFix(t, s)'  BY <1>1, <1>4, <2>1 DEF WillFix
  <2>3. QED  BY <2>2 DEF Owed
<1>8. QED  BY <1>1, <1>3, <1>5, <1>6, <1>7, MovesOwed

(* What a task that mends a scope changes there, it changes rightly.        *)
LEMMA MendsRightly ==
  ASSUME AccessFit, NEW t \in Task, Timely(t), Scoped, NEW s \in Scope, Current(t, s), Mends(t, s),
         NEW h, NEW rest, NEW at, NEW says, NEW now, NEW new,
         Took(t, h, rest, at, says), Leaves(h, at, says, now, new), at = TimeOf(t, h),
         now = marks[h.store][h.scope], Refused(h, says) => h.state = "revoked",
         h.store # "index" => says = told[t][h.scope]
  PROVE  /\ ~Refused(h, says)
         /\ h.scope = s => new.state = Target(s)
         /\ ~granted[s] /\ h.scope = s => says \in {Newer, githubTime}
<1>1. InProgress(t) /\ h \in Change /\ h \in Planned(steps[t]) /\ githubTime \in Nat
  BY DEF Took, AccessFit, AccessTypeOK
<1>2. h.scope = s => h.state = Target(s)  BY <1>1 DEF Current
<1>3. h.state = "revoked" => h.scope = s  BY <1>1 DEF Scoped, Mends
<1>4. at \in Nat /\ at <= githubTime /\ says \in Times /\ says <= githubTime
  BY DEF Leaves
<1>5. now.at <= githubTime /\ now.at \in Int
  <2>1. h.store \in Store /\ h.scope \in Scope  BY <1>1 DEF Change
  <2>2. QED  BY <2>1 DEF AccessFit, NothingFromTheFuture, AccessTypeOK, Mark, Times, Newer
<1>6. ASSUME ~granted[s], h.scope = s PROVE at = githubTime /\ h.state = "revoked"
  <2>1. h.state = "revoked" /\ h.at = githubTime /\ told[t][s] \in {Newer, githubTime}
    BY <1>1, <1>2, <1>6 DEF Mends, Target
  <2>2. CASE h.store = "index"  BY <2>1, <2>2 DEF TimeOf
  <2>3. CASE h.store # "index"
    BY <1>6, <2>1, <2>3 DEF TimeOf, ToldOr
  <2>4. QED  BY <2>1, <2>2, <2>3
<1>7. ~Refused(h, says)
  <2> SUFFICES ASSUME Refused(h, says) PROVE FALSE  OBVIOUS
  <2>1. h.scope = s /\ h.state = "revoked"  BY <1>3
  <2>2. ~granted[s]  BY <1>2, <2>1 DEF Target
  <2>3. at = githubTime  BY <1>6, <2>1, <2>2
  <2>4. now.at > at  BY <2>1 DEF Refused, Leaves
  <2>5. QED  BY <1>5, <1>1, <2>3, <2>4
<1>8. ASSUME h.scope = s PROVE new.state = Target(s)
  <2>1. CASE h.store = "index"
    BY <1>2, <1>7, <1>8, <2>1 DEF Leaves, Refused
  <2>2. CASE h.store = "ledger"  BY <1>2, <1>8, <2>2 DEF Leaves
  <2>3. CASE h.store = "policy"
    <3>1. now.at <= at
      <4>1. CASE granted[s]
        <5>1. h.state = "active"  BY <1>2, <1>8, <4>1 DEF Target
        <5>2. QED  BY <2>3, <5>1, PolicyTime
      <4>2. CASE ~granted[s]  BY <1>5, <1>6, <1>8, <4>2
      <4>3. QED  BY <4>1, <4>2
    <3>2. QED  BY <1>2, <1>8, <2>3, <3>1 DEF Leaves
  <2>4. QED  BY <1>1, <2>1, <2>2, <2>3 DEF Change, Store
<1>9. ASSUME ~granted[s], h.scope = s PROVE says \in {Newer, githubTime}
  <2>1. CASE h.store = "index"
    <3>1. says >= at /\ at = githubTime  BY <1>6, <1>7, <1>9, <2>1 DEF Leaves, Refused
    <3>2. says \in Int  BY <1>4 DEF Times, Newer
    <3>3. says = githubTime  BY <1>1, <1>4, <3>1, <3>2
    <3>4. QED  BY <3>3
  <2>2. CASE h.store # "index"
    <3>1. told[t][s] \in {Newer, githubTime}  BY <1>9 DEF Mends
    <3>2. QED  BY <1>9, <2>2, <3>1
  <2>3. QED  BY <2>1, <2>2
<1>10. QED  BY <1>7, <1>8, <1>9

(* A change that was made is right, and the rest of the plan mends the      *)
(* rest.                                                                    *)
LEMMA TakeStepOwed ==
  ASSUME AccessFit, ScopesFit, ApartFits, OwedFits, NEW t \in Task, TakeStep(t)
  PROVE  OwedFits'
<1> SUFFICES ASSUME Apart', NEW s \in Scope PROVE Owed(s)'  BY DEF OwedFits
<1>1. PICK h : h = Head(steps[t])  OBVIOUS
<1>2. PICK rest, at : rest = Tail(steps[t]) /\ at = TimeOf(t, h)  OBVIOUS
<1>3. PICK says : says = Says(t, h, at)  OBVIOUS
<1>4. Took(t, h, rest, at, says) /\ GoesOn(t, h, says)  BY <1>1, <1>2, <1>3, TakeStepFacts
<1>5. PICK p : steps' = [steps EXCEPT ![t] = p] /\ Remains(t, h, says, rest, p)
  BY <1>1, <1>2, <1>3, TakeStepFacts
<1>6. PICK now, new : now = marks[h.store][h.scope] /\ new = marks'[h.store][h.scope]  OBVIOUS
<1>7. Leaves(h, at, says, now, new)  BY <1>1, <1>2, <1>3, <1>6, TakeStepMarks
<1>8. /\ InProgress(t) /\ h \in Change /\ h \in Planned(steps[t])
      /\ \A x \in Planned(steps[t]) : x = h \/ x \in Planned(rest)
      /\ Planned(rest) \subseteq Planned(steps[t])
      /\ granted' = granted /\ githubTime' = githubTime
      /\ task' = task /\ first' = first /\ history \subseteq history'
      /\ told' = [told EXCEPT ![t][h.scope] = says]
  BY <1>4 DEF Took
<1>9. Apart /\ TimesFit /\ Scoped /\ Owed(s)  BY <1>8 DEF Apart, ApartFits, ScopesFit, OwedFits
<1>10. Timely(t)  BY <1>9 DEF TimesFit
<1>11. Refused(h, says) => h.state = "revoked" /\ doing' = doing
  <2>1. h.store = "index" /\ says = Newer /\ h.state = "active" =>
          h.scope = "repository" /\ marks["index"]["installation"].state = "revoked"
    BY <1>7 DEF Leaves
  <2>2. QED  BY <1>1, <1>4, <1>6, <1>10, <2>1, ActivationTaken
<1>12. doing' = doing  BY <1>4, <1>11 DEF GoesOn
<1>13. Planned(p) \subseteq Planned(steps[t])  BY <1>5, <1>8 DEF Remains
<1>14. PICK d, n, f : d = doing[t] /\ n = task[t] /\ f = first[t]  OBVIOUS
<1>15. PICK w : w = [told[t] EXCEPT ![h.scope] = says]  OBVIOUS
<1>16. told' = [told EXCEPT ![t] = w]  BY <1>8, <1>15
<1>17. Moves(t, d, n, f, p)  BY <1>5, <1>8, <1>12, <1>14 DEF Moves, AccessFit, AccessTypeOK
<1>18. /\ doing'[t] = doing[t] /\ task'[t] = task[t] /\ first'[t] = first[t] /\ steps'[t] = p
       /\ told'[t] = w
  BY <1>8, <1>12, <1>14, <1>16, <1>17, MovesOne DEF AccessFit, AccessTypeOK
<1>19. h.scope \in Scope /\ h.store \in Store  BY <1>8 DEF Change
<1>20. /\ marks'[h.store][h.scope] = new
       /\ \A store \in Store, r \in Scope :
            store # h.store \/ r # h.scope => marks'[store][r] = marks[store][r]
       /\ new.state \in {now.state, h.state}
  BY <1>6, <1>7 DEF Leaves
<1>21. ASSUME NEW u \in Task, WillFix(u, s) PROVE Owed(s)'
  <2>1. u # t  BY <1>8, <1>21 DEF WillFix, InProgress
  <2>2. WillFix(u, s)'  BY <1>8, <1>16, <1>17, <1>21, <2>1, OthersOwe
  <2>3. QED  BY <2>2 DEF Owed
<1>22. ASSUME UpToDate(s) PROVE Current(t, s) /\ UpToDate(s)' /\ (h.scope = s => h.state = Target(s))
  <2>1. Current(t, s)  BY <1>22 DEF UpToDate
  <2>2. Current(t, s)'  BY <1>8, <1>13, <1>18, <2>1 DEF Current, InProgress, Target
  <2>3. ASSUME NEW u \in Task, u # t PROVE Current(u, s)'
    <3>1. Current(u, s) /\ granted'[s] = granted[s]  BY <1>8, <1>22 DEF UpToDate
    <3>2. QED  BY <1>16, <1>17, <2>3, <3>1, OthersOwe
  <2>4. QED  BY <1>8, <2>1, <2>2, <2>3 DEF UpToDate, Current
<1>23. ASSUME UpToDate(s), Settled(s) PROVE Owed(s)'
  <2>1. ASSUME NEW store \in Store PROVE marks'[store][s].state = Target(s)
    <3>1. CASE store = h.store /\ s = h.scope  BY <1>6, <1>20, <1>22, <1>23, <3>1 DEF Settled
    <3>2. CASE store # h.store \/ s # h.scope  BY <1>20, <1>23, <3>2 DEF Settled
    <3>3. QED  BY <3>1, <3>2
  <2>2. Settled(s)'  BY <1>8, <2>1 DEF Settled, Target
  <2>3. QED  BY <1>22, <1>23, <2>2 DEF Owed
<1>24. ASSUME UpToDate(s), NEW u \in Task, Mends(u, s) PROVE Owed(s)'
  <2>1. u = t  BY <1>8, <1>9, <1>24 DEF Mends, InProgress, TimesFit, Alone
  <2>2. Mends(t, s)  BY <1>24, <2>1
  <2>3. Current(t, s)  BY <1>22, <1>24
  <2>4. h.store # "index" => says = told[t][h.scope]  BY <1>3 DEF Says
  <2>5. /\ ~Refused(h, says)
        /\ h.scope = s => new.state = Target(s)
        /\ ~granted[s] /\ h.scope = s => says \in {Newer, githubTime}
    <3>1. Refused(h, says) => h.state = "revoked"  BY <1>11
    <3>2. at = TimeOf(t, h)  BY <1>2
    <3>3. QED  BY <1>4, <1>6, <1>7, <1>9, <1>10, <2>2, <2>3, <2>4, <3>1, <3>2, MendsRightly
  <2>6. p = rest  BY <1>5, <2>5 DEF Remains
  <2>7. ASSUME NEW store \in Store, Provides(t, store, s) PROVE Provides(t, store, s)'
    <3>1. CASE store = h.store /\ s = h.scope
      BY <1>8, <1>20, <2>5, <3>1 DEF Provides, Target
    <3>2. CASE store # h.store \/ s # h.scope
      <4>1. marks'[store][s] = marks[store][s]  BY <1>20, <3>2
      <4>2. Has(steps[t], store, s) => Has(p, store, s)  BY <1>8, <2>6, <3>2 DEF Has
      <4>3. QED  BY <1>8, <1>18, <2>7, <4>1, <4>2 DEF Provides, Target
    <3>3. QED  BY <3>1, <3>2
  <2>8. ASSUME ~granted[s] PROVE told'[t][s] \in {Newer, githubTime}
    <3>1. told[t][s] \in {Newer, githubTime}  BY <2>2, <2>8 DEF Mends
    <3>2. told[t] \in [Scope -> Times]  BY DEF AccessFit, AccessTypeOK
    <3>3. CASE h.scope = s  BY <1>15, <1>18, <1>19, <2>5, <2>8, <3>2, <3>3
    <3>4. CASE h.scope # s  BY <1>15, <1>18, <1>19, <3>1, <3>2, <3>4
    <3>5. QED  BY <3>3, <3>4
  <2>9. Mends(t, s)'
    <3>1. CASE granted[s]  BY <1>8, <1>18, <2>2, <2>7, <3>1 DEF Mends
    <3>2. CASE ~granted[s]
      <4>1. /\ doing[t] \in {"act", "finish"} /\ ~first[t]
            /\ task[t].scope = s /\ task[t].wants = "revoked" /\ task[t].at = githubTime
            /\ \A x \in Planned(steps[t]) : x.at = githubTime
            /\ \A store \in Store : Provides(t, store, s) \/ (store = "policy" /\ doing[t] = "act")
        BY <2>2, <3>2 DEF Mends
      <4>2. \A store \in Store : Provides(t, store, s)' \/ (store = "policy" /\ doing[t] = "act")
        BY <2>7, <4>1
      <4>3. QED  BY <1>8, <1>13, <1>18, <2>8, <3>2, <4>1, <4>2 DEF Mends
    <3>3. QED  BY <3>1, <3>2
  <2>10. QED  BY <1>22, <1>24, <2>9 DEF Owed
<1>25. QED  BY <1>9, <1>21, <1>23, <1>24 DEF Owed

(* To begin with no task is at work, and the stores are right.              *)
LEMMA InitApart == AccessInit => ApartFits /\ OwedFits
<1> SUFFICES ASSUME AccessInit PROVE ApartFits /\ OwedFits  OBVIOUS
<1>1. \A t \in Task : ~InProgress(t)  BY DEF AccessInit, InProgress
<1>2. \E at \in {Newer, 0} : \A store \in Store, s \in Scope :
        /\ marks[store][s].at = IF s = "repository" THEN at ELSE Newer
        /\ marks[store][s].state = Target(s)
  <2>1. CASE granted = [r \in Scope |-> TRUE] /\ marks = [store \in Store |-> Marks("active", Newer)]
    BY <2>1 DEF Marks, Target, Store
  <2>2. CASE granted = [r \in Scope |-> r = "installation"]
        /\ marks = [store \in Store |-> Marks("revoked", 0)]
    <3>1. ASSUME NEW store \in Store, NEW s \in Scope
          PROVE  /\ marks[store][s].at = IF s = "repository" THEN 0 ELSE Newer
                 /\ marks[store][s].state = IF s = "repository" THEN "revoked" ELSE "active"
      BY <2>2 DEF Marks
    <3>2. \A s \in Scope : Target(s) = IF s = "repository" THEN "revoked" ELSE "active"
      BY <2>2 DEF Target, Scope
    <3>3. QED  BY <3>1, <3>2
  <2>3. QED  BY <2>1, <2>2 DEF AccessInit
<1>3. PoliciesBehind  BY <1>2 DEF PoliciesBehind, Store, Newer
<1>4. ApartFits  BY <1>1, <1>3 DEF ApartFits, TimesFit, Alone, Timely
<1>5. OwedFits  BY <1>1, <1>2 DEF OwedFits, Owed, Settled, UpToDate, Current
<1>6. QED  BY <1>4, <1>5

(* Every step keeps what the stores are owed.                               *)
LEMMA NextOwed ==
  ASSUME AccessFit, ScopesFit, ApartFits, OwedFits, [AccessNext]_accessVars
  PROVE  OwedFits'
<1>1. CASE UNCHANGED accessVars
  BY <1>1 DEF accessVars, OwedFits, Apart, Owed, WillFix, UpToDate, Current, Settled, Mends, Provides,
       InProgress, Target
<1>2. ASSUME NEW t \in Task, NEW scope \in Scope, AccessChanges(t, scope) PROVE OwedFits'
  BY <1>2, AccessChangesOwed
<1>3. ASSUME NEW t \in Task, AnnouncedAgain(t) \/ Look(t) \/ TakeStep(t) \/ LookAgain(t)
             \/ LookAtInstallation(t) \/ TaskEnds(t) \/ TaskFails(t)
      PROVE  OwedFits'
  BY <1>3, AnnouncedAgainOwed, LookOwed, TakeStepOwed, LookAgainOwed, LookAtInstallationOwed,
     TaskEndsOwed, TaskFailsOwed
<1>4. QED  BY <1>1, <1>2, <1>3 DEF AccessNext
-----------------------------------------------------------------------------
(* Access converges                                                         *)

\* All that tasks, index, ledger and policies keep.
AccessInv == AccessFit /\ ScopesFit /\ IndexFits /\ ApartFits /\ OwedFits

(* When every task has ended nothing is owed any more.                      *)
LEMMA AccessAtRest == ASSUME AccessInv PROVE AccessConverges
<1> SUFFICES ASSUME \A t \in Task : doing[t] \in {"none", "done"}, ~Excepted,
                    NEW store \in Store, store = "index" \/ "overlapped" \notin history
             PROVE  Grants(store) <=> Accessible("repository")
  BY DEF AccessConverges
<1>1. \A t \in Task : doing[t] # "look" /\ ~InProgress(t)  BY DEF InProgress
<1>2. "lost" \notin history  BY DEF Excepted
<1>3. \A s \in Scope : marks[store][s].state = Target(s)
  <2>1. CASE "overlapped" \in history
    <3>1. Calm /\ store = "index"  BY <1>2, <2>1 DEF Calm, Excepted
    <3>2. \A s \in Scope : IndexOwed(s)  BY <3>1 DEF AccessInv, IndexFits
    <3>3. \A s \in Scope, t \in Task : ~Fixes(t, s)  BY <1>1 DEF Fixes, InProgress
    <3>4. QED  BY <3>1, <3>2, <3>3 DEF IndexOwed
  <2>2. CASE "overlapped" \notin history
    <3>1. Apart  BY <1>2, <2>2 DEF Apart
    <3>2. \A s \in Scope : Owed(s)  BY <3>1 DEF AccessInv, OwedFits
    <3>3. \A s \in Scope, t \in Task : ~WillFix(t, s) /\ ~Mends(t, s)
      BY <1>1 DEF WillFix, Mends, InProgress
    <3>4. QED  BY <3>2, <3>3 DEF Owed, Settled
  <2>3. QED  BY <2>1, <2>2
<1>4. \A s \in Scope : marks[store][s].state = "active" <=> granted[s]  BY <1>3 DEF Target
<1>5. QED  BY <1>4 DEF Grants, Accessible, Scope

(* Once every task has ended, the index serves the repository exactly if    *)
(* GitHub grants it, and the ledger and the policies too if no two tasks    *)
(* overlapped, for any number of tasks, changes and failures, in whatever   *)
(* order the announcements came (repository-access-transitions.ts).         *)
THEOREM AccessConvergesAlways == AccessSpec => []AccessConverges
<1>1. AccessInit => AccessInv  BY InitFits, InitIndex, InitApart DEF AccessInv
<1>2. AccessInv /\ [AccessNext]_accessVars => AccessInv'
  BY NextFits, NextScoped, NextIndex, NextTimely, NextOwed DEF AccessInv
<1>3. AccessInv => AccessConverges  BY AccessAtRest
<1>4. QED  BY <1>1, <1>2, <1>3, PTL DEF AccessSpec
=============================================================================
