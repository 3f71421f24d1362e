------------------------- MODULE ReviewPipelineProofs -------------------------
(***************************************************************************)
(* What holds of an attempt at a review: that it leaves the time to        *)
(* publish and its cascade every model a slice, that its verdict is        *)
(* earned, and of what attempts write on GitHub, for any time limits that  *)
(* satisfy the assumptions, attempts, jobs, findings and faults.           *)
(***************************************************************************)
EXTENDS ReviewGeneration, ReviewPublication, SequenceTheorems, FiniteSetTheorems, TLAPS

-----------------------------------------------------------------------------
(***************************************************************************)
(* The time of an invocation, and its verdict                              *)
(***************************************************************************)

Collecting == {"create", "probe", "commands", "gathered"}
Over == {"decided", "failed", "rejected"}

\* When the models' turn comes at the latest.
EvidenceEnd == Invocation - PublishReserve - 3 * MinTry

GenerationTypeOK ==
  /\ elapsed \in Nat /\ contextAt \in Nat /\ cascadeAt \in Nat /\ about \in Subject
  /\ gen \in {"waiting", "setup", "cascade"} \cup Collecting \cup Over
  /\ attempts \in Seq([given : Int, retryable : BOOLEAN])

(* The evidence is on time: what follows a step is always still ahead of it. *)
EvidenceOnTime ==
  /\ gen = "waiting" => elapsed = 0
  /\ gen = "setup" => elapsed + DrainReserve <= Invocation
  /\ gen = "create" => elapsed + DrainReserve <= Invocation + SetUpCap
  /\ gen \in Collecting => contextAt <= EvidenceEnd
  /\ gen \in {"probe", "commands"} => elapsed <= SandboxDeadline
  /\ gen = "gathered" => elapsed <= EvidenceEnd
  /\ gen \notin {"cascade"} \cup Over => cascadeAt = 0 /\ attempts = <<>>

(* The cascade keeps to what the models were promised at its start: each    *)
(* that was tried had its share, and there is one left for each to come.    *)
SharesAreKept ==
  gen = "cascade" =>
    /\ cascadeAt <= EvidenceEnd
    /\ Len(attempts) <= Len(Chain)
    /\ \A i \in DOMAIN attempts : attempts[i].given >= Share
    /\ Share * ModelsLeft <= Left

GenInv == GenerationTypeOK /\ EvidenceOnTime /\ SharesAreKept /\ BudgetIsKept

-----------------------------------------------------------------------------
(* Lemmas about the operators.                                             *)

(* A call ends within its limit.                                           *)
LEMMA SpansEnd ==
  ASSUME NEW limit \in Nat, NEW d \in Spans(limit)
  PROVE  d \in Nat /\ d <= limit
  BY GenerationAssumption DEF Spans

(* The constants are numbers.                                              *)
LEMMA Numbers ==
  /\ Invocation \in Nat /\ PublishReserve \in Nat /\ DrainReserve \in Nat /\ AIReserve \in Nat
  /\ Slice \in Nat /\ SandboxMin \in Nat /\ CommandMin \in Nat /\ CommandCap \in Nat
  /\ ProbeCap \in Nat /\ ContextCap \in Nat /\ ModelCap \in Nat /\ MinTry \in Nat /\ SetUpCap \in Nat
  /\ SetUpCap + ContextCap + 3 * MinTry + PublishReserve <= DrainReserve
  /\ 3 * MinTry <= AIReserve /\ MinTry <= Slice
  BY GenerationAssumption

(* A model is added at the end of the chain, or is in it.                  *)
LEMMA ChainGrows ==
  ASSUME NEW S, NEW chain \in Seq(S), NEW m \in S
  PROVE  WithModel(chain, m) \in Seq(S) /\ Len(WithModel(chain, m)) \in Len(chain) .. Len(chain) + 1
<1>1. Append(chain, m) \in Seq(S) /\ Len(Append(chain, m)) = Len(chain) + 1 /\ Len(chain) \in Nat
  OBVIOUS
<1>2. WithModel(chain, m) \in {chain, Append(chain, m)}
  BY DEF WithModel
<1> QED
  BY <1>1, <1>2

(* One model at least, and three at most.                                  *)
LEMMA ChainLength ==
  ASSUME about \in Subject
  PROVE  Len(Chain) \in 1 .. 3
<1> DEFINE S == {about.model[r] : r \in {"policy", "scout", "deep", "fallback", "catchall"}}
           first == <<Primary>>
           second == WithModel(first, about.model["fallback"])
<1>1. Primary \in S /\ about.model["fallback"] \in S /\ about.model["catchall"] \in S
  BY DEF Primary, Role
<1> HIDE DEF S
<1>2. first \in Seq(S) /\ Len(first) = 1
  BY <1>1
<1> HIDE DEF first
<1>3. second \in Seq(S) /\ Len(second) \in 1 .. 2
  <2>1. second \in Seq(S) /\ Len(second) \in Len(first) .. Len(first) + 1
    BY <1>1, <1>2, ChainGrows
  <2> QED
    BY <1>2, <2>1
<1>4. Chain = WithModel(second, about.model["catchall"])
  BY DEF Chain, first
<1> HIDE DEF second
<1>5. Len(Chain) \in Len(second) .. Len(second) + 1
  BY <1>1, <1>3, <1>4, ChainGrows
<1>6. PICK n \in 1 .. 2 : Len(second) = n
  BY <1>3
<1>7. PICK m \in n .. n + 1 : Len(Chain) = m
  BY <1>5, <1>6
<1> QED
  BY <1>7

(* What the evidence leaves at time c is enough for a try of each of n     *)
(* models.                                                                 *)
ShareOf(n, c) == Lesser(Slice, (Invocation - PublishReserve - c) \div n)

(* What is left when the models' turn comes gives each of them a try, and  *)
(* no more than there is.                                                  *)
LEMMA ShareSuffices ==
  ASSUME NEW n \in 1 .. 3, NEW c \in Nat, c <= EvidenceEnd
  PROVE  /\ ShareOf(n, c) \in Nat /\ MinTry <= ShareOf(n, c) /\ ShareOf(n, c) <= Slice
         /\ ShareOf(n, c) * n <= Invocation - PublishReserve - c
<1> DEFINE r == Invocation - PublishReserve - c
           q == r \div n
<1>1. r \in Nat /\ 3 * MinTry <= r
  BY Numbers DEF EvidenceEnd
<1> HIDE DEF r
<1>2. q \in Nat /\ MinTry <= q /\ q * n <= r
  <2>1. CASE n = 1
    BY <1>1, <2>1, Numbers
  <2>2. CASE n = 2
    BY <1>1, <2>2, Numbers
  <2>3. CASE n = 3
    BY <1>1, <2>3, Numbers
  <2> QED
    BY <2>1, <2>2, <2>3
<1>3. ShareOf(n, c) = Lesser(Slice, q)
  BY DEF ShareOf, r
<1> HIDE DEF q
<1>4. ShareOf(n, c) \in Nat /\ MinTry <= ShareOf(n, c) /\ ShareOf(n, c) <= Slice /\ ShareOf(n, c) <= q
  BY <1>2, <1>3, Numbers DEF Lesser
<1>5. ShareOf(n, c) * n <= q * n
  BY <1>2, <1>4
<1> QED
  BY <1>1, <1>2, <1>4, <1>5 DEF r

(* timeoutForModelAttempt: who has the turn gets a share and leaves one to  *)
(* each of the others.                                                     *)
LEMMA TurnIsFair ==
  ASSUME NEW s \in Nat, NEW n \in 1 .. 3, s <= Slice, Left \in Int, s * n <= Left
  PROVE  /\ AttemptBudget(n) \in Nat
         /\ s <= AttemptBudget(n) /\ AttemptBudget(n) <= Left
         /\ s * (n - 1) <= Left - AttemptBudget(n)
<1>1. Left \in Nat
  <2>1. s * n \in Nat
    OBVIOUS
  <2> QED
    BY <2>1
<1>2. CASE n = 1
  BY <1>1, <1>2 DEF AttemptBudget
<1>3. CASE n = 2
  BY <1>1, <1>3, Numbers DEF AttemptBudget, Lesser
<1>4. CASE n = 3
  BY <1>1, <1>4, Numbers DEF AttemptBudget, Lesser
<1> QED
  BY <1>2, <1>3, <1>4

(* The chain and the share do not change while the models are asked.       *)
LEMMA ChainStays ==
  ASSUME UNCHANGED <<about, evidence, cascadeAt>>
  PROVE  Chain' = Chain /\ Share' = Share
<1>1. Chain' = Chain
  BY DEF Chain, Primary, Role, HighRisk, WithModel
<1> QED
  BY <1>1 DEF Share, Lesser

-----------------------------------------------------------------------------
(* The invariant holds at first.                                           *)
LEMMA GenerationStarts == GenerationInit => GenInv
  BY DEF GenerationInit, GenInv, GenerationTypeOK, EvidenceOnTime, SharesAreKept, BudgetIsKept,
     Collecting, Over

(* Up to the cascade nothing but the time is at stake.                     *)
LEMMA BeforeCascade ==
  ASSUME GenerationTypeOK', EvidenceOnTime', gen' \notin {"cascade"} \cup Over
  PROVE  GenInv'
  BY DEF GenInv, SharesAreKept, BudgetIsKept, Over

(* The steps of the sandbox end by its deadline, which leaves the models    *)
(* their time.                                                             *)
LEMMA DeadlineIsEarly ==
  /\ SandboxDeadline \in Int /\ SandboxDeadline <= EvidenceEnd
  /\ Invocation + SetUpCap - DrainReserve <= EvidenceEnd
  /\ Invocation + SetUpCap + ContextCap - DrainReserve <= EvidenceEnd
  BY Numbers DEF SandboxDeadline, EvidenceEnd

(* Claim, setup and sandbox are over in time.                              *)
LEMMA EvidenceStep ==
  ASSUME GenInv,
         ClaimReview \/ SetUp \/ SkipSandbox \/ CreateSandbox \/ Probe
           \/ RunStep \/ StepThrows \/ StepsEnd
  PROVE  GenInv'
<1> USE DEF GenInv, GenerationTypeOK, EvidenceOnTime, Collecting
<1>1. CASE ClaimReview
  <2>1. PICK t \in ClaimAt : MayClaim(t) /\ elapsed' = t
    BY <1>1 DEF ClaimReview
  <2>2. t \in Nat
    BY GenerationAssumption
  <2>3. GenerationTypeOK' /\ EvidenceOnTime' /\ gen' = "setup"
    BY <1>1, <2>1, <2>2, Numbers DEF ClaimReview, MayClaim, Over
  <2> QED
    BY <2>3, BeforeCascade DEF Over
<1>2. CASE SetUp
  <2>1. PICK d \in Spans(SetUpCap) : elapsed' = elapsed + d
    BY <1>2 DEF SetUp
  <2>2. d \in Nat /\ d <= SetUpCap
    BY SpansEnd, Numbers
  <2>3. CASE gen' = "create"
    <3>1. PICK c \in Spans(ContextCap) : contextAt' = elapsed' + c
      BY <1>2, <2>3 DEF SetUp
    <3>2. c \in Nat /\ c <= ContextCap
      BY SpansEnd, Numbers
    <3>3. gen = "setup" /\ UNCHANGED <<about, cascadeAt, attempts>>
      BY <1>2 DEF SetUp
    <3>4. GenerationTypeOK' /\ EvidenceOnTime'
      BY <2>1, <2>2, <2>3, <3>1, <3>2, <3>3, Numbers DEF Over, EvidenceEnd
    <3> QED
      BY <2>3, <3>4, BeforeCascade DEF Over
  <2>4. CASE gen' = "failed" /\ UNCHANGED contextAt
    <3>1. gen = "setup" /\ UNCHANGED <<about, cascadeAt, attempts>>
      BY <1>2 DEF SetUp
    <3>2. GenerationTypeOK' /\ elapsed' + PublishReserve <= Invocation
      BY <2>1, <2>2, <2>4, <3>1, Numbers DEF Over
    <3> QED
      BY <2>4, <3>1, <3>2 DEF Over, SharesAreKept, BudgetIsKept
  <2> QED
    BY <1>2, <2>3, <2>4 DEF SetUp
<1>3. CASE SkipSandbox
  <2>1. GenerationTypeOK' /\ EvidenceOnTime' /\ gen' = "gathered"
    BY <1>3, Numbers DEF SkipSandbox, SandboxEnds, Over, EvidenceEnd, SandboxDeadline
  <2> QED
    BY <2>1, BeforeCascade DEF Over
<1>4. CASE CreateSandbox
  <2>1. PICK d \in Spans(Remaining) : elapsed' = elapsed + d
    BY <1>4 DEF CreateSandbox
  <2>2. Remaining \in Nat
    BY <1>4, Numbers, DeadlineIsEarly DEF CreateSandbox, Remaining
  <2>3. d \in Nat /\ elapsed' <= SandboxDeadline
    BY <2>1, <2>2, SpansEnd, DeadlineIsEarly DEF Remaining
  <2>4. GenerationTypeOK' /\ EvidenceOnTime' /\ gen' \in {"probe", "gathered"}
    BY <1>4, <2>1, <2>3, Numbers, DeadlineIsEarly DEF CreateSandbox, SandboxEnds, Over, EvidenceEnd
  <2> QED
    BY <2>4, BeforeCascade DEF Over
<1>5. CASE Probe
  <2>1. elapsed' \in Nat /\ elapsed' <= SandboxDeadline
    <3>1. CASE Remaining < CommandMin
      BY <1>5, <3>1 DEF Probe
    <3>2. CASE ~(Remaining < CommandMin)
      <4>1. PICK d \in Spans(Lesser(ProbeCap, Remaining)) : elapsed' = elapsed + d
        BY <1>5, <3>2 DEF Probe
      <4>2. Remaining \in Nat /\ gen = "probe"
        BY <1>5, DeadlineIsEarly DEF Probe, Remaining
      <4>3. Lesser(ProbeCap, Remaining) \in Nat /\ Lesser(ProbeCap, Remaining) <= Remaining
        BY <4>2, Numbers DEF Lesser
      <4>4. d \in Nat /\ d <= Lesser(ProbeCap, Remaining)
        BY <4>3, SpansEnd
      <4> QED
        BY <4>1, <4>2, <4>3, <4>4, DeadlineIsEarly DEF Remaining
    <3> QED
      BY <3>1, <3>2
  <2>2. gen' \in {"commands", "gathered"} /\ gen = "probe"
        /\ UNCHANGED <<about, contextAt, cascadeAt, attempts>>
    BY <1>5 DEF Probe, SandboxEnds
  <2>3. GenerationTypeOK'
    BY <2>1, <2>2 DEF Over
  <2>4. EvidenceOnTime'
    <3>1. contextAt' <= EvidenceEnd /\ cascadeAt' = 0 /\ attempts' = <<>>
      BY <2>1, <2>2 DEF Over
    <3>2. elapsed' <= EvidenceEnd
      BY <2>1, <2>2, DeadlineIsEarly, Numbers DEF EvidenceEnd
    <3> QED
      BY <2>1, <2>2, <3>1, <3>2 DEF EvidenceEnd, SandboxDeadline
  <2> QED
    BY <2>2, <2>3, <2>4, BeforeCascade DEF Over
<1>6. CASE RunStep \/ StepThrows \/ StepsEnd
  <2>1. gen = "commands" /\ gen' \in {"commands", "gathered"}
        /\ UNCHANGED <<about, contextAt, cascadeAt, attempts>>
    BY <1>6 DEF RunStep, StepThrows, StepsEnd, SandboxEnds
  <2>2. elapsed' \in Nat /\ elapsed' <= SandboxDeadline
    <3>1. CASE UNCHANGED elapsed
      BY <2>1, <3>1
    <3>2. ASSUME Remaining >= CommandMin, NEW d \in Spans(CommandTimeout), elapsed' = elapsed + d
          PROVE  elapsed' \in Nat /\ elapsed' <= SandboxDeadline
      <4>1. Remaining \in Nat
        BY <2>1, DeadlineIsEarly DEF Remaining
      <4>2. CommandTimeout \in Nat /\ CommandTimeout <= Remaining
        BY <4>1, Numbers DEF CommandTimeout, Lesser
      <4>3. d \in Nat /\ d <= CommandTimeout
        BY <4>2, SpansEnd
      <4> QED
        BY <3>2, <4>1, <4>2, <4>3, DeadlineIsEarly DEF Remaining
    <3>3. \/ UNCHANGED elapsed
          \/ Remaining >= CommandMin /\ \E d \in Spans(CommandTimeout) : elapsed' = elapsed + d
      BY <1>6 DEF RunStep, StepThrows, StepsEnd
    <3> QED
      BY <3>1, <3>2, <3>3
  <2>3. GenerationTypeOK'
    BY <2>1, <2>2 DEF Over
  <2>4. EvidenceOnTime'
    <3>1. contextAt' <= EvidenceEnd /\ cascadeAt' = 0 /\ attempts' = <<>>
      BY <2>1, <2>2 DEF Over
    <3>2. elapsed' <= EvidenceEnd
      BY <2>1, <2>2, DeadlineIsEarly, Numbers DEF EvidenceEnd
    <3> QED
      BY <2>1, <2>2, <3>1, <3>2 DEF EvidenceEnd, SandboxDeadline
  <2> QED
    BY <2>1, <2>3, <2>4, BeforeCascade DEF Over
<1> QED
  BY <1>1, <1>2, <1>3, <1>4, <1>5, <1>6

-----------------------------------------------------------------------------
(* The evidence is there: the attempt is decided, or the cascade begins.   *)
LEMMA GatheredStep ==
  ASSUME GenInv, Gathered
  PROVE  GenInv'
<1> USE DEF GenInv, GenerationTypeOK, EvidenceOnTime
<1>1. gen = "gathered" /\ elapsed' = TheLater(elapsed, contextAt) /\ contextAt' = 0
      /\ UNCHANGED <<about, evidence, attempts>>
  BY DEF Gathered
<1>2. elapsed' \in Nat /\ elapsed' <= EvidenceEnd /\ attempts' = <<>>
  BY <1>1 DEF TheLater, Collecting, Over
<1>3. elapsed' + PublishReserve <= Invocation
  <2>1. \A e \in Nat : e <= EvidenceEnd => e + PublishReserve <= Invocation
    BY Numbers DEF EvidenceEnd
  <2> QED
    BY <1>2, <2>1
<1>4. CASE gen' = "decided" /\ UNCHANGED cascadeAt
  <2>1. GenerationTypeOK' /\ EvidenceOnTime'
    BY <1>1, <1>2, <1>4 DEF Collecting, Over
  <2>2. SharesAreKept' /\ BudgetIsKept'
    BY <1>3, <1>4 DEF SharesAreKept, BudgetIsKept
  <2> QED
    BY <2>1, <2>2
<1>5. CASE gen' = "cascade" /\ cascadeAt' = elapsed'
  <2>1. GenerationTypeOK' /\ EvidenceOnTime'
    BY <1>1, <1>2, <1>5 DEF Collecting, Over
  <2>2. Chain' = Chain
    BY <1>1 DEF Chain, Primary, Role, HighRisk, WithModel
  <2>3. PICK n \in 1 .. 3 : Len(Chain) = n
    BY ChainLength
  <2>4. Share' = ShareOf(n, elapsed')
    BY <1>5, <2>2, <2>3 DEF Share, ShareOf, Lesser
  <2>5. Share' * n <= Invocation - PublishReserve - elapsed'
    BY <1>2, <2>4, ShareSuffices
  <2>6. ModelsLeft' = n /\ Left' = Invocation - PublishReserve - elapsed'
    BY <1>2, <2>2, <2>3 DEF ModelsLeft, Left
  <2>7. SharesAreKept'
    BY <1>2, <1>5, <2>2, <2>3, <2>5, <2>6 DEF SharesAreKept, EvidenceEnd
  <2> QED
    BY <1>5, <2>1, <2>7 DEF BudgetIsKept
<1> QED
  BY <1>4, <1>5 DEF Gathered, Decide

(* A try takes what the share leaves it, and no more.                      *)
LEMMA TriesAreFair ==
  ASSUME GenInv, gen = "cascade"
  PROVE  /\ Len(Chain) \in 1 .. 3 /\ ModelsLeft \in 0 .. 3 /\ Left \in Nat
         /\ Share \in Nat /\ MinTry <= Share
         /\ ModelsLeft > 0 =>
              /\ AttemptBudget(ModelsLeft) \in Nat /\ Share <= AttemptBudget(ModelsLeft)
              /\ AttemptBudget(ModelsLeft) <= Left
              /\ Share * (ModelsLeft - 1) <= Left - AttemptBudget(ModelsLeft)
              /\ Share <= Left
<1> USE DEF GenInv, GenerationTypeOK, SharesAreKept
<1>1. PICK n \in 1 .. 3 : Len(Chain) = n
  BY ChainLength
<1>2. Share = ShareOf(n, cascadeAt)
  BY <1>1 DEF Share, ShareOf
<1>3. Share \in Nat /\ MinTry <= Share /\ Share <= Slice
  BY <1>2, ShareSuffices
<1>4. PICK k \in 0 .. 3 : ModelsLeft = k
  BY <1>1 DEF ModelsLeft
<1>5. Left \in Int
  BY Numbers DEF Left
<1>6. Share * k <= Left
  BY <1>4
<1>7. Left \in Nat
  BY <1>3, <1>5, <1>6
<1>8. ASSUME k > 0
      PROVE  /\ AttemptBudget(k) \in Nat /\ Share <= AttemptBudget(k)
             /\ AttemptBudget(k) <= Left /\ Share * (k - 1) <= Left - AttemptBudget(k)
  <2>1. k \in 1 .. 3
    BY <1>8
  <2> QED
    BY <1>3, <1>5, <1>6, <2>1, TurnIsFair
<1> QED
  BY <1>1, <1>3, <1>4, <1>7, <1>8

(* A model answers, fails or is missing, or the cascade gives up.          *)
LEMMA CascadeStep ==
  ASSUME GenInv, AttemptSucceeds \/ AttemptFails \/ NoModel \/ GiveUp
  PROVE  GenInv'
<1> USE DEF GenInv, GenerationTypeOK, EvidenceOnTime
<1>1. gen = "cascade" /\ UNCHANGED <<about, contextAt, evidence, cascadeAt>>
  BY DEF AttemptSucceeds, AttemptFails, NoModel, GiveUp
<1>2. Chain' = Chain /\ Share' = Share
  BY <1>1, ChainStays
<1>3. Left = Invocation - PublishReserve - elapsed
  BY DEF Left
<1>4. ASSUME MayTry, NEW d \in Spans(TryTimeout), elapsed' = elapsed + d
      PROVE  elapsed' \in Nat /\ d \in Nat /\ d <= AttemptBudget(ModelsLeft)
             /\ elapsed' + PublishReserve <= Invocation
  <2>1. AttemptBudget(ModelsLeft) \in Nat /\ AttemptBudget(ModelsLeft) <= Left
    BY <1>1, <1>4, TriesAreFair DEF MayTry
  <2>2. TryTimeout \in Nat /\ TryTimeout <= AttemptBudget(ModelsLeft)
    BY <2>1, Numbers DEF TryTimeout, Lesser
  <2>3. d \in Nat /\ d <= TryTimeout
    BY <2>2, SpansEnd
  <2> QED
    BY <1>3, <1>4, <2>1, <2>2, <2>3, Numbers
<1>5. CASE AttemptSucceeds
  <2>1. gen' = "decided" /\ UNCHANGED attempts
    BY <1>5 DEF AttemptSucceeds, Decide
  <2>2. elapsed' \in Nat /\ elapsed' + PublishReserve <= Invocation
    BY <1>4, <1>5 DEF AttemptSucceeds
  <2> QED
    BY <1>1, <2>1, <2>2 DEF Collecting, Over, SharesAreKept, BudgetIsKept
<1>6. CASE AttemptFails
  <2>1. PICK d \in Spans(TryTimeout), retryable \in BOOLEAN :
          /\ elapsed' = elapsed + d
          /\ attempts' = Append(attempts, [given |-> AttemptBudget(ModelsLeft), retryable |-> retryable])
    BY <1>6 DEF AttemptFails
  <2>2. MayTry /\ gen' = "cascade"
    BY <1>1, <1>6 DEF AttemptFails
  <2>3. elapsed' \in Nat /\ d \in Nat /\ d <= AttemptBudget(ModelsLeft)
    BY <1>4, <2>1, <2>2
  <2>4. ModelsLeft > 0
    BY <2>2 DEF MayTry
  <2>5. AttemptBudget(ModelsLeft) \in Nat /\ Share <= AttemptBudget(ModelsLeft)
        /\ Share * (ModelsLeft - 1) <= Left - AttemptBudget(ModelsLeft) /\ Share \in Nat
        /\ Len(Chain) \in 1 .. 3
    BY <1>1, <2>4, TriesAreFair
  <2>6. attempts' \in Seq([given : Int, retryable : BOOLEAN]) /\ Len(attempts') = Len(attempts) + 1
    BY <2>1, <2>5
  <2>7. ModelsLeft' = ModelsLeft - 1 /\ Len(attempts') <= Len(Chain')
    BY <1>2, <2>4, <2>5, <2>6 DEF ModelsLeft
  <2>8. Share' * ModelsLeft' <= Left'
    <3>1. Left' = Left - d
      BY <1>3, <2>1, <2>3, Numbers DEF Left
    <3> DEFINE p == Share * (ModelsLeft - 1)
    <3>2. Share' * ModelsLeft' = p
      BY <1>2, <2>7
    <3>3. p <= Left - AttemptBudget(ModelsLeft) /\ p \in Int
      BY <2>5 DEF ModelsLeft
    <3>4. Left \in Int
      BY <1>3, Numbers
    <3> HIDE DEF p
    <3> QED
      BY <2>3, <2>5, <3>1, <3>2, <3>3, <3>4
  <2>9. \A i \in DOMAIN attempts' : attempts'[i].given >= Share'
    BY <1>1, <1>2, <2>1, <2>5 DEF SharesAreKept
  <2> QED
    BY <1>1, <2>2, <2>3, <2>6, <2>7, <2>8, <2>9
    DEF Collecting, Over, SharesAreKept, BudgetIsKept, EvidenceEnd
<1>7. CASE NoModel
  <2>1. gen' = "decided" /\ UNCHANGED <<elapsed, attempts>>
    BY <1>7 DEF NoModel, Decide
  <2>2. elapsed + PublishReserve <= Invocation
    BY <1>1, <1>3, TriesAreFair, Numbers
  <2> QED
    BY <1>1, <2>1, <2>2 DEF Collecting, Over, SharesAreKept, BudgetIsKept
<1>8. CASE GiveUp
  <2>1. gen' \in {"failed", "rejected"} /\ UNCHANGED <<elapsed, attempts>> /\ ~MayTry
    BY <1>8 DEF GiveUp
  <2>2. elapsed + PublishReserve <= Invocation
    BY <1>1, <1>3, TriesAreFair, Numbers
  <2>3. ModelsLeft = 0
    BY <1>1, <2>1, TriesAreFair, Numbers DEF MayTry
  <2>4. Len(attempts) = Len(Chain)
    BY <1>1, <2>3, TriesAreFair DEF ModelsLeft
  <2> QED
    BY <1>1, <1>2, <2>1, <2>2, <2>4 DEF Collecting, Over, SharesAreKept, BudgetIsKept
<1> QED
  BY <1>5, <1>6, <1>7, <1>8

-----------------------------------------------------------------------------
(* Every attempt is over while its result can be published, and gives up    *)
(* only when each model of the chain had its slice or its even share.      *)
THEOREM BudgetHolds == GenerationSpec => []BudgetIsKept
<1>1. GenerationInit => GenInv
  BY GenerationStarts
<1>2. GenInv /\ [GenerationNext]_genVars => GenInv'
  <2> SUFFICES ASSUME GenInv, [GenerationNext]_genVars PROVE GenInv'
    OBVIOUS
  <2>1. CASE UNCHANGED genVars
    BY <2>1, ChainStays DEF genVars, GenInv, GenerationTypeOK, EvidenceOnTime, SharesAreKept, BudgetIsKept,
       ModelsLeft, Left
  <2>2. CASE GenerationNext
    BY <2>2, EvidenceStep, GatheredStep, CascadeStep DEF GenerationNext
  <2> QED
    BY <2>1, <2>2
<1>3. GenInv => BudgetIsKept
  BY DEF GenInv
<1> QED
  BY <1>1, <1>2, <1>3, PTL DEF GenerationSpec

-----------------------------------------------------------------------------
(* The verdict.                                                            *)

Exits == {0, 1, 137}
AllZero == \A i \in DOMAIN ran : ran[i] = 0

(* A step is only added to those that passed, so what ran is a prefix of    *)
(* the plan; and the result says of what ran what a verdict is drawn from. *)
EvidenceIsTrue ==
  /\ plan \in Seq({"install", "script", "configured"}) /\ ran \in Seq(Exits)
  /\ gen \in {"waiting", "setup", "create", "probe"} => ran = <<>>
  /\ gen = "commands" => Len(ran) <= Len(plan)
  /\ gen \in {"gathered", "cascade", "decided"} =>
       /\ evidence.ok => Len(ran) = Len(plan) /\ AllZero
       /\ ~evidence.ok /\ evidence.status \notin {"partial", "unavailable"} => ~AllZero
  /\ gen # "decided" => review = NoReview

VerdictInv == about \in Subject /\ EvidenceIsTrue /\ VerdictIsEarned

(* The plan is a sequence of steps.                                        *)
LEMMA PlanOfSteps ==
  ASSUME about \in Subject
  PROVE  FullPlan \in Seq({"install", "script", "configured"})
         /\ Configured \in Seq({"install", "script", "configured"})
<1> DEFINE S == {"install", "script", "configured"}
<1>1. about.commands \in Nat
  BY SubjectAssumption
<1>2. Configured \in [1 .. about.commands -> S]
  BY DEF Configured
<1>3. Configured \in Seq(S)
  BY <1>1, <1>2, SeqDef
<1>4. Usual \in Seq(S)
  <2> DEFINE three == <<"script", "script", "script">>
  <2>1. Usual = three \o <<>> \/ Usual = three \o <<"script">>
    BY DEF Usual
  <2>2. three \in Seq(S) /\ <<"script">> \in Seq(S) /\ <<>> \in Seq(S)
    OBVIOUS
  <2> HIDE DEF S, three
  <2> QED
    BY <2>1, <2>2, ConcatProperties
<1>5. <<"install">> \in Seq(S)
  OBVIOUS
<1> HIDE DEF S
<1>6. FullPlan \in Seq(S)
  BY <1>3, <1>4, <1>5 DEF FullPlan
<1> QED
  BY <1>3, <1>6 DEF S

(* Whatever decides, the verdict is earned by the evidence.                *)
LEMMA DecideIsEarned ==
  ASSUME VerdictInv, gen \in {"gathered", "cascade"}, UNCHANGED <<about, plan, ran, evidence>>,
         NEW shown \in {"none", "minor", "blocking"}, NEW judged \in BOOLEAN, Decide(shown, judged),
         evidence.ok => judged \/ about.vendoredOnly \/ ~about.hasKey
  PROVE  VerdictInv'
<1> USE DEF VerdictInv, EvidenceIsTrue
<1>1. /\ gen' = "decided" /\ review'.verdict = Verdict(shown) /\ review'.judged = judged
      /\ review'.blocking = (shown = "blocking")
      /\ review'.title = IF Infra THEN "infrastructure" ELSE "complete"
  BY DEF Decide
<1>2. (about \in Subject /\ EvidenceIsTrue)'
  BY <1>1 DEF AllZero
<1>3. ASSUME review'.verdict = "approve"
      PROVE  /\ Len(ran) = Len(plan) /\ AllZero
             /\ judged \/ about.vendoredOnly \/ ~about.hasKey
  BY <1>1, <1>3 DEF Verdict
<1>4. ASSUME review'.verdict = "request_changes", review'.title = "complete"
      PROVE  shown = "blocking" \/ \E i \in DOMAIN ran : ran[i] = 1
  <2>1. evidence.ok => shown = "blocking"
    BY <1>1, <1>4 DEF Verdict
  <2>2. ASSUME ~evidence.ok PROVE \E i \in DOMAIN ran : ran[i] = 1
    <3>1. ~Infra
      BY <1>1, <1>4
    <3>2. ~AllZero /\ \A i \in DOMAIN ran : ran[i] # 137
      BY <2>2, <3>1 DEF Infra
    <3>3. \A i \in DOMAIN ran : ran[i] \in Exits
      OBVIOUS
    <3> QED
      BY <3>2, <3>3 DEF AllZero, Exits
  <2> QED
    BY <2>1, <2>2
<1>5. VerdictIsEarned'
  BY <1>1, <1>3, <1>4 DEF VerdictIsEarned, AllZero
<1> QED
  BY <1>2, <1>5

(* The evidence tells of the steps that ran, and the verdict is its.       *)
LEMMA VerdictStep == VerdictInv /\ [GenerationNext]_genVars => VerdictInv'
<1> SUFFICES ASSUME VerdictInv, [GenerationNext]_genVars PROVE VerdictInv'
  OBVIOUS
<1> USE DEF VerdictInv, EvidenceIsTrue
<1>1. CASE UNCHANGED genVars
  BY <1>1 DEF genVars, AllZero, VerdictIsEarned
<1>2. CASE ClaimReview \/ SetUp
  BY <1>2 DEF ClaimReview, SetUp, VerdictIsEarned, NoReview
<1>3. CASE SkipSandbox \/ CreateSandbox
  BY <1>3 DEF SkipSandbox, CreateSandbox, SandboxEnds, VerdictIsEarned, NoReview, AllZero
<1>4. CASE Probe
  <2>1. plan' \in Seq({"install", "script", "configured"})
    BY <1>4, PlanOfSteps DEF Probe, ProbedPlans
  <2>2. gen = "probe" /\ UNCHANGED <<about, ran, review>> /\ ran = <<>> /\ review = NoReview
    BY <1>4 DEF Probe
  <2>3. gen' = "commands" \/ SandboxEnds(FALSE, "unavailable")
    BY <1>4 DEF Probe
  <2> QED
    BY <2>1, <2>2, <2>3 DEF SandboxEnds, VerdictIsEarned, NoReview, AllZero
<1>5. CASE RunStep
  <2>1. PICK exit \in Exits : ran' = Append(ran, exit)
    BY <1>5 DEF RunStep, Exits
  <2>2. Len(ran) + 1 <= Len(plan) /\ UNCHANGED <<gen, about, plan, review>> /\ gen = "commands"
    BY <1>5 DEF RunStep, MoreToRun, Upcoming
  <2>3. ran' \in Seq(Exits) /\ Len(ran') = Len(ran) + 1
    BY <2>1
  <2> QED
    BY <2>2, <2>3 DEF VerdictIsEarned, NoReview
<1>6. CASE StepThrows
  <2>1. \E s \in {"partial", "unavailable"} : SandboxEnds(FALSE, s)
    BY <1>6 DEF StepThrows
  <2>2. ran' = ran \/ ran' = Append(ran, 1)
    BY <1>6 DEF StepThrows
  <2>3. UNCHANGED <<about, plan, review>> /\ gen = "commands"
    BY <1>6 DEF StepThrows
  <2> QED
    BY <2>1, <2>2, <2>3 DEF SandboxEnds, VerdictIsEarned, NoReview, Exits
<1>7. CASE StepsEnd
  <2>1. UNCHANGED <<about, plan, ran, review>> /\ gen = "commands" /\ gen' = "gathered"
        /\ evidence' = [ok |-> AllPassed(MoreToRun),
                        status |-> IF MoreToRun THEN "partial" ELSE "complete"]
    BY <1>7 DEF StepsEnd, SandboxEnds
  <2>2. ASSUME evidence'.ok PROVE Len(ran) = Len(plan) /\ AllZero
    <3>1. AllPassed(MoreToRun)
      BY <2>1, <2>2
    <3>2. AllZero /\ ~MoreToRun
      BY <3>1 DEF AllPassed, AllZero
    <3>3. ~(Len(ran) + 1 <= Len(plan))
      BY <3>2 DEF MoreToRun, Upcoming, AllZero
    <3> QED
      BY <2>1, <3>2, <3>3
  <2>3. ~evidence'.ok /\ evidence'.status \notin {"partial", "unavailable"} => ~AllZero
    BY <2>1 DEF AllPassed, AllZero
  <2> QED
    BY <2>1, <2>2, <2>3 DEF VerdictIsEarned, NoReview, AllZero
<1>8. CASE Gathered
  <2>1. UNCHANGED <<about, plan, ran, evidence>> /\ gen = "gathered"
    BY <1>8 DEF Gathered
  <2>2. CASE Infra \/ about.vendoredOnly
    BY <1>8, <2>1, <2>2, DecideIsEarned DEF Gathered, Infra
  <2>3. CASE ~(Infra \/ about.vendoredOnly)
    BY <1>8, <2>1, <2>3 DEF Gathered, AllZero, VerdictIsEarned, NoReview
  <2> QED
    BY <2>2, <2>3
<1>9. CASE AttemptSucceeds
  BY <1>9, DecideIsEarned DEF AttemptSucceeds
<1>10. CASE NoModel
  BY <1>10, DecideIsEarned DEF NoModel
<1>11. CASE AttemptFails \/ GiveUp
  BY <1>11 DEF AttemptFails, GiveUp, AllZero, VerdictIsEarned, NoReview
<1> QED
  BY <1>1, <1>2, <1>3, <1>4, <1>5, <1>6, <1>7, <1>8, <1>9, <1>10, <1>11 DEF GenerationNext

(* An approval means that every step that applies ran and passed and that  *)
(* a model judged the diff if there was one to ask; a completed review     *)
(* requests changes only for a check or a finding.                         *)
THEOREM VerdictsAreEarned == GenerationSpec => []VerdictIsEarned
<1>1. GenerationInit => VerdictInv
  BY DEF GenerationInit, VerdictInv, EvidenceIsTrue, VerdictIsEarned, NoReview
<1>2. VerdictInv => VerdictIsEarned
  BY DEF VerdictInv
<1> QED
  BY <1>1, <1>2, VerdictStep, PTL DEF GenerationSpec

-----------------------------------------------------------------------------
(***************************************************************************)
(* What attempts publish                                                   *)
(***************************************************************************)

(* The head only moves on, from the commit of a job that was begun; and an *)
(* attempt whose review was found stale is never again about to change     *)
(* anything.                                                               *)
HeadsMoveOn ==
  /\ prHead \in Nat
  /\ late \in [Attempt -> 0 .. 1]
  /\ DOMAIN line = Attempt /\ DOMAIN jobOf = Attempt

StaleStaysStale ==
  \A a \in Attempt :
    /\ line[a] # "idle" => jobOf[a] \in ReviewJob /\ prHead >= ShaOf[jobOf[a]]
    /\ line[a] = "idle" => late[a] = 0
    /\ late[a] = 1 => prHead > ShaOf[jobOf[a]] /\ line[a] # "effect"

LateInv == HeadsMoveOn /\ StaleStaysStale

-----------------------------------------------------------------------------
(* The commits of the jobs are numbers.                                    *)
LEMMA CommitsAreNumbers == \A j \in ReviewJob : ShaOf[j] \in Nat
  BY PublicationAssumption

(* Steps that neither move the head nor begin an attempt nor change the    *)
(* comments: each attempt goes on, and to a request only past a look at    *)
(* the head.                                                               *)
LEMMA AttemptGoesOn ==
  ASSUME LateInv, NEW a \in Attempt, line[a] # "idle", UNCHANGED <<prHead, jobOf, late>>,
         line' = [line EXCEPT ![a] = line'[a]], line'[a] # "idle",
         line'[a] = "effect" => prHead = ShaOf[jobOf[a]]
  PROVE  LateInv'
<1>1. DOMAIN line' = Attempt /\ \A b \in Attempt \ {a} : line'[b] = line[b]
  BY DEF LateInv, HeadsMoveOn
<1> QED
  BY <1>1, CommitsAreNumbers DEF LateInv, HeadsMoveOn, StaleStaysStale

(* What attempts do before their inline comments, and after them.          *)
LEMMA OtherStepsKeep ==
  ASSUME LateInv, NEW a \in Attempt,
         \/ ConfirmLease(a) \/ AttemptCrashes(a) \/ RequestFails(a)
         \/ ListCheckRuns(a) \/ CreateCheckRun(a) \/ Generate(a)
         \/ ListComments(a) \/ PatchOrPostSummary(a) \/ FinishCheckRun(a)
  PROVE  LateInv'
<1> USE DEF HeadsMoveOn, LateInv
<1>1. CASE ConfirmLease(a)
  BY <1>1, AttemptGoesOn DEF ConfirmLease, GoesTo, hubVars
<1>2. CASE AttemptCrashes(a)
  BY <1>2, AttemptGoesOn DEF AttemptCrashes, GoesTo, Running, Waiting, hubVars, historyVars
<1>3. CASE RequestFails(a)
  BY <1>3, AttemptGoesOn DEF RequestFails, GoesTo, Ends, Running, Waiting, RequestOnly
<1>4. CASE ListCheckRuns(a)
  BY <1>4, AttemptGoesOn DEF ListCheckRuns, GoesTo, RequestOnly
<1>5. CASE CreateCheckRun(a)
  BY <1>5, AttemptGoesOn DEF CreateCheckRun, GoesTo, RequestOnly
<1>6. CASE Generate(a)
  BY <1>6, AttemptGoesOn DEF Generate, GoesTo, hubVars, historyVars
<1>7. CASE ListComments(a)
  BY <1>7, AttemptGoesOn DEF ListComments, GoesTo, RequestOnly
<1>8. CASE PatchOrPostSummary(a)
  BY <1>8, AttemptGoesOn DEF PatchOrPostSummary, GoesTo, RequestOnly
<1>9. CASE FinishCheckRun(a)
  BY <1>9, AttemptGoesOn DEF FinishCheckRun, GoesTo, Ends, RequestOnly
<1> QED
  BY <1>1, <1>2, <1>3, <1>4, <1>5, <1>6, <1>7, <1>8, <1>9

(* The synchronisation between its requests: a request is next only after  *)
(* a look at the head.                                                     *)
LEMMA SyncStepsKeep ==
  ASSUME LateInv, NEW a \in Attempt,
         \/ StartSync(a) \/ ListFindingComments(a) \/ Plan(a) \/ NextFinding(a)
         \/ PlaceRefused(a) \/ BeforeEffect(a)
  PROVE  LateInv'
<1> USE DEF HeadsMoveOn, LateInv
<1>1. CASE StartSync(a)
  BY <1>1, AttemptGoesOn DEF StartSync, GoesTo, SyncOnly
<1>2. CASE ListFindingComments(a)
  BY <1>2, AttemptGoesOn DEF ListFindingComments, GoesTo, SyncOnly
<1>3. CASE Plan(a)
  BY <1>3, AttemptGoesOn DEF Plan, GoesTo, SyncOnly
<1>4. CASE NextFinding(a)
  BY <1>4, AttemptGoesOn DEF NextFinding, GoesTo, SyncOnly
<1>5. CASE PlaceRefused(a)
  BY <1>5, AttemptGoesOn DEF PlaceRefused, GoesTo, SyncOnly
<1>6. CASE BeforeEffect(a)
  BY <1>6, AttemptGoesOn DEF BeforeEffect, CheckHead, HeadIsExpected, GoesTo, SyncOnly
<1> QED
  BY <1>1, <1>2, <1>3, <1>4, <1>5, <1>6

(* A request: it was not late before, and if it is now it was the last.    *)
LEMMA EffectKeeps ==
  ASSUME LateInv, NEW a \in Attempt, Effect(a)
  PROVE  LateInv'
<1>1. \E l \in {"check", "failing"} : line' = [line EXCEPT ![a] = l]
  BY DEF Effect, GoesTo
<1>2. /\ line[a] = "effect" /\ UNCHANGED <<prHead, jobOf>>
      /\ late' = [late EXCEPT ![a] = IF prHead = ShaOf[jobOf[a]] THEN @ ELSE @ + 1]
  BY DEF Effect, SyncOnly, Counted, HeadIsExpected
<1>3. late[a] = 0 /\ ShaOf[jobOf[a]] \in Nat /\ prHead >= ShaOf[jobOf[a]]
  BY <1>2, CommitsAreNumbers DEF LateInv, HeadsMoveOn, StaleStaysStale
<1>4. HeadsMoveOn'
  BY <1>1, <1>2, <1>3 DEF LateInv, HeadsMoveOn
<1>5. /\ line'[a] \in {"check", "failing"} /\ \A b \in Attempt \ {a} : line'[b] = line[b] /\ late'[b] = late[b]
      /\ late'[a] = 1 => prHead # ShaOf[jobOf[a]]
  BY <1>1, <1>2, <1>3 DEF LateInv, HeadsMoveOn
<1>6. StaleStaysStale'
  BY <1>2, <1>3, <1>5 DEF LateInv, HeadsMoveOn, StaleStaysStale
<1> QED
  BY <1>4, <1>6 DEF LateInv

(* An attempt begins, a lease runs out, a commit is pushed.                *)
LEMMA WorldKeeps ==
  ASSUME LateInv, (\E a \in Attempt, job \in ReviewJob : BeginAttempt(a, job)) \/ LeaseRunsOut \/ HeadMoves
  PROVE  LateInv'
<1>1. ASSUME NEW a \in Attempt, NEW job \in ReviewJob, BeginAttempt(a, job) PROVE LateInv'
  <2>1. /\ line[a] = "idle" /\ prHead >= ShaOf[job] /\ UNCHANGED <<prHead, late>>
        /\ line' = [line EXCEPT ![a] = "claimed"] /\ jobOf' = [jobOf EXCEPT ![a] = job]
    BY <1>1 DEF BeginAttempt, GoesTo, hubVars, historyVars
  <2>2. HeadsMoveOn'
    BY <2>1 DEF LateInv, HeadsMoveOn
  <2>3. /\ line'[a] = "claimed" /\ jobOf'[a] = job /\ late'[a] = 0
        /\ \A b \in Attempt \ {a} : line'[b] = line[b] /\ jobOf'[b] = jobOf[b]
    BY <2>1 DEF LateInv, HeadsMoveOn, StaleStaysStale
  <2>4. StaleStaysStale'
    BY <2>1, <2>3 DEF LateInv, StaleStaysStale
  <2> QED
    BY <2>2, <2>4 DEF LateInv
<1>2. CASE LeaseRunsOut
  <2>1. UNCHANGED <<prHead, late, line, jobOf>>
    BY <1>2 DEF LeaseRunsOut, hubVars
  <2> QED
    BY <2>1 DEF LateInv, HeadsMoveOn, StaleStaysStale
<1>3. CASE HeadMoves
  <2>1. prHead' = prHead + 1 /\ UNCHANGED <<late, line, jobOf>>
    BY <1>3 DEF HeadMoves
  <2> QED
    BY <2>1, CommitsAreNumbers DEF LateInv, HeadsMoveOn, StaleStaysStale
<1> QED
  BY <1>1, <1>2, <1>3

(* A review that a push has made stale changes at most one more thing      *)
(* about the inline comments, however many it had planned.                 *)
THEOREM StaleReviewsStop == PubSpec => []StaleEffectsAreBounded
<1>1. PubInit => LateInv
  BY DEF PubInit, LateInv, HeadsMoveOn, StaleStaysStale
<1>2. LateInv /\ [PubNext]_pubVars => LateInv'
  <2> SUFFICES ASSUME LateInv, [PubNext]_pubVars PROVE LateInv'
    OBVIOUS
  <2>1. CASE UNCHANGED pubVars
    BY <2>1 DEF pubVars, hubVars, historyVars, LateInv, HeadsMoveOn, StaleStaysStale
  <2>2. CASE PubNext
    BY <2>2, OtherStepsKeep, SyncStepsKeep, EffectKeeps, WorldKeeps DEF PubNext
  <2> QED
    BY <2>1, <2>2
<1>3. LateInv => StaleEffectsAreBounded
  BY DEF LateInv, HeadsMoveOn, StaleEffectsAreBounded
<1> QED
  BY <1>1, <1>2, <1>3, PTL DEF PubSpec

-----------------------------------------------------------------------------
(* The check run and the summary of a job.                                 *)

Check == [job : ReviewJob, completed : BOOLEAN]

PublicationTypeOK ==
  /\ checks \in Seq(Check) /\ summaries \in Seq(ReviewJob)
  /\ DOMAIN line = Attempt /\ DOMAIN jobOf = Attempt /\ Nobody \notin Attempt
  /\ \A a \in Attempt : Running(a) => jobOf[a] \in ReviewJob

(* Without an overtaking, who runs holds the lease, and so is alone; what  *)
(* it did not find when it looked has not come into being since.           *)
OneAtATime == \A a \in Attempt : Running(a) => lease = a
NothingYet ==
  \A a \in Attempt :
    /\ line[a] = "newCheck" => \A i \in DOMAIN checks : checks[i].job # jobOf[a]
    /\ line[a] = "newSummary" => \A i \in DOMAIN summaries : summaries[i] # jobOf[a]
OneOfEach ==
  /\ \A i, j \in DOMAIN summaries : summaries[i] = summaries[j] => i = j
  /\ \A i, j \in DOMAIN checks : checks[i].job = checks[j].job => i = j

SummaryInv == PublicationTypeOK /\ (~overtaken => OneAtATime /\ NothingYet /\ OneOfEach)

(* Steps of the attempt that holds the lease which leave what is published *)
(* alone and do not come from a lookup.                                    *)
LEMMA QuietSteps ==
  ASSUME SummaryInv, NEW a \in Attempt, Running(a), UNCHANGED <<checks, summaries, jobOf, overtaken>>,
         line' = [line EXCEPT ![a] = line'[a]], line'[a] \notin {"newCheck", "newSummary"},
         lease' = lease \/ line'[a] \in Waiting
  PROVE  SummaryInv'
<1>1. DOMAIN line' = Attempt /\ \A b \in Attempt \ {a} : line'[b] = line[b]
  BY DEF SummaryInv, PublicationTypeOK
<1>2. PublicationTypeOK'
  BY <1>1 DEF SummaryInv, PublicationTypeOK, Running
<1>3. ASSUME ~overtaken PROVE (OneAtATime /\ NothingYet /\ OneOfEach)'
  BY <1>1, <1>3 DEF SummaryInv, OneAtATime, NothingYet, OneOfEach, Running
<1> QED
  BY <1>2, <1>3 DEF SummaryInv

(* Most of an attempt's steps are such.                                    *)
LEMMA QuietStepsKeep ==
  ASSUME SummaryInv, NEW a \in Attempt,
         \/ ConfirmLease(a) \/ AttemptCrashes(a) \/ Generate(a) \/ StartSync(a)
         \/ ListFindingComments(a) \/ Plan(a) \/ NextFinding(a) \/ BeforeEffect(a)
         \/ Effect(a) \/ PlaceRefused(a)
  PROVE  SummaryInv'
<1> USE DEF SummaryInv, PublicationTypeOK, Running, Waiting
<1>1. CASE ConfirmLease(a)
  BY <1>1, QuietSteps DEF ConfirmLease, GoesTo, hubVars
<1>2. CASE AttemptCrashes(a)
  BY <1>2, QuietSteps DEF AttemptCrashes, GoesTo, hubVars, historyVars
<1>3. CASE Generate(a)
  BY <1>3, QuietSteps DEF Generate, GoesTo, hubVars, historyVars
<1>4. CASE StartSync(a)
  BY <1>4, QuietSteps DEF StartSync, GoesTo, SyncOnly
<1>5. CASE ListFindingComments(a)
  BY <1>5, QuietSteps DEF ListFindingComments, GoesTo, SyncOnly
<1>6. CASE Plan(a)
  BY <1>6, QuietSteps DEF Plan, GoesTo, SyncOnly
<1>7. CASE NextFinding(a)
  BY <1>7, QuietSteps DEF NextFinding, GoesTo, SyncOnly
<1>8. CASE BeforeEffect(a)
  BY <1>8, QuietSteps DEF BeforeEffect, GoesTo, SyncOnly
<1>9. CASE Effect(a)
  BY <1>9, QuietSteps DEF Effect, GoesTo, SyncOnly
<1>10. CASE PlaceRefused(a)
  BY <1>10, QuietSteps DEF PlaceRefused, GoesTo, SyncOnly
<1> QED
  BY <1>1, <1>2, <1>3, <1>4, <1>5, <1>6, <1>7, <1>8, <1>9, <1>10

(* A lookup that finds nothing leaves the way free for something new.      *)
LEMMA LookupsKeep ==
  ASSUME SummaryInv, NEW a \in Attempt, ListCheckRuns(a) \/ ListComments(a)
  PROVE  SummaryInv'
<1>1. /\ Running(a) /\ Running(a)' /\ UNCHANGED <<checks, summaries, jobOf, overtaken, lease>>
      /\ line' = [line EXCEPT ![a] = line'[a]]
  BY DEF ListCheckRuns, ListComments, RequestOnly, GoesTo, Running, Waiting, SummaryInv, PublicationTypeOK
<1>2. /\ line'[a] = "newCheck" => \A i \in DOMAIN checks : checks[i].job # jobOf[a]
      /\ line'[a] = "newSummary" => \A i \in DOMAIN summaries : summaries[i] # jobOf[a]
  BY DEF ListCheckRuns, ListComments, CarriesJob, GoesTo, SummaryInv, PublicationTypeOK
<1>3. DOMAIN line' = Attempt /\ \A b \in Attempt \ {a} : line'[b] = line[b]
  BY <1>1 DEF SummaryInv, PublicationTypeOK
<1>4. PublicationTypeOK'
  BY <1>1, <1>3 DEF SummaryInv, PublicationTypeOK, Running
<1>5. ASSUME ~overtaken PROVE (OneAtATime /\ NothingYet /\ OneOfEach)'
  BY <1>1, <1>2, <1>3, <1>5 DEF SummaryInv, OneAtATime, NothingYet, OneOfEach, Running
<1> QED
  BY <1>1, <1>4, <1>5 DEF SummaryInv

(* Something new is published by the one that found nothing.               *)
LEMMA NewOneKeeps ==
  ASSUME SummaryInv, NEW a \in Attempt, Running(a), UNCHANGED <<jobOf, overtaken>>,
         line' = [line EXCEPT ![a] = line'[a]], line'[a] \notin {"newCheck", "newSummary"},
         lease' = lease \/ line'[a] \in Waiting,
         \/ /\ line[a] = "newCheck" /\ UNCHANGED summaries
            /\ checks' = Append(checks, [job |-> jobOf[a], completed |-> FALSE])
         \/ /\ line[a] = "newSummary" /\ UNCHANGED checks
            /\ summaries' = Append(summaries, jobOf[a])
  PROVE  SummaryInv'
<1>1. DOMAIN line' = Attempt /\ \A b \in Attempt \ {a} : line'[b] = line[b]
  BY DEF SummaryInv, PublicationTypeOK
<1>2. [job |-> jobOf[a], completed |-> FALSE] \in Check /\ jobOf[a] \in ReviewJob
  BY DEF SummaryInv, PublicationTypeOK, Check
<1>3. checks' \in Seq(Check) /\ summaries' \in Seq(ReviewJob)
  <2> DEFINE new == [job |-> jobOf[a], completed |-> FALSE]
  <2>1. new \in Check /\ checks \in Seq(Check) /\ summaries \in Seq(ReviewJob)
    BY <1>2 DEF SummaryInv, PublicationTypeOK
  <2>2. checks' \in {checks, Append(checks, new)} /\ summaries' \in {summaries, Append(summaries, jobOf[a])}
    OBVIOUS
  <2> HIDE DEF new
  <2>3. Append(checks, new) \in Seq(Check)
    BY <2>1
  <2>4. Append(summaries, jobOf[a]) \in Seq(ReviewJob)
    BY <1>2, <2>1
  <2> QED
    BY <2>1, <2>2, <2>3, <2>4
<1>4. PublicationTypeOK'
  BY <1>1, <1>3 DEF SummaryInv, PublicationTypeOK, Running
<1>5. ASSUME ~overtaken PROVE (OneAtATime /\ NothingYet)'
  <2>1. \A b \in Attempt : line'[b] \notin {"newCheck", "newSummary"}
    BY <1>1, <1>5 DEF SummaryInv, OneAtATime, Running, Waiting
  <2>2. OneAtATime'
    BY <1>1, <1>5 DEF SummaryInv, OneAtATime, Running
  <2> QED
    BY <2>1, <2>2, <1>1 DEF NothingYet
<1>6. ASSUME ~overtaken, line[a] = "newCheck",
             checks' = Append(checks, [job |-> jobOf[a], completed |-> FALSE]), UNCHANGED summaries
      PROVE  OneOfEach'
  <2> DEFINE new == [job |-> jobOf[a], completed |-> FALSE]
  <2>1. \A i \in DOMAIN checks : checks[i].job # new.job
    BY <1>6 DEF SummaryInv, NothingYet
  <2>2. new \in Check /\ checks \in Seq(Check)
    BY <1>2 DEF SummaryInv, PublicationTypeOK
  <2> HIDE DEF new
  <2>3. /\ DOMAIN checks' = 1 .. Len(checks) + 1 /\ DOMAIN checks = 1 .. Len(checks) /\ Len(checks) \in Nat
        /\ checks'[Len(checks) + 1] = new /\ \A i \in DOMAIN checks : checks'[i] = checks[i]
    BY <1>6, <2>2 DEF new
  <2> QED
    BY <1>6, <2>1, <2>3 DEF SummaryInv, OneOfEach
<1>7. ASSUME ~overtaken, line[a] = "newSummary", summaries' = Append(summaries, jobOf[a]), UNCHANGED checks
      PROVE  OneOfEach'
  <2>1. \A i \in DOMAIN summaries : summaries[i] # jobOf[a]
    BY <1>7 DEF SummaryInv, NothingYet
  <2>2. jobOf[a] \in ReviewJob /\ summaries \in Seq(ReviewJob)
    BY <1>2 DEF SummaryInv, PublicationTypeOK
  <2>3. /\ DOMAIN summaries' = 1 .. Len(summaries) + 1 /\ DOMAIN summaries = 1 .. Len(summaries)
        /\ Len(summaries) \in Nat /\ summaries'[Len(summaries) + 1] = jobOf[a]
        /\ \A i \in DOMAIN summaries : summaries'[i] = summaries[i]
    BY <1>7, <2>2
  <2> QED
    BY <1>7, <2>1, <2>3 DEF SummaryInv, OneOfEach
<1> QED
  BY <1>4, <1>5, <1>6, <1>7 DEF SummaryInv

(* The conclusion of a job goes to a check run that is there.              *)
LEMMA ConclusionKeeps ==
  ASSUME SummaryInv, NEW a \in Attempt, FinishCheckRun(a)
  PROVE  SummaryInv'
<1>1. /\ Running(a) /\ UNCHANGED <<summaries, jobOf, overtaken>> /\ line'[a] \in {"published", "failed"}
      /\ line' = [line EXCEPT ![a] = line'[a]]
  BY DEF FinishCheckRun, Ends, GoesTo, RequestOnly, Running, Waiting, SummaryInv, PublicationTypeOK
<1>2. /\ DOMAIN checks' = DOMAIN checks
      /\ \A i \in DOMAIN checks : checks'[i].job = checks[i].job
      /\ checks' \in Seq(Check)
  <2> DEFINE own == {i \in DOMAIN checks : checks[i].job = jobOf[a]}
             first == CHOOSE k \in own : \A l \in own : k <= l
  <2>1. checks' = [i \in DOMAIN checks |-> IF own # {} /\ i = first
                                            THEN [checks[i] EXCEPT !.completed = TRUE] ELSE checks[i]]
    BY DEF FinishCheckRun
  <2> HIDE DEF own, first
  <2>2. checks \in [1 .. Len(checks) -> Check] /\ Len(checks) \in Nat /\ DOMAIN checks = 1 .. Len(checks)
    BY LenProperties DEF SummaryInv, PublicationTypeOK
  <2>3. \A c \in Check : /\ [c EXCEPT !.completed = TRUE] \in Check
                          /\ [c EXCEPT !.completed = TRUE].job = c.job
    BY DEF Check
  <2>4. checks' \in [1 .. Len(checks) -> Check]
    BY <2>1, <2>2, <2>3
  <2>5. checks' \in Seq(Check)
    BY <2>2, <2>4, SeqDef
  <2> QED
    BY <2>1, <2>2, <2>3, <2>5
<1>3. DOMAIN line' = Attempt /\ \A b \in Attempt \ {a} : line'[b] = line[b]
  BY <1>1 DEF SummaryInv, PublicationTypeOK
<1>4. PublicationTypeOK'
  BY <1>1, <1>2, <1>3 DEF SummaryInv, PublicationTypeOK, Running, Waiting
<1>5. ASSUME ~overtaken PROVE (OneAtATime /\ NothingYet /\ OneOfEach)'
  BY <1>1, <1>2, <1>3, <1>5 DEF SummaryInv, OneAtATime, NothingYet, OneOfEach, Running, Waiting
<1> QED
  BY <1>1, <1>4, <1>5 DEF SummaryInv

(* A request of the review is made, or fails before or after its effect.   *)
LEMMA RequestsKeep ==
  ASSUME SummaryInv, NEW a \in Attempt,
         CreateCheckRun(a) \/ PatchOrPostSummary(a) \/ RequestFails(a)
  PROVE  SummaryInv'
<1>1. /\ Running(a) /\ UNCHANGED <<jobOf, overtaken>> /\ line'[a] \notin {"newCheck", "newSummary"}
      /\ line' = [line EXCEPT ![a] = line'[a]] /\ (lease' = lease \/ line'[a] \in Waiting)
  BY DEF CreateCheckRun, PatchOrPostSummary, RequestFails, Ends, GoesTo, RequestOnly, Running, Waiting,
     SummaryInv, PublicationTypeOK
<1>2. \/ UNCHANGED <<checks, summaries>>
      \/ /\ line[a] = "newCheck" /\ UNCHANGED summaries
         /\ checks' = Append(checks, [job |-> jobOf[a], completed |-> FALSE])
      \/ /\ line[a] = "newSummary" /\ UNCHANGED checks
         /\ summaries' = Append(summaries, jobOf[a])
  BY DEF CreateCheckRun, PatchOrPostSummary, RequestFails
<1> QED
  BY <1>1, <1>2, QuietSteps, NewOneKeeps

(* An attempt begins only when nobody holds the lease.                     *)
LEMMA OthersKeep ==
  ASSUME SummaryInv, (\E a \in Attempt, job \in ReviewJob : BeginAttempt(a, job)) \/ LeaseRunsOut \/ HeadMoves
  PROVE  SummaryInv'
<1>1. ASSUME NEW a \in Attempt, NEW job \in ReviewJob, BeginAttempt(a, job) PROVE SummaryInv'
  <2>1. /\ lease = Nobody /\ lease' = a /\ UNCHANGED <<checks, summaries, overtaken>>
        /\ line'[a] = "claimed" /\ jobOf'[a] = job /\ DOMAIN line' = Attempt /\ DOMAIN jobOf' = Attempt
        /\ \A b \in Attempt \ {a} : line'[b] = line[b] /\ jobOf'[b] = jobOf[b]
    BY <1>1 DEF BeginAttempt, GoesTo, hubVars, historyVars, SummaryInv, PublicationTypeOK
  <2>2. PublicationTypeOK'
    BY <2>1 DEF SummaryInv, PublicationTypeOK, Running
  <2>3. ASSUME ~overtaken PROVE (OneAtATime /\ NothingYet /\ OneOfEach)'
    BY <2>1, <2>3 DEF SummaryInv, PublicationTypeOK, OneAtATime, NothingYet, OneOfEach, Running
  <2> QED
    BY <2>1, <2>2, <2>3 DEF SummaryInv
<1>2. CASE LeaseRunsOut
  BY <1>2 DEF LeaseRunsOut, hubVars, SummaryInv, PublicationTypeOK, Running
<1>3. CASE HeadMoves
  BY <1>3 DEF HeadMoves, SummaryInv, PublicationTypeOK, Running, OneAtATime, NothingYet, OneOfEach
<1> QED
  BY <1>1, <1>2, <1>3

(* Retries write into the check run and the summary of the job and never   *)
(* beside them, unless an attempt was overtaken while it ran.              *)
THEOREM SummariesAreSingle == PubSpec => []SummaryIsNotRepeated
<1>1. PubInit => SummaryInv
  BY PublicationAssumption
  DEF PubInit, SummaryInv, PublicationTypeOK, OneAtATime, NothingYet, OneOfEach, Running, Waiting
<1>2. SummaryInv /\ [PubNext]_pubVars => SummaryInv'
  <2> SUFFICES ASSUME SummaryInv, [PubNext]_pubVars PROVE SummaryInv'
    OBVIOUS
  <2>1. CASE UNCHANGED pubVars
    BY <2>1 DEF pubVars, hubVars, historyVars, SummaryInv, PublicationTypeOK, Running, OneAtATime,
       NothingYet, OneOfEach
  <2>2. CASE PubNext
    BY <2>2, QuietStepsKeep, LookupsKeep, RequestsKeep, ConclusionKeeps, OthersKeep DEF PubNext
  <2> QED
    BY <2>1, <2>2
<1>3. SummaryInv => SummaryIsNotRepeated
  BY DEF SummaryInv, OneOfEach, SummaryIsNotRepeated
<1> QED
  BY <1>1, <1>2, <1>3, PTL DEF PubSpec

-----------------------------------------------------------------------------
(***************************************************************************)
(* Inline comments that a sync leaves behind                               *)
(***************************************************************************)

(* What a sync that nothing disturbs has still to do leads to one open     *)
(* thread per finding of the review.                                       *)

FindingComment == [finding : FindingId, at : Location \cup {"none"}, open : BOOLEAN]
Verb == {"resolve", "unresolve", "update", "create", "createFile"}
Request == [verb : Verb, on : Nat, finding : FindingId]

SyncTypes ==
  /\ comments \in Seq(FindingComment)
  /\ DOMAIN line = Attempt /\ DOMAIN jobOf = Attempt
  /\ seen \in [Attempt -> Seq(FindingComment)]
  /\ todo \in [Attempt -> Seq(Seq(Request))]
  /\ found \in [Attempt -> [FindingId -> {"line", "file", "none"}]]
  /\ undisturbed \in [Attempt -> BOOLEAN]

Open(f) == {i \in DOMAIN comments : comments[i].finding = f /\ comments[i].open}

\* Exactly one, or none where every place was refused.
OneIsLeft(a, f, S) == IF <<a, f>> \in refused THEN S = {} ELSE \E i \in S : S = {i}

Targets(verb, group) == {group[k].on : k \in {l \in DOMAIN group : group[l].verb = verb}}
Creating == {"create", "createFile"}
Creates(group) == group # <<>> /\ group[1].verb \in Creating

\* Nothing was done about the finding since the comments were listed.
Untouched(a, f) ==
  /\ <<a, f>> \notin refused
  /\ \A i \in DOMAIN comments :
       comments[i].finding = f => i \in DOMAIN seen[a] /\ comments[i] = seen[a][i]
  /\ \A i \in DOMAIN seen[a] : seen[a][i].finding = f => comments[i] = seen[a][i]

\* The requests of the group are about this finding's comments.
IsAbout(a, f, group) ==
  \A k \in DOMAIN group :
    /\ group[k].finding = f
    /\ group[k].verb \in Creating => k = 1
    /\ group[k].verb \notin Creating
         => group[k].on \in DOMAIN seen[a] /\ seen[a][group[k].on].finding = f

\* Once the group is done the finding has its one open thread.
LeadsToOne(a, f, group) ==
  /\ IsAbout(a, f, group)
  /\ Targets("unresolve", group) \cap Targets("resolve", group) = {}
  /\ IF Creates(group)
     THEN /\ Untouched(a, f) /\ Targets("unresolve", group) = {}
          /\ Open(f) \subseteq Targets("resolve", group)
     ELSE OneIsLeft(a, f, (Open(f) \cup Targets("unresolve", group)) \ Targets("resolve", group))

Order(a) == InOrderOf(Current(a))
\* The place in the order of the finding whose group is first; 0 for the threads of
\* findings that are gone.
Place(a) == Len(Order(a)) + 1 - Len(todo[a])

\* The group that comes before the findings'.
ThreadsOfGone(a, group) ==
  /\ \A f \in FindingId \ Current(a) : Open(f) \subseteq Targets("resolve", group)
  /\ \A k \in DOMAIN group :
       /\ group[k].verb = "resolve" /\ group[k].on \in DOMAIN seen[a]
       /\ group[k].finding = seen[a][group[k].on].finding
       /\ group[k].finding \notin Current(a)

Progress(a) ==
  \A k \in 1 .. Len(Order(a)), f \in FindingId : f = Order(a)[k] =>
    /\ k > Place(a) => todo[a][k - Place(a) + 1] = PlanFor(a, f) /\ Untouched(a, f)
    /\ k = Place(a) => \A g \in Seq(Request) : g = todo[a][1] => LeadsToOne(a, f, g)
    /\ k < Place(a) => OneIsLeft(a, f, Open(f))

\* Nobody else has changed the comments that were listed.
ListStands(a) ==
  /\ Len(seen[a]) <= Len(comments)
  /\ \A i \in DOMAIN seen[a] : comments[i].finding = seen[a][i].finding

Working(a) ==
  /\ Len(todo[a]) \in 1 .. Len(Order(a)) + 1
  /\ ListStands(a)
  /\ Place(a) = 0 => ThreadsOfGone(a, todo[a][1])
  /\ Place(a) > 0 => \A f \in FindingId \ Current(a) : Open(f) = {}
  /\ Progress(a)

InSync(a) == line[a] \in {"check", "effect", "group"}
\* Where an attempt has not met a refusal.
BeforeSync == {"idle", "claimed", "checks", "newCheck", "review", "generated", "comments",
               "oldSummary", "newSummary", "summarised", "inline", "list", "listed"}

Stages(a) ==
  /\ InSync(a) => todo[a] # <<>>
  /\ line[a] = "group" => todo[a][1] = <<>>
  /\ line[a] = "effect" => todo[a][1] # <<>>

SyncInvOf(a) ==
  /\ line[a] \in BeforeSync => \A f \in FindingId : <<a, f>> \notin refused
  /\ Stages(a)
  /\ Syncing(a) /\ undisturbed[a] => HeadIsExpected(a)
  /\ line[a] = "listed" /\ undisturbed[a] => seen[a] = comments
  /\ InSync(a) /\ undisturbed[a] /\ readable => Working(a)

SyncInv == SyncTypes /\ \A a \in Attempt : SyncInvOf(a)

-----------------------------------------------------------------------------
(* Sequences made of sets.                                                 *)

(* The positions of a finite set of numbers, one after the other, are all  *)
(* of its elements.                                                        *)
LEMMA NthIsOnto ==
  ASSUME NEW S \in SUBSET Nat, IsFiniteSet(S)
  PROVE  /\ Cardinality(S) \in Nat
         /\ \A k \in 1 .. Cardinality(S) : Nth(S, k) \in S
         /\ \A x \in S : \E k \in 1 .. Cardinality(S) : Nth(S, k) = x
<1> DEFINE n == Cardinality(S)
           below(x) == {y \in S : y < x}
           rank == [x \in S |-> Cardinality(below(x)) + 1]
<1>1. n \in Nat
  BY FS_CardinalityType
<1>2. ASSUME NEW x \in S
      PROVE  /\ IsFiniteSet(below(x)) /\ Cardinality(below(x)) \in Nat
             /\ Cardinality(below(x)) + 1 <= n
  <2>1. below(x) \in SUBSET (S \ {x})
    OBVIOUS
  <2>2. IsFiniteSet(S \ {x}) /\ Cardinality(S \ {x}) = n - 1
    BY FS_RemoveElement
  <2>3. IsFiniteSet(below(x)) /\ Cardinality(below(x)) <= n - 1
    BY <2>1, <2>2, FS_Subset
  <2>4. Cardinality(below(x)) \in Nat
    BY <2>3, FS_CardinalityType
  <2> QED
    BY <1>1, <2>3, <2>4
<1>3. ASSUME NEW x \in S, NEW z \in S, x < z
      PROVE  Cardinality(below(x)) < Cardinality(below(z))
  <2>1. below(x) \cup {x} \in SUBSET below(z)
    <3>1. \A y \in S : y \in Nat
      OBVIOUS
    <3>2. \A y \in S : y < x => y < z
      BY <1>3, <3>1
    <3> QED
      BY <1>3, <3>2
  <2>2. Cardinality(below(x) \cup {x}) = Cardinality(below(x)) + 1
    <3>1. x \notin below(x)
      OBVIOUS
    <3> QED
      BY <1>2, <3>1, FS_AddElement
  <2>3. Cardinality(below(x) \cup {x}) <= Cardinality(below(z))
    BY <1>2, <2>1, FS_Subset
  <2> QED
    BY <1>2, <2>2, <2>3
<1> HIDE DEF below
<1>4. \A x, z \in S : Cardinality(below(x)) = Cardinality(below(z)) => x = z
  <2> SUFFICES ASSUME NEW x \in S, NEW z \in S, x # z
               PROVE  Cardinality(below(x)) # Cardinality(below(z))
    OBVIOUS
  <2>1. x < z \/ z < x
    OBVIOUS
  <2> QED
    BY <1>2, <1>3, <2>1
<1>5. rank \in [S -> 1 .. n]
  BY <1>1, <1>2
<1>6. rank \in Injection(S, 1 .. n)
  BY <1>2, <1>4, <1>5 DEF Injection, IsInjective
<1>7. IsFiniteSet(1 .. n) /\ Cardinality(1 .. n) = n
  BY <1>1, FS_Interval
<1>8. rank \in Surjection(S, 1 .. n)
  BY <1>6, <1>7, FS_Injection
<1>9. ASSUME NEW x \in S, NEW k \in 1 .. n, rank[x] = k PROVE Nth(S, k) = x
  <2>1. Cardinality(below(x)) = k - 1
    BY <1>1, <1>2, <1>9
  <2>2. \A y \in S : Cardinality(below(y)) = k - 1 <=> y = x
    BY <1>4, <2>1
  <2> QED
    BY <2>2 DEF Nth, below
<1>10. \A k \in 1 .. n : \E x \in S : rank[x] = k
  BY <1>8 DEF Surjection
<1>11. \A x \in S : rank[x] \in 1 .. n
  BY <1>5
<1> HIDE DEF rank, n
<1>12. \A k \in 1 .. n : Nth(S, k) \in S
  BY <1>9, <1>10
<1>13. \A x \in S : \E k \in 1 .. n : Nth(S, k) = x
  BY <1>9, <1>11
<1> QED
  BY <1>1, <1>12, <1>13 DEF n

(* The findings of a review in order are all of them, each once.           *)
LEMMA OrderIsOnto ==
  ASSUME SyncTypes, NEW a \in Attempt
  PROVE  /\ Order(a) \in Seq(FindingId)
         /\ \A k \in 1 .. Len(Order(a)) : Order(a)[k] \in Current(a)
         /\ \A f \in Current(a) : \E k \in 1 .. Len(Order(a)) : Order(a)[k] = f
         /\ \A k, l \in 1 .. Len(Order(a)) : Order(a)[k] = Order(a)[l] => k = l
<1> DEFINE S == Current(a)
           n == Cardinality(S)
           q == Order(a)
<1>1. S \in SUBSET FindingId
  BY DEF Current
<1>2. IsFiniteSet(S) /\ n \in Nat
  BY <1>1, PublicationAssumption, FS_Subset, FS_CardinalityType
<1>3. ExistsBijection(1 .. n, S)
  BY <1>2, FS_CardinalityType
<1>4. \E g \in [1 .. n -> S] : IsInjective(g)
  BY <1>3 DEF ExistsBijection, Bijection, Injection
<1>5. q \in [1 .. n -> S] /\ IsInjective(q)
  BY <1>4 DEF Order, InOrderOf, SetToSeq
<1>6. q \in Injection(1 .. n, S)
  BY <1>5 DEF Injection
<1>7. IsFiniteSet(1 .. n) /\ Cardinality(1 .. n) = n
  BY <1>2, FS_Interval
<1>8. q \in Surjection(1 .. n, S)
  BY <1>2, <1>6, <1>7, FS_Injection
<1> HIDE DEF q, S, n
<1>9. q \in Seq(FindingId) /\ Len(q) = n
  BY <1>1, <1>2, <1>5
<1>10. \A f \in S : \E k \in 1 .. n : q[k] = f
  BY <1>8 DEF Surjection
<1>11. \A k \in 1 .. n : q[k] \in S
  BY <1>5
<1>12. \A k, l \in 1 .. n : q[k] = q[l] => k = l
  BY <1>5 DEF IsInjective
<1> QED
  BY <1>9, <1>10, <1>11, <1>12 DEF q, S

(* Requests to resolve are of the positions asked for, and of each.        *)
LEMMA ResolvesOf ==
  ASSUME SyncTypes, NEW a \in Attempt, NEW S \in SUBSET (DOMAIN seen[a])
  PROVE  LET g == Resolves(a, S) IN
         /\ g \in Seq(Request)
         /\ \A k \in DOMAIN g : /\ g[k].verb = "resolve" /\ g[k].on \in S
                                /\ g[k].finding = seen[a][g[k].on].finding
         /\ Targets("resolve", g) = S /\ Targets("unresolve", g) = {}
<1> DEFINE n == Cardinality(S)
           g == Resolves(a, S)
<1>1. seen[a] \in Seq(FindingComment) /\ DOMAIN seen[a] = 1 .. Len(seen[a]) /\ Len(seen[a]) \in Nat
  BY DEF SyncTypes
<1>2. IsFiniteSet(S) /\ S \in SUBSET Nat
  <2>1. IsFiniteSet(1 .. Len(seen[a]))
    BY <1>1, FS_Interval
  <2> QED
    BY <1>1, <2>1, FS_Subset
<1>3. /\ n \in Nat
      /\ \A k \in 1 .. n : Nth(S, k) \in S
      /\ \A x \in S : \E k \in 1 .. n : Nth(S, k) = x
  BY <1>2, NthIsOnto
<1> HIDE DEF n
<1>4. g = [k \in 1 .. n |-> Do("resolve", Nth(S, k), seen[a][Nth(S, k)].finding)]
  BY DEF Resolves, n
<1>5. \A k \in 1 .. n : seen[a][Nth(S, k)] \in FindingComment
  BY <1>1, <1>3
<1>6. \A k \in 1 .. n : /\ g[k] \in Request
                        /\ g[k].verb = "resolve" /\ g[k].on = Nth(S, k)
                        /\ g[k].finding = seen[a][Nth(S, k)].finding
  <2> SUFFICES ASSUME NEW k \in 1 .. n
               PROVE  /\ g[k] \in Request
                      /\ g[k].verb = "resolve" /\ g[k].on = Nth(S, k)
                      /\ g[k].finding = seen[a][Nth(S, k)].finding
    OBVIOUS
  <2> HIDE DEF g
  <2>1. g[k] = [verb |-> "resolve", on |-> Nth(S, k), finding |-> seen[a][Nth(S, k)].finding]
    BY <1>4 DEF Do
  <2>2. Nth(S, k) \in Nat /\ seen[a][Nth(S, k)].finding \in FindingId
    BY <1>2, <1>3, <1>5 DEF FindingComment
  <2> QED
    BY <2>1, <2>2 DEF Request, Verb
<1>7. g \in Seq(Request) /\ DOMAIN g = 1 .. n
  BY <1>3, <1>4, <1>6
<1> HIDE DEF g
<1>8. Targets("resolve", g) = S /\ Targets("unresolve", g) = {}
  BY <1>3, <1>6, <1>7 DEF Targets
<1> QED
  BY <1>3, <1>6, <1>7, <1>8 DEF g

(* What a request in front adds to a group.                                *)
LEMMA InFront ==
  ASSUME NEW x \in Request, NEW g \in Seq(Request)
  PROVE  LET h == <<x>> \o g IN
         /\ h \in Seq(Request) /\ h # <<>> /\ Len(h) = Len(g) + 1 /\ h[1] = x
         /\ \A k \in 1 .. Len(g) : h[k + 1] = g[k]
         /\ \A v \in Verb : Targets(v, h) = (IF x.verb = v THEN {x.on} ELSE {}) \cup Targets(v, g)
<1> DEFINE h == <<x>> \o g
<1>1. h \in Seq(Request) /\ h # <<>> /\ Len(h) = Len(g) + 1 /\ h[1] = x
  OBVIOUS
<1>2. \A k \in 1 .. Len(g) : h[k + 1] = g[k]
  OBVIOUS
<1> HIDE DEF h
<1>3. ASSUME NEW v \in Verb
      PROVE  Targets(v, h) = (IF x.verb = v THEN {x.on} ELSE {}) \cup Targets(v, g)
  <2>1. \A k \in DOMAIN h : k = 1 \/ (k - 1 \in 1 .. Len(g) /\ h[k] = g[k - 1])
    BY <1>1, <1>2
  <2>2. \A k \in DOMAIN g : k + 1 \in DOMAIN h /\ h[k + 1] = g[k]
    BY <1>1, <1>2
  <2>3. 1 \in DOMAIN h
    BY <1>1
  <2>4. Targets(v, h) \subseteq (IF x.verb = v THEN {x.on} ELSE {}) \cup Targets(v, g)
    BY <1>1, <2>1 DEF Targets
  <2>5. Targets(v, g) \subseteq Targets(v, h)
    BY <2>2 DEF Targets
  <2>6. x.verb = v => x.on \in Targets(v, h)
    BY <1>1, <2>3 DEF Targets
  <2> QED
    BY <2>4, <2>5, <2>6
<1> QED
  BY <1>1, <1>2, <1>3 DEF h

(* And what it leaves when it is made.                                     *)
LEMMA Behind ==
  ASSUME NEW g \in Seq(Request), g # <<>>
  PROVE  /\ Head(g) = g[1] /\ g[1] \in Request /\ Tail(g) \in Seq(Request) /\ Len(Tail(g)) = Len(g) - 1
         /\ \A k \in 1 .. Len(g) - 1 : Tail(g)[k] = g[k + 1]
         /\ \A v \in Verb : Targets(v, g) = (IF g[1].verb = v THEN {g[1].on} ELSE {}) \cup Targets(v, Tail(g))
<1> DEFINE t == Tail(g)
<1>1. g[1] \in Request /\ Head(g) = g[1] /\ Len(g) \in Nat /\ Len(g) > 0
  OBVIOUS
<1>2. t \in Seq(Request) /\ Len(t) = Len(g) - 1
  OBVIOUS
<1>3. \A k \in 1 .. Len(g) - 1 : t[k] = g[k + 1]
  OBVIOUS
<1> HIDE DEF t
<1>4. ASSUME NEW v \in Verb
      PROVE  Targets(v, g) = (IF g[1].verb = v THEN {g[1].on} ELSE {}) \cup Targets(v, t)
  <2>1. \A k \in DOMAIN g : k = 1 \/ (k - 1 \in DOMAIN t /\ g[k] = t[k - 1])
    BY <1>1, <1>2, <1>3
  <2>2. \A k \in DOMAIN t : k + 1 \in DOMAIN g /\ g[k + 1] = t[k]
    BY <1>1, <1>2, <1>3
  <2> QED
    BY <1>1, <2>1, <2>2 DEF Targets
<1> QED
  BY <1>1, <1>2, <1>3, <1>4 DEF t

-----------------------------------------------------------------------------
(* The plans for a finding.                                                *)

(* The first position of some that were listed is one of them.             *)
LEMMA FirstIsOne ==
  ASSUME SyncTypes, NEW a \in Attempt, NEW S \in SUBSET (DOMAIN seen[a]), S # {}
  PROVE  Nth(S, 1) \in S
<1>1. seen[a] \in Seq(FindingComment) /\ DOMAIN seen[a] = 1 .. Len(seen[a]) /\ Len(seen[a]) \in Nat
  BY DEF SyncTypes
<1>2. IsFiniteSet(S) /\ S \in SUBSET Nat
  <2>1. IsFiniteSet(1 .. Len(seen[a]))
    BY <1>1, FS_Interval
  <2> QED
    BY <1>1, <2>1, FS_Subset
<1>3. Cardinality(S) \in Nat /\ Cardinality(S) # 0
  BY <1>2, FS_EmptySet, FS_CardinalityType
<1> QED
  BY <1>2, <1>3, NthIsOnto

(* The open threads of a finding that nothing was done about are those     *)
(* that were listed.                                                       *)
LEMMA OpenAsListed ==
  ASSUME SyncTypes, NEW a \in Attempt, NEW f, readable, Untouched(a, f), ListStands(a)
  PROVE  Open(f) = Matching(a, f) \cap Resolvable(a)
<1>1. DOMAIN seen[a] \subseteq DOMAIN comments
  BY DEF SyncTypes, ListStands
<1> QED
  BY <1>1 DEF Open, Matching, Resolvable, Untouched

(* Using a comment again leaves its thread as the open one.                *)
LEMMA ReuseLeads ==
  ASSUME SyncTypes, NEW a \in Attempt, NEW f \in FindingId, NEW i \in Matching(a, f)
  PROVE  /\ Reuse(a, f, i) \in Seq(Request)
         /\ \A k \in DOMAIN Reuse(a, f, i) : Reuse(a, f, i)[k].verb \notin Creating
         /\ readable /\ Untouched(a, f) /\ ListStands(a) => LeadsToOne(a, f, Reuse(a, f, i))
<1> DEFINE S == (Matching(a, f) \cap Resolvable(a)) \ {i}
           r == Resolves(a, S)
           u == Do("update", i, f)
           n == Do("unresolve", i, f)
           m == IF readable /\ ~seen[a][i].open THEN <<n>> ELSE <<>>
           g == Reuse(a, f, i)
<1>1. seen[a] \in Seq(FindingComment) /\ DOMAIN seen[a] \subseteq Nat
  BY DEF SyncTypes
<1>2. i \in DOMAIN seen[a] /\ seen[a][i].finding = f /\ i \in Nat /\ seen[a][i].open \in BOOLEAN
  <2>1. i \in DOMAIN seen[a] /\ seen[a][i].finding = f
    BY DEF Matching
  <2>2. seen[a][i] \in FindingComment
    BY <1>1, <2>1
  <2> QED
    BY <1>1, <2>1, <2>2 DEF FindingComment
<1>3. u \in Request /\ n \in Request /\ m \in Seq(Request)
  <2>1. u \in Request /\ n \in Request
    BY <1>2 DEF Do, Request, Verb
  <2> HIDE DEF n
  <2>2. <<n>> \in Seq(Request) /\ <<>> \in Seq(Request)
    BY <2>1
  <2> QED
    BY <2>1, <2>2
<1>4. S \in SUBSET (DOMAIN seen[a])
  BY DEF Matching
<1>5. /\ r \in Seq(Request)
      /\ \A k \in DOMAIN r : /\ r[k].verb = "resolve" /\ r[k].on \in S
                             /\ r[k].finding = seen[a][r[k].on].finding
      /\ Targets("resolve", r) = S /\ Targets("unresolve", r) = {}
  BY <1>4, ResolvesOf
<1>6. g = <<u>> \o (m \o r)
  <2>1. g = (<<u>> \o m) \o r
    BY DEF Reuse, ResolveOthers
  <2>2. <<u>> \in Seq(Request)
    BY <1>3
  <2> QED
    BY <1>3, <1>5, <2>1, <2>2, ConcatAssociative
<1> DEFINE mr == m \o r
<1>7. /\ mr \in Seq(Request)
      /\ \A k \in DOMAIN mr : mr[k] = n \/ (\E l \in DOMAIN r : mr[k] = r[l])
      /\ Targets("resolve", mr) = S
      /\ Targets("unresolve", mr) = IF readable /\ ~seen[a][i].open THEN {i} ELSE {}
  <2>1. CASE readable /\ ~seen[a][i].open
    <3>1. mr = <<n>> \o r
      BY <2>1
    <3>2. n.verb = "unresolve" /\ n.on = i
      BY DEF Do
    <3> HIDE DEF mr, n, r, S
    <3>3. /\ mr \in Seq(Request) /\ Len(mr) = Len(r) + 1 /\ mr[1] = n
          /\ \A k \in 1 .. Len(r) : mr[k + 1] = r[k]
          /\ \A v \in Verb : Targets(v, mr) = (IF n.verb = v THEN {n.on} ELSE {}) \cup Targets(v, r)
      BY <1>3, <1>5, <3>1, InFront
    <3>4. \A k \in DOMAIN mr : k = 1 \/ (k - 1 \in DOMAIN r /\ mr[k] = r[k - 1])
      BY <1>5, <3>3
    <3> QED
      BY <1>5, <2>1, <3>2, <3>3, <3>4 DEF Verb
  <2>2. CASE ~(readable /\ ~seen[a][i].open)
    <3>1. mr = <<>> \o r
      BY <2>2
    <3> HIDE DEF r
    <3>2. <<>> \o r = r
      BY <1>5, ConcatEmptySeq
    <3>3. mr = r
      BY <3>1, <3>2
    <3> HIDE DEF mr, S, n
    <3> QED
      BY <1>5, <2>2, <3>3
  <2> QED
    BY <2>1, <2>2
<1>8. u.verb = "update" /\ u.on = i /\ u.finding = f /\ n.verb = "unresolve" /\ n.on = i /\ n.finding = f
  BY DEF Do
<1> HIDE DEF mr, n, u, g
<1>9. /\ g \in Seq(Request) /\ Len(g) = Len(mr) + 1 /\ g[1] = u
      /\ \A k \in 1 .. Len(mr) : g[k + 1] = mr[k]
      /\ Targets("resolve", g) = S
      /\ Targets("unresolve", g) = IF readable /\ ~seen[a][i].open THEN {i} ELSE {}
  <2>1. g = <<u>> \o mr
    BY <1>6 DEF mr
  <2>2. "resolve" \in Verb /\ "unresolve" \in Verb
    BY DEF Verb
  <2>3. \A v \in Verb : Targets(v, g) = (IF u.verb = v THEN {u.on} ELSE {}) \cup Targets(v, mr)
    BY <1>3, <1>7, <2>1, InFront
  <2>4. /\ g \in Seq(Request) /\ Len(g) = Len(mr) + 1 /\ g[1] = u
        /\ \A k \in 1 .. Len(mr) : g[k + 1] = mr[k]
    BY <1>3, <1>7, <2>1, InFront
  <2>5. Targets("resolve", g) = Targets("resolve", mr) /\ Targets("unresolve", g) = Targets("unresolve", mr)
    BY <1>8, <2>2, <2>3
  <2> QED
    BY <1>7, <2>4, <2>5
<1>10. \A k \in DOMAIN g : g[k] = u \/ g[k] = n \/ (\E l \in DOMAIN r : g[k] = r[l])
  <2>1. \A k \in DOMAIN g : k = 1 \/ (k - 1 \in DOMAIN mr /\ g[k] = mr[k - 1])
    <3>1. DOMAIN g = 1 .. Len(mr) + 1 /\ DOMAIN mr = 1 .. Len(mr) /\ Len(mr) \in Nat
      BY <1>7, <1>9
    <3>2. \A k \in 1 .. Len(mr) + 1 : k = 1 \/ (k - 1 \in 1 .. Len(mr) /\ k = (k - 1) + 1)
      BY <3>1
    <3> QED
      BY <1>9, <3>1, <3>2
  <2>2. \A k \in DOMAIN mr : mr[k] = n \/ (\E l \in DOMAIN r : mr[k] = r[l])
    BY <1>7
  <2>3. g[1] = u
    BY <1>9
  <2> HIDE DEF r
  <2> QED
    BY <2>1, <2>2, <2>3
<1>11. \A k \in DOMAIN g : /\ g[k].verb \in {"update", "unresolve", "resolve"}
                           /\ g[k].on \in DOMAIN seen[a] /\ g[k].finding = f
                           /\ seen[a][g[k].on].finding = f
  <2>1. \A x \in S : x \in DOMAIN seen[a] /\ seen[a][x].finding = f
    BY DEF Matching
  <2> HIDE DEF r, S
  <2> QED
    BY <1>2, <1>5, <1>8, <1>10, <2>1
<1>12. ASSUME readable, Untouched(a, f), ListStands(a) PROVE LeadsToOne(a, f, g)
  <2>1. Open(f) = Matching(a, f) \cap Resolvable(a)
    BY <1>12, OpenAsListed
  <2>2. ~Creates(g)
    BY <1>8, <1>9 DEF Creates, Creating
  <2>3. IsAbout(a, f, g)
    BY <1>11 DEF IsAbout, Creating
  <2>4. (Open(f) \cup Targets("unresolve", g)) \ Targets("resolve", g) = {i}
    BY <1>2, <1>9, <1>12, <2>1 DEF Resolvable
  <2>5. Targets("unresolve", g) \cap Targets("resolve", g) = {}
    BY <1>9
  <2> QED
    BY <1>12, <2>2, <2>3, <2>4, <2>5 DEF LeadsToOne, OneIsLeft, Untouched
<1> QED
  BY <1>9, <1>11, <1>12 DEF g, Creating

(* What is planned for a finding leaves it one open thread.                *)
LEMMA PlanLeads ==
  ASSUME SyncTypes, NEW a \in Attempt, NEW f \in FindingId
  PROVE  /\ PlanFor(a, f) \in Seq(Request)
         /\ readable /\ Untouched(a, f) /\ ListStands(a) => LeadsToOne(a, f, PlanFor(a, f))
<1> DEFINE here == {i \in Matching(a, f) : seen[a][i].at = found[a][f]}
           S == (Matching(a, f) \cap Resolvable(a)) \ {0}
           r == ResolveOthers(a, f, 0)
           c == Do("create", 0, f)
<1>1. CASE here # {}
  <2>1. here \in SUBSET (DOMAIN seen[a])
    BY DEF Matching
  <2>2. Nth(here, 1) \in Matching(a, f)
    BY <1>1, <2>1, FirstIsOne
  <2>3. PlanFor(a, f) = Reuse(a, f, Nth(here, 1))
    BY <1>1 DEF PlanFor
  <2> QED
    BY <2>2, <2>3, ReuseLeads
<1>2. CASE here = {}
  <2>1. S \in SUBSET (DOMAIN seen[a]) /\ 0 \notin DOMAIN seen[a]
    BY DEF Matching, SyncTypes
  <2>2. /\ r \in Seq(Request)
        /\ \A k \in DOMAIN r : /\ r[k].verb = "resolve" /\ r[k].on \in S
                               /\ r[k].finding = seen[a][r[k].on].finding
        /\ Targets("resolve", r) = S /\ Targets("unresolve", r) = {}
    BY <2>1, ResolvesOf DEF ResolveOthers
  <2>3. c \in Request /\ c.verb = "create" /\ c.finding = f
    BY DEF Do, Request, Verb
  <2>4. PlanFor(a, f) = <<c>> \o r
    BY <1>2 DEF PlanFor
  <2> DEFINE g == PlanFor(a, f)
  <2>5. \A x \in S : x \in DOMAIN seen[a] /\ seen[a][x].finding = f
    BY DEF Matching
  <2> HIDE DEF c, r, g
  <2>6. /\ g \in Seq(Request) /\ g # <<>> /\ Len(g) = Len(r) + 1 /\ g[1] = c
        /\ \A k \in 1 .. Len(r) : g[k + 1] = r[k]
        /\ \A v \in Verb : Targets(v, g) = (IF c.verb = v THEN {c.on} ELSE {}) \cup Targets(v, r)
    BY <2>2, <2>3, <2>4, InFront DEF g
  <2>7. \A k \in DOMAIN g : k = 1 \/ (k - 1 \in DOMAIN r /\ g[k] = r[k - 1])
    <3>1. DOMAIN g = 1 .. Len(r) + 1 /\ DOMAIN r = 1 .. Len(r) /\ Len(r) \in Nat
      BY <2>2, <2>6
    <3>2. \A k \in 1 .. Len(r) + 1 : k = 1 \/ (k - 1 \in 1 .. Len(r) /\ k = (k - 1) + 1)
      BY <3>1
    <3> QED
      BY <2>6, <3>1, <3>2
  <2>8. Targets("resolve", g) = S /\ Targets("unresolve", g) = {}
    BY <2>2, <2>3, <2>6 DEF Verb
  <2>9. IsAbout(a, f, g)
    BY <2>2, <2>3, <2>5, <2>6, <2>7 DEF IsAbout, Creating
  <2>10. Creates(g)
    BY <2>3, <2>6 DEF Creates, Creating
  <2>11. ASSUME readable, Untouched(a, f), ListStands(a) PROVE LeadsToOne(a, f, g)
    <3>1. Open(f) \subseteq S
      BY <2>1, <2>11, OpenAsListed DEF Matching
    <3> QED
      BY <2>8, <2>9, <2>10, <2>11, <3>1 DEF LeadsToOne
  <2> QED
    BY <2>6, <2>11 DEF g
<1> QED
  BY <1>1, <1>2

(* And so does the comment that is used when every place was refused, if   *)
(* there is any.                                                           *)
LEMMA FallBackLeads ==
  ASSUME SyncTypes, NEW a \in Attempt, NEW f \in FindingId
  PROVE  /\ FallBack(a, f) \in Seq(Request)
         /\ \A k \in DOMAIN FallBack(a, f) : FallBack(a, f)[k].verb \notin Creating
         /\ Matching(a, f) = {} => FallBack(a, f) = <<>>
         /\ readable /\ Untouched(a, f) /\ ListStands(a) /\ Matching(a, f) # {}
              => LeadsToOne(a, f, FallBack(a, f))
<1> DEFINE open == Matching(a, f) \cap Resolvable(a)
           from == IF open # {} THEN open ELSE Matching(a, f)
<1>1. CASE Matching(a, f) = {}
  BY <1>1 DEF FallBack
<1>2. CASE Matching(a, f) # {}
  <2>1. from \in SUBSET (DOMAIN seen[a]) /\ from # {}
    BY <1>2 DEF Matching
  <2>2. Nth(from, 1) \in Matching(a, f)
    BY <2>1, FirstIsOne
  <2>3. FallBack(a, f) = Reuse(a, f, Nth(from, 1))
    BY <1>2 DEF FallBack
  <2> QED
    BY <1>2, <2>2, <2>3, ReuseLeads
<1> QED
  BY <1>1, <1>2

-----------------------------------------------------------------------------
(* The steps of an attempt.                                                *)

(* What is planned: the threads of the findings that are gone, and then    *)
(* each finding's group, in order.                                         *)
LEMMA PlanIsTyped ==
  ASSUME SyncTypes, NEW a \in Attempt
  PROVE  LET q == Order(a)
             p == <<Resolves(a, Gone(a))>> \o [k \in DOMAIN q |-> PlanFor(a, q[k])]
         IN  /\ p \in Seq(Seq(Request)) /\ Len(p) = Len(q) + 1 /\ Len(q) \in Nat
             /\ p[1] = Resolves(a, Gone(a))
             /\ \A k \in 1 .. Len(q) : p[k + 1] = PlanFor(a, q[k])
<1> DEFINE q == Order(a)
           r == Resolves(a, Gone(a))
           s == [k \in DOMAIN q |-> PlanFor(a, q[k])]
           p == <<r>> \o s
<1>1. q \in Seq(FindingId) /\ Len(q) \in Nat /\ DOMAIN q = 1 .. Len(q)
  BY OrderIsOnto
<1>2. r \in Seq(Request)
  <2>1. Gone(a) \in SUBSET (DOMAIN seen[a])
    BY DEF Gone, Resolvable
  <2> QED
    BY <2>1, ResolvesOf
<1>3. \A k \in 1 .. Len(q) : PlanFor(a, q[k]) \in Seq(Request)
  <2> SUFFICES ASSUME NEW k \in 1 .. Len(q) PROVE PlanFor(a, q[k]) \in Seq(Request)
    OBVIOUS
  <2>1. q[k] \in FindingId
    BY <1>1
  <2> QED
    BY <2>1, PlanLeads
<1> HIDE DEF q, r
<1>4. s \in [1 .. Len(q) -> Seq(Request)] /\ \A k \in 1 .. Len(q) : s[k] = PlanFor(a, q[k])
  BY <1>1, <1>3
<1> HIDE DEF s
<1>5. s \in Seq(Seq(Request)) /\ Len(s) = Len(q)
  BY <1>1, <1>4
<1>6. <<r>> \in Seq(Seq(Request)) /\ Len(<<r>>) = 1 /\ <<r>>[1] = r
  BY <1>2
<1>7. p \in Seq(Seq(Request)) /\ Len(p) = Len(q) + 1 /\ p[1] = r
  BY <1>1, <1>5, <1>6
<1>8. \A k \in 1 .. Len(q) : p[k + 1] = s[k]
  BY <1>1, <1>5, <1>6
<1> QED
  BY <1>1, <1>4, <1>7, <1>8 DEF q, r, s, p

(* A request changes comments into comments.                               *)
LEMMA AppliedIsTyped ==
  ASSUME SyncTypes, NEW x \in Request, NEW where \in Location \cup {"none"}
  PROVE  Applied(x, where) \in Seq(FindingComment)
<1>1. comments \in Seq(FindingComment)
  BY DEF SyncTypes
<1>2. Comment(x.finding, where, TRUE) \in FindingComment
  BY DEF Comment, Request, FindingComment
<1>3. \A open \in BOOLEAN : [comments EXCEPT ![x.on].open = open] \in Seq(FindingComment)
  <2> SUFFICES ASSUME NEW open \in BOOLEAN
               PROVE  [comments EXCEPT ![x.on].open = open] \in Seq(FindingComment)
    OBVIOUS
  <2> DEFINE changed == [comments EXCEPT ![x.on].open = open]
             n == Len(comments)
  <2>1. n \in Nat /\ comments \in [1 .. n -> FindingComment]
    BY <1>1
  <2>2. ASSUME NEW i \in 1 .. n PROVE changed[i] \in FindingComment
    <3>1. comments[i] \in FindingComment
      BY <2>1
    <3>2. [comments[i] EXCEPT !.open = open] \in FindingComment
      BY <3>1 DEF FindingComment
    <3> HIDE DEF n
    <3>3. changed[i] = IF i = x.on THEN [comments[i] EXCEPT !.open = open] ELSE comments[i]
      BY <2>1
    <3> HIDE DEF changed
    <3> QED
      BY <3>1, <3>2, <3>3
  <2> HIDE DEF n
  <2>3. DOMAIN changed = 1 .. n
    BY <2>1
  <2>4. changed = [i \in 1 .. n |-> changed[i]]
    BY <2>1, <2>3
  <2> HIDE DEF changed
  <2>5. changed \in [1 .. n -> FindingComment]
    BY <2>2, <2>4
  <2>6. changed \in Seq(FindingComment)
    BY <2>1, <2>5
  <2> QED
    BY <2>6 DEF changed
<1>4. Append(comments, Comment(x.finding, where, TRUE)) \in Seq(FindingComment)
  <2> DEFINE c == Comment(x.finding, where, TRUE)
  <2> HIDE DEF c
  <2>1. c \in FindingComment
    BY <1>2 DEF c
  <2>2. Append(comments, c) \in Seq(FindingComment)
    BY <1>1, <2>1
  <2> QED
    BY <2>2 DEF c
<1>5. CASE x.verb \in {"resolve", "unresolve", "update"}
  BY <1>1, <1>3, <1>5 DEF Applied
<1>6. CASE x.verb \in Creating
  BY <1>4, <1>6 DEF Applied, Creating
<1> QED
  BY <1>5, <1>6 DEF Request, Verb, Creating

(* Another group in front leaves the others behind it.                     *)
LEMMA AnotherFront ==
  ASSUME NEW R, NEW s \in Seq(R), s # <<>>, NEW h \in R
  PROVE  LET n == <<h>> \o Tail(s) IN
         /\ Head(s) = s[1] /\ s[1] \in R
         /\ n \in Seq(R) /\ n # <<>> /\ Len(n) = Len(s) /\ n[1] = h
         /\ \A k \in 2 .. Len(s) : n[k] = s[k]
<1>1. Head(s) = s[1] /\ s[1] \in R /\ Len(s) \in Nat /\ Len(s) > 0
  OBVIOUS
<1> DEFINE t == Tail(s)
           f == <<h>>
           n == f \o t
<1>2. t \in Seq(R) /\ Len(t) = Len(s) - 1 /\ \A k \in 1 .. Len(s) - 1 : t[k] = s[k + 1]
  OBVIOUS
<1>3. f \in Seq(R) /\ Len(f) = 1 /\ f[1] = h
  OBVIOUS
<1> HIDE DEF t, f
<1>0. /\ n \in Seq(R) /\ Len(n) = Len(f) + Len(t)
      /\ \A k \in 1 .. Len(f) + Len(t) : n[k] = IF k <= Len(f) THEN f[k] ELSE t[k - Len(f)]
  <2>1. f \in Seq(R) /\ t \in Seq(R)
    BY <1>2, <1>3
  <2>2. /\ f \o t \in Seq(R) /\ Len(f \o t) = Len(f) + Len(t)
        /\ \A k \in 1 .. Len(f) + Len(t) : (f \o t)[k] = IF k <= Len(f) THEN f[k] ELSE t[k - Len(f)]
    BY ONLY <2>1, ConcatProperties
  <2> QED
    BY ONLY <2>2
<1> HIDE DEF n
<1>4. n \in Seq(R) /\ Len(n) = Len(s) /\ n[1] = h
  BY <1>0, <1>1, <1>2, <1>3
<1>5. \A k \in 2 .. Len(s) : n[k] = t[k - 1]
  BY <1>0, <1>1, <1>2, <1>3
<1>6. \A k \in 2 .. Len(s) : k - 1 \in 1 .. Len(s) - 1 /\ (k - 1) + 1 = k
  BY <1>1
<1>7. \A k \in 2 .. Len(s) : t[k - 1] = s[k]
  BY <1>2, <1>6
<1>8. n # <<>>
  BY <1>1, <1>4
<1> QED
  BY <1>1, <1>4, <1>5, <1>7, <1>8 DEF n, f, t

TypedInv == SyncTypes /\ \A a \in Attempt : Stages(a)

(* An attempt that does nothing to comments and plans keeps the types.     *)
LEMMA NoRequests ==
  ASSUME TypedInv, NEW a \in Attempt, NEW l, GoesTo(a, l),
         l \notin {"check", "effect", "group"}, DOMAIN jobOf' = Attempt,
         UNCHANGED comments,
         UNCHANGED <<seen, todo>> \/ /\ seen' = [seen EXCEPT ![a] = <<>>]
                                     /\ todo' = [todo EXCEPT ![a] = <<>>],
         found' \in [Attempt -> [FindingId -> {"line", "file", "none"}]],
         undisturbed' \in [Attempt -> BOOLEAN]
  PROVE  TypedInv'
<1> USE DEF TypedInv, SyncTypes, GoesTo
<1>1. DOMAIN line' = Attempt
  OBVIOUS
<1>2. <<>> \in Seq(FindingComment) /\ <<>> \in Seq(Seq(Request))
  OBVIOUS
<1>3. seen' \in [Attempt -> Seq(FindingComment)] /\ todo' \in [Attempt -> Seq(Seq(Request))]
  BY <1>2
<1>4. \A b \in Attempt : Stages(b)'
  BY DEF Stages, InSync
<1> QED
  BY <1>1, <1>3, <1>4

(* Every step of an attempt outside its requests does nothing to comments  *)
(* and plans.                                                              *)
LEMMA QuietTyped ==
  ASSUME TypedInv, NEW a \in Attempt,
         \/ \E job \in ReviewJob : BeginAttempt(a, job)
         \/ ConfirmLease(a) \/ AttemptCrashes(a) \/ RequestFails(a)
         \/ ListCheckRuns(a) \/ CreateCheckRun(a) \/ Generate(a)
         \/ ListComments(a) \/ PatchOrPostSummary(a) \/ FinishCheckRun(a) \/ StartSync(a)
  PROVE  TypedInv'
<1> DEFINE T == [FindingId -> {"line", "file", "none"}]
<1>0. /\ found \in [Attempt -> T] /\ undisturbed \in [Attempt -> BOOLEAN] /\ DOMAIN jobOf = Attempt
      /\ HeadIsExpected(a) \in BOOLEAN
  BY DEF TypedInv, SyncTypes, HeadIsExpected
<1>1. CASE \E job \in ReviewJob : BeginAttempt(a, job)
  <2>1. DOMAIN jobOf' = Attempt /\ UNCHANGED <<comments, seen, todo, found, undisturbed>> /\ GoesTo(a, "claimed")
    BY <1>0, <1>1 DEF BeginAttempt, hubVars, historyVars
  <2> QED
    BY <1>0, <2>1, NoRequests
<1>2. CASE ConfirmLease(a)
  <2>1. PICK l \in {"lost", "checks", "comments", "inline", "finish", "finishFailed"} : GoesTo(a, l)
    BY <1>2 DEF ConfirmLease
  <2>2. DOMAIN jobOf' = Attempt /\ UNCHANGED <<comments, seen, todo>>
    BY <1>0, <1>2 DEF ConfirmLease, hubVars
  <2>3. [f \in FindingId |-> "none"] \in T
    OBVIOUS
  <2> HIDE DEF T
  <2>4. found' \in [Attempt -> T] /\ undisturbed' \in [Attempt -> BOOLEAN]
    BY <1>0, <1>2, <2>3 DEF ConfirmLease
  <2> QED
    BY <2>1, <2>2, <2>4, NoRequests DEF T
<1>3. CASE AttemptCrashes(a)
  <2>1. DOMAIN jobOf' = Attempt /\ UNCHANGED <<comments, seen, todo, found, undisturbed>> /\ GoesTo(a, "crashed")
    BY <1>0, <1>3 DEF AttemptCrashes, hubVars, historyVars
  <2> QED
    BY <1>0, <2>1, NoRequests
<1>4. CASE RequestFails(a)
  <2>1. PICK l \in {"failed", "failing"} : GoesTo(a, l)
    BY <1>4 DEF RequestFails, Ends
  <2>2. /\ DOMAIN jobOf' = Attempt /\ UNCHANGED <<comments, found, undisturbed>>
        /\ seen' = [seen EXCEPT ![a] = <<>>] /\ todo' = [todo EXCEPT ![a] = <<>>]
    BY <1>0, <1>4 DEF RequestFails, RequestOnly
  <2> QED
    BY <1>0, <2>1, <2>2, NoRequests
<1>5. CASE ListCheckRuns(a) \/ CreateCheckRun(a) \/ ListComments(a) \/ PatchOrPostSummary(a) \/ FinishCheckRun(a)
  <2>1. PICK l \in {"review", "newCheck", "oldSummary", "newSummary", "summarised", "published", "failed"} :
          GoesTo(a, l)
    BY <1>5 DEF ListCheckRuns, CreateCheckRun, ListComments, PatchOrPostSummary, FinishCheckRun, Ends
  <2>2. DOMAIN jobOf' = Attempt /\ UNCHANGED <<comments, seen, todo, found, undisturbed>>
    BY <1>0, <1>5 DEF ListCheckRuns, CreateCheckRun, ListComments, PatchOrPostSummary, FinishCheckRun,
       RequestOnly
  <2> QED
    BY <1>0, <2>1, <2>2, NoRequests
<1>6. CASE Generate(a)
  <2>1. DOMAIN jobOf' = Attempt /\ UNCHANGED <<comments, seen, todo, undisturbed>> /\ GoesTo(a, "generated")
    BY <1>0, <1>6 DEF Generate, hubVars, historyVars
  <2>2. found' \in [Attempt -> T]
    BY <1>0, <1>6 DEF Generate
  <2> QED
    BY <1>0, <2>1, <2>2, NoRequests
<1>7. CASE StartSync(a)
  <2>1. PICK l \in {"list", "synced"} : GoesTo(a, l)
    BY <1>7 DEF StartSync
  <2>2. /\ DOMAIN jobOf' = Attempt /\ UNCHANGED <<comments, seen, todo, found>>
        /\ undisturbed' \in [Attempt -> BOOLEAN]
    BY <1>0, <1>7 DEF StartSync, SyncOnly
  <2> QED
    BY <1>0, <2>1, <2>2, NoRequests
<1> QED
  BY <1>1, <1>2, <1>3, <1>4, <1>5, <1>6, <1>7

(* And so do those that follow a plan or change the comments.              *)
LEMMA SyncTyped ==
  ASSUME TypedInv, [PubNext]_pubVars
  PROVE  TypedInv'
<1> USE DEF TypedInv, SyncTypes
<1>0. <<>> \in Seq(FindingComment) /\ <<>> \in Seq(Seq(Request))
  OBVIOUS
<1>1. ASSUME UNCHANGED <<line, seen, todo, jobOf, found>>, comments' \in Seq(FindingComment),
             undisturbed' \in [Attempt -> BOOLEAN]
      PROVE  TypedInv'
  BY <1>1 DEF Stages, InSync
<1>2. CASE UNCHANGED pubVars \/ LeaseRunsOut
  BY <1>1, <1>2 DEF pubVars, hubVars, historyVars, LeaseRunsOut
<1>3. CASE HeadMoves
  <2>1. PICK gone \in BOOLEAN :
          comments' = [i \in DOMAIN comments |->
            IF gone /\ comments[i].at = "line" THEN [comments[i] EXCEPT !.at = "outdated"] ELSE comments[i]]
    BY <1>3 DEF HeadMoves
  <2>2. ASSUME NEW i \in DOMAIN comments
        PROVE  /\ comments[i] \in FindingComment
               /\ [comments[i] EXCEPT !.at = "outdated"] \in FindingComment
    <3>1. comments[i] \in FindingComment
      BY <2>2
    <3> QED
      BY <3>1 DEF FindingComment, Location
  <2>3. comments' \in [1 .. Len(comments) -> FindingComment] /\ Len(comments) \in Nat
    <3>1. DOMAIN comments = 1 .. Len(comments) /\ Len(comments) \in Nat
      OBVIOUS
    <3>2. \A i \in DOMAIN comments :
            (IF gone /\ comments[i].at = "line" THEN [comments[i] EXCEPT !.at = "outdated"] ELSE comments[i])
              \in FindingComment
      BY <2>2
    <3> QED
      BY <2>1, <3>1, <3>2
  <2>4. comments' \in Seq(FindingComment)
    <3>1. PICK n \in Nat : comments' \in [1 .. n -> FindingComment]
      BY <2>3
    <3> QED
      BY ONLY <3>1
  <2>5. undisturbed' \in [Attempt -> BOOLEAN]
    BY <1>3 DEF HeadMoves, Syncing
  <2> QED
    BY <1>1, <1>3, <2>4, <2>5 DEF HeadMoves
<1>4. ASSUME NEW a \in Attempt, ListFindingComments(a) PROVE TypedInv'
  BY <1>4 DEF ListFindingComments, GoesTo, SyncOnly, Stages, InSync
<1>5. ASSUME NEW a \in Attempt, Plan(a) PROVE TypedInv'
  <2>1. UNCHANGED <<comments, jobOf, found, undisturbed>>
    BY <1>5 DEF Plan, SyncOnly
  <2>2. CASE HeadIsExpected(a)
    <3>1. PICK p \in Seq(Seq(Request)) : p # <<>> /\ todo' = [todo EXCEPT ![a] = p]
      <4> DEFINE p == <<Resolves(a, Gone(a))>>
                      \o [k \in DOMAIN Order(a) |-> PlanFor(a, Order(a)[k])]
      <4>1. todo' = [todo EXCEPT ![a] = p]
        BY <1>5, <2>2 DEF Plan, Order
      <4>2. p \in Seq(Seq(Request)) /\ Len(p) = Len(Order(a)) + 1 /\ Len(Order(a)) \in Nat
        BY PlanIsTyped
      <4> HIDE DEF p
      <4>3. p # <<>>
        BY <4>2
      <4> QED
        BY <4>1, <4>2, <4>3
    <3>2. seen' = seen /\ line' = [line EXCEPT ![a] = "check"]
      BY <1>5, <2>2 DEF Plan, GoesTo
    <3> QED
      BY <2>1, <3>1, <3>2 DEF Stages, InSync
  <2>3. CASE ~HeadIsExpected(a)
    <3>1. line' = [line EXCEPT ![a] = "synced"] /\ seen' = [seen EXCEPT ![a] = <<>>] /\ todo' = todo
      BY <1>5, <2>3 DEF Plan, GoesTo
    <3>2. seen' \in [Attempt -> Seq(FindingComment)]
      BY <1>0, <3>1
    <3> QED
      BY <2>1, <3>1, <3>2 DEF Stages, InSync
  <2> QED
    BY <2>2, <2>3
<1>6. ASSUME NEW a \in Attempt, NextFinding(a) PROVE TypedInv'
  <2>1. UNCHANGED <<comments, jobOf, found>> /\ line[a] = "group"
    BY <1>6 DEF NextFinding, SyncOnly
  <2>2. CASE /\ Len(todo[a]) > 1 /\ line' = [line EXCEPT ![a] = "check"]
             /\ todo' = [todo EXCEPT ![a] = Tail(@)] /\ UNCHANGED <<seen, undisturbed>>
    <3>1. todo[a] \in Seq(Seq(Request)) /\ todo[a] # <<>>
      BY <2>1 DEF Stages, InSync
    <3>2. Tail(todo[a]) \in Seq(Seq(Request)) /\ Tail(todo[a]) # <<>>
      <4> DEFINE s == todo[a]
      <4>1. s \in Seq(Seq(Request)) /\ Len(s) > 1
        BY <2>2, <3>1
      <4> HIDE DEF s
      <4>0. Tail(s) \in Seq(Seq(Request)) /\ Len(Tail(s)) = Len(s) - 1 /\ Len(s) \in Nat
        BY ONLY <4>1
      <4>2. PICK t \in Seq(Seq(Request)) : t = Tail(s) /\ Len(t) = Len(s) - 1 /\ Len(s) \in Nat
        BY <4>0, Zenon
      <4>3. Len(t) > 0
        BY ONLY <4>1, <4>2
      <4>4. t # <<>>
        BY ONLY <4>3
      <4> QED
        BY <4>2, <4>4 DEF s
    <3> QED
      BY <2>1, <2>2, <3>2 DEF Stages, InSync
  <2>3. CASE /\ line' = [line EXCEPT ![a] = "synced"]
             /\ undisturbed' = [undisturbed EXCEPT ![a] = @ /\ Len(todo[a]) = 1]
             /\ seen' = [seen EXCEPT ![a] = <<>>] /\ todo' = [todo EXCEPT ![a] = <<>>]
    <3>1. seen' \in [Attempt -> Seq(FindingComment)] /\ todo' \in [Attempt -> Seq(Seq(Request))]
      BY <1>0, <2>3
    <3>2. undisturbed' \in [Attempt -> BOOLEAN]
      BY <2>3
    <3> QED
      BY <2>1, <2>3, <3>1, <3>2 DEF Stages, InSync
  <2> QED
    BY <1>6, <2>2, <2>3 DEF NextFinding, GoesTo
<1>7. ASSUME NEW a \in Attempt, NEW l, line' = [line EXCEPT ![a] = l], NEW h \in Seq(Request),
             todo[a] # <<>>, todo' = [todo EXCEPT ![a] = <<h>> \o Tail(todo[a])],
             l = "group" => h = <<>>, l # "effect", comments' \in Seq(FindingComment),
             UNCHANGED <<jobOf, found, seen>>, undisturbed' \in [Attempt -> BOOLEAN]
      PROVE  TypedInv'
  <2>1. todo[a] \in Seq(Seq(Request))
    OBVIOUS
  <2> DEFINE n == <<h>> \o Tail(todo[a])
  <2>2. n \in Seq(Seq(Request)) /\ n # <<>> /\ n[1] = h
    BY <1>7, <2>1, AnotherFront
  <2>3. todo' = [todo EXCEPT ![a] = n]
    BY <1>7
  <2> HIDE DEF n
  <2>4. todo'[a] = n /\ (\A b \in Attempt \ {a} : todo'[b] = todo[b] /\ line'[b] = line[b]) /\ line'[a] = l
    BY <1>7, <2>3
  <2>5. \A b \in Attempt : Stages(b)'
    BY <1>7, <2>2, <2>4 DEF Stages, InSync
  <2>6. todo' \in [Attempt -> Seq(Seq(Request))]
    BY <2>2, <2>3
  <2> QED
    BY <1>7, <2>5, <2>6
<1>8. ASSUME NEW a \in Attempt, BeforeEffect(a) PROVE TypedInv'
  <2>1. UNCHANGED <<comments, jobOf, found, undisturbed, seen>> /\ line[a] = "check" /\ todo[a] # <<>>
    BY <1>8 DEF BeforeEffect, SyncOnly, Stages, InSync
  <2>2. Head(todo[a]) = todo[a][1]
    <3>1. todo[a] \in Seq(Seq(Request))
      OBVIOUS
    <3> QED
      BY ONLY <2>1, <3>1
  <2>3. CASE Head(todo[a]) = <<>>
    BY <1>8, <2>1, <2>2, <2>3 DEF BeforeEffect, GoesTo, Stages, InSync
  <2>4. CASE Head(todo[a]) # <<>> /\ CheckHead(a, Head(Head(todo[a])))
    BY <1>8, <2>1, <2>2, <2>4 DEF BeforeEffect, GoesTo, Stages, InSync
  <2>5. CASE Head(todo[a]) # <<>> /\ ~CheckHead(a, Head(Head(todo[a])))
    <3>1. line' = [line EXCEPT ![a] = "group"] /\ todo' = [todo EXCEPT ![a] = <<<<>>>> \o Tail(todo[a])]
      BY <1>8, <2>5 DEF BeforeEffect, GoesTo
    <3>0. <<>> \in Seq(Request)
      OBVIOUS
    <3>2. PICK h \in Seq(Request) : h = <<>>
      BY <3>0, Zenon
    <3>3. PICK l : l = "group"
      OBVIOUS
    <3>4. line' = [line EXCEPT ![a] = l] /\ todo' = [todo EXCEPT ![a] = <<h>> \o Tail(todo[a])]
      BY <3>1, <3>2, <3>3
    <3>5. comments' \in Seq(FindingComment) /\ undisturbed' \in [Attempt -> BOOLEAN] /\ UNCHANGED <<jobOf, found, seen>>
      BY <2>1
    <3>6. (l = "group" => h = <<>>) /\ l # "effect"
      BY <3>2, <3>3
    <3> QED
      BY ONLY <1>7, <2>1, <3>4, <3>5, <3>6, h \in Seq(Request)
  <2> QED
    BY <2>3, <2>4, <2>5
<1>9. ASSUME NEW a \in Attempt, Effect(a) PROVE TypedInv'
  <2>1. line[a] = "effect" /\ todo[a] # <<>> /\ todo[a][1] # <<>>
    BY <1>9 DEF Effect, Stages, InSync
  <2>2. PICK g \in Seq(Request) : g # <<>> /\ g = todo[a][1] /\ Head(todo[a]) = g
    BY <2>1, AnotherFront
  <2>3. PICK x \in Request : x = Head(g)
    BY <2>2, Behind
  <2>4. PICK h \in Seq(Request) : h = Tail(g)
    BY <2>2, Behind
  <2>5. x.finding \in FindingId
    BY DEF Request
  <2>6. PICK where \in Location \cup {"none"} : comments' = Applied(x, where)
    <3>1. found[a] \in [FindingId -> {"line", "file", "none"}]
      OBVIOUS
    <3>2. found[a][x.finding] \in Location \cup {"none"} /\ "file" \in Location
      BY <2>5, <3>1 DEF Location
    <3> QED
      BY <1>9, <2>2, <2>3, <3>2 DEF Effect
  <2>7. comments' \in Seq(FindingComment)
    BY <2>6, AppliedIsTyped
  <2>8. undisturbed' \in [Attempt -> BOOLEAN] /\ UNCHANGED <<jobOf, found>>
    BY <1>9 DEF Effect, Disturbs, Syncing, SyncOnly
  <2>9. CASE /\ line' = [line EXCEPT ![a] = "check"]
             /\ todo' = [todo EXCEPT ![a] = <<Tail(Head(todo[a]))>> \o Tail(todo[a])] /\ seen' = seen
    <3>1. PICK l : l = "check"
      OBVIOUS
    <3>2. line' = [line EXCEPT ![a] = l] /\ todo' = [todo EXCEPT ![a] = <<h>> \o Tail(todo[a])]
      BY <2>2, <2>4, <2>9, <3>1
    <3>3. (l = "group" => h = <<>>) /\ l # "effect" /\ UNCHANGED <<jobOf, found, seen>>
      BY <2>8, <2>9, <3>1
    <3> QED
      BY ONLY <1>7, <2>1, <2>7, <2>8, <3>2, <3>3, h \in Seq(Request), a \in Attempt
  <2>10. CASE /\ line' = [line EXCEPT ![a] = "failing"]
              /\ seen' = [seen EXCEPT ![a] = <<>>] /\ todo' = [todo EXCEPT ![a] = <<>>]
    <3>1. seen' \in [Attempt -> Seq(FindingComment)] /\ todo' \in [Attempt -> Seq(Seq(Request))]
      BY <1>0, <2>10
    <3> QED
      BY <2>7, <2>8, <2>10, <3>1 DEF Stages, InSync
  <2> QED
    BY <1>9, <2>9, <2>10 DEF Effect, GoesTo
<1>10. ASSUME NEW a \in Attempt, PlaceRefused(a) PROVE TypedInv'
  <2>1. line[a] = "effect" /\ todo[a] # <<>> /\ todo[a][1] # <<>>
    BY <1>10 DEF PlaceRefused, Stages, InSync
  <2>2. PICK g \in Seq(Request) : g # <<>> /\ g = todo[a][1] /\ Head(todo[a]) = g
    BY <2>1, AnotherFront
  <2>3. PICK x \in Request : x = Head(g)
    BY <2>2, Behind
  <2>4. Tail(g) \in Seq(Request)
    BY <2>2, Behind
  <2>5. PICK h \in Seq(Request) : todo' = [todo EXCEPT ![a] = <<h>> \o Tail(todo[a])]
    <3>1. [x EXCEPT !.verb = "createFile"] \in Request
      BY DEF Request, Verb
    <3>2. <<[x EXCEPT !.verb = "createFile"]>> \o Tail(g) \in Seq(Request)
      BY <2>4, <3>1, InFront
    <3>3. FallBack(a, x.finding) \in Seq(Request)
      <4>1. x.finding \in FindingId
        BY DEF Request
      <4> QED
        BY <4>1, FallBackLeads
    <3> QED
      BY <1>10, <2>2, <2>3, <3>2, <3>3 DEF PlaceRefused
  <2>6. PICK l : l = "check"
    OBVIOUS
  <2>7. line' = [line EXCEPT ![a] = l] /\ (l = "group" => h = <<>>) /\ l # "effect"
    BY <1>10, <2>6 DEF PlaceRefused, GoesTo
  <2>8. UNCHANGED <<jobOf, found, seen>>
    BY <1>10 DEF PlaceRefused, SyncOnly
  <2>9. undisturbed' \in [Attempt -> BOOLEAN] /\ comments' \in Seq(FindingComment)
    BY <1>10 DEF PlaceRefused, SyncOnly
  <2>10. todo[a] # <<>> /\ line' = [line EXCEPT ![a] = l] /\ todo' = [todo EXCEPT ![a] = <<h>> \o Tail(todo[a])]
    BY <2>1, <2>5, <2>7
  <2>11. (l = "group" => h = <<>>) /\ l # "effect"
    BY <2>7
  <2> QED
    BY ONLY <1>7, <2>8, <2>9, <2>10, <2>11, h \in Seq(Request), a \in Attempt
<1>11. ASSUME NEW a \in Attempt,
              \/ \E job \in ReviewJob : BeginAttempt(a, job)
              \/ ConfirmLease(a) \/ AttemptCrashes(a) \/ RequestFails(a)
              \/ ListCheckRuns(a) \/ CreateCheckRun(a) \/ Generate(a)
              \/ ListComments(a) \/ PatchOrPostSummary(a) \/ FinishCheckRun(a) \/ StartSync(a)
       PROVE  TypedInv'
  BY <1>11, QuietTyped
<1> QED
  BY <1>2, <1>3, <1>4, <1>5, <1>6, <1>8, <1>9, <1>10, <1>11 DEF PubNext

-----------------------------------------------------------------------------
(* What other attempts leave alone.                                        *)

(* With the same listing and the same findings, the same is planned.       *)
LEMMA ListedAlike ==
  ASSUME NEW a \in Attempt, seen'[a] = seen[a], found'[a] = found[a], readable' = readable
  PROVE  /\ Current(a)' = Current(a) /\ Order(a)' = Order(a)
         /\ \A f : PlanFor(a, f)' = PlanFor(a, f)
         /\ \A f, g : IsAbout(a, f, g)' <=> IsAbout(a, f, g)
<1>1. Current(a)' = Current(a)
  BY DEF Current
<1>2. Order(a)' = Order(a)
  BY <1>1 DEF Order, InOrderOf
<1>3. Resolvable(a)' = Resolvable(a)
  BY DEF Resolvable
<1>4. ASSUME NEW f PROVE Matching(a, f)' = Matching(a, f)
  BY DEF Matching
<1>5. ASSUME NEW S PROVE Resolves(a, S)' = Resolves(a, S)
  BY DEF Resolves
<1>6. ASSUME NEW f, NEW i PROVE ResolveOthers(a, f, i)' = ResolveOthers(a, f, i)
  <2>1. ((Matching(a, f) \cap Resolvable(a)) \ {i})' = (Matching(a, f) \cap Resolvable(a)) \ {i}
    BY <1>3, <1>4
  <2>2. PICK S : S = (Matching(a, f) \cap Resolvable(a)) \ {i}
    OBVIOUS
  <2>3. ResolveOthers(a, f, i) = Resolves(a, S)
    BY <2>2 DEF ResolveOthers
  <2>4. ResolveOthers(a, f, i)' = Resolves(a, S)'
    BY <2>1, <2>2 DEF ResolveOthers, Resolves
  <2> QED
    BY <1>5, <2>3, <2>4
<1>7. ASSUME NEW f, NEW i PROVE Reuse(a, f, i)' = Reuse(a, f, i)
  BY <1>6 DEF Reuse
<1>8. ASSUME NEW f PROVE PlanFor(a, f)' = PlanFor(a, f)
  <2> DEFINE here == {i \in Matching(a, f) : seen[a][i].at = found[a][f]}
  <2>1. here' = here
    BY <1>4
  <2>2. PICK i : i = Nth(here, 1)
    OBVIOUS
  <2>3. PICK S : S = here
    OBVIOUS
  <2>4. PlanFor(a, f) = IF S # {} THEN Reuse(a, f, i) ELSE <<Do("create", 0, f)>> \o ResolveOthers(a, f, 0)
    BY <2>2, <2>3 DEF PlanFor
  <2>5. PlanFor(a, f)' = IF S # {} THEN Reuse(a, f, i)' ELSE <<Do("create", 0, f)>> \o ResolveOthers(a, f, 0)'
    BY <2>1, <2>2, <2>3 DEF PlanFor, Reuse
  <2> QED
    BY <1>6, <1>7, <2>4, <2>5
<1>9. ASSUME NEW f, NEW g PROVE IsAbout(a, f, g)' <=> IsAbout(a, f, g)
  BY DEF IsAbout
<1> QED
  BY <1>1, <1>2, <1>8, <1>9

(* Nothing about the finding has changed: neither its comments nor whether *)
(* every place was refused.                                                *)
FindingStays(a, f) ==
  /\ \A i : i \in DOMAIN comments /\ comments[i].finding = f
              <=> i \in DOMAIN comments' /\ comments'[i].finding = f
  /\ \A i \in DOMAIN comments : comments[i].finding = f => comments'[i] = comments[i]
  /\ <<a, f>> \in refused' <=> <<a, f>> \in refused

(* Then its threads and what its group leads to have not either.           *)
LEMMA FindingAlike ==
  ASSUME SyncTypes, NEW a \in Attempt, NEW f, ListStands(a), FindingStays(a, f),
         seen'[a] = seen[a], found'[a] = found[a], readable' = readable
  PROVE  /\ Open(f)' = Open(f)
         /\ Untouched(a, f) => Untouched(a, f)'
         /\ \A S : OneIsLeft(a, f, S)' <=> OneIsLeft(a, f, S)
         /\ \A g : LeadsToOne(a, f, g) => LeadsToOne(a, f, g)'
<1>1. Open(f)' = Open(f)
  BY DEF Open, FindingStays
<1>2. Untouched(a, f) => Untouched(a, f)'
  <2>1. DOMAIN seen[a] \subseteq DOMAIN comments
    BY DEF SyncTypes, ListStands
  <2> QED
    BY <2>1 DEF Untouched, FindingStays, ListStands
<1>3. ASSUME NEW S PROVE OneIsLeft(a, f, S)' <=> OneIsLeft(a, f, S)
  BY DEF OneIsLeft, FindingStays
<1>4. ASSUME NEW g, LeadsToOne(a, f, g) PROVE LeadsToOne(a, f, g)'
  <2>1. IsAbout(a, f, g)'
    BY <1>4, ListedAlike DEF LeadsToOne
  <2>2. PICK S : S = (Open(f) \cup Targets("unresolve", g)) \ Targets("resolve", g)
    OBVIOUS
  <2>3. ~Creates(g) => OneIsLeft(a, f, S)'
    BY <1>3, <1>4, <2>2 DEF LeadsToOne
  <2>4. ~Creates(g) => OneIsLeft(a, f, (Open(f) \cup Targets("unresolve", g)) \ Targets("resolve", g))'
    BY <1>1, <2>2, <2>3 DEF OneIsLeft
  <2> QED
    BY <1>1, <1>2, <1>4, <2>1, <2>4 DEF LeadsToOne
<1> QED
  BY <1>1, <1>2, <1>3, <1>4

(* A later finding's group is not the first.                               *)
LEMMA ShiftedPlace ==
  ASSUME NEW n \in Nat, NEW m \in Nat, NEW p \in 0 .. n, NEW k \in 1 .. n, p = n + 1 - m, k > p
  PROVE  k - p + 1 \in 2 .. m
OBVIOUS

(* A sync in which only the first group, about one finding, has changed    *)
(* goes on if that group still leads to one thread.                        *)
LEMMA OtherFrontWorks ==
  ASSUME SyncTypes, NEW a \in Attempt, Working(a), NEW h \in Seq(Request), NEW f \in FindingId,
         todo'[a] = <<h>> \o Tail(todo[a]),
         seen'[a] = seen[a], found'[a] = found[a], readable' = readable, ListStands(a)',
         \A e \in FindingId \ {f} : FindingStays(a, e),
         Place(a) = 0 => f \notin Current(a) /\ ThreadsOfGone(a, h)',
         Place(a) > 0 => f = Order(a)[Place(a)] /\ LeadsToOne(a, f, h)'
  PROVE  Working(a)'
<1>1. /\ Order(a)' = Order(a) /\ Current(a)' = Current(a)
      /\ \A e : PlanFor(a, e)' = PlanFor(a, e)
  BY ListedAlike
<1>2. /\ todo[a] \in Seq(Seq(Request)) /\ Len(todo[a]) \in 1 .. Len(Order(a)) + 1
      /\ Order(a) \in Seq(FindingId) /\ Len(Order(a)) \in Nat
  BY OrderIsOnto DEF SyncTypes, Working
<1>3. todo[a] # <<>>
  BY <1>2
<1>4. /\ Len(todo'[a]) = Len(todo[a]) /\ todo'[a][1] = h
      /\ \A k \in 2 .. Len(todo[a]) : todo'[a][k] = todo[a][k]
  BY <1>2, <1>3, AnotherFront
<1>5. PICK p \in 0 .. Len(Order(a)) : p = Place(a)
  <2>1. Len(todo[a]) \in Nat /\ Len(todo[a]) >= 1 /\ Len(todo[a]) <= Len(Order(a)) + 1
    BY <1>2
  <2>2. Place(a) \in 0 .. Len(Order(a))
    BY <1>2, <2>1 DEF Place
  <2> QED
    BY <2>2
<1>6. Place(a)' = p
  <2>1. Len(Order(a))' = Len(Order(a)) /\ Len(todo[a])' = Len(todo[a])
    BY <1>1, <1>4
  <2> QED
    BY <1>5, <2>1 DEF Place
<1>7. ASSUME NEW e \in FindingId \ {f}
      PROVE  /\ Open(e)' = Open(e)
             /\ Untouched(a, e) => Untouched(a, e)'
             /\ \A S : OneIsLeft(a, e, S)' <=> OneIsLeft(a, e, S)
  BY <1>7, FindingAlike DEF Working
<1>8. ASSUME p > 0, NEW e \in FindingId \ Current(a) PROVE Open(e)' = {}
  <2>1. p \in 1 .. Len(Order(a))
    BY <1>2, <1>5, <1>8
  <2>2. f \in Current(a)
    BY <1>5, <1>8, <2>1, OrderIsOnto
  <2>3. e \in FindingId \ {f}
    BY <2>2
  <2> QED
    BY <1>5, <1>7, <1>8, <2>3 DEF Working
<1>9. ASSUME NEW k \in 1 .. Len(Order(a)), NEW e \in FindingId, e = Order(a)[k]
      PROVE  /\ k > p => todo'[a][k - p + 1] = PlanFor(a, e)' /\ Untouched(a, e)'
             /\ k = p => LeadsToOne(a, e, h)'
             /\ k < p => OneIsLeft(a, e, Open(e))'
  <2>1. e \in Current(a)
    BY <1>9, OrderIsOnto
  <2>2. k # p => e # f
    <3>1. CASE p = 0
      BY <1>5, <2>1, <3>1
    <3>2. CASE p > 0
      <4>1. p \in 1 .. Len(Order(a))
        BY <1>2, <1>5, <3>2
      <4> QED
        BY <1>5, <1>9, <3>2, <4>1, OrderIsOnto
    <3> QED
      BY <1>5, <3>1, <3>2
  <2>3. CASE k > p
    <3>1. todo[a][k - p + 1] = PlanFor(a, e) /\ Untouched(a, e)
      BY <1>5, <1>9, <2>3 DEF Working, Progress
    <3>2. k - p + 1 \in 2 .. Len(todo[a])
      <4>1. PICK n \in Nat, m \in Nat : n = Len(Order(a)) /\ m = Len(todo[a])
        BY <1>2
      <4>2. p = n + 1 - m /\ p \in 0 .. n /\ k \in 1 .. n
        BY <1>5, <4>1 DEF Place
      <4>3. k - p + 1 \in 2 .. m
        BY <2>3, <4>2, ShiftedPlace
      <4> QED
        BY <4>1, <4>3
    <3>3. e \in FindingId \ {f}
      BY <1>5, <2>2, <2>3
    <3>4. todo'[a][k - p + 1] = PlanFor(a, e)'
      BY <1>1, <1>4, <3>1, <3>2
    <3>5. Untouched(a, e)'
      BY <1>7, <3>1, <3>3
    <3>6. ~(k = p) /\ ~(k < p)
      BY <1>5, <2>3
    <3> QED
      BY <3>4, <3>5, <3>6
  <2>4. CASE k = p
    BY <1>5, <1>9, <2>4
  <2>5. CASE k < p
    <3>1. OneIsLeft(a, e, Open(e))
      BY <1>5, <1>9, <2>5 DEF Working, Progress
    <3>2. e \in FindingId \ {f}
      BY <1>5, <2>2, <2>5
    <3>3. PICK S : S = Open(e)
      OBVIOUS
    <3>4. OneIsLeft(a, e, S)' /\ Open(e)' = S
      BY <1>7, <3>1, <3>2, <3>3
    <3>5. OneIsLeft(a, e, Open(e))'
      BY <3>4 DEF OneIsLeft
    <3> QED
      BY <1>5, <2>5, <3>5
  <2> QED
    BY <1>5, <2>3, <2>4, <2>5
<1>10. Progress(a)'
  <2> SUFFICES ASSUME NEW k \in 1 .. Len(Order(a)), NEW e \in FindingId, e = Order(a)[k]
               PROVE  /\ k > p => todo'[a][k - p + 1] = PlanFor(a, e)' /\ Untouched(a, e)'
                      /\ k = p => LeadsToOne(a, e, h)'
                      /\ k < p => OneIsLeft(a, e, Open(e))'
    BY <1>1, <1>4, <1>6 DEF Progress
  <2> QED
    BY <1>9
<1>11. Len(todo[a])' \in 1 .. Len(Order(a))' + 1
  BY <1>1, <1>2, <1>4
<1>12. p = 0 => ThreadsOfGone(a, todo[a][1])'
  BY <1>4, <1>5 DEF ThreadsOfGone, Targets
<1>13. p > 0 => \A e \in FindingId \ Current(a)' : Open(e)' = {}
  BY <1>1, <1>8
<1> QED
  BY <1>6, <1>10, <1>11, <1>12, <1>13 DEF Working

(* A sync goes on while nothing it depends on changes.                     *)
LEMMA WorkingAlike ==
  ASSUME SyncTypes, NEW a \in Attempt, Working(a), UNCHANGED comments,
         todo'[a] = todo[a], seen'[a] = seen[a], found'[a] = found[a], readable' = readable,
         \A f \in FindingId : <<a, f>> \in refused' <=> <<a, f>> \in refused
  PROVE  Working(a)'
<1>1. /\ Order(a)' = Order(a) /\ Current(a)' = Current(a)
      /\ \A e : PlanFor(a, e)' = PlanFor(a, e)
  BY ListedAlike
<1>2. Place(a)' = Place(a)
  <2>1. Len(Order(a))' = Len(Order(a)) /\ Len(todo[a])' = Len(todo[a])
    BY <1>1
  <2> QED
    BY <2>1 DEF Place
<1>3. ASSUME NEW e \in FindingId
      PROVE  /\ Open(e)' = Open(e)
             /\ Untouched(a, e) => Untouched(a, e)'
             /\ OneIsLeft(a, e, Open(e)) => OneIsLeft(a, e, Open(e))'
             /\ \A g : LeadsToOne(a, e, g) => LeadsToOne(a, e, g)'
  <2>1. FindingStays(a, e) /\ ListStands(a)
    BY DEF FindingStays, Working
  <2>2. /\ Open(e)' = Open(e)
        /\ Untouched(a, e) => Untouched(a, e)'
        /\ \A S : OneIsLeft(a, e, S)' <=> OneIsLeft(a, e, S)
        /\ \A g : LeadsToOne(a, e, g) => LeadsToOne(a, e, g)'
    BY <2>1, FindingAlike
  <2>3. PICK S : S = Open(e)
    OBVIOUS
  <2>4. OneIsLeft(a, e, Open(e)) => OneIsLeft(a, e, S)'
    BY <2>2, <2>3
  <2>5. OneIsLeft(a, e, Open(e)) => OneIsLeft(a, e, Open(e))'
    BY <2>2, <2>3, <2>4 DEF OneIsLeft
  <2> QED
    BY <2>2, <2>5
<1>4. Progress(a)'
  BY <1>1, <1>2, <1>3 DEF Working, Progress
<1>5. ListStands(a)'
  BY DEF Working, ListStands
<1>6. ThreadsOfGone(a, todo[a][1]) => ThreadsOfGone(a, todo[a][1])'
  BY <1>1, <1>3 DEF ThreadsOfGone, Targets
<1>7. Len(todo[a])' \in 1 .. Len(Order(a))' + 1
  BY <1>1 DEF Working
<1> QED
  BY <1>1, <1>2, <1>3, <1>4, <1>5, <1>6, <1>7 DEF Working

(* What one attempt does leaves another's sync as it was, or disturbs it.  *)
LeftAlone(a) ==
  /\ line'[a] = line[a] /\ jobOf'[a] = jobOf[a] /\ found'[a] = found[a]
  /\ seen'[a] = seen[a] /\ todo'[a] = todo[a] /\ readable' = readable
  /\ \A f \in FindingId : <<a, f>> \in refused' <=> <<a, f>> \in refused
  /\ undisturbed'[a] => undisturbed[a]
  /\ Syncing(a) /\ undisturbed'[a] => UNCHANGED <<comments, prHead>>

(* A sync that is left alone goes on as it was.                            *)
LEMMA LeftAloneKeeps ==
  ASSUME SyncTypes, NEW a \in Attempt, SyncInvOf(a), LeftAlone(a)
  PROVE  SyncInvOf(a)'
<1>1. line'[a] \in BeforeSync => \A f \in FindingId : <<a, f>> \notin refused'
  BY DEF SyncInvOf, LeftAlone
<1>2. Stages(a)'
  BY DEF SyncInvOf, LeftAlone, Stages, InSync
<1>3. Syncing(a)' /\ undisturbed'[a] => HeadIsExpected(a)'
  BY DEF SyncInvOf, LeftAlone, Syncing, HeadIsExpected
<1>4. line'[a] = "listed" /\ undisturbed'[a] => seen'[a] = comments'
  BY DEF SyncInvOf, LeftAlone, Syncing
<1>5. ASSUME InSync(a)', undisturbed'[a], readable' PROVE Working(a)'
  <2>1. InSync(a) /\ Syncing(a) /\ undisturbed[a] /\ readable
    BY <1>5 DEF LeftAlone, InSync, Syncing
  <2> QED
    BY <1>5, <2>1, WorkingAlike DEF LeftAlone, SyncInvOf
<1> QED
  BY <1>1, <1>2, <1>3, <1>4, <1>5 DEF SyncInvOf

(* An attempt that is not in a sync has nothing to keep but that it was    *)
(* refused nothing before it.                                              *)
LEMMA OutsideSync ==
  ASSUME NEW a \in Attempt, line'[a] \notin {"list", "listed", "group", "check", "effect"},
         line'[a] \in BeforeSync => \A f \in FindingId : <<a, f>> \notin refused'
  PROVE  SyncInvOf(a)'
BY DEF SyncInvOf, Stages, InSync, Syncing

(* Every step but a push, and the requests of an attempt itself, leaves    *)
(* the syncs of other attempts alone.                                      *)
LEMMA OthersLeftAlone ==
  ASSUME SyncTypes, NEW a \in Attempt, NEW b \in Attempt \ {a},
         \/ \E job \in ReviewJob : BeginAttempt(a, job)
         \/ ConfirmLease(a) \/ AttemptCrashes(a) \/ RequestFails(a)
         \/ ListCheckRuns(a) \/ CreateCheckRun(a) \/ Generate(a)
         \/ ListComments(a) \/ PatchOrPostSummary(a) \/ FinishCheckRun(a)
         \/ StartSync(a) \/ ListFindingComments(a) \/ Plan(a) \/ NextFinding(a)
         \/ BeforeEffect(a) \/ Effect(a) \/ PlaceRefused(a)
  PROVE  LeftAlone(b)
<1> USE DEF SyncTypes, GoesTo, LeftAlone
<1>1. CASE \E job \in ReviewJob : BeginAttempt(a, job)
  BY <1>1 DEF BeginAttempt, hubVars, historyVars
<1>2. CASE ConfirmLease(a)
  BY <1>2 DEF ConfirmLease, hubVars
<1>3. CASE AttemptCrashes(a)
  BY <1>3 DEF AttemptCrashes, hubVars, historyVars
<1>4. CASE RequestFails(a)
  BY <1>4 DEF RequestFails, Ends, RequestOnly
<1>5. CASE ListCheckRuns(a) \/ CreateCheckRun(a) \/ ListComments(a) \/ PatchOrPostSummary(a)
  BY <1>5 DEF ListCheckRuns, CreateCheckRun, ListComments, PatchOrPostSummary, RequestOnly
<1>6. CASE Generate(a)
  BY <1>6 DEF Generate, hubVars, historyVars
<1>7. CASE FinishCheckRun(a)
  BY <1>7 DEF FinishCheckRun, Ends, RequestOnly
<1>8. CASE StartSync(a)
  BY <1>8 DEF StartSync, SyncOnly
<1>9. CASE ListFindingComments(a)
  BY <1>9 DEF ListFindingComments, SyncOnly
<1>10. CASE Plan(a)
  BY <1>10 DEF Plan, SyncOnly
<1>11. CASE NextFinding(a)
  BY <1>11 DEF NextFinding, SyncOnly
<1>12. CASE BeforeEffect(a)
  BY <1>12 DEF BeforeEffect, SyncOnly
<1>13. CASE Effect(a)
  <2>1. undisturbed'[b] => undisturbed[b] /\ ~Syncing(b)
    BY <1>13 DEF Effect, Disturbs
  <2>2. seen'[b] = seen[b] /\ todo'[b] = todo[b] /\ line'[b] = line[b]
    BY <1>13 DEF Effect
  <2> QED
    BY <1>13, <2>1, <2>2 DEF Effect, SyncOnly
<1>14. CASE PlaceRefused(a)
  <2>1. <<b, 0>>[1] # a /\ \A f \in FindingId : <<b, f>> \in refused' <=> <<b, f>> \in refused
    BY <1>14 DEF PlaceRefused
  <2> QED
    BY <1>14, <2>1 DEF PlaceRefused, SyncOnly
<1> QED
  BY <1>1, <1>2, <1>3, <1>4, <1>5, <1>6, <1>7, <1>8, <1>9, <1>10, <1>11, <1>12, <1>13, <1>14

(* What happens to no attempt leaves every sync alone, or disturbs it.     *)
LEMMA NobodysStep ==
  ASSUME SyncTypes, NEW b \in Attempt, LeaseRunsOut \/ HeadMoves \/ UNCHANGED pubVars
  PROVE  LeftAlone(b)
<1>1. CASE LeaseRunsOut
  BY <1>1 DEF LeaseRunsOut, LeftAlone, hubVars
<1>2. CASE HeadMoves
  BY <1>2 DEF HeadMoves, LeftAlone
<1>3. CASE UNCHANGED pubVars
  BY <1>3 DEF pubVars, hubVars, historyVars, LeftAlone
<1> QED
  BY <1>1, <1>2, <1>3

(* The stages around a sync.                                               *)
LEMMA QuietKeeps ==
  ASSUME SyncTypes, NEW a \in Attempt, SyncInvOf(a),
         \/ \E job \in ReviewJob : BeginAttempt(a, job)
         \/ ConfirmLease(a) \/ AttemptCrashes(a) \/ RequestFails(a)
         \/ ListCheckRuns(a) \/ CreateCheckRun(a) \/ Generate(a)
         \/ ListComments(a) \/ PatchOrPostSummary(a) \/ FinishCheckRun(a)
  PROVE  SyncInvOf(a)'
<1> DEFINE Sync == {"list", "listed", "group", "check", "effect"}
           Meets == line[a] \in BeforeSync /\ UNCHANGED refused
<1> SUFFICES line'[a] \notin Sync /\ (line'[a] \in BeforeSync => Meets)
  BY OutsideSync DEF SyncInvOf
<1> USE DEF SyncTypes, GoesTo, BeforeSync
<1>1. CASE \E job \in ReviewJob : BeginAttempt(a, job)
  BY <1>1 DEF BeginAttempt, historyVars
<1>2. CASE ConfirmLease(a)
  <2>1. CASE lease # a
    BY <1>2, <2>1 DEF ConfirmLease
  <2>2. CASE lease = a
    <3>1. CASE line[a] \in {"synced", "failing"}
      BY <1>2, <2>2, <3>1 DEF ConfirmLease
    <3>2. CASE line[a] \in {"claimed", "generated", "summarised"}
      BY <1>2, <2>2, <3>2 DEF ConfirmLease
    <3> QED
      BY <1>2, <3>1, <3>2 DEF ConfirmLease
  <2> QED
    BY <2>1, <2>2
<1>3. CASE AttemptCrashes(a)
  BY <1>3 DEF AttemptCrashes
<1>4. CASE RequestFails(a)
  BY <1>4 DEF RequestFails, Ends
<1>5. CASE ListCheckRuns(a) \/ CreateCheckRun(a) \/ ListComments(a) \/ PatchOrPostSummary(a)
  BY <1>5 DEF ListCheckRuns, CreateCheckRun, ListComments, PatchOrPostSummary, RequestOnly
<1>6. CASE Generate(a)
  BY <1>6 DEF Generate, historyVars
<1>7. CASE FinishCheckRun(a)
  BY <1>7 DEF FinishCheckRun, Ends
<1> QED
  BY <1>1, <1>2, <1>3, <1>4, <1>5, <1>6, <1>7

(* A sync starts with the head it reviewed, and lists the comments.        *)
LEMMA ListingKeeps ==
  ASSUME SyncTypes, NEW a \in Attempt, SyncInvOf(a), StartSync(a) \/ ListFindingComments(a)
  PROVE  SyncInvOf(a)'
<1> USE DEF SyncTypes, GoesTo
<1>1. CASE StartSync(a)
  <2>1. CASE line'[a] = "synced"
    BY <2>1, OutsideSync DEF BeforeSync
  <2>2. CASE line'[a] # "synced"
    <3>1. line'[a] = "list" /\ line[a] = "inline" /\ HeadIsExpected(a) /\ UNCHANGED refused
      BY <1>1, <2>2 DEF StartSync
    <3>2. HeadIsExpected(a)'
      BY <1>1, <3>1 DEF StartSync, SyncOnly, HeadIsExpected
    <3>3. \A f \in FindingId : <<a, f>> \notin refused'
      BY <3>1 DEF SyncInvOf, BeforeSync
    <3> QED
      BY <3>1, <3>2, <3>3 DEF SyncInvOf, Stages, InSync
  <2> QED
    BY <2>1, <2>2
<1>2. CASE ListFindingComments(a)
  <2>1. /\ line'[a] = "listed" /\ line[a] = "list" /\ UNCHANGED <<refused, undisturbed>>
        /\ seen'[a] = comments'
    BY <1>2 DEF ListFindingComments
  <2>2. undisturbed[a] => HeadIsExpected(a)'
    BY <1>2, <2>1 DEF ListFindingComments, SyncOnly, HeadIsExpected, SyncInvOf, Syncing
  <2>3. \A f \in FindingId : <<a, f>> \notin refused'
    BY <2>1 DEF SyncInvOf, BeforeSync
  <2> QED
    BY <2>1, <2>2, <2>3 DEF SyncInvOf, Stages, InSync
<1> QED
  BY <1>1, <1>2

(* A fresh plan has everything before it.                                  *)
LEMMA PlanKeeps ==
  ASSUME SyncTypes, NEW a \in Attempt, SyncInvOf(a), Plan(a)
  PROVE  SyncInvOf(a)'
<1> DEFINE q == Order(a)
           r == Resolves(a, Gone(a))
           p == <<r>> \o [k \in DOMAIN q |-> PlanFor(a, q[k])]
<1>0. line[a] = "listed" /\ DOMAIN line = Attempt /\ DOMAIN todo = Attempt
  BY DEF Plan, SyncTypes
<1>1. CASE ~HeadIsExpected(a)
  <2>1. line'[a] = "synced"
    BY <1>0, <1>1 DEF Plan, GoesTo
  <2> QED
    BY <2>1, OutsideSync DEF BeforeSync
<1>2. CASE HeadIsExpected(a)
  <2>1. line'[a] = "check" /\ todo'[a] = p /\ UNCHANGED <<comments, seen, found, readable, refused, undisturbed>>
    BY <1>0, <1>2 DEF Plan, GoesTo, SyncOnly, Order
  <2>2. HeadIsExpected(a)'
    BY <1>2 DEF Plan, SyncOnly, HeadIsExpected
  <2>3. /\ p # <<>> /\ Len(p) = Len(q) + 1 /\ Len(q) \in Nat /\ p[1] = r
        /\ \A k \in 1 .. Len(q) : p[k + 1] = PlanFor(a, q[k])
    BY PlanIsTyped
  <2> HIDE DEF p, r, q
  <2>4. Stages(a)'
    BY <2>1, <2>3 DEF Stages, InSync
  <2>5. ASSUME undisturbed[a], readable PROVE Working(a)'
    <3>1. seen[a] = comments /\ \A f \in FindingId : <<a, f>> \notin refused
      BY <1>0, <2>5 DEF SyncInvOf, BeforeSync
    <3>2. /\ Order(a)' = q /\ Current(a)' = Current(a)
          /\ \A e : PlanFor(a, e)' = PlanFor(a, e)
      BY <2>1, ListedAlike DEF q
    <3>3. ListStands(a)'
      BY <2>1, <3>1 DEF ListStands, SyncTypes
    <3>4. Len(todo[a])' = Len(q) + 1 /\ Place(a)' = 0 /\ Len(Order(a))' = Len(q)
      <4>1. Len(todo[a])' = Len(q) + 1 /\ Len(Order(a))' = Len(q)
        BY <2>1, <2>3, <3>2
      <4> QED
        BY <2>3, <4>1 DEF Place
    <3>10. PICK h : h = r
      OBVIOUS
    <3>5. ThreadsOfGone(a, h)'
      <4>1. Gone(a) \in SUBSET (DOMAIN seen[a])
        BY DEF Gone, Resolvable
      <4>2. /\ \A k \in DOMAIN h : /\ h[k].verb = "resolve" /\ h[k].on \in Gone(a)
                                   /\ h[k].finding = seen[a][h[k].on].finding
            /\ Targets("resolve", h) = Gone(a)
        BY <3>10, <4>1, ResolvesOf DEF r
      <4>3. \A f \in FindingId \ Current(a) : Open(f) \subseteq Gone(a)
        BY <2>5, <3>1 DEF Open, Gone, Resolvable
      <4>4. \A f \in FindingId : Open(f)' = Open(f)
        BY <2>1 DEF Open
      <4>5. \A k \in DOMAIN h : h[k].on \in DOMAIN seen[a] /\ h[k].finding \notin Current(a)
        BY <4>1, <4>2 DEF Gone
      <4> QED
        BY <2>1, <3>2, <4>2, <4>3, <4>4, <4>5 DEF ThreadsOfGone, Targets
    <3>6. Progress(a)'
      <4> SUFFICES ASSUME NEW k \in 1 .. Len(q), NEW f \in FindingId, f = q[k]
                   PROVE  todo'[a][k + 1] = PlanFor(a, f) /\ Untouched(a, f)'
        BY <2>3, <3>2, <3>4 DEF Progress
      <4>1. todo'[a][k + 1] = PlanFor(a, f)
        BY <2>1, <2>3
      <4>2. Untouched(a, f)'
        BY <2>1, <3>1 DEF Untouched
      <4> QED
        BY <4>1, <4>2
    <3>7. todo'[a][1] = h
      BY <2>1, <2>3, <3>10
    <3>8. ThreadsOfGone(a, todo[a][1])'
      BY <3>5, <3>7 DEF ThreadsOfGone, Targets, Open, Current
    <3>9. Len(todo[a])' \in 1 .. Len(Order(a))' + 1
      BY <2>3, <3>4
    <3> QED
      BY <3>3, <3>4, <3>6, <3>8, <3>9 DEF Working
  <2> QED
    BY <2>1, <2>2, <2>4, <2>5 DEF SyncInvOf, BeforeSync
<1> QED
  BY <1>1, <1>2

(* With its group done, a finding has its one thread, and one that is gone *)
(* has none.                                                               *)
LEMMA DoneGroup ==
  ASSUME NEW a \in Attempt
  PROVE  /\ \A f : LeadsToOne(a, f, <<>>) => OneIsLeft(a, f, Open(f))
         /\ ThreadsOfGone(a, <<>>) => \A f \in FindingId \ Current(a) : Open(f) = {}
<1>1. \A v : Targets(v, <<>>) = {}
  BY DEF Targets
<1>2. ASSUME NEW f, LeadsToOne(a, f, <<>>) PROVE OneIsLeft(a, f, Open(f))
  <2>1. OneIsLeft(a, f, (Open(f) \cup Targets("unresolve", <<>>)) \ Targets("resolve", <<>>))
    BY <1>2 DEF LeadsToOne, Creates
  <2>2. (Open(f) \cup Targets("unresolve", <<>>)) \ Targets("resolve", <<>>) = Open(f)
    BY <1>1
  <2> QED
    BY <2>1, <2>2 DEF OneIsLeft
<1>3. ThreadsOfGone(a, <<>>) => \A f \in FindingId \ Current(a) : Open(f) = {}
  BY <1>1 DEF ThreadsOfGone
<1> QED
  BY <1>2, <1>3

(* The place moves on with the group that is dropped.                      *)
LEMMA PlaceMovesOn ==
  ASSUME NEW n \in Nat, NEW m \in Nat, m > 1, m <= n + 1
  PROVE  /\ n + 1 - m \in 0 .. n - 1 /\ n + 1 - (m - 1) = (n + 1 - m) + 1 /\ m - 1 \in 1 .. n + 1
         /\ \A k \in 1 .. n : k > n + 1 - m
              => /\ k - (n + 1 - m) + 1 \in 2 .. m
                 /\ k - (n + 1 - (m - 1)) + 1 \in 1 .. m - 1
                 /\ (k - (n + 1 - (m - 1)) + 1) + 1 = k - (n + 1 - m) + 1
OBVIOUS

(* The loop goes on to the next finding.                                   *)
LEMMA NextKeeps ==
  ASSUME SyncTypes, NEW a \in Attempt, SyncInvOf(a), NextFinding(a)
  PROVE  SyncInvOf(a)'
<1>0. line[a] = "group" /\ DOMAIN line = Attempt /\ DOMAIN todo = Attempt /\ todo[a] \in Seq(Seq(Request))
  BY DEF NextFinding, SyncTypes
<1>1. CASE line'[a] = "synced"
  BY <1>1, OutsideSync DEF BeforeSync
<1>2. CASE line'[a] # "synced"
  <2>1. /\ HeadIsExpected(a) /\ Len(todo[a]) > 1 /\ line'[a] = "check" /\ todo'[a] = Tail(todo[a])
        /\ UNCHANGED <<comments, seen, found, readable, refused, undisturbed>>
    BY <1>0, <1>2 DEF NextFinding, GoesTo, SyncOnly
  <2>2. HeadIsExpected(a)'
    BY <2>1 DEF NextFinding, SyncOnly, HeadIsExpected
  <2>3. PICK m \in Nat : m = Len(todo[a])
    BY <1>0
  <2>4. /\ Len(todo'[a]) = m - 1 /\ todo'[a] # <<>>
        /\ \A k \in 1 .. m - 1 : todo'[a][k] = todo[a][k + 1]
    <3>1. ASSUME NEW R, NEW s \in Seq(R), Len(s) = m, m > 1
          PROVE  /\ Len(Tail(s)) = m - 1 /\ Tail(s) # <<>>
                 /\ \A k \in 1 .. m - 1 : Tail(s)[k] = s[k + 1]
      BY <3>1
    <3> QED
      BY <1>0, <2>1, <2>3, <3>1
  <2>5. Stages(a)'
    BY <2>1, <2>4 DEF Stages, InSync
  <2>6. ASSUME undisturbed[a], readable PROVE Working(a)'
    <3>1. Working(a) /\ todo[a][1] = <<>>
      BY <1>0, <2>6 DEF SyncInvOf, InSync, Stages
    <3>2. /\ Order(a)' = Order(a) /\ Current(a)' = Current(a)
          /\ \A e : PlanFor(a, e)' = PlanFor(a, e)
      BY <2>1, ListedAlike
    <3>3. PICK n \in Nat : n = Len(Order(a))
      BY OrderIsOnto
    <3>4. m <= n + 1 /\ m > 1
      BY <2>1, <2>3, <3>1, <3>3 DEF Working
    <3>5. PICK p \in 0 .. n - 1 : p = n + 1 - m
      BY <3>3, <3>4, PlaceMovesOn
    <3>6. Place(a) = p
      BY <2>3, <3>3, <3>5 DEF Place
    <3>7. Place(a)' = p + 1 /\ Len(Order(a))' = n /\ Len(todo[a])' = m - 1
      <4>1. Len(Order(a))' = n /\ Len(todo[a])' = m - 1
        BY <2>4, <3>2, <3>3
      <4> QED
        BY <3>4, <3>5, <4>1, PlaceMovesOn DEF Place
    <3>8. ASSUME NEW e \in FindingId
          PROVE  /\ Open(e)' = Open(e)
                 /\ Untouched(a, e) => Untouched(a, e)'
                 /\ OneIsLeft(a, e, Open(e)) => OneIsLeft(a, e, Open(e))'
                 /\ \A g : LeadsToOne(a, e, g) => LeadsToOne(a, e, g)'
      <4>1. FindingStays(a, e) /\ ListStands(a)
        BY <2>1, <3>1 DEF FindingStays, Working
      <4>2. /\ Open(e)' = Open(e)
            /\ Untouched(a, e) => Untouched(a, e)'
            /\ \A S : OneIsLeft(a, e, S)' <=> OneIsLeft(a, e, S)
            /\ \A g : LeadsToOne(a, e, g) => LeadsToOne(a, e, g)'
        BY <2>1, <4>1, FindingAlike
      <4>3. PICK S : S = Open(e)
        OBVIOUS
      <4>4. OneIsLeft(a, e, Open(e)) => OneIsLeft(a, e, S)'
        BY <4>2, <4>3
      <4>5. OneIsLeft(a, e, Open(e)) => OneIsLeft(a, e, Open(e))'
        BY <4>2, <4>3, <4>4 DEF OneIsLeft
      <4> QED
        BY <4>2, <4>5
    <3>9. ASSUME NEW k \in 1 .. n, NEW e \in FindingId, e = Order(a)[k]
          PROVE  /\ k > p + 1 => todo'[a][k - (p + 1) + 1] = PlanFor(a, e)' /\ Untouched(a, e)'
                 /\ k = p + 1 => \A g \in Seq(Request) : g = todo'[a][1] => LeadsToOne(a, e, g)'
                 /\ k < p + 1 => OneIsLeft(a, e, Open(e))'
      <4>1. ASSUME k > p
            PROVE  todo'[a][k - (p + 1) + 1] = PlanFor(a, e) /\ Untouched(a, e)
        <5>1. todo[a][k - p + 1] = PlanFor(a, e) /\ Untouched(a, e)
          BY <3>1, <3>3, <3>6, <3>9, <4>1 DEF Working, Progress
        <5>2. PICK j \in Int : j = k - (p + 1) + 1
          OBVIOUS
        <5>3. j \in 1 .. m - 1 /\ j + 1 = k - p + 1
          BY <3>4, <3>5, <4>1, <5>2
        <5>4. todo'[a][j] = todo[a][j + 1]
          BY <2>4, <5>3
        <5> QED
          BY <5>1, <5>2, <5>3, <5>4
      <4>2. k > p + 1 => todo'[a][k - (p + 1) + 1] = PlanFor(a, e)' /\ Untouched(a, e)'
        BY <3>2, <3>8, <4>1
      <4>3. ASSUME k = p + 1, NEW g \in Seq(Request), g = todo'[a][1] PROVE LeadsToOne(a, e, g)'
        <5>1. todo'[a][1] = PlanFor(a, e) /\ Untouched(a, e)
          BY <4>1, <4>3
        <5>2. LeadsToOne(a, e, PlanFor(a, e))
          BY <2>6, <3>1, <5>1, PlanLeads DEF Working
        <5> QED
          BY <3>8, <4>3, <5>1, <5>2
      <4>4. ASSUME k < p + 1 PROVE OneIsLeft(a, e, Open(e))'
        <5>1. CASE k = p
          <6>1. <<>> \in Seq(Request)
            OBVIOUS
          <6>2. LeadsToOne(a, e, <<>>)
            BY <3>1, <3>3, <3>6, <3>9, <5>1, <6>1 DEF Working, Progress
          <6> QED
            BY <3>8, <6>2, DoneGroup
        <5>2. CASE k < p
          BY <3>1, <3>3, <3>6, <3>8, <3>9, <5>2 DEF Working, Progress
        <5> QED
          BY <4>4, <5>1, <5>2
      <4> QED
        BY <4>2, <4>3, <4>4
    <3>10. Progress(a)'
      <4>1. \A k \in 1 .. n, e \in FindingId : e = Order(a)[k] =>
              /\ k > p + 1 => todo'[a][k - (p + 1) + 1] = PlanFor(a, e)' /\ Untouched(a, e)'
              /\ k = p + 1 => \A g \in Seq(Request) : g = todo'[a][1] => LeadsToOne(a, e, g)'
              /\ k < p + 1 => OneIsLeft(a, e, Open(e))'
        BY <3>9
      <4> QED
        BY <3>2, <3>7, <4>1 DEF Progress
    <3>11. ListStands(a)'
      BY <2>1, <3>1 DEF Working, ListStands
    <3>12. \A f \in FindingId \ Current(a)' : Open(f)' = {}
      <4>1. CASE p = 0
        BY <3>1, <3>2, <3>6, <3>8, <4>1, DoneGroup DEF Working
      <4>2. CASE p > 0
        BY <3>1, <3>2, <3>6, <3>8, <4>2 DEF Working
      <4> QED
        BY <4>1, <4>2
    <3>13. Len(todo[a])' \in 1 .. Len(Order(a))' + 1
      BY <3>4, <3>7, PlaceMovesOn
    <3>14. Place(a)' # 0
      BY <3>7
    <3> QED
      BY <3>10, <3>11, <3>12, <3>13, <3>14 DEF Working
  <2> QED
    BY <2>1, <2>2, <2>5, <2>6 DEF SyncInvOf, BeforeSync
<1> QED
  BY <1>1, <1>2

(* A look at the head before a request.                                    *)
LEMMA LookKeeps ==
  ASSUME SyncTypes, NEW a \in Attempt, SyncInvOf(a), BeforeEffect(a)
  PROVE  SyncInvOf(a)'
<1>0. /\ line[a] = "check" /\ DOMAIN line = Attempt /\ DOMAIN todo = Attempt /\ todo[a] \in Seq(Seq(Request))
      /\ todo[a] # <<>> /\ UNCHANGED <<comments, seen, found, readable, refused, undisturbed, prHead, jobOf>>
      /\ Head(todo[a]) = todo[a][1]
  <2>1. todo[a] # <<>> /\ line[a] = "check"
    BY DEF BeforeEffect, SyncInvOf, Stages, InSync
  <2>2. todo[a] \in Seq(Seq(Request))
    BY DEF SyncTypes
  <2>3. ASSUME NEW R, NEW s \in Seq(R), s # <<>> PROVE Head(s) = s[1]
    BY <2>3
  <2> QED
    BY <2>1, <2>2, <2>3 DEF BeforeEffect, SyncTypes, SyncOnly
<1>1. HeadIsExpected(a)' <=> HeadIsExpected(a)
  BY <1>0 DEF HeadIsExpected
<1>2. undisturbed[a] => HeadIsExpected(a)
  BY <1>0 DEF SyncInvOf, Syncing
<1>3. line'[a] \in {"group", "effect"}
  BY <1>0 DEF BeforeEffect, GoesTo
<1>4. Stages(a)'
  <2>1. CASE todo[a][1] = <<>>
    BY <1>0, <2>1 DEF BeforeEffect, GoesTo, Stages, InSync
  <2>2. CASE todo[a][1] # <<>> /\ CheckHead(a, Head(Head(todo[a])))
    BY <1>0, <2>2 DEF BeforeEffect, GoesTo, Stages, InSync
  <2>3. CASE todo[a][1] # <<>> /\ ~CheckHead(a, Head(Head(todo[a])))
    <3>1. line'[a] = "group" /\ todo'[a] = <<<<>>>> \o Tail(todo[a])
      BY <1>0, <2>3 DEF BeforeEffect, GoesTo
    <3>2. <<>> \in Seq(Request)
      OBVIOUS
    <3>3. todo'[a] # <<>> /\ todo'[a][1] = <<>>
      <4>1. PICK h \in Seq(Request) : h = <<>>
        BY <3>2, Zenon
      <4>2. todo'[a] = <<h>> \o Tail(todo[a])
        BY <3>1, <4>1
      <4>3. todo'[a] # <<>> /\ todo'[a][1] = h
        BY <1>0, <4>2, AnotherFront
      <4> QED
        BY <4>1, <4>3
    <3> QED
      BY <3>1, <3>3 DEF Stages, InSync
  <2> QED
    BY <2>1, <2>2, <2>3
<1>5. ASSUME undisturbed[a], readable PROVE Working(a)'
  <2>1. Working(a)
    BY <1>0, <1>5 DEF SyncInvOf, InSync
  <2>2. todo'[a] = todo[a]
    <3>1. CheckHead(a, Head(Head(todo[a])))
      BY <1>2, <1>5 DEF CheckHead
    <3> QED
      BY <1>0, <3>1 DEF BeforeEffect
  <2> QED
    BY <1>0, <2>1, <2>2, WorkingAlike
<1> QED
  BY <1>0, <1>1, <1>2, <1>3, <1>4, <1>5 DEF SyncInvOf, BeforeSync, InSync

(* What resolving, reopening and creating do to the open threads.          *)
LEMMA ThreadChanges ==
  ASSUME SyncTypes, NEW i \in DOMAIN comments, NEW open \in BOOLEAN,
         comments' = [comments EXCEPT ![i].open = open]
  PROVE  /\ DOMAIN comments' = DOMAIN comments
         /\ \A j \in DOMAIN comments : comments'[j].finding = comments[j].finding
         /\ \A j \in DOMAIN comments \ {i} : comments'[j] = comments[j]
         /\ \A e : Open(e)' = IF e = comments[i].finding
                              THEN IF open THEN Open(e) \cup {i} ELSE Open(e) \ {i}
                              ELSE Open(e)
<1>1. comments \in Seq(FindingComment) /\ comments[i] \in FindingComment
  BY DEF SyncTypes
<1>2. comments' = [j \in DOMAIN comments |-> IF j = i THEN [comments[i] EXCEPT !.open = open] ELSE comments[j]]
  BY <1>1
<1>3. DOMAIN comments' = DOMAIN comments /\ \A j \in DOMAIN comments \ {i} : comments'[j] = comments[j]
  BY <1>2
<1>4. comments'[i].finding = comments[i].finding /\ comments'[i].open = open
  BY <1>1, <1>2 DEF FindingComment
<1> QED
  BY <1>1, <1>3, <1>4 DEF Open

(* A created comment is a thread of its finding, and open.                 *)
LEMMA ThreadCreated ==
  ASSUME SyncTypes, NEW f \in FindingId, NEW where, comments' = Append(comments, Comment(f, where, TRUE))
  PROVE  /\ DOMAIN comments' = DOMAIN comments \cup {Len(comments) + 1} /\ Len(comments') = Len(comments) + 1
         /\ Len(comments) + 1 \notin DOMAIN comments
         /\ \A j \in DOMAIN comments : comments'[j] = comments[j]
         /\ comments'[Len(comments) + 1] = Comment(f, where, TRUE)
         /\ \A e : Open(e)' = IF e = f THEN Open(e) \cup {Len(comments) + 1} ELSE Open(e)
<1>1. comments \in Seq(FindingComment) /\ Len(comments) \in Nat /\ DOMAIN comments = 1 .. Len(comments)
  BY DEF SyncTypes
<1>2. /\ DOMAIN comments' = DOMAIN comments \cup {Len(comments) + 1} /\ Len(comments') = Len(comments) + 1
      /\ \A j \in DOMAIN comments : comments'[j] = comments[j]
      /\ comments'[Len(comments) + 1] = Comment(f, where, TRUE)
  <2>1. PICK c : c = Comment(f, where, TRUE)
    OBVIOUS
  <2>2. comments' = Append(comments, c)
    BY <2>1
  <2>3. ASSUME NEW R, NEW s \in Seq(R), NEW d, NEW t, t = Append(s, d)
        PROVE  /\ DOMAIN t = 1 .. Len(s) + 1 /\ Len(t) = Len(s) + 1
               /\ \A j \in 1 .. Len(s) : t[j] = s[j]
               /\ t[Len(s) + 1] = d
    BY <2>3
  <2>4. /\ DOMAIN comments' = 1 .. Len(comments) + 1 /\ Len(comments') = Len(comments) + 1
        /\ \A j \in 1 .. Len(comments) : comments'[j] = comments[j]
        /\ comments'[Len(comments) + 1] = c
    BY ONLY <1>1, <2>2, <2>3
  <2>5. 1 .. Len(comments) + 1 = (1 .. Len(comments)) \cup {Len(comments) + 1}
    BY <1>1
  <2> QED
    BY <1>1, <2>1, <2>4, <2>5
<1>3. Len(comments) + 1 \notin DOMAIN comments
  BY <1>1
<1> QED
  BY <1>2, <1>3 DEF Open, Comment

(* A request of a finding's group brings it nearer to its one thread, and  *)
(* does nothing about any other finding.                                   *)
LEMMA RequestDone ==
  ASSUME SyncTypes, NEW a \in Attempt, NEW f \in FindingId, NEW g \in Seq(Request), g # <<>>,
         NEW h \in Seq(Request), h = Tail(g), ListStands(a), LeadsToOne(a, f, g), NEW where,
         comments' = Applied(g[1], where), refused' = refused,
         seen'[a] = seen[a], found'[a] = found[a], readable' = readable
  PROVE  /\ LeadsToOne(a, f, h)' /\ ListStands(a)'
         /\ \A e \in FindingId \ {f} : FindingStays(a, e)
<1>2. PICK x \in Request : x = g[1]
  BY Behind
<1>3. /\ Len(h) = Len(g) - 1 /\ DOMAIN g = 1 .. Len(g) /\ DOMAIN h = 1 .. Len(h) /\ Len(h) \in Nat
      /\ \A k \in 1 .. Len(g) - 1 : h[k] = g[k + 1]
      /\ \A v \in Verb : Targets(v, g) = (IF x.verb = v THEN {x.on} ELSE {}) \cup Targets(v, h)
  BY <1>2, Behind
<1>4. /\ x.verb \in Verb /\ x.finding = f
      /\ x.verb \notin Creating => x.on \in DOMAIN seen[a] /\ seen[a][x.on].finding = f
      /\ Creates(g) <=> x.verb \in Creating
  <2>1. 1 \in DOMAIN g
    BY <1>3
  <2>2. IsAbout(a, f, g)
    BY DEF LeadsToOne
  <2> QED
    BY <1>2, <2>1, <2>2 DEF IsAbout, Creates, Request
<1>5. IsAbout(a, f, h) /\ ~Creates(h)
  <2>1. \A k \in DOMAIN h : k + 1 \in DOMAIN g /\ h[k] = g[k + 1] /\ k + 1 # 1
    BY <1>3
  <2>2. \A k \in DOMAIN h : h[k].verb \notin Creating
    BY <2>1 DEF LeadsToOne, IsAbout
  <2>3. IsAbout(a, f, h)
    BY <2>1, <2>2 DEF LeadsToOne, IsAbout
  <2>4. h # <<>> => 1 \in DOMAIN h
    BY <1>3
  <2>5. ~Creates(h)
    BY <2>2, <2>4 DEF Creates
  <2> QED
    BY <2>3, <2>5
<1>6. IsAbout(a, f, h)'
  BY <1>5, ListedAlike
<1>7. DOMAIN seen[a] \subseteq DOMAIN comments
  BY DEF SyncTypes, ListStands
<1> DEFINE Rg == Targets("resolve", g)
           Rh == Targets("resolve", h)
           Ug == Targets("unresolve", g)
           Uh == Targets("unresolve", h)
<1>8. /\ Rg = (IF x.verb = "resolve" THEN {x.on} ELSE {}) \cup Rh
      /\ Ug = (IF x.verb = "unresolve" THEN {x.on} ELSE {}) \cup Uh
  BY <1>3 DEF Verb
<1>9. Ug \cap Rg = {} /\ Uh \cap Rh = {}
  BY <1>8 DEF LeadsToOne
<1>10. Rh \subseteq DOMAIN seen[a]
  BY <1>5 DEF IsAbout, Targets, Creating
<1>11. x.verb \notin Creating => OneIsLeft(a, f, (Open(f) \cup Ug) \ Rg)
  BY <1>4 DEF LeadsToOne
<1> HIDE DEF Rg, Rh, Ug, Uh
<1>12. Rh' = Rh /\ Uh' = Uh
  BY DEF Rh, Uh, Targets
<1> SUFFICES /\ OneIsLeft(a, f, (Open(f) \cup Uh) \ Rh)' /\ ListStands(a)'
             /\ \A e \in FindingId \ {f} : FindingStays(a, e)
  <2>1. PICK S, U, R : U = Uh /\ R = Rh /\ S = Open(f)'
    OBVIOUS
  <2>2. OneIsLeft(a, f, (S \cup U) \ R)'
    BY <1>12, <2>1 DEF OneIsLeft
  <2>3. ~Creates(h)'
    BY <1>5 DEF Creates
  <2> QED
    BY <1>5, <1>6, <1>9, <1>12, <2>1, <2>2 DEF LeadsToOne, OneIsLeft, Uh, Rh, Targets, Creates
<1>13. CASE x.verb \in {"resolve", "unresolve"}
  <2>1. PICK open \in BOOLEAN : open = (x.verb = "unresolve")
    OBVIOUS
  <2>2. PICK i \in DOMAIN comments : i = x.on /\ i \in DOMAIN seen[a] /\ comments[i].finding = f
    BY <1>4, <1>7, <1>13 DEF Creating, ListStands
  <2>3. comments' = [comments EXCEPT ![i].open = open]
    BY <1>2, <1>13, <2>1, <2>2 DEF Applied
  <2>4. /\ DOMAIN comments' = DOMAIN comments
        /\ \A j \in DOMAIN comments : comments'[j].finding = comments[j].finding
        /\ \A j \in DOMAIN comments \ {i} : comments'[j] = comments[j]
        /\ Open(f)' = IF open THEN Open(f) \cup {i} ELSE Open(f) \ {i}
    BY <2>2, <2>3, ThreadChanges
  <2>5. ListStands(a)'
    BY <1>7, <2>4 DEF ListStands, SyncTypes
  <2>6. \A e \in FindingId \ {f} : FindingStays(a, e)
    BY <2>2, <2>4 DEF FindingStays
  <2>7. (Open(f)' \cup Uh) \ Rh = (Open(f) \cup Ug) \ Rg
    BY <1>8, <1>9, <1>13, <2>1, <2>2, <2>4
  <2>8. OneIsLeft(a, f, (Open(f) \cup Ug) \ Rg)
    BY <1>11, <1>13 DEF Creating
  <2>9. PICK S : S = (Open(f) \cup Ug) \ Rg
    OBVIOUS
  <2>10. OneIsLeft(a, f, S)'
    BY <2>8, <2>9 DEF OneIsLeft
  <2>11. ((Open(f) \cup Uh) \ Rh)' = S
    BY <1>12, <2>7, <2>9
  <2> QED
    BY <2>5, <2>6, <2>10, <2>11 DEF OneIsLeft
<1>14. CASE x.verb = "update"
  <2>1. comments' = comments
    BY <1>2, <1>14 DEF Applied
  <2>2. ListStands(a)' /\ Open(f)' = Open(f) /\ \A e \in FindingId \ {f} : FindingStays(a, e)
    BY <2>1 DEF ListStands, Open, FindingStays
  <2>3. Rh = Rg /\ Uh = Ug
    BY <1>8, <1>14
  <2>4. OneIsLeft(a, f, (Open(f) \cup Uh) \ Rh)
    BY <1>11, <1>14, <2>3 DEF Creating
  <2>5. PICK S : S = (Open(f) \cup Uh) \ Rh
    OBVIOUS
  <2>6. OneIsLeft(a, f, S)'
    BY <2>4, <2>5 DEF OneIsLeft
  <2>7. ((Open(f) \cup Uh) \ Rh)' = S
    BY <1>12, <2>2, <2>5
  <2> QED
    BY <2>2, <2>6, <2>7 DEF OneIsLeft
<1>15. CASE x.verb \in Creating
  <2>1. comments' = Append(comments, Comment(f, where, TRUE))
    BY <1>2, <1>4, <1>15 DEF Applied, Creating
  <2>2. PICK n : n = Len(comments) + 1
    OBVIOUS
  <2>3. /\ DOMAIN comments' = DOMAIN comments \cup {n} /\ Len(comments') = n /\ n \notin DOMAIN comments
        /\ \A j \in DOMAIN comments : comments'[j] = comments[j]
        /\ comments'[n].finding = f /\ Open(f)' = Open(f) \cup {n}
    <3>1. /\ DOMAIN comments' = DOMAIN comments \cup {Len(comments) + 1} /\ Len(comments') = Len(comments) + 1
          /\ Len(comments) + 1 \notin DOMAIN comments
          /\ \A j \in DOMAIN comments : comments'[j] = comments[j]
          /\ comments'[Len(comments) + 1] = Comment(f, where, TRUE)
          /\ Open(f)' = Open(f) \cup {Len(comments) + 1}
      BY <2>1, ThreadCreated
    <3>2. Comment(f, where, TRUE).finding = f
      BY DEF Comment
    <3> QED
      BY <2>2, <3>1, <3>2
  <2>4. ListStands(a)'
    <3>1. Len(seen[a]) <= Len(comments) /\ Len(seen[a]) \in Nat /\ Len(comments) \in Nat
      BY DEF ListStands, SyncTypes
    <3>2. Len(seen[a]) <= Len(comments')
      BY <2>2, <2>3, <3>1
    <3> QED
      BY <1>7, <2>3, <3>2 DEF ListStands
  <2>5. \A e \in FindingId \ {f} : FindingStays(a, e)
    BY <2>3 DEF FindingStays
  <2>6. <<a, f>> \notin refused' /\ Uh = {} /\ Open(f) \subseteq Rh
    <3>1. Untouched(a, f) /\ Ug = {} /\ Open(f) \subseteq Rg
      BY <1>4, <1>15 DEF LeadsToOne, Ug, Rg
    <3>2. Rg = Rh
      BY <1>8, <1>15 DEF Creating
    <3> QED
      BY <1>8, <3>1, <3>2 DEF Untouched
  <2>7. n \notin Rh
    BY <1>7, <1>10, <2>3
  <2>8. (Open(f)' \cup Uh) \ Rh = {n}
    BY <2>3, <2>6, <2>7
  <2>9. ((Open(f) \cup Uh) \ Rh)' = {n}
    BY <1>12, <2>8
  <2> QED
    BY <2>4, <2>5, <2>6, <2>9 DEF OneIsLeft
<1> QED
  BY <1>4, <1>13, <1>14, <1>15 DEF Verb, Creating

(* So does a request about a finding that is gone.                         *)
LEMMA GoneDone ==
  ASSUME SyncTypes, NEW a \in Attempt, NEW g \in Seq(Request), g # <<>>,
         NEW h \in Seq(Request), h = Tail(g), ListStands(a), ThreadsOfGone(a, g), NEW where,
         comments' = Applied(g[1], where), refused' = refused,
         seen'[a] = seen[a], found'[a] = found[a], readable' = readable
  PROVE  /\ ThreadsOfGone(a, h)' /\ ListStands(a)'
         /\ g[1].finding \in FindingId \ Current(a)
         /\ \A e \in FindingId \ {g[1].finding} : FindingStays(a, e)
<1>2. PICK x \in Request : x = g[1]
  BY Behind
<1>3. /\ Len(h) = Len(g) - 1 /\ DOMAIN g = 1 .. Len(g) /\ DOMAIN h = 1 .. Len(h) /\ Len(h) \in Nat
      /\ \A k \in 1 .. Len(g) - 1 : h[k] = g[k + 1]
      /\ \A v \in Verb : Targets(v, g) = (IF x.verb = v THEN {x.on} ELSE {}) \cup Targets(v, h)
  BY <1>2, Behind
<1>4. /\ x.verb = "resolve" /\ x.on \in DOMAIN seen[a] /\ x.finding = seen[a][x.on].finding
      /\ x.finding \in FindingId \ Current(a)
  <2>1. 1 \in DOMAIN g
    BY <1>3
  <2> QED
    BY <1>2, <2>1 DEF ThreadsOfGone, Request
<1>5. PICK i \in DOMAIN comments : i = x.on
  BY <1>4 DEF SyncTypes, ListStands
<1>6. comments' = [comments EXCEPT ![i].open = FALSE] /\ comments[i].finding = x.finding
  BY <1>2, <1>4, <1>5 DEF Applied, ListStands
<1>7. /\ DOMAIN comments' = DOMAIN comments
      /\ \A j \in DOMAIN comments : comments'[j].finding = comments[j].finding
      /\ \A j \in DOMAIN comments \ {i} : comments'[j] = comments[j]
      /\ \A e : Open(e)' = IF e = x.finding THEN Open(e) \ {i} ELSE Open(e)
  <2>1. PICK open \in BOOLEAN : open = FALSE
    OBVIOUS
  <2>2. comments' = [comments EXCEPT ![i].open = open]
    BY <1>6, <2>1
  <2>3. /\ DOMAIN comments' = DOMAIN comments
        /\ \A j \in DOMAIN comments : comments'[j].finding = comments[j].finding
        /\ \A j \in DOMAIN comments \ {i} : comments'[j] = comments[j]
        /\ \A e : Open(e)' = IF e = comments[i].finding
                             THEN IF open THEN Open(e) \cup {i} ELSE Open(e) \ {i}
                             ELSE Open(e)
    BY <2>2, ThreadChanges
  <2> QED
    BY <1>6, <2>1, <2>3
<1>8. ListStands(a)'
  BY <1>7 DEF ListStands, SyncTypes
<1>9. \A e \in FindingId \ {x.finding} : FindingStays(a, e)
  BY <1>6, <1>7 DEF FindingStays
<1>10. Current(a)' = Current(a)
  BY ListedAlike
<1>11. Targets("resolve", g) = {i} \cup Targets("resolve", h)
  BY <1>3, <1>4, <1>5 DEF Verb
<1>12. \A f \in FindingId \ Current(a) : Open(f)' \subseteq Targets("resolve", h)
  <2> SUFFICES ASSUME NEW f \in FindingId \ Current(a) PROVE Open(f)' \subseteq Targets("resolve", h)
    OBVIOUS
  <2>1. Open(f) \subseteq {i} \cup Targets("resolve", h)
    BY <1>11 DEF ThreadsOfGone
  <2>2. Open(f)' \subseteq Open(f) /\ i \notin Open(f)'
    <3>1. CASE f = x.finding
      BY <1>7, <3>1
    <3>2. CASE f # x.finding
      BY <1>6, <1>7, <3>2 DEF Open
    <3> QED
      BY <3>1, <3>2
  <2> QED
    BY <2>1, <2>2
<1>13. \A k \in DOMAIN h : k + 1 \in DOMAIN g /\ h[k] = g[k + 1]
  BY <1>3
<1>14. ThreadsOfGone(a, h)'
  BY <1>10, <1>12, <1>13 DEF ThreadsOfGone, Targets
<1> QED
  BY <1>2, <1>4, <1>8, <1>9, <1>14 DEF ThreadsOfGone, Targets

(* The finding whose group is first is one of the review.                  *)
LEMMA FrontIsCurrent ==
  ASSUME SyncTypes, NEW a \in Attempt, Working(a)
  PROVE  /\ todo[a] \in Seq(Seq(Request)) /\ todo[a] # <<>> /\ todo[a][1] \in Seq(Request)
         /\ Place(a) \in 0 .. Len(Order(a)) /\ Len(Order(a)) \in Nat
         /\ Place(a) > 0 => /\ Order(a)[Place(a)] \in FindingId
                            /\ Order(a)[Place(a)] \in Current(a)
                            /\ LeadsToOne(a, Order(a)[Place(a)], todo[a][1])
<1>1. PICK n \in Nat, m \in Nat : n = Len(Order(a)) /\ m = Len(todo[a])
  BY OrderIsOnto DEF SyncTypes
<1>2. m \in 1 .. n + 1 /\ todo[a] \in Seq(Seq(Request))
  BY <1>1 DEF Working, SyncTypes
<1>3. n + 1 - m \in 0 .. n /\ Place(a) = n + 1 - m
  BY <1>1, <1>2 DEF Place
<1>4. ASSUME NEW R, NEW s \in Seq(R), Len(s) = m PROVE s # <<>> /\ s[1] \in R
  BY <1>2, <1>4
<1>5. todo[a] # <<>> /\ todo[a][1] \in Seq(Request)
  BY <1>1, <1>2, <1>4
<1>6. ASSUME Place(a) > 0
      PROVE  /\ Order(a)[Place(a)] \in Current(a) /\ Current(a) \subseteq FindingId
             /\ LeadsToOne(a, Order(a)[Place(a)], todo[a][1])
  <2>1. PICK k \in 1 .. Len(Order(a)) : k = Place(a)
    <3>1. Place(a) \in 1 .. Len(Order(a))
      <4>1. PICK q \in 0 .. n : q = Place(a)
        BY <1>3
      <4>2. q \in 1 .. n
        BY <1>6, <4>1
      <4> QED
        BY <1>1, <4>1, <4>2
    <3> QED
      BY <3>1
  <2>2. Order(a)[k] \in Current(a) /\ Current(a) \subseteq FindingId
    BY OrderIsOnto DEF Current
  <2>3. PICK f \in FindingId : f = Order(a)[k]
    BY <2>2
  <2>4. PICK g \in Seq(Request) : g = todo[a][1]
    BY <1>5
  <2>5. LeadsToOne(a, f, g)
    BY <2>1, <2>3, <2>4 DEF Working, Progress
  <2> QED
    BY <2>1, <2>2, <2>3, <2>4, <2>5
<1> QED
  BY <1>1, <1>2, <1>3, <1>5, <1>6

(* A request that is answered.                                             *)
LEMMA RequestKeeps ==
  ASSUME SyncTypes, NEW a \in Attempt, SyncInvOf(a), Effect(a)
  PROVE  SyncInvOf(a)'
<1>0. line[a] = "effect" /\ DOMAIN line = Attempt /\ todo[a] # <<>> /\ todo[a][1] # <<>>
  BY DEF Effect, SyncTypes, SyncInvOf, Stages, InSync
<1>1. CASE line'[a] = "failing"
  BY <1>1, OutsideSync DEF BeforeSync
<1>2. CASE line'[a] # "failing"
  <2>1. PICK s \in Seq(Seq(Request)) : s = todo[a]
    BY DEF SyncTypes
  <2>2. Head(s) = s[1] /\ s[1] \in Seq(Request) /\ s # <<>>
    <3>1. ASSUME NEW R, NEW q \in Seq(R), q # <<>> PROVE Head(q) = q[1] /\ q[1] \in R
      BY <3>1
    <3> QED
      BY <1>0, <2>1, <3>1
  <2>3. PICK g \in Seq(Request) : g = s[1] /\ g # <<>> /\ Head(s) = g
    BY <1>0, <2>1, <2>2
  <2>4. PICK h \in Seq(Request) : h = Tail(g)
    BY <2>3, Behind
  <2>5. Head(g) = g[1] /\ g[1] \in Request
    BY <2>3, Behind
  <2>6. PICK where : comments' = Applied(g[1], where)
    BY <2>1, <2>3, <2>5 DEF Effect
  <2>7. /\ line'[a] = "check" /\ todo'[a] = <<h>> \o Tail(todo[a])
        /\ UNCHANGED <<seen, found, readable, refused, prHead, jobOf>>
    BY <1>0, <1>2, <2>1, <2>3, <2>4 DEF Effect, GoesTo, SyncOnly, SyncTypes
  <2>8. undisturbed'[a] <=> undisturbed[a]
    BY DEF Effect, Disturbs, SyncTypes
  <2>9. HeadIsExpected(a)' <=> HeadIsExpected(a)
    BY <2>7 DEF HeadIsExpected
  <2>10. Stages(a)'
    <3>1. todo'[a] # <<>>
      BY <2>1, <2>2, <2>4, <2>7, AnotherFront
    <3> QED
      BY <2>7, <3>1 DEF Stages, InSync
  <2>11. ASSUME undisturbed[a], readable PROVE Working(a)'
    <3>1. Working(a)
      BY <1>0, <2>11 DEF SyncInvOf, InSync
    <3>2. ListStands(a)
      BY <3>1 DEF Working
    <3>3. CASE Place(a) = 0
      <4>1. ThreadsOfGone(a, g)
        BY <2>1, <2>3, <3>1, <3>3 DEF Working
      <4>2. PICK f \in FindingId \ Current(a) : f = g[1].finding
        BY <2>3, <2>4, <2>6, <2>7, <3>2, <4>1, GoneDone
      <4>3. /\ ThreadsOfGone(a, h)' /\ ListStands(a)'
            /\ \A e \in FindingId \ {f} : FindingStays(a, e)
        BY <2>3, <2>4, <2>6, <2>7, <3>2, <4>1, <4>2, GoneDone
      <4>4. f \in FindingId /\ f \notin Current(a) /\ ~(Place(a) > 0)
        BY <3>3
      <4>5. seen'[a] = seen[a] /\ found'[a] = found[a] /\ readable' = readable
        BY <2>7
      <4> QED
        BY <2>7, <3>1, <4>3, <4>4, <4>5, OtherFrontWorks
    <3>4. CASE Place(a) # 0
      <4>1. /\ Place(a) > 0 /\ Order(a)[Place(a)] \in FindingId
            /\ LeadsToOne(a, Order(a)[Place(a)], todo[a][1])
        BY <3>1, <3>4, FrontIsCurrent
      <4>2. PICK f \in FindingId : f = Order(a)[Place(a)]
        BY <4>1
      <4>3. LeadsToOne(a, f, g)
        BY <2>1, <2>3, <4>1, <4>2
      <4>4. /\ LeadsToOne(a, f, h)' /\ ListStands(a)'
            /\ \A e \in FindingId \ {f} : FindingStays(a, e)
        BY <2>3, <2>4, <2>6, <2>7, <3>2, <4>3, RequestDone
      <4> QED
        BY <2>7, <3>1, <3>4, <4>2, <4>4, OtherFrontWorks
    <3> QED
      BY <3>3, <3>4
  <2>12. undisturbed'[a] => HeadIsExpected(a)'
    BY <1>0, <2>8, <2>9 DEF SyncInvOf, Syncing
  <2> QED
    BY <2>7, <2>8, <2>10, <2>11, <2>12 DEF SyncInvOf, BeforeSync
<1> QED
  BY <1>1, <1>2

(* A comment that was refused on a line and is tried on the file leads to  *)
(* one thread if it did before.                                            *)
LEMMA TriedOnFile ==
  ASSUME NEW a \in Attempt, NEW f, NEW g \in Seq(Request), g # <<>>, NEW y \in Request,
         LeadsToOne(a, f, g), g[1].verb \in Creating, y.verb \in Creating, y.finding = g[1].finding
  PROVE  LeadsToOne(a, f, <<y>> \o Tail(g))
<1>1. PICK t \in Seq(Request) : t = Tail(g)
  BY Behind
<1>2. PICK h \in Seq(Request) : h = <<y>> \o t
  BY InFront
<1>3. PICK x \in Request : x = g[1]
  BY Behind
<1>4. /\ Len(t) = Len(g) - 1 /\ Len(h) = Len(t) + 1 /\ h[1] = y /\ h # <<>> /\ Len(g) \in Nat
      /\ DOMAIN g = 1 .. Len(g) /\ DOMAIN h = 1 .. Len(h)
      /\ \A k \in 1 .. Len(g) - 1 : t[k] = g[k + 1]
      /\ \A k \in 1 .. Len(t) : h[k + 1] = t[k]
  BY <1>1, <1>2, Behind, InFront
<1>5. \A v \in {"resolve", "unresolve"} : Targets(v, h) = Targets(v, g)
  <2> SUFFICES ASSUME NEW v \in {"resolve", "unresolve"} PROVE Targets(v, h) = Targets(v, g)
    OBVIOUS
  <2>1. Targets(v, h) = (IF y.verb = v THEN {y.on} ELSE {}) \cup Targets(v, t)
    BY <1>2, InFront DEF Verb
  <2>2. Targets(v, g) = (IF x.verb = v THEN {x.on} ELSE {}) \cup Targets(v, t)
    BY <1>1, <1>3, Behind DEF Verb
  <2> QED
    BY <1>3, <2>1, <2>2 DEF Creating
<1>6. \A k \in DOMAIN h : k # 1 => k \in DOMAIN g /\ h[k] = g[k]
  <2> SUFFICES ASSUME NEW k \in DOMAIN h, k # 1 PROVE k \in DOMAIN g /\ h[k] = g[k]
    OBVIOUS
  <2>1. PICK j \in 1 .. Len(t) : k = j + 1
    <3>1. PICK n \in Nat : n = Len(t)
      BY <1>1
    <3>2. k \in 1 .. n + 1 /\ k # 1
      BY <1>4, <3>1
    <3>3. k - 1 \in 1 .. n /\ k = (k - 1) + 1
      BY <3>2
    <3> QED
      BY <3>1, <3>3
  <2> QED
    BY <1>4, <2>1
<1>7. IsAbout(a, f, h)
  <2>1. g[1].finding = f /\ 1 \in DOMAIN g
    BY <1>4 DEF LeadsToOne, IsAbout
  <2> QED
    BY <1>4, <1>6, <2>1 DEF LeadsToOne, IsAbout
<1>8. Creates(g) /\ Creates(h)
  BY <1>4 DEF Creates
<1> QED
  BY <1>1, <1>2, <1>5, <1>7, <1>8 DEF LeadsToOne

(* A place that is refused.                                                *)
LEMMA RefusalKeeps ==
  ASSUME SyncTypes, NEW a \in Attempt, SyncInvOf(a), PlaceRefused(a)
  PROVE  SyncInvOf(a)'
<1>0. line[a] = "effect" /\ DOMAIN line = Attempt /\ todo[a] # <<>> /\ todo[a][1] # <<>>
  BY DEF PlaceRefused, SyncTypes, SyncInvOf, Stages, InSync
<1>1. PICK s \in Seq(Seq(Request)) : s = todo[a]
  BY DEF SyncTypes
<1>2. Head(s) = s[1] /\ s[1] \in Seq(Request) /\ s # <<>>
  <2>1. ASSUME NEW R, NEW q \in Seq(R), q # <<>> PROVE Head(q) = q[1] /\ q[1] \in R
    BY <2>1
  <2> QED
    BY <1>0, <1>1, <2>1
<1>3. PICK g \in Seq(Request) : g = s[1] /\ g # <<>> /\ Head(s) = g
  BY <1>0, <1>1, <1>2
<1>4. PICK x \in Request : x = g[1] /\ Head(g) = x
  BY <1>3, Behind
<1>5. PICK f \in FindingId : f = x.finding
  BY DEF Request
<1>6. /\ line'[a] = "check" /\ x.verb \in Creating
      /\ UNCHANGED <<comments, seen, found, readable, prHead, jobOf, undisturbed>>
  BY <1>0, <1>1, <1>3, <1>4 DEF PlaceRefused, GoesTo, SyncOnly, Creating
<1>7. PICK y \in Request : y = [x EXCEPT !.verb = "createFile"] /\ y.verb = "createFile" /\ y.finding = f
  <2>1. [x EXCEPT !.verb = "createFile"] \in Request
    BY DEF Request, Verb
  <2> QED
    BY <1>5, <2>1 DEF Request
<1>8. PICK h \in Seq(Request) :
        /\ todo'[a] = <<h>> \o Tail(todo[a])
        /\ \/ h = <<y>> \o Tail(g) /\ UNCHANGED refused
           \/ /\ h = FallBack(a, f)
              /\ refused' = IF Matching(a, f) = {} THEN refused \cup {<<a, f>>} ELSE refused
  <2>1. CASE x.verb = "create" /\ found[a][x.finding] = "line"
    <3>1. PICK h \in Seq(Request) : h = <<y>> \o Tail(g)
      BY <1>3, Behind, InFront
    <3>2. todo' = [todo EXCEPT ![a] = <<<<y>> \o Tail(g)>> \o Tail(@)] /\ UNCHANGED refused
      BY <1>1, <1>3, <1>4, <1>7, <2>1 DEF PlaceRefused
    <3>3. todo'[a] = <<h>> \o Tail(todo[a])
      BY <3>1, <3>2 DEF SyncTypes
    <3> QED
      BY <3>1, <3>2, <3>3
  <2>2. CASE ~(x.verb = "create" /\ found[a][x.finding] = "line")
    <3>1. PICK h \in Seq(Request) : h = FallBack(a, f)
      BY FallBackLeads
    <3>2. /\ todo' = [todo EXCEPT ![a] = <<FallBack(a, f)>> \o Tail(@)]
          /\ refused' = IF Matching(a, f) = {} THEN refused \cup {<<a, f>>} ELSE refused
      BY <1>1, <1>3, <1>4, <1>5, <2>2 DEF PlaceRefused
    <3>3. todo'[a] = <<h>> \o Tail(todo[a])
      BY <3>1, <3>2 DEF SyncTypes
    <3> QED
      BY <3>1, <3>2, <3>3
  <2> QED
    BY <2>1, <2>2
<1>9. Stages(a)'
  <2>1. todo'[a] # <<>>
    BY <1>1, <1>2, <1>8, AnotherFront
  <2> QED
    BY <1>6, <2>1 DEF Stages, InSync
<1>10. ASSUME undisturbed[a], readable PROVE Working(a)'
  <2>1. Working(a)
    BY <1>0, <1>10 DEF SyncInvOf, InSync
  <2>2. ListStands(a) /\ ListStands(a)'
    BY <1>6, <2>1 DEF Working, ListStands
  <2>3. Place(a) # 0
    <3>1. ASSUME ThreadsOfGone(a, g) PROVE FALSE
      <4>1. 1 \in DOMAIN g
        BY <1>3
      <4> QED
        BY <1>4, <1>6, <3>1, <4>1 DEF ThreadsOfGone, Creating
    <3> QED
      BY <1>1, <1>3, <2>1, <3>1 DEF Working
  <2>4. /\ Place(a) > 0 /\ Order(a)[Place(a)] \in FindingId
        /\ LeadsToOne(a, Order(a)[Place(a)], todo[a][1])
    BY <2>1, <2>3, FrontIsCurrent
  <2>5. f = Order(a)[Place(a)] /\ LeadsToOne(a, f, g)
    <3>1. LeadsToOne(a, Order(a)[Place(a)], g)
      BY <1>1, <1>3, <2>4
    <3>2. 1 \in DOMAIN g
      BY <1>3
    <3> QED
      BY <1>4, <1>5, <3>1, <3>2 DEF LeadsToOne, IsAbout
  <2>6. Untouched(a, f)
    BY <1>3, <1>4, <1>6, <2>5 DEF LeadsToOne, Creates
  <2>7. \A e \in FindingId \ {f} : FindingStays(a, e)
    BY <1>6, <1>8 DEF FindingStays
  <2>8. LeadsToOne(a, f, h)'
    <3>1. ASSUME UNCHANGED refused, LeadsToOne(a, f, h) PROVE LeadsToOne(a, f, h)'
      <4>1. FindingStays(a, f)
        BY <1>6, <3>1 DEF FindingStays
      <4> QED
        BY <1>6, <2>2, <3>1, <4>1, FindingAlike
    <3>2. CASE h = <<y>> \o Tail(g) /\ UNCHANGED refused
      <4>1. LeadsToOne(a, f, h)
        BY <1>3, <1>4, <1>5, <1>6, <1>7, <2>5, <3>2, TriedOnFile DEF Creating
      <4> QED
        BY <3>1, <3>2, <4>1
    <3>3. CASE h = FallBack(a, f) /\ Matching(a, f) # {} /\ UNCHANGED refused
      <4>1. LeadsToOne(a, f, h)
        BY <1>10, <2>2, <2>6, <3>3, FallBackLeads
      <4> QED
        BY <3>1, <3>3, <4>1
    <3>4. CASE h = FallBack(a, f) /\ Matching(a, f) = {} /\ refused' = refused \cup {<<a, f>>}
      <4>1. h = <<>>
        BY <3>4, FallBackLeads
      <4>2. Open(f) = {}
        BY <1>10, <2>2, <2>6, <3>4, OpenAsListed
      <4>3. Open(f)' = {} /\ <<a, f>> \in refused'
        BY <1>6, <3>4, <4>2 DEF Open
      <4>4. DOMAIN h = {} /\ \A v : Targets(v, h) = {}
        BY <4>1 DEF Targets
      <4>5. IsAbout(a, f, h)' /\ ~Creates(h)'
        BY <4>1, <4>4 DEF IsAbout, Creates
      <4>6. ((Open(f) \cup Targets("unresolve", h)) \ Targets("resolve", h))' = {}
        BY <4>3, <4>4 DEF Targets
      <4>7. (Targets("unresolve", h) \cap Targets("resolve", h))' = {}
        BY <4>4 DEF Targets
      <4> QED
        BY <4>3, <4>5, <4>6, <4>7 DEF LeadsToOne, OneIsLeft
    <3> QED
      BY <1>8, <3>2, <3>3, <3>4
  <2> QED
    BY <1>6, <1>8, <2>1, <2>2, <2>3, <2>5, <2>7, <2>8, OtherFrontWorks
<1>11. undisturbed[a] => HeadIsExpected(a)'
  BY <1>0, <1>6 DEF SyncInvOf, Syncing, HeadIsExpected
<1> QED
  BY <1>6, <1>9, <1>10, <1>11 DEF SyncInvOf, BeforeSync

(* The strengthening is inductive.                                         *)
LEMMA SyncKept ==
  ASSUME SyncInv, [PubNext]_pubVars
  PROVE  SyncInv'
<1>1. SyncTypes'
  BY SyncTyped DEF SyncInv, SyncInvOf, TypedInv
<1>2. SyncTypes /\ \A b \in Attempt : SyncInvOf(b)
  BY DEF SyncInv
<1>3. CASE LeaseRunsOut \/ HeadMoves \/ UNCHANGED pubVars
  BY <1>1, <1>2, <1>3, NobodysStep, LeftAloneKeeps DEF SyncInv
<1>4. ASSUME NEW a \in Attempt,
             \/ \E job \in ReviewJob : BeginAttempt(a, job)
             \/ ConfirmLease(a) \/ AttemptCrashes(a) \/ RequestFails(a)
             \/ ListCheckRuns(a) \/ CreateCheckRun(a) \/ Generate(a)
             \/ ListComments(a) \/ PatchOrPostSummary(a) \/ FinishCheckRun(a)
             \/ StartSync(a) \/ ListFindingComments(a) \/ Plan(a) \/ NextFinding(a)
             \/ BeforeEffect(a) \/ Effect(a) \/ PlaceRefused(a)
      PROVE  SyncInv'
  <2>1. ASSUME NEW b \in Attempt \ {a} PROVE SyncInvOf(b)'
    BY <1>2, <1>4, <2>1, OthersLeftAlone, LeftAloneKeeps
  <2>2. SyncInvOf(a)'
    <3>1. CASE \/ \E job \in ReviewJob : BeginAttempt(a, job)
               \/ ConfirmLease(a) \/ AttemptCrashes(a) \/ RequestFails(a)
               \/ ListCheckRuns(a) \/ CreateCheckRun(a) \/ Generate(a)
               \/ ListComments(a) \/ PatchOrPostSummary(a) \/ FinishCheckRun(a)
      BY <1>2, <3>1, QuietKeeps
    <3>2. CASE StartSync(a) \/ ListFindingComments(a)
      BY <1>2, <3>2, ListingKeeps
    <3>3. CASE Plan(a)
      BY <1>2, <3>3, PlanKeeps
    <3>4. CASE NextFinding(a)
      BY <1>2, <3>4, NextKeeps
    <3>5. CASE BeforeEffect(a)
      BY <1>2, <3>5, LookKeeps
    <3>6. CASE Effect(a)
      BY <1>2, <3>6, RequestKeeps
    <3>7. CASE PlaceRefused(a)
      BY <1>2, <3>7, RefusalKeeps
    <3> QED
      BY <1>4, <3>1, <3>2, <3>3, <3>4, <3>5, <3>6, <3>7
  <2> QED
    BY <1>1, <2>1, <2>2 DEF SyncInv
<1> QED
  BY <1>3, <1>4 DEF PubNext

(* It holds of what earlier reviews have left.                             *)
LEMMA SyncStarts == PubInit => SyncInv
<1> SUFFICES ASSUME PubInit PROVE SyncInv
  OBVIOUS
<1>1. comments \in Seq(FindingComment)
  <2>1. PICK f \in FindingId :
          comments \in {<<>>, <<Comment(f, "line", TRUE)>>,
                        <<Comment(f, "line", FALSE), Comment(f, "file", TRUE)>>,
                        <<Comment(f, "file", FALSE)>>}
    BY DEF PubInit
  <2>2. \A where \in {"line", "file"}, open \in BOOLEAN : Comment(f, where, open) \in FindingComment
    BY DEF Comment, FindingComment, Location
  <2>3. PICK c1, c2, c3, c4 \in FindingComment :
          /\ c1 = Comment(f, "line", TRUE) /\ c2 = Comment(f, "line", FALSE)
          /\ c3 = Comment(f, "file", TRUE) /\ c4 = Comment(f, "file", FALSE)
    BY <2>2
  <2>4. comments \in {<<>>, <<c1>>, <<c2, c3>>, <<c4>>}
    BY <2>1, <2>3
  <2>5. <<>> \in Seq(FindingComment) /\ <<c1>> \in Seq(FindingComment) /\ <<c4>> \in Seq(FindingComment)
    OBVIOUS
  <2>6. <<c2, c3>> \in Seq(FindingComment)
    OBVIOUS
  <2> QED
    BY <2>4, <2>5, <2>6
<1>2. SyncTypes
  BY <1>1 DEF PubInit, SyncTypes
<1>3. \A a \in Attempt : SyncInvOf(a)
  BY DEF PubInit, SyncInvOf, Stages, InSync, Syncing
<1> QED
  BY <1>2, <1>3 DEF SyncInv

(* After a whole sync that nothing disturbed, each finding of the review   *)
(* has exactly one open thread, or none where GitHub took it nowhere, and  *)
(* no other finding has any: whatever comments, refusals and retries the   *)
(* plan of syncFindingReviewComments met.                                  *)
THEOREM SyncsConverge == PubSpec => []SyncConverges
<1>1. SyncInv => SyncConverges
  <2> SUFFICES ASSUME SyncInv, NEW a \in Attempt,
                      line[a] = "group", Len(todo[a]) = 1, undisturbed[a], readable,
                      NEW f \in FindingId
               PROVE  Cardinality(Open(f)) = IF f \in Current(a) /\ <<a, f>> \notin refused THEN 1 ELSE 0
    BY DEF SyncConverges, Open
  <2>1. SyncTypes /\ Working(a) /\ todo[a][1] = <<>>
    BY DEF SyncInv, SyncInvOf, Stages, InSync
  <2>2. PICK n \in Nat : n = Len(Order(a))
    BY <2>1, OrderIsOnto
  <2>3. Place(a) = n
    BY <2>2 DEF Place
  <2>4. ASSUME f \notin Current(a) PROVE Open(f) = {}
    <3>1. CASE n = 0
      BY <2>1, <2>3, <2>4, <3>1, DoneGroup DEF Working
    <3>2. CASE n # 0
      BY <2>1, <2>3, <2>4, <3>2 DEF Working
    <3> QED
      BY <3>1, <3>2
  <2>5. ASSUME f \in Current(a) PROVE OneIsLeft(a, f, Open(f))
    <3>1. PICK k \in 1 .. Len(Order(a)) : Order(a)[k] = f
      BY <2>1, <2>5, OrderIsOnto
    <3>2. CASE k = n
      <4>1. <<>> \in Seq(Request)
        OBVIOUS
      <4>2. LeadsToOne(a, f, <<>>)
        BY <2>1, <2>3, <3>1, <3>2, <4>1 DEF Working, Progress
      <4> QED
        BY <4>2, DoneGroup
    <3>3. CASE k # n
      <4>1. k < Place(a)
        BY <2>2, <2>3, <3>1, <3>3
      <4> QED
        BY <2>1, <3>1, <4>1 DEF Working, Progress
    <3> QED
      BY <3>2, <3>3
  <2>6. Cardinality({}) = 0 /\ \A i : Cardinality({i}) = 1
    BY FS_EmptySet, FS_Singleton
  <2> QED
    BY <2>4, <2>5, <2>6 DEF OneIsLeft
<1> QED
  BY <1>1, SyncStarts, SyncKept, PTL DEF PubSpec
=============================================================================
