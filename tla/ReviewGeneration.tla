--------------------------- MODULE ReviewGeneration ---------------------------
(***************************************************************************)
(* How an attempt at a review spends its invocation: it is claimed while   *)
(* enough time is left, collects evidence in a sandbox next to the         *)
(* repository's context, asks one model after the other and turns what it  *)
(* has into a verdict (reviewer.ts, sandbox.ts, review-route-service.ts,   *)
(* openrouter-review-provider.ts).  Time is what the constants count, from *)
(* the start of the invocation; a call takes what its timeout allows.      *)
(***************************************************************************)
EXTENDS Integers, Sequences, FiniteSets

CONSTANTS
  Invocation,      \* WORKER_INVOCATION_BUDGET_MS: then the platform kills
  PublishReserve,  \* REVIEW_PUBLISH_RESERVE_MS
  DrainReserve,    \* REVIEW_WORKER_DRAIN_RESERVE_MS
  AIReserve,       \* REVIEW_AI_RESERVE_MS
  Slice,           \* REVIEW_MODEL_FALLBACK_SLICE_MS
  SandboxMin,      \* SANDBOX_MIN_BUDGET_MS
  CommandMin,      \* SANDBOX_MIN_COMMAND_BUDGET_MS
  CommandCap,      \* COMMAND_TIMEOUT
  ProbeCap,        \* PACKAGE_JSON_PROBE_TIMEOUT
  ContextCap,      \* repositoryIndexLatencyBudgetMs
  ModelCap,        \* OPENROUTER_TIMEOUT_MS
  MinTry,          \* MIN_OPENROUTER_TIMEOUT_MS
  SetUpCap,        \* what the calls to GitHub before the evidence may take
  ClaimAt,         \* Bound: when the earlier jobs of the invocation were done
  Duration,        \* Bound: what a call takes, apart from all of its timeout
  Subject          \* Bound: the reviews and the configurations (see below)

(* A subject says of the review whether only vendored files changed, its   *)
(* risk signals and the policy's commands and model; of the deployment the *)
(* route's mode and its models, whether builds are skipped and whether it  *)
(* has a key for the models.                                               *)
ASSUME SubjectAssumption ==
  \A s \in Subject :
    /\ {s.vendoredOnly, s.skipBuild, s.hasKey} \subseteq BOOLEAN
    /\ s.commands \in Nat /\ s.signal \in {"none", "minor", "high"} /\ s.mode \in {"single", "risk"}
    /\ DOMAIN s.model = {"policy", "scout", "deep", "fallback", "catchall"}

(* The drain reserve "must cover a degraded-but-complete pass", and the AI *)
(* reserve the cascade (review-invocation-limits.ts:20-38).                *)
ASSUME GenerationAssumption ==
  /\ {Invocation, PublishReserve, DrainReserve, AIReserve, Slice, SandboxMin, CommandMin,
      CommandCap, ProbeCap, ContextCap, ModelCap, MinTry, SetUpCap} \subseteq Nat
  /\ ClaimAt \subseteq Nat /\ Duration \subseteq Nat
  /\ SetUpCap + ContextCap + 3 * MinTry + PublishReserve <= DrainReserve
  /\ 3 * MinTry <= AIReserve /\ MinTry <= Slice

VARIABLES
  elapsed,    \* since the invocation started
  gen,        \* the stage of the attempt
  about,      \* the subject
  contextAt,  \* when the repository's context is there or given up
  plan, ran,  \* the sandbox's steps, and the exit codes of those that ran
  evidence,   \* SandboxResult
  cascadeAt,  \* when the models' turn came
  attempts,   \* the models that failed: the time each had, and if a retry may help
  review      \* ReviewResult

genVars == <<elapsed, gen, about, contextAt, plan, ran, evidence, cascadeAt, attempts, review>>

NoEvidence == [ok |-> FALSE, status |-> "none"]
NoReview == [verdict |-> "none", title |-> "none", judged |-> FALSE, blocking |-> FALSE]

Lesser(a, b) == IF a < b THEN a ELSE b
TheLater(a, b) == IF a < b THEN b ELSE a

\* What a call with this timeout may take.
Spans(limit) == {d \in Duration : d < limit} \cup {limit}

GenerationInit ==
  /\ elapsed = 0 /\ gen = "waiting" /\ about \in Subject /\ contextAt = 0
  /\ plan = <<>> /\ ran = <<>> /\ evidence = NoEvidence
  /\ cascadeAt = 0 /\ attempts = <<>> /\ review = NoReview

-----------------------------------------------------------------------------
(* The claim, and what the evidence needs.                                 *)

MayClaim(t) == t + DrainReserve < Invocation

\* The jobs that the invocation processed before have taken their time.
ClaimReview ==
  /\ gen = "waiting"
  /\ \E t \in ClaimAt : MayClaim(t) /\ elapsed' = t
  /\ gen' = "setup"
  /\ UNCHANGED <<about, contextAt, plan, ran, evidence, cascadeAt, attempts, review>>

\* Token, check run and diff; the context is then looked up beside the sandbox.
SetUp ==
  /\ gen = "setup"
  /\ \E d \in Spans(SetUpCap) : elapsed' = elapsed + d
  /\ \/ gen' = "create" /\ \E c \in Spans(ContextCap) : contextAt' = elapsed' + c
     \/ gen' = "failed" /\ UNCHANGED contextAt
  /\ UNCHANGED <<about, plan, ran, evidence, cascadeAt, attempts, review>>

-----------------------------------------------------------------------------
(* The sandbox.                                                            *)

SandboxDeadline == Invocation - PublishReserve - AIReserve
Remaining == SandboxDeadline - elapsed

SandboxEnds(ok, status) == gen' = "gathered" /\ evidence' = [ok |-> ok, status |-> status]

\* gatherSandboxEvidence: with less than the minimum left there is no sandbox.
SkipSandbox ==
  /\ gen = "create" /\ elapsed + SandboxMin > SandboxDeadline
  /\ SandboxEnds(FALSE, "unavailable")
  /\ UNCHANGED <<elapsed, about, contextAt, plan, ran, cascadeAt, attempts, review>>

\* The creation races with the deadline.
CreateSandbox ==
  /\ gen = "create" /\ elapsed + SandboxMin <= SandboxDeadline
  /\ \E d \in Spans(Remaining) : elapsed' = elapsed + d
  /\ \/ gen' = "probe" /\ UNCHANGED evidence
     \/ SandboxEnds(FALSE, "unavailable")
  /\ UNCHANGED <<about, contextAt, plan, ran, cascadeAt, attempts, review>>

\* sandboxCommandPlan: the install, which alone has the network, then the
\* configured checks or the usual ones.
Configured == [i \in 1 .. about.commands |-> "configured"]
Usual == <<"script", "script", "script">> \o (IF about.skipBuild THEN <<>> ELSE <<"script">>)
FullPlan == <<"install">> \o (IF about.commands > 0 THEN Configured ELSE Usual)

\* rootPackageJsonExists: only a definite answer drops the JavaScript steps.
ProbedPlans == {FullPlan, Configured}

\* Without the time for a probe the whole plan stands.
Probe ==
  /\ gen = "probe"
  /\ IF Remaining < CommandMin
     THEN gen' = "commands" /\ plan' = FullPlan /\ UNCHANGED <<elapsed, evidence>>
     ELSE /\ \E d \in Spans(Lesser(ProbeCap, Remaining)) : elapsed' = elapsed + d
          /\ \/ /\ gen' = "commands"
                /\ plan' \in ProbedPlans
                /\ UNCHANGED evidence
             \/ SandboxEnds(FALSE, "unavailable") /\ UNCHANGED plan
  /\ UNCHANGED <<about, contextAt, ran, cascadeAt, attempts, review>>

Upcoming == Len(ran) + 1
MoreToRun == Upcoming <= Len(plan) /\ \A i \in DOMAIN ran : ran[i] = 0

CommandTimeout == Lesser(CommandCap, Remaining)

\* A step ends by itself, or is killed at its limit or before.
RunStep ==
  /\ gen = "commands" /\ MoreToRun /\ Remaining >= CommandMin
  /\ \E d \in Spans(CommandTimeout), exit \in {0, 1, 137} :
       elapsed' = elapsed + d /\ ran' = Append(ran, exit)
  /\ UNCHANGED <<gen, about, contextAt, plan, evidence, cascadeAt, attempts, review>>

\* The SDK throws: the policy before a step, its command or reading its output.
StepThrows ==
  /\ gen = "commands" /\ MoreToRun /\ Remaining >= CommandMin
  /\ \/ /\ plan[Upcoming] # "install"
        /\ SandboxEnds(FALSE, IF ran = <<>> THEN "unavailable" ELSE "partial")
        /\ UNCHANGED <<elapsed, ran>>
     \/ /\ \E d \in Spans(CommandTimeout) : elapsed' = elapsed + d
        /\ ran' = Append(ran, 1)
        /\ SandboxEnds(FALSE, "partial")
  /\ UNCHANGED <<about, contextAt, plan, cascadeAt, attempts, review>>

\* Mutation: steps that time forbade do not count against the result.
SkippedAreFine(skipped) == \A i \in DOMAIN ran : ran[i] = 0
AllPassed(skipped) == (\A i \in DOMAIN ran : ran[i] = 0) /\ ~skipped

\* The steps are done, one has failed, or there is no time for the next.
StepsEnd ==
  /\ gen = "commands" /\ (MoreToRun => Remaining < CommandMin)
  /\ SandboxEnds(AllPassed(MoreToRun), IF MoreToRun THEN "partial" ELSE "complete")
  /\ UNCHANGED <<elapsed, about, contextAt, plan, ran, cascadeAt, attempts, review>>

-----------------------------------------------------------------------------
(* The route and the models.                                               *)

\* isInfraSandboxFailure
Infra ==
  /\ ~evidence.ok
  /\ evidence.status \in {"unavailable", "partial"} \/ \E i \in DOMAIN ran : ran[i] = 137

\* prepareReviewRoute: a failed sandbox is a high risk, as some paths are.
HighRisk == ~evidence.ok \/ about.signal = "high"

\* selectReviewRoute, and the model of the role.
Role == IF HighRisk THEN "deep" ELSE "scout"
Primary == about.model[IF about.mode = "risk" THEN Role ELSE "policy"]

\* buildReviewModelChain: no model is asked twice.
WithModel(chain, m) ==
  IF \E i \in DOMAIN chain : chain[i] = m THEN chain ELSE Append(chain, m)
Chain == WithModel(WithModel(<<Primary>>, about.model["fallback"]), about.model["catchall"])

\* applyReviewPolicyToResult: the verdict follows from the sandbox and from the
\* findings that the policy shows, whatever the model's own was.
Verdict(shown) ==
  IF ~evidence.ok \/ shown = "blocking" THEN "request_changes"
  ELSE IF shown = "minor" THEN "comment" ELSE "approve"

Decide(shown, judged) ==
  /\ gen' = "decided"
  /\ review' = [verdict |-> Verdict(shown), judged |-> judged, blocking |-> shown = "blocking",
                title |-> IF Infra THEN "infrastructure" ELSE "complete"]

\* The evidence is complete when the context is: infrastructure failures and
\* vendored files need no model.
Gathered ==
  /\ gen = "gathered"
  /\ elapsed' = TheLater(elapsed, contextAt) /\ contextAt' = 0
  /\ IF Infra \/ about.vendoredOnly
     THEN Decide("none", FALSE) /\ UNCHANGED cascadeAt
     ELSE gen' = "cascade" /\ cascadeAt' = elapsed' /\ UNCHANGED review
  /\ UNCHANGED <<about, plan, ran, evidence, attempts>>

\* What is left of the invocation before the publish reserve.
Left == Invocation - PublishReserve - elapsed

\* Mutation: the model whose turn it is may take all that is left.
WholeBudget(n) == Left
\* timeoutForModelAttempt: each later model keeps a slice.
AttemptBudget(n) == IF n <= 1 THEN Left ELSE Left - Lesser(Slice, Left \div n) * (n - 1)

ModelsLeft == Len(Chain) - Len(attempts)
MayTry == ModelsLeft > 0 /\ Left >= MinTry /\ AttemptBudget(ModelsLeft) >= MinTry
TryTimeout == Lesser(ModelCap, AttemptBudget(ModelsLeft))

\* A model answers with a review that passes the schema.
AttemptSucceeds ==
  /\ gen = "cascade" /\ MayTry /\ about.hasKey
  /\ \E d \in Spans(TryTimeout) : elapsed' = elapsed + d
  /\ \E shown \in {"none", "minor", "blocking"} : Decide(shown, TRUE)
  /\ UNCHANGED <<about, contextAt, plan, ran, evidence, cascadeAt, attempts>>

\* It refuses, breaks off, answers something else or is aborted.
AttemptFails ==
  /\ gen = "cascade" /\ MayTry /\ about.hasKey
  /\ \E d \in Spans(TryTimeout), retryable \in BOOLEAN :
       /\ elapsed' = elapsed + d
       /\ d = TryTimeout => retryable
       /\ attempts' = Append(attempts, [given |-> AttemptBudget(ModelsLeft), retryable |-> retryable])
  /\ UNCHANGED <<gen, about, contextAt, plan, ran, evidence, cascadeAt, review>>

\* fallbackReview: without a key the sandbox alone decides.
NoModel ==
  /\ gen = "cascade" /\ MayTry /\ ~about.hasKey
  /\ Decide(IF evidence.ok THEN "none" ELSE "blocking", FALSE)
  /\ UNCHANGED <<elapsed, about, contextAt, plan, ran, evidence, cascadeAt, attempts>>

\* throwCascadeFailure: without a retry if no model's failure was worth one.
GiveUp ==
  /\ gen = "cascade" /\ ~MayTry
  /\ gen' = IF attempts # <<>> /\ \A i \in DOMAIN attempts : ~attempts[i].retryable
            THEN "rejected" ELSE "failed"
  /\ UNCHANGED <<elapsed, about, contextAt, plan, ran, evidence, cascadeAt, attempts, review>>

GenerationNext ==
  \/ ClaimReview \/ SetUp
  \/ SkipSandbox \/ CreateSandbox \/ Probe \/ RunStep \/ StepThrows \/ StepsEnd
  \/ Gathered \/ AttemptSucceeds \/ AttemptFails \/ NoModel \/ GiveUp

GenerationSpec == GenerationInit /\ [][GenerationNext]_genVars

-----------------------------------------------------------------------------
(* Properties                                                              *)

\* However late the job was claimed and however long the sandbox and the models
\* hang, the attempt is over while its result can still be published; and it
\* gives up, or refuses to retry, only after each model of the chain had its
\* slice, or its even share of what the evidence left.
Share == Lesser(Slice, (Invocation - PublishReserve - cascadeAt) \div Len(Chain))

BudgetIsKept ==
  /\ gen \in {"decided", "failed", "rejected"} => elapsed + PublishReserve <= Invocation
  /\ gen = "rejected" \/ (gen = "failed" /\ cascadeAt > 0) =>
       /\ Len(attempts) = Len(Chain)
       /\ \A i \in DOMAIN attempts : attempts[i].given >= Share

\* An approval means that every step that applies ran and passed, and that a
\* model judged the diff, if there was something to judge and a key to ask; a
\* completed review requests changes only for a check or a finding.
VerdictIsEarned ==
  /\ review.verdict = "approve" =>
       /\ Len(ran) = Len(plan) /\ \A i \in DOMAIN ran : ran[i] = 0
       /\ review.judged \/ about.vendoredOnly \/ ~about.hasKey
  /\ review.verdict = "request_changes" /\ review.title = "complete" =>
       review.blocking \/ \E i \in DOMAIN ran : ran[i] = 1
=============================================================================
