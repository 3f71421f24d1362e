---------------------------- MODULE ReviewQueue ----------------------------
(***************************************************************************)
(* ReviewQueue of review-queue.ts: submitters in enqueue, and workers in   *)
(* processNext, over the Redis store and the review event ledger.  Every   *)
(* await is a step of its own, so that workers, submitters, the clock,     *)
(* crashes and access revocations interleave where the code lets them.     *)
(***************************************************************************)
EXTENDS ReviewQueueStore

CONSTANTS
  Worker,     \* concurrent invocations of the worker route
  Poisoned,   \* jobs whose review.requested key was used before, for another fact
  Revocable,  \* the repositories whose access may be revoked and restored
  MaxFaults   \* bound on crashes of a worker and on failed calls together

ASSUME PoisonedAssumption == Poisoned \subseteq Job
ASSUME RevocableAssumption == Revocable \subseteq Repository
ASSUME MaxFaultsAssumption == MaxFaults \in Nat

VARIABLES
  pc,         \* pc[w]: where the invocation w is in processNext
  todo,       \* todo[w]: the pending activations it has read and not yet handled
  read,       \* read[w]: the staged transitions it has read and not yet handled
  job,        \* job[w]: the job it is handling
  attempt,    \* attempt[w]: the attempt it claimed, standing for its lease id
  goal,       \* goal[w]: the outcome it means to stage
  leaseLost,  \* leaseLost[w]: the flag assertActive and the heartbeat share
  unanswered, \* unanswered[w]: a renewal its heartbeat was granted is still to be answered
  submitter,  \* submitter[j]: where the enqueue of j is
  facts,      \* the ledger's lifecycle facts, as <<kind, job, attempt>>
  revoked,    \* the repositories whose ledger access is revoked
  purged,     \* the repositories whose facts were ever deleted
  faults      \* crashes and failed calls so far

drainVars == <<todo, read>>
flagVars == <<leaseLost, unanswered>>
claimVars == <<job, attempt, goal, flagVars>>
workerVars == <<pc, todo, read, job, attempt, goal, flagVars>>
accessVars == <<revoked, purged>>
vars == <<storeVars, workerVars, submitter, facts, accessVars, faults>>

Goal == Outcome \cup {"refused"}
NothingRead == [j \in Job |-> NoTransition]

\* Where processNext holds a claim, with its heartbeat running.
InClaim == {"starting", "running", "publishing", "finishing", "staging", "recording", "acking"}

Pc == InClaim \cup {"idle", "activating", "scheduling", "refusing",
                    "fetching", "draining", "settling"}

Init ==
  /\ StoreInit
  /\ pc = [w \in Worker |-> "idle"]
  /\ todo = [w \in Worker |-> {}]
  /\ read = [w \in Worker |-> NothingRead]
  /\ job = [w \in Worker |-> None]
  /\ attempt = [w \in Worker |-> 0]
  /\ goal = [w \in Worker |-> "retrying"]
  /\ leaseLost = [w \in Worker |-> FALSE] /\ unanswered = [w \in Worker |-> FALSE]
  /\ submitter = [j \in Job |-> "none"]
  /\ facts = {} /\ revoked = {} /\ purged = {}
  /\ faults = 0

-----------------------------------------------------------------------------
(* The ledger, as this module needs it: one fact per idempotency key, none *)
(* for a revoked repository.                                               *)

Revoked(j) == RepositoryOf[j] \in revoked
Append(f) == facts' = facts \cup {f}

Kind(s) == IF s = "retrying" THEN "retry_scheduled" ELSE s

\* deleteScope: the repository's facts go with the access.
RevokeAccess(r) ==
  /\ r \notin revoked
  /\ revoked' = revoked \cup {r}
  /\ purged' = purged \cup {r}
  /\ facts' = {f \in facts : RepositoryOf[f[2]] # r}
  /\ UNCHANGED <<storeVars, workerVars, submitter, faults>>

RestoreAccess(r) ==
  /\ r \in revoked
  /\ revoked' = revoked \ {r}
  /\ UNCHANGED <<storeVars, workerVars, submitter, facts, purged, faults>>

-----------------------------------------------------------------------------
(* enqueue                                                                 *)

Enqueue(j) ==
  /\ Create(j)
  /\ submitter' = [submitter EXCEPT ![j] = "recording"]
  /\ UNCHANGED <<workerVars, facts, accessVars, faults>>

EnqueueRecord(j) ==
  /\ submitter[j] = "recording"
  /\ ~Revoked(j) /\ j \notin Poisoned
  /\ Append(<<"queued", j, 0>>)
  /\ submitter' = [submitter EXCEPT ![j] = "scheduling"]
  /\ UNCHANGED <<storeVars, workerVars, accessVars, faults>>

EnqueueActivate(j) ==
  /\ submitter[j] = "scheduling"
  /\ IF status[j] = "queued" THEN Activate(j) ELSE UNCHANGED storeVars
  /\ submitter' = [submitter EXCEPT ![j] = "none"]
  /\ UNCHANGED <<workerVars, facts, accessVars, faults>>

\* The request dies, or an append is refused and the caller gets the error.
EnqueueFails(j) ==
  /\ submitter[j] # "none"
  /\ submitter' = [submitter EXCEPT ![j] = "none"]
  /\ UNCHANGED <<storeVars, workerVars, facts, accessVars, faults>>

-----------------------------------------------------------------------------
(* processNext, up to the claim                                            *)

Goto(w, p) == pc' = [pc EXCEPT ![w] = p]

\* The call is over, with an answer or with an error.
Return(w) ==
  /\ Goto(w, "idle")
  /\ todo' = [todo EXCEPT ![w] = {}]
  /\ read' = [read EXCEPT ![w] = NothingRead]
  /\ job' = [job EXCEPT ![w] = None]
  /\ attempt' = [attempt EXCEPT ![w] = 0]
  /\ goal' = [goal EXCEPT ![w] = "retrying"]
  /\ leaseLost' = [leaseLost EXCEPT ![w] = FALSE]
  /\ unanswered' = [unanswered EXCEPT ![w] = FALSE]

Begin(w) ==
  /\ pc[w] = "idle"
  /\ Goto(w, "activating")
  /\ todo' = [todo EXCEPT ![w] = activation]
  /\ UNCHANGED <<storeVars, read, claimVars, submitter, facts, accessVars, faults>>

\* One pending activation: requested and queued facts, or their refusal.
ActivatePending(w) ==
  /\ pc[w] = "activating"
  /\ \E j \in todo[w] :
       \/ /\ Revoked(j)
          /\ Goto(w, "refusing")
          /\ job' = [job EXCEPT ![w] = j]
          /\ UNCHANGED <<drainVars, attempt, goal, flagVars, facts>>
       \/ /\ ~Revoked(j) /\ j \in Poisoned
          /\ Return(w)
          /\ UNCHANGED facts
       \/ /\ ~Revoked(j) /\ j \notin Poisoned
          /\ Append(<<"queued", j, 0>>)
          /\ Goto(w, "scheduling")
          /\ job' = [job EXCEPT ![w] = j]
          /\ UNCHANGED <<drainVars, attempt, goal, flagVars>>
  /\ UNCHANGED <<storeVars, submitter, accessVars, faults>>

NextActivation(w) ==
  /\ Goto(w, "activating")
  /\ todo' = [todo EXCEPT ![w] = @ \ {job[w]}]
  /\ job' = [job EXCEPT ![w] = None]
  /\ UNCHANGED <<read, attempt, goal, flagVars>>

SchedulePending(w) ==
  /\ pc[w] = "scheduling"
  /\ IF status[job[w]] = "queued" THEN Activate(job[w]) ELSE UNCHANGED storeVars
  /\ NextActivation(w)
  /\ UNCHANGED <<submitter, facts, accessVars, faults>>

RefusePending(w) ==
  /\ pc[w] = "refusing"
  /\ IF job[w] \in activation /\ status[job[w]] = "queued"
     THEN FailActivation(job[w]) ELSE UNCHANGED storeVars
  /\ NextActivation(w)
  /\ UNCHANGED <<submitter, facts, accessVars, faults>>

\* Mutation: processNext no longer recovers expired leases.
SkipRecovery(w) ==
  /\ pc[w] = "activating" /\ todo[w] = {}
  /\ Goto(w, "fetching")
  /\ UNCHANGED <<storeVars, drainVars, claimVars, submitter, facts, accessVars, faults>>

Recover(w) ==
  /\ pc[w] = "activating" /\ todo[w] = {}
  /\ RecoverExpired
  /\ Goto(w, "fetching")
  /\ UNCHANGED <<drainVars, claimVars, submitter, facts, accessVars, faults>>

\* The worker goes on with the transitions as they are stored now.
FetchTransitions(w) ==
  /\ pc[w] = "fetching"
  /\ Goto(w, "draining")
  /\ read' = [read EXCEPT ![w] = staged]
  /\ UNCHANGED <<storeVars, todo, claimVars, submitter, facts, accessVars, faults>>

\* Mutation: the fetched transition is acknowledged without its fact.
SkipFetched(w) ==
  /\ pc[w] = "draining"
  /\ \E j \in Job :
       /\ read[w][j] # NoTransition
       /\ Goto(w, "settling")
       /\ job' = [job EXCEPT ![w] = j]
  /\ UNCHANGED <<storeVars, drainVars, attempt, goal, flagVars, submitter, facts, accessVars, faults>>

\* recordTransition; a revoked repository's refusal is swallowed.
RecordFetched(w) ==
  /\ pc[w] = "draining"
  /\ \E j \in Job :
       /\ read[w][j] # NoTransition
       /\ Goto(w, "settling")
       /\ job' = [job EXCEPT ![w] = j]
       /\ IF Revoked(j) THEN UNCHANGED facts
          ELSE Append(<<Kind(read[w][j].status), j, read[w][j].lease>>)
  /\ UNCHANGED <<storeVars, drainVars, attempt, goal, flagVars, submitter, accessVars, faults>>

AcknowledgeFetched(w) ==
  /\ pc[w] = "settling"
  /\ IF MayAcknowledge(job[w]) THEN AcknowledgeTransition(job[w]) ELSE UNCHANGED storeVars
  /\ Goto(w, "draining")
  /\ read' = [read EXCEPT ![w] = [@ EXCEPT ![job[w]] = NoTransition]]
  /\ job' = [job EXCEPT ![w] = None]
  /\ UNCHANGED <<todo, attempt, goal, flagVars, submitter, facts, accessVars, faults>>

Drained(w) == pc[w] = "draining" /\ read[w] = NothingRead

ClaimJob(w) ==
  /\ Drained(w)
  /\ \E j \in due, deferred \in SUBSET Contended :
       /\ Claim(j, deferred)
       /\ Goto(w, "starting")
       /\ job' = [job EXCEPT ![w] = j]
       /\ attempt' = [attempt EXCEPT ![w] = attempts[j] + 1]
  /\ UNCHANGED <<drainVars, goal, flagVars, submitter, facts, accessVars, faults>>

ClaimNone(w) ==
  /\ Drained(w)
  /\ ClaimNothing
  /\ Return(w)
  /\ UNCHANGED <<submitter, facts, accessVars, faults>>

-----------------------------------------------------------------------------
(* processNext, with a claim                                               *)

\* Mutation: attempts > maxAttempts instead of attempts >= maxAttempts.
LateExhaustion(w, retryable) ==
  IF attempt[w] > MaxAttempts \/ ~retryable THEN "failed" ELSE "retrying"

\* line 197: what a failed attempt ends in
FailureGoal(w, retryable) ==
  IF attempt[w] >= MaxAttempts \/ ~retryable THEN "failed" ELSE "retrying"

Stop(w, g) == Goto(w, "staging") /\ goal' = [goal EXCEPT ![w] = g]

\* Mutation: the review starts without waiting for its fact.
StartUnrecorded(w) ==
  /\ pc[w] = "starting"
  /\ Goto(w, "running")
  /\ UNCHANGED <<storeVars, drainVars, claimVars, submitter, facts, accessVars, faults>>

RecordStarted(w) ==
  /\ pc[w] = "starting"
  /\ IF Revoked(job[w])
     THEN Stop(w, "refused") /\ UNCHANGED facts
     ELSE Goto(w, "running") /\ UNCHANGED goal /\ Append(<<"started", job[w], attempt[w]>>)
  /\ UNCHANGED <<storeVars, drainVars, job, attempt, flagVars, submitter, accessVars, faults>>

\* Mutation: assertActive looks at the flag only and renews nothing.
AssertFlag(w) == ~leaseLost[w] /\ UNCHANGED storeVars

\* assertActive when it confirms the lease, and when it throws ReviewLeaseLostError.
AssertActive(w) == ~leaseLost[w] /\ Renew(job[w], attempt[w])
LosesLease(w) == (leaseLost[w] \/ ~MayRenew(job[w], attempt[w])) /\ UNCHANGED storeVars

\* The timer's assertActive only leaves its verdict behind.
Heartbeat(w) ==
  /\ pc[w] \in InClaim /\ ~leaseLost[w]
  /\ \/ /\ AssertActive(w) /\ UNCHANGED leaseLost
        /\ unanswered' \in {unanswered, [unanswered EXCEPT ![w] = TRUE]}
     \/ LosesLease(w) /\ leaseLost' = [leaseLost EXCEPT ![w] = TRUE] /\ UNCHANGED unanswered
  /\ UNCHANGED <<pc, drainVars, job, attempt, goal, submitter, facts, accessVars, faults>>

\* runReview renews before every effect on GitHub; this is the publishing one.
ConfirmBeforePublish(w) ==
  /\ pc[w] = "running"
  /\ \/ AssertActive(w) /\ Goto(w, "publishing") /\ UNCHANGED <<drainVars, claimVars>>
     \/ LosesLease(w) /\ Return(w)
  /\ UNCHANGED <<submitter, facts, accessVars, faults>>

Publish(w) ==
  /\ pc[w] = "publishing"
  /\ Goto(w, "finishing")
  /\ UNCHANGED <<storeVars, drainVars, claimVars, submitter, facts, accessVars, faults>>

RunFails(w, retryable) ==
  /\ pc[w] \in {"running", "publishing"}
  /\ Stop(w, FailureGoal(w, retryable))
  /\ UNCHANGED <<storeVars, drainVars, job, attempt, flagVars, submitter, facts, accessVars, faults>>

ConfirmAfterRun(w) ==
  /\ pc[w] = "finishing"
  /\ \/ AssertActive(w) /\ Stop(w, "completed") /\ UNCHANGED <<drainVars, job, attempt, flagVars>>
     \/ LosesLease(w) /\ Return(w)
  /\ UNCHANGED <<submitter, facts, accessVars, faults>>

\* A refused start is staged as failed and not recorded.
Staged(w) == IF goal[w] = "refused" THEN "failed" ELSE goal[w]
AfterStaging(w) == IF goal[w] = "refused" THEN "acking" ELSE "recording"

\* Mutation: the answer of stageTransition is ignored.
StageRegardless(w) ==
  /\ pc[w] = "staging"
  /\ \/ StageTransition(job[w], attempt[w], Staged(w))
     \/ ~MayStage(job[w], attempt[w]) /\ UNCHANGED storeVars
  /\ Goto(w, AfterStaging(w))
  /\ UNCHANGED <<drainVars, claimVars, submitter, facts, accessVars, faults>>

Stage(w) ==
  /\ pc[w] = "staging"
  /\ \/ /\ StageTransition(job[w], attempt[w], Staged(w))
        /\ Goto(w, AfterStaging(w))
        /\ UNCHANGED <<drainVars, claimVars>>
     \/ /\ ~MayStage(job[w], attempt[w])
        /\ Return(w)
        /\ UNCHANGED storeVars
  /\ UNCHANGED <<submitter, facts, accessVars, faults>>

\* Only the completed path survives the ledger's refusal; after the others the
\* call rejects and the staged transition waits for a later drain.
RecordOutcome(w) ==
  /\ pc[w] = "recording"
  /\ \/ /\ ~Revoked(job[w])
        /\ Append(<<Kind(goal[w]), job[w], attempt[w]>>)
        /\ Goto(w, "acking") /\ UNCHANGED <<drainVars, claimVars>>
     \/ /\ Revoked(job[w]) /\ goal[w] = "completed"
        /\ Goto(w, "acking") /\ UNCHANGED <<drainVars, claimVars, facts>>
     \/ /\ Revoked(job[w]) /\ goal[w] # "completed"
        /\ Return(w) /\ UNCHANGED facts
  /\ UNCHANGED <<storeVars, submitter, accessVars, faults>>

AcknowledgeOutcome(w) ==
  /\ pc[w] = "acking"
  /\ IF MayAcknowledge(job[w]) THEN AcknowledgeTransition(job[w]) ELSE UNCHANGED storeVars
  /\ Return(w)
  /\ UNCHANGED <<submitter, facts, accessVars, faults>>

\* Any await may throw, and the invocation may be killed, at any point.
Crash(w) ==
  /\ pc[w] # "idle"
  /\ faults < MaxFaults
  /\ faults' = faults + 1
  /\ Return(w)
  /\ UNCHANGED <<storeVars, submitter, facts, accessVars>>

\* A renewal that throws is taken for a lost lease.
RenewThrows(w) ==
  /\ pc[w] \in InClaim /\ ~leaseLost[w]
  /\ faults < MaxFaults
  /\ faults' = faults + 1
  /\ leaseLost' = [leaseLost EXCEPT ![w] = TRUE]
  /\ UNCHANGED <<storeVars, pc, drainVars, job, attempt, goal, unanswered, submitter, facts,
                 accessVars>>

\* A heartbeat's answer that other calls have overtaken: the flag says that the
\* lease is held, whatever they were told.
LateAnswer(w) ==
  /\ pc[w] \in InClaim /\ unanswered[w]
  /\ unanswered' = [unanswered EXCEPT ![w] = FALSE]
  /\ leaseLost' = [leaseLost EXCEPT ![w] = FALSE]
  /\ UNCHANGED <<storeVars, pc, drainVars, job, attempt, goal, submitter, facts, accessVars,
                 faults>>

-----------------------------------------------------------------------------
\* An effect takes less time than the lease its confirmation just renewed.
Lapse(j) ==
  /\ \A w \in Worker : ~(pc[w] = "publishing" /\ job[w] = j /\ attempt[w] = lease[j])
  /\ LeaseLapses(j)
  /\ UNCHANGED <<workerVars, submitter, facts, accessVars, faults>>

Tick(j) ==
  /\ BecomesDue(j) \/ LocksExpire(j)
  /\ UNCHANGED <<workerVars, submitter, facts, accessVars, faults>>

Proceed(w) ==
  \/ Begin(w) \/ ActivatePending(w) \/ SchedulePending(w) \/ RefusePending(w)
  \/ Recover(w) \/ FetchTransitions(w) \/ RecordFetched(w) \/ AcknowledgeFetched(w)
  \/ ClaimJob(w) \/ ClaimNone(w)
  \/ RecordStarted(w) \/ ConfirmBeforePublish(w) \/ Publish(w)
  \/ \E retryable \in BOOLEAN : RunFails(w, retryable)
  \/ ConfirmAfterRun(w) \/ Stage(w) \/ RecordOutcome(w) \/ AcknowledgeOutcome(w)

Next ==
  \/ \E w \in Worker : Proceed(w) \/ Heartbeat(w) \/ Crash(w)
                         \/ RenewThrows(w) \/ LateAnswer(w)
  \/ \E j \in Job : Enqueue(j) \/ EnqueueRecord(j) \/ EnqueueActivate(j) \/ EnqueueFails(j)
  \/ \E j \in Job : Lapse(j) \/ Tick(j)
  \/ \E r \in Revocable : RevokeAccess(r) \/ RestoreAccess(r)

Spec == Init /\ [][Next]_vars

\* The wake schedule and the daily cron keep calling the worker, an invocation
\* that is not killed runs on, and time passes.
Fairness ==
  /\ \A w \in Worker : WF_vars(Proceed(w))
  /\ \A j \in Job : WF_vars(Lapse(j)) /\ WF_vars(Tick(j))

FairSpec == Spec /\ Fairness
-----------------------------------------------------------------------------
(* Each worker is at a point of processNext with the locals it has there.  *)
TypeOK ==
  /\ StoreTypeOK
  /\ pc \in [Worker -> Pc]
  /\ todo \in [Worker -> SUBSET Job]
  /\ read \in [Worker -> [Job -> Transition \cup {NoTransition}]]
  /\ job \in [Worker -> Job \cup {None}]
  /\ attempt \in [Worker -> 0 .. MaxAttempts]
  /\ goal \in [Worker -> Goal]
  /\ leaseLost \in [Worker -> BOOLEAN] /\ unanswered \in [Worker -> BOOLEAN]
  /\ submitter \in [Job -> {"none", "recording", "scheduling"}]
  /\ facts \subseteq {"queued", "started", "retry_scheduled", "completed", "failed"}
                     \X Job \X (0 .. MaxAttempts)
  /\ revoked \subseteq purged /\ purged \subseteq Repository
  /\ faults \in 0 .. MaxFaults

Kept(j) == RepositoryOf[j] \notin purged

(* The ledger leads the queue: a job becomes claimable only once its       *)
(* review.queued fact is durable, whichever of the submitter and the       *)
(* workers activated it, and a worker produces effects only once its       *)
(* review.started fact is (review-queue.ts:187, 240-244).                  *)
FactsBeforeWork ==
  /\ \A j \in Job : Kept(j) /\ (j \in scheduled \/ attempts[j] > 0) => <<"queued", j, 0>> \in facts
  /\ \A w \in Worker :
       pc[w] \in {"running", "publishing", "finishing"} /\ Kept(job[w])
         => <<"started", job[w], attempt[w]>> \in facts

(* The ledger never contradicts the queue: an outcome fact is the outcome  *)
(* the queue has given, or has staged and will give, to that very attempt, *)
(* so no attempt ever has two outcomes in the ledger (review-queue.ts:155- *)
(* 164, 207-213, 223-230).                                                 *)
LedgerMatchesQueue ==
  \A f \in facts : f[1] \in {"retry_scheduled"} \cup Terminal =>
    LET j == f[2]
        a == f[3] IN
    \/ staged[j].lease = a /\ Kind(staged[j].status) = f[1]
    \/ attempts[j] = a /\ Kind(status[j]) = f[1]
    \/ attempts[j] > a /\ f[1] = "retry_scheduled"

(* The ledger has no gaps: an outcome takes effect in the queue only once  *)
(* its fact is durable, so a retrying job is claimable and a settled job   *)
(* is final only with every earlier outcome on record (ADR-0001; the tests *)
(* at review-queue.test.ts:172 and :389 say so of a recovered attempt).    *)
OutcomesAreRecorded ==
  \A j \in Job : Kept(j) =>
    /\ status[j] \in Outcome => <<Kind(status[j]), j, attempts[j]>> \in facts
    /\ \A a \in 1 .. attempts[j] - 1 : <<"retry_scheduled", j, a>> \in facts

BeingRecorded(j) ==
  \E w \in Worker : pc[w] = "recording" /\ job[w] = j /\ attempt[w] = attempts[j]

(* ADR-0001: lease recovery keeps a pending-delivery record until Postgres *)
(* accepts the retry fact, so a retry that no live worker is recording is  *)
(* claimable only with its fact in the ledger.                             *)
RecoveryWaitsForLedger ==
  \A j \in Job : Kept(j) /\ status[j] = "retrying" /\ ~BeingRecorded(j)
    => <<"retry_scheduled", j, attempts[j]>> \in facts

(* Two workers never produce effects for the same installation or          *)
(* repository at once: a confirmed lease fences every other worker off     *)
(* (review-queue.ts:170-179, reviewer.ts:80-137).                          *)
EffectsAreExclusive ==
  \A v, w \in Worker :
    v # w /\ pc[v] = "publishing" /\ pc[w] = "publishing"
      => LocksOf(job[v]) \cap LocksOf(job[w]) = {}

Superseded(w) ==
  \/ lease[job[w]] # attempt[w]
  \/ staged[job[w]] # NoTransition

(* The same, of workers whose attempt the queue has not yet given up on:   *)
(* while it is theirs, whatever lapses, recovers or is claimed meanwhile,  *)
(* the two locks keep every other such worker off their scope.             *)
CurrentEffectsAreExclusive ==
  \A v, w \in Worker :
    v # w /\ pc[v] = "publishing" /\ pc[w] = "publishing" /\ ~Superseded(v) /\ ~Superseded(w)
      => LocksOf(job[v]) \cap LocksOf(job[w]) = {}

(* The workers are clients the store's own properties allow for: every     *)
(* step they take is a step of the store, and none stages a retry for the  *)
(* last attempt (review-queue.ts:197).                                     *)
StoreRespected == StoreSpec

(* Every accepted job is settled in the end, whichever worker or submitter *)
(* dies and however leases, locks and deferrals fall                       *)
(* (review-queue.ts:144-238, README.md:33).                                *)
JobsSettle ==
  \A j \in Job : status[j] = "queued" ~> status[j] \in Terminal

(* "Retrying jobs are never stranded" (README.md:33), of jobs whose own    *)
(* facts the ledger accepts.                                               *)
RetriesAreNeverStranded ==
  \A j \in Job \ Poisoned : status[j] = "retrying" ~> status[j] # "retrying"
=============================================================================
