# Ternary review agent: verification project

TLA+ models of the review agent in this repository, the TLC runs that check them
on small instances, and the TLAPS proofs that hold for every instance.
`PROJECT.json` is the index: components, runs, mutants of the code, the source
lines of every definition, findings, hazards and theorems. Paths there start at
`src/`, the root of the repository; below, file names are those of `src/lib` and
of `cli/src`.

## The system

A GitHub App. Webhooks, the dashboard and an API submit a review of a pull
request; a Redis queue stores the job; a serverless worker route claims it, runs
checks in a sandbox, asks a model, and publishes a comment, inline comments and a
check run; every step of a job's life is recorded as an immutable fact in a
Postgres ledger. A second, synchronous endpoint reviews an uncommitted workspace
sent by a CLI.

| Component | State | Operations | What is hard |
|---|---|---|---|
| Queue store (`redis-review-queue-store.ts`) | job records, sorted sets *scheduled*, *active*, *activation-pending*, *transition-pending*, *terminal*, one lock per installation and repository, idempotency aliases | ten Lua scripts | each script trusts what the others left: `claim` looks at neither status nor attempts, `acknowledge` applies whatever is staged now |
| Worker protocol (`review-queue.ts`) | the locals of every `processNext` in flight: fetched activations and transitions, claim, `leaseLost` | `enqueue`, `processNext`, heartbeat | every `await` is a point where another worker, the clock, a crash or a revocation comes in |
| Submission and guard (`active-review-submission.ts`, `active-review-guard.ts`) | one owner per pull request head, with a TTL | claim, attach, takeover, release | the guard and the job are two records changed one after the other |
| Wake cycle (`review-worker-cycle.ts`, dispatch guard, backoff, schedule) | empty-cycle count, daily dispatch count, cooldown, wakes under way | wake of a submission, self-wake after each cycle, recurring wake | a lost wake, a counter without expiry, two invocations that both believe the other will wake |
| Review pipeline (`reviewer.ts`, `sandbox.ts`, `github.ts`, route, provider, policy execution) | the invocation's remaining time, the sandbox's results, GitHub's check runs and comments | evidence, model cascade, verdict, publish by upsert, fenced by `assertActive` | budgets split over steps that may hang; two attempts publish for one head; a push meanwhile |
| Event ledger (`*review-event-ledger.ts`, `review-event-recorder.ts`) | facts keyed by idempotency key, access marks per scope | append, list, delete and restore a scope | equal keys with different facts, access changes out of order |
| Finding lifecycle and feedback (`finding-lifecycle.ts`) | none of its own: a projection of the facts | record a review, a head change, feedback; project | derived facts are appended after what they were derived from changed |
| Repository index and access transitions | index records, three stores' access marks | revoke and restore, verified against GitHub before and after | tasks that overlap, come late or twice, and fail between two stores |
| Webhooks and delivery audit | delivery records | parse, dispatch, audit | redelivery, reruns |
| Review policy | versioned policies, access marks | resolve, update | concurrent updates |
| Workspace endpoint (`workspace-review-gate*.ts`, `workspace-review-route.ts`, `workspace-analysis.ts`, `workspace-payload-validation.ts`) | rate and slot counters per principal; the timers and the stream of an analysis | authenticate, enter the gate, validate, analyse, release | counters that expire under a request, lost replies, three timers racing one stream |
| Budget, alerts, audit, dashboards, evals | projections and cooldowns | read mostly | none that feeds back |
| CLI (`cli/src`) | a captured change set | capture, exclude, cap, confirm, transmit, exit | the workspace changes while it is read; what is confirmed must be what is sent |
| Ratchet hooks, UI | none of this protocol's | | |

Calls between them: webhook, dashboard and API call *submission*, which takes the
guard, calls `enqueue` and publishes a wake; the worker route calls
`processNext`, which calls the store, the ledger (through
`createReviewEventLifecycle`) and the pipeline; an acknowledged terminal job calls
back into the guard; the route then publishes its next wake; access transitions
change index, ledger and policies, and the worker meets them as a refused append.
The CLI shares with this only the model provider; its request passes
authentication, gate, validation and analysis in one HTTP call.

## Modules

| Module | Models | Checked by |
|---|---|---|
| `ReviewJob` | what the queue promises of a job: the status machine, one outcome per attempt, the attempt limit, exclusive holders of an installation and a repository | refinement, below |
| `ReviewQueueStore` | the Lua scripts, one atomic action each, and what expiry does to the keys | `store`; `ReviewQueueProofs` |
| `ReviewQueue` | `enqueue` and `processNext` over that store and the ledger, one action per await | `two_workers`, `faults`, `one_worker`, three violation runs; `ReviewQueueProofs` |
| `ReviewSubmission` | the calls that submit a review of one head, over the guard and the idempotency aliases | `requests`; `ReviewSubmissionProofs` |
| `WorkerWake` | wakes and self-wakes of the worker route | `components`; `WorkerWakeProofs` |
| `ReviewGeneration` | how an attempt spends its invocation: claim, sandbox, cascade, verdict | `components`; `ReviewPipelineProofs` |
| `ReviewPublication` | what attempts write on GitHub | `components`; `ReviewPipelineProofs` |
| `FindingLifecycle` | the projection of findings and the recorder that feeds it | `components`, `reaction_outlived` |
| `AccessTransitions` | the tasks that revoke and restore access over three stores | `components`; `AccessTransitionsProofs` |
| `WorkspaceReviewGate` | the abuse gate and the requests that pass through it | `requests`, `gate_ceiling`; `WorkspaceReviewGateProofs` |
| `WorkspaceAnalysis` | one analysis: attempts, timers, transport and stream | `requests`, `late_deadline`; `WorkspaceAnalysisProofs` |
| `WorkspaceAnswer` | second redaction, prompt, request, and what is kept of the answer | `components`; `WorkspaceAnalysisProofs` |
| `WorkspacePayload` | the CLI's exclusion pipeline and caps, the server's validation and caps | `components`; `WorkspaceClientProofs` |
| `WorkspaceCapture` | the CLI's three enumerations over Git | `components`; `WorkspaceClientProofs` |
| `VerifiedRead` | reading one captured file while its path changes | `components`; `WorkspaceClientProofs` |
| `WorkspaceSubmit` | one `ternary review` from collection to exit code, with the handler | `components`; `WorkspaceClientProofs` |

`ReviewQueueStore` implements `ReviewJob` (`PromiseKept`, with the jobs that hold
both locks as `holders`), and `ReviewQueue` implements `ReviewQueueStore`
(`StoreRespected`): a worker is one client among those the store allows for. What
is proved of the store thus applies to the queue.

`MCRequests` and `MCComponents` put modules that share no state side by side: `Init`
chooses which one a behaviour is about and the others stand still, so that one run
checks each in all its behaviours and never their product. What couples these
components in the code is an input of each model, named in its section.
`MCReviewQueue`, `MCReviewQueueStore`, `MCFindingLifecycle` and `MCWorkspaceReviewGate`
instantiate one module each; `MCWorkspacePayload` holds the candidates of the payload's instance.

### ReviewQueueStore

`status`, `attempts` and `lease` are fields of the job record; `scheduled`,
`active`, `activation` and `terminal` are the sorted sets; `staged` is the
`transition:<id>` key together with its entry in *transition-pending*, which the
scripts always write and delete together; `lock` is both families of lock keys.

Time is not a number. The scripts ask one thing of a score or expiry, whether it
is past, and that is what `due`, `lapsed` and `loose` hold:

- `BecomesDue`, `LeaseLapses` and `LocksExpire` let a time pass at any moment.
- A lock is set with `PX leaseMs`, counted from the moment the script runs, while
  `leaseExpiresAt` counts from the `now` that `processNext` read before it drained
  (`review-queue.ts:153`). So until the first renewal the locks outlive the lease;
  a job is `loose` while they do. A renewal sets all three to the same instant.
  `ClaimDelay = FALSE` leaves that gap out.
- A lease id is a fresh UUID per claim and a claim increments `attempts`, so the
  attempt number stands for the lease id.
- The clocks of the workers and of Redis are taken to agree.

The 100 and 250 entry limits of the index reads are not reached and not modelled.

### ReviewQueue

`pc[w]` names the await an invocation is at, the other per-worker variables its
locals. `Begin` to `AcknowledgeFetched` are the part before the claim, `ClaimJob`
to `AcknowledgeOutcome` the part after; `Return` is every way out. `Crash` merges a
killed invocation with an await that throws, because both leave the same state;
`RenewThrows` is the one failure the code turns into something else (a lost lease).
`facts` is the ledger reduced to `<<kind, job, attempt>>`; the requested and queued
facts of an activation are one append, and `Poisoned` jobs are those whose
`review.requested` key an earlier submission used for another fact, so that the
ledger answers with a conflict. `RevokeAccess` deletes a repository's facts, as
`deleteScope` does; `purged` remembers that, because properties about completeness
say nothing of deleted facts.

Of `runReview` the model keeps one confirmed effect per attempt; the rest is
`ReviewGeneration` and `ReviewPublication`. `Lapse` does not
fire while the effect of a just-confirmed lease is in flight: a GitHub call is
bounded by 15 or 30 s and the renewal grants 6 minutes. Without this assumption no
lease protocol excludes two effects. Calls of
`assertActive` share the flag `leaseLost`: a heartbeat whose renewal the store granted
may be `unanswered` while other calls overtake it, and its `LateAnswer` then sets the
flag back to false, whatever a later renewal found. `CurrentEffectsAreExclusive` and the
outcome properties hold all the same, because the store checks the lease again at every
confirmation and at `stageTransition`: the flag only saves calls.

### ReviewSubmission

One pull request head: heads share neither a guard key nor an idempotency key.
`guard` is the guard's value, a submission id for `claim:<id>` and a job for
`job:<id>`; `pc[c]` is the await at which a call of `submitActiveReview` stands, and
`job[c]` what `enqueue` returned to it. Two calls with one submission id are a
redelivery: the second finds its own owner in the guard, goes on, and does not move
the TTL, so `setter` remembers whose time runs. `ClaimExpires` waits for that call only:
the claim lives six minutes and a route five.
`Reuse` and `CreateNew` are the two ways through `createScript`; the branch that
deletes an alias without a record needs thirty days and is left out, and so is the
branch after a refused `SET NX`, which the loop before it excludes.
A job is reduced to its status: `Advance` and `Settle` are the workers, which
`ReviewQueue` models; `Settle` from *queued* is a failed activation, which does not
report to `onTransitionsAcknowledged`.

An `enqueue` that throws after `create` gives the claim back while its job is still
going to be activated, and a rerun, which has other keys, then makes a second live
job for the head. `CoalescedUnlessFailed` says that this takes a failure, and
`AttachedHoldsGuard` that even then only one of them is attached.

### WorkerWake

`wakes` are published messages of QStash, a set of delivery times; `cycle[c]` is
where a worker invocation stands between draining and publishing its next wake;
`published`, `cooldown` and `permits` are the dispatch guard's counter with its
expiry, its cooldown key, and a history count of what it let pass. The queue is
reduced to where a job is (*arriving*, *waiting* until `due`, *running*, in a staged
transition) and `ReadNextWake` is `nextWakeAt`, which sees the scheduled and active
sets only. `JobsAreWoken` says that while no wake was refused, failed or lost with
its caller, each job has a wake on its way in time; the exception is what the
schedule is there for. `INCR` and `EXPIREAT` are two steps: a crash between them
leaves a counter that never resets (`review-worker-dispatch-guard.ts:54`), after which
only the schedule wakes the worker. `SelfWakesAreBudgeted` says that this is the only way:
whatever else fails, and wherever, a count has the next midnight for its expiry
or an invocation that is about to set it. `orphaned` remembers a failure between the two.

### ReviewGeneration

Time is counted from the start of the invocation, in units of the constants. An
attempt is claimed only with `DrainReserve` left (`ClaimReview`), makes its calls to
GitHub (`SetUp`), collects evidence while the repository's context is gathered next
to it (`contextAt`), asks the models of its `Chain` in turn and decides. `Spans`
is what a call with a timeout may take: one of `Duration`, or all of the timeout.
The sandbox is modelled step by step: the plan, the probe for a `package.json`, each
command's exit code, a sandbox that breaks (`StepThrows`), plans with commands that
no longer fit. `Role`, `Primary`, `Chain` are the route selector, `AttemptBudget` the
slice of a model, `Verdict` the policy applied to the result, `Decide` the check
run's title. A `Subject` says of the review and the deployment what the code
branches on.

The timeouts are taken as enforced by `fetch` and the SDK; SDK calls that have none
(`updateNetworkPolicy`, `output`, `stop`) as instantaneous. `SetUpCap` is what the
comment on the drain reserve allows for. A configured command that is literally named
`build` is dropped by `skipBuild` in the code; the model drops the usual build only.

### ReviewPublication

`line[a]` is the request attempt `a` is at; `checks`, `summaries` and `comments` are
what GitHub holds. Any request may fail before or after it took effect
(`RequestFails`), an attempt may crash, the lease may be lost while its holder runs on
(`overtaken`), and a push may move `prHead` between any two requests. `seen` is what
an attempt listed; `todo` are the requests it planned for each finding: reuse, resolve,
reopen, post at the line and, refused, at the file (`refused`). Earlier reviews' leftovers are in
`PubInit`. `late` counts what an attempt changed after the head moved on, `undisturbed`
whether anything but itself touched GitHub during its sync. Two reviews and one finding
are enough for every pair of moves; each finding has requests of its own.

### FindingLifecycle

`ledger` is kept in the order the projection sorts it: by the time an event was given,
then by the sequence number its append got. `Project` is `projectFindingLifecycles`, event
type by event type. An event is dated before its append is awaited, or with the completion
of its job, so `Happens` lets it land with any time: behind events recorded
meanwhile, too. The recorder's awaits are steps of their own: the append of an event
(`RecordCompleted`, `RecordHeadChanged`, `RecordFeedback`), the listing of the ledger, from
which the states to record are projected (`ListEvents`), and the append of each such fact
(`AppendFact`), once per idempotency key. Facts decided and not yet appended wait
in `unrecorded`; an invocation that dies leaves them there, a delivery that is repeated or a
job that is taken over decides once more (`repeats`). Facts of replies, threads and
reactions that are there are decided without a listing. Deliveries come in any order.

`DismissalsStand` says what holds in all of this: a dismissing reaction until it is removed,
whatever is recorded when; a maintainer's last decision to dismiss against every later
review, head change and reaction. `Knew` is its one exception, a fact that is replayed after
it, from a recorder that had not listed the dismissal (see *Divergences*). `MaxEvents`
counts events that are no facts. The decisions `dismissed`, `resolved` and `reopened` are
those of the recorder's interface: of these the webhooks send `resolved` and `reopened`
today, and dismiss by a reaction.

### AccessTransitions

GitHub's grants change (`granted`, `githubTime`), each change is announced, and a
`task` is one delivery of an announcement, which looks at GitHub, changes index,
ledger and policies in turn (`steps`), looks again and undoes or finishes. `marks` is the state
and timestamp each store keeps per scope; `IndexTakes`, `LedgerTakes` and
`PolicyTakes` are their three rules. Tasks overlap, come late and twice, and a task of
which a step failed is delivered again from its beginning. `history` remembers the
situations `AccessConverges` makes an exception for; they are real and listed under
*Divergences*: the repository's access changed while its installation was suspended
(*lost*), and, when two tasks overlapped, a change during a task's last steps (*raced*) or a
restoring task that gave up, because it saw another change when it was retried or because the
index refused one of its activations, in the first plan or after the second look (*gaveUp*).
The last of these was found by the proof: with three tasks no state shows it, with four
tasks and four changes TLC does.

### WorkspaceReviewGate

`slots` is the concurrency counter with Redis's arithmetic: `DECR` of a missing key
leaves -1 without a TTL, `INCR` sets the TTL only when it returns 1. `timed` are the
requests that were in the gate when the TTL was set; the TTL (210 s) exceeds the
deadline (180 s), so `Expire` waits for them, except, with `SlowBody`, for a request
whose body is still arriving, because the deadline does not interrupt
`readBoundedBody`. `leaked` and `wiped` are history, used only by properties. The
rate counter saturates above its limit, which is all that is compared; a new window
is a new key.

### WorkspaceAnalysis

A discrete clock and three timers that race one stream: the end-to-end deadline,
armed after the prompt is built, the budget of the attempt in flight and the stall
window since the last data frame. A timer that is due fires before time passes
(`TimePasses`), which is what an event loop with prompt callbacks does; the attempt's
rejection is classified as in the code's race, whichever rejection came first.
`acc` is the `StreamAccumulator`, `pending` the error that leaves the transport
only once the body is cancelled. The provider is free: it may stall, keep the socket warm with
comments, break a frame, send an error, end without announcing it, or never answer.
`wire` is history: what was really on the wire, for the properties.

### WorkspaceAnswer, WorkspacePayload, WorkspaceCapture, VerifiedRead, WorkspaceSubmit

`WorkspaceCapture` has Git's records as relations between HEAD, index and worktree, with
conflicts, renames that leave the root or enter a nested repository, and the developer
staging a path between `git status` and `git diff-index`. `VerifiedRead` is one file read by
path, one system call per action, while the developer replaces the file, its directory, or
links it; identities are numbered and do not come back, the risk `capture.ts` accepts.
`WorkspacePayload` takes one capture from the exclusion rules to what the server analyses,
with the loops of the code as steps: `Classify` (rules, shape, bytes read, rename origins),
`Spend` once per file (in path order for changes, in order of priority for a snapshot),
`Assemble` (the manifest and its cap), `DropLastContent` until the payload fits, `Transmit`,
`Admit` (validation), `ApplyCaps` once per entry and `Analyse`. Text is its length, `spent`
the running total of whoever is counting. A cut may fall between the two halves of a
character, which `RefuseSplit` answers as `serializeValue` does. `CandidateAssumption` is
what `capture.ts` emits: an origin on a renamed file, or on a modified one, when the new
path of a staged rename was in HEAD all the same (`capture.ts:492-499`). The check of
`finalizeFrom` then refuses the whole capture (`leaked`), which is not excluded by
`CollectedPayloadsAreAccepted`: it says that this check lets nothing pass that the server's
validation rejects. `CapsAssumption` says that the changeset cap is no larger than the file
cap, as in `DEFAULT_CAPS`. `WorkspaceSubmit` is the command: dry run, prompt with its
timeout, interrupt at any moment, a slow or breaking network, the handler with its two token
slots, and the mapping of what happened to the exit code. `WorkspaceAnswer` follows findings
with escaping, renamed or foreign paths from the model's answer to the result. Secret
patterns, the deny rules' text, path encoding and rendering are data these models abstract.
`FindingsAreAccountedFor` also compares the two counts of what was left out, by path and by
threshold, with the findings left out.

## Runs

| Run | Instance | Shows |
|---|---|---|
| `store` | 3 jobs, 2 installations, 2 repositories, chosen so that one pair of jobs shares each; 2 attempts | `StoreTypeOK`, `NotStranded`, `ScheduledIsClaimable`, `StagedMatchesAttempt`, `LeaseHoldsLocks`, `LocksAreOwned`, and the refinement of `ReviewJob` |
| `two_workers` | 2 workers, 2 jobs in one scope, no faults | `FactsBeforeWork`, `CurrentEffectsAreExclusive` |
| `faults` | 2 workers, 1 job, one fault, access revoked and restored at will | `LedgerMatchesQueue`, and the refinement of the store |
| `one_worker` | 1 worker, 2 jobs, one fault, fairness | `OutcomesAreRecorded`, `JobsSettle` |
| `requests`, submission | 4 calls (a webhook, its redelivery, two deliveries of one rerun), 2 jobs, one fault, fairness | `AttachedHoldsGuard`, `CoalescedUnlessFailed`, `RedeliveriesShareTheJob`, `HeadIsFreed` |
| `requests`, gate | 3 requests, 2 slots, 3 requests per window, 2 faults, slow bodies, fairness | `SlotsAreAccounted`, `CeilingHoldsUntilExpiry`, `LeaksAreRecovered` |
| `requests`, analysis | deadline 6, attempt budget 3, reserve 1, stall window 2, 2 providers, streaming or not, fairness | `OnlyCompleteAnswersPublished`, `QuietStreamsAreGivenUp`, `TimeoutsAreReal`, `RetryIsEarned`, `AnalysisSettles` |
| `components`, publication | 2 attempts of 2 jobs on 2 heads, 1 finding, one fault | `StaleEffectsAreBounded`, `SummaryIsNotRepeated`, `SyncConverges` |
| `components`, generation | 6 subjects, limits in proportion to the code's, claims at 0, 60, 65, 85 of 96, calls that take 0, 20 or their whole timeout | `BudgetIsKept`, `VerdictIsEarned` |
| `components`, access | 3 tasks, 2 changes on GitHub, one fault | `AccessConverges` |
| `components`, wake | 2 invocations, 2 jobs, budget 2, time up to 2, one fault | `JobsAreWoken`, `SelfWakesAreBudgeted` |
| `components`, lifecycle | 2 findings, one superseding the other, 1 reaction, 3 events, one repeat | `DismissalsStand` |
| `components`, answer | 2 files, 2 keys, up to 2 findings | `FindingsAreAccountedFor` |
| `components`, capture | 3 paths, 2 contents, all three modes | `ChangesAreCaptured` |
| `components`, read | 4 changes of the path during one read | `ReadsStayInside` |
| `components`, payload | up to 3 files of 22 shapes; file, changeset and snapshot caps of 3, 2 files in a snapshot, 2 manifest lines, 8 bytes of payload | `ManifestTellsTheTruth`, `CollectedPayloadsAreAccepted` |
| `components`, submit | prompt timeout 2, client timeout 4, server deadline 2 | `ExitTellsWhatHappened` |
| `stale_acknowledgement` | 2 workers, 1 job, 3 attempts | finding 1 |
| `late_renewal` | 2 workers, 1 job, 2 attempts | finding 2 |
| `poisoned_activation` | 1 worker, 2 jobs, fairness | finding 3 |
| `gate_ceiling` | 3 requests, the default of 1 slot, one fault | finding 4 |
| `late_deadline` | deadline 7, attempt budget 3, a tick of preparation | finding 5 |
| `reaction_outlived` | 1 finding, 1 reaction, 3 events | finding 6 |

Bounds. Queue: `MaxAttempts` (the code's default is 3; with 2 both a retry and an
exhausted attempt occur, and 3 is used where the finding needs two recoveries),
`MaxFaults`, the number of workers, jobs and requests, the saturating rate
counter. Two workers are enough for every race between a claimant and the one it
replaces; the three jobs of `store` are needed for a job that conflicts with two
others that do not conflict with each other; in the submission two jobs are as many
as the calls' keys can ask for. Elsewhere: `MaxHead`, `MaxPubFaults`, `MaxGrantChanges`,
`MaxTaskFaults`, `MaxTime`, `MaxWakeFaults`, `MaxEvents`, `MaxRepeats`, `MaxFindings`, `MaxChanges`,
`MaxFiles`, `Preparation`, `ClaimAt`, `Duration` and the set of subjects and candidates.
The time limits of an instance keep the code's order and ratios, not its milliseconds;
`ClaimAt` straddles the last moment at which a job may be claimed. Three tasks make one
overtake another that is overtaken itself. The payload's caps are so small that, in some
behaviour, each of them cuts: a file over the file cap, a change and a snapshot file cut in
part and whole, a file too many, a manifest line too many, content dropped from the
end, a payload that is still too large, and, where redaction lengthens a text, an entry that the
server drops or cuts.

`components` is the largest run. It leaves out what another behaviour shows as well: a
fault takes the place of the last delivery, the second job or the second rerun;
a behaviour that `AccessConverges` excepts for good is not followed further;
threads that cannot be read are only
those of a pull request without comments. Of lifecycles it takes what can bear on the
dismissal of one finding (`AboutDismissals`): feedback and facts are about that finding, whose
projection those of the other one do not touch, and a review finds one of the two at most; a
behaviour of full length has a dismissal, or a reaction and two reviews, and a review with
authority; its times have no gap, and its heads differ only if a head change is among the
events; the fact of a reaction, which by itself changes no projection, is recorded where no
other is.
The theorems below have none of these bounds.

Symmetry is declared only in runs without liveness. Where liveness is checked, or where a
union of components makes it unsound, constraints of the MC module put equal things in one
order instead (`InOneOrder`, `AttemptsInOrder`, `TasksInOrder`, `WakesInOrder`): the second
of two jobs, deliveries or callers that differ in nothing but their names is used after the
first.

`CHECK_DEADLOCK FALSE` stands where a behaviour ends: a review that settled, a file
that was read, a command that exited.

Fairness. `FairSpec` of the queue gives each worker weak fairness on its own steps,
because an invocation that is not killed runs on and the wakes of `WorkerWake`, the recurring
schedule and the daily cron call the route again and again, and weak fairness on the
passage of time. Submitters have none: a submission that dies stays dead, and its job settles
because a worker finds the pending activation. The submission's `Fairness` lets a call
that has begun run on, the claim's TTL pass, and jobs settle, which is `JobsSettle` of
the queue; strong fairness because a running job may go back to *retrying*. The gate's
makes admitted and refused requests leave (the platform kills them after 300 s) and
the TTL pass; nothing says that a new request arrives. The analysis has fairness on
its own code, its timers and the clock, and none on the provider, the network or the
cancellation of a body: the review settles although they may never do anything.

## What is proved

Every theorem holds for any values of the constants that satisfy the named
assumptions of the modules it is about; TLC evaluates these assumptions in the runs.

`ReviewQueueProofs`, of the store, for any jobs, scopes and attempt limit
(`ScopeAssumption`, `MaxAttemptsAssumption`, `ClaimDelayAssumption`, `NoneAssumption`):

- `StoreInvariant`: the conjunction of all six invariants of run `store`, with
  three more, is inductive. `AttemptsCount` (a running job's lease is its
  attempt number), `RetryHasAttemptLeft` and `TerminalIsSettled` are needed because
  `claim` and `prune` check so little: that a scheduled job may be claimed
  follows from what every other script left behind, not from the claim.
- `StoreTypesHold`, `NoJobIsStranded`, `ClaimsAreSound`, `StagedOutcomesAreCurrent`,
  `LeasesAreExclusive` and `LocksFollowAttempts` follow from it, one for each part a
  reader may want.
- `StoreKeepsPromise`: every step of the store is a step of `ReviewJob` or leaves
  its variables alone.

The proof has one lemma per script, each split by the conjuncts the script can
disturb, then `StoreInvInductive`, then the temporal step.

The same module, of the protocol, for any number of workers, jobs, attempts and faults,
any poisoned jobs and any revocable repositories (besides those above
`PoisonedAssumption`, `RevocableAssumption`, `MaxFaultsAssumption`):

- `QueueInvariant`: `QueueInv` is inductive. To `StoreInv` and the properties of the
  runs it adds what the argument turns on. `AttemptsAreOwned`: no two workers are in
  one attempt, because a claim's attempt is new. `PublishingWithinLease`: the lease
  a publishing worker confirmed is unlapsed or no longer the record's; it holds
  because a lease that is gone never returns (`LeasesNeverReturn`).
  `ReadsAreGiven` and `GoalsAreGiven`: what a worker has read or staged is what the
  queue gives that attempt, and stays so however old the copy is
  (`GivenOutcomesStay`). `FactsBeforeActivation`: whoever is about to activate a job
  has stored its fact.
- `FactsComeFirst`, `LedgerAgrees` and `CurrentEffectsExclusive` follow: work and
  effects come after their facts, the ledger never contradicts the queue, and
  workers that publish in current attempts share no scope.
- `QueueRespectsStore`: every step is one the store allows; with `StoreKeepsPromise`
  this gives `QueueKeepsPromise`, that the protocol as a whole implements
  `ReviewJob`.
- `LedgerHasNoGaps`, for one worker (`OneWorker`, its hypothesis, says that invocations
  of the worker route do not overlap): every outcome has its fact before the queue
  shows it. `RecordInv` follows one outcome through the worker: a claim in
  hand is the record's latest (`ClaimsAreLatest`), a fetched transition is still the one that is
  staged (`ReadsAreCurrent`, what two workers break), what is being settled or
  acknowledged is on record or of a revoked repository (`SettlingIsRecorded`,
  `AckingIsRecorded`, `RefusedIsPurged`).

The proof has one lemma per part of the invariant. `StepIsClientStep` and `OthersStay`
are its frame: a step changes the store by one script, and the locals of one worker.

`ReviewSubmissionProofs` (`CallAssumption`, `OwnerAssumption`, `MaxFaultsAssumption`):
`AttachedJobHoldsGuard` for any calls, submission ids, keys, jobs and faults. The
invariant adds that whatever names a job names one that exists (`JobsExist`), that a
call takes over only from a settled job (`TakesFromSettled`, kept from `getJob` to the
takeover because a settled job stays settled), and that only settled jobs are released.
`RedeliveriesShare` and `OneLiveJob` need how `review-submission.ts` makes keys
(`RedeliveryAssumption`: a delivery always brings the same keys, and at least one;
`KeySharingAssumption`: sharing a key is transitive); without the second the
first is false. `KeysNameTheJob` ties every alias to the calls that brought its key. For
`OneLiveJob`, `LiveParts` says, while nothing fails, that the claim belongs to a call
that is busy with it (`ClaimIsHeld`), that what a call enqueued is under its first key
(`FirstKeyNames`), that a call which lost its claim finds there the job that has the
guard (`LateComersFindIt`), and that a live job has the guard, or the claim of a call
that will attach it (`LiveIsGuarded`, `BusyAgree`).

`WorkerWakeProofs` (`BudgetAssumption`, `BackoffAssumption`: the last backoff is the
longest; `DayAssumption`): `WakesStayInBudget`, because of the invocations that count only
the one that opened a day sets its expiry (`OneSetsTheExpiry`, `PermitsAreCounted`), which
nothing but its own failure keeps away (`ExpiryIsMidnight`); and `NoJobIsStranded`. Its
invariant is small: a job is in the hands of one invocation at most (`OneAtATime`,
`StagedIsHeld`). The argument is one lemma, `NothingLost`: when each wake or watcher that
was on time for a job leaves one that is, no job is lost; an invocation that reads
`nextWakeAt` plans for the least due time, which exists because `<` on the numbers is
well-founded (`FirstIsFirst`).

`WorkspaceReviewGateProofs` (`RequestAssumption`, `LimitAssumption`,
`SlowBodyAssumption`, `GateFaultsAssumption`): `SlotsAddUp` and `CeilingIsKept` for any
number of requests, slots and faults. The counter is compared with the cardinality of
the set of requests in the gate, so each action is a lemma about adding or
taking one element; `CounterIsBounded` ties the counter's lower bound to the requests that can
still decrement it, which an expiry would otherwise leave open.

`WorkspaceAnalysisProofs` (`AnalysisTimesAssumption`, `ProviderAssumption`): for any time
limits and providers, `PublishedIsComplete`, `SilenceIsBounded`, `TimeoutsAreTheDeadline`
and `RetriesAreEarned`. The invariant adds where the deadline's timer stands and that no
error of the transport is named like the deadline (`StagesFit`), that what the accumulator
remembers of an end was on the wire (`AnswersAreWhole`), that the stall clock stands where
the provider last made progress (`ClockIsTrue`), and that whoever failed attempt 1 is
ignored by attempt 2 (`FailedIsIgnored`). All ways an attempt fails go through one lemma,
`FailureKeeps`. The module also holds `AnswersAreAccountedFor` of `WorkspaceAnswer`
(`AnswerBoundsAssumption`, `FileAssumption`) for any files, findings and policies: a path is
known exactly if it is one of the change's (`KnownPaths`), a blocking finding passes every
threshold (`BlockingPasses`), and the counts are cardinalities of what the filters took out
(`ReportCounts`).

`ReviewPipelineProofs`, of an attempt's time (`SubjectAssumption`, `GenerationAssumption`,
whose sums are the relations the comments of `review-invocation-limits.ts` state):
`BudgetHolds`, from `EvidenceOnTime` (what follows a step is still ahead of it when it ends)
and `SharesAreKept` (each model tried had its share, and there is one left for each to come:
a product, because the slice divides what is left by the models left); and
`VerdictsAreEarned`, from `EvidenceIsTrue` (what the sandbox reports is what ran).

and of what attempts write (`PublicationAssumption`): `StaleReviewsStop`, because an attempt
that changed something late never gets past a look at the head again (`StaleStaysStale`);
and `SummariesAreSingle`, from `OneAtATime` (without a lost lease one attempt runs at a
time) and `NothingYet` (what a running attempt did not find when it listed is still not
there). `SyncsConverge`, for any findings, comments and order of the plan: `SyncInv` says,
of a sync that nothing disturbed, where it is in its plan and what holds on each side of
that `Place`. Findings behind it have their one open thread; the first group `LeadsToOne`,
its threads opened and resolved as it says; findings ahead are `Untouched` since the
comments were listed, so that the rest of their plan still fits (`Progress`). The lemmas say
that each way to plan leads to one (`ReuseLeads`, `PlanLeads`, `FallBackLeads`), that a
request brings its group nearer and leaves every other finding alone (`RequestDone`,
`GoneDone`), that a refused place gives way to another plan that leads there
(`RefusalKeeps`), and that what others do leaves a sync alone or marks it disturbed
(`LeftAlone`).

`AccessTransitionsProofs`, for any number of tasks, changes, failures and repetitions:
`AccessConvergesAlways`. `AccessFit` (`TasksFit`) says what is a plan: changes in the order of
the stores, an index change always followed by its ledger change, one state and one time; and that
no time is from the future. `ScopesFit`: while nothing is lost a task changes its own
scope, or restores the installation along with its repository. `IndexFits` is why the index
converges whatever overlaps: it is right, or some task `Fixes` it, because it has yet to
look, saw what is no longer so and will see that at its second look, or has the change ahead.
The ledger and the policies take longer: `ApartFits` says that, as long as no two
tasks overlap, the index never answers with a time the policies are ahead of, and `OwedFits` that
each scope is `Settled`, with no change ahead that GitHub has overtaken, or some task will fix it
(`WillFix`) or is about to have all three stores right (`Mends`). At rest nothing
is owed (`AccessAtRest`).

`WorkspaceClientProofs` (`MaxChangesAssumption`): `ReadsAreInside` for any number of changes
during the read. `IdentitiesAreNew`, `LeafFollowsParent` and `ChainVouches` say that while
the verified ancestor stands it is a directory, so that what was opened under it is inside;
the last identity check is what makes use of it. `NoChangeIsLost` (`CapturePathAssumption`)
for any paths and contents: `RecordsTellChanges` says what remains true of `git status`'s
answer while the index moves, and one lemma per mode shows that the enumeration completes
it. `ExitCodesAreTrue` (`SubmitTimesAssumption`) for any time limits, from
`NoneBeforeThePost`, `YesComesFirst` and `TimeIsShared` (the client's time is the network's
plus the handler's, which is how a timeout tells which of them was slow). `ManifestIsTrue`
and `ServerTakesWhatIsSent` (`CandidateAssumption`, `CapsAssumption`) for any files and
caps: `EntriesFit` says that the entries stand for distinct text files that are not
withheld, so that dropping one's content changes one manifest line; `BudgetFits` that there
is a function *c* of what the first *k* entries cost, which ends within the limit, where the
client's spending stands at its end and the server's never gets ahead of it (`Costs`,
`PassedOn`). *c* takes the place of the sum of a sequence, about which the prover has no
induction. `OriginsFit` carries the origins: a capture that got past `Classify` has them on
files, and on entries, that are valid with them (`ClassifyKeeps`), and nothing after it adds
one.

Model-checked only: the liveness properties (`JobsSettle`, `HeadIsFreed`,
`LeaksAreRecovered`, `AnalysisSettles`; liveness and ENABLED are out of the prover's reach),
and `DismissalsStand`. The latter is about `Project`, which folds the whole ledger, sorted
by time, after every append, wherever in it that put the event: how an event put in the
middle changes the result is an induction over data, and the loop is inside one step of the
code, so it cannot be made a behaviour as the payload's loops were.

## Findings

1. `stale_acknowledgement`: `acknowledgeTransition` ignores which transition its
   caller recorded. A drain that fetched attempt *n*'s transition and is slow
   acknowledges attempt *n+1*'s, whose fact is not in the ledger; ADR 0001 says the
   pending record is kept until the ledger accepted the fact.
2. `late_renewal`: `renew` does not look for a staged transition. A worker whose
   expired attempt was recovered renews through locks that outlived the lease, and
   publishes beside the worker that claims next.
3. `poisoned_activation`: `processNext` rethrows an activation's conflict before it
   recovers, drains or claims, so one such job stops the queue for all.
4. `gate_ceiling`: a decrement after the slot key expired leaves -1 without a TTL,
   and the ceiling of one admits two.
5. `late_deadline`: the deadline's timer is armed after redaction with a span computed
   before it, so the last attempt's own timer fires first and running out of time is
   answered as a failure of the model.
6. `reaction_outlived`: a completed review's states are recorded after a dismissing
   reaction was, as facts of the review; the dismissal outlives the reaction.

## Divergences met and not made into runs

They are exceptions in a property, or below what a model distinguishes.

- Publication: a finding outside the diff gets a new file-level comment at each sync,
  the old one being resolved.
- Lifecycle: a dismissal recorded before a review of a superseded head first names the
  finding is never taken from `pendingFeedback` (`finding-lifecycle.ts:92-107`).
  `DismissalsStand` asks that the finding was known. A dismissal is dated before its append
  (`review-event-recorder.ts:142-145`): while the append is awaited, a review that completed
  later can be recorded and list a ledger without it, and the fact it then appends, *open*
  or *fixed* at the later time (`:172-180`), is replayed after the dismissal, which is lost.
  So it is by such a fact of its own time that is appended after it. `Knew` exempts both;
  for dismissing reactions, whose facts and signals are kept apart, nothing is lost.
- Access: two overlapping tasks can leave the ledger active while access is revoked
  (`repository-access-transitions.ts:36-44`, `:103-112`); a restoring task that failed
  half-way gives up when retried, with the index active; a repository restored while its
  installation is suspended is not made up for by restoring the installation; with equal
  timestamps a slow revocation of the policies wins over a later restoration.
- Wakes: a crash between `INCR` and `EXPIREAT` leaves a counter that never resets.
- Generation: without an API key the fallback's *comment*
  (`openrouter-review-provider.test.ts:44`) becomes *approve* after
  `applyReviewPolicyToResult`, which `VerdictIsEarned` exempts (`~hasKey`). The drain
  reserve's comment speaks of one model attempt; with three models a late job gives each
  less than half of that. An exit code 137 of the repository's own script is titled an
  infrastructure failure, as is a step that failed and whose output cannot be read.
- Capture: a conflict *deleted by them* is taken as absent although the file is there
  (`capture.ts`, `isWorktreeAbsent`), where `docs/workspace-review-spec.md:24` says the
  worktree version wins; a rename into a nested repository loses the deletion of its
  origin. A conflict *deleted by us* that is resolved between `git status` and `git diff-index` can
  be paired as the new path of a rename although HEAD is asked about it as well: it is *modified*
  with an origin (`capture.ts:492-499`), and `finalizeFrom` (`deny.ts:198-211`, `:360`) refuses
  the whole capture with `rename_metadata_leak`, where nothing leaks.
- Payload: the snapshot budget checks a file's original size and adds its redacted one;
  entries past the manifest's cap are cut while their content is sent. The changeset
  budget cuts at a number of UTF-16 units (`deny.ts:407`); when that splits a character,
  `serializeValue` throws (`payload.ts:81`) and nothing is reviewed (`RefuseSplit`), where
  `docs/workspace-review-spec.md:155` has a cap *truncate/skip and record, never fail open*.
  `sliceUtf8`, which cuts snapshots, avoids this.
- Analysis: the reason of a first attempt's retry is overwritten by the second's.

## Not modelled, and what could follow

- The index's contents (snapshots, chunks, context queries), the ledger's paging,
  retention and export, saving and resolving policies, the delivery audit and signature
  checks: single statements over rows, or parsing.
- Usage budget, ops alerts, settings audit, dashboards, analytics and evals: projections
  that feed nothing back.
- Prompts, comment bodies, rendering, secret patterns, deny globs, path encoding, the vendored
  hooks and the user interface: text, without a protocol of this program's own.

What could follow: a lemma library for the lifecycle's fold, which needs a prover with induction;
the index's snapshots, once their retention grows rules of its own.
