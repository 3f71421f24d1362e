--------------------------- MODULE ReviewSubmission ---------------------------
(***************************************************************************)
(* submitActiveReview: the calls that submit a review of one pull request  *)
(* head, over the active-review guard of that head and the idempotency     *)
(* aliases of the queue's create script.  The guard and the job are two    *)
(* records changed one after the other; every await is a step.             *)
(*                                                                         *)
(* Heads share neither guard nor aliases, so one head is enough.  A queue  *)
(* job is reduced to where it is in its life; ReviewQueue has the rest.    *)
(* An alias lives seven days from its last use and a settled record        *)
(* thirty; neither is over within the time modelled.                       *)
(***************************************************************************)
EXTENDS Naturals, Sequences

CONSTANTS
  Call,          \* calls of submitActiveReview for this head
  Submission,    \* submission ids: webhook delivery ids and invocation ids
  SubmissionOf,  \* the submission id of each call, the same for a redelivery
  Key,           \* idempotency keys
  KeysOf,        \* the keys of each call, in the order create looks at them
  Job,           \* the ids of the jobs that may be created
  None,          \* no owner, no job
  MaxFaults      \* bound on crashes, refused appends and lost releases together

ASSUME CallAssumption ==
  /\ SubmissionOf \in [Call -> Submission]
  /\ KeysOf \in [Call -> Seq(Key)]

\* review-submission.ts: a delivery or an invocation always makes the same keys,
\* and whatever shares a key with the webhooks of the head shares the canonical
\* one, whatever shares one with a rerun of a check run that check run's.
SharesKey(c, d) ==
  \E i \in DOMAIN KeysOf[c], k \in DOMAIN KeysOf[d] : KeysOf[c][i] = KeysOf[d][k]
ASSUME RedeliveryAssumption ==
  /\ \A c \in Call : KeysOf[c] # <<>>
  /\ \A c, d \in Call : SubmissionOf[c] = SubmissionOf[d] => KeysOf[c] = KeysOf[d]
ASSUME KeySharingAssumption ==
  \A c, d, e \in Call : SharesKey(c, d) /\ SharesKey(d, e) => SharesKey(c, e)

ASSUME OwnerAssumption == Submission \cap Job = {} /\ None \notin Submission \cup Job
ASSUME MaxFaultsAssumption == MaxFaults \in Nat

VARIABLES
  guard,      \* the guard: a submission for "claim:<id>", a job for "job:<id>"
  setter,     \* the call whose claim or takeover the guard's short TTL counts from
  alias,      \* alias[k]: the job under idempotency:<k>
  status,     \* status[j]: where the job is, as get answers
  releasing,  \* settled jobs whose onTransitionsAcknowledged is still to run
  pc,         \* pc[c]: where the call is
  seen,       \* seen[c]: the job that the claim found in the guard
  job,        \* job[c]: the job that enqueue returned
  attached,   \* history: the jobs that were ever attached
  faults      \* faults so far

callVars == <<pc, seen, job>>
vars == <<guard, setter, alias, status, releasing, callVars, attached, faults>>

Status == {"absent", "queued", "running", "retrying", "settled"}
Pc == {"new", "checking", "taking", "enqueuing", "activating", "attaching", "dropping", "done"}

Live(j) == status[j] \in {"queued", "running", "retrying"}
Owner(c) == SubmissionOf[c]
Goto(c, p) == pc' = [pc EXCEPT ![c] = p]

Init ==
  /\ guard = None /\ setter = None
  /\ alias = [k \in Key |-> None]
  /\ status = [j \in Job |-> "absent"]
  /\ releasing = {} /\ attached = {}
  /\ pc = [c \in Call |-> "new"]
  /\ seen = [c \in Call |-> None]
  /\ job = [c \in Call |-> None]
  /\ faults = 0

-----------------------------------------------------------------------------
(* The guard, before enqueue                                               *)

\* Mutation: whatever another submission left in the guard is taken for a job.
ClaimAnyOwner(c) ==
  /\ pc[c] = "new"
  /\ \/ /\ guard \in {None, Owner(c)}
        /\ guard' = Owner(c) /\ setter' = c
        /\ Goto(c, "enqueuing") /\ UNCHANGED seen
     \/ /\ guard \notin {None, Owner(c)}
        /\ seen' = [seen EXCEPT ![c] = guard]
        /\ Goto(c, "checking") /\ UNCHANGED <<guard, setter>>
  /\ UNCHANGED <<alias, status, releasing, job, attached, faults>>

\* A redelivery finds its own submission id and goes on as if it had claimed,
\* without moving the TTL.
Claim(c) ==
  /\ pc[c] = "new"
  /\ \/ /\ guard = None
        /\ guard' = Owner(c) /\ setter' = c
        /\ Goto(c, "enqueuing") /\ UNCHANGED seen
     \/ /\ guard = Owner(c)
        /\ Goto(c, "enqueuing") /\ UNCHANGED <<guard, setter, seen>>
     \/ /\ guard \in Submission \ {Owner(c)}
        /\ Goto(c, "done") /\ UNCHANGED <<guard, setter, seen>>
     \/ /\ guard \in Job
        /\ seen' = [seen EXCEPT ![c] = guard]
        /\ Goto(c, "checking") /\ UNCHANGED <<guard, setter>>
  /\ UNCHANGED <<alias, status, releasing, job, attached, faults>>

\* Mutation: a job that waits for its retry counts as over.
CheckForgetsRetrying(c) ==
  /\ pc[c] = "checking"
  /\ Goto(c, IF status[seen[c]] \in {"queued", "running"} THEN "done" ELSE "taking")
  /\ UNCHANGED <<guard, setter, alias, status, releasing, seen, job, attached, faults>>

\* getJob: a live job is the answer, any other may be replaced in the guard.
Check(c) ==
  /\ pc[c] = "checking"
  /\ Goto(c, IF Live(seen[c]) THEN "done" ELSE "taking")
  /\ UNCHANGED <<guard, setter, alias, status, releasing, seen, job, attached, faults>>

\* Mutation: takeover without comparing the owner it expects.
TakeoverAny(c) ==
  /\ pc[c] = "taking"
  /\ guard' = Owner(c) /\ setter' = c /\ Goto(c, "enqueuing")
  /\ UNCHANGED <<alias, status, releasing, seen, job, attached, faults>>

Takeover(c) ==
  /\ pc[c] = "taking"
  /\ IF guard = seen[c]
     THEN guard' = Owner(c) /\ setter' = c /\ Goto(c, "enqueuing")
     ELSE Goto(c, "done") /\ UNCHANGED <<guard, setter>>
  /\ UNCHANGED <<alias, status, releasing, seen, job, attached, faults>>

-----------------------------------------------------------------------------
(* enqueue, with createScript's aliases                                    *)

\* Mutation: only the first key is looked up.
NamedFirst(c) == {i \in DOMAIN KeysOf[c] \cap {1} : alias[KeysOf[c][i]] # None}

\* The places of the keys of c under which there is a job.
Named(c) == {i \in DOMAIN KeysOf[c] : alias[KeysOf[c][i]] # None}

\* attachAliases(j): the keys of c that are free become j's.
AttachAliases(c, j) ==
  alias' = [k \in Key |->
              IF alias[k] = None /\ \E i \in DOMAIN KeysOf[c] : KeysOf[c][i] = k
              THEN j ELSE alias[k]]

\* Where a call goes with the job as create returned it.
AfterCreate(s) ==
  IF s = "queued" THEN "activating" ELSE IF s = "settled" THEN "dropping" ELSE "attaching"

Reuse(c) ==
  /\ pc[c] = "enqueuing"
  /\ \E n \in Named(c) :
       /\ \A i \in Named(c) : n <= i
       /\ LET j == alias[KeysOf[c][n]] IN
            /\ AttachAliases(c, j)
            /\ job' = [job EXCEPT ![c] = j]
            /\ Goto(c, AfterCreate(status[j]))
  /\ UNCHANGED <<guard, setter, status, releasing, seen, attached, faults>>

CreateNew(c) ==
  /\ pc[c] = "enqueuing" /\ Named(c) = {}
  /\ \E j \in Job :
       /\ status[j] = "absent"
       /\ status' = [status EXCEPT ![j] = "queued"]
       /\ AttachAliases(c, j)
       /\ job' = [job EXCEPT ![c] = j]
  /\ Goto(c, "activating")
  /\ UNCHANGED <<guard, setter, releasing, seen, attached, faults>>

Activate(c) ==
  /\ pc[c] = "activating"
  /\ Goto(c, "attaching")
  /\ UNCHANGED <<guard, setter, alias, status, releasing, seen, job, attached, faults>>

\* create, the ledger's append, the announcement or attach throws: what enqueue
\* did stays, and the claim is given back.
Throws(c) ==
  /\ pc[c] \in {"enqueuing", "activating", "attaching"}
  /\ faults < MaxFaults /\ faults' = faults + 1
  /\ Goto(c, "dropping")
  /\ UNCHANGED <<guard, setter, alias, status, releasing, seen, job, attached>>

-----------------------------------------------------------------------------
(* The guard, after enqueue                                                *)

\* start, which only dispatches a worker, is part of the end of the call.
Attach(c) ==
  /\ pc[c] = "attaching"
  /\ IF guard = Owner(c)
     THEN guard' = job[c] /\ attached' = attached \cup {job[c]} /\ Goto(c, "done")
     ELSE Goto(c, "dropping") /\ UNCHANGED <<guard, attached>>
  /\ UNCHANGED <<setter, alias, status, releasing, seen, job, faults>>

\* The claim is given back: the job had settled, or enqueue or attach threw.
Drop(c) ==
  /\ pc[c] = "dropping"
  /\ guard' = IF guard = Owner(c) THEN None ELSE guard
  /\ Goto(c, "done")
  /\ UNCHANGED <<setter, alias, status, releasing, seen, job, attached, faults>>

Crash(c) ==
  /\ pc[c] \notin {"new", "done"}
  /\ faults < MaxFaults /\ faults' = faults + 1
  /\ Goto(c, "done")
  /\ UNCHANGED <<guard, setter, alias, status, releasing, seen, job, attached>>

\* Mutation: the claim is set without PX.
NeverExpires == FALSE /\ UNCHANGED vars

\* A claim's six minutes are more than the five a call has, but they count from
\* the call that set it.
ClaimExpires ==
  /\ guard \in Submission /\ pc[setter] = "done"
  /\ guard' = None
  /\ UNCHANGED <<setter, alias, status, releasing, callVars, attached, faults>>

\* A job's 24 hours are taken to be more than a live job needs.
JobOwnerExpires ==
  /\ guard \in Job /\ ~Live(guard)
  /\ guard' = None
  /\ UNCHANGED <<setter, alias, status, releasing, callVars, attached, faults>>

-----------------------------------------------------------------------------
(* The job, as the workers take it through its life                        *)

Moves == {<<"queued", "running">>, <<"running", "retrying">>, <<"retrying", "running">>}

Advance(j) ==
  /\ \E m \in Moves : status[j] = m[1] /\ status' = [status EXCEPT ![j] = m[2]]
  /\ UNCHANGED <<guard, setter, alias, releasing, callVars, attached, faults>>

\* An acknowledged terminal transition, and an activation that is failed: only
\* the first is reported to onTransitionsAcknowledged.
Settle(j) ==
  /\ \/ status[j] = "running" /\ releasing' = releasing \cup {j}
     \/ status[j] = "queued" /\ UNCHANGED releasing
  /\ status' = [status EXCEPT ![j] = "settled"]
  /\ UNCHANGED <<guard, setter, alias, callVars, attached, faults>>

ReleaseSettled(j) ==
  /\ j \in releasing
  /\ releasing' = releasing \ {j}
  /\ guard' = IF guard = j THEN None ELSE guard
  /\ UNCHANGED <<setter, alias, status, callVars, attached, faults>>

\* The release throws and is only logged, or the worker is killed before it.
LoseRelease(j) ==
  /\ j \in releasing
  /\ releasing' = releasing \ {j}
  /\ faults < MaxFaults /\ faults' = faults + 1
  /\ UNCHANGED <<guard, setter, alias, status, callVars, attached>>

Proceed(c) ==
  \/ Claim(c) \/ Check(c) \/ Takeover(c) \/ Reuse(c) \/ CreateNew(c)
  \/ Activate(c) \/ Attach(c) \/ Drop(c)

Next ==
  \/ \E c \in Call : Proceed(c) \/ Throws(c) \/ Crash(c)
  \/ ClaimExpires \/ JobOwnerExpires
  \/ \E j \in Job : Advance(j) \/ Settle(j) \/ ReleaseSettled(j) \/ LoseRelease(j)

Spec == Init /\ [][Next]_vars

\* A call that is not killed runs on, a TTL passes, and the queue settles its
\* jobs (JobsSettle of ReviewQueue).
Fairness ==
  /\ \A c \in Call : WF_vars(pc[c] # "new" /\ Proceed(c))
  /\ WF_vars(ClaimExpires)
  /\ \A j \in Job : WF_vars(Advance(j)) /\ SF_vars(Settle(j))

FairSpec == Spec /\ Fairness
-----------------------------------------------------------------------------
(* The guard, the aliases and the calls have the types the scripts assume. *)
TypeOK ==
  /\ guard \in Submission \cup Job \cup {None}
  /\ setter \in Call \cup {None} /\ (guard \in Submission => setter \in Call)
  /\ alias \in [Key -> Job \cup {None}]
  /\ status \in [Job -> Status]
  /\ releasing \subseteq Job /\ attached \subseteq Job
  /\ pc \in [Call -> Pc]
  /\ seen \in [Call -> Job \cup {None}] /\ job \in [Call -> Job \cup {None}]
  /\ \A c \in Call : pc[c] \in {"checking", "taking"} => seen[c] \in Job
  /\ \A c \in Call : pc[c] \in {"activating", "attaching"} => job[c] \in Job
  /\ faults \in 0 .. MaxFaults

(* A job once attached owns the guard for as long as it lives, whatever    *)
(* takeovers, releases of older jobs and expiries come in between; hence   *)
(* no two attached jobs of a head are ever live together                   *)
(* (active-review-submission.ts:38-56, active-review-guard.ts:27-42).      *)
AttachedHoldsGuard == \A j \in attached : Live(j) => guard = j

(* As long as nothing fails, a head has one live job at most, however      *)
(* deliveries, reruns and manual requests interleave                       *)
(* (review-submission.ts:22-27).                                           *)
CoalescedUnlessFailed ==
  faults = 0 => \A j, k \in Job : Live(j) /\ Live(k) => j = k

(* Calls that share an idempotency key share the job, although one of them *)
(* failed half-way or the aliases were attached by different calls         *)
(* (redis-review-queue-store.ts:11-39).                                    *)
RedeliveriesShareTheJob ==
  \A c, d \in Call :
    /\ SharesKey(c, d)
    /\ job[c] # None /\ job[d] # None
    => job[c] = job[d]

(* No crash, refused append or lost release blocks a head for good: over   *)
(* and over its guard comes to a state in which a new submission gets      *)
(* through (active-review-guard.ts:6-8).                                   *)
HeadIsFreed == []<>(guard = None \/ (guard \in Job /\ ~Live(guard)))
=============================================================================
