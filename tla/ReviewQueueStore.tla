-------------------------- MODULE ReviewQueueStore --------------------------
(***************************************************************************)
(* The Redis review queue store: every Lua script of                       *)
(* redis-review-queue-store.ts as one atomic action over the job records,  *)
(* the sorted sets and the two kinds of lock, for any client that stages   *)
(* only transitions its attempt may end in.                                *)
(*                                                                         *)
(* Time is not a number here.  A score or an expiry is represented by the  *)
(* one thing the scripts ask of it, whether it is past: "due" for          *)
(* availableAt, "lapsed" for leaseExpiresAt.  A lease id is a fresh UUID   *)
(* per claim and a claim increments attempts, so the attempt number stands *)
(* for the lease id; 0 is nil.  Worker clocks agree with Redis's clock.    *)
(***************************************************************************)
EXTENDS Naturals

CONSTANTS
  Job,             \* the ids of the jobs that may be created
  Installation,    \* GitHub App installations
  Repository,      \* repositories
  InstallationOf,  \* the installation of each job
  RepositoryOf,    \* the repository of each job
  MaxAttempts,     \* maxAttempts of every job
  ClaimDelay,      \* whether time passes between processNext reading the clock and its claim
  None             \* no job holds the lock

ASSUME ScopeAssumption ==
  /\ InstallationOf \in [Job -> Installation]
  /\ RepositoryOf \in [Job -> Repository]
  /\ Installation \cap Repository = {}

ASSUME MaxAttemptsAssumption == MaxAttempts \in Nat \ {0}
ASSUME ClaimDelayAssumption == ClaimDelay \in BOOLEAN
ASSUME NoneAssumption == None \notin Job

VARIABLES
  status,      \* job:<id> .status; "absent" before create, "pruned" when the key is gone
  attempts,    \* job:<id> .attempts
  lease,       \* job:<id> .leaseId
  scheduled,   \* the sorted set "scheduled"
  due,         \* the scheduled jobs whose availableAt is past
  active,      \* the sorted set "active"
  activation,  \* the sorted set "activation-pending"
  terminal,    \* the sorted set "terminal"
  staged,      \* transition:<id>, with its entry in "transition-pending"
  lock,        \* lock:installation:<i> and lock:repository:<r>
  lapsed,      \* the running jobs whose leaseExpiresAt is past
  loose        \* the running jobs whose locks expire later than their lease does

storeVars == <<status, attempts, lease, scheduled, due, active, activation,
               terminal, staged, lock, lapsed, loose>>

Terminal == {"completed", "failed"}
Outcome == {"retrying"} \cup Terminal
Status == {"absent", "queued", "running", "pruned"} \cup Outcome

NoTransition == [status |-> "none", lease |-> 0]
Transition == [status : Outcome, lease : 1 .. MaxAttempts]

LockName == Installation \cup Repository
LocksOf(j) == {InstallationOf[j], RepositoryOf[j]}
Holds(j) == \A l \in LocksOf(j) : lock[l] = j
\* Mutation: only the installation lock is looked at.
InstallationFree(j) == lock[InstallationOf[j]] = None

Free(j) == \A l \in LocksOf(j) : lock[l] = None

\* Mutation: the locks are kept.
KeptLocks(j) == lock

\* The locks once those j still holds are deleted or have expired.
Released(j) == [l \in LockName |-> IF lock[l] = j THEN None ELSE lock[l]]

StoreInit ==
  /\ status = [j \in Job |-> "absent"]
  /\ attempts = [j \in Job |-> 0]
  /\ lease = [j \in Job |-> 0]
  /\ staged = [j \in Job |-> NoTransition]
  /\ lock = [l \in LockName |-> None]
  /\ scheduled = {} /\ due = {} /\ active = {} /\ activation = {}
  /\ terminal = {} /\ lapsed = {} /\ loose = {}

-----------------------------------------------------------------------------
Create(j) ==
  /\ status[j] = "absent"
  /\ status' = [status EXCEPT ![j] = "queued"]
  /\ activation' = activation \cup {j}
  /\ UNCHANGED <<attempts, lease, scheduled, due, active, terminal, staged,
                 lock, lapsed, loose>>

\* Mutation: activation without the check that the job is still queued.
ActivateAnyStatus(j) ==
  /\ status[j] # "absent"
  /\ scheduled' = scheduled \cup {j}
  /\ activation' = activation \ {j}
  /\ UNCHANGED <<status, attempts, lease, due, active, terminal, staged,
                 lock, lapsed, loose>>

Activate(j) ==
  /\ status[j] = "queued"
  /\ scheduled' = scheduled \cup {j}
  /\ activation' = activation \ {j}
  /\ UNCHANGED <<status, attempts, lease, due, active, terminal, staged,
                 lock, lapsed, loose>>

FailActivation(j) ==
  /\ j \in activation
  /\ status[j] = "queued"
  /\ status' = [status EXCEPT ![j] = "failed"]
  /\ activation' = activation \ {j}
  /\ scheduled' = scheduled \ {j}
  /\ due' = due \ {j}
  /\ terminal' = terminal \cup {j}
  /\ UNCHANGED <<attempts, lease, active, staged, lock, lapsed, loose>>

\* The due jobs a claim finds locked and puts off by lockContentionDelayMs.
Contended == {k \in due : ~Free(k)}

\* The claim takes j; deferred are the contended candidates it met before j.
\* Neither the status nor the attempts of the record are looked at.
Claim(j, deferred) ==
  /\ j \in due
  /\ Free(j)
  /\ status' = [status EXCEPT ![j] = "running"]
  /\ attempts' = [attempts EXCEPT ![j] = @ + 1]
  /\ lease' = [lease EXCEPT ![j] = attempts[j] + 1]
  /\ lock' = [l \in LockName |-> IF l \in LocksOf(j) THEN j ELSE lock[l]]
  /\ scheduled' = scheduled \ {j}
  /\ due' = due \ ({j} \cup deferred)
  /\ active' = active \cup {j}
  /\ lapsed' = lapsed \ {j}
  /\ loose' = IF ClaimDelay THEN loose \cup {j} ELSE loose \ {j}
  /\ UNCHANGED <<activation, terminal, staged>>

ClaimNothing ==
  /\ Contended = due
  /\ due' = {}
  /\ UNCHANGED <<status, attempts, lease, scheduled, active, activation,
                 terminal, staged, lock, lapsed, loose>>

\* Mutation: the lease of the caller is not compared.
MayStageStale(j, l) == staged[j] = NoTransition /\ status[j] = "running"

MayStage(j, l) == staged[j] = NoTransition /\ status[j] = "running" /\ lease[j] = l

StageTransition(j, l, s) ==
  /\ MayStage(j, l)
  /\ staged' = [staged EXCEPT ![j] = [status |-> s, lease |-> l]]
  /\ UNCHANGED <<status, attempts, lease, scheduled, due, active, activation,
                 terminal, lock, lapsed, loose>>

MayAcknowledge(j) == staged[j] # NoTransition /\ lease[j] = staged[j].lease

\* The transition that takes effect is the one stored under the job's key, not
\* the one the caller read or recorded.
AcknowledgeTransition(j) ==
  /\ MayAcknowledge(j)
  /\ status' = [status EXCEPT ![j] = staged[j].status]
  /\ attempts' = [attempts EXCEPT ![j] = staged[j].lease]
  /\ lease' = [lease EXCEPT ![j] = 0]
  /\ staged' = [staged EXCEPT ![j] = NoTransition]
  /\ active' = active \ {j}
  /\ IF staged[j].status = "retrying"
     THEN scheduled' = scheduled \cup {j} /\ UNCHANGED terminal
     ELSE scheduled' = scheduled \ {j} /\ terminal' = terminal \cup {j}
  /\ due' = due \ {j}
  /\ lock' = Released(j)
  /\ lapsed' = lapsed \ {j}
  /\ loose' = loose \ {j}
  /\ UNCHANGED activation

Expired == {j \in active \cap lapsed : staged[j] = NoTransition}

\* Mutation: an expired lease leaves the active set and nothing is staged.
DropExpired ==
  /\ active' = active \ Expired
  /\ UNCHANGED <<status, attempts, lease, scheduled, due, activation, terminal,
                 staged, lock, lapsed, loose>>

\* The record keeps its status and its lease until the staged copy is acknowledged.
RecoverExpired ==
  /\ staged' = [j \in Job |->
       IF j \in Expired /\ status[j] = "running"
       THEN [status |-> IF attempts[j] >= MaxAttempts THEN "failed" ELSE "retrying",
             lease |-> lease[j]]
       ELSE staged[j]]
  /\ active' = active \ Expired
  /\ UNCHANGED <<status, attempts, lease, scheduled, due, activation, terminal,
                 lock, lapsed, loose>>

\* Mutation: the lease is renewed whoever holds the locks.
MayRenewUnlocked(j, l) == status[j] = "running" /\ lease[j] = l

MayRenew(j, l) == status[j] = "running" /\ lease[j] = l /\ Holds(j)

\* PEXPIREAT sets both locks to expire at the very instant the lease does.
Renew(j, l) ==
  /\ MayRenew(j, l)
  /\ active' = active \cup {j}
  /\ lapsed' = lapsed \ {j}
  /\ loose' = loose \ {j}
  /\ UNCHANGED <<status, attempts, lease, scheduled, due, activation, terminal,
                 staged, lock>>

PruneTerminal(batch) ==
  /\ batch \subseteq terminal
  /\ status' = [j \in Job |-> IF j \in batch THEN "pruned" ELSE status[j]]
  /\ terminal' = terminal \ batch
  /\ UNCHANGED <<attempts, lease, scheduled, due, active, activation, staged,
                 lock, lapsed, loose>>

-----------------------------------------------------------------------------
(* What the passage of time does to the keys.                              *)

BecomesDue(j) ==
  /\ j \in scheduled \ due
  /\ due' = due \cup {j}
  /\ UNCHANGED <<status, attempts, lease, scheduled, active, activation,
                 terminal, staged, lock, lapsed, loose>>

LeaseLapses(j) ==
  /\ status[j] = "running"
  /\ j \notin lapsed
  /\ lapsed' = lapsed \cup {j}
  /\ lock' = IF j \in loose THEN lock ELSE Released(j)
  /\ UNCHANGED <<status, attempts, lease, scheduled, due, active, activation,
                 terminal, staged, loose>>

LocksExpire(j) ==
  /\ j \in lapsed \cap loose
  /\ lock' = Released(j)
  /\ loose' = loose \ {j}
  /\ UNCHANGED <<status, attempts, lease, scheduled, due, active, activation,
                 terminal, staged, lapsed>>

\* SET ... EX terminalJobRetentionSeconds: the record goes, its index entries stay.
RecordExpires(j) ==
  /\ status[j] \in Terminal
  /\ status' = [status EXCEPT ![j] = "pruned"]
  /\ UNCHANGED <<attempts, lease, scheduled, due, active, activation, terminal,
                 staged, lock, lapsed, loose>>

-----------------------------------------------------------------------------
\* Mutation: a retry is staged whatever the attempt.
AnyOutcome(l, s) == TRUE

\* What a client may ask to stage: a retry only while an attempt is left.
Admissible(l, s) == s = "retrying" => l < MaxAttempts

StoreNext ==
  \/ \E j \in Job : Create(j) \/ Activate(j) \/ FailActivation(j)
  \/ \E j \in Job : \E deferred \in SUBSET Contended : Claim(j, deferred)
  \/ ClaimNothing
  \/ \E j \in Job, l \in 1 .. MaxAttempts, s \in Outcome :
       Admissible(l, s) /\ StageTransition(j, l, s)
  \/ \E j \in Job : AcknowledgeTransition(j)
  \/ RecoverExpired
  \/ \E j \in Job, l \in 1 .. MaxAttempts : Renew(j, l)
  \/ \E batch \in SUBSET terminal : PruneTerminal(batch)
  \/ \E j \in Job : BecomesDue(j) \/ LeaseLapses(j) \/ LocksExpire(j) \/ RecordExpires(j)

StoreSpec == StoreInit /\ [][StoreNext]_storeVars

-----------------------------------------------------------------------------
(* The store's records, indexes and locks have the types the scripts       *)
(* assume: a staged transition names an attempt, a lock names a job.       *)
StoreTypeOK ==
  /\ status \in [Job -> Status]
  /\ attempts \in [Job -> 0 .. MaxAttempts]
  /\ lease \in [Job -> 0 .. MaxAttempts]
  /\ staged \in [Job -> Transition \cup {NoTransition}]
  /\ lock \in [LockName -> Job \cup {None}]
  /\ scheduled \subseteq Job /\ due \subseteq scheduled
  /\ active \subseteq Job /\ activation \subseteq Job /\ terminal \subseteq Job
  /\ lapsed \subseteq Job /\ loose \subseteq Job

(* No job is stranded: whatever crash follows, a job that is not settled   *)
(* stands in an index from which some later processNext takes it           *)
(* (redis-review-queue-store.ts:40, 51, 111, 153, 183).                    *)
NotStranded ==
  \A j \in Job :
    /\ status[j] = "queued" => j \in activation \cup scheduled
    /\ status[j] = "retrying" => j \in scheduled
    /\ status[j] = "running" => j \in active \/ staged[j] # NoTransition

(* claimScript checks neither the status nor the attempts of a candidate   *)
(* (redis-review-queue-store.ts:89-104): every id in the scheduled set must *)
(* be a job that waits, has an attempt left and has no outcome pending.    *)
ScheduledIsClaimable ==
  \A j \in scheduled :
    /\ status[j] \in {"queued", "retrying"}
    /\ attempts[j] < MaxAttempts
    /\ staged[j] = NoTransition

(* A staged outcome always belongs to the attempt the record is at, so     *)
(* that acknowledging it (redis-review-queue-store.ts:143) never refuses   *)
(* and the job leaves the transition index.                                *)
StagedMatchesAttempt ==
  \A j \in Job : staged[j] # NoTransition =>
    /\ status[j] = "running"
    /\ lease[j] = staged[j].lease
    /\ attempts[j] = staged[j].lease

(* A running job whose lease has not lapsed holds its installation and its *)
(* repository, hence no two such jobs share either                         *)
(* (redis-review-queue-store.ts:99-108, 200-205).                          *)
LeaseHoldsLocks ==
  \A j \in Job : status[j] = "running" /\ j \notin lapsed => Holds(j)

(* No lock is left behind: a job that is not running holds none, and one   *)
(* that runs holds none but its own.                                       *)
LocksAreOwned ==
  \A l \in LockName : lock[l] # None => status[lock[l]] = "running" /\ l \in LocksOf(lock[l])

(* The store implements the promise: the status machine, the attempts and  *)
(* the exclusive holders of ReviewJob.                                     *)
Promise == INSTANCE ReviewJob WITH holders <- {j \in Job : Holds(j)}
PromiseKept == Promise!Spec
=============================================================================
