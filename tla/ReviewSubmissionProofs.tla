------------------------ MODULE ReviewSubmissionProofs ------------------------
(***************************************************************************)
(* That an attached job owns the guard of its head for as long as it       *)
(* lives, for any calls, submission ids, keys, jobs and faults.            *)
(***************************************************************************)
EXTENDS ReviewSubmission, TLAPS

(* Whatever names a job names one that was created.                        *)
JobsExist ==
  /\ guard \in Job => status[guard] # "absent"
  /\ \A k \in Key : alias[k] # None => status[alias[k]] # "absent"
  /\ \A c \in Call : job[c] # None => status[job[c]] # "absent"
  /\ \A c \in Call : seen[c] # None => status[seen[c]] # "absent"
  /\ \A j \in attached : status[j] # "absent"

(* A guard is given back for a job that is over.                           *)
ReleasesSettled == \A j \in releasing : status[j] = "settled"

(* A call takes over only from a job that is over, which it stays.         *)
TakesFromSettled == \A c \in Call : pc[c] = "taking" => status[seen[c]] = "settled"

GuardInv == TypeOK /\ JobsExist /\ ReleasesSettled /\ TakesFromSettled /\ AttachedHoldsGuard

USE DEF Pc, Status

-----------------------------------------------------------------------------
(* Nothing is attached at first.                                           *)
LEMMA GuardInit == Init => GuardInv
  BY OwnerAssumption, CallAssumption, MaxFaultsAssumption
  DEF Init, GuardInv, TypeOK, JobsExist, ReleasesSettled, TakesFromSettled,
      AttachedHoldsGuard

(* A job that exists goes on existing, and one that is settled stays so.   *)
LEMMA LifeGoesOn ==
  ASSUME TypeOK, [Next]_vars, NEW j \in Job
  PROVE  /\ status[j] # "absent" => status'[j] # "absent"
         /\ status[j] = "settled" => status'[j] = "settled"
         /\ status[j] # "absent" /\ Live(j)' => Live(j)
<1> USE DEF TypeOK, Live
<1>1. ASSUME NEW c \in Call, CreateNew(c)
      PROVE  /\ status[j] # "absent" => status'[j] = status[j]
  BY <1>1 DEF CreateNew
<1>2. ASSUME NEW k \in Job, Advance(k) \/ Settle(k)
      PROVE  /\ status[j] # "absent" => status'[j] # "absent"
             /\ status[j] = "settled" => status'[j] = "settled"
             /\ status[j] # "absent" /\ Live(j)' => Live(j)
  BY <1>2 DEF Advance, Moves, Settle
<1>3. CASE UNCHANGED status
  BY <1>3
<1> QED
  BY <1>1, <1>2, <1>3 DEF Next, Proceed, Claim, Check, Takeover, Reuse, Activate, Attach, Drop,
     Throws, Crash, ClaimExpires, JobOwnerExpires, ReleaseSettled, LoseRelease, vars

(* The places looked up are keys, and what is found there is a job.        *)
LEMMA NamedAreJobs ==
  ASSUME TypeOK, NEW c \in Call, NEW n \in Named(c)
  PROVE  KeysOf[c][n] \in Key /\ alias[KeysOf[c][n]] \in Job
<1>1. KeysOf[c] \in Seq(Key) /\ n \in DOMAIN KeysOf[c]
  BY CallAssumption DEF Named
<1>2. KeysOf[c][n] \in Key
  BY <1>1
<1> QED
  BY <1>2 DEF Named, TypeOK

(* Types. *)
LEMMA GuardTypes == TypeOK /\ [Next]_vars => TypeOK'
<1> SUFFICES ASSUME TypeOK, [Next]_vars PROVE TypeOK'
  OBVIOUS
<1> USE DEF TypeOK, Goto
<1>1. ASSUME NEW c \in Call, Claim(c) PROVE TypeOK'
  <2>1. Owner(c) \in Submission
    BY CallAssumption DEF Owner
  <2>2. guard' \in Submission \cup Job \cup {None} /\ setter' \in Call \cup {None}
        /\ (guard' \in Submission => setter' \in Call)
    BY <1>1, <2>1 DEF Claim
  <2>3. pc' \in [Call -> Pc] /\ seen' \in [Call -> Job \cup {None}]
    BY <1>1 DEF Claim
  <2>4. \A d \in Call : /\ pc'[d] \in {"checking", "taking"} => seen'[d] \in Job
                        /\ pc'[d] \in {"activating", "attaching"} => job[d] \in Job
    BY <1>1 DEF Claim
  <2> QED
    BY <1>1, <2>2, <2>3, <2>4 DEF Claim
<1>2. ASSUME NEW c \in Call, Check(c) PROVE TypeOK'
  BY <1>2 DEF Check
<1>3. ASSUME NEW c \in Call, Takeover(c) PROVE TypeOK'
  <2>1. Owner(c) \in Submission
    BY CallAssumption DEF Owner
  <2>2. pc' \in [Call -> Pc] /\ \A d \in Call : d # c => pc'[d] = pc[d]
    BY <1>3 DEF Takeover
  <2>3. pc'[c] \in {"enqueuing", "done"}
    BY <1>3 DEF Takeover
  <2> QED
    BY <1>3, <2>1, <2>2, <2>3 DEF Takeover
<1>4. ASSUME NEW c \in Call, Reuse(c) PROVE TypeOK'
  BY <1>4, NamedAreJobs DEF Reuse, AttachAliases, AfterCreate
<1>5. ASSUME NEW c \in Call, CreateNew(c) PROVE TypeOK'
  BY <1>5 DEF CreateNew, AttachAliases
<1>6. ASSUME NEW c \in Call, Activate(c) \/ Crash(c) \/ Throws(c) PROVE TypeOK'
  BY <1>6, MaxFaultsAssumption DEF Activate, Crash, Throws
<1>7. ASSUME NEW c \in Call, Attach(c) \/ Drop(c) PROVE TypeOK'
  BY <1>7, OwnerAssumption DEF Attach, Drop
<1>8. CASE ClaimExpires \/ JobOwnerExpires
  BY <1>8, OwnerAssumption DEF ClaimExpires, JobOwnerExpires, callVars
<1>9. ASSUME NEW j \in Job, Advance(j) \/ Settle(j) PROVE TypeOK'
  BY <1>9 DEF Advance, Moves, Settle, callVars
<1>10. ASSUME NEW j \in Job, ReleaseSettled(j) \/ LoseRelease(j) PROVE TypeOK'
  BY <1>10, MaxFaultsAssumption, OwnerAssumption DEF ReleaseSettled, LoseRelease, callVars
<1>11. CASE UNCHANGED vars
  BY <1>11 DEF vars, callVars
<1> QED
  BY <1>1, <1>2, <1>3, <1>4, <1>5, <1>6, <1>7, <1>8, <1>9, <1>10, <1>11 DEF Next, Proceed

(* Names are taken from jobs that exist.                                   *)
LEMMA ExistenceStep == TypeOK /\ JobsExist /\ [Next]_vars => JobsExist'
<1> SUFFICES ASSUME TypeOK, JobsExist, [Next]_vars PROVE JobsExist'
  OBVIOUS
<1>1. \A j \in Job : status[j] # "absent" => status'[j] # "absent"
  BY LifeGoesOn
<1> USE DEF TypeOK, JobsExist
<1>2. ASSUME NEW c \in Call, Claim(c) \/ Takeover(c) PROVE JobsExist'
  BY <1>2, CallAssumption, OwnerAssumption DEF Claim, Takeover, Owner
<1>3. ASSUME NEW c \in Call, Reuse(c) PROVE JobsExist'
  BY <1>3, NamedAreJobs DEF Reuse, AttachAliases
<1>4. ASSUME NEW c \in Call, CreateNew(c) PROVE JobsExist'
  BY <1>4 DEF CreateNew, AttachAliases
<1>5. ASSUME NEW c \in Call, Attach(c) \/ Drop(c) PROVE JobsExist'
  BY <1>5, OwnerAssumption DEF Attach, Drop
<1>6. ASSUME NEW c \in Call, Check(c) \/ Activate(c) \/ Crash(c) \/ Throws(c) PROVE JobsExist'
  BY <1>6 DEF Check, Activate, Crash, Throws
<1>7. CASE ClaimExpires \/ JobOwnerExpires
  BY <1>7, OwnerAssumption DEF ClaimExpires, JobOwnerExpires, callVars
<1>8. ASSUME NEW j \in Job, Advance(j) \/ Settle(j) PROVE JobsExist'
  BY <1>1, <1>8 DEF Advance, Settle, callVars
<1>9. ASSUME NEW j \in Job, ReleaseSettled(j) \/ LoseRelease(j) PROVE JobsExist'
  BY <1>9, OwnerAssumption DEF ReleaseSettled, LoseRelease, callVars
<1>10. CASE UNCHANGED vars
  BY <1>10 DEF vars, callVars
<1> QED
  BY <1>2, <1>3, <1>4, <1>5, <1>6, <1>7, <1>8, <1>9, <1>10 DEF Next, Proceed

(* Between getJob and takeover the job stays over.                         *)
LEMMA TakesStep ==
  ASSUME TypeOK, JobsExist, TakesFromSettled, [Next]_vars
  PROVE  TakesFromSettled'
<1>1. SUFFICES ASSUME NEW c \in Call, pc'[c] = "taking" PROVE status'[seen'[c]] = "settled"
  BY DEF TakesFromSettled
<1>2. CASE pc[c] = "taking" /\ seen'[c] = seen[c]
  BY <1>2, LifeGoesOn DEF TakesFromSettled, TypeOK
<1>3. CASE ~(pc[c] = "taking" /\ seen'[c] = seen[c])
  <2>1. Check(c)
    BY <1>1, <1>3 DEF TypeOK, Next, Proceed, Claim, Check, Takeover, Reuse, AfterCreate, CreateNew,
       Activate, Attach, Drop, Throws, Crash, ClaimExpires, JobOwnerExpires, Advance, Settle,
       ReleaseSettled, LoseRelease, Goto, vars, callVars
  <2> QED
    BY <1>1, <2>1, OwnerAssumption DEF Check, Live, Goto, TypeOK, JobsExist
<1> QED
  BY <1>2, <1>3

(* Whoever changes the guard changes it from what is not a live job.       *)
LEMMA AttachedStep ==
  ASSUME TypeOK, JobsExist, ReleasesSettled, TakesFromSettled, AttachedHoldsGuard, [Next]_vars
  PROVE  AttachedHoldsGuard'
<1>1. SUFFICES ASSUME NEW j \in attached', Live(j)' PROVE guard' = j
  BY DEF AttachedHoldsGuard
<1>2. attached' \subseteq attached \/ \E c \in Call : Attach(c) /\ guard' = job[c]
                                        /\ guard = Owner(c) /\ attached' = attached \cup {job[c]}
  BY DEF Next, Proceed, Claim, Check, Takeover, Reuse, CreateNew, Activate, Attach, Drop, Throws,
     Crash, ClaimExpires, JobOwnerExpires, Advance, Settle, ReleaseSettled, LoseRelease, vars
<1>3. CASE j \in attached
  <2>1. j \in Job /\ Live(j) /\ guard = j
    BY <1>1, <1>3, LifeGoesOn DEF TypeOK, JobsExist, AttachedHoldsGuard
  <2>2. ASSUME NEW c \in Call, Claim(c) \/ Takeover(c) \/ Attach(c) \/ Drop(c) PROVE guard' = j
    BY <2>1, <2>2, CallAssumption, OwnerAssumption
    DEF Claim, Takeover, Attach, Drop, Owner, TakesFromSettled, Live
  <2>3. CASE ClaimExpires \/ JobOwnerExpires
    BY <2>1, <2>3, OwnerAssumption DEF ClaimExpires, JobOwnerExpires
  <2>4. ASSUME NEW k \in Job, ReleaseSettled(k) PROVE guard' = j
    BY <2>1, <2>4 DEF ReleaseSettled, ReleasesSettled, Live
  <2> QED
    BY <2>1, <2>2, <2>3, <2>4 DEF Next, Proceed, Check, Reuse, CreateNew, Activate, Throws,
       Crash, Advance, Settle, LoseRelease, vars
<1>4. CASE j \notin attached
  BY <1>1, <1>2, <1>4
<1> QED
  BY <1>3, <1>4

(* Only a job that settles comes to be released.                           *)
LEMMA ReleasesStep ==
  ASSUME TypeOK, ReleasesSettled, [Next]_vars
  PROVE  ReleasesSettled'
<1>1. \A j \in Job : status[j] = "settled" => status'[j] = "settled"
  BY LifeGoesOn
<1>2. ASSUME NEW k \in Job, Settle(k) PROVE ReleasesSettled'
  BY <1>2 DEF Settle, ReleasesSettled, TypeOK
<1>3. CASE releasing' \subseteq releasing
  BY <1>1, <1>3 DEF ReleasesSettled, TypeOK
<1> QED
  BY <1>2, <1>3 DEF Next, Proceed, Claim, Check, Takeover, Reuse, CreateNew, Activate, Attach,
     Drop, Throws, Crash, ClaimExpires, JobOwnerExpires, Advance, ReleaseSettled, LoseRelease, vars

(* The invariant of the guard holds throughout.                            *)
THEOREM GuardInvariant == Spec => []GuardInv
<1>1. GuardInv /\ [Next]_vars => GuardInv'
  BY GuardTypes, ExistenceStep, ReleasesStep, TakesStep, AttachedStep DEF GuardInv
<1> QED
  BY <1>1, GuardInit, PTL DEF Spec

(* An attached job owns the guard for as long as it lives, so that no two  *)
(* attached jobs of a head are live together                               *)
(* (active-review-submission.ts:38-56, active-review-guard.ts:27-42).      *)
THEOREM AttachedJobHoldsGuard == Spec => []AttachedHoldsGuard
<1>1. GuardInv => AttachedHoldsGuard
  BY DEF GuardInv
<1> QED
  BY <1>1, GuardInvariant, PTL

(* Guard, aliases and calls are well typed throughout.                     *)
THEOREM SubmissionTypeCorrect == Spec => []TypeOK
<1>1. GuardInv => TypeOK
  BY DEF GuardInv
<1> QED
  BY <1>1, GuardInvariant, PTL

-----------------------------------------------------------------------------
(* Redeliveries                                                            *)

NotEnqueued == {"new", "checking", "taking", "enqueuing"}

(* A call has a job only once it was enqueued, and then all its keys name  *)
(* it; and whatever a key names, some call with that key has.              *)
KeysNameTheJob ==
  /\ \A c \in Call : pc[c] \in NotEnqueued => job[c] = None
  /\ \A c \in Call : job[c] # None => \A i \in DOMAIN KeysOf[c] : alias[KeysOf[c][i]] = job[c]
  /\ \A k \in Key : alias[k] # None =>
       \E c \in Call : job[c] = alias[k] /\ \E i \in DOMAIN KeysOf[c] : KeysOf[c][i] = k

(* The keys of a call are keys.                                            *)
LEMMA KeysAreKeys == \A c \in Call : \A i \in DOMAIN KeysOf[c] : KeysOf[c][i] \in Key
<1> SUFFICES ASSUME NEW c \in Call, NEW i \in DOMAIN KeysOf[c] PROVE KeysOf[c][i] \in Key
  OBVIOUS
<1>1. KeysOf[c] \in Seq(Key)
  BY CallAssumption
<1> QED
  BY <1>1

(* What the keys of one call name is one job: the calls that named it      *)
(* share a key with this one, and so with each other.                      *)
LEMMA KeysAgree ==
  ASSUME TypeOK, KeysNameTheJob, NEW c \in Call, NEW n \in Named(c), NEW m \in Named(c)
  PROVE  alias[KeysOf[c][n]] = alias[KeysOf[c][m]]
<1>1. /\ n \in DOMAIN KeysOf[c] /\ m \in DOMAIN KeysOf[c]
      /\ KeysOf[c][n] \in Key /\ KeysOf[c][m] \in Key
      /\ alias[KeysOf[c][n]] # None /\ alias[KeysOf[c][m]] # None
  BY KeysAreKeys DEF Named
<1>2. PICK d \in Call : /\ job[d] = alias[KeysOf[c][n]]
                        /\ \E i \in DOMAIN KeysOf[d] : KeysOf[d][i] = KeysOf[c][n]
  BY <1>1 DEF KeysNameTheJob
<1>3. PICK e \in Call : /\ job[e] = alias[KeysOf[c][m]]
                        /\ \E i \in DOMAIN KeysOf[e] : KeysOf[e][i] = KeysOf[c][m]
  BY <1>1 DEF KeysNameTheJob
<1>4. SharesKey(d, c) /\ SharesKey(c, e)
  BY <1>1, <1>2, <1>3 DEF SharesKey
<1>5. SharesKey(d, e)
  BY <1>4, KeySharingAssumption
<1>6. PICK i \in DOMAIN KeysOf[d], k \in DOMAIN KeysOf[e] : KeysOf[d][i] = KeysOf[e][k]
  BY <1>5 DEF SharesKey
<1> QED
  BY <1>1, <1>2, <1>3, <1>6 DEF KeysNameTheJob

(* A call that is enqueued with a job leaves all its keys naming it.       *)
LEMMA EnqueuedNames ==
  ASSUME TypeOK, KeysNameTheJob, NEW c \in Call, NEW j \in Job, pc[c] = "enqueuing",
         AttachAliases(c, j), job' = [job EXCEPT ![c] = j], NEW p \in Pc \ NotEnqueued, Goto(c, p),
         \A n \in Named(c) : alias[KeysOf[c][n]] = j
  PROVE  KeysNameTheJob'
<1> USE DEF TypeOK, Goto, NotEnqueued
<1>1. job[c] = None /\ job'[c] = j /\ \A d \in Call \ {c} : job'[d] = job[d] /\ pc'[d] = pc[d]
  BY DEF KeysNameTheJob
<1>2. \A k \in Key : alias[k] # None => alias'[k] = alias[k]
  BY DEF AttachAliases
<1>3. \A i \in DOMAIN KeysOf[c] : alias'[KeysOf[c][i]] = j
  BY KeysAreKeys DEF AttachAliases, Named
<1>4. ASSUME NEW d \in Call, pc'[d] \in NotEnqueued PROVE job'[d] = None
  BY <1>1, <1>4 DEF KeysNameTheJob
<1>5. ASSUME NEW d \in Call, job'[d] # None, NEW i \in DOMAIN KeysOf[d]
      PROVE  alias'[KeysOf[d][i]] = job'[d]
  <2>1. CASE d = c
    BY <1>1, <1>3, <1>5, <2>1
  <2>2. CASE d # c
    <3>1. job[d] = job'[d] /\ alias[KeysOf[d][i]] = job[d] /\ KeysOf[d][i] \in Key
      BY <1>1, <1>5, <2>2, KeysAreKeys DEF KeysNameTheJob
    <3> QED
      BY <1>2, <1>5, <3>1
  <2> QED
    BY <2>1, <2>2
<1>6. ASSUME NEW k \in Key, alias'[k] # None
      PROVE  \E d \in Call : job'[d] = alias'[k] /\ \E i \in DOMAIN KeysOf[d] : KeysOf[d][i] = k
  <2>1. CASE alias[k] # None
    <3>1. PICK d \in Call : job[d] = alias[k] /\ \E i \in DOMAIN KeysOf[d] : KeysOf[d][i] = k
      BY <2>1 DEF KeysNameTheJob
    <3> QED
      BY <1>1, <1>2, <2>1, <3>1
  <2>2. CASE alias[k] = None
    BY <1>1, <1>6, <2>2 DEF AttachAliases
  <2> QED
    BY <2>1, <2>2
<1> QED
  BY <1>4, <1>5, <1>6 DEF KeysNameTheJob

(* Every step keeps the names that calls gave to their jobs.               *)
LEMMA KeysStep == TypeOK /\ KeysNameTheJob /\ [Next]_vars => KeysNameTheJob'
<1> SUFFICES ASSUME TypeOK, KeysNameTheJob, [Next]_vars PROVE KeysNameTheJob'
  OBVIOUS
<1>1. ASSUME NEW c \in Call, Reuse(c) PROVE KeysNameTheJob'
  <2>1. PICK n \in Named(c) : /\ AttachAliases(c, alias[KeysOf[c][n]])
                              /\ job' = [job EXCEPT ![c] = alias[KeysOf[c][n]]]
                              /\ Goto(c, AfterCreate(status[alias[KeysOf[c][n]]]))
    BY <1>1 DEF Reuse
  <2>2. alias[KeysOf[c][n]] \in Job
    BY NamedAreJobs
  <2>3. AfterCreate(status[alias[KeysOf[c][n]]]) \in Pc \ NotEnqueued
    BY DEF AfterCreate, NotEnqueued
  <2>4. \A m \in Named(c) : alias[KeysOf[c][m]] = alias[KeysOf[c][n]]
    BY KeysAgree
  <2>5. pc[c] = "enqueuing"
    BY <1>1 DEF Reuse
  <2> QED
    BY <2>1, <2>2, <2>3, <2>4, <2>5, EnqueuedNames
<1>2. ASSUME NEW c \in Call, CreateNew(c) PROVE KeysNameTheJob'
  <2>1. PICK j \in Job : AttachAliases(c, j) /\ job' = [job EXCEPT ![c] = j]
    BY <1>2 DEF CreateNew
  <2>2. pc[c] = "enqueuing" /\ Named(c) = {} /\ Goto(c, "activating")
    BY <1>2 DEF CreateNew
  <2>3. "activating" \in Pc \ NotEnqueued
    BY DEF NotEnqueued
  <2> QED
    BY <2>1, <2>2, <2>3, EnqueuedNames
<1>3. CASE /\ UNCHANGED <<alias, job>>
           /\ \A c \in Call : pc'[c] \in NotEnqueued => pc[c] \in NotEnqueued
  BY <1>3 DEF KeysNameTheJob
<1>4. ASSUME NEW c \in Call, \/ Claim(c) \/ Check(c) \/ Takeover(c) \/ Activate(c) \/ Attach(c)
                             \/ Drop(c) \/ Throws(c) \/ Crash(c)
      PROVE  KeysNameTheJob'
  <2>1. UNCHANGED <<alias, job>>
    BY <1>4 DEF Claim, Check, Takeover, Activate, Attach, Drop, Throws, Crash
  <2>2. pc[c] \in NotEnqueued \/ \E p \in Pc \ NotEnqueued : Goto(c, p)
    BY <1>4 DEF Claim, Check, Takeover, Activate, Attach, Drop, Throws, Crash, NotEnqueued
  <2>3. \A d \in Call \ {c} : pc'[d] = pc[d]
    BY <1>4 DEF Claim, Check, Takeover, Activate, Attach, Drop, Throws, Crash, Goto, TypeOK
  <2>4. \A d \in Call : pc'[d] \in NotEnqueued => pc[d] \in NotEnqueued
    BY <2>2, <2>3 DEF Goto, TypeOK, NotEnqueued
  <2> QED
    BY <1>3, <2>1, <2>4
<1> QED
  BY <1>1, <1>2, <1>3, <1>4 DEF Next, Proceed, ClaimExpires, JobOwnerExpires, Advance, Settle,
     ReleaseSettled, LoseRelease, vars, callVars

(* Calls that share a key share the job, for any keys that are shared the  *)
(* way review-submission.ts makes them (redis-review-queue-store.ts:11-39). *)
THEOREM RedeliveriesShare == Spec => []RedeliveriesShareTheJob
<1>1. Init => KeysNameTheJob
  <2>1. \A k \in Key : [q \in Key |-> None][k] = None
    OBVIOUS
  <2> QED
    BY <2>1 DEF Init, KeysNameTheJob
<1>2. TypeOK /\ KeysNameTheJob /\ [Next]_vars => KeysNameTheJob'
  BY KeysStep
<1>3. KeysNameTheJob => RedeliveriesShareTheJob
  BY DEF KeysNameTheJob, RedeliveriesShareTheJob, SharesKey
<1> QED
  BY <1>1, <1>2, <1>3, SubmissionTypeCorrect, PTL DEF Spec

-----------------------------------------------------------------------------
(* One live job                                                            *)

InProgress == {"activating", "attaching", "dropping"}
FirstKey(c) == KeysOf[c][1]

(* A claim belongs to a call that is still busy with it.                   *)
ClaimIsHeld ==
  guard \in Submission =>
    Owner(setter) = guard /\ pc[setter] \in {"enqueuing"} \cup InProgress

(* What a call enqueued is under its first key.                            *)
FirstKeyNames ==
  \A c \in Call :
    /\ pc[c] \in InProgress => job[c] \in Job
    /\ job[c] # None => alias[FirstKey(c)] = job[c]

(* A call that lost its claim finds the job that a call of the same        *)
(* submission enqueued, and that job has the guard if it still lives.      *)
LateComersFindIt ==
  \A c \in Call : pc[c] = "enqueuing" /\ guard # Owner(c) =>
    alias[FirstKey(c)] # None /\ (Live(alias[FirstKey(c)]) => guard = alias[FirstKey(c)])

(* A live job has the guard, or the claim of a call that will attach it;   *)
(* whoever is busy with a live job agrees.                                 *)
LiveIsGuarded ==
  \A j \in Job : Live(j) =>
    \/ guard = j
    \/ \E c \in Call : Owner(c) = guard /\ job[c] = j /\ pc[c] \in {"activating", "attaching"}
BusyAgree ==
  \A c \in Call : Live(job[c]) =>
    /\ pc[c] \in {"activating", "attaching"} => guard \in {job[c], Owner(c)}
    /\ pc[c] = "dropping" => guard = job[c]
OneLives == \A j, k \in Job : Live(j) /\ Live(k) => j = k

LiveParts ==
  ClaimIsHeld /\ FirstKeyNames /\ LateComersFindIt /\ LiveIsGuarded /\ BusyAgree /\ OneLives
LiveInv == faults = 0 => LiveParts

(* Every call brings a key.                                                *)
LEMMA FirstKeyIsKey == \A c \in Call : FirstKey(c) \in Key /\ 1 \in DOMAIN KeysOf[c]
<1> SUFFICES ASSUME NEW c \in Call PROVE FirstKey(c) \in Key /\ 1 \in DOMAIN KeysOf[c]
  OBVIOUS
<1>1. KeysOf[c] \in Seq(Key) /\ KeysOf[c] # <<>>
  BY CallAssumption, RedeliveryAssumption
<1> QED
  BY <1>1 DEF FirstKey

(* Calls of one submission that were enqueued have one job.                *)
LEMMA OwnersShare ==
  ASSUME FirstKeyNames, NEW c \in Call, NEW d \in Call, Owner(c) = Owner(d),
         job[c] # None, job[d] # None
  PROVE  job[c] = job[d]
BY RedeliveryAssumption DEF FirstKeyNames, Owner, FirstKey

(* No job lives while the guard is free, or is a job's that is over, or is *)
(* claimed by a submission none of whose calls was enqueued or whose job   *)
(* is over.                                                                *)
LEMMA NoneLives ==
  ASSUME TypeOK, LiveIsGuarded, FirstKeyNames,
         \/ guard = None
         \/ guard \in Job /\ ~Live(guard)
         \/ \E c \in Call : guard = Owner(c) /\ (alias[FirstKey(c)] # None => ~Live(alias[FirstKey(c)]))
  PROVE  \A j \in Job : ~Live(j)
<1> SUFFICES ASSUME NEW j \in Job, Live(j) PROVE FALSE
  OBVIOUS
<1> USE OwnerAssumption DEF TypeOK
<1>1. \A c \in Call : Owner(c) \in Submission
  BY CallAssumption DEF Owner
<1>2. guard \in Submission
  BY <1>1 DEF LiveIsGuarded
<1>3. PICK c \in Call : guard = Owner(c) /\ (alias[FirstKey(c)] # None => ~Live(alias[FirstKey(c)]))
  BY <1>2
<1>4. PICK d \in Call : Owner(d) = guard /\ job[d] = j
  BY <1>2 DEF LiveIsGuarded
<1>5. alias[FirstKey(d)] = j /\ FirstKey(d) = FirstKey(c)
  BY <1>3, <1>4, RedeliveryAssumption DEF FirstKeyNames, FirstKey, Owner
<1> QED
  BY <1>3, <1>5

(* A guard that was free, or that of a job that is over, is claimed.       *)
LEMMA ClaimingKeeps ==
  ASSUME GuardInv, KeysNameTheJob, LiveParts, NEW c \in Call, pc[c] \in {"new", "taking"},
         guard = None \/ (guard \in Job /\ ~Live(guard)),
         guard' = Owner(c), setter' = c, Goto(c, "enqueuing"), UNCHANGED <<alias, status, job>>
  PROVE  LiveParts'
<1> USE OwnerAssumption DEF GuardInv, TypeOK, LiveParts
<1>1. \A j \in Job : ~Live(j) /\ ~Live(j)'
  BY NoneLives DEF Live
<1>2. pc' = [pc EXCEPT ![c] = "enqueuing"] /\ Owner(c) \in Submission
  BY CallAssumption DEF Goto, Owner
<1>3. ClaimIsHeld' /\ FirstKeyNames'
  BY <1>2 DEF ClaimIsHeld, FirstKeyNames, FirstKey, InProgress, Owner
<1>4. LateComersFindIt'
  <2>1. SUFFICES ASSUME NEW d \in Call, pc'[d] = "enqueuing", guard' # Owner(d)
                 PROVE  alias[FirstKey(d)] # None /\ ~Live(alias[FirstKey(d)])'
    BY DEF LateComersFindIt, FirstKey, Owner
  <2>2. pc[d] = "enqueuing" /\ guard # Owner(d)
    <3>1. Owner(d) \in Submission
      BY CallAssumption DEF Owner
    <3>2. d # c
      BY <2>1
    <3> QED
      BY <1>2, <2>1, <3>1, <3>2
  <2>3. alias[FirstKey(d)] \in Job
    BY <2>2, FirstKeyIsKey DEF LateComersFindIt
  <2> QED
    BY <1>1, <2>3
<1>5. LiveIsGuarded' /\ OneLives'
  BY <1>1 DEF LiveIsGuarded, OneLives
<1>6. BusyAgree'
  <2>1. \A d \in Call : pc'[d] \in InProgress => job[d] \in Job
    BY <1>2 DEF FirstKeyNames, InProgress
  <2> QED
    BY <1>1, <2>1 DEF BusyAgree, InProgress
<1> QED
  BY <1>3, <1>4, <1>5, <1>6

(* A redelivery goes on under the claim it finds.                          *)
LEMMA RejoiningKeeps ==
  ASSUME GuardInv, KeysNameTheJob, LiveParts, NEW c \in Call, pc[c] = "new",
         guard = Owner(c), Goto(c, "enqueuing"), UNCHANGED <<guard, setter, alias, status, job>>
  PROVE  LiveParts'
<1> USE OwnerAssumption DEF GuardInv, TypeOK, LiveParts
<1>1. pc' = [pc EXCEPT ![c] = "enqueuing"] /\ job[c] = None
  BY DEF Goto, KeysNameTheJob, NotEnqueued
<1>2. ClaimIsHeld'
  BY <1>1 DEF ClaimIsHeld, InProgress, Owner
<1>3. FirstKeyNames' /\ LateComersFindIt' /\ OneLives'
  BY <1>1 DEF FirstKeyNames, LateComersFindIt, OneLives, FirstKey, Owner, Live, InProgress
<1>4. LiveIsGuarded' /\ BusyAgree'
  BY <1>1 DEF LiveIsGuarded, BusyAgree, Owner, Live
<1> QED
  BY <1>2, <1>3, <1>4

(* A call that never claimed, or lost what it took, leaves.                *)
LEMMA LeavingKeeps ==
  ASSUME GuardInv, LiveParts, NEW c \in Call, pc[c] \in {"new", "checking", "taking"},
         NEW p \in {"checking", "taking", "done"}, Goto(c, p),
         UNCHANGED <<guard, setter, alias, status, job>>
  PROVE  LiveParts'
<1> USE DEF GuardInv, TypeOK, LiveParts
<1>1. pc' = [pc EXCEPT ![c] = p]
  BY DEF Goto
<1>2. ClaimIsHeld'
  BY <1>1 DEF ClaimIsHeld, InProgress, Owner
<1>3. FirstKeyNames' /\ LateComersFindIt' /\ OneLives'
  BY <1>1 DEF FirstKeyNames, LateComersFindIt, OneLives, FirstKey, Owner, Live, InProgress
<1>4. LiveIsGuarded' /\ BusyAgree'
  BY <1>1 DEF LiveIsGuarded, BusyAgree, Owner, Live
<1> QED
  BY <1>2, <1>3, <1>4

(* A call that finds its key taken joins the job there.                    *)
LEMMA ReuseKeeps ==
  ASSUME GuardInv, KeysNameTheJob, LiveParts, NEW c \in Call, Reuse(c)
  PROVE  LiveParts'
<1> USE OwnerAssumption DEF GuardInv, TypeOK, LiveParts
<1>1. PICK n \in Named(c) :
        /\ \A i \in Named(c) : n <= i
        /\ AttachAliases(c, alias[KeysOf[c][n]])
        /\ job' = [job EXCEPT ![c] = alias[KeysOf[c][n]]]
        /\ Goto(c, AfterCreate(status[alias[KeysOf[c][n]]]))
  BY DEF Reuse
<1> DEFINE j == alias[KeysOf[c][n]]
<1>2. /\ j \in Job /\ pc[c] = "enqueuing" /\ UNCHANGED <<guard, setter, status>>
      /\ job' = [job EXCEPT ![c] = j] /\ pc' = [pc EXCEPT ![c] = AfterCreate(status[j])]
      /\ status[j] # "absent"
  <2>1. j \in Job /\ KeysOf[c][n] \in Key
    BY NamedAreJobs
  <2>2. status[j] # "absent"
    BY <2>1 DEF JobsExist
  <2> QED
    BY <1>1, <2>1, <2>2 DEF Reuse, Goto
<1>3. /\ AfterCreate(status[j]) \in InProgress
      /\ AfterCreate(status[j]) = "dropping" => ~Live(j)
  BY <1>2 DEF AfterCreate, InProgress, Live
<1>4. /\ \A k \in Key : alias[k] # None => alias'[k] = alias[k]
      /\ alias'[FirstKey(c)] = j
      /\ alias[FirstKey(c)] # None => alias[FirstKey(c)] = j
  <2>1. \A k \in Key : alias[k] # None => alias'[k] = alias[k]
    BY <1>1 DEF AttachAliases
  <2>2. FirstKey(c) \in Key /\ 1 \in DOMAIN KeysOf[c]
    BY FirstKeyIsKey
  <2>3. CASE alias[FirstKey(c)] = None
    BY <1>1, <2>2, <2>3 DEF AttachAliases, FirstKey
  <2>4. CASE alias[FirstKey(c)] # None
    <3>1. 1 \in Named(c)
      BY <2>2, <2>4 DEF Named, FirstKey
    <3>2. alias[FirstKey(c)] = j
      BY <3>1, KeysAgree DEF FirstKey
    <3> QED
      BY <2>1, <2>2, <2>4, <3>2
  <2> QED
    BY <2>1, <2>3, <2>4
<1> HIDE DEF j
<1>5. ClaimIsHeld' /\ OneLives'
  BY <1>2, <1>3 DEF ClaimIsHeld, OneLives, InProgress, Owner, Live
<1>6. FirstKeyNames'
  BY <1>2, <1>3, <1>4, FirstKeyIsKey DEF FirstKeyNames, FirstKey, InProgress
<1>7. LateComersFindIt'
  BY <1>2, <1>3, <1>4, FirstKeyIsKey DEF LateComersFindIt, FirstKey, InProgress, Owner, Live
<1>8. LiveIsGuarded'
  <2>1. \A d \in Call : job[d] # None /\ pc[d] \in {"activating", "attaching"} =>
          job'[d] = job[d] /\ pc'[d] = pc[d]
    BY <1>2
  <2> QED
    BY <1>2, <2>1 DEF LiveIsGuarded, Owner, Live
<1>9. BusyAgree'
  <2>1. Live(j) => guard \in {j, Owner(c)}
    BY <1>2, <1>4 DEF LateComersFindIt
  <2> QED
    BY <1>2, <1>3, <2>1 DEF BusyAgree, Owner, Live, InProgress
<1> QED
  BY <1>5, <1>6, <1>7, <1>8, <1>9

(* A call that finds no key taken makes the only job of its submission.    *)
LEMMA CreateKeeps ==
  ASSUME GuardInv, KeysNameTheJob, LiveParts, NEW c \in Call, CreateNew(c)
  PROVE  LiveParts'
<1> USE OwnerAssumption DEF GuardInv, TypeOK, LiveParts
<1>1. PICK j \in Job : /\ status[j] = "absent" /\ status' = [status EXCEPT ![j] = "queued"]
                       /\ AttachAliases(c, j) /\ job' = [job EXCEPT ![c] = j]
  BY DEF CreateNew
<1>2. /\ pc[c] = "enqueuing" /\ Named(c) = {} /\ UNCHANGED <<guard, setter>>
      /\ pc' = [pc EXCEPT ![c] = "activating"]
  BY DEF CreateNew, Goto
<1>3. FirstKey(c) \in Key /\ alias[FirstKey(c)] = None
  BY <1>2, FirstKeyIsKey DEF Named, FirstKey
<1>4. guard = Owner(c)
  BY <1>2, <1>3 DEF LateComersFindIt
<1>5. \A k \in Job : ~Live(k) /\ (Live(k)' <=> k = j)
  <2>1. \A k \in Job : ~Live(k)
    BY <1>3, <1>4, NoneLives
  <2> QED
    BY <1>1, <2>1 DEF Live
<1>6. /\ \A k \in Key : alias[k] # None => alias'[k] = alias[k]
      /\ alias'[FirstKey(c)] = j
      /\ \A k \in Key : alias[k] # j
  BY <1>1, <1>3, FirstKeyIsKey DEF AttachAliases, FirstKey, JobsExist
<1>7. \A d \in Call : job[d] # j /\ (d # c => job'[d] = job[d] /\ pc'[d] = pc[d])
  BY <1>1, <1>2 DEF JobsExist
<1>8. ClaimIsHeld' /\ OneLives'
  BY <1>2, <1>5 DEF ClaimIsHeld, OneLives, InProgress, Owner
<1>9. FirstKeyNames'
  BY <1>1, <1>2, <1>6, <1>7, FirstKeyIsKey DEF FirstKeyNames, FirstKey, InProgress
<1>10. LateComersFindIt'
  <2>1. SUFFICES ASSUME NEW d \in Call, pc'[d] = "enqueuing", guard' # Owner(d)
                 PROVE  /\ alias'[FirstKey(d)] # None
                        /\ status'[alias'[FirstKey(d)]] \notin {"queued", "running", "retrying"}
    BY DEF LateComersFindIt, FirstKey, Owner, Live
  <2>2. d # c /\ alias[FirstKey(d)] # None /\ FirstKey(d) \in Key
    BY <1>2, <2>1, FirstKeyIsKey DEF LateComersFindIt
  <2>3. alias'[FirstKey(d)] = alias[FirstKey(d)] /\ alias[FirstKey(d)] \in Job \ {j}
    BY <1>6, <2>2
  <2>4. ~Live(alias[FirstKey(d)])'
    BY <1>5, <2>3 DEF FirstKey
  <2> QED
    BY <2>3, <2>4 DEF Live, FirstKey
<1>11. LiveIsGuarded'
  BY <1>1, <1>2, <1>4, <1>5 DEF LiveIsGuarded, Owner
<1>12. BusyAgree'
  <2>1. SUFFICES ASSUME NEW d \in Call, Live(job[d])', pc'[d] \in InProgress
                 PROVE  d = c
    BY <1>1, <1>2, <1>4 DEF BusyAgree, Owner, Live, InProgress
  <2>2. SUFFICES ASSUME d # c PROVE FALSE
    OBVIOUS
  <2>3. job'[d] = job[d] /\ job[d] # j /\ job[d] \in Job
    BY <1>2, <1>7, <2>1, <2>2 DEF FirstKeyNames
  <2> QED
    BY <1>5, <2>1, <2>3
<1> QED
  BY <1>8, <1>9, <1>10, <1>11, <1>12

(* The claim of its submission becomes the job's, or another has the guard. *)
LEMMA AttachKeeps ==
  ASSUME GuardInv, KeysNameTheJob, LiveParts, NEW c \in Call, Attach(c)
  PROVE  LiveParts'
<1> USE OwnerAssumption DEF GuardInv, TypeOK, LiveParts
<1>0. pc[c] = "attaching" /\ job[c] \in Job /\ UNCHANGED <<setter, alias, status, job>>
  BY DEF Attach
<1>1. CASE guard = Owner(c)
  <2>1. guard' = job[c] /\ pc' = [pc EXCEPT ![c] = "done"]
    BY <1>1 DEF Attach, Goto
  <2>2. Owner(c) \in Submission /\ alias[FirstKey(c)] = job[c]
    BY <1>0, CallAssumption DEF Owner, FirstKeyNames
  <2>3. \A j \in Job : Live(j) => j = job[c]
    <3>1. SUFFICES ASSUME NEW j \in Job, Live(j) PROVE j = job[c]
      OBVIOUS
    <3>2. PICK d \in Call : Owner(d) = guard /\ job[d] = j
      BY <1>1, <2>2, <3>1 DEF LiveIsGuarded
    <3> QED
      BY <1>0, <1>1, <3>2, OwnersShare
  <2>4. ClaimIsHeld' /\ OneLives' /\ FirstKeyNames'
    BY <1>0, <2>1 DEF ClaimIsHeld, OneLives, FirstKeyNames, FirstKey, Live, InProgress
  <2>5. LateComersFindIt'
    <3>1. SUFFICES ASSUME NEW d \in Call, pc[d] = "enqueuing"
                   PROVE  /\ alias[FirstKey(d)] # None
                          /\ Live(alias[FirstKey(d)]) => alias[FirstKey(d)] = job[c]
      BY <1>0, <2>1 DEF LateComersFindIt, FirstKey, Live, Owner
    <3>2. alias[FirstKey(d)] # None
      <4>1. CASE guard = Owner(d)
        <5>1. FirstKey(d) = FirstKey(c)
          BY <1>1, <4>1, RedeliveryAssumption DEF Owner, FirstKey
        <5> QED
          BY <1>0, <2>2, <5>1
      <4>2. CASE guard # Owner(d)
        BY <3>1, <4>2 DEF LateComersFindIt
      <4> QED
        BY <4>1, <4>2
    <3> QED
      BY <2>3, <3>2, FirstKeyIsKey
  <2>6. LiveIsGuarded'
    BY <1>0, <2>1, <2>3 DEF LiveIsGuarded, Live
  <2>7. BusyAgree'
    <3>1. \A d \in Call : pc'[d] \in InProgress => pc[d] \in InProgress /\ job[d] \in Job
      BY <2>1 DEF FirstKeyNames, InProgress
    <3> QED
      BY <1>0, <2>1, <2>3, <3>1 DEF BusyAgree, Live, InProgress
  <2> QED
    BY <2>4, <2>5, <2>6, <2>7
<1>2. CASE guard # Owner(c)
  <2>1. guard' = guard /\ pc' = [pc EXCEPT ![c] = "dropping"]
    BY <1>2 DEF Attach, Goto
  <2>2. ClaimIsHeld' /\ OneLives' /\ FirstKeyNames' /\ LateComersFindIt'
    BY <1>0, <2>1
    DEF ClaimIsHeld, OneLives, FirstKeyNames, LateComersFindIt, FirstKey, Live, InProgress, Owner
  <2>3. LiveIsGuarded'
    BY <1>0, <1>2, <2>1 DEF LiveIsGuarded, Live, Owner
  <2>4. BusyAgree'
    BY <1>0, <1>2, <2>1 DEF BusyAgree, Live, Owner
  <2> QED
    BY <2>2, <2>3, <2>4
<1> QED
  BY <1>1, <1>2

(* A claim is given back for a job that is over.                           *)
LEMMA DropKeeps ==
  ASSUME GuardInv, KeysNameTheJob, LiveParts, NEW c \in Call, Drop(c)
  PROVE  LiveParts'
<1> USE OwnerAssumption DEF GuardInv, TypeOK, LiveParts
<1>0. /\ pc[c] = "dropping" /\ job[c] \in Job /\ UNCHANGED <<setter, alias, status, job>>
      /\ pc' = [pc EXCEPT ![c] = "done"] /\ Owner(c) \in Submission
      /\ alias[FirstKey(c)] = job[c]
  BY CallAssumption DEF Drop, FirstKeyNames, InProgress, Goto, Owner
<1>1. CASE guard = Owner(c)
  <2>1. guard' = None
    BY <1>1 DEF Drop
  <2>2. \A j \in Job : ~Live(j)
    <3>1. ~Live(job[c])
      BY <1>0, <1>1 DEF BusyAgree
    <3> QED
      BY <1>0, <1>1, <3>1, NoneLives
  <2>3. ClaimIsHeld' /\ OneLives' /\ FirstKeyNames'
    BY <1>0, <2>1 DEF ClaimIsHeld, OneLives, FirstKeyNames, FirstKey, Live, InProgress
  <2>4. LateComersFindIt'
    <3>1. SUFFICES ASSUME NEW d \in Call, pc[d] = "enqueuing"
                   PROVE  alias[FirstKey(d)] # None /\ ~Live(alias[FirstKey(d)])
      BY <1>0, <2>1 DEF LateComersFindIt, FirstKey, Live, Owner
    <3>2. alias[FirstKey(d)] # None
      <4>1. CASE guard = Owner(d)
        <5>1. FirstKey(d) = FirstKey(c)
          BY <1>1, <4>1, RedeliveryAssumption DEF Owner, FirstKey
        <5> QED
          BY <1>0, <5>1
      <4>2. CASE guard # Owner(d)
        BY <3>1, <4>2 DEF LateComersFindIt
      <4> QED
        BY <4>1, <4>2
    <3> QED
      BY <2>2, <3>2, FirstKeyIsKey
  <2>5. LiveIsGuarded'
    BY <1>0, <2>2 DEF LiveIsGuarded, Live
  <2>6. BusyAgree'
    <3>1. \A d \in Call : pc'[d] \in InProgress => job[d] \in Job
      BY <1>0 DEF FirstKeyNames, InProgress
    <3> QED
      BY <1>0, <2>2, <3>1 DEF BusyAgree, Live, InProgress
  <2> QED
    BY <2>3, <2>4, <2>5, <2>6
<1>2. CASE guard # Owner(c)
  <2>1. guard' = guard
    BY <1>2 DEF Drop
  <2>2. ClaimIsHeld' /\ OneLives' /\ FirstKeyNames' /\ LateComersFindIt'
    BY <1>0, <1>2, <2>1
    DEF ClaimIsHeld, OneLives, FirstKeyNames, LateComersFindIt, FirstKey, Live, InProgress, Owner
  <2>3. LiveIsGuarded' /\ BusyAgree'
    BY <1>0, <1>2, <2>1 DEF LiveIsGuarded, BusyAgree, Live, Owner
  <2> QED
    BY <2>2, <2>3
<1> QED
  BY <1>1, <1>2

(* Activating a job leaves it where it was found.                          *)
LEMMA ActivateKeeps ==
  ASSUME GuardInv, LiveParts, NEW c \in Call, Activate(c)
  PROVE  LiveParts'
<1> USE DEF GuardInv, TypeOK, LiveParts
<1>1. pc[c] = "activating" /\ pc' = [pc EXCEPT ![c] = "attaching"]
      /\ UNCHANGED <<guard, setter, alias, status, job>>
  BY DEF Activate, Goto
<1>2. ClaimIsHeld' /\ OneLives' /\ FirstKeyNames' /\ LateComersFindIt'
  BY <1>1
  DEF ClaimIsHeld, OneLives, FirstKeyNames, LateComersFindIt, FirstKey, Live, InProgress, Owner
<1>3. LiveIsGuarded' /\ BusyAgree'
  BY <1>1 DEF LiveIsGuarded, BusyAgree, Live, Owner
<1> QED
  BY <1>2, <1>3

(* The guard of a job that is over is given up, and no claim is.           *)
LEMMA FreeingKeeps ==
  ASSUME GuardInv, LiveParts, guard \in Job, ~Live(guard), guard' = None,
         UNCHANGED <<setter, alias, status, job, pc>>
  PROVE  LiveParts'
<1> USE OwnerAssumption DEF GuardInv, TypeOK, LiveParts
<1>1. \A j \in Job : ~Live(j)
  BY NoneLives
<1>2. \A d \in Call : Owner(d) \in Submission
  BY CallAssumption DEF Owner
<1>3. ClaimIsHeld' /\ OneLives' /\ FirstKeyNames'
  BY DEF ClaimIsHeld, OneLives, FirstKeyNames, FirstKey, Live, InProgress
<1>4. LateComersFindIt'
  BY <1>1, <1>2, FirstKeyIsKey DEF LateComersFindIt, FirstKey, Live, Owner
<1>5. LiveIsGuarded'
  BY <1>1 DEF LiveIsGuarded, Live
<1>6. BusyAgree'
  <2>1. \A d \in Call : pc[d] \in InProgress => job[d] \in Job
    BY DEF FirstKeyNames, InProgress
  <2> QED
    BY <1>1, <2>1 DEF BusyAgree, Live, InProgress
<1> QED
  BY <1>3, <1>4, <1>5, <1>6

(* A job moves on: what lives lived before.                                *)
LEMMA MovingKeeps ==
  ASSUME GuardInv, LiveParts, UNCHANGED <<guard, setter, alias, job, pc>>,
         \A j \in Job : status'[j] \in {"queued", "running", "retrying"} => Live(j)
  PROVE  LiveParts'
<1> USE DEF GuardInv, TypeOK, LiveParts
<1>1. ClaimIsHeld' /\ FirstKeyNames'
  BY DEF ClaimIsHeld, FirstKeyNames, FirstKey, InProgress, Owner
<1>2. LateComersFindIt' /\ OneLives'
  BY FirstKeyIsKey DEF LateComersFindIt, FirstKey, OneLives, Live, Owner
<1>3. LiveIsGuarded'
  BY DEF LiveIsGuarded, Live, Owner
<1>4. BusyAgree'
  <2>1. \A d \in Call : pc[d] \in InProgress => job[d] \in Job
    BY DEF FirstKeyNames, InProgress
  <2> QED
    BY <2>1 DEF BusyAgree, Live, Owner, InProgress
<1> QED
  BY <1>1, <1>2, <1>3, <1>4

(* Every step keeps the one live job the only one, as long as nothing      *)
(* fails.                                                                  *)
LEMMA LiveStep == GuardInv /\ KeysNameTheJob /\ LiveInv /\ [Next]_vars => LiveInv'
<1> SUFFICES ASSUME GuardInv, KeysNameTheJob, LiveInv, [Next]_vars, faults' = 0
             PROVE  LiveParts'
  BY DEF LiveInv
<1>0. faults \in Nat
  BY MaxFaultsAssumption DEF GuardInv, TypeOK
<1>1. faults = 0
  BY <1>0 DEF Next, Proceed, Claim, Check, Takeover, Reuse, CreateNew, Activate, Attach, Drop,
     Throws, Crash, ClaimExpires, JobOwnerExpires, Advance, Settle, ReleaseSettled, LoseRelease, vars
<1>2. LiveParts
  BY <1>1 DEF LiveInv
<1>3. ASSUME NEW c \in Call, Claim(c) PROVE LiveParts'
  <2>1. pc[c] = "new" /\ UNCHANGED <<alias, status, job>>
    BY <1>3 DEF Claim
  <2>2. CASE guard = None /\ guard' = Owner(c) /\ setter' = c /\ Goto(c, "enqueuing")
    BY <1>2, <2>1, <2>2, ClaimingKeeps
  <2>3. CASE guard = Owner(c) /\ Goto(c, "enqueuing") /\ UNCHANGED <<guard, setter>>
    BY <1>2, <2>1, <2>3, RejoiningKeeps
  <2>4. CASE (Goto(c, "done") \/ Goto(c, "checking")) /\ UNCHANGED <<guard, setter>>
    BY <1>2, <2>1, <2>4, LeavingKeeps
  <2> QED
    BY <1>3, <2>2, <2>3, <2>4 DEF Claim
<1>4. ASSUME NEW c \in Call, Check(c) PROVE LiveParts'
  BY <1>2, <1>4, LeavingKeeps DEF Check
<1>5. ASSUME NEW c \in Call, Takeover(c) PROVE LiveParts'
  <2>1. pc[c] = "taking" /\ UNCHANGED <<alias, status, job>>
    BY <1>5 DEF Takeover
  <2>2. CASE guard = seen[c] /\ guard' = Owner(c) /\ setter' = c /\ Goto(c, "enqueuing")
    <3>1. guard \in Job /\ ~Live(guard)
      BY <2>1, <2>2 DEF GuardInv, TypeOK, TakesFromSettled, Live
    <3> QED
      BY <1>2, <2>1, <2>2, <3>1, ClaimingKeeps
  <2>3. CASE Goto(c, "done") /\ UNCHANGED <<guard, setter>>
    BY <1>2, <2>1, <2>3, LeavingKeeps
  <2> QED
    BY <1>5, <2>2, <2>3 DEF Takeover
<1>6. ASSUME NEW c \in Call, Reuse(c) \/ CreateNew(c) \/ Activate(c) \/ Attach(c) \/ Drop(c)
       PROVE  LiveParts'
  BY <1>2, <1>6, ReuseKeeps, CreateKeeps, ActivateKeeps, AttachKeeps, DropKeeps
<1>7. ASSUME NEW c \in Call, Throws(c) \/ Crash(c) PROVE FALSE
  BY <1>1, <1>7 DEF Throws, Crash
<1>8. CASE ClaimExpires
  BY <1>2, <1>8 DEF ClaimExpires, LiveParts, ClaimIsHeld, InProgress
<1>9. CASE JobOwnerExpires
  BY <1>2, <1>9, FreeingKeeps DEF JobOwnerExpires, callVars
<1>10. ASSUME NEW j \in Job, Advance(j) \/ Settle(j) PROVE LiveParts'
  <2>1. \A k \in Job : status'[k] \in {"queued", "running", "retrying"} => Live(k)
    BY <1>10 DEF Advance, Settle, Moves, Live, GuardInv, TypeOK
  <2>2. UNCHANGED <<guard, setter, alias, job, pc>>
    BY <1>10 DEF Advance, Settle, callVars
  <2> QED
    BY <1>2, <2>1, <2>2, MovingKeeps
<1>11. CASE UNCHANGED <<guard, setter, alias, job, pc, status>>
  <2>1. \A k \in Job : status'[k] \in {"queued", "running", "retrying"} => Live(k)
    BY <1>11 DEF Live
  <2> QED
    BY <1>2, <1>11, <2>1, MovingKeeps
<1>12. ASSUME NEW j \in Job, ReleaseSettled(j) PROVE LiveParts'
  <2>1. UNCHANGED <<setter, alias, job, pc, status>> /\ guard' = IF guard = j THEN None ELSE guard
    BY <1>12 DEF ReleaseSettled, callVars
  <2>2. CASE guard = j
    <3>1. guard \in Job /\ ~Live(guard)
      BY <1>12, <2>2 DEF ReleaseSettled, GuardInv, ReleasesSettled, Live
    <3> QED
      BY <1>2, <2>1, <2>2, <3>1, FreeingKeeps
  <2>3. CASE guard # j
    BY <1>11, <2>1, <2>3
  <2> QED
    BY <2>2, <2>3
<1>13. ASSUME NEW j \in Job, LoseRelease(j) PROVE FALSE
  BY <1>1, <1>13 DEF LoseRelease
<1>14. CASE UNCHANGED vars
  BY <1>11, <1>14 DEF vars, callVars
<1> QED
  BY <1>3, <1>4, <1>5, <1>6, <1>7, <1>8, <1>9, <1>10, <1>12, <1>13, <1>14 DEF Next, Proceed

(* As long as nothing fails a head has one live job at most, for any calls *)
(* whose redeliveries bring the keys they brought before                   *)
(* (review-submission.ts:22-27, active-review-submission.ts:26-61).        *)
THEOREM OneLiveJob == Spec => []CoalescedUnlessFailed
<1>1. Init => KeysNameTheJob /\ LiveInv
  <2>1. \A k \in Key : [q \in Key |-> None][k] = None
    OBVIOUS
  <2>2. Init => KeysNameTheJob
    BY <2>1 DEF Init, KeysNameTheJob
  <2>3. Init => ClaimIsHeld /\ FirstKeyNames /\ LateComersFindIt
    BY OwnerAssumption DEF Init, ClaimIsHeld, FirstKeyNames, LateComersFindIt, InProgress
  <2>4. Init => LiveIsGuarded /\ BusyAgree /\ OneLives
    BY DEF Init, LiveIsGuarded, BusyAgree, OneLives, Live
  <2> QED
    BY <2>2, <2>3, <2>4 DEF LiveInv, LiveParts
<1>2. GuardInv /\ KeysNameTheJob /\ LiveInv /\ [Next]_vars => (KeysNameTheJob /\ LiveInv)'
  BY KeysStep, LiveStep DEF GuardInv
<1>3. LiveInv => CoalescedUnlessFailed
  BY DEF LiveInv, LiveParts, OneLives, CoalescedUnlessFailed
<1> QED
  BY <1>1, <1>2, <1>3, GuardInvariant, PTL DEF Spec
=============================================================================
