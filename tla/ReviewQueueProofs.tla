-------------------------- MODULE ReviewQueueProofs --------------------------
(***************************************************************************)
(* The invariants of ReviewQueueStore for every set of jobs, every layout  *)
(* of installations and repositories and every number of attempts, that    *)
(* the store implements ReviewJob, and the invariants of ReviewQueue, for  *)
(* every number of workers and faults too.  A step of the protocol is a    *)
(* step of the store, so what the store keeps holds of the queue.          *)
(***************************************************************************)
EXTENDS ReviewQueue, TLAPS

-----------------------------------------------------------------------------
(* The store                                                               *)

(* A job that was never claimed has no attempt, and a running job's lease  *)
(* is that of its last attempt.                                            *)
AttemptsCount ==
  \A j \in Job :
    /\ status[j] \in {"absent", "queued"} => attempts[j] = 0
    /\ status[j] = "running" => lease[j] = attempts[j] /\ attempts[j] > 0
    /\ lease[j] # 0 => status[j] = "running"

(* Only an attempt that is not the last has a retry staged for it.         *)
RetryHasAttemptLeft ==
  \A j \in Job : staged[j].status = "retrying" => staged[j].lease < MaxAttempts

(* The terminal index names settled jobs only, so pruning deletes no other. *)
TerminalIsSettled ==
  \A j \in terminal : status[j] \in Terminal \cup {"pruned"}

StoreInv ==
  /\ StoreTypeOK /\ NotStranded /\ ScheduledIsClaimable /\ StagedMatchesAttempt
  /\ LeaseHoldsLocks /\ LocksAreOwned
  /\ AttemptsCount /\ RetryHasAttemptLeft /\ TerminalIsSettled

USE DEF Status, Outcome, Terminal

-----------------------------------------------------------------------------
(* The locks of a job are lock names.                                      *)
LEMMA LocksAreLockNames == \A j \in Job : LocksOf(j) \subseteq LockName
  BY ScopeAssumption DEF LocksOf, LockName

(* No job is None, and a held lock is not free.                            *)
LEMMA HeldIsNotFree ==
  ASSUME NEW j \in Job, NEW k \in Job, Holds(k), Free(j)
  PROVE  LocksOf(j) \cap LocksOf(k) = {}
  BY NoneAssumption DEF Holds, Free

(* An empty store has nothing to lose.                                     *)
LEMMA StoreInitInv == StoreInit => StoreInv
  BY MaxAttemptsAssumption, NoneAssumption, LocksAreLockNames
  DEF StoreInit, StoreInv, StoreTypeOK, NotStranded, ScheduledIsClaimable,
      StagedMatchesAttempt, LeaseHoldsLocks, LocksAreOwned, AttemptsCount,
      RetryHasAttemptLeft, TerminalIsSettled, NoTransition, Transition

(* create: a new job waits for its activation. *)
LEMMA CreateKeeps ==
  ASSUME StoreInv, NEW j \in Job, Create(j)
  PROVE  StoreInv'
  BY DEF StoreInv, StoreTypeOK, NotStranded, ScheduledIsClaimable,
         StagedMatchesAttempt, LeaseHoldsLocks, LocksAreOwned, AttemptsCount,
         RetryHasAttemptLeft, TerminalIsSettled, Create, Holds

(* activate: only a job that is still queued becomes claimable. *)
LEMMA ActivateKeeps ==
  ASSUME StoreInv, NEW j \in Job, Activate(j)
  PROVE  StoreInv'
<1>1. (/\ StoreTypeOK /\ NotStranded /\ StagedMatchesAttempt
      /\ LeaseHoldsLocks /\ LocksAreOwned /\ AttemptsCount
      /\ RetryHasAttemptLeft /\ TerminalIsSettled)'
  BY DEF StoreInv, StoreTypeOK, NotStranded, StagedMatchesAttempt,
         LeaseHoldsLocks, LocksAreOwned, AttemptsCount, RetryHasAttemptLeft,
         TerminalIsSettled, Activate, Holds
<1>2. ScheduledIsClaimable'
  BY MaxAttemptsAssumption
  DEF StagedMatchesAttempt, AttemptsCount, StoreInv, ScheduledIsClaimable,
      Activate
<1> QED
  BY <1>1, <1>2 DEF StoreInv

(* failActivation: the job is settled before its first attempt. *)
LEMMA FailActivationKeeps ==
  ASSUME StoreInv, NEW j \in Job, FailActivation(j)
  PROVE  StoreInv'
<1>1. (/\ StoreTypeOK /\ ScheduledIsClaimable /\ StagedMatchesAttempt
      /\ LeaseHoldsLocks /\ LocksAreOwned /\ AttemptsCount
      /\ RetryHasAttemptLeft)'
  BY DEF StoreInv, StoreTypeOK, ScheduledIsClaimable, StagedMatchesAttempt,
         LeaseHoldsLocks, LocksAreOwned, AttemptsCount, RetryHasAttemptLeft,
         FailActivation, Holds
<1>2. NotStranded'
  BY DEF StoreTypeOK, StoreInv, NotStranded, FailActivation
<1>3. TerminalIsSettled'
  BY DEF StoreTypeOK, StoreInv, TerminalIsSettled, FailActivation
<1> QED
  BY <1>1, <1>2, <1>3 DEF StoreInv

(* claim: a candidate that is free takes both of its locks. *)
LEMMA ClaimKeeps ==
  ASSUME StoreInv, NEW j \in Job, NEW deferred \in SUBSET Contended, Claim(j, deferred)
  PROVE  StoreInv'
<1>1. (ScheduledIsClaimable /\ RetryHasAttemptLeft)'
  BY DEF StoreInv, ScheduledIsClaimable, RetryHasAttemptLeft, Claim
<1>2. StoreTypeOK'
  BY MaxAttemptsAssumption
  DEF ScheduledIsClaimable, StoreInv, StoreTypeOK, Claim
<1>3. NotStranded'
  BY DEF StoreTypeOK, StoreInv, NotStranded, Claim
<1>4. StagedMatchesAttempt'
  BY DEF StoreTypeOK, ScheduledIsClaimable, StoreInv, StagedMatchesAttempt,
         Claim
<1>5. LeaseHoldsLocks'
  BY LocksAreLockNames, NoneAssumption
  DEF Free, Holds, StoreInv, LeaseHoldsLocks, Claim
<1>6. LocksAreOwned'
  BY DEF StoreTypeOK, StoreInv, LocksAreOwned, Claim
<1>7. AttemptsCount'
  BY DEF StoreTypeOK, StoreInv, AttemptsCount, Claim
<1>8. TerminalIsSettled'
  BY DEF StoreTypeOK, ScheduledIsClaimable, StoreInv, TerminalIsSettled, Claim
<1> QED
  BY <1>1, <1>2, <1>3, <1>4, <1>5, <1>6, <1>7, <1>8 DEF StoreInv

(* claim without a free candidate: only availability changes. *)
LEMMA ClaimNothingKeeps ==
  ASSUME StoreInv, ClaimNothing
  PROVE  StoreInv'
  BY DEF StoreInv, StoreTypeOK, NotStranded, ScheduledIsClaimable,
         StagedMatchesAttempt, LeaseHoldsLocks, LocksAreOwned, AttemptsCount,
         RetryHasAttemptLeft, TerminalIsSettled, ClaimNothing, Holds

(* stageTransition: the outcome of the attempt the record is at. *)
LEMMA StageKeeps ==
  ASSUME StoreInv, NEW j \in Job, NEW l \in 1 .. MaxAttempts, NEW s \in Outcome,
         Admissible(l, s), StageTransition(j, l, s)
  PROVE  StoreInv'
<1>1. (/\ StoreTypeOK /\ NotStranded /\ ScheduledIsClaimable
      /\ LeaseHoldsLocks /\ LocksAreOwned /\ AttemptsCount
      /\ RetryHasAttemptLeft /\ TerminalIsSettled)'
  BY DEF StoreInv, StoreTypeOK, NotStranded, ScheduledIsClaimable,
         LeaseHoldsLocks, LocksAreOwned, AttemptsCount, RetryHasAttemptLeft,
         TerminalIsSettled, Transition, StageTransition, MayStage, Holds,
         Admissible
<1>2. StagedMatchesAttempt'
  BY DEF AttemptsCount, StoreInv, StagedMatchesAttempt, StageTransition,
         MayStage
<1> QED
  BY <1>1, <1>2 DEF StoreInv

(* acknowledgeTransition: the staged outcome becomes the record. *)
LEMMA AcknowledgeKeeps ==
  ASSUME StoreInv, NEW j \in Job, AcknowledgeTransition(j)
  PROVE  StoreInv'
<1>1. (LocksAreOwned /\ RetryHasAttemptLeft)'
  BY DEF StoreInv, LocksAreOwned, RetryHasAttemptLeft, AcknowledgeTransition,
         Released, NoTransition
<1>2. StoreTypeOK'
  BY MaxAttemptsAssumption
  DEF Transition, StoreInv, StoreTypeOK, AcknowledgeTransition, MayAcknowledge,
      Released
<1>3. NotStranded'
  BY DEF Transition, StoreTypeOK, StoreInv, NotStranded, AcknowledgeTransition,
         MayAcknowledge
<1>4. ScheduledIsClaimable'
  BY DEF StoreTypeOK, RetryHasAttemptLeft, StoreInv, ScheduledIsClaimable,
         AcknowledgeTransition
<1>5. StagedMatchesAttempt'
  BY DEF StoreTypeOK, StoreInv, StagedMatchesAttempt, AcknowledgeTransition
<1>6. LeaseHoldsLocks'
  BY LocksAreLockNames
  DEF Holds, Transition, StoreTypeOK, StoreInv, LeaseHoldsLocks,
      AcknowledgeTransition, MayAcknowledge, Released
<1>7. AttemptsCount'
  BY DEF Transition, StoreTypeOK, StoreInv, AttemptsCount,
         AcknowledgeTransition, MayAcknowledge
<1>8. TerminalIsSettled'
  BY DEF Transition, StoreTypeOK, AttemptsCount, StoreInv, TerminalIsSettled,
         AcknowledgeTransition, MayAcknowledge
<1> QED
  BY <1>1, <1>2, <1>3, <1>4, <1>5, <1>6, <1>7, <1>8 DEF StoreInv

(* recoverExpired: every expired attempt gets its outcome staged. *)
LEMMA RecoverKeeps ==
  ASSUME StoreInv, RecoverExpired
  PROVE  StoreInv'
<1>1. (/\ NotStranded /\ LeaseHoldsLocks /\ LocksAreOwned /\ AttemptsCount
      /\ TerminalIsSettled)'
  BY DEF StoreInv, NotStranded, LeaseHoldsLocks, LocksAreOwned, AttemptsCount,
         TerminalIsSettled, NoTransition, RecoverExpired, Holds
<1>2. StoreTypeOK'
  BY DEF Transition, AttemptsCount, StoreInv, StoreTypeOK, RecoverExpired
<1>3. ScheduledIsClaimable'
  BY DEF StoreTypeOK, StoreInv, ScheduledIsClaimable, RecoverExpired
<1>4. StagedMatchesAttempt'
  BY DEF AttemptsCount, StoreInv, StagedMatchesAttempt, RecoverExpired
<1>5. RetryHasAttemptLeft'
  BY MaxAttemptsAssumption
  DEF StoreTypeOK, AttemptsCount, StoreInv, RetryHasAttemptLeft, RecoverExpired
<1> QED
  BY <1>1, <1>2, <1>3, <1>4, <1>5 DEF StoreInv

(* renew: the lease is extended while both locks are held. *)
LEMMA RenewKeeps ==
  ASSUME StoreInv, NEW j \in Job, NEW l \in 1 .. MaxAttempts, Renew(j, l)
  PROVE  StoreInv'
  BY DEF StoreInv, StoreTypeOK, NotStranded, ScheduledIsClaimable,
         StagedMatchesAttempt, LeaseHoldsLocks, LocksAreOwned, AttemptsCount,
         RetryHasAttemptLeft, TerminalIsSettled, Renew, Holds, MayRenew

(* pruneTerminal: only settled records are deleted. *)
LEMMA PruneKeeps ==
  ASSUME StoreInv, NEW batch \in SUBSET terminal, PruneTerminal(batch)
  PROVE  StoreInv'
<1>1. (/\ StoreTypeOK /\ NotStranded /\ LeaseHoldsLocks
      /\ RetryHasAttemptLeft)'
  BY DEF StoreInv, StoreTypeOK, NotStranded, LeaseHoldsLocks,
         RetryHasAttemptLeft, PruneTerminal, Holds
<1>2. ScheduledIsClaimable'
  BY DEF StoreTypeOK, TerminalIsSettled, StoreInv, ScheduledIsClaimable,
         PruneTerminal
<1>3. StagedMatchesAttempt'
  BY DEF TerminalIsSettled, StoreInv, StagedMatchesAttempt, PruneTerminal
<1>4. LocksAreOwned'
  BY DEF StoreTypeOK, TerminalIsSettled, StoreInv, LocksAreOwned, PruneTerminal
<1>5. AttemptsCount'
  BY DEF TerminalIsSettled, StoreInv, AttemptsCount, PruneTerminal
<1>6. TerminalIsSettled'
  BY DEF StoreTypeOK, StoreInv, TerminalIsSettled, PruneTerminal
<1> QED
  BY <1>1, <1>2, <1>3, <1>4, <1>5, <1>6 DEF StoreInv

(* A score in the scheduled set is reached. *)
LEMMA BecomesDueKeeps ==
  ASSUME StoreInv, NEW j \in Job, BecomesDue(j)
  PROVE  StoreInv'
  BY DEF StoreInv, StoreTypeOK, NotStranded, ScheduledIsClaimable,
         StagedMatchesAttempt, LeaseHoldsLocks, LocksAreOwned, AttemptsCount,
         RetryHasAttemptLeft, TerminalIsSettled, BecomesDue, Holds

(* A lease lapses, and with it the locks it renewed. *)
LEMMA LeaseLapsesKeeps ==
  ASSUME StoreInv, NEW j \in Job, LeaseLapses(j)
  PROVE  StoreInv'
<1>1. (/\ StoreTypeOK /\ NotStranded /\ ScheduledIsClaimable
      /\ StagedMatchesAttempt /\ LocksAreOwned /\ AttemptsCount
      /\ RetryHasAttemptLeft /\ TerminalIsSettled)'
  BY DEF StoreInv, StoreTypeOK, NotStranded, ScheduledIsClaimable,
         StagedMatchesAttempt, LocksAreOwned, AttemptsCount,
         RetryHasAttemptLeft, TerminalIsSettled, LeaseLapses, Released
<1>2. LeaseHoldsLocks'
  BY LocksAreLockNames
  DEF Holds, StoreInv, LeaseHoldsLocks, LeaseLapses, Released
<1> QED
  BY <1>1, <1>2 DEF StoreInv

(* Locks that outlived their lease expire. *)
LEMMA LocksExpireKeeps ==
  ASSUME StoreInv, NEW j \in Job, LocksExpire(j)
  PROVE  StoreInv'
<1>1. (/\ StoreTypeOK /\ NotStranded /\ ScheduledIsClaimable
      /\ StagedMatchesAttempt /\ LocksAreOwned /\ AttemptsCount
      /\ RetryHasAttemptLeft /\ TerminalIsSettled)'
  BY DEF StoreInv, StoreTypeOK, NotStranded, ScheduledIsClaimable,
         StagedMatchesAttempt, LocksAreOwned, AttemptsCount,
         RetryHasAttemptLeft, TerminalIsSettled, LocksExpire, Released
<1>2. LeaseHoldsLocks'
  BY LocksAreLockNames
  DEF Holds, StoreInv, LeaseHoldsLocks, LocksExpire, Released
<1> QED
  BY <1>1, <1>2 DEF StoreInv

(* A settled record reaches its expiry. *)
LEMMA RecordExpiresKeeps ==
  ASSUME StoreInv, NEW j \in Job, RecordExpires(j)
  PROVE  StoreInv'
  BY DEF StoreInv, StoreTypeOK, NotStranded, ScheduledIsClaimable,
         StagedMatchesAttempt, LeaseHoldsLocks, LocksAreOwned, AttemptsCount,
         RetryHasAttemptLeft, TerminalIsSettled, RecordExpires, Holds

(* StoreInv is inductive: every step of the store keeps it.                *)
THEOREM StoreInvInductive == StoreInv /\ [StoreNext]_storeVars => StoreInv'
<1> SUFFICES ASSUME StoreInv, [StoreNext]_storeVars PROVE StoreInv'
  OBVIOUS
<1>1. ASSUME NEW j \in Job, Create(j) \/ Activate(j) \/ FailActivation(j) PROVE StoreInv'
  BY <1>1, CreateKeeps, ActivateKeeps, FailActivationKeeps
<1>2. ASSUME NEW j \in Job, NEW deferred \in SUBSET Contended, Claim(j, deferred) PROVE StoreInv'
  BY <1>2, ClaimKeeps
<1>3. CASE ClaimNothing
  BY <1>3, ClaimNothingKeeps
<1>4. ASSUME NEW j \in Job, NEW l \in 1 .. MaxAttempts, NEW s \in Outcome,
             Admissible(l, s), StageTransition(j, l, s)
      PROVE  StoreInv'
  BY <1>4, StageKeeps
<1>5. ASSUME NEW j \in Job, AcknowledgeTransition(j) PROVE StoreInv'
  BY <1>5, AcknowledgeKeeps
<1>6. CASE RecoverExpired
  BY <1>6, RecoverKeeps
<1>7. ASSUME NEW j \in Job, NEW l \in 1 .. MaxAttempts, Renew(j, l) PROVE StoreInv'
  BY <1>7, RenewKeeps
<1>8. ASSUME NEW batch \in SUBSET terminal, PruneTerminal(batch) PROVE StoreInv'
  BY <1>8, PruneKeeps
<1>9. ASSUME NEW j \in Job, BecomesDue(j) \/ LeaseLapses(j) \/ LocksExpire(j) \/ RecordExpires(j)
      PROVE  StoreInv'
  BY <1>9, BecomesDueKeeps, LeaseLapsesKeeps, LocksExpireKeeps, RecordExpiresKeeps
<1>10. CASE UNCHANGED storeVars
  BY <1>10 DEF storeVars, StoreInv, StoreTypeOK, NotStranded, ScheduledIsClaimable,
     StagedMatchesAttempt, LeaseHoldsLocks, LocksAreOwned, AttemptsCount,
     RetryHasAttemptLeft, TerminalIsSettled, Holds
<1> QED
  BY <1>1, <1>2, <1>3, <1>4, <1>5, <1>6, <1>7, <1>8, <1>9, <1>10 DEF StoreNext

(* Every reachable state of the store satisfies StoreInv.                  *)
THEOREM StoreInvariant == StoreSpec => []StoreInv
  BY StoreInitInv, StoreInvInductive, PTL DEF StoreSpec

(* The records, the indexes and the locks keep their types: a claim never  *)
(* counts an attempt beyond maxAttempts.                                   *)
THEOREM StoreTypesHold == StoreSpec => []StoreTypeOK
<1>1. StoreInv => StoreTypeOK
  BY DEF StoreInv
<1> QED
  BY <1>1, StoreInvariant, PTL

(* No unsettled job is ever missing from the indexes it is taken from.     *)
THEOREM NoJobIsStranded == StoreSpec => []NotStranded
<1>1. StoreInv => NotStranded
  BY DEF StoreInv
<1> QED
  BY <1>1, StoreInvariant, PTL

(* claimScript may trust its index: what is scheduled is a waiting job     *)
(* with an attempt left and no outcome pending.                            *)
THEOREM ClaimsAreSound == StoreSpec => []ScheduledIsClaimable
<1>1. StoreInv => ScheduledIsClaimable
  BY DEF StoreInv
<1> QED
  BY <1>1, StoreInvariant, PTL

(* A staged outcome stays that of the attempt the record is at.            *)
THEOREM StagedOutcomesAreCurrent == StoreSpec => []StagedMatchesAttempt
<1>1. StoreInv => StagedMatchesAttempt
  BY DEF StoreInv
<1> QED
  BY <1>1, StoreInvariant, PTL

(* An unexpired lease always comes with both locks.                        *)
THEOREM LeasesAreExclusive == StoreSpec => []LeaseHoldsLocks
<1>1. StoreInv => LeaseHoldsLocks
  BY DEF StoreInv
<1> QED
  BY <1>1, StoreInvariant, PTL

(* No lock is left behind: only a running job holds one, one of its own.   *)
THEOREM LocksFollowAttempts == StoreSpec => []LocksAreOwned
<1>1. StoreInv => LocksAreOwned
  BY DEF StoreInv
<1> QED
  BY <1>1, StoreInvariant, PTL

-----------------------------------------------------------------------------
(* The refinement of ReviewJob.                                            *)

Holders == {j \in Job : Holds(j)}

(* The locks two jobs share are the scope they conflict in.                *)
LEMMA ConflictIsSharedLock ==
  \A j, k \in Job : Promise!Conflict(j, k) <=> LocksOf(j) \cap LocksOf(k) # {}
  BY DEF Promise!Conflict, Promise!LocksOf, LocksOf

(* A claim adds its job to the holders and drives no other one out.        *)
LEMMA ClaimAddsHolder ==
  ASSUME StoreInv, NEW j \in Job, NEW deferred \in SUBSET Contended, Claim(j, deferred)
  PROVE  Holders' = Holders \cup {j}
<1>1. Holds(j)'
  BY LocksAreLockNames DEF Claim, Holds
<1>2. ASSUME NEW k \in Job, k # j PROVE Holds(k)' <=> Holds(k)
  BY <1>2, LocksAreLockNames, NoneAssumption DEF Claim, Holds, Free
<1> QED
  BY <1>1, <1>2 DEF Holders

(* Releasing the locks of a job takes that job alone from the holders.     *)
LEMMA ReleaseDropsHolder ==
  ASSUME NEW j \in Job, lock' = Released(j)
  PROVE  Holders' = Holders \ {j}
<1>1. ~Holds(j)'
  BY LocksAreLockNames, NoneAssumption DEF Released, Holds, LocksOf
<1>2. ASSUME NEW k \in Job, k # j PROVE Holds(k)' <=> Holds(k)
  BY <1>2, LocksAreLockNames, NoneAssumption DEF Released, Holds
<1> QED
  BY <1>1, <1>2 DEF Holders

(* The holders depend on the locks alone.                                  *)
LEMMA SameLocksSameHolders == UNCHANGED lock => Holders' = Holders
  BY DEF Holders, Holds

(* The store begins with no job, no attempt and no holder.                 *)
LEMMA PromiseInit == StoreInit => Promise!Init
  BY LocksAreLockNames, NoneAssumption
  DEF StoreInit, Promise!Init, Holds, LocksOf

(* Every step of the store is a step of ReviewJob or leaves it unchanged.  *)
LEMMA PromiseStep ==
  ASSUME StoreInv, [StoreNext]_storeVars
  PROVE  [Promise!Next]_(Promise!vars)
<1> USE DEF Promise!Terminal, Promise!Outcome
<1>1. ASSUME NEW j \in Job, Create(j) PROVE Promise!Submit(j)
  BY <1>1, SameLocksSameHolders DEF Create, Promise!Submit, Holders
<1>2. ASSUME NEW j \in Job, FailActivation(j) PROVE Promise!Refuse(j)
  BY <1>2, SameLocksSameHolders DEF FailActivation, Promise!Refuse, Holders
<1>3. ASSUME NEW j \in Job, NEW deferred \in SUBSET Contended, Claim(j, deferred)
      PROVE  Promise!Start(j)
  <2>1. status[j] \in {"queued", "retrying"} /\ attempts[j] < MaxAttempts
    BY <1>3 DEF Claim, StoreInv, StoreTypeOK, ScheduledIsClaimable
  <2>2. \A k \in Holders : ~Promise!Conflict(j, k)
    BY <1>3, HeldIsNotFree, ConflictIsSharedLock DEF Claim, Holders
  <2> QED
    BY <1>3, <2>1, <2>2, ClaimAddsHolder DEF Claim, Promise!Start, Holders
<1>4. ASSUME NEW j \in Job, AcknowledgeTransition(j)
      PROVE  \E s \in Promise!Outcome : Promise!Settle(j, s)
  <2>1. status[j] = "running" /\ attempts[j] = staged[j].lease
    BY <1>4 DEF AcknowledgeTransition, MayAcknowledge, StoreInv, StagedMatchesAttempt
  <2>2. staged[j].status = "retrying" => attempts[j] < MaxAttempts
    BY <2>1 DEF StoreInv, RetryHasAttemptLeft
  <2>3. attempts' = attempts
    BY <1>4, <2>1 DEF AcknowledgeTransition, StoreInv, StoreTypeOK
  <2>4. Holders' = Holders \ {j}
    BY <1>4, ReleaseDropsHolder DEF AcknowledgeTransition
  <2>5. staged[j].status \in Promise!Outcome
    BY <1>4 DEF AcknowledgeTransition, MayAcknowledge, StoreInv, StoreTypeOK, Transition
  <2>6. Promise!Settle(j, staged[j].status)
    BY <1>4, <2>1, <2>2, <2>3, <2>4 DEF AcknowledgeTransition, Promise!Settle, Holders
  <2> QED
    BY <2>5, <2>6
<1>5. ASSUME NEW j \in Job, LeaseLapses(j) \/ LocksExpire(j)
      PROVE  Promise!Lose(j) \/ UNCHANGED Promise!vars
  <2>1. UNCHANGED <<status, attempts>>
    BY <1>5 DEF LeaseLapses, LocksExpire
  <2>2. CASE lock' = lock
    BY <2>1, <2>2, SameLocksSameHolders DEF Promise!vars, Holders
  <2>3. CASE lock' = Released(j)
    BY <2>1, <2>3, ReleaseDropsHolder DEF Promise!Lose, Promise!vars, Holders
  <2> QED
    BY <1>5, <2>2, <2>3 DEF LeaseLapses, LocksExpire
<1>6. ASSUME NEW batch \in SUBSET terminal, PruneTerminal(batch) PROVE Promise!Forget(batch)
  BY <1>6, SameLocksSameHolders
  DEF PruneTerminal, Promise!Forget, StoreInv, TerminalIsSettled, Holders
<1>7. ASSUME NEW j \in Job, RecordExpires(j) PROVE Promise!Forget({j})
  BY <1>7, SameLocksSameHolders
  DEF RecordExpires, Promise!Forget, StoreInv, StoreTypeOK, Holders
<1>8. ASSUME UNCHANGED <<status, attempts, lock>> PROVE UNCHANGED Promise!vars
  BY <1>8, SameLocksSameHolders DEF Promise!vars, Holders
<1>9. terminal \subseteq Job
  BY DEF StoreInv, StoreTypeOK
<1>10. CASE \/ \E j \in Job : Activate(j) \/ BecomesDue(j)
            \/ ClaimNothing \/ RecoverExpired
            \/ \E j \in Job, l \in 1 .. MaxAttempts, s \in Outcome : StageTransition(j, l, s)
            \/ \E j \in Job, l \in 1 .. MaxAttempts : Renew(j, l)
            \/ UNCHANGED storeVars
  BY <1>8, <1>10 DEF Activate, BecomesDue, ClaimNothing, RecoverExpired,
                     StageTransition, Renew, storeVars
<1>11. CASE \E j \in Job : \/ Create(j) \/ FailActivation(j) \/ AcknowledgeTransition(j)
                           \/ LeaseLapses(j) \/ LocksExpire(j) \/ RecordExpires(j)
  BY <1>1, <1>2, <1>4, <1>5, <1>7, <1>11 DEF Promise!Next
<1>12. CASE \E j \in Job : \E deferred \in SUBSET Contended : Claim(j, deferred)
  BY <1>3, <1>12 DEF Promise!Next
<1>13. CASE \E batch \in SUBSET terminal : PruneTerminal(batch)
  BY <1>6, <1>9, <1>13 DEF Promise!Next
<1> QED
  BY <1>10, <1>11, <1>12, <1>13 DEF StoreNext

(* The Redis store implements the promised job lifecycle: one outcome per  *)
(* attempt, at most MaxAttempts attempts, settled jobs that stay settled,  *)
(* and confirmed holders that never conflict.                              *)
THEOREM StoreKeepsPromise == StoreSpec => PromiseKept
<1>1. StoreInv /\ [StoreNext]_storeVars => [Promise!Next]_(Promise!vars)
  BY PromiseStep
<1> QED
  BY <1>1, PromiseInit, StoreInvariant, PTL DEF StoreSpec, PromiseKept, Promise!Spec

-----------------------------------------------------------------------------
(* The workers                                                             *)

(* A worker at work on a job has one, and in a claim an attempt of it.     *)
WorkersHoldJobs ==
  \A w \in Worker :
    /\ pc[w] \in InClaim \cup {"scheduling", "refusing", "settling"} => job[w] \in Job
    /\ pc[w] \in InClaim => attempt[w] \in 1 .. attempts[job[w]]
    /\ pc[w] = "staging" /\ goal[w] = "retrying" => attempt[w] < MaxAttempts

(* No two workers are in the same attempt of the same job.                 *)
AttemptsAreOwned ==
  \A v, w \in Worker :
    /\ v # w
    /\ pc[v] \in InClaim /\ pc[w] \in InClaim
    /\ job[v] = job[w]
    => attempt[v] # attempt[w]

(* The lease a publishing worker confirmed has not lapsed, unless the      *)
(* record has moved on to another one.                                     *)
PublishingWithinLease ==
  \A w \in Worker :
    pc[w] = "publishing" /\ lease[job[w]] = attempt[w]
      => job[w] \notin lapsed

(* Whoever is about to activate a job has its review.queued fact stored.   *)
FactsBeforeActivation ==
  /\ \A j \in Job : Kept(j) /\ submitter[j] = "scheduling" => <<"queued", j, 0>> \in facts
  /\ \A w \in Worker : pc[w] = "scheduling" /\ Kept(job[w])
                         => <<"queued", job[w], 0>> \in facts

(* The queue has given attempt a of j the outcome s, or will when the      *)
(* staged transition is acknowledged.                                      *)
Given(j, s, a) ==
  \/ staged[j] = [status |-> s, lease |-> a]
  \/ attempts[j] = a /\ status[j] = s
  \/ attempts[j] > a /\ s = "retrying"

\* The same, after the step.
GivenNext(j, s, a) ==
  \/ staged'[j] = [status |-> s, lease |-> a]
  \/ attempts'[j] = a /\ status'[j] = s
  \/ attempts'[j] > a /\ s = "retrying"

(* What a worker read from the store, or staged itself, stays what the     *)
(* queue gives, however old the copy is.                                   *)
ReadsAreGiven ==
  \A w \in Worker, j \in Job :
    read[w][j] # NoTransition
      => Given(j, read[w][j].status, read[w][j].lease)

GoalsAreGiven ==
  \A w \in Worker :
    /\ pc[w] = "recording" => goal[w] \in Outcome
    /\ pc[w] = "recording" => Given(job[w], goal[w], attempt[w])

QueueInv ==
  /\ StoreInv /\ TypeOK
  /\ WorkersHoldJobs /\ AttemptsAreOwned /\ PublishingWithinLease
  /\ FactsBeforeActivation /\ FactsBeforeWork
  /\ ReadsAreGiven /\ GoalsAreGiven /\ LedgerMatchesQueue

(* What every step of the store does to the attempts and the outcomes.     *)
AttemptsGrow == \A j \in Job : attempts[j] <= attempts'[j]

OutcomesStay ==
  \A j \in Job, s \in Outcome, a \in 0 .. MaxAttempts : Given(j, s, a) => GivenNext(j, s, a)

USE DEF Terminal, Outcome, Status, Goal, InClaim, Pc

-----------------------------------------------------------------------------
(* An empty fetch is well typed.                                           *)
LEMMA NothingReadType == NothingRead \in [Job -> Transition \cup {NoTransition}]
  BY DEF NothingRead

(* The protocol begins with idle workers and no facts. *)
LEMMA QueueInit == Init => QueueInv
<1> SUFFICES ASSUME Init PROVE QueueInv
  OBVIOUS
<1>1. StoreInv
  BY StoreInitInv DEF Init
<1>2. TypeOK
  BY <1>1, NothingReadType, MaxAttemptsAssumption, MaxFaultsAssumption DEF Init, StoreInv, TypeOK
<1>3. \A w \in Worker : pc[w] = "idle" /\ read[w] = NothingRead
  BY DEF Init
<1>4. WorkersHoldJobs /\ AttemptsAreOwned /\ PublishingWithinLease /\ GoalsAreGiven
  BY <1>3 DEF WorkersHoldJobs, AttemptsAreOwned, PublishingWithinLease, GoalsAreGiven
<1>5. FactsBeforeActivation /\ FactsBeforeWork /\ LedgerMatchesQueue
  BY <1>3 DEF Init, StoreInit, FactsBeforeActivation, FactsBeforeWork, LedgerMatchesQueue
<1>6. ReadsAreGiven
  BY <1>3 DEF ReadsAreGiven, NothingRead
<1> QED
  BY <1>1, <1>2, <1>4, <1>5, <1>6 DEF QueueInv

-----------------------------------------------------------------------------
(* The steps of the protocol are steps of the store.                       *)

(* The store's steps without pruning and record expiry, which ReviewQueue  *)
(* leaves out.                                                             *)
ClientNext ==
  \/ \E j \in Job : Create(j) \/ Activate(j) \/ FailActivation(j)
  \/ \E j \in Job : \E deferred \in SUBSET Contended : Claim(j, deferred)
  \/ ClaimNothing
  \/ \E j \in Job, l \in 1 .. MaxAttempts, s \in Outcome :
       Admissible(l, s) /\ StageTransition(j, l, s)
  \/ \E j \in Job : AcknowledgeTransition(j)
  \/ RecoverExpired
  \/ \E j \in Job, l \in 1 .. MaxAttempts : Renew(j, l)
  \/ \E j \in Job : BecomesDue(j) \/ LeaseLapses(j) \/ LocksExpire(j)

(* Attempts are only ever counted up, by a claim.                          *)
LEMMA AttemptsOnlyGrow ==
  ASSUME StoreInv, [ClientNext]_storeVars
  PROVE  AttemptsGrow
<1>1. attempts \in [Job -> Nat]
  BY MaxAttemptsAssumption DEF StoreInv, StoreTypeOK
<1>2. ASSUME NEW j \in Job, NEW deferred \in SUBSET Contended, Claim(j, deferred) PROVE AttemptsGrow
  BY <1>1, <1>2 DEF Claim, AttemptsGrow
<1>3. ASSUME NEW j \in Job, AcknowledgeTransition(j) PROVE AttemptsGrow
  BY <1>1, <1>3 DEF AcknowledgeTransition, MayAcknowledge, AttemptsGrow, StoreInv, StagedMatchesAttempt
<1>4. CASE UNCHANGED attempts
  BY <1>1, <1>4 DEF AttemptsGrow
<1> QED
  BY <1>2, <1>3, <1>4 DEF ClientNext, Create, Activate, FailActivation, ClaimNothing,
     StageTransition, RecoverExpired, Renew, BecomesDue, LeaseLapses, LocksExpire, storeVars

(* A given outcome is given for good: a staged transition is never         *)
(* replaced, acknowledging it makes it the record's status, and only a     *)
(* retry is followed by another attempt.                                   *)
LEMMA GivenOutcomesStay ==
  ASSUME StoreInv, [ClientNext]_storeVars
  PROVE  OutcomesStay
<1> USE DEF Given, GivenNext, OutcomesStay
<1>1. attempts \in [Job -> Nat]
  BY MaxAttemptsAssumption DEF StoreInv, StoreTypeOK
<1>2. ASSUME NEW k \in Job, Create(k) \/ Activate(k) \/ FailActivation(k) PROVE OutcomesStay
  BY <1>1, <1>2 DEF Create, Activate, FailActivation, StoreInv, StoreTypeOK, AttemptsCount
<1>3. ASSUME NEW k \in Job, NEW deferred \in SUBSET Contended, Claim(k, deferred) PROVE OutcomesStay
  BY <1>1, <1>3 DEF Claim, StoreInv, StoreTypeOK, ScheduledIsClaimable, NoTransition
<1>4. ASSUME NEW k \in Job, NEW l \in 1 .. MaxAttempts, NEW t \in Outcome, StageTransition(k, l, t)
      PROVE  OutcomesStay
  BY <1>1, <1>4 DEF StageTransition, MayStage, StoreInv, StoreTypeOK, NoTransition
<1>5. ASSUME NEW k \in Job, AcknowledgeTransition(k) PROVE OutcomesStay
  BY <1>1, <1>5 DEF AcknowledgeTransition, MayAcknowledge, StoreInv, StoreTypeOK,
                    StagedMatchesAttempt, NoTransition
<1>6. CASE RecoverExpired
  BY <1>1, <1>6 DEF RecoverExpired, Expired, StoreInv, StoreTypeOK, NoTransition
<1>7. CASE UNCHANGED <<status, attempts, staged>>
  BY <1>7
<1> QED
  BY <1>2, <1>3, <1>4, <1>5, <1>6, <1>7 DEF ClientNext, ClaimNothing, Renew, BecomesDue,
     LeaseLapses, LocksExpire, storeVars

(* A worker in a claim has a job and an attempt of it in range.            *)
LEMMA ClaimHolder ==
  ASSUME TypeOK, WorkersHoldJobs, NEW w \in Worker, pc[w] \in InClaim
  PROVE  job[w] \in Job /\ attempt[w] \in 1 .. MaxAttempts
<1>1. attempt[w] \in 0 .. MaxAttempts
  BY DEF TypeOK
<1>2. job[w] \in Job /\ attempt[w] \in 1 .. attempts[job[w]]
  BY DEF WorkersHoldJobs
<1>3. attempts[job[w]] \in 0 .. MaxAttempts
  BY <1>2 DEF TypeOK, StoreTypeOK
<1> QED
  BY <1>1, <1>2, <1>3, MaxAttemptsAssumption

(* Every step of the protocol is a step of the store or leaves it alone.   *)
LEMMA StepIsClientStep ==
  ASSUME TypeOK, WorkersHoldJobs, [Next]_vars
  PROVE  [ClientNext]_storeVars
<1>1. ASSUME NEW w \in Worker, Heartbeat(w) \/ ConfirmBeforePublish(w) \/ ConfirmAfterRun(w)
      PROVE  [ClientNext]_storeVars
  <2>1. pc[w] \in InClaim
    BY <1>1 DEF Heartbeat, ConfirmBeforePublish, ConfirmAfterRun
  <2>2. job[w] \in Job /\ attempt[w] \in 1 .. MaxAttempts
    BY <2>1, ClaimHolder
  <2>3. Renew(job[w], attempt[w]) \/ UNCHANGED storeVars
    BY <1>1 DEF Heartbeat, ConfirmBeforePublish, ConfirmAfterRun, AssertActive, LosesLease
  <2> QED
    BY <2>2, <2>3 DEF ClientNext
<1>2. ASSUME NEW w \in Worker, Stage(w) PROVE [ClientNext]_storeVars
  <2> DEFINE j == job[w]
             a == attempt[w]
             s == Staged(w)
  <2>1. j \in Job /\ a \in 1 .. MaxAttempts
    BY <1>2, ClaimHolder DEF Stage
  <2>2. s \in Outcome /\ Admissible(a, s)
    BY <1>2 DEF Stage, Staged, WorkersHoldJobs, Admissible, TypeOK
  <2>3. StageTransition(j, a, s) \/ UNCHANGED storeVars
    BY <1>2 DEF Stage
  <2> QED
    BY <2>1, <2>2, <2>3 DEF ClientNext
<1>3. ASSUME NEW w \in Worker, SchedulePending(w) \/ RefusePending(w) PROVE [ClientNext]_storeVars
  BY <1>3 DEF SchedulePending, RefusePending, WorkersHoldJobs, ClientNext
<1>4. ASSUME NEW w \in Worker, AcknowledgeFetched(w) \/ AcknowledgeOutcome(w)
      PROVE  [ClientNext]_storeVars
  BY <1>4 DEF AcknowledgeFetched, AcknowledgeOutcome, WorkersHoldJobs, ClientNext
<1>5. ASSUME NEW w \in Worker, ClaimJob(w) \/ ClaimNone(w) \/ Recover(w)
      PROVE  [ClientNext]_storeVars
  <2>1. due \subseteq Job
    BY DEF TypeOK, StoreTypeOK
  <2> QED
    BY <1>5, <2>1 DEF ClaimJob, ClaimNone, Recover, ClientNext
<1>6. ASSUME NEW j \in Job, Enqueue(j) \/ EnqueueActivate(j) \/ Lapse(j) \/ Tick(j)
      PROVE  [ClientNext]_storeVars
  BY <1>6 DEF Enqueue, EnqueueActivate, Lapse, Tick, ClientNext
<1>7. CASE UNCHANGED storeVars
  BY <1>7
<1>8. ASSUME NEW w \in Worker, Proceed(w) \/ Heartbeat(w) \/ Crash(w) \/ RenewThrows(w) \/ LateAnswer(w)
      PROVE  [ClientNext]_storeVars
  BY <1>1, <1>2, <1>3, <1>4, <1>5, <1>7, <1>8
  DEF Proceed, Begin, ActivatePending, FetchTransitions, RecordFetched, RecordStarted, Publish,
      RunFails, RecordOutcome, Crash, RenewThrows, LateAnswer
<1> QED
  BY <1>6, <1>7, <1>8 DEF Next, EnqueueRecord, EnqueueFails, RevokeAccess, RestoreAccess, vars

(* A client's step is one the store allows.                                *)
LEMMA ClientStepIsStoreStep == [ClientNext]_storeVars => [StoreNext]_storeVars
  BY DEF ClientNext, StoreNext


-----------------------------------------------------------------------------
(* What a step does to the workers that do not take it, and to the rest.   *)

WorkerStep(w) == Proceed(w) \/ Heartbeat(w) \/ Crash(w) \/ RenewThrows(w) \/ LateAnswer(w)

\* Nothing of the worker changes but, possibly, its flag.
Unmoved(w) ==
  /\ pc'[w] = pc[w] /\ todo'[w] = todo[w] /\ read'[w] = read[w]
  /\ job'[w] = job[w] /\ attempt'[w] = attempt[w] /\ goal'[w] = goal[w]

WorkerTypes ==
  /\ pc \in [Worker -> Pc]
  /\ todo \in [Worker -> SUBSET Job]
  /\ read \in [Worker -> [Job -> Transition \cup {NoTransition}]]
  /\ job \in [Worker -> Job \cup {None}]
  /\ attempt \in [Worker -> 0 .. MaxAttempts]
  /\ goal \in [Worker -> Goal]
  /\ leaseLost \in [Worker -> BOOLEAN] /\ unanswered \in [Worker -> BOOLEAN]

(* The workers' share of the type invariant.                              *)
LEMMA WorkersAreTyped == TypeOK => WorkerTypes
  BY DEF TypeOK, WorkerTypes

(* A worker's step moves no other worker. *)
LEMMA OthersStay ==
  ASSUME WorkerTypes, NEW w \in Worker, WorkerStep(w), NEW v \in Worker, v # w
  PROVE  Unmoved(v)
<1> USE DEF WorkerTypes, Unmoved
<1>1. CASE Begin(w)
  BY <1>1 DEF Begin, Goto, claimVars, flagVars
<1>2. CASE ActivatePending(w)
  BY <1>2 DEF ActivatePending, Goto, Return, drainVars
<1>3. CASE SchedulePending(w)
  BY <1>3 DEF SchedulePending, NextActivation, Goto
<1>4. CASE RefusePending(w)
  BY <1>4 DEF RefusePending, NextActivation, Goto
<1>5. CASE Recover(w)
  BY <1>5 DEF Recover, Goto, claimVars, flagVars, drainVars
<1>6. CASE FetchTransitions(w)
  BY <1>6 DEF FetchTransitions, Goto, claimVars, flagVars
<1>7. CASE RecordFetched(w)
  BY <1>7 DEF RecordFetched, Goto, drainVars
<1>8. CASE AcknowledgeFetched(w)
  BY <1>8 DEF AcknowledgeFetched, Goto
<1>9. CASE ClaimJob(w)
  BY <1>9 DEF ClaimJob, Goto, drainVars
<1>10. CASE ClaimNone(w)
  BY <1>10 DEF ClaimNone, Return, Goto
<1>11. CASE RecordStarted(w)
  BY <1>11 DEF RecordStarted, Stop, Goto, drainVars
<1>12. CASE ConfirmBeforePublish(w)
  BY <1>12 DEF ConfirmBeforePublish, Return, Goto, drainVars, claimVars, flagVars
<1>13. CASE Publish(w)
  BY <1>13 DEF Publish, Goto, drainVars, claimVars, flagVars
<1>14. ASSUME NEW r \in BOOLEAN, RunFails(w, r) PROVE Unmoved(v)
  BY <1>14 DEF RunFails, Stop, Goto, drainVars
<1>15. CASE ConfirmAfterRun(w)
  BY <1>15 DEF ConfirmAfterRun, Stop, Return, Goto, drainVars
<1>16. CASE Stage(w)
  BY <1>16 DEF Stage, Return, Goto, drainVars, claimVars, flagVars
<1>17. CASE RecordOutcome(w)
  BY <1>17 DEF RecordOutcome, Return, Goto, drainVars, claimVars, flagVars
<1>18. CASE AcknowledgeOutcome(w)
  BY <1>18 DEF AcknowledgeOutcome, Return, Goto
<1>19. CASE Heartbeat(w) \/ RenewThrows(w) \/ LateAnswer(w)
  BY <1>19 DEF Heartbeat, RenewThrows, LateAnswer, drainVars
<1>20. CASE Crash(w)
  BY <1>20 DEF Crash, Return, Goto
<1> QED
  BY <1>1, <1>2, <1>3, <1>4, <1>5, <1>6, <1>7, <1>8, <1>9, <1>10, <1>11, <1>12, <1>13,
     <1>14, <1>15, <1>16, <1>17, <1>18, <1>19, <1>20 DEF WorkerStep, Proceed

(* A call that is over leaves well-typed locals. *)
LEMMA ReturnTypes ==
  ASSUME WorkerTypes, NEW w \in Worker, Return(w)
  PROVE  WorkerTypes'
<1>1. job' \in [Worker -> Job \cup {None}] /\ todo' \in [Worker -> SUBSET Job]
  BY DEF Return, WorkerTypes
<1>2. read' \in [Worker -> [Job -> Transition \cup {NoTransition}]]
  BY NothingReadType DEF Return, WorkerTypes
<1>3. attempt' \in [Worker -> 0 .. MaxAttempts]
  <2>1. attempt \in [Worker -> 0 .. MaxAttempts] /\ attempt' = [attempt EXCEPT ![w] = 0]
    BY DEF Return, WorkerTypes
  <2> QED
    BY <2>1, MaxAttemptsAssumption
<1> QED
  BY <1>1, <1>2, <1>3 DEF Return, Goto, WorkerTypes

(* A step of a worker keeps the locals well typed. *)
LEMMA WorkerStepTypes ==
  ASSUME StoreTypeOK, WorkerTypes, WorkersHoldJobs, ScheduledIsClaimable,
         NEW w \in Worker, WorkerStep(w)
  PROVE  WorkerTypes'
<1>0. due \subseteq Job /\ activation \subseteq Job /\ staged \in [Job -> Transition \cup {NoTransition}]
  BY DEF StoreTypeOK
<1>1. CASE Begin(w)
  BY <1>1, <1>0 DEF Begin, Goto, claimVars, flagVars, WorkerTypes
<1>2. CASE ActivatePending(w)
  <2>1. todo[w] \subseteq Job
    BY DEF flagVars, WorkerTypes
  <2>2. ASSUME NEW j \in Job, NEW p \in {"refusing", "scheduling"},
               Goto(w, p), job' = [job EXCEPT ![w] = j],
               UNCHANGED <<todo, read, attempt, goal, flagVars>>
        PROVE  WorkerTypes'
    BY <2>2 DEF Goto, flagVars, WorkerTypes
  <2> QED
    BY <1>2, <2>1, <2>2, ReturnTypes DEF ActivatePending, drainVars, flagVars
<1>3. CASE SchedulePending(w)
  BY <1>3, <1>0 DEF SchedulePending, NextActivation, Goto, flagVars, WorkerTypes
<1>4. CASE RefusePending(w)
  BY <1>4, <1>0 DEF RefusePending, NextActivation, Goto, flagVars, WorkerTypes
<1>5. CASE Recover(w)
  BY <1>5, <1>0 DEF Recover, Goto, claimVars, flagVars, drainVars, WorkerTypes
<1>6. CASE FetchTransitions(w)
  BY <1>6, <1>0 DEF FetchTransitions, Goto, claimVars, flagVars, WorkerTypes
<1>7. CASE RecordFetched(w)
  <2>1. PICK j \in Job : /\ Goto(w, "settling") /\ job' = [job EXCEPT ![w] = j]
                         /\ UNCHANGED <<todo, read, attempt, goal, flagVars>>
    BY <1>7 DEF RecordFetched, drainVars, flagVars
  <2> QED
    BY <2>1 DEF Goto, flagVars, WorkerTypes
<1>8. CASE AcknowledgeFetched(w)
  <2>1. read' \in [Worker -> [Job -> Transition \cup {NoTransition}]]
    BY <1>8 DEF AcknowledgeFetched, flagVars, WorkerTypes
  <2> QED
    BY <1>8, <2>1 DEF AcknowledgeFetched, Goto, flagVars, WorkerTypes
<1>9. CASE ClaimJob(w)
  <2>1. PICK j \in due : /\ Goto(w, "starting")
                         /\ job' = [job EXCEPT ![w] = j]
                         /\ attempt' = [attempt EXCEPT ![w] = attempts[j] + 1]
                         /\ UNCHANGED <<todo, read, goal, flagVars>>
    BY <1>9 DEF ClaimJob, drainVars, flagVars
  <2>2. j \in Job /\ attempts[j] \in 0 .. MaxAttempts /\ attempts[j] < MaxAttempts
    BY DEF StoreTypeOK, ScheduledIsClaimable
  <2>3. attempts[j] + 1 \in 0 .. MaxAttempts
    BY <2>2, MaxAttemptsAssumption
  <2> QED
    BY <2>1, <2>2, <2>3 DEF Goto, flagVars, WorkerTypes
<1>10. CASE ClaimNone(w)
  BY <1>10, ReturnTypes DEF ClaimNone, flagVars, WorkerTypes
<1>11. CASE RecordStarted(w)
  BY <1>11, <1>0 DEF RecordStarted, Stop, Goto, drainVars, flagVars, WorkerTypes
<1>12. CASE ConfirmBeforePublish(w)
  BY <1>12, ReturnTypes DEF ConfirmBeforePublish, Goto, drainVars, claimVars, flagVars, WorkerTypes
<1>13. CASE Publish(w)
  BY <1>13, <1>0 DEF Publish, Goto, drainVars, claimVars, flagVars, WorkerTypes
<1>14. ASSUME NEW r \in BOOLEAN, RunFails(w, r) PROVE WorkerTypes'
  BY <1>14 DEF RunFails, Stop, Goto, drainVars, FailureGoal, flagVars, WorkerTypes
<1>15. CASE ConfirmAfterRun(w)
  BY <1>15, ReturnTypes DEF ConfirmAfterRun, Stop, Goto, drainVars, flagVars, WorkerTypes
<1>16. CASE Stage(w)
  BY <1>16, ReturnTypes DEF Stage, AfterStaging, Goto, drainVars, claimVars, flagVars, WorkerTypes
<1>17. CASE RecordOutcome(w)
  BY <1>17, ReturnTypes DEF RecordOutcome, Goto, drainVars, claimVars, flagVars, WorkerTypes
<1>18. CASE AcknowledgeOutcome(w)
  BY <1>18, ReturnTypes DEF AcknowledgeOutcome, flagVars, WorkerTypes
<1>19. CASE Heartbeat(w) \/ RenewThrows(w) \/ LateAnswer(w)
  BY <1>19 DEF Heartbeat, RenewThrows, LateAnswer, drainVars, flagVars, WorkerTypes
<1>20. CASE Crash(w)
  BY <1>20, ReturnTypes DEF Crash
<1> QED
  BY <1>1, <1>2, <1>3, <1>4, <1>5, <1>6, <1>7, <1>8, <1>9, <1>10, <1>11, <1>12, <1>13,
     <1>14, <1>15, <1>16, <1>17, <1>18, <1>19, <1>20 DEF WorkerStep, Proceed

(* Every step is one worker's, or moves no worker at all. *)
LEMMA WorkersOrNone ==
  ASSUME [Next]_vars, ~UNCHANGED workerVars
  PROVE  \E w \in Worker : WorkerStep(w)
BY DEF Next, WorkerStep, Enqueue, EnqueueRecord, EnqueueActivate, EnqueueFails, Lapse, Tick,
       RevokeAccess, RestoreAccess, vars

(* Only ClaimJob brings a worker into a claim, and only it changes which.  *)
LEMMA StaysInClaim ==
  ASSUME WorkerTypes, NEW w \in Worker, WorkerStep(w), ~ClaimJob(w), pc'[w] \in InClaim
  PROVE  pc[w] \in InClaim /\ job'[w] = job[w] /\ attempt'[w] = attempt[w]
BY DEF WorkerStep, Proceed, Begin, ActivatePending, SchedulePending, RefusePending, Recover,
       FetchTransitions, RecordFetched, AcknowledgeFetched, ClaimNone, RecordStarted,
       ConfirmBeforePublish, Publish, RunFails, ConfirmAfterRun, Stage, RecordOutcome,
       AcknowledgeOutcome, Heartbeat, Crash, RenewThrows, LateAnswer, NextActivation, Return, Stop, Goto,
       drainVars, claimVars, flagVars, WorkerTypes

(* A claim is of the attempt after the last. *)
LEMMA ClaimsNextAttempt ==
  ASSUME StoreTypeOK, WorkerTypes, NEW w \in Worker, ClaimJob(w)
  PROVE  /\ pc'[w] = "starting" /\ job'[w] \in Job
         /\ attempt'[w] = attempts[job'[w]] + 1
         /\ attempts'[job'[w]] = attempts[job'[w]] + 1
<1>1. PICK j \in due : /\ Goto(w, "starting")
                       /\ job' = [job EXCEPT ![w] = j]
                       /\ attempt' = [attempt EXCEPT ![w] = attempts[j] + 1]
                       /\ attempts' = [attempts EXCEPT ![j] = @ + 1]
  BY DEF ClaimJob, Claim
<1>2. j \in Job
  BY DEF StoreTypeOK
<1> QED
  BY <1>1, <1>2 DEF Goto, WorkerTypes, StoreTypeOK

(* Workers keep a job in hand, and in a claim an attempt made of it.       *)
LEMMA HoldersStep ==
  ASSUME StoreTypeOK, WorkerTypes, WorkersHoldJobs, AttemptsGrow, [Next]_vars, WorkerTypes',
         StoreTypeOK'
  PROVE  WorkersHoldJobs'
<1> SUFFICES ASSUME NEW v \in Worker
             PROVE  /\ pc'[v] \in InClaim \cup {"scheduling", "refusing", "settling"}
                         => job'[v] \in Job
                    /\ pc'[v] \in InClaim => attempt'[v] \in 1 .. attempts'[job'[v]]
                    /\ pc'[v] = "staging" /\ goal'[v] = "retrying" => attempt'[v] < MaxAttempts
  BY DEF WorkersHoldJobs
<1>1. ASSUME Unmoved(v)
      PROVE  /\ pc'[v] \in InClaim \cup {"scheduling", "refusing", "settling"}
                  => job'[v] \in Job
             /\ pc'[v] \in InClaim => attempt'[v] \in 1 .. attempts'[job'[v]]
             /\ pc'[v] = "staging" /\ goal'[v] = "retrying" => attempt'[v] < MaxAttempts
  BY <1>1, MaxAttemptsAssumption DEF Unmoved, WorkersHoldJobs, AttemptsGrow, StoreTypeOK
<1>2. ASSUME WorkerStep(v)
      PROVE  pc'[v] \in InClaim => job'[v] \in Job /\ attempt'[v] \in 1 .. attempts'[job'[v]]
  <2>1. CASE ClaimJob(v)
    BY <2>1, ClaimsNextAttempt DEF StoreTypeOK
  <2>2. CASE ~ClaimJob(v)
    BY <1>2, <2>2, StaysInClaim, MaxAttemptsAssumption DEF WorkersHoldJobs, AttemptsGrow, StoreTypeOK
  <2> QED
    BY <2>1, <2>2
<1>3. ASSUME WorkerStep(v)
      PROVE  pc'[v] \in {"scheduling", "refusing", "settling"} => job'[v] \in Job
  <2>1. CASE ActivatePending(v)
    BY <2>1 DEF ActivatePending, Return, Goto, WorkerTypes
  <2>2. CASE RecordFetched(v)
    BY <2>2 DEF RecordFetched, Goto, WorkerTypes
  <2>3. CASE ~ActivatePending(v) /\ ~RecordFetched(v)
    BY <1>3, <2>3 DEF WorkerStep, Proceed, Begin, SchedulePending, RefusePending, Recover,
       FetchTransitions, AcknowledgeFetched, ClaimJob, ClaimNone, RecordStarted,
       ConfirmBeforePublish, Publish, RunFails, ConfirmAfterRun, Stage, AfterStaging, RecordOutcome,
       AcknowledgeOutcome, Heartbeat, Crash, RenewThrows, LateAnswer, NextActivation, Return, Stop, Goto,
       drainVars, claimVars, flagVars, WorkerTypes
  <2> QED
    BY <2>1, <2>2, <2>3
<1>4. ASSUME WorkerStep(v)
      PROVE  pc'[v] = "staging" /\ goal'[v] = "retrying" => attempt'[v] < MaxAttempts
  BY <1>4, MaxAttemptsAssumption DEF WorkerStep, Proceed, Begin, ActivatePending, SchedulePending,
       RefusePending, Recover,
       FetchTransitions, RecordFetched, AcknowledgeFetched, ClaimJob, ClaimNone, RecordStarted,
       ConfirmBeforePublish, Publish, RunFails, FailureGoal, ConfirmAfterRun, Stage, AfterStaging,
       RecordOutcome,
       AcknowledgeOutcome, Heartbeat, Crash, RenewThrows, LateAnswer, NextActivation, Return, Stop, Goto,
       drainVars, claimVars, flagVars, WorkerTypes, WorkersHoldJobs
<1>5. CASE UNCHANGED workerVars
  BY <1>1, <1>5 DEF workerVars, flagVars, Unmoved
<1>6. CASE ~UNCHANGED workerVars
  BY <1>1, <1>2, <1>3, <1>4, <1>6, WorkersOrNone, OthersStay
<1> QED
  BY <1>5, <1>6

(* No two workers come to be in one attempt: a claim's attempt is new.     *)
LEMMA OwnersStep ==
  ASSUME StoreTypeOK, WorkerTypes, WorkersHoldJobs, AttemptsAreOwned, [Next]_vars
  PROVE  AttemptsAreOwned'
<1>1. SUFFICES ASSUME NEW v \in Worker, NEW u \in Worker, v # u,
                      pc'[v] \in InClaim, pc'[u] \in InClaim, job'[v] = job'[u], WorkerStep(v)
               PROVE  attempt'[v] # attempt'[u]
  <2>1. CASE UNCHANGED workerVars
    BY <2>1 DEF AttemptsAreOwned, workerVars, flagVars
  <2>2. CASE ~UNCHANGED workerVars
    <3>1. PICK w \in Worker : WorkerStep(w)
      BY <2>2, WorkersOrNone
    <3>2. \A v \in Worker : v # w => Unmoved(v)
      BY <3>1, OthersStay
    <3> QED
      BY <1>1, <3>1, <3>2 DEF AttemptsAreOwned, Unmoved
  <2> QED
    BY <2>1, <2>2
<1>2. Unmoved(u)
  BY <1>1, OthersStay
<1>3. CASE ClaimJob(v)
  <2>1. attempt[u] \in 1 .. attempts[job[u]] /\ job[u] \in Job
    BY <1>1, <1>2 DEF Unmoved, WorkersHoldJobs
  <2> QED
    BY <1>1, <1>2, <1>3, <2>1, ClaimsNextAttempt, MaxAttemptsAssumption DEF Unmoved, StoreTypeOK
<1>4. CASE ~ClaimJob(v)
  BY <1>1, <1>2, <1>4, StaysInClaim DEF Unmoved, AttemptsAreOwned
<1> QED
  BY <1>3, <1>4

(* An attempt that has lost the lease never has it again. *)
LEMMA LeasesNeverReturn ==
  ASSUME StoreInv, [ClientNext]_storeVars,
         NEW j \in Job, NEW a \in 1 .. attempts[j], lease'[j] = a
  PROVE  lease[j] = a
<1>1. attempts[j] \in 0 .. MaxAttempts /\ lease[j] \in 0 .. MaxAttempts
  BY DEF StoreInv, StoreTypeOK
<1>2. ASSUME NEW k \in Job, NEW deferred \in SUBSET Contended, Claim(k, deferred)
      PROVE  lease[j] = a
  BY <1>1, <1>2, MaxAttemptsAssumption DEF Claim, StoreInv, StoreTypeOK
<1>3. ASSUME NEW k \in Job, AcknowledgeTransition(k) PROVE lease[j] = a
  BY <1>1, <1>3, MaxAttemptsAssumption DEF AcknowledgeTransition, StoreInv, StoreTypeOK
<1>4. CASE UNCHANGED lease
  BY <1>4
<1> QED
  BY <1>2, <1>3, <1>4 DEF ClientNext, Create, Activate, FailActivation, ClaimNothing,
     StageTransition, RecoverExpired, Renew, BecomesDue, LeaseLapses, LocksExpire, storeVars

(* Only the clock makes a lease lapse, and not one under a publication.    *)
LEMMA LapsesAreFenced ==
  ASSUME [Next]_vars, NEW j \in Job, j \in lapsed', j \notin lapsed
  PROVE  Lapse(j)
<1>1. ASSUME NEW k \in Job, LeaseLapses(k) PROVE k = j
  BY <1>1 DEF LeaseLapses
<1>2. ASSUME NEW k \in Job,
             Create(k) \/ Activate(k) \/ FailActivation(k) \/ BecomesDue(k) \/ LocksExpire(k)
      PROVE  FALSE
  BY <1>2 DEF Create, Activate, FailActivation, BecomesDue, LocksExpire
<1>3. ASSUME NEW k, AcknowledgeTransition(k) PROVE FALSE
  BY <1>3 DEF AcknowledgeTransition
<1>4. ASSUME NEW k, NEW deferred, Claim(k, deferred) PROVE FALSE
  BY <1>4 DEF Claim
<1>5. ASSUME NEW k, NEW l, Renew(k, l) PROVE FALSE
  BY <1>5 DEF Renew
<1>6. ~RecoverExpired /\ ~ClaimNothing /\ ~UNCHANGED storeVars
  BY DEF RecoverExpired, ClaimNothing, storeVars
<1>7. ASSUME NEW k, NEW l, NEW s, StageTransition(k, l, s) PROVE FALSE
  BY <1>7 DEF StageTransition
<1>8. ASSUME NEW w \in Worker, WorkerStep(w) PROVE FALSE
  <2>1. ~ClaimJob(w)
    BY <1>4 DEF ClaimJob
  <2>2. ~SchedulePending(w) /\ ~RefusePending(w)
    BY <1>6 DEF SchedulePending, RefusePending, Activate, FailActivation, storeVars
  <2>3. ~AcknowledgeFetched(w) /\ ~AcknowledgeOutcome(w)
    BY <1>3, <1>6 DEF AcknowledgeFetched, AcknowledgeOutcome
  <2>4. ~Heartbeat(w) /\ ~ConfirmBeforePublish(w) /\ ~ConfirmAfterRun(w)
    BY <1>5, <1>6 DEF Heartbeat, ConfirmBeforePublish, ConfirmAfterRun, AssertActive, LosesLease
  <2>5. ~Stage(w)
    BY <1>6, <1>7 DEF Stage
  <2> QED
    BY <1>6, <1>8, <2>1, <2>2, <2>3, <2>4, <2>5 DEF WorkerStep, Proceed, Begin, ActivatePending,
       Recover, FetchTransitions, RecordFetched, ClaimNone, RecordStarted, Publish, RunFails,
       RecordOutcome, Crash, RenewThrows, LateAnswer
<1> QED
  BY <1>1, <1>2, <1>6, <1>8 DEF Next, WorkerStep, Enqueue, EnqueueRecord, EnqueueActivate,
     EnqueueFails, Lapse, Tick, RevokeAccess, RestoreAccess, vars

(* A worker gets to the publication only by confirming its lease.          *)
LEMMA PublishingIsConfirmed ==
  ASSUME WorkerTypes, NEW w \in Worker, WorkerStep(w), pc'[w] = "publishing", pc[w] # "publishing"
  PROVE  job[w] \notin lapsed' /\ pc[w] = "running"
<1>1. ConfirmBeforePublish(w)
  BY DEF WorkerStep, Proceed, Begin, ActivatePending, SchedulePending, RefusePending, Recover,
       FetchTransitions, RecordFetched, AcknowledgeFetched, ClaimJob, ClaimNone, RecordStarted,
       Publish, RunFails, ConfirmAfterRun, Stage, AfterStaging, RecordOutcome,
       AcknowledgeOutcome, Heartbeat, Crash, RenewThrows, LateAnswer, NextActivation, Return, Stop, Goto,
       WorkerTypes
<1> QED
  BY <1>1 DEF ConfirmBeforePublish, Return, Goto, AssertActive, Renew, WorkerTypes

(* A confirmed lease stays unlapsed under its publication.                *)
LEMMA PublishingStep ==
  ASSUME StoreInv, WorkerTypes, WorkersHoldJobs, PublishingWithinLease, [Next]_vars,
         [ClientNext]_storeVars
  PROVE  PublishingWithinLease'
<1>1. SUFFICES ASSUME NEW v \in Worker, pc'[v] = "publishing", lease'[job'[v]] = attempt'[v],
                      job'[v] \in lapsed'
               PROVE  FALSE
  BY DEF PublishingWithinLease
<1>2. pc[v] = "publishing" /\ job'[v] = job[v] /\ attempt'[v] = attempt[v]
  <2>1. CASE WorkerStep(v)
    <3>1. ~ClaimJob(v)
      BY <1>1 DEF ClaimJob, Goto, WorkerTypes
    <3> QED
      BY <1>1, <2>1, <3>1, StaysInClaim, PublishingIsConfirmed
  <2>2. CASE ~WorkerStep(v)
    BY <1>1, <2>2, WorkersOrNone, OthersStay DEF Unmoved, workerVars, flagVars
  <2> QED
    BY <2>1, <2>2
<1>3. job[v] \in Job /\ attempt[v] \in 1 .. attempts[job[v]]
  BY <1>2 DEF WorkersHoldJobs
<1>4. lease[job[v]] = attempt[v]
  BY <1>1, <1>2, <1>3, LeasesNeverReturn
<1>5. job[v] \notin lapsed
  BY <1>2, <1>4 DEF PublishingWithinLease
<1>6. Lapse(job[v])
  BY <1>1, <1>2, <1>3, <1>5, LapsesAreFenced
<1> QED
  BY <1>2, <1>4, <1>6 DEF Lapse

-----------------------------------------------------------------------------
(* Facts.                                                                  *)

\* The fact that a step of w appends, when it appends one.
Appended(w) ==
  \/ pc[w] = "activating" /\ \E j \in todo[w] : facts' = facts \cup {<<"queued", j, 0>>}
  \/ pc[w] = "starting" /\ facts' = facts \cup {<<"started", job[w], attempt[w]>>}
  \/ pc[w] = "recording" /\ facts' = facts \cup {<<Kind(goal[w]), job[w], attempt[w]>>}
  \/ /\ pc[w] = "draining"
     /\ \E j \in Job :
          /\ read[w][j] # NoTransition
          /\ facts' = facts \cup {<<Kind(read[w][j].status), j, read[w][j].lease>>}

(* A worker changes the facts only by appending its own.                  *)
LEMMA WorkerAppends ==
  ASSUME NEW w \in Worker, WorkerStep(w), ~UNCHANGED facts
  PROVE  Appended(w)
BY DEF Appended, Append, WorkerStep, Proceed, Begin, ActivatePending, SchedulePending,
       RefusePending, Recover, FetchTransitions, RecordFetched, AcknowledgeFetched, ClaimJob,
       ClaimNone, RecordStarted, ConfirmBeforePublish, Publish, RunFails, ConfirmAfterRun, Stage,
       RecordOutcome, AcknowledgeOutcome, Heartbeat, Crash, RenewThrows, LateAnswer

\* What any step may do to the facts.
FactStep ==
  \/ UNCHANGED facts
  \/ \E w \in Worker : Appended(w)
  \/ \E j \in Job : facts' = facts \cup {<<"queued", j, 0>>}
  \/ \E r \in Revocable : purged' = purged \cup {r} /\ facts' = {f \in facts : RepositoryOf[f[2]] # r}

(* Facts are appended one at a time and deleted a repository at a time.   *)
LEMMA FactsStep == [Next]_vars => FactStep
  BY WorkerAppends DEF FactStep, Next, WorkerStep, Enqueue, EnqueueRecord, EnqueueActivate,
     EnqueueFails, Lapse, Tick, Append, RevokeAccess, RestoreAccess, vars

(* A repository once purged counts as purged for good.                    *)
LEMMA PurgedGrows == [Next]_vars => purged \subseteq purged'
<1>1. ASSUME NEW w \in Worker, WorkerStep(w) PROVE UNCHANGED purged
  BY <1>1 DEF WorkerStep, Proceed, Begin, ActivatePending, SchedulePending,
       RefusePending, Recover, FetchTransitions, RecordFetched, AcknowledgeFetched, ClaimJob,
       ClaimNone, RecordStarted, ConfirmBeforePublish, Publish, RunFails, ConfirmAfterRun, Stage,
       RecordOutcome, AcknowledgeOutcome, Heartbeat, Crash, RenewThrows, LateAnswer, accessVars
<1> QED
  BY <1>1 DEF Next, WorkerStep, Enqueue, EnqueueRecord, EnqueueActivate,
     EnqueueFails, Lapse, Tick, RevokeAccess, RestoreAccess, vars, accessVars

(* The facts of a kept repository stay.                                    *)
LEMMA KeptFactsStay ==
  ASSUME [Next]_vars, NEW j \in Job, RepositoryOf[j] \notin purged'
  PROVE  Kept(j) /\ \A k, a : <<k, j, a>> \in facts => <<k, j, a>> \in facts'
<1>1. Kept(j)
  BY PurgedGrows DEF Kept
<1> QED
  BY <1>1, FactsStep DEF FactStep, Appended, Kept

FactTypes ==
  /\ submitter \in [Job -> {"none", "recording", "scheduling"}]
  /\ facts \subseteq {"queued", "started", "retry_scheduled", "completed", "failed"}
                     \X Job \X (0 .. MaxAttempts)
  /\ revoked \subseteq purged /\ purged \subseteq Repository
  /\ faults \in 0 .. MaxFaults

(* Submitters, facts, revocations and the fault count stay well typed.    *)
LEMMA FactTypesStep ==
  ASSUME WorkerTypes, WorkersHoldJobs, GoalsAreGiven, FactTypes, [Next]_vars
  PROVE  FactTypes'
<1>1. submitter' \in [Job -> {"none", "recording", "scheduling"}]
  <2>1. ASSUME NEW w \in Worker, WorkerStep(w) PROVE UNCHANGED submitter
    BY <2>1 DEF WorkerStep, Proceed, Begin, ActivatePending, SchedulePending,
       RefusePending, Recover, FetchTransitions, RecordFetched, AcknowledgeFetched, ClaimJob,
       ClaimNone, RecordStarted, ConfirmBeforePublish, Publish, RunFails, ConfirmAfterRun, Stage,
       RecordOutcome, AcknowledgeOutcome, Heartbeat, Crash, RenewThrows, LateAnswer
  <2> QED
    BY <2>1 DEF FactTypes, Next, WorkerStep, Enqueue, EnqueueRecord, EnqueueActivate,
       EnqueueFails, Lapse, Tick, RevokeAccess, RestoreAccess, vars
<1>2. revoked' \subseteq purged' /\ purged' \subseteq Repository
  <2>1. ASSUME NEW w \in Worker, WorkerStep(w) PROVE UNCHANGED accessVars
    BY <2>1 DEF WorkerStep, Proceed, Begin, ActivatePending, SchedulePending,
       RefusePending, Recover, FetchTransitions, RecordFetched, AcknowledgeFetched, ClaimJob,
       ClaimNone, RecordStarted, ConfirmBeforePublish, Publish, RunFails, ConfirmAfterRun, Stage,
       RecordOutcome, AcknowledgeOutcome, Heartbeat, Crash, RenewThrows, LateAnswer, accessVars
  <2>2. ASSUME NEW r \in Revocable, RevokeAccess(r) \/ RestoreAccess(r)
        PROVE  revoked' \subseteq purged' /\ purged' \subseteq Repository
    BY <2>2, RevocableAssumption DEF RevokeAccess, RestoreAccess, FactTypes
  <2>3. CASE UNCHANGED accessVars
    BY <2>3 DEF accessVars, FactTypes
  <2> QED
    BY <2>1, <2>2, <2>3 DEF Next, WorkerStep, Enqueue, EnqueueRecord, EnqueueActivate,
       EnqueueFails, Lapse, Tick, vars
<1>3. faults' \in 0 .. MaxFaults
  <2>1. ASSUME NEW w \in Worker, Crash(w) \/ RenewThrows(w) \/ LateAnswer(w) PROVE faults' \in 0 .. MaxFaults
    BY <2>1, MaxFaultsAssumption DEF Crash, RenewThrows, LateAnswer, FactTypes
  <2>2. ASSUME NEW w \in Worker, Proceed(w) \/ Heartbeat(w) PROVE UNCHANGED faults
    BY <2>2 DEF Proceed, Begin, ActivatePending, SchedulePending,
       RefusePending, Recover, FetchTransitions, RecordFetched, AcknowledgeFetched, ClaimJob,
       ClaimNone, RecordStarted, ConfirmBeforePublish, Publish, RunFails, ConfirmAfterRun, Stage,
       RecordOutcome, AcknowledgeOutcome, Heartbeat
  <2> QED
    BY <2>1, <2>2 DEF Next, Enqueue, EnqueueRecord, EnqueueActivate,
       EnqueueFails, Lapse, Tick, RevokeAccess, RestoreAccess, vars, FactTypes
<1>4. facts' \subseteq {"queued", "started", "retry_scheduled", "completed", "failed"}
                      \X Job \X (0 .. MaxAttempts)
  <2> DEFINE F == {"queued", "started", "retry_scheduled", "completed", "failed"}
                  \X Job \X (0 .. MaxAttempts)
  <2>1. ASSUME NEW w \in Worker, Appended(w) PROVE facts' \subseteq F
    <3>1. 0 \in 0 .. MaxAttempts
      BY MaxAttemptsAssumption
    <3>2. ASSUME NEW j \in Job, read[w][j] # NoTransition
          PROVE  Kind(read[w][j].status) \in {"retry_scheduled", "completed", "failed"}
                 /\ read[w][j].lease \in 0 .. MaxAttempts
      BY <3>2, MaxAttemptsAssumption DEF WorkerTypes, Kind, Transition
    <3>3. pc[w] = "recording" => Kind(goal[w]) \in {"retry_scheduled", "completed", "failed"}
      BY DEF GoalsAreGiven, Kind
    <3>4. attempt[w] \in 0 .. MaxAttempts /\ todo[w] \subseteq Job
      BY DEF WorkerTypes
    <3>5. pc[w] \in {"starting", "recording"} => job[w] \in Job
      BY DEF WorkersHoldJobs
    <3> QED
      BY <2>1, <3>1, <3>2, <3>3, <3>4, <3>5 DEF Appended, FactTypes
  <2> QED
    BY <2>1, FactsStep, MaxAttemptsAssumption DEF FactStep, FactTypes
<1> QED
  BY <1>1, <1>2, <1>3, <1>4 DEF FactTypes

(* A submitter and a worker go on to activate a job with its fact stored.  *)
LEMMA BeforeActivationStep ==
  ASSUME WorkerTypes, FactTypes, WorkersHoldJobs', FactsBeforeActivation, [Next]_vars
  PROVE  FactsBeforeActivation'
<1>1. ASSUME NEW j \in Job, RepositoryOf[j] \notin purged', submitter'[j] = "scheduling"
      PROVE  <<"queued", j, 0>> \in facts'
  <2>1. CASE submitter[j] = "scheduling"
    BY <1>1, <2>1, KeptFactsStay DEF FactsBeforeActivation
  <2>2. CASE submitter[j] # "scheduling"
    <3>1. ASSUME NEW w \in Worker, WorkerStep(w) PROVE UNCHANGED submitter
      BY <3>1 DEF WorkerStep, Proceed, Begin, ActivatePending, SchedulePending,
         RefusePending, Recover, FetchTransitions, RecordFetched, AcknowledgeFetched, ClaimJob,
         ClaimNone, RecordStarted, ConfirmBeforePublish, Publish, RunFails, ConfirmAfterRun, Stage,
         RecordOutcome, AcknowledgeOutcome, Heartbeat, Crash, RenewThrows, LateAnswer
    <3>2. EnqueueRecord(j)
      BY <1>1, <2>2, <3>1 DEF FactTypes, Next, WorkerStep, Enqueue, EnqueueRecord,
         EnqueueActivate, EnqueueFails, Lapse, Tick, RevokeAccess, RestoreAccess, vars
    <3> QED
      BY <3>2 DEF EnqueueRecord, Append
  <2> QED
    BY <2>1, <2>2
<1>2. ASSUME NEW v \in Worker, pc'[v] = "scheduling", RepositoryOf[job'[v]] \notin purged'
      PROVE  <<"queued", job'[v], 0>> \in facts'
  <2> job'[v] \in Job
    BY <1>2 DEF WorkersHoldJobs
  <2>1. CASE pc[v] = "scheduling" /\ job'[v] = job[v]
    BY <1>2, <2>1, KeptFactsStay DEF FactsBeforeActivation, Kept
  <2>2. CASE ~(pc[v] = "scheduling" /\ job'[v] = job[v])
    <3>1. WorkerStep(v)
      BY <1>2, <2>2, WorkersOrNone, OthersStay DEF Unmoved, workerVars, flagVars
    <3>2. ActivatePending(v)
      BY <1>2, <2>2, <3>1 DEF WorkerStep, Proceed, Begin, SchedulePending, RefusePending, Recover,
         FetchTransitions, RecordFetched, AcknowledgeFetched, ClaimJob, ClaimNone, RecordStarted,
         ConfirmBeforePublish, Publish, RunFails, ConfirmAfterRun, Stage, AfterStaging,
         RecordOutcome, AcknowledgeOutcome, Heartbeat, Crash, RenewThrows, LateAnswer, NextActivation, Return,
         Stop, Goto, drainVars, claimVars, flagVars, WorkerTypes
    <3> QED
      BY <1>2, <3>2 DEF ActivatePending, Return, Goto, Append, WorkerTypes
  <2> QED
    BY <2>1, <2>2
<1> QED
  BY <1>1, <1>2 DEF FactsBeforeActivation, Kept

(* A job is let be claimed by an activation and by nothing else.           *)
LEMMA OnlyActivationReleases ==
  ASSUME StoreInv, [ClientNext]_storeVars, NEW j \in Job,
         ~Activate(j), j \in scheduled' \/ attempts'[j] > 0
  PROVE  j \in scheduled \/ attempts[j] > 0
<1>1. attempts[j] \in 0 .. MaxAttempts
  BY DEF StoreInv, StoreTypeOK
<1>2. ASSUME NEW k \in Job, Activate(k) PROVE j \in scheduled \/ attempts[j] > 0
  BY <1>2 DEF Activate
<1>3. ASSUME NEW k \in Job, NEW deferred \in SUBSET Contended, Claim(k, deferred)
      PROVE  j \in scheduled \/ attempts[j] > 0
  BY <1>3 DEF Claim, StoreInv, StoreTypeOK
<1>4. ASSUME NEW k \in Job, AcknowledgeTransition(k) PROVE j \in scheduled \/ attempts[j] > 0
  <2>1. attempts[k] \in 1 .. MaxAttempts /\ attempts' = attempts
    BY <1>4, MaxAttemptsAssumption DEF AcknowledgeTransition, MayAcknowledge, StoreInv,
       StoreTypeOK, StagedMatchesAttempt, Transition
  <2> QED
    BY <1>4, <2>1 DEF AcknowledgeTransition
<1> QED
  BY <1>2, <1>3, <1>4 DEF ClientNext, Create, FailActivation, ClaimNothing,
     StageTransition, RecoverExpired, Renew, BecomesDue, LeaseLapses, LocksExpire, storeVars

(* Whoever activates a job has its review.queued fact stored.              *)
LEMMA ActivationIsRecorded ==
  ASSUME StoreInv, WorkersHoldJobs, FactsBeforeActivation, [Next]_vars,
         NEW j \in Job, Activate(j), Kept(j), j \notin scheduled
  PROVE  <<"queued", j, 0>> \in facts
<1> status[j] = "queued" /\ j \in scheduled'
  BY DEF Activate
<1>1. CASE EnqueueActivate(j)
  BY <1>1 DEF EnqueueActivate, FactsBeforeActivation
<1>2. ASSUME NEW w \in Worker, SchedulePending(w)
      PROVE  <<"queued", j, 0>> \in facts
  BY <1>2 DEF SchedulePending, FactsBeforeActivation, Activate, storeVars
<1>3. ASSUME NEW k \in Job, EnqueueActivate(k), k # j PROVE FALSE
  BY <1>3 DEF EnqueueActivate, Activate, storeVars
<1>4. ASSUME NEW k \in Job, Enqueue(k) \/ Lapse(k) \/ Tick(k) PROVE FALSE
  BY <1>4 DEF Enqueue, Create, Lapse, LeaseLapses, Tick, BecomesDue, LocksExpire
<1>5. ~UNCHANGED storeVars /\ ~RecoverExpired /\ ~ClaimNothing
  BY DEF storeVars, RecoverExpired, ClaimNothing
<1>6. ASSUME NEW k \in Job, AcknowledgeTransition(k) PROVE FALSE
  BY <1>6 DEF AcknowledgeTransition, MayAcknowledge, StoreInv, StagedMatchesAttempt
<1>7. ASSUME NEW w \in Worker, WorkerStep(w), ~SchedulePending(w) PROVE FALSE
  <2>1. ~ClaimJob(w)
    BY DEF ClaimJob, Claim
  <2>2. ~RefusePending(w)
    BY <1>5 DEF RefusePending, FailActivation
  <2>3. ~AcknowledgeFetched(w) /\ ~AcknowledgeOutcome(w)
    BY <1>5, <1>6 DEF AcknowledgeFetched, AcknowledgeOutcome, WorkersHoldJobs
  <2>4. ~Heartbeat(w) /\ ~ConfirmBeforePublish(w) /\ ~ConfirmAfterRun(w)
    BY <1>5 DEF Heartbeat, ConfirmBeforePublish, ConfirmAfterRun, AssertActive, LosesLease, Renew
  <2>5. ~Stage(w)
    BY <1>5 DEF Stage, StageTransition
  <2> QED
    BY <1>5, <1>7, <2>1, <2>2, <2>3, <2>4, <2>5 DEF WorkerStep, Proceed, Begin, ActivatePending,
       Recover, FetchTransitions, RecordFetched, ClaimNone, RecordStarted, Publish, RunFails,
       RecordOutcome, Crash, RenewThrows, LateAnswer
<1> QED
  BY <1>1, <1>2, <1>3, <1>4, <1>5, <1>7 DEF Next, WorkerStep, EnqueueRecord, EnqueueFails,
     RevokeAccess, RestoreAccess, vars

(* Work is let begin, and begins, only after its fact.                    *)
LEMMA BeforeWorkStep ==
  ASSUME StoreInv, WorkerTypes, WorkersHoldJobs, WorkersHoldJobs', FactTypes,
         FactsBeforeActivation, FactsBeforeWork, [Next]_vars, [ClientNext]_storeVars
  PROVE  FactsBeforeWork'
<1>1. ASSUME NEW j \in Job, RepositoryOf[j] \notin purged', j \in scheduled' \/ attempts'[j] > 0
      PROVE  <<"queued", j, 0>> \in facts'
  <2>1. CASE j \in scheduled \/ attempts[j] > 0
    BY <1>1, <2>1, KeptFactsStay DEF FactsBeforeWork
  <2>2. CASE Activate(j) /\ j \notin scheduled
    BY <1>1, <2>2, KeptFactsStay, ActivationIsRecorded
  <2> QED
    BY <1>1, <2>1, <2>2, OnlyActivationReleases
<1>2. ASSUME NEW v \in Worker, pc'[v] \in {"running", "publishing", "finishing"},
             RepositoryOf[job'[v]] \notin purged'
      PROVE  <<"started", job'[v], attempt'[v]>> \in facts'
  <2> job'[v] \in Job
    BY <1>2 DEF WorkersHoldJobs
  <2>1. CASE pc[v] \in {"running", "publishing", "finishing"} /\ job'[v] = job[v]
             /\ attempt'[v] = attempt[v]
    BY <1>2, <2>1, KeptFactsStay DEF FactsBeforeWork, Kept
  <2>2. CASE ~(pc[v] \in {"running", "publishing", "finishing"} /\ job'[v] = job[v]
               /\ attempt'[v] = attempt[v])
    <3>1. WorkerStep(v)
      BY <1>2, <2>2, WorkersOrNone, OthersStay DEF Unmoved, workerVars, flagVars
    <3>2. RecordStarted(v)
      BY <1>2, <2>2, <3>1 DEF WorkerStep, Proceed, Begin, ActivatePending, SchedulePending,
         RefusePending, Recover,
         FetchTransitions, RecordFetched, AcknowledgeFetched, ClaimJob, ClaimNone,
         ConfirmBeforePublish, Publish, RunFails, ConfirmAfterRun, Stage, AfterStaging,
         RecordOutcome, AcknowledgeOutcome, Heartbeat, Crash, RenewThrows, LateAnswer, NextActivation, Return,
         Stop, Goto, drainVars, claimVars, flagVars, WorkerTypes
    <3> QED
      BY <1>2, <3>2 DEF RecordStarted, Stop, Goto, Append, WorkerTypes
  <2> QED
    BY <2>1, <2>2
<1> QED
  BY <1>1, <1>2 DEF FactsBeforeWork, Kept

-----------------------------------------------------------------------------
(* Outcomes.                                                               *)

(* A worker's copy of the transitions stays what the queue gives.          *)
LEMMA ReadsStep ==
  ASSUME StoreTypeOK, StoreTypeOK', WorkerTypes, WorkersHoldJobs, ReadsAreGiven, [Next]_vars, OutcomesStay
  PROVE  ReadsAreGiven'
<1>1. SUFFICES ASSUME NEW v \in Worker, NEW j \in Job, read'[v][j] # NoTransition
               PROVE  GivenNext(j, read'[v][j].status, read'[v][j].lease)
  BY DEF ReadsAreGiven, Given, GivenNext
<1>2. CASE read'[v][j] = read[v][j]
  <2>1. read[v][j] \in Transition
    BY <1>1, <1>2 DEF WorkerTypes
  <2>2. read[v][j].status \in Outcome /\ read[v][j].lease \in 0 .. MaxAttempts
    BY <2>1, MaxAttemptsAssumption DEF Transition
  <2>3. Given(j, read[v][j].status, read[v][j].lease)
    BY <1>1, <1>2 DEF ReadsAreGiven
  <2>4. GivenNext(j, read[v][j].status, read[v][j].lease)
    BY <2>2, <2>3 DEF OutcomesStay
  <2> QED
    BY <1>2, <2>4
<1>3. CASE read'[v][j] # read[v][j]
  <2>1. WorkerStep(v)
    BY <1>3, WorkersOrNone, OthersStay DEF Unmoved, workerVars, flagVars
  <2>2. ~Return(v)
    BY <1>1 DEF Return, NothingRead, WorkerTypes
  <2>3. ~AcknowledgeFetched(v)
    BY <1>1, <1>3 DEF AcknowledgeFetched, WorkerTypes, WorkersHoldJobs
  <2>4. FetchTransitions(v)
    BY <1>3, <2>1, <2>2, <2>3 DEF WorkerStep, Proceed, Begin, ActivatePending, SchedulePending,
         RefusePending, Recover, RecordFetched, ClaimJob, ClaimNone, RecordStarted,
         ConfirmBeforePublish, Publish, RunFails, ConfirmAfterRun, Stage,
         RecordOutcome, AcknowledgeOutcome, Heartbeat, Crash, RenewThrows, LateAnswer, NextActivation,
         Stop, drainVars, claimVars, flagVars
  <2>5. read'[v][j] = staged[j] /\ staged' = staged
    BY <2>4 DEF FetchTransitions, storeVars, WorkerTypes
  <2>6. staged'[j] = [status |-> read'[v][j].status, lease |-> read'[v][j].lease]
    BY <1>1, <2>5 DEF StoreTypeOK, Transition
  <2> QED
    BY <2>6 DEF GivenNext
<1> QED
  BY <1>2, <1>3

(* A worker records the outcome that it staged.                            *)
LEMMA GoalsStep ==
  ASSUME StoreTypeOK, WorkerTypes, WorkersHoldJobs, GoalsAreGiven, [Next]_vars, OutcomesStay
  PROVE  GoalsAreGiven'
<1>1. SUFFICES ASSUME NEW v \in Worker, pc'[v] = "recording"
               PROVE  goal'[v] \in Outcome /\ GivenNext(job'[v], goal'[v], attempt'[v])
  BY DEF GoalsAreGiven, Given, GivenNext
<1>2. CASE pc[v] = "recording" /\ job'[v] = job[v] /\ attempt'[v] = attempt[v] /\ goal'[v] = goal[v]
  <2>1. job[v] \in Job /\ attempt[v] \in 0 .. MaxAttempts
    BY <1>2 DEF WorkersHoldJobs, WorkerTypes
  <2>2. goal[v] \in Outcome /\ Given(job[v], goal[v], attempt[v])
    BY <1>2 DEF GoalsAreGiven
  <2>3. GivenNext(job[v], goal[v], attempt[v])
    BY <2>1, <2>2 DEF OutcomesStay
  <2> QED
    BY <1>2, <2>2, <2>3
<1>3. CASE ~(pc[v] = "recording" /\ job'[v] = job[v] /\ attempt'[v] = attempt[v] /\ goal'[v] = goal[v])
  <2>1. WorkerStep(v)
    BY <1>1, <1>3, WorkersOrNone, OthersStay DEF Unmoved, workerVars, flagVars
  <2>2. Stage(v)
    BY <1>1, <1>3, <2>1 DEF WorkerStep, Proceed, Begin, ActivatePending, SchedulePending,
         RefusePending, Recover, FetchTransitions, RecordFetched, AcknowledgeFetched, ClaimJob,
         ClaimNone, RecordStarted,
         ConfirmBeforePublish, Publish, RunFails, ConfirmAfterRun,
         RecordOutcome, AcknowledgeOutcome, Heartbeat, Crash, RenewThrows, LateAnswer, NextActivation, Return,
         Stop, Goto, drainVars, claimVars, flagVars, WorkerTypes
  <2>3. /\ goal[v] # "refused" /\ goal' = goal /\ job' = job /\ attempt' = attempt
        /\ StageTransition(job[v], attempt[v], goal[v]) /\ pc[v] = "staging"
    BY <1>1, <2>2 DEF Stage, AfterStaging, Staged, Return, Goto, drainVars, claimVars, flagVars, WorkerTypes
  <2>4. job[v] \in Job
    BY <2>3 DEF WorkersHoldJobs
  <2>5. staged'[job'[v]] = [status |-> goal'[v], lease |-> attempt'[v]]
    BY <2>3, <2>4 DEF StageTransition, StoreTypeOK
  <2> QED
    BY <2>3, <2>5 DEF GivenNext, WorkerTypes, Goal
<1> QED
  BY <1>2, <1>3

\* An outcome fact is of an outcome the queue gives.
GivenFacts ==
  \A k, a : \A j \in Job, s \in Outcome : <<k, j, a>> \in facts /\ k = Kind(s) => Given(j, s, a)

(* The same as LedgerMatchesQueue, in the terms in which it is inductive.  *)
LEMMA LedgerInOtherTerms ==
  ASSUME StoreTypeOK, FactTypes
  PROVE  LedgerMatchesQueue <=> GivenFacts
<1>1. ASSUME NEW j \in Job, staged[j] # NoTransition
      PROVE  /\ staged[j].status \in Outcome
             /\ staged[j] = [status |-> staged[j].status, lease |-> staged[j].lease]
  BY <1>1 DEF StoreTypeOK, Transition
<1>2. ASSUME NEW s \in Status \cup {"none"}, NEW t \in Outcome, Kind(s) = Kind(t) PROVE s = t
  BY <1>2 DEF Kind
<1>3. ASSUME LedgerMatchesQueue PROVE GivenFacts
  <2>1. SUFFICES ASSUME NEW k, NEW a, NEW j \in Job, NEW s \in Outcome,
                        <<k, j, a>> \in facts, k = Kind(s)
                 PROVE  Given(j, s, a)
    BY DEF GivenFacts
  <2>2. \/ staged[j].lease = a /\ Kind(staged[j].status) = Kind(s)
        \/ attempts[j] = a /\ Kind(status[j]) = Kind(s)
        \/ attempts[j] > a /\ Kind(s) = "retry_scheduled"
    BY <1>3, <2>1 DEF LedgerMatchesQueue, Kind
  <2>3. staged[j].status \in Status \cup {"none"} /\ status[j] \in Status
    BY <1>1 DEF NoTransition, StoreTypeOK
  <2>4. Kind(s) = "retry_scheduled" => s = "retrying"
    BY DEF Kind
  <2>5. CASE staged[j].lease = a /\ Kind(staged[j].status) = Kind(s)
    BY <1>1, <1>2, <2>3, <2>5 DEF Given, NoTransition
  <2> QED
    BY <1>2, <2>2, <2>3, <2>4, <2>5 DEF Given
<1>4. ASSUME GivenFacts PROVE LedgerMatchesQueue
  <2>1. SUFFICES ASSUME NEW f \in facts, f[1] \in {"retry_scheduled"} \cup Terminal
                 PROVE  \/ staged[f[2]].lease = f[3] /\ Kind(staged[f[2]].status) = f[1]
                        \/ attempts[f[2]] = f[3] /\ Kind(status[f[2]]) = f[1]
                        \/ attempts[f[2]] > f[3] /\ f[1] = "retry_scheduled"
    BY DEF LedgerMatchesQueue
  <2>2. f = <<f[1], f[2], f[3]>> /\ f[2] \in Job
    BY DEF FactTypes
  <2>3. PICK s \in Outcome : f[1] = Kind(s)
    BY <2>1 DEF Kind
  <2>4. Given(f[2], s, f[3])
    BY <1>4, <2>2, <2>3 DEF GivenFacts
  <2> QED
    BY <2>3, <2>4 DEF Given, Kind
<1> QED
  BY <1>3, <1>4

(* An outcome is recorded only as what the queue gives, and stays so.      *)
LEMMA LedgerStep ==
  ASSUME StoreTypeOK, StoreTypeOK', WorkerTypes, FactTypes, FactTypes', WorkersHoldJobs,
         ReadsAreGiven, GoalsAreGiven, LedgerMatchesQueue, [Next]_vars, OutcomesStay
  PROVE  LedgerMatchesQueue'
<1>1. SUFFICES ASSUME NEW k, NEW a, NEW j \in Job, NEW s \in Outcome,
                      <<k, j, a>> \in facts', k = Kind(s)
               PROVE  GivenNext(j, s, a)
  <2>1. (LedgerMatchesQueue <=> GivenFacts)'
    BY LedgerInOtherTerms, PTL
  <2> QED
    BY <1>1, <2>1 DEF GivenFacts, Given, GivenNext
<1>2. a \in 0 .. MaxAttempts
  BY <1>1 DEF FactTypes
<1>3. Given(j, s, a)
  <2>1. CASE <<k, j, a>> \in facts
    BY <1>1, <2>1, LedgerInOtherTerms DEF GivenFacts
  <2>2. ASSUME NEW w \in Worker, Appended(w), <<k, j, a>> \notin facts PROVE Given(j, s, a)
    <3>1. k \notin {"queued", "started"}
      BY <1>1 DEF Kind
    <3>2. \A t \in Outcome : Kind(t) = Kind(s) => t = s
      BY DEF Kind
    <3>3. CASE pc[w] = "recording" /\ <<k, j, a>> = <<Kind(goal[w]), job[w], attempt[w]>>
      BY <1>1, <3>2, <3>3 DEF GoalsAreGiven
    <3>4. ASSUME NEW i \in Job, read[w][i] # NoTransition,
                 <<k, j, a>> = <<Kind(read[w][i].status), i, read[w][i].lease>>
          PROVE  Given(j, s, a)
      <4>1. read[w][i].status \in Outcome
        BY <3>4 DEF WorkerTypes, Transition
      <4> QED
        BY <1>1, <3>2, <3>4, <4>1 DEF ReadsAreGiven
    <3> QED
      BY <1>1, <2>2, <3>1, <3>3, <3>4 DEF Appended
  <2> QED
    BY <1>1, <2>1, <2>2, FactsStep DEF FactStep, Kind
<1> QED
  BY <1>2, <1>3 DEF OutcomesStay

-----------------------------------------------------------------------------
(* Every step keeps the invariant. *)
LEMMA QueueStep == QueueInv /\ [Next]_vars => QueueInv'
<1> SUFFICES ASSUME QueueInv, [Next]_vars PROVE QueueInv'
  OBVIOUS
<1> USE DEF QueueInv
<1>1. WorkerTypes /\ FactTypes /\ StoreTypeOK /\ ScheduledIsClaimable
  BY DEF TypeOK, WorkerTypes, FactTypes, StoreInv
<1>2. [ClientNext]_storeVars
  BY StepIsClientStep
<1>3. StoreInv' /\ StoreTypeOK'
  BY <1>2, ClientStepIsStoreStep, StoreInvInductive DEF StoreInv
<1>4. AttemptsGrow /\ OutcomesStay
  BY <1>2, AttemptsOnlyGrow, GivenOutcomesStay
<1>5. WorkerTypes'
  <2>1. CASE UNCHANGED workerVars
    BY <1>1, <2>1 DEF workerVars, flagVars, WorkerTypes
  <2>2. CASE ~UNCHANGED workerVars
    BY <1>1, <2>2, WorkersOrNone, WorkerStepTypes
  <2> QED
    BY <2>1, <2>2
<1>6. WorkersHoldJobs'
  BY <1>1, <1>3, <1>4, <1>5, HoldersStep
<1>7. AttemptsAreOwned' /\ PublishingWithinLease'
  BY <1>1, <1>2, OwnersStep, PublishingStep
<1>8. FactTypes'
  BY <1>1, FactTypesStep
<1>9. FactsBeforeActivation' /\ FactsBeforeWork'
  BY <1>1, <1>2, <1>6, BeforeActivationStep, BeforeWorkStep
<1>10. ReadsAreGiven' /\ GoalsAreGiven' /\ LedgerMatchesQueue'
  BY <1>1, <1>3, <1>4, <1>8, ReadsStep, GoalsStep, LedgerStep
<1>11. TypeOK'
  BY <1>3, <1>5, <1>8 DEF TypeOK, WorkerTypes, FactTypes
<1> QED
  BY <1>3, <1>6, <1>7, <1>9, <1>10, <1>11

(* The invariant holds in every reachable state of the protocol.           *)
THEOREM QueueInvariant == Spec => []QueueInv
<1>1. Init => QueueInv
  BY QueueInit
<1>2. QueueInv /\ [Next]_vars => QueueInv'
  BY QueueStep
<1> QED
  BY <1>1, <1>2, PTL DEF Spec

(* Workers, submitters, ledger and store are well typed throughout.        *)
THEOREM QueueTypeCorrect == Spec => []TypeOK
<1>1. QueueInv => TypeOK
  BY DEF QueueInv
<1> QED
  BY <1>1, QueueInvariant, PTL

(* The ledger leads the queue: work is claimable, and effects happen, only *)
(* with their facts durable, whoever activated the job and whatever failed *)
(* (review-queue.ts:187, 240-244).                                         *)
THEOREM FactsComeFirst == Spec => []FactsBeforeWork
<1>1. QueueInv => FactsBeforeWork
  BY DEF QueueInv
<1> QED
  BY <1>1, QueueInvariant, PTL

(* The ledger never contradicts the queue, however old the copy of a       *)
(* transition that a worker records from (review-queue.ts:155-164, 207-230).*)
THEOREM LedgerAgrees == Spec => []LedgerMatchesQueue
<1>1. QueueInv => LedgerMatchesQueue
  BY DEF QueueInv
<1> QED
  BY <1>1, QueueInvariant, PTL

(* Two workers that publish in attempts the queue still counts on are      *)
(* never at work in the same installation or repository                    *)
(* (review-queue.ts:170-179, redis-review-queue-store.ts:99-108, 200-205). *)
THEOREM CurrentEffectsExclusive == Spec => []CurrentEffectsAreExclusive
<1>1. QueueInv => CurrentEffectsAreExclusive
  <2> SUFFICES ASSUME QueueInv, NEW v \in Worker, NEW w \in Worker, v # w,
                      pc[v] = "publishing", pc[w] = "publishing",
                      ~Superseded(v), ~Superseded(w)
               PROVE  LocksOf(job[v]) \cap LocksOf(job[w]) = {}
    BY DEF CurrentEffectsAreExclusive
  <2> USE DEF QueueInv
  <2>1. ASSUME NEW u \in Worker, pc[u] = "publishing", ~Superseded(u)
        PROVE  job[u] \in Job /\ Holds(job[u])
    <3>1. job[u] \in Job /\ attempt[u] \in 1 .. attempts[job[u]]
      BY <2>1 DEF WorkersHoldJobs
    <3>2. lease[job[u]] = attempt[u] /\ job[u] \notin lapsed
      BY <2>1 DEF Superseded, PublishingWithinLease
    <3>3. status[job[u]] = "running"
      BY <3>1, <3>2, MaxAttemptsAssumption DEF StoreInv, AttemptsCount, StoreTypeOK
    <3> QED
      BY <3>1, <3>2, <3>3 DEF StoreInv, LeaseHoldsLocks
  <2>2. job[v] # job[w]
    BY DEF AttemptsAreOwned, Superseded
  <2> QED
    BY <2>1, <2>2 DEF Holds
<1> QED
  BY <1>1, QueueInvariant, PTL

(* The workers are clients of the kind the store's properties assume.      *)
THEOREM QueueRespectsStore == Spec => StoreRespected
<1>1. Init => StoreInit
  BY DEF Init
<1>2. QueueInv /\ [Next]_vars => [StoreNext]_storeVars
  BY StepIsClientStep, ClientStepIsStoreStep DEF QueueInv
<1> QED
  BY <1>1, <1>2, QueueInvariant, PTL DEF Spec, StoreRespected, StoreSpec

(* So the protocol as a whole keeps the queue's promise.                   *)
THEOREM QueueKeepsPromise == Spec => PromiseKept
  BY QueueRespectsStore, StoreKeepsPromise DEF StoreRespected

-----------------------------------------------------------------------------
(* One worker leaves no gap in the ledger.                                 *)

RecordedAs(j, s, a) == Kept(j) => <<Kind(s), j, a>> \in facts

(* A claim's attempt is the job's last.                                    *)
ClaimsAreLatest ==
  \A w \in Worker : pc[w] \in InClaim => attempt[w] = attempts[job[w]]

(* What a worker still has to acknowledge is what it read: no one else     *)
(* stages or acknowledges meanwhile.                                       *)
ReadsAreCurrent ==
  \A w \in Worker, j \in Job :
    read[w][j] # NoTransition => pc[w] \in {"draining", "settling"} /\ staged[j] = read[w][j]

(* A fetched transition is acknowledged with its fact on record.           *)
SettlingIsRecorded ==
  \A w \in Worker : pc[w] = "settling" =>
    /\ read[w][job[w]] # NoTransition
    /\ RecordedAs(job[w], read[w][job[w]].status, read[w][job[w]].lease)

(* And so is the outcome of a claim.                                       *)
AckingIsRecorded ==
  \A w \in Worker : pc[w] = "acking" =>
    /\ Staged(w) \in Outcome
    /\ Given(job[w], Staged(w), attempt[w])
    /\ goal[w] # "refused" => RecordedAs(job[w], goal[w], attempt[w])

(* Only the ledger of a revoked repository refuses.                        *)
RefusedIsPurged ==
  \A w \in Worker :
    pc[w] = "refusing" \/ (pc[w] \in {"staging", "acking"} /\ goal[w] = "refused")
      => ~Kept(job[w])

RecordInv ==
  /\ ClaimsAreLatest /\ ReadsAreCurrent /\ SettlingIsRecorded /\ AckingIsRecorded
  /\ RefusedIsPurged /\ OutcomesAreRecorded

(* Invocations of the worker route do not overlap.                         *)
OneWorker == \A v, w \in Worker : v = w

-----------------------------------------------------------------------------
(* What is staged changes only by a worker's own call.                     *)
LEMMA WorkersStage ==
  ASSUME [Next]_vars, staged' # staged
  PROVE  \E w \in Worker : Stage(w) \/ Recover(w) \/ AcknowledgeFetched(w) \/ AcknowledgeOutcome(w)
<1>1. ASSUME NEW j, NEW deferred, Claim(j, deferred) PROVE FALSE
  BY <1>1 DEF Claim
<1>2. ASSUME NEW j, Create(j) \/ Activate(j) \/ FailActivation(j) \/ LeaseLapses(j)
                    \/ BecomesDue(j) \/ LocksExpire(j)
      PROVE FALSE
  BY <1>2 DEF Create, Activate, FailActivation, LeaseLapses, BecomesDue, LocksExpire
<1>3. ASSUME NEW j, NEW l, Renew(j, l) PROVE FALSE
  BY <1>3 DEF Renew
<1>4. ~ClaimNothing /\ ~UNCHANGED storeVars
  BY DEF ClaimNothing, storeVars
<1>5. ASSUME NEW w \in Worker, WorkerStep(w)
      PROVE  Stage(w) \/ Recover(w) \/ AcknowledgeFetched(w) \/ AcknowledgeOutcome(w)
  BY <1>1, <1>2, <1>3, <1>4, <1>5 DEF WorkerStep, Proceed, Begin, ActivatePending, SchedulePending,
     RefusePending, FetchTransitions, RecordFetched, ClaimJob, ClaimNone, RecordStarted,
     ConfirmBeforePublish, Publish, RunFails, ConfirmAfterRun, AssertActive, LosesLease,
     RecordOutcome, Heartbeat, Crash, RenewThrows, LateAnswer
<1> QED
  BY <1>2, <1>4, <1>5 DEF Next, WorkerStep, Enqueue, EnqueueRecord, EnqueueActivate, EnqueueFails,
     Lapse, Tick, RevokeAccess, RestoreAccess, vars

(* A job's outcome and attempts change only by a worker's claim,           *)
(* acknowledgement or refusal of it, or by its creation.                   *)
LEMMA WorkersSettle ==
  ASSUME StoreTypeOK, WorkerTypes, [Next]_vars, NEW j \in Job,
         status'[j] # status[j] \/ attempts'[j] # attempts[j]
  PROVE  \/ status'[j] = "queued" /\ attempts'[j] = attempts[j]
         \/ \E w \in Worker :
              \/ RefusePending(w) /\ job[w] = j
              \/ ClaimJob(w) /\ \E deferred : Claim(j, deferred)
              \/ /\ AcknowledgeFetched(w) \/ AcknowledgeOutcome(w)
                 /\ job[w] = j /\ AcknowledgeTransition(j)
<1>1. ASSUME NEW k, NEW deferred, Claim(k, deferred) PROVE k = j
  BY <1>1 DEF Claim, StoreTypeOK
<1>2. ASSUME NEW k, AcknowledgeTransition(k) PROVE k = j
  BY <1>2 DEF AcknowledgeTransition, StoreTypeOK
<1>3. ASSUME NEW k, FailActivation(k) PROVE k = j
  BY <1>3 DEF FailActivation, StoreTypeOK
<1>4. ASSUME NEW k, Create(k) PROVE status'[j] = "queued" /\ attempts'[j] = attempts[j]
  BY <1>4 DEF Create, StoreTypeOK
<1>5. ASSUME NEW k, Activate(k) \/ LeaseLapses(k) \/ BecomesDue(k) \/ LocksExpire(k) PROVE FALSE
  BY <1>5 DEF Activate, LeaseLapses, BecomesDue, LocksExpire
<1>6. ASSUME NEW k, NEW l, NEW s, Renew(k, l) \/ StageTransition(k, l, s) PROVE FALSE
  BY <1>6 DEF Renew, StageTransition
<1>7. ~ClaimNothing /\ ~RecoverExpired /\ ~UNCHANGED storeVars
  BY DEF ClaimNothing, RecoverExpired, storeVars
<1>8. ASSUME NEW w \in Worker, WorkerStep(w)
      PROVE  \/ RefusePending(w) /\ job[w] = j
             \/ ClaimJob(w) /\ \E deferred : Claim(j, deferred)
             \/ /\ AcknowledgeFetched(w) \/ AcknowledgeOutcome(w)
                /\ job[w] = j /\ AcknowledgeTransition(j)
  <2>1. CASE RefusePending(w)
    BY <1>3, <1>7, <2>1 DEF RefusePending
  <2>2. CASE ClaimJob(w)
    BY <1>1, <2>2 DEF ClaimJob
  <2>3. CASE AcknowledgeFetched(w) \/ AcknowledgeOutcome(w)
    BY <1>2, <1>7, <2>3 DEF AcknowledgeFetched, AcknowledgeOutcome
  <2> QED
    BY <1>5, <1>6, <1>7, <1>8, <2>1, <2>2, <2>3
    DEF WorkerStep, Proceed, Begin, ActivatePending, SchedulePending, Recover,
        FetchTransitions, RecordFetched, ClaimNone, RecordStarted,
        ConfirmBeforePublish, Publish, RunFails, ConfirmAfterRun, AssertActive, LosesLease, Stage,
        RecordOutcome, Heartbeat, Crash, RenewThrows, LateAnswer
<1> QED
  BY <1>4, <1>5, <1>7, <1>8 DEF Next, WorkerStep, Enqueue, EnqueueRecord, EnqueueActivate,
     EnqueueFails, Lapse, Tick, RevokeAccess, RestoreAccess, vars

(* A single worker either steps or nothing of it changes.                  *)
LEMMA ItStepsOrStays ==
  ASSUME OneWorker, [Next]_vars, NEW v \in Worker
  PROVE  WorkerStep(v) \/ UNCHANGED workerVars
  BY WorkersOrNone DEF OneWorker

(* A claim stays the latest.                                               *)
LEMMA LatestStep ==
  ASSUME QueueInv, RecordInv, OneWorker, [Next]_vars
  PROVE  ClaimsAreLatest'
<1>1. StoreTypeOK /\ WorkerTypes /\ StoreInv
  BY WorkersAreTyped DEF QueueInv, TypeOK
<1>2. SUFFICES ASSUME NEW v \in Worker, pc'[v] \in InClaim
               PROVE  attempt'[v] = attempts'[job'[v]]
  BY DEF ClaimsAreLatest
<1>3. CASE ClaimJob(v)
  BY <1>1, <1>3, ClaimsNextAttempt
<1>4. CASE ~ClaimJob(v)
  <2>1. pc[v] \in InClaim /\ job'[v] = job[v] /\ attempt'[v] = attempt[v]
    BY <1>1, <1>2, <1>4, ItStepsOrStays, StaysInClaim DEF workerVars, flagVars, claimVars, drainVars
  <2>2. job[v] \in Job /\ attempt[v] = attempts[job[v]]
    BY <2>1 DEF QueueInv, WorkersHoldJobs, RecordInv, ClaimsAreLatest
  <2>3. ASSUME AcknowledgeTransition(job[v]) PROVE attempts'[job[v]] = attempts[job[v]]
    BY <1>1, <2>2, <2>3 DEF AcknowledgeTransition, MayAcknowledge, StoreInv, StoreTypeOK, StagedMatchesAttempt
  <2>4. ~RefusePending(v)
    BY <2>1 DEF RefusePending
  <2>5. attempts'[job[v]] = attempts[job[v]]
    BY <1>1, <1>4, <2>2, <2>3, <2>4, WorkersSettle DEF OneWorker
  <2> QED
    BY <2>1, <2>2, <2>5
<1> QED
  BY <1>3, <1>4

(* What was read and not acknowledged is still staged.                     *)
LEMMA CurrentStep ==
  ASSUME QueueInv, RecordInv, OneWorker, [Next]_vars
  PROVE  ReadsAreCurrent'
<1>1. StoreTypeOK /\ WorkerTypes
  BY WorkersAreTyped DEF QueueInv, TypeOK
<1>2. SUFFICES ASSUME NEW v \in Worker, NEW j \in Job, read'[v][j] # NoTransition
               PROVE  pc'[v] \in {"draining", "settling"} /\ staged'[j] = read'[v][j]
  BY DEF ReadsAreCurrent
<1>3. CASE FetchTransitions(v)
  BY <1>1, <1>3 DEF FetchTransitions, Goto, WorkerTypes, storeVars
<1>4. CASE AcknowledgeFetched(v)
  <2>1. job[v] \in Job /\ read'[v] = [read[v] EXCEPT ![job[v]] = NoTransition] /\ pc'[v] = "draining"
    BY <1>1, <1>4 DEF AcknowledgeFetched, Goto, WorkerTypes, QueueInv, WorkersHoldJobs
  <2>2. j # job[v] /\ read'[v][j] = read[v][j]
    BY <1>1, <1>2, <2>1 DEF WorkerTypes
  <2>3. staged'[j] = staged[j]
    BY <1>1, <1>4, <2>2 DEF AcknowledgeFetched, AcknowledgeTransition, StoreTypeOK, storeVars
  <2> QED
    BY <1>2, <2>1, <2>2, <2>3 DEF RecordInv, ReadsAreCurrent
<1>5. CASE ~FetchTransitions(v) /\ ~AcknowledgeFetched(v)
  <2>1. ~Return(v)
    BY <1>1, <1>2 DEF Return, NothingRead, WorkerTypes
  <2>2. read'[v] = read[v]
    BY <1>1, <1>5, <2>1, ItStepsOrStays DEF WorkerStep, Proceed, Begin, ActivatePending, SchedulePending,
       RefusePending, Recover, RecordFetched, ClaimJob, ClaimNone, RecordStarted,
       ConfirmBeforePublish, Publish, RunFails, ConfirmAfterRun, Stage, Stop,
       RecordOutcome, AcknowledgeOutcome, Heartbeat, Crash, RenewThrows, LateAnswer,
       NextActivation, workerVars, drainVars, claimVars, flagVars
  <2>3. pc[v] \in {"draining", "settling"} /\ staged[j] = read[v][j]
    BY <1>2, <2>2 DEF RecordInv, ReadsAreCurrent
  <2>4. pc'[v] \in {"draining", "settling"}
    <3>1. CASE UNCHANGED workerVars
      BY <2>3, <3>1 DEF workerVars
    <3>2. CASE WorkerStep(v)
      <4>1. ~Drained(v)
        BY <1>2, <2>2 DEF Drained, NothingRead
      <4>2. RecordFetched(v)
        BY <1>5, <2>1, <2>3, <3>2, <4>1 DEF WorkerStep, Proceed, Begin, ActivatePending,
           SchedulePending, RefusePending, Recover, FetchTransitions, ClaimJob, ClaimNone,
           RecordStarted, ConfirmBeforePublish, Publish, RunFails, ConfirmAfterRun, Stage,
           RecordOutcome, AcknowledgeOutcome, Heartbeat, Crash, RenewThrows, LateAnswer
      <4> QED
        BY <1>1, <4>2 DEF RecordFetched, Goto, WorkerTypes
    <3> QED
      BY <3>1, <3>2, ItStepsOrStays
  <2>5. staged' = staged
    BY <1>5, <2>3, <2>4, WorkersStage, <1>1
    DEF OneWorker, Stage, Recover, AcknowledgeOutcome
  <2> QED
    BY <2>2, <2>3, <2>4, <2>5
<1> QED
  BY <1>3, <1>4, <1>5

(* The worker acknowledges a fetched transition once it has recorded it.   *)
LEMMA SettlingStep ==
  ASSUME QueueInv, RecordInv, OneWorker, [Next]_vars
  PROVE  SettlingIsRecorded'
<1>1. StoreTypeOK /\ WorkerTypes
  BY WorkersAreTyped DEF QueueInv, TypeOK
<1>2. SUFFICES ASSUME NEW v \in Worker, pc'[v] = "settling"
               PROVE  /\ read'[v][job'[v]] # NoTransition
                      /\ RecordedAs(job[v], read[v][job[v]].status, read[v][job[v]].lease)'
  BY DEF SettlingIsRecorded
<1>3. CASE UNCHANGED workerVars
  <2>1. pc[v] = "settling" /\ job'[v] = job[v] /\ read'[v] = read[v] /\ job[v] \in Job
    BY <1>2, <1>3 DEF workerVars, claimVars, drainVars, QueueInv, WorkersHoldJobs
  <2>2. /\ read[v][job[v]] # NoTransition
        /\ RecordedAs(job[v], read[v][job[v]].status, read[v][job[v]].lease)
    BY <2>1 DEF RecordInv, SettlingIsRecorded
  <2> QED
    BY <2>1, <2>2, KeptFactsStay DEF RecordedAs, Kept
<1>4. CASE WorkerStep(v)
  <2>1. RecordFetched(v)
    BY <1>1, <1>2, <1>4 DEF WorkerStep, Proceed, Begin, ActivatePending, SchedulePending,
       RefusePending, Recover, FetchTransitions, AcknowledgeFetched, ClaimJob, ClaimNone,
       RecordStarted, ConfirmBeforePublish, Publish, RunFails, ConfirmAfterRun, Stage, AfterStaging,
       RecordOutcome, AcknowledgeOutcome, Heartbeat, Crash, RenewThrows, LateAnswer,
       NextActivation, Return, Stop, Goto, drainVars, claimVars, WorkerTypes
  <2>2. PICK j \in Job : /\ read[v][j] # NoTransition
                         /\ job' = [job EXCEPT ![v] = j]
                         /\ IF Revoked(j) THEN UNCHANGED facts
                            ELSE Append(<<Kind(read[v][j].status), j, read[v][j].lease>>)
    BY <2>1 DEF RecordFetched
  <2>3. job'[v] = j /\ read' = read /\ purged' = purged
    BY <1>1, <2>1, <2>2 DEF RecordFetched, drainVars, accessVars, WorkerTypes
  <2>4. Revoked(j) => ~Kept(j)
    BY DEF Revoked, Kept, QueueInv, TypeOK
  <2> QED
    BY <2>2, <2>3, <2>4 DEF RecordedAs, Kept, Append
<1> QED
  BY <1>3, <1>4, ItStepsOrStays

(* The worker acknowledges its own outcome once it has recorded it.        *)
LEMMA AckingStep ==
  ASSUME QueueInv, RecordInv, OneWorker, [Next]_vars, OutcomesStay
  PROVE  AckingIsRecorded'
<1>1. StoreTypeOK /\ WorkerTypes
  BY WorkersAreTyped DEF QueueInv, TypeOK
<1>2. SUFFICES ASSUME NEW v \in Worker, pc'[v] = "acking"
               PROVE  /\ Staged(v)' \in Outcome
                      /\ GivenNext(job'[v], Staged(v)', attempt'[v])
                      /\ goal'[v] # "refused" => RecordedAs(job[v], goal[v], attempt[v])'
  BY DEF AckingIsRecorded, Given, GivenNext
<1>3. CASE pc'[v] = pc[v] /\ job'[v] = job[v] /\ attempt'[v] = attempt[v] /\ goal'[v] = goal[v]
  <2>1. job[v] \in Job /\ attempt[v] \in 0 .. MaxAttempts
    BY <1>1, <1>2, <1>3 DEF WorkerTypes, QueueInv, WorkersHoldJobs
  <2>2. /\ Staged(v) \in Outcome
        /\ Given(job[v], Staged(v), attempt[v])
        /\ goal[v] # "refused" => RecordedAs(job[v], goal[v], attempt[v])
    BY <1>2, <1>3 DEF RecordInv, AckingIsRecorded
  <2>3. Staged(v)' = Staged(v)
    BY <1>3 DEF Staged
  <2>4. GivenNext(job[v], Staged(v), attempt[v])
    BY <2>1, <2>2 DEF OutcomesStay
  <2>5. goal'[v] # "refused" => RecordedAs(job[v], goal[v], attempt[v])'
    BY <1>3, <2>1, <2>2, KeptFactsStay DEF RecordedAs, Kept
  <2> QED
    BY <1>3, <2>2, <2>3, <2>4, <2>5
<1>4. CASE Stage(v)
  <2>1. /\ goal[v] = "refused" /\ goal' = goal /\ job' = job /\ attempt' = attempt
        /\ StageTransition(job[v], attempt[v], Staged(v)) /\ pc[v] = "staging"
    BY <1>1, <1>2, <1>4 DEF Stage, AfterStaging, Return, Goto, drainVars, claimVars, flagVars, WorkerTypes
  <2>2. job[v] \in Job
    BY <2>1 DEF QueueInv, WorkersHoldJobs
  <2>3. Staged(v) = "failed" /\ Staged(v)' = "failed"
    BY <2>1 DEF Staged
  <2>4. staged'[job'[v]] = [status |-> "failed", lease |-> attempt'[v]]
    BY <1>1, <2>1, <2>2, <2>3 DEF StageTransition, StoreTypeOK
  <2> QED
    BY <2>1, <2>3, <2>4 DEF GivenNext
<1>5. CASE RecordOutcome(v)
  <2>1. /\ pc[v] = "recording" /\ goal' = goal /\ job' = job /\ attempt' = attempt
        /\ staged' = staged /\ attempts' = attempts /\ status' = status
        /\ ~Revoked(job[v]) => Append(<<Kind(goal[v]), job[v], attempt[v]>>)
        /\ purged' = purged
    BY <1>1, <1>2, <1>5 DEF RecordOutcome, Return, Goto, drainVars, claimVars, flagVars,
       WorkerTypes, storeVars, accessVars
  <2>2. goal[v] \in Outcome /\ Given(job[v], goal[v], attempt[v]) /\ job[v] \in Job
    BY <2>1 DEF QueueInv, GoalsAreGiven, WorkersHoldJobs
  <2>3. Staged(v)' = goal[v]
    BY <2>1, <2>2 DEF Staged
  <2>4. Revoked(job[v]) => ~Kept(job[v])
    BY DEF Revoked, Kept, QueueInv, TypeOK
  <2>5. GivenNext(job[v], goal[v], attempt[v])
    BY <2>1, <2>2 DEF Given, GivenNext
  <2> QED
    BY <2>1, <2>2, <2>3, <2>4, <2>5 DEF RecordedAs, Kept, Append
<1>6. CASE ~(pc'[v] = pc[v] /\ job'[v] = job[v] /\ attempt'[v] = attempt[v] /\ goal'[v] = goal[v])
  <2>1. WorkerStep(v)
    BY <1>6, ItStepsOrStays DEF workerVars, claimVars
  <2> QED
    BY <1>1, <1>2, <1>4, <1>5, <1>6, <2>1
    DEF WorkerStep, Proceed, Begin, ActivatePending, SchedulePending,
       RefusePending, Recover, FetchTransitions, RecordFetched, AcknowledgeFetched, ClaimJob, ClaimNone,
       RecordStarted, ConfirmBeforePublish, Publish, RunFails, ConfirmAfterRun,
       AcknowledgeOutcome, Heartbeat, Crash, RenewThrows, LateAnswer,
       NextActivation, Return, Stop, Goto, drainVars, claimVars, flagVars, WorkerTypes
<1> QED
  BY <1>3, <1>4, <1>5, <1>6

(* A refusal comes only of a revoked repository, whose facts are gone.     *)
LEMMA RefusedStep ==
  ASSUME QueueInv, RecordInv, OneWorker, [Next]_vars
  PROVE  RefusedIsPurged'
<1>1. StoreTypeOK /\ WorkerTypes
  BY WorkersAreTyped DEF QueueInv, TypeOK
<1>2. SUFFICES ASSUME NEW v \in Worker,
                      pc'[v] = "refusing" \/ (pc'[v] \in {"staging", "acking"} /\ goal'[v] = "refused")
               PROVE  RepositoryOf[job'[v]] \in purged'
  BY DEF RefusedIsPurged, Kept
<1>3. ASSUME NEW j, Revoked(j) PROVE RepositoryOf[j] \in purged'
  BY <1>3, PurgedGrows DEF Revoked, QueueInv, TypeOK
<1>4. CASE /\ job'[v] = job[v]
           /\ pc[v] = "refusing" \/ (pc[v] \in {"staging", "acking"} /\ goal[v] = "refused")
  BY <1>4, PurgedGrows DEF RecordInv, RefusedIsPurged, Kept
<1>5. CASE ActivatePending(v)
  BY <1>1, <1>2, <1>3, <1>5 DEF ActivatePending, Return, Goto, WorkerTypes
<1>6. CASE RecordStarted(v)
  BY <1>1, <1>2, <1>3, <1>6 DEF RecordStarted, Stop, Goto, WorkerTypes
<1>7. CASE UNCHANGED workerVars
  BY <1>2, <1>4, <1>7 DEF workerVars, claimVars
<1>8. CASE WorkerStep(v) /\ ~ActivatePending(v) /\ ~RecordStarted(v)
  <2>1. pc[v] = "recording" => goal[v] # "refused"
    BY DEF QueueInv, GoalsAreGiven
  <2> QED
    BY <1>1, <1>2, <1>4, <1>8, <2>1
    DEF WorkerStep, Proceed, Begin, SchedulePending,
       RefusePending, Recover, FetchTransitions, RecordFetched, AcknowledgeFetched, ClaimJob, ClaimNone,
       ConfirmBeforePublish, Publish, RunFails, FailureGoal, ConfirmAfterRun, Stage, AfterStaging,
       RecordOutcome, AcknowledgeOutcome, Heartbeat, Crash, RenewThrows, LateAnswer,
       NextActivation, Return, Stop, Goto, drainVars, claimVars, flagVars, WorkerTypes
<1> QED
  BY <1>5, <1>6, <1>7, <1>8, ItStepsOrStays

(* An outcome takes effect with its fact on record.                        *)
LEMMA OutcomesStep ==
  ASSUME QueueInv, RecordInv, OneWorker, [Next]_vars
  PROVE  OutcomesAreRecorded'
<1>1. StoreTypeOK /\ WorkerTypes /\ StoreInv
  BY WorkersAreTyped DEF QueueInv, TypeOK
<1>2. SUFFICES ASSUME NEW j \in Job, RepositoryOf[j] \notin purged'
               PROVE  /\ status'[j] \in Outcome => <<Kind(status'[j]), j, attempts'[j]>> \in facts'
                      /\ \A a \in 1 .. attempts'[j] - 1 : <<"retry_scheduled", j, a>> \in facts'
  BY DEF OutcomesAreRecorded, Kept
<1>3. Kept(j) /\ \A k, a : <<k, j, a>> \in facts => <<k, j, a>> \in facts'
  BY <1>2, KeptFactsStay
<1>4. /\ status[j] \in Outcome => <<Kind(status[j]), j, attempts[j]>> \in facts
      /\ \A a \in 1 .. attempts[j] - 1 : <<"retry_scheduled", j, a>> \in facts
  BY <1>3 DEF RecordInv, OutcomesAreRecorded
<1>5. attempts[j] \in 0 .. MaxAttempts
  BY <1>1 DEF StoreTypeOK
<1>6. CASE attempts'[j] = attempts[j] /\ (status'[j] = status[j] \/ status'[j] = "queued")
  BY <1>3, <1>4, <1>6
<1>7. ASSUME NEW w \in Worker, RefusePending(w), job[w] = j PROVE FALSE
  BY <1>3, <1>7 DEF RefusePending, RecordInv, RefusedIsPurged
<1>8. ASSUME NEW deferred, Claim(j, deferred)
      PROVE  /\ status'[j] \notin Outcome
             /\ \A a \in 1 .. attempts'[j] - 1 : <<"retry_scheduled", j, a>> \in facts'
  <2>1. status'[j] = "running" /\ attempts'[j] = attempts[j] + 1 /\ j \in scheduled
    BY <1>1, <1>8 DEF Claim, StoreTypeOK
  <2>2. status[j] = "retrying" \/ attempts[j] = 0
    BY <1>1, <2>1 DEF StoreInv, ScheduledIsClaimable, AttemptsCount
  <2>3. ASSUME NEW a \in 1 .. attempts[j] PROVE <<"retry_scheduled", j, a>> \in facts
    <3>1. CASE a = attempts[j]
      BY <1>4, <1>5, <2>2, <3>1, MaxAttemptsAssumption DEF Kind
    <3>2. CASE a # attempts[j]
      BY <1>4, <1>5, <3>2, MaxAttemptsAssumption
    <3> QED
      BY <3>1, <3>2
  <2> QED
    BY <1>3, <1>5, <2>1, <2>3, MaxAttemptsAssumption
<1>9. ASSUME NEW w \in Worker, AcknowledgeFetched(w) \/ AcknowledgeOutcome(w), job[w] = j,
             AcknowledgeTransition(j)
      PROVE  /\ attempts'[j] = attempts[j] /\ status'[j] \in Outcome
             /\ <<Kind(status'[j]), j, attempts[j]>> \in facts
  <2>1. /\ staged[j] # NoTransition /\ status'[j] = staged[j].status /\ attempts'[j] = staged[j].lease
        /\ attempts[j] = staged[j].lease /\ status[j] = "running" /\ staged[j] \in Transition
    BY <1>1, <1>9 DEF AcknowledgeTransition, MayAcknowledge, StoreInv, StoreTypeOK, StagedMatchesAttempt
  <2>2. staged[j].status \in Outcome
    BY <2>1 DEF Transition
  <2>3. CASE AcknowledgeFetched(w)
    <3>1. pc[w] = "settling"
      BY <2>3 DEF AcknowledgeFetched
    <3>2. read[w][j] # NoTransition /\ <<Kind(read[w][j].status), j, read[w][j].lease>> \in facts
      BY <1>3, <1>9, <3>1 DEF RecordInv, SettlingIsRecorded, RecordedAs
    <3>3. staged[j] = read[w][j]
      BY <3>2 DEF RecordInv, ReadsAreCurrent
    <3> QED
      BY <2>1, <2>2, <3>2, <3>3
  <2>4. CASE AcknowledgeOutcome(w)
    <3>1. pc[w] = "acking"
      BY <2>4 DEF AcknowledgeOutcome
    <3>2. attempt[w] = attempts[j] /\ goal[w] # "refused"
      BY <1>3, <1>9, <3>1 DEF RecordInv, ClaimsAreLatest, RefusedIsPurged
    <3>3. Given(j, goal[w], attempt[w]) /\ <<Kind(goal[w]), j, attempt[w]>> \in facts /\ goal[w] \in Outcome
      BY <1>3, <1>9, <3>1, <3>2 DEF RecordInv, AckingIsRecorded, RecordedAs, Staged
    <3>4. staged[j] = [status |-> goal[w], lease |-> attempt[w]]
      BY <1>5, <2>1, <3>2, <3>3, MaxAttemptsAssumption DEF Given
    <3> QED
      BY <2>1, <2>2, <3>2, <3>3, <3>4
  <2> QED
    BY <1>9, <2>3, <2>4
<1> QED
  BY <1>1, <1>3, <1>4, <1>6, <1>7, <1>8, <1>9, WorkersSettle

(* What a single worker keeps, beyond what any number of them do.          *)
LEMMA RecordStep ==
  ASSUME OneWorker, QueueInv, RecordInv, [Next]_vars
  PROVE  RecordInv'
<1>1. OutcomesStay
  BY StepIsClientStep, GivenOutcomesStay DEF QueueInv
<1> QED
  BY <1>1, LatestStep, CurrentStep, SettlingStep, AckingStep, RefusedStep, OutcomesStep DEF RecordInv

(* The ledger has no gaps while invocations of the worker route do not     *)
(* overlap: every outcome the queue gives, at once or after a crash and a  *)
(* recovery, has its fact first, unless the repository's facts were        *)
(* deleted (review-queue.ts:155-164, 207-230).  Two workers break it, as   *)
(* the run ReviewQueue_StaleAcknowledgement shows.                         *)
THEOREM LedgerHasNoGaps ==
  ASSUME OneWorker
  PROVE  Spec => []OutcomesAreRecorded
<1>1. Init => RecordInv
  <2> SUFFICES ASSUME Init PROVE RecordInv
    OBVIOUS
  <2>1. \A w \in Worker : pc[w] = "idle" /\ read[w] = NothingRead
    BY DEF Init
  <2>2. OutcomesAreRecorded
    BY DEF Init, StoreInit, OutcomesAreRecorded
  <2> QED
    BY <2>1, <2>2 DEF RecordInv, ClaimsAreLatest, ReadsAreCurrent, NothingRead, SettlingIsRecorded,
       AckingIsRecorded, RefusedIsPurged
<1>2. QueueInv /\ RecordInv /\ [Next]_vars => RecordInv'
  BY RecordStep
<1>3. RecordInv => OutcomesAreRecorded
  BY DEF RecordInv
<1> QED
  BY <1>1, <1>2, <1>3, QueueInvariant, PTL DEF Spec
=============================================================================
