----------------------------- MODULE ReviewJob -----------------------------
(***************************************************************************)
(* What the review queue promises about a job, whatever the Redis scripts  *)
(* do to keep the promise: the status machine of ReviewJobStatus, one      *)
(* outcome for every attempt, at most MaxAttempts attempts, a terminal     *)
(* status that is final, and at most one confirmed holder of an            *)
(* installation or of a repository.                                        *)
(***************************************************************************)
EXTENDS Naturals

CONSTANTS Job, Installation, Repository, InstallationOf, RepositoryOf, MaxAttempts

VARIABLES
  status,    \* status[j]: the job record's status, "absent" before create, "pruned" once deleted
  attempts,  \* attempts[j]: how often the job was claimed
  holders    \* the jobs that hold both of their locks

vars == <<status, attempts, holders>>

Terminal == {"completed", "failed"}
Outcome == {"retrying"} \cup Terminal
Status == {"absent", "queued", "running", "pruned"} \cup Outcome

LocksOf(j) == {InstallationOf[j], RepositoryOf[j]}
Conflict(j, k) == LocksOf(j) \cap LocksOf(k) # {}

Init ==
  /\ status = [j \in Job |-> "absent"]
  /\ attempts = [j \in Job |-> 0]
  /\ holders = {}

Submit(j) ==
  /\ status[j] = "absent"
  /\ status' = [status EXCEPT ![j] = "queued"]
  /\ UNCHANGED <<attempts, holders>>

\* A job whose repository is no longer accessible never starts.
Refuse(j) ==
  /\ status[j] = "queued"
  /\ status' = [status EXCEPT ![j] = "failed"]
  /\ UNCHANGED <<attempts, holders>>

Start(j) ==
  /\ status[j] \in {"queued", "retrying"}
  /\ attempts[j] < MaxAttempts
  /\ \A k \in holders : ~Conflict(j, k)
  /\ status' = [status EXCEPT ![j] = "running"]
  /\ attempts' = [attempts EXCEPT ![j] = @ + 1]
  /\ holders' = holders \cup {j}

Lose(j) ==
  /\ j \in holders
  /\ holders' = holders \ {j}
  /\ UNCHANGED <<status, attempts>>

Settle(j, s) ==
  /\ status[j] = "running"
  /\ s = "retrying" => attempts[j] < MaxAttempts
  /\ status' = [status EXCEPT ![j] = s]
  /\ holders' = holders \ {j}
  /\ UNCHANGED attempts

Forget(batch) ==
  /\ \A j \in batch : status[j] \in Terminal \cup {"pruned"}
  /\ status' = [j \in Job |-> IF j \in batch THEN "pruned" ELSE status[j]]
  /\ UNCHANGED <<attempts, holders>>

Next ==
  \/ \E j \in Job : Submit(j) \/ Refuse(j) \/ Start(j) \/ Lose(j)
  \/ \E j \in Job, s \in Outcome : Settle(j, s)
  \/ \E batch \in SUBSET Job : Forget(batch)

Spec == Init /\ [][Next]_vars
=============================================================================
