-------------------------- MODULE AccessTransitions --------------------------
(***************************************************************************)
(* What becomes of an installation's and a repository's access when GitHub *)
(* announces that it was revoked or restored.  Every announcement is a     *)
(* task (repository-access-transitions.ts) that looks at GitHub, changes   *)
(* the index, the event ledger and the policies one after the other, and   *)
(* looks again.  Tasks overlap, come late and twice, and a task of which a *)
(* step failed is delivered again from its beginning.                      *)
(***************************************************************************)
EXTENDS Integers, Sequences

CONSTANTS
  Task,           \* the deliveries a behaviour may see
  MaxGrantChanges, \* bound on the changes of access on GitHub
  MaxTaskFaults   \* bound on the tasks that fail and are delivered again

Scope == {"installation", "repository"}
Store == {"index", "ledger", "policy"}
Newer == -1     \* the index's answer for "a newer change won"; no time at all

VARIABLES
  granted,     \* what GitHub grants: the installation, and the repository to it
  githubTime,  \* how often that changed, which is GitHub's clock
  announced,   \* the announcements GitHub has made
  marks,       \* [Store -> [Scope -> [state, at]]]
  task,        \* [Task -> announcement], once delivered
  doing,       \* [Task -> {"none", "look", "act", "undo", "finish", "done"}]
  first,       \* what the task saw when it looked first
  steps,       \* the changes it has still to make before it looks again or ends
  told,        \* the timestamps the index gave its changes, by scope
  taskFaults,
  history      \* what happened that the property makes an exception for

accessVars == <<granted, githubTime, announced, marks, task, doing, first, steps,
                told, taskFaults, history>>
untouched == <<granted, githubTime, announced, task, taskFaults>>

Accessible(scope) ==
  granted["installation"] /\ (scope = "repository" => granted["repository"])

InProgress(t) == doing[t] \in {"act", "undo", "finish"}
Pending(t) == (doing[t] = "look" \/ InProgress(t)) /\ task[t].scope = "repository"
Overlapping(t) == \E u \in Task \ {t} : InProgress(u)

Marks(repository, at) ==
  [s \in Scope |-> IF s = "repository" THEN [state |-> repository, at |-> at]
                   ELSE [state |-> "active", at |-> Newer]]
Notice(scope, wants, at) == [scope |-> scope, wants |-> wants, at |-> at]

\* Access is granted and nothing was ever recorded of it; or the repository was
\* removed, and every store knows.
AccessInit ==
  /\ githubTime = 0 /\ taskFaults = 0 /\ history = {}
  /\ \/ /\ granted = [s \in Scope |-> TRUE] /\ announced = {}
        /\ marks = [store \in Store |-> Marks("active", Newer)]
     \/ /\ granted = [s \in Scope |-> s = "installation"]
        /\ announced = {Notice("repository", "revoked", 0)}
        /\ marks = [store \in Store |-> Marks("revoked", 0)]
  /\ task = [t \in Task |-> Notice("repository", "active", 0)]
  /\ doing = [t \in Task |-> "none"] /\ first = [t \in Task |-> FALSE]
  /\ steps = [t \in Task |-> <<>>]
  /\ told = [t \in Task |-> [s \in Scope |-> Newer]]

-----------------------------------------------------------------------------
(* The stores                                                              *)

Later(a, b) == IF a > b THEN a ELSE b

\* The index takes a change of state whatever its timestamp, since the task has
\* asked GitHub, and refuses an older repetition.
IndexTakes(mark, state, at) == mark.at <= at \/ mark.state # state

\* The ledger does the same in SQL.
LedgerTakes(mark, state, at) == mark.at <= at \/ mark.state # state

\* The policies go by timestamps alone.
PolicyTakes(mark, state, at) == mark.at <= at

\* A repository is not restored under a revoked installation.  A repeated
\* restoration is answered with the time of the newer one.
IndexAnswer(scope, state, at) ==
  LET mark == marks["index"][scope] IN
  IF scope = "repository" /\ state = "active" /\ marks["index"]["installation"].state = "revoked"
  THEN Newer
  ELSE IF IndexTakes(mark, state, at) THEN Later(mark.at, at)
  ELSE IF state = "active" THEN mark.at ELSE Newer

Takes(step, at) ==
  LET mark == marks[step.store][step.scope] IN
  CASE step.store = "index"  -> IndexAnswer(step.scope, step.state, at) # Newer
                                /\ IndexTakes(mark, step.state, at)
    [] step.store = "ledger" -> LedgerTakes(mark, step.state, at)
    [] step.store = "policy" -> PolicyTakes(mark, step.state, at)

Marked(step, at) ==
  IF Takes(step, at)
  THEN [marks EXCEPT ![step.store][step.scope] =
          [state |-> step.state, at |-> Later(@.at, at)]]
  ELSE marks

-----------------------------------------------------------------------------
(* GitHub                                                                  *)

Deliver(t, notice) ==
  /\ doing[t] = "none"
  /\ task' = [task EXCEPT ![t] = notice]
  /\ doing' = [doing EXCEPT ![t] = "look"]

\* An owner suspends or restores the installation, or adds or removes the
\* repository, which nobody can while the installation is suspended.
AccessChanges(t, scope) ==
  LET notice == Notice(scope, IF granted[scope] THEN "revoked" ELSE "active", githubTime + 1) IN
  /\ githubTime < MaxGrantChanges
  /\ scope = "repository" => granted["installation"]
  /\ granted' = [granted EXCEPT ![scope] = ~@]
  /\ githubTime' = githubTime + 1
  /\ announced' = announced \union {notice}
  /\ Deliver(t, notice)
  /\ history' = history
       \union (IF \E u \in Task : doing[u] \in {"undo", "finish"} THEN {"raced"} ELSE {})
       \union (IF \E u \in Task : Pending(u) /\ ~granted'["installation"] THEN {"lost"} ELSE {})
  /\ UNCHANGED <<marks, first, steps, told, taskFaults>>

\* An announcement is delivered once more.
AnnouncedAgain(t) ==
  /\ \E notice \in announced :
       /\ Deliver(t, notice)
       /\ history' = IF notice.scope = "repository" /\ ~granted["installation"]
                     THEN history \union {"lost"} ELSE history
  /\ UNCHANGED <<granted, githubTime, announced, marks, first, steps, told, taskFaults>>

-----------------------------------------------------------------------------
(* A task                                                                  *)

\* A step goes by the time the index answered with, or by its own.
Step(store, scope, state, at, own) ==
  [store |-> store, scope |-> scope, state |-> state, at |-> at, own |-> own]

Activation(scope, at) ==
  <<Step("index", scope, "active", at, FALSE), Step("ledger", scope, "active", at, FALSE),
    Step("policy", scope, "active", at, FALSE)>>
\* A repository is restored with its installation.
Restoration(scope, at) ==
  IF scope = "installation" THEN Activation(scope, at)
  ELSE Activation("installation", at) \o Activation("repository", at)
Revocation(scope, at) ==
  <<Step("index", scope, "revoked", at, FALSE), Step("ledger", scope, "revoked", at, FALSE)>>
Purge(scope, at, own) == <<Step("policy", scope, "revoked", at, own)>>

Becomes(t, s, plan) == doing' = [doing EXCEPT ![t] = s] /\ steps' = [steps EXCEPT ![t] = plan]
ToldOr(t, scope, at) == IF told[t][scope] = Newer THEN at ELSE told[t][scope]

\* The first look: the task goes by what GitHub grants now and not by what was
\* announced, except that a restoration of what is not accessible ends here.
Look(t) ==
  /\ doing[t] = "look"
  /\ LET scope == task[t].scope
         sees  == Accessible(scope)
         given == task[t].wants = "active" /\ ~sees
     IN  /\ first' = [first EXCEPT ![t] = sees]
         /\ IF given THEN Becomes(t, "done", <<>>)
            ELSE Becomes(t, "act", IF sees THEN Restoration(scope, task[t].at)
                                           ELSE Revocation(scope, task[t].at))
         /\ history' = history
              \union (IF given /\ first[t] THEN {"gaveUp"} ELSE {})
              \union (IF ~given /\ Overlapping(t) THEN {"overlapped"} ELSE {})
  /\ UNCHANGED <<marks, told, untouched>>

TimeOf(t, step) ==
  IF step.store # "index" THEN (IF step.own THEN step.at ELSE ToldOr(t, step.scope, step.at))
  ELSE IF doing[t] = "act" /\ step.scope = "repository" /\ step.state = "active"
  THEN Later(step.at, told[t]["installation"]) ELSE step.at

\* What remains after the index refused: a revocation leaves the ledger alone,
\* an activation both other stores, which are the steps that follow.
AfterRefusal(t, step) ==
  IF step.state = "revoked" THEN Tail(Tail(steps[t])) ELSE Tail(Tail(Tail(steps[t])))

\* One store after the other.
TakeStep(t) ==
  /\ InProgress(t) /\ steps[t] # <<>>
  /\ ~(doing[t] = "undo" /\ Len(steps[t]) = 1)
  /\ LET step == Head(steps[t])
         at   == TimeOf(t, step)
         says == IF step.store = "index" THEN IndexAnswer(step.scope, step.state, at)
                                         ELSE told[t][step.scope]
         refuses == step.store = "index" /\ says = Newer
     IN  /\ marks' = Marked(step, at)
         /\ told' = [told EXCEPT ![t][step.scope] = says]
         /\ IF refuses /\ doing[t] = "act" /\ task[t].wants = "active"
            THEN Becomes(t, "done", <<>>)
            ELSE Becomes(t, doing[t], IF refuses THEN AfterRefusal(t, step) ELSE Tail(steps[t]))
         /\ history' = IF refuses /\ step.state = "active" THEN history \union {"gaveUp"} ELSE history
  /\ UNCHANGED <<first, untouched>>

\* Mutation: the task believes its first look.
BelievesFirst(t) == first[t]
\* GitHub is asked again once the index and the ledger are changed.
SeesNow(t) == Accessible(task[t].scope)

\* The second look.  If the access changed meanwhile the task undoes what it
\* did; a revocation that stands takes the policies too.
LookAgain(t) ==
  /\ doing[t] = "act" /\ steps[t] = <<>>
  /\ LET scope == task[t].scope
         at    == task[t].at
         late  == ToldOr(t, scope, at)
         revoking == task[t].wants = "revoked"
         back  == IF revoking THEN late ELSE at
         sees  == SeesNow(t)
     IN  \/ sees /\ first[t] /\ Becomes(t, "done", <<>>)
         \/ ~sees /\ ~first[t] /\ Becomes(t, "finish", Purge(scope, at, FALSE))
         \/ sees /\ ~first[t] /\ Becomes(t, "finish", Restoration(scope, late))
         \/ /\ ~sees /\ first[t]
            /\ LET own == revoking /\ scope = "installation" IN
               Becomes(t, IF scope = "repository" THEN "undo" ELSE "finish",
                       Revocation(scope, back) \o Purge(scope, back, own))
  /\ UNCHANGED <<marks, first, told, history, untouched>>

\* A repository that went with its installation takes that along.
LookAtInstallation(t) ==
  /\ doing[t] = "undo" /\ Len(steps[t]) = 1
  /\ LET at == ToldOr(t, "installation", task[t].at) IN
     Becomes(t, "finish", IF granted["installation"] THEN steps[t]
       ELSE Revocation("installation", at) \o Purge("installation", at, FALSE))
  /\ UNCHANGED <<marks, first, told, history, untouched>>

TaskEnds(t) ==
  /\ doing[t] = "finish" /\ steps[t] = <<>>
  /\ Becomes(t, "done", <<>>)
  /\ told' = [told EXCEPT ![t] = [s \in Scope |-> Newer]]
  /\ UNCHANGED <<marks, first, history, untouched>>

\* A call fails, or the function is killed: the task is delivered again.
TaskFails(t) ==
  /\ InProgress(t) /\ taskFaults < MaxTaskFaults
  /\ taskFaults' = taskFaults + 1
  /\ Becomes(t, "look", <<>>)
  /\ told' = [told EXCEPT ![t] = [s \in Scope |-> Newer]]
  /\ UNCHANGED <<granted, githubTime, announced, marks, task, first, history>>

AccessNext ==
  \E t \in Task :
    \/ \E scope \in Scope : AccessChanges(t, scope)
    \/ AnnouncedAgain(t)
    \/ Look(t) \/ TakeStep(t) \/ LookAgain(t) \/ LookAtInstallation(t)
    \/ TaskEnds(t) \/ TaskFails(t)

AccessSpec == AccessInit /\ [][AccessNext]_accessVars

-----------------------------------------------------------------------------
(* Properties                                                              *)

Grants(store) == \A s \in Scope : marks[store][s].state = "active"

\* What the property below excepts, for good: what happened to the repository
\* while its installation was suspended, for which restoring the installation
\* does not make up; and, when tasks overlapped, a change during a task's last
\* steps, which nobody looks at again, or a restoring task that gave up, because
\* the index refused it or it saw another change when it was retried.
Excepted ==
  \/ "lost" \in history
  \/ "overlapped" \in history /\ history \intersect {"raced", "gaveUp"} # {}

\* Once every task has ended, the index serves the repository exactly if GitHub
\* grants it, in whatever order the announcements came, repeated themselves and
\* overlapped, and when no two tasks overlapped the ledger and the policies do
\* too, even if tasks failed half way.
AccessConverges ==
  (\A t \in Task : doing[t] \in {"none", "done"}) /\ ~Excepted =>
    \A store \in Store :
      store = "index" \/ "overlapped" \notin history
      => (Grants(store) <=> Accessible("repository"))
=============================================================================
