----------------------------- MODULE MCComponents -----------------------------
(***************************************************************************)
(* The components of which only safety is asked.  Around the queue: what a *)
(* review leaves on GitHub, how it spends its time, what wakes the worker, *)
(* the state of findings and access to repositories.  Of a workspace       *)
(* review: what is captured, how one file is read, what the payload        *)
(* becomes, how the command ends and what is made of the model's answer.   *)
(* They share no state: Init chooses which one a behaviour is about, and   *)
(* the others stand still.                                                 *)
(***************************************************************************)
EXTENDS ReviewPublication, ReviewGeneration, AccessTransitions, WorkerWake, FindingLifecycle, WorkspaceAnswer,
        WorkspaceCapture, VerifiedRead, MCWorkspacePayload, WorkspaceSubmit, TLC

CONSTANTS x1, x2, a1, a2, t1, t2, t3, c1, c2, j1, j2, f, g

VARIABLE part

-----------------------------------------------------------------------------
(* The values of the constants.                                            *)

\* Two reviews, of a head and of the one that follows.
MCShaOf == (x1 :> 1) @@ (x2 :> 2)

\* A finding that the other one supersedes.
MCReplacementOf == (f :> g) @@ (g :> NoFinding)

MCBackoff == <<1, 2>>

-----------------------------------------------------------------------------
(* The reviews that are generated: the usual checks with and without the   *)
(* build, configured ones, only vendored files, and no key for the models. *)

Models(policy) == [policy |-> policy, scout |-> "small", deep |-> "large",
                   fallback |-> "small", catchall |-> "last"]
About(v, c, sk, k, si, mo, policy) ==
  [vendoredOnly |-> v, commands |-> c, skipBuild |-> sk, hasKey |-> k,
   signal |-> si, mode |-> mo, model |-> Models(policy)]

MCSubject ==
  {About(FALSE, 0, FALSE, TRUE, "none", "single", "own"),
   About(FALSE, 0, TRUE, TRUE, "none", "single", "small"),
   About(FALSE, 1, TRUE, TRUE, "minor", "risk", "own"),
   About(FALSE, 2, TRUE, TRUE, "high", "risk", "own"),
   About(TRUE, 0, TRUE, TRUE, "none", "single", "own"),
   About(FALSE, 0, TRUE, FALSE, "none", "single", "own")}

-----------------------------------------------------------------------------
(* A component that stands still.                                          *)

NoPublication ==
  /\ prHead = 1 /\ readable = TRUE /\ checks = <<>> /\ summaries = <<>> /\ comments = <<>>
  /\ lease = Nobody /\ line = [a \in Attempt |-> "published"]
  /\ jobOf = [a \in Attempt |-> x1]
  /\ found = [a \in Attempt |-> [i \in FindingId |-> "none"]]
  /\ seen = [a \in Attempt |-> <<>>] /\ todo = [a \in Attempt |-> <<>>]
  /\ pubFaults = 0 /\ overtaken = FALSE /\ late = [a \in Attempt |-> 0]
  /\ undisturbed = [a \in Attempt |-> TRUE] /\ refused = {}

NoGeneration ==
  /\ elapsed = 0 /\ gen = "decided" /\ contextAt = 0
  /\ about = About(FALSE, 0, TRUE, TRUE, "none", "single", "own")
  /\ plan = <<>> /\ ran = <<>> /\ evidence = NoEvidence
  /\ cascadeAt = 0 /\ attempts = <<>> /\ review = NoReview

NoTransitions ==
  /\ githubTime = 0 /\ taskFaults = 0 /\ history = {} /\ announced = {}
  /\ granted = [s \in Scope |-> TRUE]
  /\ marks = [store \in Store |-> Marks("active", Newer)]
  /\ task = [t \in Task |-> Notice("repository", "active", 0)]
  /\ doing = [t \in Task |-> "none"] /\ first = [t \in Task |-> FALSE]
  /\ steps = [t \in Task |-> <<>>]
  /\ told = [t \in Task |-> [s \in Scope |-> Newer]]

NoSubject ==
  /\ entries = <<>> /\ minimum = "warning" /\ prompt = {} /\ rewritten = 0
  /\ body = {} /\ raw = NoAnswer /\ result = NoResult /\ turn = "idle"

NoCapture ==
  /\ mode = "default" /\ place = "nested" /\ unmerged = [p \in Path |-> Merged]
  /\ head = [p \in Path |-> Absent] /\ index = head /\ tree = head
  /\ records = [p \in {} |-> {}] /\ captured = {} /\ step = "idle"

NoRead ==
  /\ parent = [id |-> 1, kind |-> "directory"]
  /\ leaf = [id |-> 2, kind |-> "file", links |-> 1, inside |-> TRUE]
  /\ changes = 2 /\ at = "idle" /\ try = 1
  /\ expected = 0 /\ chain = 0 /\ opened = NoNode /\ answer = "none"

NoPayload ==
  /\ kind = "changeset" /\ files = <<>> /\ payload = EmptyPayload /\ subject = <<>>
  /\ unspent = {} /\ spent = 0 /\ looked = 0 /\ stage = "idle"

NoSubmit ==
  /\ options = [dryRun |-> TRUE, yes |-> FALSE, tty |-> FALSE, configured |-> FALSE,
                token |-> NoToken]
  /\ accepted = [current |-> NoToken, next |-> NoToken]
  /\ cli = "idle" /\ interrupted = FALSE /\ exitCode = "running"
  /\ clock = 0 /\ request = "none" /\ handledFor = 0 /\ reply = "none"
  /\ lag = 0 /\ confirmed = FALSE /\ sentLate = FALSE

-----------------------------------------------------------------------------
\* Nothing is asked of threads that may not be read: there, the pull request has
\* no earlier comments.
ComponentInit ==
  /\ part \in {"publication", "generation", "access", "wake", "lifecycle",
              "answer", "capture", "read", "payload", "submit"}
  /\ IF part = "publication" THEN PubInit /\ (readable \/ comments = <<>>) ELSE NoPublication
  /\ IF part = "generation" THEN GenerationInit ELSE NoGeneration
  /\ IF part = "access" THEN AccessInit ELSE NoTransitions
  /\ WakeInit /\ LifecycleInit
  /\ IF part = "answer" THEN AnswerInit ELSE NoSubject
  /\ IF part = "capture" THEN CaptureInit ELSE NoCapture
  /\ IF part = "read" THEN ReadInit ELSE NoRead
  /\ IF part = "payload" THEN PayloadInit ELSE NoPayload
  /\ IF part = "submit" THEN SubmitInit ELSE NoSubmit

\* Attempts, deliveries, callers and jobs are the same but for their names, and
\* are used in one order.  A fault takes the place of the last one.  A behaviour
\* that AccessConverges excepts for good is not followed further.
AttemptsInOrder == line[a2] # "idle" => line[a1] # "idle"
TasksInOrder ==
  /\ (doing[t3] # "none" => doing[t2] # "none") /\ (doing[t2] # "none" => doing[t1] # "none")
  /\ taskFaults > 0 => doing[t3] = "none"
WakesInOrder ==
  /\ wakeFaults' > 0 => work'[j2].at = "absent"
  /\ work'[j2].at # "absent" => work'[j1].at # "absent"
  /\ cycle[c1] = "idle" => cycle[c2] # "idle" \/ cycle'[c2] = "idle"

\* DismissalsStand speaks of one finding: what is said and recorded of it does not
\* depend on what is said of the one that supersedes it, nor on both being found.
\* A behaviour of full length has a dismissal and a review with authority, has the
\* heads differ only when the head changed, and uses its times without a gap.  The
\* fact of a reaction changes no projection, and is recorded where no other is.
AboutDismissals ==
  LET recorded == {ledger'[i] : i \in DOMAIN ledger'}
      reviews  == {e \in recorded : e.type = "completed"}
      said     == {e \in recorded : e.type = "feedback"}
      facts    == {e \in recorded : e.type = "fact"}
      kinds    == {e.kind : e \in said}
      times    == {e.time : e \in recorded}
  IN
  /\ \A e \in said \union facts : e.finding = f
  /\ \A e \in reviews : Cardinality(e.findings) < 2
  /\ (\E x \in facts : x.signal) => \A x \in facts \union UNION Range(unrecorded') : x.signal
  /\ happened' = MaxEvents =>
       /\ "dismissed" \in kinds \/ ("on" \in kinds /\ Cardinality(reviews) > 1)
       /\ \E e \in reviews : e.authoritative
       /\ \A e \in reviews : e.head = 1 => \E x \in recorded : x.type = "head"
       /\ times = 1..Cardinality(times)

queueSideVars == <<pubVars, genVars, accessVars, wakeVars, lifecycleVars>>
workspaceVars == <<answerVars, captureVars, readVars, payloadVars, submitVars>>
componentVars == <<queueSideVars, workspaceVars, part>>

QueueSideNext ==
  /\ UNCHANGED workspaceVars
  /\ \/ /\ part = "publication" /\ PubNext /\ AttemptsInOrder'
        /\ UNCHANGED <<genVars, accessVars, wakeVars, lifecycleVars>>
     \/ part = "generation" /\ GenerationNext /\ UNCHANGED <<pubVars, accessVars, wakeVars, lifecycleVars>>
     \/ /\ part = "access" /\ ~Excepted /\ AccessNext /\ TasksInOrder'
        /\ UNCHANGED <<pubVars, genVars, wakeVars, lifecycleVars>>
     \/ /\ part = "wake" /\ WakeNext /\ WakesInOrder
        /\ UNCHANGED <<pubVars, genVars, accessVars, lifecycleVars>>
     \/ /\ part = "lifecycle" /\ LifecycleNext /\ AboutDismissals
        /\ UNCHANGED <<pubVars, genVars, accessVars, wakeVars>>

WorkspaceNext ==
  /\ UNCHANGED queueSideVars
  /\ \/ part = "answer" /\ AnswerNext /\ UNCHANGED <<captureVars, readVars, payloadVars, submitVars>>
     \/ part = "capture" /\ CaptureNext /\ UNCHANGED <<answerVars, readVars, payloadVars, submitVars>>
     \/ part = "read" /\ ReadNext /\ UNCHANGED <<answerVars, captureVars, payloadVars, submitVars>>
     \/ part = "payload" /\ PayloadNext /\ UNCHANGED <<answerVars, captureVars, readVars, submitVars>>
     \/ part = "submit" /\ SubmitNext /\ UNCHANGED <<answerVars, captureVars, readVars, payloadVars>>

ComponentNext == (QueueSideNext \/ WorkspaceNext) /\ UNCHANGED part

ComponentSpec == ComponentInit /\ [][ComponentNext]_componentVars
=============================================================================
