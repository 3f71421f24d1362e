-------------------------- MODULE ReviewPublication --------------------------
(***************************************************************************)
(* What an attempt at a review leaves on GitHub: runReview of reviewer.ts  *)
(* with the calls of github.ts it makes.  Attempts of one repository take  *)
(* turns under a lease, which may be lost while its holder still runs; the *)
(* pull request's head may move on; and any request may fail, before or    *)
(* after it took effect.                                                   *)
(***************************************************************************)
EXTENDS Integers, Sequences, FiniteSets, SequencesExt

CONSTANTS
  Attempt,      \* the attempts, each made once
  ReviewJob,    \* jobs: the externalId of checks and comments
  ShaOf,        \* the commit a job reviews; commits are numbered
  FindingId,
  MaxHead,      \* bound on the commits of the pull request
  MaxPubFaults  \* bound on lost leases, crashes and failed requests

Nobody == "nobody"
Location == {"line", "file", "outdated"}
ASSUME PublicationAssumption ==
  /\ ShaOf \in [ReviewJob -> 1 .. MaxHead]
  /\ Nobody \notin Attempt
  /\ IsFiniteSet(FindingId)

VARIABLES
  prHead, readable,       \* the head, and whether threads may be read and changed
  checks,                 \* check runs: a sequence of [job, completed]
  summaries,              \* summary comments: the jobs named by their markers
  comments,               \* finding comments: a sequence of [finding, at, open]
  lease,                  \* the attempt that holds the repository's lease
  line,                   \* where each attempt is in runReview
  jobOf, found,           \* its job, and the location of each finding or "none"
  seen,                   \* the comments and threads it listed
  todo,                   \* the requests it has planned, a group per finding
  pubFaults,
  overtaken, late, undisturbed, refused   \* history: see the properties

hubVars == <<prHead, readable, checks, summaries, comments>>
historyVars == <<overtaken, late, undisturbed, refused>>
pubVars == <<hubVars, lease, line, jobOf, found, seen, todo, pubFaults, historyVars>>

Waiting == {"idle", "published", "failed", "lost", "crashed"}
Running(a) == line[a] \notin Waiting
Syncing(a) == line[a] \in {"list", "listed", "group", "check", "effect"}

Comment(f, where, open) == [finding |-> f, at |-> where, open |-> open]

\* Earlier reviews have left at most one open comment per finding, and resolved
\* the ones that had moved.
PubInit ==
  /\ prHead = 1 /\ readable \in BOOLEAN
  /\ checks = <<>> /\ summaries = <<>>
  /\ \E f \in FindingId :
       comments \in {<<>>, <<Comment(f, "line", TRUE)>>,
                     <<Comment(f, "line", FALSE), Comment(f, "file", TRUE)>>,
                     <<Comment(f, "file", FALSE)>>}
  /\ lease = Nobody /\ line = [a \in Attempt |-> "idle"]
  /\ jobOf = [a \in Attempt |-> CHOOSE j \in ReviewJob : TRUE]
  /\ found = [a \in Attempt |-> [f \in FindingId |-> "none"]]
  /\ seen = [a \in Attempt |-> <<>>] /\ todo = [a \in Attempt |-> <<>>]
  /\ pubFaults = 0 /\ overtaken = FALSE
  /\ late = [a \in Attempt |-> 0]
  /\ undisturbed = [a \in Attempt |-> TRUE] /\ refused = {}

GoesTo(a, l) == line' = [line EXCEPT ![a] = l]
HeadIsExpected(a) == prHead = ShaOf[jobOf[a]]

\* The findings that take an inline comment, in the order of the review.
Current(a) == {f \in FindingId : found[a][f] # "none"}
InOrderOf(S) == SetToSeq(S)

-----------------------------------------------------------------------------
(* The attempt and its lease                                               *)

\* The worker claims a job that is not settled, and gets an installation token.
BeginAttempt(a, job) ==
  /\ line[a] = "idle" /\ lease = Nobody /\ prHead >= ShaOf[job]
  /\ \A b \in Attempt : jobOf[b] = job => line[b] # "published"
  /\ lease' = a /\ jobOf' = [jobOf EXCEPT ![a] = job] /\ GoesTo(a, "claimed")
  /\ UNCHANGED <<hubVars, found, seen, todo, pubFaults, historyVars>>

\* lease.assertActive, before every stage that others can see.
ConfirmLease(a) ==
  /\ line[a] \in {"claimed", "generated", "summarised", "synced", "failing"}
  /\ IF lease # a THEN GoesTo(a, "lost")
     ELSE GoesTo(a, CASE line[a] = "claimed" -> "checks"
                      [] line[a] = "generated" -> "comments"
                      [] line[a] = "summarised" -> "inline"
                      [] line[a] = "synced" -> "finish"
                      [] line[a] = "failing" -> "finishFailed")
  /\ IF line[a] \in {"synced", "failing"}   \* the findings are of no more use
     THEN /\ found' = [found EXCEPT ![a] = [f \in FindingId |-> "none"]]
          /\ undisturbed' = [undisturbed EXCEPT ![a] = TRUE]
          /\ refused' = {r \in refused : r[1] # a}
     ELSE UNCHANGED <<found, undisturbed, refused>>
  /\ UNCHANGED <<hubVars, lease, jobOf, seen, todo, pubFaults, overtaken, late>>

\* The lease runs out under an attempt that still runs.
LeaseRunsOut ==
  /\ lease # Nobody /\ pubFaults < MaxPubFaults
  /\ lease' = Nobody /\ pubFaults' = pubFaults + 1 /\ overtaken' = TRUE
  /\ UNCHANGED <<hubVars, line, jobOf, found, seen, todo, late, undisturbed, refused>>

AttemptCrashes(a) ==
  /\ Running(a) /\ pubFaults < MaxPubFaults
  /\ GoesTo(a, "crashed") /\ pubFaults' = pubFaults + 1
  /\ lease' = IF lease = a THEN Nobody ELSE lease
  /\ UNCHANGED <<hubVars, jobOf, found, seen, todo, historyVars>>

Ends(a, l) ==
  /\ GoesTo(a, l) /\ lease' = IF lease = a THEN Nobody ELSE lease

\* A push: comments on lines that went away become outdated.
HeadMoves ==
  /\ prHead < MaxHead
  /\ prHead' = prHead + 1
  /\ \E gone \in BOOLEAN :
       comments' = [i \in DOMAIN comments |->
         IF gone /\ comments[i].at = "line"
         THEN [comments[i] EXCEPT !.at = "outdated"] ELSE comments[i]]
  /\ undisturbed' = [a \in Attempt |-> undisturbed[a] /\ ~Syncing(a)]
  /\ UNCHANGED <<readable, checks, summaries, lease, line, jobOf, found, seen, todo,
                 pubFaults, overtaken, late, refused>>

-----------------------------------------------------------------------------
(* The check run and the summary                                           *)

RequestOnly == UNCHANGED <<prHead, readable, jobOf, found, overtaken, undisturbed, refused>>

\* A request of a review is refused, or not answered after it took effect; the
\* catch block closes the check run as failed.
RequestFails(a) ==
  /\ Running(a) /\ pubFaults < MaxPubFaults
  /\ pubFaults' = pubFaults + 1
  /\ IF line[a] \in {"claimed", "checks", "newCheck", "failing", "finishFailed"}
     THEN Ends(a, "failed")
     ELSE GoesTo(a, "failing") /\ UNCHANGED lease
  /\ \/ UNCHANGED <<checks, summaries>>
     \/ line[a] = "newCheck" /\ UNCHANGED summaries
        /\ checks' = Append(checks, [job |-> jobOf[a], completed |-> FALSE])
     \/ line[a] = "newSummary" /\ UNCHANGED checks
        /\ summaries' = Append(summaries, jobOf[a])
  /\ seen' = [seen EXCEPT ![a] = <<>>] /\ todo' = [todo EXCEPT ![a] = <<>>]
  /\ UNCHANGED <<comments, late>> /\ RequestOnly

\* Mutation: the lookup misses the job's own comment.
AlwaysNew(job, all) == FALSE
\* Checks and comments are found again by the job id they carry.
CarriesJob(job, all) == \E i \in DOMAIN all : all[i] = job

ListCheckRuns(a) ==
  /\ line[a] = "checks"
  /\ GoesTo(a, IF CarriesJob(jobOf[a], [i \in DOMAIN checks |-> checks[i].job])
               THEN "review" ELSE "newCheck")
  /\ UNCHANGED <<checks, summaries, comments, lease, seen, todo, pubFaults, late>> /\ RequestOnly

CreateCheckRun(a) ==
  /\ line[a] = "newCheck" /\ GoesTo(a, "review")
  /\ checks' = Append(checks, [job |-> jobOf[a], completed |-> FALSE])
  /\ UNCHANGED <<summaries, comments, lease, seen, todo, pubFaults, late>> /\ RequestOnly

\* Diff, sandbox, context and model: every attempt reviews anew.  A result that
\* is not authoritative comes with no word on its findings.
Generate(a) ==
  /\ line[a] = "review" /\ GoesTo(a, "generated")
  /\ \E result \in [FindingId -> {"line", "file", "none"}] :
       found' = [found EXCEPT ![a] = result]
  /\ UNCHANGED <<hubVars, lease, jobOf, seen, todo, pubFaults, historyVars>>

ListComments(a) ==
  /\ line[a] = "comments"
  /\ GoesTo(a, IF CarriesJob(jobOf[a], summaries) THEN "oldSummary" ELSE "newSummary")
  /\ UNCHANGED <<checks, summaries, comments, lease, seen, todo, pubFaults, late>> /\ RequestOnly

PatchOrPostSummary(a) ==
  /\ line[a] \in {"oldSummary", "newSummary"} /\ GoesTo(a, "summarised")
  /\ summaries' = IF line[a] = "newSummary" THEN Append(summaries, jobOf[a]) ELSE summaries
  /\ UNCHANGED <<checks, comments, lease, seen, todo, pubFaults, late>> /\ RequestOnly

\* The conclusion is written to the job's check run, and ends the attempt.
FinishCheckRun(a) ==
  /\ line[a] \in {"finish", "finishFailed"}
  /\ Ends(a, IF line[a] = "finish" THEN "published" ELSE "failed")
  /\ checks' = LET own == {i \in DOMAIN checks : checks[i].job = jobOf[a]}
               IN  [i \in DOMAIN checks |-> IF own # {} /\ i = (CHOOSE k \in own : \A l \in own : k <= l)
                                            THEN [checks[i] EXCEPT !.completed = TRUE] ELSE checks[i]]
  /\ UNCHANGED <<summaries, comments, seen, todo, pubFaults, late>> /\ RequestOnly

-----------------------------------------------------------------------------
(* Inline comments                                                         *)

Do(verb, i, f) == [verb |-> verb, on |-> i, finding |-> f]

\* Positions in the order of the listing.
Nth(S, k) == CHOOSE i \in S : Cardinality({j \in S : j < i}) = k - 1

Matching(a, f) == {i \in DOMAIN seen[a] : seen[a][i].finding = f}
Resolvable(a) == {i \in DOMAIN seen[a] : readable /\ seen[a][i].open}
Resolves(a, S) ==
  [k \in 1 .. Cardinality(S) |-> Do("resolve", Nth(S, k), seen[a][Nth(S, k)].finding)]

\* resolveObsoleteFindingThreads: every open thread but the one in use.
ResolveOthers(a, f, keep) == Resolves(a, (Matching(a, f) \cap Resolvable(a)) \ {keep})

\* Mutation: a comment found again stays as it is.
UpdateOnly(a, f, i) == <<Do("update", i, f)>>
\* A comment that is used again is updated and its thread reopened; the
\* finding's other threads are resolved.
Reuse(a, f, i) ==
  <<Do("update", i, f)>>
  \o (IF readable /\ ~seen[a][i].open THEN <<Do("unresolve", i, f)>> ELSE <<>>)
  \o ResolveOthers(a, f, i)

\* upsertFindingReviewComment: the comment at the finding's place, or a new one.
PlanFor(a, f) ==
  LET here == {i \in Matching(a, f) : seen[a][i].at = found[a][f]}
  IN  IF here # {} THEN Reuse(a, f, Nth(here, 1))
      ELSE <<Do("create", 0, f)>> \o ResolveOthers(a, f, 0)

\* When GitHub takes no comment there, one that is elsewhere is used: the first
\* with an open thread, or the first of all.
FallBack(a, f) ==
  LET all == Matching(a, f)
      open == all \cap Resolvable(a)
  IN  IF all = {} THEN <<>> ELSE Reuse(a, f, Nth(IF open # {} THEN open ELSE all, 1))

SyncOnly == UNCHANGED <<prHead, readable, checks, summaries, lease, jobOf, found, overtaken>>

\* A result without authority publishes no inline comments.
StartSync(a) ==
  /\ line[a] = "inline"
  /\ \/ GoesTo(a, "synced") /\ UNCHANGED undisturbed
     \/ /\ GoesTo(a, IF HeadIsExpected(a) THEN "list" ELSE "synced")
        /\ undisturbed' = [undisturbed EXCEPT ![a] = HeadIsExpected(a)]
  /\ UNCHANGED <<comments, seen, todo, pubFaults, late, refused>> /\ SyncOnly

ListFindingComments(a) ==
  /\ line[a] = "list" /\ GoesTo(a, "listed")
  /\ seen' = [seen EXCEPT ![a] = comments]
  /\ UNCHANGED <<comments, todo, pubFaults, undisturbed, late, refused>> /\ SyncOnly

Gone(a) == {i \in Resolvable(a) : seen[a][i].finding \notin Current(a)}

\* With the head checked again, threads of findings that are gone are resolved
\* first, then each finding of the review is published.
Plan(a) ==
  /\ line[a] = "listed"
  /\ IF HeadIsExpected(a)
     THEN /\ GoesTo(a, "check")
          /\ todo' = [todo EXCEPT ![a] =
               <<Resolves(a, Gone(a))>>
               \o [k \in DOMAIN InOrderOf(Current(a)) |-> PlanFor(a, InOrderOf(Current(a))[k])]]
          /\ UNCHANGED seen
     ELSE GoesTo(a, "synced") /\ seen' = [seen EXCEPT ![a] = <<>>] /\ UNCHANGED todo
  /\ UNCHANGED <<comments, pubFaults, undisturbed, late, refused>> /\ SyncOnly

\* The loop over findings checks the head; it ends after the last one, when the
\* head has moved, or short of the platform's kill.
NextFinding(a) ==
  /\ line[a] = "group"
  /\ \/ /\ HeadIsExpected(a) /\ Len(todo[a]) > 1
        /\ GoesTo(a, "check") /\ todo' = [todo EXCEPT ![a] = Tail(@)]
        /\ UNCHANGED <<seen, undisturbed>>
     \/ /\ GoesTo(a, "synced")
        /\ undisturbed' = [undisturbed EXCEPT ![a] = @ /\ Len(todo[a]) = 1]
        /\ seen' = [seen EXCEPT ![a] = <<>>] /\ todo' = [todo EXCEPT ![a] = <<>>]
  /\ UNCHANGED <<comments, pubFaults, late, refused>> /\ SyncOnly

\* Mutation: a look at the head before the comment serves for its threads too.
CheckOnce(a, next) == next.verb \in {"resolve", "unresolve"} \/ HeadIsExpected(a)
\* currentHeadIsExpected, before each request of its own.
CheckHead(a, next) == HeadIsExpected(a)

BeforeEffect(a) ==
  /\ line[a] = "check"
  /\ IF Head(todo[a]) = <<>> THEN GoesTo(a, "group") /\ UNCHANGED todo
     ELSE IF CheckHead(a, Head(Head(todo[a]))) THEN GoesTo(a, "effect") /\ UNCHANGED todo
     ELSE GoesTo(a, "group") /\ todo' = [todo EXCEPT ![a] = <<<<>>>> \o Tail(@)]
  /\ UNCHANGED <<comments, seen, pubFaults, undisturbed, late, refused>> /\ SyncOnly

\* What a request changes; a comment is created on the reviewed commit.
Applied(do, where) ==
  CASE do.verb = "resolve"   -> [comments EXCEPT ![do.on].open = FALSE]
    [] do.verb = "unresolve" -> [comments EXCEPT ![do.on].open = TRUE]
    [] do.verb = "update"    -> comments
    [] OTHER                 -> Append(comments, Comment(do.finding, where, TRUE))

Disturbs(a) == undisturbed' = [b \in Attempt |-> undisturbed[b] /\ (b # a => ~Syncing(b))]
Counted(a) == late' = [late EXCEPT ![a] = IF HeadIsExpected(a) THEN @ ELSE @ + 1]

Effect(a) ==
  LET do == Head(Head(todo[a])) IN
  /\ line[a] = "effect"
  /\ comments' = Applied(do, IF do.verb = "createFile" THEN "file" ELSE found[a][do.finding])
  /\ Counted(a) /\ Disturbs(a)
  /\ \/ /\ GoesTo(a, "check")
        /\ todo' = [todo EXCEPT ![a] = <<Tail(Head(@))>> \o Tail(@)]
        /\ UNCHANGED <<pubFaults, seen>>
     \/ /\ pubFaults < MaxPubFaults /\ pubFaults' = pubFaults + 1
        /\ GoesTo(a, "failing")
        /\ seen' = [seen EXCEPT ![a] = <<>>] /\ todo' = [todo EXCEPT ![a] = <<>>]
  /\ UNCHANGED refused /\ SyncOnly

\* 422: the place is not part of the diff.  A line gives way to the file; then
\* to a comment that exists, or to none.
PlaceRefused(a) ==
  LET do == Head(Head(todo[a])) IN
  /\ line[a] = "effect" /\ do.verb \in {"create", "createFile"}
  /\ GoesTo(a, "check")
  /\ IF do.verb = "create" /\ found[a][do.finding] = "line"
     THEN todo' = [todo EXCEPT ![a] = <<<<[do EXCEPT !.verb = "createFile"]>> \o Tail(Head(@))>> \o Tail(@)]
          /\ UNCHANGED refused
     ELSE /\ todo' = [todo EXCEPT ![a] = <<FallBack(a, do.finding)>> \o Tail(@)]
          /\ refused' = IF Matching(a, do.finding) = {} THEN refused \cup {<<a, do.finding>>} ELSE refused
  /\ UNCHANGED <<comments, seen, pubFaults, undisturbed, late>> /\ SyncOnly

PubNext ==
  \/ \E a \in Attempt :
       \/ \E job \in ReviewJob : BeginAttempt(a, job)
       \/ ConfirmLease(a) \/ AttemptCrashes(a) \/ RequestFails(a)
       \/ ListCheckRuns(a) \/ CreateCheckRun(a) \/ Generate(a)
       \/ ListComments(a) \/ PatchOrPostSummary(a) \/ FinishCheckRun(a)
       \/ StartSync(a) \/ ListFindingComments(a) \/ Plan(a) \/ NextFinding(a)
       \/ BeforeEffect(a) \/ Effect(a) \/ PlaceRefused(a)
  \/ LeaseRunsOut \/ HeadMoves

PubSpec == PubInit /\ [][PubNext]_pubVars

-----------------------------------------------------------------------------
(* Properties                                                              *)

\* A review that a push has made stale changes at most one more thing about the
\* inline comments, however many it had planned: each request follows a look at
\* the head of its own.
StaleEffectsAreBounded == \A a \in Attempt : late[a] <= 1

\* Retries after a crash, or after a request whose answer was lost, write into
\* the check run and the summary of the job and never beside them.  Only an
\* attempt that lost its lease while it ran can have posted a second one.
SummaryIsNotRepeated ==
  ~overtaken =>
    /\ \A i, j \in DOMAIN summaries : summaries[i] = summaries[j] => i = j
    /\ \A i, j \in DOMAIN checks : checks[i].job = checks[j].job => i = j

\* After a whole sync that nothing disturbed, whatever earlier reviews, retries
\* and refused places have left, each finding of the review has one open thread
\* (none if GitHub refused every place), and no other finding has any.
SyncConverges ==
  \A a \in Attempt :
    line[a] = "group" /\ Len(todo[a]) = 1 /\ undisturbed[a] /\ readable =>
      \A f \in FindingId :
        LET open == {i \in DOMAIN comments : comments[i].finding = f /\ comments[i].open}
        IN  Cardinality(open) = IF f \in Current(a) /\ <<a, f>> \notin refused THEN 1 ELSE 0
=============================================================================
