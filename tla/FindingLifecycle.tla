-------------------------- MODULE FindingLifecycle --------------------------
(***************************************************************************)
(* The state of a pull request's findings.  It is never stored: it is      *)
(* projected from the event ledger, by projectFindingLifecycles of         *)
(* finding-lifecycle.ts.  The recorder (review-event-recorder.ts) appends  *)
(* what happened; in calls of their own it lists the ledger, and appends,  *)
(* one by one, the states its own projection shows to have changed.  Those *)
(* facts are projected in turn.  Any other recorder may act in between.    *)
(***************************************************************************)
EXTENDS Integers, Sequences, FiniteSets, SequencesExt

CONSTANTS
  FindingIdentity, \* the identities a pull request's findings may have
  ReplacementOf,   \* of each identity, the one that supersedes it or NoFinding
  Reaction,        \* dismissing reactions
  MaxEvents,       \* bound on what happens: reviews, feedback and head changes
  MaxRepeats,      \* bound on recorders that decide facts once more
  NoFinding

PullHead == {1, 2} \* the pull request's heads, in their order
NoHead == 0

VARIABLES
  ledger,     \* the events in the order the projection replays them
  unrecorded, \* of each event, the facts its recorders decided on and may append
  happened,   \* how many events that are no facts
  repeats     \* how often facts were decided once more

lifecycleVars == <<ledger, unrecorded, happened, repeats>>

-----------------------------------------------------------------------------
(* The projection                                                          *)

Unknown == [state |-> "unknown", under |-> "unknown", signals |-> {},
            feedback |-> <<>>, facts |-> <<>>]
NothingProjected == [head |-> NoHead, reviewed |-> NoHead,
                     of |-> [f \in FindingIdentity |-> Unknown]]

Known(p, f) == p.of[f].state # "unknown"

\* What a reaction hides is kept underneath.
ApplyUnderlying(x, state) ==
  [x EXCEPT !.under = state, !.state = IF x.signals = {} THEN state ELSE @]

Reveal(x) == [x EXCEPT !.state = IF x.signals = {} THEN x.under ELSE "dismissed"]

\* findingStateForFeedbackKind: other kinds leave the state alone.
StateFor == [dismissed |-> "dismissed", resolved |-> "fixed", reopened |-> "open"]

ApplyFeedback(x, e) ==
  CASE e.kind = "on"  -> Reveal([x EXCEPT !.signals = @ \union {e.reaction}])
    [] e.kind = "off" -> Reveal([x EXCEPT !.signals = @ \ {e.reaction}])
    [] e.kind \in DOMAIN StateFor -> ApplyUnderlying(x, StateFor[e.kind])

ApplyFact(x, e) == IF e.signal THEN Reveal(x) ELSE ApplyUnderlying(x, e.state)

HeadChanged(p, e) ==
  [p EXCEPT !.head = e.head,
            !.of = [f \in FindingIdentity |-> IF p.of[f].under = "open" THEN ApplyUnderlying(p.of[f], "stale")
                                      ELSE p.of[f]]]

\* A review of a head that was superseded adds what nobody knew of, as stale.
Superseded(p, e) ==
  [p EXCEPT !.of = [f \in FindingIdentity |->
     IF f \in e.findings /\ ~Known(p, f) THEN [p.of[f] EXCEPT !.state = "stale", !.under = "stale"]
     ELSE p.of[f]]]

\* Mutation: a review decides on what was dismissed, too.
AnyState(state) == TRUE
\* What a later review that does not find it any more may change.
MayEnd(state) == state \notin {"dismissed", "superseded"}

\* What was found is open, again or for the first time, and then gets what came
\* before it; what was not found is fixed, or superseded.
Reviewed(x, f, found) ==
  IF f \notin found
  THEN IF x.state = "unknown" \/ ~MayEnd(x.under) THEN x
       ELSE ApplyUnderlying(x, IF ReplacementOf[f] \in found THEN "superseded" ELSE "fixed")
  ELSE IF x.state = "unknown"
  THEN [FoldLeft(ApplyFact, FoldLeft(ApplyFeedback, [x EXCEPT !.state = "open", !.under = "open"],
                                     x.feedback), x.facts)
        EXCEPT !.feedback = <<>>, !.facts = <<>>]
  ELSE IF x.under \notin {"open", "dismissed"} THEN ApplyUnderlying(x, "open") ELSE x

Completed(p, e, current) ==
  LET head == IF current # NoHead /\ e.head = current THEN current ELSE p.head IN
  IF ~e.authoritative THEN p
  ELSE IF head # NoHead /\ e.head # head THEN Superseded([p EXCEPT !.head = head], e)
  ELSE [head |-> head, reviewed |-> e.head,
        of |-> [f \in FindingIdentity |-> Reviewed(p.of[f], f, e.findings)]]

\* Feedback and facts of an unknown finding wait for it.
ForFinding(p, e) ==
  LET x == p.of[e.finding]
      next == CASE ~Known(p, e.finding) /\ e.type = "feedback" -> [x EXCEPT !.feedback = Append(@, e)]
                [] ~Known(p, e.finding) /\ e.type = "fact"     -> [x EXCEPT !.facts = Append(@, e)]
                [] Known(p, e.finding) /\ e.type = "feedback"  -> ApplyFeedback(x, e)
                [] Known(p, e.finding) /\ e.type = "fact"      -> ApplyFact(x, e)
  IN  [p EXCEPT !.of[e.finding] = next]

\* projectFindingLifecycles; with a live head, what is open although another
\* head was reviewed is stale.
Project(events, current) ==
  LET step(p, e) == CASE e.type = "head"      -> HeadChanged(p, e)
                      [] e.type = "completed" -> Completed(p, e, current)
                      [] OTHER                -> ForFinding(p, e)
      p == FoldLeft(step, NothingProjected, events)
  IN  IF current # NoHead /\ p.reviewed \notin {NoHead, current}
      THEN [f \in FindingIdentity |-> IF p.of[f].state = "open" THEN ApplyUnderlying(p.of[f], "stale").state
                              ELSE p.of[f].state]
      ELSE [f \in FindingIdentity |-> p.of[f].state]

-----------------------------------------------------------------------------
(* The recorder                                                            *)

LifecycleInit == ledger = <<>> /\ unrecorded = [i \in 1..MaxEvents |-> {}] /\ happened = 0 /\ repeats = 0

\* The projection sorts by the time an event is given, then by the sequence
\* number its append gets: an event goes behind those of its time.
BySequence(e) ==
  InsertAt(ledger, 1 + Cardinality({i \in DOMAIN ledger : ledger[i].time <= e.time}), e)

\* An event's time is taken before its append is awaited, or is the event's own:
\* it may be before any event that is recorded by then.
Happens(e, facts) ==
  \E time \in 1..MaxEvents :
    /\ happened < MaxEvents /\ happened' = happened + 1
    /\ ledger' = BySequence(e @@ [id |-> happened', time |-> time])
    /\ unrecorded' = [unrecorded EXCEPT ![happened'] = {fact @@ [time |-> time, of |-> happened'] : fact \in facts}]
    /\ UNCHANGED repeats

\* seen is how many events its recorder had listed.
Fact(f, state, signal, seen) ==
  [type |-> "fact", finding |-> f, state |-> state, signal |-> signal, seen |-> seen]

\* A review completes, at the time its outcome was staged; a fallback's findings
\* are no authority.
RecordCompleted ==
  \E head \in PullHead, found \in SUBSET FindingIdentity, authoritative \in BOOLEAN :
    /\ authoritative \/ found = {}
    /\ Happens([type |-> "completed", head |-> head, findings |-> found,
                authoritative |-> authoritative], {})

RecordHeadChanged ==
  /\ \A i \in DOMAIN ledger : ledger[i].type # "head"
  /\ Happens([type |-> "head", head |-> 2], {})

\* Replies, threads and reactions on a finding's comment.  The fact of a reply or
\* a thread, or of a reaction that is there, asks no projection.  Whether a
\* reaction is there is looked up before the time is taken, and each delivery is
\* handled by itself: its removal may be recorded, or dated, first.
RecordFeedback(f) ==
  \/ \E kind \in DOMAIN StateFor :
       Happens([type |-> "feedback", finding |-> f, kind |-> kind], {Fact(f, StateFor[kind], FALSE, 0)})
  \/ \E r \in Reaction :
       \/ Happens([type |-> "feedback", finding |-> f, kind |-> "on", reaction |-> r],
                  {Fact(f, "dismissed", TRUE, 0)})
       \/ Happens([type |-> "feedback", finding |-> f, kind |-> "off", reaction |-> r], {})

\* The states an event changed, as the projection of the ledger with and without
\* it shows them.
FactsOf(e) ==
  LET before == Project(SelectSeq(ledger, LAMBDA x : x # e), NoHead)
      after  == Project(ledger, NoHead)
      live   == Project(ledger, e.head)
      changed(f) == after[f] # before[f] /\ after[f] # "unknown"
  IN  CASE e.type = "completed" -> {Fact(f, after[f], FALSE, happened) : f \in {g \in FindingIdentity : changed(g)}}
        [] e.type = "head" ->
             {Fact(f, "stale", FALSE, happened) : f \in {g \in FindingIdentity : live[g] = "stale"}}
        [] OTHER -> {Fact(f, after[f], TRUE, happened) : f \in {g \in {e.finding} : changed(g)}}

\* One idempotency key: what a recorder had seen is no part of it.
SameKey(a, b) ==
  a.type = b.type /\ a.of = b.of /\ a.finding = b.finding /\ a.state = b.state

\* A recorder lists the ledger and decides which facts to append.  Its delivery
\* may be repeated and its job taken over: then another one decides once more.
ListEvents ==
  \E i \in DOMAIN ledger :
    LET e == ledger[i]
        facts == {fact @@ [time |-> e.time, of |-> e.id] : fact \in FactsOf(e)}
        again == unrecorded[e.id] # {} \/ \E x \in Range(ledger) : x.type = "fact" /\ x.of = e.id
    IN
    /\ e.type # "fact" /\ (e.type = "feedback" => e.kind = "off")
    /\ unrecorded' = [unrecorded EXCEPT ![e.id] = {fact \in @ : \A x \in facts : ~SameKey(fact, x)} \union facts]
    /\ repeats' = IF again /\ unrecorded' # unrecorded THEN repeats + 1 ELSE repeats
    /\ repeats' <= MaxRepeats
    /\ UNCHANGED <<ledger, happened>>

\* One append of a fact, which is recorded once.  An invocation that dies leaves
\* the rest of its facts out.
AppendFact(i) ==
  \E fact \in unrecorded[i] :
    /\ unrecorded' = [unrecorded EXCEPT ![i] = @ \ {fact}]
    /\ ledger' = IF \E j \in DOMAIN ledger : SameKey(ledger[j], fact) THEN ledger ELSE BySequence(fact)
    /\ UNCHANGED <<happened, repeats>>

LifecycleNext ==
  \/ RecordCompleted \/ RecordHeadChanged
  \/ \E f \in FindingIdentity : RecordFeedback(f)
  \/ ListEvents
  \/ \E i \in DOMAIN unrecorded : AppendFact(i)

LifecycleSpec == LifecycleInit /\ [][LifecycleNext]_lifecycleVars

-----------------------------------------------------------------------------
(* Properties                                                              *)

\* The maintainers' decisions on a finding, reactions aside.
IsDecision(e, f) == e.type = "feedback" /\ e.finding = f /\ e.kind \in DOMAIN StateFor

\* A recorder that listed everything up to the event at position i.
Knew(fact, i) == \A j \in 1..i : ledger[j].type = "fact" \/ ledger[j].id <= fact.seen

\* A finding that was known when it was dismissed stays dismissed.  A dismissing
\* reaction holds until it is removed, whatever is recorded.  A maintainer's last
\* decision holds against every later review, head change and reaction, in
\* whatever order they and their facts are recorded, but for a fact that is replayed
\* after it and whose recorder did not know of the dismissal.
DismissalsStand ==
  \A i \in DOMAIN ledger :
    LET e == ledger[i]
        later == {ledger[j] : j \in i + 1..Len(ledger)}
    IN
    /\ e.type = "feedback"
    /\ \/ /\ e.kind = "on"
          /\ \A x \in later : x.type = "feedback" /\ x.kind = "off" /\ x.finding = e.finding => x.reaction # e.reaction
       \/ /\ e.kind = "dismissed"
          /\ \A x \in later : ~IsDecision(x, e.finding)
          /\ \A x \in later : x.type = "fact" /\ x.finding = e.finding /\ ~x.signal /\ x.state # "dismissed" => Knew(x, i)
    /\ Project(SubSeq(ledger, 1, i), NoHead)[e.finding] # "unknown"
    => Project(ledger, NoHead)[e.finding] = "dismissed"

\* A finding nobody dismissed, with no dismissing reaction left on it, is not
\* dismissed ("reopens only after the last active dismissing reaction is
\* removed", finding-lifecycle.test.ts:44).
ReactionsAreUndone ==
  \A f \in FindingIdentity :
    LET onIt == SelectSeq(ledger, LAMBDA e : e.type = "feedback" /\ e.finding = f) IN
    Project(ledger, NoHead)[f] = "dismissed" =>
      \/ \E i \in DOMAIN onIt : onIt[i].kind = "dismissed"
      \/ \E r \in Reaction :
           LET ofIt == SelectSeq(onIt, LAMBDA e : e.kind \in {"on", "off"} /\ e.reaction = r) IN
           ofIt # <<>> /\ Last(ofIt).kind = "on"
=============================================================================
