------------------------- MODULE WorkspaceAnalysis -------------------------
(***************************************************************************)
(* One workspace review: analyzeWorkspaceReview with the transport it      *)
(* calls, requestOpenRouterWorkspaceModel and readWorkspaceModelStream.    *)
(* Time is a discrete clock.  Three timers race the model: the end-to-end  *)
(* deadline, armed once after the prompt is built, the budget of the       *)
(* attempt in flight, and the stall window since the last data frame.  A   *)
(* timer that is due fires before the clock moves on.                      *)
(***************************************************************************)
EXTENDS Integers, FiniteSets

CONSTANTS
  DeadlineAt,     \* input.deadlineAt, the request having arrived at 0
  AttemptBudget,  \* WORKSPACE_REVIEW_ATTEMPT_BUDGET_MS
  AssemblyReserve,\* WORKSPACE_REVIEW_ASSEMBLY_RESERVE_MS
  StallTimeout,   \* tuning.stallTimeoutMs
  MinTimeout,     \* MIN_OPENROUTER_TIMEOUT_MS
  Preparation,    \* bound on the time redaction and prompt building take
  Provider        \* the serving providers of the one model

ASSUME AnalysisTimesAssumption ==
  /\ DeadlineAt \in Nat /\ AttemptBudget \in Nat /\ AssemblyReserve \in Nat
  /\ StallTimeout \in Nat \ {0} /\ MinTimeout \in Nat \ {0} /\ Preparation \in Nat

Nil == "none"
ASSUME ProviderAssumption == Nil \notin Provider

VARIABLES
  now,
  phase,     \* "received", "sent", "body", "failing", "answered", "settled"
  stream,    \* tuning.stream
  attempt,
  timers,    \* [deadline, attempt]: when each fires
  dataAt,    \* lastDataFrameAt, or when the request was sent
  acc,       \* the StreamAccumulator: text, provider and terminated
  pending,   \* the transport's error while the response body is cancelled
  tried,     \* attemptProviders: Nil until a provider is known
  routing,   \* what attempt 2 adds to the request: [ignore, correction]
  notes,     \* the attempt metadata: [retryReason, retrySkipped]
  outcome,
  wire       \* ghost: the attempt on the wire, [ended, broken, progressAt, sentAt]

analysisVars == <<now, phase, stream, attempt, timers, dataAt, acc, pending,
                  tried, routing, notes, outcome, wire>>

Attempts == 1 .. 2     \* WORKSPACE_REVIEW_MAX_ATTEMPTS = 2

EmptyAccumulator == [text |-> FALSE, provider |-> Nil, terminated |-> FALSE]
SilentWire(t) == [ended |-> FALSE, broken |-> FALSE, progressAt |-> t, sentAt |-> t]

AnalysisInit ==
  /\ now \in 0 .. DeadlineAt     \* the gate and the body took this long
  /\ phase = "received" /\ stream \in BOOLEAN /\ attempt = 0
  /\ timers = [deadline |-> 0, attempt |-> 0]
  /\ dataAt = 0 /\ acc = EmptyAccumulator /\ pending = Nil
  /\ tried = [i \in Attempts |-> Nil]
  /\ routing = [ignore |-> {}, correction |-> Nil]
  /\ notes = [retryReason |-> Nil, retrySkipped |-> FALSE]
  /\ outcome = Nil
  /\ wire = SilentWire(now)

-----------------------------------------------------------------------------
(* The retry policy and the classification of an attempt's rejection.      *)

\* workspaceRetryReason: the failures a second attempt could survive.
DeliveryFailures == {"stall", "attempt_timeout", "connection", "truncated_stream",
                     "malformed_frame", "provider_error", "http_retryable"}
BrokenAnswers == {"language_invalid", "schema_invalid"}
RetryReason(error) ==
  IF error \in DeliveryFailures \cup BrokenAnswers THEN error ELSE Nil

\* Only an answer that broke the output contract can be corrected.
Correction(reason) == IF reason \in BrokenAnswers THEN reason ELSE Nil

\* Mutation: an attempt out of budget is reported as the review's timeout.
ClassifyAsDeadline(error, deadlineReached, attemptExpired) ==
  IF error \in {"review_timeout", "stall"} THEN error
  ELSE IF deadlineReached \/ error = "attempt_timeout" \/ attemptExpired
  THEN "review_timeout"
  ELSE IF error = "aborted" THEN "connection"
  ELSE error

\* An abort keeps the cause that triggered it; every other abort is a dead
\* connection.
Classify(error, deadlineReached, attemptExpired) ==
  IF error \in {"review_timeout", "stall"} THEN error
  ELSE IF deadlineReached THEN "review_timeout"
  ELSE IF error = "attempt_timeout" \/ attemptExpired THEN "attempt_timeout"
  ELSE IF error = "aborted" THEN "connection"
  ELSE error

AttemptBudgetAt(t, n) ==
  LET remaining == IF DeadlineAt > t THEN DeadlineAt - t ELSE 0
  IN  IF n < 2 /\ remaining > AttemptBudget THEN AttemptBudget ELSE remaining

\* Mutation: the time to assemble the answer is not reserved.
FitsWithoutReserve == DeadlineAt - now >= AttemptBudget
\* A second attempt starts only if it can run its whole budget.
RetryFits == DeadlineAt - now >= AttemptBudget + AssemblyReserve

-----------------------------------------------------------------------------
(* Attempts                                                                *)

\* An attempt posts the request: its timer starts and the transport's own
\* window covers the headers too.
Send(n, t) ==
  /\ attempt' = n
  /\ phase' = "sent"
  /\ timers' = [timers EXCEPT !.attempt = t + AttemptBudgetAt(t, n)]
  /\ dataAt' = t
  /\ acc' = EmptyAccumulator
  /\ pending' = Nil
  /\ wire' = SilentWire(t)

SettleReview(result) ==
  /\ phase' = "settled" /\ outcome' = result
  /\ UNCHANGED <<now, stream, attempt, timers, dataAt, acc, pending, wire>>

\* A mismatched kind, sandbox evidence and an unreadable tuning variable are
\* refused before any timer is armed.
RefuseInput ==
  /\ phase = "received"
  /\ SettleReview("refused")
  /\ UNCHANGED <<tried, routing, notes>>

RefuseLateRequest ==
  /\ phase = "received"
  /\ DeadlineAt - now < MinTimeout
  /\ SettleReview("review_timeout")
  /\ UNCHANGED <<tried, routing, notes>>

\* The timeout is computed on entry; redaction and the prompt take time; then
\* the deadline timer is armed with that timeout, and attempt 1 with its own.
Begin ==
  /\ phase = "received"
  /\ DeadlineAt - now >= MinTimeout
  /\ \E spent \in 0 .. Preparation :
       LET t == now + spent IN
       /\ now' = t
       /\ attempt' = 1 /\ phase' = "sent"
       /\ timers' = [deadline |-> t + (DeadlineAt - now),
                     attempt |-> t + AttemptBudgetAt(t, 1)]
       /\ dataAt' = t /\ wire' = SilentWire(t)
  /\ UNCHANGED <<stream, acc, pending, tried, routing, notes, outcome>>

\* The catch block of the attempt loop.  `provider` is what the error or the
\* response named.
AttemptFails(error, deadlineReached, attemptExpired, provider) ==
  LET failure == Classify(error, deadlineReached, attemptExpired)
      reason == RetryReason(failure)
  IN  /\ tried' = [tried EXCEPT ![attempt] = provider]
      /\ IF failure = "review_timeout" \/ reason = Nil \/ attempt = 2
         THEN /\ SettleReview(failure)
              /\ notes' = IF failure # "review_timeout" /\ reason # Nil
                          THEN [notes EXCEPT !.retryReason = reason] ELSE notes
              /\ UNCHANGED routing
         ELSE IF ~RetryFits
         THEN /\ SettleReview(failure)
              /\ notes' = [retryReason |-> reason, retrySkipped |-> TRUE]
              /\ routing' = [routing EXCEPT !.correction = Correction(reason)]
         ELSE /\ Send(2, now)
              /\ notes' = [notes EXCEPT !.retryReason = reason]
              /\ routing' = [ignore |-> {provider} \ {Nil},
                             correction |-> Correction(reason)]
              /\ UNCHANGED <<now, stream, outcome>>

\* Mutation: the deadline waits for the request it aborts to end.
DeadlineAwaitsTransport ==
  /\ phase \in {"sent", "body", "failing"}
  /\ now = timers.deadline
  /\ phase' = "failing" /\ pending' = "review_timeout"
  /\ UNCHANGED <<now, stream, attempt, timers, dataAt, acc, tried, routing,
                 notes, outcome, wire>>

\* The timer callbacks abort the socket and reject; whichever rejection the
\* race sees first, the classification names the timer.
DeadlineFires ==
  /\ phase \in {"sent", "body", "failing"}
  /\ now = timers.deadline
  /\ \E error \in {"review_timeout", "aborted"} :
       AttemptFails(error, TRUE, FALSE, Nil)

AttemptTimerFires ==
  /\ phase \in {"sent", "body", "failing"}
  /\ now = timers.attempt /\ now < timers.deadline
  /\ \E error \in {"attempt_timeout", "aborted"} :
       AttemptFails(error, FALSE, TRUE,
                    IF error = "aborted" THEN acc.provider ELSE Nil)

-----------------------------------------------------------------------------
(* The transport                                                           *)

TransportOnly ==
  UNCHANGED <<now, stream, attempt, timers, tried, routing, notes, outcome>>

\* Once there is a response, an error leaves the transport only after the body
\* is cancelled.
TransportFails(error) ==
  /\ phase' = "failing" /\ pending' = error
  /\ UNCHANGED <<dataAt, acc>> /\ TransportOnly

Headers ==
  /\ phase = "sent"
  /\ phase' = "body" /\ dataAt' = now
  /\ wire' = [wire EXCEPT !.progressAt = now]
  /\ UNCHANGED <<acc, pending>> /\ TransportOnly

\* A response that is not OK fails with its status; 5xx, 429, 408, 409 and 425
\* are retryable.
HttpError ==
  /\ phase = "sent"
  /\ \E error \in {"http_retryable", "http_final"} : TransportFails(error)
  /\ UNCHANGED wire

FetchFails == phase = "sent" /\ AttemptFails("connection", FALSE, FALSE, Nil)

BodyDies == phase = "body" /\ TransportFails("connection") /\ UNCHANGED wire

\* Mutation: any byte counts as progress.
AnyByteClock == now
\* Only data frames move the stall clock.
DataFrameClock == dataAt

StallDue ==
  /\ stream /\ phase \in {"sent", "body"}
  /\ now - dataAt >= StallTimeout

\* A read that returned only comments and blank lines checks the elapsed time
\* itself, so it cannot re-arm a full window.
KeepAlive ==
  /\ phase = "body" /\ stream
  /\ IF StallDue
     THEN TransportFails("stall") /\ UNCHANGED wire
     ELSE /\ dataAt' = DataFrameClock
          /\ UNCHANGED <<phase, acc, pending, wire>> /\ TransportOnly

\* The window aborts the socket before it rejects, so the abort's own rejection
\* may be the one the race sees.
StallFires ==
  /\ StallDue
  /\ \E error \in {"stall", "connection"} :
       IF phase = "sent" THEN AttemptFails(error, FALSE, FALSE, Nil)
                         ELSE TransportFails(error) /\ UNCHANGED wire

\* The router serves the attempt from one provider it was not told to ignore.
Serving == {p \in Provider \ routing.ignore : acc.provider \in {Nil, p}}

\* A data frame: the provider is on every chunk, a delta adds text, a terminal
\* finish_reason announces the end while reading continues.
DataFrame ==
  /\ phase = "body" /\ stream
  /\ \E p \in Serving, delta, finish \in BOOLEAN :
       /\ acc' = [text |-> acc.text \/ delta, provider |-> p,
                  terminated |-> acc.terminated \/ finish]
       /\ wire' = [wire EXCEPT !.ended = @ \/ finish, !.progressAt = now]
  /\ dataAt' = now
  /\ UNCHANGED <<phase, pending>> /\ TransportOnly

\* An error frame names its provider before it throws; a frame that is not
\* JSON, a partial last line included, names none.
BrokenFrame ==
  /\ phase = "body" /\ stream
  /\ phase' = "failing"
  /\ \/ \E p \in Serving :
          acc' = [acc EXCEPT !.provider = p] /\ pending' = "provider_error"
     \/ acc' = acc /\ pending' = "malformed_frame"
  /\ wire' = [wire EXCEPT !.broken = TRUE]
  /\ UNCHANGED dataAt /\ TransportOnly

\* A request without text is a failure no retry repairs.
TransportReturns(ended) ==
  /\ IF acc'.text THEN phase' = "answered" /\ pending' = Nil
     ELSE phase' = "failing" /\ pending' = "no_output"
  /\ wire' = [wire EXCEPT !.ended = ended]
  /\ UNCHANGED dataAt /\ TransportOnly

\* [DONE] ends the stream, whatever follows it.
DoneFrame ==
  /\ phase = "body" /\ stream
  /\ acc' = [acc EXCEPT !.terminated = TRUE]
  /\ TransportReturns(TRUE)

\* Mutation: a clean end of the body is taken for the end of the generation.
EofAlwaysCompletes == TRUE
\* The body may end at any point; the stream must have announced its end.
EofCompletes == acc.terminated

Eof ==
  /\ phase = "body" /\ stream
  /\ IF EofCompletes
     THEN acc' = acc /\ TransportReturns(wire.ended)
     ELSE TransportFails("truncated_stream") /\ UNCHANGED wire

\* Without streaming the whole answer, or the provider's error, is one body.
BufferedBody ==
  /\ phase = "body" /\ ~stream
  /\ \E p \in Serving, text \in BOOLEAN :
       /\ acc' = [acc EXCEPT !.provider = p, !.text = text]
       /\ TransportReturns(TRUE)

BufferedError ==
  /\ phase = "body" /\ ~stream
  /\ \E p \in Serving : acc' = [acc EXCEPT !.provider = p]
  /\ phase' = "failing" /\ pending' = "provider_error"
  /\ wire' = [wire EXCEPT !.broken = TRUE]
  /\ UNCHANGED dataAt /\ TransportOnly

\* The answer is parsed, filtered and returned in one go ...
Publish ==
  /\ phase = "answered"
  /\ tried' = [tried EXCEPT ![attempt] = acc.provider]
  /\ SettleReview("review")
  /\ UNCHANGED <<routing, notes>>

\* ... or breaks the output contract.
AnswerInvalid ==
  /\ phase = "answered"
  /\ \E error \in BrokenAnswers : AttemptFails(error, FALSE, FALSE, acc.provider)

BodyCancelled ==
  /\ phase = "failing"
  /\ AttemptFails(pending, FALSE, FALSE, acc.provider)

\* Timers are urgent: no time passes while one is due.
TimePasses ==
  /\ phase \in {"sent", "body", "failing"}
  /\ ~StallDue /\ now < timers.deadline /\ now < timers.attempt
  /\ now' = now + 1
  /\ UNCHANGED <<phase, stream, attempt, timers, dataAt, acc, pending, tried,
                 routing, notes, outcome, wire>>

AnalysisNext ==
  \/ RefuseInput \/ RefuseLateRequest \/ Begin
  \/ Headers \/ HttpError \/ FetchFails \/ BodyDies \/ KeepAlive \/ StallFires
  \/ DataFrame \/ BrokenFrame \/ DoneFrame \/ Eof
  \/ BufferedBody \/ BufferedError \/ BodyCancelled
  \/ Publish \/ AnswerInvalid
  \/ DeadlineFires \/ AttemptTimerFires
  \/ TimePasses

\* The code runs until its next await and the runtime fires timers that are
\* due; the provider, the network and the cancellation of a body owe nothing.
AnalysisFairness ==
  /\ WF_analysisVars(RefuseLateRequest) /\ WF_analysisVars(Begin)
  /\ WF_analysisVars(Publish) /\ WF_analysisVars(TimePasses)
  /\ WF_analysisVars(StallFires)
  /\ WF_analysisVars(DeadlineFires) /\ WF_analysisVars(AttemptTimerFires)

AnalysisSpec == AnalysisInit /\ [][AnalysisNext]_analysisVars /\ AnalysisFairness

-----------------------------------------------------------------------------
(* Properties                                                              *)

AnalysisTypeOK ==
  /\ now \in Nat /\ stream \in BOOLEAN /\ attempt \in {0} \cup Attempts
  /\ phase \in {"received", "sent", "body", "failing", "answered", "settled"}
  /\ timers \in [deadline : Nat, attempt : Nat] /\ dataAt \in Nat
  /\ acc \in [text : BOOLEAN, provider : Provider \cup {Nil}, terminated : BOOLEAN]
  /\ tried \in [Attempts -> Provider \cup {Nil}]
  /\ routing.ignore \subseteq Provider
  /\ wire \in [ended : BOOLEAN, broken : BOOLEAN, progressAt : Nat, sentAt : Nat]

\* A truncated or broken generation is never published: a review comes from a
\* generation whose provider announced its end and sent no error.
OnlyCompleteAnswersPublished ==
  outcome = "review" => wire.ended /\ ~wire.broken

\* A provider that keeps the socket warm and generates nothing is given up
\* within the stall window, in the header phase as in the body.
QuietStreamsAreGivenUp ==
  stream /\ phase \in {"sent", "body"} => now - wire.progressAt <= StallTimeout

\* Only the end-to-end deadline is reported as a timeout of the review: not a
\* dead connection, a stall or an attempt that spent its own budget.
TimeoutsAreReal ==
  outcome = "review_timeout" => now > DeadlineAt - MinTimeout

\* Attempt 2 starts only with a full budget and the assembly reserve ahead of
\* it, and is never served by the provider attempt 1 named before it failed.
RetryIsEarned ==
  attempt = 2 =>
    /\ timers.attempt - wire.sentAt >= AttemptBudget + AssemblyReserve
    /\ acc.provider = Nil \/ acc.provider # tried[1]

\* The review always ends, whatever the provider does or withholds.
AnalysisSettles == (phase = "received") ~> (phase = "settled")

\* The comment on the attempt budget: the deadline timer "is what ends the last
\* attempt", so running out of time is answered as workspace_review_timeout.
DeadlineEndsTheLastAttempt ==
  outcome = "attempt_timeout" => now < DeadlineAt
=============================================================================
