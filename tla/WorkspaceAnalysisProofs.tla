----------------------- MODULE WorkspaceAnalysisProofs ------------------------
(***************************************************************************)
(* What holds of a workspace review whatever its time limits are and       *)
(* however many providers serve its model: what is published, what is      *)
(* called a timeout, when a silent stream is given up and when a second    *)
(* attempt is made; and that the findings of an answer are all accounted   *)
(* for.                                                                    *)
(***************************************************************************)
EXTENDS WorkspaceAnalysis, WorkspaceAnswer, FiniteSetTheorems, TLAPS

-----------------------------------------------------------------------------
(***************************************************************************)
(* One analysis                                                            *)
(***************************************************************************)

Awaiting == {"sent", "body"}
Active == Awaiting \cup {"failing", "answered"}

RoutingTypeOK == routing \in [ignore : SUBSET Provider, correction : BrokenAnswers \cup {Nil}]

(* The stages: there is an outcome at the end only, and the timer of the   *)
(* deadline, once armed, does not fire before it.                          *)
StagesFit ==
  /\ phase = "received" => attempt = 0 /\ ~acc.terminated
  /\ phase \in Active => attempt \in Attempts /\ timers.deadline >= DeadlineAt
  /\ phase # "settled" => outcome = Nil
  /\ phase = "failing" => pending \notin {"review", "review_timeout"}

(* An attempt that still listens has seen no broken frame, and remembers   *)
(* an end only if one was announced; an answer is complete.                *)
AnswersAreWhole ==
  /\ phase \in Awaiting => ~wire.broken /\ (acc.terminated => wire.ended)
  /\ phase = "answered" => wire.ended /\ ~wire.broken

(* The stall clock stands where the provider last made progress.           *)
ClockIsTrue ==
  stream /\ phase \in Awaiting => dataAt = wire.progressAt /\ now - dataAt <= StallTimeout

(* Whoever failed attempt 1 is left out of the second.                     *)
FailedIsIgnored == attempt = 2 => tried[1] \in {Nil} \cup routing.ignore

AnalysisInv ==
  /\ AnalysisTypeOK /\ RoutingTypeOK /\ StagesFit /\ AnswersAreWhole /\ ClockIsTrue /\ FailedIsIgnored
  /\ OnlyCompleteAnswersPublished /\ TimeoutsAreReal /\ RetryIsEarned

-----------------------------------------------------------------------------
(* The attempt's share of the time is a number, and what a second attempt  *)
(* gets is all that is left.                                               *)
LEMMA BudgetsAreNumbers ==
  ASSUME NEW t \in Nat, NEW n \in Attempts
  PROVE  /\ AttemptBudgetAt(t, n) \in Nat
         /\ n = 2 /\ DeadlineAt > t => AttemptBudgetAt(t, n) = DeadlineAt - t
  BY AnalysisTimesAssumption DEF AttemptBudgetAt, Attempts

(* Only the deadline, or an error that says so, is a timeout of the        *)
(* review, and no error becomes a review.                                  *)
LEMMA ClassifiedFairly ==
  ASSUME NEW error, NEW deadlineReached \in BOOLEAN, NEW attemptExpired \in BOOLEAN,
         error # "review"
  PROVE  /\ Classify(error, deadlineReached, attemptExpired) # "review"
         /\ Classify(error, deadlineReached, attemptExpired) = "review_timeout" =>
              deadlineReached \/ error = "review_timeout"
  BY DEF Classify

(* An attempt fails: the review settles, or a second attempt begins.       *)
LEMMA FailureKeeps ==
  ASSUME AnalysisInv, phase \in Active, NEW error, NEW deadlineReached \in BOOLEAN,
         NEW attemptExpired \in BOOLEAN, NEW provider \in Provider \cup {Nil},
         error # "review", deadlineReached \/ error = "review_timeout" => now >= DeadlineAt,
         AttemptFails(error, deadlineReached, attemptExpired, provider)
  PROVE  AnalysisInv'
<1> DEFINE failure == Classify(error, deadlineReached, attemptExpired)
           reason == RetryReason(failure)
<1>1. failure # "review" /\ (failure = "review_timeout" => now >= DeadlineAt)
  BY ClassifiedFairly
<1>2. Correction(reason) \in BrokenAnswers \cup {Nil}
  BY DEF Correction
<1>3. /\ tried' = [tried EXCEPT ![attempt] = provider]
      /\ \/ /\ phase' = "settled" /\ outcome' = failure
            /\ UNCHANGED <<now, stream, attempt, timers, dataAt, acc, pending, wire>>
            /\ routing' = routing \/ routing' = [routing EXCEPT !.correction = Correction(reason)]
         \/ /\ RetryFits /\ Send(2, now) /\ attempt # 2
            /\ routing' = [ignore |-> {provider} \ {Nil}, correction |-> Correction(reason)]
            /\ UNCHANGED <<now, stream, outcome>>
  BY DEF AttemptFails, SettleReview
<1> HIDE DEF failure, reason
<1>4. CASE /\ phase' = "settled" /\ outcome' = failure
           /\ UNCHANGED <<now, stream, attempt, timers, dataAt, acc, pending, wire>>
           /\ routing' = routing \/ routing' = [routing EXCEPT !.correction = Correction(reason)]
  <2>1. RoutingTypeOK' /\ routing'.ignore = routing.ignore
    BY <1>2, <1>4 DEF AnalysisInv, RoutingTypeOK
  <2>2. attempt \in Attempts /\ tried' \in [Attempts -> Provider \cup {Nil}]
        /\ (attempt = 2 => tried'[1] = tried[1])
    BY <1>3 DEF AnalysisInv, StagesFit, AnalysisTypeOK, Attempts
  <2>3. AnalysisTypeOK'
    BY <1>4, <2>1, <2>2 DEF AnalysisInv, AnalysisTypeOK
  <2>4. StagesFit' /\ AnswersAreWhole' /\ ClockIsTrue'
    BY <1>4, <2>2 DEF AnalysisInv, StagesFit, AnswersAreWhole, ClockIsTrue, Active, Awaiting, Attempts
  <2>5. FailedIsIgnored' /\ RetryIsEarned'
    BY <1>4, <2>1, <2>2 DEF AnalysisInv, FailedIsIgnored, RetryIsEarned
  <2>6. OnlyCompleteAnswersPublished'
    BY <1>1, <1>4 DEF OnlyCompleteAnswersPublished
  <2>7. TimeoutsAreReal'
    BY <1>1, <1>4, AnalysisTimesAssumption DEF TimeoutsAreReal, AnalysisInv, AnalysisTypeOK
  <2> QED
    BY <2>1, <2>3, <2>4, <2>5, <2>6, <2>7 DEF AnalysisInv
<1>5. CASE /\ RetryFits /\ Send(2, now) /\ attempt # 2
           /\ routing' = [ignore |-> {provider} \ {Nil}, correction |-> Correction(reason)]
           /\ UNCHANGED <<now, stream, outcome>>
  <2>1. attempt = 1 /\ tried' \in [Attempts -> Provider \cup {Nil}] /\ tried'[1] = provider
    BY <1>3, <1>5 DEF AnalysisInv, StagesFit, AnalysisTypeOK, Attempts
  <2>2. RoutingTypeOK' /\ routing'.ignore = {provider} \ {Nil}
    BY <1>2, <1>5 DEF RoutingTypeOK
  <2>3. /\ attempt' = 2 /\ phase' = "sent" /\ dataAt' = now /\ acc' = EmptyAccumulator
        /\ wire' = SilentWire(now)
        /\ timers' = [timers EXCEPT !.attempt = now + AttemptBudgetAt(now, 2)]
    BY <1>5 DEF Send
  <2>4. now \in Nat /\ AttemptBudgetAt(now, 2) \in Nat
        /\ AttemptBudgetAt(now, 2) >= AttemptBudget + AssemblyReserve
    <3>1. now \in Nat
      BY DEF AnalysisInv, AnalysisTypeOK
    <3>2. DeadlineAt - now >= AttemptBudget + AssemblyReserve
      BY <1>5 DEF RetryFits
    <3>3. AttemptBudgetAt(now, 2) \in Nat /\ (DeadlineAt > now => AttemptBudgetAt(now, 2) = DeadlineAt - now)
      BY <3>1, BudgetsAreNumbers DEF Attempts
    <3> QED
      BY <3>1, <3>2, <3>3, AnalysisTimesAssumption
  <2>5. timers' \in [deadline : Nat, attempt : Nat] /\ timers'.deadline = timers.deadline
        /\ timers'.attempt - now >= AttemptBudget + AssemblyReserve
    BY <2>3, <2>4, AnalysisTimesAssumption DEF AnalysisInv, AnalysisTypeOK
  <2>6. AnalysisTypeOK'
    BY <1>5, <2>1, <2>2, <2>3, <2>4, <2>5
    DEF AnalysisInv, AnalysisTypeOK, RoutingTypeOK, EmptyAccumulator, SilentWire, Attempts
  <2>7. StagesFit' /\ AnswersAreWhole' /\ ClockIsTrue'
    BY <1>5, <2>3, <2>4, <2>5, AnalysisTimesAssumption
    DEF AnalysisInv, StagesFit, AnswersAreWhole, ClockIsTrue, Active, Awaiting, Attempts,
        EmptyAccumulator, SilentWire
  <2>8. FailedIsIgnored' /\ RetryIsEarned'
    BY <2>1, <2>2, <2>3, <2>5 DEF FailedIsIgnored, RetryIsEarned, EmptyAccumulator, SilentWire
  <2>9. OnlyCompleteAnswersPublished' /\ TimeoutsAreReal'
    <3>1. phase # "settled"
      BY DEF Active, Awaiting
    <3>2. outcome' = Nil
      BY <1>5, <3>1 DEF AnalysisInv, StagesFit
    <3> QED
      BY <3>2 DEF OnlyCompleteAnswersPublished, TimeoutsAreReal, Nil
  <2> QED
    BY <2>2, <2>6, <2>7, <2>8, <2>9 DEF AnalysisInv
<1> QED
  BY <1>3, <1>4, <1>5

(* An attempt is never served by the provider that failed the one before.  *)
LEMMA ServedByAnother ==
  ASSUME AnalysisInv, acc'.provider \in Serving, UNCHANGED <<attempt, tried, routing, timers>>,
         wire'.sentAt = wire.sentAt
  PROVE  (FailedIsIgnored /\ RetryIsEarned)'
<1>1. acc'.provider \in Provider /\ acc'.provider \notin routing.ignore /\ acc'.provider # Nil
  BY ProviderAssumption DEF Serving
<1> QED
  BY <1>1 DEF AnalysisInv, FailedIsIgnored, RetryIsEarned

(* A data frame is progress, and remembers the end it announces.           *)
LEMMA FrameRead ==
  ASSUME AnalysisInv, DataFrame
  PROVE  /\ acc' \in [text : BOOLEAN, provider : Provider \cup {Nil}, terminated : BOOLEAN]
         /\ wire' \in [ended : BOOLEAN, broken : BOOLEAN, progressAt : Nat, sentAt : Nat]
         /\ acc'.provider \in Serving /\ wire'.broken = wire.broken
         /\ (acc.terminated => wire.ended) => (acc'.terminated => wire'.ended)
         /\ wire'.progressAt = now /\ wire'.sentAt = wire.sentAt
<1>1. PICK p \in Serving, delta \in BOOLEAN, finish \in BOOLEAN :
        /\ acc' = [text |-> acc.text \/ delta, provider |-> p, terminated |-> acc.terminated \/ finish]
        /\ wire' = [wire EXCEPT !.ended = @ \/ finish, !.progressAt = now]
  BY DEF DataFrame
<1>2. p \in Provider /\ now \in Nat
      /\ wire \in [ended : BOOLEAN, broken : BOOLEAN, progressAt : Nat, sentAt : Nat]
      /\ acc.text \in BOOLEAN /\ acc.terminated \in BOOLEAN
  BY DEF Serving, AnalysisInv, AnalysisTypeOK
<1>3. PICK text \in BOOLEAN : text = (acc.text \/ delta)
  BY <1>2, Zenon
<1>4. PICK terminated \in BOOLEAN : terminated = (acc.terminated \/ finish)
  BY <1>2, Zenon
<1>5. PICK ended \in BOOLEAN : ended = (wire.ended \/ finish)
  BY <1>2, Zenon
<1>6. /\ acc' = [text |-> text, provider |-> p, terminated |-> terminated]
      /\ wire' = [wire EXCEPT !.ended = ended, !.progressAt = now]
  BY <1>1, <1>3, <1>4, <1>5, Zenon
<1> QED
  BY <1>2, <1>4, <1>5, <1>6

(* The request is refused, or its first attempt begins.                    *)
LEMMA StartKeeps ==
  ASSUME AnalysisInv, RefuseInput \/ RefuseLateRequest \/ Begin
  PROVE  AnalysisInv'
<1> USE DEF AnalysisInv
<1>1. CASE RefuseInput
  <2>1. AnalysisTypeOK'
    BY <1>1, AnalysisTimesAssumption DEF RefuseInput, SettleReview,
       AnalysisTypeOK, Attempts
  <2>2. (RoutingTypeOK /\ StagesFit)'
    BY <1>1, AnalysisTimesAssumption DEF RefuseInput, SettleReview,
       AnalysisTypeOK, RoutingTypeOK, StagesFit, Active, Awaiting, Attempts
  <2>3. (AnswersAreWhole /\ ClockIsTrue)'
    BY <1>1, AnalysisTimesAssumption DEF RefuseInput, SettleReview,
       AnalysisTypeOK, StagesFit, AnswersAreWhole, ClockIsTrue, Active, Awaiting
  <2>4. (FailedIsIgnored /\ RetryIsEarned)'
    BY <1>1, AnalysisTimesAssumption DEF RefuseInput, SettleReview,
       AnalysisTypeOK, StagesFit, FailedIsIgnored, RetryIsEarned, Attempts
  <2>5. (OnlyCompleteAnswersPublished /\ TimeoutsAreReal)'
    BY <1>1, AnalysisTimesAssumption DEF RefuseInput, SettleReview,
       AnalysisTypeOK, StagesFit, OnlyCompleteAnswersPublished, TimeoutsAreReal, AnswersAreWhole, Nil
  <2> QED
    BY <2>1, <2>2, <2>3, <2>4, <2>5
<1>2. CASE RefuseLateRequest
  <2>1. AnalysisTypeOK'
    BY <1>2, AnalysisTimesAssumption DEF RefuseLateRequest, SettleReview,
       AnalysisTypeOK, Attempts
  <2>2. (RoutingTypeOK /\ StagesFit)'
    BY <1>2, AnalysisTimesAssumption DEF RefuseLateRequest, SettleReview,
       AnalysisTypeOK, RoutingTypeOK, StagesFit, Active, Awaiting, Attempts
  <2>3. (AnswersAreWhole /\ ClockIsTrue)'
    BY <1>2, AnalysisTimesAssumption DEF RefuseLateRequest, SettleReview,
       AnalysisTypeOK, StagesFit, AnswersAreWhole, ClockIsTrue, Active, Awaiting
  <2>4. (FailedIsIgnored /\ RetryIsEarned)'
    BY <1>2, AnalysisTimesAssumption DEF RefuseLateRequest, SettleReview,
       AnalysisTypeOK, StagesFit, FailedIsIgnored, RetryIsEarned, Attempts
  <2>5. (OnlyCompleteAnswersPublished /\ TimeoutsAreReal)'
    BY <1>2, AnalysisTimesAssumption DEF RefuseLateRequest, SettleReview,
       AnalysisTypeOK, StagesFit, OnlyCompleteAnswersPublished, TimeoutsAreReal, AnswersAreWhole, Nil
  <2> QED
    BY <2>1, <2>2, <2>3, <2>4, <2>5
<1>3. CASE Begin
  <2>1. AnalysisTypeOK'
    BY <1>3, AnalysisTimesAssumption, BudgetsAreNumbers DEF Begin, SilentWire,
       AnalysisTypeOK, Attempts
  <2>2. (RoutingTypeOK /\ StagesFit)'
    BY <1>3, AnalysisTimesAssumption, BudgetsAreNumbers DEF Begin, SilentWire,
       AnalysisTypeOK, RoutingTypeOK, StagesFit, Active, Awaiting, Attempts
  <2>3. (AnswersAreWhole /\ ClockIsTrue)'
    BY <1>3, AnalysisTimesAssumption, BudgetsAreNumbers DEF Begin, SilentWire,
       AnalysisTypeOK, StagesFit, AnswersAreWhole, ClockIsTrue, Active, Awaiting
  <2>4. (FailedIsIgnored /\ RetryIsEarned)'
    BY <1>3, AnalysisTimesAssumption, BudgetsAreNumbers DEF Begin, SilentWire,
       AnalysisTypeOK, StagesFit, FailedIsIgnored, RetryIsEarned, Attempts
  <2>5. (OnlyCompleteAnswersPublished /\ TimeoutsAreReal)'
    BY <1>3, AnalysisTimesAssumption, BudgetsAreNumbers DEF Begin, SilentWire,
       AnalysisTypeOK, StagesFit, OnlyCompleteAnswersPublished, TimeoutsAreReal, AnswersAreWhole, Nil
  <2> QED
    BY <2>1, <2>2, <2>3, <2>4, <2>5
<1> QED
  BY <1>1, <1>2, <1>3

(* The transport's events that do not end the attempt, and the clock.      *)
LEMMA ListeningKeeps ==
  ASSUME AnalysisInv, Headers \/ DataFrame \/ TimePasses
  PROVE  AnalysisInv'
<1> USE DEF AnalysisInv
<1>1. CASE Headers
  <2>1. AnalysisTypeOK'
    BY <1>1, AnalysisTimesAssumption DEF Headers, TransportOnly,
       AnalysisTypeOK, Attempts
  <2>2. (RoutingTypeOK /\ StagesFit)'
    BY <1>1, AnalysisTimesAssumption DEF Headers, TransportOnly,
       AnalysisTypeOK, RoutingTypeOK, StagesFit, Active, Awaiting, Attempts
  <2>3. (AnswersAreWhole /\ ClockIsTrue)'
    BY <1>1, AnalysisTimesAssumption DEF Headers, TransportOnly,
       AnalysisTypeOK, StagesFit, AnswersAreWhole, ClockIsTrue, Active, Awaiting
  <2>4. (FailedIsIgnored /\ RetryIsEarned)'
    BY <1>1, AnalysisTimesAssumption DEF Headers, TransportOnly,
       AnalysisTypeOK, StagesFit, FailedIsIgnored, RetryIsEarned, Attempts
  <2>5. (OnlyCompleteAnswersPublished /\ TimeoutsAreReal)'
    BY <1>1, AnalysisTimesAssumption DEF Headers, TransportOnly,
       AnalysisTypeOK, StagesFit, OnlyCompleteAnswersPublished, TimeoutsAreReal, AnswersAreWhole, Nil
  <2> QED
    BY <2>1, <2>2, <2>3, <2>4, <2>5
<1>2. CASE DataFrame
  <2>1. AnalysisTypeOK'
    BY <1>2, FrameRead, AnalysisTimesAssumption DEF DataFrame, TransportOnly,
       AnalysisTypeOK, Attempts
  <2>2. (RoutingTypeOK /\ StagesFit)'
    BY <1>2, FrameRead, AnalysisTimesAssumption DEF DataFrame, TransportOnly,
       AnalysisTypeOK, RoutingTypeOK, StagesFit, Active, Awaiting, Attempts
  <2>3. (AnswersAreWhole /\ ClockIsTrue)'
    <3>1. phase = "body" /\ phase' = "body" /\ dataAt' = now /\ UNCHANGED <<now, stream>>
      BY <1>2 DEF DataFrame, TransportOnly
    <3>2. AnswersAreWhole'
      BY <3>1, <1>2, FrameRead DEF AnswersAreWhole, Awaiting
    <3>3. ClockIsTrue'
      BY <3>1, <1>2, FrameRead, AnalysisTimesAssumption DEF ClockIsTrue, AnalysisTypeOK
    <3> QED
      BY <3>2, <3>3
  <2>4. (FailedIsIgnored /\ RetryIsEarned)'
    BY <1>2, FrameRead, ServedByAnother DEF DataFrame, TransportOnly
  <2>5. (OnlyCompleteAnswersPublished /\ TimeoutsAreReal)'
    BY <1>2, FrameRead, AnalysisTimesAssumption DEF DataFrame, TransportOnly,
       AnalysisTypeOK, StagesFit, OnlyCompleteAnswersPublished, TimeoutsAreReal, AnswersAreWhole, Nil
  <2> QED
    BY <2>1, <2>2, <2>3, <2>4, <2>5
<1>3. CASE TimePasses
  <2>1. AnalysisTypeOK'
    BY <1>3, AnalysisTimesAssumption DEF TimePasses, StallDue,
       AnalysisTypeOK, Attempts
  <2>2. (RoutingTypeOK /\ StagesFit)'
    BY <1>3, AnalysisTimesAssumption DEF TimePasses, StallDue,
       AnalysisTypeOK, RoutingTypeOK, StagesFit, Active, Awaiting, Attempts
  <2>3. (AnswersAreWhole /\ ClockIsTrue)'
    BY <1>3, AnalysisTimesAssumption DEF TimePasses, StallDue,
       AnalysisTypeOK, StagesFit, AnswersAreWhole, ClockIsTrue, Active, Awaiting
  <2>4. (FailedIsIgnored /\ RetryIsEarned)'
    BY <1>3, AnalysisTimesAssumption DEF TimePasses, StallDue,
       AnalysisTypeOK, StagesFit, FailedIsIgnored, RetryIsEarned, Attempts
  <2>5. (OnlyCompleteAnswersPublished /\ TimeoutsAreReal)'
    BY <1>3, AnalysisTimesAssumption DEF TimePasses, StallDue,
       AnalysisTypeOK, StagesFit, OnlyCompleteAnswersPublished, TimeoutsAreReal, AnswersAreWhole, Nil
  <2> QED
    BY <2>1, <2>2, <2>3, <2>4, <2>5
<1> QED
  BY <1>1, <1>2, <1>3

(* The transport fails, while its body is being cancelled.                 *)
LEMMA TransportKeeps ==
  ASSUME AnalysisInv, HttpError \/ BodyDies \/ KeepAlive \/ BrokenFrame \/ BufferedError
  PROVE  AnalysisInv'
<1> USE DEF AnalysisInv
<1>1. CASE HttpError
  <2>1. AnalysisTypeOK'
    BY <1>1 DEF HttpError, TransportFails, TransportOnly,
       AnalysisTypeOK, Attempts
  <2>2. (RoutingTypeOK /\ StagesFit)'
    BY <1>1 DEF HttpError, TransportFails, TransportOnly,
       AnalysisTypeOK, RoutingTypeOK, StagesFit, Active, Awaiting, Attempts
  <2>3. (AnswersAreWhole /\ ClockIsTrue)'
    BY <1>1 DEF HttpError, TransportFails, TransportOnly,
       AnalysisTypeOK, StagesFit, AnswersAreWhole, ClockIsTrue, Active, Awaiting
  <2>4. (FailedIsIgnored /\ RetryIsEarned)'
    BY <1>1 DEF HttpError, TransportFails, TransportOnly,
       AnalysisTypeOK, StagesFit, FailedIsIgnored, RetryIsEarned, Attempts
  <2>5. (OnlyCompleteAnswersPublished /\ TimeoutsAreReal)'
    BY <1>1 DEF HttpError, TransportFails, TransportOnly,
       AnalysisTypeOK, StagesFit, OnlyCompleteAnswersPublished, TimeoutsAreReal, AnswersAreWhole, Nil
  <2> QED
    BY <2>1, <2>2, <2>3, <2>4, <2>5
<1>2. CASE BodyDies
  <2>1. AnalysisTypeOK'
    BY <1>2 DEF BodyDies, TransportFails, TransportOnly,
       AnalysisTypeOK, Attempts
  <2>2. (RoutingTypeOK /\ StagesFit)'
    BY <1>2 DEF BodyDies, TransportFails, TransportOnly,
       AnalysisTypeOK, RoutingTypeOK, StagesFit, Active, Awaiting, Attempts
  <2>3. (AnswersAreWhole /\ ClockIsTrue)'
    BY <1>2 DEF BodyDies, TransportFails, TransportOnly,
       AnalysisTypeOK, StagesFit, AnswersAreWhole, ClockIsTrue, Active, Awaiting
  <2>4. (FailedIsIgnored /\ RetryIsEarned)'
    BY <1>2 DEF BodyDies, TransportFails, TransportOnly,
       AnalysisTypeOK, StagesFit, FailedIsIgnored, RetryIsEarned, Attempts
  <2>5. (OnlyCompleteAnswersPublished /\ TimeoutsAreReal)'
    BY <1>2 DEF BodyDies, TransportFails, TransportOnly,
       AnalysisTypeOK, StagesFit, OnlyCompleteAnswersPublished, TimeoutsAreReal, AnswersAreWhole, Nil
  <2> QED
    BY <2>1, <2>2, <2>3, <2>4, <2>5
<1>3. CASE KeepAlive
  <2>1. AnalysisTypeOK'
    BY <1>3 DEF KeepAlive, DataFrameClock, TransportFails, TransportOnly,
       AnalysisTypeOK, Attempts
  <2>2. (RoutingTypeOK /\ StagesFit)'
    BY <1>3 DEF KeepAlive, DataFrameClock, TransportFails, TransportOnly,
       AnalysisTypeOK, RoutingTypeOK, StagesFit, Active, Awaiting, Attempts
  <2>3. (AnswersAreWhole /\ ClockIsTrue)'
    BY <1>3 DEF KeepAlive, DataFrameClock, TransportFails, TransportOnly,
       AnalysisTypeOK, StagesFit, AnswersAreWhole, ClockIsTrue, Active, Awaiting
  <2>4. (FailedIsIgnored /\ RetryIsEarned)'
    BY <1>3 DEF KeepAlive, DataFrameClock, TransportFails, TransportOnly,
       AnalysisTypeOK, StagesFit, FailedIsIgnored, RetryIsEarned, Attempts
  <2>5. (OnlyCompleteAnswersPublished /\ TimeoutsAreReal)'
    BY <1>3 DEF KeepAlive, DataFrameClock, TransportFails, TransportOnly,
       AnalysisTypeOK, StagesFit, OnlyCompleteAnswersPublished, TimeoutsAreReal, AnswersAreWhole, Nil
  <2> QED
    BY <2>1, <2>2, <2>3, <2>4, <2>5
<1>4. CASE BrokenFrame
  <2>1. AnalysisTypeOK'
    BY <1>4, ProviderAssumption DEF BrokenFrame, TransportOnly, Serving,
       AnalysisTypeOK, Attempts
  <2>2. (RoutingTypeOK /\ StagesFit)'
    BY <1>4, ProviderAssumption DEF BrokenFrame, TransportOnly, Serving,
       AnalysisTypeOK, RoutingTypeOK, StagesFit, Active, Awaiting, Attempts
  <2>3. (AnswersAreWhole /\ ClockIsTrue)'
    BY <1>4, ProviderAssumption DEF BrokenFrame, TransportOnly, Serving,
       AnalysisTypeOK, StagesFit, AnswersAreWhole, ClockIsTrue, Active, Awaiting
  <2>4. (FailedIsIgnored /\ RetryIsEarned)'
    <3>1. CASE acc' = acc
      BY <1>4, <3>1 DEF BrokenFrame, TransportOnly, AnalysisTypeOK, FailedIsIgnored, RetryIsEarned
    <3>2. CASE \E p \in Serving : acc' = [acc EXCEPT !.provider = p]
      <4>1. acc'.provider \in Serving
        BY <3>2 DEF AnalysisTypeOK
      <4>2. UNCHANGED <<attempt, tried, routing, timers>> /\ wire'.sentAt = wire.sentAt
        BY <1>4 DEF BrokenFrame, TransportOnly, AnalysisTypeOK
      <4> QED
        BY <4>1, <4>2, ServedByAnother
    <3> QED
      BY <1>4, <3>1, <3>2 DEF BrokenFrame, TransportOnly
  <2>5. (OnlyCompleteAnswersPublished /\ TimeoutsAreReal)'
    BY <1>4, ProviderAssumption DEF BrokenFrame, TransportOnly, Serving,
       AnalysisTypeOK, StagesFit, OnlyCompleteAnswersPublished, TimeoutsAreReal, AnswersAreWhole, Nil
  <2> QED
    BY <2>1, <2>2, <2>3, <2>4, <2>5
<1>5. CASE BufferedError
  <2>1. AnalysisTypeOK'
    BY <1>5, ProviderAssumption DEF BufferedError, TransportOnly, Serving,
       AnalysisTypeOK, Attempts
  <2>2. (RoutingTypeOK /\ StagesFit)'
    BY <1>5, ProviderAssumption DEF BufferedError, TransportOnly, Serving,
       AnalysisTypeOK, RoutingTypeOK, StagesFit, Active, Awaiting, Attempts
  <2>3. (AnswersAreWhole /\ ClockIsTrue)'
    BY <1>5, ProviderAssumption DEF BufferedError, TransportOnly, Serving,
       AnalysisTypeOK, StagesFit, AnswersAreWhole, ClockIsTrue, Active, Awaiting
  <2>4. (FailedIsIgnored /\ RetryIsEarned)'
    <3>1. acc'.provider \in Serving
      BY <1>5, ProviderAssumption DEF BufferedError, TransportOnly, Serving, AnalysisTypeOK
    <3>2. UNCHANGED <<attempt, tried, routing, timers>> /\ wire'.sentAt = wire.sentAt
      BY <1>5 DEF BufferedError, TransportOnly, AnalysisTypeOK
    <3> QED
      BY <3>1, <3>2, ServedByAnother
  <2>5. (OnlyCompleteAnswersPublished /\ TimeoutsAreReal)'
    BY <1>5, ProviderAssumption DEF BufferedError, TransportOnly, Serving,
       AnalysisTypeOK, StagesFit, OnlyCompleteAnswersPublished, TimeoutsAreReal, AnswersAreWhole, Nil
  <2> QED
    BY <2>1, <2>2, <2>3, <2>4, <2>5
<1> QED
  BY <1>1, <1>2, <1>3, <1>4, <1>5

(* The body ends.                                                          *)
LEMMA EndsKeep ==
  ASSUME AnalysisInv, DoneFrame \/ Eof \/ BufferedBody \/ Publish
  PROVE  AnalysisInv'
<1> USE DEF AnalysisInv
<1>1. CASE DoneFrame
  <2>1. AnalysisTypeOK'
    BY <1>1 DEF DoneFrame, TransportReturns, TransportOnly,
       AnalysisTypeOK, Attempts
  <2>2. (RoutingTypeOK /\ StagesFit)'
    BY <1>1 DEF DoneFrame, TransportReturns, TransportOnly,
       AnalysisTypeOK, RoutingTypeOK, StagesFit, Active, Awaiting, Attempts
  <2>3. (AnswersAreWhole /\ ClockIsTrue)'
    BY <1>1 DEF DoneFrame, TransportReturns, TransportOnly,
       AnalysisTypeOK, StagesFit, AnswersAreWhole, ClockIsTrue, Active, Awaiting
  <2>4. (FailedIsIgnored /\ RetryIsEarned)'
    BY <1>1 DEF DoneFrame, TransportReturns, TransportOnly,
       AnalysisTypeOK, StagesFit, FailedIsIgnored, RetryIsEarned, Attempts
  <2>5. (OnlyCompleteAnswersPublished /\ TimeoutsAreReal)'
    BY <1>1 DEF DoneFrame, TransportReturns, TransportOnly,
       AnalysisTypeOK, StagesFit, OnlyCompleteAnswersPublished, TimeoutsAreReal, AnswersAreWhole, Nil
  <2> QED
    BY <2>1, <2>2, <2>3, <2>4, <2>5
<1>2. CASE Eof
  <2>1. AnalysisTypeOK'
    BY <1>2 DEF Eof, EofCompletes, TransportReturns, TransportFails, TransportOnly,
       AnalysisTypeOK, Attempts
  <2>2. (RoutingTypeOK /\ StagesFit)'
    BY <1>2 DEF Eof, EofCompletes, TransportReturns, TransportFails, TransportOnly,
       AnalysisTypeOK, RoutingTypeOK, StagesFit, Active, Awaiting, Attempts
  <2>3. (AnswersAreWhole /\ ClockIsTrue)'
    BY <1>2 DEF Eof, EofCompletes, TransportReturns, TransportFails, TransportOnly,
       AnalysisTypeOK, StagesFit, AnswersAreWhole, ClockIsTrue, Active, Awaiting
  <2>4. (FailedIsIgnored /\ RetryIsEarned)'
    BY <1>2 DEF Eof, EofCompletes, TransportReturns, TransportFails, TransportOnly,
       AnalysisTypeOK, StagesFit, FailedIsIgnored, RetryIsEarned, Attempts
  <2>5. (OnlyCompleteAnswersPublished /\ TimeoutsAreReal)'
    BY <1>2 DEF Eof, EofCompletes, TransportReturns, TransportFails, TransportOnly,
       AnalysisTypeOK, StagesFit, OnlyCompleteAnswersPublished, TimeoutsAreReal, AnswersAreWhole, Nil
  <2> QED
    BY <2>1, <2>2, <2>3, <2>4, <2>5
<1>3. CASE BufferedBody
  <2>1. AnalysisTypeOK'
    BY <1>3, ProviderAssumption DEF BufferedBody, TransportReturns, TransportOnly, Serving,
       AnalysisTypeOK, Attempts
  <2>2. (RoutingTypeOK /\ StagesFit)'
    BY <1>3, ProviderAssumption DEF BufferedBody, TransportReturns, TransportOnly, Serving,
       AnalysisTypeOK, RoutingTypeOK, StagesFit, Active, Awaiting, Attempts
  <2>3. (AnswersAreWhole /\ ClockIsTrue)'
    BY <1>3, ProviderAssumption DEF BufferedBody, TransportReturns, TransportOnly, Serving,
       AnalysisTypeOK, StagesFit, AnswersAreWhole, ClockIsTrue, Active, Awaiting
  <2>4. (FailedIsIgnored /\ RetryIsEarned)'
    <3>1. acc'.provider \in Serving
      BY <1>3, ProviderAssumption DEF BufferedBody, TransportReturns, TransportOnly, Serving, AnalysisTypeOK
    <3>2. UNCHANGED <<attempt, tried, routing, timers>> /\ wire'.sentAt = wire.sentAt
      BY <1>3 DEF BufferedBody, TransportReturns, TransportOnly, AnalysisTypeOK
    <3> QED
      BY <3>1, <3>2, ServedByAnother
  <2>5. (OnlyCompleteAnswersPublished /\ TimeoutsAreReal)'
    BY <1>3, ProviderAssumption DEF BufferedBody, TransportReturns, TransportOnly, Serving,
       AnalysisTypeOK, StagesFit, OnlyCompleteAnswersPublished, TimeoutsAreReal, AnswersAreWhole, Nil
  <2> QED
    BY <2>1, <2>2, <2>3, <2>4, <2>5
<1>4. CASE Publish
  <2>1. AnalysisTypeOK'
    BY <1>4 DEF Publish, SettleReview,
       AnalysisTypeOK, Attempts
  <2>2. (RoutingTypeOK /\ StagesFit)'
    BY <1>4 DEF Publish, SettleReview,
       AnalysisTypeOK, RoutingTypeOK, StagesFit, Active, Awaiting, Attempts
  <2>3. (AnswersAreWhole /\ ClockIsTrue)'
    BY <1>4 DEF Publish, SettleReview,
       AnalysisTypeOK, StagesFit, AnswersAreWhole, ClockIsTrue, Active, Awaiting
  <2>4. (FailedIsIgnored /\ RetryIsEarned)'
    BY <1>4 DEF Publish, SettleReview,
       AnalysisTypeOK, StagesFit, FailedIsIgnored, RetryIsEarned, Attempts
  <2>5. (OnlyCompleteAnswersPublished /\ TimeoutsAreReal)'
    BY <1>4 DEF Publish, SettleReview,
       AnalysisTypeOK, StagesFit, OnlyCompleteAnswersPublished, TimeoutsAreReal, AnswersAreWhole, Nil
  <2> QED
    BY <2>1, <2>2, <2>3, <2>4, <2>5
<1> QED
  BY <1>1, <1>2, <1>3, <1>4

(* Whatever ends an attempt says truly whether the deadline is there.      *)
LEMMA FailuresKeep ==
  ASSUME AnalysisInv,
         \/ FetchFails \/ StallFires \/ BodyCancelled \/ AnswerInvalid
         \/ DeadlineFires \/ AttemptTimerFires
  PROVE  AnalysisInv'
<1>1. /\ now \in Nat /\ acc.provider \in Provider \cup {Nil} /\ Nil \in Provider \cup {Nil}
      /\ phase \in Active => timers.deadline >= DeadlineAt
  BY DEF AnalysisInv, AnalysisTypeOK, StagesFit
<1>2. CASE FetchFails
  <2>1. phase \in Active /\ AttemptFails("connection", FALSE, FALSE, Nil)
    BY <1>2 DEF FetchFails, Active, Awaiting
  <2> QED
    BY <1>1, <2>1, FailureKeeps
<1>3. CASE StallFires /\ phase = "sent"
  <2>1. PICK error \in {"stall", "connection"} : AttemptFails(error, FALSE, FALSE, Nil)
    BY <1>3 DEF StallFires
  <2>2. phase \in Active /\ error \notin {"review", "review_timeout"}
    BY <1>3 DEF Active, Awaiting
  <2> QED
    BY <1>1, <2>1, <2>2, FailureKeeps
<1>4. CASE StallFires /\ phase # "sent"
  <2>1. /\ phase = "body" /\ phase' = "failing" /\ pending' \in {"stall", "connection"}
        /\ UNCHANGED <<now, stream, attempt, timers, dataAt, acc, tried, routing, notes, outcome, wire>>
    BY <1>4 DEF StallFires, StallDue, TransportFails, TransportOnly
  <2> QED
    BY <2>1 DEF AnalysisInv, AnalysisTypeOK, RoutingTypeOK, StagesFit, AnswersAreWhole, ClockIsTrue,
       FailedIsIgnored, OnlyCompleteAnswersPublished, TimeoutsAreReal, RetryIsEarned, Active, Awaiting
<1>5. CASE BodyCancelled
  <2>1. phase \in Active /\ AttemptFails(pending, FALSE, FALSE, acc.provider)
        /\ pending \notin {"review", "review_timeout"}
    BY <1>5 DEF BodyCancelled, Active, AnalysisInv, StagesFit
  <2> QED
    BY <1>1, <2>1, FailureKeeps
<1>6. CASE AnswerInvalid
  <2>1. PICK error \in BrokenAnswers : AttemptFails(error, FALSE, FALSE, acc.provider)
    BY <1>6 DEF AnswerInvalid
  <2>2. phase \in Active /\ error \notin {"review", "review_timeout"}
    BY <1>6 DEF AnswerInvalid, Active, BrokenAnswers
  <2> QED
    BY <1>1, <2>1, <2>2, FailureKeeps
<1>7. CASE DeadlineFires
  <2>1. PICK error \in {"review_timeout", "aborted"} : AttemptFails(error, TRUE, FALSE, Nil)
    BY <1>7 DEF DeadlineFires
  <2>2. phase \in Active /\ now >= DeadlineAt /\ error # "review"
    BY <1>1, <1>7 DEF DeadlineFires, Active, Awaiting
  <2> QED
    BY <1>1, <2>1, <2>2, FailureKeeps
<1>8. CASE AttemptTimerFires
  <2>1. PICK error \in {"attempt_timeout", "aborted"} :
          AttemptFails(error, FALSE, TRUE, IF error = "aborted" THEN acc.provider ELSE Nil)
    BY <1>8 DEF AttemptTimerFires
  <2>2. phase \in Active /\ error \notin {"review", "review_timeout"}
    BY <1>8 DEF AttemptTimerFires, Active, Awaiting
  <2>3. (IF error = "aborted" THEN acc.provider ELSE Nil) \in Provider \cup {Nil}
    BY <1>1
  <2> QED
    BY <2>1, <2>2, <2>3, FailureKeeps
<1> QED
  BY <1>2, <1>3, <1>4, <1>5, <1>6, <1>7, <1>8

(* The invariant of the analysis holds throughout.                         *)
THEOREM AnalysisInvariant == AnalysisSpec => []AnalysisInv
<1>1. AnalysisInit => AnalysisInv
  BY AnalysisTimesAssumption
  DEF AnalysisInit, EmptyAccumulator, SilentWire, AnalysisInv, AnalysisTypeOK, RoutingTypeOK, StagesFit,
      AnswersAreWhole, ClockIsTrue, FailedIsIgnored, OnlyCompleteAnswersPublished, TimeoutsAreReal,
      RetryIsEarned, Active, Awaiting, Attempts, Nil
<1>2. AnalysisInv /\ [AnalysisNext]_analysisVars => AnalysisInv'
  <2> SUFFICES ASSUME AnalysisInv, [AnalysisNext]_analysisVars PROVE AnalysisInv'
    OBVIOUS
  <2>1. CASE UNCHANGED analysisVars
    BY <2>1 DEF analysisVars, AnalysisInv, AnalysisTypeOK, RoutingTypeOK, StagesFit, AnswersAreWhole,
       ClockIsTrue, FailedIsIgnored, OnlyCompleteAnswersPublished, TimeoutsAreReal, RetryIsEarned
  <2>2. CASE AnalysisNext
    BY <2>2, StartKeeps, ListeningKeeps, TransportKeeps, EndsKeep, FailuresKeep DEF AnalysisNext
  <2> QED
    BY <2>1, <2>2
<1> QED
  BY <1>1, <1>2, PTL DEF AnalysisSpec

(* A review comes from a generation whose provider announced its end and   *)
(* sent no error (workspace-analysis.ts, readWorkspaceModelStream).        *)
THEOREM PublishedIsComplete == AnalysisSpec => []OnlyCompleteAnswersPublished
<1>1. AnalysisInv => OnlyCompleteAnswersPublished
  BY DEF AnalysisInv
<1> QED
  BY <1>1, AnalysisInvariant, PTL

(* A stream that makes no progress is given up within the stall window.    *)
THEOREM SilenceIsBounded == AnalysisSpec => []QuietStreamsAreGivenUp
<1>1. AnalysisInv => QuietStreamsAreGivenUp
  BY DEF AnalysisInv, ClockIsTrue, QuietStreamsAreGivenUp, Awaiting
<1> QED
  BY <1>1, AnalysisInvariant, PTL

(* Only the end-to-end deadline is reported as a timeout of the review.    *)
THEOREM TimeoutsAreTheDeadline == AnalysisSpec => []TimeoutsAreReal
<1>1. AnalysisInv => TimeoutsAreReal
  BY DEF AnalysisInv
<1> QED
  BY <1>1, AnalysisInvariant, PTL

(* A second attempt has its whole budget ahead of it, and another provider *)
(* than the one attempt 1 named before it failed.                          *)
THEOREM RetriesAreEarned == AnalysisSpec => []RetryIsEarned
<1>1. AnalysisInv => RetryIsEarned
  BY DEF AnalysisInv
<1> QED
  BY <1>1, AnalysisInvariant, PTL

-----------------------------------------------------------------------------
(***************************************************************************)
(* The answer and its findings                                             *)
(***************************************************************************)

(* The findings of an answer are findings, and the subject and the policy  *)
(* have the shapes the filters go by.                                      *)
AnswerTypes ==
  /\ raw.findings \in Findings
  /\ \A i \in DOMAIN entries : entries[i].file \in File
  /\ minimum \in {"suggestion", "warning"}

AnswerInv == AnswerTypes /\ FindingsAreAccountedFor

(* The severities are ranked as they are listed.                           *)
LEMMA Ranks == Rank("suggestion") = 1 /\ Rank("warning") = 2 /\ Rank("blocking") = 3
<1>1. DOMAIN Severities = 1 .. 3 /\ Severities[1] = "suggestion" /\ Severities[2] = "warning"
        /\ Severities[3] = "blocking"
  BY DEF Severities
<1> QED
  BY <1>1 DEF Rank

(* A blocking finding passes every threshold of a policy.                  *)
LEMMA BlockingPasses == AnswerTypes => Rank("blocking") >= Rank(minimum)
  BY Ranks DEF AnswerTypes

(* A path is known exactly if it is one of the subject's, under its own    *)
(* name or the one it was renamed from, and stays within the root.         *)
LEMMA KnownPaths ==
  ASSUME AnswerTypes, NEW f \in Finding
  PROVE  PathIsKnown(f) <=> /\ f.spelling # "escaping"
                            /\ \E i \in DOMAIN entries : f.file \in {entries[i].file, entries[i].from}
<1>1. f.file # NoFile /\ f.spelling \in {"exact", "escaping"}
  BY FileAssumption DEF Finding, Spellings
<1>2. NoFile \notin AllowedPaths
  BY FileAssumption DEF AllowedPaths, AnswerTypes
<1> QED
  BY <1>1, <1>2 DEF PathIsKnown, Normalized, AllowedPaths

(* A finding of an answer is a finding.                                    *)
LEMMA AnswersHoldFindings ==
  ASSUME AnswerTypes
  PROVE  \A i \in DOMAIN raw.findings : raw.findings[i] \in Finding
<1>1. PICK n \in 0 .. MaxFindings : raw.findings \in [1 .. n -> Finding]
  BY DEF AnswerTypes, Findings
<1> QED
  BY <1>1

(* A report says of the answer what it should.                             *)
LEMMA ReportAccounts ==
  ASSUME AnswerTypes, NEW f
  PROVE  LET about == /\ f.spelling # "escaping"
                      /\ \E i \in DOMAIN entries : f.file \in {entries[i].file, entries[i].from}
         IN  /\ f \in Report.findings => about /\ f \in Range(raw.findings)
             /\ f \in Range(raw.findings) /\ about /\ f.severity = "blocking"
                  => f \in Report.findings /\ Report.outcome = "findings"
<1> DEFINE placed == {i \in DOMAIN raw.findings : PathIsKnown(raw.findings[i])}
           severe == {i \in placed : Rank(raw.findings[i].severity) >= Rank(minimum)}
           about == /\ f.spelling # "escaping"
                    /\ \E i \in DOMAIN entries : f.file \in {entries[i].file, entries[i].from}
<1>1. Report.findings = {raw.findings[i] : i \in severe}
        /\ Report.outcome = IF severe = {} THEN "pass" ELSE "findings"
  BY DEF Report
<1>2. ASSUME f \in Report.findings PROVE about /\ f \in Range(raw.findings)
  <2>1. PICK i \in severe : f = raw.findings[i]
    BY <1>1, <1>2
  <2>2. f \in Finding /\ PathIsKnown(f)
    BY <2>1, AnswersHoldFindings
  <2> QED
    BY <2>1, <2>2, KnownPaths DEF Range
<1>3. ASSUME f \in Range(raw.findings), about, f.severity = "blocking"
      PROVE  f \in Report.findings /\ Report.outcome = "findings"
  <2>1. PICK i \in DOMAIN raw.findings : f = raw.findings[i]
    BY <1>3 DEF Range
  <2>2. f \in Finding
    BY <2>1, AnswersHoldFindings
  <2>3. PathIsKnown(f)
    BY <1>3, <2>2, KnownPaths
  <2>4. i \in severe
    BY <1>3, <2>1, <2>3, BlockingPasses
  <2> HIDE DEF severe
  <2> QED
    BY <1>1, <2>1, <2>4
<1> QED
  BY <1>2, <1>3

(* What a report leaves out it counts: the findings on no known path, and  *)
(* those below the policy's threshold.                                     *)
LEMMA ReportCounts ==
  ASSUME AnswerTypes
  PROVE  LET about(f) == /\ f.spelling # "escaping"
                         /\ \E i \in DOMAIN entries : f.file \in {entries[i].file, entries[i].from}
             said == raw.findings
         IN  /\ Report.unknownPath = Cardinality({i \in DOMAIN said : ~about(said[i])})
             /\ Report.hidden = Cardinality({i \in DOMAIN said :
                                            about(said[i]) /\ said[i] \notin Report.findings})
<1> DEFINE said == raw.findings
           about(f) == /\ f.spelling # "escaping"
                       /\ \E i \in DOMAIN entries : f.file \in {entries[i].file, entries[i].from}
           placed == {i \in DOMAIN said : PathIsKnown(said[i])}
           severe == {i \in placed : Rank(said[i].severity) >= Rank(minimum)}
<1>1. Report.unknownPath = Len(said) - Cardinality(placed)
        /\ Report.hidden = Cardinality(placed) - Cardinality(severe)
        /\ Report.findings = {said[i] : i \in severe}
  BY DEF Report
<1>2. PICK n \in Nat : said \in [1 .. n -> Finding]
  BY AnswerBoundsAssumption DEF AnswerTypes, Findings
<1>3. DOMAIN said = 1 .. n /\ Len(said) = n
  BY <1>2
<1>4. IsFiniteSet(DOMAIN said) /\ Cardinality(DOMAIN said) = n
  BY <1>3, FS_Interval
<1>5. placed = {i \in DOMAIN said : about(said[i])}
  BY AnswersHoldFindings, KnownPaths
<1>6. {i \in DOMAIN said : ~about(said[i])} = DOMAIN said \ placed
  BY <1>5
<1>7. {i \in DOMAIN said : about(said[i]) /\ said[i] \notin Report.findings} = placed \ severe
  BY <1>1, <1>5
<1> HIDE DEF placed, severe, said
<1>8. IsFiniteSet(placed) /\ IsFiniteSet(severe) /\ severe \subseteq placed /\ placed \subseteq DOMAIN said
  BY <1>4, FS_Subset DEF placed, severe
<1>9. Cardinality(DOMAIN said \ placed) = Cardinality(DOMAIN said) - Cardinality(placed)
  BY <1>4, <1>8, FS_Difference, DOMAIN said \cap placed = placed
<1>10. Cardinality(placed \ severe) = Cardinality(placed) - Cardinality(severe)
  BY <1>8, FS_Difference, placed \cap severe = severe
<1> QED
  BY <1>1, <1>3, <1>4, <1>6, <1>7, <1>9, <1>10 DEF said

(* A review begins with nothing answered.                                  *)
LEMMA AnswerStarts == AnswerInit => AnswerInv
<1> SUFFICES ASSUME AnswerInit PROVE AnswerInv
  OBVIOUS
<1>1. raw.findings = <<>> /\ turn = "admitted" /\ minimum \in {"suggestion", "warning"}
  BY DEF AnswerInit, NoAnswer
<1>2. raw.findings \in [1 .. 0 -> Finding]
  BY <1>1
<1>3. raw.findings \in Findings
  BY <1>2, AnswerBoundsAssumption DEF Findings
<1>4. \A i \in DOMAIN entries : entries[i].file \in File
  <2>1. CASE \E f \in File, g \in File \cup {NoFile}, s \in BOOLEAN : entries = <<SubjectEntry(f, g, s)>>
    BY <2>1 DEF SubjectEntry
  <2>2. CASE \E f \in File, g \in File, s \in BOOLEAN :
               entries = <<SubjectEntry(f, NoFile, s), SubjectEntry(g, NoFile, FALSE)>>
    BY <2>2 DEF SubjectEntry
  <2> QED
    BY <2>1, <2>2 DEF AnswerInit
<1> QED
  BY <1>1, <1>3, <1>4 DEF AnswerInv, AnswerTypes, FindingsAreAccountedFor

(* Every step of the review keeps what it says accounted for.              *)
LEMMA AnswerGoesOn == AnswerInv /\ [AnswerNext]_answerVars => AnswerInv'
<1> SUFFICES ASSUME AnswerInv, [AnswerNext]_answerVars PROVE AnswerInv'
  OBVIOUS
<1>1. AnswerTypes'
  <2>1. CASE ModelAnswers
    BY <2>1 DEF ModelAnswers, AnswerInv, AnswerTypes
  <2>2. ASSUME raw' = NoAnswer PROVE raw'.findings \in Findings
    <3>1. raw'.findings \in [1 .. 0 -> Finding]
      BY <2>2 DEF NoAnswer
    <3> QED
      BY <3>1, AnswerBoundsAssumption DEF Findings
  <2>3. CASE Ask \/ Conclude \/ UNCHANGED answerVars
    BY <2>2, <2>3 DEF Ask, Conclude, AnswerInv, AnswerTypes, answerVars
  <2> QED
    BY <2>1, <2>3 DEF AnswerNext
<1>2. CASE UNCHANGED answerVars
  <2>1. raw' = raw /\ entries' = entries /\ result' = result /\ turn' = turn
    BY <1>2 DEF answerVars
  <2>2. FindingsAreAccountedFor'
    BY <2>1 DEF AnswerInv, FindingsAreAccountedFor
  <2> QED
    BY <1>1, <2>2 DEF AnswerInv
<1>3. CASE Conclude /\ Refusal = "none"
  <2>1. result' = Report /\ raw' = raw /\ entries' = entries
    BY <1>3 DEF Conclude
  <2> HIDE <1>3
  <2> QED
    BY <1>1, <2>1, ReportAccounts, ReportCounts DEF AnswerInv, FindingsAreAccountedFor
<1>4. CASE Conclude /\ Refusal # "none"
  <2>1. turn' = "done" => result'.outcome \in {"schema_invalid", "language_invalid"}
    BY <1>4 DEF Conclude, Refusal, NoResult
  <2> QED
    BY <1>1, <2>1 DEF AnswerInv, FindingsAreAccountedFor
<1>5. CASE Ask
  <2>1. turn' = "done" => result'.outcome = "tuning_config"
    BY <1>5 DEF Ask, NoResult
  <2> QED
    BY <1>1, <2>1 DEF AnswerInv, FindingsAreAccountedFor
<1>6. CASE ModelAnswers
  BY <1>1, <1>6 DEF ModelAnswers, AnswerInv, FindingsAreAccountedFor
<1> QED
  BY <1>2, <1>3, <1>4, <1>5, <1>6 DEF AnswerNext

(* Nothing that matters in the model's answer is lost on the way to the    *)
(* result and nothing is made up, for any files, findings and policies     *)
(* (workspace-analysis.ts, the path and policy filters).                   *)
THEOREM AnswersAreAccountedFor == AnswerSpec => []FindingsAreAccountedFor
<1>1. AnswerInit => AnswerInv
  BY AnswerStarts
<1>2. AnswerInv /\ [AnswerNext]_answerVars => AnswerInv'
  BY AnswerGoesOn
<1>3. AnswerInv => FindingsAreAccountedFor
  BY DEF AnswerInv
<1> QED
  BY <1>1, <1>2, <1>3, PTL DEF AnswerSpec
=============================================================================
