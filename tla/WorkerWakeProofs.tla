--------------------------- MODULE WorkerWakeProofs ---------------------------
(***************************************************************************)
(* What the wakes of the worker guarantee, however many invocations there  *)
(* are: no job is left to the schedule while no wake was refused or lost,  *)
(* and the guard keeps its budget.                                         *)
(***************************************************************************)
EXTENDS WorkerWake, WellFoundedInduction, TLAPS

-----------------------------------------------------------------------------
(* Time                                                                    *)

\* The least number of a set: no induction theorem of the library can be used
\* here, the well-foundedness of < can.
Below == {s \in Nat \X Nat : s[1] < s[2]}

(* There is no endless way down among the natural numbers.                 *)
LEMMA BelowIsWellFounded == IsWellFoundedOn(Below, Nat)
<1>1. Below = OpToRel(<, Nat)
  BY DEF Below, OpToRel
<1> QED
  BY <1>1, NatLessThanWellFounded

(* The first number of a set is in it, and none is before it.              *)
LEMMA FirstIsFirst ==
  ASSUME NEW T \in SUBSET Nat, T # {}
  PROVE  First(T) \in T /\ \A n \in T : First(T) <= n
<1>1. PICK m \in T : \A n \in T : ~(<<n, m>> \in Below)
  BY BelowIsWellFounded, WFMin
<1>2. ASSUME NEW n \in T PROVE m <= n
  <2>1. n \in Nat /\ m \in Nat /\ (n < m => <<n, m>> \in Below)
    BY DEF Below
  <2> QED
    BY <1>1, <2>1
<1> QED
  BY <1>2 DEF First

(* The next midnight is ahead.                                             *)
LEMMA MidnightIsAhead ==
  ASSUME NEW t \in Nat
  PROVE  NextMidnight(t) \in Nat /\ t < NextMidnight(t)
BY DayAssumption DEF NextMidnight

(* The day begins when the next midnight has come,                         *)
LEMMA MidnightComes ==
  ASSUME NEW t \in Nat, NextMidnight(t) <= t + 1
  PROVE  (t + 1) % Day = 0
BY DayAssumption DEF NextMidnight

(* and until then it stays the next one.                                   *)
LEMMA MidnightStays ==
  ASSUME NEW t \in Nat, t + 1 < NextMidnight(t)
  PROVE  NextMidnight(t + 1) = NextMidnight(t)
<1>1. t \div Day <= (t + 1) \div Day
  BY DayAssumption
<1>2. (t + 1) \div Day <= t \div Day
  <2> DEFINE q == t \div Day
             s == (t + 1) \div Day
  <2>1. q \in Nat /\ s \in Nat /\ s * Day <= t + 1 /\ t + 1 < (q + 1) * Day
    BY DayAssumption DEF NextMidnight
  <2>2. SUFFICES ASSUME s >= q + 1 PROVE FALSE
    BY <2>1
  <2> HIDE DEF q, s
  <2>3. s * Day >= (q + 1) * Day
    BY <2>1, <2>2, DayAssumption
  <2> QED
    BY <2>1, <2>3, DayAssumption
<1> QED
  BY <1>1, <1>2, DayAssumption DEF NextMidnight

-----------------------------------------------------------------------------
(* The budget                                                              *)

GuardTypeOK ==
  /\ time \in Nat /\ permits \in Nat /\ orphaned \in BOOLEAN
  /\ published \in [count : Nat, until : Nat \cup {Never}]
  /\ DOMAIN cycle = Caller

(* The first count of a day waits alone for its expiry, and has none yet.  *)
OneSetsTheExpiry ==
  \A c, d \in Caller : cycle[c] = "expire" /\ cycle[d] = "expire" => c = d
ExpiryIsMissing ==
  \A c \in Caller : cycle[c] = "expire" => published.count > 0 /\ published.until = Never

(* What passed since midnight was counted, and what is about to pass is.   *)
PermitsAreCounted ==
  /\ permits <= Budget /\ permits <= published.count
  /\ (\E c \in Caller : cycle[c] = "expire") =>
       permits + 1 <= Budget /\ permits + 1 <= published.count

(* An expiry is the coming midnight's, and one that is missing is about to *)
(* be set, unless the invocation failed that was to set it.                *)
ExpiryIsMidnight ==
  /\ published.until # Never => published.until = NextMidnight(time)
  /\ published.count = 0 => published.until = Never
  /\ published.count > 0 /\ published.until = Never =>
       orphaned \/ \E c \in Caller : cycle[c] = "expire"

GuardInv ==
  GuardTypeOK /\ OneSetsTheExpiry /\ ExpiryIsMissing /\ PermitsAreCounted /\ ExpiryIsMidnight

(* The guard begins with its budget whole.                                 *)
LEMMA GuardStarts == WakeInit => GuardInv
<1>1. WakeInit => orphaned \in BOOLEAN
  BY DEF WakeInit
<1>2. WakeInit => /\ time = 0 /\ permits = 0 /\ published = [count |-> 0, until |-> Never]
                  /\ DOMAIN cycle = Caller /\ \A c \in Caller : cycle[c] = "idle"
  BY DEF WakeInit
<1> QED
  BY <1>1, <1>2, BudgetAssumption
     DEF GuardInv, GuardTypeOK, OneSetsTheExpiry, ExpiryIsMissing, PermitsAreCounted,
         ExpiryIsMidnight, Never

(* The passing of time keeps the budget,                                   *)
LEMMA TickKeepsGuard == GuardInv /\ WakeTick => GuardInv'
<1> SUFFICES ASSUME GuardInv, WakeTick PROVE GuardInv'
  OBVIOUS
<1> USE BudgetAssumption
<1>1. /\ time \in Nat /\ time' = time + 1 /\ cycle' = cycle /\ orphaned' = orphaned
      /\ permits' = IF time' % Day = 0 THEN 0 ELSE permits
      /\ published' = IF published.until # Never /\ published.until <= time'
                      THEN [count |-> 0, until |-> Never] ELSE published
  BY DEF WakeTick, GuardInv, GuardTypeOK, cycleVars
<1>2. CASE published.until # Never /\ published.until <= time'
  <2>1. published.until = NextMidnight(time)
    BY <1>2 DEF GuardInv, ExpiryIsMidnight
  <2>2. permits' = 0 /\ published' = [count |-> 0, until |-> Never]
    BY <1>1, <1>2, <2>1, MidnightComes
  <2>3. \A c \in Caller : cycle[c] # "expire"
    BY <1>2 DEF GuardInv, ExpiryIsMissing
  <2> QED
    BY <1>1, <2>2, <2>3 DEF GuardInv, GuardTypeOK, OneSetsTheExpiry, ExpiryIsMissing,
       PermitsAreCounted, ExpiryIsMidnight, Never
<1>3. CASE published.until # Never /\ ~(published.until <= time')
  <2>1. published.until = NextMidnight(time) /\ published' = published
    BY <1>1, <1>3 DEF GuardInv, ExpiryIsMidnight
  <2>2. NextMidnight(time') = NextMidnight(time)
    BY <1>1, <1>3, <2>1, MidnightStays, MidnightIsAhead
  <2> QED
    BY <1>1, <2>1, <2>2 DEF GuardInv, GuardTypeOK, OneSetsTheExpiry, ExpiryIsMissing,
       PermitsAreCounted, ExpiryIsMidnight, Never
<1>4. CASE published.until = Never
  BY <1>1, <1>4 DEF GuardInv, GuardTypeOK, OneSetsTheExpiry, ExpiryIsMissing,
     PermitsAreCounted, ExpiryIsMidnight, Never
<1> QED
  BY <1>2, <1>3, <1>4

(* and so does every step of an invocation.                                *)
LEMMA GuardGoesOn == GuardInv /\ [WakeNext]_wakeVars => GuardInv'
<1> SUFFICES ASSUME GuardInv, [WakeNext]_wakeVars PROVE GuardInv'
  OBVIOUS
<1> USE BudgetAssumption DEF GuardInv, GuardTypeOK, OneSetsTheExpiry, ExpiryIsMissing,
      PermitsAreCounted, ExpiryIsMidnight, guardVars, cycleVars, Never, Goes
<1>1. CASE WakeTick
  BY <1>1, TickKeepsGuard
<1>2. CASE UNCHANGED <<time, guardVars, cycle>>
  BY <1>2
<1>3. ASSUME NEW j \in Work, WakeForSubmission(j)
      PROVE  GuardInv'
  BY <1>3 DEF WakeForSubmission
<1>4. ASSUME NEW c \in Caller, NEW place, cycle[c] # "expire", place # "expire",
             cycle' = [cycle EXCEPT ![c] = place], UNCHANGED <<time, guardVars>>
      PROVE  GuardInv'
  BY <1>4
<1>5. ASSUME NEW c \in Caller, Called(c) \/ Claim(c) \/ Stage(c) \/ Settle(c) \/ ReadNextWake(c)
      PROVE  GuardInv'
  BY <1>4, <1>5 DEF Called, Claim, Stage, Settle, ReadNextWake
<1>6. ASSUME NEW c \in Caller, BackOff(c) \/ AskCooldown(c)
      PROVE  GuardInv'
  BY <1>4, <1>6 DEF BackOff, AskCooldown, Strands
<1>7. ASSUME NEW c \in Caller, Count(c)
      PROVE  GuardInv'
  BY <1>7 DEF Count, Strands
<1>8. ASSUME NEW c \in Caller, SetExpiry(c)
      PROVE  GuardInv'
  BY <1>8, MidnightIsAhead DEF SetExpiry, ExpiresAt
<1>9. ASSUME NEW c \in Caller, Publish(c)
      PROVE  GuardInv'
  BY <1>9 DEF Publish, Strands
<1>10. ASSUME NEW c \in Caller, CallerFails(c)
       PROVE  GuardInv'
  <2>1. /\ cycle' = [cycle EXCEPT ![c] = "idle"] /\ UNCHANGED <<time, published, cooldown, permits>>
        /\ orphaned' = (orphaned \/ cycle[c] = "expire")
    BY <1>10 DEF CallerFails, Strands
  <2>2. CASE cycle[c] = "expire"
    <3>1. orphaned' = TRUE
      BY <2>1, <2>2
    <3> QED
      BY <2>1, <2>2, <3>1
  <2>3. CASE cycle[c] # "expire"
    <3>1. orphaned' = orphaned
      BY <2>1, <2>3
    <3> QED
      BY <2>1, <2>3, <3>1
  <2> QED
    BY <2>2, <2>3
<1> QED
  BY <1>1, <1>2, <1>3, <1>5, <1>6, <1>7, <1>8, <1>9, <1>10
     DEF WakeNext, Submit, Heartbeat, wakeVars

(* At most the budget of self-wakes passes between two midnights, and the  *)
(* count does not outlive the next one: whatever order the calls of the    *)
(* concurrent invocations to Redis come in (review-worker-dispatch-guard). *)
THEOREM WakesStayInBudget == WakeSpec => []SelfWakesAreBudgeted
<1>1. GuardInv => SelfWakesAreBudgeted
  BY DEF GuardInv, SelfWakesAreBudgeted, PermitsAreCounted, ExpiryIsMidnight
<1> QED
  BY <1>1, GuardStarts, GuardGoesOn, PTL DEF WakeSpec

-----------------------------------------------------------------------------
(* The wakes                                                               *)

JobPlace == {"absent", "arriving", "waiting", "running", "staged", "done"}
CyclePlace == {"idle", "drain", "run", "settle", "read", "backoff", "guard", "count", "expire",
               "publish"}

WakeTypeOK ==
  /\ time \in Nat /\ wakes \subseteq Nat
  /\ work \in [Work -> [at : JobPlace, due : Nat]]
  /\ cycle \in [Caller -> CyclePlace]
  /\ holds \in [Caller -> SUBSET Work] /\ busy \in [Caller -> BOOLEAN]
  /\ wakeAt \in [Caller -> Nat] /\ empty \in 0 .. Len(Backoff)

OneAtATime == \A c \in Caller : \A i, j \in holds[c] : i = j

(* A staged outcome is in the hands of an invocation that will settle it,   *)
(* unless one failed: nextWakeAt does not look at those.                    *)
StagedIsHeld ==
  ~stranded => \A j \in Work : work[j].at = "staged" =>
    \E c \in Caller : cycle[c] = "settle" /\ j \in holds[c]

WakeInv == WakeTypeOK /\ OneAtATime /\ StagedIsHeld /\ JobsAreWoken

\* An invocation that will still look for the next wake covers every job.
Watches(c) == cycle[c] \in {"drain", "run", "settle", "read"}

Tracked(w) == w.at \notin {"absent", "arriving", "done"}
LatestWake(w) == Latest(w.due, time + Cap)
OnTime(t) == (\E s \in wakes : s <= t) \/ (\E c \in Caller : WillWake(c, t))

(* No job is lost if one that is tracked has a wake that is on time.       *)
LEMMA WokenMeansOnTime ==
  JobsAreWoken <=> (~stranded => \A j \in Work : Tracked(work[j]) => OnTime(LatestWake(work[j])))
BY DEF JobsAreWoken, Tracked, LatestWake, OnTime

(* A caller that is still to look at the queue wakes every job.            *)
LEMMA WatchedIsWoken == (\E c \in Caller : Watches(c)) => JobsAreWoken
BY DEF JobsAreWoken, Watches, WillWake

(* No backoff is longer than the last one.                                 *)
LEMMA CapIsLongest ==
  /\ Cap \in Nat /\ Len(Backoff) \in Nat \ {0}
  /\ \A n \in 1 .. Len(Backoff) : Backoff[n] \in Nat /\ Backoff[n] <= Cap
BY BackoffAssumption DEF Cap

(* The latest wake of a job is not before the job is due, nor before the   *)
(* longest backoff is over.                                                *)
LEMMA LatestIsTime ==
  ASSUME WakeTypeOK, NEW j \in Work
  PROVE  /\ LatestWake(work[j]) \in Nat
         /\ work[j].due <= LatestWake(work[j]) /\ time + Cap <= LatestWake(work[j])
BY CapIsLongest DEF LatestWake, Latest, WakeTypeOK

(* When what was on time stays on time, and no job is due earlier, no job  *)
(* is lost.                                                                *)
LEMMA NothingLost ==
  ASSUME WakeTypeOK, WakeTypeOK', JobsAreWoken, time <= time', stranded' => FALSE, ~stranded,
         \A j \in Work : Tracked(work[j])' => Tracked(work[j]) /\ work[j].due <= work'[j].due,
         \A t \in Nat : OnTime(t) /\ time + Cap <= t => OnTime(t)'
  PROVE  JobsAreWoken'
<1>1. ASSUME NEW j \in Work, Tracked(work[j])'
      PROVE  OnTime(LatestWake(work[j]))'
  <2>1. OnTime(LatestWake(work[j])) /\ work[j].due <= work'[j].due
    BY <1>1, WokenMeansOnTime
  <2>2. LatestWake(work[j]) \in Nat /\ time + Cap <= LatestWake(work[j])
    BY LatestIsTime
  <2>3. PICK t \in Nat : t = LatestWake(work[j])
    BY <2>2
  <2>4. PICK u \in Nat : u = Latest(work'[j].due, time' + Cap)
    <3>1. Cap \in Nat
      BY CapIsLongest
    <3>2. PICK s \in Nat : s = time'
      BY DEF WakeTypeOK
    <3>3. work'[j] \in [at : JobPlace', due : Nat]
      BY Zenon DEF WakeTypeOK
    <3>4. PICK d \in Nat : d = work'[j].due
      BY <3>3
    <3>5. Latest(d, s + Cap) \in Nat
      BY <3>1 DEF Latest
    <3> QED
      BY <3>2, <3>4, <3>5
  <2>5. t <= u
    BY <2>1, <2>3, <2>4, CapIsLongest DEF Latest, LatestWake, WakeTypeOK
  <2>6. OnTime(t)'
    BY <2>1, <2>2, <2>3
  <2>7. OnTime(u)'
    BY <2>5, <2>6 DEF OnTime, WillWake, WakeTypeOK
  <2> QED
    BY <2>4, <2>7 DEF OnTime, WillWake, LatestWake
<1> QED
  BY <1>1 DEF JobsAreWoken, Tracked, LatestWake, OnTime

(* A job that is moved,                                                    *)
LEMMA WhereIsTyped ==
  ASSUME WakeTypeOK, NEW j \in Work, NEW place \in JobPlace, NEW due \in Nat, Where(j, place, due)
  PROVE  work' \in [Work -> [at : JobPlace, due : Nat]]
<1>1. [at |-> place, due |-> due] \in [at : JobPlace, due : Nat]
  OBVIOUS
<1> QED
  BY <1>1 DEF Where, WakeTypeOK

(* a caller that goes on,                                                  *)
LEMMA GoesIsTyped ==
  ASSUME WakeTypeOK, NEW c \in Caller, NEW place \in CyclePlace, Goes(c, place)
  PROVE  cycle' \in [Caller -> CyclePlace]
BY DEF Goes, WakeTypeOK

(* and a queue that is drained have the types they had.                    *)
LEMMA DrainedIsTyped ==
  ASSUME WakeTypeOK
  PROVE  Drained \in [Work -> [at : JobPlace, due : Nat]]
BY DEF Drained, Deferral, JobPlace, WakeTypeOK

(* Every step keeps the types.                                             *)
LEMMA WakeTyped == WakeTypeOK /\ [WakeNext]_wakeVars => WakeTypeOK'
<1> SUFFICES ASSUME WakeTypeOK, [WakeNext]_wakeVars PROVE WakeTypeOK'
  OBVIOUS
<1>0. time \in Nat /\ time + Deferral \in Nat /\ time + Lease \in Nat /\ 0 \in Nat
  BY DEF WakeTypeOK, Deferral, Lease
<1>1. CASE WakeTick
  BY <1>1 DEF WakeTick, WakeTypeOK, cycleVars
<1>2. ASSUME NEW j \in Work, Submit(j) \/ WakeForSubmission(j)
      PROVE  WakeTypeOK'
  <2>1. work' \in [Work -> [at : JobPlace, due : Nat]]
    BY <1>0, <1>2, WhereIsTyped DEF Submit, WakeForSubmission, JobPlace
  <2> QED
    BY <1>0, <1>2, <2>1 DEF Submit, WakeForSubmission, WakeTypeOK, cycleVars
<1>3. ASSUME NEW c \in Caller, Called(c)
      PROVE  WakeTypeOK'
  BY <1>3 DEF Called, WakeTypeOK, Goes, CyclePlace
<1>4. ASSUME NEW c \in Caller, Claim(c)
      PROVE  WakeTypeOK'
  <2>1. work' \in [Work -> [at : JobPlace, due : Nat]]
    <3>1. CASE \E j \in Work : Drained[j].at = "running"
      <4> DEFINE ready == {j \in Work : Drained[j].at = "waiting" /\ Drained[j].due <= time}
                 deferred == [at |-> "waiting", due |-> time + Deferral]
      <4>1. deferred \in [at : JobPlace, due : Nat]
        BY <1>0 DEF JobPlace
      <4>2. work' = [j \in Work |-> IF j \in ready THEN deferred ELSE Drained[j]]
        BY <1>4, <3>1 DEF Claim
      <4> HIDE DEF ready, deferred
      <4> QED
        BY <4>1, <4>2, DrainedIsTyped
    <3>2. CASE ~\E j \in Work : Drained[j].at = "running"
      <4> DEFINE running == [at |-> "running", due |-> time + Lease]
      <4>1. running \in [at : JobPlace, due : Nat]
        BY <1>0 DEF JobPlace
      <4>2. work' = Drained \/ \E j \in Work : work' = [Drained EXCEPT ![j] = running]
        BY <1>4, <3>2 DEF Claim
      <4> HIDE DEF running
      <4> QED
        BY <4>1, <4>2, DrainedIsTyped
    <3> QED
      BY <3>1, <3>2
  <2>2. cycle' \in [Caller -> CyclePlace]
    BY <1>4, GoesIsTyped DEF Claim, CyclePlace
  <2>3. holds' \in [Caller -> SUBSET Work]
    BY <1>4 DEF Claim, WakeTypeOK
  <2> QED
    BY <1>4, <2>1, <2>2, <2>3 DEF Claim, WakeTypeOK
<1>5. ASSUME NEW c \in Caller, Heartbeat(c)
      PROVE  WakeTypeOK'
  <2>1. PICK j \in Work : Where(j, "running", time + Lease)
    BY <1>5 DEF Heartbeat, WakeTypeOK
  <2>2. work' \in [Work -> [at : JobPlace, due : Nat]]
    BY <1>0, <2>1, WhereIsTyped DEF JobPlace
  <2> QED
    BY <1>5, <2>2 DEF Heartbeat, WakeTypeOK, cycleVars
<1>6. ASSUME NEW c \in Caller, Stage(c)
      PROVE  WakeTypeOK'
  <2>1. work' = work \/ \E j \in Work : Where(j, "staged", 0)
    BY <1>6 DEF Stage, WakeTypeOK
  <2>2. work' \in [Work -> [at : JobPlace, due : Nat]]
    BY <1>0, <2>1, WhereIsTyped DEF JobPlace, WakeTypeOK
  <2> QED
    BY <1>6, <2>2 DEF Stage, WakeTypeOK, Goes, CyclePlace
<1>7. ASSUME NEW c \in Caller, Settle(c)
      PROVE  WakeTypeOK'
  <2>1. work' = work \/ \E j \in Work : Where(j, "done", 0) \/ Where(j, "waiting", time + Deferral)
    BY <1>7 DEF Settle, WakeTypeOK
  <2>2. work' \in [Work -> [at : JobPlace, due : Nat]]
    BY <1>0, <2>1, WhereIsTyped DEF JobPlace, WakeTypeOK
  <2> QED
    BY <1>7, <2>2 DEF Settle, WakeTypeOK, Goes, CyclePlace
<1>8. ASSUME NEW c \in Caller, ReadNextWake(c)
      PROVE  WakeTypeOK'
  <2>1. \A j \in Work : work[j].due \in Nat
    BY DEF WakeTypeOK
  <2>2. WakeTimes \in SUBSET Nat
    BY <2>1 DEF WakeTimes
  <2>3. WakeTimes # {} => First(WakeTimes) \in Nat
    BY <2>2, FirstIsFirst
  <2>4. wakeAt' \in [Caller -> Nat]
    BY <1>8, <2>3 DEF ReadNextWake, WakeTypeOK
  <2>5. cycle' \in [Caller -> CyclePlace]
    BY <1>8, GoesIsTyped DEF ReadNextWake, CyclePlace
  <2>6. empty' \in 0 .. Len(Backoff)
    BY <1>8, CapIsLongest DEF ReadNextWake, WakeTypeOK
  <2> QED
    BY <1>8, <2>4, <2>5, <2>6 DEF ReadNextWake, WakeTypeOK
<1>9. ASSUME NEW c \in Caller, BackOff(c)
      PROVE  WakeTypeOK'
  BY <1>9, CapIsLongest DEF BackOff, DispatchAt, Latest, WakeTypeOK, Goes, CyclePlace
<1>10. ASSUME NEW c \in Caller, AskCooldown(c) \/ Count(c) \/ SetExpiry(c) \/ Publish(c) \/ CallerFails(c)
       PROVE  WakeTypeOK'
  <2>1. /\ UNCHANGED <<time, work, busy, empty>>
        /\ \/ UNCHANGED wakeAt
           \/ wakeAt' = [wakeAt EXCEPT ![c] = 0]
        /\ holds' = holds \/ holds' = [holds EXCEPT ![c] = {}]
    BY <1>10 DEF AskCooldown, Count, SetExpiry, Publish, CallerFails, Strands
  <2>2. \E place \in CyclePlace : Goes(c, place)
    BY <1>10 DEF AskCooldown, Count, SetExpiry, Publish, CallerFails, Strands, CyclePlace
  <2>3. cycle' \in [Caller -> CyclePlace]
    BY <2>2, GoesIsTyped
  <2>4. wakes \subseteq Nat /\ wakeAt \in [Caller -> Nat]
    BY DEF WakeTypeOK
  <2>5. wakes' \subseteq Nat
    <3>1. wakes' = wakes \/ wakes' = wakes \cup {wakeAt[c]}
      BY <1>10 DEF AskCooldown, Count, SetExpiry, Publish, CallerFails
    <3>2. CASE wakes' = wakes
      BY <2>4, <3>2
    <3>3. CASE wakes' = wakes \cup {wakeAt[c]}
      BY <2>4, <3>3
    <3> QED
      BY <3>1, <3>2, <3>3
  <2>6. wakeAt' \in [Caller -> Nat]
    BY <2>1, <2>4
  <2> QED
    BY <2>1, <2>3, <2>5, <2>6 DEF WakeTypeOK, JobPlace, CyclePlace
<1>11. CASE UNCHANGED wakeVars
  BY <1>11 DEF wakeVars, WakeTypeOK
<1> QED
  BY <1>1, <1>2, <1>3, <1>4, <1>5, <1>6, <1>7, <1>8, <1>9, <1>10, <1>11 DEF WakeNext

(* Every step leaves a job in the hands of one caller at most, and a       *)
(* staged one in its own.                                                  *)
LEMMA HandsAreKept ==
  WakeTypeOK /\ OneAtATime /\ StagedIsHeld /\ [WakeNext]_wakeVars => (OneAtATime /\ StagedIsHeld)'
<1> SUFFICES ASSUME WakeTypeOK, OneAtATime, StagedIsHeld, [WakeNext]_wakeVars
             PROVE  (OneAtATime /\ StagedIsHeld)'
  OBVIOUS
<1> USE DEF WakeTypeOK, OneAtATime, StagedIsHeld, cycleVars, guardVars, Goes, Where
<1>1. CASE WakeTick \/ UNCHANGED wakeVars
  BY <1>1 DEF WakeTick, wakeVars
<1>2. ASSUME NEW j \in Work, Submit(j) \/ WakeForSubmission(j)
      PROVE  (OneAtATime /\ StagedIsHeld)'
  <2>1. \A i \in Work : work'[i].at = "staged" => work[i].at = "staged"
    <3>1. PICK place \in {"arriving", "waiting"} : Where(j, place, time)
      BY <1>2 DEF Submit, WakeForSubmission
    <3>2. work' = [i \in Work |-> IF i = j THEN [at |-> place, due |-> time] ELSE work[i]]
      BY <3>1
    <3> QED
      BY <3>1, <3>2
  <2>2. UNCHANGED <<cycle, holds>> /\ (stranded' \/ stranded' = stranded)
    BY <1>2 DEF Submit, WakeForSubmission
  <2> QED
    BY <2>1, <2>2
<1>3. ASSUME NEW c \in Caller, Claim(c)
      PROVE  (OneAtATime /\ StagedIsHeld)'
  <2>1. \A j \in Work : work'[j].at # "staged"
    <3>1. \A j \in Work : Drained[j].at # "staged"
      BY DEF Drained
    <3>2. CASE \E j \in Work : Drained[j].at = "running"
      BY <1>3, <3>1, <3>2 DEF Claim
    <3>3. CASE ~\E j \in Work : Drained[j].at = "running"
      <4> DEFINE running == [at |-> "running", due |-> time + Lease]
      <4>1. DOMAIN Drained = Work /\ running.at # "staged"
        BY DEF Drained
      <4>2. work' = Drained \/ \E j \in Work : work' = [Drained EXCEPT ![j] = running]
        BY <1>3, <3>3 DEF Claim
      <4> HIDE DEF running
      <4> QED
        BY <3>1, <4>1, <4>2
    <3> QED
      BY <3>2, <3>3
  <2>2. OneAtATime'
    BY <1>3 DEF Claim
  <2> QED
    BY <2>1, <2>2
<1>4. ASSUME NEW c \in Caller, Heartbeat(c)
      PROVE  (OneAtATime /\ StagedIsHeld)'
  BY <1>4 DEF Heartbeat
<1>5. ASSUME NEW c \in Caller, Stage(c)
      PROVE  (OneAtATime /\ StagedIsHeld)'
  <2>1. PICK j \in holds[c] : IF Lost(c) THEN UNCHANGED work ELSE Where(j, "staged", 0)
    BY <1>5 DEF Stage
  <2>2. \A i \in Work : work'[i].at = "staged" => work[i].at = "staged" \/ i = j
    BY <2>1
  <2>3. /\ UNCHANGED <<holds, stranded>> /\ cycle[c] = "run"
        /\ cycle' = [cycle EXCEPT ![c] = "settle"]
    BY <1>5 DEF Stage
  <2> QED
    BY <2>1, <2>2, <2>3
<1>6. ASSUME NEW c \in Caller, Settle(c)
      PROVE  (OneAtATime /\ StagedIsHeld)'
  <2>1. PICK j \in holds[c] :
          \/ Where(j, "done", 0) \/ Where(j, "waiting", time + Deferral)
          \/ work[j].at # "staged" /\ UNCHANGED work
    BY <1>6 DEF Settle
  <2>2. \A i \in Work : work'[i].at = "staged" => work[i].at = "staged" /\ i # j
    BY <2>1
  <2>3. /\ stranded' = stranded /\ holds' = [holds EXCEPT ![c] = {}]
        /\ \A d \in Caller \ {c} : cycle'[d] = cycle[d]
    BY <1>6 DEF Settle
  <2>4. OneAtATime'
    BY <2>3
  <2>5. StagedIsHeld'
    <3>1. SUFFICES ASSUME ~stranded, NEW i \in Work, work[i].at = "staged", i # j
                   PROVE  \E d \in Caller : cycle'[d] = "settle" /\ i \in holds'[d]
      BY <2>2, <2>3
    <3>2. PICK d \in Caller : cycle[d] = "settle" /\ i \in holds[d]
      BY <3>1
    <3>3. d # c
      BY <3>1, <3>2
    <3> QED
      BY <2>3, <3>2, <3>3
  <2> QED
    BY <2>4, <2>5
<1>7. ASSUME NEW c \in Caller, Called(c) \/ ReadNextWake(c) \/ BackOff(c)
      PROVE  (OneAtATime /\ StagedIsHeld)'
  BY <1>7 DEF Called, ReadNextWake, BackOff
<1>8. ASSUME NEW c \in Caller, AskCooldown(c) \/ Count(c) \/ SetExpiry(c)
      PROVE  (OneAtATime /\ StagedIsHeld)'
  BY <1>8 DEF AskCooldown, Count, SetExpiry, Strands
<1>9. ASSUME NEW c \in Caller, Publish(c) \/ CallerFails(c)
      PROVE  (OneAtATime /\ StagedIsHeld)'
  BY <1>9 DEF Publish, CallerFails, Strands
<1> QED
  BY <1>1, <1>2, <1>3, <1>4, <1>5, <1>6, <1>7, <1>8, <1>9 DEF WakeNext

(* Every step leaves each job in the queue a wake that is on its way.      *)
LEMMA JobsStayWoken == WakeInv /\ WakeTypeOK' /\ [WakeNext]_wakeVars => JobsAreWoken'
<1> SUFFICES ASSUME WakeInv, WakeTypeOK', [WakeNext]_wakeVars PROVE JobsAreWoken'
  OBVIOUS
<1> USE DEF cycleVars, guardVars, Goes, Where
<1>0. WakeTypeOK /\ JobsAreWoken
  BY DEF WakeInv
<1>1. CASE WakeTick
  <2>1. /\ time \in Nat /\ time' = time + 1 /\ wakes \subseteq wakes'
        /\ UNCHANGED <<work, cycle, wakeAt, stranded>>
    BY <1>0, <1>1 DEF WakeTick, WakeTypeOK
  <2>2. \A t \in Nat : OnTime(t) => OnTime(t)'
    BY <2>1 DEF OnTime, WillWake
  <2>3. \A j \in Work : Tracked(work[j])' => Tracked(work[j]) /\ work[j].due <= work'[j].due
    BY <1>0, <2>1 DEF Tracked, WakeTypeOK
  <2> QED
    BY <1>0, <2>1, <2>2, <2>3, NothingLost DEF JobsAreWoken
<1>2. ASSUME NEW i \in Work, Submit(i)
      PROVE  JobsAreWoken'
  <2>1. /\ time' = time /\ UNCHANGED <<wakes, cycle, wakeAt, stranded>>
        /\ \A j \in Work : Tracked(work[j])' => work'[j] = work[j]
    BY <1>0, <1>2 DEF Submit, Tracked, WakeTypeOK
  <2> QED
    BY <1>0, <2>1 DEF JobsAreWoken, Tracked, WillWake
<1>3. ASSUME NEW i \in Work, WakeForSubmission(i)
      PROVE  JobsAreWoken'
  <2>1. /\ time' = time /\ wakes \subseteq wakes' /\ UNCHANGED <<cycle, wakeAt>>
        /\ stranded' \/ (stranded' = stranded /\ time \in wakes')
        /\ \A j \in Work \ {i} : work'[j] = work[j]
        /\ work'[i].due = time
    BY <1>0, <1>3 DEF WakeForSubmission, WakeTypeOK
  <2>2. time <= Latest(time, time + Cap)
    BY <1>0, CapIsLongest DEF Latest, WakeTypeOK
  <2> QED
    BY <1>0, <2>1, <2>2 DEF JobsAreWoken, WillWake
<1>4. ASSUME NEW c \in Caller, Called(c) \/ Claim(c) \/ Heartbeat(c) \/ Stage(c) \/ Settle(c)
      PROVE  JobsAreWoken'
  <2>1. cycle'[c] \in {"drain", "run", "settle", "read"}
    BY <1>0, <1>4 DEF WakeTypeOK, Called, Claim, Heartbeat, Stage, Settle
  <2> QED
    BY <2>1 DEF JobsAreWoken, WillWake
<1>5. ASSUME NEW c \in Caller, ReadNextWake(c)
      PROVE  JobsAreWoken'
  <2>1. SUFFICES ASSUME ~stranded', NEW j \in Work,
                        work'[j].at \notin {"absent", "arriving", "done"}
                 PROVE  \E d \in Caller : WillWake(d, Latest(work[j].due, time + Cap))'
    BY <1>5 DEF JobsAreWoken, ReadNextWake
  <2>2. work' = work /\ stranded' = stranded /\ time' = time
    BY <1>5 DEF ReadNextWake
  <2>3. CASE work[j].at = "staged"
    <3>1. PICK d \in Caller : cycle[d] = "settle"
      BY <2>1, <2>2, <2>3 DEF WakeInv, StagedIsHeld
    <3>2. cycle'[d] = "settle"
      BY <1>0, <1>5, <3>1 DEF ReadNextWake, WakeTypeOK
    <3> QED
      BY <3>2 DEF WillWake
  <2>4. CASE work[j].at \in {"waiting", "running"}
    <3>1. WakeTimes \in SUBSET Nat /\ work[j].due \in WakeTimes
      BY <1>0, <2>4 DEF WakeTimes, WakeTypeOK
    <3>2. First(WakeTimes) <= work[j].due /\ First(WakeTimes) \in Nat
      BY <3>1, FirstIsFirst
    <3>3. cycle'[c] = "backoff" /\ wakeAt'[c] = First(WakeTimes)
      BY <1>0, <1>5, <3>1 DEF ReadNextWake, WakeTypeOK
    <3>4. wakeAt'[c] <= Latest(work'[j].due, time' + Cap)
      BY <1>0, <2>2, <3>1, <3>2, <3>3, CapIsLongest DEF Latest, WakeTypeOK
    <3> QED
      BY <3>3, <3>4 DEF WillWake
  <2> QED
    BY <1>0, <2>1, <2>2, <2>3, <2>4 DEF WakeTypeOK, JobPlace
<1>6. ASSUME NEW c \in Caller, BackOff(c)
      PROVE  JobsAreWoken'
  <2>1. /\ UNCHANGED <<work, time, wakes, stranded>> /\ cycle[c] = "backoff"
        /\ cycle' = [cycle EXCEPT ![c] = "guard"]
        /\ \A d \in Caller \ {c} : wakeAt'[d] = wakeAt[d]
        /\ \A j \in Work : Tracked(work[j])' => Tracked(work[j]) /\ work[j].due <= work'[j].due
    BY <1>0, <1>6 DEF BackOff, Tracked, WakeTypeOK
  <2>2. ASSUME NEW t \in Nat, wakeAt[c] <= t, time + Cap <= t
        PROVE  wakeAt'[c] <= t
    BY <1>0, <1>6, <2>2, CapIsLongest DEF BackOff, DispatchAt, Latest, WakeTypeOK
  <2>3. \A t \in Nat : OnTime(t) /\ time + Cap <= t => OnTime(t)'
    BY <1>0, <2>1, <2>2 DEF OnTime, WillWake, WakeTypeOK
  <2>4. time \in Nat /\ time <= time'
    BY <1>0, <2>1 DEF WakeTypeOK
  <2> QED
    BY <1>0, <2>1, <2>3, <2>4, NothingLost DEF JobsAreWoken
<1>7. ASSUME NEW c \in Caller, AskCooldown(c) \/ Count(c) \/ SetExpiry(c)
      PROVE  JobsAreWoken'
  <2>1. CASE stranded'
    BY <2>1 DEF JobsAreWoken
  <2>2. CASE ~stranded'
    <3>1. /\ UNCHANGED <<work, time, wakes, stranded, wakeAt>>
          /\ cycle[c] \in {"guard", "count", "expire"}
          /\ cycle'[c] \in {"count", "expire", "publish"}
          /\ \A d \in Caller \ {c} : cycle'[d] = cycle[d]
      BY <1>0, <1>7, <2>2 DEF AskCooldown, Count, SetExpiry, Strands, WakeTypeOK
    <3> QED
      BY <1>0, <3>1 DEF JobsAreWoken, WillWake
  <2> QED
    BY <2>1, <2>2
<1>8. ASSUME NEW c \in Caller, Publish(c)
      PROVE  JobsAreWoken'
  <2>1. CASE stranded'
    BY <2>1 DEF JobsAreWoken
  <2>2. CASE ~stranded'
    <3>1. /\ UNCHANGED <<work, time, stranded>> /\ cycle[c] = "publish"
          /\ wakes' = wakes \cup {wakeAt[c]}
          /\ \A d \in Caller \ {c} : cycle'[d] = cycle[d] /\ wakeAt'[d] = wakeAt[d]
      BY <1>0, <1>8, <2>2 DEF Publish, Strands, WakeTypeOK
    <3> QED
      BY <1>0, <3>1 DEF JobsAreWoken, WillWake
  <2> QED
    BY <2>1, <2>2
<1>9. ASSUME NEW c \in Caller, CallerFails(c)
      PROVE  JobsAreWoken'
  BY <1>9 DEF CallerFails, Strands, JobsAreWoken
<1>10. CASE UNCHANGED wakeVars
  BY <1>0, <1>10 DEF wakeVars, JobsAreWoken, WillWake
<1> QED
  BY <1>1, <1>2, <1>3, <1>4, <1>5, <1>6, <1>7, <1>8, <1>9, <1>10 DEF WakeNext

(* While no wake was refused, failed or died with its invocation, a job in *)
(* the queue has one on its way: for any number of invocations and jobs    *)
(* and any backoff that is longest at its end (review-worker-cycle).       *)
THEOREM NoJobIsStranded == WakeSpec => []JobsAreWoken
<1>1. WakeInit => WakeInv
  BY CapIsLongest DEF WakeInit, WakeInv, WakeTypeOK, JobPlace, CyclePlace, OneAtATime, StagedIsHeld,
     JobsAreWoken
<1>2. WakeInv /\ [WakeNext]_wakeVars => WakeInv'
  BY WakeTyped, HandsAreKept, JobsStayWoken DEF WakeInv
<1>3. WakeInv => JobsAreWoken
  BY DEF WakeInv
<1> QED
  BY <1>1, <1>2, <1>3, PTL DEF WakeSpec
=============================================================================
