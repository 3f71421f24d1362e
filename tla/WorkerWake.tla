------------------------------ MODULE WorkerWake ------------------------------
(***************************************************************************)
(* What calls the review worker.  A submission publishes a wake; every     *)
(* invocation of the worker drains the queue and publishes the next wake   *)
(* (review-worker-cycle.ts), later and later while it finds nothing to do, *)
(* and only so many a day (review-worker-dispatch-guard.ts); a schedule    *)
(* wakes it besides.  ReviewQueue has the queue in detail: here a job is   *)
(* waiting for its time, running under a lease, or on its way in or out.   *)
(***************************************************************************)
EXTENDS Integers, Sequences, FiniteSets

CONSTANTS
  Caller,         \* concurrent invocations of the worker route
  Work,           \* the jobs
  Backoff,        \* EMPTY_CYCLE_BACKOFF_MS, in ticks
  Budget,         \* WORKER_DISPATCH_DAILY_BUDGET
  Day,            \* ticks from midnight to midnight
  Period,         \* ticks between the wakes of the schedule
  MaxTime,        \* bound on the clock
  MaxWakeFaults   \* bound on failed calls and killed invocations

ASSUME BackoffAssumption ==
  /\ Backoff \in Seq(Nat) /\ Backoff # <<>>
  /\ \A n \in 1 .. Len(Backoff) : Backoff[n] <= Backoff[Len(Backoff)]
ASSUME DayAssumption == Day \in Nat \ {0}
ASSUME BudgetAssumption == Budget \in Nat \ {0}

Lease == 2        \* ticks a lease lasts
Deferral == 1     \* ticks a job is put off for, locked or retried
Never == -1

VARIABLES
  time,
  work,       \* [Work -> [at, due]]: where the job is, and when it is due
  wakes,      \* the times of the published wakes that were not delivered yet
  cycle,      \* cycle[c]: where the invocation c is
  holds,      \* holds[c]: the jobs it is running, at most one
  busy,       \* busy[c]: whether it has processed a job
  wakeAt,     \* wakeAt[c]: what nextWakeAt answered, then when to wake
  empty,      \* the count of empty cycles, up to the last step of the backoff
  published,  \* the guard's count of self-wakes, and when Redis drops it
  cooldown,   \* the guard's cooldown
  permits,    \* history: self-wakes the guard let pass since midnight
  stranded,   \* history: a wake was refused, failed or lost with its caller
  orphaned,   \* history: a caller failed after it counted first, before the expiry
  wakeFaults

wakeVars == <<time, work, wakes, cycle, holds, busy, wakeAt, empty, published, cooldown,
              permits, stranded, orphaned, wakeFaults>>
guardVars == <<published, cooldown, permits, orphaned>>
cycleVars == <<cycle, holds, busy, wakeAt>>

Latest(a, b) == IF a > b THEN a ELSE b
\* nextUtcMidnightUnix
NextMidnight(t) == (t \div Day + 1) * Day
Cap == Backoff[Len(Backoff)]

WakeInit ==
  /\ time = 0 /\ wakes = {} /\ empty = 0 /\ cooldown = 0 /\ permits = 0
  /\ work = [j \in Work |-> [at |-> "absent", due |-> 0]]
  /\ cycle = [c \in Caller |-> "idle"] /\ holds = [c \in Caller |-> {}]
  /\ busy = [c \in Caller |-> FALSE] /\ wakeAt = [c \in Caller |-> 0]
  /\ published = [count |-> 0, until |-> Never]
  /\ stranded = FALSE /\ orphaned = FALSE /\ wakeFaults = 0

-----------------------------------------------------------------------------
(* A submission: enqueue, activate, and a wake that the guard does not see. *)

Where(j, place, due) == work' = [work EXCEPT ![j] = [at |-> place, due |-> due]]

Submit(j) ==
  /\ work[j].at = "absent" /\ Where(j, "arriving", time)
  /\ UNCHANGED <<time, wakes, cycleVars, empty, guardVars, stranded, wakeFaults>>

\* The wake is published once the job is scheduled; a failure is only logged.
WakeForSubmission(j) ==
  /\ work[j].at = "arriving" /\ Where(j, "waiting", time)
  /\ \/ wakes' = wakes \union {time} /\ UNCHANGED <<stranded, wakeFaults>>
     \/ /\ wakeFaults < MaxWakeFaults /\ wakeFaults' = wakeFaults + 1
        /\ stranded' = TRUE /\ UNCHANGED wakes
  /\ UNCHANGED <<time, cycleVars, empty, guardVars>>

-----------------------------------------------------------------------------
(* The worker                                                              *)

Goes(c, place) == cycle' = [cycle EXCEPT ![c] = place]

\* A wake is delivered when it is due, or later.
Called(c) ==
  /\ cycle[c] = "idle"
  /\ \E t \in wakes : t <= time /\ wakes' = wakes \ {t}
  /\ Goes(c, "drain") /\ busy' = [busy EXCEPT ![c] = FALSE]
  /\ UNCHANGED <<time, work, holds, wakeAt, empty, guardVars, stranded, wakeFaults>>

\* processNext begins with what others left: pending activations, leases that
\* expired, outcomes that were staged and not acknowledged.
Drained ==
  [j \in Work |->
    LET w == work[j] IN
    CASE w.at = "arriving" -> w
      [] w.at = "staged"   -> [at |-> "waiting", due |-> time + Deferral]
      [] w.at = "running" /\ w.due <= time -> [at |-> "waiting", due |-> time]
      [] OTHER -> w]

\* claim: a job that is due runs, unless the locks of its repository, which all
\* jobs share here, are held; then all that are due are put off.
Claim(c) ==
  LET ready == {j \in Work : Drained[j].at = "waiting" /\ Drained[j].due <= time} IN
  /\ cycle[c] = "drain"
  /\ IF \E j \in Work : Drained[j].at = "running"
     THEN /\ work' = [j \in Work |-> IF j \in ready THEN [at |-> "waiting", due |-> time + Deferral]
                                     ELSE Drained[j]]
          /\ Goes(c, "read") /\ UNCHANGED holds
     ELSE \/ \E j \in ready :
               /\ work' = [Drained EXCEPT ![j] = [at |-> "running", due |-> time + Lease]]
               /\ holds' = [holds EXCEPT ![c] = {j}] /\ Goes(c, "run")
          \/ ready = {} /\ work' = Drained /\ Goes(c, "read") /\ UNCHANGED holds
  /\ UNCHANGED <<time, wakes, busy, wakeAt, empty, guardVars, stranded, wakeFaults>>

\* The heartbeat renews the lease while the review runs.
Heartbeat(c) ==
  /\ cycle[c] = "run" /\ \E j \in holds[c] : work[j].at = "running" /\ Where(j, "running", time + Lease)
  /\ UNCHANGED <<time, wakes, cycleVars, empty, guardVars, stranded, wakeFaults>>

Lost(c) == \E j \in holds[c] : work[j].at # "running"

\* The outcome is staged: for a retry it is acknowledged into the schedule.
Stage(c) ==
  /\ cycle[c] = "run"
  /\ \E j \in holds[c] :
       IF Lost(c) THEN UNCHANGED work ELSE Where(j, "staged", 0)
  /\ Goes(c, "settle")
  /\ UNCHANGED <<time, wakes, holds, busy, wakeAt, empty, guardVars, stranded, wakeFaults>>

\* Acknowledged, and the worker takes the next job if the time it has left
\* allows.
Settle(c) ==
  /\ cycle[c] = "settle"
  /\ \E j \in holds[c] :
       \/ work[j].at = "staged"
          /\ (Where(j, "done", 0) \/ Where(j, "waiting", time + Deferral))
       \/ work[j].at # "staged" /\ UNCHANGED work
  /\ holds' = [holds EXCEPT ![c] = {}] /\ busy' = [busy EXCEPT ![c] = TRUE]
  /\ (Goes(c, "drain") \/ Goes(c, "read"))
  /\ UNCHANGED <<time, wakes, wakeAt, empty, guardVars, stranded, wakeFaults>>

\* Mutation: a job put off is not looked at.
DueTimes == {work[j].due : j \in {i \in Work : work[i].at = "waiting" /\ work[i].due <= time}}
\* nextWakeAt: the first job that is due, or the first lease that ends.  Pending
\* activations and staged outcomes are not looked at.
WakeTimes == {work[j].due : j \in {i \in Work : work[i].at \in {"waiting", "running"}}}
First(times) == CHOOSE t \in times : \A u \in times : t <= u

ReadNextWake(c) ==
  /\ cycle[c] = "read"
  /\ IF WakeTimes = {}
     THEN /\ empty' = 0 /\ Goes(c, "idle") /\ wakeAt' = [wakeAt EXCEPT ![c] = 0]
     ELSE /\ wakeAt' = [wakeAt EXCEPT ![c] = First(WakeTimes)]
          /\ Goes(c, "backoff") /\ UNCHANGED empty
  /\ UNCHANGED <<time, work, wakes, holds, busy, guardVars, stranded, wakeFaults>>

\* emptyCycleBackoffMs and dispatchAt.
DispatchAt(n, next) == Latest(next, time + Backoff[n])

\* An empty cycle backs off one step further, or all the way when Redis cannot
\* be asked; one that processed a job starts over.
BackOff(c) ==
  LET step == IF empty < Len(Backoff) THEN empty + 1 ELSE Len(Backoff) IN
  /\ cycle[c] = "backoff"
  /\ IF busy[c]
     THEN empty' = 0 /\ wakeAt' = [wakeAt EXCEPT ![c] = Latest(@, time)] /\ UNCHANGED wakeFaults
     ELSE \/ /\ empty' = step /\ wakeAt' = [wakeAt EXCEPT ![c] = DispatchAt(step, @)]
             /\ UNCHANGED wakeFaults
          \/ /\ wakeFaults < MaxWakeFaults /\ wakeFaults' = wakeFaults + 1
             /\ wakeAt' = [wakeAt EXCEPT ![c] = DispatchAt(Len(Backoff), @)] /\ UNCHANGED empty
  /\ Goes(c, "guard") /\ busy' = [busy EXCEPT ![c] = FALSE]
  /\ UNCHANGED <<time, work, wakes, holds, guardVars, stranded>>

-----------------------------------------------------------------------------
(* The guard                                                               *)

Strands(c) == stranded' = TRUE /\ Goes(c, "idle") /\ wakeAt' = [wakeAt EXCEPT ![c] = 0]

AskCooldown(c) ==
  /\ cycle[c] = "guard"
  /\ IF cooldown > time THEN Strands(c) ELSE Goes(c, "count") /\ UNCHANGED <<stranded, wakeAt>>
  /\ UNCHANGED <<time, work, wakes, holds, busy, empty, guardVars, wakeFaults>>

\* INCR; only the first of a day sets the expiry, in a call of its own.  Every
\* count beyond the budget is as good as the first.
Count(c) ==
  /\ cycle[c] = "count"
  /\ published' = [published EXCEPT !.count = IF @ > Budget THEN @ ELSE @ + 1]
  /\ IF published'.count = 1 THEN Goes(c, "expire") /\ UNCHANGED <<stranded, wakeAt, permits>>
     ELSE IF published'.count > Budget THEN Strands(c) /\ UNCHANGED permits
     ELSE Goes(c, "publish") /\ permits' = permits + 1 /\ UNCHANGED <<stranded, wakeAt>>
  /\ UNCHANGED <<time, work, wakes, holds, busy, empty, cooldown, orphaned, wakeFaults>>

\* Mutation: the day ends a day after its first wake.
DayFromNow(t) == t + Day
\* EXPIREAT
ExpiresAt(t) == NextMidnight(t)

SetExpiry(c) ==
  /\ cycle[c] = "expire"
  /\ published' = IF published.count = 0 THEN published
                  ELSE [published EXCEPT !.until = ExpiresAt(time)]
  /\ Goes(c, "publish") /\ permits' = permits + 1 /\ UNCHANGED <<stranded, wakeAt>>
  /\ UNCHANGED <<time, work, wakes, holds, busy, empty, cooldown, orphaned, wakeFaults>>

\* The wake is published, or QStash refuses it, and a refusal for its daily
\* limit starts the cooldown.
Publish(c) ==
  /\ cycle[c] = "publish"
  /\ \/ /\ wakes' = wakes \union {wakeAt[c]}
        /\ Goes(c, "idle") /\ wakeAt' = [wakeAt EXCEPT ![c] = 0]
        /\ UNCHANGED <<stranded, cooldown, wakeFaults>>
     \/ /\ wakeFaults < MaxWakeFaults /\ wakeFaults' = wakeFaults + 1
        /\ Strands(c) /\ UNCHANGED wakes
        /\ (cooldown' = NextMidnight(time) \/ UNCHANGED cooldown)
  /\ UNCHANGED <<time, work, holds, busy, empty, published, permits, orphaned>>

-----------------------------------------------------------------------------
(* The world                                                               *)

\* A call throws or the platform kills the invocation: what it holds stays, and
\* there is no trailing wake.
CallerFails(c) ==
  /\ cycle[c] # "idle" /\ wakeFaults < MaxWakeFaults
  /\ wakeFaults' = wakeFaults + 1 /\ Strands(c)
  /\ holds' = [holds EXCEPT ![c] = {}]
  /\ orphaned' = (orphaned \/ cycle[c] = "expire")
  /\ UNCHANGED <<time, work, wakes, busy, empty, published, cooldown, permits>>

\* The schedule's wake comes with the clock; at midnight the guard's count is
\* dropped, if it has an expiry.
WakeTick ==
  /\ time < MaxTime /\ time' = time + 1
  /\ wakes' = IF time' % Period = 0 THEN wakes \union {time'} ELSE wakes
  /\ published' = IF published.until # Never /\ published.until <= time'
                  THEN [count |-> 0, until |-> Never] ELSE published
  /\ permits' = IF time' % Day = 0 THEN 0 ELSE permits
  /\ UNCHANGED <<work, cycleVars, empty, cooldown, stranded, orphaned, wakeFaults>>

WakeNext ==
  \/ WakeTick
  \/ \E j \in Work : Submit(j) \/ WakeForSubmission(j)
  \/ \E c \in Caller :
       \/ Called(c) \/ Claim(c) \/ Heartbeat(c) \/ Stage(c) \/ Settle(c)
       \/ ReadNextWake(c) \/ BackOff(c) \/ AskCooldown(c) \/ Count(c) \/ SetExpiry(c)
       \/ Publish(c) \/ CallerFails(c)

WakeSpec == WakeInit /\ [][WakeNext]_wakeVars

-----------------------------------------------------------------------------
(* Properties                                                              *)

\* An invocation that will still read nextWakeAt, or will publish a wake by t.
WillWake(c, t) ==
  \/ cycle[c] \in {"drain", "run", "settle", "read"}
  \/ cycle[c] = "backoff" /\ wakeAt[c] <= t
  \/ cycle[c] \in {"guard", "count", "expire", "publish"} /\ wakeAt[c] <= t

\* While no wake was refused or failed, a job in the queue, wherever it is, has
\* a wake on its way for when it is due, or for no later than the longest backoff
\* from now: no order of submissions, retries, lock deferrals and empty cycles
\* leaves it to the schedule.
JobsAreWoken ==
  ~stranded => \A j \in Work : work[j].at \notin {"absent", "arriving", "done"} =>
    LET latest == Latest(work[j].due, time + Cap) IN
    (\E t \in wakes : t <= latest) \/ (\E c \in Caller : WillWake(c, latest))

\* Whatever fails, the guard lets at most its budget of self-wakes pass between two
\* midnights, and a count either has the next midnight for its expiry or waits for
\* the invocation that will set it.  Only one that fails just there, between the
\* two calls, leaves a count that no midnight drops.
SelfWakesAreBudgeted ==
  /\ permits <= Budget
  /\ published.count > 0 =>
       \/ published.until = NextMidnight(time)
       \/ published.until = Never /\ (orphaned \/ \E c \in Caller : cycle[c] = "expire")
=============================================================================
