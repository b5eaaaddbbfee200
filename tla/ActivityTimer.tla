--------------------------- MODULE ActivityTimer ---------------------------
(***************************************************************************)
(* common/signal: ActivityTimer, which runs onTimeout once when a whole    *)
(* interval passes without Update.                                         *)
(*                                                                         *)
(* Every SetTimeout makes a new Periodic task, starts it under the timer's *)
(* mutex and retires the previous one; ticks of a retired task may still   *)
(* be in flight.  The mutex is explicit because SetTimeout holds it across *)
(* Periodic.Start, which runs Execute synchronously; the other critical    *)
(* sections are single steps that need it free.                            *)
(***************************************************************************)
EXTENDS Periodic

CONSTANTS
    NoTask,     \* the nil *task.Periodic
    NoOwner,    \* the mutex is free
    MaxUpdates  \* bound: calls of Update

ASSUME TimerAssumption ==
    NoTask \notin Tasks /\ NoOwner \notin Starters /\ MaxUpdates \in Nat

VARIABLES
    mu,             \* the goroutine in SetTimeout that holds ActivityTimer.mu
    updated,        \* the one-slot activity channel holds a token
    checkTask,      \* the current task
    consumed,       \* onTimeout has been claimed
    primed,         \* per task: its synchronous first call is over
    setpc,          \* per starter: where it is in SetTimeout
    ticker,         \* per task: the goroutines that go on to call onTimeout
    fired,          \* history: calls of onTimeout
    updates,        \* history: calls of Update
    fresh,          \* history: Update was called and no tick has counted it yet
    expiredBy       \* history: the task whose tick expired the timer

timerVars == <<mu, updated, checkTask, consumed, primed, setpc, ticker, fired, updates,
               fresh, expiredBy>>
allTimerVars == <<running, timer, ppc, mu, updated, checkTask, consumed, primed, setpc, ticker,
          fired, updates, fresh, expiredBy>>

TimerTypeOK ==
    /\ PeriodicTypeOK
    /\ mu \in Starters \cup {NoOwner}
    /\ updated \in BOOLEAN
    /\ checkTask \in Tasks \cup {NoTask}
    /\ consumed \in BOOLEAN
    /\ primed \in [Tasks -> BOOLEAN]
    /\ setpc \in [Starters -> {"idle", "lock", "starting", "finish", "fire", "returned"}]
    /\ \A s \in Starters : (mu = s) = (setpc[s] = "starting")
    /\ ticker \in [Tasks -> SUBSET Exec]
    /\ fired \in Nat
    /\ updates \in 0 .. MaxUpdates
    /\ fresh \in BOOLEAN
    /\ expiredBy \in Tasks \cup {NoTask}

TimerInit ==
    /\ PeriodicInit
    /\ mu = NoOwner
    /\ updated = FALSE
    /\ checkTask = NoTask
    /\ consumed = FALSE
    /\ primed = [p \in Tasks |-> FALSE]
    /\ setpc = [s \in Starters |-> "idle"]
    /\ ticker = [p \in Tasks |-> {}]
    /\ fired = 0
    /\ updates = 0
    /\ fresh = FALSE
    /\ expiredBy = NoTask

Set(s, l) == setpc' = [setpc EXCEPT ![s] = l]

\* The task to retire: none before the first SetTimeout.
Current == IF checkTask = NoTask THEN {} ELSE {checkTask}

-----------------------------------------------------------------------------
\* Update puts a token or finds one.
Update ==
    /\ updates < MaxUpdates
    /\ updates' = updates + 1
    /\ updated' = TRUE
    /\ fresh' = TRUE
    /\ UNCHANGED <<periodicVars, mu, checkTask, consumed, primed, setpc, ticker, fired,
                   expiredBy>>

\* SetTimeout, up to the lock.
SetTimeout(s) ==
    /\ setpc[s] = "idle"
    /\ IF consumed THEN Set(s, "returned")
                   ELSE \E zero \in BOOLEAN : Set(s, IF zero THEN "finish" ELSE "lock")
    /\ UNCHANGED <<periodicVars, mu, updated, checkTask, consumed, primed, ticker, fired,
                   updates, fresh, expiredBy>>

\* SetTimeout(0): finish claims onTimeout unless somebody has.
Finish(s) ==
    /\ setpc[s] = "finish"
    /\ mu = NoOwner
    /\ IF consumed
       THEN Set(s, "returned") /\ UNCHANGED <<periodicVars, consumed>>
       ELSE /\ consumed' = TRUE
            /\ Close(Current)
            /\ Set(s, "fire")
    /\ UNCHANGED <<mu, updated, checkTask, primed, ticker, fired, updates, fresh, expiredBy>>

\* ... and calls it outside the lock.
FinishFires(s) ==
    /\ setpc[s] = "fire"
    /\ fired' = fired + 1
    /\ Set(s, "returned")
    /\ UNCHANGED <<periodicVars, mu, updated, checkTask, consumed, primed, ticker,
                   updates, fresh, expiredBy>>

\* The double check under the lock: a timer that is over stays over.
LockConsumed(s) ==
    /\ setpc[s] = "lock"
    /\ mu = NoOwner
    /\ consumed
    /\ Set(s, "returned")
    /\ UNCHANGED <<periodicVars, mu, updated, checkTask, consumed, primed, ticker, fired,
                   updates, fresh, expiredBy>>

mayReplace == ~consumed

\* The replacement: retire the old task, drain the activity, go to Start.
Replace(s, p) ==
    /\ setpc[s] = "lock"
    /\ mu = NoOwner
    /\ mayReplace
    /\ ~primed[p]
    /\ mu' = s
    /\ Close(Current)
    /\ checkTask' = p
    /\ updated' = FALSE
    /\ fresh' = FALSE
    /\ Set(s, "starting")
    /\ UNCHANGED <<consumed, primed, ticker, fired, updates, expiredBy>>

StartTask(s) ==
    /\ setpc[s] = "starting"
    /\ ~primed[checkTask]
    /\ Start(checkTask, s)
    /\ UNCHANGED timerVars

\* Start returned: unlock.
Unlock(s) ==
    /\ setpc[s] = "starting"
    /\ Return(checkTask, s)
    /\ mu' = NoOwner
    /\ Set(s, "returned")
    /\ UNCHANGED <<updated, checkTask, consumed, primed, ticker, fired, updates, fresh,
                   expiredBy>>

-----------------------------------------------------------------------------
(* Execute: the first call arms, every later one is check. *)

firstCall(p) == ~primed[p]

Prime(p, g) ==
    /\ Executing(p, g) /\ g \notin ticker[p]
    /\ firstCall(p)
    /\ primed' = [primed EXCEPT ![p] = TRUE]
    /\ Executed(p, g, FALSE)
    /\ UNCHANGED <<mu, updated, checkTask, consumed, setpc, ticker, fired, updates,
                   fresh, expiredBy>>

\* Mutant: a retired task's tick passes for the current one's.
retiredNever(p) == consumed

\* check's first test: the timer is over, or this tick belongs to an old task.
retired(p) == consumed \/ checkTask # p

\* check under the lock: ignore, count the activity, or expire.
TickRetired(p, g) ==
    /\ Executing(p, g) /\ g \notin ticker[p]
    /\ ~firstCall(p)
    /\ mu = NoOwner
    /\ retired(p)
    /\ Executed(p, g, FALSE)
    /\ UNCHANGED timerVars

\* Mutant: the token is looked at and left.
tokenLeft == updated

\* The tick takes the token.
tokenTaken == FALSE

TickActive(p, g) ==
    /\ Executing(p, g) /\ g \notin ticker[p]
    /\ ~firstCall(p)
    /\ mu = NoOwner
    /\ ~retired(p)
    /\ updated
    /\ updated' = tokenTaken
    /\ fresh' = IF p = checkTask THEN FALSE ELSE fresh
    /\ Executed(p, g, FALSE)
    /\ UNCHANGED <<mu, checkTask, consumed, primed, setpc, ticker, fired, updates, expiredBy>>

\* Mutant: the timer is not marked consumed.
consumedNot == consumed

consumedNow == TRUE

TickExpires(p, g) ==
    /\ Executing(p, g) /\ g \notin ticker[p]
    /\ ~firstCall(p)
    /\ mu = NoOwner
    /\ ~retired(p)
    /\ ~updated
    /\ consumed' = consumedNow
    /\ Close(Current)
    /\ ticker' = [ticker EXCEPT ![p] = @ \cup {g}]
    /\ expiredBy' = p
    /\ UNCHANGED <<mu, updated, checkTask, primed, setpc, fired, updates, fresh>>

\* onTimeout, outside the lock.
TickFires(p, g) ==
    /\ Executing(p, g) /\ g \in ticker[p]
    /\ fired' = fired + 1
    /\ ticker' = [ticker EXCEPT ![p] = @ \ {g}]
    /\ Executed(p, g, FALSE)
    /\ UNCHANGED <<mu, updated, checkTask, consumed, primed, setpc, updates, fresh, expiredBy>>

TaskStep(p, g) ==
    \/ (Check(p, g) \/ Arm(p, g)) /\ UNCHANGED timerVars
    \/ Prime(p, g) \/ TickRetired(p, g) \/ TickActive(p, g) \/ TickExpires(p, g)
    \/ TickFires(p, g)

Tick(p, t) == Fire(p, t) /\ UNCHANGED timerVars

SetterStep(s) ==
    \/ Finish(s) \/ FinishFires(s) \/ LockConsumed(s) \/ StartTask(s) \/ Unlock(s)
    \/ \E p \in Tasks : Replace(s, p)

TimerNext ==
    \/ Update
    \/ \E s \in Starters : SetTimeout(s) \/ SetterStep(s)
    \/ \E p \in Tasks : \E g \in Exec : TaskStep(p, g)
    \/ \E p \in Tasks : \E t \in Timers : Tick(p, t)

TimerSpec == TimerInit /\ [][TimerNext]_allTimerVars

\* Goroutines run on and timers fire.
TimerFairness ==
    /\ \A s \in Starters : WF_allTimerVars(SetterStep(s))
    /\ \A p \in Tasks : \A g \in Exec : WF_allTimerVars(TaskStep(p, g))
    /\ \A p \in Tasks : \A t \in Timers : WF_allTimerVars(Tick(p, t))

TimerFairSpec == TimerSpec /\ TimerFairness

-----------------------------------------------------------------------------
(* Properties. *)

\* onTimeout runs at most once, whatever ticks, SetTimeout(0) and replacements
\* race.  The state is well typed throughout.
FiresOnce ==
    /\ TimerTypeOK
    /\ fired + Cardinality({c \in Tasks \X Exec : c[2] \in ticker[c[1]]})
             + Cardinality({s \in Starters : setpc[s] = "fire"}) <= 1

\* A replaced task does not eat the activity of its successor: the timer never
\* expires although Update was called after the current task last looked.
ActivityCounts ==
    [][expiredBy' # expiredBy => ~fresh]_allTimerVars

\* Without further activity a timer that was set expires.
IdleExpires == checkTask # NoTask ~> fired = 1
=============================================================================
