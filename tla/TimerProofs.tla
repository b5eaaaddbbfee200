---------------------------- MODULE TimerProofs ----------------------------
(***************************************************************************)
(* Proofs about ActivityTimer, for any number of SetTimeout calls, tasks,  *)
(* timers and updates.                                                     *)
(*                                                                         *)
(* onTimeout is claimed under the mutex by whoever finds the timer not     *)
(* consumed, and consumed it stays: from then on there is one claim, in    *)
(* the hands of a tick, in those of a SetTimeout, or spent.  The token in  *)
(* the activity channel stands for every Update that no tick has counted:  *)
(* only the tick of the current task takes it.                             *)
(***************************************************************************)
EXTENDS ActivityTimer, TLAPS, FiniteSetTheorems

\* TimerTypeOK without the part of Periodic.
SetShape ==
    /\ mu \in Starters \cup {NoOwner}
    /\ setpc \in [Starters -> {"idle", "lock", "starting", "finish", "fire", "returned"}]
    /\ \A s \in Starters : (mu = s) = (setpc[s] = "starting")
TaskShape ==
    /\ checkTask \in Tasks \cup {NoTask} /\ expiredBy \in Tasks \cup {NoTask}
    /\ primed \in [Tasks -> BOOLEAN]
    /\ ticker \in [Tasks -> SUBSET Exec]
CountShape ==
    /\ updated \in BOOLEAN /\ consumed \in BOOLEAN /\ fresh \in BOOLEAN
    /\ fired \in Nat /\ updates \in 0 .. MaxUpdates

\* SetTimeout has made its task the current one before it starts it.
TaskIsSet == mu # NoOwner => checkTask \in Tasks

\* The claims on onTimeout: of ticks and of SetTimeout(0).
ticking == {c \in Tasks \X Exec : c[2] \in ticker[c[1]]}
firing == {s \in Starters : setpc[s] = "fire"}

\* There is none before the timer is consumed, and then there is one.
ClaimedOnce ==
    \/ fired = 0 /\ ticking = {} /\ firing = {}
    \/ consumed /\ fired = 1 /\ ticking = {} /\ firing = {}
    \/ consumed /\ fired = 0 /\ (\E c \in Tasks \X Exec : ticking = {c}) /\ firing = {}
    \/ consumed /\ fired = 0 /\ ticking = {} /\ \E s \in Starters : firing = {s}

\* An Update that no tick has counted has its token in the channel.
FreshIsSeen == fresh => updated

IInv ==
    /\ PeriodicTypeOK /\ SetShape /\ TaskShape /\ CountShape
    /\ TaskIsSet /\ ClaimedOnce /\ FreshIsSeen

-----------------------------------------------------------------------------
(* Periodic: the stages stay well typed. *)

\* A goroutine moves to another stage.
LEMMA ToStage ==
    ASSUME PeriodicTypeOK, NEW p \in Tasks, NEW g \in Exec, NEW l \in Stages, To(p, g, l)
    PROVE  ppc' \in [Tasks -> [Exec -> Stages]]
<1>1. ppc[p] \in [Exec -> Stages]
  BY Zenon DEF PeriodicTypeOK
<1>2. [ppc[p] EXCEPT ![g] = l] \in [Exec -> Stages]
  BY Zenon, <1>1
<1>3. ppc' = [ppc EXCEPT ![p] = [ppc[p] EXCEPT ![g] = l]]
  BY Zenon DEF To
<1> QED BY Zenon, <1>2, <1>3 DEF PeriodicTypeOK

\* Start, hasClosed, the end of Execute, a timer that fires and a Start that
\* returns move one goroutine of a task.
LEMMA OneMoves ==
    ASSUME PeriodicTypeOK, NEW p \in Tasks, NEW g \in Exec,
           \/ Start(p, g) \/ Check(p, g) \/ Executed(p, g, FALSE)
           \/ Fire(p, g) \/ Return(p, g)
    PROVE  PeriodicTypeOK'
<1>1. running' \in [Tasks -> BOOLEAN] /\ timer' \in [Tasks -> Timers \cup {NoTimer}]
  BY Zenon DEF Start, Check, Executed, Fire, Return, PeriodicTypeOK
<1>2. \E l \in Stages : To(p, g, l)
  BY Zenon DEF Start, Check, Executed, Fire, Return, Ended, Stages
<1> QED BY Zenon, <1>1, <1>2, ToStage DEF PeriodicTypeOK

\* The next tick is armed.
LEMMA ArmMoves ==
    ASSUME PeriodicTypeOK, NEW p \in Tasks, NEW g \in Exec, Arm(p, g)
    PROVE  PeriodicTypeOK'
<1>1. Ended(g, "nil") \in Stages /\ "armed" \in Stages /\ ppc[p] \in [Exec -> Stages]
  BY Zenon DEF Ended, Stages, PeriodicTypeOK
<1>2. CASE To(p, g, Ended(g, "nil")) /\ UNCHANGED <<timer, running>>
  BY Zenon, <1>1, <1>2, ToStage DEF PeriodicTypeOK
<1>3. ASSUME NEW t \in Timers, running' = running, timer' = [timer EXCEPT ![p] = t],
             ppc' = [ppc EXCEPT ![p][t] = "armed", ![p][g] = Ended(g, "nil")]
      PROVE  PeriodicTypeOK'
  <2> DEFINE f == [[ppc[p] EXCEPT ![t] = "armed"] EXCEPT ![g] = Ended(g, "nil")]
  <2>1. t \in Exec
    BY Zenon DEF Exec
  <2>2. f \in [Exec -> Stages]
    BY Zenon, <1>1, <2>1
  <2>3. ppc' = [ppc EXCEPT ![p] = f]
    BY Zenon, <1>3 DEF PeriodicTypeOK
  <2> HIDE DEF f
  <2> QED BY Zenon, <1>3, <2>2, <2>3 DEF PeriodicTypeOK
<1> QED BY Zenon, <1>2, <1>3 DEF Arm

\* Close of a set of tasks.
LEMMA CloseMoves ==
    ASSUME PeriodicTypeOK, NEW closing, Close(closing)
    PROVE  PeriodicTypeOK'
<1>1. ASSUME NEW p \in Tasks PROVE stopped(p) \in [Exec -> Stages]
  BY Zenon DEF PeriodicTypeOK, stopped, Stages
<1> QED BY Zenon, <1>1 DEF Close, PeriodicTypeOK

-----------------------------------------------------------------------------
(* The steps of ActivityTimer. *)

\* A step that leaves the variables of the timer alone.
LEMMA TaskMoves ==
    ASSUME IInv, PeriodicTypeOK', UNCHANGED timerVars
    PROVE  IInv'
BY Zenon DEF IInv, timerVars, SetShape, TaskShape, CountShape, TaskIsSet, ClaimedOnce,
   ticking, firing, FreshIsSeen

\* Update.
LEMMA UpdateStep == ASSUME IInv, Update PROVE IInv'
<1>1. PeriodicTypeOK' /\ SetShape' /\ TaskShape' /\ TaskIsSet' /\ ClaimedOnce' /\ FreshIsSeen'
  BY Zenon DEF IInv, Update, periodicVars, PeriodicTypeOK, SetShape, TaskShape, TaskIsSet,
     ClaimedOnce, ticking, firing, FreshIsSeen
<1>2. CountShape'
  BY TimerAssumption DEF IInv, Update, CountShape
<1> QED BY Zenon, <1>1, <1>2 DEF IInv

\* A goroutine goes on in SetTimeout without claiming onTimeout or the mutex.
LEMMA SetKeeps ==
    ASSUME IInv, NEW s \in Starters, NEW l \in {"lock", "finish", "returned"}, Set(s, l),
           setpc[s] \in {"idle", "lock", "finish"}
    PROVE  /\ setpc' \in [Starters -> {"idle", "lock", "starting", "finish", "fire", "returned"}]
           /\ \A k \in Starters : (mu = k) = (setpc'[k] = "starting")
           /\ {k \in Starters : setpc'[k] = "fire"} = firing
<1>1. /\ setpc' \in [Starters -> {"idle", "lock", "starting", "finish", "fire", "returned"}]
      /\ setpc'[s] = l /\ \A k \in Starters : k # s => setpc'[k] = setpc[k]
  BY Zenon DEF IInv, SetShape, Set
<1> QED BY <1>1 DEF firing, IInv, SetShape

\* SetTimeout is called.
LEMMA SetTimeoutStep == ASSUME IInv, NEW s \in Starters, SetTimeout(s) PROVE IInv'
<1>1. \E l \in {"lock", "finish", "returned"} : Set(s, l)
  BY Zenon DEF SetTimeout
<1>2. SetShape' /\ firing' = firing
  BY Zenon, <1>1, SetKeeps DEF SetTimeout, IInv, SetShape, firing
<1> QED BY Zenon, <1>2 DEF IInv, SetTimeout, periodicVars, PeriodicTypeOK, TaskShape, CountShape,
   TaskIsSet, ClaimedOnce, ticking, FreshIsSeen

\* SetTimeout finds the timer consumed.
LEMMA LockConsumedStep == ASSUME IInv, NEW s \in Starters, LockConsumed(s) PROVE IInv'
<1>1. SetShape' /\ firing' = firing
  BY Zenon, SetKeeps DEF LockConsumed, IInv, SetShape, firing
<1> QED BY Zenon, <1>1 DEF IInv, LockConsumed, periodicVars, PeriodicTypeOK, TaskShape, CountShape,
   TaskIsSet, ClaimedOnce, ticking, FreshIsSeen

\* finish claims onTimeout, or finds it claimed.
LEMMA FinishStep == ASSUME IInv, NEW s \in Starters, Finish(s) PROVE IInv'
<1>1. TaskShape' /\ TaskIsSet' /\ FreshIsSeen' /\ ticking' = ticking /\ fired' = fired
  BY Zenon DEF IInv, Finish, TaskShape, TaskIsSet, FreshIsSeen, ticking
<1>2. CountShape'
  BY Zenon DEF IInv, Finish, CountShape
<1>3. CASE consumed
  <2>1. SetShape' /\ firing' = firing
    BY Zenon, <1>3, SetKeeps DEF Finish, IInv, SetShape, firing
  <2>2. PeriodicTypeOK' /\ consumed' = consumed
    BY Zenon, <1>3 DEF IInv, Finish, periodicVars, PeriodicTypeOK
  <2> QED BY Zenon, <1>1, <1>2, <2>1, <2>2 DEF IInv, ClaimedOnce
<1>4. CASE ~consumed
  <2>1. PeriodicTypeOK' /\ consumed'
    BY Zenon, <1>4, CloseMoves DEF IInv, Finish
  <2>2. /\ setpc' \in [Starters -> {"idle", "lock", "starting", "finish", "fire", "returned"}]
        /\ setpc'[s] = "fire" /\ setpc[s] = "finish"
        /\ \A k \in Starters : k # s => setpc'[k] = setpc[k]
    BY Zenon, <1>4 DEF IInv, Finish, Set, SetShape
  <2>3. SetShape'
    BY <2>2 DEF IInv, Finish, SetShape
  <2>4. firing' = firing \cup {s}
    BY <2>2 DEF firing
  <2>5. ClaimedOnce'
    BY Zenon, <1>1, <1>4, <2>1, <2>4 DEF IInv, ClaimedOnce
  <2> QED BY Zenon, <1>1, <1>2, <2>1, <2>3, <2>5 DEF IInv
<1> QED BY Zenon, <1>3, <1>4

\* finish calls onTimeout.
LEMMA FinishFiresStep == ASSUME IInv, NEW s \in Starters, FinishFires(s) PROVE IInv'
<1>1. PeriodicTypeOK' /\ TaskShape' /\ TaskIsSet' /\ FreshIsSeen' /\ ticking' = ticking
  BY Zenon DEF IInv, FinishFires, periodicVars, PeriodicTypeOK, TaskShape, TaskIsSet, FreshIsSeen,
     ticking
<1>2. CountShape'
  BY DEF IInv, FinishFires, CountShape
<1>3. /\ setpc' \in [Starters -> {"idle", "lock", "starting", "finish", "fire", "returned"}]
      /\ setpc'[s] = "returned" /\ setpc[s] = "fire"
      /\ \A k \in Starters : k # s => setpc'[k] = setpc[k]
  BY Zenon DEF IInv, FinishFires, Set, SetShape
<1>4. SetShape'
  BY <1>3 DEF IInv, FinishFires, SetShape
<1>5. s \in firing /\ firing' = firing \ {s}
  BY <1>3 DEF firing
<1>6. consumed /\ fired = 0 /\ ticking = {} /\ firing = {s}
  BY Zenon, <1>5 DEF IInv, ClaimedOnce
<1>7. ClaimedOnce'
  <2>1. fired' = 1 /\ consumed'
    BY <1>6 DEF FinishFires
  <2>2. firing' = {}
    BY Zenon, <1>5, <1>6
  <2> QED BY Zenon, <1>1, <1>6, <2>1, <2>2 DEF ClaimedOnce
<1> QED BY Zenon, <1>1, <1>2, <1>4, <1>7 DEF IInv

\* SetTimeout takes the mutex and replaces the task.
LEMMA ReplaceStep == ASSUME IInv, NEW s \in Starters, NEW p \in Tasks, Replace(s, p) PROVE IInv'
<1>1. PeriodicTypeOK'
  BY Zenon, CloseMoves DEF IInv, Replace
<1>2. /\ setpc' \in [Starters -> {"idle", "lock", "starting", "finish", "fire", "returned"}]
      /\ setpc'[s] = "starting" /\ setpc[s] = "lock" /\ mu = NoOwner /\ mu' = s
      /\ \A k \in Starters : k # s => setpc'[k] = setpc[k]
  BY Zenon DEF IInv, Replace, Set, SetShape
<1>3. SetShape'
  BY <1>2, TimerAssumption DEF IInv, SetShape
<1>4. firing' = firing
  BY <1>2 DEF firing
<1>5. TaskShape' /\ CountShape' /\ TaskIsSet' /\ FreshIsSeen' /\ ClaimedOnce'
  BY Zenon, <1>4 DEF IInv, Replace, TaskShape, CountShape, TaskIsSet, FreshIsSeen, ClaimedOnce,
     ticking
<1> QED BY Zenon, <1>1, <1>3, <1>5 DEF IInv

\* The task is started.
LEMMA StartTaskStep == ASSUME IInv, NEW s \in Starters, StartTask(s) PROVE IInv'
<1>1. checkTask \in Tasks /\ s \in Exec
  BY Zenon, TimerAssumption DEF IInv, StartTask, SetShape, TaskIsSet, Exec
<1> QED BY Zenon, <1>1, OneMoves, TaskMoves DEF IInv, StartTask

\* SetTimeout gives the mutex back.
LEMMA UnlockStep == ASSUME IInv, NEW s \in Starters, Unlock(s) PROVE IInv'
<1>1. checkTask \in Tasks /\ s \in Exec
  BY Zenon, TimerAssumption DEF IInv, Unlock, SetShape, TaskIsSet, Exec
<1>2. PeriodicTypeOK'
  BY Zenon, <1>1, OneMoves DEF IInv, Unlock
<1>3. /\ setpc' \in [Starters -> {"idle", "lock", "starting", "finish", "fire", "returned"}]
      /\ setpc'[s] = "returned" /\ setpc[s] = "starting" /\ mu = s /\ mu' = NoOwner
      /\ \A k \in Starters : k # s => setpc'[k] = setpc[k]
  BY Zenon DEF IInv, Unlock, Set, SetShape
<1>4. SetShape'
  BY <1>3, TimerAssumption DEF IInv, SetShape
<1>5. firing' = firing
  BY <1>3 DEF firing
<1>6. TaskShape' /\ CountShape' /\ TaskIsSet' /\ FreshIsSeen' /\ ClaimedOnce'
  BY Zenon, <1>3, <1>5 DEF IInv, Unlock, TaskShape, CountShape, TaskIsSet, FreshIsSeen,
     ClaimedOnce, ticking
<1> QED BY Zenon, <1>2, <1>4, <1>6 DEF IInv

\* The first call of Execute.
LEMMA PrimeStep == ASSUME IInv, NEW p \in Tasks, NEW g \in Exec, Prime(p, g) PROVE IInv'
<1>1. PeriodicTypeOK'
  BY Zenon, OneMoves DEF IInv, Prime
<1> QED BY Zenon, <1>1 DEF IInv, Prime, SetShape, TaskShape, CountShape, TaskIsSet, ClaimedOnce,
   ticking, firing, FreshIsSeen

\* A tick counts the activity: it is one of the current task.
LEMMA TickActiveStep == ASSUME IInv, NEW p \in Tasks, NEW g \in Exec, TickActive(p, g) PROVE IInv'
<1>1. PeriodicTypeOK'
  BY Zenon, OneMoves DEF IInv, TickActive
<1>2. p = checkTask /\ fresh' = FALSE /\ updated' = FALSE
  BY Zenon DEF TickActive, retired, tokenTaken
<1> QED BY Zenon, <1>1, <1>2 DEF IInv, TickActive, SetShape, TaskShape, CountShape, TaskIsSet,
   ClaimedOnce, ticking, firing, FreshIsSeen

\* A tick expires the timer and claims onTimeout.
LEMMA TickExpiresStep ==
    ASSUME IInv, NEW p \in Tasks, NEW g \in Exec, TickExpires(p, g)
    PROVE  IInv'
<1>1. PeriodicTypeOK'
  BY Zenon, CloseMoves DEF IInv, TickExpires
<1>2. ~consumed /\ consumed' = TRUE /\ fired' = fired
  BY Zenon DEF TickExpires, retired, consumedNow
<1>3. /\ ticker' \in [Tasks -> SUBSET Exec] /\ ticker'[p] = ticker[p] \cup {g}
      /\ \A q \in Tasks : q # p => ticker'[q] = ticker[q]
  BY Zenon DEF IInv, TickExpires, TaskShape
<1>4. SetShape' /\ TaskShape' /\ TaskIsSet' /\ FreshIsSeen' /\ firing' = firing
  BY Zenon, <1>3 DEF IInv, TickExpires, SetShape, TaskShape, TaskIsSet, FreshIsSeen, firing
<1>5. CountShape'
  BY Zenon, <1>2 DEF IInv, TickExpires, CountShape
<1>6. ticking' = ticking \cup {<<p, g>>}
  BY <1>3 DEF ticking
<1>7. ClaimedOnce'
  BY Zenon, <1>2, <1>4, <1>6 DEF IInv, ClaimedOnce
<1> QED BY Zenon, <1>1, <1>4, <1>5, <1>7 DEF IInv

\* The tick that claimed it calls onTimeout.
LEMMA TickFiresStep == ASSUME IInv, NEW p \in Tasks, NEW g \in Exec, TickFires(p, g) PROVE IInv'
<1>1. PeriodicTypeOK'
  BY Zenon, OneMoves DEF IInv, TickFires
<1>2. /\ ticker' \in [Tasks -> SUBSET Exec] /\ ticker'[p] = ticker[p] \ {g} /\ g \in ticker[p]
      /\ \A q \in Tasks : q # p => ticker'[q] = ticker[q]
  BY Zenon DEF IInv, TickFires, TaskShape
<1>3. SetShape' /\ TaskShape' /\ TaskIsSet' /\ FreshIsSeen' /\ firing' = firing
  BY Zenon, <1>2 DEF IInv, TickFires, SetShape, TaskShape, TaskIsSet, FreshIsSeen, firing
<1>4. CountShape'
  BY DEF IInv, TickFires, CountShape
<1>5. <<p, g>> \in ticking /\ ticking' = ticking \ {<<p, g>>}
  BY <1>2 DEF ticking
<1>6. consumed /\ fired = 0 /\ ticking = {<<p, g>>} /\ firing = {}
  BY Zenon, <1>5 DEF IInv, ClaimedOnce
<1>7. ClaimedOnce'
  <2>1. fired' = 1 /\ consumed'
    BY <1>6 DEF TickFires
  <2>2. ticking' = {}
    BY Zenon, <1>5, <1>6
  <2> QED BY Zenon, <1>3, <1>6, <2>1, <2>2 DEF ClaimedOnce
<1> QED BY Zenon, <1>1, <1>3, <1>4, <1>7 DEF IInv

\* The invariant holds in every reachable state.
LEMMA TimerInvariant == TimerSpec => []IInv
<1>1. TimerInit => IInv
  <2> SUFFICES ASSUME TimerInit PROVE IInv
    OBVIOUS
  <2>1. PeriodicTypeOK
    BY Zenon DEF TimerInit, PeriodicInit, PeriodicTypeOK, Stages
  <2>2. CountShape
    <3>1. fired \in Nat /\ updates \in 0 .. MaxUpdates
      BY TimerAssumption DEF TimerInit
    <3> QED BY Zenon, <3>1 DEF TimerInit, CountShape
  <2>3. ticking = {} /\ firing = {}
    BY DEF TimerInit, ticking, firing
  <2> QED BY Zenon, <2>1, <2>2, <2>3, TimerAssumption DEF TimerInit, IInv, SetShape, TaskShape,
     TaskIsSet, ClaimedOnce, FreshIsSeen
<1>2. IInv /\ [TimerNext]_allTimerVars => IInv'
  <2> SUFFICES ASSUME IInv, [TimerNext]_allTimerVars PROVE IInv'
    OBVIOUS
  <2>1. CASE Update BY Zenon, <2>1, UpdateStep
  <2>2. ASSUME NEW s \in Starters, SetTimeout(s) \/ SetterStep(s) PROVE IInv'
    BY Zenon, <2>2, SetTimeoutStep, FinishStep, FinishFiresStep, LockConsumedStep, StartTaskStep,
       UnlockStep, ReplaceStep DEF SetterStep
  <2>3. ASSUME NEW p \in Tasks, NEW g \in Exec, TaskStep(p, g) PROVE IInv'
    <3>1. CASE (Check(p, g) \/ Arm(p, g)) /\ UNCHANGED timerVars
      BY Zenon, <3>1, OneMoves, ArmMoves, TaskMoves DEF IInv
    <3>2. CASE TickRetired(p, g)
      BY Zenon, <3>2, OneMoves, TaskMoves DEF IInv, TickRetired
    <3> QED BY Zenon, <2>3, <3>1, <3>2, PrimeStep, TickActiveStep, TickExpiresStep, TickFiresStep
        DEF TaskStep
  <2>4. ASSUME NEW p \in Tasks, NEW t \in Timers, Tick(p, t) PROVE IInv'
    BY Zenon, <2>4, OneMoves, TaskMoves DEF IInv, Tick, Exec
  <2>5. CASE UNCHANGED allTimerVars
    BY Zenon, <2>5, TaskMoves DEF allTimerVars, timerVars, IInv, PeriodicTypeOK
  <2> QED BY Zenon, <2>1, <2>2, <2>3, <2>4, <2>5 DEF TimerNext
<1> QED BY <1>1, <1>2, PTL DEF TimerSpec

\* onTimeout of an ActivityTimer is called at most once, however SetTimeout calls,
\* their zero timeouts, Update and the ticks of current and retired tasks interleave.
THEOREM TimerFiresOnce == TimerSpec => []FiresOnce
<1>1. IInv => FiresOnce
  <2> SUFFICES ASSUME IInv PROVE FiresOnce
    OBVIOUS
  <2>1. TimerTypeOK
    BY Zenon DEF IInv, TimerTypeOK, SetShape, TaskShape, CountShape
  <2>2. fired + Cardinality(ticking) + Cardinality(firing) <= 1
    <3>1. Cardinality({}) = 0 /\ \A c : Cardinality({c}) = 1
      BY Zenon, FS_EmptySet, FS_Singleton
    <3>2. \/ fired \in {0, 1} /\ Cardinality(ticking) = 0 /\ Cardinality(firing) = 0
          \/ fired = 0 /\ Cardinality(ticking) = 1 /\ Cardinality(firing) = 0
          \/ fired = 0 /\ Cardinality(ticking) = 0 /\ Cardinality(firing) = 1
      BY Zenon, <3>1 DEF IInv, ClaimedOnce
    <3> QED BY <3>2
  <2> QED BY Zenon, <2>1, <2>2 DEF FiresOnce, ticking, firing
<1> QED BY TimerInvariant, <1>1, PTL

\* A tick that expires the timer has not overlooked an Update: the ticks of the
\* tasks that SetTimeout replaced do not take the activity of the current one.
THEOREM TimerActivityCounts == TimerSpec => ActivityCounts
<1>1. IInv /\ [TimerNext]_allTimerVars => [expiredBy' # expiredBy => ~fresh]_allTimerVars
  <2> SUFFICES ASSUME IInv, TimerNext, expiredBy' # expiredBy PROVE ~fresh
    BY Zenon DEF allTimerVars
  <2>1. \E p \in Tasks, g \in Exec : TickExpires(p, g)
    <3>1. ~Update
      BY Zenon DEF Update
    <3>2. ASSUME NEW s \in Starters PROVE ~(SetTimeout(s) \/ SetterStep(s))
      BY Zenon DEF SetTimeout, SetterStep, Finish, FinishFires, LockConsumed, StartTask, Unlock,
         Replace, timerVars
    <3>3. ASSUME NEW p \in Tasks, NEW t \in Timers PROVE ~Tick(p, t)
      BY Zenon DEF Tick, timerVars
    <3>4. ASSUME NEW p \in Tasks, NEW g \in Exec, TaskStep(p, g) PROVE TickExpires(p, g)
      BY Zenon, <3>4 DEF TaskStep, Prime, TickRetired, TickActive, TickFires, timerVars
    <3> QED BY Zenon, <3>1, <3>2, <3>3, <3>4 DEF TimerNext
  <2> QED BY Zenon, <2>1 DEF TickExpires, IInv, FreshIsSeen
<1> QED BY TimerInvariant, <1>1, PTL DEF TimerSpec, ActivityCounts
=============================================================================
