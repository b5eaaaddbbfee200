------------------------------ MODULE Periodic ------------------------------
(***************************************************************************)
(* common/task: Periodic, a task that runs again and again on a timer.     *)
(*                                                                         *)
(* The module defines the steps of Start, Close and checkedExecute; the    *)
(* modules that extend it supply Execute, between Executing and Executed,  *)
(* and say who calls Start and Close.  A goroutine runs checkedExecute     *)
(* either inside Start or because a timer fired.                           *)
(***************************************************************************)
EXTENDS Integers, FiniteSets

CONSTANTS
    Tasks,      \* Periodic objects
    Starters,   \* goroutines that may call Start
    Timers,     \* bound: time.AfterFunc timers of one object alive at a time
    NoTimer     \* the nil *time.Timer

ASSUME PeriodicAssumption ==
    /\ Timers \cap Starters = {}
    /\ NoTimer \notin Timers \cup Starters

VARIABLES
    running,    \* per task: Periodic.running
    timer,      \* per task: Periodic.timer, which may point to a fired timer
    ppc         \* per task and goroutine: the stage of checkedExecute

periodicVars == <<running, timer, ppc>>

Exec == Starters \cup Timers
Stages == {"idle", "armed", "check", "execute", "arm", "fail", "startFail",
           "nil", "err"}

PeriodicTypeOK ==
    /\ running \in [Tasks -> BOOLEAN]
    /\ timer \in [Tasks -> Timers \cup {NoTimer}]
    /\ ppc \in [Tasks -> [Exec -> Stages]]

PeriodicInit ==
    /\ running = [p \in Tasks |-> FALSE]
    /\ timer = [p \in Tasks |-> NoTimer]
    /\ ppc = [p \in Tasks |-> [g \in Exec |-> "idle"]]

To(p, g, l) == ppc' = [ppc EXCEPT ![p][g] = l]

\* A call of checkedExecute ends: Start has a result to return, a timer's
\* goroutine is gone.
Ended(g, result) == IF g \in Starters THEN result ELSE "idle"

\* Start: nothing to do for a running task.
Start(p, g) ==
    /\ ppc[p][g] = "idle"
    /\ running' = [running EXCEPT ![p] = TRUE]
    /\ To(p, g, IF running[p] THEN "nil" ELSE "check")
    /\ UNCHANGED timer

\* hasClosed.
Check(p, g) ==
    /\ ppc[p][g] = "check"
    /\ To(p, g, IF running[p] THEN "execute" ELSE Ended(g, "nil"))
    /\ UNCHANGED <<running, timer>>

\* t.Execute is running, and returns.
Executing(p, g) == ppc[p][g] = "execute"

Executed(p, g, err) ==
    /\ To(p, g, IF err THEN "fail" ELSE "arm")
    /\ UNCHANGED <<running, timer>>

\* Execute failed: checkedExecute stops the task, and so does Start again.
Fail(p, g) ==
    /\ ppc[p][g] \in {"fail", "startFail"}
    /\ running' = [running EXCEPT ![p] = FALSE]
    /\ To(p, g, IF ppc[p][g] = "fail" /\ g \in Starters THEN "startFail"
                                                       ELSE Ended(g, "err"))
    /\ UNCHANGED timer

\* The next tick, unless the task was closed during Execute.
Arm(p, g) ==
    /\ ppc[p][g] = "arm"
    /\ IF running[p]
       THEN \E t \in Timers \ {timer[p]} :
               /\ ppc[p][t] = "idle"
               /\ ppc' = [ppc EXCEPT ![p][t] = "armed", ![p][g] = Ended(g, "nil")]
               /\ timer' = [timer EXCEPT ![p] = t]
       ELSE To(p, g, Ended(g, "nil")) /\ UNCHANGED timer
    /\ UNCHANGED running

\* The timer fires and its goroutine calls checkedExecute.
Fire(p, t) ==
    /\ ppc[p][t] = "armed"
    /\ To(p, t, "check")
    /\ UNCHANGED <<running, timer>>

\* The timers after timer.Stop: an armed one will not fire, a fired one runs on.
stopped(p) ==
    [g \in Exec |-> IF g = timer[p] /\ ppc[p][g] = "armed" THEN "idle" ELSE ppc[p][g]]

\* Close, on a set of tasks (a caller closes none or one).
Close(closing) ==
    /\ running' = [p \in Tasks |-> running[p] /\ p \notin closing]
    /\ ppc' = [p \in Tasks |-> IF p \in closing THEN stopped(p) ELSE ppc[p]]
    /\ timer' = [p \in Tasks |-> IF p \in closing THEN NoTimer ELSE timer[p]]

\* The caller of Start goes on.
Return(p, g) ==
    /\ ppc[p][g] \in {"nil", "err"}
    /\ To(p, g, "idle")
    /\ UNCHANGED <<running, timer>>

=============================================================================
