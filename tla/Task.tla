-------------------------------- MODULE Task --------------------------------
(***************************************************************************)
(* common/task/task.go: the periodic task every controller job runs on.    *)
(*                                                                         *)
(* A Task is a flag (running), a mutex (access) and a pointer to the timer *)
(* that will run it next.  Its goroutines are the callers of Start and     *)
(* Close and one goroutine per timer that has fired.  Each lock..unlock    *)
(* section of the code is one action, except the one of checkedExecute,    *)
(* which keeps the mutex while it calls Execute.                           *)
(***************************************************************************)
EXTENDS Naturals, FiniteSets

CONSTANTS
    Callers,      \* goroutines that call Start and Close
    Timers,       \* timer objects, each with the goroutine it starts on firing
    NoTimer,      \* the nil timer pointer
    NoOne,        \* nobody holds the mutex
    MaxStarts,    \* bound on the calls of Start
    Reentrant     \* whether Execute may close its own task, as nodeInfoMonitor does

ASSUME TaskAssumption ==
    /\ Callers \cap Timers = {}
    /\ NoTimer \notin Timers
    /\ NoOne \notin Callers \cup Timers
    /\ MaxStarts \in Nat
    /\ Reentrant \in BOOLEAN

VARIABLES
    running,      \* Task.running
    timer,        \* Task.timer
    access,       \* the goroutine that holds Task.access, or NoOne
    pc,           \* what each caller, and each timer or its goroutine, is at
    first,        \* the argument each goroutine runs checkedExecute with
    starts        \* the calls of Start so far

vars == <<running, timer, access, pc, first, starts>>

Goroutines == Callers \cup Timers

\* A caller that is in no call, and a timer object nobody has created.
CallerRest == "idle"
TimerRest  == "unused"

\* The steps of checkedExecute; "closing" is an Execute blocked in Close.
InChecked == {"hasClosed", "lock", "execute", "closing", "arm"}
Holding   == {"execute", "closing", "arm"}

Rest(g) == IF g \in Callers THEN CallerRest ELSE TimerRest

Armed == {i \in Timers : pc[i] = "armed"}

\* The goroutines that are in Execute.
Executing == {g \in Goroutines : pc[g] \in {"execute", "closing"}}

\* An Execute is blocked in the Close of its own task.
ClosesItself == \E g \in Goroutines : pc[g] = "closing"

\* The chains: what will run Execute again, or is about to arm what will.
Chains == Armed \cup {g \in Goroutines : pc[g] \in InChecked}

-----------------------------------------------------------------------------
Init ==
    /\ running = FALSE
    /\ timer = NoTimer
    /\ access = NoOne
    /\ pc = [g \in Goroutines |-> Rest(g)]
    /\ first = [g \in Goroutines |-> TRUE]
    /\ starts = 0

Goto(g, label) == pc' = [pc EXCEPT ![g] = label]

-----------------------------------------------------------------------------
\* Start

\* A caller enters Start(f).
CallStart(c, f) ==
    /\ pc[c] = "idle"
    /\ starts < MaxStarts
    /\ starts' = starts + 1
    /\ first' = [first EXCEPT ![c] = f]
    /\ Goto(c, "start")
    /\ UNCHANGED <<running, timer, access>>

\* The first locked section: nothing to do when the task runs already.
Start(c) ==
    /\ pc[c] = "start"
    /\ access = NoOne
    /\ running' = TRUE
    /\ Goto(c, IF running THEN "idle" ELSE "hasClosed")
    /\ UNCHANGED <<timer, access, first, starts>>

\* checkedExecute has failed: Start clears running once more, under a lock
\* it takes after checkedExecute released its own.
StartFailed(c) ==
    /\ pc[c] = "startFailed"
    /\ access = NoOne
    /\ running' = FALSE
    /\ Goto(c, "idle")
    /\ UNCHANGED <<timer, access, first, starts>>

-----------------------------------------------------------------------------
\* checkedExecute

\* hasClosed reads running under a lock of its own and gives it back.
HasClosed(g) ==
    /\ pc[g] = "hasClosed"
    /\ access = NoOne
    /\ Goto(g, IF running THEN "lock" ELSE Rest(g))
    /\ UNCHANGED <<running, timer, access, first, starts>>

\* Fault: Execute is called after the mutex was given back.
Lock_Released(g) ==
    /\ pc[g] = "lock"
    /\ access = NoOne
    /\ Goto(g, IF first[g] THEN "execute" ELSE "arm")
    /\ UNCHANGED <<running, timer, access, first, starts>>

\* The second lock is taken whatever happened since hasClosed.
Lock(g) ==
    /\ pc[g] = "lock"
    /\ access = NoOne
    /\ access' = g
    /\ Goto(g, IF first[g] THEN "execute" ELSE "arm")
    /\ UNCHANGED <<running, timer, first, starts>>

ExecuteOk(g) ==
    /\ pc[g] = "execute"
    /\ Goto(g, "arm")
    /\ UNCHANGED <<running, timer, access, first, starts>>

\* Fault: the error is returned with running left set.
ExecuteFails_StillRunning(g) ==
    /\ pc[g] = "execute"
    /\ access' = NoOne
    /\ Goto(g, IF g \in Callers THEN "startFailed" ELSE TimerRest)
    /\ UNCHANGED <<running, timer, first, starts>>

\* Fault: the error is returned without unlocking.
ExecuteFails_KeepsLock(g) ==
    /\ pc[g] = "execute"
    /\ running' = FALSE
    /\ Goto(g, IF g \in Callers THEN "startFailed" ELSE TimerRest)
    /\ UNCHANGED <<timer, access, first, starts>>

ExecuteFails(g) ==
    /\ pc[g] = "execute"
    /\ running' = FALSE
    /\ access' = NoOne
    /\ Goto(g, IF g \in Callers THEN "startFailed" ELSE TimerRest)
    /\ UNCHANGED <<timer, first, starts>>

\* Execute calls Close on its own task.  Close waits for the mutex that
\* checkedExecute holds around Execute, so there is no step out of "closing".
ExecuteCloses(g) ==
    /\ Reentrant
    /\ pc[g] = "execute"
    /\ Goto(g, "closing")
    /\ UNCHANGED <<running, timer, access, first, starts>>

\* Fault: the new timer is not stored in t.timer.
Arm_NotStored(g) ==
    /\ pc[g] = "arm"
    /\ access' = NoOne
    /\ IF running
         THEN \E i \in {j \in Timers : pc[j] = TimerRest} :
                pc' = [pc EXCEPT ![g] = Rest(g), ![i] = "armed"]
         ELSE Goto(g, Rest(g))
    /\ UNCHANGED <<running, timer, first, starts>>

\* Fault: the goroutine arms a timer and loops as well.
Arm_Loops(g) ==
    /\ pc[g] = "arm"
    /\ access' = NoOne
    /\ IF running
         THEN \E i \in {j \in Timers : pc[j] = TimerRest /\ j # timer} :
                /\ timer' = i
                /\ pc' = [pc EXCEPT ![g] = "hasClosed", ![i] = "armed"]
         ELSE Goto(g, Rest(g)) /\ UNCHANGED timer
    /\ UNCHANGED <<running, first, starts>>

\* The end of checkedExecute: unless the task was closed, a new timer.
Arm(g) ==
    /\ pc[g] = "arm"
    /\ access' = NoOne
    /\ IF running
         THEN \E i \in Timers :
                /\ pc[i] = TimerRest
                /\ i # timer
                /\ timer' = i
                /\ pc' = [pc EXCEPT ![g] = Rest(g), ![i] = "armed"]
                /\ first' = [first EXCEPT ![i] = TRUE]
         ELSE /\ Goto(g, Rest(g))
              /\ UNCHANGED <<timer, first>>
    /\ UNCHANGED <<running, starts>>

\* An armed timer fires: its goroutine calls checkedExecute(true).
Fire(i) ==
    /\ pc[i] = "armed"
    /\ Goto(i, "hasClosed")
    /\ UNCHANGED <<running, timer, access, first, starts>>

-----------------------------------------------------------------------------
\* Close

CallClose(c) ==
    /\ pc[c] = "idle"
    /\ Goto(c, "close")
    /\ UNCHANGED <<running, timer, access, first, starts>>

\* Fault: the timer is stopped and running left set.
Close_StillRunning(c) ==
    /\ pc[c] = "close"
    /\ access = NoOne
    /\ timer' = NoTimer
    /\ pc' = [g \in Goroutines |->
                IF g = c THEN "idle"
                ELSE IF g = timer /\ pc[g] = "armed" THEN TimerRest
                ELSE pc[g]]
    /\ UNCHANGED <<running, access, first, starts>>

\* Close stops the timer t.timer points to; Stop does nothing when it has
\* fired already.
Close(c) ==
    /\ pc[c] = "close"
    /\ access = NoOne
    /\ running' = FALSE
    /\ timer' = NoTimer
    /\ pc' = [g \in Goroutines |->
                IF g = c THEN "idle"
                ELSE IF g = timer /\ pc[g] = "armed" THEN TimerRest
                ELSE pc[g]]
    /\ UNCHANGED <<access, first, starts>>

-----------------------------------------------------------------------------
CheckedExecute(g) ==
    \/ HasClosed(g)
    \/ Lock(g)
    \/ ExecuteOk(g)
    \/ ExecuteFails(g)
    \/ ExecuteCloses(g)
    \/ Arm(g)

Call(c) ==
    \/ \E f \in BOOLEAN : CallStart(c, f)
    \/ Start(c)
    \/ StartFailed(c)
    \/ CallClose(c)
    \/ Close(c)

Next ==
    \/ \E c \in Callers : Call(c)
    \/ \E g \in Goroutines : CheckedExecute(g)
    \/ \E i \in Timers : Fire(i)

Spec == Init /\ [][Next]_vars

(***************************************************************************)
(* Fairness.  A timer fires, and a goroutine that can run is run; Execute  *)
(* returns, since its requests have timeouts.  A goroutine that waits for  *)
(* the mutex gets it although others keep taking it: sync.Mutex hands      *)
(* itself to a waiter that has waited for a millisecond, hence strong      *)
(* fairness.  Nobody has to call Start or Close.                           *)
(***************************************************************************)
Fairness ==
    /\ \A c \in Callers :
         SF_vars(Start(c) \/ StartFailed(c) \/ Close(c) \/ CheckedExecute(c))
    /\ \A i \in Timers : SF_vars(Fire(i) \/ CheckedExecute(i))

FairSpec == Spec /\ Fairness

-----------------------------------------------------------------------------
\* Properties

TypeOK ==
    /\ running \in BOOLEAN
    /\ timer \in Timers \cup {NoTimer}
    /\ access \in Goroutines \cup {NoOne}
    /\ pc \in [Goroutines -> {"idle", "start", "startFailed", "close", "unused", "armed"}
                             \cup InChecked]
    /\ \A c \in Callers : pc[c] \notin {"unused", "armed"}
    /\ \A i \in Timers : pc[i] \notin {"idle", "start", "startFailed", "close"}
    /\ first \in [Goroutines -> BOOLEAN]
    /\ starts \in 0..MaxStarts

\* Two runs of Execute never overlap, even when Close and Start have left two
\* timer chains behind: the controller's jobs use their state without a lock
\* of their own and rely on it (checkedExecute keeps the mutex).
MutualExclusion == \A g, h \in Executing : g = h

\* Every chain comes from a Start of its own: Execute is called once per
\* Interval for every Start that got through, never by more timers in turn.
OneChainPerStart == Cardinality(Chains) <= starts

\* The armed timer of a task started once is the one Close would stop.
StoppableTimers == starts <= 1 => \A i \in Armed : i = timer

\* A task that is running has something left that will run it again; running
\* never stays set with no timer armed and no goroutine on its way.
RunningHasChain == running => Chains # {}

\* While the task is closed no timer is armed, although a goroutine may have
\* passed hasClosed before Close and go on to run Execute once more.
NoArmWhileClosed == [][~running => Armed' \subseteq Armed]_vars

\* A running task comes to run Execute again, unless it is closed or fails.
KeepsExecuting == running ~> (Executing # {} \/ ~running)

\* Execute comes to an end, so the task runs again.
ExecuteEnds == \A g \in Goroutines : g \in Executing ~> g \notin Executing

\* Close returns, however often the chain takes the mutex, unless an Execute
\* that closes its own task keeps the mutex for good.
CloseReturns ==
    \A c \in Callers : pc[c] = "close" ~> (pc[c] = "idle" \/ ClosesItself)

\* Once a task stays closed, its goroutines and timers come to an end, with
\* the same exception.
Quiesces == <>[]~running => <>[](Chains = {} \/ ClosesItself)
=============================================================================
