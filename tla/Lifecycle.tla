------------------------------ MODULE Lifecycle ------------------------------
(***************************************************************************)
(* The ordered service lifecycle of lifecycle.go and the cancelWithCause   *)
(* helper of run.go: Start, Drain, Go, Shutdown and the goroutines that    *)
(* they launch.  A step of the model is one critical section of            *)
(* Service.mu, one return of a caller supplied callback, or one receive of *)
(* a waiter, so that the steps of all goroutines interleave wherever the   *)
(* code has released the lock.                                             *)
(*                                                                         *)
(* Every API call is a process of its own: a member of Starters calls      *)
(* Start once, of Stoppers Shutdown, of Drainers Drain, of Cancelers       *)
(* cancelWithCause, and of Tasks Go (the process is then the supervised    *)
(* goroutine).  A goroutine running stopComponents is named after the      *)
(* process that launched it.                                               *)
(***************************************************************************)
EXTENDS Integers, Sequences, FiniteSets

CONSTANTS
    N,                 \* number of components, in registration order 1..N
    HasAdmission,      \* the components whose CloseAdmission is not nil
    HasStart,          \* the components whose Start is not nil
    HasStop,           \* the components whose Stop is not nil
    MaxTasks,          \* Config.MaxTasks
    Starters, Stoppers, Drainers, Cancelers, Tasks,
    EarlyCallers,      \* the callers that may call before a Start returned
    None               \* no cancellation cause, no context

Process == Starters \cup Stoppers \cup Drainers \cup Cancelers \cup Tasks

ASSUME SizeAssumption ==
    /\ N \in Nat
    /\ HasAdmission \subseteq 1..N /\ HasStart \subseteq 1..N /\ HasStop \subseteq 1..N
    /\ MaxTasks \in Nat \ {0}
    /\ IsFiniteSet(Tasks)

ASSUME ProcessAssumption ==
    /\ Starters \cap (Stoppers \cup Drainers \cup Cancelers \cup Tasks) = {}
    /\ Stoppers \cap (Drainers \cup Cancelers \cup Tasks) = {}
    /\ Drainers \cap (Cancelers \cup Tasks) = {}
    /\ Cancelers \cap Tasks = {}
    /\ None \notin Process \cup {"parent", "shutdown", "startup"}

VARIABLES
    state, startedFully, started, startDone, startupExpired,
    cause,             \* context.Cause(service.ctx)
    drainStarted, drainDone, drainErrors,
    taskCount, taskErrors,
    stopsStarted, stopsDone, stopContext, stopErrors,
    shutdownDone, shutdownErr,
    pc,                \* where each process is in its call
    index, failures,   \* the locals of closeAdmission, per calling process
    coord,             \* stopComponents goroutines, by launching process
    result             \* what each call returned

startVars == <<startedFully, started, startDone, startupExpired>>
drainVars == <<drainStarted, drainDone, drainErrors, index, failures>>
taskVars == <<taskCount, taskErrors>>
stopVars == <<stopsStarted, stopsDone, stopContext, stopErrors, coord>>
doneVars == <<shutdownDone, shutdownErr>>
vars == <<state, startVars, cause, drainVars, taskVars, stopVars, doneVars, pc, result>>

State == {"new", "starting", "ready", "draining", "stopping", "stopped"}
Channel == {"nil", "open", "closed"}
Cause == {"parent", "shutdown", "startup"} \cup Cancelers \cup Tasks

\* Component 0 stands for the service itself, as in ComponentError{"service"}.
Failure == [component : (0..N) \cup Tasks,
            operation : {"closeAdmission", "stop", "rollback", "run"}]
Failures == Seq(Failure)

PC == {"idle", "starting", "failing", "cancel", "rollback", "running",
       "sample", "drain", "admission", "closing", "awaitDrain", "locking",
       "awaitStart", "awaitStop", "exiting", "done"}

Kind == {"pending", "ok", "state", "config", "startup", "drained", "terminal", "timeout"}
Result == [kind : Kind, failures : Failures]

Coordinator == [op : {"idle", "stop", "rollback", "done"},
                index : 0..N, failures : Failures]

ServiceType ==
    /\ state \in State
    /\ startedFully \in BOOLEAN /\ started \in 0..N
    /\ startDone \in Channel /\ startupExpired \in BOOLEAN
    /\ cause \in Cause \cup {None}
    /\ drainStarted \in BOOLEAN /\ drainDone \in Channel
    /\ taskCount \in Int
    /\ stopsStarted \in BOOLEAN /\ stopsDone \in BOOLEAN
    /\ stopContext \in Stoppers \cup {None}
    /\ shutdownDone \in Channel

ErrorType ==
    /\ drainErrors \in Failures /\ taskErrors \in Failures
    /\ stopErrors \in Failures /\ shutdownErr \in Failures

CallType ==
    /\ pc \in [Process -> PC]
    /\ result \in [Process -> Result]

LocalType ==
    /\ index \in [Process -> 0..N]
    /\ failures \in [Process -> Failures]
    /\ coord \in [Process -> Coordinator]

TypeOK == ServiceType /\ ErrorType /\ CallType /\ LocalType

Init ==
    /\ state = "new" /\ startedFully = FALSE /\ started = 0
    /\ startDone = "nil" /\ startupExpired = FALSE /\ cause = None
    /\ drainStarted = FALSE /\ drainDone = "nil" /\ drainErrors = <<>>
    /\ taskCount = 0 /\ taskErrors = <<>>
    /\ stopsStarted = FALSE /\ stopsDone = FALSE /\ stopContext = None
    /\ stopErrors = <<>> /\ shutdownDone = "nil" /\ shutdownErr = <<>>
    /\ pc = [p \in Process |-> "idle"]
    /\ index = [p \in Process |-> 0]
    /\ failures = [p \in Process |-> <<>>]
    /\ coord = [p \in Process |-> [op |-> "idle", index |-> 0, failures |-> <<>>]]
    /\ result = [p \in Process |-> [kind |-> "pending", failures |-> <<>>]]

-----------------------------------------------------------------------------
(* Control helpers *)

Goto(p, label) == pc' = [pc EXCEPT ![p] = label]

\* The call of p returns.
Return(p, kind, errs) ==
    /\ Goto(p, "done")
    /\ result' = [result EXCEPT ![p] = [kind |-> kind, failures |-> errs]]

\* p goes on to the next step of its call.
Continue(p, label) == Goto(p, label) /\ UNCHANGED result

\* A call made while Start is still running is one of an early caller.
MayCall(p) ==
    /\ pc[p] = "idle"
    /\ p \in EarlyCallers \/ startDone = "closed"

\* context.CancelCauseFunc: the first cause is kept.  Before Start the
\* cancel function is nil.  (startDone is made together with it.)
Cancel(c) == cause' = IF cause = None /\ startDone # "nil" THEN c ELSE cause

\* Mutant: the cleanup starts below the component that was started last.
StopBelowLast(p, op) ==
    coord' = [coord EXCEPT ![p] = [op |-> op, index |-> started - 1, failures |-> <<>>]]

\* go service.stopComponents(ctx, started, op), launched by p.
StopComponents(p, op) ==
    coord' = [coord EXCEPT ![p] = [op |-> op, index |-> started, failures |-> <<>>]]

-----------------------------------------------------------------------------
(* Start, and the rollback of a failed start *)

\* Mutant: a service that was drained can be started again.
Restartable == state \in {"new", "draining"}

\* Start takes a new service only.
Startable == state = "new"

\* The first critical section of Start.
Start(p) ==
    /\ pc[p] = "idle"
    /\ \/ /\ ~Startable
          /\ Return(p, "state", <<>>)
          /\ UNCHANGED <<state, startDone>>
       \/ /\ Startable
          /\ state' = "starting" /\ startDone' = "open"
          /\ Continue(p, "starting")
    /\ UNCHANGED <<startedFully, started, startupExpired, cause, drainVars, taskVars,
                   stopVars, doneVars>>

\* Mutant: only the startup deadline is examined.
StartupDeadlinePassed == startupExpired

\* context.Cause(startupContext) # nil: the service context ended, or the
\* startup deadline passed.
StartupCanceled == cause # None \/ startupExpired

\* One round of the loop of Start: the callback of the next component is nil
\* or succeeds, its ownership is recorded and the startup context examined,
\* or the callback fails.
StartComponent(p) ==
    /\ pc[p] = "starting" /\ started < N
    /\ \/ /\ started' = started + 1
          /\ Continue(p, IF StartupCanceled THEN "failing" ELSE "starting")
       \/ /\ started + 1 \in HasStart
          /\ Continue(p, "failing")
          /\ UNCHANGED started
    /\ UNCHANGED <<state, startedFully, startDone, startupExpired, cause, drainVars,
                   taskVars, stopVars, doneVars>>

\* The last critical section of Start.
BecomeReady(p) ==
    /\ pc[p] = "starting" /\ started = N
    /\ \/ /\ StartupCanceled
          /\ Continue(p, "failing")
          /\ UNCHANGED <<state, startedFully, startDone>>
       \/ /\ ~StartupCanceled
          /\ state' = "ready" /\ startedFully' = TRUE /\ startDone' = "closed"
          /\ Return(p, "ok", <<>>)
    /\ UNCHANGED <<started, startupExpired, cause, drainVars, taskVars, stopVars, doneVars>>

\* The startup deadline, which exists only when some component has a Start.
StartupTimeout ==
    /\ HasStart # {} /\ cause = None /\ ~startupExpired
    /\ \E p \in Starters : pc[p] = "starting"
    /\ startupExpired' = TRUE
    /\ UNCHANGED <<state, startedFully, started, startDone, cause, drainVars, taskVars,
                   stopVars, doneVars, pc, result>>

\* beginRollback up to its call of closeAdmission.
BeginRollback(p) ==
    /\ pc[p] = "failing"
    /\ state' = "stopping" /\ shutdownDone' = "open"
    /\ stopsStarted' = TRUE /\ stopsDone' = FALSE
    /\ index' = [index EXCEPT ![p] = started]
    /\ Continue(p, "admission")
    /\ UNCHANGED <<startVars, cause, drainStarted, drainDone, drainErrors, failures,
                   taskVars, stopContext, stopErrors, coord, shutdownErr>>

\* beginRollback after closeAdmission: cancel the service with the startup
\* error and launch the cleanup.  started has not changed since BeginRollback.
RollbackCancel(p) ==
    /\ p \in Starters /\ pc[p] = "cancel"
    /\ Cancel("startup")
    /\ StopComponents(p, "rollback")
    /\ Continue(p, "rollback")
    /\ UNCHANGED <<state, startVars, drainVars, taskVars, stopsStarted, stopsDone,
                   stopContext, stopErrors, doneVars>>

\* Mutant: the startDone channel stays open after a failed start.
JoinRollbackSilently(p) ==
    /\ pc[p] = "rollback" /\ coord[p].op = "done"
    /\ Return(p, "startup", drainErrors \o coord[p].failures)
    /\ UNCHANGED <<state, startVars, cause, drainVars, taskVars, stopVars, doneVars>>

\* The select of beginRollback receives the completed cleanup, and failStartup
\* closes startDone.
JoinRollback(p) ==
    /\ pc[p] = "rollback" /\ coord[p].op = "done"
    /\ Return(p, "startup", drainErrors \o coord[p].failures)
    /\ startDone' = "closed"
    /\ UNCHANGED <<state, startedFully, started, startupExpired, cause, drainVars, taskVars,
                   stopVars, doneVars>>

\* The rollback deadline ends the wait instead; the cleanup goes on.
RollbackTimeout(p) ==
    /\ pc[p] = "rollback"
    /\ Return(p, "startup", Append(drainErrors, [component |-> 0, operation |-> "rollback"]))
    /\ startDone' = "closed"
    /\ UNCHANGED <<state, startedFully, started, startupExpired, cause, drainVars, taskVars,
                   stopVars, doneVars>>

-----------------------------------------------------------------------------
(* Drain and the shared admission closure *)

\* Mutant: a failed task does not cancel the service after its drain.
AfterDrainExit(p) ==
    IF p \in Stoppers THEN "locking" ELSE IF p \in Tasks THEN "exiting" ELSE "cancel"

\* Where a call goes on once its use of Drain or closeAdmission returned.
AfterDrain(p) == IF p \in Stoppers THEN "locking" ELSE "cancel"

DrainReturn(p, kind, errs) ==
    IF p \in Drainers THEN Return(p, kind, errs) ELSE Continue(p, AfterDrain(p))

\* Mutant: a service that is already draining is taken for drained.
FirstDrain == state = "ready"

\* Shutdown and cancelWithCause drain a service in these states, and Drain
\* accepts them.
Drainable == state \in {"ready", "draining"}

\* The critical section of Drain.
Drain(p) ==
    /\ pc[p] = "drain" \/ (p \in Drainers /\ MayCall(p))
    /\ \/ /\ Drainable
          /\ state' = "draining"
          /\ index' = [index EXCEPT ![p] = started]
          /\ Continue(p, "admission")
       \/ /\ ~Drainable
          /\ DrainReturn(p, "state", <<>>)
          /\ UNCHANGED <<state, index>>
    /\ UNCHANGED <<startVars, cause, drainStarted, drainDone, drainErrors, failures,
                   taskVars, stopVars, doneVars>>

\* The first critical section of closeAdmission: the first caller runs the
\* closure, every other one waits for it.
CloseAdmission(p) ==
    /\ pc[p] = "admission"
    /\ \/ /\ drainStarted
          /\ index' = [index EXCEPT ![p] = 0]
          /\ Continue(p, "awaitDrain")
          /\ UNCHANGED <<drainStarted, drainDone>>
       \/ /\ ~drainStarted
          /\ drainStarted' = TRUE /\ drainDone' = "open"
          /\ Continue(p, "closing")
          /\ UNCHANGED index
    /\ UNCHANGED <<state, startVars, cause, drainErrors, failures, taskVars, stopVars,
                   doneVars>>

\* One round of the reverse loop: the callback at index[p] is nil or returns.
CloseNext(p) ==
    /\ pc[p] = "closing" /\ index[p] > 0
    /\ index' = [index EXCEPT ![p] = @ - 1]
    /\ \/ UNCHANGED failures
       \/ /\ index[p] \in HasAdmission
          /\ failures' = [failures EXCEPT ![p] =
                Append(@, [component |-> index[p], operation |-> "closeAdmission"])]
    /\ UNCHANGED <<state, startVars, cause, drainStarted, drainDone, drainErrors, taskVars,
                   stopVars, doneVars, pc, result>>

\* The last critical section of closeAdmission.
ClosePublish(p) ==
    /\ pc[p] = "closing" /\ index[p] = 0
    /\ drainErrors' = drainErrors \o failures[p]
    /\ drainDone' = "closed"
    /\ failures' = [failures EXCEPT ![p] = <<>>]
    /\ DrainReturn(p, "drained", failures[p])
    /\ UNCHANGED <<state, startVars, cause, drainStarted, index, taskVars, stopVars, doneVars>>

\* Mutant: a later caller does not wait for the closure to finish.
AwaitNothing(p) ==
    /\ pc[p] = "awaitDrain"
    /\ DrainReturn(p, "drained", drainErrors)
    /\ UNCHANGED <<state, startVars, cause, drainVars, taskVars, stopVars, doneVars>>

\* A later caller of closeAdmission receives from drainDone.
AwaitDrain(p) ==
    /\ pc[p] = "awaitDrain" /\ drainDone = "closed"
    /\ DrainReturn(p, "drained", drainErrors)
    /\ UNCHANGED <<state, startVars, cause, drainVars, taskVars, stopVars, doneVars>>

-----------------------------------------------------------------------------
(* Supervised tasks and cancelWithCause *)

TaskLimitReached == taskCount >= MaxTasks

\* Go moves a ready service whose context has ended to draining.
GoState == IF state = "ready" /\ cause # None THEN "draining" ELSE state

\* The critical section of Go; p becomes the supervised goroutine.
Go(p) ==
    /\ p \in Tasks /\ pc[p] = "idle"
    /\ state' = GoState
    /\ \/ /\ GoState # "ready"
          /\ Return(p, "state", <<>>)
          /\ UNCHANGED taskCount
       \/ /\ GoState = "ready" /\ TaskLimitReached
          /\ Return(p, "config", <<>>)
          /\ UNCHANGED taskCount
       \/ /\ GoState = "ready" /\ ~TaskLimitReached
          /\ taskCount' = taskCount + 1
          /\ Continue(p, "running")
    /\ UNCHANGED <<startVars, cause, drainVars, taskErrors, stopVars, doneVars>>

\* The task returns: nil or a cancellation result, or an error that is
\* recorded before cancelWithCause is called.
TaskReturn(p) ==
    /\ pc[p] = "running"
    /\ \/ /\ Continue(p, "exiting")
          /\ UNCHANGED taskErrors
       \/ /\ taskErrors' = Append(taskErrors, [component |-> p, operation |-> "run"])
          /\ Continue(p, "sample")
    /\ UNCHANGED <<state, startVars, cause, drainVars, taskCount, stopVars, doneVars>>

\* Mutant: the service is canceled without a drain.
CancelUndrained(p) ==
    /\ pc[p] = "sample" \/ (p \in Cancelers /\ MayCall(p))
    /\ Continue(p, "cancel")
    /\ UNCHANGED <<state, startVars, cause, drainVars, taskVars, stopVars, doneVars>>

\* cancelWithCause reads the state and drains a ready or draining service.
CancelSample(p) ==
    /\ pc[p] = "sample" \/ (p \in Cancelers /\ MayCall(p))
    /\ Continue(p, IF Drainable THEN "drain" ELSE "cancel")
    /\ UNCHANGED <<state, startVars, cause, drainVars, taskVars, stopVars, doneVars>>

\* The critical section of cancelWithCause.
CancelWithCause(p) ==
    /\ p \in Cancelers \cup Tasks /\ pc[p] = "cancel"
    /\ Cancel(p)
    /\ IF p \in Tasks THEN Continue(p, "exiting") ELSE Return(p, "ok", <<>>)
    /\ UNCHANGED <<state, startVars, drainVars, taskVars, stopVars, doneVars>>

\* The returning task was the last one a Shutdown is waiting for.
LastTask == taskCount = 1 /\ state = "stopping" /\ ~stopsStarted

\* The last critical section of the goroutine of Go: the last task of a
\* stopping service launches the component cleanup.
TaskExit(p) ==
    /\ pc[p] = "exiting"
    /\ taskCount' = taskCount - 1
    /\ IF LastTask
       THEN stopsStarted' = TRUE /\ StopComponents(p, "stop")
       ELSE UNCHANGED <<stopsStarted, coord>>
    /\ Return(p, "ok", <<>>)
    /\ UNCHANGED <<state, startVars, cause, drainVars, taskErrors, stopsDone, stopContext,
                   stopErrors, doneVars>>

-----------------------------------------------------------------------------
(* Shutdown and the cleanup it waits for *)

\* Shutdown reads the state and drains a ready or draining service.
ShutdownSample(p) ==
    /\ p \in Stoppers /\ MayCall(p)
    /\ Continue(p, IF Drainable THEN "drain" ELSE "locking")
    /\ UNCHANGED <<state, startVars, cause, drainVars, taskVars, stopVars, doneVars>>

\* The switch of Shutdown for a service that has nothing left to stop, is
\* starting, or is being stopped by another call.
ShutdownJoins(p) ==
    /\ pc[p] = "locking"
    /\ \/ /\ state = "stopped"
          /\ Return(p, "terminal", shutdownErr)
          /\ UNCHANGED <<state, cause>>
       \/ /\ state = "new"
          /\ state' = "stopped"
          /\ Return(p, "terminal", <<>>)
          /\ UNCHANGED cause
       \/ /\ state = "starting"
          /\ Cancel("shutdown")
          /\ Continue(p, "awaitStart")
          /\ UNCHANGED state
       \/ /\ state = "stopping"
          /\ Continue(p, "awaitStop")
          /\ UNCHANGED <<state, cause>>
    /\ UNCHANGED <<startVars, drainVars, taskVars, stopVars, doneVars>>

\* Mutant: a service that is being stopped is stopped again.
StoppableTwice == state \in {"ready", "draining", "stopping"}

Stoppable == state \in {"ready", "draining"}

\* Mutant: running tasks are not waited for.
NoJoin == TRUE

\* No supervised task is running.
Joined == taskCount = 0

\* The rest of the critical section: the first caller on a ready or draining
\* service cancels it and owns the stop context.
ShutdownStops(p) ==
    /\ pc[p] = "locking" /\ Stoppable
    /\ Cancel("shutdown")
    /\ state' = "stopping" /\ shutdownDone' = "open"
    /\ stopsStarted' = Joined /\ stopsDone' = FALSE /\ stopContext' = p
    /\ IF Joined THEN StopComponents(p, "stop") ELSE UNCHANGED coord
    /\ Continue(p, "awaitStop")
    /\ UNCHANGED <<startVars, drainVars, taskVars, stopErrors, shutdownErr>>

\* waitForStartupShutdown receives the end of the startup attempt.
WaitForStartupShutdown(p) ==
    /\ pc[p] = "awaitStart" /\ startDone = "closed"
    /\ \/ /\ state = "stopping"
          /\ Continue(p, "awaitStop")
       \/ /\ state # "stopping"
          /\ Return(p, "terminal", shutdownErr)
    /\ UNCHANGED <<state, startVars, cause, drainVars, taskVars, stopVars, doneVars>>

\* waitForShutdown receives the end of the cleanup.
WaitForShutdown(p) ==
    /\ pc[p] = "awaitStop" /\ shutdownDone = "closed"
    /\ Return(p, "terminal", shutdownErr)
    /\ UNCHANGED <<state, startVars, cause, drainVars, taskVars, stopVars, doneVars>>

\* The context of the caller ends either wait; the cleanup goes on.
WaitExpires(p) ==
    /\ pc[p] \in {"awaitStart", "awaitStop"}
    /\ Return(p, "timeout", <<>>)
    /\ UNCHANGED <<state, startVars, cause, drainVars, taskVars, stopVars, doneVars>>

\* One round of the reverse loop of stopComponents: Stop is nil or returns.
StopNext(p) ==
    /\ coord[p].op \in {"stop", "rollback"} /\ coord[p].index > 0
    /\ \/ coord' = [coord EXCEPT ![p].index = @ - 1]
       \/ /\ coord[p].index \in HasStop
          /\ coord' = [coord EXCEPT ![p] =
                [op |-> coord[p].op,
                 index |-> coord[p].index - 1,
                 failures |-> Append(coord[p].failures,
                    [component |-> coord[p].index, operation |-> coord[p].op])]]
    /\ UNCHANGED <<state, startVars, cause, drainVars, taskVars, stopsStarted, stopsDone,
                   stopContext, stopErrors, doneVars, pc, result>>

\* Publish the terminal result.
FinishShutdownLocked ==
    /\ shutdownErr' = drainErrors \o stopErrors' \o taskErrors
    /\ state' = "stopped"
    /\ shutdownDone' = "closed"

\* The critical section of stopComponents.
StopPublish(p) ==
    /\ coord[p].op \in {"stop", "rollback"} /\ coord[p].index = 0
    /\ started' = 0 /\ stopsDone' = TRUE
    /\ stopErrors' = stopErrors \o coord[p].failures
    /\ coord' = [coord EXCEPT ![p].op = "done"]
    /\ IF taskCount = 0 THEN FinishShutdownLocked ELSE UNCHANGED <<state, doneVars>>
    /\ UNCHANGED <<startedFully, startDone, startupExpired, cause, drainVars, taskVars,
                   stopsStarted, stopContext, pc, result>>

-----------------------------------------------------------------------------

\* The parent context of Start ends.
ParentCancel ==
    /\ startDone # "nil" /\ cause = None
    /\ cause' = "parent"
    /\ UNCHANGED <<state, startVars, drainVars, taskVars, stopVars, doneVars, pc, result>>

StartStep(p) ==
    \/ Start(p) \/ StartComponent(p) \/ BecomeReady(p)
    \/ BeginRollback(p) \/ RollbackCancel(p) \/ JoinRollback(p)

DrainStep(p) ==
    \/ Drain(p) \/ CloseAdmission(p) \/ CloseNext(p) \/ ClosePublish(p) \/ AwaitDrain(p)

TaskStep(p) == Go(p) \/ TaskReturn(p) \/ TaskExit(p)

CancelStep(p) == CancelSample(p) \/ CancelWithCause(p)

ShutdownStep(p) ==
    \/ ShutdownSample(p) \/ ShutdownJoins(p) \/ ShutdownStops(p)
    \/ WaitForStartupShutdown(p) \/ WaitForShutdown(p)

\* The deadlines of callers and of Config, and the end of the parent context.
Expiry ==
    \/ StartupTimeout \/ ParentCancel
    \/ \E p \in Starters : RollbackTimeout(p)
    \/ \E p \in Stoppers : WaitExpires(p)

StopStep(p) == StopNext(p) \/ StopPublish(p)

\* Every call that was made returned and no goroutine is left.
Terminated ==
    /\ \A p \in Process : pc[p] \in {"idle", "done"} /\ coord[p].op \in {"idle", "done"}
    /\ UNCHANGED vars

Next ==
    \/ \E p \in Starters : StartStep(p)
    \/ \E p \in Process : DrainStep(p)
    \/ \E p \in Tasks : TaskStep(p)
    \/ \E p \in Cancelers \cup Tasks : CancelStep(p)
    \/ \E p \in Stoppers : ShutdownStep(p)
    \/ \E p \in Process : StopStep(p)
    \/ Expiry
    \/ Terminated

Spec == Init /\ [][Next]_vars

\* Goroutines are scheduled and component callbacks return; a task returns
\* once its context is canceled.  No call is bound to be made and no deadline
\* is bound to pass.
Fairness ==
    /\ \A p \in Process :
        /\ WF_vars(pc[p] # "idle" /\ DrainStep(p))
        /\ WF_vars(StopStep(p))
    /\ \A p \in Starters : WF_vars(pc[p] # "idle" /\ StartStep(p))
    /\ \A p \in Stoppers : WF_vars(pc[p] # "idle" /\ ShutdownStep(p))
    /\ \A p \in Cancelers \cup Tasks : WF_vars(pc[p] # "idle" /\ CancelStep(p))
    /\ \A p \in Tasks : WF_vars(TaskExit(p)) /\ WF_vars(cause # None /\ TaskReturn(p))

FairSpec == Spec /\ Fairness

-----------------------------------------------------------------------------
(* Properties that hold whenever the calls are made *)

Ready == state = "ready" /\ cause = None

Stopping(p) == coord[p].op \in {"stop", "rollback"}
ActiveTasks == {t \in Tasks : pc[t] \notin {"idle", "done"}}

\* No Stop callback runs while a supervised task is still running: the cleanup
\* of stopComponents is launched by Shutdown or by the last task, whichever
\* comes later, and Go admits no task after that.
StopsAfterJoin == (\E p \in Process : Stopping(p)) => ActiveTasks = {}

\* "Only one cleanup coordinator runs": of all the calls of Shutdown, the
\* returning tasks and a failed Start, at most one ever launches stopComponents.
SingleCoordinator ==
    \A p, q \in Process : coord[p].op # "idle" /\ coord[q].op # "idle" => p = q

\* Go charges one slot of MaxTasks per live goroutine, and the goroutine gives
\* it back exactly once, also after a failure that it has to report first.
TasksCounted == taskCount = Cardinality(ActiveTasks) /\ taskCount <= MaxTasks

\* A Shutdown that does not time out returns the one retained result of a
\* service that is stopped, also when it was called while Start was running
\* and raced its last step.
TerminalResult ==
    \A p \in Stoppers : result[p].kind = "terminal" =>
        state = "stopped" /\ result[p].failures = shutdownErr

\* Ready, once withdrawn by Drain, by a task failure, by a cancellation or by
\* Shutdown, never comes back, whichever calls race.
ReadinessWithdrawn == [][startedFully /\ ~Ready => ~Ready']_vars

-----------------------------------------------------------------------------
(* Properties that hold when no call overtakes Start *)

AdmissionClosed == drainDone = "closed"

\* "Admission closure runs before service-initiated shutdown cancellation":
\* a step that cancels the service context, other than the end of the parent
\* context, finds the admission closure finished.
AdmissionBeforeCancel ==
    [][cause' # cause /\ cause' # "parent" => AdmissionClosed]_vars

\* No Stop callback runs before, or while, the admission callbacks run.
AdmissionBeforeStop == (\E p \in Process : Stopping(p)) => AdmissionClosed

\* The retained result of a service that was started holds every failure that
\* an admission callback, a Stop or a task reported, in that order: none is
\* reported after the result was published.
FailuresRetained ==
    state = "stopped" /\ startDone # "nil" =>
        /\ AdmissionClosed /\ ActiveTasks = {}
        /\ shutdownErr = drainErrors \o stopErrors \o taskErrors

-----------------------------------------------------------------------------
(* Liveness, under FairSpec *)

\* Every call that is made returns although no deadline passes: Start and the
\* Shutdowns that race it do not wait for somebody who waits in turn.
CallsReturn == \A p \in Process \ Tasks : pc[p] # "idle" ~> pc[p] = "done"

\* The failure of a supervised task withdraws readiness and cancels the service.
TaskFailureCancels == \A p \in Tasks : pc[p] = "sample" ~> cause # None /\ ~Ready

=============================================================================
