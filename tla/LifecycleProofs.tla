--------------------------- MODULE LifecycleProofs ---------------------------
(***************************************************************************)
(* Theorems about Lifecycle for every number of components, callers and    *)
(* tasks, and for every order of calls; the order of admission closure,    *)
(* cancellation and cleanup when no call overtakes Start; and that         *)
(* Lifecycle implements its contract.                                      *)
(***************************************************************************)
EXTENDS LifecycleSteps, LifecycleRefinement

\* A leaf has more than the default time: in a long module it may wait for another.
USE SMTT(20), ZenonT(20)

\* No call is made before Start has returned.
Ordered == EarlyCallers = {}

\* What the state of the service tells of the attempt to start it.
StartedInv ==
    /\ startDone = "nil" <=> state = "new"
    /\ startDone = "closed" => state # "starting"
    /\ state \in {"ready", "draining"} => startDone = "closed"
    /\ \A p \in Process \ Starters : pc[p] \notin {"idle", "done"} => startDone = "closed"
    /\ \A p \in Process : pc[p] # "awaitStart"

\* Past these labels a call relies on the admission closure.
AdmittedPC == {"cancel", "rollback", "locking"}

\* The one closure of admission, and what comes after it.
ClosureInv ==
    /\ ~drainStarted => drainDone = "nil"
    /\ drainStarted => drainDone # "nil" /\ state \in {"draining", "stopping", "stopped"}
    /\ \A p \in Process : pc[p] = "admission" => state \in {"draining", "stopping", "stopped"}
    /\ \A p \in Process : pc[p] = "closing" => drainDone = "open"
    /\ \A p, q \in Process : pc[p] = "closing" /\ pc[q] = "closing" => p = q
    /\ \A p \in Process : pc[p] \in AdmittedPC => AdmissionClosed
    /\ \A p \in Process : coord[p].op # "idle" => AdmissionClosed /\ cause # None
    /\ \A p \in Process : pc[p] = "rollback" => cause # None
    /\ state = "stopped" => AdmissionClosed
    /\ state = "stopping" /\ startDone = "closed" => AdmissionClosed /\ cause # None

\* Every call but Start itself finds the attempt to start the service ended.
LEMMA StartedSteps ==
  ASSUME Ordered, TypeOK, StartInv, CoordInv, ResultInv, StartedInv, [Next]_vars
  PROVE  StartedInv'
<1>a. pc \in [Process -> PC] /\ coord \in [Process -> Coordinator]
  BY DEF TypeOK, CallType, LocalType
<1>b. Starters \subseteq Process /\ Stoppers \subseteq Process /\ Tasks \subseteq Process
  BY DEF Process
<1>1. CASE \E p \in Starters : StartStep(p)
  <2>. PICK p \in Starters : StartStep(p)
    BY <1>1
  <2>. p \in Process
    BY DEF Process
  <2>1. CASE Start(p)
    BY <2>1, <1>a, <1>b, ProcessAssumption
      DEF StartedInv, Ordered, MayCall, Start, Startable, Goto, Continue, Return, startVars,
        drainVars, taskVars, stopVars, doneVars
  <2>2. CASE StartComponent(p)
    BY <2>2, <1>a, <1>b, ProcessAssumption
      DEF StartedInv, Ordered, MayCall, StartComponent, StartupCanceled, Goto, Continue,
        Return, startVars, drainVars, taskVars, stopVars, doneVars
  <2>3. CASE BecomeReady(p)
    BY <2>3, <1>a, <1>b, ProcessAssumption
      DEF StartedInv, Ordered, MayCall, BecomeReady, StartupCanceled, Goto, Continue,
        Return, startVars, drainVars, taskVars, stopVars, doneVars
  <2>4. CASE BeginRollback(p)
    BY <2>4, <1>a, <1>b, ProcessAssumption
      DEF StartedInv, Ordered, MayCall, StartInv, BeginRollback, Goto, Continue, Return,
        startVars, drainVars, taskVars, stopVars, doneVars
  <2>5. CASE RollbackCancel(p)
    BY <2>5, <1>a, <1>b, ProcessAssumption
      DEF StartedInv, Ordered, MayCall, RollbackCancel, Cancel, StopComponents, Goto,
        Continue, Return, startVars, drainVars, taskVars, stopVars, doneVars
  <2>6. CASE JoinRollback(p)
    BY <2>6, <1>a, <1>b, ProcessAssumption
      DEF StartedInv, Ordered, MayCall, ResultInv, CoordInv, JoinRollback, Goto, Continue,
        Return, startVars, drainVars, taskVars, stopVars, doneVars
  <2>. QED
    BY <2>1, <2>2, <2>3, <2>4, <2>5, <2>6 DEF StartStep
<1>2. CASE \E p \in Process : DrainStep(p)
  <2>. PICK p \in Process : DrainStep(p)
    BY <1>2
  <2>1. CASE Drain(p)
    BY <2>1, <1>a, <1>b, ProcessAssumption
      DEF StartedInv, Ordered, MayCall, Drain, Drainable, DrainReturn, AfterDrain, Goto,
        Continue, Return, startVars, drainVars, taskVars, stopVars, doneVars
  <2>2. CASE CloseAdmission(p)
    BY <2>2, <1>a, <1>b, ProcessAssumption
      DEF StartedInv, Ordered, MayCall, CloseAdmission, Goto, Continue, Return, startVars,
        drainVars, taskVars, stopVars, doneVars
  <2>3. CASE CloseNext(p)
    BY <2>3, <1>a, <1>b, ProcessAssumption
      DEF StartedInv, Ordered, MayCall, CloseNext, Goto, Continue, Return, startVars,
        drainVars, taskVars, stopVars, doneVars
  <2>4. CASE ClosePublish(p)
    BY <2>4, <1>a, <1>b, ProcessAssumption
      DEF StartedInv, Ordered, MayCall, ClosePublish, DrainReturn, AfterDrain, Goto,
        Continue, Return, startVars, drainVars, taskVars, stopVars, doneVars
  <2>5. CASE AwaitDrain(p)
    BY <2>5, <1>a, <1>b, ProcessAssumption
      DEF StartedInv, Ordered, MayCall, AwaitDrain, DrainReturn, AfterDrain, Goto, Continue,
        Return, startVars, drainVars, taskVars, stopVars, doneVars
  <2>. QED
    BY <2>1, <2>2, <2>3, <2>4, <2>5 DEF DrainStep
<1>3. CASE \E p \in Tasks : TaskStep(p)
  <2>. PICK p \in Tasks : TaskStep(p)
    BY <1>3
  <2>. p \in Process
    BY DEF Process
  <2>1. CASE Go(p)
    BY <2>1, <1>a, <1>b, ProcessAssumption
      DEF StartedInv, Ordered, MayCall, Go, GoState, Goto, Continue, Return, startVars,
        drainVars, taskVars, stopVars, doneVars
  <2>2. CASE TaskReturn(p)
    BY <2>2, <1>a, <1>b, ProcessAssumption
      DEF StartedInv, Ordered, MayCall, TaskReturn, Goto, Continue, Return, startVars,
        drainVars, taskVars, stopVars, doneVars
  <2>3. CASE TaskExit(p)
    BY <2>3, <1>a, <1>b, ProcessAssumption
      DEF StartedInv, Ordered, MayCall, TaskExit, LastTask, StopComponents, Goto, Continue,
        Return, startVars, drainVars, taskVars, stopVars, doneVars
  <2>. QED
    BY <2>1, <2>2, <2>3 DEF TaskStep
<1>4. CASE \E p \in Cancelers \cup Tasks : CancelStep(p)
  <2>. PICK p \in Cancelers \cup Tasks : CancelStep(p)
    BY <1>4
  <2>. p \in Process
    BY DEF Process
  <2>1. CASE CancelSample(p)
    BY <2>1, <1>a, <1>b, ProcessAssumption
      DEF StartedInv, Ordered, MayCall, CancelSample, Drainable, Goto, Continue, Return,
        startVars, drainVars, taskVars, stopVars, doneVars
  <2>2. CASE CancelWithCause(p)
    BY <2>2, <1>a, <1>b, ProcessAssumption
      DEF StartedInv, Ordered, MayCall, CancelWithCause, Cancel, Goto, Continue, Return,
        startVars, drainVars, taskVars, stopVars, doneVars
  <2>. QED
    BY <2>1, <2>2 DEF CancelStep
<1>5. CASE \E p \in Stoppers : ShutdownStep(p)
  <2>. PICK p \in Stoppers : ShutdownStep(p)
    BY <1>5
  <2>. p \in Process
    BY DEF Process
  <2>1. CASE ShutdownSample(p)
    BY <2>1, <1>a, <1>b, ProcessAssumption
      DEF StartedInv, Ordered, MayCall, ShutdownSample, Drainable, Goto, Continue, Return,
        startVars, drainVars, taskVars, stopVars, doneVars
  <2>2. CASE ShutdownJoins(p)
    BY <2>2, <1>a, <1>b, ProcessAssumption
      DEF StartedInv, Ordered, MayCall, ShutdownJoins, Cancel, Goto, Continue, Return,
        startVars, drainVars, taskVars, stopVars, doneVars
  <2>3. CASE ShutdownStops(p)
    BY <2>3, <1>a, <1>b, ProcessAssumption
      DEF StartedInv, Ordered, MayCall, ShutdownStops, Cancel, Stoppable, Joined,
        StopComponents, Goto, Continue, Return, startVars, drainVars, taskVars, stopVars,
        doneVars
  <2>4. CASE WaitForStartupShutdown(p)
    BY <2>4, <1>a, <1>b, ProcessAssumption
      DEF StartedInv, Ordered, MayCall, WaitForStartupShutdown, Goto, Continue, Return,
        startVars, drainVars, taskVars, stopVars, doneVars
  <2>5. CASE WaitForShutdown(p)
    BY <2>5, <1>a, <1>b, ProcessAssumption
      DEF StartedInv, Ordered, MayCall, WaitForShutdown, Goto, Continue, Return, startVars,
        drainVars, taskVars, stopVars, doneVars
  <2>. QED
    BY <2>1, <2>2, <2>3, <2>4, <2>5 DEF ShutdownStep
<1>6. CASE \E p \in Process : StopStep(p)
  <2>. PICK p \in Process : StopStep(p)
    BY <1>6
  <2>1. CASE StopNext(p)
    BY <2>1, <1>a, <1>b, ProcessAssumption
      DEF StartedInv, Ordered, MayCall, StopNext, Goto, Continue, Return, startVars,
        drainVars, taskVars, stopVars, doneVars
  <2>2. CASE StopPublish(p)
    BY <2>2, <1>a, <1>b, ProcessAssumption
      DEF StartedInv, Ordered, MayCall, CoordInv, Stopping, StopPublish,
        FinishShutdownLocked, Goto, Continue, Return, startVars, drainVars, taskVars,
        stopVars, doneVars
  <2>. QED
    BY <2>1, <2>2 DEF StopStep
<1>7. CASE Expiry
  <2>1. CASE StartupTimeout
    BY <2>1, <1>a, <1>b, ProcessAssumption
      DEF StartedInv, Ordered, MayCall, StartupTimeout, Goto, Return, startVars, drainVars,
        taskVars, stopVars, doneVars
  <2>2. CASE ParentCancel
    BY <2>2, <1>a, <1>b, ProcessAssumption
      DEF StartedInv, Ordered, MayCall, ParentCancel, Goto, Return, startVars, drainVars,
        taskVars, stopVars, doneVars
  <2>3. ASSUME NEW p \in Starters, RollbackTimeout(p) PROVE StartedInv'
    BY <2>3, <1>a, <1>b, ProcessAssumption
      DEF StartedInv, Ordered, MayCall, ResultInv, CoordInv, RollbackTimeout, Goto, Return,
        startVars, drainVars, taskVars, stopVars, doneVars
  <2>4. ASSUME NEW p \in Stoppers, WaitExpires(p) PROVE StartedInv'
    BY <2>4, <1>a, <1>b, ProcessAssumption
      DEF StartedInv, Ordered, MayCall, WaitExpires, Goto, Return, startVars, drainVars,
        taskVars, stopVars, doneVars
  <2>. QED
    BY <1>7, <2>1, <2>2, <2>3, <2>4 DEF Expiry
<1>8. CASE UNCHANGED vars
  BY <1>8, ProcessAssumption
    DEF StartedInv, Ordered, MayCall, vars, startVars, drainVars, taskVars, stopVars,
      doneVars
<1>. QED
  BY <1>1, <1>2, <1>3, <1>4, <1>5, <1>6, <1>7, <1>8, Zenon DEF Next, Terminated

\* Admission is closed once, and every cancellation and cleanup of the service
\* comes after that.
LEMMA ClosureSteps ==
  ASSUME Ordered, TypeOK, StartInv, CoordInv, ResultInv, StartedInv, ClosureInv, [Next]_vars
  PROVE  ClosureInv'
<1>a. pc \in [Process -> PC] /\ coord \in [Process -> Coordinator]
  BY DEF TypeOK, CallType, LocalType
<1>b. Starters \subseteq Process /\ Stoppers \subseteq Process /\ Tasks \subseteq Process
  BY DEF Process
<1>c. state \in State
  BY DEF TypeOK, ServiceType
<1>1. CASE \E p \in Starters : StartStep(p)
  <2>. PICK p \in Starters : StartStep(p)
    BY <1>1
  <2>. p \in Process
    BY DEF Process
  <2>1. CASE Start(p)
    BY <2>1, <1>a, <1>b, ProcessAssumption
      DEF ClosureInv, AdmissionClosed, AdmittedPC, StartedInv, Start, Startable, Goto,
        Continue, Return, startVars, drainVars, taskVars, stopVars, doneVars
  <2>2. CASE StartComponent(p)
    BY <2>2, <1>a, <1>b, ProcessAssumption
      DEF ClosureInv, AdmissionClosed, AdmittedPC, StartComponent, StartupCanceled, Goto,
        Continue, Return, startVars, drainVars, taskVars, stopVars, doneVars
  <2>3. CASE BecomeReady(p)
    BY <2>3, <1>a, <1>b, ProcessAssumption
      DEF ClosureInv, AdmissionClosed, AdmittedPC, StartInv, BecomeReady, StartupCanceled,
        Goto, Continue, Return, startVars, drainVars, taskVars, stopVars, doneVars
  <2>4. CASE BeginRollback(p)
    BY <2>4, <1>a, <1>b, ProcessAssumption
      DEF ClosureInv, AdmissionClosed, AdmittedPC, StartInv, ResultInv, BeginRollback, Goto,
        Continue, Return, startVars, drainVars, taskVars, stopVars, doneVars
  <2>5. CASE RollbackCancel(p)
    BY <2>5, <1>a, <1>b, ProcessAssumption
      DEF ClosureInv, AdmissionClosed, AdmittedPC, StartInv, StartedInv, RollbackPC,
        RollbackCancel, Cancel, StopComponents, Goto, Continue, Return, startVars, drainVars,
        taskVars, stopVars, doneVars
  <2>6. CASE JoinRollback(p)
    BY <2>6, <1>a, <1>b, ProcessAssumption
      DEF ClosureInv, AdmissionClosed, AdmittedPC, StartInv, JoinRollback, Goto, Continue,
        Return, startVars, drainVars, taskVars, stopVars, doneVars
  <2>. QED
    BY <2>1, <2>2, <2>3, <2>4, <2>5, <2>6 DEF StartStep
<1>2. CASE \E p \in Process : DrainStep(p)
  <2>. PICK p \in Process : DrainStep(p)
    BY <1>2
  <2>1. CASE Drain(p)
    BY <2>1, <1>a, <1>b, ProcessAssumption, <1>c
      DEF ClosureInv, AdmissionClosed, AdmittedPC, Ordered, StartInv, StartedInv, State,
        Drain, Drainable, MayCall, DrainReturn, AfterDrain, Goto, Continue, Return, startVars,
        drainVars, taskVars, stopVars, doneVars
  <2>2. CASE CloseAdmission(p)
    BY <2>2, <1>a, <1>b, ProcessAssumption
      DEF ClosureInv, AdmissionClosed, AdmittedPC, CloseAdmission, Goto, Continue, Return,
        startVars, drainVars, taskVars, stopVars, doneVars
  <2>3. CASE CloseNext(p)
    BY <2>3, <1>a, <1>b, ProcessAssumption
      DEF ClosureInv, AdmissionClosed, AdmittedPC, CloseNext, Goto, Continue, Return,
        startVars, drainVars, taskVars, stopVars, doneVars
  <2>4. CASE ClosePublish(p)
    <3>1. /\ pc[p] = "closing" /\ drainDone' = "closed" /\ UNCHANGED <<state, startDone, coord>>
          /\ UNCHANGED <<cause, drainStarted>>
          /\ \E l \in {"done", "locking", "cancel"} : pc' = [pc EXCEPT ![p] = l]
      BY <2>4
        DEF ClosePublish, DrainReturn, AfterDrain, Goto, Continue, Return, startVars, stopVars
    <3>2. \A q \in Process : pc'[q] # "closing" /\ (pc'[q] \in {"admission", "rollback"} => pc'[q] = pc[q])
      BY <1>a, <3>1 DEF ClosureInv
    <3>3. ~drainStarted => drainDone = "nil"
      BY DEF ClosureInv
    <3>4. pc[p] = "closing" => drainDone = "open"
      BY DEF ClosureInv
    <3>. QED
      BY <3>1, <3>2, <3>3, <3>4 DEF ClosureInv, AdmissionClosed, AdmittedPC
  <2>5. CASE AwaitDrain(p)
    BY <2>5, <1>a, <1>b, ProcessAssumption
      DEF ClosureInv, AdmissionClosed, AdmittedPC, AwaitDrain, DrainReturn, AfterDrain,
        Goto, Continue, Return, startVars, drainVars, taskVars, stopVars, doneVars
  <2>. QED
    BY <2>1, <2>2, <2>3, <2>4, <2>5 DEF DrainStep
<1>3. CASE \E p \in Tasks : TaskStep(p)
  <2>. PICK p \in Tasks : TaskStep(p)
    BY <1>3
  <2>. p \in Process
    BY DEF Process
  <2>1. CASE Go(p)
    BY <2>1, <1>a, <1>b, ProcessAssumption
      DEF ClosureInv, AdmissionClosed, AdmittedPC, Go, GoState, Goto, Continue, Return,
        startVars, drainVars, taskVars, stopVars, doneVars
  <2>2. CASE TaskReturn(p)
    BY <2>2, <1>a, <1>b, ProcessAssumption
      DEF ClosureInv, AdmissionClosed, AdmittedPC, TaskReturn, Goto, Continue, Return,
        startVars, drainVars, taskVars, stopVars, doneVars
  <2>3. CASE TaskExit(p)
    BY <2>3, <1>a, <1>b, ProcessAssumption
      DEF ClosureInv, AdmissionClosed, AdmittedPC, StartedInv, TaskExit, LastTask,
        StopComponents, Goto, Continue, Return, startVars, drainVars, taskVars, stopVars,
        doneVars
  <2>. QED
    BY <2>1, <2>2, <2>3 DEF TaskStep
<1>4. CASE \E p \in Cancelers \cup Tasks : CancelStep(p)
  <2>. PICK p \in Cancelers \cup Tasks : CancelStep(p)
    BY <1>4
  <2>. p \in Process
    BY DEF Process
  <2>1. CASE CancelSample(p)
    BY <2>1, <1>a, <1>b, ProcessAssumption, <1>c
      DEF ClosureInv, AdmissionClosed, AdmittedPC, Ordered, StartInv, StartedInv, State,
        CancelSample, Drainable, MayCall, Goto, Continue, Return, startVars, drainVars,
        taskVars, stopVars, doneVars
  <2>2. CASE CancelWithCause(p)
    BY <2>2, <1>a, <1>b, ProcessAssumption
      DEF ClosureInv, AdmissionClosed, AdmittedPC, CancelWithCause, Cancel, Goto, Continue,
        Return, startVars, drainVars, taskVars, stopVars, doneVars
  <2>. QED
    BY <2>1, <2>2 DEF CancelStep
<1>5. CASE \E p \in Stoppers : ShutdownStep(p)
  <2>. PICK p \in Stoppers : ShutdownStep(p)
    BY <1>5
  <2>. p \in Process
    BY DEF Process
  <2>1. CASE ShutdownSample(p)
    BY <2>1, <1>a, <1>b, ProcessAssumption, <1>c
      DEF ClosureInv, AdmissionClosed, AdmittedPC, Ordered, StartedInv, State,
        ShutdownSample, Drainable, MayCall, Goto, Continue, Return, startVars, drainVars,
        taskVars, stopVars, doneVars
  <2>2. CASE ShutdownJoins(p)
    BY <2>2, <1>a, <1>b, ProcessAssumption
      DEF ClosureInv, AdmissionClosed, AdmittedPC, StartedInv, ShutdownJoins, Cancel, Goto,
        Continue, Return, startVars, drainVars, taskVars, stopVars, doneVars
  <2>3. CASE ShutdownStops(p)
    BY <2>3, <1>a, <1>b, ProcessAssumption
      DEF ClosureInv, AdmissionClosed, AdmittedPC, StartedInv, ShutdownStops, Cancel,
        Stoppable, Joined, StopComponents, Goto, Continue, Return, startVars, drainVars,
        taskVars, stopVars, doneVars
  <2>4. CASE WaitForStartupShutdown(p)
    BY <2>4, <1>a, <1>b, ProcessAssumption
      DEF ClosureInv, AdmissionClosed, AdmittedPC, WaitForStartupShutdown, Goto, Continue,
        Return, startVars, drainVars, taskVars, stopVars, doneVars
  <2>5. CASE WaitForShutdown(p)
    BY <2>5, <1>a, <1>b, ProcessAssumption
      DEF ClosureInv, AdmissionClosed, AdmittedPC, WaitForShutdown, Goto, Continue, Return,
        startVars, drainVars, taskVars, stopVars, doneVars
  <2>. QED
    BY <2>1, <2>2, <2>3, <2>4, <2>5 DEF ShutdownStep
<1>6. CASE \E p \in Process : StopStep(p)
  <2>. PICK p \in Process : StopStep(p)
    BY <1>6
  <2>1. CASE StopNext(p)
    BY <2>1, <1>a, <1>b, ProcessAssumption
      DEF ClosureInv, AdmissionClosed, AdmittedPC, StopNext, Goto, Continue, Return,
        startVars, drainVars, taskVars, stopVars, doneVars
  <2>2. CASE StopPublish(p)
    BY <2>2, <1>a, <1>b, ProcessAssumption
      DEF ClosureInv, AdmissionClosed, AdmittedPC, CoordInv, Stopping, StopPublish,
        FinishShutdownLocked, Goto, Continue, Return, startVars, drainVars, taskVars,
        stopVars, doneVars
  <2>. QED
    BY <2>1, <2>2 DEF StopStep
<1>7. CASE Expiry
  <2>1. CASE StartupTimeout
    BY <2>1, <1>a, <1>b, ProcessAssumption
      DEF ClosureInv, AdmissionClosed, AdmittedPC, StartupTimeout, Goto, Return, startVars,
        drainVars, taskVars, stopVars, doneVars
  <2>2. CASE ParentCancel
    BY <2>2, <1>a, <1>b, ProcessAssumption
      DEF ClosureInv, AdmissionClosed, AdmittedPC, ParentCancel, Goto, Return, startVars,
        drainVars, taskVars, stopVars, doneVars
  <2>3. ASSUME NEW p \in Starters, RollbackTimeout(p) PROVE ClosureInv'
    BY <2>3, <1>a, <1>b, ProcessAssumption
      DEF ClosureInv, AdmissionClosed, AdmittedPC, RollbackTimeout, Goto, Return, startVars,
        drainVars, taskVars, stopVars, doneVars
  <2>4. ASSUME NEW p \in Stoppers, WaitExpires(p) PROVE ClosureInv'
    BY <2>4, <1>a, <1>b, ProcessAssumption
      DEF ClosureInv, AdmissionClosed, AdmittedPC, WaitExpires, Goto, Return, startVars,
        drainVars, taskVars, stopVars, doneVars
  <2>. QED
    BY <1>7, <2>1, <2>2, <2>3, <2>4 DEF Expiry
<1>8. CASE UNCHANGED vars
  BY <1>8, ProcessAssumption
    DEF ClosureInv, AdmissionClosed, AdmittedPC, vars, startVars, drainVars, taskVars,
      stopVars, doneVars
<1>. QED
  BY <1>1, <1>2, <1>3, <1>4, <1>5, <1>6, <1>7, <1>8, Zenon DEF Next, Terminated

-----------------------------------------------------------------------------
(* The refinement of ServiceContract.                                      *)

\* The only element of a set is the one that is chosen from it.
LEMMA ChooseOnly == ASSUME NEW S, NEW x, S = {x} PROVE (CHOOSE y \in S : TRUE) = x
  OBVIOUS

\* Until the cleanup is launched, the components started are the ones owned.
LEMMA OwnedStarted ==
  ASSUME \A q \in Process : coord[q].op = "idle"
  PROVE  Owned = started
  BY DEF Owned, Coordinators

\* From then on the loop of stopComponents owns what it has not stopped.
LEMMA OwnedByCoordinator ==
  ASSUME SingleCoordinator, NEW p \in Process, coord[p].op # "idle"
  PROVE  Owned = coord[p].index
<1>1. Coordinators = {p}
  BY DEF Coordinators, SingleCoordinator
<1>. QED
  BY <1>1, ChooseOnly DEF Owned

\* The same of the state after a step.
LEMMA OwnedByCoordinatorNext ==
  ASSUME SingleCoordinator', NEW p \in Process, coord'[p].op # "idle"
  PROVE  Owned' = coord'[p].index
<1>1. Coordinators' = {p}
  BY DEF Coordinators, SingleCoordinator
<1>. QED
  BY <1>1, ChooseOnly DEF Owned

\* A step that launches the cleanup leaves the owned components.
LEMMA Launched ==
  ASSUME \A q \in Process : coord[q].op = "idle", coord \in [Process -> Coordinator],
         NEW p \in Process, NEW op \in {"stop", "rollback"}, StopComponents(p, op),
         SingleCoordinator'
  PROVE  Owned' = Owned
<1>1. coord'[p].op # "idle" /\ coord'[p].index = started
  BY DEF StopComponents
<1>. QED
  BY <1>1, OwnedStarted, OwnedByCoordinatorNext

\* What the contract sees of a step of the lifecycle.
Unseen == UNCHANGED <<state, cause>> /\ Owned' = Owned /\ Admission' = Admission
Idle == ActiveTasks' = ActiveTasks

\* Such a step is none of the contract.
LEMMA Stutters ==
  ASSUME Unseen, Idle
  PROVE  UNCHANGED Contract!cvars
  BY DEF Unseen, Idle, Contract!cvars

\* What is owned and admitted depends on these variables only.
LEMMA OwnedStays == ASSUME UNCHANGED <<started, coord>> PROVE Owned' = Owned
  BY DEF Owned, Coordinators

\* So does the admission.
LEMMA AdmissionStays ==
  ASSUME UNCHANGED <<drainStarted, drainDone>>
  PROVE  Admission' = Admission
  BY DEF Admission

\* Steps that touch none of the variables the contract is a function of.
LEMMA UnseenSteps ==
  ASSUME UNCHANGED <<state, cause, started, coord, drainStarted, drainDone>>
  PROVE  Unseen
  BY OwnedStays, AdmissionStays DEF Unseen

\* The tasks change with the calls of Go only.
LEMMA OthersIdle ==
  ASSUME pc \in [Process -> PC], NEW p \in Process, NEW l, pc' = [pc EXCEPT ![p] = l],
         p \notin Tasks \/ (pc[p] \in {"idle", "done"} <=> l \in {"idle", "done"})
  PROVE  Idle
<1>. Tasks \subseteq Process
  BY DEF Process
<1>. QED
  BY DEF Idle, ActiveTasks

\* A step of the contract, or none.
ContractStep == Contract!CNext \/ UNCHANGED Contract!cvars

\* The steps of Start and of its rollback.
LEMMA StartContract ==
  ASSUME TypeOK, StartInv, CoordInv, ResultInv, StartedInv, ClosureInv, CoordInv',
         NEW p \in Starters, StartStep(p)
  PROVE  ContractStep
<1>a. pc \in [Process -> PC] /\ coord \in [Process -> Coordinator]
  BY DEF TypeOK, CallType, LocalType
<1>b. p \in Process /\ p \notin Tasks
  BY ProcessAssumption DEF Process
<1>c. ASSUME NEW l, pc' = [pc EXCEPT ![p] = l] PROVE Idle
  BY <1>a, <1>b, <1>c, OthersIdle, Zenon
<1>1. CASE Start(p)
  <2>1. /\ \E l \in PC : pc' = [pc EXCEPT ![p] = l]
        /\ UNCHANGED <<cause, started, coord, drainStarted, drainDone>>
        /\ state' = state \/ (state = "new" /\ state' = "starting")
    BY <1>1 DEF Start, Startable, Return, Continue, Goto, PC, drainVars, stopVars
  <2>2. Idle /\ Owned' = Owned /\ Admission' = Admission
    BY <1>c, <2>1, OwnedStays, AdmissionStays, Zenon
  <2>3. CASE state' = state
    BY <2>1, <2>2, <2>3, Stutters DEF ContractStep, Unseen
  <2>4. CASE state = "new" /\ state' = "starting"
    <3>1. Contract!Begin
      BY <2>1, <2>2, <2>4 DEF Contract!Begin, Idle
    <3>. QED
      BY <3>1 DEF ContractStep, Contract!CNext
  <2>. QED
    BY <2>1, <2>3, <2>4
<1>2. CASE StartComponent(p)
  <2>1. /\ \E l \in PC : pc' = [pc EXCEPT ![p] = l]
        /\ UNCHANGED <<state, cause, coord, drainStarted, drainDone>>
        /\ started' = started \/ (started < N /\ started' = started + 1)
    BY <1>2 DEF StartComponent, Continue, Goto, PC, drainVars, stopVars
  <2>2. state = "starting" /\ \A q \in Process : coord[q].op = "idle"
    BY <1>2 DEF StartComponent, StartInv, CoordInv
  <2>3. Idle /\ Admission' = Admission /\ Owned = started /\ Owned' = started'
    BY <1>c, <2>1, <2>2, OwnedStarted, Zenon DEF Admission, Owned, Coordinators
  <2>4. CASE started' = started
    BY <2>1, <2>3, <2>4, Stutters DEF ContractStep, Unseen
  <2>5. CASE started < N /\ started' = started + 1
    <3>1. Contract!Acquire
      BY <2>1, <2>2, <2>3, <2>5 DEF Contract!Acquire, Idle
    <3>. QED
      BY <3>1 DEF ContractStep, Contract!CNext
  <2>. QED
    BY <2>1, <2>4, <2>5
<1>3. CASE BecomeReady(p)
  <2>1. /\ \E l \in PC : pc' = [pc EXCEPT ![p] = l]
        /\ UNCHANGED <<cause, started, coord, drainStarted, drainDone>>
        /\ state' = state \/ (cause = None /\ state' = "ready")
        /\ started = N
    BY <1>3 DEF BecomeReady, StartupCanceled, Return, Continue, Goto, PC, drainVars, stopVars
  <2>2. state = "starting" /\ \A q \in Process : coord[q].op = "idle"
    BY <1>3 DEF BecomeReady, StartInv, CoordInv
  <2>3. Idle /\ Admission' = Admission /\ Owned = N /\ Owned' = Owned
    BY <1>c, <2>1, <2>2, OwnedStarted, Zenon DEF Admission, Owned, Coordinators
  <2>4. CASE state' = state
    BY <2>1, <2>3, <2>4, Stutters DEF ContractStep, Unseen
  <2>5. CASE cause = None /\ state' = "ready"
    <3>1. Contract!BecomeReady
      BY <2>1, <2>2, <2>3, <2>5 DEF Contract!BecomeReady, Idle
    <3>. QED
      BY <3>1 DEF ContractStep, Contract!CNext
  <2>. QED
    BY <2>1, <2>4, <2>5
<1>4. CASE BeginRollback(p)
  <2>1. /\ pc' = [pc EXCEPT ![p] = "admission"] /\ state' = "stopping"
        /\ UNCHANGED <<cause, started, coord, drainStarted, drainDone>>
    BY <1>4 DEF BeginRollback, Continue, Goto, startVars
  <2>2. state = "starting"
    BY <1>4 DEF BeginRollback, StartInv
  <2>3. Idle /\ Owned' = Owned /\ Admission' = Admission
    BY <1>c, <2>1, OwnedStays, AdmissionStays, Zenon
  <2>4. Contract!Abort
    BY <2>1, <2>2, <2>3 DEF Contract!Abort, Idle
  <2>. QED
    BY <2>4 DEF ContractStep, Contract!CNext
<1>5. CASE RollbackCancel(p)
  <2>1. /\ pc' = [pc EXCEPT ![p] = "rollback"] /\ StopComponents(p, "rollback")
        /\ UNCHANGED <<state, started, drainStarted, drainDone>>
        /\ pc[p] = "cancel" /\ Cancel("startup")
    BY <1>5 DEF RollbackCancel, Continue, Goto, startVars, drainVars
  <2>2. state = "stopping" /\ \A q \in Process : coord[q].op = "idle"
    BY <2>1 DEF StartInv, RollbackPC
  <2>3. drainDone = "closed" /\ startDone # "nil" /\ drainStarted
    BY <1>b, <2>1, <2>2 DEF ClosureInv, AdmittedPC, AdmissionClosed, StartedInv
  <2>4. cause' # None
    BY <2>1, <2>3, ProcessAssumption DEF Cancel
  <2>5. SingleCoordinator' /\ "rollback" \in {"stop", "rollback"}
    BY DEF CoordInv
  <2>6. Owned' = Owned
    BY <1>a, <1>b, <2>1, <2>2, <2>5, Launched
  <2>7. Idle /\ Admission' = Admission /\ Admission = "closed"
    BY <1>c, <2>1, <2>3, Zenon DEF Admission
  <2>8. Contract!ServiceCancel
    BY <2>1, <2>4, <2>6, <2>7 DEF Contract!ServiceCancel, Idle
  <2>. QED
    BY <2>8 DEF ContractStep, Contract!CNext
<1>6. CASE JoinRollback(p)
  <2>1. /\ pc' = [pc EXCEPT ![p] = "done"]
        /\ UNCHANGED <<state, cause, started, coord, drainStarted, drainDone>>
    BY <1>6 DEF JoinRollback, Return, Goto, drainVars, stopVars
  <2>. QED
    BY <1>c, <2>1, UnseenSteps, Stutters, Zenon DEF ContractStep
<1>. QED
  BY <1>1, <1>2, <1>3, <1>4, <1>5, <1>6 DEF StartStep

\* A return from Drain or closeAdmission does not end a task.
LEMMA DrainReturnsIdle ==
  ASSUME pc \in [Process -> PC], NEW p \in Process, pc[p] \notin {"idle", "done"} \/ p \in Drainers,
         NEW kind, NEW errs, DrainReturn(p, kind, errs)
  PROVE  Idle
<1>1. CASE p \in Drainers
  <2>1. p \notin Tasks
    BY <1>1, ProcessAssumption
  <2>2. pc' = [pc EXCEPT ![p] = "done"]
    BY <1>1 DEF DrainReturn, Return, Goto
  <2>. QED
    BY <2>1, <2>2, OthersIdle, Zenon
<1>2. CASE p \notin Drainers
  <2>1. PICK l \in {"locking", "cancel"} : pc' = [pc EXCEPT ![p] = l]
    BY <1>2 DEF DrainReturn, AfterDrain, Continue, Goto
  <2>. QED
    BY <1>2, <2>1, OthersIdle, Zenon
<1>. QED
  BY <1>1, <1>2

\* The steps of Drain and of the closure of admission.
LEMMA DrainContract ==
  ASSUME TypeOK, StartedInv, ClosureInv, NEW p \in Process, DrainStep(p)
  PROVE  ContractStep
<1>a. pc \in [Process -> PC]
  BY DEF TypeOK, CallType
<1>1. CASE Drain(p)
  <2>1. /\ UNCHANGED <<cause, started, coord, drainStarted, drainDone>>
        /\ pc[p] \notin {"idle", "done"} \/ p \in Drainers
    BY <1>1 DEF Drain, startVars, stopVars
  <2>2. Owned' = Owned /\ Admission' = Admission
    BY <2>1, OwnedStays, AdmissionStays
  <2>3. CASE Drainable /\ state' = "draining" /\ Continue(p, "admission")
    <3>1. p \notin Tasks \/ pc[p] \notin {"idle", "done"}
      BY <2>1, ProcessAssumption
    <3>2. Idle
      BY <1>a, <2>3, <3>1, OthersIdle, Zenon DEF Continue, Goto
    <3>3. CASE state = "draining"
      BY <2>1, <2>2, <2>3, <3>2, <3>3, Stutters DEF ContractStep, Unseen
    <3>4. CASE state = "ready"
      <4>1. Contract!Withdraw
        BY <2>1, <2>2, <2>3, <3>2, <3>4 DEF Contract!Withdraw, Idle
      <4>. QED
        BY <4>1 DEF ContractStep, Contract!CNext
    <3>. QED
      BY <2>3, <3>3, <3>4 DEF Drainable
  <2>4. CASE DrainReturn(p, "state", <<>>) /\ UNCHANGED state
    <3>1. Idle
      BY <1>a, <2>1, <2>4, DrainReturnsIdle
    <3>. QED
      BY <2>1, <2>2, <2>4, <3>1, Stutters DEF ContractStep, Unseen
  <2>. QED
    BY <1>1, <2>3, <2>4 DEF Drain
<1>2. CASE CloseAdmission(p)
  <2>1. /\ UNCHANGED <<state, cause, started, coord>>
        /\ pc[p] = "admission" /\ \E l \in {"closing", "awaitDrain"} : pc' = [pc EXCEPT ![p] = l]
    BY <1>2 DEF CloseAdmission, Continue, Goto, startVars, stopVars
  <2>2. Owned' = Owned /\ Idle
    BY <1>a, <2>1, OwnedStays, OthersIdle, Zenon
  <2>3. CASE UNCHANGED <<drainStarted, drainDone>>
    BY <2>1, <2>2, <2>3, AdmissionStays, Stutters DEF ContractStep, Unseen
  <2>4. CASE ~drainStarted /\ drainStarted' = TRUE /\ drainDone' = "open"
    <3>1. Admission = "open" /\ Admission' = "closing"
      BY <2>4 DEF Admission
    <3>2. state \in {"draining", "stopping"}
      BY <2>1, <2>4 DEF ClosureInv, AdmissionClosed
    <3>3. Contract!CloseAdmission
      BY <2>1, <2>2, <3>1, <3>2 DEF Contract!CloseAdmission, Idle
    <3>. QED
      BY <3>3 DEF ContractStep, Contract!CNext
  <2>. QED
    BY <1>2, <2>3, <2>4, Zenon DEF CloseAdmission
<1>3. CASE CloseNext(p)
  <2>1. UNCHANGED <<state, cause, started, coord, drainStarted, drainDone, pc>>
    BY <1>3 DEF CloseNext, startVars, stopVars
  <2>2. Idle
    BY <2>1 DEF Idle, ActiveTasks
  <2>. QED
    BY <2>1, <2>2, UnseenSteps, Stutters DEF ContractStep
<1>4. CASE ClosePublish(p)
  <2>1. /\ UNCHANGED <<state, cause, started, coord, drainStarted>>
        /\ pc[p] = "closing" /\ DrainReturn(p, "drained", failures[p]) /\ drainDone' = "closed"
    BY <1>4 DEF ClosePublish, startVars, stopVars
  <2>2. Owned' = Owned /\ Idle
    BY <1>a, <2>1, OwnedStays, DrainReturnsIdle
  <2>3. drainDone = "open" /\ drainStarted
    BY <2>1 DEF ClosureInv
  <2>4. Admission = "closing" /\ Admission' = "closed"
    BY <2>1, <2>3 DEF Admission
  <2>5. Contract!AdmissionClosed
    BY <2>1, <2>2, <2>4 DEF Contract!AdmissionClosed, Idle
  <2>. QED
    BY <2>5 DEF ContractStep, Contract!CNext
<1>5. CASE AwaitDrain(p)
  <2>1. /\ UNCHANGED <<state, cause, started, coord, drainStarted, drainDone>>
        /\ pc[p] = "awaitDrain" /\ DrainReturn(p, "drained", drainErrors)
    BY <1>5 DEF AwaitDrain, startVars, stopVars, drainVars
  <2>2. Idle
    BY <1>a, <2>1, DrainReturnsIdle
  <2>. QED
    BY <2>1, <2>2, UnseenSteps, Stutters DEF ContractStep
<1>. QED
  BY <1>1, <1>2, <1>3, <1>4, <1>5 DEF DrainStep

\* The steps of Go and of the supervised goroutine.
LEMMA TaskContract ==
  ASSUME TypeOK, CoordInv, CoordInv', NEW p \in Tasks, TaskStep(p)
  PROVE  ContractStep
<1>a. pc \in [Process -> PC] /\ coord \in [Process -> Coordinator] /\ p \in Process
  BY DEF TypeOK, CallType, LocalType, Process
<1>1. CASE Go(p)
  <2>1. /\ UNCHANGED <<cause, started, coord, drainStarted, drainDone>> /\ pc[p] = "idle"
        /\ state' = GoState
    BY <1>1 DEF Go, startVars, stopVars, drainVars
  <2>2. Owned' = Owned /\ Admission' = Admission
    BY <2>1, OwnedStays, AdmissionStays
  <2>3. CASE pc' = [pc EXCEPT ![p] = "done"]
    <3>1. Idle
      BY <1>a, <2>1, <2>3, OthersIdle, Zenon
    <3>2. CASE state' = state
      BY <2>1, <2>2, <3>1, <3>2, Stutters DEF ContractStep, Unseen
    <3>3. CASE state' # state
      <4>1. state = "ready" /\ state' = "draining"
        BY <2>1, <3>3 DEF GoState
      <4>2. Contract!Withdraw
        BY <2>1, <2>2, <3>1, <4>1 DEF Contract!Withdraw, Idle
      <4>. QED
        BY <4>2 DEF ContractStep, Contract!CNext
    <3>. QED
      BY <3>2, <3>3
  <2>4. CASE GoState = "ready" /\ pc' = [pc EXCEPT ![p] = "running"]
    <3>1. state = "ready" /\ state' = state /\ cause = None
      BY <2>1, <2>4 DEF GoState
    <3>2. ActiveTasks' = ActiveTasks \cup {p} /\ p \notin ActiveTasks
      BY <1>a, <2>1, <2>4 DEF ActiveTasks, Process
    <3>3. Contract!Accept(p)
      BY <2>1, <2>2, <3>1, <3>2 DEF Contract!Accept
    <3>. QED
      BY <3>3 DEF ContractStep, Contract!CNext
  <2>. QED
    BY <1>1, <2>3, <2>4 DEF Go, Return, Continue, Goto
<1>2. CASE TaskReturn(p)
  <2>1. /\ UNCHANGED <<state, cause, started, coord, drainStarted, drainDone>>
        /\ pc[p] = "running" /\ \E l \in {"exiting", "sample"} : pc' = [pc EXCEPT ![p] = l]
    BY <1>2 DEF TaskReturn, Continue, Goto, startVars, stopVars, drainVars
  <2>2. Idle
    BY <1>a, <2>1, OthersIdle, Zenon
  <2>. QED
    BY <2>1, <2>2, UnseenSteps, Stutters DEF ContractStep
<1>3. CASE TaskExit(p)
  <2>1. /\ UNCHANGED <<state, cause, started, drainStarted, drainDone>>
        /\ pc[p] = "exiting" /\ pc' = [pc EXCEPT ![p] = "done"]
    BY <1>3 DEF TaskExit, Return, Goto, startVars, drainVars
  <2>2. ActiveTasks' = ActiveTasks \ {p} /\ p \in ActiveTasks
    BY <1>a, <2>1 DEF ActiveTasks, Process
  <2>3. Owned' = Owned
    <3>1. CASE LastTask
      <4>1. StopComponents(p, "stop") /\ "stop" \in {"stop", "rollback"}
        BY <1>3, <3>1, Zenon DEF TaskExit
      <4>2. SingleCoordinator' /\ \A q \in Process : coord[q].op = "idle"
        BY <3>1 DEF LastTask, CoordInv
      <4>. QED
        BY <1>a, <4>1, <4>2, Launched
    <3>2. CASE ~LastTask
      <4>1. UNCHANGED coord
        BY <1>3, <3>2 DEF TaskExit
      <4>. QED
        BY <2>1, <4>1, OwnedStays
    <3>. QED
      BY <3>1, <3>2
  <2>4. Contract!Finish(p)
    BY <2>1, <2>2, <2>3, AdmissionStays DEF Contract!Finish
  <2>. QED
    BY <2>4 DEF ContractStep, Contract!CNext
<1>. QED
  BY <1>1, <1>2, <1>3 DEF TaskStep

\* The steps of cancelWithCause.
LEMMA CancelContract ==
  ASSUME TypeOK, StartedInv, ClosureInv, NEW p \in Cancelers \cup Tasks, CancelStep(p)
  PROVE  ContractStep
<1>a. pc \in [Process -> PC] /\ p \in Process /\ p \notin Starters /\ p # None
  BY ProcessAssumption DEF TypeOK, CallType, Process
<1>1. CASE CancelSample(p)
  <2>1. /\ UNCHANGED <<state, cause, started, coord, drainStarted, drainDone>>
        /\ \E l \in {"drain", "cancel"} : pc' = [pc EXCEPT ![p] = l]
        /\ pc[p] = "sample" \/ p \notin Tasks
    BY <1>1, ProcessAssumption, Zenon
      DEF CancelSample, Continue, Goto, startVars, stopVars, drainVars
  <2>2. Idle
    BY <1>a, <2>1, OthersIdle, Zenon
  <2>. QED
    BY <2>1, <2>2, UnseenSteps, Stutters DEF ContractStep
<1>2. CASE CancelWithCause(p)
  <2>1. /\ UNCHANGED <<state, started, coord, drainStarted, drainDone>>
        /\ pc[p] = "cancel" /\ Cancel(p)
        /\ \E l \in {"exiting", "done"} :
              pc' = [pc EXCEPT ![p] = l] /\ (l = "exiting" \/ p \notin Tasks)
    BY <1>2 DEF CancelWithCause, Continue, Return, Goto, startVars, stopVars, drainVars
  <2>2. Idle
    BY <1>a, <2>1, OthersIdle, Zenon
  <2>3. drainDone = "closed" /\ startDone = "closed" /\ drainStarted
    BY <1>a, <2>1 DEF ClosureInv, AdmittedPC, AdmissionClosed, StartedInv
  <2>4. cause' # None
    BY <1>a, <2>1, <2>3 DEF Cancel
  <2>5. Admission = "closed" /\ Admission' = Admission /\ Owned' = Owned
    BY <2>1, <2>3, OwnedStays, AdmissionStays DEF Admission
  <2>6. Contract!ServiceCancel
    BY <2>1, <2>2, <2>4, <2>5 DEF Contract!ServiceCancel, Idle
  <2>. QED
    BY <2>6 DEF ContractStep, Contract!CNext
<1>. QED
  BY <1>1, <1>2 DEF CancelStep

\* The steps of Shutdown.
LEMMA ShutdownContract ==
  ASSUME TypeOK, CoordInv, StartedInv, ClosureInv, CoordInv', NEW p \in Stoppers, ShutdownStep(p)
  PROVE  ContractStep
<1>a. /\ pc \in [Process -> PC] /\ coord \in [Process -> Coordinator]
      /\ p \in Process /\ p \notin Tasks /\ p \notin Starters
  BY ProcessAssumption DEF TypeOK, CallType, LocalType, Process
<1>b. ASSUME NEW l, pc' = [pc EXCEPT ![p] = l] PROVE Idle
  BY <1>a, <1>b, OthersIdle, Zenon
<1>c. ASSUME UNCHANGED <<state, cause, started, coord, drainStarted, drainDone>>,
             \E l \in PC : pc' = [pc EXCEPT ![p] = l]
      PROVE  ContractStep
  BY <1>b, <1>c, UnseenSteps, Stutters, Zenon DEF ContractStep
<1>1. CASE ShutdownSample(p)
  <2>1. /\ UNCHANGED <<state, cause, started, coord, drainStarted, drainDone>>
        /\ \E l \in PC : pc' = [pc EXCEPT ![p] = l]
    BY <1>1, Zenon DEF ShutdownSample, Continue, Goto, PC, startVars, stopVars, drainVars
  <2>. QED
    BY <1>c, <2>1, Zenon
<1>2. CASE ShutdownJoins(p)
  <2>1. startDone = "closed"
    BY <1>2, <1>a DEF ShutdownJoins, StartedInv
  <2>2. state \notin {"new", "starting"}
    BY <2>1 DEF StartedInv
  <2>3. UNCHANGED <<started, coord, drainStarted, drainDone>>
    BY <1>2 DEF ShutdownJoins, startVars, stopVars, drainVars
  <2>4. UNCHANGED <<state, cause>> /\ \E l \in {"done", "awaitStop"} : pc' = [pc EXCEPT ![p] = l]
    BY <1>2, <2>2 DEF ShutdownJoins, Continue, Return, Goto
  <2>. QED
    BY <1>c, <2>3, <2>4, Zenon DEF PC
<1>3. CASE ShutdownStops(p)
  <2>1. /\ UNCHANGED <<started, drainStarted, drainDone>>
        /\ pc[p] = "locking" /\ Stoppable /\ Cancel("shutdown") /\ state' = "stopping"
        /\ pc' = [pc EXCEPT ![p] = "awaitStop"]
        /\ IF Joined THEN StopComponents(p, "stop") ELSE UNCHANGED coord
    BY <1>3 DEF ShutdownStops, Continue, Goto, startVars, drainVars
  <2>2. drainDone = "closed" /\ drainStarted /\ state = "draining"
    BY <1>a, <2>1 DEF ClosureInv, AdmittedPC, AdmissionClosed, Stoppable
  <2>3. cause' # None
    BY <2>1, <2>2, ProcessAssumption DEF Cancel, StartedInv
  <2>4. SingleCoordinator' /\ \A q \in Process : coord[q].op = "idle"
    BY <2>2 DEF CoordInv
  <2>5. Owned' = Owned
    <3>1. CASE Joined
      <4>1. StopComponents(p, "stop") /\ "stop" \in {"stop", "rollback"}
        BY <2>1, <3>1
      <4>. QED
        BY <1>a, <2>4, <4>1, Launched
    <3>2. CASE ~Joined
      BY <2>1, <3>2, OwnedStays
    <3>. QED
      BY <3>1, <3>2
  <2>6. Idle /\ Admission = "closed" /\ Admission' = Admission
    BY <1>b, <2>1, <2>2, AdmissionStays, Zenon DEF Admission
  <2>7. Contract!Stop
    BY <2>1, <2>2, <2>3, <2>5, <2>6 DEF Contract!Stop, Idle
  <2>. QED
    BY <2>7 DEF ContractStep, Contract!CNext
<1>4. CASE WaitForStartupShutdown(p)
  <2>1. /\ UNCHANGED <<state, cause, started, coord, drainStarted, drainDone>>
        /\ \E l \in PC : pc' = [pc EXCEPT ![p] = l]
    BY <1>4
      DEF WaitForStartupShutdown, Continue, Return, Goto, PC, startVars, stopVars, drainVars
  <2>. QED
    BY <1>c, <2>1, Zenon
<1>5. CASE WaitForShutdown(p)
  <2>1. /\ UNCHANGED <<state, cause, started, coord, drainStarted, drainDone>>
        /\ \E l \in PC : pc' = [pc EXCEPT ![p] = l]
    BY <1>5 DEF WaitForShutdown, Return, Goto, PC, startVars, stopVars, drainVars
  <2>. QED
    BY <1>c, <2>1, Zenon
<1>. QED
  BY <1>1, <1>2, <1>3, <1>4, <1>5 DEF ShutdownStep

\* The steps of stopComponents.
LEMMA StopContract ==
  ASSUME TypeOK, TaskInv, CoordInv, ClosureInv, StopsAfterJoin, CoordInv',
         NEW p \in Process, StopStep(p)
  PROVE  ContractStep
<1>a. coord \in [Process -> Coordinator] /\ coord[p] \in Coordinator /\ coord[p].index \in 0..N
  BY DEF TypeOK, LocalType, Coordinator
<1>b. Stopping(p) /\ state = "stopping" /\ coord[p].op # "idle" /\ SingleCoordinator
  BY DEF StopStep, StopNext, StopPublish, Stopping, CoordInv
<1>c. drainDone = "closed" /\ drainStarted /\ cause # None
  BY <1>b, Zenon DEF ClosureInv, AdmissionClosed
<1>d. Admission = "closed" /\ ActiveTasks = {} /\ Owned = coord[p].index
  BY <1>b, <1>c, OwnedByCoordinator DEF Admission, StopsAfterJoin
<1>e. SingleCoordinator'
  BY DEF CoordInv
<1>1. CASE StopNext(p)
  <2>1. UNCHANGED <<state, cause, pc, drainStarted, drainDone>> /\ coord[p].index > 0
    BY <1>1 DEF StopNext, drainVars
  <2>2. coord'[p].op = coord[p].op /\ coord'[p].index = coord[p].index - 1
    BY <1>1, <1>a DEF StopNext, Coordinator
  <2>3. Owned' = Owned - 1 /\ Owned > 0
    BY <1>b, <1>d, <1>e, <2>1, <2>2, OwnedByCoordinatorNext
  <2>4. Admission' = Admission /\ ActiveTasks' = ActiveTasks
    BY <2>1, AdmissionStays DEF ActiveTasks
  <2>5. Contract!Release
    BY <1>b, <1>c, <1>d, <2>1, <2>3, <2>4 DEF Contract!Release
  <2>. QED
    BY <2>5 DEF ContractStep, Contract!CNext
<1>2. CASE StopPublish(p)
  <2>1. taskCount = 0
    BY <1>b DEF CoordInv, TaskInv
  <2>2. /\ UNCHANGED <<cause, pc, drainStarted, drainDone>> /\ coord[p].index = 0
        /\ state' = "stopped" /\ coord' = [coord EXCEPT ![p].op = "done"]
    BY <1>2, <2>1 DEF StopPublish, FinishShutdownLocked, drainVars
  <2>3. coord'[p].op # "idle" /\ coord'[p].index = 0
    BY <1>a, <2>2 DEF Coordinator
  <2>4. Owned = 0 /\ Owned' = 0
    BY <1>d, <1>e, <2>2, <2>3, OwnedByCoordinatorNext
  <2>5. Admission' = Admission /\ ActiveTasks' = ActiveTasks
    BY <2>2, AdmissionStays DEF ActiveTasks
  <2>6. Contract!Retire
    BY <1>b, <1>c, <1>d, <2>2, <2>4, <2>5 DEF Contract!Retire
  <2>. QED
    BY <2>6 DEF ContractStep, Contract!CNext
<1>. QED
  BY <1>1, <1>2 DEF StopStep

\* Deadlines and the end of the parent context.
LEMMA ExpiryContract ==
  ASSUME TypeOK, StartedInv, Expiry
  PROVE  ContractStep
<1>a. pc \in [Process -> PC] /\ Starters \cup Stoppers \subseteq Process
  BY DEF TypeOK, CallType, Process
<1>b. (Starters \cup Stoppers) \cap Tasks = {}
  BY ProcessAssumption
<1>1. CASE StartupTimeout
  <2>1. UNCHANGED <<state, cause, started, coord, drainStarted, drainDone, pc>>
    BY <1>1 DEF StartupTimeout, stopVars, drainVars
  <2>2. Idle
    BY <2>1 DEF Idle, ActiveTasks
  <2>. QED
    BY <2>1, <2>2, UnseenSteps, Stutters DEF ContractStep
<1>2. CASE ParentCancel
  <2>1. /\ UNCHANGED <<state, started, coord, drainStarted, drainDone, pc>>
        /\ startDone # "nil" /\ cause' = "parent"
    BY <1>2 DEF ParentCancel, startVars, stopVars, drainVars
  <2>2. ActiveTasks' = ActiveTasks /\ Owned' = Owned /\ Admission' = Admission
    BY <2>1, OwnedStays, AdmissionStays DEF ActiveTasks
  <2>3. state # "new" /\ cause' # None
    BY <2>1, ProcessAssumption DEF StartedInv
  <2>4. Contract!ParentCancel
    BY <2>1, <2>2, <2>3 DEF Contract!ParentCancel
  <2>. QED
    BY <2>4 DEF ContractStep, Contract!CNext
<1>3. ASSUME NEW p \in Starters \cup Stoppers, RollbackTimeout(p) \/ WaitExpires(p)
      PROVE  ContractStep
  <2>1. /\ UNCHANGED <<state, cause, started, coord, drainStarted, drainDone>>
        /\ pc' = [pc EXCEPT ![p] = "done"]
    BY <1>3, Zenon DEF RollbackTimeout, WaitExpires, Return, Goto, startVars, stopVars, drainVars
  <2>2. Idle
    BY <1>a, <1>b, <2>1, OthersIdle, Zenon
  <2>. QED
    BY <2>1, <2>2, UnseenSteps, Stutters DEF ContractStep
<1>. QED
  BY <1>1, <1>2, <1>3 DEF Expiry

\* Every step of the lifecycle is a step of the contract, or none.
LEMMA EveryContract ==
  ASSUME TypeOK, TaskInv, StartInv, CoordInv, ResultInv, StopsAfterJoin, StartedInv, ClosureInv,
         CoordInv', [Next]_vars
  PROVE  ContractStep
<1>1. ASSUME UNCHANGED vars PROVE ContractStep
  <2>1. UNCHANGED <<state, cause, started, coord, drainStarted, drainDone, pc>>
    BY <1>1 DEF vars, startVars, stopVars, drainVars
  <2>2. Idle
    BY <2>1 DEF Idle, ActiveTasks
  <2>. QED
    BY <2>1, <2>2, UnseenSteps, Stutters DEF ContractStep
<1>. QED
  BY <1>1, StartContract, DrainContract, TaskContract, CancelContract, ShutdownContract,
    StopContract, ExpiryContract, Zenon
    DEF Next, Terminated

\* The contract starts where the lifecycle does.
LEMMA InitContract == ASSUME Init PROVE Contract!CInit
<1>1. ActiveTasks = {} /\ \A q \in Process : coord[q].op = "idle"
  BY DEF Init, ActiveTasks, Process
<1>2. Owned = 0 /\ Admission = "open"
  BY <1>1, OwnedStarted DEF Init, Admission
<1>. QED
  BY <1>1, <1>2 DEF Init, Contract!CInit

\* The order holds of a new service.
LEMMA InitOrder == ASSUME Init PROVE StartedInv /\ ClosureInv
  BY DEF Init, StartedInv, ClosureInv, AdmittedPC

-----------------------------------------------------------------------------
(* The retained result, and the two properties of single steps *)

\* The result of a stopped service is what was reported, to the last failure.
PublishedInv == state = "stopped" => shutdownErr = drainErrors \o stopErrors \o taskErrors

\* The sequences that the result is made of.
ReportVars == <<shutdownErr, drainErrors, stopErrors, taskErrors>>

\* Nothing is reported once the result is published.
LEMMA PublishedSteps ==
  ASSUME TypeOK, TaskInv, CoordInv, StartedInv, ClosureInv, PublishedInv, [Next]_vars,
         state = "stopped" => ActiveTasks = {}
  PROVE  PublishedInv'
<1>a. ASSUME UNCHANGED ReportVars, state' = "stopped" => state = "stopped" PROVE PublishedInv'
  BY <1>a DEF PublishedInv, ReportVars
<1>1. CASE \E p \in Starters : StartStep(p)
  BY <1>1, <1>a, Zenon
    DEF ReportVars, StartStep, Start, StartComponent, BecomeReady, BeginRollback,
      RollbackCancel, JoinRollback, drainVars, taskVars, stopVars, doneVars
<1>2. ASSUME NEW p \in Process, DrainStep(p) PROVE PublishedInv'
  <2>1. CASE ClosePublish(p)
    <3>1. state # "stopped" /\ state' = state
      BY <2>1, Zenon DEF ClosePublish, ClosureInv, AdmissionClosed
    <3>. QED
      BY <3>1 DEF PublishedInv
  <2>2. CASE Drain(p) \/ CloseAdmission(p) \/ CloseNext(p) \/ AwaitDrain(p)
    BY <2>2, <1>a, Zenon
      DEF ReportVars, Drain, CloseAdmission, CloseNext, AwaitDrain, drainVars, taskVars,
        stopVars, doneVars
  <2>. QED
    BY <1>2, <2>1, <2>2 DEF DrainStep
<1>3. ASSUME NEW p \in Tasks, TaskStep(p) PROVE PublishedInv'
  <2>1. CASE TaskReturn(p)
    <3>1. state # "stopped" /\ state' = state
      BY <2>1 DEF TaskReturn, ActiveTasks
    <3>. QED
      BY <3>1 DEF PublishedInv
  <2>2. CASE Go(p) \/ TaskExit(p)
    BY <2>2, <1>a DEF ReportVars, Go, GoState, TaskExit, drainVars, taskVars, stopVars, doneVars
  <2>. QED
    BY <1>3, <2>1, <2>2 DEF TaskStep
<1>4. CASE \E p \in Cancelers \cup Tasks : CancelStep(p)
  BY <1>4, <1>a
    DEF ReportVars, CancelStep, CancelSample, CancelWithCause, drainVars, taskVars, stopVars,
      doneVars
<1>5. ASSUME NEW p \in Stoppers, ShutdownStep(p) PROVE PublishedInv'
  <2>1. CASE ShutdownJoins(p)
    <3>1. p \in Process \ Starters /\ pc[p] = "locking"
      BY <2>1, ProcessAssumption DEF Process, ShutdownJoins
    <3>2. state # "new"
      BY <3>1 DEF StartedInv
    <3>. QED
      BY <2>1, <3>2, <1>a DEF ReportVars, ShutdownJoins, drainVars, taskVars, stopVars, doneVars
  <2>2. CASE ShutdownSample(p) \/ ShutdownStops(p) \/ WaitForStartupShutdown(p) \/ WaitForShutdown(p)
    BY <2>2, <1>a
      DEF ReportVars, ShutdownSample, ShutdownStops, WaitForStartupShutdown, WaitForShutdown,
        drainVars, taskVars, stopVars, doneVars
  <2>. QED
    BY <1>5, <2>1, <2>2 DEF ShutdownStep
<1>6. ASSUME NEW p \in Process, StopStep(p) PROVE PublishedInv'
  <2>1. CASE StopNext(p)
    BY <2>1, <1>a DEF ReportVars, StopNext, drainVars, taskVars, doneVars
  <2>2. CASE StopPublish(p)
    <3>1. taskCount = 0
      BY <2>2 DEF StopPublish, CoordInv, TaskInv
    <3>. QED
      BY <2>2, <3>1 DEF PublishedInv, StopPublish, FinishShutdownLocked, drainVars, taskVars
  <2>. QED
    BY <1>6, <2>1, <2>2 DEF StopStep
<1>7. CASE Expiry
  BY <1>7, <1>a
    DEF ReportVars, Expiry, StartupTimeout, ParentCancel, RollbackTimeout, WaitExpires,
      drainVars, taskVars, stopVars, doneVars
<1>8. CASE UNCHANGED vars
  BY <1>8, <1>a DEF ReportVars, vars, drainVars, taskVars, stopVars, doneVars
<1>. QED
  BY <1>1, <1>2, <1>3, <1>4, <1>5, <1>6, <1>7, <1>8, Zenon DEF Next, Terminated

\* A step that cancels the service context finds the admission closed, unless
\* it is the end of the parent context.
LEMMA CancelSteps ==
  ASSUME StartedInv, ClosureInv, [Next]_vars, cause' # cause, cause' # "parent"
  PROVE  AdmissionClosed
<1>1. CASE \E p \in Starters : StartStep(p)
  BY <1>1, Zenon
    DEF StartStep, Start, StartComponent, BecomeReady, BeginRollback, RollbackCancel,
      JoinRollback, ClosureInv, AdmittedPC, Process
<1>2. CASE \E p \in Process : DrainStep(p)
  BY <1>2, Zenon DEF DrainStep, Drain, CloseAdmission, CloseNext, ClosePublish, AwaitDrain
<1>3. CASE \E p \in Tasks : TaskStep(p)
  BY <1>3 DEF TaskStep, Go, TaskReturn, TaskExit
<1>4. CASE \E p \in Cancelers \cup Tasks : CancelStep(p)
  BY <1>4, Zenon DEF CancelStep, CancelSample, CancelWithCause, ClosureInv, AdmittedPC, Process
<1>5. CASE \E p \in Stoppers : ShutdownStep(p)
  BY <1>5, Zenon
    DEF ShutdownStep, ShutdownSample, ShutdownJoins, ShutdownStops, WaitForStartupShutdown,
      WaitForShutdown, ClosureInv, AdmittedPC, Process
<1>6. CASE \E p \in Process : StopStep(p)
  BY <1>6 DEF StopStep, StopNext, StopPublish
<1>7. CASE Expiry
  BY <1>7 DEF Expiry, StartupTimeout, ParentCancel, RollbackTimeout, WaitExpires
<1>8. CASE UNCHANGED vars
  BY <1>8 DEF vars
<1>. QED
  BY <1>1, <1>2, <1>3, <1>4, <1>5, <1>6, <1>7, <1>8, Zenon DEF Next, Terminated

\* A service that was ready has left the states of the attempt to start it.
ReadyInv == startedFully => state \notin {"new", "starting"}

\* What no step but the last one of Start may do.
Withdrawn ==
    /\ startedFully' = startedFully
    /\ state' \in {"new", "starting"} => state \in {"new", "starting"}
    /\ state' = "ready" => state = "ready"
    /\ cause' = None => cause = None

\* The last step of Start makes a starting service ready, and no other step,
\* whoever calls and whenever, makes a service ready or takes its cause back.
LEMMA ReadySteps ==
  ASSUME StartInv, ReadyInv, [Next]_vars
  PROVE  ReadyInv' /\ (startedFully /\ ~Ready => ~Ready')
<1>a. ASSUME Withdrawn PROVE ReadyInv' /\ (startedFully /\ ~Ready => ~Ready')
  BY <1>a DEF Withdrawn, ReadyInv, Ready
<1>b. \A c : Cancel(c) => c = None \/ (cause' = None => cause = None)
  BY DEF Cancel
<1>c. \A c \in {"parent", "shutdown", "startup"} \cup Process : c # None
  BY ProcessAssumption
<1>1. ASSUME NEW p \in Starters, StartStep(p)
      PROVE  ReadyInv' /\ (startedFully /\ ~Ready => ~Ready')
  <2>1. CASE BecomeReady(p)
    <3>1. ~startedFully
      BY <2>1, Zenon DEF BecomeReady, StartInv, ReadyInv
    <3>2. ReadyInv'
      BY <2>1, <3>1, Zenon DEF BecomeReady, ReadyInv
    <3>. QED
      BY <3>1, <3>2
  <2>2. CASE Start(p)
    <3>1. /\ startedFully' = startedFully /\ cause' = cause
          /\ state' \in {state, "starting"} /\ (state' # state => state = "new")
      BY <2>2 DEF Start, Startable
    <3>. QED
      BY <1>a, <3>1 DEF Withdrawn
  <2>3. CASE RollbackCancel(p)
    BY <2>3, <1>a, <1>b, <1>c DEF Withdrawn, RollbackCancel, startVars
  <2>4. CASE StartComponent(p) \/ BeginRollback(p) \/ JoinRollback(p)
    BY <2>4, <1>a, Zenon DEF Withdrawn, StartComponent, BeginRollback, JoinRollback, startVars
  <2>. QED
    BY <1>1, <2>1, <2>2, <2>3, <2>4 DEF StartStep
<1>2. CASE \E p \in Process : DrainStep(p)
  BY <1>2, <1>a, Zenon
    DEF Withdrawn, DrainStep, Drain, CloseAdmission, CloseNext, ClosePublish, AwaitDrain,
      startVars
<1>3. CASE \E p \in Tasks : TaskStep(p)
  BY <1>3, <1>a DEF Withdrawn, TaskStep, Go, GoState, TaskReturn, TaskExit, startVars
<1>4. CASE \E p \in Cancelers \cup Tasks : CancelStep(p)
  BY <1>4, <1>a, <1>b, <1>c, Zenon
    DEF Withdrawn, CancelStep, CancelSample, CancelWithCause, startVars, Process
<1>5. CASE \E p \in Stoppers : ShutdownStep(p)
  BY <1>5, <1>a, <1>b, <1>c, Zenon
    DEF Withdrawn, ShutdownStep, ShutdownSample, ShutdownJoins, ShutdownStops,
      WaitForStartupShutdown, WaitForShutdown, startVars
<1>6. CASE \E p \in Process : StopStep(p)
  BY <1>6, <1>a DEF Withdrawn, StopStep, StopNext, StopPublish, FinishShutdownLocked, startVars
<1>7. CASE Expiry
  BY <1>7, <1>a
    DEF Withdrawn, Expiry, StartupTimeout, ParentCancel, RollbackTimeout, WaitExpires, startVars
<1>8. CASE UNCHANGED vars
  BY <1>8, <1>a DEF Withdrawn, vars, startVars
<1>. QED
  BY <1>1, <1>2, <1>3, <1>4, <1>5, <1>6, <1>7, <1>8, Zenon DEF Next, Terminated

-----------------------------------------------------------------------------
\* The inductive invariant holds of the service that New returns.
LEMMA InitInv == Init => IInv
<1>. SUFFICES ASSUME Init PROVE IInv
  OBVIOUS
<1>1. Starters \subseteq Process /\ Stoppers \subseteq Process /\ Tasks \subseteq Process
  BY DEF Process
<1>2. ActiveTasks = {}
  BY <1>1 DEF Init, ActiveTasks
<1>3. TaskInv
  BY <1>2, FS_EmptySet, SizeAssumption DEF Init, TaskInv, TasksCounted
<1>4. StartInv
  BY <1>1 DEF Init, StartInv, RollbackPC
<1>5. CoordInv
  BY DEF Init, CoordInv, SingleCoordinator, Stopping
<1>6. ResultInv
  BY <1>1 DEF Init, ResultInv, TerminalResult
<1>. QED
  BY InitType, <1>3, <1>4, <1>5, <1>6 DEF IInv

\* Every step preserves the inductive invariant.
LEMMA NextInv == IInv /\ [Next]_vars => IInv'
  BY NextType, TaskStepInv, StartStepInv, CoordStepInv, ResultStepInv DEF IInv

\* The inductive invariant holds in every reachable state, for any number of
\* components and of concurrent callers.
THEOREM Inductive == Spec => []IInv
  BY InitInv, NextInv, PTL DEF Spec

\* Every reachable state of the service is well typed; in particular the loops of
\* closeAdmission and stopComponents never leave the range of the components.
THEOREM TypeCorrect == Spec => []TypeOK
<1>1. IInv => TypeOK
  BY DEF IInv
<1>. QED
  BY <1>1, Inductive, PTL

\* No task is left when the cleanup has begun, nor in a stopped service.
LEMMA NoTasksLeft ==
  ASSUME IInv, stopsStarted \/ state = "stopped"
  PROVE  ActiveTasks = {}
<1>1. Cardinality(ActiveTasks) = 0
  BY DEF IInv, TaskInv, TasksCounted
<1>2. IsFiniteSet(ActiveTasks)
  BY SizeAssumption, FS_Subset DEF ActiveTasks
<1>. QED
  BY <1>1, <1>2, FS_EmptySet

\* No Stop callback runs while a supervised task runs, whichever of Shutdown, a
\* failed Start and the last task launches stopComponents.
THEOREM CleanupAfterJoin == Spec => []StopsAfterJoin
<1>1. IInv => StopsAfterJoin
  BY NoTasksLeft DEF IInv, CoordInv, Stopping, StopsAfterJoin
<1>. QED
  BY <1>1, Inductive, PTL

\* stopComponents is launched at most once in the life of a service.
THEOREM OneCoordinator == Spec => []SingleCoordinator
<1>1. IInv => SingleCoordinator
  BY DEF IInv, CoordInv
<1>. QED
  BY <1>1, Inductive, PTL

\* taskCount is the number of live tasks and never exceeds MaxTasks.
THEOREM TaskLimit == Spec => []TasksCounted
<1>1. IInv => TasksCounted
  BY DEF IInv, TaskInv
<1>. QED
  BY <1>1, Inductive, PTL

\* Every Shutdown that does not time out returns the one retained result of a
\* stopped service.
THEOREM OneResult == Spec => []TerminalResult
<1>1. IInv => TerminalResult
  BY DEF IInv, ResultInv
<1>. QED
  BY <1>1, Inductive, PTL

\* Readiness, once withdrawn, never comes back, whichever calls race.
THEOREM ReadinessStaysWithdrawn == Spec => ReadinessWithdrawn
<1>1. Init => ReadyInv
  BY DEF Init, ReadyInv
<1>2. IInv /\ ReadyInv /\ [Next]_vars => ReadyInv'
  BY ReadySteps DEF IInv
<1>3. IInv /\ ReadyInv /\ [Next]_vars => [startedFully /\ ~Ready => ~Ready']_vars
  BY ReadySteps DEF IInv
<1>. QED
  BY <1>1, <1>2, <1>3, Inductive, PTL DEF Spec, ReadinessWithdrawn

-----------------------------------------------------------------------------
(* What holds when no call overtakes Start *)

\* The inductive invariant of the ordered service.
OrderInv == IInv /\ StartedInv /\ ClosureInv /\ PublishedInv

\* A new service satisfies it.
LEMMA InitOrderInv == Init => OrderInv
<1>1. Init => PublishedInv
  BY DEF Init, PublishedInv
<1>. QED
  BY <1>1, InitInv, InitOrder DEF OrderInv

\* Every step keeps it.
LEMMA NextOrderInv ==
  ASSUME Ordered
  PROVE  OrderInv /\ [Next]_vars => OrderInv'
<1>. SUFFICES ASSUME OrderInv, [Next]_vars PROVE OrderInv'
  OBVIOUS
<1>1. TypeOK /\ TaskInv /\ StartInv /\ CoordInv /\ ResultInv
  BY DEF OrderInv, IInv
<1>2. StartedInv' /\ ClosureInv'
  BY <1>1, StartedSteps, ClosureSteps DEF OrderInv
<1>3. PublishedInv'
  BY <1>1, NoTasksLeft, PublishedSteps DEF OrderInv
<1>. QED
  BY <1>2, <1>3, NextInv DEF OrderInv

\* When no call overtakes Start, every reachable state is ordered.
THEOREM OrderInductive == ASSUME Ordered PROVE Spec => []OrderInv
  BY InitOrderInv, NextOrderInv, PTL DEF Spec

\* No Stop callback runs before, or while, the admission callbacks run.
THEOREM StopsAfterAdmission == ASSUME Ordered PROVE Spec => []AdmissionBeforeStop
<1>1. OrderInv => AdmissionBeforeStop
  BY Zenon DEF OrderInv, ClosureInv, AdmissionBeforeStop, Stopping
<1>. QED
  BY <1>1, OrderInductive, PTL

\* A step that cancels the service context, other than the end of the parent
\* context, finds the admission closure finished.
THEOREM CancelsAfterAdmission == ASSUME Ordered PROVE Spec => AdmissionBeforeCancel
<1>1. OrderInv /\ [Next]_vars => [cause' # cause /\ cause' # "parent" => AdmissionClosed]_vars
  BY CancelSteps DEF OrderInv
<1>. QED
  BY <1>1, OrderInductive, PTL DEF Spec, AdmissionBeforeCancel

\* The retained result holds every failure that was reported, in the order of
\* admission callbacks, Stop callbacks and tasks.
THEOREM ResultComplete == ASSUME Ordered PROVE Spec => []FailuresRetained
<1>1. OrderInv => FailuresRetained
  BY NoTasksLeft DEF OrderInv, ClosureInv, PublishedInv, FailuresRetained
<1>. QED
  BY <1>1, OrderInductive, PTL

\* The lifecycle implements ServiceContract.
THEOREM Implements == ASSUME Ordered PROVE Spec => ImplementsContract
<1>1. Init => Contract!CInit
  BY InitContract
<1>2. OrderInv /\ OrderInv' /\ [Next]_vars => [Contract!CNext]_(Contract!cvars)
  <2>. SUFFICES ASSUME OrderInv, OrderInv', [Next]_vars
                PROVE  ContractStep
    BY DEF ContractStep
  <2>1. TypeOK /\ TaskInv /\ StartInv /\ CoordInv /\ ResultInv /\ StartedInv /\ ClosureInv
    BY DEF OrderInv, IInv
  <2>2. StopsAfterJoin
    BY NoTasksLeft DEF OrderInv, IInv, CoordInv, Stopping, StopsAfterJoin
  <2>3. CoordInv'
    BY DEF OrderInv, IInv
  <2>. QED
    BY <2>1, <2>2, <2>3, EveryContract
<1>. QED
  BY <1>1, <1>2, OrderInductive, PTL DEF Spec, ImplementsContract, Contract!CSpec

=============================================================================
