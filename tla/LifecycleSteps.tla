--------------------------- MODULE LifecycleSteps ---------------------------
(***************************************************************************)
(* What every step of Lifecycle preserves: its types and the parts of the  *)
(* inductive invariant.                                                    *)
(***************************************************************************)
EXTENDS Lifecycle, FiniteSetTheorems, TLAPS

\* A leaf has more than the default time: in a long module it may wait for another.
USE SMTT(20), ZenonT(20)

-----------------------------------------------------------------------------
(* Types.                                                                  *)

\* Failure lists, which the code builds with append only, stay failure lists.
LEMMA FailureSeqs ==
  /\ <<>> \in Failures
  /\ \A s, t \in Failures : s \o t \in Failures
  /\ \A s \in Failures, f \in Failure : Append(s, f) \in Failures
  BY DEF Failures

\* Every ComponentError that lifecycle.go constructs is a failure.
LEMMA FailureRecords ==
  /\ \A i \in 0..N : /\ [component |-> i, operation |-> "closeAdmission"] \in Failure
                     /\ [component |-> i, operation |-> "stop"] \in Failure
                     /\ [component |-> i, operation |-> "rollback"] \in Failure
  /\ \A t \in Tasks : [component |-> t, operation |-> "run"] \in Failure
  BY DEF Failure

\* A call that returns leaves the control state well typed.
LEMMA ReturnType ==
  ASSUME CallType, NEW p \in Process, NEW k \in Kind, NEW e \in Failures, Return(p, k, e)
  PROVE  CallType'
  BY DEF CallType, Return, Goto, PC, Result

\* A call that goes on to its next step leaves the control state well typed.
LEMMA ContinueType ==
  ASSUME CallType, NEW p \in Process, NEW l \in PC, Continue(p, l)
  PROVE  CallType'
  BY DEF CallType, Continue, Goto

\* A launched stopComponents goroutine is a well-typed coordinator.
LEMMA LaunchType ==
  ASSUME coord \in [Process -> Coordinator], started \in 0..N,
         NEW p \in Process, NEW op \in {"stop", "rollback"}, StopComponents(p, op)
  PROVE  coord' \in [Process -> Coordinator]
  BY FailureSeqs DEF StopComponents, Coordinator

\* New returns a service that is well typed.
LEMMA InitType == Init => TypeOK
<1>. SUFFICES ASSUME Init PROVE TypeOK
  OBVIOUS
<1>1. <<>> \in Failures /\ 0 \in 0..N /\ 0 \in Int
  BY SizeAssumption, FailureSeqs
<1>2. ServiceType
  BY <1>1, Zenon DEF Init, ServiceType, State, Channel
<1>3. ErrorType
  BY <1>1 DEF Init, ErrorType
<1>4. pc \in [Process -> PC] /\ result \in [Process -> Result]
  BY <1>1 DEF Init, PC, Result, Kind
<1>5. index \in [Process -> 0..N] /\ failures \in [Process -> Failures]
  BY <1>1 DEF Init
<1>6. coord \in [Process -> Coordinator]
  BY <1>1 DEF Init, Coordinator
<1>. QED
  BY <1>2, <1>3, <1>4, <1>5, <1>6 DEF TypeOK, CallType, LocalType

\* The flags of the service, and the rest of its fields.
FlagType ==
    /\ startedFully \in BOOLEAN /\ startupExpired \in BOOLEAN /\ drainStarted \in BOOLEAN
    /\ stopsStarted \in BOOLEAN /\ stopsDone \in BOOLEAN
FieldType ==
    /\ state \in State /\ started \in 0..N /\ startDone \in Channel
    /\ cause \in Cause \cup {None} /\ drainDone \in Channel /\ taskCount \in Int
    /\ stopContext \in Stoppers \cup {None} /\ shutdownDone \in Channel

\* Flags stay flags.
LEMMA FlagSteps ==
  ASSUME FlagType, [Next]_vars
  PROVE  FlagType'
<1>1. CASE \E p \in Starters : StartStep(p)
  BY <1>1, Zenon
    DEF FlagType, StartStep, Start, StartComponent, BecomeReady, BeginRollback,
      RollbackCancel, JoinRollback, Cancel, StopComponents, startVars, drainVars, taskVars,
      stopVars, doneVars
<1>2. CASE \E p \in Process : DrainStep(p)
  BY <1>2, Zenon
    DEF FlagType, DrainStep, Drain, CloseAdmission, CloseNext, ClosePublish, AwaitDrain,
      DrainReturn, AfterDrain, startVars, drainVars, taskVars, stopVars, doneVars
<1>3. CASE \E p \in Tasks : TaskStep(p)
  BY <1>3, Zenon
    DEF FlagType, TaskStep, Go, TaskReturn, TaskExit, GoState, StopComponents, startVars,
      drainVars, taskVars, stopVars, doneVars
<1>4. CASE \E p \in Cancelers \cup Tasks : CancelStep(p)
  BY <1>4, Zenon
    DEF FlagType, CancelStep, CancelSample, CancelWithCause, Cancel, startVars, drainVars,
      taskVars, stopVars, doneVars
<1>5. CASE \E p \in Stoppers : ShutdownStep(p)
  BY <1>5, Zenon
    DEF FlagType, ShutdownStep, ShutdownSample, ShutdownJoins, ShutdownStops,
      WaitForStartupShutdown, WaitForShutdown, Cancel, StopComponents, Joined, startVars,
      drainVars, taskVars, stopVars, doneVars
<1>6. CASE \E p \in Process : StopStep(p)
  BY <1>6, Zenon
    DEF FlagType, StopStep, StopNext, StopPublish, FinishShutdownLocked, startVars,
      drainVars, taskVars, stopVars, doneVars
<1>7. CASE Expiry
  BY <1>7, Zenon
    DEF FlagType, Expiry, StartupTimeout, ParentCancel, RollbackTimeout, WaitExpires,
      startVars, drainVars, taskVars, stopVars, doneVars
<1>8. CASE UNCHANGED vars
  BY <1>8, Zenon
    DEF FlagType, vars, startVars, drainVars, taskVars, stopVars, doneVars
<1>. QED
  BY <1>1, <1>2, <1>3, <1>4, <1>5, <1>6, <1>7, <1>8, Zenon DEF Next, Terminated

\* The other fields keep their types.
LEMMA FieldSteps ==
  ASSUME FieldType, [Next]_vars
  PROVE  FieldType'
<1>1. CASE \E p \in Starters : StartStep(p)
  BY <1>1, SizeAssumption
    DEF FieldType, State, Channel, Cause, Process, StartStep, Start, StartComponent,
      BecomeReady, BeginRollback, RollbackCancel, JoinRollback, Cancel, StopComponents,
      startVars, drainVars, taskVars, stopVars, doneVars
<1>2. CASE \E p \in Process : DrainStep(p)
  BY <1>2, SizeAssumption
    DEF FieldType, State, Channel, Cause, Process, DrainStep, Drain, CloseAdmission,
      CloseNext, ClosePublish, AwaitDrain, DrainReturn, AfterDrain, startVars, drainVars,
      taskVars, stopVars, doneVars
<1>3. CASE \E p \in Tasks : TaskStep(p)
  BY <1>3, SizeAssumption
    DEF FieldType, State, Channel, Cause, Process, TaskStep, Go, TaskReturn, TaskExit,
      GoState, StopComponents, startVars, drainVars, taskVars, stopVars, doneVars
<1>4. CASE \E p \in Cancelers \cup Tasks : CancelStep(p)
  BY <1>4, SizeAssumption
    DEF FieldType, State, Channel, Cause, Process, CancelStep, CancelSample,
      CancelWithCause, Cancel, startVars, drainVars, taskVars, stopVars, doneVars
<1>5. CASE \E p \in Stoppers : ShutdownStep(p)
  BY <1>5, SizeAssumption
    DEF FieldType, State, Channel, Cause, Process, ShutdownStep, ShutdownSample,
      ShutdownJoins, ShutdownStops, WaitForStartupShutdown, WaitForShutdown, Cancel,
      StopComponents, Joined, startVars, drainVars, taskVars, stopVars, doneVars
<1>6. CASE \E p \in Process : StopStep(p)
  BY <1>6, SizeAssumption
    DEF FieldType, State, Channel, Cause, Process, StopStep, StopNext, StopPublish,
      FinishShutdownLocked, startVars, drainVars, taskVars, stopVars, doneVars
<1>7. CASE Expiry
  BY <1>7, SizeAssumption
    DEF FieldType, State, Channel, Cause, Process, Expiry, StartupTimeout, ParentCancel,
      RollbackTimeout, WaitExpires, startVars, drainVars, taskVars, stopVars, doneVars
<1>8. CASE UNCHANGED vars
  BY <1>8, SizeAssumption
    DEF FieldType, State, Channel, Cause, Process, vars, startVars, drainVars, taskVars,
      stopVars, doneVars
<1>. QED
  BY <1>1, <1>2, <1>3, <1>4, <1>5, <1>6, <1>7, <1>8, Zenon DEF Next, Terminated

\* So do the lists of failures.
LEMMA ErrorSteps ==
  ASSUME ErrorType, LocalType, [Next]_vars
  PROVE  ErrorType'
<1>1. CASE \E p \in Starters : StartStep(p)
  BY <1>1
    DEF ErrorType, LocalType, Coordinator, Process, StartStep, Start, StartComponent,
      BecomeReady, BeginRollback, RollbackCancel, JoinRollback, Cancel, StopComponents,
      startVars, drainVars, taskVars, stopVars, doneVars
<1>2. CASE \E p \in Process : DrainStep(p)
  <2>. PICK p \in Process : DrainStep(p)
    BY <1>2
  <2>1. CASE ClosePublish(p)
    <3>1. failures[p] \in Failures
      BY DEF LocalType
    <3>2. drainErrors \o failures[p] \in Failures
      BY <3>1, FailureSeqs DEF ErrorType
    <3>. QED
      BY <2>1, <3>2 DEF ErrorType, ClosePublish, taskVars, stopVars, doneVars
  <2>2. CASE Drain(p) \/ CloseAdmission(p) \/ CloseNext(p) \/ AwaitDrain(p)
    BY <2>2
      DEF ErrorType, Drain, CloseAdmission, CloseNext, AwaitDrain, startVars, drainVars,
        taskVars, stopVars, doneVars
  <2>. QED
    BY <2>1, <2>2 DEF DrainStep
<1>3. CASE \E p \in Tasks : TaskStep(p)
  <2>. PICK p \in Tasks : TaskStep(p)
    BY <1>3
  <2>. p \in Process
    BY DEF Process
  <2>1. CASE TaskReturn(p)
    BY <2>1, FailureSeqs, FailureRecords, Zenon
      DEF ErrorType, TaskReturn, drainVars, stopVars, doneVars
  <2>2. CASE Go(p) \/ TaskExit(p)
    BY <2>2
      DEF ErrorType, Go, TaskExit, startVars, drainVars, taskVars, stopVars, doneVars
  <2>. QED
    BY <2>1, <2>2 DEF TaskStep
<1>4. CASE \E p \in Cancelers \cup Tasks : CancelStep(p)
  BY <1>4
    DEF ErrorType, LocalType, Coordinator, Process, CancelStep, CancelSample,
      CancelWithCause, Cancel, startVars, drainVars, taskVars, stopVars, doneVars
<1>5. CASE \E p \in Stoppers : ShutdownStep(p)
  BY <1>5
    DEF ErrorType, LocalType, Coordinator, Process, ShutdownStep, ShutdownSample,
      ShutdownJoins, ShutdownStops, WaitForStartupShutdown, WaitForShutdown, Cancel,
      StopComponents, Joined, startVars, drainVars, taskVars, stopVars, doneVars
<1>6. CASE \E p \in Process : StopStep(p)
  <2>. PICK p \in Process : StopStep(p)
    BY <1>6
  <2>1. CASE StopNext(p)
    BY <2>1 DEF ErrorType, StopNext, drainVars, taskVars, doneVars
  <2>2. CASE StopPublish(p)
    <3>1. stopErrors' \in Failures
      BY <2>2, FailureSeqs DEF ErrorType, LocalType, Coordinator, StopPublish
    <3>2. drainErrors \o stopErrors' \in Failures
      BY <3>1, FailureSeqs DEF ErrorType
    <3>3. (drainErrors \o stopErrors') \o taskErrors \in Failures
      BY <3>2, FailureSeqs DEF ErrorType
    <3>. QED
      BY <2>2, <3>1, <3>3, Zenon DEF ErrorType, StopPublish, FinishShutdownLocked, drainVars,
        taskVars, doneVars
  <2>. QED
    BY <2>1, <2>2 DEF StopStep
<1>7. CASE Expiry
  BY <1>7
    DEF ErrorType, LocalType, Coordinator, Process, Expiry, StartupTimeout, ParentCancel,
      RollbackTimeout, WaitExpires, startVars, drainVars, taskVars, stopVars, doneVars
<1>8. CASE UNCHANGED vars
  BY <1>8
    DEF ErrorType, LocalType, Coordinator, Process, vars, startVars, drainVars, taskVars,
      stopVars, doneVars
<1>. QED
  BY <1>1, <1>2, <1>3, <1>4, <1>5, <1>6, <1>7, <1>8, Zenon DEF Next, Terminated

\* So do the labels and the results of the calls.
LEMMA CallSteps ==
  ASSUME TypeOK, [Next]_vars
  PROVE  CallType'
<1>1. CASE \E p \in Starters : StartStep(p)
  BY <1>1, FailureSeqs, FailureRecords, ReturnType, ContinueType, ZenonT(30)
    DEF TypeOK, ErrorType, CallType, LocalType, Coordinator, PC, Kind, Process, StartStep,
      Start, StartComponent, BecomeReady, BeginRollback, RollbackCancel, JoinRollback, Cancel,
      StopComponents, startVars, drainVars, taskVars, stopVars, doneVars
<1>2. CASE \E p \in Process : DrainStep(p)
  BY <1>2, FailureSeqs, FailureRecords, ReturnType, ContinueType, ZenonT(30)
    DEF TypeOK, ErrorType, CallType, LocalType, Coordinator, PC, Kind, Process, DrainStep,
      Drain, CloseAdmission, CloseNext, ClosePublish, AwaitDrain, DrainReturn, AfterDrain,
      startVars, drainVars, taskVars, stopVars, doneVars
<1>3. CASE \E p \in Tasks : TaskStep(p)
  BY <1>3, FailureSeqs, FailureRecords, ReturnType, ContinueType, Zenon
    DEF TypeOK, ErrorType, CallType, LocalType, Coordinator, PC, Kind, Process, TaskStep,
      Go, TaskReturn, TaskExit, GoState, StopComponents, startVars, drainVars, taskVars,
      stopVars, doneVars
<1>4. CASE \E p \in Cancelers \cup Tasks : CancelStep(p)
  BY <1>4, FailureSeqs, FailureRecords, ReturnType, ContinueType, Zenon
    DEF TypeOK, ErrorType, CallType, LocalType, Coordinator, PC, Kind, Process, CancelStep,
      CancelSample, CancelWithCause, Cancel, startVars, drainVars, taskVars, stopVars,
      doneVars
<1>5. CASE \E p \in Stoppers : ShutdownStep(p)
  BY <1>5, FailureSeqs, FailureRecords, ReturnType, ContinueType, Zenon
    DEF TypeOK, ErrorType, CallType, LocalType, Coordinator, PC, Kind, Process,
      ShutdownStep, ShutdownSample, ShutdownJoins, ShutdownStops, WaitForStartupShutdown,
      WaitForShutdown, Cancel, StopComponents, Joined, startVars, drainVars, taskVars,
      stopVars, doneVars
<1>6. CASE \E p \in Process : StopStep(p)
  BY <1>6, FailureSeqs, FailureRecords, ReturnType, ContinueType, Zenon
    DEF TypeOK, ErrorType, CallType, LocalType, Coordinator, PC, Kind, Process, StopStep,
      StopNext, StopPublish, FinishShutdownLocked, startVars, drainVars, taskVars, stopVars,
      doneVars
<1>7. CASE Expiry
  <2>1. CASE StartupTimeout \/ ParentCancel
    BY <2>1, Zenon DEF TypeOK, CallType, StartupTimeout, ParentCancel
  <2>2. ASSUME NEW p \in Starters, RollbackTimeout(p) PROVE CallType'
    <3>1. 0 \in 0..N
      BY SizeAssumption
    <3>2. [component |-> 0, operation |-> "rollback"] \in Failure
      BY <3>1, FailureRecords, Zenon
    <3>3. Append(drainErrors, [component |-> 0, operation |-> "rollback"]) \in Failures
      BY <3>2, FailureSeqs DEF TypeOK, ErrorType
    <3>. QED
      BY <2>2, <3>3, ReturnType, Zenon DEF TypeOK, RollbackTimeout, Kind, Process
  <2>3. ASSUME NEW p \in Stoppers, WaitExpires(p) PROVE CallType'
    BY <2>3, ReturnType, FailureSeqs, Zenon DEF TypeOK, WaitExpires, Kind, Process
  <2>. QED
    BY <1>7, <2>1, <2>2, <2>3 DEF Expiry
<1>8. CASE UNCHANGED vars
  BY <1>8, FailureSeqs, FailureRecords, ReturnType, ContinueType, Zenon
    DEF TypeOK, ErrorType, CallType, LocalType, Coordinator, PC, Kind, Process, vars,
      startVars, drainVars, taskVars, stopVars, doneVars
<1>. QED
  BY <1>1, <1>2, <1>3, <1>4, <1>5, <1>6, <1>7, <1>8, Zenon DEF Next, Terminated

\* So do the local variables of the loops.
LEMMA LocalSteps ==
  ASSUME TypeOK, [Next]_vars
  PROVE  LocalType'
<1>1. CASE \E p \in Starters : StartStep(p)
  <2>. PICK p \in Starters : StartStep(p)
    BY <1>1
  <2>. p \in Process
    BY DEF Process
  <2>1. CASE BeginRollback(p)
    BY <2>1 DEF TypeOK, ServiceType, LocalType, BeginRollback
  <2>2. CASE RollbackCancel(p)
    BY <2>2, LaunchType DEF TypeOK, ServiceType, LocalType, RollbackCancel, drainVars
  <2>3. CASE Start(p) \/ StartComponent(p) \/ BecomeReady(p) \/ JoinRollback(p)
    BY <2>3
      DEF TypeOK, LocalType, Start, StartComponent, BecomeReady, JoinRollback, startVars,
        drainVars, taskVars, stopVars, doneVars
  <2>. QED
    BY <2>1, <2>2, <2>3 DEF StartStep
<1>2. CASE \E p \in Process : DrainStep(p)
  <2>. PICK p \in Process : DrainStep(p)
    BY <1>2
  <2>1. CASE CloseNext(p)
    <3>1. failures[p] \in Failures /\ index[p] \in 0..N /\ index[p] - 1 \in 0..N
      BY <2>1, SizeAssumption DEF TypeOK, LocalType, CloseNext
    <3>2. Append(failures[p], [component |-> index[p],
                               operation |-> "closeAdmission"]) \in Failures
      BY <3>1, FailureSeqs, FailureRecords, Zenon
    <3>3. failures' \in [Process -> Failures]
      BY <2>1, <3>2, Zenon DEF TypeOK, LocalType, CloseNext
    <3>. QED
      BY <2>1, <3>1, <3>3, Zenon DEF TypeOK, LocalType, CloseNext, stopVars
  <2>2. CASE Drain(p) \/ CloseAdmission(p)
    BY <2>2, SizeAssumption
      DEF TypeOK, ServiceType, LocalType, Drain, CloseAdmission, stopVars
  <2>3. CASE ClosePublish(p) \/ AwaitDrain(p)
    BY <2>3, FailureSeqs, Zenon DEF TypeOK, LocalType, ClosePublish, AwaitDrain, drainVars, stopVars
  <2>. QED
    BY <2>1, <2>2, <2>3 DEF DrainStep
<1>3. CASE \E p \in Tasks : TaskStep(p)
  <2>. PICK p \in Tasks : TaskStep(p)
    BY <1>3
  <2>. p \in Process
    BY DEF Process
  <2>1. CASE TaskExit(p)
    BY <2>1, LaunchType DEF TypeOK, ServiceType, LocalType, TaskExit, drainVars
  <2>2. CASE Go(p) \/ TaskReturn(p)
    BY <2>2
      DEF TypeOK, LocalType, Go, TaskReturn, startVars, drainVars, taskVars, stopVars,
        doneVars
  <2>. QED
    BY <2>1, <2>2 DEF TaskStep
<1>4. CASE \E p \in Cancelers \cup Tasks : CancelStep(p)
  BY <1>4
    DEF TypeOK, ServiceType, LocalType, Coordinator, Process, CancelStep, CancelSample,
      CancelWithCause, Cancel, startVars, drainVars, taskVars, stopVars, doneVars
<1>5. CASE \E p \in Stoppers : ShutdownStep(p)
  <2>. PICK p \in Stoppers : ShutdownStep(p)
    BY <1>5
  <2>. p \in Process
    BY DEF Process
  <2>1. CASE ShutdownStops(p)
    BY <2>1, LaunchType, Zenon
      DEF TypeOK, ServiceType, LocalType, ShutdownStops, drainVars
  <2>2. CASE ShutdownSample(p) \/ ShutdownJoins(p) \/ WaitForStartupShutdown(p) \/ WaitForShutdown(p)
    BY <2>2, Zenon
      DEF TypeOK, LocalType, ShutdownSample, ShutdownJoins, WaitForStartupShutdown,
        WaitForShutdown, startVars, drainVars, taskVars, stopVars, doneVars
  <2>. QED
    BY <2>1, <2>2 DEF ShutdownStep
<1>6. CASE \E p \in Process : StopStep(p)
  <2>. PICK p \in Process : StopStep(p)
    BY <1>6
  <2>1. CASE StopNext(p)
    <3>1. /\ coord[p].op \in {"stop", "rollback"} /\ coord[p].index \in 0..N
          /\ coord[p].index - 1 \in 0..N /\ coord[p].failures \in Failures
      BY <2>1, SizeAssumption DEF TypeOK, LocalType, Coordinator, StopNext
    <3>2. Append(coord[p].failures, [component |-> coord[p].index,
                                     operation |-> coord[p].op]) \in Failures
      BY <3>1, FailureSeqs, FailureRecords, Zenon
    <3>3. CASE coord' = [coord EXCEPT ![p].index = @ - 1]
      BY <2>1, <3>1, <3>3 DEF TypeOK, LocalType, Coordinator, StopNext, drainVars
    <3>4. CASE coord' = [coord EXCEPT ![p] =
                [op |-> coord[p].op, index |-> coord[p].index - 1,
                 failures |-> Append(coord[p].failures,
                    [component |-> coord[p].index, operation |-> coord[p].op])]]
      BY <2>1, <3>1, <3>2, <3>4 DEF TypeOK, LocalType, Coordinator, StopNext, drainVars
    <3>. QED
      BY <2>1, <3>3, <3>4 DEF StopNext
  <2>2. CASE StopPublish(p)
    BY <2>2, Zenon DEF TypeOK, LocalType, Coordinator, StopPublish, drainVars
  <2>. QED
    BY <2>1, <2>2 DEF StopStep
<1>7. CASE Expiry
  BY <1>7
    DEF TypeOK, ServiceType, LocalType, Coordinator, Process, Expiry, StartupTimeout,
      ParentCancel, RollbackTimeout, WaitExpires, startVars, drainVars, taskVars, stopVars,
      doneVars
<1>8. CASE UNCHANGED vars
  BY <1>8
    DEF TypeOK, ServiceType, LocalType, Coordinator, Process, vars, startVars, drainVars,
      taskVars, stopVars, doneVars
<1>. QED
  BY <1>1, <1>2, <1>3, <1>4, <1>5, <1>6, <1>7, <1>8, Zenon DEF Next, Terminated

\* Every critical section, callback return and receive preserves the types.
LEMMA NextType ==
  ASSUME TypeOK, [Next]_vars
  PROVE  TypeOK'
<1>1. FlagType /\ FieldType /\ ErrorType /\ LocalType
  BY DEF TypeOK, ServiceType, FlagType, FieldType
<1>2. FlagType' /\ FieldType' /\ ErrorType' /\ CallType' /\ LocalType'
  BY <1>1, FlagSteps, FieldSteps, ErrorSteps, CallSteps, LocalSteps
<1>. QED
  BY <1>2 DEF TypeOK, ServiceType, FlagType, FieldType

-----------------------------------------------------------------------------
(* The inductive invariant.                                                *)

\* The pc labels of a starter between BeginRollback and RollbackCancel.
RollbackPC == {"admission", "closing", "awaitDrain", "cancel"}

\* Tasks exist only in a service that was ready and whose cleanup has not
\* begun.
TaskInv ==
    /\ TasksCounted
    /\ state \in {"new", "starting", "stopped"} => taskCount = 0
    /\ stopsStarted => taskCount = 0

\* At most one starter got past the check of the state, and it owns the
\* cleanup of a failed start until it launches it.
StartInv ==
    /\ \A p \in Starters : pc[p] \in {"starting", "failing"} => state = "starting"
    /\ \A p \in Starters : pc[p] \in RollbackPC =>
        stopsStarted /\ state = "stopping" /\ \A q \in Process : coord[q].op = "idle"
    /\ \A p, q \in Starters :
        pc[p] \notin {"idle", "done"} /\ pc[q] \notin {"idle", "done"} => p = q
    /\ state = "new" => \A p \in Starters : pc[p] = "idle"
    /\ \A p \in Starters : pc[p] # "drain"

\* The cleanup is launched once, by a call that set stopsStarted.
CoordInv ==
    /\ SingleCoordinator
    /\ \A p \in Process : coord[p].op # "idle" => stopsStarted
    /\ \A p \in Process : Stopping(p) => state = "stopping"
    /\ stopsStarted => state \in {"stopping", "stopped"}

\* The result is published by the step to stopped.
ResultInv ==
    /\ TerminalResult
    /\ state # "stopped" => shutdownErr = <<>>
    /\ shutdownDone = "closed" => state = "stopped"
    /\ state = "starting" => startDone = "open"
    /\ \A p \in Starters : pc[p] = "rollback" => stopsStarted
    /\ \A p \in Stoppers : pc[p] = "awaitStart" =>
        state \in {"stopping", "stopped"} \/ (state = "starting" /\ cause # None)

IInv == TypeOK /\ TaskInv /\ StartInv /\ CoordInv /\ ResultInv

-----------------------------------------------------------------------------

\* Go and the exit of its goroutine keep taskCount equal to the number of live
\* tasks, and the cleanup is not begun before that number is zero.
LEMMA TaskStepInv ==
  ASSUME TypeOK, TaskInv, StartInv, CoordInv, [Next]_vars
  PROVE  TaskInv'
<1>a. pc \in [Process -> PC] /\ coord \in [Process -> Coordinator]
  BY DEF TypeOK, CallType, LocalType
<1>b. Starters \subseteq Process /\ Stoppers \subseteq Process /\ Tasks \subseteq Process
  BY DEF Process
<1>c. taskCount \in Int
  BY DEF TypeOK, ServiceType
<1>d. IsFiniteSet(ActiveTasks)
  BY SizeAssumption, FS_Subset DEF ActiveTasks
<1>e. ASSUME ActiveTasks' = ActiveTasks, taskCount' = taskCount,
             \/ UNCHANGED <<state, stopsStarted>>
             \/ taskCount = 0
             \/ state' \in {"draining", "stopping"} /\ (stopsStarted' => stopsStarted)
      PROVE  TaskInv'
  BY <1>e DEF TaskInv, TasksCounted
<1>1. CASE \E p \in Starters : StartStep(p)
  <2>. PICK p \in Starters : StartStep(p)
    BY <1>1
  <2>. p \in Process
    BY DEF Process
  <2>1. ActiveTasks' = ActiveTasks /\ taskCount' = taskCount
    BY <1>a, <1>b, ProcessAssumption
      DEF ActiveTasks, StartStep, Start, StartComponent, BecomeReady, BeginRollback,
        RollbackCancel, JoinRollback, Goto, Continue, Return, startVars, drainVars, taskVars,
        stopVars, doneVars
  <2>2. UNCHANGED <<state, stopsStarted>> \/ taskCount = 0
    BY <1>b, Zenon DEF TaskInv, StartInv, Startable, StartStep, Start, StartComponent, BecomeReady,
      BeginRollback, RollbackCancel, JoinRollback, startVars, stopVars
  <2>. QED
    BY <2>1, <2>2, <1>e
<1>2. CASE \E p \in Process : DrainStep(p)
  <2>. PICK p \in Process : DrainStep(p)
    BY <1>2
  <2>1. ActiveTasks' = ActiveTasks /\ taskCount' = taskCount
    BY <1>a, <1>b, ProcessAssumption, ZenonT(30)
      DEF ActiveTasks, DrainStep, Drain, CloseAdmission, CloseNext, ClosePublish,
        AwaitDrain, DrainReturn, AfterDrain, MayCall, Goto, Continue, Return, startVars,
        drainVars, taskVars, stopVars, doneVars
  <2>2. UNCHANGED <<state, stopsStarted>> \/ (state' = "draining" /\ UNCHANGED stopsStarted)
    BY DEF Drainable, DrainStep, Drain, CloseAdmission, CloseNext, ClosePublish, AwaitDrain,
      startVars, stopVars
  <2>. QED
    BY <2>1, <2>2, <1>e
<1>3. CASE \E p \in Tasks : TaskStep(p)
  <2>. PICK p \in Tasks : TaskStep(p)
    BY <1>3
  <2>. p \in Process
    BY DEF Process
  <2>1. CASE Go(p)
    <3>1. CASE taskCount' = taskCount
      <4>1. ActiveTasks' = ActiveTasks
        BY <2>1, <3>1, <1>a, <1>b, <1>c DEF ActiveTasks, Go, Goto, Continue, Return
      <4>2. state' = state \/ (state = "ready" /\ state' = "draining")
        BY <2>1 DEF Go, GoState
      <4>. QED
        BY <2>1, <3>1, <4>1, <4>2 DEF TaskInv, TasksCounted, Go, stopVars
    <3>2. CASE taskCount' # taskCount
      <4>1. /\ GoState = "ready" /\ ~TaskLimitReached /\ state' = GoState
            /\ taskCount' = taskCount + 1 /\ pc[p] = "idle"
            /\ pc' = [pc EXCEPT ![p] = "running"] /\ UNCHANGED stopsStarted
        BY <2>1, <3>2 DEF Go, Continue, Goto, stopVars
      <4>2. ActiveTasks' = ActiveTasks \cup {p} /\ p \notin ActiveTasks
        BY <4>1, <1>a, <1>b DEF ActiveTasks
      <4>3. Cardinality(ActiveTasks') = Cardinality(ActiveTasks) + 1
        BY <4>2, <1>d, FS_AddElement
      <4>4. state = "ready" /\ state' = "ready" /\ ~stopsStarted
        BY <4>1, Zenon DEF GoState, CoordInv
      <4>5. taskCount + 1 <= MaxTasks
        BY <4>1, <1>c, SizeAssumption DEF TaskLimitReached
      <4>. QED
        BY <4>1, <4>3, <4>4, <4>5 DEF TaskInv, TasksCounted
    <3>. QED
      BY <3>1, <3>2
  <2>2. CASE TaskReturn(p)
    BY <2>2, <1>a, <1>b, <1>e
      DEF ActiveTasks, TaskReturn, Goto, Continue, stopVars
  <2>3. CASE TaskExit(p)
    <3>1. /\ taskCount' = taskCount - 1 /\ pc[p] = "exiting" /\ UNCHANGED state
          /\ pc' = [pc EXCEPT ![p] = "done"]
      BY <2>3 DEF TaskExit, Return, Goto
    <3>2. ActiveTasks' = ActiveTasks \ {p} /\ p \in ActiveTasks
      BY <3>1, <1>a, <1>b DEF ActiveTasks
    <3>3. Cardinality(ActiveTasks') = Cardinality(ActiveTasks) - 1
      BY <3>2, <1>d, FS_RemoveElement, Zenon
    <3>4. taskCount # 0
      BY <3>2, <1>d, FS_EmptySet DEF TaskInv, TasksCounted
    <3>5. stopsStarted' => taskCount = 1
      BY <2>3, <3>4, Zenon DEF TaskExit, LastTask, TaskInv, stopVars
    <3>. QED
      BY <3>1, <3>3, <3>4, <3>5, <1>c, SizeAssumption DEF TaskInv, TasksCounted
  <2>. QED
    BY <2>1, <2>2, <2>3 DEF TaskStep
<1>4. CASE \E p \in Cancelers \cup Tasks : CancelStep(p)
  <2>. PICK p \in Cancelers \cup Tasks : CancelStep(p)
    BY <1>4
  <2>. p \in Process
    BY DEF Process
  <2>1. ActiveTasks' = ActiveTasks /\ taskCount' = taskCount
    BY <1>a, <1>b, ProcessAssumption
      DEF ActiveTasks, CancelStep, CancelSample, CancelWithCause, MayCall, Goto, Continue,
        Return, startVars, drainVars, taskVars, stopVars, doneVars
  <2>2. UNCHANGED <<state, stopsStarted>>
    BY DEF CancelStep, CancelSample, CancelWithCause, startVars, stopVars
  <2>. QED
    BY <2>1, <2>2, <1>e
<1>5. CASE \E p \in Stoppers : ShutdownStep(p)
  <2>. PICK p \in Stoppers : ShutdownStep(p)
    BY <1>5
  <2>. p \in Process
    BY DEF Process
  <2>1. ActiveTasks' = ActiveTasks /\ taskCount' = taskCount
    BY <1>a, <1>b, ProcessAssumption, Zenon
      DEF ActiveTasks, ShutdownStep, ShutdownSample, ShutdownJoins, ShutdownStops,
        WaitForStartupShutdown, WaitForShutdown, MayCall, Goto, Continue, Return, startVars,
        drainVars, taskVars, stopVars, doneVars
  <2>2. CASE ShutdownStops(p)
    BY <2>1, <2>2, <1>e, Zenon DEF ShutdownStops, Joined
  <2>3. CASE ShutdownSample(p) \/ WaitForStartupShutdown(p) \/ WaitForShutdown(p)
    BY <2>1, <2>3, <1>e DEF ShutdownSample, WaitForStartupShutdown, WaitForShutdown, stopVars
  <2>4. CASE ShutdownJoins(p)
    BY <2>1, <2>4, <1>e DEF TaskInv, ShutdownJoins, stopVars
  <2>. QED
    BY <2>1, <2>2, <2>3, <2>4 DEF ShutdownStep
<1>6. CASE \E p \in Process : StopStep(p)
  <2>. PICK p \in Process : StopStep(p)
    BY <1>6
  <2>1. ActiveTasks' = ActiveTasks /\ taskCount' = taskCount
    BY <1>a, <1>b, ProcessAssumption
      DEF ActiveTasks, StopStep, StopNext, StopPublish, Goto, Continue, Return, startVars,
        drainVars, taskVars, stopVars, doneVars
  <2>2. UNCHANGED <<state, stopsStarted>> \/ taskCount = 0
    BY DEF TaskInv, CoordInv, FinishShutdownLocked, StopStep, StopNext, StopPublish,
      startVars, stopVars
  <2>. QED
    BY <2>1, <2>2, <1>e
<1>7. CASE Expiry
  <2>1. CASE StartupTimeout \/ ParentCancel
    <3>1. UNCHANGED <<pc, taskCount, state, stopsStarted>>
      BY <2>1 DEF StartupTimeout, ParentCancel, taskVars, stopVars
    <3>. QED
      BY <3>1, <1>e DEF ActiveTasks
  <2>2. ASSUME NEW p \in Starters, RollbackTimeout(p)
        PROVE  TaskInv'
    <3>1. pc' = [pc EXCEPT ![p] = "done"] /\ UNCHANGED <<taskCount, state, stopsStarted>>
      BY <2>2 DEF RollbackTimeout, Return, Goto, taskVars, stopVars
    <3>2. ActiveTasks' = ActiveTasks
      BY <3>1, <1>a, <1>b, ProcessAssumption DEF ActiveTasks
    <3>. QED
      BY <3>1, <3>2, <1>e
  <2>3. ASSUME NEW p \in Stoppers, WaitExpires(p)
        PROVE  TaskInv'
    <3>1. pc' = [pc EXCEPT ![p] = "done"] /\ UNCHANGED <<taskCount, state, stopsStarted>>
      BY <2>3 DEF WaitExpires, Return, Goto, taskVars, stopVars
    <3>2. ActiveTasks' = ActiveTasks
      BY <3>1, <1>a, <1>b, ProcessAssumption DEF ActiveTasks
    <3>. QED
      BY <3>1, <3>2, <1>e
  <2>. QED
    BY <1>7, <2>1, <2>2, <2>3, Zenon DEF Expiry
<1>8. CASE UNCHANGED vars
  BY <1>8, <1>e DEF ActiveTasks, vars, taskVars, stopVars
<1>. QED
  BY <1>1, <1>2, <1>3, <1>4, <1>5, <1>6, <1>7, <1>8, Zenon DEF Next, Terminated

\* A Start that passed the state check keeps the state to itself: no Drain, Go
\* or Shutdown moves a starting service, and the rollback keeps the cleanup.
LEMMA StartStepInv ==
  ASSUME TypeOK, StartInv, CoordInv, [Next]_vars
  PROVE  StartInv'
<1>a. pc \in [Process -> PC] /\ coord \in [Process -> Coordinator]
  BY DEF TypeOK, CallType, LocalType
<1>b. Starters \subseteq Process /\ Stoppers \subseteq Process /\ Tasks \subseteq Process
  BY DEF Process
<1>1. CASE \E p \in Starters : StartStep(p)
  <2>. PICK p \in Starters : StartStep(p)
    BY <1>1
  <2>. p \in Process
    BY DEF Process
  <2>1. CASE Start(p)
    BY <2>1, <1>a, <1>b, ProcessAssumption DEF StartInv, RollbackPC,
      Start, Startable,
      Goto, Continue, Return, startVars, drainVars, taskVars, stopVars, doneVars
  <2>2. CASE StartComponent(p)
    BY <2>2, <1>a, <1>b, ProcessAssumption DEF StartInv, RollbackPC,
      StartComponent, StartupCanceled,
      Goto, Continue, Return, startVars, drainVars, taskVars, stopVars, doneVars
  <2>3. CASE BecomeReady(p)
    BY <2>3, <1>a, <1>b, ProcessAssumption DEF StartInv, RollbackPC,
      BecomeReady, StartupCanceled,
      Goto, Continue, Return, startVars, drainVars, taskVars, stopVars, doneVars
  <2>4. CASE BeginRollback(p)
    <3>1. state = "starting"
      BY <2>4, Zenon DEF StartInv, BeginRollback
    <3>2. \A q \in Process : coord[q].op = "idle"
      BY <3>1 DEF CoordInv
    <3>. QED
      BY <2>4, <3>1, <3>2, <1>a, <1>b
        DEF StartInv, RollbackPC, BeginRollback, Goto, Continue
  <2>5. CASE RollbackCancel(p)
    BY <2>5, <1>a, <1>b, ProcessAssumption DEF StartInv, RollbackPC,
      RollbackCancel, Cancel, StopComponents,
      Goto, Continue, Return, startVars, drainVars, taskVars, stopVars, doneVars
  <2>6. CASE JoinRollback(p)
    BY <2>6, <1>a, <1>b, ProcessAssumption DEF StartInv, RollbackPC,
      JoinRollback,
      Goto, Continue, Return, startVars, drainVars, taskVars, stopVars, doneVars
  <2>. QED
    BY <2>1, <2>2, <2>3, <2>4, <2>5, <2>6 DEF StartStep
<1>2. CASE \E p \in Process : DrainStep(p)
  <2>. PICK p \in Process : DrainStep(p)
    BY <1>2
  <2>1. CASE Drain(p)
    BY <2>1, <1>a, <1>b, ProcessAssumption DEF StartInv, RollbackPC,
      Drain, Drainable, MayCall, DrainReturn, AfterDrain,
      Goto, Continue, Return, startVars, drainVars, taskVars, stopVars, doneVars
  <2>2. CASE CloseAdmission(p)
    BY <2>2, <1>a, <1>b, ProcessAssumption DEF StartInv, RollbackPC,
      CloseAdmission,
      Goto, Continue, Return, startVars, drainVars, taskVars, stopVars, doneVars
  <2>3. CASE CloseNext(p)
    BY <2>3, <1>a, <1>b, ProcessAssumption DEF StartInv, RollbackPC,
      CloseNext,
      Goto, Continue, Return, startVars, drainVars, taskVars, stopVars, doneVars
  <2>4. CASE ClosePublish(p)
    <3>1. /\ pc[p] = "closing" /\ UNCHANGED <<state, stopsStarted, coord>>
          /\ \E l \in {"locking", "cancel", "done"} :
                /\ pc' = [pc EXCEPT ![p] = l]
                /\ l # "cancel" => p \notin Starters
      BY <2>4, ProcessAssumption
        DEF ClosePublish, DrainReturn, AfterDrain, Goto, Continue, Return, stopVars
    <3>. QED
      BY <3>1, <1>a, <1>b DEF StartInv, RollbackPC
  <2>5. CASE AwaitDrain(p)
    BY <2>5, <1>a, <1>b, ProcessAssumption DEF StartInv, RollbackPC,
      AwaitDrain, DrainReturn, AfterDrain,
      Goto, Continue, Return, startVars, drainVars, taskVars, stopVars, doneVars
  <2>. QED
    BY <2>1, <2>2, <2>3, <2>4, <2>5 DEF DrainStep
<1>3. CASE \E p \in Tasks : TaskStep(p)
  <2>. PICK p \in Tasks : TaskStep(p)
    BY <1>3
  <2>. p \in Process
    BY DEF Process
  <2>1. CASE Go(p)
    BY <2>1, <1>a, <1>b, ProcessAssumption DEF StartInv, RollbackPC,
      Go, GoState,
      Goto, Continue, Return, startVars, drainVars, taskVars, stopVars, doneVars
  <2>2. CASE TaskReturn(p)
    BY <2>2, <1>a, <1>b, ProcessAssumption DEF StartInv, RollbackPC,
      TaskReturn,
      Goto, Continue, Return, startVars, drainVars, taskVars, stopVars, doneVars
  <2>3. CASE TaskExit(p)
    BY <2>3, <1>a, <1>b, ProcessAssumption DEF StartInv, RollbackPC,
      TaskExit, LastTask, StopComponents,
      Goto, Continue, Return, startVars, drainVars, taskVars, stopVars, doneVars
  <2>. QED
    BY <2>1, <2>2, <2>3 DEF TaskStep
<1>4. CASE \E p \in Cancelers \cup Tasks : CancelStep(p)
  <2>. PICK p \in Cancelers \cup Tasks : CancelStep(p)
    BY <1>4
  <2>. p \in Process
    BY DEF Process
  <2>1. CASE CancelSample(p)
    BY <2>1, <1>a, <1>b, ProcessAssumption DEF StartInv, RollbackPC,
      CancelSample, Drainable, MayCall,
      Goto, Continue, Return, startVars, drainVars, taskVars, stopVars, doneVars
  <2>2. CASE CancelWithCause(p)
    BY <2>2, <1>a, <1>b, ProcessAssumption DEF StartInv, RollbackPC,
      CancelWithCause, Cancel,
      Goto, Continue, Return, startVars, drainVars, taskVars, stopVars, doneVars
  <2>. QED
    BY <2>1, <2>2 DEF CancelStep
<1>5. CASE \E p \in Stoppers : ShutdownStep(p)
  <2>. PICK p \in Stoppers : ShutdownStep(p)
    BY <1>5
  <2>. p \in Process
    BY DEF Process
  <2>1. CASE ShutdownSample(p)
    BY <2>1, <1>a, <1>b, ProcessAssumption DEF StartInv, RollbackPC,
      ShutdownSample, Drainable, MayCall,
      Goto, Continue, Return, startVars, drainVars, taskVars, stopVars, doneVars
  <2>2. CASE ShutdownJoins(p)
    BY <2>2, <1>a, <1>b, ProcessAssumption, ZenonT(30) DEF StartInv, RollbackPC,
      ShutdownJoins, Cancel,
      Goto, Continue, Return, startVars, drainVars, taskVars, stopVars, doneVars
  <2>3. CASE ShutdownStops(p)
    BY <2>3, <1>a, <1>b, ProcessAssumption DEF StartInv, RollbackPC,
      ShutdownStops, Cancel, Stoppable, Joined, StopComponents,
      Goto, Continue, Return, startVars, drainVars, taskVars, stopVars, doneVars
  <2>4. CASE WaitForStartupShutdown(p)
    BY <2>4, <1>a, <1>b, ProcessAssumption DEF StartInv, RollbackPC,
      WaitForStartupShutdown,
      Goto, Continue, Return, startVars, drainVars, taskVars, stopVars, doneVars
  <2>5. CASE WaitForShutdown(p)
    BY <2>5, <1>a, <1>b, ProcessAssumption DEF StartInv, RollbackPC,
      WaitForShutdown,
      Goto, Continue, Return, startVars, drainVars, taskVars, stopVars, doneVars
  <2>. QED
    BY <2>1, <2>2, <2>3, <2>4, <2>5 DEF ShutdownStep
<1>6. CASE \E p \in Process : StopStep(p)
  <2>. PICK p \in Process : StopStep(p)
    BY <1>6
  <2>1. CASE StopNext(p)
    BY <2>1, <1>a, <1>b, ProcessAssumption DEF StartInv, RollbackPC,
      StopNext,
      Goto, Continue, Return, startVars, drainVars, taskVars, stopVars, doneVars
  <2>2. CASE StopPublish(p)
    <3>1. coord[p].op # "idle" /\ state = "stopping"
      BY <2>2 DEF CoordInv, Stopping, StopPublish
    <3>2. \A q \in Starters : pc[q] \notin RollbackPC /\ pc[q] \notin {"starting",
    "failing"}
      BY <3>1 DEF StartInv
    <3>3. state' # "new"
      BY <2>2, <3>1 DEF StopPublish, FinishShutdownLocked
    <3>. QED
      BY <2>2, <3>2, <3>3 DEF StartInv, RollbackPC, StopPublish
  <2>. QED
    BY <2>1, <2>2 DEF StopStep
<1>7. CASE Expiry
  <2>1. CASE StartupTimeout
    BY <2>1, <1>a, <1>b, ProcessAssumption DEF StartInv, RollbackPC,
  StartupTimeout,
  Goto, Continue, Return, startVars, drainVars, taskVars, stopVars, doneVars
  <2>2. CASE ParentCancel
    BY <2>2, <1>a, <1>b, ProcessAssumption DEF StartInv, RollbackPC,
  ParentCancel,
  Goto, Continue, Return, startVars, drainVars, taskVars, stopVars, doneVars
  <2>3. ASSUME NEW p \in Starters, RollbackTimeout(p) PROVE StartInv'
    BY <2>3, <1>a, <1>b, ProcessAssumption DEF StartInv, RollbackPC,
  RollbackTimeout,
  Goto, Continue, Return, startVars, drainVars, taskVars, stopVars, doneVars
  <2>4. ASSUME NEW p \in Stoppers, WaitExpires(p) PROVE StartInv'
    BY <2>4, <1>a, <1>b, ProcessAssumption DEF StartInv, RollbackPC,
  WaitExpires,
  Goto, Continue, Return, startVars, drainVars, taskVars, stopVars, doneVars
  <2>. QED
    BY <1>7, <2>1, <2>2, <2>3, <2>4 DEF Expiry
<1>8. CASE UNCHANGED vars
  BY <1>8, Zenon
    DEF StartInv, RollbackPC, vars, startVars, drainVars, taskVars, stopVars, doneVars
<1>. QED
  BY <1>1, <1>2, <1>3, <1>4, <1>5, <1>6, <1>7, <1>8 DEF Next, Terminated

\* A step launches stopComponents only together with, or after, the step that set
\* stopsStarted, and no later step finds a state in which it may do so again.
LEMMA CoordStepInv ==
  ASSUME TypeOK, StartInv, CoordInv, [Next]_vars
  PROVE  CoordInv'
<1>a. pc \in [Process -> PC] /\ coord \in [Process -> Coordinator]
  BY DEF TypeOK, CallType, LocalType
<1>b. Starters \subseteq Process /\ Stoppers \subseteq Process /\ Tasks \subseteq Process
  BY DEF Process
<1>1. CASE \E p \in Starters : StartStep(p)
  <2>. PICK p \in Starters : StartStep(p)
    BY <1>1
  <2>. p \in Process
    BY DEF Process
  <2>1. CASE Start(p)
    BY <2>1, <1>a, <1>b DEF CoordInv, SingleCoordinator, Stopping,
      Start, Startable,
      Goto, Continue, Return, startVars, drainVars, taskVars, stopVars, doneVars
  <2>2. CASE StartComponent(p)
    BY <2>2, <1>a, <1>b DEF CoordInv, SingleCoordinator, Stopping,
      StartComponent, StartupCanceled,
      Goto, Continue, Return, startVars, drainVars, taskVars, stopVars, doneVars
  <2>3. CASE BecomeReady(p)
    BY <2>3, <1>a, <1>b DEF CoordInv, SingleCoordinator, Stopping,
      BecomeReady, StartupCanceled, StartInv,
      Goto, Continue, Return, startVars, drainVars, taskVars, stopVars, doneVars
  <2>4. CASE BeginRollback(p)
    BY <2>4, <1>a, <1>b DEF CoordInv, SingleCoordinator, Stopping,
      BeginRollback,
      Goto, Continue, Return, startVars, drainVars, taskVars, stopVars, doneVars
  <2>5. CASE RollbackCancel(p)
    BY <2>5, <1>a, <1>b DEF CoordInv, SingleCoordinator, Stopping,
      RollbackCancel, Cancel, StopComponents, StartInv, RollbackPC,
      Goto, Continue, Return, startVars, drainVars, taskVars, stopVars, doneVars
  <2>6. CASE JoinRollback(p)
    BY <2>6, <1>a, <1>b DEF CoordInv, SingleCoordinator, Stopping,
      JoinRollback,
      Goto, Continue, Return, startVars, drainVars, taskVars, stopVars, doneVars
  <2>. QED
    BY <2>1, <2>2, <2>3, <2>4, <2>5, <2>6 DEF StartStep
<1>2. CASE \E p \in Process : DrainStep(p)
  <2>. PICK p \in Process : DrainStep(p)
    BY <1>2
  <2>1. CASE Drain(p)
    BY <2>1, <1>a, <1>b DEF CoordInv, SingleCoordinator, Stopping,
      Drain, Drainable, MayCall, DrainReturn, AfterDrain,
      Goto, Continue, Return, startVars, drainVars, taskVars, stopVars, doneVars
  <2>2. CASE CloseAdmission(p)
    BY <2>2, <1>a, <1>b DEF CoordInv, SingleCoordinator, Stopping,
      CloseAdmission,
      Goto, Continue, Return, startVars, drainVars, taskVars, stopVars, doneVars
  <2>3. CASE CloseNext(p)
    BY <2>3, <1>a, <1>b DEF CoordInv, SingleCoordinator, Stopping,
      CloseNext,
      Goto, Continue, Return, startVars, drainVars, taskVars, stopVars, doneVars
  <2>4. CASE ClosePublish(p)
    BY <2>4, <1>a, <1>b, Zenon DEF CoordInv, SingleCoordinator, Stopping,
      ClosePublish, DrainReturn, AfterDrain,
      Goto, Continue, Return, startVars, drainVars, taskVars, stopVars, doneVars
  <2>5. CASE AwaitDrain(p)
    BY <2>5, <1>a, <1>b DEF CoordInv, SingleCoordinator, Stopping,
      AwaitDrain, DrainReturn, AfterDrain,
      Goto, Continue, Return, startVars, drainVars, taskVars, stopVars, doneVars
  <2>. QED
    BY <2>1, <2>2, <2>3, <2>4, <2>5 DEF DrainStep
<1>3. CASE \E p \in Tasks : TaskStep(p)
  <2>. PICK p \in Tasks : TaskStep(p)
    BY <1>3
  <2>. p \in Process
    BY DEF Process
  <2>1. CASE Go(p)
    BY <2>1, <1>a, <1>b DEF CoordInv, SingleCoordinator, Stopping,
      Go, GoState,
      Goto, Continue, Return, startVars, drainVars, taskVars, stopVars, doneVars
  <2>2. CASE TaskReturn(p)
    BY <2>2, <1>a, <1>b DEF CoordInv, SingleCoordinator, Stopping,
      TaskReturn,
      Goto, Continue, Return, startVars, drainVars, taskVars, stopVars, doneVars
  <2>3. CASE TaskExit(p)
    BY <2>3, <1>a, <1>b DEF CoordInv, SingleCoordinator, Stopping,
      TaskExit, LastTask, StopComponents,
      Goto, Continue, Return, startVars, drainVars, taskVars, stopVars, doneVars
  <2>. QED
    BY <2>1, <2>2, <2>3 DEF TaskStep
<1>4. CASE \E p \in Cancelers \cup Tasks : CancelStep(p)
  <2>. PICK p \in Cancelers \cup Tasks : CancelStep(p)
    BY <1>4
  <2>. p \in Process
    BY DEF Process
  <2>1. CASE CancelSample(p)
    BY <2>1, <1>a, <1>b DEF CoordInv, SingleCoordinator, Stopping,
      CancelSample, Drainable, MayCall,
      Goto, Continue, Return, startVars, drainVars, taskVars, stopVars, doneVars
  <2>2. CASE CancelWithCause(p)
    BY <2>2, <1>a, <1>b DEF CoordInv, SingleCoordinator, Stopping,
      CancelWithCause, Cancel,
      Goto, Continue, Return, startVars, drainVars, taskVars, stopVars, doneVars
  <2>. QED
    BY <2>1, <2>2 DEF CancelStep
<1>5. CASE \E p \in Stoppers : ShutdownStep(p)
  <2>. PICK p \in Stoppers : ShutdownStep(p)
    BY <1>5
  <2>. p \in Process
    BY DEF Process
  <2>1. CASE ShutdownSample(p)
    BY <2>1, <1>a, <1>b DEF CoordInv, SingleCoordinator, Stopping,
      ShutdownSample, Drainable, MayCall,
      Goto, Continue, Return, startVars, drainVars, taskVars, stopVars, doneVars
  <2>2. CASE ShutdownJoins(p)
    BY <2>2, <1>a, <1>b, Zenon DEF CoordInv, SingleCoordinator, Stopping,
      ShutdownJoins, Cancel,
      Goto, Continue, Return, startVars, drainVars, taskVars, stopVars, doneVars
  <2>3. CASE ShutdownStops(p)
    BY <2>3, <1>a, <1>b, ZenonT(30) DEF CoordInv, SingleCoordinator, Stopping,
      ShutdownStops, Cancel, Stoppable, Joined, StopComponents,
      Goto, Continue, Return, startVars, drainVars, taskVars, stopVars, doneVars
  <2>4. CASE WaitForStartupShutdown(p)
    BY <2>4, <1>a, <1>b DEF CoordInv, SingleCoordinator, Stopping,
      WaitForStartupShutdown,
      Goto, Continue, Return, startVars, drainVars, taskVars, stopVars, doneVars
  <2>5. CASE WaitForShutdown(p)
    BY <2>5, <1>a, <1>b DEF CoordInv, SingleCoordinator, Stopping,
      WaitForShutdown,
      Goto, Continue, Return, startVars, drainVars, taskVars, stopVars, doneVars
  <2>. QED
    BY <2>1, <2>2, <2>3, <2>4, <2>5 DEF ShutdownStep
<1>6. CASE \E p \in Process : StopStep(p)
  <2>. PICK p \in Process : StopStep(p)
    BY <1>6
  <2>1. CASE StopNext(p)
    BY <2>1, <1>a, <1>b DEF CoordInv, SingleCoordinator, Stopping,
      StopNext,
      Goto, Continue, Return, startVars, drainVars, taskVars, stopVars, doneVars
  <2>2. CASE StopPublish(p)
    BY <2>2, <1>a, <1>b DEF CoordInv, SingleCoordinator, Stopping,
      StopPublish, FinishShutdownLocked,
      Goto, Continue, Return, startVars, drainVars, taskVars, stopVars, doneVars
  <2>. QED
    BY <2>1, <2>2 DEF StopStep
<1>7. CASE Expiry
  <2>1. CASE StartupTimeout
    BY <2>1, <1>a, <1>b DEF CoordInv, SingleCoordinator, Stopping,
  StartupTimeout,
  Goto, Continue, Return, startVars, drainVars, taskVars, stopVars, doneVars
  <2>2. CASE ParentCancel
    BY <2>2, <1>a, <1>b DEF CoordInv, SingleCoordinator, Stopping,
  ParentCancel,
  Goto, Continue, Return, startVars, drainVars, taskVars, stopVars, doneVars
  <2>3. ASSUME NEW p \in Starters, RollbackTimeout(p) PROVE CoordInv'
    BY <2>3, <1>a, <1>b DEF CoordInv, SingleCoordinator, Stopping,
  RollbackTimeout,
  Goto, Continue, Return, startVars, drainVars, taskVars, stopVars, doneVars
  <2>4. ASSUME NEW p \in Stoppers, WaitExpires(p) PROVE CoordInv'
    BY <2>4, <1>a, <1>b DEF CoordInv, SingleCoordinator, Stopping,
  WaitExpires,
  Goto, Continue, Return, startVars, drainVars, taskVars, stopVars, doneVars
  <2>. QED
    BY <1>7, <2>1, <2>2, <2>3, <2>4 DEF Expiry
<1>8. CASE UNCHANGED vars
  BY <1>8, Zenon
    DEF CoordInv, SingleCoordinator, Stopping, vars, startVars, drainVars, taskVars,
      stopVars, doneVars
<1>. QED
  BY <1>1, <1>2, <1>3, <1>4, <1>5, <1>6, <1>7, <1>8, Zenon DEF Next, Terminated

\* The result that Shutdown returns is written by the step to stopped and by no
\* later one; a Shutdown that waits for Start is never left with a ready service.
LEMMA ResultStepInv ==
  ASSUME TypeOK, StartInv, CoordInv, ResultInv, [Next]_vars
  PROVE  ResultInv'
<1>a. pc \in [Process -> PC] /\ coord \in [Process -> Coordinator]
  BY DEF TypeOK, CallType, LocalType
<1>b. Starters \subseteq Process /\ Stoppers \subseteq Process /\ Tasks \subseteq Process
  BY DEF Process
<1>d. Starters \cap Stoppers = {}
  BY ProcessAssumption
<1>c. result \in [Process -> Result]
  BY DEF TypeOK, CallType
<1>1. CASE \E p \in Starters : StartStep(p)
  <2>. PICK p \in Starters : StartStep(p)
    BY <1>1
  <2>. p \in Process
    BY DEF Process
  <2>1. CASE Start(p)
    BY <2>1, <1>a, <1>b, <1>c, ProcessAssumption DEF ResultInv, TerminalResult,
      Start, Startable, StartInv,
      Goto, Continue, Return, startVars, drainVars, taskVars, stopVars, doneVars
  <2>2. CASE StartComponent(p)
    BY <2>2, <1>a, <1>b, <1>c, ProcessAssumption, Zenon DEF ResultInv, TerminalResult,
      StartComponent, StartupCanceled,
      Goto, Continue, Return, startVars, drainVars, taskVars, stopVars, doneVars
  <2>3. CASE BecomeReady(p)
    BY <2>3, <1>a, <1>b, <1>c, ProcessAssumption DEF ResultInv, TerminalResult,
      BecomeReady, StartupCanceled, StartInv,
      Goto, Continue, Return, startVars, drainVars, taskVars, stopVars, doneVars
  <2>4. CASE BeginRollback(p)
    BY <2>4, <1>a, <1>b, <1>c, ProcessAssumption, Zenon DEF ResultInv, TerminalResult,
      BeginRollback, StartInv,
      Goto, Continue, Return, startVars, drainVars, taskVars, stopVars, doneVars
  <2>5. CASE RollbackCancel(p)
    BY <2>5, <1>a, <1>b, <1>c, ProcessAssumption, Zenon DEF ResultInv, TerminalResult,
      RollbackCancel, Cancel, StopComponents, StartInv, RollbackPC,
      Goto, Continue, Return, startVars, drainVars, taskVars, stopVars, doneVars
  <2>6. CASE JoinRollback(p)
    BY <2>6, <1>a, <1>b, <1>c, ProcessAssumption DEF ResultInv, TerminalResult,
      JoinRollback, CoordInv,
      Goto, Continue, Return, startVars, drainVars, taskVars, stopVars, doneVars
  <2>. QED
    BY <2>1, <2>2, <2>3, <2>4, <2>5, <2>6 DEF StartStep
<1>2. CASE \E p \in Process : DrainStep(p)
  <2>. PICK p \in Process : DrainStep(p)
    BY <1>2
  <2>1. CASE Drain(p)
    BY <2>1, <1>a, <1>b, <1>c, ProcessAssumption, ZenonT(30) DEF ResultInv, TerminalResult,
      Drain, Drainable, MayCall, DrainReturn, AfterDrain,
      Goto, Continue, Return, startVars, drainVars, taskVars, stopVars, doneVars
  <2>2. CASE CloseAdmission(p)
    BY <2>2, <1>a, <1>b, <1>c, ProcessAssumption, Zenon DEF ResultInv, TerminalResult,
      CloseAdmission,
      Goto, Continue, Return, startVars, drainVars, taskVars, stopVars, doneVars
  <2>3. CASE CloseNext(p)
    BY <2>3, <1>a, <1>b, <1>c, ProcessAssumption, Zenon DEF ResultInv, TerminalResult,
      CloseNext,
      Goto, Continue, Return, startVars, drainVars, taskVars, stopVars, doneVars
  <2>4. CASE ClosePublish(p)
    BY <2>4, <1>a, <1>b, <1>c, ProcessAssumption, ZenonT(30) DEF ResultInv, TerminalResult,
      ClosePublish, DrainReturn, AfterDrain,
      Goto, Continue, Return, startVars, drainVars, taskVars, stopVars, doneVars
  <2>5. CASE AwaitDrain(p)
    BY <2>5, <1>a, <1>b, <1>c, ProcessAssumption, ZenonT(30) DEF ResultInv, TerminalResult,
      AwaitDrain, DrainReturn, AfterDrain,
      Goto, Continue, Return, startVars, drainVars, taskVars, stopVars, doneVars
  <2>. QED
    BY <2>1, <2>2, <2>3, <2>4, <2>5 DEF DrainStep
<1>3. CASE \E p \in Tasks : TaskStep(p)
  <2>. PICK p \in Tasks : TaskStep(p)
    BY <1>3
  <2>. p \in Process
    BY DEF Process
  <2>1. CASE Go(p)
    <3>1. UNCHANGED <<startDone, stopsStarted, shutdownDone, shutdownErr, cause>>
      BY <2>1 DEF Go, startVars, stopVars, doneVars
    <3>2. state' = state \/ (state = "ready" /\ state' = "draining")
      BY <2>1 DEF Go, GoState
    <3>3. /\ \A q \in Process \ {p} : pc'[q] = pc[q] /\ result'[q] = result[q]
          /\ p \notin Starters /\ p \notin Stoppers
      BY <2>1, <1>a, <1>c, ProcessAssumption, Zenon DEF Go, Goto, Continue, Return
    <3>4. \A q \in Starters \cup Stoppers : pc'[q] = pc[q] /\ result'[q] = result[q]
      BY <3>3, <1>b
    <3>. QED
      BY <3>1, <3>2, <3>4, Zenon DEF ResultInv, TerminalResult
  <2>2. CASE TaskReturn(p)
    BY <2>2, <1>a, <1>b, <1>c, ProcessAssumption, Zenon DEF ResultInv, TerminalResult,
      TaskReturn,
      Goto, Continue, Return, startVars, drainVars, taskVars, stopVars, doneVars
  <2>3. CASE TaskExit(p)
    BY <2>3, <1>a, <1>b, <1>c, ProcessAssumption, Zenon DEF ResultInv, TerminalResult,
      TaskExit, LastTask, StopComponents,
      Goto, Continue, Return, startVars, drainVars, taskVars, stopVars, doneVars
  <2>. QED
    BY <2>1, <2>2, <2>3 DEF TaskStep
<1>4. CASE \E p \in Cancelers \cup Tasks : CancelStep(p)
  <2>. PICK p \in Cancelers \cup Tasks : CancelStep(p)
    BY <1>4
  <2>. p \in Process
    BY DEF Process
  <2>1. CASE CancelSample(p)
    BY <2>1, <1>a, <1>b, <1>c, ProcessAssumption, Zenon DEF ResultInv, TerminalResult,
      CancelSample, Drainable, MayCall,
      Goto, Continue, Return, startVars, drainVars, taskVars, stopVars, doneVars
  <2>2. CASE CancelWithCause(p)
    BY <2>2, <1>a, <1>b, <1>c, ProcessAssumption DEF ResultInv, TerminalResult,
      CancelWithCause, Cancel,
      Goto, Continue, Return, startVars, drainVars, taskVars, stopVars, doneVars
  <2>. QED
    BY <2>1, <2>2 DEF CancelStep
<1>5. CASE \E p \in Stoppers : ShutdownStep(p)
  <2>. PICK p \in Stoppers : ShutdownStep(p)
    BY <1>5
  <2>. p \in Process
    BY DEF Process
  <2>1. CASE ShutdownSample(p)
    BY <2>1, <1>a, <1>b, <1>c, ProcessAssumption, Zenon DEF ResultInv, TerminalResult,
      ShutdownSample, Drainable, MayCall,
      Goto, Continue, Return, startVars, drainVars, taskVars, stopVars, doneVars
  <2>2. CASE ShutdownJoins(p)
    <3>. UNCHANGED <<startDone, stopsStarted, shutdownDone, shutdownErr>>
      BY <2>2 DEF ShutdownJoins, startVars, stopVars, doneVars
    <3>1. CASE state = "stopped"
      <4>1. UNCHANGED <<state, cause>> /\ Return(p, "terminal", shutdownErr)
        BY <2>2, <3>1 DEF ShutdownJoins
      <4>. QED
        BY <3>1, <4>1, <1>a, <1>b, <1>c DEF ResultInv, TerminalResult, Return, Goto
    <3>2. CASE state = "new"
      <4>1. state' = "stopped" /\ UNCHANGED cause /\ Return(p, "terminal", <<>>)
        BY <2>2, <3>2, Zenon DEF ShutdownJoins
      <4>2. \A q \in Process \ {p} : pc'[q] = pc[q] /\ result'[q] = result[q]
        BY <4>1, <1>a, <1>c DEF Return, Goto
      <4>3. pc'[p] = "done" /\ result'[p].failures = <<>>
        BY <4>1, <1>a, <1>c DEF Return, Goto
      <4>4. shutdownErr = <<>> /\ \A q \in Stoppers : result[q].kind # "terminal"
        BY <3>2 DEF ResultInv, TerminalResult
      <4>5. TerminalResult'
        BY <4>1, <4>2, <4>3, <4>4, <1>b DEF TerminalResult
      <4>6. \A q \in Starters : pc'[q] = pc[q]
        BY <4>2, <1>b, <1>d
      <4>. QED
        BY <4>1, <4>5, <4>6 DEF ResultInv
    <3>3. CASE state = "starting"
      <4>1. Cancel("shutdown") /\ UNCHANGED state /\ Continue(p, "awaitStart")
        BY <2>2, <3>3 DEF ShutdownJoins
      <4>2. startDone # "nil" /\ "shutdown" # None
        BY <3>3, ProcessAssumption DEF ResultInv
      <4>3. cause' # None
        BY <4>1, <4>2 DEF Cancel
      <4>4. UNCHANGED <<state, result>> /\ pc' = [pc EXCEPT ![p] = "awaitStart"]
        BY <4>1 DEF Continue, Goto
      <4>5. UNCHANGED <<startDone, stopsStarted, shutdownDone, shutdownErr>>
        OBVIOUS
      <4>6. \A q \in Starters : pc'[q] = pc[q]
        BY <4>4, <1>a, <1>b, <1>d
      <4>7. TerminalResult'
        BY <4>4, <4>5 DEF ResultInv, TerminalResult
      <4>. QED
        BY <3>3, <4>3, <4>4, <4>5, <4>6, <4>7 DEF ResultInv
    <3>4. CASE state = "stopping"
      <4>1. UNCHANGED <<state, cause, result>> /\ pc' = [pc EXCEPT ![p] = "awaitStop"]
        BY <2>2, <3>4 DEF ShutdownJoins, Continue, Goto
      <4>. QED
        BY <4>1, <1>a, <1>b, <1>d DEF ResultInv, TerminalResult
    <3>. QED
      BY <2>2, <3>1, <3>2, <3>3, <3>4 DEF ShutdownJoins
  <2>3. CASE ShutdownStops(p)
    BY <2>3, <1>a, <1>b, <1>c, ProcessAssumption, Zenon DEF ResultInv, TerminalResult,
      ShutdownStops, Cancel, Stoppable, Joined, StopComponents, CoordInv,
      Goto, Continue, Return, startVars, drainVars, taskVars, stopVars, doneVars
  <2>4. CASE WaitForStartupShutdown(p)
    <3>. UNCHANGED <<state, cause, startDone, stopsStarted, shutdownDone, shutdownErr>>
      BY <2>4 DEF WaitForStartupShutdown, startVars, stopVars, doneVars
    <3>1. state \in {"stopping", "stopped"}
      BY <2>4 DEF WaitForStartupShutdown, ResultInv
    <3>2. CASE state = "stopping"
      <4>1. UNCHANGED result /\ pc' = [pc EXCEPT ![p] = "awaitStop"]
        BY <2>4, <3>2 DEF WaitForStartupShutdown, Continue, Goto
      <4>. QED
        BY <4>1, <1>a, <1>b, <1>d, Zenon DEF ResultInv, TerminalResult
    <3>3. CASE state = "stopped"
      <4>1. Return(p, "terminal", shutdownErr)
        BY <2>4, <3>3 DEF WaitForStartupShutdown
      <4>. QED
        BY <3>3, <4>1, <1>a, <1>b, <1>c DEF ResultInv, TerminalResult, Return, Goto
    <3>. QED
      BY <3>1, <3>2, <3>3
  <2>5. CASE WaitForShutdown(p)
    BY <2>5, <1>a, <1>b, <1>c, ProcessAssumption, Zenon DEF ResultInv, TerminalResult,
      WaitForShutdown,
      Goto, Continue, Return, startVars, drainVars, taskVars, stopVars, doneVars
  <2>. QED
    BY <2>1, <2>2, <2>3, <2>4, <2>5 DEF ShutdownStep
<1>6. CASE \E p \in Process : StopStep(p)
  <2>. PICK p \in Process : StopStep(p)
    BY <1>6
  <2>1. CASE StopNext(p)
    BY <2>1, <1>a, <1>b, <1>c, ProcessAssumption DEF ResultInv, TerminalResult,
      StopNext,
      Goto, Continue, Return, startVars, drainVars, taskVars, stopVars, doneVars
  <2>2. CASE StopPublish(p)
    BY <2>2, <1>a, <1>b, <1>c, ProcessAssumption DEF ResultInv, TerminalResult,
      StopPublish, FinishShutdownLocked, CoordInv, Stopping,
      Goto, Continue, Return, startVars, drainVars, taskVars, stopVars, doneVars
  <2>. QED
    BY <2>1, <2>2 DEF StopStep
<1>7. CASE Expiry
  <2>1. CASE StartupTimeout
    BY <2>1, <1>a, <1>b, <1>c, ProcessAssumption, Zenon DEF ResultInv, TerminalResult,
  StartupTimeout,
  Goto, Continue, Return, startVars, drainVars, taskVars, stopVars, doneVars
  <2>2. CASE ParentCancel
    BY <2>2, <1>a, <1>b, <1>c, ProcessAssumption, Zenon DEF ResultInv, TerminalResult,
  ParentCancel,
  Goto, Continue, Return, startVars, drainVars, taskVars, stopVars, doneVars
  <2>3. ASSUME NEW p \in Starters, RollbackTimeout(p) PROVE ResultInv'
    BY <2>3, <1>a, <1>b, <1>c, ProcessAssumption DEF ResultInv, TerminalResult,
  RollbackTimeout, CoordInv,
  Goto, Continue, Return, startVars, drainVars, taskVars, stopVars, doneVars
  <2>4. ASSUME NEW p \in Stoppers, WaitExpires(p) PROVE ResultInv'
    BY <2>4, <1>a, <1>b, <1>c, ProcessAssumption DEF ResultInv, TerminalResult,
  WaitExpires,
  Goto, Continue, Return, startVars, drainVars, taskVars, stopVars, doneVars
  <2>. QED
    BY <1>7, <2>1, <2>2, <2>3, <2>4 DEF Expiry
<1>8. CASE UNCHANGED vars
  BY <1>8
    DEF ResultInv, TerminalResult, vars, startVars, drainVars, taskVars, stopVars, doneVars
<1>. QED
  BY <1>1, <1>2, <1>3, <1>4, <1>5, <1>6, <1>7, <1>8 DEF Next, Terminated


=============================================================================
