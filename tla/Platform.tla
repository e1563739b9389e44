------------------------------ MODULE Platform ------------------------------
(***************************************************************************)
(* Execute runs one command: the goroutine that turns signals into         *)
(* cancellation, construction, the service of the plan, its management     *)
(* server, its business server's task and its other tasks, shutdown with   *)
(* escalation, and the exit code.  The service is nearly as abstract here  *)
(* as ServiceContract; Lifecycle and ShutdownBudget have its detail.  An   *)
(* error is the set of the classes that classificationIs and               *)
(* classificationAs find in it (Classification), so errors.Join is union.  *)
(***************************************************************************)
EXTENDS Naturals, Sequences

CONSTANTS
    Tasks,        \* plan.Tasks
    MaxSignals    \* bound on the signals sent

\* The plan's tasks are neither its business server's nor the one-shot one.
PlainTasks == Tasks \cap {"http", "one-shot"} = {}

ASSUME PlatformAssumption == PlainTasks

VARIABLES
    conf,         \* [kind, http (joined), management, signals]: the command and its plan
    step, mode,   \* the command's step, and why it shuts down
    errs, exit,   \* the error it is to return, and its exit code
    parent, ctx,  \* the parent is canceled; cause of the command's context
    inbox, sent, closed,  \* the signal channel
    watch, got,   \* the goroutine of coordinateCommandSignals, what it received
    registered,   \* beforeCancel is set
    escalation,   \* the escalation channel
    service, rt,  \* the service's state, and the cause of its context
    admission,    \* admission was closed
    started,      \* number of components started
    management,   \* the goroutine of managementOwner.start
    task,         \* the tasks, "http" and "one-shot" among them
    retained,     \* classes of the failures that Shutdown will return
    ready,        \* runtimeObservability.ready
    happened      \* the failures that there were

commandVars == <<step, mode, errs, exit, ready>>
signalVars == <<inbox, sent, closed, watch, got, registered, escalation>>
serviceVars == <<service, rt, admission, started, management, task, retained>>
executeVars == <<conf, commandVars, parent, ctx, signalVars, serviceVars, happened>>

-----------------------------------------------------------------------------
(* The plan, in the order of executePlan.                                  *)

Long == conf.kind = "long-running"

Components ==
    (IF conf.management THEN <<"management">> ELSE <<>>) \o <<"plan">>
        \o (IF conf.http THEN <<"http">> ELSE <<>>)

Work == IF Long THEN (IF conf.http THEN {"http"} ELSE {}) \cup Tasks ELSE {"one-shot"}

ExecuteInit ==
    /\ conf \in { c \in [kind : {"long-running", "one-shot"}, http : BOOLEAN,
                        management : BOOLEAN, signals : BOOLEAN] :
                    IF c.kind = "long-running" THEN c.management ELSE ~c.http }
    /\ step = "compile" /\ mode = "none" /\ errs = {} /\ exit = 99
    /\ parent = FALSE /\ ctx = "none"
    /\ inbox = 0 /\ sent = 0 /\ closed = FALSE /\ got = "none" /\ registered = FALSE
    /\ watch = "done"
    /\ escalation = "empty"
    /\ service = "new" /\ rt = "none" /\ admission = FALSE /\ started = 0
    /\ management = "none" /\ task = [t \in Work |-> "none"] /\ retained = {}
    /\ ready = FALSE /\ happened = {}

First(cause, other) == IF cause = "none" THEN other ELSE cause

\* A context that is canceled cancels the contexts derived from it.
CancelCommand(cause) ==
    /\ ctx' = First(ctx, cause)
    /\ rt' = IF service = "new" THEN rt ELSE First(rt, cause)

\* Service.Drain.
Drain ==
    IF service \in {"ready", "draining"}
    THEN service' = "draining" /\ admission' = TRUE
    ELSE UNCHANGED <<service, admission>>

\* The classes of a cause of cancellation.
Classes(cause) ==
    CASE cause = "signal" -> {"signal"}
      [] cause = "closed" -> {"closed"}
      [] cause = "parent" -> {"canceled"}
      [] cause = "failure" -> {"component"}
      [] OTHER -> {}

-----------------------------------------------------------------------------
(* Signals and the parent.                                                 *)

SendSignal ==
    /\ conf.signals /\ ~closed /\ sent < MaxSignals /\ step # "exited"
    /\ inbox' = inbox + 1 /\ sent' = sent + 1
    /\ UNCHANGED <<conf, commandVars, parent, ctx, closed, watch, got, registered, escalation,
                   serviceVars, happened>>

CloseSignals ==
    /\ conf.signals /\ ~closed /\ sent < MaxSignals /\ step # "exited"
    /\ closed' = TRUE
    /\ UNCHANGED <<conf, commandVars, parent, ctx, inbox, sent, watch, got, registered, escalation,
                   serviceVars, happened>>

ParentCancels ==
    /\ ~parent /\ step # "exited"
    /\ parent' = TRUE /\ CancelCommand("parent")
    /\ UNCHANGED <<conf, commandVars, signalVars, service, admission, started, management, task,
                   retained, happened>>

\* The first select takes a signal, or sees the channel closed, and reads the
\* callback under callbackMu.
WatchReceives ==
    /\ watch = "waiting"
    /\ \/ inbox > 0 /\ got' = "signal" /\ inbox' = inbox - 1
       \/ inbox = 0 /\ closed /\ got' = "closed" /\ UNCHANGED inbox
    /\ watch' = IF registered THEN "callback" ELSE "cancel"
    /\ UNCHANGED <<conf, commandVars, parent, ctx, sent, closed, registered, escalation,
                   serviceVars, happened>>

\* The callback drains the service, if it is ready.
WatchDrains ==
    /\ watch = "callback" /\ watch' = "cancel"
    /\ Drain
    /\ UNCHANGED <<conf, commandVars, parent, ctx, inbox, sent, closed, got, registered, escalation,
                   rt, started, management, task, retained, happened>>

\* The goroutine ends by closing the escalation channel.
WatchEnds(last) ==
    /\ watch' = "done" /\ escalation' = last

WatchCancels ==
    /\ watch = "cancel"
    /\ CancelCommand(got)
    /\ IF got = "closed" THEN WatchEnds("closed") ELSE watch' = "second" /\ UNCHANGED escalation
    /\ UNCHANGED <<conf, commandVars, parent, inbox, sent, closed, got, registered, service,
                   admission, started, management, task, retained, happened>>

\* The first select takes the parent's end, the second a signal to escalate.
WatchGoesOn ==
    /\ \/ watch = "waiting" /\ parent /\ watch' = "second" /\ UNCHANGED <<inbox, escalation>>
       \/ watch = "second" /\ inbox > 0 /\ inbox' = inbox - 1 /\ WatchEnds("signal")
       \/ watch = "second" /\ inbox = 0 /\ closed /\ WatchEnds("closed") /\ UNCHANGED inbox
    /\ UNCHANGED <<conf, commandVars, parent, ctx, sent, closed, got, registered, serviceVars,
                   happened>>

\* Mutant: only the first select waits for stop.
WatchStopsFirst ==
    /\ watch = "waiting" /\ step = "stop" /\ WatchEnds("closed")
    /\ UNCHANGED <<conf, commandVars, parent, ctx, inbox, sent, closed, got, registered,
                   serviceVars, happened>>

\* Either select sees that stop is closed.
WatchStops ==
    /\ watch \in {"waiting", "second"} /\ step = "stop" /\ WatchEnds("closed")
    /\ UNCHANGED <<conf, commandVars, parent, ctx, inbox, sent, closed, got, registered,
                   serviceVars, happened>>

-----------------------------------------------------------------------------
(* Construction and startup.                                               *)

\* The handler leaves with an error.
Fail(e, how) ==
    /\ errs' = e /\ happened' = happened \cup how /\ step' = "final"

\* Execute compiles the definition, which may be invalid; then the handler of
\* the selected command begins to listen for signals.
Compile ==
    /\ step = "compile"
    /\ \/ /\ step' = "construct" /\ watch' = IF conf.signals THEN "waiting" ELSE "done"
          /\ UNCHANGED <<exit, happened>>
       \/ /\ step' = "exited" /\ exit' = 70 /\ happened' = {"definition"}
          /\ UNCHANGED watch
    /\ UNCHANGED <<conf, mode, errs, ready, parent, ctx, inbox, sent, closed, got, registered,
                   escalation, serviceVars>>

\* factory.Create fails: its error is returned as it is, without the signal.
CreateFails ==
    errs' = {"construction"} /\ happened' = happened \cup {"construction"} /\ step' = "stop"

\* Load or Build fails, maybe because their context has ended, or gives the plan.
Construct ==
    /\ step = "construct"
    /\ \/ step' = "prepare" /\ UNCHANGED <<errs, happened>>
       \/ CreateFails
       \/ \E c \in {"configuration", "construction"} :
             Fail({c}, {c}) \/ (ctx # "none" /\ Fail({c, "canceled"}, {}))
    /\ UNCHANGED <<conf, mode, exit, ready, parent, ctx, signalVars, serviceVars>>

\* executePlan validates the plan and makes the service of its components.
Prepare ==
    /\ step = "prepare"
    /\ \/ step' = "register" /\ UNCHANGED <<errs, happened>>
       \/ \E c \in {"definition", "construction"} : Fail({c}, {c})
    /\ UNCHANGED <<conf, mode, exit, ready, parent, ctx, signalVars, serviceVars>>

\* beforeSignalCancel is ignored once a signal was received.
Register ==
    /\ step = "register" /\ step' = "begin"
    /\ registered' = (conf.signals /\ got = "none")
    /\ UNCHANGED <<conf, mode, errs, exit, ready, parent, ctx, inbox, sent, closed, watch, got,
                   escalation, serviceVars, happened>>

\* Service.Start derives its context.
StartBegins ==
    /\ step = "begin" /\ step' = "start"
    /\ service' = "starting" /\ rt' = ctx
    /\ UNCHANGED <<conf, mode, errs, exit, ready, parent, ctx, signalVars, admission, started,
                   management, task, retained, happened>>

\* The next component starts; managementOwner.start leaves its server running.
StartComponent ==
    /\ step = "start" /\ started < Len(Components)
    /\ started = 0 \/ rt = "none"
    /\ started' = started + 1
    /\ management' = IF Components[started + 1] = "management" THEN "serving" ELSE management
    /\ UNCHANGED <<conf, commandVars, parent, ctx, signalVars, service, rt, admission, task,
                   retained, happened>>

\* A component fails to start, or startup was canceled: roll back.
StartFails ==
    /\ step = "start"
    /\ \/ /\ started < Len(Components)
          /\ errs' = {"startup"} /\ happened' = happened \cup {"startup"}
       \/ /\ rt # "none" /\ UNCHANGED happened
          /\ \/ started < Len(Components) /\ errs' = {"startup", "canceled"}
             \/ started > 0 /\ errs' = {"startup"} \cup Classes(rt)
    /\ step' = "rollback" /\ service' = "stopping" /\ admission' = TRUE
    /\ rt' = First(rt, "failure")
    /\ UNCHANGED <<conf, mode, exit, ready, parent, ctx, signalVars, started, management, task,
                   retained>>

StartCompletes ==
    /\ step = "start" /\ started = Len(Components) /\ rt = "none"
    /\ step' = "go" /\ service' = "ready"
    /\ UNCHANGED <<conf, mode, errs, exit, ready, parent, ctx, signalVars, rt, admission, started,
                   management, task, retained, happened>>

\* stopHTTPServer returns when the server's Run has: with its failure, or
\* having been told to stop.
ManagementStopped == management \in {"none", "serving", "failed"}

\* The stops of the rollback return, or its deadline passes first.
Rollback ==
    /\ step = "rollback"
    /\ \/ /\ ManagementStopped /\ started' = 0 /\ management' = "none" /\ service' = "stopped"
          /\ IF management = "failed" THEN Fail(errs \cup {"rollback"}, {"rollback"})
             ELSE Fail(errs, {}) \/ Fail(errs \cup {"rollback"}, {"rollback"})
       \/ Fail(errs \cup {"rollback"}, {"rollback"}) /\ UNCHANGED <<started, management, service>>
    /\ UNCHANGED <<conf, mode, exit, ready, parent, ctx, signalVars, rt, admission, task, retained>>

-----------------------------------------------------------------------------
(* Tasks.                                                                  *)

\* beginDrain of runtimeObservability.
BeginDrain(m) ==
    mode' = m /\ step' = "join" /\ ready' = FALSE

\* The command begins Shutdown of its service.
Shutdown(m) ==
    /\ BeginDrain(m)
    /\ service' = IF service = "stopped" THEN "stopped" ELSE "stopping"
    /\ admission' = TRUE /\ rt' = First(rt, "shutdown")

\* Mutant: a refused task is reported at once.
GoFailsLeaving == step' = "final" /\ UNCHANGED <<mode, ready, service, admission, rt>>

\* shutdownAfterFailure.
GoFails == Shutdown("failure")

\* Service.Go starts a task, or finds the service draining or canceled.
Go(t) ==
    /\ step = "go" /\ task[t] = "none"
    /\ IF service = "ready" /\ rt = "none"
       THEN /\ task' = [task EXCEPT ![t] = "running"]
            /\ UNCHANGED <<step, mode, errs, ready, service, admission, rt>>
       ELSE errs' = {"state"} /\ GoFails /\ UNCHANGED task
    /\ UNCHANGED <<conf, exit, parent, ctx, signalVars, started, management, retained, happened>>

\* Activate and markReady.
Activate ==
    /\ step = "go" /\ \A t \in Work : task[t] # "none"
    /\ step' = "wait" /\ ready' = TRUE
    /\ UNCHANGED <<conf, mode, errs, exit, parent, ctx, signalVars, serviceVars, happened>>

\* cancelWithCause of the service, when a task or a server has failed.
CancelService == Drain /\ rt' = First(rt, "failure")

\* A task of a long-running command returns: canceled, or failed, which it
\* also has when it returns without cancellation.
TaskReturns(t) ==
    /\ t \in Tasks \cap DOMAIN task /\ task[t] = "running"
    /\ task' = [task EXCEPT ![t] = "done"]
    /\ \/ rt # "none" /\ UNCHANGED <<service, admission, rt, retained, happened>>
       \/ CancelService /\ retained' = retained \cup {"task"} /\ happened' = happened \cup {"task"}
    /\ UNCHANGED <<conf, commandVars, parent, ctx, signalVars, started, management>>

\* businessOwner.run: the server has stopped, admission is closed and the
\* result is published before the handlers are joined.
ServerStops ==
    /\ "http" \in DOMAIN task /\ task["http"] = "running"
    /\ admission' = TRUE
    /\ \/ rt # "none" /\ task' = [task EXCEPT !["http"] = "stopped"] /\ UNCHANGED happened
       \/ /\ task' = [task EXCEPT !["http"] = "failed"]
          /\ happened' = happened \cup {"task"}
    /\ UNCHANGED <<conf, commandVars, parent, ctx, signalVars, service, rt, started, management,
                   retained>>

\* The handlers are joined and the task returns.
ServerJoins ==
    /\ "http" \in DOMAIN task /\ task["http"] \in {"stopped", "failed"}
    /\ task' = [task EXCEPT !["http"] = "done"]
    /\ IF task["http"] = "failed"
       THEN CancelService /\ retained' = retained \cup {"task"}
       ELSE UNCHANGED <<service, admission, rt, retained>>
    /\ UNCHANGED <<conf, commandVars, parent, ctx, signalVars, started, management, happened>>

\* The tasks of a one-shot command run one after the other and their result
\* goes to the command, never to the service.
OneShotReturns ==
    /\ "one-shot" \in DOMAIN task /\ task["one-shot"] = "running"
    /\ \/ task' = [task EXCEPT !["one-shot"] = "succeeded"] /\ UNCHANGED happened
       \/ rt # "none" /\ task' = [task EXCEPT !["one-shot"] = "canceled"] /\ UNCHANGED happened
       \/ task' = [task EXCEPT !["one-shot"] = "failed"] /\ happened' = happened \cup {"task"}
    /\ UNCHANGED <<conf, commandVars, parent, ctx, signalVars, service, rt, admission, started,
                   management, retained>>

\* The management server's Run fails; its goroutine samples the state and
\* drains, then cancels the service, then delivers the failure to stop.
ManagementFails ==
    /\ \/ /\ management = "serving" /\ started > 0 /\ management' = "failing"
          /\ happened' = happened \cup {"management"} /\ UNCHANGED <<service, admission, rt>>
       \/ management = "failing" /\ management' = "canceling" /\ Drain /\ UNCHANGED <<rt, happened>>
       \/ /\ management = "canceling" /\ management' = "failed"
          /\ rt' = First(rt, "failure") /\ UNCHANGED <<service, admission, happened>>
    /\ UNCHANGED <<conf, commandVars, parent, ctx, signalVars, started, task, retained>>

-----------------------------------------------------------------------------
(* Waiting and shutdown.                                                   *)

Returned(t) == task[t] \notin {"running", "stopped", "failed"} \/ (t = "one-shot" /\ task[t] = "failed")

TaskResult ==
    CASE task["one-shot"] = "failed" -> {"task"}
      [] task["one-shot"] = "canceled" -> {"canceled"}
      [] OTHER -> {}

\* executeLongRunning stops waiting.
WaitLong ==
    /\ step = "wait" /\ Long
    /\ ctx # "none" \/ rt # "none" \/ (conf.http /\ task["http"] \in {"stopped", "failed", "done"})
    /\ Shutdown("long-running")
    /\ UNCHANGED <<conf, errs, exit, parent, ctx, signalVars, started, management, task, retained,
                   happened>>

\* executeOneShot stops waiting, with the result or without.
WaitOneShot ==
    /\ step = "wait" /\ ~Long
    /\ \/ Returned("one-shot") /\ errs' = TaskResult /\ Shutdown("result")
       \/ rt # "none" /\ Shutdown("canceled") /\ UNCHANGED errs
    /\ UNCHANGED <<conf, exit, parent, ctx, signalVars, started, management, task, retained, happened>>

\* The tasks have been joined and the components stopped, some with an error,
\* some past their deadline.
StopComponents ==
    /\ service = "stopping" /\ step # "rollback" /\ \A t \in Work : Returned(t)
    /\ ManagementStopped /\ started > 0
    /\ \E failures \in {{}, {"stop"}, {"stop", "deadline"}} :
          LET all == failures \cup (IF management = "failed" THEN {"stop"} ELSE {})
          IN  retained' = retained \cup all /\ happened' = happened \cup all
    /\ service' = "stopped" /\ started' = 0 /\ management' = "none"
    /\ UNCHANGED <<conf, commandVars, parent, ctx, signalVars, rt, admission, task>>

\* classifyShutdownError.
ClassifyShutdown(r) == IF "deadline" \in r THEN r \cup {"timeout"} ELSE r

\* What each caller of Shutdown returns once it has the result r.
AfterShutdown(r) ==
    CASE mode \in {"failure", "result"} -> errs \cup r
      [] mode = "canceled" ->
            IF r # {} THEN r
            ELSE IF TaskResult = {"canceled"} THEN Classes(rt) ELSE TaskResult
      [] OTHER ->
            IF r # {} THEN r \cup (IF conf.http /\ task["http"] = "failed" THEN {"task"} ELSE {})
            ELSE IF rt = "signal" THEN {"signal"} ELSE {}

\* Shutdown returns what it retained, or its deadline passes.
ShutdownReturns ==
    /\ step \in {"join", "escalated"} /\ step' = "final"
    /\ \/ /\ service = "stopped" /\ UNCHANGED happened
          /\ errs' = AfterShutdown(ClassifyShutdown(
                         IF retained = {} THEN {} ELSE {"shutdown"} \cup retained))
       \/ /\ service # "stopped" /\ happened' = happened \cup {"timeout"}
          /\ errs' = AfterShutdown(ClassifyShutdown({"deadline"}))
    /\ UNCHANGED <<conf, mode, exit, ready, parent, ctx, signalVars, serviceVars>>

\* shutdownWithEscalation takes the second signal: the stops are canceled, and
\* their result still awaited until the same deadline.
Escalate ==
    /\ step = "join" /\ mode \in {"long-running", "canceled"} /\ escalation = "signal"
    /\ step' = "escalated" /\ escalation' = "closed"
    /\ UNCHANGED <<conf, mode, errs, exit, ready, parent, ctx, inbox, sent, closed, watch, got,
                   registered, serviceVars, happened>>

\* Mutant: the signal is not joined to an error that there is already.
PreserveSignalAlone(e) == IF e = {} THEN Classes(ctx) \cap {"signal", "closed"} ELSE e

\* preserveCommandSignal.
PreserveSignal(e) == e \cup (Classes(ctx) \cap {"signal", "closed"})

\* The handler returns and its deferred stop waits for the goroutine.
HandlerReturns ==
    /\ step = "final" /\ step' = "stop"
    /\ errs' = PreserveSignal(errs)
    /\ happened' = happened \cup (Classes(ctx) \cap {"signal", "closed"})
    /\ UNCHANGED <<conf, mode, exit, ready, parent, ctx, signalVars, serviceVars>>

\* exitCodeWithDefault; 130 stands for 143 too.
ExitCode(e, fallback) ==
    IF "timeout" \in e THEN 124
    ELSE IF "shutdown" \in e THEN 70
    ELSE IF "signal" \in e THEN 130
    ELSE IF "configuration" \in e THEN 78
    ELSE IF "definition" \in e THEN 70
    ELSE IF "startup" \in e THEN 75
    ELSE IF "construction" \in e THEN 70 ELSE fallback

\* isCancellationResult, for the errors of a command.
CanceledOnly(e) ==
    "canceled" \in e /\ e \subseteq {"canceled", "startup", "configuration", "construction"}

\* Execute, once the handler has returned e to the command line library.
Exit(e) ==
    IF e = {} THEN 0
    ELSE IF parent /\ "canceled" \in e
    THEN IF CanceledOnly(e) THEN 0 ELSE ExitCode(e, IF Long THEN 70 ELSE 1)
    ELSE ExitCode(e, 1)

Exits ==
    /\ step = "stop" /\ watch = "done"
    /\ step' = "exited" /\ exit' = Exit(errs)
    /\ UNCHANGED <<conf, mode, errs, ready, parent, ctx, signalVars, serviceVars, happened>>

-----------------------------------------------------------------------------

Watch == WatchReceives \/ WatchDrains \/ WatchCancels \/ WatchGoesOn \/ WatchStops

Command ==
    \/ Compile \/ Construct \/ Prepare \/ Register \/ StartBegins \/ StartComponent \/ StartFails
    \/ StartCompletes \/ Rollback \/ (\E t \in Work : Go(t)) \/ Activate \/ WaitLong \/ WaitOneShot
    \/ ShutdownReturns \/ Escalate \/ HandlerReturns \/ Exits

ExecuteNext ==
    \/ SendSignal \/ CloseSignals \/ ParentCancels \/ Watch \/ Command
    \/ (\E t \in Work : TaskReturns(t)) \/ ServerStops \/ ServerJoins \/ OneShotReturns
    \/ ManagementFails \/ StopComponents

ExecuteSpec == ExecuteInit /\ [][ExecuteNext]_executeVars

\* Goroutines run, deadlines pass and the callbacks of construction and startup
\* return; tasks, handlers and stops may hang.
ExecuteFairSpec == ExecuteSpec /\ WF_executeVars(Watch) /\ WF_executeVars(Command)

-----------------------------------------------------------------------------
(* Properties.                                                             *)

\* A command exits with 0 only if nothing failed at any time and no signal
\* had canceled it; a signal that came to a command with its correlation values
\* shows in the exit code unless a failed or late shutdown does; a late shutdown
\* always does (Execute, exitCodeWithDefault, preserveCommandSignal).
ExitTells ==
    step = "exited" =>
        /\ exit = 0 => happened = {}
        /\ "timeout" \in happened => exit = 124
        /\ "signal" \in happened => exit \in {130, 70, 124}

\* A command that exits has retracted the readiness it announced (markReady,
\* beginDrain) and closed the admission of the service it started, on every path,
\* also if the signal came before its callback was registered or could drain; and
\* it leaves no task, server or component behind unless the exit code, or the
\* rollback in its error, says that cleanup was late.
OwnersReleased ==
    step = "exited" =>
        /\ ~ready /\ (service # "new" => admission)
        /\ errs \cap {"timeout", "rollback"} = {} =>
              /\ started = 0 /\ management = "none"
              /\ \A t \in Work : Returned(t)

\* Asked to stop by a signal, by its signal channel or by its parent, or when a
\* failure has canceled its service or ended its business server, a command exits,
\* even if its tasks, handlers and component stops hang.
CommandExits ==
    (\/ parent \/ inbox > 0 \/ got # "none" \/ rt # "none"
     \/ "http" \in DOMAIN task /\ task["http"] = "failed") ~> (step = "exited")

\* Execute: "Exit codes are 0 for success or normal selected-command parent
\* cancellation": without a failure or a signal the exit code is 0.
CancellationIsClean == step = "exited" /\ happened = {} => exit = 0

=============================================================================
