# Verification of go-service

TLA+ specifications of the service runtime in this repository, model-checked
with TLC on small instances and, where the prover reaches, proved with TLAPS
for every value of the constants. `PROJECT.json` lists the runs, the theorems,
the hazards and, for every definition that models code, the lines it models.

## The system

A program describes *components* (resources with `Start`, `CloseAdmission` and
`Stop`) and *tasks* (goroutines). The library starts the components in order,
runs the tasks, reacts to signals and failures, and then closes admission,
cancels the tasks, joins them and stops the components in reverse order,
within a deadline.

| Part | Source | State | Operations | What makes it hard |
|---|---|---|---|---|
| service lifecycle | `lifecycle.go` | state, context cause, task counter, drain and stop flags, three channels, failure lists | `Start`, `Drain`, `Go`, `Shutdown`, `Ready`, rollback, cleanup coordinator | every call may race every other; state is read, the lock dropped, and the value used later |
| signal runner | `run.go` | signal channel, waiter contexts | `Run`, `RunWithSignals`, `Wait`, `WaitWithSignals`, escalation, `cancelWithCause` | signals dropped or channel closed; a second signal races the end of cleanup and the timers |
| shutdown budget | `shutdown_budget.go` | deadlines of the total and the component phase | `newShutdownContext`, `beginComponentStop`, `expire`, `budgetedShutdown` | two timers, a grant that may come too late, causes that must reach `Stop` callbacks |
| owned resource | `owned.go` | state, resource, `cancelOpen`, `stopDone`, `stopErr` | `Start`, `Stop`, `Current` | `Stop` during `Open` or during a discard; repeated starts |
| HTTP server | `serverhttp/server.go`, `handler_join.go`, `connection_limit.go` | run flag, close-once, handler count, reservations | `Run`, `Close`, `CloseAdmission`, `WaitHandlers`, `Accept` | `Close` before or during `Run`; a full connection limit during shutdown; handlers that never return |
| HTTP middleware | `serverhttp/middleware.go` | none | `Chain`, `Recover`, `limitBody` | order of wrappers, panics after the header was written |
| health probes | `healthhttp/health.go` | semaphore | `Liveness`, `Startup`, `Readiness`, `evaluate`, `evaluateCheck` | checks that outlive their deadline keep capacity |
| maintenance | `maintenance.go` | snapshot pointer, file | stores, `refresh`, `admission`, `down`/`up`/`status` | stale snapshots, failing refresh, a crash between write and rename, commands in other processes |
| observability | `observability.go` | ready, draining, last result per probe | `markReady`, `beginDrain`, `probe`, `request` | transitions decided and published in different steps |
| platform | `platform.go` | activation flag, owners of two servers, signal goroutine | `Execute`, `executePlan`, one-shot and long-running commands, exit codes | composes everything above |
| classification | `classification.go`, `cancellationOnly` of `lifecycle.go` | none | walks over error graphs | shared causes, errors that cannot be compared |
| durability reference | `integration/reference-durability` | database rows, stream, expectation file | `PrepareRecovery`, `Recover`, `Run`, the recovery probe | processes killed between any two durable effects |

The runner calls `Drain` and `Shutdown` of the lifecycle. The lifecycle asks
the budget, which travels in the context of `Shutdown`, for the phase of its
`Stop` callbacks. `Owned` and the servers of the platform are components, so
their `Start` and `Stop` are called by the lifecycle; the business server also
runs as a task. The platform builds a service from a command's plan, adds the
management server, the maintenance store and the business server to it, and
turns what happened into an exit code. The durability reference is a program
that uses the library: its queue is a component whose `CloseAdmission` and
`Stop` the lifecycle calls.

## Modules

**Lifecycle** (`lifecycle.go`, and `cancelWithCause` of `run.go`). A process is
one call: a member of `Starters`, `Drainers`, `Stoppers` (`Shutdown`),
`Cancelers` (`cancelWithCause`) or a task of `Tasks` (`Go` and its goroutine).
The variables are the fields of `Service`; `pc` and `result` are where a call
is and what it returned; `coord` is the goroutine of `stopComponents` or
`beginRollback` that a call launched. A step is one critical section of the
mutex, the return of one component callback, or one channel receive, so that
everything the code does between two locks can be interrupted. Callbacks and
tasks succeed or fail nondeterministically; a panic is a failure, as in
`invoke`. A failure is a record of its component and operation. The members of
`EarlyCallers` may be called before `Start` has returned; the others wait for
it, which is how `Run` and the platform use the lifecycle.

**ServiceContract** and **LifecycleRefinement**. The contract is the diagram of
`docs/lifecycle.md` without locks: components are a stack, admission is open,
closing or closed, release happens only when admission is closed, the service
is canceled and no accepted task is left. `LifecycleRefinement` gives the
mapping; the height of the stack is `started` until a cleanup runs and its loop
index from then on.

**ShutdownBudget** (`run.go`, `shutdown_budget.go`). The runner, the goroutine
that runs `budgetedShutdown`, the lifecycle reduced to admission closure,
`Stop` callbacks and publication, and the timers. Time is a counter: it does
not pass a due timer before that has fired, and otherwise at any moment. Tasks
and `Stop` callbacks need never return. `Budgeted` says which allowances a run
covers: the two-phase one of the platform, the single one of `Run` and `Wait`,
or both.

**Owned** (`owned.go`). A member of `Starters` calls `Start` once, one of
`Stoppers` calls `Stop` once, so that retries are further members. The resource
is named after the starter whose `Open` acquired it, and `life` records what
became of it: it is history that no guard reads. `Current` is an operator, for
it only reads.

**HTTPServer** (`serverhttp`). Callers of `Run`, `Close` and `WaitHandlers`,
the goroutine of `Serve`, connections and their handlers. `net/http` is outside
the repository and modelled from its use: `Serve` accepts until its listener is
closed and closes it on return; `Shutdown` and `Close` close the listener, wait
for `Serve`, and then wait for idle connections or cut all of them; hijacked
connections are not theirs. `handling` and `closes` (how often `done` was
closed) only serve the properties.

**Probes** (`healthhttp`, `probe` of `observability.go`). A request is a
process that walks through its checks; every check it starts is a callback
goroutine and a waiter. The semaphore is shared by all requests, and a callback
returns it when it ends, which may be never. A transition is decided in one
step and published in another. `published` is history: gains less losses.

**Requests** (`serverhttp/middleware.go`, `request` of `observability.go`,
`admission` of `maintenance.go`). One request through the layers that the
business server puts around a handler. Each layer has its own response writer,
which remembers whether *it* has written; the handler, or the configured
maintenance response, writes, returns or panics as it likes. Each writer also
has `Unwrap`, so that `http.ResponseController` flushes, or hijacks the
connection, below all of them (`HandlerUnwraps`): none of the layers learns that
the response has begun. `direct` holds the requests of such handlers and
`aborted` those whose panic reached `net/http` because `WithPanicRecovery(false)`
left `Recover` out. Whether there is a maintenance response and panic recovery
is a choice made where the code asks for it, which covers every configuration.

**Maintenance** (`maintenance.go`), which extends `Requests`. Operators run
`down`, `up` and `status` as processes of their own, step by step through
`StoreMaintenance`; a service process loads the state, serves and polls; each
may crash between any two steps. `history` is the sequence of contents of the
store, so that `snapshot` can say *when* the process's state was current.
Storing cuts durations to whole seconds (`Encode`), loading refuses what is too
large or invalid (`Readable`).

**Platform** (`platform.go`, `observability.go`, `run.go`). One command: the
goroutine of `coordinateCommandSignals`, the goroutine of `Execute` from
compilation to the exit code, the management server's goroutine, the business
server's task and its handler join, the tasks. The service in it is nearly as
abstract as `ServiceContract`, because its detail has modules of its own. An
error is the set of classes that the classification finds in it.

**Classification** (`classification.go`, `cancellationOnly`). Two recursive
operators on error graphs, each with a reference that visits every path.
**MCPlatform** enumerates the graphs: all acyclic ones of three and four nodes
with up to two causes each, nil causes, joins and nodes without a key included.

**Durability** and **Reference** (`integration/reference-durability`).
`Durability` has the processes that the recovery probe starts: `PrepareRecovery`
acquires the command, commits row, envelope and completion in one transaction,
relays, claims and publishes its expectation; `Recover` inspects, claims and
acknowledges. They are killed anywhere. `Reference` extends it with `Run`,
which makes the same effects in one process and recovers the abandoned task
with a queue that is drained and shut down as a component. `alone` separates
the two, for `Run` uses a database and a stream of its own. The idempotency
store, the outbox, its relay, the stream and the queue are libraries, modelled
by the contract the code relies on. Two parts of that contract are assumed and
not checked: what `Acquire` answers (`Outcome`), and that the queue waits for its
handler before it shuts down its worker (`Shutdown`). The queue redelivers a task
whose handler failed, as long as its intake is open; the handler then panics,
because it closes `handlerEntered` again.

Definitions whose comment begins with "Mutant" are altered forms of the
definition that follows. They are not used by any specification; replacing a
definition by its mutant must break the property it is listed with.

## Runs

| Run | Shows |
|---|---|
| `lifecycle_calls` | one `Start` and two `Shutdown` calls at any time, against two tasks: cleanup starts once and after the last task, `Shutdown` returns the retained result, every call returns without a deadline, a task failure cancels |
| `lifecycle_ordered` | two `Start` calls, and a `Shutdown`, a `Drain`, a cancellation and failing tasks that do not overtake them: admission closes before cancellation and cleanup, failures are retained, readiness does not come back, and `ServiceContract` is refined |
| `shutdown_budget` | with one and with two allowances: deadlines never overlap, extend or add up to more than documented, `Stop` callbacks can tell expiry from escalation, the runner reports the cleanup or a timeout, and it returns although tasks and `Stop` callbacks do not |
| `owned` | one resource at a time, no use after close, nothing held once stopped; every `Stop` returns and every resource is closed |
| `http_server` | exact connection limit, sound handler join, what `Run` and `Close` leave behind; `Run`, `Close` and `WaitHandlers` return |
| `probes` | running callbacks are bounded by the semaphore, 200 means that every check succeeded, published transitions add up, every probe is answered although callbacks hang |
| `maintenance` | a process serves by what the store held, no earlier than its start, and comes to the last state in spite of failed loads and crashes; temporary files are accounted for; the request event is what was sent, unless a handler flushed or hijacked first; a refused request is told so |
| `platform` | the exit code tells what happened, readiness is retracted, admission closed and nothing left behind, every request to stop and every failure that cancels ends the command; the error classification agrees with its reference |
| `durability` | the command takes effect once however processes overlap, die and lose their lease; what `Recover` and `Run` report is true and final; both campaigns end |
| `shutdown_overtakes_start`, `escalation_drops_timeout`, `cancellation_exit` | violations, below |

### Bounds

Two components are enough for every order question about component loops (the
first, the last and the next one); two tasks leave one running when the other
ends, and with `MaxTasks = 1` the second is refused. Two `Shutdown` calls make
a caller that coordinates and one that joins. In the budget each allowance is
two ticks, so that an event can fall before, between and on the deadlines;
three signals are one more than the channel holds. `Horizon` ends time after
every deadline has passed. Three starters of `Owned` allow one that fails, one
that discards and one that publishes, with two stops against them. One
reservation and two connections exhaust the connection limit. Two probe
requests with two checks each exceed a semaphore of two; a configured
concurrency above the number of checks, and its default, are both constructed.
Two operators make commands overlap, two starts and two faults let a process
crash and come back under a changed store; durations fall below, between and
above whole seconds and the maximum, and requests come with and without the
secret as their path or cookie, by GET and by another method, small and too
large. One task beside the business server, and
two signals, which are one to cancel and one to escalate. Two preparers, so
that a lease can pass from one to the other, two recoverers, so that a task can
be claimed under a slow consumer, and three faults, which kill each recoverer
once and one of them twice.

The starters and tasks of `lifecycle_ordered` are interchangeable, and the run
uses that symmetry (its action properties and the refinement, which is without
fairness, are checked step by step); runs that check liveness use none.

Deadlock is checked for the lifecycle, the budget, `Owned` and the server,
where the step `Terminated` stands for the behaviours in which every call has
returned. Probes, commands, processes and campaigns end for good, and their
runs do not check it; their liveness properties say that they do end.

### Fairness

Goroutines that can run do (weak fairness per process). Component callbacks of
the lifecycle return, and tasks return once their context is canceled, as
`docs/lifecycle.md` asks of them; no call has to be made and no deadline has to
pass, so that waiting calls are released by their partners and not by time. In
`ShutdownBudget` the opposite is assumed: time passes and timers fire, but tasks
and `Stop` callbacks need not return. In `Owned`, `Open` returns only when its
context has ended, and `Close` returns. In `HTTPServer`, `Accept` fails on a
closed listener and the shutdown deadline passes; handlers and clients need do
nothing, except in the last conjunct of `ServerReturns`, whose premise is that
handlers return. In `Probes` the deadline of a check passes; callbacks need not
return. In `Maintenance` commands go on, a stopped process is started again
(up to the bound) and the ticker ticks; loads may fail as often as faults
allow. In `Platform` the signal goroutine and the command's goroutine go on, and
the latter's deadline passes; tasks, servers and stops need not return. In
`Durability` recovery is repeated, and a consumer's claim becomes idle only in
the end: `Recover` acknowledges at once what it has claimed, so that strong
fairness of its acknowledgement says no more than that its claims are not
always stolen in between. In `Reference` the goroutines of `Run` and of the
queue go on; neither the end of the context nor a death is assumed.

### Violations

1. `shutdown_overtakes_start`: `Shutdown` reads the state, drops the lock, and
   acts on the old value (`lifecycle.go:647`). If `Start` publishes *ready* in
   between, components are stopped without closing admission. By the same read
   the cleanup can end while a `Drain` is closing admission, and the failure
   which that `Drain` returns is missing in the retained result.
2. `escalation_drops_timeout`: a signal received when the cleanup has just
   ended makes `shutdownWithEscalation` replace the timeout classification of
   `budgetedShutdown` by the bare failures (`run.go:205`).
3. `cancellation_exit`: a parent that is canceled after startup and before the
   first task makes `Go` refuse the task, and the command, in which nothing
   failed, exits with 1 (`platform.go:1319`).

One more disagreement is stated as an exception in the properties and not as a
run of its own: `docs/maintenance.md:61` says of a configured response that "The
platform still forces status 503", but a response that flushes or hijacks before
it writes a status goes past `maintenanceResponseWriter` (`maintenance.go:502`),
and its client gets 200 or whatever the hijacker sends. `docs/http.md:113`
promises that `http.ResponseController` works, so that the same is true of the
request event, which then has the status that the layers saw. `RefusedUnavailable` and
`ObservedIsSent` say exactly what is left.

`PROJECT.json` quotes the lines that the runs contradict. `AdmissionBeforeStop`
holds, and is checked to hold, when no call overtakes `Start`; the timeout
classification holds as a part of `OutcomeReported` when no signal follows the
first one; that a failed or signalled command never exits with 0 is a part of
`ExitTells`.

## Proofs

**Lifecycle** (`LifecycleSteps`, `LifecycleProofs`), for any number of
components, tasks and callers, early ones included: `TypeOK`, `StopsAfterJoin`,
`SingleCoordinator`, `TerminalResult`, `ReadinessWithdrawn`, and `TasksCounted`,
the exactness of the task counter, on which the others rest. The assumptions
are `SizeAssumption` (the callback sets are sets of component indices,
`MaxTasks` is positive as `New` and `Go` make it, and the set of tasks is
finite, because they are counted) and `ProcessAssumption` (the kinds of callers
and `None` are disjoint).

None of these is inductive: that no `Stop` runs while a task does follows only
from who is allowed to launch the cleanup. The invariant `IInv` therefore adds
to `TypeOK`

- `TaskInv`: the counter is the number of live tasks, and it is zero in the
  states without tasks and once the cleanup was launched (`stopsStarted`);
- `StartInv`: at most one starter is past the check of the state, and from the
  failure of a start to its rollback no other call can launch a cleanup;
- `CoordInv`: at most one coordinator, launched by a call that set
  `stopsStarted`, and running only in state *stopping*;
- `ResultInv`: the result is empty before *stopped*, `shutdownDone` is closed
  only then, and a `Shutdown` that waits for a start knows that this start can
  only end in a rollback.

`LifecycleSteps` shows that every step preserves the types and each of these
conjuncts; `LifecycleProofs` derives the theorems.

When no call overtakes `Start` (`Ordered`, which is `EarlyCallers = {}`; the run
`shutdown_overtakes_start` shows that they fail otherwise), three more
properties and the refinement are proved: `AdmissionBeforeStop`,
`AdmissionBeforeCancel`, `FailuresRetained`, and that every step of `Lifecycle`
is a step of `ServiceContract` or a stutter (`Implements`). `OrderInv` adds to
`IInv` what the state tells of the attempt to start (`StartedInv`), that there
is one closure of admission, which everything that cancels or stops comes after
(`ClosureInv`), and that the published result is the failures so far
(`PublishedInv`).

**ShutdownBudget** (`BudgetProofs`), for all allowances and any number of `Stop`
callbacks and signals: `DeadlinesExclusive`, `StopsSeeDeadline`,
`OutcomeReported` and `EscalationReachesStops`. Assumed is that the allowances
are positive (`BudgetAssumption`). `BudgetInv` consists of `TimerInv` (time does
not pass an armed timer, and only a timer that fired ends the waiter by a
deadline), `AllowanceInv` (the component phase is granted once and within the
total), `CallInv` (where the runner, the caller of `budgetedShutdown` and the
service can be together), `EscalationInv` (a cancellation is an escalation, or
comes when the service is stopped), `StoppedInv` and `OutcomeInv` (what is about
to be returned, before the runner has it).

**Owned** (`OwnershipProofs`), for any number of starts and stops: the three safety
properties of the run; that all stops share one result, that no step closes
`stopDone` twice and that no resource is lost by its start (`SharedStopResult`,
`CloseOnce`, `StartOwnsDiscard`); and its types.
The field `state` alone does not say who works on the resource: *closed* may
mean that an `Open`, a discard, a close or nothing is running. `IInv` adds
`Roles` (labels per kind of call), `BusyInv` (at most one call is inside `Open`
or `Close`; while it is, nothing is published and `stopDone` is not closed),
`LifeInv` (each acquired resource is published or has one call that answers for
it) and `StopInv` (when `stopDone` exists, and that the result is fixed when it
is closed). The only assumption is that starters, stoppers and `None` differ.

**HTTPServer** (`HTTPServerProofs`), for any number of connections and callers
and any limit: `HandlersJoined`, `CapacityExact` and `RunCleansUp`. Assumed is
that a caller stands for one call of one method (`CallersAssumption`) and that
the limit is positive (`ServerAssumption`). `DrainInv` makes the join inductive:
`active` counts the admitted handlers, each of which has a connection of its
own. `CapacityInv` adds that the set of live connections is finite, because it
is counted. What `Run` leaves behind depends on who runs the body of
`closeOnce`; `CloseAt` and `RunAt` say for each call what it has done so far,
`Quiet` what stays so once the server is stopped, and `Forward` lists what no
step undoes.

**Probes** (`ProbesProofs`), for any number of requests and checks and any
configuration that `New` accepts: `CallbacksBounded`, `ReadyMeansChecked` and
`TransitionsAddUp`. The only assumption is that the sizes are natural numbers
(`ProbesAssumption`). `FreshInv` says that a check which the loop has not come to
has no callback, so that no callback is counted twice; `SemaphoreInv` that the
semaphore counts the callbacks which have not released it; `ResultInv` links an
answer to its results and these to the callbacks; `BalanceInv` that the
transitions which are decided and not published are finitely many and make up
the difference between what was published and what is recorded.

**Requests** and **Maintenance** (`MaintenanceProofs`), for any number of
requests and operators, any options and any length of the store's history:
`RefusedUnavailable`, `ObservedIsSent`, `TemporariesAccounted` and
`SnapshotGenuine`. Assumed is that statuses and sizes are natural numbers and
options are those of `down` (`RequestsAssumption`,
`MaintenanceAssumption`). `RequestInv` and `AgreedInv` say that the writers of
all layers are untouched or agree on the status, unless the handler began the
response below them (`direct`); the latter, and with it
`ObservedIsSent`, holds if handlers write final statuses only
(`FinalStatuses`), for an informational one is recorded as if it ended the
response (a hazard in `PROJECT.json`). `HistoryInv` has the validity of what
commands are about to store, `SnapshotInv` the place in the history that a
process has read, which is never before its start.

**Reference** (`ReferenceProofs`), for any number of preparing and recovering
processes: `OneEffect`, of the campaign and of `Run`, and `ReportsTrue`. Assumed is that preparers,
recoverers and `None` differ and that `Run` is one of the preparers. The row,
the record and the envelope are easily seen to be written together; that the
stream never holds a second task, and none is acknowledged early, needs who is
where: `RelayAt` says that a process past its commit has the only envelope and
which state this is in, `RecoverAt` and `DeliveryInv` that nobody reaches an
acknowledgement before the envelope is marked. Every step either moves one
process and leaves the envelopes alone (`PreparerMoves`, `RecovererMoves`,
`NobodyMoves`), or it is the commit or a step of the relay. For the reports,
`ReportInv` adds that the queue is shut down once, that its handler returns when
released, after the intake was closed, and fails only when the context has ended
(`QueueInv`), that a reported success is that of an acknowledged task
(`AckedInv`), and what `Run` knows at each of its labels (`RunnerAt`).

**Platform** (`OwnershipProofs`), for any set of tasks and any number of signals:
`ExitTells` and `OwnersReleased`. Assumed is that the plan's tasks are neither
the business server's nor the one-shot one (`PlatformAssumption`). What an exit
code can tell depends on what can still happen when it is chosen. `Quiet` says
that the command owns nothing, so that no failure can follow; `EndInv` that the
command is quiet, or its error tells of a late cleanup, and that the error tells
of every failure so far. Before that, `RecordInv` says where a failure is that
no error has yet: retained by the service, or with the server or the task that
will report it; `StartupInv`, `ModeInv` and `ServiceAt` what startup, the
callers of `Shutdown` and the service know of each other. `AdmissionInv` says that
admission is closed from the failure of a start or the call of `Shutdown` on.

Only model-checked: the liveness properties (`CallsReturn`,
`TaskFailureCancels`, `RunReturns`, `StopReturns`, `ResourceReleased`,
`ServerReturns`, `ProbesAnswer`, `SnapshotsConverge`, `CommandExits`,
`CampaignEnds`), because the prover does not handle fairness; and
`ClassificationExact`, because what recursive operators compute cannot be proved
by induction here, and so it is compared on all small graphs. Every other property
of the passing runs is the statement of a theorem.

## Not modelled

- Validation of configurations and plans, command line parsing, error texts,
  log attributes, headers and bodies: data without control. Where validation
  decides how much capacity there is (`New` of `healthhttp`) or what can be
  stored (`maintenance.go`), it is modelled.
- The limit on tasks of a command (`platform.go:1153`) and informational
  statuses (`observability.go:353`) are listed as hazards without a property,
  with the reason.
- `servicetest` is test support, `integration.go` passes hooks on; neither has
  state that outlives a call and that the library depends on.
- The HTTP, external and platform references, the adoption samples, the
  examples and the benchmarks wire the library to third-party clients. What
  they do to the lifecycle is what `Platform`, `HTTPServer` and `Owned` do.
- The queue version skew probe compares the encodings of two versions of a
  library that is not in the repository.
- Several streams per connection and the timeouts of single requests belong to
  `net/http`.
