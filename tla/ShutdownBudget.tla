--------------------------- MODULE ShutdownBudget ---------------------------
(***************************************************************************)
(* The runner of run.go, which stops a started service after the first     *)
(* signal and escalates after the second, and the two-phase shutdown       *)
(* allowance of shutdown_budget.go.  Five goroutines interleave: the       *)
(* runner, the one that calls budgetedShutdown, the stopComponents         *)
(* coordinator, the timer that runs expire and the one that propagates a   *)
(* cancellation to the contexts of the Stop callbacks.                     *)
(*                                                                         *)
(* The service is reduced to what Service.Shutdown shows its callers; its  *)
(* own steps are those of Lifecycle.  Time is counted from the entry into  *)
(* shutdownWithEscalation, in units of which Total and Component are       *)
(* multiples.  It does not pass an instant at which a timer is due before  *)
(* that timer has fired; the goroutine that the timer starts may be late.  *)
(***************************************************************************)
EXTENDS Integers

CONSTANTS
    Budgeted,      \* the values that budgeted may have
    Total,         \* the shutdown timeout
    Component,     \* runtime.componentStopTimeout
    N,             \* components with a Stop callback
    MaxSignals,    \* bound: signals sent to the process
    None

ASSUME BudgetAssumption ==
    /\ Budgeted \subseteq BOOLEAN
    /\ Total \in Nat \ {0} /\ Component \in Nat \ {0}
    /\ N \in Nat /\ MaxSignals \in Nat
    /\ None \notin Nat \cup {"deadline", "canceled"}

\* Bound: nothing changes with time after every deadline has passed.
Horizon == Total + Component + 1

VARIABLES
    budgeted,      \* runtime.componentStopTimeout > 0
    now,
    runner,        \* where waitWithSignals and shutdownWithEscalation are
    captured,      \* the deadline of the completion context
    result,        \* the classified error, as the set of its causes
    pending, closed, sent,   \* the signal channel, of capacity two
    caller,        \* where the budgetedShutdown goroutine is
    outcome,       \* the error it returns, as the set of its causes
    service,       \* what Shutdown shows: ready, joining, stopping, stopped
    admission, stopsLeft, failed, stoppedAt,
    cause,         \* context.Cause of the waiter context
    timer, deadline, components,     \* shutdownBudget
    expiring,      \* a timer started expire, which has not canceled yet
    phaseCause, phaseDeadline        \* the context of the Stop callbacks

signalVars == <<pending, closed, sent>>
serviceVars == <<service, admission, stopsLeft, failed, stoppedAt>>
budgetVars == <<timer, deadline, components, expiring>>
phaseVars == <<phaseCause, phaseDeadline>>
vars == <<budgeted, now, runner, captured, result, signalVars, caller, outcome, serviceVars, cause,
          budgetVars, phaseVars>>

Init ==
    /\ budgeted \in Budgeted
    /\ now = 0 /\ runner = "waiting" /\ captured = None /\ result = {}
    /\ pending = 0 /\ closed = FALSE /\ sent = 0
    /\ caller = "none" /\ outcome = {}
    /\ service = "ready" /\ admission = "open" /\ stopsLeft = N
    /\ failed = FALSE /\ stoppedAt = None
    /\ cause = None /\ timer = "none" /\ deadline = 0 /\ components = FALSE
    /\ expiring = FALSE /\ phaseCause = None /\ phaseDeadline = None

-----------------------------------------------------------------------------
(* The signal channel *)

\* signal.Notify drops a signal that the channel of capacity two has no room for.
Offer == pending' = IF pending < 2 THEN pending + 1 ELSE pending

Signal ==
    /\ sent < MaxSignals /\ ~closed
    /\ sent' = sent + 1
    /\ Offer
    /\ UNCHANGED <<budgeted, now, runner, captured, result, closed, caller, outcome, serviceVars,
                   cause, budgetVars, phaseVars>>

\* The owner of a channel given to RunWithSignals closes it.
CloseSignals ==
    /\ ~closed /\ closed' = TRUE
    /\ UNCHANGED <<budgeted, now, runner, captured, result, pending, sent, caller, outcome,
                   serviceVars, cause, budgetVars, phaseVars>>

\* A receive from the channel: a signal, or the end of the closed channel.
ReceiveSignal == pending > 0 /\ pending' = pending - 1 /\ UNCHANGED <<closed, sent>>
ReceiveClosed == pending = 0 /\ closed /\ UNCHANGED signalVars

-----------------------------------------------------------------------------
(* The service *)

\* A call of Drain begins the admission closure unless it has begun.
BeginDrain == admission' = IF admission = "open" THEN "closing" ELSE admission

\* The admission callbacks return.
AdmissionReturns ==
    /\ admission = "closing" /\ admission' = "closed"
    /\ UNCHANGED <<budgeted, now, runner, captured, result, signalVars, caller, outcome, service,
                   stopsLeft, failed, stoppedAt, cause, budgetVars, phaseVars>>

\* Mutant: a timer that has already fired does not stand in the way.
GrantAnyTimer == ~components /\ cause = None

\* The conditions of beginComponentStop for a fresh deadline; timer.Stop
\* reports whether it prevented the timer from firing.
Grantable == ~components /\ cause = None /\ timer = "armed"

\* Mutant: an earlier cancellation is left to the AfterFunc.
PhaseCauseLater(at) == IF at <= now THEN "deadline" ELSE None

\* The cause that withPhaseDeadline gives the context of the Stop callbacks: a
\* deadline in the past ends it at once, an earlier cancellation follows.
PhaseCause(at) ==
    CASE at <= now -> "deadline"
      [] at > now /\ cause = "canceled" -> "canceled"
      [] OTHER -> None

\* The tasks have joined and the coordinator calls beginComponentStop.
BeginComponentStop ==
    /\ service = "joining" /\ service' = "stopping"
    /\ \/ /\ ~budgeted
          /\ UNCHANGED <<budgetVars, phaseVars>>
       \/ /\ budgeted /\ Grantable
          /\ components' = TRUE /\ deadline' = now + Component /\ timer' = "armed"
          /\ phaseDeadline' = deadline' /\ phaseCause' = PhaseCause(deadline')
          /\ UNCHANGED expiring
       \/ /\ budgeted /\ ~Grantable
          /\ phaseDeadline' = deadline /\ phaseCause' = PhaseCause(deadline)
          /\ UNCHANGED budgetVars
    /\ UNCHANGED <<budgeted, now, runner, captured, result, signalVars, caller, outcome, admission,
                   stopsLeft, failed, stoppedAt, cause>>

\* A Stop callback returns.
StopReturns ==
    /\ service = "stopping" /\ stopsLeft > 0
    /\ stopsLeft' = stopsLeft - 1
    /\ failed' \in {failed, TRUE}
    /\ UNCHANGED <<budgeted, now, runner, captured, result, signalVars, caller, outcome, service,
                   admission, stoppedAt, cause, budgetVars, phaseVars>>

\* The coordinator publishes the terminal result.
FinishShutdown ==
    /\ service = "stopping" /\ stopsLeft = 0
    /\ service' = "stopped" /\ stoppedAt' = now
    /\ UNCHANGED <<budgeted, now, runner, captured, result, signalVars, caller, outcome, admission,
                   stopsLeft, failed, cause, budgetVars, phaseVars>>

\* What Shutdown returns once the service is stopped.
Retained == IF failed THEN {"failures"} ELSE {}

-----------------------------------------------------------------------------
(* Time, timers and the propagation of a cancellation *)

\* A context of the Stop callbacks that has not ended.
PhaseLive == service = "stopping" /\ phaseDeadline # None /\ phaseCause = None

Tick ==
    /\ timer # "none" /\ now < Horizon
    /\ ~(timer = "armed" /\ deadline <= now)
    /\ ~(PhaseLive /\ phaseDeadline <= now)
    /\ now' = now + 1
    /\ UNCHANGED <<budgeted, runner, captured, result, signalVars, caller, outcome, serviceVars, cause,
                   budgetVars, phaseVars>>

TimerFires ==
    /\ timer = "armed" /\ deadline <= now
    /\ timer' = "fired" /\ expiring' = TRUE
    /\ UNCHANGED <<budgeted, now, runner, captured, result, signalVars, caller, outcome, serviceVars,
                   cause, deadline, components, phaseVars>>

\* A context keeps the first cause it is canceled with.
EndWaiter(c) == cause' = IF cause = None THEN c ELSE cause

Expire ==
    /\ expiring /\ expiring' = FALSE
    /\ EndWaiter("deadline")
    /\ UNCHANGED <<budgeted, now, runner, captured, result, signalVars, caller, outcome, serviceVars,
                   timer, deadline, components, phaseVars>>

\* The native deadline of the context of the Stop callbacks.
PhaseExpires ==
    /\ PhaseLive /\ phaseDeadline <= now
    /\ phaseCause' = "deadline"
    /\ UNCHANGED <<budgeted, now, runner, captured, result, signalVars, caller, outcome, serviceVars,
                   cause, budgetVars, phaseDeadline>>

\* Mutant: every end of the waiter context is propagated.
PropagateAll ==
    /\ PhaseLive /\ cause # None
    /\ phaseCause' = "canceled"
    /\ UNCHANGED <<budgeted, now, runner, captured, result, signalVars, caller, outcome, serviceVars,
                   cause, budgetVars, phaseDeadline>>

\* The AfterFunc of withPhaseDeadline runs propagate.
Propagate ==
    /\ PhaseLive /\ cause = "canceled"
    /\ phaseCause' = "canceled"
    /\ UNCHANGED <<budgeted, now, runner, captured, result, signalVars, caller, outcome, serviceVars,
                   cause, budgetVars, phaseDeadline>>

-----------------------------------------------------------------------------
(* The goroutine that calls budgetedShutdown *)

\* Shutdown drains, and its critical section begins the cleanup.
ShutdownBegins ==
    /\ caller = "draining"
    /\ \/ /\ admission # "closed"
          /\ admission = "open" /\ BeginDrain
          /\ UNCHANGED <<caller, service>>
       \/ /\ admission = "closed"
          /\ service' = "joining" /\ caller' = "waiting"
          /\ UNCHANGED admission
    /\ UNCHANGED <<budgeted, now, runner, captured, result, signalVars, outcome, stopsLeft, failed,
                   stoppedAt, cause, budgetVars, phaseVars>>

\* The select of waitForShutdown: the cleanup ended, or the waiter context did.
ShutdownReturns ==
    /\ caller = "waiting"
    /\ \/ service = "stopped" /\ outcome' = Retained
       \/ cause # None /\ outcome' = {cause}
    /\ caller' = "classifying"
    /\ UNCHANGED <<budgeted, now, runner, captured, result, signalVars, serviceVars, cause, budgetVars,
                   phaseVars>>

\* Mutant: the component phase counts as expired only after its deadline.
PhaseOverrun == components /\ now > deadline

\* The check of budgetedShutdown.
PhaseExpired == components /\ now >= deadline

\* The rest of budgetedShutdown.
Classify ==
    /\ caller = "classifying" /\ caller' = "done"
    /\ outcome' = IF budgeted /\ outcome # {} /\ PhaseExpired
                  THEN outcome \cup {"deadline"} ELSE outcome
    /\ UNCHANGED <<budgeted, now, runner, captured, result, signalVars, serviceVars, cause, budgetVars,
                   phaseVars>>

-----------------------------------------------------------------------------
(* The runner *)

\* The select of waitWithSignals: a signal, the end of the channel or of the
\* context of the caller leads to cancelWithCause; a service context that has
\* ended by itself does not.
WaitWithSignals ==
    /\ runner = "waiting"
    /\ \/ ReceiveSignal /\ runner' = "draining"
       \/ ReceiveClosed /\ runner' = "draining"
       \/ runner' \in {"draining", "entering"} /\ UNCHANGED signalVars
    /\ UNCHANGED <<budgeted, now, captured, result, caller, outcome, serviceVars, cause, budgetVars,
                   phaseVars>>

\* cancelWithCause drains the service before it cancels it.
CancelWithCause ==
    /\ runner = "draining"
    /\ \/ /\ admission = "open" /\ BeginDrain
          /\ UNCHANGED runner
       \/ /\ admission = "closed"
          /\ runner' = "entering"
          /\ UNCHANGED admission
    /\ UNCHANGED <<budgeted, now, captured, result, signalVars, caller, outcome, service, stopsLeft,
                   failed, stoppedAt, cause, budgetVars, phaseVars>>

\* newShutdownContext, and the launch of budgetedShutdown.
NewShutdownContext ==
    /\ runner = "entering" /\ runner' = "selecting"
    /\ deadline' = now + Total /\ timer' = "armed"
    /\ caller' = "draining"
    /\ UNCHANGED <<budgeted, now, captured, result, signalVars, outcome, serviceVars, cause, components,
                   expiring, phaseVars>>

\* The runner returns err; its deferred calls release the waiter context.
Return(err) ==
    /\ runner' = "done" /\ result' = err
    /\ timer' = IF timer = "armed" THEN "stopped" ELSE timer
    /\ EndWaiter("canceled")
    /\ UNCHANGED <<budgeted, now, captured, signalVars, caller, outcome, serviceVars, deadline,
                   components, expiring, phaseVars>>

\* The select of shutdownWithEscalation receives the result, or the receive
\* that a closed channel leads to does.
ReceiveResult ==
    /\ runner \in {"selecting", "awaiting"} /\ caller = "done"
    /\ Return(outcome)

\* It receives the end of the channel.
StreamEnds ==
    /\ runner = "selecting" /\ ReceiveClosed /\ runner' = "awaiting"
    /\ UNCHANGED <<budgeted, now, captured, result, caller, outcome, serviceVars, cause, budgetVars,
                   phaseVars>>

\* shutdownDeadline.
ShutdownDeadline == deadline

\* It receives a second signal and reads the deadline that applies.
Escalate ==
    /\ runner = "selecting" /\ ReceiveSignal /\ runner' = "escalating"
    /\ captured' = ShutdownDeadline
    /\ UNCHANGED <<budgeted, now, result, caller, outcome, serviceVars, cause, budgetVars, phaseVars>>

\* The cancel function stops the timer under the lock of the budget.
EscalateStopsTimer ==
    /\ runner = "escalating" /\ runner' = "canceling"
    /\ timer' = IF timer = "armed" THEN "stopped" ELSE timer
    /\ UNCHANGED <<budgeted, now, captured, result, signalVars, caller, outcome, serviceVars, cause,
                   deadline, components, expiring, phaseVars>>

\* Then it cancels the waiter context.
EscalateCancels ==
    /\ runner = "canceling" /\ runner' = "joining"
    /\ EndWaiter("canceled")
    /\ UNCHANGED <<budgeted, now, captured, result, signalVars, caller, outcome, serviceVars,
                   budgetVars, phaseVars>>

\* The first result is received and dropped.
Join ==
    /\ runner = "joining" /\ caller = "done"
    /\ runner' = "completing"
    /\ UNCHANGED <<budgeted, now, captured, result, signalVars, caller, outcome, serviceVars, cause,
                   budgetVars, phaseVars>>

\* Mutant: the second Shutdown waits without a deadline.
CompleteUnbounded == runner = "completing" /\ service = "stopped" /\ Return(Retained)

\* The second Shutdown: the service is stopped, or the completion context has
\* ended; its select takes either when both are so.
Complete ==
    /\ runner = "completing"
    /\ \/ service = "stopped" /\ Return(Retained)
       \/ captured <= now /\ Return({"deadline"})

-----------------------------------------------------------------------------

Environment == Signal \/ CloseSignals \/ AdmissionReturns \/ StopReturns
Clock == Tick \/ TimerFires \/ Expire \/ PhaseExpires \/ Propagate
Caller == ShutdownBegins \/ ShutdownReturns \/ Classify
Runner ==
    \/ WaitWithSignals \/ CancelWithCause \/ NewShutdownContext
    \/ ReceiveResult \/ StreamEnds \/ Escalate \/ EscalateStopsTimer \/ EscalateCancels
    \/ Join \/ Complete

\* The runner returned; what is left of the cleanup may never end.
Terminated == runner = "done" /\ UNCHANGED vars

Next ==
    \/ Environment \/ BeginComponentStop \/ FinishShutdown
    \/ Clock \/ Caller \/ Runner \/ Terminated

Spec == Init /\ [][Next]_vars

\* Time passes, goroutines are scheduled and admission callbacks return.
\* Neither the tasks nor the Stop callbacks are bound to return.
Fairness ==
    /\ WF_vars(Tick) /\ WF_vars(TimerFires) /\ WF_vars(Expire)
    /\ WF_vars(PhaseExpires) /\ WF_vars(Propagate)
    /\ WF_vars(AdmissionReturns) /\ WF_vars(Caller)
    /\ WF_vars(runner # "waiting" /\ Runner)

FairSpec == Spec /\ Fairness

-----------------------------------------------------------------------------
(* Properties *)

Escalated == captured # None

\* "the drain deadline and the component deadline can never both apply": the
\* waiter context is not ended by a deadline before the one in force, even if
\* expire was already running when beginComponentStop moved the deadline.  Nor
\* do the phases add up to more than the documented longest wait, the total
\* allowance and, with a budget, one component allowance.
DeadlinesExclusive ==
    /\ cause = "deadline" => deadline <= now
    /\ \A at \in {deadline, phaseDeadline, captured} \ {None} :
           at <= Total + (IF budgeted THEN Component ELSE 0)

\* Stop callbacks see their context canceled only after a second signal; the
\* expiry of the waiter, which races their own deadline, is not one.
StopsSeeDeadline == phaseCause = "canceled" => Escalated

\* "When the component deadline passes, shutdown reports ShutdownTimeoutError
\* even if a Stop returned its own error as the deadline expired."
ExpiredPhaseReported ==
    runner = "done" /\ components /\ failed /\ stoppedAt # None /\ stoppedAt >= deadline =>
        "deadline" \in result

\* The runner reports a completed cleanup, with its failures, or a timeout: the
\* cancellation by which it escalates is not what it returns, and as long as no
\* signal follows the first one an expired component phase is a timeout although
\* the Stop callbacks ended it with their errors.
OutcomeReported ==
    /\ runner = "done" =>
           /\ "canceled" \notin result
           /\ "deadline" \notin result => service = "stopped" /\ result = Retained
    /\ ~Escalated => ExpiredPhaseReported

\* The runner returns although tasks and Stop callbacks never do.
RunReturns == runner # "waiting" ~> runner = "done"

\* "an escalation that happened during the drain must reach stops before the
\* first one runs": no Stop callback begins with a live context after it, and
\* none is given more time than the deadline that was in force.
EscalationReachesStops ==
    [][budgeted /\ cause = "canceled" /\ service' # service /\ service' = "stopping" =>
        phaseCause' # None /\ deadline' = deadline]_vars

=============================================================================
