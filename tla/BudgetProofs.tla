---------------------------- MODULE BudgetProofs ----------------------------
(***************************************************************************)
(* Proofs about ShutdownBudget for every allowance, number of Stop         *)
(* callbacks and number of signals.                                        *)
(***************************************************************************)
EXTENDS ShutdownBudget, TLAPS

\* A leaf has more than the default time: in a long module it may wait for another.
USE SMTT(20), ZenonT(20)

\* The causes that contexts end with, and the errors made of them.
Ends == {None, "deadline", "canceled"}
Errors == SUBSET {"deadline", "canceled", "failures"}
Instant == Nat \cup {None}

\* The runner has not yet made the waiter context.
Before == {"waiting", "draining", "entering"}

\* The runner has received a second signal and has not returned.
Escalation == {"escalating", "canceling", "joining", "completing"}

RunnerType ==
    /\ runner \in Before \cup Escalation \cup {"selecting", "awaiting", "done"}
    /\ caller \in {"none", "draining", "waiting", "classifying", "done"}
    /\ service \in {"ready", "joining", "stopping", "stopped"}
    /\ captured \in Instant /\ result \in Errors /\ outcome \in Errors

BudgetType ==
    /\ budgeted \in BOOLEAN /\ now \in Nat
    /\ failed \in BOOLEAN /\ stoppedAt \in Instant
    /\ cause \in Ends /\ phaseCause \in Ends
    /\ timer \in {"none", "armed", "fired", "stopped"} /\ deadline \in Nat
    /\ components \in BOOLEAN /\ expiring \in BOOLEAN /\ phaseDeadline \in Instant

\* Time starts with the timer and does not pass the deadline while it is armed.
\* Only a timer that has fired ends the waiter by a deadline, and it leaves the
\* deadline where it is.
TimerInv ==
    /\ timer = "none" <=> runner \in Before
    /\ timer = "none" => now = 0 /\ cause = None
    /\ timer = "armed" => now <= deadline
    /\ timer = "fired" => deadline <= now
    /\ expiring => timer = "fired"
    /\ cause = "deadline" => timer = "fired"

\* The longest wait.
Bound == Total + (IF budgeted THEN Component ELSE 0)

\* The allowance of the components is granted once, within the total one.
AllowanceInv ==
    /\ components => budgeted
    /\ ~components => deadline <= Total
    /\ deadline <= Bound
    /\ phaseDeadline # None => phaseDeadline <= Bound
    /\ captured # None => captured <= Bound

\* What the calls and the service know of each other.
CallInv ==
    /\ caller = "none" <=> runner \in Before
    /\ caller \in {"none", "draining"} <=> service = "ready"
    /\ caller \in {"classifying", "done"} => service = "stopped" \/ cause # None
    /\ runner \in {"completing", "done"} => caller = "done"
    /\ components => service \in {"stopping", "stopped"}

\* Who cancels the waiter context, and what the Stop callbacks see of it.
EscalationInv ==
    /\ runner \in Escalation => Escalated
    /\ runner \in {"selecting", "awaiting"} \cup Before => ~Escalated
    /\ cause = "canceled" => runner \in {"joining", "completing", "done"}
    /\ cause = "canceled" => Escalated \/ service = "stopped"
    /\ phaseCause = "canceled" => Escalated

\* The service is stopped at one instant.
StoppedInv ==
    /\ service = "stopped" <=> stoppedAt # None
    /\ stoppedAt # None => stoppedAt <= now

\* An error that a cleanup left which ended after the deadline of its phase.
Overrun == components /\ failed /\ service = "stopped" /\ stoppedAt >= deadline

\* What budgetedShutdown is about to return, and what the runner has returned.
OutcomeInv ==
    /\ "canceled" \in outcome => cause = "canceled"
    /\ caller \in {"classifying", "done"} =>
           outcome \cap {"deadline", "canceled"} # {} \/ (service = "stopped" /\ outcome = Retained)
    /\ caller = "done" /\ Overrun => outcome \cap {"deadline", "canceled"} # {}
    /\ runner = "done" => "canceled" \notin result
    /\ runner = "done" /\ "deadline" \notin result => service = "stopped" /\ result = Retained
    /\ runner = "done" /\ ~Escalated /\ Overrun => "deadline" \in result

BudgetInv ==
    /\ RunnerType /\ BudgetType
    /\ TimerInv /\ AllowanceInv /\ CallInv /\ EscalationInv /\ StoppedInv /\ OutcomeInv

\* Every step of the environment: a signal, the return of an admission callback
\* or the return of a Stop, which may fail while the service is stopping.
LEMMA EnvironmentFrame ==
  ASSUME BudgetType, Environment
  PROVE  /\ UNCHANGED <<budgeted, now, runner, captured, result, caller, outcome, service>>
         /\ UNCHANGED <<stoppedAt, cause, timer, deadline, components, expiring>>
         /\ UNCHANGED <<phaseCause, phaseDeadline>>
         /\ failed' \in BOOLEAN
         /\ service # "stopping" => failed' = failed
<1>1. CASE Signal \/ CloseSignals \/ AdmissionReturns
  BY <1>1 DEF Signal, CloseSignals, AdmissionReturns, serviceVars, budgetVars, phaseVars, BudgetType
<1>2. CASE StopReturns
  <2>1. failed' \in BOOLEAN
    BY <1>2, Zenon DEF StopReturns, BudgetType
  <2>. QED
    BY <1>2, <2>1 DEF StopReturns, budgetVars, phaseVars
<1>. QED
  BY <1>1, <1>2 DEF Environment

\* Every step keeps the calls and their errors well typed.
LEMMA RunnerTypeSteps ==
  ASSUME RunnerType, BudgetType, [Next]_vars
  PROVE  RunnerType'
<1>1. CASE Environment
  BY <1>1, EnvironmentFrame, ZenonT(30)
    DEF RunnerType, BudgetType, Before, Escalation, Errors, Ends, Instant
<1>2. CASE BeginComponentStop
  BY <1>2, BudgetAssumption
    DEF RunnerType, BudgetType, Before, Escalation, Errors, Ends, Instant,
      BeginComponentStop, Grantable, PhaseCause, signalVars, serviceVars, budgetVars,
      phaseVars
<1>3. CASE FinishShutdown
  BY <1>3, BudgetAssumption
    DEF RunnerType, BudgetType, Before, Escalation, Errors, Ends, Instant, FinishShutdown,
      signalVars, serviceVars, budgetVars, phaseVars
<1>4. CASE Clock
  BY <1>4, BudgetAssumption, ZenonT(30)
    DEF RunnerType, BudgetType, Before, Escalation, Errors, Ends, Instant, Clock, Tick,
      TimerFires, Expire, EndWaiter, PhaseExpires, Propagate, PhaseLive, signalVars,
      serviceVars, budgetVars, phaseVars
<1>5. CASE Caller
  BY <1>5, BudgetAssumption, ZenonT(30)
    DEF RunnerType, BudgetType, Before, Escalation, Errors, Ends, Instant, Retained, Caller,
      ShutdownBegins, BeginDrain, ShutdownReturns, Classify, signalVars, serviceVars,
      budgetVars, phaseVars
<1>6. CASE Runner
  BY <1>6, BudgetAssumption, ZenonT(30)
    DEF RunnerType, BudgetType, Before, Escalation, Errors, Ends, Instant, Retained, Runner,
      WaitWithSignals, ReceiveSignal, ReceiveClosed, CancelWithCause, BeginDrain,
      NewShutdownContext, ReceiveResult, StreamEnds, Escalate, ShutdownDeadline,
      EscalateStopsTimer, EscalateCancels, Join, Complete, Return, EndWaiter, signalVars,
      serviceVars, budgetVars, phaseVars
<1>7. CASE UNCHANGED vars
  BY <1>7, BudgetAssumption
    DEF RunnerType, BudgetType, Before, Escalation, Errors, Ends, Instant, vars, signalVars,
      serviceVars, budgetVars, phaseVars
<1>. QED
  BY <1>1, <1>2, <1>3, <1>4, <1>5, <1>6, <1>7 DEF Next, Terminated

\* So are the budget and the contexts.
LEMMA BudgetTypeSteps ==
  ASSUME RunnerType, BudgetType, [Next]_vars
  PROVE  BudgetType'
<1>1. CASE Environment
  BY <1>1, EnvironmentFrame
    DEF BudgetType, Ends, Instant
<1>2. CASE BeginComponentStop
  <2>1. components' \in BOOLEAN /\ expiring' \in BOOLEAN
    BY <1>2, Zenon DEF BudgetType, BeginComponentStop, budgetVars
  <2>2. /\ deadline' \in Nat /\ phaseDeadline' \in Instant /\ phaseCause' \in Ends
        /\ timer' \in {"none", "armed", "fired", "stopped"}
    BY <1>2, BudgetAssumption
      DEF BudgetType, Ends, Instant, BeginComponentStop, PhaseCause, budgetVars, phaseVars
  <2>. QED
    BY <1>2, <2>1, <2>2 DEF BudgetType, BeginComponentStop
<1>3. CASE FinishShutdown
  BY <1>3, BudgetAssumption
    DEF BudgetType, Ends, Instant, FinishShutdown, signalVars, serviceVars, budgetVars,
      phaseVars
<1>4. CASE Clock
  <2>1. expiring' \in BOOLEAN /\ components' \in BOOLEAN
    BY <1>4, Zenon
      DEF BudgetType, Clock, Tick, TimerFires, Expire, PhaseExpires, Propagate, budgetVars
  <2>2. /\ now' \in Nat /\ cause' \in Ends /\ phaseCause' \in Ends
        /\ timer' \in {"none", "armed", "fired", "stopped"}
    BY <1>4
      DEF BudgetType, Ends, Clock, Tick, TimerFires, Expire, EndWaiter, PhaseExpires,
        Propagate, budgetVars, phaseVars
  <2>3. UNCHANGED <<budgeted, failed, stoppedAt, deadline, phaseDeadline>>
    BY <1>4
      DEF Clock, Tick, TimerFires, Expire, PhaseExpires, Propagate, serviceVars, budgetVars,
        phaseVars
  <2>. QED
    BY <2>1, <2>2, <2>3 DEF BudgetType
<1>5. CASE Caller
  BY <1>5, BudgetAssumption
    DEF BudgetType, Ends, Instant, Caller, ShutdownBegins, BeginDrain, ShutdownReturns,
      Classify, signalVars, serviceVars, budgetVars, phaseVars
<1>6. CASE Runner
  BY <1>6, BudgetAssumption
    DEF BudgetType, Ends, Instant, Runner, WaitWithSignals, ReceiveSignal, ReceiveClosed,
      CancelWithCause, BeginDrain, NewShutdownContext, ReceiveResult, StreamEnds, Escalate,
      ShutdownDeadline, EscalateStopsTimer, EscalateCancels, Join, Complete, Return,
      EndWaiter, signalVars, serviceVars, budgetVars, phaseVars
<1>7. CASE UNCHANGED vars
  BY <1>7, BudgetAssumption
    DEF BudgetType, Ends, Instant, vars, signalVars, serviceVars, budgetVars, phaseVars
<1>. QED
  BY <1>1, <1>2, <1>3, <1>4, <1>5, <1>6, <1>7 DEF Next, Terminated

\* Deadlines that passed stay passed.
LEMMA TimerSteps ==
  ASSUME RunnerType, BudgetType, TimerInv, [Next]_vars
  PROVE  TimerInv'
<1>1. CASE Environment
  BY <1>1, EnvironmentFrame
    DEF TimerInv, RunnerType, BudgetType, Before, Escalation, Ends
<1>2. CASE BeginComponentStop
  BY <1>2, BudgetAssumption
    DEF TimerInv, RunnerType, BudgetType, Before, Escalation, Ends, BeginComponentStop,
      Grantable, PhaseCause, signalVars, serviceVars, budgetVars, phaseVars
<1>3. CASE FinishShutdown
  BY <1>3, BudgetAssumption
    DEF TimerInv, RunnerType, BudgetType, Before, Escalation, Ends, FinishShutdown,
      signalVars, serviceVars, budgetVars, phaseVars
<1>4. CASE Clock
  BY <1>4, BudgetAssumption
    DEF TimerInv, RunnerType, BudgetType, Before, Escalation, Ends, Clock, Tick, TimerFires,
      Expire, EndWaiter, PhaseExpires, Propagate, PhaseLive, signalVars, serviceVars,
      budgetVars, phaseVars
<1>5. CASE Caller
  BY <1>5, BudgetAssumption
    DEF TimerInv, RunnerType, BudgetType, Before, Escalation, Ends, Caller, ShutdownBegins,
      BeginDrain, ShutdownReturns, Classify, signalVars, serviceVars, budgetVars, phaseVars
<1>6. CASE Runner
  BY <1>6, BudgetAssumption
    DEF TimerInv, RunnerType, BudgetType, Before, Escalation, Ends, Runner, WaitWithSignals,
      ReceiveSignal, ReceiveClosed, CancelWithCause, BeginDrain, NewShutdownContext,
      ReceiveResult, StreamEnds, Escalate, ShutdownDeadline, EscalateStopsTimer,
      EscalateCancels, Join, Complete, Return, EndWaiter, signalVars, serviceVars, budgetVars,
      phaseVars
<1>7. CASE UNCHANGED vars
  BY <1>7, BudgetAssumption
    DEF TimerInv, RunnerType, BudgetType, Before, Escalation, Ends, vars, signalVars,
      serviceVars, budgetVars, phaseVars
<1>. QED
  BY <1>1, <1>2, <1>3, <1>4, <1>5, <1>6, <1>7 DEF Next, Terminated

\* No step extends a deadline beyond the bound.
LEMMA AllowanceSteps ==
  ASSUME RunnerType, BudgetType, TimerInv, AllowanceInv, CallInv, [Next]_vars
  PROVE  AllowanceInv'
<1>1. CASE Environment
  BY <1>1, EnvironmentFrame
    DEF AllowanceInv, TimerInv, CallInv, RunnerType, BudgetType, Before, Bound, Instant
<1>2. CASE BeginComponentStop
  BY <1>2, BudgetAssumption
    DEF AllowanceInv, TimerInv, CallInv, RunnerType, BudgetType, Before, Bound, Instant,
      BeginComponentStop, Grantable, PhaseCause, signalVars, serviceVars, budgetVars,
      phaseVars
<1>3. CASE FinishShutdown
  BY <1>3, BudgetAssumption
    DEF AllowanceInv, TimerInv, CallInv, RunnerType, BudgetType, Before, Bound, Instant,
      FinishShutdown, signalVars, serviceVars, budgetVars, phaseVars
<1>4. CASE Clock
  BY <1>4, BudgetAssumption
    DEF AllowanceInv, TimerInv, CallInv, RunnerType, BudgetType, Before, Bound, Instant,
      Clock, Tick, TimerFires, Expire, EndWaiter, PhaseExpires, Propagate, PhaseLive,
      signalVars, serviceVars, budgetVars, phaseVars
<1>5. CASE Caller
  BY <1>5, BudgetAssumption
    DEF AllowanceInv, TimerInv, CallInv, RunnerType, BudgetType, Before, Bound, Instant,
      Caller, ShutdownBegins, BeginDrain, ShutdownReturns, Classify, signalVars, serviceVars,
      budgetVars, phaseVars
<1>6. CASE Runner
  BY <1>6, BudgetAssumption
    DEF AllowanceInv, TimerInv, CallInv, RunnerType, BudgetType, Before, Bound, Instant,
      Runner, WaitWithSignals, ReceiveSignal, ReceiveClosed, CancelWithCause, BeginDrain,
      NewShutdownContext, ReceiveResult, StreamEnds, Escalate, ShutdownDeadline,
      EscalateStopsTimer, EscalateCancels, Join, Complete, Return, EndWaiter, signalVars,
      serviceVars, budgetVars, phaseVars
<1>7. CASE UNCHANGED vars
  BY <1>7, BudgetAssumption
    DEF AllowanceInv, TimerInv, CallInv, RunnerType, BudgetType, Before, Bound, Instant,
      vars, signalVars, serviceVars, budgetVars, phaseVars
<1>. QED
  BY <1>1, <1>2, <1>3, <1>4, <1>5, <1>6, <1>7 DEF Next, Terminated

\* The calls follow the service.
LEMMA CallSteps ==
  ASSUME RunnerType, BudgetType, CallInv, [Next]_vars
  PROVE  CallInv'
<1>1. CASE Environment
  BY <1>1, EnvironmentFrame
    DEF CallInv, RunnerType, BudgetType, Before, Escalation, Ends
<1>2. CASE BeginComponentStop
  BY <1>2, BudgetAssumption
    DEF CallInv, RunnerType, BudgetType, Before, Escalation, Ends, BeginComponentStop,
      Grantable, PhaseCause, signalVars, serviceVars, budgetVars, phaseVars
<1>3. CASE FinishShutdown
  BY <1>3, BudgetAssumption
    DEF CallInv, RunnerType, BudgetType, Before, Escalation, Ends, FinishShutdown,
      signalVars, serviceVars, budgetVars, phaseVars
<1>4. CASE Clock
  BY <1>4, BudgetAssumption
    DEF CallInv, RunnerType, BudgetType, Before, Escalation, Ends, Clock, Tick, TimerFires,
      Expire, EndWaiter, PhaseExpires, Propagate, PhaseLive, signalVars, serviceVars,
      budgetVars, phaseVars
<1>5. CASE Caller
  BY <1>5, BudgetAssumption
    DEF CallInv, RunnerType, BudgetType, Before, Escalation, Ends, Caller, ShutdownBegins,
      BeginDrain, ShutdownReturns, Classify, signalVars, serviceVars, budgetVars, phaseVars
<1>6. CASE Runner
  BY <1>6, BudgetAssumption
    DEF CallInv, RunnerType, BudgetType, Before, Escalation, Ends, Runner, WaitWithSignals,
      ReceiveSignal, ReceiveClosed, CancelWithCause, BeginDrain, NewShutdownContext,
      ReceiveResult, StreamEnds, Escalate, ShutdownDeadline, EscalateStopsTimer,
      EscalateCancels, Join, Complete, Return, EndWaiter, signalVars, serviceVars, budgetVars,
      phaseVars
<1>7. CASE UNCHANGED vars
  BY <1>7, BudgetAssumption
    DEF CallInv, RunnerType, BudgetType, Before, Escalation, Ends, vars, signalVars,
      serviceVars, budgetVars, phaseVars
<1>. QED
  BY <1>1, <1>2, <1>3, <1>4, <1>5, <1>6, <1>7 DEF Next, Terminated

\* Only an escalation cancels what is not yet stopped.
LEMMA EscalationSteps ==
  ASSUME RunnerType, BudgetType, CallInv, EscalationInv, [Next]_vars
  PROVE  EscalationInv'
<1>1. CASE Environment
  BY <1>1, EnvironmentFrame
    DEF EscalationInv, CallInv, Escalated, RunnerType, BudgetType, Before, Escalation, Ends,
      Instant
<1>2. CASE BeginComponentStop
  BY <1>2, BudgetAssumption
    DEF EscalationInv, CallInv, Escalated, RunnerType, BudgetType, Before, Escalation, Ends,
      Instant, BeginComponentStop, Grantable, PhaseCause, signalVars, serviceVars, budgetVars,
      phaseVars
<1>3. CASE FinishShutdown
  BY <1>3, BudgetAssumption
    DEF EscalationInv, CallInv, Escalated, RunnerType, BudgetType, Before, Escalation, Ends,
      Instant, FinishShutdown, signalVars, serviceVars, budgetVars, phaseVars
<1>4. CASE Clock
  BY <1>4, BudgetAssumption
    DEF EscalationInv, CallInv, Escalated, RunnerType, BudgetType, Before, Escalation, Ends,
      Instant, Clock, Tick, TimerFires, Expire, EndWaiter, PhaseExpires, Propagate, PhaseLive,
      signalVars, serviceVars, budgetVars, phaseVars
<1>5. CASE Caller
  BY <1>5, BudgetAssumption
    DEF EscalationInv, CallInv, Escalated, RunnerType, BudgetType, Before, Escalation, Ends,
      Instant, Caller, ShutdownBegins, BeginDrain, ShutdownReturns, Classify, signalVars,
      serviceVars, budgetVars, phaseVars
<1>6. CASE Runner
  BY <1>6, BudgetAssumption
    DEF EscalationInv, CallInv, Escalated, RunnerType, BudgetType, Before, Escalation, Ends,
      Instant, Runner, WaitWithSignals, ReceiveSignal, ReceiveClosed, CancelWithCause,
      BeginDrain, NewShutdownContext, ReceiveResult, StreamEnds, Escalate, ShutdownDeadline,
      EscalateStopsTimer, EscalateCancels, Join, Complete, Return, EndWaiter, signalVars,
      serviceVars, budgetVars, phaseVars
<1>7. CASE UNCHANGED vars
  BY <1>7, BudgetAssumption
    DEF EscalationInv, CallInv, Escalated, RunnerType, BudgetType, Before, Escalation, Ends,
      Instant, vars, signalVars, serviceVars, budgetVars, phaseVars
<1>. QED
  BY <1>1, <1>2, <1>3, <1>4, <1>5, <1>6, <1>7 DEF Next, Terminated

\* The instant of the stop is retained.
LEMMA StoppedSteps ==
  ASSUME RunnerType, BudgetType, CallInv, StoppedInv, [Next]_vars
  PROVE  StoppedInv'
<1>1. CASE Environment
  BY <1>1, EnvironmentFrame
    DEF StoppedInv, RunnerType, BudgetType, Instant
<1>2. CASE BeginComponentStop
  BY <1>2, BudgetAssumption
    DEF StoppedInv, RunnerType, BudgetType, Instant, BeginComponentStop, Grantable,
      PhaseCause, signalVars, serviceVars, budgetVars, phaseVars
<1>3. CASE FinishShutdown
  BY <1>3, BudgetAssumption
    DEF StoppedInv, RunnerType, BudgetType, Instant, FinishShutdown, signalVars,
      serviceVars, budgetVars, phaseVars
<1>4. CASE Clock
  BY <1>4, BudgetAssumption
    DEF StoppedInv, RunnerType, BudgetType, Instant, Clock, Tick, TimerFires, Expire,
      EndWaiter, PhaseExpires, Propagate, PhaseLive, signalVars, serviceVars, budgetVars,
      phaseVars
<1>5. CASE Caller
  BY <1>5, BudgetAssumption
    DEF StoppedInv, CallInv, RunnerType, BudgetType, Instant, Caller, ShutdownBegins, BeginDrain,
      ShutdownReturns, Classify, signalVars, serviceVars, budgetVars, phaseVars
<1>6. CASE Runner
  BY <1>6, BudgetAssumption
    DEF StoppedInv, RunnerType, BudgetType, Instant, Runner, WaitWithSignals, ReceiveSignal,
      ReceiveClosed, CancelWithCause, BeginDrain, NewShutdownContext, ReceiveResult,
      StreamEnds, Escalate, ShutdownDeadline, EscalateStopsTimer, EscalateCancels, Join,
      Complete, Return, EndWaiter, signalVars, serviceVars, budgetVars, phaseVars
<1>7. CASE UNCHANGED vars
  BY <1>7, BudgetAssumption
    DEF StoppedInv, RunnerType, BudgetType, Instant, vars, signalVars, serviceVars,
      budgetVars, phaseVars
<1>. QED
  BY <1>1, <1>2, <1>3, <1>4, <1>5, <1>6, <1>7 DEF Next, Terminated

\* The result tells what happened.
LEMMA OutcomeSteps ==
  ASSUME RunnerType, BudgetType, AllowanceInv, CallInv, EscalationInv, StoppedInv,
         OutcomeInv, [Next]_vars
  PROVE  OutcomeInv'
<1>. DEFINE Settled == /\ UNCHANGED <<caller, outcome, service, failed, stoppedAt>>
                       /\ UNCHANGED <<components, deadline>>
                       /\ cause' = cause \/ cause = None
<1>a. ASSUME Settled, UNCHANGED <<runner, result, captured>> PROVE OutcomeInv'
  <2>1. Overrun' = Overrun /\ Retained' = Retained /\ Escalated' = Escalated
    BY <1>a DEF Overrun, Retained, Escalated
  <2>. QED
    BY <1>a, <2>1, BudgetAssumption DEF OutcomeInv
<1>b. ASSUME Settled, runner' # "done" PROVE OutcomeInv'
  <2>1. Overrun' = Overrun /\ Retained' = Retained
    BY <1>b DEF Overrun, Retained
  <2>. QED
    BY <1>b, <2>1, BudgetAssumption DEF OutcomeInv
<1>1. CASE Environment
  <2>1. CASE service = "stopping"
    BY <1>1, <2>1, EnvironmentFrame DEF OutcomeInv, Overrun
  <2>2. CASE service # "stopping"
    BY <1>1, <2>2, EnvironmentFrame, <1>a
  <2>. QED
    BY <2>1, <2>2
<1>2. CASE BeginComponentStop
  <2>1. /\ UNCHANGED <<runner, captured, result, caller, outcome, cause>>
        /\ service = "joining" /\ service' = "stopping"
    BY <1>2 DEF BeginComponentStop
  <2>. QED
    BY <2>1 DEF OutcomeInv, Overrun
<1>3. CASE FinishShutdown
  <2>1. /\ UNCHANGED <<runner, captured, result, caller, outcome, cause>>
        /\ service = "stopping" /\ service' = "stopped"
    BY <1>3 DEF FinishShutdown
  <2>. QED
    BY <2>1 DEF OutcomeInv, Overrun
<1>4. CASE Clock
  <2>1. Settled /\ UNCHANGED <<runner, result, captured>>
    BY <1>4
      DEF Clock, Tick, TimerFires, Expire, EndWaiter, PhaseExpires, Propagate, serviceVars,
        budgetVars
  <2>. QED
    BY <2>1, <1>a
<1>5. CASE Caller
  <2>0. caller # "done" => runner # "done"
    BY DEF CallInv
  <2>1. CASE ShutdownBegins
    <3>1. /\ UNCHANGED <<runner, outcome, cause>> /\ caller = "draining"
          /\ caller' \in {"draining", "waiting"}
      BY <2>1 DEF ShutdownBegins
    <3>. QED
      BY <2>0, <3>1 DEF OutcomeInv
  <2>2. CASE ShutdownReturns
    <3>1. /\ UNCHANGED <<runner, cause, service, failed>> /\ caller = "waiting"
          /\ caller' = "classifying"
      BY <2>2 DEF ShutdownReturns, serviceVars
    <3>2. CASE service = "stopped" /\ outcome' = Retained
      BY <2>0, <3>1, <3>2 DEF OutcomeInv, Retained
    <3>3. CASE cause # None /\ outcome' = {cause}
      <4>1. cause \in {"deadline", "canceled"}
        BY <3>3 DEF BudgetType, Ends
      <4>. QED
        BY <2>0, <3>1, <3>3, <4>1, Zenon DEF OutcomeInv
    <3>. QED
      BY <2>2, <3>2, <3>3 DEF ShutdownReturns
  <2>3. CASE Classify
    <3>1. /\ UNCHANGED <<runner, cause, budgeted, now, service, failed, stoppedAt>>
          /\ UNCHANGED <<components, deadline>> /\ caller = "classifying" /\ caller' = "done"
      BY <2>3 DEF Classify, serviceVars, budgetVars
    <3>2. outcome' = outcome \/ outcome' = outcome \cup {"deadline"}
      BY <2>3 DEF Classify
    <3>3. ASSUME Overrun, outcome = Retained PROVE "deadline" \in outcome'
      <4>1. budgeted /\ PhaseExpired /\ outcome # {}
        BY <3>3 DEF Overrun, Retained, PhaseExpired, AllowanceInv, StoppedInv, BudgetType, Instant
      <4>. QED
        BY <2>3, <4>1 DEF Classify
    <3>4. Overrun' = Overrun /\ Retained' = Retained
      BY <3>1 DEF Overrun, Retained
    <3>. QED
      BY <2>0, <3>1, <3>2, <3>3, <3>4 DEF OutcomeInv
  <2>. QED
    BY <1>5, <2>1, <2>2, <2>3 DEF Caller
<1>6. CASE Runner
  <2>1. CASE \/ WaitWithSignals \/ CancelWithCause \/ StreamEnds \/ Escalate
             \/ EscalateStopsTimer \/ EscalateCancels \/ Join
    <3>1. Settled /\ runner' # "done"
      BY <2>1
        DEF WaitWithSignals, CancelWithCause, StreamEnds, Escalate, EscalateStopsTimer,
          EscalateCancels, EndWaiter, Join, serviceVars, budgetVars
    <3>. QED
      BY <3>1, <1>b
  <2>2. CASE NewShutdownContext
    <3>1. UNCHANGED <<outcome, cause>> /\ runner' = "selecting" /\ caller' = "draining"
      BY <2>2 DEF NewShutdownContext
    <3>. QED
      BY <3>1 DEF OutcomeInv
  <2>3. CASE ReceiveResult
    <3>1. /\ Settled /\ UNCHANGED captured /\ caller = "done" /\ result' = outcome
          /\ runner \in {"selecting", "awaiting"}
      BY <2>3 DEF ReceiveResult, Return, EndWaiter, serviceVars
    <3>2. "canceled" \notin outcome
      BY <3>1 DEF EscalationInv, OutcomeInv
    <3>3. Overrun' = Overrun /\ Retained' = Retained
      BY <3>1 DEF Overrun, Retained
    <3>. QED
      BY <3>1, <3>2, <3>3, BudgetAssumption DEF OutcomeInv
  <2>4. CASE Complete
    <3>1. Settled /\ UNCHANGED captured /\ runner = "completing"
      BY <2>4 DEF Complete, Return, EndWaiter, serviceVars
    <3>2. result' = {"deadline"} \/ (service = "stopped" /\ result' = Retained)
      BY <2>4 DEF Complete, Return
    <3>3. Overrun' = Overrun /\ Retained' = Retained /\ Escalated'
      BY <3>1 DEF Overrun, Retained, EscalationInv, Escalation, Escalated
    <3>4. "canceled" \notin Retained
      BY DEF Retained
    <3>. QED
      BY <3>1, <3>2, <3>3, <3>4, BudgetAssumption DEF OutcomeInv
  <2>. QED
    BY <1>6, <2>1, <2>2, <2>3, <2>4 DEF Runner
<1>7. CASE UNCHANGED vars
  BY <1>7, <1>a DEF vars, serviceVars, budgetVars
<1>. QED
  BY <1>1, <1>2, <1>3, <1>4, <1>5, <1>6, <1>7 DEF Next, Terminated

-----------------------------------------------------------------------------

\* The runner begins with nothing in flight.
LEMMA InitBudget == Init => BudgetInv
<1>. SUFFICES ASSUME Init PROVE BudgetInv
  OBVIOUS
<1>1. RunnerType /\ BudgetType
  BY BudgetAssumption, Zenon
    DEF Init, RunnerType, BudgetType, Before, Escalation, Errors, Ends, Instant
<1>2. TimerInv /\ AllowanceInv /\ CallInv
  BY BudgetAssumption DEF Init, TimerInv, AllowanceInv, Bound, CallInv, Before
<1>3. EscalationInv /\ StoppedInv /\ OutcomeInv
  BY BudgetAssumption
    DEF Init, EscalationInv, Escalated, Escalation, Before, StoppedInv, OutcomeInv
<1>. QED
  BY <1>1, <1>2, <1>3 DEF BudgetInv

\* Every step keeps the invariant.
LEMMA NextBudget == BudgetInv /\ [Next]_vars => BudgetInv'
  BY RunnerTypeSteps, BudgetTypeSteps, TimerSteps, AllowanceSteps, CallSteps, EscalationSteps,
    StoppedSteps, OutcomeSteps
    DEF BudgetInv

\* The invariant holds in every reachable state.
THEOREM BudgetInductive == Spec => []BudgetInv
  BY InitBudget, NextBudget, PTL DEF Spec

\* No deadline but the one in force ends the waiter, and the phases together
\* last no longer than documented.
THEOREM DeadlinesAreExclusive == Spec => []DeadlinesExclusive
<1>1. BudgetInv => DeadlinesExclusive
  <2>. SUFFICES ASSUME BudgetInv PROVE DeadlinesExclusive
    OBVIOUS
  <2>1. cause = "deadline" => deadline <= now
    BY DEF BudgetInv, TimerInv
  <2>2. \A at \in {deadline, phaseDeadline, captured} \ {None} : at <= Bound
    BY DEF BudgetInv, AllowanceInv
  <2>. QED
    BY <2>1, <2>2 DEF DeadlinesExclusive, Bound
<1>. QED
  BY <1>1, BudgetInductive, PTL

\* Stop callbacks see their context canceled after a second signal only.
THEOREM StopsAreToldTheDeadline == Spec => []StopsSeeDeadline
<1>1. BudgetInv => StopsSeeDeadline
  BY DEF BudgetInv, EscalationInv, StopsSeeDeadline
<1>. QED
  BY <1>1, BudgetInductive, PTL

\* The runner reports the completed cleanup or a timeout, and an expired phase
\* as a timeout as long as it was not escalated.
THEOREM OutcomesAreReported == Spec => []OutcomeReported
<1>1. BudgetInv => OutcomeReported
  <2>. SUFFICES ASSUME BudgetInv PROVE OutcomeReported
    OBVIOUS
  <2>1. OutcomeInv /\ StoppedInv
    BY DEF BudgetInv
  <2>2. ASSUME ~Escalated PROVE ExpiredPhaseReported
    BY <2>1, <2>2 DEF OutcomeInv, StoppedInv, Overrun, ExpiredPhaseReported
  <2>. QED
    BY <2>1, <2>2 DEF OutcomeInv, OutcomeReported
<1>. QED
  BY <1>1, BudgetInductive, PTL

\* No Stop callback begins with a live context after an escalation, nor is
\* given more time.
THEOREM EscalationsReachStops == Spec => EscalationReachesStops
<1>. DEFINE A == budgeted /\ cause = "canceled" /\ service' # service /\ service' = "stopping" =>
                   phaseCause' # None /\ deadline' = deadline
<1>1. BudgetInv /\ [Next]_vars => [A]_vars
  <2>. SUFFICES ASSUME BudgetInv, Next, budgeted, cause = "canceled", service' # service,
                       service' = "stopping"
                PROVE  phaseCause' # None /\ deadline' = deadline
    OBVIOUS
  <2>1. BeginComponentStop
    BY EnvironmentFrame, Zenon
      DEF BudgetInv, Next, FinishShutdown, Clock, Tick, TimerFires, Expire, PhaseExpires,
        Propagate, Caller, ShutdownBegins, ShutdownReturns, Classify, Runner, WaitWithSignals,
        CancelWithCause, NewShutdownContext, ReceiveResult, StreamEnds, Escalate,
        EscalateStopsTimer, EscalateCancels, Join, Complete, Return, Terminated, vars,
        serviceVars
  <2>2. phaseCause' = PhaseCause(deadline) /\ deadline' = deadline
    BY <2>1, BudgetAssumption DEF BeginComponentStop, Grantable, budgetVars
  <2>3. PhaseCause(deadline) \in {"deadline", "canceled"}
    BY DEF PhaseCause, BudgetInv, BudgetType
  <2>. QED
    BY <2>2, <2>3, BudgetAssumption
<1>. QED
  BY <1>1, BudgetInductive, PTL DEF Spec, EscalationReachesStops

=============================================================================
