------------------------------- MODULE Probes -------------------------------
(***************************************************************************)
(* The management probes of healthhttp: liveness, startup and readiness    *)
(* requests, the readiness checks with their shared semaphore, in both     *)
(* modes, and the probe transitions that runtimeObservability records.     *)
(* The lifecycle and the check callbacks are the environment: a callback   *)
(* succeeds, fails, panics (a failure) or never returns.                   *)
(***************************************************************************)
EXTENDS Integers, FiniteSets

CONSTANTS Requests, NumChecks, Concurrencies, DefaultMaxConcurrency, DefaultMaxChecks

ASSUME ProbesAssumption ==
    /\ NumChecks \in Nat /\ Concurrencies \subseteq Nat
    /\ DefaultMaxConcurrency \in Nat /\ DefaultMaxChecks \in Nat

Checks == 1..NumChecks
Kinds == {"liveness", "startup", "readiness"}

VARIABLES
    mode, capacity,         \* the Probes value: its mode and cap(semaphore)
    ready, startupComplete, \* the StateSource
    pc, kind,               \* of each request
    next, expired,          \* evaluate: the next check, checkContext.Done()
    semaphore,              \* len(semaphore)
    callback,               \* goroutines of evaluateAcquiredCheck
    holding,                \* callbacks that have not released the semaphore
    waiting,                \* waiters of evaluateAcquiredCheck
    results, available,
    probes,                 \* runtimeObservability.probes
    pending, published,     \* transitions decided; gains published less losses published
    answer

configVars == <<mode, capacity>>
stateVars == <<ready, startupComplete>>
requestVars == <<pc, kind, available, answer>>
checkVars == <<next, expired, results, waiting>>
callbackVars == <<semaphore, callback, holding>>
probeVars == <<probes, pending, published>>
vars == <<configVars, stateVars, requestVars, checkVars, callbackVars, probeVars>>

-----------------------------------------------------------------------------
(* Construction.                                                           *)

OrDefault(value, default) == IF value = 0 THEN default ELSE value

Configs == [mode : {"concurrent", "sequential"}, maxConcurrency : Concurrencies, maxChecks : 0..2]

\* New accepts the configuration.
ValidConfig(config) ==
    LET maxChecks == OrDefault(config.maxChecks, DefaultMaxChecks)
    IN  /\ OrDefault(config.maxConcurrency, DefaultMaxConcurrency) <= maxChecks
        /\ NumChecks <= maxChecks

\* The Probes that New returns, with a cold lifecycle and no request.
Init ==
    /\ \E config \in Configs :
          /\ ValidConfig(config)
          /\ mode = config.mode
          /\ capacity = OrDefault(config.maxConcurrency, DefaultMaxConcurrency)
    /\ ready = FALSE /\ startupComplete = FALSE
    /\ pc = [r \in Requests |-> "idle"] /\ kind = [r \in Requests |-> "liveness"]
    /\ next = [r \in Requests |-> 1] /\ expired = [r \in Requests |-> FALSE]
    /\ semaphore = 0 /\ holding = {} /\ waiting = {}
    /\ callback = [c \in Requests \X Checks |-> "none"]
    /\ results = [r \in Requests |-> [i \in Checks |-> "unavailable"]]
    /\ available = [r \in Requests |-> FALSE]
    /\ probes = [k \in Kinds |-> "unknown"]
    /\ pending = [r \in Requests |-> FALSE]
    /\ published = [k \in Kinds |-> 0]
    /\ answer = [r \in Requests |-> 0]

-----------------------------------------------------------------------------
(* The handlers.                                                           *)

Healthy(r, value) ==
    /\ pc' = [pc EXCEPT ![r] = "observe"]
    /\ available' = [available EXCEPT ![r] = value]

\* A request that is neither GET nor HEAD.
Reject(r) ==
    /\ pc[r] = "idle"
    /\ pc' = [pc EXCEPT ![r] = "done"] /\ answer' = [answer EXCEPT ![r] = 405]
    /\ UNCHANGED <<kind, available, configVars, stateVars, checkVars, callbackVars, probeVars>>

Liveness(r) ==
    /\ pc[r] = "idle" /\ kind' = [kind EXCEPT ![r] = "liveness"]
    /\ Healthy(r, TRUE)
    /\ UNCHANGED <<answer, configVars, stateVars, checkVars, callbackVars, probeVars>>

Startup(r) ==
    /\ pc[r] = "idle" /\ kind' = [kind EXCEPT ![r] = "startup"]
    /\ Healthy(r, startupComplete)
    /\ UNCHANGED <<answer, configVars, stateVars, checkVars, callbackVars, probeVars>>

\* Readiness asks the lifecycle first and the checks only when it is ready.
Readiness(r) ==
    /\ pc[r] = "idle" /\ kind' = [kind EXCEPT ![r] = "readiness"]
    /\ IF ready
       THEN pc' = [pc EXCEPT ![r] = "evaluate"] /\ UNCHANGED available
       ELSE Healthy(r, FALSE)
    /\ UNCHANGED <<answer, configVars, stateVars, checkVars, callbackVars, probeVars>>

-----------------------------------------------------------------------------
(* evaluate, evaluateCheck and evaluateAcquiredCheck.                      *)

WaitersOf(r) == {c \in waiting : c[1] = r}

\* The loop is at a check: a sequential evaluation has joined the one before.
AtCheck(r) ==
    /\ pc[r] = "evaluate" /\ next[r] <= NumChecks
    /\ mode = "concurrent" \/ WaitersOf(r) = {}

\* A sequential evaluation has a timer for each check, a concurrent one for all.
Rearm(r) == expired' = [expired EXCEPT ![r] = @ /\ mode = "concurrent"]

\* The check gets a place in the semaphore and its two goroutines.
Acquire(r) ==
    /\ AtCheck(r) /\ semaphore < capacity
    /\ semaphore' = semaphore + 1
    /\ callback' = [callback EXCEPT ![<<r, next[r]>>] = "running"]
    /\ holding' = holding \cup {<<r, next[r]>>}
    /\ waiting' = waiting \cup {<<r, next[r]>>}
    /\ next' = [next EXCEPT ![r] = @ + 1]
    /\ UNCHANGED <<expired, results, configVars, stateVars, requestVars, probeVars>>

\* Mutant: the select that waits for a place does not watch the context.
AcquireNeverExpires(r) == FALSE /\ UNCHANGED vars

\* The deadline passes while the check waits for a place: it is not run.
AcquireExpires(r) ==
    /\ AtCheck(r) /\ expired[r]
    /\ next' = [next EXCEPT ![r] = @ + 1]
    /\ Rearm(r)
    /\ UNCHANGED <<results, waiting, configVars, stateVars, requestVars, callbackVars, probeVars>>

\* The callback returns or panics; runCheck sends its result.
RunCheck(c, succeeded) ==
    /\ callback[c] = "running"
    /\ callback' = [callback EXCEPT ![c] = IF succeeded THEN "succeeded" ELSE "failed"]
    /\ UNCHANGED <<semaphore, holding, configVars, stateVars, requestVars, checkVars, probeVars>>

\* The deferred receive of the callback's goroutine.
Release(c) ==
    /\ c \in holding /\ callback[c] # "running"
    /\ semaphore' = semaphore - 1 /\ holding' = holding \ {c}
    /\ UNCHANGED <<callback, configVars, stateVars, requestVars, checkVars, probeVars>>

\* The waiter receives the result of its callback.
CheckCompletes(c) ==
    /\ c \in waiting /\ callback[c] # "running"
    /\ waiting' = waiting \ {c}
    /\ results' = [results EXCEPT ![c[1]][c[2]] =
                      IF callback[c] = "succeeded" THEN "ok" ELSE @]
    /\ Rearm(c[1])
    /\ UNCHANGED <<next, configVars, stateVars, requestVars, callbackVars, probeVars>>

\* Mutant: the waiter gives up the place of the callback it abandons.
CheckExpiresReleasing(c) ==
    /\ c \in waiting /\ expired[c[1]]
    /\ waiting' = waiting \ {c}
    /\ semaphore' = semaphore - 1
    /\ Rearm(c[1])
    /\ UNCHANGED <<next, results, callback, holding, configVars, stateVars, requestVars, probeVars>>

\* The waiter leaves at the deadline; the callback keeps its place.
CheckExpires(c) ==
    /\ c \in waiting /\ expired[c[1]]
    /\ waiting' = waiting \ {c}
    /\ Rearm(c[1])
    /\ UNCHANGED <<next, results, configVars, stateVars, requestVars, callbackVars, probeVars>>

\* Mutant: only the checks that were started are looked at.
StartedAvailable(r) == \A i \in Checks : callback[<<r, i>>] # "none" => results[r][i] = "ok"

\* Every result, those of checks that were never started included.
AllAvailable(r) == \A i \in Checks : results[r][i] = "ok"

\* evaluate returns; its local variables end with it.
Evaluated(r) ==
    /\ pc[r] = "evaluate" /\ next[r] > NumChecks /\ WaitersOf(r) = {}
    /\ Healthy(r, AllAvailable(r))
    /\ next' = [next EXCEPT ![r] = 1] /\ expired' = [expired EXCEPT ![r] = FALSE]
    /\ results' = [results EXCEPT ![r] = [i \in Checks |-> "unavailable"]]
    /\ UNCHANGED <<kind, answer, waiting, configVars, stateVars, callbackVars, probeVars>>

-----------------------------------------------------------------------------
(* Observation and the response.                                           *)

\* Mutant: an available result is published as a transition each time.
TransitionAlways(r) == available[r] \/ probes[kind[r]] # "unavailable"

\* probe of runtimeObservability: the result differs from the one before.
Transition(r) == probes[kind[r]] # (IF available[r] THEN "available" ELSE "unavailable")

\* The decision is made and recorded under probeMu.
ObserveProbe(r) ==
    /\ pc[r] = "observe" /\ pc' = [pc EXCEPT ![r] = "publish"]
    /\ pending' = [pending EXCEPT ![r] = Transition(r)]
    /\ probes' = [probes EXCEPT ![kind[r]] =
                     IF available[r] THEN "available" ELSE "unavailable"]
    /\ UNCHANGED <<kind, available, answer, published, configVars, stateVars, checkVars,
                   callbackVars>>

\* The event is published after the unlock; then the handler answers.
Answer(r) ==
    /\ pc[r] = "publish" /\ pc' = [pc EXCEPT ![r] = "done"]
    /\ pending' = [pending EXCEPT ![r] = FALSE]
    /\ published' = [published EXCEPT ![kind[r]] =
                        IF ~pending[r] THEN @ ELSE IF available[r] THEN @ + 1 ELSE @ - 1]
    /\ answer' = [answer EXCEPT ![r] = IF available[r] THEN 200 ELSE 503]
    /\ UNCHANGED <<probes, kind, available, configVars, stateVars, checkVars, callbackVars>>

-----------------------------------------------------------------------------
(* The environment: the lifecycle and the timers.                          *)

\* The lifecycle becomes or stops being ready; only requests to come read it.
LifecycleChanges ==
    /\ \E r \in Requests : pc[r] = "idle"
    /\ startupComplete' = TRUE
    /\ ready' = ~ready
    /\ UNCHANGED <<configVars, requestVars, checkVars, callbackVars, probeVars>>

\* The context of the check ends: its deadline, or the client has gone.
Expire(r) ==
    /\ pc[r] = "evaluate" /\ ~expired[r]
    /\ expired' = [expired EXCEPT ![r] = TRUE]
    /\ UNCHANGED <<next, results, waiting, configVars, stateVars, requestVars, callbackVars,
                   probeVars>>

RequestStep(r) ==
    \/ Acquire(r) \/ AcquireExpires(r) \/ Evaluated(r) \/ ObserveProbe(r) \/ Answer(r)

WaiterStep(c) == CheckCompletes(c) \/ CheckExpires(c)

Next ==
    \/ \E r \in Requests :
          \/ Reject(r) \/ Liveness(r) \/ Startup(r) \/ Readiness(r)
          \/ RequestStep(r) \/ Expire(r)
    \/ \E c \in Requests \X Checks :
          \/ RunCheck(c, TRUE) \/ RunCheck(c, FALSE) \/ Release(c) \/ WaiterStep(c)
    \/ LifecycleChanges

Spec == Init /\ [][Next]_vars

\* Goroutines that can run do, and timers fire; callbacks need not return.
FairSpec ==
    /\ Spec
    /\ \A r \in Requests : WF_vars(RequestStep(r)) /\ WF_vars(Expire(r))
    /\ \A c \in Requests \X Checks : WF_vars(WaiterStep(c))

-----------------------------------------------------------------------------
(* Properties.                                                             *)

\* evaluateAcquiredCheck "holds capacity until the actual callback returns":
\* however many requests time out, the callbacks that run, abandoned ones
\* included, are counted by the semaphore and never exceed its capacity.
CallbacksBounded ==
    /\ semaphore = Cardinality(holding) /\ semaphore <= capacity
    /\ \A c \in DOMAIN callback : callback[c] = "running" => c \in holding

\* A readiness request answers 200 only when each of its own checks ran and
\* succeeded: a check that found no place, failed, panicked or has not returned
\* makes the answer 503 (evaluate, in both modes).  A success that comes with the
\* deadline may count or not, for select chooses between the two.
ReadyMeansChecked ==
    \A r \in Requests :
        answer[r] = 200 /\ kind[r] = "readiness"
            => \A i \in Checks : callback[<<r, i>>] = "succeeded"

\* Concurrent probes may publish their events in an order other than that of
\* the decisions made under probeMu, but none is lost, repeated or made up: the
\* published transitions and those still on their way add up to the recorded
\* availability.
TransitionsAddUp ==
    \A k \in Kinds :
        LET Pending(value) ==
                Cardinality({r \in Requests : pending[r] /\ kind[r] = k /\ available[r] = value})
            balance == published[k] + Pending(TRUE) - Pending(FALSE)
        IN  CASE probes[k] = "available" -> balance \in {0, 1}
              [] probes[k] = "unavailable" -> balance \in {-1, 0}
              [] OTHER -> balance = 0

\* A probe is answered although every callback may hang: the deadline bounds
\* the wait for a place as well as the wait for a callback.
ProbesAnswer == \A r \in Requests : (pc[r] # "idle") ~> (answer[r] # 0)

=============================================================================
