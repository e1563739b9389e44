---------------------------- MODULE ProbesProofs ----------------------------
(***************************************************************************)
(* Proofs about Probes for any number of requests, checks and places.  A   *)
(* place of the semaphore belongs to a callback and not to the request     *)
(* that may have left it; the inductive invariants say that a request uses *)
(* each of its checks once, so that a place is never taken twice for one   *)
(* callback and a result never comes from another evaluation.              *)
(***************************************************************************)
EXTENDS Probes, FiniteSetTheorems, TLAPS

\* A leaf has more than the default time: in a long module it may wait for another.
USE SMTT(20), ZenonT(20)

Types ==
    /\ capacity \in Nat
    /\ pc \in [Requests -> {"idle", "evaluate", "observe", "publish", "done"}]
    /\ kind \in [Requests -> Kinds]
    /\ next \in [Requests -> Nat \ {0}]
    /\ callback \in [Requests \X Checks -> {"none", "running", "succeeded", "failed"}]
    /\ holding \subseteq Requests \X Checks /\ waiting \subseteq Requests \X Checks
    /\ results \in [Requests -> [Checks -> {"ok", "unavailable"}]]
    /\ DOMAIN available = Requests
    /\ answer \in [Requests -> {0, 200, 405, 503}]

\* A check that the loop of evaluate has not come to has no callback.
FreshInv ==
    \A r \in Requests : \A i \in Checks :
        pc[r] = "idle" \/ (pc[r] = "evaluate" /\ next[r] <= i) =>
            callback[<<r, i>>] = "none" /\ <<r, i>> \notin holding

\* The semaphore counts the callbacks that have not released it.
SemaphoreInv ==
    /\ IsFiniteSet(holding) /\ semaphore = Cardinality(holding) /\ semaphore <= capacity
    /\ \A c \in Requests \X Checks : callback[c] = "running" => c \in holding

\* A result is that of the callback, and an answer that of the results.
ResultInv ==
    /\ \A r \in Requests : \A i \in Checks :
           /\ results[r][i] = "ok" => callback[<<r, i>>] = "succeeded"
           /\ kind[r] = "readiness" /\ available[r] /\ pc[r] \in {"observe", "publish", "done"} =>
                  callback[<<r, i>>] = "succeeded"
    /\ \A r \in Requests :
           /\ answer[r] = 200 => available[r] /\ pc[r] = "done"
           /\ pc[r] \in {"idle", "evaluate"} => ~available[r]

IInv == Types /\ FreshInv /\ SemaphoreInv /\ ResultInv

\* The requests that have decided a transition of a probe and not published it.
Values == {"available", "unavailable"}

Seen(r) == IF available[r] THEN "available" ELSE "unavailable"

Undelivered(k, value) == {r \in Requests : pending[r] /\ kind[r] = k /\ Seen(r) = value}

Balance(k) ==
    published[k] + Cardinality(Undelivered(k, "available"))
                 - Cardinality(Undelivered(k, "unavailable"))

\* What probes holds allows this balance.
Balanced(k) ==
    /\ probes[k] = "available" => Balance(k) \in {0, 1}
    /\ probes[k] = "unavailable" => Balance(k) \in {-1, 0}
    /\ probes[k] = "unknown" => Balance(k) = 0

\* A transition is pending from the decision under probeMu to the publication.
BalanceInv ==
    /\ startupComplete \in BOOLEAN
    /\ DOMAIN pending = Requests
    /\ \A r \in Requests : pending[r] \in BOOLEAN /\ available[r] \in BOOLEAN
    /\ \A r \in Requests : pending[r] => pc[r] = "publish"
    /\ published \in [Kinds -> Int]
    /\ probes \in [Kinds -> {"unknown", "available", "unavailable"}]
    /\ \A k \in Kinds : Balanced(k) /\ \A value \in Values : IsFiniteSet(Undelivered(k, value))

-----------------------------------------------------------------------------

\* New returns idle probes.
LEMMA InitIInv == Init => IInv
<1> SUFFICES ASSUME Init PROVE IInv
    OBVIOUS
<1> USE ProbesAssumption DEF Init
<1>1. capacity \in Nat
    BY DEF Configs, OrDefault
<1>2. Types
    BY <1>1 DEF Types, Kinds
<1>3. FreshInv /\ SemaphoreInv
    BY <1>1, FS_EmptySet DEF FreshInv, SemaphoreInv
<1>4. ResultInv
    BY DEF ResultInv
<1> QED BY <1>2, <1>3, <1>4 DEF IInv

-----------------------------------------------------------------------------
(* One lemma per invariant, one step per action.                           *)

\* Every step keeps the types.
LEMMA NextTypes == ASSUME IInv, [Next]_vars PROVE Types'
<1> USE DEF IInv, Types, Kinds, configVars, stateVars, requestVars, checkVars, callbackVars, probeVars
<1>1. CASE UNCHANGED vars \/ LifecycleChanges
    BY <1>1 DEF vars, LifecycleChanges
<1>2. ASSUME NEW r \in Requests, Reject(r) \/ Liveness(r) \/ Startup(r) PROVE Types'
    <2>1. CASE Reject(r)
        BY <2>1 DEF Reject
    <2>2. CASE Liveness(r)
        BY <2>2 DEF Liveness, Healthy
    <2>3. CASE Startup(r)
        BY <2>3 DEF Startup, Healthy
    <2> QED BY <1>2, <2>1, <2>2, <2>3
<1>3. ASSUME NEW r \in Requests, Readiness(r) \/ ObserveProbe(r) \/ Answer(r) \/ Expire(r) PROVE Types'
    <2>1. CASE Readiness(r)
        <3>1. pc' \in [Requests -> {"idle", "evaluate", "observe", "publish", "done"}]
            BY <2>1 DEF Readiness, Healthy
        <3>2. kind' \in [Requests -> Kinds] /\ DOMAIN available' = Requests
            BY <2>1 DEF Readiness, Healthy
        <3> QED BY <2>1, <3>1, <3>2 DEF Readiness
    <2>2. CASE ObserveProbe(r)
        BY <2>2 DEF ObserveProbe
    <2>3. CASE Answer(r)
        BY <2>3 DEF Answer
    <2>4. CASE Expire(r)
        BY <2>4 DEF Expire
    <2> QED BY <1>3, <2>1, <2>2, <2>3, <2>4
<1>4. ASSUME NEW r \in Requests, Acquire(r) PROVE Types'
    <2>1. next[r] \in Checks
        BY <1>4, ProbesAssumption DEF Acquire, AtCheck, Checks
    <2> QED BY <1>4, <2>1 DEF Acquire
<1>5. ASSUME NEW r \in Requests, AcquireExpires(r) PROVE Types'
    BY <1>5 DEF AcquireExpires
<1>6. ASSUME NEW r \in Requests, Evaluated(r) PROVE Types'
    BY <1>6 DEF Evaluated, Healthy, AllAvailable
<1>7. ASSUME NEW c \in Requests \X Checks, RunCheck(c, TRUE) \/ RunCheck(c, FALSE) \/ Release(c)
      PROVE  Types'
    <2>1. CASE RunCheck(c, TRUE)
        BY <2>1 DEF RunCheck
    <2>2. CASE RunCheck(c, FALSE)
        BY <2>2 DEF RunCheck
    <2>3. CASE Release(c)
        BY <2>3 DEF Release
    <2> QED BY <1>7, <2>1, <2>2, <2>3, Zenon
<1>8. ASSUME NEW c \in Requests \X Checks, WaiterStep(c) PROVE Types'
    <2>1. PICK r \in Requests, i \in Checks : c = <<r, i>>
        OBVIOUS
    <2>2. CASE CheckCompletes(c)
        BY <2>1, <2>2 DEF CheckCompletes
    <2>3. CASE CheckExpires(c)
        BY <2>3 DEF CheckExpires
    <2> QED BY <1>8, <2>2, <2>3 DEF WaiterStep
<1> HIDE DEF IInv, Types, FreshInv, ResultInv, configVars, requestVars, checkVars, callbackVars
<1> QED BY <1>1, <1>2, <1>3, <1>4, <1>5, <1>6, <1>7, <1>8, Zenon DEF Next, RequestStep

\* A check that was not reached stays unused until the loop comes to it.
LEMMA NextFresh == ASSUME IInv, [Next]_vars PROVE FreshInv'
<1> USE DEF IInv, FreshInv, Types, configVars, requestVars, checkVars, callbackVars
<1>1. CASE UNCHANGED vars \/ LifecycleChanges
    BY <1>1 DEF vars, LifecycleChanges
<1>2. ASSUME NEW r \in Requests, Reject(r) \/ Liveness(r) \/ Startup(r) PROVE FreshInv'
    BY <1>2 DEF Reject, Liveness, Startup, Healthy
<1>3. ASSUME NEW r \in Requests, Readiness(r) \/ ObserveProbe(r) \/ Answer(r) \/ Expire(r)
      PROVE  FreshInv'
    BY <1>3 DEF Readiness, Healthy, ObserveProbe, Answer, Expire
<1>4. ASSUME NEW r \in Requests, Acquire(r) PROVE FreshInv'
    <2>1. next[r] \in Checks /\ next'[r] = next[r] + 1 /\ pc' = pc
        BY <1>4, ProbesAssumption DEF Acquire, AtCheck, Checks
    <2>2. ASSUME NEW q \in Requests, NEW i \in Checks, q # r \/ next'[r] <= i
          PROVE  <<q, i>> # <<r, next[r]>> /\ next'[q] \in Nat /\ next'[q] >= next[q]
        BY <1>4, <2>1, <2>2 DEF Acquire, Checks
    <2>3. ASSUME NEW q \in Requests, NEW i \in Checks, <<q, i>> # <<r, next[r]>>
          PROVE  /\ callback'[<<q, i>>] = callback[<<q, i>>]
                 /\ (<<q, i>> \in holding' => <<q, i>> \in holding)
        BY <1>4, <2>3 DEF Acquire
    <2>4. ASSUME NEW q \in Requests, NEW i \in Checks,
                 pc'[q] = "idle" \/ (pc'[q] = "evaluate" /\ next'[q] <= i)
          PROVE  callback'[<<q, i>>] = "none" /\ <<q, i>> \notin holding'
        <3>1. q # r \/ next'[r] <= i
            BY <1>4, <2>1, <2>4 DEF Acquire, AtCheck
        <3>2. next[q] <= i \/ pc[q] = "idle"
            BY <2>1, <2>2, <2>4, <3>1 DEF Checks
        <3> QED BY <2>1, <2>2, <2>3, <2>4, <3>1, <3>2
    <2> QED BY <2>4
<1>5. ASSUME NEW r \in Requests, AcquireExpires(r) PROVE FreshInv'
    BY <1>5, ProbesAssumption DEF AcquireExpires, Checks
<1>6. ASSUME NEW r \in Requests, Evaluated(r) PROVE FreshInv'
    BY <1>6 DEF Evaluated, Healthy
<1>7. ASSUME NEW c \in Requests \X Checks, RunCheck(c, TRUE) \/ RunCheck(c, FALSE) \/ Release(c)
      PROVE  FreshInv'
    BY <1>7 DEF RunCheck, Release
<1>8. ASSUME NEW c \in Requests \X Checks, WaiterStep(c) PROVE FreshInv'
    BY <1>8 DEF WaiterStep, CheckCompletes, CheckExpires
<1> HIDE DEF IInv, Types, FreshInv, ResultInv, configVars, requestVars, checkVars, callbackVars
<1> QED BY <1>1, <1>2, <1>3, <1>4, <1>5, <1>6, <1>7, <1>8, Zenon DEF Next, RequestStep

\* Every step keeps the count of places.
LEMMA NextSemaphore == ASSUME IInv, [Next]_vars PROVE SemaphoreInv'
<1>0. Cardinality(holding) \in Nat /\ capacity \in Nat
    BY FS_CardinalityType DEF IInv, SemaphoreInv, Types
<1>f. ASSUME UNCHANGED <<capacity, semaphore, holding, callback>> PROVE SemaphoreInv'
    BY <1>f DEF IInv, SemaphoreInv
<1>1. CASE UNCHANGED vars \/ LifecycleChanges
    BY <1>1, <1>f DEF vars, LifecycleChanges, configVars, callbackVars
<1>2. ASSUME NEW r \in Requests,
             \/ Reject(r) \/ Liveness(r) \/ Startup(r) \/ Readiness(r) \/ ObserveProbe(r)
             \/ Answer(r) \/ Expire(r) \/ AcquireExpires(r) \/ Evaluated(r)
      PROVE  SemaphoreInv'
    BY <1>2, <1>f, Zenon DEF Reject, Liveness, Startup, Readiness, ObserveProbe, Answer, Expire,
        AcquireExpires, Evaluated, configVars, callbackVars
<1>3. ASSUME NEW r \in Requests, Acquire(r) PROVE SemaphoreInv'
    <2> DEFINE c == <<r, next[r]>>
    <2>1. c \in Requests \X Checks /\ c \notin holding
        BY <1>3, ProbesAssumption DEF Acquire, AtCheck, Checks, IInv, Types, FreshInv
    <2>2. IsFiniteSet(holding \cup {c}) /\ Cardinality(holding \cup {c}) = semaphore + 1
        BY <2>1, FS_AddElement, Zenon DEF IInv, SemaphoreInv
    <2>3. holding' = holding \cup {c} /\ semaphore' = semaphore + 1 /\ semaphore' <= capacity'
        BY <1>3, <1>0 DEF Acquire, configVars, IInv, SemaphoreInv
    <2>4. \A d \in Requests \X Checks : callback'[d] = "running" => d \in holding'
        BY <1>3, <2>1, <2>3 DEF Acquire, IInv, SemaphoreInv, Types
    <2> QED BY <2>2, <2>3, <2>4 DEF SemaphoreInv
<1>4. ASSUME NEW c \in Requests \X Checks, RunCheck(c, TRUE) \/ RunCheck(c, FALSE) PROVE SemaphoreInv'
    BY <1>4 DEF RunCheck, IInv, SemaphoreInv, Types, configVars
<1>5. ASSUME NEW c \in Requests \X Checks, Release(c) PROVE SemaphoreInv'
    <2>1. IsFiniteSet(holding \ {c}) /\ Cardinality(holding \ {c}) = semaphore - 1
        BY <1>5, FS_RemoveElement DEF Release, IInv, SemaphoreInv
    <2> QED BY <1>5, <2>1, <1>0 DEF Release, IInv, SemaphoreInv, configVars
<1>6. ASSUME NEW c \in Requests \X Checks, WaiterStep(c) PROVE SemaphoreInv'
    BY <1>6, <1>f DEF WaiterStep, CheckCompletes, CheckExpires, configVars, callbackVars
<1> QED BY <1>1, <1>2, <1>3, <1>4, <1>5, <1>6, Zenon DEF Next, RequestStep

\* Every step keeps results true to their callbacks.
LEMMA NextResult == ASSUME IInv, [Next]_vars PROVE ResultInv'
<1> USE DEF IInv, ResultInv, Types, configVars, requestVars, checkVars, callbackVars
<1>1. CASE UNCHANGED vars \/ LifecycleChanges
    BY <1>1 DEF vars, LifecycleChanges
<1>2. ASSUME NEW r \in Requests, Reject(r) \/ Liveness(r) \/ Startup(r) PROVE ResultInv'
    <2>1. CASE Reject(r)
        BY <2>1 DEF Reject
    <2>2. CASE Liveness(r)
        BY <2>2 DEF Liveness, Healthy
    <2>3. CASE Startup(r)
        BY <2>3 DEF Startup, Healthy
    <2> QED BY <1>2, <2>1, <2>2, <2>3
<1>3. ASSUME NEW r \in Requests, Readiness(r) \/ ObserveProbe(r) PROVE ResultInv'
    BY <1>3 DEF Readiness, Healthy, ObserveProbe
<1>4. ASSUME NEW r \in Requests, Answer(r) \/ Expire(r) \/ AcquireExpires(r) PROVE ResultInv'
    <2>1. CASE Answer(r)
        <3>1. UNCHANGED <<results, callback, kind, available>>
            BY <2>1 DEF Answer
        <3>2. ASSUME NEW q \in Requests, q # r PROVE pc'[q] = pc[q] /\ answer'[q] = answer[q]
            BY <2>1, <3>2 DEF Answer
        <3>3. pc[r] = "publish" /\ pc'[r] = "done" /\ (answer'[r] = 200 => available[r])
            BY <2>1 DEF Answer
        <3> QED BY <3>1, <3>2, <3>3
    <2>2. CASE Expire(r)
        BY <2>2 DEF Expire
    <2>3. CASE AcquireExpires(r)
        BY <2>3 DEF AcquireExpires
    <2> QED BY <1>4, <2>1, <2>2, <2>3
<1>5. ASSUME NEW r \in Requests, Acquire(r) PROVE ResultInv'
    <2>1. next[r] \in Checks /\ callback[<<r, next[r]>>] = "none"
        BY <1>5, ProbesAssumption DEF Acquire, AtCheck, Checks, FreshInv
    <2> QED BY <1>5, <2>1 DEF Acquire
<1>6. ASSUME NEW r \in Requests, Evaluated(r) PROVE ResultInv'
    BY <1>6 DEF Evaluated, Healthy, AllAvailable
<1>7. ASSUME NEW c \in Requests \X Checks, RunCheck(c, TRUE) \/ RunCheck(c, FALSE) \/ Release(c)
      PROVE  ResultInv'
    BY <1>7 DEF RunCheck, Release
<1>8. ASSUME NEW c \in Requests \X Checks, WaiterStep(c) PROVE ResultInv'
    <2>1. PICK r \in Requests, i \in Checks : c = <<r, i>>
        OBVIOUS
    <2>2. CASE CheckCompletes(c)
        <3>1. ASSUME NEW q \in Requests, NEW j \in Checks, results'[q][j] = "ok"
              PROVE  callback[<<q, j>>] = "succeeded"
            <4>1. CASE q = r /\ j = i
                BY <2>1, <2>2, <3>1, <4>1 DEF CheckCompletes
            <4>2. CASE ~(q = r /\ j = i)
                <5>1. results'[q][j] = results[q][j]
                    <6>1. results' = [results EXCEPT ![r][i] =
                                         IF callback[c] = "succeeded" THEN "ok" ELSE @]
                        BY <2>1, <2>2 DEF CheckCompletes
                    <6> HIDE DEF IInv, ResultInv
                    <6> QED BY <6>1, <4>2 DEF IInv
                <5> QED BY <3>1, <5>1
            <4> QED BY <4>1, <4>2
        <3>2. UNCHANGED <<callback, kind, available, pc, answer>>
            BY <2>2 DEF CheckCompletes
        <3> QED BY <3>1, <3>2
    <2>3. CASE CheckExpires(c)
        BY <2>3 DEF CheckExpires
    <2> QED BY <1>8, <2>2, <2>3 DEF WaiterStep
<1> HIDE DEF IInv, Types, FreshInv, ResultInv, configVars, requestVars, checkVars, callbackVars
<1> QED BY <1>1, <1>2, <1>3, <1>4, <1>5, <1>6, <1>7, <1>8, Zenon DEF Next, RequestStep

-----------------------------------------------------------------------------
(* The balance of the published transitions.                               *)

\* No transition is pending at first.
LEMMA InitBalance == Init => BalanceInv
<1> SUFFICES ASSUME Init PROVE BalanceInv
    OBVIOUS
<1>1. \A k \in Kinds, value \in Values : Undelivered(k, value) = {}
    BY DEF Init, Undelivered
<1>2. \A k \in Kinds : published[k] = 0 /\ probes[k] = "unknown"
    BY DEF Init
<1>3. \A k \in Kinds : Balance(k) = 0
    BY <1>1, <1>2, FS_EmptySet DEF Balance, Values
<1>4. \A k \in Kinds : Balanced(k) /\ \A value \in Values : IsFiniteSet(Undelivered(k, value))
    BY <1>1, <1>2, <1>3, FS_EmptySet DEF Balanced
<1>5. /\ DOMAIN pending = Requests
      /\ \A r \in Requests : pending[r] = FALSE /\ available[r] = FALSE
    BY DEF Init
<1>6. published \in [Kinds -> Int] /\ probes \in [Kinds -> {"unknown", "available", "unavailable"}]
    BY DEF Init
<1>7. startupComplete \in BOOLEAN
    BY Zenon DEF Init
<1> QED BY <1>4, <1>5, <1>6, <1>7, Zenon DEF BalanceInv

\* A step of a request whose transition is not pending, and that decides and
\* publishes none, keeps the balance.
LEMMA BalanceFrame ==
    ASSUME BalanceInv, UNCHANGED probeVars, startupComplete' \in BOOLEAN,
           \A q \in Requests : available'[q] \in BOOLEAN,
           \A q \in Requests : pending[q] =>
               pc'[q] = pc[q] /\ kind'[q] = kind[q] /\ available'[q] = available[q]
    PROVE  BalanceInv'
<1>1. \A k \in Kinds, value \in Values : Undelivered(k, value)' = Undelivered(k, value)
    BY DEF Undelivered, Seen, probeVars
<1>2. \A k \in Kinds : Balance(k)' = Balance(k)
    BY <1>1 DEF Balance, Values, probeVars
<1>3. \A k \in Kinds : Balanced(k)' <=> Balanced(k)
    BY <1>2 DEF Balanced, probeVars
<1>4. \A k \in Kinds : Balanced(k)' /\ \A value \in Values : IsFiniteSet(Undelivered(k, value))'
    BY <1>1, <1>3 DEF BalanceInv
<1> QED BY <1>4 DEF BalanceInv, probeVars

\* A probe balances after a step that changes neither what is published of it
\* nor what is recorded and pending.
LEMMA OtherProbe ==
    ASSUME BalanceInv, NEW k \in Kinds, published'[k] = published[k], probes'[k] = probes[k],
           \A value \in Values : Undelivered(k, value)' = Undelivered(k, value)
    PROVE  Balanced(k)' /\ \A value \in Values : IsFiniteSet(Undelivered(k, value)')
<1>1. Balance(k)' = Balance(k)
    BY DEF Balance, Values
<1> QED BY <1>1 DEF BalanceInv, Balanced

\* A decision or a publication moves its request into or out of one set.
LEMMA UndeliveredMoves ==
    ASSUME BalanceInv, NEW r \in Requests, UNCHANGED <<kind, available>>, DOMAIN pending' = Requests,
           \A q \in Requests \ {r} : pending'[q] = pending[q],
           NEW k \in Kinds, NEW v \in Values
    PROVE  /\ k # kind[r] \/ v # Seen(r) => Undelivered(k, v)' = Undelivered(k, v)
           /\ k = kind[r] /\ v = Seen(r) /\ pending'[r] =>
                  Undelivered(k, v)' = Undelivered(k, v) \cup {r}
           /\ k = kind[r] /\ v = Seen(r) /\ ~pending'[r] =>
                  Undelivered(k, v)' = Undelivered(k, v) \ {r}
<1>1. \A q \in Requests : Seen(q)' = Seen(q)
    BY DEF Seen
<1>2. CASE k # kind[r] \/ v # Seen(r)
    BY <1>1, <1>2 DEF Undelivered
<1>3. ASSUME k = kind[r], v = Seen(r), pending'[r]
      PROVE  Undelivered(k, v)' = Undelivered(k, v) \cup {r}
    BY <1>1, <1>3 DEF Undelivered
<1>4. ASSUME k = kind[r], v = Seen(r), ~pending'[r]
      PROVE  Undelivered(k, v)' = Undelivered(k, v) \ {r}
    BY <1>1, <1>4 DEF Undelivered
<1> QED BY <1>2, <1>3, <1>4

\* What a request that is not idle does to the types of the balance.
LEMMA BalanceTypes ==
    ASSUME Types, BalanceInv, NEW r \in Requests, ObserveProbe(r) \/ Answer(r)
    PROVE  /\ kind[r] \in Kinds /\ Seen(r) \in Values
           /\ startupComplete' \in BOOLEAN /\ DOMAIN pending' = Requests
           /\ published' \in [Kinds -> Int]
           /\ probes' \in [Kinds -> {"unknown", "available", "unavailable"}]
           /\ \A q \in Requests \ {r} : pending'[q] = pending[q]
           /\ \A q \in Requests : pending'[q] \in BOOLEAN /\ available'[q] \in BOOLEAN
           /\ \A q \in Requests : pending'[q] => pc'[q] = "publish"
           /\ UNCHANGED <<kind, available>>
<1>1. kind[r] \in Kinds /\ Seen(r) \in Values /\ UNCHANGED <<kind, available>>
    BY DEF Types, Seen, Values, ObserveProbe, Answer
<1>2. CASE ObserveProbe(r)
    <2>1. startupComplete' \in BOOLEAN /\ published' \in [Kinds -> Int]
        BY <1>2 DEF ObserveProbe, BalanceInv, stateVars
    <2>2. probes' \in [Kinds -> {"unknown", "available", "unavailable"}]
        BY <1>1, <1>2 DEF ObserveProbe, BalanceInv
    <2>3. /\ DOMAIN pending' = Requests /\ \A q \in Requests \ {r} : pending'[q] = pending[q]
          /\ pending'[r] \in BOOLEAN
        BY <1>2 DEF ObserveProbe, BalanceInv, Transition
    <2>4. pc'[r] = "publish" /\ \A q \in Requests \ {r} : pc'[q] = pc[q]
        BY <1>2 DEF ObserveProbe, Types
    <2> QED BY <1>1, <2>1, <2>2, <2>3, <2>4 DEF BalanceInv
<1>3. CASE Answer(r)
    <2>1. startupComplete' \in BOOLEAN /\ UNCHANGED probes
        BY <1>3 DEF Answer, BalanceInv, stateVars
    <2>2. published' \in [Kinds -> Int]
        <3>1. published \in [Kinds -> Int]
            BY DEF BalanceInv
        <3>2. published' = [published EXCEPT ![kind[r]] =
                               IF ~pending[r] THEN published[kind[r]]
                               ELSE IF available[r] THEN published[kind[r]] + 1
                                    ELSE published[kind[r]] - 1]
            BY <1>3, Zenon DEF Answer
        <3> QED BY <1>1, <3>1, <3>2
    <2>3. /\ DOMAIN pending' = Requests /\ \A q \in Requests \ {r} : pending'[q] = pending[q]
          /\ pending'[r] = FALSE
        BY <1>3 DEF Answer, BalanceInv
    <2>4. \A q \in Requests \ {r} : pc'[q] = pc[q]
        BY <1>3 DEF Answer, Types
    <2> QED BY <1>1, <2>1, <2>2, <2>3, <2>4, Zenon DEF BalanceInv
<1> QED BY <1>2, <1>3

\* The step of one request keeps the other probes as they are.
LEMMA BalanceOf ==
    ASSUME Types, BalanceInv, NEW r \in Requests, ObserveProbe(r) \/ Answer(r),
           NEW k \in Kinds, k = kind[r], NEW v \in Values, v = Seen(r),
           Balanced(k)', IsFiniteSet(Undelivered(k, v)')
    PROVE  BalanceInv'
<1>m. /\ UNCHANGED <<kind, available>> /\ DOMAIN pending' = Requests
      /\ \A q \in Requests \ {r} : pending'[q] = pending[q]
    BY BalanceTypes
<1>1. ASSUME NEW j \in Kinds
      PROVE  Balanced(j)' /\ \A value \in Values : IsFiniteSet(Undelivered(j, value)')
    <2>1. CASE j # k
        <3>1. \A value \in Values : Undelivered(j, value)' = Undelivered(j, value)
            BY <2>1, <1>m, UndeliveredMoves
        <3>2. published'[j] = published[j] /\ probes'[j] = probes[j]
            BY <2>1 DEF ObserveProbe, Answer, BalanceInv
        <3> QED BY <3>1, <3>2, OtherProbe
    <2>2. CASE j = k
        <3>1. \A value \in Values \ {v} : Undelivered(j, value)' = Undelivered(j, value)
            BY <2>2, <1>m, UndeliveredMoves
        <3>2. \A value \in Values : IsFiniteSet(Undelivered(j, value))
            BY DEF BalanceInv
        <3> QED BY <2>2, <3>1, <3>2
    <2> QED BY <2>1, <2>2
<1> QED BY <1>1, BalanceTypes DEF BalanceInv

\* probe decides a transition only when the result differs from the recorded
\* one, and records the result in the same critical section.
LEMMA ObserveBalance ==
    ASSUME Types, BalanceInv, NEW r \in Requests, ObserveProbe(r) PROVE BalanceInv'
<1>1. PICK k \in Kinds, v \in Values : k = kind[r] /\ v = Seen(r)
    BY BalanceTypes
<1>m. /\ UNCHANGED <<kind, available>> /\ DOMAIN pending' = Requests
      /\ \A q \in Requests \ {r} : pending'[q] = pending[q]
    BY BalanceTypes
<1>2. ~pending[r] /\ r \notin Undelivered(k, v)
    BY DEF BalanceInv, ObserveProbe, Undelivered
<1>3. /\ \A value \in Values : value # v => Undelivered(k, value)' = Undelivered(k, value)
      /\ pending'[r] => Undelivered(k, v)' = Undelivered(k, v) \cup {r}
      /\ ~pending'[r] => Undelivered(k, v)' = Undelivered(k, v) \ {r}
    BY <1>1, <1>m, UndeliveredMoves
<1>4. /\ published' = published /\ published[k] \in Int /\ probes'[k] = v
      /\ pending'[r] <=> probes[k] # v
    BY <1>1, Zenon DEF ObserveProbe, BalanceInv, Transition, Seen
<1>5. \A value \in Values :
          /\ IsFiniteSet(Undelivered(k, value)) /\ Cardinality(Undelivered(k, value)) \in Nat
    BY FS_CardinalityType DEF BalanceInv
<1>6. probes[k] \in {"unknown", "available", "unavailable"} /\ Balanced(k)
    BY DEF BalanceInv
<1>7. CASE probes[k] = v
    <2>1. \A value \in Values : Undelivered(k, value)' = Undelivered(k, value)
        BY <1>2, <1>3, <1>4, <1>7
    <2>2. Balanced(k)' /\ \A value \in Values : IsFiniteSet(Undelivered(k, value)')
        BY <1>4, <1>7, <2>1, OtherProbe
    <2> QED BY <1>1, <2>2, BalanceOf
<1>8. CASE probes[k] # v
    <2>1. /\ IsFiniteSet(Undelivered(k, v)')
          /\ Cardinality(Undelivered(k, v)') = Cardinality(Undelivered(k, v)) + 1
        BY <1>2, <1>3, <1>4, <1>5, <1>8, FS_AddElement
    <2>2. Balance(k)' = IF v = "available" THEN Balance(k) + 1 ELSE Balance(k) - 1
        BY <1>3, <1>4, <1>5, <2>1 DEF Balance, Values
    <2>3. Balance(k) \in Int
        <3>1. /\ Cardinality(Undelivered(k, "available")) \in Int
              /\ Cardinality(Undelivered(k, "unavailable")) \in Int
            BY <1>5 DEF Values
        <3> QED BY <1>4, <3>1 DEF Balance
    <2>4. Balanced(k)'
        BY <1>4, <1>6, <1>8, <2>2, <2>3 DEF Balanced, Values
    <2> QED BY <1>1, <2>1, <2>4, BalanceOf
<1> QED BY <1>7, <1>8

\* The handler publishes what was decided, once.
LEMMA AnswerBalance ==
    ASSUME Types, BalanceInv, NEW r \in Requests, Answer(r) PROVE BalanceInv'
<1>1. PICK k \in Kinds, v \in Values : k = kind[r] /\ v = Seen(r)
    BY BalanceTypes
<1>m. /\ UNCHANGED <<kind, available>> /\ DOMAIN pending' = Requests
      /\ \A q \in Requests \ {r} : pending'[q] = pending[q]
    BY BalanceTypes
<1>2. pending'[r] = FALSE /\ probes' = probes /\ published[k] \in Int
    BY DEF Answer, BalanceInv
<1>3. /\ \A value \in Values : value # v => Undelivered(k, value)' = Undelivered(k, value)
      /\ Undelivered(k, v)' = Undelivered(k, v) \ {r}
    BY <1>1, <1>2, <1>m, UndeliveredMoves
<1>4. published'[k] = IF ~pending[r] THEN published[k]
                      ELSE IF v = "available" THEN published[k] + 1 ELSE published[k] - 1
    BY <1>1 DEF Answer, BalanceInv, Seen
<1>5. \A value \in Values :
          /\ IsFiniteSet(Undelivered(k, value)) /\ Cardinality(Undelivered(k, value)) \in Nat
    BY FS_CardinalityType DEF BalanceInv
<1>6. Balance(k)' = Balance(k) /\ IsFiniteSet(Undelivered(k, v)')
    <2>1. CASE pending[r]
        <3>1. r \in Undelivered(k, v)
            BY <1>1, <2>1 DEF Undelivered
        <3>2. /\ IsFiniteSet(Undelivered(k, v)')
              /\ Cardinality(Undelivered(k, v)') = Cardinality(Undelivered(k, v)) - 1
            BY <1>3, <1>5, <3>1, FS_RemoveElement
        <3>e. /\ Cardinality(Undelivered(k, "available")) \in Int
              /\ Cardinality(Undelivered(k, "unavailable")) \in Int
            BY <1>5 DEF Values
        <3>3. CASE v = "available"
            <4>1. published'[k] = published[k] + 1
                BY <1>4, <2>1, <3>3
            <4>2. Undelivered(k, "unavailable")' = Undelivered(k, "unavailable")
                BY <1>3, <3>3 DEF Values
            <4> QED BY <1>2, <3>e, <3>2, <3>3, <4>1, <4>2 DEF Balance
        <3>4. CASE v = "unavailable"
            <4>1. published'[k] = published[k] - 1
                BY <1>4, <2>1, <3>4
            <4>2. Undelivered(k, "available")' = Undelivered(k, "available")
                BY <1>3, <3>4 DEF Values
            <4> QED BY <1>2, <3>e, <3>2, <3>4, <4>1, <4>2 DEF Balance
        <3> QED BY <3>3, <3>4 DEF Values
    <2>2. CASE ~pending[r]
        <3>1. \A value \in Values : Undelivered(k, value)' = Undelivered(k, value)
            BY <1>3, <2>2 DEF Undelivered
        <3> QED BY <1>4, <1>5, <2>2, <3>1 DEF Balance, Values
    <2> QED BY <2>1, <2>2
<1>7. Balanced(k)'
    BY <1>2, <1>6 DEF BalanceInv, Balanced
<1> QED BY <1>1, <1>6, <1>7, BalanceOf

\* Every step keeps the balance.
LEMMA NextBalance == ASSUME Types, BalanceInv, [Next]_vars PROVE BalanceInv'
<1>f. ASSUME UNCHANGED probeVars, UNCHANGED requestVars, startupComplete' \in BOOLEAN
      PROVE  BalanceInv'
    BY <1>f, BalanceFrame DEF requestVars, BalanceInv
<1>1. CASE UNCHANGED vars \/ LifecycleChanges
    <2>1. startupComplete' \in BOOLEAN /\ UNCHANGED probeVars /\ UNCHANGED requestVars
        BY <1>1, Zenon DEF vars, LifecycleChanges, stateVars, BalanceInv
    <2> QED BY <2>1, <1>f
<1>2. ASSUME NEW r \in Requests, Reject(r) \/ Liveness(r) \/ Startup(r) \/ Readiness(r) \/ Evaluated(r)
      PROVE  BalanceInv'
    <2>1. UNCHANGED probeVars /\ UNCHANGED stateVars /\ pc[r] # "publish"
        BY <1>2, Zenon DEF Reject, Liveness, Startup, Readiness, Evaluated
    <2>4. ~pending[r]
        BY <2>1 DEF BalanceInv
    <2>2. \A q \in Requests \ {r} :
              pc'[q] = pc[q] /\ kind'[q] = kind[q] /\ available'[q] = available[q]
        <3>1. CASE Reject(r) \/ Liveness(r)
            BY <3>1 DEF Reject, Liveness, Healthy, Types
        <3>2. CASE Startup(r)
            BY <3>2 DEF Startup, Healthy, Types
        <3>3. CASE Readiness(r)
            BY <3>3 DEF Readiness, Healthy, Types
        <3>4. CASE Evaluated(r)
            BY <3>4 DEF Evaluated, Healthy, Types
        <3> QED BY <1>2, <3>1, <3>2, <3>3, <3>4
    <2>3. available'[r] \in BOOLEAN
        <3>1. CASE Reject(r) \/ (Readiness(r) /\ ready)
            BY <3>1, Zenon DEF Reject, Readiness, BalanceInv
        <3>2. CASE Liveness(r)
            BY <3>2 DEF Liveness, Healthy, Types
        <3>5. CASE Readiness(r) /\ ~ready
            <4>1. available' = [available EXCEPT ![r] = FALSE]
                BY <3>5, Zenon DEF Readiness, Healthy
            <4> QED BY <4>1 DEF Types
        <3>4. CASE Startup(r)
            <4>1. startupComplete \in BOOLEAN
                BY DEF BalanceInv
            <4> QED BY <3>4, <4>1 DEF Startup, Healthy, Types
        <3>3. CASE Evaluated(r)
            <4>1. AllAvailable(r) \in BOOLEAN
                BY DEF AllAvailable
            <4> QED BY <3>3, <4>1 DEF Evaluated, Healthy, Types
        <3> QED BY <1>2, <3>1, <3>2, <3>3, <3>4, <3>5
    <2> QED BY <2>1, <2>2, <2>3, <2>4, BalanceFrame DEF BalanceInv, stateVars
<1>3. ASSUME NEW r \in Requests, Acquire(r) \/ AcquireExpires(r) \/ Expire(r) PROVE BalanceInv'
    BY <1>3, <1>f DEF Acquire, AcquireExpires, Expire, BalanceInv, stateVars
<1>4. ASSUME NEW c \in Requests \X Checks,
             RunCheck(c, TRUE) \/ RunCheck(c, FALSE) \/ Release(c) \/ WaiterStep(c)
      PROVE  BalanceInv'
    BY <1>4, <1>f DEF RunCheck, Release, WaiterStep, CheckCompletes, CheckExpires, BalanceInv, stateVars
<1> QED BY <1>1, <1>2, <1>3, <1>4, ObserveBalance, AnswerBalance, Zenon DEF Next, RequestStep

\* The balance that TransitionsAddUp counts.
LEMMA BalanceFollows == BalanceInv => TransitionsAddUp
<1> SUFFICES ASSUME BalanceInv, NEW k \in Kinds
             PROVE  LET Pending(value) ==
                            Cardinality({r \in Requests : pending[r] /\ kind[r] = k
                                                            /\ available[r] = value})
                        balance == published[k] + Pending(TRUE) - Pending(FALSE)
                    IN  CASE probes[k] = "available" -> balance \in {0, 1}
                          [] probes[k] = "unavailable" -> balance \in {-1, 0}
                          [] OTHER -> balance = 0
    BY Zenon DEF TransitionsAddUp
<1>1. /\ Undelivered(k, "available") = {r \in Requests : pending[r] /\ kind[r] = k
                                                          /\ available[r] = TRUE}
      /\ Undelivered(k, "unavailable") = {r \in Requests : pending[r] /\ kind[r] = k
                                                            /\ available[r] = FALSE}
    BY DEF Undelivered, Seen, BalanceInv
<1>2. Balanced(k) /\ probes[k] \in {"unknown", "available", "unavailable"}
    BY DEF BalanceInv
<1> QED BY <1>1, <1>2 DEF Balanced, Balance

-----------------------------------------------------------------------------

\* The invariants are inductive together.
LEMMA Inductive == Spec => []IInv
<1>1. IInv /\ [Next]_vars => IInv'
    BY NextTypes, NextFresh, NextSemaphore, NextResult DEF IInv
<1> QED BY InitIInv, <1>1, PTL DEF Spec

\* evaluateAcquiredCheck: the callbacks that run, those that requests have left
\* at their deadline included, never exceed the capacity of the semaphore.
THEOREM CallbacksAreBounded == Spec => []CallbacksBounded
<1>1. IInv => CallbacksBounded
    BY DEF IInv, Types, SemaphoreInv, CallbacksBounded
<1> QED BY Inductive, <1>1, PTL

\* evaluate: a readiness request answers 200 only if each of its checks ran for
\* it and succeeded.
THEOREM ReadyIsChecked == Spec => []ReadyMeansChecked
<1>1. IInv => ReadyMeansChecked
    BY DEF IInv, ResultInv, ReadyMeansChecked
<1> QED BY Inductive, <1>1, PTL

\* probe of runtimeObservability: however the publications of concurrent probes
\* overtake each other, the transitions published and those on their way add up
\* to the availability that was recorded last.
THEOREM TransitionsBalance == Spec => []TransitionsAddUp
<1>1. IInv /\ BalanceInv /\ [Next]_vars => BalanceInv'
    BY NextBalance DEF IInv
<1> QED BY Inductive, InitBalance, <1>1, BalanceFollows, PTL DEF Spec

=============================================================================
