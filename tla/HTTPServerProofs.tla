-------------------------- MODULE HTTPServerProofs --------------------------
(***************************************************************************)
(* Proofs about HTTPServer for any number of connections, callers and      *)
(* reservations.  handlerDrain counts handlers and the limit counts        *)
(* reservations: the inductive invariants say which set each counter is    *)
(* the size of.  Run and Close clean up together, so theirs says at each   *)
(* label of either what has been stopped so far and stays stopped.         *)
(***************************************************************************)
EXTENDS HTTPServer, FiniteSetTheorems, TLAPS

\* A leaf has more than the default time: in a long module it may wait for another.
USE SMTT(20), ZenonT(20)

Types ==
    /\ ran \in BOOLEAN /\ closeOnce \in {"open", "running", "done"}
    /\ inShutdown \in BOOLEAN /\ listening \in BOOLEAN /\ draining \in BOOLEAN
    /\ serving \in {"none", "spawned", "looping", "accepting", "returned"}
    /\ conn \in [Conns -> {"none", "new", "active", "idle", "hijacked", "closed"}]
    /\ cut \subseteq Conns
    /\ pc \in [Callers -> {"idle", "serving", "shutdown", "joining", "closing", "once", "locking",
                           "forcing", "cutting", "listener", "waiting", "selecting", "done"}]
    /\ result \in [Callers -> {"none", "state", "ok", "failed", "unjoined"}]
    /\ closeErr \in {"ok", "failed"}
    /\ ran \/ serving = "none"

\* active is the number of admitted handlers, each of which has a connection of
\* its own, and done is closed when admission is and active is zero.
DrainInv ==
    /\ IsFiniteSet(handling) /\ handling \subseteq Conns /\ active = Cardinality(handling)
    /\ \A c \in handling : conn[c] \in {"active", "hijacked"}
    /\ closes = IF draining /\ active = 0 THEN 1 ELSE 0
    /\ \A p \in Waiters : result[p] = "ok" => closes = 1

\* Reservations are counted although Live is any finite set.
CapacityInv == IsFiniteSet(Live) /\ CapacityExact

\* The server is stopped for good and every connection it still has is cut.
Quiet == inShutdown /\ ~Tracked /\ Live \subseteq cut

\* What a call of Close in the body of closeOnce has done so far; one that came
\* before Run has nothing to stop, for Run is refused from then on.
CloseAt(p) ==
    /\ pc[p] \in {"forcing", "cutting", "listener"} => ran
    /\ pc[p] = "cutting" => inShutdown
    /\ pc[p] = "listener" => serving = "none" \/ Quiet

ClosedForGood == closeOnce = "done" => ran /\ ~listening /\ (serving = "none" \/ Quiet)

CloseInv == ClosedForGood /\ \A p \in Runners \cup Closers : CloseAt(p)

\* What a call of Run has done so far, inside Close as well.
RunAt(p) ==
    /\ pc[p] \notin {"idle", "done"} => serving # "none"
    /\ pc[p] = "shutdown" => inShutdown
    /\ pc[p] \in {"closing", "once", "locking", "forcing", "cutting", "listener"} =>
           inShutdown /\ ~Tracked
    /\ pc[p] = "joining" => Quiet
    /\ pc[p] = "done" /\ result[p] # "state" => serving = "returned" /\ draining

RunInv ==
    /\ serving = "returned" => ~listening
    /\ \A p \in Runners : RunAt(p)

\* What no step undoes.
Forward ==
    /\ ran => ran' /\ (serving = "none" => serving' = "none")
    /\ inShutdown => inShutdown' /\ (~Tracked => ~Tracked')
    /\ ~listening => ~listening'
    /\ draining => draining'
    /\ serving = "returned" => serving' = "returned"
    /\ serving # "none" => serving' # "none"
    /\ serving' = "returned" /\ serving # "returned" => ~listening'

-----------------------------------------------------------------------------
(* Types.                                                                  *)

\* A service that was constructed and not used has its types.
LEMMA InitTypes == Init => Types
BY Zenon DEF Init, Types, Callers

\* Every step keeps the types.
LEMMA NextTypes == ASSUME Types, [Next]_vars PROVE Types'
<1> USE DEF Types, Callers, Goto, Return, closeVars, serveVars, netVars, drainVars, callVars
<1>1. CASE ContextEnds \/ Terminated \/ UNCHANGED vars
    BY <1>1 DEF ContextEnds, Terminated, vars
<1>2. ASSUME NEW c \in Conns, ConnStep(c) PROVE Types'
    <2>1. CASE Request(c) \/ HandlerReturns(c)
        BY <2>1 DEF Request, HandlerReturns, Release
    <2>2. CASE Hijack(c) \/ ConnCloses(c) \/ Accept(c)
        BY <2>2 DEF Hijack, ConnCloses, Accept
    <2> QED BY <1>2, <2>1, <2>2 DEF ConnStep
<1>3. CASE ServeStep
    <2>1. CASE Serve \/ AcceptReserves
        BY <2>1, Zenon DEF Serve, ServeReturns, AcceptReserves
    <2>2. CASE AcceptClosed \/ AcceptFails
        BY <2>2, Zenon DEF AcceptClosed, Woken, AcceptFails, ServeReturns
    <2> QED BY <1>3, <2>1, <2>2 DEF ServeStep
<1>4. ASSUME NEW p \in Runners, RunStep(p) PROVE Types'
    <2>1. CASE Run(p)
        <3>1. CASE ran
            BY <2>1, <3>1 DEF Run
        <3>2. CASE ~ran
            BY <2>1, <3>2 DEF Run
        <3> QED BY <3>1, <3>2
    <2>2. CASE RunServed(p)
        BY <2>2 DEF RunServed, CloseAdmission
    <2>3. CASE RunJoins(p)
        BY <2>3 DEF RunJoins, CloseAdmission
    <2>4. CASE RunCanceled(p)
        BY <2>4 DEF RunCanceled, StopServing
    <2>5. CASE ShutdownExpires(p)
        BY <2>5 DEF ShutdownExpires
    <2>6. CASE ShutdownQuiesces(p)
        BY <2>6 DEF ShutdownQuiesces, Live
    <2> QED BY <1>4, <2>1, <2>2, <2>3, <2>4, <2>5, <2>6 DEF RunStep
<1>5. ASSUME NEW p \in Runners \cup Closers, CloseStep(p) PROVE Types'
    <2>1. CASE Close(p)
        <3>1. CASE closeOnce = "open"
            BY <2>1, <3>1 DEF Close, CloseAdmission
        <3>2. CASE closeOnce # "open"
            BY <2>1, <3>2 DEF Close
        <3> QED BY <3>1, <3>2
    <2>4. CASE CloseAwaits(p)
        BY <2>4 DEF CloseAwaits, CloseDone
    <2>5. CASE CloseLocks(p)
        BY <2>5 DEF CloseLocks
    <2>2. CASE CloseForces(p)
        BY <2>2 DEF CloseForces, StopServing
    <2>6. CASE CloseListener(p)
        <3>1. PICK err \in {"ok", "failed"} : closeErr' = err /\ CloseDone(p, err)
            BY <2>6 DEF CloseListener
        <3>2. pc'[p] \in {"joining", "done"} /\ result'[p] \in {result[p], err}
            BY <3>1 DEF CloseDone
        <3>3. /\ pc' = [pc EXCEPT ![p] = pc'[p]]
              /\ result' = [result EXCEPT ![p] = result'[p]]
            BY <3>1 DEF CloseDone
        <3>4. /\ pc'[p] = "joining" \/ pc'[p] = "done"
              /\ result'[p] \in {"none", "state", "ok", "failed", "unjoined"}
            BY <3>2
        <3>5. UNCHANGED <<ran, inShutdown, draining, serving, conn, cut>>
            BY <2>6 DEF CloseListener
        <3>6. listening' = FALSE /\ closeOnce' = "done" /\ closeErr' = err
            BY <2>6, <3>1 DEF CloseListener
        <3> QED BY <3>3, <3>4, <3>5, <3>6, ZenonT(30)
    <2>3. CASE CloseCuts(p)
        BY <2>3 DEF CloseCuts, Live
    <2> QED BY <1>5, <2>1, <2>2, <2>3, <2>4, <2>5, <2>6 DEF CloseStep
<1>6. ASSUME NEW p \in Waiters, WaitStep(p) PROVE Types'
    <2>1. CASE WaitHandlers(p)
        BY <2>1 DEF WaitHandlers, CloseAdmission
    <2>2. CASE WaitLooks(p) \/ WaitJoins(p) \/ WaitExpires(p)
        BY <2>2 DEF WaitLooks, WaitJoins, WaitExpires
    <2> QED BY <1>6, <2>1, <2>2 DEF WaitStep
<1> QED BY <1>1, <1>2, <1>3, <1>4, <1>5, <1>6 DEF Next

-----------------------------------------------------------------------------
(* handlerDrain.                                                           *)

\* No handler runs at first.
LEMMA InitDrain == Init => DrainInv
BY FS_EmptySet DEF Init, DrainInv, Callers

\* Every step keeps the count of handlers and the state of done.
LEMMA NextDrain == ASSUME Types, DrainInv, [Next]_vars PROVE DrainInv'
<1>0. active \in Nat /\ (active = 0 <=> handling = {})
    BY FS_CardinalityType, FS_EmptySet DEF DrainInv
<1>f. ASSUME UNCHANGED <<handling, active, conn, draining, closes, result>> PROVE DrainInv'
    BY <1>f DEF DrainInv
<1>1. CASE ContextEnds \/ Terminated \/ UNCHANGED vars
    BY <1>1, <1>f DEF ContextEnds, Terminated, vars, netVars, drainVars, callVars
<1>2. ASSUME NEW c \in Conns, ConnStep(c) PROVE DrainInv'
    <2>1. CASE Request(c)
        <3>1. c \notin handling
            BY <2>1 DEF Request, DrainInv
        <3>2. IsFiniteSet(handling \cup {c}) /\ Cardinality(handling \cup {c}) = active + 1
            BY <3>1, FS_AddElement DEF DrainInv
        <3>3. CASE Admit
            <4>1. handling' = handling \cup {c} /\ active' = active + 1 /\ ~draining /\ ~draining'
                BY <2>1, <3>3 DEF Request, Admit
            <4>2. \A d \in handling' : conn'[d] \in {"active", "hijacked"}
                BY <2>1, <3>3 DEF Request, DrainInv, Types
            <4>3. closes' = closes /\ result' = result
                BY <2>1 DEF Request, callVars
            <4> QED BY <4>1, <4>2, <4>3, <3>2, <1>0 DEF DrainInv
        <3>4. CASE ~Admit
            BY <2>1, <3>1, <3>4 DEF Request, DrainInv, Types, callVars
        <3> QED BY <3>3, <3>4
    <2>2. CASE HandlerReturns(c)
        <3>1. /\ IsFiniteSet(handling \ {c})
              /\ Cardinality(handling \ {c}) = active - 1 /\ active - 1 \in Nat
            BY <2>2, <1>0, FS_RemoveElement, FS_CardinalityType DEF HandlerReturns, DrainInv
        <3>2. active' = active - 1 /\ handling' = handling \ {c} /\ draining' = draining
            BY <2>2 DEF HandlerReturns, Release
        <3>3. closes' = IF draining' /\ active' = 0 THEN 1 ELSE 0
            BY <2>2, <3>2, <3>1, <1>0 DEF HandlerReturns, Release, DrainInv, Types
        <3>4. \A d \in handling' : conn'[d] \in {"active", "hijacked"}
            BY <2>2 DEF HandlerReturns, DrainInv, Types
        <3>5. \A p \in Waiters : result'[p] = "ok" => closes' = 1
            BY <2>2, <3>1, <3>2, <3>3, <1>0 DEF HandlerReturns, DrainInv, callVars
        <3> QED BY <3>1, <3>2, <3>3, <3>4, <3>5 DEF DrainInv
    <2>3. CASE Hijack(c) \/ ConnCloses(c) \/ Accept(c)
        BY <2>3 DEF Hijack, ConnCloses, Accept, DrainInv, Types, drainVars, callVars
    <2> QED BY <1>2, <2>1, <2>2, <2>3 DEF ConnStep
<1>3. CASE ServeStep
    BY <1>3, <1>f DEF ServeStep, Serve, AcceptReserves, AcceptClosed, AcceptFails, netVars, drainVars,
        callVars
<1>4. ASSUME NEW p \in Runners \cup Closers \cup Waiters, CloseAdmission,
             UNCHANGED <<handling, conn>>,
             \A q \in Waiters : result'[q] = "ok" => result[q] = "ok"
      PROVE  DrainInv'
    BY <1>4, <1>0 DEF CloseAdmission, DrainInv, Types
<1>5. ASSUME NEW p \in Runners \cup Closers, RunStep(p) \/ CloseStep(p) PROVE DrainInv'
    <2>1. \A q \in Waiters : q # p
        BY CallersAssumption
    <2>2. \A q \in Waiters : result'[q] = result[q]
        <3>1. CASE RunStep(p)
            BY <3>1, <2>1 DEF RunStep, Run, RunServed, RunCanceled, ShutdownQuiesces,
                ShutdownExpires, RunJoins, Goto, Return, Types, Callers
        <3>2. CASE CloseStep(p)
            BY <3>2, <2>1 DEF CloseStep, Close, CloseAwaits, CloseLocks, CloseForces, CloseCuts,
                CloseListener, CloseDone, Goto, Return, Types, Callers
        <3> QED BY <1>5, <3>1, <3>2
    <2>3. UNCHANGED <<handling, conn>> /\ (CloseAdmission \/ UNCHANGED drainVars)
        BY <1>5 DEF RunStep, Run, RunServed, RunCanceled, ShutdownQuiesces, ShutdownExpires,
            RunJoins, CloseStep, Close, CloseAwaits, CloseLocks, CloseForces, CloseCuts,
            CloseListener, netVars
    <2>4. CASE CloseAdmission
        BY <2>2, <2>3, <2>4, <1>4
    <2>5. CASE UNCHANGED drainVars
        BY <2>2, <2>3, <2>5 DEF DrainInv, drainVars
    <2> QED BY <2>3, <2>4, <2>5
<1>6. ASSUME NEW p \in Waiters, WaitStep(p) PROVE DrainInv'
    <2>1. CASE WaitHandlers(p)
        BY <2>1, <1>4 DEF WaitHandlers, Goto, netVars
    <2>2. CASE WaitLooks(p) \/ WaitJoins(p) \/ WaitExpires(p)
        BY <2>2 DEF WaitLooks, WaitJoins, WaitExpires, Done, Goto, Return, DrainInv, Types, Callers,
            netVars, drainVars
    <2> QED BY <1>6, <2>1, <2>2 DEF WaitStep
<1> QED BY <1>1, <1>2, <1>3, <1>5, <1>6 DEF Next

\* handlerDrain and WaitHandlers: done is closed exactly once, when admission is
\* closed and the last admitted handler returned, and no handler runs after a
\* waiter was told so.
THEOREM HandlersAreJoined == Spec => []HandlersJoined
<1>1. Init => Types /\ DrainInv
    BY InitTypes, InitDrain
<1>2. Types /\ DrainInv /\ [Next]_vars => Types' /\ DrainInv'
    BY NextTypes, NextDrain
<1>3. Types /\ DrainInv => HandlersJoined
    BY FS_CardinalityType, FS_EmptySet DEF Types, DrainInv, HandlersJoined
<1> QED BY <1>1, <1>2, <1>3, PTL DEF Spec

-----------------------------------------------------------------------------
(* The connection limit.                                                   *)

\* No connection is open at first.
LEMMA InitCapacity == Init => CapacityInv
<1> SUFFICES ASSUME Init PROVE CapacityInv
    OBVIOUS
<1>1. Live = {}
    BY DEF Init, Live
<1> QED BY <1>1, FS_EmptySet DEF Init, CapacityInv, CapacityExact

\* Every step keeps the count of reservations.
LEMMA NextCapacity == ASSUME Types, CapacityInv, [Next]_vars PROVE CapacityInv'
<1>0. Cardinality(Live) \in Nat
    BY FS_CardinalityType DEF CapacityInv
<1>f. ASSUME Live' = Live, capacity' = capacity, serving' = "accepting" <=> serving = "accepting"
      PROVE  CapacityInv'
    BY <1>f DEF CapacityInv, CapacityExact
<1>g. ASSUME UNCHANGED <<conn, capacity>>, serving' = "accepting" <=> serving = "accepting"
      PROVE  CapacityInv'
    <2>1. Live' = Live
        BY <1>g DEF Live
    <2> QED BY <2>1, <1>f, <1>g
<1>1. CASE ContextEnds \/ Terminated \/ UNCHANGED vars
    BY <1>1, <1>g DEF ContextEnds, Terminated, vars, netVars, serveVars
<1>2. ASSUME NEW c \in Conns, ConnStep(c) PROVE CapacityInv'
    <2>1. CASE Request(c) \/ HandlerReturns(c)
        <3>1. Live' = Live
            BY <2>1 DEF Request, HandlerReturns, Live, Types
        <3> QED BY <2>1, <3>1, <1>f DEF Request, HandlerReturns, serveVars
    <2>2. CASE Hijack(c) \/ ConnCloses(c)
        <3>1. c \in Live /\ Live' = Live \ {c}
            BY <2>2 DEF Hijack, ConnCloses, Live, Types
        <3>2. IsFiniteSet(Live') /\ Cardinality(Live') = Cardinality(Live) - 1
            BY <3>1, FS_RemoveElement DEF CapacityInv
        <3>3. capacity' = capacity - 1 /\ serving' = serving
            BY <2>2 DEF Hijack, ConnCloses, serveVars
        <3> QED BY <3>2, <3>3, <1>0 DEF CapacityInv, CapacityExact
    <2>3. CASE Accept(c)
        <3>1. c \notin Live /\ Live' = Live \cup {c}
            BY <2>3 DEF Accept, Live, Types
        <3>2. IsFiniteSet(Live') /\ Cardinality(Live') = Cardinality(Live) + 1
            BY <3>1, FS_AddElement DEF CapacityInv
        <3>3. capacity' = capacity /\ serving = "accepting" /\ serving' = "looping"
            BY <2>3 DEF Accept
        <3> QED BY <3>2, <3>3, <1>0 DEF CapacityInv, CapacityExact
    <2> QED BY <1>2, <2>1, <2>2, <2>3 DEF ConnStep
<1>3. CASE ServeStep
    <2>1. CASE Serve \/ AcceptClosed
        BY <2>1, <1>g DEF Serve, AcceptClosed, Woken, ServeReturns, netVars
    <2>2. CASE AcceptReserves \/ AcceptFails
        <3>1. Live' = Live
            BY <2>2 DEF AcceptReserves, AcceptFails, Live
        <3> QED BY <2>2, <3>1, <1>0 DEF AcceptReserves, AcceptFails, ServeReturns, CapacityInv,
            CapacityExact
    <2> QED BY <1>3, <2>1, <2>2 DEF ServeStep
<1>4. ASSUME NEW p \in Runners, RunStep(p) PROVE CapacityInv'
    BY <1>4, <1>g DEF RunStep, Run, RunServed, RunCanceled, StopServing, ShutdownQuiesces,
        ShutdownExpires, RunJoins, Types, netVars, serveVars
<1>5. ASSUME NEW p \in Runners \cup Closers, CloseStep(p) PROVE CapacityInv'
    BY <1>5, <1>g DEF CloseStep, Close, CloseAwaits, CloseLocks, CloseForces, StopServing, CloseCuts,
        CloseListener, netVars, serveVars
<1>6. ASSUME NEW p \in Waiters, WaitStep(p) PROVE CapacityInv'
    BY <1>6, <1>g DEF WaitStep, WaitHandlers, WaitLooks, WaitJoins, WaitExpires, netVars, serveVars
<1> QED BY <1>1, <1>2, <1>3, <1>4, <1>5, <1>6 DEF Next

\* connectionLimitListener and ConnState: the reservations held are those of the
\* connections the server owns and of the Accept in progress, so that none is
\* lost or returned twice for any limit and number of connections.
THEOREM LimitIsExact == Spec => []CapacityExact
<1>1. Init => Types /\ CapacityInv
    BY InitTypes, InitCapacity
<1>2. Types /\ CapacityInv /\ [Next]_vars => Types' /\ CapacityInv'
    BY NextTypes, NextCapacity
<1>3. CapacityInv => CapacityExact
    BY DEF CapacityInv
<1> QED BY <1>1, <1>2, <1>3, PTL DEF Spec

-----------------------------------------------------------------------------
(* Run and Close.                                                          *)

\* A stopped server stays stopped: Serve that comes later returns at once, and
\* no connection is accepted.
LEMMA QuietStays == ASSUME Types, Quiet, [Next]_vars PROVE Quiet'
<1> USE DEF Types, Quiet, Tracked, Live, closeVars, serveVars, netVars
<1>1. CASE ContextEnds \/ Terminated \/ UNCHANGED vars
    BY <1>1, Zenon DEF ContextEnds, Terminated, vars
<1>2. ASSUME NEW c \in Conns, ConnStep(c) PROVE Quiet'
    BY <1>2, Zenon DEF ConnStep, Request, HandlerReturns, Hijack, ConnCloses, Accept
<1>3. CASE ServeStep
    BY <1>3, Zenon DEF ServeStep, Serve, ServeReturns, AcceptReserves, AcceptClosed, AcceptFails, Woken
<1>4. ASSUME NEW p \in Runners, RunStep(p) PROVE Quiet'
    BY <1>4, Zenon DEF RunStep, Run, RunServed, RunCanceled, StopServing, ShutdownQuiesces,
        ShutdownExpires, RunJoins
<1>5. ASSUME NEW p \in Runners \cup Closers, CloseStep(p) PROVE Quiet'
    BY <1>5, Zenon DEF CloseStep, Close, CloseAwaits, CloseLocks, CloseForces, StopServing, CloseCuts,
        CloseListener
<1>6. ASSUME NEW p \in Waiters, WaitStep(p) PROVE Quiet'
    BY <1>6, Zenon DEF WaitStep, WaitHandlers, WaitLooks, WaitJoins, WaitExpires
<1> QED BY <1>1, <1>2, <1>3, <1>4, <1>5, <1>6 DEF Next

\* Every step leaves the server as far stopped as it is.
LEMMA NextForward == ASSUME Types, [Next]_vars PROVE Forward
<1> USE DEF Forward, Types, Tracked, closeVars, serveVars, drainVars
<1>1. CASE ContextEnds \/ Terminated \/ UNCHANGED vars
    BY <1>1 DEF ContextEnds, Terminated, vars
<1>2. ASSUME NEW c \in Conns, ConnStep(c) PROVE Forward
    BY <1>2 DEF ConnStep, Request, HandlerReturns, Release, Hijack, ConnCloses, Accept
<1>3. CASE ServeStep
    BY <1>3 DEF ServeStep, Serve, ServeReturns, AcceptReserves, AcceptClosed, AcceptFails, Woken
<1>f. ASSUME UNCHANGED <<ran, inShutdown, listening, serving>>, draining => draining' PROVE Forward
    BY <1>f
<1>4. ASSUME NEW p \in Runners, RunStep(p) PROVE Forward
    <2>1. CASE Run(p)
        BY <2>1 DEF Run
    <2>2. CASE RunServed(p) \/ RunJoins(p)
        BY <2>2, <1>f DEF RunServed, RunJoins, CloseAdmission
    <2>3. CASE RunCanceled(p)
        BY <2>3 DEF RunCanceled, StopServing
    <2>4. CASE ShutdownQuiesces(p) \/ ShutdownExpires(p)
        BY <2>4, <1>f DEF ShutdownQuiesces, ShutdownExpires
    <2> QED BY <1>4, <2>1, <2>2, <2>3, <2>4 DEF RunStep
<1>5. ASSUME NEW p \in Runners \cup Closers, CloseStep(p) PROVE Forward
    <2>1. CASE Close(p)
        BY <2>1, <1>f DEF Close, CloseAdmission
    <2>2. CASE CloseAwaits(p) \/ CloseCuts(p)
        BY <2>2, <1>f DEF CloseAwaits, CloseCuts
    <2>3. CASE CloseLocks(p)
        BY <2>3 DEF CloseLocks
    <2>4. CASE CloseForces(p)
        BY <2>4 DEF CloseForces, StopServing
    <2>5. CASE CloseListener(p)
        BY <2>5 DEF CloseListener
    <2> QED BY <1>5, <2>1, <2>2, <2>3, <2>4, <2>5 DEF CloseStep
<1>6. ASSUME NEW p \in Waiters, WaitStep(p) PROVE Forward
    BY <1>6 DEF WaitStep, WaitHandlers, CloseAdmission, WaitLooks, WaitJoins, WaitExpires
<1> QED BY <1>1, <1>2, <1>3, <1>4, <1>5, <1>6 DEF Next

\* No call has begun in the initial state.
LEMMA InitRun == Init => CloseInv /\ RunInv
<1> SUFFICES ASSUME Init PROVE CloseInv /\ RunInv
    OBVIOUS
<1>1. \A p \in Runners \cup Closers : pc[p] = "idle"
    BY DEF Init, Callers
<1> QED BY <1>1 DEF Init, CloseInv, ClosedForGood, CloseAt, RunInv, RunAt

\* Every step keeps what Run and Close have done so far.
LEMMA NextRun == ASSUME Types, CloseInv, RunInv, [Next]_vars PROVE CloseInv' /\ RunInv'
<1>0. Forward /\ (Quiet => Quiet')
    BY NextForward, QuietStays
<1>1. serving' = "returned" => ~listening'
    BY <1>0 DEF Forward, RunInv
<1>2. ASSUME NEW q \in Runners \cup Closers, pc'[q] = pc[q] PROVE CloseAt(q)'
    BY <1>0, <1>2 DEF CloseInv, CloseAt, Forward
<1>3. ASSUME NEW q \in Runners, pc'[q] = pc[q], result'[q] = result[q] PROVE RunAt(q)'
    BY <1>0, <1>3 DEF RunInv, RunAt, Forward
<1>4. ASSUME closeOnce' = "done" => closeOnce = "done" PROVE ClosedForGood'
    BY <1>0, <1>4 DEF CloseInv, ClosedForGood, Forward
<1>5. ASSUME closeOnce' = closeOnce, \A q \in Runners \cup Closers : pc'[q] = pc[q] /\ result'[q] = result[q]
      PROVE  CloseInv' /\ RunInv'
    BY <1>1, <1>2, <1>3, <1>4, <1>5 DEF CloseInv, RunInv
<1>6. CASE ContextEnds \/ Terminated \/ UNCHANGED vars \/ ServeStep \/ \E c \in Conns : ConnStep(c)
    BY <1>6, <1>5, Zenon DEF ContextEnds, Terminated, vars, ServeStep, Serve, AcceptReserves, AcceptClosed,
        AcceptFails, ConnStep, Request, HandlerReturns, Hijack, ConnCloses, Accept, closeVars,
        callVars
<1>7. ASSUME NEW p \in Waiters, WaitStep(p) PROVE CloseInv' /\ RunInv'
    <2>1. closeOnce' = closeOnce
        BY <1>7 DEF WaitStep, WaitHandlers, WaitLooks, WaitJoins, WaitExpires, closeVars
    <2>2. \A q \in Runners \cup Closers : pc'[q] = pc[q] /\ result'[q] = result[q]
        BY <1>7, CallersAssumption DEF WaitStep, WaitHandlers, WaitLooks, WaitJoins, WaitExpires,
            Goto, Return, Types, Callers
    <2> QED BY <2>1, <2>2, <1>5
<1>8. ASSUME NEW p \in Runners \cup Closers, ClosedForGood', CloseAt(p)',
             p \in Runners => RunAt(p)',
             \A q \in (Runners \cup Closers) \ {p} : pc'[q] = pc[q] /\ result'[q] = result[q]
      PROVE  CloseInv' /\ RunInv'
    BY <1>8, <1>1, <1>2, <1>3 DEF CloseInv, RunInv
<1>9. ASSUME NEW p \in Runners, RunStep(p) PROVE CloseInv' /\ RunInv'
    <2>1. ClosedForGood'
        BY <1>9, <1>4 DEF RunStep, Run, RunServed, RunCanceled, ShutdownQuiesces, ShutdownExpires,
            RunJoins, closeVars
    <2>2. \A q \in (Runners \cup Closers) \ {p} : pc'[q] = pc[q] /\ result'[q] = result[q]
        BY <1>9 DEF RunStep, Run, RunServed, RunCanceled, ShutdownQuiesces, ShutdownExpires,
            RunJoins, Goto, Return, Types, Callers
    <2>3. CloseAt(p)'
        BY <1>9 DEF RunStep, Run, RunServed, RunCanceled, ShutdownQuiesces, ShutdownExpires,
            RunJoins, Goto, Return, Types, Callers, CloseAt
    <2>4. ASSUME Run(p) PROVE RunAt(p)'
        BY <2>4 DEF Run, Goto, Return, RunAt, Types, Callers
    <2>5. ASSUME RunServed(p) \/ RunJoins(p) PROVE RunAt(p)'
        BY <2>5 DEF RunServed, RunJoins, CloseAdmission, Return, RunAt, RunInv, Types, Callers,
            serveVars
    <2>6. ASSUME RunCanceled(p) PROVE RunAt(p)'
        BY <2>6 DEF RunCanceled, StopServing, Goto, RunAt, RunInv, Types, Callers
    <2>7. ASSUME ShutdownQuiesces(p) PROVE RunAt(p)'
        <3>1. Quiet'
            BY <2>7 DEF ShutdownQuiesces, RunAt, RunInv, Quiet, Tracked, Live, serveVars
        <3> QED BY <2>7, <3>1 DEF ShutdownQuiesces, Goto, RunAt, RunInv, Types, Callers, serveVars
    <2>8. ASSUME ShutdownExpires(p) PROVE RunAt(p)'
        BY <2>8 DEF ShutdownExpires, RunAt, RunInv, Types, Callers, Tracked, serveVars
    <2>9. RunAt(p)'
        BY <1>9, <2>4, <2>5, <2>6, <2>7, <2>8 DEF RunStep
    <2> QED BY <2>1, <2>2, <2>3, <2>9, <1>8
<1>10. ASSUME NEW p \in Runners \cup Closers, CloseStep(p) PROVE CloseInv' /\ RunInv'
    <2>1. \A q \in (Runners \cup Closers) \ {p} : pc'[q] = pc[q] /\ result'[q] = result[q]
        BY <1>10 DEF CloseStep, Close, CloseAwaits, CloseLocks, CloseForces, CloseCuts,
            CloseListener, CloseDone, Goto, Return, Types, Callers
    <2>2. CASE Close(p)
        <3>1. ClosedForGood' /\ CloseAt(p)'
            BY <2>2, <1>4 DEF Close, Goto, Types, Callers, CloseAt
        <3>2. p \in Runners => RunAt(p)'
            BY <2>2, <1>0 DEF Close, Goto, Types, Callers, RunInv, RunAt, Forward
        <3> QED BY <3>1, <3>2, <2>1, <1>8
    <2>3. CASE CloseAwaits(p)
        <3>1. ClosedForGood' /\ CloseAt(p)'
            BY <2>3, <1>4 DEF CloseAwaits, CloseDone, Goto, Return, Types, Callers, CloseAt, closeVars
        <3>2. p \in Runners => Quiet'
            BY <2>3, <1>0 DEF CloseAwaits, CloseInv, ClosedForGood, RunInv, RunAt
        <3>3. p \in Runners => RunAt(p)'
            BY <2>3, <3>2, <1>0 DEF CloseAwaits, CloseDone, Goto, Types, Callers, RunInv, RunAt,
                Forward
        <3> QED BY <3>1, <3>3, <2>1, <1>8
    <2>4. CASE CloseLocks(p)
        <3>1. ClosedForGood' /\ CloseAt(p)'
            BY <2>4, <1>4 DEF CloseLocks, Goto, Types, Callers, CloseAt, serveVars
        <3>2. p \in Runners => RunAt(p)'
            BY <2>4, <1>0 DEF CloseLocks, Goto, Types, Callers, RunInv, RunAt, Forward
        <3> QED BY <3>1, <3>2, <2>1, <1>8
    <2>5. CASE CloseForces(p)
        <3>1. ClosedForGood' /\ CloseAt(p)'
            BY <2>5, <1>4 DEF CloseForces, StopServing, Goto, Types, Callers, CloseInv, CloseAt,
                closeVars
        <3>2. p \in Runners => RunAt(p)'
            BY <2>5, <1>0 DEF CloseForces, Goto, Types, Callers, RunInv, RunAt, Forward
        <3> QED BY <3>1, <3>2, <2>1, <1>8
    <2>6. CASE CloseCuts(p)
        <3>1. Quiet'
            BY <2>6 DEF CloseCuts, CloseInv, CloseAt, Quiet, Tracked, Live, serveVars
        <3>2. ClosedForGood' /\ CloseAt(p)'
            BY <2>6, <3>1, <1>4 DEF CloseCuts, Goto, Types, Callers, CloseInv, CloseAt, closeVars
        <3>3. p \in Runners => RunAt(p)'
            BY <2>6, <1>0 DEF CloseCuts, Goto, Types, Callers, RunInv, RunAt, Forward
        <3> QED BY <3>2, <3>3, <2>1, <1>8
    <2>7. CASE CloseListener(p)
        <3>1. serving' = serving /\ ran' = ran /\ ~listening' /\ ran /\ (serving = "none" \/ Quiet')
            BY <2>7, <1>0 DEF CloseListener, CloseInv, CloseAt, Types
        <3>2. ClosedForGood'
            BY <3>1 DEF ClosedForGood
        <3>3. CloseAt(p)' /\ (p \in Runners => RunAt(p)')
            BY <2>7, <3>1, <1>0 DEF CloseListener, CloseDone, Goto, Return, Types, Callers, RunInv,
                RunAt, Forward, CloseAt
        <3> QED BY <3>2, <3>3, <2>1, <1>8
    <2> QED BY <1>10, <2>2, <2>3, <2>4, <2>5, <2>6, <2>7 DEF CloseStep
<1> QED BY <1>6, <1>7, <1>9, <1>10 DEF Next

\* Run and Close: a returned Run has joined its goroutine and closed listener and
\* admission, one that was canceled has cut every connection, and a returned
\* Close is final, however the two overlap.
THEOREM CleanupIsComplete == Spec => []RunCleansUp
<1>1. Init => Types /\ CloseInv /\ RunInv
    BY InitTypes, InitRun
<1>2. Types /\ CloseInv /\ RunInv /\ [Next]_vars => Types' /\ CloseInv' /\ RunInv'
    BY NextTypes, NextRun
<1>3. Types /\ CloseInv /\ RunInv => RunCleansUp
    BY DEF Types, CloseInv, ClosedForGood, RunInv, RunAt, RunCleansUp, Quiet, Tracked
<1> QED BY <1>1, <1>2, <1>3, PTL DEF Spec

=============================================================================
