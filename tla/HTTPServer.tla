----------------------------- MODULE HTTPServer -----------------------------
(***************************************************************************)
(* Server of serverhttp with WithHandlerJoin and WithMaxConnections: Run,  *)
(* Close, CloseAdmission and WaitHandlers, the handlerDrain that counts    *)
(* the admitted handlers and the listener that limits connections.         *)
(* net/http is modelled from its use: Serve accepts until its listener is  *)
(* closed, Shutdown and Close stop it, wait for it, and then wait for or   *)
(* cut the connections.  A connection runs one handler at a time.          *)
(***************************************************************************)
EXTENDS Naturals, FiniteSets

CONSTANTS Runners, Closers, Waiters, Conns, MaxConnections

ASSUME ServerAssumption == MaxConnections \in Nat \ {0}

\* A caller stands for one call of one method.
ASSUME CallersAssumption ==
    Runners \cap Closers = {} /\ Waiters \cap (Runners \cup Closers) = {}

Callers == Runners \cup Closers \cup Waiters

VARIABLES
    ran, closeOnce, closeErr,
    ended,                    \* the context of Run has ended
    serving, serveErr,        \* the goroutine that runs Serve
    inShutdown, listening,    \* http.Server and its listener
    conn, cut,                \* connections, and those closed by the server
    capacity,                 \* reservations held
    draining, active, closes, \* handlerDrain; closes counts close(done)
    handling,                 \* connections whose admitted handler runs
    pc, result

netVars == <<conn, cut, capacity, handling>>
drainVars == <<draining, active, closes>>
closeVars == <<ran, closeOnce, closeErr>>
serveVars == <<serving, serveErr, inShutdown, listening>>
callVars == <<pc, result>>
vars == <<closeVars, ended, serveVars, netVars, drainVars, callVars>>

Live == {c \in Conns : conn[c] \in {"new", "active", "idle"}}

Init ==
    /\ ran = FALSE /\ closeOnce = "open" /\ closeErr = "ok"
    /\ ended = FALSE
    /\ serving = "none" /\ serveErr = "none" /\ inShutdown = FALSE /\ listening = TRUE
    /\ conn = [c \in Conns |-> "none"] /\ cut = {} /\ capacity = 0 /\ handling = {}
    /\ draining = FALSE /\ active = 0 /\ closes = 0
    /\ pc = [p \in Callers |-> "idle"] /\ result = [p \in Callers |-> "none"]

Goto(p, label) == pc' = [pc EXCEPT ![p] = label] /\ UNCHANGED result

Return(p, r) == pc' = [pc EXCEPT ![p] = "done"] /\ result' = [result EXCEPT ![p] = r]

-----------------------------------------------------------------------------
(* handlerDrain and the requests.                                          *)

Done == closes > 0

\* closeAdmission of handlerDrain.
CloseAdmission ==
    /\ draining' = TRUE
    /\ closes' = IF ~draining /\ active = 0 THEN closes + 1 ELSE closes
    /\ UNCHANGED active

\* The condition under which the wrapper of handlerDrain calls its handler.
Admit == ~draining

\* A request arrives on a connection; the wrapper admits or rejects it.
Request(c) ==
    /\ conn[c] \in {"new", "idle"} /\ c \notin cut
    /\ IF Admit
       THEN /\ conn' = [conn EXCEPT ![c] = "active"]
            /\ active' = active + 1 /\ handling' = handling \cup {c}
       ELSE /\ conn' = [conn EXCEPT ![c] = "idle"]
            /\ UNCHANGED <<active, handling>>
    /\ UNCHANGED <<cut, capacity, draining, closes, closeVars, ended, serveVars, callVars>>

\* Mutant: any handler that returns while draining closes done.
ReleaseEarly ==
    /\ active' = active - 1
    /\ closes' = IF draining THEN closes + 1 ELSE closes
    /\ UNCHANGED draining

\* release of handlerDrain.
Release ==
    /\ active' = active - 1
    /\ closes' = IF draining /\ active' = 0 THEN closes + 1 ELSE closes
    /\ UNCHANGED draining

\* The handler of a connection returns or panics.
HandlerReturns(c) ==
    /\ c \in handling /\ handling' = handling \ {c}
    /\ Release
    /\ conn' = [conn EXCEPT ![c] = IF @ = "active" THEN "idle" ELSE @]
    /\ UNCHANGED <<cut, capacity, closeVars, ended, serveVars, callVars>>

\* Mutant: only a closed connection gives its reservation back.
HijackKeepsCapacity(c) ==
    /\ c \in handling /\ conn[c] = "active"
    /\ conn' = [conn EXCEPT ![c] = "hijacked"]
    /\ UNCHANGED <<cut, capacity, handling, drainVars, closeVars, ended, serveVars, callVars>>

\* The handler takes the connection over; ConnState reports it.
Hijack(c) ==
    /\ c \in handling /\ conn[c] = "active"
    /\ conn' = [conn EXCEPT ![c] = "hijacked"]
    /\ capacity' = capacity - 1
    /\ UNCHANGED <<cut, handling, drainVars, closeVars, ended, serveVars, callVars>>

\* A connection without a running handler ends; ConnState reports it.
ConnCloses(c) ==
    /\ conn[c] \in {"new", "idle"}
    /\ conn' = [conn EXCEPT ![c] = "closed"]
    /\ capacity' = capacity - 1
    /\ UNCHANGED <<cut, handling, drainVars, closeVars, ended, serveVars, callVars>>

-----------------------------------------------------------------------------
(* Serve and the connection limit.                                         *)

Tracked == serving \in {"looping", "accepting"}

\* Serve returns; it closes its listener.
ServeReturns(err) == serving' = "returned" /\ serveErr' = err /\ listening' = FALSE

\* Serve begins, unless Shutdown or Close came first.
Serve ==
    /\ serving = "spawned"
    /\ IF inShutdown
       THEN ServeReturns("closed")
       ELSE serving' = "looping" /\ UNCHANGED <<serveErr, listening>>
    /\ UNCHANGED <<inShutdown, netVars, drainVars, closeVars, ended, callVars>>

\* Accept of connectionLimitListener waits for a reservation.
AcceptReserves ==
    /\ serving = "looping" /\ capacity < MaxConnections
    /\ capacity' = capacity + 1 /\ serving' = "accepting"
    /\ UNCHANGED <<serveErr, inShutdown, listening, conn, cut, handling, drainVars, closeVars,
                   ended, callVars>>

\* Mutant: Accept waits for a reservation alone.
WokenNever == FALSE

\* A waiting Accept is woken when the listener was closed.
Woken == serving = "looping" /\ ~listening

\* Accept gives up waiting for a reservation.
AcceptClosed ==
    /\ Woken
    /\ ServeReturns(IF inShutdown THEN "closed" ELSE "failed")
    /\ UNCHANGED <<inShutdown, netVars, drainVars, closeVars, ended, callVars>>

\* A connection is accepted.
Accept(c) ==
    /\ serving = "accepting" /\ listening /\ conn[c] = "none"
    /\ conn' = [conn EXCEPT ![c] = "new"] /\ serving' = "looping"
    /\ UNCHANGED <<serveErr, inShutdown, listening, cut, capacity, handling, drainVars,
                   closeVars, ended, callVars>>

\* Accept fails: for good, or for now, and then Serve tries again.
AcceptFails ==
    /\ serving = "accepting"
    /\ capacity' = capacity - 1
    /\ \/ ServeReturns(IF inShutdown THEN "closed" ELSE "failed")
       \/ listening /\ serving' = "looping" /\ UNCHANGED <<serveErr, listening>>
    /\ UNCHANGED <<inShutdown, conn, cut, handling, drainVars, closeVars, ended, callVars>>

\* Shutdown and Close of http.Server begin: they close the tracked listener.
StopServing ==
    /\ inShutdown' = TRUE /\ listening' = (listening /\ ~Tracked)
    /\ UNCHANGED <<serving, serveErr>>

-----------------------------------------------------------------------------
(* Run.                                                                    *)

ContextEnds ==
    /\ ~ended /\ ended' = TRUE
    /\ UNCHANGED <<closeVars, serveVars, netVars, drainVars, callVars>>

\* Run up to the goroutine that serves.
Run(p) ==
    /\ pc[p] = "idle"
    /\ IF ran
       THEN Return(p, "state") /\ UNCHANGED <<ran, serving>>
       ELSE ran' = TRUE /\ serving' = "spawned" /\ Goto(p, "serving")
    /\ UNCHANGED <<closeOnce, closeErr, ended, serveErr, inShutdown, listening, netVars, drainVars>>

\* Serve ends although Run was not canceled.
RunServed(p) ==
    /\ pc[p] = "serving" /\ serving = "returned"
    /\ CloseAdmission
    /\ Return(p, IF serveErr = "closed" THEN "ok" ELSE "failed")
    /\ UNCHANGED <<closeVars, ended, serveVars, netVars>>

\* Run is canceled and calls Shutdown of http.Server.
RunCanceled(p) ==
    /\ pc[p] = "serving" /\ ended
    /\ StopServing
    /\ Goto(p, "shutdown")
    /\ UNCHANGED <<closeVars, ended, netVars, drainVars>>

\* Shutdown returns when every connection is idle; it closes the idle ones.
ShutdownQuiesces(p) ==
    /\ pc[p] = "shutdown" /\ ~Tracked
    /\ \A c \in Live : conn[c] = "idle" \/ c \in cut
    /\ cut' = cut \cup Live
    /\ Goto(p, "joining")
    /\ UNCHANGED <<conn, capacity, handling, closeVars, ended, serveVars, drainVars>>

\* Mutant: a graceful shutdown that fails is not followed by Close.
ShutdownExpiresOnly(p) ==
    /\ pc[p] = "shutdown" /\ ~Tracked
    /\ pc' = [pc EXCEPT ![p] = "joining"]
    /\ result' = [result EXCEPT ![p] = "failed"]
    /\ UNCHANGED <<closeVars, ended, serveVars, netVars, drainVars>>

\* The deadline of Shutdown passes; Run goes on to Close.
ShutdownExpires(p) ==
    /\ pc[p] = "shutdown" /\ ~Tracked
    /\ pc' = [pc EXCEPT ![p] = "closing"]
    /\ result' = [result EXCEPT ![p] = "failed"]
    /\ UNCHANGED <<closeVars, ended, serveVars, netVars, drainVars>>

\* Run joins the goroutine and returns.
RunJoins(p) ==
    /\ pc[p] = "joining" /\ serving = "returned"
    /\ CloseAdmission
    /\ Return(p, IF result[p] = "failed" \/ serveErr = "failed" THEN "failed" ELSE "ok")
    /\ UNCHANGED <<closeVars, ended, serveVars, netVars>>

-----------------------------------------------------------------------------
(* Close, called by the application or by Run.                             *)

CloseDone(p, err) == IF p \in Runners THEN Goto(p, "joining") ELSE Return(p, err)

\* Close enters closeOnce.
Close(p) ==
    /\ pc[p] = IF p \in Runners THEN "closing" ELSE "idle"
    /\ IF closeOnce = "open"
       THEN closeOnce' = "running" /\ CloseAdmission /\ Goto(p, "locking")
       ELSE Goto(p, "once") /\ UNCHANGED <<closeOnce, drainVars>>
    /\ UNCHANGED <<ran, closeErr, ended, serveVars, netVars>>

\* Another call runs the body of closeOnce.
CloseAwaits(p) ==
    /\ pc[p] = "once" /\ closeOnce = "done"
    /\ CloseDone(p, closeErr)
    /\ UNCHANGED <<closeVars, ended, serveVars, netVars, drainVars>>

\* Close takes the mutex and the right to run.
CloseLocks(p) ==
    /\ pc[p] = "locking"
    /\ ran' = TRUE
    /\ Goto(p, IF ran THEN "forcing" ELSE "listener")
    /\ UNCHANGED <<closeOnce, closeErr, ended, serveVars, netVars, drainVars>>

\* Close calls Close of http.Server.
CloseForces(p) ==
    /\ pc[p] = "forcing"
    /\ StopServing
    /\ Goto(p, "cutting")
    /\ UNCHANGED <<closeVars, ended, netVars, drainVars>>

\* Close of http.Server cuts the connections that it still tracks.
CloseCuts(p) ==
    /\ pc[p] = "cutting" /\ ~Tracked
    /\ cut' = cut \cup Live
    /\ Goto(p, "listener")
    /\ UNCHANGED <<conn, capacity, handling, closeVars, ended, serveVars, drainVars>>

\* Close closes the listener and retains the joined failures.
CloseListener(p) ==
    /\ pc[p] = "listener"
    /\ listening' = FALSE /\ closeOnce' = "done"
    /\ \E err \in {"ok", "failed"} : closeErr' = err /\ CloseDone(p, err)
    /\ UNCHANGED <<ran, ended, serving, serveErr, inShutdown, netVars, drainVars>>

-----------------------------------------------------------------------------
(* WaitHandlers.                                                           *)

\* WaitHandlers closes admission.
WaitHandlers(p) ==
    /\ pc[p] = "idle"
    /\ CloseAdmission
    /\ Goto(p, "waiting")
    /\ UNCHANGED <<closeVars, ended, serveVars, netVars>>

\* WaitHandlers looks at done alone, then selects.
WaitLooks(p) ==
    /\ pc[p] = "waiting"
    /\ IF Done THEN Return(p, "ok") ELSE Goto(p, "selecting")
    /\ UNCHANGED <<closeVars, ended, serveVars, netVars, drainVars>>

\* WaitHandlers receives from done.
WaitJoins(p) ==
    /\ pc[p] = "selecting" /\ Done
    /\ Return(p, "ok")
    /\ UNCHANGED <<closeVars, ended, serveVars, netVars, drainVars>>

\* The context of WaitHandlers ends.
WaitExpires(p) ==
    /\ pc[p] = "selecting"
    /\ Return(p, "unjoined")
    /\ UNCHANGED <<closeVars, ended, serveVars, netVars, drainVars>>

-----------------------------------------------------------------------------

ConnStep(c) == Request(c) \/ HandlerReturns(c) \/ Hijack(c) \/ ConnCloses(c) \/ Accept(c)

ServeStep == Serve \/ AcceptReserves \/ AcceptClosed \/ AcceptFails

RunStep(p) ==
    \/ Run(p) \/ RunServed(p) \/ RunCanceled(p)
    \/ ShutdownQuiesces(p) \/ ShutdownExpires(p) \/ RunJoins(p)

CloseStep(p) ==
    \/ Close(p) \/ CloseAwaits(p) \/ CloseLocks(p) \/ CloseForces(p)
    \/ CloseCuts(p) \/ CloseListener(p)

WaitStep(p) == WaitHandlers(p) \/ WaitLooks(p) \/ WaitJoins(p) \/ WaitExpires(p)

\* Every call has returned.
Terminated == (\A p \in Callers : pc[p] = "done") /\ UNCHANGED vars

Next ==
    \/ ContextEnds
    \/ \E c \in Conns : ConnStep(c)
    \/ ServeStep
    \/ \E p \in Runners : RunStep(p)
    \/ \E p \in Runners \cup Closers : CloseStep(p)
    \/ \E p \in Waiters : WaitStep(p)
    \/ Terminated

Spec == Init /\ [][Next]_vars

\* Goroutines that can run do, Accept fails on a closed listener, and the
\* deadline of Shutdown passes.  Handlers, clients and contexts need do nothing.
Fairness ==
    /\ WF_vars(Serve \/ AcceptClosed \/ (~listening /\ AcceptFails))
    /\ \A p \in Runners : WF_vars(RunStep(p))
    /\ \A p \in Runners \cup Closers : WF_vars(CloseStep(p))
    /\ \A p \in Waiters : WF_vars(WaitHandlers(p) \/ WaitLooks(p) \/ WaitJoins(p))

FairSpec == Spec /\ Fairness

-----------------------------------------------------------------------------

\* The limit is exact: every reservation is that of a connection which the
\* server owns or of the Accept that waits for one, so none is ever lost.
CapacityExact == capacity = Cardinality(Live) + (IF serving = "accepting" THEN 1 ELSE 0)

\* done is closed, and closed once, for a second close would panic, exactly when
\* admission is closed and every admitted handler, that of a hijacked connection
\* included, has returned; a waiter that was told so may release what handlers
\* use, for none of them runs, then or later.
HandlersJoined ==
    /\ closes = IF draining /\ handling = {} THEN 1 ELSE 0
    /\ \A p \in Waiters : result[p] = "ok" => handling = {}

\* When Run returns, its goroutine is joined, the listener is closed and no
\* handler can be admitted.  A canceled Run leaves no connection open that the
\* server still owns: what the graceful shutdown does not close, Close does,
\* whoever called it.  When Close returns, nothing accepts connections and no
\* later Run will.
RunCleansUp ==
    /\ \A p \in Runners : pc[p] = "done" /\ result[p] # "state" =>
           serving = "returned" /\ ~listening /\ draining
    /\ \A p \in Runners : pc[p] = "joining" => Live \subseteq cut
    /\ closeOnce = "done" => ran /\ ~listening /\ ~Tracked

\* Run returns once its context has ended although handlers may never return,
\* connections may stay open and the connection limit may be exhausted; Close
\* returns, whatever it interrupts; and if the handlers return, a waiter needs
\* no deadline.
ServerReturns ==
    /\ \A p \in Runners : (ended /\ pc[p] # "idle") ~> (pc[p] = "done")
    /\ \A p \in Closers : (pc[p] # "idle") ~> (pc[p] = "done")
    /\ (\A c \in Conns : []<>(c \notin handling)) =>
           \A p \in Waiters : (pc[p] = "waiting") ~> (pc[p] = "done")

=============================================================================
