------------------------------- MODULE Owned -------------------------------
(***************************************************************************)
(* Owned of owned.go: one resource that a lifecycle opens, publishes and   *)
(* closes.  A member of Starters calls the Start of its Component once, a  *)
(* member of Stoppers the Stop; failed starts may be followed by others.   *)
(* A step is one critical section of the mutex, one return of the Open or  *)
(* Close callback, or one receive of a waiting Stop.  The resource that    *)
(* the Open of a starter acquires is named after the starter.              *)
(***************************************************************************)
EXTENDS FiniteSets

CONSTANTS Starters, Stoppers, None

ASSUME OwnedAssumption ==
    Starters \cap Stoppers = {} /\ None \notin Starters \cup Stoppers

Process == Starters \cup Stoppers

VARIABLES
    state, resource,
    canceler,      \* the starter whose context cancelOpen cancels, or None
    stopDone, stopErr,
    pc, result,
    ended,         \* starters whose context ended
    canceled,      \* starters whose Open was canceled by a Stop
    life           \* what became of the resource that a starter acquired

vars == <<state, resource, canceler, stopDone, stopErr, pc, result, ended, canceled, life>>

State == {"new", "opening", "open", "closed"}
Outcome == {"ok", "failed"}
PC == {"idle", "checked", "opening", "opened", "discarding", "closing", "waiting", "selecting", "done"}
Result == Outcome \cup {"none", "already", "closed", "canceled", "timeout"}

TypeOK ==
    /\ state \in State
    /\ resource \in Starters \cup {None} /\ canceler \in Starters \cup {None}
    /\ stopDone \in {"nil", "open", "closed"} /\ stopErr \in Outcome
    /\ pc \in [Process -> PC] /\ result \in [Process -> Result]
    /\ ended \subseteq Starters /\ canceled \subseteq Starters
    /\ life \in [Starters -> {"none", "live", "closing", "closed"}]

Init ==
    /\ state = "new" /\ resource = None /\ canceler = None
    /\ stopDone = "nil" /\ stopErr = "ok"
    /\ pc = [p \in Process |-> "idle"] /\ result = [p \in Process |-> "none"]
    /\ ended = {} /\ canceled = {}
    /\ life = [s \in Starters |-> "none"]

-----------------------------------------------------------------------------

Goto(p, label) == pc' = [pc EXCEPT ![p] = label] /\ UNCHANGED result

Return(p, r) == pc' = [pc EXCEPT ![p] = "done"] /\ result' = [result EXCEPT ![p] = r]

\* The context of a call of Start ends.
ContextEnds(p) ==
    /\ p \notin ended /\ ended' = ended \cup {p}
    /\ UNCHANGED <<state, resource, canceler, stopDone, stopErr, pc, result, canceled, life>>

\* start looks at its context before it takes the mutex.
CheckContext(p) ==
    /\ pc[p] = "idle"
    /\ IF p \in ended THEN Return(p, "canceled") ELSE Goto(p, "checked")
    /\ UNCHANGED <<state, resource, canceler, stopDone, stopErr, ended, canceled, life>>

\* Mutant: a start that finds another one in Open goes on to Open as well.
StartAnyway(p) ==
    /\ pc[p] = "checked"
    /\ \/ /\ state = "open" /\ Return(p, "already")
          /\ UNCHANGED <<state, canceler>>
       \/ /\ state = "closed" /\ Return(p, "closed")
          /\ UNCHANGED <<state, canceler>>
       \/ /\ state \in {"new", "opening"}
          /\ state' = "opening" /\ canceler' = p
          /\ Goto(p, "opening")
    /\ UNCHANGED <<resource, stopDone, stopErr, ended, canceled, life>>

\* start up to its call of Open.
Start(p) ==
    /\ pc[p] = "checked"
    /\ \/ /\ state \in {"opening", "open"} /\ Return(p, "already")
          /\ UNCHANGED <<state, canceler>>
       \/ /\ state = "closed" /\ Return(p, "closed")
          /\ UNCHANGED <<state, canceler>>
       \/ /\ state = "new"
          /\ state' = "opening" /\ canceler' = p
          /\ Goto(p, "opening")
    /\ UNCHANGED <<resource, stopDone, stopErr, ended, canceled, life>>

\* Open fails, panics or returns nil.
OpenFails(p) ==
    /\ pc[p] = "opening"
    /\ canceler' = None
    /\ IF state = "closed"
       THEN stopDone' = "closed" /\ UNCHANGED state
       ELSE state' = "new" /\ UNCHANGED stopDone
    /\ Return(p, "failed")
    /\ UNCHANGED <<resource, stopErr, ended, canceled, life>>

\* Open returns a resource.
OpenReturns(p) ==
    /\ pc[p] = "opening"
    /\ life' = [life EXCEPT ![p] = "live"]
    /\ Goto(p, "opened")
    /\ UNCHANGED <<state, resource, canceler, stopDone, stopErr, ended, canceled>>

\* The condition under which start publishes the resource.
Publishable(p) == state # "closed" /\ p \notin ended

\* start publishes the resource, or begins to close it with its cause set.
Publish(p) ==
    /\ pc[p] = "opened"
    /\ canceler' = None
    /\ IF Publishable(p)
       THEN /\ state' = "open" /\ resource' = p
            /\ Return(p, "ok")
            /\ UNCHANGED life
       ELSE /\ life' = [life EXCEPT ![p] = "closing"]
            /\ pc' = [pc EXCEPT ![p] = "discarding"]
            /\ result' = [result EXCEPT ![p] = IF state = "closed" THEN "closed" ELSE "canceled"]
            /\ UNCHANGED <<state, resource>>
    /\ UNCHANGED <<stopDone, stopErr, ended, canceled>>

\* Mutant: the state read before the Close decides what follows it.
DiscardStale(p) ==
    /\ pc[p] = "discarding"
    /\ life' = [life EXCEPT ![p] = "closed"]
    /\ \E err \in Outcome :
        IF result[p] = "closed"
        THEN stopErr' = err /\ stopDone' = "closed" /\ UNCHANGED state
        ELSE state' = "new" /\ UNCHANGED <<stopErr, stopDone>>
    /\ Goto(p, "done")
    /\ UNCHANGED <<resource, canceler, ended, canceled>>

\* The Close of an unpublished resource returns.
Discard(p) ==
    /\ pc[p] = "discarding"
    /\ life' = [life EXCEPT ![p] = "closed"]
    /\ \E err \in Outcome :
        IF state = "closed"
        THEN stopErr' = err /\ stopDone' = "closed" /\ UNCHANGED state
        ELSE state' = "new" /\ UNCHANGED <<stopErr, stopDone>>
    /\ Goto(p, "done")
    /\ UNCHANGED <<resource, canceler, ended, canceled>>

-----------------------------------------------------------------------------

\* Mutant: Stop leaves the context of a running Open alone.
StopOpeningPatient(p) ==
    /\ pc[p] = "idle" /\ state = "opening"
    /\ state' = "closed" /\ stopDone' = "open"
    /\ Goto(p, "waiting")
    /\ UNCHANGED <<resource, canceler, stopErr, ended, canceled, life>>

\* stop during Open or during the discard of a resource.
StopOpening(p) ==
    /\ pc[p] = "idle" /\ state = "opening"
    /\ state' = "closed" /\ stopDone' = "open"
    /\ canceled' = canceled \cup ({canceler} \ {None})
    /\ Goto(p, "waiting")
    /\ UNCHANGED <<resource, canceler, stopErr, ended, life>>

\* Mutant: Stop takes a running Open for a resource that is not started.
StopUnopened(p) ==
    /\ pc[p] = "idle" /\ state \in {"new", "opening"}
    /\ state' = "closed" /\ stopDone' = "closed"
    /\ Return(p, "ok")
    /\ UNCHANGED <<resource, canceler, stopErr, ended, canceled, life>>

\* stop of a resource that is not started.
StopNew(p) ==
    /\ pc[p] = "idle" /\ state = "new"
    /\ state' = "closed" /\ stopDone' = "closed"
    /\ Return(p, "ok")
    /\ UNCHANGED <<resource, canceler, stopErr, ended, canceled, life>>

\* stop after another stop.
StopAgain(p) ==
    /\ pc[p] = "idle" /\ state = "closed"
    /\ Goto(p, "waiting")
    /\ UNCHANGED <<state, resource, canceler, stopDone, stopErr, ended, canceled, life>>

\* Mutant: the state changes only once the resource is closed.
StopOpenLate(p) ==
    /\ pc[p] = "idle" /\ state = "open"
    /\ stopDone' = "open"
    /\ life' = [life EXCEPT ![resource] = "closing"]
    /\ Goto(p, "closing")
    /\ UNCHANGED <<state, resource, canceler, stopErr, ended, canceled>>

\* stop takes the open resource back and begins to close it.
StopOpen(p) ==
    /\ pc[p] = "idle" /\ state = "open"
    /\ state' = "closed" /\ stopDone' = "open" /\ resource' = None
    /\ life' = [life EXCEPT ![resource] = "closing"]
    /\ Goto(p, "closing")
    /\ UNCHANGED <<canceler, stopErr, ended, canceled>>

\* The Close that stop called returns.  It closes the one resource being closed.
CloseReturns(p) ==
    /\ pc[p] = "closing"
    /\ life' = [s \in Starters |-> IF life[s] = "closing" THEN "closed" ELSE life[s]]
    /\ stopDone' = "closed"
    /\ \E err \in Outcome : stopErr' = err /\ Return(p, err)
    /\ UNCHANGED <<state, resource, canceler, ended, canceled>>

\* waitStop looks at stopDone alone, then selects.
WaitStop(p) ==
    /\ pc[p] = "waiting"
    /\ IF stopDone = "closed" THEN Return(p, stopErr) ELSE Goto(p, "selecting")
    /\ UNCHANGED <<state, resource, canceler, stopDone, stopErr, ended, canceled, life>>

\* waitStop receives from stopDone.
WaitReceives(p) ==
    /\ pc[p] = "selecting" /\ stopDone = "closed"
    /\ Return(p, stopErr)
    /\ UNCHANGED <<state, resource, canceler, stopDone, stopErr, ended, canceled, life>>

\* The context of a waiting stop ends.
WaitExpires(p) ==
    /\ pc[p] = "selecting"
    /\ Return(p, "timeout")
    /\ UNCHANGED <<state, resource, canceler, stopDone, stopErr, ended, canceled, life>>

\* Current: the resource it returns, None with an error.
Current == IF state = "open" THEN resource ELSE None

StartStep(p) ==
    \/ CheckContext(p) \/ Start(p) \/ OpenFails(p) \/ OpenReturns(p)
    \/ Publish(p) \/ Discard(p)

StopStep(p) ==
    \/ StopNew(p) \/ StopOpening(p) \/ StopAgain(p) \/ StopOpen(p)
    \/ CloseReturns(p) \/ WaitStop(p) \/ WaitReceives(p) \/ WaitExpires(p)

\* Every call has returned.
Terminated == (\A p \in Process : pc[p] = "done") /\ UNCHANGED vars

Next ==
    \/ \E p \in Starters : ContextEnds(p) \/ StartStep(p)
    \/ \E p \in Stoppers : StopStep(p)
    \/ Terminated

Spec == Init /\ [][Next]_vars

\* A goroutine that runs goes on.  Open returns once its context has ended, as
\* the Owned documentation asks of it, and Close returns; no context has to end.
Fairness ==
    /\ \A p \in Starters :
        /\ WF_vars(CheckContext(p) \/ Start(p) \/ Publish(p) \/ Discard(p))
        /\ WF_vars(p \in ended \cup canceled /\ (OpenFails(p) \/ OpenReturns(p)))
    /\ \A p \in Stoppers :
        WF_vars(StopNew(p) \/ StopOpening(p) \/ StopAgain(p) \/ StopOpen(p)
                \/ CloseReturns(p) \/ WaitStop(p) \/ WaitReceives(p))

FairSpec == Spec /\ Fairness

-----------------------------------------------------------------------------

Held == {s \in Starters : life[s] \in {"live", "closing"}}

\* However calls of Start and Stop overlap, at most one resource is acquired
\* and not yet closed: a start that discards keeps the others out of Open.
OneResource == \A s, t \in Held : s = t

\* Current never hands out a resource whose Close has begun, and an open
\* resource can always be had.
CurrentUsable ==
    /\ Current # None => life[Current] = "live"
    /\ state = "open" => Current # None

\* Once stopDone is closed the component is stopped for good: nothing is held,
\* and no call of Open or Close is running.
StoppedHoldsNothing ==
    stopDone = "closed" =>
        /\ state = "closed" /\ Held = {}
        /\ \A p \in Process : pc[p] \notin {"opening", "opened", "discarding", "closing"}

\* Every Stop that does not give up returns the one retained result.
SharedStopResult ==
    \A p \in Stoppers : pc[p] = "done" /\ result[p] # "timeout" => result[p] = stopErr

\* A closed channel is never closed again, which would panic, and no result
\* is changed after it was released to the waiting Stops.
CloseOnce ==
    [][stopDone = "closed" => UNCHANGED <<stopDone, stopErr>> /\ ~ \E p \in Process :
            pc[p] \in {"opening", "discarding", "closing"} /\ pc'[p] = "done"]_vars

\* Start reports what happened to the resource: success exactly when readers
\* could have it, and otherwise the resource that it acquired is closed.
StartOwnsDiscard ==
    \A s \in Starters : pc[s] = "done" /\ life[s] = "live" => result[s] = "ok" /\ resource = s

\* Every Stop returns although no context of its own ends: it cancels a
\* running Open and the discard or the failure of that Open releases it.
StopReturns == \A p \in Stoppers : (pc[p] # "idle") ~> (pc[p] = "done")

\* After Stop has begun every acquired resource is closed in the end.
ResourceReleased == (state = "closed") ~> (Held = {} /\ stopDone = "closed")

=============================================================================
