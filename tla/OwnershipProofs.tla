-------------------------- MODULE OwnershipProofs --------------------------
(***************************************************************************)
(* Proofs about what owners hold and release: the resource of Owned, and   *)
(* the tasks, servers and components of a command in Platform.             *)
(*                                                                         *)
(* Owned, for any number of starts and stops.  The state alone does not    *)
(* say who works on the resource; the inductive invariant adds that at     *)
(* most one call does, that the state and stopDone stay as they are while  *)
(* it does, and which call answers for each acquired resource.             *)
(*                                                                         *)
(* Platform, for any set of tasks and any number of signals.  The exit     *)
(* code can tell what happened only if nothing can happen after it, or if  *)
(* it tells of a late cleanup anyway; the inductive invariant adds where   *)
(* each failure is kept until the error of the command has it.             *)
(***************************************************************************)
EXTENDS Owned, Platform, TLAPS

\* A leaf has more than the default time: in a long module it may wait for another.
USE SMTT(20), ZenonT(20)

\* The calls inside Open, Close or the critical section that follows one.
Busy == {p \in Process : pc[p] \in {"opening", "opened", "discarding", "closing"}}

Roles ==
    /\ \A p \in Starters : pc[p] \in {"idle", "checked", "opening", "opened", "discarding", "done"}
    /\ \A p \in Stoppers : pc[p] \in {"idle", "closing", "waiting", "selecting", "done"}

\* At most one call is busy; it holds the state at opening or closed.
BusyInv ==
    /\ \A p, q \in Busy : p = q
    /\ \A p \in Busy :
        /\ resource = None /\ stopDone # "closed"
        /\ p \in Starters => state \in {"opening", "closed"}
        /\ p \in Stoppers => state = "closed"

\* Every acquired resource is open for readers, or one call answers for it.
LifeInv ==
    /\ \A s, t \in Starters :
        life[s] \in {"live", "closing"} /\ life[t] \in {"live", "closing"} => s = t
    /\ \A s \in Starters :
        /\ pc[s] \in {"idle", "checked", "opening"} => life[s] = "none"
        /\ pc[s] = "opened" => life[s] = "live"
        /\ pc[s] = "discarding" => life[s] = "closing"
        /\ life[s] = "live" => pc[s] = "opened" \/ (pc[s] = "done" /\ result[s] = "ok" /\ resource = s)
        /\ life[s] = "closing" => pc[s] = "discarding" \/ \E p \in Stoppers : pc[p] = "closing"
    /\ resource # None => life[resource] = "live"

\* stopDone exists once Stop has begun; the result it releases is retained.
StopInv ==
    /\ state = "closed" <=> stopDone # "nil"
    /\ state = "open" <=> resource # None
    /\ stopDone # "closed" => stopErr = "ok"
    /\ \A p \in Stoppers : pc[p] = "done" /\ result[p] # "timeout" =>
        stopDone = "closed" /\ result[p] = stopErr

IInv == TypeOK /\ Roles /\ BusyInv /\ LifeInv /\ StopInv

-----------------------------------------------------------------------------

\* No call is left inside Open or Close in the initial state.
LEMMA InitIInv == Init => IInv
BY OwnedAssumption DEF Init, IInv, TypeOK, Roles, BusyInv, Busy, LifeInv, StopInv,
    Process, State, Outcome, PC, Result

\* Every step keeps the types of the variables and the labels of each role.
LEMMA NextTypes == ASSUME TypeOK, Roles, StopInv, [Next]_vars PROVE TypeOK' /\ Roles'
<1> USE OwnedAssumption DEF TypeOK, Roles, Process, State, Outcome, PC, Result, Goto, Return
<1>1. ASSUME NEW p \in Starters, ContextEnds(p) PROVE TypeOK' /\ Roles'
    BY <1>1 DEF ContextEnds
<1>2. ASSUME NEW p \in Starters, CheckContext(p) PROVE TypeOK' /\ Roles'
    BY <1>2 DEF CheckContext
<1>3. ASSUME NEW p \in Starters, Start(p) PROVE TypeOK' /\ Roles'
    BY <1>3 DEF Start
<1>4. ASSUME NEW p \in Starters, OpenFails(p) PROVE TypeOK' /\ Roles'
    BY <1>4 DEF OpenFails
<1>5. ASSUME NEW p \in Starters, OpenReturns(p) PROVE TypeOK' /\ Roles'
    BY <1>5 DEF OpenReturns
<1>6. ASSUME NEW p \in Starters, Publish(p) PROVE TypeOK' /\ Roles'
    BY <1>6 DEF Publish
<1>7. ASSUME NEW p \in Starters, Discard(p) PROVE TypeOK' /\ Roles'
    BY <1>7 DEF Discard
<1>8. ASSUME NEW p \in Stoppers, StopNew(p) \/ StopOpening(p) \/ StopAgain(p)
      PROVE TypeOK' /\ Roles'
    BY <1>8 DEF StopNew, StopOpening, StopAgain
<1>9. ASSUME NEW p \in Stoppers, StopOpen(p) PROVE TypeOK' /\ Roles'
    BY <1>9 DEF StopOpen, StopInv
<1>10. ASSUME NEW p \in Stoppers, CloseReturns(p) PROVE TypeOK' /\ Roles'
    BY <1>10 DEF CloseReturns
<1>11. ASSUME NEW p \in Stoppers, WaitStop(p) \/ WaitReceives(p) \/ WaitExpires(p)
       PROVE TypeOK' /\ Roles'
    BY <1>11 DEF WaitStop, WaitReceives, WaitExpires
<1>12. CASE UNCHANGED vars
    BY <1>12 DEF vars
<1> QED
    BY <1>1, <1>2, <1>3, <1>4, <1>5, <1>6, <1>7, <1>8, <1>9, <1>10, <1>11, <1>12
    DEF Next, StartStep, StopStep, Terminated

\* A call becomes busy only when no other is, and nothing moves the state away
\* from it.
LEMMA NextBusy == ASSUME IInv, TypeOK', Roles', [Next]_vars PROVE BusyInv'
<1> USE OwnedAssumption DEF IInv, TypeOK, Roles, Process, Outcome, Goto, Return, BusyInv,
   Busy, StopInv
<1>1. ASSUME NEW p \in Starters, Start(p) PROVE BusyInv'
    BY <1>1 DEF Start
<1>2. ASSUME NEW p \in Starters, OpenFails(p) PROVE BusyInv'
    BY <1>2 DEF OpenFails
<1>3. ASSUME NEW p \in Starters, OpenReturns(p) PROVE BusyInv'
    BY <1>3 DEF OpenReturns
<1>4. ASSUME NEW p \in Starters, Publish(p) PROVE BusyInv'
    BY <1>4 DEF Publish, Publishable
<1>5. ASSUME NEW p \in Starters, Discard(p) PROVE BusyInv'
    BY <1>5 DEF Discard
<1>6. ASSUME NEW p \in Stoppers, StopNew(p) PROVE BusyInv'
    BY <1>6 DEF StopNew
<1>7. ASSUME NEW p \in Stoppers, StopOpening(p) PROVE BusyInv'
    BY <1>7 DEF StopOpening
<1>8. ASSUME NEW p \in Stoppers, StopOpen(p) PROVE BusyInv'
    BY <1>8 DEF StopOpen
<1>9. ASSUME NEW p \in Stoppers, CloseReturns(p) PROVE BusyInv'
    BY <1>9 DEF CloseReturns
<1>10. ASSUME NEW p \in Starters, CheckContext(p) PROVE BusyInv'
    BY <1>10 DEF CheckContext
<1>11. ASSUME NEW p \in Starters, ContextEnds(p) PROVE BusyInv'
    BY <1>11 DEF ContextEnds
<1>12. ASSUME NEW p \in Stoppers, StopAgain(p) PROVE BusyInv'
    BY <1>12 DEF StopAgain
<1>13. ASSUME NEW p \in Stoppers, WaitStop(p) PROVE BusyInv'
    BY <1>13 DEF WaitStop
<1>14. ASSUME NEW p \in Stoppers, WaitReceives(p) PROVE BusyInv'
    BY <1>14 DEF WaitReceives
<1>15. ASSUME NEW p \in Stoppers, WaitExpires(p) PROVE BusyInv'
    BY <1>15 DEF WaitExpires
<1>16. CASE UNCHANGED vars
    BY <1>16 DEF vars
<1> QED
    BY <1>1, <1>2, <1>3, <1>4, <1>5, <1>6, <1>7, <1>8, <1>9, <1>10, <1>11, <1>12, <1>13,
       <1>14, <1>15, <1>16, Zenon
    DEF Next, StartStep, StopStep, Terminated

\* A resource changes hands only between the call that answers for it and the
\* readers.
LEMMA NextLife == ASSUME IInv, TypeOK', Roles', [Next]_vars PROVE LifeInv'
<1> USE OwnedAssumption DEF IInv, TypeOK, Roles, Process, Outcome, Goto, Return, BusyInv,
   Busy, LifeInv, StopInv
<1>1. ASSUME NEW p \in Starters, Start(p) PROVE LifeInv'
    BY <1>1 DEF Start
<1>2. ASSUME NEW p \in Starters, OpenFails(p) PROVE LifeInv'
    BY <1>2 DEF OpenFails
<1>3. ASSUME NEW p \in Starters, OpenReturns(p) PROVE LifeInv'
    BY <1>3 DEF OpenReturns
<1>4. ASSUME NEW p \in Starters, Publish(p) PROVE LifeInv'
    BY <1>4 DEF Publish, Publishable
<1>5. ASSUME NEW p \in Starters, Discard(p) PROVE LifeInv'
    BY <1>5 DEF Discard
<1>6. ASSUME NEW p \in Stoppers, StopNew(p) PROVE LifeInv'
    BY <1>6 DEF StopNew
<1>7. ASSUME NEW p \in Stoppers, StopOpening(p) PROVE LifeInv'
    BY <1>7 DEF StopOpening
<1>8. ASSUME NEW p \in Stoppers, StopOpen(p) PROVE LifeInv'
    BY <1>8 DEF StopOpen
<1>9. ASSUME NEW p \in Stoppers, CloseReturns(p) PROVE LifeInv'
    BY <1>9 DEF CloseReturns
<1>10. ASSUME NEW p \in Starters, CheckContext(p) PROVE LifeInv'
    BY <1>10 DEF CheckContext
<1>11. ASSUME NEW p \in Starters, ContextEnds(p) PROVE LifeInv'
    BY <1>11 DEF ContextEnds
<1>12. ASSUME NEW p \in Stoppers, StopAgain(p) PROVE LifeInv'
    BY <1>12 DEF StopAgain
<1>13. ASSUME NEW p \in Stoppers, WaitStop(p) PROVE LifeInv'
    BY <1>13 DEF WaitStop
<1>14. ASSUME NEW p \in Stoppers, WaitReceives(p) PROVE LifeInv'
    BY <1>14 DEF WaitReceives
<1>15. ASSUME NEW p \in Stoppers, WaitExpires(p) PROVE LifeInv'
    BY <1>15 DEF WaitExpires
<1>16. CASE UNCHANGED vars
    BY <1>16 DEF vars
<1> QED
    BY <1>1, <1>2, <1>3, <1>4, <1>5, <1>6, <1>7, <1>8, <1>9, <1>10, <1>11, <1>12, <1>13,
       <1>14, <1>15, <1>16, Zenon
    DEF Next, StartStep, StopStep, Terminated

\* stopDone and stopErr change only by the busy call, before any Stop has read
\* them.
LEMMA NextStop == ASSUME IInv, TypeOK', Roles', [Next]_vars PROVE StopInv'
<1> USE OwnedAssumption DEF IInv, TypeOK, Roles, Process, Outcome, Goto, Return, BusyInv,
   Busy, StopInv
<1>1. ASSUME NEW p \in Starters, Start(p) PROVE StopInv'
    BY <1>1 DEF Start
<1>2. ASSUME NEW p \in Starters, OpenFails(p) PROVE StopInv'
    BY <1>2 DEF OpenFails
<1>3. ASSUME NEW p \in Starters, OpenReturns(p) PROVE StopInv'
    BY <1>3 DEF OpenReturns
<1>4. ASSUME NEW p \in Starters, Publish(p) PROVE StopInv'
    BY <1>4 DEF Publish, Publishable
<1>5. ASSUME NEW p \in Starters, Discard(p) PROVE StopInv'
    BY <1>5 DEF Discard
<1>6. ASSUME NEW p \in Stoppers, StopNew(p) PROVE StopInv'
    BY <1>6 DEF StopNew
<1>7. ASSUME NEW p \in Stoppers, StopOpening(p) PROVE StopInv'
    BY <1>7 DEF StopOpening
<1>8. ASSUME NEW p \in Stoppers, StopOpen(p) PROVE StopInv'
    BY <1>8 DEF StopOpen
<1>9. ASSUME NEW p \in Stoppers, CloseReturns(p) PROVE StopInv'
    BY <1>9 DEF CloseReturns
<1>10. ASSUME NEW p \in Starters, CheckContext(p) PROVE StopInv'
    BY <1>10 DEF CheckContext
<1>11. ASSUME NEW p \in Starters, ContextEnds(p) PROVE StopInv'
    BY <1>11 DEF ContextEnds
<1>12. ASSUME NEW p \in Stoppers, StopAgain(p) PROVE StopInv'
    BY <1>12 DEF StopAgain
<1>13. ASSUME NEW p \in Stoppers, WaitStop(p) PROVE StopInv'
    BY <1>13 DEF WaitStop
<1>14. ASSUME NEW p \in Stoppers, WaitReceives(p) PROVE StopInv'
    BY <1>14 DEF WaitReceives
<1>15. ASSUME NEW p \in Stoppers, WaitExpires(p) PROVE StopInv'
    BY <1>15 DEF WaitExpires
<1>16. CASE UNCHANGED vars
    BY <1>16 DEF vars
<1> QED
    BY <1>1, <1>2, <1>3, <1>4, <1>5, <1>6, <1>7, <1>8, <1>9, <1>10, <1>11, <1>12, <1>13,
       <1>14, <1>15, <1>16
    DEF Next, StartStep, StopStep, Terminated

\* The invariant holds in every state of every execution.
THEOREM OwnedInductive == Spec => []IInv
<1>1. IInv /\ [Next]_vars => IInv'
    BY NextTypes, NextBusy, NextLife, NextStop DEF IInv
<1> QED
    BY InitIInv, <1>1, PTL DEF Spec

\* Whatever number of Starts and Stops overlap, the fields of Owned keep their
\* types; cancelOpen in particular is never called while it is nil.
THEOREM OwnedTypes == Spec => []TypeOK
<1>1. IInv => TypeOK
    BY DEF IInv
<1> QED
    BY OwnedInductive, <1>1, PTL

\* At most one resource is acquired and not yet closed.
THEOREM OneResourceHeld == Spec => []OneResource
<1>1. IInv => OneResource
    BY DEF IInv, LifeInv, OneResource, Held
<1> QED
    BY OwnedInductive, <1>1, PTL

\* Current never returns a resource whose Close has begun.
THEOREM ReadersSafe == Spec => []CurrentUsable
<1>1. IInv => CurrentUsable
    BY OwnedAssumption DEF IInv, LifeInv, StopInv, CurrentUsable, Current
<1> QED
    BY OwnedInductive, <1>1, PTL

\* When stopDone is closed no resource is held and no callback runs.
THEOREM StopReleases == Spec => []StoppedHoldsNothing
<1>1. ASSUME IInv, stopDone = "closed"
      PROVE  /\ state = "closed"
             /\ \A p \in Process : pc[p] \notin {"opening", "opened", "discarding", "closing"}
    BY <1>1 DEF IInv, BusyInv, Busy, StopInv
<1>2. ASSUME IInv, stopDone = "closed" PROVE Held = {}
    BY <1>1, <1>2, OwnedAssumption DEF IInv, LifeInv, StopInv, Held, Process
<1>3. IInv => StoppedHoldsNothing
    BY <1>1, <1>2 DEF StoppedHoldsNothing
<1> QED
    BY OwnedInductive, <1>3, PTL

\* Stops that did not give up agree on the retained result.
THEOREM StopsAgree == Spec => []SharedStopResult
<1>1. IInv => SharedStopResult
    BY DEF IInv, StopInv, SharedStopResult
<1> QED
    BY OwnedInductive, <1>1, PTL

\* No step closes stopDone twice or changes a released result.
THEOREM StopDoneClosedOnce == Spec => CloseOnce
<1> DEFINE Once == stopDone = "closed" => UNCHANGED <<stopDone, stopErr>> /\ ~ \E p \in Process :
            pc[p] \in {"opening", "discarding", "closing"} /\ pc'[p] = "done"
<1>1. ASSUME IInv, [Next]_vars, stopDone = "closed" PROVE UNCHANGED <<stopDone, stopErr>>
    <2>1. state = "closed" /\ \A p \in Process :
            pc[p] \notin {"opening", "opened", "discarding", "closing"}
        BY <1>1 DEF IInv, BusyInv, Busy, StopInv
    <2> QED
        BY <1>1, <2>1 DEF Next, vars, StartStep, StopStep, Terminated, Process, ContextEnds,
            CheckContext, Start, OpenFails, OpenReturns, Publish, Discard, StopNew, StopOpening,
            StopAgain, StopOpen, CloseReturns, WaitStop, WaitReceives, WaitExpires
<1>2. IInv /\ [Next]_vars => Once
    BY <1>1 DEF IInv, BusyInv, Busy
<1>3. IInv /\ [Next]_vars => [Once]_vars
    BY <1>2
<1> QED
    BY OwnedInductive, <1>3, PTL DEF Spec, CloseOnce

\* A start that returns with its resource unclosed has published it.
THEOREM NoResourceLost == Spec => []StartOwnsDiscard
<1>1. IInv => StartOwnsDiscard
    BY DEF IInv, LifeInv, StartOwnsDiscard
<1> QED
    BY OwnedInductive, <1>1, PTL

-----------------------------------------------------------------------------
(* Platform.                                                               *)

\* The labels of the command before it starts its service, while the service
\* runs, and after the handler has its error.
Early == {"compile", "construct", "prepare", "register", "begin"}
Running == {"go", "wait", "join", "escalated"}
Ending == {"final", "stop", "exited"}

Settings ==
    { c \in [kind : {"long-running", "one-shot"}, http : BOOLEAN, management : BOOLEAN,
             signals : BOOLEAN] :
        IF c.kind = "long-running" THEN c.management ELSE ~c.http }

\* Nothing that the command owns is left, so that nothing more can happen to it.
Quiet == started = 0 /\ management = "none" /\ \A t \in Work : Returned(t)

CommandType ==
    /\ conf \in Settings /\ started \in Nat
    /\ task \in [Work ->
         {"none", "running", "stopped", "failed", "done", "succeeded", "canceled"}]

\* What the step of the command tells of its service.
ServiceAt ==
    /\ step \in Early => service = "new"
    /\ step = "start" => service = "starting"
    /\ step = "rollback" => service = "stopping"
    /\ step \in {"go", "wait"} => service \in {"ready", "draining"}
    /\ step \in {"join", "escalated"} => service \in {"stopping", "stopped"}
    /\ step \in Ending => service \in {"new", "stopping", "stopped"}
    /\ service \in {"new", "stopped"} => Quiet

\* Before tasks run there is no failure but those of startup and management.
StartupInv ==
    /\ step \in Early => errs = {} /\ happened = {}
    /\ step \in {"start", "rollback"} => happened \subseteq {"management", "startup"}
    /\ step = "start" => "startup" \notin happened /\ (started = 0 => happened = {})
    /\ step = "rollback" => errs # {} /\ ("canceled" \in errs => "startup" \notin happened)
    /\ step \in Early \cup {"start", "rollback"} =>
           retained = {} /\ \A t \in Work : task[t] = "none"

\* Each failure so far is retained, or with the owner that will report it.
RecordInv ==
    /\ step \in Running => happened \subseteq {"management", "task", "stop", "deadline"}
    /\ step \in Running => (happened \cap {"stop", "deadline"} # {} => retained # {})
    /\ step \in Running =>
           ("task" \in happened => retained # {} \/ \E t \in {"http", "one-shot"} \cap Work :
                                                        task[t] = "failed")
    /\ step \notin Ending =>
           ("management" \in happened =>
                management \in {"failing", "canceling", "failed"} \/ retained # {})

\* What the caller of Shutdown already has to report.
ModeInv ==
    step \in {"join", "escalated"} =>
        /\ mode \in {"failure", "result", "canceled", "long-running"}
        /\ mode = "failure" => errs = {"state"}
        /\ mode = "long-running" => Long
        /\ mode \in {"result", "canceled"} => ~Long
        /\ mode = "result" => Returned("one-shot") /\ errs = TaskResult

\* The error of the handler, and then the exit code, tell what happened; unless
\* they tell of a late cleanup, nothing more can happen.
EndInv ==
    /\ step \in Ending /\ errs \cap {"timeout", "rollback"} = {} => Quiet
    /\ step \in {"final", "stop"} =>
           /\ happened # {} => errs # {} /\ ~CanceledOnly(errs)
           /\ "timeout" \in happened => "timeout" \in errs
           /\ "signal" \in happened => "signal" \in errs
    /\ step = "exited" /\ exit = 0 => errs \cap {"timeout", "rollback"} = {}
    /\ ExitTells

CommandInv ==
    /\ CommandType /\ ServiceAt /\ StartupInv /\ RecordInv /\ ModeInv /\ EndInv
    /\ ready => step = "wait"

-----------------------------------------------------------------------------

\* A command that was not begun owns nothing and has nothing to tell.
LEMMA InitCommand == ExecuteInit => CommandInv
<1>. SUFFICES ASSUME ExecuteInit PROVE CommandInv
  OBVIOUS
<1>1. CommandType
  BY DEF ExecuteInit, CommandType, Settings
<1>2. Quiet
  BY DEF ExecuteInit, Quiet, Returned
<1>. QED
  BY <1>1, <1>2 DEF ExecuteInit, CommandInv, ServiceAt, StartupInv, RecordInv, ModeInv, EndInv,
    ExitTells, Early, Running, Ending

\* Work and Quiet depend on the plan and on the owners alone.
LEMMA WorkFrame ==
  ASSUME UNCHANGED conf
  PROVE  Work' = Work /\ Long' = Long
  BY DEF Work, Long

\* Nothing comes to run while the tasks and the servers stay as they are.
LEMMA QuietFrame ==
  ASSUME UNCHANGED <<conf, started, management, task>>
  PROVE  Quiet' = Quiet
  BY DEF Quiet, Returned, Work, Long

\* The signal goroutine and the parent change the command only by Drain.
LEMMA SignalFrame ==
  ASSUME CommandInv,
         UNCHANGED <<conf, step, mode, errs, exit, ready, started, management, task, retained,
                     happened>>,
         service' = service \/ (service \in {"ready", "draining"} /\ service' = "draining")
  PROVE  CommandInv'
<1>1. Quiet' = Quiet /\ Work' = Work /\ Long' = Long
  BY QuietFrame, WorkFrame
<1>2. CommandType'
  BY <1>1 DEF CommandInv, CommandType, Settings
<1>3. ServiceAt'
  BY <1>1 DEF CommandInv, ServiceAt, Early, Ending
<1>4. StartupInv' /\ RecordInv'
  BY <1>1 DEF CommandInv, StartupInv, RecordInv
<1>5. ModeInv'
  BY <1>1, Zenon DEF CommandInv, ModeInv, Returned, TaskResult
<1>6. EndInv'
  BY <1>1 DEF CommandInv, EndInv, ExitTells, CanceledOnly
<1>. QED
  BY <1>2, <1>3, <1>4, <1>5, <1>6 DEF CommandInv

\* SendSignal, CloseSignals, ParentCancels and the steps of Watch.
LEMMA WatchSteps ==
  ASSUME CommandInv, SendSignal \/ CloseSignals \/ ParentCancels \/ Watch
  PROVE  CommandInv'
<1>1. UNCHANGED <<conf, step, mode, errs, exit, ready, started, management, task, retained,
                  happened>>
  BY DEF SendSignal, CloseSignals, ParentCancels, Watch, WatchReceives,
     WatchDrains,
    WatchCancels, WatchGoesOn, WatchStops, commandVars, signalVars, serviceVars
<1>2. service' = service \/ (service \in {"ready", "draining"} /\ service' = "draining")
  BY DEF SendSignal, CloseSignals, ParentCancels, Watch, WatchReceives,
     WatchDrains,
    WatchCancels, WatchGoesOn, WatchStops, commandVars, signalVars,
    serviceVars, Drain
<1>. QED
  BY <1>1, <1>2, SignalFrame

\* The length and the elements of a concatenation.
LEMMA Concatenation ==
  ASSUME NEW S, NEW s \in Seq(S), NEW t \in Seq(S)
  PROVE  /\ s \o t \in Seq(S)
         /\ Len(s \o t) = Len(s) + Len(t)
         /\ \A j \in 1..Len(s) + Len(t) :
               (s \o t)[j] = IF j <= Len(s) THEN s[j] ELSE t[j - Len(s)]
  OBVIOUS

\* Only the first component is the management server.
LEMMA ManagementIsFirst ==
  ASSUME CommandType, NEW i \in Nat, 0 < i, i < Len(Components)
  PROVE  Components[i + 1] # "management"
<1>. DEFINE Names == {"management", "plan", "http"}
             a == IF conf.management THEN <<"management">> ELSE <<>>
             b == IF conf.http THEN <<"http">> ELSE <<>>
             c == a \o <<"plan">>
<1>1. /\ <<"management">> \in Seq(Names) /\ <<"plan">> \in Seq(Names) /\ <<"http">> \in Seq(Names)
      /\ <<>> \in Seq(Names) /\ Len(<<"management">>) = 1 /\ Len(<<>>) = 0
  OBVIOUS
<1>2. a \in Seq(Names) /\ (Len(a) = 0 \/ Len(a) = 1) /\ b \in Seq(Names)
  BY <1>1, Zenon
<1>3. \A j \in 1..Len(b) : b[j] = "http"
  OBVIOUS
<1>4. Components = c \o b
  BY DEF Components
<1>. HIDE DEF Names, a, b
<1>5. /\ c \in Seq(Names) /\ Len(c) = Len(a) + 1
      /\ \A j \in 1..Len(c) : j > Len(a) => c[j] = "plan"
  BY <1>1, <1>2, Concatenation
<1>. HIDE DEF c
<1>6. /\ Len(c \o b) = Len(c) + Len(b)
      /\ \A j \in 1..Len(c) + Len(b) : (c \o b)[j] = IF j <= Len(c) THEN c[j] ELSE b[j - Len(c)]
  BY <1>2, <1>5, Concatenation, ZenonT(30)
<1>7. Len(a) \in Nat /\ Len(b) \in Nat /\ Len(c) \in Nat
  BY <1>2, <1>5
<1>8. i + 1 \in 1..Len(c) + Len(b) /\ i + 1 > Len(a)
  <2>1. i < Len(c) + Len(b)
    BY <1>4, <1>6
  <2>2. Len(a) = 0 \/ Len(a) = 1
    BY <1>2
  <2>3. i + 1 > 0 /\ i + 1 > 1
    OBVIOUS
  <2>4. i + 1 <= Len(c) + Len(b)
    BY <1>7, <2>1
  <2>5. i + 1 \in Nat /\ 1 <= i + 1 /\ Len(c) + Len(b) \in Nat
    BY <1>7
  <2>6. i + 1 > Len(a)
    BY <2>2, <2>3, Zenon
  <2>. QED
    BY <2>4, <2>5, <2>6
<1>9. CASE i + 1 <= Len(c)
  BY <1>4, <1>5, <1>6, <1>7, <1>8, <1>9
<1>10. CASE i + 1 > Len(c)
  <2>1. i + 1 - Len(c) \in 1..Len(b)
    BY <1>7, <1>8, <1>10
  <2>. QED
    BY <1>3, <1>4, <1>6, <1>7, <1>8, <1>10, <2>1
<1>. QED
  BY <1>7, <1>8, <1>9, <1>10

\* Construction and startup: the service is new, starting or rolled back.
LEMMA StartupSteps ==
  ASSUME CommandInv,
         \/ Compile \/ Construct \/ Prepare \/ Register \/ StartBegins
         \/ StartComponent \/ StartFails \/ StartCompletes \/ Rollback
  PROVE  CommandInv'
<1>w. Work' = Work /\ Long' = Long
  BY WorkFrame DEF Compile, Construct, Prepare, Register, StartBegins,
    StartComponent, StartFails, StartCompletes, Rollback
<1>1. CASE Compile
  <2>1. CommandType'
    BY <1>1, <1>w DEF CommandInv, CommandType, Compile, commandVars, signalVars,
       serviceVars
  <2>2. ServiceAt'
    BY <1>1, <1>w DEF CommandInv, ServiceAt, Quiet, Returned, Early, Ending, Compile,
       commandVars, signalVars, serviceVars
  <2>3. StartupInv'
    BY <1>1, <1>w DEF CommandInv, StartupInv, Early, Compile, commandVars,
       signalVars, serviceVars
  <2>4. RecordInv'
    BY <1>1, <1>w DEF CommandInv, RecordInv, StartupInv, Early, Running, Ending,
       Compile, commandVars, signalVars, serviceVars
  <2>5. ModeInv'
    BY <1>1, <1>w DEF CommandInv, ModeInv, Compile, commandVars, signalVars,
       serviceVars
  <2>6. EndInv'
    BY <1>1, <1>w DEF CommandInv, EndInv, ExitTells, Ending, ServiceAt, StartupInv,
       Quiet, Returned, Early, Compile, commandVars, signalVars, serviceVars
  <2>7. (ready => step = "wait")'
    BY <1>1 DEF CommandInv, Compile, commandVars, signalVars, serviceVars
  <2>. QED
    BY <2>1, <2>2, <2>3, <2>4, <2>5, <2>6, <2>7 DEF CommandInv
<1>2. CASE Construct
  <2>1. CommandType'
    BY <1>2, <1>w DEF CommandInv, CommandType, Construct, CreateFails, Fail, commandVars,
       signalVars, serviceVars
  <2>2. ServiceAt'
    BY <1>2, <1>w DEF CommandInv, ServiceAt, Quiet, Returned, Early, Ending,
       Construct, CreateFails, Fail, commandVars, signalVars, serviceVars
  <2>3. StartupInv'
    BY <1>2, <1>w DEF CommandInv, StartupInv, Early, Construct, CreateFails, Fail, commandVars,
       signalVars, serviceVars
  <2>4. RecordInv'
    BY <1>2, <1>w DEF CommandInv, RecordInv, StartupInv, Early, Running, Ending,
       Construct, CreateFails, Fail, commandVars, signalVars, serviceVars
  <2>5. ModeInv'
    BY <1>2, <1>w DEF CommandInv, ModeInv, Construct, CreateFails, Fail, commandVars,
       signalVars, serviceVars
  <2>6. EndInv'
    <3>1. Quiet' /\ step' \in {"prepare", "final", "stop"}
      BY <1>2, QuietFrame DEF CommandInv, ServiceAt, Early, Construct, CreateFails, Fail,
         serviceVars
    <3>2. step' \in {"final", "stop"} =>
            \/ happened' = {}
            \/ happened' = errs' /\ errs' \in {{"configuration"}, {"construction"}}
      BY <1>2 DEF CommandInv, StartupInv, Early, Construct, CreateFails, Fail
    <3>. QED
      BY <3>1, <3>2 DEF EndInv, ExitTells, CanceledOnly, Ending
  <2>7. (ready => step = "wait")'
    BY <1>2 DEF CommandInv, Construct, CreateFails, Fail, commandVars, signalVars, serviceVars
  <2>. QED
    BY <2>1, <2>2, <2>3, <2>4, <2>5, <2>6, <2>7 DEF CommandInv
<1>3. CASE Prepare
  <2>1. CommandType'
    BY <1>3, <1>w DEF CommandInv, CommandType, Prepare, Fail, commandVars,
       signalVars, serviceVars
  <2>2. ServiceAt'
    BY <1>3, <1>w DEF CommandInv, ServiceAt, Quiet, Returned, Early, Ending, Prepare,
       Fail, commandVars, signalVars, serviceVars
  <2>3. StartupInv'
    BY <1>3, <1>w DEF CommandInv, StartupInv, Early, Prepare, Fail, commandVars,
       signalVars, serviceVars
  <2>4. RecordInv'
    BY <1>3, <1>w DEF CommandInv, RecordInv, StartupInv, Early, Running, Ending,
       Prepare, Fail, commandVars, signalVars, serviceVars
  <2>5. ModeInv'
    BY <1>3, <1>w DEF CommandInv, ModeInv, Prepare, Fail, commandVars,
       signalVars, serviceVars
  <2>6. EndInv'
    <3>1. Quiet' /\ step' \in {"register", "final"}
      BY <1>3, QuietFrame DEF CommandInv, ServiceAt, Early, Prepare, Fail, serviceVars
    <3>2. step' = "final" =>
            \/ happened' = {}
            \/ happened' = errs' /\ errs' \in {{"definition"}, {"construction"}}
      BY <1>3 DEF CommandInv, StartupInv, Early, Prepare, Fail
    <3>. QED
      BY <3>1, <3>2 DEF EndInv, ExitTells, CanceledOnly, Ending
  <2>7. (ready => step = "wait")'
    BY <1>3 DEF CommandInv, Prepare, Fail, commandVars, signalVars, serviceVars
  <2>. QED
    BY <2>1, <2>2, <2>3, <2>4, <2>5, <2>6, <2>7 DEF CommandInv
<1>4. CASE Register
  <2>1. CommandType'
    BY <1>4, <1>w DEF CommandInv, CommandType, Register, commandVars, signalVars,
       serviceVars
  <2>2. ServiceAt'
    BY <1>4, <1>w DEF CommandInv, ServiceAt, Quiet, Returned, Early, Ending,
       Register, commandVars, signalVars, serviceVars
  <2>3. StartupInv'
    BY <1>4, <1>w DEF CommandInv, StartupInv, Early, Register, commandVars,
       signalVars, serviceVars
  <2>4. RecordInv'
    BY <1>4, <1>w DEF CommandInv, RecordInv, StartupInv, Early, Running, Ending,
       Register, commandVars, signalVars, serviceVars
  <2>5. ModeInv'
    BY <1>4, <1>w DEF CommandInv, ModeInv, Register, commandVars, signalVars,
       serviceVars
  <2>6. EndInv'
    BY <1>4, <1>w DEF CommandInv, EndInv, ExitTells, Ending, ServiceAt, StartupInv,
       Quiet, Returned, Early, Register, commandVars, signalVars, serviceVars
  <2>7. (ready => step = "wait")'
    BY <1>4 DEF CommandInv, Register, commandVars, signalVars, serviceVars
  <2>. QED
    BY <2>1, <2>2, <2>3, <2>4, <2>5, <2>6, <2>7 DEF CommandInv
<1>5. CASE StartBegins
  <2>1. CommandType'
    BY <1>5, <1>w DEF CommandInv, CommandType, StartBegins, commandVars,
       signalVars, serviceVars
  <2>2. ServiceAt'
    BY <1>5, <1>w DEF CommandInv, ServiceAt, Quiet, Returned, Early, Ending,
       StartBegins, commandVars, signalVars, serviceVars
  <2>3. StartupInv'
    BY <1>5, <1>w DEF CommandInv, StartupInv, Early, StartBegins, commandVars,
       signalVars, serviceVars
  <2>4. RecordInv'
    BY <1>5, <1>w DEF CommandInv, RecordInv, StartupInv, Early, Running, Ending,
       StartBegins, commandVars, signalVars, serviceVars
  <2>5. ModeInv'
    BY <1>5, <1>w DEF CommandInv, ModeInv, StartBegins, commandVars, signalVars,
       serviceVars
  <2>6. EndInv'
    BY <1>5, <1>w DEF CommandInv, EndInv, ExitTells, Ending, ServiceAt, StartupInv,
       Quiet, Returned, Early, StartBegins, commandVars, signalVars, serviceVars
  <2>7. (ready => step = "wait")'
    BY <1>5 DEF CommandInv, StartBegins, commandVars, signalVars, serviceVars
  <2>. QED
    BY <2>1, <2>2, <2>3, <2>4, <2>5, <2>6, <2>7 DEF CommandInv
<1>6. CASE StartComponent
  <2>1. CommandType'
    BY <1>6, <1>w DEF CommandInv, CommandType, StartComponent, commandVars,
       signalVars, serviceVars
  <2>2. ServiceAt'
    BY <1>6, <1>w DEF CommandInv, ServiceAt, Quiet, Returned, Early, Ending,
       StartComponent, commandVars, signalVars, serviceVars
  <2>3. StartupInv'
    BY <1>6, <1>w DEF CommandInv, CommandType, StartupInv, Early, StartComponent,
       commandVars, signalVars, serviceVars
  <2>4. RecordInv'
    <3>1. started = 0 => "management" \notin happened
      BY <1>6 DEF CommandInv, StartupInv, StartComponent
    <3>2. started # 0 => management' = management
      BY <1>6, ManagementIsFirst DEF CommandInv, CommandType, StartComponent
    <3>. QED
      BY <1>6, <1>w, <3>1, <3>2 DEF CommandInv, RecordInv, Running, StartComponent,
         commandVars
  <2>5. ModeInv'
    BY <1>6, <1>w DEF CommandInv, ModeInv, StartComponent, commandVars, signalVars,
       serviceVars
  <2>6. EndInv'
    BY <1>6, <1>w DEF CommandInv, EndInv, ExitTells, Ending, ServiceAt, StartupInv,
       Quiet, Returned, Early, StartComponent, commandVars, signalVars, serviceVars
  <2>7. (ready => step = "wait")'
    BY <1>6 DEF CommandInv, StartComponent, commandVars, signalVars, serviceVars
  <2>. QED
    BY <2>1, <2>2, <2>3, <2>4, <2>5, <2>6, <2>7 DEF CommandInv
<1>7. CASE StartFails
  <2>1. CommandType'
    BY <1>7, <1>w DEF CommandInv, CommandType, StartFails, commandVars, signalVars,
       serviceVars
  <2>2. ServiceAt'
    BY <1>7, <1>w DEF CommandInv, ServiceAt, Quiet, Returned, Early, Ending,
       StartFails, commandVars, signalVars, serviceVars
  <2>3. StartupInv'
    BY <1>7, <1>w DEF CommandInv, StartupInv, Early, StartFails, commandVars,
       signalVars, serviceVars
  <2>4. RecordInv'
    BY <1>7, <1>w DEF CommandInv, RecordInv, StartupInv, Early, Running, Ending,
       StartFails, commandVars, signalVars, serviceVars
  <2>5. ModeInv'
    BY <1>7, <1>w DEF CommandInv, ModeInv, StartFails, commandVars, signalVars,
       serviceVars
  <2>6. EndInv'
    BY <1>7, <1>w, Zenon DEF CommandInv, EndInv, ExitTells, Ending, ServiceAt, StartupInv,
       Quiet, Returned, Early, StartFails, commandVars, signalVars, serviceVars
  <2>7. (ready => step = "wait")'
    BY <1>7 DEF CommandInv, StartFails, commandVars, signalVars, serviceVars
  <2>. QED
    BY <2>1, <2>2, <2>3, <2>4, <2>5, <2>6, <2>7 DEF CommandInv
<1>8. CASE StartCompletes
  <2>1. CommandType'
    BY <1>8, <1>w DEF CommandInv, CommandType, StartCompletes, commandVars,
       signalVars, serviceVars
  <2>2. ServiceAt'
    BY <1>8, <1>w DEF CommandInv, ServiceAt, Quiet, Returned, Early, Ending,
       StartCompletes, commandVars, signalVars, serviceVars
  <2>3. StartupInv'
    BY <1>8, <1>w DEF CommandInv, StartupInv, Early, StartCompletes, commandVars,
       signalVars, serviceVars
  <2>4. RecordInv'
    BY <1>8, <1>w DEF CommandInv, RecordInv, StartupInv, Early, Running, Ending,
       StartCompletes, commandVars, signalVars, serviceVars
  <2>5. ModeInv'
    BY <1>8, <1>w DEF CommandInv, ModeInv, StartCompletes, commandVars, signalVars,
       serviceVars
  <2>6. EndInv'
    BY <1>8, <1>w DEF CommandInv, EndInv, ExitTells, Ending, ServiceAt, StartupInv,
       Quiet, Returned, Early, StartCompletes, commandVars, signalVars, serviceVars
  <2>7. (ready => step = "wait")'
    BY <1>8 DEF CommandInv, StartCompletes, commandVars, signalVars, serviceVars
  <2>. QED
    BY <2>1, <2>2, <2>3, <2>4, <2>5, <2>6, <2>7 DEF CommandInv
<1>9. CASE Rollback
  <2>1. CommandType'
    BY <1>9, <1>w DEF CommandInv, CommandType, Rollback, Fail, ManagementStopped,
       commandVars, signalVars, serviceVars
  <2>2. ServiceAt'
    <3>1. service' = "stopped" => Quiet'
      BY <1>9, <1>w DEF CommandInv, ServiceAt, StartupInv, Quiet, Returned, Rollback,
         Fail
    <3>2. step' = "final" /\ service' \in {"stopping", "stopped"}
      BY <1>9 DEF CommandInv, ServiceAt, Rollback, Fail
    <3>. QED
      BY <3>1, <3>2 DEF ServiceAt, Early, Ending
  <2>3. StartupInv'
    BY <1>9, <1>w DEF CommandInv, StartupInv, Early, Rollback, Fail,
       ManagementStopped, commandVars, signalVars, serviceVars
  <2>4. RecordInv'
    BY <1>9, <1>w DEF CommandInv, RecordInv, StartupInv, Early, Running, Ending,
       Rollback, Fail, ManagementStopped, commandVars, signalVars, serviceVars
  <2>5. ModeInv'
    BY <1>9, <1>w DEF CommandInv, ModeInv, Rollback, Fail, ManagementStopped,
       commandVars, signalVars, serviceVars
  <2>6. EndInv'
    <3>1. "rollback" \in errs' \/ service' = "stopped"
      BY <1>9 DEF Rollback, Fail
    <3>2. "rollback" \notin errs' => happened' = happened /\ errs' = errs
                                     /\ management \notin {"failing", "canceling", "failed"}
      BY <1>9 DEF Rollback, Fail, ManagementStopped
    <3>3. "rollback" \notin errs' => happened' = {} \/ (errs' # {} /\ "canceled" \notin errs')
      BY <1>9, <3>2 DEF CommandInv, StartupInv, RecordInv, Ending, Rollback
    <3>4. step' = "final" /\ happened' \subseteq {"management", "startup", "rollback"}
      BY <1>9 DEF CommandInv, StartupInv, Rollback, Fail
    <3>. QED
      BY <2>2, <3>1, <3>3, <3>4, Zenon DEF ServiceAt, EndInv, ExitTells, CanceledOnly, Ending
  <2>7. (ready => step = "wait")'
    BY <1>9 DEF CommandInv, Rollback, Fail, ManagementStopped, commandVars,
       signalVars, serviceVars
  <2>. QED
    BY <2>1, <2>2, <2>3, <2>4, <2>5, <2>6, <2>7 DEF CommandInv
<1>. QED
  BY <1>1, <1>2, <1>3, <1>4, <1>5, <1>6, <1>7, <1>8, <1>9

\* The tasks are started, and the command comes to Shutdown.
LEMMA RunSteps ==
  ASSUME CommandInv,
         (\E t \in Work : Go(t)) \/ Activate \/ WaitLong \/ WaitOneShot \/ Escalate
  PROVE  CommandInv'
<1>w. Work' = Work /\ Long' = Long
  BY WorkFrame DEF Go, Activate, WaitLong, WaitOneShot, Escalate
<1>1. ASSUME NEW t \in Work, Go(t)
      PROVE  CommandInv'
  <2>1. CommandType'
    BY <1>1, <1>w DEF CommandInv, CommandType, Go, GoFails, Shutdown, BeginDrain,
       commandVars, signalVars, serviceVars
  <2>2. ServiceAt'
    BY <1>1, <1>w DEF CommandInv, ServiceAt, Quiet, Returned, Early, Ending, Go,
       GoFails, Shutdown, BeginDrain, commandVars, signalVars, serviceVars
  <2>3. StartupInv'
    BY <1>1, <1>w DEF CommandInv, StartupInv, Early, Go, GoFails, Shutdown,
       BeginDrain, commandVars, signalVars, serviceVars
  <2>4. RecordInv'
    <3>1. \A u \in Work : task[u] = "failed" => task'[u] = "failed"
      BY <1>1 DEF CommandInv, CommandType, Go
    <3>2. step = "go" /\ step' \in {"go", "join"} /\ UNCHANGED <<retained, happened, management>>
      BY <1>1 DEF Go, GoFails, Shutdown, BeginDrain
    <3>. QED
      BY <3>1, <3>2, <1>w DEF CommandInv, RecordInv, Running, Ending
  <2>5. ModeInv'
    BY <1>1, <1>w DEF CommandInv, ModeInv, Go, GoFails, Shutdown, BeginDrain,
       commandVars, signalVars, serviceVars
  <2>6. EndInv'
    BY <1>1, <1>w DEF CommandInv, EndInv, ExitTells, Ending, Go, GoFails,
       Shutdown, BeginDrain, commandVars, signalVars, serviceVars
  <2>7. (ready => step = "wait")'
    BY <1>1, Zenon DEF CommandInv, Go, GoFails, Shutdown, BeginDrain, commandVars,
       signalVars, serviceVars
  <2>. QED
    BY <2>1, <2>2, <2>3, <2>4, <2>5, <2>6, <2>7 DEF CommandInv
<1>2. CASE Activate
  <2>1. CommandType'
    BY <1>2, <1>w DEF CommandInv, CommandType, Activate, commandVars, signalVars,
       serviceVars
  <2>2. ServiceAt'
    BY <1>2, <1>w DEF CommandInv, ServiceAt, Quiet, Returned, Early, Ending,
       Activate, commandVars, signalVars, serviceVars
  <2>3. StartupInv'
    BY <1>2, <1>w DEF CommandInv, StartupInv, Early, Activate, commandVars,
       signalVars, serviceVars
  <2>4. RecordInv'
    BY <1>2, <1>w DEF CommandInv, RecordInv, Running, Ending, Activate, commandVars,
       signalVars, serviceVars
  <2>5. ModeInv'
    BY <1>2, <1>w DEF CommandInv, ModeInv, Returned, TaskResult, Activate,
       commandVars, signalVars, serviceVars
  <2>6. EndInv'
    BY <1>2, <1>w DEF CommandInv, EndInv, ExitTells, Ending, Activate, commandVars,
       signalVars, serviceVars
  <2>7. (ready => step = "wait")'
    BY <1>2 DEF CommandInv, Activate, commandVars, signalVars, serviceVars
  <2>. QED
    BY <2>1, <2>2, <2>3, <2>4, <2>5, <2>6, <2>7 DEF CommandInv
<1>3. CASE WaitLong
  <2>1. CommandType'
    BY <1>3, <1>w DEF CommandInv, CommandType, WaitLong, Shutdown, BeginDrain,
       commandVars, signalVars, serviceVars
  <2>2. ServiceAt'
    BY <1>3, <1>w DEF CommandInv, ServiceAt, Quiet, Returned, Early, Ending,
       WaitLong, Shutdown, BeginDrain, commandVars, signalVars, serviceVars
  <2>3. StartupInv'
    BY <1>3, <1>w DEF CommandInv, StartupInv, Early, WaitLong, Shutdown,
       BeginDrain, commandVars, signalVars, serviceVars
  <2>4. RecordInv'
    BY <1>3, <1>w, Zenon DEF CommandInv, RecordInv, Running, Ending, WaitLong, Shutdown,
       BeginDrain, commandVars, signalVars, serviceVars
  <2>5. ModeInv'
    BY <1>3, <1>w DEF CommandInv, ModeInv, WaitLong, Shutdown, BeginDrain,
       commandVars, signalVars, serviceVars
  <2>6. EndInv'
    BY <1>3, <1>w DEF CommandInv, EndInv, ExitTells, Ending, WaitLong, Shutdown,
       BeginDrain, commandVars, signalVars, serviceVars
  <2>7. (ready => step = "wait")'
    BY <1>3 DEF CommandInv, WaitLong, Shutdown, BeginDrain, commandVars,
       signalVars, serviceVars
  <2>. QED
    BY <2>1, <2>2, <2>3, <2>4, <2>5, <2>6, <2>7 DEF CommandInv
<1>4. CASE WaitOneShot
  <2>1. CommandType'
    BY <1>4, <1>w DEF CommandInv, CommandType, WaitOneShot, Shutdown, BeginDrain,
       commandVars, signalVars, serviceVars
  <2>2. ServiceAt'
    BY <1>4, <1>w DEF CommandInv, ServiceAt, Quiet, Returned, Early, Ending,
       WaitOneShot, Shutdown, BeginDrain, commandVars, signalVars, serviceVars
  <2>3. StartupInv'
    BY <1>4, <1>w DEF CommandInv, StartupInv, Early, WaitOneShot, Shutdown,
       BeginDrain, commandVars, signalVars, serviceVars
  <2>4. RecordInv'
    BY <1>4, <1>w DEF CommandInv, RecordInv, Running, Ending, WaitOneShot, Shutdown,
       BeginDrain, commandVars, signalVars, serviceVars
  <2>5. ModeInv'
    <3>1. TaskResult' = TaskResult /\ Returned("one-shot")' = Returned("one-shot")
      BY <1>4, Zenon DEF WaitOneShot, TaskResult, Returned
    <3>. QED
      BY <1>4, <1>w, <3>1 DEF ModeInv, WaitOneShot, Shutdown, BeginDrain
  <2>6. EndInv'
    BY <1>4, <1>w DEF CommandInv, EndInv, ExitTells, Ending, WaitOneShot, Shutdown,
       BeginDrain, commandVars, signalVars, serviceVars
  <2>7. (ready => step = "wait")'
    BY <1>4 DEF CommandInv, WaitOneShot, Shutdown, BeginDrain, commandVars,
       signalVars, serviceVars
  <2>. QED
    BY <2>1, <2>2, <2>3, <2>4, <2>5, <2>6, <2>7 DEF CommandInv
<1>5. CASE Escalate
  <2>1. CommandType'
    BY <1>5, <1>w DEF CommandInv, CommandType, Escalate, commandVars, signalVars,
       serviceVars
  <2>2. ServiceAt'
    BY <1>5, <1>w DEF CommandInv, ServiceAt, Quiet, Returned, Early, Ending,
       Escalate, commandVars, signalVars, serviceVars
  <2>3. StartupInv'
    BY <1>5, <1>w DEF CommandInv, StartupInv, Early, Escalate, commandVars,
       signalVars, serviceVars
  <2>4. RecordInv'
    BY <1>5, <1>w DEF CommandInv, RecordInv, Running, Ending, Escalate, commandVars,
       signalVars, serviceVars
  <2>5. ModeInv'
    BY <1>5, <1>w DEF CommandInv, ModeInv, Returned, TaskResult, Escalate,
       commandVars, signalVars, serviceVars
  <2>6. EndInv'
    BY <1>5, <1>w DEF CommandInv, EndInv, ExitTells, Ending, Escalate, commandVars,
       signalVars, serviceVars
  <2>7. (ready => step = "wait")'
    BY <1>5 DEF CommandInv, Escalate, commandVars, signalVars, serviceVars
  <2>. QED
    BY <2>1, <2>2, <2>3, <2>4, <2>5, <2>6, <2>7 DEF CommandInv
<1>. QED
  BY <1>1, <1>2, <1>3, <1>4, <1>5

\* What TaskResult is, by the state of the one-shot task.
LEMMA TaskResultIs ==
  /\ task["one-shot"] = "failed" => TaskResult = {"task"}
  /\ task["one-shot"] = "canceled" => TaskResult = {"canceled"}
  /\ task["one-shot"] \notin {"failed", "canceled"} => TaskResult = {}
  BY Zenon DEF TaskResult

\* What run returns after a shutdown with errors r: they are joined to an earlier error, and
\* without one the result of a canceled one-shot task counts only when there are none.
LEMMA AfterShutdownIs ==
  ASSUME NEW r
  PROVE  /\ mode \in {"failure", "result"} => AfterShutdown(r) = errs \cup r
         /\ mode = "canceled" =>
              /\ r # {} => AfterShutdown(r) = r
              /\ TaskResult = {"task"} => AfterShutdown({}) = {"task"}
         /\ mode = "long-running" /\ r # {} => r \subseteq AfterShutdown(r)
<1>1. mode \in {"failure", "result"} => AfterShutdown(r) = errs \cup r
  BY Zenon DEF AfterShutdown
<1>2. mode = "canceled" /\ r # {} => AfterShutdown(r) = r
  BY Zenon DEF AfterShutdown
<1>3. mode = "canceled" /\ TaskResult = {"task"} => AfterShutdown({}) = {"task"}
  BY Zenon DEF AfterShutdown
<1>4. mode = "long-running" /\ r # {} => r \subseteq AfterShutdown(r)
  BY Zenon DEF AfterShutdown
<1>. QED
  BY <1>1, <1>2, <1>3, <1>4

\* A failure that Shutdown did not retain is that of a one-shot task.
LEMMA StoppedTells ==
  ASSUME PlainTasks, CommandInv, step \in {"join", "escalated"}, service = "stopped",
         retained = {}, happened # {}
  PROVE  ~Long /\ task["one-shot"] = "failed"
<1>1. Quiet
  BY DEF CommandInv, ServiceAt
<1>2. "task" \in happened
  BY <1>1 DEF CommandInv, RecordInv, Running, Ending, Quiet
<1>3. PICK t \in {"http", "one-shot"} \cap Work : task[t] = "failed"
  BY <1>2 DEF CommandInv, RecordInv, Running
<1>4. t = "one-shot"
  BY <1>1, <1>3 DEF Quiet, Returned
<1>. QED
  BY <1>3, <1>4 DEF PlainTasks, Work

\* The error that Shutdown leaves tells of every failure.
LEMMA ShutdownTells ==
  ASSUME PlainTasks, CommandInv, ShutdownReturns
  PROVE  EndInv'
<1>1. /\ step \in {"join", "escalated"} /\ step' = "final"
      /\ UNCHANGED <<conf, started, management, task, service, mode, rt>>
  BY DEF ShutdownReturns, serviceVars
<1>2. happened \subseteq {"management", "task", "stop", "deadline"}
  BY <1>1 DEF CommandInv, RecordInv, Running
<1>3. mode \in {"failure", "result", "canceled", "long-running"}
  BY <1>1 DEF CommandInv, ModeInv
<1>4. CASE service = "stopped"
  <2>. DEFINE r == ClassifyShutdown(IF retained = {} THEN {} ELSE {"shutdown"} \cup retained)
  <2>1. Quiet' /\ happened' = happened /\ errs' = AfterShutdown(r)
    BY <1>1, <1>4, QuietFrame DEF CommandInv, ServiceAt, ShutdownReturns
  <2>2. CASE retained # {}
    <3>1. "shutdown" \in r
      BY <2>2 DEF ClassifyShutdown
    <3>. HIDE DEF r
    <3>2. "shutdown" \in errs'
      BY <1>3, <2>1, <3>1, AfterShutdownIs
    <3>. QED
      BY <1>1, <1>2, <2>1, <3>2 DEF EndInv, ExitTells, CanceledOnly
  <2>3. CASE retained = {}
    <3>1. errs' = AfterShutdown({})
      BY <2>1, <2>3 DEF ClassifyShutdown
    <3>2. happened # {} => errs' \in {{"task"}, {"state"}}
      BY <1>1, <1>3, <1>4, <2>3, <3>1, StoppedTells, TaskResultIs,
         AfterShutdownIs DEF CommandInv, ModeInv
    <3>. QED
      BY <1>1, <1>2, <2>1, <3>2 DEF EndInv, ExitTells, CanceledOnly
  <2>. QED
    BY <2>2, <2>3
<1>5. CASE service # "stopped"
  <2>1. ClassifyShutdown({"deadline"}) = {"deadline", "timeout"}
    BY DEF ClassifyShutdown
  <2>2. happened' = happened \cup {"timeout"} /\ errs' = AfterShutdown({"deadline", "timeout"})
    BY <1>5, <2>1 DEF ShutdownReturns
  <2>3. "timeout" \in errs'
    BY <1>3, <2>2, AfterShutdownIs
  <2>. QED
    BY <1>1, <1>2, <2>2, <2>3 DEF EndInv, ExitTells, CanceledOnly
<1>. QED
  BY <1>4, <1>5

\* The exit code follows the error.
LEMMA ExitFollows ==
  /\ Exit(errs) = 0 => errs = {} \/ CanceledOnly(errs)
  /\ "timeout" \in errs => Exit(errs) = 124
  /\ "signal" \in errs => Exit(errs) \in {130, 70, 124}
  BY DEF Exit, ExitCode, CanceledOnly

\* The handler returns: Shutdown has ended, and the exit code is chosen.
LEMMA EndSteps ==
  ASSUME PlainTasks, CommandInv, ShutdownReturns \/ HandlerReturns \/ Exits
  PROVE  CommandInv'
<1>1. /\ UNCHANGED <<conf, mode, ready, started, management, task, service>>
      /\ step \in {"join", "escalated", "final", "stop"} /\ step' \in Ending
  BY DEF ShutdownReturns, HandlerReturns, Exits, serviceVars, Ending
<1>2. Quiet' = Quiet /\ Work' = Work
  BY <1>1, QuietFrame, WorkFrame
<1>3. CommandType' /\ ServiceAt'
  BY <1>1, <1>2 DEF CommandInv, CommandType, Settings, ServiceAt, Early, Ending
<1>4. StartupInv' /\ RecordInv' /\ ModeInv' /\ (ready => step = "wait")'
  BY <1>1 DEF CommandInv, StartupInv, RecordInv, ModeInv, Early, Running, Ending
<1>5. EndInv'
  <2>1. CASE ShutdownReturns
    BY <2>1, ShutdownTells
  <2>2. CASE HandlerReturns
    <3>. DEFINE s == Classes(ctx) \cap {"signal", "closed"}
    <3>1. /\ step = "final" /\ step' = "stop" /\ errs' = errs \cup s /\ happened' = happened \cup s
          /\ s \subseteq {"signal", "closed"}
      BY <2>2 DEF HandlerReturns, PreserveSignal
    <3>. HIDE DEF s
    <3>. QED
      BY <1>2, <3>1 DEF CommandInv, EndInv, ExitTells, CanceledOnly, Ending
  <2>3. CASE Exits
    <3>1. /\ step = "stop" /\ step' = "exited" /\ exit' = Exit(errs)
          /\ UNCHANGED <<errs, happened>>
      BY <2>3 DEF Exits
    <3>2. /\ errs \cap {"timeout", "rollback"} = {} => Quiet
          /\ happened # {} => errs # {} /\ ~CanceledOnly(errs)
          /\ "timeout" \in happened => "timeout" \in errs
          /\ "signal" \in happened => "signal" \in errs
      BY <3>1 DEF CommandInv, EndInv, Ending
    <3>3. exit' = 0 => happened = {} /\ errs \cap {"timeout", "rollback"} = {}
      BY <3>1, <3>2, ExitFollows DEF CanceledOnly
    <3>. QED
      BY <1>2, <3>1, <3>2, <3>3, ExitFollows DEF EndInv, ExitTells
  <2>. QED
    BY <2>1, <2>2, <2>3
<1>. QED
  BY <1>3, <1>4, <1>5 DEF CommandInv

\* While the command owns something, its error tells of a late cleanup, if it
\* has one already, and what else happens cannot belie it.
LEMMA OwnerFrame ==
  ASSUME CommandInv, ~Quiet, UNCHANGED <<conf, step, mode, errs, exit, ready>>,
         happened' \subseteq happened \cup {"task", "management", "stop", "deadline"}
  PROVE  /\ EndInv' /\ (ready => step = "wait")'
         /\ Work' = Work /\ Long' = Long
         /\ service \notin {"new", "stopped"} /\ step \notin Early
<1>1. step \in Ending => errs \cap {"timeout", "rollback"} # {}
  BY DEF CommandInv, EndInv
<1>2. EndInv'
  BY <1>1 DEF CommandInv, EndInv, ExitTells, CanceledOnly, Ending
<1>3. service \notin {"new", "stopped"} /\ step \notin Early
  BY DEF CommandInv, ServiceAt
<1>. QED
  BY <1>2, <1>3, WorkFrame DEF CommandInv

\* Task t has not returned, and no other task moves.
Moves(t) ==
    /\ t \in Work /\ ~Returned(t) /\ task[t] # "none"
    /\ \A u \in Work : u # t => task'[u] = task[u]

\* A task of the command, its business server or its one-shot handler goes on.
LEMMA TaskSteps ==
  ASSUME PlainTasks, CommandInv,
         (\E t \in Work : TaskReturns(t)) \/ ServerStops \/ ServerJoins \/ OneShotReturns
  PROVE  CommandInv'
<1>a. DOMAIN task = Work /\ "one-shot" \notin Tasks
  BY DEF CommandInv, CommandType, PlainTasks
<1>b. \E t : Moves(t)
  <2>1. ASSUME NEW t \in Work, TaskReturns(t)
        PROVE  Moves(t)
    BY <2>1, <1>a DEF Moves, TaskReturns, Returned, CommandInv, CommandType
  <2>2. CASE ServerStops
    <3>1. Moves("http")
      BY <2>2, <1>a DEF Moves, ServerStops, Returned, CommandInv, CommandType
    <3>. QED
      BY <3>1
  <2>3. CASE ServerJoins
    <3>1. Moves("http")
      BY <2>3, <1>a DEF Moves, ServerJoins, Returned, CommandInv, CommandType
    <3>. QED
      BY <3>1
  <2>4. CASE OneShotReturns
    <3>1. Moves("one-shot")
      BY <2>4, <1>a DEF Moves, OneShotReturns, Returned, CommandInv, CommandType
    <3>. QED
      BY <3>1
  <2>. QED
    BY <2>1, <2>2, <2>3, <2>4
<1>c. ~Quiet
  BY <1>b DEF Moves, Quiet
<1>1. /\ UNCHANGED <<conf, step, mode, errs, exit, ready, started, management>>
      /\ happened' \subseteq happened \cup {"task"} /\ retained \subseteq retained'
  BY DEF TaskReturns, ServerStops, ServerJoins, OneShotReturns, commandVars
<1>d. service' = service \/ (service \in {"ready", "draining"} /\ service' = "draining")
  BY DEF TaskReturns, ServerStops, ServerJoins, OneShotReturns, CancelService,
     Drain
<1>2. /\ EndInv' /\ (ready => step = "wait")' /\ Work' = Work /\ Long' = Long
      /\ service \notin {"new", "stopped"} /\ step \notin Early
  BY <1>c, <1>1, OwnerFrame
<1>3. CommandType'
  BY <1>1, <1>2, ZenonT(30) DEF CommandInv, CommandType, Settings, TaskReturns, ServerStops,
     ServerJoins,
    OneShotReturns
<1>4. ServiceAt'
  BY <1>1, <1>2, <1>d DEF CommandInv, ServiceAt, Early, Ending
<1>5. StartupInv'
  BY <1>1, <1>2, <1>b, Zenon DEF CommandInv, StartupInv, Moves
<1>6. RecordInv'
  <2>. DEFINE Failed == \E u \in {"http", "one-shot"} \cap Work : task[u] = "failed"
  <2>1. step \in Running /\ "task" \in happened' => retained' # {} \/ Failed'
    <3>1. ASSUME NEW t \in Work, TaskReturns(t), step \in Running, "task" \in happened'
          PROVE  retained' # {} \/ Failed'
      BY <3>1, <1>a, <1>2 DEF CommandInv, CommandType, RecordInv, TaskReturns
    <3>2. CASE ServerStops
      BY <3>2, <1>a, <1>2 DEF CommandInv, CommandType, RecordInv, ServerStops
    <3>3. CASE ServerJoins
      BY <3>3, <1>a, <1>2 DEF CommandInv, CommandType, RecordInv, ServerJoins
    <3>4. CASE OneShotReturns
      BY <3>4, <1>a, <1>2 DEF CommandInv, CommandType, RecordInv, OneShotReturns
    <3>. QED
      BY <3>1, <3>2, <3>3, <3>4
  <2>. QED
    BY <1>1, <1>2, <2>1 DEF CommandInv, RecordInv
<1>7. ModeInv'
  <2>1. step \in {"join", "escalated"} => mode # "result"
    BY <1>b DEF CommandInv, ModeInv, Moves, Work
  <2>. QED
    BY <1>1, <1>2, <2>1 DEF CommandInv, ModeInv
<1>. QED
  BY <1>2, <1>3, <1>4, <1>5, <1>6, <1>7 DEF CommandInv

\* The management server fails, or the components are stopped.
LEMMA ComponentSteps ==
  ASSUME CommandInv, ManagementFails \/ StopComponents
  PROVE  CommandInv'
<1>a. ~Quiet
  BY DEF ManagementFails, StopComponents, Quiet, CommandInv, CommandType
<1>1. /\ UNCHANGED <<conf, step, mode, errs, exit, ready, task>>
      /\ happened' \subseteq happened \cup {"management", "stop", "deadline"}
  BY DEF ManagementFails, StopComponents, commandVars
<1>2. /\ EndInv' /\ (ready => step = "wait")' /\ Work' = Work /\ Long' = Long
      /\ service \notin {"new", "stopped"} /\ step \notin Early
  BY <1>a, <1>1, OwnerFrame
<1>3. ModeInv'
  BY <1>1, <1>2, Zenon DEF CommandInv, ModeInv, Returned, TaskResult
<1>4. CASE ManagementFails
  <2>1. CommandType' /\ ServiceAt'
    BY <1>1, <1>2, <1>4, Zenon DEF CommandInv, CommandType, Settings, ServiceAt, Early, Ending,
       ManagementFails, Drain
  <2>2. StartupInv'
    <3>1. /\ UNCHANGED <<started, retained>>
          /\ happened' = happened \/ (happened' = happened \cup {"management"} /\ started > 0)
      BY <1>4, Zenon DEF ManagementFails
    <3>2. StartupInv
      BY DEF CommandInv
    <3>. QED
      BY <1>1, <1>2, <3>1, <3>2 DEF StartupInv
  <2>3. RecordInv'
    BY <1>1, <1>2, <1>4 DEF CommandInv, RecordInv, ManagementFails
  <2>. QED
    BY <1>2, <1>3, <2>1, <2>2, <2>3 DEF CommandInv
<1>5. CASE StopComponents
  <2>1. Quiet'
    BY <1>1, <1>2, <1>5 DEF StopComponents, Quiet, Returned
  <2>2. CommandType' /\ ServiceAt' /\ StartupInv'
    BY <1>1, <1>2, <1>5, <2>1, Zenon DEF CommandInv, CommandType, Settings, ServiceAt,
       StartupInv, Early, Ending, StopComponents
  <2>3. PICK all \in SUBSET {"stop", "deadline"} :
            /\ retained' = retained \cup all /\ happened' = happened \cup all
            /\ management = "failed" => all # {}
    BY <1>5, ZenonT(30) DEF StopComponents
  <2>4. management \notin {"failing", "canceling"}
    BY <1>5 DEF StopComponents, ManagementStopped
  <2>5. RecordInv'
    BY <1>1, <1>2, <2>3, <2>4 DEF CommandInv, RecordInv
  <2>. QED
    BY <1>2, <1>3, <2>2, <2>5 DEF CommandInv
<1>. QED
  BY <1>4, <1>5

\* A stuttering step changes nothing.
LEMMA NextCommand ==
  ASSUME PlainTasks, CommandInv, [ExecuteNext]_executeVars
  PROVE  CommandInv'
<1>1. CASE UNCHANGED executeVars
  BY <1>1, SignalFrame DEF executeVars, commandVars, signalVars, serviceVars
<1>. QED
  BY <1>1, WatchSteps, StartupSteps, RunSteps, EndSteps, TaskSteps, ComponentSteps
    DEF ExecuteNext, Command

\* The invariant of a command is inductive.
THEOREM CommandInductive == ExecuteSpec => []CommandInv
  BY InitCommand, NextCommand, PlatformAssumption, PTL DEF ExecuteSpec

\* A command exits with 0 only if nothing failed and no signal had canceled it,
\* and with 124 after a late shutdown; a signal shows unless a failed or late
\* shutdown does.
THEOREM ExitCodesTell == ExecuteSpec => []ExitTells
<1>1. CommandInv => ExitTells
  BY DEF CommandInv, EndInv
<1>. QED
  BY <1>1, CommandInductive, PTL

\* Once its service fails to start or is shut down, its admission is closed.
AdmissionInv ==
    step \in {"rollback", "join", "escalated"} \cup Ending /\ service # "new" => admission

\* No step of another goroutine begins the shutdown, or opens the admission.
LEMMA AdmissionFrame ==
  ASSUME CommandInv, AdmissionInv, UNCHANGED step,
         service' = "new" <=> service = "new", admission' = admission \/ admission' = TRUE
  PROVE  AdmissionInv'
  BY DEF AdmissionInv

\* Every step keeps the admission closed.
LEMMA NextAdmission ==
  ASSUME CommandInv, AdmissionInv, [ExecuteNext]_executeVars
  PROVE  AdmissionInv'
<1>a. /\ step \in Early => service = "new"
      /\ step \in {"go", "wait"} => service \in {"ready", "draining"}
  BY DEF CommandInv, ServiceAt
<1>1. CASE \/ SendSignal \/ CloseSignals \/ ParentCancels \/ Watch \/ ManagementFails
           \/ StopComponents \/ UNCHANGED executeVars
  <2>1. /\ UNCHANGED step
        /\ service' = "new" <=> service = "new"
        /\ admission' = admission \/ admission' = TRUE
    BY <1>1, Zenon DEF SendSignal, CloseSignals, ParentCancels, Watch, WatchReceives, WatchDrains,
       WatchCancels, WatchGoesOn, WatchStops, Drain, ManagementFails, StopComponents,
       executeVars, commandVars, serviceVars
  <2>. QED
    BY <2>1, AdmissionFrame
<1>2. CASE (\E t \in Work : TaskReturns(t)) \/ ServerStops \/ ServerJoins \/ OneShotReturns
  <2>1. /\ UNCHANGED step
        /\ service' = "new" <=> service = "new"
        /\ admission' = admission \/ admission' = TRUE
    BY <1>2, Zenon DEF TaskReturns, ServerStops, ServerJoins, OneShotReturns, CancelService, Drain,
       commandVars
  <2>. QED
    BY <2>1, AdmissionFrame
<1>3. CASE Compile \/ Construct \/ Prepare
  BY <1>a, <1>3 DEF AdmissionInv, Compile, Construct, CreateFails, Prepare, Fail, Early, serviceVars
<1>4. CASE Register \/ StartBegins \/ StartComponent \/ StartCompletes \/ Activate
  BY <1>4 DEF AdmissionInv, Ending, Register, StartBegins, StartComponent, StartCompletes, Activate,
     commandVars
<1>5. CASE StartFails \/ WaitLong \/ WaitOneShot
  BY <1>5 DEF AdmissionInv, StartFails, WaitLong, WaitOneShot, Shutdown
<1>6. CASE \E t \in Work : Go(t)
  BY <1>6 DEF AdmissionInv, Ending, Go, GoFails, Shutdown
<1>7. CASE Rollback
  BY <1>7 DEF AdmissionInv, Rollback, Fail, CommandInv, ServiceAt
<1>8. CASE ShutdownReturns \/ Escalate \/ HandlerReturns \/ Exits
  BY <1>8 DEF AdmissionInv, Ending, ShutdownReturns, Escalate, HandlerReturns, Exits, serviceVars
<1>. QED
  BY <1>1, <1>2, <1>3, <1>4, <1>5, <1>6, <1>7, <1>8 DEF ExecuteNext, Command

\* A command that exits has retracted its readiness, closed the admission of its
\* service and left no task, server or component behind, unless its error says
\* that the cleanup was late.
THEOREM OwnersAreReleased == ExecuteSpec => []OwnersReleased
<1>1. ExecuteInit => AdmissionInv
  BY DEF ExecuteInit, AdmissionInv
<1>2. CommandInv /\ AdmissionInv /\ [ExecuteNext]_executeVars => AdmissionInv'
  BY NextAdmission
<1>3. CommandInv /\ AdmissionInv => OwnersReleased
  BY DEF CommandInv, EndInv, AdmissionInv, Ending, Quiet, OwnersReleased
<1>. QED
  BY <1>1, <1>2, <1>3, CommandInductive, PTL DEF ExecuteSpec

=============================================================================
