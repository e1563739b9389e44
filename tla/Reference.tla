----------------------------- MODULE Reference -----------------------------
(***************************************************************************)
(* Run of integration/reference-durability, composed with the effects of   *)
(* Durability: one process makes every durable effect of the campaign on a *)
(* database and a stream of its own, abandons the task it claimed, and     *)
(* recovers it with a queue that is a component of a service.  The main    *)
(* goroutine of Run, the worker of the queue and the end of the context    *)
(* interleave.  The queue and its service adapter are libraries.           *)
(***************************************************************************)
EXTENDS Durability

CONSTANT Runner   \* the member of Preparers that Run is

ASSUME RunnerAssumption == Runner \in Preparers

VARIABLES
    alone,     \* Run has the dedicated state it requires; else the campaign runs
    ended,     \* the context of Run has ended
    released,  \* releaseHandler is closed
    queue,     \* "none", "open", "closed" to intake, "down"
    handler,   \* "none", "rejected", "running", "returned", "acked" or "failed"
    calls,     \* shutdownCalls of the tracked worker
    whileBusy  \* its shutdownWhileBusy

runVars == <<alone, ended, released, queue, handler, calls, whileBusy>>
allVars == <<vars, runVars>>

RunInit ==
    /\ Init /\ alone \in BOOLEAN
    /\ ended = FALSE /\ released = FALSE
    /\ queue = "none" /\ handler = "none" /\ calls = 0 /\ whileBusy = FALSE

At(l) == alone /\ pc[Runner] = l

\* Run goes on if one of its checks succeeds and reports the failure if not.
Check(holds, l) == Goto(Runner, IF holds THEN l ELSE "refuted")

-----------------------------------------------------------------------------
(* The durable effects.                                                    *)

RunAcquires ==
    /\ At("start") /\ Acquire(Runner)
    /\ Check(Outcome = "acquired", "staging")
    /\ UNCHANGED <<rows, outbox, stream, file, batch, held, faults, runVars>>

\* stageCommand succeeds for the owner of the record, its transaction is rolled
\* back, and the record is still acquired with nothing else to be seen.
RunRollsBack ==
    /\ At("staging")
    /\ Check(/\ Committable(Runner)
             /\ record.state = "acquired" /\ rows = 0 /\ \A e \in Preparers : outbox[e] = "none",
             "acquired")
    /\ UNCHANGED <<database, stream, file, batch, held, faults, runVars>>

RunCommits == alone /\ Commit(Runner) /\ UNCHANGED runVars

RunRelays ==
    /\ alone
    /\ RelayClaims(Runner) \/ RelayPublishes(Runner) \/ RelayMarks(Runner)
    /\ UNCHANGED runVars

RunClaims == alone /\ PrepareClaims(Runner) /\ UNCHANGED runVars

\* The first worker is shut down without an acknowledgement.
RunAbandons ==
    /\ At("prepared") /\ Goto(Runner, "abandoned")
    /\ UNCHANGED <<database, stream, file, batch, held, faults, runVars>>

-----------------------------------------------------------------------------
(* The recovery service.                                                   *)

Busy == handler \in {"running", "returned"}

\* Start of a service whose parent has ended fails, and rolls back.
RunStarts ==
    /\ At("abandoned")
    /\ IF ended THEN Goto(Runner, "failing") /\ UNCHANGED queue
                ELSE Goto(Runner, "awaiting") /\ queue' = "open"
    /\ UNCHANGED <<database, stream, file, batch, held, faults, alone, ended, released, handler,
                   calls, whileBusy>>

\* handlerEntered is closed.
Entered == handler \notin {"none", "rejected"}

\* The queue requests a task as long as intake is open, also one that it had
\* before and whose handler failed.  The handler rejects a task that is not the
\* abandoned one; entered again it closes handlerEntered a second time, a panic
\* that the queue takes for one more failure.
QueueDelivers ==
    /\ alone /\ queue = "open" /\ ~Busy
    /\ \E i \in DOMAIN stream :
          /\ Claimable(i)
          /\ stream' = [stream EXCEPT ![i].state = "held", ![i].holder = Runner]
          /\ handler' = IF Entered THEN "failed"
                        ELSE IF stream[i].task = stream[held[Runner]].task THEN "running"
                        ELSE "rejected"
    /\ UNCHANGED <<database, file, batch, held, pc, faults, alone, ended, released, queue, calls,
                   whileBusy>>

\* The handler waits for its release or for the end of its context.
HandlerReturns ==
    /\ alone /\ handler = "running"
    /\ \/ released /\ handler' = "returned"
       \/ ended /\ handler' = "failed"
    /\ UNCHANGED <<vars, alone, ended, released, queue, calls, whileBusy>>

\* The queue acknowledges a task whose handler succeeded and tells its observer.
QueueAcks ==
    /\ alone /\ handler = "returned" /\ queue # "down"
    /\ \E i \in DOMAIN stream :
          /\ stream[i].task = stream[held[Runner]].task
          /\ stream' = [stream EXCEPT ![i].state = "acked"]
    /\ handler' = "acked"
    /\ UNCHANGED <<database, file, batch, held, pc, faults, alone, ended, released, queue, calls,
                   whileBusy>>

\* The handler is entered, and Drain closes the intake; or the context ends.
RunDrains ==
    /\ At("awaiting")
    /\ \/ Entered /\ queue' = "closed" /\ Goto(Runner, "drained")
       \/ ended /\ UNCHANGED queue /\ Goto(Runner, "failing")
    /\ UNCHANGED <<database, stream, file, batch, held, faults, alone, ended, released, handler,
                   calls, whileBusy>>

\* Late intake is refused, the worker is busy and not shut down, and nothing is
\* acknowledged; then the handler is released.
RunReleases ==
    /\ At("drained")
    /\ LET kept == queue = "closed" /\ Busy /\ calls = 0 /\ handler # "acked"
       IN  released' = kept /\ Check(kept, "released")
    /\ UNCHANGED <<database, stream, file, batch, held, faults, alone, ended, queue, handler, calls,
                   whileBusy>>

\* The acknowledgement is observed and the group has nothing pending; or the
\* context ends.
RunSettles ==
    /\ At("released")
    /\ \/ handler = "acked" /\ Check(Acknowledged, "settled")
       \/ ended /\ Goto(Runner, "failing")
    /\ UNCHANGED <<database, stream, file, batch, held, faults, runVars>>

\* Shutdown, which every return of Run after Start makes.  That the queue waits
\* for its handler before it shuts down the worker is the library's promise, and
\* assumed here.
Shutdown ==
    /\ alone /\ pc[Runner] \in {"settled", "failing", "refuted"}
    /\ queue \in {"open", "closed"} /\ ~Busy
    /\ queue' = "down" /\ calls' = calls + 1 /\ whileBusy' = Busy
    /\ UNCHANGED <<vars, alone, ended, released, handler>>

RunStops ==
    /\ At("settled") /\ queue = "down"
    /\ Check(~whileBusy /\ calls = 1, "stopped")
    /\ UNCHANGED <<database, stream, file, batch, held, faults, runVars>>

\* The repeated command is replayed, with one row and the envelope delivered.
RunReplays ==
    /\ At("stopped") /\ Acquire(Runner)
    /\ Check(Outcome = "replayed" /\ rows = 1 /\ outbox[Runner] = "delivered", "done")
    /\ UNCHANGED <<rows, outbox, stream, file, batch, held, faults, runVars>>

\* A Run that fails returns its error once the service is shut down.
RunFails ==
    /\ At("failing") /\ queue \in {"none", "down"} /\ Goto(Runner, "gone")
    /\ UNCHANGED <<database, stream, file, batch, held, faults, runVars>>

\* The process is killed, a dependency fails or a deadline passes.
RunDies ==
    /\ alone /\ pc[Runner] \notin {"start", "done", "refuted", "gone"}
    /\ Goto(Runner, "gone")
    /\ UNCHANGED <<database, stream, file, batch, held, faults, runVars>>

ContextEnds ==
    /\ alone /\ ~ended /\ ended' = TRUE
    /\ UNCHANGED <<vars, alone, released, queue, handler, calls, whileBusy>>

-----------------------------------------------------------------------------

Run ==
    \/ RunAcquires \/ RunRollsBack \/ RunCommits \/ RunRelays \/ RunClaims \/ RunAbandons
    \/ RunStarts \/ RunDrains \/ RunReleases \/ RunSettles \/ RunStops \/ RunReplays \/ RunFails

Queue == QueueDelivers \/ HandlerReturns \/ QueueAcks \/ Shutdown

RunNext ==
    \/ ~alone /\ Next /\ UNCHANGED runVars
    \/ alone /\ (LeaseExpires \/ ClaimIdles) /\ UNCHANGED runVars
    \/ Run \/ RunDies \/ Queue \/ ContextEnds

RunSpec == RunInit /\ [][RunNext]_allVars

\* Time passes and recovery is repeated.  Recover acknowledges a task as soon as
\* it has claimed it, so its claim is not always idle by then.  The goroutines
\* of Run go on; neither its death nor the end of its context has to come.
RunFairSpec ==
    /\ RunSpec /\ WF_allVars(ClaimIdles /\ UNCHANGED runVars)
    /\ \A r \in Recoverers :
           /\ WF_allVars(~alone /\ Recover(r) /\ UNCHANGED runVars)
           /\ SF_allVars(~alone /\ Ack(r) /\ pc'[r] = "done" /\ UNCHANGED runVars)
    /\ WF_allVars(Run) /\ WF_allVars(QueueDelivers) /\ WF_allVars(HandlerReturns)
    /\ WF_allVars(QueueAcks) /\ WF_allVars(Shutdown)

-----------------------------------------------------------------------------
(* Properties.                                                             *)

\* What the programs of the campaign report is true.  A Recover or a Run that
\* returned success is final, whoever claimed the task in between.  Run refutes
\* none of its own checks while its context lives: the rolled back transaction
\* is not seen, Drain keeps the admitted handler, however often its task was
\* delivered, and nothing is acknowledged before the application is done.
ReportsTrue ==
    /\ RecoveredIsFinal
    /\ At("done") => Acknowledged /\ Len(stream) = 1 /\ calls = 1
    /\ At("refuted") => ended

\* A task whose expectation was published is acknowledged in the end although
\* its consumer and the first recoverers die, and a Run that made its effects
\* returns: its main goroutine, the handler and the queue do not wait for each
\* other for ever, whether or not its context ends.
CampaignEnds ==
    /\ TaskRecovered
    /\ At("abandoned") ~> (pc[Runner] \in {"done", "gone", "refuted"})

=============================================================================
