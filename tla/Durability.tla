----------------------------- MODULE Durability -----------------------------
(***************************************************************************)
(* The recovery campaign of integration/reference-durability: a process    *)
(* commits a command with its idempotency record and outbox intent, relays *)
(* it to a stream, claims the task and is killed; other processes recover  *)
(* it.  Processes are killed, or fail because a dependency does, between   *)
(* any two durable effects; leases expire and claims become idle.          *)
(*                                                                         *)
(* The idempotency store, the outbox with its relay and the stream are     *)
(* libraries: what is modelled is the contract the campaign uses.  A       *)
(* transaction that is not committed changes nothing, so that a commit     *)
(* whose answer is lost is a commit followed by the end of the process.    *)
(***************************************************************************)
EXTENDS Naturals, Sequences, FiniteSets

CONSTANTS
    Preparers,    \* executions of PrepareRecovery; each builds its own envelope
    Recoverers,   \* processes that run Recover until it succeeds
    None,
    MaxFaults     \* bound on the recoverers' failures and kills

ASSUME DurabilityAssumption == Preparers \cap Recoverers = {} /\ None \notin Preparers \cup Recoverers

VARIABLES
    record,       \* [state, owner, leased]: the idempotency record of the command
    rows,         \* number of rows in reference_commands
    outbox,       \* state of each envelope
    stream,       \* the tasks appended: [task, state, holder]
    file,         \* the expectation that was published, None at first
    batch,        \* the envelopes that a relay has claimed
    held,         \* the index of the task that a process has claimed, 0 if none
    pc, faults

vars == <<record, rows, outbox, stream, file, batch, held, pc, faults>>
database == <<record, rows, outbox>>

Process == Preparers \cup Recoverers

Init ==
    /\ record = [state |-> "none", owner |-> None, leased |-> FALSE]
    /\ rows = 0 /\ outbox = [e \in Preparers |-> "none"]
    /\ stream = <<>> /\ file = None
    /\ batch = [p \in Preparers |-> {}] /\ held = [p \in Process |-> 0]
    /\ pc = [p \in Process |-> "start"] /\ faults = 0

Goto(p, l) == pc' = [pc EXCEPT ![p] = l]

-----------------------------------------------------------------------------
(* The libraries.                                                          *)

\* Store.Acquire replays a completed command, and acquires one that nobody
\* holds or whose lease has expired.
Outcome ==
    CASE record.state = "completed" -> "replayed"
      [] record.state = "acquired" /\ record.leased -> "in-progress"
      [] OTHER -> "acquired"

Acquire(p) ==
    record' = IF Outcome = "acquired"
              THEN [state |-> "acquired", owner |-> p, leased |-> TRUE] ELSE record

LeaseExpires ==
    /\ record.leased /\ record.state = "acquired"
    /\ record' = [record EXCEPT !.leased = FALSE]
    /\ UNCHANGED <<rows, outbox, stream, file, batch, held, pc, faults>>

\* Mutant: abandoned tasks are not reclaimed.
ClaimableNew(i) == stream[i].state = "new"

\* A worker gets a task nobody has received, or one whose consumer has been idle
\* for longer than the reclaim interval.
Claimable(i) == stream[i].state \in {"new", "idle"}

Request(p) ==
    \E i \in DOMAIN stream :
        /\ Claimable(i)
        /\ stream' = [stream EXCEPT ![i].state = "held", ![i].holder = p]
        /\ held' = [held EXCEPT ![p] = i]

ClaimIdles ==
    \E i \in DOMAIN stream :
        /\ stream[i].state = "held"
        /\ stream' = [stream EXCEPT ![i].state = "idle"]
        /\ UNCHANGED <<database, file, batch, held, pc, faults>>

-----------------------------------------------------------------------------
(* PrepareRecovery, and the recovery-probe that runs it.                   *)

\* Only an acquired command is prepared.
PrepareAcquires(p) ==
    /\ pc[p] = "start" /\ p \in Preparers
    /\ Acquire(p)
    /\ Goto(p, IF Outcome = "acquired" THEN "acquired" ELSE "gone")
    /\ UNCHANGED <<rows, outbox, stream, file, batch, held, faults>>

\* The insert finds no row and the completion is still its owner's.
Committable(p) == rows = 0 /\ record.state = "acquired" /\ record.owner = p

\* Mutant: the completion is not part of the transaction.
CommitIncomplete(p) ==
    /\ pc[p] = "acquired"
    /\ IF Committable(p)
       THEN rows' = rows + 1 /\ outbox' = [outbox EXCEPT ![p] = "pending"] /\ Goto(p, "committed")
       ELSE UNCHANGED <<rows, outbox>> /\ Goto(p, "gone")
    /\ UNCHANGED <<record, stream, file, batch, held, faults>>

\* One transaction inserts the row and the envelope and completes the record.
Commit(p) ==
    /\ pc[p] = "acquired"
    /\ IF Committable(p)
       THEN /\ rows' = rows + 1
            /\ outbox' = [outbox EXCEPT ![p] = "pending"]
            /\ record' = [record EXCEPT !.state = "completed", !.leased = FALSE]
            /\ Goto(p, "committed")
       ELSE UNCHANGED database /\ Goto(p, "gone")
    /\ UNCHANGED <<stream, file, batch, held, faults>>

\* RunOnce claims the envelopes that are due.
RelayClaims(p) ==
    /\ pc[p] = "committed"
    /\ LET due == {e \in Preparers : outbox[e] = "pending"}
       IN  /\ batch' = [batch EXCEPT ![p] = due]
           /\ outbox' = [e \in Preparers |-> IF e \in due THEN "claimed" ELSE outbox[e]]
    /\ Goto(p, "claimed")
    /\ UNCHANGED <<record, rows, stream, file, held, faults>>

\* It appends a task to the stream for each of them ...
RelayPublishes(p) ==
    /\ pc[p] = "claimed"
    /\ \E order \in {s \in [1..Cardinality(batch[p]) -> batch[p]] :
                        \A i, j \in DOMAIN s : i # j => s[i] # s[j]} :
          stream' = stream \o
              [i \in DOMAIN order |-> [task |-> order[i], state |-> "new", holder |-> None]]
    /\ Goto(p, "published")
    /\ UNCHANGED <<database, file, batch, held, faults>>

\* ... and marks them delivered; exactly one is expected.
RelayMarks(p) ==
    /\ pc[p] = "published"
    /\ outbox' = [e \in Preparers |-> IF e \in batch[p] THEN "delivered" ELSE outbox[e]]
    /\ Goto(p, IF Cardinality(batch[p]) = 1 THEN "relayed" ELSE "gone")
    /\ UNCHANGED <<record, rows, stream, file, batch, held, faults>>

\* The worker claims the task and keeps it.
PrepareClaims(p) ==
    /\ pc[p] = "relayed"
    /\ Request(p)
    /\ Goto(p, "prepared")
    /\ UNCHANGED <<database, file, batch, faults>>

\* validateRecoveryExpectation: the task of the envelope that was committed.
ValidExpectation(envelope, task) == envelope = task

\* The expectation is written to a temporary file that is synced and renamed.
PublishExpectation(p) ==
    /\ pc[p] = "prepared"
    /\ IF ValidExpectation(p, stream[held[p]].task)
       THEN file' = p /\ Goto(p, "holding")
       ELSE UNCHANGED file /\ Goto(p, "gone")
    /\ UNCHANGED <<database, stream, batch, held, faults>>

\* A signal ends the session: its clients are closed, durable state stays.
CloseSession(p) ==
    /\ pc[p] = "holding" /\ Goto(p, "gone")
    /\ UNCHANGED <<database, stream, file, batch, held, faults>>

\* The process is killed, or a dependency fails and it returns the error.
PrepareDies(p) ==
    /\ p \in Preparers /\ pc[p] \notin {"start", "gone"}
    /\ Goto(p, "gone")
    /\ UNCHANGED <<database, stream, file, batch, held, faults>>

-----------------------------------------------------------------------------
(* Recover.                                                                *)

\* Recover has an expectation and finds the command replayed; an Acquire that
\* acquires it keeps its lease although Recover fails.
RecoverInspects(r) ==
    /\ pc[r] = "start" /\ r \in Recoverers /\ file # None
    /\ Acquire(r)
    /\ Goto(r, IF Outcome = "replayed" THEN "inspected" ELSE "start")
    /\ UNCHANGED <<rows, outbox, stream, file, batch, held, faults>>

\* It finds one row, and the expected envelope delivered.
RecoverChecks(r) ==
    /\ pc[r] = "inspected"
    /\ Goto(r, IF rows = 1 /\ outbox[file] = "delivered" THEN "checked" ELSE "start")
    /\ UNCHANGED <<database, stream, file, batch, held, faults>>

\* It claims a task, which must be the expected one, or finds none.
RecoverClaims(r) ==
    /\ pc[r] = "checked"
    /\ \/ Request(r) /\ Goto(r, IF stream[held'[r]].task = file THEN "claimed" ELSE "start")
       \/ /\ \A i \in DOMAIN stream : ~Claimable(i)
          /\ Goto(r, "start") /\ UNCHANGED <<stream, held>>
    /\ UNCHANGED <<database, file, batch, faults>>

\* Mutant: the error of the acknowledgement is ignored.
AckUnchecked(r) ==
    /\ pc[r] = "claimed" /\ r \in Recoverers
    /\ Goto(r, "done")
    /\ stream' \in {stream, [stream EXCEPT ![held[r]].state = "acked"]}
    /\ UNCHANGED <<database, file, batch, held, faults>>

\* It acknowledges the task; a task that another consumer has claimed or
\* acknowledged since may be refused.
Ack(r) ==
    /\ pc[r] = "claimed" /\ r \in Recoverers
    /\ \/ Goto(r, "done") /\ stream' = [stream EXCEPT ![held[r]].state = "acked"]
       \/ /\ stream[held[r]].holder # r \/ stream[held[r]].state = "acked"
          /\ Goto(r, "start") /\ UNCHANGED stream
    /\ UNCHANGED <<database, file, batch, held, faults>>

\* Recover is killed or fails, and is run again.
RecoverDies(r) ==
    /\ r \in Recoverers /\ pc[r] \notin {"start", "done"} /\ faults < MaxFaults
    /\ faults' = faults + 1 /\ Goto(r, "start") /\ held' = [held EXCEPT ![r] = 0]
    /\ UNCHANGED <<database, stream, file, batch>>

\* What VerifyRecoveryAcknowledgement requires of the consumer group.
Acknowledged == \A i \in DOMAIN stream : stream[i].state = "acked"

-----------------------------------------------------------------------------

Prepare(p) ==
    \/ PrepareAcquires(p) \/ Commit(p) \/ RelayClaims(p) \/ RelayPublishes(p) \/ RelayMarks(p)
    \/ PrepareClaims(p) \/ PublishExpectation(p) \/ CloseSession(p) \/ PrepareDies(p)

Recover(r) == RecoverInspects(r) \/ RecoverChecks(r) \/ RecoverClaims(r) \/ Ack(r)

Next ==
    \/ \E p \in Preparers : Prepare(p)
    \/ \E r \in Recoverers : Recover(r) \/ RecoverDies(r)
    \/ LeaseExpires \/ ClaimIdles

Spec == Init /\ [][Next]_vars

-----------------------------------------------------------------------------
(* Properties.                                                             *)

\* However preparers overlap, lose their lease or die, the row, the completed
\* record and the envelope exist together, once, and no task is in the stream
\* twice, before them, or acknowledged before its envelope is delivered.
OneEffect ==
    /\ rows = Cardinality({e \in Preparers : outbox[e] # "none"}) /\ rows <= 1
    /\ record.state = "completed" <=> rows = 1
    /\ Len(stream) <= rows
    /\ \A i \in DOMAIN stream : stream[i].state = "acked" => outbox[stream[i].task] = "delivered"

\* A Recover that returned success is final, whoever claimed the task in
\* between: VerifyRecoveryAcknowledgement succeeds from then on.
RecoveredIsFinal == (\E r \in Recoverers : pc[r] = "done") => Acknowledged /\ Len(stream) = 1

\* A task whose expectation was published is acknowledged in the end, although
\* its consumer and the first recoverers die.
TaskRecovered == (file # None) ~> (Len(stream) = 1 /\ Acknowledged)

=============================================================================
