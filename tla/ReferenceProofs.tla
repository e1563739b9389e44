-------------------------- MODULE ReferenceProofs --------------------------
(***************************************************************************)
(* The durable effects of Durability and Reference for any number of       *)
(* processes.  A process that has committed is the only one that ever did: *)
(* the inductive invariant ties the row, the record and the envelope to    *)
(* it, follows its relay to the one task in the stream, and says that no   *)
(* process can reach an acknowledgement before the envelope is delivered.  *)
(***************************************************************************)
EXTENDS Reference, FiniteSetTheorems, SequenceTheorems, TLAPS

\* A leaf has more than the default time: in a long module it may wait for another.
USE SMTT(20), ZenonT(20)

Task == [task : Preparers, state : {"new", "held", "idle", "acked"}, holder : Process \cup {None}]

\* Labels of a process whose envelope is in the stream and marked.
Relayed == {"relayed", "prepared", "holding", "abandoned", "awaiting", "drained", "released",
            "settled", "stopped"}

Types ==
    /\ record.state \in {"none", "acquired", "completed"}
    /\ record = [state |-> record.state, owner |-> record.owner, leased |-> record.leased]
    /\ rows \in {0, 1}
    /\ outbox \in [Preparers -> {"none", "pending", "claimed", "delivered"}]
    /\ stream \in Seq(Task) /\ Len(stream) <= 1
    /\ batch \in [Preparers -> SUBSET Preparers]
    /\ held \in [Process -> Nat]
    /\ pc \in [Process -> {"start", "staging", "acquired", "committed", "claimed", "published",
                           "failing", "refuted", "done", "gone", "inspected", "checked"}
                          \cup Relayed]

\* The row, the record and one envelope are written together; the stream holds
\* no other task, and acknowledges it after its delivery.
EffectInv ==
    /\ record.state = "completed" <=> rows = 1
    /\ rows = 0 => stream = <<>> /\ \A e \in Preparers : outbox[e] = "none"
    /\ rows = 1 => \E e \in Preparers : \A d \in Preparers : outbox[d] # "none" <=> d = e
    /\ \A i \in 1..Len(stream) :
           /\ outbox[stream[i].task] # "none"
           /\ stream[i].state = "acked" => outbox[stream[i].task] = "delivered"

\* The relay of a process works on the envelope of this process alone.
RelayAt(p) ==
    /\ pc[p] = "committed" => outbox[p] = "pending" /\ stream = <<>>
    /\ pc[p] = "claimed" => outbox[p] = "claimed" /\ stream = <<>> /\ batch[p] = {p}
    /\ pc[p] = "published" => outbox[p] = "claimed" /\ batch[p] = {p}
    /\ pc[p] \in Relayed => outbox[p] = "delivered"

\* Recover and the queue of Run come after a delivery.
RecoverAt(r) ==
    /\ pc[r] # "start" => file # None
    /\ pc[r] = "claimed" => held[r] \in 1..Len(stream)
    /\ pc[r] \in {"start", "inspected", "checked", "claimed", "done"}

DeliveryInv ==
    /\ file # None => file \in Preparers /\ outbox[file] = "delivered"
    /\ queue # "none" => outbox[Runner] = "delivered"
    /\ handler # "none" => queue # "none"

IInv ==
    /\ Types /\ EffectInv /\ DeliveryInv
    /\ \A p \in Preparers : RelayAt(p)
    /\ \A r \in Recoverers : RecoverAt(r)

-----------------------------------------------------------------------------

\* Nothing is durable at first.
LEMMA InitIInv == RunInit => IInv
<1> SUFFICES ASSUME RunInit PROVE IInv
    OBVIOUS
<1> USE DEF RunInit, Init
<1>1. Types
    BY EmptySeq DEF Types, Relayed, Process
<1>2. \A p \in Process : pc[p] = "start"
    BY DEF Process
<1>3. EffectInv /\ DeliveryInv
    BY EmptySeq DEF EffectInv, DeliveryInv
<1> QED BY <1>1, <1>2, <1>3 DEF IInv, RelayAt, RecoverAt, Relayed, Process

\* A task is replaced by itself in another state.
LEMMA Restated ==
    ASSUME Types, NEW i \in 1..Len(stream), NEW x \in Task, x.task = stream[i].task,
           stream' = [stream EXCEPT ![i] = x]
    PROVE  /\ stream' \in Seq(Task) /\ Len(stream') = Len(stream)
           /\ \A j \in 1..Len(stream) : stream'[j].task = stream[j].task
           /\ \A j \in 1..Len(stream) : j # i => stream'[j] = stream[j]
           /\ stream'[i] = x
           /\ stream = <<>> <=> stream' = <<>>
<1>1. /\ stream' \in Seq(Task) /\ Len(stream') = Len(stream)
      /\ \A j \in 1..Len(stream) : stream'[j] = IF j = i THEN x ELSE stream[j]
    BY ExceptSeq DEF Types
<1> QED BY <1>1, EmptySeq DEF Types

-----------------------------------------------------------------------------
(* What a step keeps when it leaves the envelopes alone.                   *)

\* The labels that say nothing of the envelope of a process.
Free == {"start", "staging", "acquired", "failing", "refuted", "done", "gone"}

\* The record keeps its shape, and is completed if it was.
RecordKept ==
    /\ record'.state \in {"none", "acquired", "completed"}
    /\ record' = [state |-> record'.state, owner |-> record'.owner, leased |-> record'.leased]
    /\ record'.state = "completed" <=> record.state = "completed"

\* The tasks of the stream are the same, and a task that is acknowledged now
\* was so before or is delivered.
StreamKept ==
    /\ stream' \in Seq(Task) /\ Len(stream') = Len(stream)
    /\ stream = <<>> <=> stream' = <<>>
    /\ \A i \in 1..Len(stream) :
           /\ stream'[i].task = stream[i].task
           /\ stream'[i].state = "acked" =>
                 stream[i].state = "acked" \/ outbox[stream[i].task] = "delivered"

HeldKept(p) == held' \in [Process -> Nat] /\ \A q \in Process \ {p} : held'[q] = held[q]

\* An Acquire never takes a completed record back.
LEMMA AcquireKeeps ==
    ASSUME IInv, NEW p, Acquire(p) PROVE RecordKept
BY Zenon DEF IInv, Types, RecordKept, Acquire, Outcome

\* A step that leaves the stream alone keeps it.
LEMMA StreamUnchanged ==
    ASSUME IInv, UNCHANGED stream PROVE StreamKept
BY DEF IInv, Types, StreamKept

\* A request takes a task that is not acknowledged, and a claim that idles is
\* not either.
LEMMA RequestKeeps ==
    ASSUME IInv, NEW i \in DOMAIN stream, NEW h \in Process \cup {None},
           NEW s \in {"held", "idle"},
           \/ stream' = [stream EXCEPT ![i].state = s, ![i].holder = h]
           \/ stream' = [stream EXCEPT ![i].state = s]
    PROVE  StreamKept
<1>1. i \in 1..Len(stream) /\ stream[i] \in Task
    BY ElementOfSeq DEF IInv, Types
<1>2. PICK x \in Task : /\ stream' = [stream EXCEPT ![i] = x]
                        /\ x.task = stream[i].task /\ x.state = s
    <2>1. CASE stream' = [stream EXCEPT ![i].state = s, ![i].holder = h]
        <3>1. [stream[i] EXCEPT !.state = s, !.holder = h] \in Task
            BY <1>1, Zenon DEF Task
        <3> WITNESS [stream[i] EXCEPT !.state = s, !.holder = h] \in Task
        <3> QED BY <1>1, <2>1, Zenon DEF Task
    <2>2. CASE stream' = [stream EXCEPT ![i].state = s]
        <3>1. [stream[i] EXCEPT !.state = s] \in Task
            BY <1>1 DEF Task
        <3> WITNESS [stream[i] EXCEPT !.state = s] \in Task
        <3> QED BY <1>1, <2>2 DEF Task
    <2> QED BY <2>1, <2>2
<1> QED BY <1>1, <1>2, Restated, ZenonT(30) DEF IInv, StreamKept

\* While an envelope is delivered, every task of the stream is: there is no
\* other envelope.
LEMMA AckKeeps ==
    ASSUME IInv, NEW i \in DOMAIN stream, NEW e \in Preparers, outbox[e] = "delivered",
           stream' = [stream EXCEPT ![i].state = "acked"]
    PROVE  StreamKept
<1>1. i \in 1..Len(stream) /\ stream[i] \in Task
    BY ElementOfSeq DEF IInv, Types
<1>2. outbox[stream[i].task] = "delivered"
    BY <1>1 DEF IInv, Types, EffectInv, Task
<1>3. PICK x \in Task : stream' = [stream EXCEPT ![i] = x] /\ x.task = stream[i].task
    <2>1. [stream[i] EXCEPT !.state = "acked"] \in Task
        BY <1>1 DEF Task
    <2> WITNESS [stream[i] EXCEPT !.state = "acked"] \in Task
    <2> QED BY <1>1 DEF Task
<1>4. Types
    BY DEF IInv
<1>5. /\ stream' \in Seq(Task) /\ Len(stream') = Len(stream)
      /\ \A j \in 1..Len(stream) : stream'[j].task = stream[j].task
      /\ \A j \in 1..Len(stream) : j # i => stream'[j] = stream[j]
      /\ stream = <<>> <=> stream' = <<>>
    BY <1>1, <1>3, <1>4, Restated, ZenonT(30)
<1> QED BY <1>2, <1>5 DEF StreamKept

\* A preparer moves to a label its envelope allows.
LEMMA PreparerMoves ==
    ASSUME IInv, NEW p \in Preparers, NEW l \in Free \cup Relayed, Goto(p, l),
           l \in Relayed => outbox[p] = "delivered",
           RecordKept, StreamKept, HeldKept(p), UNCHANGED <<rows, outbox, batch>>,
           file' \in {file, p}, file' = p => outbox[p] = "delivered",
           queue' # "none" => outbox[Runner] = "delivered",
           handler' # "none" => queue' # "none"
    PROVE  IInv'
<1> USE DurabilityAssumption, RunnerAssumption
<1>1. pc'[p] = l /\ \A q \in Process \ {p} : pc'[q] = pc[q]
    BY DEF IInv, Types, Goto, Process
<1>2. Types'
    BY DEF IInv, Types, Goto, Process, RecordKept, StreamKept, HeldKept, Free
<1>3. EffectInv'
    <2>1. rows' = 0 => stream' = <<>> /\ \A e \in Preparers : outbox'[e] = "none"
        BY DEF IInv, EffectInv, StreamKept
    <2>2. \A i \in 1..Len(stream') : /\ outbox'[stream'[i].task] # "none"
                                     /\ stream'[i].state = "acked" => outbox'[stream'[i].task] = "delivered"
        BY DEF IInv, EffectInv, StreamKept
    <2> QED BY <2>1, <2>2 DEF IInv, EffectInv, RecordKept
<1>4. DeliveryInv'
    BY DEF IInv, DeliveryInv
<1>5. ASSUME NEW q \in Preparers PROVE RelayAt(q)'
    BY <1>1 DEF IInv, RelayAt, StreamKept, Process, Free, Relayed
<1>6. ASSUME NEW r \in Recoverers PROVE RecoverAt(r)'
    BY <1>1 DEF IInv, RecoverAt, StreamKept, HeldKept, Process
<1> QED BY <1>2, <1>3, <1>4, <1>5, <1>6 DEF IInv

\* A recoverer moves; it has read an expectation, and may hold a task.
LEMMA RecovererMoves ==
    ASSUME IInv, NEW r \in Recoverers, NEW l \in {"start", "inspected", "checked", "claimed", "done"},
           Goto(r, l), file # None,
           RecordKept, StreamKept, HeldKept(r), UNCHANGED <<rows, outbox, batch, file, queue, handler>>,
           l = "claimed" => held'[r] \in 1..Len(stream)
    PROVE  IInv'
<1> USE DurabilityAssumption, RunnerAssumption
<1>1. pc'[r] = l /\ \A q \in Process \ {r} : pc'[q] = pc[q]
    BY DEF IInv, Types, Goto, Process
<1>2. Types'
    BY DEF IInv, Types, Goto, Process, RecordKept, StreamKept, HeldKept
<1>3. EffectInv'
    <2>1. rows' = 0 => stream' = <<>> /\ \A e \in Preparers : outbox'[e] = "none"
        BY DEF IInv, EffectInv, StreamKept
    <2>2. \A i \in 1..Len(stream') : /\ outbox'[stream'[i].task] # "none"
                                     /\ stream'[i].state = "acked" => outbox'[stream'[i].task] = "delivered"
        BY DEF IInv, EffectInv, StreamKept
    <2> QED BY <2>1, <2>2 DEF IInv, EffectInv, RecordKept
<1>4. DeliveryInv'
    BY DEF IInv, DeliveryInv
<1>5. ASSUME NEW q \in Preparers PROVE RelayAt(q)'
    BY <1>1 DEF IInv, RelayAt, StreamKept, Process
<1>6. ASSUME NEW q \in Recoverers PROVE RecoverAt(q)'
    BY <1>1 DEF IInv, RecoverAt, StreamKept, HeldKept, Process
<1> QED BY <1>2, <1>3, <1>4, <1>5, <1>6 DEF IInv

\* Nobody moves: time passes, or the queue of Run works.
LEMMA NobodyMoves ==
    ASSUME IInv, RecordKept, StreamKept, UNCHANGED <<rows, outbox, batch, file, pc, held>>,
           queue' # "none" => queue # "none",
           handler' # "none" => queue' # "none"
    PROVE  IInv'
<1> USE DurabilityAssumption, RunnerAssumption
<1>2. Types'
    BY DEF IInv, Types, RecordKept, StreamKept
<1>3. EffectInv'
    <2>1. rows' = 0 => stream' = <<>> /\ \A e \in Preparers : outbox'[e] = "none"
        BY DEF IInv, EffectInv, StreamKept
    <2>2. \A i \in 1..Len(stream') : /\ outbox'[stream'[i].task] # "none"
                                     /\ stream'[i].state = "acked" => outbox'[stream'[i].task] = "delivered"
        BY DEF IInv, EffectInv, StreamKept
    <2> QED BY <2>1, <2>2 DEF IInv, EffectInv, RecordKept
<1>4. DeliveryInv'
    BY DEF IInv, DeliveryInv
<1>5. ASSUME NEW q \in Preparers PROVE RelayAt(q)'
    BY DEF IInv, RelayAt, StreamKept
<1>6. ASSUME NEW q \in Recoverers PROVE RecoverAt(q)'
    BY DEF IInv, RecoverAt, StreamKept
<1> QED BY <1>2, <1>3, <1>4, <1>5, <1>6 DEF IInv

-----------------------------------------------------------------------------
(* The transaction and the relay.                                          *)

\* The commit finds no row, so there is no other envelope and no task.
LEMMA CommitStep ==
    ASSUME IInv, NEW p \in Preparers, Commit(p), UNCHANGED <<queue, handler>> PROVE IInv'
<1> USE DurabilityAssumption, RunnerAssumption
<1>1. CASE ~Committable(p)
    <2>1. Goto(p, "gone") /\ UNCHANGED <<record, rows, outbox, stream, batch, file, held>>
        BY <1>1 DEF Commit, database
    <2>2. RecordKept /\ HeldKept(p)
        BY <2>1 DEF RecordKept, HeldKept, IInv, Types
    <2> QED BY <2>1, <2>2, StreamUnchanged, PreparerMoves DEF IInv, DeliveryInv, Free, Relayed
<1>2. CASE Committable(p)
    <2>1. /\ rows = 0 /\ stream = <<>> /\ \A e \in Preparers : outbox[e] = "none"
          /\ file = None /\ queue = "none" /\ handler = "none"
        BY <1>2 DEF Committable, IInv, EffectInv, DeliveryInv
    <2>2. /\ rows' = 1 /\ stream' = <<>>
          /\ outbox' = [outbox EXCEPT ![p] = "pending"]
          /\ Goto(p, "committed") /\ UNCHANGED <<file, batch, held>>
        BY <1>2, <2>1 DEF Commit, IInv, Types
    <2>3. record' = [state |-> "completed", owner |-> record.owner, leased |-> FALSE]
        BY <1>2, Zenon DEF Commit, IInv, Types
    <2>4. \A e \in Preparers : outbox'[e] = IF e = p THEN "pending" ELSE "none"
        BY <2>1, <2>2 DEF IInv, Types
    <2>5. pc'[p] = "committed" /\ \A q \in Process \ {p} : pc'[q] = pc[q]
        BY <2>2 DEF IInv, Types, Goto, Process
    <2>6. Types'
        BY <2>1, <2>2, <2>3, EmptySeq, Zenon DEF IInv, Types, Goto
    <2>7. EffectInv'
        BY <2>2, <2>3, <2>4, EmptySeq DEF EffectInv
    <2>8. DeliveryInv'
        BY <2>1, <2>2 DEF DeliveryInv
    <2>9. ASSUME NEW q \in Preparers PROVE RelayAt(q)'
        BY <2>1, <2>2, <2>4, <2>5 DEF IInv, RelayAt, Process, Relayed
    <2>10. ASSUME NEW r \in Recoverers PROVE RecoverAt(r)'
        BY <2>1, <2>2, <2>5 DEF IInv, RecoverAt, Process
    <2> QED BY <2>6, <2>7, <2>8, <2>9, <2>10 DEF IInv
<1> QED BY <1>1, <1>2

\* A process past its commit has the only envelope.
LEMMA OnlyEnvelope ==
    ASSUME IInv, NEW p \in Preparers, outbox[p] # "none"
    PROVE  /\ rows = 1
           /\ \A e \in Preparers \ {p} : outbox[e] = "none" /\ pc[e] \in Free \cup {"inspected", "checked"}
<1>1. rows = 1 /\ \A e \in Preparers \ {p} : outbox[e] = "none"
    BY DEF IInv, Types, EffectInv
<1> QED BY <1>1 DEF IInv, Types, RelayAt, Free, Process

\* The relay changes the state of this envelope alone.
LEMMA RelayMoves ==
    ASSUME IInv, NEW p \in Preparers, outbox[p] \in {"pending", "claimed"},
           NEW l \in {"claimed", "published", "relayed"}, Goto(p, l),
           NEW o \in {"claimed", "delivered"}, outbox' = [outbox EXCEPT ![p] = o],
           batch' \in [Preparers -> SUBSET Preparers], batch'[p] = {p},
           stream' \in Seq(Task), Len(stream') <= 1,
           \A i \in 1..Len(stream') : stream'[i].task = p,
           \A i \in 1..Len(stream') : stream'[i].state = "acked" => o = "delivered",
           l = "claimed" => stream' = <<>>, l = "relayed" <=> o = "delivered",
           UNCHANGED <<record, rows, file, held, queue, handler>>
    PROVE  IInv'
<1> USE DurabilityAssumption, RunnerAssumption
<1>1. rows = 1 /\ \A e \in Preparers \ {p} : outbox[e] = "none" /\ pc[e] \in Free \cup {"inspected", "checked"}
    BY OnlyEnvelope
<1>2. pc'[p] = l /\ \A q \in Process \ {p} : pc'[q] = pc[q]
    BY DEF IInv, Types, Goto, Process
<1>3. outbox'[p] = o /\ \A e \in Preparers \ {p} : outbox'[e] = "none"
    BY <1>1 DEF IInv, Types
<1>4. file = None /\ queue = "none" /\ handler = "none"
    BY <1>1 DEF IInv, DeliveryInv
<1>5. Types'
    BY Zenon DEF IInv, Types, Goto, Relayed
<1>6. EffectInv'
    <2>1. o # "none" /\ (record.state = "completed" <=> rows = 1)
        BY DEF IInv, EffectInv
    <2>2. \A d \in Preparers : outbox'[d] # "none" <=> d = p
        BY <1>3, <2>1
    <2> QED BY <1>1, <1>3, <2>1, <2>2 DEF EffectInv
<1>7. DeliveryInv'
    BY <1>4 DEF DeliveryInv
<1>8. ASSUME NEW q \in Preparers PROVE RelayAt(q)'
    <2>1. CASE q = p
        BY <1>2, <1>3, <2>1 DEF RelayAt, Relayed
    <2>2. CASE q # p
        BY <1>1, <1>2, <2>2 DEF RelayAt, Relayed, Free, Process
    <2> QED BY <2>1, <2>2
<1>9. ASSUME NEW r \in Recoverers PROVE RecoverAt(r)'
    BY <1>2, <1>4 DEF IInv, RecoverAt, Process
<1> QED BY <1>5, <1>6, <1>7, <1>8, <1>9 DEF IInv

\* RunOnce claims the one envelope there is ...
LEMMA ClaimsStep ==
    ASSUME IInv, NEW p \in Preparers, RelayClaims(p), UNCHANGED <<queue, handler>> PROVE IInv'
<1>1. pc[p] = "committed" /\ outbox[p] = "pending" /\ stream = <<>>
    BY DEF RelayClaims, IInv, RelayAt
<1>2. \A e \in Preparers \ {p} : outbox[e] = "none"
    BY <1>1, OnlyEnvelope
<1>3. {e \in Preparers : outbox[e] = "pending"} = {p}
    BY <1>1, <1>2
<1>4. /\ outbox' = [outbox EXCEPT ![p] = "claimed"] /\ Goto(p, "claimed")
      /\ batch' = [batch EXCEPT ![p] = {p}] /\ UNCHANGED <<record, rows, stream, file, held>>
    BY <1>1, <1>2, <1>3, Zenon DEF RelayClaims, IInv, Types
<1>5. batch' \in [Preparers -> SUBSET Preparers] /\ batch'[p] = {p}
    BY <1>4 DEF IInv, Types
<1>6. /\ stream' \in Seq(Task) /\ Len(stream') <= 1 /\ stream' = <<>>
      /\ \A i \in 1..Len(stream') : stream'[i].task = p
      /\ \A i \in 1..Len(stream') : stream'[i].state = "acked" => "claimed" = "delivered"
    BY <1>1, <1>4, EmptySeq
<1> QED BY <1>1, <1>4, <1>5, <1>6, RelayMoves, Zenon

\* ... appends one task ...
LEMMA PublishesStep ==
    ASSUME IInv, NEW p \in Preparers, RelayPublishes(p), UNCHANGED <<queue, handler>> PROVE IInv'
<1>1. pc[p] = "claimed" /\ outbox[p] = "claimed" /\ stream = <<>> /\ batch[p] = {p}
    BY DEF RelayPublishes, IInv, RelayAt
<1> DEFINE t == [task |-> p, state |-> "new", holder |-> None]
<1>2. Cardinality(batch[p]) = 1
    BY <1>1, FS_Singleton, Zenon
<1>3. PICK order \in [1..1 -> {p}] :
          stream' = stream \o
              [i \in DOMAIN order |-> [task |-> order[i], state |-> "new", holder |-> None]]
    BY <1>1, <1>2, Zenon DEF RelayPublishes
<1>4. DOMAIN order = 1..1 /\ order[1] = p
    OBVIOUS
<1>5. [i \in DOMAIN order |-> [task |-> order[i], state |-> "new", holder |-> None]] = [i \in 1..1 |-> t]
    BY <1>4
<1>6. t \in Task /\ t.task = p /\ t.state = "new"
    BY DEF Task
<1> HIDE DEF t
<1>7. [i \in 1..1 |-> t] \in Seq(Task) /\ Len([i \in 1..1 |-> t]) = 1
    BY <1>6
<1>8. stream' \in Seq(Task) /\ Len(stream') = 1 /\ stream'[1] = t
    BY <1>1, <1>3, <1>5, <1>7, EmptySeq, ConcatProperties
<1>9. /\ Goto(p, "published") /\ UNCHANGED <<record, rows, outbox, batch, file, held>>
    BY DEF RelayPublishes, database
<1>10. outbox' = [outbox EXCEPT ![p] = "claimed"] /\ batch' \in [Preparers -> SUBSET Preparers]
    BY <1>1, <1>9 DEF IInv, Types
<1>11. /\ Len(stream') <= 1 /\ batch'[p] = {p}
       /\ \A i \in 1..Len(stream') : stream'[i].task = p
       /\ \A i \in 1..Len(stream') : stream'[i].state = "acked" => "claimed" = "delivered"
    BY <1>1, <1>6, <1>8, <1>9
<1> QED BY <1>1, <1>8, <1>9, <1>10, <1>11, RelayMoves, Zenon

\* ... and marks the envelope.
LEMMA MarksStep ==
    ASSUME IInv, NEW p \in Preparers, RelayMarks(p), UNCHANGED <<queue, handler>> PROVE IInv'
<1>1. pc[p] = "published" /\ outbox[p] = "claimed" /\ batch[p] = {p}
    BY DEF RelayMarks, IInv, RelayAt
<1>2. Cardinality(batch[p]) = 1
    BY <1>1, FS_Singleton, Zenon
<1>3. /\ Goto(p, "relayed") /\ outbox' = [outbox EXCEPT ![p] = "delivered"]
      /\ UNCHANGED <<record, rows, stream, file, batch, held>>
    BY <1>1, <1>2, Zenon DEF RelayMarks, IInv, Types
<1>4. \A i \in 1..Len(stream) : stream[i].task = p
    <2> TAKE i \in 1..Len(stream)
    <2>3. stream[i] \in Task
        BY ElementOfSeq DEF IInv, Types
    <2>1. stream[i].task \in Preparers
        BY <2>3 DEF Task
    <2>2. outbox[stream[i].task] # "none"
        BY DEF IInv, EffectInv
    <2> QED BY <1>1, <2>1, <2>2, OnlyEnvelope
<1>5. stream' \in Seq(Task) /\ Len(stream') <= 1 /\ batch' \in [Preparers -> SUBSET Preparers]
    BY <1>3 DEF IInv, Types
<1> QED BY <1>1, <1>3, <1>4, <1>5, RelayMoves, Zenon

-----------------------------------------------------------------------------
(* The other steps.                                                        *)

\* A worker's request keeps the stream, whoever makes it.
LEMMA RequestStep ==
    ASSUME IInv, NEW p \in Process, Request(p)
    PROVE  StreamKept /\ HeldKept(p) /\ held'[p] \in 1..Len(stream)
<1>1. PICK i \in DOMAIN stream : /\ stream' = [stream EXCEPT ![i].state = "held", ![i].holder = p]
                                 /\ held' = [held EXCEPT ![p] = i]
    BY Zenon DEF Request
<1>2. i \in 1..Len(stream) /\ i \in Nat
    BY DEF IInv, Types
<1>3. StreamKept
    BY <1>1, RequestKeeps, Zenon
<1> QED BY <1>1, <1>2, <1>3 DEF HeldKept, IInv, Types

\* Every step of PrepareRecovery.
LEMMA PrepareStep ==
    ASSUME IInv, NEW p \in Preparers, Prepare(p), UNCHANGED <<queue, handler>> PROVE IInv'
<1> USE DurabilityAssumption, RunnerAssumption DEF Process
<1>1. /\ UNCHANGED record => RecordKept
      /\ UNCHANGED held => HeldKept(p)
      /\ UNCHANGED stream => StreamKept
    BY StreamUnchanged DEF RecordKept, HeldKept, IInv, Types
<1>2. /\ queue' # "none" => outbox[Runner] = "delivered"
      /\ handler' # "none" => queue' # "none"
      /\ pc[p] \in Relayed => outbox[p] = "delivered"
      /\ {"relayed", "prepared", "holding"} \subseteq Relayed
      /\ {"acquired", "gone"} \subseteq Free \ Relayed
      /\ file = p => outbox[p] = "delivered"
    BY DEF IInv, DeliveryInv, RelayAt, Relayed, Free
<1>3. CASE PrepareAcquires(p)
    BY <1>1, <1>2, <1>3, AcquireKeeps, PreparerMoves DEF PrepareAcquires
<1>4. CASE Commit(p)
    BY <1>4, CommitStep
<1>5. CASE RelayClaims(p)
    BY <1>5, ClaimsStep
<1>6. CASE RelayPublishes(p)
    BY <1>6, PublishesStep
<1>7. CASE RelayMarks(p)
    BY <1>7, MarksStep
<1>8. CASE PrepareClaims(p)
    BY <1>1, <1>2, <1>8, RequestStep, PreparerMoves DEF PrepareClaims, database
<1>9. CASE PublishExpectation(p)
    BY <1>1, <1>2, <1>9, PreparerMoves DEF PublishExpectation, database
<1>10. CASE CloseSession(p)
    BY <1>1, <1>2, <1>10, PreparerMoves DEF CloseSession, database
<1>11. CASE PrepareDies(p)
    BY <1>1, <1>2, <1>11, PreparerMoves DEF PrepareDies, database
<1> QED BY <1>3, <1>4, <1>5, <1>6, <1>7, <1>8, <1>9, <1>10, <1>11 DEF Prepare

\* Every step of Recover, and its death.
LEMMA RecoverStep ==
    ASSUME IInv, NEW r \in Recoverers, Recover(r) \/ RecoverDies(r), UNCHANGED <<queue, handler>>
    PROVE  IInv'
<1> USE DurabilityAssumption, RunnerAssumption DEF Process
<1>1. /\ UNCHANGED record => RecordKept
      /\ UNCHANGED held => HeldKept(r)
      /\ UNCHANGED stream => StreamKept
    BY StreamUnchanged DEF RecordKept, HeldKept, IInv, Types
<1>2. pc[r] # "start" => file # None /\ file \in Preparers /\ outbox[file] = "delivered"
    BY DEF IInv, RecoverAt, DeliveryInv
<1>3. CASE RecoverInspects(r)
    BY <1>1, <1>3, AcquireKeeps, RecovererMoves DEF RecoverInspects
<1>4. CASE RecoverChecks(r)
    BY <1>1, <1>2, <1>4, RecovererMoves DEF RecoverChecks, database
<1>5. CASE RecoverClaims(r)
    <2>1. CASE Request(r)
        BY <1>1, <1>2, <1>5, <2>1, RequestStep, RecovererMoves DEF RecoverClaims, database
    <2>2. CASE UNCHANGED <<stream, held>> /\ Goto(r, "start")
        BY <1>1, <1>2, <1>5, <2>2, RecovererMoves DEF RecoverClaims, database
    <2> QED BY <1>5, <2>1, <2>2 DEF RecoverClaims
<1>6. CASE Ack(r)
    <2>1. held[r] \in DOMAIN stream /\ held[r] \in 1..Len(stream)
        BY <1>6 DEF Ack, IInv, RecoverAt, Types
    <2>2. StreamKept
        BY <1>1, <1>2, <1>6, <2>1, AckKeeps DEF Ack
    <2> QED BY <1>1, <1>2, <1>6, <2>2, RecovererMoves DEF Ack, database
<1>7. CASE RecoverDies(r)
    <2>1. HeldKept(r)
        BY <1>7 DEF RecoverDies, HeldKept, IInv, Types
    <2> QED BY <1>1, <1>2, <1>7, <2>1, RecovererMoves DEF RecoverDies, database
<1> QED BY <1>3, <1>4, <1>5, <1>6, <1>7 DEF Recover

\* A lease or a claim runs out.
LEMMA TimeStep ==
    ASSUME IInv, LeaseExpires \/ ClaimIdles, UNCHANGED <<queue, handler>> PROVE IInv'
<1>1. CASE LeaseExpires
    <2>1. RecordKept
        BY <1>1, Zenon DEF LeaseExpires, RecordKept, IInv, Types
    <2> QED BY <1>1, <2>1, StreamUnchanged, NobodyMoves DEF LeaseExpires, IInv, DeliveryInv
<1>2. CASE ClaimIdles
    <2>1. StreamKept
        BY <1>2, RequestKeeps, None \in Process \cup {None}, Zenon DEF ClaimIdles
    <2>2. RecordKept
        BY <1>2 DEF ClaimIdles, database, RecordKept, IInv, Types
    <2> QED BY <1>2, <2>1, <2>2, NobodyMoves DEF ClaimIdles, database, IInv, DeliveryInv
<1> QED BY <1>1, <1>2

\* Every step of Run, and its death.
LEMMA RunStep ==
    ASSUME IInv, Run \/ RunDies PROVE IInv'
<1> USE DurabilityAssumption, RunnerAssumption DEF Process, At, Check
<1>1. /\ UNCHANGED record => RecordKept
      /\ UNCHANGED held => HeldKept(Runner)
      /\ UNCHANGED stream => StreamKept
    BY StreamUnchanged DEF RecordKept, HeldKept, IInv, Types
<1>2. /\ queue # "none" => outbox[Runner] = "delivered"
      /\ handler # "none" => queue # "none"
      /\ pc[Runner] \in Relayed => outbox[Runner] = "delivered"
      /\ file = Runner => outbox[Runner] = "delivered"
    BY DEF IInv, DeliveryInv, RelayAt
<1>3. /\ {"relayed", "prepared", "abandoned", "awaiting", "drained", "released", "settled",
          "stopped"} \subseteq Relayed
      /\ {"staging", "acquired", "failing", "refuted", "done", "gone"} \subseteq Free \ Relayed
    BY DEF Relayed, Free
<1>4. CASE RunAcquires
    BY <1>1, <1>2, <1>3, <1>4, AcquireKeeps, PreparerMoves DEF RunAcquires, runVars
<1>5. CASE RunRollsBack
    BY <1>1, <1>2, <1>3, <1>5, PreparerMoves DEF RunRollsBack, runVars, database
<1>6. CASE RunCommits
    BY <1>6, CommitStep DEF RunCommits, runVars
<1>7. CASE RunRelays
    BY <1>7, ClaimsStep, PublishesStep, MarksStep DEF RunRelays, runVars
<1>8. CASE RunClaims
    BY <1>8, PrepareStep DEF RunClaims, Prepare, runVars
<1>9. CASE RunAbandons
    BY <1>1, <1>2, <1>3, <1>9, PreparerMoves DEF RunAbandons, runVars, database
<1>10. CASE RunStarts
    BY <1>1, <1>2, <1>3, <1>10, PreparerMoves DEF RunStarts, database
<1>11. CASE RunDrains
    BY <1>1, <1>2, <1>3, <1>11, PreparerMoves DEF RunDrains, database
<1>12. CASE RunReleases
    BY <1>1, <1>2, <1>3, <1>12, PreparerMoves DEF RunReleases, database
<1>13. CASE RunSettles
    BY <1>1, <1>2, <1>3, <1>13, PreparerMoves DEF RunSettles, runVars, database
<1>14. CASE RunStops
    BY <1>1, <1>2, <1>3, <1>14, PreparerMoves DEF RunStops, runVars, database
<1>15. CASE RunReplays
    BY <1>1, <1>2, <1>3, <1>15, AcquireKeeps, PreparerMoves DEF RunReplays, runVars
<1>16. CASE RunFails
    BY <1>1, <1>2, <1>3, <1>16, PreparerMoves DEF RunFails, runVars, database
<1>17. CASE RunDies
    BY <1>1, <1>2, <1>3, <1>17, PreparerMoves DEF RunDies, runVars, database
<1> QED BY <1>4, <1>5, <1>6, <1>7, <1>8, <1>9, <1>10, <1>11, <1>12, <1>13, <1>14, <1>15, <1>16,
           <1>17 DEF Run

\* The queue, its handler and the context of Run.
LEMMA QueueStep ==
    ASSUME IInv, Queue \/ ContextEnds PROVE IInv'
<1> USE DurabilityAssumption, RunnerAssumption
<1>1. /\ UNCHANGED record => RecordKept
      /\ UNCHANGED stream => StreamKept
    BY StreamUnchanged DEF RecordKept, IInv, Types
<1>2. /\ queue # "none" => outbox[Runner] = "delivered"
      /\ handler # "none" => queue # "none"
    BY DEF IInv, DeliveryInv
<1>3. CASE QueueDelivers
    <2>1. StreamKept
        BY <1>3, RequestKeeps, Zenon DEF QueueDelivers, Process
    <2> QED BY <1>1, <1>2, <1>3, <2>1, NobodyMoves DEF QueueDelivers, database
<1>4. CASE HandlerReturns
    BY <1>1, <1>2, <1>4, NobodyMoves DEF HandlerReturns, vars
<1>5. CASE QueueAcks
    <2>1. StreamKept
        BY <1>2, <1>5, AckKeeps, Zenon DEF QueueAcks
    <2> QED BY <1>1, <1>2, <1>5, <2>1, NobodyMoves DEF QueueAcks, database
<1>6. CASE Shutdown
    BY <1>1, <1>2, <1>6, NobodyMoves DEF Shutdown, vars
<1>7. CASE ContextEnds
    BY <1>1, <1>2, <1>7, NobodyMoves DEF ContextEnds, vars
<1> QED BY <1>3, <1>4, <1>5, <1>6, <1>7 DEF Queue

\* The invariant is inductive.
LEMMA Inductive ==
    IInv /\ [RunNext]_allVars => IInv'
<1> SUFFICES ASSUME IInv, [RunNext]_allVars PROVE IInv'
    OBVIOUS
<1>1. CASE Next /\ UNCHANGED runVars
    BY <1>1, PrepareStep, RecoverStep, TimeStep DEF Next, runVars
<1>2. CASE (LeaseExpires \/ ClaimIdles) /\ UNCHANGED runVars
    BY <1>2, TimeStep DEF runVars
<1>3. CASE Run \/ RunDies
    BY <1>3, RunStep
<1>4. CASE Queue \/ ContextEnds
    BY <1>4, QueueStep
<1>5. CASE UNCHANGED allVars
    <2>1. RecordKept /\ StreamKept
        BY <1>5, StreamUnchanged DEF allVars, vars, RecordKept, IInv, Types
    <2> QED BY <1>5, <2>1, NobodyMoves DEF allVars, vars, runVars, IInv, DeliveryInv
<1> QED BY <1>1, <1>2, <1>3, <1>4, <1>5 DEF RunNext

\* The invariant says that there is at most one envelope, which is as many as
\* there are rows.
LEMMA OneEffectFollows == IInv => OneEffect
<1> SUFFICES ASSUME IInv PROVE OneEffect
    OBVIOUS
<1> DEFINE E == {e \in Preparers : outbox[e] # "none"}
<1>1. rows = Cardinality(E) /\ rows <= 1
    <2>1. CASE rows = 0
        <3>1. E = {}
            BY <2>1 DEF IInv, EffectInv
        <3> QED BY <2>1, <3>1, FS_EmptySet
    <2>2. CASE rows = 1
        <3>1. PICK e \in Preparers : \A d \in Preparers : outbox[d] # "none" <=> d = e
            BY <2>2 DEF IInv, EffectInv
        <3>2. E = {e}
            BY <3>1
        <3> QED BY <2>2, <3>2, FS_Singleton
    <2> QED BY <2>1, <2>2 DEF IInv, Types
<1>2. Len(stream) <= rows
    BY EmptySeq DEF IInv, Types, EffectInv
<1>3. \A i \in DOMAIN stream : stream[i].state = "acked" => outbox[stream[i].task] = "delivered"
    BY DEF IInv, Types, EffectInv
<1> QED BY <1>1, <1>2, <1>3 DEF OneEffect, IInv, EffectInv

\* Whatever number of processes prepare and recover the command, and wherever
\* they are killed, lose their lease or repeat a step, its effects are made once
\* and in order (the durable writes of recovery.go and of Run).
THEOREM EffectsAreOnce == RunSpec => []OneEffect
<1>1. RunSpec => []IInv
    BY InitIInv, Inductive, PTL DEF RunSpec
<1> QED BY <1>1, OneEffectFollows, PTL

-----------------------------------------------------------------------------
(* What the programs report.  The task, once acknowledged, stays so; Run   *)
(* is followed through the life of its queue.                              *)

Acked == Len(stream) = 1 /\ stream[1].state = "acked"

\* Labels of Run before its service starts.
Early == {"start", "staging", "acquired", "committed", "claimed", "published", "relayed", "prepared",
          "abandoned"}

\* The queue is shut down once, after its handler, which returns when released,
\* after the intake was closed, and fails when the context ends.
QueueInv ==
    /\ queue \in {"none", "open", "closed", "down"} /\ ~whileBusy
    /\ calls = IF queue = "down" THEN 1 ELSE 0
    /\ queue = "down" => ~Busy
    /\ handler \in {"none", "rejected", "running", "returned", "acked", "failed"}
    /\ released \in BOOLEAN /\ (handler \in {"returned", "acked"} => released = TRUE)
    /\ released = TRUE => queue # "open"
    /\ handler = "failed" => ended

\* A success that was reported is that of an acknowledged task.
AckedInv == handler = "acked" \/ (\E r \in Recoverers : pc[r] = "done") => Acked

\* What Run has seen and done at each of its labels; only the context makes
\* the handler that Drain keeps fail.
RunnerAt ==
    /\ pc[Runner] = "start" => record.state = "none"
    /\ pc[Runner] \in {"staging", "acquired"} => record.state = "acquired" /\ record.owner = Runner
    /\ pc[Runner] \in Early => queue = "none" /\ released = FALSE
    /\ pc[Runner] = "awaiting" => queue = "open" /\ released = FALSE
    /\ pc[Runner] = "drained" =>
           /\ queue = "closed" /\ released = FALSE
           /\ handler = "running" \/ (handler = "failed" /\ ended)
    /\ pc[Runner] = "refuted" => ended
    /\ pc[Runner] \in {"settled", "stopped", "done"} => Acked
    /\ pc[Runner] \in {"stopped", "done"} => queue = "down"

ReportInv == QueueInv /\ AckedInv /\ (alone => RunnerAt)

\* An acknowledgement of the only task.
LEMMA Acks ==
    ASSUME IInv, NEW i \in DOMAIN stream, stream' = [stream EXCEPT ![i].state = "acked"]
    PROVE  Acked'
<1>1. stream \in Seq(Task) /\ Len(stream) <= 1 /\ Len(stream) \in Nat /\ DOMAIN stream = 1..Len(stream)
    BY DEF IInv, Types
<1>2. i = 1 /\ Len(stream) = 1 /\ stream[1] \in Task
    BY <1>1
<1>3. stream' = [stream EXCEPT ![1] = [stream[1] EXCEPT !.state = "acked"]]
    BY <1>2
<1>4. [stream[1] EXCEPT !.state = "acked"] \in Task
    BY <1>2 DEF Task
<1>5. stream'[1] = [stream[1] EXCEPT !.state = "acked"] /\ Len(stream') = Len(stream)
    BY <1>1, <1>2, <1>3, <1>4, ExceptSeq
<1> QED BY <1>2, <1>5 DEF Acked, Task

\* A task that is acknowledged is neither claimed nor relayed again.
LEMMA AckedExcludes ==
    ASSUME IInv, Acked
    PROVE  /\ \A i \in DOMAIN stream : stream[i].state = "acked"
           /\ ~ClaimIdles /\ ~QueueDelivers /\ \A p \in Process : ~Request(p)
           /\ \A p \in Preparers : ~RelayPublishes(p)
<1>1. DOMAIN stream = {1} /\ stream[1].state = "acked" /\ stream # <<>>
    <2>1. stream \in Seq(Task) /\ Len(stream) = 1 /\ stream[1].state = "acked"
        BY DEF IInv, Types, Acked
    <2>2. DOMAIN stream = 1..Len(stream) /\ 1..1 = {1}
        BY <2>1
    <2>3. stream = <<>> <=> Len(stream) = 0
        BY <2>1, EmptySeq, Zenon
    <2> QED BY <2>1, <2>2, <2>3
<1>2. \A i \in DOMAIN stream : stream[i].state = "acked"
    BY <1>1
<1>3. ~ClaimIdles /\ ~QueueDelivers /\ \A p \in Process : ~Request(p)
    BY <1>2, Zenon DEF ClaimIdles, QueueDelivers, Request, Claimable
<1>4. \A p \in Preparers : ~RelayPublishes(p)
    BY <1>1 DEF IInv, RelayAt, RelayPublishes
<1> QED BY <1>2, <1>3, <1>4

\* What a step may do to the stream.
LEMMA StreamSteps ==
    ASSUME IInv, [RunNext]_allVars
    PROVE  \/ UNCHANGED stream
           \/ ClaimIdles \/ QueueDelivers \/ (\E p \in Process : Request(p))
           \/ \E p \in Preparers : RelayPublishes(p)
           \/ \E i \in DOMAIN stream : stream' = [stream EXCEPT ![i].state = "acked"]
<1> DEFINE Goal == \/ UNCHANGED stream
                   \/ ClaimIdles \/ QueueDelivers \/ (\E p \in Process : Request(p))
                   \/ \E p \in Preparers : RelayPublishes(p)
                   \/ \E i \in DOMAIN stream : stream' = [stream EXCEPT ![i].state = "acked"]
<1> SUFFICES Goal
    OBVIOUS
<1>1. CASE \E p \in Preparers : Prepare(p)
    BY <1>1, Zenon DEF Prepare, PrepareAcquires, Commit, RelayClaims, RelayMarks, PrepareClaims,
        PublishExpectation, CloseSession, PrepareDies, Process
<1>2. ASSUME NEW r \in Recoverers, Recover(r) \/ RecoverDies(r) PROVE Goal
    <2>1. CASE Ack(r)
        <3>1. held[r] \in DOMAIN stream
            BY <2>1 DEF Ack, IInv, RecoverAt, Types
        <3> QED BY <2>1, <3>1, Zenon DEF Ack
    <2> QED BY <1>2, <2>1, Zenon DEF Recover, RecoverInspects, RecoverChecks, RecoverClaims,
            RecoverDies, Process
<1>3. CASE LeaseExpires \/ ClaimIdles
    BY <1>3 DEF LeaseExpires
<1>4. CASE Run \/ RunDies
    BY <1>4, RunnerAssumption, Zenon DEF Run, RunAcquires, RunRollsBack, RunCommits, Commit,
        RunRelays, RelayClaims, RelayMarks, RunClaims, PrepareClaims, RunAbandons, RunStarts,
        RunDrains, RunReleases, RunSettles, RunStops, RunReplays, RunFails, RunDies, Process
<1>5. CASE Queue \/ ContextEnds
    BY <1>5, Zenon DEF Queue, HandlerReturns, QueueAcks, Shutdown, ContextEnds, vars
<1>6. CASE UNCHANGED allVars
    BY <1>6 DEF allVars, vars
<1> HIDE DEF Goal
<1> QED BY <1>1, <1>2, <1>3, <1>4, <1>5, <1>6 DEF RunNext, Next

\* The stream never gives up an acknowledgement.
LEMMA AckedStays ==
    ASSUME IInv, [RunNext]_allVars, Acked PROVE Acked'
<1>1. CASE UNCHANGED stream
    BY <1>1 DEF Acked
<1>2. CASE \E i \in DOMAIN stream : stream' = [stream EXCEPT ![i].state = "acked"]
    BY <1>2, Acks, Zenon
<1> QED BY <1>1, <1>2, StreamSteps, AckedExcludes

\* Neither the queue nor a campaign that runs without Run moves Run.
LEMMA ReportOthers ==
    ASSUME IInv, ReportInv, ~alone /\ Next /\ UNCHANGED runVars PROVE ReportInv'
<1>1. QueueInv' /\ ~alone'
    BY DEF ReportInv, QueueInv, Busy, runVars
<1>2. ASSUME NEW r \in Recoverers, pc'[r] = "done" PROVE Acked'
    <2>1. CASE pc[r] = "done"
        BY <2>1, AckedStays DEF ReportInv, AckedInv, RunNext
    <2>2. CASE pc[r] # "done"
        <3>1. Ack(r) /\ stream' = [stream EXCEPT ![held[r]].state = "acked"]
            <4>1. ASSUME NEW p \in Preparers, Prepare(p) PROVE FALSE
                <5>1. r # p
                    BY DurabilityAssumption
                <5>2. \E l : Goto(p, l)
                    BY <4>1, Zenon DEF Prepare, PrepareAcquires, Commit, RelayClaims, RelayPublishes,
                        RelayMarks, PrepareClaims, PublishExpectation, CloseSession, PrepareDies
                <5>3. pc'[r] = pc[r]
                    BY <5>1, <5>2 DEF Goto, IInv, Types, Process
                <5> QED BY <1>2, <2>2, <5>3
            <4>2. ASSUME NEW q \in Recoverers, Recover(q) \/ RecoverDies(q)
                  PROVE  q = r /\ Ack(r) /\ stream' = [stream EXCEPT ![held[r]].state = "acked"]
                <5>1. \/ \E l \in {"start", "inspected", "checked", "claimed"} : Goto(q, l)
                      \/ Ack(q) /\ stream' = [stream EXCEPT ![held[q]].state = "acked"] /\ Goto(q, "done")
                    BY <4>2, Zenon DEF Recover, RecoverInspects, RecoverChecks, RecoverClaims, Ack,
                        RecoverDies
                <5>2. pc \in [Process -> {pc[x] : x \in Process}] /\ q \in Process /\ r \in Process
                    BY DEF IInv, Types, Process
                <5>3. q = r
                    BY <1>2, <2>2, <5>1, <5>2 DEF Goto
                <5> QED BY <1>2, <5>1, <5>2, <5>3 DEF Goto
            <4>3. CASE LeaseExpires \/ ClaimIdles
                BY <1>2, <2>2, <4>3 DEF LeaseExpires, ClaimIdles
            <4> QED BY <4>1, <4>2, <4>3 DEF Next
        <3>2. held[r] \in DOMAIN stream
            BY <3>1 DEF Ack, IInv, RecoverAt, Types
        <3> QED BY <3>1, <3>2, Acks, Zenon
    <2> QED BY <2>1, <2>2
<1>3. ASSUME handler' = "acked" PROVE Acked'
    BY <1>3, AckedStays DEF ReportInv, AckedInv, RunNext, runVars
<1> QED BY <1>1, <1>2, <1>3 DEF ReportInv, AckedInv

\* A step of Run keeps what is acknowledged; its queue is kept if it is not
\* opened or closed by the step.
LEMMA RunnerMoves ==
    ASSUME IInv, ReportInv, [RunNext]_allVars, alone, NEW l, Goto(Runner, l) \/ UNCHANGED pc,
           handler' # "acked" \/ handler = "acked", QueueInv', RunnerAt'
    PROVE  ReportInv'
<1>1. \A r \in Recoverers : pc'[r] = pc[r]
    BY DurabilityAssumption, RunnerAssumption DEF Goto, IInv, Types, Process
<1>2. AckedInv'
    BY <1>1, AckedStays DEF ReportInv, AckedInv
<1> QED BY <1>2 DEF ReportInv

\* Run up to the start of its service.
LEMMA EarlyRun ==
    ASSUME IInv, ReportInv, [RunNext]_allVars,
           \/ RunAcquires \/ RunRollsBack \/ RunCommits \/ RunRelays \/ RunClaims \/ RunAbandons
    PROVE  ReportInv'
<1> USE DEF At, Check
<1>1. alone /\ RunnerAt /\ QueueInv /\ pc[Runner] \in Early
    BY DEF ReportInv, RunAcquires, RunRollsBack, RunCommits, Commit, RunRelays, RelayClaims,
        RelayPublishes, RelayMarks, RunClaims, PrepareClaims, RunAbandons, Early
<1>2. UNCHANGED runVars
    BY Zenon DEF RunAcquires, RunRollsBack, RunCommits, RunRelays, RunClaims, RunAbandons
<1>3. queue = "none" /\ released = FALSE /\ QueueInv'
    BY <1>1, <1>2 DEF RunnerAt, QueueInv, runVars, Busy
<1>4. Runner \in Process /\ Runner \in Preparers
    BY RunnerAssumption DEF Process
<1>5. ASSUME NEW l, Goto(Runner, l) PROVE pc'[Runner] = l
    BY <1>4, <1>5 DEF Goto, IInv, Types
<1>6. ASSUME NEW l \in Early \ {"start", "staging", "acquired"}, Goto(Runner, l) PROVE ReportInv'
    <2>1. RunnerAt'
        BY <1>2, <1>3, <1>5, <1>6 DEF RunnerAt, Early, runVars
    <2> QED BY <1>1, <1>2, <1>3, <1>6, <2>1, RunnerMoves DEF runVars
<1>7. ASSUME NEW l \in {"staging", "acquired"}, Goto(Runner, l),
             record'.state = "acquired", record'.owner = Runner
      PROVE  ReportInv'
    <2>1. RunnerAt'
        BY <1>2, <1>3, <1>5, <1>7 DEF RunnerAt, Early, runVars
    <2> QED BY <1>1, <1>2, <1>3, <1>7, <2>1, RunnerMoves DEF runVars
<1>8. CASE RunAcquires
    <2>1. Outcome = "acquired"
        BY <1>1, <1>8 DEF RunAcquires, RunnerAt, Outcome
    <2> QED BY <1>7, <1>8, <2>1 DEF RunAcquires, Acquire
<1>9. CASE RunRollsBack
    <2>1. record.state = "acquired" /\ record.owner = Runner
        BY <1>1, <1>9 DEF RunRollsBack, RunnerAt
    <2>2. rows = 0 /\ \A e \in Preparers : outbox[e] = "none"
        BY <2>1 DEF IInv, Types, EffectInv
    <2> QED BY <1>7, <1>9, <2>1, <2>2 DEF RunRollsBack, Committable, database
<1>10. CASE RunCommits
    <2>1. Committable(Runner)
        BY <1>1, <1>10 DEF RunCommits, Commit, Committable, RunnerAt, IInv, Types, EffectInv
    <2> QED BY <1>6, <1>10, <2>1 DEF RunCommits, Commit, Early
<1>11. CASE RunRelays
    <2>1. ASSUME RelayMarks(Runner) PROVE Cardinality(batch[Runner]) = 1
        BY <1>4, <2>1, FS_Singleton, Zenon DEF RelayMarks, IInv, RelayAt
    <2> QED BY <1>6, <1>11, <2>1 DEF RunRelays, RelayClaims, RelayPublishes, RelayMarks, Early
<1>12. CASE RunClaims \/ RunAbandons
    BY <1>6, <1>12 DEF RunClaims, PrepareClaims, RunAbandons, Early
<1> QED BY <1>8, <1>9, <1>10, <1>11, <1>12

\* Run from the start of its service to its end.
LEMMA LateRun ==
    ASSUME IInv, ReportInv, [RunNext]_allVars,
           \/ RunStarts \/ RunDrains \/ RunReleases \/ RunSettles \/ RunStops \/ RunReplays
           \/ RunFails \/ RunDies
    PROVE  ReportInv'
<1> USE DEF At, Check
<1>1. alone /\ RunnerAt /\ QueueInv /\ AckedInv
    BY Zenon DEF ReportInv, RunStarts, RunDrains, RunReleases, RunSettles, RunStops, RunReplays,
        RunFails, RunDies
<1>2. UNCHANGED <<alone, ended, handler, calls, whileBusy>>
    BY Zenon DEF RunStarts, RunDrains, RunReleases, RunSettles, RunStops, RunReplays, RunFails,
        RunDies, runVars
<1>3. Runner \in Process /\ Runner \in Preparers
    BY RunnerAssumption DEF Process
<1>4. ASSUME NEW l, Goto(Runner, l) PROVE pc'[Runner] = l
    BY <1>3, <1>4 DEF Goto, IInv, Types
<1>5. UNCHANGED <<queue, released>> => QueueInv'
    BY <1>1, <1>2 DEF QueueInv, Busy
<1>6. CASE RunStarts
    <2>1. queue = "none" /\ released = FALSE
        BY <1>1, <1>6 DEF RunStarts, RunnerAt, Early
    <2>2. QueueInv'
        BY <1>1, <1>2, <1>6, <2>1 DEF RunStarts, QueueInv
    <2>3. RunnerAt'
        BY <1>4, <1>6, <2>1 DEF RunStarts, RunnerAt, Early
    <2> QED BY <1>1, <1>2, <1>6, <2>2, <2>3, RunnerMoves DEF RunStarts
<1>7. CASE RunDrains
    <2>1. queue = "open" /\ released = FALSE /\ released' = released
        BY <1>1, <1>7 DEF RunDrains, RunnerAt
    <2>2. QueueInv'
        BY <1>1, <1>2, <1>7, <2>1 DEF RunDrains, QueueInv
    <2>3. CASE Goto(Runner, "drained") /\ queue' = "closed" /\ Entered
        <3>1. handler = "running" \/ (handler = "failed" /\ ended)
            BY <1>1, <2>1, <2>3 DEF QueueInv, Entered
        <3>2. RunnerAt'
            BY <1>2, <1>4, <2>1, <2>3, <3>1 DEF RunnerAt, Early
        <3> QED BY <1>1, <1>2, <2>2, <2>3, <3>2, RunnerMoves
    <2>4. CASE Goto(Runner, "failing")
        <3>1. RunnerAt'
            BY <1>4, <2>4 DEF RunnerAt, Early
        <3> QED BY <1>1, <1>2, <2>2, <2>4, <3>1, RunnerMoves
    <2> QED BY <1>7, <2>3, <2>4 DEF RunDrains
<1>8. CASE RunReleases
    <2> DEFINE kept == queue = "closed" /\ Busy /\ calls = 0 /\ handler # "acked"
    <2>1. /\ queue = "closed" /\ released = FALSE /\ calls = 0
          /\ handler = "running" \/ (handler = "failed" /\ ended)
        BY <1>1, <1>8 DEF RunReleases, RunnerAt, QueueInv
    <2>2. UNCHANGED queue
        BY <1>8 DEF RunReleases
    <2>3. CASE handler = "running"
        <3>1. released' = TRUE /\ Goto(Runner, "released")
            BY <1>8, <2>1, <2>3, Zenon DEF RunReleases, Busy
        <3>2. QueueInv' /\ RunnerAt'
            BY <1>1, <1>2, <1>4, <2>1, <2>2, <2>3, <3>1 DEF QueueInv, Busy, RunnerAt, Early
        <3> QED BY <1>1, <1>2, <3>1, <3>2, RunnerMoves
    <2>4. CASE handler = "failed" /\ ended
        <3>1. released' = FALSE /\ Goto(Runner, "refuted")
            BY <1>8, <2>1, <2>4, Zenon DEF RunReleases, Busy
        <3>2. QueueInv' /\ RunnerAt'
            BY <1>1, <1>2, <1>4, <2>1, <2>2, <2>4, <3>1, Zenon DEF QueueInv, Busy, RunnerAt, Early
        <3> QED BY <1>1, <1>2, <3>1, <3>2, RunnerMoves
    <2> QED BY <2>1, <2>3, <2>4
<1>9. ASSUME UNCHANGED <<queue, released>>,
             NEW l \in {"failing", "gone", "settled", "stopped", "done"}, Goto(Runner, l),
             l \in {"settled", "stopped", "done"} => Acked',
             l \in {"stopped", "done"} => queue = "down"
      PROVE  ReportInv'
    <2>1. RunnerAt'
        BY <1>4, <1>9 DEF RunnerAt, Early
    <2> QED BY <1>1, <1>2, <1>5, <1>9, <2>1, RunnerMoves
<1>10. CASE RunSettles
    <2>1. CASE handler = "acked" /\ Check(Acknowledged, "settled")
        <3>1. Acked
            BY <1>1, <2>1 DEF AckedInv
        <3>2. Acknowledged /\ Acked'
            BY <3>1, AckedExcludes, AckedStays DEF Acknowledged
        <3> QED BY <1>9, <1>10, <2>1, <3>2 DEF RunSettles, runVars
    <2>2. CASE Goto(Runner, "failing")
        BY <1>9, <1>10, <2>2 DEF RunSettles, runVars
    <2> QED BY <1>10, <2>1, <2>2 DEF RunSettles
<1>11. CASE RunStops
    <2>1. Acked /\ queue = "down" /\ ~whileBusy /\ calls = 1
        BY <1>1, <1>11 DEF RunStops, RunnerAt, QueueInv
    <2>2. Acked'
        BY <2>1, AckedStays
    <2> QED BY <1>9, <1>11, <2>1, <2>2 DEF RunStops, runVars
<1>12. CASE RunReplays
    <2>1. Acked /\ queue = "down"
        BY <1>1, <1>12 DEF RunReplays, RunnerAt
    <2>2. outbox[Runner] = "delivered"
        BY <1>3, <1>12 DEF RunReplays, IInv, RelayAt, Relayed
    <2>3. rows = 1 /\ Outcome = "replayed"
        BY <1>3, <2>2 DEF IInv, Types, EffectInv, Outcome
    <2>4. Acked'
        BY <2>1, AckedStays
    <2> QED BY <1>9, <1>12, <2>1, <2>2, <2>3, <2>4 DEF RunReplays, runVars
<1>13. CASE RunFails \/ RunDies
    BY <1>9, <1>13 DEF RunFails, RunDies, runVars
<1> QED BY <1>6, <1>7, <1>8, <1>10, <1>11, <1>12, <1>13

\* The queue, its handler, the context of Run and the passing of time.
LEMMA ReportQueue ==
    ASSUME IInv, ReportInv, [RunNext]_allVars, alone,
           \/ Queue \/ ContextEnds \/ ((LeaseExpires \/ ClaimIdles) /\ UNCHANGED runVars)
    PROVE  ReportInv'
<1>1. RunnerAt /\ QueueInv /\ AckedInv
    BY DEF ReportInv
<1>2. UNCHANGED pc
    BY Zenon DEF Queue, QueueDelivers, HandlerReturns, QueueAcks, Shutdown, ContextEnds, LeaseExpires,
        ClaimIdles, vars
<1>3. ASSUME UNCHANGED <<queue, released>>, ended => ended',
             record'.state = record.state, record'.owner = record.owner,
             pc[Runner] = "drained" => handler' = "running" \/ (handler' = "failed" /\ ended')
      PROVE  RunnerAt'
    <2>1. Acked => Acked'
        BY AckedStays
    <2> QED BY <1>1, <1>2, <1>3, <2>1 DEF RunnerAt
<1>4. pc[Runner] = "drained" => /\ handler = "running" \/ (handler = "failed" /\ ended)
                                /\ queue = "closed" /\ released = FALSE
    BY <1>1 DEF RunnerAt
<1>5. CASE QueueDelivers
    <2>1. /\ handler' \in {"running", "rejected", "failed"} /\ queue = "open"
          /\ handler' = "failed" => handler \in {"acked", "failed"}
        BY <1>1, <1>5 DEF QueueDelivers, QueueInv, Entered, Busy
    <2>2. UNCHANGED <<record, queue, released, ended, calls, whileBusy>>
        BY <1>5 DEF QueueDelivers, database
    <2>3. QueueInv'
        BY <1>1, <2>1, <2>2 DEF QueueInv
    <2>4. RunnerAt'
        BY <1>3, <1>4, <2>1, <2>2
    <2> QED BY <1>2, <2>1, <2>3, <2>4, RunnerMoves
<1>6. CASE HandlerReturns
    <2>1. /\ handler = "running" /\ UNCHANGED <<record, queue, released, ended, calls, whileBusy>>
          /\ (released /\ handler' = "returned") \/ (ended /\ handler' = "failed")
        BY <1>6, Zenon DEF HandlerReturns, vars
    <2>2. QueueInv'
        BY <1>1, <2>1 DEF QueueInv, Busy
    <2>3. RunnerAt'
        BY <1>3, <1>4, <2>1
    <2> QED BY <1>2, <2>1, <2>2, <2>3, RunnerMoves
<1>7. CASE QueueAcks
    <2>1. /\ handler = "returned" /\ handler' = "acked"
          /\ UNCHANGED <<record, queue, released, ended, calls, whileBusy>>
        BY <1>7, Zenon DEF QueueAcks, database
    <2>2. Acked'
        BY <1>7, Acks, Zenon DEF QueueAcks
    <2>3. QueueInv'
        BY <1>1, <2>1 DEF QueueInv, Busy
    <2>4. RunnerAt'
        BY <1>3, <1>4, <2>1
    <2> QED BY <2>2, <2>3, <2>4 DEF ReportInv, AckedInv
<1>8. CASE Shutdown
    <2>1. /\ pc[Runner] \in {"settled", "failing", "refuted"}
          /\ queue \in {"open", "closed"} /\ ~Busy /\ queue' = "down" /\ calls' = calls + 1
          /\ whileBusy' = Busy /\ UNCHANGED <<record, released, ended, handler, stream>>
        BY <1>8, Zenon DEF Shutdown, vars
    <2>4. ~whileBusy'
        BY <2>1
    <2>2. QueueInv'
        BY <1>1, <2>1, <2>4 DEF QueueInv, Busy
    <2>3. RunnerAt'
        BY <1>1, <1>2, <2>1 DEF RunnerAt, Acked, Early
    <2> QED BY <1>2, <2>1, <2>2, <2>3, RunnerMoves
<1>9. CASE ContextEnds
    <2>1. ended' /\ UNCHANGED <<record, queue, released, handler, calls, whileBusy>>
        BY <1>9, Zenon DEF ContextEnds, vars
    <2>2. QueueInv'
        BY <1>1, <2>1 DEF QueueInv, Busy
    <2>3. RunnerAt'
        BY <1>3, <1>4, <2>1
    <2> QED BY <1>2, <2>1, <2>2, <2>3, RunnerMoves
<1>10. CASE (LeaseExpires \/ ClaimIdles) /\ UNCHANGED runVars
    <2>1. record'.state = record.state /\ record'.owner = record.owner
        BY <1>10 DEF LeaseExpires, ClaimIdles, database, IInv, Types
    <2>2. UNCHANGED <<queue, released, handler, ended, calls, whileBusy>>
        BY <1>10 DEF runVars
    <2>3. QueueInv'
        BY <1>1, <2>2 DEF QueueInv, Busy
    <2>4. RunnerAt'
        BY <1>3, <1>4, <2>1, <2>2
    <2> QED BY <1>2, <2>2, <2>3, <2>4, RunnerMoves
<1> QED BY <1>5, <1>6, <1>7, <1>8, <1>9, <1>10 DEF Queue

\* Nobody has reported anything at first.
LEMMA InitReport == RunInit => ReportInv
<1> SUFFICES ASSUME RunInit PROVE ReportInv
    OBVIOUS
<1> USE DEF RunInit, Init
<1>1. \A p \in Process : pc[p] = "start"
    BY DEF Process
<1>2. QueueInv
    BY Zenon DEF QueueInv, Busy
<1>3. AckedInv
    BY <1>1 DEF AckedInv, Process
<1>4. RunnerAt
    BY <1>1, RunnerAssumption DEF RunnerAt, Early, Process
<1> QED BY <1>2, <1>3, <1>4 DEF ReportInv

\* With the effects, the reports are inductive.
LEMMA ReportsInductive == IInv /\ ReportInv /\ [RunNext]_allVars => ReportInv'
<1> SUFFICES ASSUME IInv, ReportInv, [RunNext]_allVars PROVE ReportInv'
    OBVIOUS
<1>1. CASE ~alone /\ Next /\ UNCHANGED runVars
    BY <1>1, ReportOthers
<1>2. CASE alone /\ (LeaseExpires \/ ClaimIdles) /\ UNCHANGED runVars
    BY <1>2, ReportQueue
<1>3. CASE Run \/ RunDies
    BY <1>3, EarlyRun, LateRun DEF Run
<1>4. CASE Queue \/ ContextEnds
    <2>1. alone
        BY <1>4, Zenon DEF Queue, QueueDelivers, HandlerReturns, QueueAcks, Shutdown, ContextEnds
    <2> QED BY <1>4, <2>1, ReportQueue
<1>5. CASE UNCHANGED allVars
    BY <1>5 DEF ReportInv, QueueInv, AckedInv, RunnerAt, Acked, Busy, allVars, vars, runVars
<1> QED BY <1>1, <1>2, <1>3, <1>4, <1>5 DEF RunNext

\* What Recover and Run of integration/reference-durability report is true, for
\* any number of processes: success is final, and Run refutes none of its own
\* checks while its context lives.
THEOREM ReportsAreTrue == RunSpec => []ReportsTrue
<1>1. RunSpec => []IInv
    BY InitIInv, Inductive, PTL DEF RunSpec
<1>2. RunSpec => [](IInv /\ ReportInv)
    BY <1>1, InitReport, ReportsInductive, PTL DEF RunSpec
<1>3. IInv /\ ReportInv => ReportsTrue
    <2> SUFFICES ASSUME IInv, ReportInv PROVE ReportsTrue
        OBVIOUS
    <2>1. Acked => Acknowledged /\ Len(stream) = 1
        BY AckedExcludes DEF Acknowledged, Acked
    <2>2. RecoveredIsFinal
        BY <2>1 DEF ReportInv, AckedInv, RecoveredIsFinal
    <2>3. At("done") => Acked /\ calls = 1
        BY DEF At, ReportInv, RunnerAt, QueueInv
    <2>4. At("refuted") => ended
        BY DEF At, ReportInv, RunnerAt
    <2> QED BY <2>1, <2>2, <2>3, <2>4 DEF ReportsTrue
<1> QED BY <1>2, <1>3, PTL

=============================================================================
