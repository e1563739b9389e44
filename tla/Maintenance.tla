---------------------------- MODULE Maintenance ----------------------------
(***************************************************************************)
(* Maintenance mode: the file and the shared store, the down, up and       *)
(* status commands of operators, and a service process that loads the      *)
(* state when it starts and polls it afterwards, with the requests that    *)
(* its admission middleware answers.  Commands and the process are         *)
(* separate operating system processes, each with its own store value, so  *)
(* the store's mutex never orders them.  Any of them may crash.            *)
(***************************************************************************)
EXTENDS Requests, Sequences

CONSTANTS
    Operators,
    DownOptions,        \* [retry, redirect, secret, withSecret]
    Second,             \* time.Second, in units of the durations
    MaximumDuration,    \* maximumMaintenanceDuration
    MaxStarts, MaxFaults \* bounds on process starts and on crashes and failures

ASSUME MaintenanceAssumption ==
    /\ Second \in Nat \ {0} /\ MaximumDuration \in Nat
    /\ DownOptions \subseteq [retry : Int, redirect : STRING, secret : STRING, withSecret : BOOLEAN]

VARIABLES
    shared,             \* the store is a shared one, not a file
    history,            \* the store's contents so far, the last one is current
    temps,              \* temporary files on disk, by operator
    left,               \* temporary files nobody will remove
    op, opState,        \* the step and the state of each command
    process,            \* the service process
    snapshot,           \* what its state was loaded from, as an index of history
    loading,            \* what LoadMaintenance has read, likewise
    since,              \* what was current when it started, likewise
    starts, faults

storeVars == <<shared, history, temps, left>>
commandVars == <<op, opState>>
processVars == <<process, snapshot, loading, since, starts>>
vars == <<storeVars, commandVars, processVars, faults, state, requestVars>>

stored == history[Len(history)]

Disabled == [enabled |-> FALSE, retry |-> 0, redirect |-> "", secret |-> ""]

-----------------------------------------------------------------------------
(* States, their validation and their encoding.                            *)

\* validateMaintenanceState.
ValidState(s) ==
    /\ s.retry \in 0..MaximumDuration
    /\ s.redirect # "invalid" /\ s.secret # "invalid"

\* The state that the down command builds from its options.
DownState(o) ==
    [enabled |-> TRUE, retry |-> o.retry, redirect |-> o.redirect,
     secret |-> IF o.withSecret THEN "generated" ELSE o.secret]

\* persistedMaintenanceState keeps whole seconds; a shared store keeps all.
Encode(s) == IF shared THEN s ELSE [s EXCEPT !.retry = (@ \div Second) * Second]

\* LoadMaintenance accepts what it reads: at most 8 KiB and a valid state.
Readable(s) == (shared \/ s.redirect # "oversized") /\ ValidState(s)

Init ==
    /\ shared \in BOOLEAN /\ history = <<Disabled>> /\ temps = {} /\ left = {}
    /\ op = [o \in Operators |-> "idle"] /\ opState = [o \in Operators |-> Disabled]
    /\ process = "stopped" /\ snapshot = 0 /\ loading = 0 /\ since = 0 /\ starts = 0 /\ faults = 0
    /\ state = Disabled
    /\ RequestsInit

Fault == faults < MaxFaults /\ faults' = faults + 1

-----------------------------------------------------------------------------
(* The commands.                                                           *)

Goto(o, step) == op' = [op EXCEPT ![o] = step] /\ UNCHANGED opState

\* The command returns: "ok", or an error that its exit status tells.
Return(o, r) == op' = [op EXCEPT ![o] = r] /\ opState' = [opState EXCEPT ![o] = Disabled]

\* The store takes a new value.
Publish(s) == history' = Append(history, s)

\* down: the options are checked, then those of the state.
Down(o, options) ==
    LET s == DownState(options)
    IN  /\ op[o] = "idle"
        /\ IF (options.withSecret /\ options.secret # "") \/ ~ValidState(s)
           THEN Return(o, "failed")
           ELSE op' = [op EXCEPT ![o] = "store"] /\ opState' = [opState EXCEPT ![o] = s]
        /\ UNCHANGED <<storeVars, processVars, faults, state, requestVars>>

\* StoreMaintenance of the shared store publishes in one step.
StoreShared(o) ==
    /\ op[o] = "store" /\ shared
    /\ Publish(Encode(opState[o])) /\ Goto(o, "print")
    /\ UNCHANGED <<shared, temps, left, processVars, faults, state, requestVars>>

\* StoreMaintenance of the file store writes its temporary file, in whole or,
\* when WriteFile fails, in part.
WriteTemporary(o) ==
    /\ op[o] = "store" /\ ~shared
    /\ temps' = temps \cup {o}
    /\ \/ Goto(o, "rename") /\ UNCHANGED faults
       \/ Goto(o, "remove") /\ Fault
    /\ UNCHANGED <<shared, history, left, processVars, state, requestVars>>

\* The operation's context has ended or the store fails: nothing is stored.
StoreFails(o) ==
    /\ op[o] = "store" /\ Fault
    /\ Return(o, "failed")
    /\ UNCHANGED <<storeVars, processVars, state, requestVars>>

\* The rename publishes the temporary file.
Rename(o) ==
    /\ op[o] = "rename"
    /\ Publish(Encode(opState[o])) /\ temps' = temps \ {o} /\ Goto(o, "print")
    /\ UNCHANGED <<shared, left, processVars, faults, state, requestVars>>

\* Mutant: the file counts as committed before it is renamed.
RenameFailsCommitted(o) ==
    /\ op[o] = "rename" /\ Fault
    /\ Return(o, "failed")
    /\ UNCHANGED <<storeVars, processVars, state, requestVars>>

RenameFails(o) ==
    /\ op[o] = "rename" /\ Fault
    /\ Goto(o, "remove")
    /\ UNCHANGED <<storeVars, processVars, state, requestVars>>

\* The deferred removal, whose own failure is ignored.
RemoveTemporary(o) ==
    /\ op[o] = "remove"
    /\ \/ temps' = temps \ {o} /\ UNCHANGED <<left, faults>>
       \/ left' = left \cup {o} /\ Fault /\ UNCHANGED temps
    /\ Return(o, "failed")
    /\ UNCHANGED <<shared, history, processVars, state, requestVars>>

\* up: ClearMaintenance, for which an absent file is already clear.
Up(o) ==
    /\ op[o] = "idle"
    /\ \/ /\ IF stored.enabled THEN Publish(Disabled) ELSE UNCHANGED history
          /\ Goto(o, "print") /\ UNCHANGED faults
       \/ Return(o, "failed") /\ Fault /\ UNCHANGED history
    /\ UNCHANGED <<shared, temps, left, processVars, state, requestVars>>

\* status: LoadMaintenance, then its report.
Status(o) ==
    /\ op[o] = "idle"
    /\ \/ /\ IF Readable(stored) THEN Goto(o, "print") ELSE Return(o, "failed")
          /\ UNCHANGED faults
       \/ Return(o, "failed") /\ Fault
    /\ UNCHANGED <<storeVars, processVars, state, requestVars>>

\* The command reports on stdout, which may fail after the store has changed;
\* a signal that came meanwhile is its result too.
PrintResult(o) ==
    /\ op[o] = "print"
    /\ \/ Return(o, "ok") /\ UNCHANGED faults
       \/ Return(o, "failed") /\ Fault
    /\ UNCHANGED <<storeVars, processVars, state, requestVars>>

\* The command's process dies; its temporary file stays.
CommandCrash(o) ==
    /\ op[o] \in {"store", "rename", "remove", "print"} /\ Fault
    /\ Return(o, "failed")
    /\ left' = left \cup (temps \cap {o})
    /\ UNCHANGED <<shared, history, temps, processVars, state,
                   requestVars>>

Command(o) ==
    \/ StoreShared(o) \/ WriteTemporary(o) \/ Rename(o) \/ RemoveTemporary(o) \/ PrintResult(o)

-----------------------------------------------------------------------------
(* The service process.                                                    *)

\* newMaintenanceRuntime, and the Start of its component.
ProcessStart ==
    /\ process = "stopped" /\ starts < MaxStarts
    /\ process' = "starting" /\ starts' = starts + 1 /\ since' = Len(history)
    /\ state' = Disabled /\ snapshot' = 0
    /\ UNCHANGED <<loading, storeVars, commandVars, faults, requestVars>>

\* LoadMaintenance reads the store, at once: an opened file keeps its content.
RefreshReads ==
    /\ process \in {"starting", "serving"} /\ Readable(stored)
    /\ process' = IF process = "starting" THEN "initial" ELSE "polling"
    /\ loading' = Len(history)
    /\ UNCHANGED <<snapshot, since, starts, state, storeVars, commandVars, faults, requestVars>>

\* The snapshot is replaced and, after the first load, business traffic begins.
RefreshStores ==
    /\ process \in {"initial", "polling"}
    /\ process' = "serving"
    /\ state' = history[loading] /\ snapshot' = loading /\ loading' = 0
    /\ UNCHANGED <<since, starts, storeVars, commandVars, faults, requestVars>>

\* Mutant: a load that fails leaves the state that it returned.
KeepNothing == Disabled

\* Failed refresh never replaces the prior snapshot.
KeepSnapshot == state

\* Mutant: the refresh task returns on a failed load.
AfterFailedLoadStop == IF process \in {"starting", "initial"} THEN "stopped" ELSE "stale"

\* A required load that fails prevents startup; a later one only reports.
AfterFailedLoad == IF process \in {"starting", "initial"} THEN "stopped" ELSE "serving"

\* The load fails, before it reads or at its deadline, or rejects what it reads.
RefreshFails ==
    /\ \/ process \in {"starting", "serving", "initial", "polling"} /\ Fault
       \/ process \in {"starting", "serving"} /\ ~Readable(stored) /\ UNCHANGED faults
    /\ process' = AfterFailedLoad
    /\ state' = KeepSnapshot /\ loading' = 0
    /\ UNCHANGED <<snapshot, since, starts, storeVars, commandVars, requestVars>>

\* The process ends, and its requests with it.
ProcessEnds ==
    /\ process # "stopped" /\ Fault
    /\ process' = "stopped" /\ loading' = 0
    /\ call' = [q \in Calls |-> IF Handling(q) THEN "cut" ELSE call[q]]
    /\ UNCHANGED <<snapshot, since, starts, refused, panicked, aborted, direct, writer, event, state,
                   storeVars, commandVars>>

\* Business traffic flows while the refresh task runs.
Serve(q) ==
    /\ process \in {"serving", "polling"}
    /\ RequestStep(q)
    /\ UNCHANGED <<storeVars, commandVars, processVars, faults>>

Next ==
    \/ \E o \in Operators :
          \/ \E options \in DownOptions : Down(o, options)
          \/ Up(o) \/ Status(o) \/ Command(o) \/ StoreFails(o) \/ RenameFails(o) \/ CommandCrash(o)
    \/ ProcessStart \/ RefreshReads \/ RefreshStores \/ RefreshFails \/ ProcessEnds
    \/ \E q \in Calls : Serve(q)

Spec == Init /\ [][Next]_vars

\* Commands go on, the process is started again and its ticker fires.
FairSpec ==
    /\ Spec
    /\ \A o \in Operators : WF_vars(Command(o))
    /\ WF_vars(ProcessStart) /\ WF_vars(RefreshReads) /\ WF_vars(RefreshStores)

-----------------------------------------------------------------------------
(* Properties.                                                             *)

\* What a process goes by while it serves is what the store held at one
\* moment, and no earlier a moment than its start: a down that came before
\* the process started governs its first request already, and no failed load
\* puts traffic back (component, refresh).
SnapshotGenuine ==
    process \in {"serving", "polling"} =>
        /\ snapshot >= since /\ state = history[snapshot]
        /\ \A i \in 1..Len(history) : history[i] = Disabled \/ ValidState(history[i])

\* A temporary file on disk belongs to a StoreMaintenance that is under way,
\* or to one that crashed or could not remove it.
TemporariesAccounted ==
    /\ left \subseteq temps
    /\ \A o \in temps : op[o] \in {"rename", "remove"} \/ o \in left

\* When the commands are done and the store can be read, the process comes to
\* serve by what is stored, whatever loads failed and however often it was
\* restarted before (the refresh task outlives failed loads).
SnapshotsConverge ==
    <>[](process # "stopped" /\ Readable(stored) => state = stored)

=============================================================================
