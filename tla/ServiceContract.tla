--------------------------- MODULE ServiceContract ---------------------------
(***************************************************************************)
(* What the lifecycle promises to the components and tasks of a service,   *)
(* without locks, channels or goroutines: the diagram of docs/lifecycle.md *)
(* together with what may happen in each of its states.  Components are    *)
(* acquired and released as a stack of height owned.                       *)
(***************************************************************************)
EXTENDS Integers

CONSTANTS Components, \* how many components the service has
          Work        \* the tasks it may be given

VARIABLES phase, owned, admission, canceled, work

cvars == <<phase, owned, admission, canceled, work>>

CInit ==
    /\ phase = "new" /\ owned = 0 /\ admission = "open"
    /\ canceled = FALSE /\ work = {}

Begin == phase = "new" /\ phase' = "starting" /\ UNCHANGED <<owned, admission, canceled, work>>

Acquire ==
    /\ phase = "starting" /\ owned < Components
    /\ owned' = owned + 1
    /\ UNCHANGED <<phase, admission, canceled, work>>

\* All components are owned, and nothing has ended the service yet.
BecomeReady ==
    /\ phase = "starting" /\ owned = Components /\ ~canceled
    /\ phase' = "ready"
    /\ UNCHANGED <<owned, admission, canceled, work>>

\* A failed start goes straight to stopping.
Abort == phase = "starting" /\ phase' = "stopping" /\ UNCHANGED <<owned, admission, canceled, work>>

Accept(t) ==
    /\ phase = "ready" /\ ~canceled /\ t \notin work
    /\ work' = work \cup {t}
    /\ UNCHANGED <<phase, owned, admission, canceled>>

Finish(t) ==
    /\ t \in work
    /\ work' = work \ {t}
    /\ UNCHANGED <<phase, owned, admission, canceled>>

Withdraw == phase = "ready" /\ phase' = "draining" /\ UNCHANGED <<owned, admission, canceled, work>>

\* The one admission closure of a service that takes no more work.
CloseAdmission ==
    /\ phase \in {"draining", "stopping"} /\ admission = "open"
    /\ admission' = "closing"
    /\ UNCHANGED <<phase, owned, canceled, work>>

AdmissionClosed ==
    /\ admission = "closing" /\ admission' = "closed"
    /\ UNCHANGED <<phase, owned, canceled, work>>

\* The owner of the parent context may end the service at any time, the
\* service itself only when admission is closed.
ParentCancel ==
    /\ phase # "new" /\ canceled' = TRUE
    /\ UNCHANGED <<phase, owned, admission, work>>

ServiceCancel ==
    /\ admission = "closed" /\ canceled' = TRUE
    /\ UNCHANGED <<phase, owned, admission, work>>

Stop ==
    /\ phase = "draining" /\ admission = "closed"
    /\ phase' = "stopping" /\ canceled' = TRUE
    /\ UNCHANGED <<owned, admission, work>>

\* Components are released in reverse order, after all work has finished.
Release ==
    /\ phase = "stopping" /\ admission = "closed" /\ canceled /\ work = {}
    /\ owned > 0 /\ owned' = owned - 1
    /\ UNCHANGED <<phase, admission, canceled, work>>

Retire ==
    /\ \/ phase = "new"
       \/ phase = "stopping" /\ admission = "closed" /\ canceled /\ work = {} /\ owned = 0
    /\ phase' = "stopped"
    /\ UNCHANGED <<owned, admission, canceled, work>>

CNext ==
    \/ Begin \/ Acquire \/ BecomeReady \/ Abort \/ Withdraw
    \/ \E t \in Work : Accept(t) \/ Finish(t)
    \/ CloseAdmission \/ AdmissionClosed \/ ParentCancel \/ ServiceCancel
    \/ Stop \/ Release \/ Retire

CSpec == CInit /\ [][CNext]_cvars

=============================================================================
