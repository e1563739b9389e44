------------------------ MODULE LifecycleRefinement ------------------------
(***************************************************************************)
(* The lifecycle implements ServiceContract as long as no call overtakes   *)
(* Start (EarlyCallers = {}).                                              *)
(***************************************************************************)
EXTENDS Lifecycle

\* The components that are acquired and whose Stop has not returned: the
\* field started until a coordinator is launched, then its loop index.
Coordinators == {p \in Process : coord[p].op # "idle"}
Owned == IF Coordinators = {} THEN started
         ELSE coord[CHOOSE p \in Coordinators : TRUE].index

Admission == CASE ~drainStarted -> "open"
               [] drainStarted /\ drainDone = "open" -> "closing"
               [] OTHER -> "closed"

Contract == INSTANCE ServiceContract WITH
    Components <- N, Work <- Tasks,
    phase <- state, owned <- Owned, admission <- Admission,
    canceled <- (cause # None), work <- ActiveTasks

\* Every step of Start, Drain, Go, Shutdown and of the goroutines that they
\* launch is a step of the contract or leaves it unchanged: components are
\* released one by one, in reverse, when admission is closed, the service is
\* canceled and the accepted tasks have all returned, and the service is
\* stopped only when all were released.
ImplementsContract == Contract!CSpec

=============================================================================
