------------------------------ MODULE Requests ------------------------------
(***************************************************************************)
(* A request to the business server: the middleware that businessOwner and *)
(* serverhttp.New put around the application's handler, from the outside   *)
(* in Recover, runtimeObservability.request, maintenanceRuntime.admission, *)
(* limitBody and the handler.  Each layer has its own response writer and  *)
(* its own idea of whether the response has begun, and lets a handler      *)
(* reach the original writer below them all (Unwrap).  net/http is         *)
(* modelled from its use: it commits the first final status, and 200 when  *)
(* nothing was written or the response is flushed.  Whether the server has *)
(* a Maintenance.Response and panic recovery is left open at every request *)
(* that asks, which includes every configuration.                          *)
(***************************************************************************)
EXTENDS Integers

CONSTANTS
    Calls,     \* the requests
    Inputs,    \* [path, get, cookie, large]: whether the method is GET or HEAD, and
               \* the cookie as the secret it stands for
    Statuses   \* what handlers pass to WriteHeader

ASSUME RequestsAssumption == Statuses \subseteq Nat

VARIABLES
    state,     \* maintenanceRuntime.state
    call,      \* where each request is
    refused,   \* requests that admission did not let through
    panicked,  \* requests whose handler panicked
    aborted,   \* those of them whose panic reached net/http
    direct,    \* requests whose handler began the response below the layers
    writer,    \* the response writers of each request, and the status sent
    event      \* the request event: the status and result observed

requestVars == <<call, refused, panicked, aborted, direct, writer, event>>

Unwritten == [sent |-> 0, recovered |-> FALSE, tracked |-> FALSE, status |-> 200,
              custom |-> FALSE]

\* In the place of a status: the handler has taken the connection over.
Hijacked == 1

RequestsInit ==
    /\ call = [q \in Calls |-> "none"] /\ refused = {}
    /\ panicked = {} /\ aborted = {} /\ direct = {}
    /\ writer = [q \in Calls |-> Unwritten]
    /\ event = [q \in Calls |-> [status |-> 0, failed |-> FALSE]]

-----------------------------------------------------------------------------
(* WriteHeader and Write through the layers.                               *)

\* net/http: an informational status does not commit the response.
Commit(w, code) == IF w.sent = 0 /\ code >= 200 THEN [w EXCEPT !.sent = code] ELSE w

\* responseWriter of Recover.
RecoverWrite(w, code) == Commit([w EXCEPT !.recovered = TRUE], code)

\* observedResponseWriter.WriteHeader.
ObservedWrite(w, code) ==
    IF w.tracked THEN w
    ELSE RecoverWrite([w EXCEPT !.tracked = TRUE, !.status = code], code)

\* Mutant: the caller's status is kept.
MaintenanceWriteAny(w, code) ==
    IF w.custom THEN w ELSE ObservedWrite([w EXCEPT !.custom = TRUE], code)

\* maintenanceResponseWriter.WriteHeader: whatever the status, 503.
MaintenanceWrite(w, code) ==
    IF w.custom THEN w ELSE ObservedWrite([w EXCEPT !.custom = TRUE], 503)

\* The writer that the running handler was given.
WriteHeader(q, code) ==
    IF call[q] = "custom" THEN MaintenanceWrite(writer[q], code)
                          ELSE ObservedWrite(writer[q], code)

\* Write: each layer begins the response when it has not.
WriteBody(q) == RecoverWrite(WriteHeader(q, 200), 200)

-----------------------------------------------------------------------------
(* The layers around the handler.                                          *)

\* finishRequest; the writers are gone, what was sent is not.
FinishRequest(q, w, sent, failed) ==
    /\ call' = [call EXCEPT ![q] = "done"]
    /\ event' = [event EXCEPT ![q] = [status |-> w.status, failed |-> failed \/ w.status >= 500]]
    /\ writer' = [writer EXCEPT ![q] = [Unwritten EXCEPT !.sent = sent]]

\* The handlers have returned to net/http, which sends 200 if nothing was written.
Finish(q, w, failed) == FinishRequest(q, w, Commit(w, 200).sent, failed)

\* The panic has reached net/http, which aborts the connection: a header that was
\* written but not flushed may be lost.
Abort(q, w) ==
    \E sent \in {w.sent} \cup (IF q \in direct THEN {} ELSE {0}) : FinishRequest(q, w, sent, TRUE)

\* The request passes although maintenance is on.
Bypassed(in) ==
    \/ state.secret # "" /\ in.cookie = state.secret
    \/ state.redirect # "" /\ in.path = state.redirect

\* limitBody: a body known to be too large ends here.
LimitBody(q, in) ==
    IF in.large
    THEN Finish(q, ObservedWrite(Unwritten, 413), FALSE)
    ELSE call' = [call EXCEPT ![q] = "business"] /\ UNCHANGED <<writer, event>>

\* admission, on the snapshot of this moment; Maintenance.Response may be configured.
Admission(q, in) ==
    /\ call[q] = "none"
    /\ IF ~state.enabled \/ Bypassed(in)
       THEN LimitBody(q, in) /\ UNCHANGED refused
       ELSE /\ refused' = refused \cup {q}
            /\ IF state.redirect # "" \/ (state.secret # "" /\ in.path = state.secret /\ in.get)
               THEN Finish(q, ObservedWrite(Unwritten, 302), FALSE)
               ELSE \/ call' = [call EXCEPT ![q] = "custom"] /\ UNCHANGED <<writer, event>>
                    \/ Finish(q, ObservedWrite(Unwritten, 503), FALSE)
    /\ UNCHANGED <<panicked, aborted, direct, state>>

Handling(q) == call[q] \in {"business", "custom"}

\* The handler writes a header, or a part of the body.
HandlerWrites(q, w) ==
    /\ Handling(q)
    /\ writer' = [writer EXCEPT ![q] = w]
    /\ UNCHANGED <<call, refused, panicked, aborted, direct, event, state>>

\* The handler uses http.ResponseController: Unwrap leads it past the layers, none
\* of which sees that Flush has sent 200, or that Hijack has taken the connection.
HandlerUnwraps(q, code) ==
    /\ Handling(q) /\ writer[q].sent = 0
    /\ writer' = [writer EXCEPT ![q].sent = code] /\ direct' = direct \cup {q}
    /\ UNCHANGED <<call, refused, panicked, aborted, event, state>>

\* The handler returns; admission completes an empty custom response.
HandlerReturns(q) ==
    /\ Handling(q)
    /\ Finish(q, IF call[q] = "custom" THEN MaintenanceWrite(writer[q], 503) ELSE writer[q], FALSE)
    /\ UNCHANGED <<refused, panicked, aborted, direct, state>>

\* Mutant: the observer reports the status it has, written or not.
ObservePanicAsIs(w) == w

\* request of runtimeObservability: a panic before any response is a 500.
ObservePanic(w) == IF w.tracked THEN w ELSE [w EXCEPT !.status = 500]

\* Recover: the panic becomes a 500 unless the response has begun.
Recover(w) == IF w.recovered THEN w ELSE Commit(w, 500)

\* The panic unwinds through the observer, which lets it go on, to Recover, or to
\* net/http when WithPanicRecovery(false) left Recover out.
HandlerPanics(q) ==
    /\ Handling(q)
    /\ panicked' = panicked \cup {q}
    /\ \/ Finish(q, Recover(ObservePanic(writer[q])), TRUE) /\ UNCHANGED aborted
       \/ Abort(q, ObservePanic(writer[q])) /\ aborted' = aborted \cup {q}
    /\ UNCHANGED <<refused, direct, state>>

RequestStep(q) ==
    \/ \E in \in Inputs : Admission(q, in)
    \/ \E code \in Statuses : HandlerWrites(q, WriteHeader(q, code))
    \/ HandlerWrites(q, WriteBody(q))
    \/ \E code \in {200, Hijacked} : HandlerUnwraps(q, code)
    \/ HandlerReturns(q) \/ HandlerPanics(q)

-----------------------------------------------------------------------------
(* Properties.                                                             *)

\* The request event reports the status that was sent, through every layer
\* and for handlers that write twice, write nothing or panic before or after
\* they wrote (observedResponseWriter and Recover agree on what has begun).  With
\* panic recovery off the client of a panic may have been sent nothing, which the
\* event reports as a failure.  The event is not bound to what a handler did that
\* flushed or hijacked before it wrote a status: the layers do not see that.
ObservedIsSent ==
    \A q \in Calls \ direct : call[q] = "done" =>
        /\ \/ event[q].status = writer[q].sent
           \/ writer[q].sent = 0 /\ q \in aborted
        /\ event[q].failed = (q \in panicked \/ writer[q].sent >= 500)

\* A request that maintenance refuses is told so whatever Response writes: it
\* gets 503 or a redirect, or the 500 of a Response that panics first (nothing,
\* with panic recovery off).  Only a Response that flushes or hijacks before it
\* writes escapes the 503 that maintenanceResponseWriter forces.
RefusedUnavailable ==
    \A q \in refused : call[q] = "done" =>
        \/ writer[q].sent \in {302, 503}
        \/ q \in panicked /\ writer[q].sent = (IF q \in aborted THEN 0 ELSE 500)
        \/ q \in direct /\ writer[q].sent \in {200, Hijacked}

=============================================================================
