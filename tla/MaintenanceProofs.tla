------------------------- MODULE MaintenanceProofs -------------------------
(***************************************************************************)
(* Proofs about Maintenance and Requests for any number of requests and    *)
(* operators, any options and any history of the store.                    *)
(***************************************************************************)
EXTENDS Maintenance, TLAPS

\* A leaf has more than the default time: in a long module it may wait for another.
USE SMTT(20), ZenonT(20)

-----------------------------------------------------------------------------
(* Requests.  The writers of a response are all untouched, or they all     *)
(* agree on the status that was sent, unless the handler began the         *)
(* response below them: what it sent then stays.                           *)

Writers == [sent : Nat, recovered : BOOLEAN, tracked : BOOLEAN, status : Nat, custom : BOOLEAN]

Fresh(w) == ~w.recovered /\ ~w.tracked /\ w.sent = 0 /\ w.status = 200

Begun(w) == w.recovered /\ w.tracked /\ w.sent >= 200 /\ w.status = w.sent

\* What the writers of a custom response can be, whatever it writes.
CustomWriter(w) ==
    \/ Fresh(w) /\ ~w.custom
    \/ Begun(w) /\ w.custom /\ w.sent = 503

\* Handlers end their responses: no status that they pass is informational.
FinalStatuses == \A code \in Statuses : code >= 200

RequestTypes ==
    /\ DOMAIN call = Calls /\ writer \in [Calls -> Writers] /\ DOMAIN event = Calls
    /\ refused \subseteq Calls

\* A request that was refused has been told so, or is at the custom response.
Refusal(q) ==
    /\ call[q] = "none" => Fresh(writer[q]) /\ ~writer[q].custom
    /\ call[q] = "custom" /\ q \notin direct => CustomWriter(writer[q])
    /\ q \in direct => writer[q].sent \in {200, Hijacked}
    /\ q \in panicked => call[q] = "done"
    /\ q \in aborted => q \in panicked
    /\ q \in refused => call[q] \in {"custom", "done", "cut"}
    /\ q \in refused /\ call[q] = "done" =>
          \/ writer[q].sent \in {302, 503}
          \/ q \in panicked /\ writer[q].sent = (IF q \in aborted THEN 0 ELSE 500)
          \/ q \in direct /\ writer[q].sent \in {200, Hijacked}

RequestInv == RequestTypes /\ \A q \in Calls : Refusal(q)

\* The observer agrees with the response, also while the handler runs.
Agreed(q) ==
    q \notin direct =>
        /\ call[q] = "business" => Fresh(writer[q]) \/ Begun(writer[q])
        /\ call[q] = "done" =>
              /\ \/ event[q].status = writer[q].sent
                 \/ writer[q].sent = 0 /\ q \in aborted
              /\ event[q].failed \in BOOLEAN
              /\ event[q].failed <=> q \in panicked \/ writer[q].sent >= 500

AgreedInv == \A q \in Calls : Agreed(q)

\* A write through the layers leaves typed writers.
LEMMA WriterTypes ==
    ASSUME NEW w \in Writers, NEW code \in Nat
    PROVE  /\ Commit(w, code) \in Writers
           /\ RecoverWrite(w, code) \in Writers
           /\ ObservedWrite(w, code) \in Writers
           /\ MaintenanceWrite(w, code) \in Writers
<1>1. ASSUME NEW v \in Writers, NEW c \in Nat PROVE Commit(v, c) \in Writers
    BY DEF Writers, Commit
<1>2. ASSUME NEW v \in Writers, NEW c \in Nat PROVE RecoverWrite(v, c) \in Writers
    <2>1. [v EXCEPT !.recovered = TRUE] \in Writers
        BY Zenon DEF Writers
    <2> QED BY <1>1, <2>1 DEF RecoverWrite
<1>3. ASSUME NEW v \in Writers, NEW c \in Nat PROVE ObservedWrite(v, c) \in Writers
    <2>1. [v EXCEPT !.tracked = TRUE, !.status = c] \in Writers
        BY Zenon DEF Writers
    <2> QED BY <1>2, <2>1 DEF ObservedWrite
<1>4. [w EXCEPT !.custom = TRUE] \in Writers
    BY Zenon DEF Writers
<1> QED BY <1>1, <1>2, <1>3, <1>4 DEF MaintenanceWrite

\* The first final status goes through every layer.
LEMMA FirstWrite ==
    ASSUME NEW w \in Writers, Fresh(w), NEW code \in Nat, code >= 200
    PROVE  LET v == ObservedWrite(w, code)
           IN  Begun(v) /\ v.sent = code /\ (v.custom <=> w.custom)
<1> DEFINE u == [w EXCEPT !.tracked = TRUE, !.status = code]
           t == [u EXCEPT !.recovered = TRUE]
           v == [t EXCEPT !.sent = code]
<1>1. /\ u \in Writers /\ u.sent = 0 /\ u.status = code /\ u.tracked
      /\ u.custom = w.custom
    <2>1. u \in Writers
        BY Zenon DEF Writers
    <2> QED BY <2>1 DEF Writers, Fresh
<1> HIDE DEF u
<1>2. /\ t \in Writers /\ t.sent = 0 /\ t.status = code /\ t.tracked /\ t.recovered
      /\ t.custom = w.custom
    <2>1. t \in Writers
        BY <1>1, ZenonT(30) DEF Writers
    <2> QED BY <1>1, <2>1 DEF Writers
<1> HIDE DEF t
<1>3. /\ v.sent = code /\ v.status = code /\ v.tracked /\ v.recovered
      /\ v.custom = w.custom
    BY <1>2 DEF Writers
<1>4. Commit(t, code) = v
    BY <1>2 DEF Commit
<1>5. ObservedWrite(w, code) = v
    BY <1>4 DEF ObservedWrite, RecoverWrite, Fresh, t, u
<1> HIDE DEF v
<1> QED BY <1>3, <1>5 DEF Begun

\* Writers that have begun keep their status.
LEMMA LaterWrite ==
    ASSUME NEW w \in Writers, Begun(w), NEW code \in Nat
    PROVE  /\ ObservedWrite(w, code) = w
           /\ Commit(w, code) = w
           /\ LET v == RecoverWrite(w, code)
              IN  Begun(v) /\ v.sent = w.sent /\ v.custom = w.custom
<1>1. ObservedWrite(w, code) = w
    BY DEF ObservedWrite, Begun
<1>2. Commit(w, code) = w
    BY DEF Commit, Begun, Writers
<1> DEFINE v == [w EXCEPT !.recovered = TRUE]
<1>3. /\ v.sent = w.sent /\ v.status = w.status /\ v.tracked /\ v.recovered
      /\ v.custom = w.custom /\ v.sent # 0
    BY DEF Writers, Begun
<1>4. RecoverWrite(w, code) = v
    BY <1>3 DEF RecoverWrite, Commit
<1> HIDE DEF v
<1> QED BY <1>1, <1>2, <1>3, <1>4 DEF Begun

\* What was sent, or the hijacking, stays whatever is written later.
LEMMA SentStays ==
    ASSUME NEW w \in Writers, w.sent # 0, NEW code \in Nat
    PROVE  /\ Commit(w, code).sent = w.sent
           /\ RecoverWrite(w, code).sent = w.sent
           /\ ObservedWrite(w, code).sent = w.sent
           /\ MaintenanceWrite(w, code).sent = w.sent
<1>1. ASSUME NEW v \in Writers, v.sent # 0, NEW c \in Nat PROVE Commit(v, c).sent = v.sent
    BY <1>1 DEF Commit
<1>2. ASSUME NEW v \in Writers, v.sent # 0, NEW c \in Nat PROVE RecoverWrite(v, c).sent = v.sent
    <2> DEFINE u == [v EXCEPT !.recovered = TRUE]
    <2>1. u \in Writers
        BY Zenon DEF Writers
    <2>2. u.sent = v.sent
        BY DEF Writers
    <2>3. RecoverWrite(v, c) = Commit(u, c)
        BY DEF RecoverWrite
    <2> HIDE DEF u
    <2> QED BY <1>1, <1>2, <2>1, <2>2, <2>3
<1>3. ASSUME NEW v \in Writers, v.sent # 0, NEW c \in Nat PROVE ObservedWrite(v, c).sent = v.sent
    <2> DEFINE u == [v EXCEPT !.tracked = TRUE, !.status = c]
    <2>1. u \in Writers
        BY Zenon DEF Writers
    <2>2. u.sent = v.sent
        BY DEF Writers
    <2>3. ObservedWrite(v, c) = v \/ ObservedWrite(v, c) = RecoverWrite(u, c)
        BY DEF ObservedWrite
    <2> HIDE DEF u
    <2> QED BY <1>2, <1>3, <2>1, <2>2, <2>3
<1>4. MaintenanceWrite(w, code).sent = w.sent
    <2> DEFINE u == [w EXCEPT !.custom = TRUE]
    <2>1. u \in Writers
        BY Zenon DEF Writers
    <2>2. u.sent = w.sent
        BY DEF Writers
    <2>3. MaintenanceWrite(w, code) = w \/ MaintenanceWrite(w, code) = ObservedWrite(u, 503)
        BY DEF MaintenanceWrite
    <2> HIDE DEF u
    <2> QED BY <1>3, <2>1, <2>2, <2>3
<1> QED BY <1>1, <1>2, <1>3, <1>4

\* The writers that a request is given are untouched.
LEMMA UnwrittenIsFresh == Unwritten \in Writers /\ Fresh(Unwritten) /\ ~Unwritten.custom
BY DEF Unwritten, Writers, Fresh

\* The end of a request that was sent s, with the event e.
LEMMA RequestEnds ==
    ASSUME RequestTypes, NEW q \in Calls, NEW s \in Nat, NEW e,
           call' = [call EXCEPT ![q] = "done"],
           event' = [event EXCEPT ![q] = e],
           writer' = [writer EXCEPT ![q] = [Unwritten EXCEPT !.sent = s]],
           refused' \subseteq Calls
    PROVE  /\ RequestTypes'
           /\ call'[q] = "done"
           /\ writer'[q].sent = s
           /\ event'[q] = e
           /\ \A p \in Calls \ {q} :
                 call'[p] = call[p] /\ writer'[p] = writer[p] /\ event'[p] = event[p]
<1> DEFINE u == [Unwritten EXCEPT !.sent = s]
<1>1. u \in Writers /\ u.sent = s
    BY UnwrittenIsFresh DEF Writers
<1>2. writer' = [writer EXCEPT ![q] = u]
    OBVIOUS
<1> HIDE DEF u
<1>3. /\ DOMAIN event' = Calls /\ event'[q] = e
      /\ \A p \in Calls \ {q} : event'[p] = event[p]
    BY DEF RequestTypes
<1>4. /\ DOMAIN call' = Calls /\ call'[q] = "done"
      /\ \A p \in Calls \ {q} : call'[p] = call[p]
    BY DEF RequestTypes
<1>5. /\ writer' \in [Calls -> Writers] /\ writer'[q] = u
      /\ \A p \in Calls \ {q} : writer'[p] = writer[p]
    BY <1>1, <1>2 DEF RequestTypes
<1> QED BY <1>1, <1>3, <1>4, <1>5, Zenon DEF RequestTypes

\* net/http sends 200 when nothing was written.
LEMMA ImplicitStatus ==
    ASSUME NEW w \in Writers
    PROVE  Commit(w, 200).sent \in Nat /\ Commit(w, 200).sent = IF w.sent = 0 THEN 200 ELSE w.sent
BY DEF Commit, Writers

FinishServed(q, w) == Finish(q, w, FALSE)

FinishPanicked(q, w, s) == FinishRequest(q, w, s, TRUE)

\* The event of a request whose handler returned, or was not asked.
LEMMA ServedEvent ==
    ASSUME RequestTypes, NEW q \in Calls, NEW w \in Writers,
           FinishServed(q, w), refused' \subseteq Calls
    PROVE  /\ RequestTypes'
           /\ call'[q] = "done"
           /\ writer'[q].sent = IF w.sent = 0 THEN 200 ELSE w.sent
           /\ event'[q].status = w.status
           /\ event'[q].failed \in BOOLEAN /\ (event'[q].failed <=> w.status >= 500)
           /\ \A p \in Calls \ {q} :
                 call'[p] = call[p] /\ writer'[p] = writer[p] /\ event'[p] = event[p]
<1> DEFINE f == FALSE \/ w.status >= 500
           e == [status |-> w.status, failed |-> f]
<1>1. /\ call' = [call EXCEPT ![q] = "done"]
      /\ event' = [event EXCEPT ![q] = e]
      /\ writer' = [writer EXCEPT ![q] = [Unwritten EXCEPT !.sent = Commit(w, 200).sent]]
    BY Zenon DEF Finish, FinishRequest, FinishServed
<1> DEFINE s == Commit(w, 200).sent
<1>a. s \in Nat /\ s = IF w.sent = 0 THEN 200 ELSE w.sent
    BY ImplicitStatus
<1>b. writer' = [writer EXCEPT ![q] = [Unwritten EXCEPT !.sent = s]]
    BY <1>1, Zenon
<1> HIDE DEF s
<1>2. f \in BOOLEAN /\ (f <=> w.status >= 500)
    OBVIOUS
<1> HIDE DEF f
<1>3. e.status = w.status /\ e.failed = f
    OBVIOUS
<1> HIDE DEF e
<1>4. /\ RequestTypes'
      /\ call'[q] = "done"
      /\ writer'[q].sent = s
      /\ event'[q] = e
      /\ \A p \in Calls \ {q} :
            call'[p] = call[p] /\ writer'[p] = writer[p] /\ event'[p] = event[p]
    <2>1. call' = [call EXCEPT ![q] = "done"] /\ event' = [event EXCEPT ![q] = e]
        BY <1>1, Zenon
    <2>2. s \in Nat
        BY <1>a, Zenon
    <2> QED BY <1>b, <2>1, <2>2, RequestEnds, Zenon
<1>5. /\ event'[q].status = w.status
      /\ event'[q].failed \in BOOLEAN /\ (event'[q].failed <=> w.status >= 500)
    BY <1>2, <1>3, <1>4, ZenonT(30)
<1>6. writer'[q].sent = IF w.sent = 0 THEN 200 ELSE w.sent
    BY <1>a, <1>4, Zenon
<1> QED BY <1>4, <1>5, <1>6, Zenon

\* The event of a request whose handler panicked.
LEMMA PanickedEvent ==
    ASSUME RequestTypes, NEW q \in Calls, NEW w \in Writers, NEW s \in Nat,
           FinishPanicked(q, w, s), refused' \subseteq Calls
    PROVE  /\ RequestTypes'
           /\ call'[q] = "done"
           /\ writer'[q].sent = s
           /\ event'[q].status = w.status
           /\ event'[q].failed \in BOOLEAN /\ event'[q].failed
           /\ \A p \in Calls \ {q} :
                 call'[p] = call[p] /\ writer'[p] = writer[p] /\ event'[p] = event[p]
<1> DEFINE f == TRUE \/ w.status >= 500
           e == [status |-> w.status, failed |-> f]
<1>1. /\ call' = [call EXCEPT ![q] = "done"]
      /\ event' = [event EXCEPT ![q] = e]
      /\ writer' = [writer EXCEPT ![q] = [Unwritten EXCEPT !.sent = s]]
    BY Zenon DEF FinishRequest, FinishPanicked
<1>2. f \in BOOLEAN /\ f
    OBVIOUS
<1> HIDE DEF f
<1>3. e.status = w.status /\ e.failed = f
    OBVIOUS
<1> HIDE DEF e
<1>4. /\ RequestTypes'
      /\ call'[q] = "done"
      /\ writer'[q].sent = s
      /\ event'[q] = e
      /\ \A p \in Calls \ {q} :
            call'[p] = call[p] /\ writer'[p] = writer[p] /\ event'[p] = event[p]
    BY <1>1, RequestEnds, Zenon
<1>5. event'[q].status = w.status /\ event'[q].failed \in BOOLEAN /\ event'[q].failed
    BY <1>2, <1>3, <1>4, Zenon
<1> QED BY <1>4, <1>5, Zenon

\* What admission does: it passes the request on, hands it to the custom
\* response, or answers it.
Passed(q) == call' = [call EXCEPT ![q] = "business"] /\ UNCHANGED <<writer, event, refused>>

Diverted(q) ==
    /\ call' = [call EXCEPT ![q] = "custom"] /\ refused' = refused \cup {q}
    /\ UNCHANGED <<writer, event>>

Answered(q, code) ==
    /\ FinishServed(q, ObservedWrite(Unwritten, code))
    /\ refused' = refused \/ (refused' = refused \cup {q} /\ code # 413)

\* admission does one of these.
LEMMA Admitted ==
    ASSUME NEW q \in Calls, NEW in, Admission(q, in)
    PROVE  \/ Passed(q) \/ Diverted(q)
           \/ Answered(q, 302) \/ Answered(q, 413) \/ Answered(q, 503)
<1>1. CASE ~state.enabled \/ Bypassed(in)
    <2>1. LimitBody(q, in) /\ refused' = refused
        BY <1>1, Zenon DEF Admission
    <2>2. CASE in.large
        <3>1. Finish(q, ObservedWrite(Unwritten, 413), FALSE)
            BY <2>1, <2>2, Zenon DEF LimitBody
        <3>2. Answered(q, 413)
            BY <2>1, <3>1, Zenon DEF Answered, FinishServed
        <3> QED BY <3>2, Zenon
    <2>3. CASE ~in.large
        <3>1. Passed(q)
            BY <2>1, <2>3, Zenon DEF LimitBody, Passed
        <3> QED BY <3>1, Zenon
    <2> QED BY <2>2, <2>3, Zenon
<1>2. CASE ~(~state.enabled \/ Bypassed(in))
    <2> DEFINE redirected == \/ state.redirect # ""
                             \/ state.secret # "" /\ in.path = state.secret /\ in.get
               diverted == call' = [call EXCEPT ![q] = "custom"] /\ UNCHANGED <<writer, event>>
               answered == Finish(q, ObservedWrite(Unwritten, 503), FALSE)
    <2>1. refused' = refused \cup {q}
        BY <1>2, Zenon DEF Admission
    <2>2. CASE redirected
        <3>1. Finish(q, ObservedWrite(Unwritten, 302), FALSE)
            BY <1>2, <2>2, Zenon DEF Admission
        <3>2. 302 # 413
            OBVIOUS
        <3>3. Answered(q, 302)
            BY <2>1, <3>1, <3>2, Zenon DEF Answered, FinishServed
        <3> QED BY <3>3, Zenon
    <2>3. redirected \/ diverted \/ answered
        BY <1>2, Zenon DEF Admission
    <2>4. CASE diverted
        <3>1. Diverted(q)
            BY <2>1, <2>4, Zenon DEF Diverted
        <3> QED BY <3>1, ZenonT(30)
    <2>5. CASE answered
        <3>1. 503 # 413
            OBVIOUS
        <3>2. Answered(q, 503)
            BY <2>1, <2>5, <3>1, Zenon DEF Answered, FinishServed
        <3> QED BY <3>2, Zenon
    <2> QED BY <2>2, <2>3, <2>4, <2>5, Zenon
<1> QED BY <1>1, <1>2, Zenon

\* A step of one request leaves the others alone.
Others(q) ==
    \A p \in Calls \ {q} :
        /\ call'[p] = call[p] /\ writer'[p] = writer[p] /\ event'[p] = event[p]
        /\ p \in refused' <=> p \in refused
        /\ p \in panicked' <=> p \in panicked
        /\ p \in aborted' <=> p \in aborted
        /\ p \in direct' <=> p \in direct

\* What is to be shown of a step of request q.
Kept(q) ==
    /\ RequestTypes' /\ Others(q) /\ Refusal(q)'
    /\ FinalStatuses /\ Agreed(q) => Agreed(q)'

\* admission keeps the invariants.
LEMMA AdmissionKeeps ==
    ASSUME RequestTypes, NEW q \in Calls, Refusal(q), NEW in, Admission(q, in)
    PROVE  Kept(q)
<1>1. /\ call[q] = "none" /\ UNCHANGED <<panicked, aborted, direct>>
      /\ q \notin refused /\ q \notin panicked /\ q \notin aborted
      /\ Fresh(writer[q]) /\ ~writer[q].custom
    BY Zenon DEF Admission, Refusal
<1>a. q \notin direct
    BY <1>1 DEF Refusal, Fresh, Hijacked
<1>2. ASSUME Passed(q) PROVE Kept(q)
    <2> USE <1>2 DEF Passed
    <2>1. /\ RequestTypes' /\ call'[q] = "business"
          /\ \A p \in Calls \ {q} : call'[p] = call[p]
        BY <1>2 DEF RequestTypes
    <2>2. Others(q)
        BY <1>1, <1>a, <1>2, <2>1 DEF Others
    <2>3. Refusal(q)'
        BY <1>1, <1>a, <1>2, <2>1 DEF Refusal
    <2>4. Agreed(q)'
        BY <1>1, <1>a, <1>2, <2>1 DEF Agreed, Fresh
    <2> QED BY <2>1, <2>2, <2>3, <2>4 DEF Kept
<1>3. ASSUME Diverted(q) PROVE Kept(q)
    <2> USE <1>3 DEF Diverted
    <2>1. /\ RequestTypes' /\ call'[q] = "custom"
          /\ \A p \in Calls \ {q} : call'[p] = call[p]
        BY <1>3 DEF RequestTypes
    <2>2. Others(q)
        BY <1>1, <1>a, <1>3, <2>1 DEF Others
    <2>3. CustomWriter(writer[q])'
        BY <1>1, <1>a, <1>3 DEF CustomWriter, Fresh
    <2>4. Refusal(q)'
        BY <1>1, <1>a, <1>3, <2>1, <2>3 DEF Refusal
    <2>5. Agreed(q)'
        BY <1>1, <1>a, <2>1 DEF Agreed
    <2> QED BY <2>1, <2>2, <2>4, <2>5 DEF Kept
<1>4. ASSUME NEW code \in {302, 413, 503}, Answered(q, code) PROVE Kept(q)
    <2>1. /\ FinishServed(q, ObservedWrite(Unwritten, code))
          /\ refused' = refused \/ (refused' = refused \cup {q} /\ code # 413)
        BY <1>4 DEF Answered
    <2>2. code \in Nat /\ code >= 200
        OBVIOUS
    <2>3. PICK w \in Writers : w = ObservedWrite(Unwritten, code) /\ Begun(w) /\ w.sent = code
        BY <2>2, UnwrittenIsFresh, WriterTypes, FirstWrite
    <2>4. refused' \subseteq Calls
        BY <2>1 DEF RequestTypes
    <2>5. FinishServed(q, w)
        BY <2>1, <2>3
    <2>6. /\ RequestTypes' /\ call'[q] = "done"
          /\ writer'[q].sent = IF w.sent = 0 THEN 200 ELSE w.sent
          /\ event'[q].status = w.status
          /\ event'[q].failed \in BOOLEAN /\ (event'[q].failed <=> w.status >= 500)
          /\ \A p \in Calls \ {q} :
                 call'[p] = call[p] /\ writer'[p] = writer[p] /\ event'[p] = event[p]
        BY <2>3, <2>4, <2>5, ServedEvent
    <2>7. Others(q)
        BY <1>1, <1>a, <2>1, <2>6 DEF Others
    <2>8. writer'[q].sent = code /\ event'[q].status = code
        BY <2>2, <2>3, <2>6 DEF Begun
    <2>9. Refusal(q)'
        BY <1>1, <1>a, <2>1, <2>6, <2>8 DEF Refusal
    <2>10. event'[q].failed <=> q \in panicked' \/ writer'[q].sent >= 500
        BY <1>1, <1>a, <2>3, <2>6, <2>8 DEF Begun
    <2>11. Agreed(q)'
        BY <2>6, <2>8, <2>10 DEF Agreed
    <2> QED BY <2>6, <2>7, <2>9, <2>11 DEF Kept
<1> QED BY <1>2, <1>3, <1>4, Admitted

\* Whatever a custom response writes is a 503.
LEMMA CustomWrites ==
    ASSUME NEW w \in Writers, CustomWriter(w), NEW code \in Nat
    PROVE  LET v == MaintenanceWrite(w, code)
           IN  v \in Writers /\ Begun(v) /\ v.custom /\ v.sent = 503
<1>1. CASE Fresh(w) /\ ~w.custom
    <2> DEFINE u == [w EXCEPT !.custom = TRUE]
               v == ObservedWrite(u, 503)
    <2>1. u \in Writers /\ Fresh(u) /\ u.custom
        <3>1. u \in Writers
            BY Zenon DEF Writers
        <3> QED BY <1>1, <3>1 DEF Fresh, Writers
    <2>2. MaintenanceWrite(w, code) = v
        BY <1>1 DEF MaintenanceWrite
    <2> HIDE DEF u
    <2>3. v \in Writers
        BY <2>1, WriterTypes
    <2>4. Begun(v) /\ v.custom /\ v.sent = 503
        BY <2>1, FirstWrite
    <2> HIDE DEF v
    <2> QED BY <2>1, <2>2, <2>3, <2>4
<1>2. CASE Begun(w) /\ w.custom /\ w.sent = 503
    BY <1>2 DEF MaintenanceWrite
<1> QED BY <1>1, <1>2 DEF CustomWriter

\* The handler's write of a status.
LEMMA HeaderWrites ==
    ASSUME RequestTypes, NEW q \in Calls, Refusal(q), Handling(q), NEW code \in Nat
    PROVE  LET w == WriteHeader(q, code)
           IN  /\ w \in Writers
               /\ writer[q].sent # 0 => w.sent = writer[q].sent
               /\ call[q] = "custom" /\ q \notin direct => CustomWriter(w) /\ Begun(w)
               /\ code >= 200 /\ Agreed(q) /\ q \notin direct => Begun(w)
<1> DEFINE v == writer[q]
           w == WriteHeader(q, code)
<1>1. v \in Writers
    BY DEF RequestTypes
<1>2. CASE call[q] = "custom"
    <2>1. (q \notin direct => CustomWriter(v)) /\ w = MaintenanceWrite(v, code)
        BY <1>2 DEF Refusal, WriteHeader
    <2> HIDE DEF v, w
    <2>2. w \in Writers /\ (v.sent # 0 => w.sent = v.sent)
        BY <1>1, <2>1, WriterTypes, SentStays
    <2>3. q \notin direct => CustomWriter(w) /\ Begun(w)
        BY <1>1, <2>1, CustomWrites DEF CustomWriter
    <2> QED BY <2>2, <2>3 DEF v, w
<1>3. CASE call[q] = "business"
    <2>1. w = ObservedWrite(v, code)
        BY <1>3 DEF WriteHeader
    <2>2. Agreed(q) /\ q \notin direct => Fresh(v) \/ Begun(v)
        BY <1>3 DEF Agreed
    <2> HIDE DEF v, w
    <2>3. w \in Writers /\ (v.sent # 0 => w.sent = v.sent)
        BY <1>1, <2>1, WriterTypes, SentStays
    <2>4. ASSUME code >= 200, Agreed(q), q \notin direct PROVE Begun(w)
        <3>1. CASE Fresh(v)
            BY <1>1, <2>1, <2>4, <3>1, FirstWrite
        <3>2. CASE Begun(v)
            BY <1>1, <2>1, <3>2, LaterWrite
        <3> QED BY <2>2, <2>4, <3>1, <3>2
    <2> QED BY <1>3, <2>3, <2>4 DEF v, w
<1> QED BY <1>2, <1>3 DEF Handling

\* The handler's write of a part of the body.
LEMMA BodyWrites ==
    ASSUME RequestTypes, NEW q \in Calls, Refusal(q), Handling(q)
    PROVE  LET w == WriteBody(q)
           IN  /\ w \in Writers
               /\ writer[q].sent # 0 => w.sent = writer[q].sent
               /\ call[q] = "custom" /\ q \notin direct => CustomWriter(w)
               /\ Agreed(q) /\ q \notin direct => Begun(w)
<1> DEFINE v == WriteHeader(q, 200)
           w == RecoverWrite(v, 200)
<1>1. /\ v \in Writers
      /\ writer[q].sent # 0 => v.sent = writer[q].sent
      /\ call[q] = "custom" /\ q \notin direct => CustomWriter(v) /\ Begun(v)
      /\ Agreed(q) /\ q \notin direct => Begun(v)
    BY HeaderWrites
<1>2. WriteBody(q) = w
    BY DEF WriteBody
<1> HIDE DEF v
<1>3. w \in Writers /\ (v.sent # 0 => w.sent = v.sent)
    BY <1>1, WriterTypes, SentStays
<1>4. ASSUME Begun(v) PROVE Begun(w) /\ w.sent = v.sent /\ w.custom = v.custom
    BY <1>1, <1>4, LaterWrite
<1> HIDE DEF w
<1>5. ASSUME CustomWriter(v), Begun(v) PROVE CustomWriter(w)
    BY <1>4, <1>5 DEF CustomWriter, Fresh, Begun
<1> QED BY <1>1, <1>2, <1>3, <1>4, <1>5

\* A write keeps the invariants when its writers do.
LEMMA WriteKeeps ==
    ASSUME RequestTypes, NEW q \in Calls, Refusal(q), NEW w \in Writers, HandlerWrites(q, w),
           writer[q].sent # 0 => w.sent = writer[q].sent,
           call[q] = "custom" /\ q \notin direct => CustomWriter(w),
           FinalStatuses /\ Agreed(q) /\ q \notin direct => Begun(w)
    PROVE  Kept(q)
<1>1. /\ Handling(q) /\ writer' = [writer EXCEPT ![q] = w]
      /\ UNCHANGED <<call, refused, panicked, aborted, direct, event>>
    BY DEF HandlerWrites
<1>2. /\ RequestTypes' /\ writer'[q] = w
      /\ \A p \in Calls \ {q} : writer'[p] = writer[p]
    BY <1>1 DEF RequestTypes
<1>3. Others(q)
    BY <1>1, <1>2 DEF Others
<1>4. q \in direct => w.sent \in {200, Hijacked}
    BY DEF Refusal, Hijacked
<1>5. Refusal(q)'
    BY <1>1, <1>2, <1>4 DEF Refusal, Handling
<1>6. ASSUME FinalStatuses, Agreed(q) PROVE Agreed(q)'
    BY <1>1, <1>2, <1>6 DEF Agreed, Handling
<1> QED BY <1>2, <1>3, <1>5, <1>6 DEF Kept

\* A response that begins below the layers keeps the invariants.
LEMMA UnwrapKeeps ==
    ASSUME RequestTypes, NEW q \in Calls, Refusal(q), NEW code \in {200, Hijacked},
           HandlerUnwraps(q, code)
    PROVE  Kept(q)
<1>1. /\ Handling(q) /\ writer' = [writer EXCEPT ![q].sent = code]
      /\ direct' = direct \cup {q}
      /\ UNCHANGED <<call, refused, panicked, aborted, event>>
    BY Zenon DEF HandlerUnwraps
<1>2. code \in Nat /\ writer[q] \in Writers
    BY DEF RequestTypes, Hijacked
<1> DEFINE w == [writer[q] EXCEPT !.sent = code]
<1>3. w \in Writers /\ w.sent = code
    BY <1>2 DEF Writers
<1>4. writer' = [writer EXCEPT ![q] = w]
    BY <1>1, Zenon
<1> HIDE DEF w
<1>5. /\ RequestTypes' /\ writer'[q] = w
      /\ \A p \in Calls \ {q} : writer'[p] = writer[p]
    BY <1>1, <1>3, <1>4 DEF RequestTypes
<1>6. Others(q)
    BY <1>1, <1>5 DEF Others
<1>7. Refusal(q)'
    BY <1>1, <1>3, <1>5 DEF Refusal, Handling
<1>8. Agreed(q)'
    BY <1>1 DEF Agreed
<1> QED BY <1>5, <1>6, <1>7, <1>8 DEF Kept

\* The return of a handler keeps the invariants.
LEMMA ReturnKeeps ==
    ASSUME RequestTypes, NEW q \in Calls, Refusal(q), HandlerReturns(q)
    PROVE  Kept(q)
<1> DEFINE w == IF call[q] = "custom" THEN MaintenanceWrite(writer[q], 503) ELSE writer[q]
<1>1. Handling(q) /\ FinishServed(q, w) /\ UNCHANGED <<refused, panicked, aborted, direct>>
    BY Zenon DEF HandlerReturns, FinishServed
<1>2. writer[q] \in Writers
    BY DEF RequestTypes
<1>3. w \in Writers /\ (writer[q].sent # 0 => w.sent = writer[q].sent)
    <2>1. LET v == MaintenanceWrite(writer[q], 503)
          IN  v \in Writers /\ (writer[q].sent # 0 => v.sent = writer[q].sent)
        BY <1>2, WriterTypes, SentStays
    <2> QED BY <1>2, <2>1
<1>4. ASSUME call[q] = "custom", q \notin direct PROVE Begun(w) /\ w.sent = 503
    <2>1. CustomWriter(writer[q]) /\ w = MaintenanceWrite(writer[q], 503)
        BY <1>4 DEF Refusal
    <2> QED BY <1>2, <2>1, CustomWrites
<1>5. ASSUME call[q] = "business", q \notin direct PROVE Agreed(q) => Fresh(w) \/ Begun(w)
    BY <1>5 DEF Agreed
<1>6. refused' \subseteq Calls /\ q \notin panicked' /\ q \notin aborted'
    BY <1>1 DEF RequestTypes, Refusal, Handling
<1>7. call[q] = "business" => q \notin refused'
    BY <1>1 DEF Refusal
<1> HIDE DEF w
<1>8. /\ RequestTypes' /\ call'[q] = "done"
      /\ writer'[q].sent = IF w.sent = 0 THEN 200 ELSE w.sent
      /\ event'[q].status = w.status
      /\ event'[q].failed \in BOOLEAN /\ (event'[q].failed <=> w.status >= 500)
      /\ \A p \in Calls \ {q} :
             call'[p] = call[p] /\ writer'[p] = writer[p] /\ event'[p] = event[p]
    BY <1>1, <1>3, <1>6, ServedEvent
<1>9. Others(q)
    BY <1>1, <1>8 DEF Others
<1>10. q \in direct => writer'[q].sent \in {200, Hijacked}
    BY <1>3, <1>8 DEF Refusal, Hijacked
<1>11. Refusal(q)'
    BY <1>1, <1>4, <1>6, <1>7, <1>8, <1>10 DEF Refusal, Handling
<1>12. ASSUME Agreed(q), q \notin direct PROVE Agreed(q)'
    <2>1. Fresh(w) \/ Begun(w)
        BY <1>1, <1>4, <1>5, <1>12 DEF Handling
    <2>2. w.status = writer'[q].sent
        BY <1>3, <1>8, <2>1 DEF Fresh, Begun, Writers
    <2> QED BY <1>6, <1>8, <2>2 DEF Agreed
<1>13. q \in direct => Agreed(q)'
    BY <1>1 DEF Agreed
<1> QED BY <1>8, <1>9, <1>11, <1>12, <1>13 DEF Kept

\* A panic becomes a 500 in Recover, or ends the connection, with what was sent
\* below the layers or maybe without what was not flushed.
LEMMA PanicEnds ==
    ASSUME RequestTypes, NEW q \in Calls, Refusal(q), HandlerPanics(q)
    PROVE  LET v == writer[q]
               w == ObservePanic(v)
           IN  /\ Handling(q) /\ UNCHANGED <<refused, direct>> /\ panicked' = panicked \cup {q}
               /\ w \in Writers /\ w.status = (IF v.tracked THEN v.status ELSE 500)
               /\ \E s \in Nat :
                     /\ FinishPanicked(q, w, s)
                     /\ \/ /\ UNCHANGED aborted
                           /\ v.sent # 0 => s = v.sent
                           /\ v.sent = 0 /\ ~v.recovered => s = 500
                        \/ /\ aborted' = aborted \cup {q}
                           /\ s = v.sent \/ (s = 0 /\ q \notin direct)
<1> DEFINE v == writer[q]
           w == ObservePanic(v)
           u == Recover(w)
<1>1. /\ Handling(q) /\ UNCHANGED <<refused, direct>> /\ panicked' = panicked \cup {q}
      /\ \/ Finish(q, u, TRUE) /\ UNCHANGED aborted
         \/ Abort(q, w) /\ aborted' = aborted \cup {q}
    BY Zenon DEF HandlerPanics
<1>2. v \in Writers
    BY DEF RequestTypes
<1> HIDE DEF v
<1>3. /\ w \in Writers /\ w.sent = v.sent /\ w.recovered = v.recovered
      /\ w.status = IF v.tracked THEN v.status ELSE 500
    BY <1>2 DEF ObservePanic, Writers
<1> HIDE DEF w
<1>4. /\ u \in Writers
      /\ v.sent # 0 => u.sent = v.sent
      /\ v.sent = 0 /\ ~v.recovered => u.sent = 500
    BY <1>3 DEF Recover, Commit, Writers
<1> HIDE DEF u
<1>5. CASE Finish(q, u, TRUE) /\ UNCHANGED aborted
    <2> DEFINE s == Commit(u, 200).sent
    <2>1. s \in Nat /\ (u.sent # 0 => s = u.sent)
        BY <1>4, ImplicitStatus
    <2>2. FinishPanicked(q, w, s)
        <3>1. u.status = w.status
            BY <1>3 DEF u, Recover, Commit, Writers
        <3> QED BY <1>5, <3>1, Zenon DEF Finish, FinishRequest, FinishPanicked
    <2> HIDE DEF s
    <2> QED BY <1>1, <1>3, <1>4, <1>5, <2>1, <2>2 DEF v, w
<1>6. CASE Abort(q, w) /\ aborted' = aborted \cup {q}
    <2>1. PICK s \in {w.sent} \cup (IF q \in direct THEN {} ELSE {0}) : FinishPanicked(q, w, s)
        BY <1>6, Zenon DEF Abort, FinishPanicked
    <2>2. s \in Nat /\ (s = v.sent \/ (s = 0 /\ q \notin direct))
        BY <1>3, <2>1 DEF Writers
    <2> QED BY <1>1, <1>3, <1>6, <2>1, <2>2 DEF v, w
<1> QED BY <1>1, <1>5, <1>6

\* A panic keeps the invariants.
LEMMA PanicKeeps ==
    ASSUME RequestTypes, NEW q \in Calls, Refusal(q), HandlerPanics(q)
    PROVE  Kept(q)
<1> DEFINE v == writer[q]
           w == ObservePanic(v)
<1>1. /\ Handling(q) /\ UNCHANGED <<refused, direct>> /\ panicked' = panicked \cup {q}
      /\ w \in Writers /\ w.status = (IF v.tracked THEN v.status ELSE 500)
    BY PanicEnds
<1>2. PICK s \in Nat :
         /\ FinishPanicked(q, w, s)
         /\ \/ /\ UNCHANGED aborted
               /\ v.sent # 0 => s = v.sent
               /\ v.sent = 0 /\ ~v.recovered => s = 500
            \/ /\ aborted' = aborted \cup {q}
               /\ s = v.sent \/ (s = 0 /\ q \notin direct)
    BY PanicEnds
<1>3. /\ v \in Writers /\ refused' \subseteq Calls /\ q \in panicked'
      /\ q \notin aborted
      /\ call[q] = "business" => q \notin refused'
    BY <1>1 DEF RequestTypes, Refusal, Handling
<1>4. /\ call[q] = "custom" /\ q \notin direct => CustomWriter(v)
      /\ call[q] = "business" /\ q \notin direct /\ Agreed(q) => Fresh(v) \/ Begun(v)
      /\ q \in direct => v.sent \in {200, Hijacked}
    BY DEF Refusal, Agreed
<1> HIDE DEF v, w
<1>5. /\ RequestTypes' /\ call'[q] = "done"
      /\ writer'[q].sent = s
      /\ event'[q].status = w.status
      /\ event'[q].failed \in BOOLEAN /\ event'[q].failed
      /\ \A p \in Calls \ {q} :
             call'[p] = call[p] /\ writer'[p] = writer[p] /\ event'[p] = event[p]
    BY <1>1, <1>2, <1>3, PanickedEvent
<1>6. Others(q)
    BY <1>1, <1>2, <1>5 DEF Others
<1>7. ASSUME Fresh(v) PROVE w.status = 500 /\ s = (IF q \in aborted' THEN 0 ELSE 500)
    <2>1. ~v.tracked /\ ~v.recovered /\ v.sent = 0
        BY <1>7 DEF Fresh
    <2> QED BY <1>1, <1>2, <1>3, <2>1
<1>8. ASSUME Begun(v)
      PROVE  w.status = v.sent /\ (s = v.sent \/ (s = 0 /\ q \in aborted' /\ q \notin direct))
    <2>1. v.tracked /\ v.sent # 0 /\ v.status = v.sent
        BY <1>8 DEF Begun
    <2> QED BY <1>1, <1>2, <2>1
<1>9. q \in direct => s \in {200, Hijacked}
    BY <1>2, <1>4 DEF Hijacked
<1>10. Refusal(q)'
    <2>1. ASSUME call[q] = "custom", q \notin direct
          PROVE  s = 503 \/ s = (IF q \in aborted' THEN 0 ELSE 500)
        BY <1>4, <1>7, <1>8, <2>1 DEF CustomWriter
    <2>2. q \in refused' => call[q] = "custom"
        BY <1>1, <1>3 DEF Handling
    <2> QED BY <1>1, <1>3, <1>5, <1>9, <2>1, <2>2 DEF Refusal
<1>11. ASSUME Agreed(q), q \notin direct PROVE Agreed(q)'
    <2>1. Fresh(v) \/ Begun(v)
        BY <1>1, <1>4, <1>11 DEF Handling, CustomWriter
    <2>2. w.status = s \/ (s = 0 /\ q \in aborted')
        BY <1>7, <1>8, <2>1
    <2> QED BY <1>3, <1>5, <2>2 DEF Agreed
<1>12. q \in direct => Agreed(q)'
    BY <1>1 DEF Agreed
<1> QED BY <1>5, <1>6, <1>10, <1>11, <1>12 DEF Kept

\* A step of a request keeps the invariants of that request.
LEMMA RequestKeeps ==
    ASSUME RequestTypes, NEW q \in Calls, Refusal(q), RequestStep(q)
    PROVE  Kept(q)
<1>1. CASE \E in \in Inputs : Admission(q, in)
    BY <1>1, AdmissionKeeps
<1>2. CASE \E code \in Statuses : HandlerWrites(q, WriteHeader(q, code))
    <2>1. PICK code \in Statuses : HandlerWrites(q, WriteHeader(q, code))
        BY <1>2
    <2>2. code \in Nat /\ Handling(q) /\ (FinalStatuses => code >= 200)
        BY <2>1, RequestsAssumption DEF HandlerWrites, FinalStatuses
    <2> DEFINE w == WriteHeader(q, code)
    <2>3. /\ w \in Writers
          /\ writer[q].sent # 0 => w.sent = writer[q].sent
          /\ call[q] = "custom" /\ q \notin direct => CustomWriter(w)
          /\ FinalStatuses /\ Agreed(q) /\ q \notin direct => Begun(w)
        BY <2>2, HeaderWrites
    <2>4. PICK v \in Writers : v = w
        BY <2>3
    <2>5. HandlerWrites(q, v)
        BY <2>1, <2>4
    <2> HIDE DEF w
    <2> QED BY <2>3, <2>4, <2>5, WriteKeeps
<1>3. CASE HandlerWrites(q, WriteBody(q))
    <2>1. Handling(q)
        BY <1>3 DEF HandlerWrites
    <2> DEFINE w == WriteBody(q)
    <2>2. /\ w \in Writers
          /\ writer[q].sent # 0 => w.sent = writer[q].sent
          /\ call[q] = "custom" /\ q \notin direct => CustomWriter(w)
          /\ Agreed(q) /\ q \notin direct => Begun(w)
        BY <2>1, BodyWrites
    <2>3. PICK v \in Writers : v = w
        BY <2>2
    <2>4. HandlerWrites(q, v)
        BY <1>3, <2>3
    <2> HIDE DEF w
    <2> QED BY <2>2, <2>3, <2>4, WriteKeeps
<1>4. CASE HandlerReturns(q)
    BY <1>4, ReturnKeeps
<1>5. CASE HandlerPanics(q)
    BY <1>5, PanicKeeps
<1>6. CASE \E code \in {200, Hijacked} : HandlerUnwraps(q, code)
    BY <1>6, UnwrapKeeps
<1> QED BY <1>1, <1>2, <1>3, <1>4, <1>5, <1>6 DEF RequestStep

\* Steps of commands and of the process, other than its end, leave requests be.
LEMMA OtherSteps ==
    ASSUME [Next]_vars
    PROVE  \/ UNCHANGED requestVars
           \/ ProcessEnds
           \/ \E q \in Calls : RequestStep(q)
<1>1. ASSUME NEW o \in Operators, NEW options \in DownOptions, Down(o, options)
      PROVE  UNCHANGED requestVars
    BY <1>1, Zenon DEF Down
<1>2. ASSUME NEW o \in Operators, Up(o) \/ Status(o) \/ StoreFails(o) \/ RenameFails(o)
      PROVE  UNCHANGED requestVars
    BY <1>2 DEF Up, Status, StoreFails, RenameFails
<1>3. ASSUME NEW o \in Operators, Command(o) \/ CommandCrash(o)
      PROVE  UNCHANGED requestVars
    BY <1>3 DEF Command, CommandCrash, StoreShared, WriteTemporary, Rename, RemoveTemporary,
                PrintResult
<1>4. ASSUME ProcessStart \/ RefreshReads \/ RefreshStores \/ RefreshFails
      PROVE  UNCHANGED requestVars
    BY <1>4 DEF ProcessStart, RefreshReads, RefreshStores, RefreshFails
<1>5. ASSUME NEW q \in Calls, Serve(q) PROVE RequestStep(q)
    BY <1>5 DEF Serve
<1>6. ASSUME UNCHANGED vars PROVE UNCHANGED requestVars
    BY <1>6 DEF vars
<1> QED BY <1>1, <1>2, <1>3, <1>4, <1>5, <1>6 DEF Next

\* Requests start with fresh writers.
LEMMA InitRequests == Init => RequestInv /\ AgreedInv
<1> SUFFICES ASSUME Init PROVE RequestInv /\ AgreedInv
    OBVIOUS
<1>1. /\ call = [q \in Calls |-> "none"] /\ refused = {}
      /\ panicked = {} /\ aborted = {} /\ direct = {}
      /\ writer = [q \in Calls |-> Unwritten]
      /\ DOMAIN event = Calls
    BY DEF Init, RequestsInit
<1>2. RequestTypes
    BY <1>1, UnwrittenIsFresh DEF RequestTypes
<1>3. ASSUME NEW q \in Calls PROVE Refusal(q) /\ Agreed(q)
    BY <1>1, UnwrittenIsFresh DEF Refusal, Agreed
<1> QED BY <1>2, <1>3 DEF RequestInv, AgreedInv

\* The invariants of one request depend on what Others keeps.
LEMMA RequestFrame ==
    ASSUME NEW p \in Calls,
           call'[p] = call[p], writer'[p] = writer[p], event'[p] = event[p],
           p \in refused' <=> p \in refused, p \in panicked' <=> p \in panicked,
           p \in aborted' <=> p \in aborted, p \in direct' <=> p \in direct
    PROVE  (Refusal(p) => Refusal(p)') /\ (Agreed(p) => Agreed(p)')
<1>1. Refusal(p) => Refusal(p)'
    BY DEF Refusal
<1>2. Agreed(p) => Agreed(p)'
    BY DEF Agreed
<1> QED BY <1>1, <1>2

\* Every step keeps the invariants of all requests.
LEMMA NextRequests ==
    ASSUME RequestInv, [Next]_vars
    PROVE  RequestInv' /\ (FinalStatuses /\ AgreedInv => AgreedInv')
<1>1. CASE UNCHANGED requestVars
    <2>1. RequestTypes'
        BY <1>1 DEF RequestInv, RequestTypes, requestVars
    <2>2. ASSUME NEW p \in Calls
          PROVE  Refusal(p)' /\ (Agreed(p) => Agreed(p)')
        BY <1>1, RequestFrame DEF RequestInv, requestVars
    <2> QED BY <2>1, <2>2 DEF RequestInv, AgreedInv
<1>2. CASE ProcessEnds
    <2>1. /\ call' = [q \in Calls |-> IF Handling(q) THEN "cut" ELSE call[q]]
          /\ UNCHANGED <<refused, panicked, aborted, direct, writer, event>>
        BY <1>2 DEF ProcessEnds
    <2>2. RequestTypes'
        BY <2>1 DEF RequestInv, RequestTypes
    <2>3. ASSUME NEW p \in Calls PROVE Refusal(p)' /\ (Agreed(p) => Agreed(p)')
        <3>1. CASE Handling(p)
            <4>1. /\ call'[p] = "cut" /\ p \notin panicked /\ p \notin aborted
                  /\ p \in direct => writer[p].sent \in {200, Hijacked}
                BY <2>1, <3>1 DEF RequestInv, Refusal, Handling
            <4> QED BY <2>1, <4>1 DEF Refusal, Agreed
        <3>2. CASE ~Handling(p)
            <4>1. call'[p] = call[p]
                BY <2>1, <3>2
            <4> QED BY <2>1, <4>1, RequestFrame DEF RequestInv
        <3> QED BY <3>1, <3>2
    <2> QED BY <2>2, <2>3 DEF RequestInv, AgreedInv
<1>3. CASE \E q \in Calls : RequestStep(q)
    <2>1. PICK q \in Calls : RequestStep(q)
        BY <1>3
    <2>2. Kept(q)
        BY <2>1, RequestKeeps DEF RequestInv
    <2>3. ASSUME NEW p \in Calls \ {q} PROVE Refusal(p)' /\ (Agreed(p) => Agreed(p)')
        BY <2>2, RequestFrame DEF RequestInv, Kept, Others
    <2> QED BY <2>2, <2>3 DEF RequestInv, AgreedInv, Kept
<1> QED BY <1>1, <1>2, <1>3, OtherSteps

\* A request that maintenance refuses is told so: 503, a redirect, or the 500 (with
\* panic recovery off, nothing) of a Response that panics before it writes; only one
\* that flushes or hijacks first escapes the 503 (maintenanceResponseWriter, Unwrap).
THEOREM RefusedAreTold == Spec => []RefusedUnavailable
<1>1. Init => RequestInv
    BY InitRequests
<1>2. RequestInv /\ [Next]_vars => RequestInv'
    BY NextRequests
<1>3. RequestInv => RefusedUnavailable
    BY DEF RequestInv, RequestTypes, Refusal, RefusedUnavailable
<1> QED BY <1>1, <1>2, <1>3, PTL DEF Spec

\* The request event tells the status that was sent, or of a failure when a panic
\* aborted the connection, for handlers that pass final statuses only and write
\* them before they flush (observedResponseWriter takes an informational status for
\* the response's, and does not see a flush).
THEOREM ObservedStatusIsSent ==
    ASSUME FinalStatuses
    PROVE  Spec => []ObservedIsSent
<1>1. Init => RequestInv /\ AgreedInv
    BY InitRequests
<1>2. RequestInv /\ AgreedInv /\ [Next]_vars => RequestInv' /\ AgreedInv'
    BY NextRequests
<1>3. AgreedInv => ObservedIsSent
    BY DEF AgreedInv, Agreed, ObservedIsSent
<1> QED BY <1>1, <1>2, <1>3, PTL DEF Spec

-----------------------------------------------------------------------------
(* Temporary files.                                                        *)

TemporaryInv ==
    /\ DOMAIN op = Operators /\ temps \subseteq Operators /\ left \subseteq temps
    /\ \A o \in Operators : op[o] \in {"rename", "remove"} => o \in temps /\ o \notin left
    /\ \A o \in temps : op[o] \in {"rename", "remove"} \/ o \in left
    /\ \A o \in left : op[o] = "failed"

\* Every step keeps them accounted for.
LEMMA TemporarySteps == ASSUME TemporaryInv, [Next]_vars PROVE TemporaryInv'
<1> USE DEF TemporaryInv
<1>1. ASSUME NEW o \in Operators, NEW options \in DownOptions, Down(o, options)
      PROVE  TemporaryInv'
    BY <1>1, Zenon DEF Down, Return, storeVars
<1>2. ASSUME NEW o \in Operators, Up(o) PROVE TemporaryInv'
    BY <1>2 DEF Up, Return, Goto
<1>3. ASSUME NEW o \in Operators, Status(o) PROVE TemporaryInv'
    BY <1>3 DEF Status, Return, Goto, storeVars
<1>4. ASSUME NEW o \in Operators, StoreShared(o) PROVE TemporaryInv'
    BY <1>4 DEF StoreShared, Goto
<1>5. ASSUME NEW o \in Operators, WriteTemporary(o) PROVE TemporaryInv'
    BY <1>5 DEF WriteTemporary, Goto
<1>6. ASSUME NEW o \in Operators, Rename(o) PROVE TemporaryInv'
    BY <1>6 DEF Rename, Goto
<1>7. ASSUME NEW o \in Operators, RemoveTemporary(o) PROVE TemporaryInv'
    BY <1>7 DEF RemoveTemporary, Return
<1>8. ASSUME NEW o \in Operators, PrintResult(o) PROVE TemporaryInv'
    BY <1>8 DEF PrintResult, Return, storeVars
<1>9. ASSUME NEW o \in Operators, StoreFails(o) PROVE TemporaryInv'
    BY <1>9 DEF StoreFails, Return, storeVars
<1>10. ASSUME NEW o \in Operators, RenameFails(o) PROVE TemporaryInv'
    BY <1>10 DEF RenameFails, Goto, storeVars
<1>11. ASSUME NEW o \in Operators, CommandCrash(o) PROVE TemporaryInv'
    BY <1>11 DEF CommandCrash, Return
<1>12. ASSUME UNCHANGED <<op, temps, left>> PROVE TemporaryInv'
    BY <1>12
<1>13. ASSUME ProcessStart \/ RefreshReads \/ RefreshStores \/ RefreshFails \/ ProcessEnds
       PROVE  UNCHANGED <<op, temps, left>>
    BY <1>13 DEF ProcessStart, RefreshReads, RefreshStores, RefreshFails, ProcessEnds, storeVars,
                 commandVars
<1>14. ASSUME NEW q \in Calls, Serve(q) PROVE UNCHANGED <<op, temps, left>>
    BY <1>14 DEF Serve, storeVars, commandVars
<1>15. ASSUME UNCHANGED vars PROVE UNCHANGED <<op, temps, left>>
    BY <1>15 DEF vars, storeVars, commandVars
<1> HIDE DEF TemporaryInv
<1> QED BY <1>1, <1>2, <1>3, <1>4, <1>5, <1>6, <1>7, <1>8, <1>9, <1>10, <1>11, <1>12, <1>13,
           <1>14, <1>15 DEF Next, Command

\* A temporary file belongs to a command that still has to rename or remove it,
\* or was left by one that crashed or could not (StoreMaintenance).
THEOREM TemporariesAreAccounted == Spec => []TemporariesAccounted
<1>1. Init => TemporaryInv
    BY DEF Init, TemporaryInv
<1>2. TemporaryInv /\ [Next]_vars => TemporaryInv'
    BY TemporarySteps
<1>3. TemporaryInv => TemporariesAccounted
    BY DEF TemporaryInv, TemporariesAccounted
<1> QED BY <1>1, <1>2, <1>3, PTL DEF Spec

-----------------------------------------------------------------------------
(* Snapshots.                                                              *)

\* Whole seconds are no more than the duration they were taken from.
LEMMA WholeSeconds ==
    ASSUME NEW r \in Nat, NEW s \in Nat \ {0}
    PROVE  (r \div s) * s \in 0..r
OBVIOUS

\* The paths and secrets that occur.
Texts == {"", "generated"} \cup {o.redirect : o \in DownOptions} \cup {o.secret : o \in DownOptions}

States == [enabled : BOOLEAN, retry : Int, redirect : Texts, secret : Texts]

Accepted(s) == s = Disabled \/ ValidState(s)

\* What a command stores has been validated; so has the history.
HistoryInv ==
    /\ DOMAIN op = Operators /\ opState \in [Operators -> States]
    /\ \A o \in Operators : op[o] \in {"store", "rename"} => ValidState(opState[o])
    /\ history \in Seq(States) /\ Len(history) >= 1
    /\ \A i \in 1..Len(history) : Accepted(history[i])

\* The history only grows.
Grows ==
    /\ Len(history') >= Len(history)
    /\ \A i \in 1..Len(history) : history'[i] = history[i]

\* The process has read nothing older than its start, and goes by what it read.
SnapshotInv ==
    /\ process \in {"stopped", "starting", "initial", "serving", "polling"}
    /\ process # "stopped" => since \in 1..Len(history)
    /\ process \in {"initial", "polling"} => loading \in since..Len(history)
    /\ process \in {"serving", "polling"} =>
          snapshot \in since..Len(history) /\ state = history[snapshot]

\* A state without maintenance is a state.
LEMMA DisabledState == Disabled \in States
<1>1. "" \in Texts /\ 0 \in Int
    BY DEF Texts
<1> QED BY <1>1, Zenon DEF Disabled, States

\* Encoding a valid state leaves a valid state.
LEMMA EncodeValid ==
    ASSUME NEW s \in States, ValidState(s)
    PROVE  Encode(s) \in States /\ ValidState(Encode(s))
<1>1. CASE shared
    BY <1>1 DEF Encode
<1>2. CASE ~shared
    <2> DEFINE r == (s.retry \div Second) * Second
               e == [s EXCEPT !.retry = r]
    <2>1. r \in 0..MaximumDuration
        BY WholeSeconds, MaintenanceAssumption DEF ValidState
    <2>2. Encode(s) = e
        BY <1>2 DEF Encode
    <2> HIDE DEF r
    <2>3. e \in States /\ e.retry = r /\ e.redirect = s.redirect /\ e.secret = s.secret
        BY <2>1 DEF States
    <2> HIDE DEF e
    <2> QED BY <2>1, <2>2, <2>3 DEF ValidState
<1> QED BY <1>1, <1>2

\* The state that down builds is a state.
LEMMA DownStates == ASSUME NEW o \in DownOptions PROVE DownState(o) \in States
<1>1. o \in [retry : Int, redirect : STRING, secret : STRING, withSecret : BOOLEAN]
    BY MaintenanceAssumption
<1> DEFINE s == IF o.withSecret THEN "generated" ELSE o.secret
<1>2. s \in Texts /\ o.retry \in Int /\ o.redirect \in Texts
    BY <1>1, Zenon DEF Texts
<1> HIDE DEF s
<1>3. [enabled |-> TRUE, retry |-> o.retry, redirect |-> o.redirect, secret |-> s] \in States
    BY <1>2, Zenon DEF States
<1> QED BY <1>3 DEF DownState, s

\* Publishing an accepted state grows the history.
LEMMA Publishing ==
    ASSUME history \in Seq(States), Len(history) >= 1,
           \A i \in 1..Len(history) : Accepted(history[i]),
           NEW s \in States, Accepted(s), Publish(s)
    PROVE  /\ history' \in Seq(States) /\ Len(history') >= 1
           /\ \A i \in 1..Len(history') : Accepted(history'[i])
           /\ Grows
<1>1. /\ history' \in Seq(States) /\ Len(history') = Len(history) + 1
      /\ \A i \in 1..Len(history) : history'[i] = history[i]
      /\ history'[Len(history) + 1] = s
    BY DEF Publish
<1>2. Len(history) \in Nat
    OBVIOUS
<1>3. ASSUME NEW i \in 1..Len(history') PROVE Accepted(history'[i])
    <2>1. CASE i \in 1..Len(history)
        BY <1>1, <2>1
    <2>2. CASE i = Len(history) + 1
        BY <1>1, <2>2
    <2> QED BY <1>1, <1>2, <2>1, <2>2
<1> QED BY <1>1, <1>2, <1>3 DEF Grows

\* A command that goes on to another step, or returns.
LEMMA CommandMoves ==
    ASSUME HistoryInv, NEW o \in Operators, NEW step,
           \/ op' = [op EXCEPT ![o] = step] /\ UNCHANGED opState
           \/ op' = [op EXCEPT ![o] = step] /\ opState' = [opState EXCEPT ![o] = Disabled],
           step \notin {"store", "rename"} \/ (op[o] = "store" /\ UNCHANGED opState)
    PROVE  /\ DOMAIN op' = Operators /\ opState' \in [Operators -> States]
           /\ \A x \in Operators : op'[x] \in {"store", "rename"} => ValidState(opState'[x])
<1>1. /\ DOMAIN op' = Operators /\ opState' \in [Operators -> States]
      /\ op'[o] = step
      /\ \A x \in Operators \ {o} : op'[x] = op[x] /\ opState'[x] = opState[x]
    BY DisabledState DEF HistoryInv
<1>2. ASSUME NEW x \in Operators \ {o}, op'[x] \in {"store", "rename"}
      PROVE  ValidState(opState'[x])
    BY <1>1, <1>2 DEF HistoryInv
<1>3. ASSUME op'[o] \in {"store", "rename"} PROVE ValidState(opState'[o])
    BY <1>1, <1>3 DEF HistoryInv
<1> QED BY <1>1, <1>2, <1>3

\* A history that does not change grows by nothing.
LEMMA HistoryStays ==
    ASSUME HistoryInv, UNCHANGED history
    PROVE  /\ history' \in Seq(States) /\ Len(history') >= 1
           /\ \A i \in 1..Len(history') : Accepted(history'[i])
           /\ Grows
<1>1. Len(history) \in Nat
    BY DEF HistoryInv
<1> QED BY <1>1 DEF HistoryInv, Grows

\* The store only takes validated states, whatever the commands do.
LEMMA HistorySteps == ASSUME HistoryInv, [Next]_vars PROVE HistoryInv' /\ Grows
<1> DEFINE Moved == /\ DOMAIN op' = Operators /\ opState' \in [Operators -> States]
                    /\ \A x \in Operators :
                          op'[x] \in {"store", "rename"} => ValidState(opState'[x])
           Grown == /\ history' \in Seq(States) /\ Len(history') >= 1
                    /\ \A i \in 1..Len(history') : Accepted(history'[i])
                    /\ Grows
<1>1. Moved /\ Grown => HistoryInv' /\ Grows
    BY DEF HistoryInv
<1>2. UNCHANGED history => Grown
    BY HistoryStays
<1>3. UNCHANGED <<op, opState>> => Moved
    BY DEF HistoryInv
<1>4. ASSUME NEW s \in States, Accepted(s), Publish(s) PROVE Grown
    BY <1>4, Publishing DEF HistoryInv
<1>5. ASSUME NEW o \in Operators,
             \E r \in {"print", "remove", "ok", "failed"} : Goto(o, r) \/ Return(o, r)
      PROVE  Moved
    <2>1. PICK r \in {"print", "remove", "ok", "failed"} : Goto(o, r) \/ Return(o, r)
        BY <1>5
    <2> HIDE DEF Moved
    <2>2. r \notin {"store", "rename"}
        OBVIOUS
    <2> QED BY <2>1, <2>2, CommandMoves DEF Goto, Return, Moved
<1> HIDE DEF Moved, Grown
<1>6. ASSUME NEW o \in Operators, NEW options \in DownOptions, Down(o, options)
      PROVE  Moved /\ Grown
    <2>1. Grown
        BY <1>2, <1>6, Zenon DEF Down, storeVars
    <2> DEFINE s == DownState(options)
    <2>2. CASE Return(o, "failed")
        BY <1>5, <2>1, <2>2
    <2>3. CASE /\ ValidState(s)
               /\ op' = [op EXCEPT ![o] = "store"] /\ opState' = [opState EXCEPT ![o] = s]
        <3>1. s \in States
            BY DownStates
        <3> HIDE DEF s
        <3> QED BY <2>1, <2>3, <3>1 DEF Moved, HistoryInv
    <2> QED BY <1>6, <2>2, <2>3, Zenon DEF Down
<1>7. ASSUME NEW o \in Operators, Up(o) PROVE Moved /\ Grown
    <2>1. Moved
        BY <1>5, <1>7 DEF Up
    <2>2. Publish(Disabled) \/ UNCHANGED history
        BY <1>7 DEF Up
    <2> QED BY <1>2, <1>4, <2>1, <2>2, DisabledState DEF Accepted
<1>8. ASSUME NEW o \in Operators, StoreShared(o) \/ Rename(o) PROVE Moved /\ Grown
    <2>1. /\ op[o] \in {"store", "rename"}
          /\ Publish(Encode(opState[o])) /\ Goto(o, "print")
        BY <1>8 DEF StoreShared, Rename
    <2>2. opState[o] \in States /\ ValidState(opState[o])
        BY <2>1 DEF HistoryInv
    <2>3. Encode(opState[o]) \in States /\ Accepted(Encode(opState[o]))
        BY <2>2, EncodeValid DEF Accepted
    <2>4. PICK s \in States : Accepted(s) /\ Publish(s)
        BY <2>1, <2>3
    <2> QED BY <1>4, <1>5, <2>1, <2>4
<1>9. ASSUME NEW o \in Operators, WriteTemporary(o) PROVE Moved /\ Grown
    <2>1. UNCHANGED history /\ (Goto(o, "rename") \/ Goto(o, "remove")) /\ op[o] = "store"
        BY <1>9 DEF WriteTemporary
    <2>2. ASSUME Goto(o, "rename") PROVE Moved
        BY <2>1, <2>2, CommandMoves, Zenon DEF Goto, Moved
    <2> QED BY <1>2, <1>5, <2>1, <2>2
<1>10. ASSUME NEW o \in Operators, Status(o) PROVE Moved /\ Grown
    BY <1>2, <1>5, <1>10 DEF Status, storeVars
<1>11. ASSUME NEW o \in Operators, RemoveTemporary(o) \/ PrintResult(o) PROVE Moved /\ Grown
    BY <1>2, <1>5, <1>11 DEF RemoveTemporary, PrintResult, storeVars
<1>12. ASSUME NEW o \in Operators, StoreFails(o) \/ RenameFails(o) \/ CommandCrash(o)
       PROVE  Moved /\ Grown
    BY <1>2, <1>5, <1>12 DEF StoreFails, RenameFails, CommandCrash, storeVars
<1>13. ASSUME ProcessStart \/ RefreshReads \/ RefreshStores \/ RefreshFails \/ ProcessEnds
       PROVE  UNCHANGED <<op, opState>> /\ UNCHANGED history
    BY <1>13 DEF ProcessStart, RefreshReads, RefreshStores, RefreshFails, ProcessEnds, storeVars,
                 commandVars
<1>14. ASSUME NEW q \in Calls, Serve(q) PROVE UNCHANGED <<op, opState>> /\ UNCHANGED history
    BY <1>14 DEF Serve, storeVars, commandVars
<1>15. ASSUME UNCHANGED vars PROVE UNCHANGED <<op, opState>> /\ UNCHANGED history
    BY <1>15 DEF vars, storeVars, commandVars
<1> QED BY <1>1, <1>2, <1>3, <1>6, <1>7, <1>8, <1>9, <1>10, <1>11, <1>12, <1>13, <1>14, <1>15
        DEF Next, Command

\* Only the process itself moves its snapshot.
LEMMA ProcessSteps ==
    ASSUME [Next]_vars
    PROVE  \/ ProcessStart \/ RefreshReads \/ RefreshStores \/ RefreshFails \/ ProcessEnds
           \/ UNCHANGED <<process, snapshot, loading, since, state>>
<1> USE DEF processVars
<1>1. ASSUME NEW o \in Operators, NEW options \in DownOptions, Down(o, options)
      PROVE  UNCHANGED <<process, snapshot, loading, since, state>>
    BY <1>1, Zenon DEF Down
<1>2. ASSUME NEW o \in Operators, Up(o) \/ Status(o) \/ StoreFails(o) \/ RenameFails(o)
      PROVE  UNCHANGED <<process, snapshot, loading, since, state>>
    BY <1>2 DEF Up, Status, StoreFails, RenameFails
<1>3. ASSUME NEW o \in Operators, Command(o) \/ CommandCrash(o)
      PROVE  UNCHANGED <<process, snapshot, loading, since, state>>
    BY <1>3 DEF Command, CommandCrash, StoreShared, WriteTemporary, Rename, RemoveTemporary,
                PrintResult
<1>4. ASSUME NEW q \in Calls, Serve(q)
      PROVE  UNCHANGED <<process, snapshot, loading, since, state>>
    <2>1. UNCHANGED state
        BY <1>4, Zenon DEF Serve, RequestStep, Admission, HandlerWrites, HandlerUnwraps,
                           HandlerReturns, HandlerPanics
    <2> QED BY <1>4, <2>1 DEF Serve
<1>5. ASSUME UNCHANGED vars PROVE UNCHANGED <<process, snapshot, loading, since, state>>
    BY <1>5 DEF vars
<1> QED BY <1>1, <1>2, <1>3, <1>4, <1>5 DEF Next

\* Every step keeps the snapshot genuine.
LEMMA SnapshotSteps ==
    ASSUME HistoryInv, SnapshotInv, HistoryInv', Grows, [Next]_vars
    PROVE  SnapshotInv'
<1>0. /\ Len(history) \in Nat /\ Len(history') \in Nat /\ Len(history') >= Len(history)
      /\ Len(history) >= 1 /\ \A i \in 1..Len(history) : history'[i] = history[i]
    <2>1. history \in Seq(States) /\ history' \in Seq(States) /\ Len(history) >= 1
        BY Zenon DEF HistoryInv
    <2>2. Len(history) \in Nat /\ Len(history') \in Nat
        BY <2>1
    <2> QED BY <2>1, <2>2, Zenon DEF Grows
<1>1. CASE ProcessStart
    <2>1. process' = "starting" /\ since' = Len(history)
        BY <1>1 DEF ProcessStart
    <2> QED BY <1>0, <2>1 DEF SnapshotInv
<1>2. CASE RefreshReads
    <2>1. /\ process \in {"starting", "serving"}
          /\ process' = IF process = "starting" THEN "initial" ELSE "polling"
          /\ loading' = Len(history) /\ UNCHANGED <<snapshot, since, state, history>>
        BY <1>2 DEF RefreshReads, storeVars
    <2> QED BY <1>0, <2>1 DEF SnapshotInv
<1>3. CASE RefreshStores
    <2>1. /\ process \in {"initial", "polling"} /\ process' = "serving"
          /\ state' = history[loading] /\ snapshot' = loading
          /\ UNCHANGED <<since, history>>
        BY <1>3 DEF RefreshStores, storeVars
    <2> QED BY <1>0, <2>1 DEF SnapshotInv
<1>4. CASE RefreshFails
    <2>1. /\ process \in {"starting", "serving", "initial", "polling"}
          /\ process' = IF process \in {"starting", "initial"} THEN "stopped" ELSE "serving"
          /\ UNCHANGED <<snapshot, since, state, history>>
        BY <1>4 DEF RefreshFails, AfterFailedLoad, KeepSnapshot, storeVars
    <2> QED BY <1>0, <2>1 DEF SnapshotInv
<1>5. CASE ProcessEnds
    BY <1>5 DEF ProcessEnds, SnapshotInv
<1>6. CASE UNCHANGED <<process, snapshot, loading, since, state>>
    <2>1. /\ process' = process /\ snapshot' = snapshot /\ loading' = loading
          /\ since' = since /\ state' = state
        BY <1>6
    <2>2. process' # "stopped" => since' \in 1..Len(history')
        BY <1>0, <2>1 DEF SnapshotInv
    <2>3. process' \in {"initial", "polling"} => loading' \in since'..Len(history')
        BY <1>0, <2>1 DEF SnapshotInv
    <2>4. ASSUME process' \in {"serving", "polling"}
          PROVE  snapshot' \in since'..Len(history') /\ state' = history'[snapshot']
        <3>1. since \in 1..Len(history) /\ snapshot \in since..Len(history)
            BY <2>1, <2>4 DEF SnapshotInv
        <3>2. snapshot \in 1..Len(history)
            BY <1>0, <3>1
        <3>3. history'[snapshot] = history[snapshot]
            BY <1>0, <3>2
        <3>4. state' = history'[snapshot]
            BY <2>1, <2>4, <3>3 DEF SnapshotInv
        <3> QED BY <1>0, <2>1, <3>1, <3>4
    <2>5. process' \in {"stopped", "starting", "initial", "serving", "polling"}
        BY <2>1 DEF SnapshotInv
    <2> QED BY <2>2, <2>3, <2>4, <2>5 DEF SnapshotInv
<1> QED BY <1>1, <1>2, <1>3, <1>4, <1>5, <1>6, ProcessSteps

\* Both hold at first.
LEMMA InitSnapshot == Init => HistoryInv /\ SnapshotInv
<1> SUFFICES ASSUME Init PROVE HistoryInv /\ SnapshotInv
    OBVIOUS
<1>1. history = <<Disabled>> /\ process = "stopped"
    BY DEF Init
<1>2. op = [o \in Operators |-> "idle"] /\ opState = [o \in Operators |-> Disabled]
    BY DEF Init
<1>3. history \in Seq(States) /\ Len(history) = 1 /\ history[1] = Disabled
    BY <1>1, DisabledState
<1>4. \A i \in 1..Len(history) : Accepted(history[i])
    BY <1>3 DEF Accepted
<1>5. HistoryInv
    BY <1>2, <1>3, <1>4, DisabledState DEF HistoryInv
<1> QED BY <1>1, <1>5 DEF SnapshotInv

\* The state a process serves by is one that the store held since the process
\* started, and one that was validated (component, refresh).
THEOREM SnapshotsAreGenuine == Spec => []SnapshotGenuine
<1>1. Init => HistoryInv /\ SnapshotInv
    BY InitSnapshot
<1>2. HistoryInv /\ SnapshotInv /\ [Next]_vars => HistoryInv' /\ SnapshotInv'
    BY HistorySteps, SnapshotSteps
<1>3. HistoryInv /\ SnapshotInv => SnapshotGenuine
    <2> SUFFICES ASSUME HistoryInv, SnapshotInv, process \in {"serving", "polling"}
                 PROVE  /\ snapshot >= since /\ state = history[snapshot]
                        /\ \A i \in 1..Len(history) :
                              history[i] = Disabled \/ ValidState(history[i])
        BY DEF SnapshotGenuine
    <2>1. Len(history) \in Nat /\ since \in 1..Len(history)
        BY DEF HistoryInv, SnapshotInv
    <2>2. snapshot >= since /\ state = history[snapshot]
        BY <2>1 DEF SnapshotInv
    <2> QED BY <2>2 DEF HistoryInv, Accepted
<1> QED BY <1>1, <1>2, <1>3, PTL DEF Spec

=============================================================================
