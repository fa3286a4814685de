--------------------------- MODULE SipTransaction ---------------------------
(***************************************************************************)
(* One SIP transaction of pjsip/src/pjsip/sip_transaction.c, run by the    *)
(* endpoint's worker threads (Workers), the application's thread (the TU), *)
(* the transport and the peer.                                             *)
(*                                                                         *)
(* The transaction is the record tsx, with the names of the C structure.   *)
(* What the code does while it holds the group lock is an operator from    *)
(* record to record (SetState, SendMsg, Retransmit, the state handlers);   *)
(* an action applies one of them.  Where the code lets the group lock go   *)
(* (timer popped and not yet handled, TU being told with the lock          *)
(* released) the worker's program counter pc keeps the place.              *)
(*                                                                         *)
(* Time is left out: a timer in the heap may fire whenever a worker polls, *)
(* so delays and retransmit_count, which only computes delays, are too.    *)
(***************************************************************************)
EXTENDS Integers, FiniteSets

CONSTANTS
    Roles,           \* the roles and methods the transaction may have
    Methods,
    Workers,         \* threads that poll timers and sockets
    DirectOutcomes,  \* what pjsip_transport_send may answer
    ResolveOutcomes  \* what a send that resolves the server first may answer

ASSUME ConfigAssumption ==
    /\ Roles \subseteq {"UAC", "UAS"}
    /\ Methods \subseteq {"INVITE", "BYE", "OTHER"}
    /\ DirectOutcomes \subseteq {"sent", "pending", "failed", "broken"}
    /\ ResolveOutcomes \subseteq {"sent", "pending", "failed"}
    /\ "sent" \in DirectOutcomes \cap ResolveOutcomes

VARIABLES tsx, pc
vars == <<tsx, pc>>

-----------------------------------------------------------------------------
(* The transaction's data.                                                 *)

NULL == 0
CALLING == 1
TRYING == 2
PROCEEDING == 3
COMPLETED == 4
CONFIRMED == 5
TERMINATED == 6
DESTROYED == 7
States == NULL .. DESTROYED

Flags == {"TRANSPORT", "RESCHED", "SEND", "DESTROY", "RESOLVED"}

Timers == {"retransmit", "timeout"}
INACTIVE == 0
RETRANSMIT == 1
TIMEOUT == 2
ERR == 3
DISC == 4
TimerIds == INACTIVE .. DISC

\* A message is the request, its ACK, or a response named by its code.
NoMsg == 0
Request == 1
Ack == 2
Provisional == {100, 180}
Final == {200, 404, 481}
Responses(method) == {100, 200, 404} \cup (IF method = "INVITE" THEN {180}
                                           ELSE IF method = "BYE" THEN {481} ELSE {})
Messages == {Request, Ack} \cup Provisional \cup Final
TimeoutCode == 408
TransportErrorCode == 503
Codes == {0, TimeoutCode, TransportErrorCode} \cup Provisional \cup Final

Asserts == {"state_order", "unexpected_status", "resched_pending",
            "resched_after_final", "last_tx", "retransmit_confirmed",
            "proceeding_pending", "proceeding_timeout"}

\* resolving holds the messages whose mod_data points back to the transaction:
\* send_msg_callback will come for each.  pending_tx is the last of them.
\* direct, told, terminations, sent, failed and kept are not fields of the C
\* structure: the messages whose transport_callback is outstanding (each has
\* tdata->is_pending set), the last state the TU was told and how often it
\* was told TERMINATED (2 stands for more), the messages handed to a
\* transport, the pj_assert()s that did not hold, and the references that
\* transport_callback did not give up when it returned early.
TsxType ==
    [role : {"UAC", "UAS"}, method : {"INVITE", "BYE", "OTHER"},
     handle_200resp : BOOLEAN, state : States, status_code : Codes, transport_flag : SUBSET Flags,
     transport : BOOLEAN, is_reliable : BOOLEAN,
     last_tx : Messages \cup {NoMsg}, pending_tx : Messages \cup {NoMsg},
     resolving : SUBSET Messages, terminating : BOOLEAN, heap : [Timers -> BOOLEAN],
     id : [Timers -> TimerIds], refs : Int, direct : SUBSET Messages,
     told : States, terminations : 0 .. 2, sent : SUBSET Messages,
     failed : SUBSET Asserts, kept : Nat]

\* How the sends of one handler go: the first attempt, on the transport it
\* has; the attempt that resolves the server, made without a transport or
\* after the first one failed; a further send made from inside the inline
\* completion callback; and the kind of transport that resolution finds.
\* What is not going to be tried is given one value.  A broken send is a
\* failed one that also reports the transport's disconnection.
Fails(outcome) == outcome \in {"failed", "broken"}

Outcomes ==
    {o \in [direct : DirectOutcomes, resolve : ResolveOutcomes,
            again : DirectOutcomes, reliable : BOOLEAN] :
        /\ ~Fails(o.direct) => o.resolve = "sent"
        /\ ~Fails(o.direct) \/ o.resolve # "sent" => o.again = "sent"}

Check(s, name, cond) ==
    IF cond THEN s ELSE [s EXCEPT !.failed = @ \cup {name}]

Raise(s, f) == [s EXCEPT !.transport_flag = @ \cup {f}]
Clear(s, f) == [s EXCEPT !.transport_flag = @ \ {f}]
Has(s, f) == f \in s.transport_flag

-----------------------------------------------------------------------------
(* Timers: an entry in the heap holds a reference to the group lock.       *)

Schedule(s, t, i) ==
    IF s.heap[t] THEN s
    ELSE [s EXCEPT !.heap[t] = TRUE, !.id[t] = i, !.refs = @ + 1]

Cancel(s, t) ==
    IF s.heap[t]
    THEN [s EXCEPT !.heap[t] = FALSE, !.id[t] = INACTIVE, !.refs = @ - 1]
    ELSE s

\* Fault: the timer is cancelled after it was scheduled.
RestartSwapped(s, t, i) == Cancel(Schedule(s, t, i), t)

Restart(s, t, i) == Schedule(Cancel(s, t), t, i)

\* A transport failure is posted to the timeout timer with no delay.
Post(s, i) == IF s.state < COMPLETED THEN Restart(s, "timeout", i) ELSE s

-----------------------------------------------------------------------------
(* tsx_set_state, in the three parts the lock may be released between.     *)

Enter(s, st) ==
    [Check(s, "state_order", st >= s.state) EXCEPT !.state = st]

Tell(s, st) ==
    IF Has(s, "DESTROY") THEN s         \* tsx_user is NULL by then
    ELSE [s EXCEPT !.told = st,
                   !.terminations = IF st = TERMINATED /\ @ < 2 THEN @ + 1 ELSE @]

\* Fault: the detached send keeps its reference.
DetachKeepsReference(s) ==
    IF Has(s, "TRANSPORT")
    THEN [Clear(s, "TRANSPORT") EXCEPT !.resolving = @ \ {s.pending_tx},
                                       !.pending_tx = NoMsg]
    ELSE s

\* Leave an outstanding resolution to itself: its callback will be ignored.
Detach(s) ==
    IF Has(s, "TRANSPORT")
    THEN [s EXCEPT
             !.transport_flag = @ \ {"TRANSPORT"},
             !.resolving = @ \ {s.pending_tx},
             !.pending_tx = NoMsg,
             !.refs = IF s.pending_tx = NoMsg THEN @ ELSE @ - 1]
    ELSE s

\* Fault: tsx_shutdown keeps the transaction's own reference.
ShutdownKeepsReference(s) ==
    [Cancel(Cancel(s, "timeout"), "retransmit") EXCEPT
        !.transport = FALSE, !.last_tx = NoMsg, !.terminating = TRUE]

Shutdown(s) ==
    LET c == Cancel(Cancel(s, "timeout"), "retransmit")
        f == c.transport_flag \ {"RESCHED", "SEND"}
    IN  [c EXCEPT !.transport = FALSE,
                  !.last_tx = NoMsg,
                  !.transport_flag =
                      IF "TRANSPORT" \in f THEN f \cup {"DESTROY"} ELSE f,
                  !.terminating = TRUE,
                  !.refs = IF s.terminating THEN @ ELSE @ - 1]

\* Fault: TERMINATED does not schedule the handler that destroys.
FinishUnscheduled(s, st) ==
    IF st = TERMINATED THEN Cancel(Detach(s), "timeout")
    ELSE IF st = DESTROYED THEN Shutdown(s) ELSE s

Finish(s, st) ==
    CASE st = TERMINATED -> Restart(Detach(s), "timeout", TIMEOUT)
      [] st = DESTROYED  -> Shutdown(s)
      [] OTHER           -> s

SetState(s, st) == Finish(Tell(Enter(s, st), st), st)

-----------------------------------------------------------------------------
(* Sending.                                                                *)

ReschedRetransmission(s) ==
    Schedule(Check(Check(s, "resched_pending", ~Has(s, "TRANSPORT")),
                   "resched_after_final",
                   s.role = "UAC" => s.status_code < 200),
             "retransmit", RETRANSMIT)

\* Start the retransmission timer now, or once the pending send is done.
StartRetransmission(s) ==
    IF Has(s, "TRANSPORT") THEN Raise(s, "RESCHED")
    ELSE Schedule(s, "retransmit", RETRANSMIT)

DoPendingResched(s) ==
    IF Has(s, "RESCHED") /\ ~Has(s, "TRANSPORT")
    THEN IF s.is_reliable THEN Clear(s, "RESCHED")
         ELSE ReschedRetransmission(Clear(s, "RESCHED"))
    ELSE s

\* The direct half of tsx_send_msg: a pjsip_transport_send on tsx->transport.
DirectSend(s, m, outcome) ==
    CASE outcome = "sent"    -> [s EXCEPT !.sent = @ \cup {m}]
      [] outcome = "pending" -> [Raise(s, "TRANSPORT") EXCEPT
                                    !.sent = @ \cup {m},
                                    !.direct = @ \cup {m}, !.refs = @ + 1]
      [] outcome = "failed"  -> [s EXCEPT !.transport = FALSE]
      [] outcome = "broken"  -> [Post(s, DISC) EXCEPT !.transport = FALSE]

TransportFailure(s) ==
    SetState([s EXCEPT !.status_code = TransportErrorCode], TERMINATED)

\* tsx_send_msg made from inside an inline send_msg_callback, which has just
\* set the transport and TSX_HAS_RESOLVED_SERVER.
SendAgain(s, m, outcome) ==
    IF m = NoMsg THEN Check(s, "last_tx", FALSE)
    ELSE IF m \in s.direct THEN s
    ELSE IF Fails(outcome) THEN TransportFailure(DirectSend(s, m, outcome))
    ELSE DirectSend(s, m, outcome)

\* send_msg_callback that reports success.
Resolved(s, o) ==
    [s EXCEPT !.transport = TRUE, !.is_reliable = o.reliable,
              !.pending_tx = NoMsg,
              !.transport_flag = (@ \ {"TRANSPORT"}) \cup {"RESOLVED"}]

\* send_msg_callback that reports a permanent failure, up to tsx_set_state.
ResolveFailed(s) ==
    [s EXCEPT !.transport = FALSE, !.pending_tx = NoMsg,
              !.status_code = TransportErrorCode,
              !.transport_flag = (@ \ {"TRANSPORT"}) \cup {"RESOLVED"}]

InlineResolved(s, o) ==
    IF Has(s, "DESTROY") THEN SetState(s, DESTROYED)
    ELSE DoPendingResched(IF Has(s, "SEND")
                          THEN SendAgain(Clear(s, "SEND"), s.last_tx, o.again)
                          ELSE s)

InlineFailed(s) ==
    IF s.state < TERMINATED THEN SetState(s, TERMINATED)
    ELSE IF Has(s, "DESTROY") THEN SetState(s, DESTROYED)
    ELSE s

\* The half of tsx_send_msg that has no transport to use.
ResolveAndSend(s, m, o) ==
    IF Has(s, "RESOLVED") THEN TransportFailure(s)
    ELSE CASE o.resolve = "sent" ->
                InlineResolved(Resolved([s EXCEPT !.sent = @ \cup {m}], o), o)
           [] o.resolve = "pending" ->
                [Raise(s, "TRANSPORT") EXCEPT !.sent = @ \cup {m},
                                              !.resolving = @ \cup {m},
                                              !.pending_tx = m, !.refs = @ + 1]
           [] o.resolve = "failed" -> InlineFailed(ResolveFailed(s))

\* Fault: the message is not tested for NULL.
SendMsgOfNull(s, m, o) ==
    IF Has(s, "TRANSPORT") THEN Raise(s, "SEND")
    ELSE IF ~s.transport THEN ResolveAndSend(s, m, o)
    ELSE DirectSend(s, m, o.direct)

SendMsg(s, m, o) ==
    IF m = NoMsg THEN Check(s, "last_tx", FALSE)
    ELSE IF Has(s, "TRANSPORT") THEN Raise(s, "SEND")
    ELSE IF m \in s.direct THEN s
    ELSE IF ~s.transport
         THEN ResolveAndSend(Check(s, "unexpected_status", ~Has(s, "RESOLVED")), m, o)
    ELSE IF Fails(o.direct)
         THEN ResolveAndSend(DirectSend(s, m, o.direct), m, o)
    ELSE DirectSend(s, m, o.direct)

\* tsx_send_msg returned an error: every failure of a transaction that has
\* left NULL, and an inline failure in NULL, terminates it.
SendFailed(s) == s.state = TERMINATED

\* What both completion callbacks do after a successful send.
AfterSent(s, o) ==
    IF Has(s, "DESTROY") THEN SetState(s, DESTROYED)
    ELSE DoPendingResched(IF Has(s, "SEND")
                          THEN SendMsg(Clear(s, "SEND"), s.last_tx, o)
                          ELSE s)

Retransmit(s, resched, o) ==
    IF resched /\ s.heap["retransmit"] THEN s
    ELSE IF s.last_tx = NoMsg THEN Check(s, "last_tx", FALSE)
    ELSE IF ~resched THEN SendMsg(s, s.last_tx, o)
    ELSE LET c == Check(s, "retransmit_confirmed", s.state # CONFIRMED)
             r == IF Has(c, "TRANSPORT") THEN Raise(c, "RESCHED")
                  ELSE ReschedRetransmission(c)
         IN  SendMsg(r, r.last_tx, o)

-----------------------------------------------------------------------------
(* The state handlers, by event.                                           *)

\* A response in CALLING or PROCEEDING, once status_code is set.
ProceedingUac(s, c, o) ==
    CASE c < 200 -> SetState(s, PROCEEDING)
      [] c = 200 /\ s.method = "INVITE" ->
            SetState(Cancel(s, "timeout"), TERMINATED)
      [] c = 200 /\ s.method # "INVITE" ->
            SetState(Cancel(Restart(s, "timeout", TIMEOUT), "retransmit"),
                     COMPLETED)
      [] c >= 300 ->
            LET q == Cancel(Cancel(s, "retransmit"), "timeout")
                a == IF s.method = "INVITE" THEN SendMsg(q, Ack, o) ELSE q
                r == SetState(a, COMPLETED)
            IN  IF SendFailed(a) THEN a
                ELSE IF s.method = "BYE" /\ c = 481 THEN SetState(a, TERMINATED)
                ELSE Restart([r EXCEPT !.last_tx = IF s.method = "INVITE"
                                                   THEN Ack ELSE @],
                             "timeout", TIMEOUT)

\* Fault: the response leaves a postponed retransmission pending.
CallingResponseResched(s, c) ==
    LET q == Cancel(s, "retransmit")
    IN  IF s.method = "INVITE" \/ c >= 200 THEN Cancel(q, "timeout")
        ELSE IF q.is_reliable THEN q
        ELSE Schedule(q, "retransmit", RETRANSMIT)

\* What CALLING does with a response before it goes on as in PROCEEDING.
CallingResponse(s, c) ==
    LET q == Cancel(s, "retransmit")
        t == IF c >= 200
             THEN IF q.id["timeout"] # INACTIVE THEN Cancel(q, "timeout") ELSE q
             ELSE IF s.method = "INVITE" THEN Cancel(q, "timeout")
             ELSE IF q.is_reliable THEN q
             ELSE Schedule(q, "retransmit", RETRANSMIT)
    IN  Clear(t, "RESCHED")

\* Fault: a late provisional response takes COMPLETED back to PROCEEDING.
OnResponseBackwards(s, c, o) ==
    IF s.state = CALLING
    THEN ProceedingUac([CallingResponse(s, c) EXCEPT !.status_code = c], c, o)
    ELSE IF s.state \in {PROCEEDING, COMPLETED}
    THEN ProceedingUac([s EXCEPT !.status_code = c], c, o)
    ELSE s

OnResponse(s, c, o) ==
    CASE s.state = CALLING ->
            ProceedingUac([CallingResponse(s, c) EXCEPT !.status_code = c], c, o)
      [] s.state = PROCEEDING ->
            ProceedingUac([s EXCEPT !.status_code = c], c, o)
      [] s.state = COMPLETED /\ s.method = "INVITE" /\ c >= 200 ->
            Retransmit(s, FALSE, o)
      [] OTHER -> s

OnRequest(s, o) ==
    CASE s.state = NULL       -> SetState(s, TRYING)
      [] s.state = PROCEEDING -> SendMsg(s, s.last_tx, o)
      [] s.state = COMPLETED  -> Retransmit(s, FALSE, o)
      [] OTHER                -> s

OnAck(s) ==
    IF s.state = COMPLETED /\ s.method = "INVITE"
    THEN SetState(Restart(Clear(Cancel(s, "retransmit"), "RESCHED"),
                          "timeout", TIMEOUT),
                  CONFIRMED)
    ELSE s

\* The TU's final response has been sent: save it, start timer H or J, and
\* timer G unless a 3xx+ went over a reliable transport.  The transport's
\* disconnection takes mutex_b only, so it can be posted before set_state.
CompleteUas(s, c, disc) ==
    LET q == Cancel(s, "retransmit")
        g == s.method = "INVITE" /\ (c = 200 \/ ~s.is_reliable)
        r == IF g THEN StartRetransmission(q) ELSE q
        t == Restart([r EXCEPT !.last_tx = c], "timeout", TIMEOUT)
        d == IF disc /\ t.transport THEN Post(t, DISC) ELSE t
    IN  IF c = 200 /\ s.method = "INVITE" /\ ~s.handle_200resp
        THEN SetState(q, TERMINATED)
        ELSE SetState(d, COMPLETED)

\* Fault: the provisional response is not saved.
ProvisionalUasUnsaved(s, c) ==
    IF s.method = "INVITE" /\ c > 100
    THEN StartRetransmission(Cancel(SetState(s, PROCEEDING), "retransmit"))
    ELSE SetState(s, PROCEEDING)

ProvisionalUas(s, c) ==
    LET p == SetState([s EXCEPT !.last_tx = c], PROCEEDING)
    IN  IF s.method = "INVITE" /\ c > 100
        THEN StartRetransmission(Cancel(p, "retransmit")) ELSE p

OnSendResponse(s, c, o, disc) ==
    LET r == SendMsg([s EXCEPT !.status_code = c,
                               !.last_tx = IF @ = c THEN @ ELSE NoMsg], c, o)
    IN  IF SendFailed(r) THEN r
        ELSE IF c < 200 THEN ProvisionalUas(r, c)
        ELSE CompleteUas(r, c, disc)

\* Fault: timer B or F is not started.
OnSendRequestUntimed(s, o) ==
    LET r == SendMsg(s, Request, o)
    IN  IF SendFailed(r) THEN r
        ELSE SetState(IF r.is_reliable THEN r ELSE StartRetransmission(r), CALLING)

\* The request is sent and timer B/F, and A/E if unreliable, are started.
OnSendRequest(s, o) ==
    LET r == SendMsg(s, Request, o)
        t == Restart(r, "timeout", TIMEOUT)
    IN  IF SendFailed(r) THEN r
        ELSE SetState(IF t.is_reliable THEN t ELSE StartRetransmission(t), CALLING)

OnRetransmitTimer(s, o) ==
    CASE s.state = CALLING -> Retransmit(s, TRUE, o)
      [] s.state = PROCEEDING /\ s.role = "UAC" -> Retransmit(s, TRUE, o)
      [] s.state = PROCEEDING /\ s.role = "UAS" ->
            Retransmit(Check(s, "proceeding_pending", ~Has(s, "TRANSPORT")),
                       TRUE, o)
      [] s.state = COMPLETED /\ s.role = "UAS" -> Retransmit(s, TRUE, o)
      [] s.state = TERMINATED -> SetState(s, DESTROYED)
      [] OTHER -> s

\* What the timeout timer does up to tsx_set_state, and the state it enters.
TimeoutPrologue(s) ==
    CASE s.state = CALLING ->
            [Clear(Cancel(s, "retransmit"), "RESCHED")
                EXCEPT !.status_code = TimeoutCode]
      [] s.state = PROCEEDING ->
            [Check(s, "proceeding_timeout", s.role = "UAC")
                EXCEPT !.status_code = TimeoutCode]
      [] s.state = COMPLETED /\ s.role = "UAS" /\ s.method = "INVITE" ->
            [s EXCEPT !.status_code = TimeoutCode]
      [] OTHER -> s

TimeoutTarget(s) ==
    IF s.state = TERMINATED THEN DESTROYED
    ELSE IF s.state \in {CALLING, PROCEEDING, COMPLETED, CONFIRMED}
         THEN TERMINATED
    ELSE s.state

-----------------------------------------------------------------------------
(* The workers.  A worker in a timer callback holds the reference the heap *)
(* held (ref).                                                             *)

Idle == [at |-> "idle", timer |-> "timeout", id |-> INACTIVE,
         state |-> NULL, ref |-> FALSE]

PcType == [at : {"idle", "fired", "entered", "notify", "resume", "post"},
           timer : Timers, id : TimerIds, state : States, ref : BOOLEAN]

\* pc values: timer popped; entry->id read and reset, lock not yet taken;
\* about to tell the TU with the lock released; told; about to post an error.
Fired(t) == [Idle EXCEPT !.at = "fired", !.timer = t, !.ref = TRUE]
Entered(t, i) == [Fired(t) EXCEPT !.at = "entered", !.id = i]
Notify(st, ref, i) == [Idle EXCEPT !.at = "notify", !.state = st,
                                   !.ref = ref, !.id = i]

Goto(w, p) == pc' = [pc EXCEPT ![w] = p]
IsAt(w, label) == pc[w].at = label

\* The worker is done with the callback, and its reference with it.
Leave(w, s) ==
    /\ tsx' = IF pc[w].ref THEN [s EXCEPT !.refs = @ - 1] ELSE s
    /\ Goto(w, Idle)

TimerFires(w, t) ==
    /\ IsAt(w, "idle")
    /\ tsx.heap[t]
    /\ tsx' = [tsx EXCEPT !.heap[t] = FALSE]
    /\ Goto(w, Fired(t))

\* tsx_timer_callback up to where it takes the group lock.
EnterCallback(w) ==
    LET t == pc[w].timer
        i == tsx.id[t]
        s == [tsx EXCEPT !.id[t] = INACTIVE]
    IN  /\ IsAt(w, "fired")
        /\ IF tsx.state >= DESTROYED THEN Leave(w, tsx)
           ELSE IF i \in {ERR, DISC} /\ tsx.state >= TERMINATED THEN Leave(w, s)
           ELSE /\ tsx' = s
                /\ Goto(w, Entered(t, IF i \in {ERR, DISC} THEN i ELSE TIMEOUT))

RetransmitEvent(w, o) ==
    /\ IsAt(w, "entered")
    /\ pc[w].timer = "retransmit"
    /\ Leave(w, OnRetransmitTimer(tsx, o))

TimeoutEvent(w) ==
    /\ IsAt(w, "entered")
    /\ pc[w].timer = "timeout"
    /\ pc[w].id = TIMEOUT
    /\ LET st == TimeoutTarget(tsx)
       IN  IF st = tsx.state THEN Leave(w, tsx)
           ELSE /\ tsx' = Enter(TimeoutPrologue(tsx), st)
                /\ Goto(w, Notify(st, TRUE, TIMEOUT))

KeepsUasAlive(s, i) ==
    /\ i = DISC
    /\ s.role = "UAS" /\ s.method = "INVITE"
    /\ s.status_code < 200
    /\ ~Has(s, "TRANSPORT") /\ ~Has(s, "DESTROY")

\* Fault: the TU is not told of a posted event.
PostedEventSilent(w) ==
    /\ IsAt(w, "entered")
    /\ pc[w].id \in {ERR, DISC}
    /\ Leave(w, Finish(Enter([tsx EXCEPT !.transport = FALSE], TERMINATED),
                       TERMINATED))

\* A posted transport error or disconnection, with NO_NOTIFY and
\* NO_SCHEDULE_HANDLER: both follow once the lock is released.
PostedEvent(w) ==
    LET i == pc[w].id
        s == [tsx EXCEPT !.transport = FALSE]
        c == [s EXCEPT !.status_code = IF @ < 200 THEN TransportErrorCode ELSE @]
    IN  /\ IsAt(w, "entered")
        /\ i \in {ERR, DISC}
        /\ IF KeepsUasAlive(s, i)
           THEN Leave(w, [s EXCEPT !.transport_flag = {}])
           ELSE /\ tsx' = Cancel(Detach(Enter(c, TERMINATED)), "timeout")
                /\ Goto(w, Notify(TERMINATED, TRUE, i))

TellUnlocked(w) ==
    /\ IsAt(w, "notify")
    /\ tsx' = Tell(tsx, pc[w].state)
    /\ Goto(w, [pc[w] EXCEPT !.at = "resume"])

\* The rest of tsx_set_state, or the schedule after a posted event.
Resume(w) ==
    /\ IsAt(w, "resume")
    /\ Leave(w, IF pc[w].id \in {ERR, DISC}
                THEN Schedule(tsx, "timeout", TIMEOUT)
                ELSE Finish(tsx, pc[w].state))

\* Fault: no way out of the callback gives the send's reference up.
SendDoneLeaks(w, m, o) ==
    /\ IsAt(w, "idle")
    /\ m \in tsx.direct
    /\ tsx' = AfterSent([Clear(tsx, "TRANSPORT") EXCEPT !.direct = @ \ {m}], o)
    /\ UNCHANGED pc

\* transport_callback for m with sent > 0.  A transaction whose destruction
\* was put off is destroyed, and the callback returns without giving up the
\* reference of the send.
SendDone(w, m, o) ==
    /\ IsAt(w, "idle")
    /\ m \in tsx.direct
    /\ LET s == AfterSent([Clear(tsx, "TRANSPORT") EXCEPT !.direct = @ \ {m}], o)
       IN  tsx' = IF Has(tsx, "DESTROY") THEN [s EXCEPT !.kept = @ + 1]
                  ELSE [s EXCEPT !.refs = @ - 1]
    /\ UNCHANGED pc

\* Fault: the callback gives its reference up before it posts the error.
SendErrorUnreferenced(w, m) ==
    /\ IsAt(w, "idle")
    /\ m \in tsx.direct
    /\ tsx' = [Clear(tsx, "TRANSPORT") EXCEPT !.direct = @ \ {m}, !.refs = @ - 1]
    /\ Goto(w, [Idle EXCEPT !.at = "post"])

\* transport_callback for m with sent < 0: the error is posted after the
\* lock is released.
SendError(w, m) ==
    /\ IsAt(w, "idle")
    /\ m \in tsx.direct
    /\ tsx' = [Clear(tsx, "TRANSPORT") EXCEPT !.direct = @ \ {m}]
    /\ Goto(w, [Idle EXCEPT !.at = "post", !.ref = TRUE])

PostError(w) ==
    /\ IsAt(w, "post")
    /\ Leave(w, Post(tsx, ERR))

\* send_msg_callback for m, called by the resolver or the transport manager.
CallbackFor(m) == [tsx EXCEPT !.refs = @ - 1, !.resolving = @ \ {m}]

ResolveDone(w, m, o) ==
    /\ IsAt(w, "idle")
    /\ m \in tsx.resolving
    /\ tsx' = AfterSent(Resolved(CallbackFor(m), o), o)
    /\ UNCHANGED pc

ResolveError(w, m) ==
    LET s == ResolveFailed(CallbackFor(m))
    IN  /\ IsAt(w, "idle")
        /\ m \in tsx.resolving
        /\ IF s.state < TERMINATED
           THEN /\ tsx' = Enter(s, TERMINATED)
                /\ Goto(w, Notify(TERMINATED, FALSE, TIMEOUT))
           ELSE /\ tsx' = InlineFailed(s)
                /\ UNCHANGED pc

\* send_msg_callback told that another address is left to try.
TryNextServer(w, m) ==
    LET s == [tsx EXCEPT !.pending_tx = m]
    IN  /\ IsAt(w, "idle")
        /\ tsx.role = "UAC"
        /\ m \in tsx.resolving /\ ~Has(tsx, "DESTROY")
        /\ tsx' = IF s.id["timeout"] # INACTIVE
                  THEN Restart(s, "timeout", TIMEOUT) ELSE s
        /\ UNCHANGED pc

\* The transport reports its disconnection from any thread that uses it.
Disconnected ==
    /\ tsx.transport
    /\ tsx' = Post(tsx, DISC)
    /\ UNCHANGED pc

-----------------------------------------------------------------------------
(* Messages from the peer: pjsip_tsx_recv_msg on a registered transaction. *)

Receive(w, s) ==
    /\ IsAt(w, "idle")
    /\ tsx.state < DESTROYED
    /\ tsx' = s
    /\ UNCHANGED pc

RecvResponse(w, c, o) == tsx.role = "UAC" /\ Receive(w, OnResponse(tsx, c, o))
RecvRequest(w, o) == tsx.role = "UAS" /\ Receive(w, OnRequest(tsx, o))
RecvAck(w) == tsx.role = "UAS" /\ Receive(w, OnAck(tsx))

-----------------------------------------------------------------------------
(* The TU, which forgets the transaction when told that it is TERMINATED.  *)

TuMayCall == tsx.told < TERMINATED

TuCall(s) == TuMayCall /\ tsx' = s /\ UNCHANGED pc

SendRequest(o) ==
    tsx.role = "UAC" /\ tsx.state = NULL /\ TuCall(OnSendRequest(tsx, o))

\* Fault: COMPLETED sends what the TU gives it.
SendResponseAgain(c, o, disc) ==
    /\ tsx.role = "UAS"
    /\ tsx.state \in {TRYING, PROCEEDING, COMPLETED}
    /\ TuCall(OnSendResponse(tsx, c, o, disc))

SendResponse(c, o, disc) ==
    /\ tsx.role = "UAS"
    /\ tsx.state \in {TRYING, PROCEEDING}
    /\ TuCall(OnSendResponse(tsx, c, o, disc))

\* pjsip_tsx_retransmit_no_state, called from the timers of sip_100rel.c and
\* pjsua_call.c, so by a worker, with an 18x that was sent before.
RetransmitNoState(w, o) ==
    /\ IsAt(w, "idle")
    /\ tsx.role = "UAS" /\ tsx.method = "INVITE"
    /\ tsx.told = PROCEEDING
    /\ 180 \in tsx.sent
    /\ TuCall(SendMsg(tsx, 180, o))

Terminate ==
    /\ tsx.state < TERMINATED
    /\ TuCall(SetState([tsx EXCEPT !.status_code = TimeoutCode], TERMINATED))

StopRetransmit ==
    /\ tsx.role = "UAC" /\ tsx.method = "INVITE"
    /\ TuCall(Cancel(tsx, "retransmit"))

SetTimeout ==
    /\ tsx.role = "UAC" /\ tsx.method = "INVITE"
    /\ tsx.state # NULL
    /\ ~(tsx.status_code >= 200 /\ tsx.id["timeout"] # INACTIVE)
    /\ TuCall(Restart(tsx, "timeout", TIMEOUT))

-----------------------------------------------------------------------------
NewTsx(role, method, handle_200resp, transport, reliable) ==
    [role |-> role, method |-> method, handle_200resp |-> handle_200resp,
     state |-> NULL, status_code |-> 0, transport_flag |-> {},
     transport |-> transport, is_reliable |-> reliable,
     last_tx |-> IF role = "UAC" THEN Request ELSE NoMsg,
     pending_tx |-> NoMsg, resolving |-> {}, terminating |-> FALSE,
     heap |-> [t \in Timers |-> FALSE], id |-> [t \in Timers |-> INACTIVE],
     refs |-> 1, direct |-> {}, told |-> NULL, terminations |-> 0,
     sent |-> {}, failed |-> {}, kept |-> 0]

\* A UAC gets a transport when it sends; a UAS may keep the request's, and
\* does if it is reliable.  A UAS that answers an INVITE may leave the
\* retransmission of a 200 to the TU.
Init ==
    /\ \E role \in Roles, method \in Methods, h, t, r \in BOOLEAN :
            /\ role = "UAC" => ~t
            /\ role = "UAS" /\ r => t
            /\ h => role = "UAS" /\ method = "INVITE"
            /\ tsx = NewTsx(role, method, h, t, r)
    /\ pc = [w \in Workers |-> Idle]

Freed == tsx.refs = 0

CallbackStep(w) ==
    \/ EnterCallback(w)
    \/ TimeoutEvent(w)
    \/ PostedEvent(w)
    \/ TellUnlocked(w)
    \/ Resume(w)
    \/ PostError(w)
    \/ \E o \in Outcomes : RetransmitEvent(w, o)

TransportStep(w) ==
    \/ \E o \in Outcomes, m \in tsx.direct : SendDone(w, m, o)
    \/ \E m \in tsx.direct : SendError(w, m)
    \/ \E o \in Outcomes, m \in tsx.resolving : ResolveDone(w, m, o)
    \/ \E m \in tsx.resolving : ResolveError(w, m)
    \/ \E m \in tsx.resolving : TryNextServer(w, m)

TuStep ==
    \/ \E o \in Outcomes : SendRequest(o)
    \/ \E o \in Outcomes, c \in Responses(tsx.method), disc \in BOOLEAN : SendResponse(c, o, disc)
    \/ Terminate
    \/ StopRetransmit
    \/ SetTimeout

\* A peer that may answer anything once asked, and repeat itself.
PeerStep(w) ==
    \/ Request \in tsx.sent /\ \E o \in Outcomes, c \in Responses(tsx.method) : RecvResponse(w, c, o)
    \/ \E o \in Outcomes : RecvRequest(w, o)
    \/ tsx.sent \cap Final # {} /\ RecvAck(w)

\* The transaction has ended: freed, or leaked by transport_callback.
Done ==
    /\ Freed \/ tsx.kept > 0
    /\ \A w \in Workers : IsAt(w, "idle")
    /\ UNCHANGED vars

Next ==
    \/ \E w \in Workers : \/ \E t \in Timers : TimerFires(w, t)
                          \/ CallbackStep(w)
                          \/ TransportStep(w)
                          \/ PeerStep(w)
                          \/ \E o \in Outcomes : RetransmitNoState(w, o)
    \/ TuStep
    \/ Disconnected
    \/ Done

Spec == Init /\ [][Next]_vars

-----------------------------------------------------------------------------
(* Fairness: a worker finishes the callback it is in; a timer in the heap  *)
(* is not overtaken for ever, since the heap is ordered by expiry; and the *)
(* transport reports the end of every send it accepted.                    *)

Completes(m) ==
    \E w \in Workers : \/ SendError(w, m) \/ ResolveError(w, m)
                      \/ \E o \in Outcomes : SendDone(w, m, o) \/ ResolveDone(w, m, o)

Fairness ==
    /\ \A w \in Workers : WF_vars(CallbackStep(w))
    /\ \A t \in Timers : SF_vars(\E w \in Workers : TimerFires(w, t))
    /\ \A m \in Messages : SF_vars(Completes(m))

FairSpec == Spec /\ Fairness

-----------------------------------------------------------------------------
(* Properties.                                                             *)

\* The transaction is the state machine the TU is promised: every step
\* follows an edge of it or leaves it alone, and the TU is told in order.
Fsm == INSTANCE TransactionFsm WITH
           role <- tsx.role, method <- tsx.method,
           state <- tsx.state, told <- tsx.told
ImplementsFsm == Fsm!FsmSpec
ImplementsFairFsm == Fsm!FsmFairSpec

\* Every record field and every worker keeps to its type.
TypeOK ==
    /\ tsx \in TsxType
    /\ pc \in [Workers -> PcType]

\* A worker that has popped the timeout timer, is handling it, or is about
\* to finish a tsx_set_state that will start it again.
HoldsTimeout(w) ==
    \/ pc[w].at \in {"fired", "entered"} /\ pc[w].timer = "timeout"
    \/ pc[w].at \in {"notify", "resume"}

Armed == tsx.heap["timeout"] \/ \E w \in Workers : HoldsTimeout(w)

\* In every state that only a timer is sure to end, the timeout timer is in
\* the heap or in a worker's hands.  TRYING and PROCEEDING wait for the TU,
\* and an INVITE client in PROCEEDING waits for the peer or for CANCEL; a
\* timer B, D, F, H, I, J or K that got lost would leak the transaction.
TimeoutArmed ==
    tsx.state \in {CALLING, COMPLETED, CONFIRMED, TERMINATED}
        \cup (IF tsx.role = "UAC" /\ tsx.method # "INVITE" THEN {PROCEEDING} ELSE {})
    => Armed

\* The group lock's count is the sum of the references the code means it to
\* be: the transaction's own until tsx_shutdown, one for each timer in the
\* heap or in a callback, and one for each send whose end is awaited; and
\* those that transport_callback kept, which nothing will give up.
RefsAccounted ==
    tsx.refs = (IF tsx.terminating THEN 0 ELSE 1)
                 + Cardinality({t \in Timers : tsx.heap[t]})
                 + Cardinality({w \in Workers : pc[w].ref})
                 + Cardinality(tsx.direct) + Cardinality(tsx.resolving)
                 + tsx.kept

\* tsx_on_destroy frees the transaction when the count reaches zero: no
\* worker may be in one of its callbacks then.
NotFreedInUse == \A w \in Workers : ~IsAt(w, "idle") => tsx.refs > 0

\* A server transaction has the response that a request retransmission must
\* be answered with: a provisional one in PROCEEDING, and in COMPLETED the
\* final one, although the code drops last_tx before each send.
LastResponseKept ==
    tsx.role = "UAS" =>
        /\ tsx.state = PROCEEDING => tsx.last_tx \in Provisional
        /\ tsx.state = COMPLETED => tsx.last_tx \in Final

\* However often a response is retransmitted, resent after a resolution or
\* postponed behind another send, and whatever the TU tries, one transaction
\* puts at most one final response on the wire.
OneFinalResponse == \A c, d \in tsx.sent \cap Final : c = d

\* Once a response has come, the retransmission of an INVITE stays stopped.
InviteRetransmissionStops ==
    tsx.role = "UAC" /\ tsx.method = "INVITE" /\ tsx.state \in {PROCEEDING, COMPLETED}
        => ~tsx.heap["retransmit"]

\* The TU hears of the end of every transaction before it is freed.
EndIsReported == Freed => tsx.terminations >= 1 /\ tsx.told = DESTROYED

\* A transaction that only a timer is sure to end is freed in the end,
\* whatever timers, callbacks and sends still hold references; the one way
\* out of transport_callback that keeps a reference is the only exception.
EventuallyFreed ==
    tsx.state \in {COMPLETED, CONFIRMED, TERMINATED} ~> (Freed \/ tsx.kept > 0)

\* A request that was sent gets an answer, or the TU is told it timed out.
RequestEnds ==
    (tsx.role = "UAC" /\ tsx.state = CALLING)
        ~> (tsx.told >= TERMINATED \/ (tsx.state = PROCEEDING /\ tsx.method = "INVITE"))

=============================================================================
