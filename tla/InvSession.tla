----------------------------- MODULE InvSession -----------------------------
(***************************************************************************)
(* The INVITE session of sip_inv.c on both sides of a call: A made the     *)
(* call, B was called.  Each side has a session and a dialog; requests and *)
(* responses travel in transactions.  A transaction repeats its message    *)
(* until it is answered, so a message can arrive for as long as the        *)
(* sender's half is in the state that repeats it, in any order with those  *)
(* of other transactions; the network may lose them all (MayTimeout).      *)
(* Offers and answers are SdpExchange's subject.                           *)
(***************************************************************************)
EXTENDS Integers, Sequences

CONSTANTS MayTimeout,     \* may transactions time out?
          MayCancel,      \* may the application cancel a re-INVITE?
          MaxReinvites    \* bound: re-INVITEs of a call, of both sides

Side == {"A", "B"}
Peer(p) == IF p = "A" THEN "B" ELSE "A"

\* pjsip_inv_state, in its order.
NULL == 0
CALLING == 1
INCOMING == 2
EARLY == 3
CONNECTING == 4
CONFIRMED == 5
DISCONNECTED == 6

VARIABLES inv,    \* the session of each side
          tsx     \* the transactions, in the order they were made: their CSeq
vars == <<inv, tsx>>

\* 0 where the code has a null pointer or no status code.
NoSession ==
    [state |-> NULL, cause |-> 0, pending_cancel |-> FALSE,
     pending_bye |-> FALSE, invite_tsx |-> 0, remote_cseq |-> 0,
     hanging_up |-> FALSE]

\* The handlers below work on both variables as one world w.
World == [inv |-> inv, tsx |-> tsx]
Become(w) == inv' = w.inv /\ tsx' = w.tsx

St(w, p) == w.inv[p].state
Set(w, p, field, v) == [w EXCEPT !.inv[p][field] = v]

\* The INVITE's number is the CSeq of its CANCEL as well.
Cseq(t, i) == IF t[i].method = "CANCEL" THEN t[i].of ELSE i

\* pjsip_dlg_send_request: c is the client's half, s the server's.
Request(w, p, method, of) ==
    [w EXCEPT !.tsx = Append(@,
        [method |-> method, by |-> p, of |-> of, c |-> "CALLING", ccode |-> 0,
         s |-> "NONE", scode |-> 0, acked |-> FALSE])]

\* Fault: a lower code never replaces the cause.
SetCauseOnce(w, p, code) ==
    IF code > w.inv[p].cause THEN Set(w, p, "cause", code) ELSE w

SetCause(w, p, code) ==
    IF code > w.inv[p].cause \/ w.inv[p].pending_bye
    THEN Set(w, p, "cause", code) ELSE w

\* Fault: the BYE does not wait for the ACK.
SendByeAtOnce(w, p) == Request(w, p, "BYE", 0)

\* pjsip_inv_send_msg: the UAS does not send BYE before the ACK arrived,
\* unless the ACK is not to come.
SendBye(w, p) ==
    IF p = "B" /\ St(w, p) = CONNECTING /\ w.inv[p].cause # 408
    THEN Set(w, p, "pending_bye", TRUE)
    ELSE Request(w, p, "BYE", 0)

\* inv_set_state with what pjsua does in on_state_changed: a call that was
\* being hung up and is confirmed all the same is ended.
SetState(w, p, state) ==
    LET n == Set(w, p, "state", state)
    IN IF state = CONFIRMED /\ n.inv[p].hanging_up
       THEN SendBye(SetCause(n, p, 200), p) ELSE n

\* Fault: a session ends without a cause.
DisconnectOnly(w, p, code) == SetState(w, p, DISCONNECTED)

Disconnect(w, p, code) == SetState(SetCause(w, p, code), p, DISCONNECTED)

\* Fault: an INVITE that is over is not forgotten.
ForgetNothing(w, p, i) == w

\* mod_inv_on_tsx_state forgets the INVITE when it is over.
Forget(w, p, i) ==
    IF w.inv[p].invite_tsx = i THEN Set(w, p, "invite_tsx", 0) ELSE w

\* A response is sent by the server p of transaction i, and the session
\* handles the state its INVITE gets.
Respond(w, p, i, code) ==
    LET n == [w EXCEPT !.tsx[i] = [@ EXCEPT !.scode = code,
                !.s = IF code < 200 THEN "PROCEEDING" ELSE "COMPLETED"]]
    IN IF w.inv[p].invite_tsx # i \/ St(w, p) \notin {INCOMING, EARLY} THEN n
       ELSE IF code >= 300 THEN Disconnect(n, p, code)
       ELSE IF code >= 200 THEN SetState(n, p, CONNECTING)
       ELSE IF code > 100 THEN SetState(n, p, EARLY) ELSE n

\* pjsip_inv_end_session and the sending of its message.
EndSession(w, p, code) ==
    LET n == SetCause(w, p, code)
        i == w.inv[p].invite_tsx
    IN IF St(w, p) \in {CONNECTING, CONFIRMED} THEN SendBye(n, p)
       ELSE IF St(w, p) = DISCONNECTED THEN n
       ELSE IF p = "B" THEN Respond(n, p, i, code)
       ELSE IF w.tsx[i].ccode < 100 THEN Set(n, p, "pending_cancel", TRUE)
       ELSE Request(n, p, "CANCEL", i)

\* pjsip_inv_cancel_reinvite.
CancelInvite(w, p) ==
    LET i == w.inv[p].invite_tsx
    IN IF w.tsx[i].ccode < 100 THEN Set(w, p, "pending_cancel", TRUE)
       ELSE Request(w, p, "CANCEL", i)

\* Fault: an ACK always confirms the session.
SendAckConfirms(w, p, i) ==
    SetState([w EXCEPT !.tsx[i].acked = TRUE], p, CONFIRMED)

SendAck(w, p, i) ==
    LET n == [w EXCEPT !.tsx[i].acked = TRUE]
    IN IF St(w, p) < CONFIRMED THEN SetState(n, p, CONFIRMED) ELSE n

------------------------------------------------------------------------------
(* A dialog lives until its session has ended and so have its transactions.*)
------------------------------------------------------------------------------
Attached(w, p, i) ==
    LET t == w.tsx[i]
    IN \/ t.by = p /\ t.c # "TERMINATED"
       \/ t.by # p /\ t.s \notin {"NONE", "STATELESS", "TERMINATED"}

Alive(w, p) ==
    /\ St(w, p) # NULL
    /\ St(w, p) # DISCONNECTED \/ \E i \in DOMAIN w.tsx : Attached(w, p, i)

------------------------------------------------------------------------------
(* Requests at the server.                                                 *)
------------------------------------------------------------------------------
\* The first INVITE makes dialog and session; pjsua answers 100 at once.
NewCall(w, p, i) ==
    Respond([w EXCEPT !.inv[p] = [NoSession EXCEPT !.state = INCOMING,
                                    !.invite_tsx = i, !.remote_cseq = i]],
            p, i, 100)

\* Fault: a confirmed session does not ask for a pending INVITE.
RxReinviteAlways(w, p, i) ==
    IF St(w, p) = CONNECTING THEN {Respond(w, p, i, 491)}
    ELSE IF St(w, p) # CONFIRMED THEN {w}
    ELSE {Respond(Set(w, p, "invite_tsx", i), p, i, code) :
            code \in {100, 200, 488}}

\* inv_on_state_connecting and inv_on_state_confirmed, an INVITE: refused
\* while there is another, else answered at once or, after 100, later.
\* INVITE in the other states: only DISCONNECTED is met, and does nothing.
RxReinvite(w, p, i) ==
    LET pending == w.inv[p].invite_tsx
    IN IF St(w, p) = CONNECTING THEN {Respond(w, p, i, 491)}
       ELSE IF St(w, p) # CONFIRMED THEN {w}
       ELSE IF pending # 0
       THEN {Respond(w, p, i, IF w.tsx[pending].by = p THEN 491 ELSE 500)}
       ELSE {Respond(Set(w, p, "invite_tsx", i), p, i, code) :
                code \in {100, 200, 488}}

\* Fault: a BYE that overtakes the ACK is answered and no more.
RxByeAnswerOnly(w, p, i) ==
    LET n == Respond(w, p, i, 200)
    IN IF St(w, p) = CONFIRMED THEN Disconnect(n, p, 200) ELSE n

\* inv_respond_incoming_bye, and inv_on_state_early ending the INVITE.
RxBye(w, p, i) ==
    LET n == Respond(w, p, i, 200)
        v == w.inv[p].invite_tsx
        d == Disconnect(n, p, 200)
    IN IF St(w, p) \in {CALLING, INCOMING} THEN w
       ELSE IF St(w, p) = DISCONNECTED THEN n
       ELSE IF St(w, p) = EARLY /\ p = "B" /\ w.tsx[v].scode < 200
       THEN Respond(d, p, v, 487) ELSE d

\* inv_respond_incoming_cancel, or 200 alone when disconnected.
RxCancel(w, p, i) ==
    LET n == Respond(w, p, i, 200)
        v == w.tsx[i].of
    IN IF St(w, p) # DISCONNECTED /\ w.tsx[v].scode < 200
       THEN Respond(n, p, v, 487) ELSE n

\* The user agent layer and pjsip_dlg_on_rx_request: no dialog (for CANCEL,
\* no INVITE transaction), an old CSeq, or the session's handler.
RxRequest(w, p, i) ==
    LET t == w.tsx[i]
        Stateless(code) == {[w EXCEPT !.tsx[i] =
                                [@ EXCEPT !.s = "STATELESS", !.scode = code]]}
        n == Set([w EXCEPT !.tsx[i].s = "TRYING"],
                 p, "remote_cseq", Cseq(w.tsx, i))
    IN IF St(w, p) = NULL THEN {NewCall(w, p, i)}
       ELSE IF \/ ~Alive(w, p)
               \/ t.method = "CANCEL" /\ ~Attached(w, p, t.of)
       THEN Stateless(481)
       ELSE IF t.method # "CANCEL" /\ i <= w.inv[p].remote_cseq
       THEN Stateless(500)
       ELSE CASE t.method = "INVITE" -> RxReinvite(n, p, i)
              [] t.method = "BYE" -> {RxBye(n, p, i)}
              [] t.method = "CANCEL" -> {RxCancel(n, p, i)}

\* mod_inv_on_rx_request, the ACK to a 2xx.
RxAck(w, p, i) ==
    LET d == Set(w, p, "remote_cseq", i)
        n == Set([d EXCEPT !.tsx[i].s = "TERMINATED"], p, "invite_tsx", 0)
        o == SetState(n, p, CONFIRMED)
    IN IF w.inv[p].invite_tsx # i THEN d
       ELSE IF St(n, p) # CONNECTING THEN n
       ELSE IF o.inv[p].pending_bye
       THEN SendBye(Set(o, p, "pending_bye", FALSE), p) ELSE o

\* A server INVITE was not acknowledged in time.
AckTimeout(w, p, i) ==
    LET t == [w EXCEPT !.tsx[i] = [@ EXCEPT !.s = "TERMINATED", !.scode = 408]]
        n == IF w.inv[p].invite_tsx = i /\ St(w, p) = CONNECTING
             THEN Set(SendBye(SetCause(t, p, 408), p), p, "pending_bye", FALSE)
             ELSE t
    IN Forget(n, p, i)

------------------------------------------------------------------------------
(* Responses and timeouts at the client.                                   *)
------------------------------------------------------------------------------
\* handle_uac_tsx_response: the dialog is gone, or did not answer.
Generic(w, p, i) ==
    LET t == w.tsx[i]
    IN IF \/ t.ccode = 481 /\ t.method # "CANCEL"
          \/ t.ccode = 408
       THEN SendBye(Disconnect(w, p, t.ccode), p) ELSE w

\* inv_on_state_calling and inv_on_state_early, the INVITE of the UAC.
OnFirstInvite(w, p, i) ==
    LET code == w.tsx[i].ccode
        cancel == St(w, p) = CALLING /\ w.inv[p].pending_cancel
        n == IF cancel
             THEN EndSession(Set(w, p, "pending_cancel", FALSE), p, 487)
             ELSE w
    IN IF code >= 300 THEN Disconnect(w, p, code)
       ELSE IF code >= 200 THEN SendAck(SetState(w, p, CONNECTING), p, i)
       ELSE IF code > 100 THEN SetState(n, p, EARLY) ELSE n

\* inv_on_state_confirmed, an outgoing re-INVITE.
OnReinvite(w, p, i) ==
    LET code == w.tsx[i].ccode
    IN IF code < 200
       THEN IF w.inv[p].pending_cancel
            THEN CancelInvite(Set(w, p, "pending_cancel", FALSE), p) ELSE w
       ELSE IF code < 300 THEN SendAck(w, p, i)
       ELSE IF code \in {408, 481} THEN Generic(w, p, i)
       ELSE Forget(w, p, i)

\* inv_state_handler of the client's side.
OnClient(w, p, i) ==
    LET t == w.tsx[i]
        first == w.inv[p].invite_tsx = i
    IN CASE St(w, p) = DISCONNECTED -> w
         [] St(w, p) = CALLING /\ ~first ->
               IF t.ccode = 408 THEN Disconnect(w, p, 408) ELSE w
         [] St(w, p) = CONFIRMED /\ t.method = "INVITE" -> OnReinvite(w, p, i)
         [] St(w, p) \in {CALLING, EARLY} /\ first -> OnFirstInvite(w, p, i)
         [] St(w, p) \in {CONNECTING, CONFIRMED} /\ t.method = "BYE" ->
               Disconnect(w, p, 200)
         [] OTHER -> Generic(w, p, i)

\* A response, or 408 for none, ends or advances the client transaction.  The
\* 2xx to an INVITE is seen by mod_inv_on_rx_response first.
RxResponse(w, p, i, code) ==
    LET t == w.tsx[i]
        accepted == t.method = "INVITE" /\ code \in 200..299
        c == IF code < 200 THEN "PROCEEDING"
             ELSE IF accepted \/ (t.method = "BYE" /\ code = 481)
             THEN "TERMINATED" ELSE "COMPLETED"
        n == [w EXCEPT !.tsx[i] = [@ EXCEPT !.c = c, !.ccode = code]]
        m == IF accepted /\ (w.inv[p].invite_tsx = 0 \/ St(w, p) = DISCONNECTED)
             THEN SendAck(n, p, i) ELSE n
        h == OnClient(m, p, i)
    IN IF c = "TERMINATED" THEN Forget(h, p, i) ELSE h

NoResponse(w, p, i) ==
    Forget(OnClient([w EXCEPT !.tsx[i] =
                        [@ EXCEPT !.c = "TERMINATED", !.ccode = 408]], p, i), p, i)

------------------------------------------------------------------------------
Init ==
    /\ inv = [p \in Side |-> IF p = "B" THEN NoSession
                ELSE [NoSession EXCEPT !.state = CALLING, !.invite_tsx = 1]]
    /\ tsx = Request([inv |-> inv, tsx |-> <<>>], "A", "INVITE", 0).tsx

Txns == DOMAIN tsx
Server(i) == Peer(tsx[i].by)
Open(i) == tsx[i].c \in {"CALLING", "PROCEEDING"}

\* A request arrives for the first time.
DeliverRequest(i) ==
    /\ tsx[i].s = "NONE" /\ tsx[i].c = "CALLING"
    /\ \E w \in RxRequest(World, Server(i), i) : Become(w)

\* A response arrives that the client has not seen.
DeliverResponse(i) ==
    /\ Open(i) /\ tsx[i].s \in {"PROCEEDING", "COMPLETED", "STATELESS"}
    /\ tsx[i].scode # tsx[i].ccode
    /\ Become(RxResponse(World, tsx[i].by, i, tsx[i].scode))

\* A 2xx to an INVITE whose transaction gave up is still acknowledged.
DeliverStray(i) ==
    LET p == tsx[i].by
    IN /\ tsx[i].method = "INVITE" /\ tsx[i].c = "TERMINATED" /\ ~tsx[i].acked
       /\ tsx[i].s = "COMPLETED" /\ tsx[i].scode = 200 /\ Alive(World, p)
       /\ inv[p].invite_tsx = 0 \/ inv[p].state = DISCONNECTED
       /\ Become(SendAck(World, p, i))

\* The ACK to a 2xx arrives; it repeats as the 2xx does.
DeliverAck(i) ==
    /\ tsx[i].acked /\ tsx[i].s = "COMPLETED"
    /\ Become(IF Alive(World, Server(i)) THEN RxAck(World, Server(i), i)
              ELSE World)

\* The ACK to another final response is the transactions' own affair.
DeliverFailureAck(i) ==
    /\ tsx[i].method = "INVITE" /\ tsx[i].c = "COMPLETED"
    /\ tsx[i].s = "COMPLETED" /\ tsx[i].scode >= 300
    /\ Become(Forget([World EXCEPT !.tsx[i].s = "CONFIRMED"], Server(i), i))

\* A transaction that is through leaves after its last timer; that matters
\* only to a dialog whose session has ended.
ExpireServer(i) ==
    /\ inv[Server(i)].state = DISCONNECTED
    /\ \/ tsx[i].s = "CONFIRMED"
       \/ /\ tsx[i].method # "INVITE" /\ tsx[i].s = "COMPLETED"
          /\ MayTimeout \/ ~Open(i)
    /\ tsx' = [tsx EXCEPT ![i].s = "TERMINATED"]
    /\ UNCHANGED inv

ExpireClient(i) ==
    /\ inv[tsx[i].by].state = DISCONNECTED /\ tsx[i].c = "COMPLETED"
    /\ tsx[i].method = "INVITE" => MayTimeout \/ tsx[i].s # "COMPLETED"
    /\ Become(Forget([World EXCEPT !.tsx[i].c = "TERMINATED"], tsx[i].by, i))

\* No response in 64*T1; after a provisional one that is counted only for the
\* first INVITE, from a CANCEL or from a BYE in state EARLY.
TimeoutClient(i) ==
    /\ MayTimeout
    /\ \/ tsx[i].c = "CALLING"
       \/ /\ i = 1 /\ tsx[i].c = "PROCEEDING"
          /\ \/ inv["A"].state = DISCONNECTED
             \/ \E j \in Txns : tsx[j].method = "CANCEL" /\ tsx[j].of = 1
    /\ Become(NoResponse(World, tsx[i].by, i))

TimeoutAck(i) ==
    /\ MayTimeout
    /\ tsx[i].method = "INVITE" /\ tsx[i].s = "COMPLETED"
    /\ Become(AckTimeout(World, Server(i), i))

------------------------------------------------------------------------------
(* The application.                                                        *)
------------------------------------------------------------------------------
\* pjsua_call_answer, of the call and of a re-INVITE it took its time for.
Answer ==
    \E p \in Side, code \in {180, 200, 486} :
        LET i == inv[p].invite_tsx
        IN /\ inv[p].state \in {INCOMING, EARLY, CONFIRMED} /\ i # 0
           /\ tsx[i].by # p /\ tsx[i].s = "PROCEEDING" /\ tsx[i].scode < code
           /\ Become(Respond(World, p, i, code))

\* pjsua_call_hangup.
Hangup(p) ==
    LET st == inv[p].state
        code == IF st = CONFIRMED THEN 200 ELSE IF p = "B" THEN 603 ELSE 487
    IN /\ st \notin {NULL, DISCONNECTED} /\ ~inv[p].hanging_up
       /\ Become(EndSession(Set(World, p, "hanging_up", TRUE), p, code))

\* pjsip_inv_reinvite, not for a call the application has hung up.
Reinvite(p) ==
    /\ inv[p].state = CONFIRMED /\ inv[p].invite_tsx = 0
    /\ ~inv[p].hanging_up
    /\ Len(SelectSeq(tsx, LAMBDA t : t.method = "INVITE")) <= MaxReinvites
    /\ Become(Set(Request(World, p, "INVITE", 0), p, "invite_tsx", Len(tsx) + 1))

\* pjsip_inv_cancel_reinvite.
CancelReinvite(p) ==
    LET i == inv[p].invite_tsx
    IN /\ MayCancel /\ inv[p].state = CONFIRMED
       /\ i # 0 /\ tsx[i].by = p /\ Open(i)
       /\ \A j \in Txns : tsx[j].of # i    \* else the CANCEL's key exists
       /\ Become(CancelInvite(World, p))

Deliver(i) ==
    \/ DeliverRequest(i) \/ DeliverResponse(i) \/ DeliverStray(i)
    \/ DeliverAck(i) \/ DeliverFailureAck(i)

Next ==
    \/ \E i \in Txns : \/ Deliver(i) \/ ExpireServer(i) \/ ExpireClient(i)
                       \/ TimeoutClient(i) \/ TimeoutAck(i)
    \/ Answer
    \/ \E p \in Side : Hangup(p) \/ Reinvite(p) \/ CancelReinvite(p)

Spec == Init /\ [][Next]_vars

\* Timers fire and what is repeated gets through or times out.
FairSpec ==
    /\ Spec
    /\ WF_vars(\E i \in Txns : Deliver(i) \/ ExpireServer(i) \/ ExpireClient(i))
    /\ WF_vars(\E i \in Txns : TimeoutClient(i) \/ TimeoutAck(i))

------------------------------------------------------------------------------
(* What the sessions promise.                                              *)
------------------------------------------------------------------------------
Codes == {0, 100, 180, 200, 408, 481, 486, 487, 488, 491, 500, 603}

\* The shape of sessions and transactions; inv_set_state asserts that a
\* session that ends has a cause.
TypeOK ==
    /\ DOMAIN inv = Side
    /\ \A p \in Side :
          /\ inv[p].state \in NULL..DISCONNECTED /\ inv[p].cause \in Codes
          /\ inv[p].state = DISCONNECTED => inv[p].cause # 0
          /\ {inv[p].pending_cancel, inv[p].pending_bye, inv[p].hanging_up}
                \subseteq BOOLEAN
          /\ {inv[p].invite_tsx, inv[p].remote_cseq} \subseteq 0..Len(tsx)
    /\ \A i \in Txns :
          /\ tsx[i].method \in {"INVITE", "CANCEL", "BYE"}
          /\ tsx[i].by \in Side /\ tsx[i].of \in 0..Len(tsx)
          /\ tsx[i].c \in {"CALLING", "PROCEEDING", "COMPLETED", "TERMINATED"}
          /\ tsx[i].s \in {"NONE", "TRYING", "PROCEEDING", "COMPLETED",
                           "CONFIRMED", "TERMINATED", "STATELESS"}
          /\ {tsx[i].ccode, tsx[i].scode} \subseteq Codes
          /\ tsx[i].acked \in BOOLEAN

\* pending_bye (ticket 1712) exists so that caller and callee agree that the
\* call was confirmed: with nothing timing out, the called side's BYE never
\* goes out before the caller has acknowledged.
ByeAfterAck ==
    \A i \in Txns : tsx[i].by = "B" /\ tsx[i].method = "BYE"
                      => inv["A"].state >= CONFIRMED

\* Re-INVITEs that cross or follow each other: at most one INVITE of the call
\* is being answered, or waits for the ACK to its 2xx, on either side.
OneAtATime ==
    \A i, j \in Txns :
        /\ i # j
        /\ \A k \in {i, j} : /\ tsx[k].method = "INVITE"
                             /\ \/ tsx[k].s = "PROCEEDING"
                                \/ tsx[k].s = "COMPLETED" /\ tsx[k].scode = 200
        => \E p \in Side : inv[p].state = DISCONNECTED

\* invite_tsx is what re-INVITEs, ACKs and CANCELs are judged by: it never
\* outlives its transaction, and in a confirmed call no INVITE of this side
\* and none it has yet to answer escapes it.
InviteTsxExact ==
    \A p \in Side :
        /\ inv[p].invite_tsx # 0 => Attached(World, p, inv[p].invite_tsx)
        /\ inv[p].state = CONFIRMED =>
              \A i \in Txns :
                 /\ tsx[i].method = "INVITE"
                 /\ IF tsx[i].by = p THEN Open(i) ELSE tsx[i].s = "PROCEEDING"
                 => inv[p].invite_tsx = i

\* A session never goes back, whatever arrives late: in particular the 2xx to
\* a re-INVITE does not revive a call that has ended.
NeverBack == [][\A p \in Side : inv'[p].state >= inv[p].state]_vars

\* With nothing lost for good, a call that has ended on one side has ended on
\* the other once every request is answered, every ACK is in and the timers of
\* what is over have fired: BYEs that cross, overtake an ACK or meet an open
\* re-INVITE leave nobody in a call by himself.
EndsBoth ==
    ((\E p \in Side : inv[p].state = DISCONNECTED)
     /\ ~ENABLED (\E i \in Txns : Deliver(i) \/ ExpireServer(i) \/ ExpireClient(i)))
    => \A p \in Side : inv[p].state = DISCONNECTED

\* A hangup ends the call, in every state and also when the answer crosses
\* it, the CANCEL has to wait for a response, or the ACK never comes.
HangupEnds ==
    \A p \in Side : inv[p].hanging_up ~> inv[p].state = DISCONNECTED

=============================================================================
