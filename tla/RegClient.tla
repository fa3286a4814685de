----------------------------- MODULE RegClient -----------------------------
(***************************************************************************)
(* The registration of one account: the client registration sessions of    *)
(* sip_reg.c and the account's part of pjsua_acc.c that makes, uses and    *)
(* destroys them.  The user's threads call the API; the worker threads run *)
(* the transactions' callbacks and the timers.  A thread is the stack of   *)
(* the functions it is in, innermost last; a step runs from one place     *)
(* where the code gives up or takes a lock to the next, so that PJSUA_LOCK *)
(* is a variable and a section under a session's own lock is one step.     *)
(***************************************************************************)
EXTENDS Integers, Sequences, SequencesExt, FiniteSets

CONSTANTS Users, Workers,   \* the threads
          Regc,             \* the memory for sessions
          None,             \* no session, no thread
          Codes,            \* final responses the registrar gives
          SendFails         \* may sending a request fail at once?

Thread == Users \cup Workers

ASSUME RegAssumption ==
    /\ Users \cap Workers = {}
    /\ None \notin Thread \cup Regc
    /\ Codes \subseteq {200, 401, 403, 423, 503}
    /\ SendFails \in BOOLEAN

VARIABLES reg,     \* the sessions
          acc,     \* the account
          stk,     \* what each thread is doing
          net,     \* the requests that await a response
          pjsua    \* the thread that holds PJSUA_LOCK
vars == <<reg, acc, stk, net, pjsua>>

\* The handlers below work on the variables as one world w.
World == [reg |-> reg, acc |-> acc, stk |-> stk, net |-> net, pjsua |-> pjsua]
Become(w) == /\ reg' = w.reg /\ acc' = w.acc /\ stk' = w.stk
             /\ net' = w.net /\ pjsua' = w.pjsua

WithReg(w, r, s) == [w EXCEPT !.reg[r] = s]
WithAcc(w, a) == [w EXCEPT !.acc = a]
WithNet(w, n) == [w EXCEPT !.net = n]
WithPjsua(w, t) == [w EXCEPT !.pjsua = t]

-----------------------------------------------------------------------------
(* A session.                                                              *)

\* cseq stands for the number in the last request: the send that gave it, for
\* as long as that send may compare it.
\* timer: the refresh timer is in the heap; id: its id is not zero.
\* long: the requested expiration is as long as the registrar wants it.
NewRegc ==
    [live |-> TRUE, delete_flag |-> FALSE, lock |-> FALSE, has_tsx |-> FALSE,
     busy |-> 0, op |-> "IDLE", cseq |-> <<>>, timer |-> FALSE, id |-> FALSE,
     long |-> FALSE, transport |-> FALSE]

\* A timer whose id is zero is left in the heap.
Freed(s) == [NewRegc EXCEPT !.live = FALSE, !.timer = s.timer /\ ~s.id]

CancelTimer(s) ==
    IF s.id THEN [s EXCEPT !.timer = FALSE, !.id = FALSE] ELSE s

ScheduleRegistration(s) == [s EXCEPT !.timer = TRUE, !.id = TRUE]

\* Fault: references are not counted.
AddRefNothing(s) == s

AddRef(s) == [s EXCEPT !.busy = @ + 1]

InUse(s) == s.has_tsx \/ s.busy # 0

\* Fault: only a request in progress keeps the session.
DestroyUnlessTsx(s) ==
    IF s.has_tsx THEN [s EXCEPT !.delete_flag = TRUE] ELSE Freed(s)

\* pjsip_regc_destroy2, forced.
Destroy(s) == IF InUse(s) THEN [s EXCEPT !.delete_flag = TRUE] ELSE Freed(s)

-----------------------------------------------------------------------------
(* Threads.                                                                *)

\* status: what the call that was made returned.
Frame(fn, pc, r, unreg) ==
    [fn |-> fn, pc |-> pc, r |-> r, unreg |-> unreg, code |-> 0,
     status |-> "ok", exp |-> FALSE, is_unreg |-> FALSE]

Idle(t) == stk[t] = <<>>
Top(t) == Last(stk[t])
At(t, fn, pc) == ~Idle(t) /\ Top(t).fn = fn /\ Top(t).pc = pc

Push(w, t, f) == [w EXCEPT !.stk[t] = Append(@, f)]
Pop(w, t) == [w EXCEPT !.stk[t] = Front(@)]
Put(w, t, f) == Push(Pop(w, t), t, f)
Goto(w, t, pc) == Put(w, t, [Last(w.stk[t]) EXCEPT !.pc = pc])
Done(w, t) ==
    LET f == Last(w.stk[t]) IN Put(w, t, Frame(f.fn, "dec", f.r, FALSE))
Return(w, t, status) ==
    LET v == Pop(w, t) IN Put(v, t, [Last(v.stk[t]) EXCEPT !.status = status])

MayLock(t) == pjsua \in {t, None}
MayUse(r) == ~reg[r].lock

Frames == UNION {{stk[t][i] : i \in DOMAIN stk[t]} : t \in Thread}

\* Memory nothing points to: pjsip_regc_create may get it.
Unused == {r \in Regc : /\ ~reg[r].live /\ ~reg[r].timer
                        /\ \A f \in Frames : f.r # r
                        /\ \A q \in net : q.r # r}

-----------------------------------------------------------------------------
(* The account.  told: the application was last told that it is            *)
(* registered; refused: its last call failed.                              *)

ScheduleReregistration(a) ==
    IF a.valid THEN [a EXCEPT !.active = TRUE, !.retry = TRUE] ELSE a

\* regc_cb, the whole of it under PJSUA_LOCK.  A status that is not ok comes
\* with a code too; exp: the expiration is not zero.
RegcCb(w, r, f) ==
    LET s == w.reg[r]
        a == w.acc
        lost == [a EXCEPT !.told = FALSE]
        Gone(b) == WithAcc(WithReg(w, r, Destroy(s)), [b EXCEPT !.regc = None])
        temporary == f.code = 503
    IN IF a.regc # r \/ f.status = "EBUSY" THEN w
       ELSE IF f.status = "error"
       THEN IF s.has_tsx THEN WithAcc(w, lost) ELSE Gone(lost)
       ELSE IF f.code >= 300
       THEN Gone(IF temporary THEN ScheduleReregistration(lost) ELSE lost)
       ELSE LET b == [a EXCEPT !.active = FALSE, !.told = f.exp]
            IN IF f.exp THEN WithAcc(w, b) ELSE Gone(b)

\* The session to use, a new one if need be and memory allows.
Target(renew) ==
    IF acc.regc # None THEN acc.regc
    ELSE IF renew /\ Unused # {} THEN CHOOSE r \in Unused : TRUE ELSE None

\* pjsua_acc_set_registration with session r up to the call of
\* pjsip_regc_send, for renew or to unregister.
BeginSet(w, t, r, renew) ==
    LET s == IF w.acc.regc = None THEN NewRegc ELSE CancelTimer(w.reg[r])
        v == WithAcc(WithReg(w, r, AddRef(s)),
                     [w.acc EXCEPT !.regc = r, !.retry = FALSE])
    IN Push(Push(v, t, Frame("set", "sent", r, ~renew)),
            t, Frame("send", "start", r, ~renew))

\* Its end, with PJSUA_LOCK taken: only the outermost call unlocks it.
EndSet(w, t) ==
    LET status == Last(w.stk[t]).status
    IN IF Len(w.stk[t]) > 1 THEN Return(w, t, status)
       ELSE WithPjsua(WithAcc(Pop(w, t), [w.acc EXCEPT !.refused = status # "ok"]),
                      None)

-----------------------------------------------------------------------------
(* pjsip_regc_send.                                                        *)

DecRef(s) ==
    LET d == [s EXCEPT !.busy = @ - 1]
    IN IF d.busy = 0 /\ d.delete_flag THEN Destroy(d) ELSE d

\* The caller has a reference of its own, so the one taken here never
\* decides whether the session may go.
SendStart(t) ==
    LET r == Top(t).r
        s == reg[r]
    IN /\ At(t, "send", "start") /\ MayUse(r)
       /\ Become(IF s.has_tsx THEN Return(World, t, "EBUSY")
                 ELSE Goto(WithReg(World, r,
                        [AddRef(s) EXCEPT
                           !.has_tsx = TRUE, !.cseq = <<t, Len(stk[t])>>,
                           !.op = IF Top(t).unreg THEN "UNREGISTERING"
                                  ELSE "REGISTERING"]), t, "out"))

TsxFrame(q, code) == [Frame("tsx", "start", q.r, q.unreg) EXCEPT !.code = code]

\* pjsip_endpt_send_request: the request leaves, or it cannot be sent and the
\* transaction may or may not report that with 503 before the call returns.
SendOut(t) ==
    LET q == [r |-> Top(t).r, unreg |-> Top(t).unreg]
        failed == Put(World, t, [Top(t) EXCEPT !.pc = "back", !.status = "error"])
    IN /\ At(t, "send", "out")
       /\ \/ Become(WithNet(Goto(World, t, "back"), net \cup {q}))
          \/ SendFails /\ \E w \in {failed, Push(failed, t, TsxFrame(q, 503))} :
                             Become(w)

\* Fault: even under a request that was sent in the meantime.
SendFailureAlways(s, mine) == [s EXCEPT !.has_tsx = FALSE]

\* Only if no other request was sent in the meantime.
SendFailure(s, mine) == IF mine THEN [s EXCEPT !.has_tsx = FALSE] ELSE s

SendBack(t) ==
    LET r == Top(t).r
        s == reg[r]
        mine == s.cseq = <<t, Len(stk[t])>>
        z == IF mine THEN [s EXCEPT !.cseq = <<>>] ELSE s
        e == IF Top(t).status = "ok" THEN [z EXCEPT !.transport = TRUE]
             ELSE SendFailure(z, mine)
    IN /\ At(t, "send", "back") /\ MayUse(r)
       /\ Become(Return(WithReg(World, r, DecRef(e)), t, Top(t).status))

-----------------------------------------------------------------------------
(* regc_tsx_callback.                                                      *)

\* The final response to request q arrives, or the transaction times out.
Deliver(t, q, code) ==
    /\ t \in Workers /\ Idle(t) /\ q \in net
    /\ code = 423 => ~q.unreg
    /\ Become(WithNet(Push(World, t, TsxFrame(q, code)), net \ {q}))

Report(w, t, status, code, exp, is_unreg) ==
    Put(w, t, [Last(w.stk[t]) EXCEPT !.pc = "call", !.status = status,
                                     !.code = code, !.exp = exp,
                                     !.is_unreg = is_unreg])

\* The request is sent again, unregistering or not.
Resend(w, t, unreg) ==
    Push(Goto(w, t, "sent"), t, Frame("send", "start", Last(w.stk[t]).r, unreg))

\* What is done with the response under the lock: the worlds it may lead to.
\* For a 200, an expiration of zero in the answer to a registration is
\* replaced (PJSIP_REGISTER_ALLOW_EXP_REFRESH).
Handle(w, t) ==
    LET f == Last(w.stk[t])
        s == w.reg[f.r]
        is_unreg == s.op = "UNREGISTERING"
        With(z, b) == Put(WithReg(w, f.r, [z EXCEPT !.op = "IDLE"]),
                          t, [f EXCEPT !.is_unreg = b])
        v == With(s, is_unreg)
    IN CASE f.code = 401 ->
              {Resend(v, t, f.unreg)} \cup
              {IF s.delete_flag THEN Done(v, t)
               ELSE Report(v, t, "error", 401, FALSE, is_unreg)}
         [] f.code # 401 /\ s.delete_flag -> {Done(v, t)}
         [] f.code = 423 /\ ~s.delete_flag /\ s.op = "REGISTERING" ->
              {IF s.long THEN Report(v, t, "ok", 423, FALSE, FALSE)
               ELSE LET z == CancelTimer([s EXCEPT !.long = TRUE])
                    IN Resend(With(z, FALSE), t, FALSE)}
         [] OTHER ->
              {LET z == IF f.code = 200 /\ ~is_unreg
                        THEN ScheduleRegistration(s) ELSE s
               IN Report(With(z, is_unreg), t, "ok", f.code,
                         f.code = 200 /\ ~is_unreg, is_unreg)}

\* The first section: has_tsx is reset, and the lock is given up for tsx_cb.
TsxStart(t) ==
    LET r == Top(t).r
        s == [AddRef(reg[r]) EXCEPT !.has_tsx = FALSE, !.transport = TRUE]
        w == WithReg(World, r, s)
    IN /\ At(t, "tsx", "start") /\ MayUse(r)
       /\ IF ~s.delete_flag /\ s.op = "REGISTERING" THEN Become(Goto(w, t, "tsx_cb"))
          ELSE \E v \in Handle(w, t) : Become(v)

\* regc_tsx_cb has PJSUA_LOCK for a moment; contacts are not rewritten.
TsxCb(t) ==
    /\ At(t, "tsx", "tsx_cb") /\ MayLock(t)
    /\ Become(Goto(World, t, "handle"))

TsxHandle(t) ==
    /\ At(t, "tsx", "handle") /\ MayUse(Top(t).r)
    /\ \E w \in Handle(World, t) : Become(w)

\* The request that was sent again is out, or was not sent.
TsxSent(t) ==
    LET f == Top(t)
    IN /\ At(t, "tsx", "sent") /\ MayUse(f.r)
       /\ Become(IF f.status = "ok" \/ reg[f.r].delete_flag THEN Done(World, t)
                 ELSE Report(World, t, f.status, f.code, FALSE, f.is_unreg))

\* The callback of the transaction or of the refresh timer calls regc_cb.
Call(t) ==
    LET f == Top(t)
    IN /\ \E fn \in {"tsx", "refresh"} : At(t, fn, "call")
       /\ MayLock(t) /\ MayUse(f.r)
       /\ Become(Done(RegcCb(World, f.r, f), t))

\* pjsip_regc_dec_ref, in two steps: the count, then _delete_flag.  A session
\* that is gone by then is read all the same.
Dec(t) ==
    LET f == Top(t)
        n == reg[f.r].busy - 1
        w == WithReg(World, f.r, [reg[f.r] EXCEPT !.busy = n])
    IN /\ \E fn \in {"tsx", "refresh"} : At(t, fn, "dec")
       /\ Become(IF n = 0 THEN Goto(w, t, "flag") ELSE Pop(w, t))

Flag(t) ==
    LET r == Top(t).r
    IN /\ \E fn \in {"tsx", "refresh"} : At(t, fn, "flag")
       /\ reg[r].delete_flag => MayUse(r)
       /\ Become(Pop(IF reg[r].live /\ reg[r].delete_flag
                     THEN WithReg(World, r, Destroy(reg[r])) ELSE World, t))

-----------------------------------------------------------------------------
(* The refresh timer: regc_refresh_timer_cb.                               *)

PopRefresh(t, r) ==
    /\ t \in Workers /\ Idle(t) /\ reg[r].timer
    /\ Become(Push(WithReg(World, r, [reg[r] EXCEPT !.timer = FALSE]),
                   t, Frame("refresh", "ref", r, FALSE)))

\* Nothing keeps the session until the callback takes its reference: where
\* the code goes on in freed memory, the callback ends here.
RefreshRef(t) ==
    LET r == Top(t).r
    IN /\ At(t, "refresh", "ref")
       /\ Become(IF reg[r].live
                 THEN Goto(WithReg(World, r, [AddRef(reg[r]) EXCEPT !.id = FALSE]),
                           t, "register")
                 ELSE Pop(World, t))

RefreshRegister(t) ==
    LET r == Top(t).r
        w == Goto(WithReg(World, r, CancelTimer(reg[r])), t, "sent")
    IN /\ At(t, "refresh", "register") /\ MayUse(r)
       /\ Become(IF reg[r].live
                 THEN Push(w, t, Frame("send", "start", r, FALSE))
                 ELSE Pop(World, t))

\* Fault: the failure is not reported.
RefreshSentSilent(t) ==
    /\ At(t, "refresh", "sent")
    /\ Become(Done(World, t))

RefreshSent(t) ==
    LET f == Top(t)
    IN /\ At(t, "refresh", "sent")
       /\ Become(IF f.status = "ok" THEN Done(World, t)
                 ELSE Report(World, t, f.status, 400, FALSE, FALSE))

-----------------------------------------------------------------------------
(* pjsua_acc_set_registration, when the request is out or was not sent.    *)

SetSent(t) ==
    LET r == Top(t).r
        n == reg[r].busy - 1
        w == WithPjsua(WithReg(World, r, [reg[r] EXCEPT !.busy = n]), t)
    IN /\ At(t, "set", "sent") /\ MayLock(t)
       /\ Become(IF n = 0 THEN Goto(w, t, "flag") ELSE EndSet(w, t))

SetFlag(t) ==
    LET r == Top(t).r
    IN /\ At(t, "set", "flag")
       /\ Become(EndSet(IF reg[r].live /\ reg[r].delete_flag
                        THEN WithReg(World, r, Destroy(reg[r])) ELSE World, t))

-----------------------------------------------------------------------------
(* The user.                                                               *)

\* A call by the user fails without a session.
Set(w, t, renew) ==
    IF Target(renew) = None
    THEN WithAcc(w, [w.acc EXCEPT !.retry = FALSE, !.refused = TRUE])
    ELSE BeginSet(w, t, Target(renew), renew)

\* pjsua_acc_add; the registration is started with the lock given up.
AccAdd(t) ==
    /\ t \in Users /\ Idle(t) /\ MayLock(t) /\ ~acc.valid
    /\ Become(Push(WithAcc(World, [acc EXCEPT !.valid = TRUE]),
                   t, Frame("set", "begin", None, FALSE)))

SetBegin(t) ==
    /\ At(t, "set", "begin") /\ MayLock(t)
    /\ Become(IF acc.valid THEN Set(Pop(World, t), t, TRUE) ELSE Pop(World, t))

SetRegistration(t, renew) ==
    /\ t \in Users /\ Idle(t) /\ MayLock(t) /\ acc.valid
    /\ Become(Set(World, t, renew))

\* pjsua_acc_del holds PJSUA_LOCK from here to AccDelEnd.
AccDel(t) ==
    /\ t \in Users /\ Idle(t) /\ MayLock(t) /\ acc.valid
    /\ IF acc.regc = None
       THEN Become(WithAcc(World, [acc EXCEPT !.valid = FALSE, !.retry = FALSE]))
       ELSE Become(WithPjsua(
                BeginSet(Push(World, t, Frame("del", "sent", None, FALSE)),
                         t, acc.regc, FALSE), t))

AccGone(w, t) ==
    WithPjsua(WithAcc(Pop(w, t), [w.acc EXCEPT !.valid = FALSE, !.regc = None]),
              None)

\* destroy_regc: the count of users is read in one step and used in the next.
AccDelDestroy(t) ==
    LET r == acc.regc
        w == Put(WithReg(World, r, [reg[r] EXCEPT !.lock = TRUE]), t,
                 [Top(t) EXCEPT !.r = r,
                                !.pc = IF InUse(reg[r]) THEN "flag" ELSE "free"])
    IN /\ At(t, "del", "sent")
       /\ IF r = None THEN Become(AccGone(World, t))
          ELSE MayUse(r) /\ Become(w)

AccDelEnd(t) ==
    LET r == Top(t).r
        s == IF Top(t).pc = "flag" THEN [reg[r] EXCEPT !.delete_flag = TRUE]
             ELSE Freed(reg[r])
    IN /\ \E pc \in {"flag", "free"} : At(t, "del", pc)
       /\ Become(AccGone(WithReg(World, r, [s EXCEPT !.lock = FALSE]), t))

-----------------------------------------------------------------------------
(* Retries: auto_rereg_timer_cb and the transport's disconnection.         *)

PopRetry(t) ==
    /\ t \in Workers /\ Idle(t) /\ acc.retry
    /\ Become(Push(WithAcc(World, [acc EXCEPT !.retry = FALSE]),
                   t, Frame("retry", "begin", None, FALSE)))

\* The callback keeps PJSUA_LOCK while the request is sent; without an
\* address for the Contact, or memory for a session, it tries again later.
RetryBegin(t) ==
    /\ At(t, "retry", "begin") /\ MayLock(t)
    /\ IF ~acc.valid \/ ~acc.active THEN Become(Pop(World, t))
       ELSE \/ /\ Target(TRUE) # None
               /\ Become(WithPjsua(
                      BeginSet(Goto(World, t, "sent"), t, Target(TRUE), TRUE), t))
            \/ /\ SendFails \/ Target(TRUE) = None
               /\ Become(WithAcc(Pop(World, t), ScheduleReregistration(acc)))

RetrySent(t) ==
    LET w == WithPjsua(Pop(World, t), None)
    IN /\ At(t, "retry", "sent")
       /\ Become(IF Top(t).status = "ok" THEN w
                 ELSE WithAcc(w, ScheduleReregistration(acc)))

\* pjsua_acc_on_tp_state_changed for the transport the session uses.
TransportDown(t) ==
    LET r == acc.regc
    IN /\ t \in Workers /\ Idle(t) /\ MayLock(t)
       /\ acc.valid /\ r # None /\ reg[r].transport /\ MayUse(r)
       /\ Become(WithAcc(WithReg(World, r, [reg[r] EXCEPT !.transport = FALSE]),
                         ScheduleReregistration(acc)))

-----------------------------------------------------------------------------
Init ==
    /\ reg = [r \in Regc |-> [NewRegc EXCEPT !.live = FALSE]]
    /\ acc = [valid |-> FALSE, regc |-> None, retry |-> FALSE, active |-> FALSE,
              told |-> FALSE, refused |-> FALSE]
    /\ stk = [t \in Thread |-> <<>>]
    /\ net = {}
    /\ pjsua = None

Resume(t) ==
    \/ SendStart(t) \/ SendOut(t) \/ SendBack(t)
    \/ TsxStart(t) \/ TsxCb(t) \/ TsxHandle(t) \/ TsxSent(t)
    \/ Call(t) \/ Dec(t) \/ Flag(t)
    \/ RefreshRef(t) \/ RefreshRegister(t) \/ RefreshSent(t)
    \/ SetBegin(t) \/ SetSent(t) \/ SetFlag(t)
    \/ AccDelDestroy(t) \/ AccDelEnd(t)
    \/ RetryBegin(t) \/ RetrySent(t)

Start(t) ==
    \/ AccAdd(t) \/ AccDel(t) \/ \E renew \in BOOLEAN : SetRegistration(t, renew)
    \/ \E q \in net, code \in Codes : Deliver(t, q, code)
    \/ \E r \in Regc : PopRefresh(t, r)
    \/ PopRetry(t) \/ TransportDown(t)

Next == \E t \in Thread : Resume(t) \/ Start(t)

Spec == Init /\ [][Next]_vars

-----------------------------------------------------------------------------
(* Properties.                                                             *)

Refs(t, fns, pcs) ==
    {<<t, i>> : i \in {j \in DOMAIN stk[t] : stk[t][j].fn \in fns
                                             /\ stk[t][j].pc \in pcs}}

Frm(h) == stk[h[1]][h[2]]

\* Every frame that holds a reference to a session.
Held ==
    UNION {Refs(t, {"send"}, {"out", "back"})
           \cup Refs(t, {"tsx"}, {"tsx_cb", "handle", "sent", "call", "dec"})
           \cup Refs(t, {"refresh"}, {"register", "sent", "call", "dec"})
           \cup Refs(t, {"set"}, {"sent"}) : t \in Thread}

SessionType ==
    [live : BOOLEAN, delete_flag : BOOLEAN, lock : BOOLEAN, has_tsx : BOOLEAN,
     busy : Nat, op : {"IDLE", "REGISTERING", "UNREGISTERING"},
     cseq : {<<>>} \cup (Thread \X (1 .. 4)), timer : BOOLEAN, id : BOOLEAN,
     long : BOOLEAN, transport : BOOLEAN]

\* The variables have their types: no count of users passes below zero.
TypeOK ==
    /\ reg \in [Regc -> SessionType]
    /\ acc \in [valid : BOOLEAN, regc : Regc \cup {None}, retry : BOOLEAN,
                active : BOOLEAN, told : BOOLEAN,
                refused : BOOLEAN]
    /\ net \subseteq [r : Regc, unreg : BOOLEAN]
    /\ pjsua \in Thread \cup {None}

\* What makes has_tsx true: a request on the way out, in the network, or
\* failed and not yet taken back, or a response not yet looked at.
Requests(r) ==
    {q \in net : q.r = r}
    \cup {h \in UNION {Refs(t, {"send"}, {"out"}) : t \in Thread} : Frm(h).r = r}
    \cup {h \in UNION {Refs(t, {"tsx"}, {"start"}) : t \in Thread} : Frm(h).r = r}

\* A session has one request at a time, and has_tsx says exactly whether it
\* has one, whatever threads send, fail and are called back in between: it is
\* never stuck, which would refuse every later registration, and never reset
\* under a request of another thread (sip_reg.c:1495).
HasTsxExact ==
    \A r \in Regc : reg[r].live =>
        LET requests == Requests(r)
        IN
        /\ Cardinality(requests) <= 1
        /\ requests # {} => reg[r].has_tsx
        /\ reg[r].has_tsx /\ requests = {} =>
              \E t \in Thread, i \in 1 .. 4 :
                 /\ i \in DOMAIN stk[t] /\ stk[t][i].fn = "send"
                 /\ stk[t][i].pc = "back" /\ stk[t][i].status = "error"
                 /\ stk[t][i].r = r

\* No session is freed under a thread that holds a reference to it or a
\* request that will call it back, however its end crosses requests, callbacks
\* and the account's deletion, and its count of users is the number of those
\* that hold a reference (sip_reg.c:182, 1457); only the refresh timer's
\* callback takes its reference too late to be safe.
NotFreedInUse ==
    LET held == Held
    IN
    /\ \A r \in Regc : reg[r].live =>
          reg[r].busy = Cardinality({h \in held : Frm(h).r = r})
    /\ \A h \in held : reg[Frm(h).r].live
                       \/ (Frm(h).fn = "refresh" /\ Frm(h).pc = "register")
    /\ \A q \in net : reg[q.r].live

Quiet == net = {} /\ \A t \in Thread : stk[t] = <<>>

\* An account that shows itself registered is looked after: when nothing is
\* in progress and the application's last call was not refused, the refresh or
\* the retry timer is running (sip_reg.c:841, pjsua_acc.c:2368).
LookedAfter ==
    Quiet /\ acc.valid /\ acc.regc # None /\ acc.told /\ ~acc.refused =>
        acc.retry \/ reg[acc.regc].timer

=============================================================================
