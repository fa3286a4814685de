-------------------------- MODULE TransactionTable --------------------------
(***************************************************************************)
(* The transaction layer of sip_transaction.c: two hash tables under one   *)
(* mutex, and the threads that look transactions up, create, end and       *)
(* unregister them.  A transaction is reduced to its end, its outstanding  *)
(* send and its references; SipTransaction has the rest.  The timers that  *)
(* run before the end, which tsx_shutdown cancels, are left out with their *)
(* references.  A section under the mutex is one step; between its         *)
(* sections a thread holds what its frame says.                            *)
(***************************************************************************)
EXTENDS Naturals, FiniteSets

CONSTANTS Workers,    \* pjsua's worker threads, which poll
          User,       \* the application's thread
          Tsx,        \* memory for transactions
          Copies,     \* the keys of the copies of one request from a forking proxy
          Calls,      \* the keys of our own requests
          None

Thread == Workers \cup {User}

ASSUME TableAssumption ==
    /\ IsFiniteSet(Workers) /\ User \notin Workers
    /\ Copies \cap Calls = {}
    /\ None \notin Thread \cup Tsx \cup Copies \cup Calls

VARIABLES tsx,        \* the transactions
          htable,     \* by key
          htable2,    \* by From tag, CSeq and Call-ID, which the copies share
          mutex,      \* who keeps the mutex from step to step
          pc,         \* what each thread is doing
          layer,      \* how far the layer has been shut down
          stray       \* not in the code: the keys under which the end of a late
                      \* send has removed the entry of another transaction
vars == <<tsx, htable, htable2, mutex, pc, layer, stray>>

-----------------------------------------------------------------------------
\* flags: TSX_HAS_PENDING_TRANSPORT, _SEND and _DESTROY.  send is what the
\* transport or the resolver has of the transaction, and kept counts, not in
\* the code, the references that transport_callback never gives up.
Dead == [live |-> FALSE, key |-> None, state |-> "NULL", refs |-> 0,
         lock |-> None, terminating |-> FALSE, timer |-> FALSE, served |-> FALSE,
         send |-> "none", flags |-> {}, kept |-> 0]

\* tsx_create; the lock is taken. served: it was not created for a refusal.
New(k, t, served) ==
    [Dead EXCEPT !.live = TRUE, !.key = k, !.refs = 1, !.lock = t, !.served = served]

AddRef(s) == [s EXCEPT !.refs = @ + 1]
DecRef(s) == IF s.refs = 1 THEN Dead ELSE [s EXCEPT !.refs = @ - 1]

\* Fault: the reference of a send that is left to itself is kept.
DetachKeeps(s) ==
    IF "TRANSPORT" \notin s.flags THEN s
    ELSE [s EXCEPT !.flags = @ \ {"TRANSPORT"},
                   !.send = IF @ = "resolving" THEN "none" ELSE @]

\* Leave an outstanding send to itself; a resolver's callback is not awaited.
Detach(s) ==
    IF "TRANSPORT" \notin s.flags THEN s
    ELSE IF s.send = "resolving"
         THEN [s EXCEPT !.flags = @ \ {"TRANSPORT"}, !.send = "none", !.refs = @ - 1]
    ELSE [s EXCEPT !.flags = @ \ {"TRANSPORT"}]

\* tsx_set_state(TERMINATED): the timer that will destroy it has a reference.
Terminated(s) ==
    LET d == Detach(s)
    IN [(IF d.timer THEN d ELSE AddRef(d)) EXCEPT !.state = "TERMINATED", !.timer = TRUE]

CancelTimer(s) == IF s.timer THEN [DecRef(s) EXCEPT !.timer = FALSE] ELSE s

\* What tsx_shutdown makes of the pending flags: a send that is outstanding
\* puts the destruction off.
ShutFlags(flags) == (flags \ {"SEND"}) \cup (IF "TRANSPORT" \in flags THEN {"DESTROY"} ELSE {})

\* tsx_shutdown gives up the reference of the creation.
Shutdown(s) ==
    LET c == [CancelTimer(s) EXCEPT !.flags = ShutFlags(@)]
    IN IF c.terminating THEN c ELSE DecRef([c EXCEPT !.terminating = TRUE])

\* tsx_send_msg of a message that does not go out at once: it is postponed
\* behind the one that is outstanding, or is the one.
Pending(s, how) == [AddRef(s) EXCEPT !.send = how, !.flags = @ \cup {"TRANSPORT"}]
Sends(s) ==
    IF "TRANSPORT" \in s.flags THEN {[s EXCEPT !.flags = @ \cup {"SEND"}]}
    ELSE {Pending(s, how) : how \in {"direct", "resolving"}}

\* What a state handler may do: nothing to speak of, send, or end it.  A
\* transaction that has ended ignores messages.
Handled(s) == IF s.state = "NULL" THEN {s, Terminated(s)} \cup Sends(s) ELSE {s}

\* The postponed message, after the send before it: it goes out at once, is
\* outstanding in its turn, or fails for good, which terminates the
\* transaction, one that has ended too.
Resends(s) == LET c == [s EXCEPT !.flags = @ \ {"SEND"}] IN {c, Terminated(c)} \cup Sends(c)

-----------------------------------------------------------------------------
Idle == [at |-> "idle", x |-> None, key |-> None]
Doing(at, x, k) == [at |-> at, x |-> x, key |-> k]

At(t, at) == pc[t].at = at
Go(t, f) == pc' = [pc EXCEPT ![t] = f]

Mutex(t) == mutex \in {None, t}
Lock(t, x) == tsx[x].lock \in {None, t}

\* Who polls sockets and timers: the workers, and the user once they have gone.
Polls(t) == IF t = User THEN layer = "quitting" ELSE layer = "running"

-----------------------------------------------------------------------------
(* Lookup.                                                                 *)

\* mod_tsx_layer_on_rx_request: the state is read under the mutex only.
RxRequest(t, k) ==
    LET x == htable[k]
    IN /\ Polls(t) /\ At(t, "idle") /\ Mutex(t)
       /\ IF x = None \/ tsx[x].state = "TERMINATED"
          THEN Go(t, Doing("detect", None, k)) /\ UNCHANGED tsx
          ELSE Go(t, Doing("recv", x, k)) /\ tsx' = [tsx EXCEPT ![x] = AddRef(@)]
       /\ UNCHANGED <<htable, htable2, mutex, layer, stray>>

\* mod_tsx_layer_on_rx_response.
RxResponse(t, k) ==
    LET x == htable[k]
    IN /\ Polls(t) /\ At(t, "idle") /\ Mutex(t)
       /\ x # None /\ tsx[x].state # "TERMINATED"
       /\ Go(t, Doing("recv", x, k)) /\ tsx' = [tsx EXCEPT ![x] = AddRef(@)]
       /\ UNCHANGED <<htable, htable2, mutex, layer, stray>>

\* find_tsx for a CANCEL: whatever the state.
FindTsx(t, k) ==
    LET x == htable[k]
    IN /\ Polls(t) /\ At(t, "idle") /\ Mutex(t) /\ x # None
       /\ Go(t, Doing("recv", x, k)) /\ tsx' = [tsx EXCEPT ![x] = AddRef(@)]
       /\ UNCHANGED <<htable, htable2, mutex, layer, stray>>

\* pjsip_tsx_recv_msg, or an answer to what was cancelled, unless something
\* else has ended the transaction in the meantime.
Recv(t) ==
    LET x == pc[t].x
    IN /\ At(t, "recv") /\ Lock(t, x)
       /\ \E s \in Handled(tsx[x]) : tsx' = [tsx EXCEPT ![x] = DecRef(s)]
       /\ Go(t, Idle)
       /\ UNCHANGED <<htable, htable2, mutex, layer, stray>>

\* pjsip_tsx_detect_merged_requests looks twice, without the mutex.
DetectByKey(t) ==
    LET k == pc[t].key
    IN /\ At(t, "detect")
       /\ Go(t, Doing(IF htable[k] # None THEN "accept" ELSE "merged", None, k))
       /\ UNCHANGED <<tsx, htable, htable2, mutex, layer, stray>>

\* A merged request is refused with 482, by a transaction of its own.
DetectMerged(t) ==
    LET k == pc[t].key
    IN /\ At(t, "merged")
       /\ Go(t, Doing(IF htable2 # None THEN "refuse" ELSE "accept", None, k))
       /\ UNCHANGED <<tsx, htable, htable2, mutex, layer, stray>>

\* The user of the layer serves the request, or answers it without state.
Accept(t) ==
    /\ At(t, "accept")
    /\ \E f \in {Idle, Doing("create", None, pc[t].key)} : Go(t, f)
    /\ UNCHANGED <<tsx, htable, htable2, mutex, layer, stray>>

-----------------------------------------------------------------------------
(* Creation.                                                               *)

\* pjsip_tsx_create_uas2 up to the registration; without memory it fails.
CreateUas(t) ==
    /\ At(t, "create") \/ At(t, "refuse")
    /\ \/ Go(t, Idle) /\ (\A x \in Tsx : tsx[x].live) /\ UNCHANGED tsx
       \/ \E x \in Tsx : /\ ~tsx[x].live
                         /\ tsx' = [tsx EXCEPT ![x] = New(pc[t].key, t, At(t, "create"))]
                         /\ Go(t, Doing("register", x, pc[t].key))
    /\ UNCHANGED <<htable, htable2, mutex, layer, stray>>

\* pjsip_tsx_create_uac2, with a new branch and so a new key.
CreateUac(t, k) ==
    /\ At(t, "idle") /\ (layer = "running" \/ Polls(t))
    /\ \A y \in Tsx : tsx[y].key # k
    /\ \E x \in Tsx : /\ ~tsx[x].live
                      /\ tsx' = [tsx EXCEPT ![x] = New(k, t, TRUE)]
                      /\ Go(t, Doing("register", x, k))
    /\ UNCHANGED <<htable, htable2, mutex, layer, stray>>

\* Where the registration finds the key taken, the transaction goes again.
RegisterTaken(t) ==
    LET x == pc[t].x
    IN /\ At(t, "register") /\ Mutex(t) /\ htable[pc[t].key] # None
       /\ tsx' = [tsx EXCEPT ![x] = Shutdown([@ EXCEPT !.lock = None])]
       /\ Go(t, Idle)
       /\ UNCHANGED <<htable, htable2, mutex, layer, stray>>

\* Both tables for a server; an entry of the second is overwritten.
Enter(t) ==
    LET x == pc[t].x
        k == pc[t].key
    IN /\ htable' = [htable EXCEPT ![k] = x]
       /\ htable2' = IF k \in Copies THEN x ELSE htable2
       /\ tsx' = [tsx EXCEPT ![x].lock = None]
       /\ Go(t, Idle)
       /\ UNCHANGED <<mutex, layer, stray>>

\* Fault: the key is not looked up first.
RegisterAlways(t) == At(t, "register") /\ Mutex(t) /\ Enter(t)

Register(t) ==
    /\ At(t, "register") /\ Mutex(t) /\ htable[pc[t].key] = None
    /\ Enter(t)

-----------------------------------------------------------------------------
(* The end.                                                                *)

\* pjsip_tsx_terminate by its user, a timeout or a transport error.
End(t, x) ==
    /\ At(t, "idle") /\ (layer = "running" \/ Polls(t))
    /\ tsx[x].live /\ tsx[x].state = "NULL" /\ tsx[x].lock = None
    /\ tsx' = [tsx EXCEPT ![x] = Terminated(@)]
    /\ UNCHANGED <<htable, htable2, mutex, pc, layer, stray>>

\* The heap's reference goes with the thread.
PopTimer(t, x) ==
    /\ Polls(t) /\ At(t, "idle") /\ tsx[x].timer
    /\ tsx' = [tsx EXCEPT ![x].timer = FALSE]
    /\ Go(t, Doing("timer", x, tsx[x].key))
    /\ UNCHANGED <<htable, htable2, mutex, layer, stray>>

\* tsx_set_state(DESTROYED) tells the user with the lock released; it does
\* nothing to a transaction that is destroyed.
TimerFires(t) ==
    LET x == pc[t].x
    IN /\ At(t, "timer") /\ Lock(t, x)
       /\ IF tsx[x].state = "DESTROYED"
          THEN Go(t, Idle) /\ tsx' = [tsx EXCEPT ![x] = DecRef(@)]
          ELSE Go(t, Doing("told", x, pc[t].key)) /\ tsx' = [tsx EXCEPT ![x].state = "DESTROYED"]
       /\ UNCHANGED <<htable, htable2, mutex, layer, stray>>

Relock(t) ==
    LET x == pc[t].x
    IN /\ At(t, "told") /\ Lock(t, x)
       /\ tsx' = [tsx EXCEPT ![x].lock = t]
       /\ Go(t, Doing("unregister", x, pc[t].key))
       /\ UNCHANGED <<htable, htable2, mutex, layer, stray>>

\* mod_tsx_layer_unregister_tsx: the entries go by key, whoever they are for.
UnregisterTsx(x) ==
    LET k == tsx[x].key
    IN /\ htable' = [htable EXCEPT ![k] = None]
       /\ htable2' = IF k \in Copies THEN None ELSE htable2
       /\ stray' = IF tsx[x].terminating /\ htable[k] # None
                   THEN stray \cup {k} ELSE stray

Unregister(t) ==
    LET x == pc[t].x
    IN /\ At(t, "unregister") /\ Mutex(t)
       /\ UnregisterTsx(x)
       /\ tsx' = [tsx EXCEPT ![x] = DecRef(Shutdown([@ EXCEPT !.lock = None]))]
       /\ Go(t, Idle)
       /\ UNCHANGED <<mutex, layer>>

-----------------------------------------------------------------------------
(* Sending.                                                                *)

\* The user, or a timer, sends something.
Send(t, x) ==
    /\ At(t, "idle") /\ (layer = "running" \/ Polls(t))
    /\ tsx[x].live /\ tsx[x].state = "NULL" /\ tsx[x].lock = None
    /\ \E s \in Sends(tsx[x]) : tsx' = [tsx EXCEPT ![x] = s]
    /\ UNCHANGED <<htable, htable2, mutex, pc, layer, stray>>

\* The transport or the resolver is done with the transaction's message.
Ended(s) == [s EXCEPT !.send = "none", !.flags = @ \ {"TRANSPORT"}]

\* transport_callback and send_msg_callback, after which the postponed message
\* goes out.  An error of the transport is only posted (End), the resolver's
\* ends the transaction.  Where the destruction was put off, an error of the
\* transport is the only case that does not come to LateSendEnds.
Afterwards(s) ==
    LET e == Ended(s)
        done == IF "SEND" \in s.flags THEN Resends(e) ELSE {e}
        failed == IF s.send = "resolving" /\ s.state = "NULL" THEN Terminated(e) ELSE e
    IN  IF "DESTROY" \notin s.flags THEN done \cup {failed}
        ELSE IF s.send = "direct" THEN {e} ELSE {}

SendEnds(t, x) ==
    /\ Polls(t) /\ At(t, "idle") /\ tsx[x].send # "none" /\ Lock(t, x)
    /\ \E s \in Afterwards(tsx[x]) : tsx' = [tsx EXCEPT ![x] = DecRef(s)]
    /\ UNCHANGED <<htable, htable2, mutex, pc, layer, stray>>

\* The destruction was put off: the callback sets DESTROYED again, which
\* unregisters again.  transport_callback then returns without giving the
\* reference of the send up.
LateSendEnds(t, x) ==
    LET c == Shutdown([Ended(tsx[x]) EXCEPT !.state = "DESTROYED"])
    IN /\ Polls(t) /\ At(t, "idle") /\ Mutex(t)
       /\ tsx[x].send # "none" /\ "DESTROY" \in tsx[x].flags /\ Lock(t, x)
       /\ UnregisterTsx(x)
       /\ tsx' = [tsx EXCEPT ![x] = IF @.send = "direct" THEN [c EXCEPT !.kept = @ + 1]
                                    ELSE DecRef(c)]
       /\ UNCHANGED <<mutex, pc, layer>>

-----------------------------------------------------------------------------
(* Shutting down: pjsua_destroy joins the workers, polls for a while and   *)
(* stops the layer, which keeps the mutex and locks one transaction after  *)
(* another; the other way round as everywhere else.                        *)

Quit ==
    /\ layer = "running" /\ \A t \in Thread : At(t, "idle")
    /\ layer' = "quitting"
    /\ UNCHANGED <<tsx, htable, htable2, mutex, pc, stray>>

Stop ==
    /\ layer = "quitting" /\ At(User, "idle")
    /\ mutex' = User /\ layer' = "stopping"
    /\ Go(User, Doing("stop", None, None))
    /\ UNCHANGED <<tsx, htable, htable2, stray>>

StopTsx(x) ==
    /\ At(User, "stop") /\ tsx[x].live /\ htable[tsx[x].key] = x /\ Lock(User, x)
    /\ UnregisterTsx(x)
    /\ tsx' = [tsx EXCEPT ![x] = Shutdown(IF @.state = "NULL" THEN Terminated(@) ELSE @)]
    /\ UNCHANGED <<mutex, pc, layer>>

Stopped ==
    /\ At(User, "stop") /\ \A k \in Copies \cup Calls : htable[k] = None
    /\ mutex' = None /\ layer' = "stopped"
    /\ Go(User, Idle)
    /\ UNCHANGED <<tsx, htable, htable2, stray>>

Over == layer = "stopped" /\ UNCHANGED vars

-----------------------------------------------------------------------------
Init ==
    /\ tsx = [x \in Tsx |-> Dead]
    /\ htable = [k \in Copies \cup Calls |-> None]
    /\ htable2 = None
    /\ mutex = None
    /\ pc = [t \in Thread |-> Idle]
    /\ layer = "running"
    /\ stray = {}

Next ==
    \/ \E t \in Thread :
          \/ \E k \in Copies : RxRequest(t, k) \/ FindTsx(t, k)
          \/ \E k \in Calls : RxResponse(t, k) \/ CreateUac(t, k)
          \/ Recv(t) \/ DetectByKey(t) \/ DetectMerged(t) \/ Accept(t)
          \/ CreateUas(t) \/ RegisterTaken(t) \/ Register(t)
          \/ \E x \in Tsx : End(t, x) \/ PopTimer(t, x)
          \/ \E x \in Tsx : Send(t, x) \/ SendEnds(t, x) \/ LateSendEnds(t, x)
          \/ TimerFires(t) \/ Relock(t) \/ Unregister(t)
    \/ Quit \/ Stop \/ (\E x \in Tsx : StopTsx(x)) \/ Stopped \/ Over

Spec == Init /\ [][Next]_vars

-----------------------------------------------------------------------------
(* Properties.                                                             *)

Users(x) == {t \in Thread : pc[t].x = x}

\* A transaction is found by its key from its registration until it is
\* unregistered, however many threads create one for the same request at once,
\* unless the late end of a send has removed whatever stood under that key
\* (sip_transaction.c:582, 2065, 2214); and no key ever leads to a
\* transaction that has another one or has been unregistered.
Findable ==
    /\ \A x \in Tsx :
          tsx[x].live /\ ~tsx[x].terminating /\ tsx[x].key \notin stray
          /\ ~(\E t \in Users(x) : At(t, "register")) => htable[tsx[x].key] = x
    /\ \A k \in Copies \cup Calls : htable[k] # None =>
          LET s == tsx[htable[k]] IN s.live /\ s.key = k /\ ~s.terminating

\* Neither table nor any thread that looked one up leads to a transaction
\* whose memory is gone, although a lookup takes its reference under the mutex
\* and the end drops the last one under the lock (sip_transaction.c:727).  The
\* references are those of the creation, the timer, the outstanding send and
\* the threads, and those that transport_callback never gives up (2212).  The
\* layer's end leaves only what refuses to be destroyed (843) or cannot be
\* found any more.
UsedAlive ==
    /\ htable2 # None => tsx[htable2].live
    /\ \A t \in Thread : pc[t].x # None => tsx[pc[t].x].live
    /\ \A x \in Tsx : tsx[x].live =>
          tsx[x].refs = (IF tsx[x].terminating THEN 0 ELSE 1)
                        + (IF tsx[x].timer THEN 1 ELSE 0)
                        + (IF tsx[x].send # "none" THEN 1 ELSE 0)
                        + tsx[x].kept
                        + Cardinality({t \in Users(x) : ~At(t, "register")})
    /\ layer = "stopped" =>
          \A x \in Tsx : tsx[x].live =>
              tsx[x].send # "none" \/ tsx[x].kept > 0 \/ tsx[x].key \in stray

\* What sip_transaction.h:308 says of pjsip_tsx_detect_merged_requests: while
\* a transaction that serves one copy of a request is ongoing, it is found for
\* the others.
MergedDetected ==
    layer = "running"
    /\ (\E k \in Copies : htable[k] # None /\ tsx[htable[k]].served)
       => htable2 # None

=============================================================================
