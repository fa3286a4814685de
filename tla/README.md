# PjsipDemo: TLA+ models, model checking and proofs

This directory holds a verification development of PjsipDemo, an iOS video
phone written in Swift over pjproject (pjlib, pjnath, pjmedia, pjsip and pjsua,
in C). The Swift program is in `src/PjsipDemo/PjsipDemo/`, the C libraries in
`src/PjsipDemo/pjproject-master3/`. Paths below are shortened to the file name.

What is modelled is the control of a phone call, from the wire up: the SIP
transaction and the layer that keeps transactions, the INVITE session over
them, the offer/answer negotiation of its media, the registration of an
account, and the application's call control over pjsua's call table.

| file | what it is |
|---|---|
| `TransactionFsm.tla` | the abstract specification: what a transaction promises its user |
| `SipTransaction.tla` | one transaction of `sip_transaction.c`, with timers, transport, resolver, locks |
| `TransactionTable.tla` | the transaction layer: two hash tables, a mutex, several threads |
| `InvSession.tla` | both sides of a call: INVITE, re-INVITE, ACK, CANCEL, BYE and their dialogs |
| `SdpMedia.tla` | the algorithms of `sdp_neg.c`: matching, answering, payload type numbers |
| `SdpNeg.tla` | the negotiator's state and functions, over `SdpMedia` |
| `SdpExchange.tla` | two negotiators driven by their INVITE sessions, over `SdpNeg` |
| `RegClient.tla` | the registration sessions of one account, and the account that uses them |
| `DemoPhone.tla` | the application over the call table: two threads, queued blocks, touches |
| `MC*.tla` | their instances for TLC; `MCSdpMedia` also states what the algorithms are for |
| `*Proofs.tla` | inductive invariants of `SipTransaction` (three: messages, references, one worker), `TransactionTable`, `InvSession`, `SdpExchange`, `RegClient` (two: sessions, what looks after them) and `DemoPhone`, and the theorems that follow |
| `*.cfg` | one configuration for each run of `PROJECT.json` |

`SipTransaction` implements `TransactionFsm`: TLC checks the refinement and
TLAPS proves it.
`SdpExchange` is built of `SdpNeg`, which is built of `SdpMedia`. The other
modules meet at interfaces and not by INSTANCE: `TransactionTable` reduces each
transaction to its end, its outstanding send and its references, `InvSession` to the messages it can
deliver and the timers it can lose, and `DemoPhone` takes the end of a call as a
step; each reduction is of what the module below was found to do.

## 1. Inventory

### The application

| component | state | operations | talks to |
|---|---|---|---|
| `WebRTCClient.swift`, `ViewController.swift` | `PjsipVars` (isCallingPhone, call_id, calling), the login fields | callClick, call_func, on_incoming_call, on_call_state, on_call_media_state, hangup_allCall, login | pjsua by calls; pjsua calls it back on its worker thread; the main dispatch queue |
| `VideoVC.swift`, `Model.swift`, `incomingCallView.swift` | the presented screens and the popups on them | displayVideoView, dismissVideoViewController, isReceive, isReject, btnHangup_Click | notifications; blocks on the main queue |

*What is hard.* pjsua's worker runs the callbacks while the main thread runs the
touches, and each leaves work to the other in the main queue. A block looks at
the screens as they are when it runs, not when it was queued. Call ids are slots
that are used again. *What should hold:* one video screen at most, a Call button
that never stays dead, one report for the end of each call, no call answered
that the user did not accept.

### pjsua, the high-level library

| component | state | operations |
|---|---|---|
| call table, `pjsua_call.c` | `calls[]`, `next_call_id`, each call's invite session, `hanging_up` | make, on_incoming, answer2, hangup, hangup_all, on_state_changed, on_media_update, hold, update, transfer |
| accounts, `pjsua_acc.c` | `valid`, `regc`, `auto_rereg`, the retry timer | add, del, set_registration, regc_cb, auto_rereg_timer_cb, on_tp_state_changed |
| core and media, `pjsua_core.c`, `pjsua_media.c`, `pjsua_vid.c` | configuration, media channels, windows | init, start, media channel init, update, deinit |

*What is hard.* `PJSUA_LOCK`, the dialog lock of each call and `acquire_call`
that only tries them; slots given back by whichever thread ends the call;
re-registration timers that race with answers, with deletion and with the loss
of the transport.

### pjsip, the SIP stack

| component | state | operations |
|---|---|---|
| **transaction**, `sip_transaction.c` | `pjsip_transaction`: state, timers, last_tx, pending_tx, transport_flag, reference count | create, send_msg, recv_msg, terminate, stop_retransmit, set_timeout, retransmit_no_state; callbacks of the timer, the transport, the resolver |
| **transaction table**, `sip_transaction.c` | `mod_tsx_layer.htable`, `htable2`, their mutex | register, find, detect_merged, unregister, on_rx_request, on_rx_response, stop |
| dialog and user agent, `sip_dialog.c`, `sip_ua_layer.c` | dialogs, dialog sets, CSeq, route set, sessions | create, fork, inc/dec_lock, send, on_rx, terminate |
| **invite session**, `sip_inv.c` | session state, cause, `invite_tsx`, pending CANCEL, pending BYE | invite, answer, reinvite, cancel_reinvite, end_session, on_tsx_state, on_rx_request, on_rx_response |
| **offer/answer**, `sdp_neg.c` | negotiator state, active and negotiated SDPs, `last_sent`, payload type maps | create, modify, send, set_remote, set_local, cancel, negotiate |
| **registration session**, `sip_reg.c` | `has_tsx`, `current_op`, `busy`, `_delete_flag`, the refresh timer | send, tsx_callback, refresh_timer_cb, register, unregister, destroy, dec_ref |
| transports, `sip_transport*.c`, `sip_util.c`, `sip_resolve.c` | transports and their reference counts, tdata lists | acquire, send, send_stateless, shutdown |
| 100rel, timer, refer, replaces, event packages | retransmission lists, session expiry, subscriptions | their own handlers |
| messages and authentication | data formats, challenges | parse, print, respond |

*What is hard.* Everything of the transaction is called back: the timer heap,
the transport and the resolver all report later, from any worker, in an order
nobody controls; a send may complete before the call that made it returns. The
code releases the group lock in the middle of a state change when it tells its
user (TU), reads `entry->id` without it, gives the references of detached
sends up by hand, and may find a send outstanding when it destroys the
transaction: then the callback of that send destroys it, in paths of its own. The table is looked up under one lock and used under another.
In a call two sides act at once: INVITEs, BYEs, CANCELs and ACKs cross, offers
meet, and half of each exchange may be lost. A registration session is freed by
whoever uses it last. *What should hold* is listed in section 4.

### The rest

pjnath (ICE, STUN and TURN state machines; the application leaves ICE off),
pjmedia (jitter buffer, conference bridge, streams), pjlib (timer heap, locks,
ioqueue, pools) and pjlib-util (DNS, HTTP) are libraries with control of their
own. The timer heap appears in the transaction's model as far as a transaction
sees it. `third_party`, `pjsip-apps`, bindings and test programs are vendored
code, samples or tests. `PROJECT.json` lists every component with its status and
the reason, and every hazard found, with its line and the properties on it.

## 2. Plan

Done: `TransactionFsm`, `SipTransaction`, `DemoPhone`; `SdpMedia`, `SdpNeg`,
`SdpExchange`; `InvSession`; `RegClient`; `TransactionTable`; the proofs of
section 5. What would come next, in this order:

1. **A refinement between the layers**: `InvSession`'s transactions shown to do
   what two `SipTransaction`s over a lossy network do; `DemoPhone`'s end of a
   call shown to be what `InvSession` reports.
2. **Proofs** over what the folds of `SdpMedia` compute, if the provers come to
   allow induction over sequences.
3. **PJSUA locking**: `PJSUA_LOCK`, dialog locks and `acquire_call` with its
   limit of 2 s, over several calls.
4. **JitterBuffer** and **TimerHeap** as algorithms against a reference; 100rel
   and session timers over `InvSession`.

## 3. The models and the code

### SipTransaction

`tsx` is a record with the field names of `struct pjsip_transaction`, and `pc[w]`
says where worker `w` is inside a callback. What the code does under the group
lock is an operator from record to record, and an action applies it:

| code | operators and actions |
|---|---|
| `tsx_schedule_timer`, `tsx_cancel_timer` | `Schedule`, `Cancel`, `Restart` |
| `tsx_set_state` | `SetState` = `Finish(Tell(Enter(..)))`; the three are separate because the lock is released around `Tell` when a timer or a callback made the change |
| `tsx_shutdown`, `tsx_on_destroy` | `Shutdown`, `Freed` |
| `tsx_send_msg` and its inline completion | `SendMsg`, `DirectSend`, `ResolveAndSend`, `InlineResolved`, `InlineFailed`, `SendAgain`, `TransportFailure` |
| `tsx_retransmit`, `tsx_resched_retransmission` | `Retransmit`, `ReschedRetransmission`, `StartRetransmission`, `DoPendingResched` |
| `tsx_on_state_null .. confirmed, terminated, destroyed` | by event: `OnSendRequest`, `OnSendResponse`, `OnResponse`, `OnRequest`, `OnAck`, `OnRetransmitTimer`, `TimeoutPrologue`, `TimeoutTarget` |
| `pj_timer_heap_poll`, `tsx_timer_callback` | `TimerFires`, `EnterCallback`, then `RetransmitEvent`, `TimeoutEvent` or `PostedEvent`, then `TellUnlocked`, `Resume` |
| `transport_callback` | `SendDone`, with its way out for a destruction that was put off; or `SendError` and `PostError` |
| `send_msg_callback` | `ResolveDone`, `ResolveError`, `TryNextServer` |
| `tsx_tp_state_callback` | `Disconnected` |
| `pjsip_tsx_recv_msg` | `RecvResponse`, `RecvRequest`, `RecvAck` |
| `pjsip_tsx_send_msg` | `SendRequest`, `SendResponse` |
| `pjsip_tsx_terminate`, `_stop_retransmit`, `_set_timeout`, `_retransmit_no_state` | `Terminate`, `StopRetransmit`, `SetTimeout`, `RetransmitNoState` |
| every `pj_assert` that can be reached | a name in `tsx.failed` when it does not hold; execution goes on, as in a release build |

Six fields are not in the C structure. `direct` is the set of messages whose
`transport_callback` is outstanding (`tdata->is_pending`), `resolving` those
whose `mod_data` still points to the transaction, `told` and `terminations` what
the TU heard, `sent` the messages handed to a transport (a send that is
pending counts), and `kept` the references that `transport_callback` returns
without giving up (`sip_transaction.c:2212`): a part of the count that has no
owner any more.

What is abstracted, and why it is sound:

- *Time.* A timer in the heap may fire at any poll. Delays, `retransmit_count`
  and the counters that compute delays are left out, so the model has every
  order of firing, those that the delays make unlikely included.
- *Messages* are the request, its ACK, and responses named by code; one code for
  each class a handler tells apart (100, 180, 200, 404, and 481 for BYE).
- *Sends.* `Outcomes` gives the answers of the transport for the sends of one
  handler: immediately done, pending, failed, failed with the transport's own
  disconnection report; and of the resolver for those that need one. Codes 502
  and 503 are one; an error of `process_route_set` changes nothing and is left
  out. `SendAgain` cuts the recursion of a send made from inside its own inline
  completion at the depth the code can reach: the transport is set by then, so
  it does not resolve again.
- *Locks.* A handler runs under the group lock and is one step. The three places
  where the code is not under it are steps: the reset of `entry->id`, the telling
  of the TU, the posting of an error. Inside the first, reading and resetting the
  id are one step, two adjacent statements.
- *Mutex b.* A disconnection is posted under `mutex_b` only, so it may come
  inside a handler. It matters where the handler restarts the timeout timer and
  then changes state: `CompleteUas` takes it as the choice `disc`. Elsewhere it
  equals a `Disconnected` right before or after.
- *The TU* does not call the transaction from inside its own `on_tsx_state`, and
  forgets it when it hears of TERMINATED. It may do everything else, in any order.
- *pjsip_tsx_set_transport* changes the transport selector only. Failing
  allocations are not modelled.
- `Terminate` uses 408 for whatever final code the caller gives.
- Compile-time options are those of this build: `PJSIP_TSX_UAS_CONTINUE_ON_TP_ERROR`
  is 1, `PJSIP_TSX_1XX_RETRANS_DELAY` is 60, `PJ_TIMER_USE_COPY` is 1.

`TransactionFsm` keeps the role, the method, the state and what the TU was told,
and nothing else. `SipTransaction` is shown to implement it, with
`role <- tsx.role, method <- tsx.method, state <- tsx.state, told <- tsx.told`.

### TransactionTable

`tsx` is memory for transactions, reduced to key, state, reference count, lock
owner, the timer that destroys them, and what an outstanding send has of them:
`send` (a message the transport or the resolver has), the three pending `flags`
and `kept`, as in `SipTransaction`. `htable` and `htable2` are the two hash
tables, `mutex` who keeps their mutex from one step to the next, `pc[t]` what
thread `t` is doing. A section under the mutex is one step, and what a thread
learnt in it is all it knows in the next. `stray` is not in the code: the keys
under which a second unregistration has removed another transaction's entry.

| code | operators and actions |
|---|---|
| `mod_tsx_layer_on_rx_request`, `_on_rx_response`, `find_tsx` | `RxRequest`, `RxResponse`, `FindTsx`: a lookup with a reference; then `Recv` under the transaction's lock |
| `pjsip_tsx_detect_merged_requests` | `DetectByKey`, `DetectMerged`: two looks without the mutex |
| `pjsip_tsx_create_uas2`, `_uac2` | `CreateUas`, `CreateUac` |
| `mod_tsx_layer_register_tsx` | `RegisterTaken` (EEXISTS), `Register` |
| `pjsip_tsx_terminate`, `tsx_set_state(TERMINATED)` | `End`, `Terminated`, `Detach` |
| `tsx_send_msg`, `transport_callback`, `send_msg_callback` | `Send`, `Sends`; `SendEnds`, `Afterwards`, `Resends` |
| the same callbacks with TSX_HAS_PENDING_DESTROY | `LateSendEnds`: `tsx_set_state(DESTROYED)` again |
| the timer, `tsx_set_state(DESTROYED)`, `tsx_shutdown` | `PopTimer`, `TimerFires`, `Relock`, `Unregister` with `UnregisterTsx`, `Shutdown`, `ShutFlags` |
| `mod_tsx_layer_stop`, called by `pjsua_destroy` after its workers were joined | `Quit`, `Stop`, `StopTsx`, `Stopped` |

The hash of a key is the key. The copies of one request that a forking proxy
sends have keys of their own and share one entry of `htable2`, whose key is made
of the From tag, CSeq and Call-ID; the refusal of a copy has a transaction too.
`mod_tsx_layer_stop` takes the mutex before the lock of each transaction, the
other way round as everywhere else, which is why the runs check deadlock.

The unregistration is by key. It comes a second time when a send was outstanding
at the first (`tsx_shutdown`, 1211-1217): the callback that ends the send sets
DESTROYED again (2065, 2151, 2214), and 1464 removes whatever has the key by
then. The model does as the code does, `stray` records it, and what is claimed
is claimed of the keys to which this has not happened.

### InvSession

`inv[p]` is the session of side `p` (state, cause, `pending_cancel`,
`pending_bye`, `invite_tsx`, the dialog's remote CSeq, and pjsua's
`hanging_up`); `tsx` is the sequence of transactions, in the order of their
CSeq, each with the client's half `c` and the server's half `s`.

| code | operators and actions |
|---|---|
| `inv_set_state`, `pjsip_inv_set_cause` | `SetState`, `SetCause`, `Disconnect` |
| `pjsip_inv_end_session`, `pjsip_inv_send_msg`, `pjsip_inv_cancel_reinvite` | `EndSession`, `SendBye`, `CancelInvite` |
| `inv_send_ack`, `mod_inv_on_rx_request` | `SendAck`, `RxAck` |
| `pjsip_dlg_on_rx_request`, `mod_ua_on_rx_request` | `RxRequest`: no dialog, an old CSeq, or the session |
| `inv_on_state_*`, requests | `NewCall`, `RxReinvite`, `RxBye`, `RxCancel` |
| `inv_on_state_*`, responses; `handle_uac_tsx_response` | `OnFirstInvite`, `OnReinvite`, `OnClient`, `Generic` |
| `mod_inv_on_tsx_state` | `Forget`, `RxResponse`, `NoResponse`, `AckTimeout` |
| `pjsua_call_answer`, `_hangup`, `pjsip_inv_reinvite` | `Answer`, `Hangup`, `Reinvite`, `CancelReinvite` |

A transaction repeats its message until it is answered; so a message can arrive
at any time while the sender's half is in the state that repeats it, in any order
with those of other transactions, and again where the receiver would tell a
repetition apart. When a transaction may time out every message may be lost.

### SdpMedia, SdpNeg, SdpExchange

| code | operators and actions |
|---|---|
| `update_media_direction`, `process_m_answer`, `process_answer` | `UpdateMediaDirection`, `ProcessMAnswer`, `ProcessAnswer` |
| `match_offer`, `apply_answer_symmetric_pt`, `create_answer` | `MatchOffer`, `KeepTelEvents`, `SymmetricPt`, `CreateAnswer` |
| `assign_pt_and_update_map` | `FindNewPt`, `AssignLine`, `AssignPt` |
| `pjmedia_sdp_neg_create_w_*`, `_modify_local_offer2`, `_send_local_offer`, `_set_remote_*`, `_set_local_answer`, `_cancel_offer`, `_negotiate` | the operators of `SdpNeg`, from negotiator to negotiator |
| `sip_inv.c`: `inv_check_sdp_in_incoming_msg`, `inv_negotiate_sdp`, `process_answer`, `pjsip_inv_reinvite`, `pjsip_inv_update` | the actions of `SdpExchange` |

A media line is its type, whether its port is zero, the directions it allows and
its formats; a format is a payload type number and a codec. The first offer is in
the INVITE, later ones in re-INVITEs and UPDATEs of either side, or in the 200 to
a re-INVITE without SDP and then the answer is in the ACK.

### RegClient

`reg[r]` is a `pjsip_regc`, `acc` the account (`told`: what the application was
last told; `refused`: its last call failed), `net` the requests that await a
response, `pjsua` the thread that holds `PJSUA_LOCK`. `stk[t]` is the stack of
functions thread `t` is in, innermost last: a callback runs inside the send whose failure it
reports, and a step leads from one place where the code takes or gives up a lock
to the next. A handler is a chain of writes (`WithReg`, `WithAcc`, `WithNet`,
`WithPjsua`, `Push`, `Pop`, `Put`) to one `World`, in the order of the code.

| code | operators and actions |
|---|---|
| `pjsip_regc_send`, `pjsip_endpt_send_request` | `SendStart`, `SendOut`, `SendBack` |
| `regc_tsx_callback`, `regc_tsx_cb`, `schedule_registration` | `Deliver`, `TsxStart`, `TsxCb`, `TsxHandle`, `TsxSent`, `Handle` |
| `regc_refresh_timer_cb` | `PopRefresh`, `RefreshRef`, `RefreshRegister`, `RefreshSent` |
| `pjsip_regc_destroy2`, `_add_ref`, `_dec_ref` | `Destroy`, `AddRef`, `DecRef`, `Dec` and `Flag` |
| `regc_cb` | `RegcCb`, in `Call` |
| `pjsua_acc_set_registration` | `SetRegistration`, `BeginSet`, `SetSent`, `SetFlag`, `EndSet` |
| `pjsua_acc_add`, `pjsua_acc_del`, `destroy_regc` | `AccAdd`, `SetBegin`, `AccDel`, `AccDelDestroy`, `AccDelEnd` |
| `schedule_reregistration`, `auto_rereg_timer_cb`, `pjsua_acc_on_tp_state_changed` | `ScheduleReregistration`, `PopRetry`, `RetryBegin`, `RetrySent`, `TransportDown` |

`pjsip_regc_dec_ref` reads the count in one step and `_delete_flag` in the next,
and the refresh timer's callback takes its reference only after it runs, as in
the code; where the code would go on in freed memory, the model lets the callback
end. `NotFreedInUse` excludes exactly that place.

### DemoPhone

`calls`, `next_call_id`, `isCallingPhone` are the program's. `scheduled` counts
the `pjsua_schedule_timer2` entries of callClick. `queue` is the main dispatch
queue; `stack` the presented screens, each with its popups. `todo[t]` is what
thread `t` still has to do of the function it is in: steps of the two threads
interleave between any two of its elements.

| code | actions |
|---|---|
| `callClick`, `call_func`, `pjsua_call_make_call`, `on_make_call_med_tp_complete` | `callClick`, `call_func` and the operators of those names |
| `pjsua_call_on_incoming`, `on_incoming_call` | `on_incoming_call`, `RefuseIncoming`, `QueuePopup`, `ShowPopup` |
| `pjsua_call_on_state_changed`, `on_call_state`, `reset_call` | `Confirmed`, `pjsua_call_on_state_changed`, `Report`, `Clear`, `FreeCall` |
| `pjsua_call_on_media_update`, `on_call_media_state`, `displayVideoView` | `on_call_media_state`, `ShowVideo`, `displayVideoView` |
| `isReceive`, `pjsua_call_answer2` | `isReceive` |
| `isReject`, `btnHangup_Click`, `hangup_allCall` | `isReject`, `btnHangup_Click`, `hangupCall` |
| `pjsua_call_hangup`, `pjsua_call_hangup_all`, `call_inv_end_session` | `pjsua_call_hangup`, `call_inv_end_session` |
| `dismissVideoViewController` | `dismissVideoViewController` |

Abstractions:

- *Locks.* `acquire_call` retries for 2 s and then leaves the call alone; the
  model waits. A `free` or `end` step left to do stands for the dialog lock, a
  `popup` step for `PJSUA_LOCK`.
- *Media.* `pjsua_media_channel_init` is never pending, since the application
  leaves ICE and STUN off. One or two windows come with each media update.
- *Slots.* `next_call_id` is kept modulo `MaxCalls`, which is all that
  `alloc_call_id` uses. Early and calling are one state.
- *Hangup.* The messages of a hangup are made and sent at the first try; the
  code's retries end in the same disconnection.
- *Variables left out.* `PjsipVars.call_id` only chooses between two branches
  that do the same; `incomingCallID` is never `PJSUA_INVALID_ID`; `calling` is
  never set.
- *UIKit.* Screens are a stack, popups subviews of the screen on top when their
  block ran, and only the last of them can be touched; the main queue is first
  in, first out, one block at a time. The alert of the login screen is not there.

## 4. What the runs check

Every run is exhaustive over its instance. State counts are distinct states.

| run | instance | states | properties |
|---|---|---|---|
| `tsx` | one transaction, both roles, INVITE, BYE and other, 1 worker, all outcomes of a send | 443,906 | TypeOK, TimeoutArmed, NotFreedInUse, EndIsReported, InviteRetransmissionStops, RefsAccounted, LastResponseKept, OneFinalResponse, ImplementsFsm |
| `tsx_live` | the same roles and methods, direct sends done at once or pending (`InviteSentAtOnce`), resolution done or pending, with fairness | 24,880 | EventuallyFreed, RequestEnds, ImplementsFairFsm |
| `workers` | both roles, INVITE and other, 2 workers, direct sends done at once, pending (`InviteSentAtOnce`) or failed | 1,545,797 | RefsAccounted, OneFinalResponse |
| `table` | 2 workers and the application, 2 copies of a request, 1 request of our own, 2 transactions | 1,598,380 | Findable, UsedAlive |
| `inv` | a call, two re-INVITEs, one of each side or both of one, or one that may be cancelled (`CancelledAlone`); nothing times out | 3,469,328 | TypeOK, ByeAfterAck, OneAtATime, InviteTsxExact, EndsBoth, NeverBack |
| `inv_timeout` | a call, anything may time out, with fairness | 243,955 | HangupEnds |
| `sdp_media` | every pair of audio lines of 1 to 3 of 5 formats, 2 directions, 4 settings | 231,200 | AnswerIsReference, AnswerIsAccepted |
| `sdp` | 5 capabilities of one and two lines, 4 SDPs sent, with fairness | 114,370 | TypeOK, SessionsAgree, RepliesAwaited, CalledPtStable, VersionsGrow, LinesKept, Settles |
| `reg` | one account, 2 sessions' memory, the application's thread and one worker | 3,950,996 | TypeOK, HasTsxExact, NotFreedInUse, LookedAfter |
| `phone` | 2 call slots, 1 dial, 2 blocks, 2 popups | 4,676,529 | TypeOK, OneVideoScreen, CallButtonRecovers, EndReportedOnce |

What the properties say, of the transaction and its table:

- **TimeoutArmed** In each state that only a timer is sure to end, the timeout
  timer is in the heap or in a worker's hands. A timer lost to a failing send, a
  posted error or a restart would leak the transaction.
- **RefsAccounted** The group lock's count is the sum of what the code means it
  to hold: itself, the timers, the callbacks under way, the sends outstanding; and
  of the references that `transport_callback` keeps, which are a leak of the code
  (below). It is exact with that term: nothing else leaks, nothing is given up
  twice.
- **NotFreedInUse** The count does not reach zero while a worker is in a callback.
- **LastResponseKept** A server in PROCEEDING or COMPLETED has the response to
  repeat, although the code drops `last_tx` before each send.
- **OneFinalResponse** One transaction never sends two different final responses.
- **InviteRetransmissionStops** Once a response has come, no retransmission of an
  INVITE comes to life, one that was postponed behind a send included.
- **EndIsReported** The TU has heard of TERMINATED and of DESTROYED by the time
  the memory goes.
- **ImplementsFsm**, **ImplementsFairFsm** Every step is an edge of the promised
  state machine or a stutter, the TU is told of each state before the transaction
  leaves it, and a terminated transaction is destroyed and its TU told.
- **EventuallyFreed**, **RequestEnds** A transaction that ended is freed, unless
  `transport_callback` has kept a reference of it; a request is answered or its TU
  hears of the timeout.
- **Findable** A transaction is found by its key from its registration to its
  unregistration, however many threads create one for the same request at once,
  unless the late end of another's send has removed what stood under that key. No
  entry ever leads to a transaction of another key or to one that was
  unregistered, and that has no exception.
- **UsedAlive** Neither table nor a thread that looked one up leads to freed
  memory; the references add up, those of sends included; the stopped layer leaves
  only transactions with a send outstanding ("may refuse to destroy",
  `sip_transaction.c:843`), with a reference that was kept, or that could not be
  found under their key any more.

Of the call and its media:

- **OneAtATime**, **InviteTsxExact** INVITEs that cross or follow each other are
  served one at a time on both sides, and `invite_tsx`, by which each side judges
  them, is always the one in progress and never one that is over.
- **ByeAfterAck** The called side's BYE never overtakes the caller's ACK.
- **EndsBoth** When every request is answered and the timers of what is over have
  fired, a call that has ended on one side has ended on the other.
- **NeverBack** A late response, the 2xx to a re-INVITE included, does not revive
  a session.
- **HangupEnds** A hangup ends the call whatever it crosses and whatever is lost.
- **AnswerIsReference**, **AnswerIsAccepted** `match_offer`, which filters and puts
  back formats in place, answers what it is meant to, stated over sets of codecs;
  and the offerer understands that answer as the answerer does.
- **SessionsAgree** Two sides at rest have agreed on one session, whatever offers
  were made, crossed, rejected or failed before.
- **RepliesAwaited** Every message that ends a negotiation finds the negotiator in
  the state that the functions of `sdp_neg.c` assert.
- **CalledPtStable** In a stream that stays active the called side never gives the
  number of one codec to another. The caller's first offer is not recorded in its
  map, so the same is not claimed of the caller.
- **VersionsGrow** The origin's version never goes back and never skips a number.
- **LinesKept** Media lines keep their place and type. **Settles** Every offer is
  accepted or given up.

Of the registration and the application:

- **HasTsxExact** A session has one request at a time and `has_tsx` says exactly
  whether: it is never stuck, which would refuse every later registration, and
  never reset under another thread's request.
- **NotFreedInUse** (`RegClient`) No session is freed under a thread that holds a
  reference or a request that will call it back.
- **LookedAfter** An account that shows itself registered has its refresh or its
  retry timer running once nothing is in progress.
- **OneVideoScreen** However the blocks of several windows interleave, one video
  screen is presented: the end of a call dismisses only one.
- **CallButtonRecovers** While the Call button is disabled there is a dial that
  has not run, an outgoing call whose end will be reported, or a thread about to
  enable it.
- **EndReportedOnce** A call's end is reported once, whichever of the two threads
  ends it, and before the slot is given back.

### Why the bounds are enough

A transaction has two timers and a handful of messages: nothing in
`SipTransaction` is bounded except by the choice of codes, workers and outcomes,
so `tsx` is the whole state space of all roles and methods. `tsx_live` and
`workers` leave out, by the constraint `InviteSentAtOnce`, the direct sends of an
INVITE transaction that stay pending, for the time they take: the callback, the
destruction and the references of such a send are the same for all methods, and
`tsx` has them all. The constraint cuts no behaviour short, since each action that
sends may also have it sent at once; so what is checked under fairness is what
`FairSpec` does with such a transport.

One code of each class the handlers tell apart is all a transaction can see of a
response. Two workers are what the races need: each pairs a callback with one other step.
`pjsua` runs with `thread_cnt` 1 in this application, which is why TimeoutArmed,
NotFreedInUse, InviteRetransmissionStops, EndIsReported and ImplementsFsm are
claimed for one worker. With two workers TLC finds each of them violated, for
the one reason given below (DESTROYED before TERMINATED). `workers` keeps
the pending resolution of an INVITE, from which the detached references come, and
the pending direct sends of other methods, from which those that are kept come.

In `table` two workers race for the key, the tables and the last reference of two
transactions. Two are enough for the second unregistration and what follows it: a
send that outlasts its transaction's destruction removes the other's entry, and
the memory it gives back is used for a third of the same key. Workers, copies and
memory are interchangeable (SYMMETRY). In `inv` `MaxReinvites` counts the
re-INVITEs of a call, of both sides together. Two give re-INVITEs of both sides
that cross and are refused with 491 on both, and one that follows another of the
same side before its ACK and is refused with 500 (`sip_inv.c:5508`). The
constraint `CancelledAlone` takes one re-INVITE only in a call where a re-INVITE is
cancelled: all three together are beyond TLC's time. `inv_timeout` leaves the re-INVITEs out: what they
add to a hangup is in `inv`, and time-outs multiply the states.

In `sdp_media` five codecs are one static, two dynamic ones
of different rates, and a telephone-event for each rate; three formats let the
filter drop one from the middle. In `sdp` four SDPs are the first offer and
answer and one crossing after them. `reg` has two sessions, so that one that is
on its way out lives beside the one that follows it, one code for each branch of
`regc_tsx_callback` and `regc_cb`, and the threads this application has. Its VIEW
leaves out fields that no later step can read (`MCRegClient`). The memory of the
two sessions is not declared interchangeable: `Target` takes the session a
creation gets with CHOOSE, which a symmetry would not respect.

In `phone` two slots show both the reuse of a slot and two calls at once (pjsua's
own limit is 4 here); two blocks and two popups let a block of one call stand
behind that of another. The bounds stop only what may come at any time (a call, a
media update, a touch): what a handler queues as a consequence is never held
back.

Deadlock is checked wherever the system may not stop: the runs of `SipTransaction`
and `TransactionTable`, `reg` and `phone` say nothing of CHECK_DEADLOCK. The others
say FALSE: a call ends (`inv`, `inv_timeout`), an exchange stops at its bound (`sdp`), and
`sdp_media` takes one step.

### Fairness

*SipTransaction.* `FairSpec` assumes three things. A worker that is in a callback
finishes it (weak fairness of `CallbackStep`: a thread that runs). A timer that
is in the heap again and again fires (strong fairness: the heap is ordered by
expiry, so an entry that was put back is not overtaken for ever; weak fairness
would not do, for a handler may cancel and restart it between two polls). The
end of each accepted send is reported (strong fairness of `Completes`: ioqueue
and resolver report every operation, and a retransmission may make the same
message pending again). Nothing is assumed of the peer or of the TU.

*SdpExchange.* No message stays on its way for ever and an application that was
given an offer answers or rejects it, both stated with `[]<>`. The transactions
below deliver or time out, and pjsua answers at once. Such a condition may not
forbid more than neglect: it does not, for `RepliesAwaited`, checked in the same
run, says that whatever is on its way can be received.

*InvSession.* Messages that are repeated get through or their transactions time
out, and timers of what is over fire: weak fairness of each of the two as a
whole. Nothing is assumed of the applications.

### Where the code disagrees with what is said of it

Two runs expect a violation; each checks one property that states what a header
says.

| run | said by | what happens |
|---|---|---|
| `bug_reject_answers` | `sip_inv.h`: `pjsip_inv_end_session` "creates the non-2xx final response" | the popup's Reject goes to `hangup_allCall`, which ends call 0 with code 200: the caller is answered |
| `table_bug_merged` | `sip_transaction.h`: a merged request is found while the transaction that serves its first copy is ongoing | the refusal of a copy overwrites the shared entry of `htable2`, and removes it when it ends: the next copy is taken for a new request |

Behaviour the models reach, and that differs from what a comment, an assertion or
the documentation says, without a run of its own:

- *One worker, transaction.* `tsx_resched_retransmission` asserts
  `status_code < 200`, but a postponed resend may fail inside a completion
  callback, terminate the client, and the callback goes on to schedule a
  retransmission of it. TSX_HAS_PENDING_SEND outlives the end of the transaction,
  so a late callback calls `tsx_send_msg` with no transport ("Unexpected
  status!") or with a NULL message. A server's 1xx timer may fire while a send is
  pending.
- *One worker, transaction* (`sip_transaction.c:2212`). "Will destroy later because
  transport is in progress", says `tsx_shutdown` (1215), but `transport_callback`,
  when it finds TSX_HAS_PENDING_DESTROY after a send that succeeded, sets DESTROYED
  and returns before the `pj_grp_lock_dec_ref` of 2267: the reference of the send
  is never given up and the transaction never freed. It takes a server whose
  response is pending while a repeated request asks for another send
  (TSX_HAS_PENDING_SEND); the TU terminates it, the callback sends again in
  TERMINATED and that send is pending too, the timer destroys the transaction, and
  then the send ends. The model counts such references in `kept`; RefsAccounted,
  EventuallyFreed and UsedAlive name it.
- *One worker, table* (`sip_transaction.c:2065`, `2151`, `2214`). The same callback, or
  `send_msg_callback`, sets DESTROYED a second time and so unregisters by key a
  second time (1464). If another transaction has been registered for the key since
  the first time, its entry goes: it is alive and no message finds it, and one
  more can be registered beside it, although the registration is to "check if no
  transaction with the same key exists" (588). The model records the key in
  `stray`; Findable and UsedAlive name it. The run `table` reaches all of it.
- *One worker, transaction.* "Timeout timer. should not happen?" in
  `tsx_on_state_proceeding_uas` does happen: `entry->id` is read and reset without
  the lock, and the second of two disconnections is delivered with id 0, as a
  timeout, and ends a call that waits for its user.
- *Two workers, transaction* (`sip_transaction.c:1406`). The comment says that no
  other processing takes place while the TU is told without the lock; a second
  worker can destroy the transaction in that gap, and the TU hears of DESTROYED,
  then of TERMINATED. `TransactionTable` tells the TU of DESTROYED with the lock
  released and of TERMINATED under it, so this gap is only in `SipTransaction`.
- *Two workers, transaction* (`sip_transaction.c:2016`). `tdata->mod_data` is one
  pointer per message, reset by the first completion callback. After a posted
  disconnection has detached the transaction, and before the TU hears of it,
  another worker's `pjsip_tsx_retransmit_no_state` can start a resolution of a
  180 while a direct send is outstanding; that send's callback clears
  TSX_HAS_PENDING_TRANSPORT, and the same 180 can be resolved a second time. The
  second `send_msg_callback` then returns early and its reference of the group
  lock is never given up. It takes two workers, an INVITE and a direct send that
  stays pending: one worker is what `tsx` has, no pending INVITE what `workers` has,
  and one of the two what `RefsCounted` assumes.
- *Several workers, table.* `pjsip_tsx_detect_merged_requests` reads both tables
  without the mutex, so two copies that arrive at once are both taken for new
  requests, and a retransmission that arrives while the first is being registered
  gets EEXISTS. `evsub.c:1460` keeps a transaction it found without a reference
  ("Chance of race condition here").
- *Call.* A re-INVITE that reaches a session after its end and before its dialog's
  end is claimed by `mod_inv_on_rx_request` ("it will be sent in the state
  handlers", `sip_inv.c:638`) and answered by none of them (`sip_inv.c:5930`): the
  transaction stays in TRYING and keeps the dialog. A call that is hung up between
  its 200 and the ACK may be sent two BYEs, one for `pending_bye` and one from
  pjsua's `on_state_changed`.
- *Registration.* `pjsua_acc_del` unregisters "if necessary" (`pjsua.h:4729`), but
  while a REGISTER awaits its response the unregistration is refused with EBUSY
  (`sip_reg.c:1431`), the result is ignored (`pjsua_acc.c:693`), and the binding
  stays at the registrar until it expires. An unregistration that fails with 503
  or 408 schedules a registration. In the gap in which `regc_tsx_callback` tells
  `tsx_cb` another thread may send, and its `current_op` is then the one by which
  the first response is judged (`sip_reg.c:1437`).
- *Registration, several threads.* `pjsip_regc_dec_ref` reads `_delete_flag` after
  it has given up its count (`sip_reg.c:422`): a session may be freed in between,
  or by nobody. `regc_refresh_timer_cb` takes its reference only once it runs
  (`sip_reg.c:808`), and nothing keeps the session until then.
- *Application.* A popup answers the call id it was made with, also when its slot
  has a new call by then; the end of any call enables the Call button.

## 5. What is proved

### The transaction

*Messages and types.* `SipTransactionProofs.tla` proves, with TLAPS, for any set of workers, roles,
methods and outcomes within `ConfigAssumption` (the outcomes are those the
transport and the resolver can give):

| theorem | it says |
|---|---|
| `TypeCorrect` | `Spec => []TypeOK` |
| `OneFinal` | `Spec => []OneFinalResponse` |
| `LastKept` | `Spec => []LastResponseKept` |
| `EndIsFinal` | `Spec => [][..]_vars`: what has reached TERMINATED stays there or is DESTROYED |
| `SpecSound` | `Spec => []IInv`, from which the others follow |

*Why an invariant of its own is needed.* That only one final response is sent
does not follow from itself: a transaction in PROCEEDING might, for all
`OneFinalResponse` says, have sent a 200 and be asked for a 404. `Sound(s)`
closes this. A final response is on the wire only once the transaction is
COMPLETED or later; it is the one in `last_tx`, if that still holds one; COMPLETED
always holds it; PROCEEDING holds a provisional one; a client has none. The three
places where a worker goes on after it has let the lock go need `Ending(w)`: a
worker that has left a `tsx_set_state` half way belongs to a transaction that is
TERMINATED or DESTROYED already, so that what it does next cannot bring it back.
`IInv` is `Sound(tsx)` with the types of `pc` and `Ending` of each worker. TLC
checked it first on the instances of `tsx` and `workers`.

*How the proof is laid out.* A handler is a composition of operators, so the
proof has a lemma for each operator that says how its result relates to its
argument: `Same` (timers, flags and references only), `Sends` (and may have sent
messages of a set), `Becomes` (another state and saved message), `Leads` (sends,
or has been ended on the way). `LeadsFollows` and its companions turn these into
`Follows`: soundness is kept and the end is not left. There is a lemma for each
action (`..Keeps`), `NextKeeps` joins them, `SpecSound` adds the temporal step.

*References.* The second part of `SipTransactionProofs.tla` proves, under the
hypothesis `SendsApart`:

| theorem | it says |
|---|---|
| `RefsCounted` | `Spec => []RefsAccounted` |
| `SpecAccounted` | `Spec => []RInv`, from which it follows |

`SendsApart` is: one worker, or transports that never leave a direct send pending.
It is needed (section 4, the reference that two workers can lose). `tsx` is its
first half with every outcome; `workers` has two workers and leaves only an
INVITE's direct sends never pending. What is proved is the exact count: the
references that the code means to hold and the `kept` ones that
`transport_callback` returns without giving up. So its early return is the one
leak there is under `SendsApart`, and no reference is ever given up that is not
held. `RInv` adds `Accounted` to `IInv`.
`Tidy(s)`: at most one send is outstanding, flagged unless the transaction has
detached from it, and a transaction to be destroyed has told so. So the count of
a record is that of a few things that are there or not (`Owed`). What it has
beyond them (`Spare`) is what the workers hold. Each operator has a lemma that
it takes and gives back as much (`Balances`, `Settles`), each action one that its
worker does (`Moves`).

*One worker.* `SipSoleWorkerProofs.tla` proves, where one worker polls (`Sole`), as
in this application and as pjsua's default has it:

| theorem | it says |
|---|---|
| `RefinesFsm` | `Spec => ImplementsFsm`: the transaction implements `TransactionFsm` |
| `NeverFreedInUse` | `Spec => []NotFreedInUse` |
| `EndReported` | `Spec => []EndIsReported` |
| `TimeoutKept` | `Spec => []TimeoutArmed` |
| `InviteStaysStopped` | `Spec => []InviteRetransmissionStops` |
| `SpecAlone` | `Spec => []SInv`, from which the others follow |

With two workers TLC finds each of the five violated (section 4), so the
hypothesis cannot be dropped. None of them follows from itself: that the timeout
timer is armed depends on what an answered or posted event did to `entry->id`;
that nothing retransmits, on a flag set behind an earlier send; that the TU hears
of the end, on a lock released in the middle of it. `SInv` is `RInv` and, for the
worker, one of two things.

- `Rests`: the record is `Calm`. The TU was told of the state it is in; it is
  shutting down if and only if it is DESTROYED; after TERMINATED no posted event
  is left in the timeout timer; a server that has completed has a final status;
  an INVITE that was answered is `Muted`, that is neither timer A runs nor is a
  retransmission postponed. It is `Wound` (the timeout timer runs where
  it is needed), or the worker has that timer. A worker that is about to
  retransmit does so for no INVITE that was answered.
- `Halfway`: the worker has ended the transaction and is about to tell the TU, or
  has told it and is about to finish. The state is the one it carries, and the
  transaction has not given its own reference up. So an end that another event
  would bring finds nothing to do.

Operators have lemmas that relate records: `Alike` and `Mild` (other timers and
flags), `Over` (ended on the way), `Yields` (one of the two); handlers have
`Calms` (from one calm record to another, along an edge of the state machine);
actions have `..Goes`. The refinement is then a matter of `Links`: the edges that
these relations allow are those of `TransactionFsm`. TLC checked `RInv` and `SInv`
on the instance of `tsx` first.

### The transaction table

`TransactionTableProofs.tla` proves, for any number of workers, keys and
transactions within `TableAssumption` (the threads are finitely many; the keys of
copies and of our own requests differ; None is none of these), everything that
the run `table` checks:

| theorem | it says |
|---|---|
| `AlwaysFindable` | `Spec => []Findable` |
| `AlwaysAlive` | `Spec => []UsedAlive` |
| `TableSound` | `Spec => []Inv`, from which the others follow |

Both are the properties of section 4, with their exceptions: what the second
unregistration does to a key is not excluded by an assumption, it is in the model
and in `stray`.

*Why an invariant of its own is needed.* An entry goes by key, whoever it is for,
so `Findable` rests on who holds which key when an entry is removed, and on who
has been unregistered before. And memory goes with the last reference, so
`UsedAlive` rests on the count, which rests on what the flags say of a send.

- `Frames`: what a thread deals with is alive, and has ended if the thread ends
  it; `Fresh`: a transaction that is not registered yet is in no table and known
  to its creator alone. So one that finds its key taken can be dropped.
- `Tables`: the entries are live, under their keys and not unregistered, and every
  live transaction that is registered and not shut down is entered, unless its key
  is in `stray`. What the second table leads to is in the first.
- `Counts`: each place of memory is free or has a transaction that is `Good`: its
  count is what is `Owed` (to its creation, its timer, its send, and what was
  kept) and one for each thread that holds it, and its flags are `Sane`. `Sane`
  says that a shut-down transaction has neither timer nor postponed message, that
  its destruction is put off only then, and that the flag of an outstanding send
  is up until the transaction ends. With it a message that is sent never takes the
  place of one that is outstanding, whose reference would be lost.
- `Layer`: once the workers are joined they have nothing; while the layer is
  stopped its thread has nothing; what is alive then is `Left`.

*How the proof is laid out.* Lemmas on a record say what each operator does to
`Good` (`TerminatedIs`, `SendsIs`, `EndedIs`, `AfterwardsIs`, `ShutdownIs`,
`DecRefIs`), with how many references are left over; `HoldsGo` says what a change
of one thread's frame does to the number of its holders, and `CountsGo` joins the
two. `TablesSame` and `TablesWithout` are for the steps that leave the tables alone
and for those that unregister, the late ones included. `AltersKeeps`, `LeavesKeeps`
and `GoneKeeps` serve the actions that change a transaction, those after which a
thread leaves it, and those that free it; one lemma for each action follows
(`..Keeps`). TLC checked `Inv` on the instance of `table` first.

### The INVITE session

`InvSessionProofs.tla` proves, for any number of re-INVITEs, with and without
timeouts, all of what the run `inv` checks but `EndsBoth`:

| theorem | it says |
|---|---|
| `TypesKept` | `Spec => []TypeOK`; in particular no session ends without a cause, which `inv_set_state` asserts |
| `InviteAlwaysExact` | `Spec => []InviteTsxExact` |
| `NeverTwoAtATime` | `Spec => []OneAtATime` |
| `ByeOnlyAfterAck` | `Spec => []ByeAfterAck`, if nothing times out |
| `SessionsNeverGoBack` | `Spec => NeverBack` |
| `Invariance` | `Spec => []Inv`, from which the others follow |

`ByeOnlyAfterAck` assumes `~MayTimeout`, as the run does: a called side that has
waited in vain for the ACK ends the call with BYE, and so the code means it to.

*Why an invariant of its own is needed.* `InviteTsxExact` speaks of confirmed
sessions and of INVITEs in progress; what a late 2xx, a CANCEL or a BYE does
depends on INVITEs that are over. `Inv` is `Alone(World)`, the caller before its
INVITE arrives, or `Good(World)`:

- `HoldsBut`: `invite_tsx` names an INVITE whose half at that side still runs.
- `NoneEscapes`: what a session that lives has open, it has in `invite_tsx`; not
  only once it is confirmed.
- `OneBusy`: no two INVITEs are being answered; a re-INVITE that crosses another
  is refused because one or the other side has its `invite_tsx` set.
- `AckedConfirms`: who has sent an ACK has confirmed. Without it the ACK that
  confirms the called side could come from a caller that is still calling.
- `CallerFirst`: with nothing timing out the caller confirms first, and the called
  side sends no request before that. It needs that no code is 408 either.

*How the proof is laid out.* A handler is a chain of writes to one world, so the
invariant is followed along the chain. Between the write that ends an INVITE (or
takes one on) and the write that makes `invite_tsx` agree, that one INVITE is let
off (`HoldsBut(w, p, i)`), and only there. Each operator has a lemma: from a good
world it leads to one that is good and where nothing was undone (`Step`, `Grows`),
or that besides left `invite_tsx` alone (`Mild`). `SessionStep` and `TxnStep` say
when the replacement of one session or one transaction is such a step; each action
is a chain of them and `Moves` joins the actions. `SendAck` writes in the order in
which `invite_tsx` would for a moment be wrong twice; its lemma shows that the
other order leads to the same world. TLC checked `Inv` on the instances of `inv`
and `inv_timeout` first.

### The offer/answer exchange

`SdpExchangeProofs.tla` proves, for any capabilities, codec tables and settings and
any number of exchanges, what does not depend on what the algorithms compute:

| theorem | it says |
|---|---|
| `RepliesAlwaysAwaited` | `Spec => []RepliesAwaited`: the assertions on the negotiator's state in `sdp_neg.c` hold for every answer, rejection, 200 and ACK |
| `VersionsNeverSkip` | `Spec => []VersionsGrow` |
| `OffersAccounted` | `Spec => []OffersExact`: whoever waits for an answer waits for exactly one message or one application |
| `Invariance` | `Spec => []Inv`, from which the others follow |

*Why an invariant of its own is needed.* `RepliesAwaited` would let two answers to
one offer be on their way: the first moves the negotiator on and the second finds
it DONE. `OffersExact` counts: an offer that is waited for is with the peer's
application or in one message, and the same holds of an INVITE that asks for an
offer. `VersionsGrow` needs `Dated`: a new offer is numbered after the active SDP
and not after the last one that was sent, so the active one must never be more
than one behind.

*How the proof is laid out.* Each function of the negotiator has a lemma on the
state it leaves and the versions it gives, whatever its folds do to lines and
formats; each action has a lemma that it keeps `Inv` (`..Kept`). TLC checked `Inv`
on the instance of `sdp` first.

### The registration

`RegClientProofs.tla` proves, for any number of users' threads, workers and
sessions, any of the codes, and sends that fail or not, all of what the run `reg`
checks but `LookedAfter`, which needs a hypothesis (below):

| theorem | it says |
|---|---|
| `TypeCorrect` | `Spec => []TypeOK`; in particular no count of users falls below zero |
| `OneRequest` | `Spec => []HasTsxExact` |
| `NeverFreedInUse` | `Spec => []NotFreedInUse` |
| `Invariance` | `Spec => []Inv`, from which the others follow |

The run has one thread of the user and one worker, as the application has;
pjsua's API may be called from any thread, and for that the theorems speak too.

*Why an invariant of its own is needed.* Whether a session may go, or `has_tsx`
may be reset, depends on where every thread is.

- `Sound`: the count of users is that of the frames that hold a reference, and a
  session has a frame or a message with its request, or none. A send that failed
  and is still to return may have been called back and followed by another
  request: `cseq` says which of them has the session. As long as it names the
  send that failed, the only request there is can be its own callback, in the
  same thread and directly above it.
- `Usable`: the account's session lives and is not marked. So whoever takes it
  from the account under `PJSUA_LOCK` may take a reference.
- `Deletes`: `destroy_regc` reads the count in one step and acts in the next.
  Between the two the session is locked, it lives, and if it was unused it still
  is, but for a refresh timer's callback, which takes its reference too late.
- `Owned`: who keeps `PJSUA_LOCK` from one step to the next. Without it two threads
  could delete the account at once.
- `Stack`: which function may be called from which, and at most four deep.

`busy` of a session that is gone is not counted any more: its memory may have
users that came too late (`RefreshRef`), which is the place `NotFreedInUse` leaves
out.

*How the proof is laid out.* A session's users and requests are *places* in the
stacks, in five classes (`In`). Lemmas say what a push, a pop and another frame at
the top do to the places of each class (`MovesShift`), and from there on a step is
one of a few things that can happen to a session: `Refers`, `Pins`, `Releases`,
`Asks`, `Departs`, `Fails`, `Echoes`, `Returns`, `Answers`, `Looks`, `Creates`,
each a lemma about sets and a count. Every writer has a lemma on what it leaves
alone, every handler one on the world it leads to, and every action one that it
keeps `Inv` (`..Keeps`). TLC checked `Inv` on the instance of `reg` first.

*What looks after an account.* `RegTendedProofs.tla` proves, where one thread of the
user and one worker run (`OneOfEach`), as in this application:

| theorem | it says |
|---|---|
| `StaysLookedAfter` | `Spec => []LookedAfter` |

`OneOfEach` cannot be dropped: with two of either TLC finds `LookedAfter` violated.
Two users' calls may return in an order that hides the refusal of one. And of two
workers, the first has a 200 in hand, with the refresh timer started, when the
second runs a retry: this stops the refresh timer, cannot send and arranges
another retry. Then the first reports the 200, whose `active = FALSE` makes that
retry do nothing. The account shows itself registered and nothing renews it.

`LookedAfter` speaks of states where nothing is in progress, and nearly every step
of the code is taken in between. So `TInv` says for each state what the account
waits for. `Due`: it shows itself registered without a retry to come, or a callback
is about to say so. `Tended`: its session has its timer or a request, or a thread
makes up for it (`Covers`), or the application has been refused and makes no other
call (`Shown`). A thread makes up for a session when it is about to send, will
learn that its send failed, is about to report that the registration is lost, or
deletes the account. `Due => Tended` is inductive with two facts more: which
functions a thread begins with and that a callback under a send reports 503
(`Tame`), and that an account that was deleted has no session.

Lemmas say what a stack covers after a turn, a push, a pop and a return
(`..Covers`). `TurnQuiet`, `PushQuiet`, `SendsQuiet`, `PopQuiet` and `ReturnQuiet` are
the steps that leave the account alone: it suffices that whoever kept its session
before is followed by one who does. `CallTends`, `EndSetTends` and `LaterTends` are
those that tell the application or arrange a retry, and need the hypothesis.

### The application

`DemoPhoneProofs.tla` proves, for any number of call slots and any bounds within
`BoundsAssumption`, everything that the run `phone` checks:

| theorem | it says |
|---|---|
| `PhoneTypes` | `Spec => []TypeOK` |
| `OneScreen` | `Spec => []OneVideoScreen` |
| `ButtonRecovers` | `Spec => []CallButtonRecovers` |
| `ReportedOnce` | `Spec => []EndReportedOnce` |
| `PhoneSound` | `Spec => []Inv`, from which the others follow |

*Why an invariant of its own is needed.* A disabled button is promised to an
outgoing call; whether the promise holds depends on what the other thread is in
the middle of. `Inv` says what the steps that are left promise about the calls
they name:

- `Ordered`: a report is always the next step of its thread, and only reports and
  clears come before a free or an end. No other shape of `todo` is needed.
- `Held`: a call that is to be given back or ended is in use, and no call is in
  the hands of both threads. This is what the dialog lock is for; without it the
  proofs of `FreeCall` and of `pjsua_call_hangup` fail.
- `Told`: who will report a call's end, or has. A call is unreported until its
  hanging_up is set or the worker has it in hand; after that it is reported, or a
  report is the next step of the thread that has it.
- `Directed`: an outgoing call is in use, and only incoming calls are refused.
- `Recovers`: `CallButtonRecovers`, by a call that is not about to be given back.

*How the proof is laid out.* Lemmas on sequences say what the head, the tail and
a concatenation leave of the sets of calls named (`PendingTail`, `PendingConcat`,
`OrderTail`, `OrderConcat`); a lemma for each list of steps the code begins with
(`..Plan`) gives its sets; `DoneLeft`, `BeginLeft` and `ContinueLeft` say what a
step does to a thread's. From there on the proofs of the actions are about sets
of calls only. TLC checked `Inv` on the instance of `phone` first.

### Out of the prover's reach

Liveness under fairness (`EventuallyFreed`, `RequestEnds`, `ImplementsFairFsm`,
`HangupEnds`, `Settles`) and ENABLED (`EndsBoth`) stay with TLC. So does induction
over data: the library's induction theorems take operators as parameters, which
none of the provers can instantiate. What the folds of `SdpMedia` compute is
compared with the reference definitions on every input of the instance
(`AnswerIsReference`, `AnswerIsAccepted`), and the properties of `SdpExchange` that
depend on it (its `TypeOK`, `SessionsAgree`, `CalledPtStable`, `LinesKept`) on every
state of the instance. No module with a theorem uses a RECURSIVE operator or
reaches one.

## 6. What is only model-checked

On the instances of section 4: the properties just named. Of the transaction this
is what the fairness of its scheduling adds to `ImplementsFsm`.

That the modules of one layer do what those of the next take for granted is argued
in section 3 and not checked, but for `TransactionFsm`, whose refinement is
proved.

## 7. What is not modelled

- *Transaction*: time and delays, failing allocations, search keys and addresses,
  `pjsip_tsx_set_transport`.
- *Transaction table*: the making of keys, hash collisions, the dump of the table;
  timer and message handling but for what sends and what ends a transaction; the
  timers that run before its end, with the references they have; the telling of
  TERMINATED with the lock released.
- *INVITE session*: redirection, challenges, UPDATE, PRACK, session timers,
  transport errors, forked answers, a second CANCEL. Its SDP is in `SdpExchange`,
  which in turn takes the delivery of messages for granted.
- *Offer/answer*: the order of attributes, fmtp callbacks, transports other than
  one, `initial_sdp`, duplicate codecs in a line, an application that leaves an
  offer in a 200 unanswered, UPDATE during an INVITE without offer.
- *Registration*: contact rewriting behind a NAT, change of address,
  Service-Route, outbound, accounts without `auto_reg`, the arithmetic of
  expiration times and a 200 with `Expires: 0`, which the code takes for the end of
  the registration, `unregister_all`, and a response that another thread handles
  before the send of its request has returned.
- *Application and call table*: the login screen, hold, mute, DTMF and the preview;
  hold, transfer, replaces, instant messages and trickle ICE; the limit of 2 s
  after which `acquire_call` gives up.
- *INVITE extensions* (100rel, session timers, transfer, replaces) have state of
  their own over `InvSession` and are in the plan. *Event packages* are not used
  by the application.
- *Transports, resolution, NAT traversal*: what a transport or a resolver answers
  is a choice of the models; their own state (connections, reference counts, ICE
  checks) is not modelled.
- *Data*: message formats, authentication digests, codecs, echo cancellation,
  mixing, DNS records. Their interest is in what they compute.
- *pjlib* is modelled as far as its users see it: timer entries, group locks.
- *Vendored code, samples, bindings and tests* are not part of the program. They
  are most of the repository's lines; with pjmedia and pjnath they are why the
  models map to a small share of all its code.

`PROJECT.json` gives the status and reason for each component, and for each
hazard without a property why it has none.
