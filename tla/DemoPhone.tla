----------------------------- MODULE DemoPhone -----------------------------
(***************************************************************************)
(* The application PjsipDemo (WebRTCClient.swift, ViewController.swift,    *)
(* VideoVC.swift, incomingCallView.swift, Model.swift) over the call table *)
(* of pjsua_call.c.                                                        *)
(*                                                                         *)
(* Two threads run this code: pjsua's worker, which delivers events and    *)
(* timers, and the main thread, which runs touches and the blocks of the   *)
(* main dispatch queue one at a time.  What a thread has begun and not yet *)
(* done is todo[thread], a sequence of the steps that are left; steps of   *)
(* the two threads interleave.  A "free" or "end" step left to do stands   *)
(* for the lock on that call's dialog, a "popup" step for PJSUA_LOCK.      *)
(*                                                                         *)
(* Left out because nothing depends on them: PjsipVars.call_id, which is   *)
(* only compared with PJSUA_INVALID_ID to choose between two branches that *)
(* both call hangup_allCall, and incomingCallID, which is 0 or a call id   *)
(* and never PJSUA_INVALID_ID.  PjsipVars.calling is never set.            *)
(***************************************************************************)
EXTENDS Integers, Sequences, FiniteSets, SequencesExt

CONSTANTS
    MaxCalls,   \* pjsua_config.max_calls
    MaxDials,   \* bound: call_func timers waiting at once
    MaxBlocks,  \* bound: no call, video or touch comes while so many blocks wait
    MaxPopups   \* bound: popups shown or waiting to be shown

ASSUME BoundsAssumption ==
    /\ MaxCalls \in Nat \ {0}
    /\ MaxDials \in Nat
    /\ MaxBlocks \in Nat
    /\ MaxPopups \in Nat

VARIABLES
    calls,          \* pjsua_var.calls
    next_call_id,   \* pjsua_var.next_call_id
    isCallingPhone, \* the Call button is disabled
    scheduled,      \* call_func timers in pjsua's timer heap
    queue,          \* DispatchQueue.main
    stack,          \* presented screens, each with its popups; the last is on top
    todo            \* what each thread has left to do
pjsua == <<calls, next_call_id>>
app == <<isCallingPhone, scheduled>>
ui == <<queue, stack>>
vars == <<calls, next_call_id, isCallingPhone, scheduled, queue, stack, todo>>

-----------------------------------------------------------------------------
(* The call table.                                                         *)

CallIds == 0 .. MaxCalls - 1
Threads == {"worker", "main"}

NoCall == [dir |-> "none", state |-> "null", hanging_up |-> FALSE,
           accepted |-> FALSE, reported |-> 0]
NewCall(dir, state) == [NoCall EXCEPT !.dir = dir, !.state = state]

InUse(c) == calls[c].state # "null"

\* alloc_call_id: the first free slot from next_call_id on, round robin.
Allocated(c) ==
    /\ ~InUse(c)
    /\ \A d \in CallIds : ~InUse(d) =>
           (c - next_call_id) % MaxCalls <= (d - next_call_id) % MaxCalls
FollowingUnwrapped == next_call_id + 1
Following == (next_call_id + 1) % MaxCalls

-----------------------------------------------------------------------------
(* Steps of a thread.                                                      *)

Step(op, c) == [op |-> op, call |-> c, code |-> 0]
HangUpStep(c, code) == [op |-> "hangup", call |-> c, code |-> code]

\* on_call_state(DISCONNECTED): ask for the screen to be dismissed, then
\* enable the Call button.
on_call_state(c) == <<Step("report", c), Step("clear", c)>>

\* hangup_allCall: its call_info is never filled in, so ci.id is 0.
hangup_allCall == <<HangUpStep(0, 200), Step("clear", 0)>>
pjsua_call_hangup_all == [i \in 1 .. MaxCalls |-> HangUpStep(i - 1, 0)]

Other(t) == IF t = "main" THEN "worker" ELSE "main"
LeftTo(t, op) == {todo[t][i].call : i \in {j \in DOMAIN todo[t] : todo[t][j].op = op}}
\* acquire_call of t waits while the other thread is in a callback for c.
Locked(t, c) ==
    \/ c \in LeftTo(Other(t), "free") \cup LeftTo(Other(t), "end")
    \/ LeftTo(Other(t), "popup") # {}

Idle(t) == todo[t] = <<>>
Begin(t, steps) == Idle(t) /\ todo' = [todo EXCEPT ![t] = steps]
At(t, op) == ~Idle(t) /\ Head(todo[t]).op = op
Continue(t, steps) == todo' = [todo EXCEPT ![t] = steps \o Tail(@)]
Done(t) == Continue(t, <<>>)

Block(kind, c) == [kind |-> kind, call |-> c]
async(blocks) == queue' = queue \o blocks
Blocks(kind, n) == [i \in 1 .. n |-> Block(kind, 0)]

\* The bounds of the instances, for what may come at any time.
QueueHasRoom == Len(queue) < MaxBlocks
PopupsPending ==
    Cardinality({i \in DOMAIN queue : queue[i].kind = "popup"})
        + FoldSeq(LAMBDA s, n : Len(s) + n, 0, stack)

TypeOK ==
    /\ calls \in [CallIds -> [dir : {"none", "in", "out"},
                              state : {"null", "calling", "incoming",
                                       "connecting", "confirmed", "ending"},
                              hanging_up : BOOLEAN, accepted : BOOLEAN,
                              reported : 0 .. 1]]
    /\ next_call_id \in CallIds
    /\ isCallingPhone \in BOOLEAN
    /\ scheduled \in 0 .. MaxDials
    /\ queue \in Seq([kind : {"popup", "video", "present", "dismiss", "hangupCall"},
                      call : CallIds])
    /\ stack \in Seq(Seq(CallIds)) /\ stack # <<>>
    /\ todo \in [Threads -> Seq([op : {"report", "clear", "free", "popup", "hangup", "end"},
                                 call : CallIds, code : {0, 200}])]

Init ==
    /\ calls = [c \in CallIds |-> NoCall]
    /\ next_call_id = 0
    /\ isCallingPhone = FALSE
    /\ scheduled = 0
    /\ queue = <<>>
    /\ stack = << <<>> >>
    /\ todo = [t \in Threads |-> <<>>]

-----------------------------------------------------------------------------
(* Steps that both threads take: the body of on_call_state, and the end of *)
(* pjsua_call_on_state_changed and of pjsua_call_hangup.                   *)

\* dismissVideoViewController, from on_call_state.
Report(t) ==
    /\ At(t, "report")
    /\ LET c == Head(todo[t]).call
       IN  calls' = [calls EXCEPT ![c].reported = @ + 1]
    /\ async(<<Block("dismiss", 0)>>)
    /\ Done(t)
    /\ UNCHANGED <<next_call_id, app, stack>>

\* isCallingPhone = false, wherever it stands.
Clear(t) ==
    /\ At(t, "clear")
    /\ isCallingPhone' = FALSE
    /\ Done(t)
    /\ UNCHANGED <<pjsua, scheduled, ui>>

\* The call is disconnected: call->inv = NULL and reset_call.
FreeCall(t) ==
    /\ At(t, "free")
    /\ calls' = [calls EXCEPT ![Head(todo[t]).call] = NoCall]
    /\ Done(t)
    /\ UNCHANGED <<next_call_id, app, ui>>

-----------------------------------------------------------------------------
(* The worker: timers and what the network brings.                         *)

call_funcStuck ==
    /\ scheduled > 0 /\ QueueHasRoom
    /\ scheduled' = scheduled - 1
    /\ next_call_id' = next_call_id
    /\ Begin("worker", <<>>)
    /\ UNCHANGED <<calls, isCallingPhone, ui>>

\* call_func is told that the call could not be made.
CallFailed == Begin("worker", <<Step("clear", 0)>>)

\* The INVITE is made and sent; a failed send disconnects the call and is
\* then returned.
on_make_call_med_tp_complete(c) ==
    /\ calls' = [calls EXCEPT ![c] = NewCall("out", "calling")]
    /\ \/ Begin("worker", <<>>)
       \/ Begin("worker", on_call_state(c) \o <<Step("free", c), Step("clear", c)>>)

\* The account may be gone and every slot taken; later failures give the
\* slot back before it has an INVITE.
pjsua_call_make_call ==
    \/ CallFailed /\ UNCHANGED pjsua
    \/ \E c \in CallIds :
          /\ Allocated(c)
          /\ next_call_id' = Following
          /\ on_make_call_med_tp_complete(c) \/ (CallFailed /\ UNCHANGED calls)

\* The timer of callClick.
call_func ==
    /\ scheduled > 0 /\ QueueHasRoom
    /\ scheduled' = scheduled - 1
    /\ pjsua_call_make_call
    /\ UNCHANGED <<isCallingPhone, ui>>

pjsua_call_on_incoming(c) ==
    /\ Allocated(c)
    /\ calls' = [calls EXCEPT ![c] = NewCall("in", "incoming")]
    /\ next_call_id' = Following

\* An INVITE that is accepted for processing: on_incoming_call shows nothing
\* and answers nothing while isCallingPhone.
on_incoming_call ==
    /\ QueueHasRoom /\ PopupsPending < MaxPopups
    /\ \E c \in CallIds :
          /\ pjsua_call_on_incoming(c)
          /\ Begin("worker", IF isCallingPhone THEN <<>> ELSE <<Step("popup", c)>>)
    /\ UNCHANGED <<app, ui>>

\* pjsua_call_on_incoming refuses the INVITE after it has allocated a slot.
RefuseIncoming ==
    /\ Idle("worker")
    /\ \E c \in CallIds : Allocated(c)
    /\ next_call_id' = Following
    /\ UNCHANGED <<calls, app, ui, todo>>

\* The rest of on_incoming_call: the block that shows the popup.
QueuePopup ==
    /\ At("worker", "popup")
    /\ async(<<Block("popup", Head(todo["worker"]).call)>>)
    /\ Done("worker")
    /\ UNCHANGED <<pjsua, app, stack>>

\* A call that the worker may handle an event of.
Handles(c) == Idle("worker") /\ InUse(c) /\ ~Locked("worker", c)

\* The 2xx to our INVITE, or the ACK to our 2xx: a call that is hanging up
\* is ended with BYE as soon as it is confirmed.
Confirmed(c) ==
    /\ Handles(c)
    /\ calls[c].state \in {"calling", "connecting"}
    /\ calls' = [calls EXCEPT ![c].state = IF calls[c].hanging_up THEN "ending" ELSE "confirmed"]
    /\ UNCHANGED <<next_call_id, app, ui, todo>>

\* An answer to our offer, early or final, or a re-INVITE has been negotiated.
pjsua_call_on_media_update(c) ==
    /\ Handles(c)
    /\ calls[c].state \in {"calling", "confirmed"}
    /\ ~calls[c].hanging_up

\* One block for each window that shows a video.
on_call_media_state(c) ==
    /\ pjsua_call_on_media_update(c)
    /\ QueueHasRoom
    /\ \E n \in 1 .. 2 : async(Blocks("video", n))
    /\ UNCHANGED <<pjsua, app, stack, todo>>

ReportedTwice(c) ==
    /\ Handles(c)
    /\ Begin("worker", on_call_state(c) \o <<Step("free", c)>>)
    /\ UNCHANGED <<pjsua, app, ui>>

\* The invite session is disconnected, by the peer or by a timeout: the
\* application is told, unless its own hangup has told it.
pjsua_call_on_state_changed(c) ==
    /\ Handles(c)
    /\ Begin("worker", (IF calls[c].hanging_up THEN <<>> ELSE on_call_state(c))
                           \o <<Step("free", c)>>)
    /\ UNCHANGED <<pjsua, app, ui>>

-----------------------------------------------------------------------------
(* The main thread: touches.                                               *)

Popups == stack[Len(stack)]
VideoShown == Len(stack) > 1

\* The Call button of the first screen.
callClick ==
    /\ Idle("main") /\ ~VideoShown
    /\ ~isCallingPhone
    /\ scheduled < MaxDials
    /\ isCallingPhone' = TRUE
    /\ scheduled' = scheduled + 1
    /\ UNCHANGED <<pjsua, ui, todo>>

\* The Hang up button of the video screen: a notification that the first
\* screen observes on the main queue.
btnHangup_Click ==
    /\ Idle("main") /\ VideoShown
    /\ QueueHasRoom
    /\ async(<<Block("hangupCall", 0)>>)
    /\ UNCHANGED <<pjsua, app, stack, todo>>

\* pjsua_call_answer2(c, 200): only an incoming call that has no final
\* response is answered.  The media it negotiates may show a video.
pjsua_call_answer2(c) ==
    /\ ~Locked("main", c)
    /\ IF calls[c].state = "incoming"
       THEN /\ calls' = [calls EXCEPT ![c].state = "connecting", ![c].accepted = TRUE]
            /\ \E n \in 0 .. 2 : async(Blocks("video", n))
       ELSE UNCHANGED <<calls, queue>>

\* The popup on top is answered.
isReceive ==
    /\ Idle("main") /\ Popups # <<>>
    /\ pjsua_call_answer2(Popups[Len(Popups)])
    /\ stack' = [stack EXCEPT ![Len(stack)] = SubSeq(@, 1, Len(@) - 1)]
    /\ UNCHANGED <<next_call_id, app, todo>>

\* The popup on top is rejected: hangup_allCall.
isReject ==
    /\ Idle("main") /\ Popups # <<>>
    /\ stack' = [stack EXCEPT ![Len(stack)] = SubSeq(@, 1, Len(@) - 1)]
    /\ Begin("main", hangup_allCall)
    /\ UNCHANGED <<pjsua, app, queue>>

-----------------------------------------------------------------------------
(* The main thread: pjsua_call_hangup.                                     *)

\* acquire_call fails for a slot that is not in use.  Then hangup_allCall
\* goes on with pjsua_call_hangup_all, and that with the next slot.  A call
\* that is hanging up already is left alone.
pjsua_call_hangup ==
    /\ At("main", "hangup")
    /\ LET step == Head(todo["main"])
           c == step.call
       IN  /\ ~Locked("main", c)
           /\ CASE ~InUse(c) ->
                     /\ Continue("main", IF step.code = 200 THEN pjsua_call_hangup_all ELSE <<>>)
                     /\ UNCHANGED calls
                [] InUse(c) /\ calls[c].hanging_up -> Done("main") /\ UNCHANGED calls
                [] OTHER ->
                     /\ calls' = [calls EXCEPT ![c].hanging_up = TRUE]
                     /\ Continue("main", on_call_state(c)
                          \o <<[op |-> "end", call |-> c, code |-> step.code]>>)
    /\ UNCHANGED <<next_call_id, app, ui>>

\* call_inv_end_session: a final response with that code, or 603 for code 0,
\* to an INVITE that has none; CANCEL, sent or put off, for ours; BYE for a
\* confirmed call, put off until the ACK for one that waits for it.
call_inv_end_session ==
    /\ At("main", "end")
    /\ LET c == Head(todo["main"]).call
           code == Head(todo["main"]).code
       IN  calls' = CASE calls[c].state = "incoming" /\ code = 200 ->
                           [calls EXCEPT ![c].state = "connecting"]
                      [] calls[c].state = "incoming" /\ code = 0 ->
                           [calls EXCEPT ![c] = NoCall]
                      [] calls[c].state = "confirmed" ->
                           [calls EXCEPT ![c].state = "ending"]
                      [] OTHER -> calls
    /\ Done("main")
    /\ UNCHANGED <<next_call_id, app, ui>>

-----------------------------------------------------------------------------
(* The main thread: the blocks of the main queue.                          *)

NextBlock(kind) ==
    /\ Idle("main") /\ queue # <<>>
    /\ Head(queue).kind = kind

\* The popup of an incoming call goes on the screen that is on top.
ShowPopup ==
    /\ NextBlock("popup")
    /\ stack' = [stack EXCEPT ![Len(stack)] = Append(@, Head(queue).call)]
    /\ queue' = Tail(queue)
    /\ UNCHANGED <<pjsua, app, todo>>

\* The block of on_call_media_state: a video screen on top takes the view,
\* else displayVideoView queues a second block.
ShowVideo ==
    /\ NextBlock("video")
    /\ queue' = IF VideoShown THEN Tail(queue) ELSE Append(Tail(queue), Block("present", 0))
    /\ UNCHANGED <<pjsua, app, stack, todo>>

displayUnseen ==
    /\ NextBlock("present")
    /\ stack' = Append(stack, <<>>)
    /\ queue' = Tail(queue)
    /\ UNCHANGED <<pjsua, app, todo>>

\* displayVideoView's block looks at the top again before it presents.
displayVideoView ==
    /\ NextBlock("present")
    /\ stack' = IF VideoShown THEN stack ELSE Append(stack, <<>>)
    /\ queue' = Tail(queue)
    /\ UNCHANGED <<pjsua, app, todo>>

\* The top screen is dismissed, with its popups; the first screen stays.
dismissVideoViewController ==
    /\ NextBlock("dismiss")
    /\ stack' = IF VideoShown THEN SubSeq(stack, 1, Len(stack) - 1) ELSE stack
    /\ queue' = Tail(queue)
    /\ UNCHANGED <<pjsua, app, todo>>

hangupCall ==
    /\ NextBlock("hangupCall")
    /\ queue' = Tail(queue)
    /\ Begin("main", hangup_allCall)
    /\ UNCHANGED <<pjsua, app, stack>>

-----------------------------------------------------------------------------
Worker ==
    \/ call_func
    \/ on_incoming_call
    \/ RefuseIncoming
    \/ QueuePopup
    \/ \E c \in CallIds :
          \/ Confirmed(c)
          \/ on_call_media_state(c)
          \/ pjsua_call_on_state_changed(c)

Main ==
    \/ callClick
    \/ btnHangup_Click
    \/ isReceive
    \/ isReject
    \/ pjsua_call_hangup
    \/ call_inv_end_session
    \/ ShowPopup
    \/ ShowVideo
    \/ displayVideoView
    \/ dismissVideoViewController
    \/ hangupCall

Next ==
    \/ Worker
    \/ Main
    \/ \E t \in Threads : Report(t) \/ Clear(t) \/ FreeCall(t)

Spec == Init /\ [][Next]_vars

-----------------------------------------------------------------------------
(* Properties.                                                             *)

\* At most one video screen is presented.  on_call_media_state queues a block
\* for every window, each of which may queue one that presents; a second
\* screen would stay after the call, for its end dismisses one only.
OneVideoScreen == Len(stack) <= 2

\* The Call button is disabled only while something is under way that will
\* enable it: a dial that has not run, an outgoing call whose end will be
\* reported, or a thread about to do it.  Every way in which an outgoing call
\* ends (its INVITE cannot be made or sent, the peer or a timeout ends it, it
\* is hung up, alone or with others) has to lead there, or the button is dead.
CallButtonRecovers ==
    isCallingPhone =>
        \/ scheduled > 0
        \/ \E c \in CallIds : calls[c].dir = "out" /\ ~calls[c].hanging_up
        \/ \E t \in Threads : LeftTo(t, "clear") # {}

\* The end of a call is reported to the application once: never twice, when
\* the user hangs up a call that the peer ends, and not never: a slot is only
\* given back, or its call ended, when that was reported.
EndReportedOnce ==
    /\ \A c \in CallIds : calls[c].reported <= 1
    /\ \A t \in Threads :
          At(t, "free") \/ At(t, "end") => calls[Head(todo[t]).call].reported = 1

=============================================================================
