------------------------------- MODULE SdpNeg -------------------------------
(***************************************************************************)
(* The SDP negotiator of sdp_neg.c: the state of one offer/answer session  *)
(* and the functions the INVITE session calls on it.  A negotiator is a    *)
(* record; each operator below is one function of the API, on states that  *)
(* pass the check the function starts with.                                *)
(*                                                                         *)
(* A session description is [version, media], the version being that of    *)
(* its origin line.  initial_sdp is left out: the calls the program makes  *)
(* read only its origin id.                                                *)
(***************************************************************************)
EXTENDS SdpMedia

CONSTANTS MaxMedia     \* PJMEDIA_MAX_SDP_MEDIA

NoSdp == [version |-> -1, media |-> <<>>]

\* A negotiator that does not exist yet.
NoNeg ==
    [state |-> "NULL", active_local |-> NoSdp, active_remote |-> NoSdp,
     neg_local |-> NoSdp, neg_remote |-> NoSdp, last_sent |-> NoSdp,
     has_remote_answer |-> FALSE,
     maps |-> [i \in 1..MaxMedia |-> NoMapping]]

\* The version of an SDP whose media are to be sent: that of base, or the
\* next one if the SDP differs from the last that was sent, its version
\* included (pjmedia_sdp_session_cmp).
Versioned(n, base, media) ==
    LET same == [version |-> base, media |-> media]
    IN IF n.last_sent = same THEN same ELSE [same EXCEPT !.version = @ + 1]

\* The first offer is sent as it is: its payload types are not recorded.
CreateWLocalOffer(local) ==
    [NoNeg EXCEPT !.state = "LOCAL_OFFER", !.neg_local = local,
                  !.last_sent = local]

CreateWRemoteOffer(remote) ==
    [NoNeg EXCEPT !.state = "REMOTE_OFFER", !.neg_remote = remote]

\* Fault: the lines are left in the order and number the application gives.
NoFixup(active, media) == media

\* The lines of the new offer are put in the order of the active SDP by
\* their type, and a line it lacks is added with port zero.
MediaFixup(active, media) ==
    LET move(s, oi) ==
            LET ni == SelectInSeq(SubSeq(s, oi, Len(s)),
                                  LAMBDA m : m.type = active[oi].type)
            IN IF ni = 0 THEN InsertAt(s, oi, Deactivated(active[oi]))
               ELSE InsertAt(RemoveAt(s, oi + ni - 1), oi, s[oi + ni - 1])
    IN FoldLeftDomain(move, media, active)

\* modify_local_offer2 with no flags.  Without an active SDP the session
\* starts again from the application's SDP.
ModifyLocalOffer(n, local) ==
    LET first == n.active_local = NoSdp
        fixed == IF first THEN local.media
                 ELSE MediaFixup(n.active_local.media, local.media)
        a == AssignPt(n.maps, fixed, TRUE)
        s == Versioned(n, IF first THEN local.version
                          ELSE n.active_local.version, a.media)
    IN [n EXCEPT !.state = "LOCAL_OFFER", !.maps = a.maps,
                 !.neg_local = s, !.last_sent = s]

\* send_local_offer of a negotiator that is DONE: the active SDP again.
SendLocalOffer(n) ==
    LET s == Versioned(n, n.active_local.version, n.active_local.media)
    IN [n EXCEPT !.state = "LOCAL_OFFER", !.neg_local = s, !.last_sent = s]

SetRemoteAnswer(n, remote) ==
    [n EXCEPT !.state = "WAIT_NEGO", !.has_remote_answer = TRUE,
              !.neg_remote = remote]

SetRemoteOffer(n, remote) ==
    [n EXCEPT !.state = "REMOTE_OFFER", !.neg_remote = remote]

SetLocalAnswer(n, local) ==
    [n EXCEPT !.state = "WAIT_NEGO", !.neg_local = local]

\* What cancel_offer and negotiate end with.
Cleared(n) ==
    [n EXCEPT !.state = "DONE", !.neg_local = NoSdp, !.neg_remote = NoSdp,
              !.has_remote_answer = FALSE]

\* Fault: the SDP of a cancelled offer becomes the active one.
CancelKeepsOffer(n) ==
    Cleared(IF n.state = "LOCAL_OFFER"
            THEN [n EXCEPT !.active_local = n.neg_local] ELSE n)

CancelOffer(n) == Cleared(n)

\* negotiate with the remote's answer: the active SDPs change only if it
\* succeeds.
NegotiateAnswer(n) ==
    LET r == ProcessAnswer(n.neg_local.media, n.neg_remote.media)
    IN [status |-> r.status,
        neg |-> IF r.status # "SUCCESS" THEN Cleared(n)
                ELSE Cleared([n EXCEPT
                        !.active_local = [n.neg_local EXCEPT !.media = r.active],
                        !.active_remote = [n.neg_remote EXCEPT !.media = r.remote]])]

\* Fault: the answer has the version the application gave it.
AdoptOwnVersion(n, a) ==
    LET s == Versioned(n, n.neg_local.version, a.media)
    IN Cleared([n EXCEPT !.maps = a.maps, !.last_sent = s, !.active_local = s,
                         !.active_remote = n.neg_remote])

\* The answer with the payload types it was assigned becomes active.
Adopt(n, a) ==
    LET base == IF n.last_sent = NoSdp THEN n.neg_local.version
                ELSE n.last_sent.version
        s == Versioned(n, base, a.media)
    IN Cleared([n EXCEPT !.maps = a.maps, !.last_sent = s, !.active_local = s,
                         !.active_remote = n.neg_remote])

Concluded(n, r) ==
    [status |-> r.status,
     neg |-> IF r.status # "SUCCESS" THEN Cleared(n)
             ELSE Adopt(n, AssignPt(n.maps, r.answer, FALSE))]

\* negotiate with the remote's offer, which makes the answer.
NegotiateOffer(n, prefer, multi) ==
    Concluded(n, CreateAnswer(prefer, multi, n.neg_local.media, n.neg_remote.media))

=============================================================================
