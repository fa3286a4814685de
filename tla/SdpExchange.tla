---------------------------- MODULE SdpExchange ----------------------------
(***************************************************************************)
(* Two user agents that negotiate their session: the offers, answers and   *)
(* rejections the INVITE sessions of sip_inv.c exchange, each driving its  *)
(* own negotiator.  Offers travel in INVITE and UPDATE requests, or in the *)
(* 200 to an INVITE without SDP and then the answer travels in the ACK.    *)
(* The transactions below deliver every message once, in any order.        *)
(***************************************************************************)
EXTENDS SdpNeg

CONSTANTS Capabilities,   \* media the applications may offer or answer with
          PreferRemote,   \* prefer_remote_codec_order
          MultiCodec,     \* answer_with_multiple_codecs
          MaxSent         \* bound: SDPs sent when the last offer is made

Parties == {"A", "B"}
Peer(p) == IF p = "A" THEN "B" ELSE "A"

VARIABLES neg,      \* inv->neg of each side
          asking,   \* its INVITE without SDP waits for the final response
          owing,    \* a request with an offer waits for its final response
          net,      \* messages on their way
          sent      \* the SDPs each side has sent, in order
vars == <<neg, asking, owing, net, sent>>

Msg(p, kind, sdp) == [to |-> Peer(p), kind |-> kind, sdp |-> sdp]

\* p answers, or sends after, message m.
Send(p, m, kind, sdp) == net' = (net \ {m}) \cup {Msg(p, kind, sdp)}

Sends(p, sdp) == sent' = [sent EXCEPT ![p] = Append(@, sdp)]

\* The session was established: the first offer was answered.
MaySend == sent["B"] # <<>> /\ Len(sent["A"]) + Len(sent["B"]) < MaxSent

\* The negotiator of the INVITE session when the UAC makes the INVITE.
Init ==
    \E media \in Capabilities :
        LET sdp == [version |-> 0, media |-> media]
        IN /\ neg = [p \in Parties |-> IF p = "A" THEN CreateWLocalOffer(sdp)
                                       ELSE NoNeg]
           /\ asking = [p \in Parties |-> FALSE]
           /\ owing = [p \in Parties |-> FALSE]
           /\ net = {Msg("A", "offer", sdp)}
           /\ sent = [p \in Parties |-> IF p = "A" THEN <<sdp>> ELSE <<>>]

\* pjsip_inv_reinvite or pjsip_inv_update with SDP, the latter not while an
\* INVITE without SDP is out.
Offer(p) ==
    /\ neg[p].state = "DONE" /\ ~asking[p] /\ MaySend
    /\ \E media \in Capabilities :
          LET n == ModifyLocalOffer(neg[p], [version |-> 0, media |-> media])
          IN /\ neg' = [neg EXCEPT ![p] = n]
             /\ net' = net \cup {Msg(p, "offer", n.neg_local)}
             /\ Sends(p, n.neg_local)
    /\ UNCHANGED <<asking, owing>>

\* pjsip_inv_reinvite without SDP: the other side is to offer.
AskOffer(p) ==
    /\ neg[p].state = "DONE" /\ ~asking[p] /\ MaySend
    /\ asking' = [asking EXCEPT ![p] = TRUE]
    /\ net' = net \cup {Msg(p, "invite", NoSdp)}
    /\ UNCHANGED <<neg, owing, sent>>

\* An offer arrives.  A negotiator at work answers 491 or 500, and so does a
\* pending INVITE of this side when the offer is in an INVITE.
RxOffer(p, m) ==
    /\ m.to = p /\ m.kind = "offer"
    /\ \/ /\ neg[p].state \in {"NULL", "DONE"}
          /\ neg' = [neg EXCEPT ![p] =
                        IF neg[p].state = "NULL" THEN CreateWRemoteOffer(m.sdp)
                        ELSE SetRemoteOffer(neg[p], m.sdp)]
          /\ owing' = [owing EXCEPT ![p] = TRUE]
          /\ net' = net \ {m}
       \/ /\ neg[p].state \notin {"NULL", "DONE"} \/ asking[p]
          /\ Send(p, m, "reject", NoSdp)
          /\ UNCHANGED <<neg, owing>>
    /\ UNCHANGED <<asking, sent>>

\* inv_negotiate_sdp with an answer of the application.
Negotiated(n, media) ==
    NegotiateOffer(SetLocalAnswer(n, [version |-> 0, media |-> media]),
                   PreferRemote, MultiCodec)

\* The application gives its answer, which is negotiated and sent; when that
\* fails the request is rejected.
Answer(p) ==
    /\ neg[p].state = "REMOTE_OFFER" /\ owing[p]
    /\ \E media \in Capabilities :
       \E r \in {Negotiated(neg[p], media)} :
          /\ neg' = [neg EXCEPT ![p] = r.neg]
          /\ IF r.status = "SUCCESS"
             THEN /\ net' = net \cup {Msg(p, "answer", r.neg.active_local)}
                  /\ Sends(p, r.neg.active_local)
             ELSE net' = net \cup {Msg(p, "reject", NoSdp)} /\ UNCHANGED sent
    /\ owing' = [owing EXCEPT ![p] = FALSE]
    /\ UNCHANGED asking

\* The application has no answer for an offer: 488.
RejectOffer(p) ==
    /\ neg[p].state = "REMOTE_OFFER" /\ owing[p]
    /\ neg' = [neg EXCEPT ![p] = CancelOffer(neg[p])]
    /\ net' = net \cup {Msg(p, "reject", NoSdp)}
    /\ owing' = [owing EXCEPT ![p] = FALSE]
    /\ UNCHANGED <<asking, sent>>

\* The 200 to an offer.  The result of the negotiation is not looked at.
RxAnswer(p, m) ==
    /\ m.to = p /\ m.kind = "answer" /\ neg[p].state = "LOCAL_OFFER"
    /\ neg' = [neg EXCEPT ![p] =
                  NegotiateAnswer(SetRemoteAnswer(neg[p], m.sdp)).neg]
    /\ net' = net \ {m}
    /\ UNCHANGED <<asking, owing, sent>>

\* A final response that is no success, to the request with the offer.
RxReject(p, m) ==
    /\ m.to = p /\ m.kind = "reject" /\ neg[p].state = "LOCAL_OFFER"
    /\ neg' = [neg EXCEPT ![p] = CancelOffer(neg[p])]
    /\ net' = net \ {m}
    /\ UNCHANGED <<asking, owing, sent>>

\* Fault: an INVITE without SDP is accepted while this side's own is out.
RxInviteAlways(p, m) ==
    /\ m.to = p /\ m.kind = "invite" /\ neg[p].state = "DONE"
    /\ LET n == SendLocalOffer(neg[p])
       IN /\ neg' = [neg EXCEPT ![p] = n]
          /\ Send(p, m, "offer200", n.neg_local)
          /\ Sends(p, n.neg_local)
    /\ UNCHANGED <<asking, owing>>

\* An INVITE without SDP arrives: the 200 offers the active SDP again.
RxInvite(p, m) ==
    /\ m.to = p /\ m.kind = "invite"
    /\ \/ /\ neg[p].state = "DONE" /\ ~asking[p]
          /\ neg[p].active_local # NoSdp
          /\ LET n == SendLocalOffer(neg[p])
             IN /\ neg' = [neg EXCEPT ![p] = n]
                /\ Send(p, m, "offer200", n.neg_local)
                /\ Sends(p, n.neg_local)
       \/ /\ \/ neg[p].state # "DONE" \/ asking[p]
             \/ neg[p].active_local = NoSdp
          /\ Send(p, m, "refuse", NoSdp)
          /\ UNCHANGED <<neg, sent>>
    /\ UNCHANGED <<asking, owing>>

\* The final response to that INVITE.
RxRefuse(p, m) ==
    /\ m.to = p /\ m.kind = "refuse"
    /\ asking' = [asking EXCEPT ![p] = FALSE]
    /\ net' = net \ {m}
    /\ UNCHANGED <<neg, owing, sent>>

\* The 200 to that INVITE.  Its offer is answered in the ACK; the ACK is
\* empty when the negotiation fails.
RxOffer200(p, m) ==
    /\ m.to = p /\ m.kind = "offer200" /\ neg[p].state = "DONE"
    /\ asking' = [asking EXCEPT ![p] = FALSE]
    /\ \E media \in Capabilities :
       \E r \in {Negotiated(SetRemoteOffer(neg[p], m.sdp), media)} :
          /\ neg' = [neg EXCEPT ![p] = r.neg]
          /\ IF r.status = "SUCCESS"
             THEN Send(p, m, "ack", r.neg.active_local) /\ Sends(p, r.neg.active_local)
             ELSE Send(p, m, "ack", NoSdp) /\ UNCHANGED sent
    /\ UNCHANGED owing

\* Fault: an ACK without SDP leaves the offer to which it is the answer.
RxAckKeepsOffer(p, m) ==
    /\ m.to = p /\ m.kind = "ack" /\ neg[p].state = "LOCAL_OFFER"
    /\ neg' = [neg EXCEPT ![p] =
                  IF m.sdp = NoSdp THEN neg[p]
                  ELSE NegotiateAnswer(SetRemoteAnswer(neg[p], m.sdp)).neg]
    /\ net' = net \ {m}
    /\ UNCHANGED <<asking, owing, sent>>

\* The ACK: an offer it does not answer is cancelled.
RxAck(p, m) ==
    /\ m.to = p /\ m.kind = "ack" /\ neg[p].state = "LOCAL_OFFER"
    /\ neg' = [neg EXCEPT ![p] =
                  IF m.sdp = NoSdp THEN CancelOffer(neg[p])
                  ELSE NegotiateAnswer(SetRemoteAnswer(neg[p], m.sdp)).neg]
    /\ net' = net \ {m}
    /\ UNCHANGED <<asking, owing, sent>>

Receive(p, m) ==
    \/ RxOffer(p, m) \/ RxAnswer(p, m) \/ RxReject(p, m) \/ RxInvite(p, m)
    \/ RxRefuse(p, m) \/ RxOffer200(p, m) \/ RxAck(p, m)

Next == \E p \in Parties :
            \/ Offer(p) \/ AskOffer(p) \/ Answer(p) \/ RejectOffer(p)
            \/ \E m \in net : Receive(p, m)

Spec == Init /\ [][Next]_vars

Kinds == {"offer", "answer", "reject", "invite", "refuse", "offer200", "ack"}

\* Transactions deliver or end: no message to a side stays on its way for
\* ever; and an application that was given an offer answers or rejects it.
\* Both can always happen (RepliesAwaited), so this only forbids neglect.
Fairness ==
    \A p \in Parties :
        /\ []<>~(neg[p].state = "REMOTE_OFFER" /\ owing[p])
        /\ \A k \in Kinds : []<>(\A m \in net : m.to = p => m.kind # k)

FairSpec == Spec /\ Fairness

-----------------------------------------------------------------------------
TypeOK ==
    /\ \A p \in Parties : neg[p].state \in
          {"NULL", "LOCAL_OFFER", "REMOTE_OFFER", "WAIT_NEGO", "DONE"}
    /\ asking \in [Parties -> BOOLEAN] /\ owing \in [Parties -> BOOLEAN]
    /\ \A m \in net : m.to \in Parties /\ m.kind \in Kinds
    /\ \A p \in Parties : sent[p] \in Seq([version : Nat, media : Seq(
          [type : STRING, port : BOOLEAN, dir : SUBSET SendRecv,
           fmt : Seq([pt : 0..LastPT, codec : Codecs])])])

Active(sdp) == \E i \in 1..Len(sdp.media) : sdp.media[i].port

\* What one side plays of its SDP is what the other records of it: the same
\* lines are active, with the same codecs in the same order, and one sends
\* what the other receives.
SameSession(s, t) ==
    /\ Len(s.media) = Len(t.media)
    /\ \A i \in 1..Len(s.media) :
          LET m == s.media[i]  n == t.media[i]
              codecs(x) == [k \in 1..Len(x.fmt) |-> x.fmt[k].codec]
          IN /\ m.type = n.type /\ m.port = n.port
             /\ m.port => m.dir = Mirror(n.dir) /\ codecs(m) = codecs(n)

\* negotiate, cancel_offer: whatever offers were made, crossed, rejected or
\* failed before, two sides at rest that have active media have agreed on
\* one session.
SessionsAgree ==
    (/\ net = {} /\ \A p \in Parties : /\ neg[p].state = "DONE"
                                       /\ Active(neg[p].active_local))
    => SameSession(neg["A"].active_local, neg["B"].active_local)

\* The number of a codec in a stream that stays active never changes hands
\* in what a side sends (RFC 3264 8.3.2, quoted in assign_pt_and_update_map).
StablePt(p) ==
    \A i, j \in 1..Len(sent[p]) : \A k \in 1..Len(sent[p][i].media) :
        (i < j /\ \A l \in i..j : /\ k <= Len(sent[p][l].media)
                                /\ sent[p][l].media[k].port)
        => \A f \in ToSet(sent[p][i].media[k].fmt),
              g \in ToSet(sent[p][j].media[k].fmt) :
              f.pt = g.pt => f.codec = g.codec

\* The side that was called records the numbers of all it sends.
CalledPtStable == StablePt("B")

\* The version of what a side sends, as offerer or as answerer and after
\* offers that were rejected, never goes back and never skips a number.
VersionsGrow ==
    \A p \in Parties : \A i \in 1..Len(sent[p]) - 1 :
        /\ sent[p][i].version <= sent[p][i + 1].version
        /\ sent[p][i + 1].version <= sent[p][i].version + 1

\* A message that ends a negotiation finds the negotiator in the state it is
\* meant for: the functions of sdp_neg.c assert that state.
RepliesAwaited ==
    \A m \in net :
        /\ m.kind \in {"answer", "reject", "ack"}
           => neg[m.to].state = "LOCAL_OFFER"
        /\ m.kind = "offer200" => neg[m.to].state = "DONE"

\* MediaFixup, CreateAnswer: an established stream keeps its line: lines are
\* never removed and keep their type, whatever the applications offer.
LinesKept ==
    [][\A p \in Parties :
          LET s == neg[p].active_local.media
              t == neg'[p].active_local.media
          IN Len(s) <= Len(t) /\ \A i \in 1..Len(s) : s[i].type = t[i].type]_vars

\* An offer, in whatever message, is eventually accepted or given up.
Settles ==
    \A p \in Parties : neg[p].state # "DONE" ~> neg[p].state = "DONE"

=============================================================================
