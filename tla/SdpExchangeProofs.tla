------------------------- MODULE SdpExchangeProofs -------------------------
(***************************************************************************)
(* Proofs about SdpExchange, for every set of capabilities, every codec    *)
(* table, either setting of the negotiation flags and any number of        *)
(* exchanges: the answers, rejections and ACKs that arrive find the        *)
(* negotiator in the state sdp_neg.c asserts, no offer is ever forgotten   *)
(* while its offerer waits, and the version of what a side sends never     *)
(* goes back and never skips a number.                                     *)
(*                                                                         *)
(* What a negotiation computes of the media is not looked into: the        *)
(* proofs use of each function of the negotiator the state it leaves and   *)
(* the versions it gives, whatever its folds over lines and formats do.    *)
(***************************************************************************)
EXTENDS SdpExchange, TLAPS

-----------------------------------------------------------------------------
(* The invariant.                                                          *)

\* Message m carries the offer of p to its peer, or ends it at p.
OfferMsg(p, m) ==
    \/ m.to = Peer(p) /\ m.kind \in {"offer", "offer200"}
    \/ m.to = p /\ m.kind \in {"answer", "reject", "ack"}

\* Message m is p's INVITE without SDP, or the final response to it.
AskMsg(p, m) ==
    \/ m.to = Peer(p) /\ m.kind = "invite"
    \/ m.to = p /\ m.kind \in {"refuse", "offer200"}

\* p has an offer out exactly while its peer has it to answer or one message,
\* never two, is on its way for it.  Why RepliesAwaited is not inductive by
\* itself: a second reply to one offer would find the negotiator DONE.
OfferOpen(p) ==
    /\ neg[p].state = "LOCAL_OFFER" <=>
          owing[Peer(p)] \/ \E m \in net : OfferMsg(p, m)
    /\ owing[Peer(p)] => \A m \in net : ~OfferMsg(p, m)
    /\ \A m, o \in net : OfferMsg(p, m) /\ OfferMsg(p, o) => m = o

\* The same for an INVITE without SDP; meanwhile p makes no offer, but may be
\* made one by an UPDATE.
AskOpen(p) ==
    /\ asking[p] <=> \E m \in net : AskMsg(p, m)
    /\ asking[p] => neg[p].state \in {"DONE", "REMOTE_OFFER"}
    /\ \A m, o \in net : AskMsg(p, m) /\ AskMsg(p, o) => m = o

\* p owes an answer exactly while its negotiator holds a remote offer.
Exact(p) ==
    /\ owing[p] <=> neg[p].state = "REMOTE_OFFER"
    /\ OfferOpen(p) /\ AskOpen(p)

\* Every offer that is waited for is somewhere, in one place: with the peer's
\* application or in one message.  So no negotiator is left waiting for
\* nothing, and every message finds the negotiator it is meant for.
OffersExact == \A p \in Parties : Exact(p)

NegFields == {"state", "active_local", "active_remote", "neg_local",
              "neg_remote", "last_sent", "has_remote_answer", "maps"}

\* The part of the types the proofs need.
Shaped ==
    /\ DOMAIN neg = Parties /\ DOMAIN sent = Parties
    /\ \A p \in Parties :
          /\ DOMAIN neg[p] = NegFields
          /\ neg[p].state \in {"NULL", "LOCAL_OFFER", "REMOTE_OFFER", "DONE"}
    /\ asking \in [Parties -> BOOLEAN] /\ owing \in [Parties -> BOOLEAN]
    /\ \A m \in net : m.to \in Parties /\ m.kind \in Kinds

IsSdp(s) == DOMAIN s = {"version", "media"} /\ s.version \in Nat

\* Negotiator n remembers the last of the SDPs s it sent, and its active SDP
\* is at most one version behind it.  Why VersionsGrow is not inductive by
\* itself: a new offer is numbered after the active SDP, not after the last.
Dated(n, s) ==
    /\ DOMAIN s = 1..Len(s) /\ Len(s) \in Nat
    /\ n.state = "NULL" => s = <<>>
    /\ \A i \in 1..Len(s) : IsSdp(s[i])
    /\ n.last_sent = IF s = <<>> THEN NoSdp ELSE s[Len(s)]
    /\ n.state = "LOCAL_OFFER" => n.neg_local = n.last_sent /\ s # <<>>
    /\ \/ n.active_local = NoSdp /\ n.last_sent.version <= 1
       \/ /\ IsSdp(n.active_local) /\ s # <<>>
          /\ n.last_sent.version - n.active_local.version \in {0, 1}

VersionsKept == VersionsGrow /\ \A p \in Parties : Dated(neg[p], sent[p])

Inv == Shaped /\ OffersExact /\ VersionsKept

-----------------------------------------------------------------------------
(* What each function of the negotiator does to its state and versions.    *)

IsNeg(n) == DOMAIN n = NegFields

\* k has the SDPs of n that versions depend on.
Keeps(n, k) ==
    IsNeg(k) /\ k.active_local = n.active_local /\ k.last_sent = n.last_sent

\* cancel_offer and negotiate end in DONE and touch no SDP the versions
\* depend on.
LEMMA ClearedKeeps ==
    ASSUME NEW n, IsNeg(n)
    PROVE  Keeps(n, Cleared(n)) /\ Cleared(n).state = "DONE"
  BY DEF IsNeg, Keeps, Cleared, NegFields

\* set_remote_offer: the same, but it ends in REMOTE_OFFER.
LEMMA OfferKeeps ==
    ASSUME NEW n, IsNeg(n), NEW remote
    PROVE  /\ Keeps(n, SetRemoteOffer(n, remote))
           /\ SetRemoteOffer(n, remote).state = "REMOTE_OFFER"
  BY DEF IsNeg, Keeps, SetRemoteOffer, NegFields

\* set_remote_answer leaves what this side offered.
LEMMA AnswerKeeps ==
    ASSUME NEW n, IsNeg(n), NEW remote
    PROVE  /\ Keeps(n, SetRemoteAnswer(n, remote))
           /\ SetRemoteAnswer(n, remote).neg_local = n.neg_local
  BY DEF IsNeg, Keeps, SetRemoteAnswer, NegFields

\* set_local_answer gives the negotiator what the application answers.
LEMMA LocalAnswerKeeps ==
    ASSUME NEW n, IsNeg(n), NEW local
    PROVE  /\ Keeps(n, SetLocalAnswer(n, local))
           /\ SetLocalAnswer(n, local).neg_local = local
  BY DEF IsNeg, Keeps, SetLocalAnswer, NegFields

\* v is the last SDP sent, again, or the next version after base.
Follows(last, v, base) ==
    /\ IsSdp(v)
    /\ \/ v = last /\ v.version = base
       \/ v.version = base + 1

\* The version given to an SDP that is sent follows the base it is made from.
LEMMA VersionedFollows ==
    ASSUME NEW n, NEW base \in Nat, NEW media
    PROVE  Follows(n.last_sent, Versioned(n, base, media), base)
  BY DEF Versioned, IsSdp, Follows

\* The negotiators the INVITE session creates.
LEMMA CreatedNeg ==
    ASSUME NEW s
    PROVE  /\ IsNeg(NoNeg) /\ IsNeg(CreateWLocalOffer(s))
           /\ IsNeg(CreateWRemoteOffer(s))
           /\ CreateWLocalOffer(s).state = "LOCAL_OFFER"
           /\ CreateWLocalOffer(s).neg_local = s
           /\ CreateWLocalOffer(s).last_sent = s
           /\ CreateWLocalOffer(s).active_local = NoSdp
           /\ CreateWRemoteOffer(s).state = "REMOTE_OFFER"
           /\ Keeps(NoNeg, CreateWRemoteOffer(s))
           /\ NoNeg.state = "NULL" /\ NoNeg.last_sent = NoSdp
           /\ NoNeg.active_local = NoSdp
  BY DEF IsNeg, Keeps, CreateWLocalOffer, CreateWRemoteOffer, NoNeg, NegFields

\* What the version after SDP s is counted from.
BaseOf(s) == IF s = NoSdp THEN 0 ELSE s.version

\* k is n with a new offer, numbered after base.
Offering(n, k, base) ==
    /\ IsNeg(k) /\ k.state = "LOCAL_OFFER"
    /\ k.active_local = n.active_local
    /\ k.neg_local = k.last_sent
    /\ Follows(n.last_sent, k.last_sent, base)

\* modify_local_offer2 numbers the offer after the active SDP, or after the
\* application's when there is none.
LEMMA ModifyOffering ==
    ASSUME NEW n, IsNeg(n), NEW media,
           n.active_local = NoSdp \/ IsSdp(n.active_local)
    PROVE  Offering(n, ModifyLocalOffer(n, [version |-> 0, media |-> media]),
                    BaseOf(n.active_local))
  <1> DEFINE local == [version |-> 0, media |-> media]
             first == n.active_local = NoSdp
             base == BaseOf(n.active_local)
             fixed == IF first THEN local.media
                      ELSE MediaFixup(n.active_local.media, local.media)
             a == AssignPt(n.maps, fixed, TRUE)
             s == Versioned(n, base, a.media)
  <1>1. ModifyLocalOffer(n, local)
          = [n EXCEPT !.state = "LOCAL_OFFER", !.maps = a.maps,
                      !.neg_local = s, !.last_sent = s]
    BY DEF ModifyLocalOffer, BaseOf
  <1>2. base \in Nat
    BY DEF IsSdp, BaseOf
  <1> HIDE DEF a, base
  <1>3. Follows(n.last_sent, s, base)
    BY <1>2, VersionedFollows
  <1> HIDE DEF s
  <1>4. Offering(n, [n EXCEPT !.state = "LOCAL_OFFER", !.maps = a.maps,
                              !.neg_local = s, !.last_sent = s], base)
    BY <1>3 DEF Offering, IsNeg, NegFields
  <1> QED BY <1>1, <1>4 DEF base

\* send_local_offer numbers the offer after the active SDP it repeats.
LEMMA SendOffering ==
    ASSUME NEW n, IsNeg(n), IsSdp(n.active_local)
    PROVE  Offering(n, SendLocalOffer(n), n.active_local.version)
  <1> DEFINE s == Versioned(n, n.active_local.version, n.active_local.media)
  <1>1. SendLocalOffer(n)
          = [n EXCEPT !.state = "LOCAL_OFFER", !.neg_local = s, !.last_sent = s]
    BY DEF SendLocalOffer
  <1>2. n.active_local.version \in Nat
    BY DEF IsSdp
  <1>3. Follows(n.last_sent, s, n.active_local.version)
    BY <1>2, VersionedFollows
  <1> HIDE DEF s
  <1>4. Offering(n, [n EXCEPT !.state = "LOCAL_OFFER", !.neg_local = s,
                              !.last_sent = s], n.active_local.version)
    BY <1>3 DEF Offering, IsNeg, NegFields
  <1> QED BY <1>1, <1>4

\* negotiate with the remote's answer: whatever comes of the media, the
\* negotiator is DONE and what it then plays has the version it offered.
LEMMA AnswerNegotiated ==
    ASSUME NEW n, IsNeg(n), NEW remote, IsSdp(n.neg_local)
    PROVE  LET k == NegotiateAnswer(SetRemoteAnswer(n, remote)).neg
           IN /\ IsNeg(k) /\ k.state = "DONE" /\ k.last_sent = n.last_sent
              /\ \/ k.active_local = n.active_local
                 \/ /\ IsSdp(k.active_local)
                    /\ k.active_local.version = n.neg_local.version
  <1> DEFINE w == SetRemoteAnswer(n, remote)
             r == ProcessAnswer(w.neg_local.media, w.neg_remote.media)
             loc == [w.neg_local EXCEPT !.media = r.active]
             rem == [w.neg_remote EXCEPT !.media = r.remote]
             e == [w EXCEPT !.active_local = loc, !.active_remote = rem]
  <1>1. NegotiateAnswer(w).neg = IF r.status # "SUCCESS" THEN Cleared(w) ELSE Cleared(e)
    BY DEF NegotiateAnswer
  <1>2. Keeps(n, w) /\ w.neg_local = n.neg_local
    BY AnswerKeeps
  <1> HIDE DEF w, r
  <1>3. IsSdp(loc) /\ loc.version = n.neg_local.version
    BY <1>2 DEF IsSdp
  <1> HIDE DEF loc, rem
  <1>4. IsNeg(e) /\ e.active_local = loc /\ e.last_sent = n.last_sent
    BY <1>2 DEF IsNeg, Keeps, NegFields
  <1> HIDE DEF e
  <1>5. Keeps(e, Cleared(e)) /\ Cleared(e).state = "DONE"
    BY <1>4, ClearedKeeps
  <1>6. Keeps(w, Cleared(w)) /\ Cleared(w).state = "DONE"
    BY <1>2, ClearedKeeps DEF Keeps
  <1> QED BY <1>1, <1>2, <1>3, <1>4, <1>5, <1>6 DEF Keeps, w

\* negotiate with the remote's offer: the answer is numbered after the last
\* SDP that was sent, and a failure changes no SDP.
LEMMA OfferNegotiated ==
    ASSUME NEW n, IsNeg(n), NEW media,
           n.last_sent = NoSdp \/ IsSdp(n.last_sent)
    PROVE  LET r == Negotiated(n, media)
               base == BaseOf(n.last_sent)
           IN /\ IsNeg(r.neg) /\ r.neg.state = "DONE"
              /\ r.status # "SUCCESS" => Keeps(n, r.neg)
              /\ r.status = "SUCCESS" =>
                    /\ r.neg.active_local = r.neg.last_sent
                    /\ Follows(n.last_sent, r.neg.last_sent, base)
  <1> DEFINE local == [version |-> 0, media |-> media]
             w == SetLocalAnswer(n, local)
             c == CreateAnswer(PreferRemote, MultiCodec,
                               w.neg_local.media, w.neg_remote.media)
             a == AssignPt(w.maps, c.answer, FALSE)
             base == IF w.last_sent = NoSdp THEN w.neg_local.version
                     ELSE w.last_sent.version
             s == Versioned(w, base, a.media)
             e == [w EXCEPT !.maps = a.maps, !.last_sent = s, !.active_local = s,
                            !.active_remote = w.neg_remote]
             k == IF c.status # "SUCCESS" THEN Cleared(w) ELSE Cleared(e)
  <1>1. Negotiated(n, media) = [status |-> c.status, neg |-> k]
    BY DEF Negotiated, NegotiateOffer, Concluded, Adopt
  <1>2. Keeps(n, w) /\ w.neg_local = local
    BY LocalAnswerKeeps
  <1> HIDE DEF w, a, c
  <1>3. base = BaseOf(n.last_sent) /\ base \in Nat
    BY <1>2 DEF Keeps, IsSdp, BaseOf
  <1> HIDE DEF base
  <1>4. Follows(n.last_sent, s, base)
    BY <1>2, <1>3, VersionedFollows DEF Keeps
  <1> HIDE DEF s
  <1>5. IsNeg(e) /\ e.active_local = s /\ e.last_sent = s
    BY <1>2 DEF IsNeg, Keeps, NegFields
  <1> HIDE DEF e
  <1>6. Keeps(e, Cleared(e)) /\ Cleared(e).state = "DONE"
    BY <1>5, ClearedKeeps
  <1>7. Keeps(w, Cleared(w)) /\ Cleared(w).state = "DONE"
    BY <1>2, ClearedKeeps DEF Keeps
  <1>8. Negotiated(n, media).status = c.status /\ Negotiated(n, media).neg = k
    BY <1>1
  <1>9. CASE c.status = "SUCCESS"
    BY <1>9, <1>3, <1>4, <1>5, <1>6, <1>8 DEF Keeps
  <1>10. CASE c.status # "SUCCESS"
    BY <1>10, <1>2, <1>7, <1>8 DEF Keeps
  <1> QED BY <1>9, <1>10

\* sdp may be sent after the SDPs s.
NextVersion(s, sdp) ==
    s # <<>> => /\ s[Len(s)].version <= sdp.version
                /\ sdp.version <= s[Len(s)].version + 1

-----------------------------------------------------------------------------
(* The versions of what a side sent.                                       *)

\* A negotiator that keeps these SDPs keeps its relation to what it sent.
LEMMA DatedKeeps ==
    ASSUME NEW n, NEW s, NEW k, Dated(n, s), Keeps(n, k),
           k.state \in {"DONE", "REMOTE_OFFER"}
    PROVE  Dated(k, s)
  BY DEF Dated, Keeps

\* Append adds one element at the end.
LEMMA Appended ==
    ASSUME NEW s, NEW e, DOMAIN s = 1..Len(s), Len(s) \in Nat
    PROVE  /\ DOMAIN Append(s, e) = 1..Len(Append(s, e))
           /\ Len(Append(s, e)) = Len(s) + 1
           /\ \A i \in 1..Len(s) : Append(s, e)[i] = s[i]
           /\ Append(s, e)[Len(s) + 1] = e
           /\ Append(s, e) # <<>>
  OBVIOUS

\* An offer is a next version of what was sent, and the last of it.
LEMMA DatedOffering ==
    ASSUME NEW n, NEW s, NEW k, Dated(n, s),
           Offering(n, k, BaseOf(n.active_local))
    PROVE  Dated(k, Append(s, k.neg_local)) /\ NextVersion(s, k.neg_local)
  <1> DEFINE t == Append(s, k.neg_local)
  <1>0. DOMAIN s = 1..Len(s) /\ Len(s) \in Nat
    BY DEF Dated
  <1>1. /\ DOMAIN t = 1..Len(t)
        /\ Len(t) = Len(s) + 1
        /\ \A i \in 1..Len(s) : t[i] = s[i]
        /\ t[Len(s) + 1] = k.neg_local
        /\ t # <<>>
    BY <1>0, Appended
  <1> HIDE DEF t
  <1>2. \A i \in 1..Len(t) : IsSdp(t[i])
    BY <1>0, <1>1 DEF Dated, Offering, Follows
  <1>3. k.last_sent = t[Len(t)] /\ IsSdp(k.last_sent) /\ k.active_local = n.active_local
    BY <1>0, <1>1 DEF Offering, Follows
  <1>4. s # <<>> => Len(s) # 0
    BY DEF Dated
  <1>5. IF s = <<>> THEN n.last_sent.version = -1
        ELSE n.last_sent.version \in Nat /\ n.last_sent = s[Len(s)]
    BY <1>4 DEF Dated, IsSdp, NoSdp
  <1>6. NextVersion(s, k.neg_local)
    BY <1>5 DEF NextVersion, Dated, Offering, Follows, IsSdp, NoSdp, BaseOf
  <1>7. \/ k.active_local = NoSdp /\ k.last_sent.version <= 1
        \/ /\ IsSdp(k.active_local)
           /\ k.last_sent.version - k.active_local.version \in {0, 1}
    BY <1>5, <1>3 DEF Dated, Offering, Follows, IsSdp, BaseOf
  <1> QED
    BY <1>0, <1>1, <1>2, <1>3, <1>6, <1>7 DEF Dated, Offering, t

\* k is n with an answer of its own that became the active SDP.
Adopting(n, k) ==
    /\ IsNeg(k) /\ k.state = "DONE" /\ k.active_local = k.last_sent
    /\ Follows(n.last_sent, k.last_sent,
               BaseOf(n.last_sent))

\* So is an answer, which becomes active as well.
LEMMA DatedAdopting ==
    ASSUME NEW n, NEW s, NEW k, Dated(n, s), Adopting(n, k)
    PROVE  Dated(k, Append(s, k.active_local)) /\ NextVersion(s, k.active_local)
  <1> DEFINE t == Append(s, k.active_local)
  <1>0. DOMAIN s = 1..Len(s) /\ Len(s) \in Nat
    BY DEF Dated
  <1>1. /\ DOMAIN t = 1..Len(t)
        /\ Len(t) = Len(s) + 1
        /\ \A i \in 1..Len(s) : t[i] = s[i]
        /\ t[Len(s) + 1] = k.active_local
        /\ t # <<>>
    BY <1>0, Appended
  <1> HIDE DEF t
  <1>2. \A i \in 1..Len(t) : IsSdp(t[i])
    BY <1>0, <1>1 DEF Dated, Adopting, Follows
  <1>3. k.last_sent = t[Len(t)] /\ IsSdp(k.last_sent) /\ k.active_local = k.last_sent
    BY <1>0, <1>1 DEF Adopting, Follows
  <1>4. s # <<>> => Len(s) # 0
    BY DEF Dated
  <1>5. s # <<>> => /\ n.last_sent.version \in Nat /\ n.last_sent # NoSdp
                    /\ n.last_sent = s[Len(s)]
    BY <1>4 DEF Dated, IsSdp, NoSdp
  <1>6. NextVersion(s, k.active_local)
    BY <1>5 DEF NextVersion, Dated, Adopting, Follows, IsSdp, BaseOf
  <1>7. k.last_sent.version - k.active_local.version = 0
    BY <1>3 DEF IsSdp
  <1> QED
    BY <1>0, <1>1, <1>2, <1>3, <1>6, <1>7 DEF Dated, Adopting, t

\* An answered offer leaves the active SDP no further behind.
LEMMA DatedAnswered ==
    ASSUME NEW n, NEW s, NEW k, Dated(n, s), n.state = "LOCAL_OFFER",
           IsNeg(k), k.state = "DONE", k.last_sent = n.last_sent,
           \/ k.active_local = n.active_local
           \/ IsSdp(k.active_local) /\ k.active_local.version = n.neg_local.version
    PROVE  Dated(k, s)
  <1>1. CASE k.active_local = n.active_local
    BY <1>1 DEF Dated
  <1>2. CASE IsSdp(k.active_local) /\ k.active_local.version = n.neg_local.version
    BY <1>2 DEF Dated, IsSdp
  <1> QED BY <1>1, <1>2

\* What Dated says of the SDPs a negotiator holds.
LEMMA LastSent ==
    ASSUME NEW n, NEW s, Dated(n, s)
    PROVE  /\ n.last_sent = NoSdp \/ IsSdp(n.last_sent)
           /\ n.state = "LOCAL_OFFER" => IsSdp(n.neg_local)
           /\ n.active_local = NoSdp \/ IsSdp(n.active_local)
  <1>1. s # <<>> => Len(s) \in 1..Len(s)
    BY DEF Dated
  <1> QED BY <1>1 DEF Dated

\* A step of p that sends no SDP.
LEMMA QuietKept ==
    ASSUME Shaped, VersionsKept, NEW p \in Parties, NEW k,
           neg' = [neg EXCEPT ![p] = k], UNCHANGED sent, Dated(k, sent[p])
    PROVE  VersionsKept'
  <1>1. \A q \in Parties : Dated(neg[q]', sent[q]')
    BY DEF Shaped, VersionsKept
  <1>2. VersionsGrow'
    BY DEF VersionsKept, VersionsGrow
  <1> QED BY <1>1, <1>2 DEF VersionsKept

\* A step of p that sends one.
LEMMA SendsKept ==
    ASSUME Shaped, VersionsKept, NEW p \in Parties, NEW k, NEW sdp,
           neg' = [neg EXCEPT ![p] = k], Sends(p, sdp),
           Dated(k, Append(sent[p], sdp)), NextVersion(sent[p], sdp)
    PROVE  VersionsKept'
  <1>0. DOMAIN sent = Parties /\ DOMAIN neg = Parties
    BY DEF Shaped
  <1>1. /\ sent'[p] = Append(sent[p], sdp)
        /\ neg'[p] = k
        /\ \A q \in Parties \ {p} : sent'[q] = sent[q] /\ neg'[q] = neg[q]
    BY <1>0 DEF Sends
  <1>2. \A q \in Parties : Dated(neg'[q], sent'[q])
    BY <1>1 DEF VersionsKept
  <1>3. /\ DOMAIN sent[p] = 1..Len(sent[p]) /\ Len(sent[p]) \in Nat
        /\ sent[p] # <<>> => Len(sent[p]) # 0
    BY DEF VersionsKept, Dated
  <1>4. /\ Len(sent'[p]) = Len(sent[p]) + 1
        /\ \A i \in 1..Len(sent[p]) : sent'[p][i] = sent[p][i]
        /\ sent'[p][Len(sent[p]) + 1] = sdp
    BY <1>1, <1>3, Appended
  <1>5. ASSUME NEW q \in Parties, NEW i \in 1..Len(sent'[q]) - 1
        PROVE  /\ sent'[q][i].version <= sent'[q][i + 1].version
               /\ sent'[q][i + 1].version <= sent'[q][i].version + 1
    <2>1. CASE q # p
      BY <2>1, <1>1, <1>5 DEF VersionsKept, VersionsGrow
    <2>2. CASE q = p /\ i < Len(sent[p])
      <3>1. i \in 1..Len(sent[p]) - 1 /\ i \in 1..Len(sent[p]) /\ i + 1 \in 1..Len(sent[p])
        BY <2>2, <1>3
      <3> QED BY <2>2, <3>1, <1>4 DEF VersionsKept, VersionsGrow
    <2>3. CASE q = p /\ ~(i < Len(sent[p]))
      <3>1. i = Len(sent[p]) /\ sent[p] # <<>> /\ i \in 1..Len(sent[p])
        BY <2>3, <1>3, <1>4
      <3> QED BY <2>3, <3>1, <1>4 DEF NextVersion
    <2> QED BY <2>1, <2>2, <2>3
  <1> QED BY <1>2, <1>5 DEF VersionsKept, VersionsGrow

-----------------------------------------------------------------------------
(* Every step keeps the invariant.                                         *)

\* There are two parties.
LEMMA PeerFact ==
    ASSUME NEW p \in Parties
    PROVE  /\ Peer(p) \in Parties /\ Peer(p) # p /\ Peer(Peer(p)) = p
           /\ \A q \in Parties : q = p \/ q = Peer(p)
  BY DEF Peer, Parties

\* What a new message says.
LEMMA MsgFields ==
    ASSUME NEW p, NEW kind, NEW sdp
    PROVE  /\ Msg(p, kind, sdp).to = Peer(p) /\ Msg(p, kind, sdp).kind = kind
           /\ Msg(p, kind, sdp).sdp = sdp
  BY DEF Msg

\* The state after the first offer.
LEMMA InitInv == Init => Inv
  <1> SUFFICES ASSUME Init PROVE Inv
    OBVIOUS
  <1>1. PICK media \in Capabilities :
          LET sdp == [version |-> 0, media |-> media]
          IN /\ neg = [p \in Parties |-> IF p = "A" THEN CreateWLocalOffer(sdp)
                                       ELSE NoNeg]
             /\ asking = [p \in Parties |-> FALSE]
             /\ owing = [p \in Parties |-> FALSE]
             /\ net = {Msg("A", "offer", sdp)}
             /\ sent = [p \in Parties |-> IF p = "A" THEN <<sdp>> ELSE <<>>]
    BY DEF Init
  <1> DEFINE sdp == [version |-> 0, media |-> media]
  <1>2. IsSdp(sdp) /\ sdp.version = 0
    BY DEF IsSdp
  <1>3. /\ neg["A"] = CreateWLocalOffer(sdp) /\ neg["B"] = NoNeg
        /\ DOMAIN neg = Parties /\ DOMAIN sent = Parties
        /\ asking = [p \in Parties |-> FALSE]
        /\ owing = [p \in Parties |-> FALSE]
        /\ net = {Msg("A", "offer", sdp)}
        /\ sent["A"] = <<sdp>> /\ sent["B"] = <<>>
    BY <1>1 DEF Parties
  <1> HIDE DEF sdp
  <1>4. Shaped
    BY <1>3, CreatedNeg, MsgFields DEF Shaped, IsNeg, Parties, Peer, Kinds
  <1>5. OffersExact
    BY <1>3, CreatedNeg, MsgFields 
       DEF OffersExact, Exact, OfferOpen, AskOpen, OfferMsg, AskMsg, Parties, Peer
  <1>6. Dated(neg["A"], sent["A"])
    BY <1>2, <1>3, CreatedNeg DEF Dated, NoSdp
  <1>7. Dated(neg["B"], sent["B"])
    BY <1>3, CreatedNeg DEF Dated, NoSdp
  <1>8. VersionsKept
    BY <1>3, <1>6, <1>7 DEF VersionsKept, VersionsGrow, Parties
  <1> QED BY <1>4, <1>5, <1>8 DEF Inv

\* What the invariant says of one negotiator.
LEMMA NegFacts ==
    ASSUME Inv, NEW p \in Parties
    PROVE  /\ IsNeg(neg[p]) /\ Dated(neg[p], sent[p])
           /\ neg[p].last_sent = NoSdp \/ IsSdp(neg[p].last_sent)
           /\ neg[p].state = "LOCAL_OFFER" => IsSdp(neg[p].neg_local)
           /\ neg[p].active_local = NoSdp \/ IsSdp(neg[p].active_local)
  <1>1. IsNeg(neg[p]) /\ Dated(neg[p], sent[p])
    BY DEF Inv, Shaped, VersionsKept, IsNeg
  <1> QED BY <1>1, LastSent

\* A step that changes p's negotiator.
LEMMA ShapedKept ==
    ASSUME Shaped, NEW p \in Parties, NEW k, neg' = [neg EXCEPT ![p] = k],
           IsNeg(k), k.state \in {"NULL", "LOCAL_OFFER", "REMOTE_OFFER", "DONE"},
           asking' \in [Parties -> BOOLEAN], owing' \in [Parties -> BOOLEAN],
           DOMAIN sent' = Parties,
           \A m \in net' : m.to \in Parties /\ m.kind \in Kinds
    PROVE  Shaped'
  BY DEF Shaped, IsNeg

\* A re-INVITE or an UPDATE with an offer: the only one out, as the
\* negotiator was DONE.
LEMMA OfferKept ==
    ASSUME Inv, NEW p \in Parties, Offer(p)
    PROVE  Inv'
  <1>1. PICK media \in Capabilities :
          LET n == ModifyLocalOffer(neg[p], [version |-> 0, media |-> media])
          IN /\ neg' = [neg EXCEPT ![p] = n]
             /\ net' = net \cup {Msg(p, "offer", n.neg_local)}
             /\ Sends(p, n.neg_local)
    BY DEF Offer
  <1> DEFINE k == ModifyLocalOffer(neg[p], [version |-> 0, media |-> media])
             m1 == Msg(p, "offer", k.neg_local)
  <1>2. /\ neg' = [neg EXCEPT ![p] = k] /\ net' = net \cup {m1}
        /\ Sends(p, k.neg_local) /\ UNCHANGED <<asking, owing>>
        /\ neg[p].state = "DONE" /\ ~asking[p]
    BY <1>1 DEF Offer
  <1>3. Offering(neg[p], k, BaseOf(neg[p].active_local))
    BY NegFacts, ModifyOffering
  <1>4. m1.to = Peer(p) /\ m1.kind = "offer"
    BY MsgFields
  <1> HIDE DEF k, m1
  <1>5. IsNeg(k) /\ k.state = "LOCAL_OFFER"
    BY <1>3 DEF Offering
  <1>6. Shaped'
    BY <1>2, <1>4, <1>5, PeerFact, ShapedKept, ZenonT(60) DEF Inv, Shaped, Kinds, Sends
  <1>7. OffersExact'
    <2>1. SUFFICES ASSUME NEW q \in Parties
                   PROVE  Exact(q)'
      BY DEF OffersExact
    <2>2. CASE q = p
      BY <2>2, <1>2, <1>4, <1>5, PeerFact
         DEF Inv, Shaped, OffersExact, Exact, OfferOpen, AskOpen, OfferMsg, AskMsg
    <2>3. CASE q = Peer(p)
      BY <2>3, <1>2, <1>4, <1>5, PeerFact
         DEF Inv, Shaped, OffersExact, Exact, OfferOpen, AskOpen, OfferMsg, AskMsg
    <2> QED BY <2>2, <2>3, PeerFact
  <1>8. VersionsKept'
    BY <1>2, <1>3, NegFacts, DatedOffering, SendsKept DEF Inv
  <1> QED BY <1>6, <1>7, <1>8 DEF Inv

\* A re-INVITE without SDP.
LEMMA AskOfferKept ==
    ASSUME Inv, NEW p \in Parties, AskOffer(p)
    PROVE  Inv'
  <1> DEFINE m1 == Msg(p, "invite", NoSdp)
  <1>1. /\ asking' = [asking EXCEPT ![p] = TRUE] /\ net' = net \cup {m1}
        /\ UNCHANGED <<neg, owing, sent>>
        /\ neg[p].state = "DONE" /\ ~asking[p]
    BY DEF AskOffer
  <1>2. m1.to = Peer(p) /\ m1.kind = "invite"
    BY MsgFields
  <1> HIDE DEF m1
  <1>3. Shaped'
    BY <1>1, <1>2, PeerFact DEF Inv, Shaped, Kinds
  <1>4. OffersExact'
    <2>1. SUFFICES ASSUME NEW q \in Parties
                   PROVE  Exact(q)'
      BY DEF OffersExact
    <2>2. CASE q = p
      BY <2>2, <1>1, <1>2, PeerFact
         DEF Inv, Shaped, OffersExact, Exact, OfferOpen, AskOpen, OfferMsg, AskMsg
    <2>3. CASE q = Peer(p)
      BY <2>3, <1>1, <1>2, PeerFact
         DEF Inv, Shaped, OffersExact, Exact, OfferOpen, AskOpen, OfferMsg, AskMsg
    <2> QED BY <2>2, <2>3, PeerFact
  <1>5. VersionsKept'
    BY <1>1 DEF Inv, VersionsKept, VersionsGrow
  <1> QED BY <1>3, <1>4, <1>5 DEF Inv

\* An offer that arrives is held by the application or rejected.
LEMMA RxOfferKept ==
    ASSUME Inv, NEW p \in Parties, NEW m \in net, RxOffer(p, m)
    PROVE  Inv'
  <1> DEFINE k == IF neg[p].state = "NULL" THEN CreateWRemoteOffer(m.sdp)
                  ELSE SetRemoteOffer(neg[p], m.sdp)
             m1 == Msg(p, "reject", NoSdp)
  <1>1. m.to = p /\ m.kind = "offer" /\ UNCHANGED <<asking, sent>>
    BY DEF RxOffer
  <1>2. CASE /\ neg[p].state \in {"NULL", "DONE"}
             /\ neg' = [neg EXCEPT ![p] = k]
             /\ owing' = [owing EXCEPT ![p] = TRUE]
             /\ net' = net \ {m}
    <2>1. IsNeg(k) /\ k.state = "REMOTE_OFFER" /\ Dated(k, sent[p])
      <3>1. CASE neg[p].state = "NULL"
        <4>1. sent[p] = <<>> /\ k = CreateWRemoteOffer(m.sdp)
          BY <3>1, NegFacts DEF Dated
        <4> QED BY <4>1, CreatedNeg DEF Dated, Keeps, NoSdp
      <3>2. CASE neg[p].state # "NULL"
        BY <3>2, NegFacts, OfferKeeps, DatedKeeps DEF Keeps
      <3> QED BY <3>1, <3>2
    <2> HIDE DEF k
    <2>2. Shaped'
      BY <1>1, <1>2, <2>1, ShapedKept DEF Inv, Shaped
    <2>3. OffersExact'
      <3>1. SUFFICES ASSUME NEW q \in Parties
                     PROVE  Exact(q)'
        BY DEF OffersExact
      <3>2. CASE q = p
        BY <3>2, <1>1, <1>2, <2>1, PeerFact
         DEF Inv, Shaped, OffersExact, Exact, OfferOpen, AskOpen, OfferMsg, AskMsg
      <3>3. CASE q = Peer(p)
        BY <3>3, <1>1, <1>2, <2>1, PeerFact
         DEF Inv, Shaped, OffersExact, Exact, OfferOpen, AskOpen, OfferMsg, AskMsg
      <3> QED BY <3>2, <3>3, PeerFact
    <2>4. VersionsKept'
      BY <1>1, <1>2, <2>1, QuietKept DEF Inv
    <2> QED BY <2>2, <2>3, <2>4 DEF Inv
  <1>3. CASE /\ neg[p].state \notin {"NULL", "DONE"} \/ asking[p]
             /\ net' = (net \ {m}) \cup {m1} /\ UNCHANGED <<neg, owing>>
    <2>1. m1.to = Peer(p) /\ m1.kind = "reject"
      BY MsgFields
    <2> HIDE DEF m1
    <2>2. Shaped'
      BY <1>1, <1>3, <2>1, PeerFact DEF Inv, Shaped, Kinds
    <2>3. OffersExact'
      <3>1. SUFFICES ASSUME NEW q \in Parties
                     PROVE  Exact(q)'
        BY DEF OffersExact
      <3>2. CASE q = p
        BY <3>2, <1>1, <1>3, <2>1, PeerFact
         DEF Inv, Shaped, OffersExact, Exact, OfferOpen, AskOpen, OfferMsg, AskMsg
      <3>3. CASE q = Peer(p)
        BY <3>3, <1>1, <1>3, <2>1, PeerFact
         DEF Inv, Shaped, OffersExact, Exact, OfferOpen, AskOpen, OfferMsg, AskMsg
      <3> QED BY <3>2, <3>3, PeerFact
    <2>4. VersionsKept'
      BY <1>1, <1>3 DEF Inv, VersionsKept, VersionsGrow
    <2> QED BY <2>2, <2>3, <2>4 DEF Inv
  <1> QED BY <1>2, <1>3 DEF RxOffer, Send

\* The application's answer, or the rejection when it does not match, is the
\* one reply to the offer.
LEMMA AnswerKept ==
    ASSUME Inv, NEW p \in Parties, Answer(p)
    PROVE  Inv'
  <1>1. PICK media \in Capabilities :
          \E r \in {Negotiated(neg[p], media)} :
          /\ neg' = [neg EXCEPT ![p] = r.neg]
          /\ IF r.status = "SUCCESS"
             THEN /\ net' = net \cup {Msg(p, "answer", r.neg.active_local)}
                  /\ Sends(p, r.neg.active_local)
             ELSE net' = net \cup {Msg(p, "reject", NoSdp)} /\ UNCHANGED sent
    BY DEF Answer
  <1> DEFINE r == Negotiated(neg[p], media)
             k == r.neg
             m1 == IF r.status = "SUCCESS" THEN Msg(p, "answer", k.active_local)
                   ELSE Msg(p, "reject", NoSdp)
  <1>2. /\ neg' = [neg EXCEPT ![p] = k] /\ net' = net \cup {m1}
        /\ IF r.status = "SUCCESS" THEN Sends(p, k.active_local) ELSE UNCHANGED sent
        /\ owing' = [owing EXCEPT ![p] = FALSE] /\ UNCHANGED asking
        /\ neg[p].state = "REMOTE_OFFER" /\ owing[p]
    BY <1>1 DEF Answer
  <1>3. /\ IsNeg(k) /\ k.state = "DONE"
        /\ r.status # "SUCCESS" => Keeps(neg[p], k)
        /\ r.status = "SUCCESS" => Adopting(neg[p], k)
    BY NegFacts, OfferNegotiated DEF Adopting
  <1>4. m1.to = Peer(p) /\ m1.kind \in {"answer", "reject"}
    BY MsgFields
  <1> HIDE DEF r, m1
  <1>5. Shaped'
    BY <1>2, <1>3, <1>4, PeerFact, ShapedKept, ZenonT(30) DEF Inv, Shaped, Kinds, Sends
  <1>6. OffersExact'
    <2>1. SUFFICES ASSUME NEW q \in Parties
                   PROVE  Exact(q)'
      BY DEF OffersExact
    <2>2. CASE q = p
      BY <2>2, <1>2, <1>3, <1>4, PeerFact
         DEF Inv, Shaped, OffersExact, Exact, OfferOpen, AskOpen, OfferMsg, AskMsg
    <2>3. CASE q = Peer(p)
      BY <2>3, <1>2, <1>3, <1>4, PeerFact
         DEF Inv, Shaped, OffersExact, Exact, OfferOpen, AskOpen, OfferMsg, AskMsg
    <2> QED BY <2>2, <2>3, PeerFact
  <1>7. VersionsKept'
    <2>1. CASE r.status = "SUCCESS"
      BY <2>1, <1>2, <1>3, NegFacts, DatedAdopting, SendsKept DEF Inv
    <2>2. CASE r.status # "SUCCESS"
      BY <2>2, <1>2, <1>3, NegFacts, DatedKeeps, QuietKept DEF Inv
    <2> QED BY <2>1, <2>2
  <1> QED BY <1>5, <1>6, <1>7 DEF Inv

\* So is a rejection.
LEMMA RejectOfferKept ==
    ASSUME Inv, NEW p \in Parties, RejectOffer(p)
    PROVE  Inv'
  <1> DEFINE k == CancelOffer(neg[p])
             m1 == Msg(p, "reject", NoSdp)
  <1>1. /\ neg' = [neg EXCEPT ![p] = k] /\ net' = net \cup {m1}
        /\ owing' = [owing EXCEPT ![p] = FALSE] /\ UNCHANGED <<asking, sent>>
        /\ neg[p].state = "REMOTE_OFFER" /\ owing[p]
    BY DEF RejectOffer
  <1>2. Keeps(neg[p], k) /\ k.state = "DONE"
    BY NegFacts, ClearedKeeps DEF CancelOffer
  <1>3. m1.to = Peer(p) /\ m1.kind = "reject"
    BY MsgFields
  <1> HIDE DEF k, m1
  <1>4. Shaped'
    BY <1>1, <1>2, <1>3, PeerFact, ShapedKept DEF Inv, Shaped, Kinds, Keeps
  <1>5. OffersExact'
    <2>1. SUFFICES ASSUME NEW q \in Parties
                   PROVE  Exact(q)'
      BY DEF OffersExact
    <2>2. CASE q = p
      BY <2>2, <1>1, <1>2, <1>3, PeerFact
         DEF Inv, Shaped, OffersExact, Exact, OfferOpen, AskOpen, OfferMsg, AskMsg
    <2>3. CASE q = Peer(p)
      BY <2>3, <1>1, <1>2, <1>3, PeerFact
         DEF Inv, Shaped, OffersExact, Exact, OfferOpen, AskOpen, OfferMsg, AskMsg
    <2> QED BY <2>2, <2>3, PeerFact
  <1>6. VersionsKept'
    BY <1>1, <1>2, NegFacts, DatedKeeps, QuietKept DEF Inv
  <1> QED BY <1>4, <1>5, <1>6 DEF Inv

\* The one reply to p's offer is taken off the network.
LEMMA OfferSettled ==
    ASSUME Inv, NEW p \in Parties, NEW m \in net, NEW k,
           m.to = p, m.kind \in {"answer", "reject", "ack"},
           neg[p].state = "LOCAL_OFFER",
           neg' = [neg EXCEPT ![p] = k], net' = net \ {m},
           UNCHANGED <<asking, owing, sent>>,
           IsNeg(k), k.state = "DONE", Dated(k, sent[p])
    PROVE  Inv'
  <1>4. Shaped'
    BY ShapedKept DEF Inv, Shaped
  <1>5. OffersExact'
    <2>1. SUFFICES ASSUME NEW q \in Parties
                   PROVE  Exact(q)'
      BY DEF OffersExact
    <2>2. CASE q = p
      BY <2>2, PeerFact
         DEF Inv, Shaped, OffersExact, Exact, OfferOpen, AskOpen, OfferMsg, AskMsg
    <2>3. CASE q = Peer(p)
      BY <2>3, PeerFact
         DEF Inv, Shaped, OffersExact, Exact, OfferOpen, AskOpen, OfferMsg, AskMsg
    <2> QED BY <2>2, <2>3, PeerFact
  <1>6. VersionsKept'
    BY QuietKept DEF Inv
  <1> QED BY <1>4, <1>5, <1>6 DEF Inv

\* A rejected offer leaves the negotiator DONE with the versions it had.
LEMMA OfferCancelled ==
    ASSUME Inv, NEW p \in Parties
    PROVE  LET k == CancelOffer(neg[p])
           IN IsNeg(k) /\ k.state = "DONE" /\ Dated(k, sent[p])
  BY NegFacts, ClearedKeeps, DatedKeeps DEF CancelOffer, Keeps

\* An answered one too, whether or not the negotiation succeeds.
LEMMA OfferAnswered ==
    ASSUME Inv, NEW p \in Parties, neg[p].state = "LOCAL_OFFER", NEW sdp
    PROVE  LET k == NegotiateAnswer(SetRemoteAnswer(neg[p], sdp)).neg
           IN IsNeg(k) /\ k.state = "DONE" /\ Dated(k, sent[p])
  <1> DEFINE k == NegotiateAnswer(SetRemoteAnswer(neg[p], sdp)).neg
  <1>1. /\ IsNeg(k) /\ k.state = "DONE" /\ k.last_sent = neg[p].last_sent
        /\ \/ k.active_local = neg[p].active_local
           \/ IsSdp(k.active_local) /\ k.active_local.version = neg[p].neg_local.version
    BY NegFacts, AnswerNegotiated
  <1> HIDE DEF k
  <1>2. Dated(k, sent[p])
    BY <1>1, NegFacts, DatedAnswered
  <1> QED BY <1>1, <1>2 DEF k

\* The 200 to an offer.
LEMMA RxAnswerKept ==
    ASSUME Inv, NEW p \in Parties, NEW m \in net, RxAnswer(p, m)
    PROVE  Inv'
  BY OfferAnswered, OfferSettled DEF RxAnswer

\* A failure response to an offer.
LEMMA RxRejectKept ==
    ASSUME Inv, NEW p \in Parties, NEW m \in net, RxReject(p, m)
    PROVE  Inv'
  BY OfferCancelled, OfferSettled DEF RxReject

\* An ACK, with or without the answer.
LEMMA RxAckKept ==
    ASSUME Inv, NEW p \in Parties, NEW m \in net, RxAck(p, m)
    PROVE  Inv'
  <1>1. CASE m.sdp = NoSdp
    BY <1>1, OfferCancelled, OfferSettled DEF RxAck
  <1>2. CASE m.sdp # NoSdp
    BY <1>2, OfferAnswered, OfferSettled DEF RxAck
  <1> QED BY <1>1, <1>2

\* An INVITE without SDP becomes the offer of its 200, or is refused.
LEMMA RxInviteKept ==
    ASSUME Inv, NEW p \in Parties, NEW m \in net, RxInvite(p, m)
    PROVE  Inv'
  <1> DEFINE k == SendLocalOffer(neg[p])
             m1 == Msg(p, "offer200", k.neg_local)
             m2 == Msg(p, "refuse", NoSdp)
  <1>1. m.to = p /\ m.kind = "invite" /\ UNCHANGED <<asking, owing>>
    BY DEF RxInvite
  <1>2. CASE /\ neg[p].state = "DONE" /\ ~asking[p]
             /\ neg[p].active_local # NoSdp
             /\ neg' = [neg EXCEPT ![p] = k]
             /\ net' = (net \ {m}) \cup {m1}
             /\ Sends(p, k.neg_local)
    <2>1. IsSdp(neg[p].active_local)
      BY <1>2, NegFacts
    <2>2. Offering(neg[p], k, BaseOf(neg[p].active_local))
      BY <1>2, <2>1, NegFacts, SendOffering DEF BaseOf
    <2>3. m1.to = Peer(p) /\ m1.kind = "offer200"
      BY MsgFields
    <2> HIDE DEF k, m1
    <2>4. IsNeg(k) /\ k.state = "LOCAL_OFFER"
      BY <2>2 DEF Offering
    <2>5. Shaped'
      BY <1>1, <1>2, <2>3, <2>4, PeerFact, ShapedKept, ZenonT(30) DEF Inv, Shaped, Kinds, Sends
    <2>6. OffersExact'
      <3>1. SUFFICES ASSUME NEW q \in Parties
                     PROVE  Exact(q)'
        BY DEF OffersExact
      <3>2. CASE q = p
        BY <3>2, <1>1, <1>2, <2>3, <2>4, PeerFact
         DEF Inv, Shaped, OffersExact, Exact, OfferOpen, AskOpen, OfferMsg, AskMsg
      <3>3. CASE q = Peer(p)
        BY <3>3, <1>1, <1>2, <2>3, <2>4, PeerFact
         DEF Inv, Shaped, OffersExact, Exact, OfferOpen, AskOpen, OfferMsg, AskMsg
      <3> QED BY <3>2, <3>3, PeerFact
    <2>7. VersionsKept'
      BY <1>2, <2>2, NegFacts, DatedOffering, SendsKept DEF Inv
    <2> QED BY <2>5, <2>6, <2>7 DEF Inv
  <1>3. CASE net' = (net \ {m}) \cup {m2} /\ UNCHANGED <<neg, sent>>
    <2>1. m2.to = Peer(p) /\ m2.kind = "refuse"
      BY MsgFields
    <2> HIDE DEF m2
    <2>2. Shaped'
      BY <1>1, <1>3, <2>1, PeerFact DEF Inv, Shaped, Kinds
    <2>3. OffersExact'
      <3>1. SUFFICES ASSUME NEW q \in Parties
                     PROVE  Exact(q)'
        BY DEF OffersExact
      <3>2. CASE q = p
        BY <3>2, <1>1, <1>3, <2>1, PeerFact
         DEF Inv, Shaped, OffersExact, Exact, OfferOpen, AskOpen, OfferMsg, AskMsg
      <3>3. CASE q = Peer(p)
        BY <3>3, <1>1, <1>3, <2>1, PeerFact
         DEF Inv, Shaped, OffersExact, Exact, OfferOpen, AskOpen, OfferMsg, AskMsg
      <3> QED BY <3>2, <3>3, PeerFact
    <2>4. VersionsKept'
      BY <1>1, <1>3 DEF Inv, VersionsKept, VersionsGrow
    <2> QED BY <2>2, <2>3, <2>4 DEF Inv
  <1> QED BY <1>2, <1>3 DEF RxInvite, Send

\* The refusal of p's INVITE without SDP.
LEMMA RxRefuseKept ==
    ASSUME Inv, NEW p \in Parties, NEW m \in net, RxRefuse(p, m)
    PROVE  Inv'
  <1>1. /\ m.to = p /\ m.kind = "refuse"
        /\ asking' = [asking EXCEPT ![p] = FALSE]
        /\ net' = net \ {m} /\ UNCHANGED <<neg, owing, sent>>
    BY DEF RxRefuse
  <1>2. Shaped'
    BY <1>1 DEF Inv, Shaped
  <1>3. OffersExact'
    <2>1. SUFFICES ASSUME NEW q \in Parties
                   PROVE  Exact(q)'
      BY DEF OffersExact
    <2>2. CASE q = p
      BY <2>2, <1>1, PeerFact
         DEF Inv, Shaped, OffersExact, Exact, OfferOpen, AskOpen, OfferMsg, AskMsg
    <2>3. CASE q = Peer(p)
      BY <2>3, <1>1, PeerFact
         DEF Inv, Shaped, OffersExact, Exact, OfferOpen, AskOpen, OfferMsg, AskMsg
    <2> QED BY <2>2, <2>3, PeerFact
  <1>4. VersionsKept'
    BY <1>1 DEF Inv, VersionsKept, VersionsGrow
  <1> QED BY <1>2, <1>3, <1>4 DEF Inv

\* The offer of a 200 was answered by an ACK: p is DONE when it arrives, as
\* neither a local nor a remote offer can be open at p then.
LEMMA RxOffer200Kept ==
    ASSUME Inv, NEW p \in Parties, NEW m \in net, RxOffer200(p, m)
    PROVE  Inv'
  <1> DEFINE n == SetRemoteOffer(neg[p], m.sdp)
  <1>1. PICK media \in Capabilities :
          \E r \in {Negotiated(n, media)} :
          /\ neg' = [neg EXCEPT ![p] = r.neg]
          /\ IF r.status = "SUCCESS"
             THEN Send(p, m, "ack", r.neg.active_local) /\ Sends(p, r.neg.active_local)
             ELSE Send(p, m, "ack", NoSdp) /\ UNCHANGED sent
    BY DEF RxOffer200
  <1> DEFINE r == Negotiated(n, media)
             k == r.neg
             m1 == IF r.status = "SUCCESS" THEN Msg(p, "ack", k.active_local)
                   ELSE Msg(p, "ack", NoSdp)
  <1>2. /\ neg' = [neg EXCEPT ![p] = k] /\ net' = (net \ {m}) \cup {m1}
        /\ IF r.status = "SUCCESS" THEN Sends(p, k.active_local) ELSE UNCHANGED sent
        /\ asking' = [asking EXCEPT ![p] = FALSE] /\ UNCHANGED owing
        /\ m.to = p /\ m.kind = "offer200" /\ neg[p].state = "DONE"
    BY <1>1 DEF RxOffer200, Send
  <1>3. Keeps(neg[p], n) /\ n.state = "REMOTE_OFFER" /\ Dated(n, sent[p])
    BY NegFacts, OfferKeeps, DatedKeeps
  <1> HIDE DEF n
  <1>4. IsNeg(n) /\ (n.last_sent = NoSdp \/ IsSdp(n.last_sent))
    BY <1>3, NegFacts DEF Keeps
  <1>5. /\ IsNeg(k) /\ k.state = "DONE"
        /\ r.status # "SUCCESS" => Keeps(n, k)
        /\ r.status = "SUCCESS" => Adopting(n, k)
    BY <1>4, OfferNegotiated DEF Adopting
  <1>6. m1.to = Peer(p) /\ m1.kind = "ack"
    BY MsgFields
  <1> HIDE DEF r, m1
  <1>7. Shaped'
    BY <1>2, <1>5, <1>6, PeerFact, ShapedKept DEF Inv, Shaped, Kinds, Sends
  <1>8. OffersExact'
    <2>1. SUFFICES ASSUME NEW q \in Parties
                   PROVE  Exact(q)'
      BY DEF OffersExact
    <2>2. CASE q = p
      BY <2>2, <1>2, <1>5, <1>6, PeerFact
         DEF Inv, Shaped, OffersExact, Exact, OfferOpen, AskOpen, OfferMsg, AskMsg
    <2>3. CASE q = Peer(p)
      BY <2>3, <1>2, <1>5, <1>6, PeerFact
         DEF Inv, Shaped, OffersExact, Exact, OfferOpen, AskOpen, OfferMsg, AskMsg
    <2> QED BY <2>2, <2>3, PeerFact
  <1>9. VersionsKept'
    <2>1. CASE r.status = "SUCCESS"
      BY <2>1, <1>2, <1>3, <1>5, DatedAdopting, SendsKept DEF Inv
    <2>2. CASE r.status # "SUCCESS"
      BY <2>2, <1>2, <1>3, <1>5, DatedKeeps, QuietKept DEF Inv
    <2> QED BY <2>1, <2>2
  <1> QED BY <1>7, <1>8, <1>9 DEF Inv

-----------------------------------------------------------------------------
(* The theorems.                                                           *)

\* The invariant holds: every offer and every INVITE without SDP that is
\* waited for is in exactly one place, whatever crosses it.
THEOREM Invariance == Spec => []Inv
  <1>1. Inv /\ [Next]_vars => Inv'
    <2> SUFFICES ASSUME Inv, [Next]_vars
                 PROVE  Inv'
      OBVIOUS
    <2>1. CASE UNCHANGED vars
      BY <2>1 DEF vars, Inv, Shaped, OffersExact, Exact, OfferOpen, AskOpen,
         OfferMsg, AskMsg, VersionsKept, VersionsGrow
    <2>2. ASSUME NEW p \in Parties, NEW m \in net, Receive(p, m)
          PROVE  Inv'
      BY <2>2, RxOfferKept, RxAnswerKept, RxRejectKept, RxInviteKept,
         RxRefuseKept, RxOffer200Kept, RxAckKept DEF Receive
    <2> QED
      BY <2>1, <2>2, OfferKept, AskOfferKept, AnswerKept, RejectOfferKept DEF Next
  <1> QED BY <1>1, InitInv, PTL DEF Spec

\* No offer and no INVITE without SDP is ever waited for in vain, answered
\* twice or left with an application that owes nothing (sip_inv.c, crossing
\* INVITEs and UPDATEs).
THEOREM OffersAccounted == Spec => []OffersExact
  BY Invariance, PTL DEF Inv

\* sdp_neg.c asserts the state of the negotiator in set_remote_answer,
\* negotiate and cancel_offer: the assertions hold for every answer,
\* rejection, 200 and ACK that arrives, in whatever order.
THEOREM RepliesAlwaysAwaited == Spec => []RepliesAwaited
  <1>1. Inv => RepliesAwaited
    <2> SUFFICES ASSUME Inv, NEW m \in net
                 PROVE  /\ m.kind \in {"answer", "reject", "ack"}
                           => neg[m.to].state = "LOCAL_OFFER"
                        /\ m.kind = "offer200" => neg[m.to].state = "DONE"
      BY DEF RepliesAwaited
    <2>1. m.to \in Parties
      BY DEF Inv, Shaped
    <2>2. Peer(Peer(m.to)) = m.to /\ Peer(m.to) \in Parties
      BY <2>1, PeerFact
    <2> QED
      BY <2>1, <2>2 DEF Inv, OffersExact, Exact, OfferOpen, AskOpen, OfferMsg, AskMsg
  <1> QED BY <1>1, Invariance, PTL

\* The version in the origin line of what a side sends is that of the SDP
\* before it or the next one, through offers, answers, rejections, failed
\* negotiations and offers made again (RFC 3264 section 8).
THEOREM VersionsNeverSkip == Spec => []VersionsGrow
  BY Invariance, PTL DEF Inv, VersionsKept

=============================================================================
