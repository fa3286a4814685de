----------------------------- MODULE MCSdpMedia -----------------------------
(***************************************************************************)
(* The media line algorithms of SdpMedia compared with what they are for,  *)
(* stated on sets of codecs: one state per offered line, local line and    *)
(* setting of the negotiator, and one step that answers the offer and      *)
(* gives the answer to the offerer.                                        *)
(***************************************************************************)
EXTENDS SdpMedia

CONSTANTS MaxFmt,   \* bound: formats of a line
          Dirs      \* the directions tried

VARIABLES offer, local, prefer, multi,
          reply,    \* what match_offer returned
          result    \* what process_m_answer returned
vars == <<offer, local, prefer, multi, reply, result>>

MCCodecs == {"pcmu", "opus", "speex", "te8", "te48"}
MCTelEvents == {"te8", "te48"}
MCClockRate ==
    [c \in MCCodecs |-> IF c \in {"opus", "te48"} THEN 48000 ELSE 8000]
MCDirs == {SendRecv, {"send"}}

\* The two sides number the dynamic codecs differently.
OfferPt == [pcmu |-> 0, opus |-> 96, speex |-> 97, te8 |-> 98, te48 |-> 99]
LocalPt == [pcmu |-> 0, opus |-> 97, speex |-> 96, te8 |-> 99, te48 |-> 98]

CodecLists == {s \in UNION {[1..n -> Codecs] : n \in 1..MaxFmt} :
                  \A i, j \in DOMAIN s : s[i] = s[j] => i = j}

Lines(pt) == {[type |-> "audio", port |-> TRUE, dir |-> d,
               fmt |-> [i \in DOMAIN s |-> [pt |-> pt[s[i]], codec |-> s[i]]]] :
              d \in Dirs, s \in CodecLists}

None == [status |-> "none"]

Init == /\ offer \in Lines(OfferPt) /\ local \in Lines(LocalPt)
        /\ prefer \in BOOLEAN /\ multi \in BOOLEAN
        /\ reply = None /\ result = None

Next == /\ reply = None
        /\ reply' = MatchOffer(prefer, multi, offer, local)
        /\ result' = IF reply'.status = "SUCCESS"
                     THEN ProcessMAnswer(offer, reply'.answer) ELSE None
        /\ UNCHANGED <<offer, local, prefer, multi>>

Spec == Init /\ [][Next]_vars

CodecsOf(m) == [i \in DOMAIN m.fmt |-> m.fmt[i].codec]

Common == ToSet(CodecsOf(offer)) \cap ToSet(CodecsOf(local))
Master == CodecsOf(IF prefer THEN offer ELSE local)

\* The codecs answered with: all that are common, or the first of them.
Chosen ==
    LET common == SelectSeq(Master, LAMBDA c : c \in Common \ TelEvents)
    IN IF multi \/ common = <<>> THEN ToSet(common) ELSE {Head(common)}

\* The telephone-events: those with the rate of a chosen codec, else one.
Tel ==
    LET common == SelectSeq(Master, LAMBDA c : c \in Common \cap TelEvents)
        kept == {c \in ToSet(common) :
                    \E d \in Chosen : ClockRate[c] = ClockRate[d]}
    IN IF kept # {} \/ common = <<>> THEN kept ELSE {Head(common)}

\* match_offer answers with a codec of the offer that is also local, chosen
\* in the master's order, and with the telephone-events that go with it,
\* under the numbers of the offer; it fails exactly when the master has
\* codecs and none is common.
AnswerIsReference ==
    reply # None =>
        IF Common \subseteq TelEvents /\ ~(ToSet(Master) \subseteq TelEvents)
        THEN reply.status = "NOANSCODEC"
        ELSE /\ reply.status = "SUCCESS"
             /\ ToSet(CodecsOf(reply.answer)) = Chosen \cup Tel
             /\ \A f \in ToSet(reply.answer.fmt) : f.pt = OfferPt[f.codec]
             /\ SelectSeq(CodecsOf(reply.answer), LAMBDA c : c \in Chosen)
                    = SelectSeq(Master, LAMBDA c : c \in Chosen)

\* The offerer accepts every answer that was made from its offer, and both
\* sides then use the same codecs in the same order, in opposite directions.
AnswerIsAccepted ==
    (result # None /\ reply.answer.fmt # <<>>) =>
        /\ result.status = "SUCCESS"
        /\ result.answer = reply.answer
        /\ CodecsOf(result.offer) = CodecsOf(reply.answer)
        /\ result.offer.dir = Mirror(reply.answer.dir)

=============================================================================
