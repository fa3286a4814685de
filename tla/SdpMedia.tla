------------------------------ MODULE SdpMedia ------------------------------
(***************************************************************************)
(* The algorithms of sdp_neg.c: how one media line of an offer is matched  *)
(* with one of an answer, how an answer is made from an offer, and how     *)
(* dynamic payload type numbers are assigned to codecs.                    *)
(*                                                                         *)
(* A media line is [type, port, dir, fmt]: port says whether the port is   *)
(* not zero, dir is the subset of {"send", "recv"} the direction attribute *)
(* stands for, and fmt lists the formats, each [pt, codec] with the codec  *)
(* of its rtpmap.  Connection lines, transports, fmtp parameters, channel  *)
(* counts, non-numeric formats and the format matching callbacks are left  *)
(* out; the rtpmap attributes are taken in the order of the formats.       *)
(***************************************************************************)
EXTENDS Integers, SequencesExt

CONSTANTS Codecs,      \* encoding names
          TelEvents,   \* those that are "telephone-event"
          ClockRate,   \* of each codec
          LastPT,      \* the largest dynamic payload type
          TelPT        \* PJMEDIA_RTP_PT_TELEPHONE_EVENTS

START_DYNAMIC_PT == 96

ASSUME CodecsAssumption ==
    /\ TelEvents \subseteq Codecs
    /\ ClockRate \in [Codecs -> Nat]
    /\ LastPT \in Nat /\ TelPT \in START_DYNAMIC_PT..LastPT

SendRecv == {"send", "recv"}

Mirror(dir) == {d \in SendRecv : (SendRecv \ {d}) \cap dir # {}}

\* Fault: what the remote sends the local side sends too.
UnmirroredDirection(remote, local) ==
    [local EXCEPT !.dir = @ \cap remote.dir]

\* update_media_direction: what the remote does not do, the local side drops.
UpdateMediaDirection(remote, local) ==
    [local EXCEPT !.dir = @ \cap Mirror(remote.dir)]

\* Fault: a deactivated line is given a direction of its own.
DeactivatedInactive(m) ==
    [type |-> m.type, port |-> FALSE, dir |-> {"inactive"}, fmt |-> <<>>]

\* A media line with port zero; nothing reads what else it says.
Deactivated(m) ==
    [type |-> m.type, port |-> FALSE, dir |-> SendRecv, fmt |-> <<>>]

\* Static payload types are compared by number, dynamic ones by codec.
SameFormat(f, g) ==
    IF f.pt < START_DYNAMIC_PT THEN g.pt = f.pt ELSE g.codec = f.codec

\* The position of the first format of s that matches f, 0 for none.
MatchOf(f, s) == SelectInSeq(s, LAMBDA g : SameFormat(f, g))

-----------------------------------------------------------------------------
(* The offerer's side: an answer arrives. *)

\* The positions of the answer's formats that some format of the offer wants.
Wanted(offer, answer) ==
    SelectSeq([j \in 1..Len(answer.fmt) |-> j],
              LAMBDA j : \E i \in 1..Len(offer.fmt) :
                             MatchOf(offer.fmt[i], answer.fmt) = j)

\* Both lists keep the formats they have in common, in the answer's order.
ProcessMAnswer(offer, answer) ==
    LET res(st, o, a) == [status |-> st, offer |-> o, answer |-> a]
        o1 == UpdateMediaDirection(answer, offer)
        js == Wanted(offer, answer)
        of(j) == CHOOSE i \in 1..Len(offer.fmt) :
                            MatchOf(offer.fmt[i], answer.fmt) = j
    IN CASE answer.type # offer.type -> res("EINVANSMEDIA", offer, answer)
         [] answer.type = offer.type /\ ~answer.port ->
                res("SUCCESS", Deactivated(offer), answer)
         [] answer.type = offer.type /\ answer.port /\ ~offer.port ->
                res("SUCCESS", offer, answer)
         [] OTHER ->
                res(IF js = <<>> THEN "EANSNOMEDIA" ELSE "SUCCESS",
                    [o1 EXCEPT !.fmt =
                        [k \in 1..Len(js) |-> offer.fmt[of(js[k])]]],
                    [answer EXCEPT !.fmt =
                        [k \in 1..Len(js) |-> answer.fmt[js[k]]]])

\* One media line of the offer.  A line of the answer that has another type
\* is left for the next line of the offer.
AnswerStep(acc, m) ==
    IF acc.ami > Len(acc.answer)
    THEN [acc EXCEPT !.offer = Append(@, Deactivated(m)),
                     !.answer = Append(@, Deactivated(m)), !.ami = @ + 1]
    ELSE LET r == ProcessMAnswer(m, acc.answer[acc.ami])
             o == IF r.status = "SUCCESS" THEN r.offer ELSE Deactivated(m)
             a == IF r.status = "SUCCESS" THEN r.answer
                  ELSE Deactivated(acc.answer[acc.ami])
         IN IF r.status = "EINVANSMEDIA"
            THEN [acc EXCEPT !.offer = Append(@, o)]
            ELSE [offer |-> Append(acc.offer, o),
                  answer |-> [acc.answer EXCEPT ![acc.ami] = a],
                  ami |-> acc.ami + 1,
                  has_active |-> acc.has_active \/ o.port]

ProcessAnswer(offer, answer) ==
    LET r == FoldLeft(AnswerStep,
                      [offer |-> <<>>, answer |-> answer, ami |-> 1,
                       has_active |-> FALSE], offer)
    IN [status |-> IF r.has_active THEN "SUCCESS" ELSE "ENOMEDIA",
        active |-> r.offer, remote |-> r.answer]

-----------------------------------------------------------------------------
(* The answerer's side: an answer is made from the local capability. *)

IsTelEvent(f) == f.pt >= START_DYNAMIC_PT /\ f.codec \in TelEvents

\* One format f of the master's list.  A codec is taken if more than one may
\* be answered or none was yet, a telephone-event if its rate is new.
MatchStep(acc, f, slave, prefer, multi) ==
    LET j == MatchOf(f, slave)
        g == slave[j]
        pair == IF prefer THEN [offer |-> f, answer |-> g]
                          ELSE [offer |-> g, answer |-> f]
        static == f.pt < START_DYNAMIC_PT
        rate == IF static THEN 8000 ELSE ClockRate[f.codec]
        with(p) == [acc EXCEPT !.pairs = Append(@, p)]
    IN IF IsTelEvent(f)
       THEN IF j = 0 \/ rate \in acc.tel THEN acc
            ELSE [with(pair) EXCEPT !.tel = @ \cup {rate}]
       ELSE IF j = 0 \/ (~multi /\ acc.found)
            THEN [acc EXCEPT !.has_codec = TRUE]
            ELSE [with(IF static THEN [offer |-> g, answer |-> g] ELSE pair)
                    EXCEPT !.has_codec = TRUE, !.found = TRUE,
                           !.rates = @ \cup {rate}]

\* Fault: telephone-events are kept whatever their rate.
KeepAllTelEvents(pairs, rates) == pairs

\* Telephone-events are kept for the rates of the chosen codecs; when none
\* has such a rate, the first one is put back at the end.
KeepTelEvents(pairs, rates) ==
    LET tel(p) == IsTelEvent(p.answer)
        kept == SelectSeq(pairs,
                    LAMBDA p : tel(p) => ClockRate[p.answer.codec] \in rates)
        first == SelectInSeq(pairs, tel)
    IN IF first # 0 /\ SelectInSeq(kept, tel) = 0
       THEN Append(kept, pairs[first]) ELSE kept

\* apply_answer_symmetric_pt: the answer uses the numbers of the offer.
SymmetricPt(pairs) ==
    [k \in 1..Len(pairs) |->
        [pt |-> pairs[k].offer.pt, codec |-> pairs[k].answer.codec]]

\* The answer to an active offer whose matches are m.
Matched(m, offer, preanswer) ==
    IF m.has_codec /\ ~m.found
    THEN [status |-> "NOANSCODEC", answer |-> preanswer]
    ELSE [status |-> "SUCCESS",
          answer |-> UpdateMediaDirection(offer,
              [preanswer EXCEPT !.fmt = SymmetricPt(KeepTelEvents(m.pairs, m.rates))])]

MatchOffer(prefer, multi, offer, preanswer) ==
    LET master == IF prefer THEN offer ELSE preanswer
        slave == IF prefer THEN preanswer ELSE offer
    IN IF ~offer.port THEN [status |-> "SUCCESS", answer |-> Deactivated(offer)]
       ELSE IF ~preanswer.port THEN [status |-> "SUCCESS", answer |-> preanswer]
       ELSE Matched(FoldLeft(LAMBDA acc, f :
                                 MatchStep(acc, f, slave.fmt, prefer, multi),
                             [pairs |-> <<>>, rates |-> {}, tel |-> {},
                              found |-> FALSE, has_codec |-> FALSE], master.fmt),
                    offer, preanswer)

\* One media line om of the offer is answered with the first unused local
\* line that matches it, and is rejected when there is none.  The status
\* keeps the last mismatch, of whatever line.
\* tries: what match_offer returns for each of those lines.
AnswerLine(acc, om, tries) ==
    LET good == {j \in DOMAIN tries : tries[j].status = "SUCCESS"}
        j == Min(good)
        missed == {k \in DOMAIN tries : \A g \in good : k < g}
        am == IF good = {} THEN Deactivated(om) ELSE tries[j].answer
    IN [used |-> acc.used \cup IF good = {} THEN {} ELSE {j},
        media |-> Append(acc.media, am),
        has_active |-> acc.has_active \/ am.port,
        status |-> IF missed = {} THEN acc.status ELSE tries[Max(missed)].status]

CreateStep(acc, om, prefer, multi, initial) ==
    AnswerLine(acc, om,
        [j \in {i \in 1..Len(initial) : initial[i].type = om.type
                                       /\ i \notin acc.used} |->
            MatchOffer(prefer, multi, om, initial[j])])

\* The status that is left is that of pjmedia_sdp_validate when nothing
\* failed to match: an answer without an active line may be a success.
AnswerMade(r) ==
    [status |-> IF r.has_active THEN "SUCCESS" ELSE r.status, answer |-> r.media]

CreateAnswer(prefer, multi, initial, offer) ==
    AnswerMade(FoldLeft(LAMBDA acc, om :
                            CreateStep(acc, om, prefer, multi, initial),
                        [used |-> {}, media |-> <<>>, has_active |-> FALSE,
                         status |-> "SUCCESS"], offer))

-----------------------------------------------------------------------------
(* Payload type numbers: per media line, the codec each number was used    *)
(* for and the number each codec has ("none" and 0 when never mapped).     *)

DynamicPT == START_DYNAMIC_PT..LastPT

NoMapping == [pt_to_codec |-> [p \in DynamicPT |-> "none"],
              codec_to_pt |-> [c \in Codecs |-> 0]]

\* The unused number that comes first from start on: one of the codec's own,
\* else one never mapped, else any.
FindNewPt(map, used, codec) ==
    LET start == IF codec \in TelEvents THEN TelPT ELSE START_DYNAMIC_PT
        after(p) == IF p >= start THEN p - start
                    ELSE p + LastPT + 1 - START_DYNAMIC_PT - start
        free == DynamicPT \ used
        own == {p \in free : map.pt_to_codec[p] = codec}
        new == {p \in free : map.pt_to_codec[p] = "none"}
        best == IF own # {} THEN own ELSE IF new # {} THEN new ELSE free
    IN CHOOSE p \in best : \A q \in best : after(p) <= after(q)

\* Fault: a number that belongs to another codec is given away.
AssignForgetful(acc, f, is_offer) ==
    [acc EXCEPT !.fmt = Append(@, f), !.used = @ \cup {f.pt}]

\* One rtpmap of a media line, of format f.
AssignStep(acc, f, is_offer) ==
    LET pc == acc.map.pt_to_codec[f.pt]
        cp == acc.map.codec_to_pt[f.codec]
        need == pc \notin {"none", f.codec} \/ f.pt \in acc.used
        keep == cp # 0 /\ cp \notin acc.used /\ (need \/ is_offer)
        new == CASE keep -> cp
                 [] ~keep /\ need -> FindNewPt(acc.map, acc.used, f.codec)
                 [] OTHER -> f.pt
    IN IF f.pt < START_DYNAMIC_PT
       THEN [acc EXCEPT !.fmt = Append(@, f)]
       ELSE [map |-> [pt_to_codec |-> [acc.map.pt_to_codec EXCEPT ![new] = f.codec],
                      codec_to_pt |-> [acc.map.codec_to_pt EXCEPT ![f.codec] = new]],
             used |-> acc.used \cup {new},
             fmt |-> Append(acc.fmt, [f EXCEPT !.pt = new])]

\* assign_pt_and_update_map for the line m with the mapping map: the line
\* that is sent and the new mapping.  This build has video.
AssignLine(map, m, is_offer) ==
    LET r == FoldLeft(LAMBDA acc, f : AssignStep(acc, f, is_offer),
                      [map |-> map, used |-> {}, fmt |-> <<>>], m.fmt)
    IN IF ~m.port THEN [map |-> NoMapping, media |-> m]
       ELSE IF m.type \notin {"audio", "video"} THEN [map |-> map, media |-> m]
       ELSE [map |-> r.map, media |-> [m EXCEPT !.fmt = r.fmt]]

AssignPt(maps, media, is_offer) ==
    LET line(i) == AssignLine(maps[i], media[i], is_offer)
    IN [media |-> [i \in 1..Len(media) |-> line(i).media],
        maps |-> [i \in 1..Len(maps) |->
                     IF i <= Len(media) THEN line(i).map ELSE maps[i]]]

=============================================================================
