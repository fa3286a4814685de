--------------------------- MODULE MCSdpExchange ---------------------------
(***************************************************************************)
(* Instances of SdpExchange: a static codec, two dynamic ones of different *)
(* rates and telephone-events, and sessions of one and of two lines.       *)
(***************************************************************************)
EXTENDS SdpExchange

MCCodecs == {"pcmu", "opus", "speex", "te8", "h263"}
MCTelEvents == {"te8"}
MCClockRate == [c \in MCCodecs |-> IF c = "opus" THEN 48000 ELSE 8000]

F(pt, codec) == [pt |-> pt, codec |-> codec]
Line(type, dir, fmt) ==
    [type |-> type, port |-> TRUE, dir |-> dir, fmt |-> fmt]

AudioAll == Line("audio", SendRecv,
                 <<F(0, "pcmu"), F(96, "opus"), F(99, "te8")>>)
AudioOther == Line("audio", SendRecv,
                   <<F(96, "speex"), F(97, "opus"), F(0, "pcmu")>>)
AudioSpeex == Line("audio", SendRecv, <<F(96, "speex")>>)
AudioHold == [AudioAll EXCEPT !.dir = {"send"}]
Video == Line("video", SendRecv, <<F(34, "h263")>>)

Audio == {<<AudioAll>>, <<AudioOther>>, <<AudioSpeex>>, <<AudioHold>>}
Media == {<<AudioAll>>, <<AudioSpeex, AudioHold>>, <<Video, AudioAll>>}
AudioAndLines == Media \cup {<<AudioOther>>, <<AudioHold>>}

=============================================================================
