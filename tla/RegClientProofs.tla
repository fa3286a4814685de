-------------------------- MODULE RegClientProofs --------------------------
(***************************************************************************)
(* Proofs about RegClient, for any number of users' threads, workers and   *)
(* sessions, any codes, and sends that fail or do not: has_tsx says        *)
(* exactly whether a session has a request, the count of users is that of  *)
(* the threads that hold a reference, and no session is freed under one.   *)
(*                                                                         *)
(* A step changes one thread's stack and one session.  What the invariant  *)
(* says of a session it says of the places in the stacks that have to do   *)
(* with it, so the proof follows how a step moves these places.            *)
(***************************************************************************)
EXTENDS RegClient, FiniteSetTheorems, TLAPS

-----------------------------------------------------------------------------
(* The stacks.                                                             *)

Fns == {"set", "send", "tsx", "refresh", "del", "retry"}
Pcs == {"begin", "start", "out", "back", "sent", "tsx_cb", "handle", "call",
        "dec", "flag", "ref", "register", "free"}

FrameType ==
    [fn : Fns, pc : Pcs, r : Regc \cup {None}, unreg : BOOLEAN,
     code : {0, 200, 400, 401, 403, 423, 503}, status : {"ok", "error", "EBUSY"},
     exp : BOOLEAN, is_unreg : BOOLEAN]

\* Frame f may be the i-th of a stack, above b.
Fits(f, i, b) ==
    CASE f.fn = "set" ->
           \/ i = 1 /\ f.pc = "begin" /\ f.r = None
           \/ /\ f.pc \in {"sent", "flag"} /\ f.r # None
              /\ i = 1 \/ (i = 2 /\ b.fn \in {"del", "retry"})
      [] f.fn = "send" ->
           /\ f.pc \in {"start", "out", "back"} /\ f.r # None /\ f.r = b.r
           /\ f.status \in {"ok", "error"} /\ (f.pc # "back" => f.status = "ok")
           /\ \/ i = 2 /\ b.fn \in {"set", "tsx", "refresh"}
              \/ i = 3 /\ b.fn = "set"
      [] f.fn = "tsx" ->
           /\ f.pc \in {"start", "tsx_cb", "handle", "sent", "call", "dec", "flag"}
           /\ f.r # None
           /\ \/ i = 1
              \/ /\ i \in {3, 4} /\ b.fn = "send" /\ f.r = b.r /\ f.pc # "sent"
                 /\ f.pc \in {"start", "tsx_cb", "handle"} => f.code = 503
      [] f.fn = "refresh" ->
           /\ i = 1 /\ f.r # None
           /\ f.pc \in {"ref", "register", "sent", "call", "dec", "flag"}
      [] f.fn = "del" ->
           /\ i = 1 /\ f.pc \in {"sent", "flag", "free"}
           /\ f.pc # "sent" => f.r # None
      [] f.fn = "retry" -> i = 1 /\ f.pc \in {"begin", "sent"}

\* A function that called another one waits for it to return; only a send
\* that failed is called back.
Waits(f) ==
    \/ f.fn # "send" /\ f.pc = "sent"
    \/ f.fn = "send" /\ f.pc = "back" /\ f.status = "error"

\* The frame under the i-th, if there is one.
Under(s, i) == IF i > 1 THEN s[i - 1] ELSE s[i]

Stack(s) ==
    /\ s \in Seq(FrameType) /\ Len(s) <= 4
    /\ \A i \in 1..Len(s) : Fits(s[i], i, Under(s, i)) /\ (i < Len(s) => Waits(s[i]))

-----------------------------------------------------------------------------
(* The places that have to do with a session.                              *)

\* use: holds a reference; firm: one that was taken in time; ask: a request on
\* its way out or a response not looked at; out: the former of the two; fail:
\* a request that could not be sent, not taken back yet.
In(c, f) ==
    CASE c = "use" ->
           \/ f.fn = "send" /\ f.pc \in {"out", "back"}
           \/ f.fn = "tsx" /\ f.pc \in {"tsx_cb", "handle", "sent", "call", "dec"}
           \/ f.fn = "refresh" /\ f.pc \in {"register", "sent", "call", "dec"}
           \/ f.fn = "set" /\ f.pc = "sent"
      [] c = "firm" ->
           \/ f.fn = "send" /\ f.pc \in {"out", "back"}
           \/ f.fn = "tsx" /\ f.pc \in {"tsx_cb", "handle", "sent", "call", "dec"}
           \/ f.fn = "refresh" /\ f.pc \in {"sent", "call", "dec"}
           \/ f.fn = "set" /\ f.pc = "sent"
      [] c = "ask" -> \/ f.fn = "send" /\ f.pc = "out"
                      \/ f.fn = "tsx" /\ f.pc = "start"
      [] c = "out" -> f.fn = "send" /\ f.pc = "out"
      [] c = "fail" -> f.fn = "send" /\ f.pc = "back" /\ f.status = "error"

Spots(s, c, r) == {i \in 1..Len(s) : In(c, s[i]) /\ s[i].r = r}

Places(k, c, r) == {h \in Thread \X (1..4) : h[2] \in Spots(k[h[1]], c, r)}

Sent(n, r) == {q \in n : q.r = r}

-----------------------------------------------------------------------------
(* The invariant.                                                          *)

\* Session s whose places are U, F, A, O, B and whose requests are N.  A live
\* session counts its users; it has one request at most, and has_tsx exactly
\* while it has one or the send that failed is still to take it back, which
\* that send knows by cseq.
Sound(s, U, F, A, O, B, N) ==
    /\ s.live =>
          /\ IsFiniteSet(U) /\ s.busy = Cardinality(U)
          /\ \A a, b \in A : a = b
          /\ \A p, q \in N : p = q
          /\ A = {} \/ N = {}
          /\ A # {} \/ N # {} => s.has_tsx
          /\ s.has_tsx => A # {} \/ N # {} \/ s.cseq \in B
          /\ \A h \in O : s.cseq = h
          /\ s.cseq \in B =>
                N = {} /\ \A a \in A : a = <<s.cseq[1], s.cseq[2] + 1>>
    /\ ~s.live => F = {} /\ A = {} /\ N = {}

\* s as session r of world w.
SoundIn(s, w, r) ==
    Sound(s, Places(w.stk, "use", r), Places(w.stk, "firm", r),
          Places(w.stk, "ask", r), Places(w.stk, "out", r),
          Places(w.stk, "fail", r), Sent(w.net, r))

Sessions(w) == \A r \in Regc : SoundIn(w.reg[r], w, r)

\* The account's session lives, and is not to be deleted.
Usable(w) == w.acc.regc # None => w.reg[w.acc.regc].live
                                  /\ ~w.reg[w.acc.regc].delete_flag

\* The threads that keep PJSUA_LOCK from one step to the next.
Based(s) == /\ s # <<>>
            /\ s[1].fn = "del" \/ (s[1].fn = "retry" /\ s[1].pc = "sent")

Flagging(s) == s # <<>> /\ Last(s).fn = "set" /\ Last(s).pc = "flag"

Owned(w, p) == \A t \in Thread : Based(w.stk[t]) \/ Flagging(w.stk[t]) <=> p = t

\* pjsua_acc_del has looked at session r, and not acted on it yet.
Deleting(s, r) ==
    s # <<>> /\ s[1].fn = "del" /\ s[1].pc \in {"flag", "free"} /\ s[1].r = r

\* Only a refresh timer's callback may use session r.
Spare(w, r) ==
    /\ ~w.reg[r].has_tsx /\ Sent(w.net, r) = {}
    /\ Places(w.stk, "firm", r) = {} /\ Places(w.stk, "ask", r) = {}

\* The session it looked at is locked and lives.
Deletes(w) ==
    \A r \in Regc :
        /\ w.reg[r].lock <=> \E t \in Thread : Deleting(w.stk[t], r)
        /\ \A t \in Thread : Deleting(w.stk[t], r) =>
              w.reg[r].live /\ (w.stk[t][1].pc = "free" => Spare(w, r))

AccType == [valid : BOOLEAN, regc : Regc \cup {None}, retry : BOOLEAN,
            active : BOOLEAN, told : BOOLEAN, refused : BOOLEAN]
Request == [r : Regc, unreg : BOOLEAN]

WorldType ==
    [reg : [Regc -> SessionType], acc : AccType, stk : [Thread -> Seq(FrameType)],
     net : SUBSET Request, pjsua : Thread \cup {None}]

\* World w, with PJSUA_LOCK held by p.
Good(w, p) ==
    /\ w \in WorldType /\ p \in Thread \cup {None}
    /\ \A t \in Thread : Stack(w.stk[t])
    /\ Sessions(w) /\ Usable(w) /\ Owned(w, p) /\ Deletes(w)

Inv == Good(World, pjsua)

-----------------------------------------------------------------------------
(* What a step writes.                                                     *)

Swap(f, x, v) == [f EXCEPT ![x] = v]

\* The stacks, when the one of t becomes s.
LEMMA StkSwap ==
    ASSUME NEW k, NEW t, NEW s, k \in [Thread -> Seq(FrameType)], t \in Thread
    PROVE  /\ Swap(k, t, s)[t] = s
           /\ \A u \in Thread : u # t => Swap(k, t, s)[u] = k[u]
           /\ s \in Seq(FrameType) => Swap(k, t, s) \in [Thread -> Seq(FrameType)]
  BY DEF Swap

\* The later of two writes counts.
LEMMA StkTwice ==
    ASSUME NEW k, NEW t, NEW u, NEW s, k \in [Thread -> Seq(FrameType)], t \in Thread
    PROVE  Swap(Swap(k, t, u), t, s) = Swap(k, t, s)
  BY DEF Swap

\* Writing what is there changes nothing.
LEMMA StkSame ==
    ASSUME NEW k, NEW t, k \in [Thread -> Seq(FrameType)], t \in Thread
    PROVE  Swap(k, t, k[t]) = k
  BY DEF Swap

\* The sessions, when r becomes s.
LEMMA RegSwap ==
    ASSUME NEW g, NEW r, NEW s, g \in [Regc -> SessionType], r \in Regc
    PROVE  /\ Swap(g, r, s)[r] = s
           /\ \A q \in Regc : q # r => Swap(g, r, s)[q] = g[q]
           /\ s \in SessionType => Swap(g, r, s) \in [Regc -> SessionType]
  BY DEF Swap

\* The later of two writes counts.
LEMMA RegTwice ==
    ASSUME NEW g, NEW r, NEW u, NEW s, g \in [Regc -> SessionType], r \in Regc
    PROVE  Swap(Swap(g, r, u), r, s) = Swap(g, r, s)
  BY DEF Swap

\* Writing what is there changes nothing.
LEMMA RegSame ==
    ASSUME NEW g, NEW r, g \in [Regc -> SessionType], r \in Regc
    PROVE  Swap(g, r, g[r]) = g
  BY DEF Swap

\* The fields of a world.
LEMMA WorldFields ==
    ASSUME NEW w, w \in WorldType
    PROVE  /\ w.reg \in [Regc -> SessionType] /\ w.acc \in AccType
           /\ w.stk \in [Thread -> Seq(FrameType)] /\ w.net \subseteq Request
           /\ w.pjsua \in Thread \cup {None}
  BY DEF WorldType

\* The stack of t is s, the rest is as it was.
OnlyStk(w, n, t, s) ==
    /\ n \in WorldType /\ n.stk = Swap(w.stk, t, s)
    /\ n.reg = w.reg /\ n.acc = w.acc /\ n.net = w.net /\ n.pjsua = w.pjsua

\* A push changes one stack.
LEMMA PushIs ==
    ASSUME NEW w, NEW t, NEW f, w \in WorldType, t \in Thread, f \in FrameType
    PROVE  OnlyStk(w, Push(w, t, f), t, Append(w.stk[t], f))
  <1>1. Append(w.stk[t], f) \in Seq(FrameType)
    BY WorldFields
  <1> QED BY <1>1 DEF WorldType, Push, OnlyStk, Swap

\* A sequence without its last element.
LEMMA FrontFacts ==
    ASSUME NEW T, NEW s, s \in Seq(T), s # <<>>
    PROVE  /\ Front(s) \in Seq(T) /\ Len(Front(s)) = Len(s) - 1
           /\ \A i \in 1..(Len(s) - 1) : Front(s)[i] = s[i]
           /\ Len(s) \in Nat \ {0} /\ Last(s) = s[Len(s)] /\ Last(s) \in T
  <1>1. Len(s) \in Nat \ {0}
    OBVIOUS
  <1>2. Front(s) = [i \in 1..(Len(s) - 1) |-> s[i]]
    BY <1>1 DEF Front
  <1>3. \A i \in 1..Len(s) : s[i] \in T
    OBVIOUS
  <1>4. Len(s) - 1 \in Nat /\ \A i \in 1..(Len(s) - 1) : i \in 1..Len(s)
    BY <1>1
  <1>5. [i \in 1..(Len(s) - 1) |-> s[i]] \in Seq(T)
    BY <1>3, <1>4
  <1>6. Len(Front(s)) = Len(s) - 1
    BY <1>2, <1>4
  <1> QED BY <1>1, <1>2, <1>3, <1>5, <1>6 DEF Last

\* A sequence with one element more.
LEMMA AppendFacts ==
    ASSUME NEW T, NEW s, NEW f, s \in Seq(T), f \in T
    PROVE  /\ Append(s, f) \in Seq(T) /\ Len(Append(s, f)) = Len(s) + 1
           /\ \A i \in 1..Len(s) : Append(s, f)[i] = s[i]
           /\ Append(s, f)[Len(s) + 1] = f /\ Append(s, f) # <<>>
           /\ Last(Append(s, f)) = f /\ Len(s) \in Nat
  <1>1. /\ Append(s, f) \in Seq(T) /\ Len(Append(s, f)) = Len(s) + 1
        /\ Len(s) \in Nat
    OBVIOUS
  <1>2. \A i \in 1..Len(s) : Append(s, f)[i] = s[i]
    OBVIOUS
  <1>3. Append(s, f)[Len(s) + 1] = f
    OBVIOUS
  <1> QED BY <1>1, <1>2, <1>3 DEF Last

\* Front takes away what Append added.
LEMMA FrontAppend ==
    ASSUME NEW T, NEW s, NEW f, s \in Seq(T), f \in T
    PROVE  Front(Append(s, f)) = s
  <1> DEFINE a == Append(s, f)
  <1>1. /\ a \in Seq(T) /\ Len(a) = Len(s) + 1 /\ Len(s) \in Nat
        /\ \A i \in 1..Len(s) : a[i] = s[i]
    BY AppendFacts
  <1> HIDE DEF a
  <1>2. a # <<>> /\ Len(a) - 1 = Len(s)
    BY <1>1
  <1>3. /\ Front(a) \in Seq(T) /\ Len(Front(a)) = Len(s)
        /\ \A i \in 1..Len(s) : Front(a)[i] = s[i]
    BY <1>1, <1>2, FrontFacts
  <1>4. Front(a) = s
    BY <1>3
  <1> QED BY <1>4 DEF a

\* A pop changes one stack.
LEMMA PopIs ==
    ASSUME NEW w, NEW t, w \in WorldType, t \in Thread, w.stk[t] # <<>>
    PROVE  OnlyStk(w, Pop(w, t), t, Front(w.stk[t]))
  <1>1. Front(w.stk[t]) \in Seq(FrameType)
    BY WorldFields, FrontFacts
  <1> QED BY <1>1 DEF WorldType, Pop, OnlyStk, Swap

\* f instead of the top.
Turned(s, f) == Append(Front(s), f)

\* Another frame at the top changes one stack.
LEMMA PutIs ==
    ASSUME NEW w, NEW t, NEW f, w \in WorldType, t \in Thread, w.stk[t] # <<>>,
           f \in FrameType
    PROVE  OnlyStk(w, Put(w, t, f), t, Turned(w.stk[t], f))
  <1> DEFINE v == Pop(w, t)
  <1>1. OnlyStk(w, v, t, Front(w.stk[t]))
    BY PopIs
  <1>2. Put(w, t, f) = Push(v, t, f)
    BY DEF Put
  <1> HIDE DEF v
  <1>3. v \in WorldType /\ v.stk[t] = Front(w.stk[t])
    BY <1>1, WorldFields, StkSwap DEF OnlyStk
  <1>4. OnlyStk(v, Put(w, t, f), t, Turned(w.stk[t], f))
    BY <1>2, <1>3, PushIs DEF Turned
  <1>5. Swap(v.stk, t, Turned(w.stk[t], f)) = Swap(w.stk, t, Turned(w.stk[t], f))
    BY <1>1, WorldFields, StkTwice DEF OnlyStk
  <1> QED BY <1>1, <1>4, <1>5 DEF OnlyStk

\* A write of a session changes nothing else.
LEMMA WithRegIs ==
    ASSUME NEW w, NEW r, NEW s, w \in WorldType, r \in Regc, s \in SessionType
    PROVE  LET n == WithReg(w, r, s)
           IN /\ n \in WorldType /\ n.reg = Swap(w.reg, r, s)
              /\ n.acc = w.acc /\ n.stk = w.stk /\ n.net = w.net /\ n.pjsua = w.pjsua
  BY DEF WorldType, WithReg, Swap

\* A write of the account changes nothing else.
LEMMA WithAccIs ==
    ASSUME NEW w, NEW a, w \in WorldType, a \in AccType
    PROVE  LET n == WithAcc(w, a)
           IN /\ n \in WorldType /\ n.acc = a
              /\ n.reg = w.reg /\ n.stk = w.stk /\ n.net = w.net /\ n.pjsua = w.pjsua
  BY DEF WorldType, WithAcc

\* A write of the requests changes nothing else.
LEMMA WithNetIs ==
    ASSUME NEW w, NEW m, w \in WorldType, m \subseteq Request
    PROVE  LET n == WithNet(w, m)
           IN /\ n \in WorldType /\ n.net = m
              /\ n.reg = w.reg /\ n.stk = w.stk /\ n.acc = w.acc /\ n.pjsua = w.pjsua
  BY DEF WorldType, WithNet

\* Taking or giving up PJSUA_LOCK changes nothing else.
LEMMA WithPjsuaIs ==
    ASSUME NEW w, NEW t, w \in WorldType, t \in Thread \cup {None}
    PROVE  LET n == WithPjsua(w, t)
           IN /\ n \in WorldType /\ n.pjsua = t
              /\ n.reg = w.reg /\ n.stk = w.stk /\ n.acc = w.acc /\ n.net = w.net
  BY DEF WorldType, WithPjsua

-----------------------------------------------------------------------------
(* What that does to the places of a session.                              *)

Stks == [Thread -> Seq(FrameType)]

\* Place h is added to the places, or taken from them.
Added(P, h, Q) == h \notin P /\ Q = P \cup {h}
Taken(P, h, Q) == h \in P /\ Q = P \ {h}

\* A stack is four deep at most.
LEMMA Depth ==
    ASSUME NEW s, s \in Seq(FrameType), s # <<>>, Len(s) <= 4
    PROVE  Len(s) \in 1..4
  <1> DEFINE n == Len(s)
  <1>1. n \in Nat /\ n # 0 /\ n <= 4
    OBVIOUS
  <1> HIDE DEF n
  <1>2. n \in 1..4
    BY <1>1
  <1> QED BY <1>2 DEF n

\* The spots of a stack, after a push.
LEMMA SpotsPush ==
    ASSUME NEW s, NEW f, NEW c, NEW q, s \in Seq(FrameType), f \in FrameType
    PROVE  /\ ~(In(c, f) /\ f.r = q) => Spots(Append(s, f), c, q) = Spots(s, c, q)
           /\ In(c, f) /\ f.r = q => Spots(Append(s, f), c, q)
                                        = Spots(s, c, q) \cup {Len(s) + 1}
  <1> DEFINE a == Append(s, f)
             L == Len(s)
  <1>1. /\ Len(a) = L + 1 /\ L \in Nat /\ a[L + 1] = f
        /\ \A i \in 1..L : a[i] = s[i]
    BY AppendFacts
  <1>2. 1..(L + 1) = 1..L \cup {L + 1}
    BY <1>1
  <1> HIDE DEF a, L
  <1> QED BY <1>1, <1>2 DEF Spots, a, L

\* The spots of a stack, after a pop.
LEMMA SpotsPop ==
    ASSUME NEW s, NEW c, NEW q, s \in Seq(FrameType), s # <<>>
    PROVE  Spots(Front(s), c, q) = Spots(s, c, q) \ {Len(s)}
  <1> DEFINE a == Front(s)
             L == Len(s)
  <1>1. /\ Len(a) = L - 1 /\ L \in Nat \ {0}
        /\ \A i \in 1..(L - 1) : a[i] = s[i]
    BY FrontFacts
  <1>2. 1..(L - 1) = 1..L \ {L}
    BY <1>1
  <1> HIDE DEF a, L
  <1> QED BY <1>1, <1>2 DEF Spots, a, L

\* The spots of a stack, with another frame at the top.
LEMMA SpotsTurn ==
    ASSUME NEW s, NEW f, NEW c, NEW q, s \in Seq(FrameType), s # <<>>,
           f \in FrameType
    PROVE  LET n == Len(s)
               a == Turned(s, f)
           IN /\ ~(In(c, f) /\ f.r = q) => Spots(a, c, q) = Spots(s, c, q) \ {n}
              /\ In(c, f) /\ f.r = q => Spots(a, c, q) = Spots(s, c, q) \cup {n}
  <1> DEFINE b == Front(s)
             n == Len(s)
  <1>1. b \in Seq(FrameType) /\ Len(b) = n - 1 /\ n \in Nat \ {0}
    BY FrontFacts
  <1>2. Spots(b, c, q) = Spots(s, c, q) \ {n}
    BY SpotsPop
  <1> HIDE DEF b, n
  <1>3. /\ ~(In(c, f) /\ f.r = q) => Spots(Append(b, f), c, q) = Spots(b, c, q)
        /\ In(c, f) /\ f.r = q => Spots(Append(b, f), c, q)
                                     = Spots(b, c, q) \cup {n}
    <2>1. Len(b) + 1 = n
      BY <1>1
    <2> QED BY <1>1, <2>1, SpotsPush
  <1>4. (Spots(s, c, q) \ {n}) \cup {n} = Spots(s, c, q) \cup {n}
    OBVIOUS
  <1> QED BY <1>2, <1>3, <1>4 DEF Turned, b, n

\* The top is a spot if its frame says so.
LEMMA SpotsLast ==
    ASSUME NEW s, NEW c, NEW q, s \in Seq(FrameType), s # <<>>
    PROVE  Len(s) \in Spots(s, c, q) <=> In(c, Last(s)) /\ Last(s).r = q
  <1>1. Len(s) \in Nat \ {0} /\ Last(s) = s[Len(s)]
    BY FrontFacts
  <1> QED BY <1>1 DEF Spots

\* Spots are depths.
LEMMA SpotsBound ==
    ASSUME NEW s, NEW c, NEW q, s \in Seq(FrameType)
    PROVE  Spots(s, c, q) \subseteq 1..Len(s)
  BY DEF Spots

\* From the spots of one stack to the places.
LEMMA PlacesSame ==
    ASSUME NEW k, NEW t, NEW s, NEW c, NEW q, k \in Stks, t \in Thread,
           Spots(s, c, q) = Spots(k[t], c, q)
    PROVE  Places(Swap(k, t, s), c, q) = Places(k, c, q)
  <1> DEFINE k2 == Swap(k, t, s)
  <1>1. k2[t] = s /\ \A u \in Thread : u # t => k2[u] = k[u]
    BY StkSwap DEF Stks
  <1> HIDE DEF k2
  <1>2. \A u \in Thread : Spots(k2[u], c, q) = Spots(k[u], c, q)
    BY <1>1
  <1>3. Places(k2, c, q) = Places(k, c, q)
    BY <1>2 DEF Places
  <1> QED BY <1>3 DEF k2

\* A spot more in a stack is a place more.
LEMMA PlacesAdd ==
    ASSUME NEW k, NEW t, NEW s, NEW c, NEW q, NEW i, k \in Stks, t \in Thread,
           i \in 1..4, i \notin Spots(k[t], c, q),
           Spots(s, c, q) = Spots(k[t], c, q) \cup {i}
    PROVE  Added(Places(k, c, q), <<t, i>>, Places(Swap(k, t, s), c, q))
  <1> DEFINE k2 == Swap(k, t, s)
             h == <<t, i>>
  <1>1. k2[t] = s /\ \A u \in Thread : u # t => k2[u] = k[u]
    BY StkSwap DEF Stks
  <1> HIDE DEF k2
  <1>2. h \in Thread \X (1..4) /\ h[1] = t /\ h[2] = i
    OBVIOUS
  <1>3. \A g \in Thread \X (1..4) : g[1] = t /\ g[2] = i => g = h
    OBVIOUS
  <1> HIDE DEF h
  <1>4. h \notin Places(k, c, q)
    BY <1>2 DEF Places
  <1>5. ASSUME NEW g \in Thread \X (1..4)
        PROVE  g \in Places(k2, c, q) <=> g \in Places(k, c, q) \cup {h}
    <2>1. CASE g[1] = t
      BY <2>1, <1>1, <1>2, <1>3 DEF Places
    <2>2. CASE g[1] # t
      <3>1. g[1] \in Thread /\ g # h
        BY <2>2, <1>2
      <3> QED BY <2>2, <3>1, <1>1 DEF Places
    <2> QED BY <2>1, <2>2
  <1>6. Places(k2, c, q) = Places(k, c, q) \cup {h}
    BY <1>2, <1>5 DEF Places
  <1> QED BY <1>4, <1>6 DEF k2, h, Added

\* A spot less in a stack is a place less.
LEMMA PlacesDrop ==
    ASSUME NEW k, NEW t, NEW s, NEW c, NEW q, NEW i, k \in Stks, t \in Thread,
           i \in 1..4, i \in Spots(k[t], c, q),
           Spots(s, c, q) = Spots(k[t], c, q) \ {i}
    PROVE  Taken(Places(k, c, q), <<t, i>>, Places(Swap(k, t, s), c, q))
  <1> DEFINE k2 == Swap(k, t, s)
             h == <<t, i>>
  <1>1. k2[t] = s /\ \A u \in Thread : u # t => k2[u] = k[u]
    BY StkSwap DEF Stks
  <1> HIDE DEF k2
  <1>2. h \in Thread \X (1..4) /\ h[1] = t /\ h[2] = i
    OBVIOUS
  <1>3. \A g \in Thread \X (1..4) : g[1] = t /\ g[2] = i => g = h
    OBVIOUS
  <1> HIDE DEF h
  <1>4. h \in Places(k, c, q)
    BY <1>2 DEF Places
  <1>5. ASSUME NEW g \in Thread \X (1..4)
        PROVE  g \in Places(k2, c, q) <=> g \in Places(k, c, q) \ {h}
    <2>1. CASE g[1] = t
      BY <2>1, <1>1, <1>2, <1>3 DEF Places
    <2>2. CASE g[1] # t
      <3>1. g[1] \in Thread /\ g # h
        BY <2>2, <1>2
      <3> QED BY <2>2, <3>1, <1>1 DEF Places
    <2> QED BY <2>1, <2>2
  <1>6. Places(k2, c, q) = Places(k, c, q) \ {h}
    BY <1>2, <1>5 DEF Places
  <1> QED BY <1>4, <1>6 DEF k2, h, Taken

\* How the places of session q change from k to m when thread t comes to
\* frame f from frame g, or to or from none, at depth n.
Shifts(k, m, c, q, h, was, is) ==
    /\ was /\ is => Places(m, c, q) = Places(k, c, q)
    /\ ~was /\ ~is => Places(m, c, q) = Places(k, c, q)
    /\ ~was /\ is => Added(Places(k, c, q), h, Places(m, c, q))
    /\ was /\ ~is => Taken(Places(k, c, q), h, Places(m, c, q))

\* What another frame at the top does to the places of a session.
LEMMA TurnShifts ==
    ASSUME NEW k, NEW t, NEW f, NEW c, NEW q, k \in Stks, t \in Thread,
           f \in FrameType, k[t] # <<>>, Len(k[t]) <= 4
    PROVE  Shifts(k, Swap(k, t, Turned(k[t], f)), c, q, <<t, Len(k[t])>>,
                  In(c, Last(k[t])) /\ Last(k[t]).r = q, In(c, f) /\ f.r = q)
  <1> DEFINE s == k[t]
             a == Turned(s, f)
             n == Len(s)
  <1>0. s \in Seq(FrameType) /\ s # <<>> /\ n <= 4
    BY DEF Stks
  <1>1. s \in Seq(FrameType) /\ n \in 1..4
    BY <1>0, Depth
  <1>2. /\ n \in Spots(s, c, q) <=> In(c, Last(s)) /\ Last(s).r = q
        /\ ~(In(c, f) /\ f.r = q) => Spots(a, c, q) = Spots(s, c, q) \ {n}
        /\ In(c, f) /\ f.r = q => Spots(a, c, q) = Spots(s, c, q) \cup {n}
    BY <1>1, SpotsLast, SpotsTurn
  <1> HIDE DEF s, n, a
  <1>3. /\ n \in Spots(s, c, q) => Spots(s, c, q) \cup {n} = Spots(s, c, q)
        /\ n \notin Spots(s, c, q) => Spots(s, c, q) \ {n} = Spots(s, c, q)
    OBVIOUS
  <1>4. ASSUME n \in Spots(s, c, q), ~(In(c, f) /\ f.r = q)
        PROVE  Taken(Places(k, c, q), <<t, n>>, Places(Swap(k, t, a), c, q))
    BY <1>1, <1>2, <1>4, PlacesDrop DEF s
  <1>5. ASSUME n \notin Spots(s, c, q), In(c, f) /\ f.r = q
        PROVE  Added(Places(k, c, q), <<t, n>>, Places(Swap(k, t, a), c, q))
    BY <1>1, <1>2, <1>5, PlacesAdd DEF s
  <1>6. ASSUME n \in Spots(s, c, q) <=> In(c, f) /\ f.r = q
        PROVE  Places(Swap(k, t, a), c, q) = Places(k, c, q)
    <2>1. Spots(a, c, q) = Spots(s, c, q)
      BY <1>2, <1>3, <1>6
    <2> QED BY <2>1, PlacesSame DEF s
  <1> QED BY <1>2, <1>4, <1>5, <1>6 DEF Shifts, s, n, a

\* What a push does to the places of a session.
LEMMA PushShifts ==
    ASSUME NEW k, NEW t, NEW f, NEW c, NEW q, k \in Stks, t \in Thread,
           f \in FrameType, Len(k[t]) <= 3
    PROVE  Shifts(k, Swap(k, t, Append(k[t], f)), c, q, <<t, Len(k[t]) + 1>>,
                  FALSE, In(c, f) /\ f.r = q)
  <1> DEFINE s == k[t]
             a == Append(s, f)
             n == Len(s) + 1
  <1>1. s \in Seq(FrameType) /\ n \in 1..4 /\ Len(s) \in Nat
    BY DEF Stks
  <1>2. n \notin Spots(s, c, q)
    BY <1>1, SpotsBound
  <1>3. /\ ~(In(c, f) /\ f.r = q) => Spots(a, c, q) = Spots(s, c, q)
        /\ In(c, f) /\ f.r = q => Spots(a, c, q) = Spots(s, c, q) \cup {n}
    BY <1>1, SpotsPush
  <1> HIDE DEF s, n, a
  <1>4. ASSUME In(c, f) /\ f.r = q
        PROVE  Added(Places(k, c, q), <<t, n>>, Places(Swap(k, t, a), c, q))
    BY <1>1, <1>2, <1>3, <1>4, PlacesAdd DEF s
  <1>5. ASSUME ~(In(c, f) /\ f.r = q)
        PROVE  Places(Swap(k, t, a), c, q) = Places(k, c, q)
    BY <1>1, <1>3, <1>5, PlacesSame DEF s
  <1> QED BY <1>4, <1>5 DEF Shifts, s, n, a

\* What a pop does to the places of a session.
LEMMA PopShifts ==
    ASSUME NEW k, NEW t, NEW c, NEW q, k \in Stks, t \in Thread,
           k[t] # <<>>, Len(k[t]) <= 4
    PROVE  Shifts(k, Swap(k, t, Front(k[t])), c, q, <<t, Len(k[t])>>,
                  In(c, Last(k[t])) /\ Last(k[t]).r = q, FALSE)
  <1> DEFINE s == k[t]
             a == Front(s)
             n == Len(s)
  <1>0. s \in Seq(FrameType) /\ s # <<>> /\ n <= 4
    BY DEF Stks
  <1>1. s \in Seq(FrameType) /\ n \in 1..4
    BY <1>0, Depth
  <1>2. /\ n \in Spots(s, c, q) <=> In(c, Last(s)) /\ Last(s).r = q
        /\ Spots(a, c, q) = Spots(s, c, q) \ {n}
    BY <1>1, SpotsLast, SpotsPop
  <1> HIDE DEF s, n, a
  <1>3. n \notin Spots(s, c, q) => Spots(s, c, q) \ {n} = Spots(s, c, q)
    OBVIOUS
  <1>4. ASSUME n \in Spots(s, c, q)
        PROVE  Taken(Places(k, c, q), <<t, n>>, Places(Swap(k, t, a), c, q))
    BY <1>1, <1>2, <1>4, PlacesDrop DEF s
  <1>5. ASSUME n \notin Spots(s, c, q)
        PROVE  Places(Swap(k, t, a), c, q) = Places(k, c, q)
    <2>1. Spots(a, c, q) = Spots(s, c, q)
      BY <1>2, <1>3, <1>5
    <2> QED BY <2>1, PlacesSame DEF s
  <1> QED BY <1>2, <1>4, <1>5 DEF Shifts, s, n, a

-----------------------------------------------------------------------------
(* What may happen to a session.                                           *)

\* One place more, one user more.
LEMMA AddedCount ==
    ASSUME NEW P, NEW h, NEW Q, IsFiniteSet(P), Added(P, h, Q)
    PROVE  IsFiniteSet(Q) /\ Cardinality(Q) = Cardinality(P) + 1
  BY FS_AddElement DEF Added

\* One place less, one user less.
LEMMA TakenCount ==
    ASSUME NEW P, NEW h, NEW Q, IsFiniteSet(P), Taken(P, h, Q)
    PROVE  /\ IsFiniteSet(Q) /\ Cardinality(Q) = Cardinality(P) - 1
           /\ Cardinality(P) \in Nat \ {0}
  <1>1. IsFiniteSet(Q) /\ Cardinality(Q) = Cardinality(P) - 1
    BY FS_RemoveElement DEF Taken
  <1>2. Cardinality(P) \in Nat /\ Cardinality(Q) \in Nat
    BY <1>1, FS_CardinalityType
  <1> QED BY <1>1, <1>2

\* z is as s in all that matters to its users and requests.
Agrees(s, z) ==
    z.live = s.live /\ z.busy = s.busy /\ z.has_tsx = s.has_tsx /\ z.cseq = s.cseq

\* A session stays sound when only its other fields change.
LEMMA Unmoved ==
    ASSUME NEW s, NEW z, NEW U, NEW F, NEW A, NEW O, NEW B, NEW N,
           Sound(s, U, F, A, O, B, N), Agrees(s, z)
    PROVE  Sound(z, U, F, A, O, B, N)
  BY DEF Sound, Agrees

\* A freed session.
LEMMA FreedIs ==
    ASSUME NEW s, s \in SessionType
    PROVE  Freed(s) \in SessionType /\ ~Freed(s).live /\ ~Freed(s).lock
  <1> DEFINE b == s.timer /\ ~s.id
             k == NewRegc
             e == [k EXCEPT !.live = FALSE]
             f == [e EXCEPT !.timer = b]
  <1>1. b \in BOOLEAN
    OBVIOUS
  <1>2. k \in SessionType /\ ~k.lock
    BY DEF NewRegc, SessionType
  <1> HIDE DEF k, b
  <1>3. e \in SessionType /\ ~e.live /\ ~e.lock
    BY <1>2 DEF SessionType
  <1> HIDE DEF e
  <1>4. f \in SessionType /\ ~f.live /\ ~f.lock
    BY <1>1, <1>3 DEF SessionType
  <1>5. Freed(s) = f
    BY DEF Freed, e, b, k
  <1> QED BY <1>4, <1>5

\* It is destroyed, when nobody uses it.
LEMMA Destroyed ==
    ASSUME NEW s, NEW U, NEW F, NEW A, NEW O, NEW B, NEW N, s \in SessionType,
           Sound(s, U, F, A, O, B, N), s.live, F \subseteq U
    PROVE  /\ Sound(Destroy(s), U, F, A, O, B, N)
           /\ Destroy(s) \in SessionType
           /\ ~s.lock => ~Destroy(s).lock
           /\ InUse(s) => Destroy(s).live
  <1>1. CASE InUse(s)
    BY <1>1 DEF Sound, Destroy, SessionType
  <1>2. CASE ~InUse(s)
    <2>1. ~s.has_tsx /\ s.busy = 0
      BY <1>2 DEF InUse
    <2>2. U = {}
      BY <2>1, FS_EmptySet DEF Sound
    <2>3. Destroy(s) = Freed(s)
      BY <1>2 DEF Destroy
    <2>4. ~Freed(s).live /\ Freed(s) \in SessionType /\ ~Freed(s).lock
      BY FreedIs
    <2> QED BY <1>2, <2>1, <2>2, <2>3, <2>4 DEF Sound
  <1> QED BY <1>1, <1>2

\* One that is not there.
LEMMA Absent ==
    ASSUME NEW s, NEW U, NEW F, NEW A, NEW O, NEW B, NEW N,
           ~s.live, F = {}, A = {}, N = {}
    PROVE  Sound(s, U, F, A, O, B, N)
  BY DEF Sound

-----------------------------------------------------------------------------
(* Facts about places and stacks.                                          *)

\* Some places are others too.
LEMMA PlaceSets ==
    ASSUME NEW k, NEW r
    PROVE  /\ Places(k, "out", r) \subseteq Places(k, "ask", r)
           /\ Places(k, "firm", r) \subseteq Places(k, "use", r)
  <1>1. \A f : In("out", f) => In("ask", f)
    BY DEF In
  <1>2. \A f : In("firm", f) => In("use", f)
    BY DEF In
  <1> QED BY <1>1, <1>2 DEF Places, Spots

\* No thread is at <<>>, which cseq is when no send compares it.
LEMMA NoPlace ==
    ASSUME NEW k, NEW c, NEW r
    PROVE  <<>> \notin Places(k, c, r)
  <1>1. <<>> \notin Thread \X (1..4)
    OBVIOUS
  <1> QED BY <1>1 DEF Places

\* A place is a spot of the stack it is in.
LEMMA PlaceOf ==
    ASSUME NEW k, NEW t, NEW i, NEW c, NEW r
    PROVE  <<t, i>> \in Places(k, c, r) => i \in Spots(k[t], c, r)
  BY DEF Places

\* The place above the top, and the top.
LEMMA PlaceTop ==
    ASSUME NEW k, NEW t, NEW c, NEW r, k \in Stks, t \in Thread, k[t] # <<>>,
           Len(k[t]) <= 4
    PROVE  /\ <<t, Len(k[t]) + 1>> \notin Places(k, c, r)
           /\ <<t, Len(k[t])>> \in Places(k, c, r)
                 <=> In(c, Last(k[t])) /\ Last(k[t]).r = r
  <1> DEFINE n == Len(k[t])
  <1>0. k[t] \in Seq(FrameType)
    BY DEF Stks
  <1>1. n \in 1..4
    BY <1>0, Depth
  <1>2. Spots(k[t], c, r) \subseteq 1..n
    BY <1>0, SpotsBound
  <1>3. n \in Spots(k[t], c, r) <=> In(c, Last(k[t])) /\ Last(k[t]).r = r
    BY <1>0, SpotsLast
  <1> HIDE DEF n
  <1>4. n + 1 \notin Spots(k[t], c, r)
    BY <1>1, <1>2
  <1>5. <<t, n + 1>> \notin Places(k, c, r)
    BY <1>4, PlaceOf
  <1>6. n \in Spots(k[t], c, r) => <<t, n>> \in Places(k, c, r)
    BY <1>1 DEF Places
  <1> QED BY <1>3, <1>5, <1>6, PlaceOf DEF n

-----------------------------------------------------------------------------
(* The stacks stay stacks.                                                 *)

\* What is at the bottom does not depend on a frame under it.
LEMMA FitsAlone ==
    ASSUME NEW f, NEW b, NEW c, f \in FrameType, Fits(f, 1, b)
    PROVE  Fits(f, 1, c)
  <1>1. f.fn \in Fns
    BY DEF FrameType
  <1>2. CASE f.fn = "send"
    BY <1>2 DEF Fits
  <1>3. CASE f.fn = "set"
    BY <1>3 DEF Fits
  <1>4. CASE f.fn = "tsx"
    BY <1>4 DEF Fits
  <1>5. CASE f.fn \in {"refresh", "del", "retry"}
    BY <1>5 DEF Fits
  <1> QED BY <1>1, <1>2, <1>3, <1>4, <1>5 DEF Fns

\* A stack with another frame at the top.
LEMMA TurnedFacts ==
    ASSUME NEW s, NEW f, s \in Seq(FrameType), s # <<>>, f \in FrameType
    PROVE  LET a == Turned(s, f)
           IN /\ a \in Seq(FrameType) /\ Len(a) = Len(s) /\ Len(s) \in Nat \ {0}
              /\ a # <<>> /\ Last(a) = f /\ a[Len(s)] = f /\ Front(a) = Front(s)
              /\ \A i \in 1..(Len(s) - 1) : a[i] = s[i]
  <1> DEFINE b == Front(s)
             a == Append(b, f)
             n == Len(s)
  <1>1. /\ b \in Seq(FrameType) /\ Len(b) = n - 1 /\ n \in Nat \ {0}
        /\ \A i \in 1..(n - 1) : b[i] = s[i]
    BY FrontFacts
  <1>2. /\ a \in Seq(FrameType) /\ Len(a) = Len(b) + 1 /\ a # <<>>
        /\ \A i \in 1..Len(b) : a[i] = b[i]
        /\ a[Len(b) + 1] = f /\ Last(a) = f
    BY <1>1, AppendFacts
  <1>3. Front(a) = b
    BY <1>1, FrontAppend
  <1> HIDE DEF b, a, n
  <1>4. Len(b) + 1 = n
    BY <1>1
  <1> QED BY <1>1, <1>2, <1>3, <1>4 DEF Turned, a, b, n

\* Another frame at the top, if it fits, leaves a stack.
LEMMA StackTurn ==
    ASSUME NEW s, NEW f, Stack(s), s # <<>>, f \in FrameType,
           Fits(f, Len(s), Under(s, Len(s)))
    PROVE  Stack(Turned(s, f))
  <1> DEFINE a == Turned(s, f)
             n == Len(s)
  <1>0. s \in Seq(FrameType) /\ n <= 4
    BY DEF Stack
  <1>1. /\ a \in Seq(FrameType) /\ Len(a) = n /\ n \in Nat \ {0} /\ a[n] = f
        /\ \A i \in 1..(n - 1) : a[i] = s[i]
    BY <1>0, TurnedFacts
  <1>2. \A i \in 1..n : Fits(s[i], i, Under(s, i)) /\ (i < n => Waits(s[i]))
    BY DEF Stack
  <1>3. Fits(f, n, Under(s, n))
    OBVIOUS
  <1> HIDE DEF a, n
  <1>4. ASSUME NEW i \in 1..n
        PROVE  Fits(a[i], i, Under(a, i)) /\ (i < n => Waits(a[i]))
    <2>1. CASE i < n
      <3>1. i \in 1..(n - 1) /\ a[i] = s[i]
        BY <1>1, <2>1
      <3>2. i > 1 => a[i - 1] = s[i - 1]
        BY <1>1, <3>1
      <3>3. Under(a, i) = Under(s, i)
        BY <3>1, <3>2 DEF Under
      <3> QED BY <3>1, <3>3, <1>2
    <2>2. CASE i = n /\ n > 1
      <3>1. a[n - 1] = s[n - 1]
        BY <1>1, <2>2
      <3>2. Under(a, n) = Under(s, n)
        BY <2>2, <3>1 DEF Under
      <3> QED BY <2>2, <3>2, <1>1, <1>3
    <2>3. CASE i = n /\ n = 1
      BY <2>3, <1>1, <1>3, FitsAlone
    <2> QED BY <2>1, <2>2, <2>3, <1>1
  <1> QED BY <1>0, <1>1, <1>4 DEF Stack, a, n

\* A frame that fits on one that waits makes a stack.
LEMMA StackPush ==
    ASSUME NEW s, NEW f, Stack(s), f \in FrameType, Len(s) <= 3,
           s # <<>> => Waits(Last(s)) /\ Fits(f, Len(s) + 1, Last(s)),
           s = <<>> => Fits(f, 1, f)
    PROVE  Stack(Append(s, f))
  <1> DEFINE a == Append(s, f)
             n == Len(s)
  <1>0. s \in Seq(FrameType)
    BY DEF Stack
  <1>1. /\ a \in Seq(FrameType) /\ Len(a) = n + 1 /\ n \in Nat /\ a[n + 1] = f
        /\ \A i \in 1..n : a[i] = s[i]
    BY <1>0, AppendFacts
  <1>2. \A i \in 1..n : Fits(s[i], i, Under(s, i)) /\ (i < n => Waits(s[i]))
    BY DEF Stack
  <1>3. n > 0 => Last(s) = s[n] /\ s # <<>>
    BY <1>0 DEF Last
  <1>4. n = 0 => s = <<>>
    BY <1>0
  <1>5. n <= 3
    OBVIOUS
  <1>6. n > 0 => Waits(s[n]) /\ Fits(f, n + 1, s[n])
    BY <1>3
  <1>7. n = 0 => Fits(f, 1, f)
    BY <1>4
  <1> HIDE DEF a, n
  <1>8. ASSUME NEW i \in 1..(n + 1)
        PROVE  Fits(a[i], i, Under(a, i)) /\ (i < n + 1 => Waits(a[i]))
    <2>1. CASE i <= n
      <3>1. i \in 1..n /\ a[i] = s[i]
        BY <1>1, <2>1
      <3>2. i > 1 => a[i - 1] = s[i - 1]
        BY <1>1, <3>1
      <3>3. Under(a, i) = Under(s, i)
        BY <3>1, <3>2 DEF Under
      <3>4. i < n \/ i = n
        BY <2>1, <1>1
      <3> QED BY <3>1, <3>3, <3>4, <1>2, <1>6
    <2>2. CASE i = n + 1 /\ n > 0
      <3>1. a[n] = s[n] /\ Under(a, n + 1) = a[n]
        BY <1>1, <2>2 DEF Under
      <3> QED BY <2>2, <3>1, <1>1, <1>6
    <2>3. CASE i = n + 1 /\ n = 0
      BY <2>3, <1>1, <1>7, FitsAlone
    <2> QED BY <2>1, <2>2, <2>3, <1>1
  <1> QED BY <1>1, <1>5, <1>8 DEF Stack, a, n

\* A stack without its top is a stack, and its top waits.
LEMMA StackPop ==
    ASSUME NEW s, Stack(s), s # <<>>
    PROVE  /\ Stack(Front(s))
           /\ Len(s) > 1 => /\ Front(s) # <<>> /\ Last(Front(s)) = Under(s, Len(s))
                            /\ Waits(Last(Front(s)))
           /\ Len(s) = 1 => Front(s) = <<>>
           /\ Fits(Last(s), Len(s), Under(s, Len(s))) /\ Last(s) \in FrameType
  <1> DEFINE a == Front(s)
             n == Len(s)
  <1>0. s \in Seq(FrameType) /\ n <= 4
    BY DEF Stack
  <1>1. /\ a \in Seq(FrameType) /\ Len(a) = n - 1 /\ n \in Nat \ {0}
        /\ \A i \in 1..(n - 1) : a[i] = s[i]
        /\ Last(s) = s[n] /\ Last(s) \in FrameType
    BY <1>0, FrontFacts
  <1>2. \A i \in 1..n : Fits(s[i], i, Under(s, i)) /\ (i < n => Waits(s[i]))
    BY DEF Stack
  <1>3. n = 1 => a = <<>>
    BY <1>1
  <1>4. n > 1 => a # <<>> /\ Last(a) = a[n - 1]
    BY <1>1 DEF Last
  <1> HIDE DEF a, n
  <1>5. ASSUME NEW i \in 1..(n - 1)
        PROVE  Fits(a[i], i, Under(a, i)) /\ Waits(a[i])
    <2>1. i \in 1..n /\ i < n /\ a[i] = s[i]
      BY <1>1
    <2>2. i > 1 => a[i - 1] = s[i - 1]
      BY <1>1
    <2>3. Under(a, i) = Under(s, i)
      BY <2>1, <2>2 DEF Under
    <2> QED BY <2>1, <2>3, <1>2
  <1>6. Stack(a)
    BY <1>0, <1>1, <1>5 DEF Stack
  <1>7. n > 1 => Under(s, n) = s[n - 1] /\ a[n - 1] = s[n - 1] /\ Waits(s[n - 1])
    BY <1>1, <1>2 DEF Under
  <1>8. n \in 1..n
    BY <1>1
  <1> QED BY <1>1, <1>2, <1>3, <1>4, <1>6, <1>7, <1>8 DEF a, n

-----------------------------------------------------------------------------
(* What a step keeps.                                                      *)

Classes == {"use", "firm", "ask", "out", "fail"}

\* No frame.
Blank == Frame("none", "none", None, FALSE)

\* No frame is no place.
LEMMA NotBlank ==
    ASSUME NEW c, c \in Classes
    PROVE  ~In(c, Blank)
  BY DEF Classes, Blank, Frame, In

\* The stack of another thread is as it was.
LEMMA OtherStacks ==
    ASSUME NEW w, NEW t, NEW s, NEW u, w \in WorldType, t \in Thread,
           u \in Thread, u # t
    PROVE  Swap(w.stk, t, s)[u] = w.stk[u]
  BY WorldFields, StkSwap

\* The stack that was written is there.
LEMMA ThisStack ==
    ASSUME NEW w, NEW t, NEW s, w \in WorldType, t \in Thread
    PROVE  Swap(w.stk, t, s)[t] = s
  BY WorldFields, StkSwap

\* The same, whatever it is.
LEMMA ThisStacks ==
    ASSUME NEW w, NEW t, w \in WorldType, t \in Thread
    PROVE  \A x : Swap(w.stk, t, x)[t] = x
  BY ThisStack

\* From w to n, thread t comes to frame f from frame g, at place h.
Moves(w, n, t, h, g, f) ==
    /\ w \in WorldType /\ n \in WorldType /\ t \in Thread /\ Stack(w.stk[t])
    /\ \/ /\ w.stk[t] # <<>> /\ f \in FrameType
          /\ g = Last(w.stk[t]) /\ h = <<t, Len(w.stk[t])>>
          /\ n.stk = Swap(w.stk, t, Turned(w.stk[t], f))
       \/ /\ Len(w.stk[t]) <= 3 /\ f \in FrameType
          /\ g = Blank /\ h = <<t, Len(w.stk[t]) + 1>>
          /\ n.stk = Swap(w.stk, t, Append(w.stk[t], f))
       \/ /\ w.stk[t] # <<>> /\ f = Blank
          /\ g = Last(w.stk[t]) /\ h = <<t, Len(w.stk[t])>>
          /\ n.stk = Swap(w.stk, t, Front(w.stk[t]))
       \/ g = Blank /\ f = Blank /\ n.stk = w.stk

\* What any step does to the places of a session.
LEMMA MovesShift ==
    ASSUME NEW w, NEW n, NEW t, NEW h, NEW g, NEW f, NEW c, NEW q,
           Moves(w, n, t, h, g, f), c \in Classes
    PROVE  Shifts(w.stk, n.stk, c, q, h, In(c, g) /\ g.r = q, In(c, f) /\ f.r = q)
  <1> DEFINE k == w.stk
             m == n.stk
  <1>1. k \in Stks /\ t \in Thread /\ Len(k[t]) <= 4
    BY WorldFields DEF Moves, Stack, Stks
  <1>2. ~In(c, Blank)
    BY NotBlank
  <1>3. /\ k = w.stk /\ m = n.stk
        /\ \/ /\ k[t] # <<>> /\ f \in FrameType
              /\ g = Last(k[t]) /\ h = <<t, Len(k[t])>>
              /\ m = Swap(k, t, Turned(k[t], f))
           \/ /\ Len(k[t]) <= 3 /\ f \in FrameType
              /\ g = Blank /\ h = <<t, Len(k[t]) + 1>>
              /\ m = Swap(k, t, Append(k[t], f))
           \/ /\ k[t] # <<>> /\ f = Blank
              /\ g = Last(k[t]) /\ h = <<t, Len(k[t])>>
              /\ m = Swap(k, t, Front(k[t]))
           \/ g = Blank /\ f = Blank /\ m = k
    BY DEF Moves
  <1> HIDE DEF k, m
  <1>4. CASE /\ k[t] # <<>> /\ f \in FrameType
             /\ g = Last(k[t]) /\ h = <<t, Len(k[t])>>
             /\ m = Swap(k, t, Turned(k[t], f))
    <2>1. Shifts(k, Swap(k, t, Turned(k[t], f)), c, q, <<t, Len(k[t])>>,
                 In(c, Last(k[t])) /\ Last(k[t]).r = q, In(c, f) /\ f.r = q)
      BY <1>1, <1>4, TurnShifts
    <2> QED BY <2>1, <1>3, <1>4
  <1>5. CASE /\ Len(k[t]) <= 3 /\ f \in FrameType
             /\ g = Blank /\ h = <<t, Len(k[t]) + 1>>
             /\ m = Swap(k, t, Append(k[t], f))
    <2>1. Shifts(k, Swap(k, t, Append(k[t], f)), c, q, <<t, Len(k[t]) + 1>>,
                 FALSE, In(c, f) /\ f.r = q)
      BY <1>1, <1>5, PushShifts
    <2> QED BY <2>1, <1>2, <1>3, <1>5
  <1>6. CASE /\ k[t] # <<>> /\ f = Blank
             /\ g = Last(k[t]) /\ h = <<t, Len(k[t])>>
             /\ m = Swap(k, t, Front(k[t]))
    <2>1. Shifts(k, Swap(k, t, Front(k[t])), c, q, <<t, Len(k[t])>>,
                 In(c, Last(k[t])) /\ Last(k[t]).r = q, FALSE)
      BY <1>1, <1>6, PopShifts
    <2> QED BY <2>1, <1>2, <1>3, <1>6
  <1>7. CASE g = Blank /\ f = Blank /\ m = k
    BY <1>2, <1>3, <1>7 DEF Shifts
  <1> QED BY <1>3, <1>4, <1>5, <1>6, <1>7

\* A step leaves the other threads where they are.
LEMMA MovesOthers ==
    ASSUME NEW w, NEW n, NEW t, NEW h, NEW g, NEW f, NEW u,
           Moves(w, n, t, h, g, f), u \in Thread, u # t
    PROVE  n.stk[u] = w.stk[u]
  <1>1. w \in WorldType /\ t \in Thread
    BY DEF Moves
  <1>2. \/ n.stk = Swap(w.stk, t, Turned(w.stk[t], f))
        \/ n.stk = Swap(w.stk, t, Append(w.stk[t], f))
        \/ n.stk = Swap(w.stk, t, Front(w.stk[t]))
        \/ n.stk = w.stk
    BY DEF Moves
  <1>3. /\ Swap(w.stk, t, Turned(w.stk[t], f))[u] = w.stk[u]
        /\ Swap(w.stk, t, Append(w.stk[t], f))[u] = w.stk[u]
        /\ Swap(w.stk, t, Front(w.stk[t]))[u] = w.stk[u]
    BY <1>1, OtherStacks
  <1> QED BY <1>2, <1>3

\* A frame that has to do with session r alone.
About(f, r) == \A c \in Classes : In(c, f) => f.r = r

\* The places of other sessions are as they were.
LEMMA Elsewhere ==
    ASSUME NEW w, NEW n, NEW t, NEW h, NEW g, NEW f, NEW c, NEW q, NEW r,
           Moves(w, n, t, h, g, f), c \in Classes, About(g, r), About(f, r), q # r
    PROVE  Places(n.stk, c, q) = Places(w.stk, c, q)
  <1>1. Shifts(w.stk, n.stk, c, q, h, In(c, g) /\ g.r = q, In(c, f) /\ f.r = q)
    BY MovesShift
  <1>2. ~(In(c, g) /\ g.r = q) /\ ~(In(c, f) /\ f.r = q)
    BY DEF About
  <1> QED BY <1>1, <1>2 DEF Shifts

\* Session r becomes z, and the requests are the others' as before.
OnlyReg(w, n, r, z) ==
    /\ r \in Regc /\ z \in SessionType /\ n.reg = Swap(w.reg, r, z)
    /\ \A q \in Regc \ {r} : Sent(n.net, q) = Sent(w.net, q)

\* The other sessions are as they were.
LEMMA OnlyRegFacts ==
    ASSUME NEW w, NEW n, NEW r, NEW z, w \in WorldType, OnlyReg(w, n, r, z)
    PROVE  n.reg[r] = z /\ \A q \in Regc : q # r => n.reg[q] = w.reg[q]
  BY WorldFields, RegSwap DEF OnlyReg

\* What is asked of a step besides what it does to session r.
Steps(w, n, t, h, g, f, r, z) ==
    /\ Moves(w, n, t, h, g, f) /\ OnlyReg(w, n, r, z)
    /\ About(g, r) /\ About(f, r)

\* It is enough that the session of the step stays sound.
LEMMA SessionsStep ==
    ASSUME NEW w, NEW n, NEW t, NEW h, NEW g, NEW f, NEW r, NEW z,
           Sessions(w), Steps(w, n, t, h, g, f, r, z), SoundIn(z, n, r)
    PROVE  Sessions(n)
  <1>1. n.reg[r] = z /\ \A q \in Regc : q # r => n.reg[q] = w.reg[q]
    BY OnlyRegFacts DEF Steps, Moves
  <1>2. ASSUME NEW q \in Regc, q # r
        PROVE  SoundIn(n.reg[q], n, q)
    <2>1. \A c \in Classes : Places(n.stk, c, q) = Places(w.stk, c, q)
      BY <1>2, Elsewhere DEF Steps
    <2>2. /\ Places(n.stk, "use", q) = Places(w.stk, "use", q)
          /\ Places(n.stk, "firm", q) = Places(w.stk, "firm", q)
          /\ Places(n.stk, "ask", q) = Places(w.stk, "ask", q)
          /\ Places(n.stk, "out", q) = Places(w.stk, "out", q)
          /\ Places(n.stk, "fail", q) = Places(w.stk, "fail", q)
      BY <2>1 DEF Classes
    <2>3. Sent(n.net, q) = Sent(w.net, q) /\ n.reg[q] = w.reg[q]
      BY <1>1, <1>2 DEF Steps, OnlyReg
    <2>4. SoundIn(w.reg[q], w, q)
      BY DEF Sessions
    <2> QED BY <2>2, <2>3, <2>4 DEF SoundIn
  <1> QED BY <1>1, <1>2 DEF Sessions

\* Thread t is not about to delete a session.
Mild(s) == s = <<>> \/ ~(Last(s).fn = "del" /\ Last(s).pc \in {"flag", "free"})

\* A mild thread has not looked at a session to delete it.
LEMMA NotDeleting ==
    ASSUME NEW s, NEW q, Stack(s), Mild(s)
    PROVE  ~Deleting(s, q)
  <1> SUFFICES ASSUME Deleting(s, q) PROVE FALSE
    OBVIOUS
  <1>1. s # <<>> /\ s \in Seq(FrameType) /\ Len(s) <= 4
    BY DEF Deleting, Stack
  <1>2. Len(s) \in Nat \ {0} /\ Last(s) = s[Len(s)]
    BY <1>1, FrontFacts
  <1> DEFINE n == Len(s)
  <1>3. n = 1
    <2>0. \A i \in 1..n : i < n => Waits(s[i])
      BY DEF Stack
    <2>1. n > 1 => Waits(s[1])
      <3>1. n \in Nat
        BY <1>2
      <3> HIDE DEF n
      <3>2. n > 1 => 1 \in 1..n
        BY <3>1
      <3> QED BY <3>1, <3>2, <2>0
    <2>2. ~Waits(s[1])
      BY DEF Deleting, Waits
    <2>3. n \in Nat \ {0}
      BY <1>2
    <2> HIDE DEF n
    <2> QED BY <2>1, <2>2, <2>3
  <1> QED BY <1>1, <1>2, <1>3 DEF Deleting, Mild

\* A step that leaves a locked session alone keeps what deletion has read.
LEMMA DeletesStep ==
    ASSUME NEW w, NEW n, NEW t, NEW h, NEW g, NEW f, NEW r, NEW z,
           Deletes(w), Steps(w, n, t, h, g, f, r, z),
           Mild(w.stk[t]), Mild(n.stk[t]), Stack(n.stk[t]), z.lock = w.reg[r].lock,
           w.reg[r].lock => z.live /\ (Spare(w, r) => Spare(n, r))
    PROVE  Deletes(n)
  <1>1. n.reg[r] = z /\ \A q \in Regc : q # r => n.reg[q] = w.reg[q]
    BY OnlyRegFacts DEF Steps, Moves
  <1>2. \A q : ~Deleting(w.stk[t], q) /\ ~Deleting(n.stk[t], q)
    BY NotDeleting DEF Steps, Moves
  <1>3. \A u \in Thread : u # t => n.stk[u] = w.stk[u]
    BY MovesOthers DEF Steps
  <1>4. ASSUME NEW q \in Regc, q # r
        PROVE  Spare(w, q) <=> Spare(n, q)
    <2>1. \A c \in Classes : Places(n.stk, c, q) = Places(w.stk, c, q)
      BY <1>4, Elsewhere DEF Steps
    <2>2. /\ Places(n.stk, "firm", q) = Places(w.stk, "firm", q)
          /\ Places(n.stk, "ask", q) = Places(w.stk, "ask", q)
      BY <2>1 DEF Classes
    <2>3. Sent(n.net, q) = Sent(w.net, q) /\ n.reg[q] = w.reg[q]
      BY <1>1, <1>4 DEF Steps, OnlyReg
    <2> QED BY <2>2, <2>3 DEF Spare
  <1>5. \A q \in Regc, u \in Thread : Deleting(n.stk[u], q) <=> Deleting(w.stk[u], q)
    BY <1>2, <1>3
  <1>6. \A q \in Regc : n.reg[q].lock = w.reg[q].lock
    BY <1>1
  <1>7. ASSUME NEW q \in Regc, NEW u \in Thread, Deleting(n.stk[u], q)
        PROVE  n.reg[q].live /\ (n.stk[u][1].pc = "free" => Spare(n, q))
    <2>1. Deleting(w.stk[u], q) /\ u # t
      BY <1>2, <1>5, <1>7
    <2>2. /\ w.reg[q].lock /\ w.reg[q].live
          /\ w.stk[u][1].pc = "free" => Spare(w, q)
      BY <2>1 DEF Deletes
    <2>3. n.stk[u] = w.stk[u]
      BY <2>1, <1>3
    <2> QED BY <2>2, <2>3, <1>1, <1>4
  <1> QED BY <1>5, <1>6, <1>7 DEF Deletes

\* The owner of PJSUA_LOCK is p2 instead of p.
Owns(w, n, t, p, p2) ==
    /\ p2 \in Thread \cup {None}
    /\ p2 = p \/ (p \in {t, None} /\ p2 \in {t, None})
    /\ Based(n.stk[t]) \/ Flagging(n.stk[t]) <=> p2 = t

\* Only the thread of the step may take or give up PJSUA_LOCK.
LEMMA OwnedStep ==
    ASSUME NEW w, NEW n, NEW t, NEW h, NEW g, NEW f, NEW p, NEW p2,
           Owned(w, p), Moves(w, n, t, h, g, f), Owns(w, n, t, p, p2)
    PROVE  Owned(n, p2)
  <1>1. \A u \in Thread : u # t => n.stk[u] = w.stk[u]
    BY MovesOthers
  <1>2. \A u \in Thread : u # t => (p2 = u <=> p = u)
    <2>1. None \notin Thread
      BY RegAssumption
    <2> QED BY <2>1 DEF Owns
  <1> QED BY <1>1, <1>2 DEF Owned, Owns

\* A step keeps the invariant.
LEMMA Step ==
    ASSUME NEW w, NEW n, NEW t, NEW h, NEW g, NEW f, NEW r, NEW z, NEW p, NEW p2,
           Good(w, p), Steps(w, n, t, h, g, f, r, z), SoundIn(z, n, r),
           Usable(n), Owns(w, n, t, p, p2), Stack(n.stk[t]),
           Mild(w.stk[t]), Mild(n.stk[t]), z.lock = w.reg[r].lock,
           w.reg[r].lock => z.live /\ (Spare(w, r) => Spare(n, r))
    PROVE  Good(n, p2)
  <1>1. Sessions(n) /\ Deletes(n)
    BY SessionsStep, DeletesStep DEF Good
  <1>2. Owned(n, p2)
    BY OwnedStep DEF Good, Steps
  <1>3. \A u \in Thread : Stack(n.stk[u])
    <2>1. \A u \in Thread : u # t => n.stk[u] = w.stk[u]
      BY MovesOthers DEF Steps
    <2> QED BY <2>1 DEF Good
  <1> QED BY <1>1, <1>2, <1>3 DEF Good, Steps, Moves, Owns

\* A frame that has nothing to do with PJSUA_LOCK.
Calm(f) == /\ f.fn # "del" /\ ~(f.fn = "retry" /\ f.pc = "sent")
           /\ ~(f.fn = "set" /\ f.pc = "flag")

\* Two frames of the same function at the same place in it.
Like(g, f) == g.fn = f.fn /\ g.pc = f.pc

\* The bottom and the top of a stack after each move.
LEMMA TurnEnds ==
    ASSUME NEW s, NEW f, Stack(s), s # <<>>, f \in FrameType
    PROVE  LET a == Turned(s, f)
           IN /\ a # <<>> /\ Last(a) = f
              /\ Len(s) = 1 => s[1] = Last(s) /\ a[1] = f
              /\ Len(s) # 1 => a[1] = s[1]
  <1> DEFINE a == Turned(s, f)
             n == Len(s)
  <1>0. s \in Seq(FrameType)
    BY DEF Stack
  <1>1. /\ n \in Nat \ {0} /\ a # <<>> /\ Last(a) = f /\ a[n] = f
        /\ \A i \in 1..(n - 1) : a[i] = s[i]
    BY <1>0, TurnedFacts
  <1>2. Last(s) = s[n]
    BY <1>0, FrontFacts
  <1> HIDE DEF a, n
  <1>3. n # 1 => 1 \in 1..(n - 1)
    BY <1>1
  <1> QED BY <1>1, <1>2, <1>3 DEF a, n

\* The bottom and the top after a push.
LEMMA PushEnds ==
    ASSUME NEW s, NEW f, s \in Seq(FrameType), f \in FrameType
    PROVE  LET a == Append(s, f)
           IN /\ a # <<>> /\ Last(a) = f
              /\ s = <<>> => a[1] = f
              /\ s # <<>> => a[1] = s[1]
  <1> DEFINE a == Append(s, f)
             n == Len(s)
  <1>1. /\ n \in Nat /\ a # <<>> /\ Last(a) = f /\ a[n + 1] = f
        /\ \A i \in 1..n : a[i] = s[i]
    BY AppendFacts
  <1>2. s = <<>> <=> n = 0
    OBVIOUS
  <1> HIDE DEF a, n
  <1>3. n # 0 => 1 \in 1..n
    BY <1>1
  <1> QED BY <1>1, <1>2, <1>3 DEF a, n

\* The bottom and the top after a pop.
LEMMA PopEnds ==
    ASSUME NEW s, Stack(s), s # <<>>
    PROVE  LET a == Front(s)
           IN /\ Len(s) = 1 => a = <<>> /\ s[1] = Last(s)
              /\ Len(s) # 1 => a # <<>> /\ a[1] = s[1] /\ Waits(Last(a))
  <1> DEFINE a == Front(s)
             n == Len(s)
  <1>0. s \in Seq(FrameType)
    BY DEF Stack
  <1>1. /\ n \in Nat \ {0} /\ Last(s) = s[n]
        /\ \A i \in 1..(n - 1) : a[i] = s[i]
    BY <1>0, FrontFacts
  <1>2. /\ n > 1 => a # <<>> /\ Waits(Last(a))
        /\ n = 1 => a = <<>>
    BY StackPop
  <1> HIDE DEF a, n
  <1>3. n # 1 => 1 \in 1..(n - 1) /\ n > 1
    BY <1>1
  <1> QED BY <1>1, <1>2, <1>3 DEF a, n

\* The frame under a new one waits.
LEMMA PushedWaits ==
    ASSUME NEW s, NEW f, s \in Seq(FrameType), s # <<>>, f \in FrameType,
           Stack(Append(s, f))
    PROVE  Waits(Last(s))
  <1> DEFINE a == Append(s, f)
             n == Len(s)
  <1>1. /\ n \in Nat /\ Len(a) = n + 1
        /\ \A i \in 1..n : a[i] = s[i]
    BY AppendFacts
  <1>2. n # 0 /\ Last(s) = s[n]
    BY DEF Last
  <1>3. \A i \in 1..Len(a) : i < Len(a) => Waits(a[i])
    BY DEF Stack
  <1> HIDE DEF a, n
  <1>4. n \in 1..n /\ n \in 1..(n + 1) /\ n < n + 1
    BY <1>1, <1>2
  <1> QED BY <1>1, <1>2, <1>3, <1>4

\* A thread that waits for a call is at neither place.
LEMMA WaitsMild ==
    ASSUME NEW s, s # <<>> => Waits(Last(s))
    PROVE  ~Flagging(s) /\ Mild(s)
  BY DEF Waits, Flagging, Mild

\* A step that does not touch PJSUA_LOCK.
LEMMA Steady ==
    ASSUME NEW w, NEW n, NEW t, NEW h, NEW g, NEW f, NEW p, p \in Thread \cup {None},
           Owned(w, p), Moves(w, n, t, h, g, f), Stack(n.stk[t]),
           (Calm(g) /\ Calm(f)) \/ Like(g, f)
    PROVE  Owns(w, n, t, p, p)
  <1> DEFINE s == w.stk[t]
             a == n.stk[t]
  <1>0. s \in Seq(FrameType) /\ Stack(s) /\ t \in Thread /\ w \in WorldType
    BY DEF Moves, Stack
  <1>1. Based(s) \/ Flagging(s) <=> p = t
    BY <1>0 DEF Owned
  <1>2. Stack(a)
    OBVIOUS
  <1>3. /\ Swap(w.stk, t, Turned(s, f))[t] = Turned(s, f)
        /\ Swap(w.stk, t, Append(s, f))[t] = Append(s, f)
        /\ Swap(w.stk, t, Front(s))[t] = Front(s)
    <2>1. w \in WorldType /\ t \in Thread
      BY <1>0
    <2>2. \A x : Swap(w.stk, t, x)[t] = x
      BY <2>1, ThisStack
    <2> QED BY <2>2
  <1>4. \/ s # <<>> /\ f \in FrameType /\ g = Last(s) /\ a = Turned(s, f)
        \/ f \in FrameType /\ g = Blank /\ a = Append(s, f)
        \/ s # <<>> /\ f = Blank /\ g = Last(s) /\ a = Front(s)
        \/ a = s
    BY <1>3 DEF Moves
  <1>9. Blank.fn = "none"
    BY DEF Blank, Frame
  <1> HIDE DEF s, a
  <1>5. CASE s # <<>> /\ f \in FrameType /\ g = Last(s) /\ a = Turned(s, f)
    <2>1. /\ a # <<>> /\ Last(a) = f
          /\ Len(s) = 1 => s[1] = Last(s) /\ a[1] = f
          /\ Len(s) # 1 => a[1] = s[1]
      BY <1>0, <1>5, TurnEnds
    <2>2. Based(a) \/ Flagging(a) <=> Based(s) \/ Flagging(s)
      BY <1>5, <2>1 DEF Based, Flagging, Calm, Like
    <2> QED BY <1>1, <2>2 DEF Owns, a
  <1>6. CASE f \in FrameType /\ g = Blank /\ a = Append(s, f)
    <2>1. /\ a # <<>> /\ Last(a) = f
          /\ s = <<>> => a[1] = f
          /\ s # <<>> => a[1] = s[1]
      BY <1>0, <1>6, PushEnds
    <2>2. ~Flagging(s)
      BY <1>0, <1>2, <1>6, PushedWaits, WaitsMild
    <2>3. Calm(f)
      <3>1. f.fn \in Fns
        BY <1>6 DEF FrameType
      <3> QED BY <3>1, <1>6, <1>9 DEF Like, Fns
    <2>4. Based(a) \/ Flagging(a) <=> Based(s) \/ Flagging(s)
      BY <2>1, <2>2, <2>3 DEF Based, Flagging, Calm
    <2> QED BY <1>1, <2>4 DEF Owns, a
  <1>7. CASE s # <<>> /\ f = Blank /\ g = Last(s) /\ a = Front(s)
    <2>1. /\ Len(s) = 1 => a = <<>> /\ s[1] = Last(s)
          /\ Len(s) # 1 => a # <<>> /\ a[1] = s[1] /\ Waits(Last(a))
      BY <1>0, <1>7, PopEnds
    <2>2. ~Flagging(a)
      <3>1. a # <<>> => Waits(Last(a))
        BY <2>1
      <3> QED BY <3>1, WaitsMild
    <2>3. Calm(g)
      <3>1. g \in FrameType
        BY <1>0, <1>7, FrontFacts
      <3> QED BY <3>1, <1>7, <1>9 DEF Like, Fns, FrameType
    <2>4. Based(a) \/ Flagging(a) <=> Based(s) \/ Flagging(s)
      BY <1>7, <2>1, <2>2, <2>3 DEF Based, Flagging, Calm
    <2> QED BY <1>1, <2>4 DEF Owns, a
  <1>8. CASE a = s
    BY <1>1, <1>8 DEF Owns, a
  <1> QED BY <1>4, <1>5, <1>6, <1>7, <1>8

\* Frame f is not one of a thread about to delete a session.
Meek(f) == ~(f.fn = "del" /\ f.pc \in {"flag", "free"})

\* A thread that comes to such a frame is mild.
LEMMA MeekMild ==
    ASSUME NEW w, NEW n, NEW t, NEW h, NEW g, NEW f,
           Moves(w, n, t, h, g, f), Mild(w.stk[t]), Meek(f)
    PROVE  Mild(n.stk[t])
  <1> DEFINE s == w.stk[t]
             a == n.stk[t]
  <1>0. s \in Seq(FrameType) /\ Stack(s) /\ t \in Thread /\ w \in WorldType
    BY DEF Moves, Stack
  <1>3. /\ Swap(w.stk, t, Turned(s, f))[t] = Turned(s, f)
        /\ Swap(w.stk, t, Append(s, f))[t] = Append(s, f)
        /\ Swap(w.stk, t, Front(s))[t] = Front(s)
    <2>1. w \in WorldType /\ t \in Thread
      BY <1>0
    <2>2. \A x : Swap(w.stk, t, x)[t] = x
      BY <2>1, ThisStack
    <2> QED BY <2>2
  <1>4. \/ s # <<>> /\ f \in FrameType /\ g = Last(s) /\ a = Turned(s, f)
        \/ f \in FrameType /\ g = Blank /\ a = Append(s, f)
        \/ s # <<>> /\ f = Blank /\ g = Last(s) /\ a = Front(s)
        \/ a = s
    BY <1>3 DEF Moves
  <1>9. Mild(s)
    OBVIOUS
  <1> HIDE DEF s, a
  <1>5. CASE s # <<>> /\ f \in FrameType /\ g = Last(s) /\ a = Turned(s, f)
    <2>1. Last(a) = f
      BY <1>0, <1>5, TurnEnds
    <2> QED BY <2>1 DEF Mild, Meek, a
  <1>6. CASE f \in FrameType /\ g = Blank /\ a = Append(s, f)
    <2>1. Last(a) = f
      BY <1>0, <1>6, PushEnds
    <2> QED BY <2>1 DEF Mild, Meek, a
  <1>7. CASE s # <<>> /\ f = Blank /\ g = Last(s) /\ a = Front(s)
    <2>1. a # <<>> => Waits(Last(a))
      BY <1>0, <1>7, PopEnds
    <2> QED BY <2>1, WaitsMild DEF a
  <1> QED BY <1>4, <1>5, <1>6, <1>7, <1>9 DEF a

-----------------------------------------------------------------------------
(* The steps, by what they do to a session.                                *)

\* The account's session stays usable.
LEMMA UsableKept ==
    ASSUME NEW w, NEW n, NEW r, NEW z, w \in WorldType, Usable(w),
           OnlyReg(w, n, r, z), n.acc.regc \in {w.acc.regc, None},
           n.acc.regc = r => z.live /\ ~z.delete_flag, w.acc \in AccType
    PROVE  Usable(n)
  <1>1. n.reg[r] = z /\ \A q \in Regc : q # r => n.reg[q] = w.reg[q]
    BY OnlyRegFacts
  <1>2. w.acc.regc \in Regc \cup {None}
    BY DEF AccType
  <1> QED BY <1>1, <1>2 DEF Usable

\* Frames g and f are alike for session r.
SameIn(g, f, r) == \A c \in Classes : In(c, g) /\ g.r = r <=> In(c, f) /\ f.r = r

\* The places of a session, when the frames are the same to it.
LEMMA SamePlaces ==
    ASSUME NEW w, NEW n, NEW t, NEW h, NEW g, NEW f, NEW r,
           Moves(w, n, t, h, g, f), SameIn(g, f, r)
    PROVE  /\ Places(n.stk, "use", r) = Places(w.stk, "use", r)
           /\ Places(n.stk, "firm", r) = Places(w.stk, "firm", r)
           /\ Places(n.stk, "ask", r) = Places(w.stk, "ask", r)
           /\ Places(n.stk, "out", r) = Places(w.stk, "out", r)
           /\ Places(n.stk, "fail", r) = Places(w.stk, "fail", r)
  <1>1. ASSUME NEW c \in Classes
        PROVE  Places(n.stk, c, r) = Places(w.stk, c, r)
    <2>1. Shifts(w.stk, n.stk, c, r, h, In(c, g) /\ g.r = r, In(c, f) /\ f.r = r)
      BY MovesShift
    <2> QED BY <2>1 DEF Shifts, SameIn
  <1> QED BY <1>1 DEF Classes

\* A step of thread t as far as its stack and PJSUA_LOCK are concerned.
Orderly(w, n, t, h, g, f, p, p2) ==
    /\ Stack(n.stk[t]) /\ Mild(w.stk[t]) /\ Meek(f)
    /\ Owns(w, n, t, p, p2)

\* No session changes.
LEMMA Plain ==
    ASSUME NEW w, NEW n, NEW t, NEW h, NEW g, NEW f, NEW p, NEW p2,
           Good(w, p), Moves(w, n, t, h, g, f), Orderly(w, n, t, h, g, f, p, p2),
           \A r \in Regc : SameIn(g, f, r),
           n.reg = w.reg, n.net = w.net, n.acc.regc \in {w.acc.regc, None}
    PROVE  Good(n, p2)
  <1>1. /\ Sessions(w) /\ Usable(w) /\ Owned(w, p) /\ Deletes(w) /\ w \in WorldType
        /\ \A u \in Thread : Stack(w.stk[u])
    BY DEF Good
  <1>2. \A q \in Regc : /\ Places(n.stk, "use", q) = Places(w.stk, "use", q)
                        /\ Places(n.stk, "firm", q) = Places(w.stk, "firm", q)
                        /\ Places(n.stk, "ask", q) = Places(w.stk, "ask", q)
                        /\ Places(n.stk, "out", q) = Places(w.stk, "out", q)
                        /\ Places(n.stk, "fail", q) = Places(w.stk, "fail", q)
    BY SamePlaces
  <1>3. \A q \in Regc : SoundIn(w.reg[q], w, q) => SoundIn(n.reg[q], n, q)
    BY <1>2 DEF SoundIn
  <1>4. \A q \in Regc : Spare(w, q) => Spare(n, q)
    BY <1>2 DEF Spare
  <1>5. \A u \in Thread : u # t => n.stk[u] = w.stk[u]
    BY MovesOthers
  <1>6. Mild(n.stk[t]) /\ Stack(n.stk[t]) /\ Mild(w.stk[t]) /\ Stack(w.stk[t])
    <2>1. Stack(n.stk[t]) /\ Mild(w.stk[t]) /\ Meek(f)
      BY DEF Orderly
    <2>2. Stack(w.stk[t])
      BY DEF Moves
    <2> QED BY <2>1, <2>2, MeekMild
  <1>7. \A q : ~Deleting(w.stk[t], q) /\ ~Deleting(n.stk[t], q)
    BY <1>6, NotDeleting
  <1>8. Owned(n, p2)
    BY <1>1, OwnedStep DEF Orderly
  <1>9. Sessions(n)
    BY <1>1, <1>3 DEF Sessions
  <1>10. Usable(n)
    <2>1. None \notin Regc
      BY RegAssumption
    <2> QED BY <1>1 DEF Usable
  <1>11. Deletes(n)
    <2>1. \A q \in Regc, u \in Thread : Deleting(n.stk[u], q) <=> Deleting(w.stk[u], q)
      BY <1>5, <1>7
    <2>2. \A q \in Regc, u \in Thread :
             Deleting(w.stk[u], q) => n.stk[u] = w.stk[u]
      BY <1>5, <1>7
    <2> QED BY <2>1, <2>2, <1>1, <1>4 DEF Deletes
  <1>12. \A u \in Thread : Stack(n.stk[u])
    BY <1>1, <1>5, <1>6
  <1> QED BY <1>8, <1>9, <1>10, <1>11, <1>12 DEF Good, Moves, Orderly, Owns

\* What is left to show of a step that changes session r.
LEMMA StepOf ==
    ASSUME NEW w, NEW n, NEW t, NEW h, NEW g, NEW f, NEW r, NEW z, NEW p, NEW p2,
           Good(w, p), Steps(w, n, t, h, g, f, r, z), SoundIn(z, n, r),
           Usable(n), Orderly(w, n, t, h, g, f, p, p2), z.lock = w.reg[r].lock,
           w.reg[r].lock => z.live /\ (Spare(w, r) => Spare(n, r))
    PROVE  Good(n, p2)
  <1>1. Mild(n.stk[t])
    BY MeekMild DEF Orderly, Steps
  <1>2. /\ Owns(w, n, t, p, p2) /\ Stack(n.stk[t]) /\ Mild(w.stk[t])
    BY DEF Orderly
  <1> QED BY <1>1, <1>2, Step

\* No place of session r changes.
LEMMA Still ==
    ASSUME NEW w, NEW n, NEW t, NEW h, NEW g, NEW f, NEW r, NEW z, NEW p, NEW p2,
           Good(w, p), Steps(w, n, t, h, g, f, r, z),
           Orderly(w, n, t, h, g, f, p, p2), SameIn(g, f, r), SoundIn(z, w, r),
           Sent(n.net, r) = Sent(w.net, r), Usable(n), z.lock = w.reg[r].lock,
           w.reg[r].lock => z.live /\ z.has_tsx = w.reg[r].has_tsx
    PROVE  Good(n, p2)
  <1>1. /\ Places(n.stk, "use", r) = Places(w.stk, "use", r)
        /\ Places(n.stk, "firm", r) = Places(w.stk, "firm", r)
        /\ Places(n.stk, "ask", r) = Places(w.stk, "ask", r)
        /\ Places(n.stk, "out", r) = Places(w.stk, "out", r)
        /\ Places(n.stk, "fail", r) = Places(w.stk, "fail", r)
    BY SamePlaces DEF Steps
  <1>2. n.reg[r] = z
    BY OnlyRegFacts DEF Steps, Moves
  <1>3. SoundIn(z, n, r)
    BY <1>1 DEF SoundIn
  <1>4. z.has_tsx = w.reg[r].has_tsx => (Spare(w, r) => Spare(n, r))
    BY <1>1, <1>2 DEF Spare
  <1> QED BY <1>3, <1>4, StepOf

\* A frame of a class adds a place of it.
LEMMA Gets ==
    ASSUME NEW w, NEW n, NEW t, NEW h, NEW g, NEW f, NEW c, NEW r,
           Moves(w, n, t, h, g, f), c \in Classes, ~In(c, g), In(c, f), f.r = r
    PROVE  Added(Places(w.stk, c, r), h, Places(n.stk, c, r))
  BY MovesShift DEF Shifts

\* Leaving a frame of a class takes a place of it away.
LEMMA Loses ==
    ASSUME NEW w, NEW n, NEW t, NEW h, NEW g, NEW f, NEW c, NEW r,
           Moves(w, n, t, h, g, f), c \in Classes, In(c, g), g.r = r, ~In(c, f)
    PROVE  Taken(Places(w.stk, c, r), h, Places(n.stk, c, r))
  BY MovesShift DEF Shifts

\* Frames that are the same to a class keep its places.
LEMMA Keeps ==
    ASSUME NEW w, NEW n, NEW t, NEW h, NEW g, NEW f, NEW c, NEW r,
           Moves(w, n, t, h, g, f), c \in Classes,
           In(c, g) /\ g.r = r <=> In(c, f) /\ f.r = r
    PROVE  Places(n.stk, c, r) = Places(w.stk, c, r)
  BY MovesShift DEF Shifts

\* Frames of no class keep the places of each.
LEMMA KeepsNone ==
    ASSUME NEW w, NEW n, NEW t, NEW h, NEW g, NEW f, NEW c, NEW r,
           Moves(w, n, t, h, g, f), c \in Classes, ~In(c, g), ~In(c, f)
    PROVE  Places(n.stk, c, r) = Places(w.stk, c, r)
  BY Keeps

\* So for all the classes that neither frame is of.
LEMMA KeepsOthers ==
    ASSUME NEW w, NEW n, NEW t, NEW h, NEW g, NEW f, Moves(w, n, t, h, g, f)
    PROVE  \A d \in Classes : \A r : ~In(d, g) /\ ~In(d, f) =>
              Places(n.stk, d, r) = Places(w.stk, d, r)
  BY KeepsNone

\* Frames of a class for one session keep its places.
LEMMA KeepsBoth ==
    ASSUME NEW w, NEW n, NEW t, NEW h, NEW g, NEW f, NEW c, NEW r,
           Moves(w, n, t, h, g, f), c \in Classes, In(c, g), In(c, f),
           g.r = r, f.r = r
    PROVE  Places(n.stk, c, r) = Places(w.stk, c, r)
  BY Keeps

\* The classes.
LEMMA ClassesAre ==
    /\ "use" \in Classes /\ "firm" \in Classes /\ "ask" \in Classes
    /\ "out" \in Classes /\ "fail" \in Classes
  BY DEF Classes

\* The classes of the frames.
Holding(f) == In("use", f) /\ In("firm", f)
Asking(f) == In("ask", f) \/ In("out", f) \/ In("fail", f)

\* Frames that ask for nothing keep the places that do.
LEMMA AskingKept ==
    ASSUME NEW w, NEW n, NEW t, NEW h, NEW g, NEW f, NEW r,
           Moves(w, n, t, h, g, f), ~Asking(g), ~Asking(f)
    PROVE  /\ Places(n.stk, "ask", r) = Places(w.stk, "ask", r)
           /\ Places(n.stk, "out", r) = Places(w.stk, "out", r)
           /\ Places(n.stk, "fail", r) = Places(w.stk, "fail", r)
  BY KeepsNone, ClassesAre DEF Asking

\* Frames that both hold a reference keep the places that do.
LEMMA HoldingKept ==
    ASSUME NEW w, NEW n, NEW t, NEW h, NEW g, NEW f, NEW r,
           Moves(w, n, t, h, g, f), Holding(g), Holding(f), g.r = r, f.r = r
    PROVE  /\ Places(n.stk, "use", r) = Places(w.stk, "use", r)
           /\ Places(n.stk, "firm", r) = Places(w.stk, "firm", r)
  BY KeepsBoth, ClassesAre DEF Holding

\* Session r becomes z while thread t comes from frame g to frame f.
Ground(w, n, t, h, g, f, r, z, p, p2) ==
    /\ Good(w, p) /\ Steps(w, n, t, h, g, f, r, z)
    /\ Orderly(w, n, t, h, g, f, p, p2) /\ Usable(n) /\ z.lock = w.reg[r].lock

\* What is known of a step before anything of its session.
LEMMA GroundFacts ==
    ASSUME NEW w, NEW n, NEW t, NEW h, NEW g, NEW f, NEW r, NEW z, NEW p, NEW p2,
           Ground(w, n, t, h, g, f, r, z, p, p2)
    PROVE  /\ Moves(w, n, t, h, g, f) /\ r \in Regc /\ n.reg[r] = z
           /\ SoundIn(w.reg[r], w, r) /\ z.lock = w.reg[r].lock
           /\ w.reg[r].lock => w.reg[r].live
           /\ w.reg[r] \in SessionType /\ z \in SessionType
  <1>1. Moves(w, n, t, h, g, f) /\ r \in Regc /\ z \in SessionType
    BY DEF Ground, Steps, OnlyReg
  <1>2. n.reg[r] = z
    BY OnlyRegFacts DEF Ground, Steps, Moves
  <1>3. SoundIn(w.reg[r], w, r) /\ (w.reg[r].lock => w.reg[r].live)
    BY <1>1 DEF Ground, Good, Sessions, Deletes
  <1>4. w.reg[r] \in SessionType
    BY <1>1, WorldFields DEF Moves
  <1> QED BY <1>1, <1>2, <1>3, <1>4 DEF Ground

\* What remains to be shown of it.
LEMMA GroundEnd ==
    ASSUME NEW w, NEW n, NEW t, NEW h, NEW g, NEW f, NEW r, NEW z, NEW p, NEW p2,
           Ground(w, n, t, h, g, f, r, z, p, p2), SoundIn(z, n, r),
           \/ ~w.reg[r].lock
           \/ z.live = w.reg[r].live /\ (Spare(w, r) => Spare(n, r))
    PROVE  Good(n, p2)
  <1>1. w.reg[r].lock => w.reg[r].live
    BY GroundFacts
  <1> QED BY <1>1, StepOf DEF Ground

\* A thread takes a reference.
LEMMA Refers ==
    ASSUME NEW w, NEW n, NEW t, NEW h, NEW g, NEW f, NEW r, NEW z, NEW p, NEW p2,
           Ground(w, n, t, h, g, f, r, z, p, p2), w.reg[r].live,
           ~In("use", g), In("use", f), f.r = r, ~Asking(g), ~Asking(f),
           In("firm", f) => ~w.reg[r].lock, n.net = w.net,
           z.live = w.reg[r].live, z.busy = w.reg[r].busy + 1,
           z.has_tsx = w.reg[r].has_tsx, z.cseq = w.reg[r].cseq
    PROVE  Good(n, p2)
  <1>0. Moves(w, n, t, h, g, f) /\ SoundIn(w.reg[r], w, r) /\ n.reg[r] = z
    BY GroundFacts
  <1>1. Added(Places(w.stk, "use", r), h, Places(n.stk, "use", r))
    BY <1>0, Gets, ClassesAre
  <1>2. /\ Places(n.stk, "ask", r) = Places(w.stk, "ask", r)
        /\ Places(n.stk, "out", r) = Places(w.stk, "out", r)
        /\ Places(n.stk, "fail", r) = Places(w.stk, "fail", r)
    BY <1>0, AskingKept
  <1>3. SoundIn(z, n, r)
    <2>1. Sound(w.reg[r], Places(w.stk, "use", r), Places(w.stk, "firm", r),
                Places(w.stk, "ask", r), Places(w.stk, "out", r),
                Places(w.stk, "fail", r), Sent(w.net, r))
      BY <1>0 DEF SoundIn
    <2>2. Sound(z, Places(n.stk, "use", r), Places(n.stk, "firm", r),
                Places(w.stk, "ask", r), Places(w.stk, "out", r),
                Places(w.stk, "fail", r), Sent(w.net, r))
      <3>1. /\ IsFiniteSet(Places(n.stk, "use", r))
            /\ Cardinality(Places(n.stk, "use", r))
                  = Cardinality(Places(w.stk, "use", r)) + 1
        BY <1>1, <2>1, AddedCount DEF Sound
      <3> QED BY <2>1, <3>1 DEF Sound
    <2> QED BY <1>2, <2>2 DEF SoundIn
  <1>4. ~In("firm", g)
    BY DEF In
  <1>5. ~In("firm", f) => Places(n.stk, "firm", r) = Places(w.stk, "firm", r)
    <2>1. \A d \in Classes : \A q : ~In(d, g) /\ ~In(d, f) =>
             Places(n.stk, d, q) = Places(w.stk, d, q)
      BY <1>0, KeepsOthers
    <2> QED BY <1>4, <2>1, ClassesAre
  <1>6. ~In("firm", f) => (Spare(w, r) => Spare(n, r))
    BY <1>0, <1>2, <1>5 DEF Spare
  <1> QED BY <1>3, <1>6, GroundEnd

\* A reference taken late becomes a firm one while the session lives.
LEMMA Pins ==
    ASSUME NEW w, NEW n, NEW t, NEW h, NEW g, NEW f, NEW r, NEW z, NEW p, NEW p2,
           Ground(w, n, t, h, g, f, r, z, p, p2), w.reg[r].live, ~w.reg[r].lock,
           In("use", g), In("use", f), f.r = r, g.r = r, ~Asking(g), ~Asking(f),
           n.net = w.net, Agrees(w.reg[r], z)
    PROVE  Good(n, p2)
  <1>0. Moves(w, n, t, h, g, f) /\ SoundIn(w.reg[r], w, r) /\ n.reg[r] = z
    BY GroundFacts
  <1>1. Places(n.stk, "use", r) = Places(w.stk, "use", r)
    BY <1>0, Keeps DEF Classes
  <1>2. /\ Places(n.stk, "ask", r) = Places(w.stk, "ask", r)
        /\ Places(n.stk, "out", r) = Places(w.stk, "out", r)
        /\ Places(n.stk, "fail", r) = Places(w.stk, "fail", r)
    BY <1>0, AskingKept
  <1>3. SoundIn(z, n, r)
    BY <1>0, <1>1, <1>2 DEF SoundIn, Sound, Agrees
  <1> QED BY <1>3, GroundEnd

\* A thread that holds a session's reference finds it live, and not spare.
LEMMA HeldLive ==
    ASSUME NEW w, NEW t, NEW r, NEW p, NEW c, Good(w, p), t \in Thread, r \in Regc,
           w.stk[t] # <<>>, Last(w.stk[t]).r = r, c \in {"firm", "ask"},
           In(c, Last(w.stk[t]))
    PROVE  w.reg[r].live /\ ~Spare(w, r)
  <1>1. SoundIn(w.reg[r], w, r)
    BY DEF Good, Sessions
  <1>3. w.stk \in Stks /\ Len(w.stk[t]) <= 4
    <2>1. Stack(w.stk[t]) /\ w \in WorldType
      BY DEF Good
    <2> QED BY <2>1, WorldFields DEF Stack, Stks
  <1>4. <<t, Len(w.stk[t])>> \in Places(w.stk, c, r)
    <2>1. \A d, q : <<t, Len(w.stk[t])>> \in Places(w.stk, d, q)
                       <=> In(d, Last(w.stk[t])) /\ Last(w.stk[t]).r = q
      BY <1>3, PlaceTop
    <2> QED BY <2>1
  <1>2. Places(w.stk, c, r) # {}
    BY <1>4
  <1> QED BY <1>1, <1>2 DEF SoundIn, Sound, Spare

\* g is the top of thread t's stack, at place h.
TopAt(w, t, h, g) ==
    w.stk[t] # <<>> /\ g = Last(w.stk[t]) /\ h = <<t, Len(w.stk[t])>>

\* The top of a stack is a place if its frame is, and none is above it.
LEMMA TopPlace ==
    ASSUME NEW w, NEW t, NEW h, NEW g, NEW c, NEW r, NEW p, Good(w, p),
           t \in Thread, TopAt(w, t, h, g)
    PROVE  /\ h \in Places(w.stk, c, r) <=> In(c, g) /\ g.r = r
           /\ <<h[1], h[2] + 1>> \notin Places(w.stk, c, r)
  <1>1. w.stk \in Stks /\ Len(w.stk[t]) <= 4
    BY WorldFields DEF Good, Stack, Stks
  <1>2. h[1] = t /\ h[2] = Len(w.stk[t])
    BY DEF TopAt
  <1> QED BY <1>1, <1>2, PlaceTop DEF TopAt

\* A thread gives its reference back.
LEMMA Releases ==
    ASSUME NEW w, NEW n, NEW t, NEW h, NEW g, NEW f, NEW r, NEW z, NEW p, NEW p2,
           Ground(w, n, t, h, g, f, r, z, p, p2), TopAt(w, t, h, g), t \in Thread,
           Holding(g), g.r = r, ~In("use", f), ~Asking(g), ~Asking(f),
           n.net = w.net, z.live = w.reg[r].live, z.busy = w.reg[r].busy - 1,
           z.has_tsx = w.reg[r].has_tsx, z.cseq = w.reg[r].cseq
    PROVE  Good(n, p2)
  <1>0. /\ Moves(w, n, t, h, g, f) /\ SoundIn(w.reg[r], w, r) /\ n.reg[r] = z
        /\ r \in Regc
    BY GroundFacts
  <1>1. Taken(Places(w.stk, "use", r), h, Places(n.stk, "use", r))
    BY <1>0, Loses, ClassesAre DEF Holding
  <1>2. /\ Places(n.stk, "ask", r) = Places(w.stk, "ask", r)
        /\ Places(n.stk, "out", r) = Places(w.stk, "out", r)
        /\ Places(n.stk, "fail", r) = Places(w.stk, "fail", r)
    BY <1>0, AskingKept
  <1>3. w.reg[r].live /\ ~Spare(w, r)
    BY <1>0, HeldLive DEF Ground, Holding, TopAt
  <1>4. SoundIn(z, n, r)
    <2>1. Sound(w.reg[r], Places(w.stk, "use", r), Places(w.stk, "firm", r),
                Places(w.stk, "ask", r), Places(w.stk, "out", r),
                Places(w.stk, "fail", r), Sent(w.net, r))
      BY <1>0 DEF SoundIn
    <2>2. Sound(z, Places(n.stk, "use", r), Places(n.stk, "firm", r),
                Places(w.stk, "ask", r), Places(w.stk, "out", r),
                Places(w.stk, "fail", r), Sent(w.net, r))
      <3>1. /\ IsFiniteSet(Places(n.stk, "use", r))
            /\ Cardinality(Places(n.stk, "use", r))
                  = Cardinality(Places(w.stk, "use", r)) - 1
        BY <1>1, <1>3, <2>1, TakenCount DEF Sound
      <3> QED BY <1>3, <2>1, <3>1 DEF Sound
    <2> QED BY <1>2, <2>2 DEF SoundIn
  <1> QED BY <1>3, <1>4, GroundEnd

\* A send takes the session for its request.
LEMMA Asks ==
    ASSUME NEW w, NEW n, NEW t, NEW h, NEW g, NEW f, NEW r, NEW z, NEW p, NEW p2,
           Ground(w, n, t, h, g, f, r, z, p, p2), TopAt(w, t, h, g), t \in Thread,
           w.reg[r].live, ~w.reg[r].lock, ~w.reg[r].has_tsx,
           ~In("use", g), ~Asking(g),
           In("use", f), In("ask", f), In("out", f), ~In("fail", f), f.r = r,
           n.net = w.net, z.live = w.reg[r].live, z.busy = w.reg[r].busy + 1,
           z.has_tsx = TRUE, z.cseq = h
    PROVE  Good(n, p2)
  <1>0. Moves(w, n, t, h, g, f) /\ SoundIn(w.reg[r], w, r) /\ n.reg[r] = z
    BY GroundFacts
  <1>1. /\ Added(Places(w.stk, "use", r), h, Places(n.stk, "use", r))
        /\ Added(Places(w.stk, "ask", r), h, Places(n.stk, "ask", r))
        /\ Added(Places(w.stk, "out", r), h, Places(n.stk, "out", r))
    BY <1>0, Gets, ClassesAre DEF Asking
  <1>2. Places(n.stk, "fail", r) = Places(w.stk, "fail", r)
    BY <1>0, KeepsNone, ClassesAre DEF Asking
  <1>3. h \notin Places(w.stk, "fail", r)
    <2>1. Good(w, p) /\ ~In("fail", g)
      BY DEF Ground, Asking
    <2> QED BY <2>1, TopPlace
  <1>4. Places(w.stk, "out", r) \subseteq Places(w.stk, "ask", r)
    BY PlaceSets
  <1>5. SoundIn(z, n, r)
    <2>1. Sound(w.reg[r], Places(w.stk, "use", r), Places(w.stk, "firm", r),
                Places(w.stk, "ask", r), Places(w.stk, "out", r),
                Places(w.stk, "fail", r), Sent(w.net, r))
      BY <1>0 DEF SoundIn
    <2>2. Sound(z, Places(n.stk, "use", r), Places(n.stk, "firm", r),
                Places(n.stk, "ask", r), Places(n.stk, "out", r),
                Places(w.stk, "fail", r), Sent(w.net, r))
      <3>1. /\ IsFiniteSet(Places(n.stk, "use", r))
            /\ Cardinality(Places(n.stk, "use", r))
                  = Cardinality(Places(w.stk, "use", r)) + 1
        BY <1>1, <2>1, AddedCount DEF Sound
      <3>2. /\ Places(w.stk, "ask", r) = {} /\ Sent(w.net, r) = {}
            /\ Places(w.stk, "out", r) = {}
        BY <1>4, <2>1 DEF Sound
      <3>3. Places(n.stk, "ask", r) = {h} /\ Places(n.stk, "out", r) = {h}
        BY <1>1, <3>2 DEF Added
      <3> QED BY <1>3, <2>1, <3>1, <3>2, <3>3 DEF Sound
    <2> QED BY <1>2, <2>2 DEF SoundIn
  <1> QED BY <1>5, GroundEnd

\* The requests of session r.
LEMMA SentMore ==
    ASSUME NEW m, NEW q, NEW r
    PROVE  /\ q.r = r => Sent(m \cup {q}, r) = Sent(m, r) \cup {q}
           /\ q.r # r => Sent(m \cup {q}, r) = Sent(m, r)
           /\ q.r = r => Sent(m \ {q}, r) = Sent(m, r) \ {q}
           /\ q.r # r => Sent(m \ {q}, r) = Sent(m, r)
           /\ q \in m /\ q.r = r => q \in Sent(m, r)
  BY DEF Sent

\* The request leaves.
LEMMA Departs ==
    ASSUME NEW w, NEW n, NEW t, NEW h, NEW g, NEW f, NEW r, NEW p, NEW p2, NEW q,
           Ground(w, n, t, h, g, f, r, w.reg[r], p, p2), TopAt(w, t, h, g),
           t \in Thread, In("ask", g), In("out", g), ~In("fail", g), g.r = r,
           Holding(g), Holding(f), ~Asking(f), f.r = r,
           q.r = r, n.net = w.net \cup {q}
    PROVE  Good(n, p2)
  <1>0. /\ Moves(w, n, t, h, g, f) /\ SoundIn(w.reg[r], w, r) /\ r \in Regc
    BY GroundFacts
  <1>1. /\ Taken(Places(w.stk, "ask", r), h, Places(n.stk, "ask", r))
        /\ Taken(Places(w.stk, "out", r), h, Places(n.stk, "out", r))
    BY <1>0, Loses, ClassesAre DEF Asking
  <1>2. /\ Places(n.stk, "use", r) = Places(w.stk, "use", r)
        /\ Places(n.stk, "firm", r) = Places(w.stk, "firm", r)
    BY <1>0, HoldingKept
  <1>8. Places(n.stk, "fail", r) = Places(w.stk, "fail", r)
    BY <1>0, KeepsNone, ClassesAre DEF Asking
  <1>3. h \notin Places(w.stk, "fail", r)
    <2>1. Good(w, p)
      BY DEF Ground
    <2> QED BY <2>1, TopPlace
  <1>4. Places(w.stk, "out", r) \subseteq Places(w.stk, "ask", r)
    BY PlaceSets
  <1>5. Sent(n.net, r) = Sent(w.net, r) \cup {q}
    BY DEF Sent
  <1>6. SoundIn(w.reg[r], n, r)
    <2>1. Sound(w.reg[r], Places(w.stk, "use", r), Places(w.stk, "firm", r),
                Places(w.stk, "ask", r), Places(w.stk, "out", r),
                Places(w.stk, "fail", r), Sent(w.net, r))
      BY <1>0 DEF SoundIn
    <2>2. Sound(w.reg[r], Places(w.stk, "use", r), Places(w.stk, "firm", r),
                Places(n.stk, "ask", r), Places(n.stk, "out", r),
                Places(w.stk, "fail", r), Sent(n.net, r))
      <3>1. /\ w.reg[r].live /\ w.reg[r].has_tsx /\ w.reg[r].cseq = h
            /\ Sent(w.net, r) = {}
        BY <1>1, <2>1 DEF Sound, Taken
      <3>2. Places(n.stk, "ask", r) = {} /\ Places(n.stk, "out", r) = {}
        BY <1>1, <1>4, <2>1, <3>1 DEF Sound, Taken
      <3> QED BY <1>3, <1>5, <2>1, <3>1, <3>2 DEF Sound
    <2> QED BY <1>2, <1>8, <2>2 DEF SoundIn
  <1>7. ~Spare(w, r)
    BY <1>0, HeldLive DEF Ground, Holding, TopAt
  <1> QED BY <1>6, <1>7, GroundEnd

\* The request cannot be sent.
LEMMA Fails ==
    ASSUME NEW w, NEW n, NEW t, NEW h, NEW g, NEW f, NEW r, NEW p, NEW p2,
           Ground(w, n, t, h, g, f, r, w.reg[r], p, p2), TopAt(w, t, h, g),
           t \in Thread, In("ask", g), In("out", g), ~In("fail", g), g.r = r,
           Holding(g), Holding(f), ~In("ask", f), ~In("out", f), In("fail", f),
           f.r = r, n.net = w.net
    PROVE  /\ Good(n, p2)
           /\ w.reg[r].live /\ w.reg[r].has_tsx /\ w.reg[r].cseq = h
           /\ h \in Places(n.stk, "fail", r)
           /\ Places(n.stk, "ask", r) = {} /\ Sent(n.net, r) = {}
  <1>0. Moves(w, n, t, h, g, f) /\ SoundIn(w.reg[r], w, r) /\ r \in Regc
    BY GroundFacts
  <1>1. /\ Taken(Places(w.stk, "ask", r), h, Places(n.stk, "ask", r))
        /\ Taken(Places(w.stk, "out", r), h, Places(n.stk, "out", r))
    BY <1>0, Loses, ClassesAre
  <1>2. /\ Places(n.stk, "use", r) = Places(w.stk, "use", r)
        /\ Places(n.stk, "firm", r) = Places(w.stk, "firm", r)
    BY <1>0, HoldingKept
  <1>3. Added(Places(w.stk, "fail", r), h, Places(n.stk, "fail", r))
    BY <1>0, Gets, ClassesAre
  <1>4. Places(w.stk, "out", r) \subseteq Places(w.stk, "ask", r)
    BY PlaceSets
  <1>5. Sound(w.reg[r], Places(w.stk, "use", r), Places(w.stk, "firm", r),
              Places(w.stk, "ask", r), Places(w.stk, "out", r),
              Places(w.stk, "fail", r), Sent(w.net, r))
    BY <1>0 DEF SoundIn
  <1>6. /\ Sound(w.reg[r], Places(w.stk, "use", r), Places(w.stk, "firm", r),
                 Places(n.stk, "ask", r), Places(n.stk, "out", r),
                 Places(n.stk, "fail", r), Sent(w.net, r))
        /\ w.reg[r].live /\ w.reg[r].has_tsx /\ w.reg[r].cseq = h
        /\ h \in Places(n.stk, "fail", r)
        /\ Places(n.stk, "ask", r) = {} /\ Sent(w.net, r) = {}
    <2>1. /\ w.reg[r].live /\ w.reg[r].has_tsx /\ w.reg[r].cseq = h
          /\ Sent(w.net, r) = {}
      BY <1>1, <1>5 DEF Sound, Taken
    <2>2. /\ Places(n.stk, "ask", r) = {} /\ Places(n.stk, "out", r) = {}
          /\ h \in Places(n.stk, "fail", r)
      BY <1>1, <1>3, <1>4, <1>5, <2>1 DEF Sound, Taken, Added
    <2> QED BY <1>5, <2>1, <2>2 DEF Sound
  <1>7. SoundIn(w.reg[r], n, r)
    BY <1>2, <1>6 DEF SoundIn
  <1>8. ~Spare(w, r)
    BY <1>0, HeldLive DEF Ground, Holding, TopAt
  <1>9. Good(n, p2)
    BY <1>7, <1>8, GroundEnd
  <1> QED BY <1>6, <1>9

\* The transaction of a request that failed is called back.
LEMMA Echoes ==
    ASSUME NEW w, NEW n, NEW t, NEW h, NEW g, NEW f, NEW r, NEW p, NEW p2,
           Ground(w, n, t, h, g, f, r, w.reg[r], p, p2),
           ~In("use", g), ~Asking(g),
           ~In("use", f), ~In("firm", f), In("ask", f), ~In("out", f),
           ~In("fail", f), f.r = r, n.net = w.net,
           w.reg[r].live, w.reg[r].has_tsx,
           w.reg[r].cseq \in Places(w.stk, "fail", r),
           h = <<w.reg[r].cseq[1], w.reg[r].cseq[2] + 1>>,
           Places(w.stk, "ask", r) = {}, Sent(w.net, r) = {}
    PROVE  Good(n, p2)
  <1>0. Moves(w, n, t, h, g, f) /\ SoundIn(w.reg[r], w, r) /\ n.reg[r] = w.reg[r]
    BY GroundFacts
  <1>1. Added(Places(w.stk, "ask", r), h, Places(n.stk, "ask", r))
    BY <1>0, Gets, ClassesAre DEF Asking
  <1>2. /\ Places(n.stk, "use", r) = Places(w.stk, "use", r)
        /\ Places(n.stk, "firm", r) = Places(w.stk, "firm", r)
        /\ Places(n.stk, "out", r) = Places(w.stk, "out", r)
        /\ Places(n.stk, "fail", r) = Places(w.stk, "fail", r)
    <2>1. ~In("firm", g)
      BY DEF In
    <2>2. /\ ~In("ask", g) /\ ~In("out", g) /\ ~In("fail", g)
          /\ ~In("use", g) /\ ~In("use", f) /\ ~In("firm", f)
      BY DEF Asking
    <2>3. \A d \in Classes : \A q : ~In(d, g) /\ ~In(d, f) =>
             Places(n.stk, d, q) = Places(w.stk, d, q)
      BY <1>0, KeepsOthers
    <2> QED BY <2>1, <2>2, <2>3, ClassesAre
  <1>4. Places(w.stk, "out", r) \subseteq Places(w.stk, "ask", r)
    BY PlaceSets
  <1>5. Sound(w.reg[r], Places(w.stk, "use", r), Places(w.stk, "firm", r),
              Places(w.stk, "ask", r), Places(w.stk, "out", r),
              Places(w.stk, "fail", r), Sent(w.net, r))
    BY <1>0 DEF SoundIn
  <1>6. Sound(w.reg[r], Places(w.stk, "use", r), Places(w.stk, "firm", r),
              Places(n.stk, "ask", r), Places(w.stk, "out", r),
              Places(w.stk, "fail", r), Sent(w.net, r))
    <2>1. Places(n.stk, "ask", r) = {h} /\ Places(w.stk, "out", r) = {}
      BY <1>1, <1>4 DEF Added
    <2> QED BY <1>5, <2>1 DEF Sound
  <1>7. SoundIn(w.reg[r], n, r)
    BY <1>2, <1>6 DEF SoundIn
  <1>8. ~Spare(w, r)
    BY DEF Spare
  <1> QED BY <1>7, <1>8, GroundEnd

\* Whether h, the place of frame g, is one of class c for r; none is above it.
Stands(w, h, g, c, r) ==
    /\ h \in Places(w.stk, c, r) <=> In(c, g) /\ g.r = r
    /\ <<h[1], h[2] + 1>> \notin Places(w.stk, c, r)

\* TopPlace, as one predicate.
LEMMA TopStands ==
    ASSUME NEW w, NEW t, NEW h, NEW g, NEW c, NEW r, NEW p, Good(w, p),
           t \in Thread, TopAt(w, t, h, g)
    PROVE  Stands(w, h, g, c, r)
  BY TopPlace DEF Stands

\* A send takes its request back, if it failed, and its reference.
LEMMA Returns ==
    ASSUME NEW w, NEW n, NEW t, NEW h, NEW g, NEW f, NEW r, NEW z, NEW p, NEW p2,
           NEW error, error \in BOOLEAN,
           Ground(w, n, t, h, g, f, r, z, p, p2), TopAt(w, t, h, g), t \in Thread,
           Holding(g), g.r = r, ~In("ask", g), ~In("out", g),
           In("fail", g) <=> error, ~In("use", f), ~Asking(f), n.net = w.net,
           z.live = w.reg[r].live, z.busy = w.reg[r].busy - 1,
           z.cseq = IF w.reg[r].cseq = h THEN <<>> ELSE w.reg[r].cseq,
           z.has_tsx = IF error /\ w.reg[r].cseq = h THEN FALSE
                       ELSE w.reg[r].has_tsx
    PROVE  Good(n, p2)
  <1>0. Moves(w, n, t, h, g, f) /\ SoundIn(w.reg[r], w, r) /\ r \in Regc
    BY GroundFacts
  <1>1. Taken(Places(w.stk, "use", r), h, Places(n.stk, "use", r))
    BY <1>0, Loses, ClassesAre DEF Holding
  <1>10. \A d \in Classes : ~In(d, g) /\ ~In(d, f) =>
            Places(n.stk, d, r) = Places(w.stk, d, r)
    <2>1. Moves(w, n, t, h, g, f)
      BY <1>0
    <2> QED BY <2>1, KeepsOthers
  <1>2. /\ Places(n.stk, "ask", r) = Places(w.stk, "ask", r)
        /\ Places(n.stk, "out", r) = Places(w.stk, "out", r)
    <2>1. ~In("ask", f) /\ ~In("out", f)
      BY DEF Asking
    <2> QED BY <1>10, <2>1, ClassesAre
  <1>9. /\ h \in Places(w.stk, "fail", r) <=> error
        /\ h \notin Places(w.stk, "out", r)
        /\ <<h[1], h[2] + 1>> \notin Places(w.stk, "ask", r)
    <2>1. Good(w, p)
      BY DEF Ground
    <2>2. \A c : Stands(w, h, g, c, r)
      BY <2>1, TopStands
    <2>3. h \notin Places(w.stk, "out", r)
      BY <2>2 DEF Stands
    <2>4. h \in Places(w.stk, "fail", r) <=> error
      BY <2>2 DEF Stands
    <2>5. <<h[1], h[2] + 1>> \notin Places(w.stk, "ask", r)
      BY <2>2 DEF Stands
    <2> QED BY <2>3, <2>4, <2>5
  <1>3. IF error THEN Taken(Places(w.stk, "fail", r), h, Places(n.stk, "fail", r))
        ELSE /\ h \notin Places(w.stk, "fail", r)
             /\ Places(n.stk, "fail", r) = Places(w.stk, "fail", r)
    <2>0. ~In("fail", f)
      BY DEF Asking
    <2>3. Moves(w, n, t, h, g, f) /\ "fail" \in Classes
      BY <1>0, ClassesAre
    <2>1. CASE error
      BY <2>0, <2>1, <2>3, Loses
    <2>2. CASE ~error
      BY <2>0, <2>2, <2>3, <1>9, <1>10
    <2> QED BY <2>1, <2>2
  <1>4. /\ Places(w.stk, "out", r) \subseteq Places(w.stk, "ask", r)
        /\ <<>> \notin Places(w.stk, "fail", r)
    BY PlaceSets, NoPlace
  <1>5. Sound(w.reg[r], Places(w.stk, "use", r), Places(w.stk, "firm", r),
              Places(w.stk, "ask", r), Places(w.stk, "out", r),
              Places(w.stk, "fail", r), Sent(w.net, r))
    BY <1>0 DEF SoundIn
  <1>8. w.reg[r].live /\ ~Spare(w, r)
    BY <1>0, HeldLive DEF Ground, Holding, TopAt
  <1>6. Sound(z, Places(n.stk, "use", r), Places(n.stk, "firm", r),
              Places(w.stk, "ask", r), Places(w.stk, "out", r),
              Places(n.stk, "fail", r), Sent(w.net, r))
    <2>0. /\ IsFiniteSet(Places(n.stk, "use", r))
          /\ Cardinality(Places(n.stk, "use", r))
                = Cardinality(Places(w.stk, "use", r)) - 1
      BY <1>1, <1>5, <1>8, TakenCount DEF Sound
    <2>1. CASE w.reg[r].cseq # h
      <3>1. z.cseq = w.reg[r].cseq /\ z.has_tsx = w.reg[r].has_tsx
        BY <2>1
      <3>2. w.reg[r].cseq \in Places(n.stk, "fail", r)
               <=> w.reg[r].cseq \in Places(w.stk, "fail", r)
        BY <2>1, <1>3 DEF Taken
      <3> QED BY <1>5, <1>8, <2>0, <3>1, <3>2 DEF Sound
    <2>2. CASE w.reg[r].cseq = h /\ error
      <3>1. z.cseq = <<>> /\ ~z.has_tsx
        BY <2>2
      <3>2. <<>> \notin Places(n.stk, "fail", r)
        BY <2>2, <1>3, <1>4 DEF Taken
      <3>3. /\ Sent(w.net, r) = {}
            /\ \A a \in Places(w.stk, "ask", r) :
                  a = <<w.reg[r].cseq[1], w.reg[r].cseq[2] + 1>>
        BY <2>2, <1>5, <1>8, <1>9 DEF Sound
      <3>4. Places(w.stk, "ask", r) = {} /\ Places(w.stk, "out", r) = {}
        BY <2>2, <3>3, <1>4, <1>9
      <3> QED BY <1>5, <1>8, <2>0, <3>1, <3>2, <3>3, <3>4 DEF Sound
    <2>3. CASE w.reg[r].cseq = h /\ ~error
      <3>1. /\ z.cseq = <<>> /\ z.has_tsx = w.reg[r].has_tsx
            /\ Places(n.stk, "fail", r) = Places(w.stk, "fail", r)
            /\ w.reg[r].cseq \notin Places(w.stk, "fail", r)
        BY <2>3, <1>3
      <3>2. \A a \in Places(w.stk, "out", r) : FALSE
        BY <2>3, <1>5, <1>8, <1>9 DEF Sound
      <3> QED BY <1>4, <1>5, <1>8, <2>0, <3>1, <3>2 DEF Sound
    <2> QED BY <2>1, <2>2, <2>3
  <1>7. SoundIn(z, n, r)
    BY <1>2, <1>6 DEF SoundIn
  <1> QED BY <1>7, <1>8, GroundEnd

\* The response to a request arrives.
LEMMA Answers ==
    ASSUME NEW w, NEW n, NEW t, NEW h, NEW g, NEW f, NEW r, NEW p, NEW p2, NEW q,
           Ground(w, n, t, h, g, f, r, w.reg[r], p, p2), ~In("use", g), ~Asking(g),
           ~In("use", f), In("ask", f), ~In("out", f), ~In("fail", f), f.r = r,
           q \in w.net, q.r = r, n.net = w.net \ {q}
    PROVE  Good(n, p2)
  <1>0. Moves(w, n, t, h, g, f) /\ SoundIn(w.reg[r], w, r)
    BY GroundFacts
  <1>1. Added(Places(w.stk, "ask", r), h, Places(n.stk, "ask", r))
    BY <1>0, Gets, ClassesAre DEF Asking
  <1>2. /\ Places(n.stk, "use", r) = Places(w.stk, "use", r)
        /\ Places(n.stk, "firm", r) = Places(w.stk, "firm", r)
        /\ Places(n.stk, "out", r) = Places(w.stk, "out", r)
        /\ Places(n.stk, "fail", r) = Places(w.stk, "fail", r)
    <2>1. ~In("firm", g) /\ ~In("firm", f)
      BY DEF In
    <2> QED BY <1>0, <2>1, KeepsOthers, ClassesAre DEF Asking
  <1>4. Places(w.stk, "out", r) \subseteq Places(w.stk, "ask", r)
    BY PlaceSets
  <1>5. Sound(w.reg[r], Places(w.stk, "use", r), Places(w.stk, "firm", r),
              Places(w.stk, "ask", r), Places(w.stk, "out", r),
              Places(w.stk, "fail", r), Sent(w.net, r))
    BY <1>0 DEF SoundIn
  <1>6. q \in Sent(w.net, r) /\ Sent(n.net, r) = Sent(w.net, r) \ {q}
    BY DEF Sent
  <1>7. /\ w.reg[r].live /\ w.reg[r].has_tsx /\ Places(w.stk, "ask", r) = {}
        /\ w.reg[r].cseq \notin Places(w.stk, "fail", r)
    BY <1>5, <1>6 DEF Sound
  <1>8. /\ Sent(n.net, r) = {} /\ Places(n.stk, "ask", r) = {h}
        /\ Places(w.stk, "out", r) = {}
    BY <1>1, <1>4, <1>5, <1>6, <1>7 DEF Sound, Added
  <1>9. Sound(w.reg[r], Places(w.stk, "use", r), Places(w.stk, "firm", r),
              Places(n.stk, "ask", r), Places(w.stk, "out", r),
              Places(w.stk, "fail", r), Sent(n.net, r))
    BY <1>5, <1>7, <1>8 DEF Sound
  <1>10. SoundIn(w.reg[r], n, r)
    BY <1>2, <1>9 DEF SoundIn
  <1>11. ~Spare(w, r)
    BY <1>6 DEF Spare
  <1> QED BY <1>10, <1>11, GroundEnd

\* The response is looked at, and the request is over.
LEMMA Looks ==
    ASSUME NEW w, NEW n, NEW t, NEW h, NEW g, NEW f, NEW r, NEW z, NEW p, NEW p2,
           Ground(w, n, t, h, g, f, r, z, p, p2), TopAt(w, t, h, g), t \in Thread,
           ~In("use", g), In("ask", g), ~In("out", g), ~In("fail", g), g.r = r,
           Holding(f), ~Asking(f), f.r = r, ~w.reg[r].lock, n.net = w.net,
           z.live = w.reg[r].live, z.busy = w.reg[r].busy + 1, z.has_tsx = FALSE,
           z.cseq = w.reg[r].cseq
    PROVE  Good(n, p2) /\ w.reg[r].live
  <1>0. Moves(w, n, t, h, g, f) /\ SoundIn(w.reg[r], w, r) /\ r \in Regc
    BY GroundFacts
  <1>1. /\ Added(Places(w.stk, "use", r), h, Places(n.stk, "use", r))
        /\ Taken(Places(w.stk, "ask", r), h, Places(n.stk, "ask", r))
    <2>1. ~In("ask", f)
      BY DEF Asking
    <2> QED BY <1>0, <2>1, Gets, Loses, ClassesAre DEF Holding
  <1>2. /\ Places(n.stk, "out", r) = Places(w.stk, "out", r)
        /\ Places(n.stk, "fail", r) = Places(w.stk, "fail", r)
    BY <1>0, KeepsOthers, ClassesAre DEF Asking
  <1>3. h \notin Places(w.stk, "out", r)
    <2>1. Good(w, p)
      BY DEF Ground
    <2> QED BY <2>1, TopPlace
  <1>4. Places(w.stk, "out", r) \subseteq Places(w.stk, "ask", r)
    BY PlaceSets
  <1>5. Sound(w.reg[r], Places(w.stk, "use", r), Places(w.stk, "firm", r),
              Places(w.stk, "ask", r), Places(w.stk, "out", r),
              Places(w.stk, "fail", r), Sent(w.net, r))
    BY <1>0 DEF SoundIn
  <1>6. /\ w.reg[r].live /\ Sent(w.net, r) = {}
        /\ \A a \in Places(w.stk, "ask", r) : a = h
    BY <1>1, <1>5 DEF Sound, Taken
  <1>7. Places(n.stk, "ask", r) = {} /\ Places(w.stk, "out", r) = {}
    BY <1>1, <1>3, <1>4, <1>6 DEF Taken
  <1>8. /\ IsFiniteSet(Places(n.stk, "use", r))
        /\ Cardinality(Places(n.stk, "use", r))
              = Cardinality(Places(w.stk, "use", r)) + 1
    BY <1>1, <1>5, <1>6, AddedCount DEF Sound
  <1>9. Sound(z, Places(n.stk, "use", r), Places(n.stk, "firm", r),
              Places(n.stk, "ask", r), Places(w.stk, "out", r),
              Places(w.stk, "fail", r), Sent(w.net, r))
    BY <1>5, <1>6, <1>7, <1>8 DEF Sound
  <1>10. SoundIn(z, n, r)
    BY <1>2, <1>9 DEF SoundIn
  <1> QED BY <1>6, <1>10, GroundEnd

\* Nothing has to do with session r.
Untouched(w, r) ==
    /\ Places(w.stk, "use", r) = {} /\ Places(w.stk, "firm", r) = {}
    /\ Places(w.stk, "ask", r) = {} /\ Places(w.stk, "out", r) = {}
    /\ Places(w.stk, "fail", r) = {} /\ Sent(w.net, r) = {}

\* A session is made of memory nobody points to.
LEMMA Creates ==
    ASSUME NEW w, NEW n, NEW t, NEW h, NEW g, NEW f, NEW r, NEW z, NEW p, NEW p2,
           Ground(w, n, t, h, g, f, r, z, p, p2), Untouched(w, r), ~w.reg[r].lock,
           ~In("use", g), ~Asking(g), Holding(f), ~Asking(f), f.r = r,
           n.net = w.net, z.live, z.busy = 1, ~z.has_tsx, z.cseq = <<>>
    PROVE  Good(n, p2)
  <1>0. Moves(w, n, t, h, g, f)
    BY GroundFacts
  <1>1. Added({}, h, Places(n.stk, "use", r))
    BY <1>0, Gets, ClassesAre DEF Holding, Untouched
  <1>2. /\ Places(n.stk, "ask", r) = {} /\ Places(n.stk, "out", r) = {}
        /\ Places(n.stk, "fail", r) = {} /\ Sent(n.net, r) = {}
    <2>1. /\ Places(n.stk, "ask", r) = Places(w.stk, "ask", r)
          /\ Places(n.stk, "out", r) = Places(w.stk, "out", r)
          /\ Places(n.stk, "fail", r) = Places(w.stk, "fail", r)
      <3>1. \A d \in Classes : \A q : ~In(d, g) /\ ~In(d, f) =>
               Places(n.stk, d, q) = Places(w.stk, d, q)
        BY <1>0, KeepsOthers
      <3>2. /\ ~In("ask", g) /\ ~In("out", g) /\ ~In("fail", g)
            /\ ~In("ask", f) /\ ~In("out", f) /\ ~In("fail", f)
        BY DEF Asking
      <3> QED BY <3>1, <3>2, ClassesAre
    <2> QED BY <2>1 DEF Untouched
  <1>3. IsFiniteSet({}) /\ Cardinality({}) = 0
    BY FS_EmptySet
  <1>4. /\ IsFiniteSet(Places(n.stk, "use", r))
        /\ Cardinality(Places(n.stk, "use", r)) = 0 + 1
    BY <1>1, <1>3, AddedCount
  <1>5. SoundIn(z, n, r)
    BY <1>2, <1>4 DEF SoundIn, Sound
  <1> QED BY <1>5, GroundEnd

-----------------------------------------------------------------------------
(* The writers, one by one.                                                *)

\* The top of a stack that has one.
LEMMA TopFacts ==
    ASSUME NEW w, NEW t, NEW p, Good(w, p), t \in Thread, w.stk[t] # <<>>
    PROVE  LET s == w.stk[t]
           IN /\ Stack(s) /\ s \in Seq(FrameType) /\ Len(s) \in 1..4
              /\ Last(s) \in FrameType /\ Fits(Last(s), Len(s), Under(s, Len(s)))
              /\ TopAt(w, t, <<t, Len(s)>>, Last(s)) /\ w \in WorldType
  <1>1. Stack(w.stk[t]) /\ w \in WorldType
    BY DEF Good
  <1>2. w.stk[t] \in Seq(FrameType) /\ Len(w.stk[t]) <= 4
    BY <1>1 DEF Stack
  <1> QED BY <1>1, <1>2, Depth, StackPop DEF TopAt

\* Frame f may take the place of the top of t's stack.
Placed(w, t, f) ==
    LET s == w.stk[t]
    IN /\ s # <<>> /\ f \in FrameType /\ Fits(f, Len(s), Under(s, Len(s)))
       /\ Mild(s) /\ Meek(f)
       /\ (Calm(Last(s)) /\ Calm(f)) \/ Like(Last(s), f)

\* n is x but for thread t that came, in w, to frame f from frame g.
Lands(w, x, n, t, h, g, f, s, p) ==
    /\ Moves(w, n, t, h, g, f) /\ Orderly(w, n, t, h, g, f, p, p)
    /\ n.reg = x.reg /\ n.acc = x.acc /\ n.net = x.net /\ n.pjsua = x.pjsua
    /\ n.stk[t] = s

\* Another frame at the top is a step of its thread alone.
LEMMA PutMoves ==
    ASSUME NEW w, NEW x, NEW t, NEW f, NEW p, Good(w, p), t \in Thread,
           x \in WorldType, x.stk = w.stk, Placed(w, t, f)
    PROVE  Lands(w, x, Put(x, t, f), t, <<t, Len(w.stk[t])>>, Last(w.stk[t]), f,
                 Turned(w.stk[t], f), p)
  <1> DEFINE n == Put(x, t, f)
             s == w.stk[t]
             h == <<t, Len(s)>>
             g == Last(s)
  <1>1. /\ s # <<>> /\ f \in FrameType /\ Fits(f, Len(s), Under(s, Len(s)))
        /\ Mild(s) /\ Meek(f) /\ ((Calm(g) /\ Calm(f)) \/ Like(g, f))
    BY DEF Placed
  <1>1a. x.stk[t] # <<>>
    BY <1>1
  <1>2. /\ n \in WorldType /\ n.stk = Swap(x.stk, t, Turned(x.stk[t], f))
        /\ n.reg = x.reg /\ n.acc = x.acc /\ n.net = x.net /\ n.pjsua = x.pjsua
    BY <1>1, <1>1a, PutIs DEF OnlyStk
  <1>3. n.stk = Swap(w.stk, t, Turned(s, f))
    BY <1>2
  <1>4. Stack(s) /\ w \in WorldType /\ Owned(w, p) /\ p \in Thread \cup {None}
    BY DEF Good
  <1> HIDE DEF n
  <1>3a. n.stk[t] = Turned(s, f)
    <2>1. \A x2 : Swap(w.stk, t, x2)[t] = x2
      BY <1>4, ThisStack
    <2> QED BY <1>3, <2>1
  <1>5. Moves(w, n, t, h, g, f)
    BY <1>1, <1>2, <1>3, <1>4 DEF Moves
  <1>6. Stack(n.stk[t])
    <2>1. Stack(Turned(s, f))
      BY <1>1, <1>4, StackTurn
    <2> QED BY <2>1, <1>3a
  <1>7. Owns(w, n, t, p, p)
    <2> HIDE DEF g, h, s
    <2> QED BY <1>1, <1>4, <1>5, <1>6, Steady
  <1>8. Orderly(w, n, t, h, g, f, p, p)
    BY <1>1, <1>6, <1>7 DEF Orderly
  <1> QED BY <1>2, <1>3a, <1>5, <1>8 DEF Lands, n

\* Frame f may be put on t's stack.
Mounted(w, t, f) ==
    LET s == w.stk[t]
    IN /\ f \in FrameType /\ Len(s) <= 3 /\ Meek(f) /\ Calm(f)
       /\ s # <<>> => Waits(Last(s)) /\ Fits(f, Len(s) + 1, Last(s))
       /\ s = <<>> => Fits(f, 1, f)

\* No frame has to do with anything.
LEMMA BlankIs == Calm(Blank) /\ Meek(Blank) /\ \A r : About(Blank, r)
  <1>1. Calm(Blank) /\ Meek(Blank)
    BY DEF Calm, Meek, Blank, Frame
  <1>2. \A c \in Classes : ~In(c, Blank)
    BY NotBlank
  <1> QED BY <1>1, <1>2 DEF About

\* A push is a step of its thread alone.
LEMMA PushMoves ==
    ASSUME NEW w, NEW x, NEW t, NEW f, NEW p, Good(w, p), t \in Thread,
           x \in WorldType, x.stk = w.stk, Mounted(w, t, f)
    PROVE  Lands(w, x, Push(x, t, f), t, <<t, Len(w.stk[t]) + 1>>, Blank, f,
                 Append(w.stk[t], f), p)
  <1> DEFINE n == Push(x, t, f)
             s == w.stk[t]
             h == <<t, Len(s) + 1>>
  <1>1. /\ f \in FrameType /\ Len(s) <= 3 /\ Meek(f) /\ Calm(f)
        /\ s # <<>> => Waits(Last(s)) /\ Fits(f, Len(s) + 1, Last(s))
        /\ s = <<>> => Fits(f, 1, f)
    BY DEF Mounted
  <1>2. /\ n \in WorldType /\ n.stk = Swap(x.stk, t, Append(x.stk[t], f))
        /\ n.reg = x.reg /\ n.acc = x.acc /\ n.net = x.net /\ n.pjsua = x.pjsua
    BY <1>1, PushIs DEF OnlyStk
  <1>3. n.stk = Swap(w.stk, t, Append(s, f))
    BY <1>2
  <1>4. Stack(s) /\ w \in WorldType /\ Owned(w, p) /\ p \in Thread \cup {None}
    BY DEF Good
  <1> HIDE DEF n
  <1>3a. n.stk[t] = Append(s, f)
    <2>1. \A x2 : Swap(w.stk, t, x2)[t] = x2
      BY <1>4, ThisStack
    <2> QED BY <1>3, <2>1
  <1>5. Moves(w, n, t, h, Blank, f)
    BY <1>1, <1>2, <1>3, <1>4 DEF Moves
  <1>6. Stack(n.stk[t])
    <2>1. Stack(Append(s, f))
      <3> HIDE DEF s
      <3> QED BY <1>1, <1>4, StackPush
    <2> QED BY <2>1, <1>3a
  <1>7. Owns(w, n, t, p, p)
    <2> HIDE DEF h, s
    <2> QED BY <1>1, <1>4, <1>5, <1>6, Steady, BlankIs
  <1>8. Mild(s)
    <2> HIDE DEF s
    <2> QED BY <1>1, WaitsMild
  <1>9. Orderly(w, n, t, h, Blank, f, p, p)
    BY <1>1, <1>6, <1>7, <1>8 DEF Orderly
  <1> QED BY <1>2, <1>3a, <1>5, <1>9 DEF Lands, n

\* A pop is a step of its thread alone.
LEMMA PopMoves ==
    ASSUME NEW w, NEW x, NEW t, NEW p, Good(w, p), t \in Thread,
           x \in WorldType, x.stk = w.stk, w.stk[t] # <<>>,
           Mild(w.stk[t]), Calm(Last(w.stk[t]))
    PROVE  Lands(w, x, Pop(x, t), t, <<t, Len(w.stk[t])>>, Last(w.stk[t]), Blank,
                 Front(w.stk[t]), p)
  <1> DEFINE n == Pop(x, t)
             s == w.stk[t]
             h == <<t, Len(s)>>
             g == Last(s)
  <1>1. s # <<>> /\ Mild(s) /\ Calm(g) /\ x.stk[t] # <<>>
    OBVIOUS
  <1>2. /\ n \in WorldType /\ n.stk = Swap(x.stk, t, Front(x.stk[t]))
        /\ n.reg = x.reg /\ n.acc = x.acc /\ n.net = x.net /\ n.pjsua = x.pjsua
    BY <1>1, PopIs DEF OnlyStk
  <1>3. n.stk = Swap(w.stk, t, Front(s))
    BY <1>2
  <1>4. Stack(s) /\ w \in WorldType /\ Owned(w, p) /\ p \in Thread \cup {None}
    BY DEF Good
  <1> HIDE DEF n
  <1>3a. n.stk[t] = Front(s)
    <2>1. \A x2 : Swap(w.stk, t, x2)[t] = x2
      BY <1>4, ThisStack
    <2> QED BY <1>3, <2>1
  <1>5. Moves(w, n, t, h, g, Blank)
    BY <1>1, <1>2, <1>3, <1>4 DEF Moves
  <1>6. Stack(n.stk[t])
    <2>1. Stack(Front(s))
      BY <1>1, <1>4, StackPop
    <2> QED BY <2>1, <1>3a
  <1>7. Owns(w, n, t, p, p)
    <2> HIDE DEF g, h, s
    <2> QED BY <1>1, <1>4, <1>5, <1>6, Steady, BlankIs
  <1>8. Orderly(w, n, t, h, g, Blank, p, p)
    BY <1>1, <1>6, <1>7, BlankIs DEF Orderly
  <1> QED BY <1>2, <1>3a, <1>5, <1>8 DEF Lands, n

\* World x is w with session r become z, and another account or requests.
Writes(w, x, r, z) ==
    /\ x \in WorldType /\ x.stk = w.stk /\ OnlyReg(w, x, r, z)
    /\ z.lock = w.reg[r].lock /\ Usable(x)

\* A write of one session.
LEMMA WithRegWrites ==
    ASSUME NEW w, NEW r, NEW z, NEW p, Good(w, p), r \in Regc, z \in SessionType,
           z.lock = w.reg[r].lock, w.acc.regc = r => z.live /\ ~z.delete_flag
    PROVE  LET x == WithReg(w, r, z)
           IN /\ Writes(w, x, r, z) /\ x \in WorldType /\ x.stk = w.stk
              /\ x.acc = w.acc /\ x.net = w.net /\ x.pjsua = w.pjsua
  <1> DEFINE x == WithReg(w, r, z)
  <1>1. w \in WorldType /\ Usable(w) /\ w.acc \in AccType
    BY WorldFields DEF Good
  <1>2. /\ x \in WorldType /\ x.reg = Swap(w.reg, r, z) /\ x.acc = w.acc
        /\ x.stk = w.stk /\ x.net = w.net /\ x.pjsua = w.pjsua
    BY <1>1, WithRegIs
  <1> HIDE DEF x
  <1>3. OnlyReg(w, x, r, z)
    BY <1>2 DEF OnlyReg
  <1>4. Usable(x)
    BY <1>1, <1>2, <1>3, UsableKept
  <1> QED BY <1>2, <1>3, <1>4 DEF Writes, x

\* A write of a session and the account.
LEMMA RegAccWrites ==
    ASSUME NEW w, NEW r, NEW z, NEW a, NEW p, Good(w, p), r \in Regc,
           z \in SessionType, a \in AccType, z.lock = w.reg[r].lock,
           a.regc = r => z.live /\ ~z.delete_flag,
           a.regc \in {r, w.acc.regc, None}
    PROVE  LET x == WithAcc(WithReg(w, r, z), a)
           IN /\ Writes(w, x, r, z) /\ x \in WorldType /\ x.stk = w.stk
              /\ x.acc = a /\ x.net = w.net /\ x.pjsua = w.pjsua
  <1> DEFINE v == WithReg(w, r, z)
             x == WithAcc(v, a)
  <1>1. w \in WorldType /\ Usable(w) /\ w.acc \in AccType
    BY WorldFields DEF Good
  <1>2. /\ v \in WorldType /\ v.reg = Swap(w.reg, r, z) /\ v.acc = w.acc
        /\ v.stk = w.stk /\ v.net = w.net /\ v.pjsua = w.pjsua
    BY <1>1, WithRegIs
  <1> HIDE DEF v
  <1>3. /\ x \in WorldType /\ x.reg = v.reg /\ x.acc = a
        /\ x.stk = v.stk /\ x.net = v.net /\ x.pjsua = v.pjsua
    BY <1>2, WithAccIs
  <1> HIDE DEF x
  <1>4. OnlyReg(w, x, r, z)
    BY <1>2, <1>3 DEF OnlyReg
  <1>5. x.reg[r] = z /\ \A q \in Regc : q # r => x.reg[q] = w.reg[q]
    BY <1>1, <1>4, OnlyRegFacts
  <1>6. Usable(x)
    BY <1>1, <1>3, <1>5 DEF Usable, AccType
  <1> QED BY <1>2, <1>3, <1>4, <1>6 DEF Writes, x, v

\* Requests m differ from those of w in session r alone.
Only(w, m, r) ==
    m \subseteq Request /\ \A q \in Regc \ {r} : Sent(m, q) = Sent(w.net, q)

\* A write of the requests of one session.
LEMMA NetWrites ==
    ASSUME NEW w, NEW r, NEW m, NEW p, Good(w, p), r \in Regc, Only(w, m, r)
    PROVE  LET x == WithNet(w, m)
           IN /\ Writes(w, x, r, w.reg[r]) /\ x \in WorldType /\ x.stk = w.stk
              /\ x.net = m /\ x.acc = w.acc /\ x.pjsua = w.pjsua
  <1> DEFINE x == WithNet(w, m)
  <1>1. w \in WorldType /\ Usable(w) /\ w.reg \in [Regc -> SessionType]
    BY WorldFields DEF Good
  <1>2. /\ x \in WorldType /\ x.reg = w.reg /\ x.acc = w.acc
        /\ x.stk = w.stk /\ x.net = m /\ x.pjsua = w.pjsua
    BY <1>1, WithNetIs DEF Only
  <1> HIDE DEF x
  <1>3. w.reg = Swap(w.reg, r, w.reg[r]) /\ w.reg[r] \in SessionType
    BY <1>1, RegSame
  <1>4. OnlyReg(w, x, r, w.reg[r])
    BY <1>2, <1>3 DEF OnlyReg, Only
  <1>5. Usable(x)
    BY <1>1, <1>2 DEF Usable
  <1> QED BY <1>2, <1>4, <1>5 DEF Writes, x

\* Nothing is written.
LEMMA SelfWrites ==
    ASSUME NEW w, NEW r, NEW p, Good(w, p), r \in Regc
    PROVE  Writes(w, w, r, w.reg[r])
  <1>1. w \in WorldType /\ Usable(w) /\ w.reg \in [Regc -> SessionType]
    BY WorldFields DEF Good
  <1>2. w.reg = Swap(w.reg, r, w.reg[r]) /\ w.reg[r] \in SessionType
    BY <1>1, RegSame
  <1> QED BY <1>1, <1>2 DEF Writes, OnlyReg

\* Such a write, and a move of the stack.
LEMMA WriteGround ==
    ASSUME NEW w, NEW x, NEW n, NEW t, NEW h, NEW g, NEW f, NEW r, NEW z,
           NEW p, NEW p2, Good(w, p), Writes(w, x, r, z), Moves(w, n, t, h, g, f),
           Orderly(w, n, t, h, g, f, p, p2), About(g, r), About(f, r),
           n.reg = x.reg, n.acc = x.acc, n.net = x.net
    PROVE  Ground(w, n, t, h, g, f, r, z, p, p2)
  <1>1. OnlyReg(w, n, r, z) /\ z.lock = w.reg[r].lock /\ Usable(n)
    BY DEF Writes, OnlyReg, Usable
  <1> QED BY <1>1 DEF Ground, Steps

\* The same with all that is known of it.
Landed(w, x, n, t, h, g, f, s, r, z, p) ==
    /\ Ground(w, n, t, h, g, f, r, z, p, p) /\ n.stk[t] = s
    /\ n.acc = x.acc /\ n.net = x.net /\ n.pjsua = x.pjsua

\* The ground for all that is to be shown of a step.
LEMMA LandsGround ==
    ASSUME NEW w, NEW x, NEW n, NEW t, NEW h, NEW g, NEW f, NEW s, NEW r, NEW z,
           NEW p, Good(w, p), Writes(w, x, r, z), Lands(w, x, n, t, h, g, f, s, p),
           About(g, r), About(f, r)
    PROVE  Landed(w, x, n, t, h, g, f, s, r, z, p)
  <1>1. /\ Moves(w, n, t, h, g, f) /\ Orderly(w, n, t, h, g, f, p, p)
        /\ n.reg = x.reg /\ n.acc = x.acc /\ n.net = x.net /\ n.pjsua = x.pjsua
        /\ n.stk[t] = s
    BY DEF Lands
  <1>2. Ground(w, n, t, h, g, f, r, z, p, p)
    BY <1>1, WriteGround
  <1> QED BY <1>1, <1>2 DEF Landed

\* The same for another frame at the top.
LEMMA PutGround ==
    ASSUME NEW w, NEW x, NEW t, NEW f, NEW r, NEW z, NEW p, Good(w, p), t \in Thread,
           Writes(w, x, r, z), Placed(w, t, f),
           About(Last(w.stk[t]), r), About(f, r)
    PROVE  Landed(w, x, Put(x, t, f), t, <<t, Len(w.stk[t])>>, Last(w.stk[t]), f,
                  Turned(w.stk[t], f), r, z, p)
  <1>1. x \in WorldType /\ x.stk = w.stk
    BY DEF Writes
  <1>2. Lands(w, x, Put(x, t, f), t, <<t, Len(w.stk[t])>>, Last(w.stk[t]), f,
              Turned(w.stk[t], f), p)
    BY <1>1, PutMoves
  <1> QED BY <1>2, LandsGround

\* The same for a push.
LEMMA PushGround ==
    ASSUME NEW w, NEW x, NEW t, NEW f, NEW r, NEW z, NEW p, Good(w, p), t \in Thread,
           Writes(w, x, r, z), Mounted(w, t, f), About(f, r)
    PROVE  Landed(w, x, Push(x, t, f), t, <<t, Len(w.stk[t]) + 1>>, Blank, f,
                  Append(w.stk[t], f), r, z, p)
  <1>1. x \in WorldType /\ x.stk = w.stk
    BY DEF Writes
  <1>2. Lands(w, x, Push(x, t, f), t, <<t, Len(w.stk[t]) + 1>>, Blank, f,
              Append(w.stk[t], f), p)
    BY <1>1, PushMoves
  <1> QED BY <1>2, BlankIs, LandsGround

\* The same for a pop.
LEMMA PopGround ==
    ASSUME NEW w, NEW x, NEW t, NEW r, NEW z, NEW p, Good(w, p), t \in Thread,
           Writes(w, x, r, z), w.stk[t] # <<>>, Mild(w.stk[t]),
           Calm(Last(w.stk[t])), About(Last(w.stk[t]), r)
    PROVE  Landed(w, x, Pop(x, t), t, <<t, Len(w.stk[t])>>, Last(w.stk[t]), Blank,
                  Front(w.stk[t]), r, z, p)
  <1>1. x \in WorldType /\ x.stk = w.stk
    BY DEF Writes
  <1>2. Lands(w, x, Pop(x, t), t, <<t, Len(w.stk[t])>>, Last(w.stk[t]), Blank,
              Front(w.stk[t]), p)
    BY <1>1, PopMoves
  <1> QED BY <1>2, BlankIs, LandsGround

-----------------------------------------------------------------------------
(* The frames.                                                             *)

NoClass(f) == \A c \in Classes : ~In(c, f)

\* The frames that have to do with no session's users and requests.
LEMMA NoClassFrame ==
    ASSUME NEW f,
           \/ f.fn \in {"del", "retry"}
           \/ f.fn = "set" /\ f.pc \in {"begin", "flag"}
           \/ f.fn = "send" /\ f.pc = "start"
           \/ f.fn \in {"tsx", "refresh"} /\ f.pc \in {"flag", "ref"}
    PROVE  NoClass(f)
  <1>1. ~In("use", f)
    BY DEF In
  <1>2. ~In("firm", f)
    BY DEF In
  <1>3. ~In("ask", f) /\ ~In("out", f) /\ ~In("fail", f)
    BY DEF In
  <1> QED BY <1>1, <1>2, <1>3 DEF NoClass, Classes

\* The frames that hold a reference and ask for nothing.
LEMMA HoldingFrame ==
    ASSUME NEW f,
           \/ f.fn = "set" /\ f.pc = "sent"
           \/ f.fn = "tsx" /\ f.pc \in {"tsx_cb", "handle", "sent", "call", "dec"}
           \/ f.fn = "refresh" /\ f.pc \in {"sent", "call", "dec"}
    PROVE  Holding(f) /\ ~Asking(f)
  BY DEF In, Holding, Asking

\* What that means, class by class.
LEMMA NoClassAre ==
    ASSUME NEW f, NoClass(f)
    PROVE  /\ ~In("use", f) /\ ~In("firm", f) /\ ~In("ask", f) /\ ~In("out", f)
           /\ ~In("fail", f) /\ ~Asking(f) /\ \A r : About(f, r)
  BY ClassesAre DEF NoClass, Asking, About

\* No frame is of no class.
LEMMA BlankNone == NoClass(Blank)
  BY NotBlank DEF NoClass

\* A frame has to do with its own session alone.
LEMMA AboutOwn ==
    ASSUME NEW f, NEW r, f.r = r
    PROVE  About(f, r)
  BY DEF About

\* Two frames of no class are the same to every session.
LEMMA SameNone ==
    ASSUME NEW g, NEW f, NoClass(g), NoClass(f)
    PROVE  \A r \in Regc : SameIn(g, f, r)
  BY DEF NoClass, SameIn

\* So are two that hold a reference to the same one.
LEMMA SameHolding ==
    ASSUME NEW g, NEW f, Holding(g), Holding(f), ~Asking(g), ~Asking(f), g.r = f.r
    PROVE  \A r \in Regc : SameIn(g, f, r)
  BY DEF Holding, Asking, SameIn, Classes

\* So are two at the same place of a function that is not a send.
LEMMA SameRest ==
    ASSUME NEW g, NEW f, g.fn = f.fn, g.pc = f.pc, g.r = f.r, g.fn # "send"
    PROVE  \A r \in Regc : SameIn(g, f, r)
  BY DEF In, SameIn, Classes

-----------------------------------------------------------------------------
(* Writers that change no session.                                         *)

\* n is w, good, but for the stack of t.
Moved(w, n, t, s, p) ==
    /\ Good(n, p) /\ n.stk[t] = s
    /\ n.reg = w.reg /\ n.acc = w.acc /\ n.net = w.net /\ n.pjsua = w.pjsua

\* A step between frames that are the same changes no more than a stack.
LEMMA LandsMoved ==
    ASSUME NEW w, NEW n, NEW t, NEW h, NEW g, NEW f, NEW s, NEW p, Good(w, p),
           Lands(w, w, n, t, h, g, f, s, p), \A r \in Regc : SameIn(g, f, r)
    PROVE  Moved(w, n, t, s, p)
  <1>1. /\ Moves(w, n, t, h, g, f) /\ Orderly(w, n, t, h, g, f, p, p)
        /\ n.reg = w.reg /\ n.acc = w.acc /\ n.net = w.net /\ n.pjsua = w.pjsua
        /\ n.stk[t] = s
    BY DEF Lands
  <1>2. n.acc.regc \in {w.acc.regc, None}
    BY <1>1
  <1>3. Good(n, p)
    BY <1>1, <1>2, Plain
  <1> QED BY <1>1, <1>3 DEF Moved

\* Another frame at the top, which is the same to every session.
LEMMA PutPlain ==
    ASSUME NEW w, NEW t, NEW f, NEW p, Good(w, p), t \in Thread, Placed(w, t, f),
           \A r \in Regc : SameIn(Last(w.stk[t]), f, r)
    PROVE  Moved(w, Put(w, t, f), t, Turned(w.stk[t], f), p)
  <1>1. Lands(w, w, Put(w, t, f), t, <<t, Len(w.stk[t])>>, Last(w.stk[t]), f,
              Turned(w.stk[t], f), p)
    BY PutMoves DEF Good
  <1> QED BY <1>1, LandsMoved

\* A frame of no class is pushed.
LEMMA PushPlain ==
    ASSUME NEW w, NEW t, NEW f, NEW p, Good(w, p), t \in Thread, Mounted(w, t, f),
           NoClass(f)
    PROVE  Moved(w, Push(w, t, f), t, Append(w.stk[t], f), p)
  <1>1. Lands(w, w, Push(w, t, f), t, <<t, Len(w.stk[t]) + 1>>, Blank, f,
              Append(w.stk[t], f), p)
    BY PushMoves DEF Good
  <1>2. \A r \in Regc : SameIn(Blank, f, r)
    BY BlankNone, SameNone
  <1> QED BY <1>1, <1>2, LandsMoved

\* A frame of no class is popped.
LEMMA PopPlain ==
    ASSUME NEW w, NEW t, NEW p, Good(w, p), t \in Thread, w.stk[t] # <<>>,
           Mild(w.stk[t]), Calm(Last(w.stk[t])), NoClass(Last(w.stk[t]))
    PROVE  Moved(w, Pop(w, t), t, Front(w.stk[t]), p)
  <1>1. Lands(w, w, Pop(w, t), t, <<t, Len(w.stk[t])>>, Last(w.stk[t]), Blank,
              Front(w.stk[t]), p)
    BY PopMoves DEF Good
  <1>2. \A r \in Regc : SameIn(Last(w.stk[t]), Blank, r)
    BY BlankNone, SameNone
  <1> QED BY <1>1, <1>2, LandsMoved

\* n is w, good, but for the account, or for the field pjsua.
LEMMA AccPlain ==
    ASSUME NEW w, NEW a, NEW p, Good(w, p), a \in AccType,
           a.regc \in {w.acc.regc, None}
    PROVE  LET n == WithAcc(w, a)
           IN /\ Good(n, p) /\ n.acc = a /\ n.stk = w.stk /\ n.reg = w.reg
              /\ n.net = w.net /\ n.pjsua = w.pjsua
  <1> DEFINE n == WithAcc(w, a)
  <1>1. w \in WorldType
    BY DEF Good
  <1>2. /\ n \in WorldType /\ n.acc = a /\ n.reg = w.reg /\ n.stk = w.stk
        /\ n.net = w.net /\ n.pjsua = w.pjsua
    BY <1>1, WithAccIs
  <1> HIDE DEF n
  <1>3. Sessions(n) /\ Owned(n, p) /\ Deletes(n)
    BY <1>2 DEF Good, Sessions, SoundIn, Owned, Deletes, Spare
  <1>4. Usable(n)
    BY <1>2 DEF Good, Usable
  <1>5. p \in Thread \cup {None} /\ \A t \in Thread : Stack(n.stk[t])
    BY <1>2 DEF Good
  <1> QED BY <1>2, <1>3, <1>4, <1>5 DEF Good, n

\* PJSUA_LOCK is taken or given up.
LEMMA PjsuaPlain ==
    ASSUME NEW w, NEW u, NEW p, Good(w, p), u \in Thread \cup {None}
    PROVE  LET n == WithPjsua(w, u)
           IN /\ Good(n, p) /\ n.pjsua = u /\ n.stk = w.stk /\ n.reg = w.reg
              /\ n.net = w.net /\ n.acc = w.acc
  <1> DEFINE n == WithPjsua(w, u)
  <1>1. w \in WorldType
    BY DEF Good
  <1>2. /\ n \in WorldType /\ n.acc = w.acc /\ n.reg = w.reg /\ n.stk = w.stk
        /\ n.net = w.net /\ n.pjsua = u
    BY <1>1, WithPjsuaIs
  <1> HIDE DEF n
  <1>3. Sessions(n) /\ Owned(n, p) /\ Deletes(n)
    BY <1>2 DEF Good, Sessions, SoundIn, Owned, Deletes, Spare
  <1>4. Usable(n)
    BY <1>2 DEF Good, Usable
  <1>5. p \in Thread \cup {None} /\ \A t \in Thread : Stack(n.stk[t])
    BY <1>2 DEF Good
  <1> QED BY <1>2, <1>3, <1>4, <1>5 DEF Good, n

\* A session changes, and the account, but no stack.
LEMMA Alters ==
    ASSUME NEW w, NEW x, NEW t, NEW r, NEW z, NEW p, Good(w, p), Writes(w, x, r, z),
           t \in Thread, Mild(w.stk[t]), x.net = w.net, SoundIn(z, w, r),
           w.reg[r].lock => z.live /\ z.has_tsx = w.reg[r].has_tsx
    PROVE  Good(x, p)
  <1>1. x \in WorldType /\ x.stk = w.stk
    BY DEF Writes
  <1>2. w \in WorldType /\ Stack(w.stk[t]) /\ Owned(w, p) /\ p \in Thread \cup {None}
    BY DEF Good
  <1>3. Moves(w, x, t, t, Blank, Blank)
    BY <1>1, <1>2 DEF Moves
  <1>4. Owns(w, x, t, p, p)
    BY <1>1, <1>2, <1>3, BlankIs, Steady
  <1>5. Orderly(w, x, t, t, Blank, Blank, p, p)
    BY <1>1, <1>2, <1>4, BlankIs DEF Orderly
  <1>6. Ground(w, x, t, t, Blank, Blank, r, z, p, p)
    BY <1>3, <1>5, BlankIs, WriteGround
  <1>7. SameIn(Blank, Blank, r)
    BY DEF SameIn
  <1>8. /\ Steps(w, x, t, t, Blank, Blank, r, z) /\ Usable(x)
        /\ z.lock = w.reg[r].lock
    BY <1>6 DEF Ground
  <1>9. Sent(x.net, r) = Sent(w.net, r)
    OBVIOUS
  <1> QED BY <1>5, <1>7, <1>8, <1>9, Still

\* So much for the next state.
LEMMA Becomes ==
    ASSUME NEW n, Good(n, n.pjsua), Become(n)
    PROVE  Inv'
  <1>1. n \in WorldType
    BY DEF Good
  <1>2. /\ reg' = n.reg /\ acc' = n.acc /\ stk' = n.stk /\ net' = n.net
        /\ pjsua' = n.pjsua
    BY DEF Become
  <1>3. World' = n
    BY <1>1, <1>2 DEF World, WorldType
  <1> QED BY <1>2, <1>3 DEF Inv

\* The world the handlers work on is that of the variables.
LEMMA WorldIs ==
    /\ World.reg = reg /\ World.acc = acc /\ World.stk = stk /\ World.net = net
    /\ World.pjsua = pjsua
  BY DEF World

-----------------------------------------------------------------------------
(* Frames and sessions that a step makes of others.                        *)

WithPc(f, pc) == [f EXCEPT !.pc = pc]
WithStatus(f, st) == [f EXCEPT !.status = st]
WithUnreg(f, b) == [f EXCEPT !.is_unreg = b]
Reporting(f, st, code, exp, b) ==
    [f EXCEPT !.pc = "call", !.status = st, !.code = code, !.exp = exp,
              !.is_unreg = b]

\* A frame at another place of its function.
LEMMA WithPcIs ==
    ASSUME NEW f, NEW pc, f \in FrameType, pc \in Pcs
    PROVE  LET e == WithPc(f, pc)
           IN /\ e \in FrameType /\ e.pc = pc /\ e.fn = f.fn /\ e.r = f.r
              /\ e.code = f.code /\ e.status = f.status /\ e.unreg = f.unreg
  BY DEF WithPc, FrameType

\* A frame with the status of the call it made.
LEMMA WithStatusIs ==
    ASSUME NEW f, NEW st, f \in FrameType, st \in {"ok", "error", "EBUSY"}
    PROVE  LET e == WithStatus(f, st)
           IN /\ e \in FrameType /\ e.pc = f.pc /\ e.fn = f.fn /\ e.r = f.r
              /\ e.code = f.code /\ e.status = st
  BY DEF WithStatus, FrameType

\* A frame that notes what kind of request it was.
LEMMA WithUnregIs ==
    ASSUME NEW f, NEW b, f \in FrameType, b \in BOOLEAN
    PROVE  LET e == WithUnreg(f, b)
           IN /\ e \in FrameType /\ e.pc = f.pc /\ e.fn = f.fn /\ e.r = f.r
              /\ e.code = f.code
  BY DEF WithUnreg, FrameType

WithCode(f, code) == [f EXCEPT !.code = code]
WithExp(f, exp) == [f EXCEPT !.exp = exp]

\* A frame with the code of the response.
LEMMA WithCodeIs ==
    ASSUME NEW f, NEW code, f \in FrameType, code \in {0, 200, 400, 401, 403, 423, 503}
    PROVE  LET e == WithCode(f, code)
           IN e \in FrameType /\ e.pc = f.pc /\ e.fn = f.fn /\ e.r = f.r
  BY DEF WithCode, FrameType

\* A frame with the expiration.
LEMMA WithExpIs ==
    ASSUME NEW f, NEW exp, f \in FrameType, exp \in BOOLEAN
    PROVE  LET e == WithExp(f, exp)
           IN e \in FrameType /\ e.pc = f.pc /\ e.fn = f.fn /\ e.r = f.r
  BY DEF WithExp, FrameType

\* A frame about to call the application's callback.
LEMMA ReportingIs ==
    ASSUME NEW f, NEW st, NEW code, NEW exp, NEW b, f \in FrameType,
           st \in {"ok", "error", "EBUSY"}, exp \in BOOLEAN, b \in BOOLEAN,
           code \in {0, 200, 400, 401, 403, 423, 503}
    PROVE  LET e == Reporting(f, st, code, exp, b)
           IN e \in FrameType /\ e.pc = "call" /\ e.fn = f.fn /\ e.r = f.r
  <1> DEFINE c == WithPc(f, "call")
             d == WithStatus(c, st)
             g == WithCode(d, code)
             h == WithExp(g, exp)
             e == WithUnreg(h, b)
  <1>1. Reporting(f, st, code, exp, b) = e
    BY DEF Reporting, WithPc, WithStatus, WithCode, WithExp, WithUnreg
  <1>2. c \in FrameType /\ c.pc = "call" /\ c.fn = f.fn /\ c.r = f.r
    BY WithPcIs DEF Pcs
  <1> HIDE DEF c
  <1>3. d \in FrameType /\ d.pc = c.pc /\ d.fn = c.fn /\ d.r = c.r
    BY <1>2, WithStatusIs
  <1> HIDE DEF d
  <1>4. g \in FrameType /\ g.pc = d.pc /\ g.fn = d.fn /\ g.r = d.r
    BY <1>3, WithCodeIs
  <1> HIDE DEF g
  <1>5. h \in FrameType /\ h.pc = g.pc /\ h.fn = g.fn /\ h.r = g.r
    BY <1>4, WithExpIs
  <1> HIDE DEF h
  <1>6. e \in FrameType /\ e.pc = h.pc /\ e.fn = h.fn /\ e.r = h.r
    BY <1>5, WithUnregIs
  <1> HIDE DEF e
  <1> QED BY <1>1, <1>2, <1>3, <1>4, <1>5, <1>6

\* The frame of a function that is entered.
LEMMA FrameIs ==
    ASSUME NEW fn, NEW pc, NEW r, NEW b, fn \in Fns, pc \in Pcs,
           r \in Regc \cup {None}, b \in BOOLEAN
    PROVE  LET e == Frame(fn, pc, r, b)
           IN /\ e \in FrameType /\ e.pc = pc /\ e.fn = fn /\ e.r = r
              /\ e.status = "ok" /\ e.code = 0 /\ e.unreg = b
  BY DEF Frame, FrameType

\* z is session s but for what neither its users nor its requests depend on.
Minor(s, z) ==
    z \in SessionType /\ Agrees(s, z) /\ z.lock = s.lock
    /\ z.delete_flag = s.delete_flag

\* Two minor changes are one.
LEMMA MinorTwice ==
    ASSUME NEW s, NEW y, NEW z, Minor(s, y), Minor(y, z)
    PROVE  Minor(s, z)
  BY DEF Minor, Agrees

\* No change is a minor one.
LEMMA MinorSelf ==
    ASSUME NEW s, s \in SessionType
    PROVE  Minor(s, s)
  BY DEF Minor, Agrees

WithOp(s) == [s EXCEPT !.op = "IDLE"]
WithLong(s) == [s EXCEPT !.long = TRUE]

\* The minor changes: the kind of request, the expiration, the timer.
LEMMA Minors ==
    ASSUME NEW s, s \in SessionType
    PROVE  /\ Minor(s, WithOp(s)) /\ Minor(s, WithLong(s))
           /\ Minor(s, CancelTimer(s)) /\ Minor(s, ScheduleRegistration(s))
  <1>1. Minor(s, WithOp(s))
    BY DEF Minor, Agrees, WithOp, SessionType
  <1>2. Minor(s, WithLong(s))
    BY DEF Minor, Agrees, WithLong, SessionType
  <1>3. Minor(s, CancelTimer(s))
    BY DEF Minor, Agrees, CancelTimer, SessionType
  <1>4. Minor(s, ScheduleRegistration(s))
    BY DEF Minor, Agrees, ScheduleRegistration, SessionType
  <1> QED BY <1>1, <1>2, <1>3, <1>4

-----------------------------------------------------------------------------
(* Writing twice.                                                          *)

\* Worlds with the same fields are one.
LEMMA SameWorld ==
    ASSUME NEW m, NEW n, m \in WorldType, n \in WorldType,
           m.reg = n.reg, m.acc = n.acc, m.stk = n.stk, m.net = n.net,
           m.pjsua = n.pjsua
    PROVE  m = n
  BY DEF WorldType

\* The later of two frames at the top counts.
LEMMA PutTwice ==
    ASSUME NEW w, NEW t, NEW e, NEW f, w \in WorldType, t \in Thread,
           w.stk[t] # <<>>, e \in FrameType, f \in FrameType
    PROVE  /\ Put(Put(w, t, e), t, f) = Put(w, t, f)
           /\ Last(Put(w, t, e).stk[t]) = e
  <1>9. \A x : Swap(w.stk, t, x)[t] = x
    BY ThisStacks
  <1> DEFINE v == Put(w, t, e)
             s == w.stk[t]
  <1>0. s \in Seq(FrameType) /\ s # <<>>
    BY WorldFields
  <1>1. OnlyStk(w, v, t, Turned(s, e)) /\ OnlyStk(w, Put(w, t, f), t, Turned(s, f))
    BY PutIs
  <1>2. /\ Turned(s, e) # <<>> /\ Last(Turned(s, e)) = e
        /\ Front(Turned(s, e)) = Front(s)
    BY <1>0, TurnedFacts
  <1>3. v.stk[t] = Turned(s, e)
    BY <1>1, <1>9 DEF OnlyStk
  <1> HIDE DEF v, s
  <1>4. OnlyStk(v, Put(v, t, f), t, Turned(v.stk[t], f))
    BY <1>1, <1>2, <1>3, PutIs DEF OnlyStk
  <1>5. Turned(v.stk[t], f) = Turned(s, f)
    BY <1>2, <1>3 DEF Turned
  <1>6. Swap(Swap(w.stk, t, Turned(s, e)), t, Turned(s, f)) = Swap(w.stk, t, Turned(s, f))
    BY WorldFields, StkTwice
  <1>7. Put(v, t, f) = Put(w, t, f)
    BY <1>1, <1>4, <1>5, <1>6, SameWorld DEF OnlyStk
  <1> QED BY <1>2, <1>3, <1>7 DEF v

\* The later of two writes of a session counts.
LEMMA RegWriteTwice ==
    ASSUME NEW w, NEW r, NEW y, NEW z, w \in WorldType, r \in Regc,
           y \in SessionType, z \in SessionType
    PROVE  WithReg(WithReg(w, r, y), r, z) = WithReg(w, r, z)
  <1> DEFINE v == WithReg(w, r, y)
             m == WithReg(v, r, z)
             n == WithReg(w, r, z)
  <1>1. /\ v \in WorldType /\ v.reg = Swap(w.reg, r, y) /\ v.acc = w.acc
        /\ v.stk = w.stk /\ v.net = w.net /\ v.pjsua = w.pjsua
    BY WithRegIs
  <1>2. /\ n \in WorldType /\ n.reg = Swap(w.reg, r, z) /\ n.acc = w.acc
        /\ n.stk = w.stk /\ n.net = w.net /\ n.pjsua = w.pjsua
    BY WithRegIs
  <1> HIDE DEF v
  <1>3. /\ m \in WorldType /\ m.reg = Swap(v.reg, r, z) /\ m.acc = v.acc
        /\ m.stk = v.stk /\ m.net = v.net /\ m.pjsua = v.pjsua
    BY <1>1, WithRegIs
  <1> HIDE DEF m, n
  <1>4. Swap(Swap(w.reg, r, y), r, z) = Swap(w.reg, r, z)
    BY WorldFields, RegTwice
  <1>5. m = n
    BY <1>1, <1>2, <1>3, <1>4, SameWorld
  <1> QED BY <1>5 DEF m, n, v

-----------------------------------------------------------------------------
(* Where a thread is.                                                      *)

TopIs(w, t, fn, pcs) ==
    w.stk[t] # <<>> /\ Last(w.stk[t]).fn = fn /\ Last(w.stk[t]).pc \in pcs

\* A thread at a place of a function has its frame at the top.
LEMMA AtTop ==
    ASSUME NEW t, NEW fn, NEW pc, NEW pcs, At(t, fn, pc), pc \in pcs
    PROVE  TopIs(World, t, fn, pcs)
  BY WorldIs DEF At, Idle, Top, TopIs

\* What the frame at the top says by itself.
LEMMA TopOf ==
    ASSUME NEW w, NEW t, NEW p, NEW fn, NEW pcs, Good(w, p), t \in Thread,
           TopIs(w, t, fn, pcs)
    PROVE  LET s == w.stk[t]
               g == Last(s)
           IN /\ s # <<>> /\ g \in FrameType /\ Len(s) \in 1..4 /\ g.fn = fn
              /\ g.pc \in pcs /\ Fits(g, Len(s), Under(s, Len(s)))
              /\ TopAt(w, t, <<t, Len(s)>>, g) /\ w \in WorldType
              /\ fn \in {"send", "tsx", "refresh"} => g.r \in Regc
  <1> DEFINE s == w.stk[t]
             g == Last(s)
  <1>1. /\ g \in FrameType /\ Len(s) \in 1..4 /\ Fits(g, Len(s), Under(s, Len(s)))
        /\ TopAt(w, t, <<t, Len(s)>>, g) /\ w \in WorldType /\ s # <<>>
    BY TopFacts DEF TopIs
  <1>2. g.fn = fn /\ g.pc \in pcs
    BY DEF TopIs
  <1> HIDE DEF g, s
  <1>3. fn \in {"send", "tsx", "refresh"} => g.r # None
    BY <1>1, <1>2 DEF Fits
  <1>4. g.r \in Regc \cup {None}
    BY <1>1 DEF FrameType
  <1> QED BY <1>1, <1>2, <1>3, <1>4 DEF g, s

\* The thread is not about to delete a session.
LEMMA TopMild ==
    ASSUME NEW w, NEW t, NEW fn, NEW pcs, TopIs(w, t, fn, pcs),
           fn # "del" \/ pcs = {"sent"}
    PROVE  Mild(w.stk[t])
  BY DEF TopIs, Mild

\* The frame at the top of a callback changes.
LEMMA PlacedTsx ==
    ASSUME NEW w, NEW t, NEW p, NEW f, NEW pcs, Good(w, p), t \in Thread,
           TopIs(w, t, "tsx", pcs), f \in FrameType, f.fn = "tsx",
           f.r = Last(w.stk[t]).r,
           f.pc \in {"tsx_cb", "handle", "sent", "call", "dec", "flag"},
           f.pc = "sent" => Len(w.stk[t]) = 1,
           f.pc \in {"tsx_cb", "handle"} =>
              f.code = Last(w.stk[t]).code /\ pcs \subseteq {"start", "tsx_cb"}
    PROVE  Placed(w, t, f)
  <1> DEFINE s == w.stk[t]
             g == Last(s)
             i == Len(s)
             b == Under(s, i)
  <1>0. Mild(s)
    BY TopMild
  <1>1. /\ s # <<>> /\ g \in FrameType /\ g.fn = "tsx" /\ g.pc \in pcs
        /\ Fits(g, i, b) /\ Mild(s)
    BY <1>0, TopFacts DEF TopIs
  <1>2. /\ f.fn = "tsx" /\ f.r = g.r /\ f \in FrameType
        /\ f.pc \in {"tsx_cb", "handle", "sent", "call", "dec", "flag"}
        /\ f.pc = "sent" => i = 1
        /\ f.pc \in {"tsx_cb", "handle"} => f.code = g.code
                                            /\ pcs \subseteq {"start", "tsx_cb"}
    OBVIOUS
  <1> HIDE DEF s, g, i, b
  <1>3. Fits(f, i, b)
    <2>1. f.pc \in {"tsx_cb", "handle"} => g.pc \in {"start", "tsx_cb"}
      BY <1>1, <1>2
    <2>2. g.r # None /\ (i = 1 \/ (i \in {3, 4} /\ b.fn = "send" /\ g.r = b.r))
      BY <1>1 DEF Fits
    <2>3. i # 1 /\ f.pc \in {"tsx_cb", "handle"} => f.code = 503
      BY <1>1, <1>2, <2>1 DEF Fits
    <2> QED BY <1>2, <2>2, <2>3 DEF Fits
  <1>4. Calm(f) /\ Calm(g) /\ Meek(f)
    BY <1>1, <1>2 DEF Calm, Meek
  <1> QED BY <1>1, <1>2, <1>3, <1>4 DEF Placed, s, g, i, b

\* The refresh timer's callback goes on.
LEMMA PlacedRefresh ==
    ASSUME NEW w, NEW t, NEW p, NEW f, NEW pcs, Good(w, p), t \in Thread,
           TopIs(w, t, "refresh", pcs), f \in FrameType, f.fn = "refresh",
           f.r = Last(w.stk[t]).r,
           f.pc \in {"ref", "register", "sent", "call", "dec", "flag"}
    PROVE  Placed(w, t, f)
  <1> DEFINE s == w.stk[t]
             g == Last(s)
             i == Len(s)
             b == Under(s, i)
  <1>1. /\ s # <<>> /\ g \in FrameType /\ g.fn = "refresh"
        /\ Fits(g, i, b) /\ Mild(s)
    BY TopOf, TopMild
  <1>2. f.r = g.r /\ f \in FrameType
    OBVIOUS
  <1> HIDE DEF s, g, i, b
  <1>3. Fits(f, i, b)
    BY <1>1, <1>2 DEF Fits
  <1>4. Calm(f) /\ Calm(g) /\ Meek(f)
    BY <1>1 DEF Calm, Meek
  <1> QED BY <1>1, <1>2, <1>3, <1>4 DEF Placed, s, g, i, b

\* A send goes on.
LEMMA PlacedSend ==
    ASSUME NEW w, NEW t, NEW p, NEW f, NEW pcs, Good(w, p), t \in Thread,
           TopIs(w, t, "send", pcs), f \in FrameType, f.fn = "send",
           f.r = Last(w.stk[t]).r, f.pc \in {"out", "back"},
           f.status \in {"ok", "error"}, f.pc = "out" => f.status = "ok"
    PROVE  Placed(w, t, f)
  <1> DEFINE s == w.stk[t]
             g == Last(s)
             i == Len(s)
             b == Under(s, i)
  <1>1. /\ s # <<>> /\ g \in FrameType /\ g.fn = "send"
        /\ Fits(g, i, b) /\ Mild(s)
    BY TopOf, TopMild
  <1>2. f.r = g.r /\ f \in FrameType
    OBVIOUS
  <1> HIDE DEF s, g, i, b
  <1>3. Fits(f, i, b)
    BY <1>1, <1>2 DEF Fits
  <1>4. Calm(f) /\ Calm(g) /\ Meek(f)
    BY <1>1 DEF Calm, Meek
  <1> QED BY <1>1, <1>2, <1>3, <1>4 DEF Placed, s, g, i, b

\* A function learns the status of the call it made.
LEMMA StatusPlain ==
    ASSUME NEW w, NEW t, NEW p, NEW st, Good(w, p), t \in Thread, w.stk[t] # <<>>,
           Waits(Last(w.stk[t])), Last(w.stk[t]).fn # "send",
           st \in {"ok", "error", "EBUSY"}
    PROVE  Moved(w, Put(w, t, WithStatus(Last(w.stk[t]), st)), t,
                 Turned(w.stk[t], WithStatus(Last(w.stk[t]), st)), p)
  <1> DEFINE s == w.stk[t]
             g == Last(s)
             f == WithStatus(g, st)
             i == Len(s)
             b == Under(s, i)
  <1>1. s # <<>> /\ g \in FrameType /\ Fits(g, i, b)
    BY TopFacts
  <1>2. g.fn # "send" /\ g.pc = "sent" /\ Waits(g)
    BY DEF Waits
  <1> HIDE DEF s, g, i, b
  <1>3. /\ f \in FrameType /\ f.pc = g.pc /\ f.fn = g.fn /\ f.r = g.r
        /\ f.code = g.code
    BY <1>1, WithStatusIs
  <1> HIDE DEF f
  <1>4. Fits(f, i, b)
    <2>1. CASE g.fn = "set"
      BY <1>1, <1>2, <1>3, <2>1 DEF Fits
    <2>2. CASE g.fn = "tsx"
      BY <1>1, <1>2, <1>3, <2>2 DEF Fits
    <2>3. CASE g.fn \in {"refresh", "del", "retry"}
      BY <1>1, <1>2, <1>3, <2>3 DEF Fits
    <2> QED BY <1>1, <1>2, <2>1, <2>2, <2>3 DEF FrameType, Fns
  <1>5. Mild(s) /\ Meek(f) /\ Like(g, f)
    BY <1>2, <1>3 DEF Mild, Meek, Like, g
  <1>6. Placed(w, t, f)
    BY <1>1, <1>3, <1>4, <1>5 DEF Placed, s, g, i, b
  <1>7. \A r \in Regc : SameIn(g, f, r)
    BY <1>2, <1>3, SameRest
  <1>8. Moved(w, Put(w, t, f), t, Turned(w.stk[t], f), p)
    BY <1>6, <1>7, PutPlain DEF g, s
  <1> QED BY <1>8 DEF f, g, s

\* The frame under a send.
LEMMA UnderSend ==
    ASSUME NEW w, NEW t, NEW p, NEW pcs, Good(w, p), t \in Thread,
           TopIs(w, t, "send", pcs)
    PROVE  LET s == w.stk[t]
               b == Under(s, Len(s))
           IN /\ Front(s) # <<>> /\ Last(Front(s)) = b /\ Waits(b)
              /\ b.fn \in {"set", "tsx", "refresh"} /\ b.pc = "sent"
              /\ b.r = Last(s).r /\ Len(s) \in 2..3 /\ b = s[Len(s) - 1]
              /\ Stack(s)
  <1> DEFINE s == w.stk[t]
             g == Last(s)
             i == Len(s)
             b == Under(s, i)
  <1>1. s # <<>> /\ Stack(s) /\ g.fn = "send" /\ Fits(g, i, b) /\ i \in 1..4
    BY TopFacts DEF TopIs
  <1> HIDE DEF b, g
  <1>2. i \in 2..3 /\ b.fn \in {"set", "tsx", "refresh"} /\ b.r = g.r
    BY <1>1 DEF Fits
  <1>3. Front(s) # <<>> /\ Last(Front(s)) = b /\ Waits(b)
    <2>0. i \in 2..3
      BY <1>2
    <2>1. i > 1
      <3> HIDE DEF i
      <3> QED BY <2>0
    <2> QED BY <1>1, <2>1, StackPop DEF b
  <1>4. b.pc = "sent"
    BY <1>2, <1>3 DEF Waits
  <1>5. b = s[i - 1]
    <2>0. i \in 2..3
      BY <1>2
    <2> HIDE DEF i
    <2>1. i > 1
      BY <2>0
    <2> QED BY <2>1 DEF b, Under
  <1> QED BY <1>1, <1>2, <1>3, <1>4, <1>5 DEF b, g

-----------------------------------------------------------------------------
(* The users of a session whose frame is at the top.                       *)

\* A session with a firm reference lives and is not spare.
LEMMA OneUser ==
    ASSUME NEW w, NEW t, NEW r, NEW p, Good(w, p), t \in Thread, r \in Regc,
           w.stk[t] # <<>>, Last(w.stk[t]).r = r, In("firm", Last(w.stk[t]))
    PROVE  /\ w.reg[r].live /\ ~Spare(w, r) /\ w.reg[r].busy \in Nat \ {0}
           /\ w.reg[r] \in SessionType /\ SoundIn(w.reg[r], w, r)
  <1> DEFINE s == w.reg[r]
             U == Places(w.stk, "use", r)
             h == <<t, Len(w.stk[t])>>
  <1>1. s.live /\ ~Spare(w, r)
    BY HeldLive
  <1>2. SoundIn(s, w, r) /\ s \in SessionType
    BY WorldFields DEF Good, Sessions
  <1>3. IsFiniteSet(U) /\ s.busy = Cardinality(U)
    BY <1>1, <1>2 DEF SoundIn, Sound
  <1>4. h \in U
    <2>1. In("use", Last(w.stk[t]))
      BY DEF In
    <2>2. TopAt(w, t, h, Last(w.stk[t]))
      BY DEF TopAt
    <2> HIDE DEF h
    <2> DEFINE g == Last(w.stk[t])
    <2>3. In("use", g) /\ g.r = r /\ TopAt(w, t, h, g)
      BY <2>1, <2>2
    <2> HIDE DEF g
    <2>4. h \in Places(w.stk, "use", r) <=> In("use", g) /\ g.r = r
      BY <2>3, TopPlace
    <2> QED BY <2>3, <2>4
  <1> HIDE DEF s, U, h
  <1>5. Taken(U, h, U \ {h})
    BY <1>4 DEF Taken
  <1>6. Cardinality(U) \in Nat \ {0}
    BY <1>3, <1>5, TakenCount
  <1> QED BY <1>1, <1>2, <1>3, <1>6 DEF s

\* A send has its caller's reference besides its own.
LEMMA TwoUsers ==
    ASSUME NEW w, NEW t, NEW p, NEW pcs, Good(w, p), t \in Thread,
           TopIs(w, t, "send", pcs), pcs \subseteq {"out", "back"}
    PROVE  w.reg[Last(w.stk[t]).r].busy - 1 \in Nat \ {0}
  <1> DEFINE g == Last(w.stk[t])
             r == g.r
             n == Len(w.stk[t])
             b == w.stk[t][n - 1]
             U == Places(w.stk, "use", r)
             h == <<t, n>>
             c == <<t, n - 1>>
  <1>1. w.stk[t] # <<>> /\ r \in Regc /\ In("firm", g)
    <2>1. g.fn = "send" /\ g.pc \in pcs
      BY DEF TopIs
    <2> QED BY <2>1, TopOf DEF In
  <1>2. w.reg[r].live /\ SoundIn(w.reg[r], w, r)
    BY <1>1, OneUser
  <1>3. IsFiniteSet(U) /\ w.reg[r].busy = Cardinality(U)
    BY <1>2 DEF SoundIn, Sound
  <1>4. h \in U
    <2>1. In("use", g)
      BY <1>1 DEF In
    <2>2. TopAt(w, t, h, g)
      BY <1>1 DEF TopAt
    <2> HIDE DEF h, r
    <2>3. g = Last(w.stk[t]) /\ g.r = r
      BY DEF r
    <2> HIDE DEF g
    <2>4. h \in Places(w.stk, "use", r) <=> In("use", g) /\ g.r = r
      BY <2>2, TopPlace
    <2> QED BY <2>1, <2>3, <2>4
  <1>5. /\ n \in 2..3 /\ b.fn \in {"set", "tsx", "refresh"} /\ b.pc = "sent"
        /\ b.r = r
    BY UnderSend
  <1>6. c \in U /\ c # h
    <2>1. In("use", b)
      BY <1>5 DEF In
    <2> HIDE DEF n, b, r
    <2>2. n - 1 \in 1..n /\ n - 1 \in 1..4 /\ n - 1 # n
      BY <1>5
    <2>3. n - 1 \in Spots(w.stk[t], "use", r)
      BY <1>5, <2>1, <2>2 DEF Spots, n, b
    <2>4. c \in Thread \X (1..4) /\ c[1] = t /\ c[2] = n - 1
      BY <2>2
    <2>5. c # h
      BY <2>2
    <2> QED BY <2>3, <2>4, <2>5 DEF Places
  <1> HIDE DEF U, h, c
  <1>7. Taken(U, h, U \ {h}) /\ Taken(U \ {h}, c, (U \ {h}) \ {c})
    BY <1>4, <1>6 DEF Taken
  <1>8. /\ IsFiniteSet(U \ {h}) /\ Cardinality(U \ {h}) = Cardinality(U) - 1
    BY <1>3, <1>7, TakenCount
  <1>9. Cardinality(U \ {h}) \in Nat \ {0}
    BY <1>7, <1>8, TakenCount
  <1> QED BY <1>3, <1>8, <1>9

\* The session of a send lives: its caller's reference says so.
LEMMA CallerLive ==
    ASSUME NEW w, NEW t, NEW p, NEW pcs, Good(w, p), t \in Thread,
           TopIs(w, t, "send", pcs)
    PROVE  w.reg[Last(w.stk[t]).r].live
  <1> DEFINE r == Last(w.stk[t]).r
             n == Len(w.stk[t])
             b == w.stk[t][n - 1]
  <1>1. r \in Regc /\ t \in Thread
    BY TopOf
  <1>2. SoundIn(w.reg[r], w, r)
    BY <1>1 DEF Good, Sessions
  <1>5. /\ n \in 2..3 /\ b.fn \in {"set", "tsx", "refresh"} /\ b.pc = "sent"
        /\ b.r = r
    BY UnderSend
  <1> HIDE DEF n, b, r
  <1>6. In("firm", b)
    BY <1>5 DEF In
  <1>7. n - 1 \in 1..n /\ n - 1 \in 1..4
    BY <1>5
  <1>8. n - 1 \in Spots(w.stk[t], "firm", r)
    BY <1>5, <1>6, <1>7 DEF Spots, n, b
  <1>9. <<t, n - 1>> \in Thread \X (1..4)
    BY <1>7
  <1>10. <<t, n - 1>> \in Places(w.stk, "firm", r)
    BY <1>8, <1>9 DEF Places
  <1>11. w.reg[r].live
    BY <1>2, <1>10 DEF SoundIn, Sound
  <1> QED BY <1>11 DEF r

-----------------------------------------------------------------------------
(* Sending.                                                                *)

\* The stack and the requests are written in any order.
LEMMA PutNet ==
    ASSUME NEW w, NEW t, NEW f, NEW m, w \in WorldType, t \in Thread,
           w.stk[t] # <<>>, f \in FrameType, m \subseteq Request
    PROVE  WithNet(Put(w, t, f), m) = Put(WithNet(w, m), t, f)
  <1> DEFINE x == WithNet(w, m)
             v == Put(w, t, f)
             y == WithNet(v, m)
             z == Put(x, t, f)
  <1>1. OnlyStk(w, v, t, Turned(w.stk[t], f))
    BY PutIs
  <1>2. /\ x \in WorldType /\ x.net = m /\ x.reg = w.reg /\ x.stk = w.stk
        /\ x.acc = w.acc /\ x.pjsua = w.pjsua
    BY WithNetIs
  <1> HIDE DEF x, v
  <1>3. /\ y \in WorldType /\ y.net = m /\ y.reg = v.reg /\ y.stk = v.stk
        /\ y.acc = v.acc /\ y.pjsua = v.pjsua
    BY <1>1, WithNetIs DEF OnlyStk
  <1>4. OnlyStk(x, z, t, Turned(x.stk[t], f))
    BY <1>2, PutIs
  <1> HIDE DEF y, z
  <1>5. y = z
    BY <1>1, <1>2, <1>3, <1>4, SameWorld DEF OnlyStk
  <1> QED BY <1>5 DEF x, v, y, z

\* The same for a push.
LEMMA PushNet ==
    ASSUME NEW w, NEW t, NEW f, NEW m, w \in WorldType, t \in Thread,
           f \in FrameType, m \subseteq Request
    PROVE  WithNet(Push(w, t, f), m) = Push(WithNet(w, m), t, f)
  <1> DEFINE x == WithNet(w, m)
             v == Push(w, t, f)
             y == WithNet(v, m)
             z == Push(x, t, f)
  <1>1. OnlyStk(w, v, t, Append(w.stk[t], f))
    BY PushIs
  <1>2. /\ x \in WorldType /\ x.net = m /\ x.reg = w.reg /\ x.stk = w.stk
        /\ x.acc = w.acc /\ x.pjsua = w.pjsua
    BY WithNetIs
  <1> HIDE DEF x, v
  <1>3. /\ y \in WorldType /\ y.net = m /\ y.reg = v.reg /\ y.stk = v.stk
        /\ y.acc = v.acc /\ y.pjsua = v.pjsua
    BY <1>1, WithNetIs DEF OnlyStk
  <1>4. OnlyStk(x, z, t, Append(x.stk[t], f))
    BY <1>2, PushIs
  <1> HIDE DEF y, z
  <1>5. y = z
    BY <1>1, <1>2, <1>3, <1>4, SameWorld DEF OnlyStk
  <1> QED BY <1>5 DEF x, v, y, z

\* The session of a request on its way.
Asked(s, t, i, unreg) ==
    [AddRef(s) EXCEPT !.has_tsx = TRUE, !.cseq = <<t, i>>,
                      !.op = IF unreg THEN "UNREGISTERING" ELSE "REGISTERING"]

\* A reference is counted.
LEMMA AddRefIs ==
    ASSUME NEW s, s \in SessionType
    PROVE  LET z == AddRef(s)
           IN /\ z \in SessionType /\ z.live = s.live /\ z.busy = s.busy + 1
              /\ z.has_tsx = s.has_tsx /\ z.cseq = s.cseq /\ z.lock = s.lock
              /\ z.delete_flag = s.delete_flag /\ z.op = s.op
  BY DEF AddRef, SessionType

AskedFor(s, z, h) ==
    /\ z \in SessionType /\ z.live = s.live /\ z.busy = s.busy + 1
    /\ z.has_tsx = TRUE /\ z.cseq = h /\ z.lock = s.lock
    /\ z.delete_flag = s.delete_flag

\* A session that a send took for its request.
LEMMA AskedIs ==
    ASSUME NEW s, NEW t, NEW i, NEW u, s \in SessionType, t \in Thread, i \in 1..4,
           u \in BOOLEAN
    PROVE  AskedFor(s, Asked(s, t, i, u), <<t, i>>)
  <1> DEFINE o == IF u THEN "UNREGISTERING" ELSE "REGISTERING"
             y == AddRef(s)
             h == <<t, i>>
             z == [y EXCEPT !.has_tsx = TRUE, !.cseq = h, !.op = o]
  <1>1. o \in {"IDLE", "REGISTERING", "UNREGISTERING"}
    OBVIOUS
  <1>2. Asked(s, t, i, u) = z
    BY DEF Asked
  <1>3. /\ y \in SessionType /\ y.live = s.live /\ y.busy = s.busy + 1
        /\ y.lock = s.lock /\ y.delete_flag = s.delete_flag
    BY AddRefIs
  <1>4. h \in {<<>>} \cup (Thread \X (1 .. 4))
    OBVIOUS
  <1> HIDE DEF o, y, h
  <1>5. /\ z \in SessionType /\ z.live = y.live /\ z.busy = y.busy
        /\ z.has_tsx = TRUE /\ z.cseq = h /\ z.lock = y.lock
        /\ z.delete_flag = y.delete_flag
    BY <1>1, <1>3, <1>4 DEF SessionType
  <1> QED BY <1>2, <1>3, <1>5 DEF h, AskedFor

\* A session that is the account's stays usable.
LEMMA AccSession ==
    ASSUME NEW w, NEW p, NEW r, NEW z, Good(w, p), r \in Regc,
           z.live = w.reg[r].live, z.delete_flag = w.reg[r].delete_flag
    PROVE  w.acc.regc = r => z.live /\ ~z.delete_flag
  <1>1. None \notin Regc
    BY RegAssumption
  <1> QED BY <1>1 DEF Good, Usable

\* A write of session r as far as the account is concerned.
Written(w, x, r, z) ==
    /\ Writes(w, x, r, z) /\ x.net = w.net /\ x.pjsua = w.pjsua
    /\ x.acc = w.acc /\ x.stk = w.stk

\* A session is written, neither locked nor marked nor freed.
LEMMA SessionWritten ==
    ASSUME NEW w, NEW p, NEW r, NEW z, Good(w, p), r \in Regc, z \in SessionType,
           z.live = w.reg[r].live, z.delete_flag = w.reg[r].delete_flag,
           z.lock = w.reg[r].lock
    PROVE  Written(w, WithReg(w, r, z), r, z)
  <1>1. w.acc.regc = r => z.live /\ ~z.delete_flag
    BY AccSession
  <1> QED BY <1>1, WithRegWrites DEF Written

\* n is good, and PJSUA_LOCK is held as in w.
Kept(w, n, p) == Good(n, p) /\ n.pjsua = w.pjsua

\* A step that keeps the invariant of the world keeps Inv.
LEMMA KeptNext ==
    ASSUME NEW n, Inv, Kept(World, n, pjsua), Become(n)
    PROVE  Inv'
  <1>1. Good(n, n.pjsua)
    BY WorldIs DEF Kept
  <1> QED BY <1>1, Becomes

\* A send returns without having done anything.
LEMMA Refuses ==
    ASSUME NEW w, NEW t, NEW p, NEW st, Good(w, p), t \in Thread,
           TopIs(w, t, "send", {"start"}), st \in {"ok", "error", "EBUSY"}
    PROVE  Kept(w, Return(w, t, st), p)
  <1> DEFINE v == Pop(w, t)
             s == w.stk[t]
             g == Last(s)
             u == Put(v, t, WithStatus(Last(v.stk[t]), st))
  <1>1. s # <<>> /\ g.fn = "send" /\ g.pc = "start"
    BY DEF TopIs
  <1>2. NoClass(g) /\ Mild(s) /\ Calm(g)
    BY <1>1, NoClassFrame DEF Mild, Calm
  <1>3. Moved(w, v, t, Front(s), p)
    BY <1>1, <1>2, PopPlain
  <1>4. Front(s) # <<>> /\ Waits(Last(Front(s))) /\ Last(Front(s)).fn # "send"
    BY UnderSend
  <1>5. Return(w, t, st) = u
    BY DEF Return, WithStatus
  <1> HIDE DEF v
  <1>6. Good(v, p) /\ v.stk[t] = Front(s) /\ v.pjsua = w.pjsua
    BY <1>3 DEF Moved
  <1>7. Moved(v, u, t, Turned(v.stk[t], WithStatus(Last(v.stk[t]), st)), p)
    BY <1>4, <1>6, StatusPlain
  <1> QED BY <1>5, <1>6, <1>7 DEF Moved, Kept

\* A send takes its reference.
LEMMA Starts ==
    ASSUME NEW w, NEW t, NEW p, NEW r, NEW i, NEW u, Good(w, p), t \in Thread,
           TopIs(w, t, "send", {"start"}), r = Last(w.stk[t]).r,
           i = Len(w.stk[t]), u \in BOOLEAN,
           ~w.reg[r].lock, ~w.reg[r].has_tsx
    PROVE  Kept(w, Put(WithReg(w, r, Asked(w.reg[r], t, i, u)), t,
                       WithPc(Last(w.stk[t]), "out")), p)
  <1> DEFINE s == w.stk[t]
             g == Last(s)
             z == Asked(w.reg[r], t, i, u)
             f == WithPc(g, "out")
             x == WithReg(w, r, z)
             n == Put(x, t, f)
  <1>1. /\ g \in FrameType /\ i \in 1..4 /\ r \in Regc /\ w \in WorldType
        /\ TopAt(w, t, <<t, i>>, g) /\ Fits(g, Len(s), Under(s, Len(s)))
    BY TopOf
  <1>2. g.fn = "send" /\ g.pc = "start" /\ g.r = r
    BY DEF TopIs
  <1>3. w.reg[r] \in SessionType
    BY <1>1, WorldFields
  <1>4. NoClass(g)
    BY <1>2, NoClassFrame
  <1>5. /\ z \in SessionType /\ z.live = w.reg[r].live
        /\ z.busy = w.reg[r].busy + 1
        /\ z.has_tsx = TRUE /\ z.cseq = <<t, i>> /\ z.lock = w.reg[r].lock
        /\ z.delete_flag = w.reg[r].delete_flag
    <2>1. AskedFor(w.reg[r], z, <<t, i>>)
      BY <1>1, <1>3, AskedIs
    <2> QED BY <2>1 DEF AskedFor
  <1> HIDE DEF z
  <1>6. /\ f \in FrameType /\ f.pc = "out" /\ f.fn = "send" /\ f.r = r
        /\ f.status = "ok"
    <2>1. g.status = "ok"
      BY <1>1, <1>2 DEF Fits
    <2> QED BY <1>1, <1>2, <2>1, WithPcIs DEF Pcs
  <1> HIDE DEF f
  <1>7. Placed(w, t, f)
    BY <1>2, <1>6, PlacedSend
  <1>8. Writes(w, x, r, z) /\ x.net = w.net /\ x.pjsua = w.pjsua
    BY <1>1, <1>5, SessionWritten DEF Written
  <1> HIDE DEF x
  <1>9. Landed(w, x, n, t, <<t, Len(s)>>, g, f, Turned(s, f), r, z, p)
    BY <1>2, <1>6, <1>7, <1>8, AboutOwn, PutGround
  <1> HIDE DEF n, g, s
  <1>10. Ground(w, n, t, <<t, i>>, g, f, r, z, p, p) /\ n.net = w.net
         /\ n.pjsua = w.pjsua
    BY <1>8, <1>9 DEF Landed, s
  <1>11. In("use", f) /\ In("ask", f) /\ In("out", f) /\ ~In("fail", f)
    BY <1>6 DEF In
  <1>12. ~In("use", g) /\ ~Asking(g)
    BY <1>4, NoClassAre
  <1>13. w.reg[r].live
    BY CallerLive
  <1> DEFINE h == <<t, i>>
  <1> HIDE DEF h
  <1>14. /\ Ground(w, n, t, h, g, f, r, z, p, p) /\ TopAt(w, t, h, g)
         /\ z.cseq = h
    BY <1>1, <1>5, <1>10 DEF h
  <1>15. Good(n, p)
    BY <1>5, <1>6, <1>10, <1>11, <1>12, <1>13, <1>14, Asks
  <1> QED BY <1>10, <1>15 DEF Kept, n, x, f, z, g, s

\* pjsip_regc_send takes the session, or finds it busy.
LEMMA SendStartKeeps ==
    ASSUME Inv, NEW t \in Thread, SendStart(t)
    PROVE  Inv'
  <1> DEFINE g == Last(World.stk[t])
             z == Asked(World.reg[g.r], t, Len(World.stk[t]), g.unreg)
             n == Put(WithReg(World, g.r, z), t, WithPc(g, "out"))
  <1>1. Good(World, pjsua)
    BY DEF Inv
  <1>2. TopIs(World, t, "send", {"start"}) /\ ~World.reg[g.r].lock
    BY AtTop, WorldIs DEF SendStart, MayUse, Top
  <1>3. CASE Become(Return(World, t, "EBUSY"))
    <2>1. Kept(World, Return(World, t, "EBUSY"), pjsua)
      BY <1>1, <1>2, Refuses
    <2> QED BY <1>3, <2>1, KeptNext
  <1>4. CASE Become(n) /\ ~World.reg[g.r].has_tsx
    <2>1. g.unreg \in BOOLEAN
      <3>1. g \in FrameType
        BY <1>1, <1>2, TopOf
      <3> QED BY <3>1 DEF FrameType
    <2>2. Kept(World, n, pjsua)
      BY <1>1, <1>2, <1>4, <2>1, Starts
    <2> QED BY <1>4, <2>2, KeptNext
  <1>5. Become(Return(World, t, "EBUSY"))
        \/ (Become(n) /\ ~World.reg[g.r].has_tsx)
    <2>1. WithReg(World, g.r, z).stk = World.stk
      BY DEF WithReg, World
    <2> QED BY <2>1, WorldIs DEF SendStart, Top, Asked, Goto, WithPc
  <1> QED BY <1>3, <1>4, <1>5

\* The request leaves.
LEMMA Leaves ==
    ASSUME NEW w, NEW t, NEW p, NEW r, NEW q, Good(w, p), t \in Thread,
           TopIs(w, t, "send", {"out"}), r = Last(w.stk[t]).r,
           q \in Request, q.r = r
    PROVE  Kept(w, Put(WithNet(w, w.net \cup {q}), t,
                       WithPc(Last(w.stk[t]), "back")), p)
  <1> DEFINE s == w.stk[t]
             g == Last(s)
             h == <<t, Len(s)>>
             m == w.net \cup {q}
             x == WithNet(w, m)
             f == WithPc(g, "back")
             n == Put(x, t, f)
  <1>1. /\ g \in FrameType /\ r \in Regc /\ w \in WorldType
        /\ TopAt(w, t, h, g) /\ Fits(g, Len(s), Under(s, Len(s)))
    BY TopOf
  <1>2. g.fn = "send" /\ g.pc = "out" /\ g.r = r
    BY DEF TopIs
  <1>3. g.status = "ok"
    BY <1>1, <1>2 DEF Fits
  <1>4. /\ f \in FrameType /\ f.pc = "back" /\ f.fn = "send" /\ f.r = r
        /\ f.status = "ok"
    BY <1>1, <1>2, <1>3, WithPcIs DEF Pcs
  <1> HIDE DEF f
  <1>5. Placed(w, t, f)
    BY <1>2, <1>4, PlacedSend
  <1>6. Writes(w, x, r, w.reg[r]) /\ x.net = m /\ x.pjsua = w.pjsua
    <2>1. w.net \subseteq Request
      BY <1>1, WorldFields
    <2>2. Only(w, m, r)
      BY <2>1 DEF Sent, Only
    <2> HIDE DEF m
    <2> QED BY <1>1, <2>2, NetWrites
  <1> HIDE DEF x
  <1>7. Landed(w, x, n, t, <<t, Len(s)>>, g, f, Turned(s, f), r, w.reg[r], p)
    BY <1>2, <1>4, <1>5, <1>6, AboutOwn, PutGround
  <1> HIDE DEF n, g, h, s
  <1>8. Ground(w, n, t, h, g, f, r, w.reg[r], p, p) /\ n.net = w.net \cup {q}
         /\ n.pjsua = w.pjsua
    BY <1>6, <1>7 DEF Landed, s, h
  <1>9. /\ In("ask", g) /\ In("out", g) /\ ~In("fail", g) /\ Holding(g)
        /\ Holding(f) /\ ~Asking(f)
    BY <1>2, <1>4 DEF In, Holding, Asking
  <1>10. Good(n, p)
    BY <1>1, <1>2, <1>4, <1>8, <1>9, Departs
  <1> QED BY <1>8, <1>10 DEF Kept, n, x, f, g, s

\* n is w after thread t failed to send the request of session r at place h.
Stuck(w, n, t, f, h, r, p) ==
    /\ Kept(w, n, p) /\ f \in FrameType /\ n.reg = w.reg
    /\ n.stk[t] = Turned(w.stk[t], f)
    /\ w.reg[r].live /\ w.reg[r].has_tsx /\ w.reg[r].cseq = h
    /\ h \in Places(n.stk, "fail", r)
    /\ Places(n.stk, "ask", r) = {} /\ Sent(n.net, r) = {}

\* The request cannot be sent.
LEMMA Stays ==
    ASSUME NEW w, NEW t, NEW p, NEW r, Good(w, p), t \in Thread,
           TopIs(w, t, "send", {"out"}), r = Last(w.stk[t]).r
    PROVE  LET f == WithStatus(WithPc(Last(w.stk[t]), "back"), "error")
           IN Stuck(w, Put(w, t, f), t, f, <<t, Len(w.stk[t])>>, r, p)
  <1> DEFINE s == w.stk[t]
             g == Last(s)
             h == <<t, Len(s)>>
             e == WithPc(g, "back")
             f == WithStatus(e, "error")
             n == Put(w, t, f)
  <1>1. /\ g \in FrameType /\ r \in Regc /\ w \in WorldType /\ TopAt(w, t, h, g)
        /\ s # <<>>
    BY TopOf
  <1>2. g.fn = "send" /\ g.pc = "out" /\ g.r = r
    BY DEF TopIs
  <1>3. /\ e \in FrameType /\ e.pc = "back" /\ e.fn = "send" /\ e.r = r
    BY <1>1, <1>2, WithPcIs DEF Pcs
  <1> HIDE DEF e
  <1>4. /\ f \in FrameType /\ f.pc = "back" /\ f.fn = "send" /\ f.r = r
        /\ f.status = "error"
    BY <1>3, WithStatusIs
  <1> HIDE DEF f
  <1>5. Placed(w, t, f)
    BY <1>2, <1>4, PlacedSend
  <1>6. Writes(w, w, r, w.reg[r])
    BY <1>1, SelfWrites
  <1>7. Landed(w, w, n, t, <<t, Len(s)>>, g, f, Turned(s, f), r, w.reg[r], p)
    BY <1>2, <1>4, <1>5, <1>6, AboutOwn, PutGround
  <1>11. n.reg = w.reg
    BY <1>1, <1>4, PutIs DEF OnlyStk
  <1> HIDE DEF n, g, h, s
  <1>8. /\ Ground(w, n, t, h, g, f, r, w.reg[r], p, p) /\ n.net = w.net
        /\ n.pjsua = w.pjsua /\ n.stk[t] = Turned(s, f)
    BY <1>7 DEF Landed, s, h
  <1>9. /\ In("ask", g) /\ In("out", g) /\ ~In("fail", g) /\ Holding(g)
        /\ Holding(f) /\ ~In("ask", f) /\ ~In("out", f) /\ In("fail", f)
    BY <1>2, <1>4 DEF In, Holding
  <1>10. /\ Good(n, p)
         /\ w.reg[r].live /\ w.reg[r].has_tsx /\ w.reg[r].cseq = h
         /\ h \in Places(n.stk, "fail", r)
         /\ Places(n.stk, "ask", r) = {} /\ Sent(n.net, r) = {}
    BY <1>1, <1>2, <1>4, <1>8, <1>9, Fails
  <1> QED BY <1>4, <1>8, <1>10, <1>11 DEF Kept, Stuck, n, f, e, g, h, s

\* The transaction that could not send it reports that.
LEMMA CallsBack ==
    ASSUME NEW w, NEW t, NEW p, NEW r, NEW q, Good(w, p), t \in Thread,
           TopIs(w, t, "send", {"out"}), r = Last(w.stk[t]).r,
           q \in Request, q.r = r
    PROVE  Kept(w, Push(Put(w, t, WithStatus(WithPc(Last(w.stk[t]), "back"), "error")),
                        t, TsxFrame(q, 503)), p)
  <1> DEFINE s == w.stk[t]
             f == WithStatus(WithPc(Last(s), "back"), "error")
             v == Put(w, t, f)
             k == Len(s)
             h == <<t, k>>
             d == TsxFrame(q, 503)
             n == Push(v, t, d)
             h2 == <<t, Len(v.stk[t]) + 1>>
  <1>1. /\ Kept(w, v, p) /\ f \in FrameType /\ v.stk[t] = Turned(s, f)
        /\ w.reg[r].live /\ w.reg[r].has_tsx /\ w.reg[r].cseq = h
        /\ h \in Places(v.stk, "fail", r)
        /\ Places(v.stk, "ask", r) = {} /\ Sent(v.net, r) = {} /\ v.reg = w.reg
    <2>1. Stuck(w, v, t, f, h, r, p)
      BY Stays
    <2> HIDE DEF v, f, h
    <2> QED BY <2>1 DEF Stuck
  <1>2. /\ k \in 2..3 /\ s \in Seq(FrameType) /\ s # <<>> /\ r \in Regc
        /\ Last(s) \in FrameType
    <2>1. k \in 2..3 /\ Stack(s)
      BY UnderSend
    <2> DEFINE pcs == {"out"}
    <2>2. TopIs(w, t, "send", pcs)
      OBVIOUS
    <2> HIDE DEF pcs
    <2>3. s # <<>> /\ Last(s) \in FrameType /\ Last(s).r \in Regc
      BY <2>2, TopOf
    <2> QED BY <2>1, <2>3 DEF Stack
  <1>3. /\ f.fn = "send" /\ f.pc = "back" /\ f.status = "error" /\ f.r = r
    <2> DEFINE e == WithPc(Last(s), "back")
    <2>1. e \in FrameType /\ e.pc = "back" /\ e.fn = "send" /\ e.r = r
      <3> DEFINE l == Last(s)
                 back == "back"
      <3>1. l \in FrameType /\ l.fn = "send" /\ l.r = r /\ back \in Pcs
        BY <1>2 DEF TopIs, Pcs
      <3> HIDE DEF l, back
      <3>2. LET m == WithPc(l, back)
            IN m \in FrameType /\ m.pc = back /\ m.fn = l.fn /\ m.r = l.r
        BY <3>1, WithPcIs
      <3> QED BY <3>1, <3>2 DEF l, back
    <2> HIDE DEF e
    <2>2. LET f2 == WithStatus(e, "error")
          IN f2.fn = "send" /\ f2.pc = "back" /\ f2.status = "error" /\ f2.r = r
      BY <2>1, WithStatusIs
    <2> QED BY <2>2 DEF e
  <1> HIDE DEF f
  <1>4. v.stk[t] # <<>> /\ Len(v.stk[t]) = k /\ Last(v.stk[t]) = f
    BY <1>1, <1>2, TurnedFacts
  <1>5. /\ d \in FrameType /\ d.fn = "tsx" /\ d.pc = "start" /\ d.r = r
        /\ d.code = 503
    <2> DEFINE e == Frame("tsx", "start", q.r, q.unreg)
    <2>1. e \in FrameType /\ e.pc = "start" /\ e.fn = "tsx" /\ e.r = r
      <3>1. q.unreg \in BOOLEAN
        BY DEF Request
      <3> QED BY <1>2, <3>1, FrameIs DEF Fns, Pcs
    <2>2. d = WithCode(e, 503)
      BY DEF TsxFrame, WithCode
    <2> HIDE DEF e, d
    <2>3. d \in FrameType /\ d.pc = e.pc /\ d.fn = e.fn /\ d.r = e.r
      BY <2>1, <2>2, WithCodeIs
    <2>4. d.code = 503
      BY <2>1, <2>2 DEF WithCode, FrameType
    <2> QED BY <2>1, <2>3, <2>4
  <1> HIDE DEF d, v, k
  <1>6. Mounted(v, t, d)
    <2>1. Waits(f) /\ Meek(d) /\ Calm(d)
      BY <1>3, <1>5 DEF Waits, Meek, Calm
    <2>2. k <= 3 /\ k + 1 \in {3, 4}
      BY <1>2
    <2>3. d.r # None
      BY <1>2, <1>5, RegAssumption
    <2>4. Fits(d, k + 1, f)
      BY <1>3, <1>5, <2>2, <2>3 DEF Fits
    <2> QED BY <1>4, <1>5, <2>1, <2>2, <2>4 DEF Mounted
  <1>7. Good(v, p) /\ v.pjsua = w.pjsua
    BY <1>1 DEF Kept
  <1>8. Writes(v, v, r, v.reg[r])
    BY <1>2, <1>7, SelfWrites
  <1>9. Landed(v, v, n, t, <<t, Len(v.stk[t]) + 1>>, Blank, d,
               Append(v.stk[t], d), r, v.reg[r], p)
    BY <1>5, <1>6, <1>7, <1>8, AboutOwn, PushGround
  <1> HIDE DEF n
  <1>10. /\ Ground(v, n, t, h2, Blank, d, r, v.reg[r], p, p)
         /\ n.net = v.net /\ n.pjsua = v.pjsua
    BY <1>9 DEF Landed
  <1>11. /\ ~In("use", d) /\ ~In("firm", d) /\ In("ask", d) /\ ~In("out", d)
         /\ ~In("fail", d)
    BY <1>5 DEF In
  <1>12. ~In("use", Blank) /\ ~Asking(Blank)
    BY BlankNone, NoClassAre
  <1>13. /\ h2 = <<v.reg[r].cseq[1], v.reg[r].cseq[2] + 1>>
         /\ v.reg[r].live /\ v.reg[r].has_tsx
         /\ v.reg[r].cseq \in Places(v.stk, "fail", r)
    BY <1>1, <1>4
  <1> HIDE DEF h2
  <1>15. d.r = r /\ Places(v.stk, "ask", r) = {} /\ Sent(v.net, r) = {}
    BY <1>1, <1>5
  <1>14. Good(n, p)
    <2> HIDE DEF s
    <2> QED BY <1>10, <1>11, <1>12, <1>13, <1>15, Echoes
  <1> QED BY <1>7, <1>10, <1>14 DEF Kept, n, d, v, f, k

\* The request leaves, or cannot be sent, which may be called back at once.
LEMMA SendOutKeeps ==
    ASSUME Inv, NEW t \in Thread, SendOut(t)
    PROVE  Inv'
  <1> DEFINE w == World
             g == Last(World.stk[t])
             q == [r |-> g.r, unreg |-> g.unreg]
             a == Put(WithNet(w, w.net \cup {q}), t, WithPc(g, "back"))
             b == Put(w, t, WithStatus(WithPc(g, "back"), "error"))
             c == Push(b, t, TsxFrame(q, 503))
  <1>1. Good(World, pjsua) /\ World \in WorldType
    BY DEF Inv, Good
  <1>2. TopIs(World, t, "send", {"out"})
    BY AtTop DEF SendOut
  <1>3. g \in FrameType /\ g.r \in Regc /\ w.stk[t] # <<>>
    BY <1>1, <1>2, TopOf
  <1>4. q \in Request /\ q.r = g.r
    BY <1>3 DEF Request, FrameType
  <1>5. Become(a) \/ Become(b) \/ Become(c)
    <2>1. \/ Become(WithNet(Put(World, t, WithPc(g, "back")), net \cup {q}))
          \/ \E v \in {b, c} : Become(v)
      <3>1. [Top(t) EXCEPT !.pc = "back", !.status = "error"]
               = WithStatus(WithPc(g, "back"), "error")
        BY WorldIs DEF Top, WithStatus, WithPc
      <3>2. q = [r |-> Top(t).r, unreg |-> Top(t).unreg]
        BY WorldIs DEF Top
      <3>3. Goto(World, t, "back") = Put(World, t, WithPc(g, "back"))
        BY DEF Goto, WithPc
      <3> QED BY <3>1, <3>2, <3>3 DEF SendOut
    <2>2. WithNet(Put(World, t, WithPc(g, "back")), net \cup {q}) = a
      <3>1. WithPc(g, "back") \in FrameType
        BY <1>3, WithPcIs DEF Pcs
      <3>2. net = w.net /\ w.net \subseteq Request
        BY <1>1, WorldIs, WorldFields
      <3>3. net \cup {q} \subseteq Request
        BY <3>2, <1>4
      <3> HIDE DEF q, g
      <3>4. WithNet(Put(World, t, WithPc(g, "back")), net \cup {q})
               = Put(WithNet(World, net \cup {q}), t, WithPc(g, "back"))
        BY <1>1, <1>3, <3>1, <3>3, PutNet
      <3> QED BY <3>2, <3>4
    <2> QED BY <2>1, <2>2
  <1>6. Kept(w, a, pjsua)
    <2> HIDE DEF q
    <2> QED BY <1>1, <1>2, <1>4, Leaves
  <1>7. Kept(w, b, pjsua)
    BY <1>1, <1>2, Stays DEF Stuck
  <1>8. Kept(w, c, pjsua)
    <2> HIDE DEF q
    <2> QED BY <1>1, <1>2, <1>4, CallsBack
  <1> HIDE DEF a, b, c
  <1> QED BY <1>5, <1>6, <1>7, <1>8, KeptNext

\* The session of a request whose sending is over.
Backed(s, h, ok) ==
    LET mine == s.cseq = h
        z == IF mine THEN [s EXCEPT !.cseq = <<>>] ELSE s
    IN DecRef(IF ok THEN [z EXCEPT !.transport = TRUE] ELSE SendFailure(z, mine))

BackFrom(s, z, h, ok) ==
    /\ z \in SessionType /\ z.live = s.live /\ z.busy = s.busy - 1
    /\ z.lock = s.lock /\ z.delete_flag = s.delete_flag
    /\ z.cseq = IF s.cseq = h THEN <<>> ELSE s.cseq
    /\ z.has_tsx = IF ~ok /\ s.cseq = h THEN FALSE ELSE s.has_tsx

Busied(s, k) == [s EXCEPT !.busy = k]

\* d is s but for the number of its users.
BusiedFrom(s, d, k) ==
    /\ d \in SessionType /\ d.live = s.live /\ d.busy = k
    /\ d.lock = s.lock /\ d.delete_flag = s.delete_flag
    /\ d.cseq = s.cseq /\ d.has_tsx = s.has_tsx

\* Another number of users changes nothing else.
LEMMA BusyIs ==
    ASSUME NEW s, NEW k, s \in SessionType, k \in Nat
    PROVE  BusiedFrom(s, Busied(s, k), k)
  BY DEF Busied, BusiedFrom, SessionType

\* A session whose send comes back.
LEMMA BackIs ==
    ASSUME NEW s, NEW h, NEW ok \in BOOLEAN, s \in SessionType,
           s.busy - 1 \in Nat \ {0}
    PROVE  BackFrom(s, Backed(s, h, ok), h, ok)
  <1> DEFINE mine == s.cseq = h
             z == IF mine THEN [s EXCEPT !.cseq = <<>>] ELSE s
             e == IF ok THEN [z EXCEPT !.transport = TRUE] ELSE SendFailure(z, mine)
             k == e.busy - 1
             d == Busied(e, k)
  <1>1. /\ z \in SessionType /\ z.live = s.live /\ z.busy = s.busy
        /\ z.lock = s.lock /\ z.delete_flag = s.delete_flag
        /\ z.cseq = (IF mine THEN <<>> ELSE s.cseq) /\ z.has_tsx = s.has_tsx
    <2>1. CASE mine
      <3>1. z = [s EXCEPT !.cseq = <<>>]
        BY <2>1
      <3> HIDE DEF z
      <3> QED BY <2>1, <3>1 DEF SessionType
    <2>2. CASE ~mine
      BY <2>2
    <2> QED BY <2>1, <2>2
  <1> HIDE DEF z
  <1>2. /\ e \in SessionType /\ e.live = z.live /\ e.busy = z.busy
        /\ e.lock = z.lock /\ e.delete_flag = z.delete_flag /\ e.cseq = z.cseq
        /\ e.has_tsx = IF ~ok /\ mine THEN FALSE ELSE z.has_tsx
    <2>1. CASE ok
      <3>1. e = [z EXCEPT !.transport = TRUE]
        BY <2>1
      <3> HIDE DEF e
      <3> QED BY <1>1, <2>1, <3>1 DEF SessionType
    <2>2. CASE ~ok /\ mine
      <3>1. e = [z EXCEPT !.has_tsx = FALSE]
        BY <2>2 DEF SendFailure
      <3> HIDE DEF e, mine
      <3> QED BY <1>1, <2>2, <3>1 DEF SessionType
    <2>3. CASE ~ok /\ ~mine
      BY <1>1, <2>3 DEF SendFailure
    <2> QED BY <2>1, <2>2, <2>3
  <1> HIDE DEF e
  <1>6. k \in Nat \ {0} /\ k = e.busy - 1
    <2>1. e.busy = s.busy
      BY <1>1, <1>2
    <2> QED BY <2>1
  <1> HIDE DEF k
  <1>3. /\ d \in SessionType /\ d.live = e.live /\ d.busy = e.busy - 1
        /\ d.lock = e.lock /\ d.delete_flag = e.delete_flag /\ d.cseq = e.cseq
        /\ d.has_tsx = e.has_tsx
    <2>1. BusiedFrom(e, d, k)
      BY <1>2, <1>6, BusyIs
    <2> HIDE DEF d
    <2> QED BY <1>6, <2>1 DEF BusiedFrom
  <1>4. DecRef(e) = d
    <2>1. [e EXCEPT !.busy = @ - 1] = d
      BY <1>6 DEF Busied
    <2> HIDE DEF d
    <2> QED BY <1>3, <1>6, <2>1 DEF DecRef
  <1> HIDE DEF d
  <1>5. Backed(s, h, ok) = DecRef(e)
    BY DEF Backed, e, z
  <1> QED BY <1>1, <1>2, <1>3, <1>4, <1>5 DEF BackFrom

\* A send gives its reference back and returns.
LEMMA Comes ==
    ASSUME NEW w, NEW t, NEW p, NEW r, NEW h, NEW st, Good(w, p), t \in Thread,
           TopIs(w, t, "send", {"back"}), r = Last(w.stk[t]).r,
           h = <<t, Len(w.stk[t])>>, st = Last(w.stk[t]).status
    PROVE  Kept(w, Return(WithReg(w, r, Backed(w.reg[r], h, st = "ok")), t, st), p)
  <1> DEFINE s == w.stk[t]
             g == Last(s)
             ok == st = "ok"
             z == Backed(w.reg[r], h, ok)
             x == WithReg(w, r, z)
             v == Pop(x, t)
             u == Put(v, t, WithStatus(Last(v.stk[t]), st))
  <1>1. /\ g \in FrameType /\ r \in Regc /\ w \in WorldType /\ s # <<>>
        /\ TopAt(w, t, h, g) /\ Fits(g, Len(s), Under(s, Len(s)))
    BY TopOf
  <1>2. g.fn = "send" /\ g.pc = "back" /\ g.r = r /\ g.status = st
    BY DEF TopIs
  <1>3. st \in {"ok", "error"}
    BY <1>1, <1>2 DEF Fits
  <1>4. /\ Holding(g) /\ ~In("ask", g) /\ ~In("out", g)
        /\ In("fail", g) <=> ~ok
    BY <1>2, <1>3 DEF In, Holding
  <1>5. w.reg[r].busy - 1 \in Nat \ {0} /\ w.reg[r] \in SessionType
    <2>1. w.reg[Last(w.stk[t]).r].busy - 1 \in Nat \ {0}
      BY TwoUsers
    <2> QED BY <1>1, <2>1, WorldFields
  <1>6. BackFrom(w.reg[r], z, h, ok)
    BY <1>5, BackIs
  <1>14. (~ok) \in BOOLEAN
    OBVIOUS
  <1> HIDE DEF z, ok
  <1>7. /\ z \in SessionType /\ z.live = w.reg[r].live
        /\ z.busy = w.reg[r].busy - 1 /\ z.lock = w.reg[r].lock
        /\ z.delete_flag = w.reg[r].delete_flag
        /\ z.cseq = (IF w.reg[r].cseq = h THEN <<>> ELSE w.reg[r].cseq)
        /\ z.has_tsx = IF ~ok /\ w.reg[r].cseq = h THEN FALSE ELSE w.reg[r].has_tsx
    BY <1>6 DEF BackFrom
  <1>8. Writes(w, x, r, z) /\ x.net = w.net /\ x.pjsua = w.pjsua
    <2>1. /\ z \in SessionType /\ z.live = w.reg[r].live /\ r \in Regc
          /\ z.delete_flag = w.reg[r].delete_flag /\ z.lock = w.reg[r].lock
      BY <1>1, <1>7
    <2>2. Written(w, x, r, z)
      BY <2>1, SessionWritten
    <2> HIDE DEF x
    <2> QED BY <2>2 DEF Written
  <1> HIDE DEF x
  <1>9. Mild(s) /\ Calm(g)
    BY <1>2 DEF Mild, Calm
  <1>10. Landed(w, x, v, t, <<t, Len(s)>>, g, Blank, Front(s), r, z, p)
    BY <1>1, <1>2, <1>8, <1>9, AboutOwn, PopGround
  <1>12. Front(s) # <<>> /\ Waits(Last(Front(s))) /\ Last(Front(s)).fn # "send"
    BY UnderSend
  <1>16. Return(x, t, st) = u
    BY DEF Return, WithStatus
  <1> HIDE DEF v, g, s
  <1>11. /\ Ground(w, v, t, h, g, Blank, r, z, p, p) /\ v.net = w.net
         /\ v.pjsua = w.pjsua /\ v.stk[t] = Front(s)
    BY <1>8, <1>10 DEF Landed, s
  <1>13. ~In("use", Blank) /\ ~Asking(Blank)
    BY BlankNone, NoClassAre
  <1>15. Good(v, p)
    BY <1>1, <1>2, <1>4, <1>7, <1>11, <1>13, <1>14, Returns
  <1>17. Moved(v, u, t, Turned(v.stk[t], WithStatus(Last(v.stk[t]), st)), p)
    BY <1>3, <1>11, <1>12, <1>15, StatusPlain
  <1> QED BY <1>11, <1>16, <1>17 DEF Moved, Kept, x, z, ok

\* pjsip_regc_send takes the request back if it failed and is the last.
LEMMA SendBackKeeps ==
    ASSUME Inv, NEW t \in Thread, SendBack(t)
    PROVE  Inv'
  <1> DEFINE g == Last(World.stk[t])
             h == <<t, Len(World.stk[t])>>
             n == Return(WithReg(World, g.r, Backed(World.reg[g.r], h, g.status = "ok")),
                         t, g.status)
  <1>1. Good(World, pjsua)
    BY DEF Inv
  <1>2. TopIs(World, t, "send", {"back"})
    BY AtTop DEF SendBack
  <1>3. Become(n)
    BY WorldIs DEF SendBack, Top, Backed
  <1>4. Kept(World, n, pjsua)
    <2> HIDE DEF h
    <2>1. h = <<t, Len(World.stk[t])>>
      BY DEF h
    <2> QED BY <1>1, <1>2, <2>1, Comes
  <1> HIDE DEF n
  <1> QED BY <1>3, <1>4, KeptNext

-----------------------------------------------------------------------------
(* The callback of the transaction.                                        *)

\* The frame of the transaction's callback.
LEMMA TsxFrameIs ==
    ASSUME NEW q, NEW code, q \in Request, code \in {200, 401, 403, 423, 503}
    PROVE  LET d == TsxFrame(q, code)
           IN /\ d \in FrameType /\ d.fn = "tsx" /\ d.pc = "start" /\ d.r = q.r
              /\ d.r \in Regc
  <1> DEFINE e == Frame("tsx", "start", q.r, q.unreg)
             d == TsxFrame(q, code)
  <1>0. q.r \in Regc /\ q.unreg \in BOOLEAN
    BY DEF Request
  <1>1. e \in FrameType /\ e.pc = "start" /\ e.fn = "tsx" /\ e.r = q.r
    BY <1>0, FrameIs DEF Fns, Pcs
  <1>2. d = WithCode(e, code)
    BY DEF TsxFrame, WithCode
  <1> HIDE DEF e, d
  <1>3. d \in FrameType /\ d.pc = e.pc /\ d.fn = e.fn /\ d.r = e.r
    BY <1>1, <1>2, WithCodeIs
  <1> QED BY <1>0, <1>1, <1>3 DEF d

\* A response to request q.
LEMMA Responds ==
    ASSUME NEW w, NEW t, NEW p, NEW q, NEW d, Good(w, p), t \in Thread,
           w.stk[t] = <<>>, q \in w.net, d \in FrameType, d.fn = "tsx",
           d.pc = "start", d.r = q.r
    PROVE  Kept(w, Push(WithNet(w, w.net \ {q}), t, d), p)
  <1> DEFINE m == w.net \ {q}
             r == q.r
             x == WithNet(w, m)
             n == Push(x, t, d)
             h == <<t, Len(w.stk[t]) + 1>>
  <1>1. w \in WorldType /\ w.net \subseteq Request
    BY WorldFields DEF Good
  <1>2. r \in Regc /\ r # None
    BY <1>1, RegAssumption DEF Request
  <1>3. Only(w, m, r)
    BY <1>1 DEF Only, Sent
  <1> HIDE DEF m
  <1>4. Writes(w, x, r, w.reg[r]) /\ x.net = m /\ x.pjsua = w.pjsua
    BY <1>2, <1>3, NetWrites
  <1>5. Mounted(w, t, d)
    <2>1. Meek(d) /\ Calm(d) /\ Fits(d, 1, d) /\ Len(w.stk[t]) <= 3
      BY <1>2 DEF Meek, Calm, Fits
    <2> QED BY <2>1 DEF Mounted
  <1> HIDE DEF x
  <1>6. Landed(w, x, n, t, <<t, Len(w.stk[t]) + 1>>, Blank, d,
               Append(w.stk[t], d), r, w.reg[r], p)
    BY <1>4, <1>5, AboutOwn, PushGround
  <1> HIDE DEF n, h
  <1>7. /\ Ground(w, n, t, h, Blank, d, r, w.reg[r], p, p)
        /\ n.net = w.net \ {q} /\ n.pjsua = w.pjsua
    BY <1>4, <1>6 DEF Landed, h, m
  <1>8. /\ ~In("use", d) /\ In("ask", d) /\ ~In("out", d) /\ ~In("fail", d)
    BY DEF In
  <1>9. ~In("use", Blank) /\ ~Asking(Blank)
    BY BlankNone, NoClassAre
  <1>10. Good(n, p)
    BY <1>7, <1>8, <1>9, Answers
  <1> QED BY <1>7, <1>10 DEF Kept, n, x, m

\* A response arrives, or the transaction times out.
LEMMA DeliverKeeps ==
    ASSUME Inv, NEW t \in Thread, NEW q \in net, NEW code \in Codes, Deliver(t, q, code)
    PROVE  Inv'
  <1> DEFINE d == TsxFrame(q, code)
             m == net \ {q}
             n == Push(WithNet(World, World.net \ {q}), t, d)
  <1>1. Good(World, pjsua) /\ World \in WorldType /\ net \subseteq Request
    BY WorldIs, WorldFields DEF Inv, Good
  <1>2. World.stk[t] = <<>> /\ q \in World.net
    BY WorldIs DEF Deliver, Idle
  <1>3. /\ d \in FrameType /\ d.fn = "tsx" /\ d.pc = "start" /\ d.r = q.r
    BY <1>1, RegAssumption, TsxFrameIs
  <1> HIDE DEF d
  <1>4. Kept(World, n, pjsua)
    BY <1>1, <1>2, <1>3, Responds
  <1>5. Become(WithNet(Push(World, t, d), m))
    BY DEF Deliver, d
  <1>6. WithNet(Push(World, t, d), m) = Push(WithNet(World, m), t, d)
    <2>1. m \subseteq Request
      BY <1>1
    <2> HIDE DEF m
    <2> QED BY <1>1, <1>3, <2>1, PushNet
  <1>7. Become(n)
    BY <1>5, <1>6, WorldIs
  <1> HIDE DEF n
  <1> QED BY <1>4, <1>7, KeptNext

\* n is w, good, with frame f at the top of t's stack.
Reaches(w, n, t, f, p) ==
    Kept(w, n, p) /\ n.stk[t] # <<>> /\ Last(n.stk[t]) = f

\* A function calls pjsip_regc_send.
LEMMA SendsFrom ==
    ASSUME NEW w, NEW t, NEW p, NEW fn, NEW r, NEW u, Good(w, p), t \in Thread,
           TopIs(w, t, fn, {"sent"}), fn \in {"tsx", "refresh", "set"},
           r = Last(w.stk[t]).r, r \in Regc, u \in BOOLEAN
    PROVE  Kept(w, Push(w, t, Frame("send", "start", r, u)), p)
  <1> DEFINE s == w.stk[t]
             g == Last(s)
             k == Len(s)
             d == Frame("send", "start", r, u)
             n == Push(w, t, d)
  <1>1. s # <<>> /\ g \in FrameType /\ k \in 1..4 /\ Fits(g, k, Under(s, k))
    BY TopFacts DEF TopIs
  <1>2. g.fn = fn /\ g.pc = "sent" /\ g.r = r /\ r # None
    BY RegAssumption DEF TopIs
  <1>3. /\ d \in FrameType /\ d.pc = "start" /\ d.fn = "send" /\ d.r = r
        /\ d.status = "ok"
    BY FrameIs DEF Fns, Pcs
  <1> HIDE DEF d, g
  <1>4. k \in {1, 2} /\ (fn # "set" => k = 1)
    BY <1>1, <1>2 DEF Fits
  <1> HIDE DEF k, s
  <1>5. Fits(d, k + 1, g)
    BY <1>2, <1>3, <1>4 DEF Fits
  <1>6. k <= 3 /\ Waits(g) /\ Meek(d) /\ Calm(d)
    BY <1>2, <1>3, <1>4 DEF Waits, Meek, Calm
  <1>7. Mounted(w, t, d)
    BY <1>1, <1>3, <1>5, <1>6 DEF Mounted, k, s, g
  <1>8. NoClass(d)
    BY <1>3, NoClassFrame
  <1>9. Moved(w, n, t, Append(w.stk[t], d), p)
    BY <1>7, <1>8, PushPlain
  <1> QED BY <1>9 DEF Moved, Kept, n, d

\* A session whose response is looked at.
Looked(s) == [AddRef(s) EXCEPT !.has_tsx = FALSE, !.transport = TRUE]

LookedFrom(s, z) ==
    /\ z \in SessionType /\ z.live = s.live /\ z.busy = s.busy + 1
    /\ z.has_tsx = FALSE /\ z.cseq = s.cseq /\ z.lock = s.lock
    /\ z.delete_flag = s.delete_flag

\* A session whose response is looked at.
LEMMA LookedIs ==
    ASSUME NEW s, s \in SessionType
    PROVE  LookedFrom(s, Looked(s))
  <1> DEFINE y == AddRef(s)
             z == [y EXCEPT !.has_tsx = FALSE, !.transport = TRUE]
  <1>1. /\ y \in SessionType /\ y.live = s.live /\ y.busy = s.busy + 1
        /\ y.cseq = s.cseq /\ y.lock = s.lock /\ y.delete_flag = s.delete_flag
    BY AddRefIs
  <1> HIDE DEF y
  <1>2. /\ z \in SessionType /\ z.live = y.live /\ z.busy = y.busy
        /\ z.has_tsx = FALSE /\ z.cseq = y.cseq /\ z.lock = y.lock
        /\ z.delete_flag = y.delete_flag
    BY <1>1 DEF SessionType
  <1>3. LookedFrom(s, z)
    BY <1>1, <1>2 DEF LookedFrom
  <1> QED BY <1>3 DEF Looked, y

\* The callback's first section leads to each of its next places.
LEMMA Seen ==
    ASSUME NEW w, NEW t, NEW p, NEW r, NEW z, NEW f, Good(w, p), t \in Thread,
           TopIs(w, t, "tsx", {"start"}), r = Last(w.stk[t]).r, ~w.reg[r].lock,
           Minor(Looked(w.reg[r]), z), f \in FrameType, f.fn = "tsx", f.r = r,
           f.pc \in {"tsx_cb", "sent", "call", "dec"},
           f.pc = "sent" => Len(w.stk[t]) = 1,
           f.pc = "tsx_cb" => f.code = Last(w.stk[t]).code
    PROVE  Reaches(w, Put(WithReg(w, r, z), t, f), t, f, p)
  <1> DEFINE s == w.stk[t]
             g == Last(s)
             h == <<t, Len(s)>>
             x == WithReg(w, r, z)
             n == Put(x, t, f)
  <1>1. /\ g \in FrameType /\ r \in Regc /\ w \in WorldType /\ s # <<>>
        /\ TopAt(w, t, h, g) /\ s \in Seq(FrameType)
    BY TopOf DEF Good, Stack
  <1>2. g.fn = "tsx" /\ g.pc = "start" /\ g.r = r
    BY DEF TopIs
  <1>3. LookedFrom(w.reg[r], z)
    <2>1. w.reg[r] \in SessionType
      BY <1>1, WorldFields
    <2>2. LookedFrom(w.reg[r], Looked(w.reg[r]))
      BY <2>1, LookedIs
    <2> QED BY <2>2 DEF LookedFrom, Minor, Agrees
  <1>4. Writes(w, x, r, z) /\ x.net = w.net /\ x.pjsua = w.pjsua
    BY <1>1, <1>3, SessionWritten DEF Written, LookedFrom
  <1>5. Placed(w, t, f)
    BY PlacedTsx
  <1> HIDE DEF x
  <1>6. Landed(w, x, n, t, <<t, Len(s)>>, g, f, Turned(s, f), r, z, p)
    BY <1>2, <1>4, <1>5, AboutOwn, PutGround
  <1>7. Turned(s, f) # <<>> /\ Last(Turned(s, f)) = f
    BY <1>1, TurnedFacts
  <1> HIDE DEF n, g, h, s
  <1>8. /\ Ground(w, n, t, h, g, f, r, z, p, p) /\ n.net = w.net
        /\ n.pjsua = w.pjsua /\ n.stk[t] = Turned(s, f)
    BY <1>4, <1>6 DEF Landed, h, s
  <1>9. Holding(f) /\ ~Asking(f)
    BY HoldingFrame
  <1>10. ~In("use", g) /\ In("ask", g) /\ ~In("out", g) /\ ~In("fail", g)
    BY <1>2 DEF In
  <1>11. Good(n, p)
    BY <1>1, <1>2, <1>3, <1>8, <1>9, <1>10, Looks DEF LookedFrom
  <1> QED BY <1>7, <1>8, <1>11 DEF Kept, Reaches, n, x

\* So does its second one, with the session as it is by then.
LEMMA Dealt ==
    ASSUME NEW w, NEW t, NEW p, NEW r, NEW z, NEW f, Good(w, p), t \in Thread,
           TopIs(w, t, "tsx", {"handle"}), r = Last(w.stk[t]).r,
           Minor(w.reg[r], z), f \in FrameType, f.fn = "tsx", f.r = r,
           f.pc \in {"sent", "call", "dec"}, f.pc = "sent" => Len(w.stk[t]) = 1
    PROVE  Reaches(w, Put(WithReg(w, r, z), t, f), t, f, p)
  <1> DEFINE s == w.stk[t]
             g == Last(s)
             h == <<t, Len(s)>>
             x == WithReg(w, r, z)
             n == Put(x, t, f)
  <1>1. /\ g \in FrameType /\ r \in Regc /\ w \in WorldType /\ s # <<>>
        /\ TopAt(w, t, h, g) /\ s \in Seq(FrameType)
    BY TopOf DEF Good, Stack
  <1>2. g.fn = "tsx" /\ g.pc = "handle" /\ g.r = r
    BY DEF TopIs
  <1>3. /\ z \in SessionType /\ z.live = w.reg[r].live /\ z.lock = w.reg[r].lock
        /\ z.delete_flag = w.reg[r].delete_flag /\ z.has_tsx = w.reg[r].has_tsx
        /\ Agrees(w.reg[r], z)
    BY DEF Minor, Agrees
  <1>4. Writes(w, x, r, z) /\ x.net = w.net /\ x.pjsua = w.pjsua
    BY <1>1, <1>3, SessionWritten DEF Written
  <1>5. Placed(w, t, f)
    BY PlacedTsx
  <1> HIDE DEF x
  <1>6. Landed(w, x, n, t, <<t, Len(s)>>, g, f, Turned(s, f), r, z, p)
    BY <1>2, <1>4, <1>5, AboutOwn, PutGround
  <1>7. Turned(s, f) # <<>> /\ Last(Turned(s, f)) = f
    BY <1>1, TurnedFacts
  <1> HIDE DEF n, g, h, s
  <1>8. /\ Ground(w, n, t, h, g, f, r, z, p, p) /\ n.net = w.net
        /\ n.pjsua = w.pjsua /\ n.stk[t] = Turned(s, f)
    BY <1>4, <1>6 DEF Landed, h, s
  <1>9. SameIn(g, f, r)
    <2>1. Holding(f) /\ ~Asking(f) /\ Holding(g) /\ ~Asking(g)
      BY <1>2, HoldingFrame
    <2> QED BY <1>1, <1>2, <2>1, SameHolding
  <1>10. SoundIn(z, w, r) /\ (w.reg[r].lock => w.reg[r].live)
    <2>1. SoundIn(w.reg[r], w, r) /\ (w.reg[r].lock => w.reg[r].live)
      BY <1>8, GroundFacts
    <2> QED BY <1>3, <2>1, Unmoved DEF SoundIn
  <1>11. Steps(w, n, t, h, g, f, r, z) /\ Orderly(w, n, t, h, g, f, p, p) /\ Usable(n)
    BY <1>8 DEF Ground
  <1>12. Sent(n.net, r) = Sent(w.net, r)
    BY <1>8
  <1>13. Good(n, p)
    BY <1>3, <1>9, <1>10, <1>11, <1>12, Still
  <1> QED BY <1>7, <1>8, <1>13 DEF Kept, Reaches, n, x

\* A callback that keeps its reference goes on.
LEMMA Carries ==
    ASSUME NEW w, NEW t, NEW p, NEW f, NEW fn, Good(w, p), t \in Thread,
           TopIs(w, t, fn, {"tsx_cb", "sent", "call"}), fn \in {"tsx", "refresh"},
           f \in FrameType, f.fn = fn, f.r = Last(w.stk[t]).r,
           \/ f.pc \in {"call", "dec"}
           \/ fn = "tsx" /\ f.pc = "handle" /\ Last(w.stk[t]).pc = "tsx_cb"
              /\ f.code = Last(w.stk[t]).code,
           fn = "refresh" => Last(w.stk[t]).pc # "tsx_cb"
    PROVE  Kept(w, Put(w, t, f), p)
  <1> DEFINE g == Last(w.stk[t])
             n == Put(w, t, f)
  <1>1. g.fn = fn /\ g.pc \in {"tsx_cb", "sent", "call"} /\ g.r = f.r
    BY DEF TopIs
  <1>2. Holding(f) /\ ~Asking(f) /\ Holding(g) /\ ~Asking(g)
    BY <1>1, HoldingFrame
  <1>3. \A r \in Regc : SameIn(g, f, r)
    BY <1>1, <1>2, SameHolding
  <1>4. Placed(w, t, f)
    <2>1. CASE fn = "tsx" /\ f.pc = "handle" /\ g.pc = "tsx_cb" /\ f.code = g.code
      <3>1. TopIs(w, t, "tsx", {"tsx_cb"})
        BY <2>1 DEF TopIs
      <3> QED BY <2>1, <3>1, PlacedTsx
    <2>2. CASE fn = "tsx" /\ f.pc \in {"call", "dec"}
      BY <2>2, PlacedTsx
    <2>3. CASE fn = "refresh" /\ f.pc \in {"call", "dec"}
      BY <2>3, PlacedRefresh
    <2> QED BY <2>1, <2>2, <2>3
  <1>5. Moved(w, n, t, Turned(w.stk[t], f), p)
    BY <1>3, <1>4, PutPlain
  <1> QED BY <1>5 DEF Moved, Kept

\* v is one of the worlds that Handle leads to from w.
Handled(w, t, v) ==
    LET g == Last(w.stk[t])
        r == g.r
    IN \E z, f :
          /\ Minor(w.reg[r], z) /\ f \in FrameType /\ f.fn = "tsx" /\ f.r = r
          /\ \/ f.pc \in {"call", "dec"} /\ v = Put(WithReg(w, r, z), t, f)
             \/ /\ f.pc = "sent" /\ g.code \in {401, 423}
                /\ \E u \in BOOLEAN : v = Push(Put(WithReg(w, r, z), t, f), t,
                                               Frame("send", "start", r, u))

\* What Handle writes before it decides.
Noted(w, t, z, b) ==
    Put(WithReg(w, Last(w.stk[t]).r, WithOp(z)), t, WithUnreg(Last(w.stk[t]), b))

\* Where it may decide anything.
Open(w, t) ==
    /\ w \in WorldType /\ t \in Thread /\ w.stk[t] # <<>>
    /\ Last(w.stk[t]) \in FrameType /\ Last(w.stk[t]).fn = "tsx"
    /\ Last(w.stk[t]).r \in Regc

\* What was noted, and what is put in its place.
NotedFacts(w, t, z, y, v) ==
    LET g == Last(w.stk[t])
        e == Last(v.stk[t])
    IN /\ Minor(w.reg[g.r], y) /\ v.stk[t] # <<>>
       /\ e \in FrameType /\ e.fn = "tsx" /\ e.r = g.r
       /\ \A f \in FrameType : Put(v, t, f) = Put(WithReg(w, g.r, y), t, f)

\* What is noted before a response is dealt with.
LEMMA NotedIs ==
    ASSUME NEW w, NEW t, NEW z, NEW b \in BOOLEAN, Open(w, t),
           Minor(w.reg[Last(w.stk[t]).r], z)
    PROVE  NotedFacts(w, t, z, WithOp(z), Noted(w, t, z, b))
  <1> DEFINE g == Last(w.stk[t])
             r == g.r
             y == WithOp(z)
             x == WithReg(w, r, y)
             e == WithUnreg(g, b)
             v == Put(x, t, e)
  <1>1. /\ w \in WorldType /\ t \in Thread /\ w.stk[t] # <<>> /\ g \in FrameType
        /\ g.fn = "tsx" /\ r \in Regc
    BY DEF Open
  <1>2. Minor(w.reg[r], y)
    <2>1. z \in SessionType
      BY DEF Minor
    <2>2. Minor(z, WithOp(z))
      BY <2>1, Minors
    <2> QED BY <2>2, MinorTwice
  <1>3. y \in SessionType
    BY <1>2 DEF Minor
  <1>4. e \in FrameType /\ e.fn = g.fn /\ e.r = g.r
    BY <1>1, WithUnregIs
  <1>5. Noted(w, t, z, b) = v
    BY DEF Noted
  <1> HIDE DEF y, e
  <1>6. x \in WorldType /\ x.stk = w.stk
    BY <1>1, <1>3, WithRegIs
  <1> HIDE DEF x
  <1>7. x.stk[t] # <<>>
    BY <1>1, <1>6
  <1>8. \A f \in FrameType : Put(v, t, f) = Put(x, t, f) /\ Last(v.stk[t]) = e
    BY <1>1, <1>4, <1>6, <1>7, PutTwice
  <1>9. v.stk[t] # <<>>
    <2>1. OnlyStk(x, v, t, Turned(x.stk[t], e))
      BY <1>1, <1>4, <1>6, <1>7, PutIs
    <2>2. Turned(x.stk[t], e) # <<>>
      BY <1>1, <1>4, <1>6, <1>7, WorldFields, TurnedFacts
    <2>3. \A s : Swap(x.stk, t, s)[t] = s
      BY <1>1, <1>6, ThisStacks
    <2> HIDE DEF v
    <2> QED BY <2>1, <2>2, <2>3 DEF OnlyStk
  <1>10. Last(v.stk[t]) = e
    BY <1>4, <1>8
  <1> HIDE DEF v
  <1> QED BY <1>1, <1>2, <1>4, <1>5, <1>8, <1>9, <1>10 DEF NotedFacts, x, y

\* The frame that gives the reference back.
LEMMA DecFrameIs ==
    ASSUME NEW fn \in Fns, NEW r \in Regc
    PROVE  LET e == Frame(fn, "dec", r, FALSE)
           IN e \in FrameType /\ e.pc = "dec" /\ e.fn = fn /\ e.r = r
  BY DEF Frame, FrameType, Pcs

\* The response needs nothing more.
LEMMA HandledDone ==
    ASSUME NEW w, NEW t, NEW z, NEW y, NEW v, NotedFacts(w, t, z, y, v), Open(w, t)
    PROVE  Handled(w, t, Done(v, t))
  <1> DEFINE r == Last(w.stk[t]).r
             d == Frame("tsx", "dec", r, FALSE)
  <1>1. /\ Minor(w.reg[r], y)
        /\ Last(v.stk[t]).fn = "tsx" /\ Last(v.stk[t]).r = r
        /\ \A f \in FrameType : Put(v, t, f) = Put(WithReg(w, r, y), t, f)
    BY DEF NotedFacts
  <1>2. Done(v, t) = Put(v, t, d)
    BY <1>1 DEF Done
  <1>3. d \in FrameType /\ d.pc = "dec" /\ d.fn = "tsx" /\ d.r = r
    <2>1. r \in Regc
      BY DEF Open
    <2> HIDE DEF r
    <2> QED BY <2>1, DecFrameIs DEF Fns
  <1> HIDE DEF d
  <1>4. Done(v, t) = Put(WithReg(w, r, y), t, d)
    BY <1>1, <1>2, <1>3
  <1> QED BY <1>1, <1>3, <1>4 DEF Handled

\* The response is reported.
LEMMA HandledReport ==
    ASSUME NEW w, NEW t, NEW z, NEW y, NEW v, NotedFacts(w, t, z, y, v), Open(w, t),
           NEW st \in {"ok", "error", "EBUSY"}, NEW exp \in BOOLEAN,
           NEW u \in BOOLEAN, NEW code \in {0, 200, 400, 401, 403, 423, 503}
    PROVE  Handled(w, t, Report(v, t, st, code, exp, u))
  <1> DEFINE r == Last(w.stk[t]).r
             e == Last(v.stk[t])
             d == Reporting(e, st, code, exp, u)
  <1>1. /\ Minor(w.reg[r], y)
        /\ e \in FrameType /\ e.fn = "tsx" /\ e.r = r
        /\ \A f \in FrameType : Put(v, t, f) = Put(WithReg(w, r, y), t, f)
    BY DEF NotedFacts
  <1>2. Report(v, t, st, code, exp, u) = Put(v, t, d)
    BY DEF Report, Reporting
  <1>3. d \in FrameType /\ d.pc = "call" /\ d.fn = "tsx" /\ d.r = r
    BY <1>1, ReportingIs
  <1> HIDE DEF d
  <1>4. Report(v, t, st, code, exp, u) = Put(WithReg(w, r, y), t, d)
    BY <1>1, <1>2, <1>3
  <1> QED BY <1>1, <1>3, <1>4 DEF Handled

\* The request is sent again.
LEMMA HandledResend ==
    ASSUME NEW w, NEW t, NEW z, NEW y, NEW v, NotedFacts(w, t, z, y, v), Open(w, t),
           NEW u \in BOOLEAN, Last(w.stk[t]).code \in {401, 423}
    PROVE  Handled(w, t, Resend(v, t, u))
  <1> DEFINE r == Last(w.stk[t]).r
             e == Last(v.stk[t])
             d == WithPc(e, "sent")
  <1>1. /\ Minor(w.reg[r], y)
        /\ e \in FrameType /\ e.fn = "tsx" /\ e.r = r
        /\ \A f \in FrameType : Put(v, t, f) = Put(WithReg(w, r, y), t, f)
    BY DEF NotedFacts
  <1>2. Resend(v, t, u) = Push(Put(v, t, d), t, Frame("send", "start", r, u))
    BY <1>1 DEF Resend, Goto, WithPc
  <1>3. d \in FrameType /\ d.pc = "sent" /\ d.fn = "tsx" /\ d.r = r
    BY <1>1, WithPcIs DEF Pcs
  <1> HIDE DEF d
  <1>4. Resend(v, t, u) = Push(Put(WithReg(w, r, y), t, d), t,
                               Frame("send", "start", r, u))
    BY <1>1, <1>2, <1>3
  <1> QED BY <1>1, <1>3, <1>4 DEF Handled

\* Session z is the response's but for what nobody depends on.
Suits(w, t, z) == Minor(w.reg[Last(w.stk[t]).r], z)

\* It needs nothing more, with what was noted.
LEMMA NotedDone ==
    ASSUME NEW w, NEW t, NEW z, NEW b \in BOOLEAN, Open(w, t), Suits(w, t, z)
    PROVE  Handled(w, t, Done(Noted(w, t, z, b), t))
  <1> DEFINE v == Noted(w, t, z, b)
  <1>1. NotedFacts(w, t, z, WithOp(z), v)
    BY NotedIs DEF Suits
  <1> HIDE DEF v
  <1>2. Handled(w, t, Done(v, t))
    BY <1>1, HandledDone
  <1> QED BY <1>2 DEF v

\* It is reported, with what was noted.
LEMMA NotedReport ==
    ASSUME NEW w, NEW t, NEW z, NEW b \in BOOLEAN, Open(w, t), Suits(w, t, z),
           NEW st \in {"ok", "error", "EBUSY"}, NEW exp \in BOOLEAN,
           NEW u \in BOOLEAN, NEW code \in {0, 200, 400, 401, 403, 423, 503}
    PROVE  Handled(w, t, Report(Noted(w, t, z, b), t, st, code, exp, u))
  <1> DEFINE v == Noted(w, t, z, b)
  <1>1. NotedFacts(w, t, z, WithOp(z), v)
    BY NotedIs DEF Suits
  <1> HIDE DEF v
  <1>2. Handled(w, t, Report(v, t, st, code, exp, u))
    BY <1>1, HandledReport
  <1> QED BY <1>2 DEF v

\* It is sent again, with what was noted.
LEMMA NotedResend ==
    ASSUME NEW w, NEW t, NEW z, NEW b \in BOOLEAN, Open(w, t), Suits(w, t, z),
           NEW u \in BOOLEAN, Last(w.stk[t]).code \in {401, 423}
    PROVE  Handled(w, t, Resend(Noted(w, t, z, b), t, u))
  <1> DEFINE v == Noted(w, t, z, b)
  <1>1. NotedFacts(w, t, z, WithOp(z), v)
    BY NotedIs DEF Suits
  <1> HIDE DEF v
  <1>2. Handled(w, t, Resend(v, t, u))
    BY <1>1, HandledResend
  <1> QED BY <1>2 DEF v

\* Every outcome of Handle is one of these.
LEMMA HandleIs ==
    ASSUME NEW w, NEW t, NEW v, Open(w, t), v \in Handle(w, t)
    PROVE  Handled(w, t, v)
  <1> DEFINE g == Last(w.stk[t])
             r == g.r
             s == w.reg[r]
             is_unreg == s.op = "UNREGISTERING"
             y == CancelTimer(WithLong(s))
             x == IF g.code = 200 /\ ~is_unreg THEN ScheduleRegistration(s) ELSE s
  <1>1. s \in SessionType /\ g \in FrameType
    BY WorldFields DEF Open
  <1>2. is_unreg \in BOOLEAN /\ g.unreg \in BOOLEAN
        /\ g.code \in {0, 200, 400, 401, 403, 423, 503}
    BY <1>1 DEF FrameType
  <1>3. Minor(s, s) /\ Minor(s, y) /\ Minor(s, x)
    <2>1. Minor(s, WithLong(s)) /\ Minor(s, ScheduleRegistration(s)) /\ Minor(s, s)
      BY <1>1, Minors, MinorSelf
    <2>2. WithLong(s) \in SessionType
      BY <2>1 DEF Minor
    <2>3. Minor(WithLong(s), y)
      BY <2>2, Minors
    <2> QED BY <2>1, <2>3, MinorTwice
  <1>4. \A b \in BOOLEAN : \A z : Noted(w, t, z, b)
           = Put(WithReg(w, r, [z EXCEPT !.op = "IDLE"]), t, [g EXCEPT !.is_unreg = b])
    BY DEF Noted, WithOp, WithUnreg
  <1>5. \/ g.code = 401 /\ v = Resend(Noted(w, t, s, is_unreg), t, g.unreg)
        \/ v = Done(Noted(w, t, s, is_unreg), t)
        \/ v = Report(Noted(w, t, s, is_unreg), t, "error", 401, FALSE, is_unreg)
        \/ v = Report(Noted(w, t, s, is_unreg), t, "ok", 423, FALSE, FALSE)
        \/ g.code = 423 /\ v = Resend(Noted(w, t, y, FALSE), t, FALSE)
        \/ v = Report(Noted(w, t, x, is_unreg), t, "ok", g.code,
                      g.code = 200 /\ ~is_unreg, is_unreg)
    BY DEF Handle, Noted, WithOp, WithUnreg, WithLong
  <1> HIDE DEF s, y, x, is_unreg
  <1>6. Suits(w, t, s) /\ Suits(w, t, y) /\ Suits(w, t, x)
    BY <1>3 DEF Suits, s
  <1>7. CASE g.code = 401 /\ v = Resend(Noted(w, t, s, is_unreg), t, g.unreg)
    BY <1>2, <1>6, <1>7, NotedResend
  <1>8. CASE v = Done(Noted(w, t, s, is_unreg), t)
    BY <1>2, <1>6, <1>8, NotedDone
  <1>9. CASE v = Report(Noted(w, t, s, is_unreg), t, "error", 401, FALSE, is_unreg)
    <2> DEFINE no == FALSE
    <2>1. no \in BOOLEAN /\ "error" \in {"ok", "error", "EBUSY"}
          /\ 401 \in {0, 200, 400, 401, 403, 423, 503}
      OBVIOUS
    <2>2. v = Report(Noted(w, t, s, is_unreg), t, "error", 401, no, is_unreg)
      BY <1>9
    <2> HIDE DEF no
    <2> QED BY <1>2, <1>6, <2>1, <2>2, NotedReport
  <1>10. CASE v = Report(Noted(w, t, s, is_unreg), t, "ok", 423, FALSE, FALSE)
    <2> DEFINE no == FALSE
    <2>1. no \in BOOLEAN /\ "ok" \in {"ok", "error", "EBUSY"}
          /\ 423 \in {0, 200, 400, 401, 403, 423, 503}
      OBVIOUS
    <2>2. v = Report(Noted(w, t, s, is_unreg), t, "ok", 423, no, no)
      BY <1>10
    <2> HIDE DEF no
    <2> QED BY <1>2, <1>6, <2>1, <2>2, NotedReport
  <1>11. CASE g.code = 423 /\ v = Resend(Noted(w, t, y, FALSE), t, FALSE)
    BY <1>6, <1>11, NotedResend
  <1>12. CASE v = Report(Noted(w, t, x, is_unreg), t, "ok", g.code,
                         g.code = 200 /\ ~is_unreg, is_unreg)
    <2> DEFINE exp == g.code = 200 /\ ~is_unreg
    <2>1. exp \in BOOLEAN
      OBVIOUS
    <2> HIDE DEF exp
    <2>2. v = Report(Noted(w, t, x, is_unreg), t, "ok", g.code, exp, is_unreg)
      BY <1>12 DEF exp
    <2> QED BY <1>2, <1>6, <2>1, <2>2, NotedReport
  <1> QED BY <1>5, <1>7, <1>8, <1>9, <1>10, <1>11, <1>12

\* The request is sent again.
LEMMA Resends ==
    ASSUME NEW w, NEW n, NEW t, NEW p, NEW f, NEW r, NEW u, t \in Thread,
           Reaches(w, n, t, f, p), f.fn \in {"tsx", "refresh"}, f.pc = "sent",
           f.r = r, r \in Regc, u \in BOOLEAN
    PROVE  Kept(w, Push(n, t, Frame("send", "start", r, u)), p)
  <1> DEFINE m == Push(n, t, Frame("send", "start", r, u))
             fn == f.fn
  <1>1. Good(n, p) /\ n.pjsua = w.pjsua /\ TopIs(n, t, fn, {"sent"})
        /\ r = Last(n.stk[t]).r /\ fn \in {"tsx", "refresh", "set"}
    BY DEF Reaches, Kept, TopIs
  <1> HIDE DEF fn
  <1>2. Kept(n, m, p)
    BY <1>1, SendsFrom
  <1> QED BY <1>1, <1>2 DEF Kept

\* A response that is sent again is not one to a request that failed.
LEMMA Alone ==
    ASSUME NEW w, NEW t, NEW p, NEW pcs, Good(w, p), t \in Thread,
           TopIs(w, t, "tsx", pcs), pcs \subseteq {"start", "handle"},
           Last(w.stk[t]).code \in {401, 423}
    PROVE  Len(w.stk[t]) = 1
  <1> DEFINE g == Last(w.stk[t])
             k == Len(w.stk[t])
  <1>1. Fits(g, k, Under(w.stk[t], k)) /\ g.fn = "tsx" /\ g.pc \in {"start", "handle"}
    <2>1. w.stk[t] # <<>> /\ g.fn = "tsx" /\ g.pc \in {"start", "handle"}
      BY DEF TopIs
    <2>2. Fits(g, k, Under(w.stk[t], k))
      BY <2>1, TopFacts
    <2> QED BY <2>1, <2>2
  <1> HIDE DEF k
  <1>2. k = 1
    BY <1>1 DEF Fits
  <1> QED BY <1>2 DEF k

\* A response dealt with in the first section.
LEMMA SeenHandled ==
    ASSUME NEW w, NEW t, NEW p, NEW r, NEW v, Good(w, p), t \in Thread,
           TopIs(w, t, "tsx", {"start"}), r = Last(w.stk[t]).r, ~w.reg[r].lock,
           v \in Handle(WithReg(w, r, Looked(w.reg[r])), t)
    PROVE  Kept(w, v, p)
  <1> DEFINE g == Last(w.stk[t])
             y == Looked(w.reg[r])
             x == WithReg(w, r, y)
  <1>1. /\ w \in WorldType /\ r \in Regc /\ g \in FrameType /\ g.fn = "tsx"
        /\ w.stk[t] # <<>>
    BY TopOf
  <1>2. y \in SessionType
    BY <1>1, WorldFields, LookedIs DEF LookedFrom
  <1> HIDE DEF y
  <1>3. /\ x \in WorldType /\ x.stk = w.stk /\ x.reg[r] = y
    <2>1. \A z : Swap(w.reg, r, z)[r] = z
      BY <1>1, WorldFields, RegSwap
    <2> QED BY <1>1, <1>2, <2>1, WithRegIs
  <1> HIDE DEF x
  <1>4. Handled(x, t, v)
    <2>1. Open(x, t)
      BY <1>1, <1>3 DEF Open
    <2>2. v \in Handle(x, t)
      BY DEF x, y
    <2> QED BY <2>1, <2>2, HandleIs
  <1>5. PICK z, f :
          /\ Minor(y, z) /\ f \in FrameType /\ f.fn = "tsx" /\ f.r = r
          /\ \/ f.pc \in {"call", "dec"} /\ v = Put(WithReg(x, r, z), t, f)
             \/ /\ f.pc = "sent" /\ g.code \in {401, 423}
                /\ \E u \in BOOLEAN : v = Push(Put(WithReg(x, r, z), t, f), t,
                                               Frame("send", "start", r, u))
    BY <1>3, <1>4 DEF Handled
  <1> DEFINE n == Put(WithReg(w, r, z), t, f)
  <1>6. WithReg(x, r, z) = WithReg(w, r, z)
    <2>1. z \in SessionType
      BY <1>5 DEF Minor
    <2> QED BY <1>1, <1>2, <2>1, RegWriteTwice DEF x
  <1>7. f.pc = "sent" => Len(w.stk[t]) = 1
    BY <1>5, Alone
  <1>8. Reaches(w, n, t, f, p)
    BY <1>5, <1>7, Seen DEF y
  <1>9. CASE f.pc \in {"call", "dec"}
    BY <1>5, <1>6, <1>8, <1>9 DEF Reaches
  <1>10. CASE f.pc = "sent"
    <2>1. PICK u \in BOOLEAN : v = Push(n, t, Frame("send", "start", r, u))
      BY <1>5, <1>6, <1>10
    <2> HIDE DEF n
    <2> QED BY <1>1, <1>5, <1>8, <1>10, <2>1, Resends
  <1> QED BY <1>5, <1>9, <1>10

\* A response dealt with in the second section.
LEMMA DealtHandled ==
    ASSUME NEW w, NEW t, NEW p, NEW v, Good(w, p), t \in Thread,
           TopIs(w, t, "tsx", {"handle"}), v \in Handle(w, t)
    PROVE  Kept(w, v, p)
  <1> DEFINE g == Last(w.stk[t])
             r == g.r
  <1>1. /\ w \in WorldType /\ r \in Regc /\ g \in FrameType /\ g.fn = "tsx"
        /\ w.stk[t] # <<>>
    BY TopOf
  <1>4. Handled(w, t, v)
    BY <1>1, HandleIs DEF Open
  <1>5. PICK z, f :
          /\ Minor(w.reg[r], z) /\ f \in FrameType /\ f.fn = "tsx" /\ f.r = r
          /\ \/ f.pc \in {"call", "dec"} /\ v = Put(WithReg(w, r, z), t, f)
             \/ /\ f.pc = "sent" /\ g.code \in {401, 423}
                /\ \E u \in BOOLEAN : v = Push(Put(WithReg(w, r, z), t, f), t,
                                               Frame("send", "start", r, u))
    BY <1>4 DEF Handled
  <1> DEFINE n == Put(WithReg(w, r, z), t, f)
  <1>7. f.pc = "sent" => Len(w.stk[t]) = 1
    BY <1>5, Alone
  <1>8. Reaches(w, n, t, f, p)
    BY <1>5, <1>7, Dealt
  <1>9. CASE f.pc \in {"call", "dec"}
    BY <1>5, <1>8, <1>9 DEF Reaches
  <1>10. CASE f.pc = "sent"
    <2>1. PICK u \in BOOLEAN : v = Push(n, t, Frame("send", "start", r, u))
      BY <1>5, <1>10
    <2> HIDE DEF n, r
    <2> QED BY <1>1, <1>5, <1>8, <1>10, <2>1, Resends
  <1> QED BY <1>5, <1>9, <1>10

\* regc_tsx_callback resets has_tsx.
LEMMA TsxStartKeeps ==
    ASSUME Inv, NEW t \in Thread, TsxStart(t)
    PROVE  Inv'
  <1> DEFINE g == Last(World.stk[t])
             y == Looked(World.reg[g.r])
             x == WithReg(World, g.r, y)
             f == WithPc(g, "tsx_cb")
             n == Put(x, t, f)
  <1>1. Good(World, pjsua)
    BY DEF Inv
  <1>2. TopIs(World, t, "tsx", {"start"}) /\ ~World.reg[g.r].lock
    BY AtTop, WorldIs DEF TsxStart, MayUse, Top
  <1>3. Become(n) \/ \E v \in Handle(x, t) : Become(v)
    <2>1. Goto(x, t, "tsx_cb") = n
      <3>1. x.stk = World.stk
        BY DEF WithReg, World
      <3> QED BY <3>1 DEF Goto, WithPc
    <2>2. Become(Goto(x, t, "tsx_cb")) \/ \E v \in Handle(x, t) : Become(v)
      BY WorldIs DEF TsxStart, Top, Looked
    <2> QED BY <2>1, <2>2
  <1>4. CASE Become(n)
    <2>1. g \in FrameType /\ g.r \in Regc /\ g.fn = "tsx" /\ World \in WorldType
      BY <1>1, <1>2, TopOf
    <2>2. /\ f \in FrameType /\ f.pc = "tsx_cb" /\ f.fn = "tsx" /\ f.r = g.r
          /\ f.code = g.code
      BY <2>1, WithPcIs DEF Pcs
    <2>3. Minor(y, y)
      <3>1. World.reg[g.r] \in SessionType
        BY <2>1, WorldFields
      <3> QED BY <3>1, LookedIs, MinorSelf DEF LookedFrom
    <2> HIDE DEF f
    <2>4. Reaches(World, n, t, f, pjsua)
      BY <1>1, <1>2, <2>2, <2>3, Seen
    <2> HIDE DEF n
    <2> QED BY <1>4, <2>4, KeptNext DEF Reaches
  <1>5. ASSUME NEW v \in Handle(x, t), Become(v)
        PROVE  Inv'
    <2>1. Kept(World, v, pjsua)
      BY <1>1, <1>2, <1>5, SeenHandled
    <2> QED BY <1>5, <2>1, KeptNext
  <1> QED BY <1>3, <1>4, <1>5

\* It deals with the response after it had given up the lock.
LEMMA TsxHandleKeeps ==
    ASSUME Inv, NEW t \in Thread, TsxHandle(t)
    PROVE  Inv'
  <1>1. Good(World, pjsua)
    BY DEF Inv
  <1>2. TopIs(World, t, "tsx", {"handle"})
    BY AtTop DEF TsxHandle
  <1>3. PICK v \in Handle(World, t) : Become(v)
    BY DEF TsxHandle
  <1>4. Kept(World, v, pjsua)
    BY <1>1, <1>2, DealtHandled
  <1> QED BY <1>3, <1>4, KeptNext

\* It gives the lock up for regc_tsx_cb.
LEMMA TsxCbKeeps ==
    ASSUME Inv, NEW t \in Thread, TsxCb(t)
    PROVE  Inv'
  <1> DEFINE g == Last(World.stk[t])
             f == WithPc(g, "handle")
             n == Put(World, t, f)
  <1>1. Good(World, pjsua)
    BY DEF Inv
  <1>2. TopIs(World, t, "tsx", {"tsx_cb"})
    BY AtTop DEF TsxCb
  <1>3. Become(n)
    BY DEF TsxCb, Goto, WithPc
  <1>4. g \in FrameType /\ g.fn = "tsx" /\ g.pc = "tsx_cb"
    <2>1. g \in FrameType
      BY <1>1, <1>2, TopOf
    <2> QED BY <1>2, <2>1 DEF TopIs
  <1>5. /\ f \in FrameType /\ f.pc = "handle" /\ f.fn = "tsx" /\ f.r = g.r
        /\ f.code = g.code
    BY <1>4, WithPcIs DEF Pcs
  <1>6. TopIs(World, t, "tsx", {"tsx_cb", "sent", "call"})
    BY <1>2 DEF TopIs
  <1> HIDE DEF f
  <1>7. Kept(World, n, pjsua)
    <2> DEFINE fn == "tsx"
    <2>1. /\ TopIs(World, t, fn, {"tsx_cb", "sent", "call"}) /\ f.fn = fn
          /\ fn \in {"tsx", "refresh"} /\ fn = "tsx" /\ (fn = "refresh" => FALSE)
      BY <1>5, <1>6
    <2> HIDE DEF fn
    <2> QED BY <1>1, <1>4, <1>5, <2>1, Carries
  <1> HIDE DEF n
  <1> QED BY <1>3, <1>7, KeptNext

\* Callback fn goes on with frame f, whose session is g's.
GoesOn(g, f, fn) ==
    f \in FrameType /\ f.fn = fn /\ f.r = g.r /\ f.pc \in {"call", "dec"}

\* A callback goes on to its end.
LEMMA CarriesOn ==
    ASSUME NEW w, NEW t, NEW p, NEW f, NEW fn, Good(w, p), t \in Thread,
           TopIs(w, t, fn, {"sent", "call"}), fn \in {"tsx", "refresh"},
           GoesOn(Last(w.stk[t]), f, fn)
    PROVE  Kept(w, Put(w, t, f), p)
  <1>1. TopIs(w, t, fn, {"tsx_cb", "sent", "call"}) /\ Last(w.stk[t]).pc # "tsx_cb"
    BY DEF TopIs
  <1>2. /\ f \in FrameType /\ f.fn = fn /\ f.r = Last(w.stk[t]).r
        /\ f.pc \in {"call", "dec"}
    BY DEF GoesOn
  <1> QED BY <1>1, <1>2, Carries

\* The frame of a callback that waits, or is about to call regc_cb.
LEMMA WaitingTop ==
    ASSUME NEW w, NEW t, NEW p, NEW fn, Good(w, p), t \in Thread,
           TopIs(w, t, fn, {"sent", "call"}), fn \in {"tsx", "refresh"}
    PROVE  LET g == Last(w.stk[t])
           IN g \in FrameType /\ g.fn = fn /\ g.r \in Regc /\ g.pc # "tsx_cb"
  <1> DEFINE g == Last(w.stk[t])
             s == w.stk[t]
             k == Len(s)
  <1>1. s # <<>> /\ g.fn = fn /\ g.pc # "tsx_cb"
    BY DEF TopIs
  <1>2. g \in FrameType /\ Fits(g, k, Under(s, k))
    BY <1>1, TopFacts
  <1> HIDE DEF g, s, k
  <1>3. g.r \in Regc
    BY <1>1, <1>2 DEF Fits, FrameType
  <1> QED BY <1>1, <1>2, <1>3 DEF g

\* The end of the wait for pjsip_regc_send, and of the call of regc_cb.
LEMMA Reported ==
    ASSUME NEW w, NEW t, NEW p, NEW fn, NEW n, Good(w, p), t \in Thread,
           TopIs(w, t, fn, {"sent", "call"}), fn \in {"tsx", "refresh"},
           \/ n = Done(w, t)
           \/ \E st \in {"ok", "error", "EBUSY"}, exp \in BOOLEAN, u \in BOOLEAN,
                 code \in {0, 200, 400, 401, 403, 423, 503} :
                    n = Report(w, t, st, code, exp, u)
    PROVE  Kept(w, n, p)
  <1> DEFINE g == Last(w.stk[t])
  <1>1. g \in FrameType /\ g.fn = fn /\ g.r \in Regc /\ g.pc # "tsx_cb"
    BY WaitingTop
  <1>2. CASE n = Done(w, t)
    <2> DEFINE dec == "dec"
               no == FALSE
               r == g.r
               f == Frame(fn, dec, r, no)
    <2>1. /\ dec \in Pcs /\ no \in BOOLEAN /\ r \in Regc \cup {None}
          /\ fn \in Fns
      BY <1>1 DEF Pcs, Fns
    <2>2. n = Put(w, t, f)
      BY <1>1, <1>2 DEF Done
    <2>3. f \in FrameType /\ f.pc = dec /\ f.fn = fn /\ f.r = r
      <3> HIDE DEF dec, no, r
      <3> QED BY <2>1, FrameIs
    <2>4. GoesOn(g, f, fn)
      <3> HIDE DEF f
      <3> QED BY <2>3 DEF GoesOn
    <2> HIDE DEF f
    <2> QED BY <2>2, <2>4, CarriesOn
  <1>3. ASSUME NEW st \in {"ok", "error", "EBUSY"}, NEW exp \in BOOLEAN,
               NEW u \in BOOLEAN, NEW code \in {0, 200, 400, 401, 403, 423, 503},
               n = Report(w, t, st, code, exp, u)
        PROVE  Kept(w, n, p)
    <2> DEFINE f == Reporting(g, st, code, exp, u)
    <2>1. f \in FrameType /\ f.pc = "call" /\ f.fn = g.fn /\ f.r = g.r
      BY <1>1, ReportingIs
    <2>2. n = Put(w, t, f)
      BY <1>3 DEF Report, Reporting
    <2> HIDE DEF f
    <2>3. GoesOn(g, f, fn)
      BY <1>1, <2>1 DEF GoesOn
    <2> QED BY <2>2, <2>3, CarriesOn
  <1> QED BY <1>2, <1>3

\* The request that was sent again is out, or was not sent.
LEMMA TsxSentKeeps ==
    ASSUME Inv, NEW t \in Thread, TsxSent(t)
    PROVE  Inv'
  <1> DEFINE g == Last(World.stk[t])
             a == Done(World, t)
             b == Report(World, t, g.status, g.code, FALSE, g.is_unreg)
  <1>1. Good(World, pjsua)
    BY DEF Inv
  <1>2. TopIs(World, t, "tsx", {"sent", "call"})
    BY AtTop DEF TsxSent
  <1>3. g \in FrameType
    BY <1>1, <1>2, WaitingTop
  <1>4. Become(a) \/ Become(b)
    BY WorldIs DEF TsxSent, Top
  <1>5. Kept(World, a, pjsua)
    <2> DEFINE fn == "tsx"
    <2>1. fn \in {"tsx", "refresh"} /\ TopIs(World, t, fn, {"sent", "call"})
      BY <1>2
    <2> HIDE DEF fn
    <2> QED BY <1>1, <2>1, Reported
  <1>6. Kept(World, b, pjsua)
    <2> DEFINE fn == "tsx"
               no == FALSE
    <2>1. fn \in {"tsx", "refresh"} /\ TopIs(World, t, fn, {"sent", "call"})
      BY <1>2
    <2>2. /\ g.status \in {"ok", "error", "EBUSY"} /\ g.is_unreg \in BOOLEAN
          /\ g.code \in {0, 200, 400, 401, 403, 423, 503} /\ no \in BOOLEAN
          /\ b = Report(World, t, g.status, g.code, no, g.is_unreg)
      BY <1>3 DEF FrameType
    <2> HIDE DEF fn, g, b, no
    <2>3. \E st \in {"ok", "error", "EBUSY"}, exp \in BOOLEAN, u \in BOOLEAN,
             code \in {0, 200, 400, 401, 403, 423, 503} :
                b = Report(World, t, st, code, exp, u)
      BY <2>2
    <2> QED BY <1>1, <2>1, <2>3, Reported
  <1> HIDE DEF a, b
  <1> QED BY <1>4, <1>5, <1>6, KeptNext

\* The refreshing request is out, or was not sent.
LEMMA RefreshSentKeeps ==
    ASSUME Inv, NEW t \in Thread, RefreshSent(t)
    PROVE  Inv'
  <1> DEFINE g == Last(World.stk[t])
             a == Done(World, t)
             b == Report(World, t, g.status, 400, FALSE, FALSE)
  <1>1. Good(World, pjsua)
    BY DEF Inv
  <1>2. TopIs(World, t, "refresh", {"sent", "call"})
    BY AtTop DEF RefreshSent
  <1>3. g \in FrameType
    BY <1>1, <1>2, WaitingTop
  <1>4. Become(a) \/ Become(b)
    BY WorldIs DEF RefreshSent, Top
  <1>5. Kept(World, a, pjsua)
    <2> DEFINE fn == "refresh"
    <2>1. fn \in {"tsx", "refresh"} /\ TopIs(World, t, fn, {"sent", "call"})
      BY <1>2
    <2> HIDE DEF fn
    <2> QED BY <1>1, <2>1, Reported
  <1>6. Kept(World, b, pjsua)
    <2> DEFINE fn == "refresh"
               no == FALSE
               code1 == 400
    <2>1. fn \in {"tsx", "refresh"} /\ TopIs(World, t, fn, {"sent", "call"})
      BY <1>2
    <2>2. /\ g.status \in {"ok", "error", "EBUSY"} /\ no \in BOOLEAN
          /\ code1 \in {0, 200, 400, 401, 403, 423, 503}
          /\ b = Report(World, t, g.status, code1, no, no)
      BY <1>3 DEF FrameType
    <2> HIDE DEF fn, g, b, no, code1
    <2>3. \E st \in {"ok", "error", "EBUSY"}, exp \in BOOLEAN, u \in BOOLEAN,
             code \in {0, 200, 400, 401, 403, 423, 503} :
                b = Report(World, t, st, code, exp, u)
      BY <2>2
    <2> QED BY <1>1, <2>1, <2>3, Reported
  <1> HIDE DEF a, b
  <1> QED BY <1>4, <1>5, <1>6, KeptNext

\* Account b is a but for what the sessions do not depend on.
AccFrom(a, b) == b \in AccType /\ b.regc = a.regc

\* What may be written to the account without another session.
LEMMA Accounts ==
    ASSUME NEW a, NEW e \in BOOLEAN, a \in AccType
    PROVE  /\ AccFrom(a, [a EXCEPT !.told = FALSE])
           /\ AccFrom(a, [a EXCEPT !.active = FALSE, !.told = e])
           /\ AccFrom(a, ScheduleReregistration(a))
           /\ AccFrom(a, [a EXCEPT !.retry = FALSE])
           /\ AccFrom(a, [a EXCEPT !.retry = FALSE, !.refused = TRUE])
           /\ AccFrom(a, [a EXCEPT !.refused = e])
           /\ AccFrom(a, [a EXCEPT !.valid = TRUE])
           /\ AccFrom(a, [a EXCEPT !.valid = FALSE, !.retry = FALSE])
  BY DEF AccFrom, AccType, ScheduleReregistration

\* The account without its session.
LEMMA AccNone ==
    ASSUME NEW a, a \in AccType
    PROVE  LET b == [a EXCEPT !.regc = None] IN b \in AccType /\ b.regc = None
  BY DEF AccType

\* n is w but for session r and the account.
Tells(w, n, p) ==
    /\ Good(n, p) /\ n.stk = w.stk /\ n.net = w.net /\ n.pjsua = w.pjsua

\* The application is told and the session stays.
LEMMA TellsOnly ==
    ASSUME NEW w, NEW p, NEW b, Good(w, p), AccFrom(w.acc, b)
    PROVE  Tells(w, WithAcc(w, b), p)
  <1>1. b \in AccType /\ b.regc \in {w.acc.regc, None}
    BY DEF AccFrom
  <1> QED BY <1>1, AccPlain DEF Tells

\* The account gives session r up.
LEMMA TellsGone ==
    ASSUME NEW w, NEW t, NEW p, NEW r, NEW b, Good(w, p), t \in Thread, r \in Regc,
           w.stk[t] # <<>>, Last(w.stk[t]).r = r, In("firm", Last(w.stk[t])),
           Mild(w.stk[t]), ~w.reg[r].lock, AccFrom(w.acc, b)
    PROVE  Tells(w, WithAcc(WithReg(w, r, Destroy(w.reg[r])),
                            [b EXCEPT !.regc = None]), p)
  <1> DEFINE s == w.reg[r]
             z == Destroy(s)
             a == [b EXCEPT !.regc = None]
             x == WithAcc(WithReg(w, r, z), a)
  <1>1. a \in AccType /\ a.regc = None
    <2>1. b \in AccType
      BY DEF AccFrom
    <2> QED BY <2>1, AccNone
  <1> HIDE DEF a
  <1>2. s.live /\ s \in SessionType /\ SoundIn(s, w, r)
    BY OneUser
  <1>3. SoundIn(z, w, r) /\ z \in SessionType /\ ~z.lock
    <2>1. Places(w.stk, "firm", r) \subseteq Places(w.stk, "use", r)
      BY PlaceSets
    <2> HIDE DEF s
    <2> QED BY <1>2, <2>1, Destroyed DEF SoundIn, s
  <1>4. z.lock = s.lock
    BY <1>2, <1>3 DEF SessionType
  <1> HIDE DEF z
  <1>5. /\ Writes(w, x, r, z) /\ x.stk = w.stk /\ x.net = w.net
        /\ x.pjsua = w.pjsua
    <2>1. a.regc # r
      BY <1>1, RegAssumption
    <2> QED BY <1>1, <1>3, <1>4, <2>1, RegAccWrites
  <1> HIDE DEF x
  <1>6. Good(x, p)
    BY <1>3, <1>5, Alters
  <1> QED BY <1>5, <1>6 DEF Tells, x, z, a

\* regc_cb, in each of its cases, keeps what matters.
LEMMA RegcCbTells ==
    ASSUME NEW w, NEW t, NEW p, NEW r, NEW f, Good(w, p), t \in Thread, r \in Regc,
           w.stk[t] # <<>>, Last(w.stk[t]).r = r, In("firm", Last(w.stk[t])),
           Mild(w.stk[t]), ~w.reg[r].lock, f \in FrameType
    PROVE  Tells(w, RegcCb(w, r, f), p)
  <1> DEFINE a == w.acc
             lost == [a EXCEPT !.told = FALSE]
             won == [a EXCEPT !.active = FALSE, !.told = f.exp]
             later == ScheduleReregistration(lost)
             Gone(b) == WithAcc(WithReg(w, r, Destroy(w.reg[r])),
                                [b EXCEPT !.regc = None])
  <1>1. a \in AccType /\ f.exp \in BOOLEAN
    <2>1. w \in WorldType
      BY DEF Good
    <2> QED BY <2>1, WorldFields DEF FrameType
  <1> HIDE DEF a
  <1>2. AccFrom(a, lost) /\ AccFrom(a, won)
    BY <1>1, Accounts
  <1> HIDE DEF lost, won
  <1>3. AccFrom(a, later)
    <2>1. lost \in AccType /\ lost.regc = a.regc
      BY <1>2 DEF AccFrom
    <2>2. AccFrom(lost, later)
      BY <2>1, Accounts
    <2> QED BY <2>1, <2>2 DEF AccFrom
  <1> HIDE DEF later
  <1>4. Tells(w, WithAcc(w, lost), p) /\ Tells(w, WithAcc(w, won), p)
    BY <1>2, TellsOnly DEF a
  <1>5. Tells(w, Gone(lost), p) /\ Tells(w, Gone(later), p) /\ Tells(w, Gone(won), p)
    BY <1>2, <1>3, TellsGone DEF a
  <1>6. Tells(w, w, p)
    BY DEF Tells
  <1>7. RegcCb(w, r, f) \in {w, WithAcc(w, lost), WithAcc(w, won), Gone(lost),
                             Gone(later), Gone(won)}
    <2> HIDE DEF Gone
    <2> QED BY DEF RegcCb, Gone, lost, later, won, a
  <1> HIDE DEF Gone
  <1> QED BY <1>4, <1>5, <1>6, <1>7

\* The callbacks call regc_cb.
LEMMA CallKeeps ==
    ASSUME Inv, NEW t \in Thread, Call(t)
    PROVE  Inv'
  <1> DEFINE g == Last(World.stk[t])
             r == g.r
             v == RegcCb(World, r, g)
             n == Done(v, t)
  <1>1. Good(World, pjsua)
    BY DEF Inv
  <1>2. PICK fn \in {"tsx", "refresh"} : At(t, fn, "call")
    BY DEF Call
  <1>3. TopIs(World, t, fn, {"call"}) /\ TopIs(World, t, fn, {"sent", "call"})
    BY <1>2, AtTop
  <1>4. /\ g \in FrameType /\ g.fn = fn /\ r \in Regc /\ g.pc = "call"
        /\ World.stk[t] # <<>>
    <2>1. g \in FrameType /\ r \in Regc
      BY <1>1, <1>3, WaitingTop
    <2> QED BY <1>3, <2>1 DEF TopIs
  <1>5. Become(n) /\ ~World.reg[r].lock
    BY WorldIs DEF Call, Top, MayUse
  <1>6. In("firm", g) /\ Mild(World.stk[t])
    BY <1>2, <1>4 DEF In, Mild
  <1>7. Tells(World, v, pjsua)
    <2> HIDE DEF v
    <2> QED BY <1>1, <1>4, <1>5, <1>6, RegcCbTells DEF v
  <1> HIDE DEF v
  <1>8. Good(v, pjsua) /\ TopIs(v, t, fn, {"sent", "call"}) /\ v.pjsua = World.pjsua
    BY <1>3, <1>7 DEF Tells, TopIs
  <1>9. Kept(v, n, pjsua)
    BY <1>2, <1>8, Reported
  <1>10. Kept(World, n, pjsua)
    BY <1>8, <1>9 DEF Kept
  <1> HIDE DEF n
  <1> QED BY <1>5, <1>10, KeptNext

-----------------------------------------------------------------------------
(* The references given back.                                              *)

\* The frame of a callback at the top.
LEMMA CallbackTop ==
    ASSUME NEW w, NEW t, NEW p, NEW fn, NEW pcs, Good(w, p), t \in Thread,
           TopIs(w, t, fn, pcs), fn \in {"tsx", "refresh"}
    PROVE  LET g == Last(w.stk[t])
           IN /\ g \in FrameType /\ g.fn = fn /\ g.r \in Regc /\ g.pc \in pcs
              /\ TopAt(w, t, <<t, Len(w.stk[t])>>, g) /\ w.stk[t] # <<>>
              /\ Mild(w.stk[t]) /\ w \in WorldType
  <1> DEFINE g == Last(w.stk[t])
             s == w.stk[t]
             k == Len(s)
  <1>1. s # <<>> /\ g.fn = fn /\ g.pc \in pcs
    BY DEF TopIs
  <1>2. /\ g \in FrameType /\ Fits(g, k, Under(s, k)) /\ TopAt(w, t, <<t, k>>, g)
        /\ w \in WorldType
    BY <1>1, TopFacts
  <1>4. Mild(s)
    BY <1>1 DEF Mild
  <1> HIDE DEF g, s, k
  <1>3. g.r \in Regc
    BY <1>1, <1>2 DEF Fits, FrameType
  <1> QED BY <1>1, <1>2, <1>3, <1>4 DEF g, s, k

\* One user less.
Fewer(s) == [s EXCEPT !.busy = s.busy - 1]

FewerFrom(s, z) ==
    /\ z \in SessionType /\ z.live = s.live /\ z.busy = s.busy - 1
    /\ z.has_tsx = s.has_tsx /\ z.cseq = s.cseq /\ z.lock = s.lock
    /\ z.delete_flag = s.delete_flag

\* A session with one user less.
LEMMA FewerIs ==
    ASSUME NEW s, s \in SessionType, s.busy \in Nat \ {0}
    PROVE  FewerFrom(s, Fewer(s))
  <1>1. s.busy - 1 \in Nat
    OBVIOUS
  <1> QED BY <1>1 DEF Fewer, FewerFrom, SessionType

\* A callback gives its reference back, and goes on at f.
LEMMA GivesBackPut ==
    ASSUME NEW w, NEW t, NEW p, NEW fn, NEW f, NEW r, Good(w, p), t \in Thread,
           TopIs(w, t, fn, {"dec"}), fn \in {"tsx", "refresh"}, r = Last(w.stk[t]).r,
           f = WithPc(Last(w.stk[t]), "flag")
    PROVE  Kept(w, Put(WithReg(w, r, Fewer(w.reg[r])), t, f), p)
  <1> DEFINE s == w.stk[t]
             g == Last(s)
             h == <<t, Len(s)>>
             z == Fewer(w.reg[r])
             x == WithReg(w, r, z)
             n == Put(x, t, f)
  <1>1. /\ g \in FrameType /\ g.fn = fn /\ r \in Regc /\ g.pc = "dec" /\ g.r = r
        /\ TopAt(w, t, h, g) /\ s # <<>>
    <2> DEFINE pcs == {"dec"}
    <2>1. TopIs(w, t, fn, pcs) /\ \A x1 \in pcs : x1 = "dec"
      OBVIOUS
    <2> HIDE DEF pcs
    <2> QED BY <2>1, CallbackTop
  <1>2. Holding(g) /\ ~Asking(g) /\ In("firm", g)
    BY <1>1, HoldingFrame DEF Holding
  <1>3. FewerFrom(w.reg[r], z)
    BY <1>1, <1>2, OneUser, FewerIs
  <1> HIDE DEF z
  <1>4. Written(w, x, r, z)
    BY <1>1, <1>3, SessionWritten DEF FewerFrom
  <1>5. f \in FrameType /\ f.pc = "flag" /\ f.fn = fn /\ f.r = r
    BY <1>1, WithPcIs DEF Pcs
  <1>6. Placed(w, t, f)
    <2>1. CASE fn = "tsx"
      <3>1. TopIs(w, t, "tsx", {"dec"})
        BY <2>1
      <3> QED BY <1>1, <1>5, <2>1, <3>1, PlacedTsx
    <2>2. CASE fn = "refresh"
      <3>1. TopIs(w, t, "refresh", {"dec"})
        BY <2>2
      <3> QED BY <1>1, <1>5, <2>2, <3>1, PlacedRefresh
    <2> QED BY <2>1, <2>2
  <1> HIDE DEF x
  <1>7. Landed(w, x, n, t, <<t, Len(s)>>, g, f, Turned(s, f), r, z, p)
    BY <1>1, <1>4, <1>5, <1>6, AboutOwn, PutGround DEF Written
  <1> HIDE DEF n, g, h, s
  <1>8. /\ Ground(w, n, t, h, g, f, r, z, p, p) /\ n.net = w.net
        /\ n.pjsua = w.pjsua
    BY <1>4, <1>7 DEF Landed, Written, h, s
  <1>9. ~In("use", f) /\ ~Asking(f)
    BY <1>5, NoClassFrame, NoClassAre
  <1>10. Good(n, p)
    BY <1>1, <1>2, <1>3, <1>8, <1>9, Releases DEF FewerFrom
  <1> QED BY <1>8, <1>10 DEF Kept, n, x, z

\* It gives it back and ends.
LEMMA GivesBackPop ==
    ASSUME NEW w, NEW t, NEW p, NEW fn, NEW r, Good(w, p), t \in Thread,
           TopIs(w, t, fn, {"dec"}), fn \in {"tsx", "refresh"}, r = Last(w.stk[t]).r
    PROVE  Kept(w, Pop(WithReg(w, r, Fewer(w.reg[r])), t), p)
  <1> DEFINE s == w.stk[t]
             g == Last(s)
             h == <<t, Len(s)>>
             z == Fewer(w.reg[r])
             x == WithReg(w, r, z)
             n == Pop(x, t)
  <1>1. /\ g \in FrameType /\ g.fn = fn /\ r \in Regc /\ g.pc = "dec" /\ g.r = r
        /\ TopAt(w, t, h, g) /\ s # <<>> /\ Mild(s)
    <2> DEFINE pcs == {"dec"}
    <2>1. TopIs(w, t, fn, pcs) /\ \A x1 \in pcs : x1 = "dec"
      OBVIOUS
    <2> HIDE DEF pcs
    <2> QED BY <2>1, CallbackTop
  <1>2. Holding(g) /\ ~Asking(g) /\ In("firm", g) /\ Calm(g)
    BY <1>1, HoldingFrame DEF Holding, Calm
  <1>3. FewerFrom(w.reg[r], z)
    BY <1>1, <1>2, OneUser, FewerIs
  <1> HIDE DEF z
  <1>4. Written(w, x, r, z)
    BY <1>1, <1>3, SessionWritten DEF FewerFrom
  <1> HIDE DEF x
  <1>7. Landed(w, x, n, t, <<t, Len(s)>>, g, Blank, Front(s), r, z, p)
    BY <1>1, <1>2, <1>4, AboutOwn, PopGround DEF Written
  <1> HIDE DEF n, g, h, s
  <1>8. /\ Ground(w, n, t, h, g, Blank, r, z, p, p) /\ n.net = w.net
        /\ n.pjsua = w.pjsua
    BY <1>4, <1>7 DEF Landed, Written, h, s
  <1>9. ~In("use", Blank) /\ ~Asking(Blank)
    BY BlankNone, NoClassAre
  <1>10. Good(n, p)
    BY <1>1, <1>2, <1>3, <1>8, <1>9, Releases DEF FewerFrom
  <1> QED BY <1>8, <1>10 DEF Kept, n, x, z

\* The first half of pjsip_regc_dec_ref.
LEMMA DecKeeps ==
    ASSUME Inv, NEW t \in Thread, Dec(t)
    PROVE  Inv'
  <1> DEFINE g == Last(World.stk[t])
             r == g.r
             x == WithReg(World, r, Fewer(World.reg[r]))
             a == Put(x, t, WithPc(g, "flag"))
             b == Pop(x, t)
  <1>1. Good(World, pjsua)
    BY DEF Inv
  <1>2. PICK fn \in {"tsx", "refresh"} : At(t, fn, "dec")
    BY DEF Dec
  <1>3. TopIs(World, t, fn, {"dec"})
    BY <1>2, AtTop
  <1>4. Goto(x, t, "flag") = a
    <2>1. x.stk = World.stk
      BY DEF WithReg, World
    <2> QED BY <2>1 DEF Goto, WithPc
  <1>5. Become(a) \/ Become(b)
    <2>1. Become(Goto(x, t, "flag")) \/ Become(b)
      BY WorldIs DEF Dec, Top, Fewer
    <2> QED BY <1>4, <2>1
  <1>6. Kept(World, a, pjsua)
    <2> DEFINE f == WithPc(g, "flag")
    <2> HIDE DEF f
    <2>1. Kept(World, Put(x, t, f), pjsua)
      BY <1>1, <1>2, <1>3, GivesBackPut DEF f
    <2> QED BY <2>1 DEF f
  <1>7. Kept(World, b, pjsua)
    BY <1>1, <1>2, <1>3, GivesBackPop
  <1> HIDE DEF a, b
  <1> QED BY <1>5, <1>6, <1>7, KeptNext

\* A session to be deleted is destroyed.
LEMMA Reaped ==
    ASSUME NEW w, NEW t, NEW p, NEW r, Good(w, p), t \in Thread, r \in Regc,
           Mild(w.stk[t]), w.reg[r].live, w.reg[r].delete_flag, ~w.reg[r].lock
    PROVE  Tells(w, WithReg(w, r, Destroy(w.reg[r])), p)
  <1> DEFINE s == w.reg[r]
             z == Destroy(s)
             x == WithReg(w, r, z)
  <1>1. s \in SessionType /\ SoundIn(s, w, r) /\ w.acc.regc # r
    <2>1. w \in WorldType /\ Sessions(w) /\ Usable(w)
      BY DEF Good
    <2>2. r # None
      BY RegAssumption
    <2> QED BY <2>1, <2>2, WorldFields DEF Sessions, Usable
  <1>2. SoundIn(z, w, r) /\ z \in SessionType /\ ~z.lock
    <2>1. Places(w.stk, "firm", r) \subseteq Places(w.stk, "use", r)
      BY PlaceSets
    <2> HIDE DEF s
    <2> QED BY <1>1, <2>1, Destroyed DEF SoundIn, s
  <1>3. z.lock = s.lock
    BY <1>1, <1>2 DEF SessionType
  <1> HIDE DEF z
  <1>4. /\ Writes(w, x, r, z) /\ x.stk = w.stk /\ x.net = w.net
        /\ x.pjsua = w.pjsua
    BY <1>1, <1>2, <1>3, WithRegWrites
  <1> HIDE DEF x
  <1>5. Good(x, p)
    BY <1>2, <1>4, Alters
  <1> QED BY <1>4, <1>5 DEF Tells, x, z

\* A callback at its end returns.
LEMMA Ends ==
    ASSUME NEW w, NEW t, NEW p, NEW fn, NEW pcs, Good(w, p), t \in Thread,
           TopIs(w, t, fn, pcs), fn \in {"tsx", "refresh"}, pcs \subseteq {"flag", "ref"}
    PROVE  Kept(w, Pop(w, t), p)
  <1> DEFINE g == Last(w.stk[t])
             n == Pop(w, t)
  <1>1. /\ g \in FrameType /\ g.fn = fn /\ g.pc \in pcs /\ w.stk[t] # <<>>
        /\ Mild(w.stk[t])
    BY CallbackTop
  <1>2. NoClass(g)
    BY <1>1, NoClassFrame
  <1>3. Calm(g)
    BY <1>1 DEF Calm
  <1>4. Moved(w, n, t, Front(w.stk[t]), p)
    BY <1>1, <1>2, <1>3, PopPlain
  <1> QED BY <1>4 DEF Moved, Kept

\* Its second half, with whatever happened in between.
LEMMA FlagKeeps ==
    ASSUME Inv, NEW t \in Thread, Flag(t)
    PROVE  Inv'
  <1> DEFINE g == Last(World.stk[t])
             r == g.r
             x == IF World.reg[r].live /\ World.reg[r].delete_flag
                  THEN WithReg(World, r, Destroy(World.reg[r])) ELSE World
             n == Pop(x, t)
  <1>1. Good(World, pjsua)
    BY DEF Inv
  <1>2. PICK fn \in {"tsx", "refresh"} : At(t, fn, "flag")
    BY DEF Flag
  <1>3. TopIs(World, t, fn, {"flag"})
    BY <1>2, AtTop
  <1>4. Become(n) /\ (World.reg[r].delete_flag => ~World.reg[r].lock)
    BY WorldIs DEF Flag, Top, MayUse
  <1>5. Tells(World, x, pjsua)
    <2>1. r \in Regc /\ Mild(World.stk[t])
      BY <1>1, <1>2, <1>3, CallbackTop
    <2>2. Tells(World, World, pjsua)
      BY <1>1 DEF Tells
    <2> HIDE DEF r
    <2> QED BY <1>1, <1>4, <2>1, <2>2, Reaped
  <1> HIDE DEF x
  <1>6. Good(x, pjsua) /\ TopIs(x, t, fn, {"flag"}) /\ x.pjsua = World.pjsua
    BY <1>3, <1>5 DEF Tells, TopIs
  <1>7. Kept(x, n, pjsua)
    <2> DEFINE pcs == {"flag"}
    <2>1. TopIs(x, t, fn, pcs) /\ pcs \subseteq {"flag", "ref"}
      BY <1>6
    <2> HIDE DEF pcs
    <2> QED BY <1>2, <1>6, <2>1, Ends
  <1>8. Kept(World, n, pjsua)
    BY <1>6, <1>7 DEF Kept
  <1> HIDE DEF n
  <1> QED BY <1>4, <1>8, KeptNext

-----------------------------------------------------------------------------
(* The refresh timer.                                                      *)

\* A session locked by pjsua_acc_del lives.
LEMMA LockedLive ==
    ASSUME NEW w, NEW p, NEW r, Good(w, p), r \in Regc, w.reg[r].lock
    PROVE  w.reg[r].live
  BY DEF Good, Deletes

\* A change of a session that nobody depends on.
LEMMA MinorTells ==
    ASSUME NEW w, NEW t, NEW p, NEW r, NEW z, Good(w, p), t \in Thread, r \in Regc,
           Mild(w.stk[t]), Minor(w.reg[r], z)
    PROVE  Tells(w, WithReg(w, r, z), p)
  <1> DEFINE s == w.reg[r]
             x == WithReg(w, r, z)
  <1>1. SoundIn(s, w, r)
    BY DEF Good, Sessions
  <1>2. /\ z \in SessionType /\ Agrees(s, z) /\ z.lock = s.lock
        /\ z.delete_flag = s.delete_flag /\ z.live = s.live /\ z.has_tsx = s.has_tsx
    BY DEF Minor, Agrees
  <1>3. SoundIn(z, w, r)
    <2> HIDE DEF s
    <2> QED BY <1>1, <1>2, Unmoved DEF SoundIn
  <1>4. Written(w, x, r, z)
    BY <1>2, SessionWritten
  <1>5. Good(x, p)
    BY <1>2, <1>3, <1>4, LockedLive, Alters DEF Written
  <1> QED BY <1>4, <1>5 DEF Tells, Written

NoTimer(s) == [s EXCEPT !.timer = FALSE]

\* The timer's callback is called.
LEMMA NoTimerIs ==
    ASSUME NEW s, s \in SessionType
    PROVE  Minor(s, NoTimer(s))
  BY DEF Minor, Agrees, NoTimer, SessionType

\* The refresh timer pops, whether its session lives or not.
LEMMA PopRefreshKeeps ==
    ASSUME Inv, NEW t \in Thread, NEW r \in Regc, PopRefresh(t, r)
    PROVE  Inv'
  <1> DEFINE z == NoTimer(World.reg[r])
             x == WithReg(World, r, z)
             f == Frame("refresh", "ref", r, FALSE)
             n == Push(x, t, f)
  <1>1. Good(World, pjsua) /\ World \in WorldType
    BY DEF Inv, Good
  <1>2. Become(n) /\ World.stk[t] = <<>>
    BY WorldIs DEF PopRefresh, NoTimer, Idle
  <1>3. Minor(World.reg[r], z)
    BY <1>1, WorldFields, NoTimerIs
  <1> HIDE DEF z
  <1>4. Tells(World, x, pjsua)
    BY <1>1, <1>2, <1>3, MinorTells DEF Mild
  <1> HIDE DEF x
  <1>5. /\ f \in FrameType /\ f.pc = "ref" /\ f.fn = "refresh" /\ f.r = r
    <2> DEFINE no == FALSE
    <2>1. no \in BOOLEAN
      OBVIOUS
    <2> HIDE DEF no
    <2>2. LET e == Frame("refresh", "ref", r, no)
          IN e \in FrameType /\ e.pc = "ref" /\ e.fn = "refresh" /\ e.r = r
      BY <2>1, FrameIs DEF Fns, Pcs
    <2> QED BY <2>2 DEF no
  <1> HIDE DEF f
  <1>6. Good(x, pjsua) /\ x.stk[t] = <<>> /\ x.pjsua = World.pjsua
    BY <1>2, <1>4 DEF Tells
  <1>7. Mounted(x, t, f) /\ NoClass(f)
    <2>1. r # None
      BY RegAssumption
    <2>2. Fits(f, 1, f) /\ Meek(f) /\ Calm(f)
      BY <1>5, <2>1 DEF Fits, Meek, Calm
    <2>3. NoClass(f)
      BY <1>5, NoClassFrame
    <2>4. Len(<<>>) <= 3
      OBVIOUS
    <2> QED BY <1>5, <1>6, <2>2, <2>3, <2>4 DEF Mounted
  <1>8. Moved(x, n, t, Append(x.stk[t], f), pjsua)
    BY <1>6, <1>7, PushPlain
  <1> HIDE DEF n
  <1>9. Kept(World, n, pjsua)
    BY <1>6, <1>8 DEF Moved, Kept
  <1> QED BY <1>2, <1>9, KeptNext

\* A session that a refresh timer's callback refers to.
Timed(s) == [AddRef(s) EXCEPT !.id = FALSE]

TimedFrom(s, z) ==
    /\ z \in SessionType /\ z.live = s.live /\ z.busy = s.busy + 1
    /\ z.has_tsx = s.has_tsx /\ z.cseq = s.cseq /\ z.lock = s.lock
    /\ z.delete_flag = s.delete_flag

\* Its callback takes a reference.
LEMMA TimedIs ==
    ASSUME NEW s, s \in SessionType
    PROVE  TimedFrom(s, Timed(s))
  <1> DEFINE y == AddRef(s)
             z == [y EXCEPT !.id = FALSE]
  <1>1. /\ y \in SessionType /\ y.live = s.live /\ y.busy = s.busy + 1
        /\ y.has_tsx = s.has_tsx
        /\ y.cseq = s.cseq /\ y.lock = s.lock /\ y.delete_flag = s.delete_flag
    BY AddRefIs
  <1> HIDE DEF y
  <1>2. /\ z \in SessionType /\ z.live = y.live /\ z.busy = y.busy
        /\ z.has_tsx = y.has_tsx /\ z.cseq = y.cseq /\ z.lock = y.lock
        /\ z.delete_flag = y.delete_flag
    BY <1>1 DEF SessionType
  <1>3. TimedFrom(s, z)
    BY <1>1, <1>2 DEF TimedFrom
  <1> QED BY <1>3 DEF Timed, y

\* The callback takes its reference.
LEMMA TimerRefers ==
    ASSUME NEW w, NEW t, NEW p, NEW r, NEW f, Good(w, p), t \in Thread,
           TopIs(w, t, "refresh", {"ref"}), r = Last(w.stk[t]).r, w.reg[r].live,
           f = WithPc(Last(w.stk[t]), "register")
    PROVE  Kept(w, Put(WithReg(w, r, Timed(w.reg[r])), t, f), p)
  <1> DEFINE s == w.stk[t]
             g == Last(s)
             h == <<t, Len(s)>>
             z == Timed(w.reg[r])
             x == WithReg(w, r, z)
             n == Put(x, t, f)
  <1>1. /\ g \in FrameType /\ g.fn = "refresh" /\ r \in Regc /\ g.pc = "ref"
        /\ g.r = r /\ w \in WorldType
    <2>1. g \in FrameType /\ r \in Regc /\ w \in WorldType
      BY TopOf
    <2> QED BY <2>1 DEF TopIs
  <1>3. TimedFrom(w.reg[r], z)
    BY <1>1, WorldFields, TimedIs
  <1> HIDE DEF z
  <1>4. Written(w, x, r, z)
    BY <1>1, <1>3, SessionWritten DEF TimedFrom
  <1>5. f \in FrameType /\ f.pc = "register" /\ f.fn = "refresh" /\ f.r = r
    BY <1>1, WithPcIs DEF Pcs
  <1>6. Placed(w, t, f)
    BY <1>1, <1>5, PlacedRefresh
  <1> HIDE DEF x
  <1>7. Landed(w, x, n, t, <<t, Len(s)>>, g, f, Turned(s, f), r, z, p)
    BY <1>1, <1>4, <1>5, <1>6, AboutOwn, PutGround DEF Written
  <1> HIDE DEF n, g, h, s
  <1>8. /\ Ground(w, n, t, h, g, f, r, z, p, p) /\ n.net = w.net
        /\ n.pjsua = w.pjsua
    BY <1>4, <1>7 DEF Landed, Written, h, s
  <1>9. /\ ~In("use", g) /\ ~Asking(g) /\ In("use", f) /\ ~In("firm", f)
        /\ ~Asking(f)
    BY <1>1, <1>5 DEF In, Asking
  <1>10. Good(n, p)
    BY <1>3, <1>5, <1>8, <1>9, Refers DEF TimedFrom
  <1> QED BY <1>8, <1>10 DEF Kept, n, x, z

\* It does so if the session lives.
LEMMA RefreshRefKeeps ==
    ASSUME Inv, NEW t \in Thread, RefreshRef(t)
    PROVE  Inv'
  <1> DEFINE g == Last(World.stk[t])
             r == g.r
             x == WithReg(World, r, Timed(World.reg[r]))
             a == Put(x, t, WithPc(g, "register"))
             b == Pop(World, t)
  <1>1. Good(World, pjsua)
    BY DEF Inv
  <1>2. TopIs(World, t, "refresh", {"ref"})
    BY AtTop DEF RefreshRef
  <1>3. Goto(x, t, "register") = a
    <2>1. x.stk = World.stk
      BY DEF WithReg, World
    <2> QED BY <2>1 DEF Goto, WithPc
  <1>4. IF World.reg[r].live THEN Become(a) ELSE Become(b)
    <2>1. IF World.reg[r].live THEN Become(Goto(x, t, "register")) ELSE Become(b)
      BY WorldIs DEF RefreshRef, Top, Timed
    <2> QED BY <1>3, <2>1
  <1>5. CASE World.reg[r].live
    <2> DEFINE f == WithPc(g, "register")
    <2> HIDE DEF f
    <2>1. Kept(World, Put(x, t, f), pjsua)
      BY <1>1, <1>2, <1>5, TimerRefers DEF f
    <2> HIDE DEF x
    <2> QED BY <1>4, <1>5, <2>1, KeptNext DEF f
  <1>6. CASE ~World.reg[r].live
    <2> DEFINE pcs == {"ref"}
               fn == "refresh"
    <2>1. TopIs(World, t, fn, pcs) /\ pcs \subseteq {"flag", "ref"}
          /\ fn \in {"tsx", "refresh"}
      BY <1>2
    <2> HIDE DEF pcs, fn
    <2>2. Kept(World, b, pjsua)
      BY <1>1, <2>1, Ends
    <2> HIDE DEF b
    <2> QED BY <1>4, <1>6, <2>2, KeptNext
  <1> QED BY <1>5, <1>6

\* Its session is gone all the same.
LEMMA TimerGone ==
    ASSUME NEW w, NEW t, NEW p, NEW r, Good(w, p), t \in Thread,
           TopIs(w, t, "refresh", {"register"}), r = Last(w.stk[t]).r,
           ~w.reg[r].live, ~w.reg[r].lock
    PROVE  Kept(w, Pop(w, t), p)
  <1> DEFINE s == w.stk[t]
             g == Last(s)
             h == <<t, Len(s)>>
             z == w.reg[r]
             n == Pop(w, t)
  <1>1. /\ g \in FrameType /\ g.fn = "refresh" /\ r \in Regc /\ g.pc = "register"
        /\ g.r = r /\ s # <<>>
    <2>1. g \in FrameType /\ r \in Regc
      BY TopOf
    <2> QED BY <2>1 DEF TopIs
  <1>2. Calm(g) /\ Mild(s)
    BY <1>1 DEF Calm, Mild
  <1>3. Writes(w, w, r, z)
    BY <1>1, SelfWrites
  <1>4. Landed(w, w, n, t, <<t, Len(s)>>, g, Blank, Front(s), r, z, p)
    BY <1>1, <1>2, <1>3, AboutOwn, PopGround
  <1>5. SoundIn(z, w, r)
    BY <1>1 DEF Good, Sessions
  <1> HIDE DEF n, g, h, s
  <1>6. /\ Ground(w, n, t, h, g, Blank, r, z, p, p) /\ n.net = w.net
        /\ n.pjsua = w.pjsua
    BY <1>4 DEF Landed, h, s
  <1>7. /\ Places(n.stk, "firm", r) = {} /\ Places(n.stk, "ask", r) = {}
        /\ Sent(n.net, r) = {}
    <2>1. ~In("firm", g) /\ ~In("ask", g)
      BY <1>1 DEF In
    <2>2. ~In("firm", Blank) /\ ~In("ask", Blank)
      BY BlankNone, NoClassAre
    <2>3. Moves(w, n, t, h, g, Blank)
      BY <1>6, GroundFacts
    <2>4. /\ Places(n.stk, "firm", r) = Places(w.stk, "firm", r)
          /\ Places(n.stk, "ask", r) = Places(w.stk, "ask", r)
      BY <2>1, <2>2, <2>3, KeepsOthers, ClassesAre
    <2>5. /\ Places(w.stk, "firm", r) = {} /\ Places(w.stk, "ask", r) = {}
          /\ Sent(w.net, r) = {}
      BY <1>5 DEF SoundIn, Sound
    <2> QED BY <1>6, <2>4, <2>5
  <1>8. SoundIn(z, n, r)
    <2> HIDE DEF z
    <2> QED BY <1>7, Absent DEF SoundIn, z
  <1>9. Good(n, p)
    BY <1>6, <1>8, GroundEnd
  <1> QED BY <1>6, <1>9 DEF Kept, n

\* The callback finds its session.
LEMMA TimerFinds ==
    ASSUME NEW w, NEW t, NEW p, NEW r, NEW f, Good(w, p), t \in Thread,
           TopIs(w, t, "refresh", {"register"}), r = Last(w.stk[t]).r,
           w.reg[r].live, ~w.reg[r].lock, f = WithPc(Last(w.stk[t]), "sent")
    PROVE  Kept(w, Push(Put(WithReg(w, r, CancelTimer(w.reg[r])), t, f), t,
                        Frame("send", "start", r, FALSE)), p)
  <1> DEFINE s == w.stk[t]
             g == Last(s)
             h == <<t, Len(s)>>
             z == CancelTimer(w.reg[r])
             x == WithReg(w, r, z)
             n == Put(x, t, f)
  <1>1. /\ g \in FrameType /\ g.fn = "refresh" /\ r \in Regc /\ g.pc = "register"
        /\ g.r = r /\ s # <<>> /\ s \in Seq(FrameType) /\ w \in WorldType
    <2>1. g \in FrameType /\ r \in Regc /\ w \in WorldType
      BY TopOf
    <2>2. s \in Seq(FrameType)
      BY DEF Good, Stack
    <2> QED BY <2>1, <2>2 DEF TopIs
  <1>3. Minor(w.reg[r], z)
    BY <1>1, WorldFields, Minors
  <1> HIDE DEF z
  <1>4. Written(w, x, r, z)
    BY <1>1, <1>3, SessionWritten DEF Minor, Agrees
  <1>5. f \in FrameType /\ f.pc = "sent" /\ f.fn = "refresh" /\ f.r = r
    BY <1>1, WithPcIs DEF Pcs
  <1>6. Placed(w, t, f)
    BY <1>1, <1>5, PlacedRefresh
  <1> HIDE DEF x
  <1>7. Landed(w, x, n, t, <<t, Len(s)>>, g, f, Turned(s, f), r, z, p)
    BY <1>1, <1>4, <1>5, <1>6, AboutOwn, PutGround DEF Written
  <1>11. Turned(s, f) # <<>> /\ Last(Turned(s, f)) = f
    BY <1>1, <1>5, TurnedFacts
  <1> HIDE DEF n, g, h, s
  <1>8. /\ Ground(w, n, t, h, g, f, r, z, p, p) /\ n.net = w.net
        /\ n.pjsua = w.pjsua /\ n.stk[t] = Turned(s, f)
    BY <1>4, <1>7 DEF Landed, Written, h, s
  <1>9. In("use", g) /\ ~Asking(g) /\ In("use", f) /\ ~Asking(f)
    BY <1>1, <1>5 DEF In, Asking
  <1>10. Good(n, p)
    BY <1>1, <1>3, <1>5, <1>8, <1>9, Pins DEF Minor
  <1>12. Kept(n, Push(n, t, Frame("send", "start", r, FALSE)), p)
    <2> DEFINE no == FALSE
               fn == "refresh"
    <2>1. no \in BOOLEAN /\ fn \in {"tsx", "refresh", "set"}
          /\ TopIs(n, t, fn, {"sent"}) /\ r = Last(n.stk[t]).r
      BY <1>5, <1>8, <1>11 DEF TopIs
    <2> HIDE DEF no, fn
    <2>2. Kept(n, Push(n, t, Frame("send", "start", r, no)), p)
      BY <1>1, <1>10, <2>1, SendsFrom
    <2> QED BY <2>2 DEF no
  <1> QED BY <1>8, <1>12 DEF Kept, n, x, z

\* It sends a request if the session still lives.
LEMMA RefreshRegisterKeeps ==
    ASSUME Inv, NEW t \in Thread, RefreshRegister(t)
    PROVE  Inv'
  <1> DEFINE g == Last(World.stk[t])
             r == g.r
             x == WithReg(World, r, CancelTimer(World.reg[r]))
             a == Push(Put(x, t, WithPc(g, "sent")), t,
                       Frame("send", "start", r, FALSE))
             b == Pop(World, t)
  <1>1. Good(World, pjsua)
    BY DEF Inv
  <1>2. TopIs(World, t, "refresh", {"register"})
    BY AtTop DEF RefreshRegister
  <1>3. Goto(x, t, "sent") = Put(x, t, WithPc(g, "sent"))
    <2>1. x.stk = World.stk
      BY DEF WithReg, World
    <2> QED BY <2>1 DEF Goto, WithPc
  <1>4. /\ ~World.reg[r].lock
        /\ IF World.reg[r].live THEN Become(a) ELSE Become(b)
    <2>1. /\ ~World.reg[r].lock
          /\ IF World.reg[r].live
             THEN Become(Push(Goto(x, t, "sent"), t, Frame("send", "start", r, FALSE)))
             ELSE Become(b)
      BY WorldIs DEF RefreshRegister, Top, MayUse
    <2> QED BY <1>3, <2>1
  <1>5. CASE World.reg[r].live
    <2> DEFINE f == WithPc(g, "sent")
    <2> HIDE DEF f
    <2>1. Kept(World, Push(Put(x, t, f), t, Frame("send", "start", r, FALSE)), pjsua)
      BY <1>1, <1>2, <1>4, <1>5, TimerFinds DEF f
    <2>2. Kept(World, a, pjsua)
      BY <2>1 DEF f
    <2> HIDE DEF a
    <2> QED BY <1>4, <1>5, <2>2, KeptNext
  <1>6. CASE ~World.reg[r].live
    <2>2. Kept(World, b, pjsua)
      BY <1>1, <1>2, <1>4, <1>6, TimerGone
    <2> HIDE DEF b
    <2> QED BY <1>4, <1>6, <2>2, KeptNext
  <1> QED BY <1>5, <1>6

-----------------------------------------------------------------------------
(* The end of pjsua_acc_set_registration.                                  *)

\* Who has PJSUA_LOCK finds no session locked, unless it locked it itself.
LEMMA Unlocked ==
    ASSUME NEW w, NEW t, NEW p, NEW r, Good(w, p), t \in Thread, p \in {t, None},
           Mild(w.stk[t]), r \in Regc
    PROVE  ~w.reg[r].lock
  <1> SUFFICES ASSUME w.reg[r].lock
               PROVE  FALSE
    OBVIOUS
  <1>1. PICK u \in Thread : Deleting(w.stk[u], r)
    BY DEF Good, Deletes
  <1>2. Based(w.stk[u])
    BY <1>1 DEF Based, Deleting
  <1>3. p = u
    BY <1>2 DEF Good, Owned
  <1>4. u = t
    BY <1>3, RegAssumption
  <1>5. Stack(w.stk[t])
    BY DEF Good
  <1> QED BY <1>1, <1>4, <1>5, NotDeleting

\* The frame of pjsua_acc_set_registration at the top.
LEMMA SetTop ==
    ASSUME NEW w, NEW t, NEW p, NEW pcs, Good(w, p), t \in Thread,
           TopIs(w, t, "set", pcs), pcs \subseteq {"sent", "flag"}
    PROVE  LET s == w.stk[t]
               g == Last(s)
           IN /\ g \in FrameType /\ g.fn = "set" /\ g.pc \in pcs /\ g.r \in Regc
              /\ s # <<>> /\ Mild(s) /\ w \in WorldType /\ Stack(s)
              /\ TopAt(w, t, <<t, Len(s)>>, g)
              /\ Len(s) \in {1, 2} /\ Fits(g, Len(s), Under(s, Len(s)))
              /\ Len(s) = 2 => Under(s, Len(s)).fn \in {"del", "retry"}
  <1> DEFINE s == w.stk[t]
             g == Last(s)
             k == Len(s)
             b == Under(s, k)
  <1>1. s # <<>> /\ g.fn = "set" /\ g.pc \in pcs /\ g.pc \in {"sent", "flag"}
    BY DEF TopIs
  <1>2. /\ g \in FrameType /\ Fits(g, k, b) /\ w \in WorldType /\ Stack(s)
        /\ TopAt(w, t, <<t, k>>, g)
    BY <1>1, TopFacts
  <1>3. Mild(s)
    BY <1>1 DEF Mild
  <1> HIDE DEF s, g, k, b
  <1>4. g.r \in Regc /\ k \in {1, 2} /\ (k = 2 => b.fn \in {"del", "retry"})
    BY <1>1, <1>2 DEF Fits, FrameType
  <1> QED BY <1>1, <1>2, <1>3, <1>4 DEF s, g, k, b

\* Who has the lock once it returned, in a stack of that length.
After(t, s) == IF Len(s) = 1 THEN None ELSE t

\* The bottom of two.
LEMMA FrontFirst ==
    ASSUME NEW s, s \in Seq(FrameType), Len(s) = 2
    PROVE  Front(s)[1] = s[1]
  <1>1. s # <<>>
    OBVIOUS
  <1>2. \A i \in 1..(Len(s) - 1) : Front(s)[i] = s[i]
    BY <1>1, FrontFacts
  <1>3. 1 \in 1..(Len(s) - 1)
    OBVIOUS
  <1> QED BY <1>2, <1>3

\* What is under it.
LEMMA SetUnder ==
    ASSUME NEW w, NEW t, NEW p, NEW pcs, Good(w, p), t \in Thread,
           TopIs(w, t, "set", pcs), pcs \subseteq {"sent", "flag"}
    PROVE  LET s == w.stk[t]
               a == Front(s)
           IN /\ Stack(a)
              /\ Len(s) = 1 => a = <<>>
              /\ Len(s) # 1 => a # <<>> /\ Waits(Last(a)) /\ Last(a).fn # "send"
                               /\ Based(a)
  <1> DEFINE s == w.stk[t]
             a == Front(s)
             k == Len(s)
             b == Under(s, k)
  <1>1. /\ Stack(s) /\ s # <<>> /\ k \in {1, 2}
        /\ (k = 2 => b.fn \in {"del", "retry"})
    BY SetTop
  <1>2. /\ Stack(a) /\ (k > 1 => a # <<>> /\ Last(a) = b /\ Waits(Last(a)))
        /\ (k = 1 => a = <<>>)
    BY <1>1, StackPop
  <1>3. k = 2 => a[1] = b
    <2>1. s \in Seq(FrameType) /\ (k = 2 => Len(s) = 2)
      BY <1>1 DEF Stack
    <2>2. k = 2 => b = s[1]
      BY DEF Under
    <2>3. k = 2 => Front(s)[1] = s[1]
      <3> HIDE DEF s, k
      <3> QED BY <2>1, FrontFirst
    <2> QED BY <2>2, <2>3
  <1> HIDE DEF s, a, k, b
  <1>4. k # 1 => a # <<>> /\ Waits(Last(a)) /\ Last(a).fn # "send" /\ Based(a)
    <2>1. CASE k = 2
      <3>1. /\ a # <<>> /\ Last(a) = b /\ Waits(b) /\ b.fn \in {"del", "retry"}
            /\ a[1] = b
        BY <1>1, <1>2, <1>3, <2>1
      <3> QED BY <3>1 DEF Waits, Based
    <2> QED BY <1>1, <2>1
  <1> QED BY <1>2, <1>4 DEF s, a, k

\* n is y but for the stack of t that ends it.
Closes(w, y, n, t, h, g, p, p2) ==
    /\ Moves(w, n, t, h, g, Blank) /\ Orderly(w, n, t, h, g, Blank, p, p2)
    /\ n.reg = y.reg /\ n.acc = y.acc /\ n.net = y.net /\ n.pjsua = y.pjsua
    /\ n.stk[t] = Front(w.stk[t])

\* pjsua_acc_set_registration returns.
LEMMA SetCloses ==
    ASSUME NEW w, NEW y, NEW t, NEW p, NEW pcs, Good(w, p), t \in Thread,
           TopIs(w, t, "set", pcs), pcs \subseteq {"sent", "flag"}, p \in {t, None},
           y \in WorldType, y.stk = w.stk
    PROVE  Closes(w, y, Pop(y, t), t, <<t, Len(w.stk[t])>>, Last(w.stk[t]),
                  p, After(t, w.stk[t]))
  <1> DEFINE s == w.stk[t]
             g == Last(s)
             a == Front(s)
             h == <<t, Len(s)>>
             n == Pop(y, t)
             p2 == After(t, s)
  <1>1. /\ s # <<>> /\ Mild(s) /\ w \in WorldType /\ Stack(s)
    BY SetTop
  <1>2. /\ Stack(a) /\ (Len(s) = 1 => a = <<>>) /\ (Len(s) # 1 => Based(a))
    BY SetUnder
  <1>3. OnlyStk(y, n, t, a)
    BY <1>1, PopIs
  <1>4. n.stk = Swap(w.stk, t, a) /\ n.stk[t] = a /\ n \in WorldType
    BY <1>1, <1>3, ThisStacks DEF OnlyStk
  <1>5. Moves(w, n, t, h, g, Blank)
    BY <1>1, <1>4 DEF Moves
  <1>6. Owns(w, n, t, p, p2)
    <2>1. p2 \in {t, None} /\ (p2 = t <=> Len(s) # 1)
      BY RegAssumption DEF After
    <2>2. Based(a) \/ Flagging(a) <=> Len(s) # 1
      BY <1>2 DEF Based, Flagging
    <2> HIDE DEF p2, a, n
    <2> QED BY <1>4, <2>1, <2>2 DEF Owns
  <1>7. Orderly(w, n, t, h, g, Blank, p, p2)
    BY <1>1, <1>2, <1>4, <1>6, BlankIs DEF Orderly
  <1> QED BY <1>3, <1>4, <1>5, <1>7 DEF Closes, OnlyStk

\* With PJSUA_LOCK taken or given up besides.
LEMMA PjsuaWrites ==
    ASSUME NEW w, NEW x, NEW r, NEW z, NEW u, Writes(w, x, r, z),
           u \in Thread \cup {None}
    PROVE  LET y == WithPjsua(x, u)
           IN /\ Writes(w, y, r, z) /\ y \in WorldType /\ y.stk = w.stk
              /\ y.pjsua = u /\ y.acc = x.acc /\ y.net = x.net /\ y.reg = x.reg
  <1> DEFINE y == WithPjsua(x, u)
  <1>1. /\ y \in WorldType /\ y.pjsua = u
        /\ y.reg = x.reg /\ y.stk = x.stk /\ y.acc = x.acc /\ y.net = x.net
    BY WithPjsuaIs DEF Writes
  <1> HIDE DEF y
  <1>2. Writes(w, y, r, z)
    BY <1>1 DEF Writes, OnlyReg, Usable
  <1> QED BY <1>1, <1>2 DEF y, Writes

\* It returns from a world that is good without its frame.
LEMMA SetReturns ==
    ASSUME NEW w, NEW y, NEW t, NEW p, NEW pcs, Good(w, p), t \in Thread,
           TopIs(w, t, "set", pcs), pcs \subseteq {"sent", "flag"}, p \in {t, None},
           y \in WorldType, y.stk = w.stk, y.pjsua = t,
           Good(Pop(y, t), After(t, w.stk[t]))
    PROVE  Good(EndSet(y, t), EndSet(y, t).pjsua)
  <1> DEFINE s == w.stk[t]
             g == Last(s)
             st == g.status
             v == Pop(y, t)
             a == [y.acc EXCEPT !.refused = st # "ok"]
             f == WithStatus(Last(v.stk[t]), st)
             m == Put(v, t, f)
             x == WithAcc(v, a)
             n == WithPjsua(x, None)
  <1>1. /\ v.acc = y.acc /\ v.pjsua = t /\ v.stk[t] = Front(s)
    <2>1. Closes(w, y, Pop(y, t), t, <<t, Len(w.stk[t])>>, Last(w.stk[t]),
                 p, After(t, w.stk[t]))
      BY SetCloses
    <2> QED BY <2>1 DEF Closes
  <1>2. EndSet(y, t) = IF Len(s) > 1 THEN m ELSE n
    BY DEF EndSet, Return, WithStatus
  <1>3. st \in {"ok", "error", "EBUSY"} /\ Len(s) \in {1, 2}
    <2>1. g \in FrameType /\ Len(s) \in {1, 2}
      BY SetTop
    <2> QED BY <2>1 DEF FrameType
  <1>4. CASE Len(s) = 2
    <2>1. Good(v, t)
      BY <1>4 DEF After
    <2>2. v.stk[t] # <<>> /\ Waits(Last(v.stk[t])) /\ Last(v.stk[t]).fn # "send"
      <3>1. Len(s) # 1
        BY <1>4
      <3> DEFINE a2 == Front(s)
      <3>2. a2 # <<>> /\ Waits(Last(a2)) /\ Last(a2).fn # "send"
        BY <3>1, SetUnder
      <3> QED BY <1>1, <3>2
    <2> HIDE DEF v, s, st
    <2>3. Moved(v, m, t, Turned(v.stk[t], f), t)
      BY <1>3, <2>1, <2>2, StatusPlain
    <2> HIDE DEF m
    <2>4. Good(m, t) /\ m.pjsua = t
      BY <1>1, <2>3 DEF Moved
    <2> QED BY <1>2, <1>4, <2>4
  <1>5. CASE Len(s) = 1
    <2>1. Good(v, None)
      BY <1>5 DEF After
    <2>2. a \in AccType /\ a.regc \in {v.acc.regc, None}
      <3>1. y.acc \in AccType
        BY WorldFields
      <3> DEFINE e == st # "ok"
      <3>2. e \in BOOLEAN
        OBVIOUS
      <3> HIDE DEF e, v
      <3>3. AccFrom(y.acc, [y.acc EXCEPT !.refused = e])
        BY <3>1, <3>2, Accounts
      <3> QED BY <1>1, <3>3 DEF AccFrom, e
    <2> HIDE DEF v, a
    <2>3. Good(x, None)
      BY <2>1, <2>2, AccPlain
    <2> HIDE DEF x
    <2>4. Good(n, None) /\ n.pjsua = None
      BY <2>3, PjsuaPlain
    <2> HIDE DEF n
    <2> QED BY <1>2, <1>5, <2>4
  <1> QED BY <1>3, <1>4, <1>5

\* The reference is given back, but not the last one.
LEMMA SetGivesBack ==
    ASSUME NEW w, NEW t, NEW p, NEW r, NEW y, Good(w, p), t \in Thread,
           TopIs(w, t, "set", {"sent"}), p \in {t, None}, r = Last(w.stk[t]).r,
           Writes(w, y, r, Fewer(w.reg[r])), y.net = w.net
    PROVE  Good(Pop(y, t), After(t, w.stk[t]))
  <1> DEFINE s == w.stk[t]
             g == Last(s)
             h == <<t, Len(s)>>
             z == Fewer(w.reg[r])
             p2 == After(t, s)
             n == Pop(y, t)
             pcs == {"sent"}
  <1>1. /\ g \in FrameType /\ g.fn = "set" /\ g.pc = "sent" /\ r \in Regc
        /\ TopAt(w, t, h, g) /\ s # <<>> /\ g.r = r
        /\ TopIs(w, t, "set", pcs) /\ pcs \subseteq {"sent", "flag"}
    <2>1. TopIs(w, t, "set", pcs) /\ pcs \subseteq {"sent", "flag"} /\ g.pc = "sent"
      BY DEF TopIs
    <2> HIDE DEF pcs
    <2> QED BY <2>1, SetTop
  <1>2. Holding(g) /\ ~Asking(g) /\ In("firm", g)
    BY <1>1, HoldingFrame DEF Holding
  <1>3. FewerFrom(w.reg[r], z)
    BY <1>1, <1>2, OneUser, FewerIs
  <1> HIDE DEF z, pcs
  <1>4. Closes(w, y, n, t, <<t, Len(s)>>, g, p, p2)
    BY <1>1, SetCloses DEF Writes
  <1>5. About(g, r) /\ About(Blank, r)
    BY <1>1, AboutOwn, BlankIs
  <1> HIDE DEF n, g, h, s, p2
  <1>6. /\ Moves(w, n, t, h, g, Blank) /\ Orderly(w, n, t, h, g, Blank, p, p2)
        /\ n.reg = y.reg /\ n.acc = y.acc /\ n.net = y.net
    BY <1>4 DEF Closes, h, s
  <1>7. Ground(w, n, t, h, g, Blank, r, z, p, p2)
    BY <1>5, <1>6, WriteGround DEF z
  <1>9. ~In("use", Blank) /\ ~Asking(Blank)
    BY BlankNone, NoClassAre
  <1>10. Good(n, p2)
    BY <1>1, <1>2, <1>3, <1>6, <1>7, <1>9, Releases DEF FewerFrom
  <1> QED BY <1>10 DEF n, p2, s

\* It was the last one.
LEMMA SetGivesLast ==
    ASSUME NEW w, NEW t, NEW p, NEW r, NEW y, Good(w, p), t \in Thread,
           TopIs(w, t, "set", {"sent"}), p \in {t, None}, r = Last(w.stk[t]).r,
           Writes(w, y, r, Fewer(w.reg[r])), y.net = w.net
    PROVE  Good(Put(y, t, WithPc(Last(w.stk[t]), "flag")), t)
  <1> DEFINE s == w.stk[t]
             g == Last(s)
             h == <<t, Len(s)>>
             z == Fewer(w.reg[r])
             f == WithPc(g, "flag")
             n == Put(y, t, f)
             pcs == {"sent"}
             a == Turned(s, f)
  <1>1. /\ g \in FrameType /\ g.fn = "set" /\ g.pc = "sent" /\ r \in Regc
        /\ TopAt(w, t, h, g) /\ s # <<>> /\ g.r = r /\ Stack(s) /\ Mild(s)
        /\ w \in WorldType /\ Fits(g, Len(s), Under(s, Len(s)))
    <2>1. TopIs(w, t, "set", pcs) /\ pcs \subseteq {"sent", "flag"} /\ g.pc = "sent"
      BY DEF TopIs
    <2> HIDE DEF pcs
    <2> QED BY <2>1, SetTop
  <1>2. Holding(g) /\ ~Asking(g) /\ In("firm", g)
    BY <1>1, HoldingFrame DEF Holding
  <1>3. FewerFrom(w.reg[r], z)
    BY <1>1, <1>2, OneUser, FewerIs
  <1>4. f \in FrameType /\ f.fn = "set" /\ f.pc = "flag" /\ f.r = r
    BY <1>1, WithPcIs DEF Pcs
  <1> HIDE DEF z, pcs, f
  <1>5. y \in WorldType /\ y.stk = w.stk
    BY DEF Writes
  <1>6. OnlyStk(y, n, t, a)
    BY <1>1, <1>4, <1>5, PutIs
  <1>7. Stack(a) /\ a # <<>> /\ Last(a) = f
    <2>1. Fits(f, Len(s), Under(s, Len(s)))
      <3> HIDE DEF g, s
      <3> QED BY <1>1, <1>4 DEF Fits
    <2>2. s \in Seq(FrameType)
      BY <1>1 DEF Stack
    <2> QED BY <1>1, <1>4, <2>1, <2>2, StackTurn, TurnedFacts
  <1>8. n.stk = Swap(w.stk, t, a) /\ n.stk[t] = a /\ n \in WorldType
    BY <1>1, <1>5, <1>6, ThisStacks DEF OnlyStk
  <1>9. Moves(w, n, t, h, g, f)
    BY <1>1, <1>4, <1>8 DEF Moves
  <1>10. Owns(w, n, t, p, t)
    <2>1. Flagging(a)
      BY <1>4, <1>7 DEF Flagging
    <2> HIDE DEF a, n
    <2> QED BY <1>8, <2>1 DEF Owns
  <1>11. Orderly(w, n, t, h, g, f, p, t)
    <2>1. Meek(f)
      BY <1>4 DEF Meek
    <2> QED BY <1>1, <1>7, <1>8, <1>10, <2>1 DEF Orderly
  <1>12. About(g, r) /\ About(f, r)
    BY <1>1, <1>4, AboutOwn
  <1>13. n.reg = y.reg /\ n.acc = y.acc /\ n.net = y.net
    BY <1>6 DEF OnlyStk
  <1> HIDE DEF n, g, h, s, a
  <1>14. Ground(w, n, t, h, g, f, r, z, p, t)
    BY <1>9, <1>11, <1>12, <1>13, WriteGround DEF z
  <1>15. ~In("use", f) /\ ~Asking(f)
    BY <1>4, NoClassFrame, NoClassAre
  <1>16. Good(n, t)
    BY <1>1, <1>2, <1>3, <1>13, <1>14, <1>15, Releases DEF FewerFrom
  <1> QED BY <1>16 DEF n, f, g, s

\* PJSUA_LOCK is the thread's, or free.
LEMMA LockFree ==
    ASSUME NEW t, MayLock(t)
    PROVE  pjsua \in {t, None}
  BY DEF MayLock

\* pjsua_acc_set_registration takes PJSUA_LOCK again and gives back its
\* reference.
LEMMA SetSentKeeps ==
    ASSUME Inv, NEW t \in Thread, SetSent(t)
    PROVE  Inv'
  <1> DEFINE g == Last(World.stk[t])
             r == g.r
             z == Fewer(World.reg[r])
             x == WithReg(World, r, z)
             y == WithPjsua(x, t)
             a == Put(y, t, WithPc(g, "flag"))
             b == EndSet(y, t)
             pcs == {"sent"}
  <1>1. Good(World, pjsua) /\ pjsua \in {t, None}
    BY LockFree DEF Inv, SetSent
  <1>2. TopIs(World, t, "set", {"sent"})
    BY AtTop DEF SetSent
  <1>3. /\ g \in FrameType /\ r \in Regc /\ World.stk[t] # <<>> /\ g.fn = "set"
        /\ g.pc = "sent"
    <2>1. TopIs(World, t, "set", pcs) /\ pcs \subseteq {"sent", "flag"}
          /\ \A e \in pcs : e = "sent"
      BY <1>2
    <2> HIDE DEF pcs
    <2> QED BY <1>1, <2>1, SetTop
  <1>4. FewerFrom(World.reg[r], z)
    <2>1. In("firm", g)
      BY <1>3 DEF In
    <2> QED BY <1>1, <1>3, <2>1, OneUser, FewerIs
  <1>5. /\ Writes(World, y, r, z) /\ y \in WorldType /\ y.stk = World.stk
        /\ y.pjsua = t /\ y.net = World.net
    <2> HIDE DEF z
    <2>1. Written(World, x, r, z)
      BY <1>1, <1>3, <1>4, SessionWritten DEF FewerFrom
    <2> HIDE DEF x
    <2> QED BY <2>1, PjsuaWrites DEF Written
  <1>6. Goto(y, t, "flag") = a
    BY <1>5 DEF Goto, WithPc
  <1>7. Become(a) \/ Become(b)
    <2>1. Become(Goto(y, t, "flag")) \/ Become(b)
      BY WorldIs DEF SetSent, Top, Fewer
    <2> QED BY <1>6, <2>1
  <1>8. a.pjsua = t
    <2>1. WithPc(g, "flag") \in FrameType
      BY <1>3, WithPcIs DEF Pcs
    <2> HIDE DEF y
    <2> QED BY <1>3, <1>5, <2>1, PutIs DEF OnlyStk
  <1> HIDE DEF y
  <1>9. Good(a, t)
    BY <1>1, <1>2, <1>5, SetGivesLast
  <1>10. Good(b, b.pjsua)
    <2>1. Good(Pop(y, t), After(t, World.stk[t]))
      BY <1>1, <1>2, <1>5, SetGivesBack
    <2>2. TopIs(World, t, "set", pcs) /\ pcs \subseteq {"sent", "flag"}
      BY <1>2
    <2> HIDE DEF pcs
    <2> QED BY <1>1, <1>5, <2>1, <2>2, SetReturns
  <1> HIDE DEF a, b
  <1> QED BY <1>7, <1>8, <1>9, <1>10, Becomes

\* It destroys the session if it is marked.
LEMMA SetFlagKeeps ==
    ASSUME Inv, NEW t \in Thread, SetFlag(t)
    PROVE  Inv'
  <1> DEFINE g == Last(World.stk[t])
             r == g.r
             x == IF World.reg[r].live /\ World.reg[r].delete_flag
                  THEN WithReg(World, r, Destroy(World.reg[r])) ELSE World
             n == EndSet(x, t)
             pcs == {"flag"}
  <1>1. Good(World, pjsua)
    BY DEF Inv
  <1>2. TopIs(World, t, "set", pcs) /\ pcs \subseteq {"sent", "flag"}
        /\ g.pc = "flag"
    <2>1. At(t, "set", "flag") /\ "flag" \in pcs
      BY DEF SetFlag
    <2>2. TopIs(World, t, "set", pcs)
      <3> HIDE DEF pcs
      <3> QED BY <2>1, AtTop
    <2>3. g.pc = "flag"
      BY <2>1, WorldIs DEF At, Top
    <2> QED BY <2>2, <2>3
  <1>3. Become(n)
    BY WorldIs DEF SetFlag, Top
  <1> HIDE DEF pcs
  <1>4. /\ g \in FrameType /\ r \in Regc /\ World.stk[t] # <<>> /\ g.fn = "set"
        /\ Mild(World.stk[t])
    BY <1>1, <1>2, SetTop
  <1>5. pjsua = t
    <2>1. Flagging(World.stk[t])
      BY <1>2, <1>4 DEF Flagging
    <2> QED BY <1>1, <2>1 DEF Good, Owned
  <1>6. Tells(World, x, pjsua)
    <2>1. ~World.reg[r].lock
      BY <1>1, <1>4, <1>5, Unlocked
    <2>2. Tells(World, World, pjsua)
      BY <1>1 DEF Tells
    <2> HIDE DEF r
    <2> QED BY <1>1, <1>4, <2>1, <2>2, Reaped
  <1> HIDE DEF x
  <1>7. /\ Good(x, t) /\ x.stk = World.stk /\ x.pjsua = t
        /\ TopIs(x, t, "set", pcs) /\ x \in WorldType
    BY <1>2, <1>5, <1>6, WorldIs DEF Tells, TopIs, Good
  <1>8. Good(Pop(x, t), After(t, x.stk[t]))
    <2> DEFINE p2 == After(t, x.stk[t])
               v == Pop(x, t)
               e == Last(x.stk[t])
    <2>1. Closes(x, x, v, t, <<t, Len(x.stk[t])>>, e, t, p2)
      BY <1>2, <1>7, SetCloses
    <2>2. NoClass(e)
      BY <1>2, <1>4, <1>7, NoClassFrame
    <2>3. \A q \in Regc : SameIn(e, Blank, q)
      BY <2>2, BlankNone, SameNone
    <2> HIDE DEF p2, v, e
    <2>4. v.acc.regc \in {x.acc.regc, None} /\ v.reg = x.reg /\ v.net = x.net
      BY <2>1 DEF Closes
    <2>5. Good(v, p2)
      BY <1>7, <2>1, <2>3, <2>4, Plain DEF Closes
    <2> QED BY <2>5 DEF v, p2
  <1>9. Good(n, n.pjsua)
    BY <1>2, <1>7, <1>8, SetReturns
  <1> HIDE DEF n
  <1> QED BY <1>3, <1>9, Becomes

-----------------------------------------------------------------------------
(* The beginning of pjsua_acc_set_registration.                            *)

\* Thread t may call it: it does nothing else, or what waits for it.
MaySet(w, t) ==
    \/ w.stk[t] = <<>>
    \/ Len(w.stk[t]) = 1 /\ Last(w.stk[t]).fn \in {"del", "retry"}
       /\ Last(w.stk[t]).pc = "sent"

\* Where pjsua_acc_set_registration is called from.
LEMMA MaySetMild ==
    ASSUME NEW w, NEW t, NEW p, Good(w, p), t \in Thread, MaySet(w, t)
    PROVE  /\ Mild(w.stk[t]) /\ Len(w.stk[t]) <= 3
           /\ w.stk[t] # <<>> => Waits(Last(w.stk[t]))
  <1>1. CASE w.stk[t] = <<>>
    <2>1. Len(<<>>) <= 3
      OBVIOUS
    <2> QED BY <1>1, <2>1 DEF Mild
  <1>2. CASE Len(w.stk[t]) = 1 /\ Last(w.stk[t]).fn \in {"del", "retry"}
             /\ Last(w.stk[t]).pc = "sent"
    BY <1>2 DEF Mild, Waits
  <1> QED BY <1>1, <1>2 DEF MaySet

\* Its frame fits there.
LEMMA SetMounted ==
    ASSUME NEW w, NEW t, NEW p, NEW f, Good(w, p), t \in Thread, MaySet(w, t),
           f \in FrameType, f.fn = "set", f.pc = "sent", f.r # None
    PROVE  Mounted(w, t, f)
  <1> DEFINE s == w.stk[t]
  <1>1. Mild(s) /\ Len(s) <= 3 /\ (s # <<>> => Waits(Last(s)))
    BY MaySetMild
  <1>2. Meek(f) /\ Calm(f) /\ Fits(f, 1, f)
    BY DEF Meek, Calm, Fits
  <1>3. s # <<>> => Fits(f, Len(s) + 1, Last(s))
    <2> DEFINE k == Len(s)
               b == Last(s)
    <2>1. s # <<>> => k = 1 /\ b.fn \in {"del", "retry"}
      BY DEF MaySet
    <2> HIDE DEF k, b, s
    <2>2. s # <<>> => Fits(f, k + 1, b)
      BY <2>1 DEF Fits
    <2> QED BY <2>2 DEF k, b
  <1> HIDE DEF s
  <1>4. f \in FrameType /\ Len(s) <= 3 /\ Meek(f) /\ Calm(f)
        /\ (s # <<>> => Waits(Last(s)) /\ Fits(f, Len(s) + 1, Last(s)))
        /\ (s = <<>> => Fits(f, 1, f))
    BY <1>1, <1>2, <1>3
  <1> QED BY <1>4 DEF Mounted, s

\* The session with a reference for the call.
LEMMA SetSession ==
    ASSUME NEW s, s \in SessionType, s.live, ~s.delete_flag
    PROVE  LET z == AddRef(CancelTimer(s))
           IN /\ z \in SessionType /\ z.live = s.live /\ z.busy = s.busy + 1
              /\ z.has_tsx = s.has_tsx /\ z.cseq = s.cseq /\ z.lock = s.lock
              /\ ~z.delete_flag
  <1> DEFINE y == CancelTimer(s)
             z == AddRef(y)
  <1>1. Minor(s, y)
    BY Minors
  <1> HIDE DEF y
  <1>2. y \in SessionType
    BY <1>1 DEF Minor
  <1>3. /\ z \in SessionType /\ z.live = y.live /\ z.busy = y.busy + 1
        /\ z.has_tsx = y.has_tsx /\ z.cseq = y.cseq /\ z.lock = y.lock
        /\ z.delete_flag = y.delete_flag
    BY <1>2, AddRefIs
  <1> HIDE DEF z
  <1> QED BY <1>1, <1>3 DEF Minor, Agrees, y, z

\* A new session, with its first reference.
LEMMA NewSession ==
    LET z == AddRef(NewRegc)
    IN /\ z \in SessionType /\ z.live /\ z.busy = 1 /\ ~z.has_tsx
       /\ z.cseq = <<>> /\ ~z.lock /\ ~z.delete_flag
  <1> DEFINE y == NewRegc
             z == AddRef(y)
  <1>1. /\ y \in SessionType /\ y.live /\ y.busy = 0 /\ ~y.has_tsx
        /\ y.cseq = <<>> /\ ~y.lock /\ ~y.delete_flag
    BY DEF NewRegc, SessionType
  <1> HIDE DEF y
  <1>2. /\ z \in SessionType /\ z.live = y.live /\ z.busy = y.busy + 1
        /\ z.has_tsx = y.has_tsx /\ z.cseq = y.cseq /\ z.lock = y.lock
        /\ z.delete_flag = y.delete_flag
    BY <1>1, AddRefIs
  <1> HIDE DEF z
  <1> QED BY <1>1, <1>2 DEF y, z

\* The account with the session.
LEMMA AccSet ==
    ASSUME NEW a, NEW r \in Regc, a \in AccType
    PROVE  LET b == [a EXCEPT !.regc = r, !.retry = FALSE]
           IN b \in AccType /\ b.regc = r
  BY DEF AccType

\* From world w, with session r of which becomes z and account a.
SetWorld(w, t, r, z, a, u) ==
    LET v == WithAcc(WithReg(w, r, z), a)
    IN Push(Push(v, t, Frame("set", "sent", r, u)), t, Frame("send", "start", r, u))

\* The two frames are put on the stack, whatever came of the session.
LEMMA SetSends ==
    ASSUME NEW w, NEW t, NEW p, NEW r, NEW u \in BOOLEAN, NEW v, NEW f, NEW s,
           NEW h, NEW g, NEW z, t \in Thread, r \in Regc,
           f = Frame("set", "sent", r, u), v \in WorldType, v.stk = w.stk,
           v.pjsua = w.pjsua, s = w.stk[t], s \in Seq(FrameType), w \in WorldType,
           Good(Push(v, t, f), p)
    PROVE  Kept(w, Push(Push(v, t, f), t, Frame("send", "start", r, u)), p)
  <1> DEFINE m == Push(v, t, f)
             n == Push(m, t, Frame("send", "start", r, u))
  <1>1. f \in FrameType /\ f.fn = "set" /\ f.pc = "sent" /\ f.r = r
    BY FrameIs DEF Fns, Pcs
  <1>2. m.stk[t] = Append(s, f) /\ m.pjsua = w.pjsua
    <2>1. OnlyStk(v, m, t, Append(v.stk[t], f))
      BY <1>1, PushIs
    <2>2. \A e : Swap(w.stk, t, e)[t] = e
      BY ThisStacks
    <2> HIDE DEF m
    <2> QED BY <2>1, <2>2 DEF OnlyStk
  <1>3. Append(s, f) # <<>> /\ Last(Append(s, f)) = f
    BY <1>1, AppendFacts
  <1> HIDE DEF m
  <1>4. Kept(m, n, p)
    <2> DEFINE fn == "set"
    <2>1. TopIs(m, t, fn, {"sent"}) /\ fn \in {"tsx", "refresh", "set"}
          /\ r = Last(m.stk[t]).r
      BY <1>1, <1>2, <1>3 DEF TopIs
    <2> HIDE DEF fn
    <2> QED BY <2>1, SendsFrom DEF m
  <1> QED BY <1>2, <1>4 DEF Kept, m

\* With the account's session.
LEMMA SetsOld ==
    ASSUME NEW w, NEW t, NEW p, NEW r, NEW u \in BOOLEAN, NEW z, NEW a,
           Good(w, p), t \in Thread, p \in {t, None}, r \in Regc, MaySet(w, t),
           w.acc.regc = r, z = AddRef(CancelTimer(w.reg[r])),
           a \in AccType, a.regc = r
    PROVE  Kept(w, SetWorld(w, t, r, z, a, u), p)
  <1> DEFINE s == w.stk[t]
             x == WithAcc(WithReg(w, r, z), a)
             f == Frame("set", "sent", r, u)
             h == <<t, Len(s) + 1>>
             m == Push(x, t, f)
  <1>1. /\ w.reg[r].live /\ ~w.reg[r].delete_flag /\ w.reg[r] \in SessionType
        /\ w \in WorldType /\ s \in Seq(FrameType) /\ r # None
    BY RegAssumption, WorldFields DEF Good, Usable, Stack
  <1>2. /\ z \in SessionType /\ z.live = w.reg[r].live /\ z.busy = w.reg[r].busy + 1
        /\ z.has_tsx = w.reg[r].has_tsx /\ z.cseq = w.reg[r].cseq
        /\ z.lock = w.reg[r].lock /\ ~z.delete_flag
    BY <1>1, SetSession
  <1>3. ~w.reg[r].lock
    BY MaySetMild, Unlocked
  <1>4. /\ Writes(w, x, r, z) /\ x \in WorldType /\ x.stk = w.stk
        /\ x.net = w.net /\ x.pjsua = w.pjsua
    <2>1. (a.regc = r => z.live /\ ~z.delete_flag) /\ a.regc \in {r, w.acc.regc, None}
      BY <1>1, <1>2
    <2> HIDE DEF x
    <2> QED BY <1>2, <2>1, RegAccWrites DEF x
  <1> HIDE DEF x
  <1>5. f \in FrameType /\ f.fn = "set" /\ f.pc = "sent" /\ f.r = r
    BY FrameIs DEF Fns, Pcs
  <1> HIDE DEF f
  <1>6. Mounted(w, t, f)
    BY <1>1, <1>5, SetMounted
  <1>7. Landed(w, x, m, t, <<t, Len(s) + 1>>, Blank, f, Append(s, f), r, z, p)
    BY <1>4, <1>5, <1>6, AboutOwn, PushGround
  <1> HIDE DEF m, h, s
  <1>8. Ground(w, m, t, h, Blank, f, r, z, p, p) /\ m.net = w.net
    BY <1>4, <1>7 DEF Landed, h
  <1>9. ~In("use", Blank) /\ ~Asking(Blank) /\ In("use", f) /\ ~Asking(f)
    BY <1>5, BlankNone, NoClassAre, HoldingFrame DEF Holding
  <1>10. Good(m, p)
    BY <1>1, <1>2, <1>3, <1>5, <1>8, <1>9, Refers
  <1>11. Kept(w, Push(m, t, Frame("send", "start", r, u)), p)
    BY <1>1, <1>4, <1>10, SetSends DEF m, f, s
  <1> QED BY <1>11 DEF SetWorld, m, f, x

\* With a new one.
LEMMA SetsNew ==
    ASSUME NEW w, NEW t, NEW p, NEW r, NEW u \in BOOLEAN, NEW z, NEW a,
           Good(w, p), t \in Thread, p \in {t, None}, r \in Regc, MaySet(w, t),
           Untouched(w, r), z = AddRef(NewRegc), a \in AccType, a.regc = r
    PROVE  Kept(w, SetWorld(w, t, r, z, a, u), p)
  <1> DEFINE s == w.stk[t]
             x == WithAcc(WithReg(w, r, z), a)
             f == Frame("set", "sent", r, u)
             h == <<t, Len(s) + 1>>
             m == Push(x, t, f)
  <1>1. /\ w.reg[r] \in SessionType
        /\ w \in WorldType /\ s \in Seq(FrameType) /\ r # None
    BY RegAssumption, WorldFields DEF Good, Stack
  <1>2. /\ z \in SessionType /\ z.live /\ z.busy = 1 /\ ~z.has_tsx
        /\ z.cseq = <<>> /\ ~z.lock /\ ~z.delete_flag
    BY NewSession
  <1>3. ~w.reg[r].lock
    BY MaySetMild, Unlocked
  <1>12. z.lock = w.reg[r].lock
    BY <1>1, <1>2, <1>3 DEF SessionType
  <1>4. /\ Writes(w, x, r, z) /\ x \in WorldType /\ x.stk = w.stk
        /\ x.net = w.net /\ x.pjsua = w.pjsua
    BY <1>1, <1>2, <1>12, RegAccWrites
  <1> HIDE DEF x
  <1>5. f \in FrameType /\ f.fn = "set" /\ f.pc = "sent" /\ f.r = r
    BY FrameIs DEF Fns, Pcs
  <1> HIDE DEF f
  <1>6. Mounted(w, t, f)
    BY <1>1, <1>5, SetMounted
  <1>7. Landed(w, x, m, t, <<t, Len(s) + 1>>, Blank, f, Append(s, f), r, z, p)
    BY <1>4, <1>5, <1>6, AboutOwn, PushGround
  <1> HIDE DEF m, h, s
  <1>8. Ground(w, m, t, h, Blank, f, r, z, p, p) /\ m.net = w.net
    BY <1>4, <1>7 DEF Landed, h
  <1>9. ~In("use", Blank) /\ ~Asking(Blank) /\ Holding(f) /\ ~Asking(f)
    BY <1>5, BlankNone, NoClassAre, HoldingFrame
  <1>10. Good(m, p)
    BY <1>1, <1>2, <1>3, <1>5, <1>8, <1>9, Creates
  <1>11. Kept(w, Push(m, t, Frame("send", "start", r, u)), p)
    BY <1>1, <1>4, <1>10, SetSends DEF m, f, s
  <1> QED BY <1>11 DEF SetWorld, m, f, x

\* Session r is the account's, or one nothing has to do with.
Aims(w, r) ==
    r \in Regc /\ (w.acc.regc = r \/ (w.acc.regc = None /\ Untouched(w, r)))

\* pjsua_acc_set_registration up to the call of pjsip_regc_send.
LEMMA BeginSetKept ==
    ASSUME NEW w, NEW t, NEW p, NEW r, NEW renew \in BOOLEAN, Good(w, p),
           t \in Thread, p \in {t, None}, MaySet(w, t), Aims(w, r)
    PROVE  Kept(w, BeginSet(w, t, r, renew), p)
  <1> DEFINE a == [w.acc EXCEPT !.regc = r, !.retry = FALSE]
             old == AddRef(CancelTimer(w.reg[r]))
             new == AddRef(NewRegc)
             u == ~renew
  <1>1. r \in Regc /\ r # None /\ w \in WorldType
    BY RegAssumption DEF Aims, Good
  <1>2. a \in AccType /\ a.regc = r
    BY <1>1, WorldFields, AccSet
  <1>3. BeginSet(w, t, r, renew)
           = SetWorld(w, t, r, IF w.acc.regc = None THEN new ELSE old, a, u)
    BY DEF BeginSet, SetWorld
  <1>4. u \in BOOLEAN
    OBVIOUS
  <1> HIDE DEF a, old, new, u
  <1>5. CASE w.acc.regc = r
    <2>1. Kept(w, SetWorld(w, t, r, old, a, u), p)
      BY <1>1, <1>2, <1>4, <1>5, SetsOld DEF old
    <2> QED BY <1>1, <1>3, <1>5, <2>1
  <1>6. CASE w.acc.regc = None /\ Untouched(w, r)
    <2>1. Kept(w, SetWorld(w, t, r, new, a, u), p)
      BY <1>1, <1>2, <1>4, <1>6, SetsNew DEF new
    <2> QED BY <1>3, <1>6, <2>1
  <1> QED BY <1>5, <1>6 DEF Aims

-----------------------------------------------------------------------------
(* The user.                                                               *)

\* Memory nothing points to has nothing to do with anybody.
LEMMA UnusedFree ==
    ASSUME NEW r, r \in Unused
    PROVE  r \in Regc /\ Untouched(World, r)
  <1>1. /\ r \in Regc /\ \A f \in Frames : f.r # r
        /\ \A q \in net : q.r # r
    BY DEF Unused
  <1>2. Sent(World.net, r) = {}
    BY <1>1, WorldIs DEF Sent
  <1>3. ASSUME NEW c PROVE Places(World.stk, c, r) = {}
    <2>1. SUFFICES ASSUME NEW h \in Places(stk, c, r)
                   PROVE  FALSE
      BY WorldIs
    <2>2. h[1] \in Thread /\ h[2] \in 1..Len(stk[h[1]]) /\ stk[h[1]][h[2]].r = r
      BY DEF Places, Spots
    <2>3. h[2] \in DOMAIN stk[h[1]] \/ h[2] \notin DOMAIN stk[h[1]]
      OBVIOUS
    <2> QED BY <1>1, <2>2 DEF Frames
  <1> QED BY <1>1, <1>2, <1>3 DEF Untouched

\* What has nothing to do with a session does not touch it.
LEMMA UntouchedKept ==
    ASSUME NEW w, NEW n, NEW t, NEW h, NEW g, NEW f, NEW r, Moves(w, n, t, h, g, f),
           NoClass(g), NoClass(f), n.net = w.net, Untouched(w, r)
    PROVE  Untouched(n, r)
  <1>1. \A c \in Classes : Places(n.stk, c, r) = Places(w.stk, c, r)
    BY KeepsOthers DEF NoClass
  <1> QED BY <1>1, ClassesAre DEF Untouched

\* PJSUA_LOCK changes hands with a frame that has to do with no session.
LEMMA TakesOver ==
    ASSUME NEW w, NEW n, NEW t, NEW h, NEW g, NEW f, NEW p, NEW p2, Good(w, p),
           Moves(w, n, t, h, g, f), NoClass(g), NoClass(f), n.reg = w.reg,
           n.acc = w.acc, n.net = w.net, Stack(n.stk[t]), Mild(w.stk[t]), Meek(f),
           p \in {t, None}, p2 \in {t, None},
           Based(n.stk[t]) \/ Flagging(n.stk[t]) <=> p2 = t
    PROVE  Good(n, p2)
  <1>1. t \in Thread
    BY DEF Moves
  <1>2. Orderly(w, n, t, h, g, f, p, p2)
    BY <1>1 DEF Orderly, Owns
  <1>3. \A r \in Regc : SameIn(g, f, r)
    BY SameNone
  <1> QED BY <1>2, <1>3, Plain

\* A session to use is the account's or unused.
LEMMA Targets ==
    ASSUME NEW renew, NEW n, Target(renew) # None, n.acc = acc,
           \A r : Untouched(World, r) => Untouched(n, r), acc.regc \in Regc \cup {None}
    PROVE  Aims(n, Target(renew))
  <1>1. CASE acc.regc # None
    BY <1>1 DEF Target, Aims
  <1>2. CASE acc.regc = None
    <2>1. Target(renew) \in Unused
      BY <1>2 DEF Target
    <2> QED BY <1>2, <2>1, UnusedFree DEF Aims
  <1> QED BY <1>1, <1>2

\* pjsua_acc_set_registration, from a world like the present one.
LEMMA SetKept ==
    ASSUME NEW n, NEW t, NEW p, NEW renew \in BOOLEAN, Good(n, p), t \in Thread,
           p \in {t, None}, n.stk[t] = <<>>, n.acc = acc,
           \A r : Untouched(World, r) => Untouched(n, r)
    PROVE  Kept(n, Set(n, t, renew), p)
  <1> DEFINE a == [n.acc EXCEPT !.retry = FALSE, !.refused = TRUE]
             x == WithAcc(n, a)
  <1>1. n.acc \in AccType
    BY WorldFields DEF Good
  <1>2. CASE Target(renew) = None
    <2> DEFINE yes == TRUE
    <2>1. AccFrom(n.acc, a)
      <3>1. yes \in BOOLEAN
        OBVIOUS
      <3> HIDE DEF yes
      <3> QED BY <1>1, <3>1, Accounts
    <2>2. Tells(n, x, p)
      BY <2>1, TellsOnly
    <2> HIDE DEF x
    <2>3. Kept(n, x, p)
      BY <2>2 DEF Tells, Kept
    <2> QED BY <1>2, <2>3 DEF Set, x
  <1>3. CASE Target(renew) # None
    <2>1. acc.regc \in Regc \cup {None}
      BY <1>1 DEF AccType
    <2>2. Aims(n, Target(renew))
      BY <1>3, <2>1, Targets
    <2>3. MaySet(n, t)
      BY DEF MaySet
    <2>4. Kept(n, BeginSet(n, t, Target(renew), renew), p)
      BY <2>2, <2>3, BeginSetKept
    <2> QED BY <1>3, <2>4 DEF Set
  <1> QED BY <1>2, <1>3

\* The user registers or unregisters.
LEMMA SetRegistrationKeeps ==
    ASSUME Inv, NEW t \in Thread, NEW renew \in BOOLEAN, SetRegistration(t, renew)
    PROVE  Inv'
  <1> DEFINE n == Set(World, t, renew)
  <1>1. Good(World, pjsua) /\ pjsua \in {t, None}
    BY LockFree DEF Inv, SetRegistration
  <1>2. Become(n) /\ World.stk[t] = <<>> /\ World.acc = acc
    BY WorldIs DEF SetRegistration, Idle
  <1> HIDE DEF n
  <1>3. Kept(World, n, pjsua)
    BY <1>1, <1>2, SetKept DEF n
  <1> QED BY <1>2, <1>3, KeptNext

\* pjsua_acc_add registers, if the account is still there.
LEMMA SetBeginKeeps ==
    ASSUME Inv, NEW t \in Thread, SetBegin(t)
    PROVE  Inv'
  <1> DEFINE g == Last(World.stk[t])
             v == Pop(World, t)
             yes == TRUE
             n == Set(v, t, yes)
             h == <<t, Len(World.stk[t])>>
             p == pjsua
  <1>1. Good(World, p) /\ p \in {t, None} /\ World \in WorldType
    BY LockFree DEF Inv, SetBegin, Good
  <1>2. World.stk[t] # <<>> /\ g.fn = "set" /\ g.pc = "begin"
    BY WorldIs DEF SetBegin, At, Top, Idle
  <1>3. Become(n) \/ Become(v)
    BY DEF SetBegin
  <1>4. NoClass(g) /\ Calm(g) /\ Mild(World.stk[t])
    BY <1>2, NoClassFrame DEF Calm, Mild
  <1>5. Lands(World, World, v, t, h, g, Blank, Front(World.stk[t]), p)
    BY <1>1, <1>2, <1>4, PopMoves
  <1>6. Moved(World, v, t, Front(World.stk[t]), p)
    BY <1>1, <1>2, <1>4, PopPlain
  <1>7. v.stk[t] = <<>>
    <2>1. Stack(World.stk[t]) /\ Fits(g, Len(World.stk[t]), Under(World.stk[t], Len(World.stk[t])))
      BY <1>1, <1>2, TopFacts
    <2>2. Len(World.stk[t]) = 1
      <3> DEFINE k == Len(World.stk[t])
                 b == Under(World.stk[t], k)
      <3>1. Fits(g, k, b)
        BY <2>1
      <3> HIDE DEF k, b, g
      <3>2. k = 1
        BY <1>2, <3>1 DEF Fits
      <3> QED BY <3>2 DEF k
    <2>3. Front(World.stk[t]) = <<>>
      BY <1>2, <2>1, <2>2, StackPop
    <2> HIDE DEF v
    <2> QED BY <1>6, <2>3 DEF Moved
  <1> HIDE DEF v, g, h, p
  <1>8. \A r : Untouched(World, r) => Untouched(v, r)
    <2>1. Moves(World, v, t, h, g, Blank) /\ v.net = World.net
      BY <1>5 DEF Lands
    <2> QED BY <1>4, <2>1, BlankNone, UntouchedKept
  <1>9. Good(v, p) /\ v.acc = acc /\ v.pjsua = World.pjsua
    BY <1>6, WorldIs DEF Moved
  <1>10. yes \in BOOLEAN
    OBVIOUS
  <1> HIDE DEF yes
  <1>11. Kept(v, n, p)
    BY <1>1, <1>7, <1>8, <1>9, <1>10, SetKept
  <1>12. Kept(World, n, p) /\ Kept(World, v, p)
    BY <1>9, <1>11 DEF Kept
  <1> HIDE DEF n
  <1> QED BY <1>3, <1>12, KeptNext DEF p

\* The user adds the account.
LEMMA AccAddKeeps ==
    ASSUME Inv, NEW t \in Thread, AccAdd(t)
    PROVE  Inv'
  <1> DEFINE a == [World.acc EXCEPT !.valid = TRUE]
             x == WithAcc(World, a)
             f == Frame("set", "begin", None, FALSE)
             n == Push(x, t, f)
             no == FALSE
  <1>1. Good(World, pjsua) /\ World.acc \in AccType
    BY WorldFields DEF Inv, Good
  <1>2. Become(n) /\ World.stk[t] = <<>>
    BY WorldIs DEF AccAdd, Idle
  <1>3. no \in BOOLEAN
    OBVIOUS
  <1>4. AccFrom(World.acc, a)
    <2> HIDE DEF no
    <2> QED BY <1>1, <1>3, Accounts
  <1> HIDE DEF a
  <1>5. Tells(World, x, pjsua)
    BY <1>1, <1>4, TellsOnly
  <1> HIDE DEF x
  <1>6. Good(x, pjsua) /\ x.stk[t] = <<>> /\ x.pjsua = World.pjsua
    BY <1>2, <1>5 DEF Tells
  <1>7. f \in FrameType /\ f.pc = "begin" /\ f.fn = "set" /\ f.r = None
    <2> HIDE DEF no
    <2>1. LET e == Frame("set", "begin", None, no)
          IN e \in FrameType /\ e.pc = "begin" /\ e.fn = "set" /\ e.r = None
      BY <1>3, FrameIs DEF Fns, Pcs
    <2> QED BY <2>1 DEF no
  <1> HIDE DEF f
  <1>8. Mounted(x, t, f) /\ NoClass(f)
    <2>1. Meek(f) /\ Calm(f) /\ Fits(f, 1, f) /\ NoClass(f)
      BY <1>7, NoClassFrame DEF Meek, Calm, Fits
    <2>2. Len(<<>>) <= 3
      OBVIOUS
    <2> QED BY <1>6, <1>7, <2>1, <2>2 DEF Mounted
  <1>9. Moved(x, n, t, Append(x.stk[t], f), pjsua)
    BY <1>6, <1>8, PushPlain
  <1> HIDE DEF n
  <1>10. Kept(World, n, pjsua)
    BY <1>6, <1>9 DEF Moved, Kept
  <1> QED BY <1>2, <1>10, KeptNext

\* The retry timer pops.
LEMMA PopRetryKeeps ==
    ASSUME Inv, NEW t \in Thread, PopRetry(t)
    PROVE  Inv'
  <1> DEFINE a == [World.acc EXCEPT !.retry = FALSE]
             x == WithAcc(World, a)
             f == Frame("retry", "begin", None, FALSE)
             n == Push(x, t, f)
             no == FALSE
  <1>1. Good(World, pjsua) /\ World.acc \in AccType
    BY WorldFields DEF Inv, Good
  <1>2. Become(n) /\ World.stk[t] = <<>>
    BY WorldIs DEF PopRetry, Idle
  <1>3. no \in BOOLEAN
    OBVIOUS
  <1>4. AccFrom(World.acc, a)
    <2> HIDE DEF no
    <2> QED BY <1>1, <1>3, Accounts
  <1> HIDE DEF a
  <1>5. Tells(World, x, pjsua)
    BY <1>1, <1>4, TellsOnly
  <1> HIDE DEF x
  <1>6. Good(x, pjsua) /\ x.stk[t] = <<>> /\ x.pjsua = World.pjsua
    BY <1>2, <1>5 DEF Tells
  <1>7. f \in FrameType /\ f.pc = "begin" /\ f.fn = "retry" /\ f.r = None
    <2> HIDE DEF no
    <2>1. LET e == Frame("retry", "begin", None, no)
          IN e \in FrameType /\ e.pc = "begin" /\ e.fn = "retry" /\ e.r = None
      BY <1>3, FrameIs DEF Fns, Pcs
    <2> QED BY <2>1 DEF no
  <1> HIDE DEF f
  <1>8. Mounted(x, t, f) /\ NoClass(f)
    <2>1. Meek(f) /\ Calm(f) /\ Fits(f, 1, f) /\ NoClass(f)
      BY <1>7, NoClassFrame DEF Meek, Calm, Fits
    <2>2. Len(<<>>) <= 3
      OBVIOUS
    <2> QED BY <1>6, <1>7, <2>1, <2>2 DEF Mounted
  <1>9. Moved(x, n, t, Append(x.stk[t], f), pjsua)
    BY <1>6, <1>8, PushPlain
  <1> HIDE DEF n
  <1>10. Kept(World, n, pjsua)
    BY <1>6, <1>9 DEF Moved, Kept
  <1> QED BY <1>2, <1>10, KeptNext

WithTransport(s) == [s EXCEPT !.transport = FALSE]

\* The transport is lost.
LEMMA TransportDownKeeps ==
    ASSUME Inv, NEW t \in Thread, TransportDown(t)
    PROVE  Inv'
  <1> DEFINE r == World.acc.regc
             z == WithTransport(World.reg[r])
             x == WithReg(World, r, z)
             a == ScheduleReregistration(World.acc)
             n == WithAcc(x, a)
  <1>1. Good(World, pjsua) /\ World.acc \in AccType /\ World \in WorldType
    BY WorldFields DEF Inv, Good
  <1>2. Become(n) /\ World.stk[t] = <<>> /\ r # None
    BY WorldIs DEF TransportDown, Idle, WithTransport
  <1>3. r \in Regc /\ World.reg[r] \in SessionType
    BY <1>1, <1>2, WorldFields DEF AccType
  <1>4. Minor(World.reg[r], z) /\ z \in SessionType
    BY <1>3 DEF Minor, Agrees, WithTransport, SessionType
  <1> HIDE DEF z
  <1>5. Tells(World, x, pjsua) /\ x.acc = World.acc
    <2>1. Mild(World.stk[t])
      BY <1>2 DEF Mild
    <2>2. x.acc = World.acc
      BY <1>1, <1>3, <1>4, WithRegIs
    <2> HIDE DEF r, x
    <2> QED BY <1>1, <1>3, <1>4, <2>1, <2>2, MinorTells DEF x
  <1>6. AccFrom(x.acc, a)
    <2> DEFINE no == FALSE
    <2>1. no \in BOOLEAN
      OBVIOUS
    <2> HIDE DEF no, x, a
    <2> QED BY <1>1, <1>5, <2>1, Accounts DEF a
  <1> HIDE DEF x, a
  <1>7. Good(x, pjsua) /\ x.pjsua = World.pjsua
    BY <1>5 DEF Tells
  <1>8. Tells(x, n, pjsua)
    BY <1>6, <1>7, TellsOnly
  <1> HIDE DEF n
  <1>9. Kept(World, n, pjsua)
    BY <1>7, <1>8 DEF Tells, Kept
  <1> QED BY <1>2, <1>9, KeptNext

\* A stack of one frame.
LEMMA OneFrame ==
    ASSUME NEW f, f \in FrameType, Fits(f, 1, f)
    PROVE  LET a == Append(<<>>, f)
           IN Stack(a) /\ a # <<>> /\ Len(a) = 1 /\ Last(a) = f /\ a[1] = f
  <1> DEFINE e == <<>>
             a == Append(e, f)
  <1>1. e \in Seq(FrameType) /\ Len(e) = 0 /\ e = <<>> /\ Len(e) <= 3
    OBVIOUS
  <1>2. Stack(e)
    BY <1>1 DEF Stack
  <1> HIDE DEF e
  <1>3. Stack(a)
    <2>1. /\ e # <<>> => Waits(Last(e)) /\ Fits(f, Len(e) + 1, Last(e))
          /\ e = <<>> => Fits(f, 1, f)
      BY <1>1
    <2> HIDE DEF a
    <2> QED BY <1>1, <1>2, <2>1, StackPush DEF a
  <1>4. Len(a) = 1 /\ a # <<>> /\ Last(a) = f
    <2>1. a # <<>> /\ Last(a) = f
      BY <1>1, PushEnds
    <2>2. Len(a) = Len(e) + 1
      BY <1>1
    <2> QED BY <1>1, <2>1, <2>2
  <1>5. a[1] = f
    BY <1>1, PushEnds
  <1> QED BY <1>3, <1>4, <1>5 DEF e

\* The user deletes the account, which unregisters it.
LEMMA AccDelKeeps ==
    ASSUME Inv, NEW t \in Thread, AccDel(t)
    PROVE  Inv'
  <1> DEFINE f == Frame("del", "sent", None, FALSE)
             v == Push(World, t, f)
             no == FALSE
             r == World.acc.regc
             m == BeginSet(v, t, r, no)
             n == WithPjsua(m, t)
             a == [World.acc EXCEPT !.valid = FALSE, !.retry = FALSE]
             x == WithAcc(World, a)
             p == pjsua
             s == World.stk[t]
             h == <<t, Len(s) + 1>>
  <1>1. /\ Good(World, p) /\ World.acc \in AccType /\ World \in WorldType
        /\ p \in {t, None}
    BY LockFree, WorldFields DEF Inv, Good, AccDel
  <1>2. /\ s = <<>>
        /\ IF r = None THEN Become(x) ELSE Become(n)
    BY WorldIs DEF AccDel, Idle
  <1>3. no \in BOOLEAN
    OBVIOUS
  <1>4. CASE r = None
    <2>1. AccFrom(World.acc, a)
      <3> HIDE DEF no
      <3> QED BY <1>1, <1>3, Accounts
    <2>2. Tells(World, x, p)
      BY <1>1, <2>1, TellsOnly
    <2> HIDE DEF x
    <2> QED BY <1>2, <1>4, <2>2, KeptNext DEF Tells, Kept
  <1>5. CASE r # None
    <2> HIDE DEF no
    <2>1. f \in FrameType /\ f.pc = "sent" /\ f.fn = "del" /\ f.r = None
      <3>1. LET e == Frame("del", "sent", None, no)
            IN e \in FrameType /\ e.pc = "sent" /\ e.fn = "del" /\ e.r = None
        BY <1>3, FrameIs DEF Fns, Pcs
      <3> QED BY <3>1 DEF no
    <2> HIDE DEF f
    <2>2. Stack(Append(s, f)) /\ Append(s, f) # <<>> /\ Len(Append(s, f)) = 1
          /\ Last(Append(s, f)) = f /\ Append(s, f)[1] = f
      <3>1. Fits(f, 1, f)
        BY <2>1 DEF Fits
      <3> QED BY <1>2, <2>1, <3>1, OneFrame
    <2>3. OnlyStk(World, v, t, Append(s, f))
      BY <1>1, <2>1, PushIs
    <2>4. v.stk = Swap(World.stk, t, Append(s, f)) /\ v.stk[t] = Append(s, f)
          /\ v \in WorldType /\ v.reg = World.reg /\ v.acc = World.acc
          /\ v.net = World.net
      <3>1. \A e : Swap(World.stk, t, e)[t] = e
        BY <1>1, ThisStacks
      <3> HIDE DEF v
      <3> QED BY <2>3, <3>1 DEF OnlyStk
    <2>5. Moves(World, v, t, h, Blank, f)
      <3>1. Stack(World.stk[t])
        BY <1>1 DEF Good
      <3>2. Len(<<>>) <= 3
        OBVIOUS
      <3> QED BY <1>1, <1>2, <2>1, <2>4, <3>1, <3>2 DEF Moves
    <2> HIDE DEF v, h
    <2>6. Good(v, t)
      <3>1. NoClass(f) /\ Meek(f) /\ Mild(s)
        BY <1>2, <2>1, NoClassFrame DEF Meek, Mild
      <3>2. Based(v.stk[t])
        BY <2>1, <2>2, <2>4 DEF Based
      <3> HIDE DEF p
      <3> QED BY <1>1, <2>2, <2>4, <2>5, <3>1, <3>2, BlankNone, TakesOver
    <2>7. MaySet(v, t) /\ Aims(v, r)
      <3>1. r \in Regc
        BY <1>1, <1>5 DEF AccType
      <3> QED BY <2>1, <2>2, <2>4, <3>1 DEF MaySet, Aims
    <2>8. Good(m, t)
      <3> HIDE DEF r
      <3> QED BY <1>3, <2>6, <2>7, BeginSetKept DEF Kept
    <2> HIDE DEF m
    <2>9. Good(n, t) /\ n.pjsua = t
      BY <2>8, PjsuaPlain
    <2>10. Become(n)
      BY <1>2, <1>5
    <2> HIDE DEF n
    <2> QED BY <2>9, <2>10, Becomes
  <1> QED BY <1>4, <1>5

\* The retry timer's callback.
RetryFrame(s, g, pc) ==
    /\ g \in FrameType /\ g.fn = "retry" /\ g.pc = pc /\ s # <<>>
    /\ Len(s) = 1 /\ s[1] = g /\ Stack(s) /\ Front(s) = <<>>
    /\ Mild(s) /\ NoClass(g)

\* The frame of the retry timer's callback.
LEMMA RetryTop ==
    ASSUME NEW w, NEW t, NEW p, NEW pc, Good(w, p), t \in Thread,
           TopIs(w, t, "retry", {pc})
    PROVE  RetryFrame(w.stk[t], Last(w.stk[t]), pc)
  <1> DEFINE s == w.stk[t]
             g == Last(s)
             k == Len(s)
             b == Under(s, k)
  <1>1. s # <<>> /\ g.fn = "retry" /\ g.pc = pc
    BY DEF TopIs
  <1>2. /\ g \in FrameType /\ Fits(g, k, b) /\ Stack(s) /\ w \in WorldType
    BY <1>1, TopFacts
  <1>3. Mild(s) /\ NoClass(g)
    BY <1>1, NoClassFrame DEF Mild
  <1> HIDE DEF g, k, b
  <1>4. k = 1
    BY <1>1, <1>2 DEF Fits
  <1> HIDE DEF s
  <1>5. s[1] = g /\ Front(s) = <<>>
    BY <1>1, <1>2, <1>4, PopEnds DEF k, g
  <1> QED BY <1>1, <1>2, <1>3, <1>4, <1>5 DEF g, k, s, RetryFrame

\* Its request is out, or was not sent.
LEMMA RetrySentKeeps ==
    ASSUME Inv, NEW t \in Thread, RetrySent(t)
    PROVE  Inv'
  <1> DEFINE g == Last(World.stk[t])
             s == World.stk[t]
             h == <<t, Len(s)>>
             v == Pop(World, t)
             x == WithPjsua(v, None)
             a == ScheduleReregistration(World.acc)
             n == WithAcc(x, a)
             p == pjsua
             none == None
  <1>1. /\ Good(World, p) /\ World.acc \in AccType /\ World \in WorldType
    BY WorldFields DEF Inv, Good
  <1>2. TopIs(World, t, "retry", {"sent"}) /\ (Become(x) \/ Become(n))
    BY AtTop, WorldIs DEF RetrySent
  <1>3. /\ g \in FrameType /\ g.fn = "retry" /\ g.pc = "sent" /\ s # <<>>
        /\ s[1] = g /\ Stack(s) /\ Front(s) = <<>> /\ Mild(s) /\ NoClass(g)
    <2> DEFINE pc == "sent"
    <2>1. TopIs(World, t, "retry", {pc})
      BY <1>2
    <2> HIDE DEF pc
    <2>2. RetryFrame(s, g, pc)
      BY <1>1, <2>1, RetryTop
    <2> QED BY <2>2 DEF pc, RetryFrame
  <1>4. p = t
    <2>1. Based(s)
      BY <1>3 DEF Based
    <2> QED BY <1>1, <2>1 DEF Good, Owned
  <1>5. OnlyStk(World, v, t, Front(s))
    BY <1>1, <1>3, PopIs
  <1>6. v.stk = Swap(World.stk, t, Front(s)) /\ v.stk[t] = <<>>
        /\ v \in WorldType /\ v.reg = World.reg /\ v.acc = World.acc
        /\ v.net = World.net
    <2>1. \A e : Swap(World.stk, t, e)[t] = e
      BY <1>1, ThisStacks
    <2> HIDE DEF v
    <2> QED BY <1>3, <1>5, <2>1 DEF OnlyStk
  <1>7. Moves(World, v, t, h, g, Blank)
    BY <1>1, <1>3, <1>6 DEF Moves
  <1> HIDE DEF v, h
  <1>8. Good(v, none)
    <2>1. Stack(<<>>) /\ ~Based(<<>>) /\ ~Flagging(<<>>)
      <3>1. <<>> \in Seq(FrameType) /\ Len(<<>>) = 0
        OBVIOUS
      <3>2. Stack(<<>>)
        BY <3>1 DEF Stack
      <3> QED BY <3>2 DEF Based, Flagging
    <2>2. none # t
      BY RegAssumption
    <2> DEFINE e == v.stk[t]
    <2>3. Stack(e) /\ ~Based(e) /\ ~Flagging(e)
      BY <1>6, <2>1
    <2>4. p \in {t, none} /\ none \in {t, None} /\ p \in {t, None}
      BY <1>4
    <2> HIDE DEF p, none, g
    <2> QED BY <1>1, <1>3, <1>6, <1>7, <2>2, <2>3, <2>4, BlankNone, BlankIs, TakesOver
  <1>9. Good(x, None) /\ x.pjsua = None /\ x.acc = World.acc
    BY <1>6, <1>8, PjsuaPlain
  <1> HIDE DEF x
  <1>10. Good(n, None) /\ n.pjsua = None
    <2>1. AccFrom(World.acc, a)
      <3> DEFINE no == FALSE
      <3>1. no \in BOOLEAN
        OBVIOUS
      <3> HIDE DEF no
      <3> QED BY <1>1, <3>1, Accounts
    <2> HIDE DEF a
    <2> QED BY <1>9, <2>1, AccPlain DEF AccFrom
  <1> HIDE DEF n
  <1> QED BY <1>2, <1>9, <1>10, Becomes

\* It registers again, or tries later.
LEMMA RetryBeginKeeps ==
    ASSUME Inv, NEW t \in Thread, RetryBegin(t)
    PROVE  Inv'
  <1> DEFINE g == Last(World.stk[t])
             s == World.stk[t]
             h == <<t, Len(s)>>
             b == Pop(World, t)
             c == WithAcc(b, ScheduleReregistration(World.acc))
             f == WithPc(g, "sent")
             v == Put(World, t, f)
             yes == TRUE
             m == BeginSet(v, t, Target(yes), yes)
             n == WithPjsua(m, t)
             p == pjsua
  <1>1. /\ Good(World, p) /\ World.acc \in AccType /\ World \in WorldType
        /\ p \in {t, None}
    BY LockFree, WorldFields DEF Inv, Good, RetryBegin
  <1>2. TopIs(World, t, "retry", {"begin"})
    BY AtTop DEF RetryBegin
  <1>3. Become(b) \/ Become(c) \/ (Target(yes) # None /\ Become(n))
    <2>1. Goto(World, t, "sent") = v
      BY DEF Goto, WithPc
    <2>2. \/ Become(b) \/ Become(c)
          \/ /\ Target(TRUE) # None
             /\ Become(WithPjsua(BeginSet(Goto(World, t, "sent"), t, Target(TRUE), TRUE), t))
      BY WorldIs DEF RetryBegin
    <2> QED BY <2>1, <2>2
  <1>4. /\ g \in FrameType /\ g.fn = "retry" /\ g.pc = "begin" /\ s # <<>>
        /\ s[1] = g /\ Stack(s) /\ Front(s) = <<>> /\ Mild(s) /\ NoClass(g)
        /\ Len(s) = 1
    <2> DEFINE pc == "begin"
    <2>1. TopIs(World, t, "retry", {pc})
      BY <1>2
    <2> HIDE DEF pc
    <2>2. RetryFrame(s, g, pc)
      BY <1>1, <2>1, RetryTop
    <2> QED BY <2>2 DEF pc, RetryFrame
  <1>5. Moved(World, b, t, Front(s), p)
    <2>1. Calm(g)
      BY <1>4 DEF Calm
    <2> HIDE DEF p
    <2> QED BY <1>1, <1>4, <2>1, PopPlain
  <1>6. Kept(World, b, p) /\ Kept(World, c, p)
    <2> HIDE DEF b
    <2>1. Good(b, p) /\ b.acc = World.acc /\ b.pjsua = World.pjsua
      BY <1>5 DEF Moved
    <2>2. AccFrom(b.acc, ScheduleReregistration(World.acc))
      <3> DEFINE no == FALSE
      <3>1. no \in BOOLEAN
        OBVIOUS
      <3> HIDE DEF no
      <3> QED BY <1>1, <2>1, <3>1, Accounts
    <2>3. Tells(b, c, p)
      BY <2>1, <2>2, TellsOnly
    <2> QED BY <2>1, <2>3 DEF Kept, Tells
  <1>7. f \in FrameType /\ f.fn = "retry" /\ f.pc = "sent"
    BY <1>4, WithPcIs DEF Pcs
  <1> HIDE DEF f
  <1>8. OnlyStk(World, v, t, Turned(s, f))
    BY <1>1, <1>4, <1>7, PutIs
  <1>9. /\ Turned(s, f) # <<>> /\ Last(Turned(s, f)) = f /\ Turned(s, f)[1] = f
        /\ Stack(Turned(s, f)) /\ Len(Turned(s, f)) = 1
    <2> HIDE DEF s
    <2>1. Fits(f, Len(s), Under(s, Len(s)))
      BY <1>4, <1>7 DEF Fits
    <2>2. s \in Seq(FrameType)
      BY <1>4 DEF Stack
    <2>3. Turned(s, f) # <<>> /\ Last(Turned(s, f)) = f /\ Len(Turned(s, f)) = Len(s)
      BY <1>4, <1>7, <2>2, TurnedFacts
    <2>4. Turned(s, f)[1] = f
      BY <1>4, <1>7, TurnEnds
    <2>5. Stack(Turned(s, f))
      BY <1>4, <1>7, <2>1, StackTurn
    <2> QED BY <1>4, <2>3, <2>4, <2>5
  <1>10. v.stk = Swap(World.stk, t, Turned(s, f)) /\ v.stk[t] = Turned(s, f)
        /\ v \in WorldType /\ v.reg = World.reg /\ v.acc = World.acc
        /\ v.net = World.net
    <2>1. \A e : Swap(World.stk, t, e)[t] = e
      BY <1>1, ThisStacks
    <2> HIDE DEF v
    <2> QED BY <1>8, <2>1 DEF OnlyStk
  <1>11. Moves(World, v, t, h, g, f)
    BY <1>1, <1>4, <1>7, <1>10 DEF Moves
  <1> HIDE DEF v, h
  <1>12. NoClass(f) /\ Meek(f)
    BY <1>7, NoClassFrame DEF Meek
  <1>13. Good(v, t)
    <2>1. Based(v.stk[t])
      BY <1>7, <1>9, <1>10 DEF Based
    <2> HIDE DEF p, g
    <2> QED BY <1>1, <1>4, <1>9, <1>10, <1>11, <1>12, <2>1, TakesOver
  <1>14. CASE Target(yes) # None /\ Become(n)
    <2>1. \A r : Untouched(World, r) => Untouched(v, r)
      <3> HIDE DEF g
      <3> QED BY <1>4, <1>10, <1>11, <1>12, UntouchedKept
    <2>2. v.acc = acc /\ acc.regc \in Regc \cup {None}
      BY <1>1, <1>10, WorldIs DEF AccType
    <2>3. yes \in BOOLEAN
      OBVIOUS
    <2> HIDE DEF yes
    <2>4. Aims(v, Target(yes))
      BY <1>14, <2>1, <2>2, Targets
    <2>5. MaySet(v, t)
      BY <1>7, <1>9, <1>10 DEF MaySet
    <2>6. Good(m, t)
      BY <1>13, <2>3, <2>4, <2>5, BeginSetKept DEF Kept
    <2> HIDE DEF m
    <2>7. Good(n, t) /\ n.pjsua = t
      BY <2>6, PjsuaPlain
    <2> HIDE DEF n
    <2> QED BY <1>14, <2>7, Becomes
  <1> HIDE DEF n, b, c
  <1> QED BY <1>3, <1>6, <1>14, KeptNext

-----------------------------------------------------------------------------
(* The account's deletion.                                                 *)

\* pjsua_acc_del's frame, which is alone, and at g.
DelFrame(s, g) ==
    /\ g \in FrameType /\ g.fn = "del" /\ s # <<>> /\ Len(s) = 1 /\ s[1] = g
    /\ Stack(s) /\ Front(s) = <<>> /\ NoClass(g) /\ Based(s)
    /\ g.pc # "sent" => g.r \in Regc

\* pjsua_acc_del is at the bottom of its stack and keeps PJSUA_LOCK.
LEMMA DelTop ==
    ASSUME NEW w, NEW t, NEW p, Good(w, p), t \in Thread, w.stk[t] # <<>>,
           Last(w.stk[t]).fn = "del"
    PROVE  DelFrame(w.stk[t], Last(w.stk[t])) /\ p = t
  <1> DEFINE s == w.stk[t]
             g == Last(s)
             k == Len(s)
             b == Under(s, k)
  <1>1. s # <<>> /\ g.fn = "del"
    OBVIOUS
  <1>2. /\ g \in FrameType /\ Fits(g, k, b) /\ Stack(s)
    BY <1>1, TopFacts
  <1>3. NoClass(g)
    BY <1>1, NoClassFrame
  <1> HIDE DEF g, k, b
  <1>4. k = 1 /\ (g.pc # "sent" => g.r \in Regc)
    BY <1>1, <1>2 DEF Fits, FrameType
  <1> HIDE DEF s
  <1>5. s[1] = g /\ Front(s) = <<>>
    BY <1>1, <1>2, <1>4, PopEnds DEF k, g
  <1>6. Based(s)
    BY <1>1, <1>5 DEF Based
  <1>7. p = t
    BY <1>6 DEF Good, Owned, s
  <1> QED BY <1>1, <1>2, <1>3, <1>4, <1>5, <1>6, <1>7 DEF g, k, s, DelFrame

\* What is left of the account when PJSUA_LOCK is given up.
Gone(v, a) == WithPjsua(WithAcc(v, a), None)

\* PJSUA_LOCK is given up without a session.
LEMMA GoneKept ==
    ASSUME NEW v, NEW a, Good(v, None), a \in AccType, a.regc = None
    PROVE  Good(Gone(v, a), None) /\ Gone(v, a).pjsua = None
  <1> DEFINE x == WithAcc(v, a)
             none == None
  <1>1. Good(v, none) /\ a.regc \in {v.acc.regc, None}
    OBVIOUS
  <1>4. none \in Thread \cup {None}
    OBVIOUS
  <1> HIDE DEF none
  <1>2. Good(x, none)
    BY <1>1, AccPlain
  <1> HIDE DEF x
  <1>3. Good(WithPjsua(x, none), none) /\ WithPjsua(x, none).pjsua = none
    BY <1>2, <1>4, PjsuaPlain
  <1> QED BY <1>3 DEF Gone, x, none

\* The account when it is deleted.
LEMMA AccNoneIs ==
    ASSUME NEW a, a \in AccType
    PROVE  LET b == [a EXCEPT !.valid = FALSE, !.regc = None]
           IN b \in AccType /\ b.regc = None
  BY DEF AccType

\* An empty stack.
LEMMA NoFrames ==
    Stack(<<>>) /\ ~Based(<<>>) /\ ~Flagging(<<>>) /\ \A r : ~Deleting(<<>>, r)
  <1>1. <<>> \in Seq(FrameType) /\ Len(<<>>) = 0
    OBVIOUS
  <1>2. Stack(<<>>)
    BY <1>1 DEF Stack
  <1> QED BY <1>2 DEF Based, Flagging, Deleting

\* v is w after the deletion's frame is popped, its sessions those of x.
DelPopped(w, x, v, t) ==
    /\ Moves(w, v, t, <<t, Len(w.stk[t])>>, Last(w.stk[t]), Blank)
    /\ v.stk[t] = <<>> /\ v \in WorldType /\ v.reg = x.reg
    /\ v.acc = x.acc /\ v.net = x.net

\* The frame is popped, and x is w with another session.
LEMMA DelPops ==
    ASSUME NEW w, NEW x, NEW t, w \in WorldType, x \in WorldType, x.stk = w.stk,
           t \in Thread, DelFrame(w.stk[t], Last(w.stk[t]))
    PROVE  DelPopped(w, x, Pop(x, t), t)
  <1> DEFINE s == w.stk[t]
             v == Pop(x, t)
  <1>1. s # <<>> /\ Stack(s) /\ Front(s) = <<>>
    BY DEF DelFrame
  <1>2. OnlyStk(x, v, t, Front(s))
    BY <1>1, PopIs
  <1>3. \A e : Swap(w.stk, t, e)[t] = e
    BY ThisStacks
  <1> HIDE DEF v
  <1>4. /\ v.stk = Swap(w.stk, t, Front(s)) /\ v.stk[t] = <<>>
        /\ v \in WorldType /\ v.reg = x.reg /\ v.acc = x.acc /\ v.net = x.net
    BY <1>1, <1>2, <1>3 DEF OnlyStk
  <1>5. DelPopped(w, x, v, t)
    BY <1>1, <1>4 DEF Moves, DelPopped
  <1> QED BY <1>5 DEF v

\* Deletes for one session.
DeletesAt(w, q) ==
    /\ w.reg[q].lock <=> \E t \in Thread : Deleting(w.stk[t], q)
    /\ \A t \in Thread : Deleting(w.stk[t], q) =>
          w.reg[q].live /\ (w.stk[t][1].pc = "free" => Spare(w, q))

\* A session that the step has nothing to do with.
LEMMA DeletesOther ==
    ASSUME NEW w, NEW n, NEW t, NEW h, NEW g, NEW f, NEW r, NEW z, NEW q,
           DeletesAt(w, q), Steps(w, n, t, h, g, f, r, z), NoClass(g), NoClass(f),
           n.net = w.net, q \in Regc, q # r,
           ~Deleting(w.stk[t], q), ~Deleting(n.stk[t], q)
    PROVE  DeletesAt(n, q)
  <1>1. Moves(w, n, t, h, g, f) /\ OnlyReg(w, n, r, z)
    BY DEF Steps
  <1>2. w \in WorldType /\ t \in Thread
    BY <1>1 DEF Moves
  <1>3. n.reg[q] = w.reg[q]
    BY <1>1, <1>2, OnlyRegFacts
  <1>4. \A u \in Thread : u # t => n.stk[u] = w.stk[u]
    BY <1>1, MovesOthers
  <1>5. Spare(w, q) => Spare(n, q)
    <2>1. /\ Places(n.stk, "firm", q) = Places(w.stk, "firm", q)
          /\ Places(n.stk, "ask", q) = Places(w.stk, "ask", q)
      BY <1>1, KeepsOthers, ClassesAre DEF NoClass
    <2> QED BY <1>3, <2>1 DEF Spare
  <1> QED BY <1>2, <1>3, <1>4, <1>5 DEF DeletesAt

\* There was no session to destroy.
LEMMA DelDestroyNone ==
    ASSUME NEW w, NEW t, NEW p, Good(w, p), t \in Thread, w.stk[t] # <<>>,
           Last(w.stk[t]).fn = "del", Last(w.stk[t]).pc = "sent"
    PROVE  Good(AccGone(w, t), None) /\ AccGone(w, t).pjsua = None
  <1> DEFINE g == Last(w.stk[t])
             s == w.stk[t]
             h == <<t, Len(s)>>
             v == Pop(w, t)
             a == [w.acc EXCEPT !.valid = FALSE, !.regc = None]
             none == None
  <1>1. w \in WorldType /\ w.acc \in AccType
    BY WorldFields DEF Good
  <1>2. DelFrame(s, g) /\ p = t
    BY DelTop
  <1>3. /\ Moves(w, v, t, <<t, Len(w.stk[t])>>, g, Blank)
        /\ v.stk[t] = <<>> /\ v \in WorldType /\ v.reg = w.reg
        /\ v.acc = w.acc /\ v.net = w.net
    <2>1. DelPopped(w, w, v, t)
      BY <1>1, <1>2, DelPops
    <2> QED BY <2>1 DEF DelPopped
  <1>4. Mild(s) /\ NoClass(g)
    BY <1>2 DEF DelFrame, Mild
  <1> HIDE DEF v, g
  <1>5. Good(v, none)
    <2>1. none # t /\ p \in {t, None} /\ none \in {t, None}
      BY <1>2, RegAssumption
    <2> HIDE DEF none
    <2> DEFINE e == v.stk[t]
    <2>2. Stack(e) /\ ~Based(e) /\ ~Flagging(e)
      BY <1>3, NoFrames
    <2> QED BY <1>3, <1>4, <2>1, <2>2, BlankNone, BlankIs, TakesOver
  <1>6. a \in AccType /\ a.regc = None
    BY <1>1, AccNoneIs
  <1>7. AccGone(w, t) = Gone(v, a)
    BY DEF AccGone, Gone, v
  <1> HIDE DEF a
  <1> QED BY <1>5, <1>6, <1>7, GoneKept

\* A session nobody uses has nothing to do with anybody.
LEMMA IdleSpare ==
    ASSUME NEW w, NEW p, NEW r, Good(w, p), r \in Regc, w.reg[r].live,
           ~InUse(w.reg[r])
    PROVE  Spare(w, r)
  <1>1. SoundIn(w.reg[r], w, r) /\ ~w.reg[r].has_tsx /\ w.reg[r].busy = 0
    BY DEF Good, Sessions, InUse
  <1>2. /\ IsFiniteSet(Places(w.stk, "use", r))
        /\ Cardinality(Places(w.stk, "use", r)) = 0
        /\ Places(w.stk, "ask", r) = {} /\ Sent(w.net, r) = {}
    BY <1>1 DEF SoundIn, Sound
  <1>3. Places(w.stk, "use", r) = {}
    BY <1>2, FS_EmptySet
  <1>4. Places(w.stk, "firm", r) = {}
    BY <1>3, PlaceSets
  <1> QED BY <1>1, <1>2, <1>4 DEF Spare

Locked(s, b) == [s EXCEPT !.lock = b]

\* z is s but for the lock.
LockedFrom(s, z) ==
    /\ z \in SessionType /\ Agrees(s, z) /\ z.delete_flag = s.delete_flag
    /\ z.live = s.live /\ z.has_tsx = s.has_tsx

\* A session is locked or unlocked.
LEMMA LockedIs ==
    ASSUME NEW s, NEW b \in BOOLEAN, s \in SessionType
    PROVE  LockedFrom(s, Locked(s, b)) /\ Locked(s, b).lock = b
  BY DEF Locked, LockedFrom, SessionType, Agrees

\* The account's session is locked, and what to do with it is decided.
LEMMA DelMarks ==
    ASSUME NEW w, NEW t, NEW p, NEW r, NEW f, NEW z, Good(w, p), t \in Thread,
           w.stk[t] # <<>>, Last(w.stk[t]).fn = "del", Last(w.stk[t]).pc = "sent",
           r = w.acc.regc, r \in Regc, ~w.reg[r].lock, LockedFrom(w.reg[r], z), z.lock,
           f \in FrameType, f.fn = "del", f.r = r, f.pc \in {"flag", "free"},
           f.pc = "free" => ~InUse(w.reg[r])
    PROVE  Kept(w, Put(WithReg(w, r, z), t, f), p)
  <1> DEFINE g == Last(w.stk[t])
             s == w.stk[t]
             h == <<t, Len(s)>>
             x == WithReg(w, r, z)
             n == Put(x, t, f)
             a == Turned(s, f)
  <1>1. /\ w \in WorldType /\ w.reg[r] \in SessionType /\ w.reg[r].live
        /\ ~w.reg[r].delete_flag /\ r # None /\ SoundIn(w.reg[r], w, r)
    BY RegAssumption, WorldFields DEF Good, Usable, Sessions
  <1>2. DelFrame(s, g) /\ p = t
    BY DelTop
  <1>3. /\ s # <<>> /\ Stack(s) /\ Len(s) = 1 /\ NoClass(g) /\ g.fn = "del"
        /\ s \in Seq(FrameType) /\ Based(s)
    BY <1>2 DEF DelFrame, Stack
  <1>4. /\ z \in SessionType /\ Agrees(w.reg[r], z) /\ z.lock
        /\ z.delete_flag = w.reg[r].delete_flag /\ z.live = w.reg[r].live
        /\ z.has_tsx = w.reg[r].has_tsx
    BY DEF LockedFrom
  <1>5. /\ x \in WorldType /\ x.reg = Swap(w.reg, r, z)
        /\ x.acc = w.acc /\ x.stk = w.stk /\ x.net = w.net /\ x.pjsua = w.pjsua
    BY <1>1, <1>4, WithRegIs
  <1> HIDE DEF x
  <1>6. OnlyStk(x, n, t, a)
    BY <1>3, <1>5, PutIs
  <1>7. /\ a # <<>> /\ Last(a) = f /\ a[1] = f /\ Stack(a)
    <2> HIDE DEF s
    <2>1. Fits(f, Len(s), Under(s, Len(s)))
      BY <1>1, <1>3 DEF Fits
    <2>2. a # <<>> /\ Last(a) = f
      BY <1>3, TurnedFacts
    <2>4. a[1] = f
      BY <1>3, TurnEnds
    <2>5. Stack(a)
      BY <1>3, <2>1, StackTurn
    <2> QED BY <2>2, <2>4, <2>5
  <1>8. /\ n.stk = Swap(w.stk, t, a) /\ n.stk[t] = a /\ n \in WorldType
        /\ n.reg = Swap(w.reg, r, z) /\ n.acc = w.acc /\ n.net = w.net
        /\ n.pjsua = w.pjsua
    <2>1. \A e : Swap(w.stk, t, e)[t] = e
      BY <1>1, ThisStacks
    <2> HIDE DEF n, a
    <2> QED BY <1>5, <1>6, <2>1 DEF OnlyStk
  <1> HIDE DEF n
  <1>9. Moves(w, n, t, h, g, f)
    BY <1>1, <1>3, <1>8 DEF Moves
  <1>10. NoClass(f)
    BY NoClassFrame
  <1> HIDE DEF g, h, s, a
  <1>11. Steps(w, n, t, h, g, f, r, z)
    <2>1. OnlyReg(w, n, r, z)
      BY <1>4, <1>8 DEF OnlyReg
    <2> QED BY <1>3, <1>9, <1>10, <2>1, NoClassAre DEF Steps
  <1>12. SameIn(g, f, r)
    BY <1>3, <1>10, SameNone
  <1>13. SoundIn(z, n, r)
    <2>1. SoundIn(z, w, r)
      BY <1>1, <1>4, Unmoved DEF SoundIn
    <2>2. Sent(n.net, r) = Sent(w.net, r)
      BY <1>8
    <2> QED BY <1>9, <1>12, <2>1, <2>2, SamePlaces DEF SoundIn
  <1>14. Sessions(n)
    BY <1>11, <1>13, SessionsStep DEF Good
  <1>15. n.reg[r] = z /\ \A q \in Regc : q # r => n.reg[q] = w.reg[q]
    BY <1>1, <1>11, OnlyRegFacts DEF Steps
  <1>16. Usable(n)
    BY <1>1, <1>4, <1>8, <1>15 DEF Usable
  <1>17. Owned(n, p)
    <2>1. Based(a)
      BY <1>7 DEF Based
    <2>2. Owns(w, n, t, p, p)
      BY <1>2, <1>8, <2>1 DEF Owns
    <2> QED BY <1>9, <2>2, OwnedStep DEF Good
  <1>18. \A u \in Thread : Stack(n.stk[u])
    <2>1. \A u \in Thread : u # t => n.stk[u] = w.stk[u]
      BY <1>9, MovesOthers
    <2>2. \A u \in Thread : Stack(w.stk[u])
      BY DEF Good
    <2> QED BY <1>7, <1>8, <2>1, <2>2
  <1>19. ASSUME NEW q \in Regc PROVE DeletesAt(n, q)
    <2>1. \A q1 : ~Deleting(w.stk[t], q1)
      <3>1. Mild(w.stk[t])
        BY DEF Mild
      <3> QED BY <1>3, <3>1, NotDeleting DEF s
    <2>2. \A q1 : Deleting(n.stk[t], q1) <=> q1 = r
      BY <1>7, <1>8 DEF Deleting
    <2>3. DeletesAt(w, q)
      BY DEF Good, Deletes, DeletesAt
    <2>4. CASE q # r
      BY <1>3, <1>8, <1>10, <1>11, <2>1, <2>2, <2>3, <2>4, DeletesOther
    <2>5. CASE q = r
      <3>1. \A u \in Thread : Deleting(n.stk[u], r) => u = t
        <4>1. \A u \in Thread : ~Deleting(w.stk[u], r)
          BY <2>3, <2>5 DEF DeletesAt
        <4> QED BY <1>9, <4>1, MovesOthers
      <3>2. f.pc = "free" => Spare(n, r)
        <4>1. f.pc = "free" => Spare(w, r)
          BY <1>1, IdleSpare
        <4>2. /\ Places(n.stk, "firm", r) = Places(w.stk, "firm", r)
              /\ Places(n.stk, "ask", r) = Places(w.stk, "ask", r)
          BY <1>9, <1>12, SamePlaces
        <4> QED BY <1>4, <1>8, <1>15, <4>1, <4>2 DEF Spare
      <3>3. n.stk[t][1].pc = f.pc
        BY <1>7, <1>8
      <3> QED BY <1>1, <1>4, <1>15, <2>2, <2>5, <3>1, <3>2, <3>3 DEF DeletesAt
    <2> QED BY <2>4, <2>5
  <1>20. Deletes(n)
    BY <1>19 DEF Deletes, DeletesAt
  <1>21. Good(n, p)
    BY <1>8, <1>14, <1>16, <1>17, <1>18, <1>20 DEF Good
  <1> QED BY <1>8, <1>21 DEF Kept, n, x

\* The frame that says so.
Aimed(g, r, pc) == [g EXCEPT !.r = r, !.pc = pc]

\* That frame.
LEMMA AimedIs ==
    ASSUME NEW g, NEW r \in Regc, NEW pc \in Pcs, g \in FrameType
    PROVE  LET f == Aimed(g, r, pc)
           IN f \in FrameType /\ f.fn = g.fn /\ f.r = r /\ f.pc = pc
  <1> DEFINE e == [g EXCEPT !.r = r]
             f == [e EXCEPT !.pc = pc]
  <1>1. e \in FrameType /\ e.fn = g.fn /\ e.r = r
    BY DEF FrameType
  <1>2. Aimed(g, r, pc) = f
    BY DEF Aimed
  <1> HIDE DEF e
  <1>3. f \in FrameType /\ f.fn = e.fn /\ f.r = e.r /\ f.pc = pc
    BY <1>1 DEF FrameType
  <1> QED BY <1>1, <1>2, <1>3

\* pjsua_acc_del reads whether the session is in use, under its lock.
LEMMA AccDelDestroyKeeps ==
    ASSUME Inv, NEW t \in Thread, AccDelDestroy(t)
    PROVE  Inv'
  <1> DEFINE g == Last(World.stk[t])
             r == World.acc.regc
             yes == TRUE
             z == Locked(World.reg[r], yes)
             pc == IF InUse(World.reg[r]) THEN "flag" ELSE "free"
             f == Aimed(g, r, pc)
             n == Put(WithReg(World, r, z), t, f)
             b == AccGone(World, t)
  <1>1. Good(World, pjsua) /\ World.acc \in AccType
    BY WorldFields DEF Inv, Good
  <1>2. World.stk[t] # <<>> /\ g.fn = "del" /\ g.pc = "sent"
    BY WorldIs DEF AccDelDestroy, At, Top, Idle
  <1>3. \/ r = None /\ Become(b)
        \/ r # None /\ ~World.reg[r].lock /\ Become(n)
    BY WorldIs DEF AccDelDestroy, MayUse, Top, Locked, Aimed
  <1>4. CASE r = None /\ Become(b)
    <2>1. Good(b, None) /\ b.pjsua = None
      BY <1>1, <1>2, DelDestroyNone
    <2> HIDE DEF b
    <2> QED BY <1>4, <2>1, Becomes
  <1>5. CASE r # None /\ ~World.reg[r].lock /\ Become(n)
    <2>1. r \in Regc
      BY <1>1, <1>5 DEF AccType
    <2>2. g \in FrameType
      BY <1>1, <1>2, TopFacts
    <2>3. pc \in {"flag", "free"} /\ (pc = "free" => ~InUse(World.reg[r])) /\ pc \in Pcs
      BY DEF Pcs
    <2> HIDE DEF pc
    <2>4. f \in FrameType /\ f.fn = "del" /\ f.r = r /\ f.pc = pc
      BY <1>2, <2>1, <2>2, <2>3, AimedIs
    <2>6. yes \in BOOLEAN /\ yes
      OBVIOUS
    <2> HIDE DEF yes
    <2>7. LockedFrom(World.reg[r], z) /\ z.lock
      <3>1. World.reg[r] \in SessionType
        BY <1>1, <2>1, WorldFields DEF Good
      <3> QED BY <2>6, <3>1, LockedIs
    <2> HIDE DEF f, z
    <2>5. Kept(World, n, pjsua)
      BY <1>1, <1>2, <1>5, <2>1, <2>3, <2>4, <2>7, DelMarks
    <2> HIDE DEF n
    <2> QED BY <1>5, <2>5, KeptNext
  <1> QED BY <1>3, <1>4, <1>5

-----------------------------------------------------------------------------
(* The account's deletion is over.                                         *)

\* What becomes of the session: marked, with the lock given up, or freed.
EndedAs(s, z, pc) ==
    /\ z \in SessionType /\ ~z.lock
    /\ pc = "flag" => Agrees(s, z)
    /\ pc = "free" => ~z.live

\* Thread t is to delete session r, and nobody else deletes any.
DelAt(w, t, g, r) ==
    /\ r \in Regc /\ Deleting(w.stk[t], r) /\ w.reg[r].live
    /\ g.pc = "free" => Spare(w, r)
    /\ \A q \in Regc, u \in Thread : Deleting(w.stk[u], q) => u = t /\ q = r
    /\ DelFrame(w.stk[t], g)

\* What it read still holds: nobody else came to use the session.
LEMMA DelHas ==
    ASSUME NEW w, NEW t, NEW p, Good(w, p), t \in Thread,
           w.stk[t] # <<>>, Last(w.stk[t]).fn = "del",
           Last(w.stk[t]).pc \in {"flag", "free"}
    PROVE  DelAt(w, t, Last(w.stk[t]), Last(w.stk[t]).r) /\ p = t
  <1> DEFINE g == Last(w.stk[t])
             r == g.r
  <1>1. /\ DelFrame(w.stk[t], g) /\ p = t
        /\ g.fn = "del" /\ g.pc \in {"flag", "free"}
    BY DelTop
  <1> HIDE DEF g
  <1>2. /\ w.stk[t] # <<>> /\ w.stk[t][1] = g /\ r \in Regc
    BY <1>1 DEF DelFrame
  <1>3. Deleting(w.stk[t], r)
    BY <1>1, <1>2 DEF Deleting
  <1>4. w.reg[r].live /\ (g.pc = "free" => Spare(w, r))
    BY <1>2, <1>3 DEF Good, Deletes
  <1>5. ASSUME NEW q \in Regc, NEW u \in Thread, Deleting(w.stk[u], q)
        PROVE  u = t /\ q = r
    <2>1. Based(w.stk[u])
      BY <1>5 DEF Deleting, Based
    <2>2. u = t
      BY <1>1, <2>1 DEF Good, Owned
    <2> QED BY <1>2, <1>5, <2>2 DEF Deleting
  <1>6. DelAt(w, t, g, r)
    BY <1>1, <1>2, <1>3, <1>4, <1>5 DEF DelAt
  <1> QED BY <1>1, <1>6 DEF g

\* The session is marked or freed, and the account is gone.
LEMMA DelEnds ==
    ASSUME NEW w, NEW t, NEW g, NEW r, NEW z, NEW a, Good(w, t), t \in Thread,
           g = Last(w.stk[t]), DelAt(w, t, g, r),
           g.pc \in {"flag", "free"}, EndedAs(w.reg[r], z, g.pc),
           a \in AccType, a.regc = None
    PROVE  LET n == Gone(Pop(WithReg(w, r, z), t), a)
           IN Good(n, None) /\ n.pjsua = None
  <1> DEFINE x == WithReg(w, r, z)
             v == Pop(x, t)
             y == WithAcc(v, a)
             h == <<t, Len(w.stk[t])>>
             p == t
             none == None
  <1>1. w \in WorldType /\ z \in SessionType
    BY DEF Good, EndedAs
  <1>2. /\ r \in Regc /\ Deleting(w.stk[t], r) /\ w.reg[r].live
        /\ g.pc = "free" => Spare(w, r)
        /\ \A q \in Regc, u \in Thread : Deleting(w.stk[u], q) => u = t /\ q = r
    BY DEF DelAt
  <1>3. DelFrame(w.stk[t], g) /\ p = t /\ NoClass(g)
    BY DEF DelAt, DelFrame
  <1>4. /\ x \in WorldType /\ x.reg = Swap(w.reg, r, z)
        /\ x.acc = w.acc /\ x.stk = w.stk /\ x.net = w.net
    BY <1>1, <1>2, WithRegIs
  <1> HIDE DEF x
  <1>5. /\ Moves(w, v, t, h, g, Blank) /\ v.stk[t] = <<>> /\ v \in WorldType
        /\ v.reg = x.reg /\ v.acc = x.acc /\ v.net = x.net
    <2>1. DelFrame(w.stk[t], Last(w.stk[t]))
      BY <1>3
    <2>2. DelPopped(w, x, v, t)
      BY <1>1, <1>4, <2>1, DelPops
    <2> HIDE DEF v
    <2> QED BY <2>2 DEF DelPopped
  <1> HIDE DEF v
  <1>6. /\ y \in WorldType /\ y.acc = a /\ y.reg = Swap(w.reg, r, z)
        /\ y.stk = v.stk /\ y.net = w.net /\ y.stk[t] = <<>>
    BY <1>4, <1>5, WithAccIs
  <1> HIDE DEF y
  <1>7. Moves(w, y, t, h, g, Blank)
    BY <1>5, <1>6 DEF Moves
  <1> HIDE DEF h
  <1>8. Steps(w, y, t, h, g, Blank, r, z)
    <2>1. OnlyReg(w, y, r, z)
      BY <1>1, <1>2, <1>6 DEF OnlyReg
    <2> QED BY <1>3, <1>7, <2>1, BlankIs, NoClassAre DEF Steps
  <1>9. SameIn(g, Blank, r)
    BY <1>2, <1>3, BlankNone, SameNone
  <1>10. SoundIn(z, y, r)
    <2>1. SoundIn(w.reg[r], w, r)
      BY <1>2 DEF Good, Sessions
    <2>2. Sent(y.net, r) = Sent(w.net, r)
      BY <1>6
    <2>3. CASE g.pc = "flag"
      <3>1. Agrees(w.reg[r], z)
        BY <2>3 DEF EndedAs
      <3>2. SoundIn(z, w, r)
        BY <2>1, <3>1, Unmoved DEF SoundIn
      <3> QED BY <1>7, <1>9, <2>2, <3>2, SamePlaces DEF SoundIn
    <2>4. CASE g.pc = "free"
      <3>1. ~z.live
        BY <2>4 DEF EndedAs
      <3>2. /\ Places(w.stk, "firm", r) = {} /\ Places(w.stk, "ask", r) = {}
            /\ Sent(y.net, r) = {}
        BY <1>2, <2>2, <2>4 DEF Spare
      <3>3. SoundIn(z, w, r)
        BY <1>6, <3>1, <3>2, Absent DEF SoundIn
      <3> QED BY <1>7, <1>9, <2>2, <3>3, SamePlaces DEF SoundIn
    <2> QED BY <2>3, <2>4
  <1>11. Sessions(y)
    BY <1>8, <1>10, SessionsStep DEF Good
  <1>12. Usable(y)
    BY <1>6 DEF Usable
  <1>13. none \in Thread \cup {None} /\ none # t /\ none = None
    BY RegAssumption
  <1> HIDE DEF none
  <1>14. Owned(y, none)
    <2>1. Owns(w, y, t, p, none)
      BY <1>3, <1>6, <1>13, NoFrames DEF Owns
    <2> QED BY <1>7, <2>1, OwnedStep DEF Good
  <1>15. \A u \in Thread : u # t => y.stk[u] = w.stk[u]
    BY <1>7, MovesOthers
  <1>16. \A u \in Thread : Stack(y.stk[u])
    <2>1. \A u \in Thread : Stack(w.stk[u])
      BY DEF Good
    <2> QED BY <1>6, <1>15, <2>1, NoFrames
  <1>17. \A u \in Thread, q \in Regc : ~Deleting(y.stk[u], q)
    BY <1>2, <1>6, <1>15, NoFrames
  <1>18. \A q \in Regc : ~y.reg[q].lock
    <2>1. y.reg[r] = z /\ ~z.lock
      BY <1>1, <1>8, OnlyRegFacts DEF Steps, EndedAs
    <2>2. \A q \in Regc : q # r => y.reg[q] = w.reg[q]
      BY <1>1, <1>8, OnlyRegFacts DEF Steps
    <2>3. \A q \in Regc : q # r => ~w.reg[q].lock
      BY <1>2 DEF Good, Deletes
    <2> QED BY <2>1, <2>2, <2>3
  <1>19. Deletes(y)
    BY <1>17, <1>18 DEF Deletes
  <1>20. Good(y, none)
    BY <1>6, <1>11, <1>12, <1>13, <1>14, <1>16, <1>19 DEF Good
  <1>21. Good(WithPjsua(y, none), none) /\ WithPjsua(y, none).pjsua = none
    BY <1>13, <1>20, PjsuaPlain
  <1> QED BY <1>13, <1>21 DEF Gone, y, v, x

Marked(s, b) == [s EXCEPT !.delete_flag = b]

\* A marked session.
LEMMA MarkedIs ==
    ASSUME NEW s, NEW b, b \in BOOLEAN, s \in SessionType
    PROVE  Marked(s, b) \in SessionType /\ Agrees(s, Marked(s, b))
  BY DEF Marked, SessionType, Agrees

\* Marked and unlocked.
LEMMA EndedMark ==
    ASSUME NEW s, NEW b, NEW c, NEW pc, b \in BOOLEAN, c \in BOOLEAN, ~c,
           s \in SessionType, pc = "flag"
    PROVE  EndedAs(s, Locked(Marked(s, b), c), pc)
  <1> DEFINE m == Marked(s, b)
  <1>1. m \in SessionType /\ Agrees(s, m)
    BY MarkedIs
  <1> HIDE DEF m
  <1> DEFINE z == Locked(m, c)
  <1>2. LockedFrom(m, z) /\ z.lock = c
    BY <1>1, LockedIs
  <1> HIDE DEF z
  <1>3. EndedAs(s, z, pc)
    BY <1>1, <1>2 DEF EndedAs, LockedFrom, Agrees
  <1> QED BY <1>3 DEF z, m

\* Freed and unlocked.
LEMMA EndedFree ==
    ASSUME NEW s, NEW c, NEW pc, c \in BOOLEAN, ~c, s \in SessionType, pc = "free"
    PROVE  EndedAs(s, Locked(Freed(s), c), pc)
  <1> DEFINE m == Freed(s)
  <1>1. m \in SessionType /\ ~m.live
    BY FreedIs
  <1> HIDE DEF m
  <1> DEFINE z == Locked(m, c)
  <1>2. LockedFrom(m, z) /\ z.lock = c
    BY <1>1, LockedIs
  <1> HIDE DEF z
  <1>3. EndedAs(s, z, pc)
    BY <1>1, <1>2 DEF EndedAs, LockedFrom
  <1> QED BY <1>3 DEF z, m

\* pjsua_acc_del acts on what it read.
LEMMA AccDelEndKeeps ==
    ASSUME Inv, NEW t \in Thread, AccDelEnd(t)
    PROVE  Inv'
  <1> DEFINE g == Last(World.stk[t])
             r == g.r
             s == World.reg[r]
             yes == TRUE
             no == FALSE
             z == IF g.pc = "flag" THEN Locked(Marked(s, yes), no)
                  ELSE Locked(Freed(s), no)
             x == WithReg(World, r, z)
             a == [x.acc EXCEPT !.valid = FALSE, !.regc = None]
             n == Gone(Pop(x, t), a)
  <1>1. Good(World, pjsua) /\ World.acc \in AccType /\ World \in WorldType
    BY WorldFields DEF Inv, Good
  <1>2. World.stk[t] # <<>> /\ g.fn = "del" /\ g.pc \in {"flag", "free"}
    BY WorldIs DEF AccDelEnd, At, Top, Idle
  <1>3. Become(n)
    <2>1. Become(AccGone(x, t))
      BY WorldIs DEF AccDelEnd, Top, Locked, Marked
    <2> QED BY <2>1 DEF AccGone, Gone
  <1>4. r \in Regc /\ DelAt(World, t, g, r) /\ Good(World, t)
    <2>1. DelAt(World, t, g, r) /\ pjsua = t
      BY <1>1, <1>2, DelHas
    <2> QED BY <1>1, <2>1 DEF DelAt
  <1>5. s \in SessionType
    BY <1>1, <1>4, WorldFields
  <1>6. yes \in BOOLEAN /\ no \in BOOLEAN /\ ~no
    OBVIOUS
  <1> HIDE DEF yes, no
  <1>7. EndedAs(s, z, g.pc)
    <2> HIDE DEF s
    <2>1. CASE g.pc = "flag"
      BY <1>5, <1>6, <2>1, EndedMark
    <2>2. CASE g.pc = "free"
      BY <1>5, <1>6, <2>2, EndedFree
    <2> QED BY <1>2, <2>1, <2>2
  <1> HIDE DEF z
  <1>8. a \in AccType /\ a.regc = None
    <2>1. x.acc = World.acc
      BY <1>1, <1>4, <1>7, WithRegIs DEF EndedAs
    <2> HIDE DEF x
    <2> QED BY <1>1, <2>1, AccNoneIs
  <1> HIDE DEF a
  <1>9. Good(n, None) /\ n.pjsua = None
    BY <1>2, <1>4, <1>7, <1>8, DelEnds
  <1> HIDE DEF n
  <1> QED BY <1>3, <1>9, Becomes

-----------------------------------------------------------------------------
(* Every step keeps the invariant.                                         *)

\* In the beginning nothing happens.
LEMMA InitInv == Init => Inv
  <1> SUFFICES ASSUME Init PROVE Inv
    OBVIOUS
  <1> DEFINE w == World
             none == None
  <1>1. /\ reg \in [Regc -> SessionType] /\ acc \in AccType
        /\ \A r \in Regc : ~reg[r].live /\ ~reg[r].lock
    BY DEF Init, SessionType, AccType, NewRegc
  <1>2. /\ stk \in [Thread -> Seq(FrameType)] /\ \A t \in Thread : stk[t] = <<>>
    BY DEF Init
  <1>3. net = {} /\ pjsua = None /\ acc.regc = None
    BY DEF Init
  <1>4. w \in WorldType
    BY <1>1, <1>2, <1>3 DEF World, WorldType
  <1>5. /\ w.reg = reg /\ w.acc = acc /\ w.stk = stk /\ w.net = {} /\ pjsua = none
    BY <1>3, WorldIs
  <1>6. none \in Thread \cup {None} /\ none \notin Thread
    BY RegAssumption
  <1> HIDE DEF none, w
  <1>7. \A t \in Thread : /\ Stack(w.stk[t]) /\ ~Based(w.stk[t])
                          /\ ~Flagging(w.stk[t]) /\ \A r : ~Deleting(w.stk[t], r)
    BY <1>2, <1>5, NoFrames
  <1>8. Sessions(w)
    <2> SUFFICES ASSUME NEW r \in Regc PROVE SoundIn(w.reg[r], w, r)
      BY DEF Sessions
    <2>1. \A c : Places(w.stk, c, r) = {}
      BY <1>2, <1>5 DEF Places, Spots
    <2>2. Sent(w.net, r) = {}
      BY <1>5 DEF Sent
    <2> QED BY <1>1, <1>5, <2>1, <2>2, Absent DEF SoundIn
  <1>9. Usable(w)
    BY <1>3, <1>5 DEF Usable
  <1>10. Owned(w, none)
    BY <1>6, <1>7 DEF Owned
  <1>11. Deletes(w)
    BY <1>1, <1>5, <1>7 DEF Deletes
  <1>12. Good(w, none)
    BY <1>4, <1>6, <1>7, <1>8, <1>9, <1>10, <1>11 DEF Good
  <1> QED BY <1>5, <1>12 DEF Inv, w

\* A thread goes on where it waited.
LEMMA ResumeKeeps ==
    ASSUME Inv, NEW t \in Thread, Resume(t)
    PROVE  Inv'
  <1>1. CASE SendStart(t)
    BY <1>1, SendStartKeeps
  <1>2. CASE SendOut(t)
    BY <1>2, SendOutKeeps
  <1>3. CASE SendBack(t)
    BY <1>3, SendBackKeeps
  <1>4. CASE TsxStart(t)
    BY <1>4, TsxStartKeeps
  <1>5. CASE TsxCb(t)
    BY <1>5, TsxCbKeeps
  <1>6. CASE TsxHandle(t)
    BY <1>6, TsxHandleKeeps
  <1>7. CASE TsxSent(t)
    BY <1>7, TsxSentKeeps
  <1>8. CASE Call(t)
    BY <1>8, CallKeeps
  <1>9. CASE Dec(t)
    BY <1>9, DecKeeps
  <1>10. CASE Flag(t)
    BY <1>10, FlagKeeps
  <1>11. CASE RefreshRef(t)
    BY <1>11, RefreshRefKeeps
  <1>12. CASE RefreshRegister(t)
    BY <1>12, RefreshRegisterKeeps
  <1>13. CASE RefreshSent(t)
    BY <1>13, RefreshSentKeeps
  <1>14. CASE SetBegin(t)
    BY <1>14, SetBeginKeeps
  <1>15. CASE SetSent(t)
    BY <1>15, SetSentKeeps
  <1>16. CASE SetFlag(t)
    BY <1>16, SetFlagKeeps
  <1>17. CASE AccDelDestroy(t)
    BY <1>17, AccDelDestroyKeeps
  <1>18. CASE AccDelEnd(t)
    BY <1>18, AccDelEndKeeps
  <1>19. CASE RetryBegin(t)
    BY <1>19, RetryBeginKeeps
  <1>20. CASE RetrySent(t)
    BY <1>20, RetrySentKeeps
  <1> QED BY <1>1, <1>2, <1>3, <1>4, <1>5, <1>6, <1>7, <1>8, <1>9, <1>10, <1>11,
             <1>12, <1>13, <1>14, <1>15, <1>16, <1>17, <1>18, <1>19, <1>20 DEF Resume

\* An idle thread is called, by the user, a timer or the network.
LEMMA StartKeeps ==
    ASSUME Inv, NEW t \in Thread, Start(t)
    PROVE  Inv'
  <1>1. CASE AccAdd(t)
    BY <1>1, AccAddKeeps
  <1>2. CASE AccDel(t)
    BY <1>2, AccDelKeeps
  <1>3. ASSUME NEW renew \in BOOLEAN, SetRegistration(t, renew) PROVE Inv'
    BY <1>3, SetRegistrationKeeps
  <1>4. ASSUME NEW q \in net, NEW code \in Codes, Deliver(t, q, code) PROVE Inv'
    BY <1>4, DeliverKeeps
  <1>5. ASSUME NEW r \in Regc, PopRefresh(t, r) PROVE Inv'
    BY <1>5, PopRefreshKeeps
  <1>6. CASE PopRetry(t)
    BY <1>6, PopRetryKeeps
  <1>7. CASE TransportDown(t)
    BY <1>7, TransportDownKeeps
  <1> QED BY <1>1, <1>2, <1>3, <1>4, <1>5, <1>6, <1>7 DEF Start

\* No step, of any thread, breaks the invariant.
THEOREM Inductive == Inv /\ [Next]_vars => Inv'
  <1> SUFFICES ASSUME Inv, [Next]_vars PROVE Inv'
    OBVIOUS
  <1>1. CASE UNCHANGED vars
    <2>1. World' = World /\ pjsua' = pjsua
      BY <1>1 DEF vars, World
    <2>2. Become(World)
      BY <1>1, WorldIs DEF vars, Become
    <2> QED BY <2>2, WorldIs, Becomes DEF Inv
  <1>2. ASSUME NEW t \in Thread, Resume(t) PROVE Inv'
    BY <1>2, ResumeKeeps
  <1>3. ASSUME NEW t \in Thread, Start(t) PROVE Inv'
    BY <1>3, StartKeeps
  <1> QED BY <1>1, <1>2, <1>3 DEF Next

\* The invariant holds in every state of every behaviour.
THEOREM Invariance == Spec => []Inv
  BY InitInv, Inductive, PTL DEF Spec

-----------------------------------------------------------------------------
(* What it means for the properties.                                       *)

\* The variables have their types; no count of users falls below zero.
THEOREM TypeCorrect == Spec => []TypeOK
  <1>1. Inv => TypeOK
    BY WorldIs, WorldFields DEF Inv, Good, TypeOK, AccType, Request
  <1> QED BY <1>1, Invariance, PTL

\* The frames of the properties are the places of the invariant.
LEMMA FrameAt ==
    ASSUME Inv, NEW t \in Thread, NEW i
    PROVE  /\ i \in DOMAIN stk[t] <=> i \in 1..Len(stk[t])
           /\ i \in DOMAIN stk[t] => i \in 1..4 /\ stk[t][i] \in FrameType
                                     /\ Fits(stk[t][i], i, Under(stk[t], i))
  <1> DEFINE s == stk[t]
             n == Len(s)
  <1>1. Stack(s)
    BY WorldIs DEF Inv, Good
  <1> HIDE DEF s
  <1>2. s \in Seq(FrameType) /\ n \in Nat /\ n <= 4 /\ DOMAIN s = 1..n
    BY <1>1 DEF Stack
  <1>3. i \in 1..n => s[i] \in FrameType /\ Fits(s[i], i, Under(s, i))
    BY <1>1, <1>2 DEF Stack
  <1> HIDE DEF n
  <1>4. i \in 1..n => i \in 1..4
    BY <1>2
  <1> QED BY <1>2, <1>3, <1>4 DEF s, n

\* The frames of the functions fns at the places pcs.
AllRefs(fns, pcs) == UNION {Refs(t, fns, pcs) : t \in Thread}

\* A frame of these functions at these places.
LEMMA RefIs ==
    ASSUME Inv, NEW fns, NEW pcs, NEW h
    PROVE  h \in AllRefs(fns, pcs) <=>
              /\ h \in Thread \X (1..4) /\ h[2] \in 1..Len(stk[h[1]])
              /\ Frm(h).fn \in fns /\ Frm(h).pc \in pcs
  <1>1. ASSUME NEW t \in Thread, h \in Refs(t, fns, pcs)
        PROVE  /\ h \in Thread \X (1..4) /\ h[2] \in 1..Len(stk[h[1]])
               /\ Frm(h).fn \in fns /\ Frm(h).pc \in pcs
    <2>1. PICK i \in DOMAIN stk[t] : /\ h = <<t, i>> /\ stk[t][i].fn \in fns
                                     /\ stk[t][i].pc \in pcs
      BY <1>1 DEF Refs
    <2>2. i \in 1..4 /\ i \in 1..Len(stk[t])
      BY <2>1, FrameAt
    <2>3. h[1] = t /\ h[2] = i
      BY <2>1
    <2> QED BY <2>1, <2>2, <2>3 DEF Frm
  <1>2. ASSUME h \in Thread \X (1..4), h[2] \in 1..Len(stk[h[1]]),
               Frm(h).fn \in fns, Frm(h).pc \in pcs
        PROVE  \E t \in Thread : h \in Refs(t, fns, pcs)
    <2> DEFINE t == h[1]
               i == h[2]
    <2>1. h = <<t, i>> /\ t \in Thread
      BY <1>2
    <2>2. i \in DOMAIN stk[t]
      BY <1>2, <2>1, FrameAt
    <2>3. stk[t][i].fn \in fns /\ stk[t][i].pc \in pcs
      BY <1>2 DEF Frm
    <2> HIDE DEF t, i
    <2> QED BY <2>1, <2>2, <2>3 DEF Refs
  <1> QED BY <1>1, <1>2 DEF AllRefs

\* A place of class c of session r.
LEMMA PlaceIs ==
    ASSUME Inv, NEW c, NEW r, NEW h
    PROVE  h \in Places(World.stk, c, r) <=>
              /\ h \in Thread \X (1..4) /\ h[2] \in 1..Len(stk[h[1]])
              /\ In(c, Frm(h)) /\ Frm(h).r = r
  BY WorldIs DEF Places, Spots, Frm

\* Held is the places that hold a reference.
LEMMA HeldIs ==
    ASSUME Inv, NEW h
    PROVE  h \in Held <=>
              /\ h \in Thread \X (1..4) /\ h[2] \in 1..Len(stk[h[1]])
              /\ In("use", Frm(h))
  <1> DEFINE send == {"send"}
             tsx == {"tsx"}
             refresh == {"refresh"}
             set == {"set"}
             sends == {"out", "back"}
             tsxs == {"tsx_cb", "handle", "sent", "call", "dec"}
             refreshes == {"register", "sent", "call", "dec"}
             sets == {"sent"}
             Ref(fns, pcs) == /\ h \in Thread \X (1..4) /\ h[2] \in 1..Len(stk[h[1]])
                              /\ Frm(h).fn \in fns /\ Frm(h).pc \in pcs
  <1>1. h \in Held <=> \/ h \in AllRefs(send, sends) \/ h \in AllRefs(tsx, tsxs)
                       \/ h \in AllRefs(refresh, refreshes) \/ h \in AllRefs(set, sets)
    BY DEF Held, AllRefs
  <1>2. \A fns, pcs : h \in AllRefs(fns, pcs) <=> Ref(fns, pcs)
    BY RefIs
  <1>3. h \in Held <=> \/ Ref(send, sends) \/ Ref(tsx, tsxs)
                       \/ Ref(refresh, refreshes) \/ Ref(set, sets)
    <2> HIDE DEF send, tsx, refresh, set, sends, tsxs, refreshes, sets, Ref
    <2> QED BY <1>1, <1>2
  <1> QED BY <1>3 DEF In

\* Requests is the requests sent and the places that ask.
LEMMA RequestsAre ==
    ASSUME Inv, NEW r
    PROVE  Requests(r) = Sent(World.net, r) \cup Places(World.stk, "ask", r)
  <1> DEFINE send == {"send"}
             out == {"out"}
             tsx == {"tsx"}
             start == {"start"}
             A == AllRefs(send, out)
             B == AllRefs(tsx, start)
             P == Places(World.stk, "ask", r)
             S == {h \in A : Frm(h).r = r}
             T == {h \in B : Frm(h).r = r}
  <1>1. \A h : h \in A <=> /\ h \in Thread \X (1..4) /\ h[2] \in 1..Len(stk[h[1]])
                           /\ Frm(h).fn \in send /\ Frm(h).pc \in out
    <2> HIDE DEF send, out
    <2> QED BY RefIs
  <1>2. \A h : h \in B <=> /\ h \in Thread \X (1..4) /\ h[2] \in 1..Len(stk[h[1]])
                           /\ Frm(h).fn \in tsx /\ Frm(h).pc \in start
    <2> HIDE DEF tsx, start
    <2> QED BY RefIs
  <1>3. \A h : h \in P <=> /\ h \in Thread \X (1..4) /\ h[2] \in 1..Len(stk[h[1]])
                           /\ In("ask", Frm(h)) /\ Frm(h).r = r
    BY PlaceIs
  <1>4. Requests(r) = Sent(World.net, r) \cup S \cup T
    BY WorldIs DEF Requests, Sent, AllRefs
  <1> HIDE DEF A, B, P
  <1>5. \A h : h \in S \cup T <=> h \in P
    BY <1>1, <1>2, <1>3 DEF In
  <1>6. S \cup T = P
    BY <1>5
  <1> QED BY <1>4, <1>6 DEF P

\* A set whose elements are all equal.
LEMMA AtMostOne ==
    ASSUME NEW S, \A a, b \in S : a = b
    PROVE  Cardinality(S) <= 1
  <1>1. CASE S = {}
    BY <1>1, FS_EmptySet
  <1>2. CASE S # {}
    <2>1. PICK x : S = {x}
      BY <1>2
    <2> QED BY <2>1, FS_Singleton
  <1> QED BY <1>1, <1>2

\* has_tsx says exactly whether a session has a request, and it has one at
\* most: no thread's failure, callback or answer resets it under another's.
THEOREM OneRequest == Spec => []HasTsxExact
  <1>1. ASSUME Inv, NEW r \in Regc, reg[r].live
        PROVE  LET requests == Requests(r)
               IN /\ Cardinality(requests) <= 1
                  /\ requests # {} => reg[r].has_tsx
                  /\ reg[r].has_tsx /\ requests = {} =>
                        \E t \in Thread, i \in 1 .. 4 :
                           /\ i \in DOMAIN stk[t] /\ stk[t][i].fn = "send"
                           /\ stk[t][i].pc = "back" /\ stk[t][i].status = "error"
                           /\ stk[t][i].r = r
    <2> DEFINE R == Requests(r)
               A == Places(World.stk, "ask", r)
               B == Places(World.stk, "fail", r)
               N == Sent(World.net, r)
    <2>1. R = N \cup A
      BY <1>1, RequestsAre
    <2>2. SoundIn(reg[r], World, r)
      BY <1>1, WorldIs DEF Inv, Good, Sessions
    <2>3. /\ \A a, b \in A : a = b
          /\ \A p, q \in N : p = q
          /\ A = {} \/ N = {}
          /\ A # {} \/ N # {} => reg[r].has_tsx
          /\ reg[r].has_tsx => A # {} \/ N # {} \/ reg[r].cseq \in B
      BY <1>1, <2>2 DEF SoundIn, Sound
    <2>4. ASSUME NEW h \in B
          PROVE  \E t \in Thread, i \in 1 .. 4 :
                    /\ i \in DOMAIN stk[t] /\ stk[t][i].fn = "send"
                    /\ stk[t][i].pc = "back" /\ stk[t][i].status = "error"
                    /\ stk[t][i].r = r
      <3>1. /\ h \in Thread \X (1..4) /\ h[2] \in 1..Len(stk[h[1]])
            /\ In("fail", Frm(h)) /\ Frm(h).r = r
        BY <1>1, PlaceIs
      <3>2. h[1] \in Thread /\ h[2] \in 1..4
        BY <3>1
      <3>3. h[2] \in DOMAIN stk[h[1]]
        BY <1>1, <3>1, <3>2, FrameAt
      <3> QED BY <3>1, <3>2, <3>3 DEF In, Frm
    <2> HIDE DEF R, A, B, N
    <2>5. \A a, b \in R : a = b
      BY <2>1, <2>3
    <2>6. Cardinality(R) <= 1
      BY <2>5, AtMostOne
    <2>7. R # {} => reg[r].has_tsx
      BY <2>1, <2>3
    <2>8. reg[r].has_tsx /\ R = {} => reg[r].cseq \in B
      BY <2>1, <2>3
    <2> QED BY <2>4, <2>6, <2>7, <2>8 DEF R
  <1>2. Inv => HasTsxExact
    BY <1>1 DEF HasTsxExact
  <1> QED BY <1>2, Invariance, PTL

\* A frame that holds a reference is that of a session.
LEMMA UserOf ==
    ASSUME Inv, NEW h \in Held
    PROVE  /\ Frm(h).r \in Regc /\ h \in Places(World.stk, "use", Frm(h).r)
           /\ (Frm(h).fn = "refresh" /\ Frm(h).pc = "register")
              \/ h \in Places(World.stk, "firm", Frm(h).r)
  <1> DEFINE f == Frm(h)
             b == Under(stk[h[1]], h[2])
  <1>1. h \in Thread \X (1..4) /\ h[2] \in 1..Len(stk[h[1]]) /\ In("use", f)
    BY HeldIs
  <1>2. h[1] \in Thread /\ h[2] \in DOMAIN stk[h[1]]
    BY <1>1, FrameAt
  <1>3. f \in FrameType /\ Fits(f, h[2], b)
    BY <1>2, FrameAt DEF Frm
  <1>4. h \in Places(World.stk, "use", f.r)
    BY <1>1, PlaceIs
  <1>5. In("firm", f) => h \in Places(World.stk, "firm", f.r)
    BY <1>1, PlaceIs
  <1> HIDE DEF f, b
  <1>6. (f.fn = "refresh" /\ f.pc = "register") \/ In("firm", f)
    BY <1>1 DEF In
  <1>7. f.r \in Regc
    BY <1>1, <1>3 DEF In, Fits, FrameType
  <1> QED BY <1>4, <1>5, <1>6, <1>7 DEF f

\* The count of users is the number of frames that hold a reference, and no
\* session is freed under one of them, or under a request.
THEOREM NeverFreedInUse == Spec => []NotFreedInUse
  <1>1. ASSUME Inv PROVE NotFreedInUse
    <2>1. \A r \in Regc : SoundIn(reg[r], World, r)
      BY <1>1, WorldIs DEF Inv, Good, Sessions
    <2>2. ASSUME NEW r \in Regc, reg[r].live
          PROVE  reg[r].busy = Cardinality({h \in Held : Frm(h).r = r})
      <3> DEFINE U == Places(World.stk, "use", r)
                 H == {h \in Held : Frm(h).r = r}
      <3>1. \A h : h \in U <=> /\ h \in Thread \X (1..4)
                               /\ h[2] \in 1..Len(stk[h[1]])
                               /\ In("use", Frm(h)) /\ Frm(h).r = r
        BY <1>1, PlaceIs
      <3>2. \A h : h \in Held <=> /\ h \in Thread \X (1..4)
                                  /\ h[2] \in 1..Len(stk[h[1]])
                                  /\ In("use", Frm(h))
        BY <1>1, HeldIs
      <3>3. H = U
        <4> HIDE DEF U
        <4> QED BY <3>1, <3>2
      <3>4. reg[r].busy = Cardinality(U)
        BY <2>1, <2>2 DEF SoundIn, Sound
      <3> QED BY <3>3, <3>4
    <2>3. ASSUME NEW h \in Held
          PROVE  reg[Frm(h).r].live
                 \/ (Frm(h).fn = "refresh" /\ Frm(h).pc = "register")
      <3> DEFINE r == Frm(h).r
      <3>1. /\ r \in Regc
            /\ (Frm(h).fn = "refresh" /\ Frm(h).pc = "register")
               \/ h \in Places(World.stk, "firm", r)
        BY <1>1, UserOf
      <3>2. ~reg[r].live => Places(World.stk, "firm", r) = {}
        BY <2>1, <3>1 DEF SoundIn, Sound
      <3> QED BY <3>1, <3>2
    <2>4. ASSUME NEW q \in net PROVE reg[q.r].live
      <3>1. q.r \in Regc
        BY <1>1, WorldIs, WorldFields DEF Inv, Good, Request
      <3>2. q \in Sent(World.net, q.r)
        BY WorldIs DEF Sent
      <3>3. ~reg[q.r].live => Sent(World.net, q.r) = {}
        BY <2>1, <3>1 DEF SoundIn, Sound
      <3> QED BY <3>2, <3>3
    <2> QED BY <2>2, <2>3, <2>4 DEF NotFreedInUse
  <1>2. Inv => NotFreedInUse
    BY <1>1
  <1> QED BY <1>2, Invariance, PTL

=============================================================================
