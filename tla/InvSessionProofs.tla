-------------------------- MODULE InvSessionProofs --------------------------
(***************************************************************************)
(* Proofs about InvSession, for every value of its constants: any number   *)
(* of re-INVITEs, with and without timeouts.  A handler is a chain of      *)
(* writes to one world, so the invariant is followed along the chain: each *)
(* operator that writes is shown to take a good world to a good one        *)
(* (Step), and the handlers are built from those.  Between the two writes  *)
(* that end or take on an INVITE and set invite_tsx, that one INVITE is    *)
(* let off.                                                                *)
(***************************************************************************)
EXTENDS InvSession, TLAPS

\* What a session and a transaction hold.
Session ==
    [state : NULL..DISCONNECTED, cause : Codes, pending_cancel : BOOLEAN,
     pending_bye : BOOLEAN, invite_tsx : Nat, remote_cseq : Nat,
     hanging_up : BOOLEAN]

Txn ==
    [method : {"INVITE", "CANCEL", "BYE"}, by : Side, of : Nat,
     c : {"CALLING", "PROCEEDING", "COMPLETED", "TERMINATED"}, ccode : Codes,
     s : {"NONE", "TRYING", "PROCEEDING", "COMPLETED", "CONFIRMED",
          "TERMINATED", "STATELESS"}, scode : Codes, acked : BOOLEAN]

\* The client of t still waits for a final response.
OpenAt(t) == t.c \in {"CALLING", "PROCEEDING"}

\* The server of t is answering it, or waits for the ACK to its 2xx.
Busy(t) ==
    /\ t.method = "INVITE"
    /\ \/ t.s = "PROCEEDING"
       \/ t.s = "COMPLETED" /\ t.scode = 200

\* INVITE t is p's own and open, or p has yet to be done with it.
Pending(p, t) ==
    t.method = "INVITE" /\ IF t.by = p THEN OpenAt(t) ELSE Busy(t)

\* The half of t at p still runs.
Held(p, t) ==
    IF t.by = p THEN t.c # "TERMINATED" ELSE t.s \in {"PROCEEDING", "COMPLETED"}

\* Types, and no session that ended without a cause.
Shape(w) ==
    /\ w \in [inv : [Side -> Session], tsx : Seq(Txn)]
    /\ \A p \in Side :
          /\ {w.inv[p].invite_tsx, w.inv[p].remote_cseq} \subseteq 0..Len(w.tsx)
          /\ w.inv[p].state = DISCONNECTED => w.inv[p].cause # 0
    /\ \A i \in 1..Len(w.tsx) : w.tsx[i].of \in 0..Len(w.tsx)

\* invite_tsx names an INVITE whose half at that side still runs.  Session p
\* is let off for INVITE i: a handler ends or takes on an INVITE in one write
\* and makes invite_tsx agree in the next.
HoldsBut(w, p, i) ==
    \A q \in Side : \A k \in 1..Len(w.tsx) :
        w.inv[q].invite_tsx = k =>
            /\ w.tsx[k].method = "INVITE"
            /\ ~(q = p /\ k = i) => Held(q, w.tsx[k])

\* No INVITE that a living session has pending escapes its invite_tsx.
NoneEscapes(w) ==
    \A q \in Side : \A k \in 1..Len(w.tsx) :
        w.inv[q].state # DISCONNECTED /\ Pending(q, w.tsx[k])
        => w.inv[q].invite_tsx = k

\* Two INVITEs are being answered only when a session has ended.
OneBusy(w) ==
    \A i, k \in 1..Len(w.tsx) :
        i # k /\ Busy(w.tsx[i]) /\ Busy(w.tsx[k])
        => \E q \in Side : w.inv[q].state = DISCONNECTED

\* Who sent an ACK has confirmed its session.
AckedConfirms(w) ==
    \A k \in 1..Len(w.tsx) :
        w.tsx[k].acked => w.inv[w.tsx[k].by].state >= CONFIRMED

\* With nothing timing out the caller confirms first, and until then the
\* called side sends no request.
CallerFirst(w) ==
    \/ MayTimeout
    \/ /\ w.inv["B"].state = CONFIRMED => w.inv["A"].state >= CONFIRMED
       /\ \A k \in 1..Len(w.tsx) : w.tsx[k].by = "B" => w.inv["A"].state >= CONFIRMED
       /\ \A p \in Side : w.inv[p].cause # 408
       /\ \A k \in 1..Len(w.tsx) : w.tsx[k].scode # 408 /\ w.tsx[k].ccode # 408

\* Both sides have a session.
Met(w) == \A p \in Side : w.inv[p].state # NULL

\* Everything at once, but for the INVITE that HoldsBut lets off.
GoodBut(w, p, i) ==
    /\ Shape(w) /\ Met(w) /\ HoldsBut(w, p, i) /\ NoneEscapes(w) /\ OneBusy(w)
    /\ AckedConfirms(w) /\ CallerFirst(w)

\* No INVITE is let off: 0 is none.
Good(w) == GoodBut(w, "A", 0)

\* The INVITE has not arrived: the called side knows nothing of the call.
Apart(w) ==
    /\ Shape(w)
    /\ w.inv["B"] = NoSession /\ Len(w.tsx) = 1
    /\ w.tsx[1].method = "INVITE" /\ w.tsx[1].by = "A" /\ w.tsx[1].s = "NONE"
    /\ ~w.tsx[1].acked /\ w.tsx[1].scode = 0
    /\ MayTimeout \/ w.inv["A"].cause # 408

\* ... and the caller still calls, or has given up.
Alone(w) ==
    /\ Apart(w)
    /\ \/ /\ w.inv["A"].state = CALLING /\ w.inv["A"].invite_tsx = 1
          /\ w.tsx[1].c = "CALLING" /\ w.tsx[1].ccode = 0
       \/ /\ w.inv["A"].state = DISCONNECTED /\ w.inv["A"].invite_tsx = 0
          /\ w.tsx[1].c = "TERMINATED" /\ w.tsx[1].ccode = 408
          /\ MayTimeout

\* The inductive invariant.
Inv == Alone(World) \/ Good(World)

------------------------------------------------------------------------------
(* Worlds that differ in one session or one transaction.                   *)
------------------------------------------------------------------------------
\* A world with one session or one transaction replaced.
WithSession(w, p, r) == [inv |-> [w.inv EXCEPT ![p] = r], tsx |-> w.tsx]
WithTxn(w, i, t) == [inv |-> w.inv, tsx |-> [w.tsx EXCEPT ![i] = t]]

\* The types Shape gives, in the form the provers need.
LEMMA ShapeType ==
    ASSUME NEW w, Shape(w)
    PROVE  /\ w \in [inv : [Side -> Session], tsx : Seq(Txn)]
           /\ w.inv \in [Side -> Session] /\ w.tsx \in Seq(Txn)
           /\ Len(w.tsx) \in Nat
  BY DEF Shape

\* Set replaces one session.
LEMMA SetIs ==
    ASSUME NEW f, NEW v, NEW p, NEW w, Shape(w)
    PROVE  Set(w, p, f, v) = WithSession(w, p, [w.inv[p] EXCEPT ![f] = v])
  <1>1. w \in [inv : [Side -> Session], tsx : Seq(Txn)]
    BY ShapeType
  <1> QED BY <1>1 DEF WithSession, Set

\* The ways the handlers write a transaction ...
PutTxn(w, i, t) == [w EXCEPT !.tsx[i] = t]
PutS(w, i, v) == [w EXCEPT !.tsx[i].s = v]
PutC(w, i, v) == [w EXCEPT !.tsx[i].c = v]
PutAcked(w, i) == [w EXCEPT !.tsx[i].acked = TRUE]

\* ... and what each makes of it.
WithS(t, v) == [t EXCEPT !.s = v]
WithC(t, v) == [t EXCEPT !.c = v]
WithAcked(t) == [t EXCEPT !.acked = TRUE]

\* Each Put replaces one transaction, whatever the types ...
LEMMA PutOf ==
    ASSUME NEW I, NEW T, NEW w \in [inv : I, tsx : T], NEW i, NEW v
    PROVE  /\ PutTxn(w, i, v) = WithTxn(w, i, v)
           /\ PutS(w, i, v) = WithTxn(w, i, WithS(w.tsx[i], v))
           /\ PutC(w, i, v) = WithTxn(w, i, WithC(w.tsx[i], v))
           /\ PutAcked(w, i) = WithTxn(w, i, WithAcked(w.tsx[i]))
  <1>1. PutTxn(w, i, v) = WithTxn(w, i, v)
    BY DEF WithTxn, PutTxn
  <1>2. PutS(w, i, v) = WithTxn(w, i, WithS(w.tsx[i], v))
    BY DEF WithTxn, WithS, PutS
  <1>3. PutC(w, i, v) = WithTxn(w, i, WithC(w.tsx[i], v))
    BY DEF WithTxn, WithC, PutC
  <1>4. PutAcked(w, i) = WithTxn(w, i, WithAcked(w.tsx[i]))
    <2>1. ASSUME NEW b \in BOOLEAN
          PROVE  [w EXCEPT !.tsx[i].acked = b]
                   = WithTxn(w, i, [w.tsx[i] EXCEPT !.acked = b])
      BY DEF WithTxn
    <2> QED BY <2>1 DEF WithAcked, PutAcked
  <1> QED BY <1>1, <1>2, <1>3, <1>4

\* ... and so in a world of the right shape.
LEMMA TxnIs ==
    ASSUME NEW w, Shape(w), NEW i, NEW v
    PROVE  /\ PutTxn(w, i, v) = WithTxn(w, i, v)
           /\ PutS(w, i, v) = WithTxn(w, i, WithS(w.tsx[i], v))
           /\ PutC(w, i, v) = WithTxn(w, i, WithC(w.tsx[i], v))
           /\ PutAcked(w, i) = WithTxn(w, i, WithAcked(w.tsx[i]))
  <1> DEFINE I == [Side -> Session]
             T == Seq(Txn)
  <1>1. w \in [inv : I, tsx : T]
    BY ShapeType
  <1> HIDE DEF I, T
  <1> QED BY <1>1, PutOf

\* Writing to a transaction that is not there changes nothing.
LEMMA NoTxnIs ==
    ASSUME NEW w, Shape(w), NEW i, i \notin 1..Len(w.tsx), NEW t
    PROVE  WithTxn(w, i, t) = w
  <1>1. w \in [inv : [Side -> Session], tsx : Seq(Txn)]
    BY ShapeType
  <1> QED BY <1>1 DEF WithTxn

\* What no step undoes: states and transactions only grow, and a client that
\* has its final response has it for good.
Grows(w, n) ==
    /\ Len(w.tsx) <= Len(n.tsx)
    /\ \A q \in Side : w.inv[q].state <= n.inv[q].state
    /\ \A k \in 1..Len(w.tsx) :
          /\ n.tsx[k].method = w.tsx[k].method /\ n.tsx[k].by = w.tsx[k].by
          /\ OpenAt(n.tsx[k]) => OpenAt(w.tsx[k])

\* From w to n: n is good and nothing was undone.
Step(w, n, p, x) == GoodBut(n, p, x) /\ Grows(w, n)

\* There are two sides.
LEMMA SideFact ==
    ASSUME NEW p \in Side
    PROVE  /\ Peer(p) \in Side /\ Peer(p) # p /\ Peer(Peer(p)) = p
           /\ \A q \in Side : q = p \/ q = Peer(p)
           /\ "A" \in Side /\ "B" \in Side /\ p \in {"A", "B"}
  BY DEF Peer, Side

\* The types of single fields.
LEMMA Facts ==
    ASSUME NEW w, Shape(w)
    PROVE  /\ Len(w.tsx) \in Nat
           /\ \A q \in Side : /\ w.inv[q] \in Session
                              /\ w.inv[q].state \in 0..6 /\ w.inv[q].cause \in Codes
                              /\ w.inv[q].invite_tsx \in 0..Len(w.tsx)
           /\ \A k \in 1..Len(w.tsx) :
                 /\ w.tsx[k] \in Txn /\ w.tsx[k].by \in Side
                 /\ w.tsx[k].scode \in Codes /\ w.tsx[k].ccode \in Codes
  <1>1. w.inv \in [Side -> Session] /\ w.tsx \in Seq(Txn) /\ Len(w.tsx) \in Nat
    BY ShapeType
  <1>2. \A q \in Side : w.inv[q] \in Session
    BY <1>1
  <1>3. \A r \in Session : r.state \in 0..6 /\ r.cause \in Codes
    BY DEF Session, NULL, DISCONNECTED
  <1>4. \A k \in 1..Len(w.tsx) : w.tsx[k] \in Txn
    BY <1>1
  <1>5. \A t \in Txn : t.by \in Side /\ t.scode \in Codes /\ t.ccode \in Codes
    BY DEF Txn
  <1>6. \A q \in Side : w.inv[q].invite_tsx \in 0..Len(w.tsx)
    BY DEF Shape
  <1> QED BY <1>1, <1>2, <1>3, <1>4, <1>5, <1>6

\* Growth adds up.
LEMMA GrowsTrans ==
    ASSUME NEW w, NEW n, NEW o, Shape(w), Shape(n), Shape(o), Grows(w, n), Grows(n, o)
    PROVE  Grows(w, o)
  <1>1. Len(w.tsx) \in Nat /\ Len(n.tsx) \in Nat /\ Len(o.tsx) \in Nat
    BY ShapeType
  <1>2. \A q \in Side : /\ w.inv[q].state \in 0..6 /\ n.inv[q].state \in 0..6
                       /\ o.inv[q].state \in 0..6
    BY Facts
  <1>3. \A q \in Side : w.inv[q].state <= o.inv[q].state
    BY <1>2 DEF Grows
  <1>4. \A k \in 1..Len(w.tsx) : k \in 1..Len(n.tsx)
    BY <1>1 DEF Grows
  <1>5. \A k \in 1..Len(w.tsx) :
           /\ o.tsx[k].method = w.tsx[k].method /\ o.tsx[k].by = w.tsx[k].by
           /\ OpenAt(o.tsx[k]) => OpenAt(w.tsx[k])
    BY <1>4 DEF Grows
  <1> QED BY <1>1, <1>3, <1>5 DEF Grows

\* Replacing a session changes that session only.
LEMMA SessionTyped ==
    ASSUME NEW w, Shape(w), NEW p \in Side, NEW r \in Session,
           {r.invite_tsx, r.remote_cseq} \subseteq 0..Len(w.tsx),
           r.state = DISCONNECTED => r.cause # 0
    PROVE  LET n == WithSession(w, p, r)
           IN /\ Shape(n) /\ n.tsx = w.tsx /\ n.inv[p] = r
              /\ \A q \in Side \ {p} : n.inv[q] = w.inv[q]
  <1> DEFINE n == WithSession(w, p, r)
  <1>1. /\ n \in [inv : [Side -> Session], tsx : Seq(Txn)]
        /\ n.tsx = w.tsx /\ n.inv[p] = r
        /\ \A q \in Side \ {p} : n.inv[q] = w.inv[q]
    BY ShapeType DEF WithSession
  <1> HIDE DEF n
  <1>2. Shape(n)
    BY <1>1 DEF Shape
  <1> QED BY <1>1, <1>2 DEF n

\* What may become of the session of p.
Allowed(w, p, r) ==
    /\ r \in Session
    /\ r.state >= w.inv[p].state
    /\ r.state = DISCONNECTED => r.cause # 0
    /\ r.remote_cseq \in 0..Len(w.tsx)
    /\ \/ r.invite_tsx = w.inv[p].invite_tsx
       \/ /\ r.invite_tsx = 0 /\ w.inv[p].invite_tsx # 0
          /\ ~Pending(p, w.tsx[w.inv[p].invite_tsx])
    /\ \/ MayTimeout
       \/ /\ r.cause # 408
          /\ p = "B" /\ r.state = CONFIRMED => w.inv["A"].state >= CONFIRMED

\* A session replaced by one it may become is a good step.
LEMMA SessionStep ==
    ASSUME NEW w, NEW p \in Side, NEW x, GoodBut(w, p, x), NEW r, Allowed(w, p, r)
    PROVE  LET n == WithSession(w, p, r)
           IN /\ Step(w, n, p, x)
              /\ n.tsx = w.tsx /\ n.inv[p] = r
              /\ \A q \in Side \ {p} : n.inv[q] = w.inv[q]
  <1> DEFINE n == WithSession(w, p, r)
  <1>0. Shape(w)
    BY DEF GoodBut
  <1>1. /\ Shape(n) /\ n.tsx = w.tsx /\ n.inv[p] = r
        /\ \A q \in Side \ {p} : n.inv[q] = w.inv[q]
    BY <1>0, ShapeType, SessionTyped DEF Allowed, Shape
  <1> HIDE DEF n
  <1>2. /\ \A q \in Side : w.inv[q] \in Session /\ n.inv[q] \in Session
        /\ \A q \in Side : /\ w.inv[q].state \in 0..6 /\ n.inv[q].state \in 0..6
                           /\ w.inv[q].state <= n.inv[q].state
        /\ Len(w.tsx) \in Nat
    <2>1. \A q \in Side : w.inv[q] \in Session /\ n.inv[q] \in Session
                         /\ w.inv[q].state \in 0..6 /\ n.inv[q].state \in 0..6
      BY <1>0, <1>1, Facts
    <2>2. \A q \in Side : w.inv[q].state <= n.inv[q].state
      BY <2>1, <1>1 DEF Allowed
    <2> QED BY <2>1, <2>2, <1>0, Facts
  <1>3. Met(n)
    BY <1>2 DEF GoodBut, Met, NULL
  <1>4. HoldsBut(n, p, x)
    BY <1>1 DEF GoodBut, HoldsBut, Allowed
  <1>5. NoneEscapes(n)
    <2> SUFFICES ASSUME NEW q \in Side, NEW k \in 1..Len(w.tsx),
                        n.inv[q].state # DISCONNECTED, Pending(q, w.tsx[k])
                 PROVE  n.inv[q].invite_tsx = k
      BY <1>1 DEF NoneEscapes
    <2>1. w.inv[q].state # DISCONNECTED
      BY <1>2 DEF DISCONNECTED
    <2>2. w.inv[q].invite_tsx = k
      BY <2>1 DEF GoodBut, NoneEscapes
    <2> QED BY <2>2, <1>1 DEF Allowed
  <1>6. OneBusy(n)
    BY <1>1, <1>2 DEF GoodBut, OneBusy, DISCONNECTED
  <1>7. AckedConfirms(n)
    <2>1. \A k \in 1..Len(w.tsx) : w.tsx[k].by \in Side
      BY <1>0, Facts
    <2> SUFFICES ASSUME NEW k \in 1..Len(w.tsx), w.tsx[k].acked
                 PROVE  n.inv[w.tsx[k].by].state >= CONFIRMED
      BY <1>1 DEF AckedConfirms
    <2>2. w.inv[w.tsx[k].by].state >= CONFIRMED
      BY DEF GoodBut, AckedConfirms
    <2> DEFINE a == w.inv[w.tsx[k].by].state
               b == n.inv[w.tsx[k].by].state
    <2>3. a \in 0..6 /\ b \in 0..6 /\ a <= b
      BY <2>1, <1>2
    <2> QED BY <2>2, <2>3, SMTT(20) DEF CONFIRMED
  <1>8. CallerFirst(n)
    <2> SUFFICES ASSUME ~MayTimeout PROVE CallerFirst(n)
      BY DEF CallerFirst
    <2> DEFINE a == w.inv["A"].state
               b == n.inv["A"].state
    <2>0. "A" \in Side /\ "B" \in Side
      BY DEF Side
    <2>1. a \in 0..6 /\ b \in 0..6 /\ a <= b
      BY <1>2, <2>0
    <2>2. n.inv["B"].state = CONFIRMED => a >= CONFIRMED
      <3>1. CASE p = "B"
        BY <3>1, <1>1 DEF Allowed
      <3>2. CASE p # "B"
        BY <3>2, <2>0, <1>1 DEF GoodBut, CallerFirst
      <3> QED BY <3>1, <3>2
    <2>3. \A k \in 1..Len(w.tsx) : w.tsx[k].by = "B" => a >= CONFIRMED
      BY DEF GoodBut, CallerFirst
    <2>4. a >= CONFIRMED => b >= CONFIRMED
      BY <2>1 DEF CONFIRMED
    <2>5. \A q \in Side : n.inv[q].cause # 408
      BY <1>1 DEF GoodBut, CallerFirst, Allowed
    <2>6. \A k \in 1..Len(w.tsx) : w.tsx[k].scode # 408 /\ w.tsx[k].ccode # 408
      BY DEF GoodBut, CallerFirst
    <2> HIDE DEF a
    <2> QED BY <2>2, <2>3, <2>4, <2>5, <2>6, <1>1 DEF CallerFirst
  <1>9. Grows(w, n)
    BY <1>1, <1>2 DEF Grows
  <1> QED BY <1>1, <1>3, <1>4, <1>5, <1>6, <1>7, <1>8, <1>9 DEF Step, GoodBut, n

\* Replacing a transaction changes that transaction only.
LEMMA TxnTyped ==
    ASSUME NEW w, Shape(w), NEW i \in 1..Len(w.tsx), NEW t \in Txn,
           t.of = w.tsx[i].of
    PROVE  LET n == WithTxn(w, i, t)
           IN /\ Shape(n) /\ n.inv = w.inv /\ Len(n.tsx) = Len(w.tsx)
              /\ n.tsx[i] = t
              /\ \A k \in 1..Len(w.tsx) \ {i} : n.tsx[k] = w.tsx[k]
  <1> DEFINE n == WithTxn(w, i, t)
  <1>1. /\ n \in [inv : [Side -> Session], tsx : Seq(Txn)]
        /\ n.inv = w.inv /\ Len(n.tsx) = Len(w.tsx)
        /\ n.tsx[i] = t
        /\ \A k \in 1..Len(w.tsx) \ {i} : n.tsx[k] = w.tsx[k]
    BY ShapeType DEF WithTxn
  <1> HIDE DEF n
  <1>2. Shape(n)
    BY <1>1 DEF Shape
  <1> QED BY <1>1, <1>2 DEF n

\* INVITE i may be answered: no other one is, or a session has ended.
Clear(w, i) ==
    \/ \E q \in Side : w.inv[q].state = DISCONNECTED
    \/ \A k \in 1..Len(w.tsx) : Busy(w.tsx[k]) => k = i

\* Transaction i may become t: it stays held where it must be, opens no INVITE
\* behind a session's back, and is no second one being answered.
Turns(w, p, x, i, t) ==
    LET o == w.tsx[i]
    IN /\ i \in 1..Len(w.tsx) /\ t \in Txn
       /\ t.method = o.method /\ t.by = o.by /\ t.of = o.of
       /\ OpenAt(t) => OpenAt(o)
       /\ \A q \in Side :
             w.inv[q].invite_tsx = i /\ ~(q = p /\ i = x) /\ Held(q, o) => Held(q, t)
       /\ \A q \in Side : w.inv[q].state # DISCONNECTED /\ Pending(q, t)
                             => w.inv[q].invite_tsx = i
       /\ Busy(t) => Busy(o) \/ Clear(w, i)
       /\ t.acked => o.acked \/ w.inv[o.by].state >= CONFIRMED
       /\ \/ MayTimeout
          \/ t.scode # 408 /\ t.ccode # 408

\* A transaction replaced by one it may become is a good step.
LEMMA TxnStep ==
    ASSUME NEW w, NEW p \in Side, NEW x, GoodBut(w, p, x),
           NEW i \in 1..Len(w.tsx), NEW t, Turns(w, p, x, i, t)
    PROVE  LET n == WithTxn(w, i, t)
           IN /\ Step(w, n, p, x)
              /\ n.inv = w.inv /\ n.tsx[i] = t /\ Len(n.tsx) = Len(w.tsx)
  <1> DEFINE n == WithTxn(w, i, t)
  <1>0. Shape(w) /\ i \in 1..Len(w.tsx) /\ t \in Txn /\ t.of = w.tsx[i].of
    BY DEF GoodBut, Turns
  <1>1. /\ Shape(n) /\ n.inv = w.inv /\ Len(n.tsx) = Len(w.tsx)
        /\ n.tsx[i] = t
        /\ \A k \in 1..Len(w.tsx) \ {i} : n.tsx[k] = w.tsx[k]
    BY <1>0, TxnTyped
  <1> HIDE DEF n
  <1>2. /\ \A q \in Side : w.inv[q].state \in 0..6
        /\ Len(w.tsx) \in Nat
    BY <1>0, Facts
  <1>3. Met(n)
    BY <1>1 DEF GoodBut, Met
  <1>4. HoldsBut(n, p, x)
    <2> SUFFICES ASSUME NEW q \in Side, NEW k \in 1..Len(w.tsx), w.inv[q].invite_tsx = k
                 PROVE  /\ n.tsx[k].method = "INVITE"
                        /\ ~(q = p /\ k = x) => Held(q, n.tsx[k])
      BY <1>1 DEF HoldsBut
    <2>1. /\ w.tsx[k].method = "INVITE"
          /\ ~(q = p /\ k = x) => Held(q, w.tsx[k])
      BY DEF GoodBut, HoldsBut
    <2>2. CASE k = i
      BY <2>1, <2>2, <1>1 DEF Turns
    <2>3. CASE k # i
      BY <2>1, <2>3, <1>1
    <2> QED BY <2>2, <2>3
  <1>5. NoneEscapes(n)
    <2> SUFFICES ASSUME NEW q \in Side, NEW k \in 1..Len(w.tsx),
                        w.inv[q].state # DISCONNECTED, Pending(q, n.tsx[k])
                 PROVE  w.inv[q].invite_tsx = k
      BY <1>1 DEF NoneEscapes
    <2>2. CASE k = i
      BY <2>2, <1>1 DEF Turns
    <2>3. CASE k # i
      BY <2>3, <1>1 DEF GoodBut, NoneEscapes
    <2> QED BY <2>2, <2>3
  <1>6. OneBusy(n)
    <2> SUFFICES ASSUME NEW j \in 1..Len(w.tsx), NEW k \in 1..Len(w.tsx), j # k,
                        Busy(n.tsx[j]), Busy(n.tsx[k])
                 PROVE  \E q \in Side : w.inv[q].state = DISCONNECTED
      BY <1>1 DEF OneBusy
    <2>1. CASE Clear(w, i)
      <3>1. CASE j = i
        BY <2>1, <3>1, <1>1 DEF Clear
      <3>2. CASE k = i
        BY <2>1, <3>2, <1>1 DEF Clear
      <3>3. CASE j # i /\ k # i
        BY <3>3, <1>1 DEF GoodBut, OneBusy
      <3> QED BY <3>1, <3>2, <3>3
    <2>2. CASE ~Clear(w, i)
      <3>1. Busy(w.tsx[j]) /\ Busy(w.tsx[k])
        BY <2>2, <1>1 DEF Turns
      <3> QED BY <3>1 DEF GoodBut, OneBusy
    <2> QED BY <2>1, <2>2
  <1>7. AckedConfirms(n)
    BY <1>1 DEF GoodBut, AckedConfirms, Turns
  <1>8. CallerFirst(n)
    BY <1>1 DEF GoodBut, CallerFirst, Turns
  <1>9. Grows(w, n)
    <2>1. \A k \in 1..Len(w.tsx) :
             /\ n.tsx[k].method = w.tsx[k].method /\ n.tsx[k].by = w.tsx[k].by
             /\ OpenAt(n.tsx[k]) => OpenAt(w.tsx[k])
      BY <1>1 DEF Turns
    <2>2. \A q \in Side : w.inv[q].state <= n.inv[q].state
      BY <1>1, <1>2
    <2>3. Len(w.tsx) <= Len(n.tsx)
      BY <1>1, <1>2
    <2> QED BY <2>1, <2>2, <2>3 DEF Grows
  <1> QED BY <1>1, <1>3, <1>4, <1>5, <1>6, <1>7, <1>8, <1>9 DEF Step, GoodBut, n

------------------------------------------------------------------------------
(* Requests.                                                               *)
------------------------------------------------------------------------------
\* p may send requests without the caller's being late.
Free(w, p) == MayTimeout \/ p = "A" \/ w.inv["A"].state >= CONFIRMED

\* Codes are numbers.
LEMMA CodesNat ==
    Codes \subseteq Nat
  BY DEF Codes

\* Who may send requests still may later.
LEMMA FreeStays ==
    ASSUME NEW w, NEW n, NEW p \in Side, Shape(w), Shape(n), Grows(w, n), Free(w, p)
    PROVE  Free(n, p)
  <1>1. "A" \in Side
    BY DEF Side
  <1>2. w.inv["A"].state \in 0..6 /\ n.inv["A"].state \in 0..6
    BY <1>1, Facts
  <1>3. w.inv["A"].state <= n.inv["A"].state
    BY <1>1 DEF Grows
  <1> QED BY <1>2, <1>3 DEF Free, CONFIRMED

\* Who is confirmed, or has sent a request, may send requests.
LEMMA FreeWhenMet ==
    ASSUME NEW w, NEW p \in Side, NEW x, GoodBut(w, p, x),
           \/ w.inv[p].state = CONFIRMED
           \/ \E k \in 1..Len(w.tsx) : w.tsx[k].by = p
    PROVE  Free(w, p)
  BY DEF GoodBut, CallerFirst, Free, Side

\* A new transaction.
Fresh(p, m, of) ==
    [method |-> m, by |-> p, of |-> of, c |-> "CALLING", ccode |-> 0,
     s |-> "NONE", scode |-> 0, acked |-> FALSE]

\* The fields of a new transaction.
LEMMA FreshFields ==
    ASSUME NEW p, NEW m, NEW of, p \in Side, m \in {"INVITE", "CANCEL", "BYE"}, of \in Nat
    PROVE  LET t == Fresh(p, m, of)
           IN /\ t \in Txn /\ t.method = m /\ t.by = p /\ t.of = of /\ t.c = "CALLING"
              /\ t.ccode = 0 /\ t.s = "NONE" /\ t.scode = 0 /\ ~t.acked /\ ~Busy(t)
  BY DEF Txn, Codes, Fresh, Busy

\* What is written to a world's transactions is all that changes.
PutTsx(w, s) == [w EXCEPT !.tsx = s]

LEMMA TsxWritten ==
    ASSUME NEW w, w \in [inv : [Side -> Session], tsx : Seq(Txn)], NEW s
    PROVE  PutTsx(w, s) = [inv |-> w.inv, tsx |-> s]
  BY DEF PutTsx

\* A request is added behind the others.
LEMMA RequestShape ==
    ASSUME NEW w, NEW p, NEW m, NEW of, p \in Side, Shape(w),
           m \in {"INVITE", "CANCEL", "BYE"}, of \in 0..Len(w.tsx)
    PROVE  LET n == Request(w, p, m, of)
               L == Len(w.tsx)
           IN /\ Shape(n) /\ n.inv = w.inv /\ Len(n.tsx) = L + 1
              /\ n.tsx[L + 1] = Fresh(p, m, of)
              /\ \A k \in 1..L : n.tsx[k] = w.tsx[k]
  <1> DEFINE n == Request(w, p, m, of)
             t == Fresh(p, m, of)
             L == Len(w.tsx)
  <1>0. /\ w \in [inv : [Side -> Session], tsx : Seq(Txn)]
        /\ L \in Nat /\ w.inv \in [Side -> Session] /\ w.tsx \in Seq(Txn)
    BY ShapeType
  <1>1. /\ n.inv = w.inv /\ n.tsx = Append(w.tsx, t)
        /\ n = [inv |-> w.inv, tsx |-> Append(w.tsx, t)]
    <2>1. n = PutTsx(w, Append(w.tsx, t))
      BY DEF Request, Fresh, PutTsx
    <2> HIDE DEF n, t
    <2>2. n = [inv |-> w.inv, tsx |-> Append(w.tsx, t)]
      BY <1>0, <2>1, TsxWritten
    <2> QED BY <2>2
  <1>2. t \in Txn /\ t.of = of
    BY <1>0, FreshFields
  <1> HIDE DEF n, t
  <1>3. Append(w.tsx, t) \in Seq(Txn) /\ Len(Append(w.tsx, t)) = L + 1
        /\ \A k \in 1..(L + 1) :
              Append(w.tsx, t)[k] = IF k = L + 1 THEN t ELSE w.tsx[k]
    BY <1>0, <1>2
  <1>4. /\ Len(n.tsx) = L + 1 /\ n.tsx[L + 1] = t
        /\ \A k \in 1..L : n.tsx[k] = w.tsx[k]
        /\ n \in [inv : [Side -> Session], tsx : Seq(Txn)]
    BY <1>0, <1>1, <1>3
  <1>5. 1..(L + 1) = 1..L \cup {L + 1} /\ L <= L + 1
    BY <1>0
  <1> HIDE DEF L
  <1>6. Shape(n)
    <2>1. 0..L \subseteq 0..(L + 1)
      BY <1>0 DEF L
    <2>2. \A q \in Side :
            /\ {n.inv[q].invite_tsx, n.inv[q].remote_cseq} \subseteq 0..(L + 1)
            /\ n.inv[q].state = DISCONNECTED => n.inv[q].cause # 0
      BY <1>0, <1>1, <2>1 DEF Shape, L
    <2>3. \A i \in 1..(L + 1) : n.tsx[i].of \in 0..(L + 1)
      BY <1>0, <1>2, <1>4, <1>5, <2>1 DEF Shape, L
    <2> QED BY <2>2, <2>3, <1>4 DEF Shape
  <1> QED BY <1>1, <1>4, <1>6 DEF n, t, L

\* Sending CANCEL or BYE is a good step.
LEMMA RequestStep ==
    ASSUME NEW w, NEW p \in Side, NEW x, GoodBut(w, p, x), Free(w, p),
           NEW m \in {"CANCEL", "BYE"}, NEW of \in 0..Len(w.tsx)
    PROVE  LET n == Request(w, p, m, of)
           IN /\ Step(w, n, p, x)
              /\ n.inv = w.inv
              /\ \A k \in 1..Len(w.tsx) : n.tsx[k] = w.tsx[k]
  <1> DEFINE n == Request(w, p, m, of)
             t == Fresh(p, m, of)
             L == Len(w.tsx)
  <1>0. Shape(w) /\ L \in Nat
    BY Facts DEF GoodBut
  <1>2. t.method = m /\ t.by = p /\ t.ccode = 0 /\ t.scode = 0 /\ ~t.acked /\ ~Busy(t)
    BY <1>0, FreshFields
  <1>4. /\ Shape(n) /\ n.inv = w.inv /\ Len(n.tsx) = L + 1 /\ n.tsx[L + 1] = t
        /\ \A k \in 1..L : n.tsx[k] = w.tsx[k]
    BY <1>0, RequestShape
  <1>5. 1..(L + 1) = 1..L \cup {L + 1} /\ L <= L + 1
    BY <1>0
  <1> HIDE DEF L, n, t
  <1>7. Met(n)
    BY <1>4 DEF GoodBut, Met
  <1>8. HoldsBut(n, p, x)
    <2>1. \A q \in Side : w.inv[q].invite_tsx # L + 1
      BY <1>0, Facts DEF L
    <2> QED BY <2>1, <1>4, <1>5 DEF GoodBut, HoldsBut, L
  <1>9. NoneEscapes(n)
    <2>1. \A q : ~Pending(q, t)
      BY <1>2 DEF Pending
    <2> QED BY <2>1, <1>4, <1>5 DEF GoodBut, NoneEscapes, L
  <1>10. OneBusy(n)
    BY <1>2, <1>4, <1>5 DEF GoodBut, OneBusy, L
  <1>11. AckedConfirms(n)
    BY <1>2, <1>4, <1>5 DEF GoodBut, AckedConfirms, L
  <1>12. CallerFirst(n)
    <2> SUFFICES ASSUME ~MayTimeout PROVE CallerFirst(n)
      BY DEF CallerFirst
    <2>1. /\ w.inv["B"].state = CONFIRMED => w.inv["A"].state >= CONFIRMED
          /\ \A k \in 1..L : w.tsx[k].by = "B" => w.inv["A"].state >= CONFIRMED
          /\ \A q \in Side : w.inv[q].cause # 408
          /\ \A k \in 1..L : w.tsx[k].scode # 408 /\ w.tsx[k].ccode # 408
      BY DEF GoodBut, CallerFirst, L
    <2>2. t.by = "B" => w.inv["A"].state >= CONFIRMED
      BY <1>2 DEF Free
    <2>3. \A k \in 1..(L + 1) : n.tsx[k].by = "B" => w.inv["A"].state >= CONFIRMED
      BY <2>1, <2>2, <1>4, <1>5
    <2>4. \A k \in 1..(L + 1) : n.tsx[k].scode # 408 /\ n.tsx[k].ccode # 408
      <3>1. 0 # 408
        OBVIOUS
      <3> QED BY <2>1, <3>1, <1>2, <1>4, <1>5
    <2> QED BY <2>1, <2>3, <2>4, <1>4 DEF CallerFirst
  <1>13. Grows(w, n)
    <2>1. \A q \in Side : w.inv[q].state \in 0..6
      BY <1>0, Facts
    <2>2. \A q \in Side : w.inv[q].state <= n.inv[q].state
      BY <2>1, <1>4
    <2> QED BY <2>2, <1>4, <1>5 DEF Grows, L
  <1> QED BY <1>4, <1>7, <1>8, <1>9, <1>10, <1>11, <1>12, <1>13
          DEF Step, GoodBut, n, L

\* A good step after which p's session goes on with the same INVITE.
Mild(w, n, p, x) ==
    /\ Step(w, n, p, x)
    /\ n.inv[p].invite_tsx = w.inv[p].invite_tsx
    /\ \A q \in Side \ {p} : n.inv[q] = w.inv[q]
    /\ \A k \in 1..Len(w.tsx) : n.tsx[k] = w.tsx[k]

\* Good steps add up ...
LEMMA StepTrans ==
    ASSUME NEW w, NEW n, NEW o, NEW p, NEW x, NEW y, NEW z,
           GoodBut(w, p, z), Step(w, n, p, y), Step(n, o, p, x)
    PROVE  Step(w, o, p, x)
  BY GrowsTrans DEF Step, GoodBut

\* ... and so do those that keep p's INVITE ...
LEMMA MildTrans ==
    ASSUME NEW w, NEW n, NEW o, NEW p, NEW x,
           GoodBut(w, p, x), Mild(w, n, p, x), Mild(n, o, p, x)
    PROVE  Mild(w, o, p, x)
  <1>1. Step(w, o, p, x)
    BY StepTrans DEF Mild
  <1>2. Len(w.tsx) \in Nat /\ Len(n.tsx) \in Nat /\ Len(w.tsx) <= Len(n.tsx)
    BY Facts DEF Mild, Step, Grows, GoodBut
  <1>3. \A k \in 1..Len(w.tsx) : k \in 1..Len(n.tsx)
    BY <1>2
  <1> QED BY <1>1, <1>3 DEF Mild

\* ... and doing nothing is one.
LEMMA MildSelf ==
    ASSUME NEW w, NEW p, NEW x, GoodBut(w, p, x)
    PROVE  Mild(w, w, p, x)
  <1>1. Len(w.tsx) \in Nat /\ \A q \in Side : w.inv[q].state \in 0..6
    BY Facts DEF GoodBut
  <1> QED BY <1>1 DEF Mild, Step, Grows

------------------------------------------------------------------------------
(* What happens to a session.                                              *)
------------------------------------------------------------------------------
\* A session replaced by one with the same INVITE.
LEMMA SessionMild ==
    ASSUME NEW w, NEW p \in Side, NEW x, GoodBut(w, p, x), NEW r,
           Allowed(w, p, r), r.invite_tsx = w.inv[p].invite_tsx
    PROVE  LET n == WithSession(w, p, r)
           IN Mild(w, n, p, x) /\ n.inv[p] = r /\ n.tsx = w.tsx
  BY SessionStep DEF Mild

\* What GoodBut says of p's session.
LEMMA OwnFacts ==
    ASSUME NEW w, NEW p \in Side, NEW x, GoodBut(w, p, x)
    PROVE  LET r == w.inv[p]
           IN /\ r \in Session /\ r.state \in 0..6 /\ r.state # NULL
              /\ r.state = DISCONNECTED => r.cause # 0
              /\ r.invite_tsx \in 0..Len(w.tsx) /\ r.remote_cseq \in 0..Len(w.tsx)
              /\ \/ MayTimeout
                 \/ /\ r.cause # 408
                    /\ p = "B" /\ r.state = CONFIRMED => w.inv["A"].state >= CONFIRMED
  <1>1. Shape(w) /\ Met(w) /\ CallerFirst(w)
    BY DEF GoodBut
  <1>2. w.inv[p] \in Session /\ w.inv[p].state \in 0..6
    BY <1>1, Facts
  <1>3. /\ w.inv[p].state = DISCONNECTED => w.inv[p].cause # 0
        /\ w.inv[p].invite_tsx \in 0..Len(w.tsx) /\ w.inv[p].remote_cseq \in 0..Len(w.tsx)
    BY <1>1 DEF Shape
  <1> QED BY <1>1, <1>2, <1>3 DEF Met, CallerFirst

\* Flags may change at any time.
LEMMA FlagAllowed ==
    ASSUME NEW w, NEW p \in Side, NEW x, GoodBut(w, p, x),
           NEW f \in {"pending_cancel", "pending_bye", "hanging_up"}, NEW v \in BOOLEAN
    PROVE  LET r == [w.inv[p] EXCEPT ![f] = v]
           IN /\ Allowed(w, p, r) /\ r.invite_tsx = w.inv[p].invite_tsx
              /\ r.state = w.inv[p].state /\ r.cause = w.inv[p].cause
  <1> DEFINE o == w.inv[p]
             r == [o EXCEPT ![f] = v]
  <1>1. /\ o \in Session /\ o.state \in 0..6
        /\ o.state = DISCONNECTED => o.cause # 0
        /\ o.remote_cseq \in 0..Len(w.tsx)
        /\ \/ MayTimeout
           \/ /\ o.cause # 408
              /\ p = "B" /\ o.state = CONFIRMED => w.inv["A"].state >= CONFIRMED
    BY OwnFacts
  <1> HIDE DEF o
  <1>2. /\ r \in Session /\ r.state = o.state /\ r.cause = o.cause
        /\ r.remote_cseq = o.remote_cseq /\ r.invite_tsx = o.invite_tsx
    BY <1>1 DEF Session
  <1> HIDE DEF r
  <1>3. Allowed(w, p, r)
    BY <1>1, <1>2 DEF Allowed, o
  <1> QED BY <1>2, <1>3 DEF r, o

\* Setting a flag.
LEMMA FlagMild ==
    ASSUME NEW w, NEW p \in Side, NEW x, GoodBut(w, p, x),
           NEW f \in {"pending_cancel", "pending_bye", "hanging_up"}, NEW v \in BOOLEAN
    PROVE  LET n == Set(w, p, f, v)
           IN /\ Mild(w, n, p, x) /\ n.tsx = w.tsx
              /\ n.inv[p].state = w.inv[p].state /\ n.inv[p].cause = w.inv[p].cause
  <1> DEFINE r == [w.inv[p] EXCEPT ![f] = v]
             n == Set(w, p, f, v)
  <1>1. /\ Allowed(w, p, r) /\ r.invite_tsx = w.inv[p].invite_tsx
        /\ r.state = w.inv[p].state /\ r.cause = w.inv[p].cause
    BY FlagAllowed
  <1>2. n = WithSession(w, p, r)
    BY SetIs DEF GoodBut
  <1> HIDE DEF r, n
  <1>3. Mild(w, n, p, x) /\ n.inv[p] = r /\ n.tsx = w.tsx
    BY <1>1, <1>2, SessionMild
  <1> QED BY <1>1, <1>3 DEF n

\* Setting the cause; the session then has one.
LEMMA SetCauseMild ==
    ASSUME NEW w, NEW p \in Side, NEW x, GoodBut(w, p, x),
           NEW code \in Codes \ {0}, MayTimeout \/ code # 408
    PROVE  LET n == SetCause(w, p, code)
           IN /\ Mild(w, n, p, x) /\ n.tsx = w.tsx
              /\ n.inv[p].state = w.inv[p].state /\ n.inv[p].cause # 0
  <1> DEFINE o == w.inv[p]
             r == [o EXCEPT !["cause"] = code]
             n == SetCause(w, p, code)
  <1>1. /\ o \in Session /\ o.state \in 0..6
        /\ o.remote_cseq \in 0..Len(w.tsx)
        /\ \/ MayTimeout
           \/ /\ o.cause # 408
              /\ p = "B" /\ o.state = CONFIRMED => w.inv["A"].state >= CONFIRMED
    BY OwnFacts
  <1>2. CASE code > o.cause \/ o.pending_bye
    <2>1. /\ r \in Session /\ r.state = o.state /\ r.cause = code
          /\ r.remote_cseq = o.remote_cseq /\ r.invite_tsx = o.invite_tsx
      <3> HIDE DEF o
      <3> QED BY <1>1 DEF Session
    <2>5. n = WithSession(w, p, r)
      BY <1>2, SetIs DEF SetCause, GoodBut
    <2> HIDE DEF r
    <2>2. Allowed(w, p, r)
      BY <1>1, <2>1 DEF Allowed
    <2> HIDE DEF n
    <2>3. Mild(w, n, p, x) /\ n.inv[p] = r /\ n.tsx = w.tsx
      BY <2>1, <2>2, <2>5, SessionMild
    <2> QED BY <2>1, <2>3 DEF n
  <1>3. CASE ~(code > o.cause \/ o.pending_bye)
    <2>1. n = w
      BY <1>3 DEF SetCause
    <2>2. o.cause # 0
      <3>1. o.cause \in Nat /\ code \in Nat
        BY <1>1, CodesNat DEF Session
      <3> QED BY <3>1, <1>3
    <2> HIDE DEF n
    <2> QED BY <2>1, <2>2, MildSelf DEF n
  <1> QED BY <1>2, <1>3

\* Sending BYE, or noting that it has to wait for the ACK.
LEMMA SendByeMild ==
    ASSUME NEW w, NEW p \in Side, NEW x, GoodBut(w, p, x),
           Free(w, p) \/ w.inv[p].state \in {CONNECTING, CONFIRMED}
    PROVE  LET n == SendBye(w, p)
           IN /\ Mild(w, n, p, x)
              /\ n.inv[p].state = w.inv[p].state /\ n.inv[p].cause = w.inv[p].cause
  <1> DEFINE n == SendBye(w, p)
  <1>1. CASE p = "B" /\ w.inv[p].state = CONNECTING /\ w.inv[p].cause # 408
    <2>1. n = Set(w, p, "pending_bye", TRUE)
      BY <1>1 DEF SendBye, St
    <2>2. LET m == Set(w, p, "pending_bye", TRUE)
          IN /\ Mild(w, m, p, x)
             /\ m.inv[p].state = w.inv[p].state /\ m.inv[p].cause = w.inv[p].cause
      BY FlagMild
    <2> HIDE DEF n
    <2> QED BY <2>1, <2>2 DEF n
  <1>2. CASE ~(p = "B" /\ w.inv[p].state = CONNECTING /\ w.inv[p].cause # 408)
    <2>1. n = Request(w, p, "BYE", 0)
      BY <1>2 DEF SendBye, St
    <2>2. Free(w, p)
      <3>1. CASE w.inv[p].state = CONFIRMED
        BY <3>1, FreeWhenMet
      <3>2. CASE w.inv[p].state = CONNECTING
        BY <3>2, <1>2, OwnFacts DEF Free, Side
      <3> QED BY <3>1, <3>2
    <2>3. 0 \in 0..Len(w.tsx)
      BY Facts DEF GoodBut
    <2> HIDE DEF n
    <2>4. /\ Step(w, n, p, x) /\ n.inv = w.inv
          /\ \A k \in 1..Len(w.tsx) : n.tsx[k] = w.tsx[k]
      BY <2>1, <2>2, <2>3, RequestStep
    <2> QED BY <2>4 DEF Mild, n
  <1> QED BY <1>1, <1>2

\* What inv_set_state does after the state is set.
AfterState(n, p, state) ==
    IF state = CONFIRMED /\ n.inv[p].hanging_up
    THEN SendBye(SetCause(n, p, 200), p) ELSE n

\* SetState in two parts.
LEMMA SetStateIs ==
    ASSUME NEW w, NEW p, NEW state
    PROVE  SetState(w, p, state) = AfterState(Set(w, p, "state", state), p, state)
  BY DEF SetState, AfterState

\* A call that was hung up and is confirmed all the same is ended.
LEMMA AfterStateMild ==
    ASSUME NEW w, NEW p \in Side, NEW x, GoodBut(w, p, x), NEW state,
           w.inv[p].state = state
    PROVE  LET n == AfterState(w, p, state)
           IN /\ Mild(w, n, p, x) /\ n.inv[p].state = state
  <1> DEFINE n == AfterState(w, p, state)
             m == SetCause(w, p, 200)
  <1>1. CASE state = CONFIRMED /\ w.inv[p].hanging_up
    <2>1. 200 \in Codes \ {0} /\ 200 # 408
      BY DEF Codes
    <2>2. Mild(w, m, p, x) /\ m.inv[p].state = state
      BY <2>1, SetCauseMild
    <2>3. n = SendBye(m, p)
      BY <1>1 DEF AfterState
    <2> HIDE DEF m, n
    <2>4. GoodBut(m, p, x)
      BY <2>2 DEF Mild, Step
    <2>5. Mild(m, n, p, x) /\ n.inv[p].state = state
      BY <2>2, <2>3, <2>4, <1>1, SendByeMild
    <2> QED BY <2>2, <2>5, MildTrans DEF n
  <1>2. CASE ~(state = CONFIRMED /\ w.inv[p].hanging_up)
    <2>1. n = w
      BY <1>2 DEF AfterState
    <2> HIDE DEF n
    <2> QED BY <2>1, MildSelf DEF n
  <1> QED BY <1>1, <1>2

\* A session in another state.
InState(r, state) == [r EXCEPT !["state"] = state]

\* The state may go forward.
LEMMA StateAllowed ==
    ASSUME NEW w, NEW p \in Side, NEW x, GoodBut(w, p, x), NEW state \in 0..6,
           w.inv[p].state <= state,
           state = DISCONNECTED => w.inv[p].cause # 0,
           p = "B" /\ state = CONFIRMED => Free(w, p)
    PROVE  LET r == InState(w.inv[p], state)
           IN /\ Allowed(w, p, r) /\ r.invite_tsx = w.inv[p].invite_tsx
              /\ r.state = state
  <1> DEFINE o == w.inv[p]
             r == InState(o, state)
  <1>1. /\ o \in Session /\ o.state \in 0..6 /\ o.remote_cseq \in 0..Len(w.tsx)
        /\ MayTimeout \/ o.cause # 408
        /\ state = DISCONNECTED => o.cause # 0
        /\ o.state <= state
    BY OwnFacts
  <1> HIDE DEF o
  <1>2. /\ r \in Session /\ r.state = state /\ r.cause = o.cause
        /\ r.remote_cseq = o.remote_cseq /\ r.invite_tsx = o.invite_tsx
    BY <1>1 DEF InState, Session, NULL, DISCONNECTED
  <1> HIDE DEF r
  <1>3. MayTimeout \/ (p = "B" /\ r.state = CONFIRMED => w.inv["A"].state >= CONFIRMED)
    BY <1>2 DEF Free
  <1>4. Allowed(w, p, r)
    BY <1>1, <1>2, <1>3 DEF Allowed, o
  <1> QED BY <1>2, <1>4 DEF r, o

\* inv_set_state, going forward.
LEMMA SetStateMild ==
    ASSUME NEW w, NEW p \in Side, NEW x, GoodBut(w, p, x), NEW state \in 0..6,
           w.inv[p].state <= state,
           state = DISCONNECTED => w.inv[p].cause # 0,
           p = "B" /\ state = CONFIRMED => Free(w, p)
    PROVE  LET n == SetState(w, p, state)
           IN /\ Mild(w, n, p, x) /\ n.inv[p].state = state
  <1> DEFINE m == Set(w, p, "state", state)
             n == SetState(w, p, state)
  <1>1. Mild(w, m, p, x) /\ m.inv[p].state = state
    <2> DEFINE r == InState(w.inv[p], state)
    <2>1. /\ Allowed(w, p, r) /\ r.invite_tsx = w.inv[p].invite_tsx
          /\ r.state = state
      BY StateAllowed
    <2>2. m = WithSession(w, p, r)
      BY SetIs DEF GoodBut, InState
    <2> HIDE DEF r, m
    <2>3. Mild(w, m, p, x) /\ m.inv[p] = r /\ m.tsx = w.tsx
      BY <2>1, <2>2, SessionMild
    <2> QED BY <2>1, <2>3
  <1>2. n = AfterState(m, p, state)
    BY SetStateIs
  <1> HIDE DEF m, n
  <1>3. GoodBut(m, p, x)
    BY <1>1 DEF Mild, Step
  <1>4. Mild(m, n, p, x) /\ n.inv[p].state = state
    BY <1>1, <1>2, <1>3, AfterStateMild
  <1> QED BY <1>1, <1>4, MildTrans DEF n

\* A session ends with a cause.
LEMMA DisconnectMild ==
    ASSUME NEW w, NEW p \in Side, NEW x, GoodBut(w, p, x),
           NEW code \in Codes \ {0}, MayTimeout \/ code # 408
    PROVE  LET n == Disconnect(w, p, code)
           IN /\ Mild(w, n, p, x) /\ n.inv[p].state = DISCONNECTED
  <1> DEFINE m == SetCause(w, p, code)
             n == Disconnect(w, p, code)
  <1>1. Mild(w, m, p, x) /\ m.inv[p].state = w.inv[p].state /\ m.inv[p].cause # 0
    BY SetCauseMild
  <1>2. n = SetState(m, p, DISCONNECTED)
    BY DEF Disconnect
  <1> HIDE DEF m, n
  <1>3. GoodBut(m, p, x)
    BY <1>1 DEF Mild, Step
  <1>4. /\ m.inv[p].state <= DISCONNECTED /\ DISCONNECTED \in 0..6
        /\ DISCONNECTED # CONFIRMED
    BY <1>3, OwnFacts DEF DISCONNECTED, CONFIRMED
  <1>5. Mild(m, n, p, x) /\ n.inv[p].state = DISCONNECTED
    BY <1>1, <1>2, <1>3, <1>4, SetStateMild
  <1> QED BY <1>1, <1>3, <1>5, MildTrans DEF n

\* Forgetting an INVITE that is not pending.
LEMMA ForgetStep ==
    ASSUME NEW w, NEW p \in Side, NEW x, GoodBut(w, p, x),
           NEW i \in 1..Len(w.tsx), ~Pending(p, w.tsx[i])
    PROVE  LET n == Forget(w, p, i)
           IN /\ Step(w, n, p, x) /\ n.inv[p].invite_tsx # i
              /\ n.tsx = w.tsx /\ n.inv[p].state = w.inv[p].state
  <1> DEFINE o == w.inv[p]
             r == [o EXCEPT !["invite_tsx"] = 0]
             n == Forget(w, p, i)
  <1>0. i # 0
    BY Facts DEF GoodBut
  <1>1. CASE o.invite_tsx = i
    <2>1. /\ o \in Session /\ o.state \in 0..6
          /\ o.state = DISCONNECTED => o.cause # 0
          /\ o.remote_cseq \in 0..Len(w.tsx)
          /\ \/ MayTimeout
             \/ /\ o.cause # 408
                /\ p = "B" /\ o.state = CONFIRMED => w.inv["A"].state >= CONFIRMED
      BY OwnFacts
    <2>2. ~Pending(p, w.tsx[o.invite_tsx])
      BY <1>1
    <2>3. n = WithSession(w, p, r)
      BY <1>1, SetIs DEF Forget, GoodBut
    <2>4. /\ r \in Session /\ r.state = o.state /\ r.cause = o.cause
          /\ r.remote_cseq = o.remote_cseq /\ r.invite_tsx = 0
      <3> HIDE DEF o
      <3> QED BY <2>1 DEF Session
    <2> HIDE DEF r, n
    <2>5. Allowed(w, p, r)
      BY <2>1, <2>2, <2>4, <1>0, <1>1 DEF Allowed
    <2>6. Step(w, n, p, x) /\ n.tsx = w.tsx /\ n.inv[p] = r
      BY <2>3, <2>5, SessionStep
    <2> QED BY <2>4, <2>6, <1>0 DEF n
  <1>2. CASE o.invite_tsx # i
    <2>1. n = w
      BY <1>2 DEF Forget
    <2>2. Step(w, w, p, x)
      BY MildSelf DEF Mild
    <2> HIDE DEF n
    <2> QED BY <2>1, <2>2, <1>2 DEF n
  <1> QED BY <1>1, <1>2

\* An INVITE that is not in invite_tsx need not be let off.
LEMMA Cleared ==
    ASSUME NEW w, NEW p \in Side, NEW i, GoodBut(w, p, i), w.inv[p].invite_tsx # i
    PROVE  Good(w)
  <1>1. HoldsBut(w, "A", 0)
    BY DEF HoldsBut, GoodBut
  <1> QED BY <1>1 DEF Good, GoodBut

\* What is good is good with any INVITE let off.
LEMMA Exempts ==
    ASSUME NEW w, NEW p \in Side, NEW x, Good(w)
    PROVE  GoodBut(w, p, x)
  <1>1. Len(w.tsx) \in Nat
    BY Facts DEF Good, GoodBut
  <1>2. HoldsBut(w, p, x)
    BY <1>1 DEF HoldsBut, Good, GoodBut
  <1> QED BY <1>2 DEF Good, GoodBut

------------------------------------------------------------------------------
(* Responses sent.                                                         *)
------------------------------------------------------------------------------
\* The codes a server answers with of its own accord.
Replies == {100, 180, 200, 486, 487, 488, 491, 500, 603}

\* Replies are codes, and not that of a timeout.
LEMMA ReplyFacts ==
    ASSUME NEW code \in Replies
    PROVE  code \in Codes \ {0} /\ code # 408 /\ code \in Nat
  BY DEF Replies, Codes

\* A response may be sent: no second INVITE gets answered.
MayRespond(w, p, i, code) ==
    code < 300 /\ i # 0 /\ w.tsx[i].method = "INVITE"
    => /\ w.tsx[i].by # p /\ w.inv[p].invite_tsx = i
       /\ Busy(w.tsx[i]) \/ Clear(w, i)

\* Transaction o with the reply code.
Replied(o, code, s) == [o EXCEPT !.scode = code, !.s = s]

\* The fields of an answered transaction.
LEMMA ReplyFields ==
    ASSUME NEW o \in Txn, NEW code \in Codes, NEW s \in {"PROCEEDING", "COMPLETED"}
    PROVE  LET t == Replied(o, code, s)
           IN /\ t \in Txn /\ t.method = o.method /\ t.by = o.by /\ t.of = o.of
              /\ t.c = o.c /\ t.ccode = o.ccode /\ t.acked = o.acked
              /\ t.s = s /\ t.scode = code
  BY DEF Txn, Replied

\* A transaction may become answered.
LEMMA ReplyTurns ==
    ASSUME NEW w, NEW p \in Side, NEW x, GoodBut(w, p, x),
           NEW i \in 1..Len(w.tsx), NEW code \in Replies, MayRespond(w, p, i, code)
    PROVE  LET s == IF code < 200 THEN "PROCEEDING" ELSE "COMPLETED"
               t == Replied(w.tsx[i], code, s)
           IN Turns(w, p, x, i, t) /\ t.s \in {"PROCEEDING", "COMPLETED"}
  <1> DEFINE o == w.tsx[i]
             s == IF code < 200 THEN "PROCEEDING" ELSE "COMPLETED"
             t == Replied(o, code, s)
  <1>1. /\ o \in Txn /\ o.by \in Side /\ o.ccode \in Codes /\ i # 0
        /\ code \in Codes /\ code # 408 /\ code \in Nat
        /\ MayTimeout \/ o.ccode # 408
    BY Facts, ReplyFacts DEF GoodBut, CallerFirst
  <1>2. MayRespond(w, p, i, code)
    OBVIOUS
  <1>9. o = w.tsx[i]
    OBVIOUS
  <1>0. /\ s \in {"PROCEEDING", "COMPLETED"}
        /\ s = "PROCEEDING" => code < 200
    OBVIOUS
  <1> HIDE DEF o, s
  <1>3. /\ t \in Txn /\ t.method = o.method /\ t.by = o.by /\ t.of = o.of
        /\ t.c = o.c /\ t.ccode = o.ccode /\ t.acked = o.acked
        /\ t.s = s /\ t.scode = code /\ t.s \in {"PROCEEDING", "COMPLETED"}
    BY <1>0, <1>1, ReplyFields
  <1>4. Busy(t) => t.method = "INVITE" /\ code < 300
    BY <1>0, <1>3, <1>1 DEF Busy
  <1> HIDE DEF t
  <1>5. /\ \A q \in Side : Held(q, o) => Held(q, t)
        /\ OpenAt(t) => OpenAt(o)
    BY <1>3 DEF Held, OpenAt
  <1>6. Busy(t) => Busy(o) \/ Clear(w, i)
    BY <1>1, <1>2, <1>3, <1>4, <1>9 DEF MayRespond
  <1>7. ASSUME NEW q \in Side, w.inv[q].state # DISCONNECTED, Pending(q, t)
        PROVE  w.inv[q].invite_tsx = i
    <2>1. CASE Pending(q, o)
      BY <2>1, <1>7, <1>9 DEF GoodBut, NoneEscapes
    <2>2. CASE ~Pending(q, o)
      <3>1. o.by # q /\ Busy(t)
        BY <2>2, <1>7, <1>3 DEF Pending, OpenAt
      <3>2. o.by # p /\ w.inv[p].invite_tsx = i
        BY <3>1, <1>1, <1>2, <1>3, <1>4, <1>9 DEF MayRespond
      <3>3. q = p
        BY <3>1, <3>2, <1>1 DEF Side
      <3> QED BY <3>2, <3>3
    <2> QED BY <2>1, <2>2
  <1>8. Turns(w, p, x, i, t)
    BY <1>1, <1>3, <1>5, <1>6, <1>7, <1>9 DEF Turns
  <1> QED BY <1>3, <1>8 DEF t, o, s

\* A response that may be sent, with what the session does about it, is a good
\* step; afterwards the transaction is held.
LEMMA RespondStep ==
    ASSUME NEW w, NEW p \in Side, NEW x, GoodBut(w, p, x),
           NEW i \in 0..Len(w.tsx), NEW code \in Replies, MayRespond(w, p, i, code)
    PROVE  LET n == Respond(w, p, i, code)
           IN /\ Step(w, n, p, x)
              /\ n.inv[p].invite_tsx = w.inv[p].invite_tsx
              /\ w.inv[p].state \notin {INCOMING, EARLY} => n.inv = w.inv
              /\ i # 0 => /\ n.tsx[i].s \in {"PROCEEDING", "COMPLETED"}
                          /\ n.tsx[i].by = w.tsx[i].by
  <1> DEFINE s == IF code < 200 THEN "PROCEEDING" ELSE "COMPLETED"
             t == Replied(w.tsx[i], code, s)
             m == [w EXCEPT !.tsx[i] = [@ EXCEPT !.scode = code, !.s = s]]
             n == Respond(w, p, i, code)
  <1>1. m = WithTxn(w, i, t)
    <2>1. m = PutTxn(w, i, t)
      BY DEF PutTxn, Replied
    <2> HIDE DEF t, m
    <2> QED BY <2>1, TxnIs DEF GoodBut
  <1>2. n = IF w.inv[p].invite_tsx # i \/ w.inv[p].state \notin {INCOMING, EARLY} THEN m
            ELSE IF code >= 300 THEN Disconnect(m, p, code)
            ELSE IF code >= 200 THEN SetState(m, p, CONNECTING)
            ELSE IF code > 100 THEN SetState(m, p, EARLY) ELSE m
    BY DEF Respond, St
  <1>3. /\ Step(w, m, p, x) /\ m.inv = w.inv
        /\ i # 0 => /\ m.tsx[i].s \in {"PROCEEDING", "COMPLETED"}
                    /\ m.tsx[i].by = w.tsx[i].by
    <2>1. CASE i \in 1..Len(w.tsx)
      <3>1. Turns(w, p, x, i, t) /\ t.s \in {"PROCEEDING", "COMPLETED"}
        BY <2>1, ReplyTurns
      <3> HIDE DEF t, m
      <3>2. Step(w, m, p, x) /\ m.inv = w.inv /\ m.tsx[i] = t
        BY <2>1, <1>1, <3>1, TxnStep
      <3> QED BY <3>1, <3>2 DEF Turns
    <2>2. CASE i \notin 1..Len(w.tsx)
      <3>1. i = 0
        BY <2>2, Facts DEF GoodBut
      <3>2. WithTxn(w, i, t) = w
        <4> HIDE DEF t
        <4> QED BY <2>2, NoTxnIs DEF GoodBut
      <3>3. Step(w, w, p, x)
        BY MildSelf DEF Mild
      <3> HIDE DEF m, t
      <3> QED BY <1>1, <3>1, <3>2, <3>3
    <2> QED BY <2>1, <2>2
  <1> HIDE DEF m, n
  <1>4. GoodBut(m, p, x) /\ m.inv[p].state = w.inv[p].state
    BY <1>3 DEF Step
  <1>5. code \in Codes \ {0} /\ code # 408 /\ code \in Nat
    BY ReplyFacts
  <1>6. CASE n = m
    BY <1>6, <1>3 DEF n
  <1>7. CASE n # m
    <2>1. w.inv[p].state \in {INCOMING, EARLY} /\ w.inv[p].invite_tsx = i
      BY <1>2, <1>7
    <2>2. Mild(m, n, p, x)
      <3>1. CASE code >= 300
        BY <3>1, <2>1, <1>2, <1>4, <1>5, DisconnectMild
      <3>2. CASE code < 300 /\ code >= 200
        <4>1. m.inv[p].state <= CONNECTING /\ CONNECTING \in 0..6
              /\ CONNECTING # DISCONNECTED /\ CONNECTING # CONFIRMED
          BY <2>1, <1>4 DEF CONNECTING, CONFIRMED, DISCONNECTED, INCOMING, EARLY
        <4>2. n = SetState(m, p, CONNECTING)
          BY <3>2, <2>1, <1>2, <1>5
        <4> QED BY <4>1, <4>2, <1>4, SetStateMild
      <3>3. CASE code < 200
        <4>1. m.inv[p].state <= EARLY /\ EARLY \in 0..6
              /\ EARLY # DISCONNECTED /\ EARLY # CONFIRMED
          BY <2>1, <1>4 DEF CONFIRMED, DISCONNECTED, INCOMING, EARLY
        <4>2. n = SetState(m, p, EARLY)
          BY <3>3, <2>1, <1>2, <1>5, <1>7
        <4> QED BY <4>1, <4>2, <1>4, SetStateMild
      <3> QED BY <3>1, <3>2, <3>3, <1>5
    <2>3. Step(w, n, p, x)
      BY <2>2, <1>3, StepTrans DEF Mild
    <2>4. Len(m.tsx) \in Nat /\ Len(w.tsx) \in Nat /\ Len(w.tsx) <= Len(m.tsx)
      BY <1>3, Facts DEF Step, GoodBut, Grows
    <2>5. i # 0 => i \in 1..Len(m.tsx)
      BY <2>4
    <2> QED BY <2>1, <2>2, <2>3, <2>5, <1>3 DEF Mild, n
  <1> QED BY <1>6, <1>7

\* The CANCEL waits for a response.
PendCancel(w, p) == Set(w, p, "pending_cancel", TRUE)

\* The same without the details.
LEMMA RespondGood ==
    ASSUME NEW w, NEW p \in Side, NEW x, GoodBut(w, p, x),
           NEW i, i \in 0..Len(w.tsx), NEW code, code \in Replies,
           MayRespond(w, p, i, code)
    PROVE  Step(w, Respond(w, p, i, code), p, x)
  BY RespondStep

\* p holds transaction i.
Holding(w, p, i) == Held(p, w.tsx[i])

\* The server of i may answer it with the code.
MayReply(w, p, i, code) ==
    /\ i \in 1..Len(w.tsx) /\ w.tsx[i].by # p
    /\ code \in Replies /\ MayRespond(w, p, i, code)

\* The same for an INVITE that p answers.
LEMMA RespondHeld ==
    ASSUME NEW w, NEW p, NEW x, NEW i, NEW code, p \in Side, GoodBut(w, p, x),
           MayReply(w, p, i, code)
    PROVE  LET n == Respond(w, p, i, code)
           IN Step(w, n, p, x) /\ Holding(n, p, i)
  <1>1. /\ i \in 0..Len(w.tsx) /\ i # 0 /\ w.tsx[i].by # p
        /\ code \in Replies /\ MayRespond(w, p, i, code)
    BY Facts DEF GoodBut, MayReply
  <1> QED BY <1>1, RespondStep DEF Holding, Held

\* Noting that the CANCEL has to wait.
LEMMA PendCancelMild ==
    ASSUME NEW w, NEW p \in Side, NEW x, GoodBut(w, p, x)
    PROVE  LET n == PendCancel(w, p)
           IN Mild(w, n, p, x) /\ n.inv[p].state = w.inv[p].state
  BY FlagMild DEF PendCancel

\* Ending a session, in every state.
LEMMA EndSessionStep ==
    ASSUME NEW w, NEW p \in Side, NEW x, GoodBut(w, p, x),
           NEW code \in {200, 487, 603},
           w.inv[p].state \in {CONNECTING, CONFIRMED} \/ code # 200
    PROVE  LET n == EndSession(w, p, code)
           IN /\ Step(w, n, p, x)
              /\ w.inv[p].state = CALLING => n.inv[p].state = CALLING
  <1> DEFINE m == SetCause(w, p, code)
             i == w.inv[p].invite_tsx
             n == EndSession(w, p, code)
  <1>1. code \in Replies /\ code \in Codes \ {0} /\ code # 408
    BY DEF Replies, Codes
  <1>2. Mild(w, m, p, x) /\ m.tsx = w.tsx /\ m.inv[p].state = w.inv[p].state
    BY <1>1, SetCauseMild
  <1>3. n = IF w.inv[p].state \in {CONNECTING, CONFIRMED} THEN SendBye(m, p)
            ELSE IF w.inv[p].state = DISCONNECTED THEN m
            ELSE IF p = "B" THEN Respond(m, p, i, code)
            ELSE IF w.tsx[i].ccode < 100 THEN Set(m, p, "pending_cancel", TRUE)
            ELSE Request(m, p, "CANCEL", i)
    BY DEF EndSession, St
  <1>4. i \in 0..Len(m.tsx)
    BY <1>2, OwnFacts
  <1> HIDE DEF m, n, i
  <1>5. GoodBut(m, p, x)
    BY <1>2 DEF Mild, Step
  <1>55. LET o == PendCancel(m, p)
        IN Mild(m, o, p, x) /\ o.inv[p].state = m.inv[p].state
    BY <1>5, PendCancelMild
  <1>6. Step(m, n, p, x) /\ (m.inv[p].state = CALLING => n.inv[p].state = CALLING)
    <2>1. CASE w.inv[p].state \in {CONNECTING, CONFIRMED}
      BY <2>1, <1>2, <1>3, <1>5, SendByeMild DEF Mild
    <2>2. CASE w.inv[p].state = DISCONNECTED
      <3>1. n = m
        BY <2>2, <1>3 DEF CONNECTING, CONFIRMED, DISCONNECTED
      <3> QED BY <3>1, <1>5, MildSelf DEF Mild
    <2>3. CASE w.inv[p].state \notin {CONNECTING, CONFIRMED, DISCONNECTED}
      <3>1. CASE p = "B"
        <4>1. n = Respond(m, p, i, code)
          BY <2>3, <3>1, <1>3
        <4>2. MayRespond(m, p, i, code)
          BY <2>3 DEF MayRespond
        <4>3. CALLING \notin {INCOMING, EARLY}
          BY DEF CALLING, INCOMING, EARLY
        <4>4. LET o == Respond(m, p, i, code)
              IN /\ Step(m, o, p, x)
                 /\ m.inv[p].state \notin {INCOMING, EARLY} => o.inv = m.inv
          BY <4>2, <1>1, <1>4, <1>5, RespondStep
        <4> QED BY <4>1, <4>3, <4>4
      <3>2. CASE p # "B" /\ w.tsx[i].ccode < 100
        <4>1. n = PendCancel(m, p)
          BY <2>3, <3>2, <1>3 DEF PendCancel
        <4> QED BY <4>1, <1>55 DEF Mild
      <3>3. CASE p # "B" /\ ~(w.tsx[i].ccode < 100)
        <4>1. n = Request(m, p, "CANCEL", i)
          BY <2>3, <3>3, <1>3
        <4>2. Free(m, p)
          BY <3>3 DEF Free, Side
        <4> QED BY <4>1, <4>2, <1>4, <1>5, RequestStep
      <3> QED BY <3>1, <3>2, <3>3
    <2> QED BY <2>1, <2>2, <2>3
  <1>7. Step(w, n, p, x)
    BY <1>2, <1>6, StepTrans DEF Mild
  <1> QED BY <1>2, <1>6, <1>7 DEF n

\* Cancelling a re-INVITE.
LEMMA CancelInviteStep ==
    ASSUME NEW w, NEW p \in Side, NEW x, GoodBut(w, p, x), w.inv[p].state = CONFIRMED
    PROVE  Step(w, CancelInvite(w, p), p, x)
  <1> DEFINE i == w.inv[p].invite_tsx
  <1>1. i \in 0..Len(w.tsx)
    BY OwnFacts
  <1>2. CASE w.tsx[i].ccode < 100
    <2>1. CancelInvite(w, p) = Set(w, p, "pending_cancel", TRUE)
      BY <1>2 DEF CancelInvite
    <2> QED BY <2>1, FlagMild DEF Mild
  <1>3. CASE ~(w.tsx[i].ccode < 100)
    <2>1. CancelInvite(w, p) = Request(w, p, "CANCEL", i)
      BY <1>3 DEF CancelInvite
    <2>2. Free(w, p)
      BY FreeWhenMet
    <2> HIDE DEF i
    <2> QED BY <2>1, <2>2, <1>1, RequestStep
  <1> QED BY <1>2, <1>3

\* Number 0 lets nothing off.
LEMMA NoExempt ==
    ASSUME NEW w, NEW p \in Side, GoodBut(w, p, 0)
    PROVE  Good(w)
  <1>1. Len(w.tsx) \in Nat
    BY Facts DEF GoodBut
  <1>2. HoldsBut(w, "A", 0)
    BY <1>1 DEF HoldsBut, GoodBut
  <1> QED BY <1>2 DEF Good, GoodBut

\* Transaction i becomes t, which opens nothing.
Calm(w, p, x, i, t) ==
    LET o == w.tsx[i]
    IN /\ i \in 1..Len(w.tsx) /\ t \in Txn
       /\ t.method = o.method /\ t.by = o.by /\ t.of = o.of
       /\ OpenAt(t) => OpenAt(o)
       /\ Busy(t) => Busy(o)
       /\ t.acked => o.acked \/ w.inv[o.by].state >= CONFIRMED
       /\ MayTimeout \/ (t.scode # 408 /\ t.ccode # 408)
       /\ \A q \in Side : w.inv[q].invite_tsx = i /\ ~(q = p /\ i = x) /\ Held(q, o)
                              => Held(q, t)

\* A transaction that opens nothing may change at any time.
LEMMA CalmStep ==
    ASSUME NEW w, NEW p, NEW x, NEW i, NEW t, p \in Side, GoodBut(w, p, x),
           Calm(w, p, x, i, t)
    PROVE  LET n == WithTxn(w, i, t)
           IN /\ Step(w, n, p, x)
              /\ n.inv = w.inv /\ n.tsx[i] = t /\ Len(n.tsx) = Len(w.tsx)
  <1>0. i \in 1..Len(w.tsx)
    BY DEF Calm
  <1>1. \A q \in Side : Pending(q, t) => Pending(q, w.tsx[i])
    BY DEF Calm, Pending
  <1>2. \A q \in Side : w.inv[q].state # DISCONNECTED /\ Pending(q, t)
                           => w.inv[q].invite_tsx = i
    BY <1>0, <1>1 DEF GoodBut, NoneEscapes
  <1>3. Turns(w, p, x, i, t)
    BY <1>2 DEF Turns, Calm
  <1> QED BY <1>0, <1>3, TxnStep

\* The fields after each kind of write.
LEMMA TxnFields ==
    ASSUME NEW t \in Txn
    PROVE  /\ \A v \in {"TRYING", "CONFIRMED", "TERMINATED"} :
                 LET u == WithS(t, v)
                 IN /\ u \in Txn /\ u.method = t.method /\ u.by = t.by /\ u.of = t.of
                    /\ u.c = t.c /\ u.ccode = t.ccode /\ u.acked = t.acked
                    /\ u.s = v /\ u.scode = t.scode
           /\ LET u == WithC(t, "TERMINATED")
              IN /\ u \in Txn /\ u.method = t.method /\ u.by = t.by /\ u.of = t.of
                 /\ u.c = "TERMINATED" /\ u.ccode = t.ccode /\ u.acked = t.acked
                 /\ u.s = t.s /\ u.scode = t.scode
           /\ LET u == WithAcked(t)
              IN /\ u \in Txn /\ u.method = t.method /\ u.by = t.by /\ u.of = t.of
                 /\ u.c = t.c /\ u.ccode = t.ccode
                 /\ u.s = t.s /\ u.scode = t.scode
  <1>1. \A v \in {"TRYING", "CONFIRMED", "TERMINATED"} :
                 LET u == WithS(t, v)
                 IN /\ u \in Txn /\ u.method = t.method /\ u.by = t.by /\ u.of = t.of
                    /\ u.c = t.c /\ u.ccode = t.ccode /\ u.acked = t.acked
                    /\ u.s = v /\ u.scode = t.scode
    BY DEF Txn, WithS
  <1>2. LET u == WithC(t, "TERMINATED")
              IN /\ u \in Txn /\ u.method = t.method /\ u.by = t.by /\ u.of = t.of
                 /\ u.c = "TERMINATED" /\ u.ccode = t.ccode /\ u.acked = t.acked
                 /\ u.s = t.s /\ u.scode = t.scode
    BY DEF Txn, WithC
  <1>3. LET u == WithAcked(t)
              IN /\ u \in Txn /\ u.method = t.method /\ u.by = t.by /\ u.of = t.of
                 /\ u.c = t.c /\ u.ccode = t.ccode
                 /\ u.s = t.s /\ u.scode = t.scode
    BY DEF Txn, WithAcked
  <1> QED BY <1>1, <1>2, <1>3

\* With nothing timing out no code is 408.
LEMMA CodesKept ==
    ASSUME NEW w, NEW p, NEW x, GoodBut(w, p, x), NEW i \in 1..Len(w.tsx)
    PROVE  MayTimeout \/ (w.tsx[i].scode # 408 /\ w.tsx[i].ccode # 408)
  BY DEF GoodBut, CallerFirst

\* Session and transaction can be replaced in either order.
LEMMA Commute ==
    ASSUME NEW w, NEW i, NEW t, NEW p, NEW r
    PROVE  /\ WithSession(WithTxn(w, i, t), p, r) = WithTxn(WithSession(w, p, r), i, t)
           /\ WithTxn(w, i, t).inv = w.inv
  BY DEF WithSession, WithTxn

\* Sending an ACK is a good step: the code marks it sent and then confirms the
\* session; the invariant is followed in the other order.
LEMMA SendAckStep ==
    ASSUME NEW w, NEW p \in Side, NEW x, GoodBut(w, p, x),
           NEW i \in 1..Len(w.tsx), w.tsx[i].by = p
    PROVE  LET n == SendAck(w, p, i)
           IN /\ Step(w, n, p, x) /\ n.inv[p].invite_tsx = w.inv[p].invite_tsx
              /\ n.tsx[i].method = w.tsx[i].method /\ n.tsx[i].by = p
              /\ n.tsx[i].c = w.tsx[i].c /\ n.tsx[i].ccode = w.tsx[i].ccode
  <1> DEFINE t == WithAcked(w.tsx[i])
             n == SendAck(w, p, i)
             m == PutAcked(w, i)
             r == InState(w.inv[p], CONFIRMED)
             u == WithSession(w, p, r)
             v == WithTxn(u, i, t)
  <1>0. w.tsx[i] \in Txn
    BY Facts DEF GoodBut
  <1>1. /\ t \in Txn /\ t.method = w.tsx[i].method /\ t.by = p
        /\ t.of = w.tsx[i].of
        /\ t.c = w.tsx[i].c /\ t.ccode = w.tsx[i].ccode
        /\ t.s = w.tsx[i].s /\ t.scode = w.tsx[i].scode
    BY <1>0, TxnFields
  <1>2. m = WithTxn(w, i, t)
    BY TxnIs DEF GoodBut
  <1>3. n = IF w.inv[p].state < CONFIRMED THEN SetState(m, p, CONFIRMED) ELSE m
    BY DEF SendAck, St, PutAcked
  <1> HIDE DEF t, m, n
  <1>4. \A q \in Side : Held(q, w.tsx[i]) => Held(q, t)
    BY <1>1 DEF Held
  <1>5. (OpenAt(t) => OpenAt(w.tsx[i])) /\ (Busy(t) => Busy(w.tsx[i]))
    BY <1>1 DEF OpenAt, Busy
  <1>6. MayTimeout \/ (t.scode # 408 /\ t.ccode # 408)
    BY <1>1, CodesKept
  <1>7. w.inv[p].state \in 0..6
    BY OwnFacts
  <1>8. CASE w.inv[p].state >= CONFIRMED
    <2>1. n = WithTxn(w, i, t)
      <3> HIDE DEF m, n, t
      <3> QED BY <1>2, <1>3, <1>7, <1>8 DEF CONFIRMED
    <2> HIDE DEF t, n
    <2>2. Calm(w, p, x, i, t)
      BY <1>1, <1>4, <1>5, <1>6, <1>8 DEF Calm
    <2>3. LET o == WithTxn(w, i, t)
          IN Step(w, o, p, x) /\ o.inv = w.inv /\ o.tsx[i] = t
      BY <2>2, CalmStep
    <2> QED BY <2>1, <2>3, <1>1 DEF n
  <1>9. CASE w.inv[p].state < CONFIRMED
    <2>1. Allowed(w, p, r) /\ r.invite_tsx = w.inv[p].invite_tsx /\ r.state = CONFIRMED
      <3>1. w.inv[p].state <= CONFIRMED /\ CONFIRMED \in 0..6 /\ CONFIRMED # DISCONNECTED
        BY <1>7, <1>9 DEF CONFIRMED, DISCONNECTED
      <3>2. Free(w, p)
        BY FreeWhenMet
      <3>3. PICK st \in 0..6 : st = CONFIRMED
        BY <3>1
      <3>4. LET o == InState(w.inv[p], st)
            IN Allowed(w, p, o) /\ o.invite_tsx = w.inv[p].invite_tsx /\ o.state = st
        <4>1. w.inv[p].state <= st /\ st # DISCONNECTED
          BY <3>1, <3>3
        <4>2. /\ st = DISCONNECTED => w.inv[p].cause # 0
              /\ p = "B" /\ st = CONFIRMED => Free(w, p)
          BY <4>1, <3>2
        <4> QED BY <4>1, <4>2, StateAllowed
      <3> QED BY <3>3, <3>4
    <2>2. n = SetState(m, p, CONFIRMED)
      <3> HIDE DEF m, n
      <3> QED BY <1>3, <1>9
    <2>3. Set(m, p, "state", CONFIRMED) = v
      <3>1. Shape(WithTxn(w, i, t))
        <4> HIDE DEF t
        <4> QED BY <1>1, TxnTyped DEF GoodBut
      <3>2. Set(m, p, "state", CONFIRMED)
              = WithSession(WithTxn(w, i, t), p,
                            InState(WithTxn(w, i, t).inv[p], CONFIRMED))
        <4> HIDE DEF m
        <4> QED BY <3>1, <1>2, SetIs DEF InState
      <3>3. WithTxn(w, i, t).inv = w.inv
        BY DEF WithTxn
      <3>4. WithSession(WithTxn(w, i, t), p, r) = v
        <4> HIDE DEF t, r
        <4> QED BY Commute
      <3> HIDE DEF t, m, v
      <3> QED BY <3>2, <3>3, <3>4
    <2>4. n = AfterState(v, p, CONFIRMED)
      <3> HIDE DEF m, n, v
      <3> QED BY <2>2, <2>3, SetStateIs
    <2> HIDE DEF r
    <2>5. Mild(w, u, p, x) /\ u.inv[p] = r /\ u.tsx = w.tsx
      BY <2>1, SessionMild
    <2> HIDE DEF u, t
    <2>6. GoodBut(u, p, x)
      BY <2>5 DEF Mild, Step
    <2>7. \A q \in Side : u.inv[q].invite_tsx = w.inv[q].invite_tsx
      BY <2>5, <2>1 DEF Mild
    <2>8. CONFIRMED >= CONFIRMED
      BY DEF CONFIRMED
    <2>14. /\ t.acked => u.tsx[i].acked \/ u.inv[u.tsx[i].by].state >= CONFIRMED
          /\ i \in 1..Len(u.tsx) /\ u.tsx[i] = w.tsx[i]
      BY <2>1, <2>5, <2>8
    <2>9. Calm(u, p, x, i, t)
      BY <1>1, <1>4, <1>5, <1>6, <2>14 DEF Calm
    <2>10. Step(u, v, p, x) /\ v.inv = u.inv /\ v.tsx[i] = t /\ Len(v.tsx) = Len(u.tsx)
      BY <2>6, <2>9, CalmStep
    <2> HIDE DEF v, n
    <2>11. Mild(v, n, p, x)
      BY <2>4, <2>10, <2>5, <2>1, AfterStateMild DEF Step
    <2>12. Step(w, v, p, x)
      BY <2>5, <2>10, StepTrans DEF Mild
    <2>13. Step(w, n, p, x)
      BY <2>11, <2>12, StepTrans DEF Mild
    <2>15. n.tsx[i] = t /\ n.inv[p].invite_tsx = w.inv[p].invite_tsx
      BY <2>11, <2>10, <2>5, <2>1 DEF Mild
    <2> QED BY <2>13, <2>15, <1>1 DEF n
  <1>10. w.inv[p].state >= CONFIRMED \/ w.inv[p].state < CONFIRMED
    BY <1>7 DEF CONFIRMED
  <1> QED BY <1>8, <1>9, <1>10

------------------------------------------------------------------------------
(* Requests received.                                                      *)
------------------------------------------------------------------------------
\* A session with another INVITE.
Owning(r, i) == [r EXCEPT !["invite_tsx"] = i]

\* The fields of a session with another INVITE.
LEMMA OwningFields ==
    ASSUME NEW r \in Session, NEW i, i \in Nat
    PROVE  LET n == Owning(r, i)
           IN /\ n \in Session /\ n.state = r.state /\ n.cause = r.cause
              /\ n.remote_cseq = r.remote_cseq /\ n.invite_tsx = i
  BY DEF Session, Owning

\* p takes transaction i on as its INVITE; it is yet to be held.
LEMMA OwnStep ==
    ASSUME NEW w, NEW p \in Side, GoodBut(w, p, 0), NEW i \in 1..Len(w.tsx),
           w.inv[p].invite_tsx = 0, w.tsx[i].method = "INVITE"
    PROVE  LET n == Set(w, p, "invite_tsx", i)
           IN /\ Step(w, n, p, i) /\ n.tsx = w.tsx
              /\ n.inv[p].invite_tsx = i
              /\ \A q \in Side : n.inv[q].state = w.inv[q].state
  <1> DEFINE o == w.inv[p]
             r == Owning(o, i)
             n == Set(w, p, "invite_tsx", i)
  <1>0. /\ o \in Session
        /\ o.state = DISCONNECTED => o.cause # 0
        /\ o.remote_cseq \in 0..Len(w.tsx) /\ Shape(w) /\ i \in Nat
    BY OwnFacts, Facts DEF GoodBut
  <1>1. n = WithSession(w, p, r)
    BY <1>0, SetIs DEF Owning
  <1> HIDE DEF o
  <1>2. /\ r \in Session /\ r.state = o.state /\ r.cause = o.cause
        /\ r.remote_cseq = o.remote_cseq /\ r.invite_tsx = i
    BY <1>0, OwningFields
  <1> HIDE DEF r, n
  <1>3. {r.invite_tsx, r.remote_cseq} \subseteq 0..Len(w.tsx)
    BY <1>0, <1>2
  <1>4. /\ Shape(n) /\ n.tsx = w.tsx /\ n.inv[p] = r
        /\ \A q \in Side \ {p} : n.inv[q] = w.inv[q]
    BY <1>0, <1>1, <1>2, <1>3, SessionTyped
  <1>5. \A q \in Side : n.inv[q].state = w.inv[q].state /\ n.inv[q].cause = w.inv[q].cause
    BY <1>2, <1>4 DEF o
  <1>6. Met(n)
    BY <1>5 DEF GoodBut, Met
  <1>7. HoldsBut(n, p, i)
    <2> SUFFICES ASSUME NEW q \in Side, NEW k \in 1..Len(w.tsx), n.inv[q].invite_tsx = k
                 PROVE  /\ w.tsx[k].method = "INVITE"
                        /\ ~(q = p /\ k = i) => Held(q, w.tsx[k])
      BY <1>4 DEF HoldsBut
    <2>1. CASE q = p
      BY <2>1, <1>2, <1>4
    <2>2. CASE q # p
      <3>1. w.inv[q].invite_tsx = k
        BY <2>2, <1>4
      <3> QED BY <3>1, <2>2 DEF GoodBut, HoldsBut
    <2> QED BY <2>1, <2>2
  <1>8. NoneEscapes(n)
    <2> SUFFICES ASSUME NEW q \in Side, NEW k \in 1..Len(w.tsx),
                        w.inv[q].state # DISCONNECTED, Pending(q, w.tsx[k])
                 PROVE  n.inv[q].invite_tsx = k
      BY <1>4, <1>5 DEF NoneEscapes
    <2>1. w.inv[q].invite_tsx = k
      BY DEF GoodBut, NoneEscapes
    <2>2. q # p
      BY <2>1, <1>0
    <2> QED BY <2>1, <2>2, <1>4
  <1>9. OneBusy(n) /\ AckedConfirms(n)
    <2>1. OneBusy(n)
      BY <1>4, <1>5, SMTT(20) DEF GoodBut, OneBusy
    <2>2. \A k \in 1..Len(w.tsx) : w.tsx[k].by \in Side
      BY <1>0, Facts
    <2>3. AckedConfirms(n)
      BY <2>2, <1>4, <1>5 DEF GoodBut, AckedConfirms
    <2> QED BY <2>1, <2>3
  <1>10. CallerFirst(n)
    <2>1. "A" \in Side /\ "B" \in Side
      BY DEF Side
    <2> QED BY <2>1, <1>4, <1>5 DEF GoodBut, CallerFirst
  <1>11. Grows(w, n)
    <2>1. \A q \in Side : w.inv[q].state <= n.inv[q].state
      BY <1>0, <1>5, Facts, SMTT(20)
    <2>2. Len(w.tsx) <= Len(n.tsx)
      BY <1>0, <1>4, Facts
    <2> QED BY <2>1, <2>2, <1>4 DEF Grows
  <1> QED BY <1>2, <1>4, <1>5, <1>6, <1>7, <1>8, <1>9, <1>10, <1>11 DEF Step, GoodBut, n

\* An INVITE within the dialog: taken on when no other is pending, else refused.
LEMMA RxReinviteStep ==
    ASSUME NEW w, Good(w), NEW p \in Side, NEW i \in 1..Len(w.tsx),
           w.tsx[i].method = "INVITE", w.tsx[i].by # p, OpenAt(w.tsx[i]),
           NEW n \in RxReinvite(w, p, i)
    PROVE  Good(n) /\ Grows(w, n)
  <1> DEFINE v == w.inv[p].invite_tsx
  <1>1. GoodBut(w, p, 0) /\ GoodBut(w, p, i)
    BY Exempts
  <1>2. i \in 0..Len(w.tsx) /\ i # 0
    OBVIOUS
  <1>3. ASSUME NEW code \in {491, 500}, n = Respond(w, p, i, code)
        PROVE  Good(n) /\ Grows(w, n)
    <2>1. code \in Replies /\ MayRespond(w, p, i, code)
      BY DEF Replies, MayRespond
    <2>2. Step(w, Respond(w, p, i, code), p, 0)
      BY <2>1, <1>1, <1>2, RespondGood
    <2> QED BY <2>2, <1>3, NoExempt DEF Step
  <1>4. ASSUME w.inv[p].state = CONFIRMED, v = 0,
               NEW code \in {100, 200, 488},
               n = Respond(Set(w, p, "invite_tsx", i), p, i, code)
        PROVE  Good(n) /\ Grows(w, n)
    <2> DEFINE m == Set(w, p, "invite_tsx", i)
    <2>1. /\ Step(w, m, p, i) /\ m.tsx = w.tsx
          /\ m.inv[p].invite_tsx = i
          /\ \A q \in Side : m.inv[q].state = w.inv[q].state
      BY <1>1, <1>4, OwnStep
    <2>2. n = Respond(m, p, i, code)
      BY <1>4
    <2> HIDE DEF m
    <2>3. Clear(m, i)
      <3> SUFFICES ASSUME \A q \in Side : w.inv[q].state # DISCONNECTED,
                          NEW k \in 1..Len(w.tsx), Busy(w.tsx[k]), k # i
                   PROVE  FALSE
        BY <2>1 DEF Clear
      <3>1. w.tsx[k].by \in Side /\ w.tsx[i].by \in Side
        BY Facts DEF Good, GoodBut
      <3>2. CASE w.tsx[k].by # p
        <4>1. Pending(p, w.tsx[k])
          BY <3>2 DEF Pending, Busy
        <4> QED BY <4>1, <1>1, <1>4 DEF GoodBut, NoneEscapes
      <3>3. CASE w.tsx[k].by = p
        <4> DEFINE q == w.tsx[i].by
        <4>1. q # w.tsx[k].by /\ q \in Side
          BY <3>1, <3>3
        <4>2. Pending(q, w.tsx[k]) /\ Pending(q, w.tsx[i])
          BY <4>1 DEF Pending, Busy
        <4> HIDE DEF q
        <4>3. w.inv[q].invite_tsx = k /\ w.inv[q].invite_tsx = i
          BY <4>1, <4>2, <1>1 DEF GoodBut, NoneEscapes
        <4> QED BY <4>3
      <3> QED BY <3>2, <3>3
    <2>4. code \in Replies /\ MayRespond(m, p, i, code)
      BY <2>1, <2>3 DEF Replies, MayRespond
    <2>5. /\ GoodBut(m, p, i) /\ m.tsx[i].by # p
          /\ i \in 0..Len(m.tsx) /\ i \in 1..Len(m.tsx)
      BY <2>1 DEF Step
    <2>6. LET o == Respond(m, p, i, code)
          IN Step(m, o, p, i) /\ Holding(o, p, i)
      <3>1. MayReply(m, p, i, code)
        BY <2>4, <2>5 DEF MayReply
      <3>2. GoodBut(m, p, i)
        BY <2>5
      <3> QED BY <3>1, <3>2, RespondHeld
    <2>7. Step(m, n, p, i) /\ Held(p, n.tsx[i])
      BY <2>2, <2>6 DEF Holding
    <2>8. Good(n)
      <3>1. HoldsBut(n, "A", 0)
        <4>1. GoodBut(n, p, i)
          BY <2>7 DEF Step
        <4> QED BY <4>1, <2>7 DEF HoldsBut, GoodBut
      <3> QED BY <3>1, <2>7 DEF Good, GoodBut, Step
    <2>9. Grows(w, n)
      BY <2>1, <2>7, <1>1, StepTrans DEF Step
    <2> QED BY <2>8, <2>9
  <1>5. CASE w.inv[p].state = CONNECTING
    <2>1. n = Respond(w, p, i, 491)
      BY <1>5 DEF RxReinvite, St
    <2> QED BY <2>1, <1>3
  <1>6. CASE w.inv[p].state \notin {CONNECTING, CONFIRMED}
    <2>1. n = w
      BY <1>6 DEF RxReinvite, St
    <2>2. Step(w, w, p, 0)
      BY <1>1, MildSelf DEF Mild
    <2> QED BY <2>1, <2>2 DEF Step
  <1>7. CASE w.inv[p].state = CONFIRMED /\ v # 0
    <2>1. n = Respond(w, p, i, 491) \/ n = Respond(w, p, i, 500)
      BY <1>7 DEF RxReinvite, St, CONNECTING, CONFIRMED
    <2> QED BY <2>1, <1>3
  <1>8. CASE w.inv[p].state = CONFIRMED /\ v = 0
    <2>1. PICK code \in {100, 200, 488} :
             n = Respond(Set(w, p, "invite_tsx", i), p, i, code)
      BY <1>8 DEF RxReinvite, St, CONNECTING, CONFIRMED
    <2> QED BY <2>1, <1>4, <1>8
  <1> QED BY <1>5, <1>6, <1>7, <1>8

\* A BYE.
LEMMA RxByeStep ==
    ASSUME NEW w, NEW p \in Side, NEW x, GoodBut(w, p, x), NEW i \in 1..Len(w.tsx),
           w.tsx[i].method = "BYE"
    PROVE  Step(w, RxBye(w, p, i), p, x)
  <1> DEFINE n == Respond(w, p, i, 200)
             v == w.inv[p].invite_tsx
             d == Disconnect(n, p, 200)
  <1>1. i \in 0..Len(w.tsx) /\ 200 \in Replies /\ MayRespond(w, p, i, 200)
    BY DEF Replies, MayRespond
  <1>2. Step(w, n, p, x) /\ n.inv[p].invite_tsx = v
    BY <1>1, RespondStep
  <1>3. v \in 0..Len(n.tsx)
    <2>1. GoodBut(n, p, x)
      BY <1>2 DEF Step
    <2> HIDE DEF n
    <2>2. n.inv[p].invite_tsx \in 0..Len(n.tsx)
      BY <2>1, OwnFacts
    <2> QED BY <2>2, <1>2
  <1>4. RxBye(w, p, i) =
          IF w.inv[p].state \in {CALLING, INCOMING} THEN w
          ELSE IF w.inv[p].state = DISCONNECTED THEN n
          ELSE IF w.inv[p].state = EARLY /\ p = "B" /\ w.tsx[v].scode < 200
          THEN Respond(d, p, v, 487) ELSE d
    BY DEF RxBye, St
  <1> HIDE DEF n, v
  <1>5. Mild(n, d, p, x)
    <2>1. 200 \in Codes \ {0} /\ 200 # 408
      BY DEF Codes
    <2> QED BY <2>1, <1>2, DisconnectMild DEF Step
  <1> HIDE DEF d
  <1>6. Step(w, d, p, x)
    BY <1>2, <1>5, StepTrans DEF Mild
  <1>7. Step(w, Respond(d, p, v, 487), p, x)
    <2>1. Len(n.tsx) \in Nat /\ Len(d.tsx) \in Nat /\ Len(n.tsx) <= Len(d.tsx)
      BY <1>2, <1>5, Facts DEF Mild, Step, Grows, GoodBut
    <2>2. v \in 0..Len(d.tsx)
      BY <2>1, <1>3
    <2>3. 487 \in Replies /\ MayRespond(d, p, v, 487)
      BY DEF Replies, MayRespond
    <2>4. Step(d, Respond(d, p, v, 487), p, x)
      BY <2>2, <2>3, <1>6, RespondGood DEF Step
    <2> QED BY <2>4, <1>6, StepTrans
  <1>8. Step(w, w, p, x)
    BY MildSelf DEF Mild
  <1> QED BY <1>2, <1>4, <1>6, <1>7, <1>8

\* A CANCEL.
LEMMA RxCancelStep ==
    ASSUME NEW w, NEW p \in Side, NEW x, GoodBut(w, p, x), NEW i \in 1..Len(w.tsx),
           w.tsx[i].method = "CANCEL"
    PROVE  Step(w, RxCancel(w, p, i), p, x)
  <1> DEFINE n == Respond(w, p, i, 200)
             v == w.tsx[i].of
  <1>1. i \in 0..Len(w.tsx) /\ 200 \in Replies /\ MayRespond(w, p, i, 200)
    BY DEF Replies, MayRespond
  <1>2. Step(w, n, p, x)
    BY <1>1, RespondStep
  <1>3. v \in 0..Len(w.tsx)
    BY DEF GoodBut, Shape
  <1>4. RxCancel(w, p, i) = n \/ RxCancel(w, p, i) = Respond(n, p, v, 487)
    BY DEF RxCancel
  <1> HIDE DEF n, v
  <1>5. v \in 0..Len(n.tsx)
    <2>1. Len(w.tsx) \in Nat /\ Len(n.tsx) \in Nat /\ Len(w.tsx) <= Len(n.tsx)
      BY <1>2, Facts DEF Step, Grows, GoodBut
    <2> QED BY <2>1, <1>3
  <1>6. 487 \in Replies /\ MayRespond(n, p, v, 487)
    BY DEF Replies, MayRespond
  <1>7. Step(n, Respond(n, p, v, 487), p, x)
    BY <1>2, <1>5, <1>6, RespondStep DEF Step
  <1>8. Step(w, Respond(n, p, v, 487), p, x)
    BY <1>2, <1>7, StepTrans
  <1> QED BY <1>2, <1>4, <1>8

\* A session that saw the CSeq k.
Seen(r, k) == [r EXCEPT !["remote_cseq"] = k]

\* Noting a CSeq.
LEMMA SeenMild ==
    ASSUME NEW w, NEW p \in Side, NEW x, GoodBut(w, p, x), NEW k, k \in 0..Len(w.tsx)
    PROVE  LET n == Set(w, p, "remote_cseq", k)
           IN /\ Mild(w, n, p, x) /\ n.tsx = w.tsx
              /\ n.inv[p].state = w.inv[p].state
  <1> DEFINE o == w.inv[p]
             r == Seen(o, k)
             n == Set(w, p, "remote_cseq", k)
  <1>1. /\ o \in Session /\ o.state \in 0..6 /\ k \in Nat
        /\ \/ MayTimeout
           \/ /\ o.cause # 408
              /\ p = "B" /\ o.state = CONFIRMED => w.inv["A"].state >= CONFIRMED
    BY OwnFacts
  <1>2. o.state = DISCONNECTED => o.cause # 0
    BY OwnFacts
  <1>3. n = WithSession(w, p, r)
    BY SetIs DEF GoodBut, Seen
  <1> HIDE DEF o
  <1>4. /\ r \in Session /\ r.state = o.state /\ r.cause = o.cause
        /\ r.remote_cseq = k /\ r.invite_tsx = o.invite_tsx
    BY <1>1 DEF Session, Seen
  <1> HIDE DEF r, n
  <1>5. Allowed(w, p, r)
    BY <1>1, <1>2, <1>4 DEF Allowed, o
  <1>6. Mild(w, n, p, x) /\ n.inv[p] = r /\ n.tsx = w.tsx
    BY <1>3, <1>4, <1>5, SessionMild DEF o
  <1> QED BY <1>4, <1>6 DEF n, o

\* A server transaction that is answered without being kept.
ServedWith(t, s, code) == [t EXCEPT !.s = s, !.scode = code]

\* The fields of such a transaction.
LEMMA ServedFields ==
    ASSUME NEW t, NEW s, NEW code, t \in Txn,
           s \in {"STATELESS", "TERMINATED"}, code \in Codes
    PROVE  LET u == ServedWith(t, s, code)
           IN /\ u \in Txn /\ u.method = t.method /\ u.by = t.by /\ u.of = t.of
              /\ u.c = t.c /\ u.ccode = t.ccode /\ u.acked = t.acked
              /\ u.s = s /\ u.scode = code
  BY DEF Txn, ServedWith

\* A request answered without a transaction.
LEMMA StatelessStep ==
    ASSUME NEW w, Good(w), NEW p \in Side, NEW i \in 1..Len(w.tsx),
           w.tsx[i].s = "NONE", NEW code \in {481, 500}
    PROVE  LET n == PutTxn(w, i, ServedWith(w.tsx[i], "STATELESS", code))
           IN Good(n) /\ Grows(w, n)
  <1> DEFINE o == w.tsx[i]
             t == ServedWith(o, "STATELESS", code)
             n == PutTxn(w, i, t)
  <1>1. GoodBut(w, p, 0)
    BY Exempts
  <1>2. o \in Txn /\ code \in Codes /\ code # 408
        /\ (MayTimeout \/ (o.scode # 408 /\ o.ccode # 408))
    BY <1>1, Facts, CodesKept DEF GoodBut, Codes
  <1>8. o = w.tsx[i]
    OBVIOUS
  <1> HIDE DEF o
  <1>3. /\ t \in Txn /\ t.method = o.method /\ t.by = o.by /\ t.of = o.of
        /\ t.c = o.c /\ t.ccode = o.ccode /\ t.acked = o.acked
        /\ t.s = "STATELESS" /\ t.scode = code
    BY <1>2, ServedFields
  <1> HIDE DEF t
  <1>4. (OpenAt(t) => OpenAt(o)) /\ (Busy(t) => Busy(o))
    BY <1>3 DEF OpenAt, Busy
  <1>5. \A q \in Side : Held(q, o) => Held(q, t)
    BY <1>3, <1>8 DEF Held
  <1>6. Calm(w, p, 0, i, t)
    BY <1>2, <1>3, <1>4, <1>5, <1>8 DEF Calm
  <1>7. Step(w, WithTxn(w, i, t), p, 0)
    BY <1>1, <1>6, CalmStep
  <1>9. n = WithTxn(w, i, t)
    BY <1>1, TxnIs DEF GoodBut
  <1> HIDE DEF n
  <1>10. Good(n) /\ Grows(w, n)
    BY <1>7, <1>9, NoExempt DEF Step
  <1> QED BY <1>10 DEF n, t, o

\* The request goes to the session.
Taken(w, p, i) == Set(PutS(w, i, "TRYING"), p, "remote_cseq", Cseq(w.tsx, i))

\* A request that is passed to the session.
LEMMA TakenStep ==
    ASSUME NEW w, Good(w), NEW p \in Side, NEW i \in 1..Len(w.tsx),
           w.tsx[i].s = "NONE"
    PROVE  LET n == Taken(w, p, i)
           IN /\ Step(w, n, p, 0)
              /\ i \in 1..Len(n.tsx)
              /\ n.tsx[i].method = w.tsx[i].method /\ n.tsx[i].by = w.tsx[i].by
              /\ n.tsx[i].c = w.tsx[i].c
  <1> DEFINE o == w.tsx[i]
             t == WithS(o, "TRYING")
             m == PutS(w, i, "TRYING")
             k == Cseq(w.tsx, i)
             n == Taken(w, p, i)
  <1>1. GoodBut(w, p, 0)
    BY Exempts
  <1>2. /\ o \in Txn /\ o.of \in 0..Len(w.tsx) /\ Len(w.tsx) \in Nat
        /\ (MayTimeout \/ (o.scode # 408 /\ o.ccode # 408))
    BY <1>1, Facts, CodesKept DEF GoodBut, Shape
  <1>3. o = w.tsx[i]
    OBVIOUS
  <1>4. k \in 0..Len(w.tsx)
    BY <1>2 DEF Cseq
  <1> HIDE DEF o
  <1>5. /\ t \in Txn /\ t.method = o.method /\ t.by = o.by /\ t.of = o.of
        /\ t.c = o.c /\ t.ccode = o.ccode /\ t.acked = o.acked
        /\ t.s = "TRYING" /\ t.scode = o.scode
    BY <1>2, TxnFields
  <1>6. m = WithTxn(w, i, t)
    BY <1>1, <1>3, TxnIs DEF GoodBut
  <1> HIDE DEF t, m, k
  <1>7. (OpenAt(t) => OpenAt(o)) /\ (Busy(t) => Busy(o))
    BY <1>5 DEF OpenAt, Busy
  <1>8. \A q \in Side : Held(q, o) => Held(q, t)
    BY <1>5, <1>3 DEF Held
  <1>9. Calm(w, p, 0, i, t)
    BY <1>2, <1>3, <1>5, <1>7, <1>8 DEF Calm
  <1>10. Step(w, m, p, 0) /\ m.tsx[i] = t /\ Len(m.tsx) = Len(w.tsx)
    BY <1>1, <1>6, <1>9, CalmStep
  <1>11. n = Set(m, p, "remote_cseq", k)
    BY DEF Taken, m, k
  <1> HIDE DEF n
  <1>12. GoodBut(m, p, 0) /\ k \in 0..Len(m.tsx)
    BY <1>4, <1>10 DEF Step
  <1>13. Mild(m, n, p, 0) /\ n.tsx = m.tsx
    BY <1>11, <1>12, SeenMild
  <1>14. Step(w, n, p, 0)
    BY <1>1, <1>10, <1>13, StepTrans DEF Mild
  <1> QED BY <1>3, <1>5, <1>10, <1>13, <1>14 DEF n

\* Every request that arrives.
LEMMA RxRequestStep ==
    ASSUME NEW w, Good(w), NEW p \in Side, NEW i \in 1..Len(w.tsx),
           w.tsx[i].s = "NONE", w.tsx[i].c = "CALLING", w.tsx[i].by # p,
           NEW n \in RxRequest(w, p, i)
    PROVE  Good(n) /\ Grows(w, n)
  <1> DEFINE m == Taken(w, p, i)
             t == w.tsx[i]
  <1>1. GoodBut(w, p, 0) /\ w.inv[p].state # NULL
    BY Exempts DEF GoodBut, Met
  <1>2. t.method \in {"INVITE", "BYE", "CANCEL"}
    <2>1. t \in Txn
      BY <1>1, Facts DEF GoodBut
    <2> QED BY <2>1 DEF Txn
  <1>3. \/ n \in {PutTxn(w, i, ServedWith(w.tsx[i], "STATELESS", 481)),
                  PutTxn(w, i, ServedWith(w.tsx[i], "STATELESS", 500))}
        \/ t.method = "INVITE" /\ n \in RxReinvite(m, p, i)
        \/ t.method = "BYE" /\ n = RxBye(m, p, i)
        \/ t.method = "CANCEL" /\ n = RxCancel(m, p, i)
    BY <1>1, <1>2 DEF RxRequest, St, PutTxn, ServedWith, Taken, PutS
  <1>4. /\ Step(w, m, p, 0) /\ i \in 1..Len(m.tsx)
        /\ m.tsx[i].method = t.method /\ m.tsx[i].by # p /\ OpenAt(m.tsx[i])
    BY TakenStep DEF OpenAt
  <1> HIDE DEF m
  <1>5. CASE n \in {PutTxn(w, i, ServedWith(w.tsx[i], "STATELESS", 481)),
                    PutTxn(w, i, ServedWith(w.tsx[i], "STATELESS", 500))}
    BY <1>5, StatelessStep
  <1>6. GoodBut(m, p, 0) /\ Good(m)
    BY <1>4, NoExempt DEF Step
  <1>7. CASE t.method = "INVITE" /\ n \in RxReinvite(m, p, i)
    <2>1. Good(n) /\ Grows(m, n)
      BY <1>4, <1>6, <1>7, RxReinviteStep
    <2> QED BY <2>1, <1>1, <1>4, <1>6, GrowsTrans DEF Step, GoodBut, Good
  <1>8. CASE t.method = "BYE" /\ n = RxBye(m, p, i)
    <2>1. Step(m, n, p, 0)
      BY <1>4, <1>6, <1>8, RxByeStep
    <2>2. Step(w, n, p, 0)
      BY <2>1, <1>1, <1>4, StepTrans
    <2> QED BY <2>2, NoExempt DEF Step
  <1>9. CASE t.method = "CANCEL" /\ n = RxCancel(m, p, i)
    <2>1. Step(m, n, p, 0)
      BY <1>4, <1>6, <1>9, RxCancelStep
    <2>2. Step(w, n, p, 0)
      BY <2>1, <1>1, <1>4, StepTrans
    <2> QED BY <2>2, NoExempt DEF Step
  <1> QED BY <1>3, <1>5, <1>7, <1>8, <1>9

\* The server's half of i ends.
LEMMA EndServer ==
    ASSUME NEW w, Good(w), NEW p \in Side, NEW i \in 1..Len(w.tsx),
           w.tsx[i].by # p, NEW t, t \in Txn,
           t.method = w.tsx[i].method, t.by = w.tsx[i].by, t.of = w.tsx[i].of,
           t.c = w.tsx[i].c, t.acked = w.tsx[i].acked,
           t.s \in {"TERMINATED", "CONFIRMED"},
           MayTimeout \/ (t.scode # 408 /\ t.ccode # 408)
    PROVE  LET n == WithTxn(w, i, t)
           IN /\ Step(w, n, p, i) /\ n.inv = w.inv /\ n.tsx[i] = t
              /\ i \in 1..Len(n.tsx) /\ ~Pending(p, n.tsx[i])
  <1>1. GoodBut(w, p, i)
    BY Exempts
  <1>2. w.tsx[i].by \in Side
    BY <1>1, Facts DEF GoodBut
  <1>3. (OpenAt(t) => OpenAt(w.tsx[i])) /\ (Busy(t) => Busy(w.tsx[i]))
    BY DEF OpenAt, Busy
  <1>4. ASSUME NEW q \in Side, ~(q = p /\ i = i), Held(q, w.tsx[i])
        PROVE  Held(q, t)
    <2>1. t.by = q
      BY <1>2, <1>4 DEF Side
    <2> QED BY <2>1, <1>4 DEF Held
  <1>5. Calm(w, p, i, i, t)
    BY <1>3, <1>4 DEF Calm
  <1>6. LET n == WithTxn(w, i, t)
        IN /\ Step(w, n, p, i) /\ n.inv = w.inv /\ n.tsx[i] = t /\ Len(n.tsx) = Len(w.tsx)
    BY <1>1, <1>5, CalmStep
  <1>7. ~Pending(p, t)
    BY DEF Pending, Busy
  <1> QED BY <1>6, <1>7

\* When p forgets the INVITE it was let off for, nothing is let off.
LEMMA ForgetGood ==
    ASSUME NEW w, NEW p \in Side, NEW i, GoodBut(w, p, i),
           i \in 1..Len(w.tsx), ~Pending(p, w.tsx[i])
    PROVE  LET n == Forget(w, p, i)
           IN Good(n) /\ Step(w, n, p, i)
  <1>1. LET n == Forget(w, p, i)
        IN Step(w, n, p, i) /\ n.inv[p].invite_tsx # i
    BY ForgetStep, ZenonT(60)
  <1> QED BY <1>1, Cleared DEF Step

\* The ACK never came.
LEMMA AckTimeoutStep ==
    ASSUME NEW w, Good(w), NEW p \in Side, NEW i \in 1..Len(w.tsx),
           w.tsx[i].by # p, MayTimeout
    PROVE  LET n == AckTimeout(w, p, i)
           IN Good(n) /\ Grows(w, n)
  <1> DEFINE t == ServedWith(w.tsx[i], "TERMINATED", 408)
             m == PutTxn(w, i, t)
             c == SetCause(m, p, 408)
             b == SendBye(c, p)
             d == Set(b, p, "pending_bye", FALSE)
             e == IF w.inv[p].invite_tsx = i /\ w.inv[p].state = CONNECTING THEN d ELSE m
             n == AckTimeout(w, p, i)
  <1>1. n = Forget(e, p, i)
    BY DEF AckTimeout, St, PutTxn, ServedWith
  <1>2. /\ t \in Txn /\ t.method = w.tsx[i].method /\ t.by = w.tsx[i].by
        /\ t.of = w.tsx[i].of /\ t.c = w.tsx[i].c /\ t.acked = w.tsx[i].acked
        /\ t.s = "TERMINATED"
    <2>1. w.tsx[i] \in Txn /\ 408 \in Codes
      BY Facts DEF Good, GoodBut, Codes
    <2> QED BY <2>1, ServedFields
  <1>3. m = WithTxn(w, i, t)
    BY TxnIs DEF Good, GoodBut
  <1> HIDE DEF t, m
  <1>4. /\ Step(w, m, p, i) /\ i \in 1..Len(m.tsx) /\ ~Pending(p, m.tsx[i])
    BY <1>2, <1>3, EndServer
  <1>5. GoodBut(m, p, i)
    BY <1>4 DEF Step
  <1>6. Mild(m, c, p, i)
    <2>1. 408 \in Codes \ {0}
      BY DEF Codes
    <2> QED BY <2>1, <1>5, SetCauseMild, ZenonT(30)
  <1> HIDE DEF c
  <1>7. Mild(c, b, p, i)
    <2>1. Free(c, p) /\ GoodBut(c, p, i)
      BY <1>6 DEF Free, Mild, Step
    <2> QED BY <2>1, SendByeMild
  <1> HIDE DEF b
  <1>8. Mild(b, d, p, i)
    <2>1. GoodBut(b, p, i)
      BY <1>7 DEF Mild, Step
    <2>2. FALSE \in BOOLEAN
      OBVIOUS
    <2> QED BY <2>1, <2>2, FlagMild
  <1> HIDE DEF d
  <1>9. Mild(m, d, p, i)
    <2>1. Mild(m, b, p, i)
      BY <1>5, <1>6, <1>7, MildTrans
    <2> QED BY <2>1, <1>5, <1>8, MildTrans
  <1>10. Mild(m, e, p, i)
    BY <1>5, <1>9, MildSelf
  <1> HIDE DEF e, n
  <1>11. GoodBut(e, p, i) /\ i \in 1..Len(e.tsx) /\ ~Pending(p, e.tsx[i])
    <2>1. Len(m.tsx) \in Nat /\ Len(e.tsx) \in Nat /\ Len(m.tsx) <= Len(e.tsx)
      BY <1>5, <1>10, Facts DEF Mild, Step, Grows, GoodBut
    <2> QED BY <2>1, <1>4, <1>10 DEF Mild, Step
  <1>12. Good(n) /\ Step(e, n, p, i)
    BY <1>1, <1>11, ForgetGood
  <1>13. Step(w, e, p, i)
    <2>1. GoodBut(w, p, i)
      BY Exempts
    <2> QED BY <2>1, <1>4, <1>10, StepTrans DEF Mild
  <1>14. Grows(w, n)
    <2>1. GoodBut(w, p, i)
      BY Exempts
    <2>2. Step(w, n, p, i)
      BY <2>1, <1>12, <1>13, StepTrans
    <2> QED BY <2>2 DEF Step
  <1> QED BY <1>12, <1>14 DEF n

\* p's INVITE is confirmed by the ACK.
Acknowledged(w, p, i) == Set(PutS(w, i, "TERMINATED"), p, "invite_tsx", 0)

\* The INVITE is over and forgotten.
LEMMA AcknowledgedStep ==
    ASSUME NEW w, Good(w), NEW p \in Side, NEW i \in 1..Len(w.tsx),
           w.tsx[i].by # p, w.inv[p].invite_tsx = i
    PROVE  LET n == Acknowledged(w, p, i)
           IN Good(n) /\ Grows(w, n)
  <1> DEFINE t == WithS(w.tsx[i], "TERMINATED")
             m == PutS(w, i, "TERMINATED")
             n == Acknowledged(w, p, i)
  <1>1. /\ t \in Txn /\ t.method = w.tsx[i].method /\ t.by = w.tsx[i].by
        /\ t.of = w.tsx[i].of /\ t.c = w.tsx[i].c /\ t.acked = w.tsx[i].acked
        /\ t.s = "TERMINATED" /\ t.scode = w.tsx[i].scode /\ t.ccode = w.tsx[i].ccode
    <2>1. w.tsx[i] \in Txn
      BY Facts DEF Good, GoodBut
    <2> QED BY <2>1, TxnFields
  <1>2. m = WithTxn(w, i, t)
    BY TxnIs DEF Good, GoodBut
  <1>3. n = Set(m, p, "invite_tsx", 0)
    BY DEF Acknowledged
  <1> HIDE DEF t, m, n
  <1>4. MayTimeout \/ (t.scode # 408 /\ t.ccode # 408)
    BY <1>1, CodesKept DEF Good
  <1>5. /\ Step(w, m, p, i) /\ m.inv = w.inv
        /\ i \in 1..Len(m.tsx) /\ ~Pending(p, m.tsx[i])
    BY <1>1, <1>2, <1>4, EndServer
  <1>6. n = Forget(m, p, i)
    BY <1>3, <1>5 DEF Forget
  <1>7. Good(n) /\ Step(m, n, p, i)
    BY <1>5, <1>6, ForgetGood DEF Step
  <1>8. GoodBut(w, p, i)
    BY Exempts
  <1>9. Step(w, n, p, i)
    BY <1>5, <1>7, <1>8, StepTrans
  <1> QED BY <1>7, <1>9 DEF Step, n

\* The ACK to a 2xx.
LEMMA RxAckStep ==
    ASSUME NEW w, Good(w), NEW p \in Side, NEW i \in 1..Len(w.tsx),
           w.tsx[i].by # p, w.tsx[i].acked
    PROVE  LET n == RxAck(w, p, i)
           IN Good(n) /\ Grows(w, n)
  <1> DEFINE d == Set(w, p, "remote_cseq", i)
             n == Acknowledged(d, p, i)
             o == SetState(n, p, CONFIRMED)
             u == Set(o, p, "pending_bye", FALSE)
             b == SendBye(u, p)
             r == RxAck(w, p, i)
  <1>0. GoodBut(w, p, 0)
    BY Exempts
  <1>1. r = IF w.inv[p].invite_tsx # i THEN d
            ELSE IF n.inv[p].state # CONNECTING THEN n
            ELSE IF o.inv[p].pending_bye THEN b ELSE o
    BY DEF RxAck, St, Acknowledged, PutS
  <1>2. Mild(w, d, p, 0) /\ d.tsx = w.tsx
    <2>1. i \in 0..Len(w.tsx)
      OBVIOUS
    <2> QED BY <2>1, <1>0, SeenMild
  <1> HIDE DEF d, r
  <1>3. Good(d) /\ Grows(w, d)
    BY <1>2, NoExempt DEF Mild, Step
  <1>4. CASE w.inv[p].invite_tsx # i
    BY <1>1, <1>3, <1>4 DEF r
  <1>5. CASE w.inv[p].invite_tsx = i
    <2>1. Good(n) /\ Grows(d, n)
      BY <1>2, <1>3, <1>5, AcknowledgedStep DEF Mild
    <2> HIDE DEF n
    <2>2. GoodBut(n, p, 0) /\ Grows(w, n)
      BY <2>1, <1>3, Exempts, GrowsTrans DEF Good, GoodBut
    <2>3. CASE n.inv[p].state # CONNECTING
      BY <2>1, <2>2, <2>3, <1>1, <1>5 DEF r
    <2>4. CASE n.inv[p].state = CONNECTING
      <3>1. w.tsx[i].by \in Side /\ w.inv[w.tsx[i].by].state >= CONFIRMED
        BY <1>0, Facts DEF GoodBut, AckedConfirms
      <3>2. p = "B" => Free(w, p)
        BY <3>1 DEF Free, Side
      <3>3. p = "B" => Free(n, p)
        BY <3>2, <2>2, <1>0, FreeStays DEF GoodBut
      <3>4. Mild(n, o, p, 0) /\ o.inv[p].state = CONFIRMED
        <4>1. PICK s \in 0..6 : s = CONFIRMED
          BY DEF CONFIRMED
        <4>2. n.inv[p].state <= s
          BY <4>1, <2>4 DEF CONNECTING, CONFIRMED
        <4>3. s # DISCONNECTED
          BY <4>1 DEF CONFIRMED, DISCONNECTED
        <4>4. LET v == SetState(n, p, s)
              IN Mild(n, v, p, 0) /\ v.inv[p].state = s
          BY <4>2, <4>3, <3>3, <2>2, SetStateMild
        <4> QED BY <4>1, <4>4
      <3> HIDE DEF o
      <3>5. Mild(o, u, p, 0) /\ u.inv[p].state = CONFIRMED
        <4>1. FALSE \in BOOLEAN /\ GoodBut(o, p, 0)
          BY <3>4 DEF Mild, Step
        <4> QED BY <4>1, <3>4, FlagMild
      <3> HIDE DEF u
      <3>6. Mild(u, b, p, 0)
        BY <3>5, SendByeMild DEF Mild, Step
      <3> HIDE DEF b
      <3>7. r = b \/ r = o
        BY <1>1, <1>5, <2>4
      <3>8. Step(n, o, p, 0) /\ Step(n, b, p, 0)
        BY <3>4, <3>5, <3>6, <2>2, MildTrans DEF Mild, Step
      <3>9. GoodBut(r, p, 0) /\ Grows(n, r)
        BY <3>7, <3>8 DEF Step
      <3>10. Good(r) /\ Grows(w, r)
        BY <3>9, <2>2, <1>0, NoExempt, GrowsTrans DEF GoodBut
      <3> QED BY <3>10 DEF r
    <2> QED BY <2>3, <2>4
  <1> QED BY <1>4, <1>5

------------------------------------------------------------------------------
(* Responses received.                                                     *)
------------------------------------------------------------------------------
\* i is a transaction of p's that is over once it has a final response.
Own(w, p, i) ==
    /\ i \in 1..Len(w.tsx) /\ w.tsx[i].by = p
    /\ w.tsx[i].ccode >= 200 => ~OpenAt(w.tsx[i])

\* Mild steps leave p's transactions alone.
LEMMA OwnStays ==
    ASSUME NEW w, NEW n, NEW p, NEW x, NEW i,
           GoodBut(w, p, x), Mild(w, n, p, x), Own(w, p, i)
    PROVE  Own(n, p, i) /\ n.tsx[i] = w.tsx[i]
  <1>1. Len(w.tsx) \in Nat /\ Len(n.tsx) \in Nat /\ Len(w.tsx) <= Len(n.tsx)
    BY Facts DEF Mild, Step, Grows, GoodBut
  <1> QED BY <1>1 DEF Own, Mild

\* The code of a transaction of p's.
LEMMA OwnCode ==
    ASSUME NEW w, NEW p, NEW x, NEW i, GoodBut(w, p, x), Own(w, p, i)
    PROVE  w.tsx[i].ccode \in Codes /\ (MayTimeout \/ w.tsx[i].ccode # 408)
  <1>1. i \in 1..Len(w.tsx)
    BY DEF Own
  <1> QED BY <1>1, Facts, CodesKept DEF GoodBut

\* Who has a transaction may send requests.
LEMMA OwnFree ==
    ASSUME NEW w, NEW p, NEW x, NEW i, p \in Side, GoodBut(w, p, x), Own(w, p, i)
    PROVE  Free(w, p)
  BY FreeWhenMet DEF Own

\* The dialog is gone, or did not answer.
LEMMA GenericStep ==
    ASSUME NEW w, NEW p, NEW x, NEW i, p \in Side, GoodBut(w, p, x), Own(w, p, i)
    PROVE  Step(w, Generic(w, p, i), p, x)
  <1> DEFINE code == w.tsx[i].ccode
             d == Disconnect(w, p, code)
             b == SendBye(d, p)
  <1>1. Generic(w, p, i) = w \/ (code \in {408, 481} /\ Generic(w, p, i) = b)
    BY DEF Generic
  <1>2. CASE code \in {408, 481} /\ Generic(w, p, i) = b
    <2>1. code \in Codes \ {0} /\ (MayTimeout \/ code # 408)
      BY <1>2, OwnCode
    <2>2. Free(w, p)
      BY OwnFree
    <2> HIDE DEF code
    <2>3. Mild(w, d, p, x)
      BY <2>1, DisconnectMild
    <2> HIDE DEF d
    <2>4. GoodBut(d, p, x) /\ Free(d, p)
      BY <2>2, <2>3, FreeStays DEF Mild, Step, GoodBut
    <2>5. Mild(d, b, p, x)
      BY <2>4, SendByeMild
    <2> HIDE DEF b
    <2>6. Mild(w, b, p, x)
      BY <2>3, <2>5, MildTrans
    <2> QED BY <2>6, <1>2 DEF Mild
  <1>3. Step(w, w, p, x)
    BY MildSelf DEF Mild
  <1> QED BY <1>1, <1>2, <1>3

\* Going on to EARLY or CONNECTING.
LEMMA SetStateTo ==
    ASSUME NEW w, NEW p, NEW x, NEW s, p \in Side, GoodBut(w, p, x),
           s \in {EARLY, CONNECTING}, w.inv[p].state <= s
    PROVE  Mild(w, SetState(w, p, s), p, x)
  <1>1. PICK v \in 0..6 : v = s
    BY DEF EARLY, CONNECTING
  <1>2. v # DISCONNECTED /\ v # CONFIRMED /\ w.inv[p].state <= v
    BY <1>1 DEF EARLY, CONNECTING, CONFIRMED, DISCONNECTED
  <1>3. LET n == SetState(w, p, v)
        IN Mild(w, n, p, x) /\ n.inv[p].state = v
    BY <1>2, SetStateMild
  <1> QED BY <1>1, <1>3

\* No CANCEL waits any more.
NoCancel(w, p) == Set(w, p, "pending_cancel", FALSE)

\* Dropping pending_cancel.
LEMMA NoCancelMild ==
    ASSUME NEW w, NEW p, NEW x, p \in Side, GoodBut(w, p, x)
    PROVE  LET n == NoCancel(w, p)
           IN Mild(w, n, p, x) /\ n.inv[p].state = w.inv[p].state
  BY FlagMild DEF NoCancel

\* A response to the INVITE that made the call.
LEMMA OnFirstInviteStep ==
    ASSUME NEW w, NEW p, NEW x, NEW i, p \in Side, GoodBut(w, p, x), Own(w, p, i),
           w.inv[p].state \in {CALLING, EARLY}
    PROVE  Step(w, OnFirstInvite(w, p, i), p, x)
  <1> DEFINE code == w.tsx[i].ccode
             m == NoCancel(w, p)
             e == EndSession(m, p, 487)
             cancel == w.inv[p].state = CALLING /\ w.inv[p].pending_cancel
             n == IF cancel THEN e ELSE w
             s == SetState(w, p, CONNECTING)
             r == OnFirstInvite(w, p, i)
  <1>1. r = IF code >= 300 THEN Disconnect(w, p, code)
            ELSE IF code >= 200 THEN SendAck(s, p, i)
            ELSE IF code > 100 THEN SetState(n, p, EARLY) ELSE n
    BY DEF OnFirstInvite, St, NoCancel
  <1>2. code \in Codes /\ code \in Nat /\ (MayTimeout \/ code # 408)
    <2>1. code \in Codes /\ (MayTimeout \/ code # 408)
      BY OwnCode
    <2> HIDE DEF code
    <2> QED BY <2>1, CodesNat
  <1>3. w.inv[p].state <= EARLY /\ w.inv[p].state <= CONNECTING
    BY DEF CALLING, EARLY, CONNECTING
  <1>4. Step(w, n, p, x) /\ n.inv[p].state <= EARLY
    <2>1. CASE cancel
      <3>1. Mild(w, m, p, x) /\ m.inv[p].state = CALLING
        BY <2>1, NoCancelMild
      <3> HIDE DEF m
      <3>2. Step(m, e, p, x) /\ e.inv[p].state = CALLING
        <4>1. GoodBut(m, p, x)
          BY <3>1 DEF Mild, Step
        <4>2. LET v == EndSession(m, p, 487)
              IN /\ Step(m, v, p, x)
                 /\ m.inv[p].state = CALLING => v.inv[p].state = CALLING
          BY <4>1, EndSessionStep
        <4> QED BY <4>2, <3>1
      <3> HIDE DEF e
      <3>3. Step(w, e, p, x)
        BY <3>1, <3>2, StepTrans DEF Mild
      <3> QED BY <2>1, <3>2, <3>3 DEF CALLING, EARLY
    <2>2. CASE ~cancel
      <3>1. Step(w, w, p, x)
        BY MildSelf DEF Mild
      <3> QED BY <3>1, <2>2, <1>3
    <2> QED BY <2>1, <2>2
  <1> HIDE DEF code, n, r
  <1>5. CASE code >= 300
    <2>1. code \in Codes \ {0}
      BY <1>2, <1>5
    <2>2. r = Disconnect(w, p, code)
      BY <1>1, <1>5
    <2>3. LET d == Disconnect(w, p, code)
          IN Mild(w, d, p, x) /\ d.inv[p].state = DISCONNECTED
      BY <2>1, <1>2, DisconnectMild
    <2> QED BY <2>2, <2>3 DEF Mild, r
  <1>6. CASE code < 300 /\ code >= 200
    <2>1. Mild(w, s, p, x)
      BY <1>3, SetStateTo
    <2> HIDE DEF s
    <2>2. Own(s, p, i) /\ GoodBut(s, p, x)
      BY <2>1, OwnStays DEF Mild, Step
    <2>3. i \in 1..Len(s.tsx) /\ s.tsx[i].by = p
      BY <2>2 DEF Own
    <2>4. Step(s, SendAck(s, p, i), p, x)
      BY <2>2, <2>3, SendAckStep
    <2>5. r = SendAck(s, p, i)
      BY <1>1, <1>2, <1>6
    <2>6. Step(w, r, p, x)
      BY <2>1, <2>4, <2>5, StepTrans DEF Mild
    <2> QED BY <2>6 DEF r
  <1>7. CASE code < 200
    <2>1. r = n \/ r = SetState(n, p, EARLY)
      BY <1>1, <1>2, <1>7
    <2>2. Mild(n, SetState(n, p, EARLY), p, x)
      BY <1>4, SetStateTo DEF Step
    <2>3. Step(w, SetState(n, p, EARLY), p, x)
      BY <2>2, <1>4, StepTrans DEF Mild
    <2> QED BY <2>1, <2>3, <1>4 DEF r
  <1> QED BY <1>5, <1>6, <1>7, <1>2

\* A response to a re-INVITE.
LEMMA OnReinviteStep ==
    ASSUME NEW w, NEW p, NEW x, NEW i, p \in Side, GoodBut(w, p, x), Own(w, p, i),
           w.inv[p].state = CONFIRMED
    PROVE  Step(w, OnReinvite(w, p, i), p, x)
  <1> DEFINE code == w.tsx[i].ccode
             m == NoCancel(w, p)
             r == OnReinvite(w, p, i)
  <1>1. \/ r = w
        \/ r = CancelInvite(m, p)
        \/ r = SendAck(w, p, i)
        \/ r = Generic(w, p, i)
        \/ r = Forget(w, p, i) /\ ~(code < 200)
    <2>1. r = IF code < 200
              THEN IF w.inv[p].pending_cancel THEN CancelInvite(m, p) ELSE w
              ELSE IF code < 300 THEN SendAck(w, p, i)
              ELSE IF code \in {408, 481} THEN Generic(w, p, i)
              ELSE Forget(w, p, i)
      BY DEF OnReinvite, NoCancel
    <2> HIDE DEF r, m, code
    <2> QED BY <2>1
  <1>2. i \in 1..Len(w.tsx) /\ w.tsx[i].by = p /\ code \in Nat
    BY OwnCode, CodesNat DEF Own
  <1> HIDE DEF r
  <1>3. CASE r = w
    BY <1>3, MildSelf DEF Mild, r
  <1>4. CASE r = CancelInvite(m, p)
    <2>1. Mild(w, m, p, x) /\ m.inv[p].state = CONFIRMED
      BY NoCancelMild
    <2> HIDE DEF m
    <2>2. Step(m, r, p, x)
      BY <1>4, <2>1, CancelInviteStep DEF Mild, Step
    <2>3. Step(w, r, p, x)
      BY <2>1, <2>2, StepTrans DEF Mild
    <2> QED BY <2>3 DEF r
  <1>5. CASE r = SendAck(w, p, i)
    <2>1. Step(w, SendAck(w, p, i), p, x)
      BY <1>2, SendAckStep
    <2> QED BY <2>1, <1>5 DEF r
  <1>6. CASE r = Generic(w, p, i)
    BY <1>6, GenericStep DEF r
  <1>7. CASE r = Forget(w, p, i) /\ ~(code < 200)
    <2>1. ~Pending(p, w.tsx[i])
      BY <1>2, <1>7 DEF Pending, Own
    <2>2. Step(w, Forget(w, p, i), p, x)
      BY <2>1, <1>2, ForgetStep
    <2> QED BY <2>2, <1>7 DEF r
  <1> QED BY <1>1, <1>3, <1>4, <1>5, <1>6, <1>7

\* Every state of a client transaction.
LEMMA OnClientStep ==
    ASSUME NEW w, NEW p, NEW x, NEW i, p \in Side, GoodBut(w, p, x), Own(w, p, i)
    PROVE  Step(w, OnClient(w, p, i), p, x)
  <1> DEFINE r == OnClient(w, p, i)
  <1>1. \/ r = w
        \/ r = Disconnect(w, p, 408) /\ w.tsx[i].ccode = 408
        \/ r = OnReinvite(w, p, i) /\ w.inv[p].state = CONFIRMED
        \/ r = OnFirstInvite(w, p, i) /\ w.inv[p].state \in {CALLING, EARLY}
        \/ r = Disconnect(w, p, 200)
        \/ r = Generic(w, p, i)
    BY DEF OnClient, St
  <1> HIDE DEF r
  <1>2. CASE r = w
    BY <1>2, MildSelf DEF Mild, r
  <1>3. CASE r = Disconnect(w, p, 408) /\ w.tsx[i].ccode = 408
    <2>1. 408 \in Codes \ {0} /\ MayTimeout
      BY <1>3, OwnCode
    <2>2. Mild(w, Disconnect(w, p, 408), p, x)
      BY <2>1, DisconnectMild
    <2> QED BY <2>2, <1>3 DEF Mild, r
  <1>4. CASE r = OnReinvite(w, p, i) /\ w.inv[p].state = CONFIRMED
    BY <1>4, OnReinviteStep DEF r
  <1>5. CASE r = OnFirstInvite(w, p, i) /\ w.inv[p].state \in {CALLING, EARLY}
    BY <1>5, OnFirstInviteStep DEF r
  <1>6. CASE r = Disconnect(w, p, 200)
    <2>1. 200 \in Codes \ {0} /\ 200 # 408
      BY DEF Codes
    <2>2. Mild(w, Disconnect(w, p, 200), p, x)
      BY <2>1, DisconnectMild
    <2> QED BY <2>2, <1>6 DEF Mild, r
  <1>7. CASE r = Generic(w, p, i)
    BY <1>7, GenericStep DEF r
  <1> QED BY <1>1, <1>2, <1>3, <1>4, <1>5, <1>6, <1>7

\* The client's half of a transaction with a response.
Answered(t, c, code) == [t EXCEPT !.c = c, !.ccode = code]

\* The fields of a transaction with a response.
LEMMA AnsweredFields ==
    ASSUME NEW t, NEW c, NEW code, t \in Txn, code \in Codes,
           c \in {"PROCEEDING", "COMPLETED", "TERMINATED"}
    PROVE  LET u == Answered(t, c, code)
           IN /\ u \in Txn /\ u.method = t.method /\ u.by = t.by /\ u.of = t.of
              /\ u.s = t.s /\ u.scode = t.scode /\ u.acked = t.acked
              /\ u.c = c /\ u.ccode = code
  BY DEF Txn, Answered

\* Transaction i of p's may get the code, which leaves it in c; INVITE x is let
\* off.
MayAnswer(w, p, i, c, code, x) ==
    /\ i \in 1..Len(w.tsx) /\ w.tsx[i].by = p /\ code \in Codes
    /\ MayTimeout \/ code # 408
    /\ c \in {"PROCEEDING", "COMPLETED", "TERMINATED"}
    /\ c = "PROCEEDING" => OpenAt(w.tsx[i]) /\ ~(code >= 200)
    /\ c = "TERMINATED" => x = i

\* Such a response is a good step.
LEMMA AnsweredStep ==
    ASSUME NEW w, NEW p, NEW i, NEW c, NEW code, NEW x, Good(w), p \in Side,
           MayAnswer(w, p, i, c, code, x)
    PROVE  LET n == PutTxn(w, i, Answered(w.tsx[i], c, code))
           IN /\ Step(w, n, p, x) /\ n.inv = w.inv /\ Own(n, p, i)
              /\ n.tsx[i].c = c /\ n.tsx[i].method = w.tsx[i].method
              /\ n.tsx[i].ccode = code
  <1> DEFINE o == w.tsx[i]
             t == Answered(o, c, code)
             n == PutTxn(w, i, t)
  <1>0. /\ i \in 1..Len(w.tsx) /\ w.tsx[i].by = p /\ code \in Codes
        /\ MayTimeout \/ code # 408
        /\ c \in {"PROCEEDING", "COMPLETED", "TERMINATED"}
        /\ c = "PROCEEDING" => OpenAt(w.tsx[i]) /\ ~(code >= 200)
        /\ c = "TERMINATED" => x = i
    BY DEF MayAnswer
  <1>1. GoodBut(w, p, x)
    BY Exempts
  <1>2. o \in Txn /\ (MayTimeout \/ (o.scode # 408 /\ o.ccode # 408))
    BY <1>0, <1>1, Facts, CodesKept DEF GoodBut
  <1>3. o = w.tsx[i]
    OBVIOUS
  <1> HIDE DEF o
  <1>4. /\ t \in Txn /\ t.method = o.method /\ t.by = o.by /\ t.of = o.of
        /\ t.s = o.s /\ t.scode = o.scode /\ t.acked = o.acked
        /\ t.c = c /\ t.ccode = code
    BY <1>0, <1>2, AnsweredFields
  <1>5. n = WithTxn(w, i, t)
    BY <1>1, <1>3, TxnIs DEF GoodBut
  <1> HIDE DEF t, n
  <1>6. (OpenAt(t) => OpenAt(o)) /\ (Busy(t) => Busy(o))
    BY <1>0, <1>3, <1>4 DEF OpenAt, Busy
  <1>7. ASSUME NEW q \in Side, ~(q = p /\ i = x), Held(q, o)
        PROVE  Held(q, t)
    BY <1>0, <1>3, <1>4, <1>7 DEF Held
  <1>8. Calm(w, p, x, i, t)
    BY <1>0, <1>2, <1>3, <1>4, <1>6, <1>7 DEF Calm
  <1>9. Step(w, n, p, x) /\ n.inv = w.inv /\ n.tsx[i] = t /\ Len(n.tsx) = Len(w.tsx)
    BY <1>1, <1>5, <1>8, CalmStep
  <1>10. t.ccode >= 200 => ~OpenAt(t)
    BY <1>0, <1>4 DEF OpenAt
  <1>11. Own(n, p, i)
    BY <1>0, <1>3, <1>4, <1>9, <1>10 DEF Own
  <1> QED BY <1>0, <1>3, <1>4, <1>9, <1>11 DEF n, t, o

\* Once over, the transaction is forgotten.
LEMMA OverStep ==
    ASSUME NEW w, NEW p, NEW i, p \in Side, GoodBut(w, p, i),
           Own(w, p, i), ~OpenAt(w.tsx[i])
    PROVE  LET h == OnClient(w, p, i)
               n == Forget(h, p, i)
           IN Good(n) /\ Step(w, n, p, i)
  <1> DEFINE h == OnClient(w, p, i)
             n == Forget(h, p, i)
  <1>1. Step(w, h, p, i)
    BY OnClientStep
  <1> HIDE DEF h
  <1>2. Len(w.tsx) \in Nat /\ Len(h.tsx) \in Nat /\ Len(w.tsx) <= Len(h.tsx)
    BY <1>1, Facts DEF Step, Grows, GoodBut
  <1>3. i \in 1..Len(w.tsx) /\ w.tsx[i].by = p
    BY DEF Own
  <1>4. i \in 1..Len(h.tsx)
    BY <1>2, <1>3
  <1>5. h.tsx[i].by = p /\ ~OpenAt(h.tsx[i])
    BY <1>1, <1>3 DEF Step, Grows
  <1>6. ~Pending(p, h.tsx[i])
    BY <1>5 DEF Pending
  <1>7. Good(n) /\ Step(h, n, p, i)
    BY <1>1, <1>4, <1>6, ForgetGood DEF Step
  <1>8. Step(w, n, p, i)
    BY <1>1, <1>7, StepTrans
  <1> QED BY <1>7, <1>8 DEF h

\* No response came in time.
LEMMA NoResponseStep ==
    ASSUME NEW w, NEW p, NEW i, Good(w), p \in Side, i \in 1..Len(w.tsx),
           w.tsx[i].by = p, MayTimeout
    PROVE  LET n == NoResponse(w, p, i)
           IN Good(n) /\ Grows(w, n)
  <1> DEFINE m == PutTxn(w, i, Answered(w.tsx[i], "TERMINATED", 408))
             n == NoResponse(w, p, i)
  <1>1. MayAnswer(w, p, i, "TERMINATED", 408, i)
    BY DEF MayAnswer, Codes
  <1>2. Step(w, m, p, i) /\ Own(m, p, i) /\ m.tsx[i].c = "TERMINATED"
    BY <1>1, AnsweredStep
  <1>3. n = Forget(OnClient(m, p, i), p, i)
    BY DEF NoResponse, PutTxn, Answered
  <1> HIDE DEF m, n
  <1>4. ~OpenAt(m.tsx[i])
    BY <1>2 DEF OpenAt
  <1>5. Good(n) /\ Step(m, n, p, i)
    BY <1>2, <1>3, <1>4, OverStep DEF Step
  <1>6. GoodBut(w, p, i)
    BY Exempts
  <1>7. Step(w, n, p, i)
    BY <1>2, <1>5, <1>6, StepTrans
  <1> QED BY <1>5, <1>7 DEF Step, n

\* Every response.
LEMMA RxResponseStep ==
    ASSUME NEW w, NEW p, NEW i, NEW code, Good(w), p \in Side, i \in 1..Len(w.tsx),
           w.tsx[i].by = p, OpenAt(w.tsx[i]), code = w.tsx[i].scode
    PROVE  LET n == RxResponse(w, p, i, code)
           IN Good(n) /\ Grows(w, n)
  <1> DEFINE accepted == w.tsx[i].method = "INVITE" /\ code \in 200..299
             c == IF code < 200 THEN "PROCEEDING"
                  ELSE IF accepted \/ (w.tsx[i].method = "BYE" /\ code = 481)
                  THEN "TERMINATED" ELSE "COMPLETED"
             n == PutTxn(w, i, Answered(w.tsx[i], c, code))
             m == IF /\ accepted
                     /\ w.inv[p].invite_tsx = 0 \/ w.inv[p].state = DISCONNECTED
                  THEN SendAck(n, p, i) ELSE n
             h == OnClient(m, p, i)
             r == RxResponse(w, p, i, code)
             x == IF c = "TERMINATED" THEN i ELSE 0
  <1>1. r = IF c = "TERMINATED" THEN Forget(h, p, i) ELSE h
    BY DEF RxResponse, St, PutTxn, Answered
  <1>2. code \in Codes /\ code \in Nat /\ (MayTimeout \/ code # 408)
    <2>1. code \in Codes /\ (MayTimeout \/ code # 408)
      BY Facts, CodesKept DEF Good, GoodBut
    <2> QED BY <2>1, CodesNat
  <1>3. /\ c \in {"PROCEEDING", "COMPLETED", "TERMINATED"}
        /\ c = "PROCEEDING" => ~(code >= 200)
    BY <1>2
  <1>4. x \in {0, i} /\ (c = "TERMINATED" => x = i) /\ (c # "TERMINATED" => x = 0)
    OBVIOUS
  <1> HIDE DEF c, x, accepted
  <1>5. Step(w, n, p, x) /\ Own(n, p, i) /\ n.tsx[i].c = c
    <2>1. MayAnswer(w, p, i, c, code, x)
      BY <1>2, <1>3, <1>4 DEF MayAnswer
    <2> QED BY <2>1, AnsweredStep
  <1> HIDE DEF n
  <1>6. Step(n, m, p, x) /\ Own(m, p, i) /\ m.tsx[i].c = c
    <2>1. GoodBut(n, p, x) /\ i \in 1..Len(n.tsx) /\ n.tsx[i].by = p
      BY <1>5 DEF Step, Own
    <2>2. CASE m = SendAck(n, p, i)
      <3>1. /\ Step(n, m, p, x) /\ m.tsx[i].by = p
            /\ m.tsx[i].c = n.tsx[i].c /\ m.tsx[i].ccode = n.tsx[i].ccode
        <4> HIDE DEF m
        <4> QED BY <2>1, <2>2, SendAckStep
      <3> HIDE DEF m
      <3>2. Len(n.tsx) \in Nat /\ Len(m.tsx) \in Nat /\ Len(n.tsx) <= Len(m.tsx)
        BY <2>1, <3>1, Facts DEF Step, Grows, GoodBut
      <3>3. i \in 1..Len(m.tsx)
        BY <2>1, <3>2
      <3> QED BY <3>1, <3>3, <1>5 DEF Own, OpenAt
    <2>3. CASE m = n
      <3>1. Step(n, n, p, x)
        BY <2>1, MildSelf DEF Mild
      <3> HIDE DEF m
      <3> QED BY <3>1, <2>3, <1>5
    <2> QED BY <2>2, <2>3
  <1> HIDE DEF m
  <1>7. GoodBut(w, p, x)
    BY Exempts
  <1>8. Step(w, m, p, x)
    BY <1>5, <1>6, <1>7, StepTrans
  <1>9. CASE c = "TERMINATED"
    <2>1. r = Forget(OnClient(m, p, i), p, i)
      BY <1>1, <1>9
    <2> HIDE DEF r
    <2>2. ~OpenAt(m.tsx[i]) /\ GoodBut(m, p, i)
      BY <1>4, <1>6, <1>8, <1>9 DEF OpenAt, Step
    <2>3. Good(r) /\ Step(m, r, p, i)
      BY <2>1, <2>2, <1>6, OverStep
    <2>4. Step(w, r, p, i)
      BY <2>3, <1>7, <1>8, StepTrans
    <2> QED BY <2>3, <2>4 DEF Step, r
  <1>10. CASE c # "TERMINATED"
    <2>1. r = h
      BY <1>1, <1>10
    <2>2. Step(m, h, p, x)
      BY <1>6, <1>8, OnClientStep DEF Step
    <2> HIDE DEF r, h
    <2>3. Step(w, r, p, x)
      BY <2>1, <2>2, <1>7, <1>8, StepTrans
    <2>4. Good(r)
      BY <2>3, <1>4, <1>10, NoExempt DEF Step
    <2> QED BY <2>3, <2>4 DEF Step, r
  <1> QED BY <1>9, <1>10

------------------------------------------------------------------------------
(* The actions, once both sides have met.                                  *)
------------------------------------------------------------------------------
\* The variables are the world's.
LEMMA WorldIs ==
    /\ World.inv = inv /\ World.tsx = tsx
    /\ World'.inv = inv' /\ World'.tsx = tsx'
  BY DEF World

\* Become changes the world to w ...
LEMMA Became ==
    ASSUME NEW w, Shape(w), Become(w)
    PROVE  World' = w
  <1>1. w \in [inv : [Side -> Session], tsx : Seq(Txn)]
    BY ShapeType
  <1>2. w = [inv |-> w.inv, tsx |-> w.tsx]
    BY <1>1
  <1> QED BY <1>2 DEF Become, World

\* ... and what is shown of w is so of the next state.
LEMMA BecameGood ==
    ASSUME NEW w, Good(w), Grows(World, w), Become(w)
    PROVE  Good(World') /\ Grows(World, World')
  <1>1. World' = w
    BY Became DEF Good, GoodBut
  <1> QED BY <1>1

\* The sides of a transaction.
LEMMA ServerFacts ==
    ASSUME NEW w, NEW i, w = World, Shape(w), i \in Txns
    PROVE  /\ i \in 1..Len(w.tsx) /\ w.tsx[i].by \in Side
           /\ Server(i) \in Side /\ w.tsx[i].by # Server(i)
           /\ Open(i) => OpenAt(w.tsx[i])
  <1>1. w.tsx = tsx
    BY WorldIs
  <1>2. DOMAIN tsx = 1..Len(tsx)
    BY <1>1, ShapeType
  <1>3. i \in 1..Len(w.tsx)
    BY <1>1, <1>2 DEF Txns
  <1>4. w.tsx[i].by \in Side
    BY <1>3, Facts
  <1> QED BY <1>1, <1>3, <1>4, SideFact DEF Server, Open, OpenAt

\* A request arrives.
LEMMA DeliverRequestStep ==
    ASSUME Good(World), NEW i, i \in Txns, DeliverRequest(i)
    PROVE  Good(World') /\ Grows(World, World')
  <1> DEFINE w == World
             p == Server(i)
  <1>1. PICK n \in RxRequest(w, p, i) : Become(n)
    BY DEF DeliverRequest
  <1>2. w.tsx[i].s = "NONE" /\ w.tsx[i].c = "CALLING"
    BY WorldIs DEF DeliverRequest
  <1>3. Good(w) /\ Shape(w) /\ w = World
    BY DEF Good, GoodBut
  <1> HIDE DEF w
  <1>4. i \in 1..Len(w.tsx) /\ p \in Side /\ w.tsx[i].by # p
    BY <1>3, ServerFacts
  <1> HIDE DEF p
  <1>5. Good(n) /\ Grows(w, n)
    BY <1>1, <1>2, <1>3, <1>4, RxRequestStep
  <1> QED BY <1>1, <1>3, <1>5, BecameGood

\* A response arrives.
LEMMA DeliverResponseStep ==
    ASSUME Good(World), NEW i, i \in Txns, DeliverResponse(i)
    PROVE  Good(World') /\ Grows(World, World')
  <1> DEFINE w == World
             p == w.tsx[i].by
             code == w.tsx[i].scode
             n == RxResponse(w, p, i, code)
  <1>1. Become(n) /\ Open(i)
    BY WorldIs DEF DeliverResponse
  <1>2. Good(w) /\ Shape(w) /\ w = World
    BY DEF Good, GoodBut
  <1>3. code = w.tsx[i].scode /\ w.tsx[i].by = p
    OBVIOUS
  <1> HIDE DEF w, p, code
  <1>4. i \in 1..Len(w.tsx) /\ p \in Side /\ OpenAt(w.tsx[i])
    BY <1>1, <1>2, <1>3, ServerFacts
  <1>5. Good(n) /\ Grows(w, n)
    BY <1>2, <1>3, <1>4, RxResponseStep
  <1> HIDE DEF n
  <1> QED BY <1>1, <1>2, <1>5, BecameGood

\* A 2xx comes too late.
LEMMA DeliverStrayStep ==
    ASSUME Good(World), NEW i, i \in Txns, DeliverStray(i)
    PROVE  Good(World') /\ Grows(World, World')
  <1> DEFINE w == World
             p == w.tsx[i].by
             n == SendAck(w, p, i)
  <1>1. Become(n)
    BY WorldIs DEF DeliverStray
  <1>2. Good(w) /\ Shape(w) /\ w = World
    BY DEF Good, GoodBut
  <1>3. w.tsx[i].by = p
    OBVIOUS
  <1> HIDE DEF w, p
  <1>4. i \in 1..Len(w.tsx) /\ p \in Side
    BY <1>2, <1>3, ServerFacts
  <1>5. GoodBut(w, p, 0)
    BY <1>2, <1>4, Exempts
  <1>6. Step(w, n, p, 0)
    BY <1>3, <1>4, <1>5, SendAckStep
  <1> HIDE DEF n
  <1>7. Good(n) /\ Grows(w, n)
    BY <1>4, <1>6, NoExempt DEF Step
  <1> QED BY <1>1, <1>2, <1>7, BecameGood

\* A step that changes nothing.
LEMMA StaysGood ==
    ASSUME Good(World), World' = World
    PROVE  Good(World') /\ Grows(World, World')
  <1> DEFINE w == World
  <1>1. Good(w) /\ Shape(w) /\ World' = w
    BY DEF Good, GoodBut
  <1> HIDE DEF w
  <1>2. Len(w.tsx) \in Nat /\ \A q \in Side : w.inv[q].state \in 0..6
    BY <1>1, Facts
  <1>3. Grows(w, w)
    BY <1>2 DEF Grows
  <1> QED BY <1>1, <1>3 DEF w

\* The ACK to a 2xx arrives.
LEMMA DeliverAckStep ==
    ASSUME Good(World), NEW i, i \in Txns, DeliverAck(i)
    PROVE  Good(World') /\ Grows(World, World')
  <1> DEFINE w == World
             p == Server(i)
             n == RxAck(w, p, i)
  <1>1. Become(n) \/ Become(w)
    BY DEF DeliverAck
  <1>2. w.tsx[i].acked
    BY WorldIs DEF DeliverAck
  <1>3. Good(w) /\ Shape(w) /\ w = World
    BY DEF Good, GoodBut
  <1> HIDE DEF w
  <1>4. i \in 1..Len(w.tsx) /\ p \in Side /\ w.tsx[i].by # p
    BY <1>3, ServerFacts
  <1> HIDE DEF p
  <1>5. Good(n) /\ Grows(w, n)
    BY <1>2, <1>3, <1>4, RxAckStep
  <1> HIDE DEF n
  <1>6. CASE Become(n)
    BY <1>3, <1>5, <1>6, BecameGood
  <1>7. CASE Become(w)
    BY <1>3, <1>7, Became, StaysGood
  <1> QED BY <1>1, <1>6, <1>7

\* The ACK to a failure arrives.
LEMMA DeliverFailureAckStep ==
    ASSUME Good(World), NEW i, i \in Txns, DeliverFailureAck(i)
    PROVE  Good(World') /\ Grows(World, World')
  <1> DEFINE w == World
             p == Server(i)
             t == WithS(w.tsx[i], "CONFIRMED")
             m == PutS(w, i, "CONFIRMED")
             n == Forget(m, p, i)
  <1>1. Become(n)
    BY DEF DeliverFailureAck, PutS
  <1>3. Good(w) /\ Shape(w) /\ w = World
    BY DEF Good, GoodBut
  <1> HIDE DEF w
  <1>4. i \in 1..Len(w.tsx) /\ p \in Side /\ w.tsx[i].by # p
    BY <1>3, ServerFacts
  <1> HIDE DEF p
  <1>5. /\ t \in Txn /\ t.method = w.tsx[i].method /\ t.by = w.tsx[i].by
        /\ t.of = w.tsx[i].of /\ t.c = w.tsx[i].c /\ t.acked = w.tsx[i].acked
        /\ t.s = "CONFIRMED" /\ t.scode = w.tsx[i].scode /\ t.ccode = w.tsx[i].ccode
    <2>1. w.tsx[i] \in Txn
      BY <1>3, <1>4, Facts
    <2> QED BY <2>1, TxnFields
  <1>6. m = WithTxn(w, i, t)
    BY <1>3, TxnIs
  <1> HIDE DEF t, m
  <1>7. MayTimeout \/ (t.scode # 408 /\ t.ccode # 408)
    BY <1>3, <1>4, <1>5, CodesKept DEF Good
  <1>8. /\ Step(w, m, p, i)
        /\ i \in 1..Len(m.tsx) /\ ~Pending(p, m.tsx[i])
    BY <1>3, <1>4, <1>5, <1>6, <1>7, EndServer
  <1>9. Good(n) /\ Step(m, n, p, i)
    BY <1>4, <1>8, ForgetGood DEF Step
  <1>10. Grows(w, n)
    <2>1. GoodBut(w, p, i)
      BY <1>3, <1>4, Exempts
    <2> HIDE DEF n
    <2>2. Step(w, n, p, i)
      BY <2>1, <1>8, <1>9, StepTrans
    <2> QED BY <2>2 DEF Step
  <1> HIDE DEF n
  <1> QED BY <1>1, <1>3, <1>9, <1>10, BecameGood

\* A server transaction leaves.
LEMMA ExpireServerStep ==
    ASSUME Good(World), NEW i, i \in Txns, ExpireServer(i)
    PROVE  Good(World') /\ Grows(World, World')
  <1> DEFINE w == World
             p == Server(i)
             t == WithS(w.tsx[i], "TERMINATED")
             n == WithTxn(w, i, t)
  <1>1. World' = n
    BY DEF ExpireServer, World, WithTxn, WithS
  <1>2. w.tsx[i].method = "INVITE" => w.tsx[i].s = "CONFIRMED"
    BY WorldIs DEF ExpireServer
  <1>3. Good(w) /\ Shape(w) /\ w = World
    BY DEF Good, GoodBut
  <1> HIDE DEF w
  <1>4. i \in 1..Len(w.tsx) /\ p \in Side
    BY <1>3, ServerFacts
  <1> HIDE DEF p
  <1>5. /\ t \in Txn /\ t.method = w.tsx[i].method /\ t.by = w.tsx[i].by
        /\ t.of = w.tsx[i].of /\ t.c = w.tsx[i].c /\ t.acked = w.tsx[i].acked
        /\ t.s = "TERMINATED" /\ t.scode = w.tsx[i].scode /\ t.ccode = w.tsx[i].ccode
    <2>1. w.tsx[i] \in Txn
      BY <1>3, <1>4, Facts
    <2> QED BY <2>1, TxnFields
  <1> HIDE DEF t
  <1>6. GoodBut(w, p, 0)
    BY <1>3, <1>4, Exempts
  <1>7. ASSUME NEW q \in Side, w.inv[q].invite_tsx = i, Held(q, w.tsx[i])
        PROVE  Held(q, t)
    <2>1. w.tsx[i].method = "INVITE"
      BY <1>4, <1>6, <1>7 DEF GoodBut, HoldsBut
    <2> QED BY <2>1, <1>2, <1>5, <1>7 DEF Held
  <1>8. Calm(w, p, 0, i, t)
    <2>1. MayTimeout \/ (t.scode # 408 /\ t.ccode # 408)
      BY <1>4, <1>5, <1>6, CodesKept
    <2>2. (OpenAt(t) => OpenAt(w.tsx[i])) /\ (Busy(t) => Busy(w.tsx[i]))
      BY <1>5 DEF OpenAt, Busy
    <2> QED BY <2>1, <2>2, <1>4, <1>5, <1>7 DEF Calm
  <1>9. Step(w, n, p, 0)
    BY <1>4, <1>6, <1>8, CalmStep
  <1> HIDE DEF n
  <1>10. Good(n) /\ Grows(w, n)
    BY <1>4, <1>9, NoExempt DEF Step
  <1> QED BY <1>1, <1>10 DEF w

\* A client transaction leaves.
LEMMA ExpireClientStep ==
    ASSUME Good(World), NEW i, i \in Txns, ExpireClient(i)
    PROVE  Good(World') /\ Grows(World, World')
  <1> DEFINE w == World
             p == w.tsx[i].by
             t == WithC(w.tsx[i], "TERMINATED")
             m == PutC(w, i, "TERMINATED")
             n == Forget(m, p, i)
  <1>1. Become(n)
    BY WorldIs DEF ExpireClient, PutC
  <1>2. Good(w) /\ Shape(w) /\ w = World
    BY DEF Good, GoodBut
  <1>3. w.tsx[i].by = p
    OBVIOUS
  <1> HIDE DEF w, p
  <1>4. i \in 1..Len(w.tsx) /\ p \in Side
    BY <1>2, <1>3, ServerFacts
  <1>5. /\ t \in Txn /\ t.method = w.tsx[i].method /\ t.by = p
        /\ t.of = w.tsx[i].of /\ t.c = "TERMINATED" /\ t.acked = w.tsx[i].acked
        /\ t.s = w.tsx[i].s /\ t.scode = w.tsx[i].scode /\ t.ccode = w.tsx[i].ccode
    <2>1. w.tsx[i] \in Txn
      BY <1>2, <1>4, Facts
    <2> QED BY <2>1, <1>3, TxnFields
  <1>6. m = WithTxn(w, i, t)
    BY <1>2, TxnIs
  <1> HIDE DEF t, m
  <1>7. GoodBut(w, p, i)
    BY <1>2, <1>4, Exempts
  <1>8. Calm(w, p, i, i, t)
    <2>1. MayTimeout \/ (t.scode # 408 /\ t.ccode # 408)
      BY <1>4, <1>5, <1>7, CodesKept
    <2>2. ~OpenAt(t) /\ (Busy(t) => Busy(w.tsx[i]))
      BY <1>5 DEF OpenAt, Busy
    <2>3. \A q \in Side : ~(q = p /\ i = i) /\ Held(q, w.tsx[i]) => Held(q, t)
      BY <1>3, <1>5 DEF Held
    <2> QED BY <2>1, <2>2, <2>3, <1>3, <1>4, <1>5 DEF Calm
  <1>9. Step(w, m, p, i) /\ m.tsx[i] = t /\ i \in 1..Len(m.tsx)
    BY <1>4, <1>6, <1>7, <1>8, CalmStep
  <1>10. ~Pending(p, m.tsx[i])
    BY <1>5, <1>9 DEF Pending, OpenAt
  <1>11. Good(n) /\ Step(m, n, p, i)
    BY <1>4, <1>9, <1>10, ForgetGood DEF Step
  <1> HIDE DEF n
  <1>12. Step(w, n, p, i)
    BY <1>7, <1>9, <1>11, StepTrans
  <1> QED BY <1>1, <1>2, <1>11, <1>12, BecameGood DEF Step

\* A request times out.
LEMMA TimeoutClientStep ==
    ASSUME Good(World), NEW i, i \in Txns, TimeoutClient(i)
    PROVE  Good(World') /\ Grows(World, World')
  <1> DEFINE w == World
             p == w.tsx[i].by
             n == NoResponse(w, p, i)
  <1>1. Become(n) /\ MayTimeout
    BY WorldIs DEF TimeoutClient
  <1>2. Good(w) /\ Shape(w) /\ w = World
    BY DEF Good, GoodBut
  <1>3. w.tsx[i].by = p
    OBVIOUS
  <1> HIDE DEF w, p
  <1>4. i \in 1..Len(w.tsx) /\ p \in Side
    BY <1>2, <1>3, ServerFacts
  <1>5. Good(n) /\ Grows(w, n)
    BY <1>1, <1>2, <1>3, <1>4, NoResponseStep
  <1> HIDE DEF n
  <1> QED BY <1>1, <1>2, <1>5, BecameGood

\* An ACK is not coming.
LEMMA TimeoutAckStep ==
    ASSUME Good(World), NEW i, i \in Txns, TimeoutAck(i)
    PROVE  Good(World') /\ Grows(World, World')
  <1> DEFINE w == World
             p == Server(i)
             n == AckTimeout(w, p, i)
  <1>1. Become(n) /\ MayTimeout
    BY DEF TimeoutAck
  <1>2. Good(w) /\ Shape(w) /\ w = World
    BY DEF Good, GoodBut
  <1> HIDE DEF w
  <1>3. i \in 1..Len(w.tsx) /\ p \in Side /\ w.tsx[i].by # p
    BY <1>2, ServerFacts
  <1> HIDE DEF p
  <1>4. Good(n) /\ Grows(w, n)
    BY <1>1, <1>2, <1>3, AckTimeoutStep
  <1> HIDE DEF n
  <1> QED BY <1>1, <1>2, <1>4, BecameGood

\* The application answers.
LEMMA AnswerStep ==
    ASSUME Good(World), Answer
    PROVE  Good(World') /\ Grows(World, World')
  <1> DEFINE w == World
  <1>1. PICK p \in Side, code \in {180, 200, 486} :
           LET i == w.inv[p].invite_tsx
           IN /\ w.tsx[i].by # p /\ w.tsx[i].s = "PROCEEDING"
              /\ Become(Respond(w, p, i, code))
    BY WorldIs DEF Answer
  <1> DEFINE i == w.inv[p].invite_tsx
             n == Respond(w, p, i, code)
  <1>2. Good(w) /\ Shape(w) /\ w = World
    BY DEF Good, GoodBut
  <1>3. w.inv[p].invite_tsx = i
    OBVIOUS
  <1>4. w.tsx[i].by # p /\ w.tsx[i].s = "PROCEEDING" /\ Become(n)
    BY <1>1
  <1> HIDE DEF w, i
  <1>5. i \in 0..Len(w.tsx)
    BY <1>2, <1>3, Facts
  <1>6. code \in Replies
    BY DEF Replies
  <1>7. MayRespond(w, p, i, code)
    BY <1>3, <1>4 DEF MayRespond, Busy
  <1>8. GoodBut(w, p, 0)
    BY <1>2, Exempts
  <1>9. Step(w, n, p, 0)
    BY <1>5, <1>6, <1>7, <1>8, RespondGood
  <1> HIDE DEF n
  <1>10. Good(n) /\ Grows(w, n)
    BY <1>9, NoExempt DEF Step
  <1> QED BY <1>2, <1>4, <1>10, BecameGood

\* The application hangs up.
HangingUp(w, p) == Set(w, p, "hanging_up", TRUE)

\* Noting that the call is hung up.
LEMMA HangingUpMild ==
    ASSUME NEW w, NEW p, NEW x, p \in Side, GoodBut(w, p, x)
    PROVE  LET n == HangingUp(w, p)
           IN Mild(w, n, p, x) /\ n.inv[p].state = w.inv[p].state
  BY FlagMild DEF HangingUp

\* The application hangs up.
LEMMA HangupStep ==
    ASSUME Good(World), NEW p, p \in Side, Hangup(p)
    PROVE  Good(World') /\ Grows(World, World')
  <1> DEFINE w == World
             code == IF w.inv[p].state = CONFIRMED THEN 200
                     ELSE IF p = "B" THEN 603 ELSE 487
             m == HangingUp(w, p)
             n == EndSession(m, p, code)
  <1>1. Become(n)
    BY WorldIs, ZenonT(30) DEF Hangup, HangingUp
  <1>2. Good(w) /\ w = World
    OBVIOUS
  <1>3. code \in {200, 487, 603} /\ (w.inv[p].state = CONFIRMED \/ code # 200)
    OBVIOUS
  <1> HIDE DEF w, code
  <1>4. GoodBut(w, p, 0)
    BY <1>2, Exempts
  <1>5. Mild(w, m, p, 0) /\ m.inv[p].state = w.inv[p].state
    BY <1>4, HangingUpMild
  <1> HIDE DEF m
  <1>6. GoodBut(m, p, 0)
    BY <1>5 DEF Mild, Step
  <1>7. m.inv[p].state \in {CONNECTING, CONFIRMED} \/ code # 200
    BY <1>3, <1>5
  <1>8. Step(m, n, p, 0)
    BY <1>3, <1>6, <1>7, EndSessionStep
  <1> HIDE DEF n
  <1>9. Step(w, n, p, 0)
    BY <1>4, <1>5, <1>8, StepTrans DEF Mild
  <1>10. Good(n) /\ Grows(w, n)
    BY <1>9, NoExempt DEF Step
  <1> QED BY <1>1, <1>2, <1>10, BecameGood

\* The application cancels a re-INVITE.
LEMMA CancelReinviteStep ==
    ASSUME Good(World), NEW p, p \in Side, CancelReinvite(p)
    PROVE  Good(World') /\ Grows(World, World')
  <1> DEFINE w == World
             n == CancelInvite(w, p)
  <1>1. Become(n) /\ w.inv[p].state = CONFIRMED
    BY WorldIs DEF CancelReinvite
  <1>2. Good(w) /\ w = World
    OBVIOUS
  <1> HIDE DEF w
  <1>3. GoodBut(w, p, 0)
    BY <1>2, Exempts
  <1>4. Step(w, n, p, 0)
    BY <1>1, <1>3, CancelInviteStep
  <1> HIDE DEF n
  <1>5. Good(n) /\ Grows(w, n)
    BY <1>4, NoExempt DEF Step
  <1> QED BY <1>1, <1>2, <1>5, BecameGood

\* p sends an INVITE of its own and keeps it in invite_tsx.
Inviting(w, p) == Set(Request(w, p, "INVITE", 0), p, "invite_tsx", Len(w.tsx) + 1)

\* What a re-INVITE changes ...
LEMMA InvitingIs ==
    ASSUME NEW w, NEW p, p \in Side, Shape(w), w.inv[p].state # DISCONNECTED
    PROVE  LET n == Inviting(w, p)
               L == Len(w.tsx)
               r == Owning(w.inv[p], L + 1)
           IN /\ Shape(n) /\ Len(n.tsx) = L + 1
              /\ n.tsx[L + 1] = Fresh(p, "INVITE", 0)
              /\ \A k \in 1..L : n.tsx[k] = w.tsx[k]
              /\ n.inv[p] = r /\ r.state = w.inv[p].state /\ r.cause = w.inv[p].cause
              /\ r.invite_tsx = L + 1
              /\ \A q \in Side \ {p} : n.inv[q] = w.inv[q]
  <1> DEFINE m == Request(w, p, "INVITE", 0)
             L == Len(w.tsx)
             r == Owning(w.inv[p], L + 1)
             n == Inviting(w, p)
  <1>1. L \in Nat /\ w.inv[p] \in Session /\ w.inv[p].remote_cseq \in 0..L
    BY Facts DEF Shape
  <1>2. /\ Shape(m) /\ m.inv = w.inv /\ Len(m.tsx) = L + 1
        /\ m.tsx[L + 1] = Fresh(p, "INVITE", 0)
        /\ \A k \in 1..L : m.tsx[k] = w.tsx[k]
    BY <1>1, RequestShape
  <1>3. /\ r \in Session /\ r.state = w.inv[p].state /\ r.cause = w.inv[p].cause
        /\ r.remote_cseq = w.inv[p].remote_cseq /\ r.invite_tsx = L + 1
    BY <1>1, OwningFields
  <1>4. n = WithSession(m, p, r)
    <2> HIDE DEF m
    <2> QED BY <1>2, SetIs DEF Inviting, Owning, m
  <1> HIDE DEF m, r
  <1>5. {r.invite_tsx, r.remote_cseq} \subseteq 0..Len(m.tsx)
    BY <1>1, <1>2, <1>3
  <1>6. r.state = DISCONNECTED => r.cause # 0
    BY <1>3
  <1>7. /\ Shape(n) /\ n.tsx = m.tsx /\ n.inv[p] = r
        /\ \A q \in Side \ {p} : n.inv[q] = m.inv[q]
    BY <1>2, <1>3, <1>4, <1>5, <1>6, SessionTyped
  <1> HIDE DEF n
  <1> QED BY <1>2, <1>3, <1>7 DEF n, r

\* ... is a good step when none is pending: here the new INVITE must be in
\* invite_tsx at once.
LEMMA InvitingStep ==
    ASSUME NEW w, NEW p, p \in Side, GoodBut(w, p, 0), w.inv[p].state = CONFIRMED,
           w.inv[p].invite_tsx = 0
    PROVE  Step(w, Inviting(w, p), p, 0)
  <1> DEFINE n == Inviting(w, p)
             t == Fresh(p, "INVITE", 0)
             L == Len(w.tsx)
             r == Owning(w.inv[p], L + 1)
  <1>1. Shape(w) /\ L \in Nat
    BY Facts DEF GoodBut
  <1>2. /\ t.method = "INVITE" /\ t.by = p /\ t.c = "CALLING" /\ t.ccode = 0
        /\ t.scode = 0 /\ ~t.acked /\ ~Busy(t)
    BY FreshFields
  <1>3. w.inv[p].state # DISCONNECTED
    BY DEF CONFIRMED, DISCONNECTED
  <1>4. /\ Shape(n) /\ Len(n.tsx) = L + 1 /\ n.tsx[L + 1] = t
        /\ \A k \in 1..L : n.tsx[k] = w.tsx[k]
        /\ n.inv[p] = r /\ r.state = w.inv[p].state /\ r.cause = w.inv[p].cause
        /\ r.invite_tsx = L + 1
        /\ \A q \in Side \ {p} : n.inv[q] = w.inv[q]
    BY <1>1, <1>3, InvitingIs
  <1>5. 1..(L + 1) = 1..L \cup {L + 1} /\ L <= L + 1 /\ L + 1 \notin 1..L
    BY <1>1
  <1> HIDE DEF n, t, L, r
  <1>6. /\ n.inv[p].invite_tsx = L + 1
        /\ \A q \in Side : /\ n.inv[q].state = w.inv[q].state
                           /\ n.inv[q].cause = w.inv[q].cause
        /\ \A q \in Side \ {p} : n.inv[q].invite_tsx = w.inv[q].invite_tsx
    BY <1>4
  <1>7. Met(n)
    BY <1>6 DEF GoodBut, Met
  <1>8. HoldsBut(n, p, 0)
    <2>1. \A q \in Side : w.inv[q].invite_tsx # L + 1
      BY <1>1, Facts DEF L
    <2>2. Held(p, t)
      BY <1>2 DEF Held
    <2>3. ASSUME NEW q \in Side, NEW k \in 1..(L + 1), n.inv[q].invite_tsx = k
          PROVE  n.tsx[k].method = "INVITE" /\ (~(q = p /\ k = 0) => Held(q, n.tsx[k]))
      <3>1. CASE q = p
        BY <2>2, <2>3, <3>1, <1>2, <1>4, <1>6
      <3>2. CASE q # p
        <4>1. w.inv[q].invite_tsx = k /\ k \in 1..L
          BY <2>1, <2>3, <3>2, <1>5, <1>6
        <4>2. w.tsx[k].method = "INVITE" /\ Held(q, w.tsx[k])
          BY <4>1, <3>2 DEF GoodBut, HoldsBut, L
        <4> QED BY <4>1, <4>2, <1>4
      <3> QED BY <3>1, <3>2
    <2> QED BY <2>3, <1>4 DEF HoldsBut
  <1>9. NoneEscapes(n)
    <2>1. \A q \in Side : q # p => ~Pending(q, t)
      BY <1>2 DEF Pending
    <2>2. ASSUME NEW q \in Side, NEW k \in 1..(L + 1),
                 n.inv[q].state # DISCONNECTED, Pending(q, n.tsx[k])
          PROVE  n.inv[q].invite_tsx = k
      <3>1. CASE k = L + 1
        BY <2>1, <2>2, <3>1, <1>4, <1>6
      <3>2. CASE k # L + 1
        <4>1. k \in 1..L
          BY <3>2, <1>5
        <4>2. w.inv[q].invite_tsx = k
          BY <4>1, <2>2, <1>4, <1>6 DEF GoodBut, NoneEscapes, L
        <4>3. q # p
          BY <4>1, <4>2, <1>1
        <4> QED BY <4>2, <4>3, <1>6
      <3> QED BY <3>1, <3>2
    <2> QED BY <2>2, <1>4 DEF NoneEscapes
  <1>10. OneBusy(n)
    BY <1>2, <1>4, <1>5, <1>6, ZenonT(40) DEF GoodBut, OneBusy, L
  <1>11. AckedConfirms(n)
    <2>1. \A k \in 1..L : w.tsx[k].by \in Side
      BY <1>1, Facts DEF L
    <2>2. ASSUME NEW k \in 1..(L + 1), n.tsx[k].acked
          PROVE  n.inv[n.tsx[k].by].state >= CONFIRMED
      <3>1. k \in 1..L
        BY <2>2, <1>2, <1>4, <1>5
      <3>2. w.inv[w.tsx[k].by].state >= CONFIRMED
        BY <3>1, <2>2, <1>4 DEF GoodBut, AckedConfirms, L
      <3> QED BY <2>1, <3>1, <3>2, <1>4, <1>6
    <2> QED BY <2>2, <1>4 DEF AckedConfirms
  <1>12. CallerFirst(n)
    <2> SUFFICES ASSUME ~MayTimeout PROVE CallerFirst(n)
      BY DEF CallerFirst
    <2>1. /\ w.inv["B"].state = CONFIRMED => w.inv["A"].state >= CONFIRMED
          /\ \A k \in 1..L : w.tsx[k].by = "B" => w.inv["A"].state >= CONFIRMED
          /\ \A q \in Side : w.inv[q].cause # 408
          /\ \A k \in 1..L : w.tsx[k].scode # 408 /\ w.tsx[k].ccode # 408
      BY DEF GoodBut, CallerFirst, L
    <2>2. t.by = "B" => w.inv["A"].state >= CONFIRMED
      BY <2>1, <1>2
    <2>3. \A k \in 1..(L + 1) : n.tsx[k].by = "B" => w.inv["A"].state >= CONFIRMED
      BY <2>1, <2>2, <1>4, <1>5
    <2>4. \A k \in 1..(L + 1) : n.tsx[k].scode # 408 /\ n.tsx[k].ccode # 408
      <3>1. 0 # 408
        OBVIOUS
      <3> QED BY <2>1, <3>1, <1>2, <1>4, <1>5
    <2>5. "A" \in Side /\ "B" \in Side
      BY DEF Side
    <2>6. n.inv["A"].state = w.inv["A"].state /\ n.inv["B"].state = w.inv["B"].state
      BY <2>5, <1>6
    <2>7. \A q \in Side : n.inv[q].cause # 408
      BY <2>1, <1>6
    <2> QED BY <2>1, <2>3, <2>4, <2>6, <2>7, <1>4 DEF CallerFirst
  <1>13. Grows(w, n)
    <2>1. \A q \in Side : w.inv[q].state \in 0..6
      BY <1>1, Facts
    <2>2. \A q \in Side : w.inv[q].state <= n.inv[q].state
      BY <2>1, <1>6
    <2> QED BY <2>2, <1>4, <1>5 DEF Grows, L
  <1> QED BY <1>4, <1>7, <1>8, <1>9, <1>10, <1>11, <1>12, <1>13
          DEF Step, GoodBut, n

\* The application sends a re-INVITE.
LEMMA ReinviteStep ==
    ASSUME Good(World), NEW p, p \in Side, Reinvite(p)
    PROVE  Good(World') /\ Grows(World, World')
  <1> DEFINE w == World
             n == Inviting(w, p)
  <1>1. Become(n) /\ w.inv[p].state = CONFIRMED /\ w.inv[p].invite_tsx = 0
    BY WorldIs DEF Reinvite, Inviting
  <1>2. Good(w) /\ w = World
    OBVIOUS
  <1> HIDE DEF w
  <1>3. GoodBut(w, p, 0)
    BY <1>2, Exempts
  <1>4. Step(w, n, p, 0)
    BY <1>1, <1>3, InvitingStep
  <1> HIDE DEF n
  <1>5. Good(n) /\ Grows(w, n)
    BY <1>4, NoExempt DEF Step
  <1> QED BY <1>1, <1>2, <1>5, BecameGood

------------------------------------------------------------------------------
(* Before the INVITE arrived.                                              *)
------------------------------------------------------------------------------
\* The caller while nobody has answered.
LEMMA ApartFacts ==
    ASSUME NEW w, Apart(w)
    PROVE  LET r == w.inv["A"]
           IN /\ r \in Session /\ r.invite_tsx \in 0..1 /\ r.remote_cseq \in 0..1
              /\ r.cause \in Codes /\ r.state \in 0..6
              /\ r.state = DISCONNECTED => r.cause # 0
              /\ MayTimeout \/ r.cause # 408
              /\ w.tsx[1] \in Txn /\ "A" \in Side
  <1>1. Shape(w) /\ Len(w.tsx) = 1 /\ "A" \in Side /\ 1 \in 1..Len(w.tsx)
    BY DEF Apart, Side
  <1>2. /\ w.inv["A"] \in Session /\ w.inv["A"].invite_tsx \in 0..1
        /\ w.inv["A"].cause \in Codes /\ w.inv["A"].state \in 0..6
        /\ w.tsx[1] \in Txn
    BY <1>1, Facts
  <1>3. /\ w.inv["A"].remote_cseq \in 0..1
        /\ w.inv["A"].state = DISCONNECTED => w.inv["A"].cause # 0
    BY <1>1 DEF Shape
  <1> QED BY <1>1, <1>2, <1>3 DEF Apart

\* The caller's session may change ...
LEMMA ApartSession ==
    ASSUME NEW w, NEW r, Apart(w), r \in Session, r.invite_tsx \in 0..1,
           r.remote_cseq \in 0..1, r.state = DISCONNECTED => r.cause # 0,
           MayTimeout \/ r.cause # 408
    PROVE  LET n == WithSession(w, "A", r)
           IN Apart(n) /\ n.inv["A"] = r /\ n.tsx = w.tsx
  <1> DEFINE n == WithSession(w, "A", r)
  <1>1. /\ Shape(w) /\ "A" \in Side /\ "B" \in Side \ {"A"}
        /\ {r.invite_tsx, r.remote_cseq} \subseteq 0..Len(w.tsx)
    BY DEF Apart, Side
  <1>2. /\ Shape(n) /\ n.tsx = w.tsx /\ n.inv["A"] = r
        /\ \A q \in Side \ {"A"} : n.inv[q] = w.inv[q]
    BY <1>1, SessionTyped
  <1> HIDE DEF n
  <1>3. n.inv["B"] = w.inv["B"]
    BY <1>1, <1>2
  <1> QED BY <1>2, <1>3 DEF Apart, n

\* ... and so may its INVITE.
LEMMA ApartTxn ==
    ASSUME NEW w, NEW t, Apart(w), t \in Txn, t.method = "INVITE", t.by = "A",
           t.of = w.tsx[1].of, t.s = "NONE", ~t.acked, t.scode = 0
    PROVE  LET n == WithTxn(w, 1, t)
           IN Apart(n) /\ n.inv = w.inv /\ n.tsx[1] = t
  <1> DEFINE n == WithTxn(w, 1, t)
  <1>1. Shape(w) /\ 1 \in 1..Len(w.tsx)
    BY DEF Apart
  <1>2. Shape(n) /\ n.inv = w.inv /\ Len(n.tsx) = Len(w.tsx) /\ n.tsx[1] = t
    BY <1>1, TxnTyped
  <1> HIDE DEF n
  <1> QED BY <1>2 DEF Apart, n

\* Sessions with one field changed.
Caused(r, code) == [r EXCEPT !["cause"] = code]
Flagged(r, f, v) == [r EXCEPT ![f] = v]

\* The fields of a session with another cause, ...
LEMMA CausedFields ==
    ASSUME NEW r, NEW code, r \in Session, code \in Codes
    PROVE  LET n == Caused(r, code)
           IN /\ n \in Session /\ n.state = r.state /\ n.cause = code
              /\ n.remote_cseq = r.remote_cseq /\ n.invite_tsx = r.invite_tsx
  BY DEF Caused, Session

\* ... another flag ...
LEMMA FlaggedFields ==
    ASSUME NEW r, NEW f, NEW v, r \in Session, v \in BOOLEAN,
           f \in {"pending_cancel", "hanging_up"}
    PROVE  LET n == Flagged(r, f, v)
           IN /\ n \in Session /\ n.state = r.state /\ n.cause = r.cause
              /\ n.remote_cseq = r.remote_cseq /\ n.invite_tsx = r.invite_tsx
  BY DEF Flagged, Session

\* ... or another state.
LEMMA InStateFields ==
    ASSUME NEW r, NEW state, r \in Session, state \in 0..6
    PROVE  LET n == InState(r, state)
           IN /\ n \in Session /\ n.state = state /\ n.cause = r.cause
              /\ n.remote_cseq = r.remote_cseq /\ n.invite_tsx = r.invite_tsx
  BY DEF InState, Session, NULL, DISCONNECTED

\* The caller's session gets a cause.
LEMMA ApartCause ==
    ASSUME NEW w, NEW code, Apart(w), code \in Codes \ {0}, MayTimeout \/ code # 408
    PROVE  LET n == SetCause(w, "A", code)
           IN /\ Apart(n) /\ n.tsx = w.tsx
              /\ n.inv["A"].state = w.inv["A"].state
              /\ n.inv["A"].invite_tsx = w.inv["A"].invite_tsx
              /\ n.inv["A"].cause # 0
  <1> DEFINE o == w.inv["A"]
             r == Caused(o, code)
             n == SetCause(w, "A", code)
  <1>1. /\ o \in Session /\ o.invite_tsx \in 0..1 /\ o.remote_cseq \in 0..1
        /\ o.cause \in Codes
    BY ApartFacts
  <1>2. CASE code > o.cause \/ o.pending_bye
    <2>1. n = WithSession(w, "A", r)
      BY <1>2, SetIs DEF SetCause, Caused, Apart
    <2> HIDE DEF o, n
    <2>2. /\ r \in Session /\ r.state = o.state /\ r.cause = code
          /\ r.remote_cseq = o.remote_cseq /\ r.invite_tsx = o.invite_tsx
      BY <1>1, CausedFields
    <2> HIDE DEF r
    <2>3. Apart(n) /\ n.inv["A"] = r /\ n.tsx = w.tsx
      BY <1>1, <2>1, <2>2, ApartSession
    <2> QED BY <2>2, <2>3 DEF n, o
  <1>3. CASE ~(code > o.cause \/ o.pending_bye)
    <2>1. n = w
      BY <1>3 DEF SetCause
    <2>2. o.cause # 0
      <3>1. o.cause \in Nat /\ code \in Nat /\ code # 0
        BY <1>1, CodesNat
      <3> QED BY <3>1, <1>3
    <2> HIDE DEF n
    <2> QED BY <2>1, <2>2 DEF n
  <1> QED BY <1>2, <1>3

\* The caller's session gets a flag, ...
LEMMA ApartFlag ==
    ASSUME NEW w, NEW f, NEW v, Apart(w), v \in BOOLEAN,
           f \in {"pending_cancel", "hanging_up"}
    PROVE  LET n == Set(w, "A", f, v)
           IN /\ Apart(n) /\ n.tsx = w.tsx
              /\ n.inv["A"].state = w.inv["A"].state
              /\ n.inv["A"].invite_tsx = w.inv["A"].invite_tsx
  <1> DEFINE o == w.inv["A"]
             r == Flagged(o, f, v)
             n == Set(w, "A", f, v)
  <1>1. /\ o \in Session /\ o.invite_tsx \in 0..1 /\ o.remote_cseq \in 0..1
        /\ o.state = DISCONNECTED => o.cause # 0
        /\ MayTimeout \/ o.cause # 408
    BY ApartFacts
  <1>2. n = WithSession(w, "A", r)
    BY SetIs DEF Apart, Flagged
  <1> HIDE DEF o, n
  <1>3. /\ r \in Session /\ r.state = o.state /\ r.cause = o.cause
        /\ r.remote_cseq = o.remote_cseq /\ r.invite_tsx = o.invite_tsx
    BY <1>1, FlaggedFields
  <1> HIDE DEF r
  <1>4. Apart(n) /\ n.inv["A"] = r /\ n.tsx = w.tsx
    BY <1>1, <1>2, <1>3, ApartSession
  <1> QED BY <1>3, <1>4 DEF n, o

\* ... of which there are two.
LEMMA ApartFlags ==
    ASSUME NEW w, Apart(w)
    PROVE  /\ LET n == HangingUp(w, "A")
              IN /\ Apart(n) /\ n.tsx = w.tsx
                 /\ n.inv["A"].state = w.inv["A"].state
                 /\ n.inv["A"].invite_tsx = w.inv["A"].invite_tsx
           /\ LET n == PendCancel(w, "A")
              IN /\ Apart(n) /\ n.tsx = w.tsx
                 /\ n.inv["A"].state = w.inv["A"].state
                 /\ n.inv["A"].invite_tsx = w.inv["A"].invite_tsx
  BY ApartFlag, ZenonT(30) DEF HangingUp, PendCancel

\* What is to be shown for growth while the sides are apart.
LEMMA ApartGrows ==
    ASSUME NEW w, NEW n, Apart(w), Apart(n),
           w.inv["A"].state <= n.inv["A"].state,
           OpenAt(n.tsx[1]) => OpenAt(w.tsx[1])
    PROVE  Grows(w, n)
  <1>1. \A q \in Side : q = "A" \/ q = "B"
    BY DEF Side
  <1>2. w.inv["B"].state <= n.inv["B"].state
    BY DEF Apart, NoSession, NULL
  <1>3. Len(w.tsx) = 1 /\ Len(n.tsx) = 1
    BY DEF Apart
  <1>4. \A k \in 1..1 : k = 1
    OBVIOUS
  <1> QED BY <1>1, <1>2, <1>3, <1>4 DEF Grows, Apart

\* The INVITE times out before it arrived.
LEMMA NobodyAnswers ==
    ASSUME NEW w, Alone(w), w.tsx[1].c = "CALLING", MayTimeout
    PROVE  LET n == NoResponse(w, "A", 1)
           IN Alone(n) /\ Grows(w, n)
  <1> DEFINE t == Answered(w.tsx[1], "TERMINATED", 408)
             m == PutTxn(w, 1, t)
             c == SetCause(m, "A", 408)
             r == InState(c.inv["A"], DISCONNECTED)
             d == WithSession(c, "A", r)
             s == Owning(r, 0)
             n == NoResponse(w, "A", 1)
  <1>1. Apart(w) /\ w.inv["A"].state = CALLING /\ w.inv["A"].invite_tsx = 1
    BY DEF Alone
  <1>2. 408 \in Codes \ {0}
    BY DEF Codes
  <1>3. /\ t \in Txn /\ t.method = w.tsx[1].method /\ t.by = w.tsx[1].by
        /\ t.of = w.tsx[1].of /\ t.s = w.tsx[1].s /\ t.scode = w.tsx[1].scode
        /\ t.acked = w.tsx[1].acked /\ t.c = "TERMINATED" /\ t.ccode = 408
    BY <1>1, <1>2, ApartFacts, AnsweredFields
  <1>4. m = WithTxn(w, 1, t)
    BY <1>1, TxnIs DEF Apart
  <1>5. n = Forget(OnClient(m, "A", 1), "A", 1)
    BY DEF NoResponse, PutTxn, Answered
  <1> HIDE DEF t, m
  <1>6. Apart(m) /\ m.inv = w.inv /\ m.tsx[1] = t
    BY <1>1, <1>3, <1>4, ApartTxn DEF Apart
  <1>7. OnClient(m, "A", 1) = Disconnect(m, "A", 408)
    <2>1. OnClient(m, "A", 1) = OnFirstInvite(m, "A", 1)
      BY <1>1, <1>6
         DEF OnClient, St, CALLING, EARLY, CONNECTING, CONFIRMED, DISCONNECTED
    <2>2. OnFirstInvite(m, "A", 1) = Disconnect(m, "A", 408)
      <3>1. m.tsx[1].ccode = 408
        BY <1>3, <1>6
      <3>2. OnFirstInvite(m, "A", 1)
              = IF m.tsx[1].ccode >= 300 THEN Disconnect(m, "A", m.tsx[1].ccode)
                ELSE OnFirstInvite(m, "A", 1)
        BY DEF OnFirstInvite
      <3>3. 408 >= 300
        OBVIOUS
      <3> QED BY <3>1, <3>2, <3>3
    <2> QED BY <2>1, <2>2
  <1>8. /\ Apart(c) /\ c.tsx = m.tsx /\ c.inv["A"].state = CALLING
        /\ c.inv["A"].invite_tsx = 1 /\ c.inv["A"].cause # 0
    BY <1>1, <1>2, <1>6, ApartCause
  <1> HIDE DEF c
  <1>9. /\ r \in Session /\ r.state = DISCONNECTED /\ r.cause # 0
        /\ r.cause = c.inv["A"].cause
        /\ r.invite_tsx = 1 /\ r.remote_cseq \in 0..1
    <2>1. /\ c.inv["A"] \in Session /\ c.inv["A"].remote_cseq \in 0..1
          /\ DISCONNECTED \in 0..6
      BY <1>8, ApartFacts DEF DISCONNECTED
    <2> QED BY <2>1, <1>8, InStateFields
  <1>10. Disconnect(m, "A", 408) = d
    <2>1. Disconnect(m, "A", 408) = SetState(c, "A", DISCONNECTED)
      BY DEF Disconnect, c
    <2>2. SetState(c, "A", DISCONNECTED) = Set(c, "A", "state", DISCONNECTED)
      BY DEF SetState, DISCONNECTED, CONFIRMED
    <2>3. Set(c, "A", "state", DISCONNECTED) = d
      BY <1>8, SetIs DEF Apart, InState
    <2> QED BY <2>1, <2>2, <2>3
  <1> HIDE DEF r
  <1>11. Apart(d) /\ d.inv["A"] = r /\ d.tsx = c.tsx
    BY <1>8, <1>9, ApartSession
  <1>12. n = WithSession(d, "A", s)
    <2> HIDE DEF d, n
    <2>1. n = Forget(d, "A", 1)
      BY <1>5, <1>7, <1>10
    <2>2. Forget(d, "A", 1) = Set(d, "A", "invite_tsx", 0)
      BY <1>9, <1>11 DEF Forget
    <2> QED BY <2>1, <2>2, <1>11, SetIs DEF Apart, Owning
  <1> HIDE DEF d
  <1>13. /\ s \in Session /\ s.state = DISCONNECTED /\ s.cause # 0
         /\ s.invite_tsx = 0 /\ s.remote_cseq \in 0..1
    BY <1>9, OwningFields
  <1> HIDE DEF s, n
  <1>14. Apart(n) /\ n.inv["A"] = s /\ n.tsx = d.tsx
    BY <1>11, <1>12, <1>13, ApartSession
  <1>15. n.tsx[1] = t
    BY <1>6, <1>8, <1>11, <1>14
  <1>16. Alone(n)
    BY <1>3, <1>13, <1>14, <1>15 DEF Alone
  <1>17. Grows(w, n)
    <2>1. w.inv["A"].state <= n.inv["A"].state
      BY <1>1, <1>13, <1>14 DEF CALLING, DISCONNECTED
    <2>2. ~OpenAt(n.tsx[1])
      BY <1>3, <1>15 DEF OpenAt
    <2> QED BY <2>1, <2>2, <1>1, <1>14, ApartGrows
  <1> QED BY <1>16, <1>17 DEF n

\* The caller hangs up before the INVITE arrived: the CANCEL has to wait.
LEMMA CallerHangsUp ==
    ASSUME NEW w, Alone(w), w.inv["A"].state = CALLING
    PROVE  LET n == EndSession(HangingUp(w, "A"), "A", 487)
           IN Alone(n) /\ Grows(w, n)
  <1> DEFINE m == HangingUp(w, "A")
             c == SetCause(m, "A", 487)
             n == EndSession(m, "A", 487)
  <1>1. /\ Apart(w) /\ w.inv["A"].invite_tsx = 1
        /\ w.tsx[1].c = "CALLING" /\ w.tsx[1].ccode = 0
    BY DEF Alone, CALLING, DISCONNECTED
  <1>2. /\ Apart(m) /\ m.tsx = w.tsx /\ m.inv["A"].state = CALLING
        /\ m.inv["A"].invite_tsx = 1
    BY <1>1, ApartFlags
  <1> HIDE DEF m
  <1>3. /\ Apart(c) /\ c.tsx = w.tsx /\ c.inv["A"].state = CALLING
        /\ c.inv["A"].invite_tsx = 1
    <2>1. 487 \in Codes \ {0} /\ 487 # 408
      BY DEF Codes
    <2> QED BY <2>1, <1>2, ApartCause
  <1>4. n = PendCancel(c, "A")
    <2>1. m.tsx[m.inv["A"].invite_tsx].ccode < 100
      BY <1>1, <1>2
    <2> QED BY <2>1, <1>2
            DEF EndSession, PendCancel, St, CALLING, CONNECTING, CONFIRMED, DISCONNECTED
  <1> HIDE DEF c, n
  <1>5. /\ Apart(n) /\ n.tsx = w.tsx /\ n.inv["A"].state = CALLING
        /\ n.inv["A"].invite_tsx = 1
    BY <1>3, <1>4, ApartFlags
  <1>6. Alone(n)
    BY <1>1, <1>5 DEF Alone
  <1>7. Grows(w, n)
    <2>1. w.inv["A"].state <= n.inv["A"].state
      BY <1>5 DEF CALLING
    <2>2. OpenAt(w.tsx[1]) /\ OpenAt(n.tsx[1])
      BY <1>1, <1>5 DEF OpenAt
    <2> QED BY <2>1, <2>2, <1>1, <1>5, ApartGrows
  <1> QED BY <1>6, <1>7 DEF n, m

\* No session is typed like one.
LEMMA NoSessionFields ==
    /\ NoSession \in Session /\ NoSession.state = NULL /\ NoSession.cause = 0
    /\ NoSession.invite_tsx = 0 /\ NoSession.remote_cseq = 0
  BY DEF NoSession, Session, Codes, NULL, DISCONNECTED

\* B's session after the first INVITE, number i.
Invited(i) == [NoSession EXCEPT !.state = INCOMING, !.invite_tsx = i, !.remote_cseq = i]
\* The called side gets its session.
Meeting(w, p, i) == [w EXCEPT !.inv[p] = Invited(i)]

\* A session that begins, with INVITE i.
Called(r, s, i) == [r EXCEPT !.state = s, !.invite_tsx = i, !.remote_cseq = i]
Calling(r, s, i) == [r EXCEPT !.state = s, !.invite_tsx = i]

\* The fields of such sessions.
LEMMA SessionWith ==
    ASSUME NEW r, NEW s, NEW i, r \in Session, s \in 0..6, i \in Nat
    PROVE  /\ LET n == Called(r, s, i)
              IN /\ n \in Session /\ n.state = s /\ n.cause = r.cause
                 /\ n.invite_tsx = i /\ n.remote_cseq = i
           /\ LET n == Calling(r, s, i)
              IN /\ n \in Session /\ n.state = s /\ n.cause = r.cause
                 /\ n.invite_tsx = i /\ n.remote_cseq = r.remote_cseq
  BY DEF Called, Calling, Session, NULL, DISCONNECTED

\* The fields of the called side's first session.
LEMMA InvitedFields ==
    ASSUME NEW i, i \in Nat
    PROVE  LET r == Invited(i)
           IN /\ r \in Session /\ r.state = INCOMING /\ r.cause = 0
              /\ r.invite_tsx = i /\ r.remote_cseq = i
  <1>1. INCOMING \in 0..6
    BY DEF INCOMING
  <1>2. Invited(i) = Called(NoSession, INCOMING, i)
    BY DEF Invited, Called
  <1> QED BY <1>1, <1>2, NoSessionFields, SessionWith

\* The INVITE arrives.
LEMMA TheyMeet ==
    ASSUME NEW w, Alone(w), w.tsx[1].c = "CALLING"
    PROVE  LET n == NewCall(w, "B", 1)
           IN Good(n) /\ Grows(w, n)
  <1> DEFINE o == w.tsx[1]
             r == Invited(1)
             m == Meeting(w, "B", 1)
             t == Replied(o, 100, "PROCEEDING")
             n == NewCall(w, "B", 1)
  <1>1. /\ Shape(w) /\ Len(w.tsx) = 1 /\ w.inv["B"] = NoSession
        /\ w.inv["A"].state = CALLING /\ w.inv["A"].invite_tsx = 1
        /\ MayTimeout \/ w.inv["A"].cause # 408
        /\ o.method = "INVITE" /\ o.by = "A" /\ ~o.acked /\ o.ccode = 0
        /\ "A" \in Side /\ "B" \in Side /\ "A" \in Side \ {"B"}
        /\ 1 \in 1..Len(w.tsx)
    BY DEF Alone, Apart, Side
  <1>2. r \in Session /\ r.state = INCOMING /\ r.cause = 0
        /\ r.invite_tsx = 1 /\ r.remote_cseq = 1
    BY InvitedFields
  <1>3. m = WithSession(w, "B", r)
    <2>1. w \in [inv : [Side -> Session], tsx : Seq(Txn)]
      BY <1>1, ShapeType
    <2> HIDE DEF r
    <2>2. [w EXCEPT !.inv["B"] = r] = WithSession(w, "B", r)
      BY <2>1 DEF WithSession
    <2> QED BY <2>2 DEF Meeting, r
  <1>4. /\ Shape(m) /\ m.tsx = w.tsx /\ m.inv["B"] = r /\ m.inv["A"] = w.inv["A"]
    <2>1. {r.invite_tsx, r.remote_cseq} \subseteq 0..Len(w.tsx)
      BY <1>1, <1>2
    <2>2. r.state # DISCONNECTED
      BY <1>2 DEF INCOMING, DISCONNECTED
    <2> HIDE DEF r, m
    <2>3. /\ Shape(m) /\ m.tsx = w.tsx /\ m.inv["B"] = r
          /\ \A q \in Side \ {"B"} : m.inv[q] = w.inv[q]
      BY <1>1, <1>2, <1>3, <2>1, <2>2, SessionTyped
    <2> QED BY <2>3, <1>1
  <1>5. /\ t \in Txn /\ t.method = "INVITE" /\ t.by = "A" /\ t.of = o.of
        /\ t.c = "CALLING" /\ t.ccode = 0 /\ ~t.acked
        /\ t.s = "PROCEEDING" /\ t.scode = 100
    <2>1. o \in Txn /\ 100 \in Codes
      BY <1>1, Facts DEF Codes
    <2> HIDE DEF o
    <2> QED BY <2>1, <1>1, ReplyFields DEF o
  <1>6. n = WithTxn(m, 1, t)
    <2>1. n = Respond(m, "B", 1, 100)
      BY DEF NewCall, Meeting, Invited
    <2> HIDE DEF m, r
    <2>2. Respond(m, "B", 1, 100) = PutTxn(m, 1, Replied(m.tsx[1], 100, "PROCEEDING"))
      BY <1>2, <1>4 DEF Respond, St, PutTxn, Replied
    <2> HIDE DEF n, t
    <2> QED BY <2>1, <2>2, <1>4, TxnIs DEF t
  <1> HIDE DEF m, t, r
  <1>7. /\ Shape(n) /\ n.inv = m.inv /\ Len(n.tsx) = 1 /\ n.tsx[1] = t
    <2>1. t.of = m.tsx[1].of /\ 1 \in 1..Len(m.tsx) /\ Len(m.tsx) = 1
      BY <1>1, <1>4, <1>5
    <2> HIDE DEF n, o
    <2> QED BY <2>1, <1>4, <1>5, <1>6, TxnTyped
  <1> HIDE DEF n
  <1>8. /\ \A q \in Side : q = "A" \/ q = "B"
        /\ n.inv["A"] = w.inv["A"] /\ n.inv["B"] = r
        /\ \A k \in 1..Len(n.tsx) : k = 1
    BY <1>4, <1>7 DEF Side
  <1>9. Met(n)
    BY <1>1, <1>2, <1>8 DEF Met, CALLING, INCOMING, NULL
  <1>10. HoldsBut(n, "A", 0)
    <2>1. Held("A", t) /\ Held("B", t) /\ t.method = "INVITE"
      BY <1>5 DEF Held
    <2> QED BY <2>1, <1>7, <1>8 DEF HoldsBut
  <1>11. NoneEscapes(n)
    <2>1. \A q \in Side : n.inv[q].invite_tsx = 1
      BY <1>1, <1>2, <1>8
    <2> QED BY <2>1, <1>8 DEF NoneEscapes
  <1>12. OneBusy(n)
    BY <1>8 DEF OneBusy
  <1>13. AckedConfirms(n)
    BY <1>5, <1>7, <1>8 DEF AckedConfirms
  <1>14. CallerFirst(n)
    <2>1. n.inv["B"].state # CONFIRMED
      BY <1>2, <1>8 DEF INCOMING, CONFIRMED
    <2>2. \A k \in 1..Len(n.tsx) :
             n.tsx[k].by = "A" /\ n.tsx[k].scode = 100 /\ n.tsx[k].ccode = 0
      BY <1>5, <1>7, <1>8
    <2>3. MayTimeout \/ \A q \in Side : n.inv[q].cause # 408
      BY <1>1, <1>2, <1>8
    <2> QED BY <2>1, <2>2, <2>3 DEF CallerFirst
  <1>15. Good(n)
    BY <1>7, <1>9, <1>10, <1>11, <1>12, <1>13, <1>14 DEF Good, GoodBut
  <1>16. Grows(w, n)
    <2>1. \A q \in Side : w.inv[q].state <= n.inv[q].state
      BY <1>1, <1>2, <1>8 DEF NoSession, NULL, INCOMING, CALLING
    <2>2. OpenAt(w.tsx[1])
      BY DEF OpenAt
    <2> QED BY <2>1, <2>2, <1>1, <1>5, <1>7, <1>8 DEF Grows
  <1> QED BY <1>15, <1>16 DEF n

\* The variables before the INVITE arrived.
LEMMA AloneFacts ==
    ASSUME NEW w, w = World, Alone(w)
    PROVE  /\ inv = w.inv /\ tsx = w.tsx /\ Shape(w)
           /\ inv["B"].state = NULL /\ inv["A"].state \in {CALLING, DISCONNECTED}
           /\ tsx[1].method = "INVITE" /\ tsx[1].by = "A" /\ tsx[1].s = "NONE"
           /\ ~tsx[1].acked /\ tsx[1].c \in {"CALLING", "TERMINATED"}
           /\ Txns = {1} /\ Server(1) = "B"
  <1>1. inv = w.inv /\ tsx = w.tsx
    BY WorldIs
  <1>2. Shape(w) /\ Len(w.tsx) = 1
    BY DEF Alone, Apart
  <1>3. DOMAIN tsx = 1..Len(tsx) /\ 1..1 = {1}
    BY <1>1, <1>2, ShapeType
  <1>4. Txns = {1}
    BY <1>1, <1>2, <1>3 DEF Txns
  <1> QED BY <1>1, <1>2, <1>4 DEF Alone, Apart, NoSession, Server, Peer

\* Before the INVITE arrived: it arrives, it times out, or the caller hangs up;
\* nothing else can happen.
LEMMA AloneStep ==
    ASSUME Alone(World), Next
    PROVE  (Alone(World') \/ Good(World')) /\ Grows(World, World')
  <1> DEFINE w == World
  <1>1. Alone(w) /\ w = World
    OBVIOUS
  <1> HIDE DEF w
  <1>2. /\ inv = w.inv /\ tsx = w.tsx /\ Shape(w)
        /\ inv["B"].state = NULL /\ inv["A"].state \in {CALLING, DISCONNECTED}
        /\ tsx[1].method = "INVITE" /\ tsx[1].by = "A" /\ tsx[1].s = "NONE"
        /\ ~tsx[1].acked /\ tsx[1].c \in {"CALLING", "TERMINATED"}
        /\ Txns = {1} /\ Server(1) = "B"
    BY <1>1, AloneFacts
  <1>3. CASE DeliverRequest(1)
    <2> DEFINE n == NewCall(w, "B", 1)
    <2>1. w.tsx[1].c = "CALLING"
      BY <1>2, <1>3 DEF DeliverRequest
    <2>2. RxRequest(w, "B", 1) = {n}
      BY <1>2 DEF RxRequest, St
    <2>3. Become(n)
      BY <1>1, <1>2, <1>3, <2>2 DEF DeliverRequest
    <2>4. Good(n) /\ Grows(w, n)
      BY <1>1, <2>1, TheyMeet
    <2> HIDE DEF n
    <2> QED BY <1>1, <2>3, <2>4, BecameGood
  <1>4. CASE TimeoutClient(1)
    <2> DEFINE n == NoResponse(w, "A", 1)
    <2>1. Become(n) /\ MayTimeout /\ w.tsx[1].c = "CALLING"
      BY <1>1, <1>2, <1>4 DEF TimeoutClient
    <2>2. Alone(n) /\ Grows(w, n)
      BY <1>1, <2>1, NobodyAnswers
    <2> HIDE DEF n
    <2>3. World' = n
      BY <2>1, <2>2, Became DEF Alone, Apart
    <2> QED BY <1>1, <2>2, <2>3
  <1>5. CASE Hangup("A")
    <2> DEFINE n == EndSession(HangingUp(w, "A"), "A", 487)
    <2>1. w.inv["A"].state = CALLING
      BY <1>2, <1>5 DEF Hangup
    <2>2. Become(n)
      <3> DEFINE code == IF w.inv["A"].state = CONFIRMED THEN 200
                         ELSE IF "A" = "B" THEN 603 ELSE 487
      <3>1. Become(EndSession(HangingUp(w, "A"), "A", code))
        BY <1>1, <1>2, <1>5 DEF Hangup, HangingUp
      <3>2. code = 487
        BY <2>1 DEF CALLING, CONFIRMED
      <3> QED BY <3>1, <3>2
    <2>3. Alone(n) /\ Grows(w, n)
      BY <1>1, <2>1, CallerHangsUp
    <2> HIDE DEF n
    <2>4. World' = n
      BY <2>2, <2>3, Became DEF Alone, Apart
    <2> QED BY <1>1, <2>3, <2>4
  <1>6. ~Answer
    BY <1>2 DEF Answer, Side, NULL, CALLING, INCOMING, EARLY, CONFIRMED, DISCONNECTED
  <1>7. \A p \in Side : ~Reinvite(p) /\ ~CancelReinvite(p)
    BY <1>2 DEF Reinvite, CancelReinvite, Side, NULL, CALLING, CONFIRMED, DISCONNECTED
  <1>8. ~Hangup("B")
    BY <1>2 DEF Hangup
  <1>9. ~DeliverResponse(1) /\ ~DeliverStray(1) /\ ~DeliverAck(1) /\ ~DeliverFailureAck(1)
    BY <1>2 DEF DeliverResponse, DeliverStray, DeliverAck, DeliverFailureAck
  <1>10. ~ExpireServer(1) /\ ~ExpireClient(1) /\ ~TimeoutAck(1)
    BY <1>2 DEF ExpireServer, ExpireClient, TimeoutAck
  <1> QED BY <1>2, <1>3, <1>4, <1>5, <1>6, <1>7, <1>8, <1>9, <1>10
          DEF Next, Deliver, Side

------------------------------------------------------------------------------
(* The invariant.                                                          *)
------------------------------------------------------------------------------
\* Once both sides have met, every action keeps everything good.
LEMMA GoodStep ==
    ASSUME Good(World), Next
    PROVE  Good(World') /\ Grows(World, World')
  <1>1. \A i \in Txns : DeliverRequest(i) => Good(World') /\ Grows(World, World')
    BY DeliverRequestStep
  <1>2. \A i \in Txns : DeliverResponse(i) => Good(World') /\ Grows(World, World')
    BY DeliverResponseStep
  <1>3. \A i \in Txns : DeliverStray(i) => Good(World') /\ Grows(World, World')
    BY DeliverStrayStep
  <1>4. \A i \in Txns : DeliverAck(i) => Good(World') /\ Grows(World, World')
    BY DeliverAckStep
  <1>5. \A i \in Txns : DeliverFailureAck(i) => Good(World') /\ Grows(World, World')
    BY DeliverFailureAckStep
  <1>6. \A i \in Txns : ExpireServer(i) => Good(World') /\ Grows(World, World')
    BY ExpireServerStep
  <1>7. \A i \in Txns : ExpireClient(i) => Good(World') /\ Grows(World, World')
    BY ExpireClientStep
  <1>8. \A i \in Txns : TimeoutClient(i) => Good(World') /\ Grows(World, World')
    BY TimeoutClientStep
  <1>9. \A i \in Txns : TimeoutAck(i) => Good(World') /\ Grows(World, World')
    BY TimeoutAckStep
  <1>10. \A p \in Side : Hangup(p) => Good(World') /\ Grows(World, World')
    BY HangupStep
  <1>11. \A p \in Side : Reinvite(p) => Good(World') /\ Grows(World, World')
    BY ReinviteStep
  <1>12. \A p \in Side : CancelReinvite(p) => Good(World') /\ Grows(World, World')
    BY CancelReinviteStep
  <1> QED BY <1>1, <1>2, <1>3, <1>4, <1>5, <1>6, <1>7, <1>8, <1>9, <1>10, <1>11,
             <1>12, AnswerStep
          DEF Next, Deliver

\* The call starts with the caller alone.
LEMMA Starts ==
    ASSUME Init
    PROVE  Alone(World)
  <1> DEFINE a == [NoSession EXCEPT !.state = CALLING, !.invite_tsx = 1]
             t == Fresh("A", "INVITE", 0)
  <1>1. /\ inv = [p \in Side |-> IF p = "B" THEN NoSession ELSE a]
        /\ tsx = Append(<<>>, t)
    BY DEF Init, Request, Fresh
  <1>2. /\ NoSession \in Session /\ a \in Session /\ a.state = CALLING
        /\ a.invite_tsx = 1 /\ a.remote_cseq = 0 /\ a.cause = 0
        /\ NoSession.invite_tsx = 0 /\ NoSession.remote_cseq = 0
        /\ NoSession.state = NULL
    <2>1. CALLING \in 0..6 /\ 1 \in Nat
      BY DEF CALLING
    <2>2. a = Calling(NoSession, CALLING, 1)
      BY DEF Calling
    <2> HIDE DEF a
    <2> QED BY <2>1, <2>2, NoSessionFields, SessionWith
  <1>3. /\ t \in Txn /\ t.method = "INVITE" /\ t.by = "A" /\ t.of = 0
        /\ t.c = "CALLING" /\ t.ccode = 0 /\ t.s = "NONE" /\ t.scode = 0 /\ ~t.acked
    BY FreshFields DEF Side
  <1> HIDE DEF a, t
  <1>4. tsx \in Seq(Txn) /\ Len(tsx) = 1 /\ tsx[1] = t
    BY <1>1, <1>3
  <1>5. inv \in [Side -> Session] /\ inv["A"] = a /\ inv["B"] = NoSession
    BY <1>1, <1>2 DEF Side
  <1>6. World \in [inv : [Side -> Session], tsx : Seq(Txn)]
    BY <1>4, <1>5 DEF World
  <1> DEFINE w == World
  <1>7. w.inv = inv /\ w.tsx = tsx
    BY WorldIs
  <1> HIDE DEF w
  <1>8. Shape(w)
    <2>1. \A q \in Side : /\ inv[q].invite_tsx \in 0..1 /\ inv[q].remote_cseq \in 0..1
                          /\ inv[q].state # DISCONNECTED
      BY <1>2, <1>5 DEF Side, NULL, CALLING, DISCONNECTED
    <2>2. /\ \A q \in Side :
                /\ {w.inv[q].invite_tsx, w.inv[q].remote_cseq} \subseteq 0..Len(w.tsx)
                /\ w.inv[q].state = DISCONNECTED => w.inv[q].cause # 0
      BY <2>1, <1>4, <1>7
    <2>3. \A k \in 1..Len(w.tsx) : w.tsx[k].of \in 0..Len(w.tsx)
      <3>1. \A k \in 1..1 : k = 1
        OBVIOUS
      <3> QED BY <3>1, <1>3, <1>4, <1>7
    <2>4. w \in [inv : [Side -> Session], tsx : Seq(Txn)]
      BY <1>6 DEF w
    <2> QED BY <2>2, <2>3, <2>4 DEF Shape
  <1>9. Alone(w)
    BY <1>2, <1>3, <1>4, <1>5, <1>7, <1>8 DEF Alone, Apart
  <1> QED BY <1>9 DEF w

\* The invariant is inductive, and every step only grows.
LEMMA Moves ==
    ASSUME Inv, [Next]_vars
    PROVE  Inv' /\ Grows(World, World')
  <1>1. CASE Next
    <2>1. (Alone(World') \/ Good(World')) /\ Grows(World, World')
      BY <1>1, AloneStep, GoodStep DEF Inv
    <2> QED BY <2>1 DEF Inv
  <1>2. CASE UNCHANGED vars
    <2>1. World' = World
      BY <1>2 DEF vars, World
    <2>2. Shape(World)
      BY DEF Inv, Alone, Apart, Good, GoodBut
    <2> DEFINE w == World
    <2> HIDE DEF w
    <2>3. Shape(w) /\ World' = w
      BY <2>1, <2>2 DEF w
    <2>4. Grows(w, w)
      <3>1. Len(w.tsx) \in Nat /\ \A q \in Side : w.inv[q].state \in 0..6
        BY <2>3, Facts
      <3> QED BY <3>1 DEF Grows
    <2>5. Grows(World, World')
      BY <2>1, <2>4 DEF w
    <2>6. Inv'
      BY <2>1 DEF Inv
    <2> QED BY <2>5, <2>6
  <1> QED BY <1>1, <1>2

\* The invariant holds in every state.
THEOREM Invariance == Spec => []Inv
  <1>1. Init => Inv
    BY Starts DEF Inv
  <1>2. Inv /\ [Next]_vars => Inv'
    BY Moves
  <1> QED BY <1>1, <1>2, PTL DEF Spec

------------------------------------------------------------------------------
(* The properties.                                                         *)
------------------------------------------------------------------------------
\* What the invariant says of the types.
LEMMA InvShape ==
    ASSUME Inv
    PROVE  /\ Shape(World) /\ inv \in [Side -> Session] /\ tsx \in Seq(Txn)
           /\ Txns = 1..Len(tsx)
  <1>1. Shape(World)
    BY DEF Inv, Alone, Apart, Good, GoodBut
  <1>2. inv \in [Side -> Session] /\ tsx \in Seq(Txn)
    BY <1>1, ShapeType, WorldIs
  <1> QED BY <1>1, <1>2 DEF Txns

\* Sessions and transactions have their types, and no session ends without a
\* cause, which inv_set_state asserts.
THEOREM TypesKept == Spec => []TypeOK
  <1>1. Inv => TypeOK
    <2> SUFFICES ASSUME Inv PROVE TypeOK
      OBVIOUS
    <2>1. /\ Shape(World) /\ inv \in [Side -> Session] /\ tsx \in Seq(Txn)
          /\ Txns = 1..Len(tsx)
      BY InvShape
    <2>2. DOMAIN inv = Side /\ \A p \in Side : inv[p] \in Session
      BY <2>1
    <2>3. ASSUME NEW r, r \in Session
          PROVE  /\ r.state \in NULL..DISCONNECTED /\ r.cause \in Codes
                 /\ {r.pending_cancel, r.pending_bye, r.hanging_up} \subseteq BOOLEAN
      BY <2>3 DEF Session
    <2>4. \A p \in Side :
             /\ inv[p].state = DISCONNECTED => inv[p].cause # 0
             /\ {inv[p].invite_tsx, inv[p].remote_cseq} \subseteq 0..Len(tsx)
      BY <2>1, WorldIs DEF Shape
    <2>5. \A i \in Txns : tsx[i] \in Txn
      BY <2>1
    <2>6. ASSUME NEW t, t \in Txn
          PROVE  /\ t.method \in {"INVITE", "CANCEL", "BYE"} /\ t.by \in Side
                 /\ t.c \in {"CALLING", "PROCEEDING", "COMPLETED", "TERMINATED"}
                 /\ t.s \in {"NONE", "TRYING", "PROCEEDING", "COMPLETED",
                             "CONFIRMED", "TERMINATED", "STATELESS"}
                 /\ {t.ccode, t.scode} \subseteq Codes
                 /\ t.acked \in BOOLEAN
      BY <2>6 DEF Txn
    <2>7. \A i \in Txns : tsx[i].of \in 0..Len(tsx)
      BY <2>1, WorldIs DEF Shape
    <2> QED BY <2>2, <2>3, <2>4, <2>5, <2>6, <2>7 DEF TypeOK
  <1> QED BY <1>1, Invariance, PTL

\* invite_tsx never outlives its transaction, and in a confirmed call it names
\* every INVITE of this side that is open and every one it has yet to answer.
THEOREM InviteAlwaysExact == Spec => []InviteTsxExact
  <1>1. Inv => InviteTsxExact
    <2> SUFFICES ASSUME Inv, NEW p \in Side
                 PROVE  /\ inv[p].invite_tsx # 0 => Attached(World, p, inv[p].invite_tsx)
                        /\ inv[p].state = CONFIRMED =>
                              \A i \in Txns :
                                 /\ tsx[i].method = "INVITE"
                                 /\ IF tsx[i].by = p THEN Open(i)
                                    ELSE tsx[i].s = "PROCEEDING"
                                 => inv[p].invite_tsx = i
      BY DEF InviteTsxExact
    <2> DEFINE w == World
               k == inv[p].invite_tsx
    <2>1. /\ Shape(w) /\ Txns = 1..Len(tsx) /\ w.inv = inv /\ w.tsx = tsx
          /\ k \in 0..Len(tsx) /\ (k # 0 => k \in Txns)
      BY InvShape, WorldIs, Facts
    <2>2. CASE Good(w)
      <3>1. ASSUME k # 0 PROVE Attached(w, p, k)
        <4>1. Held(p, tsx[k])
          BY <2>1, <2>2, <3>1 DEF Good, GoodBut, HoldsBut
        <4> QED BY <2>1, <4>1 DEF Held, Attached
      <3>2. ASSUME inv[p].state = CONFIRMED, NEW i \in Txns, tsx[i].method = "INVITE",
                   IF tsx[i].by = p THEN Open(i) ELSE tsx[i].s = "PROCEEDING"
            PROVE  k = i
        <4>1. Pending(p, tsx[i])
          BY <3>2 DEF Pending, Open, OpenAt, Busy
        <4>2. inv[p].state # DISCONNECTED
          BY <3>2 DEF CONFIRMED, DISCONNECTED
        <4> QED BY <2>1, <2>2, <4>1, <4>2 DEF Good, GoodBut, NoneEscapes
      <3> QED BY <3>1, <3>2
    <2>3. CASE Alone(w)
      <3>1. inv[p].state # CONFIRMED
        BY <2>1, <2>3, AloneFacts
           DEF Side, NULL, CALLING, CONFIRMED, DISCONNECTED
      <3>2. ASSUME k # 0 PROVE Attached(w, p, k)
        <4>1. p = "A" /\ k = 1 /\ tsx[k].by = "A" /\ tsx[k].c = "CALLING"
          BY <2>1, <2>3, <3>2, NoSessionFields DEF Alone, Apart, Side
        <4> QED BY <2>1, <4>1 DEF Attached
      <3> QED BY <3>1, <3>2
    <2> QED BY <2>2, <2>3 DEF Inv
  <1> QED BY <1>1, Invariance, PTL

\* At most one INVITE of a call that goes on is being answered, or waits for
\* the ACK to its 2xx, on either side.
THEOREM NeverTwoAtATime == Spec => []OneAtATime
  <1>1. Inv => OneAtATime
    <2> SUFFICES ASSUME Inv, NEW i \in Txns, NEW j \in Txns, i # j,
                        \A k \in {i, j} : /\ tsx[k].method = "INVITE"
                                          /\ \/ tsx[k].s = "PROCEEDING"
                                             \/ tsx[k].s = "COMPLETED" /\ tsx[k].scode = 200
                 PROVE  \E p \in Side : inv[p].state = DISCONNECTED
      BY DEF OneAtATime
    <2> DEFINE w == World
    <2>1. Txns = 1..Len(tsx) /\ w.inv = inv /\ w.tsx = tsx
      BY InvShape, WorldIs
    <2>2. CASE Good(w)
      <3>1. Busy(tsx[i]) /\ Busy(tsx[j])
        BY DEF Busy
      <3> QED BY <2>1, <2>2, <3>1 DEF Good, GoodBut, OneBusy
    <2>3. CASE Alone(w)
      <3>1. Txns = {1}
        BY <2>3, AloneFacts
      <3> QED BY <3>1
    <2> QED BY <2>2, <2>3 DEF Inv
  <1> QED BY <1>1, Invariance, PTL

\* With nothing timing out, the called side's BYE never goes out before the
\* caller has acknowledged the 2xx.
THEOREM ByeOnlyAfterAck ==
    ASSUME ~MayTimeout
    PROVE  Spec => []ByeAfterAck
  <1>1. Inv => ByeAfterAck
    <2> SUFFICES ASSUME Inv, NEW i \in Txns, tsx[i].by = "B"
                 PROVE  inv["A"].state >= CONFIRMED
      BY DEF ByeAfterAck
    <2> DEFINE w == World
    <2>1. Txns = 1..Len(tsx) /\ w.inv = inv /\ w.tsx = tsx
      BY InvShape, WorldIs
    <2>2. CASE Good(w)
      BY <2>1, <2>2 DEF Good, GoodBut, CallerFirst
    <2>3. CASE Alone(w)
      <3>1. Txns = {1} /\ tsx[1].by = "A"
        BY <2>3, AloneFacts
      <3> QED BY <3>1
    <2> QED BY <2>2, <2>3 DEF Inv
  <1> QED BY <1>1, Invariance, PTL

\* No session ever goes back, whatever arrives late.
THEOREM SessionsNeverGoBack == Spec => NeverBack
  <1>1. Inv /\ [Next]_vars => [\A p \in Side : inv'[p].state >= inv[p].state]_vars
    <2> SUFFICES ASSUME Inv, [Next]_vars, NEW p \in Side
                 PROVE  inv'[p].state >= inv[p].state
      OBVIOUS
    <2>1. Inv' /\ Grows(World, World')
      BY Moves
    <2>2. inv[p].state <= inv'[p].state
      BY <2>1, WorldIs DEF Grows
    <2>3. inv[p].state \in 0..6 /\ inv'[p].state \in 0..6
      <3>1. \A w : Shape(w) => w.inv[p].state \in 0..6
        BY Facts
      <3>2. Shape(World) /\ Shape(World')
        BY <2>1, InvShape DEF Inv, Alone, Apart, Good, GoodBut
      <3> QED BY <3>1, <3>2, WorldIs
    <2> QED BY <2>2, <2>3
  <1> QED BY <1>1, Invariance, PTL DEF Spec, NeverBack

=============================================================================
