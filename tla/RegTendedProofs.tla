---------------------------- MODULE RegTendedProofs ----------------------------
(***************************************************************************)
(* LookedAfter of RegClient, where one thread of the user and one worker   *)
(* run, as in PjsipDemo: for any sessions, any codes, and sends that fail  *)
(* or do not.  With two workers or two of the user's threads it fails.     *)
(*                                                                         *)
(* An account that shows itself registered, or whose callback is about to  *)
(* say so, is due to be looked after.  Between two states where nothing is *)
(* in progress what looks after it is passed from hand to hand: a timer, a *)
(* request, a frame that is about to send or to report a failure, or the   *)
(* result the application is about to get.  TInv says that there always is *)
(* one (Due => Tended); a lemma per action shows who takes over from whom. *)
(***************************************************************************)
EXTENDS RegClientProofs

-----------------------------------------------------------------------------
(* Where one thread of the user and one worker run: an account that shows  *)
(* itself registered is looked after.                                      *)

OneOfEach == /\ \A u, v \in Users : u = v
             /\ \A u, v \in Workers : u = v

\* A frame at the top that makes up for session r, in one of its ways: it
\* sends, goes on to, or reports that the registration is lost, or its caller
\* does; active: of the account.
Settles(f, active, r) ==
    \/ f.fn = "send" /\ f.pc = "start" /\ f.r = r
    \/ f.fn = "tsx" /\ f.pc \in {"tsx_cb", "handle"} /\ f.r = r
    \/ f.fn = "refresh" /\ f.pc \in {"ref", "register"} /\ f.r = r
    \/ /\ f.fn \in {"tsx", "refresh"} /\ f.pc = "sent" /\ f.r = r
       /\ f.status = "error"
    \/ /\ f.fn \in {"tsx", "refresh"} /\ f.pc = "call" /\ f.r = r
       /\ f.status = "error" \/ (f.status = "ok" /\ (f.code >= 300 \/ ~f.exp))
    \/ f.fn = "set" /\ f.pc \in {"sent", "flag"} /\ f.status # "ok"
    \/ f.fn = "retry" /\ f.pc = "sent" /\ f.status # "ok"
    \/ f.fn = "retry" /\ f.pc = "begin" /\ active

\* A send of session r that failed and will tell its caller.
Failing(f, r) == f.fn = "send" /\ f.pc = "back" /\ f.status = "error" /\ f.r = r

\* A thread with stack s makes up for session r, or deletes the account.
Covers(s, active, r) ==
    /\ s # <<>>
    /\ \/ Settles(Last(s), active, r)
       \/ \E i \in 1..Len(s) : Failing(s[i], r)
       \/ s[1].fn = "del"

\* The user's call, whose result the application will know.
Calling(s) == s # <<>> /\ s[1].fn = "set" /\ s[1].pc # "begin"

\* The application knows that its last call failed, and makes no other.
Shown == acc.refused /\ \A t \in Thread : ~Calling(stk[t])

\* Something keeps the account's session registered, or says it is not.
Tended ==
    \/ reg[acc.regc].timer \/ reg[acc.regc].has_tsx \/ Shown
    \/ \E t \in Thread : Covers(stk[t], acc.active, acc.regc)

\* The callback is about to say that session r is registered.
Telling(s, r) ==
    /\ s # <<>> /\ Last(s).fn \in {"tsx", "refresh"} /\ Last(s).pc = "call"
    /\ Last(s).r = r
    /\ Last(s).status = "ok" /\ Last(s).code < 300 /\ Last(s).exp

\* The account shows itself registered and no retry will change that, or it is
\* about to.
Due ==
    /\ acc.regc # None
    /\ \/ acc.valid /\ acc.told /\ ~(acc.retry /\ acc.active)
       \/ \E t \in Thread : Telling(stk[t], acc.regc)

\* Who calls what; a callback under a send reports that it failed.
Tame(t, s) ==
    /\ s # <<>> => /\ t \in Users => s[1].fn \in {"set", "del"}
                   /\ t \in Workers => s[1].fn \in {"tsx", "refresh", "retry"}
    /\ \A i \in 2..Len(s) : s[i].fn = "tsx" /\ s[i].pc = "call" => s[i].code = 503

TInv ==
    /\ Due => Tended
    /\ \A t \in Thread : Tame(t, stk[t])
    /\ ~acc.valid => acc.regc = None

-----------------------------------------------------------------------------
(* What covers a session when a stack changes.                             *)

\* A frame instead of the top.
LEMMA TurnCovers ==
    ASSUME NEW s, NEW f, NEW a, NEW r, s \in Seq(FrameType), s # <<>>,
           f \in FrameType, f.fn = Last(s).fn
    PROVE  LET n == Turned(s, f)
           IN /\ n # <<>> /\ Last(n) = f /\ n[1].fn = s[1].fn
              /\ Settles(f, a, r) \/ Failing(f, r) => Covers(n, a, r)
              /\ Covers(s, a, r) => \/ Settles(Last(s), a, r)
                                    \/ Failing(Last(s), r) \/ Covers(n, a, r)
              /\ s[1].fn = "del" => Covers(n, a, r)
  <1> DEFINE n == Turned(s, f)
             k == Len(s)
  <1>1. /\ n # <<>> /\ Len(n) = k /\ Last(n) = f /\ n[k] = f
        /\ \A i \in 1..(k - 1) : n[i] = s[i]
        /\ k \in Nat \ {0} /\ Last(s) = s[k]
    BY FrontFacts, AppendFacts DEF Turned
  <1> HIDE DEF n, k
  <1>2. n[1].fn = s[1].fn
    <2>1. CASE k = 1
      BY <1>1, <2>1
    <2>2. CASE k # 1
      BY <1>1, <2>2
    <2> QED BY <2>1, <2>2
  <1>3. Settles(f, a, r) \/ Failing(f, r) => Covers(n, a, r)
    BY <1>1 DEF Covers
  <1>4. s[1].fn = "del" => Covers(n, a, r)
    BY <1>1, <1>2 DEF Covers
  <1>5. ASSUME NEW i \in 1..k, Failing(s[i], r), ~Failing(Last(s), r)
        PROVE  Covers(n, a, r)
    <2>1. i \in 1..(k - 1)
      BY <1>1, <1>5
    <2>2. Failing(n[i], r) /\ i \in 1..Len(n)
      BY <1>1, <1>5, <2>1
    <2> QED BY <1>1, <2>2 DEF Covers
  <1>6. Covers(s, a, r) => \/ Settles(Last(s), a, r)
                           \/ Failing(Last(s), r) \/ Covers(n, a, r)
    BY <1>4, <1>5 DEF Covers, k
  <1> QED BY <1>1, <1>2, <1>3, <1>4, <1>6 DEF n

\* A frame on top of the others.
LEMMA PushCovers ==
    ASSUME NEW s, NEW f, NEW a, NEW r, s \in Seq(FrameType), f \in FrameType
    PROVE  LET n == Append(s, f)
           IN /\ n # <<>> /\ Last(n) = f
              /\ n[1] = IF s = <<>> THEN f ELSE s[1]
              /\ Settles(f, a, r) => Covers(n, a, r)
              /\ Covers(s, a, r) => Settles(Last(s), a, r) \/ Covers(n, a, r)
              /\ s # <<>> /\ s[1].fn = "del" => Covers(n, a, r)
  <1> DEFINE n == Append(s, f)
             k == Len(s)
  <1>1. /\ n # <<>> /\ Len(n) = k + 1 /\ Last(n) = f /\ n[k + 1] = f
        /\ \A i \in 1..k : n[i] = s[i]
        /\ k \in Nat /\ (s = <<>> <=> k = 0)
    <2>1. s = <<>> <=> Len(s) = 0
      OBVIOUS
    <2> QED BY <2>1, AppendFacts
  <1> HIDE DEF n, k
  <1>2. n[1] = IF s = <<>> THEN f ELSE s[1]
    <2>1. CASE k = 0
      BY <1>1, <2>1
    <2>2. CASE k # 0
      BY <1>1, <2>2
    <2> QED BY <2>1, <2>2
  <1>3. Settles(f, a, r) => Covers(n, a, r)
    BY <1>1 DEF Covers
  <1>4. s # <<>> /\ s[1].fn = "del" => Covers(n, a, r)
    BY <1>1, <1>2 DEF Covers
  <1>5. ASSUME NEW i \in 1..k, Failing(s[i], r)
        PROVE  Covers(n, a, r)
    <2>1. Failing(n[i], r) /\ i \in 1..Len(n)
      BY <1>1, <1>5
    <2> QED BY <1>1, <2>1 DEF Covers
  <1>6. Covers(s, a, r) => Settles(Last(s), a, r) \/ Covers(n, a, r)
    BY <1>4, <1>5 DEF Covers, k
  <1> QED BY <1>1, <1>2, <1>3, <1>4, <1>6 DEF n

\* The top is gone.
LEMMA PopCovers ==
    ASSUME NEW s, NEW a, NEW r, s \in Seq(FrameType), s # <<>>,
           Last(s).fn # "del"
    PROVE  LET n == Front(s)
           IN /\ n \in Seq(FrameType)
              /\ n # <<>> => n[1] = s[1] /\ Last(n) = s[Len(s) - 1] /\ Len(s) >= 2
              /\ Covers(s, a, r) => \/ Settles(Last(s), a, r)
                                    \/ Failing(Last(s), r) \/ Covers(n, a, r)
              /\ s[1].fn = "del" => n # <<>>
  <1> DEFINE n == Front(s)
             k == Len(s)
  <1>1. /\ n \in Seq(FrameType) /\ Len(n) = k - 1
        /\ \A i \in 1..(k - 1) : n[i] = s[i]
        /\ k \in Nat \ {0} /\ Last(s) = s[k]
    BY FrontFacts
  <1>2. n # <<>> <=> k - 1 # 0
    BY <1>1
  <1> HIDE DEF n, k
  <1>3. n # <<>> => n[1] = s[1] /\ Last(n) = s[k - 1] /\ k >= 2
    BY <1>1, <1>2 DEF Last
  <1>4. s[1].fn = "del" => n # <<>> /\ Covers(n, a, r)
    <2>1. s[1].fn = "del" => k # 1
      BY <1>1
    <2> QED BY <1>1, <1>2, <1>3, <2>1 DEF Covers
  <1>5. ASSUME NEW i \in 1..k, Failing(s[i], r), ~Failing(Last(s), r)
        PROVE  Covers(n, a, r)
    <2>1. i \in 1..(k - 1) /\ k - 1 # 0
      BY <1>1, <1>5
    <2>2. Failing(n[i], r) /\ i \in 1..Len(n)
      BY <1>1, <1>5, <2>1
    <2> QED BY <1>2, <2>1, <2>2 DEF Covers
  <1>6. Covers(s, a, r) => \/ Settles(Last(s), a, r)
                           \/ Failing(Last(s), r) \/ Covers(n, a, r)
    BY <1>4, <1>5 DEF Covers, k
  <1> QED BY <1>1, <1>3, <1>4, <1>6 DEF n, k

\* A function returns to one that is no send.
LEMMA ReturnCovers ==
    ASSUME NEW s, NEW f, NEW a, NEW r, s \in Seq(FrameType), s # <<>>,
           Last(s).fn # "del", Front(s) # <<>>, f \in FrameType,
           f.fn = Last(Front(s)).fn, f.fn # "send"
    PROVE  LET n == Turned(Front(s), f)
           IN /\ n # <<>> /\ Last(n) = f /\ n[1].fn = s[1].fn
              /\ Settles(f, a, r) => Covers(n, a, r)
              /\ Covers(s, a, r) => \/ Settles(Last(s), a, r)
                                    \/ Failing(Last(s), r) \/ Covers(n, a, r)
  <1> DEFINE v == Front(s)
             n == Turned(v, f)
             k == Len(s)
  <1>1. /\ v \in Seq(FrameType) /\ v # <<>> /\ Len(v) = k - 1
        /\ \A i \in 1..(k - 1) : v[i] = s[i]
        /\ k \in Nat \ {0} /\ Last(s) = s[k]
    BY FrontFacts
  <1>2. v[1] = s[1] /\ f.fn = Last(v).fn
    BY PopCovers
  <1> HIDE DEF v
  <1>3. /\ n # <<>> /\ Last(n) = f /\ n[1].fn = v[1].fn
        /\ Settles(f, a, r) => Covers(n, a, r)
        /\ v[1].fn = "del" => Covers(n, a, r)
    BY <1>1, <1>2, TurnCovers
  <1>4. /\ Len(n) = k - 1 /\ \A i \in 1..(k - 2) : n[i] = v[i]
        /\ Last(v) = v[k - 1] /\ k >= 2
    <2>1. /\ Len(n) = Len(v) /\ Len(v) \in Nat \ {0}
          /\ \A i \in 1..(Len(v) - 1) : n[i] = v[i]
      BY <1>1, TurnedFacts
    <2>2. Last(v) = v[Len(v)]
      BY <1>1, FrontFacts
    <2> HIDE DEF n, k
    <2> QED BY <1>1, <2>1, <2>2
  <1> HIDE DEF n, k
  <1>5. ASSUME NEW i \in 1..k, Failing(s[i], r), ~Failing(Last(s), r)
        PROVE  Covers(n, a, r)
    <2>1. i \in 1..(k - 1)
      BY <1>1, <1>5
    <2>2. i # k - 1
      BY <1>1, <1>2, <1>4, <1>5, <2>1 DEF Failing
    <2>3. i \in 1..(k - 2) /\ i \in 1..Len(n)
      BY <1>1, <1>4, <2>1, <2>2
    <2>4. Failing(n[i], r)
      BY <1>1, <1>4, <1>5, <2>1, <2>3
    <2> QED BY <1>3, <2>3, <2>4 DEF Covers
  <1>6. Covers(s, a, r) => \/ Settles(Last(s), a, r)
                           \/ Failing(Last(s), r) \/ Covers(n, a, r)
    BY <1>2, <1>3, <1>5 DEF Covers, k
  <1> QED BY <1>2, <1>3, <1>6 DEF n, v

-----------------------------------------------------------------------------
(* The worlds of the handlers, field by field.                             *)

Made(g, a, k, m, p) == [reg |-> g, acc |-> a, stk |-> k, net |-> m, pjsua |-> p]

\* What the operators on worlds write.
LEMMA MadeReg ==
    ASSUME NEW g, NEW a, NEW k, NEW m, NEW p, NEW r, NEW z
    PROVE  WithReg(Made(g, a, k, m, p), r, z) = Made(Swap(g, r, z), a, k, m, p)
  BY DEF Made, WithReg, Swap

\* What the other writes make of it.
LEMMA MadeWith ==
    ASSUME NEW g, NEW a, NEW k, NEW m, NEW p, NEW b
    PROVE  /\ WithAcc(Made(g, a, k, m, p), b) = Made(g, b, k, m, p)
           /\ WithNet(Made(g, a, k, m, p), b) = Made(g, a, k, b, p)
           /\ WithPjsua(Made(g, a, k, m, p), b) = Made(g, a, k, m, b)
  BY DEF Made, WithAcc, WithNet, WithPjsua

\* The fields.
LEMMA MadeFields ==
    ASSUME NEW g, NEW a, NEW k, NEW m, NEW p
    PROVE  /\ Made(g, a, k, m, p).reg = g /\ Made(g, a, k, m, p).acc = a
           /\ Made(g, a, k, m, p).stk = k
           /\ Become(Made(g, a, k, m, p)) => reg' = g /\ acc' = a /\ stk' = k
  BY DEF Made, Become

\* The stack of t alone is written.
Stacked(k, t, s) == [k EXCEPT ![t] = s]

\* The stack that was written.
LEMMA StackedIs ==
    ASSUME NEW k, NEW t, NEW s, t \in DOMAIN k
    PROVE  Stacked(k, t, s)[t] = s
  BY DEF Stacked

\* Those that only change the stack of t, in terms of that stack.
LEMMA PushMade ==
    ASSUME NEW g, NEW a, NEW k, NEW m, NEW p, NEW t, NEW s, NEW f, t \in DOMAIN k
    PROVE  Push(Made(g, a, Stacked(k, t, s), m, p), t, f)
              = Made(g, a, Stacked(k, t, Append(s, f)), m, p)
  <1> DEFINE c == Stacked(k, t, s)
  <1>1. [c EXCEPT ![t] = Append(@, f)] = Stacked(k, t, Append(s, f))
    BY DEF Stacked
  <1> HIDE DEF c
  <1>2. Push(Made(g, a, c, m, p), t, f) = Made(g, a, [c EXCEPT ![t] = Append(@, f)], m, p)
    BY DEF Made, Push
  <1> QED BY <1>1, <1>2 DEF c

\* The top is gone from t's stack.
LEMMA PopMade ==
    ASSUME NEW g, NEW a, NEW k, NEW m, NEW p, NEW t, NEW s, t \in DOMAIN k
    PROVE  Pop(Made(g, a, Stacked(k, t, s), m, p), t)
              = Made(g, a, Stacked(k, t, Front(s)), m, p)
  <1> DEFINE c == Stacked(k, t, s)
  <1>1. [c EXCEPT ![t] = Front(@)] = Stacked(k, t, Front(s))
    BY DEF Stacked
  <1> HIDE DEF c
  <1>2. Pop(Made(g, a, c, m, p), t) = Made(g, a, [c EXCEPT ![t] = Front(@)], m, p)
    BY DEF Made, Pop
  <1> QED BY <1>1, <1>2 DEF c

\* The top of t's stack is another.
LEMMA PutMade ==
    ASSUME NEW g, NEW a, NEW k, NEW m, NEW p, NEW t, NEW s, NEW f, t \in DOMAIN k
    PROVE  Put(Made(g, a, Stacked(k, t, s), m, p), t, f)
              = Made(g, a, Stacked(k, t, Turned(s, f)), m, p)
  BY PopMade, PushMade DEF Put, Turned

\* World as one of them.
LEMMA WorldMade ==
    ASSUME Inv, NEW t \in Thread
    PROVE  /\ World = Made(reg, acc, stk, net, pjsua)
           /\ World = Made(reg, acc, Stacked(stk, t, stk[t]), net, pjsua)
           /\ t \in DOMAIN stk
  <1>1. stk \in [Thread -> Seq(FrameType)]
    BY WorldIs, WorldFields DEF Inv, Good
  <1>2. stk = Stacked(stk, t, stk[t])
    BY <1>1 DEF Stacked
  <1> QED BY <1>1, <1>2 DEF World, Made

-----------------------------------------------------------------------------
(* What is kept by a step of one thread.                                   *)

\* The invariant, of the variables.
LEMMA InvOf ==
    ASSUME Inv
    PROVE  /\ reg \in [Regc -> SessionType] /\ acc \in AccType
           /\ stk \in [Thread -> Seq(FrameType)]
           /\ \A t \in Thread : Stack(stk[t])
           /\ acc.regc # None => /\ acc.regc \in Regc /\ reg[acc.regc].live
                                 /\ ~reg[acc.regc].delete_flag
  <1>1. Good(World, pjsua)
    BY DEF Inv
  <1>2. World \in WorldType
    BY <1>1 DEF Good
  <1>3. /\ reg \in [Regc -> SessionType] /\ acc \in AccType
        /\ stk \in [Thread -> Seq(FrameType)]
    BY <1>2, WorldIs, WorldFields
  <1>4. \A t \in Thread : Stack(stk[t])
    BY <1>1, WorldIs DEF Good
  <1>5. acc.regc # None => /\ acc.regc \in Regc /\ reg[acc.regc].live
                           /\ ~reg[acc.regc].delete_flag
    BY <1>1, <1>3, WorldIs DEF Good, Usable, AccType
  <1> QED BY <1>3, <1>4, <1>5

\* t's stack becomes s; the others stay.
OnlyOf(t, s) == stk' = Stacked(stk, t, s)

\* The stacks, when only t's is another.
LEMMA OnlyStack ==
    ASSUME Inv, NEW t \in Thread, NEW s, OnlyOf(t, s)
    PROVE  stk'[t] = s /\ \A u \in Thread : u # t => stk'[u] = stk[u]
  BY InvOf DEF OnlyOf, Stacked

\* What tends the account's session in the next state, whatever it was before.
LEMMA TendedNext ==
    ASSUME Inv, Inv', TInv, NEW t \in Thread, NEW s, OnlyOf(t, s),
           acc'.regc = acc.regc, acc.active => acc'.active, Tended,
           reg[acc.regc].timer => Tended', reg[acc.regc].has_tsx => Tended',
           Shown => Tended', Covers(stk[t], acc.active, acc.regc) => Tended'
    PROVE  Tended'
  <1>1. ASSUME NEW u \in Thread, u # t, Covers(stk[u], acc.active, acc.regc)
        PROVE  Tended'
    <2>1. stk'[u] = stk[u]
      BY <1>1, OnlyStack
    <2>2. Covers(stk'[u], acc'.active, acc'.regc)
      BY <1>1, <2>1 DEF Covers, Settles
    <2> QED BY <2>2 DEF Tended
  <1> QED BY <1>1 DEF Tended

\* A step that leaves the account alone and has t's stack become s.
Quietly(t, s) == OnlyOf(t, s) /\ acc' = acc

\* Nobody else makes up for what t's stack did.
LEMMA QuietNext ==
    ASSUME Inv, Inv', TInv, NEW t \in Thread, NEW s, Quietly(t, s), Tame(t, s),
           Telling(s, acc.regc) => Telling(stk[t], acc.regc) \/ Tended',
           Calling(s) => Calling(stk[t]),
           acc.regc # None =>
              /\ reg[acc.regc].timer \/ reg[acc.regc].has_tsx => Tended'
              /\ Covers(stk[t], acc.active, acc.regc) => Tended'
    PROVE  TInv'
  <1>1. stk'[t] = s /\ \A u \in Thread : u # t => stk'[u] = stk[u]
    BY OnlyStack DEF Quietly
  <1>2. acc' = acc
    BY DEF Quietly
  <1>3. Shown => Shown'
    <2>1. ASSUME NEW u \in Thread, Calling(stk'[u]) PROVE Calling(stk[u])
      BY <1>1, <2>1
    <2> QED BY <1>2, <2>1 DEF Shown
  <1>4. Shown => Tended'
    BY <1>3 DEF Tended
  <1>5. Due' => Due \/ Tended'
    <2>1. ASSUME NEW u \in Thread, Telling(stk'[u], acc.regc)
          PROVE  Telling(stk[u], acc.regc) \/ Tended'
      BY <1>1, <2>1
    <2> QED BY <1>2, <2>1 DEF Due
  <1>6. ASSUME Due, acc.regc # None PROVE Tended'
    <2>1. Tended
      BY <1>6 DEF TInv
    <2> QED BY <1>2, <1>4, <1>6, <2>1, TendedNext DEF Quietly
  <1>7. Due' => Tended'
    BY <1>2, <1>5, <1>6 DEF Due
  <1>8. \A u \in Thread : Tame(u, stk'[u])
    BY <1>1 DEF TInv
  <1> QED BY <1>2, <1>7, <1>8 DEF TInv

-----------------------------------------------------------------------------
(* What the functions' moves keep.                                         *)

\* A function goes on.
LEMMA TameTurn ==
    ASSUME NEW t, NEW s, NEW f, s \in Seq(FrameType), s # <<>>, f \in FrameType,
           f.fn = Last(s).fn, Tame(t, s),
           f.fn = "tsx" /\ f.pc = "call" => Len(s) = 1 \/ f.code = 503
    PROVE  Tame(t, Turned(s, f))
  <1> DEFINE n == Turned(s, f)
             k == Len(s)
  <1>1. /\ n # <<>> /\ Len(n) = k /\ n[k] = f /\ k \in Nat \ {0}
        /\ \A i \in 1..(k - 1) : n[i] = s[i]
    BY TurnedFacts
  <1>2. n[1].fn = s[1].fn
    <2>1. Last(s) = s[k]
      BY DEF Last
    <2> HIDE DEF n, k
    <2>2. CASE k = 1
      BY <1>1, <2>1, <2>2
    <2>3. CASE k # 1
      BY <1>1, <2>3
    <2> QED BY <2>2, <2>3
  <1> HIDE DEF n, k
  <1>3. ASSUME NEW i \in 2..k, n[i].fn = "tsx", n[i].pc = "call"
        PROVE  n[i].code = 503
    <2>1. CASE i = k
      BY <1>1, <1>3, <2>1 DEF k
    <2>2. CASE i # k
      <3>1. i \in 1..(k - 1) /\ i \in 2..Len(s)
        BY <1>1, <2>2 DEF k
      <3> QED BY <1>1, <1>3, <3>1 DEF Tame
    <2> QED BY <2>1, <2>2
  <1> QED BY <1>1, <1>2, <1>3 DEF Tame, n

\* A function is called.
LEMMA TamePush ==
    ASSUME NEW t, NEW s, NEW f, s \in Seq(FrameType), f \in FrameType, Tame(t, s),
           ~(f.fn = "tsx" /\ f.pc = "call"),
           s = <<>> => /\ t \in Users => f.fn \in {"set", "del"}
                       /\ t \in Workers => f.fn \in {"tsx", "refresh", "retry"}
    PROVE  Tame(t, Append(s, f))
  <1> DEFINE n == Append(s, f)
             k == Len(s)
  <1>1. /\ n # <<>> /\ Len(n) = k + 1 /\ n[k + 1] = f /\ k \in Nat
        /\ \A i \in 1..k : n[i] = s[i]
    BY AppendFacts
  <1> HIDE DEF n, k
  <1>2. n[1] = IF s = <<>> THEN f ELSE s[1]
    <2>1. s = <<>> <=> k = 0
      BY DEF k
    <2>2. CASE k = 0
      BY <1>1, <2>1, <2>2
    <2>3. CASE k # 0
      BY <1>1, <2>1, <2>3
    <2> QED BY <2>2, <2>3
  <1>3. ASSUME NEW i \in 2..(k + 1), n[i].fn = "tsx", n[i].pc = "call"
        PROVE  n[i].code = 503
    <2>1. i # k + 1
      BY <1>1, <1>3
    <2>2. i \in 1..k /\ i \in 2..Len(s)
      BY <1>1, <2>1 DEF k
    <2> QED BY <1>1, <1>3, <2>2 DEF Tame
  <1> QED BY <1>1, <1>2, <1>3 DEF Tame, n

\* A function ends.
LEMMA TamePop ==
    ASSUME NEW t, NEW s, s \in Seq(FrameType), s # <<>>, Tame(t, s)
    PROVE  Tame(t, Front(s))
  <1> DEFINE n == Front(s)
             k == Len(s)
  <1>1. /\ n \in Seq(FrameType) /\ Len(n) = k - 1 /\ k \in Nat \ {0}
        /\ \A i \in 1..(k - 1) : n[i] = s[i]
    BY FrontFacts
  <1>2. n # <<>> => k - 1 # 0
    BY <1>1
  <1> HIDE DEF n, k
  <1>3. n # <<>> => n[1] = s[1]
    BY <1>1, <1>2
  <1>4. ASSUME NEW i \in 2..(k - 1) PROVE n[i] = s[i] /\ i \in 2..Len(s)
    BY <1>1 DEF k
  <1> QED BY <1>1, <1>3, <1>4 DEF Tame, n

\* What keeps session r, which is s, when f is the frame at the top.
Keen(s, f, a, r) ==
    s.timer \/ s.has_tsx \/ Settles(f, a, r) \/ Failing(f, r)

\* The frame is about to say that session r is registered.
WillTell(f, r) ==
    /\ f.fn \in {"tsx", "refresh"} /\ f.pc = "call" /\ f.r = r
    /\ f.status = "ok" /\ f.code < 300 /\ f.exp

\* Where a step goes.
LEMMA Arrives ==
    ASSUME Inv, TInv, NEW t \in Thread, NEW s, OnlyOf(t, s), Tame(t, s),
           ~acc'.valid => acc'.regc = None,
           acc'.regc = None \/ Tended' \/ ~Due'
    PROVE  TInv'
  <1>1. \A u \in Thread : Tame(u, stk'[u])
    BY OnlyStack DEF TInv
  <1>2. Due' => acc'.regc # None
    BY DEF Due
  <1>3. Due' => Tended'
    BY <1>2
  <1>4. (~acc.valid => acc.regc = None)'
    OBVIOUS
  <1>5. (Due => Tended)'
    BY <1>3
  <1>6. (\A u \in Thread : Tame(u, stk[u]))'
    BY <1>1
  <1> QED BY <1>4, <1>5, <1>6 DEF TInv

\* The invariant in the next state.
LEMMA InvNext ==
    ASSUME Inv', NEW t \in Thread
    PROVE  Stack(stk'[t])
  <1>1. Good(World', pjsua') /\ World'.stk = stk'
    BY DEF Inv, World
  <1> QED BY <1>1 DEF Good

\* Another frame at the top.
LEMMA TurnQuiet ==
    ASSUME Inv, Inv', TInv, NEW t \in Thread, stk[t] # <<>>, NEW f,
           f \in FrameType, f.fn = Last(stk[t]).fn,
           Quietly(t, Turned(stk[t], f)),
           f.fn = "tsx" /\ f.pc = "call" => Len(stk[t]) = 1 \/ f.code = 503,
           f.fn = "set" => Last(stk[t]).pc # "begin",
           acc.regc # None =>
              LET r == acc.regc
              IN Keen(reg[r], Last(stk[t]), acc.active, r) \/ WillTell(f, r) =>
                    Keen(reg'[r], f, acc.active, r)
    PROVE  TInv'
  <1> DEFINE s == stk[t]
             n == Turned(s, f)
             r == acc.regc
             k == Len(s)
  <1>1. s \in Seq(FrameType) /\ Tame(t, s) /\ s # <<>> /\ f.fn = Last(s).fn
    BY InvOf DEF TInv
  <1>2. /\ n # <<>> /\ Last(n) = f /\ n[1].fn = s[1].fn
        /\ Settles(f, acc.active, r) \/ Failing(f, r) => Covers(n, acc.active, r)
        /\ Covers(s, acc.active, r) =>
              \/ Settles(Last(s), acc.active, r)
              \/ Failing(Last(s), r) \/ Covers(n, acc.active, r)
    <2> DEFINE b == acc.active
    <2>1. LET m == Turned(s, f)
          IN /\ m # <<>> /\ Last(m) = f /\ m[1].fn = s[1].fn
             /\ Settles(f, b, r) \/ Failing(f, r) => Covers(m, b, r)
             /\ Covers(s, b, r) => \/ Settles(Last(s), b, r)
                                   \/ Failing(Last(s), r) \/ Covers(m, b, r)
             /\ s[1].fn = "del" => Covers(m, b, r)
      <3> HIDE DEF b, r, s
      <3> QED BY <1>1, TurnCovers
    <2> QED BY <2>1
  <1>3. Tame(t, n)
    BY <1>1, TameTurn
  <1>4. stk'[t] = n /\ acc' = acc
    BY OnlyStack DEF Quietly
  <1>5. Covers(n, acc.active, r) => Tended'
    BY <1>4 DEF Tended
  <1>6. Keen(reg'[r], f, acc.active, r) => Tended'
    BY <1>2, <1>4, <1>5 DEF Keen, Tended
  <1>7. Calling(n) => Calling(s)
    <2>1. /\ n[k] = f /\ k \in Nat \ {0} /\ \A i \in 1..(k - 1) : n[i] = s[i]
          /\ Last(s) = s[k]
      BY <1>1, TurnedFacts, FrontFacts
    <2> HIDE DEF n, s, k
    <2>2. CASE k = 1
      BY <1>1, <2>1, <2>2 DEF Calling, s
    <2>3. CASE k # 1
      BY <1>1, <2>1, <2>3 DEF Calling
    <2> QED BY <2>2, <2>3
  <1>8. Telling(n, r) => WillTell(f, r)
    BY <1>2 DEF Telling, WillTell
  <1> HIDE DEF n
  <1>9. acc.regc # None =>
           /\ Keen(reg[r], Last(s), acc.active, r) => Tended'
           /\ WillTell(f, r) => Tended'
    BY <1>6
  <1>10. Telling(n, r) => acc.regc # None
    <2>1. Telling(n, r) => f.fn \in {"tsx", "refresh"} /\ f.r = r /\ n # <<>> /\ stk'[t] = n
      BY <1>2, <1>4, <1>8 DEF WillTell
    <2>2. f.fn \in {"tsx", "refresh"} => f.r # None
      <3>1. TopIs(World, t, f.fn, {Last(s).pc})
        BY WorldIs DEF TopIs
      <3>2. Stack(stk'[t])
        BY InvNext
      <3>3. Fits(stk'[t][Len(n)], Len(n), Under(stk'[t], Len(n))) /\ n[Len(n)] = f
        <4>1. Len(n) \in 1..Len(n) /\ n[Len(n)] = f
          BY <1>1, TurnedFacts DEF n
        <4> QED BY <1>4, <3>2, <4>1 DEF Stack
      <3> QED BY <1>4, <3>3 DEF Fits
    <2> QED BY <2>1, <2>2
  <1>11. Telling(n, r) => Tended'
    BY <1>8, <1>9, <1>10
  <1>12. acc.regc # None =>
            /\ reg[r].timer \/ reg[r].has_tsx => Tended'
            /\ Covers(s, acc.active, r) => Tended'
    BY <1>2, <1>5, <1>9 DEF Keen
  <1>13. Quietly(t, n)
    BY DEF n
  <1> HIDE DEF s, r
  <1> QED BY <1>3, <1>7, <1>11, <1>12, <1>13, QuietNext DEF s, r

\* A frame on top.
LEMMA PushQuiet ==
    ASSUME Inv, Inv', TInv, NEW t \in Thread, NEW f, f \in FrameType,
           Quietly(t, Append(stk[t], f)), f.pc # "call",
           stk[t] = <<>> => /\ t \in Users => f.fn \in {"set", "del"}
                            /\ t \in Workers => f.fn \in {"tsx", "refresh", "retry"}
                            /\ f.fn = "set" => f.pc = "begin",
           acc.regc # None =>
              LET r == acc.regc
              IN (\/ reg[r].timer \/ reg[r].has_tsx
                  \/ stk[t] # <<>> /\ Settles(Last(stk[t]), acc.active, r)) =>
                    \/ reg'[r].timer \/ reg'[r].has_tsx
                    \/ Settles(f, acc.active, r)
    PROVE  TInv'
  <1> DEFINE s == stk[t]
             n == Append(s, f)
             r == acc.regc
             a == acc.active
  <1>1. s \in Seq(FrameType) /\ Tame(t, s)
    BY InvOf DEF TInv
  <1>2. /\ n # <<>> /\ Last(n) = f /\ n[1] = IF s = <<>> THEN f ELSE s[1]
        /\ Settles(f, a, r) => Covers(n, a, r)
        /\ Covers(s, a, r) => Settles(Last(s), a, r) \/ Covers(n, a, r)
    <2>1. LET m == Append(s, f)
          IN /\ m # <<>> /\ Last(m) = f /\ m[1] = IF s = <<>> THEN f ELSE s[1]
             /\ Settles(f, a, r) => Covers(m, a, r)
             /\ Covers(s, a, r) => Settles(Last(s), a, r) \/ Covers(m, a, r)
      <3> HIDE DEF a, r, s
      <3> QED BY <1>1, PushCovers
    <2> QED BY <2>1
  <1>3. Tame(t, n)
    BY <1>1, TamePush
  <1>4. stk'[t] = n /\ acc' = acc
    BY OnlyStack DEF Quietly
  <1>5. Covers(n, a, r) => Tended'
    BY <1>4 DEF Tended
  <1>6. reg'[r].timer \/ reg'[r].has_tsx => Tended'
    BY <1>4 DEF Tended
  <1>7. Calling(n) => Calling(s)
    BY <1>2 DEF Calling
  <1>8. ~Telling(n, r)
    BY <1>2 DEF Telling
  <1>9. r # None =>
           /\ reg[r].timer \/ reg[r].has_tsx => Tended'
           /\ s # <<>> /\ Settles(Last(s), a, r) => Tended'
    BY <1>2, <1>5, <1>6
  <1>10. r # None =>
            /\ reg[r].timer \/ reg[r].has_tsx => Tended'
            /\ Covers(s, a, r) => Tended'
    BY <1>2, <1>5, <1>9 DEF Covers
  <1>11. Quietly(t, n)
    OBVIOUS
  <1> HIDE DEF s, r, n, a
  <1> QED BY <1>3, <1>7, <1>8, <1>10, <1>11, QuietNext DEF s, r, a

\* Another frame at the top, and one more on it.
LEMMA SendsQuiet ==
    ASSUME Inv, Inv', TInv, NEW t \in Thread, stk[t] # <<>>, NEW f, NEW e,
           f \in FrameType, f.fn = Last(stk[t]).fn, e \in FrameType,
           Quietly(t, Append(Turned(stk[t], f), e)),
           f.pc # "call", e.pc # "call", f.fn # "set",
           acc.regc # None =>
              LET r == acc.regc
              IN Keen(reg[r], Last(stk[t]), acc.active, r) =>
                    \/ reg'[r].timer \/ reg'[r].has_tsx
                    \/ Failing(f, r) \/ Settles(e, acc.active, r)
    PROVE  TInv'
  <1> DEFINE s == stk[t]
             m == Turned(s, f)
             n == Append(m, e)
             r == acc.regc
             a == acc.active
             k == Len(s)
  <1>1. /\ s \in Seq(FrameType) /\ Tame(t, s) /\ s # <<>> /\ f.fn = Last(s).fn
        /\ m \in Seq(FrameType)
    BY InvOf, TurnedFacts DEF TInv
  <1>2. /\ m # <<>> /\ Last(m) = f /\ m[1].fn = s[1].fn
        /\ Failing(f, r) => Covers(m, a, r)
        /\ Covers(s, a, r) => \/ Settles(Last(s), a, r)
                              \/ Failing(Last(s), r) \/ Covers(m, a, r)
        /\ s[1].fn = "del" => Covers(m, a, r)
    <2>1. LET v == Turned(s, f)
          IN /\ v # <<>> /\ Last(v) = f /\ v[1].fn = s[1].fn
             /\ Settles(f, a, r) \/ Failing(f, r) => Covers(v, a, r)
             /\ Covers(s, a, r) => \/ Settles(Last(s), a, r)
                                   \/ Failing(Last(s), r) \/ Covers(v, a, r)
             /\ s[1].fn = "del" => Covers(v, a, r)
      <3> HIDE DEF a, r, s, m
      <3> QED BY <1>1, TurnCovers
    <2> QED BY <2>1
  <1>3. /\ n # <<>> /\ Last(n) = e /\ n[1] = m[1]
        /\ Settles(e, a, r) => Covers(n, a, r)
        /\ Covers(m, a, r) => Settles(f, a, r) \/ Covers(n, a, r)
    <2> HIDE DEF m
    <2>1. LET v == Append(m, e)
          IN /\ v # <<>> /\ Last(v) = e /\ v[1] = IF m = <<>> THEN e ELSE m[1]
             /\ Settles(e, a, r) => Covers(v, a, r)
             /\ Covers(m, a, r) => Settles(Last(m), a, r) \/ Covers(v, a, r)
      <3> HIDE DEF a, r
      <3> QED BY <1>1, PushCovers
    <2> QED BY <1>2, <2>1
  <1>4. Tame(t, m)
    BY <1>1, TameTurn
  <1>5. Tame(t, n)
    <2> HIDE DEF m
    <2> QED BY <1>1, <1>2, <1>4, TamePush
  <1>6. stk'[t] = n /\ acc' = acc
    BY OnlyStack DEF Quietly
  <1>7. Covers(n, a, r) => Tended'
    BY <1>6 DEF Tended
  <1>8. reg'[r].timer \/ reg'[r].has_tsx => Tended'
    BY <1>6 DEF Tended
  <1>9. Calling(n) => Calling(s)
    <2>1. m[k] = f /\ k \in Nat \ {0} /\ \A i \in 1..(k - 1) : m[i] = s[i]
      BY <1>1, TurnedFacts
    <2> HIDE DEF m, s, k, n
    <2>2. CASE k = 1
      BY <1>3, <2>1, <2>2 DEF Calling
    <2>3. CASE k # 1
      BY <1>1, <1>3, <2>1, <2>3 DEF Calling
    <2> QED BY <2>2, <2>3
  <1>10. ~Telling(n, r)
    BY <1>3 DEF Telling
  <1>11. Failing(f, r) => Covers(n, a, r)
    BY <1>2, <1>3 DEF Failing, Settles
  <1>12. Covers(s, a, r) => \/ Keen(reg[r], Last(s), a, r) \/ Covers(n, a, r)
                            \/ Settles(f, a, r) /\ Covers(m, a, r)
    BY <1>2, <1>3 DEF Keen
  <1>13. Covers(s, a, r) => Keen(reg[r], Last(s), a, r) \/ Covers(n, a, r)
    <2>1. ASSUME NEW i \in 1..k, Failing(s[i], r), ~Failing(Last(s), r)
          PROVE  Covers(n, a, r)
      <3>1. /\ k \in Nat \ {0} /\ Last(s) = s[k] /\ Len(m) = k
            /\ \A j \in 1..(k - 1) : m[j] = s[j]
        <4>1. Last(s) = s[k] /\ k \in Nat \ {0}
          BY <1>1, FrontFacts
        <4>2. Len(m) = k /\ \A j \in 1..(k - 1) : m[j] = s[j]
          BY <1>1, TurnedFacts
        <4> QED BY <4>1, <4>2
      <3>2. Len(n) = k + 1 /\ \A j \in 1..k : n[j] = m[j]
        <4> HIDE DEF m, s
        <4>1. Len(n) = Len(m) + 1 /\ \A j \in 1..Len(m) : n[j] = m[j]
          BY <1>1, AppendFacts
        <4> QED BY <3>1, <4>1
      <3> HIDE DEF k, s, m, n
      <3>3. i \in 1..(k - 1) /\ i \in 1..Len(n)
        BY <2>1, <3>1, <3>2
      <3>4. Failing(n[i], r)
        BY <2>1, <3>1, <3>2, <3>3
      <3> QED BY <1>3, <3>3, <3>4 DEF Covers
    <2>2. s[1].fn = "del" => Covers(n, a, r)
      <3> HIDE DEF m, n, s
      <3> QED BY <1>2, <1>3 DEF Covers
    <2> HIDE DEF m, n
    <2> QED BY <2>1, <2>2 DEF Covers, Keen
  <1>14. r # None => (Keen(reg[r], Last(s), a, r) => Tended')
    BY <1>3, <1>7, <1>8, <1>11
  <1>15. r # None =>
            /\ reg[r].timer \/ reg[r].has_tsx => Tended'
            /\ Covers(s, a, r) => Tended'
    BY <1>7, <1>13, <1>14 DEF Keen
  <1>16. Quietly(t, n)
    OBVIOUS
  <1> HIDE DEF s, r, n, a
  <1> QED BY <1>5, <1>9, <1>10, <1>15, <1>16, QuietNext DEF s, r, a

\* The top is gone.
LEMMA PopQuiet ==
    ASSUME Inv, Inv', TInv, NEW t \in Thread, stk[t] # <<>>,
           Quietly(t, Front(stk[t])), Last(stk[t]).fn # "del",
           acc.regc # None =>
              LET r == acc.regc
              IN Keen(reg[r], Last(stk[t]), acc.active, r) =>
                    reg'[r].timer \/ reg'[r].has_tsx
    PROVE  TInv'
  <1> DEFINE s == stk[t]
             n == Front(s)
             r == acc.regc
             a == acc.active
             k == Len(s)
  <1>1. /\ s \in Seq(FrameType) /\ Tame(t, s) /\ s # <<>> /\ Stack(s)
        /\ Last(s).fn # "del"
    BY InvOf DEF TInv
  <1>2. /\ n \in Seq(FrameType)
        /\ n # <<>> => n[1] = s[1] /\ Last(n) = s[k - 1] /\ k >= 2
        /\ Covers(s, a, r) => \/ Settles(Last(s), a, r)
                              \/ Failing(Last(s), r) \/ Covers(n, a, r)
    <2>1. LET m == Front(s)
          IN /\ m \in Seq(FrameType)
             /\ m # <<>> => m[1] = s[1] /\ Last(m) = s[Len(s) - 1] /\ Len(s) >= 2
             /\ Covers(s, a, r) => \/ Settles(Last(s), a, r)
                                   \/ Failing(Last(s), r) \/ Covers(m, a, r)
             /\ s[1].fn = "del" => m # <<>>
      <3> HIDE DEF a, r, s
      <3> QED BY <1>1, PopCovers
    <2> QED BY <2>1
  <1>3. Tame(t, n)
    BY <1>1, TamePop
  <1>4. stk'[t] = n /\ acc' = acc
    BY OnlyStack DEF Quietly
  <1>5. Covers(n, a, r) => Tended'
    BY <1>4 DEF Tended
  <1>6. reg'[r].timer \/ reg'[r].has_tsx => Tended'
    BY <1>4 DEF Tended
  <1>7. Calling(n) => Calling(s)
    BY <1>1, <1>2 DEF Calling
  <1>8. ~Telling(n, r)
    <2>1. n # <<>> => Waits(s[k - 1])
      <3> HIDE DEF n
      <3>1. k \in Nat /\ \A i \in 1..k : i < k => Waits(s[i])
        BY <1>1 DEF Stack
      <3> HIDE DEF s, k
      <3> QED BY <1>2, <3>1
    <2> HIDE DEF n, s, k
    <2> QED BY <1>2, <2>1 DEF Telling, Waits
  <1>9. r # None => (Keen(reg[r], Last(s), a, r) => Tended')
    BY <1>6
  <1>10. r # None =>
            /\ reg[r].timer \/ reg[r].has_tsx => Tended'
            /\ Covers(s, a, r) => Tended'
    BY <1>2, <1>5, <1>9 DEF Keen
  <1>11. Quietly(t, n)
    OBVIOUS
  <1> HIDE DEF s, r, n, a
  <1> QED BY <1>3, <1>7, <1>8, <1>10, <1>11, QuietNext DEF s, r, a

\* A function returns.
LEMMA ReturnQuiet ==
    ASSUME Inv, Inv', TInv, NEW t \in Thread, stk[t] # <<>>,
           NEW st \in {"ok", "error", "EBUSY"},
           Front(stk[t]) # <<>>, Last(stk[t]).fn # "del",
           Last(Front(stk[t])).fn # "send", Last(Front(stk[t])).pc = "sent",
           Quietly(t, Turned(Front(stk[t]), WithStatus(Last(Front(stk[t])), st))),
           acc.regc # None =>
              LET r == acc.regc
              IN Keen(reg[r], Last(stk[t]), acc.active, r) =>
                    \/ reg'[r].timer \/ reg'[r].has_tsx
                    \/ Settles(WithStatus(Last(Front(stk[t])), st), acc.active, r)
                    \/ stk[t][1].fn = "del"
    PROVE  TInv'
  <1> DEFINE s == stk[t]
             v == Front(s)
             f == WithStatus(Last(v), st)
             n == Turned(v, f)
             r == acc.regc
             a == acc.active
  <1>1. /\ s \in Seq(FrameType) /\ Tame(t, s) /\ s # <<>> /\ Last(s).fn # "del"
        /\ v # <<>> /\ v \in Seq(FrameType)
    BY InvOf, FrontFacts DEF TInv
  <1>2. Last(v) \in FrameType
    <2> HIDE DEF v
    <2> QED BY <1>1, FrontFacts
  <1>3. /\ f \in FrameType /\ f.pc = "sent" /\ f.fn = Last(v).fn /\ f.fn # "send"
    <2>1. Last(v).fn # "send" /\ Last(v).pc = "sent"
      OBVIOUS
    <2> HIDE DEF v
    <2> QED BY <1>2, <2>1, WithStatusIs
  <1> HIDE DEF f
  <1>4. /\ n # <<>> /\ Last(n) = f /\ n[1].fn = s[1].fn
        /\ Settles(f, a, r) => Covers(n, a, r)
        /\ Covers(s, a, r) => \/ Settles(Last(s), a, r)
                              \/ Failing(Last(s), r) \/ Covers(n, a, r)
    <2>1. LET m == Turned(Front(s), f)
          IN /\ m # <<>> /\ Last(m) = f /\ m[1].fn = s[1].fn
             /\ Settles(f, a, r) => Covers(m, a, r)
             /\ Covers(s, a, r) => \/ Settles(Last(s), a, r)
                                   \/ Failing(Last(s), r) \/ Covers(m, a, r)
      <3>1. Front(s) # <<>> /\ f.fn = Last(Front(s)).fn
        BY <1>1, <1>3
      <3> HIDE DEF a, r, s, v, n
      <3> QED BY <1>1, <1>3, <3>1, ReturnCovers
    <2> QED BY <2>1
  <1>5. Tame(t, n)
    <2>1. Tame(t, v)
      BY <1>1, TamePop
    <2> HIDE DEF v
    <2> QED BY <1>1, <1>3, <2>1, TameTurn
  <1>6. stk'[t] = n /\ acc' = acc
    BY OnlyStack DEF Quietly, f
  <1>7. Covers(n, a, r) => Tended'
    BY <1>6 DEF Tended
  <1>8. reg'[r].timer \/ reg'[r].has_tsx => Tended'
    BY <1>6 DEF Tended
  <1>9. Calling(n) => Calling(s)
    <2> DEFINE k == Len(s)
    <2>1. /\ Len(v) = k - 1 /\ \A i \in 1..(k - 1) : v[i] = s[i]
          /\ Len(n) = Len(v) /\ Len(v) \in Nat \ {0}
      <3>1. Len(v) = k - 1 /\ \A i \in 1..(k - 1) : v[i] = s[i]
        BY <1>1, FrontFacts
      <3>2. Len(n) = Len(v) /\ Len(v) \in Nat \ {0}
        <4> HIDE DEF v
        <4> QED BY <1>1, <1>3, TurnedFacts
      <3> QED BY <3>1, <3>2
    <2>2. /\ n[Len(v)] = f /\ \A i \in 1..(Len(v) - 1) : n[i] = v[i]
          /\ Last(v) = v[Len(v)]
      <3> HIDE DEF v
      <3>1. Last(v) = v[Len(v)]
        BY DEF Last
      <3> QED BY <1>1, <1>3, <3>1, TurnedFacts
    <2>3. Last(v).pc = "sent"
      OBVIOUS
    <2> HIDE DEF v, n, s, k
    <2>4. CASE k = 2
      <3>1. Len(v) = 1 /\ v[1] = s[1]
        BY <2>1, <2>4
      <3>2. n[1] = f /\ Last(v) = v[1]
        BY <2>2, <3>1
      <3> QED BY <1>1, <1>3, <2>3, <3>1, <3>2 DEF Calling
    <2>5. CASE k # 2
      <3>1. 1 \in 1..(k - 1) /\ 1 \in 1..(Len(v) - 1)
        BY <1>1, <2>1, <2>5 DEF k
      <3>2. v[1] = s[1] /\ n[1] = v[1]
        BY <2>1, <2>2, <3>1
      <3> QED BY <1>1, <3>2 DEF Calling
    <2> QED BY <2>4, <2>5
  <1>10. ~Telling(n, r)
    BY <1>3, <1>4 DEF Telling
  <1>11. r # None => (Keen(reg[r], Last(s), a, r) => Tended')
    <2>1. r # None =>
             (Keen(reg[r], Last(s), a, r) =>
                 \/ reg'[r].timer \/ reg'[r].has_tsx
                 \/ Settles(f, a, r) \/ s[1].fn = "del")
      BY DEF f
    <2>2. s[1].fn = "del" => Covers(n, a, r)
      BY <1>4 DEF Covers
    <2> QED BY <1>4, <1>7, <1>8, <2>1, <2>2
  <1>12. r # None =>
            /\ reg[r].timer \/ reg[r].has_tsx => Tended'
            /\ Covers(s, a, r) => Tended'
    BY <1>4, <1>7, <1>11 DEF Keen
  <1>13. Quietly(t, n)
    BY DEF f
  <1> HIDE DEF s, r, n, a
  <1> QED BY <1>5, <1>9, <1>10, <1>12, <1>13, QuietNext DEF s, r, a

-----------------------------------------------------------------------------
(* The steps, one by one: those of a request that is sent.                 *)

\* The moves of a thread, in terms of its stack.
LEMMA TopMade ==
    ASSUME NEW g, NEW a, NEW k, NEW m, NEW p, NEW t, NEW s, t \in DOMAIN k
    PROVE  Made(g, a, Stacked(k, t, s), m, p).stk[t] = s
  BY StackedIs, MadeFields

\* The function goes on to pc.
LEMMA GotoMade ==
    ASSUME NEW g, NEW a, NEW k, NEW m, NEW p, NEW t, NEW s, NEW pc, t \in DOMAIN k
    PROVE  Goto(Made(g, a, Stacked(k, t, s), m, p), t, pc)
              = Made(g, a, Stacked(k, t, Turned(s, WithPc(Last(s), pc))), m, p)
  BY TopMade, PutMade DEF Goto, WithPc

DecFrame(fn, r) == Frame(fn, "dec", r, FALSE)

\* The frame that gives the reference back.
LEMMA DecIs ==
    ASSUME NEW fn, fn \in Fns, NEW r, r \in Regc
    PROVE  LET e == DecFrame(fn, r)
           IN e \in FrameType /\ e.pc = "dec" /\ e.fn = fn /\ e.r = r
  <1>1. LET e == Frame(fn, "dec", r, FALSE)
        IN e \in FrameType /\ e.pc = "dec" /\ e.fn = fn /\ e.r = r
    BY DecFrameIs
  <1> QED BY <1>1 DEF DecFrame

\* The callback goes on to give its reference back.
LEMMA DoneMade ==
    ASSUME NEW g, NEW a, NEW k, NEW m, NEW p, NEW t, NEW s, t \in DOMAIN k
    PROVE  Done(Made(g, a, Stacked(k, t, s), m, p), t)
              = Made(g, a, Stacked(k, t,
                     Turned(s, DecFrame(Last(s).fn, Last(s).r))), m, p)
  <1> DEFINE w == Made(g, a, Stacked(k, t, s), m, p)
             f == DecFrame(Last(s).fn, Last(s).r)
  <1>1. w.stk[t] = s
    BY TopMade
  <1>2. Done(w, t) = Put(w, t, f)
    <2> HIDE DEF w
    <2> QED BY <1>1 DEF Done, DecFrame
  <1> HIDE DEF f
  <1>3. Put(w, t, f) = Made(g, a, Stacked(k, t, Turned(s, f)), m, p)
    BY PutMade
  <1> QED BY <1>2, <1>3 DEF f

\* The function returns st to its caller.
LEMMA ReturnMade ==
    ASSUME NEW g, NEW a, NEW k, NEW m, NEW p, NEW t, NEW s, NEW st, t \in DOMAIN k
    PROVE  Return(Made(g, a, Stacked(k, t, s), m, p), t, st)
              = Made(g, a, Stacked(k, t,
                     Turned(Front(s), WithStatus(Last(Front(s)), st))), m, p)
  BY TopMade, PopMade, PutMade DEF Return, WithStatus

\* The callback goes on to tell the account.
LEMMA ReportMade ==
    ASSUME NEW g, NEW a, NEW k, NEW m, NEW p, NEW t, NEW s, t \in DOMAIN k,
           NEW st, NEW code, NEW exp, NEW b
    PROVE  Report(Made(g, a, Stacked(k, t, s), m, p), t, st, code, exp, b)
              = Made(g, a, Stacked(k, t,
                     Turned(s, Reporting(Last(s), st, code, exp, b))), m, p)
  <1> DEFINE w == Made(g, a, Stacked(k, t, s), m, p)
             f == Reporting(Last(s), st, code, exp, b)
  <1>1. w.stk[t] = s
    BY TopMade
  <1>2. Report(w, t, st, code, exp, b) = Put(w, t, f)
    <2> HIDE DEF w
    <2> QED BY <1>1 DEF Report, Reporting
  <1> HIDE DEF f
  <1>3. Put(w, t, f) = Made(g, a, Stacked(k, t, Turned(s, f)), m, p)
    BY PutMade
  <1> QED BY <1>2, <1>3 DEF f

\* The callback sends the request again.
LEMMA ResendMade ==
    ASSUME NEW g, NEW a, NEW k, NEW m, NEW p, NEW t, NEW s, NEW b, t \in DOMAIN k
    PROVE  Resend(Made(g, a, Stacked(k, t, s), m, p), t, b)
              = Made(g, a, Stacked(k, t,
                     Append(Turned(s, WithPc(Last(s), "sent")),
                            Frame("send", "start", Last(s).r, b))), m, p)
  BY TopMade, GotoMade, PushMade DEF Resend

\* The variables become those of a world where t's stack is n.
LEMMA BecameOf ==
    ASSUME NEW g, NEW a, NEW t, NEW n, NEW m, NEW p,
           Become(Made(g, a, Stacked(stk, t, n), m, p))
    PROVE  reg' = g /\ acc' = a /\ OnlyOf(t, n)
  BY MadeFields DEF OnlyOf

\* One session was written.
LEMMA RegNext ==
    ASSUME Inv, NEW q \in Regc, NEW z, NEW x \in Regc, reg' = Swap(reg, q, z)
    PROVE  reg'[x] = IF x = q THEN z ELSE reg[x]
  BY InvOf DEF Swap

\* A thread that goes on.
LEMMA Here ==
    ASSUME Inv, NEW t \in Thread, NEW fn, NEW pc, At(t, fn, pc)
    PROVE  LET s == stk[t]
               g == Last(s)
           IN /\ s # <<>> /\ s \in Seq(FrameType) /\ Len(s) \in 1..4 /\ Stack(s)
              /\ Top(t) = g /\ g.fn = fn /\ g.pc = pc /\ g \in FrameType
              /\ Fits(g, Len(s), Under(s, Len(s)))
              /\ fn \in {"send", "tsx", "refresh"} => g.r \in Regc
  <1>1. TopIs(World, t, fn, {pc}) /\ Good(World, pjsua)
    BY AtTop DEF Inv
  <1>2. LET s == World.stk[t]
            g == Last(s)
        IN /\ s # <<>> /\ g \in FrameType /\ Len(s) \in 1..4 /\ g.fn = fn
           /\ g.pc \in {pc} /\ Fits(g, Len(s), Under(s, Len(s)))
           /\ fn \in {"send", "tsx", "refresh"} => g.r \in Regc
    BY <1>1, TopOf
  <1>3. World.stk = stk
    BY WorldIs
  <1>4. stk[t] \in Seq(FrameType) /\ Stack(stk[t])
    BY InvOf
  <1> QED BY <1>2, <1>3, <1>4 DEF Top

\* A send at the top, and its caller.
LEMMA HereSend ==
    ASSUME Inv, NEW t \in Thread, NEW pc, At(t, "send", pc)
    PROVE  LET s == stk[t]
               b == Last(Front(s))
           IN /\ Front(s) # <<>> /\ b.fn \in {"set", "tsx", "refresh"}
              /\ b.pc = "sent" /\ b.r = Last(s).r /\ b \in FrameType
  <1>1. TopIs(World, t, "send", {pc}) /\ Good(World, pjsua) /\ World.stk = stk
    BY AtTop, WorldIs DEF Inv
  <1>2. LET s == stk[t]
            b == Last(Front(s))
        IN /\ Front(s) # <<>> /\ b.fn \in {"set", "tsx", "refresh"}
           /\ b.pc = "sent" /\ b.r = Last(s).r
    BY <1>1, UnderSend
  <1>3. Last(Front(stk[t])) \in FrameType
    <2>1. Front(stk[t]) \in Seq(FrameType)
      BY Here, FrontFacts
    <2> QED BY <1>2, <2>1, FrontFacts
  <1> QED BY <1>2, <1>3

\* A send takes has_tsx, or is refused because another request has it.
LEMMA SendStartTends ==
    ASSUME Inv, Inv', TInv, NEW t \in Thread, SendStart(t)
    PROVE  TInv'
  <1> DEFINE s == stk[t]
             g == Last(s)
             b == Last(Front(s))
             q == g.r
             z == [AddRef(reg[q]) EXCEPT
                      !.has_tsx = TRUE, !.cseq = <<t, Len(s)>>,
                      !.op = IF g.unreg THEN "UNREGISTERING" ELSE "REGISTERING"]
             r == acc.regc
             a == acc.active
  <1>1. At(t, "send", "start")
    BY DEF SendStart
  <1>2. /\ s # <<>> /\ Top(t) = g /\ g.fn = "send" /\ g.pc = "start"
        /\ g \in FrameType /\ q \in Regc /\ s \in Seq(FrameType)
    BY <1>1, Here
  <1>3. /\ Front(s) # <<>> /\ b.fn \in {"set", "tsx", "refresh"}
        /\ b.pc = "sent" /\ b.r = q /\ b \in FrameType
    BY <1>1, HereSend
  <1>4. reg[q] \in SessionType /\ t \in DOMAIN stk
    BY <1>2, InvOf
  <1>5. World = Made(reg, acc, Stacked(stk, t, s), net, pjsua)
    BY WorldMade
  <1>6. Become(IF reg[q].has_tsx THEN Return(World, t, "EBUSY")
               ELSE Goto(WithReg(World, q, z), t, "out"))
    BY <1>2 DEF SendStart
  <1> HIDE DEF g, b, q, z, s
  <1>7. r # None => r \in Regc
    BY InvOf
  <1>8. CASE reg[q].has_tsx
    <2> DEFINE f == WithStatus(b, "EBUSY")
    <2>1. Return(World, t, "EBUSY")
             = Made(reg, acc, Stacked(stk, t, Turned(Front(s), f)), net, pjsua)
      BY <1>4, <1>5, ReturnMade DEF b
    <2>2. reg' = reg /\ acc' = acc /\ OnlyOf(t, Turned(Front(s), f))
      <3> HIDE DEF f
      <3>1. Become(Made(reg, acc, Stacked(stk, t, Turned(Front(s), f)), net, pjsua))
        BY <1>6, <1>8, <2>1
      <3> QED BY <3>1, BecameOf
    <2>3. ASSUME r # None, Keen(reg[r], g, a, r)
          PROVE  reg'[r].timer \/ reg'[r].has_tsx
      BY <1>2, <1>8, <2>2, <2>3 DEF Keen, Settles, Failing, q
    <2>4. Quietly(t, Turned(Front(s), f))
      BY <2>2 DEF Quietly
    <2> QED BY <1>2, <1>3, <2>3, <2>4, ReturnQuiet DEF s, g, b
  <1>9. CASE ~reg[q].has_tsx
    <2> DEFINE f == WithPc(g, "out")
               h == Swap(reg, q, z)
    <2>1. Goto(WithReg(World, q, z), t, "out")
             = Made(h, acc, Stacked(stk, t, Turned(s, f)), net, pjsua)
      <3>1. WithReg(World, q, z) = Made(h, acc, Stacked(stk, t, s), net, pjsua)
        BY <1>5, MadeReg
      <3> HIDE DEF h
      <3> QED BY <1>4, <3>1, GotoMade DEF g
    <2>2. reg' = h /\ acc' = acc /\ OnlyOf(t, Turned(s, f))
      <3> HIDE DEF f, h
      <3>1. Become(Made(h, acc, Stacked(stk, t, Turned(s, f)), net, pjsua))
        BY <1>6, <1>9, <2>1
      <3> QED BY <3>1, BecameOf
    <2>3. z.has_tsx
      BY <1>4 DEF z, AddRef, SessionType
    <2>4. f \in FrameType /\ f.fn = "send"
      BY <1>2, WithPcIs DEF Pcs
    <2>5. ASSUME r # None, Keen(reg[r], g, a, r)
          PROVE  reg'[r].timer \/ reg'[r].has_tsx
      <3>1. reg'[r] = IF r = q THEN z ELSE reg[r]
        BY <1>2, <1>7, <2>2, <2>5, RegNext
      <3> QED BY <1>2, <2>3, <2>5, <3>1 DEF Keen, Settles, Failing, q
    <2>6. Quietly(t, Turned(s, f))
      BY <2>2 DEF Quietly
    <2> HIDE DEF f, h
    <2>7. r # None => (Keen(reg[r], g, a, r) \/ WillTell(f, r) => Keen(reg'[r], f, a, r))
      BY <2>4, <2>5 DEF Keen, WillTell
    <2> QED BY <1>2, <2>4, <2>6, <2>7, TurnQuiet DEF s, g
  <1> QED BY <1>8, <1>9

\* The frame at the top changes, and nothing else does but requests.
LEMMA TurnMade ==
    ASSUME Inv, Inv', TInv, NEW t \in Thread, stk[t] # <<>>, NEW f, NEW h,
           NEW m, NEW p, f \in FrameType, f.fn = Last(stk[t]).fn,
           Become(Made(h, acc, Stacked(stk, t, Turned(stk[t], f)), m, p)),
           f.fn = "tsx" /\ f.pc = "call" => Len(stk[t]) = 1 \/ f.code = 503,
           f.fn = "set" => Last(stk[t]).pc # "begin",
           reg' = h /\ acc.regc # None =>
              LET r == acc.regc
              IN Keen(reg[r], Last(stk[t]), acc.active, r) \/ WillTell(f, r) =>
                    Keen(h[r], f, acc.active, r)
    PROVE  TInv'
  <1> DEFINE n == Turned(stk[t], f)
  <1>1. reg' = h /\ acc' = acc /\ OnlyOf(t, n)
    <2> HIDE DEF n
    <2>1. Become(Made(h, acc, Stacked(stk, t, n), m, p))
      BY DEF n
    <2> QED BY <2>1, BecameOf
  <1>2. Quietly(t, Turned(stk[t], f))
    BY <1>1 DEF Quietly
  <1> HIDE DEF n
  <1> QED BY <1>1, <1>2, TurnQuiet

\* The same, with one frame more on it.
LEMMA SendsMade ==
    ASSUME Inv, Inv', TInv, NEW t \in Thread, stk[t] # <<>>, NEW f, NEW e, NEW h,
           NEW m, NEW p, f \in FrameType, f.fn = Last(stk[t]).fn, e \in FrameType,
           Become(Made(h, acc, Stacked(stk, t, Append(Turned(stk[t], f), e)), m, p)),
           f.pc # "call", e.pc # "call", f.fn # "set",
           reg' = h /\ acc.regc # None =>
              LET r == acc.regc
              IN Keen(reg[r], Last(stk[t]), acc.active, r) =>
                    \/ h[r].timer \/ h[r].has_tsx
                    \/ Failing(f, r) \/ Settles(e, acc.active, r)
    PROVE  TInv'
  <1> DEFINE n == Append(Turned(stk[t], f), e)
  <1>1. reg' = h /\ acc' = acc /\ OnlyOf(t, n)
    <2> HIDE DEF n
    <2>1. Become(Made(h, acc, Stacked(stk, t, n), m, p))
      BY DEF n
    <2> QED BY <2>1, BecameOf
  <1>2. Quietly(t, Append(Turned(stk[t], f), e))
    BY <1>1 DEF Quietly
  <1> HIDE DEF n
  <1> QED BY <1>1, <1>2, SendsQuiet

\* A request is on its way, or it failed, and is called back or not.
LEMMA SendOutTends ==
    ASSUME Inv, Inv', TInv, NEW t \in Thread, SendOut(t)
    PROVE  TInv'
  <1> DEFINE s == stk[t]
             g == Last(s)
             q == [r |-> g.r, unreg |-> g.unreg]
             f == WithPc(g, "back")
             d == WithStatus(f, "error")
             e == TsxFrame(q, 503)
             r == acc.regc
             a == acc.active
  <1>1. At(t, "send", "out")
    BY DEF SendOut
  <1>2. /\ s # <<>> /\ Top(t) = g /\ g.fn = "send" /\ g.pc = "out"
        /\ g \in FrameType /\ g.r \in Regc /\ s \in Seq(FrameType)
    BY <1>1, Here
  <1>3. t \in DOMAIN stk
    BY InvOf
  <1>4. World = Made(reg, acc, Stacked(stk, t, s), net, pjsua)
    BY WorldMade
  <1>5. g.unreg \in BOOLEAN /\ q.r = g.r /\ q.unreg = g.unreg
    BY <1>2 DEF FrameType
  <1> HIDE DEF s, g
  <1>6. /\ f \in FrameType /\ f.fn = "send" /\ f.pc = "back"
        /\ d \in FrameType /\ d.fn = "send" /\ d.pc = "back"
        /\ d = [g EXCEPT !.pc = "back", !.status = "error"]
    <2>1. f \in FrameType /\ f.fn = "send" /\ f.pc = "back"
      BY <1>2, WithPcIs DEF Pcs
    <2>2. d = [g EXCEPT !.pc = "back", !.status = "error"]
      BY DEF WithStatus, WithPc
    <2> HIDE DEF f
    <2> QED BY <2>1, <2>2, WithStatusIs
  <1>7. e \in FrameType /\ e.fn = "tsx" /\ e.pc = "start"
    <2>1. Frame("tsx", "start", g.r, g.unreg) \in FrameType
          /\ Frame("tsx", "start", g.r, g.unreg).fn = "tsx"
          /\ Frame("tsx", "start", g.r, g.unreg).pc = "start"
      BY <1>2, <1>5, FrameIs DEF Fns, Pcs
    <2>2. e = WithCode(Frame("tsx", "start", g.r, g.unreg), 503)
      BY <1>5 DEF TsxFrame, WithCode
    <2> QED BY <2>1, <2>2, WithCodeIs
  <1> HIDE DEF f, d, e
  <1>8. ~Settles(g, a, r) /\ ~Failing(g, r) /\ ~WillTell(f, r) /\ ~WillTell(d, r)
    BY <1>2, <1>6 DEF Settles, Failing, WillTell
  <1> DEFINE m == net \cup {q}
             sd == Turned(s, d)
  <1>9. \/ Become(WithNet(Goto(World, t, "back"), m))
        \/ Become(Put(World, t, d))
        \/ Become(Push(Put(World, t, d), t, e))
    BY <1>2, <1>6 DEF SendOut, e
  <1> HIDE DEF q, m
  <1>10. CASE Become(WithNet(Goto(World, t, "back"), m))
    <2>1. Goto(World, t, "back")
             = Made(reg, acc, Stacked(stk, t, Turned(s, f)), net, pjsua)
      BY <1>3, <1>4, GotoMade DEF f, g
    <2>2. Become(Made(reg, acc, Stacked(stk, t, Turned(s, f)), m, pjsua))
      BY <1>10, <2>1, MadeWith
    <2>3. Keen(reg[r], g, a, r) \/ WillTell(f, r) => Keen(reg[r], f, a, r)
      BY <1>8 DEF Keen
    <2> QED BY <1>2, <1>6, <2>2, <2>3, TurnMade DEF s, g
  <1>11. Put(World, t, d) = Made(reg, acc, Stacked(stk, t, Turned(s, d)), net, pjsua)
    BY <1>3, <1>4, PutMade
  <1>12. CASE Become(Put(World, t, d))
    <2>1. Keen(reg[r], g, a, r) \/ WillTell(d, r) => Keen(reg[r], d, a, r)
      BY <1>8 DEF Keen
    <2>2. Become(Made(reg, acc, Stacked(stk, t, Turned(s, d)), net, pjsua))
      BY <1>11, <1>12
    <2> QED BY <1>2, <1>6, <2>1, <2>2, TurnMade DEF s, g
  <1>13. CASE Become(Push(Put(World, t, d), t, e))
    <2>1. Push(Put(World, t, d), t, e)
             = Made(reg, acc, Stacked(stk, t, Append(sd, e)), net, pjsua)
      <3>1. Put(World, t, d) = Made(reg, acc, Stacked(stk, t, sd), net, pjsua)
        BY <1>11
      <3> HIDE DEF sd
      <3> QED BY <1>3, <3>1, PushMade
    <2>2. Become(Made(reg, acc, Stacked(stk, t, Append(Turned(s, d), e)), net, pjsua))
      BY <1>13, <2>1
    <2>3. Keen(reg[r], g, a, r) => reg[r].timer \/ reg[r].has_tsx
      BY <1>8 DEF Keen
    <2> QED BY <1>2, <1>6, <1>7, <2>2, <2>3, SendsMade DEF s, g
  <1> QED BY <1>9, <1>10, <1>12, <1>13

\* A send gives has_tsx back only where its caller is told that it failed.
LEMMA SendBackTends ==
    ASSUME Inv, Inv', TInv, NEW t \in Thread, SendBack(t)
    PROVE  TInv'
  <1> DEFINE s == stk[t]
             g == Last(s)
             b == Last(Front(s))
             q == g.r
             x == reg[q]
             mine == x.cseq = <<t, Len(s)>>
             y == IF mine THEN [x EXCEPT !.cseq = <<>>] ELSE x
             e == IF g.status = "ok" THEN [y EXCEPT !.transport = TRUE]
                  ELSE SendFailure(y, mine)
             z == DecRef(e)
             f == WithStatus(b, g.status)
             h == Swap(reg, q, z)
             r == acc.regc
             a == acc.active
             n == Turned(Front(s), f)
  <1>1. At(t, "send", "back")
    BY DEF SendBack
  <1>2. /\ s # <<>> /\ Top(t) = g /\ g.fn = "send" /\ g.pc = "back"
        /\ g \in FrameType /\ q \in Regc /\ s \in Seq(FrameType)
        /\ Fits(g, Len(s), Under(s, Len(s)))
    BY <1>1, Here
  <1>3. /\ Front(s) # <<>> /\ b.fn \in {"set", "tsx", "refresh"}
        /\ b.pc = "sent" /\ b.r = q /\ b \in FrameType
    BY <1>1, HereSend
  <1>4. x \in SessionType /\ t \in DOMAIN stk
    BY <1>2, InvOf
  <1>5. World = Made(reg, acc, Stacked(stk, t, s), net, pjsua)
    BY WorldMade
  <1>6. Become(Return(WithReg(World, q, z), t, g.status))
    BY <1>2 DEF SendBack
  <1> HIDE DEF s, g, b
  <1>7. g.status \in {"ok", "error"}
    BY <1>2 DEF Fits
  <1>8. /\ f.fn = b.fn /\ f.pc = "sent" /\ f.r = q /\ f.status = g.status
        /\ f \in FrameType
    BY <1>3, <1>7, WithStatusIs
  <1>9. r # None => r \in Regc /\ ~reg[r].delete_flag
    BY InvOf
  <1>10. /\ e.timer = x.timer /\ e.delete_flag = x.delete_flag
         /\ g.status = "ok" => e.has_tsx = x.has_tsx
    <2>1. /\ y \in SessionType /\ y.timer = x.timer
          /\ y.delete_flag = x.delete_flag /\ y.has_tsx = x.has_tsx
      <3> HIDE DEF x
      <3> QED BY <1>4 DEF SessionType
    <2> HIDE DEF y, mine
    <2> QED BY <2>1 DEF SendFailure, SessionType
  <1> HIDE DEF e
  <1>11. ~e.delete_flag => z.timer = e.timer /\ z.has_tsx = e.has_tsx
    BY DEF DecRef
  <1> HIDE DEF z
  <1>12. Return(WithReg(World, q, z), t, g.status)
            = Made(h, acc, Stacked(stk, t, n), net, pjsua)
    <2>1. WithReg(World, q, z) = Made(h, acc, Stacked(stk, t, s), net, pjsua)
      BY <1>5, MadeReg
    <2> HIDE DEF h
    <2> QED BY <1>4, <2>1, ReturnMade DEF b
  <1>13. reg' = h /\ acc' = acc /\ OnlyOf(t, n)
    <2> HIDE DEF n, h
    <2>1. Become(Made(h, acc, Stacked(stk, t, n), net, pjsua))
      BY <1>6, <1>12
    <2> QED BY <2>1, BecameOf
  <1> HIDE DEF f
  <1>14. ASSUME r # None, Keen(reg[r], g, a, r)
         PROVE  reg'[r].timer \/ reg'[r].has_tsx \/ Settles(f, a, r)
    <2>1. reg'[r] = IF r = q THEN z ELSE reg[r]
      BY <1>2, <1>9, <1>13, <1>14, RegNext
    <2>2. CASE r # q
      BY <1>2, <1>14, <2>1, <2>2 DEF Keen, Settles, Failing, q
    <2>3. CASE r = q /\ g.status = "error"
      BY <1>3, <1>8, <2>3 DEF Settles
    <2>4. CASE r = q /\ g.status = "ok"
      <3>1. reg'[r].timer = reg[r].timer /\ reg'[r].has_tsx = reg[r].has_tsx
        BY <1>9, <1>10, <1>11, <1>14, <2>1, <2>4
      <3> QED BY <1>2, <1>14, <2>4, <3>1 DEF Keen, Settles, Failing
    <2> QED BY <1>7, <2>2, <2>3, <2>4
  <1>15. Quietly(t, Turned(Front(s), f))
    BY <1>13 DEF Quietly
  <1> HIDE DEF h, n
  <1> QED BY <1>2, <1>3, <1>7, <1>14, <1>15, ReturnQuiet DEF s, g, b, f

-----------------------------------------------------------------------------
(* The steps of the transaction's callback.                                *)

\* Two frames at the top, one after the other.
LEMMA TurnTwice ==
    ASSUME NEW s, NEW e, NEW f, s \in Seq(FrameType), s # <<>>, e \in FrameType
    PROVE  Turned(Turned(s, e), f) = Turned(s, f) /\ Last(Turned(s, e)) = e
  BY TurnedFacts DEF Turned

\* What the frame that reports says.
LEMMA ReportSays ==
    ASSUME NEW f, NEW st, NEW code, NEW exp, NEW b, f \in FrameType
    PROVE  LET e == Reporting(f, st, code, exp, b)
           IN e.code = code /\ e.status = st /\ (e.exp <=> exp)
  <1>1. Reporting(f, st, code, exp, b).code = code
    BY DEF Reporting, FrameType
  <1>2. Reporting(f, st, code, exp, b).status = st
    BY DEF Reporting, FrameType
  <1>3. Reporting(f, st, code, exp, b).exp = exp
    BY DEF Reporting, FrameType
  <1> QED BY <1>1, <1>2, <1>3

\* What the timer is after each change.
LEMMA OpTimer ==
    ASSUME NEW z, z \in SessionType
    PROVE  /\ WithOp(z).timer = z.timer /\ WithOp(z).delete_flag = z.delete_flag
           /\ ScheduleRegistration(z).timer
  <1>1. WithOp(z).timer = z.timer /\ WithOp(z).delete_flag = z.delete_flag
    BY DEF WithOp, SessionType
  <1>2. ScheduleRegistration(z).timer
    BY DEF ScheduleRegistration, SessionType
  <1> QED BY <1>1, <1>2

\* The cases of Handle.
HandleLeads(w, t, v, g, x, u, won, no) ==
    \/ g.code = 401 /\ v = Resend(Noted(w, t, x, u), t, g.unreg)
    \/ x.delete_flag /\ v = Done(Noted(w, t, x, u), t)
    \/ g.code = 401 /\ v = Report(Noted(w, t, x, u), t, "error", 401, no, u)
    \/ g.code = 423 /\ v = Report(Noted(w, t, x, u), t, "ok", 423, no, no)
    \/ g.code = 423 /\ v = Resend(Noted(w, t, CancelTimer(WithLong(x)), no), t, no)
    \/ v = Report(Noted(w, t, IF won THEN ScheduleRegistration(x) ELSE x, u), t,
                  "ok", g.code, won, u)

\* What the response leads to is one of them.
LEMMA HandleCases ==
    ASSUME NEW w, NEW t, NEW v, v \in Handle(w, t), NEW g, NEW x,
           g = Last(w.stk[t]), x = w.reg[g.r]
    PROVE  \E u, won, no \in BOOLEAN : ~no /\ HandleLeads(w, t, v, g, x, u, won, no)
  <1> DEFINE f == Last(w.stk[t])
             s == w.reg[f.r]
             u == s.op = "UNREGISTERING"
             won == f.code = 200 /\ ~u
             no == FALSE
             y == CancelTimer(WithLong(s))
             z == IF won THEN ScheduleRegistration(s) ELSE s
  <1>1. Handle(w, t) =
           CASE f.code = 401 ->
                  {Resend(Noted(w, t, s, u), t, f.unreg)} \cup
                  {IF s.delete_flag THEN Done(Noted(w, t, s, u), t)
                   ELSE Report(Noted(w, t, s, u), t, "error", 401, no, u)}
             [] f.code # 401 /\ s.delete_flag -> {Done(Noted(w, t, s, u), t)}
             [] f.code = 423 /\ ~s.delete_flag /\ s.op = "REGISTERING" ->
                  {IF s.long THEN Report(Noted(w, t, s, u), t, "ok", 423, no, no)
                   ELSE Resend(Noted(w, t, y, no), t, no)}
             [] OTHER -> {Report(Noted(w, t, z, u), t, "ok", f.code, won, u)}
    BY DEF Handle, Noted, WithOp, WithUnreg, WithLong
  <1>2. /\ f = g /\ s = x
        /\ y = CancelTimer(WithLong(s))
        /\ z = IF won THEN ScheduleRegistration(s) ELSE s
    OBVIOUS
  <1>3. u \in BOOLEAN /\ won \in BOOLEAN /\ no \in BOOLEAN /\ ~no
    OBVIOUS
  <1> HIDE DEF f, s, u, won, no, y, z
  <1>4. HandleLeads(w, t, v, f, s, u, won, no)
    <2>1. CASE f.code = 401
      <3>1. \/ v = Resend(Noted(w, t, s, u), t, f.unreg)
            \/ s.delete_flag /\ v = Done(Noted(w, t, s, u), t)
            \/ v = Report(Noted(w, t, s, u), t, "error", 401, no, u)
        BY <1>1, <2>1
      <3> QED BY <2>1, <3>1 DEF HandleLeads
    <2>2. CASE f.code # 401 /\ s.delete_flag
      <3>1. v = Done(Noted(w, t, s, u), t)
        BY <1>1, <2>2
      <3> QED BY <2>2, <3>1 DEF HandleLeads
    <2>3. CASE f.code = 423 /\ ~s.delete_flag /\ s.op = "REGISTERING"
      <3>1. \/ v = Report(Noted(w, t, s, u), t, "ok", 423, no, no)
            \/ v = Resend(Noted(w, t, y, no), t, no)
        BY <1>1, <2>3
      <3> QED BY <1>2, <2>3, <3>1 DEF HandleLeads
    <2>4. CASE /\ f.code # 401 /\ ~s.delete_flag
               /\ ~(f.code = 423 /\ s.op = "REGISTERING")
      <3>1. v = Report(Noted(w, t, z, u), t, "ok", f.code, won, u)
        BY <1>1, <2>4
      <3> QED BY <1>2, <3>1 DEF HandleLeads
    <2> QED BY <2>1, <2>2, <2>3, <2>4
  <1> QED BY <1>2, <1>3, <1>4

\* What is noted, in terms of t's stack.
LEMMA NotedMade ==
    ASSUME NEW w, NEW g, NEW k, NEW m, NEW p, NEW t, NEW s, NEW z, NEW b, NEW c,
           t \in DOMAIN k, s \in Seq(FrameType), s # <<>>,
           w = Made(g, c, Stacked(k, t, s), m, p)
    PROVE  Noted(w, t, z, b)
              = Made(Swap(g, Last(s).r, WithOp(z)), c,
                     Stacked(k, t, Turned(s, WithUnreg(Last(s), b))), m, p)
  <1> DEFINE q == Last(s).r
             e == WithUnreg(Last(s), b)
             y == WithOp(z)
  <1>1. w.stk[t] = s
    BY TopMade
  <1>2. Noted(w, t, z, b) = Put(WithReg(w, q, y), t, e)
    BY <1>1 DEF Noted
  <1> HIDE DEF q, e, y
  <1>3. WithReg(w, q, y) = Made(Swap(g, q, y), c, Stacked(k, t, s), m, p)
    BY MadeReg
  <1>4. Put(WithReg(w, q, y), t, e)
           = Made(Swap(g, q, y), c, Stacked(k, t, Turned(s, e)), m, p)
    BY <1>3, PutMade
  <1> QED BY <1>2, <1>4 DEF q, e, y

\* In world n, of sessions h, t's response is noted in frame e.
Readied(t, n, h, e) ==
    /\ e \in FrameType /\ e.fn = "tsx" /\ e.r = Last(stk[t]).r
    /\ n = Made(h, acc, Stacked(stk, t, Turned(stk[t], e)), net, pjsua)

\* What t does with the response leaves sessions h, where other sessions than
\* its own are what they were.
LEMMA ReadiedIs ==
    ASSUME Inv, NEW t \in Thread, stk[t] # <<>>, NEW n, NEW h, NEW e,
           Readied(t, n, h, e)
    PROVE  LET s == stk[t]
               c == Turned(s, e)
           IN /\ Last(c) = e /\ \A j : Turned(c, j) = Turned(s, j)
              /\ s \in Seq(FrameType) /\ t \in DOMAIN stk /\ e.r = Last(s).r
              /\ n = Made(h, acc, Stacked(stk, t, c), net, pjsua)
              /\ e \in FrameType /\ e.fn = "tsx"
  <1> DEFINE s == stk[t]
             c == Turned(s, e)
  <1>1. s \in Seq(FrameType) /\ t \in DOMAIN stk /\ s # <<>>
    BY InvOf
  <1>2. /\ e \in FrameType /\ e.fn = "tsx" /\ e.r = Last(s).r
        /\ n = Made(h, acc, Stacked(stk, t, c), net, pjsua)
    BY DEF Readied
  <1> HIDE DEF s
  <1>3. Last(c) = e /\ \A j : Turned(c, j) = Turned(s, j)
    BY <1>1, <1>2, TurnTwice
  <1> QED BY <1>1, <1>2, <1>3 DEF s

\* What is reported of session r, if it is t's own, says that it is lost, or
\* its timer runs in h; if it is not, h keeps what keeps it.
Mends(t, h, r, st, code, exp) ==
    LET g == Last(stk[t])
    IN /\ r = g.r => st = "error" \/ code >= 300 \/ ~exp \/ h[r].timer
       /\ r # g.r /\ Keen(reg[r], g, acc.active, r) => h[r].timer \/ h[r].has_tsx

\* Only a failure of the send reports to a callback under it.
MayReport(t, code) == Len(stk[t]) = 1 \/ code = 503

Sayable(st, code, exp, i) ==
    /\ st \in {"ok", "error"} /\ exp \in BOOLEAN /\ i \in BOOLEAN
    /\ code \in {0, 200, 400, 401, 403, 423, 503}

\* The step of t's frame to f, with the sessions h, looks after the session.
TurnsWell(t, f, h) ==
    /\ f \in FrameType /\ f.fn = Last(stk[t]).fn
    /\ f.fn = "tsx" /\ f.pc = "call" => Len(stk[t]) = 1 \/ f.code = 503
    /\ f.fn # "set"
    /\ acc.regc # None =>
          LET r == acc.regc
          IN Keen(reg[r], Last(stk[t]), acc.active, r) \/ WillTell(f, r) =>
                Keen(h[r], f, acc.active, r)

\* And nothing but the sessions and the stack of t changes with it.
LEMMA TurnWell ==
    ASSUME Inv, Inv', TInv, NEW t \in Thread, stk[t] # <<>>, NEW f, NEW h,
           TurnsWell(t, f, h),
           Become(Made(h, acc, Stacked(stk, t, Turned(stk[t], f)), net, pjsua))
    PROVE  TInv'
  <1> DEFINE c == Turned(stk[t], f)
  <1>1. reg' = h /\ acc' = acc /\ OnlyOf(t, c)
    <2> HIDE DEF c
    <2>1. Become(Made(h, acc, Stacked(stk, t, c), net, pjsua))
      BY DEF c
    <2> QED BY <2>1, BecameOf
  <1>2. Quietly(t, Turned(stk[t], f))
    BY <1>1 DEF Quietly
  <1>3. f \in FrameType /\ f.fn = Last(stk[t]).fn /\ f.fn # "set"
    BY DEF TurnsWell
  <1>4. f.fn = "tsx" /\ f.pc = "call" => Len(stk[t]) = 1 \/ f.code = 503
    BY DEF TurnsWell
  <1>5. acc.regc # None =>
           LET r == acc.regc
           IN Keen(reg[r], Last(stk[t]), acc.active, r) \/ WillTell(f, r) =>
                 Keen(reg'[r], f, acc.active, r)
    BY <1>1 DEF TurnsWell
  <1> QED BY <1>2, <1>3, <1>4, <1>5, TurnQuiet

\* It is reported: a failure settles the matter, a success has the timer run.
LEMMA ReportTends ==
    ASSUME Inv, Inv', TInv, NEW t \in Thread, stk[t] # <<>>, NEW n, NEW h, NEW e,
           Readied(t, n, h, e), Last(stk[t]).fn = "tsx",
           NEW st, NEW code, NEW exp, NEW i, Sayable(st, code, exp, i),
           Become(Report(n, t, st, code, exp, i)),
           MayReport(t, code),
           acc.regc # None => Mends(t, h, acc.regc, st, code, exp)
    PROVE  TInv'
  <1> DEFINE s == stk[t]
             g == Last(s)
             c == Turned(s, e)
             f == Reporting(e, st, code, exp, i)
             r == acc.regc
             a == acc.active
  <1>1. /\ Last(c) = e /\ \A j : Turned(c, j) = Turned(s, j)
        /\ s \in Seq(FrameType) /\ t \in DOMAIN stk /\ e.r = g.r
        /\ n = Made(h, acc, Stacked(stk, t, c), net, pjsua)
        /\ e \in FrameType /\ e.fn = "tsx"
    BY ReadiedIs
  <1>2. /\ st \in {"ok", "error", "EBUSY"} /\ exp \in BOOLEAN /\ i \in BOOLEAN
        /\ code \in {0, 200, 400, 401, 403, 423, 503}
    BY DEF Sayable
  <1> HIDE DEF s, g, c
  <1>3. f \in FrameType /\ f.fn = "tsx" /\ f.pc = "call" /\ f.r = g.r
    BY <1>1, <1>2, ReportingIs
  <1>4. f.status = st /\ f.code = code /\ (f.exp <=> exp)
    BY <1>1, ReportSays
  <1>5. Report(n, t, st, code, exp, i)
           = Made(h, acc, Stacked(stk, t, Turned(c, f)), net, pjsua)
    BY <1>1, ReportMade
  <1> HIDE DEF f
  <1>6. Become(Made(h, acc, Stacked(stk, t, Turned(s, f)), net, pjsua))
    BY <1>1, <1>5
  <1>7. ASSUME r # None, Keen(reg[r], g, a, r) \/ WillTell(f, r)
        PROVE  Keen(h[r], f, a, r)
    <2>1. /\ r = g.r => st = "error" \/ code >= 300 \/ ~exp \/ h[r].timer
          /\ r # g.r /\ Keen(reg[r], g, a, r) => h[r].timer \/ h[r].has_tsx
      BY <1>7 DEF g, s, Mends
    <2>2. CASE r # g.r
      BY <1>3, <1>7, <2>1, <2>2 DEF Keen, WillTell
    <2>3. CASE r = g.r
      <3>1. f.status = "ok" \/ f.status = "error"
        BY <1>4 DEF Sayable
      <3>2. f.status = "error" \/ f.code >= 300 \/ ~f.exp \/ h[r].timer
        BY <1>4, <2>1, <2>3
      <3> HIDE DEF r
      <3> QED BY <1>3, <2>3, <3>1, <3>2 DEF Keen, Settles
    <2> QED BY <2>2, <2>3
  <1>8. f.fn = "tsx" /\ f.pc = "call" => Len(s) = 1 \/ f.code = 503
    BY <1>4 DEF s, MayReport
  <1>9. f \in FrameType /\ f.fn = g.fn /\ f.fn # "set"
    BY <1>3 DEF g, s
  <1>10. TurnsWell(t, f, h)
    BY <1>7, <1>8, <1>9 DEF TurnsWell, g, s
  <1>11. Become(Made(h, acc, Stacked(stk, t, Turned(stk[t], f)), net, pjsua))
    BY <1>6 DEF s
  <1> HIDE DEF r, a
  <1> QED BY <1>10, <1>11, TurnWell

\* The request is sent again.
LEMMA ResendTends ==
    ASSUME Inv, Inv', TInv, NEW t \in Thread, stk[t] # <<>>, NEW n, NEW h, NEW e,
           Readied(t, n, h, e), Last(stk[t]).fn = "tsx", Last(stk[t]).r \in Regc,
           NEW i, i \in BOOLEAN, Become(Resend(n, t, i)),
           acc.regc # None =>
              LET r == acc.regc
              IN r # Last(stk[t]).r /\ Keen(reg[r], Last(stk[t]), acc.active, r) =>
                    h[r].timer \/ h[r].has_tsx
    PROVE  TInv'
  <1> DEFINE s == stk[t]
             g == Last(s)
             q == g.r
             c == Turned(s, e)
             f == WithPc(e, "sent")
             k == Frame("send", "start", q, i)
             r == acc.regc
             a == acc.active
  <1>1. /\ Last(c) = e /\ \A j : Turned(c, j) = Turned(s, j)
        /\ s \in Seq(FrameType) /\ t \in DOMAIN stk /\ e.r = q
        /\ n = Made(h, acc, Stacked(stk, t, c), net, pjsua)
        /\ e \in FrameType /\ e.fn = "tsx"
    BY ReadiedIs
  <1>2. q \in Regc /\ s # <<>> /\ g.fn = "tsx"
    OBVIOUS
  <1>3. r # None => (r # q /\ Keen(reg[r], g, a, r) => h[r].timer \/ h[r].has_tsx)
    OBVIOUS
  <1> HIDE DEF s, g, c, q
  <1>4. f \in FrameType /\ f.fn = "tsx" /\ f.pc = "sent"
    BY <1>1, WithPcIs DEF Pcs
  <1>5. k \in FrameType /\ k.fn = "send" /\ k.pc = "start" /\ k.r = q
    BY <1>2, FrameIs DEF Fns, Pcs
  <1>6. Resend(n, t, i) = Made(h, acc, Stacked(stk, t, Append(Turned(c, f), k)), net, pjsua)
    BY <1>1, ResendMade
  <1> HIDE DEF f, k
  <1>7. Become(Made(h, acc, Stacked(stk, t, Append(Turned(s, f), k)), net, pjsua))
    BY <1>1, <1>6
  <1>8. ASSUME r # None, Keen(reg[r], g, a, r)
        PROVE  h[r].timer \/ h[r].has_tsx \/ Settles(k, a, r)
    BY <1>3, <1>5, <1>8 DEF Settles
  <1> QED BY <1>2, <1>4, <1>5, <1>7, <1>8, SendsMade DEF s, g

\* The callback ends, its session being destroyed.
LEMMA DoneTends ==
    ASSUME Inv, Inv', TInv, NEW t \in Thread, stk[t] # <<>>, NEW n, NEW h, NEW e,
           Readied(t, n, h, e), Last(stk[t]).fn = "tsx", Last(stk[t]).r \in Regc,
           Become(Done(n, t)),
           acc.regc # None =>
              LET r == acc.regc
              IN /\ r # Last(stk[t]).r
                 /\ Keen(reg[r], Last(stk[t]), acc.active, r) =>
                       h[r].timer \/ h[r].has_tsx
    PROVE  TInv'
  <1> DEFINE s == stk[t]
             g == Last(s)
             q == g.r
             c == Turned(s, e)
             f == DecFrame("tsx", q)
             k == DecFrame(Last(c).fn, Last(c).r)
             r == acc.regc
             a == acc.active
  <1>1. /\ Last(c) = e /\ \A j : Turned(c, j) = Turned(s, j)
        /\ s \in Seq(FrameType) /\ t \in DOMAIN stk /\ e.r = q
        /\ n = Made(h, acc, Stacked(stk, t, c), net, pjsua)
        /\ e \in FrameType /\ e.fn = "tsx"
    BY ReadiedIs
  <1>2. q \in Regc /\ s # <<>> /\ g.fn = "tsx"
    OBVIOUS
  <1>3. r # None => /\ r # q
                    /\ Keen(reg[r], g, a, r) => h[r].timer \/ h[r].has_tsx
    OBVIOUS
  <1> HIDE DEF s, g, c, q
  <1>4. f \in FrameType /\ f.fn = "tsx" /\ f.pc = "dec" /\ f.r = q
    BY <1>2, DecIs DEF Fns
  <1>5. Done(n, t) = Made(h, acc, Stacked(stk, t, Turned(c, k)), net, pjsua)
    <2> HIDE DEF k
    <2>1. Done(Made(h, acc, Stacked(stk, t, c), net, pjsua), t)
             = Made(h, acc, Stacked(stk, t, Turned(c, k)), net, pjsua)
      BY <1>1, DoneMade DEF k
    <2> QED BY <1>1, <2>1
  <1>6. k = f
    BY <1>1
  <1> HIDE DEF f, k
  <1>7. Become(Made(h, acc, Stacked(stk, t, Turned(s, f)), net, pjsua))
    BY <1>1, <1>5, <1>6
  <1>8. ASSUME r # None, Keen(reg[r], g, a, r) \/ WillTell(f, r)
        PROVE  Keen(h[r], f, a, r)
    BY <1>3, <1>4, <1>8 DEF Keen, WillTell
  <1> QED BY <1>2, <1>4, <1>7, <1>8, TurnMade DEF s, g

\* What the response leads to keeps the session, or says that it is lost.
LEMMA HandleTends ==
    ASSUME Inv, Inv', TInv, NEW t \in Thread, NEW pc \in {"start", "handle"},
           At(t, "tsx", pc), NEW x \in SessionType,
           x.delete_flag = reg[Last(stk[t]).r].delete_flag,
           NEW w, NEW v \in Handle(w, t), Become(v),
           w = Made(Swap(reg, Last(stk[t]).r, x), acc, Stacked(stk, t, stk[t]),
                    net, pjsua)
    PROVE  TInv'
  <1> DEFINE s == stk[t]
             g == Last(s)
             q == g.r
             y == CancelTimer(WithLong(x))
             r == acc.regc
             a == acc.active
             h0 == Swap(reg, q, x)
             H(d) == Swap(h0, q, WithOp(d))
             N(d, b) == Noted(w, t, d, b)
             E(b) == WithUnreg(g, b)
  <1>1. /\ s # <<>> /\ g.fn = "tsx" /\ g.pc = pc /\ g \in FrameType /\ q \in Regc
        /\ s \in Seq(FrameType) /\ Len(s) \in 1..4
        /\ Fits(g, Len(s), Under(s, Len(s)))
    BY Here
  <1>2. t \in DOMAIN stk /\ reg \in [Regc -> SessionType]
    BY InvOf
  <1>3. w.stk[t] = s /\ w.reg = h0
    BY <1>2, TopMade, MadeFields
  <1>4. h0[q] = x
    BY <1>1, <1>2, RegSwap
  <1> HIDE DEF s, g, y
  <1>5. Len(s) = 1 \/ g.code = 503
    BY <1>1 DEF Fits
  <1>6. g.code \in {0, 200, 400, 401, 403, 423, 503} /\ g.unreg \in BOOLEAN
    BY <1>1 DEF FrameType
  <1>7. PICK u, won, no \in BOOLEAN : ~no /\ HandleLeads(w, t, v, g, x, u, won, no)
    <2>1. g = Last(w.stk[t]) /\ x = w.reg[g.r]
      BY <1>3, <1>4 DEF g
    <2> QED BY <2>1, HandleCases
  <1> DEFINE z == IF won THEN ScheduleRegistration(x) ELSE x
  <1> HIDE DEF z
  <1>8. r # None => r \in Regc /\ (r = q => ~x.delete_flag)
    BY InvOf DEF g, s
  <1>9. ASSUME NEW d, r # None
        PROVE  H(d)[r] = IF r = q THEN WithOp(d) ELSE reg[r]
    <2>1. h0 \in [Regc -> SessionType] /\ \A o \in Regc : o # q => h0[o] = reg[o]
      BY <1>1, <1>2, RegSwap
    <2> HIDE DEF h0, r
    <2> QED BY <1>1, <1>8, <1>9, <2>1, RegSwap
  <1>10. ASSUME NEW d, NEW b \in BOOLEAN
         PROVE  Readied(t, N(d, b), H(d), E(b))
    <2>1. E(b) \in FrameType /\ E(b).fn = "tsx" /\ E(b).r = q
      BY <1>1, WithUnregIs
    <2>2. N(d, b) = Made(H(d), acc, Stacked(stk, t, Turned(s, E(b))), net, pjsua)
      <3> HIDE DEF h0
      <3>1. w = Made(h0, acc, Stacked(stk, t, s), net, pjsua)
        BY DEF h0, s, g
      <3> QED BY <1>1, <1>2, <3>1, NotedMade DEF g
    <2> HIDE DEF E, N, H
    <2> QED BY <2>1, <2>2 DEF Readied, s, g
  <1>11. ASSUME NEW d
         PROVE  r # None =>
                   (r # q /\ Keen(reg[r], g, a, r) => H(d)[r].timer \/ H(d)[r].has_tsx)
    <2>1. ASSUME r # None, r # q, Keen(reg[r], g, a, r)
          PROVE  reg[r].timer \/ reg[r].has_tsx
      BY <1>1, <2>1 DEF Keen, Settles, Failing
    <2> QED BY <1>9, <2>1
  <1> HIDE DEF H, N, E, h0
  <1>12. g = Last(stk[t]) /\ stk[t] = s /\ s # <<>> /\ g.fn = "tsx" /\ q \in Regc
    BY <1>1 DEF g, s
  <1>15. \/ g.code = 401 /\ v = Resend(N(x, u), t, g.unreg)
         \/ x.delete_flag /\ v = Done(N(x, u), t)
         \/ g.code = 401 /\ v = Report(N(x, u), t, "error", 401, no, u)
         \/ g.code = 423 /\ v = Report(N(x, u), t, "ok", 423, no, no)
         \/ g.code = 423 /\ v = Resend(N(y, no), t, no)
         \/ v = Report(N(z, u), t, "ok", g.code, won, u)
    BY <1>7 DEF HandleLeads, N, y, z
  <1>16. CASE g.code = 401 /\ v = Resend(N(x, u), t, g.unreg)
    <2> DEFINE n == N(x, u)
               h == H(x)
               e == E(u)
    <2>1. /\ Readied(t, n, h, e)
          /\ r # None => (r # q /\ Keen(reg[r], g, a, r) => h[r].timer \/ h[r].has_tsx)
      BY <1>7, <1>10, <1>11
    <2>2. Become(Resend(n, t, g.unreg))
      BY <1>16
    <2> HIDE DEF n, h, e
    <2> QED BY <1>6, <1>12, <2>1, <2>2, ResendTends
  <1>17. CASE x.delete_flag /\ v = Done(N(x, u), t)
    <2> DEFINE n == N(x, u)
               h == H(x)
               e == E(u)
    <2>1. /\ Readied(t, n, h, e)
          /\ r # None => (r # q /\ Keen(reg[r], g, a, r) => h[r].timer \/ h[r].has_tsx)
      BY <1>7, <1>10, <1>11
    <2>2. Become(Done(n, t)) /\ (r # None => r # q)
      BY <1>8, <1>17
    <2> HIDE DEF n, h, e
    <2> QED BY <1>12, <2>1, <2>2, DoneTends
  <1>18. CASE g.code = 401 /\ v = Report(N(x, u), t, "error", 401, no, u)
    <2> DEFINE n == N(x, u)
               h == H(x)
               e == E(u)
    <2>1. /\ Readied(t, n, h, e)
          /\ r # None => (r # q /\ Keen(reg[r], g, a, r) => h[r].timer \/ h[r].has_tsx)
      BY <1>7, <1>10, <1>11
    <2>2. Become(Report(n, t, "error", 401, no, u)) /\ Len(stk[t]) = 1
      BY <1>5, <1>12, <1>18
    <2> HIDE DEF n, h, e
    <2> QED BY <1>7, <1>12, <2>1, <2>2, ReportTends DEF Mends, Sayable, MayReport
  <1>19. CASE g.code = 423 /\ v = Report(N(x, u), t, "ok", 423, no, no)
    <2> DEFINE n == N(x, u)
               h == H(x)
               e == E(u)
    <2>1. /\ Readied(t, n, h, e)
          /\ r # None => (r # q /\ Keen(reg[r], g, a, r) => h[r].timer \/ h[r].has_tsx)
      BY <1>7, <1>10, <1>11
    <2>2. Become(Report(n, t, "ok", 423, no, no)) /\ Len(stk[t]) = 1
      BY <1>5, <1>12, <1>19
    <2> HIDE DEF n, h, e
    <2> QED BY <1>7, <1>12, <2>1, <2>2, ReportTends DEF Mends, Sayable, MayReport
  <1>20. CASE g.code = 423 /\ v = Resend(N(y, no), t, no)
    <2> DEFINE n == N(y, no)
               h == H(y)
               e == E(no)
    <2>1. /\ Readied(t, n, h, e)
          /\ r # None => (r # q /\ Keen(reg[r], g, a, r) => h[r].timer \/ h[r].has_tsx)
      BY <1>7, <1>10, <1>11
    <2>2. Become(Resend(n, t, no))
      BY <1>20
    <2> HIDE DEF n, h, e
    <2> QED BY <1>7, <1>12, <2>1, <2>2, ResendTends
  <1>21. CASE v = Report(N(z, u), t, "ok", g.code, won, u)
    <2> DEFINE n == N(z, u)
               h == H(z)
               e == E(u)
    <2>1. /\ Readied(t, n, h, e)
          /\ r # None => (r # q /\ Keen(reg[r], g, a, r) => h[r].timer \/ h[r].has_tsx)
      BY <1>7, <1>10, <1>11
    <2>2. Become(Report(n, t, "ok", g.code, won, u)) /\ (Len(stk[t]) = 1 \/ g.code = 503)
      BY <1>5, <1>12, <1>21
    <2>3. r # None /\ r = q /\ won => h[r].timer
      <3>1. won => z = ScheduleRegistration(x) /\ z \in SessionType /\ z.timer
        <4>1. ScheduleRegistration(x) \in SessionType
          BY Minors DEF Minor
        <4> QED BY <4>1, OpTimer DEF z
      <3>2. won => WithOp(z).timer
        BY <3>1, OpTimer
      <3> QED BY <1>9, <3>2 DEF H
    <2> HIDE DEF n, h, e
    <2> QED BY <1>6, <1>7, <1>12, <2>1, <2>2, <2>3, ReportTends DEF Mends, Sayable, MayReport
  <1> QED BY <1>15, <1>16, <1>17, <1>18, <1>19, <1>20, <1>21

\* A function that has a session of its own has to do with no other.
LEMMA KeenElse ==
    ASSUME NEW x, NEW g, NEW a, NEW r, g.fn \in {"send", "tsx", "refresh"},
           g.r # r, Keen(x, g, a, r)
    PROVE  x.timer \/ x.has_tsx
  BY DEF Keen, Settles, Failing

\* The top is gone, and nothing else changes but sessions and requests.
LEMMA PopsMade ==
    ASSUME Inv, Inv', TInv, NEW t \in Thread, stk[t] # <<>>, NEW h, NEW m, NEW p,
           Become(Made(h, acc, Stacked(stk, t, Front(stk[t])), m, p)),
           Last(stk[t]).fn # "del",
           acc.regc # None =>
              LET r == acc.regc
              IN Keen(reg[r], Last(stk[t]), acc.active, r) =>
                    h[r].timer \/ h[r].has_tsx
    PROVE  TInv'
  <1> DEFINE n == Front(stk[t])
  <1>1. reg' = h /\ acc' = acc /\ OnlyOf(t, n)
    <2> HIDE DEF n
    <2>1. Become(Made(h, acc, Stacked(stk, t, n), m, p))
      BY DEF n
    <2> QED BY <2>1, BecameOf
  <1>2. Quietly(t, Front(stk[t]))
    BY <1>1 DEF Quietly
  <1> HIDE DEF n
  <1> QED BY <1>1, <1>2, PopQuiet

\* A frame comes on top, and nothing else changes but sessions and requests.
LEMMA PushesMade ==
    ASSUME Inv, Inv', TInv, NEW t \in Thread, NEW f, NEW h, NEW m, NEW p,
           f \in FrameType,
           Become(Made(h, acc, Stacked(stk, t, Append(stk[t], f)), m, p)),
           f.pc # "call", stk[t] = <<>>,
           t \in Users => f.fn \in {"set", "del"},
           t \in Workers => f.fn \in {"tsx", "refresh", "retry"},
           f.fn = "set" => f.pc = "begin",
           acc.regc # None =>
              LET r == acc.regc
              IN reg[r].timer \/ reg[r].has_tsx =>
                    \/ h[r].timer \/ h[r].has_tsx
                    \/ Settles(f, acc.active, r)
    PROVE  TInv'
  <1> DEFINE n == Append(stk[t], f)
  <1>1. reg' = h /\ acc' = acc /\ OnlyOf(t, n)
    <2> HIDE DEF n
    <2>1. Become(Made(h, acc, Stacked(stk, t, n), m, p))
      BY DEF n
    <2> QED BY <2>1, BecameOf
  <1>2. Quietly(t, Append(stk[t], f))
    BY <1>1 DEF Quietly
  <1> HIDE DEF n
  <1> QED BY <1>1, <1>2, PushQuiet

\* Session q was written, and is what it was to those that look after it.
LEMMA SwapTends ==
    ASSUME Inv, NEW q, q \in Regc, NEW z,
           acc.regc = q =>
              z.timer = reg[q].timer /\ z.has_tsx = reg[q].has_tsx
    PROVE  acc.regc # None =>
              LET r == acc.regc
                  h == Swap(reg, q, z)
              IN h[r].timer = reg[r].timer /\ h[r].has_tsx = reg[r].has_tsx
  <1>1. /\ acc.regc # None => acc.regc \in Regc
        /\ reg \in [Regc -> SessionType]
    BY InvOf
  <1> QED BY <1>1 DEF Swap

\* Session q was written, and no other.
LEMMA SwapOther ==
    ASSUME Inv, NEW q, q \in Regc, NEW z
    PROVE  acc.regc # None =>
              LET r == acc.regc
                  h == Swap(reg, q, z)
              IN h[r] = IF r = q THEN z ELSE reg[r]
  <1>1. /\ acc.regc # None => acc.regc \in Regc
        /\ reg \in [Regc -> SessionType]
    BY InvOf
  <1> QED BY <1>1 DEF Swap

\* The response is looked at: what is done with it settles the matter.
LEMMA TsxStartTends ==
    ASSUME Inv, Inv', TInv, NEW t \in Thread, TsxStart(t)
    PROVE  TInv'
  <1> DEFINE s == stk[t]
             g == Last(s)
             q == g.r
             x == Looked(reg[q])
             w == WithReg(World, q, x)
             h == Swap(reg, q, x)
             f == WithPc(g, "tsx_cb")
             r == acc.regc
             a == acc.active
  <1>1. At(t, "tsx", "start")
    BY DEF TsxStart
  <1>2. /\ s # <<>> /\ Top(t) = g /\ g.fn = "tsx" /\ g.pc = "start"
        /\ g \in FrameType /\ q \in Regc /\ s \in Seq(FrameType)
    BY <1>1, Here
  <1>3. reg[q] \in SessionType /\ t \in DOMAIN stk
    BY <1>2, InvOf
  <1>4. x \in SessionType /\ x.delete_flag = reg[q].delete_flag
    BY <1>3, LookedIs DEF LookedFrom
  <1>5. w = Made(h, acc, Stacked(stk, t, s), net, pjsua)
    BY WorldMade, MadeReg
  <1>6. \/ Become(Goto(w, t, "tsx_cb"))
        \/ \E v \in Handle(w, t) : Become(v)
    BY <1>2 DEF TsxStart, Looked
  <1>7. CASE Become(Goto(w, t, "tsx_cb"))
    <2>1. f \in FrameType /\ f.fn = "tsx" /\ f.pc = "tsx_cb" /\ f.r = q
      BY <1>2, WithPcIs DEF Pcs
    <2>2. r # None => h[r] = IF r = q THEN x ELSE reg[r]
      <3> HIDE DEF x, q
      <3> QED BY <1>2, SwapOther
    <2> HIDE DEF h, s, g, w, x, q
    <2>3. Become(Made(h, acc, Stacked(stk, t, Turned(s, f)), net, pjsua))
      BY <1>3, <1>5, <1>7, GotoMade DEF g
    <2> HIDE DEF f
    <2>4. ASSUME r # None, Keen(reg[r], g, a, r) \/ WillTell(f, r)
          PROVE  Keen(h[r], f, a, r)
      <3>1. CASE r = q
        BY <2>1, <3>1 DEF Keen, Settles
      <3>2. CASE r # q
        <4>1. g.fn \in {"send", "tsx", "refresh"} /\ g.r # r
          BY <1>2, <3>2 DEF q
        <4>2. ~WillTell(f, r)
          BY <2>1, <3>2 DEF WillTell
        <4>3. reg[r].timer \/ reg[r].has_tsx
          BY <2>4, <4>1, <4>2, KeenElse
        <4> QED BY <2>4, <3>2, <2>2, <4>3 DEF Keen
      <3> QED BY <3>1, <3>2
    <2> QED BY <1>2, <2>1, <2>3, <2>4, TurnMade DEF s, g
  <1>8. CASE \E v \in Handle(w, t) : Become(v)
    <2>1. PICK v \in Handle(w, t) : Become(v)
      BY <1>8
    <2>2. w = Made(Swap(reg, Last(stk[t]).r, x), acc, Stacked(stk, t, stk[t]), net, pjsua)
      BY <1>5
    <2>3. x.delete_flag = reg[Last(stk[t]).r].delete_flag
      BY <1>4
    <2> HIDE DEF w, x
    <2> QED BY <1>1, <1>4, <2>1, <2>2, <2>3, HandleTends
  <1> QED BY <1>6, <1>7, <1>8

\* It is handled after the callback was asked about it.
LEMMA TsxHandleTends ==
    ASSUME Inv, Inv', TInv, NEW t \in Thread, TsxHandle(t)
    PROVE  TInv'
  <1> DEFINE q == Last(stk[t]).r
             x == reg[q]
  <1>1. At(t, "tsx", "handle")
    BY DEF TsxHandle
  <1>2. q \in Regc /\ reg \in [Regc -> SessionType]
    BY <1>1, Here, InvOf
  <1>3. Swap(reg, q, x) = reg
    BY <1>2, RegSame
  <1>4. World = Made(Swap(reg, Last(stk[t]).r, x), acc, Stacked(stk, t, stk[t]), net, pjsua)
    BY <1>3, WorldMade
  <1>5. PICK v \in Handle(World, t) : Become(v)
    BY DEF TsxHandle
  <1>6. x \in SessionType /\ x.delete_flag = reg[Last(stk[t]).r].delete_flag
    BY <1>2
  <1> DEFINE w == World
  <1> HIDE DEF x
  <1>7. w = Made(Swap(reg, Last(stk[t]).r, x), acc, Stacked(stk, t, stk[t]), net, pjsua)
        /\ v \in Handle(w, t)
    BY <1>4, <1>5
  <1> HIDE DEF w
  <1> QED BY <1>1, <1>5, <1>6, <1>7, HandleTends

\* The callback was asked.
LEMMA TsxCbTends ==
    ASSUME Inv, Inv', TInv, NEW t \in Thread, TsxCb(t)
    PROVE  TInv'
  <1> DEFINE s == stk[t]
             g == Last(s)
             q == g.r
             f == WithPc(g, "handle")
             r == acc.regc
             a == acc.active
  <1>1. At(t, "tsx", "tsx_cb")
    BY DEF TsxCb
  <1>2. /\ s # <<>> /\ Top(t) = g /\ g.fn = "tsx" /\ g.pc = "tsx_cb"
        /\ g \in FrameType /\ q \in Regc /\ s \in Seq(FrameType)
    BY <1>1, Here
  <1>3. t \in DOMAIN stk /\ World = Made(reg, acc, Stacked(stk, t, s), net, pjsua)
    BY WorldMade
  <1>4. Become(Goto(World, t, "handle"))
    BY DEF TsxCb
  <1> HIDE DEF s, g, q
  <1>5. f \in FrameType /\ f.fn = "tsx" /\ f.pc = "handle" /\ f.r = q
    BY <1>2, WithPcIs DEF Pcs, q
  <1>6. Become(Made(reg, acc, Stacked(stk, t, Turned(s, f)), net, pjsua))
    BY <1>3, <1>4, GotoMade DEF g
  <1> HIDE DEF f
  <1>7. ASSUME r # None, Keen(reg[r], g, a, r) \/ WillTell(f, r)
        PROVE  Keen(reg[r], f, a, r)
    <2>1. CASE r = q
      BY <1>5, <2>1 DEF Keen, Settles
    <2>2. CASE r # q
      <3>1. g.fn \in {"send", "tsx", "refresh"} /\ g.r # r
        BY <1>2, <2>2 DEF q
      <3>2. ~WillTell(f, r)
        BY <1>5, <2>2 DEF WillTell
      <3>3. reg[r].timer \/ reg[r].has_tsx
        BY <1>7, <3>1, <3>2, KeenElse
      <3> QED BY <1>7, <2>2, <3>3 DEF Keen
    <2> QED BY <2>1, <2>2
  <1> QED BY <1>2, <1>5, <1>6, <1>7, TurnMade DEF s, g

\* Frame f reports what g's send returned.
Repeats(g, f) ==
    /\ f \in FrameType /\ f.fn = g.fn /\ f.pc = "call" /\ f.r = g.r
    /\ f.status = g.status

\* A refused request settles nothing: another one is on its way; one that was
\* not sent is reported.
LEMMA SentTends ==
    ASSUME Inv, Inv', TInv, NEW t \in Thread, NEW fn, fn \in {"tsx", "refresh"},
           At(t, fn, "sent"), NEW e,
           LET g == Last(stk[t])
           IN \/ /\ g.status = "ok" \/ reg[g.r].delete_flag
                 /\ Become(Done(World, t))
              \/ g.status # "ok" /\ Repeats(g, e) /\ Become(Put(World, t, e))
    PROVE  TInv'
  <1> DEFINE s == stk[t]
             g == Last(s)
             q == g.r
             f == DecFrame(g.fn, q)
             r == acc.regc
             a == acc.active
  <1>1. /\ s # <<>> /\ g.fn = fn /\ g.pc = "sent"
        /\ g \in FrameType /\ q \in Regc /\ s \in Seq(FrameType)
        /\ Fits(g, Len(s), Under(s, Len(s)))
    BY Here
  <1>2. t \in DOMAIN stk /\ World = Made(reg, acc, Stacked(stk, t, s), net, pjsua)
    BY WorldMade
  <1>3. g.fn \in {"tsx", "refresh", "send"} /\ g.fn # "set" /\ g.fn # "send"
    BY <1>1
  <1>4. g.fn \in Fns /\ g.status \in {"ok", "error", "EBUSY"}
    BY <1>1 DEF FrameType
  <1>5. Len(s) = 1
    BY <1>1, <1>3 DEF Fits
  <1>6. r # None => ~reg[r].delete_flag
    BY InvOf
  <1>8. \/ (g.status = "ok" \/ reg[q].delete_flag) /\ Become(Done(World, t))
        \/ g.status # "ok" /\ Repeats(g, e) /\ Become(Put(World, t, e))
    OBVIOUS
  <1> HIDE DEF s, g, q
  <1>9. CASE (g.status = "ok" \/ reg[q].delete_flag) /\ Become(Done(World, t))
    <2>1. f \in FrameType /\ f.fn = g.fn /\ f.pc = "dec" /\ f.r = q
      BY <1>1, <1>4, DecIs
    <2>2. Become(Made(reg, acc, Stacked(stk, t, Turned(s, f)), net, pjsua))
      BY <1>2, <1>9, DoneMade DEF g, q
    <2> HIDE DEF f
    <2>3. ASSUME r # None, Keen(reg[r], g, a, r) \/ WillTell(f, r)
          PROVE  Keen(reg[r], f, a, r)
      <3>1. ~WillTell(f, r)
        BY <2>1 DEF WillTell
      <3>2. CASE r = q
        <4>1. g.status = "ok"
          BY <1>6, <1>9, <2>3, <3>2
        <4> QED BY <1>1, <1>3, <2>3, <3>1, <4>1 DEF Keen, Settles, Failing
      <3>3. CASE r # q
        BY <1>3, <2>3, <3>1, <3>3, KeenElse DEF q, Keen
      <3> QED BY <3>2, <3>3
    <2>4. f.fn = g.fn /\ f.fn # "set" /\ f.pc # "call"
      BY <1>3, <2>1
    <2> QED BY <1>1, <2>1, <2>2, <2>3, <2>4, TurnMade DEF s, g
  <1>10. CASE g.status # "ok" /\ Repeats(g, e) /\ Become(Put(World, t, e))
    <2>1. /\ e \in FrameType /\ e.fn = g.fn /\ e.pc = "call" /\ e.r = q
          /\ e.status = g.status
      BY <1>10 DEF q, Repeats
    <2>3. Become(Made(reg, acc, Stacked(stk, t, Turned(s, e)), net, pjsua))
      BY <1>2, <1>10, PutMade
    <2>4. ASSUME r # None, Keen(reg[r], g, a, r) \/ WillTell(e, r)
          PROVE  Keen(reg[r], e, a, r)
      <3>1. ~WillTell(e, r)
        BY <1>10, <2>1 DEF WillTell
      <3>2. CASE r = q
        BY <1>1, <1>3, <2>1, <2>4, <3>1, <3>2 DEF Keen, Settles, Failing
      <3>3. CASE r # q
        BY <1>3, <2>4, <3>1, <3>3, KeenElse DEF q, Keen
      <3> QED BY <3>2, <3>3
    <2>5. e.fn = g.fn /\ e.fn # "set"
      BY <1>3, <2>1
    <2> QED BY <1>1, <1>5, <2>1, <2>3, <2>4, <2>5, TurnMade DEF s, g
  <1> QED BY <1>8, <1>9, <1>10

\* The frame that reports it.
LEMMA RepeatsIs ==
    ASSUME NEW w, NEW t, NEW g, g = Last(w.stk[t]), g \in FrameType, NEW code, NEW b,
           NEW no, no \in BOOLEAN,
           code \in {0, 200, 400, 401, 403, 423, 503}, b \in BOOLEAN
    PROVE  LET e == Reporting(g, g.status, code, no, b)
           IN /\ Repeats(g, e)
              /\ Report(w, t, g.status, code, no, b) = Put(w, t, e)
  <1> DEFINE st == g.status
             e == Reporting(g, st, code, no, b)
  <1>1. st \in {"ok", "error", "EBUSY"}
    BY DEF FrameType
  <1> HIDE DEF st
  <1>2. e \in FrameType /\ e.fn = g.fn /\ e.pc = "call" /\ e.r = g.r
    BY <1>1, ReportingIs
  <1>3. e.status = st
    BY ReportSays
  <1>4. Report(w, t, st, code, no, b) = Put(w, t, e)
    BY DEF Report, Reporting
  <1> HIDE DEF e
  <1> QED BY <1>2, <1>3, <1>4 DEF Repeats, st, e

\* The callback's second request.
LEMMA TsxSentTends ==
    ASSUME Inv, Inv', TInv, NEW t \in Thread, TsxSent(t)
    PROVE  TInv'
  <1> DEFINE g == Last(stk[t])
             no == FALSE
             u == g.is_unreg
             k == g.code
             e == Reporting(g, g.status, k, no, u)
  <1>1. At(t, "tsx", "sent") /\ Top(t) = g /\ g = Last(World.stk[t])
    BY WorldIs DEF TsxSent, Top
  <1>2. g \in FrameType
    BY <1>1, Here
  <1>3. /\ k \in {0, 200, 400, 401, 403, 423, 503} /\ u \in BOOLEAN
        /\ no \in BOOLEAN
    <2> HIDE DEF g
    <2> QED BY <1>2 DEF FrameType
  <1>4. \/ /\ g.status = "ok" \/ reg[g.r].delete_flag
           /\ Become(Done(World, t))
        \/ /\ g.status # "ok"
           /\ Become(Report(World, t, g.status, k, no, u))
    BY <1>1 DEF TsxSent
  <1>5. /\ Repeats(g, e)
        /\ Report(World, t, g.status, k, no, u) = Put(World, t, e)
    <2> HIDE DEF g, no, u, k
    <2> QED BY <1>1, <1>2, <1>3, RepeatsIs
  <1> HIDE DEF e, no, u, k
  <1> QED BY <1>1, <1>4, <1>5, SentTends

\* The refresh timer's request.
LEMMA RefreshSentTends ==
    ASSUME Inv, Inv', TInv, NEW t \in Thread, RefreshSent(t)
    PROVE  TInv'
  <1> DEFINE g == Last(stk[t])
             no == FALSE
             e == Reporting(g, g.status, 400, no, no)
  <1>1. At(t, "refresh", "sent") /\ Top(t) = g /\ g = Last(World.stk[t])
    BY WorldIs DEF RefreshSent, Top
  <1>2. g \in FrameType
    BY <1>1, Here
  <1>3. no \in BOOLEAN
    OBVIOUS
  <1>4. \/ g.status = "ok" /\ Become(Done(World, t))
        \/ /\ g.status # "ok"
           /\ Become(Report(World, t, g.status, 400, no, no))
    BY <1>1 DEF RefreshSent
  <1>5. /\ Repeats(g, e)
        /\ Report(World, t, g.status, 400, no, no) = Put(World, t, e)
    <2> HIDE DEF g, no
    <2> QED BY <1>1, <1>2, <1>3, RepeatsIs
  <1> HIDE DEF e, no
  <1> QED BY <1>1, <1>4, <1>5, SentTends

\* The reference is given back.
LEMMA DecTends ==
    ASSUME Inv, Inv', TInv, NEW t \in Thread, Dec(t)
    PROVE  TInv'
  <1> DEFINE s == stk[t]
             g == Last(s)
             q == g.r
             n == reg[q].busy - 1
             x == Busied(reg[q], n)
             h == Swap(reg, q, x)
             f == WithPc(g, "flag")
             w == WithReg(World, q, x)
             r == acc.regc
             a == acc.active
  <1>1. PICK fn \in {"tsx", "refresh"} : At(t, fn, "dec")
    BY DEF Dec
  <1>2. /\ s # <<>> /\ g.fn = fn /\ g.pc = "dec" /\ Top(t) = g
        /\ g \in FrameType /\ q \in Regc /\ s \in Seq(FrameType)
    BY <1>1, Here
  <1>3. t \in DOMAIN stk /\ World = Made(reg, acc, Stacked(stk, t, s), net, pjsua)
    BY WorldMade
  <1>4. x.timer = reg[q].timer /\ x.has_tsx = reg[q].has_tsx
    <2>1. reg[q] \in SessionType
      BY <1>2, InvOf
    <2> HIDE DEF n
    <2> QED BY <2>1 DEF Busied, SessionType
  <1>5. Become(IF n = 0 THEN Goto(w, t, "flag") ELSE Pop(w, t))
    BY <1>2 DEF Dec, Busied
  <1> HIDE DEF x, n, s, g, q
  <1>6. w = Made(h, acc, Stacked(stk, t, s), net, pjsua)
    BY <1>3, MadeReg
  <1>7. r # None => h[r].timer = reg[r].timer /\ h[r].has_tsx = reg[r].has_tsx
    BY <1>2, <1>4, SwapTends
  <1> HIDE DEF w, h
  <1>8. Keen(reg[r], g, a, r) => reg[r].timer \/ reg[r].has_tsx
    BY <1>1, <1>2 DEF Keen, Settles, Failing
  <1>9. CASE Become(Goto(w, t, "flag"))
    <2>1. f \in FrameType /\ f.fn = g.fn /\ f.pc = "flag"
      BY <1>2, WithPcIs DEF Pcs
    <2>2. Become(Made(h, acc, Stacked(stk, t, Turned(s, f)), net, pjsua))
      BY <1>3, <1>6, <1>9, GotoMade DEF g
    <2> HIDE DEF f
    <2>3. ASSUME r # None, Keen(reg[r], g, a, r) \/ WillTell(f, r)
          PROVE  Keen(h[r], f, a, r)
      BY <1>7, <1>8, <2>1, <2>3 DEF Keen, WillTell
    <2> QED BY <1>1, <1>2, <2>1, <2>2, <2>3, TurnMade DEF s, g
  <1>10. CASE Become(Pop(w, t))
    <2>1. Become(Made(h, acc, Stacked(stk, t, Front(s)), net, pjsua))
      BY <1>3, <1>6, <1>10, PopMade
    <2>2. r # None => (Keen(reg[r], g, a, r) => h[r].timer \/ h[r].has_tsx)
      BY <1>7, <1>8
    <2> QED BY <1>1, <1>2, <2>1, <2>2, PopsMade DEF s, g
  <1> QED BY <1>5, <1>9, <1>10

\* The session may go, if it is to be deleted.
LEMMA FlagTends ==
    ASSUME Inv, Inv', TInv, NEW t \in Thread, Flag(t)
    PROVE  TInv'
  <1> DEFINE s == stk[t]
             g == Last(s)
             q == g.r
             x == Destroy(reg[q])
             h == Swap(reg, q, x)
             r == acc.regc
             a == acc.active
  <1>1. PICK fn \in {"tsx", "refresh"} : At(t, fn, "flag")
    BY DEF Flag
  <1>2. /\ s # <<>> /\ g.fn = fn /\ g.pc = "flag" /\ Top(t) = g
        /\ g \in FrameType /\ q \in Regc /\ s \in Seq(FrameType)
    BY <1>1, Here
  <1>3. t \in DOMAIN stk /\ World = Made(reg, acc, Stacked(stk, t, s), net, pjsua)
    BY WorldMade
  <1>4. \/ reg[q].delete_flag /\ Become(Pop(WithReg(World, q, x), t))
        \/ Become(Pop(World, t))
    BY <1>2 DEF Flag
  <1>5. r # None => ~reg[r].delete_flag
    BY InvOf
  <1> HIDE DEF x, s, g, q
  <1>6. Keen(reg[r], g, a, r) => reg[r].timer \/ reg[r].has_tsx
    BY <1>1, <1>2 DEF Keen, Settles, Failing
  <1>7. CASE reg[q].delete_flag /\ Become(Pop(WithReg(World, q, x), t))
    <2>1. WithReg(World, q, x) = Made(h, acc, Stacked(stk, t, s), net, pjsua)
      BY <1>3, MadeReg
    <2>2. r # None => h[r] = IF r = q THEN x ELSE reg[r]
      BY <1>2, SwapOther
    <2> HIDE DEF h
    <2>3. Become(Made(h, acc, Stacked(stk, t, Front(s)), net, pjsua))
      BY <1>3, <1>7, <2>1, PopMade
    <2>4. r # None => (Keen(reg[r], g, a, r) => h[r].timer \/ h[r].has_tsx)
      BY <1>5, <1>6, <1>7, <2>2
    <2> QED BY <1>1, <1>2, <2>3, <2>4, PopsMade DEF s, g
  <1>8. CASE Become(Pop(World, t))
    <2>1. Become(Made(reg, acc, Stacked(stk, t, Front(s)), net, pjsua))
      BY <1>3, <1>8, PopMade
    <2> QED BY <1>1, <1>2, <1>6, <2>1, PopsMade DEF s, g
  <1> QED BY <1>4, <1>7, <1>8

\* The refresh timer's callback begins: it will send.
LEMMA PopRefreshTends ==
    ASSUME Inv, Inv', TInv, NEW t \in Thread, NEW q \in Regc, PopRefresh(t, q)
    PROVE  TInv'
  <1> DEFINE s == stk[t]
             x == NoTimer(reg[q])
             h == Swap(reg, q, x)
             no == FALSE
             f == Frame("refresh", "ref", q, no)
             w == WithReg(World, q, x)
             r == acc.regc
             a == acc.active
  <1>1. t \in Workers /\ s = <<>> /\ Become(Push(w, t, f)) /\ t \notin Users
    <2>1. t \in Workers /\ s = <<>>
      BY DEF PopRefresh, Idle
    <2>2. t \notin Users
      BY <2>1, RegAssumption
    <2>3. Become(Push(w, t, f))
      BY DEF PopRefresh, NoTimer
    <2> QED BY <2>1, <2>2, <2>3
  <1>2. t \in DOMAIN stk /\ World = Made(reg, acc, Stacked(stk, t, s), net, pjsua)
    BY WorldMade
  <1>3. no \in BOOLEAN
    OBVIOUS
  <1> HIDE DEF s, x, no
  <1>4. w = Made(h, acc, Stacked(stk, t, s), net, pjsua)
    BY <1>2, MadeReg
  <1>5. r # None => h[r] = IF r = q THEN x ELSE reg[r]
    BY SwapOther
  <1> HIDE DEF h, w
  <1>6. f \in FrameType /\ f.fn = "refresh" /\ f.pc = "ref" /\ f.r = q
    BY <1>3, FrameIs DEF Fns, Pcs
  <1> HIDE DEF f
  <1>7. Become(Made(h, acc, Stacked(stk, t, Append(s, f)), net, pjsua))
    <2>1. Push(w, t, f) = Made(h, acc, Stacked(stk, t, Append(s, f)), net, pjsua)
      BY <1>2, <1>4, PushMade
    <2> QED BY <1>1, <2>1
  <1>8. ASSUME r # None, reg[r].timer \/ reg[r].has_tsx
        PROVE  h[r].timer \/ h[r].has_tsx \/ Settles(f, a, r)
    BY <1>5, <1>6, <1>8 DEF Settles
  <1> QED BY <1>1, <1>6, <1>7, <1>8, PushesMade DEF s

\* It takes its reference, or finds its session gone, which the account's is not.
LEMMA RefreshRefTends ==
    ASSUME Inv, Inv', TInv, NEW t \in Thread, RefreshRef(t)
    PROVE  TInv'
  <1> DEFINE s == stk[t]
             g == Last(s)
             q == g.r
             x == Timed(reg[q])
             h == Swap(reg, q, x)
             f == WithPc(g, "register")
             w == WithReg(World, q, x)
             r == acc.regc
             a == acc.active
  <1>1. At(t, "refresh", "ref")
    BY DEF RefreshRef
  <1>2. /\ s # <<>> /\ g.fn = "refresh" /\ g.pc = "ref" /\ Top(t) = g
        /\ g \in FrameType /\ q \in Regc /\ s \in Seq(FrameType)
    BY <1>1, Here
  <1>3. t \in DOMAIN stk /\ World = Made(reg, acc, Stacked(stk, t, s), net, pjsua)
    BY WorldMade
  <1>4. \/ reg[q].live /\ Become(Goto(w, t, "register"))
        \/ ~reg[q].live /\ Become(Pop(World, t))
    BY <1>2 DEF RefreshRef, Timed
  <1>5. r # None => reg[r].live
    BY InvOf
  <1> HIDE DEF x, s, g, q
  <1>6. w = Made(h, acc, Stacked(stk, t, s), net, pjsua)
    BY <1>3, MadeReg
  <1>7. r # None => h[r] = IF r = q THEN x ELSE reg[r]
    BY <1>2, SwapOther
  <1> HIDE DEF w, h
  <1>8. r # q /\ Keen(reg[r], g, a, r) => reg[r].timer \/ reg[r].has_tsx
    BY <1>2, KeenElse DEF q
  <1>9. CASE Become(Goto(w, t, "register"))
    <2>1. f \in FrameType /\ f.fn = g.fn /\ f.pc = "register" /\ f.r = q
      BY <1>2, WithPcIs DEF Pcs, q
    <2>2. Become(Made(h, acc, Stacked(stk, t, Turned(s, f)), net, pjsua))
      BY <1>3, <1>6, <1>9, GotoMade DEF g
    <2> HIDE DEF f
    <2>3. ASSUME r # None, Keen(reg[r], g, a, r) \/ WillTell(f, r)
          PROVE  Keen(h[r], f, a, r)
      <3>1. CASE r = q
        BY <1>2, <2>1, <3>1 DEF Keen, Settles
      <3>2. CASE r # q
        BY <1>7, <1>8, <2>1, <2>3, <3>2 DEF Keen, WillTell
      <3> QED BY <3>1, <3>2
    <2> QED BY <1>2, <2>1, <2>2, <2>3, TurnMade DEF s, g
  <1>10. CASE ~reg[q].live /\ Become(Pop(World, t))
    <2>1. Become(Made(reg, acc, Stacked(stk, t, Front(s)), net, pjsua))
      BY <1>3, <1>10, PopMade
    <2>2. r # None => (Keen(reg[r], g, a, r) => reg[r].timer \/ reg[r].has_tsx)
      BY <1>5, <1>8, <1>10
    <2> QED BY <1>2, <2>1, <2>2, PopsMade DEF s, g
  <1> QED BY <1>4, <1>9, <1>10

\* It cancels the timer and sends.
LEMMA RefreshRegisterTends ==
    ASSUME Inv, Inv', TInv, NEW t \in Thread, RefreshRegister(t)
    PROVE  TInv'
  <1> DEFINE s == stk[t]
             g == Last(s)
             q == g.r
             no == FALSE
             x == CancelTimer(reg[q])
             h == Swap(reg, q, x)
             f == WithPc(g, "sent")
             e == Frame("send", "start", q, no)
             w == WithReg(World, q, x)
             r == acc.regc
             a == acc.active
  <1>1. At(t, "refresh", "register")
    BY DEF RefreshRegister
  <1>2. /\ s # <<>> /\ g.fn = "refresh" /\ g.pc = "register" /\ Top(t) = g
        /\ g \in FrameType /\ q \in Regc /\ s \in Seq(FrameType)
    BY <1>1, Here
  <1>3. t \in DOMAIN stk /\ World = Made(reg, acc, Stacked(stk, t, s), net, pjsua)
    BY WorldMade
  <1>4. \/ reg[q].live /\ Become(Push(Goto(w, t, "sent"), t, e))
        \/ ~reg[q].live /\ Become(Pop(World, t))
    BY <1>2 DEF RefreshRegister
  <1>5. (r # None => reg[r].live) /\ no \in BOOLEAN
    BY InvOf
  <1> HIDE DEF x, s, g, q, no
  <1>6. w = Made(h, acc, Stacked(stk, t, s), net, pjsua)
    BY <1>3, MadeReg
  <1>7. r # None => h[r] = IF r = q THEN x ELSE reg[r]
    BY <1>2, SwapOther
  <1> HIDE DEF w, h
  <1>8. r # q /\ Keen(reg[r], g, a, r) => reg[r].timer \/ reg[r].has_tsx
    BY <1>2, KeenElse DEF q
  <1>9. CASE Become(Push(Goto(w, t, "sent"), t, e))
    <2>1. f \in FrameType /\ f.fn = g.fn /\ f.pc = "sent"
      BY <1>2, WithPcIs DEF Pcs
    <2>2. e \in FrameType /\ e.fn = "send" /\ e.pc = "start" /\ e.r = q
      BY <1>2, <1>5, FrameIs DEF Fns, Pcs
    <2>3. Goto(w, t, "sent") = Made(h, acc, Stacked(stk, t, Turned(s, f)), net, pjsua)
      BY <1>3, <1>6, GotoMade DEF g
    <2> HIDE DEF f, e
    <2>4. Become(Made(h, acc, Stacked(stk, t, Append(Turned(s, f), e)), net, pjsua))
      BY <1>3, <1>9, <2>3, PushMade
    <2>5. ASSUME r # None, Keen(reg[r], g, a, r)
          PROVE  h[r].timer \/ h[r].has_tsx \/ Settles(e, a, r)
      <3>1. CASE r = q
        BY <2>2, <3>1 DEF Settles
      <3>2. CASE r # q
        BY <1>7, <1>8, <2>5, <3>2
      <3> QED BY <3>1, <3>2
    <2> QED BY <1>2, <2>1, <2>2, <2>4, <2>5, SendsMade DEF s, g
  <1>10. CASE ~reg[q].live /\ Become(Pop(World, t))
    <2>1. Become(Made(reg, acc, Stacked(stk, t, Front(s)), net, pjsua))
      BY <1>3, <1>10, PopMade
    <2>2. r # None => (Keen(reg[r], g, a, r) => reg[r].timer \/ reg[r].has_tsx)
      BY <1>5, <1>8, <1>10
    <2> QED BY <1>2, <2>1, <2>2, PopsMade DEF s, g
  <1> QED BY <1>4, <1>9, <1>10

\* A response comes.
LEMMA DeliverTends ==
    ASSUME Inv, Inv', TInv, NEW t \in Thread, NEW q, NEW code, Deliver(t, q, code),
           q \in net, code \in Codes
    PROVE  TInv'
  <1> DEFINE s == stk[t]
             f == TsxFrame(q, code)
             m == net \ {q}
             r == acc.regc
  <1>1. /\ t \in Workers /\ s = <<>> /\ t \notin Users
        /\ Become(WithNet(Push(World, t, f), m))
    BY RegAssumption DEF Deliver, Idle
  <1>2. t \in DOMAIN stk /\ World = Made(reg, acc, Stacked(stk, t, s), net, pjsua)
    BY WorldMade
  <1>3. f \in FrameType /\ f.fn = "tsx" /\ f.pc = "start"
    <2>1. q \in Request
      <3>1. Good(World, pjsua) /\ World.net = net
        BY WorldIs DEF Inv
      <3>2. World.net \subseteq Request
        BY <3>1, WorldFields DEF Good
      <3> QED BY <3>1, <3>2
    <2>2. code \in {200, 401, 403, 423, 503}
      BY RegAssumption
    <2> QED BY <2>1, <2>2, TsxFrameIs
  <1> HIDE DEF s, f, m
  <1>4. Push(World, t, f) = Made(reg, acc, Stacked(stk, t, Append(s, f)), net, pjsua)
    BY <1>2, PushMade
  <1>5. Become(Made(reg, acc, Stacked(stk, t, Append(s, f)), m, pjsua))
    BY <1>1, <1>4, MadeWith
  <1> QED BY <1>1, <1>3, <1>5, PushesMade DEF s

-----------------------------------------------------------------------------
(* The steps that write the account.                                       *)

\* Only the users call, and only the worker's functions tell or retry.
LEMMA ByRole ==
    ASSUME Inv, TInv, NEW u \in Thread
    PROVE  /\ u \in Users => /\ \A r : ~Telling(stk[u], r)
                             /\ \A r, a, b : Covers(stk[u], a, r) => Covers(stk[u], b, r)
           /\ u \notin Users => ~Calling(stk[u])
           /\ stk[u] # <<>> /\ stk[u][1].fn \in {"tsx", "refresh", "retry"} => u \in Workers
           /\ stk[u] # <<>> /\ stk[u][1].fn \in {"set", "del"} => u \in Users
  <1> DEFINE s == stk[u]
  <1>1. /\ s \in Seq(FrameType) /\ Stack(s) /\ Tame(u, s)
    BY InvOf DEF TInv
  <1>2. (u \in Users \/ u \in Workers) /\ ~(u \in Users /\ u \in Workers)
    BY RegAssumption DEF Thread
  <1>3. s # <<>> => /\ Len(s) \in 1..4 /\ Last(s) = s[Len(s)]
                    /\ Fits(Last(s), Len(s), Under(s, Len(s)))
    <2>1. s # <<>> => Len(s) \in Nat \ {0} /\ Last(s) = s[Len(s)]
      BY <1>1, FrontFacts
    <2>2. Len(s) <= 4 /\ \A i \in 1..Len(s) : Fits(s[i], i, Under(s, i))
      BY <1>1 DEF Stack
    <2> DEFINE k == Len(s)
    <2> HIDE DEF s, k
    <2>3. k <= 4
      BY <2>2 DEF k
    <2>4. s # <<>> => k \in 1..4 /\ k \in 1..k
      <3>1. s # <<>> => k \in Nat \ {0}
        BY <2>1 DEF k
      <3> QED BY <2>3, <3>1
    <2>5. s # <<>> => Fits(s[k], k, Under(s, k))
      BY <2>2, <2>4 DEF k
    <2> QED BY <2>1, <2>4, <2>5 DEF k
  <1> HIDE DEF s
  <1>4. s # <<>> => /\ u \in Users => s[1].fn \in {"set", "del"}
                    /\ u \in Workers => s[1].fn \in {"tsx", "refresh", "retry"}
    BY <1>1 DEF Tame
  <1>5. ASSUME u \in Users, s # <<>>, Last(s).fn \in {"refresh", "retry"} PROVE FALSE
    <2>1. Len(s) = 1
      BY <1>3, <1>5 DEF Fits
    <2> QED BY <1>3, <1>4, <1>5, <2>1
  <1>6. ASSUME u \in Users, s # <<>>, Last(s).fn = "tsx", Last(s).pc = "call"
        PROVE  Last(s).code = 503
    <2>1. Len(s) # 1
      BY <1>3, <1>4, <1>6
    <2>2. Len(s) \in 2..Len(s)
      BY <1>3, <1>6, <2>1
    <2> QED BY <1>1, <1>3, <1>6, <2>2 DEF Tame
  <1>7. u \in Users => \A r : ~Telling(s, r)
    BY <1>5, <1>6 DEF Telling
  <1>8. u \in Users => \A r, a, b : Covers(s, a, r) => Covers(s, b, r)
    BY <1>5 DEF Covers, Settles
  <1>9. u \notin Users => ~Calling(s)
    BY <1>2, <1>4 DEF Calling
  <1> QED BY <1>2, <1>4, <1>7, <1>8, <1>9 DEF s

\* With one of each, the threads other than the worker are users.
LEMMA OthersUse ==
    ASSUME OneOfEach, NEW t \in Thread, NEW u \in Thread, u # t
    PROVE  (t \in Workers => u \in Users) /\ (t \in Users => u \notin Users)
  BY DEF OneOfEach, Thread

LostOf(a) == [a EXCEPT !.told = FALSE]
WonOf(a) == [a EXCEPT !.active = FALSE, !.told = TRUE]
NoRegc(a) == [a EXCEPT !.regc = None]

\* What regc_cb leads to.
LEMMA RegcCbLeads ==
    ASSUME acc \in AccType, NEW q, NEW g, g \in FrameType
    PROVE  LET n == RegcCb(World, q, g)
           IN \/ (acc.regc # q \/ g.status = "EBUSY") /\ n = World
              \/ /\ acc.regc = q /\ reg[q].has_tsx
                 /\ n = WithAcc(World, LostOf(acc))
              \/ \E b \in AccType :
                    n = WithAcc(WithReg(World, q, Destroy(reg[q])), NoRegc(b))
              \/ /\ acc.regc = q /\ g.status = "ok" /\ g.code < 300 /\ g.exp
                 /\ n = WithAcc(World, WonOf(acc))
  <1> DEFINE a == acc
             n == RegcCb(World, q, g)
             lost == LostOf(a)
             won == [a EXCEPT !.active = FALSE, !.told = g.exp]
             later == ScheduleReregistration(lost)
             Out(b) == WithAcc(WithReg(World, q, Destroy(reg[q])), NoRegc(b))
  <1>1. /\ g.exp \in BOOLEAN /\ g.status \in {"ok", "error", "EBUSY"}
        /\ g.code \in {0, 200, 400, 401, 403, 423, 503}
    BY DEF FrameType
  <1>2. World.acc = a /\ World.reg = reg
    BY DEF World
  <1>3. AccFrom(a, lost) /\ AccFrom(a, won)
    <2>1. AccFrom(a, [a EXCEPT !.told = FALSE])
      BY <1>1, Accounts
    <2>2. AccFrom(a, won)
      BY <1>1, Accounts
    <2> QED BY <2>1, <2>2 DEF LostOf
  <1>4. lost \in AccType /\ won \in AccType
    BY <1>3 DEF AccFrom
  <1>5. later \in AccType
    <2> HIDE DEF lost
    <2>1. AccFrom(lost, later)
      BY <1>4, Accounts
    <2> QED BY <2>1 DEF AccFrom
  <1>6. g.exp => won = WonOf(a)
    BY DEF WonOf
  <1>7. \/ (a.regc # q \/ g.status = "EBUSY") /\ n = World
        \/ a.regc = q /\ reg[q].has_tsx /\ n = WithAcc(World, lost)
        \/ n \in {Out(lost), Out(later), Out(won)}
        \/ /\ a.regc = q /\ g.status = "ok" /\ g.code < 300 /\ g.exp
           /\ n = WithAcc(World, won)
    <2>1. \/ (a.regc # q \/ g.status = "EBUSY") /\ n = World
          \/ a.regc = q /\ reg[q].has_tsx /\ n = WithAcc(World, lost)
          \/ n \in {Out(lost), Out(later), Out(won)}
          \/ /\ a.regc = q /\ g.status # "error" /\ g.status # "EBUSY"
             /\ ~(g.code >= 300) /\ g.exp
             /\ n = WithAcc(World, won)
      <3> HIDE DEF a
      <3>1. CASE a.regc # q \/ g.status = "EBUSY"
        BY <1>2, <3>1 DEF RegcCb
      <3>2. CASE a.regc = q /\ g.status = "error"
        BY <1>2, <3>2 DEF RegcCb, LostOf, NoRegc
      <3>3. CASE a.regc = q /\ g.status # "error" /\ g.status # "EBUSY" /\ g.code >= 300
        BY <1>2, <3>3 DEF RegcCb, LostOf, NoRegc
      <3>4. CASE a.regc = q /\ g.status # "error" /\ g.status # "EBUSY" /\ ~(g.code >= 300)
        BY <1>2, <3>4 DEF RegcCb, NoRegc
      <3> HIDE DEF n, lost, won, later, Out
      <3> QED BY <3>1, <3>2, <3>3, <3>4
    <2>2. ~(g.code >= 300) => g.code < 300
      BY <1>1
    <2> HIDE DEF n, lost, won, later, Out, a
    <2> QED BY <1>1, <2>1, <2>2
  <1> HIDE DEF lost, won, later, n
  <1>8. n \in {Out(lost), Out(later), Out(won)} => \E b \in AccType : n = Out(b)
    <2> HIDE DEF Out
    <2> QED BY <1>4, <1>5
  <1> QED BY <1>6, <1>7, <1>8 DEF n, lost

\* The account has given its session up.
LEMMA NobodyDue ==
    ASSUME Inv, TInv, NEW t \in Thread, NEW s, OnlyOf(t, s), Tame(t, s),
           acc'.regc = None
    PROVE  TInv'
  BY Arrives

\* The application was told that its account is registered, or is not: what
\* the worker was about to say was looked after.
LEMMA CallTends ==
    ASSUME OneOfEach, Inv, Inv', TInv, NEW t \in Thread, Call(t)
    PROVE  TInv'
  <1> DEFINE s == stk[t]
             g == Last(s)
             q == g.r
             f == DecFrame(g.fn, q)
             n == Turned(s, f)
             x == Destroy(reg[q])
             r == acc.regc
             a == acc.active
  <1>1. PICK fn \in {"tsx", "refresh"} : At(t, fn, "call")
    BY DEF Call
  <1>2. /\ s # <<>> /\ g.fn = fn /\ g.pc = "call" /\ Top(t) = g
        /\ g \in FrameType /\ q \in Regc /\ s \in Seq(FrameType)
        /\ Fits(g, Len(s), Under(s, Len(s))) /\ Len(s) \in 1..4
    BY <1>1, Here
  <1>3. t \in DOMAIN stk /\ World = Made(reg, acc, Stacked(stk, t, s), net, pjsua)
    BY WorldMade
  <1>4. Become(Done(RegcCb(World, q, g), t))
    BY <1>2 DEF Call
  <1>5. acc \in AccType /\ Tame(t, s)
    BY InvOf DEF TInv
  <1> HIDE DEF s, g, q, x
  <1>6. g.fn \in Fns /\ g.fn \in {"tsx", "refresh"} /\ g.fn # "set" /\ g.fn # "send"
    BY <1>1, <1>2 DEF FrameType
  <1>7. f \in FrameType /\ f.fn = g.fn /\ f.pc = "dec" /\ f.r = q
    BY <1>2, <1>6, DecIs
  <1>8. Tame(t, n)
    <2> HIDE DEF f
    <2> QED BY <1>2, <1>5, <1>7, TameTurn DEF g
  <1>9. ASSUME NEW h, NEW b, Become(Done(Made(h, b, Stacked(stk, t, s), net, pjsua), t))
        PROVE  reg' = h /\ acc' = b /\ OnlyOf(t, n)
    <2>1. Done(Made(h, b, Stacked(stk, t, s), net, pjsua), t)
             = Made(h, b, Stacked(stk, t, n), net, pjsua)
      BY <1>3, DoneMade DEF g, q
    <2> HIDE DEF n
    <2> QED BY <1>9, <2>1, BecameOf
  <1> HIDE DEF f, n
  <1>10. CASE (acc.regc # q \/ g.status = "EBUSY") /\ RegcCb(World, q, g) = World
    <2>1. reg' = reg /\ acc' = acc /\ OnlyOf(t, n)
      BY <1>3, <1>4, <1>9, <1>10
    <2>2. Quietly(t, Turned(s, f))
      BY <2>1 DEF Quietly, n
    <2>3. ASSUME r # None, Keen(reg[r], g, a, r) \/ WillTell(f, r)
          PROVE  Keen(reg'[r], f, a, r)
      <3>1. ~WillTell(f, r)
        BY <1>7 DEF WillTell
      <3>2. CASE r # q
        BY <1>6, <2>1, <2>3, <3>1, <3>2, KeenElse DEF q, Keen
      <3>3. CASE g.status = "EBUSY"
        BY <1>2, <1>6, <2>1, <2>3, <3>1, <3>3 DEF Keen, Settles, Failing
      <3> QED BY <1>10, <3>2, <3>3
    <2>4. f.fn # "set" /\ f.pc # "call"
      BY <1>6, <1>7
    <2> QED BY <1>2, <1>7, <2>2, <2>3, <2>4, TurnQuiet DEF s, g
  <1>11. CASE /\ acc.regc = q /\ reg[q].has_tsx
              /\ RegcCb(World, q, g) = WithAcc(World, LostOf(acc))
    <2> DEFINE b == LostOf(acc)
    <2>0. b.regc = acc.regc /\ b.valid = acc.valid
      BY <1>5 DEF LostOf, AccType
    <2> HIDE DEF b
    <2>1. reg' = reg /\ acc' = b /\ OnlyOf(t, n)
      <3>1. WithAcc(World, b) = Made(reg, b, Stacked(stk, t, s), net, pjsua)
        BY <1>3, MadeWith
      <3> QED BY <1>4, <1>9, <1>11, <3>1 DEF b
    <2>2. Tended'
      BY <1>11, <2>0, <2>1 DEF Tended
    <2>3. ~acc'.valid => acc'.regc = None
      BY <2>0, <2>1 DEF TInv
    <2> QED BY <1>8, <2>1, <2>2, <2>3, Arrives
  <1>12. CASE \E b \in AccType :
                 RegcCb(World, q, g) = WithAcc(WithReg(World, q, x), NoRegc(b))
    <2>1. PICK b \in AccType :
                 RegcCb(World, q, g) = WithAcc(WithReg(World, q, x), NoRegc(b))
      BY <1>12
    <2> DEFINE c == NoRegc(b)
               h == Swap(reg, q, x)
    <2>2. c.regc = None
      BY DEF NoRegc, AccType
    <2> HIDE DEF c, h
    <2>3. WithAcc(WithReg(World, q, x), c) = Made(h, c, Stacked(stk, t, s), net, pjsua)
      <3>1. WithReg(World, q, x) = Made(h, acc, Stacked(stk, t, s), net, pjsua)
        BY <1>3, MadeReg DEF h
      <3> QED BY <3>1, MadeWith
    <2>4. acc' = c /\ OnlyOf(t, n)
      BY <1>4, <1>9, <2>1, <2>3 DEF c
    <2> QED BY <1>8, <2>2, <2>4, NobodyDue
  <1>13. CASE /\ acc.regc = q /\ g.status = "ok" /\ g.code < 300 /\ g.exp
              /\ RegcCb(World, q, g) = WithAcc(World, WonOf(acc))
    <2> DEFINE b == WonOf(acc)
    <2>0. /\ b.regc = acc.regc /\ b.valid = acc.valid /\ b.refused = acc.refused
      BY <1>5 DEF WonOf, AccType
    <2> HIDE DEF b
    <2>1. reg' = reg /\ acc' = b /\ OnlyOf(t, n)
      <3>1. WithAcc(World, b) = Made(reg, b, Stacked(stk, t, s), net, pjsua)
        BY <1>3, MadeWith
      <3> QED BY <1>4, <1>9, <1>13, <3>1 DEF b
    <2>2. Telling(s, r) /\ r # None
      BY <1>2, <1>6, <1>13, RegAssumption DEF Telling, g, q
    <2>3. Tended
      BY <2>2 DEF TInv, Due, s
    <2>4. Len(s) = 1 /\ g = s[1]
      <3>1. Last(s) = s[Len(s)]
        BY DEF Last
      <3>2. Len(s) \in 2..Len(s) /\ g.fn = "tsx" => g.code = 503
        BY <1>2, <1>5, <3>1 DEF Tame, g
      <3>3. g.fn = "refresh" => Len(s) = 1
        BY <1>2 DEF Fits
      <3>4. ~(g.code = 503)
        BY <1>13
      <3>5. Len(s) = 1
        <4> DEFINE k == Len(s)
        <4>1. k \in 1..4 /\ (k \in 2..k /\ g.fn = "tsx" => g.code = 503)
          BY <1>2, <3>2
        <4> HIDE DEF k
        <4>2. k # 1 => k \in 2..k
          BY <4>1
        <4>3. g.fn = "tsx" => k = 1
          BY <3>4, <4>1, <4>2
        <4> QED BY <1>6, <3>3, <4>3 DEF k
      <3> QED BY <3>1, <3>5 DEF g
    <2>5. t \in Workers
      BY <1>2, <1>6, <2>4, ByRole DEF s
    <2>6. n # <<>> /\ n[1].fn = g.fn
      <3>1. n # <<>> /\ n[1].fn = s[1].fn
        <4>1. n # <<>> /\ Len(n) = Len(s) /\ n[Len(s)] = f
          BY <1>2, <1>7, TurnedFacts DEF n
        <4> QED BY <1>7, <2>4, <4>1
      <3> QED BY <2>4, <3>1
    <2>7. stk'[t] = n /\ \A u \in Thread : u # t => stk'[u] = stk[u]
      BY <2>1, OnlyStack
    <2>8. ASSUME reg[r].timer \/ reg[r].has_tsx PROVE Tended'
      <3>1. reg'[acc'.regc] = reg[r]
        BY <2>0, <2>1
      <3>2. reg'[acc'.regc].timer \/ reg'[acc'.regc].has_tsx
        BY <2>8, <3>1
      <3> QED BY <3>2 DEF Tended
    <2>9. ASSUME Shown PROVE Tended'
      <3>1. ~Calling(n)
        BY <1>6, <2>6 DEF Calling
      <3>2. \A u \in Thread : ~Calling(stk'[u])
        BY <2>7, <2>9, <3>1 DEF Shown
      <3>3. acc'.refused
        BY <2>0, <2>1, <2>9 DEF Shown
      <3>4. Shown'
        BY <3>2, <3>3 DEF Shown
      <3> QED BY <3>4 DEF Tended
    <2>10. ASSUME NEW u \in Thread, Covers(stk[u], acc.active, r) PROVE Tended'
      <3>1. u # t
        <4>1. ~Settles(g, acc.active, r)
          <5>1. g.status # "error" /\ ~(g.code >= 300) /\ g.exp /\ g.pc = "call"
            <6>1. g.code \in {0, 200, 400, 401, 403, 423, 503}
              BY <1>2 DEF FrameType
            <6> QED BY <1>2, <1>13, <6>1
          <5> QED BY <1>6, <5>1 DEF Settles
        <4>2. \A i \in 1..Len(s) : s[i] = g
          BY <2>4
        <4>3. ~Failing(g, r) /\ g.fn # "del"
          BY <1>6 DEF Failing
        <4> QED BY <2>4, <2>10, <4>1, <4>2, <4>3 DEF Covers, s, g
      <3>2. u \in Users
        BY <2>5, <3>1, OthersUse
      <3>3. Covers(stk'[u], acc'.active, r)
        BY <2>7, <2>10, <3>1, <3>2, ByRole
      <3> QED BY <2>0, <2>1, <3>3 DEF Tended
    <2>11. Tended'
      <3>1. \/ reg[r].timer \/ reg[r].has_tsx \/ Shown
            \/ \E u \in Thread : Covers(stk[u], acc.active, r)
        BY <2>3 DEF Tended
      <3> HIDE DEF r
      <3> QED BY <2>8, <2>9, <2>10, <3>1
    <2>12. ~acc'.valid => acc'.regc = None
      BY <2>0, <2>1 DEF TInv
    <2> QED BY <1>8, <2>1, <2>11, <2>12, Arrives
  <1>14. LET v == RegcCb(World, q, g)
         IN \/ (acc.regc # q \/ g.status = "EBUSY") /\ v = World
            \/ /\ acc.regc = q /\ reg[q].has_tsx
               /\ v = WithAcc(World, LostOf(acc))
            \/ \E b \in AccType :
                  v = WithAcc(WithReg(World, q, Destroy(reg[q])), NoRegc(b))
            \/ /\ acc.regc = q /\ g.status = "ok" /\ g.code < 300 /\ g.exp
               /\ v = WithAcc(World, WonOf(acc))
    BY <1>2, <1>5, RegcCbLeads
  <1> QED BY <1>10, <1>11, <1>12, <1>13, <1>14 DEF x

\* pjsua_acc_set_registration at the top, called by the user or under the
\* account's deletion or a retry.
LEMMA HereSet ==
    ASSUME Inv, NEW t \in Thread, NEW pc, pc \in {"sent", "flag"}, At(t, "set", pc)
    PROVE  LET s == stk[t]
               g == Last(s)
               b == Last(Front(s))
           IN /\ s # <<>> /\ g.fn = "set" /\ g.pc = pc /\ g.r \in Regc /\ Top(t) = g
              /\ s \in Seq(FrameType) /\ Len(s) \in {1, 2} /\ g \in FrameType
              /\ Len(s) = 1 => s[1] = g /\ Front(s) = <<>>
              /\ Len(s) = 2 => /\ Front(s) # <<>> /\ b = s[1] /\ b.pc = "sent"
                               /\ b.fn \in {"del", "retry"}
  <1> DEFINE s == stk[t]
             g == Last(s)
             v == Front(s)
             b == Last(v)
             w == World
  <1>1. TopIs(World, t, "set", {pc}) /\ Good(World, pjsua) /\ World.stk = stk
    BY AtTop, WorldIs DEF Inv
  <1>2. /\ s # <<>> /\ g.fn = "set" /\ g.pc = pc /\ Top(t) = g /\ s \in Seq(FrameType)
        /\ g \in FrameType
    BY Here
  <1>3. {pc} \subseteq {"sent", "flag"}
    OBVIOUS
  <1>4. /\ g.r \in Regc /\ Len(s) \in {1, 2}
        /\ Len(s) = 2 => Under(s, Len(s)).fn \in {"del", "retry"}
    <2> HIDE DEF w
    <2>1. LET e == w.stk[t]
              d == Last(e)
          IN /\ d.r \in Regc /\ Len(e) \in {1, 2}
             /\ Len(e) = 2 => Under(e, Len(e)).fn \in {"del", "retry"}
      BY <1>1, <1>3, SetTop DEF w
    <2> QED BY <1>1, <2>1 DEF w
  <1>5. /\ Len(s) = 1 => v = <<>>
        /\ Len(s) # 1 => v # <<>> /\ Waits(Last(v))
    <2>1. LET e == w.stk[t]
              a == Front(e)
          IN /\ Len(e) = 1 => a = <<>>
             /\ Len(e) # 1 => a # <<>> /\ Waits(Last(a))
      <3> HIDE DEF w
      <3> QED BY <1>1, <1>3, SetUnder DEF w
    <2> QED BY <1>1, <2>1
  <1>6. Last(s) = s[Len(s)]
    BY DEF Last
  <1>7. Len(s) = 2 => b = s[1]
    <2>1. Len(v) = Len(s) - 1 /\ \A i \in 1..(Len(s) - 1) : v[i] = s[i]
      BY <1>2, FrontFacts
    <2>2. b = v[Len(v)]
      BY DEF Last
    <2> HIDE DEF v, s, b
    <2> QED BY <2>1, <2>2
  <1>8. Len(s) = 2 => Under(s, Len(s)) = s[1]
    BY DEF Under
  <1> HIDE DEF s, g, v, b
  <1>9. Len(s) = 2 => b.fn \in {"del", "retry"} /\ b.pc = "sent"
    BY <1>4, <1>5, <1>7, <1>8 DEF Waits, b
  <1>10. Len(s) = 1 => s[1] = g
    BY <1>6 DEF g
  <1> QED BY <1>2, <1>4, <1>5, <1>7, <1>9, <1>10 DEF s, g, v, b

RefusedIf(a, st) == [a EXCEPT !.refused = st # "ok"]

\* It returns.
LEMMA EndSetMade ==
    ASSUME NEW h, NEW a, NEW k, NEW m, NEW p, NEW t, NEW s, t \in DOMAIN k
    PROVE  LET st == Last(s).status
           IN EndSet(Made(h, a, Stacked(k, t, s), m, p), t)
                 = IF Len(s) > 1
                   THEN Made(h, a, Stacked(k, t, Turned(Front(s),
                             WithStatus(Last(Front(s)), st))), m, p)
                   ELSE Made(h, RefusedIf(a, st), Stacked(k, t, Front(s)), m, None)
  <1> DEFINE w == Made(h, a, Stacked(k, t, s), m, p)
             st == Last(s).status
             f == WithStatus(Last(Front(s)), st)
             v == Made(h, a, Stacked(k, t, Front(s)), m, p)
  <1>1. w.stk[t] = s /\ w.acc = a
    BY TopMade, MadeFields
  <1>2. Return(w, t, st) = Made(h, a, Stacked(k, t, Turned(Front(s), f)), m, p)
    BY ReturnMade
  <1>3. Pop(w, t) = v
    BY PopMade
  <1>4. EndSet(w, t) = IF Len(s) > 1 THEN Return(w, t, st)
                       ELSE WithPjsua(WithAcc(Pop(w, t), RefusedIf(a, st)), None)
    <2> HIDE DEF w
    <2> QED BY <1>1 DEF EndSet, RefusedIf
  <1> DEFINE b == RefusedIf(a, st)
  <1> HIDE DEF w, f, b
  <1>5. WithPjsua(WithAcc(v, b), None) = Made(h, b, Stacked(k, t, Front(s)), m, None)
    BY MadeWith
  <1> QED BY <1>2, <1>3, <1>4, <1>5 DEF w, f, b

\* The application learns whether its call was refused, and its session is
\* what it was.
LEMMA EndSetTends ==
    ASSUME OneOfEach, Inv, Inv', TInv, NEW t \in Thread, NEW pc,
           pc \in {"sent", "flag"}, At(t, "set", pc), NEW h, NEW p,
           Become(EndSet(Made(h, acc, Stacked(stk, t, stk[t]), net, p), t)),
           acc.regc # None =>
              LET r == acc.regc
              IN h[r].timer = reg[r].timer /\ h[r].has_tsx = reg[r].has_tsx
    PROVE  TInv'
  <1> DEFINE s == stk[t]
             g == Last(s)
             v == Front(s)
             b == Last(v)
             st == g.status
             r == acc.regc
             a == acc.active
  <1>1. /\ s # <<>> /\ g.fn = "set" /\ g.pc = pc /\ g.r \in Regc
        /\ s \in Seq(FrameType) /\ Len(s) \in {1, 2} /\ g \in FrameType
        /\ Len(s) = 1 => s[1] = g /\ v = <<>>
        /\ Len(s) = 2 => /\ v # <<>> /\ b = s[1] /\ b.pc = "sent"
                         /\ b.fn \in {"del", "retry"}
    BY HereSet
  <1>2. t \in DOMAIN stk /\ acc \in AccType /\ Tame(t, s)
    BY InvOf DEF TInv
  <1>3. EndSet(Made(h, acc, Stacked(stk, t, s), net, p), t)
           = IF Len(s) > 1
             THEN Made(h, acc, Stacked(stk, t, Turned(v, WithStatus(b, st))), net, p)
             ELSE Made(h, RefusedIf(acc, st), Stacked(stk, t, v), net, None)
    BY <1>2, EndSetMade
  <1>4. r # None => h[r].timer = reg[r].timer /\ h[r].has_tsx = reg[r].has_tsx
    OBVIOUS
  <1>5. Become(EndSet(Made(h, acc, Stacked(stk, t, s), net, p), t))
    OBVIOUS
  <1> HIDE DEF s, g, v, b, st
  <1>6. st \in {"ok", "error", "EBUSY"}
    BY <1>1 DEF st, FrameType
  <1>7. CASE Len(s) = 2
    <2> DEFINE f == WithStatus(b, st)
               n == Turned(v, f)
    <2>1. Become(Made(h, acc, Stacked(stk, t, n), net, p))
      BY <1>3, <1>5, <1>7
    <2>2. b \in FrameType
      <3>1. v \in Seq(FrameType)
        BY <1>1, FrontFacts DEF v
      <3> QED BY <1>1, <1>7, <3>1, FrontFacts DEF b
    <2>3. f.fn = b.fn /\ f.pc = "sent" /\ f.status = st
      BY <1>1, <1>6, <1>7, <2>2, WithStatusIs
    <2>4. reg' = h /\ acc' = acc /\ OnlyOf(t, n)
      <3> HIDE DEF n
      <3> QED BY <2>1, BecameOf
    <2>5. Quietly(t, Turned(v, f))
      BY <2>4 DEF Quietly
    <2> HIDE DEF n, f
    <2>6. ASSUME r # None, Keen(reg[r], g, a, r)
          PROVE  reg'[r].timer \/ reg'[r].has_tsx \/ Settles(f, a, r) \/ s[1].fn = "del"
      <3>1. CASE reg[r].timer \/ reg[r].has_tsx
        BY <1>4, <2>4, <2>6, <3>1
      <3>2. CASE Settles(g, a, r) \/ Failing(g, r)
        <4>1. st # "ok"
          BY <1>1, <3>2 DEF Settles, Failing, st
        <4> QED BY <1>1, <1>7, <2>3, <4>1 DEF Settles
      <3> QED BY <2>6, <3>1, <3>2 DEF Keen
    <2>7. b.fn # "send" /\ b.pc = "sent" /\ v # <<>> /\ g.fn # "del"
      BY <1>1, <1>7
    <2> QED BY <1>1, <1>6, <2>5, <2>6, <2>7, ReturnQuiet DEF s, g, v, b, f
  <1>8. CASE Len(s) = 1
    <2> DEFINE c == RefusedIf(acc, st)
    <2>1. Become(Made(h, c, Stacked(stk, t, v), net, None))
      BY <1>3, <1>5, <1>8
    <2>2. /\ c.regc = acc.regc /\ c.valid = acc.valid /\ c.active = acc.active
          /\ c.told = acc.told /\ c.retry = acc.retry
          /\ st # "ok" => c.refused
      BY <1>2 DEF RefusedIf, AccType
    <2> HIDE DEF c
    <2>3. reg' = h /\ acc' = c /\ OnlyOf(t, v)
      BY <2>1, BecameOf
    <2>4. v = <<>> /\ s[1] = g
      BY <1>1, <1>8
    <2>5. stk'[t] = <<>> /\ \A u \in Thread : u # t => stk'[u] = stk[u]
      BY <2>3, <2>4, OnlyStack
    <2>6. Tame(t, v)
      BY <1>1, <1>2, TamePop DEF v
    <2>7. t \in Users
      BY <1>1, <2>4, ByRole DEF s
    <2>8. \A u \in Thread : ~Calling(stk'[u])
      <3>1. ASSUME NEW u \in Thread, u # t PROVE ~Calling(stk[u])
        BY <2>7, <3>1, OthersUse, ByRole
      <3> QED BY <2>5, <3>1 DEF Calling
    <2>9. ~Shown
      <3>1. Calling(s)
        BY <1>1, <2>4 DEF Calling
      <3> QED BY <3>1 DEF Shown, s
    <2>10. ASSUME Due' PROVE Due
      <3>1. ASSUME NEW u \in Thread, Telling(stk'[u], r) PROVE Telling(stk[u], r)
        BY <2>5, <3>1 DEF Telling
      <3> QED BY <2>2, <2>3, <2>10, <3>1 DEF Due
    <2>11. ASSUME Due' PROVE Tended'
      <3>1. Tended /\ r # None
        BY <2>10, <2>11 DEF TInv, Due
      <3>2. ASSUME reg[r].timer \/ reg[r].has_tsx PROVE Tended'
        <4>1. reg'[acc'.regc].timer \/ reg'[acc'.regc].has_tsx
          BY <1>4, <2>2, <2>3, <3>1, <3>2
        <4> QED BY <4>1 DEF Tended
      <3>3. ASSUME NEW u \in Thread, Covers(stk[u], a, r) PROVE Tended'
        <4>1. CASE u = t
          <5>1. \A i \in 1..Len(s) : s[i] = g
            BY <1>8, <2>4
          <5>2. Settles(g, a, r) \/ Failing(g, r)
            BY <1>1, <2>4, <3>3, <4>1, <5>1 DEF Covers, s, g
          <5>3. st # "ok"
            BY <1>1, <5>2 DEF Settles, Failing, st
          <5>4. acc'.refused
            BY <2>2, <2>3, <5>3
          <5>5. Shown'
            BY <2>8, <5>4 DEF Shown
          <5> QED BY <5>5 DEF Tended
        <4>2. CASE u # t
          <5>1. Covers(stk'[u], acc'.active, acc'.regc)
            BY <2>2, <2>3, <2>5, <3>3, <4>2
          <5> QED BY <5>1 DEF Tended
        <4> QED BY <4>1, <4>2
      <3>4. \/ reg[r].timer \/ reg[r].has_tsx
            \/ \E u \in Thread : Covers(stk[u], a, r)
        BY <2>9, <3>1 DEF Tended
      <3> HIDE DEF r, a
      <3> QED BY <3>2, <3>3, <3>4
    <2>12. ~acc'.valid => acc'.regc = None
      BY <2>2, <2>3 DEF TInv
    <2> QED BY <2>3, <2>6, <2>11, <2>12, Arrives
  <1> QED BY <1>1, <1>7, <1>8

\* The user's reference is given back.
LEMMA SetSentTends ==
    ASSUME OneOfEach, Inv, Inv', TInv, NEW t \in Thread, SetSent(t)
    PROVE  TInv'
  <1> DEFINE s == stk[t]
             g == Last(s)
             q == g.r
             n == reg[q].busy - 1
             x == Busied(reg[q], n)
             h == Swap(reg, q, x)
             f == WithPc(g, "flag")
             w == WithPjsua(WithReg(World, q, x), t)
             r == acc.regc
             a == acc.active
  <1>1. At(t, "set", "sent")
    BY DEF SetSent
  <1>2. /\ s # <<>> /\ g.fn = "set" /\ g.pc = "sent" /\ Top(t) = g
        /\ g \in FrameType /\ q \in Regc /\ s \in Seq(FrameType)
    BY <1>1, HereSet
  <1>3. t \in DOMAIN stk /\ World = Made(reg, acc, Stacked(stk, t, s), net, pjsua)
    BY WorldMade
  <1>4. x.timer = reg[q].timer /\ x.has_tsx = reg[q].has_tsx
    <2>1. reg[q] \in SessionType
      BY <1>2, InvOf
    <2> HIDE DEF n
    <2> QED BY <2>1 DEF Busied, SessionType
  <1>5. Become(IF n = 0 THEN Goto(w, t, "flag") ELSE EndSet(w, t))
    BY <1>2 DEF SetSent, Busied
  <1> HIDE DEF x, n, s, g, q
  <1>6. w = Made(h, acc, Stacked(stk, t, s), net, t)
    <2>1. WithReg(World, q, x) = Made(h, acc, Stacked(stk, t, s), net, pjsua)
      BY <1>3, MadeReg
    <2> HIDE DEF h
    <2> QED BY <2>1, MadeWith
  <1>7. r # None => h[r].timer = reg[r].timer /\ h[r].has_tsx = reg[r].has_tsx
    BY <1>2, <1>4, SwapTends
  <1> HIDE DEF w, h
  <1>8. CASE Become(Goto(w, t, "flag"))
    <2>1. f \in FrameType /\ f.fn = g.fn /\ f.pc = "flag" /\ f.status = g.status
      <3>1. f \in FrameType /\ f.fn = g.fn /\ f.pc = "flag"
        BY <1>2, WithPcIs DEF Pcs
      <3>2. f.status = g.status
        BY <1>2 DEF WithPc, FrameType
      <3> QED BY <3>1, <3>2
    <2>2. Become(Made(h, acc, Stacked(stk, t, Turned(s, f)), net, t))
      BY <1>3, <1>6, <1>8, GotoMade DEF g
    <2> HIDE DEF f
    <2>3. ASSUME r # None, Keen(reg[r], g, a, r) \/ WillTell(f, r)
          PROVE  Keen(h[r], f, a, r)
      BY <1>2, <1>7, <2>1, <2>3 DEF Keen, WillTell, Settles, Failing
    <2> QED BY <1>2, <2>1, <2>2, <2>3, TurnMade DEF s, g
  <1>9. CASE Become(EndSet(w, t))
    BY <1>1, <1>6, <1>7, <1>9, EndSetTends DEF s
  <1> QED BY <1>5, <1>8, <1>9

\* The session may go, if it is to be deleted, which the account's is not.
LEMMA SetFlagTends ==
    ASSUME OneOfEach, Inv, Inv', TInv, NEW t \in Thread, SetFlag(t)
    PROVE  TInv'
  <1> DEFINE s == stk[t]
             g == Last(s)
             q == g.r
             x == Destroy(reg[q])
             h == Swap(reg, q, x)
             r == acc.regc
  <1>1. At(t, "set", "flag")
    BY DEF SetFlag
  <1>2. Top(t) = g /\ q \in Regc
    BY <1>1, HereSet
  <1>3. World = Made(reg, acc, Stacked(stk, t, s), net, pjsua)
    BY WorldMade
  <1>4. \/ reg[q].delete_flag /\ Become(EndSet(WithReg(World, q, x), t))
        \/ Become(EndSet(World, t))
    BY <1>2 DEF SetFlag
  <1>5. r # None => ~reg[r].delete_flag
    BY InvOf
  <1> HIDE DEF x, s, q
  <1>6. CASE reg[q].delete_flag /\ Become(EndSet(WithReg(World, q, x), t))
    <2>1. WithReg(World, q, x) = Made(h, acc, Stacked(stk, t, s), net, pjsua)
      BY <1>3, MadeReg
    <2>2. r # None => h[r] = IF r = q THEN x ELSE reg[r]
      BY <1>2, SwapOther
    <2> HIDE DEF h
    <2>3. r # None => h[r].timer = reg[r].timer /\ h[r].has_tsx = reg[r].has_tsx
      BY <1>5, <1>6, <2>2
    <2> QED BY <1>1, <1>6, <2>1, <2>3, EndSetTends DEF s
  <1>7. CASE Become(EndSet(World, t))
    BY <1>1, <1>3, <1>7, EndSetTends DEF s
  <1> QED BY <1>4, <1>6, <1>7

-----------------------------------------------------------------------------
(* The user's calls and the retries.                                       *)

AccWith(a, r) == [a EXCEPT !.regc = r, !.retry = FALSE]
SetFrame(r, b) == Frame("set", "sent", r, b)
SendFrame(r, b) == Frame("send", "start", r, b)

\* What pjsua_acc_set_registration leaves to be sent.
LEMMA BeginSetMade ==
    ASSUME NEW h, NEW a, NEW k, NEW m, NEW p, NEW t, NEW s, t \in DOMAIN k,
           NEW r, NEW renew
    PROVE  \E g : BeginSet(Made(h, a, Stacked(k, t, s), m, p), t, r, renew)
                     = Made(g, AccWith(a, r),
                            Stacked(k, t, Append(Append(s, SetFrame(r, ~renew)),
                                                 SendFrame(r, ~renew))), m, p)
  <1> DEFINE w == Made(h, a, Stacked(k, t, s), m, p)
             z == AddRef(IF a.regc = None THEN NewRegc ELSE CancelTimer(h[r]))
             b == AccWith(a, r)
             f == SetFrame(r, ~renew)
             e == SendFrame(r, ~renew)
             g == Swap(h, r, z)
             n == Append(s, f)
  <1>1. w.acc = a /\ w.reg = h
    BY MadeFields
  <1>2. BeginSet(w, t, r, renew) = Push(Push(WithAcc(WithReg(w, r, z), b), t, f), t, e)
    <2> HIDE DEF w
    <2> QED BY <1>1 DEF BeginSet, AccWith, SetFrame, SendFrame
  <1>3. WithReg(w, r, z) = Made(g, a, Stacked(k, t, s), m, p)
    BY MadeReg
  <1> HIDE DEF z, b, f, e, g, w
  <1>4. WithAcc(WithReg(w, r, z), b) = Made(g, b, Stacked(k, t, s), m, p)
    BY <1>3, MadeWith
  <1>5. Push(WithAcc(WithReg(w, r, z), b), t, f) = Made(g, b, Stacked(k, t, n), m, p)
    BY <1>4, PushMade
  <1> HIDE DEF n
  <1>6. Push(Push(WithAcc(WithReg(w, r, z), b), t, f), t, e)
           = Made(g, b, Stacked(k, t, Append(n, e)), m, p)
    BY <1>5, PushMade
  <1>7. BeginSet(w, t, r, renew) = Made(g, b, Stacked(k, t, Append(n, e)), m, p)
    BY <1>2, <1>6
  <1> QED BY <1>7 DEF w, b, n, f, e

\* It will be sent, or refused, which its caller learns.
LEMMA SetsTends ==
    ASSUME Inv, Inv', TInv, NEW t \in Thread, acc.valid, NEW s,
           s \in Seq(FrameType), Tame(t, s), s = <<>> => t \in Users, NEW r \in Regc,
           NEW renew \in BOOLEAN, NEW w,
           w = Made(reg, acc, Stacked(stk, t, s), net, pjsua),
           \/ Become(BeginSet(w, t, r, renew))
           \/ Become(WithPjsua(BeginSet(w, t, r, renew), t))
    PROVE  TInv'
  <1> DEFINE b == AccWith(acc, r)
             u == ~renew
             f == SetFrame(r, u)
             e == SendFrame(r, u)
             v == Append(s, f)
             n == Append(v, e)
  <1>1. t \in DOMAIN stk /\ acc \in AccType /\ u \in BOOLEAN
    BY InvOf
  <1>2. PICK g : BeginSet(w, t, r, renew) = Made(g, b, Stacked(stk, t, n), net, pjsua)
    BY <1>1, BeginSetMade
  <1>3. b.regc = r /\ b.valid
    BY <1>1 DEF AccWith, AccType
  <1> HIDE DEF u
  <1>4. f \in FrameType /\ f.fn = "set" /\ f.pc = "sent"
    BY <1>1, FrameIs DEF Fns, Pcs, SetFrame
  <1>5. e \in FrameType /\ e.fn = "send" /\ e.pc = "start" /\ e.r = r
    BY <1>1, FrameIs DEF Fns, Pcs, SendFrame
  <1> HIDE DEF b, f, e, n
  <1>6. acc' = b /\ OnlyOf(t, n)
    <2>1. \E p : Become(Made(g, b, Stacked(stk, t, n), net, p))
      <3>1. CASE Become(BeginSet(w, t, r, renew))
        BY <1>2, <3>1
      <3>2. CASE Become(WithPjsua(BeginSet(w, t, r, renew), t))
        <4>1. WithPjsua(BeginSet(w, t, r, renew), t)
                 = Made(g, b, Stacked(stk, t, n), net, t)
          BY <1>2, MadeWith
        <4> QED BY <3>2, <4>1
      <3> QED BY <3>1, <3>2
    <2> QED BY <2>1, BecameOf
  <1>7. v \in Seq(FrameType) /\ v # <<>> /\ Tame(t, v)
    <2>1. v \in Seq(FrameType) /\ v # <<>>
      BY <1>4, AppendFacts
    <2>2. t \in Users => t \notin Workers
      BY RegAssumption
    <2>3. Tame(t, v)
      BY <1>4, <2>2, TamePush
    <2> QED BY <2>1, <2>3
  <1> HIDE DEF v
  <1>8. Tame(t, n)
    BY <1>5, <1>7, TamePush DEF n
  <1>9. n # <<>> /\ Last(n) = e
    BY <1>5, <1>7, AppendFacts DEF n
  <1>10. \A a : Covers(n, a, r)
    BY <1>5, <1>9 DEF Covers, Settles
  <1>11. stk'[t] = n
    BY <1>6, OnlyStack
  <1>12. Tended'
    BY <1>3, <1>6, <1>10, <1>11 DEF Tended
  <1>13. ~acc'.valid => acc'.regc = None
    BY <1>3, <1>6
  <1> QED BY <1>6, <1>8, <1>12, <1>13, Arrives

\* The session to use is one.
LEMMA TargetIs ==
    ASSUME Inv, NEW renew
    PROVE  /\ Target(renew) \in Regc \cup {None}
           /\ Target(renew) = None => acc.regc = None
  <1>1. acc.regc # None => acc.regc \in Regc
    BY InvOf
  <1>2. Unused # {} => (CHOOSE r \in Unused : TRUE) \in Regc
    BY DEF Unused
  <1> QED BY <1>1, <1>2 DEF Target

\* A stack with nothing in it.
LEMMA TameNone ==
    ASSUME NEW t
    PROVE  Tame(t, <<>>) /\ <<>> \in Seq(FrameType)
  BY DEF Tame

\* The user's call: without a session there is nothing to look after.
LEMMA UserSets ==
    ASSUME Inv, Inv', TInv, NEW t \in Thread, t \in Users, acc.valid,
           NEW renew \in BOOLEAN, NEW w,
           w = Made(reg, acc, Stacked(stk, t, <<>>), net, pjsua),
           Become(Set(w, t, renew))
    PROVE  TInv'
  <1> DEFINE s == <<>>
             b == [acc EXCEPT !.retry = FALSE, !.refused = TRUE]
             r == Target(renew)
  <1>1. Tame(t, s) /\ s \in Seq(FrameType) /\ (s = <<>> => t \in Users)
    BY TameNone
  <1>2. r \in Regc \cup {None} /\ (r = None => acc.regc = None)
    BY TargetIs
  <1>3. b.regc = acc.regc
    BY InvOf DEF AccType
  <1>4. w.acc = acc /\ w = Made(reg, acc, Stacked(stk, t, s), net, pjsua)
    BY MadeFields
  <1> HIDE DEF s
  <1>5. CASE r = None
    <2>1. Become(WithAcc(w, b))
      BY <1>4, <1>5 DEF Set
    <2> HIDE DEF b, r
    <2>2. Become(Made(reg, b, Stacked(stk, t, s), net, pjsua))
      BY <1>4, <2>1, MadeWith
    <2>3. acc' = b /\ OnlyOf(t, s)
      BY <2>2, BecameOf
    <2> QED BY <1>1, <1>2, <1>3, <1>5, <2>3, NobodyDue
  <1>6. CASE r # None
    <2>1. Become(BeginSet(w, t, r, renew))
      BY <1>6 DEF Set
    <2>2. r \in Regc
      BY <1>2, <1>6
    <2> HIDE DEF r
    <2> QED BY <1>1, <1>4, <2>1, <2>2, SetsTends
  <1> QED BY <1>5, <1>6

\* The application registers or unregisters.
LEMMA SetRegistrationTends ==
    ASSUME Inv, Inv', TInv, NEW t \in Thread, NEW renew \in BOOLEAN,
           SetRegistration(t, renew)
    PROVE  TInv'
  <1>1. /\ t \in Users /\ stk[t] = <<>> /\ acc.valid
        /\ Become(Set(World, t, renew))
    BY DEF SetRegistration, Idle
  <1>2. World = Made(reg, acc, Stacked(stk, t, <<>>), net, pjsua)
    BY <1>1, WorldMade
  <1> QED BY <1>1, <1>2, UserSets

\* pjsua_acc_add goes on to register.
LEMMA SetBeginTends ==
    ASSUME Inv, Inv', TInv, NEW t \in Thread, SetBegin(t)
    PROVE  TInv'
  <1> DEFINE s == stk[t]
             g == Last(s)
             yes == TRUE
  <1>1. At(t, "set", "begin")
    BY DEF SetBegin
  <1>2. /\ s # <<>> /\ g.fn = "set" /\ g.pc = "begin" /\ s \in Seq(FrameType)
        /\ Fits(g, Len(s), Under(s, Len(s)))
    BY <1>1, Here
  <1>3. t \in DOMAIN stk /\ World = Made(reg, acc, Stacked(stk, t, s), net, pjsua)
    BY WorldMade
  <1>4. \/ acc.valid /\ Become(Set(Pop(World, t), t, yes))
        \/ ~acc.valid /\ Become(Pop(World, t))
    BY DEF SetBegin
  <1>5. yes \in BOOLEAN
    OBVIOUS
  <1> HIDE DEF yes, s, g
  <1>6. Len(s) = 1
    BY <1>2 DEF Fits
  <1>7. s[1] = g /\ Front(s) = <<>>
    <2>1. Last(s) = s[Len(s)] /\ Len(Front(s)) = Len(s) - 1 /\ Front(s) \in Seq(FrameType)
      BY <1>2, FrontFacts
    <2>2. Len(Front(s)) = 0
      BY <1>6, <2>1
    <2> QED BY <1>6, <2>1, <2>2 DEF g
  <1>8. t \in Users
    BY <1>2, <1>7, ByRole DEF s
  <1>9. Pop(World, t) = Made(reg, acc, Stacked(stk, t, Front(s)), net, pjsua)
    BY <1>3, PopMade
  <1>10. CASE acc.valid /\ Become(Set(Pop(World, t), t, yes))
    BY <1>5, <1>7, <1>8, <1>9, <1>10, UserSets
  <1>11. CASE ~acc.valid /\ Become(Pop(World, t))
    <2>1. acc.regc = None
      BY <1>11 DEF TInv
    <2>2. Become(Made(reg, acc, Stacked(stk, t, Front(s)), net, pjsua))
      BY <1>9, <1>11
    <2> QED BY <1>2, <2>1, <2>2, PopsMade DEF s, g
  <1> QED BY <1>4, <1>10, <1>11

\* An account comes: it has no session.
LEMMA AccAddTends ==
    ASSUME Inv, Inv', TInv, NEW t \in Thread, AccAdd(t)
    PROVE  TInv'
  <1> DEFINE s == stk[t]
             b == [acc EXCEPT !.valid = TRUE]
             no == FALSE
             f == Frame("set", "begin", None, no)
             n == Append(s, f)
  <1>1. t \in Users /\ s = <<>> /\ ~acc.valid /\ Become(Push(WithAcc(World, b), t, f))
    BY DEF AccAdd, Idle
  <1>2. t \in DOMAIN stk /\ World = Made(reg, acc, Stacked(stk, t, s), net, pjsua)
    BY WorldMade
  <1>3. b.regc = None /\ s \in Seq(FrameType) /\ Tame(t, s) /\ no \in BOOLEAN
    BY <1>1, InvOf DEF TInv, AccType
  <1> HIDE DEF b, s, no
  <1>4. f \in FrameType /\ f.fn = "set"
    BY <1>3, FrameIs DEF Fns, Pcs
  <1> HIDE DEF f
  <1>5. Tame(t, n)
    <2>1. t \notin Workers
      BY <1>1, RegAssumption
    <2> QED BY <1>3, <1>4, <2>1, TamePush
  <1>6. acc' = b /\ OnlyOf(t, n)
    <2>1. WithAcc(World, b) = Made(reg, b, Stacked(stk, t, s), net, pjsua)
      BY <1>2, MadeWith
    <2>2. Push(WithAcc(World, b), t, f) = Made(reg, b, Stacked(stk, t, n), net, pjsua)
      BY <1>2, <2>1, PushMade
    <2> HIDE DEF n
    <2> QED BY <1>1, <2>2, BecameOf
  <1> QED BY <1>3, <1>5, <1>6, NobodyDue

\* The account goes: its session is unregistered first.
LEMMA AccDelTends ==
    ASSUME Inv, Inv', TInv, NEW t \in Thread, AccDel(t)
    PROVE  TInv'
  <1> DEFINE s == stk[t]
             b == [acc EXCEPT !.valid = FALSE, !.retry = FALSE]
             no == FALSE
             f == Frame("del", "sent", None, no)
             r == acc.regc
             n == Append(s, f)
             w == Push(World, t, f)
  <1>1. t \in Users /\ s = <<>> /\ acc.valid
    BY DEF AccDel, Idle
  <1>2. \/ r = None /\ Become(WithAcc(World, b))
        \/ r # None /\ Become(WithPjsua(BeginSet(w, t, r, no), t))
    BY DEF AccDel
  <1>3. t \in DOMAIN stk /\ World = Made(reg, acc, Stacked(stk, t, s), net, pjsua)
    BY WorldMade
  <1>4. b.regc = r /\ s \in Seq(FrameType) /\ Tame(t, s) /\ no \in BOOLEAN
    BY InvOf DEF TInv, AccType
  <1>5. r # None => r \in Regc
    BY InvOf
  <1> HIDE DEF b, s, no
  <1>6. f \in FrameType /\ f.fn = "del"
    BY <1>4, FrameIs DEF Fns, Pcs
  <1> HIDE DEF f
  <1>7. CASE r = None /\ Become(WithAcc(World, b))
    <2>1. WithAcc(World, b) = Made(reg, b, Stacked(stk, t, s), net, pjsua)
      BY <1>3, MadeWith
    <2>2. acc' = b /\ OnlyOf(t, s)
      BY <1>7, <2>1, BecameOf
    <2> QED BY <1>4, <1>7, <2>2, NobodyDue
  <1>8. CASE r # None /\ Become(WithPjsua(BeginSet(w, t, r, no), t))
    <2>1. Tame(t, n)
      <3>1. t \notin Workers
        BY <1>1, RegAssumption
      <3> QED BY <1>4, <1>6, <3>1, TamePush
    <2>2. n \in Seq(FrameType) /\ n # <<>>
      BY <1>4, <1>6, AppendFacts
    <2>3. w = Made(reg, acc, Stacked(stk, t, n), net, pjsua)
      BY <1>3, PushMade
    <2> HIDE DEF w, n, r
    <2> QED BY <1>1, <1>4, <1>5, <1>8, <2>1, <2>2, <2>3, SetsTends
  <1> QED BY <1>2, <1>7, <1>8

\* The retry timer's callback, and the account's deletion, are called by nobody.
LEMMA HereAlone ==
    ASSUME Inv, TInv, NEW t \in Thread, NEW fn \in {"retry", "del"}, NEW pc,
           At(t, fn, pc)
    PROVE  LET s == stk[t]
               g == Last(s)
           IN /\ s # <<>> /\ g.fn = fn /\ g.pc = pc /\ Top(t) = g /\ g \in FrameType
              /\ s \in Seq(FrameType) /\ s[1] = g /\ Front(s) = <<>>
              /\ fn = "retry" => t \in Workers
              /\ fn = "del" => t \in Users
  <1> DEFINE s == stk[t]
             g == Last(s)
  <1>1. /\ s # <<>> /\ g.fn = fn /\ g.pc = pc /\ Top(t) = g /\ g \in FrameType
        /\ s \in Seq(FrameType) /\ Fits(g, Len(s), Under(s, Len(s)))
    BY Here
  <1> HIDE DEF s, g
  <1>2. Len(s) = 1
    BY <1>1 DEF Fits
  <1>3. s[1] = g /\ Front(s) = <<>>
    <2>1. Last(s) = s[Len(s)] /\ Len(Front(s)) = Len(s) - 1 /\ Front(s) \in Seq(FrameType)
      BY <1>1, FrontFacts
    <2>2. Len(Front(s)) = 0
      BY <1>2, <2>1
    <2> QED BY <1>2, <2>1, <2>2 DEF g
  <1>4. /\ fn = "retry" => t \in Workers
        /\ fn = "del" => t \in Users
    BY <1>1, <1>3, ByRole DEF s
  <1> QED BY <1>1, <1>3, <1>4 DEF s, g

\* A retry is arranged: the worker says nothing else any more.
LEMMA LaterTends ==
    ASSUME OneOfEach, Inv, Inv', TInv, NEW t \in Thread, t \in Workers, NEW s,
           s = <<>>, OnlyOf(t, s), acc' = ScheduleReregistration(acc)
    PROVE  TInv'
  <1>1. /\ acc.valid => acc'.retry /\ acc'.active /\ acc'.valid
        /\ ~acc.valid => acc' = acc
        /\ acc'.regc = acc.regc
    BY InvOf DEF ScheduleReregistration, AccType
  <1>2. Tame(t, s)
    BY TameNone
  <1>3. stk'[t] = s /\ \A u \in Thread : u # t => stk'[u] = stk[u]
    BY OnlyStack
  <1>4. ASSUME NEW u \in Thread, NEW r PROVE ~Telling(stk'[u], r)
    <2>1. CASE u = t
      BY <1>3, <2>1 DEF Telling
    <2>2. CASE u # t
      <3>1. u \in Users
        BY <2>2, OthersUse
      <3> QED BY <1>3, <2>2, <3>1, ByRole
    <2> QED BY <2>1, <2>2
  <1>5. acc.valid => ~Due'
    BY <1>1, <1>4 DEF Due
  <1>6. ~acc.valid => acc'.regc = None
    BY <1>1 DEF TInv
  <1>7. ~acc'.valid => acc'.regc = None
    BY <1>1, <1>6
  <1> QED BY <1>2, <1>5, <1>6, <1>7, Arrives

\* A transport went down.
LEMMA TransportDownTends ==
    ASSUME OneOfEach, Inv, Inv', TInv, NEW t \in Thread, TransportDown(t)
    PROVE  TInv'
  <1> DEFINE s == stk[t]
             b == ScheduleReregistration(acc)
             r == acc.regc
             x == WithTransport(reg[r])
             h == Swap(reg, r, x)
  <1>1. t \in Workers /\ s = <<>> /\ Become(WithAcc(WithReg(World, r, x), b))
    BY DEF TransportDown, Idle, WithTransport
  <1>2. World = Made(reg, acc, Stacked(stk, t, s), net, pjsua)
    BY WorldMade
  <1> HIDE DEF b, s, x, r
  <1>3. WithReg(World, r, x) = Made(h, acc, Stacked(stk, t, s), net, pjsua)
    BY <1>2, MadeReg
  <1> HIDE DEF h
  <1>4. Become(Made(h, b, Stacked(stk, t, s), net, pjsua))
    BY <1>1, <1>3, MadeWith
  <1>5. acc' = b /\ OnlyOf(t, s)
    BY <1>4, BecameOf
  <1> QED BY <1>1, <1>5, LaterTends DEF b

\* The retry's request is out, or another retry is arranged.
LEMMA RetrySentTends ==
    ASSUME OneOfEach, Inv, Inv', TInv, NEW t \in Thread, RetrySent(t)
    PROVE  TInv'
  <1> DEFINE s == stk[t]
             g == Last(s)
             fn == "retry"
             none == None
             v == Front(s)
             b == ScheduleReregistration(acc)
             w == WithPjsua(Pop(World, t), none)
             r == acc.regc
             a == acc.active
  <1>1. /\ s # <<>> /\ g.fn = "retry" /\ g.pc = "sent" /\ Top(t) = g
        /\ v = <<>> /\ t \in Workers
    <2>1. At(t, fn, "sent") /\ fn \in {"retry", "del"} /\ fn = "retry"
      BY DEF RetrySent
    <2> HIDE DEF fn
    <2> QED BY <2>1, HereAlone
  <1>2. t \in DOMAIN stk /\ World = Made(reg, acc, Stacked(stk, t, s), net, pjsua)
    BY WorldMade
  <1>3. \/ g.status = "ok" /\ Become(w)
        \/ Become(WithAcc(w, b))
    BY <1>1 DEF RetrySent
  <1> HIDE DEF s, g, none, v, b
  <1>4. Pop(World, t) = Made(reg, acc, Stacked(stk, t, v), net, pjsua)
    BY <1>2, PopMade DEF v
  <1>5. w = Made(reg, acc, Stacked(stk, t, v), net, none)
    BY <1>4, MadeWith
  <1> HIDE DEF w
  <1>6. CASE g.status = "ok" /\ Become(w)
    <2>1. Become(Made(reg, acc, Stacked(stk, t, v), net, none))
      BY <1>5, <1>6
    <2>2. Keen(reg[r], g, a, r) => reg[r].timer \/ reg[r].has_tsx
      BY <1>1, <1>6 DEF Keen, Settles, Failing
    <2> QED BY <1>1, <2>1, <2>2, PopsMade DEF s, g, v
  <1>7. CASE Become(WithAcc(w, b))
    <2>1. Become(Made(reg, b, Stacked(stk, t, v), net, none))
      BY <1>5, <1>7, MadeWith
    <2>2. acc' = b /\ OnlyOf(t, v)
      BY <2>1, BecameOf
    <2> QED BY <1>1, <2>2, LaterTends DEF b
  <1> QED BY <1>3, <1>6, <1>7

\* The retry timer fires, and there is nothing to do, or a request to send, or
\* another retry to arrange.
LEMMA RetryBeginTends ==
    ASSUME OneOfEach, Inv, Inv', TInv, NEW t \in Thread, RetryBegin(t)
    PROVE  TInv'
  <1> DEFINE s == stk[t]
             g == Last(s)
             fn == "retry"
             yes == TRUE
             f == WithPc(g, "sent")
             n == Turned(s, f)
             v == Front(s)
             b == ScheduleReregistration(acc)
             w == Goto(World, t, "sent")
             q == Target(yes)
             r == acc.regc
             a == acc.active
  <1>1. /\ s # <<>> /\ g.fn = "retry" /\ g.pc = "begin" /\ Top(t) = g
        /\ v = <<>> /\ t \in Workers /\ g \in FrameType /\ s \in Seq(FrameType)
    <2>1. At(t, fn, "begin") /\ fn \in {"retry", "del"} /\ fn = "retry"
      BY DEF RetryBegin
    <2> HIDE DEF fn
    <2> QED BY <2>1, HereAlone
  <1>2. t \in DOMAIN stk /\ World = Made(reg, acc, Stacked(stk, t, s), net, pjsua)
    BY WorldMade
  <1>3. \/ (~acc.valid \/ ~a) /\ Become(Pop(World, t))
        \/ /\ acc.valid /\ q # None
           /\ Become(WithPjsua(BeginSet(w, t, q, yes), t))
        \/ Become(WithAcc(Pop(World, t), b))
    BY DEF RetryBegin
  <1>4. yes \in BOOLEAN
    OBVIOUS
  <1> HIDE DEF s, g, yes, v, b, w, q
  <1>5. Pop(World, t) = Made(reg, acc, Stacked(stk, t, v), net, pjsua)
    BY <1>2, PopMade DEF v
  <1>6. CASE (~acc.valid \/ ~a) /\ Become(Pop(World, t))
    <2>1. Become(Made(reg, acc, Stacked(stk, t, v), net, pjsua))
      BY <1>5, <1>6
    <2>2. ~acc.valid => r = None
      BY DEF TInv
    <2> HIDE DEF a
    <2>3. r # None => (Keen(reg[r], g, a, r) => reg[r].timer \/ reg[r].has_tsx)
      BY <1>1, <1>6, <2>2 DEF Keen, Settles, Failing
    <2> QED BY <1>1, <2>1, <2>3, PopsMade DEF s, g, v, a
  <1>7. CASE acc.valid /\ q # None /\ Become(WithPjsua(BeginSet(w, t, q, yes), t))
    <2>1. f \in FrameType /\ f.fn = g.fn /\ f.pc = "sent"
      BY <1>1, WithPcIs DEF Pcs
    <2>2. w = Made(reg, acc, Stacked(stk, t, n), net, pjsua)
      BY <1>2, GotoMade DEF w, g
    <2> HIDE DEF f
    <2>3. n # <<>> /\ n \in Seq(FrameType)
      BY <1>1, <2>1, TurnedFacts
    <2>4. Tame(t, n)
      <3>1. Tame(t, s)
        BY DEF TInv, s
      <3> QED BY <1>1, <2>1, <3>1, TameTurn DEF g
    <2>5. q \in Regc
      BY <1>7, TargetIs DEF q
    <2> HIDE DEF n
    <2> QED BY <1>4, <1>7, <2>2, <2>3, <2>4, <2>5, SetsTends
  <1>8. CASE Become(WithAcc(Pop(World, t), b))
    <2>1. Become(Made(reg, b, Stacked(stk, t, v), net, pjsua))
      BY <1>5, <1>8, MadeWith
    <2>2. acc' = b /\ OnlyOf(t, v)
      BY <2>1, BecameOf
    <2> QED BY <1>1, <2>2, LaterTends DEF b
  <1> QED BY <1>3, <1>6, <1>7, <1>8

\* The retry timer fires: an account that is active makes up for its session,
\* and nothing changes for one that is not.
LEMMA PopRetryTends ==
    ASSUME Inv, Inv', TInv, NEW t \in Thread, PopRetry(t)
    PROVE  TInv'
  <1> DEFINE s == stk[t]
             b == [acc EXCEPT !.retry = FALSE]
             no == FALSE
             f == Frame("retry", "begin", None, no)
             n == Append(s, f)
             r == acc.regc
             a == acc.active
  <1>1. t \in Workers /\ s = <<>> /\ Become(Push(WithAcc(World, b), t, f))
    BY DEF PopRetry, Idle
  <1>2. t \in DOMAIN stk /\ World = Made(reg, acc, Stacked(stk, t, s), net, pjsua)
    BY WorldMade
  <1>3. /\ b.regc = r /\ b.valid = acc.valid /\ b.active = a
        /\ b.told = acc.told /\ b.refused = acc.refused
        /\ s \in Seq(FrameType) /\ Tame(t, s) /\ no \in BOOLEAN
    BY InvOf DEF TInv, AccType
  <1> HIDE DEF b, s, no
  <1>4. f \in FrameType /\ f.fn = "retry" /\ f.pc = "begin"
    BY <1>3, FrameIs DEF Fns, Pcs
  <1> HIDE DEF f
  <1>5. Tame(t, n)
    <2>1. t \notin Users
      BY <1>1, RegAssumption
    <2> QED BY <1>3, <1>4, <2>1, TamePush
  <1>6. reg' = reg /\ acc' = b /\ OnlyOf(t, n)
    <2>1. WithAcc(World, b) = Made(reg, b, Stacked(stk, t, s), net, pjsua)
      BY <1>2, MadeWith
    <2>2. Push(WithAcc(World, b), t, f) = Made(reg, b, Stacked(stk, t, n), net, pjsua)
      BY <1>2, <2>1, PushMade
    <2> HIDE DEF n
    <2> QED BY <1>1, <2>2, BecameOf
  <1>7. n # <<>> /\ Last(n) = f /\ n[1] = f
    <2>1. n # <<>> /\ Last(n) = f /\ Len(n) = Len(s) + 1 /\ n[Len(s) + 1] = f
      BY <1>3, <1>4, AppendFacts
    <2>2. Len(s) = 0
      BY <1>1
    <2> QED BY <2>1, <2>2
  <1> HIDE DEF n
  <1>8. stk'[t] = n /\ \A u \in Thread : u # t => stk'[u] = stk[u]
    BY <1>6, OnlyStack
  <1>9. ~acc'.valid => acc'.regc = None
    BY <1>3, <1>6 DEF TInv
  <1>10. CASE a
    <2>1. Covers(n, a, r)
      BY <1>4, <1>7, <1>10 DEF Covers, Settles
    <2>2. Tended'
      BY <1>3, <1>6, <1>8, <2>1 DEF Tended
    <2> QED BY <1>5, <1>6, <1>9, <2>2, Arrives
  <1>11. CASE ~a
    <2>1. \A u \in Thread : (Telling(stk'[u], r) => Telling(stk[u], r))
      BY <1>4, <1>7, <1>8 DEF Telling
    <2>2. Due' => Due
      BY <1>3, <1>6, <1>11, <2>1 DEF Due
    <2>3. \A u \in Thread : Calling(stk'[u]) => Calling(stk[u])
      BY <1>4, <1>7, <1>8 DEF Calling
    <2>4. Shown => Tended'
      BY <1>3, <1>6, <2>3 DEF Shown, Tended
    <2>5. /\ reg[r].timer => Tended'
          /\ reg[r].has_tsx => Tended'
      BY <1>3, <1>6 DEF Tended
    <2>6. ~Covers(stk[t], a, r)
      BY <1>1 DEF Covers, s
    <2>7. acc'.regc = acc.regc /\ (acc.active => acc'.active)
      BY <1>3, <1>6
    <2>8. Tended => Tended'
      BY <1>6, <2>4, <2>5, <2>6, <2>7, TendedNext
    <2>9. Due' => Tended'
      BY <2>2, <2>8 DEF TInv
    <2> QED BY <1>5, <1>6, <1>9, <2>9, Arrives
  <1> QED BY <1>10, <1>11

GoneAcc(a) == [a EXCEPT !.valid = FALSE, !.regc = None]

\* The account is deleted.
LEMMA AccGoneTends ==
    ASSUME Inv, Inv', TInv, NEW t \in Thread, NEW h, NEW s, s = stk[t], s # <<>>,
           Become(AccGone(Made(h, acc, Stacked(stk, t, s), net, pjsua), t))
    PROVE  TInv'
  <1> DEFINE w == Made(h, acc, Stacked(stk, t, s), net, pjsua)
             b == GoneAcc(acc)
             v == Front(s)
             none == None
  <1>1. t \in DOMAIN stk /\ b.regc = None /\ Tame(t, s) /\ s \in Seq(FrameType)
    BY InvOf DEF TInv, AccType, GoneAcc
  <1>2. w.acc = acc
    BY MadeFields
  <1>3. AccGone(w, t) = WithPjsua(WithAcc(Pop(w, t), b), none)
    <2> HIDE DEF w
    <2> QED BY <1>2 DEF AccGone, GoneAcc
  <1>4. Pop(w, t) = Made(h, acc, Stacked(stk, t, v), net, pjsua)
    BY <1>1, PopMade
  <1>5. Tame(t, v)
    BY <1>1, TamePop
  <1>6. Become(AccGone(w, t))
    OBVIOUS
  <1> HIDE DEF w, b, v, none
  <1>7. WithAcc(Pop(w, t), b) = Made(h, b, Stacked(stk, t, v), net, pjsua)
    BY <1>4, MadeWith
  <1>8. Become(Made(h, b, Stacked(stk, t, v), net, none))
    BY <1>3, <1>6, <1>7, MadeWith
  <1>9. acc' = b /\ OnlyOf(t, v)
    BY <1>8, BecameOf
  <1> QED BY <1>1, <1>5, <1>9, NobodyDue

\* Its session is looked at, or is gone already.
LEMMA AccDelDestroyTends ==
    ASSUME Inv, Inv', TInv, NEW t \in Thread, AccDelDestroy(t)
    PROVE  TInv'
  <1> DEFINE s == stk[t]
             g == Last(s)
             fn == "del"
             yes == TRUE
             r == acc.regc
             a == acc.active
             pc == IF InUse(reg[r]) THEN "flag" ELSE "free"
             x == Locked(reg[r], yes)
             h == Swap(reg, r, x)
             f == Aimed(g, r, pc)
             w == WithReg(World, r, x)
  <1>1. /\ s # <<>> /\ g.fn = "del" /\ g.pc = "sent" /\ Top(t) = g
        /\ g \in FrameType /\ s \in Seq(FrameType)
    <2>1. At(t, fn, "sent") /\ fn \in {"retry", "del"} /\ fn = "del"
      BY DEF AccDelDestroy
    <2> HIDE DEF fn
    <2> QED BY <2>1, HereAlone
  <1>2. t \in DOMAIN stk /\ World = Made(reg, acc, Stacked(stk, t, s), net, pjsua)
    BY WorldMade
  <1>3. \/ r = None /\ Become(AccGone(World, t))
        \/ r # None /\ Become(Put(w, t, f))
    BY <1>1 DEF AccDelDestroy, Locked, Aimed
  <1>4. (r # None => r \in Regc) /\ pc \in Pcs
    BY InvOf DEF Pcs
  <1>5. r # None => x.timer = reg[r].timer /\ x.has_tsx = reg[r].has_tsx
    <2>1. r # None => reg[r] \in SessionType
      BY InvOf
    <2> HIDE DEF yes, r
    <2> QED BY <2>1 DEF Locked, SessionType
  <1> HIDE DEF s, g, yes, x, pc
  <1>6. CASE r = None /\ Become(AccGone(World, t))
    BY <1>1, <1>2, <1>6, AccGoneTends DEF s
  <1>7. CASE r # None /\ Become(Put(w, t, f))
    <2>1. f \in FrameType /\ f.fn = "del"
      BY <1>1, <1>4, <1>7, AimedIs
    <2>2. w = Made(h, acc, Stacked(stk, t, s), net, pjsua)
      BY <1>2, MadeReg
    <2>3. h[r].timer = reg[r].timer /\ h[r].has_tsx = reg[r].has_tsx
      BY <1>4, <1>5, <1>7, SwapTends
    <2> HIDE DEF h, w, f
    <2>4. Become(Made(h, acc, Stacked(stk, t, Turned(s, f)), net, pjsua))
      BY <1>2, <1>7, <2>2, PutMade
    <2>5. Keen(reg[r], g, a, r) \/ WillTell(f, r) => Keen(h[r], f, a, r)
      BY <1>1, <2>1, <2>3 DEF Keen, Settles, Failing, WillTell
    <2> QED BY <1>1, <2>1, <2>4, <2>5, TurnMade DEF s, g
  <1> QED BY <1>3, <1>6, <1>7

\* It is left to its users, or freed.
LEMMA AccDelEndTends ==
    ASSUME Inv, Inv', TInv, NEW t \in Thread, AccDelEnd(t)
    PROVE  TInv'
  <1> DEFINE s == stk[t]
             q == Top(t).r
             x == [IF Top(t).pc = "flag" THEN [reg[q] EXCEPT !.delete_flag = TRUE]
                   ELSE Freed(reg[q]) EXCEPT !.lock = FALSE]
             h == Swap(reg, q, x)
  <1>1. s # <<>>
    BY DEF AccDelEnd, At, Idle
  <1>2. World = Made(reg, acc, Stacked(stk, t, s), net, pjsua)
    BY WorldMade
  <1>3. Become(AccGone(WithReg(World, q, x), t))
    BY DEF AccDelEnd
  <1> HIDE DEF q, x, s
  <1>4. WithReg(World, q, x) = Made(h, acc, Stacked(stk, t, s), net, pjsua)
    BY <1>2, MadeReg
  <1> HIDE DEF h
  <1> QED BY <1>1, <1>3, <1>4, AccGoneTends DEF s

-----------------------------------------------------------------------------
(* The theorem.                                                            *)

\* At first there is no account.
LEMMA InitTInv == Init => TInv
  <1> SUFFICES ASSUME Init PROVE TInv
    OBVIOUS
  <1>1. acc.regc = None /\ \A t \in Thread : stk[t] = <<>>
    BY DEF Init
  <1>2. ~Due
    BY <1>1 DEF Due
  <1>3. \A t \in Thread : Tame(t, stk[t])
    BY <1>1, TameNone
  <1> QED BY <1>1, <1>2, <1>3 DEF TInv

\* A thread goes on where it waited.
LEMMA ResumeTends ==
    ASSUME OneOfEach, Inv, Inv', TInv, NEW t \in Thread, Resume(t)
    PROVE  TInv'
  <1>1. CASE SendStart(t)
    BY <1>1, SendStartTends
  <1>2. CASE SendOut(t)
    BY <1>2, SendOutTends
  <1>3. CASE SendBack(t)
    BY <1>3, SendBackTends
  <1>4. CASE TsxStart(t)
    BY <1>4, TsxStartTends
  <1>5. CASE TsxCb(t)
    BY <1>5, TsxCbTends
  <1>6. CASE TsxHandle(t)
    BY <1>6, TsxHandleTends
  <1>7. CASE TsxSent(t)
    BY <1>7, TsxSentTends
  <1>8. CASE Call(t)
    BY <1>8, CallTends
  <1>9. CASE Dec(t)
    BY <1>9, DecTends
  <1>10. CASE Flag(t)
    BY <1>10, FlagTends
  <1>11. CASE RefreshRef(t)
    BY <1>11, RefreshRefTends
  <1>12. CASE RefreshRegister(t)
    BY <1>12, RefreshRegisterTends
  <1>13. CASE RefreshSent(t)
    BY <1>13, RefreshSentTends
  <1>14. CASE SetBegin(t)
    BY <1>14, SetBeginTends
  <1>15. CASE SetSent(t)
    BY <1>15, SetSentTends
  <1>16. CASE SetFlag(t)
    BY <1>16, SetFlagTends
  <1>17. CASE AccDelDestroy(t)
    BY <1>17, AccDelDestroyTends
  <1>18. CASE AccDelEnd(t)
    BY <1>18, AccDelEndTends
  <1>19. CASE RetryBegin(t)
    BY <1>19, RetryBeginTends
  <1>20. CASE RetrySent(t)
    BY <1>20, RetrySentTends
  <1> QED BY <1>1, <1>2, <1>3, <1>4, <1>5, <1>6, <1>7, <1>8, <1>9, <1>10, <1>11,
             <1>12, <1>13, <1>14, <1>15, <1>16, <1>17, <1>18, <1>19, <1>20 DEF Resume

\* An idle thread is called, by the user, a timer or the network.
LEMMA StartTends ==
    ASSUME OneOfEach, Inv, Inv', TInv, NEW t \in Thread, Start(t)
    PROVE  TInv'
  <1>1. CASE AccAdd(t)
    BY <1>1, AccAddTends
  <1>2. CASE AccDel(t)
    BY <1>2, AccDelTends
  <1>3. ASSUME NEW renew \in BOOLEAN, SetRegistration(t, renew) PROVE TInv'
    BY <1>3, SetRegistrationTends
  <1>4. ASSUME NEW q \in net, NEW code \in Codes, Deliver(t, q, code) PROVE TInv'
    BY <1>4, DeliverTends
  <1>5. ASSUME NEW r \in Regc, PopRefresh(t, r) PROVE TInv'
    BY <1>5, PopRefreshTends
  <1>6. CASE PopRetry(t)
    BY <1>6, PopRetryTends
  <1>7. CASE TransportDown(t)
    BY <1>7, TransportDownTends
  <1> QED BY <1>1, <1>2, <1>3, <1>4, <1>5, <1>6, <1>7 DEF Start

\* No step leaves a session that is due untended.
LEMMA InductiveTInv ==
    ASSUME OneOfEach, Inv, Inv', TInv, [Next]_vars
    PROVE  TInv'
  <1>1. CASE UNCHANGED vars
    BY <1>1 DEF vars, TInv, Due, Tended, Shown
  <1>2. ASSUME NEW t \in Thread, Resume(t) PROVE TInv'
    BY <1>2, ResumeTends
  <1>3. ASSUME NEW t \in Thread, Start(t) PROVE TInv'
    BY <1>3, StartTends
  <1> QED BY <1>1, <1>2, <1>3 DEF Next

\* When nothing is in progress, nothing has a request.
LEMMA QuietRequests ==
    ASSUME Quiet, NEW r
    PROVE  Requests(r) = {} /\ \A t \in Thread : DOMAIN stk[t] = {}
  <1>1. net = {} /\ \A t \in Thread : stk[t] = <<>>
    BY DEF Quiet
  <1>2. DOMAIN <<>> = {}
    OBVIOUS
  <1>3. \A t \in Thread : \A fns, pcs : Refs(t, fns, pcs) = {}
    BY <1>1, <1>2 DEF Refs
  <1> QED BY <1>1, <1>2, <1>3 DEF Requests

\* With one thread of the user and one worker, an account that shows itself
\* registered has a timer that will refresh it or try again, whatever fails,
\* is answered late or goes down, unless the application was told otherwise.
THEOREM StaysLookedAfter ==
    ASSUME OneOfEach
    PROVE  Spec => []LookedAfter
  <1>1. Inv /\ TInv /\ [Next]_vars => Inv' /\ TInv'
    BY Inductive, InductiveTInv
  <1>2. Init => Inv /\ TInv
    BY InitInv, InitTInv
  <1>3. Spec => [](Inv /\ TInv)
    BY <1>1, <1>2, PTL DEF Spec
  <1>4. Inv /\ TInv /\ HasTsxExact => LookedAfter
    <2> SUFFICES ASSUME Inv, TInv, HasTsxExact, Quiet, acc.valid, acc.regc # None,
                        acc.told, ~acc.refused, ~acc.retry
                 PROVE  reg[acc.regc].timer
      BY DEF LookedAfter
    <2>1. \A t \in Thread : stk[t] = <<>>
      BY DEF Quiet
    <2>2. Due
      BY DEF Due
    <2>3. ~Shown /\ \A t \in Thread : \A a, r : ~Covers(stk[t], a, r)
      BY <2>1 DEF Shown, Covers
    <2>4. reg[acc.regc].timer \/ reg[acc.regc].has_tsx
      BY <2>2, <2>3 DEF TInv, Tended
    <2>5. ~reg[acc.regc].has_tsx
      <3> DEFINE r == acc.regc
                 R == Requests(r)
      <3>1. r \in Regc /\ reg[r].live
        BY InvOf
      <3>2. R = {} /\ \A t \in Thread : DOMAIN stk[t] = {}
        BY QuietRequests
      <3>3. reg[r].has_tsx /\ R = {} =>
               \E t \in Thread, i \in 1 .. 4 : i \in DOMAIN stk[t]
        BY <3>1 DEF HasTsxExact
      <3> HIDE DEF r, R
      <3> QED BY <3>2, <3>3 DEF r
    <2> QED BY <2>4, <2>5
  <1> QED BY <1>3, <1>4, OneRequest, PTL

================================================================================
