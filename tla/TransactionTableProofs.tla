----------------------- MODULE TransactionTableProofs -----------------------
(***************************************************************************)
(* For every number of workers, keys and transactions: Inv is inductive,   *)
(* and so Findable and UsedAlive hold of the specification.  Its parts:    *)
(*   Frames   what a thread holds is alive, and has ended if it ends it    *)
(*   Fresh    what is not registered yet is known to its creator alone     *)
(*   Tables   the tables lead to live transactions, and to all of them     *)
(*            whose entry no late send has removed                         *)
(*   Counts   the references are those of the creation, the timer, the     *)
(*            send and the threads, and what is kept; the flags are sane   *)
(*   Layer    what shutting down leaves the threads to do                  *)
(* A section for the counts of threads, one for the operators on a record, *)
(* one for the tables, one with a lemma per action, and one for the        *)
(* specification.                                                          *)
(***************************************************************************)
EXTENDS TransactionTable, FiniteSetTheorems, TLAPS

Keys == Copies \cup Calls

\* What a thread may be doing: with no transaction, with a key of the copies
\* only, with a transaction.
Free == {"idle", "detect", "merged", "accept", "create", "refuse", "stop"}
Asking == {"detect", "merged", "accept", "create", "refuse"}
Ending == {"timer", "told", "unregister"}
Busy == Ending \cup {"recv", "register"}

TsxType == [live : BOOLEAN, key : Keys \cup {None},
            state : {"NULL", "TERMINATED", "DESTROYED"}, refs : Nat,
            lock : Thread \cup {None}, terminating : BOOLEAN,
            timer : BOOLEAN, served : BOOLEAN,
            send : {"none", "direct", "resolving"},
            flags : SUBSET {"TRANSPORT", "SEND", "DESTROY"}, kept : Nat]

FrameType == [at : Free \cup Busy, x : Tsx \cup {None}, key : Keys \cup {None}]

Types ==
    /\ tsx \in [Tsx -> TsxType]
    /\ htable \in [Keys -> Tsx \cup {None}]
    /\ htable2 \in Tsx \cup {None}
    /\ pc \in [Thread -> FrameType]
    /\ layer \in {"running", "quitting", "stopping", "stopped"}
    /\ stray \in SUBSET Keys

\* A thread with its frame f, where a is what the transactions are.
FrameOf(f, a) ==
    /\ IF f.at \in Busy
       THEN f.x \in Tsx /\ a[f.x].live /\ (f.at \in Ending => a[f.x].state # "NULL")
       ELSE f.x = None
    /\ f.at \in Asking => f.key \in Copies
    /\ f.at = "stop" => layer = "stopping"

Frames == \A t \in Thread : FrameOf(pc[t], tsx)

Registering(t, x) == pc[t].x = x /\ pc[t].at = "register"

\* A transaction about to be registered is known to its thread alone.
Fresh ==
    \A t \in Thread : pc[t].at = "register" =>
        LET s == tsx[pc[t].x]
        IN /\ s.state = "NULL" /\ s.lock = t /\ ~s.timer /\ ~s.terminating
           /\ s.send = "none" /\ s.flags = {} /\ s.kept = 0
           /\ s.key = pc[t].key
           /\ \A k \in Keys : htable[k] # pc[t].x
           /\ \A u \in Thread \ {t} : pc[u].x # pc[t].x

Tables ==
    /\ \A k \in Keys : htable[k] # None =>
          LET s == tsx[htable[k]] IN s.live /\ s.key = k /\ ~s.terminating
    /\ \A x \in Tsx :
          (tsx[x].live /\ ~tsx[x].terminating /\ tsx[x].key \notin stray
           /\ \A t \in Thread : ~Registering(t, x)) => htable[tsx[x].key] = x
    /\ htable2 # None => /\ tsx[htable2].key \in Copies
                         /\ htable[tsx[htable2].key] = htable2

\* What holds of a transaction by itself: the end cancels the timer and what
\* is postponed, and until then an outstanding send has its flag.
Sane(s) ==
    /\ s.terminating => ~s.timer /\ "SEND" \notin s.flags
    /\ s.state = "NULL" => ~s.timer /\ ~s.terminating
    /\ "DESTROY" \in s.flags => s.terminating
    /\ "TRANSPORT" \in s.flags => s.send # "none"
    /\ s.state = "NULL" /\ s.send # "none" => "TRANSPORT" \in s.flags

\* The references other than those of the threads.
Owed(s) == (IF s.terminating THEN 0 ELSE 1) + (IF s.timer THEN 1 ELSE 0)
           + (IF s.send # "none" THEN 1 ELSE 0) + s.kept

\* A live transaction on which there are n more references than that.
Good(s, n) ==
    s \in TsxType /\ s.live /\ s.key \in Keys /\ Sane(s) /\ s.refs = Owed(s) + n

\* Another state of the same transaction, neither of which is its shutdown.
Kin(s, q) == /\ q.key = s.key /\ q.terminating = s.terminating
             /\ q.state = "NULL" => s.state = "NULL"

Counted(s, n) == IF s.live THEN Good(s, n) /\ s.refs # 0 ELSE s = Dead

Holds(p, x) == {t \in Thread : p[t].x = x /\ p[t].at # "register"}

Counts == \A x \in Tsx : Counted(tsx[x], Cardinality(Holds(pc, x)))

\* What the layer's end leaves behind.
Left(s) == s.send # "none" \/ s.kept > 0 \/ s.key \in stray

Layer ==
    /\ layer # "running" => \A t \in Workers : pc[t].at = "idle"
    /\ layer = "stopping" => pc[User].at = "stop"
    /\ layer = "stopped" => /\ pc[User].at = "idle"
                            /\ \A x \in Tsx : tsx[x].live => Left(tsx[x])

Inv == Types /\ Frames /\ Fresh /\ Tables /\ Counts /\ Layer

\* The threads that act while the layer is up.
Can(t) == layer = "running" \/ (layer = "quitting" /\ t = User)
-----------------------------------------------------------------------------
(* The threads that hold a transaction.                                    *)

\* The holders of a transaction are threads, of which there are finitely many.
LEMMA HoldsFinite ==
    ASSUME TableAssumption, NEW p, NEW x
    PROVE  /\ IsFiniteSet(Holds(p, x))
           /\ Cardinality(Holds(p, x)) \in Nat
           /\ Cardinality(Holds(p, x)) = 0 <=> \A t \in Thread :
                  ~(p[t].x = x /\ p[t].at # "register")
<1>1. IsFiniteSet(Thread)
  BY FS_AddElement DEF TableAssumption, Thread
<1>2. IsFiniteSet(Holds(p, x))
  BY <1>1, FS_Subset DEF Holds
<1>3. Cardinality(Holds(p, x)) \in Nat
  BY <1>2, FS_CardinalityType
<1>4. Cardinality(Holds(p, x)) = 0 <=> Holds(p, x) = {}
  BY <1>2, FS_EmptySet
<1>5. Holds(p, x) = {} <=> \A t \in Thread : ~(p[t].x = x /\ p[t].at # "register")
  BY DEF Holds
<1> QED
  BY <1>2, <1>3, <1>4, <1>5

\* The thread has a reference on the transaction.
Held(f, x) == f.x = x /\ f.at # "register"

\* What a change of one thread's frame does to the number of holders.
LEMMA HoldsGo ==
    ASSUME TableAssumption, NEW t \in Thread, NEW x,
           \A u \in Thread \ {t} : pc'[u] = pc[u]
    PROVE  /\ Cardinality(Holds(pc, x)) \in Nat
           /\ Held(pc[t], x) => Cardinality(Holds(pc, x)) > 0
           /\ Held(pc[t], x) /\ (\A u \in Thread \ {t} : pc[u].x # x)
                 => Cardinality(Holds(pc, x)) = 1
           /\ Held(pc[t], x) /\ Cardinality(Holds(pc, x)) = 1
                 => \A u \in Thread \ {t} : ~Held(pc[u], x)
           /\ Held(pc[t], x) /\ ~Held(pc'[t], x)
                 => Cardinality(Holds(pc', x)) = Cardinality(Holds(pc, x)) - 1
           /\ ~Held(pc[t], x) /\ Held(pc'[t], x)
                 => Cardinality(Holds(pc', x)) = Cardinality(Holds(pc, x)) + 1
           /\ Held(pc[t], x) /\ Held(pc'[t], x)
                 => Cardinality(Holds(pc', x)) = Cardinality(Holds(pc, x))
           /\ ~Held(pc[t], x) /\ ~Held(pc'[t], x)
                 => Cardinality(Holds(pc', x)) = Cardinality(Holds(pc, x))
<1> DEFINE S == Holds(pc, x)
           T == Holds(pc', x)
<1>1. /\ IsFiniteSet(S) /\ Cardinality(S) \in Nat
      /\ IsFiniteSet(T) /\ Cardinality(T) \in Nat
  BY HoldsFinite
<1>2. T = IF Held(pc'[t], x) THEN S \cup {t} ELSE S \ {t}
  BY DEF Held, Holds
<1>3. t \in S <=> Held(pc[t], x)
  BY DEF Held, Holds
<1>4. /\ Cardinality(S \cup {t}) = IF t \in S THEN Cardinality(S) ELSE Cardinality(S) + 1
      /\ Cardinality(S \ {t}) = IF t \in S THEN Cardinality(S) - 1 ELSE Cardinality(S)
      /\ IsFiniteSet(S \ {t}) /\ Cardinality(S \ {t}) \in Nat
  BY <1>1, FS_AddElement, FS_RemoveElement, FS_CardinalityType
<1>5. Cardinality(S \ {t}) = 0 <=> S \ {t} = {}
  BY <1>4, FS_EmptySet
<1>6. S \ {t} = {} <=> \A u \in Thread \ {t} : ~Held(pc[u], x)
  BY DEF Held, Holds
<1>7. (\A u \in Thread \ {t} : pc[u].x # x) => S \ {t} = {}
  BY DEF Holds
<1> HIDE DEF S, T
<1>8. Held(pc[t], x) => Cardinality(S) > 0
  BY <1>1, <1>3, <1>4
<1>9. Held(pc[t], x) /\ Cardinality(S) = 1 => S \ {t} = {}
  BY <1>1, <1>3, <1>4, <1>5
<1>10. Held(pc[t], x) /\ S \ {t} = {} => Cardinality(S) = 1
  BY <1>1, <1>3, <1>4, <1>5
<1> QED
  BY <1>1, <1>2, <1>3, <1>4, <1>6, <1>7, <1>8, <1>9, <1>10 DEF S, T

-----------------------------------------------------------------------------
(* What the operators make of a transaction's record.                      *)

\* Memory that is free is a transaction in its initial state.
LEMMA DeadType == Dead \in TsxType /\ ~Dead.live /\ Dead.state = "NULL"
BY DEF Dead, TsxType

\* How much is owed is a number.
LEMMA OwedType == ASSUME NEW s \in TsxType PROVE Owed(s) \in Nat
BY DEF Owed, TsxType

\* tsx_set_state(TERMINATED) gives the reference of a resolver's send up and
\* takes one for the timer, once.
LEMMA TerminatedIs ==
    ASSUME NEW s, NEW m \in Nat, Good(s, m), ~s.terminating
    PROVE  /\ Good(Terminated(s), m) /\ Kin(s, Terminated(s))
           /\ Terminated(s).state # "NULL" /\ Terminated(s).refs # 0
<1> DEFINE d == Detach(s)
           q == Terminated(s)
<1>1. d \in TsxType /\ d.live /\ d.key = s.key /\ ~d.terminating /\ d.timer = s.timer
      /\ d.kept = s.kept /\ d.flags = s.flags \ {"TRANSPORT"}
      /\ d.refs = Owed(d) + m
  <2>1. CASE "TRANSPORT" \notin s.flags
    BY <2>1 DEF Detach, Good, TsxType, Owed
  <2>2. CASE "TRANSPORT" \in s.flags /\ s.send = "resolving"
    <3> DEFINE n == s.refs - 1
    <3>1. n \in Nat /\ n = (IF s.timer THEN 1 ELSE 0) + 1 + s.kept + m
      BY <2>2 DEF Good, Owed, TsxType
    <3> HIDE DEF n
    <3>2. d = [s EXCEPT !.flags = s.flags \ {"TRANSPORT"}, !.send = "none", !.refs = n]
      BY <2>2 DEF Detach, Good, TsxType, n
    <3> HIDE DEF d
    <3>3. /\ d \in TsxType /\ d.live /\ d.key = s.key /\ ~d.terminating
          /\ d.timer = s.timer /\ d.kept = s.kept
          /\ d.flags = s.flags \ {"TRANSPORT"} /\ d.refs = n /\ d.send = "none"
      BY <3>1, <3>2 DEF Good, TsxType
    <3>4. d.refs = Owed(d) + m
      BY <3>1, <3>3 DEF Owed, TsxType, Good
    <3> QED
      BY <3>3, <3>4
  <2>3. CASE "TRANSPORT" \in s.flags /\ s.send # "resolving"
    <3>1. d = [s EXCEPT !.flags = s.flags \ {"TRANSPORT"}]
      BY <2>3 DEF Detach, Good, TsxType
    <3> HIDE DEF d
    <3> QED
      BY <3>1 DEF Good, TsxType, Owed
  <2> QED
    BY <2>1, <2>2, <2>3
<1> HIDE DEF d
<1> DEFINE n == IF d.timer THEN d.refs ELSE d.refs + 1
<1>2. n \in Nat
  BY <1>1 DEF TsxType
<1>3. q = [d EXCEPT !.refs = n, !.state = "TERMINATED", !.timer = TRUE]
  BY <1>1 DEF Terminated, AddRef, TsxType, d
<1>4. n = 2 + (IF d.send # "none" THEN 1 ELSE 0) + d.kept + m
  BY <1>1 DEF Owed, TsxType
<1> HIDE DEF n, q
<1>5. /\ q \in TsxType /\ q.live /\ q.key = s.key /\ ~q.terminating /\ q.timer
      /\ q.kept = d.kept /\ q.send = d.send /\ q.refs = n /\ q.state = "TERMINATED"
      /\ q.flags = s.flags \ {"TRANSPORT"}
  BY <1>1, <1>2, <1>3 DEF TsxType
<1>6. q.refs = Owed(q) + m
  BY <1>4, <1>5 DEF Owed, TsxType
<1>7. Sane(q)
  BY <1>5 DEF Sane, Good
<1>8. Good(q, m) /\ Kin(s, q) /\ q.state # "NULL" /\ q.refs # 0
  BY <1>4, <1>5, <1>6, <1>7 DEF Good, Kin, TsxType
<1> QED
  BY <1>8 DEF q

\* A message is postponed, or outstanding with a reference of its own.
LEMMA SendsIs ==
    ASSUME NEW s, NEW m \in Nat, Good(s, m), ~s.terminating,
           "TRANSPORT" \notin s.flags => s.send = "none",
           NEW q \in Sends(s)
    PROVE  Good(q, m) /\ Kin(s, q)
<1>1. CASE "TRANSPORT" \in s.flags
  <2>1. q = [s EXCEPT !.flags = s.flags \cup {"SEND"}]
    BY <1>1 DEF Sends, Good, TsxType
  <2>2. /\ q \in TsxType /\ q.live /\ q.key = s.key /\ ~q.terminating
        /\ q.timer = s.timer /\ q.kept = s.kept /\ q.send = s.send
        /\ q.refs = s.refs /\ q.state = s.state /\ q.flags = s.flags \cup {"SEND"}
    BY <2>1 DEF Good, TsxType
  <2>3. q.refs = Owed(q) + m
    BY <2>2 DEF Owed, Good
  <2>4. Sane(q)
    BY <2>2 DEF Sane, Good
  <2> QED
    BY <2>2, <2>3, <2>4 DEF Good, Kin, TsxType
<1>2. CASE "TRANSPORT" \notin s.flags
  <2>1. PICK how \in {"direct", "resolving"} : q = Pending(s, how)
    BY <1>2 DEF Sends
  <2> DEFINE n == s.refs + 1
  <2>2. n \in Nat /\ n = (IF s.timer THEN 1 ELSE 0) + 2 + s.kept + m
    BY <1>2 DEF Good, Owed, TsxType
  <2>3. q = [s EXCEPT !.refs = n, !.send = how, !.flags = s.flags \cup {"TRANSPORT"}]
    BY <2>1 DEF Pending, AddRef, Good, TsxType
  <2> HIDE DEF n
  <2>4. /\ q \in TsxType /\ q.live /\ q.key = s.key /\ ~q.terminating
        /\ q.timer = s.timer /\ q.kept = s.kept /\ q.send = how
        /\ q.refs = n /\ q.state = s.state /\ q.flags = s.flags \cup {"TRANSPORT"}
    BY <2>2, <2>3 DEF Good, TsxType
  <2>5. q.refs = Owed(q) + m
    BY <2>2, <2>4 DEF Owed, Good, TsxType
  <2>6. Sane(q)
    BY <2>4 DEF Sane, Good
  <2> QED
    BY <2>4, <2>5, <2>6 DEF Good, Kin, TsxType
<1> QED
  BY <1>1, <1>2

\* What a state handler leaves.
LEMMA HandledIs ==
    ASSUME NEW s, NEW m \in Nat, Good(s, m), NEW q \in Handled(s)
    PROVE  Good(q, m) /\ Kin(s, q)
<1>1. CASE q = s
  BY <1>1 DEF Kin
<1>2. CASE q # s
  <2>1. s.state = "NULL" /\ q \in {Terminated(s)} \cup Sends(s)
    BY <1>2 DEF Handled
  <2>2. ~s.terminating /\ ("TRANSPORT" \notin s.flags => s.send = "none")
    BY <2>1 DEF Good, Sane
  <2> QED
    BY <2>1, <2>2, TerminatedIs, SendsIs
<1> QED
  BY <1>1, <1>2

\* The end of a send leaves one reference more than is owed, to be given up.
LEMMA EndedIs ==
    ASSUME NEW s, NEW m \in Nat, Good(s, m), s.send # "none"
    PROVE  LET e == Ended(s)
           IN /\ Good(e, m + 1) /\ Kin(s, e) /\ e.send = "none" /\ e.state = s.state
              /\ e.flags = s.flags \ {"TRANSPORT"}
<1> DEFINE e == Ended(s)
<1>1. e = [s EXCEPT !.send = "none", !.flags = s.flags \ {"TRANSPORT"}]
  BY DEF Ended, Good, TsxType
<1> HIDE DEF e
<1>2. /\ e \in TsxType /\ e.live /\ e.key = s.key /\ e.terminating = s.terminating
      /\ e.timer = s.timer /\ e.kept = s.kept /\ e.send = "none"
      /\ e.refs = s.refs /\ e.state = s.state /\ e.flags = s.flags \ {"TRANSPORT"}
  BY <1>1 DEF Good, TsxType
<1>3. e.refs = Owed(e) + (m + 1)
  BY <1>2 DEF Owed, Good, TsxType
<1>4. Sane(e)
  BY <1>2 DEF Sane, Good
<1>5. Good(e, m + 1) /\ Kin(s, e)
  BY <1>2, <1>3, <1>4 DEF Good, Kin
<1> QED
  BY <1>2, <1>5 DEF e

\* The postponed message has its turn.
LEMMA ResendsIs ==
    ASSUME NEW e, NEW m \in Nat, Good(e, m), ~e.terminating, e.send = "none",
           NEW q \in Resends(e)
    PROVE  Good(q, m) /\ Kin(e, q)
<1> DEFINE c == [e EXCEPT !.flags = e.flags \ {"SEND"}]
<1>1. q \in {c, Terminated(c)} \cup Sends(c)
  BY DEF Resends, Good, TsxType
<1>2. /\ c \in TsxType /\ c.live /\ c.key = e.key /\ ~c.terminating
      /\ c.timer = e.timer /\ c.kept = e.kept /\ c.send = "none"
      /\ c.refs = e.refs /\ c.state = e.state /\ c.flags = e.flags \ {"SEND"}
  BY DEF Good, TsxType
<1> HIDE DEF c
<1>3. c.refs = Owed(c) + m
  BY <1>2 DEF Owed, Good
<1>4. Sane(c)
  BY <1>2 DEF Sane, Good
<1>5. Good(c, m) /\ Kin(e, c)
  BY <1>2, <1>3, <1>4 DEF Good, Kin, TsxType
<1>6. Good(q, m) /\ Kin(c, q)
  <2>1. CASE q = c
    BY <1>5, <2>1 DEF Kin
  <2>2. CASE q = Terminated(c)
    BY <1>2, <1>5, <2>2, TerminatedIs
  <2>3. CASE q \in Sends(c)
    BY <1>2, <1>5, <2>3, SendsIs
  <2> QED
    BY <1>1, <2>1, <2>2, <2>3
<1> QED
  BY <1>5, <1>6 DEF Kin

\* The callbacks of a send that need not destroy.
LEMMA AfterwardsIs ==
    ASSUME NEW s, NEW m \in Nat, Good(s, m), s.send # "none", NEW q \in Afterwards(s)
    PROVE  Good(q, m + 1) /\ Kin(s, q)
<1> DEFINE e == Ended(s)
           n == m + 1
<1>1. /\ Good(e, n) /\ Kin(s, e) /\ e.send = "none" /\ e.state = s.state
      /\ e.flags = s.flags \ {"TRANSPORT"} /\ n \in Nat
  BY EndedIs
<1>2. \/ q = e
      \/ q \in Resends(e) /\ "SEND" \in s.flags
      \/ q = Terminated(e) /\ s.state = "NULL"
  BY DEF Afterwards
<1> HIDE DEF e, n
<1>3. "SEND" \in s.flags \/ s.state = "NULL" => ~e.terminating
  BY <1>1 DEF Good, Sane, Kin
<1>4. CASE q = e
  BY <1>1, <1>4 DEF n
<1>5. CASE q \in Resends(e) /\ "SEND" \in s.flags
  <2>1. Good(q, n) /\ Kin(e, q)
    BY <1>1, <1>3, <1>5, ResendsIs
  <2> QED
    BY <1>1, <2>1 DEF Kin, n
<1>6. CASE q = Terminated(e) /\ s.state = "NULL"
  <2>1. Good(q, n) /\ Kin(e, q)
    BY <1>1, <1>3, <1>6, TerminatedIs
  <2> QED
    BY <1>1, <2>1 DEF Kin, n
<1> QED
  BY <1>2, <1>4, <1>5, <1>6

\* A reference is given up: the last one only when nothing is owed.
LEMMA DecRefIs ==
    ASSUME NEW q, NEW n \in Nat, Good(q, n + 1)
    PROVE  LET r == DecRef(q)
           IN \/ r = Dead /\ n = 0 /\ q.terminating
              \/ Good(r, n) /\ Kin(q, r) /\ r.refs # 0
<1> DEFINE r == DecRef(q)
           i == q.refs - 1
<1>1. Owed(q) \in Nat /\ q.refs = Owed(q) + n + 1
  BY OwedType DEF Good
<1>2. CASE q.refs = 1
  <2>1. n = 0 /\ Owed(q) = 0
    BY <1>1, <1>2
  <2>2. q.terminating
    BY <2>1 DEF Owed, Good, TsxType
  <2> QED
    BY <1>2, <2>1, <2>2 DEF DecRef
<1>3. CASE q.refs # 1
  <2>1. i \in Nat /\ i # 0 /\ i = Owed(q) + n
    BY <1>1, <1>3
  <2>2. r = [q EXCEPT !.refs = i]
    BY <1>3 DEF DecRef, Good, TsxType
  <2> HIDE DEF r, i
  <2>3. /\ r \in TsxType /\ r.live /\ r.key = q.key /\ r.terminating = q.terminating
        /\ r.timer = q.timer /\ r.kept = q.kept /\ r.send = q.send
        /\ r.refs = i /\ r.state = q.state /\ r.flags = q.flags
    BY <2>1, <2>2 DEF Good, TsxType
  <2>4. Owed(r) = Owed(q)
    BY <2>3 DEF Owed
  <2>5. Sane(r)
    BY <2>3 DEF Sane, Good
  <2>6. Good(r, n) /\ Kin(q, r) /\ r.refs # 0
    BY <2>1, <2>3, <2>4, <2>5 DEF Good, Kin
  <2> QED
    BY <2>6 DEF r
<1> QED
  BY <1>2, <1>3

\* What tsx_shutdown leaves of a transaction that has ended.
Shut(s, d, m) ==
    \/ d = Dead /\ m = 0
    \/ Good(d, m) /\ d.refs # 0 /\ d.terminating /\ d.key = s.key /\ d.state # "NULL"

LEMMA ShutdownIs ==
    ASSUME NEW s, NEW m \in Nat, Good(s, m), s.refs # 0, s.state # "NULL"
    PROVE  Shut(s, Shutdown(s), m)
<1> DEFINE h == CancelTimer(s)
           c == [h EXCEPT !.flags = ShutFlags(h.flags)]
           d == Shutdown(s)
<1>1. /\ h \in TsxType /\ h.live /\ h.key = s.key /\ h.terminating = s.terminating
      /\ ~h.timer /\ h.kept = s.kept /\ h.send = s.send /\ h.state = s.state
      /\ h.flags = s.flags /\ h.refs = Owed(h) + m /\ h.refs # 0
  <2>1. CASE ~s.timer
    BY <2>1 DEF CancelTimer, Good, TsxType
  <2>2. CASE s.timer
    <3> DEFINE i == s.refs - 1
    <3>1. ~s.terminating
      BY <2>2 DEF Good, Sane
    <3>2. i = 1 + (IF s.send # "none" THEN 1 ELSE 0) + s.kept + m /\ i \in Nat /\ i # 0
      BY <2>2, <3>1 DEF Good, Owed, TsxType
    <3>3. s.refs # 1
      BY <3>2 DEF Good, TsxType
    <3>4. h = [s EXCEPT !.refs = i, !.timer = FALSE]
      BY <2>2, <3>3 DEF CancelTimer, DecRef, Good, TsxType
    <3> HIDE DEF i, h
    <3>5. /\ h \in TsxType /\ h.live /\ h.key = s.key /\ h.terminating = s.terminating
          /\ ~h.timer /\ h.kept = s.kept /\ h.send = s.send /\ h.state = s.state
          /\ h.flags = s.flags /\ h.refs = i
      BY <3>2, <3>4 DEF Good, TsxType
    <3>6. h.refs = Owed(h) + m
      BY <3>1, <3>2, <3>5 DEF Owed, TsxType
    <3> QED
      BY <3>2, <3>5, <3>6
  <2> QED
    BY <2>1, <2>2
<1>2. c = [CancelTimer(s) EXCEPT !.flags = ShutFlags(@)]
  BY <1>1 DEF TsxType
<1>3. d = IF c.terminating THEN c ELSE DecRef([c EXCEPT !.terminating = TRUE])
  BY <1>2 DEF Shutdown
<1> HIDE DEF h, d
<1>4. /\ c \in TsxType /\ c.live /\ c.key = s.key /\ c.terminating = s.terminating
      /\ ~c.timer /\ c.kept = s.kept /\ c.send = s.send /\ c.state = s.state
      /\ c.flags = ShutFlags(s.flags) /\ c.refs = h.refs
  BY <1>1 DEF TsxType, ShutFlags
<1> HIDE DEF c
<1>5. c.refs = Owed(c) + m /\ c.refs # 0
  BY <1>1, <1>4 DEF Owed
<1>6. /\ "SEND" \notin ShutFlags(s.flags)
      /\ "TRANSPORT" \in ShutFlags(s.flags) => s.send # "none"
  BY DEF ShutFlags, Good, Sane
<1>7. CASE s.terminating
  <2>1. Good(c, m)
    BY <1>4, <1>5, <1>6, <1>7 DEF Good, Sane
  <2> QED
    BY <1>3, <1>4, <1>5, <1>7, <2>1 DEF Shut, d
<1>8. CASE ~s.terminating
  <2> DEFINE b == [c EXCEPT !.terminating = TRUE]
  <2>1. /\ b \in TsxType /\ b.live /\ b.key = s.key /\ b.terminating
        /\ ~b.timer /\ b.kept = c.kept /\ b.send = c.send /\ b.state = s.state
        /\ b.flags = ShutFlags(s.flags) /\ b.refs = c.refs
    BY <1>4 DEF TsxType
  <2>2. d = DecRef(b)
    BY <1>3, <1>4, <1>8
  <2> HIDE DEF b
  <2>3. b.refs = Owed(b) + (m + 1)
    BY <1>4, <1>5, <1>8, <2>1 DEF Owed, TsxType
  <2>4. Good(b, m + 1)
    BY <1>4, <1>6, <2>1, <2>3 DEF Good, Sane
  <2>5. \/ d = Dead /\ m = 0
        \/ Good(d, m) /\ Kin(b, d) /\ d.refs # 0
    BY <2>2, <2>4, DecRefIs
  <2>6. Shut(s, d, m)
    BY <2>1, <2>5 DEF Shut, Kin
  <2> QED
    BY <2>6 DEF d
<1> QED
  BY <1>7, <1>8

-----------------------------------------------------------------------------
(* One thread and one transaction change.                                  *)

\* What the change does to the counts.
LEMMA CountsGo ==
    ASSUME TableAssumption, Types, Counts,
           NEW t \in Thread, NEW f \in FrameType, NEW x \in Tsx, NEW r,
           pc' = [pc EXCEPT ![t] = f], tsx' = [tsx EXCEPT ![x] = r],
           pc[t].x \in {x, None}, f.x \in {x, None},
           Counted(r, Cardinality(Holds(pc', x)))
    PROVE  Counts'
<1> SUFFICES ASSUME NEW y \in Tsx PROVE Counted(tsx'[y], Cardinality(Holds(pc', y)))
  BY DEF Counts, Counted, Good, Sane, Owed, TsxType, Keys, Thread, Dead
<1>1. CASE y = x
  BY <1>1 DEF Types
<1>2. CASE y # x
  <2>1. None \notin Tsx
    BY DEF TableAssumption
  <2>2. ~Held(pc[t], y) /\ ~Held(pc'[t], y)
    BY <1>2, <2>1 DEF Held, Types
  <2>3. \A u \in Thread \ {t} : pc'[u] = pc[u]
    BY DEF Types
  <2>5. Cardinality(Holds(pc', y)) = Cardinality(Holds(pc, y))
    BY <2>2, <2>3, HoldsGo DEF Types
  <2>4. tsx'[y] = tsx[y]
    BY <1>2 DEF Types
  <2> QED
    BY <2>4, <2>5 DEF Counts
<1> QED
  BY <1>1, <1>2

\* The counts of a thread that deals with no transaction.
LEMMA QuietCounts ==
    ASSUME TableAssumption, Types, Counts, NEW t \in Thread, NEW f \in FrameType,
           pc[t].x = None, f.x = None, pc' = [pc EXCEPT ![t] = f], UNCHANGED tsx
    PROVE  Counts'
<1> SUFFICES ASSUME NEW x \in Tsx
             PROVE  Counted(tsx[x], Cardinality(Holds(pc', x)))
  BY DEF Counts, Counted, Good, Sane, Owed, TsxType, Keys, Thread, Dead
<1>1. ~Held(pc[t], x) /\ ~Held(pc'[t], x)
  BY DEF Held, Types, TableAssumption
<1>2. \A u \in Thread \ {t} : pc'[u] = pc[u]
  BY DEF Types
<1>3. Cardinality(Holds(pc', x)) = Cardinality(Holds(pc, x))
  BY <1>1, <1>2, HoldsGo
<1> QED
  BY <1>3 DEF Counts

\* A thread goes on without a transaction, having none.
LEMMA QuietKeeps ==
    ASSUME TableAssumption, Inv, NEW t \in Thread, NEW f \in FrameType,
           pc[t].at \in Free, pc[t].at # "stop",
           f.at \in Free \ {"stop"}, f.x = None, f.at \in Asking => f.key \in Copies,
           Can(t), pc' = [pc EXCEPT ![t] = f],
           UNCHANGED <<tsx, htable, htable2, layer, stray>>
    PROVE  Inv'
<1> USE DEF Inv, Types, Free, Busy, Asking, Ending, Keys, FrameType
<1>0. pc[t].x = None /\ None \notin Tsx
  BY DEF Frames, FrameOf, TableAssumption
<1>1. Types'
  OBVIOUS
<1>2. Frames'
  BY DEF Frames, FrameOf
<1>3. Fresh'
  BY <1>0 DEF Fresh, Frames, FrameOf
<1>4. Tables'
  BY <1>0 DEF Tables, Registering
<1>5. Counts'
  BY <1>0, QuietCounts
<1>6. Layer'
  BY DEF Layer, Left, TableAssumption, Thread, Can
<1> QED
  BY <1>1, <1>2, <1>3, <1>4, <1>5, <1>6

\* What the thread's new frame may be: with the transaction, without, as it was.
Onward(t, x, f, r) ==
    \/ f.at \in {"recv"} \cup Ending /\ f.x = x /\ r.live /\ Can(t)
       /\ (f.at \in Ending => r.state # "NULL")
    \/ f.at = "idle" /\ f.x = None /\ pc[t].at # "stop"
    \/ f = pc[t] /\ f.at \in {"idle", "stop"}

\* A step of a thread on a transaction that no other thread is to register.
LEMMA StepKeeps ==
    ASSUME TableAssumption, Inv, NEW t \in Thread, NEW x \in Tsx, NEW r,
           NEW f \in FrameType,
           \A u \in Thread \ {t} : ~Registering(u, x),
           pc[t].x \in {x, None}, Onward(t, x, f, r), layer # "stopped",
           r.live /\ r.state = "NULL" => tsx[x].state = "NULL",
           pc' = [pc EXCEPT ![t] = f], tsx' = [tsx EXCEPT ![x] = r],
           Counted(r, Cardinality(Holds(pc', x))),
           r.live \/ Cardinality(Holds(pc', x)) = 0, Tables',
           htable' \in [Keys -> Tsx \cup {None}], htable2' \in Tsx \cup {None},
           \A k \in Keys : htable'[k] \in {htable[k], None, x},
           stray' \in SUBSET Keys, UNCHANGED layer
    PROVE  Inv'
<1> USE DEF Inv, Types, Free, Busy, Asking, Ending, Keys, FrameType
<1>1. r \in TsxType /\ None \notin Tsx
  BY DeadType DEF Counted, Good, TableAssumption
<1>2. f.at \in {"recv", "idle", "stop"} \cup Ending /\ f.x \in {x, None}
  BY DEF Onward, Frames, FrameOf
<1>3. Types'
  BY <1>1
<1>4. ASSUME ~r.live, NEW u \in Thread
      PROVE  pc'[u].x # x
  <2>1. ~(pc'[u].x = x /\ pc'[u].at # "register")
    <3>1. Cardinality(Holds(pc', x)) = 0
      BY <1>4
    <3> HIDE DEF Inv, Types, FrameType, Free, Busy, Ending, Asking, Keys
    <3> QED
      BY <3>1, HoldsFinite
  <2>2. pc'[u].at = "register" => u # t /\ pc'[u] = pc[u]
    BY <1>2
  <2> QED
    BY <2>1, <2>2 DEF Registering
<1>5. Frames'
  <2> SUFFICES ASSUME NEW u \in Thread PROVE FrameOf(pc[u], tsx)'
    BY DEF Frames
  <2>1. CASE u = t
    <3>1. pc'[u] = f /\ tsx'[x] = r /\ layer' = layer
      BY <2>1
    <3>2. CASE f.at \in {"recv"} \cup Ending
      BY <3>1, <3>2 DEF Onward, FrameOf
    <3>3. CASE f.at = "idle"
      BY <1>1, <1>2, <3>1, <3>3 DEF Onward, Frames, FrameOf
    <3>4. CASE f.at = "stop"
      BY <3>1, <3>4 DEF Onward, Frames, FrameOf
    <3> QED
      BY <1>2, <3>2, <3>3, <3>4
  <2>2. CASE u # t
    <3>1. pc'[u] = pc[u] /\ FrameOf(pc[u], tsx)
      BY <2>2 DEF Frames
    <3>2. CASE pc[u].x = x
      BY <1>1, <1>4, <3>1, <3>2 DEF FrameOf
    <3>3. CASE pc[u].x # x
      BY <1>1, <3>1, <3>3 DEF FrameOf
    <3> QED
      BY <3>2, <3>3
  <2> QED
    BY <2>1, <2>2
<1>6. Fresh'
  <2> SUFFICES ASSUME NEW u \in Thread, pc'[u].at = "register"
               PROVE  LET s == tsx'[pc'[u].x]
                      IN /\ s.state = "NULL" /\ s.lock = u /\ ~s.timer /\ ~s.terminating
                         /\ s.send = "none" /\ s.flags = {} /\ s.kept = 0
                         /\ s.key = pc'[u].key
                         /\ \A k \in Keys : htable'[k] # pc'[u].x
                         /\ \A v \in Thread \ {u} : pc'[v].x # pc'[u].x
    BY DEF Fresh
  <2>1. u # t /\ pc'[u] = pc[u] /\ pc[u].x # x /\ pc[u].x \in Tsx
    BY <1>2 DEF Registering, Frames, FrameOf
  <2>2. tsx'[pc'[u].x] = tsx[pc[u].x]
    BY <2>1
  <2>3. \A v \in Thread \ {u} : pc'[v].x # pc'[u].x
    BY <1>1, <1>2, <2>1 DEF Fresh
  <2>4. \A k \in Keys : htable'[k] # pc'[u].x
    BY <1>1, <2>1 DEF Fresh
  <2> QED
    BY <2>1, <2>2, <2>3, <2>4 DEF Fresh
<1>7. Counts'
  BY <1>2, CountsGo
<1>8. Layer'
  BY <1>1, <1>2 DEF Layer, TableAssumption, Thread, Onward, Can
<1> QED
  BY <1>3, <1>5, <1>6, <1>7, <1>8

\* The tables, when they stay and the transaction is not unregistered,
LEMMA TablesSame ==
    ASSUME TableAssumption, Inv, NEW x \in Tsx, NEW r,
           \A t \in Thread, y \in Tsx \ {x} : Registering(t, y) => Registering(t, y)',
           \A t \in Thread : ~Registering(t, x) \/ ~r.live,
           \/ r.live /\ tsx[x].live /\ Kin(tsx[x], r)
           \/ ~r.live /\ \A k \in Keys : htable[k] # x,
           tsx' = [tsx EXCEPT ![x] = r], UNCHANGED <<htable, htable2, stray>>
    PROVE  /\ Tables'
           /\ htable' \in [Keys -> Tsx \cup {None}] /\ htable2' \in Tsx \cup {None}
           /\ stray' \in SUBSET Keys
           /\ \A k \in Keys : htable'[k] \in {htable[k], None, x}
<1> USE DEF Inv, Types, Keys
<1>1. \A y \in Tsx \ {x} : tsx'[y] = tsx[y]
  OBVIOUS
<1>2. tsx'[x] = r /\ None \notin Tsx
  BY DEF TableAssumption
<1>3. ASSUME NEW k \in Keys, htable'[k] # None
      PROVE  LET s == tsx'[htable'[k]] IN s.live /\ s.key = k /\ ~s.terminating
  BY <1>1, <1>2, <1>3 DEF Tables, Kin
<1>4. ASSUME NEW y \in Tsx, tsx'[y].live, ~tsx'[y].terminating,
             tsx'[y].key \notin stray', \A t \in Thread : ~Registering(t, y)'
      PROVE  htable'[tsx'[y].key] = y
  <2>1. CASE y = x
    BY <1>2, <1>4, <2>1 DEF Tables, Kin
  <2>2. CASE y # x
    BY <1>1, <1>4, <2>2 DEF Tables
  <2> QED
    BY <2>1, <2>2
<1>5. ASSUME htable2' # None
      PROVE  /\ tsx'[htable2'].key \in Copies
             /\ htable'[tsx'[htable2'].key] = htable2'
  BY <1>1, <1>2, <1>5 DEF Tables, Kin
<1>6. Tables'
  BY <1>3, <1>4, <1>5 DEF Tables
<1> QED
  BY <1>6

\* and without what is found under a transaction's key.
LEMMA TablesWithout ==
    ASSUME TableAssumption, Inv, NEW x \in Tsx, tsx[x].live,
           \A t \in Thread : ~Registering(t, x), UnregisterTsx(x),
           NEW r, tsx' = [tsx EXCEPT ![x] = r], r.terminating \/ ~r.live,
           \A t \in Thread, y \in Tsx \ {x} : Registering(t, y) => Registering(t, y)'
    PROVE  /\ Tables'
           /\ htable' \in [Keys -> Tsx \cup {None}] /\ htable2' \in Tsx \cup {None}
           /\ stray' \in SUBSET Keys
           /\ \A k \in Keys : htable'[k] \in {htable[k], None, x}
<1> USE DEF Inv, Types, Keys
<1> DEFINE i == tsx[x].key
<1>1. i \in Keys /\ None \notin Tsx /\ Copies \cap Calls = {}
  BY DEF Counts, Counted, Good, TableAssumption
<1>2. /\ htable' = [htable EXCEPT ![i] = None]
      /\ htable2' = IF i \in Copies THEN None ELSE htable2
      /\ stray' = IF tsx[x].terminating /\ htable[i] # None THEN stray \cup {i} ELSE stray
  BY DEF UnregisterTsx
<1>3. \A y \in Tsx \ {x} : tsx'[y] = tsx[y]
  OBVIOUS
<1>4. \A k \in Keys : htable[k] = x => k = i
  BY <1>1 DEF Tables
<1> HIDE DEF i
<1>5. ASSUME NEW k \in Keys, htable'[k] # None
      PROVE  LET s == tsx'[htable'[k]] IN s.live /\ s.key = k /\ ~s.terminating
  <2>1. k # i /\ htable'[k] = htable[k] /\ htable[k] # x /\ htable[k] \in Tsx
    BY <1>1, <1>2, <1>4, <1>5
  <2> QED
    BY <1>3, <1>5, <2>1 DEF Tables
<1>6. ASSUME NEW y \in Tsx, tsx'[y].live, ~tsx'[y].terminating,
             tsx'[y].key \notin stray', \A t \in Thread : ~Registering(t, y)'
      PROVE  htable'[tsx'[y].key] = y
  <2>1. y # x
    BY <1>6
  <2>2. tsx'[y] = tsx[y] /\ tsx[y].key \in Keys
    BY <1>3, <1>6, <2>1 DEF Counts, Counted, Good
  <2>3. htable[tsx[y].key] = y
    BY <1>2, <1>6, <2>1, <2>2 DEF Tables
  <2>4. tsx[y].key # i
    <3>1. SUFFICES ASSUME tsx[y].key = i PROVE FALSE
      OBVIOUS
    <3>2. ~tsx[x].terminating /\ i \notin stray
      BY <1>1, <1>2, <1>6, <2>2, <2>3, <3>1
    <3>3. htable[i] = x
      BY <3>2 DEF Tables, i
    <3> QED
      BY <2>1, <2>3, <3>1, <3>3
  <2> QED
    BY <1>1, <1>2, <2>2, <2>3, <2>4
<1>7. ASSUME htable2' # None
      PROVE  /\ tsx'[htable2'].key \in Copies
             /\ htable'[tsx'[htable2'].key] = htable2'
  <2>1. i \notin Copies /\ htable2' = htable2 /\ htable2 \in Tsx
    BY <1>2, <1>7
  <2>2. tsx[htable2].key \in Copies /\ htable[tsx[htable2].key] = htable2
    BY <1>7, <2>1 DEF Tables
  <2>3. htable2 # x
    BY <2>1, <2>2 DEF i
  <2> QED
    BY <1>1, <1>2, <1>3, <2>1, <2>2, <2>3
<1>8. Tables'
  BY <1>5, <1>6, <1>7 DEF Tables
<1>9. \A k \in Keys : htable'[k] \in {htable[k], None, x}
  BY <1>1, <1>2
<1> QED
  BY <1>1, <1>2, <1>8, <1>9

-----------------------------------------------------------------------------
(* The actions, by what they do to a transaction.                          *)

\* Where a thread that acts goes on.
LEMMA Going ==
    ASSUME TableAssumption, Inv, NEW t \in Thread, pc[t].at # "stop",
           pc[t].at # "idle" \/ Polls(t) \/ layer = "running"
    PROVE  Can(t) /\ layer # "stopped"
BY DEF Inv, Types, Layer, Free, Thread, Polls, Can

\* What is found in the table, and what a thread has that does not register
\* it, is registered.
LEMMA Registered ==
    ASSUME TableAssumption, Inv, NEW x \in Tsx,
           \/ \E k \in Keys : htable[k] = x
           \/ \E t \in Thread : pc[t].x = x /\ pc[t].at # "register"
           \/ tsx[x].lock = None \/ tsx[x].timer \/ tsx[x].send # "none"
    PROVE  \A u \in Thread : ~Registering(u, x)
<1> SUFFICES ASSUME NEW u \in Thread, Registering(u, x) PROVE FALSE
  OBVIOUS
<1>1. /\ pc[u].at = "register" /\ pc[u].x = x /\ None \notin Thread
  BY DEF Registering, TableAssumption
<1> QED
  BY <1>1 DEF Inv, Fresh

\* A transaction changes, without a reference for the tables.
LEMMA AltersKeeps ==
    ASSUME TableAssumption, Inv, NEW t \in Thread, NEW x \in Tsx, NEW r,
           NEW f \in FrameType, \A u \in Thread : ~Registering(u, x),
           pc[t].x \in {x, None}, Onward(t, x, f, r), layer # "stopped",
           tsx[x].live, Kin(tsx[x], r), Good(r, Cardinality(Holds(pc', x))),
           r.refs # 0,
           pc' = [pc EXCEPT ![t] = f], tsx' = [tsx EXCEPT ![x] = r],
           UNCHANGED <<htable, htable2, layer, stray>>
    PROVE  Inv'
<1>1. r.live /\ Counted(r, Cardinality(Holds(pc', x)))
      /\ (r.state = "NULL" => tsx[x].state = "NULL")
  BY DEF Counted, Good, Kin
<1>2. \A u \in Thread, y \in Tsx \ {x} : Registering(u, y) => Registering(u, y)'
  BY DEF Registering, Onward, Inv, Types
<1>3. /\ Tables'
      /\ htable' \in [Keys -> Tsx \cup {None}] /\ htable2' \in Tsx \cup {None}
      /\ stray' \in SUBSET Keys
      /\ \A k \in Keys : htable'[k] \in {htable[k], None, x}
  BY <1>1, <1>2, TablesSame
<1> QED
  BY <1>1, <1>3, StepKeeps

\* A reference is given up, which may be the last one.
LEMMA LeavesKeeps ==
    ASSUME TableAssumption, Inv, NEW t \in Thread, NEW x \in Tsx, NEW q,
           NEW f \in FrameType, \A u \in Thread : ~Registering(u, x),
           pc[t].x \in {x, None}, f.at = "idle", f.x = None, pc[t].at # "stop",
           layer # "stopped", tsx[x].live, Kin(tsx[x], q),
           Good(q, Cardinality(Holds(pc', x)) + 1),
           pc' = [pc EXCEPT ![t] = f], tsx' = [tsx EXCEPT ![x] = DecRef(q)],
           UNCHANGED <<htable, htable2, layer, stray>>
    PROVE  Inv'
<1> DEFINE n == Cardinality(Holds(pc', x))
           r == DecRef(q)
<1>1. n \in Nat
  BY HoldsFinite
<1>2. \/ r = Dead /\ n = 0 /\ q.terminating
      \/ Good(r, n) /\ Kin(q, r) /\ r.refs # 0
  BY <1>1, DecRefIs
<1>3. Onward(t, x, f, r)
  BY DEF Onward
<1> HIDE DEF r
<1>4. CASE Good(r, n) /\ Kin(q, r) /\ r.refs # 0
  <2>1. Kin(tsx[x], r)
    BY <1>4 DEF Kin
  <2> QED
    BY <1>3, <1>4, <2>1, AltersKeeps DEF r
<1>5. CASE r = Dead /\ n = 0 /\ q.terminating
  <2>1. ~r.live /\ Counted(r, n)
    BY <1>5, DeadType DEF Counted
  <2>2. \A k \in Keys : htable[k] # x
    BY <1>5 DEF Inv, Tables, Kin, TableAssumption
  <2>3. \A u \in Thread, y \in Tsx \ {x} : Registering(u, y) => Registering(u, y)'
    BY DEF Registering, Inv, Types
  <2>4. tsx' = [tsx EXCEPT ![x] = r]
    BY DEF r
  <2>5. /\ Tables'
        /\ htable' \in [Keys -> Tsx \cup {None}] /\ htable2' \in Tsx \cup {None}
        /\ stray' \in SUBSET Keys
        /\ \A k \in Keys : htable'[k] \in {htable[k], None, x}
    BY <2>1, <2>2, <2>3, <2>4, TablesSame
  <2> QED
    BY <1>3, <1>5, <2>1, <2>4, <2>5, StepKeeps
<1> QED
  BY <1>2, <1>4, <1>5

\* A transaction is unregistered and shut down.
LEMMA GoneKeeps ==
    ASSUME TableAssumption, Inv, NEW t \in Thread, NEW x \in Tsx, NEW r,
           NEW f \in FrameType, \A u \in Thread : ~Registering(u, x),
           pc[t].x \in {x, None}, layer # "stopped", tsx[x].live,
           \/ f.at = "idle" /\ f.x = None /\ pc[t].at # "stop"
           \/ f = pc[t] /\ f.at \in {"idle", "stop"},
           Shut(tsx[x], r, Cardinality(Holds(pc', x))), UnregisterTsx(x),
           pc' = [pc EXCEPT ![t] = f], tsx' = [tsx EXCEPT ![x] = r],
           UNCHANGED layer
    PROVE  Inv'
<1> DEFINE n == Cardinality(Holds(pc', x))
<1>1. /\ Counted(r, n) /\ (r.live \/ n = 0) /\ (r.terminating \/ ~r.live)
      /\ (r.live => r.state # "NULL")
  BY DeadType DEF Shut, Counted, Good
<1>2. Onward(t, x, f, r)
  BY DEF Onward
<1>3. \A u \in Thread, y \in Tsx \ {x} : Registering(u, y) => Registering(u, y)'
  BY DEF Registering, Inv, Types
<1>4. /\ Tables'
      /\ htable' \in [Keys -> Tsx \cup {None}] /\ htable2' \in Tsx \cup {None}
      /\ stray' \in SUBSET Keys
      /\ \A k \in Keys : htable'[k] \in {htable[k], None, x}
  BY <1>1, <1>3, TablesWithout
<1> QED
  BY <1>1, <1>2, <1>4, StepKeeps

-----------------------------------------------------------------------------
(* The actions.                                                            *)

\* A lookup finds a transaction and takes a reference.
LEMMA LookupKeeps ==
    ASSUME TableAssumption, Inv, NEW t \in Thread, NEW k \in Keys,
           Polls(t), At(t, "idle"), htable[k] # None,
           Go(t, Doing("recv", htable[k], k)),
           tsx' = [tsx EXCEPT ![htable[k]] = AddRef(@)],
           UNCHANGED <<htable, htable2, layer, stray>>
    PROVE  Inv'
<1> DEFINE x == htable[k]
           f == Doing("recv", x, k)
           s == tsx[x]
           n == Cardinality(Holds(pc, x))
           r == AddRef(s)
<1>1. x \in Tsx /\ s.live /\ f \in FrameType /\ None \notin Tsx
  BY DEF Inv, Types, Tables, Doing, FrameType, Busy, Keys, TableAssumption
<1>2. pc[t].at = "idle" /\ pc[t].x = None /\ f.x = x /\ f.at = "recv"
      /\ Can(t) /\ layer # "stopped"
  BY Going DEF At, Inv, Frames, FrameOf, Doing, Busy, Ending
<1>3. tsx' = [tsx EXCEPT ![x] = r] /\ pc' = [pc EXCEPT ![t] = f]
  BY DEF Go
<1>4. \A u \in Thread : ~Registering(u, x)
  BY <1>1, Registered
<1>5. Good(s, n) /\ n \in Nat
  BY <1>1, HoldsFinite DEF Inv, Counts, Counted
<1> HIDE DEF x, f, s, n
<1>6. Cardinality(Holds(pc', x)) = n + 1
  <2>1. ~Held(pc[t], x) /\ Held(pc'[t], x) /\ \A u \in Thread \ {t} : pc'[u] = pc[u]
    BY <1>1, <1>2, <1>3 DEF Held, Inv, Types
  <2> QED
    BY <2>1, HoldsGo DEF n
<1>7. Good(r, n + 1) /\ Kin(s, r) /\ r.refs # 0 /\ r.live
  <2> DEFINE i == s.refs + 1
  <2>1. i \in Nat /\ i # 0 /\ i = Owed(s) + (n + 1)
    BY <1>5, OwedType DEF Good
  <2>2. r = [s EXCEPT !.refs = i]
    BY <1>5 DEF AddRef, Good, TsxType
  <2> HIDE DEF r, i
  <2>3. /\ r \in TsxType /\ r.live /\ r.key = s.key /\ r.terminating = s.terminating
        /\ r.timer = s.timer /\ r.kept = s.kept /\ r.send = s.send
        /\ r.refs = i /\ r.state = s.state /\ r.flags = s.flags
    BY <1>5, <2>1, <2>2 DEF Good, TsxType
  <2>4. Owed(r) = Owed(s) /\ Sane(r)
    BY <1>5, <2>3 DEF Owed, Sane, Good
  <2> QED
    BY <1>5, <2>1, <2>3, <2>4 DEF Good, Kin
<1>8. Onward(t, x, f, r)
  BY <1>2, <1>7 DEF Onward, Ending
<1> HIDE DEF r
<1> QED
  BY <1>1, <1>2, <1>3, <1>4, <1>6, <1>7, <1>8, AltersKeeps DEF s

\* The message a lookup was made for.
LEMMA RecvKeeps ==
    ASSUME TableAssumption, Inv, NEW t \in Thread, Recv(t)
    PROVE  Inv'
<1> DEFINE x == pc[t].x
           s == tsx[x]
           n == Cardinality(Holds(pc', x))
           f == Idle
<1>1. x \in Tsx /\ s.live /\ pc[t].at = "recv" /\ None \notin Tsx
  BY DEF Recv, At, Inv, Frames, FrameOf, Busy, TableAssumption
<1>2. PICK q \in Handled(s) : tsx' = [tsx EXCEPT ![x] = DecRef(q)]
  BY DEF Recv
<1>3. /\ f \in FrameType /\ f.at = "idle" /\ f.x = None
      /\ pc' = [pc EXCEPT ![t] = f] /\ UNCHANGED <<htable, htable2, layer, stray>>
  BY DEF Recv, Go, Idle, FrameType, Free
<1>4. layer # "stopped"
  BY <1>1, Going
<1>5. \A u \in Thread : ~Registering(u, x)
  BY <1>1, Registered
<1>a. pc[t].x = x /\ s = tsx[x]
  OBVIOUS
<1> HIDE DEF x, s, f
<1>6. n \in Nat /\ Good(s, n + 1)
  <2>1. Held(pc[t], x) /\ ~Held(pc'[t], x) /\ \A u \in Thread \ {t} : pc'[u] = pc[u]
    BY <1>1, <1>3, <1>a DEF Held, Inv, Types
  <2>2. Cardinality(Holds(pc, x)) = n + 1 /\ n \in Nat
    BY <2>1, HoldsGo, HoldsFinite
  <2> QED
    BY <1>1, <1>a, <2>2 DEF Inv, Counts, Counted
<1>7. Good(q, n + 1) /\ Kin(s, q)
  BY <1>6, HandledIs
<1> QED
  BY <1>1, <1>2, <1>3, <1>4, <1>5, <1>7, <1>a, LeavesKeeps

\* Its user sends, or ends it; the timer gets a reference.
LEMMA EndKeeps ==
    ASSUME TableAssumption, Inv, NEW t \in Thread, NEW x \in Tsx,
           End(t, x) \/ Send(t, x)
    PROVE  Inv'
<1> DEFINE s == tsx[x]
           n == Cardinality(Holds(pc, x))
           f == pc[t]
<1>1. /\ s.live /\ s.state = "NULL" /\ s.lock = None /\ f.at = "idle"
      /\ UNCHANGED <<pc, htable, htable2, layer, stray>>
  BY DEF End, Send, At
<1>2. PICK r \in {Terminated(s)} \cup Sends(s) : tsx' = [tsx EXCEPT ![x] = r]
  BY DEF End, Send
<1>3. layer # "stopped"
  BY <1>1, Going DEF End, Send
<1>4. \A u \in Thread : ~Registering(u, x)
  BY <1>1, Registered
<1>5. Good(s, n) /\ n \in Nat
  BY <1>1, HoldsFinite DEF Inv, Counts, Counted
<1>6. /\ f \in FrameType /\ f.x = None /\ pc' = [pc EXCEPT ![t] = f]
      /\ Cardinality(Holds(pc', x)) = n
  BY <1>1 DEF Inv, Types, Frames, FrameOf, Busy, Ending
<1>a. f = pc[t] /\ s = tsx[x]
  OBVIOUS
<1> HIDE DEF s, n, f
<1>7. r \in Handled(s)
  BY <1>1 DEF Handled
<1>8. Good(r, n) /\ Kin(s, r)
  BY <1>5, <1>7, HandledIs
<1>9. r.refs # 0
  <2>1. ~r.terminating /\ Owed(r) \in Nat
    BY <1>1, <1>5, <1>8, OwedType DEF Kin, Good, Sane
  <2>2. Owed(r) # 0
    BY <1>8, <2>1 DEF Owed, Good, TsxType
  <2> QED
    BY <1>5, <1>8, <2>1, <2>2 DEF Good
<1>10. Onward(t, x, f, r)
  BY <1>1, <1>a DEF Onward
<1> QED
  BY <1>1, <1>2, <1>3, <1>4, <1>6, <1>8, <1>9, <1>10, <1>a, AltersKeeps

\* The timer's entry, and its reference, go to a thread.
LEMMA PopTimerKeeps ==
    ASSUME TableAssumption, Inv, NEW t \in Thread, NEW x \in Tsx, PopTimer(t, x)
    PROVE  Inv'
<1> DEFINE s == tsx[x]
           n == Cardinality(Holds(pc, x))
           r == [s EXCEPT !.timer = FALSE]
           f == Doing("timer", x, s.key)
<1>1. s.timer /\ s.live /\ Good(s, n) /\ n \in Nat /\ None \notin Tsx
  BY HoldsFinite DEF PopTimer, Inv, Counts, Counted, Dead, TableAssumption
<1>2. /\ f \in FrameType /\ f.x = x /\ f.at = "timer"
      /\ pc[t].at = "idle" /\ pc[t].x = None
  BY <1>1 DEF PopTimer, At, Doing, Good, FrameType, Busy, Ending, Inv, Frames, FrameOf
<1>3. /\ tsx' = [tsx EXCEPT ![x] = r] /\ pc' = [pc EXCEPT ![t] = f]
      /\ UNCHANGED <<htable, htable2, layer, stray>>
  BY DEF PopTimer, Go
<1>4. Can(t) /\ layer # "stopped"
  BY <1>2, Going DEF PopTimer
<1>5. \A u \in Thread : ~Registering(u, x)
  BY <1>1, Registered
<1>6. /\ r \in TsxType /\ r.live /\ r.key = s.key /\ r.terminating = s.terminating
      /\ ~r.timer /\ r.kept = s.kept /\ r.send = s.send
      /\ r.refs = s.refs /\ r.state = s.state /\ r.flags = s.flags
  BY <1>1 DEF Good, TsxType
<1>a. s = tsx[x]
  OBVIOUS
<1> HIDE DEF s, r, f, n
<1>7. Cardinality(Holds(pc', x)) = n + 1
  <2>1. ~Held(pc[t], x) /\ Held(pc'[t], x) /\ \A u \in Thread \ {t} : pc'[u] = pc[u]
    BY <1>1, <1>2, <1>3 DEF Held, Inv, Types
  <2> QED
    BY <2>1, HoldsGo DEF n
<1>8. s.state # "NULL"
  BY <1>1 DEF Good, Sane
<1>9. Good(r, n + 1) /\ Kin(s, r) /\ r.refs # 0
  <2>1. Sane(r) /\ s.refs # 0
    BY <1>1, <1>6, <1>a DEF Sane, Good, Inv, Counts, Counted
  <2>2. r.refs = Owed(r) + (n + 1)
    BY <1>1, <1>6 DEF Owed, Good, TsxType
  <2> QED
    BY <1>1, <1>6, <2>1, <2>2 DEF Good, Kin
<1>10. Onward(t, x, f, r)
  BY <1>2, <1>4, <1>6, <1>8 DEF Onward, Ending
<1> QED
  BY <1>1, <1>2, <1>3, <1>4, <1>5, <1>7, <1>9, <1>10, <1>a, AltersKeeps

\* The timer's thread destroys the transaction, and takes the lock again, or
\* finds it destroyed and gives its reference up.
LEMMA TellKeeps ==
    ASSUME TableAssumption, Inv, NEW t \in Thread, TimerFires(t) \/ Relock(t)
    PROVE  Inv'
<1> DEFINE x == pc[t].x
           s == tsx[x]
           n == Cardinality(Holds(pc, x))
<1>1. /\ x \in Tsx /\ s.live /\ s.state # "NULL" /\ pc[t].at \in {"timer", "told"}
      /\ None \notin Tsx
  BY DEF TimerFires, Relock, At, Inv, Frames, FrameOf, Busy, Ending, TableAssumption
<1>2. UNCHANGED <<htable, htable2, layer, stray>>
  BY DEF TimerFires, Relock
<1>3. Can(t) /\ layer # "stopped"
  BY <1>1, Going
<1>4. \A u \in Thread : ~Registering(u, x)
  BY <1>1, Registered
<1>5. Good(s, n) /\ n \in Nat /\ s.refs # 0
  BY <1>1, HoldsFinite DEF Inv, Counts, Counted
<1>a. pc[t].x = x /\ tsx[x] = s /\ pc \in [Thread -> FrameType]
  BY DEF Inv, Types
<1>6. CASE TimerFires(t) /\ s.state = "DESTROYED"
  <2> DEFINE f == Idle
  <2>1. /\ f \in FrameType /\ f.at = "idle" /\ f.x = None
        /\ pc' = [pc EXCEPT ![t] = f] /\ tsx' = [tsx EXCEPT ![x] = DecRef(s)]
    BY <1>6 DEF TimerFires, Go, Idle, FrameType, Free
  <2> HIDE DEF x, s, n, f
  <2>2. Held(pc[t], x) /\ ~Held(pc'[t], x) /\ \A u \in Thread \ {t} : pc'[u] = pc[u]
    BY <1>1, <1>a, <2>1 DEF Held
  <2>3. Cardinality(Holds(pc', x)) + 1 = n /\ Cardinality(Holds(pc', x)) \in Nat
    BY <2>2, HoldsGo, HoldsFinite DEF n
  <2>4. Kin(s, s) /\ Good(s, Cardinality(Holds(pc', x)) + 1)
    BY <1>5, <2>3 DEF Kin
  <2> QED
    BY <1>1, <1>2, <1>3, <1>4, <1>a, <2>1, <2>4, LeavesKeeps
<1>7. CASE ~(TimerFires(t) /\ s.state = "DESTROYED")
  <2> DEFINE f == Doing(IF At(t, "timer") THEN "told" ELSE "unregister", x, pc[t].key)
             r == IF At(t, "timer") THEN [s EXCEPT !.state = "DESTROYED"]
                  ELSE [s EXCEPT !.lock = t]
  <2>1. /\ f \in FrameType /\ f.x = x /\ f.at \in {"told", "unregister"}
    BY <1>1, <1>a DEF Doing, FrameType, Busy, Ending
  <2>2. tsx' = [tsx EXCEPT ![x] = r] /\ pc' = [pc EXCEPT ![t] = f]
    BY <1>7 DEF TimerFires, Relock, At, Go
  <2>3. /\ r \in TsxType /\ r.live /\ r.key = s.key /\ r.terminating = s.terminating
        /\ r.timer = s.timer /\ r.kept = s.kept /\ r.send = s.send
        /\ r.refs = s.refs /\ r.state # "NULL" /\ r.flags = s.flags
    BY <1>1, <1>5 DEF Good, TsxType
  <2> HIDE DEF x, s, n, f, r
  <2>4. Held(pc[t], x) /\ Held(pc'[t], x) /\ \A u \in Thread \ {t} : pc'[u] = pc[u]
    BY <1>1, <1>a, <2>1, <2>2 DEF Held
  <2>5. Cardinality(Holds(pc', x)) = n
    BY <2>4, HoldsGo DEF n
  <2>6. Good(r, n) /\ Kin(s, r)
    BY <1>5, <2>3 DEF Good, Kin, Sane, Owed
  <2>7. Onward(t, x, f, r)
    BY <1>3, <2>1, <2>3 DEF Onward, Ending
  <2> QED
    BY <1>1, <1>2, <1>3, <1>4, <1>5, <1>a, <2>1, <2>2, <2>3, <2>5, <2>6, <2>7, AltersKeeps
<1> QED
  BY <1>6, <1>7

\* The end of the timer handler.
LEMMA UnregisterKeeps ==
    ASSUME TableAssumption, Inv, NEW t \in Thread, Unregister(t)
    PROVE  Inv'
<1> DEFINE x == pc[t].x
           s == tsx[x]
           q == [s EXCEPT !.lock = None]
           d == Shutdown(q)
           r == DecRef(d)
           f == Idle
           n == Cardinality(Holds(pc', x))
<1>1. /\ x \in Tsx /\ s.live /\ s.state # "NULL" /\ pc[t].at = "unregister"
      /\ pc[t].x = x /\ tsx[x] = s /\ pc \in [Thread -> FrameType] /\ None \notin Tsx
  BY DEF Unregister, At, Inv, Types, Frames, FrameOf, Busy, Ending, TableAssumption
<1>2. tsx' = [tsx EXCEPT ![x] = r] /\ pc' = [pc EXCEPT ![t] = f]
      /\ UnregisterTsx(x) /\ UNCHANGED layer
  BY DEF Unregister, Go
<1>3. f \in FrameType /\ f.at = "idle" /\ f.x = None
  BY DEF Idle, FrameType, Free
<1>4. layer # "stopped" /\ \A u \in Thread : ~Registering(u, x)
  BY <1>1, Going, Registered
<1> HIDE DEF x, s, f
<1>5. n \in Nat /\ Good(s, n + 1) /\ s.refs # 0
  <2>1. Held(pc[t], x) /\ ~Held(pc'[t], x) /\ \A u \in Thread \ {t} : pc'[u] = pc[u]
    BY <1>1, <1>2, <1>3 DEF Held
  <2>2. Cardinality(Holds(pc, x)) = n + 1 /\ n \in Nat
    BY <2>1, HoldsGo, HoldsFinite
  <2> QED
    BY <1>1, <2>2 DEF Inv, Counts, Counted
<1> HIDE DEF n
<1>6. Good(q, n + 1) /\ q.refs # 0 /\ q.state # "NULL" /\ q.key = s.key
  <2>1. /\ q \in TsxType /\ q.live /\ q.key = s.key /\ q.terminating = s.terminating
        /\ q.timer = s.timer /\ q.kept = s.kept /\ q.send = s.send
        /\ q.refs = s.refs /\ q.state = s.state /\ q.flags = s.flags
    BY <1>5 DEF Good, TsxType
  <2> HIDE DEF q
  <2> QED
    BY <1>1, <1>5, <2>1 DEF Good, Sane, Owed
<1> HIDE DEF q
<1>7. Shut(q, d, n + 1) /\ n + 1 # 0
  BY <1>5, <1>6, ShutdownIs
<1> HIDE DEF d
<1>8. Good(d, n + 1) /\ d.terminating /\ d.key = s.key /\ d.state # "NULL"
  BY <1>6, <1>7 DEF Shut
<1>9. \/ r = Dead /\ n = 0
      \/ Good(r, n) /\ Kin(d, r) /\ r.refs # 0
  BY <1>5, <1>8, DecRefIs
<1> HIDE DEF r
<1>10. Shut(s, r, n)
  BY <1>8, <1>9 DEF Shut, Kin
<1> QED
  BY <1>1, <1>2, <1>3, <1>4, <1>10, GoneKeeps DEF n

\* A send ends, before or after the transaction.
LEMMA SendEndsKeeps ==
    ASSUME TableAssumption, Inv, NEW t \in Thread, NEW x \in Tsx,
           SendEnds(t, x) \/ LateSendEnds(t, x)
    PROVE  Inv'
<1> DEFINE s == tsx[x]
           f == pc[t]
           n == Cardinality(Holds(pc, x))
<1>1. /\ f.at = "idle" /\ s.send # "none" /\ Polls(t) /\ UNCHANGED <<pc, layer>>
  BY DEF SendEnds, LateSendEnds, At
<1>2. /\ f \in FrameType /\ f.x = None /\ pc' = [pc EXCEPT ![t] = f]
      /\ Cardinality(Holds(pc', x)) = n
  BY <1>1 DEF Inv, Types, Frames, FrameOf, Busy, Ending
<1>3. layer # "stopped" /\ \A u \in Thread : ~Registering(u, x)
  BY <1>1, Going, Registered
<1>4. s.live /\ Good(s, n) /\ n \in Nat
  BY <1>1, HoldsFinite DEF Inv, Counts, Counted, Dead
<1>a. f = pc[t] /\ s = tsx[x]
  OBVIOUS
<1>5. CASE SendEnds(t, x)
  <2>1. PICK q \in Afterwards(s) : tsx' = [tsx EXCEPT ![x] = DecRef(q)]
    BY <1>5 DEF SendEnds
  <2>2. UNCHANGED <<htable, htable2, layer, stray>>
    BY <1>5 DEF SendEnds
  <2> HIDE DEF s, f, n
  <2>3. Good(q, n + 1) /\ Kin(s, q)
    BY <1>1, <1>4, AfterwardsIs
  <2> QED
    BY <1>1, <1>2, <1>3, <1>4, <1>a, <2>1, <2>2, <2>3, LeavesKeeps
<1>6. CASE LateSendEnds(t, x)
  <2> DEFINE e == Ended(s)
             g == [e EXCEPT !.state = "DESTROYED"]
             c == Shutdown(g)
             r == IF s.send = "direct" THEN [c EXCEPT !.kept = c.kept + 1] ELSE DecRef(c)
  <2>1. UnregisterTsx(x) /\ "DESTROY" \in s.flags
    BY <1>6 DEF LateSendEnds
  <2>2. tsx' = [tsx EXCEPT ![x] = r]
    <3>1. tsx' = [tsx EXCEPT ![x] = IF s.send = "direct" THEN [c EXCEPT !.kept = @ + 1]
                                    ELSE DecRef(c)]
      BY <1>6 DEF LateSendEnds
    <3> QED
      BY <3>1
  <2> HIDE DEF s, f, n
  <2>3. s.terminating
    BY <1>4, <2>1 DEF Good, Sane
  <2>4. Good(e, n + 1) /\ Kin(s, e)
    BY <1>1, <1>4, EndedIs
  <2> HIDE DEF e
  <2>5. Good(g, n + 1) /\ g.state # "NULL" /\ g.key = s.key /\ g.refs # 0 /\ g.terminating
    <3>1. /\ g \in TsxType /\ g.live /\ g.key = e.key /\ g.terminating = e.terminating
          /\ g.timer = e.timer /\ g.kept = e.kept /\ g.send = e.send
          /\ g.refs = e.refs /\ g.state = "DESTROYED" /\ g.flags = e.flags
      BY <2>4 DEF Good, TsxType
    <3>2. e.refs # 0
      BY <1>4, <2>4, OwedType DEF Good
    <3> HIDE DEF g
    <3> QED
      BY <2>3, <2>4, <3>1, <3>2 DEF Good, Kin, Sane, Owed
  <2> HIDE DEF g
  <2>6. Good(c, n + 1) /\ c.refs # 0 /\ c.terminating /\ c.key = s.key /\ c.state # "NULL"
    BY <1>4, <2>5, ShutdownIs DEF Shut
  <2> HIDE DEF c
  <2>7. Shut(s, r, n)
    <3>1. CASE s.send = "direct"
      <4> DEFINE i == c.kept + 1
      <4>1. i \in Nat /\ r = [c EXCEPT !.kept = i]
        BY <2>6, <3>1 DEF Good, TsxType
      <4> HIDE DEF i, r
      <4>2. /\ r \in TsxType /\ r.live /\ r.key = c.key /\ r.terminating = c.terminating
            /\ r.timer = c.timer /\ r.kept = i /\ r.send = c.send
            /\ r.refs = c.refs /\ r.state = c.state /\ r.flags = c.flags
        BY <2>6, <4>1 DEF Good, TsxType
      <4>3. r.refs = Owed(r) + n
        BY <1>4, <2>6, <4>2 DEF Owed, Good, TsxType, i
      <4> QED
        BY <2>6, <4>2, <4>3 DEF Shut, Good, Sane
    <3>2. CASE s.send # "direct"
      <4>1. r = DecRef(c)
        BY <3>2
      <4>2. \/ r = Dead /\ n = 0
            \/ Good(r, n) /\ Kin(c, r) /\ r.refs # 0
        BY <1>4, <2>6, <4>1, DecRefIs
      <4> HIDE DEF r
      <4> QED
        BY <2>6, <4>2 DEF Shut, Kin
    <3> QED
      BY <3>1, <3>2
  <2> HIDE DEF r
  <2> QED
    BY <1>1, <1>2, <1>3, <1>4, <1>a, <2>1, <2>2, <2>7, GoneKeeps
<1> QED
  BY <1>5, <1>6

\* Memory nobody uses becomes a transaction that its thread will register.
LEMMA CreateKeeps ==
    ASSUME TableAssumption, Inv, NEW t \in Thread, NEW x \in Tsx, NEW k \in Keys,
           NEW b \in BOOLEAN, ~tsx[x].live, pc[t].at \in Free, pc[t].at # "stop",
           Can(t),
           tsx' = [tsx EXCEPT ![x] = New(k, t, b)], Go(t, Doing("register", x, k)),
           UNCHANGED <<htable, htable2, layer, stray>>
    PROVE  Inv'
<1> USE DEF Inv, Types, Free, Busy, Asking, Ending, Keys, FrameType
<1> DEFINE f == Doing("register", x, k)
           r == New(k, t, b)
<1>1. /\ r \in TsxType /\ r.live /\ r.key = k /\ r.state = "NULL" /\ r.refs = 1
      /\ r.lock = t /\ ~r.timer /\ ~r.terminating
      /\ r.send = "none" /\ r.flags = {} /\ r.kept = 0
  BY DEF New, Dead, TsxType
<1>2. f \in FrameType /\ f.x = x /\ f.key = k /\ f.at = "register"
  BY DEF Doing
<1>3. tsx' = [tsx EXCEPT ![x] = r] /\ pc' = [pc EXCEPT ![t] = f]
  BY DEF Go
<1> HIDE DEF f, r
<1>4. pc[t].x = None /\ None \notin Tsx /\ \A u \in Thread : pc[u].x # x
  BY DEF Frames, FrameOf, TableAssumption
<1>5. (\A i \in Keys : htable[i] # x) /\ htable2 # x
  BY <1>4 DEF Tables
<1>6. Types'
  BY <1>1, <1>2, <1>3
<1>7. Frames'
  BY <1>1, <1>2, <1>3 DEF Frames, FrameOf
<1>8. Fresh'
  BY <1>1, <1>2, <1>3, <1>4, <1>5 DEF Fresh, Frames, FrameOf
<1>9. Tables'
  BY <1>1, <1>2, <1>3, <1>4, <1>5 DEF Tables, Registering
<1>10. Counts'
  <2>1. \A u \in Thread : ~(pc'[u].x = x /\ pc'[u].at # "register")
    BY <1>2, <1>3, <1>4
  <2>2. Cardinality(Holds(pc', x)) = 0
    BY <2>1, HoldsFinite
  <2>3. Counted(r, Cardinality(Holds(pc', x)))
    BY <1>1, <2>2 DEF Counted, Good, Sane, Owed
  <2> QED
    BY <1>2, <1>3, <1>4, <2>3, CountsGo
<1>11. Layer'
  BY <1>2, <1>3 DEF Layer, Can, TableAssumption, Thread
<1> QED
  BY <1>6, <1>7, <1>8, <1>9, <1>10, <1>11

\* A registration, or one that finds the key taken.
LEMMA RegisterKeeps ==
    ASSUME TableAssumption, Inv, NEW t \in Thread, RegisterTaken(t) \/ Register(t)
    PROVE  Inv'
<1> DEFINE x == pc[t].x
           k == pc[t].key
           s == tsx[x]
           q == [s EXCEPT !.lock = None]
           f == Idle
           n == Cardinality(Holds(pc', x))
<1>1. /\ x \in Tsx /\ s.live /\ pc[t].at = "register" /\ None \notin Tsx
      /\ pc[t].x = x /\ tsx[x] = s /\ pc[t].key = k /\ pc \in [Thread -> FrameType]
  BY DEF RegisterTaken, Register, At, Inv, Types, Frames, FrameOf, Busy, TableAssumption
<1>2. /\ ~s.timer /\ ~s.terminating /\ s.key = k /\ s.state = "NULL"
      /\ s.send = "none" /\ s.flags = {} /\ s.kept = 0
      /\ \A i \in Keys : htable[i] # x
      /\ \A u \in Thread \ {t} : pc[u].x # x
  BY <1>1 DEF Inv, Fresh
<1>3. /\ f \in FrameType /\ f.at = "idle" /\ f.x = None
      /\ pc' = [pc EXCEPT ![t] = f] /\ UNCHANGED <<layer, stray>>
  BY DEF RegisterTaken, Register, Enter, Go, Idle, FrameType, Free
<1>4. layer # "stopped"
  BY <1>1, Going
<1> HIDE DEF x, s, f, k
<1>5. n = 0
  <2>1. \A u \in Thread : ~(pc'[u].x = x /\ pc'[u].at # "register")
    BY <1>1, <1>2, <1>3
  <2> QED
    BY <2>1, HoldsFinite
<1>6. s \in TsxType /\ k \in Keys /\ s.refs = 1
  <2>1. \A u \in Thread : ~(pc[u].x = x /\ pc[u].at # "register")
    BY <1>1, <1>2
  <2>2. Cardinality(Holds(pc, x)) = 0
    BY <2>1, HoldsFinite
  <2>3. Good(s, 0)
    BY <1>1, <2>2 DEF Inv, Counts, Counted
  <2> QED
    BY <1>2, <2>3 DEF Good, Owed
<1>7. /\ q \in TsxType /\ q.live /\ q.key = k /\ ~q.terminating /\ ~q.timer
      /\ q.kept = 0 /\ q.send = "none" /\ q.refs = 1 /\ q.state = "NULL" /\ q.flags = {}
  BY <1>1, <1>2, <1>6 DEF TsxType
<1>8. CASE RegisterTaken(t)
  <2> DEFINE r == Shutdown(q)
  <2>1. tsx' = [tsx EXCEPT ![x] = r] /\ UNCHANGED <<htable, htable2>>
    BY <1>1, <1>8 DEF RegisterTaken
  <2>2. r = Dead
    <3> HIDE DEF q
    <3>1. CancelTimer(q) = q
      BY <1>7 DEF CancelTimer
    <3>2. r = DecRef([[q EXCEPT !.flags = ShutFlags(q.flags)]
                         EXCEPT !.terminating = TRUE])
      BY <1>7, <3>1 DEF Shutdown, TsxType
    <3> QED
      BY <1>7, <3>2 DEF DecRef, TsxType
  <2> HIDE DEF r, n
  <2>3. ~r.live /\ Counted(r, n)
    BY <2>2, DeadType DEF Counted
  <2>4. \A u \in Thread, y \in Tsx \ {x} : Registering(u, y) => Registering(u, y)'
    BY <1>1, <1>3 DEF Registering
  <2>5. /\ Tables'
        /\ htable' \in [Keys -> Tsx \cup {None}] /\ htable2' \in Tsx \cup {None}
        /\ stray' \in SUBSET Keys
        /\ \A i \in Keys : htable'[i] \in {htable[i], None, x}
    BY <1>1, <1>2, <1>3, <2>1, <2>3, <2>4, TablesSame
  <2>6. Onward(t, x, f, r) /\ \A u \in Thread \ {t} : ~Registering(u, x)
    BY <1>1, <1>2, <1>3 DEF Onward, Registering
  <2> QED
    BY <1>1, <1>3, <1>4, <1>5, <2>1, <2>3, <2>5, <2>6, StepKeeps DEF n
<1>9. CASE Register(t)
  <2>1. /\ tsx' = [tsx EXCEPT ![x] = q] /\ htable[k] = None
        /\ htable' = [htable EXCEPT ![k] = x]
        /\ htable2' = IF k \in Copies THEN x ELSE htable2
    BY <1>1, <1>9 DEF Register, Enter
  <2> HIDE DEF q, n
  <2>2. Counted(q, n)
    BY <1>5, <1>6, <1>7 DEF Counted, Good, Sane, Owed
  <2>3. /\ htable' \in [Keys -> Tsx \cup {None}] /\ htable2' \in Tsx \cup {None}
        /\ stray' \in SUBSET Keys
        /\ \A i \in Keys : htable'[i] \in {htable[i], None, x}
    BY <1>1, <1>3, <2>1 DEF Inv, Types
  <2>4. Tables'
    <3>1. \A y \in Tsx \ {x} : tsx'[y] = tsx[y]
      BY <2>1
    <3>2. tsx'[x] = q /\ htable \in [Keys -> Tsx \cup {None}]
      BY <1>1, <2>1 DEF Inv, Types
    <3>3. ASSUME NEW i \in Keys, htable'[i] # None
          PROVE  LET z == tsx'[htable'[i]] IN z.live /\ z.key = i /\ ~z.terminating
      BY <1>1, <1>2, <1>7, <2>1, <3>1, <3>2, <3>3 DEF Inv, Tables
    <3>4. ASSUME NEW y \in Tsx, tsx'[y].live, ~tsx'[y].terminating,
                 tsx'[y].key \notin stray', \A u \in Thread : ~Registering(u, y)'
          PROVE  htable'[tsx'[y].key] = y
      <4>1. CASE y = x
        BY <1>6, <1>7, <2>1, <3>2, <4>1
      <4>2. CASE y # x
        <5>1. htable[tsx[y].key] = y /\ tsx[y].key \in Keys
          BY <1>1, <1>3, <3>1, <3>4, <4>2
             DEF Inv, Tables, Registering, Counts, Counted, Good
        <5> QED
          BY <1>1, <2>1, <3>1, <3>2, <4>2, <5>1
      <4> QED
        BY <4>1, <4>2
    <3>5. ASSUME htable2' # None
          PROVE  /\ tsx'[htable2'].key \in Copies
                 /\ htable'[tsx'[htable2'].key] = htable2'
      <4>1. CASE k \in Copies
        BY <1>6, <1>7, <2>1, <3>2, <4>1
      <4>2. CASE k \notin Copies
        <5>1. /\ htable2' = htable2 /\ htable2 \in Tsx /\ tsx[htable2].key \in Copies
              /\ htable[tsx[htable2].key] = htable2
          BY <2>1, <3>5, <4>2 DEF Inv, Types, Tables
        <5>2. htable2 # x
          BY <1>1, <1>2, <4>2, <5>1
        <5> QED
          BY <2>1, <3>1, <3>2, <4>2, <5>1, <5>2
      <4> QED
        BY <4>1, <4>2
    <3> QED
      BY <3>3, <3>4, <3>5 DEF Tables
  <2>5. Onward(t, x, f, q) /\ \A u \in Thread \ {t} : ~Registering(u, x)
    BY <1>1, <1>2, <1>3 DEF Onward, Registering
  <2> QED
    BY <1>1, <1>2, <1>3, <1>4, <1>5, <1>7, <2>1, <2>2, <2>3, <2>4, <2>5, StepKeeps DEF n
<1> QED
  BY <1>8, <1>9

\* The workers are joined.
LEMMA QuitKeeps ==
    ASSUME TableAssumption, Inv, Quit
    PROVE  Inv'
<1> USE DEF Inv, Types, Keys
<1>1. layer' = "quitting" /\ UNCHANGED <<tsx, htable, htable2, pc, stray>>
      /\ \A t \in Thread : pc[t].at = "idle"
  BY DEF Quit, At
<1>2. Types' /\ Frames' /\ Layer'
  BY <1>1 DEF Frames, FrameOf, Layer, Thread
<1>3. Fresh' /\ Tables'
  BY <1>1 DEF Fresh, Tables, Registering
<1>4. Counts'
  BY <1>1 DEF Counts, Holds
<1> QED
  BY <1>2, <1>3, <1>4

\* The layer is being stopped, or has been: the thread has no transaction.
LEMMA StopKeeps ==
    ASSUME TableAssumption, Inv, Stop \/ Stopped
    PROVE  Inv'
<1> USE DEF Inv, Types, Free, Busy, Asking, Ending, Keys, FrameType
<1> DEFINE f == IF Stop THEN Doing("stop", None, None) ELSE Idle
<1>1. /\ User \in Thread /\ pc[User].at \in {"idle", "stop"}
      /\ UNCHANGED <<tsx, htable, htable2, stray>> /\ None \notin Tsx
  BY DEF Stop, Stopped, Thread, At, TableAssumption
<1>2. /\ \/ layer = "quitting" /\ layer' = "stopping" /\ f.at = "stop"
         \/ layer = "stopping" /\ layer' = "stopped" /\ f.at = "idle"
      /\ f \in FrameType /\ f.x = None /\ pc' = [pc EXCEPT ![User] = f]
  BY DEF Stop, Stopped, Doing, Idle, Go, At, Frames, FrameOf, Thread
<1>3. layer' = "stopped" => \A k \in Keys : htable[k] = None
  BY <1>2 DEF Stop, Stopped
<1> HIDE DEF f
<1>4. pc[User].x = None /\ \A t \in Workers : pc[t].at = "idle"
  BY <1>1, <1>2 DEF Frames, FrameOf, Layer
<1>5. Types'
  BY <1>1, <1>2
<1>6. Frames'
  <2>1. \A t \in Thread : pc'[t].at # "stop" \/ layer' = "stopping"
    BY <1>1, <1>2, <1>4 DEF Thread
  <2> QED
    BY <1>1, <1>2, <2>1 DEF Frames, FrameOf
<1>7. Fresh' /\ Tables'
  BY <1>1, <1>2 DEF Fresh, Frames, FrameOf, Tables, Registering
<1>8. Counts'
  BY <1>1, <1>2, <1>4, QuietCounts
<1>9. ASSUME layer' = "stopped", NEW x \in Tsx, tsx[x].live
      PROVE  Left(tsx[x])
  <2>1. \A t \in Thread : pc[t].at \notin Busy /\ pc[t].x = None
    BY <1>1, <1>4 DEF Thread, Frames, FrameOf
  <2>2. Cardinality(Holds(pc, x)) = 0
    BY <1>1, <2>1, HoldsFinite
  <2>3. Good(tsx[x], 0) /\ tsx[x].refs # 0
    BY <1>9, <2>2 DEF Counts, Counted
  <2>4. CASE tsx[x].terminating
    BY <2>3, <2>4 DEF Good, Sane, Owed, Left, TsxType
  <2>5. CASE ~tsx[x].terminating
    <3>1. \A t \in Thread : ~Registering(t, x)
      BY <2>1 DEF Registering
    <3>2. tsx[x].key \in Keys
      BY <2>3 DEF Good
    <3> QED
      BY <1>1, <1>3, <1>9, <2>5, <3>1, <3>2 DEF Tables, Left
  <2> QED
    BY <2>4, <2>5
<1>10. Layer'
  <2>1. \A t \in Workers : pc'[t].at = "idle"
    BY <1>1, <1>2, <1>4 DEF TableAssumption, Thread
  <2>2. pc'[User].at = f.at
    BY <1>1, <1>2
  <2>3. layer' = "stopped" => \A x \in Tsx : tsx'[x].live => Left(tsx[x])'
    BY <1>1, <1>9 DEF Left
  <2> QED
    BY <1>2, <2>1, <2>2, <2>3 DEF Layer
<1> QED
  BY <1>5, <1>6, <1>7, <1>8, <1>10

\* One transaction of those that the stopping layer finds.
LEMMA StopTsxKeeps ==
    ASSUME TableAssumption, Inv, NEW x \in Tsx, StopTsx(x)
    PROVE  Inv'
<1> DEFINE s == tsx[x]
           q == IF s.state = "NULL" THEN Terminated(s) ELSE s
           r == Shutdown(q)
           f == pc[User]
           n == Cardinality(Holds(pc, x))
<1>1. /\ s.live /\ htable[s.key] = x /\ f \in FrameType /\ User \in Thread
      /\ f.at = "stop" /\ f.x = None /\ pc[User].x = None
  BY DEF StopTsx, At, Inv, Types, Frames, FrameOf, Thread, Busy, Ending
<1>2. /\ UnregisterTsx(x) /\ UNCHANGED <<pc, layer>> /\ tsx' = [tsx EXCEPT ![x] = r]
  BY DEF StopTsx
<1>3. layer = "stopping"
  BY <1>1 DEF Inv, Frames, FrameOf
<1>4. Good(s, n) /\ s.refs # 0 /\ n \in Nat /\ s.key \in Keys
  BY <1>1, HoldsFinite DEF Inv, Counts, Counted, Good
<1>5. pc' = [pc EXCEPT ![User] = f] /\ Cardinality(Holds(pc', x)) = n
  BY <1>2 DEF Inv, Types
<1>6. \A u \in Thread : ~Registering(u, x)
  BY <1>1, <1>4, Registered
<1>a. s = tsx[x] /\ f = pc[User]
  OBVIOUS
<1> HIDE DEF s, n, f, r
<1>7. ~s.terminating
  BY <1>1, <1>4, <1>a DEF Inv, Tables, TableAssumption
<1>8. Good(q, n) /\ q.key = s.key /\ q.refs # 0 /\ q.state # "NULL"
  <2>1. CASE s.state # "NULL"
    BY <1>4, <2>1
  <2>2. CASE s.state = "NULL"
    <3>1. q = Terminated(s)
      BY <2>2
    <3> QED
      BY <1>4, <1>7, <3>1, TerminatedIs DEF Kin
  <2> QED
    BY <2>1, <2>2
<1> HIDE DEF q
<1>9. Shut(s, r, n)
  BY <1>4, <1>8, ShutdownIs DEF Shut, r
<1>10. Shut(tsx[x], r, Cardinality(Holds(pc', x)))
  BY <1>5, <1>9, <1>a
<1>11. /\ tsx[x].live /\ f = pc[User] /\ f.at \in {"idle", "stop"} /\ layer # "stopped"
       /\ pc[User].x \in {x, None} /\ layer' = layer
  BY <1>1, <1>2, <1>3, <1>a
<1>12. tsx' = [tsx EXCEPT ![x] = r] /\ UnregisterTsx(x)
  BY <1>2
<1> QED
  BY <1>1, <1>5, <1>6, <1>10, <1>11, <1>12, GoneKeeps

-----------------------------------------------------------------------------
(* The specification.                                                      *)

\* Nothing is alive at first.
LEMMA InitInv == TableAssumption /\ Init => Inv
<1> SUFFICES ASSUME TableAssumption, Init PROVE Inv
  OBVIOUS
<1> USE DEF Init, Keys
<1>1. Types
  BY DeadType DEF Types, FrameType, Free, Idle
<1>2. Frames /\ Fresh
  BY DEF Frames, FrameOf, Fresh, Idle, Busy, Ending, Asking
<1>3. Tables
  BY DeadType DEF Tables
<1>4. Counts
  BY DeadType DEF Counts, Counted
<1>5. Layer
  BY DEF Layer, Idle
<1> QED
  BY <1>1, <1>2, <1>3, <1>4, <1>5 DEF Inv

\* The three lookups.
LEMMA LookKeeps ==
    ASSUME TableAssumption, Inv, NEW t \in Thread, NEW k \in Keys,
           \/ RxRequest(t, k) /\ k \in Copies
           \/ RxResponse(t, k)
           \/ FindTsx(t, k)
    PROVE  Inv'
<1> DEFINE f == Doing("detect", None, k)
<1>1. CASE RxRequest(t, k) /\ k \in Copies /\ Go(t, f) /\ UNCHANGED tsx
  <2>1. /\ f \in FrameType /\ f.at = "detect" /\ f.x = None /\ f.key = k
        /\ pc' = [pc EXCEPT ![t] = f] /\ pc[t].at = "idle"
        /\ UNCHANGED <<tsx, htable, htable2, layer, stray>> /\ Polls(t)
    BY <1>1 DEF Doing, FrameType, Free, Go, Keys, RxRequest, At
  <2>2. Can(t)
    BY <2>1, Going
  <2> HIDE DEF f
  <2> QED
    BY <1>1, <2>1, <2>2, QuietKeeps DEF Free, Asking
<1>2. CASE ~(RxRequest(t, k) /\ k \in Copies /\ Go(t, f) /\ UNCHANGED tsx)
  <2>1. /\ Polls(t) /\ At(t, "idle") /\ htable[k] # None
        /\ Go(t, Doing("recv", htable[k], k))
        /\ tsx' = [tsx EXCEPT ![htable[k]] = AddRef(@)]
        /\ UNCHANGED <<htable, htable2, layer, stray>>
    BY <1>2 DEF RxRequest, RxResponse, FindTsx
  <2> QED
    BY <2>1, LookupKeeps
<1> QED
  BY <1>1, <1>2

\* A request without a transaction.
LEMMA AskKeeps ==
    ASSUME TableAssumption, Inv, NEW t \in Thread,
           DetectByKey(t) \/ DetectMerged(t) \/ Accept(t)
    PROVE  Inv'
<1> DEFINE k == pc[t].key
<1>1. PICK f \in {Idle, Doing("accept", None, k), Doing("merged", None, k),
                  Doing("refuse", None, k), Doing("create", None, k)} : Go(t, f)
  BY DEF DetectByKey, DetectMerged, Accept
<1>2. pc[t].at \in Asking /\ UNCHANGED <<tsx, htable, htable2, layer, stray>>
  BY DEF DetectByKey, DetectMerged, Accept, At, Asking
<1>3. k \in Copies
  BY <1>2 DEF Inv, Frames, FrameOf
<1>4. /\ f \in FrameType /\ f.at \in Free \ {"stop"} /\ f.x = None
      /\ (f.at \in Asking => f.key \in Copies) /\ pc' = [pc EXCEPT ![t] = f]
  BY <1>1, <1>3 DEF Idle, Doing, FrameType, Free, Asking, Keys, Go
<1>5. pc[t].at \in Free \ {"stop"} /\ pc[t].at # "idle"
  BY <1>2 DEF Free, Asking
<1>6. Can(t)
  BY <1>5, Going
<1> QED
  BY <1>2, <1>4, <1>5, <1>6, QuietKeeps

\* The two creations.
LEMMA MakeKeeps ==
    ASSUME TableAssumption, Inv, NEW t \in Thread,
           CreateUas(t) \/ \E k \in Calls : CreateUac(t, k)
    PROVE  Inv'
<1>1. CASE CreateUas(t)
  <2>1. pc[t].at \in Asking /\ UNCHANGED <<htable, htable2, layer, stray>>
    BY <1>1 DEF CreateUas, At, Asking
  <2>2. pc[t].key \in Copies /\ pc[t].at \in Free \ {"stop"} /\ pc[t].at # "idle"
    BY <2>1 DEF Inv, Frames, FrameOf, Asking, Free
  <2>3. Can(t)
    BY <2>2, Going
  <2>4. CASE Go(t, Idle) /\ UNCHANGED tsx
    <3> DEFINE f == Idle
    <3>1. /\ f \in FrameType /\ f.at = "idle" /\ f.x = None
          /\ pc' = [pc EXCEPT ![t] = f] /\ UNCHANGED tsx
      BY <2>4 DEF Idle, FrameType, Free, Go
    <3> HIDE DEF f
    <3> QED
      BY <2>1, <2>2, <2>3, <3>1, QuietKeeps DEF Free, Asking
  <2>5. ASSUME NEW x \in Tsx, ~tsx[x].live,
               tsx' = [tsx EXCEPT ![x] = New(pc[t].key, t, At(t, "create"))],
               Go(t, Doing("register", x, pc[t].key))
        PROVE  Inv'
    <3>1. At(t, "create") \in BOOLEAN
      BY DEF At
    <3>2. pc[t].key \in Keys
      BY <2>2 DEF Keys
    <3> QED
      BY <2>1, <2>2, <2>3, <2>5, <3>1, <3>2, CreateKeeps
  <2> QED
    BY <1>1, <2>4, <2>5 DEF CreateUas
<1>2. ASSUME NEW k \in Calls, CreateUac(t, k)
      PROVE  Inv'
  <2>1. PICK x \in Tsx : /\ ~tsx[x].live
                         /\ tsx' = [tsx EXCEPT ![x] = New(k, t, TRUE)]
                         /\ Go(t, Doing("register", x, k))
    BY <1>2 DEF CreateUac
  <2>2. /\ pc[t].at \in Free \ {"stop"} /\ UNCHANGED <<htable, htable2, layer, stray>>
        /\ layer = "running" \/ Polls(t)
    BY <1>2 DEF CreateUac, At, Free
  <2>3. Can(t)
    BY <2>2, Going
  <2>4. k \in Keys
    BY DEF Keys
  <2> QED
    BY <2>1, <2>2, <2>3, <2>4, CreateKeeps
<1> QED
  BY <1>1, <1>2

\* A stutter.
LEMMA StayKeeps ==
    ASSUME Inv, UNCHANGED vars
    PROVE  Inv'
<1> USE DEF vars, Inv
<1>1. Types' /\ Frames' /\ Layer'
  BY DEF Types, Frames, FrameOf, Layer, Left
<1>2. Fresh' /\ Tables'
  BY DEF Fresh, Tables, Registering
<1>3. Counts'
  BY DEF Counts, Holds
<1> QED
  BY <1>1, <1>2, <1>3

\* Every step keeps the invariant.
LEMMA NextKeeps == TableAssumption /\ Inv /\ [Next]_vars => Inv'
<1> SUFFICES ASSUME TableAssumption, Inv, [Next]_vars PROVE Inv'
  OBVIOUS
<1>1. ASSUME NEW t \in Thread, NEW k \in Copies, RxRequest(t, k) \/ FindTsx(t, k)
      PROVE  Inv'
  <2>1. k \in Keys
    BY DEF Keys
  <2> QED
    BY <1>1, <2>1, LookKeeps
<1>2. ASSUME NEW t \in Thread, NEW k \in Calls, RxResponse(t, k)
      PROVE  Inv'
  <2>1. k \in Keys
    BY DEF Keys
  <2> QED
    BY <1>2, <2>1, LookKeeps
<1>3. ASSUME NEW t \in Thread, NEW k \in Calls, CreateUac(t, k)
      PROVE  Inv'
  BY <1>3, MakeKeeps
<1>4. ASSUME NEW t \in Thread,
             \/ Recv(t) \/ DetectByKey(t) \/ DetectMerged(t) \/ Accept(t)
             \/ CreateUas(t) \/ RegisterTaken(t) \/ Register(t)
             \/ TimerFires(t) \/ Relock(t) \/ Unregister(t)
      PROVE  Inv'
  BY <1>4, RecvKeeps, AskKeeps, MakeKeeps, RegisterKeeps,
     TellKeeps, UnregisterKeeps
<1>5. ASSUME NEW t \in Thread, NEW x \in Tsx,
             \/ End(t, x) \/ PopTimer(t, x)
             \/ Send(t, x) \/ SendEnds(t, x) \/ LateSendEnds(t, x)
      PROVE  Inv'
  BY <1>5, EndKeeps, PopTimerKeeps, SendEndsKeeps
<1>6. CASE Quit \/ Stop \/ Stopped \/ \E x \in Tsx : StopTsx(x)
  BY <1>6, QuitKeeps, StopKeeps, StopTsxKeeps
<1>7. CASE Over \/ UNCHANGED vars
  BY <1>7, StayKeeps DEF Over
<1> QED
  BY <1>1, <1>2, <1>3, <1>4, <1>5, <1>6, <1>7 DEF Next

\* In every state: the tables, the frames of the threads, the references, the
\* timers, the sends and the end of the layer agree as Inv says
\* (sip_transaction.c:582).
THEOREM TableSound == Spec => []Inv
BY TableAssumption, InitInv, NextKeeps, PTL DEF Spec

\* A transaction is found by its key from its registration until it is
\* unregistered, however many threads handle copies of its request at once,
\* unless the end of a late send has removed what stood under that key; and no
\* key leads to a transaction of another key or to an unregistered one.
THEOREM AlwaysFindable == Spec => []Findable
<1>1. Inv => Findable
  <2> SUFFICES ASSUME Inv PROVE Findable
    OBVIOUS
  <2>1. ASSUME NEW x \in Tsx, tsx[x].live, ~tsx[x].terminating,
               tsx[x].key \notin stray, ~(\E t \in Users(x) : At(t, "register"))
        PROVE  htable[tsx[x].key] = x
    <3>1. \A t \in Thread : ~Registering(t, x)
      BY <2>1 DEF Users, At, Registering
    <3> QED
      BY <2>1, <3>1 DEF Inv, Tables
  <2>2. \A k \in Copies \cup Calls : htable[k] # None =>
           LET s == tsx[htable[k]] IN s.live /\ s.key = k /\ ~s.terminating
    BY DEF Inv, Tables, Keys
  <2> QED
    BY <2>1, <2>2 DEF Findable
<1> QED
  BY <1>1, TableSound, PTL

\* No thread and no table leads to freed memory; the references are those of
\* the creation, the timer, the outstanding send and the threads and what
\* transport_callback keeps; and the layer's end leaves only what refuses to
\* be destroyed or cannot be found.
THEOREM AlwaysAlive == Spec => []UsedAlive
<1>1. Inv => UsedAlive
  <2> SUFFICES ASSUME Inv PROVE UsedAlive
    OBVIOUS
  <2>1. htable2 # None => tsx[htable2].live
    BY DEF Inv, Types, Tables, Keys
  <2>2. \A t \in Thread : pc[t].x # None => tsx[pc[t].x].live
    BY DEF Inv, Frames, FrameOf
  <2>3. \A x \in Tsx : {t \in Users(x) : ~At(t, "register")} = Holds(pc, x)
    BY DEF Users, At, Holds
  <2>4. ASSUME NEW x \in Tsx, tsx[x].live
        PROVE  tsx[x].refs = (IF tsx[x].terminating THEN 0 ELSE 1)
                             + (IF tsx[x].timer THEN 1 ELSE 0)
                             + (IF tsx[x].send # "none" THEN 1 ELSE 0)
                             + tsx[x].kept
                             + Cardinality({t \in Users(x) : ~At(t, "register")})
    BY <2>3, <2>4 DEF Inv, Counts, Counted, Good, Owed
  <2>5. layer = "stopped" =>
            \A x \in Tsx : tsx[x].live =>
                tsx[x].send # "none" \/ tsx[x].kept > 0 \/ tsx[x].key \in stray
    BY DEF Inv, Layer, Left
  <2> QED
    BY <2>1, <2>2, <2>4, <2>5 DEF UsedAlive
<1> QED
  BY <1>1, TableSound, PTL

=============================================================================
