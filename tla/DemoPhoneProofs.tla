-------------------------- MODULE DemoPhoneProofs --------------------------
(***************************************************************************)
(* The safety properties of DemoPhone for every size of the call table and *)
(* every bound on dials, blocks and popups.                                *)
(*                                                                         *)
(* The invariant says what the steps a thread has left promise about the   *)
(* calls they name.  It needs no shape of todo beyond an order: a report   *)
(* is always the next step, and only reports and clears come before a      *)
(* free or an end.                                                         *)
(***************************************************************************)
EXTENDS DemoPhone, TLAPS

-----------------------------------------------------------------------------
(* The steps that are left.                                                *)

Steps == [op : {"report", "clear", "free", "popup", "hangup", "end"},
          call : CallIds, code : {0, 200}]
BlockSet == [kind : {"popup", "video", "present", "dismiss", "hangupCall"},
             call : CallIds]

\* The calls that the steps op of s are about.
Pending(s, op) == {s[i].call : i \in {j \in DOMAIN s : s[j].op = op}}

Order(s) ==
    \A i, j \in DOMAIN s :
        i < j => /\ s[j].op # "report"
                 /\ s[j].op \in {"free", "end"} => s[i].op \in {"report", "clear"}

LEMMA PendingMember ==
    ASSUME NEW s, NEW op, NEW c
    PROVE  c \in Pending(s, op) <=> \E i \in DOMAIN s : s[i].op = op /\ s[i].call = c
  BY DEF Pending

LEMMA TailElements ==
    ASSUME NEW s \in Seq(Steps), s # <<>>
    PROVE  /\ Tail(s) \in Seq(Steps) /\ Head(s) \in Steps
           /\ 1 \in DOMAIN s /\ Head(s) = s[1]
           /\ \A i \in DOMAIN Tail(s) : i + 1 \in DOMAIN s /\ Tail(s)[i] = s[i + 1]
           /\ \A i \in DOMAIN s : i # 1 => i - 1 \in DOMAIN Tail(s) /\ Tail(s)[i - 1] = s[i]
           /\ <<>> \o Tail(s) = Tail(s)
  OBVIOUS

LEMMA PendingTail ==
    ASSUME NEW s \in Seq(Steps), s # <<>>, NEW op
    PROVE  /\ Head(s).op = op => Pending(s, op) = Pending(Tail(s), op) \cup {Head(s).call}
           /\ Head(s).op # op => Pending(s, op) = Pending(Tail(s), op)
  <1>1. ASSUME NEW i \in DOMAIN Tail(s), Tail(s)[i].op = op
        PROVE  Tail(s)[i].call \in Pending(s, op)
    <2>1. i + 1 \in DOMAIN s /\ Tail(s)[i] = s[i + 1]
      BY TailElements
    <2> QED BY <1>1, <2>1 DEF Pending
  <1>2. ASSUME NEW i \in DOMAIN s, s[i].op = op, i # 1
        PROVE  s[i].call \in Pending(Tail(s), op)
    <2>1. i - 1 \in DOMAIN Tail(s) /\ Tail(s)[i - 1] = s[i]
      BY <1>2, TailElements
    <2> QED BY <1>2, <2>1 DEF Pending
  <1>3. 1 \in DOMAIN s /\ Head(s) = s[1]
    BY TailElements
  <1>4. Pending(Tail(s), op) \subseteq Pending(s, op)
    BY <1>1 DEF Pending
  <1>5. Head(s).op = op => Head(s).call \in Pending(s, op)
    BY <1>3, PendingMember
  <1>6. ASSUME NEW c \in Pending(s, op)
        PROVE  c \in Pending(Tail(s), op) \/ (Head(s).op = op /\ c = Head(s).call)
    <2>1. PICK i \in DOMAIN s : s[i].op = op /\ s[i].call = c
      BY PendingMember
    <2> QED BY <2>1, <1>2, <1>3
  <1> QED BY <1>4, <1>5, <1>6

LEMMA PendingConcat ==
    ASSUME NEW a \in Seq(Steps), NEW b \in Seq(Steps), NEW op
    PROVE  /\ a \o b \in Seq(Steps)
           /\ Pending(a \o b, op) = Pending(a, op) \cup Pending(b, op)
  <1>1. a \o b \in Seq(Steps)
    OBVIOUS
  <1>2. ASSUME NEW i \in DOMAIN (a \o b)
        PROVE  \/ i \in DOMAIN a /\ (a \o b)[i] = a[i]
               \/ i - Len(a) \in DOMAIN b /\ (a \o b)[i] = b[i - Len(a)]
    OBVIOUS
  <1>3. ASSUME NEW i \in DOMAIN a
        PROVE  i \in DOMAIN (a \o b) /\ (a \o b)[i] = a[i]
    OBVIOUS
  <1>4. ASSUME NEW i \in DOMAIN b
        PROVE  i + Len(a) \in DOMAIN (a \o b) /\ (a \o b)[i + Len(a)] = b[i]
    OBVIOUS
  <1>5. Pending(a \o b, op) \subseteq Pending(a, op) \cup Pending(b, op)
    BY <1>2 DEF Pending
  <1>6. Pending(a, op) \subseteq Pending(a \o b, op)
    BY <1>3 DEF Pending
  <1>7. Pending(b, op) \subseteq Pending(a \o b, op)
    BY <1>4 DEF Pending
  <1> QED BY <1>1, <1>5, <1>6, <1>7

LEMMA OrderTail ==
    ASSUME NEW s \in Seq(Steps), s # <<>>, Order(s)
    PROVE  /\ Order(Tail(s))
           /\ Pending(Tail(s), "report") = {}
           /\ Head(s).op \notin {"report", "clear"} =>
                  Pending(Tail(s), "free") = {} /\ Pending(Tail(s), "end") = {}
  <1>1. Order(Tail(s))
    BY TailElements DEF Order
  <1>2. ASSUME NEW i \in DOMAIN Tail(s)
        PROVE  /\ Tail(s)[i].op # "report"
               /\ Tail(s)[i].op \in {"free", "end"} => Head(s).op \in {"report", "clear"}
    <2>1. 1 < i + 1 /\ i + 1 \in DOMAIN s /\ 1 \in DOMAIN s
      BY TailElements
    <2>2. Tail(s)[i] = s[i + 1] /\ Head(s) = s[1]
      BY TailElements
    <2> QED BY <2>1, <2>2 DEF Order
  <1>3. Pending(Tail(s), "report") = {}
    BY <1>2 DEF Pending
  <1>4. ASSUME Head(s).op \notin {"report", "clear"}
        PROVE  Pending(Tail(s), "free") = {} /\ Pending(Tail(s), "end") = {}
    BY <1>2, <1>4 DEF Pending
  <1> QED BY <1>1, <1>3, <1>4

-----------------------------------------------------------------------------
(* The steps that a thread begins with.                                    *)

\* s is in order, and the calls it reports, frees and ends are these.
Plan(s, reports, frees, ends) ==
    /\ s \in Seq(Steps) /\ Order(s)
    /\ Pending(s, "report") = reports
    /\ Pending(s, "free") = frees
    /\ Pending(s, "end") = ends

LEMMA CallZero == 0 \in CallIds
  BY BoundsAssumption DEF CallIds

LEMMA StepTypes ==
    ASSUME NEW c \in CallIds
    PROVE  /\ Step("report", c) \in Steps /\ Step("clear", c) \in Steps
           /\ Step("free", c) \in Steps /\ Step("popup", c) \in Steps
           /\ HangUpStep(c, 0) \in Steps /\ HangUpStep(c, 200) \in Steps
  BY DEF Step, HangUpStep, Steps

LEMMA NothingPlan == Plan(<<>>, {}, {}, {})
  BY DEF Plan, Order, Pending

LEMMA SinglePlan ==
    ASSUME NEW x \in Steps
    PROVE  /\ <<x>> \in Seq(Steps) /\ Order(<<x>>)
           /\ \A op : Pending(<<x>>, op) = IF x.op = op THEN {x.call} ELSE {}
  <1>1. <<x>> \in Seq(Steps) /\ DOMAIN <<x>> = {1} /\ <<x>>[1] = x
    OBVIOUS
  <1>2. Order(<<x>>)
    BY <1>1 DEF Order
  <1>3. \A op : Pending(<<x>>, op) = IF x.op = op THEN {x.call} ELSE {}
    BY <1>1 DEF Pending
  <1> QED BY <1>1, <1>2, <1>3

LEMMA ClearPlan ==
    ASSUME NEW c \in CallIds
    PROVE  /\ Plan(<<Step("clear", c)>>, {}, {}, {})
           /\ Pending(<<Step("clear", c)>>, "clear") = {c}
  BY SinglePlan, StepTypes DEF Plan, Step

LEMMA PopupPlan ==
    ASSUME NEW c \in CallIds
    PROVE  Plan(<<Step("popup", c)>>, {}, {}, {})
  BY SinglePlan, StepTypes DEF Plan, Step

LEMMA PairPlan ==
    ASSUME NEW x \in Steps, NEW y \in Steps, y.op \notin {"report", "free", "end"}
    PROVE  /\ <<x, y>> \in Seq(Steps) /\ Order(<<x, y>>)
           /\ \A op : Pending(<<x, y>>, op) = (IF x.op = op THEN {x.call} ELSE {})
                                                \cup (IF y.op = op THEN {y.call} ELSE {})
  <1> DEFINE s == <<x, y>>
  <1>1. s \in Seq(Steps) /\ DOMAIN s = 1 .. 2 /\ s[1] = x /\ s[2] = y
    OBVIOUS
  <1> HIDE DEF s
  <1>2. Order(s)
    BY <1>1 DEF Order
  <1>3. ASSUME NEW op
        PROVE  Pending(s, op) = (IF x.op = op THEN {x.call} ELSE {})
                                  \cup (IF y.op = op THEN {y.call} ELSE {})
    BY <1>1 DEF Pending
  <1> QED BY <1>1, <1>2, <1>3 DEF s

\* A sequence may follow another if it reports nothing, and frees and ends
\* nothing unless the first one holds reports and clears only.
LEMMA OrderConcat ==
    ASSUME NEW a \in Seq(Steps), NEW b \in Seq(Steps), Order(a), Order(b),
           Pending(b, "report") = {},
           \/ Pending(b, "free") = {} /\ Pending(b, "end") = {}
           \/ \A i \in DOMAIN a : a[i].op \in {"report", "clear"}
    PROVE  Order(a \o b)
  <1>1. ASSUME NEW i \in DOMAIN (a \o b)
        PROVE  \/ i \in DOMAIN a /\ (a \o b)[i] = a[i]
               \/ /\ i - Len(a) \in DOMAIN b /\ (a \o b)[i] = b[i - Len(a)]
                  /\ \A j \in DOMAIN a : j < i
    OBVIOUS
  <1>2. \A j \in DOMAIN b : b[j].op # "report"
    BY DEF Pending
  <1>3. ASSUME NEW j \in DOMAIN b, b[j].op \in {"free", "end"}
        PROVE  \A i \in DOMAIN a : a[i].op \in {"report", "clear"}
    BY <1>3 DEF Pending
  <1> SUFFICES ASSUME NEW i \in DOMAIN (a \o b), NEW j \in DOMAIN (a \o b), i < j
               PROVE  /\ (a \o b)[j].op # "report"
                      /\ (a \o b)[j].op \in {"free", "end"} =>
                             (a \o b)[i].op \in {"report", "clear"}
    BY DEF Order
  <1> DEFINE s == a \o b
  <1>5. i \in Nat /\ j \in Nat /\ Len(a) \in Nat
    OBVIOUS
  <1>6. CASE i \in DOMAIN a /\ s[i] = a[i] /\ j \in DOMAIN a /\ s[j] = a[j]
    BY <1>6 DEF Order
  <1>7. CASE i \in DOMAIN a /\ s[i] = a[i] /\ j - Len(a) \in DOMAIN b /\ s[j] = b[j - Len(a)]
    BY <1>7, <1>2, <1>3
  <1>8. CASE /\ i - Len(a) \in DOMAIN b /\ s[i] = b[i - Len(a)]
             /\ j - Len(a) \in DOMAIN b /\ s[j] = b[j - Len(a)]
    <2>1. i - Len(a) < j - Len(a)
      BY <1>5
    <2> QED BY <1>8, <2>1 DEF Order
  <1> QED BY <1>1, <1>5, <1>6, <1>7, <1>8

LEMMA ReportPlan ==
    ASSUME NEW c \in CallIds
    PROVE  /\ on_call_state(c) \in Seq(Steps) /\ Order(on_call_state(c))
           /\ \A i \in DOMAIN on_call_state(c) : on_call_state(c)[i].op \in {"report", "clear"}
           /\ Pending(on_call_state(c), "report") = {c}
           /\ Pending(on_call_state(c), "clear") = {c}
           /\ Pending(on_call_state(c), "free") = {}
           /\ Pending(on_call_state(c), "end") = {}
  <1>1. /\ Step("report", c).op = "report" /\ Step("report", c).call = c
        /\ Step("clear", c).op = "clear" /\ Step("clear", c).call = c
    BY DEF Step
  <1>2. \A i \in DOMAIN on_call_state(c) : on_call_state(c)[i].op \in {"report", "clear"}
    BY <1>1 DEF on_call_state
  <1> QED BY <1>1, <1>2, PairPlan, StepTypes DEF on_call_state

\* on_call_state and the steps b, which report nothing.
LEMMA ReportThenPlan ==
    ASSUME NEW c \in CallIds, NEW b, NEW F, NEW E, Plan(b, {}, F, E)
    PROVE  /\ Plan(on_call_state(c) \o b, {c}, F, E)
           /\ c \in Pending(on_call_state(c) \o b, "clear")
  <1>1. /\ b \in Seq(Steps) /\ Order(b) /\ Pending(b, "report") = {}
        /\ Pending(b, "free") = F /\ Pending(b, "end") = E
    BY DEF Plan
  <1>2. Order(on_call_state(c) \o b)
    BY <1>1, ReportPlan, OrderConcat
  <1>3. on_call_state(c) \in Seq(Steps)
    BY ReportPlan
  <1> DEFINE a == on_call_state(c)
  <1>4. /\ Pending(a, "report") = {c} /\ Pending(a, "clear") = {c}
        /\ Pending(a, "free") = {} /\ Pending(a, "end") = {}
    BY ReportPlan
  <1> HIDE DEF a
  <1>5. a \o b \in Seq(Steps)
    BY <1>1, <1>3, PendingConcat DEF a
  <1>6. \A op : Pending(a \o b, op) = Pending(a, op) \cup Pending(b, op)
    BY <1>1, <1>3, PendingConcat DEF a
  <1>7. Pending(a \o b, "report") = {c} /\ c \in Pending(a \o b, "clear")
    BY <1>1, <1>4, <1>6
  <1>8. Pending(a \o b, "free") = F
    BY <1>1, <1>4, <1>6
  <1>9. Pending(a \o b, "end") = E
    BY <1>1, <1>4, <1>6
  <1> QED BY <1>2, <1>5, <1>7, <1>8, <1>9 DEF Plan, a

LEMMA EndOfCallPlan ==
    ASSUME NEW c \in CallIds
    PROVE  /\ Plan(on_call_state(c) \o <<Step("free", c)>>, {c}, {c}, {})
           /\ c \in Pending(on_call_state(c) \o <<Step("free", c)>>, "clear")
  <1>1. Plan(<<Step("free", c)>>, {}, {c}, {})
    BY SinglePlan, StepTypes DEF Plan, Step
  <1> QED BY <1>1, ReportThenPlan

\* A call that fails while it is made.
LEMMA FailedCallPlan ==
    ASSUME NEW c \in CallIds
    PROVE  /\ Plan(on_call_state(c) \o <<Step("free", c), Step("clear", c)>>, {c}, {c}, {})
           /\ c \in Pending(on_call_state(c) \o <<Step("free", c), Step("clear", c)>>, "clear")
  <1>1. /\ Step("free", c).op = "free" /\ Step("free", c).call = c
        /\ Step("clear", c).op = "clear" /\ Step("clear", c).call = c
    BY DEF Step
  <1>2. Plan(<<Step("free", c), Step("clear", c)>>, {}, {c}, {})
    BY <1>1, PairPlan, StepTypes DEF Plan
  <1> QED BY <1>2, ReportThenPlan

LEMMA FreePlan ==
    ASSUME NEW c \in CallIds
    PROVE  Plan(<<>> \o <<Step("free", c)>>, {}, {c}, {})
  <1>1. <<>> \o <<Step("free", c)>> = <<Step("free", c)>>
    BY StepTypes
  <1>2. Step("free", c).op = "free" /\ Step("free", c).call = c
    BY DEF Step
  <1>3. Plan(<<Step("free", c)>>, {}, {c}, {})
    BY <1>2, SinglePlan, StepTypes DEF Plan
  <1> QED BY <1>1, <1>3

LEMMA HangUpPlan ==
    /\ Plan(hangup_allCall, {}, {}, {})
    /\ 0 \in Pending(hangup_allCall, "clear")
  <1>1. /\ HangUpStep(0, 200).op = "hangup"
        /\ Step("clear", 0).op = "clear" /\ Step("clear", 0).call = 0
    BY DEF HangUpStep, Step
  <1>2. HangUpStep(0, 200) \in Steps /\ Step("clear", 0) \in Steps
    BY CallZero, StepTypes
  <1> QED BY <1>1, <1>2, PairPlan DEF Plan, hangup_allCall

LEMMA HangUpAllPlan ==
    Plan(pjsua_call_hangup_all, {}, {}, {})
  <1> DEFINE s == pjsua_call_hangup_all
  <1>1. \A i \in 1 .. MaxCalls : i - 1 \in CallIds
    BY BoundsAssumption DEF CallIds
  <1>2. s \in Seq(Steps)
    BY <1>1, StepTypes, BoundsAssumption DEF pjsua_call_hangup_all
  <1>3. \A i \in DOMAIN s : s[i].op = "hangup"
    BY DEF pjsua_call_hangup_all, HangUpStep
  <1> HIDE DEF s
  <1>4. Order(s)
    BY <1>3 DEF Order
  <1>5. \A op : op # "hangup" => Pending(s, op) = {}
    BY <1>3 DEF Pending
  <1> QED BY <1>2, <1>4, <1>5 DEF Plan, s

-----------------------------------------------------------------------------
(* The inductive invariant.                                                *)

\* The worker gives calls back, the main thread ends them.
Ordered ==
    /\ \A t \in Threads : Order(todo[t])
    /\ LeftTo("main", "free") = {}
    /\ LeftTo("worker", "end") = {}

\* A call that a thread is going to give back or to end stays in its slot,
\* and no call is in the hands of both threads.
Held ==
    /\ \A c \in LeftTo("worker", "free") \cup LeftTo("main", "end") : InUse(c)
    /\ LeftTo("worker", "free") \cap LeftTo("main", "end") = {}

\* Who will report the end of a call, or has.
Told ==
    /\ \A c \in LeftTo("worker", "report") :
           c \in LeftTo("worker", "free") /\ calls[c].reported = 0
    /\ \A c \in LeftTo("main", "report") :
           c \in LeftTo("main", "end") /\ calls[c].reported = 0
    /\ \A c \in LeftTo("main", "end") : calls[c].hanging_up
    /\ \A c \in LeftTo("worker", "free") :
           calls[c].reported = 1 \/ c \in LeftTo("worker", "report")
    /\ \A c \in CallIds :
           IF calls[c].hanging_up
           THEN calls[c].reported = 1 \/ c \in LeftTo("main", "report")
           ELSE c \in LeftTo("worker", "free") \/ calls[c].reported = 0

Directed ==
    \A c \in CallIds : /\ calls[c].dir = "out" => InUse(c)
                       /\ calls[c].state = "incoming" => calls[c].dir = "in"

\* CallButtonRecovers, by a call that is not about to be given back.
WillEnd(c) ==
    calls[c].dir = "out" /\ ~calls[c].hanging_up /\ c \notin LeftTo("worker", "free")

Recovers ==
    isCallingPhone =>
        \/ scheduled > 0
        \/ \E c \in CallIds : WillEnd(c)
        \/ \E t \in Threads : LeftTo(t, "clear") # {}

Inv ==
    /\ TypeOK
    /\ Ordered
    /\ Held
    /\ Told
    /\ Directed
    /\ Recovers
    /\ OneVideoScreen

-----------------------------------------------------------------------------
(* What beginning, continuing and finishing a step leaves to a thread.     *)

TodoTyped == todo \in [Threads -> Seq(Steps)]

LEMMA ThreadNames ==
    /\ "worker" \in Threads /\ "main" \in Threads
    /\ \A t \in Threads : t = "worker" \/ t = "main"
  BY DEF Threads

LEMMA TypeTodo == TypeOK => TodoTyped
  BY DEF TypeOK, TodoTyped, Steps

LEMMA LeftPending == \A t, op : LeftTo(t, op) = Pending(todo[t], op)
  BY DEF LeftTo, Pending

LEMMA LeftPendingNext == \A t, op : LeftTo(t, op)' = Pending(todo'[t], op)
  BY DEF LeftTo, Pending

LEMMA LeftCalls ==
    ASSUME TodoTyped, NEW t \in Threads, NEW op
    PROVE  LeftTo(t, op) \subseteq CallIds
  <1>1. ASSUME NEW i \in DOMAIN todo[t]
        PROVE  todo[t][i].call \in CallIds
    <2>1. todo[t] \in Seq(Steps)
      BY DEF TodoTyped
    <2>2. todo[t][i] \in Steps
      BY <2>1
    <2> QED BY <2>2 DEF Steps
  <1> QED BY <1>1 DEF LeftTo

LEMMA LeftSame ==
    ASSUME todo' = todo
    PROVE  \A t, op : LeftTo(t, op)' = LeftTo(t, op)
  BY LeftPending, LeftPendingNext

\* t has done its next step.
LEMMA DoneLeft ==
    ASSUME TodoTyped, Ordered, NEW t \in Threads, ~Idle(t), Done(t)
    PROVE  /\ TodoTyped'
           /\ \A u \in Threads : Order(todo'[u])
           /\ Head(todo[t]) \in Steps
           /\ \A u \in Threads : \A op : u # t => LeftTo(u, op)' = LeftTo(u, op)
           /\ LeftTo(t, "report")' = {}
           /\ \A op : Head(todo[t]).op # op => LeftTo(t, op)' = LeftTo(t, op)
           /\ \A op : Head(todo[t]).op = op =>
                  LeftTo(t, op) = LeftTo(t, op)' \cup {Head(todo[t]).call}
           /\ Head(todo[t]).op \notin {"report", "clear"} =>
                  LeftTo(t, "free")' = {} /\ LeftTo(t, "end")' = {}
  <1>1. todo[t] \in Seq(Steps) /\ todo[t] # <<>> /\ Order(todo[t])
    BY DEF TodoTyped, Idle, Ordered
  <1>2. todo' = [todo EXCEPT ![t] = Tail(todo[t])]
    BY <1>1, TailElements DEF Done, Continue, TodoTyped
  <1>3. Tail(todo[t]) \in Seq(Steps) /\ Head(todo[t]) \in Steps /\ Order(Tail(todo[t]))
    BY <1>1, TailElements, OrderTail
  <1>4. todo'[t] = Tail(todo[t]) /\ \A u \in Threads : u # t => todo'[u] = todo[u]
    BY <1>2 DEF TodoTyped
  <1>5. TodoTyped'
    BY <1>2, <1>3 DEF TodoTyped
  <1>6. \A u \in Threads : Order(todo'[u])
    BY <1>3, <1>4 DEF Ordered
  <1>7. \A u \in Threads : \A op : u # t => LeftTo(u, op)' = LeftTo(u, op)
    BY <1>4, LeftPending, LeftPendingNext
  <1>8. \A op : LeftTo(t, op)' = Pending(Tail(todo[t]), op)
    BY <1>4, LeftPendingNext
  <1>9. LeftTo(t, "report")' = {}
    BY <1>1, <1>8, OrderTail
  <1>10. ASSUME NEW op
         PROVE  /\ Head(todo[t]).op # op => LeftTo(t, op)' = LeftTo(t, op)
                /\ Head(todo[t]).op = op =>
                       LeftTo(t, op) = LeftTo(t, op)' \cup {Head(todo[t]).call}
    BY <1>1, <1>8, LeftPending, PendingTail
  <1>11. Head(todo[t]).op \notin {"report", "clear"} =>
             LeftTo(t, "free")' = {} /\ LeftTo(t, "end")' = {}
    BY <1>1, <1>8, OrderTail
  <1> QED BY <1>3, <1>5, <1>6, <1>7, <1>9, <1>10, <1>11

\* t begins with s.
LEMMA BeginLeft ==
    ASSUME TodoTyped, Ordered, NEW t \in Threads,
           NEW s, NEW R, NEW F, NEW E, Plan(s, R, F, E), Begin(t, s)
    PROVE  /\ TodoTyped'
           /\ \A u \in Threads : Order(todo'[u])
           /\ \A u \in Threads : \A op : u # t => LeftTo(u, op)' = LeftTo(u, op)
           /\ \A op : LeftTo(t, op) = {}
           /\ LeftTo(t, "report")' = R /\ LeftTo(t, "free")' = F /\ LeftTo(t, "end")' = E
           /\ LeftTo(t, "clear")' = Pending(s, "clear")
  <1>1. s \in Seq(Steps) /\ Order(s)
    BY DEF Plan
  <1>2. todo'[t] = s /\ todo[t] = <<>> /\ \A u \in Threads : u # t => todo'[u] = todo[u]
    BY DEF TodoTyped, Begin, Idle
  <1>3. TodoTyped'
    BY <1>1 DEF TodoTyped, Begin
  <1>4. \A u \in Threads : Order(todo'[u])
    BY <1>1, <1>2 DEF Ordered
  <1>5. \A u \in Threads : \A op : u # t => LeftTo(u, op)' = LeftTo(u, op)
    BY <1>2, LeftPending, LeftPendingNext
  <1>6. \A op : LeftTo(t, op) = {}
    BY <1>2 DEF LeftTo
  <1>7. \A op : LeftTo(t, op)' = Pending(s, op)
    BY <1>2, LeftPendingNext
  <1> QED BY <1>3, <1>4, <1>5, <1>6, <1>7 DEF Plan

\* The main thread replaces a hangup by s.
LEMMA ContinueLeft ==
    ASSUME TodoTyped, Ordered, At("main", "hangup"),
           NEW s, NEW R, NEW F, NEW E, Plan(s, R, F, E), Continue("main", s)
    PROVE  /\ TodoTyped'
           /\ \A u \in Threads : Order(todo'[u])
           /\ \A op : LeftTo("worker", op)' = LeftTo("worker", op)
           /\ LeftTo("main", "report") = {} /\ LeftTo("main", "end") = {}
           /\ LeftTo("main", "report")' = R /\ LeftTo("main", "free")' = F
           /\ LeftTo("main", "end")' = E
           /\ LeftTo("main", "clear")' = Pending(s, "clear") \cup LeftTo("main", "clear")
  <1> DEFINE m == todo["main"]
             b == Tail(m)
  <1>1. m \in Seq(Steps) /\ m # <<>> /\ Order(m) /\ Head(m).op = "hangup"
    BY ThreadNames DEF TodoTyped, At, Idle, Ordered
  <1>2. s \in Seq(Steps) /\ Order(s)
    BY DEF Plan
  <1>3. /\ b \in Seq(Steps) /\ Order(b) /\ Pending(b, "report") = {}
        /\ Pending(b, "free") = {} /\ Pending(b, "end") = {}
    BY <1>1, TailElements, OrderTail
  <1>4. \A op : op # "hangup" => Pending(m, op) = Pending(b, op)
    BY <1>1, PendingTail
  <1>5. todo' = [todo EXCEPT !["main"] = s \o b]
    BY DEF Continue
  <1>6. todo'["main"] = s \o b /\ todo'["worker"] = todo["worker"]
    BY <1>5, ThreadNames DEF TodoTyped
  <1> HIDE DEF m, b
  <1>7. s \o b \in Seq(Steps) /\ Order(s \o b)
    BY <1>2, <1>3, PendingConcat, OrderConcat
  <1>8. \A op : Pending(s \o b, op) = Pending(s, op) \cup Pending(b, op)
    BY <1>2, <1>3, PendingConcat
  <1>9. TodoTyped'
    BY <1>5, <1>7 DEF TodoTyped
  <1>10. \A u \in Threads : Order(todo'[u])
    BY <1>6, <1>7, ThreadNames DEF Ordered
  <1>11. \A op : LeftTo("worker", op)' = LeftTo("worker", op)
    BY <1>6, LeftPending, LeftPendingNext
  <1>12. \A op : LeftTo("main", op)' = Pending(s, op) \cup Pending(b, op)
    BY <1>6, <1>8, LeftPendingNext
  <1>13. \A op : op # "hangup" => LeftTo("main", op) = Pending(b, op)
    BY <1>4, LeftPending DEF m
  <1>14. /\ LeftTo("main", "report")' = R /\ LeftTo("main", "free")' = F
         /\ LeftTo("main", "end")' = E
    BY <1>3, <1>12 DEF Plan
  <1>15. LeftTo("main", "clear")' = Pending(s, "clear") \cup LeftTo("main", "clear")
    BY <1>12, <1>13
  <1>16. LeftTo("main", "report") = {} /\ LeftTo("main", "end") = {}
    BY <1>3, <1>13
  <1> QED BY <1>9, <1>10, <1>11, <1>14, <1>15, <1>16

-----------------------------------------------------------------------------
(* The invariant holds initially and is kept by every action.              *)

\* The parts of the invariant that speak of threads and calls.
Bound == Ordered /\ Held /\ Told /\ Directed /\ Recovers

CallType == [dir : {"none", "in", "out"},
             state : {"null", "calling", "incoming", "connecting", "confirmed", "ending"},
             hanging_up : BOOLEAN, accepted : BOOLEAN, reported : 0 .. 1]

\* TypeOK by variables.
LEMMA TypeParts ==
    TypeOK <=> /\ calls \in [CallIds -> CallType]
               /\ next_call_id \in CallIds
               /\ isCallingPhone \in BOOLEAN
               /\ scheduled \in 0 .. MaxDials
               /\ queue \in Seq(BlockSet)
               /\ stack \in Seq(Seq(CallIds)) /\ stack # <<>>
               /\ TodoTyped
  BY DEF TypeOK, CallType, BlockSet, TodoTyped, Steps

LEMMA TypePartsNext ==
    TypeOK' <=> /\ calls' \in [CallIds -> CallType]
                /\ next_call_id' \in CallIds
                /\ isCallingPhone' \in BOOLEAN
                /\ scheduled' \in 0 .. MaxDials
                /\ queue' \in Seq(BlockSet)
                /\ stack' \in Seq(Seq(CallIds)) /\ stack' # <<>>
                /\ TodoTyped'
  BY DEF TypeOK, CallType, BlockSet, TodoTyped, Steps

LEMMA NoCallType ==
    /\ NoCall \in CallType
    /\ NewCall("in", "incoming") \in CallType /\ NewCall("out", "calling") \in CallType
  <1>1. NoCall \in CallType
    BY DEF NoCall, CallType
  <1>2. NewCall("in", "incoming") \in CallType
    BY <1>1 DEF NewCall, CallType
  <1>3. NewCall("out", "calling") \in CallType
    BY <1>1 DEF NewCall, CallType
  <1> QED BY <1>1, <1>2, <1>3

LEMMA NewCallFields ==
    /\ /\ NoCall.dir = "none" /\ NoCall.state = "null"
       /\ NoCall.hanging_up = FALSE /\ NoCall.reported = 0
    /\ \A dir, state :
          /\ NewCall(dir, state).dir = dir /\ NewCall(dir, state).state = state
          /\ NewCall(dir, state).hanging_up = FALSE /\ NewCall(dir, state).reported = 0
  BY DEF NoCall, NewCall

THEOREM InitInv == Init => Inv
  <1> SUFFICES ASSUME Init PROVE Inv
    OBVIOUS
  <1>1. \A t \in Threads : todo[t] = <<>>
    BY DEF Init
  <1>2. TodoTyped
    BY DEF Init, TodoTyped
  <1>3. stack \in Seq(Seq(CallIds)) /\ stack # <<>> /\ Len(stack) = 1
    BY DEF Init
  <1>4. TypeOK
    BY <1>2, <1>3, TypeParts, NoCallType, CallZero, BoundsAssumption DEF Init
  <1>5. \A t \in Threads : \A op : LeftTo(t, op) = {}
    BY <1>1 DEF LeftTo
  <1>6. Ordered
    BY <1>1, <1>5, ThreadNames DEF Ordered, Order
  <1>7. Held /\ Directed /\ Recovers
    BY <1>5, ThreadNames DEF Init, Held, Directed, Recovers, NoCall
  <1>8. Told
    BY <1>5, ThreadNames DEF Init, Told, NoCall
  <1> QED BY <1>3, <1>4, <1>6, <1>7, <1>8 DEF Inv, OneVideoScreen

\* A step that changes no call, no thread and not the button.
LEMMA QuietKeeps ==
    ASSUME Inv, calls' = calls, todo' = todo,
           isCallingPhone' = isCallingPhone, scheduled' = scheduled
    PROVE  Bound'
  <1>1. \A t, op : LeftTo(t, op)' = LeftTo(t, op)
    BY LeftSame
  <1>2. Ordered'
    BY <1>1 DEF Inv, Ordered
  <1>3. Held' /\ Told' /\ Directed'
    BY <1>1 DEF Inv, Held, Told, Directed, InUse
  <1>4. Recovers'
    BY <1>1 DEF Inv, Recovers, WillEnd
  <1> QED BY <1>2, <1>3, <1>4 DEF Bound

\* What async does to the queue.
LEMMA AsyncType ==
    ASSUME queue \in Seq(BlockSet), NEW b \in Seq(BlockSet), async(b)
    PROVE  queue' \in Seq(BlockSet)
  BY DEF async

LEMMA BlocksType ==
    /\ \A n \in 0 .. 2 : Blocks("video", n) \in Seq(BlockSet)
    /\ \A c \in CallIds : <<Block("popup", c)>> \in Seq(BlockSet)
    /\ <<Block("dismiss", 0)>> \in Seq(BlockSet) /\ <<Block("hangupCall", 0)>> \in Seq(BlockSet)
    /\ Block("present", 0) \in BlockSet
  BY CallZero DEF Blocks, Block, BlockSet

LEMMA FollowingType ==
    ASSUME next_call_id \in CallIds
    PROVE  Following \in CallIds
  BY BoundsAssumption DEF CallIds, Following


LEMMA ReportKeeps ==
    ASSUME Inv, NEW t \in Threads, Report(t)
    PROVE  Inv'
  <1> DEFINE c == Head(todo[t]).call
  <1>1. TodoTyped /\ Ordered /\ ~Idle(t) /\ Done(t) /\ Head(todo[t]).op = "report"
    BY TypeTodo DEF Inv, Report, At
  <1>2. c \in CallIds
    BY <1>1, DoneLeft DEF Steps
  <1>3. LeftTo(t, "report") = {c} /\ LeftTo(t, "report")' = {}
    BY <1>1, DoneLeft
  <1>4. /\ \A u \in Threads : Order(todo'[u])
        /\ \A u \in Threads : \A op : u # t \/ op # "report" => LeftTo(u, op)' = LeftTo(u, op)
    BY <1>1, DoneLeft
  <1>5. calls' = [calls EXCEPT ![c].reported = @ + 1]
    BY DEF Report
  <1>6. calls[c].reported = 0
    BY <1>3, ThreadNames DEF Inv, Told
  <1>7. calls \in [CallIds -> CallType]
    BY TypeParts DEF Inv
  <1>8. /\ calls' \in [CallIds -> CallType] /\ calls'[c].reported = 1
        /\ \A d \in CallIds :
              /\ d # c => calls'[d] = calls[d]
              /\ calls'[d].state = calls[d].state /\ calls'[d].dir = calls[d].dir
              /\ calls'[d].hanging_up = calls[d].hanging_up
    BY <1>2, <1>5, <1>6, <1>7 DEF CallType
  <1> HIDE DEF c
  <1>9. TypeOK'
    <2>1. queue' \in Seq(BlockSet)
      BY TypeParts, AsyncType, BlocksType DEF Inv, Report
    <2>2. TodoTyped'
      BY <1>1, DoneLeft
    <2> QED BY <1>8, <2>1, <2>2, TypeParts, TypePartsNext DEF Inv, Report, app
  <1>10. Ordered'
    BY <1>4, ThreadNames DEF Inv, Ordered
  <1>11. \A u \in Threads : \A op : LeftTo(u, op) \subseteq CallIds
    BY <1>1, LeftCalls
  <1>12. Held' /\ Directed'
    BY <1>4, <1>8, <1>11, ThreadNames DEF Inv, Held, Directed, InUse
  <1>13. Told'
    <2>1. CASE t = "worker"
      <3>1. c \in LeftTo("worker", "free") /\ c \notin LeftTo("main", "end")
        BY <1>3, <2>1 DEF Inv, Told, Held
      <3> QED BY <1>2, <1>3, <1>4, <1>8, <1>11, <2>1, <3>1, ThreadNames DEF Inv, Told
    <2>2. CASE t = "main"
      <3>1. c \in LeftTo("main", "end") /\ c \notin LeftTo("worker", "free")
        BY <1>3, <2>2 DEF Inv, Told, Held
      <3>2. /\ \A d \in LeftTo("worker", "report") : d # c
            /\ \A d \in LeftTo("worker", "free") : d # c
        BY <3>1 DEF Inv, Told
      <3>3. /\ LeftTo("worker", "report")' = LeftTo("worker", "report")
            /\ LeftTo("worker", "free")' = LeftTo("worker", "free")
            /\ LeftTo("main", "report")' = {} /\ LeftTo("main", "report") = {c}
        BY <1>3, <1>4, <2>2, ThreadNames
      <3>4. calls[c].hanging_up
        BY <3>3 DEF Inv, Told
      <3>5. \A d \in CallIds :
                IF calls'[d].hanging_up
                THEN calls'[d].reported = 1
                ELSE d \in LeftTo("worker", "free") \/ calls'[d].reported = 0
        <4> SUFFICES ASSUME NEW d \in CallIds
                     PROVE  IF calls'[d].hanging_up
                            THEN calls'[d].reported = 1
                            ELSE d \in LeftTo("worker", "free") \/ calls'[d].reported = 0
          OBVIOUS
        <4>1. CASE d = c
          BY <4>1, <1>2, <1>8, <3>4
        <4>2. CASE d # c
          BY <4>2, <1>8, <3>3 DEF Inv, Told
        <4> QED BY <4>1, <4>2
      <3>6. LeftTo("main", "end")' = LeftTo("main", "end")
        BY <1>4, ThreadNames
      <3>7. \A d \in LeftTo("main", "end") : d \in CallIds /\ calls'[d].hanging_up
        BY <1>8, <1>11, ThreadNames DEF Inv, Told
      <3> QED BY <1>8, <1>11, <3>2, <3>3, <3>5, <3>6, <3>7, ThreadNames DEF Inv, Told
    <2> QED BY <2>1, <2>2, ThreadNames
  <1>14. Recovers'
    <2>1. isCallingPhone' = isCallingPhone /\ scheduled' = scheduled
      BY DEF Report, app
    <2>2. \A u \in Threads : /\ LeftTo(u, "clear")' = LeftTo(u, "clear")
                            /\ LeftTo(u, "free")' = LeftTo(u, "free")
      BY <1>4
    <2>3. \A d \in CallIds : WillEnd(d) => WillEnd(d)'
      BY <1>8, <2>2, ThreadNames DEF WillEnd
    <2> QED BY <2>1, <2>2, <2>3 DEF Inv, Recovers
  <1> QED BY <1>9, <1>10, <1>12, <1>13, <1>14 DEF Inv, OneVideoScreen, Report

LEMMA ClearKeeps ==
    ASSUME Inv, NEW t \in Threads, Clear(t)
    PROVE  Inv'
  <1>1. TodoTyped /\ Ordered /\ ~Idle(t) /\ Done(t) /\ Head(todo[t]).op = "clear"
    BY TypeTodo DEF Inv, Clear, At
  <1>2. TodoTyped' /\ \A u \in Threads : Order(todo'[u])
    BY <1>1, DoneLeft
  <1>3. \A u \in Threads : \A op : op # "clear" => LeftTo(u, op)' = LeftTo(u, op) \/ u # t
    BY <1>1, DoneLeft
  <1>4. \A u \in Threads : \A op : op # "clear" => LeftTo(u, op)' = LeftTo(u, op)
    BY <1>1, <1>3, DoneLeft
  <1>5. TypeOK'
    BY <1>2, TypeParts, TypePartsNext DEF Inv, Clear, pjsua, ui
  <1>6. Ordered'
    BY <1>2, <1>4, ThreadNames DEF Inv, Ordered
  <1>7. Held' /\ Told' /\ Directed'
    BY <1>4, ThreadNames DEF Inv, Held, Told, Directed, InUse, Clear, pjsua
  <1>8. Recovers' /\ OneVideoScreen'
    BY DEF Inv, Recovers, OneVideoScreen, Clear, ui
  <1> QED BY <1>5, <1>6, <1>7, <1>8 DEF Inv

\* Only the worker gives a call back, and nobody else has it in hand then.
LEMMA FreeCallKeeps ==
    ASSUME Inv, NEW t \in Threads, FreeCall(t)
    PROVE  Inv'
  <1> DEFINE c == Head(todo[t]).call
  <1>1. TodoTyped /\ Ordered /\ ~Idle(t) /\ Done(t) /\ Head(todo[t]).op = "free"
    BY TypeTodo DEF Inv, FreeCall, At
  <1>2. c \in CallIds
    BY <1>1, DoneLeft DEF Steps
  <1>3. c \in LeftTo(t, "free") /\ LeftTo(t, "free")' = {} /\ LeftTo(t, "report")' = {}
    BY <1>1, DoneLeft
  <1>4. t = "worker"
    BY <1>3, ThreadNames DEF Inv, Ordered
  <1>5. LeftTo("worker", "free") = {c} /\ LeftTo("worker", "report") = {}
    BY <1>1, <1>3, <1>4, DoneLeft
  <1>6. /\ \A u \in Threads : Order(todo'[u])
        /\ \A u \in Threads : \A op : u # t \/ op # "free" => LeftTo(u, op)' = LeftTo(u, op)
    BY <1>1, DoneLeft
  <1>7. calls' = [calls EXCEPT ![c] = NoCall]
    BY DEF FreeCall
  <1>8. c \notin LeftTo("main", "end") /\ c \notin LeftTo("main", "report")
    BY <1>5 DEF Inv, Held, Told
  <1> HIDE DEF c
  <1>9. /\ calls' \in [CallIds -> CallType] /\ calls'[c] = NoCall
        /\ \A d \in CallIds : d # c => calls'[d] = calls[d]
    BY <1>2, <1>7, TypeParts, NoCallType DEF Inv
  <1>10. \A u \in Threads : \A op : LeftTo(u, op) \subseteq CallIds
    BY <1>1, LeftCalls
  <1>11. TypeOK'
    BY <1>1, <1>9, DoneLeft, TypeParts, TypePartsNext DEF Inv, FreeCall, app, ui
  <1>12. Ordered'
    BY <1>4, <1>6, ThreadNames DEF Inv, Ordered
  <1>13. Held'
    BY <1>3, <1>4, <1>6, <1>8, <1>9, <1>10, ThreadNames DEF Inv, Held, InUse
  <1>14. Directed'
    BY <1>9, NewCallFields DEF Inv, Directed, InUse
  <1>15. Told'
    <2>1. /\ LeftTo("worker", "free")' = {} /\ LeftTo("worker", "report")' = {}
          /\ LeftTo("main", "report")' = LeftTo("main", "report")
          /\ LeftTo("main", "end")' = LeftTo("main", "end")
      BY <1>3, <1>4, <1>6, ThreadNames
    <2>2. /\ \A d \in LeftTo("main", "report") : d # c /\ d \in CallIds
          /\ \A d \in LeftTo("main", "end") : d # c /\ d \in CallIds
      BY <1>8, <1>10, ThreadNames
    <2>3. ASSUME NEW d \in CallIds
          PROVE  IF calls'[d].hanging_up
                 THEN calls'[d].reported = 1 \/ d \in LeftTo("main", "report")
                 ELSE calls'[d].reported = 0
      <3>1. CASE d = c
        BY <3>1, <1>9, NewCallFields
      <3>2. CASE d # c
        BY <3>2, <1>5, <1>9 DEF Inv, Told
      <3> QED BY <3>1, <3>2
    <2> QED BY <2>1, <2>2, <2>3, <1>9 DEF Inv, Told
  <1>16. Recovers'
    <2>1. \A u \in Threads : LeftTo(u, "clear")' = LeftTo(u, "clear")
      BY <1>6
    <2>2. \A d \in CallIds : WillEnd(d) => WillEnd(d)'
      <3>1. LeftTo("worker", "free")' = {}
        BY <1>3, <1>4
      <3> QED BY <3>1, <1>5, <1>9 DEF WillEnd
    <2> QED BY <2>1, <2>2 DEF Inv, Recovers, FreeCall, app
  <1> QED BY <1>11, <1>12, <1>13, <1>14, <1>15, <1>16 DEF Inv, OneVideoScreen, FreeCall, ui

-----------------------------------------------------------------------------
(* What the worker begins.                                                 *)

\* No thread has anything to report, to free or to end of a free slot.
LEMMA FreeSlot ==
    ASSUME Inv, NEW c \in CallIds, ~InUse(c)
    PROVE  /\ c \notin LeftTo("worker", "free") /\ c \notin LeftTo("worker", "report")
           /\ c \notin LeftTo("main", "end") /\ c \notin LeftTo("main", "report")
  BY DEF Inv, Held, Told

\* A new call in a free slot; if it has failed already the worker will report
\* it and give it back.
LEMMA NewCallKeeps ==
    ASSUME Inv, NEW c \in CallIds, ~InUse(c), NEW n \in CallType,
           n.hanging_up = FALSE, n.reported = 0, n.state # "null",
           n.state = "incoming" => n.dir = "in",
           calls' = [calls EXCEPT ![c] = n],
           NEW s, NEW R \in {{}, {c}}, Plan(s, R, R, {}), Begin("worker", s)
    PROVE  /\ calls' \in [CallIds -> CallType] /\ TodoTyped'
           /\ Ordered' /\ Held' /\ Told' /\ Directed'
           /\ calls'[c] = n
           /\ LeftTo("worker", "free")' = R
           /\ LeftTo("worker", "clear")' = Pending(s, "clear")
           /\ LeftTo("worker", "clear") = {}
           /\ LeftTo("main", "clear")' = LeftTo("main", "clear")
           /\ \A d \in CallIds : WillEnd(d) => WillEnd(d)'
  <1>1. TodoTyped /\ Ordered
    BY TypeTodo DEF Inv
  <1>2. TodoTyped' /\ \A u \in Threads : Order(todo'[u])
    BY <1>1, BeginLeft, ThreadNames
  <1>3. /\ \A op : LeftTo("main", op)' = LeftTo("main", op)
        /\ \A op : LeftTo("worker", op) = {}
    BY <1>1, BeginLeft, ThreadNames
  <1>4. /\ LeftTo("worker", "report")' = R /\ LeftTo("worker", "free")' = R
        /\ LeftTo("worker", "end")' = {}
        /\ LeftTo("worker", "clear")' = Pending(s, "clear")
    BY <1>1, BeginLeft, ThreadNames
  <1>5. /\ calls' \in [CallIds -> CallType] /\ calls'[c] = n
        /\ \A d \in CallIds : d # c => calls'[d] = calls[d]
    BY TypeParts DEF Inv
  <1>6. c \notin LeftTo("main", "end") /\ c \notin LeftTo("main", "report")
    BY FreeSlot
  <1>7. \A op : LeftTo("main", op) \subseteq CallIds
    BY <1>1, LeftCalls, ThreadNames
  <1>8. Ordered'
    BY <1>2, <1>3, <1>4, ThreadNames DEF Inv, Ordered
  <1>9. Held'
    BY <1>3, <1>4, <1>5, <1>6, <1>7 DEF Inv, Held, InUse
  <1>10. Directed'
    BY <1>5 DEF Inv, Directed, InUse
  <1>11. Told'
    <2>1. ASSUME NEW d \in CallIds
          PROVE  IF calls'[d].hanging_up
                 THEN calls'[d].reported = 1 \/ d \in LeftTo("main", "report")
                 ELSE d \in R \/ calls'[d].reported = 0
      <3>1. CASE d = c
        BY <3>1, <1>5
      <3>2. CASE d # c
        BY <3>2, <1>3, <1>5 DEF Inv, Told
      <3> QED BY <3>1, <3>2
    <2>2. /\ \A d \in LeftTo("main", "report") : d # c /\ d \in CallIds
          /\ \A d \in LeftTo("main", "end") : d # c /\ d \in CallIds
      BY <1>6, <1>7
    <2> QED BY <2>1, <2>2, <1>3, <1>4, <1>5 DEF Inv, Told
  <1>12. \A d \in CallIds : WillEnd(d) => WillEnd(d)'
    <2>1. \A d \in CallIds : WillEnd(d) => d # c
      BY DEF Inv, Directed, WillEnd
    <2> QED BY <2>1, <1>4, <1>5 DEF WillEnd
  <1> QED BY <1>2, <1>3, <1>4, <1>5, <1>8, <1>9, <1>10, <1>11, <1>12

\* The worker begins s while no call changes: nothing to give back, or a call
\* that the main thread has reported, or one that the worker will report.
LEMMA WorkerBegins ==
    ASSUME Inv, calls' = calls, NEW s, NEW R, NEW F, Plan(s, R, F, {}), Begin("worker", s),
           \/ R = {} /\ F = {}
           \/ \E c \in CallIds :
                 /\ InUse(c) /\ c \notin LeftTo("main", "end")
                 /\ F = {c} /\ R = IF calls[c].hanging_up THEN {} ELSE {c}
    PROVE  /\ TodoTyped' /\ Ordered' /\ Held' /\ Told' /\ Directed'
           /\ LeftTo("worker", "free")' = F
           /\ LeftTo("worker", "clear")' = Pending(s, "clear")
           /\ LeftTo("worker", "clear") = {}
           /\ LeftTo("main", "clear")' = LeftTo("main", "clear")
           /\ \A d \in CallIds \ F : WillEnd(d) => WillEnd(d)'
  <1>1. TodoTyped /\ Ordered
    BY TypeTodo DEF Inv
  <1>2. TodoTyped' /\ \A u \in Threads : Order(todo'[u])
    BY <1>1, BeginLeft, ThreadNames
  <1>3. /\ \A op : LeftTo("main", op)' = LeftTo("main", op)
        /\ \A op : LeftTo("worker", op) = {}
    BY <1>1, BeginLeft, ThreadNames
  <1>4. /\ LeftTo("worker", "report")' = R /\ LeftTo("worker", "free")' = F
        /\ LeftTo("worker", "end")' = {}
        /\ LeftTo("worker", "clear")' = Pending(s, "clear")
    BY <1>1, BeginLeft, ThreadNames
  <1>5. Ordered'
    BY <1>2, <1>3, <1>4, ThreadNames DEF Inv, Ordered
  <1>6. Held' /\ Directed'
    BY <1>3, <1>4 DEF Inv, Held, Directed, InUse
  <1>7. Told'
    <2>1. CASE R = {} /\ F = {}
      BY <2>1, <1>3, <1>4 DEF Inv, Told
    <2>2. ASSUME NEW c \in CallIds, c \notin LeftTo("main", "end"),
                 F = {c}, R = IF calls[c].hanging_up THEN {} ELSE {c}
          PROVE  Told'
      <3>1. IF calls[c].hanging_up THEN calls[c].reported = 1 ELSE calls[c].reported = 0
        BY <2>2, <1>3 DEF Inv, Told
      <3> QED BY <2>2, <3>1, <1>3, <1>4 DEF Inv, Told
    <2> QED BY <2>1, <2>2
  <1>8. \A d \in CallIds \ F : WillEnd(d) => WillEnd(d)'
    BY <1>4 DEF WillEnd
  <1> QED BY <1>2, <1>3, <1>4, <1>5, <1>6, <1>7, <1>8

\* A step that leaves calls, threads, dials and the button alone keeps the
\* invariant if queue, stack and next_call_id stay what they should be.
LEMMA StillKeeps ==
    ASSUME Inv, calls' = calls, todo' = todo,
           isCallingPhone' = isCallingPhone, scheduled' = scheduled,
           next_call_id' \in CallIds, queue' \in Seq(BlockSet),
           stack' \in Seq(Seq(CallIds)), stack' # <<>>, Len(stack') <= 2
    PROVE  Inv'
  <1>1. Bound'
    BY QuietKeeps
  <1>2. TodoTyped'
    BY TypeTodo DEF Inv, TodoTyped
  <1>3. TypeOK'
    BY <1>2, TypeParts, TypePartsNext DEF Inv
  <1> QED BY <1>1, <1>3 DEF Inv, Bound, OneVideoScreen

LEMMA MakeCallKeeps ==
    ASSUME Inv, call_func
    PROVE  Inv'
  <1>1. TodoTyped /\ TypeOK /\ scheduled' \in 0 .. MaxDials
    BY TypeTodo, TypeParts, BoundsAssumption DEF Inv, call_func
  <1>2. isCallingPhone' = isCallingPhone /\ queue' = queue /\ stack' = stack
    BY DEF call_func, ui
  <1>3. CASE CallFailed /\ calls' = calls /\ next_call_id' \in CallIds
    <2>1. Plan(<<Step("clear", 0)>>, {}, {}, {}) /\ 0 \in Pending(<<Step("clear", 0)>>, "clear")
      BY ClearPlan, CallZero
    <2>2. /\ TodoTyped' /\ Ordered' /\ Held' /\ Told' /\ Directed'
          /\ 0 \in LeftTo("worker", "clear")'
      BY <1>3, <2>1, WorkerBegins DEF CallFailed
    <2>3. TypeOK'
      BY <1>1, <1>2, <1>3, <2>2, TypeParts, TypePartsNext
    <2> QED BY <1>2, <2>2, <2>3, ThreadNames DEF Inv, Recovers, OneVideoScreen
  <1>4. ASSUME NEW c \in CallIds, Allocated(c), next_call_id' = Following,
               on_make_call_med_tp_complete(c)
        PROVE  Inv'
    <2> DEFINE n == NewCall("out", "calling")
    <2>1. /\ n \in CallType /\ n.hanging_up = FALSE /\ n.reported = 0
          /\ n.state = "calling" /\ n.dir = "out"
      BY NoCallType, NewCallFields
    <2>2. ~InUse(c) /\ calls' = [calls EXCEPT ![c] = n]
      BY <1>4 DEF Allocated, on_make_call_med_tp_complete
    <2> HIDE DEF n
    <2>3. next_call_id' \in CallIds
      BY <1>1, <1>4, FollowingType, TypeParts
    <2>4. CASE Begin("worker", <<>>)
      <3>1. /\ calls' \in [CallIds -> CallType] /\ TodoTyped'
            /\ Ordered' /\ Held' /\ Told' /\ Directed'
            /\ calls'[c] = n /\ LeftTo("worker", "free")' = {}
        BY <2>1, <2>2, <2>4, NothingPlan, NewCallKeeps
      <3>2. WillEnd(c)'
        BY <2>1, <3>1 DEF WillEnd
      <3>3. TypeOK'
        BY <1>1, <1>2, <2>3, <3>1, TypeParts, TypePartsNext
      <3> QED BY <1>2, <3>1, <3>2, <3>3 DEF Inv, Recovers, OneVideoScreen
    <2>5. CASE Begin("worker", on_call_state(c) \o <<Step("free", c), Step("clear", c)>>)
      <3> DEFINE s == on_call_state(c) \o <<Step("free", c), Step("clear", c)>>
      <3>1. Plan(s, {c}, {c}, {}) /\ c \in Pending(s, "clear") /\ Begin("worker", s)
        BY <2>5, FailedCallPlan
      <3> HIDE DEF s
      <3>2. /\ calls' \in [CallIds -> CallType] /\ TodoTyped'
            /\ Ordered' /\ Held' /\ Told' /\ Directed'
            /\ c \in LeftTo("worker", "clear")'
        BY <2>1, <2>2, <3>1, NewCallKeeps
      <3>3. TypeOK'
        BY <1>1, <1>2, <2>3, <3>2, TypeParts, TypePartsNext
      <3> QED BY <1>2, <3>2, <3>3, ThreadNames DEF Inv, Recovers, OneVideoScreen
    <2> QED BY <1>4, <2>4, <2>5 DEF on_make_call_med_tp_complete
  <1>5. next_call_id \in CallIds /\ Following \in CallIds
    BY <1>1, FollowingType, TypeParts
  <1> QED BY <1>3, <1>4, <1>5 DEF call_func, pjsua_call_make_call, pjsua

LEMMA IncomingKeeps ==
    ASSUME Inv, on_incoming_call
    PROVE  Inv'
  <1>1. PICK c \in CallIds :
            /\ pjsua_call_on_incoming(c)
            /\ Begin("worker", IF isCallingPhone THEN <<>> ELSE <<Step("popup", c)>>)
    BY DEF on_incoming_call
  <1> DEFINE s == IF isCallingPhone THEN <<>> ELSE <<Step("popup", c)>>
             n == NewCall("in", "incoming")
  <1>2. Plan(s, {}, {}, {}) /\ Begin("worker", s)
    BY <1>1, NothingPlan, PopupPlan
  <1>3. /\ n \in CallType /\ n.hanging_up = FALSE /\ n.reported = 0
        /\ n.state = "incoming" /\ n.dir = "in"
    BY NoCallType, NewCallFields
  <1>4. ~InUse(c) /\ calls' = [calls EXCEPT ![c] = n] /\ next_call_id' = Following
    BY <1>1 DEF pjsua_call_on_incoming, Allocated
  <1> HIDE DEF s, n
  <1>5. /\ calls' \in [CallIds -> CallType] /\ TodoTyped'
        /\ Ordered' /\ Held' /\ Told' /\ Directed'
        /\ LeftTo("worker", "clear") = {}
        /\ LeftTo("main", "clear")' = LeftTo("main", "clear")
        /\ \A d \in CallIds : WillEnd(d) => WillEnd(d)'
    BY <1>2, <1>3, <1>4, NewCallKeeps
  <1>6. TypeOK'
    BY <1>4, <1>5, FollowingType, TypeParts, TypePartsNext DEF Inv, on_incoming_call, app, ui
  <1>7. Recovers'
    BY <1>5, ThreadNames DEF Inv, Recovers, on_incoming_call, app
  <1> QED BY <1>5, <1>6, <1>7 DEF Inv, OneVideoScreen, on_incoming_call, ui

LEMMA RefuseKeeps ==
    ASSUME Inv, RefuseIncoming
    PROVE  Inv'
  <1>1. next_call_id' \in CallIds
    BY FollowingType, TypeParts DEF Inv, RefuseIncoming
  <1> QED BY <1>1, StillKeeps, TypeParts DEF Inv, OneVideoScreen, RefuseIncoming, app, ui

\* A thread is done with a step that promised nothing.
LEMMA PopKeeps ==
    ASSUME Inv, NEW t \in Threads, ~Idle(t), Done(t), calls' = calls,
           Head(todo[t]).op \notin {"report", "clear", "free", "end"},
           isCallingPhone' = isCallingPhone, scheduled' = scheduled
    PROVE  TodoTyped' /\ Bound'
  <1>1. TodoTyped /\ Ordered
    BY TypeTodo DEF Inv
  <1>2. /\ TodoTyped' /\ \A u \in Threads : Order(todo'[u])
        /\ \A u \in Threads : \A op : u # t => LeftTo(u, op)' = LeftTo(u, op)
        /\ \A op : Head(todo[t]).op # op => LeftTo(t, op)' = LeftTo(t, op)
    BY <1>1, DoneLeft
  <1>3. \A u \in Threads : \A op \in {"report", "clear", "free", "end"} :
            LeftTo(u, op)' = LeftTo(u, op)
    BY <1>2
  <1>4. Ordered'
    BY <1>2, <1>3, ThreadNames DEF Inv, Ordered
  <1>5. Held' /\ Told' /\ Directed'
    BY <1>3, ThreadNames DEF Inv, Held, Told, Directed, InUse
  <1>6. Recovers'
    BY <1>3, ThreadNames DEF Inv, Recovers, WillEnd
  <1> QED BY <1>2, <1>4, <1>5, <1>6 DEF Bound

LEMMA QueuePopupKeeps ==
    ASSUME Inv, QueuePopup
    PROVE  Inv'
  <1>1. TodoTyped /\ Ordered /\ ~Idle("worker") /\ Done("worker") /\ Head(todo["worker"]).op = "popup"
    BY TypeTodo DEF Inv, QueuePopup, At
  <1>2. Head(todo["worker"]).call \in CallIds
    BY <1>1, ThreadNames, DoneLeft DEF Steps
  <1>3. queue' \in Seq(BlockSet)
    BY <1>2, TypeParts, AsyncType, BlocksType DEF Inv, QueuePopup
  <1>4. TodoTyped' /\ Bound'
    BY <1>1, ThreadNames, PopKeeps DEF QueuePopup, pjsua, app
  <1>5. TypeOK'
    BY <1>3, <1>4, TypeParts, TypePartsNext DEF Inv, QueuePopup, pjsua, app
  <1> QED BY <1>4, <1>5 DEF Inv, Bound, OneVideoScreen, QueuePopup

\* A call in use goes on to a state in which it is answered.
LEMMA CallMoves ==
    ASSUME Inv, todo' = todo, NEW c \in CallIds, InUse(c), NEW n \in CallType,
           calls' = [calls EXCEPT ![c] = n],
           n.dir = calls[c].dir, n.hanging_up = calls[c].hanging_up,
           n.reported = calls[c].reported, n.state \notin {"null", "incoming"},
           isCallingPhone' = isCallingPhone, scheduled' = scheduled
    PROVE  calls' \in [CallIds -> CallType] /\ TodoTyped' /\ Bound'
  <1>1. \A t, op : LeftTo(t, op)' = LeftTo(t, op)
    BY LeftSame
  <1>2. TodoTyped /\ TodoTyped'
    BY TypeTodo DEF Inv, TodoTyped
  <1>3. \A t \in Threads : \A op : LeftTo(t, op) \subseteq CallIds
    BY <1>2, LeftCalls
  <1>4. /\ calls' \in [CallIds -> CallType]
        /\ \A d \in CallIds :
              /\ calls'[d].dir = calls[d].dir /\ calls'[d].hanging_up = calls[d].hanging_up
              /\ calls'[d].reported = calls[d].reported
              /\ calls[d].state # "null" => calls'[d].state # "null"
              /\ calls'[d].state = "incoming" => calls[d].state = "incoming"
    BY TypeParts DEF Inv, InUse
  <1>5. Ordered'
    BY <1>1 DEF Inv, Ordered
  <1>6. Held' /\ Directed'
    BY <1>1, <1>3, <1>4, ThreadNames DEF Inv, Held, Directed, InUse
  <1>7. Told'
    BY <1>1, <1>3, <1>4, ThreadNames DEF Inv, Told
  <1>8. Recovers'
    BY <1>1, <1>4 DEF Inv, Recovers, WillEnd
  <1> QED BY <1>2, <1>4, <1>5, <1>6, <1>7, <1>8 DEF Bound

LEMMA ConfirmedKeeps ==
    ASSUME Inv, NEW c \in CallIds, Confirmed(c)
    PROVE  Inv'
  <1> DEFINE st == IF calls[c].hanging_up THEN "ending" ELSE "confirmed"
             n == [calls[c] EXCEPT !.state = st]
  <1>1. calls[c] \in CallType /\ InUse(c)
    BY TypeParts DEF Inv, Confirmed, Handles
  <1>2. /\ n \in CallType /\ n.dir = calls[c].dir /\ n.hanging_up = calls[c].hanging_up
        /\ n.reported = calls[c].reported /\ n.state \notin {"null", "incoming"}
    BY <1>1 DEF CallType
  <1>3. calls' = [calls EXCEPT ![c] = n]
    BY DEF Confirmed
  <1> HIDE DEF n
  <1>4. calls' \in [CallIds -> CallType] /\ TodoTyped' /\ Bound'
    BY <1>1, <1>2, <1>3, CallMoves DEF Confirmed, app
  <1>5. TypeOK'
    BY <1>4, TypeParts, TypePartsNext DEF Inv, Confirmed, app, ui
  <1> QED BY <1>4, <1>5 DEF Inv, Bound, OneVideoScreen, Confirmed, ui

LEMMA MediaKeeps ==
    ASSUME Inv, NEW c \in CallIds, on_call_media_state(c)
    PROVE  Inv'
  <1>1. PICK n \in 1 .. 2 : async(Blocks("video", n))
    BY DEF on_call_media_state
  <1>2. n \in 0 .. 2
    OBVIOUS
  <1>3. queue' \in Seq(BlockSet)
    BY <1>1, <1>2, TypeParts, AsyncType, BlocksType DEF Inv
  <1> QED BY <1>3, StillKeeps, TypeParts DEF Inv, OneVideoScreen, on_call_media_state, pjsua, app

LEMMA StateChangedKeeps ==
    ASSUME Inv, NEW c \in CallIds, pjsua_call_on_state_changed(c)
    PROVE  Inv'
  <1> DEFINE s == (IF calls[c].hanging_up THEN <<>> ELSE on_call_state(c)) \o <<Step("free", c)>>
             R == IF calls[c].hanging_up THEN {} ELSE {c}
  <1>1. /\ calls' = calls /\ Begin("worker", s)
        /\ isCallingPhone' = isCallingPhone /\ scheduled' = scheduled
        /\ next_call_id' = next_call_id /\ queue' = queue /\ stack' = stack
    BY DEF pjsua_call_on_state_changed, pjsua, app, ui
  <1>2. InUse(c) /\ c \notin LeftTo("main", "end")
    BY DEF pjsua_call_on_state_changed, Handles, Locked, Other
  <1>3. /\ Plan(s, R, {c}, {})
        /\ ~calls[c].hanging_up => c \in Pending(s, "clear")
    <2>1. CASE calls[c].hanging_up
      BY <2>1, FreePlan
    <2>2. CASE ~calls[c].hanging_up
      BY <2>2, EndOfCallPlan
    <2> QED BY <2>1, <2>2
  <1> HIDE DEF s
  <1>4. /\ TodoTyped' /\ Ordered' /\ Held' /\ Told' /\ Directed'
        /\ LeftTo("worker", "clear")' = Pending(s, "clear")
        /\ LeftTo("worker", "clear") = {}
        /\ LeftTo("main", "clear")' = LeftTo("main", "clear")
        /\ \A d \in CallIds \ {c} : WillEnd(d) => WillEnd(d)'
    BY <1>1, <1>2, <1>3, WorkerBegins
  <1>5. TypeOK'
    BY <1>1, <1>4, TypeParts, TypePartsNext DEF Inv
  <1>6. Recovers'
    <2>1. CASE calls[c].hanging_up
      <3>1. ~WillEnd(c)
        BY <2>1 DEF WillEnd
      <3> QED BY <3>1, <1>1, <1>4, ThreadNames DEF Inv, Recovers
    <2>2. CASE ~calls[c].hanging_up
      BY <2>2, <1>3, <1>4, ThreadNames DEF Recovers
    <2> QED BY <2>1, <2>2
  <1> QED BY <1>1, <1>4, <1>5, <1>6 DEF Inv, OneVideoScreen

-----------------------------------------------------------------------------
(* What the main thread does.                                              *)

\* hangup_allCall is begun.
LEMMA HangUpBegins ==
    ASSUME Inv, Begin("main", hangup_allCall), calls' = calls,
           isCallingPhone' = isCallingPhone, scheduled' = scheduled
    PROVE  TodoTyped' /\ Bound'
  <1>1. TodoTyped /\ Ordered
    BY TypeTodo DEF Inv
  <1>2. /\ TodoTyped' /\ \A u \in Threads : Order(todo'[u])
        /\ \A op : LeftTo("worker", op)' = LeftTo("worker", op)
        /\ \A op : LeftTo("main", op) = {}
    BY <1>1, BeginLeft, HangUpPlan, ThreadNames
  <1>3. /\ LeftTo("main", "report")' = {} /\ LeftTo("main", "free")' = {}
        /\ LeftTo("main", "end")' = {} /\ 0 \in LeftTo("main", "clear")'
    BY <1>1, BeginLeft, HangUpPlan, ThreadNames
  <1>4. Ordered'
    BY <1>2, <1>3, ThreadNames DEF Inv, Ordered
  <1>5. Held' /\ Told' /\ Directed'
    BY <1>2, <1>3 DEF Inv, Held, Told, Directed, InUse
  <1>6. Recovers'
    BY <1>3, ThreadNames DEF Recovers
  <1> QED BY <1>2, <1>4, <1>5, <1>6 DEF Bound

LEMMA CallClickKeeps ==
    ASSUME Inv, callClick
    PROVE  Inv'
  <1>1. \A t, op : LeftTo(t, op)' = LeftTo(t, op)
    BY LeftSame DEF callClick
  <1>2. scheduled' \in 0 .. MaxDials /\ scheduled' > 0
    BY BoundsAssumption, TypeParts DEF Inv, callClick
  <1>3. TypeOK'
    BY <1>2, TypeTodo, TypeParts, TypePartsNext DEF Inv, callClick, pjsua, ui, TodoTyped
  <1>4. Ordered' /\ Held' /\ Told' /\ Directed'
    BY <1>1 DEF Inv, Ordered, Held, Told, Directed, InUse, callClick, pjsua
  <1>5. Recovers'
    BY <1>2 DEF Recovers
  <1> QED BY <1>3, <1>4, <1>5 DEF Inv, OneVideoScreen, callClick, ui

\* A popup on the top screen is gone: the screens stay.
LEMMA PopupGone ==
    ASSUME stack \in Seq(Seq(CallIds)), stack # <<>>, Popups # <<>>,
           stack' = [stack EXCEPT ![Len(stack)] = SubSeq(@, 1, Len(@) - 1)]
    PROVE  /\ stack' \in Seq(Seq(CallIds)) /\ stack' # <<>> /\ Len(stack') = Len(stack)
           /\ Popups[Len(Popups)] \in CallIds
  <1>1. Len(stack) \in DOMAIN stack /\ stack[Len(stack)] \in Seq(CallIds)
    OBVIOUS
  <1> DEFINE p == stack[Len(stack)]
  <1>2. Len(p) \in DOMAIN p /\ SubSeq(p, 1, Len(p) - 1) \in Seq(CallIds)
    BY <1>1 DEF Popups
  <1>3. p[Len(p)] \in CallIds
    BY <1>1, <1>2
  <1> QED BY <1>1, <1>2, <1>3 DEF Popups

LEMMA ReceiveKeeps ==
    ASSUME Inv, isReceive
    PROVE  Inv'
  <1> DEFINE c == Popups[Len(Popups)]
             n == [calls[c] EXCEPT !.state = "connecting", !.accepted = TRUE]
  <1>1. /\ stack' \in Seq(Seq(CallIds)) /\ stack' # <<>> /\ Len(stack') = Len(stack)
        /\ c \in CallIds
    BY TypeParts, PopupGone DEF Inv, isReceive
  <1>2. /\ todo' = todo /\ isCallingPhone' = isCallingPhone /\ scheduled' = scheduled
        /\ next_call_id' = next_call_id /\ pjsua_call_answer2(c)
    BY DEF isReceive, app
  <1>3. calls[c] \in CallType
    BY <1>1, TypeParts DEF Inv
  <1>4. CASE calls[c].state = "incoming"
    <2>1. /\ n \in CallType /\ n.dir = calls[c].dir /\ n.hanging_up = calls[c].hanging_up
          /\ n.reported = calls[c].reported /\ n.state \notin {"null", "incoming"}
      BY <1>3 DEF CallType
    <2>2. calls' = [calls EXCEPT ![c] = n] /\ InUse(c)
      BY <1>2, <1>4 DEF pjsua_call_answer2, InUse
    <2>3. \E k \in 0 .. 2 : async(Blocks("video", k))
      BY <1>2, <1>4 DEF pjsua_call_answer2
    <2> HIDE DEF c, n
    <2>4. calls' \in [CallIds -> CallType] /\ TodoTyped' /\ Bound'
      BY <1>1, <1>2, <2>1, <2>2, CallMoves
    <2>5. queue' \in Seq(BlockSet)
      BY <2>3, TypeParts, AsyncType, BlocksType DEF Inv
    <2>6. TypeOK'
      BY <1>1, <1>2, <2>4, <2>5, TypeParts, TypePartsNext DEF Inv
    <2> QED BY <1>1, <2>4, <2>6 DEF Inv, Bound, OneVideoScreen
  <1>5. CASE calls[c].state # "incoming"
    <2>1. calls' = calls /\ queue' = queue
      BY <1>2, <1>5 DEF pjsua_call_answer2
    <2> HIDE DEF c
    <2> QED BY <1>1, <1>2, <2>1, StillKeeps, TypeParts DEF Inv, OneVideoScreen
  <1> QED BY <1>4, <1>5

LEMMA RejectKeeps ==
    ASSUME Inv, isReject
    PROVE  Inv'
  <1>1. stack' \in Seq(Seq(CallIds)) /\ stack' # <<>> /\ Len(stack') = Len(stack)
    BY TypeParts, PopupGone DEF Inv, isReject
  <1>2. TodoTyped' /\ Bound'
    BY HangUpBegins DEF isReject, pjsua, app
  <1>3. TypeOK'
    BY <1>1, <1>2, TypeParts, TypePartsNext DEF Inv, isReject, pjsua, app
  <1> QED BY <1>1, <1>2, <1>3 DEF Inv, Bound, OneVideoScreen

LEMMA BlockKeeps ==
    ASSUME Inv
    PROVE  /\ btnHangup_Click => Inv'
           /\ ShowPopup => Inv'
           /\ ShowVideo => Inv'
           /\ displayVideoView => Inv'
           /\ dismissVideoViewController => Inv'
           /\ hangupCall => Inv'
  <1>1. /\ queue \in Seq(BlockSet) /\ stack \in Seq(Seq(CallIds)) /\ stack # <<>>
        /\ Len(stack) <= 2 /\ next_call_id \in CallIds
    BY TypeParts DEF Inv, OneVideoScreen
  <1>2. ASSUME NEW kind, NextBlock(kind)
        PROVE  Tail(queue) \in Seq(BlockSet) /\ Head(queue).call \in CallIds
    <2>1. queue # <<>> /\ Head(queue) \in BlockSet
      BY <1>1, <1>2 DEF NextBlock
    <2> QED BY <1>1, <2>1 DEF BlockSet
  <1>3. Append(stack, <<>>) \in Seq(Seq(CallIds)) /\ Len(Append(stack, <<>>)) = Len(stack) + 1
    BY <1>1
  <1>4. ASSUME btnHangup_Click PROVE Inv'
    <2>1. queue' \in Seq(BlockSet)
      BY <1>1, <1>4, AsyncType, BlocksType DEF btnHangup_Click
    <2> QED BY <1>1, <1>4, <2>1, StillKeeps DEF btnHangup_Click, pjsua, app
  <1>5. ASSUME ShowPopup PROVE Inv'
    <2> DEFINE k == Len(stack)
    <2>1. k \in DOMAIN stack /\ stack[k] \in Seq(CallIds) /\ Head(queue).call \in CallIds
      BY <1>1, <1>2, <1>5 DEF ShowPopup
    <2>2. stack' = [stack EXCEPT ![k] = Append(stack[k], Head(queue).call)]
      BY <1>5 DEF ShowPopup
    <2>3. Append(stack[k], Head(queue).call) \in Seq(CallIds)
      BY <2>1
    <2>4. stack' \in Seq(Seq(CallIds)) /\ Len(stack') = Len(stack) /\ stack' # <<>>
      BY <1>1, <2>1, <2>2, <2>3
    <2> QED BY <1>1, <1>2, <1>5, <2>4, StillKeeps DEF ShowPopup, pjsua, app
  <1>6. ASSUME ShowVideo PROVE Inv'
    <2>1. queue' \in Seq(BlockSet)
      BY <1>2, <1>6, BlocksType DEF ShowVideo
    <2> QED BY <1>1, <1>6, <2>1, StillKeeps DEF ShowVideo, pjsua, app
  <1>7. ASSUME displayVideoView PROVE Inv'
    <2>1. stack' \in Seq(Seq(CallIds)) /\ Len(stack') <= 2 /\ stack' # <<>>
      BY <1>1, <1>3, <1>7 DEF displayVideoView, VideoShown
    <2> QED BY <1>1, <1>2, <1>7, <2>1, StillKeeps DEF displayVideoView, pjsua, app
  <1>8. ASSUME dismissVideoViewController PROVE Inv'
    <2>1. Len(stack) > 1 => /\ SubSeq(stack, 1, Len(stack) - 1) \in Seq(Seq(CallIds))
                            /\ Len(SubSeq(stack, 1, Len(stack) - 1)) = Len(stack) - 1
      BY <1>1
    <2>2. stack' \in Seq(Seq(CallIds)) /\ Len(stack') <= 2 /\ stack' # <<>>
      <3>1. CASE VideoShown
        <4>1. Len(stack) > 1 /\ stack' = SubSeq(stack, 1, Len(stack) - 1)
          BY <1>8, <3>1 DEF dismissVideoViewController, VideoShown
        <4>2. Len(stack') = Len(stack) - 1 /\ Len(stack) \in Nat
          BY <1>1, <2>1, <4>1
        <4>3. Len(stack') <= 2 /\ Len(stack') # 0
          BY <1>1, <4>1, <4>2
        <4>4. stack' \in Seq(Seq(CallIds))
          BY <2>1, <4>1
        <4> QED BY <4>3, <4>4
      <3>2. CASE ~VideoShown
        BY <1>1, <1>8, <3>2 DEF dismissVideoViewController
      <3> QED BY <3>1, <3>2
    <2> QED BY <1>1, <1>2, <1>8, <2>2, StillKeeps DEF dismissVideoViewController, pjsua, app
  <1>9. ASSUME hangupCall PROVE Inv'
    <2>1. TodoTyped' /\ Bound'
      BY <1>9, HangUpBegins DEF hangupCall, pjsua, app
    <2>2. TypeOK'
      BY <1>1, <1>2, <1>9, <2>1, TypeParts, TypePartsNext DEF Inv, hangupCall, pjsua, app
    <2> QED BY <1>9, <2>1, <2>2 DEF Inv, Bound, OneVideoScreen, hangupCall
  <1> QED BY <1>4, <1>5, <1>6, <1>7, <1>8, <1>9

LEMMA HangUpKeeps ==
    ASSUME Inv, pjsua_call_hangup
    PROVE  Inv'
  <1> DEFINE step == Head(todo["main"])
             c == step.call
             e == [op |-> "end", call |-> c, code |-> step.code]
  <1>1. TodoTyped /\ Ordered /\ At("main", "hangup") /\ ~Idle("main") /\ step.op = "hangup"
    BY TypeTodo DEF Inv, pjsua_call_hangup, At
  <1>2. step \in Steps
    <2>1. todo["main"] \in Seq(Steps) /\ todo["main"] # <<>>
      BY <1>1, ThreadNames DEF TodoTyped, Idle
    <2> QED BY <2>1
  <1>3. c \in CallIds /\ e \in Steps
    BY <1>2 DEF Steps
  <1>4. c \notin LeftTo("worker", "free")
    BY DEF pjsua_call_hangup, Locked, Other
  <1>5. /\ isCallingPhone' = isCallingPhone /\ scheduled' = scheduled
        /\ next_call_id' = next_call_id /\ queue' = queue /\ stack' = stack
    BY DEF pjsua_call_hangup, app, ui
  <1>6. \/ /\ ~InUse(c) /\ calls' = calls
           /\ Continue("main", IF step.code = 200 THEN pjsua_call_hangup_all ELSE <<>>)
        \/ calls' = calls /\ Done("main")
        \/ /\ InUse(c) /\ ~calls[c].hanging_up
           /\ calls' = [calls EXCEPT ![c].hanging_up = TRUE]
           /\ Continue("main", on_call_state(c) \o <<e>>)
    BY DEF pjsua_call_hangup
  <1> HIDE DEF c, e
  <1>7. CASE /\ calls' = calls
             /\ Continue("main", IF step.code = 200 THEN pjsua_call_hangup_all ELSE <<>>)
    <2> DEFINE s == IF step.code = 200 THEN pjsua_call_hangup_all ELSE <<>>
    <2>1. Plan(s, {}, {}, {}) /\ Continue("main", s)
      BY <1>7, HangUpAllPlan, NothingPlan
    <2> HIDE DEF s
    <2>2. /\ TodoTyped' /\ \A u \in Threads : Order(todo'[u])
          /\ \A op : LeftTo("worker", op)' = LeftTo("worker", op)
          /\ LeftTo("main", "report") = {} /\ LeftTo("main", "end") = {}
          /\ LeftTo("main", "report")' = {} /\ LeftTo("main", "free")' = {}
          /\ LeftTo("main", "end")' = {}
          /\ LeftTo("main", "clear") \subseteq LeftTo("main", "clear")'
      BY <1>1, <2>1, ContinueLeft
    <2>3. TypeOK'
      BY <1>5, <1>7, <2>2, TypeParts, TypePartsNext DEF Inv
    <2>4. Ordered'
      BY <2>2, ThreadNames DEF Inv, Ordered
    <2>5. Held' /\ Told' /\ Directed'
      BY <1>7, <2>2 DEF Inv, Held, Told, Directed, InUse
    <2>6. Recovers'
      BY <1>5, <1>7, <2>2, ThreadNames DEF Inv, Recovers, WillEnd
    <2> QED BY <1>5, <2>3, <2>4, <2>5, <2>6 DEF Inv, OneVideoScreen
  <1>8. CASE calls' = calls /\ Done("main")
    <2>1. TodoTyped' /\ Bound'
      BY <1>1, <1>5, <1>8, ThreadNames, PopKeeps
    <2>2. TypeOK'
      BY <1>5, <1>8, <2>1, TypeParts, TypePartsNext DEF Inv
    <2> QED BY <1>5, <2>1, <2>2 DEF Inv, Bound, OneVideoScreen
  <1>9. CASE /\ InUse(c) /\ ~calls[c].hanging_up
             /\ calls' = [calls EXCEPT ![c].hanging_up = TRUE]
             /\ Continue("main", on_call_state(c) \o <<e>>)
    <2> DEFINE s == on_call_state(c) \o <<e>>
    <2>1. Plan(s, {c}, {}, {c}) /\ c \in Pending(s, "clear")
      <3>1. e.op = "end" /\ e.call = c
        BY DEF e
      <3>2. Plan(<<e>>, {}, {}, {c})
        BY <1>3, <3>1, SinglePlan DEF Plan
      <3> QED BY <1>3, <3>2, ReportThenPlan
    <2> HIDE DEF s
    <2>2. /\ TodoTyped' /\ \A u \in Threads : Order(todo'[u])
          /\ \A op : LeftTo("worker", op)' = LeftTo("worker", op)
          /\ LeftTo("main", "report") = {} /\ LeftTo("main", "end") = {}
          /\ LeftTo("main", "report")' = {c} /\ LeftTo("main", "free")' = {}
          /\ LeftTo("main", "end")' = {c}
          /\ c \in LeftTo("main", "clear")'
      BY <1>1, <1>9, <2>1, ContinueLeft DEF s
    <2>3. calls[c].reported = 0
      BY <1>3, <1>4, <1>9 DEF Inv, Told
    <2>4. /\ calls' \in [CallIds -> CallType]
          /\ calls'[c].hanging_up
          /\ \A d \in CallIds :
                /\ d # c => calls'[d] = calls[d]
                /\ calls'[d].dir = calls[d].dir /\ calls'[d].state = calls[d].state
                /\ calls'[d].reported = calls[d].reported
      BY <1>3, <1>9, TypeParts DEF Inv, CallType
    <2>5. \A op : LeftTo("worker", op) \subseteq CallIds
      BY <1>1, LeftCalls, ThreadNames
    <2>6. TypeOK'
      BY <1>5, <2>2, <2>4, TypeParts, TypePartsNext DEF Inv
    <2>7. Ordered'
      BY <2>2, ThreadNames DEF Inv, Ordered
    <2>8. Held' /\ Directed'
      BY <1>3, <1>4, <1>9, <2>2, <2>4, <2>5 DEF Inv, Held, Directed, InUse
    <2>9. Told'
      <3>1. ASSUME NEW d \in CallIds
            PROVE  IF calls'[d].hanging_up
                   THEN calls'[d].reported = 1 \/ d = c
                   ELSE d \in LeftTo("worker", "free") \/ calls'[d].reported = 0
        <4>1. CASE d = c
          BY <4>1, <2>4
        <4>2. CASE d # c
          BY <4>2, <2>2, <2>4 DEF Inv, Told
        <4> QED BY <4>1, <4>2
      <3> QED BY <3>1, <1>3, <2>2, <2>3, <2>4, <2>5 DEF Inv, Told
    <2>10. Recovers'
      BY <2>2, ThreadNames DEF Recovers
    <2> QED BY <1>5, <2>6, <2>7, <2>8, <2>9, <2>10 DEF Inv, OneVideoScreen
  <1> QED BY <1>6, <1>7, <1>8, <1>9

\* The end of a call that the main thread has in hand: only an incoming call
\* that is refused leaves its slot.
LEMMA EndKeeps ==
    ASSUME Inv, call_inv_end_session
    PROVE  Inv'
  <1> DEFINE c == Head(todo["main"]).call
  <1>1. TodoTyped /\ Ordered /\ ~Idle("main") /\ Done("main") /\ Head(todo["main"]).op = "end"
    BY TypeTodo DEF Inv, call_inv_end_session, At
  <1>2. c \in CallIds
    BY <1>1, DoneLeft, ThreadNames DEF Steps
  <1>3. /\ TodoTyped' /\ \A u \in Threads : Order(todo'[u])
        /\ \A op : LeftTo("worker", op)' = LeftTo("worker", op)
        /\ \A op : op # "end" => LeftTo("main", op)' = LeftTo("main", op)
        /\ LeftTo("main", "report")' = {} /\ LeftTo("main", "end")' = {}
        /\ c \in LeftTo("main", "end")
    BY <1>1, DoneLeft, ThreadNames
  <1>4. /\ isCallingPhone' = isCallingPhone /\ scheduled' = scheduled
        /\ next_call_id' = next_call_id /\ queue' = queue /\ stack' = stack
    BY DEF call_inv_end_session, app, ui
  <1>5. calls \in [CallIds -> CallType]
    BY TypeParts DEF Inv
  <1>6. \/ calls' = calls
        \/ calls' = [calls EXCEPT ![c].state = "connecting"]
        \/ calls' = [calls EXCEPT ![c].state = "ending"]
        \/ calls[c].state = "incoming" /\ calls' = [calls EXCEPT ![c] = NoCall]
    <2> DEFINE code == Head(todo["main"]).code
    <2>1. calls' = CASE calls[c].state = "incoming" /\ code = 200 ->
                          [calls EXCEPT ![c].state = "connecting"]
                     [] calls[c].state = "incoming" /\ code = 0 ->
                          [calls EXCEPT ![c] = NoCall]
                     [] calls[c].state = "confirmed" ->
                          [calls EXCEPT ![c].state = "ending"]
                     [] OTHER -> calls
      BY DEF call_inv_end_session
    <2> HIDE DEF c, code
    <2> QED BY <2>1
  <1> HIDE DEF c
  <1>7. c \notin LeftTo("worker", "free") /\ c \notin LeftTo("worker", "report")
    BY <1>3 DEF Inv, Held, Told
  <1>8. calls[c].state = "incoming" => calls[c].dir = "in"
    BY <1>2 DEF Inv, Directed
  <1>9. /\ calls' \in [CallIds -> CallType]
        /\ \A d \in CallIds : d # c => calls'[d] = calls[d]
    BY <1>2, <1>5, <1>6, NoCallType DEF CallType
  <1>10. \/ /\ calls'[c].dir = calls[c].dir /\ calls'[c].hanging_up = calls[c].hanging_up
            /\ calls'[c].reported = calls[c].reported
            /\ calls'[c] = calls[c] \/ calls'[c].state \notin {"null", "incoming"}
         \/ calls'[c] = NoCall /\ calls[c].dir = "in"
    BY <1>2, <1>5, <1>6, <1>8 DEF CallType
  <1>11. \A op : LeftTo("worker", op) \subseteq CallIds
    BY <1>1, LeftCalls, ThreadNames
  <1>12. TypeOK'
    BY <1>3, <1>4, <1>9, TypeParts, TypePartsNext DEF Inv
  <1>13. Ordered'
    BY <1>3, ThreadNames DEF Inv, Ordered
  <1>14. Held'
    BY <1>3, <1>7, <1>9, <1>11 DEF Inv, Held, InUse
  <1>15. Directed'
    <2>1. ASSUME NEW d \in CallIds
          PROVE  /\ calls'[d].dir = "out" => calls'[d].state # "null"
                 /\ calls'[d].state = "incoming" => calls'[d].dir = "in"
      <3>1. CASE d # c
        BY <3>1, <1>9 DEF Inv, Directed, InUse
      <3>2. CASE d = c
        BY <3>2, <1>10, NewCallFields DEF Inv, Directed, InUse
      <3> QED BY <3>1, <3>2
    <2> QED BY <2>1 DEF Directed, InUse
  <1>16. Told'
    <2>1. LeftTo("main", "report") = {}
      BY <1>3
    <2>2. ASSUME NEW d \in CallIds
          PROVE  IF calls'[d].hanging_up
                 THEN calls'[d].reported = 1
                 ELSE d \in LeftTo("worker", "free") \/ calls'[d].reported = 0
      <3>1. CASE d # c
        BY <3>1, <1>9, <2>1 DEF Inv, Told
      <3>2. CASE d = c
        BY <3>2, <1>10, <2>1, NewCallFields DEF Inv, Told
      <3> QED BY <3>1, <3>2
    <2> QED BY <2>1, <2>2, <1>3, <1>7, <1>9, <1>11 DEF Inv, Told
  <1>17. Recovers'
    <2>1. \A d \in CallIds : WillEnd(d) => WillEnd(d)'
      BY <1>3, <1>9, <1>10 DEF WillEnd
    <2> QED BY <2>1, <1>3, <1>4, ThreadNames DEF Inv, Recovers
  <1> QED BY <1>4, <1>12, <1>13, <1>14, <1>15, <1>16, <1>17 DEF Inv, OneVideoScreen

-----------------------------------------------------------------------------
(* The theorems.                                                           *)

\* Every step of the two threads keeps the invariant.
THEOREM NextInv == Inv /\ [Next]_vars => Inv'
  <1> SUFFICES ASSUME Inv, [Next]_vars PROVE Inv'
    OBVIOUS
  <1>1. CASE Worker
    BY <1>1, MakeCallKeeps, IncomingKeeps, RefuseKeeps, QueuePopupKeeps, ConfirmedKeeps,
       MediaKeeps, StateChangedKeeps DEF Worker
  <1>2. CASE Main
    BY <1>2, CallClickKeeps, BlockKeeps, ReceiveKeeps, RejectKeeps, HangUpKeeps, EndKeeps
       DEF Main
  <1>3. CASE \E t \in Threads : Report(t) \/ Clear(t) \/ FreeCall(t)
    BY <1>3, ReportKeeps, ClearKeeps, FreeCallKeeps
  <1>4. CASE UNCHANGED vars
    <2>1. calls' = calls /\ todo' = todo /\ isCallingPhone' = isCallingPhone
          /\ scheduled' = scheduled /\ next_call_id' = next_call_id
          /\ queue' = queue /\ stack' = stack
      BY <1>4 DEF vars
    <2> QED BY <2>1, StillKeeps, TypeParts DEF Inv, OneVideoScreen
  <1> QED BY <1>1, <1>2, <1>3, <1>4 DEF Next

\* The invariant holds in every state of every behaviour.
THEOREM PhoneSound == Spec => []Inv
  <1> QED BY InitInv, NextInv, PTL DEF Spec

\* Types are kept, whatever the size of the call table and the bounds.
THEOREM PhoneTypes == Spec => []TypeOK
  <1>1. Inv => TypeOK
    BY DEF Inv
  <1> QED BY <1>1, PhoneSound, PTL

\* At most one video screen is presented, however many blocks are queued.
THEOREM OneScreen == Spec => []OneVideoScreen
  <1>1. Inv => OneVideoScreen
    BY DEF Inv
  <1> QED BY <1>1, PhoneSound, PTL

\* The Call button is never left disabled with nothing under way to enable it.
THEOREM ButtonRecovers == Spec => []CallButtonRecovers
  <1>1. Inv => CallButtonRecovers
    BY DEF Inv, Recovers, WillEnd, CallButtonRecovers
  <1> QED BY <1>1, PhoneSound, PTL

\* No call's end is reported twice, and no slot is given back unreported.
THEOREM ReportedOnce == Spec => []EndReportedOnce
  <1>1. ASSUME Inv PROVE EndReportedOnce
    <2>1. TodoTyped /\ \A c \in CallIds : calls[c].reported <= 1
      <3>1. TodoTyped /\ calls \in [CallIds -> CallType]
        BY <1>1, TypeTodo, TypeParts DEF Inv
      <3> QED BY <3>1 DEF CallType
    <2>2. ASSUME NEW t \in Threads, At(t, "free") \/ At(t, "end")
          PROVE  calls[Head(todo[t]).call].reported = 1
      <3> DEFINE c == Head(todo[t]).call
      <3>1. todo[t] \in Seq(Steps) /\ todo[t] # <<>> /\ Order(todo[t])
        BY <1>1, <2>1, <2>2 DEF Inv, Ordered, TodoTyped, At, Idle
      <3>2. c \in CallIds
        BY <3>1, TailElements DEF Steps
      <3>3. /\ LeftTo(t, "report") = {}
            /\ c \in LeftTo(t, "free") \/ c \in LeftTo(t, "end")
        BY <2>2, <3>1, PendingTail, OrderTail, LeftPending DEF At
      <3>4. CASE c \in LeftTo(t, "free")
        <4>1. t = "worker"
          BY <1>1, <3>4, ThreadNames DEF Inv, Ordered
        <4> QED BY <1>1, <3>3, <3>4, <4>1 DEF Inv, Told
      <3>5. CASE c \in LeftTo(t, "end")
        <4>1. t = "main"
          BY <1>1, <3>5, ThreadNames DEF Inv, Ordered
        <4> QED BY <1>1, <3>2, <3>3, <3>5, <4>1 DEF Inv, Told
      <3> QED BY <3>3, <3>4, <3>5
    <2> QED BY <2>1, <2>2 DEF EndReportedOnce
  <1> QED BY <1>1, PhoneSound, PTL

=============================================================================
