-------------------------- MODULE SipSoleWorkerProofs --------------------------
(***************************************************************************)
(* What holds of SipTransaction when one worker polls, as PjsipDemo and    *)
(* pjsua's default have it: the transaction refines TransactionFsm, it is  *)
(* not freed in use, the TU hears of its end, its timeout timer is armed   *)
(* wherever only that timer ends it, and the retransmission of an INVITE   *)
(* stays stopped.  Each of them fails with two.                            *)
(*                                                                         *)
(* With one worker, a record is either Calm, as between two callbacks, or  *)
(* Halfway, while the TU is being told of an end with the lock released.   *)
(* Calms says what an operation may make of a calm record.                 *)
(***************************************************************************)
EXTENDS SipTransactionProofs

-----------------------------------------------------------------------------
(* A transaction at rest.                                                  *)

PostedIds == {ERR, DISC}

\* Nothing is going to retransmit.
Muted(s) == ~s.heap["retransmit"] /\ ~Has(s, "RESCHED")

AnsweredInvite(s) ==
    s.role = "UAC" /\ s.method = "INVITE" /\ s.state \in {PROCEEDING, COMPLETED}

NeedsTimer(s) ==
    s.state \in {CALLING, COMPLETED, CONFIRMED, TERMINATED}
        \cup (IF s.role = "UAC" /\ s.method # "INVITE" THEN {PROCEEDING} ELSE {})

Wound(s) == NeedsTimer(s) => s.heap["timeout"]

\* What was posted to the timeout timer has been replaced at TERMINATED, and
\* a server that has completed has a final status.
Calm(s) ==
    /\ s \in TsxType
    /\ s.told = s.state
    /\ s.terminating <=> s.state = DESTROYED
    /\ Has(s, "DESTROY") => s.terminating
    /\ Has(s, "SEND") => ~s.terminating
    /\ s.state >= TERMINATED => s.terminations >= 1 /\ s.id["timeout"] \notin PostedIds
    /\ s.role = "UAS" /\ s.state >= COMPLETED => s.status_code >= 200
    /\ s.state = CALLING => s.role = "UAC"
    /\ AnsweredInvite(s) => Muted(s)

\* A handler may take s to the state st, which is not TERMINATED.
Ahead(s, st) ==
    \/ s.state = NULL /\ s.role = "UAC" /\ st = CALLING
    \/ s.state = NULL /\ s.role # "UAC" /\ st = TRYING
    \/ s.state \in {CALLING, TRYING} /\ st \in {PROCEEDING, COMPLETED}
    \/ s.state = PROCEEDING /\ st = COMPLETED
    \/ s.state = COMPLETED /\ s.role = "UAS" /\ s.method = "INVITE" /\ st = CONFIRMED

Moved(s, st) ==
    \/ st = s.state
    \/ Ahead(s, st)
    \/ s.state < TERMINATED /\ st = TERMINATED
    \/ s.state = TERMINATED /\ st = DESTROYED

\* From one calm record to another.
Steps(s, r) ==
    /\ Calm(r)
    /\ r.role = s.role /\ r.method = s.method
    /\ Moved(s, r.state)

Calms(s, r) == Steps(s, r) /\ (Wound(s) => Wound(r))

-----------------------------------------------------------------------------
(* What operations do to a record on the way.                              *)

\* The transaction is where it was, with other timers, flags or messages.
Alike(s, r) ==
    /\ r \in TsxType
    /\ r.role = s.role /\ r.method = s.method
    /\ r.state = s.state /\ r.told = s.told
    /\ r.terminating = s.terminating /\ r.terminations = s.terminations
    /\ Has(r, "DESTROY") => Has(s, "DESTROY")
    /\ Has(r, "SEND") => Has(s, "SEND") \/ ~s.terminating
    /\ r.status_code = s.status_code \/ r.status_code >= 200 \/ r.role = "UAC"
    /\ r.id["timeout"] \in PostedIds =>
           s.id["timeout"] \in PostedIds \/ s.state < COMPLETED

Mutes(s, r) == Muted(s) => Muted(r)

Winds(s, r) == s.heap["timeout"] => r.heap["timeout"]

Mild(s, r) == Alike(s, r) /\ Mutes(s, r) /\ Winds(s, r)

\* r has ended, and s had not been destroyed.
Over(s, r) ==
    /\ r \in TsxType
    /\ r.role = s.role /\ r.method = s.method
    /\ s.state <= TERMINATED
    /\ r.state = TERMINATED /\ r.told = TERMINATED /\ r.terminations >= 1
    /\ ~r.terminating /\ ~Has(r, "DESTROY")
    /\ r.status_code >= 200 \/ r.role = "UAC"
    /\ r.heap["timeout"] /\ r.id["timeout"] \notin PostedIds

Yields(s, r) == Mild(s, r) \/ Over(s, r)

LEMMA MildItself ==
    ASSUME NEW s \in TsxType
    PROVE  Mild(s, s) /\ Alike(s, s)
  BY DEF Mild, Alike, Mutes, Winds

LEMMA AlikeTrans ==
    ASSUME NEW s, NEW q, NEW r, Alike(s, q), Alike(q, r)
    PROVE  Alike(s, r)
  BY DEF Alike

LEMMA MildTrans ==
    ASSUME NEW s, NEW q, NEW r, Mild(s, q), Mild(q, r)
    PROVE  Mild(s, r)
  BY AlikeTrans DEF Mild, Mutes, Winds

LEMMA MildYields ==
    ASSUME NEW s, NEW q, NEW r, Mild(s, q), Yields(q, r)
    PROVE  Yields(s, r)
  <1>1. CASE Mild(q, r)
    BY <1>1, MildTrans DEF Yields
  <1>2. CASE Over(q, r)
    BY <1>2 DEF Over, Yields, Mild, Alike
  <1> QED
    BY <1>1, <1>2 DEF Yields

LEMMA AlikeCalm ==
    ASSUME NEW s, NEW r, Calm(s), Alike(s, r), AnsweredInvite(s) => Muted(r)
    PROVE  Calm(r) /\ r.role = s.role /\ r.method = s.method /\ r.state = s.state
  <1>1. s.state \in Int /\ s.status_code \in Int /\ r.status_code \in Int
    BY DEF Calm, Alike, TsxType, States, NULL, DESTROYED, Codes, TimeoutCode,
           TransportErrorCode, Provisional, Final
  <1>2. s.state >= TERMINATED => ~(s.state < COMPLETED)
    BY <1>1 DEF COMPLETED, TERMINATED
  <1> QED
    BY <1>1, <1>2 DEF Calm, Alike, AnsweredInvite

LEMMA AlikeCalms ==
    ASSUME NEW s, NEW r, Calm(s), Alike(s, r), AnsweredInvite(s) => Muted(r),
           NeedsTimer(s) => Winds(s, r) \/ r.heap["timeout"]
    PROVE  Calms(s, r)
  BY AlikeCalm DEF Calms, Steps, Moved, Wound, NeedsTimer, Winds

LEMMA MildCalms ==
    ASSUME NEW s, NEW r, Calm(s), Mild(s, r)
    PROVE  Calms(s, r)
  BY AlikeCalms DEF Calm, Mild, Mutes, AnsweredInvite

LEMMA OverCalms ==
    ASSUME NEW s, NEW r, Calm(s), Over(s, r)
    PROVE  Calms(s, r)
  <1>1. s.state \in Int /\ r.status_code \in Int
    BY DEF Calm, Over, TsxType, States, NULL, DESTROYED, Codes, TimeoutCode,
           TransportErrorCode, Provisional, Final
  <1>2. Calm(r)
    BY <1>1 DEF Over, Calm, AnsweredInvite, CALLING, PROCEEDING, COMPLETED, TERMINATED, DESTROYED
  <1>3. Moved(s, r.state)
    BY <1>1 DEF Over, Moved, TERMINATED
  <1> QED
    BY <1>2, <1>3 DEF Over, Calms, Steps, Wound

LEMMA YieldsCalms ==
    ASSUME NEW s, NEW r, Calm(s), Yields(s, r)
    PROVE  Calms(s, r)
  BY MildCalms, OverCalms DEF Yields

-----------------------------------------------------------------------------
(* Flags, timers and messages.                                             *)

\* r differs from s in nothing that matters here.
Kin(s, r) ==
    /\ r \in TsxType
    /\ r.role = s.role /\ r.method = s.method
    /\ r.state = s.state /\ r.told = s.told
    /\ r.terminating = s.terminating /\ r.terminations = s.terminations
    /\ r.transport_flag = s.transport_flag
    /\ r.heap = s.heap /\ r.id = s.id
    /\ r.status_code = s.status_code

LEMMA KinMild ==
    ASSUME NEW s, NEW r, Kin(s, r)
    PROVE  Mild(s, r)
  BY DEF Kin, Mild, Alike, Mutes, Winds, Muted, Has

LEMMA CheckMild ==
    ASSUME NEW s \in TsxType, NEW name \in Asserts, NEW cond
    PROVE  Mild(s, Check(s, name, cond))
  <1>1. Kin(s, Check(s, name, cond))
    BY DEF Kin, Check, TsxType
  <1> QED
    BY <1>1, KinMild

LEMMA LastTxMild ==
    ASSUME NEW s \in TsxType, NEW tx \in Messages \cup {NoMsg}
    PROVE  Mild(s, [s EXCEPT !.last_tx = tx])
  <1>1. Kin(s, [s EXCEPT !.last_tx = tx])
    BY DEF Kin, TsxType
  <1> QED
    BY <1>1, KinMild

LEMMA TransportMild ==
    ASSUME NEW s \in TsxType
    PROVE  Mild(s, [s EXCEPT !.transport = FALSE])
  <1>1. Kin(s, [s EXCEPT !.transport = FALSE])
    BY DEF Kin, TsxType
  <1> QED
    BY <1>1, KinMild

LEMMA SentMild ==
    ASSUME NEW s \in TsxType, NEW m \in Messages
    PROVE  Mild(s, [s EXCEPT !.sent = @ \cup {m}])
  <1>1. Kin(s, [s EXCEPT !.sent = @ \cup {m}])
    BY DEF Kin, TsxType
  <1> QED
    BY <1>1, KinMild

WithFlags(s, f) == [s EXCEPT !.transport_flag = f]

\* What the flags f may be instead of s's.
MildFlags(s, f) ==
    /\ f \in SUBSET Flags
    /\ "DESTROY" \in f => Has(s, "DESTROY")
    /\ "SEND" \in f => Has(s, "SEND") \/ ~s.terminating

LEMMA FlagsAlike ==
    ASSUME NEW s \in TsxType, NEW f, MildFlags(s, f)
    PROVE  LET r == WithFlags(s, f)
           IN  /\ Alike(s, r) /\ Winds(s, r) /\ r.heap = s.heap
               /\ ("RESCHED" \in f => Has(s, "RESCHED")) => Mild(s, r)
  <1> DEFINE r == WithFlags(s, f)
  <1>1. /\ r \in TsxType
        /\ r.role = s.role /\ r.method = s.method
        /\ r.state = s.state /\ r.told = s.told
        /\ r.terminating = s.terminating /\ r.terminations = s.terminations
        /\ r.transport_flag = f
        /\ r.heap = s.heap /\ r.id = s.id
        /\ r.status_code = s.status_code
    BY DEF WithFlags, TsxType, MildFlags
  <1> HIDE DEF r
  <1>2. Alike(s, r) /\ Winds(s, r) /\ r.heap = s.heap
    BY <1>1 DEF Alike, Winds, Has, MildFlags
  <1>3. ("RESCHED" \in f => Has(s, "RESCHED")) => Mutes(s, r)
    BY <1>1 DEF Mutes, Muted, Has
  <1> QED
    BY <1>2, <1>3 DEF Mild, r

LEMMA ClearMild ==
    ASSUME NEW s \in TsxType, NEW f \in Flags
    PROVE  Mild(s, Clear(s, f)) /\ ~Has(Clear(s, f), f) /\ Clear(s, f).heap = s.heap
  <1> DEFINE g == s.transport_flag \ {f}
  <1>1. MildFlags(s, g) /\ ("RESCHED" \in g => Has(s, "RESCHED"))
    BY DEF MildFlags, Has, TsxType
  <1>2. Clear(s, f) = WithFlags(s, g)
    BY DEF Clear, WithFlags
  <1>3. Clear(s, f).transport_flag = g
    BY DEF Clear, TsxType
  <1>4. ~Has(Clear(s, f), f)
    BY <1>3 DEF Has
  <1> HIDE DEF g
  <1> QED
    BY <1>1, <1>2, <1>4, FlagsAlike

LEMMA RaiseAlike ==
    ASSUME NEW s \in TsxType, NEW f \in Flags, f # "DESTROY", f = "SEND" => ~s.terminating
    PROVE  /\ Alike(s, Raise(s, f)) /\ Winds(s, Raise(s, f))
           /\ f # "RESCHED" => Mild(s, Raise(s, f))
  <1> DEFINE g == s.transport_flag \cup {f}
  <1>1. MildFlags(s, g) /\ (f # "RESCHED" => ("RESCHED" \in g => Has(s, "RESCHED")))
    BY DEF MildFlags, Has, TsxType
  <1>2. Raise(s, f) = WithFlags(s, g)
    BY DEF Raise, WithFlags
  <1> HIDE DEF g
  <1> QED
    BY <1>1, <1>2, FlagsAlike

LEMMA FlagNames ==
    {"TRANSPORT", "RESCHED", "SEND", "DESTROY", "RESOLVED"} \subseteq Flags
  BY DEF Flags

\* g may be the timers' ids instead of s's.
MildIds(s, g) ==
    g["timeout"] \in PostedIds => s.id["timeout"] \in PostedIds \/ s.state < COMPLETED

LEMMA TimersAlike ==
    ASSUME NEW s \in TsxType, NEW h \in [Timers -> BOOLEAN],
           NEW g \in [Timers -> TimerIds], NEW n \in Int, MildIds(s, g)
    PROVE  LET r == WithTimers(s, h, g, n)
           IN  Alike(s, r) /\ r.heap = h /\ r.id = g /\ r.transport_flag = s.transport_flag
  <1> DEFINE r == WithTimers(s, h, g, n)
  <1>1. /\ r \in TsxType
        /\ r.role = s.role /\ r.method = s.method
        /\ r.state = s.state /\ r.told = s.told
        /\ r.terminating = s.terminating /\ r.terminations = s.terminations
        /\ r.transport_flag = s.transport_flag
        /\ r.heap = h /\ r.id = g
        /\ r.status_code = s.status_code
    BY DEF WithTimers, TsxType
  <1> HIDE DEF r
  <1>2. Alike(s, r)
    BY <1>1 DEF Alike, Has, MildIds
  <1> QED
    BY <1>1, <1>2 DEF r

\* i may be given to the timer t.
MildId(s, t, i) ==
    t = "timeout" /\ i \in PostedIds => s.state < COMPLETED

LEMMA OneTimer ==
    ASSUME NEW S, NEW f \in [Timers -> S], NEW t \in Timers, NEW b \in S
    PROVE  LET h == [f EXCEPT ![t] = b]
           IN  h \in [Timers -> S] /\ h[t] = b /\ \A u \in Timers : u # t => h[u] = f[u]
  OBVIOUS

LEMMA ScheduleAlike ==
    ASSUME NEW s \in TsxType, NEW t \in Timers, NEW i \in TimerIds, MildId(s, t, i)
    PROVE  LET r == Schedule(s, t, i)
           IN  /\ Alike(s, r) /\ Winds(s, r) /\ r.heap[t]
               /\ r.transport_flag = s.transport_flag
               /\ t = "timeout" => Mild(s, r)
               /\ r.id[t] = i \/ (s.heap[t] /\ r.id = s.id)
  <1> DEFINE r == Schedule(s, t, i)
  <1>1. CASE s.heap[t]
    BY <1>1, MildItself DEF Schedule, Mild
  <1>2. CASE ~s.heap[t]
    <2> DEFINE h == [s.heap EXCEPT ![t] = TRUE]
               g == [s.id EXCEPT ![t] = i]
               n == s.refs + 1
    <2>1. h \in [Timers -> BOOLEAN] /\ g \in [Timers -> TimerIds] /\ n \in Int
            /\ h[t] /\ g[t] = i
            /\ (s.heap["timeout"] => h["timeout"])
            /\ (t = "timeout" => h["retransmit"] = s.heap["retransmit"])
      <3>1. s.heap \in [Timers -> BOOLEAN] /\ s.id \in [Timers -> TimerIds] /\ s.refs \in Int
        BY DEF TsxType
      <3>2. h \in [Timers -> BOOLEAN] /\ h[t] = TRUE
              /\ \A u \in Timers : u # t => h[u] = s.heap[u]
        BY <3>1, OneTimer, TRUE \in BOOLEAN
      <3>3. g \in [Timers -> TimerIds] /\ g[t] = i
        BY <3>1, OneTimer
      <3> HIDE DEF h, g
      <3> QED
        BY <3>1, <3>2, <3>3, TimerNames
    <2>2. MildIds(s, g)
      BY TimerNames DEF TsxType, MildIds, MildId
    <2>3. r = WithTimers(s, h, g, n)
      BY <1>2 DEF Schedule, WithTimers
    <2> HIDE DEF h, g, n, r
    <2>4. Alike(s, r) /\ r.heap = h /\ r.id = g /\ r.transport_flag = s.transport_flag
      BY <2>1, <2>2, <2>3, TimersAlike
    <2>5. Winds(s, r) /\ r.heap[t] /\ r.id[t] = i
      BY <2>1, <2>4 DEF Winds
    <2>6. t = "timeout" => Mild(s, r)
      BY <2>1, <2>4, <2>5 DEF Mild, Mutes, Muted, Has
    <2> QED
      BY <2>4, <2>5, <2>6 DEF r
  <1> QED
    BY <1>1, <1>2

LEMMA CancelAlike ==
    ASSUME NEW s \in TsxType, NEW t \in Timers
    PROVE  LET r == Cancel(s, t)
           IN  /\ Alike(s, r) /\ Mutes(s, r) /\ ~r.heap[t]
               /\ r.transport_flag = s.transport_flag
               /\ t = "retransmit" => Mild(s, r) /\ r.heap["timeout"] = s.heap["timeout"]
  <1> DEFINE r == Cancel(s, t)
  <1>1. CASE ~s.heap[t]
    BY <1>1, MildItself DEF Cancel, Mild
  <1>2. CASE s.heap[t]
    <2> DEFINE h == [s.heap EXCEPT ![t] = FALSE]
               g == [s.id EXCEPT ![t] = INACTIVE]
               n == s.refs - 1
    <2>1. h \in [Timers -> BOOLEAN] /\ g \in [Timers -> TimerIds] /\ n \in Int
            /\ ~h[t] /\ (h["retransmit"] => s.heap["retransmit"])
            /\ (t = "retransmit" => h["timeout"] = s.heap["timeout"])
      <3>1. s.heap \in [Timers -> BOOLEAN] /\ s.id \in [Timers -> TimerIds] /\ s.refs \in Int
        BY DEF TsxType
      <3>2. h \in [Timers -> BOOLEAN] /\ h[t] = FALSE
              /\ \A u \in Timers : u # t => h[u] = s.heap[u]
        BY <3>1, OneTimer, FALSE \in BOOLEAN
      <3>3. g \in [Timers -> TimerIds]
        BY <3>1, OneTimer, IdNames
      <3> HIDE DEF h, g
      <3> QED
        BY <3>1, <3>2, <3>3, TimerNames
    <2>2. MildIds(s, g)
      BY TimerNames DEF TsxType, MildIds, PostedIds, INACTIVE, ERR, DISC
    <2>3. r = WithTimers(s, h, g, n)
      BY <1>2 DEF Cancel, WithTimers
    <2> HIDE DEF h, g, n, r
    <2>4. Alike(s, r) /\ r.heap = h /\ r.transport_flag = s.transport_flag
      BY <2>1, <2>2, <2>3, TimersAlike
    <2>5. Mutes(s, r) /\ ~r.heap[t] /\ (t = "retransmit" => r.heap["timeout"] = s.heap["timeout"])
      BY <2>1, <2>4 DEF Mutes, Muted, Has
    <2>6. t = "retransmit" => Mild(s, r)
      BY <2>4, <2>5 DEF Mild, Winds
    <2> QED
      BY <2>4, <2>5, <2>6 DEF r
  <1> QED
    BY <1>1, <1>2

LEMMA RestartMild ==
    ASSUME NEW s \in TsxType, NEW i \in TimerIds, MildId(s, "timeout", i)
    PROVE  LET r == Restart(s, "timeout", i)
           IN  /\ Mild(s, r) /\ r.heap["timeout"] /\ r.id["timeout"] = i
               /\ r.transport_flag = s.transport_flag
  <1> DEFINE q == Cancel(s, "timeout")
             r == Schedule(q, "timeout", i)
  <1>1. Alike(s, q) /\ Mutes(s, q) /\ ~q.heap["timeout"] /\ q.transport_flag = s.transport_flag
    BY CancelAlike, TimerNames
  <1>2. q \in TsxType /\ q.state = s.state
    BY <1>1 DEF Alike
  <1> HIDE DEF q
  <1>3. MildId(q, "timeout", i)
    BY <1>2 DEF MildId
  <1>4. Alike(q, r) /\ r.heap["timeout"] /\ Mild(q, r)
          /\ r.transport_flag = q.transport_flag /\ r.id["timeout"] = i
    BY <1>1, <1>2, <1>3, TimerNames, ScheduleAlike
  <1> HIDE DEF r
  <1>5. Alike(s, r)
    BY <1>1, <1>4, AlikeTrans
  <1>6. Mild(s, r)
    BY <1>1, <1>4, <1>5 DEF Mild, Mutes, Winds
  <1> QED
    BY <1>1, <1>4, <1>6 DEF Restart, r, q

LEMMA PostMild ==
    ASSUME NEW s \in TsxType, NEW i \in TimerIds
    PROVE  Mild(s, Post(s, i)) /\ Post(s, i).transport_flag = s.transport_flag
  BY RestartMild, MildItself DEF Post, MildId

LEMMA StatusMild ==
    ASSUME NEW s \in TsxType, NEW c \in Codes, c >= 200 \/ s.role = "UAC"
    PROVE  Mild(s, [s EXCEPT !.status_code = c])
  <1> DEFINE r == [s EXCEPT !.status_code = c]
  <1>1. /\ r \in TsxType
        /\ r.role = s.role /\ r.method = s.method
        /\ r.state = s.state /\ r.told = s.told
        /\ r.terminating = s.terminating /\ r.terminations = s.terminations
        /\ r.transport_flag = s.transport_flag
        /\ r.heap = s.heap /\ r.id = s.id
        /\ r.status_code = c
    BY DEF TsxType
  <1> HIDE DEF r
  <1>2. Mild(s, r)
    BY <1>1 DEF Mild, Alike, Mutes, Winds, Muted, Has
  <1> QED
    BY <1>2 DEF r

\* A send outstanding is a flag, as far as it matters here.
LEMMA SendMild ==
    ASSUME NEW s \in TsxType, NEW sent \in SUBSET Messages, NEW direct \in SUBSET Messages,
           NEW resolving \in SUBSET Messages, NEW m \in Messages \cup {NoMsg}, NEW n \in Int
    PROVE  Mild(s, WithSend(WithSent(Raise(s, "TRANSPORT"), sent, n), direct, resolving, m))
  <1> DEFINE q == Raise(s, "TRANSPORT")
             p == WithSent(q, sent, n)
             r == WithSend(p, direct, resolving, m)
  <1>1. Mild(s, q) /\ q \in TsxType
    BY RaiseAlike, FlagNames DEF Mild, Alike
  <1> HIDE DEF q
  <1>2. Kin(q, p)
    BY <1>1 DEF Kin, TsxType, WithSent
  <1> HIDE DEF p
  <1>3. Kin(p, r)
    BY <1>2 DEF Kin, TsxType, WithSend
  <1> HIDE DEF r
  <1>4. Mild(s, r)
    BY <1>1, <1>2, <1>3, KinMild, MildTrans
  <1> QED
    BY <1>4 DEF p, q, r

-----------------------------------------------------------------------------
(* Changes of state.                                                       *)

\* r is s but for the state and what the TU was told.
Kept(s, r) ==
    /\ r \in TsxType
    /\ r.role = s.role /\ r.method = s.method
    /\ r.terminating = s.terminating
    /\ r.transport_flag = s.transport_flag
    /\ r.heap = s.heap /\ r.id = s.id
    /\ r.status_code = s.status_code

LEMMA EnterKept ==
    ASSUME NEW s \in TsxType, NEW st \in States
    PROVE  LET r == Enter(s, st)
           IN  /\ Kept(s, r) /\ r.state = st
               /\ r.told = s.told /\ r.terminations = s.terminations
  <1> DEFINE q == Check(s, "state_order", st >= s.state)
             r == [q EXCEPT !.state = st]
  <1>1. Kin(s, q)
    BY DEF Kin, Check, Asserts, TsxType
  <1> HIDE DEF q
  <1>2. Kept(q, r) /\ r.state = st /\ r.told = q.told /\ r.terminations = q.terminations
    BY <1>1 DEF Kin, Kept, TsxType
  <1>3. Enter(s, st) = r
    BY DEF Enter, q
  <1> HIDE DEF r
  <1> QED
    BY <1>1, <1>2, <1>3 DEF Kin, Kept

LEMMA TellKept ==
    ASSUME NEW s \in TsxType, NEW st \in States
    PROVE  LET r == Tell(s, st)
           IN  /\ Kept(s, r) /\ r.state = s.state
               /\ ~Has(s, "DESTROY") => r.told = st
               /\ ~Has(s, "DESTROY") /\ st = TERMINATED => r.terminations >= 1
               /\ Has(s, "DESTROY") => r.told = s.told
               /\ st # TERMINATED \/ Has(s, "DESTROY") => r.terminations = s.terminations
  <1> DEFINE n == IF st = TERMINATED /\ s.terminations < 2 THEN s.terminations + 1
                  ELSE s.terminations
             r == [s EXCEPT !.told = st, !.terminations = n]
  <1>1. CASE Has(s, "DESTROY")
    BY <1>1 DEF Tell, Kept
  <1>2. CASE ~Has(s, "DESTROY")
    <2>1. n \in 0 .. 2 /\ (st = TERMINATED => n >= 1) /\ (st # TERMINATED => n = s.terminations)
      BY DEF TsxType
    <2>2. Tell(s, st) = r
      BY <1>2 DEF Tell
    <2> HIDE DEF n
    <2>3. Kept(s, r) /\ r.state = s.state /\ r.told = st /\ r.terminations = n
      BY <2>1 DEF Kept, TsxType
    <2> HIDE DEF r
    <2> QED
      BY <1>2, <2>1, <2>2, <2>3
  <1> QED
    BY <1>1, <1>2

LEMMA DetachMild ==
    ASSUME NEW s \in TsxType
    PROVE  Mild(s, Detach(s)) /\ Detach(s).heap = s.heap
  <1>1. CASE ~Has(s, "TRANSPORT")
    BY <1>1, MildItself DEF Detach
  <1>2. CASE Has(s, "TRANSPORT")
    <2> DEFINE n == IF s.pending_tx = NoMsg THEN s.refs ELSE s.refs - 1
               q == Clear(s, "TRANSPORT")
               p == WithSent(q, s.sent, n)
               r == WithSend(p, s.direct, s.resolving \ {s.pending_tx}, NoMsg)
    <2>1. n \in Int /\ s.sent \in SUBSET Messages /\ s.direct \in SUBSET Messages
            /\ s.resolving \ {s.pending_tx} \in SUBSET Messages
      BY DEF TsxType
    <2>2. Detach(s) = r
      BY <1>2 DEF Detach, WithSend, WithSent, Clear, TsxType
    <2> HIDE DEF n
    <2>3. Mild(s, q) /\ q \in TsxType /\ q.heap = s.heap
      BY ClearMild, FlagNames DEF Mild, Alike
    <2> HIDE DEF q
    <2>4. Kin(q, p)
      BY <2>1, <2>3 DEF Kin, TsxType, WithSent
    <2> HIDE DEF p
    <2>5. Kin(p, r)
      BY <2>1, <2>4 DEF Kin, TsxType, WithSend
    <2> HIDE DEF r
    <2> QED
      BY <2>2, <2>3, <2>4, <2>5, KinMild, MildTrans DEF Kin
  <1> QED
    BY <1>1, <1>2

\* The rest of a tsx_set_state to TERMINATED starts the timer that destroys.
LEMMA FinishMild ==
    ASSUME NEW s \in TsxType
    PROVE  LET r == Finish(s, TERMINATED)
           IN  Mild(s, r) /\ r.heap["timeout"] /\ r.id["timeout"] = TIMEOUT
  <1> DEFINE q == Detach(s)
             r == Restart(q, "timeout", TIMEOUT)
  <1>1. Mild(s, q) /\ q \in TsxType
    BY DetachMild DEF Mild, Alike
  <1> HIDE DEF q
  <1>2. MildId(q, "timeout", TIMEOUT) /\ TIMEOUT \in TimerIds
    BY IdNames DEF MildId, PostedIds, TIMEOUT, ERR, DISC
  <1>3. Mild(q, r) /\ r.heap["timeout"] /\ r.id["timeout"] = TIMEOUT
    BY <1>1, <1>2, RestartMild
  <1>4. Finish(s, TERMINATED) = r
    <2>1. TERMINATED # DESTROYED
      BY DEF TERMINATED, DESTROYED
    <2> QED
      BY <2>1, Zenon DEF Finish, q
  <1> HIDE DEF r
  <1> QED
    BY <1>1, <1>3, <1>4, MildTrans

\* A transaction that a send may be made for, or that may be ended.
Ready(s) ==
    /\ s \in TsxType
    /\ s.state <= TERMINATED
    /\ ~s.terminating /\ ~Has(s, "DESTROY")

LEMMA CalmReady ==
    ASSUME NEW s, Calm(s), s.state # DESTROYED
    PROVE  Ready(s)
  BY DEF Calm, Ready, TsxType, States, NULL, TERMINATED, DESTROYED

LEMMA AlikeReady ==
    ASSUME NEW s, NEW r, Ready(s), Alike(s, r)
    PROVE  Ready(r)
  BY DEF Ready, Alike

LEMMA MildReady ==
    ASSUME NEW s, NEW r, Ready(s), Mild(s, r)
    PROVE  Ready(r)
  BY AlikeReady DEF Mild

LEMMA SetStateOver ==
    ASSUME NEW s, Ready(s), s.status_code >= 200 \/ s.role = "UAC"
    PROVE  Over(s, SetState(s, TERMINATED))
  <1> DEFINE e == Enter(s, TERMINATED)
             q == Tell(e, TERMINATED)
             r == Finish(q, TERMINATED)
  <1>1. Kept(s, e) /\ e.state = TERMINATED /\ e \in TsxType
    BY EnterKept, StateNumbers DEF Ready, Kept
  <1>2. ~Has(e, "DESTROY")
    BY <1>1 DEF Ready, Kept, Has
  <1> HIDE DEF e
  <1>3. Kept(e, q) /\ q.state = TERMINATED /\ q.told = TERMINATED /\ q.terminations >= 1
          /\ q \in TsxType
    BY <1>1, <1>2, TellKept, StateNumbers DEF Kept
  <1> HIDE DEF q
  <1>4. Mild(q, r) /\ r.heap["timeout"] /\ r.id["timeout"] = TIMEOUT
    BY <1>3, FinishMild
  <1> HIDE DEF r
  <1>5. TIMEOUT \notin PostedIds
    BY DEF PostedIds, TIMEOUT, ERR, DISC
  <1>6. Over(s, r)
    BY <1>1, <1>3, <1>4, <1>5 DEF Over, Mild, Alike, Kept, Ready, Has
  <1> QED
    BY <1>6 DEF SetState, e, q, r

\* A state before TERMINATED is entered and told, and nothing else is done.
LEMMA SetStateKept ==
    ASSUME NEW s, NEW st \in States, s \in TsxType, ~Has(s, "DESTROY"), st < TERMINATED
    PROVE  LET r == SetState(s, st)
           IN  Kept(s, r) /\ r.state = st /\ r.told = st /\ r.terminations = s.terminations
  <1> DEFINE e == Enter(s, st)
             q == Tell(e, st)
  <1>1. Kept(s, e) /\ e.state = st /\ e \in TsxType /\ e.terminations = s.terminations
    BY EnterKept DEF Kept
  <1>2. ~Has(e, "DESTROY") /\ st # TERMINATED /\ st # DESTROYED
    BY <1>1 DEF Kept, Has, TERMINATED, DESTROYED
  <1> HIDE DEF e
  <1>3. Kept(e, q) /\ q.state = st /\ q.told = st /\ q.terminations = e.terminations
    BY <1>1, <1>2, TellKept
  <1>4. SetState(s, st) = q
    BY <1>2 DEF SetState, Finish, e, q
  <1> HIDE DEF q
  <1> QED
    BY <1>1, <1>3, <1>4 DEF Kept

\* A transaction that has given up its transport is one.
LEMMA WithoutType ==
    ASSUME NEW s \in TsxType, NEW f \in SUBSET Flags, NEW n \in Int
    PROVE  WithoutTransaction(s, f, n) \in TsxType
  BY DEF TsxType, WithoutTransaction

\* The rest of a tsx_set_state to DESTROYED.
LEMMA FinishDestroyed ==
    ASSUME NEW s \in TsxType, s.state = DESTROYED, s.told = DESTROYED, s.terminations >= 1,
           s.id["timeout"] \notin PostedIds, s.role = "UAS" => s.status_code >= 200
    PROVE  LET r == Finish(s, DESTROYED)
           IN  Calm(r) /\ r.state = DESTROYED /\ r.role = s.role /\ r.method = s.method
  <1> DEFINE b == Cancel(s, "timeout")
             c == Cancel(b, "retransmit")
             f == c.transport_flag \ {"RESCHED", "SEND"}
             g == IF "TRANSPORT" \in f THEN f \cup {"DESTROY"} ELSE f
             n == IF s.terminating THEN c.refs ELSE c.refs - 1
             r == WithoutTransaction(c, g, n)
  <1>1. Alike(s, b)
    BY CancelAlike, TimerNames
  <1>2. Alike(b, c)
    BY <1>1, CancelAlike, TimerNames DEF Alike
  <1>3. Alike(s, c) /\ c \in TsxType
    BY <1>1, <1>2, AlikeTrans DEF Alike
  <1>4. Finish(s, DESTROYED) = r
    BY DEF Finish, Shutdown, WithoutTransaction, DESTROYED, TERMINATED
  <1> HIDE DEF c
  <1>5. g \in SUBSET Flags /\ n \in Int /\ "SEND" \notin g /\ "RESCHED" \notin g
    BY <1>3 DEF TsxType, Flags
  <1> HIDE DEF g, n
  <1>6. /\ r \in TsxType /\ r.state = c.state /\ r.told = c.told
        /\ r.role = c.role /\ r.method = c.method
        /\ r.terminations = c.terminations /\ r.status_code = c.status_code
        /\ r.id = c.id
        /\ r.terminating = TRUE /\ r.transport_flag = g
    <2>1. r \in TsxType
      BY <1>3, <1>5, WithoutType
    <2> QED BY <1>3, <2>1 DEF TsxType, WithoutTransaction
  <1> HIDE DEF r
  <1>7. r.id["timeout"] \notin PostedIds
    BY <1>3, <1>6 DEF Alike, COMPLETED, DESTROYED
  <1>8. Calm(r)
    BY <1>3, <1>5, <1>6, <1>7 DEF Alike, Calm, AnsweredInvite, Has, CALLING, PROCEEDING,
           COMPLETED, DESTROYED
  <1> QED
    BY <1>3, <1>4, <1>6, <1>8 DEF Alike

\* From TERMINATED, or again by a callback that finds DESTROY.
LEMMA SetStateDestroyed ==
    ASSUME NEW s, Calm(s), s.state >= TERMINATED
    PROVE  Calms(s, SetState(s, DESTROYED))
  <1> DEFINE e == Enter(s, DESTROYED)
             q == Tell(e, DESTROYED)
             r == Finish(q, DESTROYED)
  <1>1. s \in TsxType /\ (s.state = TERMINATED \/ s.state = DESTROYED)
    BY DEF Calm, TsxType, States, NULL, TERMINATED, DESTROYED
  <1>2. Kept(s, e) /\ e.state = DESTROYED /\ e \in TsxType /\ e.terminations = s.terminations
          /\ e.told = s.told
    BY <1>1, EnterKept, StateNumbers DEF Kept
  <1>3. Has(e, "DESTROY") => e.told = DESTROYED
    BY <1>2 DEF Kept, Has, Calm
  <1> HIDE DEF e
  <1>4. /\ Kept(e, q) /\ q.state = DESTROYED /\ q.told = DESTROYED
        /\ q.terminations = e.terminations /\ q \in TsxType
    <2>1. DESTROYED # TERMINATED /\ DESTROYED \in States
      BY StateNumbers DEF TERMINATED, DESTROYED
    <2>2. Kept(e, q) /\ q.state = e.state /\ q.terminations = e.terminations
      BY <1>2, <2>1, TellKept
    <2>3. q.told = DESTROYED
      BY <1>2, <1>3, <2>1, TellKept
    <2> QED
      BY <1>2, <2>2, <2>3 DEF Kept
  <1> HIDE DEF q
  <1>5. q.id["timeout"] \notin PostedIds /\ q.terminations >= 1
          /\ (q.role = "UAS" => q.status_code >= 200) /\ q.role = s.role /\ q.method = s.method
    BY <1>1, <1>2, <1>4 DEF Kept, Calm, COMPLETED, TERMINATED, DESTROYED
  <1>6. Calm(r) /\ r.state = DESTROYED /\ r.role = q.role /\ r.method = q.method
    BY <1>4, <1>5, FinishDestroyed
  <1> HIDE DEF r
  <1>7. Calms(s, r)
    BY <1>1, <1>5, <1>6 DEF Calms, Steps, Moved, Wound, NeedsTimer, CALLING, PROCEEDING, COMPLETED,
           CONFIRMED, TERMINATED, DESTROYED
  <1> QED
    BY <1>7 DEF SetState, e, q, r

-----------------------------------------------------------------------------
(* Sending.                                                                *)

LEMMA OverMild ==
    ASSUME NEW s, NEW q, NEW r, Over(s, q), Mild(q, r)
    PROVE  Over(s, r)
  <1>1. r.id["timeout"] \notin PostedIds
    BY DEF Over, Mild, Alike, COMPLETED, TERMINATED
  <1> QED
    BY <1>1 DEF Over, Mild, Alike, Winds

LEMMA YieldsMild ==
    ASSUME NEW s, NEW q, NEW r, Yields(s, q), Mild(q, r)
    PROVE  Yields(s, r)
  BY OverMild, MildTrans DEF Yields

LEMMA YieldsType ==
    ASSUME NEW s, NEW r, Yields(s, r)
    PROVE  r \in TsxType
  BY DEF Yields, Mild, Alike, Over

\* It starts the retransmission timer that it finds asked for.
LEMMA ReschedAlike ==
    ASSUME NEW s \in TsxType
    PROVE  LET r == ReschedRetransmission(s)
           IN  Alike(s, r) /\ Winds(s, r) /\ r.transport_flag = s.transport_flag
  <1> DEFINE p == Check(s, "resched_pending", ~Has(s, "TRANSPORT"))
             q == Check(p, "resched_after_final", s.role = "UAC" => s.status_code < 200)
             r == Schedule(q, "retransmit", RETRANSMIT)
  <1>1. Kin(s, p)
    BY DEF Kin, Check, Asserts, TsxType
  <1> HIDE DEF p
  <1>2. Kin(p, q)
    BY <1>1 DEF Kin, Check, Asserts, TsxType
  <1> HIDE DEF q
  <1>3. Mild(s, q) /\ q \in TsxType /\ q.transport_flag = s.transport_flag
    BY <1>1, <1>2, KinMild, MildTrans DEF Kin
  <1>4. MildId(q, "retransmit", RETRANSMIT)
    BY DEF MildId
  <1>5. Alike(q, r) /\ Winds(q, r) /\ r.transport_flag = q.transport_flag
    BY <1>3, <1>4, ScheduleAlike, TimerNames, IdNames
  <1>6. ReschedRetransmission(s) = r
    BY DEF ReschedRetransmission, p, q
  <1> HIDE DEF r
  <1>7. Alike(s, r)
    BY <1>3, <1>5, AlikeTrans DEF Mild
  <1> QED
    BY <1>3, <1>5, <1>6, <1>7 DEF Mild, Winds

LEMMA PendingReschedMild ==
    ASSUME NEW s \in TsxType
    PROVE  Mild(s, DoPendingResched(s))
  <1> DEFINE q == Clear(s, "RESCHED")
  <1>1. Mild(s, q) /\ q \in TsxType
    BY ClearMild, FlagNames DEF Mild, Alike
  <1> HIDE DEF q
  <1>2. Alike(q, ReschedRetransmission(q)) /\ Winds(q, ReschedRetransmission(q))
    BY <1>1, ReschedAlike
  <1>3. Alike(s, ReschedRetransmission(q)) /\ Winds(s, ReschedRetransmission(q))
    BY <1>1, <1>2, AlikeTrans DEF Mild, Winds
  <1>4. Has(s, "RESCHED") => Mild(s, ReschedRetransmission(q))
    BY <1>3 DEF Mild, Mutes, Muted
  <1> QED
    BY <1>1, <1>4, MildItself DEF DoPendingResched, q

LEMMA StartAlike ==
    ASSUME NEW s \in TsxType
    PROVE  Alike(s, StartRetransmission(s)) /\ Winds(s, StartRetransmission(s))
  <1>1. Alike(s, Raise(s, "RESCHED")) /\ Winds(s, Raise(s, "RESCHED"))
    BY RaiseAlike, FlagNames
  <1>2. MildId(s, "retransmit", RETRANSMIT)
    BY DEF MildId
  <1>3. Alike(s, Schedule(s, "retransmit", RETRANSMIT))
          /\ Winds(s, Schedule(s, "retransmit", RETRANSMIT))
    BY <1>2, ScheduleAlike, TimerNames, IdNames
  <1> QED
    BY <1>1, <1>3 DEF StartRetransmission

LEMMA DirectSendMild ==
    ASSUME NEW s \in TsxType, NEW m \in Messages, NEW outcome \in DirectOutcomes
    PROVE  Mild(s, DirectSend(s, m, outcome))
  <1>1. CASE outcome = "sent"
    BY <1>1, SentMild DEF DirectSend
  <1>2. CASE outcome = "pending"
    <2> DEFINE p == WithSent(Raise(s, "TRANSPORT"), s.sent \cup {m}, s.refs + 1)
               r == WithSend(p, s.direct \cup {m}, s.resolving, s.pending_tx)
    <2>1. DirectSend(s, m, outcome) = r
      BY <1>2 DEF DirectSend, WithSend, WithSent, Raise, TsxType
    <2>2. /\ s.sent \cup {m} \in SUBSET Messages /\ s.direct \cup {m} \in SUBSET Messages
          /\ s.resolving \in SUBSET Messages /\ s.pending_tx \in Messages \cup {NoMsg}
          /\ s.refs + 1 \in Int
      BY DEF TsxType
    <2>3. Mild(s, r)
      BY <2>2, SendMild
    <2> QED
      BY <2>1, <2>3
  <1>3. CASE outcome = "failed"
    BY <1>3, TransportMild DEF DirectSend
  <1>4. CASE outcome = "broken"
    <2> DEFINE q == Post(s, DISC)
    <2>1. Mild(s, q) /\ q \in TsxType
      BY PostMild, IdNames DEF Mild, Alike
    <2>2. DirectSend(s, m, outcome) = [q EXCEPT !.transport = FALSE]
      BY <1>4 DEF DirectSend
    <2> HIDE DEF q
    <2>3. Mild(q, [q EXCEPT !.transport = FALSE])
      BY <2>1, TransportMild
    <2> QED
      BY <2>1, <2>2, <2>3, MildTrans
  <1> QED
    BY <1>1, <1>2, <1>3, <1>4, ConfigAssumption

LEMMA FailureCode == TransportErrorCode \in Codes /\ TransportErrorCode >= 200
                         /\ TimeoutCode \in Codes /\ TimeoutCode >= 200
  BY DEF Codes, TransportErrorCode, TimeoutCode

LEMMA StatusOver ==
    ASSUME NEW s, NEW c \in Codes, c >= 200, Ready(s)
    PROVE  Over(s, SetState([s EXCEPT !.status_code = c], TERMINATED))
  <1> DEFINE q == [s EXCEPT !.status_code = c]
  <1>1. Mild(s, q) /\ q.status_code >= 200
    BY StatusMild DEF Ready, TsxType
  <1> HIDE DEF q
  <1>2. Over(q, SetState(q, TERMINATED))
    BY <1>1, MildReady, SetStateOver
  <1> QED
    BY <1>1, <1>2 DEF Over, Mild, Alike, q

LEMMA TransportFailureOver ==
    ASSUME NEW s, Ready(s)
    PROVE  Over(s, TransportFailure(s))
  BY StatusOver, FailureCode DEF TransportFailure

LEMMA SendAgainYields ==
    ASSUME NEW s, NEW m \in Messages \cup {NoMsg}, NEW outcome \in DirectOutcomes, Ready(s)
    PROVE  Yields(s, SendAgain(s, m, outcome))
  <1>1. s \in TsxType
    BY DEF Ready
  <1>2. CASE m = NoMsg
    BY <1>1, <1>2, CheckMild DEF SendAgain, Asserts, Yields
  <1>3. CASE m # NoMsg
    <2> DEFINE q == DirectSend(s, m, outcome)
    <2>1. Mild(s, q)
      BY <1>1, <1>3, DirectSendMild
    <2>2. SendAgain(s, m, outcome) \in {s, q, TransportFailure(q)}
      BY <1>3 DEF SendAgain
    <2> HIDE DEF q
    <2>3. Over(q, TransportFailure(q))
      BY <2>1, MildReady, TransportFailureOver
    <2>4. Yields(s, TransportFailure(q))
      BY <2>1, <2>3, MildYields DEF Yields
    <2> QED
      BY <1>1, <2>1, <2>2, <2>4, MildItself DEF Yields
  <1> QED
    BY <1>2, <1>3

LEMMA ResolvedFlags ==
    ASSUME NEW s \in TsxType
    PROVE  LET f == (s.transport_flag \ {"TRANSPORT"}) \cup {"RESOLVED"}
           IN  /\ f \in SUBSET Flags /\ MildFlags(s, f)
               /\ "RESCHED" \in f => Has(s, "RESCHED")
  BY DEF MildFlags, TsxType, Flags, Has

LEMMA ResolvedMild ==
    ASSUME NEW s \in TsxType, NEW o \in Outcomes
    PROVE  Mild(s, Resolved(s, o))
  <1> DEFINE f == (s.transport_flag \ {"TRANSPORT"}) \cup {"RESOLVED"}
             q == WithFlags(s, f)
             r == Resolved(s, o)
  <1>1. f \in SUBSET Flags /\ MildFlags(s, f) /\ ("RESCHED" \in f => Has(s, "RESCHED"))
    BY ResolvedFlags
  <1>2. r = WithResolved(s, o.reliable, f)
    BY DEF Resolved, WithResolved
  <1> HIDE DEF f, r
  <1>3. Mild(s, q)
    BY <1>1, FlagsAlike
  <1>4. /\ r \in TsxType
        /\ r.role = s.role /\ r.method = s.method
        /\ r.state = s.state /\ r.told = s.told
        /\ r.terminating = s.terminating /\ r.terminations = s.terminations
        /\ r.transport_flag = f
        /\ r.heap = s.heap /\ r.id = s.id
        /\ r.status_code = s.status_code
    BY <1>1, <1>2, OutcomeTypes DEF TsxType, WithResolved
  <1>5. /\ q.role = s.role /\ q.method = s.method
        /\ q.state = s.state /\ q.told = s.told
        /\ q.terminating = s.terminating /\ q.terminations = s.terminations
        /\ q.transport_flag = f
        /\ q.heap = s.heap /\ q.id = s.id
        /\ q.status_code = s.status_code
    BY <1>1 DEF TsxType, WithFlags
  <1> HIDE DEF q
  <1>6. Kin(q, r)
    BY <1>4, <1>5 DEF Kin
  <1>7. Mild(s, r)
    BY <1>3, <1>6, KinMild, MildTrans
  <1> QED
    BY <1>7 DEF r

LEMMA ResolveFailedMild ==
    ASSUME NEW s \in TsxType
    PROVE  Mild(s, ResolveFailed(s)) /\ ResolveFailed(s).status_code >= 200
  <1> DEFINE f == (s.transport_flag \ {"TRANSPORT"}) \cup {"RESOLVED"}
             r == ResolveFailed(s)
  <1>1. f \in SUBSET Flags /\ MildFlags(s, f) /\ ("RESCHED" \in f => Has(s, "RESCHED"))
    BY ResolvedFlags
  <1>2. r = WithResolveFailed(s, TransportErrorCode, f)
    BY DEF ResolveFailed, WithResolveFailed
  <1> HIDE DEF f, r
  <1>3. /\ r \in TsxType
        /\ r.role = s.role /\ r.method = s.method
        /\ r.state = s.state /\ r.told = s.told
        /\ r.terminating = s.terminating /\ r.terminations = s.terminations
        /\ r.transport_flag = f
        /\ r.heap = s.heap /\ r.id = s.id
        /\ r.status_code = TransportErrorCode
    BY <1>1, <1>2, FailureCode DEF TsxType, WithResolveFailed
  <1>4. Mild(s, r) /\ r.status_code >= 200
    BY <1>1, <1>3, FailureCode DEF Mild, Alike, Mutes, Winds, Muted, Has, MildFlags
  <1> QED
    BY <1>4 DEF r

LEMMA InlineResolvedYields ==
    ASSUME NEW s, NEW o \in Outcomes, Ready(s)
    PROVE  Yields(s, InlineResolved(s, o))
  <1> DEFINE q == Clear(s, "SEND")
             r == IF Has(s, "SEND") THEN SendAgain(q, s.last_tx, o.again) ELSE s
  <1>1. s \in TsxType /\ s.last_tx \in Messages \cup {NoMsg} /\ ~Has(s, "DESTROY")
    BY DEF Ready, TsxType
  <1>2. Mild(s, q)
    BY <1>1, ClearMild, FlagNames
  <1> HIDE DEF q
  <1>3. Yields(q, SendAgain(q, s.last_tx, o.again))
    BY <1>1, <1>2, MildReady, SendAgainYields, OutcomeTypes
  <1>4. Yields(s, r)
    BY <1>1, <1>2, <1>3, MildYields, MildItself DEF Yields
  <1>5. InlineResolved(s, o) = DoPendingResched(r)
    BY <1>1 DEF InlineResolved, q
  <1> HIDE DEF r
  <1>6. Mild(r, DoPendingResched(r))
    BY <1>4, YieldsType, PendingReschedMild
  <1> QED
    BY <1>4, <1>5, <1>6, YieldsMild

LEMMA InlineFailedYields ==
    ASSUME NEW s, Ready(s), s.status_code >= 200
    PROVE  Yields(s, InlineFailed(s))
  BY SetStateOver, MildItself DEF InlineFailed, Yields, Ready

LEMMA ResolveAndSendYields ==
    ASSUME NEW s, NEW m \in Messages, NEW o \in Outcomes, Ready(s)
    PROVE  Yields(s, ResolveAndSend(s, m, o))
  <1>1. s \in TsxType
    BY DEF Ready
  <1>2. CASE Has(s, "RESOLVED")
    BY <1>2, TransportFailureOver DEF ResolveAndSend, Yields
  <1>3. CASE ~Has(s, "RESOLVED") /\ o.resolve = "sent"
    <2> DEFINE p == [s EXCEPT !.sent = @ \cup {m}]
               q == Resolved(p, o)
    <2>1. Mild(s, p) /\ p \in TsxType
      BY <1>1, SentMild DEF Mild, Alike
    <2>2. ResolveAndSend(s, m, o) = InlineResolved(q, o)
      BY <1>3 DEF ResolveAndSend
    <2> HIDE DEF p
    <2>3. Mild(p, q)
      BY <2>1, ResolvedMild
    <2> HIDE DEF q
    <2>4. Mild(s, q)
      BY <2>1, <2>3, MildTrans
    <2>5. Yields(q, InlineResolved(q, o))
      BY <2>4, MildReady, InlineResolvedYields
    <2> QED
      BY <2>2, <2>4, <2>5, MildYields
  <1>4. CASE ~Has(s, "RESOLVED") /\ o.resolve = "pending"
    <2> DEFINE p == WithSent(Raise(s, "TRANSPORT"), s.sent \cup {m}, s.refs + 1)
               r == WithSend(p, s.direct, s.resolving \cup {m}, m)
    <2>1. ResolveAndSend(s, m, o) = WithResolving(s, m)
      BY <1>4 DEF ResolveAndSend, WithResolving
    <2>2. WithResolving(s, m) = r
      BY <1>1 DEF WithResolving, WithSend, WithSent, Raise, TsxType
    <2>3. /\ s.sent \cup {m} \in SUBSET Messages /\ s.direct \in SUBSET Messages
          /\ s.resolving \cup {m} \in SUBSET Messages /\ s.refs + 1 \in Int
      BY <1>1 DEF TsxType
    <2>4. Mild(s, r)
      BY <1>1, <2>3, SendMild
    <2> QED
      BY <2>1, <2>2, <2>4 DEF Yields
  <1>5. CASE ~Has(s, "RESOLVED") /\ o.resolve = "failed"
    <2> DEFINE q == ResolveFailed(s)
    <2>1. Mild(s, q) /\ q.status_code >= 200
      BY <1>1, ResolveFailedMild
    <2>2. ResolveAndSend(s, m, o) = InlineFailed(q)
      BY <1>5 DEF ResolveAndSend
    <2> HIDE DEF q
    <2>3. Yields(q, InlineFailed(q))
      BY <2>1, MildReady, InlineFailedYields
    <2> QED
      BY <2>1, <2>2, <2>3, MildYields
  <1> QED
    BY <1>2, <1>3, <1>4, <1>5, OutcomeTypes, ConfigAssumption

\* A send leaves the transaction where it is, or ends it.
LEMMA SendMsgYields ==
    ASSUME NEW s, NEW m \in Messages \cup {NoMsg}, NEW o \in Outcomes, Ready(s)
    PROVE  Yields(s, SendMsg(s, m, o))
  <1>1. s \in TsxType /\ ~s.terminating
    BY DEF Ready
  <1>2. CASE m = NoMsg
    BY <1>1, <1>2, CheckMild DEF SendMsg, Asserts, Yields
  <1>3. CASE m # NoMsg /\ Has(s, "TRANSPORT")
    <2>1. Mild(s, Raise(s, "SEND"))
      BY <1>1, RaiseAlike, FlagNames
    <2> QED
      BY <1>3, <2>1 DEF SendMsg, Yields
  <1>4. CASE m # NoMsg /\ ~Has(s, "TRANSPORT") /\ m \in s.direct
    BY <1>1, <1>4, MildItself DEF SendMsg, Yields
  <1>5. CASE m # NoMsg /\ ~Has(s, "TRANSPORT") /\ m \notin s.direct /\ ~s.transport
    <2> DEFINE q == Check(s, "unexpected_status", ~Has(s, "RESOLVED"))
    <2>1. Mild(s, q)
      BY <1>1, CheckMild DEF Asserts
    <2>2. SendMsg(s, m, o) = ResolveAndSend(q, m, o)
      BY <1>5 DEF SendMsg
    <2> HIDE DEF q
    <2>3. Yields(q, ResolveAndSend(q, m, o))
      BY <1>5, <2>1, MildReady, ResolveAndSendYields
    <2> QED
      BY <2>1, <2>2, <2>3, MildYields
  <1>6. CASE m # NoMsg /\ ~Has(s, "TRANSPORT") /\ m \notin s.direct /\ s.transport
    <2> DEFINE q == DirectSend(s, m, o.direct)
    <2>1. Mild(s, q)
      BY <1>1, <1>6, DirectSendMild, OutcomeTypes
    <2>2. SendMsg(s, m, o) \in {q, ResolveAndSend(q, m, o)}
      BY <1>6 DEF SendMsg
    <2> HIDE DEF q
    <2>3. Yields(q, ResolveAndSend(q, m, o))
      BY <1>6, <2>1, MildReady, ResolveAndSendYields
    <2> QED
      BY <2>1, <2>2, <2>3, MildYields DEF Yields
  <1> QED
    BY <1>2, <1>3, <1>4, <1>5, <1>6

\* What a completion callback does may also be what destroys, for the second
\* time, a transaction that was waiting for it.
LEMMA AfterSentCalms ==
    ASSUME NEW s, NEW o \in Outcomes, Calm(s)
    PROVE  Calms(s, AfterSent(s, o))
  <1> DEFINE q == Clear(s, "SEND")
             r == IF Has(s, "SEND") THEN SendMsg(q, s.last_tx, o) ELSE s
  <1>1. s \in TsxType /\ s.last_tx \in Messages \cup {NoMsg}
    BY DEF Calm, TsxType
  <1>2. CASE Has(s, "DESTROY")
    <2>1. s.state = DESTROYED /\ s.state >= TERMINATED
      BY <1>2 DEF Calm, DESTROYED, TERMINATED
    <2> QED
      BY <1>2, <2>1, SetStateDestroyed DEF AfterSent
  <1>3. CASE ~Has(s, "DESTROY")
    <2>1. Mild(s, q)
      BY <1>1, ClearMild, FlagNames
    <2> HIDE DEF q
    <2>2. Yields(s, r)
      <3>1. CASE ~Has(s, "SEND")
        BY <1>1, <3>1, MildItself DEF Yields
      <3>2. CASE Has(s, "SEND")
        <4>1. Ready(s)
          BY <3>2, CalmReady DEF Calm
        <4>2. Yields(q, SendMsg(q, s.last_tx, o))
          BY <1>1, <2>1, <4>1, MildReady, SendMsgYields
        <4> QED
          BY <2>1, <3>2, <4>2, MildYields
      <3> QED
        BY <3>1, <3>2
    <2>3. AfterSent(s, o) = DoPendingResched(r)
      BY <1>3 DEF AfterSent, q
    <2> HIDE DEF r
    <2>4. Mild(r, DoPendingResched(r))
      BY <2>2, YieldsType, PendingReschedMild
    <2> QED
      BY <2>2, <2>3, <2>4, YieldsMild, YieldsCalms
  <1> QED
    BY <1>2, <1>3

-----------------------------------------------------------------------------
(* Retransmission.                                                         *)

\* As Yields, but a retransmission may have been asked for.
Loud(s, r) == (Alike(s, r) /\ Winds(s, r)) \/ Over(s, r)

LEMMA YieldsLoud ==
    ASSUME NEW s, NEW r, Yields(s, r)
    PROVE  Loud(s, r)
  BY DEF Yields, Loud, Mild

LEMMA AlikeYieldsLoud ==
    ASSUME NEW s, NEW q, NEW r, Alike(s, q), Winds(s, q), Yields(q, r)
    PROVE  Loud(s, r)
  <1>1. CASE Mild(q, r)
    BY <1>1, AlikeTrans DEF Mild, Winds, Loud
  <1>2. CASE Over(q, r)
    BY <1>2 DEF Over, Alike, Loud
  <1> QED
    BY <1>1, <1>2 DEF Yields

LEMMA LoudCalms ==
    ASSUME NEW s, NEW r, Calm(s), ~AnsweredInvite(s), Loud(s, r)
    PROVE  Calms(s, r)
  BY AlikeCalms, OverCalms DEF Loud

LEMMA RetransmitLoud ==
    ASSUME NEW s, NEW resched \in BOOLEAN, NEW o \in Outcomes, Ready(s)
    PROVE  /\ Loud(s, Retransmit(s, resched, o))
           /\ ~resched => Yields(s, Retransmit(s, resched, o))
  <1> DEFINE c == Check(s, "retransmit_confirmed", s.state # CONFIRMED)
             p == Raise(c, "RESCHED")
             q == ReschedRetransmission(c)
             r == IF Has(c, "TRANSPORT") THEN p ELSE q
  <1>1. s \in TsxType /\ s.last_tx \in Messages \cup {NoMsg}
    BY DEF Ready, TsxType
  <1>2. Yields(s, s) /\ Yields(s, Check(s, "last_tx", FALSE))
    BY <1>1, MildItself, CheckMild DEF Yields, Asserts
  <1>3. Yields(s, SendMsg(s, s.last_tx, o))
    BY <1>1, SendMsgYields
  <1>4. Loud(s, SendMsg(r, r.last_tx, o))
    <2>1. Mild(s, c) /\ c \in TsxType
      BY <1>1, CheckMild DEF Asserts, Mild, Alike
    <2> HIDE DEF c
    <2>2. Alike(c, p) /\ Winds(c, p) /\ Alike(c, q) /\ Winds(c, q)
      BY <2>1, RaiseAlike, FlagNames, ReschedAlike
    <2>3. Alike(c, r) /\ Winds(c, r)
      BY <2>2
    <2> HIDE DEF r
    <2>4. Alike(s, r) /\ Winds(s, r) /\ r \in TsxType
      BY <2>1, <2>3, AlikeTrans DEF Mild, Winds, Alike
    <2>5. r.last_tx \in Messages \cup {NoMsg}
      BY <2>4 DEF TsxType
    <2>6. Yields(r, SendMsg(r, r.last_tx, o))
      BY <2>4, <2>5, AlikeReady, SendMsgYields
    <2> QED
      BY <2>4, <2>6, AlikeYieldsLoud
  <1>5. Retransmit(s, resched, o) \in
            {s, Check(s, "last_tx", FALSE), SendMsg(s, s.last_tx, o)}
        \/ (resched /\ Retransmit(s, resched, o) = SendMsg(r, r.last_tx, o))
    BY DEF Retransmit
  <1> HIDE DEF r
  <1> QED
    BY <1>2, <1>3, <1>4, <1>5, YieldsLoud

LEMMA OnRetransmitTimerCalms ==
    ASSUME NEW s, NEW o \in Outcomes, Calm(s), ~AnsweredInvite(s)
    PROVE  Calms(s, OnRetransmitTimer(s, o))
  <1>1. s \in TsxType /\ TRUE \in BOOLEAN
    BY DEF Calm
  <1>2. Calms(s, s)
    BY <1>1, MildItself, MildCalms
  <1>3. CASE s.state = TERMINATED
    <2>1. Calms(s, SetState(s, DESTROYED))
      BY <1>3, SetStateDestroyed, StateNumbers
    <2> QED
      BY <1>3, <2>1 DEF OnRetransmitTimer, CALLING, PROCEEDING, COMPLETED, TERMINATED
  <1>4. ASSUME s.state # TERMINATED, s.state # DESTROYED
        PROVE  Calms(s, OnRetransmitTimer(s, o))
    <2> DEFINE q == Check(s, "proceeding_pending", ~Has(s, "TRANSPORT"))
    <2>1. Ready(s)
      BY <1>4, CalmReady
    <2>2. Calms(s, Retransmit(s, TRUE, o))
      BY <1>1, <2>1, RetransmitLoud, LoudCalms
    <2>3. Mild(s, q)
      BY <1>1, CheckMild DEF Asserts
    <2> HIDE DEF q
    <2>4. Loud(q, Retransmit(q, TRUE, o))
      BY <1>1, <2>1, <2>3, MildReady, RetransmitLoud
    <2>5. Loud(s, Retransmit(q, TRUE, o))
      <3>1. CASE Over(q, Retransmit(q, TRUE, o))
        BY <2>3, <3>1 DEF Over, Mild, Alike, Loud
      <3>2. CASE Alike(q, Retransmit(q, TRUE, o)) /\ Winds(q, Retransmit(q, TRUE, o))
        BY <2>3, <3>2, AlikeTrans DEF Mild, Winds, Loud
      <3> QED
        BY <2>4, <3>1, <3>2 DEF Loud
    <2>6. OnRetransmitTimer(s, o) \in {s, Retransmit(s, TRUE, o), Retransmit(q, TRUE, o)}
      BY <1>4 DEF OnRetransmitTimer, q, CALLING, PROCEEDING, COMPLETED
    <2> QED
      BY <1>2, <2>2, <2>5, <2>6, LoudCalms
  <1>5. CASE s.state = DESTROYED
    BY <1>2, <1>5 DEF OnRetransmitTimer, CALLING, PROCEEDING, COMPLETED, TERMINATED, DESTROYED
  <1> QED
    BY <1>3, <1>4, <1>5

-----------------------------------------------------------------------------
(* The state handlers.                                                     *)

\* A handler's tsx_set_state to a state before the end.
LEMMA AheadSteps ==
    ASSUME NEW s, NEW q, NEW st \in States, Calm(s), Alike(s, q),
           s.state < TERMINATED, st < TERMINATED, st = s.state \/ Ahead(s, st),
           s.role = "UAS" /\ st >= COMPLETED => q.status_code >= 200,
           st = CALLING => s.role = "UAC",
           s.role = "UAC" /\ s.method = "INVITE" /\ st \in {PROCEEDING, COMPLETED} => Muted(q)
    PROVE  LET r == SetState(q, st)
           IN  Steps(s, r) /\ r.heap = q.heap /\ r.state = st /\ r \in TsxType
  <1> DEFINE r == SetState(q, st)
  <1>1. s.state # DESTROYED /\ q \in TsxType /\ ~Has(q, "DESTROY") /\ ~q.terminating
    BY DEF Calm, Alike, TERMINATED, DESTROYED
  <1>2. /\ Kept(q, r) /\ r.state = st /\ r.told = st /\ r.terminations = q.terminations
    BY <1>1, SetStateKept
  <1> HIDE DEF r
  <1>3. st \in Int /\ ~(st >= TERMINATED) /\ st # DESTROYED
    BY DEF States, NULL, DESTROYED, TERMINATED
  <1>4. Calm(r)
    BY <1>1, <1>2, <1>3 DEF Kept, Calm, Alike, AnsweredInvite, Muted, Has
  <1>5. Steps(s, r)
    BY <1>2, <1>4 DEF Steps, Kept, Alike, Moved
  <1> QED
    BY <1>2, <1>5 DEF r, Kept

LEMMA StepsMild ==
    ASSUME NEW s, NEW q, NEW r, Steps(s, q), Mild(q, r)
    PROVE  Steps(s, r)
  BY AlikeCalm DEF Steps, Mild, Mutes, Calm, Alike, AnsweredInvite

LEMMA TimedCalms ==
    ASSUME NEW s, NEW r, Steps(s, r), r.heap["timeout"]
    PROVE  Calms(s, r)
  BY DEF Calms, Wound

LEMMA EasyCalms ==
    ASSUME NEW s, NEW r, Steps(s, r), ~NeedsTimer(r)
    PROVE  Calms(s, r)
  BY DEF Calms, Wound

LEMMA OnRequestCalms ==
    ASSUME NEW s, NEW o \in Outcomes, Calm(s), s.role = "UAS"
    PROVE  Calms(s, OnRequest(s, o))
  <1>1. s \in TsxType /\ s.last_tx \in Messages \cup {NoMsg} /\ FALSE \in BOOLEAN
    BY DEF Calm, TsxType
  <1>2. Calms(s, s) /\ Alike(s, s)
    BY <1>1, MildItself, MildCalms
  <1>3. CASE s.state = NULL
    <2> DEFINE r == SetState(s, TRYING)
    <2>1. /\ TRYING \in States /\ s.state < TERMINATED /\ TRYING < TERMINATED
          /\ ~(TRYING >= COMPLETED) /\ TRYING # CALLING /\ TRYING \notin {PROCEEDING, COMPLETED}
      BY <1>3, StateNumbers DEF NULL, TRYING, CALLING, COMPLETED, TERMINATED, PROCEEDING
    <2>2. Ahead(s, TRYING)
      BY <1>3 DEF Ahead
    <2>3. Steps(s, r) /\ r.state = TRYING
      BY <1>2, <2>1, <2>2, AheadSteps
    <2>33. NULL # PROCEEDING /\ NULL # COMPLETED
      BY DEF NULL, PROCEEDING, COMPLETED
    <2>4. OnRequest(s, o) = r
      BY <1>3, <2>33, Zenon DEF OnRequest
    <2> HIDE DEF r
    <2>5. ~NeedsTimer(r)
      BY <2>3 DEF NeedsTimer, TRYING, CALLING, PROCEEDING, COMPLETED, CONFIRMED, TERMINATED
    <2> QED
      BY <2>3, <2>4, <2>5, EasyCalms
  <1>4. ASSUME s.state \in {PROCEEDING, COMPLETED}
        PROVE  Calms(s, OnRequest(s, o))
    <2>1. Ready(s)
      BY <1>4, CalmReady DEF PROCEEDING, COMPLETED, DESTROYED
    <2>2. Yields(s, SendMsg(s, s.last_tx, o)) /\ Yields(s, Retransmit(s, FALSE, o))
      BY <1>1, <2>1, SendMsgYields, RetransmitLoud
    <2>3. NULL # PROCEEDING /\ NULL # COMPLETED /\ PROCEEDING # COMPLETED
      BY DEF NULL, PROCEEDING, COMPLETED
    <2>4. CASE s.state = PROCEEDING
      <3>1. OnRequest(s, o) = SendMsg(s, s.last_tx, o)
        BY <2>3, <2>4, Zenon DEF OnRequest
      <3> QED
        BY <2>2, <3>1, YieldsCalms
    <2>5. CASE s.state = COMPLETED
      <3>1. OnRequest(s, o) = Retransmit(s, FALSE, o)
        BY <2>3, <2>5, Zenon DEF OnRequest
      <3> QED
        BY <2>2, <3>1, YieldsCalms
    <2> QED
      BY <1>4, <2>4, <2>5
  <1>5. CASE s.state \notin {NULL, PROCEEDING, COMPLETED}
    BY <1>2, <1>5 DEF OnRequest
  <1> QED
    BY <1>3, <1>4, <1>5

LEMMA OnAckCalms ==
    ASSUME NEW s, Calm(s), s.role = "UAS"
    PROVE  Calms(s, OnAck(s))
  <1> DEFINE p == Cancel(s, "retransmit")
             q == Clear(p, "RESCHED")
             u == Restart(q, "timeout", TIMEOUT)
             r == SetState(u, CONFIRMED)
  <1>1. s \in TsxType
    BY DEF Calm
  <1>2. CASE s.state = COMPLETED /\ s.method = "INVITE"
    <2>1. Mild(s, p) /\ p \in TsxType
      BY <1>1, CancelAlike, TimerNames DEF Mild, Alike
    <2> HIDE DEF p
    <2>2. Mild(p, q)
      BY <2>1, ClearMild, FlagNames
    <2>22. q \in TsxType
      BY <2>2 DEF Mild, Alike
    <2> HIDE DEF q
    <2>3. MildId(q, "timeout", TIMEOUT) /\ TIMEOUT \in TimerIds
      BY IdNames DEF MildId, PostedIds, TIMEOUT, ERR, DISC
    <2>4. Mild(q, u) /\ u.heap["timeout"]
      BY <2>22, <2>3, RestartMild
    <2>5. Alike(s, u)
      BY <2>1, <2>2, <2>4, MildTrans DEF Mild
    <2> HIDE DEF u
    <2>6. u.status_code >= 200
      BY <1>2, <2>5 DEF Alike, Calm, COMPLETED
    <2>66. /\ CONFIRMED \in States /\ s.state < TERMINATED /\ CONFIRMED < TERMINATED
           /\ CONFIRMED # CALLING /\ CONFIRMED \notin {PROCEEDING, COMPLETED}
      BY <1>2, StateNumbers DEF CONFIRMED, CALLING, COMPLETED, TERMINATED, PROCEEDING
    <2>67. Ahead(s, CONFIRMED)
      BY <1>2 DEF Ahead
    <2>7. Steps(s, r) /\ r.heap = u.heap
      BY <2>5, <2>6, <2>66, <2>67, AheadSteps
    <2>8. OnAck(s) = r
      BY <1>2 DEF OnAck, p, q, u
    <2> HIDE DEF r
    <2> QED
      BY <2>4, <2>7, <2>8, TimedCalms
  <1>3. CASE ~(s.state = COMPLETED /\ s.method = "INVITE")
    BY <1>1, <1>3, MildItself, MildCalms DEF OnAck
  <1> QED
    BY <1>2, <1>3

LEMMA CallingResponseAlike ==
    ASSUME NEW s \in TsxType, NEW c
    PROVE  LET r == CallingResponse(s, c)
           IN  /\ Alike(s, r)
               /\ s.method = "INVITE" => Muted(r)
               /\ s.method # "INVITE" /\ ~(c >= 200) => Winds(s, r)
  <1> DEFINE q == Cancel(s, "retransmit")
             d == Cancel(q, "timeout")
             e == Schedule(q, "retransmit", RETRANSMIT)
             t == IF c >= 200
                  THEN IF q.id["timeout"] # INACTIVE THEN d ELSE q
                  ELSE IF s.method = "INVITE" THEN d
                  ELSE IF q.is_reliable THEN q ELSE e
             r == Clear(t, "RESCHED")
  <1>1. Mild(s, q) /\ q \in TsxType /\ ~q.heap["retransmit"]
    BY CancelAlike, TimerNames DEF Mild, Alike
  <1>2. CallingResponse(s, c) = r
    BY DEF CallingResponse
  <1> HIDE DEF q
  <1>3. Alike(q, d) /\ (~q.heap["retransmit"] => ~d.heap["retransmit"])
    <2>1. Alike(q, d) /\ d.heap["retransmit"] = q.heap["retransmit"]
      BY <1>1, CancelAlike, TimerNames DEF Cancel, TsxType
    <2> QED
      BY <2>1
  <1>4. MildId(q, "retransmit", RETRANSMIT)
    BY DEF MildId
  <1>5. Alike(q, e) /\ Winds(q, e)
    BY <1>1, <1>4, ScheduleAlike, TimerNames, IdNames
  <1>6. Alike(q, q) /\ Winds(q, q)
    BY <1>1, MildItself DEF Mild
  <1> HIDE DEF d, e
  <1>7. /\ Alike(q, t)
        /\ s.method = "INVITE" => ~t.heap["retransmit"]
        /\ s.method # "INVITE" /\ ~(c >= 200) => Winds(q, t)
    BY <1>1, <1>3, <1>5, <1>6
  <1> HIDE DEF t
  <1>8. Alike(s, t) /\ t \in TsxType
    BY <1>1, <1>7, AlikeTrans DEF Mild, Alike
  <1>9. Mild(t, r) /\ ~Has(r, "RESCHED") /\ r.heap = t.heap
    BY <1>8, ClearMild, FlagNames
  <1> HIDE DEF r
  <1>10. Alike(s, r)
    BY <1>8, <1>9, AlikeTrans DEF Mild
  <1> QED
    BY <1>1, <1>2, <1>7, <1>9, <1>10 DEF Muted, Mild, Winds


LEMMA AlikeOver ==
    ASSUME NEW s, NEW q, NEW r, Alike(s, q), Over(q, r)
    PROVE  Over(s, r)
  BY DEF Alike, Over

LEMMA ResponseCodes ==
    ASSUME NEW method, NEW c \in Responses(method)
    PROVE  /\ c \in Codes /\ c \in Messages /\ c \in Int /\ c > 0
           /\ c < 200 \/ c = 200 \/ c >= 300
           /\ ~(c < 200) => c >= 200
  BY DEF Responses, Codes, Messages, Provisional, Final

LEMMA ProceedingUacCalms ==
    ASSUME NEW s, NEW q, NEW c, NEW o \in Outcomes, c \in Responses(s.method),
           Calm(s), s.role = "UAC", s.state \in {CALLING, PROCEEDING}, Alike(s, q),
           s.method = "INVITE" => Muted(q),
           s.method # "INVITE" /\ ~(c >= 200) => Winds(s, q)
    PROVE  Calms(s, ProceedingUac(q, c, o))
  <1>1. /\ s.state < TERMINATED /\ s.state # DESTROYED /\ s.state # TERMINATED
        /\ PROCEEDING < TERMINATED /\ COMPLETED < TERMINATED
        /\ PROCEEDING # CALLING /\ COMPLETED # CALLING
        /\ s.state = PROCEEDING \/ Ahead(s, PROCEEDING)
        /\ Ahead(s, COMPLETED)
        /\ PROCEEDING \in States /\ COMPLETED \in States
    BY StateNumbers DEF Ahead, CALLING, PROCEEDING, COMPLETED, TERMINATED, DESTROYED
  <1>2. /\ q \in TsxType /\ q.role = "UAC" /\ q.method = s.method /\ Ready(s)
        /\ ~(s.role = "UAS") /\ s \in TsxType
    BY <1>1, CalmReady DEF Alike, Calm
  <1>3. c \in Int /\ c \in Codes /\ (c < 200 \/ c = 200 \/ c >= 300)
    BY ResponseCodes
  <1>33. (c < 200 => ~(c = 200) /\ ~(c >= 300)) /\ (c = 200 => ~(c < 200) /\ ~(c >= 300))
            /\ (c >= 300 => ~(c = 200) /\ ~(c < 200))
    BY <1>3
  <1>4. CASE c < 200
    <2> DEFINE r == SetState(q, PROCEEDING)
    <2>1. Steps(s, r) /\ r.heap = q.heap /\ r.state = PROCEEDING
      BY <1>1, <1>2, AheadSteps
    <2>2. ProceedingUac(q, c, o) = r
      BY <1>4, <1>33, Zenon DEF ProceedingUac
    <2> HIDE DEF r
    <2>3. Wound(s) => Wound(r)
      <3>1. ~(c >= 200)
        BY <1>3, <1>4
      <3>2. NeedsTimer(r) => NeedsTimer(s) /\ s.method # "INVITE"
        BY <1>1, <2>1 DEF NeedsTimer, Steps, CALLING, COMPLETED, CONFIRMED, TERMINATED, PROCEEDING
      <3> QED
        BY <2>1, <3>1, <3>2 DEF Wound, Winds
    <2> QED
      BY <2>1, <2>2, <2>3 DEF Calms
  <1>5. CASE c = 200 /\ s.method = "INVITE"
    <2> DEFINE p == Cancel(q, "timeout")
               r == SetState(p, TERMINATED)
    <2>1. Alike(q, p)
      BY <1>2, CancelAlike, TimerNames
    <2>2. ProceedingUac(q, c, o) = r
      BY <1>2, <1>5, <1>33, Zenon DEF ProceedingUac
    <2> HIDE DEF p
    <2>3. Alike(s, p)
      BY <2>1, AlikeTrans
    <2>4. p.role = "UAC"
      BY <1>2, <2>3 DEF Alike
    <2>5. Over(s, r)
      BY <1>2, <2>3, <2>4, AlikeReady, SetStateOver, AlikeOver
    <2> QED
      BY <2>2, <2>5, OverCalms
  <1>6. CASE c = 200 /\ s.method # "INVITE"
    <2> DEFINE a == Restart(q, "timeout", TIMEOUT)
               p == Cancel(a, "retransmit")
               r == SetState(p, COMPLETED)
    <2>1. MildId(q, "timeout", TIMEOUT) /\ TIMEOUT \in TimerIds
      BY IdNames DEF MildId, PostedIds, TIMEOUT, ERR, DISC
    <2>2. Mild(q, a) /\ a.heap["timeout"]
      BY <1>2, <2>1, RestartMild
    <2>3. ProceedingUac(q, c, o) = r
      BY <1>2, <1>6, <1>33, Zenon DEF ProceedingUac
    <2> HIDE DEF a
    <2>4. a \in TsxType
      BY <2>2 DEF Mild, Alike
    <2>5. Alike(a, p) /\ p.heap["timeout"] = a.heap["timeout"]
      BY <2>4, CancelAlike, TimerNames
    <2> HIDE DEF p
    <2>6. Alike(s, p)
      BY <2>2, <2>5, AlikeTrans DEF Mild
    <2>7. Steps(s, r) /\ r.heap = p.heap
      BY <1>1, <1>2, <1>6, <2>6, AheadSteps
    <2> HIDE DEF r
    <2> QED
      BY <2>2, <2>3, <2>5, <2>7, TimedCalms
  <1>7. CASE c >= 300
    <2> DEFINE b == Cancel(q, "retransmit")
               p == Cancel(b, "timeout")
               a == IF q.method = "INVITE" THEN SendMsg(p, Ack, o) ELSE p
               r == SetState(a, COMPLETED)
               x == [r EXCEPT !.last_tx = IF q.method = "INVITE" THEN Ack ELSE @]
               y == Restart(x, "timeout", TIMEOUT)
    <2>1. ProceedingUac(q, c, o) = IF SendFailed(a) THEN a
                ELSE IF q.method = "BYE" /\ c = 481 THEN SetState(a, TERMINATED)
                ELSE y
      BY <1>7, <1>33, Zenon DEF ProceedingUac
    <2>2. Mild(q, b)
      BY <1>2, CancelAlike, TimerNames
    <2> HIDE DEF b
    <2>3. b \in TsxType
      BY <2>2 DEF Mild, Alike
    <2>4. Alike(b, p) /\ Mutes(b, p)
      BY <2>3, CancelAlike, TimerNames
    <2> HIDE DEF p
    <2>5. Alike(s, p) /\ (s.method = "INVITE" => Muted(p))
      BY <2>2, <2>4, AlikeTrans DEF Mild, Mutes
    <2>6. Ready(p) /\ p \in TsxType /\ Ack \in Messages \cup {NoMsg}
      BY <1>2, <2>5, AlikeReady DEF Ready, Messages
    <2>7. Yields(p, a)
      BY <2>6, SendMsgYields, MildItself DEF Yields
    <2> HIDE DEF a
    <2>8. CASE Over(p, a)
      <3>1. SendFailed(a)
        BY <2>8 DEF Over, SendFailed
      <3>2. Over(s, a)
        BY <2>5, <2>8, AlikeOver
      <3> QED
        BY <2>1, <3>1, <3>2, OverCalms
    <2>9. CASE Mild(p, a)
      <3>1. Alike(s, a) /\ (s.method = "INVITE" => Muted(a)) /\ a \in TsxType
        BY <2>5, <2>9, AlikeTrans DEF Mild, Mutes, Alike
      <3>2. ~SendFailed(a) /\ a.role = "UAC"
        BY <1>1, <1>2, <3>1 DEF SendFailed, Alike
      <3>3. CASE q.method = "BYE" /\ c = 481
        <4>1. Over(s, SetState(a, TERMINATED))
          BY <1>2, <3>1, <3>2, AlikeReady, SetStateOver, AlikeOver
        <4> QED
          BY <2>1, <3>2, <3>3, <4>1, OverCalms
      <3>4. CASE ~(q.method = "BYE" /\ c = 481)
        <4>1. Steps(s, r) /\ r \in TsxType
          BY <1>1, <1>2, <3>1, AheadSteps
        <4> HIDE DEF r
        <4>2. (IF q.method = "INVITE" THEN Ack ELSE r.last_tx) \in Messages \cup {NoMsg}
          BY <2>6, <4>1 DEF TsxType
        <4>3. Mild(r, x)
          BY <4>1, <4>2, LastTxMild
        <4> HIDE DEF x
        <4>4. x \in TsxType /\ MildId(x, "timeout", TIMEOUT) /\ TIMEOUT \in TimerIds
          BY <4>3, IdNames DEF Mild, Alike, MildId, PostedIds, TIMEOUT, ERR, DISC
        <4>5. Mild(x, y) /\ y.heap["timeout"]
          BY <4>4, RestartMild
        <4> HIDE DEF y
        <4>6. Steps(s, y)
          BY <4>1, <4>3, <4>5, StepsMild
        <4>7. ProceedingUac(q, c, o) = y
          BY <2>1, <3>2, <3>4
        <4> QED
          BY <4>5, <4>6, <4>7, TimedCalms
      <3> QED
        BY <3>3, <3>4
    <2> QED
      BY <2>7, <2>8, <2>9 DEF Yields
  <1> QED
    BY <1>3, <1>4, <1>5, <1>6, <1>7

LEMMA OnResponseCalms ==
    ASSUME NEW s, NEW c, NEW o \in Outcomes, c \in Responses(s.method),
           Calm(s), s.role = "UAC"
    PROVE  Calms(s, OnResponse(s, c, o))
  <1>1. /\ s \in TsxType /\ c \in Codes
        /\ CALLING # PROCEEDING /\ CALLING # COMPLETED /\ PROCEEDING # COMPLETED
        /\ COMPLETED # DESTROYED
    BY ResponseCodes DEF Calm, CALLING, PROCEEDING, COMPLETED, DESTROYED
  <1>2. CASE s.state = CALLING
    <2> DEFINE p == CallingResponse(s, c)
               q == [p EXCEPT !.status_code = c]
    <2>1. /\ Alike(s, p)
          /\ s.method = "INVITE" => Muted(p)
          /\ s.method # "INVITE" /\ ~(c >= 200) => Winds(s, p)
      BY <1>1, CallingResponseAlike
    <2>2. OnResponse(s, c, o) = ProceedingUac(q, c, o)
      BY <1>1, <1>2, Zenon DEF OnResponse
    <2> HIDE DEF p
    <2>3. p \in TsxType /\ p.role = "UAC"
      BY <2>1 DEF Alike
    <2>4. Mild(p, q)
      BY <1>1, <2>3, StatusMild
    <2> HIDE DEF q
    <2>5. /\ Alike(s, q)
          /\ s.method = "INVITE" => Muted(q)
          /\ s.method # "INVITE" /\ ~(c >= 200) => Winds(s, q)
      BY <2>1, <2>4, AlikeTrans DEF Mild, Mutes, Winds
    <2> QED
      BY <1>2, <2>2, <2>5, ProceedingUacCalms
  <1>3. CASE s.state = PROCEEDING
    <2> DEFINE q == [s EXCEPT !.status_code = c]
    <2>1. Mild(s, q)
      BY <1>1, StatusMild
    <2>2. OnResponse(s, c, o) = ProceedingUac(q, c, o)
      BY <1>1, <1>3, Zenon DEF OnResponse
    <2> HIDE DEF q
    <2>3. s.method = "INVITE" => Muted(s)
      BY <1>3 DEF Calm, AnsweredInvite
    <2>4. Alike(s, q) /\ (s.method = "INVITE" => Muted(q)) /\ Winds(s, q)
      BY <2>1, <2>3 DEF Mild, Mutes
    <2> QED
      BY <1>3, <2>2, <2>4, ProceedingUacCalms
  <1>4. CASE s.state = COMPLETED /\ s.method = "INVITE" /\ c >= 200
    <2>1. Ready(s) /\ FALSE \in BOOLEAN
      BY <1>1, <1>4, CalmReady
    <2>2. Yields(s, Retransmit(s, FALSE, o))
      BY <2>1, RetransmitLoud
    <2>3. OnResponse(s, c, o) = Retransmit(s, FALSE, o)
      BY <1>1, <1>4, Zenon DEF OnResponse
    <2> QED
      BY <2>2, <2>3, YieldsCalms
  <1>5. CASE ~(s.state = CALLING \/ s.state = PROCEEDING
                  \/ (s.state = COMPLETED /\ s.method = "INVITE" /\ c >= 200))
    <2>1. OnResponse(s, c, o) = s
      BY <1>5, Zenon DEF OnResponse
    <2> QED
      BY <1>1, <2>1, MildItself, MildCalms
  <1> QED
    BY <1>2, <1>3, <1>4, <1>5

-----------------------------------------------------------------------------
(* What the TU sends.                                                      *)

LEMMA StepsAlike ==
    ASSUME NEW s, NEW q, NEW r, Steps(s, q), Alike(q, r), AnsweredInvite(q) => Muted(r)
    PROVE  Steps(s, r)
  BY AlikeCalm DEF Steps

LEMMA StartRetransmissionSteps ==
    ASSUME NEW s, NEW q, Steps(s, q), s.role = "UAS"
    PROVE  LET r == StartRetransmission(Cancel(q, "retransmit"))
           IN  Steps(s, r) /\ r.state = q.state
  <1> DEFINE p == Cancel(q, "retransmit")
             r == StartRetransmission(p)
  <1>1. Alike(q, p)
    BY CancelAlike, TimerNames DEF Steps, Calm
  <1> HIDE DEF p
  <1>2. p \in TsxType
    BY <1>1 DEF Alike
  <1>3. Alike(p, r)
    BY <1>2, StartAlike
  <1> HIDE DEF r
  <1>4. Alike(q, r)
    BY <1>1, <1>3, AlikeTrans
  <1>5. ~AnsweredInvite(q)
    BY DEF AnsweredInvite, Steps
  <1> QED
    BY <1>4, <1>5, StepsAlike DEF p, r, Alike

LEMMA ProvisionalUasCalms ==
    ASSUME NEW s, NEW q, NEW c \in Messages, Calm(s), Alike(s, q), s.role = "UAS",
           s.state \in {TRYING, PROCEEDING}
    PROVE  Calms(s, ProvisionalUas(q, c))
  <1> DEFINE x == [q EXCEPT !.last_tx = c]
             p == SetState(x, PROCEEDING)
             r == StartRetransmission(Cancel(p, "retransmit"))
  <1>1. /\ s.state < TERMINATED /\ PROCEEDING < TERMINATED /\ PROCEEDING # CALLING
        /\ s.state = PROCEEDING \/ Ahead(s, PROCEEDING)
        /\ PROCEEDING \in States /\ ~(PROCEEDING >= COMPLETED)
    BY StateNumbers DEF Ahead, TRYING, CALLING, PROCEEDING, COMPLETED, TERMINATED
  <1>2. Mild(q, x)
    BY LastTxMild DEF Alike
  <1>3. ProvisionalUas(q, c) \in {p, r}
    BY DEF ProvisionalUas
  <1> HIDE DEF x
  <1>4. Alike(s, x)
    BY <1>2, AlikeTrans DEF Mild
  <1>5. Steps(s, p) /\ p.state = PROCEEDING
    BY <1>1, <1>4, AheadSteps
  <1> HIDE DEF p
  <1>6. Steps(s, r) /\ r.state = PROCEEDING
    BY <1>5, StartRetransmissionSteps
  <1> HIDE DEF r
  <1>7. ~NeedsTimer(p) /\ ~NeedsTimer(r)
    BY <1>5, <1>6 DEF NeedsTimer, Steps, CALLING, PROCEEDING, COMPLETED, CONFIRMED, TERMINATED
  <1> QED
    BY <1>3, <1>5, <1>6, <1>7, EasyCalms

LEMMA CompleteUasCalms ==
    ASSUME NEW s, NEW q, NEW c \in Messages, NEW disc \in BOOLEAN, Calm(s), Alike(s, q),
           s.role = "UAS", s.state \in {TRYING, PROCEEDING}, q.status_code >= 200
    PROVE  Calms(s, CompleteUas(q, c, disc))
  <1> DEFINE b == Cancel(q, "retransmit")
             a == IF q.method = "INVITE" /\ (c = 200 \/ ~q.is_reliable)
                  THEN StartRetransmission(b) ELSE b
             x == [a EXCEPT !.last_tx = c]
             t == Restart(x, "timeout", TIMEOUT)
             d == IF disc /\ t.transport THEN Post(t, DISC) ELSE t
  <1>1. /\ s.state < TERMINATED /\ s.state < COMPLETED /\ s.state # DESTROYED
        /\ COMPLETED < TERMINATED /\ COMPLETED # CALLING
        /\ Ahead(s, COMPLETED) /\ COMPLETED \in States
    BY StateNumbers DEF Ahead, TRYING, CALLING, PROCEEDING, COMPLETED, TERMINATED, DESTROYED
  <1>2. CompleteUas(q, c, disc) \in {SetState(b, TERMINATED), SetState(d, COMPLETED)}
    BY DEF CompleteUas
  <1>3. Alike(q, b)
    BY CancelAlike, TimerNames DEF Alike
  <1> HIDE DEF b
  <1>4. b \in TsxType /\ Alike(s, b)
    BY <1>3, AlikeTrans DEF Alike
  <1>5. Calms(s, SetState(b, TERMINATED))
    <2>1. b.status_code >= 200
      BY <1>3 DEF Alike
    <2>2. Ready(b)
      BY <1>1, <1>4, CalmReady, AlikeReady
    <2> QED
      BY <1>4, <2>1, <2>2, SetStateOver, AlikeOver, OverCalms
  <1>6. Alike(b, a)
    BY <1>4, StartAlike, MildItself
  <1> HIDE DEF a
  <1>7. a \in TsxType
    BY <1>6 DEF Alike
  <1>8. Mild(a, x)
    BY <1>7, LastTxMild
  <1> HIDE DEF x
  <1>9. x \in TsxType /\ MildId(x, "timeout", TIMEOUT) /\ TIMEOUT \in TimerIds
    BY <1>8, IdNames DEF Mild, Alike, MildId, PostedIds, TIMEOUT, ERR, DISC
  <1>10. Mild(x, t) /\ t.heap["timeout"]
    BY <1>9, RestartMild
  <1> HIDE DEF t
  <1>11. t \in TsxType /\ DISC \in TimerIds
    BY <1>10, IdNames DEF Mild, Alike
  <1>12. Mild(t, d)
    BY <1>11, PostMild, MildItself
  <1> HIDE DEF d
  <1>13. d.heap["timeout"]
    BY <1>10, <1>12 DEF Mild, Winds
  <1>14. Alike(b, d)
    BY <1>6, <1>8, <1>10, <1>12, AlikeTrans DEF Mild
  <1>15. Alike(s, d)
    BY <1>4, <1>14, AlikeTrans
  <1>16. d.status_code >= 200
    BY <1>3, <1>14 DEF Alike
  <1>17. Steps(s, SetState(d, COMPLETED)) /\ SetState(d, COMPLETED).heap = d.heap
    BY <1>1, <1>15, <1>16, AheadSteps
  <1> QED
    BY <1>2, <1>5, <1>13, <1>17, TimedCalms

\* Steps and Calms depend on the role, the method, the state and the timer.
LEMMA CalmsFrom ==
    ASSUME NEW s, NEW q, NEW r, Calms(q, r), q.role = s.role, q.method = s.method,
           q.state = s.state, q.heap = s.heap
    PROVE  Calms(s, r)
  BY DEF Calms, Steps, Moved, Ahead, Wound, NeedsTimer

LEMMA OnSendResponseCalms ==
    ASSUME NEW s, NEW c, NEW o \in Outcomes, NEW disc \in BOOLEAN,
           c \in Responses(s.method), Calm(s), s.role = "UAS",
           s.state \in {TRYING, PROCEEDING}
    PROVE  Calms(s, OnSendResponse(s, c, o, disc))
  <1> DEFINE tx == IF s.last_tx = c THEN s.last_tx ELSE NoMsg
             p == [s EXCEPT !.status_code = c, !.last_tx = tx]
             r == SendMsg(p, c, o)
  <1>1. OnSendResponse(s, c, o, disc) =
            IF SendFailed(r) THEN r
            ELSE IF c < 200 THEN ProvisionalUas(r, c)
            ELSE CompleteUas(r, c, disc)
    BY DEF OnSendResponse
  <1>2. /\ c \in Codes /\ c \in Messages /\ c \in Messages \cup {NoMsg}
        /\ ~(c < 200) => c >= 200
    BY ResponseCodes
  <1>3. s \in TsxType /\ tx \in Messages \cup {NoMsg}
    BY DEF Calm, TsxType
  <1>4. ~(s.state >= COMPLETED) /\ s.state # DESTROYED /\ s.state # TERMINATED
    BY DEF TRYING, PROCEEDING, COMPLETED, DESTROYED, TERMINATED
  <1> HIDE DEF tx
  <1>5. /\ p \in TsxType
        /\ p.role = s.role /\ p.method = s.method
        /\ p.state = s.state /\ p.told = s.told
        /\ p.terminating = s.terminating /\ p.terminations = s.terminations
        /\ p.transport_flag = s.transport_flag
        /\ p.heap = s.heap /\ p.id = s.id
        /\ p.status_code = c
    BY <1>2, <1>3 DEF TsxType
  <1> HIDE DEF p
  <1>6. Calm(p)
    BY <1>4, <1>5 DEF Calm, AnsweredInvite, Muted, Has
  <1>7. Yields(p, r)
    BY <1>2, <1>4, <1>5, <1>6, CalmReady, SendMsgYields
  <1> HIDE DEF r
  <1>8. Calms(p, OnSendResponse(s, c, o, disc))
    <2>1. CASE Over(p, r)
      <3>1. SendFailed(r)
        BY <2>1 DEF Over, SendFailed
      <3> QED
        BY <1>1, <1>6, <2>1, <3>1, OverCalms
    <2>2. CASE Mild(p, r)
      <3>1. ~SendFailed(r)
        BY <1>4, <1>5, <2>2 DEF SendFailed, Mild, Alike
      <3>2. CASE c < 200
        BY <1>1, <1>2, <1>5, <1>6, <2>2, <3>1, <3>2, ProvisionalUasCalms DEF Mild
      <3>3. CASE ~(c < 200)
        <4>1. r.status_code >= 200
          BY <1>2, <1>5, <2>2, <3>3 DEF Mild, Alike
        <4> QED
          BY <1>1, <1>2, <1>5, <1>6, <2>2, <3>1, <3>3, <4>1, CompleteUasCalms DEF Mild
      <3> QED
        BY <3>2, <3>3
    <2> QED
      BY <1>7, <2>1, <2>2 DEF Yields
  <1> QED
    BY <1>5, <1>8, CalmsFrom

LEMMA OnSendRequestCalms ==
    ASSUME NEW s, NEW o \in Outcomes, Calm(s), s.role = "UAC", s.state = NULL
    PROVE  Calms(s, OnSendRequest(s, o))
  <1> DEFINE r == SendMsg(s, Request, o)
             t == Restart(r, "timeout", TIMEOUT)
             d == IF t.is_reliable THEN t ELSE StartRetransmission(t)
  <1>1. /\ s.state < TERMINATED /\ s.state # DESTROYED /\ s.state # TERMINATED
        /\ CALLING < TERMINATED /\ ~(CALLING \in {PROCEEDING, COMPLETED})
        /\ Ahead(s, CALLING) /\ CALLING \in States /\ ~(s.role = "UAS")
    BY StateNumbers DEF Ahead, NULL, CALLING, PROCEEDING, COMPLETED, TERMINATED, DESTROYED
  <1>2. OnSendRequest(s, o) = IF SendFailed(r) THEN r ELSE SetState(d, CALLING)
    BY DEF OnSendRequest
  <1>3. Yields(s, r)
    BY <1>1, CalmReady, SendMsgYields DEF Messages
  <1> HIDE DEF r
  <1>4. CASE Over(s, r)
    <2>1. SendFailed(r)
      BY <1>4 DEF Over, SendFailed
    <2> QED
      BY <1>2, <1>4, <2>1, OverCalms
  <1>5. CASE Mild(s, r)
    <2>1. ~SendFailed(r) /\ r \in TsxType
      BY <1>1, <1>5 DEF SendFailed, Mild, Alike
    <2>2. MildId(r, "timeout", TIMEOUT) /\ TIMEOUT \in TimerIds
      BY IdNames DEF MildId, PostedIds, TIMEOUT, ERR, DISC
    <2>3. Mild(r, t) /\ t.heap["timeout"]
      BY <2>1, <2>2, RestartMild
    <2> HIDE DEF t
    <2>4. t \in TsxType
      BY <2>3 DEF Mild, Alike
    <2>5. Alike(t, d) /\ Winds(t, d)
      BY <2>4, StartAlike, MildItself DEF Mild
    <2> HIDE DEF d
    <2>6. Alike(s, d) /\ d.heap["timeout"]
      BY <1>5, <2>3, <2>5, AlikeTrans DEF Mild, Winds
    <2>7. Steps(s, SetState(d, CALLING)) /\ SetState(d, CALLING).heap = d.heap
      BY <1>1, <2>6, AheadSteps
    <2> QED
      BY <1>2, <2>1, <2>6, <2>7, TimedCalms
  <1> QED
    BY <1>3, <1>4, <1>5 DEF Yields

LEMMA TerminateCalms ==
    ASSUME NEW s, Calm(s), s.state < TERMINATED
    PROVE  Calms(s, SetState([s EXCEPT !.status_code = TimeoutCode], TERMINATED))
  <1>1. Ready(s)
    BY CalmReady DEF TERMINATED, DESTROYED
  <1> QED
    BY <1>1, FailureCode, StatusOver, OverCalms

-----------------------------------------------------------------------------
(* The invariant.                                                          *)

\* The worker is not in the middle of a tsx_set_state.  One that is about to
\* retransmit does so for no INVITE that was answered, and one that has the
\* timeout timer will start it again.
Rests(s, p) ==
    /\ Calm(s)
    /\ p.at \notin {"notify", "resume"}
    /\ p.at = "entered" => s.state < DESTROYED
    /\ p.at \in {"fired", "entered"} /\ p.timer = "retransmit" => ~AnsweredInvite(s)
    /\ Wound(s) \/ (p.at \in {"fired", "entered"} /\ p.timer = "timeout")

\* The worker has ended the transaction and is about to tell the TU, or to
\* finish the tsx_set_state that did.
Halfway(s, p) ==
    /\ s \in TsxType
    /\ p.at \in {"notify", "resume"}
    /\ p.state \in {TERMINATED, DESTROYED} /\ s.state = p.state
    /\ ~s.terminating /\ ~Has(s, "DESTROY")
    /\ p.at = "resume" => s.told = s.state /\ s.terminations >= 1
    /\ p.state = DESTROYED => s.terminations >= 1 /\ s.id["timeout"] \notin PostedIds
    /\ s.role = "UAS" => s.status_code >= 200
    /\ p.id \in PostedIds =>
           /\ p.state = TERMINATED
           /\ s.heap["timeout"] => s.id["timeout"] \notin PostedIds

\* RInv accounts for the references, which say that what a worker is in the
\* middle of is not freed.
SInv ==
    /\ RInv
    /\ \A w \in Workers : Rests(tsx, pc[w]) \/ Halfway(tsx, pc[w])

\* A step of TransactionFsm, or none.
Links(s, r) ==
    /\ r.role = s.role /\ r.method = s.method
    /\ \/ r.state = s.state /\ r.told = s.told
       \/ s.told = s.state /\ Ahead(s, r.state) /\ r.told = r.state
       \/ /\ s.told = s.state /\ s.state < TERMINATED
          /\ r.state = TERMINATED /\ r.told \in {s.state, TERMINATED}
       \/ /\ s.told = s.state /\ s.state = TERMINATED
          /\ r.state = DESTROYED /\ r.told \in {s.state, DESTROYED}
       \/ s.told # s.state /\ r.state = s.state /\ r.told = s.state

\* What the steps below do, w being the only worker.
Goes(w) ==
    /\ Links(tsx, tsx')
    /\ Rests(tsx', pc'[w]) \/ Halfway(tsx', pc'[w])

LEMMA StepsLinks ==
    ASSUME NEW s, NEW r, Calm(s), Steps(s, r)
    PROVE  Links(s, r)
  BY DEF Calm, Steps, Moved, Links

LEMMA AlikeLinks ==
    ASSUME NEW s, NEW r, Alike(s, r)
    PROVE  Links(s, r)
  BY DEF Alike, Links

LEMMA LinksAlike ==
    ASSUME NEW s, NEW q, NEW r, Links(s, q), Alike(q, r)
    PROVE  Links(s, r)
  BY DEF Alike, Links

LEMMA AlikeLinksOn ==
    ASSUME NEW s, NEW q, NEW r, Alike(s, q), Links(q, r)
    PROVE  Links(s, r)
  BY DEF Alike, Links, Ahead

LEMMA MildThenCalms ==
    ASSUME NEW s, NEW q, NEW r, Calm(s), Mild(s, q), Calms(q, r)
    PROVE  Calms(s, r)
  <1>1. Calms(s, q)
    BY MildCalms
  <1>2. q.role = s.role /\ q.method = s.method /\ q.state = s.state
    BY DEF Mild, Alike
  <1> QED
    BY <1>1, <1>2 DEF Calms, Steps, Moved, Ahead

LEMMA RefsMild ==
    ASSUME NEW s \in TsxType
    PROVE  Mild(s, WithRefs(s, s.refs - 1))
  <1>1. Kin(s, WithRefs(s, s.refs - 1))
    BY DEF Kin, WithRefs, TsxType
  <1> QED
    BY <1>1, KinMild

LEMMA KeptMild ==
    ASSUME NEW s \in TsxType
    PROVE  Mild(s, WithKept(s, s.kept + 1))
  <1>1. Kin(s, WithKept(s, s.kept + 1))
    BY DEF Kin, WithKept, TsxType
  <1> QED
    BY <1>1, KinMild

LEMMA GotoGoes ==
    ASSUME NEW w \in Workers, NEW p, pc \in [Workers -> PcType], Goto(w, p),
           Links(tsx, tsx'), Rests(tsx', p) \/ Halfway(tsx', p)
    PROVE  Goes(w)
  <1>1. pc'[w] = p
    BY DEF Goto
  <1> QED
    BY <1>1 DEF Goes

LEMMA IdleRests ==
    ASSUME NEW s, Calm(s), Wound(s)
    PROVE  Rests(s, Idle)
  <1>1. Idle.at = "idle"
    BY PcPlaces
  <1> QED
    BY <1>1 DEF Rests

LEMMA LeaveGoes ==
    ASSUME NEW w \in Workers, NEW s, pc \in [Workers -> PcType], Leave(w, s),
           Links(tsx, s), Calm(s), Wound(s)
    PROVE  Goes(w)
  <1>1. s \in TsxType
    BY DEF Calm
  <1>2. tsx' = IF pc[w].ref THEN WithRefs(s, s.refs - 1) ELSE s
    BY DEF Leave, WithRefs
  <1>3. Mild(s, tsx')
    BY <1>1, <1>2, RefsMild, MildItself
  <1>4. Calm(tsx') /\ Wound(tsx')
    BY <1>3, MildCalms DEF Calms, Steps
  <1>5. Links(tsx, tsx')
    BY <1>3, LinksAlike DEF Mild
  <1> QED
    BY <1>4, <1>5, IdleRests, GotoGoes DEF Leave

\* As LeaveGoes, for what the callback has done to a calm record.
LEMMA CallbackGoes ==
    ASSUME NEW w \in Workers, NEW s, pc \in [Workers -> PcType], Leave(w, s),
           Calm(tsx), Wound(tsx), Calms(tsx, s)
    PROVE  Goes(w)
  BY StepsLinks, LeaveGoes DEF Calms, Steps

\* A worker that is idle is so afterwards.
LEMMA IdleGoes ==
    ASSUME NEW w \in Workers, Rests(tsx, pc[w]), IsAt(w, "idle"), Calms(tsx, tsx'), pc' = pc
    PROVE  Goes(w)
  <1>1. Calm(tsx) /\ Wound(tsx)
    BY DEF Rests, IsAt
  <1>2. Links(tsx, tsx')
    BY <1>1, StepsLinks DEF Calms
  <1> QED
    BY <1>1, <1>2 DEF Goes, Rests, Calms, Steps, IsAt

\* Whatever the worker is in, the TU may call.
LEMMA TuGoes ==
    ASSUME NEW w \in Workers, Rests(tsx, pc[w]), tsx.state < TERMINATED, Calms(tsx, tsx'),
           pc' = pc, ~AnsweredInvite(tsx) => ~AnsweredInvite(tsx')
    PROVE  Goes(w)
  <1>1. Calm(tsx) /\ Calm(tsx')
    BY DEF Rests, Calms, Steps
  <1>2. Links(tsx, tsx')
    BY <1>1, StepsLinks DEF Calms
  <1>3. tsx'.state < DESTROYED
    <2>1. tsx.state \in Int /\ tsx'.state \in Int
      BY <1>1 DEF Calm, TsxType, States, NULL, DESTROYED
    <2>2. Moved(tsx, tsx'.state) /\ tsx.state # TERMINATED
      BY <2>1 DEF Calms, Steps, TERMINATED
    <2> QED
      BY <2>1, <2>2 DEF Moved, Ahead, CALLING, TRYING, PROCEEDING, COMPLETED, CONFIRMED,
         TERMINATED, DESTROYED
  <1> QED
    BY <1>1, <1>2, <1>3 DEF Goes, Rests, Calms

\* A step that leaves the transaction where it is.
LEMMA AlikeGoes ==
    ASSUME NEW w \in Workers, Rests(tsx, pc[w]), Mild(tsx, tsx'), pc' = pc
    PROVE  Goes(w)
  <1>1. Calms(tsx, tsx') /\ Links(tsx, tsx')
    BY MildCalms, AlikeLinks DEF Rests, Mild
  <1>2. tsx'.state = tsx.state /\ (AnsweredInvite(tsx') => AnsweredInvite(tsx))
    BY DEF Mild, Alike, AnsweredInvite
  <1> QED
    BY <1>1, <1>2 DEF Goes, Rests, Calms, Steps

-----------------------------------------------------------------------------
(* The steps of the worker.                                                *)

LEMMA TimerFiresGoes ==
    ASSUME NEW w \in Workers, NEW t \in Timers, pc \in [Workers -> PcType],
           Rests(tsx, pc[w]), TimerFires(w, t)
    PROVE  Goes(w)
  <1> DEFINE h == [tsx.heap EXCEPT ![t] = FALSE]
  <1>1. /\ Calm(tsx) /\ Wound(tsx) /\ tsx \in TsxType
        /\ tsx.heap \in [Timers -> BOOLEAN] /\ tsx.heap[t] /\ FALSE \in BOOLEAN
        /\ tsx.id \in [Timers -> TimerIds] /\ tsx.refs \in Int
        /\ Goto(w, Fired(t)) /\ tsx' = [tsx EXCEPT !.heap = h]
    BY DEF TimerFires, Rests, Calm, TsxType, IsAt
  <1>2. h \in [Timers -> BOOLEAN] /\ ~h[t] /\ \A u \in Timers : u # t => h[u] = tsx.heap[u]
    BY <1>1, OneTimer
  <1>3. h["retransmit"] => tsx.heap["retransmit"]
    BY <1>1, <1>2, TimerNames
  <1>4. t # "timeout" => h["timeout"] = tsx.heap["timeout"]
    BY <1>2, TimerNames
  <1> HIDE DEF h
  <1>5. MildIds(tsx, tsx.id)
    BY DEF MildIds
  <1>6. tsx' = WithTimers(tsx, h, tsx.id, tsx.refs)
    BY <1>1, <1>2 DEF WithTimers, TsxType
  <1>7. Alike(tsx, tsx') /\ tsx'.heap = h /\ tsx'.transport_flag = tsx.transport_flag
    BY <1>1, <1>2, <1>5, <1>6, TimersAlike
  <1>8. AnsweredInvite(tsx) => Muted(tsx) /\ Muted(tsx')
    BY <1>1, <1>3, <1>7 DEF Calm, Muted, Has
  <1>9. Calm(tsx')
    BY <1>1, <1>7, <1>8, AlikeCalm
  <1>10. t # "timeout" => Wound(tsx')
    BY <1>1, <1>4, <1>7 DEF Wound, NeedsTimer, Alike
  <1>11. t = "retransmit" => ~AnsweredInvite(tsx')
    BY <1>1, <1>7, <1>8 DEF Muted, AnsweredInvite, Alike
  <1>12. Fired(t).at = "fired" /\ Fired(t).timer = t
    BY DEF Fired, Idle
  <1>13. Rests(tsx', Fired(t))
    BY <1>9, <1>10, <1>11, <1>12 DEF Rests
  <1> QED
    BY <1>1, <1>7, <1>13, AlikeLinks, GotoGoes

LEMMA EnterCallbackGoes ==
    ASSUME NEW w \in Workers, pc \in [Workers -> PcType], Rests(tsx, pc[w]), EnterCallback(w)
    PROVE  Goes(w)
  <1> DEFINE t == pc[w].timer
             i == tsx.id[t]
             g == [tsx.id EXCEPT ![t] = INACTIVE]
             s == [tsx EXCEPT !.id[t] = INACTIVE]
             j == IF i \in {ERR, DISC} THEN i ELSE TIMEOUT
  <1>1. /\ Calm(tsx) /\ tsx \in TsxType /\ t \in Timers /\ pc[w].at = "fired"
        /\ tsx.id \in [Timers -> TimerIds] /\ tsx.heap \in [Timers -> BOOLEAN]
        /\ tsx.refs \in Int /\ tsx.state \in Int /\ INACTIVE \in TimerIds
    BY IdNames DEF EnterCallback, Rests, Calm, TsxType, IsAt, PcType, States, NULL, DESTROYED
  <1>2. g \in [Timers -> TimerIds] /\ g[t] = INACTIVE /\ \A u \in Timers : u # t => g[u] = tsx.id[u]
    BY <1>1, OneTimer
  <1>3. s = WithTimers(tsx, tsx.heap, g, tsx.refs)
    BY <1>1, <1>2 DEF WithTimers, TsxType
  <1>4. MildIds(tsx, g)
    BY <1>1, <1>2, TimerNames DEF MildIds, PostedIds, INACTIVE, ERR, DISC
  <1> HIDE DEF g
  <1>5. Alike(tsx, s) /\ s.heap = tsx.heap /\ s.transport_flag = tsx.transport_flag
    BY <1>1, <1>2, <1>3, <1>4, TimersAlike
  <1>6. \/ tsx.state >= DESTROYED /\ Leave(w, tsx)
        \/ ~(tsx.state >= DESTROYED) /\ i \in PostedIds /\ tsx.state >= TERMINATED /\ Leave(w, s)
        \/ ~(tsx.state >= DESTROYED) /\ tsx' = s /\ Goto(w, Entered(t, j))
    BY DEF EnterCallback, PostedIds
  <1> HIDE DEF s, j
  <1>7. Mild(tsx, s)
    BY <1>5 DEF Mild, Mutes, Winds, Muted, Has
  <1>8. CASE tsx.state >= DESTROYED /\ Leave(w, tsx)
    <2>1. Wound(tsx)
      BY <1>1, <1>8 DEF Wound, NeedsTimer, CALLING, PROCEEDING, COMPLETED, CONFIRMED,
         TERMINATED, DESTROYED
    <2>2. Calms(tsx, tsx)
      BY <1>1, MildItself, MildCalms
    <2> QED
      BY <1>1, <1>8, <2>1, <2>2, CallbackGoes
  <1>9. CASE i \in PostedIds /\ tsx.state >= TERMINATED /\ Leave(w, s)
    <2>1. t # "timeout"
      BY <1>1, <1>9 DEF Calm
    <2>2. Wound(tsx)
      BY <2>1 DEF Rests
    <2> QED
      BY <1>1, <1>7, <1>9, <2>2, MildCalms, CallbackGoes
  <1>10. CASE ~(tsx.state >= DESTROYED) /\ tsx' = s /\ Goto(w, Entered(t, j))
    <2>1. Calm(tsx') /\ (Wound(tsx) => Wound(tsx')) /\ tsx'.state = tsx.state
            /\ (AnsweredInvite(tsx') => AnsweredInvite(tsx))
      BY <1>1, <1>7, <1>10, MildCalms DEF Calms, Steps, Mild, Alike, AnsweredInvite
    <2>2. Entered(t, j).at = "entered" /\ Entered(t, j).timer = t
      BY DEF Entered, Fired, Idle
    <2>3. tsx'.state < DESTROYED
      BY <1>1, <1>10, <2>1 DEF DESTROYED
    <2> HIDE DEF t
    <2>4. Rests(tsx', Entered(t, j))
      BY <1>1, <2>1, <2>2, <2>3 DEF Rests, t
    <2> QED
      BY <1>5, <1>10, <2>4, AlikeLinks, GotoGoes
  <1> QED
    BY <1>6, <1>8, <1>9, <1>10

LEMMA RetransmitEventGoes ==
    ASSUME NEW w \in Workers, NEW o \in Outcomes, pc \in [Workers -> PcType],
           Rests(tsx, pc[w]), RetransmitEvent(w, o)
    PROVE  Goes(w)
  <1>1. /\ pc[w].at = "entered" /\ pc[w].timer = "retransmit"
        /\ Leave(w, OnRetransmitTimer(tsx, o))
    BY DEF RetransmitEvent, IsAt
  <1>2. Calm(tsx) /\ Wound(tsx) /\ ~AnsweredInvite(tsx)
    BY <1>1 DEF Rests
  <1>3. Calms(tsx, OnRetransmitTimer(tsx, o))
    BY <1>2, OnRetransmitTimerCalms
  <1> QED
    BY <1>1, <1>2, <1>3, CallbackGoes

LEMMA TimeoutPrologueAlike ==
    ASSUME NEW s, Calm(s), s.state \in {CALLING, PROCEEDING, COMPLETED, CONFIRMED, TERMINATED}
    PROVE  LET q == TimeoutPrologue(s)
           IN  /\ Alike(s, q)
               /\ s.role = "UAS" => q.status_code >= 200
               /\ s.state = TERMINATED => q = s
  <1>1. s \in TsxType /\ "RESCHED" \in Flags
    BY FlagNames DEF Calm
  <1>2. CALLING # PROCEEDING /\ CALLING # COMPLETED /\ CALLING # CONFIRMED /\ CALLING # TERMINATED
          /\ PROCEEDING # COMPLETED /\ PROCEEDING # CONFIRMED /\ PROCEEDING # TERMINATED
          /\ COMPLETED # CONFIRMED /\ COMPLETED # TERMINATED
    BY DEF CALLING, PROCEEDING, COMPLETED, CONFIRMED, TERMINATED
  <1>3. ASSUME NEW x \in TsxType, Alike(s, x)
        PROVE  Alike(s, [x EXCEPT !.status_code = TimeoutCode])
                 /\ [x EXCEPT !.status_code = TimeoutCode].status_code >= 200
    <2>1. Mild(x, [x EXCEPT !.status_code = TimeoutCode])
      BY StatusMild, FailureCode
    <2>2. [x EXCEPT !.status_code = TimeoutCode].status_code = TimeoutCode
      BY DEF TsxType
    <2> QED
      BY <1>3, <2>1, <2>2, FailureCode, AlikeTrans DEF Mild
  <1>4. Alike(s, s)
    BY <1>1, MildItself
  <1>5. CASE s.state = CALLING
    <2> DEFINE p == Cancel(s, "retransmit")
               c == Clear(p, "RESCHED")
    <2>1. Alike(s, p)
      BY <1>1, CancelAlike, TimerNames
    <2>2. TimeoutPrologue(s) = [c EXCEPT !.status_code = TimeoutCode]
      BY <1>2, <1>5, Zenon DEF TimeoutPrologue
    <2> HIDE DEF p
    <2>3. p \in TsxType
      BY <2>1 DEF Alike
    <2>4. Mild(p, c)
      BY <1>1, <2>3, ClearMild
    <2> HIDE DEF c
    <2>5. Alike(s, c) /\ c \in TsxType
      BY <2>1, <2>4, AlikeTrans DEF Mild, Alike
    <2> QED
      BY <1>2, <1>3, <1>5, <2>2, <2>5
  <1>6. CASE s.state = PROCEEDING
    <2> DEFINE c == Check(s, "proceeding_timeout", s.role = "UAC")
    <2>1. Mild(s, c)
      BY <1>1, CheckMild DEF Asserts
    <2>2. TimeoutPrologue(s) = [c EXCEPT !.status_code = TimeoutCode]
      BY <1>2, <1>6, Zenon DEF TimeoutPrologue
    <2> HIDE DEF c
    <2>3. Alike(s, c) /\ c \in TsxType
      BY <2>1 DEF Mild, Alike
    <2> QED
      BY <1>2, <1>3, <1>6, <2>2, <2>3
  <1>7. CASE s.state = COMPLETED /\ s.role = "UAS" /\ s.method = "INVITE"
    <2>1. TimeoutPrologue(s) = [s EXCEPT !.status_code = TimeoutCode]
      BY <1>2, <1>7, Zenon DEF TimeoutPrologue
    <2> QED
      BY <1>1, <1>2, <1>3, <1>4, <1>7, <2>1
  <1>8. CASE ~(s.state = CALLING \/ s.state = PROCEEDING
                  \/ (s.state = COMPLETED /\ s.role = "UAS" /\ s.method = "INVITE"))
    <2>1. TimeoutPrologue(s) = s
      BY <1>8, Zenon DEF TimeoutPrologue
    <2>2. s.state >= COMPLETED
      BY <1>8 DEF COMPLETED, CONFIRMED, TERMINATED
    <2> QED
      BY <1>4, <2>1, <2>2 DEF Calm
  <1> QED
    BY <1>5, <1>6, <1>7, <1>8

\* What a worker leaves when it enters TERMINATED or DESTROYED and tells later.
LEMMA EnterHalfway ==
    ASSUME NEW s, NEW q, NEW st, NEW ref \in BOOLEAN, Calm(s), Alike(s, q),
           q.role = "UAS" => q.status_code >= 200,
           \/ st = TERMINATED /\ s.state <= TERMINATED
           \/ st = DESTROYED /\ s.state = TERMINATED /\ q = s
    PROVE  /\ Halfway(Enter(q, st), Notify(st, ref, TIMEOUT))
           /\ Links(s, Enter(q, st))
           /\ Enter(q, st).state = st /\ Kept(q, Enter(q, st))
  <1> DEFINE r == Enter(q, st)
             p == Notify(st, ref, TIMEOUT)
  <1>1. st \in States /\ q \in TsxType /\ st \in {TERMINATED, DESTROYED}
    BY StateNumbers DEF Alike
  <1>2. Kept(q, r) /\ r.state = st /\ r.told = q.told /\ r.terminations = q.terminations
    BY <1>1, EnterKept
  <1>3. /\ p.at = "notify" /\ p.state = st /\ p.id = TIMEOUT
        /\ TIMEOUT \notin PostedIds
    BY DEF Notify, Idle, PostedIds, TIMEOUT, ERR, DISC
  <1> HIDE DEF p, r
  <1>4. s.state \in Int /\ s.state # DESTROYED /\ (st = DESTROYED => s.state >= TERMINATED)
          /\ (s.state < TERMINATED \/ s.state = TERMINATED) /\ TERMINATED # DESTROYED
    BY DEF Calm, TsxType, States, NULL, TERMINATED, DESTROYED
  <1>5. Halfway(r, p)
    BY <1>1, <1>2, <1>3, <1>4 DEF Halfway, Kept, Alike, Calm, Has
  <1>6. Links(s, r)
    BY <1>1, <1>2, <1>4 DEF Links, Kept, Alike, Calm
  <1> QED
    BY <1>2, <1>5, <1>6 DEF p, r

LEMMA TimeoutEventGoes ==
    ASSUME NEW w \in Workers, pc \in [Workers -> PcType], Rests(tsx, pc[w]), TimeoutEvent(w)
    PROVE  Goes(w)
  <1> DEFINE st == TimeoutTarget(tsx)
             q == TimeoutPrologue(tsx)
             p == Notify(st, TRUE, TIMEOUT)
  <1>1. /\ Calm(tsx) /\ tsx \in TsxType /\ pc[w].at = "entered" /\ tsx.state < DESTROYED
        /\ tsx.state \in States /\ TRUE \in BOOLEAN
    BY DEF TimeoutEvent, Rests, Calm, TsxType, IsAt
  <1>2. \/ st = tsx.state /\ Leave(w, tsx)
        \/ st # tsx.state /\ tsx' = Enter(q, st) /\ Goto(w, p)
    BY DEF TimeoutEvent
  <1>3. CASE tsx.state \in {CALLING, PROCEEDING, COMPLETED, CONFIRMED, TERMINATED}
    <2>1. /\ tsx.state = TERMINATED => st = DESTROYED
          /\ tsx.state # TERMINATED => st = TERMINATED
          /\ st # tsx.state /\ tsx.state <= TERMINATED
      BY <1>3 DEF TimeoutTarget, CALLING, PROCEEDING, COMPLETED, CONFIRMED, TERMINATED, DESTROYED
    <2>2. /\ Alike(tsx, q) /\ (tsx.role = "UAS" => q.status_code >= 200)
          /\ tsx.state = TERMINATED => q = tsx
      BY <1>1, <1>3, TimeoutPrologueAlike
    <2> HIDE DEF st, q
    <2>3. q.role = tsx.role
      BY <2>2 DEF Alike
    <2>4. Halfway(Enter(q, st), p) /\ Links(tsx, Enter(q, st))
      BY <1>1, <2>1, <2>2, <2>3, EnterHalfway
    <2> HIDE DEF p
    <2> QED
      BY <1>2, <2>1, <2>4, GotoGoes
  <1>4. CASE tsx.state \in {NULL, TRYING}
    <2>1. st = tsx.state /\ Wound(tsx)
      BY <1>4 DEF TimeoutTarget, Wound, NeedsTimer, NULL, TRYING, CALLING, PROCEEDING, COMPLETED,
         CONFIRMED, TERMINATED
    <2>2. Calms(tsx, tsx)
      BY <1>1, MildItself, MildCalms
    <2> QED
      BY <1>1, <1>2, <2>1, <2>2, CallbackGoes
  <1> QED
    BY <1>1, <1>3, <1>4 DEF States, NULL, TRYING, CALLING, PROCEEDING, COMPLETED, CONFIRMED,
       TERMINATED, DESTROYED

\* The record of a posted event, detached and without a timer.
LEMMA PostedHalfway ==
    ASSUME NEW s, NEW c, NEW i \in PostedIds, Calm(s), s.state <= TERMINATED, Alike(s, c),
           c.role = "UAS" => c.status_code >= 200
    PROVE  LET r == Cancel(Detach(Enter(c, TERMINATED)), "timeout")
           IN  Halfway(r, Notify(TERMINATED, TRUE, i)) /\ Links(s, r)
  <1> DEFINE e == Enter(c, TERMINATED)
             d == Detach(e)
             r == Cancel(d, "timeout")
             p == Notify(TERMINATED, TRUE, i)
  <1>1. c \in TsxType /\ TERMINATED \in States
    BY StateNumbers DEF Alike
  <1>2. Kept(c, e) /\ e.state = TERMINATED /\ e.told = c.told /\ e.terminations = c.terminations
    BY <1>1, EnterKept
  <1>3. p.at = "notify" /\ p.state = TERMINATED
    BY DEF Notify, Idle
  <1> HIDE DEF e, p
  <1>4. e \in TsxType
    BY <1>2 DEF Kept
  <1>5. Mild(e, d)
    BY <1>4, DetachMild
  <1> HIDE DEF d
  <1>6. d \in TsxType
    BY <1>5 DEF Mild, Alike
  <1>7. Alike(d, r) /\ ~r.heap["timeout"]
    BY <1>6, CancelAlike, TimerNames
  <1> HIDE DEF r
  <1>8. Alike(e, r)
    BY <1>5, <1>7, AlikeTrans DEF Mild
  <1>9. s.state \in Int /\ s.state # DESTROYED /\ TERMINATED # DESTROYED
          /\ (s.state < TERMINATED \/ s.state = TERMINATED)
    BY DEF Calm, TsxType, States, NULL, TERMINATED, DESTROYED
  <1>10. ~r.terminating /\ ~Has(r, "DESTROY")
    BY <1>2, <1>8, <1>9 DEF Calm, Alike, Kept, Has
  <1>11. r.role = "UAS" => r.status_code >= 200
    BY <1>2, <1>8 DEF Alike, Kept
  <1>12. r \in TsxType /\ r.state = TERMINATED
    BY <1>2, <1>8 DEF Alike
  <1>13. Halfway(r, p)
    BY <1>3, <1>7, <1>9, <1>10, <1>11, <1>12 DEF Halfway
  <1>14. Links(s, e)
    BY <1>2, <1>9 DEF Links, Kept, Alike, Calm
  <1>15. Links(s, r)
    BY <1>8, <1>14, LinksAlike
  <1> QED
    BY <1>13, <1>15 DEF e, d, r, p

LEMMA PostedEventGoes ==
    ASSUME NEW w \in Workers, pc \in [Workers -> PcType], Rests(tsx, pc[w]), PostedEvent(w)
    PROVE  Goes(w)
  <1> DEFINE i == pc[w].id
             s == [tsx EXCEPT !.transport = FALSE]
             k == IF s.status_code < 200 THEN TransportErrorCode ELSE s.status_code
             c == [s EXCEPT !.status_code = k]
             f == [s EXCEPT !.transport_flag = {}]
  <1>1. /\ Calm(tsx) /\ tsx \in TsxType /\ pc[w].at = "entered" /\ tsx.state < DESTROYED
        /\ i \in PostedIds /\ tsx.state <= TERMINATED
    BY DEF PostedEvent, Rests, Calm, TsxType, IsAt, PostedIds, States, NULL, TERMINATED, DESTROYED
  <1>2. \/ KeepsUasAlive(s, i) /\ Leave(w, f)
        \/ /\ tsx' = Cancel(Detach(Enter(c, TERMINATED)), "timeout")
           /\ Goto(w, Notify(TERMINATED, TRUE, i))
    BY DEF PostedEvent
  <1>3. Mild(tsx, s)
    BY <1>1, TransportMild
  <1> HIDE DEF s
  <1>4. s \in TsxType
    BY <1>3 DEF Mild, Alike
  <1>5. CASE KeepsUasAlive(s, i) /\ Leave(w, f)
    <2>1. tsx.role = "UAS" /\ tsx.status_code < 200
      <3>1. s.role = "UAS" /\ s.status_code < 200
        BY <1>5 DEF KeepsUasAlive
      <3>2. s.status_code \in Int /\ tsx.status_code \in Int
        BY <1>1, <1>4 DEF TsxType, Codes, TimeoutCode, TransportErrorCode, Provisional, Final
      <3> QED
        BY <1>3, <3>1, <3>2 DEF Mild, Alike
    <2>2. tsx.status_code \in Int /\ tsx.state \in Int
      BY <1>1 DEF TsxType, Codes, TimeoutCode, TransportErrorCode, Provisional, Final,
         States, NULL, DESTROYED
    <2>3. ~(tsx.state >= COMPLETED) /\ tsx.state # CALLING
      BY <1>1, <2>1, <2>2 DEF Calm
    <2>4. Wound(tsx)
      BY <2>1, <2>2, <2>3 DEF Wound, NeedsTimer, COMPLETED, CONFIRMED, TERMINATED
    <2>5. MildFlags(s, {}) /\ f = WithFlags(s, {})
      BY DEF MildFlags, WithFlags
    <2>6. Mild(s, f)
      BY <1>4, <2>5, FlagsAlike
    <2> HIDE DEF f
    <2>7. Calms(tsx, f)
      BY <1>1, <1>3, <2>6, MildTrans, MildCalms
    <2> QED
      BY <1>1, <1>5, <2>4, <2>7, CallbackGoes
  <1>6. CASE /\ tsx' = Cancel(Detach(Enter(c, TERMINATED)), "timeout")
             /\ Goto(w, Notify(TERMINATED, TRUE, i))
    <2>1. s.status_code \in Codes /\ s.status_code \in Int
      BY <1>4 DEF TsxType, Codes, TimeoutCode, TransportErrorCode, Provisional, Final
    <2>2. k \in Codes /\ k >= 200
      BY <2>1, FailureCode
    <2> HIDE DEF k
    <2>3. Mild(s, c) /\ c.status_code >= 200
      BY <1>4, <2>2, StatusMild DEF TsxType
    <2> HIDE DEF c
    <2>4. Alike(tsx, c)
      BY <1>3, <2>3, AlikeTrans DEF Mild
    <2>5. LET r == Cancel(Detach(Enter(c, TERMINATED)), "timeout")
          IN  Halfway(r, Notify(TERMINATED, TRUE, i)) /\ Links(tsx, r)
      BY <1>1, <2>3, <2>4, PostedHalfway
    <2> QED
      BY <1>6, <2>5, GotoGoes
  <1> QED
    BY <1>2, <1>5, <1>6

LEMMA TellUnlockedGoes ==
    ASSUME NEW w \in Workers, pc \in [Workers -> PcType], Halfway(tsx, pc[w]), TellUnlocked(w)
    PROVE  Goes(w)
  <1> DEFINE p == [pc[w] EXCEPT !.at = "resume"]
             r == Tell(tsx, pc[w].state)
  <1>1. /\ tsx \in TsxType /\ pc[w].state \in States /\ pc[w].at = "notify"
        /\ tsx' = r /\ Goto(w, p)
    BY DEF TellUnlocked, Halfway, IsAt, PcType
  <1>2. p.at = "resume" /\ p.state = pc[w].state /\ p.id = pc[w].id
    BY DEF PcType
  <1>3. /\ Kept(tsx, r) /\ r.state = tsx.state /\ r.told = tsx.state
        /\ pc[w].state = TERMINATED => r.terminations >= 1
        /\ pc[w].state # TERMINATED => r.terminations = tsx.terminations
    BY <1>1, TellKept DEF Halfway
  <1> HIDE DEF r, p
  <1>4. Halfway(r, p)
    BY <1>1, <1>2, <1>3 DEF Halfway, Kept, Has
  <1>5. Links(tsx, r)
    BY <1>3 DEF Links, Kept
  <1> QED
    BY <1>1, <1>4, <1>5, GotoGoes

LEMMA ResumeGoes ==
    ASSUME NEW w \in Workers, pc \in [Workers -> PcType], Halfway(tsx, pc[w]), Resume(w)
    PROVE  Goes(w)
  <1> DEFINE a == Schedule(tsx, "timeout", TIMEOUT)
             b == Finish(tsx, pc[w].state)
  <1>1. /\ tsx \in TsxType /\ pc[w].at = "resume"
        /\ IF pc[w].id \in PostedIds THEN Leave(w, a) ELSE Leave(w, b)
    BY DEF Resume, Halfway, IsAt, PostedIds
  <1>2. MildId(tsx, "timeout", TIMEOUT) /\ TIMEOUT \in TimerIds /\ TIMEOUT \notin PostedIds
          /\ TERMINATED # DESTROYED
    BY IdNames DEF MildId, PostedIds, TIMEOUT, ERR, DISC, TERMINATED, DESTROYED
  <1>3. ASSUME NEW r, Alike(tsx, r), r.heap["timeout"], r.id["timeout"] \notin PostedIds,
               tsx.state = TERMINATED
        PROVE  Calm(r) /\ Wound(r) /\ Links(tsx, r)
    <2>1. r.state = TERMINATED /\ r.told = TERMINATED /\ r.terminations >= 1 /\ ~r.terminating
            /\ ~Has(r, "DESTROY") /\ r \in TsxType
      BY <1>1, <1>3 DEF Alike, Halfway
    <2>2. r.role = "UAS" => r.status_code >= 200
      BY <1>3 DEF Alike, Halfway
    <2>3. TERMINATED # CALLING /\ TERMINATED # PROCEEDING /\ TERMINATED # COMPLETED
      BY DEF TERMINATED, CALLING, PROCEEDING, COMPLETED
    <2>4. Calm(r)
      BY <1>2, <1>3, <2>1, <2>2, <2>3 DEF Calm, AnsweredInvite
    <2> QED
      BY <1>3, <2>4, AlikeLinks DEF Wound
  <1>4. CASE pc[w].id \in PostedIds
    <2>1. Alike(tsx, a) /\ a.heap["timeout"]
            /\ (a.id["timeout"] = TIMEOUT \/ (tsx.heap["timeout"] /\ a.id = tsx.id))
      BY <1>1, <1>2, ScheduleAlike, TimerNames
    <2> HIDE DEF a
    <2>2. a.id["timeout"] \notin PostedIds /\ tsx.state = TERMINATED
      BY <1>2, <1>4, <2>1 DEF Halfway
    <2>3. Calm(a) /\ Wound(a) /\ Links(tsx, a)
      BY <1>3, <2>1, <2>2
    <2> QED
      BY <1>1, <1>4, <2>3, LeaveGoes
  <1>5. CASE pc[w].id \notin PostedIds /\ pc[w].state = TERMINATED
    <2>1. Mild(tsx, b) /\ b.heap["timeout"] /\ b.id["timeout"] = TIMEOUT
      BY <1>1, <1>5, FinishMild
    <2> HIDE DEF b
    <2>2. Calm(b) /\ Wound(b) /\ Links(tsx, b)
      BY <1>2, <1>3, <1>5, <2>1 DEF Mild, Halfway
    <2> QED
      BY <1>1, <1>5, <2>2, LeaveGoes
  <1>6. CASE pc[w].id \notin PostedIds /\ pc[w].state = DESTROYED
    <2>1. /\ tsx.state = DESTROYED /\ tsx.told = DESTROYED /\ tsx.terminations >= 1
          /\ tsx.id["timeout"] \notin PostedIds /\ (tsx.role = "UAS" => tsx.status_code >= 200)
      BY <1>1, <1>6 DEF Halfway
    <2>2. Calm(b) /\ b.state = DESTROYED /\ b.role = tsx.role /\ b.method = tsx.method
      BY <1>1, <1>6, <2>1, FinishDestroyed
    <2> HIDE DEF b
    <2>3. Wound(b)
      BY <2>2 DEF Wound, NeedsTimer, CALLING, PROCEEDING, COMPLETED, CONFIRMED, TERMINATED, DESTROYED
    <2>4. Links(tsx, b)
      BY <2>1, <2>2 DEF Links, Calm
    <2> QED
      BY <1>1, <1>6, <2>2, <2>3, <2>4, LeaveGoes
  <1> QED
    BY <1>4, <1>5, <1>6 DEF Halfway

LEMMA PostErrorGoes ==
    ASSUME NEW w \in Workers, pc \in [Workers -> PcType], Rests(tsx, pc[w]), PostError(w)
    PROVE  Goes(w)
  <1>1. Calm(tsx) /\ Wound(tsx) /\ Leave(w, Post(tsx, ERR)) /\ tsx \in TsxType
    BY DEF PostError, Rests, IsAt, Calm
  <1>2. Calms(tsx, Post(tsx, ERR))
    BY <1>1, PostMild, IdNames, MildCalms
  <1> QED
    BY <1>1, <1>2, CallbackGoes

-----------------------------------------------------------------------------
(* The steps of the transports, of the peer and of the TU.                 *)

DropDirect(s, m) == [s EXCEPT !.direct = @ \ {m}]

LEMMA DropDirectKin ==
    ASSUME NEW s \in TsxType, NEW m
    PROVE  Kin(s, DropDirect(s, m))
  BY DEF Kin, DropDirect, TsxType

\* transport_callback up to what it does after a success or a failure.
LEMMA DirectEndedMild ==
    ASSUME NEW s \in TsxType, NEW m
    PROVE  Mild(s, DropDirect(Clear(s, "TRANSPORT"), m))
  <1> DEFINE q == Clear(s, "TRANSPORT")
  <1>1. Mild(s, q) /\ q \in TsxType
    BY ClearMild, FlagNames DEF Mild, Alike
  <1> HIDE DEF q
  <1>2. Mild(q, DropDirect(q, m))
    BY <1>1, DropDirectKin, KinMild
  <1> QED
    BY <1>1, <1>2, MildTrans DEF q

LEMMA SendDoneGoes ==
    ASSUME NEW w \in Workers, NEW o \in Outcomes, NEW m,
           Rests(tsx, pc[w]), SendDone(w, m, o)
    PROVE  Goes(w)
  <1> DEFINE q == DropDirect(Clear(tsx, "TRANSPORT"), m)
             s == AfterSent(q, o)
  <1>1. Calm(tsx) /\ tsx \in TsxType /\ IsAt(w, "idle") /\ pc' = pc
    BY DEF SendDone, Rests, Calm
  <1>2. tsx' = IF Has(tsx, "DESTROY") THEN WithKept(s, s.kept + 1)
              ELSE WithRefs(s, s.refs - 1)
    BY DEF SendDone, WithRefs, WithKept, DropDirect
  <1>3. Mild(tsx, q)
    BY <1>1, DirectEndedMild
  <1> HIDE DEF q
  <1>4. Calm(q)
    BY <1>1, <1>3, MildCalms DEF Calms, Steps
  <1>5. Calms(q, s)
    BY <1>4, AfterSentCalms
  <1> HIDE DEF s
  <1>6. Calms(tsx, s) /\ s \in TsxType
    BY <1>1, <1>3, <1>5, MildThenCalms DEF Calms, Steps, Calm
  <1>7. Mild(s, tsx')
    BY <1>2, <1>6, RefsMild, KeptMild
  <1>8. Calms(s, tsx') /\ tsx'.role = s.role /\ tsx'.method = s.method /\ tsx'.state = s.state
    BY <1>6, <1>7, MildCalms DEF Calms, Steps, Mild, Alike
  <1>9. Calms(tsx, tsx')
    BY <1>6, <1>8 DEF Calms, Steps
  <1> QED
    BY <1>1, <1>9, IdleGoes

LEMMA SendErrorGoes ==
    ASSUME NEW w \in Workers, NEW m, pc \in [Workers -> PcType],
           Rests(tsx, pc[w]), SendError(w, m)
    PROVE  Goes(w)
  <1> DEFINE p == [Idle EXCEPT !.at = "post", !.ref = TRUE]
  <1>1. Calm(tsx) /\ Wound(tsx) /\ tsx \in TsxType /\ Goto(w, p)
          /\ tsx' = DropDirect(Clear(tsx, "TRANSPORT"), m)
    BY DEF SendError, Rests, Calm, IsAt, DropDirect
  <1>2. p.at = "post"
    BY DEF Idle
  <1> HIDE DEF p
  <1>3. Calms(tsx, tsx')
    BY <1>1, DirectEndedMild, MildCalms
  <1>4. Rests(tsx', p) /\ Links(tsx, tsx')
    BY <1>1, <1>2, <1>3, StepsLinks DEF Rests, Calms, Steps
  <1> QED
    BY <1>1, <1>4, GotoGoes

LEMMA CallbackForMild ==
    ASSUME NEW m, tsx \in TsxType
    PROVE  Mild(tsx, CallbackFor(m)) /\ CallbackFor(m) \in TsxType
  <1> DEFINE n == tsx.refs - 1
             R == tsx.resolving \ {m}
  <1>1. n \in Int /\ R \in SUBSET Messages
    BY DEF TsxType
  <1>2. CallbackFor(m) = [tsx EXCEPT !.refs = n, !.resolving = R]
    BY DEF CallbackFor
  <1> HIDE DEF n, R
  <1>3. Kin(tsx, CallbackFor(m))
    BY <1>1, <1>2 DEF Kin, TsxType
  <1> QED
    BY <1>3, KinMild DEF Kin

LEMMA ResolveDoneGoes ==
    ASSUME NEW w \in Workers, NEW o \in Outcomes, NEW m,
           Rests(tsx, pc[w]), ResolveDone(w, m, o)
    PROVE  Goes(w)
  <1> DEFINE q == CallbackFor(m)
             r == Resolved(q, o)
  <1>1. /\ Calm(tsx) /\ tsx \in TsxType /\ IsAt(w, "idle") /\ pc' = pc
        /\ tsx' = AfterSent(r, o)
    BY DEF ResolveDone, Rests, Calm
  <1>2. Mild(tsx, q) /\ q \in TsxType
    BY <1>1, CallbackForMild
  <1> HIDE DEF q
  <1>3. Mild(tsx, r)
    BY <1>2, ResolvedMild, MildTrans
  <1> HIDE DEF r
  <1>4. Calm(r)
    BY <1>1, <1>3, MildCalms DEF Calms, Steps
  <1>5. Calms(tsx, tsx')
    BY <1>1, <1>3, <1>4, AfterSentCalms, MildThenCalms
  <1> QED
    BY <1>1, <1>5, IdleGoes

LEMMA ResolveErrorGoes ==
    ASSUME NEW w \in Workers, NEW m, pc \in [Workers -> PcType],
           Rests(tsx, pc[w]), ResolveError(w, m)
    PROVE  Goes(w)
  <1> DEFINE q == CallbackFor(m)
             s == ResolveFailed(q)
             p == Notify(TERMINATED, FALSE, TIMEOUT)
  <1>1. /\ Calm(tsx) /\ tsx \in TsxType /\ IsAt(w, "idle")
        /\ IF s.state < TERMINATED THEN tsx' = Enter(s, TERMINATED) /\ Goto(w, p)
           ELSE tsx' = InlineFailed(s) /\ pc' = pc
    BY DEF ResolveError, Rests, Calm
  <1>2. Mild(tsx, q) /\ q \in TsxType
    BY <1>1, CallbackForMild
  <1> HIDE DEF q
  <1>3. Mild(q, s) /\ s.status_code >= 200
    BY <1>2, ResolveFailedMild
  <1> HIDE DEF s
  <1>4. Mild(tsx, s)
    BY <1>2, <1>3, MildTrans
  <1>5. s.state = tsx.state /\ s.state \in Int /\ FALSE \in BOOLEAN
    BY <1>4 DEF Mild, Alike, TsxType, States, NULL, DESTROYED
  <1>6. CASE s.state < TERMINATED
    <2>1. tsx.state <= TERMINATED /\ Alike(tsx, s)
      BY <1>4, <1>5, <1>6 DEF TERMINATED, Mild
    <2>2. Halfway(Enter(s, TERMINATED), p) /\ Links(tsx, Enter(s, TERMINATED))
      BY <1>1, <1>3, <1>5, <2>1, EnterHalfway
    <2> HIDE DEF p
    <2> QED
      BY <1>1, <1>6, <2>2, GotoGoes
  <1>7. CASE ~(s.state < TERMINATED)
    <2>1. Calm(s) /\ s.state >= TERMINATED
      BY <1>1, <1>4, <1>5, <1>7, MildCalms DEF Calms, Steps, TERMINATED
    <2>2. tsx' \in {s, SetState(s, DESTROYED)}
      BY <1>1, <1>7 DEF InlineFailed
    <2>3. Calms(s, tsx')
      BY <2>1, <2>2, SetStateDestroyed, MildItself, MildCalms DEF Calm
    <2> QED
      BY <1>1, <1>4, <1>7, <2>3, MildThenCalms, IdleGoes
  <1> QED
    BY <1>6, <1>7

LEMMA TryNextServerGoes ==
    ASSUME NEW w \in Workers, NEW m \in Messages, Rests(tsx, pc[w]), TryNextServer(w, m)
    PROVE  Goes(w)
  <1> DEFINE s == [tsx EXCEPT !.pending_tx = m]
  <1>1. /\ tsx \in TsxType /\ pc' = pc
        /\ tsx' = s \/ tsx' = Restart(s, "timeout", TIMEOUT)
    BY DEF TryNextServer, Rests, Calm
  <1>2. Kin(tsx, s)
    BY <1>1 DEF Kin, TsxType
  <1> HIDE DEF s
  <1>3. Mild(tsx, s) /\ s \in TsxType
    BY <1>2, KinMild DEF Kin
  <1>4. MildId(s, "timeout", TIMEOUT) /\ TIMEOUT \in TimerIds
    BY IdNames DEF MildId, PostedIds, TIMEOUT, ERR, DISC
  <1>5. Mild(s, Restart(s, "timeout", TIMEOUT))
    BY <1>3, <1>4, RestartMild
  <1>6. Mild(tsx, tsx')
    BY <1>1, <1>3, <1>5, MildTrans
  <1> QED
    BY <1>1, <1>6, AlikeGoes

LEMMA PeerStepGoes ==
    ASSUME NEW w \in Workers, Rests(tsx, pc[w]), PeerStep(w)
    PROVE  Goes(w)
  <1>1. Calm(tsx)
    BY DEF Rests
  <1>2. ASSUME NEW o \in Outcomes, NEW c \in Responses(tsx.method), RecvResponse(w, c, o)
        PROVE  Goes(w)
    BY <1>1, <1>2, OnResponseCalms, IdleGoes DEF RecvResponse, Receive
  <1>3. ASSUME NEW o \in Outcomes, RecvRequest(w, o)
        PROVE  Goes(w)
    BY <1>1, <1>3, OnRequestCalms, IdleGoes DEF RecvRequest, Receive
  <1>4. CASE RecvAck(w)
    BY <1>1, <1>4, OnAckCalms, IdleGoes DEF RecvAck, Receive
  <1> QED
    BY <1>2, <1>3, <1>4 DEF PeerStep

LEMMA RetransmitNoStateGoes ==
    ASSUME NEW w \in Workers, NEW o \in Outcomes, Rests(tsx, pc[w]), RetransmitNoState(w, o)
    PROVE  Goes(w)
  <1>1. /\ Calm(tsx) /\ IsAt(w, "idle") /\ pc' = pc /\ tsx' = SendMsg(tsx, 180, o)
        /\ tsx.told = PROCEEDING /\ 180 \in Messages \cup {NoMsg}
    BY DEF RetransmitNoState, TuCall, Rests, Messages, Provisional
  <1>2. tsx.state # DESTROYED
    BY <1>1 DEF Calm, PROCEEDING, DESTROYED
  <1>3. Yields(tsx, tsx')
    BY <1>1, <1>2, CalmReady, SendMsgYields
  <1> QED
    BY <1>1, <1>3, YieldsCalms, IdleGoes

\* While the worker is in the middle of a tsx_set_state, the end it brings
\* leaves the TU and the transport nothing that moves the transaction.
LEMMA HalfwayGoes ==
    ASSUME NEW w \in Workers, Halfway(tsx, pc[w]), Alike(tsx, tsx'), pc' = pc,
           \/ tsx'.heap["timeout"] = tsx.heap["timeout"]
           \/ tsx'.id["timeout"] \notin PostedIds
    PROVE  Goes(w)
  <1>1. tsx.state \in {TERMINATED, DESTROYED} /\ ~(tsx.state < COMPLETED)
    BY DEF Halfway, COMPLETED, TERMINATED, DESTROYED
  <1>2. tsx'.id["timeout"] \in PostedIds => tsx.id["timeout"] \in PostedIds
    BY <1>1 DEF Alike
  <1>3. Halfway(tsx', pc[w])
    BY <1>2 DEF Halfway, Alike
  <1> QED
    BY <1>3, AlikeLinks DEF Goes

LEMMA RestsBefore ==
    ASSUME NEW w \in Workers, Rests(tsx, pc[w]) \/ Halfway(tsx, pc[w]), tsx.state < TERMINATED
    PROVE  Rests(tsx, pc[w]) /\ Calm(tsx)
  <1>1. ~Halfway(tsx, pc[w])
    BY DEF Halfway, TERMINATED, DESTROYED
  <1> QED
    BY <1>1 DEF Rests

LEMMA TuStepGoes ==
    ASSUME NEW w \in Workers, Rests(tsx, pc[w]) \/ Halfway(tsx, pc[w]), TuStep
    PROVE  Goes(w)
  <1>1. tsx \in TsxType
    BY DEF Rests, Halfway, Calm
  <1>2. ASSUME NEW o \in Outcomes, SendRequest(o)
        PROVE  Goes(w)
    <2> DEFINE r == OnSendRequest(tsx, o)
    <2>1. /\ tsx.role = "UAC" /\ tsx.state = NULL /\ tsx' = r /\ pc' = pc
          /\ tsx.state < TERMINATED
      BY <1>2 DEF SendRequest, TuCall, NULL, TERMINATED
    <2> HIDE DEF r
    <2>2. Rests(tsx, pc[w]) /\ Calm(tsx)
      BY <2>1, RestsBefore
    <2>3. Calms(tsx, tsx')
      BY <2>1, <2>2, OnSendRequestCalms DEF r
    <2>4. ~AnsweredInvite(tsx')
      <3>1. tsx'.state \in {NULL, CALLING, TERMINATED}
        BY <2>1, <2>3 DEF Calms, Steps, Moved, Ahead, NULL, CALLING, TRYING, PROCEEDING,
           COMPLETED, TERMINATED
      <3> QED
        BY <3>1 DEF AnsweredInvite, NULL, CALLING, PROCEEDING, COMPLETED, TERMINATED
    <2> QED
      BY <2>1, <2>2, <2>3, <2>4, TuGoes
  <1>3. ASSUME NEW o \in Outcomes, NEW c \in Responses(tsx.method),
               NEW disc \in BOOLEAN, SendResponse(c, o, disc)
        PROVE  Goes(w)
    <2> DEFINE r == OnSendResponse(tsx, c, o, disc)
    <2>1. /\ tsx.role = "UAS" /\ tsx.state \in {TRYING, PROCEEDING} /\ tsx' = r /\ pc' = pc
          /\ tsx.state < TERMINATED
      BY <1>3 DEF SendResponse, TuCall, TRYING, PROCEEDING, TERMINATED
    <2> HIDE DEF r
    <2>2. Rests(tsx, pc[w]) /\ Calm(tsx)
      BY <2>1, RestsBefore
    <2>3. Calms(tsx, tsx')
      BY <2>1, <2>2, OnSendResponseCalms DEF r
    <2>4. ~AnsweredInvite(tsx')
      BY <2>1, <2>3 DEF AnsweredInvite, Calms, Steps
    <2> QED
      BY <2>1, <2>2, <2>3, <2>4, TuGoes
  <1>4. CASE Terminate
    <2> DEFINE r == SetState([tsx EXCEPT !.status_code = TimeoutCode], TERMINATED)
    <2>1. tsx.state < TERMINATED /\ tsx' = r /\ pc' = pc
      BY <1>4 DEF Terminate, TuCall
    <2>2. Rests(tsx, pc[w]) /\ Calm(tsx)
      BY <2>1, RestsBefore
    <2>3. Ready(tsx)
      BY <2>1, <2>2, CalmReady DEF TERMINATED, DESTROYED
    <2>4. Over(tsx, r)
      BY <2>3, FailureCode, StatusOver
    <2> HIDE DEF r
    <2>5. Calms(tsx, tsx') /\ ~AnsweredInvite(tsx')
      BY <2>1, <2>2, <2>4, OverCalms DEF Over, AnsweredInvite, PROCEEDING, COMPLETED, TERMINATED
    <2> QED
      BY <2>1, <2>2, <2>5, TuGoes
  <1>5. CASE StopRetransmit
    <2> DEFINE r == Cancel(tsx, "retransmit")
    <2>1. tsx' = r /\ pc' = pc
      BY <1>5 DEF StopRetransmit, TuCall
    <2>2. Mild(tsx, r) /\ r.heap["timeout"] = tsx.heap["timeout"]
      BY <1>1, CancelAlike, TimerNames
    <2> HIDE DEF r
    <2> QED
      BY <2>1, <2>2, AlikeGoes, HalfwayGoes DEF Mild
  <1>6. CASE SetTimeout
    <2> DEFINE r == Restart(tsx, "timeout", TIMEOUT)
    <2>1. tsx' = r /\ pc' = pc
      BY <1>6 DEF SetTimeout, TuCall
    <2>2. MildId(tsx, "timeout", TIMEOUT) /\ TIMEOUT \in TimerIds /\ TIMEOUT \notin PostedIds
      BY IdNames DEF MildId, PostedIds, TIMEOUT, ERR, DISC
    <2>3. Mild(tsx, r) /\ r.id["timeout"] = TIMEOUT
      BY <1>1, <2>2, RestartMild
    <2> HIDE DEF r
    <2> QED
      BY <2>1, <2>2, <2>3, AlikeGoes, HalfwayGoes DEF Mild
  <1> QED
    BY <1>2, <1>3, <1>4, <1>5, <1>6 DEF TuStep

LEMMA DisconnectedGoes ==
    ASSUME NEW w \in Workers, Rests(tsx, pc[w]) \/ Halfway(tsx, pc[w]), Disconnected
    PROVE  Goes(w)
  <1>1. tsx \in TsxType /\ tsx' = Post(tsx, DISC) /\ pc' = pc
    BY DEF Disconnected, Rests, Halfway, Calm
  <1>2. Mild(tsx, tsx')
    BY <1>1, PostMild, IdNames
  <1>3. ASSUME Halfway(tsx, pc[w])
        PROVE  Goes(w)
    <2>1. ~(tsx.state < COMPLETED)
      BY <1>3 DEF Halfway, COMPLETED, TERMINATED, DESTROYED
    <2>2. tsx' = tsx
      BY <1>1, <2>1 DEF Post
    <2> QED
      BY <1>1, <1>2, <1>3, <2>2, HalfwayGoes DEF Mild
  <1> QED
    BY <1>1, <1>2, <1>3, AlikeGoes

LEMMA CallbackStepGoes ==
    ASSUME NEW w \in Workers, pc \in [Workers -> PcType],
           Rests(tsx, pc[w]) \/ Halfway(tsx, pc[w]), CallbackStep(w)
    PROVE  Goes(w)
  <1>1. CASE TellUnlocked(w)
    BY <1>1, TellUnlockedGoes DEF TellUnlocked, Rests, IsAt
  <1>2. CASE Resume(w)
    BY <1>2, ResumeGoes DEF Resume, Rests, IsAt
  <1>3. CASE \/ EnterCallback(w) \/ TimeoutEvent(w) \/ PostedEvent(w) \/ PostError(w)
             \/ \E o \in Outcomes : RetransmitEvent(w, o)
    <2>1. pc[w].at \in {"fired", "entered", "post"}
      BY <1>3 DEF EnterCallback, TimeoutEvent, PostedEvent, PostError, RetransmitEvent, IsAt
    <2>2. Rests(tsx, pc[w])
      BY <2>1 DEF Halfway
    <2> QED
      BY <1>3, <2>2, EnterCallbackGoes, TimeoutEventGoes, PostedEventGoes, PostErrorGoes,
         RetransmitEventGoes
  <1> QED
    BY <1>1, <1>2, <1>3 DEF CallbackStep

LEMMA TransportStepGoes ==
    ASSUME NEW w \in Workers, pc \in [Workers -> PcType],
           Rests(tsx, pc[w]) \/ Halfway(tsx, pc[w]), TransportStep(w)
    PROVE  Goes(w)
  <1>1. IsAt(w, "idle")
    BY DEF TransportStep, SendDone, SendError, ResolveDone, ResolveError, TryNextServer
  <1>2. Rests(tsx, pc[w])
    BY <1>1 DEF Halfway, IsAt
  <1>3. tsx.resolving \subseteq Messages
    BY <1>2 DEF Rests, Calm, TsxType
  <1> QED
    BY <1>2, <1>3, SendDoneGoes, SendErrorGoes, ResolveDoneGoes, ResolveErrorGoes,
       TryNextServerGoes DEF TransportStep

LEMMA IdleWorkerRests ==
    ASSUME NEW w \in Workers, Rests(tsx, pc[w]) \/ Halfway(tsx, pc[w]), IsAt(w, "idle")
    PROVE  Rests(tsx, pc[w])
  BY DEF Halfway, IsAt

\* Every step, when w is the only worker.
LEMMA NextGoes ==
    ASSUME NEW w \in Workers, Workers = {w}, pc \in [Workers -> PcType],
           Rests(tsx, pc[w]) \/ Halfway(tsx, pc[w]), [Next]_vars
    PROVE  Goes(w)
  <1>1. CASE vars' = vars
    BY <1>1 DEF vars, Goes, Links
  <1>2. ASSUME NEW t \in Timers, TimerFires(w, t)
        PROVE  Goes(w)
    BY <1>2, IdleWorkerRests, TimerFiresGoes DEF TimerFires
  <1>3. CASE CallbackStep(w)
    BY <1>3, CallbackStepGoes
  <1>4. CASE TransportStep(w)
    BY <1>4, TransportStepGoes
  <1>5. CASE PeerStep(w)
    <2>1. IsAt(w, "idle")
      BY <1>5 DEF PeerStep, RecvResponse, RecvRequest, RecvAck, Receive
    <2> QED
      BY <1>5, <2>1, IdleWorkerRests, PeerStepGoes
  <1>6. ASSUME NEW o \in Outcomes, RetransmitNoState(w, o)
        PROVE  Goes(w)
    BY <1>6, IdleWorkerRests, RetransmitNoStateGoes DEF RetransmitNoState
  <1>7. CASE TuStep
    BY <1>7, TuStepGoes
  <1>8. CASE Disconnected
    BY <1>8, DisconnectedGoes
  <1>9. CASE Done
    BY <1>1, <1>9 DEF Done
  <1> QED
    BY <1>1, <1>2, <1>3, <1>4, <1>5, <1>6, <1>7, <1>8, <1>9 DEF Next

-----------------------------------------------------------------------------
(* The theorems, for one worker.                                           *)

Sole == \E w : Workers = {w}

LEMMA SoleFacts ==
    ASSUME Sole
    PROVE  IsFiniteSet(Workers) /\ SendsApart
  <1>1. PICK w : Workers = {w}
    BY DEF Sole
  <1>2. IsFiniteSet(Workers)
    BY <1>1, FS_Singleton
  <1>3. \A u, v \in Workers : u = v
    BY <1>1
  <1> QED
    BY <1>2, <1>3 DEF SendsApart

LEMMA InitCalm ==
    ASSUME Init
    PROVE  /\ Calm(tsx) /\ Wound(tsx) /\ tsx.state = NULL /\ tsx.told = NULL
           /\ \A w \in Workers : pc[w] = Idle
  <1>1. PICK role \in Roles, method \in Methods, h \in BOOLEAN, t \in BOOLEAN,
             b \in BOOLEAN : tsx = NewTsx(role, method, h, t, b)
    BY DEF Init
  <1>2. tsx \in TsxType
    BY InitSound DEF IInv, Sound
  <1>3. /\ tsx.transport_flag = {} /\ tsx.state = NULL /\ tsx.told = NULL
        /\ tsx.terminating = FALSE
    BY <1>1 DEF NewTsx
  <1>4. Calm(tsx)
    BY <1>2, <1>3 DEF Calm, Has, AnsweredInvite, NULL, CALLING, PROCEEDING, COMPLETED,
       TERMINATED, DESTROYED
  <1>5. Wound(tsx)
    BY <1>3 DEF Wound, NeedsTimer, NULL, CALLING, PROCEEDING, COMPLETED, CONFIRMED, TERMINATED
  <1> QED
    BY <1>3, <1>4, <1>5 DEF Init

\* With one worker, every step keeps the invariant and is one of
\* TransactionFsm's.
LEMMA SoleSteps ==
    ASSUME Sole, SInv, [Next]_vars
    PROVE  SInv' /\ Links(tsx, tsx')
  <1>1. PICK w : Workers = {w}
    BY DEF Sole
  <1>2. RInv'
    BY SoleFacts, NextKeeps, NextAccounts DEF RInv, Keeps, SInv
  <1>3. w \in Workers /\ pc \in [Workers -> PcType] /\ (Rests(tsx, pc[w]) \/ Halfway(tsx, pc[w]))
    BY <1>1 DEF SInv, RInv, IInv
  <1>4. Goes(w)
    BY <1>1, <1>3, NextGoes
  <1>5. \A v \in Workers : Rests(tsx', pc'[v]) \/ Halfway(tsx', pc'[v])
    BY <1>1, <1>4 DEF Goes
  <1> QED
    BY <1>2, <1>4, <1>5 DEF SInv, Goes

\* The strengthened invariant is one of the specification's when one worker
\* polls, as PjsipDemo's pjsua has it.
THEOREM SpecAlone ==
    ASSUME Sole
    PROVE  Spec => []SInv
  <1>1. Init => SInv
    <2> SUFFICES ASSUME Init
                 PROVE  SInv
      OBVIOUS
    <2>1. RInv
      BY InitSound, InitAccounts DEF RInv
    <2>2. \A w \in Workers : Rests(tsx, pc[w])
      BY InitCalm, IdleRests
    <2> QED
      BY <2>1, <2>2 DEF SInv
  <1>2. SInv /\ [Next]_vars => SInv'
    BY SoleSteps
  <1> QED
    BY <1>1, <1>2, PTL DEF Spec

\* The account of the references, with what each worker holds of them.
LEMMA SoleAccount ==
    ASSUME Sole, SInv
    PROVE  /\ tsx.refs \in Int /\ tsx.refs >= Cardinality(Holders)
           /\ ~tsx.terminating => tsx.refs > 0
           /\ \A w \in Workers : pc[w].ref => tsx.refs > 0
  <1>1. tsx \in TsxType /\ tsx.refs \in Int /\ Spare(tsx) = Cardinality(Holders)
    BY DEF SInv, RInv, Accounted, Tidy, TsxType
  <1>2. IsFiniteSet(Holders)
    BY SoleFacts, FS_Subset DEF Holders
  <1>3. Cardinality(Holders) \in Nat /\ (Holders # {} => Cardinality(Holders) # 0)
    BY <1>2, FS_CardinalityType, FS_EmptySet
  <1>4. Owed(tsx) \in Nat /\ (~tsx.terminating => Owed(tsx) > 0)
    BY <1>1 DEF Owed, Weight, TsxType
  <1>5. \A w \in Workers : pc[w].ref => Holders # {}
    BY DEF Holders
  <1>6. tsx.refs = Owed(tsx) + Cardinality(Holders)
    BY <1>1, <1>3, <1>4 DEF Spare
  <1> HIDE DEF Holders
  <1> QED
    BY <1>1, <1>3, <1>4, <1>5, <1>6

\* A worker that is in a callback is not in a transaction that was freed:
\* it has a reference, or the transaction still has its own.
THEOREM NeverFreedInUse ==
    ASSUME Sole
    PROVE  Spec => []NotFreedInUse
  <1>1. SInv => NotFreedInUse
    <2> SUFFICES ASSUME SInv, NEW w \in Workers, ~IsAt(w, "idle")
                 PROVE  tsx.refs > 0
      BY DEF NotFreedInUse
    <2>1. pc[w] \in PcType /\ Held(pc[w])
      BY DEF SInv, RInv, IInv, Accounted
    <2>2. CASE pc[w].ref
      BY <2>2, SoleAccount
    <2>3. CASE ~pc[w].ref
      <3>1. pc[w].at \in {"notify", "resume"}
        BY <2>1, <2>3 DEF Held, PcType, IsAt
      <3>2. ~tsx.terminating
        BY <3>1 DEF SInv, Rests, Halfway
      <3> QED
        BY <3>2, SoleAccount
    <2> QED
      BY <2>2, <2>3
  <1> QED
    BY <1>1, SpecAlone, PTL

\* When the last reference is given up, tsx_set_state has told the TU of
\* both ends of the transaction.
THEOREM EndReported ==
    ASSUME Sole
    PROVE  Spec => []EndIsReported
  <1>1. SInv => EndIsReported
    <2> SUFFICES ASSUME SInv, tsx.refs = 0
                 PROVE  tsx.terminations >= 1 /\ tsx.told = DESTROYED
      BY DEF EndIsReported, Freed
    <2>1. tsx.terminating
      BY SoleAccount
    <2>2. PICK w : w \in Workers
      BY DEF Sole
    <2>3. Calm(tsx)
      BY <2>1, <2>2 DEF SInv, Rests, Halfway
    <2> QED
      BY <2>1, <2>3 DEF Calm, TERMINATED, DESTROYED
  <1> QED
    BY <1>1, SpecAlone, PTL

\* In each state that the timers B, D, F, H, I, J or K are there to end, the
\* timeout timer runs, or the worker that popped it is still to handle it.
THEOREM TimeoutKept ==
    ASSUME Sole
    PROVE  Spec => []TimeoutArmed
  <1>1. SInv => TimeoutArmed
    <2> SUFFICES ASSUME SInv, NeedsTimer(tsx)
                 PROVE  Armed
      BY DEF TimeoutArmed, NeedsTimer
    <2>1. PICK w : w \in Workers
      BY DEF Sole
    <2>2. CASE Rests(tsx, pc[w])
      BY <2>1, <2>2 DEF Rests, Wound, Armed, HoldsTimeout
    <2>3. CASE Halfway(tsx, pc[w])
      BY <2>1, <2>3 DEF Halfway, Armed, HoldsTimeout
    <2> QED
      BY <2>1, <2>2, <2>3 DEF SInv
  <1> QED
    BY <1>1, SpecAlone, PTL

\* No timer A is left in PROCEEDING or COMPLETED, and none that was put off
\* behind a send can be started there.
THEOREM InviteStaysStopped ==
    ASSUME Sole
    PROVE  Spec => []InviteRetransmissionStops
  <1>1. SInv => InviteRetransmissionStops
    <2> SUFFICES ASSUME SInv, AnsweredInvite(tsx)
                 PROVE  ~tsx.heap["retransmit"]
      BY DEF InviteRetransmissionStops, AnsweredInvite
    <2>1. PICK w : w \in Workers
      BY DEF Sole
    <2>2. ~Halfway(tsx, pc[w])
      BY DEF Halfway, AnsweredInvite, PROCEEDING, COMPLETED, TERMINATED, DESTROYED
    <2>3. Calm(tsx)
      BY <2>1, <2>2 DEF SInv, Rests
    <2> QED
      BY <2>3 DEF Calm, Muted
  <1> QED
    BY <1>1, SpecAlone, PTL

-----------------------------------------------------------------------------
(* The refinement.                                                         *)

LEMMA AheadIsAfter ==
    ASSUME NEW st, Ahead(tsx, st)
    PROVE  st \in Fsm!After(tsx.state)
  <1>1. NULL # CALLING /\ NULL # TRYING /\ NULL # PROCEEDING /\ NULL # COMPLETED
          /\ CALLING # TRYING /\ CALLING # PROCEEDING /\ CALLING # COMPLETED
          /\ TRYING # PROCEEDING /\ TRYING # COMPLETED /\ PROCEEDING # COMPLETED
    BY DEF NULL, CALLING, TRYING, PROCEEDING, COMPLETED
  <1>2. /\ Fsm!NULL = NULL /\ Fsm!CALLING = CALLING /\ Fsm!TRYING = TRYING
        /\ Fsm!PROCEEDING = PROCEEDING /\ Fsm!COMPLETED = COMPLETED
        /\ Fsm!CONFIRMED = CONFIRMED
    BY DEF NULL, CALLING, TRYING, PROCEEDING, COMPLETED, CONFIRMED,
       Fsm!NULL, Fsm!CALLING, Fsm!TRYING, Fsm!PROCEEDING, Fsm!COMPLETED, Fsm!CONFIRMED
  <1>3. CASE tsx.state = NULL
    <2>1. Fsm!After(tsx.state) = Fsm!AfterNull
      BY <1>1, <1>2, <1>3, Zenon DEF Fsm!After
    <2> QED
      BY <1>1, <1>2, <1>3, <2>1 DEF Ahead, Fsm!AfterNull
  <1>4. CASE tsx.state = CALLING
    <2>1. Fsm!After(tsx.state) = Fsm!AfterCalling
      BY <1>1, <1>2, <1>4, Zenon DEF Fsm!After
    <2> QED
      BY <1>1, <1>2, <1>4, <2>1 DEF Ahead, Fsm!AfterCalling
  <1>5. CASE tsx.state = TRYING
    <2>1. Fsm!After(tsx.state) = Fsm!AfterTrying
      BY <1>1, <1>2, <1>5, Zenon DEF Fsm!After
    <2> QED
      BY <1>1, <1>2, <1>5, <2>1 DEF Ahead, Fsm!AfterTrying
  <1>6. CASE tsx.state = PROCEEDING
    <2>1. Fsm!After(tsx.state) = Fsm!AfterProceeding
      BY <1>1, <1>2, <1>6, Zenon DEF Fsm!After
    <2> QED
      BY <1>1, <1>2, <1>6, <2>1 DEF Ahead, Fsm!AfterProceeding
  <1>7. CASE tsx.state = COMPLETED
    <2>1. Fsm!After(tsx.state) = Fsm!AfterCompleted
      BY <1>1, <1>2, <1>7, Zenon DEF Fsm!After
    <2> QED
      BY <1>1, <1>2, <1>7, <2>1 DEF Ahead, Fsm!AfterCompleted
  <1> QED
    BY <1>3, <1>4, <1>5, <1>6, <1>7 DEF Ahead

LEMMA LinksIsStep ==
    ASSUME Links(tsx, tsx')
    PROVE  [Fsm!FsmNext]_(Fsm!fsmVars)
  <1>1. Fsm!TERMINATED = TERMINATED /\ Fsm!DESTROYED = DESTROYED
    BY DEF TERMINATED, DESTROYED, Fsm!TERMINATED, Fsm!DESTROYED
  <1>2. tsx'.role = tsx.role /\ tsx'.method = tsx.method
    BY DEF Links
  <1>3. CASE tsx'.state = tsx.state /\ tsx'.told = tsx.told
    BY <1>2, <1>3 DEF Fsm!fsmVars
  <1>4. CASE tsx.told = tsx.state /\ Ahead(tsx, tsx'.state) /\ tsx'.told = tsx'.state
    <2>1. tsx'.state \in Fsm!After(tsx.state)
      BY <1>4, AheadIsAfter
    <2>2. Fsm!Advance
      BY <1>4, <2>1 DEF Fsm!Advance
    <2> QED
      BY <1>2, <2>2 DEF Fsm!FsmNext
  <1>5. CASE /\ tsx.told = tsx.state /\ tsx.state < TERMINATED
             /\ tsx'.state = TERMINATED /\ tsx'.told \in {tsx.state, TERMINATED}
    BY <1>1, <1>2, <1>5 DEF Fsm!FsmNext, Fsm!Terminate
  <1>6. CASE /\ tsx.told = tsx.state /\ tsx.state = TERMINATED
             /\ tsx'.state = DESTROYED /\ tsx'.told \in {tsx.state, DESTROYED}
    BY <1>1, <1>2, <1>6 DEF Fsm!FsmNext, Fsm!Destroy
  <1>7. CASE tsx.told # tsx.state /\ tsx'.state = tsx.state /\ tsx'.told = tsx.state
    BY <1>2, <1>7 DEF Fsm!FsmNext, Fsm!TellLate
  <1> QED
    BY <1>3, <1>4, <1>5, <1>6, <1>7 DEF Links

\* sip_transaction.c, with all its timers, transports, retransmissions and
\* released locks, implements the state machine of RFC 3261 that
\* TransactionFsm states, and tells the TU of each state before the next.
THEOREM RefinesFsm ==
    ASSUME Sole
    PROVE  Spec => ImplementsFsm
  <1>1. Init => Fsm!FsmInit
    <2> SUFFICES ASSUME Init
                 PROVE  Fsm!FsmInit
      OBVIOUS
    <2>1. tsx \in TsxType /\ tsx.state = NULL /\ tsx.told = NULL
      BY InitCalm DEF Calm
    <2>2. tsx.role \in {"UAC", "UAS"} /\ tsx.method \in {"INVITE", "BYE", "OTHER"}
      BY <2>1 DEF TsxType
    <2> QED
      BY <2>1, <2>2 DEF Fsm!FsmInit, NULL, Fsm!NULL
  <1>2. SInv /\ [Next]_vars => [Fsm!FsmNext]_(Fsm!fsmVars)
    BY SoleSteps, LinksIsStep
  <1> QED
    BY <1>1, <1>2, SpecAlone, PTL DEF Spec, ImplementsFsm, Fsm!FsmSpec

=============================================================================
