------------------------ MODULE SipTransactionProofs ------------------------
(***************************************************************************)
(* Theorems about SipTransaction, for every set of workers, of roles and   *)
(* of methods, and whatever outcomes sends may have.                       *)
(*                                                                         *)
(* Sends and Leads say what an operation may do to the transaction as far  *)
(* as the final response is concerned; each operator has a lemma that puts *)
(* it under one of them, and the theorems follow from these lemmas.  The   *)
(* references of the group lock are the subject of the second part, which  *)
(* has a hypothesis on the workers or the sends.                           *)
(***************************************************************************)
EXTENDS SipTransaction, FiniteSetTheorems, TLAPS

-----------------------------------------------------------------------------
(* What an operation may do to a record.                                   *)

\* r is s with other timers, flags and references, and may have sent
\* messages of M: the transaction is where it was.
Sends(s, r, M) ==
    /\ r \in TsxType
    /\ r.role = s.role /\ r.method = s.method
    /\ r.state = s.state /\ r.last_tx = s.last_tx
    /\ r.sent \subseteq s.sent \cup M
    /\ "DESTROY" \in r.transport_flag => "DESTROY" \in s.transport_flag

Same(s, r) == Sends(s, r, {})

\* r is s in state st with tx as the message to repeat.
Becomes(s, r, st, tx) ==
    /\ r \in TsxType
    /\ r.role = s.role /\ r.method = s.method
    /\ r.state = st /\ r.last_tx = tx
    /\ r.sent \subseteq s.sent
    /\ "DESTROY" \in r.transport_flag =>
           "DESTROY" \in s.transport_flag \/ st >= TERMINATED

Late(s) == s.state >= TERMINATED \/ "DESTROY" \in s.transport_flag

\* As Sends, but the transaction may have been ended on the way.
Leads(s, r, M) ==
    /\ r \in TsxType
    /\ r.role = s.role /\ r.method = s.method
    /\ r.sent \subseteq s.sent \cup M
    /\ r.last_tx \in {s.last_tx, NoMsg}
    /\ \/ Sends(s, r, M)
       \/ r.state = TERMINATED
       \/ r.state = DESTROYED /\ Late(s)

LEMMA SendsSends ==
    ASSUME NEW s, NEW q, NEW r, NEW M, NEW N, NEW L,
           Sends(s, q, M), Sends(q, r, N), M \cup N \subseteq L
    PROVE  Sends(s, r, L)
  BY DEF Sends

LEMMA SendsLeads ==
    ASSUME NEW s, NEW q, NEW r, NEW M, NEW N, NEW L,
           Sends(s, q, M), Leads(q, r, N), M \cup N \subseteq L
    PROVE  Leads(s, r, L)
  BY DEF Sends, Leads, Late

LEMMA LeadsSame ==
    ASSUME NEW s, NEW q, NEW r, NEW M, Leads(s, q, M), Same(q, r)
    PROVE  Leads(s, r, M)
  BY DEF Sends, Leads, Late, Same

LEMMA SameLeads ==
    ASSUME NEW s, NEW r, NEW M, Sends(s, r, M)
    PROVE  Leads(s, r, M)
  BY DEF Sends, Leads

LEMMA SameBecomes ==
    ASSUME NEW s, NEW q, NEW r, NEW st, NEW tx, Becomes(s, q, st, tx), Same(q, r)
    PROVE  Becomes(s, r, st, tx)
  BY DEF Becomes, Same, Sends

-----------------------------------------------------------------------------
(* Flags and timers.                                                       *)

LEMMA CheckSame ==
    ASSUME NEW s \in TsxType, NEW name \in Asserts, NEW cond
    PROVE  Same(s, Check(s, name, cond))
  BY DEF Same, Sends, Check, TsxType

LEMMA FlagSame ==
    ASSUME NEW s \in TsxType, NEW f \in Flags, f # "DESTROY"
    PROVE  Same(s, Raise(s, f)) /\ Same(s, Clear(s, f))
  <1>1. Same(s, Raise(s, f))
    BY DEF Same, Sends, Raise, TsxType
  <1>2. Same(s, Clear(s, f))
    BY DEF Same, Sends, Clear, TsxType
  <1> QED
    BY <1>1, <1>2

LEMMA TimersSame ==
    ASSUME NEW s \in TsxType, NEW h \in [Timers -> BOOLEAN],
           NEW g \in [Timers -> TimerIds], NEW n \in Int
    PROVE  Same(s, [s EXCEPT !.heap = h, !.id = g, !.refs = n])
  BY DEF Same, Sends, TsxType

LEMMA ScheduleSame ==
    ASSUME NEW s \in TsxType, NEW t \in Timers, NEW i \in TimerIds
    PROVE  Same(s, Schedule(s, t, i))
  <1>1. /\ [s.heap EXCEPT ![t] = TRUE] \in [Timers -> BOOLEAN]
        /\ [s.id EXCEPT ![t] = i] \in [Timers -> TimerIds]
        /\ s.refs + 1 \in Int
    BY DEF TsxType
  <1>2. Same(s, [s EXCEPT !.heap[t] = TRUE, !.id[t] = i, !.refs = @ + 1])
    BY <1>1, TimersSame DEF TsxType
  <1> QED
    BY <1>2 DEF Schedule, Same, Sends

LEMMA CancelSame ==
    ASSUME NEW s \in TsxType, NEW t \in Timers
    PROVE  Same(s, Cancel(s, t))
  <1>1. /\ [s.heap EXCEPT ![t] = FALSE] \in [Timers -> BOOLEAN]
        /\ [s.id EXCEPT ![t] = INACTIVE] \in [Timers -> TimerIds]
        /\ s.refs - 1 \in Int
    BY DEF TsxType, TimerIds, INACTIVE, DISC
  <1>2. Same(s, [s EXCEPT !.heap[t] = FALSE, !.id[t] = INACTIVE, !.refs = @ - 1])
    BY <1>1, TimersSame DEF TsxType
  <1> QED
    BY <1>2 DEF Cancel, Same, Sends

LEMMA RestartSame ==
    ASSUME NEW s \in TsxType, NEW t \in Timers, NEW i \in TimerIds
    PROVE  Same(s, Restart(s, t, i))
  <1>1. Same(s, Cancel(s, t))
    BY CancelSame
  <1>2. Same(Cancel(s, t), Restart(s, t, i))
    BY <1>1, ScheduleSame DEF Restart, Same, Sends
  <1> QED
    BY <1>1, <1>2, SendsSends DEF Same

LEMMA TimerNames == "timeout" \in Timers /\ "retransmit" \in Timers
  BY DEF Timers

LEMMA IdNames ==
    INACTIVE \in TimerIds /\ RETRANSMIT \in TimerIds /\ TIMEOUT \in TimerIds
        /\ ERR \in TimerIds /\ DISC \in TimerIds
  BY DEF TimerIds, INACTIVE, RETRANSMIT, TIMEOUT, ERR, DISC

LEMMA PostSame ==
    ASSUME NEW s \in TsxType, NEW i \in TimerIds
    PROVE  Same(s, Post(s, i))
  <1>1. Same(s, Restart(s, "timeout", i))
    BY RestartSame, TimerNames
  <1>2. Same(s, s)
    BY DEF Same, Sends
  <1> QED
    BY <1>1, <1>2 DEF Post

-----------------------------------------------------------------------------
(* Changes of state.                                                       *)

LEMMA EnterBecomes ==
    ASSUME NEW s \in TsxType, NEW st \in States
    PROVE  Becomes(s, Enter(s, st), st, s.last_tx)
  <1> DEFINE q == Check(s, "state_order", st >= s.state)
  <1>1. Same(s, q)
    BY CheckSame DEF Asserts
  <1>2. Becomes(q, [q EXCEPT !.state = st], st, q.last_tx)
    <2>1. q \in TsxType
      BY <1>1 DEF Same, Sends
    <2> HIDE DEF q
    <2> QED
      BY <2>1 DEF Becomes, TsxType
  <1> QED
    BY <1>1, <1>2 DEF Enter, Becomes, Same, Sends

LEMMA TellSame ==
    ASSUME NEW s \in TsxType, NEW st \in States
    PROVE  Same(s, Tell(s, st))
  <1>1. ASSUME NEW n \in 0 .. 2
        PROVE  Same(s, [s EXCEPT !.told = st, !.terminations = n])
    BY DEF Same, Sends, TsxType
  <1>2. s.terminations \in 0 .. 2
    BY DEF TsxType
  <1>3. (IF st = TERMINATED /\ s.terminations < 2 THEN s.terminations + 1
         ELSE s.terminations) \in 0 .. 2
    BY <1>2
  <1> QED
    BY <1>1, <1>3 DEF Tell, Same, Sends

LEMMA DetachSame ==
    ASSUME NEW s \in TsxType
    PROVE  Same(s, Detach(s))
  <1>1. ASSUME NEW f \in SUBSET s.transport_flag, NEW m \in SUBSET Messages,
               NEW n \in Int
        PROVE  Same(s, [s EXCEPT !.transport_flag = f, !.resolving = m,
                                 !.pending_tx = NoMsg, !.refs = n])
    BY DEF Same, Sends, TsxType
  <1>2. /\ s.transport_flag \ {"TRANSPORT"} \in SUBSET s.transport_flag
        /\ s.resolving \ {s.pending_tx} \in SUBSET Messages
        /\ (IF s.pending_tx = NoMsg THEN s.refs ELSE s.refs - 1) \in Int
    BY DEF TsxType
  <1>3. CASE Has(s, "TRANSPORT")
    <2> DEFINE f == s.transport_flag \ {"TRANSPORT"}
               m == s.resolving \ {s.pending_tx}
               n == IF s.pending_tx = NoMsg THEN s.refs ELSE s.refs - 1
    <2>1. Detach(s) = [s EXCEPT !.transport_flag = f, !.resolving = m,
                                !.pending_tx = NoMsg, !.refs = n]
      BY <1>3 DEF Detach
    <2>2. f \in SUBSET s.transport_flag /\ m \in SUBSET Messages /\ n \in Int
      BY <1>2
    <2> HIDE DEF f, m, n
    <2>3. Same(s, [s EXCEPT !.transport_flag = f, !.resolving = m,
                            !.pending_tx = NoMsg, !.refs = n])
      BY <1>1, <2>2
    <2> QED
      BY <2>1, <2>3
  <1>4. CASE ~Has(s, "TRANSPORT")
    BY <1>4 DEF Detach, Same, Sends
  <1> QED
    BY <1>3, <1>4

LEMMA ShutdownBecomes ==
    ASSUME NEW s \in TsxType, s.state >= TERMINATED
    PROVE  Becomes(s, Shutdown(s), s.state, NoMsg)
  <1> DEFINE c == Cancel(Cancel(s, "timeout"), "retransmit")
             f == c.transport_flag \ {"RESCHED", "SEND"}
             g == IF "TRANSPORT" \in f THEN f \cup {"DESTROY"} ELSE f
             n == IF s.terminating THEN c.refs ELSE c.refs - 1
  <1>1. Same(s, c)
    <2>1. Same(s, Cancel(s, "timeout"))
      BY CancelSame, TimerNames
    <2>2. Same(Cancel(s, "timeout"), c)
      BY <2>1, CancelSame, TimerNames DEF Same, Sends
    <2> QED
      BY <2>1, <2>2, SendsSends DEF Same
  <1>2. c \in TsxType /\ g \in SUBSET Flags /\ n \in Int
    BY <1>1 DEF Same, Sends, TsxType, Flags
  <1>3. Shutdown(s) = [c EXCEPT !.transport = FALSE, !.last_tx = NoMsg,
                                !.transport_flag = g, !.terminating = TRUE,
                                !.refs = n]
    BY <1>2 DEF Shutdown, TsxType
  <1> QED
    <2> HIDE DEF c, g, n
    <2>1. Shutdown(s) \in TsxType
      <3>1. [c EXCEPT !.transport = FALSE, !.last_tx = NoMsg, !.transport_flag = g,
                      !.terminating = TRUE, !.refs = n] \in TsxType
        BY <1>2 DEF TsxType
      <3> QED
        BY <1>3, <3>1
    <2>2. /\ Shutdown(s).role = c.role /\ Shutdown(s).method = c.method
          /\ Shutdown(s).state = c.state /\ Shutdown(s).last_tx = NoMsg
          /\ Shutdown(s).sent = c.sent
      BY <1>2, <1>3 DEF TsxType
    <2> QED
      BY <1>1, <2>1, <2>2 DEF Same, Sends, Becomes

LEMMA FinishBecomes ==
    ASSUME NEW s \in TsxType, NEW st \in States, st = DESTROYED => s.state >= TERMINATED
    PROVE  Becomes(s, Finish(s, st), s.state,
                   IF st = DESTROYED THEN NoMsg ELSE s.last_tx)
  <1>1. CASE st = TERMINATED
    <2>1. Same(s, Detach(s))
      BY DetachSame
    <2>2. Same(Detach(s), Restart(Detach(s), "timeout", TIMEOUT))
      BY <2>1, RestartSame, TimerNames, IdNames DEF Same, Sends
    <2> QED
      BY <1>1, <2>1, <2>2 DEF Finish, Same, Sends, Becomes, TERMINATED, DESTROYED
  <1>2. CASE st = DESTROYED
    BY <1>2, ShutdownBecomes DEF Finish, TERMINATED, DESTROYED
  <1>3. CASE st \notin {TERMINATED, DESTROYED}
    BY <1>3 DEF Finish, Becomes
  <1> QED
    BY <1>1, <1>2, <1>3

LEMMA SetStateBecomes ==
    ASSUME NEW s \in TsxType, NEW st \in States
    PROVE  Becomes(s, SetState(s, st), st,
                   IF st = DESTROYED THEN NoMsg ELSE s.last_tx)
  <1> DEFINE e == Enter(s, st)
             q == Tell(e, st)
  <1>1. Becomes(s, q, st, s.last_tx)
    <2>1. Becomes(s, e, st, s.last_tx)
      BY EnterBecomes
    <2>2. Same(e, q)
      BY <2>1, TellSame DEF Becomes
    <2> QED
      BY <2>1, <2>2, SameBecomes
  <1>2. Becomes(q, Finish(q, st), q.state, IF st = DESTROYED THEN NoMsg ELSE q.last_tx)
    BY <1>1, FinishBecomes DEF Becomes, TERMINATED, DESTROYED
  <1> QED
    BY <1>1, <1>2 DEF SetState, Becomes

LEMMA SetStateLeads ==
    ASSUME NEW s \in TsxType
    PROVE  /\ Leads(s, SetState(s, TERMINATED), {})
           /\ Late(s) => Leads(s, SetState(s, DESTROYED), {})
  <1>1. TERMINATED \in States /\ DESTROYED \in States /\ TERMINATED # DESTROYED
    BY DEF States, NULL, TERMINATED, DESTROYED
  <1> QED
    BY <1>1, SetStateBecomes DEF Becomes, Leads

-----------------------------------------------------------------------------
(* Sending.                                                                *)

LEMMA OutcomeTypes ==
    ASSUME NEW o \in Outcomes
    PROVE  /\ o.direct \in DirectOutcomes /\ o.again \in DirectOutcomes
           /\ o.resolve \in ResolveOutcomes /\ o.reliable \in BOOLEAN
  BY DEF Outcomes

LEMMA ReschedSame ==
    ASSUME NEW s \in TsxType
    PROVE  Same(s, ReschedRetransmission(s))
  <1> DEFINE p == Check(s, "resched_pending", ~Has(s, "TRANSPORT"))
             q == Check(p, "resched_after_final",
                        s.role = "UAC" => s.status_code < 200)
  <1>1. Same(s, p)
    BY CheckSame DEF Asserts
  <1>2. Same(p, q)
    BY <1>1, CheckSame DEF Asserts, Same, Sends
  <1>3. Same(q, Schedule(q, "retransmit", RETRANSMIT))
    <2>1. q \in TsxType
      BY <1>2 DEF Same, Sends
    <2> HIDE DEF q
    <2> QED
      BY <2>1, ScheduleSame, TimerNames, IdNames
  <1>4. ReschedRetransmission(s) = Schedule(q, "retransmit", RETRANSMIT)
    BY DEF ReschedRetransmission, Check, Has, TsxType
  <1> QED
    BY <1>1, <1>2, <1>3, <1>4 DEF Same, Sends

LEMMA StartSame ==
    ASSUME NEW s \in TsxType
    PROVE  Same(s, StartRetransmission(s))
  BY FlagSame, ScheduleSame, TimerNames, IdNames DEF StartRetransmission, Flags

LEMMA PendingReschedSame ==
    ASSUME NEW s \in TsxType
    PROVE  Same(s, DoPendingResched(s))
  <1>1. Same(s, Clear(s, "RESCHED"))
    BY FlagSame DEF Flags
  <1>2. Same(Clear(s, "RESCHED"), ReschedRetransmission(Clear(s, "RESCHED")))
    BY <1>1, ReschedSame DEF Same, Sends
  <1>3. Same(s, ReschedRetransmission(Clear(s, "RESCHED")))
    BY <1>1, <1>2, SendsSends DEF Same
  <1>4. Same(s, s)
    BY DEF Same, Sends
  <1> QED
    BY <1>1, <1>3, <1>4 DEF DoPendingResched

LEMMA DirectSendSends ==
    ASSUME NEW s \in TsxType, NEW m \in Messages, NEW outcome \in DirectOutcomes
    PROVE  Sends(s, DirectSend(s, m, outcome), {m})
  <1>1. CASE outcome = "sent"
    BY <1>1 DEF DirectSend, Sends, TsxType
  <1>2. CASE outcome = "pending"
    <2> DEFINE q == Raise(s, "TRANSPORT")
    <2>1. Same(s, q)
      BY FlagSame DEF Flags
    <2>2. Sends(q, [q EXCEPT !.sent = q.sent \cup {m},
                             !.direct = q.direct \cup {m},
                             !.refs = q.refs + 1], {m})
      <3>1. q \in TsxType
        BY <2>1 DEF Same, Sends
      <3> HIDE DEF q
      <3>2. ASSUME NEW d \in SUBSET Messages, NEW n \in Int,
                   NEW u \in SUBSET Messages, u = q.sent \cup {m}
            PROVE  Sends(q, [q EXCEPT !.sent = u, !.direct = d, !.refs = n], {m})
        BY <3>1, <3>2 DEF Sends, TsxType
      <3>3. /\ q.sent \cup {m} \in SUBSET Messages
            /\ q.direct \cup {m} \in SUBSET Messages
            /\ q.refs + 1 \in Int
        BY <3>1 DEF TsxType
      <3> QED
        BY <3>2, <3>3
    <2> QED
      BY <1>2, <2>1, <2>2, SendsSends DEF DirectSend, Same
  <1>3. CASE outcome = "failed"
    BY <1>3 DEF DirectSend, Sends, TsxType
  <1>4. CASE outcome = "broken"
    <2> DEFINE q == Post(s, DISC)
    <2>1. Same(s, q)
      BY PostSame, IdNames
    <2>2. Sends(q, [q EXCEPT !.transport = FALSE], {m})
      <3>1. q \in TsxType
        BY <2>1 DEF Same, Sends
      <3> HIDE DEF q
      <3> QED
        BY <3>1 DEF Sends, TsxType
    <2> QED
      BY <1>4, <2>1, <2>2, SendsSends DEF DirectSend, Same
  <1> QED
    BY <1>1, <1>2, <1>3, <1>4, ConfigAssumption

LEMMA TransportFailureLeads ==
    ASSUME NEW s \in TsxType
    PROVE  Leads(s, TransportFailure(s), {})
  <1> DEFINE q == [s EXCEPT !.status_code = TransportErrorCode]
  <1>1. Same(s, q)
    BY DEF Same, Sends, TsxType, Codes
  <1>2. Leads(q, SetState(q, TERMINATED), {})
    BY <1>1, SetStateLeads DEF Same, Sends
  <1> QED
    BY <1>1, <1>2, SendsLeads DEF TransportFailure, Same

LEMMA SendAgainLeads ==
    ASSUME NEW s \in TsxType, NEW m \in Messages \cup {NoMsg},
           NEW outcome \in DirectOutcomes
    PROVE  Leads(s, SendAgain(s, m, outcome), {m})
  <1>1. CASE m = NoMsg
    <2>1. Same(s, Check(s, "last_tx", FALSE))
      BY CheckSame DEF Asserts
    <2> QED
      BY <1>1, <2>1 DEF SendAgain, Same, Sends, Leads
  <1>2. CASE m # NoMsg /\ m \in s.direct
    BY <1>2 DEF SendAgain, Sends, Leads
  <1>3. CASE m # NoMsg /\ m \notin s.direct
    <2> DEFINE q == DirectSend(s, m, outcome)
    <2>1. Sends(s, q, {m})
      BY <1>3, DirectSendSends
    <2>2. Leads(q, TransportFailure(q), {})
      BY <2>1, TransportFailureLeads DEF Sends
    <2>3. Leads(s, TransportFailure(q), {m})
      BY <2>1, <2>2, SendsLeads
    <2> QED
      BY <1>3, <2>1, <2>3, SameLeads DEF SendAgain
  <1> QED
    BY <1>1, <1>2, <1>3

LEMMA ResolvedSame ==
    ASSUME NEW s \in TsxType, NEW o \in Outcomes
    PROVE  Same(s, Resolved(s, o))
  <1>1. ASSUME NEW f \in SUBSET Flags, NEW b \in BOOLEAN,
               "DESTROY" \in f => "DESTROY" \in s.transport_flag
        PROVE  Same(s, [s EXCEPT !.transport = TRUE, !.is_reliable = b,
                                 !.pending_tx = NoMsg, !.transport_flag = f])
    BY <1>1 DEF Same, Sends, TsxType
  <1>2. (s.transport_flag \ {"TRANSPORT"}) \cup {"RESOLVED"} \in SUBSET Flags
    BY DEF TsxType, Flags
  <1> QED
    BY <1>1, <1>2, OutcomeTypes DEF Resolved

LEMMA ResolveFailedSame ==
    ASSUME NEW s \in TsxType
    PROVE  Same(s, ResolveFailed(s))
  <1>1. ASSUME NEW f \in SUBSET Flags, NEW c \in Codes,
               "DESTROY" \in f => "DESTROY" \in s.transport_flag
        PROVE  Same(s, [s EXCEPT !.transport = FALSE, !.pending_tx = NoMsg,
                                 !.status_code = c, !.transport_flag = f])
    BY <1>1 DEF Same, Sends, TsxType
  <1>2. /\ (s.transport_flag \ {"TRANSPORT"}) \cup {"RESOLVED"} \in SUBSET Flags
        /\ TransportErrorCode \in Codes
    BY DEF TsxType, Flags, Codes
  <1> QED
    BY <1>1, <1>2 DEF ResolveFailed

LEMMA InlineResolvedLeads ==
    ASSUME NEW s \in TsxType, NEW o \in Outcomes
    PROVE  Leads(s, InlineResolved(s, o), {s.last_tx})
  <1>1. CASE Has(s, "DESTROY")
    BY <1>1, SetStateLeads DEF InlineResolved, Has, Late, Leads, Sends
  <1>2. CASE ~Has(s, "DESTROY")
    <2> DEFINE q == Clear(s, "SEND")
               r == IF Has(s, "SEND") THEN SendAgain(q, s.last_tx, o.again) ELSE s
    <2>1. Same(s, q)
      BY FlagSame DEF Flags
    <2>2. Leads(q, SendAgain(q, s.last_tx, o.again), {s.last_tx})
      BY <2>1, SendAgainLeads, OutcomeTypes DEF Same, Sends, TsxType
    <2>3. Leads(s, SendAgain(q, s.last_tx, o.again), {s.last_tx})
      BY <2>1, <2>2, SendsLeads DEF Same
    <2>4. Leads(s, s, {s.last_tx})
      BY DEF Leads, Sends
    <2>5. Leads(s, r, {s.last_tx})
      BY <2>3, <2>4
    <2>6. Same(r, DoPendingResched(r))
      BY <2>5, PendingReschedSame DEF Leads
    <2> QED
      BY <1>2, <2>5, <2>6, LeadsSame DEF InlineResolved
  <1> QED
    BY <1>1, <1>2

LEMMA InlineFailedLeads ==
    ASSUME NEW s \in TsxType
    PROVE  Leads(s, InlineFailed(s), {})
  <1>1. Leads(s, s, {})
    BY DEF Leads, Sends
  <1> QED
    BY <1>1, SetStateLeads DEF InlineFailed, Has, Late

LEMMA ResolveAndSendLeads ==
    ASSUME NEW s \in TsxType, NEW m \in Messages, NEW o \in Outcomes
    PROVE  Leads(s, ResolveAndSend(s, m, o), {m, s.last_tx})
  <1>1. CASE Has(s, "RESOLVED")
    BY <1>1, TransportFailureLeads, SameLeads DEF ResolveAndSend, Leads, Sends
  <1>2. CASE ~Has(s, "RESOLVED") /\ o.resolve = "sent"
    <2> DEFINE p == [s EXCEPT !.sent = @ \cup {m}]
               q == Resolved(p, o)
    <2>1. Sends(s, p, {m})
      BY DEF Sends, TsxType
    <2>2. Same(p, q)
      BY <2>1, ResolvedSame DEF Sends
    <2>3. Sends(s, q, {m})
      BY <2>1, <2>2, SendsSends DEF Same
    <2>4. Leads(q, InlineResolved(q, o), {s.last_tx})
      BY <2>3, InlineResolvedLeads DEF Sends
    <2>5. Leads(s, InlineResolved(q, o), {m, s.last_tx})
      BY <2>3, <2>4, SendsLeads
    <2> QED
      BY <1>2, <2>5 DEF ResolveAndSend
  <1>3. CASE ~Has(s, "RESOLVED") /\ o.resolve = "pending"
    <2> DEFINE q == Raise(s, "TRANSPORT")
    <2>1. Same(s, q)
      BY FlagSame DEF Flags
    <2>2. Sends(q, [q EXCEPT !.sent = q.sent \cup {m},
                             !.resolving = q.resolving \cup {m},
                             !.pending_tx = m, !.refs = q.refs + 1], {m})
      <3>1. q \in TsxType
        BY <2>1 DEF Same, Sends
      <3> HIDE DEF q
      <3>2. ASSUME NEW d \in SUBSET Messages, NEW n \in Int,
                   NEW u \in SUBSET Messages, u = q.sent \cup {m}
            PROVE  Sends(q, [q EXCEPT !.sent = u, !.resolving = d,
                                      !.pending_tx = m, !.refs = n], {m})
        BY <3>1, <3>2 DEF Sends, TsxType
      <3>3. /\ q.sent \cup {m} \in SUBSET Messages
            /\ q.resolving \cup {m} \in SUBSET Messages
            /\ q.refs + 1 \in Int
        BY <3>1 DEF TsxType
      <3> QED
        BY <3>2, <3>3
    <2>3. Sends(s, ResolveAndSend(s, m, o), {m, s.last_tx})
      BY <1>3, <2>1, <2>2, SendsSends DEF ResolveAndSend, Same
    <2> QED
      BY <2>3, SameLeads
  <1>4. CASE ~Has(s, "RESOLVED") /\ o.resolve = "failed"
    <2>1. Same(s, ResolveFailed(s))
      BY ResolveFailedSame
    <2>2. Leads(ResolveFailed(s), InlineFailed(ResolveFailed(s)), {})
      BY <2>1, InlineFailedLeads DEF Same, Sends
    <2> QED
      BY <1>4, <2>1, <2>2, SendsLeads DEF ResolveAndSend, Same
  <1> QED
    BY <1>1, <1>2, <1>3, <1>4, OutcomeTypes, ConfigAssumption

LEMMA SendMsgLeads ==
    ASSUME NEW s \in TsxType, NEW m \in Messages \cup {NoMsg}, NEW o \in Outcomes
    PROVE  Leads(s, SendMsg(s, m, o), {m, s.last_tx})
  <1>1. CASE m = NoMsg
    <2>1. Same(s, Check(s, "last_tx", FALSE))
      BY CheckSame DEF Asserts
    <2> QED
      BY <1>1, <2>1 DEF SendMsg, Same, Sends, Leads
  <1>2. CASE m # NoMsg /\ Has(s, "TRANSPORT")
    <2>1. Same(s, Raise(s, "SEND"))
      BY FlagSame DEF Flags
    <2> QED
      BY <1>2, <2>1 DEF SendMsg, Same, Sends, Leads
  <1>3. CASE m # NoMsg /\ ~Has(s, "TRANSPORT") /\ m \in s.direct
    BY <1>3 DEF SendMsg, Sends, Leads
  <1>4. CASE m # NoMsg /\ ~Has(s, "TRANSPORT") /\ m \notin s.direct /\ ~s.transport
    <2> DEFINE q == Check(s, "unexpected_status", ~Has(s, "RESOLVED"))
    <2>1. Same(s, q)
      BY CheckSame DEF Asserts
    <2>2. Leads(q, ResolveAndSend(q, m, o), {m, s.last_tx})
      BY <1>4, <2>1, ResolveAndSendLeads DEF Same, Sends
    <2>3. Leads(s, ResolveAndSend(q, m, o), {m, s.last_tx})
      BY <2>1, <2>2, SendsLeads DEF Same
    <2> QED
      BY <1>4, <2>3 DEF SendMsg
  <1>5. CASE m # NoMsg /\ ~Has(s, "TRANSPORT") /\ m \notin s.direct /\ s.transport
    <2> DEFINE q == DirectSend(s, m, o.direct)
    <2>1. Sends(s, q, {m})
      BY <1>5, DirectSendSends, OutcomeTypes
    <2>2. Leads(q, ResolveAndSend(q, m, o), {m, s.last_tx})
      BY <1>5, <2>1, ResolveAndSendLeads DEF Sends
    <2>3. Leads(s, ResolveAndSend(q, m, o), {m, s.last_tx})
      BY <2>1, <2>2, SendsLeads
    <2>4. Leads(s, q, {m, s.last_tx})
      BY <2>1 DEF Sends, Leads
    <2> QED
      BY <1>5, <2>3, <2>4 DEF SendMsg
  <1> QED
    BY <1>1, <1>2, <1>3, <1>4, <1>5

LEMMA AfterSentLeads ==
    ASSUME NEW s \in TsxType, NEW o \in Outcomes
    PROVE  Leads(s, AfterSent(s, o), {s.last_tx})
  <1>1. CASE Has(s, "DESTROY")
    BY <1>1, SetStateLeads DEF AfterSent, Has, Late, Leads, Sends
  <1>2. CASE ~Has(s, "DESTROY")
    <2> DEFINE q == Clear(s, "SEND")
               r == IF Has(s, "SEND") THEN SendMsg(q, s.last_tx, o) ELSE s
    <2>1. Same(s, q)
      BY FlagSame DEF Flags
    <2>2. Leads(q, SendMsg(q, s.last_tx, o), {s.last_tx})
      BY <2>1, SendMsgLeads DEF Same, Sends, TsxType
    <2>3. Leads(s, SendMsg(q, s.last_tx, o), {s.last_tx})
      BY <2>1, <2>2, SendsLeads DEF Same
    <2>4. Leads(s, s, {s.last_tx})
      BY DEF Leads, Sends
    <2>5. Leads(s, r, {s.last_tx})
      BY <2>3, <2>4
    <2>6. Same(r, DoPendingResched(r))
      BY <2>5, PendingReschedSame DEF Leads
    <2> QED
      BY <1>2, <2>5, <2>6, LeadsSame DEF AfterSent
  <1> QED
    BY <1>1, <1>2

LEMMA RetransmitLeads ==
    ASSUME NEW s \in TsxType, NEW resched \in BOOLEAN, NEW o \in Outcomes
    PROVE  Leads(s, Retransmit(s, resched, o), {s.last_tx})
  <1> DEFINE c == Check(s, "retransmit_confirmed", s.state # CONFIRMED)
             r == IF Has(c, "TRANSPORT") THEN Raise(c, "RESCHED")
                  ELSE ReschedRetransmission(c)
  <1>1. Leads(s, s, {s.last_tx})
    BY DEF Leads, Sends
  <1>2. Leads(s, Check(s, "last_tx", FALSE), {s.last_tx})
    <2>1. Same(s, Check(s, "last_tx", FALSE))
      BY CheckSame DEF Asserts
    <2>2. Sends(s, Check(s, "last_tx", FALSE), {s.last_tx})
      BY <2>1 DEF Same, Sends
    <2> QED
      BY <2>2, SameLeads
  <1>3. Leads(s, SendMsg(s, s.last_tx, o), {s.last_tx})
    BY SendMsgLeads DEF TsxType
  <1>4. Leads(s, SendMsg(r, r.last_tx, o), {s.last_tx})
    <2>1. Same(s, c)
      BY CheckSame DEF Asserts
    <2>2. Same(c, r)
      BY <2>1, FlagSame, ReschedSame DEF Same, Sends, Flags
    <2>3. Same(s, r)
      BY <2>1, <2>2, SendsSends DEF Same
    <2>4. Leads(r, SendMsg(r, r.last_tx, o), {r.last_tx})
      BY <2>3, SendMsgLeads DEF Same, Sends, TsxType
    <2> QED
      BY <2>3, <2>4, SendsLeads DEF Same, Sends
  <1> QED
    BY <1>1, <1>2, <1>3, <1>4 DEF Retransmit

-----------------------------------------------------------------------------
(* The invariant of a transaction's record.                                *)

\* A final response is on the wire only once COMPLETED has been reached, it
\* is the one the transaction would repeat, if it still has it, and COMPLETED
\* always has it.  A client never has one.
Sound(s) ==
    /\ s \in TsxType
    /\ "DESTROY" \in s.transport_flag => s.state >= TERMINATED
    /\ \A c, d \in s.sent \cap Final : c = d
    /\ s.last_tx # NoMsg => s.sent \cap Final \subseteq {s.last_tx}
    /\ s.role = "UAC" \/ s.state < COMPLETED =>
           s.sent \cap Final = {} /\ s.last_tx \notin Final
    /\ s.role = "UAS" => /\ s.state = PROCEEDING => s.last_tx \in Provisional
                         /\ s.state = COMPLETED => s.last_tx \in Final

\* What every step keeps; that a transaction does not come back from its end
\* is part of it.
Follows(s, r) ==
    /\ Sound(r)
    /\ s.state >= TERMINATED => r.state >= TERMINATED

LEMMA LeadsFollows ==
    ASSUME NEW s, NEW r, NEW M, Sound(s), Leads(s, r, M), M \cap Final \subseteq {s.last_tx}
    PROVE  Follows(s, r)
  <1> USE DEF COMPLETED, PROCEEDING, TERMINATED, DESTROYED
  <1>1. NoMsg \notin Final
    BY DEF NoMsg, Final
  <1>2. r.sent \cap Final \subseteq (s.sent \cap Final) \cup {s.last_tx}
    BY DEF Leads
  <1>3. \A c, d \in r.sent \cap Final : c = d
    BY <1>1, <1>2 DEF Sound, Leads
  <1>4. r.last_tx # NoMsg => r.sent \cap Final \subseteq {r.last_tx}
    BY <1>1, <1>2 DEF Sound, Leads
  <1>5. s.state \in Int
    BY DEF Sound, TsxType, States, NULL
  <1>6. CASE Sends(s, r, M)
    BY <1>1, <1>2, <1>3, <1>4, <1>6 DEF Sound, Follows, Sends
  <1>7. CASE r.state \in {TERMINATED, DESTROYED}
    <2>1. r.role = "UAC" => r.sent \cap Final = {} /\ r.last_tx \notin Final
      BY <1>1, <1>2 DEF Sound, Leads
    <2> QED
      BY <1>3, <1>4, <1>7, <2>1 DEF Sound, Follows, Leads
  <1> QED
    BY <1>6, <1>7 DEF Leads

LEMMA SameFollows ==
    ASSUME NEW s, NEW r, Sound(s), Same(s, r)
    PROVE  Follows(s, r)
  BY LeadsFollows, SameLeads DEF Same

LEMMA EndFollows ==
    ASSUME NEW s, NEW r, NEW st \in {TERMINATED, DESTROYED},
           NEW tx \in {s.last_tx, NoMsg}, Sound(s), Becomes(s, r, st, tx)
    PROVE  Follows(s, r)
  <1> USE DEF COMPLETED, PROCEEDING, TERMINATED, DESTROYED
  <1>1. NoMsg \notin Final
    BY DEF NoMsg, Final
  <1> QED
    BY <1>1 DEF Sound, Follows, Becomes

LEMMA FollowsTrans ==
    ASSUME NEW s, NEW q, NEW r, Follows(s, q), Follows(q, r)
    PROVE  Follows(s, r)
  BY DEF Follows

LEMMA ClientFollows ==
    ASSUME NEW s, NEW r \in TsxType, Sound(s), s.role = "UAC", s.state < TERMINATED,
           r.role = "UAC", r.last_tx \notin Final, r.sent \cap Final = {},
           "DESTROY" \in r.transport_flag => r.state >= TERMINATED
    PROVE  Follows(s, r)
  <1>1. s.state \in Int /\ TERMINATED \in Int
    BY DEF Sound, TsxType, States, NULL, DESTROYED, TERMINATED
  <1> QED
    BY <1>1 DEF Sound, Follows

-----------------------------------------------------------------------------
(* The state handlers.                                                     *)

LEMMA StateNumbers ==
    /\ NULL \in States /\ CALLING \in States /\ TRYING \in States
    /\ PROCEEDING \in States /\ COMPLETED \in States /\ CONFIRMED \in States
    /\ TERMINATED \in States /\ DESTROYED \in States
    /\ \A st \in {NULL, CALLING, TRYING, PROCEEDING, COMPLETED, CONFIRMED} :
           st < TERMINATED /\ st # DESTROYED
    /\ \A st \in {NULL, CALLING, TRYING, PROCEEDING} : st < COMPLETED
    /\ TERMINATED >= TERMINATED /\ DESTROYED >= TERMINATED
  BY DEF States, NULL, CALLING, TRYING, PROCEEDING, COMPLETED, CONFIRMED,
         TERMINATED, DESTROYED

LEMMA CodeKinds ==
    /\ Provisional \cap Final = {}
    /\ Provisional \cup Final \subseteq Messages \cap Codes
    /\ NoMsg \notin Final /\ Ack \notin Final /\ Request \notin Final
    /\ NoMsg \notin Provisional
    /\ NoMsg \notin Messages
    /\ Ack \in Messages /\ Request \in Messages
    /\ \A method : Responses(method) \subseteq Provisional \cup Final
    /\ \A c \in Provisional \cup Final : c \in Int
    /\ \A c \in Provisional : c < 200
    /\ \A c \in Final : c >= 200 /\ (c = 200 \/ c >= 300)
  BY DEF Provisional, Final, Messages, Codes, NoMsg, Ack, Request, Responses

LEMMA CallingResponseSame ==
    ASSUME NEW s \in TsxType, NEW c
    PROVE  Same(s, CallingResponse(s, c))
  <1> DEFINE q == Cancel(s, "retransmit")
             u == IF c >= 200
                  THEN IF q.id["timeout"] # INACTIVE THEN Cancel(q, "timeout") ELSE q
                  ELSE IF s.method = "INVITE" THEN Cancel(q, "timeout")
                  ELSE IF q.is_reliable THEN q
                  ELSE Schedule(q, "retransmit", RETRANSMIT)
  <1>1. Same(s, q)
    BY CancelSame, TimerNames
  <1>2. q \in TsxType
    BY <1>1 DEF Same, Sends
  <1>3. Same(q, q) /\ Same(q, Cancel(q, "timeout"))
            /\ Same(q, Schedule(q, "retransmit", RETRANSMIT))
    <2> HIDE DEF q
    <2>1. Same(q, q)
      BY <1>2 DEF Same, Sends
    <2>2. Same(q, Cancel(q, "timeout"))
      BY <1>2, CancelSame, TimerNames
    <2>3. Same(q, Schedule(q, "retransmit", RETRANSMIT))
      BY <1>2, ScheduleSame, TimerNames, IdNames
    <2> QED
      BY <2>1, <2>2, <2>3
  <1>4. Same(q, u)
    BY <1>3
  <1>5. Same(u, Clear(u, "RESCHED"))
    BY <1>4, FlagSame DEF Same, Sends, Flags
  <1> HIDE DEF u, q
  <1>6. Same(s, Clear(u, "RESCHED"))
    BY <1>1, <1>4, <1>5, SendsSends DEF Same
  <1> QED
    BY <1>6 DEF CallingResponse, u, q

LEMMA ProceedingUacFollows ==
    ASSUME NEW s, NEW c \in Provisional \cup Final, NEW o \in Outcomes,
           Sound(s), s.role = "UAC", s.state \in {CALLING, PROCEEDING}
    PROVE  Follows(s, ProceedingUac(s, c, o))
  <1>1. /\ s \in TsxType /\ s.state < TERMINATED /\ ~Late(s)
        /\ s.last_tx \notin Final /\ s.sent \cap Final = {}
    BY StateNumbers DEF Sound, Late, TsxType, States, NULL, DESTROYED, TERMINATED
  <1>2. CASE c < 200
    <2>1. Becomes(s, SetState(s, PROCEEDING), PROCEEDING, s.last_tx)
      BY <1>1, SetStateBecomes, StateNumbers
    <2>2. Follows(s, SetState(s, PROCEEDING))
      BY <1>1, <2>1, ClientFollows DEF Becomes, Late
    <2> QED
      BY <1>2, <2>2, CodeKinds DEF ProceedingUac
  <1>3. CASE c = 200 /\ s.method = "INVITE"
    <2> DEFINE q == Cancel(s, "timeout")
    <2>1. Same(s, q)
      BY <1>1, CancelSame, TimerNames
    <2>2. Becomes(q, SetState(q, TERMINATED), TERMINATED, q.last_tx)
      BY <2>1, SetStateBecomes, StateNumbers DEF Same, Sends, TERMINATED, DESTROYED
    <2>3. Follows(s, SetState(q, TERMINATED))
      BY <1>1, <2>1, <2>2, ClientFollows DEF Becomes, Same, Sends, TERMINATED
    <2> QED
      BY <1>3, <2>3 DEF ProceedingUac
  <1>4. CASE c = 200 /\ s.method # "INVITE"
    <2> DEFINE p == Restart(s, "timeout", TIMEOUT)
               q == Cancel(p, "retransmit")
    <2>1. Same(s, p)
      BY <1>1, RestartSame, TimerNames, IdNames
    <2>2. Same(p, q)
      BY <2>1, CancelSame, TimerNames DEF Same, Sends
    <2>3. Same(s, q)
      BY <2>1, <2>2, SendsSends DEF Same
    <2>4. Becomes(q, SetState(q, COMPLETED), COMPLETED, q.last_tx)
      BY <2>3, SetStateBecomes, StateNumbers DEF Same, Sends
    <2>5. Follows(s, SetState(q, COMPLETED))
      BY <1>1, <2>3, <2>4, ClientFollows DEF Becomes, Same, Sends, Late
    <2> QED
      BY <1>4, <2>5 DEF ProceedingUac
  <1>5. CASE c >= 300
    <2> DEFINE p == Cancel(s, "retransmit")
               q == Cancel(p, "timeout")
               a == IF s.method = "INVITE" THEN SendMsg(q, Ack, o) ELSE q
               r == SetState(a, COMPLETED)
               e == [r EXCEPT !.last_tx = IF s.method = "INVITE" THEN Ack ELSE @]
               z == Restart(e, "timeout", TIMEOUT)
    <2>1. Same(s, q)
      <3>1. Same(s, p)
        BY <1>1, CancelSame, TimerNames
      <3>2. Same(p, q)
        BY <3>1, CancelSame, TimerNames DEF Same, Sends
      <3> QED
        BY <3>1, <3>2, SendsSends DEF Same
    <2>2. Leads(s, a, {Ack, s.last_tx})
      <3>1. Leads(q, SendMsg(q, Ack, o), {Ack, q.last_tx})
        BY <2>1, SendMsgLeads, CodeKinds DEF Same, Sends
      <3>2. Leads(s, SendMsg(q, Ack, o), {Ack, s.last_tx})
        BY <2>1, <3>1, SendsLeads DEF Same, Sends
      <3>3. Leads(s, q, {Ack, s.last_tx})
        BY <2>1 DEF Same, Sends, Leads
      <3> QED
        BY <3>2, <3>3
    <2>3. Follows(s, a)
      BY <1>1, <2>2, LeadsFollows, CodeKinds
    <2>4. ASSUME ~SendFailed(a)
          PROVE  Sends(s, a, {Ack, s.last_tx})
      BY <1>1, <2>2, <2>4 DEF Leads, SendFailed
    <2>5. ASSUME ~SendFailed(a)
          PROVE  Follows(s, SetState(a, TERMINATED))
      <3>1. Becomes(a, SetState(a, TERMINATED), TERMINATED, a.last_tx)
        BY <2>2, SetStateBecomes, StateNumbers DEF Leads, TERMINATED, DESTROYED
      <3> QED
        BY <2>3, <3>1, EndFollows, FollowsTrans DEF Follows
    <2>6. ASSUME ~SendFailed(a)
          PROVE  Follows(s, z)
      <3>1. Becomes(a, r, COMPLETED, a.last_tx)
        BY <2>2, SetStateBecomes, StateNumbers DEF Leads
      <3>2. /\ e \in TsxType /\ e.role = r.role /\ e.sent = r.sent
            /\ e.last_tx \in {Ack, r.last_tx}
            /\ e.transport_flag = r.transport_flag
        <4>1. r \in TsxType
          BY <3>1 DEF Becomes
        <4> HIDE DEF r
        <4> QED
          BY <4>1, CodeKinds DEF TsxType
      <3>3. Same(e, z)
        BY <3>2, RestartSame, TimerNames, IdNames
      <3>4. /\ z \in TsxType /\ z.role = "UAC"
            /\ "DESTROY" \in z.transport_flag => "DESTROY" \in e.transport_flag
            /\ z.last_tx \in {Ack, a.last_tx} /\ z.sent \subseteq a.sent
        BY <2>2, <3>1, <3>2, <3>3 DEF Same, Sends, Becomes, Leads
      <3>5. "DESTROY" \notin z.transport_flag
        BY <1>1, <2>4, <2>6, <3>1, <3>2, <3>4
        DEF Becomes, Sends, Late, COMPLETED, TERMINATED
      <3> HIDE DEF z, a
      <3>6. z.last_tx \notin Final /\ z.sent \cap Final = {}
        BY <1>1, <2>2, <3>4, CodeKinds DEF Leads
      <3> QED
        BY <1>1, <3>4, <3>5, <3>6, ClientFollows
    <2> QED
      BY <1>5, <2>3, <2>5, <2>6 DEF ProceedingUac
  <1> QED
    BY <1>2, <1>3, <1>4, <1>5, CodeKinds

LEMMA StatusSame ==
    ASSUME NEW s \in TsxType, NEW c \in Codes
    PROVE  Same(s, [s EXCEPT !.status_code = c])
  BY DEF Same, Sends, TsxType

LEMMA OnResponseFollows ==
    ASSUME NEW s, NEW c \in Provisional \cup Final, NEW o \in Outcomes,
           Sound(s), s.role = "UAC"
    PROVE  Follows(s, OnResponse(s, c, o))
  <1>1. s \in TsxType /\ c \in Codes
    BY CodeKinds DEF Sound
  <1>2. CASE s.state = CALLING
    <2> DEFINE p == CallingResponse(s, c)
               q == [p EXCEPT !.status_code = c]
    <2>1. Same(s, p)
      BY <1>1, CallingResponseSame
    <2>2. Same(p, q)
      BY <1>1, <2>1, StatusSame DEF Same, Sends
    <2>3. Same(s, q)
      BY <2>1, <2>2, SendsSends DEF Same
    <2>4. Follows(s, q) /\ q.role = "UAC" /\ q.state = CALLING
      BY <1>2, <2>3, SameFollows DEF Same, Sends
    <2>5. Follows(q, ProceedingUac(q, c, o))
      BY <2>4, ProceedingUacFollows DEF Follows
    <2> QED
      BY <1>2, <2>4, <2>5, FollowsTrans
        DEF OnResponse, CALLING, PROCEEDING, COMPLETED
  <1>3. CASE s.state = PROCEEDING
    <2> DEFINE q == [s EXCEPT !.status_code = c]
    <2>1. Same(s, q)
      BY <1>1, StatusSame
    <2>2. Follows(s, q) /\ q.role = "UAC" /\ q.state = PROCEEDING
      BY <1>3, <2>1, SameFollows DEF Same, Sends
    <2>3. Follows(q, ProceedingUac(q, c, o))
      BY <2>2, ProceedingUacFollows DEF Follows
    <2> QED
      BY <1>3, <2>2, <2>3, FollowsTrans
        DEF OnResponse, CALLING, PROCEEDING, COMPLETED
  <1>4. CASE s.state \notin {CALLING, PROCEEDING}
    <2>1. Follows(s, Retransmit(s, FALSE, o))
      BY <1>1, RetransmitLeads, LeadsFollows
    <2>2. Follows(s, s)
      BY DEF Follows
    <2> QED
      BY <1>4, <2>1, <2>2 DEF OnResponse
  <1> QED
    BY <1>2, <1>3, <1>4

LEMMA OnRequestFollows ==
    ASSUME NEW s, NEW o \in Outcomes, Sound(s)
    PROVE  Follows(s, OnRequest(s, o))
  <1>1. s \in TsxType
    BY DEF Sound
  <1>2. CASE s.state = NULL
    <2>1. Becomes(s, SetState(s, TRYING), TRYING, s.last_tx)
      BY <1>1, SetStateBecomes, StateNumbers
    <2>2. Follows(s, SetState(s, TRYING))
      BY <1>2, <2>1 DEF Becomes, Sound, Follows, NULL, TRYING, PROCEEDING,
                        COMPLETED, TERMINATED
    <2> QED
      BY <1>2, <2>2 DEF OnRequest, NULL, PROCEEDING, COMPLETED
  <1>3. Follows(s, SendMsg(s, s.last_tx, o))
    <2>1. Leads(s, SendMsg(s, s.last_tx, o), {s.last_tx})
      BY <1>1, SendMsgLeads DEF TsxType
    <2> QED
      BY <2>1, LeadsFollows
  <1>4. Follows(s, Retransmit(s, FALSE, o))
    BY <1>1, RetransmitLeads, LeadsFollows
  <1>5. Follows(s, s)
    BY DEF Follows
  <1> QED
    BY <1>2, <1>3, <1>4, <1>5 DEF OnRequest, NULL, PROCEEDING, COMPLETED

LEMMA OnAckFollows ==
    ASSUME NEW s, Sound(s)
    PROVE  Follows(s, OnAck(s))
  <1> DEFINE p == Cancel(s, "retransmit")
             q == Clear(p, "RESCHED")
             u == Restart(q, "timeout", TIMEOUT)
             r == SetState(u, CONFIRMED)
  <1>1. Same(s, u)
    <2>1. Same(s, p)
      BY CancelSame, TimerNames DEF Sound
    <2>2. Same(p, q)
      BY <2>1, FlagSame DEF Same, Sends, Flags
    <2>3. Same(q, u)
      BY <2>2, RestartSame, TimerNames, IdNames DEF Same, Sends
    <2> QED
      BY <2>1, <2>2, <2>3, SendsSends DEF Same
  <1>2. Becomes(u, r, CONFIRMED, u.last_tx)
    BY <1>1, SetStateBecomes, StateNumbers DEF Same, Sends
  <1>3. ASSUME s.state = COMPLETED
        PROVE  Follows(s, r)
    <2>1. Follows(s, u)
      BY <1>1, SameFollows
    <2>2. "DESTROY" \notin r.transport_flag
      BY <1>1, <1>2, <1>3 DEF Becomes, Same, Sends, Sound, COMPLETED, CONFIRMED,
                              TERMINATED
    <2> HIDE DEF u, r
    <2> QED
      BY <1>1, <1>2, <1>3, <2>1, <2>2
        DEF Becomes, Sound, Follows, Same, Sends, COMPLETED, CONFIRMED, PROCEEDING,
            TERMINATED
  <1>4. Follows(s, s)
    BY DEF Follows
  <1> QED
    BY <1>3, <1>4 DEF OnAck

LEMMA ProvisionalUasBecomes ==
    ASSUME NEW s \in TsxType, NEW c \in Provisional
    PROVE  Becomes(s, ProvisionalUas(s, c), PROCEEDING, c)
  <1> DEFINE q == [s EXCEPT !.last_tx = c]
             p == SetState(q, PROCEEDING)
             u == Cancel(p, "retransmit")
  <1>1. Becomes(s, q, s.state, c)
    BY CodeKinds DEF Becomes, TsxType
  <1>2. Becomes(q, p, PROCEEDING, q.last_tx)
    <2>1. q \in TsxType
      BY <1>1 DEF Becomes
    <2> QED
      BY <2>1, SetStateBecomes, StateNumbers
  <1> HIDE DEF p
  <1>3. Becomes(s, p, PROCEEDING, c)
    BY <1>1, <1>2 DEF Becomes, TsxType
  <1>4. Same(p, u)
    BY <1>3, CancelSame, TimerNames DEF Becomes
  <1>5. Same(u, StartRetransmission(u))
    BY <1>4, StartSame DEF Same, Sends
  <1>6. Becomes(s, StartRetransmission(u), PROCEEDING, c)
    BY <1>3, <1>4, <1>5, SameBecomes
  <1> QED
    BY <1>3, <1>6 DEF ProvisionalUas, p

LEMMA CompleteUasBecomes ==
    ASSUME NEW s \in TsxType, NEW c \in Final, NEW disc \in BOOLEAN,
           s.state < COMPLETED
    PROVE  \/ Becomes(s, CompleteUas(s, c, disc), TERMINATED, s.last_tx)
           \/ Becomes(s, CompleteUas(s, c, disc), COMPLETED, c)
  <1> DEFINE q == Cancel(s, "retransmit")
             g == s.method = "INVITE" /\ (c = 200 \/ ~s.is_reliable)
             r == IF g THEN StartRetransmission(q) ELSE q
             e == [r EXCEPT !.last_tx = c]
             u == Restart(e, "timeout", TIMEOUT)
             d == IF disc /\ u.transport THEN Post(u, DISC) ELSE u
  <1>1. Same(s, q)
    BY CancelSame, TimerNames
  <1>2. Becomes(q, SetState(q, TERMINATED), TERMINATED, q.last_tx)
    BY <1>1, SetStateBecomes, StateNumbers DEF Same, Sends, TERMINATED, DESTROYED
  <1>3. Becomes(s, SetState(q, TERMINATED), TERMINATED, s.last_tx)
    BY <1>1, <1>2 DEF Becomes, Same, Sends
  <1>4. Same(q, r)
    BY <1>1, StartSame DEF Same, Sends
  <1>5. Becomes(s, e, s.state, c)
    <2>1. Same(s, r)
      BY <1>1, <1>4, SendsSends DEF Same
    <2> HIDE DEF r
    <2>2. Becomes(r, e, r.state, c)
      BY <2>1, CodeKinds DEF Becomes, Same, Sends, TsxType
    <2> QED
      BY <2>1, <2>2 DEF Becomes, Same, Sends
  <1>6. Same(e, u)
    BY <1>5, RestartSame, TimerNames, IdNames DEF Becomes
  <1>7. Same(u, d)
    <2>1. u \in TsxType
      BY <1>6 DEF Same, Sends
    <2> HIDE DEF u
    <2>2. Same(u, Post(u, DISC))
      BY <2>1, PostSame, IdNames
    <2>3. Same(u, u)
      BY <2>1 DEF Same, Sends
    <2> QED
      BY <2>2, <2>3
  <1>8. Becomes(s, d, s.state, c)
    BY <1>5, <1>6, <1>7, SameBecomes
  <1>9. Becomes(d, SetState(d, COMPLETED), COMPLETED, d.last_tx)
    <2>1. d \in TsxType
      BY <1>8 DEF Becomes
    <2> QED
      BY <2>1, SetStateBecomes, StateNumbers
  <1> HIDE DEF d
  <1>10. Becomes(s, SetState(d, COMPLETED), COMPLETED, c)
    <2>1. ~(s.state >= TERMINATED)
      BY DEF TsxType, States, NULL, DESTROYED, COMPLETED, TERMINATED
    <2> QED
      BY <1>8, <1>9, <2>1 DEF Becomes
  <1> QED
    BY <1>3, <1>10 DEF CompleteUas, d

LEMMA OnSendResponseFollows ==
    ASSUME NEW s, NEW c \in Provisional \cup Final, NEW o \in Outcomes,
           NEW disc \in BOOLEAN,
           Sound(s), s.role = "UAS", s.state \in {TRYING, PROCEEDING}
    PROVE  Follows(s, OnSendResponse(s, c, o, disc))
  <1> DEFINE tx == IF s.last_tx = c THEN s.last_tx ELSE NoMsg
             p == [s EXCEPT !.status_code = c, !.last_tx = tx]
             r == SendMsg(p, c, o)
  <1>1. /\ s \in TsxType /\ s.state < COMPLETED /\ ~Late(s)
        /\ s.last_tx \notin Final /\ s.sent \cap Final = {}
    BY StateNumbers DEF Sound, Late, TsxType, States, NULL, DESTROYED, TERMINATED,
                        COMPLETED
  <1>2. /\ Becomes(s, p, s.state, tx) /\ p.sent = s.sent
        /\ p.transport_flag = s.transport_flag
    <2>1. tx \in Messages \cup {NoMsg} /\ c \in Codes
      BY CodeKinds
    <2> HIDE DEF tx
    <2> QED
      BY <1>1, <2>1 DEF Becomes, TsxType
  <1>3. p \in TsxType /\ ~Late(p) /\ p.last_tx = tx
    BY <1>1, <1>2 DEF Becomes, Late
  <1> HIDE DEF p
  <1>4. Leads(p, r, {c, p.last_tx})
    BY <1>3, SendMsgLeads, CodeKinds
  <1>5. /\ r \in TsxType /\ r.role = "UAS" /\ r.last_tx \in {tx, NoMsg}
        /\ r.sent \subseteq s.sent \cup {c, tx}
    BY <1>2, <1>3, <1>4 DEF Leads, Becomes
  <1>6. ASSUME ~SendFailed(r)
        PROVE  /\ r.state = s.state /\ r.last_tx = tx
               /\ "DESTROY" \notin r.transport_flag
    BY <1>1, <1>2, <1>3, <1>4, <1>6 DEF Leads, Sends, SendFailed, Becomes, Late
  <1>7. OnSendResponse(s, c, o, disc) =
            IF SendFailed(r) THEN r
            ELSE IF c < 200 THEN ProvisionalUas(r, c) ELSE CompleteUas(r, c, disc)
    BY DEF OnSendResponse, p
  <1> HIDE DEF r
  <1>8. tx = NoMsg \/ tx = c
    OBVIOUS
  <1>9. r.sent \cap Final \subseteq {c} /\ (c \in Final => tx = NoMsg)
    BY <1>1, <1>5, <1>8, CodeKinds
  <1>10. CASE SendFailed(r)
    <2>1. Sound(r) /\ r.state = TERMINATED
      BY <1>5, <1>8, <1>9, <1>10, CodeKinds
        DEF Sound, SendFailed, TERMINATED, COMPLETED, PROCEEDING
    <2> QED
      BY <1>7, <1>10, <2>1 DEF Follows, TERMINATED
  <1>11. CASE ~SendFailed(r) /\ c \in Provisional
    <2> DEFINE z == ProvisionalUas(r, c)
    <2>1. Becomes(r, z, PROCEEDING, c)
      BY <1>5, <1>11, ProvisionalUasBecomes
    <2>2. z.sent \cap Final = {} /\ c \notin Final
      BY <1>9, <1>11, <2>1, CodeKinds DEF Becomes
    <2>3. Sound(z)
      BY <1>5, <1>6, <1>11, <2>1, <2>2
        DEF Sound, Becomes, PROCEEDING, COMPLETED, TERMINATED
    <2>4. ~(s.state >= TERMINATED)
      BY <1>1 DEF TsxType, States, NULL, DESTROYED, COMPLETED, TERMINATED
    <2> QED
      BY <1>7, <1>11, <2>3, <2>4, CodeKinds DEF Follows
  <1>12. CASE ~SendFailed(r) /\ c \in Final
    <2> DEFINE z == CompleteUas(r, c, disc)
    <2>1. \/ Becomes(r, z, TERMINATED, r.last_tx)
          \/ Becomes(r, z, COMPLETED, c)
      BY <1>1, <1>5, <1>6, <1>12, CompleteUasBecomes
    <2>2. z.sent \cap Final \subseteq {c}
      BY <1>9, <2>1 DEF Becomes
    <2>3. Sound(z)
      BY <1>5, <1>6, <1>9, <1>12, <2>1, <2>2
        DEF Sound, Becomes, PROCEEDING, COMPLETED, TERMINATED
    <2>4. ~(s.state >= TERMINATED)
      BY <1>1 DEF TsxType, States, NULL, DESTROYED, COMPLETED, TERMINATED
    <2> QED
      BY <1>7, <1>12, <2>3, <2>4, CodeKinds DEF Follows
  <1> QED
    BY <1>10, <1>11, <1>12

LEMMA OnSendRequestFollows ==
    ASSUME NEW s, NEW o \in Outcomes, Sound(s), s.role = "UAC", s.state = NULL
    PROVE  Follows(s, OnSendRequest(s, o))
  <1> DEFINE r == SendMsg(s, Request, o)
             u == Restart(r, "timeout", TIMEOUT)
             v == IF u.is_reliable THEN u ELSE StartRetransmission(u)
             z == SetState(v, CALLING)
  <1>1. /\ s \in TsxType /\ s.state < TERMINATED /\ ~Late(s)
        /\ s.last_tx \notin Final /\ s.sent \cap Final = {}
    BY DEF Sound, Late, NULL, TERMINATED
  <1>2. Leads(s, r, {Request, s.last_tx})
    BY <1>1, SendMsgLeads, CodeKinds
  <1>3. Follows(s, r)
    BY <1>1, <1>2, LeadsFollows, CodeKinds
  <1>4. ASSUME ~SendFailed(r)
        PROVE  Follows(s, z)
    <2>1. Sends(s, r, {Request, s.last_tx})
      BY <1>1, <1>2, <1>4 DEF Leads, SendFailed
    <2>2. Same(r, u)
      BY <2>1, RestartSame, TimerNames, IdNames DEF Sends
    <2>3. Same(u, v)
      BY <2>2, StartSame DEF Same, Sends
    <2>4. Sends(s, v, {Request, s.last_tx})
      BY <2>1, <2>2, <2>3, SendsSends DEF Same
    <2> HIDE DEF v
    <2>5. Becomes(v, z, CALLING, v.last_tx)
      BY <2>4, SetStateBecomes, StateNumbers DEF Sends
    <2> HIDE DEF z
    <2>6. z.last_tx \notin Final /\ z.sent \cap Final = {}
      BY <1>1, <2>4, <2>5, CodeKinds DEF Sends, Becomes
    <2>7. "DESTROY" \notin z.transport_flag
      BY <1>1, <2>4, <2>5 DEF Sends, Becomes, Late, CALLING, TERMINATED
    <2> QED
      BY <1>1, <2>4, <2>5, <2>6, <2>7, ClientFollows DEF Sends, Becomes
  <1> QED
    BY <1>3, <1>4 DEF OnSendRequest

LEMMA OnRetransmitTimerLeads ==
    ASSUME NEW s \in TsxType, NEW o \in Outcomes
    PROVE  Leads(s, OnRetransmitTimer(s, o), {s.last_tx})
  <1> DEFINE q == Check(s, "proceeding_pending", ~Has(s, "TRANSPORT"))
  <1>1. Leads(s, Retransmit(s, TRUE, o), {s.last_tx})
    BY RetransmitLeads
  <1>2. Leads(s, Retransmit(q, TRUE, o), {s.last_tx})
    <2>1. Same(s, q)
      BY CheckSame DEF Asserts
    <2> HIDE DEF q
    <2>2. Leads(q, Retransmit(q, TRUE, o), {s.last_tx})
      BY <2>1, RetransmitLeads DEF Same, Sends
    <2> QED
      BY <2>1, <2>2, SendsLeads DEF Same
  <1>3. ASSUME s.state = TERMINATED
        PROVE  Leads(s, SetState(s, DESTROYED), {s.last_tx})
    <2>1. Leads(s, SetState(s, DESTROYED), {})
      BY <1>3, SetStateLeads DEF Late, TERMINATED
    <2> QED
      BY <2>1 DEF Leads, Sends
  <1>4. Leads(s, s, {s.last_tx})
    BY DEF Leads, Sends
  <1> QED
    BY <1>1, <1>2, <1>3, <1>4
      DEF OnRetransmitTimer, CALLING, PROCEEDING, COMPLETED, TERMINATED

LEMMA TimeoutPrologueSame ==
    ASSUME NEW s \in TsxType
    PROVE  Same(s, TimeoutPrologue(s))
  <1>1. TimeoutCode \in Codes
    BY DEF Codes
  <1>2. Same(s, [Clear(Cancel(s, "retransmit"), "RESCHED") EXCEPT !.status_code = TimeoutCode])
    <2> DEFINE p == Cancel(s, "retransmit")
               q == Clear(p, "RESCHED")
    <2>1. Same(s, p)
      BY CancelSame, TimerNames
    <2>2. Same(p, q)
      BY <2>1, FlagSame DEF Same, Sends, Flags
    <2>3. Same(q, [q EXCEPT !.status_code = TimeoutCode])
      BY <1>1, <2>2, StatusSame DEF Same, Sends
    <2> QED
      BY <2>1, <2>2, <2>3, SendsSends DEF Same
  <1>3. Same(s, [Check(s, "proceeding_timeout", s.role = "UAC")
                    EXCEPT !.status_code = TimeoutCode])
    <2> DEFINE q == Check(s, "proceeding_timeout", s.role = "UAC")
    <2>1. Same(s, q)
      BY CheckSame DEF Asserts
    <2>2. Same(q, [q EXCEPT !.status_code = TimeoutCode])
      BY <1>1, <2>1, StatusSame DEF Same, Sends
    <2> QED
      BY <2>1, <2>2, SendsSends DEF Same
  <1>4. Same(s, [s EXCEPT !.status_code = TimeoutCode]) /\ Same(s, s)
    BY <1>1, StatusSame DEF Same, Sends
  <1> QED
    BY <1>2, <1>3, <1>4 DEF TimeoutPrologue, CALLING, PROCEEDING, COMPLETED

-----------------------------------------------------------------------------
(* The invariant of the specification.                                     *)

\* A worker that has left a tsx_set_state half way is ending the transaction.
Ending(w) ==
    pc[w].at \in {"notify", "resume"} =>
        pc[w].state \in {TERMINATED, DESTROYED} /\ tsx.state >= TERMINATED

IInv ==
    /\ Sound(tsx)
    /\ pc \in [Workers -> PcType]
    /\ \A w \in Workers : Ending(w)

\* A program counter that a worker may be given next to a transaction s.
Place(p, s) ==
    /\ p \in PcType
    /\ p.at \in {"notify", "resume"} =>
           p.state \in {TERMINATED, DESTROYED} /\ s.state >= TERMINATED

\* What every step does: keep the invariant, and never bring a transaction
\* back from its end.
Keeps ==
    /\ IInv'
    /\ tsx.state >= TERMINATED => tsx'.state >= TERMINATED

LEMMA StayKeeps ==
    ASSUME IInv, Follows(tsx, tsx'), pc' = pc
    PROVE  Keeps
  BY DEF IInv, Ending, Follows, Keeps

LEMMA GotoKeeps ==
    ASSUME NEW w \in Workers, NEW p, IInv, Follows(tsx, tsx'), Goto(w, p), Place(p, tsx')
    PROVE  Keeps
  <1>1. pc' \in [Workers -> PcType]
    BY DEF IInv, Goto, Place
  <1>2. ASSUME NEW v \in Workers
        PROVE  Ending(v)'
    <2>1. CASE v = w
      BY <2>1 DEF IInv, Goto, Place, Ending
    <2>2. CASE v # w
      BY <2>2 DEF IInv, Goto, Ending, Follows
    <2> QED
      BY <2>1, <2>2
  <1> QED
    BY <1>1, <1>2 DEF IInv, Follows, Keeps

LEMMA Places ==
    ASSUME NEW s
    PROVE  /\ Place(Idle, s)
           /\ \A t \in Timers : Place(Fired(t), s)
           /\ \A t \in Timers, i \in TimerIds : Place(Entered(t, i), s)
           /\ \A st \in {TERMINATED, DESTROYED}, ref \in BOOLEAN, i \in TimerIds :
                  s.state >= TERMINATED => Place(Notify(st, ref, i), s)
           /\ Place([Idle EXCEPT !.at = "post"], s)
           /\ Place([Idle EXCEPT !.at = "post", !.ref = TRUE], s)
  BY StateNumbers, IdNames, TimerNames DEF Place, PcType, Idle, Fired, Entered, Notify

LEMMA LeaveKeeps ==
    ASSUME NEW w \in Workers, NEW s, IInv, Follows(tsx, s), Leave(w, s)
    PROVE  Keeps
  <1>1. s \in TsxType
    BY DEF Follows, Sound
  <1>2. Same(s, [s EXCEPT !.refs = @ - 1]) /\ Same(s, s)
    BY <1>1 DEF Same, Sends, TsxType
  <1>3. Follows(tsx, tsx')
    BY <1>2, SameFollows, FollowsTrans DEF Leave, Follows
  <1> QED
    BY <1>3, GotoKeeps, Places DEF Leave

LEMMA RefsSame ==
    ASSUME NEW s \in TsxType
    PROVE  Same(s, [s EXCEPT !.refs = @ - 1])
  BY DEF Same, Sends, TsxType

\* A new transaction of either role has sent nothing.
THEOREM InitSound == Init => IInv
  <1> SUFFICES ASSUME Init
               PROVE  IInv
    OBVIOUS
  <1>1. PICK role \in Roles, method \in Methods, h \in BOOLEAN, t \in BOOLEAN,
             b \in BOOLEAN : tsx = NewTsx(role, method, h, t, b)
    BY DEF Init
  <1>2. role \in {"UAC", "UAS"} /\ method \in {"INVITE", "BYE", "OTHER"}
    BY ConfigAssumption
  <1>3. /\ NULL \in States /\ 0 \in Codes /\ {} \in SUBSET Flags
        /\ [u \in Timers |-> FALSE] \in [Timers -> BOOLEAN]
        /\ [u \in Timers |-> INACTIVE] \in [Timers -> TimerIds]
        /\ (IF role = "UAC" THEN Request ELSE NoMsg) \in Messages \cup {NoMsg}
    BY StateNumbers, IdNames, CodeKinds DEF Codes
  <1>4. tsx \in TsxType
    BY <1>1, <1>2, <1>3 DEF NewTsx, TsxType
  <1>5. Sound(tsx)
    BY <1>1, <1>4, CodeKinds DEF Sound, NewTsx, NULL, PROCEEDING, COMPLETED
  <1>6. Idle \in PcType
    BY StateNumbers, IdNames, TimerNames DEF Idle, PcType
  <1> QED
    BY <1>5, <1>6 DEF IInv, Init, Ending, Idle

-----------------------------------------------------------------------------
(* The steps of the workers.                                               *)

LEMMA KeptSame ==
    ASSUME NEW s \in TsxType
    PROVE  Same(s, [s EXCEPT !.kept = @ + 1])
  BY DEF Same, Sends, TsxType

LEMMA TimerFiresKeeps ==
    ASSUME NEW w \in Workers, NEW t \in Timers, IInv, TimerFires(w, t)
    PROVE  Keeps
  <1>1. tsx \in TsxType /\ [tsx.heap EXCEPT ![t] = FALSE] \in [Timers -> BOOLEAN]
    BY DEF IInv, Sound, TsxType
  <1>2. Same(tsx, tsx')
    BY <1>1, TimersSame DEF TimerFires, Same, Sends, TsxType
  <1>3. Follows(tsx, tsx')
    BY <1>2, SameFollows DEF IInv
  <1> QED
    BY <1>3, GotoKeeps, Places DEF TimerFires

LEMMA EnterCallbackKeeps ==
    ASSUME NEW w \in Workers, IInv, EnterCallback(w)
    PROVE  Keeps
  <1> DEFINE t == pc[w].timer
             s == [tsx EXCEPT !.id[t] = INACTIVE]
  <1>1. tsx \in TsxType /\ t \in Timers /\ Sound(tsx)
    BY DEF IInv, Sound, PcType
  <1>2. Same(tsx, s)
    <2>1. [tsx.id EXCEPT ![t] = INACTIVE] \in [Timers -> TimerIds]
      BY <1>1, IdNames DEF TsxType
    <2> QED
      BY <1>1, <2>1 DEF Same, Sends, TsxType
  <1>3. Follows(tsx, s) /\ Follows(tsx, tsx)
    BY <1>1, <1>2, SameFollows DEF Follows
  <1> HIDE DEF s
  <1>4. CASE Leave(w, tsx) \/ Leave(w, s)
    BY <1>3, <1>4, LeaveKeeps
  <1>5. CASE tsx' = s /\ \E i \in TimerIds : Goto(w, Entered(t, i))
    BY <1>1, <1>3, <1>5, GotoKeeps, Places
  <1>6. tsx.id[t] \in TimerIds
    BY <1>1 DEF TsxType
  <1> QED
    BY <1>4, <1>5, <1>6, IdNames DEF EnterCallback, s

LEMMA RetransmitEventKeeps ==
    ASSUME NEW w \in Workers, NEW o \in Outcomes, IInv, RetransmitEvent(w, o)
    PROVE  Keeps
  <1>1. Sound(tsx) /\ tsx \in TsxType
    BY DEF IInv, Sound
  <1>2. Follows(tsx, OnRetransmitTimer(tsx, o))
    BY <1>1, OnRetransmitTimerLeads, LeadsFollows
  <1> QED
    BY <1>2, LeaveKeeps DEF RetransmitEvent

LEMMA TimeoutEventKeeps ==
    ASSUME NEW w \in Workers, IInv, TimeoutEvent(w)
    PROVE  Keeps
  <1> DEFINE st == TimeoutTarget(tsx)
             p == TimeoutPrologue(tsx)
  <1>1. Sound(tsx) /\ tsx \in TsxType
    BY DEF IInv, Sound
  <1>2. CASE st = tsx.state
    BY <1>1, <1>2, LeaveKeeps DEF TimeoutEvent, Follows
  <1>3. CASE st # tsx.state
    <2>1. st \in {TERMINATED, DESTROYED}
      BY <1>3 DEF TimeoutTarget
    <2>2. Same(tsx, p)
      BY <1>1, TimeoutPrologueSame
    <2>3. Becomes(p, Enter(p, st), st, p.last_tx)
      BY <2>1, <2>2, EnterBecomes, StateNumbers DEF Same, Sends
    <2>4. Follows(tsx, Enter(p, st)) /\ Enter(p, st).state = st
      <3>1. Follows(tsx, p)
        BY <1>1, <2>2, SameFollows
      <3> QED
        BY <2>1, <2>3, <3>1, EndFollows, FollowsTrans DEF Follows, Becomes
    <2>5. tsx' = Enter(p, st) /\ Goto(w, Notify(st, TRUE, TIMEOUT))
      BY <1>3 DEF TimeoutEvent
    <2>6. Place(Notify(st, TRUE, TIMEOUT), tsx')
      <3>1. tsx'.state >= TERMINATED
        BY <2>1, <2>4, <2>5, StateNumbers
      <3> HIDE DEF st
      <3> QED
        BY <2>1, <3>1, Places, IdNames
    <2> QED
      BY <2>4, <2>5, <2>6, GotoKeeps
  <1> QED
    BY <1>2, <1>3

LEMMA PostedEventKeeps ==
    ASSUME NEW w \in Workers, IInv, PostedEvent(w)
    PROVE  Keeps
  <1> DEFINE i == pc[w].id
             s == [tsx EXCEPT !.transport = FALSE]
             k == [s EXCEPT !.transport_flag = {}]
             c == [s EXCEPT !.status_code = IF @ < 200 THEN TransportErrorCode ELSE @]
             e == Enter(c, TERMINATED)
             d == Detach(e)
             r == Cancel(d, "timeout")
  <1>1. Sound(tsx) /\ tsx \in TsxType
    BY DEF IInv, Sound
  <1>2. Same(tsx, s) /\ Same(tsx, k)
    BY <1>1 DEF Same, Sends, TsxType
  <1>3. CASE Leave(w, k)
    BY <1>1, <1>2, <1>3, SameFollows, LeaveKeeps
  <1>4. CASE tsx' = r /\ Goto(w, Notify(TERMINATED, TRUE, i))
    <2>1. Same(s, c)
      <3>1. s \in TsxType
        BY <1>2 DEF Same, Sends
      <3>2. (IF s.status_code < 200 THEN TransportErrorCode ELSE s.status_code) \in Codes
        BY <3>1 DEF TsxType, Codes
      <3> HIDE DEF s
      <3> QED
        BY <3>1, <3>2, StatusSame
    <2>2. Follows(tsx, c)
      <3>1. Follows(tsx, s)
        BY <1>1, <1>2, SameFollows
      <3> QED
        BY <2>1, <3>1, SameFollows, FollowsTrans DEF Follows
    <2> HIDE DEF c
    <2>3. Becomes(c, e, TERMINATED, c.last_tx)
      BY <2>2, EnterBecomes, StateNumbers DEF Follows, Sound
    <2>4. Same(e, d)
      BY <2>3, DetachSame DEF Becomes
    <2>5. Same(d, r)
      BY <2>4, CancelSame, TimerNames DEF Same, Sends
    <2>6. Becomes(c, r, TERMINATED, c.last_tx)
      BY <2>3, <2>4, <2>5, SameBecomes
    <2>7. Follows(tsx, r) /\ r.state = TERMINATED
      BY <2>2, <2>6, EndFollows, FollowsTrans DEF Follows, Becomes
    <2>8. i \in TimerIds
      BY DEF IInv, PcType
    <2> HIDE DEF r
    <2>9. Place(Notify(TERMINATED, TRUE, i), tsx')
      <3>1. tsx'.state >= TERMINATED
        BY <1>4, <2>7, StateNumbers
      <3> HIDE DEF i
      <3> QED
        BY <2>8, <3>1, Places
    <2> QED
      BY <1>4, <2>7, <2>9, GotoKeeps
  <1> QED
    BY <1>3, <1>4 DEF PostedEvent

LEMMA TellUnlockedKeeps ==
    ASSUME NEW w \in Workers, IInv, TellUnlocked(w)
    PROVE  Keeps
  <1>1. /\ Sound(tsx) /\ tsx \in TsxType /\ pc[w] \in PcType
        /\ pc[w].state \in {TERMINATED, DESTROYED} /\ tsx.state >= TERMINATED
    BY DEF IInv, Sound, Ending, TellUnlocked, IsAt
  <1>2. Same(tsx, tsx')
    BY <1>1, TellSame, StateNumbers DEF TellUnlocked
  <1>3. Follows(tsx, tsx')
    BY <1>1, <1>2, SameFollows
  <1>4. Place([pc[w] EXCEPT !.at = "resume"], tsx')
    BY <1>1, <1>3 DEF Place, PcType, Follows
  <1> QED
    BY <1>3, <1>4, GotoKeeps DEF TellUnlocked

LEMMA ResumeKeeps ==
    ASSUME NEW w \in Workers, IInv, Resume(w)
    PROVE  Keeps
  <1>1. /\ Sound(tsx) /\ tsx \in TsxType
        /\ pc[w].state \in {TERMINATED, DESTROYED} /\ tsx.state >= TERMINATED
    BY DEF IInv, Sound, Ending, Resume, IsAt
  <1>2. Follows(tsx, Schedule(tsx, "timeout", TIMEOUT))
    BY <1>1, ScheduleSame, TimerNames, IdNames, SameFollows
  <1>3. Follows(tsx, Finish(tsx, pc[w].state))
    <2>1. Becomes(tsx, Finish(tsx, pc[w].state), tsx.state,
                  IF pc[w].state = DESTROYED THEN NoMsg ELSE tsx.last_tx)
      BY <1>1, FinishBecomes, StateNumbers
    <2>2. tsx.state \in {TERMINATED, DESTROYED}
      BY <1>1 DEF TsxType, States, NULL, TERMINATED, DESTROYED
    <2> QED
      BY <1>1, <2>1, <2>2, EndFollows
  <1> QED
    BY <1>2, <1>3, LeaveKeeps DEF Resume

LEMMA PostErrorKeeps ==
    ASSUME NEW w \in Workers, IInv, PostError(w)
    PROVE  Keeps
  <1>1. Follows(tsx, Post(tsx, ERR))
    BY PostSame, IdNames, SameFollows DEF IInv, Sound
  <1> QED
    BY <1>1, LeaveKeeps DEF PostError

LEMMA CallbackStepKeeps ==
    ASSUME NEW w \in Workers, IInv, CallbackStep(w)
    PROVE  Keeps
  BY EnterCallbackKeeps, RetransmitEventKeeps, TimeoutEventKeeps, PostedEventKeeps,
     TellUnlockedKeeps, ResumeKeeps, PostErrorKeeps DEF CallbackStep

-----------------------------------------------------------------------------
(* The steps of the transport, the peer and the TU, and the theorems.      *)

LEMMA SendDoneKeeps ==
    ASSUME NEW w \in Workers, NEW m \in Messages, NEW o \in Outcomes, IInv,
           SendDone(w, m, o)
    PROVE  Keeps
  <1> DEFINE p == Clear(tsx, "TRANSPORT")
             q == [p EXCEPT !.direct = @ \ {m}]
             s == AfterSent(q, o)
             r == IF Has(tsx, "DESTROY") THEN [s EXCEPT !.kept = @ + 1]
                  ELSE [s EXCEPT !.refs = @ - 1]
  <1>1. Sound(tsx) /\ tsx \in TsxType
    BY DEF IInv, Sound
  <1>2. Same(tsx, q)
    <2>1. Same(tsx, p)
      BY <1>1, FlagSame DEF Flags
    <2>2. Same(p, q)
      <3>1. p \in TsxType
        BY <2>1 DEF Same, Sends
      <3> HIDE DEF p
      <3> QED
        BY <3>1 DEF Same, Sends, TsxType
    <2> QED
      BY <2>1, <2>2, SendsSends DEF Same
  <1> HIDE DEF q
  <1>3. Follows(tsx, q)
    BY <1>1, <1>2, SameFollows
  <1>4. Follows(q, s)
    BY <1>3, AfterSentLeads, LeadsFollows DEF Follows, Sound
  <1>5. Follows(s, r)
    <2>1. Sound(s) /\ s \in TsxType
      BY <1>4 DEF Follows, Sound
    <2> HIDE DEF s
    <2>2. Same(s, [s EXCEPT !.refs = @ - 1]) /\ Same(s, [s EXCEPT !.kept = @ + 1])
      BY <2>1, RefsSame, KeptSame
    <2> QED
      BY <2>1, <2>2, SameFollows
  <1>6. Follows(tsx, r)
    BY <1>3, <1>4, <1>5, FollowsTrans
  <1>7. tsx' = r /\ pc' = pc
    BY DEF SendDone, q
  <1> QED
    BY <1>6, <1>7, StayKeeps

LEMMA SendErrorKeeps ==
    ASSUME NEW w \in Workers, NEW m \in Messages, IInv, SendError(w, m)
    PROVE  Keeps
  <1> DEFINE p == Clear(tsx, "TRANSPORT")
  <1>1. Sound(tsx) /\ tsx \in TsxType
    BY DEF IInv, Sound
  <1>2. Same(tsx, p)
    BY <1>1, FlagSame DEF Flags
  <1>3. Same(p, [p EXCEPT !.direct = @ \ {m}])
    <2>1. p \in TsxType
      BY <1>2 DEF Same, Sends
    <2> HIDE DEF p
    <2> QED
      BY <2>1 DEF Same, Sends, TsxType
  <1>4. Follows(tsx, tsx')
    BY <1>1, <1>2, <1>3, SendsSends, SameFollows DEF Same, SendError
  <1> QED
    BY <1>4, GotoKeeps, Places DEF SendError

LEMMA CallbackForSame ==
    ASSUME NEW m, tsx \in TsxType
    PROVE  Same(tsx, CallbackFor(m))
  <1>1. tsx.resolving \ {m} \in SUBSET Messages /\ tsx.refs - 1 \in Int
    BY DEF TsxType
  <1>2. ASSUME NEW d \in SUBSET Messages, NEW n \in Int
        PROVE  Same(tsx, [tsx EXCEPT !.refs = n, !.resolving = d])
    BY DEF Same, Sends, TsxType
  <1> QED
    BY <1>1, <1>2 DEF CallbackFor

LEMMA ResolveDoneKeeps ==
    ASSUME NEW w \in Workers, NEW m \in Messages, NEW o \in Outcomes, IInv,
           ResolveDone(w, m, o)
    PROVE  Keeps
  <1> DEFINE p == CallbackFor(m)
             q == Resolved(p, o)
  <1>1. Sound(tsx) /\ tsx \in TsxType
    BY DEF IInv, Sound
  <1>2. Same(tsx, p)
    BY <1>1, CallbackForSame
  <1>3. Same(p, q)
    BY <1>2, ResolvedSame DEF Same, Sends
  <1>4. Follows(tsx, q)
    BY <1>1, <1>2, <1>3, SendsSends, SameFollows DEF Same
  <1> HIDE DEF q
  <1>5. Follows(q, AfterSent(q, o))
    BY <1>4, AfterSentLeads, LeadsFollows DEF Follows, Sound
  <1>6. Follows(tsx, AfterSent(q, o))
    BY <1>4, <1>5, FollowsTrans
  <1>7. tsx' = AfterSent(q, o) /\ pc' = pc
    BY DEF ResolveDone, q
  <1> QED
    BY <1>6, <1>7, StayKeeps

LEMMA ResolveErrorKeeps ==
    ASSUME NEW w \in Workers, NEW m \in Messages, IInv, ResolveError(w, m)
    PROVE  Keeps
  <1> DEFINE p == CallbackFor(m)
             s == ResolveFailed(p)
  <1>1. Sound(tsx) /\ tsx \in TsxType
    BY DEF IInv, Sound
  <1>2. Same(tsx, p)
    BY <1>1, CallbackForSame
  <1>3. Same(p, s)
    BY <1>2, ResolveFailedSame DEF Same, Sends
  <1>4. Follows(tsx, s) /\ s \in TsxType
    BY <1>1, <1>2, <1>3, SendsSends, SameFollows DEF Same, Sends
  <1> HIDE DEF s
  <1>5. CASE tsx' = Enter(s, TERMINATED) /\ Goto(w, Notify(TERMINATED, FALSE, TIMEOUT))
    <2>1. Becomes(s, Enter(s, TERMINATED), TERMINATED, s.last_tx)
      BY <1>4, EnterBecomes, StateNumbers
    <2>2. Follows(tsx, tsx') /\ tsx'.state = TERMINATED
      BY <1>4, <1>5, <2>1, EndFollows, FollowsTrans DEF Follows, Becomes
    <2>3. Place(Notify(TERMINATED, FALSE, TIMEOUT), tsx')
      <3>1. tsx'.state >= TERMINATED
        BY <2>2, StateNumbers
      <3> QED
        BY <3>1, Places, IdNames
    <2> QED
      BY <1>5, <2>2, <2>3, GotoKeeps
  <1>6. CASE tsx' = InlineFailed(s) /\ pc' = pc
    <2>1. Follows(s, InlineFailed(s))
      BY <1>4, InlineFailedLeads, LeadsFollows DEF Follows
    <2> QED
      BY <1>4, <1>6, <2>1, FollowsTrans, StayKeeps
  <1> QED
    BY <1>5, <1>6 DEF ResolveError, s

LEMMA TryNextServerKeeps ==
    ASSUME NEW w \in Workers, NEW m \in Messages, IInv, TryNextServer(w, m)
    PROVE  Keeps
  <1> DEFINE s == [tsx EXCEPT !.pending_tx = m]
  <1>1. Sound(tsx) /\ tsx \in TsxType
    BY DEF IInv, Sound
  <1>2. Same(tsx, s)
    BY <1>1 DEF Same, Sends, TsxType
  <1>3. Same(s, Restart(s, "timeout", TIMEOUT))
    BY <1>2, RestartSame, TimerNames, IdNames DEF Same, Sends
  <1>4. Same(tsx, Restart(s, "timeout", TIMEOUT))
    BY <1>2, <1>3, SendsSends DEF Same
  <1>5. Follows(tsx, s) /\ Follows(tsx, Restart(s, "timeout", TIMEOUT))
    BY <1>1, <1>2, <1>4, SameFollows
  <1> QED
    BY <1>5, StayKeeps DEF TryNextServer

LEMMA TransportStepKeeps ==
    ASSUME NEW w \in Workers, IInv, TransportStep(w)
    PROVE  Keeps
  <1>1. tsx.direct \subseteq Messages /\ tsx.resolving \subseteq Messages
    BY DEF IInv, Sound, TsxType
  <1> QED
    BY <1>1, SendDoneKeeps, SendErrorKeeps, ResolveDoneKeeps, ResolveErrorKeeps,
       TryNextServerKeeps DEF TransportStep

LEMMA PeerStepKeeps ==
    ASSUME NEW w \in Workers, IInv, PeerStep(w)
    PROVE  Keeps
  <1>1. Sound(tsx)
    BY DEF IInv
  <1>2. ASSUME NEW o \in Outcomes, NEW c \in Responses(tsx.method),
               RecvResponse(w, c, o)
        PROVE  Keeps
    <2>1. Follows(tsx, OnResponse(tsx, c, o))
      BY <1>1, <1>2, OnResponseFollows, CodeKinds DEF RecvResponse
    <2> QED
      BY <1>2, <2>1, StayKeeps DEF RecvResponse, Receive
  <1>3. ASSUME NEW o \in Outcomes, RecvRequest(w, o)
        PROVE  Keeps
    BY <1>1, <1>3, OnRequestFollows, StayKeeps DEF RecvRequest, Receive
  <1>4. ASSUME RecvAck(w)
        PROVE  Keeps
    BY <1>1, <1>4, OnAckFollows, StayKeeps DEF RecvAck, Receive
  <1> QED
    BY <1>2, <1>3, <1>4 DEF PeerStep

LEMMA RetransmitNoStateKeeps ==
    ASSUME NEW w \in Workers, NEW o \in Outcomes, IInv, RetransmitNoState(w, o)
    PROVE  Keeps
  <1>1. Sound(tsx) /\ tsx \in TsxType
    BY DEF IInv, Sound
  <1>2. 180 \in Messages /\ 180 \notin Final
    BY DEF Messages, Provisional, Final
  <1>3. Follows(tsx, SendMsg(tsx, 180, o))
    <2>1. Leads(tsx, SendMsg(tsx, 180, o), {180, tsx.last_tx})
      BY <1>1, <1>2, SendMsgLeads
    <2> QED
      BY <1>1, <1>2, <2>1, LeadsFollows
  <1> QED
    BY <1>3, StayKeeps DEF RetransmitNoState, TuCall

LEMMA TuStepKeeps ==
    ASSUME IInv, TuStep
    PROVE  Keeps
  <1>1. Sound(tsx) /\ tsx \in TsxType
    BY DEF IInv, Sound
  <1>2. ASSUME NEW o \in Outcomes, SendRequest(o)
        PROVE  Keeps
    BY <1>1, <1>2, OnSendRequestFollows, StayKeeps DEF SendRequest, TuCall
  <1>3. ASSUME NEW o \in Outcomes, NEW c \in Responses(tsx.method),
               NEW disc \in BOOLEAN, SendResponse(c, o, disc)
        PROVE  Keeps
    <2>1. Follows(tsx, OnSendResponse(tsx, c, o, disc))
      BY <1>1, <1>3, OnSendResponseFollows, CodeKinds DEF SendResponse
    <2> QED
      BY <1>3, <2>1, StayKeeps DEF SendResponse, TuCall
  <1>4. CASE Terminate
    <2> DEFINE q == [tsx EXCEPT !.status_code = TimeoutCode]
    <2>1. Same(tsx, q)
      BY <1>1, StatusSame DEF Codes
    <2>2. Leads(q, SetState(q, TERMINATED), {})
      BY <2>1, SetStateLeads DEF Same, Sends
    <2>3. Leads(tsx, SetState(q, TERMINATED), {})
      BY <2>1, <2>2, SendsLeads DEF Same
    <2>4. Follows(tsx, SetState(q, TERMINATED))
      BY <1>1, <2>3, LeadsFollows
    <2> QED
      BY <1>4, <2>4, StayKeeps DEF Terminate, TuCall
  <1>5. CASE StopRetransmit
    BY <1>1, <1>5, CancelSame, TimerNames, SameFollows, StayKeeps
      DEF StopRetransmit, TuCall
  <1>6. CASE SetTimeout
    BY <1>1, <1>6, RestartSame, TimerNames, IdNames, SameFollows, StayKeeps
      DEF SetTimeout, TuCall
  <1> QED
    BY <1>2, <1>3, <1>4, <1>5, <1>6 DEF TuStep

\* Every step, of any worker, the transport, the peer or the TU, keeps the
\* invariant.
THEOREM NextKeeps == IInv /\ [Next]_vars => Keeps
  <1> SUFFICES ASSUME IInv, [Next]_vars
               PROVE  Keeps
    OBVIOUS
  <1>1. CASE vars' = vars
    BY <1>1 DEF vars, IInv, Ending, Keeps
  <1>2. ASSUME NEW w \in Workers, NEW t \in Timers, TimerFires(w, t)
        PROVE  Keeps
    BY <1>2, TimerFiresKeeps
  <1>3. ASSUME NEW w \in Workers, CallbackStep(w) \/ TransportStep(w) \/ PeerStep(w)
        PROVE  Keeps
    BY <1>3, CallbackStepKeeps, TransportStepKeeps, PeerStepKeeps
  <1>4. ASSUME NEW w \in Workers, NEW o \in Outcomes, RetransmitNoState(w, o)
        PROVE  Keeps
    BY <1>4, RetransmitNoStateKeeps
  <1>5. CASE TuStep
    BY <1>5, TuStepKeeps
  <1>6. CASE Disconnected
    <2>1. Follows(tsx, Post(tsx, DISC))
      BY PostSame, IdNames, SameFollows DEF IInv, Sound
    <2> QED
      BY <1>6, <2>1, StayKeeps DEF Disconnected
  <1>7. CASE Done
    BY <1>7, <1>1 DEF Done
  <1> QED
    BY <1>1, <1>2, <1>3, <1>4, <1>5, <1>6, <1>7 DEF Next

\* The invariant holds in every state of every behaviour.
THEOREM SpecSound == Spec => []IInv
  <1>1. IInv /\ [Next]_vars => IInv'
    BY NextKeeps DEF Keeps
  <1> QED
    BY InitSound, <1>1, PTL DEF Spec

\* The records of SipTransaction keep their types.
THEOREM TypeCorrect == Spec => []TypeOK
  <1>1. IInv => TypeOK
    BY DEF IInv, Sound, TypeOK
  <1> QED
    BY <1>1, SpecSound, PTL

\* At most one final response reaches the wire, with any number of workers.
THEOREM OneFinal == Spec => []OneFinalResponse
  <1>1. IInv => OneFinalResponse
    BY DEF IInv, Sound, OneFinalResponse
  <1> QED
    BY <1>1, SpecSound, PTL

\* A server never loses the response it must repeat, with any number of workers.
THEOREM LastKept == Spec => []LastResponseKept
  <1>1. IInv => LastResponseKept
    BY DEF IInv, Sound, LastResponseKept
  <1> QED
    BY <1>1, SpecSound, PTL

\* A transaction that has ended stays ended, whatever its late callbacks do,
\* although with two workers it may go from DESTROYED back to TERMINATED.
THEOREM EndIsFinal ==
    Spec => [][tsx.state >= TERMINATED => tsx'.state >= TERMINATED]_vars
  <1>1. IInv /\ [Next]_vars =>
            [tsx.state >= TERMINATED => tsx'.state >= TERMINATED]_vars
    BY NextKeeps DEF Keeps
  <1> QED
    BY <1>1, SpecSound, PTL DEF Spec

-----------------------------------------------------------------------------
(* The group lock's count: RefsAccounted, for one worker whatever sends    *)
(* may do, and for every finite set of workers when no transport leaves a  *)
(* send pending.                                                           *)
(*                                                                         *)
(* Spare is what the count has beyond what the transaction itself accounts *)
(* for.  Every operation on the record leaves it as it was, as long as at  *)
(* most one send is outstanding (Tidy), so it stays what the workers hold. *)

Weight(b) == IF b THEN 1 ELSE 0

\* The transaction's own reference, its timers', its sends', and those that
\* transport_callback kept.
Owed(s) ==
    Weight(~s.terminating) + Weight(s.heap["timeout"]) + Weight(s.heap["retransmit"])
        + Weight(s.direct # {}) + Weight(s.resolving # {}) + s.kept

Spare(s) == s.refs - Owed(s)

\* At most one send is outstanding.  It is flagged, unless the transaction
\* has detached from a transport's; a resolution it has detached from is not
\* outstanding.  And a transaction that is to be destroyed has told so.
Tidy(s) ==
    /\ s \in TsxType
    /\ s.direct = {} \/ s.resolving = {}
    /\ \A m, n \in s.direct : m = n
    /\ s.resolving = {s.pending_tx} \ {NoMsg}
    /\ s.resolving # {} => Has(s, "TRANSPORT")
    /\ s.direct # {} /\ s.state < TERMINATED => Has(s, "TRANSPORT")
    /\ "pending" \notin DirectOutcomes => s.direct = {}
    /\ Has(s, "DESTROY") => s.told >= TERMINATED
    /\ s.told >= TERMINATED => s.state >= TERMINATED

\* The TU knows of the end, if there was one.
Heard(s) == s.state >= TERMINATED => s.told >= TERMINATED

\* r is s with other timers, and the references that go with them.
Balances(s, r) ==
    /\ r \in TsxType
    /\ Spare(r) = Spare(s)
    /\ r.direct = s.direct /\ r.resolving = s.resolving
    /\ r.pending_tx = s.pending_tx
    /\ r.state = s.state /\ r.told = s.told
    /\ Has(r, "TRANSPORT") <=> Has(s, "TRANSPORT")
    /\ Has(r, "DESTROY") => Has(s, "DESTROY")

\* A whole operation: what it takes and gives back is accounted for.
Settles(s, r) ==
    /\ Tidy(r)
    /\ Spare(r) = Spare(s)
    /\ s.told >= TERMINATED => r.told >= TERMINATED
    /\ Heard(s) => Heard(r)

LEMMA BalancesItself ==
    ASSUME NEW s \in TsxType
    PROVE  Balances(s, s)
  BY DEF Balances

LEMMA BalancesTrans ==
    ASSUME NEW s, NEW q, NEW r, Balances(s, q), Balances(q, r)
    PROVE  Balances(s, r)
  BY DEF Balances

LEMMA BalancesSettles ==
    ASSUME NEW s, NEW r, Tidy(s), Balances(s, r)
    PROVE  Settles(s, r)
  BY DEF Balances, Settles, Tidy, Heard

LEMMA SettlesItself ==
    ASSUME NEW s, Tidy(s)
    PROVE  Settles(s, s)
  BY DEF Settles

LEMMA SettlesTrans ==
    ASSUME NEW s, NEW q, NEW r, Settles(s, q), Settles(q, r)
    PROVE  Settles(s, r)
  BY DEF Settles

-----------------------------------------------------------------------------
(* Flags and timers.                                                       *)

LEMMA CheckBalances ==
    ASSUME NEW s \in TsxType, NEW name \in Asserts, NEW cond
    PROVE  Balances(s, Check(s, name, cond))
  BY DEF Balances, Spare, Owed, Has, Check, TsxType

LEMMA FlagBalances ==
    ASSUME NEW s \in TsxType, NEW f \in {"RESCHED", "SEND"}
    PROVE  Balances(s, Raise(s, f)) /\ Balances(s, Clear(s, f))
  <1>1. Balances(s, Raise(s, f))
    BY DEF Balances, Spare, Owed, Has, Raise, TsxType, Flags
  <1>2. Balances(s, Clear(s, f))
    BY DEF Balances, Spare, Owed, Has, Clear, TsxType, Flags
  <1> QED
    BY <1>1, <1>2

\* n is the count that goes with the heap h instead of s's.
Matches(s, h, n) ==
    n - Weight(h["timeout"]) - Weight(h["retransmit"])
        = s.refs - Weight(s.heap["timeout"]) - Weight(s.heap["retransmit"])

WithTimers(s, h, g, n) == [s EXCEPT !.heap = h, !.id = g, !.refs = n]

LEMMA TimersBalance ==
    ASSUME NEW s \in TsxType, NEW h \in [Timers -> BOOLEAN],
           NEW g \in [Timers -> TimerIds], NEW n \in Int, Matches(s, h, n)
    PROVE  Balances(s, WithTimers(s, h, g, n))
  <1> DEFINE r == WithTimers(s, h, g, n)
  <1>1. /\ r \in TsxType /\ r.heap = h /\ r.refs = n
        /\ r.terminating = s.terminating /\ r.kept = s.kept /\ r.transport_flag = s.transport_flag
        /\ r.direct = s.direct /\ r.resolving = s.resolving
        /\ r.pending_tx = s.pending_tx /\ r.state = s.state /\ r.told = s.told
    BY DEF TsxType, WithTimers
  <1>2. s.refs \in Int /\ s.kept \in Int
    BY DEF TsxType
  <1> HIDE DEF r
  <1> DEFINE a == Weight(s.heap["timeout"])
             b == Weight(s.heap["retransmit"])
             c == Weight(h["timeout"])
             d == Weight(h["retransmit"])
             e == Weight(~s.terminating)
             k == Weight(s.direct # {})
             q == Weight(s.resolving # {})
             m == s.refs
             p == s.kept
  <1>3. /\ a \in Int /\ b \in Int /\ c \in Int /\ d \in Int
        /\ e \in Int /\ k \in Int /\ q \in Int /\ m \in Int /\ p \in Int
    BY <1>2 DEF Weight
  <1>4. n - c - d = m - a - b
    BY DEF Matches
  <1>5. Spare(s) = m - (e + a + b + k + q + p)
    BY DEF Spare, Owed
  <1>6. Spare(r) = n - (e + c + d + k + q + p)
    BY <1>1 DEF Spare, Owed
  <1> HIDE DEF a, b, c, d, e, k, q, m, p
  <1>7. Spare(r) = Spare(s)
    BY <1>3, <1>4, <1>5, <1>6
  <1>8. Balances(s, r)
    BY <1>1, <1>7 DEF Balances, Has
  <1> QED
    BY <1>8 DEF r

LEMMA ScheduleBalances ==
    ASSUME NEW s \in TsxType, NEW t \in Timers, NEW i \in TimerIds
    PROVE  Balances(s, Schedule(s, t, i))
  <1>1. CASE s.heap[t]
    BY <1>1, BalancesItself DEF Schedule
  <1>2. CASE ~s.heap[t]
    <2> DEFINE h == [s.heap EXCEPT ![t] = TRUE]
               g == [s.id EXCEPT ![t] = i]
               n == s.refs + 1
    <2>1. h \in [Timers -> BOOLEAN] /\ g \in [Timers -> TimerIds] /\ n \in Int
      BY DEF TsxType
    <2>2. Matches(s, h, n)
      BY <1>2 DEF TsxType, Timers, Weight, Matches
    <2>3. Schedule(s, t, i) = WithTimers(s, h, g, n)
      BY <1>2 DEF Schedule, TsxType, WithTimers
    <2> HIDE DEF h, g, n
    <2> QED
      BY <2>1, <2>2, <2>3, TimersBalance
  <1> QED
    BY <1>1, <1>2

LEMMA CancelBalances ==
    ASSUME NEW s \in TsxType, NEW t \in Timers
    PROVE  Balances(s, Cancel(s, t))
  <1>1. CASE ~s.heap[t]
    BY <1>1, BalancesItself DEF Cancel
  <1>2. CASE s.heap[t]
    <2> DEFINE h == [s.heap EXCEPT ![t] = FALSE]
               g == [s.id EXCEPT ![t] = INACTIVE]
               n == s.refs - 1
    <2>1. h \in [Timers -> BOOLEAN] /\ g \in [Timers -> TimerIds] /\ n \in Int
      BY IdNames DEF TsxType
    <2>2. Matches(s, h, n)
      BY <1>2 DEF TsxType, Timers, Weight, Matches
    <2>3. Cancel(s, t) = WithTimers(s, h, g, n)
      BY <1>2 DEF Cancel, TsxType, WithTimers
    <2> HIDE DEF h, g, n
    <2> QED
      BY <2>1, <2>2, <2>3, TimersBalance
  <1> QED
    BY <1>1, <1>2

LEMMA RestartBalances ==
    ASSUME NEW s \in TsxType, NEW t \in Timers, NEW i \in TimerIds
    PROVE  Balances(s, Restart(s, t, i))
  <1>1. Balances(s, Cancel(s, t))
    BY CancelBalances
  <1>2. Balances(Cancel(s, t), Restart(s, t, i))
    BY <1>1, ScheduleBalances DEF Restart, Balances
  <1> QED
    BY <1>1, <1>2, BalancesTrans

LEMMA PostBalances ==
    ASSUME NEW s \in TsxType, NEW i \in TimerIds
    PROVE  Balances(s, Post(s, i))
  BY RestartBalances, TimerNames, BalancesItself DEF Post

LEMMA StatusBalances ==
    ASSUME NEW s \in TsxType, NEW c \in Codes
    PROVE  Balances(s, [s EXCEPT !.status_code = c])
  BY DEF Balances, Spare, Owed, Has, TsxType

LEMMA LastTxBalances ==
    ASSUME NEW s \in TsxType, NEW tx \in Messages \cup {NoMsg}
    PROVE  Balances(s, [s EXCEPT !.last_tx = tx])
  BY DEF Balances, Spare, Owed, Has, TsxType

LEMMA TransportBalances ==
    ASSUME NEW s \in TsxType
    PROVE  Balances(s, [s EXCEPT !.transport = FALSE])
  BY DEF Balances, Spare, Owed, Has, TsxType

LEMMA SentBalances ==
    ASSUME NEW s \in TsxType, NEW m \in Messages
    PROVE  Balances(s, [s EXCEPT !.sent = @ \cup {m}])
  BY DEF Balances, Spare, Owed, Has, TsxType

-----------------------------------------------------------------------------
(* Changes of state.                                                       *)

\* The new state is not one that the end is left for.
Forward(s, st) == st \in States /\ (s.state < TERMINATED \/ st >= TERMINATED)

\* r is s in state st, told of or not.
Turns(s, r, st) ==
    /\ Tidy(r)
    /\ Spare(r) = Spare(s)
    /\ r.state = st
    /\ s.told >= TERMINATED => r.told >= TERMINATED

LEMMA EnterTurns ==
    ASSUME NEW s, NEW st, Tidy(s), Forward(s, st)
    PROVE  Turns(s, Enter(s, st), st) /\ Enter(s, st).told = s.told
  <1> DEFINE q == Check(s, "state_order", st >= s.state)
             r == [q EXCEPT !.state = st]
  <1>1. Balances(s, q)
    BY CheckBalances DEF Asserts, Tidy
  <1>2. q \in TsxType /\ Tidy(q) /\ Spare(q) = Spare(s) /\ q.state = s.state /\ q.told = s.told
    BY <1>1, BalancesSettles DEF Balances, Settles
  <1> HIDE DEF q
  <1>3. /\ r \in TsxType /\ r.state = st /\ r.told = q.told
        /\ r.heap = q.heap /\ r.refs = q.refs
        /\ r.terminating = q.terminating /\ r.kept = q.kept /\ r.transport_flag = q.transport_flag
        /\ r.direct = q.direct /\ r.resolving = q.resolving
        /\ r.pending_tx = q.pending_tx
    BY <1>2 DEF TsxType, Forward
  <1>4. st \in Int /\ q.state \in Int /\ q.told \in Int
    BY <1>2 DEF TsxType, States, Forward, NULL, DESTROYED
  <1>5. Enter(s, st) = r
    BY DEF Enter, q
  <1> HIDE DEF r
  <1>6. Spare(r) = Spare(s)
    BY <1>2, <1>3 DEF Spare, Owed
  <1>7. Tidy(r)
    BY <1>2, <1>3, <1>4 DEF Tidy, Has, Forward, TERMINATED
  <1> QED
    BY <1>2, <1>3, <1>5, <1>6, <1>7 DEF Turns

\* The TU is told of the state the transaction is in, or of an older one
\* than that of its end.
LEMMA TellTurns ==
    ASSUME NEW s, NEW st \in States, Tidy(s),
           st >= TERMINATED => s.state >= TERMINATED,
           s.told >= TERMINATED => st >= TERMINATED
    PROVE  /\ Turns(s, Tell(s, st), s.state)
           /\ st >= TERMINATED => Tell(s, st).told >= TERMINATED
  <1>1. CASE Has(s, "DESTROY")
    BY <1>1 DEF Tell, Turns, Tidy
  <1>2. CASE ~Has(s, "DESTROY")
    <2> DEFINE n == IF st = TERMINATED /\ s.terminations < 2 THEN s.terminations + 1
                    ELSE s.terminations
               r == [s EXCEPT !.told = st, !.terminations = n]
    <2>1. n \in 0 .. 2 /\ s \in TsxType
      BY DEF Tidy, TsxType
    <2>2. Tell(s, st) = r
      BY <1>2 DEF Tell
    <2> HIDE DEF n
    <2>3. /\ r \in TsxType /\ r.state = s.state /\ r.told = st
          /\ r.heap = s.heap /\ r.refs = s.refs
          /\ r.terminating = s.terminating /\ r.kept = s.kept /\ r.transport_flag = s.transport_flag
          /\ r.direct = s.direct /\ r.resolving = s.resolving
          /\ r.pending_tx = s.pending_tx
      BY <2>1 DEF TsxType
    <2> HIDE DEF r
    <2>4. Spare(r) = Spare(s)
      BY <2>3 DEF Spare, Owed
    <2> QED
      BY <1>2, <2>2, <2>3, <2>4 DEF Tidy, Has, Turns
  <1> QED
    BY <1>1, <1>2

WithoutSend(s, n) ==
    [s EXCEPT !.transport_flag = @ \ {"TRANSPORT"}, !.resolving = @ \ {s.pending_tx},
              !.pending_tx = NoMsg, !.refs = n]

LEMMA DetachTurns ==
    ASSUME NEW s, Tidy(s), s.state >= TERMINATED
    PROVE  Turns(s, Detach(s), s.state) /\ Detach(s).told = s.told
  <1>1. s \in TsxType /\ s.refs \in Int /\ s.kept \in Int
    BY DEF Tidy, TsxType
  <1>2. CASE ~Has(s, "TRANSPORT")
    BY <1>2 DEF Detach, Turns
  <1>3. CASE Has(s, "TRANSPORT")
    <2> DEFINE n == IF s.pending_tx = NoMsg THEN s.refs ELSE s.refs - 1
               r == WithoutSend(s, n)
    <2>1. n \in Int /\ Detach(s) = r
      BY <1>1, <1>3 DEF Detach, WithoutSend
    <2> HIDE DEF n
    <2>2. /\ r \in TsxType /\ r.state = s.state /\ r.told = s.told
          /\ r.heap = s.heap /\ r.refs = n
          /\ r.terminating = s.terminating /\ r.kept = s.kept
          /\ r.transport_flag = s.transport_flag \ {"TRANSPORT"}
          /\ r.direct = s.direct
          /\ r.resolving = s.resolving \ {s.pending_tx}
          /\ r.pending_tx = NoMsg
      BY <1>1, <2>1 DEF TsxType, WithoutSend
    <2>3. r.resolving = {}
      BY <2>2 DEF Tidy
    <2> HIDE DEF r
    <2>4. Weight(s.resolving # {}) = IF s.pending_tx = NoMsg THEN 0 ELSE 1
      BY DEF Tidy, Weight
    <2>5. Weight(r.resolving # {}) = 0
      BY <2>3 DEF Weight
    <2>6. Spare(r) = Spare(s)
      BY <1>1, <2>2, <2>4, <2>5 DEF Spare, Owed, n, Weight
    <2>7. s.state \in Int /\ ~(s.state < TERMINATED)
      BY <1>1 DEF TsxType, States, NULL, DESTROYED, TERMINATED
    <2>8. Tidy(r)
      BY <2>2, <2>3, <2>7 DEF Tidy, Has
    <2> QED
      BY <2>1, <2>2, <2>6, <2>8 DEF Turns
  <1> QED
    BY <1>2, <1>3

WithoutTransaction(s, f, n) ==
    [s EXCEPT !.transport = FALSE, !.last_tx = NoMsg, !.transport_flag = f,
              !.terminating = TRUE, !.refs = n]

LEMMA ShutdownTurns ==
    ASSUME NEW s, Tidy(s), s.told >= TERMINATED
    PROVE  Turns(s, Shutdown(s), s.state) /\ Shutdown(s).told = s.told
  <1> DEFINE c == Cancel(Cancel(s, "timeout"), "retransmit")
             f == c.transport_flag \ {"RESCHED", "SEND"}
             g == IF "TRANSPORT" \in f THEN f \cup {"DESTROY"} ELSE f
             n == IF s.terminating THEN c.refs ELSE c.refs - 1
             r == WithoutTransaction(c, g, n)
  <1>1. Balances(s, c) /\ c.terminating = s.terminating /\ c.kept = s.kept
    <2>1. Balances(s, Cancel(s, "timeout"))
      BY CancelBalances, TimerNames DEF Tidy
    <2>2. Balances(Cancel(s, "timeout"), c)
      BY <2>1, CancelBalances, TimerNames DEF Balances
    <2>3. c.terminating = s.terminating /\ c.kept = s.kept
      BY DEF Cancel, Tidy, TsxType
    <2> QED
      BY <2>1, <2>2, <2>3, BalancesTrans
  <1>2. c \in TsxType /\ Tidy(c) /\ Spare(c) = Spare(s) /\ c.told = s.told /\ c.state = s.state
    BY <1>1, BalancesSettles DEF Balances, Settles
  <1>3. Shutdown(s) = r
    BY DEF Shutdown, WithoutTransaction
  <1> HIDE DEF c
  <1>4. g \in SUBSET Flags /\ n \in Int /\ c.refs \in Int /\ c.kept \in Int /\ s.terminating \in BOOLEAN
    BY <1>2 DEF TsxType, Flags, Tidy
  <1>5. "TRANSPORT" \in g <=> "TRANSPORT" \in c.transport_flag
    OBVIOUS
  <1> HIDE DEF g, n
  <1>6. /\ r \in TsxType /\ r.state = c.state /\ r.told = c.told
        /\ r.heap = c.heap /\ r.refs = n
        /\ r.terminating = TRUE /\ r.kept = c.kept /\ r.transport_flag = g
        /\ r.direct = c.direct /\ r.resolving = c.resolving
        /\ r.pending_tx = c.pending_tx
    BY <1>2, <1>4 DEF TsxType, WithoutTransaction
  <1> HIDE DEF r
  <1>7. Weight(~r.terminating) = 0
        /\ Weight(~c.terminating) = IF s.terminating THEN 0 ELSE 1
    BY <1>1, <1>6 DEF Weight
  <1>8. Spare(r) = Spare(c)
    BY <1>4, <1>6, <1>7 DEF Spare, Owed, Weight, n
  <1>9. Tidy(r)
    BY <1>2, <1>5, <1>6 DEF Tidy, Has
  <1> QED
    BY <1>2, <1>3, <1>6, <1>8, <1>9 DEF Turns

\* What follows the telling.
LEMMA FinishTurns ==
    ASSUME NEW s, NEW st \in States, Tidy(s),
           st = TERMINATED => s.state >= TERMINATED,
           st = DESTROYED => s.told >= TERMINATED
    PROVE  Turns(s, Finish(s, st), s.state)
  <1>1. CASE st = TERMINATED
    <2>1. Turns(s, Detach(s), s.state)
      BY <1>1, DetachTurns
    <2>2. Balances(Detach(s), Restart(Detach(s), "timeout", TIMEOUT))
      BY <2>1, RestartBalances, TimerNames, IdNames DEF Turns, Tidy
    <2>3. Settles(Detach(s), Restart(Detach(s), "timeout", TIMEOUT))
      BY <2>1, <2>2, BalancesSettles DEF Turns
    <2> QED
      BY <1>1, <2>1, <2>2, <2>3 DEF Finish, Turns, Settles, Balances, TERMINATED, DESTROYED
  <1>2. CASE st = DESTROYED
    BY <1>2, ShutdownTurns DEF Finish, TERMINATED, DESTROYED
  <1>3. CASE st \notin {TERMINATED, DESTROYED}
    BY <1>3 DEF Finish, Turns
  <1> QED
    BY <1>1, <1>2, <1>3

\* tsx_set_state leaves nothing unaccounted for, and tells of the end.
LEMMA SetStateSettles ==
    ASSUME NEW s, NEW st, Tidy(s), Forward(s, st)
    PROVE  Settles(s, SetState(s, st))
  <1> DEFINE e == Enter(s, st)
             q == Tell(e, st)
  <1>1. Turns(s, e, st) /\ e.told = s.told /\ st \in States
    BY EnterTurns DEF Forward
  <1>2. s.told >= TERMINATED => st >= TERMINATED
    BY DEF Tidy, Forward, TsxType, States, NULL, DESTROYED, TERMINATED
  <1>3. Turns(e, q, st) /\ (st >= TERMINATED => q.told >= TERMINATED)
    BY <1>1, <1>2, TellTurns DEF Turns
  <1>4. Turns(q, Finish(q, st), st)
    BY <1>1, <1>3, FinishTurns DEF Turns, TERMINATED, DESTROYED
  <1> HIDE DEF e, q
  <1> QED
    BY <1>1, <1>3, <1>4 DEF SetState, e, q, Turns, Settles, Heard

LEMMA ForwardStates ==
    ASSUME NEW s
    PROVE  /\ Forward(s, TERMINATED) /\ Forward(s, DESTROYED)
           /\ s.state < TERMINATED => \A st \in States : Forward(s, st)
  BY StateNumbers DEF Forward

-----------------------------------------------------------------------------
(* Sending.                                                                *)

LEMMA ReschedBalances ==
    ASSUME NEW s \in TsxType
    PROVE  Balances(s, ReschedRetransmission(s))
  <1> DEFINE p == Check(s, "resched_pending", ~Has(s, "TRANSPORT"))
             q == Check(p, "resched_after_final",
                        s.role = "UAC" => s.status_code < 200)
  <1>1. Balances(s, p)
    BY CheckBalances DEF Asserts
  <1>2. Balances(p, q)
    BY <1>1, CheckBalances DEF Asserts, Balances
  <1>3. Balances(q, Schedule(q, "retransmit", RETRANSMIT))
    <2>1. q \in TsxType
      BY <1>2 DEF Balances
    <2> HIDE DEF q
    <2> QED
      BY <2>1, ScheduleBalances, TimerNames, IdNames
  <1>4. ReschedRetransmission(s) = Schedule(q, "retransmit", RETRANSMIT)
    BY DEF ReschedRetransmission, Check, Has, TsxType
  <1> HIDE DEF p, q
  <1> QED
    BY <1>1, <1>2, <1>3, <1>4, BalancesTrans

LEMMA StartBalances ==
    ASSUME NEW s \in TsxType
    PROVE  Balances(s, StartRetransmission(s))
  BY FlagBalances, ScheduleBalances, TimerNames, IdNames DEF StartRetransmission

LEMMA PendingReschedBalances ==
    ASSUME NEW s \in TsxType
    PROVE  Balances(s, DoPendingResched(s))
  <1> DEFINE q == Clear(s, "RESCHED")
  <1>1. Balances(s, q)
    BY FlagBalances
  <1>2. Balances(q, ReschedRetransmission(q))
    BY <1>1, ReschedBalances DEF Balances
  <1>3. Balances(s, s) /\ Balances(s, ReschedRetransmission(q))
    BY <1>1, <1>2, BalancesItself, BalancesTrans
  <1> QED
    BY <1>1, <1>3 DEF DoPendingResched

\* A send may be made: none is outstanding, or it will be put off.
Free(s) == Has(s, "TRANSPORT") \/ s.direct = {}

\* No send is outstanding.
Clean(s) == Tidy(s) /\ ~Has(s, "TRANSPORT") /\ s.direct = {}

LEMMA CleanSends ==
    ASSUME NEW s, Clean(s)
    PROVE  s \in TsxType /\ Tidy(s) /\ s.resolving = {} /\ s.pending_tx = NoMsg
  BY DEF Clean, Tidy

LEMMA BalancesClean ==
    ASSUME NEW s, NEW r, Clean(s), Balances(s, r)
    PROVE  Clean(r)
  BY BalancesSettles DEF Clean, Settles, Balances

\* r is s with a send outstanding: direct, resolving and m are its new
\* direct, resolving and pending_tx.
Accepts(s, r, direct, resolving, m) ==
    /\ r \in TsxType /\ r.state = s.state /\ r.told = s.told
    /\ r.heap = s.heap /\ r.refs = s.refs + 1 /\ r.terminating = s.terminating /\ r.kept = s.kept
    /\ r.transport_flag = s.transport_flag \cup {"TRANSPORT"}
    /\ r.direct = direct /\ r.resolving = resolving /\ r.pending_tx = m

WithSent(s, sent, n) == [s EXCEPT !.sent = sent, !.refs = n]
WithSend(s, direct, resolving, m) ==
    [s EXCEPT !.direct = direct, !.resolving = resolving, !.pending_tx = m]

LEMMA WithSendAccepts ==
    ASSUME NEW s \in TsxType, NEW sent \in SUBSET Messages, NEW direct \in SUBSET Messages,
           NEW resolving \in SUBSET Messages, NEW m \in Messages \cup {NoMsg}
    PROVE  Accepts(s, WithSend(WithSent(Raise(s, "TRANSPORT"), sent, s.refs + 1),
                               direct, resolving, m),
                   direct, resolving, m)
  <1> DEFINE q == Raise(s, "TRANSPORT")
             p == WithSent(q, sent, s.refs + 1)
             r == WithSend(p, direct, resolving, m)
  <1>1. /\ q \in TsxType /\ q.state = s.state /\ q.told = s.told
        /\ q.heap = s.heap /\ q.refs = s.refs /\ q.terminating = s.terminating /\ q.kept = s.kept
        /\ q.transport_flag = s.transport_flag \cup {"TRANSPORT"} /\ s.refs + 1 \in Int
    BY DEF TsxType, Raise, Flags
  <1> HIDE DEF q
  <1>2. /\ p \in TsxType /\ p.state = q.state /\ p.told = q.told
        /\ p.heap = q.heap /\ p.refs = s.refs + 1 /\ p.terminating = q.terminating /\ p.kept = q.kept
        /\ p.transport_flag = q.transport_flag
    BY <1>1 DEF TsxType, WithSent
  <1> HIDE DEF p
  <1>3. /\ r \in TsxType /\ r.state = p.state /\ r.told = p.told
        /\ r.heap = p.heap /\ r.refs = p.refs /\ r.terminating = p.terminating /\ r.kept = p.kept
        /\ r.transport_flag = p.transport_flag
        /\ r.direct = direct /\ r.resolving = resolving /\ r.pending_tx = m
    BY <1>2 DEF TsxType, WithSend
  <1> HIDE DEF r
  <1>4. Accepts(s, r, direct, resolving, m)
    BY <1>1, <1>2, <1>3 DEF Accepts
  <1> QED
    BY <1>4 DEF p, q, r

WithDirect(s, m) ==
    [Raise(s, "TRANSPORT") EXCEPT !.sent = @ \cup {m}, !.direct = @ \cup {m},
                                  !.refs = @ + 1]

\* A transport takes the message and will call back.
LEMMA DirectPendingSettles ==
    ASSUME NEW s, NEW m \in Messages, Clean(s), "pending" \in DirectOutcomes
    PROVE  Settles(s, WithDirect(s, m))
  <1> DEFINE r == WithDirect(s, m)
  <1>1. s \in TsxType /\ Tidy(s) /\ s.refs \in Int /\ s.kept \in Int /\ s.direct = {}
        /\ s.resolving = {} /\ s.pending_tx = NoMsg
    BY CleanSends DEF TsxType, Clean
  <1>2. /\ r \in TsxType /\ r.state = s.state /\ r.told = s.told
        /\ r.heap = s.heap /\ r.refs = s.refs + 1
        /\ r.terminating = s.terminating /\ r.kept = s.kept
        /\ r.transport_flag = s.transport_flag \cup {"TRANSPORT"}
        /\ r.direct = s.direct \cup {m} /\ r.resolving = s.resolving
        /\ r.pending_tx = s.pending_tx
    <2> DEFINE p == WithSent(Raise(s, "TRANSPORT"), s.sent \cup {m}, s.refs + 1)
    <2>1. r = WithSend(p, s.direct \cup {m}, s.resolving, s.pending_tx)
      BY <1>1 DEF WithDirect, WithSend, WithSent, Raise, TsxType
    <2>2. /\ s.sent \cup {m} \in SUBSET Messages
          /\ s.direct \cup {m} \in SUBSET Messages /\ s.direct \in SUBSET Messages
          /\ s.resolving \cup {m} \in SUBSET Messages
          /\ s.resolving \in SUBSET Messages /\ s.pending_tx \in Messages \cup {NoMsg}
      BY <1>1 DEF TsxType
    <2> HIDE DEF r
    <2>3. Accepts(s, r, s.direct \cup {m}, s.resolving, s.pending_tx)
      BY <1>1, <2>1, <2>2, WithSendAccepts
    <2> QED
      BY <2>3 DEF Accepts
  <1> HIDE DEF r
  <1>3. Weight(s.direct # {}) = 0 /\ Weight(r.direct # {}) = 1
    BY <1>1, <1>2 DEF Weight
  <1>4. Spare(r) = Spare(s)
    BY <1>1, <1>2, <1>3 DEF Spare, Owed, Weight
  <1>5. Tidy(r)
    BY <1>1, <1>2 DEF Tidy, Has
  <1>6. Settles(s, r)
    BY <1>2, <1>4, <1>5 DEF Settles, Heard
  <1> QED
    BY <1>6 DEF r

LEMMA DirectSendSettles ==
    ASSUME NEW s, NEW m \in Messages, NEW outcome \in DirectOutcomes, Clean(s)
    PROVE  /\ Settles(s, DirectSend(s, m, outcome))
           /\ Fails(outcome) => Balances(s, DirectSend(s, m, outcome))
  <1>1. s \in TsxType /\ Tidy(s)
    BY CleanSends
  <1>2. CASE outcome = "sent"
    BY <1>1, <1>2, SentBalances, BalancesSettles DEF DirectSend, Fails
  <1>3. CASE outcome = "pending"
    BY <1>3, DirectPendingSettles DEF DirectSend, Fails, WithDirect
  <1>4. CASE outcome = "failed"
    BY <1>1, <1>4, TransportBalances, BalancesSettles DEF DirectSend
  <1>5. CASE outcome = "broken"
    <2> DEFINE q == Post(s, DISC)
    <2>1. Balances(s, q)
      BY <1>1, PostBalances, IdNames
    <2>2. Balances(q, [q EXCEPT !.transport = FALSE])
      BY <2>1, TransportBalances DEF Balances
    <2>3. Balances(s, [q EXCEPT !.transport = FALSE])
      BY <2>1, <2>2, BalancesTrans
    <2> QED
      BY <1>1, <1>5, <2>3, BalancesSettles DEF DirectSend
  <1> QED
    BY <1>2, <1>3, <1>4, <1>5, ConfigAssumption

LEMMA TransportFailureSettles ==
    ASSUME NEW s, Tidy(s)
    PROVE  Settles(s, TransportFailure(s))
  <1> DEFINE q == [s EXCEPT !.status_code = TransportErrorCode]
  <1>1. Balances(s, q)
    BY StatusBalances DEF Tidy, Codes
  <1>2. Settles(s, q) /\ Tidy(q)
    BY <1>1, BalancesSettles DEF Settles
  <1>3. Settles(q, SetState(q, TERMINATED))
    BY <1>2, SetStateSettles, ForwardStates
  <1> QED
    BY <1>2, <1>3, SettlesTrans DEF TransportFailure

LEMMA SendAgainSettles ==
    ASSUME NEW s, NEW m \in Messages \cup {NoMsg}, NEW outcome \in DirectOutcomes, Clean(s)
    PROVE  Settles(s, SendAgain(s, m, outcome))
  <1>1. s \in TsxType /\ Tidy(s) /\ s.direct = {}
    BY CleanSends DEF Clean
  <1>2. CASE m = NoMsg
    BY <1>1, <1>2, CheckBalances, BalancesSettles DEF SendAgain, Asserts
  <1>3. CASE m # NoMsg
    <2> DEFINE q == DirectSend(s, m, outcome)
    <2>1. Settles(s, q)
      BY <1>3, DirectSendSettles
    <2>2. Settles(q, TransportFailure(q))
      BY <2>1, TransportFailureSettles DEF Settles
    <2>3. Settles(s, TransportFailure(q))
      BY <2>1, <2>2, SettlesTrans
    <2> QED
      BY <1>1, <1>3, <2>1, <2>3 DEF SendAgain
  <1> QED
    BY <1>2, <1>3

WithResolved(s, b, f) ==
    [s EXCEPT !.transport = TRUE, !.is_reliable = b, !.pending_tx = NoMsg, !.transport_flag = f]

LEMMA WithResolvedFields ==
    ASSUME NEW s \in TsxType, NEW b \in BOOLEAN, NEW f \in SUBSET Flags
    PROVE  LET q == WithResolved(s, b, f)
           IN  /\ q \in TsxType /\ q.state = s.state /\ q.told = s.told
               /\ q.heap = s.heap /\ q.refs = s.refs
               /\ q.terminating = s.terminating /\ q.kept = s.kept /\ q.transport_flag = f
               /\ q.direct = s.direct /\ q.resolving = s.resolving
               /\ q.pending_tx = NoMsg
  BY DEF TsxType, WithResolved

LEMMA ResolvedBalances ==
    ASSUME NEW s, NEW o \in Outcomes, Clean(s)
    PROVE  Balances(s, Resolved(s, o))
  <1> DEFINE r == Resolved(s, o)
  <1>1. s \in TsxType /\ s.pending_tx = NoMsg /\ ~Has(s, "TRANSPORT")
    BY CleanSends DEF Clean
  <1>2. /\ r \in TsxType /\ r.state = s.state /\ r.told = s.told
        /\ r.heap = s.heap /\ r.refs = s.refs
        /\ r.terminating = s.terminating /\ r.kept = s.kept
        /\ r.transport_flag = (s.transport_flag \ {"TRANSPORT"}) \cup {"RESOLVED"}
        /\ r.direct = s.direct /\ r.resolving = s.resolving
        /\ r.pending_tx = NoMsg
    <2> DEFINE f == (s.transport_flag \ {"TRANSPORT"}) \cup {"RESOLVED"}
    <2>1. f \in SUBSET Flags
      BY <1>1 DEF TsxType, Flags
    <2>2. r = WithResolved(s, o.reliable, f)
      BY DEF Resolved, WithResolved
    <2> HIDE DEF f, r
    <2> QED
      BY <1>1, <2>1, <2>2, OutcomeTypes, WithResolvedFields DEF f
  <1> HIDE DEF r
  <1>3. Balances(s, r)
    BY <1>1, <1>2 DEF Balances, Spare, Owed, Has
  <1> QED
    BY <1>3 DEF r

WithResolveFailed(s, c, f) ==
    [s EXCEPT !.transport = FALSE, !.pending_tx = NoMsg, !.status_code = c, !.transport_flag = f]

LEMMA WithResolveFailedFields ==
    ASSUME NEW s \in TsxType, NEW c \in Codes, NEW f \in SUBSET Flags
    PROVE  LET q == WithResolveFailed(s, c, f)
           IN  /\ q \in TsxType /\ q.state = s.state /\ q.told = s.told
               /\ q.heap = s.heap /\ q.refs = s.refs
               /\ q.terminating = s.terminating /\ q.kept = s.kept /\ q.transport_flag = f
               /\ q.direct = s.direct /\ q.resolving = s.resolving
               /\ q.pending_tx = NoMsg
  BY DEF TsxType, WithResolveFailed

LEMMA ResolveFailedBalances ==
    ASSUME NEW s, Clean(s)
    PROVE  Balances(s, ResolveFailed(s))
  <1> DEFINE r == ResolveFailed(s)
  <1>1. s \in TsxType /\ s.pending_tx = NoMsg /\ ~Has(s, "TRANSPORT")
    BY CleanSends DEF Clean
  <1>2. /\ r \in TsxType /\ r.state = s.state /\ r.told = s.told
        /\ r.heap = s.heap /\ r.refs = s.refs
        /\ r.terminating = s.terminating /\ r.kept = s.kept
        /\ r.transport_flag = (s.transport_flag \ {"TRANSPORT"}) \cup {"RESOLVED"}
        /\ r.direct = s.direct /\ r.resolving = s.resolving
        /\ r.pending_tx = NoMsg
    <2> DEFINE f == (s.transport_flag \ {"TRANSPORT"}) \cup {"RESOLVED"}
    <2>1. f \in SUBSET Flags
            /\ TransportErrorCode \in Codes
      BY <1>1 DEF TsxType, Flags, Codes
    <2>2. r = WithResolveFailed(s, TransportErrorCode, f)
      BY DEF ResolveFailed, WithResolveFailed
    <2> HIDE DEF f, r
    <2> QED
      BY <1>1, <2>1, <2>2, WithResolveFailedFields DEF f
  <1> HIDE DEF r
  <1>3. Balances(s, r)
    BY <1>1, <1>2 DEF Balances, Spare, Owed, Has
  <1> QED
    BY <1>3 DEF r

\* DoPendingResched after a send that may have ended the transaction.
LEMMA SettlesPendingResched ==
    ASSUME NEW s, NEW r, Settles(s, r)
    PROVE  Settles(s, DoPendingResched(r))
  <1>1. Settles(r, DoPendingResched(r))
    BY PendingReschedBalances, BalancesSettles DEF Settles, Tidy
  <1> QED
    BY <1>1, SettlesTrans

LEMMA InlineResolvedSettles ==
    ASSUME NEW s, NEW o \in Outcomes, Clean(s)
    PROVE  Settles(s, InlineResolved(s, o))
  <1> DEFINE q == Clear(s, "SEND")
             r == IF Has(s, "SEND") THEN SendAgain(q, s.last_tx, o.again) ELSE s
  <1>1. s \in TsxType /\ Tidy(s)
    BY CleanSends
  <1>2. Settles(s, SetState(s, DESTROYED))
    BY <1>1, SetStateSettles, ForwardStates
  <1>3. Balances(s, q)
    BY <1>1, FlagBalances
  <1>4. Settles(s, q) /\ Clean(q)
    BY <1>1, <1>3, BalancesSettles, BalancesClean
  <1>5. Settles(q, SendAgain(q, s.last_tx, o.again))
    BY <1>1, <1>4, SendAgainSettles, OutcomeTypes DEF TsxType
  <1>6. Settles(s, r)
    BY <1>1, <1>4, <1>5, SettlesTrans, SettlesItself
  <1>7. Settles(s, DoPendingResched(r))
    BY <1>6, SettlesPendingResched
  <1> QED
    BY <1>2, <1>7 DEF InlineResolved

LEMMA InlineFailedSettles ==
    ASSUME NEW s, Tidy(s)
    PROVE  Settles(s, InlineFailed(s))
  BY SetStateSettles, ForwardStates, SettlesItself DEF InlineFailed

WithResolving(s, m) ==
    [Raise(s, "TRANSPORT") EXCEPT !.sent = @ \cup {m}, !.resolving = @ \cup {m},
                                  !.pending_tx = m, !.refs = @ + 1]

\* The resolver takes the message and will call back.
LEMMA ResolvePendingSettles ==
    ASSUME NEW s, NEW m \in Messages, Clean(s)
    PROVE  Settles(s, WithResolving(s, m))
  <1> DEFINE r == WithResolving(s, m)
  <1>1. s \in TsxType /\ Tidy(s) /\ s.refs \in Int /\ s.kept \in Int /\ s.direct = {} /\ s.resolving = {}
    BY CleanSends DEF TsxType, Clean
  <1>2. /\ r \in TsxType /\ r.state = s.state /\ r.told = s.told
        /\ r.heap = s.heap /\ r.refs = s.refs + 1
        /\ r.terminating = s.terminating /\ r.kept = s.kept
        /\ r.transport_flag = s.transport_flag \cup {"TRANSPORT"}
        /\ r.direct = s.direct /\ r.resolving = s.resolving \cup {m}
        /\ r.pending_tx = m
    <2> DEFINE p == WithSent(Raise(s, "TRANSPORT"), s.sent \cup {m}, s.refs + 1)
    <2>1. r = WithSend(p, s.direct, s.resolving \cup {m}, m)
      BY <1>1 DEF WithResolving, WithSend, WithSent, Raise, TsxType
    <2>2. /\ s.sent \cup {m} \in SUBSET Messages
          /\ s.direct \cup {m} \in SUBSET Messages /\ s.direct \in SUBSET Messages
          /\ s.resolving \cup {m} \in SUBSET Messages
          /\ s.resolving \in SUBSET Messages /\ s.pending_tx \in Messages \cup {NoMsg}
      BY <1>1 DEF TsxType
    <2> HIDE DEF r
    <2>3. Accepts(s, r, s.direct, s.resolving \cup {m}, m)
      BY <1>1, <2>1, <2>2, WithSendAccepts
    <2> QED
      BY <2>3 DEF Accepts
  <1> HIDE DEF r
  <1>3. Weight(s.resolving # {}) = 0 /\ Weight(r.resolving # {}) = 1
    BY <1>1, <1>2 DEF Weight
  <1>4. Spare(r) = Spare(s)
    BY <1>1, <1>2, <1>3 DEF Spare, Owed, Weight
  <1>5. r.resolving = {r.pending_tx} \ {NoMsg}
    BY <1>1, <1>2, CodeKinds
  <1>6. Tidy(r)
    BY <1>1, <1>2, <1>5 DEF Tidy, Has
  <1>7. Settles(s, r)
    BY <1>2, <1>4, <1>6 DEF Settles, Heard
  <1> QED
    BY <1>7 DEF r

LEMMA ResolveAndSendSettles ==
    ASSUME NEW s, NEW m \in Messages, NEW o \in Outcomes, Clean(s)
    PROVE  Settles(s, ResolveAndSend(s, m, o))
  <1>1. s \in TsxType /\ Tidy(s)
    BY CleanSends
  <1>2. CASE Has(s, "RESOLVED")
    BY <1>1, <1>2, TransportFailureSettles DEF ResolveAndSend
  <1>3. CASE ~Has(s, "RESOLVED") /\ o.resolve = "sent"
    <2> DEFINE p == [s EXCEPT !.sent = @ \cup {m}]
               q == Resolved(p, o)
    <2>1. Balances(s, p)
      BY <1>1, SentBalances
    <2>2. Clean(p)
      BY <2>1, BalancesClean
    <2> HIDE DEF p
    <2>3. Balances(p, q)
      BY <2>2, ResolvedBalances
    <2>4. Balances(s, q)
      BY <2>1, <2>3, BalancesTrans
    <2>5. Settles(s, q) /\ Clean(q)
      BY <1>1, <2>4, BalancesSettles, BalancesClean
    <2> HIDE DEF q
    <2>6. Settles(q, InlineResolved(q, o))
      BY <2>5, InlineResolvedSettles
    <2>7. Settles(s, InlineResolved(q, o))
      BY <2>5, <2>6, SettlesTrans
    <2> QED
      BY <1>3, <2>7 DEF ResolveAndSend, p, q
  <1>4. CASE ~Has(s, "RESOLVED") /\ o.resolve = "pending"
    BY <1>4, ResolvePendingSettles DEF ResolveAndSend, WithResolving
  <1>5. CASE ~Has(s, "RESOLVED") /\ o.resolve = "failed"
    <2>1. Settles(s, ResolveFailed(s))
      BY <1>1, ResolveFailedBalances, BalancesSettles
    <2>2. Settles(ResolveFailed(s), InlineFailed(ResolveFailed(s)))
      BY <2>1, InlineFailedSettles DEF Settles
    <2> QED
      BY <1>5, <2>1, <2>2, SettlesTrans DEF ResolveAndSend
  <1> QED
    BY <1>2, <1>3, <1>4, <1>5, OutcomeTypes, ConfigAssumption

LEMMA SendMsgSettles ==
    ASSUME NEW s, NEW m \in Messages \cup {NoMsg}, NEW o \in Outcomes, Tidy(s), Free(s)
    PROVE  Settles(s, SendMsg(s, m, o))
  <1>1. s \in TsxType
    BY DEF Tidy
  <1>2. CASE m = NoMsg
    BY <1>1, <1>2, CheckBalances, BalancesSettles DEF SendMsg, Asserts
  <1>3. CASE m # NoMsg /\ Has(s, "TRANSPORT")
    BY <1>1, <1>3, FlagBalances, BalancesSettles DEF SendMsg
  <1>4. CASE m # NoMsg /\ ~Has(s, "TRANSPORT")
    <2>1. Clean(s) /\ m \in Messages /\ m \notin s.direct
      BY <1>4 DEF Clean, Free
    <2>2. CASE ~s.transport
      <3> DEFINE q == Check(s, "unexpected_status", ~Has(s, "RESOLVED"))
      <3>1. Balances(s, q)
        BY <1>1, CheckBalances DEF Asserts
      <3>2. Settles(s, q) /\ Clean(q)
        BY <2>1, <3>1, BalancesSettles, BalancesClean
      <3>3. Settles(q, ResolveAndSend(q, m, o))
        BY <2>1, <3>2, ResolveAndSendSettles
      <3>4. Settles(s, ResolveAndSend(q, m, o))
        BY <3>2, <3>3, SettlesTrans
      <3> QED
        BY <1>4, <2>1, <2>2, <3>4 DEF SendMsg
    <2>3. CASE s.transport
      <3> DEFINE q == DirectSend(s, m, o.direct)
      <3>1. Settles(s, q) /\ (Fails(o.direct) => Balances(s, q))
        BY <2>1, DirectSendSettles, OutcomeTypes
      <3>2. ASSUME Fails(o.direct)
            PROVE  Settles(s, ResolveAndSend(q, m, o))
        <4>1. Clean(q)
          BY <2>1, <3>1, <3>2, BalancesClean
        <4>2. Settles(q, ResolveAndSend(q, m, o))
          BY <2>1, <4>1, ResolveAndSendSettles
        <4> QED
          BY <3>1, <4>2, SettlesTrans
      <3> QED
        BY <1>4, <2>1, <2>3, <3>1, <3>2 DEF SendMsg
    <2> QED
      BY <2>2, <2>3
  <1> QED
    BY <1>2, <1>3, <1>4

LEMMA AfterSentSettles ==
    ASSUME NEW s, NEW o \in Outcomes, Clean(s)
    PROVE  Settles(s, AfterSent(s, o))
  <1> DEFINE q == Clear(s, "SEND")
             r == IF Has(s, "SEND") THEN SendMsg(q, s.last_tx, o) ELSE s
  <1>1. s \in TsxType /\ Tidy(s)
    BY CleanSends
  <1>2. Settles(s, SetState(s, DESTROYED))
    BY <1>1, SetStateSettles, ForwardStates
  <1>3. Balances(s, q)
    BY <1>1, FlagBalances
  <1>4. Settles(s, q) /\ Clean(q)
    BY <1>1, <1>3, BalancesSettles, BalancesClean
  <1>5. Settles(q, SendMsg(q, s.last_tx, o))
    BY <1>1, <1>4, SendMsgSettles DEF TsxType, Clean, Free
  <1>6. Settles(s, r)
    BY <1>1, <1>4, <1>5, SettlesTrans, SettlesItself
  <1>7. Settles(s, DoPendingResched(r))
    BY <1>6, SettlesPendingResched
  <1> QED
    BY <1>2, <1>7 DEF AfterSent

LEMMA RetransmitSettles ==
    ASSUME NEW s, NEW resched \in BOOLEAN, NEW o \in Outcomes, Tidy(s), Free(s)
    PROVE  Settles(s, Retransmit(s, resched, o))
  <1> DEFINE c == Check(s, "retransmit_confirmed", s.state # CONFIRMED)
             r == IF Has(c, "TRANSPORT") THEN Raise(c, "RESCHED")
                  ELSE ReschedRetransmission(c)
  <1>1. s \in TsxType
    BY DEF Tidy
  <1>2. Settles(s, Check(s, "last_tx", FALSE))
    BY <1>1, CheckBalances, BalancesSettles DEF Asserts
  <1>3. Settles(s, SendMsg(s, s.last_tx, o))
    BY <1>1, SendMsgSettles DEF TsxType
  <1>4. Settles(s, SendMsg(r, r.last_tx, o))
    <2>1. Balances(s, c)
      BY <1>1, CheckBalances DEF Asserts
    <2>2. Balances(c, r)
      BY <2>1, FlagBalances, ReschedBalances DEF Balances
    <2>3. Balances(s, r)
      BY <2>1, <2>2, BalancesTrans
    <2> HIDE DEF r
    <2>4. Settles(s, r) /\ Free(r) /\ r \in TsxType
      BY <2>3, BalancesSettles DEF Balances, Free
    <2>5. Settles(r, SendMsg(r, r.last_tx, o))
      BY <2>4, SendMsgSettles DEF Settles, TsxType
    <2> QED
      BY <2>4, <2>5, SettlesTrans
  <1> QED
    BY <1>2, <1>3, <1>4, SettlesItself DEF Retransmit

-----------------------------------------------------------------------------
(* The state handlers.                                                     *)

\* The transaction has not ended: none of its sends is detached.
Live(s) == Tidy(s) /\ s.state < TERMINATED

LEMMA LiveFacts ==
    ASSUME NEW s, Live(s)
    PROVE  /\ s \in TsxType /\ Tidy(s) /\ Free(s) /\ ~Late(s)
           /\ \A st \in States : Forward(s, st)
  <1>1. s.state \in Int /\ s.told \in Int
    BY DEF Live, Tidy, TsxType, States, NULL, DESTROYED
  <1> QED
    BY <1>1, ForwardStates DEF Live, Tidy, Free, Late, Has, TERMINATED

LEMMA BalancesLive ==
    ASSUME NEW s, NEW r, Live(s), Balances(s, r)
    PROVE  Live(r) /\ Settles(s, r)
  BY BalancesSettles DEF Live, Settles, Balances

LEMMA LiveSetState ==
    ASSUME NEW s, NEW st \in States, Live(s)
    PROVE  Settles(s, SetState(s, st))
  BY LiveFacts, SetStateSettles

\* A send either fails and ends the transaction or leaves it where it was.
LEMMA LiveSendMsg ==
    ASSUME NEW s, NEW m \in Messages \cup {NoMsg}, NEW o \in Outcomes, Live(s)
    PROVE  /\ Settles(s, SendMsg(s, m, o))
           /\ ~SendFailed(SendMsg(s, m, o)) => Live(SendMsg(s, m, o))
  <1> DEFINE r == SendMsg(s, m, o)
  <1>1. s \in TsxType /\ Tidy(s) /\ Free(s) /\ ~Late(s)
    BY LiveFacts
  <1>2. Settles(s, r)
    BY <1>1, SendMsgSettles
  <1>3. Leads(s, r, {m, s.last_tx})
    BY <1>1, SendMsgLeads
  <1> HIDE DEF r
  <1>4. ~SendFailed(r) => r.state = s.state
    BY <1>1, <1>3 DEF Leads, Sends, SendFailed
  <1>5. ~SendFailed(r) => Live(r)
    BY <1>2, <1>4 DEF Live, Settles
  <1> QED
    BY <1>2, <1>5 DEF r

LEMMA CallingResponseBalances ==
    ASSUME NEW s \in TsxType, NEW c
    PROVE  Balances(s, CallingResponse(s, c))
  <1> DEFINE q == Cancel(s, "retransmit")
             u == IF c >= 200
                  THEN IF q.id["timeout"] # INACTIVE THEN Cancel(q, "timeout") ELSE q
                  ELSE IF s.method = "INVITE" THEN Cancel(q, "timeout")
                  ELSE IF q.is_reliable THEN q
                  ELSE Schedule(q, "retransmit", RETRANSMIT)
  <1>1. Balances(s, q)
    BY CancelBalances, TimerNames
  <1>2. q \in TsxType
    BY <1>1 DEF Balances
  <1>3. Balances(q, q) /\ Balances(q, Cancel(q, "timeout"))
            /\ Balances(q, Schedule(q, "retransmit", RETRANSMIT))
    <2> HIDE DEF q
    <2> QED
      BY <1>2, BalancesItself, CancelBalances, ScheduleBalances, TimerNames, IdNames
  <1>4. Balances(q, u)
    BY <1>3
  <1> HIDE DEF u, q
  <1>5. Balances(u, Clear(u, "RESCHED"))
    BY <1>4, FlagBalances DEF Balances
  <1>6. Balances(s, Clear(u, "RESCHED"))
    BY <1>1, <1>4, <1>5, BalancesTrans
  <1> QED
    BY <1>6 DEF CallingResponse, u, q

\* A final response that is not a 200 stops both timers, is acknowledged if
\* the request was an INVITE, and starts the wait in COMPLETED.
FailureResponse(s, c, o) ==
    LET q == Cancel(Cancel(s, "retransmit"), "timeout")
        a == IF s.method = "INVITE" THEN SendMsg(q, Ack, o) ELSE q
        r == SetState(a, COMPLETED)
    IN  IF SendFailed(a) THEN a
        ELSE IF s.method = "BYE" /\ c = 481 THEN SetState(a, TERMINATED)
        ELSE Restart([r EXCEPT !.last_tx = IF s.method = "INVITE" THEN Ack ELSE @],
                     "timeout", TIMEOUT)

LEMMA FailureResponseSettles ==
    ASSUME NEW s, NEW c, NEW o \in Outcomes, Live(s)
    PROVE  Settles(s, FailureResponse(s, c, o))
  <1> DEFINE p == Cancel(s, "retransmit")
             q == Cancel(p, "timeout")
             a == IF s.method = "INVITE" THEN SendMsg(q, Ack, o) ELSE q
             r == SetState(a, COMPLETED)
             tx == IF s.method = "INVITE" THEN Ack ELSE r.last_tx
             e == [r EXCEPT !.last_tx = tx]
  <1>1. s \in TsxType
    BY LiveFacts
  <1>2. Balances(s, p)
    BY <1>1, CancelBalances, TimerNames
  <1>3. Balances(p, q)
    BY <1>2, CancelBalances, TimerNames DEF Balances
  <1>4. Live(q) /\ Settles(s, q)
    BY <1>2, <1>3, BalancesTrans, BalancesLive
  <1> HIDE DEF q
  <1>5. Settles(q, a) /\ (~SendFailed(a) => Live(a))
    <2>1. Settles(q, SendMsg(q, Ack, o))
            /\ (~SendFailed(SendMsg(q, Ack, o)) => Live(SendMsg(q, Ack, o)))
      BY <1>4, LiveSendMsg, CodeKinds
    <2>2. Settles(q, q)
      BY <1>4, SettlesItself DEF Live
    <2> QED
      BY <1>4, <2>1, <2>2
  <1>6. Settles(s, a)
    BY <1>4, <1>5, SettlesTrans
  <1> HIDE DEF a
  <1>7. ASSUME ~SendFailed(a)
        PROVE  Settles(s, SetState(a, TERMINATED)) /\ Settles(s, Restart(e, "timeout", TIMEOUT))
    <2>1. Settles(a, SetState(a, TERMINATED)) /\ Settles(a, r)
      BY <1>5, <1>7, LiveSetState, StateNumbers
    <2> HIDE DEF r
    <2>2. Balances(r, e)
      <3>1. r \in TsxType
        BY <2>1 DEF Settles, Tidy
      <3>2. tx \in Messages \cup {NoMsg}
        BY <3>1, CodeKinds DEF TsxType
      <3> HIDE DEF tx
      <3> QED
        BY <3>1, <3>2, LastTxBalances
    <2> HIDE DEF e
    <2>3. Balances(e, Restart(e, "timeout", TIMEOUT))
      BY <2>2, RestartBalances, TimerNames, IdNames DEF Balances
    <2>4. Settles(r, Restart(e, "timeout", TIMEOUT))
      BY <2>1, <2>2, <2>3, BalancesTrans, BalancesSettles DEF Settles
    <2> QED
      BY <1>6, <2>1, <2>4, SettlesTrans
  <1>8. FailureResponse(s, c, o) =
            IF SendFailed(a) THEN a
            ELSE IF s.method = "BYE" /\ c = 481 THEN SetState(a, TERMINATED)
            ELSE Restart(e, "timeout", TIMEOUT)
    BY DEF FailureResponse, a, q
  <1> HIDE DEF e
  <1> QED
    BY <1>6, <1>7, <1>8

LEMMA ProceedingUacSettles ==
    ASSUME NEW s, NEW c \in Provisional \cup Final, NEW o \in Outcomes, Live(s)
    PROVE  Settles(s, ProceedingUac(s, c, o))
  <1>1. s \in TsxType
    BY LiveFacts
  <1>2. CASE c < 200
    BY <1>2, LiveSetState, StateNumbers, CodeKinds DEF ProceedingUac
  <1>3. CASE c = 200 /\ s.method = "INVITE"
    <2> DEFINE q == Cancel(s, "timeout")
    <2>1. Live(q) /\ Settles(s, q)
      BY <1>1, CancelBalances, TimerNames, BalancesLive
    <2>2. Settles(q, SetState(q, TERMINATED))
      BY <2>1, LiveSetState, StateNumbers
    <2> QED
      BY <1>3, <2>1, <2>2, SettlesTrans DEF ProceedingUac
  <1>4. CASE c = 200 /\ s.method # "INVITE"
    <2> DEFINE p == Restart(s, "timeout", TIMEOUT)
               q == Cancel(p, "retransmit")
    <2>1. Balances(s, p)
      BY <1>1, RestartBalances, TimerNames, IdNames
    <2>2. Balances(p, q)
      BY <2>1, CancelBalances, TimerNames DEF Balances
    <2>3. Live(q) /\ Settles(s, q)
      BY <2>1, <2>2, BalancesTrans, BalancesLive
    <2>4. Settles(q, SetState(q, COMPLETED))
      BY <2>3, LiveSetState, StateNumbers
    <2> QED
      BY <1>4, <2>3, <2>4, SettlesTrans DEF ProceedingUac
  <1>5. CASE c >= 300
    <2>1. ~(c < 200) /\ c # 200
      BY <1>5, CodeKinds
    <2>2. ProceedingUac(s, c, o) = FailureResponse(s, c, o)
      BY <1>5, <2>1, Zenon DEF ProceedingUac, FailureResponse
    <2> QED
      BY <2>2, FailureResponseSettles
  <1> QED
    BY <1>2, <1>3, <1>4, <1>5, CodeKinds

LEMMA OnResponseSettles ==
    ASSUME NEW s, NEW c \in Provisional \cup Final, NEW o \in Outcomes, Tidy(s)
    PROVE  Settles(s, OnResponse(s, c, o))
  <1>1. s \in TsxType /\ c \in Codes /\ TRUE \in BOOLEAN /\ FALSE \in BOOLEAN
    BY CodeKinds DEF Tidy
  <1>2. CASE s.state = CALLING
    <2> DEFINE p == CallingResponse(s, c)
               q == [p EXCEPT !.status_code = c]
    <2>1. Balances(s, p)
      BY <1>1, CallingResponseBalances
    <2> HIDE DEF p
    <2>2. Balances(p, q)
      BY <1>1, <2>1, StatusBalances DEF Balances
    <2>3. Live(s)
      BY <1>2, StateNumbers DEF Live
    <2>4. Live(q) /\ Settles(s, q)
      BY <2>1, <2>2, <2>3, BalancesTrans, BalancesLive
    <2>5. Settles(q, ProceedingUac(q, c, o))
      BY <2>4, ProceedingUacSettles
    <2> QED
      BY <1>2, <2>4, <2>5, SettlesTrans DEF OnResponse, p, CALLING, PROCEEDING, COMPLETED
  <1>3. CASE s.state = PROCEEDING
    <2> DEFINE q == [s EXCEPT !.status_code = c]
    <2>1. Live(s)
      BY <1>3, StateNumbers DEF Live
    <2>2. Live(q) /\ Settles(s, q)
      BY <1>1, <2>1, StatusBalances, BalancesLive
    <2>3. Settles(q, ProceedingUac(q, c, o))
      BY <2>2, ProceedingUacSettles
    <2> QED
      BY <1>3, <2>2, <2>3, SettlesTrans DEF OnResponse, CALLING, PROCEEDING, COMPLETED
  <1>4. CASE s.state = COMPLETED /\ s.method = "INVITE" /\ c >= 200
    <2>1. Free(s)
      BY <1>4, StateNumbers, LiveFacts DEF Live
    <2>2. Settles(s, Retransmit(s, FALSE, o))
      BY <1>1, <2>1, RetransmitSettles
    <2>3. s.state # CALLING /\ s.state # PROCEEDING
      BY <1>4 DEF CALLING, PROCEEDING, COMPLETED
    <2> QED
      BY <1>4, <2>2, <2>3, Zenon DEF OnResponse
  <1>5. CASE ~(s.state \in {CALLING, PROCEEDING}
                 \/ (s.state = COMPLETED /\ s.method = "INVITE" /\ c >= 200))
    BY <1>5, SettlesItself DEF OnResponse
  <1> QED
    BY <1>2, <1>3, <1>4, <1>5

LEMMA OnRequestSettles ==
    ASSUME NEW s, NEW o \in Outcomes, Tidy(s)
    PROVE  Settles(s, OnRequest(s, o))
  <1>1. s \in TsxType /\ s.last_tx \in Messages \cup {NoMsg} /\ FALSE \in BOOLEAN
    BY DEF Tidy, TsxType
  <1>2. CASE s.state \in {NULL, PROCEEDING, COMPLETED}
    <2>1. Live(s) /\ Free(s)
      BY <1>2, StateNumbers, LiveFacts DEF Live
    <2>2. Settles(s, SetState(s, TRYING))
      BY <2>1, LiveSetState, StateNumbers
    <2>3. Settles(s, SendMsg(s, s.last_tx, o)) /\ Settles(s, Retransmit(s, FALSE, o))
      BY <1>1, <2>1, SendMsgSettles, RetransmitSettles
    <2> QED
      BY <1>2, <2>2, <2>3 DEF OnRequest, NULL, PROCEEDING, COMPLETED
  <1>3. CASE s.state \notin {NULL, PROCEEDING, COMPLETED}
    BY <1>3, SettlesItself DEF OnRequest
  <1> QED
    BY <1>2, <1>3

LEMMA OnAckSettles ==
    ASSUME NEW s, Tidy(s)
    PROVE  Settles(s, OnAck(s))
  <1> DEFINE p == Cancel(s, "retransmit")
             q == Clear(p, "RESCHED")
             u == Restart(q, "timeout", TIMEOUT)
  <1>1. Balances(s, p)
    BY CancelBalances, TimerNames DEF Tidy
  <1>2. Balances(p, q)
    BY <1>1, FlagBalances DEF Balances
  <1>3. Balances(q, u)
    BY <1>2, RestartBalances, TimerNames, IdNames DEF Balances
  <1>4. Balances(s, u)
    BY <1>1, <1>2, <1>3, BalancesTrans
  <1>5. ASSUME s.state = COMPLETED
        PROVE  Settles(s, SetState(u, CONFIRMED))
    <2>1. Live(s)
      BY <1>5, StateNumbers DEF Live
    <2>2. Live(u) /\ Settles(s, u)
      BY <1>4, <2>1, BalancesLive
    <2>3. Settles(u, SetState(u, CONFIRMED))
      BY <2>2, LiveSetState, StateNumbers
    <2> QED
      BY <2>2, <2>3, SettlesTrans
  <1> QED
    BY <1>5, SettlesItself DEF OnAck

LEMMA ProvisionalUasSettles ==
    ASSUME NEW s, NEW c \in Provisional, Live(s)
    PROVE  Settles(s, ProvisionalUas(s, c))
  <1> DEFINE q == [s EXCEPT !.last_tx = c]
             p == SetState(q, PROCEEDING)
             u == Cancel(p, "retransmit")
  <1>1. s \in TsxType /\ c \in Messages \cup {NoMsg}
    BY LiveFacts, CodeKinds
  <1>2. Live(q) /\ Settles(s, q)
    BY <1>1, LastTxBalances, BalancesLive
  <1>3. Settles(q, p)
    BY <1>2, LiveSetState, StateNumbers
  <1> HIDE DEF p
  <1>4. Settles(s, p)
    BY <1>2, <1>3, SettlesTrans
  <1>5. Balances(p, u)
    BY <1>4, CancelBalances, TimerNames DEF Settles, Tidy
  <1>6. Balances(u, StartRetransmission(u))
    BY <1>5, StartBalances DEF Balances
  <1>7. Settles(p, StartRetransmission(u))
    BY <1>4, <1>5, <1>6, BalancesTrans, BalancesSettles DEF Settles
  <1>8. Settles(s, StartRetransmission(u))
    BY <1>4, <1>7, SettlesTrans
  <1> QED
    BY <1>4, <1>8 DEF ProvisionalUas, p

LEMMA CompleteUasSettles ==
    ASSUME NEW s, NEW c \in Final, NEW disc \in BOOLEAN, Live(s)
    PROVE  Settles(s, CompleteUas(s, c, disc))
  <1> DEFINE q == Cancel(s, "retransmit")
             g == s.method = "INVITE" /\ (c = 200 \/ ~s.is_reliable)
             r == IF g THEN StartRetransmission(q) ELSE q
             e == [r EXCEPT !.last_tx = c]
             u == Restart(e, "timeout", TIMEOUT)
             d == IF disc /\ u.transport THEN Post(u, DISC) ELSE u
  <1>1. s \in TsxType /\ c \in Messages \cup {NoMsg}
    BY LiveFacts, CodeKinds
  <1>2. Balances(s, q)
    BY <1>1, CancelBalances, TimerNames
  <1>3. Live(q) /\ Settles(s, q)
    BY <1>2, BalancesLive
  <1>4. Settles(q, SetState(q, TERMINATED))
    BY <1>3, LiveSetState, StateNumbers
  <1>5. Settles(s, SetState(q, TERMINATED))
    BY <1>3, <1>4, SettlesTrans
  <1>6. Balances(q, r)
    BY <1>2, StartBalances, BalancesItself DEF Balances
  <1> HIDE DEF r
  <1>7. Balances(r, e)
    BY <1>1, <1>6, LastTxBalances DEF Balances
  <1> HIDE DEF e
  <1>8. Balances(e, u)
    BY <1>7, RestartBalances, TimerNames, IdNames DEF Balances
  <1> HIDE DEF u
  <1>9. Balances(u, d)
    BY <1>8, PostBalances, IdNames, BalancesItself DEF Balances
  <1> HIDE DEF d
  <1>10. Balances(s, d)
    <2>1. Balances(s, e)
      BY <1>2, <1>6, <1>7, BalancesTrans
    <2> QED
      BY <2>1, <1>8, <1>9, BalancesTrans
  <1>11. Live(d) /\ Settles(s, d)
    BY <1>10, BalancesLive
  <1>12. Settles(d, SetState(d, COMPLETED))
    BY <1>11, LiveSetState, StateNumbers
  <1>13. Settles(s, SetState(d, COMPLETED))
    BY <1>11, <1>12, SettlesTrans
  <1> QED
    BY <1>5, <1>13 DEF CompleteUas, d, u, e, r

LEMMA OnSendResponseSettles ==
    ASSUME NEW s, NEW c \in Provisional \cup Final, NEW o \in Outcomes,
           NEW disc \in BOOLEAN, Live(s)
    PROVE  Settles(s, OnSendResponse(s, c, o, disc))
  <1> DEFINE tx == IF s.last_tx = c THEN s.last_tx ELSE NoMsg
             q == [s EXCEPT !.status_code = c]
             p == [q EXCEPT !.last_tx = tx]
             r == SendMsg(p, c, o)
  <1>1. /\ s \in TsxType /\ c \in Codes /\ c \in Messages \cup {NoMsg}
        /\ tx \in Messages \cup {NoMsg}
    BY LiveFacts, CodeKinds
  <1>2. [s EXCEPT !.status_code = c, !.last_tx = IF @ = c THEN @ ELSE NoMsg] = p
    BY <1>1 DEF TsxType
  <1> HIDE DEF tx
  <1>3. Balances(s, q)
    BY <1>1, StatusBalances
  <1>4. Balances(q, p)
    BY <1>1, <1>3, LastTxBalances DEF Balances
  <1>5. Live(p) /\ Settles(s, p)
    BY <1>3, <1>4, BalancesTrans, BalancesLive
  <1>6. OnSendResponse(s, c, o, disc) =
            IF SendFailed(r) THEN r
            ELSE IF c < 200 THEN ProvisionalUas(r, c) ELSE CompleteUas(r, c, disc)
    BY <1>2 DEF OnSendResponse
  <1> HIDE DEF p
  <1>7. Settles(p, r) /\ (~SendFailed(r) => Live(r))
    BY <1>1, <1>5, LiveSendMsg
  <1> HIDE DEF r
  <1>8. Settles(s, r)
    BY <1>5, <1>7, SettlesTrans
  <1>9. ASSUME ~SendFailed(r), c \in Provisional
        PROVE  Settles(s, ProvisionalUas(r, c))
    BY <1>7, <1>8, <1>9, ProvisionalUasSettles, SettlesTrans
  <1>10. ASSUME ~SendFailed(r), c \in Final
        PROVE  Settles(s, CompleteUas(r, c, disc))
    BY <1>7, <1>8, <1>10, CompleteUasSettles, SettlesTrans
  <1>11. (c < 200 /\ c \in Provisional) \/ (~(c < 200) /\ c \in Final)
    BY CodeKinds
  <1> QED
    BY <1>6, <1>8, <1>9, <1>10, <1>11

LEMMA OnSendRequestSettles ==
    ASSUME NEW s, NEW o \in Outcomes, Live(s)
    PROVE  Settles(s, OnSendRequest(s, o))
  <1> DEFINE r == SendMsg(s, Request, o)
             u == Restart(r, "timeout", TIMEOUT)
             v == IF u.is_reliable THEN u ELSE StartRetransmission(u)
  <1>1. Settles(s, r) /\ (~SendFailed(r) => Live(r))
    BY LiveSendMsg, CodeKinds
  <1>2. ASSUME ~SendFailed(r)
        PROVE  Settles(s, SetState(v, CALLING))
    <2> HIDE DEF r
    <2>1. Balances(r, u)
      BY <1>1, <1>2, RestartBalances, TimerNames, IdNames, LiveFacts
    <2>2. Balances(u, v)
      BY <2>1, StartBalances, BalancesItself DEF Balances
    <2>3. Live(v) /\ Settles(r, v)
      BY <1>1, <1>2, <2>1, <2>2, BalancesTrans, BalancesLive
    <2> HIDE DEF v
    <2>4. Settles(v, SetState(v, CALLING))
      BY <2>3, LiveSetState, StateNumbers
    <2> QED
      BY <1>1, <2>3, <2>4, SettlesTrans
  <1> QED
    BY <1>1, <1>2 DEF OnSendRequest

LEMMA OnRetransmitTimerSettles ==
    ASSUME NEW s, NEW o \in Outcomes, Tidy(s)
    PROVE  Settles(s, OnRetransmitTimer(s, o))
  <1> DEFINE q == Check(s, "proceeding_pending", ~Has(s, "TRANSPORT"))
  <1>1. TRUE \in BOOLEAN
    OBVIOUS
  <1>2. ASSUME s.state \in {CALLING, PROCEEDING, COMPLETED}
        PROVE  Settles(s, Retransmit(s, TRUE, o)) /\ Settles(s, Retransmit(q, TRUE, o))
    <2>1. Live(s) /\ Free(s)
      BY <1>2, StateNumbers, LiveFacts DEF Live
    <2>2. Balances(s, q)
      BY CheckBalances DEF Asserts, Tidy
    <2> HIDE DEF q
    <2>3. Live(q) /\ Settles(s, q)
      BY <2>1, <2>2, BalancesLive
    <2>4. Settles(q, Retransmit(q, TRUE, o))
      BY <1>1, <2>3, LiveFacts, RetransmitSettles
    <2>5. Settles(s, Retransmit(s, TRUE, o))
      BY <1>1, <2>1, RetransmitSettles
    <2> QED
      BY <2>3, <2>4, <2>5, SettlesTrans
  <1>3. Settles(s, SetState(s, DESTROYED)) /\ Settles(s, s)
    BY SetStateSettles, ForwardStates, SettlesItself
  <1> QED
    BY <1>2, <1>3 DEF OnRetransmitTimer

LEMMA TimeoutPrologueBalances ==
    ASSUME NEW s \in TsxType
    PROVE  Balances(s, TimeoutPrologue(s))
  <1>1. TimeoutCode \in Codes
    BY DEF Codes
  <1>2. Balances(s, [Clear(Cancel(s, "retransmit"), "RESCHED") EXCEPT !.status_code = TimeoutCode])
    <2> DEFINE p == Cancel(s, "retransmit")
               q == Clear(p, "RESCHED")
    <2>1. Balances(s, p)
      BY CancelBalances, TimerNames
    <2>2. Balances(p, q)
      BY <2>1, FlagBalances DEF Balances
    <2>3. Balances(q, [q EXCEPT !.status_code = TimeoutCode])
      BY <1>1, <2>2, StatusBalances DEF Balances
    <2> QED
      BY <2>1, <2>2, <2>3, BalancesTrans
  <1>3. Balances(s, [Check(s, "proceeding_timeout", s.role = "UAC")
                    EXCEPT !.status_code = TimeoutCode])
    <2> DEFINE q == Check(s, "proceeding_timeout", s.role = "UAC")
    <2>1. Balances(s, q)
      BY CheckBalances DEF Asserts
    <2>2. Balances(q, [q EXCEPT !.status_code = TimeoutCode])
      BY <1>1, <2>1, StatusBalances DEF Balances
    <2> QED
      BY <2>1, <2>2, BalancesTrans
  <1>4. Balances(s, [s EXCEPT !.status_code = TimeoutCode]) /\ Balances(s, s)
    BY <1>1, StatusBalances, BalancesItself
  <1> QED
    BY <1>2, <1>3, <1>4 DEF TimeoutPrologue

-----------------------------------------------------------------------------
(* The invariant.                                                          *)

Holders == {w \in Workers : pc[w].ref}

\* An idle worker holds no reference, one in a timer or transport callback
\* does.
Held(p) ==
    /\ p.at = "idle" => ~p.ref
    /\ p.at \in {"fired", "entered", "post"} => p.ref

\* What the count has beyond the record's own account is in the workers'
\* hands, and an end that the TU has not heard of is about to be told.
Accounted ==
    /\ Tidy(tsx)
    /\ Spare(tsx) = Cardinality(Holders)
    /\ \A w \in Workers : Held(pc[w])
    /\ Heard(tsx) \/ \E w \in Workers : IsAt(w, "notify")
    /\ \A w \in Workers : IsAt(w, "resume") => tsx.told >= TERMINATED

RInv == IInv /\ Accounted

\* A worker goes to p, and takes or gives up its reference.
Moves(w, p) ==
    /\ Goto(w, p) /\ p \in PcType /\ Held(p)
    /\ Tidy(tsx')
    /\ Spare(tsx') + Weight(pc[w].ref) = Spare(tsx) + Weight(p.ref)
    /\ tsx.told >= TERMINATED => tsx'.told >= TERMINATED
    /\ p.at = "resume" => tsx'.told >= TERMINATED
    /\ Heard(tsx') \/ p.at = "notify" \/ (~IsAt(w, "notify") /\ ~Heard(tsx))

LEMMA StayAccounts ==
    ASSUME Accounted, Settles(tsx, tsx'), pc' = pc
    PROVE  Accounted'
  BY DEF Accounted, Settles, Holders, IsAt

LEMMA HoldersMove ==
    ASSUME NEW w \in Workers, NEW p \in PcType, pc \in [Workers -> PcType],
           IsFiniteSet(Workers), Goto(w, p)
    PROVE  /\ Cardinality(Holders') + Weight(pc[w].ref)
                  = Cardinality(Holders) + Weight(p.ref)
           /\ Cardinality(Holders) \in Nat /\ Cardinality(Holders') \in Nat
  <1>1. pc[w].ref \in BOOLEAN /\ p.ref \in BOOLEAN
    BY DEF PcType
  <1>2. IsFiniteSet(Holders) /\ Cardinality(Holders) \in Nat
    BY FS_Subset, FS_CardinalityType DEF Holders
  <1>3. w \in Holders <=> pc[w].ref
    BY DEF Holders
  <1>4. Holders' = IF p.ref THEN Holders \cup {w} ELSE Holders \ {w}
    BY DEF Holders, Goto
  <1>5. CASE p.ref
    <2>1. Cardinality(Holders \cup {w})
              = IF w \in Holders THEN Cardinality(Holders) ELSE Cardinality(Holders) + 1
      BY <1>2, FS_AddElement
    <2> QED
      BY <1>1, <1>2, <1>3, <1>4, <1>5, <2>1 DEF Weight
  <1>6. CASE ~p.ref
    <2>1. Cardinality(Holders \ {w})
              = IF w \in Holders THEN Cardinality(Holders) - 1 ELSE Cardinality(Holders)
      BY <1>2, FS_RemoveElement
    <2>2. IsFiniteSet(Holders \ {w}) /\ Cardinality(Holders \ {w}) \in Nat
      BY <1>2, FS_RemoveElement, FS_CardinalityType
    <2> QED
      BY <1>1, <1>2, <1>3, <1>4, <1>6, <2>1, <2>2 DEF Weight
  <1> QED
    BY <1>1, <1>5, <1>6

LEMMA SpareInt ==
    ASSUME NEW s, Tidy(s)
    PROVE  Spare(s) \in Int
  BY DEF Tidy, TsxType, Spare, Owed, Weight

LEMMA MovesAccounts ==
    ASSUME NEW w \in Workers, NEW p, IsFiniteSet(Workers), RInv, Moves(w, p)
    PROVE  Accounted'
  <1>1. pc \in [Workers -> PcType] /\ p \in PcType /\ Goto(w, p)
    BY DEF RInv, IInv, Moves
  <1>2. Tidy(tsx) /\ Tidy(tsx') /\ Spare(tsx) = Cardinality(Holders)
    BY DEF RInv, Accounted, Moves
  <1>3. Spare(tsx') = Cardinality(Holders')
    <2>1. /\ Cardinality(Holders') + Weight(pc[w].ref) = Cardinality(Holders) + Weight(p.ref)
          /\ Cardinality(Holders) \in Nat /\ Cardinality(Holders') \in Nat
      BY <1>1, HoldersMove
    <2>2. Spare(tsx') + Weight(pc[w].ref) = Spare(tsx) + Weight(p.ref)
      BY DEF Moves
    <2>3. Spare(tsx') \in Int /\ Weight(pc[w].ref) \in Int
      BY <1>2, SpareInt DEF Weight
    <2> QED
      BY <1>2, <2>1, <2>2, <2>3
  <1>4. pc' = [pc EXCEPT ![w] = p]
    BY DEF Moves, Goto
  <1>5. \A v \in Workers : pc'[v] = IF v = w THEN p ELSE pc[v]
    BY <1>1, <1>4
  <1>6. \A v \in Workers : Held(pc'[v])
    BY <1>5 DEF RInv, Accounted, Moves
  <1>7. \A v \in Workers : pc'[v].at = "resume" => tsx'.told >= TERMINATED
    BY <1>5 DEF RInv, Accounted, Moves, IsAt
  <1>8. Heard(tsx') \/ \E v \in Workers : pc'[v].at = "notify"
    <2>1. CASE p.at = "notify"
      BY <1>5, <2>1
    <2>2. CASE ~IsAt(w, "notify") /\ ~Heard(tsx)
      <3>1. PICK v \in Workers : IsAt(v, "notify")
        BY <2>2 DEF RInv, Accounted
      <3> QED
        BY <1>5, <2>2, <3>1 DEF IsAt
    <2> QED
      BY <2>1, <2>2 DEF Moves
  <1> QED
    BY <1>2, <1>3, <1>6, <1>7, <1>8 DEF Accounted, IsAt

-----------------------------------------------------------------------------
(* The steps of the workers.                                               *)

LEMMA PcFacts ==
    ASSUME NEW w \in Workers, RInv
    PROVE  /\ pc[w] \in PcType /\ pc[w].ref \in BOOLEAN /\ Held(pc[w])
           /\ Tidy(tsx) /\ tsx \in TsxType /\ Spare(tsx) \in Int
           /\ tsx.state \in Int /\ tsx.told \in Int
  <1>1. Tidy(tsx) /\ tsx \in TsxType /\ tsx.state \in Int /\ tsx.told \in Int
    BY DEF RInv, Accounted, Tidy, TsxType, States, NULL, DESTROYED
  <1> QED
    BY <1>1, SpareInt DEF RInv, IInv, Accounted, PcType

LEMMA PcPlaces ==
    /\ Idle \in PcType /\ Held(Idle) /\ Idle.ref = FALSE /\ Idle.at = "idle"
    /\ \A t \in Timers : /\ Fired(t) \in PcType /\ Held(Fired(t))
                         /\ Fired(t).ref = TRUE /\ Fired(t).at = "fired"
    /\ \A t \in Timers, i \in TimerIds :
           /\ Entered(t, i) \in PcType /\ Held(Entered(t, i))
           /\ Entered(t, i).ref = TRUE /\ Entered(t, i).at = "entered"
    /\ \A st \in States, ref \in BOOLEAN, i \in TimerIds :
           /\ Notify(st, ref, i) \in PcType /\ Held(Notify(st, ref, i))
           /\ Notify(st, ref, i).ref = ref /\ Notify(st, ref, i).at = "notify"
    /\ LET p == [Idle EXCEPT !.at = "post", !.ref = TRUE]
       IN  p \in PcType /\ Held(p) /\ p.ref = TRUE /\ p.at = "post"
  <1>1. Idle \in PcType /\ Held(Idle) /\ Idle.ref = FALSE /\ Idle.at = "idle"
    BY StateNumbers, IdNames, TimerNames DEF PcType, Held, Idle
  <1>2. \A t \in Timers : /\ Fired(t) \in PcType /\ Held(Fired(t))
                         /\ Fired(t).ref = TRUE /\ Fired(t).at = "fired"
    BY <1>1 DEF PcType, Held, Fired
  <1>3. \A t \in Timers, i \in TimerIds :
           /\ Entered(t, i) \in PcType /\ Held(Entered(t, i))
           /\ Entered(t, i).ref = TRUE /\ Entered(t, i).at = "entered"
    <2> SUFFICES ASSUME NEW t \in Timers, NEW i \in TimerIds
                 PROVE  /\ Entered(t, i) \in PcType /\ Held(Entered(t, i))
                        /\ Entered(t, i).ref = TRUE /\ Entered(t, i).at = "entered"
      OBVIOUS
    <2> DEFINE p == Fired(t)
    <2>1. p \in PcType /\ p.ref = TRUE
      BY <1>2
    <2>2. Entered(t, i) = [p EXCEPT !.at = "entered", !.id = i]
      BY DEF Entered
    <2> HIDE DEF p
    <2> QED
      BY <2>1, <2>2 DEF PcType, Held
  <1>4. \A st \in States, ref \in BOOLEAN, i \in TimerIds :
           /\ Notify(st, ref, i) \in PcType /\ Held(Notify(st, ref, i))
           /\ Notify(st, ref, i).ref = ref /\ Notify(st, ref, i).at = "notify"
    BY <1>1 DEF PcType, Held, Notify
  <1>5. LET p == [Idle EXCEPT !.at = "post", !.ref = TRUE]
        IN  p \in PcType /\ Held(p) /\ p.ref = TRUE /\ p.at = "post"
    BY <1>1 DEF PcType, Held
  <1> QED
    BY <1>1, <1>2, <1>3, <1>4, <1>5

WithRefs(s, n) == [s EXCEPT !.refs = n]

LEMMA RefsDrop ==
    ASSUME NEW s, Tidy(s)
    PROVE  LET r == WithRefs(s, s.refs - 1)
           IN  /\ Tidy(r) /\ Spare(r) = Spare(s) - 1
               /\ r.state = s.state /\ r.told = s.told
  <1> DEFINE r == WithRefs(s, s.refs - 1)
  <1>1. s \in TsxType /\ s.refs \in Int /\ s.kept \in Int /\ s.refs - 1 \in Int
    BY DEF Tidy, TsxType
  <1>2. /\ r \in TsxType /\ r.state = s.state /\ r.told = s.told
        /\ r.heap = s.heap /\ r.refs = s.refs - 1
        /\ r.terminating = s.terminating /\ r.kept = s.kept /\ r.transport_flag = s.transport_flag
        /\ r.direct = s.direct /\ r.resolving = s.resolving
        /\ r.pending_tx = s.pending_tx
    BY <1>1 DEF TsxType, WithRefs
  <1> HIDE DEF r
  <1>3. Tidy(r)
    BY <1>2 DEF Tidy, Has
  <1>4. Spare(r) = Spare(s) - 1
    BY <1>1, <1>2 DEF Spare, Owed, Weight
  <1> QED
    BY <1>2, <1>3, <1>4 DEF r

LEMMA LeaveMoves ==
    ASSUME NEW w \in Workers, NEW s, RInv, ~IsAt(w, "notify"), Settles(tsx, s), Leave(w, s)
    PROVE  Moves(w, Idle)
  <1>1. Tidy(s) /\ Spare(s) = Spare(tsx) /\ Spare(tsx) \in Int /\ pc[w].ref \in BOOLEAN
    BY PcFacts DEF Settles
  <1>2. tsx' = IF pc[w].ref THEN WithRefs(s, s.refs - 1) ELSE s
    BY DEF Leave, WithRefs
  <1>3. /\ Tidy(tsx') /\ Spare(tsx') = Spare(s) - Weight(pc[w].ref)
        /\ tsx'.state = s.state /\ tsx'.told = s.told
    <2>1. CASE pc[w].ref
      BY <1>1, <1>2, <2>1, RefsDrop DEF Weight
    <2>2. CASE ~pc[w].ref
      BY <1>1, <1>2, <2>2 DEF Weight
    <2> QED
      BY <1>1, <2>1, <2>2
  <1>4. Goto(w, Idle) /\ Idle \in PcType /\ Held(Idle) /\ Weight(Idle.ref) = 0
            /\ Idle.at = "idle"
    BY PcPlaces DEF Leave, Weight
  <1>5. Weight(pc[w].ref) \in Int
    BY DEF Weight
  <1>6. Spare(tsx') + Weight(pc[w].ref) = Spare(tsx) + Weight(Idle.ref)
    BY <1>1, <1>3, <1>4, <1>5
  <1> QED
    BY <1>3, <1>4, <1>6 DEF Moves, Settles, Heard

\* A worker that has the reference goes on to tell of an end.
LEMMA NotifyMoves ==
    ASSUME NEW w \in Workers, NEW st \in States, NEW i \in TimerIds, NEW ref \in BOOLEAN,
           NEW e, RInv, Turns(tsx, tsx', e), pc[w].ref = ref, Goto(w, Notify(st, ref, i))
    PROVE  Moves(w, Notify(st, ref, i))
  <1> DEFINE p == Notify(st, ref, i)
  <1>1. p \in PcType /\ Held(p) /\ p.ref = ref /\ p.at = "notify"
    BY PcPlaces
  <1> HIDE DEF p
  <1>2. Tidy(tsx') /\ Spare(tsx') = Spare(tsx) /\ (tsx.told >= TERMINATED => tsx'.told >= TERMINATED)
    BY DEF Turns
  <1>3. Moves(w, p)
    BY <1>1, <1>2 DEF Moves, p
  <1> QED
    BY <1>3 DEF p

LEMMA TimerFiresMoves ==
    ASSUME NEW w \in Workers, NEW t \in Timers, RInv, TimerFires(w, t)
    PROVE  Moves(w, Fired(t))
  <1> DEFINE h == [tsx.heap EXCEPT ![t] = FALSE]
  <1>1. tsx \in TsxType /\ Tidy(tsx) /\ Spare(tsx) \in Int /\ pc[w].ref = FALSE
            /\ ~IsAt(w, "notify") /\ tsx.heap[t] /\ Goto(w, Fired(t))
    BY PcFacts DEF TimerFires, IsAt, Held
  <1>2. h \in [Timers -> BOOLEAN]
          /\ Weight(h["timeout"]) + Weight(h["retransmit"])
                 = Weight(tsx.heap["timeout"]) + Weight(tsx.heap["retransmit"]) - 1
    BY <1>1 DEF TsxType, Timers, Weight
  <1>3. tsx' = [tsx EXCEPT !.heap = h]
    BY <1>1 DEF TimerFires, TsxType
  <1> HIDE DEF h
  <1>4. /\ tsx' \in TsxType /\ tsx'.state = tsx.state /\ tsx'.told = tsx.told
        /\ tsx'.heap = h /\ tsx'.refs = tsx.refs
        /\ tsx'.terminating = tsx.terminating /\ tsx'.kept = tsx.kept
        /\ tsx'.transport_flag = tsx.transport_flag
        /\ tsx'.direct = tsx.direct /\ tsx'.resolving = tsx.resolving
        /\ tsx'.pending_tx = tsx.pending_tx
    BY <1>1, <1>2, <1>3 DEF TsxType
  <1>5. Tidy(tsx')
    BY <1>1, <1>4 DEF Tidy, Has
  <1>6. Spare(tsx') = Spare(tsx) + 1
    <2>1. tsx.refs \in Int /\ tsx.kept \in Int
      BY <1>1 DEF TsxType
    <2> QED
      BY <1>2, <1>4, <2>1 DEF Spare, Owed, Weight
  <1>7. Fired(t) \in PcType /\ Held(Fired(t)) /\ Fired(t).ref = TRUE /\ Fired(t).at = "fired"
    BY PcPlaces
  <1>8. Spare(tsx') + Weight(pc[w].ref) = Spare(tsx) + Weight(Fired(t).ref)
    BY <1>1, <1>6, <1>7 DEF Weight
  <1>9. Heard(tsx') <=> Heard(tsx)
    BY <1>4 DEF Heard
  <1> QED
    BY <1>1, <1>4, <1>5, <1>7, <1>8, <1>9 DEF Moves

LEMMA EnterCallbackAccounts ==
    ASSUME NEW w \in Workers, IsFiniteSet(Workers), RInv, EnterCallback(w)
    PROVE  Accounted'
  <1> DEFINE t == pc[w].timer
             s == [tsx EXCEPT !.id[t] = INACTIVE]
  <1>1. /\ tsx \in TsxType /\ Tidy(tsx) /\ t \in Timers /\ pc[w].ref = TRUE
        /\ ~IsAt(w, "notify") /\ Spare(tsx) \in Int
    BY PcFacts DEF EnterCallback, IsAt, Held, PcType
  <1>2. tsx.id[t] \in TimerIds
    BY <1>1 DEF TsxType
  <1>3. Balances(tsx, s)
    <2>1. [tsx.id EXCEPT ![t] = INACTIVE] \in [Timers -> TimerIds]
      BY <1>1, IdNames DEF TsxType
    <2> QED
      BY <1>1, <2>1 DEF Balances, Spare, Owed, Has, TsxType
  <1>4. Settles(tsx, tsx) /\ Settles(tsx, s)
    BY <1>1, <1>3, SettlesItself, BalancesSettles
  <1> HIDE DEF s
  <1>5. CASE Leave(w, tsx) \/ Leave(w, s)
    BY <1>1, <1>4, <1>5, LeaveMoves, MovesAccounts
  <1>6. ASSUME NEW i \in TimerIds, tsx' = s, Goto(w, Entered(t, i))
        PROVE  Accounted'
    <2> DEFINE p == Entered(t, i)
    <2>1. p \in PcType /\ Held(p) /\ p.ref = TRUE /\ p.at = "entered"
      BY <1>1, PcPlaces
    <2> HIDE DEF p
    <2>2. Moves(w, p)
      BY <1>1, <1>4, <1>6, <2>1 DEF Moves, Settles, p
    <2> QED
      BY <2>2, MovesAccounts
  <1> QED
    BY <1>2, <1>5, <1>6, IdNames DEF EnterCallback, s

LEMMA RetransmitEventAccounts ==
    ASSUME NEW w \in Workers, NEW o \in Outcomes, IsFiniteSet(Workers), RInv,
           RetransmitEvent(w, o)
    PROVE  Accounted'
  <1>1. Settles(tsx, OnRetransmitTimer(tsx, o))
    BY OnRetransmitTimerSettles, PcFacts
  <1> QED
    BY <1>1, LeaveMoves, MovesAccounts DEF RetransmitEvent, IsAt

LEMMA TimeoutEventAccounts ==
    ASSUME NEW w \in Workers, IsFiniteSet(Workers), RInv, TimeoutEvent(w)
    PROVE  Accounted'
  <1> DEFINE st == TimeoutTarget(tsx)
             p == TimeoutPrologue(tsx)
  <1>1. tsx \in TsxType /\ Tidy(tsx) /\ pc[w].ref = TRUE /\ ~IsAt(w, "notify")
    BY PcFacts DEF TimeoutEvent, IsAt, Held
  <1>2. CASE st = tsx.state
    BY <1>1, <1>2, SettlesItself, LeaveMoves, MovesAccounts DEF TimeoutEvent
  <1>3. CASE st # tsx.state
    <2>1. st \in {TERMINATED, DESTROYED} /\ st \in States
      BY <1>3, StateNumbers DEF TimeoutTarget
    <2>2. tsx' = Enter(p, st) /\ Goto(w, Notify(st, TRUE, TIMEOUT))
      BY <1>3 DEF TimeoutEvent
    <2>3. Balances(tsx, p)
      BY <1>1, TimeoutPrologueBalances
    <2>4. Settles(tsx, p) /\ Tidy(p)
      BY <1>1, <2>3, BalancesSettles DEF Settles
    <2> HIDE DEF p, st
    <2>5. Turns(p, Enter(p, st), st)
      BY <2>1, <2>4, EnterTurns, ForwardStates
    <2>6. Turns(tsx, tsx', st)
      BY <2>2, <2>4, <2>5 DEF Turns, Settles
    <2>7. TRUE \in BOOLEAN
      OBVIOUS
    <2> QED
      BY <1>1, <2>1, <2>2, <2>6, <2>7, NotifyMoves, MovesAccounts, IdNames
  <1> QED
    BY <1>2, <1>3

LEMMA PostedEventAccounts ==
    ASSUME NEW w \in Workers, IsFiniteSet(Workers), RInv, PostedEvent(w)
    PROVE  Accounted'
  <1> DEFINE i == pc[w].id
             s == [tsx EXCEPT !.transport = FALSE]
             k == [s EXCEPT !.transport_flag = {}]
             code == IF s.status_code < 200 THEN TransportErrorCode ELSE s.status_code
             c == [s EXCEPT !.status_code = code]
             e == Enter(c, TERMINATED)
             d == Detach(e)
             r == Cancel(d, "timeout")
  <1>1. /\ tsx \in TsxType /\ Tidy(tsx) /\ pc[w].ref = TRUE /\ ~IsAt(w, "notify")
        /\ i \in TimerIds
    BY PcFacts DEF PostedEvent, IsAt, Held, PcType
  <1>2. Balances(tsx, s)
    BY <1>1, TransportBalances
  <1>3. Settles(tsx, s) /\ Tidy(s) /\ s \in TsxType
    BY <1>1, <1>2, BalancesSettles DEF Settles, Balances
  <1>4. \/ KeepsUasAlive(s, i) /\ Leave(w, k)
        \/ tsx' = r /\ Goto(w, Notify(TERMINATED, TRUE, i))
    BY DEF PostedEvent
  <1> HIDE DEF s
  <1>5. CASE KeepsUasAlive(s, i) /\ Leave(w, k)
    <2>1. ~Has(s, "TRANSPORT") /\ ~Has(s, "DESTROY")
      BY <1>5 DEF KeepsUasAlive
    <2>2. /\ k \in TsxType /\ k.state = s.state /\ k.told = s.told
          /\ k.heap = s.heap /\ k.refs = s.refs
          /\ k.terminating = s.terminating /\ k.kept = s.kept /\ k.transport_flag = {}
          /\ k.direct = s.direct /\ k.resolving = s.resolving
          /\ k.pending_tx = s.pending_tx
      BY <1>3 DEF TsxType
    <2> HIDE DEF k
    <2>3. Balances(s, k)
      BY <2>1, <2>2 DEF Balances, Spare, Owed, Has
    <2>4. Settles(tsx, k)
      BY <1>3, <2>3, BalancesSettles, SettlesTrans
    <2> QED
      BY <1>1, <1>5, <2>4, LeaveMoves, MovesAccounts
  <1>6. CASE tsx' = r /\ Goto(w, Notify(TERMINATED, TRUE, i))
    <2>1. code \in Codes
      BY <1>3 DEF TsxType, Codes
    <2> HIDE DEF code
    <2>2. Balances(s, c)
      BY <1>3, <2>1, StatusBalances
    <2>3. Settles(tsx, c) /\ Tidy(c)
      BY <1>3, <2>2, BalancesSettles, SettlesTrans DEF Settles
    <2> HIDE DEF c
    <2>4. Turns(c, e, TERMINATED)
      BY <2>3, EnterTurns, ForwardStates
    <2> HIDE DEF e
    <2>5. Turns(e, d, TERMINATED)
      BY <2>4, DetachTurns, StateNumbers DEF Turns
    <2> HIDE DEF d
    <2>6. Balances(d, r)
      BY <2>5, CancelBalances, TimerNames DEF Turns, Tidy
    <2>7. Settles(d, r)
      BY <2>5, <2>6, BalancesSettles DEF Turns
    <2> HIDE DEF r
    <2>8. Turns(tsx, tsx', r.state)
      BY <1>6, <2>3, <2>4, <2>5, <2>7 DEF Turns, Settles
    <2>9. TRUE \in BOOLEAN
      OBVIOUS
    <2> HIDE DEF i
    <2> QED
      BY <1>1, <1>6, <2>8, <2>9, NotifyMoves, MovesAccounts, StateNumbers
  <1> QED
    BY <1>4, <1>5, <1>6

LEMMA TellUnlockedAccounts ==
    ASSUME NEW w \in Workers, IsFiniteSet(Workers), RInv, TellUnlocked(w)
    PROVE  Accounted'
  <1> DEFINE p == [pc[w] EXCEPT !.at = "resume"]
  <1>1. /\ tsx \in TsxType /\ Tidy(tsx) /\ pc[w] \in PcType /\ pc[w].ref \in BOOLEAN
        /\ pc[w].state \in States /\ pc[w].state >= TERMINATED /\ tsx.state >= TERMINATED
    BY PcFacts, StateNumbers DEF TellUnlocked, IsAt, RInv, IInv, Ending, PcType
  <1>2. Turns(tsx, tsx', tsx.state) /\ tsx'.told >= TERMINATED
    BY <1>1, TellTurns DEF TellUnlocked
  <1>3. p \in PcType /\ p.ref = pc[w].ref /\ p.at = "resume" /\ Held(p) /\ Goto(w, p)
    BY <1>1 DEF PcType, Held, TellUnlocked
  <1> HIDE DEF p
  <1>4. Moves(w, p)
    BY <1>2, <1>3 DEF Moves, Turns, Heard
  <1> QED
    BY <1>4, MovesAccounts

LEMMA ResumeAccounts ==
    ASSUME NEW w \in Workers, IsFiniteSet(Workers), RInv, Resume(w)
    PROVE  Accounted'
  <1>1. /\ tsx \in TsxType /\ Tidy(tsx) /\ pc[w] \in PcType /\ ~IsAt(w, "notify")
        /\ pc[w].state \in {TERMINATED, DESTROYED} /\ pc[w].state \in States
        /\ tsx.state >= TERMINATED /\ tsx.told >= TERMINATED
    BY PcFacts, StateNumbers DEF Resume, IsAt, RInv, IInv, Ending, Accounted
  <1>2. Settles(tsx, Schedule(tsx, "timeout", TIMEOUT))
    BY <1>1, ScheduleBalances, TimerNames, IdNames, BalancesSettles
  <1>3. Turns(tsx, Finish(tsx, pc[w].state), tsx.state)
    BY <1>1, FinishTurns
  <1>4. Settles(tsx, Finish(tsx, pc[w].state))
    BY <1>1, <1>3 DEF Turns, Settles, Heard
  <1> QED
    BY <1>1, <1>2, <1>4, LeaveMoves, MovesAccounts DEF Resume

LEMMA PostErrorAccounts ==
    ASSUME NEW w \in Workers, IsFiniteSet(Workers), RInv, PostError(w)
    PROVE  Accounted'
  <1>1. Settles(tsx, Post(tsx, ERR))
    BY PcFacts, PostBalances, IdNames, BalancesSettles
  <1> QED
    BY <1>1, LeaveMoves, MovesAccounts DEF PostError, IsAt

-----------------------------------------------------------------------------
(* The steps of the transport, the peer and the TU.                        *)

\* The transport is done with m: no send is outstanding any more, and the
\* callback has the reference.
WithoutDirect(s, m) == [Clear(s, "TRANSPORT") EXCEPT !.direct = @ \ {m}]

LEMMA DirectDone ==
    ASSUME NEW s, NEW m \in s.direct, Tidy(s)
    PROVE  LET r == WithoutDirect(s, m)
           IN  /\ Clean(r) /\ Spare(r) = Spare(s) + 1
               /\ r.state = s.state /\ r.told = s.told
  <1> DEFINE r == WithoutDirect(s, m)
  <1>1. s \in TsxType /\ s.direct = {m} /\ s.resolving = {} /\ s.refs \in Int /\ s.kept \in Int
    BY DEF Tidy, TsxType
  <1>2. /\ r \in TsxType /\ r.state = s.state /\ r.told = s.told
        /\ r.heap = s.heap /\ r.refs = s.refs
        /\ r.terminating = s.terminating /\ r.kept = s.kept
        /\ r.transport_flag = s.transport_flag \ {"TRANSPORT"}
        /\ r.direct = s.direct \ {m} /\ r.resolving = s.resolving
        /\ r.pending_tx = s.pending_tx
    BY <1>1 DEF TsxType, WithoutDirect, Clear
  <1> HIDE DEF r
  <1>3. r.direct = {}
    BY <1>1, <1>2
  <1>4. Weight(s.direct # {}) = 1 /\ Weight(r.direct # {}) = 0
    BY <1>1, <1>3 DEF Weight
  <1>5. Spare(r) = Spare(s) + 1
    BY <1>1, <1>2, <1>4 DEF Spare, Owed, Weight
  <1>6. Clean(r)
    BY <1>1, <1>2, <1>3 DEF Clean, Tidy, Has
  <1> QED
    BY <1>2, <1>5, <1>6 DEF r

\* The way out of transport_callback that keeps the reference of the send.
WithKept(s, n) == [s EXCEPT !.kept = n]

LEMMA KeptGrows ==
    ASSUME NEW s, Tidy(s)
    PROVE  LET r == WithKept(s, s.kept + 1)
           IN  /\ Tidy(r) /\ Spare(r) = Spare(s) - 1
               /\ r.state = s.state /\ r.told = s.told
  <1> DEFINE r == WithKept(s, s.kept + 1)
  <1>1. s \in TsxType /\ s.refs \in Int /\ s.kept \in Int /\ s.kept + 1 \in Nat
    BY DEF Tidy, TsxType
  <1>2. /\ r \in TsxType /\ r.state = s.state /\ r.told = s.told
        /\ r.heap = s.heap /\ r.refs = s.refs /\ r.kept = s.kept + 1
        /\ r.terminating = s.terminating /\ r.transport_flag = s.transport_flag
        /\ r.direct = s.direct /\ r.resolving = s.resolving
        /\ r.pending_tx = s.pending_tx
    BY <1>1 DEF TsxType, WithKept
  <1> HIDE DEF r
  <1>3. Tidy(r)
    BY <1>2 DEF Tidy, Has
  <1>4. Spare(r) = Spare(s) - 1
    BY <1>1, <1>2 DEF Spare, Owed, Weight
  <1> QED
    BY <1>2, <1>3, <1>4 DEF r

LEMMA SendDoneAccounts ==
    ASSUME NEW w \in Workers, NEW m \in Messages, NEW o \in Outcomes, RInv,
           SendDone(w, m, o)
    PROVE  Accounted'
  <1> DEFINE q == WithoutDirect(tsx, m)
             s == AfterSent(q, o)
             r == IF Has(tsx, "DESTROY") THEN WithKept(s, s.kept + 1)
                  ELSE WithRefs(s, s.refs - 1)
  <1>1. Tidy(tsx) /\ Spare(tsx) \in Int /\ m \in tsx.direct
    BY PcFacts DEF SendDone
  <1>2. Clean(q) /\ Spare(q) = Spare(tsx) + 1 /\ q.state = tsx.state /\ q.told = tsx.told
    BY <1>1, DirectDone
  <1>3. tsx' = r /\ pc' = pc
    BY DEF SendDone, WithoutDirect, WithRefs, WithKept
  <1> HIDE DEF q
  <1>4. Settles(q, s)
    BY <1>2, AfterSentSettles
  <1> HIDE DEF s
  <1>5. Tidy(r) /\ Spare(r) = Spare(s) - 1 /\ r.state = s.state /\ r.told = s.told
    <2>1. CASE Has(tsx, "DESTROY")
      BY <1>4, <2>1, KeptGrows DEF Settles
    <2>2. CASE ~Has(tsx, "DESTROY")
      BY <1>4, <2>2, RefsDrop DEF Settles
    <2> QED
      BY <2>1, <2>2
  <1> HIDE DEF r
  <1>6. Spare(r) = Spare(tsx)
    BY <1>1, <1>2, <1>4, <1>5 DEF Settles
  <1>7. Settles(tsx, r)
    BY <1>2, <1>4, <1>5, <1>6 DEF Settles, Heard
  <1> QED
    BY <1>3, <1>7, StayAccounts DEF RInv

LEMMA SendErrorAccounts ==
    ASSUME NEW w \in Workers, NEW m \in Messages, IsFiniteSet(Workers), RInv,
           SendError(w, m)
    PROVE  Accounted'
  <1> DEFINE q == WithoutDirect(tsx, m)
             p == [Idle EXCEPT !.at = "post", !.ref = TRUE]
  <1>1. /\ Tidy(tsx) /\ Spare(tsx) \in Int /\ m \in tsx.direct
        /\ pc[w].ref = FALSE /\ ~IsAt(w, "notify")
    BY PcFacts DEF SendError, IsAt, Held
  <1>2. Clean(q) /\ Spare(q) = Spare(tsx) + 1 /\ q.state = tsx.state /\ q.told = tsx.told
    BY <1>1, DirectDone
  <1>3. tsx' = q /\ Goto(w, p)
    BY DEF SendError, WithoutDirect
  <1>4. p \in PcType /\ Held(p) /\ p.ref = TRUE /\ p.at = "post"
    BY PcPlaces
  <1> HIDE DEF p, q
  <1>5. Spare(tsx') + Weight(pc[w].ref) = Spare(tsx) + Weight(p.ref)
    BY <1>1, <1>2, <1>3, <1>4 DEF Weight
  <1>6. Moves(w, p)
    BY <1>1, <1>2, <1>3, <1>4, <1>5 DEF Moves, Clean, Heard
  <1> QED
    BY <1>6, MovesAccounts

\* The resolver is done with m, which is the one it had.
LEMMA CallbackForFields ==
    ASSUME NEW m \in tsx.resolving, Tidy(tsx)
    PROVE  LET p == CallbackFor(m)
           IN  /\ p \in TsxType /\ p.state = tsx.state /\ p.told = tsx.told
               /\ p.heap = tsx.heap /\ p.refs = tsx.refs - 1
               /\ p.terminating = tsx.terminating /\ p.kept = tsx.kept
               /\ p.transport_flag = tsx.transport_flag
               /\ p.direct = {} /\ p.resolving = {} /\ tsx.refs \in Int /\ tsx.kept \in Int
  <1>1. tsx \in TsxType /\ tsx.direct = {} /\ tsx.resolving \ {m} = {} /\ tsx.refs \in Int /\ tsx.kept \in Int
            /\ tsx.refs - 1 \in Int
    BY DEF Tidy, TsxType
  <1> QED
    BY <1>1 DEF CallbackFor, TsxType

LEMMA CallbackClean ==
    ASSUME NEW m \in tsx.resolving, NEW r \in TsxType, Tidy(tsx),
           r.state = tsx.state, r.told = tsx.told, r.heap = tsx.heap,
           r.refs = tsx.refs - 1, r.terminating = tsx.terminating, r.kept = tsx.kept,
           r.transport_flag = (tsx.transport_flag \ {"TRANSPORT"}) \cup {"RESOLVED"},
           r.direct = {}, r.resolving = {}, r.pending_tx = NoMsg
    PROVE  Clean(r) /\ Settles(tsx, r)
  <1>1. tsx.direct = {} /\ tsx.resolving # {} /\ tsx.refs \in Int /\ tsx.kept \in Int
    BY DEF Tidy, TsxType
  <1>2. /\ Weight(tsx.resolving # {}) = 1 /\ Weight(r.resolving # {}) = 0
        /\ Weight(tsx.direct # {}) = 0 /\ Weight(r.direct # {}) = 0
    BY <1>1 DEF Weight
  <1>3. Spare(r) = Spare(tsx)
    BY <1>1, <1>2 DEF Spare, Owed, Weight
  <1>4. Tidy(r)
    BY DEF Tidy, Has
  <1> QED
    BY <1>3, <1>4 DEF Clean, Settles, Heard, Has

LEMMA ResolvedCallback ==
    ASSUME NEW m \in tsx.resolving, NEW o \in Outcomes, Tidy(tsx)
    PROVE  /\ Clean(Resolved(CallbackFor(m), o))
           /\ Settles(tsx, Resolved(CallbackFor(m), o))
  <1> DEFINE p == CallbackFor(m)
             r == Resolved(p, o)
  <1>1. /\ p \in TsxType /\ p.state = tsx.state /\ p.told = tsx.told
        /\ p.heap = tsx.heap /\ p.refs = tsx.refs - 1
        /\ p.terminating = tsx.terminating /\ p.kept = tsx.kept
        /\ p.transport_flag = tsx.transport_flag
        /\ p.direct = {} /\ p.resolving = {}
    BY CallbackForFields
  <1> HIDE DEF p
  <1>2. /\ r \in TsxType /\ r.state = p.state /\ r.told = p.told
        /\ r.heap = p.heap /\ r.refs = p.refs /\ r.terminating = p.terminating /\ r.kept = p.kept
        /\ r.transport_flag = (p.transport_flag \ {"TRANSPORT"}) \cup {"RESOLVED"}
        /\ r.direct = p.direct /\ r.resolving = p.resolving /\ r.pending_tx = NoMsg
    BY <1>1, OutcomeTypes DEF TsxType, Resolved, Flags
  <1> HIDE DEF r
  <1>3. Clean(r) /\ Settles(tsx, r)
    BY <1>1, <1>2, CallbackClean
  <1> QED
    BY <1>3 DEF r, p

LEMMA ResolveFailedCallback ==
    ASSUME NEW m \in tsx.resolving, Tidy(tsx)
    PROVE  /\ Clean(ResolveFailed(CallbackFor(m)))
           /\ Settles(tsx, ResolveFailed(CallbackFor(m)))
  <1> DEFINE p == CallbackFor(m)
             r == ResolveFailed(p)
  <1>1. /\ p \in TsxType /\ p.state = tsx.state /\ p.told = tsx.told
        /\ p.heap = tsx.heap /\ p.refs = tsx.refs - 1
        /\ p.terminating = tsx.terminating /\ p.kept = tsx.kept
        /\ p.transport_flag = tsx.transport_flag
        /\ p.direct = {} /\ p.resolving = {}
    BY CallbackForFields
  <1> HIDE DEF p
  <1>2. /\ r \in TsxType /\ r.state = p.state /\ r.told = p.told
        /\ r.heap = p.heap /\ r.refs = p.refs /\ r.terminating = p.terminating /\ r.kept = p.kept
        /\ r.transport_flag = (p.transport_flag \ {"TRANSPORT"}) \cup {"RESOLVED"}
        /\ r.direct = p.direct /\ r.resolving = p.resolving /\ r.pending_tx = NoMsg
    BY <1>1 DEF TsxType, ResolveFailed, Flags, Codes
  <1> HIDE DEF r
  <1>3. Clean(r) /\ Settles(tsx, r)
    BY <1>1, <1>2, CallbackClean
  <1> QED
    BY <1>3 DEF r, p

LEMMA ResolveDoneAccounts ==
    ASSUME NEW w \in Workers, NEW m \in Messages, NEW o \in Outcomes, RInv,
           ResolveDone(w, m, o)
    PROVE  Accounted'
  <1> DEFINE q == Resolved(CallbackFor(m), o)
  <1>1. Clean(q) /\ Settles(tsx, q)
    BY PcFacts, ResolvedCallback DEF ResolveDone
  <1>2. tsx' = AfterSent(q, o) /\ pc' = pc
    BY DEF ResolveDone
  <1> HIDE DEF q
  <1>3. Settles(q, AfterSent(q, o))
    BY <1>1, AfterSentSettles
  <1>4. Settles(tsx, tsx')
    BY <1>1, <1>2, <1>3, SettlesTrans
  <1> QED
    BY <1>2, <1>4, StayAccounts DEF RInv

LEMMA ResolveErrorAccounts ==
    ASSUME NEW w \in Workers, NEW m \in Messages, IsFiniteSet(Workers), RInv,
           ResolveError(w, m)
    PROVE  Accounted'
  <1> DEFINE s == ResolveFailed(CallbackFor(m))
  <1>1. Clean(s) /\ Settles(tsx, s) /\ pc[w].ref = FALSE
    BY PcFacts, ResolveFailedCallback DEF ResolveError, IsAt, Held
  <1>2. \/ tsx' = Enter(s, TERMINATED) /\ Goto(w, Notify(TERMINATED, FALSE, TIMEOUT))
        \/ tsx' = InlineFailed(s) /\ pc' = pc
    BY DEF ResolveError
  <1> HIDE DEF s
  <1>3. CASE tsx' = Enter(s, TERMINATED) /\ Goto(w, Notify(TERMINATED, FALSE, TIMEOUT))
    <2>1. Turns(s, Enter(s, TERMINATED), TERMINATED)
      BY <1>1, CleanSends, EnterTurns, ForwardStates
    <2>2. Turns(tsx, tsx', TERMINATED)
      BY <1>1, <1>3, <2>1 DEF Turns, Settles
    <2>3. FALSE \in BOOLEAN
      OBVIOUS
    <2> QED
      BY <1>1, <1>3, <2>2, <2>3, NotifyMoves, MovesAccounts, StateNumbers, IdNames
  <1>4. CASE tsx' = InlineFailed(s) /\ pc' = pc
    <2>1. Settles(s, InlineFailed(s))
      BY <1>1, CleanSends, InlineFailedSettles
    <2>2. Settles(tsx, tsx')
      BY <1>1, <1>4, <2>1, SettlesTrans
    <2> QED
      BY <1>4, <2>2, StayAccounts DEF RInv
  <1> QED
    BY <1>2, <1>3, <1>4

LEMMA TryNextServerAccounts ==
    ASSUME NEW w \in Workers, NEW m \in Messages, RInv, TryNextServer(w, m)
    PROVE  Accounted'
  <1> DEFINE s == [tsx EXCEPT !.pending_tx = m]
  <1>1. tsx \in TsxType /\ Tidy(tsx) /\ m = tsx.pending_tx
    BY PcFacts DEF TryNextServer, Tidy
  <1>2. s = tsx
    BY <1>1 DEF TsxType
  <1> HIDE DEF s
  <1>3. Settles(tsx, tsx) /\ Settles(tsx, Restart(tsx, "timeout", TIMEOUT))
    BY <1>1, SettlesItself, RestartBalances, TimerNames, IdNames, BalancesSettles
  <1>4. Settles(tsx, tsx') /\ pc' = pc
    BY <1>2, <1>3 DEF TryNextServer, s
  <1> QED
    BY <1>4, StayAccounts DEF RInv

\* Either one worker polls, or transports never leave a send pending.
SendsApart == (\A v, w \in Workers : v = w) \/ "pending" \notin DirectOutcomes

\* pjsip_tsx_retransmit_no_state finds no send that was detached: with one
\* worker there is none before the TU has heard of the end.
LEMMA RetransmitNoStateAccounts ==
    ASSUME NEW w \in Workers, NEW o \in Outcomes, SendsApart, RInv,
           RetransmitNoState(w, o)
    PROVE  Accounted'
  <1>1. Tidy(tsx) /\ tsx.state \in Int /\ tsx.told \in Int
    BY PcFacts
  <1>2. IsAt(w, "idle") /\ tsx.told < TERMINATED /\ tsx' = SendMsg(tsx, 180, o) /\ pc' = pc
    BY DEF RetransmitNoState, TuCall, TuMayCall
  <1>3. ASSUME "pending" \notin DirectOutcomes PROVE Free(tsx)
    BY <1>1, <1>3 DEF Tidy, Free
  <1>4. ASSUME \A v \in Workers : v = w PROVE Free(tsx)
    <2>1. Heard(tsx)
      BY <1>2, <1>4 DEF RInv, Accounted, IsAt
    <2>2. tsx.state < TERMINATED
      BY <1>1, <1>2, <2>1 DEF Heard, TERMINATED
    <2> QED
      BY <1>1, <2>2, LiveFacts DEF Live, Free
  <1>5. Free(tsx)
    BY <1>3, <1>4 DEF SendsApart
  <1>6. 180 \in Messages \cup {NoMsg}
    BY DEF Messages, Provisional
  <1>7. Settles(tsx, SendMsg(tsx, 180, o))
    BY <1>1, <1>5, <1>6, SendMsgSettles
  <1> QED
    BY <1>2, <1>7, StayAccounts DEF RInv

LEMMA PeerStepAccounts ==
    ASSUME NEW w \in Workers, RInv, PeerStep(w)
    PROVE  Accounted'
  <1>1. Tidy(tsx)
    BY PcFacts
  <1>2. ASSUME NEW o \in Outcomes, NEW c \in Responses(tsx.method), RecvResponse(w, c, o)
        PROVE  Accounted'
    <2>1. Settles(tsx, OnResponse(tsx, c, o))
      BY <1>1, OnResponseSettles, CodeKinds
    <2> QED
      BY <1>2, <2>1, StayAccounts DEF RecvResponse, Receive, RInv
  <1>3. ASSUME NEW o \in Outcomes, RecvRequest(w, o)
        PROVE  Accounted'
    BY <1>1, <1>3, OnRequestSettles, StayAccounts DEF RecvRequest, Receive, RInv
  <1>4. ASSUME RecvAck(w)
        PROVE  Accounted'
    BY <1>1, <1>4, OnAckSettles, StayAccounts DEF RecvAck, Receive, RInv
  <1> QED
    BY <1>2, <1>3, <1>4 DEF PeerStep

LEMMA TuStepAccounts ==
    ASSUME RInv, TuStep
    PROVE  Accounted'
  <1>1. Tidy(tsx) /\ tsx \in TsxType
    BY DEF RInv, Accounted, Tidy
  <1>2. ASSUME NEW o \in Outcomes, SendRequest(o)
        PROVE  Accounted'
    <2>1. Live(tsx)
      BY <1>1, <1>2, StateNumbers DEF SendRequest, Live
    <2> QED
      BY <1>2, <2>1, OnSendRequestSettles, StayAccounts DEF SendRequest, TuCall, RInv
  <1>3. ASSUME NEW o \in Outcomes, NEW c \in Responses(tsx.method),
               NEW disc \in BOOLEAN, SendResponse(c, o, disc)
        PROVE  Accounted'
    <2>1. Live(tsx)
      BY <1>1, <1>3, StateNumbers DEF SendResponse, Live
    <2>2. Settles(tsx, OnSendResponse(tsx, c, o, disc))
      BY <2>1, OnSendResponseSettles, CodeKinds
    <2> QED
      BY <1>3, <2>2, StayAccounts DEF SendResponse, TuCall, RInv
  <1>4. CASE Terminate
    <2> DEFINE q == [tsx EXCEPT !.status_code = TimeoutCode]
    <2>1. Balances(tsx, q)
      BY <1>1, StatusBalances DEF Codes
    <2>2. Settles(tsx, q) /\ Tidy(q)
      BY <1>1, <2>1, BalancesSettles DEF Settles
    <2>3. Settles(q, SetState(q, TERMINATED))
      BY <2>2, SetStateSettles, ForwardStates
    <2>4. Settles(tsx, SetState(q, TERMINATED))
      BY <2>2, <2>3, SettlesTrans
    <2> QED
      BY <1>4, <2>4, StayAccounts DEF Terminate, TuCall, RInv
  <1>5. CASE StopRetransmit
    BY <1>1, <1>5, CancelBalances, TimerNames, BalancesSettles, StayAccounts
      DEF StopRetransmit, TuCall, RInv
  <1>6. CASE SetTimeout
    BY <1>1, <1>6, RestartBalances, TimerNames, IdNames, BalancesSettles, StayAccounts
      DEF SetTimeout, TuCall, RInv
  <1> QED
    BY <1>2, <1>3, <1>4, <1>5, <1>6 DEF TuStep

-----------------------------------------------------------------------------
(* The theorems.                                                           *)

LEMMA NextAccounts ==
    ASSUME IsFiniteSet(Workers), SendsApart, RInv, [Next]_vars
    PROVE  Accounted'
  <1>1. CASE vars' = vars
    BY <1>1 DEF vars, RInv, Accounted, Holders, IsAt
  <1>2. ASSUME NEW w \in Workers, NEW t \in Timers, TimerFires(w, t)
        PROVE  Accounted'
    BY <1>2, TimerFiresMoves, MovesAccounts
  <1>3. ASSUME NEW w \in Workers, CallbackStep(w)
        PROVE  Accounted'
    BY <1>3, EnterCallbackAccounts, RetransmitEventAccounts, TimeoutEventAccounts,
       PostedEventAccounts, TellUnlockedAccounts, ResumeAccounts, PostErrorAccounts
      DEF CallbackStep
  <1>4. ASSUME NEW w \in Workers, TransportStep(w)
        PROVE  Accounted'
    <2>1. tsx.direct \subseteq Messages /\ tsx.resolving \subseteq Messages
      BY PcFacts DEF TsxType
    <2> QED
      BY <1>4, <2>1, SendDoneAccounts, SendErrorAccounts, ResolveDoneAccounts,
         ResolveErrorAccounts, TryNextServerAccounts DEF TransportStep
  <1>5. ASSUME NEW w \in Workers, PeerStep(w)
        PROVE  Accounted'
    BY <1>5, PeerStepAccounts
  <1>6. ASSUME NEW w \in Workers, NEW o \in Outcomes, RetransmitNoState(w, o)
        PROVE  Accounted'
    BY <1>6, RetransmitNoStateAccounts
  <1>7. CASE TuStep
    BY <1>7, TuStepAccounts
  <1>8. CASE Disconnected
    <2>1. Settles(tsx, Post(tsx, DISC))
      BY PostBalances, IdNames, BalancesSettles DEF RInv, Accounted, Tidy
    <2> QED
      BY <1>8, <2>1, StayAccounts DEF Disconnected, RInv
  <1>9. CASE Done
    BY <1>1, <1>9 DEF Done
  <1> QED
    BY <1>1, <1>2, <1>3, <1>4, <1>5, <1>6, <1>7, <1>8, <1>9 DEF Next

LEMMA InitAccounts ==
    ASSUME Init
    PROVE  Accounted
  <1>1. PICK role \in Roles, method \in Methods, h \in BOOLEAN, t \in BOOLEAN,
             b \in BOOLEAN : tsx = NewTsx(role, method, h, t, b)
    BY DEF Init
  <1>2. tsx \in TsxType
    BY InitSound DEF IInv, Sound
  <1>3. /\ tsx.direct = {} /\ tsx.resolving = {} /\ tsx.pending_tx = NoMsg
        /\ tsx.transport_flag = {} /\ tsx.state = NULL /\ tsx.told = NULL
        /\ tsx.refs = 1 /\ tsx.kept = 0 /\ tsx.terminating = FALSE
        /\ tsx.heap["timeout"] = FALSE /\ tsx.heap["retransmit"] = FALSE
    BY <1>1, TimerNames DEF NewTsx
  <1>4. Tidy(tsx) /\ Heard(tsx)
    BY <1>2, <1>3 DEF Tidy, Heard, Has, NULL, TERMINATED
  <1>5. Spare(tsx) = 0
    BY <1>3 DEF Spare, Owed, Weight
  <1>6. \A w \in Workers : pc[w] = Idle
    BY DEF Init
  <1>7. Holders = {} /\ Cardinality({}) = 0
    BY <1>6, PcPlaces, FS_EmptySet DEF Holders
  <1>8. \A w \in Workers : Held(pc[w]) /\ ~IsAt(w, "resume")
    BY <1>6, PcPlaces DEF IsAt
  <1> QED
    BY <1>4, <1>5, <1>7, <1>8 DEF Accounted

\* The strengthened invariant is one of the specification's.
THEOREM SpecAccounted ==
    ASSUME IsFiniteSet(Workers), SendsApart
    PROVE  Spec => []RInv
  <1>1. Init => RInv
    BY InitSound, InitAccounts DEF RInv
  <1>2. RInv /\ [Next]_vars => RInv'
    BY NextKeeps, NextAccounts DEF RInv, Keeps
  <1> QED
    BY <1>1, <1>2, PTL DEF Spec

\* A set of at most one element has the weight of its being there.
LEMMA WeightOfSet ==
    ASSUME NEW S, \A m, n \in S : m = n
    PROVE  Cardinality(S) = Weight(S # {}) /\ IsFiniteSet(S)
  <1>1. CASE S = {}
    BY <1>1, FS_EmptySet DEF Weight
  <1>2. CASE S # {}
    <2>1. PICK m : S = {m}
      BY <1>2
    <2> QED
      BY <1>2, <2>1, FS_Singleton DEF Weight
  <1> QED
    BY <1>1, <1>2

\* The timers in the heap, counted one by one.
LEMMA HeapCount ==
    ASSUME NEW s \in TsxType
    PROVE  Cardinality({t \in Timers : s.heap[t]})
               = Weight(s.heap["timeout"]) + Weight(s.heap["retransmit"])
  <1> DEFINE R == {t \in {"retransmit"} : s.heap[t]}
             S == {t \in Timers : s.heap[t]}
  <1>1. Cardinality(R) = Weight(R # {}) /\ IsFiniteSet(R)
    BY WeightOfSet
  <1>2. Weight(R # {}) = Weight(s.heap["retransmit"])
    BY DEF Weight
  <1>3. "timeout" \notin R
    OBVIOUS
  <1>4. S = IF s.heap["timeout"] THEN R \cup {"timeout"} ELSE R
    BY DEF Timers
  <1>5. Cardinality(R \cup {"timeout"}) = Cardinality(R) + 1 /\ Cardinality(R) \in Nat
    BY <1>1, <1>3, FS_AddElement, FS_CardinalityType
  <1> HIDE DEF R, S
  <1>6. Cardinality(S) = Weight(s.heap["timeout"]) + Weight(s.heap["retransmit"])
    BY <1>1, <1>2, <1>4, <1>5 DEF Weight
  <1> QED
    BY <1>6 DEF S

\* The group lock's count is the sum of the references it stands for: with
\* one worker whatever the transports do, and with any number of workers if
\* transports never leave a send pending.
THEOREM RefsCounted ==
    ASSUME IsFiniteSet(Workers), SendsApart
    PROVE  Spec => []RefsAccounted
  <1>1. RInv => RefsAccounted
    <2> SUFFICES ASSUME RInv
                 PROVE  RefsAccounted
      OBVIOUS
    <2>1. tsx \in TsxType /\ Tidy(tsx) /\ Spare(tsx) = Cardinality(Holders)
            /\ tsx.refs \in Int /\ tsx.kept \in Int
      BY DEF RInv, Accounted, Tidy, TsxType
    <2>2. Cardinality(tsx.direct) = Weight(tsx.direct # {})
      BY <2>1, WeightOfSet DEF Tidy
    <2>3. Cardinality(tsx.resolving) = Weight(tsx.resolving # {})
      BY <2>1, WeightOfSet DEF Tidy
    <2>4. Cardinality({t \in Timers : tsx.heap[t]})
              = Weight(tsx.heap["timeout"]) + Weight(tsx.heap["retransmit"])
      BY <2>1, HeapCount
    <2>5. Cardinality({w \in Workers : pc[w].ref}) = Spare(tsx) /\ Spare(tsx) \in Int
      BY <2>1, SpareInt DEF Holders
    <2>6. (IF tsx.terminating THEN 0 ELSE 1) = Weight(~tsx.terminating)
      BY DEF Weight
    <2> QED
      BY <2>1, <2>2, <2>3, <2>4, <2>5, <2>6 DEF RefsAccounted, Spare, Owed, Weight
  <1> QED
    BY <1>1, SpecAccounted, PTL

=============================================================================
