--------------------------- MODULE TransactionFsm ---------------------------
(***************************************************************************)
(* What a SIP transaction promises its user, the TU: the state machine the *)
(* state handlers of sip_transaction.c implement, and that the TU is told  *)
(* of each state before the transaction leaves it.  No message, timer,     *)
(* transport or lock is left at this level.                                *)
(***************************************************************************)
EXTENDS Integers

VARIABLES role,       \* "UAC" or "UAS"
          method,     \* "INVITE", "BYE" or "OTHER"
          state,      \* tsx->state
          told        \* the state in the TU's last on_tsx_state callback
fsmVars == <<role, method, state, told>>

NULL == 0
CALLING == 1
TRYING == 2
PROCEEDING == 3
COMPLETED == 4
CONFIRMED == 5
TERMINATED == 6
DESTROYED == 7

\* Where each state's handler leads.  A client INVITE skips COMPLETED on a
\* 200, since the TU acknowledges it; so does a server that leaves the 200
\* to the TU.
AfterNull == IF role = "UAC" THEN {CALLING} ELSE {TRYING}

AfterCalling == {PROCEEDING, COMPLETED}

AfterTrying == {PROCEEDING, COMPLETED}

AfterProceeding == {COMPLETED}

AfterCompleted ==
    IF role = "UAS" /\ method = "INVITE" THEN {CONFIRMED} ELSE {}

After(st) ==
    CASE st = NULL       -> AfterNull
      [] st = CALLING    -> AfterCalling
      [] st = TRYING     -> AfterTrying
      [] st = PROCEEDING -> AfterProceeding
      [] st = COMPLETED  -> AfterCompleted
      [] OTHER           -> {}

\* An event moves the transaction on and the TU is told at once: a handler
\* does nothing before the TU knows where the last one left the transaction.
Advance ==
    /\ told = state
    /\ \E st \in After(state) : state' = st /\ told' = st

\* The end: a final response, a timeout, a failed transport or the TU.  When
\* a timer or a callback brings it, the TU is told with the lock released.
Terminate ==
    /\ told = state
    /\ state < TERMINATED
    /\ state' = TERMINATED
    /\ told' \in {state, TERMINATED}

Destroy ==
    /\ told = state
    /\ state = TERMINATED
    /\ state' = DESTROYED
    /\ told' \in {state, DESTROYED}

TellLate ==
    /\ told # state
    /\ told' = state
    /\ state' = state

FsmInit ==
    /\ role \in {"UAC", "UAS"}
    /\ method \in {"INVITE", "BYE", "OTHER"}
    /\ state = NULL /\ told = NULL
FsmNext ==
    /\ Advance \/ Terminate \/ Destroy \/ TellLate
    /\ UNCHANGED <<role, method>>
FsmSpec == FsmInit /\ [][FsmNext]_fsmVars

\* Once it has terminated, the transaction is destroyed and the TU told.
FsmFairSpec ==
    /\ FsmSpec
    /\ WF_fsmVars(Destroy /\ UNCHANGED <<role, method>>)
    /\ WF_fsmVars(TellLate /\ UNCHANGED <<role, method>>)

=============================================================================
