---------------------------- MODULE MCDemoPhone ----------------------------
(***************************************************************************)
(* The instance of DemoPhone that TLC checks, and what pjsua's headers say *)
(* of the calls the application makes.                                     *)
(***************************************************************************)
EXTENDS DemoPhone

\* pjsip_inv_end_session "creates the non-2xx final response" to an INVITE
\* that has none: a call that the user did not accept is never answered.
OnlyAcceptedIsAnswered ==
    \A c \in CallIds :
        calls[c].dir = "in" /\ calls[c].state \in {"connecting", "confirmed"}
            => calls[c].accepted

=============================================================================
