-------------------------- MODULE MCSipTransaction --------------------------
(***************************************************************************)
(* The instances of SipTransaction that TLC checks: the .cfg files give    *)
(* the roles, methods and workers, and the outcomes that sends may have.   *)
(***************************************************************************)
EXTENDS SipTransaction

\* Bound of tsx_live and workers: direct sends stay pending for methods other
\* than INVITE.  The transport can always have sent an INVITE's at once, so
\* no behaviour is cut short.
InviteSentAtOnce == tsx.method = "INVITE" => tsx.direct = {}

=============================================================================
