---------------------------- MODULE MCInvSession ----------------------------
(***************************************************************************)
(* Instances of InvSession: the .cfg files say whether transactions may    *)
(* time out and a re-INVITE be cancelled, and bound the re-INVITEs.        *)
(***************************************************************************)
EXTENDS InvSession

\* Bound of inv: a call in which a re-INVITE is cancelled has no other.
CancelledAlone ==
    (\E i \in Txns : tsx[i].method = "CANCEL" /\ tsx[i].of > 1)
        => Len(SelectSeq(tsx, LAMBDA t : t.method = "INVITE")) <= 2

=============================================================================
