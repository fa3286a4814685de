----------------------------- MODULE MCRegClient ----------------------------
(* Instances of RegClient for TLC.                                         *)
EXTENDS RegClient

\* What nobody reads again does not tell states apart: in a session that is
\* to be deleted, all but its timer, its users and its request; in one
\* without a request or response, the operation of the last; in a frame,
\* is_unreg, which is for the application only.
View ==
    <<[r \in Regc |->
         LET s == reg[r]
             answered == \E f \in Frames : f.r = r /\ f.fn = "tsx"
         IN [s EXCEPT !.op = IF s.delete_flag \/ ~(s.has_tsx \/ answered)
                             THEN "IDLE" ELSE @,
                      !.long = @ /\ ~s.delete_flag,
                      !.transport = @ /\ ~s.delete_flag]],
      acc,
      [t \in Thread |-> [i \in DOMAIN stk[t] |->
                           [stk[t][i] EXCEPT !.is_unreg = FALSE]]],
      net, pjsua>>

=============================================================================
