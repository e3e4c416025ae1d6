------------------------------- MODULE MCMirror -------------------------------
EXTENDS CommentsMirror

CONSTANTS a1, a2

(* The comment names one agency first and another one in its later row.    *)
MCAgencyOf == [i \in Ids |-> [d \in Stamps |-> IF d = 2 THEN a2 ELSE a1]]
=============================================================================
