--------------------------- MODULE MCRegulations ---------------------------
(* A small instance of RegulationsEtl for TLC: a batch with a document and *)
(* a batch with a comment.                                                 *)
EXTENDS RegulationsEtl, TLC

CONSTANTS d1, c1

MCDocuments == {d1}
MCComments  == {c1}
MCBatchOf   == (d1 :> 0) @@ (c1 :> 1)

MCDispatches ==
    {[kind |-> "batch", publish |-> TRUE], [kind |-> "chunked", publish |-> TRUE],
     [kind |-> "sweep", publish |-> FALSE]}
=============================================================================
