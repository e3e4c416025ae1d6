---------------------------- MODULE MCPublication ----------------------------
(* Small instances of Publication for TLC. *)
EXTENDS Publication, TLC

CONSTANTS t1, t2, log

(* A family may list t1, with the shared log before logs were shared, or t2,
   or t1 without the log and with t2 moved from its tables into its receipts. *)
Logged == [tables |-> {t1}, receipts |-> {t1, log}]
Listing2 == [tables |-> {t2}, receipts |-> {t2}]
Moved == [tables |-> {t1}, receipts |-> {t1, t2}]

Contended == {Logged, Listing2, Moved}

MCNames == {t1, t2, log}
MCShared == {log}

(* The tables' names come anywhere. *)
RootBeforeReceipts == {<<RootKey, ReceiptKey>>}

Symmetry == Permutations(Families) \cup Permutations(Generations) \cup Permutations(Publishers)
=============================================================================
