----------------------------- MODULE MCRetention -----------------------------
(* Small instances of Retention for TLC. *)
EXTENDS Retention, TLC

CONSTANTS t1, t2

MCNames == {t1, t2}

(* One table with its receipts, the same listing in every build. *)
Single == {[tables |-> {t1}, receipts |-> {t1}]}

(* Families whose names never collide or change: every check on names passes,
   as it does when none are listed. *)
Apart == {[tables |-> {}, receipts |-> {}]}

(* Tables such as amendments come before artifact.json. *)
TablesFirst == {<<TableKey, RootKey>>, <<RootKey, ReceiptKey>>}

Symmetry == Permutations(Families) \cup Permutations(Generations) \cup Permutations(Publishers)
=============================================================================
