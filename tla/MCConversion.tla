---------------------------- MODULE MCConversion ----------------------------
(* Small instances of NativeConversion for TLC. *)
EXTENDS NativeConversion, TLC

CONSTANT t1

(* A table before and after its conversion. *)
Plain  == [tables |-> {t1}, receipts |-> {}]
Full   == [tables |-> {t1}, receipts |-> {t1}]

MCNames == {t1}
MCLayouts == {Plain, Full}

RootBeforeReceipts == {<<RootKey, ReceiptKey>>}

Symmetry == Permutations(Generations)
=============================================================================
