------------------------------ MODULE Selection ------------------------------
(***************************************************************************)
(* What the publication protocol promises its users: the publication index *)
(* names one generation per family, and a publication behaves as if one    *)
(* atomic transaction had read the index, built a generation of one family *)
(* from the selections it read, and selected it.  Nothing here stages,     *)
(* uploads, retries or races; module Publication does, and implements this *)
(* specification.                                                          *)
(***************************************************************************)
CONSTANTS Families,     \* the families an index may list
          Generations,  \* artifact digests: the names of immutable generations
          Layouts,      \* what a generation may list: its tables and receipt datasets
          SharedLogs,   \* datasets that no family owns
          None          \* no generation

VARIABLES selection,    \* the generation each family names, or None
          basis         \* what each generation selected so far was built from

vars == <<selection, basis>>

Claims(root) == root.layout.tables \cup root.layout.receipts

(* A family may claim a name only if no other selected family claims it. *)
Unclaimed(f, names) ==
    \A h \in Families \ {f} :
        selection[h] # None => Claims(basis[selection[h]]) \cap names = {}

(* What a build of family f reading the families in read states as its root. *)
RootOf(f, read, layout) ==
    [family  |-> f,
     prior   |-> selection[f],
     parents |-> [h \in Families |-> IF h \in read THEN selection[h] ELSE None],
     layout  |-> layout]

Init ==
    /\ selection = [f \in Families |-> None]
    /\ basis = [g \in Generations |-> None]

Publish(f, g) ==
    \E read \in SUBSET (Families \ {f}), layout \in Layouts :
        LET root == RootOf(f, read, layout) IN
        /\ basis[g] \in {None, root}
        /\ Unclaimed(f, Claims(root))
        /\ selection[f] # None => Claims(basis[selection[f]]) \ SharedLogs \subseteq Claims(root)
        /\ basis' = [basis EXCEPT ![g] = root]
        /\ selection' = [selection EXCEPT ![f] = g]

(* A rollback: to a generation selected before, or to the family's absence. *)
Restore(f, g) ==
    /\ g # None => /\ basis[g] # None
                   /\ basis[g].family = f
                   /\ Unclaimed(f, Claims(basis[g]))
    /\ selection' = [selection EXCEPT ![f] = g]
    /\ UNCHANGED basis

Next ==
    \E f \in Families :
        \/ \E g \in Generations : Publish(f, g)
        \/ \E g \in Generations \cup {None} : Restore(f, g)

Spec == Init /\ [][Next]_vars
=============================================================================
