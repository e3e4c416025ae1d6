--------------------------- MODULE CommentsCatalog ---------------------------
(***************************************************************************)
(* The comments table of the catalog (sources/iceberg.py,                  *)
(* sources/regulatory_catalog.py).  A writer reads the rows it is about to *)
(* replace, decides, and replaces them in one transaction that refuses     *)
(* when the rows it read are no longer there.  Writers may overlap: only   *)
(* the scheduled jobs share a lock, a manual write merely warns.           *)
(*                                                                         *)
(* A row is reduced to its agency, its modify_date and whether its text is *)
(* filled; a comment's row of one date always names the same agency.  A    *)
(* row may have no date (NULL): it is older than every date, and whatever  *)
(* comes replaces it.  A transaction is one step.                          *)
(***************************************************************************)
EXTENDS Naturals, FiniteSets

CONSTANTS Ids,        \* comment ids
          Agencies,
          Dates,      \* modify dates, numbers in their order
          AgencyOf,   \* the agency that a comment's source names at a stamp
          Writers,
          MaxVersion, \* commits, bounded
          None

NoDate == 0  \* a missing modify_date
Stamps == Dates \cup {NoDate}

ASSUME CatalogAssumption ==
    /\ Dates \subseteq Nat \ {NoDate}
    /\ AgencyOf \in [Ids -> [Stamps -> Agencies]]
    /\ MaxVersion \in Nat
    /\ None \notin Agencies
    /\ None \notin [agency : Agencies, date : Stamps, text : BOOLEAN]

VARIABLES rows,     \* the table: a row per comment, or None
          version,  \* its snapshot
          changed,  \* the last snapshot that was more than a compaction
          writer    \* per writer: the prior rows it read, the rows it will write

catalogVars == <<rows, version, changed, writer>>

Row == [agency : Agencies, date : Stamps, text : BOOLEAN]

(* What a writer holds: for some comments the rows it read, for those it   *)
(* will write the new rows, and the agency it is confined to.              *)
Rest == [at |-> "idle", scope |-> None, prior |-> <<>>, new |-> <<>>]

Tables == UNION {[ids -> Row \cup {None}] : ids \in SUBSET Ids}

Held == [at : {"idle", "prepared"}, scope : Agencies \cup {None}, prior : Tables, new : Tables]

CatalogTypeOK ==
    /\ rows \in [Ids -> Row \cup {None}]
    /\ version \in 0..MaxVersion
    /\ changed \in 0..version
    /\ writer \in [Writers -> Held]

CatalogInit ==
    /\ rows = [i \in Ids |-> None]
    /\ version = 0
    /\ changed = 0
    /\ writer = [w \in Writers |-> Rest]

(* What a read or a transaction confined to an agency sees of a comment.   *)
Seen(i, scope) == IF rows[i] # None /\ scope # None /\ rows[i].agency # scope THEN None ELSE rows[i]

Prepare(w, scope, ids, new) ==
    writer' = [writer EXCEPT ![w] = [at |-> "prepared", scope |-> scope,
                                     prior |-> [i \in ids |-> Seen(i, scope)], new |-> new]]

(* _merge: of the staged rows win those of new comments, those whose       *)
(* stored row has no date and those strictly newer than the row read.      *)
Winners(staged) ==
    {i \in DOMAIN staged : \/ rows[i] = None
                           \/ rows[i].date = NoDate
                           \/ staged[i].date > rows[i].date}

PrepareMerge(w) ==
    /\ writer[w].at = "idle"
    /\ \E ids \in SUBSET Ids \ {{}} : \E date \in [ids -> Stamps], text \in [ids -> BOOLEAN] :
         LET staged == [i \in ids |-> [agency |-> AgencyOf[i][date[i]], date |-> date[i],
                                       text |-> text[i]]] IN
         Prepare(w, None, Winners(staged), [i \in Winners(staged) |-> staged[i]])
    /\ UNCHANGED <<rows, version, changed>>

(* upsert_comment_text: the text of some of an agency's rows; the rows are *)
(* written whole.                                                          *)
PrepareFill(w) ==
    /\ writer[w].at = "idle"
    /\ \E a \in Agencies : \E ids \in SUBSET {i \in Ids : Seen(i, a) # None} \ {{}} :
         Prepare(w, a, ids, [i \in ids |-> [rows[i] EXCEPT !.text = TRUE]])
    /\ UNCHANGED <<rows, version, changed>>

(* A fault: the prior is not compared inside the transaction. *)
Unchecked(w) == TRUE
PriorStands(w) ==
    \A i \in DOMAIN writer[w].prior : Seen(i, writer[w].scope) = writer[w].prior[i]

(* replace_native: one commit of subjects and receipts, which a merge      *)
(* without winners makes too, of receipts for the rows it turned away.     *)
Replace(w) ==
    /\ writer[w].at = "prepared"
    /\ PriorStands(w)
    /\ version < MaxVersion
    /\ version' = version + 1
    /\ changed' = version + 1
    /\ rows' = [i \in Ids |-> IF i \in DOMAIN writer[w].new THEN writer[w].new[i] ELSE rows[i]]
    /\ writer' = [writer EXCEPT ![w] = Rest]

(* The transaction refuses, or the writer dies before it commits.          *)
GiveUpWrite(w) ==
    /\ writer[w].at = "prepared"
    /\ writer' = [writer EXCEPT ![w] = Rest]
    /\ UNCHANGED <<rows, version, changed>>

(* Maintenance rewrites data files: another snapshot of the same rows.     *)
Compact ==
    /\ version < MaxVersion
    /\ version' = version + 1
    /\ UNCHANGED <<rows, changed, writer>>

CatalogNext ==
    \/ \E w \in Writers : PrepareMerge(w) \/ PrepareFill(w) \/ Replace(w) \/ GiveUpWrite(w)
    \/ Compact

(* Inductive, of what a writer holds: its new rows advance on the rows it   *)
(* read; a merge's are a source's, and those of a writer confined to an    *)
(* agency are the agency's rows it read, filled.                           *)
Advances(new, old) ==
    /\ new \in Row
    /\ old # None => \/ old.date = NoDate
                     \/ new.date > old.date
                     \/ new.date = old.date /\ (old.text => new.text)

Sound(held) ==
    /\ DOMAIN held.prior = DOMAIN held.new
    /\ \A i \in DOMAIN held.new :
          /\ Advances(held.new[i], held.prior[i])
          /\ IF held.scope = None
             THEN /\ held.prior[i] # None => \/ held.prior[i].date = NoDate
                                            \/ held.new[i].date > held.prior[i].date
                  /\ held.new[i].agency = AgencyOf[i][held.new[i].date]
             ELSE /\ held.prior[i] # None
                  /\ held.prior[i].agency = held.scope
                  /\ held.new[i] = [held.prior[i] EXCEPT !.text = TRUE]

WritersInv == \A w \in Writers : Sound(writer[w])

(* No commit loses a comment, takes one back to an earlier date or to      *)
(* none, or loses the text filled into the row of a date, whoever          *)
(* committed since its writer looked.  (An undated row's filled text is    *)
(* lost to the next undated row of its source: the rule for winners takes  *)
(* it, without a race.)                                                    *)
RowsAdvance ==
    [][\A i \in Ids : rows[i] # None =>
           /\ rows'[i] # None
           /\ rows'[i].date >= rows[i].date
           /\ (rows'[i].date = rows[i].date /\ rows[i].date # NoDate /\ rows[i].text)
                  => rows'[i].text]_catalogVars

(* Overlapping writers that read, decide and replace are as good as writers *)
(* that do it at once: whatever was committed since a writer looked, its    *)
(* commit is a merge or a fill of the table as it is then.                  *)
Atomic == INSTANCE CommentTable
CommitsAreAtomic == Atomic!Spec
=============================================================================
