---------------------------- MODULE CommentsMirror ----------------------------
(***************************************************************************)
(* The public mirror of the comments table (pipelines/comments_mirror.py): *)
(* a monolith, one file per agency and an index, replaced one by one under *)
(* fixed keys, then a generation and, last, a receipt that names what was  *)
(* published.  A receipt that still describes the catalog and the public   *)
(* files makes the next run a no-op.                                       *)
(*                                                                         *)
(* One mirror runs at a time (the comments-catalog-write group) and may    *)
(* die at any step; the catalog's writers may run beside it.  A file is    *)
(* its rows, so equal ETags are equal rows.  Refusals over the size and    *)
(* the shape of an export are left out, as is the prepared export.  The    *)
(* pointer's protocol is Publication; here its one effect is a generation. *)
(***************************************************************************)
EXTENDS CommentsCatalog

CONSTANTS MaxDeaths,  \* mirror runs that die, bounded
          Forces      \* the values --force may take

ASSUME MirrorAssumption == MaxDeaths \in Nat /\ Forces \subseteq BOOLEAN

VARIABLES public,      \* the files at the fixed keys
          generation,  \* the snapshot of the comments generation in the index
          receipt,     \* comments-publication.json, or None
          mirror,      \* the run under way
          deaths

mirrorVars == <<public, generation, receipt, mirror, deaths>>
vars == <<rows, version, changed, writer, public, generation, receipt, mirror, deaths>>

Table == [Ids -> Row \cup {None}]
Slice(table, a) == [i \in Ids |-> IF table[i] # None /\ table[i].agency = a THEN table[i] ELSE None]
Present(table) == {table[i].agency : i \in {j \in Ids : table[j] # None}}
IndexOf(table) == [i \in Ids |-> IF table[i] = None THEN None ELSE table[i].agency]

Public == [monolith : Table, files : [Agencies -> Table \cup {None}], index : [Ids -> Agencies \cup {None}]]
Receipt == [snap : 0..MaxVersion, public : Public, listed : SUBSET Agencies]
ASSUME NoneAssumption == None \notin Table \cup Receipt
Stages == {"idle", "exported", "checked", "uploading", "uploaded", "published"}
Before == {"idle", "exported", "checked"}  \* no file has been replaced yet

(* A run holds the snapshot it pinned and its rows, the predecessor it     *)
(* validated, the agencies whose files it replaces and those left to do.   *)
MirrorRun == [at : Stages, snap : 0..MaxVersion, content : Table \cup {None},
              pred : Table \cup {None}, files : SUBSET Agencies, left : SUBSET Agencies]
NoRun == [at |-> "idle", snap |-> 0, content |-> None, pred |-> None, files |-> {}, left |-> {}]

TypeOK ==
    /\ CatalogTypeOK
    /\ public \in Public
    /\ generation \in 0..MaxVersion
    /\ receipt \in Receipt \cup {None}
    /\ mirror \in MirrorRun
    /\ mirror.left \subseteq mirror.files
    /\ mirror.at # "idle" => /\ Present(mirror.content) \subseteq mirror.files
                             /\ mirror.snap <= version
    /\ deaths \in 0..MaxDeaths

(* A first mirror, of the empty table, is in place: a run without a        *)
(* predecessor refuses.                                                    *)
Init ==
    /\ CatalogInit
    /\ public = [monolith |-> rows, files |-> [a \in Agencies |-> None], index |-> IndexOf(rows)]
    /\ generation = 0
    /\ receipt = None
    /\ mirror = NoRun
    /\ deaths = 0

(* A fault: the snapshot the receipt names is not compared.                *)
PublicMatches ==
    /\ receipt # None
    /\ generation = receipt.snap
    /\ public.monolith = receipt.public.monolith
    /\ public.index = receipt.public.index
    /\ \A a \in receipt.listed : public.files[a] = receipt.public.files[a]
(* _receipt_matches: the pinned snapshot, the index's generation and the   *)
(* version of every file the receipt names.                                *)
Matches ==
    /\ receipt # None
    /\ receipt.snap = version
    /\ generation = receipt.snap
    /\ public.monolith = receipt.public.monolith
    /\ public.index = receipt.public.index
    /\ \A a \in receipt.listed : public.files[a] = receipt.public.files[a]

(* _retain_empty_agencies: the agencies of the predecessor and of the      *)
(* receipt keep a file, emptied when they have no row left.  A fault: only *)
(* the agencies of the export.                                             *)
Listed == IF receipt = None THEN {} ELSE receipt.listed
ForgetAgencies(force) == {}
Retained(force) == Present(public.monolith) \cup (IF force THEN {} ELSE Listed)

(* From the pinned snapshot through validate_export: an export of other    *)
(* rows than the pinned ones, or one that lost an id, is refused.          *)
Export ==
    /\ mirror.at = "idle"
    /\ \E force \in Forces :
         LET files == Present(rows) \cup Retained(force) IN
         /\ force \/ ~Matches
         /\ \A i \in Ids : public.monolith[i] # None => rows[i] # None
         /\ mirror' = [at |-> "exported", snap |-> version, content |-> rows,
                       pred |-> public.monolith, files |-> files, left |-> files]
    /\ UNCHANGED <<public, generation, receipt, deaths>>

(* A fault: the predecessor must be the one the last receipt names.        *)
ReceiptStands ==
    changed <= mirror.snap /\ (receipt # None => receipt.public.monolith = public.monolith)
(* rows_unchanged_since: compactions may have come since; and the          *)
(* predecessor is the one that was validated.                              *)
StillCurrent == changed <= mirror.snap /\ public.monolith = mirror.pred

Recheck ==
    /\ mirror.at = "exported"
    /\ StillCurrent
    /\ mirror' = [mirror EXCEPT !.at = "checked"]
    /\ UNCHANGED <<public, generation, receipt, deaths>>

(* The catalog may have moved on since the recheck.                        *)
UploadMonolith ==
    /\ mirror.at = "checked"
    /\ public' = [public EXCEPT !.monolith = mirror.content]
    /\ mirror' = [mirror EXCEPT !.at = "uploading"]
    /\ UNCHANGED <<generation, receipt, deaths>>

Refuse ==
    /\ mirror.at = "exported"
    /\ ~StillCurrent
    /\ mirror' = NoRun
    /\ UNCHANGED <<public, generation, receipt, deaths>>

(* upload_comment_partitions: the agency files in any order, then the      *)
(* index.                                                                  *)
UploadAgency ==
    /\ mirror.at = "uploading"
    /\ \E a \in mirror.left :
         /\ public' = [public EXCEPT !.files[a] = Slice(mirror.content, a)]
         /\ mirror' = [mirror EXCEPT !.left = @ \ {a}]
    /\ UNCHANGED <<generation, receipt, deaths>>

(* A fault: the index does not wait for the agency files.                  *)
UploadIndexAnyTime ==
    /\ mirror.at = "uploading"
    /\ public' = [public EXCEPT !.index = IndexOf(mirror.content)]
    /\ mirror' = [mirror EXCEPT !.at = "uploaded"]
    /\ UNCHANGED <<generation, receipt, deaths>>
UploadIndex ==
    /\ mirror.at = "uploading"
    /\ mirror.left = {}
    /\ public' = [public EXCEPT !.index = IndexOf(mirror.content)]
    /\ mirror' = [mirror EXCEPT !.at = "uploaded"]
    /\ UNCHANGED <<generation, receipt, deaths>>

PublishGeneration ==
    /\ mirror.at = "uploaded"
    /\ generation' = mirror.snap
    /\ mirror' = [mirror EXCEPT !.at = "published"]
    /\ UNCHANGED <<public, receipt, deaths>>

WriteReceipt ==
    /\ mirror.at = "published"
    /\ receipt' = [snap |-> mirror.snap, public |-> public, listed |-> mirror.files]
    /\ mirror' = NoRun
    /\ UNCHANGED <<public, generation, deaths>>

Die ==
    /\ mirror.at # "idle"
    /\ deaths < MaxDeaths
    /\ deaths' = deaths + 1
    /\ mirror' = NoRun
    /\ UNCHANGED <<public, generation, receipt>>

MirrorStep == Export \/ Recheck \/ Refuse \/ UploadMonolith \/ UploadAgency \/ UploadIndex
              \/ PublishGeneration \/ WriteReceipt

Next ==
    \/ (MirrorStep \/ Die) /\ UNCHANGED catalogVars
    \/ CatalogNext /\ UNCHANGED mirrorVars

(* The refresh is scheduled again and again and its steps end; the catalog *)
(* and its writers owe nothing.                                            *)
Spec == Init /\ [][Next]_vars /\ WF_vars(MirrorStep /\ UNCHANGED catalogVars)

-----------------------------------------------------------------------------
(* What a run has exported stays the table while only compactions follow,  *)
(* what it has replaced so far is what it exported, a receipt describes    *)
(* the rows of its snapshot, and each snapshot number names one table.     *)
Exported ==
    mirror.at # "idle" => /\ mirror.content \in Table
                          /\ changed <= mirror.snap => mirror.content = rows

Replaced ==
    /\ mirror.at \in {"exported", "checked"} => mirror.left = mirror.files
    /\ mirror.at \in {"uploading", "uploaded", "published"} =>
         /\ public.monolith = mirror.content
         /\ \A a \in mirror.files \ mirror.left : public.files[a] = Slice(mirror.content, a)
    /\ mirror.at \in {"uploaded", "published"} =>
         mirror.left = {} /\ public.index = IndexOf(mirror.content)
    /\ mirror.at = "published" => generation = mirror.snap

Describes(table) ==
    /\ receipt.public.monolith = table
    /\ receipt.public.index = IndexOf(table)
    /\ Present(table) \subseteq receipt.listed
    /\ \A a \in receipt.listed : receipt.public.files[a] = Slice(table, a)

BaseInv ==
    /\ TypeOK
    /\ WritersInv
    /\ Exported
    /\ Replaced
    /\ receipt # None => receipt.snap <= version /\ (receipt.snap = version => Describes(rows))

(* Which agencies may have rows at their keys: those of the monolith, and  *)
(* after one death those the receipt lists; the files of a run are enough  *)
(* to replace them all.  A second death, or a forced run after the first,  *)
(* breaks this.                                                            *)
Filled == {a \in Agencies : public.files[a] \notin {None, [i \in Ids |-> None]}}
Unforced == TRUE \notin Forces
FewFaults == deaths = 0 \/ (deaths = 1 /\ Unforced)
Tracked ==
    /\ mirror.at \in Before => Filled \subseteq Present(public.monolith) \cup Listed
    /\ mirror.at \in Before /\ deaths = 0 =>
         Filled \subseteq Present(public.monolith) /\ Present(public.monolith) \subseteq Listed
    /\ mirror.at # "idle" => Filled \subseteq mirror.files
    /\ mirror.at # "idle" /\ deaths = 0 => mirror.files \subseteq Present(mirror.content) \cup Listed

(* Unless it is forced, a run starts only when the catalog has a snapshot  *)
(* the receipt does not name, and a receipt of the latest one matches      *)
(* until then.                                                             *)
StartsOnNews ==
    receipt # None => IF mirror.at = "idle" THEN receipt.snap = version => Matches
                      ELSE receipt.snap < mirror.snap

Inv == BaseInv /\ (FewFaults => Tracked) /\ (Unforced => StartsOnNews)

(* When the receipt says there is nothing to publish, the files it names   *)
(* are the table, however many runs died before or since, and no other     *)
(* agency has a row.                                                       *)
ListedIsWhole ==
    Matches =>
        /\ public.monolith = rows
        /\ public.index = IndexOf(rows)
        /\ Present(rows) \subseteq receipt.listed
        /\ \A a \in receipt.listed : public.files[a] = Slice(rows, a)

(* When the receipt says there is nothing to publish, the public files are *)
(* the table: the monolith and the index have its rows and every agency    *)
(* file, named in the receipt or left by a run that died, has exactly the  *)
(* rows of its agency.                                                     *)
MirrorIsWhole ==
    Matches =>
        /\ public.monolith = rows
        /\ public.index = IndexOf(rows)
        /\ \A a \in Agencies : IF public.files[a] = None THEN Slice(rows, a) = [i \in Ids |-> None]
                               ELSE public.files[a] = Slice(rows, a)

(* An interrupted or refused publication stays retryable: once the catalog *)
(* is quiet and no run dies, a run gets to its receipt and it goes on      *)
(* matching.                                                               *)
MirrorConverges == <>[]Matches
=============================================================================
