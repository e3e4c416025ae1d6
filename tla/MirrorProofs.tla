----------------------------- MODULE MirrorProofs -----------------------------
(***************************************************************************)
(* Proofs about the comments catalog and its mirror, for every set of      *)
(* comments, agencies and writers and any number of runs that die: a       *)
(* commit only advances the rows it replaces, and a receipt that matches   *)
(* describes the table.                                                    *)
(***************************************************************************)
EXTENDS CommentsMirror, TLAPS

-----------------------------------------------------------------------------
(* The catalog. *)

CatalogInv == CatalogTypeOK /\ WritersInv

LEMMA StampsType == Stamps \subseteq Nat /\ NoDate \in Nat
  BY CatalogAssumption DEF CatalogAssumption, Stamps, NoDate

LEMMA RowsOf ==
    ASSUME CatalogTypeOK, NEW i \in Ids, rows[i] # None
    PROVE  /\ rows[i] \in Row
           /\ rows[i].date \in Nat /\ rows[i].text \in BOOLEAN /\ rows[i].agency \in Agencies
  BY StampsType DEF CatalogTypeOK, Row

LEMMA SeenType ==
    ASSUME CatalogTypeOK, NEW i \in Ids, NEW scope
    PROVE  /\ Seen(i, scope) \in Row \cup {None}
           /\ Seen(i, scope) = rows[i] \/ (Seen(i, scope) = None /\ scope # None)
  BY DEF CatalogTypeOK, Seen

(* A function from comments to rows is one a writer may hold. *)
LEMMA TablesOf ==
    ASSUME NEW ids \in SUBSET Ids, NEW f \in [ids -> Row \cup {None}]
    PROVE  f \in Tables
  BY DEF Tables

LEMMA RestHeld == Rest \in Held /\ Sound(Rest)
<1>1. Rest.prior \in Tables /\ Rest.new \in Tables
  <2>1. <<>> = [i \in {} |-> None]
    OBVIOUS
  <2>2. [i \in {} |-> None] \in Tables
    <3>1. {} \in SUBSET Ids /\ [i \in {} |-> None] \in [{} -> Row \cup {None}]
      OBVIOUS
    <3> QED BY <3>1, TablesOf
  <2> QED BY <2>1, <2>2 DEF Rest
<1>2. DOMAIN Rest.prior = {} /\ DOMAIN Rest.new = {}
  BY DEF Rest
<1> QED BY <1>1, <1>2 DEF Rest, Held, Sound

(* A writer takes hold of something sound. *)
LEMMA HoldInv ==
    ASSUME CatalogInv, NEW w \in Writers, NEW held \in Held, Sound(held),
           writer' = [writer EXCEPT ![w] = held]
    PROVE  writer' \in [Writers -> Held] /\ WritersInv'
  BY DEF CatalogInv, CatalogTypeOK, WritersInv

LEMMA MergeInv ==
    ASSUME CatalogInv, NEW w \in Writers, PrepareMerge(w)
    PROVE  writer' \in [Writers -> Held] /\ WritersInv'
<1>1. PICK ids \in SUBSET Ids : \E date \in [ids -> Stamps], text \in [ids -> BOOLEAN] :
        LET staged == [i \in ids |-> [agency |-> AgencyOf[i][date[i]], date |-> date[i],
                                      text |-> text[i]]] IN
        Prepare(w, None, Winners(staged), [i \in Winners(staged) |-> staged[i]])
  BY DEF PrepareMerge
<1>2. PICK date \in [ids -> Stamps], text \in [ids -> BOOLEAN] :
        LET staged == [i \in ids |-> [agency |-> AgencyOf[i][date[i]], date |-> date[i],
                                      text |-> text[i]]] IN
        Prepare(w, None, Winners(staged), [i \in Winners(staged) |-> staged[i]])
  BY <1>1
<1> DEFINE staged == [i \in ids |-> [agency |-> AgencyOf[i][date[i]], date |-> date[i], text |-> text[i]]]
           won == Winners(staged)
           prior == [i \in won |-> Seen(i, None)]
           new == [i \in won |-> staged[i]]
           held == [at |-> "prepared", scope |-> None, prior |-> prior, new |-> new]
<1>3. writer' = [writer EXCEPT ![w] = held]
  BY <1>2 DEF Prepare
<1>4. \A i \in ids : staged[i] \in Row /\ staged[i].date \in Nat
  BY CatalogAssumption, StampsType DEF Row, CatalogAssumption
<1>5. /\ won \in SUBSET Ids
      /\ \A i \in won : /\ i \in ids
                        /\ rows[i] = None \/ rows[i].date = NoDate \/ staged[i].date > rows[i].date
  BY DEF Winners
<1> HIDE DEF staged, won
<1>6. \A i \in won : Seen(i, None) = rows[i] /\ Seen(i, None) \in Row \cup {None}
  BY <1>5, SeenType DEF CatalogInv
<1>7. prior \in Tables /\ new \in Tables
  <2>1. prior \in [won -> Row \cup {None}] /\ new \in [won -> Row \cup {None}]
    BY <1>4, <1>5, <1>6
  <2> QED BY <2>1, <1>5, TablesOf
<1>8. \A i \in won : /\ Advances(new[i], prior[i])
                     /\ prior[i] # None => prior[i].date = NoDate \/ new[i].date > prior[i].date
                     /\ new[i].agency = AgencyOf[i][new[i].date]
  <2>1. \A i \in won : /\ Advances(new[i], prior[i])
                       /\ prior[i] # None => prior[i].date = NoDate \/ new[i].date > prior[i].date
    BY <1>4, <1>5, <1>6 DEF Advances
  <2>2. \A i \in ids : staged[i].agency = AgencyOf[i][staged[i].date]
    BY DEF staged
  <2> QED BY <1>5, <2>1, <2>2
<1>9. held \in Held
  BY <1>7 DEF Held
<1>10. Sound(held)
  BY <1>8 DEF Sound
<1> HIDE DEF held
<1> QED BY <1>3, <1>9, <1>10, HoldInv

LEMMA FillInv ==
    ASSUME CatalogInv, NEW w \in Writers, PrepareFill(w)
    PROVE  writer' \in [Writers -> Held] /\ WritersInv'
<1>1. PICK a \in Agencies : \E ids \in SUBSET {i \in Ids : Seen(i, a) # None} :
        Prepare(w, a, ids, [i \in ids |-> [rows[i] EXCEPT !.text = TRUE]])
  BY DEF PrepareFill
<1>2. PICK ids \in SUBSET {i \in Ids : Seen(i, a) # None} :
        Prepare(w, a, ids, [i \in ids |-> [rows[i] EXCEPT !.text = TRUE]])
  BY <1>1
<1> DEFINE prior == [i \in ids |-> Seen(i, a)]
           new == [i \in ids |-> [rows[i] EXCEPT !.text = TRUE]]
           held == [at |-> "prepared", scope |-> a, prior |-> prior, new |-> new]
<1>3. writer' = [writer EXCEPT ![w] = held]
  BY <1>2 DEF Prepare
<1>4. ids \in SUBSET Ids /\ \A i \in ids : Seen(i, a) = rows[i] /\ rows[i] # None
  BY SeenType DEF CatalogInv
<1>5. \A i \in ids : /\ rows[i] \in Row
                     /\ [rows[i] EXCEPT !.text = TRUE] \in Row
                     /\ Advances([rows[i] EXCEPT !.text = TRUE], rows[i])
  <2> SUFFICES ASSUME NEW i \in ids
               PROVE  /\ rows[i] \in Row
                      /\ [rows[i] EXCEPT !.text = TRUE] \in Row
                      /\ Advances([rows[i] EXCEPT !.text = TRUE], rows[i])
    OBVIOUS
  <2>1. rows[i] \in Row
    BY <1>4, RowsOf DEF CatalogInv
  <2>2. /\ [rows[i] EXCEPT !.text = TRUE] \in Row
        /\ [rows[i] EXCEPT !.text = TRUE].date = rows[i].date
        /\ [rows[i] EXCEPT !.text = TRUE].text = TRUE
    BY <2>1 DEF Row
  <2> QED BY <2>1, <2>2 DEF Advances
<1>6. prior \in Tables /\ new \in Tables
  <2>1. prior \in [ids -> Row \cup {None}] /\ new \in [ids -> Row \cup {None}]
    BY <1>4, <1>5
  <2> QED BY <2>1, <1>4, TablesOf
<1>7. \A i \in ids : /\ Advances(new[i], prior[i]) /\ prior[i] # None
                     /\ prior[i].agency = a
                     /\ new[i] = [prior[i] EXCEPT !.text = TRUE]
  <2>1. a # None
    BY CatalogAssumption DEF CatalogAssumption
  <2>2. \A i \in ids : rows[i].agency = a
    BY <1>4, <2>1 DEF Seen
  <2> QED BY <1>4, <1>5, <2>2
<1>8. held \in Held
  BY <1>6 DEF Held
<1>9. Sound(held)
  <2>1. held.scope # None
    BY CatalogAssumption DEF CatalogAssumption
  <2> QED BY <1>7, <2>1 DEF Sound
<1> HIDE DEF held
<1> QED BY <1>3, <1>8, <1>9, HoldInv

(* What a commit makes of each row: it stays, or advances. *)
LEMMA ReplaceRows ==
    ASSUME CatalogInv, NEW w \in Writers, Replace(w), NEW i \in Ids
    PROVE  /\ rows'[i] \in Row \cup {None}
           /\ rows'[i] = rows[i] \/ Advances(rows'[i], rows[i])
<1>1. rows'[i] = IF i \in DOMAIN writer[w].new THEN writer[w].new[i] ELSE rows[i]
  BY DEF Replace
<1>2. CASE i \in DOMAIN writer[w].new
  <2> DEFINE scope == writer[w].scope
             prior == writer[w].prior[i]
             new == writer[w].new[i]
  <2>1. Advances(new, prior) /\ (scope # None => prior # None)
    BY <1>2 DEF CatalogInv, WritersInv, Sound
  <2>2. Seen(i, scope) = prior
    BY <1>2 DEF Replace, PriorStands, CatalogInv, WritersInv, Sound
  <2>3. Seen(i, scope) = rows[i] \/ (Seen(i, scope) = None /\ scope # None)
    BY SeenType DEF CatalogInv
  <2>4. Advances(new, rows[i])
    BY <2>1, <2>2, <2>3
  <2> QED BY <1>1, <1>2, <2>4 DEF Advances
<1>3. CASE i \notin DOMAIN writer[w].new
  BY <1>1, <1>3 DEF CatalogInv, CatalogTypeOK
<1> QED BY <1>2, <1>3

LEMMA CatalogStep ==
    ASSUME CatalogInv, CatalogNext
    PROVE  /\ CatalogInv'
           /\ version' >= version
           /\ changed' <= version => rows' = rows /\ changed' = changed
           /\ version' = version => rows' = rows
           /\ \A i \in Ids : rows'[i] = rows[i] \/ Advances(rows'[i], rows[i])
<1>0. version \in 0..MaxVersion /\ MaxVersion \in Nat /\ changed \in 0..version
  BY CatalogAssumption DEF CatalogInv, CatalogTypeOK, CatalogAssumption
<1>1. ASSUME NEW w \in Writers, PrepareMerge(w) \/ PrepareFill(w)
      PROVE  CatalogInv' /\ UNCHANGED <<rows, version, changed>>
  <2>1. UNCHANGED <<rows, version, changed>>
    BY <1>1 DEF PrepareMerge, PrepareFill
  <2> QED BY <1>1, <2>1, MergeInv, FillInv DEF CatalogInv, CatalogTypeOK
<1>2. ASSUME NEW w \in Writers, Replace(w)
      PROVE  /\ CatalogInv'
             /\ version' = version + 1 /\ changed' = version + 1
             /\ \A i \in Ids : rows'[i] = rows[i] \/ Advances(rows'[i], rows[i])
  <2>1. writer' \in [Writers -> Held] /\ WritersInv'
    BY <1>2, RestHeld, HoldInv DEF Replace
  <2>2. /\ version' \in 0..MaxVersion /\ changed' \in 0..version'
        /\ version' = version + 1 /\ changed' = version + 1
    BY <1>0, <1>2 DEF Replace
  <2>3. rows' \in [Ids -> Row \cup {None}]
    <3>1. rows' = [i \in Ids |-> IF i \in DOMAIN writer[w].new THEN writer[w].new[i] ELSE rows[i]]
      BY <1>2 DEF Replace
    <3>2. \A i \in Ids : rows'[i] \in Row \cup {None}
      BY <1>2, ReplaceRows
    <3> QED BY <3>1, <3>2
  <2> QED BY <1>2, <2>1, <2>2, <2>3, ReplaceRows DEF CatalogInv, CatalogTypeOK
<1>3. ASSUME NEW w \in Writers, GiveUpWrite(w)
      PROVE  CatalogInv' /\ UNCHANGED <<rows, version, changed>>
  <2>1. writer' \in [Writers -> Held] /\ WritersInv'
    BY <1>3, RestHeld, HoldInv DEF GiveUpWrite
  <2> QED BY <1>3, <2>1 DEF GiveUpWrite, CatalogInv, CatalogTypeOK
<1>4. ASSUME Compact
      PROVE  CatalogInv' /\ version' = version + 1 /\ UNCHANGED <<rows, changed>>
  <2>1. version' \in 0..MaxVersion /\ version' = version + 1 /\ changed' \in 0..version'
    BY <1>0, <1>4 DEF Compact
  <2> QED BY <1>4, <2>1 DEF Compact, CatalogInv, CatalogTypeOK, WritersInv
<1> QED BY <1>0, <1>1, <1>2, <1>3, <1>4 DEF CatalogNext

-----------------------------------------------------------------------------
(* The mirror. *)

LEMMA SliceType ==
    ASSUME NEW table \in Table, NEW a \in Agencies
    PROVE  Slice(table, a) \in Table
  BY DEF Slice, Table

LEMMA IndexType ==
    ASSUME NEW table \in Table
    PROVE  IndexOf(table) \in [Ids -> Agencies \cup {None}] /\ Present(table) \subseteq Agencies
<1>1. \A i \in Ids : table[i] # None => table[i].agency \in Agencies
  BY DEF Table, Row
<1> QED BY <1>1 DEF IndexOf, Present

LEMMA NoRunType == NoRun \in MirrorRun /\ NoRun.at = "idle" /\ NoRun.left \subseteq NoRun.files
  BY CatalogAssumption DEF NoRun, MirrorRun, Stages, CatalogAssumption

LEMMA InitInv == Init => BaseInv
<1> SUFFICES ASSUME Init PROVE BaseInv
  OBVIOUS
<1>1. CatalogInv
  <2>1. rows \in [Ids -> Row \cup {None}] /\ version \in 0..MaxVersion /\ changed \in 0..version
    BY CatalogAssumption DEF Init, CatalogInit, CatalogAssumption
  <2>2. writer = [w \in Writers |-> Rest]
    BY DEF Init, CatalogInit
  <2> QED BY <2>1, <2>2, RestHeld DEF CatalogInv, CatalogTypeOK, WritersInv
<1>2. public \in Public
  <2>1. rows \in Table
    BY <1>1 DEF CatalogInv, CatalogTypeOK, Table
  <2> QED BY <2>1, IndexType DEF Init, Public
<1>3. generation \in 0..MaxVersion /\ receipt = None /\ mirror = NoRun /\ deaths \in 0..MaxDeaths
  BY CatalogAssumption, MirrorAssumption DEF Init, CatalogAssumption, MirrorAssumption
<1> QED BY <1>1, <1>2, <1>3, NoRunType DEF BaseInv, TypeOK, CatalogInv, Exported, Replaced

(* The catalog moves under the mirror: a snapshot once passed stays past. *)
LEMMA CatalogKeepsInv == BaseInv /\ CatalogNext /\ UNCHANGED mirrorVars => BaseInv'
<1> SUFFICES ASSUME BaseInv, CatalogNext, UNCHANGED mirrorVars PROVE BaseInv'
  OBVIOUS
<1>1. /\ CatalogInv'
      /\ version' >= version
      /\ changed' <= version => rows' = rows /\ changed' = changed
      /\ version' = version => rows' = rows
  BY CatalogStep DEF BaseInv, TypeOK, CatalogInv
<1>2. /\ version \in Nat /\ version' \in Nat /\ changed' \in Nat
      /\ mirror.snap \in Nat
      /\ receipt # None => receipt.snap \in Nat
  BY <1>1, CatalogAssumption
     DEF BaseInv, TypeOK, CatalogInv, CatalogTypeOK, MirrorRun, Receipt, CatalogAssumption
<1>3. UNCHANGED <<public, generation, receipt, mirror, deaths>>
  BY DEF mirrorVars
<1>4. TypeOK'
  BY <1>1, <1>2, <1>3 DEF BaseInv, TypeOK, CatalogInv
<1>5. Exported' /\ Replaced'
  <2>1. mirror.at # "idle" => mirror.snap <= version
    BY DEF BaseInv, TypeOK
  <2>2. ASSUME mirror.at # "idle", changed' <= mirror.snap PROVE mirror.content = rows'
    BY <1>1, <1>2, <2>1, <2>2 DEF BaseInv, Exported
  <2> QED BY <1>3, <2>2 DEF BaseInv, Exported, Replaced
<1>6. receipt' # None => receipt'.snap <= version' /\ (receipt'.snap = version' => Describes(rows)')
  <2>1. CASE version' = version
    BY <1>1, <1>3, <2>1 DEF BaseInv, Describes
  <2>2. CASE version' > version
    BY <1>2, <1>3, <2>2 DEF BaseInv
  <2> QED BY <1>1, <1>2, <2>1, <2>2
<1> QED BY <1>1, <1>4, <1>5, <1>6 DEF BaseInv, CatalogInv

(* The parts a mirror step leaves alone. *)
LEMMA CatalogStays ==
    ASSUME BaseInv, UNCHANGED catalogVars
    PROVE  /\ CatalogTypeOK' /\ WritersInv'
           /\ rows' = rows /\ version' = version /\ changed' = changed
  BY DEF BaseInv, TypeOK, CatalogTypeOK, WritersInv, catalogVars

LEMMA ExportInv == BaseInv /\ Export /\ UNCHANGED catalogVars => BaseInv'
<1> SUFFICES ASSUME BaseInv, Export, UNCHANGED catalogVars PROVE BaseInv'
  OBVIOUS
<1>1. PICK force \in Forces :
        mirror' = [at |-> "exported", snap |-> version, content |-> rows, pred |-> public.monolith,
                   files |-> Present(rows) \cup Retained(force),
                   left |-> Present(rows) \cup Retained(force)]
  BY DEF Export
<1> DEFINE files == Present(rows) \cup Retained(force)
<1>2. rows \in Table /\ version \in 0..MaxVersion /\ public.monolith \in Table
  BY DEF BaseInv, TypeOK, CatalogTypeOK, Table, Public
<1>3. files \subseteq Agencies /\ Present(rows) \subseteq files
  <2>1. Retained(force) \subseteq Agencies
    <3>1. receipt # None => receipt.listed \subseteq Agencies
      BY DEF BaseInv, TypeOK, Receipt
    <3> QED BY <1>2, <3>1, IndexType DEF Retained, Listed
  <2> QED BY <1>2, <2>1, IndexType
<1> HIDE DEF files
<1>4. mirror' = [at |-> "exported", snap |-> version, content |-> rows, pred |-> public.monolith,
                 files |-> files, left |-> files]
  BY <1>1 DEF files
<1>5. mirror' \in MirrorRun
  BY <1>2, <1>3, <1>4 DEF MirrorRun, Stages
<1>6. /\ mirror'.at = "exported" /\ mirror'.snap = version /\ mirror'.content = rows
      /\ mirror'.files = files /\ mirror'.left = files
  BY <1>4
<1>7. UNCHANGED <<public, generation, receipt, deaths>>
  BY DEF Export
<1>8. version \in Nat
  BY <1>2, CatalogAssumption DEF CatalogAssumption
<1>9. TypeOK'
  BY <1>3, <1>5, <1>6, <1>7, <1>8, CatalogStays DEF BaseInv, TypeOK
<1>10. Exported' /\ Replaced'
  BY <1>2, <1>6, CatalogStays DEF Exported, Replaced
<1> QED BY <1>7, <1>9, <1>10, CatalogStays DEF BaseInv, Describes

(* A run's step that leaves the snapshot, the export and the files alone. *)
LEMMA AdvanceInv ==
    ASSUME BaseInv, mirror.at # "idle", UNCHANGED catalogVars, receipt' = receipt, deaths' = deaths,
           mirror' \in MirrorRun, mirror'.left \subseteq mirror'.files, Replaced',
           mirror'.snap = mirror.snap, mirror'.content = mirror.content, mirror'.files = mirror.files,
           public' \in Public, generation' \in 0..MaxVersion
    PROVE  BaseInv'
<1>1. TypeOK'
  BY CatalogStays DEF BaseInv, TypeOK
<1>2. Exported'
  BY CatalogStays DEF BaseInv, Exported
<1> QED BY <1>1, <1>2, CatalogStays DEF BaseInv, Describes

LEMMA RecheckInv == BaseInv /\ Recheck /\ UNCHANGED catalogVars => BaseInv'
<1> SUFFICES ASSUME BaseInv, Recheck, UNCHANGED catalogVars PROVE BaseInv'
  OBVIOUS
<1>1. /\ mirror.at = "exported" /\ mirror' = [mirror EXCEPT !.at = "checked"]
      /\ UNCHANGED <<public, generation, receipt, deaths>>
      /\ mirror \in MirrorRun
  BY DEF Recheck, BaseInv, TypeOK
<1>2. /\ mirror' \in MirrorRun /\ mirror'.at = "checked" /\ mirror'.snap = mirror.snap
      /\ mirror'.content = mirror.content /\ mirror'.files = mirror.files /\ mirror'.left = mirror.left
  BY <1>1 DEF MirrorRun, Stages
<1>3. Replaced'
  BY <1>1, <1>2 DEF BaseInv, Replaced
<1> QED BY <1>1, <1>2, <1>3, AdvanceInv DEF BaseInv, TypeOK

LEMMA MonolithInv == BaseInv /\ UploadMonolith /\ UNCHANGED catalogVars => BaseInv'
<1> SUFFICES ASSUME BaseInv, UploadMonolith, UNCHANGED catalogVars PROVE BaseInv'
  OBVIOUS
<1>1. /\ mirror.at = "checked"
      /\ public' = [public EXCEPT !.monolith = mirror.content]
      /\ mirror' = [mirror EXCEPT !.at = "uploading"]
      /\ UNCHANGED <<generation, receipt, deaths>>
      /\ mirror.content \in Table /\ mirror \in MirrorRun /\ public \in Public
  BY DEF UploadMonolith, BaseInv, TypeOK, Exported
<1>2. /\ public' \in Public /\ public'.monolith = mirror.content /\ public'.files = public.files
  BY <1>1 DEF Public
<1>3. /\ mirror' \in MirrorRun /\ mirror'.at = "uploading" /\ mirror'.snap = mirror.snap
      /\ mirror'.content = mirror.content /\ mirror'.files = mirror.files /\ mirror'.left = mirror.left
  BY <1>1 DEF MirrorRun, Stages
<1>4. mirror.left = mirror.files
  BY <1>1 DEF BaseInv, Replaced
<1>5. Replaced'
  BY <1>2, <1>3, <1>4 DEF Replaced
<1> QED BY <1>1, <1>2, <1>3, <1>5, AdvanceInv DEF BaseInv, TypeOK

LEMMA AgencyInv == BaseInv /\ UploadAgency /\ UNCHANGED catalogVars => BaseInv'
<1> SUFFICES ASSUME BaseInv, UploadAgency, UNCHANGED catalogVars PROVE BaseInv'
  OBVIOUS
<1>1. PICK a \in mirror.left :
        /\ public' = [public EXCEPT !.files[a] = Slice(mirror.content, a)]
        /\ mirror' = [mirror EXCEPT !.left = @ \ {a}]
  BY DEF UploadAgency
<1>2. /\ mirror.at = "uploading"
      /\ UNCHANGED <<generation, receipt, deaths>>
      /\ mirror.content \in Table /\ mirror \in MirrorRun /\ public \in Public
      /\ mirror.left \subseteq mirror.files /\ a \in Agencies
  BY DEF UploadAgency, BaseInv, TypeOK, Exported, MirrorRun
<1>3. /\ public' \in Public /\ public'.monolith = public.monolith
      /\ public'.files = [public.files EXCEPT ![a] = Slice(mirror.content, a)]
  BY <1>1, <1>2, SliceType DEF Public
<1>4. /\ mirror' \in MirrorRun /\ mirror'.at = "uploading" /\ mirror'.snap = mirror.snap
      /\ mirror'.content = mirror.content /\ mirror'.files = mirror.files
      /\ mirror'.left = mirror.left \ {a}
  BY <1>1, <1>2 DEF MirrorRun
<1>5. Replaced'
  <2>1. \A b \in mirror.files \ (mirror.left \ {a}) : public'.files[b] = Slice(mirror.content, b)
    <3>1. public.files \in [Agencies -> Table \cup {None}] /\ mirror.files \subseteq Agencies
      BY <1>2 DEF Public, MirrorRun
    <3> QED BY <1>2, <1>3, <3>1 DEF BaseInv, Replaced
  <2> QED BY <1>2, <1>3, <1>4, <2>1 DEF BaseInv, Replaced
<1> QED BY <1>2, <1>3, <1>4, <1>5, AdvanceInv DEF BaseInv, TypeOK

LEMMA IndexInv == BaseInv /\ UploadIndex /\ UNCHANGED catalogVars => BaseInv'
<1> SUFFICES ASSUME BaseInv, UploadIndex, UNCHANGED catalogVars PROVE BaseInv'
  OBVIOUS
<1>1. /\ mirror.at = "uploading" /\ mirror.left = {}
      /\ public' = [public EXCEPT !.index = IndexOf(mirror.content)]
      /\ mirror' = [mirror EXCEPT !.at = "uploaded"]
      /\ UNCHANGED <<generation, receipt, deaths>>
      /\ mirror.content \in Table /\ mirror \in MirrorRun /\ public \in Public
  BY DEF UploadIndex, BaseInv, TypeOK, Exported
<1>2. /\ public' \in Public /\ public'.monolith = public.monolith
      /\ public'.files = public.files /\ public'.index = IndexOf(mirror.content)
  BY <1>1, IndexType DEF Public
<1>3. /\ mirror' \in MirrorRun /\ mirror'.at = "uploaded" /\ mirror'.snap = mirror.snap
      /\ mirror'.content = mirror.content /\ mirror'.files = mirror.files /\ mirror'.left = {}
  BY <1>1 DEF MirrorRun, Stages
<1>4. Replaced'
  BY <1>1, <1>2, <1>3 DEF BaseInv, Replaced
<1> QED BY <1>1, <1>2, <1>3, <1>4, AdvanceInv DEF BaseInv, TypeOK

LEMMA GenerationInv == BaseInv /\ PublishGeneration /\ UNCHANGED catalogVars => BaseInv'
<1> SUFFICES ASSUME BaseInv, PublishGeneration, UNCHANGED catalogVars PROVE BaseInv'
  OBVIOUS
<1>1. /\ mirror.at = "uploaded" /\ generation' = mirror.snap
      /\ mirror' = [mirror EXCEPT !.at = "published"]
      /\ UNCHANGED <<public, receipt, deaths>>
      /\ mirror \in MirrorRun /\ public \in Public
  BY DEF PublishGeneration, BaseInv, TypeOK
<1>2. /\ mirror' \in MirrorRun /\ mirror'.at = "published" /\ mirror'.snap = mirror.snap
      /\ mirror'.content = mirror.content /\ mirror'.files = mirror.files /\ mirror'.left = mirror.left
      /\ generation' \in 0..MaxVersion
  BY <1>1 DEF MirrorRun, Stages
<1>3. Replaced'
  BY <1>1, <1>2 DEF BaseInv, Replaced
<1> QED BY <1>1, <1>2, <1>3, AdvanceInv DEF BaseInv, TypeOK

LEMMA ReceiptInv == BaseInv /\ WriteReceipt /\ UNCHANGED catalogVars => BaseInv'
<1> SUFFICES ASSUME BaseInv, WriteReceipt, UNCHANGED catalogVars PROVE BaseInv'
  OBVIOUS
<1>1. /\ mirror.at = "published" /\ mirror' = NoRun
      /\ receipt' = [snap |-> mirror.snap, public |-> public, listed |-> mirror.files]
      /\ UNCHANGED <<public, generation, deaths>>
      /\ mirror \in MirrorRun /\ public \in Public /\ mirror.snap <= version
      /\ Present(mirror.content) \subseteq mirror.files
  BY DEF WriteReceipt, BaseInv, TypeOK
<1>2. receipt' \in Receipt /\ receipt'.snap = mirror.snap
  BY <1>1 DEF Receipt, MirrorRun
<1>3. TypeOK'
  BY <1>1, <1>2, NoRunType, CatalogStays DEF BaseInv, TypeOK
<1>4. mirror.snap = version => Describes(rows)'
  <2>1. mirror.snap = version => mirror.content = rows
    BY <1>1, CatalogAssumption
       DEF BaseInv, TypeOK, CatalogTypeOK, Exported, CatalogAssumption
  <2>2. /\ public.monolith = mirror.content /\ public.index = IndexOf(mirror.content)
        /\ \A a \in mirror.files : public.files[a] = Slice(mirror.content, a)
    BY <1>1 DEF BaseInv, Replaced
  <2> QED BY <1>1, <2>1, <2>2, CatalogStays DEF Describes
<1>5. Exported' /\ Replaced'
  BY <1>1, NoRunType DEF Exported, Replaced
<1> QED BY <1>1, <1>2, <1>3, <1>4, <1>5, CatalogStays DEF BaseInv

LEMMA EndInv == BaseInv /\ (Refuse \/ Die) /\ UNCHANGED catalogVars => BaseInv'
<1> SUFFICES ASSUME BaseInv, Refuse \/ Die, UNCHANGED catalogVars PROVE BaseInv'
  OBVIOUS
<1>1. /\ mirror' = NoRun /\ UNCHANGED <<public, generation, receipt>>
      /\ deaths' \in 0..MaxDeaths
  BY MirrorAssumption DEF Refuse, Die, BaseInv, TypeOK, MirrorAssumption
<1>2. TypeOK'
  BY <1>1, NoRunType, CatalogStays DEF BaseInv, TypeOK
<1>3. Exported' /\ Replaced'
  BY <1>1, NoRunType DEF Exported, Replaced
<1> QED BY <1>1, <1>2, <1>3, CatalogStays DEF BaseInv, Describes

LEMMA StepInv == BaseInv /\ [Next]_vars => BaseInv'
<1> SUFFICES ASSUME BaseInv, [Next]_vars PROVE BaseInv'
  OBVIOUS
<1>1. CASE UNCHANGED vars
  <2>1. UNCHANGED catalogVars /\ UNCHANGED <<public, generation, receipt, mirror, deaths>>
    BY <1>1 DEF vars, catalogVars
  <2>2. TypeOK' /\ Exported' /\ Replaced'
    BY <2>1, CatalogStays DEF BaseInv, TypeOK, Exported, Replaced
  <2> QED BY <2>1, <2>2, CatalogStays DEF BaseInv, Describes
<1> QED BY <1>1, CatalogKeepsInv, ExportInv, MonolithInv, AgencyInv, IndexInv, GenerationInv,
           RecheckInv, ReceiptInv, EndInv DEF Next, MirrorStep

-----------------------------------------------------------------------------
(* The agencies whose files have rows. *)

FewInv == FewFaults => Tracked
NewsInv == Unforced => StartsOnNews

(* An agency without a row in a table has an empty slice of it, and one    *)
(* with a slice has a row.                                                 *)
LEMMA SliceEmpty ==
    ASSUME NEW table \in Table, NEW a \in Agencies, a \notin Present(table)
    PROVE  Slice(table, a) = [i \in Ids |-> None]
  BY DEF Slice, Present

(* What the base invariant says of the public files, listed and run. *)
LEMMA MirrorTypes ==
    ASSUME BaseInv
    PROVE  /\ rows \in Table
           /\ public.monolith \in Table /\ public.files \in [Agencies -> Table \cup {None}]
           /\ Present(public.monolith) \subseteq Agencies
           /\ Listed \subseteq Agencies
           /\ mirror.files \subseteq Agencies /\ mirror.left \subseteq mirror.files
           /\ mirror.snap \in Nat /\ version \in Nat
           /\ receipt # None => receipt.snap \in Nat
           /\ deaths \in Nat
<1>1. MaxVersion \in Nat /\ MaxDeaths \in Nat
  BY CatalogAssumption, MirrorAssumption DEF CatalogAssumption, MirrorAssumption
<1>2. rows \in Table /\ version \in Nat
  BY <1>1 DEF BaseInv, TypeOK, CatalogTypeOK, Table
<1>3. public.monolith \in Table /\ public.files \in [Agencies -> Table \cup {None}]
  BY DEF BaseInv, TypeOK, Public
<1>4. mirror.files \subseteq Agencies /\ mirror.left \subseteq mirror.files /\ mirror.snap \in Nat
  BY <1>1 DEF BaseInv, TypeOK, MirrorRun
<1>5. Listed \subseteq Agencies /\ (receipt # None => receipt.snap \in Nat)
  BY <1>1 DEF BaseInv, TypeOK, Receipt, Listed
<1>6. deaths \in Nat
  BY <1>1 DEF BaseInv, TypeOK
<1> QED BY <1>2, <1>3, <1>4, <1>5, <1>6, IndexType

LEMMA InitFew == Init => FewInv /\ NewsInv
<1> SUFFICES ASSUME Init PROVE FewInv /\ NewsInv
  OBVIOUS
<1>1. receipt = None /\ mirror.at = "idle" /\ public.monolith = [i \in Ids |-> None]
      /\ public.files = [a \in Agencies |-> None]
  BY NoRunType DEF Init, CatalogInit
<1>2. Present(public.monolith) = {}
  BY <1>1 DEF Present
<1>3. Filled = {}
  BY <1>1 DEF Filled
<1> QED BY <1>1, <1>2, <1>3 DEF FewInv, NewsInv, Tracked, StartsOnNews

(* The catalog's steps move no file; a newer snapshot is one the receipt   *)
(* does not name.                                                          *)
LEMMA CatalogKeepsFew ==
    ASSUME BaseInv, FewInv, NewsInv, CatalogNext, UNCHANGED mirrorVars
    PROVE  FewInv' /\ NewsInv'
<1>1. UNCHANGED <<public, generation, receipt, mirror, deaths>>
  BY DEF mirrorVars
<1>2. version' >= version /\ version' \in Nat
  <2>1. CatalogInv' /\ version' >= version
    BY CatalogStep DEF BaseInv, TypeOK, CatalogInv
  <2> QED BY <2>1, CatalogAssumption DEF CatalogInv, CatalogTypeOK, CatalogAssumption
<1>3. FewInv'
  BY <1>1 DEF FewInv, FewFaults, Tracked, Before, Filled, Listed
<1>4. NewsInv'
  <2> SUFFICES ASSUME Unforced, receipt # None
               PROVE  IF mirror.at = "idle" THEN receipt.snap = version' => Matches'
                      ELSE receipt.snap < mirror.snap
    BY <1>1 DEF NewsInv, StartsOnNews
  <2>1. receipt.snap <= version /\ receipt.snap \in Nat /\ version \in Nat
    BY MirrorTypes DEF BaseInv
  <2>2. ASSUME mirror.at = "idle", receipt.snap = version' PROVE Matches'
    <3>1. version' = version
      BY <1>2, <2>1, <2>2
    <3> QED BY <1>1, <2>2, <3>1 DEF NewsInv, StartsOnNews, Matches
  <2>3. mirror.at # "idle" => receipt.snap < mirror.snap
    BY DEF NewsInv, StartsOnNews
  <2> QED BY <2>2, <2>3
<1> QED BY <1>3, <1>4

LEMMA ExportFew ==
    ASSUME BaseInv, FewInv, NewsInv, Export, UNCHANGED catalogVars
    PROVE  FewInv' /\ NewsInv'
<1>1. PICK force \in Forces :
        /\ force \/ ~Matches
        /\ mirror' = [at |-> "exported", snap |-> version, content |-> rows, pred |-> public.monolith,
                      files |-> Present(rows) \cup Retained(force),
                      left |-> Present(rows) \cup Retained(force)]
  BY DEF Export
<1>2. /\ mirror.at = "idle" /\ mirror'.at = "exported" /\ mirror'.snap = version
      /\ mirror'.content = rows /\ mirror'.files = Present(rows) \cup Retained(force)
  BY <1>1 DEF Export
<1>3. UNCHANGED <<public, generation, receipt, deaths, rows, version>>
  BY CatalogStays DEF Export
<1>4. FewInv'
  <2> SUFFICES ASSUME FewFaults, Tracked PROVE Tracked'
    BY <1>3 DEF FewInv, FewFaults
  <2>1. Filled' = Filled /\ Listed' = Listed
    BY <1>3 DEF Filled, Listed
  <2>2. deaths # 0 => ~force
    <3>1. ASSUME Unforced PROVE ~force
      BY <3>1, <1>1, MirrorAssumption DEF MirrorAssumption, Unforced
    <3> QED BY <3>1 DEF FewFaults
  <2>3. Filled \subseteq mirror'.files
    BY <1>2, <2>2 DEF Tracked, Before, Retained
  <2>4. deaths = 0 => mirror'.files \subseteq Present(rows) \cup Listed
    BY <1>2 DEF Tracked, Before, Retained
  <2> QED BY <1>2, <1>3, <2>1, <2>3, <2>4 DEF Tracked, Before
<1>5. NewsInv'
  <2> SUFFICES ASSUME Unforced, receipt # None PROVE receipt.snap < version
    BY <1>2, <1>3 DEF NewsInv, StartsOnNews
  <2>1. ~Matches
    BY <1>1, MirrorAssumption DEF MirrorAssumption, Unforced
  <2>2. receipt.snap # version
    BY <1>2, <2>1 DEF NewsInv, StartsOnNews
  <2> QED BY <2>2, MirrorTypes DEF BaseInv
<1> QED BY <1>4, <1>5

(* A run's steps up to the receipt: the snapshot, the export, the receipt  *)
(* and the deaths stay.                                                    *)
LEMMA NewsStays ==
    ASSUME NewsInv, mirror.at # "idle", mirror'.at # "idle", mirror'.snap = mirror.snap,
           receipt' = receipt
    PROVE  NewsInv'
  BY DEF NewsInv, StartsOnNews

LEMMA RecheckFew ==
    ASSUME BaseInv, FewInv, NewsInv, Recheck, UNCHANGED catalogVars
    PROVE  FewInv' /\ NewsInv'
<1>1. /\ mirror.at = "exported" /\ mirror \in MirrorRun
      /\ mirror' = [mirror EXCEPT !.at = "checked"]
      /\ UNCHANGED <<public, generation, receipt, deaths>>
  BY DEF Recheck, BaseInv, TypeOK
<1>2. /\ mirror'.at = "checked" /\ mirror'.snap = mirror.snap
      /\ mirror'.content = mirror.content /\ mirror'.files = mirror.files
  BY <1>1 DEF MirrorRun
<1>3. FewInv'
  BY <1>1, <1>2 DEF FewInv, FewFaults, Tracked, Before, Filled, Listed
<1> QED BY <1>1, <1>2, <1>3, NewsStays

LEMMA MonolithFew ==
    ASSUME BaseInv, FewInv, NewsInv, UploadMonolith, UNCHANGED catalogVars
    PROVE  FewInv' /\ NewsInv'
<1>1. /\ mirror.at = "checked" /\ mirror \in MirrorRun /\ public \in Public
      /\ public' = [public EXCEPT !.monolith = mirror.content]
      /\ mirror' = [mirror EXCEPT !.at = "uploading"]
      /\ UNCHANGED <<generation, receipt, deaths>>
  BY DEF UploadMonolith, BaseInv, TypeOK
<1>2. /\ public'.files = public.files /\ mirror'.at = "uploading" /\ mirror'.snap = mirror.snap
      /\ mirror'.content = mirror.content /\ mirror'.files = mirror.files
  BY <1>1 DEF Public, MirrorRun
<1>3. FewInv'
  BY <1>1, <1>2 DEF FewInv, FewFaults, Tracked, Before, Filled, Listed
<1> QED BY <1>1, <1>2, <1>3, NewsStays

LEMMA AgencyFew ==
    ASSUME BaseInv, FewInv, NewsInv, UploadAgency, UNCHANGED catalogVars
    PROVE  FewInv' /\ NewsInv'
<1>1. PICK a \in mirror.left :
        /\ public' = [public EXCEPT !.files[a] = Slice(mirror.content, a)]
        /\ mirror' = [mirror EXCEPT !.left = @ \ {a}]
  BY DEF UploadAgency
<1>2. /\ mirror.at = "uploading" /\ UNCHANGED <<generation, receipt, deaths>>
      /\ mirror \in MirrorRun /\ public \in Public /\ a \in mirror.files
  BY DEF UploadAgency, BaseInv, TypeOK
<1>3. /\ mirror'.at = "uploading" /\ mirror'.snap = mirror.snap
      /\ mirror'.content = mirror.content /\ mirror'.files = mirror.files
      /\ \A b \in Agencies \ {a} : public'.files[b] = public.files[b]
  BY <1>1, <1>2 DEF Public, MirrorRun
<1>4. Filled' \subseteq Filled \cup {a}
  BY <1>3 DEF Filled
<1>5. FewInv'
  BY <1>2, <1>3, <1>4 DEF FewInv, FewFaults, Tracked, Before, Listed
<1> QED BY <1>2, <1>3, <1>5, NewsStays

LEMMA IndexFew ==
    ASSUME BaseInv, FewInv, NewsInv, UploadIndex \/ PublishGeneration, UNCHANGED catalogVars
    PROVE  FewInv' /\ NewsInv'
<1>1. /\ mirror.at \in {"uploading", "uploaded"} /\ mirror \in MirrorRun /\ public \in Public
      /\ UNCHANGED <<receipt, deaths>>
      /\ public'.monolith = public.monolith /\ public'.files = public.files
  BY DEF UploadIndex, PublishGeneration, BaseInv, TypeOK, Public
<1>2. /\ mirror'.at \in {"uploaded", "published"} /\ mirror'.snap = mirror.snap
      /\ mirror'.content = mirror.content /\ mirror'.files = mirror.files
  BY <1>1 DEF UploadIndex, PublishGeneration, MirrorRun
<1>3. FewInv'
  BY <1>1, <1>2 DEF FewInv, FewFaults, Tracked, Before, Filled, Listed
<1> QED BY <1>1, <1>2, <1>3, NewsStays

(* A run that gets to its receipt has replaced every file that had rows.   *)
LEMMA ReceiptFew ==
    ASSUME BaseInv, FewInv, NewsInv, WriteReceipt, UNCHANGED catalogVars
    PROVE  FewInv' /\ NewsInv'
<1>1. /\ mirror.at = "published" /\ mirror' = NoRun /\ mirror'.at = "idle"
      /\ receipt' = [snap |-> mirror.snap, public |-> public, listed |-> mirror.files]
      /\ UNCHANGED <<public, generation, deaths, version>>
      /\ mirror.content \in Table /\ Present(mirror.content) \subseteq mirror.files
      /\ public.monolith = mirror.content /\ mirror.left = {}
      /\ \A a \in mirror.files : public.files[a] = Slice(mirror.content, a)
  BY CatalogStays, NoRunType DEF WriteReceipt, BaseInv, TypeOK, Exported, Replaced
<1>2. /\ receipt' \in Receipt /\ receipt' # None
      /\ receipt'.snap = mirror.snap /\ receipt'.public = public /\ receipt'.listed = mirror.files
  <2>1. receipt' \in Receipt
    BY <1>1 DEF BaseInv, TypeOK, Receipt, MirrorRun
  <2> QED BY <1>1, <2>1, NoneAssumption DEF NoneAssumption
<1>3. FewInv'
  <2> SUFFICES ASSUME FewFaults, Tracked PROVE Tracked'
    BY <1>1 DEF FewInv, FewFaults
  <2>1. Listed' = mirror.files
    BY <1>2 DEF Listed
  <2>2. Filled \subseteq Present(mirror.content)
    <3> SUFFICES ASSUME NEW a \in Filled, a \notin Present(mirror.content) PROVE FALSE
      OBVIOUS
    <3>1. a \in Agencies /\ a \in mirror.files /\ public.files[a] # [i \in Ids |-> None]
      BY <1>1 DEF Filled, Tracked
    <3> QED BY <1>1, <3>1, SliceEmpty
  <2>3. Filled' = Filled /\ Present(public.monolith)' = Present(mirror.content)
    BY <1>1 DEF Filled
  <2> QED BY <1>1, <2>1, <2>2, <2>3 DEF Tracked
<1>4. NewsInv'
  <2>1. generation = mirror.snap
    BY <1>1 DEF BaseInv, Replaced
  <2> QED BY <1>1, <1>2, <2>1 DEF NewsInv, StartsOnNews, Matches
<1> QED BY <1>3, <1>4

(* A run that dies leaves rows only where the monolith or the receipt      *)
(* shows them, if none died before it.                                     *)
LEMMA DieFew ==
    ASSUME BaseInv, FewInv, NewsInv, Die, UNCHANGED catalogVars
    PROVE  FewInv' /\ NewsInv'
<1>1. /\ mirror.at # "idle" /\ mirror.at \in Stages /\ mirror' = NoRun /\ mirror'.at = "idle"
      /\ deaths' = deaths + 1 /\ UNCHANGED <<public, generation, receipt, version>>
      /\ mirror.snap <= version
  BY CatalogStays, NoRunType DEF Die, BaseInv, TypeOK, MirrorRun
<1>2. FewInv'
  <2> SUFFICES ASSUME FewFaults' PROVE Tracked'
    BY DEF FewInv
  <2>1. deaths = 0 /\ deaths' = 1
    BY <1>1, MirrorTypes DEF FewFaults
  <2>2. Tracked
    BY <2>1 DEF FewInv, FewFaults
  <2>3. Filled \subseteq Present(public.monolith) \cup Listed
    <3>1. CASE mirror.at \in Before
      BY <2>2, <3>1 DEF Tracked
    <3>2. CASE mirror.at \notin Before
      <4>1. public.monolith = mirror.content
        BY <1>1, <3>2 DEF BaseInv, Replaced, Stages, Before
      <4> QED BY <1>1, <2>1, <2>2, <4>1 DEF Tracked
    <3> QED BY <3>1, <3>2
  <2>4. Filled' = Filled /\ Listed' = Listed
    BY <1>1 DEF Filled, Listed
  <2> QED BY <1>1, <2>1, <2>3, <2>4 DEF Tracked
<1>3. NewsInv'
  <2> SUFFICES ASSUME Unforced, receipt # None PROVE receipt.snap # version
    BY <1>1 DEF NewsInv, StartsOnNews
  <2>1. receipt.snap < mirror.snap
    BY <1>1 DEF NewsInv, StartsOnNews
  <2> QED BY <1>1, <2>1, MirrorTypes
<1> QED BY <1>2, <1>3

LEMMA RefuseFew ==
    ASSUME BaseInv, FewInv, NewsInv, Refuse, UNCHANGED catalogVars
    PROVE  FewInv' /\ NewsInv'
<1>1. /\ mirror.at = "exported" /\ mirror' = NoRun /\ mirror'.at = "idle"
      /\ UNCHANGED <<public, generation, receipt, deaths, version>>
      /\ mirror.snap <= version
  BY CatalogStays, NoRunType DEF Refuse, BaseInv, TypeOK
<1>2. FewInv'
  BY <1>1 DEF FewInv, FewFaults, Tracked, Before, Filled, Listed
<1>3. NewsInv'
  <2> SUFFICES ASSUME Unforced, receipt # None PROVE receipt.snap # version
    BY <1>1 DEF NewsInv, StartsOnNews
  <2>1. receipt.snap < mirror.snap
    BY <1>1 DEF NewsInv, StartsOnNews
  <2> QED BY <1>1, <2>1, MirrorTypes
<1> QED BY <1>2, <1>3

LEMMA StepFew == BaseInv /\ FewInv /\ NewsInv /\ [Next]_vars => FewInv' /\ NewsInv'
<1> SUFFICES ASSUME BaseInv, FewInv, NewsInv, [Next]_vars PROVE FewInv' /\ NewsInv'
  OBVIOUS
<1>1. CASE UNCHANGED vars
  BY <1>1 DEF vars, FewInv, NewsInv, FewFaults, Tracked, Before, Filled, Listed, StartsOnNews, Matches
<1> QED BY <1>1, CatalogKeepsFew, ExportFew, RecheckFew, MonolithFew, AgencyFew, IndexFew, ReceiptFew, DieFew,
           RefuseFew DEF Next, MirrorStep

(* The inductive invariant holds throughout. *)
THEOREM Invariance == Spec => []Inv
<1>1. Init => Inv
  BY InitInv, InitFew DEF Inv, FewInv, NewsInv
<1>2. Inv /\ [Next]_vars => Inv'
  BY StepInv, StepFew DEF Inv, FewInv, NewsInv
<1> QED BY <1>1, <1>2, PTL DEF Spec

(* While no run has died, or one has and none was forced, a receipt that   *)
(* matches leaves no agency file behind: every one has exactly its         *)
(* agency's rows (comments_mirror.py:204, 229).                            *)
LEMMA InvWhole ==
    ASSUME Inv, FewFaults, Matches
    PROVE  MirrorIsWhole
<1>1. BaseInv /\ Tracked /\ (Unforced => StartsOnNews)
  BY DEF Inv
<1>2. /\ receipt # None /\ receipt.snap = version /\ Describes(rows) /\ Listed = receipt.listed
      /\ public.monolith = rows /\ public.index = IndexOf(rows)
      /\ \A a \in Listed : public.files[a] = Slice(rows, a)
      /\ Present(rows) \subseteq Listed
  BY <1>1 DEF BaseInv, Matches, Describes, Listed
<1>3. Filled \subseteq Listed
  <2>1. CASE mirror.at \in Before
    BY <1>1, <1>2, <2>1 DEF Tracked
  <2>2. CASE mirror.at \notin Before /\ deaths = 0
    <3>1. public.monolith = mirror.content
      BY <1>1, <2>2 DEF BaseInv, TypeOK, MirrorRun, Stages, Before, Replaced
    <3> QED BY <1>1, <1>2, <2>2, <3>1 DEF Tracked, Before
  <2>3. CASE mirror.at \notin Before /\ deaths # 0
    <3>1. receipt.snap < mirror.snap /\ mirror.snap <= version
      BY <1>1, <1>2, <2>3 DEF FewFaults, StartsOnNews, Before, BaseInv, TypeOK
    <3> QED BY <1>1, <1>2, <3>1, MirrorTypes
  <2> QED BY <2>1, <2>2, <2>3
<1>4. ASSUME NEW a \in Agencies
      PROVE  IF public.files[a] = None THEN Slice(rows, a) = [i \in Ids |-> None]
             ELSE public.files[a] = Slice(rows, a)
  <2>1. CASE a \in Listed
    <3>1. public.files[a] = Slice(rows, a)
      BY <1>2, <2>1
    <3> QED BY <3>1, <1>1, MirrorTypes, SliceType, NoneAssumption DEF NoneAssumption
  <2>2. CASE a \notin Listed
    <3>1. Slice(rows, a) = [i \in Ids |-> None]
      BY <1>1, <1>2, <2>2, SliceEmpty, MirrorTypes
    <3>2. public.files[a] \in {None, [i \in Ids |-> None]}
      BY <1>3, <2>2 DEF Filled
    <3> QED BY <3>1, <3>2
  <2> QED BY <2>1, <2>2
<1> QED BY <1>2, <1>4 DEF MirrorIsWhole

THEOREM WholeAfterOneDeath == Spec => [](FewFaults => MirrorIsWhole)
<1>1. Inv => (FewFaults => MirrorIsWhole)
  BY InvWhole DEF MirrorIsWhole
<1> QED BY <1>1, Invariance, PTL

(* The same of an instance where at most one run dies and none is forced,  *)
(* or none dies.                                                           *)
THEOREM MirrorStaysWhole ==
    ASSUME MaxDeaths = 0 \/ (MaxDeaths = 1 /\ Unforced)
    PROVE  Spec => []MirrorIsWhole
<1>1. Inv => FewFaults
  <2> SUFFICES ASSUME Inv PROVE FewFaults
    OBVIOUS
  <2>1. deaths \in 0..MaxDeaths
    BY DEF Inv, BaseInv, TypeOK
  <2> QED BY <2>1 DEF FewFaults
<1> QED BY <1>1, Invariance, WholeAfterOneDeath, PTL

(* Every variable keeps its type; a run replaces a file for every agency   *)
(* of its export (comments_mirror.py:303).                                 *)
THEOREM TypeCorrect == Spec => []TypeOK
<1>1. Inv => TypeOK
  BY DEF Inv, BaseInv
<1> QED BY <1>1, Invariance, PTL

(* _receipt_matches (comments_mirror.py:229): when it permits a no-op, the *)
(* monolith, the index and every agency file the receipt names hold the    *)
(* table's rows, and no other agency has any.                              *)
THEOREM ListedFilesAreWhole == Spec => []ListedIsWhole
<1>1. Inv => ListedIsWhole
  BY DEF Inv, BaseInv, ListedIsWhole, Matches, Describes
<1> QED BY <1>1, Invariance, PTL

(* replace_native (regulatory_catalog.py:417): a commit loses no comment,  *)
(* takes none back to an earlier date and keeps filled text, whoever       *)
(* committed since its writer read.                                        *)
THEOREM CommitsAdvance == Spec => RowsAdvance
<1> DEFINE Step == \A i \in Ids : rows[i] # None =>
                      /\ rows'[i] # None
                      /\ rows'[i].date >= rows[i].date
                      /\ (rows'[i].date = rows[i].date /\ rows[i].date # NoDate /\ rows[i].text)
                             => rows'[i].text
<1>1. Inv /\ [Next]_vars => [Step]_catalogVars
  <2> SUFFICES ASSUME Inv, CatalogNext, NEW i \in Ids, rows[i] # None
               PROVE  /\ rows'[i] # None
                      /\ rows'[i].date >= rows[i].date
                      /\ (rows'[i].date = rows[i].date /\ rows[i].date # NoDate /\ rows[i].text)
                             => rows'[i].text
    BY DEF Next, vars, catalogVars
  <2>1. rows'[i] = rows[i] \/ Advances(rows'[i], rows[i])
    BY CatalogStep DEF Inv, BaseInv, TypeOK, CatalogInv
  <2>2. rows[i].date \in Nat /\ rows[i].text \in BOOLEAN
    BY RowsOf DEF Inv, BaseInv, TypeOK
  <2>3. CASE rows'[i] = rows[i]
    BY <2>2, <2>3
  <2>4. CASE Advances(rows'[i], rows[i])
    <3>1. rows'[i] # None /\ rows'[i].date \in Nat /\ rows'[i].text \in BOOLEAN
      BY <2>4, StampsType, CatalogAssumption DEF Advances, Row, CatalogAssumption
    <3> QED BY <2>2, <2>4, <3>1 DEF Advances, NoDate
  <2> QED BY <2>1, <2>3, <2>4
<1> QED BY <1>1, Invariance, PTL DEF Spec, RowsAdvance

(* A commit is one atomic write of the table as it is when it commits: the *)
(* rows it was decided on are still there.                                 *)
LEMMA ReplaceIsAtomic ==
    ASSUME CatalogInv, NEW w \in Writers, Replace(w)
    PROVE  Atomic!Next
<1> DEFINE scope == writer[w].scope
           prior == writer[w].prior
           new == writer[w].new
           ids == DOMAIN new
<1>1. /\ writer[w] \in Held /\ Sound(writer[w])
      /\ rows' = [i \in Ids |-> IF i \in ids THEN new[i] ELSE rows[i]]
      /\ \A i \in ids : Seen(i, scope) = prior[i]
  BY DEF CatalogInv, CatalogTypeOK, WritersInv, Replace, PriorStands, Sound
<1>2. /\ ids \in SUBSET Ids /\ scope \in Agencies \cup {None}
      /\ \A i \in ids : new[i] \in Row
  BY <1>1 DEF Held, Tables, Sound, Advances
<1>3. CASE scope = None
  <2> DEFINE date == [i \in ids |-> new[i].date]
             text == [i \in ids |-> new[i].text]
  <2>1. date \in [ids -> Dates \cup {Atomic!NoDate}] /\ text \in [ids -> BOOLEAN]
    BY <1>2 DEF Row, Stamps, NoDate, Atomic!NoDate
  <2>2. \A i \in ids : prior[i] = rows[i]
    BY <1>1, <1>2, <1>3 DEF Seen
  <2>3. \A i \in ids : /\ Atomic!Supersedes(date[i], rows[i])
                       /\ new[i] = Atomic!SourceRow(i, date[i], text[i])
    <3> SUFFICES ASSUME NEW i \in ids
                 PROVE  /\ Atomic!Supersedes(date[i], rows[i])
                        /\ new[i] = Atomic!SourceRow(i, date[i], text[i])
      OBVIOUS
    <3>1. /\ rows[i] # None => rows[i].date = NoDate \/ new[i].date > rows[i].date
          /\ new[i].agency = AgencyOf[i][new[i].date]
      BY <1>1, <1>3, <2>2 DEF Sound
    <3>2. new[i] = [agency |-> new[i].agency, date |-> new[i].date, text |-> new[i].text]
      BY <1>2 DEF Row
    <3> QED BY <3>1, <3>2 DEF Atomic!SourceRow, Atomic!Supersedes, Atomic!NoDate, NoDate
  <2>4. \A i \in Ids : (i \in ids /\ Atomic!Supersedes(date[i], rows[i])) <=> i \in ids
    BY <2>3
  <2>5. rows' = [i \in Ids |-> IF i \in ids /\ Atomic!Supersedes(date[i], rows[i])
                               THEN Atomic!SourceRow(i, date[i], text[i]) ELSE rows[i]]
    BY <1>1, <2>3, <2>4
  <2> HIDE DEF date, text, ids
  <2> QED BY <1>2, <2>1, <2>5 DEF Atomic!Next, Atomic!Merge
<1>4. CASE scope # None
  <2>1. \A i \in ids : /\ rows[i] = prior[i] /\ rows[i] # None /\ rows[i].agency = scope
                       /\ new[i] = [rows[i] EXCEPT !.text = TRUE]
    BY <1>1, <1>4 DEF Seen, Sound
  <2>2. ids \in SUBSET {i \in Ids : rows[i] # None /\ rows[i].agency = scope}
    BY <1>2, <2>1
  <2>3. rows' = [i \in Ids |-> IF i \in ids THEN [rows[i] EXCEPT !.text = TRUE] ELSE rows[i]]
    BY <1>1, <2>1
  <2>4. scope \in Agencies
    BY <1>2, <1>4
  <2> HIDE DEF ids, scope
  <2> QED BY <2>2, <2>3, <2>4 DEF Atomic!Next, Atomic!Fill
<1> QED BY <1>3, <1>4

(* The transaction (regulatory_catalog.py:417) makes overlapping writers   *)
(* atomic: the table behaves as if each merge and each fill read, decided  *)
(* and replaced in one step.                                               *)
THEOREM CatalogIsAtomic == Spec => CommitsAreAtomic
<1>1. Init => Atomic!Init
  BY DEF Init, CatalogInit, Atomic!Init
<1>2. Inv /\ [Next]_vars => [Atomic!Next]_rows
  <2> SUFFICES ASSUME Inv, [Next]_vars, rows' # rows PROVE Atomic!Next
    OBVIOUS
  <2>1. CatalogNext
    BY DEF Next, vars, catalogVars
  <2>2. PICK w \in Writers : Replace(w)
    BY <2>1 DEF CatalogNext, PrepareMerge, PrepareFill, GiveUpWrite, Compact
  <2> QED BY <2>2, ReplaceIsAtomic DEF Inv, BaseInv, TypeOK, CatalogInv
<1> QED BY <1>1, <1>2, Invariance, PTL DEF Spec, CommitsAreAtomic, Atomic!Spec

(* A run that passes the recheck (comments_mirror.py:336) has exported the *)
(* table of that moment, however many compactions came since it pinned its *)
(* snapshot; and what it then uploads is the table, or a commit came in    *)
(* between and the snapshot its receipt will name is out of date.          *)
MonolithIsCurrent ==
    [][/\ Recheck => mirror.content = rows
       /\ UploadMonolith => \/ public'.monolith = rows
                            \/ mirror.snap < changed /\ mirror.snap < version]_vars
THEOREM UploadsAreCurrentOrStale == Spec => MonolithIsCurrent
<1>1. ASSUME Inv, Recheck PROVE mirror.content = rows
  BY <1>1 DEF Inv, BaseInv, Exported, Recheck, StillCurrent
<1>2. ASSUME Inv, UploadMonolith
      PROVE  public'.monolith = rows \/ (mirror.snap < changed /\ mirror.snap < version)
  <2>1. public'.monolith = mirror.content
    BY <1>2 DEF UploadMonolith, Inv, BaseInv, TypeOK, Public
  <2>2. mirror.snap \in Nat /\ version \in Nat /\ changed \in 0..version
    BY <1>2, MirrorTypes DEF Inv, BaseInv, TypeOK, CatalogTypeOK
  <2>3. changed <= mirror.snap => mirror.content = rows
    BY <1>2 DEF Inv, BaseInv, Exported, UploadMonolith
  <2> QED BY <2>1, <2>2, <2>3
<1>3. Inv /\ [Next]_vars =>
        [/\ Recheck => mirror.content = rows
         /\ UploadMonolith => \/ public'.monolith = rows
                              \/ mirror.snap < changed /\ mirror.snap < version]_vars
  BY <1>1, <1>2
<1> QED BY <1>3, Invariance, PTL DEF Spec, MonolithIsCurrent
=============================================================================
