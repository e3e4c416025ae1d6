--------------------------- MODULE RegulationsProofs ---------------------------
(***************************************************************************)
(* Proofs about the regulations ETL when a desk always publishes, for      *)
(* every set of keys, batches and workspaces and any number of crashes and *)
(* unscheduled runs: the published manifest retires no key whose rows are  *)
(* missing and forgotten, and no publish drops documents.                  *)
(***************************************************************************)
EXTENDS RegulationsEtl, TLAPS

Places == {"idle", "prepare", "merge", "comments", "checkpoint", "record", "upload"}

LEMMA IdleType ==
    /\ Idle \in Run /\ Idle.at = "idle" /\ Idle.unmoved = {} /\ Idle.publish = TRUE
    /\ Idle.seen = None /\ Idle.base = None /\ Idle.read = {}
  BY DEF Idle, Run, Kinds, Families

LEMMA PlansType ==
    ASSUME NEW kind \in Kinds, NEW todo \in Plans(kind)
    PROVE  todo \in SUBSET (0..(Batches - 1))
<1>1. \A k \in Keys : BatchOf[k] \in 0..(Batches - 1)
  BY EtlAssumption DEF EtlAssumption
<1>2. \A k \in Comments : BatchOf[k] \in 0..(Batches - 1)
  BY <1>1 DEF Keys
<1>3. CASE kind = "sweep"
  BY <1>3 DEF Plans, SweepBatches
<1>4. CASE kind = "chunked"
  BY <1>2, <1>4 DEF Plans
<1>5. CASE kind = "batch"
  BY <1>5 DEF Plans, SweepBatches
<1> QED BY <1>3, <1>4, <1>5 DEF Kinds

(* A step changes the run of its own workspace and perhaps moves a family  *)
(* under the others. *)
LEMMA OthersKeep ==
    ASSUME TypeOK, NEW v \in Workspaces, RunInv(v),
           run'[v] = run[v] \/ \E family \in Families : run'[v] = [run[v] EXCEPT !.unmoved = @ \ {family}],
           "documents" \in run'[v].unmoved => bucket'.documents = bucket.documents,
           "checkpoints" \in run'[v].unmoved => bucket'.failed = bucket.failed,
           local'[v] = local[v],
           \A k \in Keys : Held(k) => Held(k)',
           \A k \in Keys : Held(k) \/ k \in bucket.failed => Held(k)' \/ k \in bucket'.failed
    PROVE  RunInv(v)'
<1>1. run[v] \in Run /\ (local[v] # None => local[v] \subseteq Keys)
  BY DEF TypeOK
<1>2. /\ run'[v].at = run[v].at /\ run'[v].kind = run[v].kind /\ run'[v].publish = run[v].publish
      /\ run'[v].seen = run[v].seen /\ run'[v].base = run[v].base /\ run'[v].failed = run[v].failed
      /\ run'[v].read = run[v].read /\ run'[v].unmoved \subseteq run[v].unmoved
      /\ run[v].read \subseteq Keys
  BY <1>1 DEF Run
<1>3. \A keys \in SUBSET Keys : Sound(keys) => Sound(keys)'
  BY DEF Sound
<1> QED BY <1>1, <1>2, <1>3 DEF RunInv

(* A step that touches nothing but the run and the manifest of one         *)
(* workspace leaves the others and the bucket as they were. *)
LEMMA LocalStep ==
    ASSUME Inv, NEW w \in Workspaces, NEW now \in Run, run' = [run EXCEPT ![w] = now],
           local' \in [Workspaces -> {None} \cup SUBSET Keys],
           \A v \in Workspaces \ {w} : local'[v] = local[v],
           bucket' = bucket, catalog' = catalog, disturbed' \in 0..Disturbances,
           RunInv(w)'
    PROVE  Inv'
<1>1. run' \in [Workspaces -> Run] /\ \A v \in Workspaces \ {w} : run'[v] = run[v]
  BY DEF Inv, TypeOK
<1>2. \A k \in Keys : Held(k)' = Held(k)
  BY DEF Held
<1>3. TypeOK'
  BY <1>1 DEF Inv, TypeOK
<1>4. \A v \in Workspaces \ {w} : RunInv(v)'
  BY <1>1, <1>2, OthersKeep DEF Inv
<1>5. bucket'.manifest # None => Sound(bucket.manifest)'
  BY DEF Inv, Sound, Held
<1> QED BY <1>3, <1>4, <1>5 DEF Inv

LEMMA InitInv == Init => Inv
<1> SUFFICES ASSUME Init PROVE Inv
  OBVIOUS
<1>1. PICK legacy \in SUBSET Keys :
        bucket = [documents |-> {}, failed |-> legacy,
                  manifest |-> IF legacy = {} THEN None ELSE legacy]
  BY DEF Init
<1>2. /\ bucket.manifest # None => bucket.manifest = bucket.failed
      /\ bucket \in [documents : SUBSET Documents, failed : SUBSET Keys,
                     manifest : {None} \cup SUBSET Keys]
  BY <1>1
<1>3. TypeOK
  BY <1>2, IdleType, EtlAssumption DEF Init, TypeOK, EtlAssumption
<1>4. \A w \in Workspaces : RunInv(w)
  BY IdleType DEF Init, RunInv
<1> QED BY <1>2, <1>3, <1>4 DEF Inv, Sound

-----------------------------------------------------------------------------
(* Steps before anything is published. *)

LEMMA BeginInv ==
    ASSUME Inv, NEW w \in Workspaces, NEW kind \in Kinds, NEW publish \in BOOLEAN,
           w \in Desks => publish, Begin(w, kind, publish), disturbed' \in 0..Disturbances
    PROVE  Inv'
<1>1. PICK todo \in Plans(kind) :
        run' = [run EXCEPT ![w] = [Idle EXCEPT !.at = "prepare", !.kind = kind,
                                               !.publish = publish, !.todo = todo]]
  BY DEF Begin
<1> DEFINE now == [Idle EXCEPT !.at = "prepare", !.kind = kind, !.publish = publish, !.todo = todo]
<1>2. /\ now \in Run /\ now.at = "prepare" /\ now.publish = publish /\ now.unmoved = {}
      /\ now.kind = kind
  BY PlansType, IdleType DEF Run, Idle
<1> HIDE DEF now
<1>3. run'[w] = now /\ run' = [run EXCEPT ![w] = now]
  BY <1>1 DEF Inv, TypeOK, now
<1>4. /\ local' = [local EXCEPT ![w] = IF w \in Runners THEN None ELSE @]
      /\ bucket' = bucket /\ catalog' = catalog
  BY DEF Begin
<1>5. /\ local' \in [Workspaces -> {None} \cup SUBSET Keys]
      /\ \A v \in Workspaces \ {w} : local'[v] = local[v]
      /\ local'[w] = IF w \in Runners THEN None ELSE local[w]
  BY <1>4 DEF Inv, TypeOK
<1>6. local'[w] # None => Sound(local[w])'
  BY <1>4, <1>5 DEF Inv, RunInv, Sound, Held, Workspaces
<1>7. RunInv(w)'
  BY <1>2, <1>3, <1>6 DEF RunInv
<1> QED BY <1>2, <1>3, <1>4, <1>5, <1>7, LocalStep

LEMMA StartInv ==
    ASSUME Inv, VetAtDesk = FALSE, NEW w \in Workspaces, Schedule(w) \/ Dispatch(w)
    PROVE  Inv'
<1>1. CASE Schedule(w)
  <2>1. w \notin Desks
    BY <1>1, EtlAssumption DEF Schedule, EtlAssumption
  <2> QED BY <1>1, <2>1, BeginInv DEF Schedule, Kinds, Inv, TypeOK
<1>2. CASE Dispatch(w)
  <2>1. PICK d \in Dispatches : (d.publish \/ w \in Runners) /\ Begin(w, d.kind, d.publish)
    BY <1>2 DEF Dispatch
  <2>2. d.kind \in Kinds /\ d.publish \in BOOLEAN /\ (w \in Desks => d.publish)
    BY <2>1, EtlAssumption DEF EtlAssumption, Kinds
  <2>3. disturbed' \in 0..Disturbances
    BY <1>2, EtlAssumption DEF Dispatch, Disturb, Inv, TypeOK, EtlAssumption
  <2> QED BY <2>1, <2>2, <2>3, BeginInv
<1> QED BY <1>1, <1>2

(* A step that keeps local and only edits the run of w. *)
LEMMA EditInv ==
    ASSUME Inv, NEW w \in Workspaces, NEW now \in Run, run' = [run EXCEPT ![w] = now],
           UNCHANGED <<bucket, catalog, local>>, disturbed' \in 0..Disturbances,
           RunInv(w)'
    PROVE  Inv'
  BY LocalStep DEF Inv, TypeOK

LEMMA IdleInv ==
    ASSUME Inv, NEW w \in Workspaces, run' = [run EXCEPT ![w] = Idle],
           UNCHANGED <<bucket, catalog, local>>, disturbed' \in 0..Disturbances
    PROVE  Inv'
<1>1. run'[w] = Idle
  BY DEF Inv, TypeOK
<1>2. w \in Desks /\ local[w] # None => Sound(local[w])'
  BY DEF Inv, RunInv, Sound, Held
<1>3. RunInv(w)'
  BY <1>1, <1>2, IdleType DEF RunInv
<1> QED BY <1>3, IdleType, EditInv

LEMMA LoadInv == ASSUME Inv, NEW w \in Workspaces, LoadManifest(w) PROVE Inv'
<1> DEFINE found == IF local[w] # None THEN local[w] ELSE bucket.manifest
           now == [run[w] EXCEPT !.seen = IF found = None THEN {} ELSE found]
<1>1. found \in {None} \cup SUBSET Keys /\ run[w] \in Run
  BY DEF Inv, TypeOK
<1>2. /\ At(w, "prepare") /\ local' = [local EXCEPT ![w] = found]
      /\ run' = [run EXCEPT ![w].seen = IF found = None THEN {} ELSE found]
      /\ bucket' = bucket /\ catalog' = catalog /\ disturbed' = disturbed
  BY DEF LoadManifest
<1>3. (w \in Desks \/ run[w].publish) /\ found # None => Sound(found)
  BY <1>2 DEF Inv, RunInv, At
<1> HIDE DEF found
<1>4. /\ now \in Run /\ now.at = "prepare" /\ now.kind = run[w].kind /\ now.publish = run[w].publish
      /\ now.base = run[w].base /\ now.failed = run[w].failed /\ now.unmoved = run[w].unmoved
  BY <1>1, <1>2 DEF Run, At
<1>5. run' = [run EXCEPT ![w] = now]
  BY <1>2
<1> HIDE DEF now
<1>6. run'[w] = now
  BY <1>5 DEF Inv, TypeOK
<1>7. /\ local' \in [Workspaces -> {None} \cup SUBSET Keys] /\ local'[w] = found
      /\ \A v \in Workspaces \ {w} : local'[v] = local[v]
  BY <1>1, <1>2 DEF Inv, TypeOK
<1>8. Sound(found) /\ local'[w] # None => Sound(local[w])'
  BY <1>2, <1>7 DEF Sound, Held
<1>9. RunInv(w)'
  <2>1. (w \in Desks \/ run[w].publish) /\ local'[w] # None => Sound(local[w])'
    BY <1>3, <1>7, <1>8
  <2> QED BY <1>2, <1>4, <1>6, <2>1 DEF Inv, RunInv, At
<1> QED BY <1>2, <1>4, <1>5, <1>7, <1>9, LocalStep DEF Inv, TypeOK

LEMMA CaptureInv == ASSUME Inv, NEW w \in Workspaces, CaptureIndex(w) PROVE Inv'
<1> DEFINE now == [run[w] EXCEPT !.base = bucket.documents, !.failed = bucket.failed, !.unmoved = Families]
<1>1. /\ At(w, "prepare") /\ run' = [run EXCEPT ![w] = now]
      /\ UNCHANGED <<bucket, catalog, local, disturbed>>
      /\ run[w] \in Run /\ bucket.documents \subseteq Documents /\ bucket.failed \subseteq Keys
  BY DEF CaptureIndex, Inv, TypeOK
<1>2. /\ now \in Run /\ now.at = "prepare" /\ now.kind = run[w].kind /\ now.publish = run[w].publish
      /\ now.base = bucket.documents /\ now.failed = bucket.failed
  BY <1>1 DEF Run, At
<1> HIDE DEF now
<1>3. run'[w] = now
  BY <1>1 DEF Inv, TypeOK
<1>4. RunInv(w)'
  BY <1>1, <1>2, <1>3 DEF Inv, RunInv, At, Sound, Held
<1> QED BY <1>1, <1>2, <1>4, EditInv DEF Inv, TypeOK

LEMMA StageInv == ASSUME Inv, NEW w \in Workspaces, Stage(w) PROVE Inv'
<1>1. PICK missed \in SUBSET Attempted(w) :
        run' = [run EXCEPT ![w].read = Attempted(w) \ missed, ![w].missed = missed,
                           ![w].at = IF missed = Attempted(w) THEN "checkpoint"
                                     ELSE IF run[w].kind = "chunked" THEN "comments" ELSE "merge"]
  BY DEF Stage
<1> DEFINE read == Attempted(w) \ missed
           to == IF missed = Attempted(w) THEN "checkpoint"
                 ELSE IF run[w].kind = "chunked" THEN "comments" ELSE "merge"
           now == [run[w] EXCEPT !.read = read, !.missed = missed, !.at = to]
<1>2. /\ At(w, "prepare") /\ run[w].seen # None /\ run[w].base # None
      /\ UNCHANGED <<bucket, catalog, local, disturbed>> /\ run[w] \in Run
  BY DEF Stage, Inv, TypeOK
<1>3. /\ read \subseteq Keys /\ missed \subseteq Keys /\ read \subseteq InBatch(w)
      /\ to = "checkpoint" => read = {}
  BY DEF Attempted, InBatch
<1>4. to \in {"checkpoint", "comments", "merge"} /\ (to = "comments" <=> to # "checkpoint" /\ run[w].kind = "chunked")
  OBVIOUS
<1>5. run[w].kind = "chunked" => read \cap Documents = {}
  BY <1>3, EtlAssumption DEF InBatch, EtlAssumption
<1>6. run' = [run EXCEPT ![w] = now]
  BY <1>1
<1> HIDE DEF read, to
<1>7. /\ now \in Run /\ now.at = to /\ now.kind = run[w].kind /\ now.publish = run[w].publish
      /\ now.seen = run[w].seen /\ now.base = run[w].base /\ now.failed = run[w].failed
      /\ now.unmoved = run[w].unmoved /\ now.read = read
  BY <1>2, <1>3, <1>4 DEF Run
<1> HIDE DEF now
<1>8. run'[w] = now
  BY <1>6 DEF Inv, TypeOK
<1>9. RunInv(w)'
  BY <1>2, <1>3, <1>4, <1>5, <1>7, <1>8 DEF Inv, RunInv, At, Sound, Held
<1> QED BY <1>2, <1>6, <1>7, <1>9, EditInv DEF Inv, TypeOK

-----------------------------------------------------------------------------
(* Steps that publish. *)

(* The parts of the invariant outside the run at hand, when the bucket     *)
(* moves on. *)
LEMMA BucketStep ==
    ASSUME Inv, NEW w \in Workspaces,
           bucket' \in [documents : SUBSET Documents, failed : SUBSET Keys,
                        manifest : {None} \cup SUBSET Keys],
           catalog' \subseteq Comments, local' = local, disturbed' = disturbed,
           run' \in [Workspaces -> Run],
           \A v \in Workspaces \ {w} :
              /\ run'[v] = run[v] \/ \E family \in Families : run'[v] = [run[v] EXCEPT !.unmoved = @ \ {family}]
              /\ "documents" \in run'[v].unmoved => bucket'.documents = bucket.documents
              /\ "checkpoints" \in run'[v].unmoved => bucket'.failed = bucket.failed,
           \A k \in Keys : Held(k) => Held(k)',
           \A k \in Keys : Held(k) \/ k \in bucket.failed => Held(k)' \/ k \in bucket'.failed,
           bucket'.manifest = bucket.manifest,
           RunInv(w)'
    PROVE  Inv'
<1>1. TypeOK'
  BY DEF Inv, TypeOK
<1>2. \A v \in Workspaces \ {w} : RunInv(v)'
  BY OthersKeep DEF Inv
<1>3. bucket'.manifest # None => Sound(bucket.manifest)'
  <2>1. bucket.manifest # None => bucket.manifest \subseteq Keys
    BY DEF Inv, TypeOK
  <2> QED BY <2>1 DEF Inv, Sound
<1> QED BY <1>1, <1>2, <1>3 DEF Inv

(* Held keys stay held as documents and catalog grow. *)
LEMMA HeldGrows ==
    ASSUME bucket.documents \subseteq bucket'.documents, catalog \subseteq catalog', NEW k, Held(k)
    PROVE  Held(k)'
  BY DEF Held

(* The effect of Moved on each run. *)
LEMMA MovedType ==
    ASSUME NEW runs \in [Workspaces -> Run], NEW w \in Workspaces, NEW family \in Families
    PROVE  /\ Moved(runs, w, family) \in [Workspaces -> Run]
           /\ Moved(runs, w, family)[w] = runs[w]
           /\ \A v \in Workspaces \ {w} :
                /\ Moved(runs, w, family)[v] = [runs[v] EXCEPT !.unmoved = @ \ {family}]
                /\ family \notin Moved(runs, w, family)[v].unmoved
<1>1. \A v \in Workspaces : [runs[v] EXCEPT !.unmoved = @ \ {family}] \in Run
  BY DEF Run
<1>2. \A v \in Workspaces : family \notin [runs[v] EXCEPT !.unmoved = @ \ {family}].unmoved
  BY DEF Run
<1> QED BY <1>1, <1>2 DEF Moved

LEMMA PublishInv == ASSUME Inv, NEW w \in Workspaces, PublishDocuments(w) PROVE Inv'
<1> DEFINE rows == run[w].base \cup (run[w].read \cap Documents)
           now == [run[w] EXCEPT !.at = "comments"]
           moved == [run EXCEPT ![w] = now]
<1>1. /\ run[w].at = "merge" /\ run[w] \in Run /\ run \in [Workspaces -> Run]
      /\ UNCHANGED <<catalog, local, disturbed>>
  BY DEF PublishDocuments, At, Inv, TypeOK
<1>2. /\ now \in Run /\ now.at = "comments" /\ now.kind = run[w].kind /\ now.publish = run[w].publish
      /\ now.seen = run[w].seen /\ now.base = run[w].base /\ now.failed = run[w].failed
      /\ now.unmoved = run[w].unmoved /\ now.read = run[w].read
  BY <1>1 DEF Run
<1>3. moved = Advance(w, "comments")
  BY DEF Advance
<1> HIDE DEF now
<1>4. moved \in [Workspaces -> Run] /\ moved[w] = now /\ \A v \in Workspaces \ {w} : moved[v] = run[v]
  BY <1>1, <1>2
<1> HIDE DEF moved
<1>5. /\ run[w].seen # None /\ run[w].base # None /\ run[w].kind # "chunked"
      /\ w \in Desks => run[w].publish
      /\ "checkpoints" \in run[w].unmoved /\ run[w].publish => run[w].failed = bucket.failed
      /\ (w \in Desks \/ run[w].publish) /\ local[w] # None => Sound(local[w])
      /\ local[w] # None => local[w] \subseteq Keys
  BY <1>1 DEF Inv, RunInv, TypeOK
<1>6. CASE ~run[w].publish
  <2>1. run' = moved /\ bucket' = bucket
    BY <1>3, <1>6 DEF PublishDocuments
  <2>2. RunInv(w)'
    BY <1>2, <1>4, <1>5, <1>6, <2>1 DEF RunInv
  <2> QED BY <1>1, <1>2, <1>6, <2>1, <2>2, EditInv DEF Inv, TypeOK, moved
<1>7. CASE run[w].publish
  <2>1. /\ "documents" \in run[w].unmoved
        /\ bucket' = [bucket EXCEPT !.documents = rows]
        /\ run' = Moved(moved, w, "documents")
    BY <1>3, <1>7 DEF PublishDocuments, MayPublish
  <2>2. run[w].base = bucket.documents
    BY <1>1, <2>1 DEF Inv, RunInv
  <2>3. rows \subseteq Documents /\ bucket.documents \subseteq rows
    BY <2>2 DEF Inv, TypeOK
  <2> HIDE DEF rows
  <2>4. /\ bucket' \in [documents : SUBSET Documents, failed : SUBSET Keys,
                        manifest : {None} \cup SUBSET Keys]
        /\ bucket'.documents = rows /\ bucket'.failed = bucket.failed
        /\ bucket'.manifest = bucket.manifest
    BY <2>1, <2>3 DEF Inv, TypeOK
  <2>5. \A k : Held(k) => Held(k)'
    BY <1>1, <2>3, <2>4, HeldGrows
  <2>6. /\ run' \in [Workspaces -> Run] /\ run'[w] = now
        /\ \A v \in Workspaces \ {w} : /\ run'[v] = [run[v] EXCEPT !.unmoved = @ \ {"documents"}]
                                       /\ "documents" \notin run'[v].unmoved
    <3>1. "documents" \in Families
      BY DEF Families
    <3>2. /\ run' \in [Workspaces -> Run] /\ run'[w] = moved[w]
          /\ \A v \in Workspaces \ {w} : /\ run'[v] = [moved[v] EXCEPT !.unmoved = @ \ {"documents"}]
                                         /\ "documents" \notin run'[v].unmoved
      BY <1>4, <2>1, <3>1, MovedType
    <3> QED BY <1>4, <3>2
  <2>7. \A k \in run[w].read \cap Documents : Held(k)'
    BY <2>4 DEF Held, rows
  <2>8. RunInv(w)'
    <3>1. local[w] # None => Sound(local[w])'
      BY <1>1, <1>5, <1>7, <2>4, <2>5 DEF Sound
    <3> QED BY <1>1, <1>2, <1>5, <1>7, <2>4, <2>6, <2>7, <3>1 DEF RunInv
  <2> QED BY <1>1, <2>4, <2>5, <2>6, <2>8, BucketStep DEF Inv, TypeOK, Families
<1> QED BY <1>6, <1>7

LEMMA CommentsInv == ASSUME Inv, NEW w \in Workspaces, MergeComments(w) PROVE Inv'
<1> DEFINE now == [run[w] EXCEPT !.at = "checkpoint"]
<1>1. /\ run[w].at = "comments" /\ run[w] \in Run /\ run \in [Workspaces -> Run]
      /\ catalog' = catalog \cup (run[w].read \cap Comments)
      /\ run' = [run EXCEPT ![w] = now]
      /\ UNCHANGED <<bucket, local, disturbed>>
  BY DEF MergeComments, At, Advance, Inv, TypeOK
<1>2. /\ now \in Run /\ now.at = "checkpoint" /\ now.kind = run[w].kind /\ now.publish = run[w].publish
      /\ now.seen = run[w].seen /\ now.base = run[w].base /\ now.failed = run[w].failed
      /\ now.unmoved = run[w].unmoved /\ now.read = run[w].read /\ run[w].read \subseteq Keys
  BY <1>1 DEF Run
<1> HIDE DEF now
<1>3. run' \in [Workspaces -> Run] /\ run'[w] = now /\ \A v \in Workspaces \ {w} : run'[v] = run[v]
  BY <1>1, <1>2
<1>4. \A k : Held(k) => Held(k)'
  BY <1>1, HeldGrows
<1>5. run[w].publish => \A k \in run[w].read : Held(k)'
  <2>1. \A k \in run[w].read : k \in Documents \/ k \in Comments
    BY <1>2 DEF Keys
  <2>2. run[w].publish => \A k \in run[w].read \cap Documents : Held(k)
    BY <1>1 DEF Inv, RunInv
  <2>3. \A k \in run[w].read \cap Comments : Held(k)'
    BY <1>1 DEF Held
  <2> QED BY <1>4, <2>1, <2>2, <2>3
<1>6. RunInv(w)'
  <2>1. Sound(local[w]) => Sound(local[w])'
    BY <1>1, <1>4 DEF Sound
  <2> QED BY <1>1, <1>2, <1>3, <1>5, <2>1 DEF Inv, RunInv
<1>7. catalog' \subseteq Comments
  BY <1>1 DEF Inv, TypeOK
<1>8. \A v \in Workspaces \ {w} :
        /\ run'[v] = run[v]
        /\ "documents" \in run'[v].unmoved => bucket'.documents = bucket.documents
        /\ "checkpoints" \in run'[v].unmoved => bucket'.failed = bucket.failed
  BY <1>1, <1>3
<1>9. \A k \in Keys : Held(k) \/ k \in bucket.failed => Held(k)' \/ k \in bucket'.failed
  BY <1>1, <1>4
<1>10. bucket' \in [documents : SUBSET Documents, failed : SUBSET Keys,
                    manifest : {None} \cup SUBSET Keys]
  BY <1>1 DEF Inv, TypeOK
<1> QED BY <1>1, <1>3, <1>4, <1>6, <1>7, <1>8, <1>9, <1>10, BucketStep

LEMMA SaveInv == ASSUME Inv, NEW w \in Workspaces, SaveCheckpoints(w) PROVE Inv'
<1> DEFINE failed == (run[w].failed \ run[w].read) \cup run[w].missed
           now == [run[w] EXCEPT !.at = "record", !.failed = failed]
           saved == [run EXCEPT ![w] = now]
<1>1. /\ run[w].at = "checkpoint" /\ run[w] \in Run /\ run \in [Workspaces -> Run]
      /\ UNCHANGED <<catalog, local, disturbed>>
      /\ IF run[w].publish
         THEN /\ "checkpoints" \in run[w].unmoved
              /\ bucket' = [bucket EXCEPT !.failed = failed]
              /\ run' = Moved(saved, w, "checkpoints")
         ELSE run' = saved /\ bucket' = bucket
  <2>1. saved = [run EXCEPT ![w].at = "record", ![w].failed = failed]
    OBVIOUS
  <2> QED BY <2>1 DEF SaveCheckpoints, Save, MayPublish, At, Inv, TypeOK
<1>2. failed \subseteq Keys /\ run[w].read \subseteq Keys
  BY <1>1 DEF Run
<1>3. \A k \in run[w].failed : k \in failed \/ k \in run[w].read
  OBVIOUS
<1> HIDE DEF failed
<1>4. /\ now \in Run /\ now.at = "record" /\ now.kind = run[w].kind /\ now.publish = run[w].publish
      /\ now.seen = run[w].seen /\ now.base = run[w].base /\ now.failed = failed
      /\ now.unmoved = run[w].unmoved /\ now.read = run[w].read
  BY <1>1, <1>2 DEF Run
<1> HIDE DEF now
<1>5. saved \in [Workspaces -> Run] /\ saved[w] = now /\ \A v \in Workspaces \ {w} : saved[v] = run[v]
  BY <1>1, <1>4
<1>6. /\ run[w].seen # None /\ run[w].base # None /\ (w \in Desks => run[w].publish)
      /\ "documents" \in run[w].unmoved /\ run[w].kind = "chunked" => run[w].base = bucket.documents
      /\ run[w].publish => \A k \in run[w].read : Held(k)
      /\ (w \in Desks \/ run[w].publish) /\ local[w] # None => Sound(local[w])
      /\ local[w] # None => local[w] \subseteq Keys
      /\ "checkpoints" \in run[w].unmoved /\ run[w].publish => run[w].failed = bucket.failed
  BY <1>1 DEF Inv, RunInv, TypeOK
<1>7. CASE ~run[w].publish
  <2>1. run' = [run EXCEPT ![w] = now] /\ bucket' = bucket
    BY <1>1, <1>7
  <2>2. run'[w] = now
    BY <1>5, <2>1
  <2>3. RunInv(w)'
    BY <1>4, <1>6, <1>7, <2>1, <2>2 DEF RunInv
  <2> QED BY <1>1, <1>4, <2>1, <2>3, EditInv DEF Inv, TypeOK
<1> HIDE DEF saved
<1>8. CASE run[w].publish
  <2>1. /\ bucket' = [bucket EXCEPT !.failed = failed]
        /\ run' = Moved(saved, w, "checkpoints") /\ run[w].failed = bucket.failed
    BY <1>1, <1>6, <1>8
  <2>2. /\ bucket' \in [documents : SUBSET Documents, failed : SUBSET Keys,
                        manifest : {None} \cup SUBSET Keys]
        /\ bucket'.documents = bucket.documents /\ bucket'.failed = failed
        /\ bucket'.manifest = bucket.manifest
    BY <1>2, <2>1 DEF Inv, TypeOK
  <2>3. \A k : Held(k)' <=> Held(k)
    BY <1>1, <2>2 DEF Held
  <2>4. \A k \in Keys : Held(k) \/ k \in bucket.failed => Held(k)' \/ k \in bucket'.failed
    BY <1>3, <1>6, <1>8, <2>1, <2>2, <2>3
  <2>5. /\ run' \in [Workspaces -> Run] /\ run'[w] = now
        /\ \A v \in Workspaces \ {w} : /\ run'[v] = [run[v] EXCEPT !.unmoved = @ \ {"checkpoints"}]
                                       /\ "checkpoints" \notin run'[v].unmoved
    BY <1>5, <2>1, MovedType DEF Families
  <2>6. RunInv(w)'
    <3>1. local[w] # None => Sound(local[w])'
      BY <1>1, <1>6, <1>8, <2>4 DEF Sound
    <3> QED BY <1>1, <1>4, <1>6, <1>8, <2>2, <2>3, <2>5, <3>1 DEF RunInv
  <2> QED BY <1>1, <2>2, <2>3, <2>4, <2>5, <2>6, BucketStep DEF Inv, TypeOK, Families
<1> QED BY <1>7, <1>8

-----------------------------------------------------------------------------
(* Steps after the rows are published. *)

LEMMA RecordInv == ASSUME Inv, NEW w \in Workspaces, Record(w) PROVE Inv'
<1> DEFINE new == run[w].read \ run[w].seen
           found == IF new = {} THEN local[w]
                    ELSE new \cup IF local[w] = None THEN {} ELSE local[w]
           now == [run[w] EXCEPT !.at = "upload", !.seen = run[w].seen \cup new]
<1>1. /\ run[w].at = "record" /\ run[w] \in Run /\ local[w] \in {None} \cup SUBSET Keys
      /\ local' = [local EXCEPT ![w] = found] /\ run' = [run EXCEPT ![w] = now]
      /\ UNCHANGED <<bucket, catalog, disturbed>>
  BY DEF Record, At, Inv, TypeOK
<1>2. /\ run[w].seen # None /\ run[w].base # None /\ (w \in Desks => run[w].publish)
      /\ run[w].publish => \A k \in run[w].read : Held(k)
      /\ (w \in Desks \/ run[w].publish) /\ local[w] # None => Sound(local[w])
  BY <1>1 DEF Inv, RunInv
<1>3. run[w].seen \subseteq Keys /\ run[w].read \subseteq Keys
  BY <1>1, <1>2 DEF Run
<1>4. found \in {None} \cup SUBSET Keys
  BY <1>1, <1>3
<1>5. run[w].seen \cup new # None
  BY <1>3, EtlAssumption DEF EtlAssumption
<1>6. (w \in Desks \/ run[w].publish) /\ found # None => Sound(found)
  BY <1>2 DEF Sound
<1>7. /\ now \in Run /\ now.at = "upload" /\ now.kind = run[w].kind /\ now.publish = run[w].publish
      /\ now.base = run[w].base /\ now.failed = run[w].failed
      /\ now.unmoved = run[w].unmoved /\ now.read = run[w].read /\ now.seen = run[w].seen \cup new
  BY <1>1, <1>3 DEF Run
<1> HIDE DEF now, found, new
<1>8. /\ run'[w] = now /\ local'[w] = found
      /\ local' \in [Workspaces -> {None} \cup SUBSET Keys]
      /\ \A v \in Workspaces \ {w} : local'[v] = local[v]
  BY <1>1, <1>4 DEF Inv, TypeOK
<1>9. Sound(found) /\ local'[w] # None => Sound(local[w])'
  BY <1>1, <1>8 DEF Sound, Held
<1>10. RunInv(w)'
  <2>1. run[w].publish => \A k \in run[w].read : Held(k)'
    BY <1>1, <1>2 DEF Held
  <2>2. (w \in Desks \/ run[w].publish) /\ local'[w] # None => Sound(local[w])'
    BY <1>2, <1>6, <1>8, <1>9
  <2>3. run'[w].seen # None
    BY <1>3, <1>7, <1>8, <1>5
  <2> QED BY <1>1, <1>2, <1>7, <1>8, <2>1, <2>2, <2>3 DEF Inv, RunInv
<1> QED BY <1>1, <1>7, <1>8, <1>10, LocalStep DEF Inv, TypeOK

(* What the next batch of a run starts with. *)
LEMMA NextBatchType ==
    ASSUME NEW w \in Workspaces, run[w] \in Run
    PROVE  LET next == NextBatch(w) IN
           /\ next \in Run /\ next.at \in {"idle", "prepare"}
           /\ next.at = "prepare" =>
                /\ next.kind = run[w].kind /\ next.publish = run[w].publish
                /\ \/ next.unmoved = {}
                   \/ /\ next.kind = "chunked" /\ next.base = run[w].base
                      /\ next.failed = run[w].failed /\ next.unmoved = run[w].unmoved
           /\ next.at = "idle" => next.unmoved = {}
<1> DEFINE rest == run[w].todo \ {Current(w)}
           next == [run[w] EXCEPT !.at = "prepare", !.todo = rest, !.read = {}, !.missed = {}]
           fresh == [next EXCEPT !.base = None, !.failed = {}, !.unmoved = {}]
<1>1. NextBatch(w) = IF rest = {} THEN Idle ELSE IF run[w].kind = "chunked" THEN next ELSE fresh
  BY DEF NextBatch
<1>2. rest \in SUBSET (0..(Batches - 1))
  BY DEF Run
<1> HIDE DEF rest
<1>3. /\ next \in Run /\ next.at = "prepare" /\ next.kind = run[w].kind
      /\ next.publish = run[w].publish /\ next.base = run[w].base
      /\ next.failed = run[w].failed /\ next.unmoved = run[w].unmoved
  BY <1>2 DEF Run
<1> HIDE DEF next
<1>4. /\ fresh \in Run /\ fresh.at = "prepare" /\ fresh.kind = run[w].kind
      /\ fresh.publish = run[w].publish /\ fresh.unmoved = {}
  BY <1>3 DEF Run
<1> HIDE DEF fresh
<1> QED BY <1>1, <1>3, <1>4, IdleType

LEMMA UploadInv == ASSUME Inv, NEW w \in Workspaces, Upload(w) PROVE Inv'
<1> DEFINE now == NextBatch(w)
<1>1. /\ run[w].at = "upload" /\ run[w] \in Run /\ run' = [run EXCEPT ![w] = now]
      /\ bucket' = IF run[w].publish /\ local[w] # None
                     THEN [bucket EXCEPT !.manifest = local[w]] ELSE bucket
      /\ UNCHANGED <<catalog, local, disturbed>>
  BY DEF Upload, At, Inv, TypeOK
<1>2. /\ now \in Run /\ now.at \in {"idle", "prepare"}
      /\ now.at = "prepare" =>
            /\ now.kind = run[w].kind /\ now.publish = run[w].publish
            /\ \/ now.unmoved = {}
               \/ /\ now.kind = "chunked" /\ now.base = run[w].base
                  /\ now.failed = run[w].failed /\ now.unmoved = run[w].unmoved
      /\ now.at = "idle" => now.unmoved = {}
  BY <1>1, NextBatchType
<1> HIDE DEF now
<1>3. run' \in [Workspaces -> Run] /\ run'[w] = now /\ \A v \in Workspaces \ {w} : run'[v] = run[v]
  BY <1>1, <1>2 DEF Inv, TypeOK
<1>4. /\ local[w] \in {None} \cup SUBSET Keys
      /\ w \in Desks => run[w].publish
      /\ (w \in Desks \/ run[w].publish) /\ local[w] # None => Sound(local[w])
      /\ "documents" \in run[w].unmoved /\ run[w].kind = "chunked" => run[w].base = bucket.documents
      /\ "checkpoints" \in run[w].unmoved /\ run[w].publish => run[w].failed = bucket.failed
  BY <1>1 DEF Inv, RunInv, TypeOK
<1>5. /\ bucket' \in [documents : SUBSET Documents, failed : SUBSET Keys,
                       manifest : {None} \cup SUBSET Keys]
      /\ bucket'.documents = bucket.documents /\ bucket'.failed = bucket.failed
      /\ bucket'.manifest = IF run[w].publish /\ local[w] # None THEN local[w] ELSE bucket.manifest
  BY <1>1, <1>4 DEF Inv, TypeOK
<1>6. \A k : Held(k)' <=> Held(k)
  BY <1>1, <1>5 DEF Held
<1>7. TypeOK'
  BY <1>1, <1>3, <1>5 DEF Inv, TypeOK
<1>8. bucket'.manifest # None => Sound(bucket.manifest)'
  BY <1>4, <1>5, <1>6 DEF Inv, Sound
<1>9. RunInv(w)'
  <2>1. local[w] # None /\ Sound(local[w]) => Sound(local[w])'
    BY <1>1, <1>5, <1>6 DEF Sound
  <2> QED BY <1>1, <1>2, <1>3, <1>4, <1>5, <2>1 DEF RunInv
<1>10. \A v \in Workspaces \ {w} : RunInv(v)'
  <2>1. \A k \in Keys : Held(k) => Held(k)'
    BY <1>6
  <2>2. \A k \in Keys : Held(k) \/ k \in bucket.failed => Held(k)' \/ k \in bucket'.failed
    BY <1>5, <1>6
  <2> QED BY <1>1, <1>3, <1>5, <2>1, <2>2, OthersKeep DEF Inv
<1> QED BY <1>7, <1>8, <1>9, <1>10 DEF Inv

-----------------------------------------------------------------------------

LEMMA StepInv == ASSUME VetAtDesk = FALSE PROVE Inv /\ [Next]_vars => Inv'
<1> SUFFICES ASSUME Inv, [Next]_vars PROVE Inv'
  OBVIOUS
<1>1. CASE UNCHANGED vars
  <2>1. /\ bucket' = bucket /\ catalog' = catalog /\ local' = local /\ run' = run
        /\ disturbed' = disturbed
    BY <1>1 DEF vars
  <2> QED BY <2>1 DEF Inv, TypeOK, RunInv, Sound, Held
<1>2. ASSUME NEW w \in Workspaces, NEW family \in Families, Refused(w, family) PROVE Inv'
  BY <1>2, IdleInv DEF Refused, Inv, TypeOK
<1>3. ASSUME NEW w \in Workspaces, Crash(w) PROVE Inv'
  <2>1. disturbed' \in 0..Disturbances
    BY <1>3, EtlAssumption DEF Crash, Disturb, Inv, TypeOK, EtlAssumption
  <2> QED BY <1>3, <2>1, IdleInv DEF Crash
<1> QED BY <1>1, <1>2, <1>3, StartInv, LoadInv, CaptureInv, StageInv, PublishInv, CommentsInv,
           SaveInv, RecordInv, UploadInv DEF Next, Step

(* The inductive invariant holds throughout when no desk skips the upload. *)
THEOREM Invariance == ASSUME VetAtDesk = FALSE PROVE EtlSpec => []Inv
<1>1. Inv /\ [Next]_vars => Inv'
  BY StepInv
<1> QED BY <1>1, InitInv, PTL DEF EtlSpec

(* Every variable keeps its type: a run goes through the batches of its    *)
(* kind and no others (regulations.py:390).                                *)
THEOREM TypeCorrect == ASSUME VetAtDesk = FALSE PROVE EtlSpec => []TypeOK
<1>1. Inv => TypeOK
  BY DEF Inv
<1> QED BY <1>1, Invariance, PTL

(* _publish (regulations.py:271): a key the published manifest retires has *)
(* its rows published or is remembered as failed, whichever of any number  *)
(* of runs crashed, was refused or overlapped another.                     *)
THEOREM RetiredKeysAreHeld == ASSUME VetAtDesk = FALSE PROVE EtlSpec => []RetiredIsHeld
<1>1. Inv => RetiredIsHeld
  BY DEF Inv, Sound, RetiredIsHeld
<1> QED BY <1>1, Invariance, PTL

(* _merge (regulations.py:455): a publish of documents keeps the rows of   *)
(* every other run, as it is refused when one moved the family.            *)
THEOREM DocumentsOnlyGrow == ASSUME VetAtDesk = FALSE PROVE EtlSpec => DocumentsGrow
<1>1. Inv /\ [Next]_vars => [bucket.documents \subseteq bucket'.documents]_vars
  <2> SUFFICES ASSUME Inv, Next PROVE bucket.documents \subseteq bucket'.documents
    OBVIOUS
  <2>1. bucket \in [documents : SUBSET Documents, failed : SUBSET Keys,
                    manifest : {None} \cup SUBSET Keys]
    BY DEF Inv, TypeOK
  <2>2. ASSUME NEW w \in Workspaces, PublishDocuments(w)
        PROVE  bucket.documents \subseteq bucket'.documents
    <3>1. CASE run[w].publish
      <4>1. run[w].base = bucket.documents
        BY <2>2, <3>1 DEF PublishDocuments, MayPublish, At, Inv, RunInv
      <4>2. bucket' = [bucket EXCEPT !.documents = run[w].base \cup (run[w].read \cap Documents)]
        BY <2>2, <3>1 DEF PublishDocuments
      <4> QED BY <2>1, <4>1, <4>2
    <3> QED BY <2>2, <3>1 DEF PublishDocuments
  <2>3. ASSUME NEW w \in Workspaces, SaveCheckpoints(w)
        PROVE  bucket.documents \subseteq bucket'.documents
    <3>1. PICK failed : bucket' = bucket \/ bucket' = [bucket EXCEPT !.failed = failed]
      BY <2>3 DEF SaveCheckpoints, Save
    <3> QED BY <2>1, <3>1
  <2>4. ASSUME NEW w \in Workspaces, Upload(w)
        PROVE  bucket.documents \subseteq bucket'.documents
    BY <2>1, <2>4 DEF Upload
  <2> QED BY <2>2, <2>3, <2>4
          DEF Next, Step, Schedule, Dispatch, Begin, LoadManifest, CaptureIndex, Stage,
              MergeComments, Refused, Record, Crash
<1> QED BY <1>1, Invariance, PTL DEF EtlSpec, DocumentsGrow
=============================================================================
