--------------------------- MODULE RegulationsEtl ---------------------------
(***************************************************************************)
(* pipelines/regulations.py: runs that read source files by key, publish   *)
(* documents, merge comments into the catalog, publish the keys that       *)
(* failed, and last of all the manifest that retires the keys they read.   *)
(*                                                                         *)
(* A run works in a workspace (its output directory): a runner's is new    *)
(* for every run, a desk's is kept.  Runs of different workspaces may      *)
(* overlap, as when an operator starts one beside the schedule.  Families  *)
(* are published as Publication has it: a publish is refused when another  *)
(* run moved the family since this one captured the index.                 *)
(*                                                                         *)
(* A batch holds the keys of some agencies, a chunk some of an agency's    *)
(* comments; both are batches here.  Dockets, attribute tables and the     *)
(* retries of comment text are left out, so is a full refresh.             *)
(***************************************************************************)
EXTENDS Naturals, FiniteSets

CONSTANTS Documents,     \* keys whose rows a generation holds
          Comments,      \* keys whose rows the catalog holds
          Batches,       \* batches of a sweep, numbered from 0
          BatchOf,       \* the batch of a key
          Runners,       \* workspaces that are new for every run
          Desks,         \* workspaces that are kept
          Dispatches,    \* what unscheduled runs are asked to do
          VetAtDesk,     \* may a desk run with skip_upload?
          Disturbances,  \* crashes and unscheduled runs, bounded
          None

Keys       == Documents \cup Comments
Workspaces == Runners \cup Desks

ASSUME EtlAssumption ==
    /\ Documents \cap Comments = {}
    /\ \A keys \in SUBSET Keys : keys # None
    /\ Batches \in Nat \ {0}
    /\ BatchOf \in [Keys -> 0..(Batches - 1)]
    /\ Runners \cap Desks = {}
    /\ Dispatches \subseteq [kind : {"sweep", "batch", "chunked"}, publish : BOOLEAN]
    /\ VetAtDesk \in BOOLEAN
    /\ Disturbances \in Nat

VARIABLES bucket,    \* the published documents, failed keys and manifest
          catalog,   \* the comments in the catalog
          local,     \* per workspace: manifest.parquet in it
          run,       \* per workspace: its run
          disturbed  \* how many crashes and unscheduled runs there were

vars == <<bucket, catalog, local, run, disturbed>>

Families == {"documents", "checkpoints"}
Kinds    == {"sweep", "batch", "chunked"}

(* seen: keys the manifest in memory knows.  base, failed: the documents   *)
(* and the failed keys of the captured index, as the run advances them.    *)
(* unmoved: the families no other run published since.  read, missed: keys *)
(* of the batch at hand that were read, and those that were not.           *)
Run == [at      : {"idle", "prepare", "merge", "comments", "checkpoint", "record", "upload"},
        kind    : Kinds,
        publish : BOOLEAN,
        todo    : SUBSET (0..(Batches - 1)),
        seen    : {None} \cup SUBSET Keys,
        base    : {None} \cup SUBSET Documents,
        failed  : SUBSET Keys,
        unmoved : SUBSET Families,
        read    : SUBSET Keys,
        missed  : SUBSET Keys]

Idle == [at |-> "idle", kind |-> "sweep", publish |-> TRUE, todo |-> {}, seen |-> None,
         base |-> None, failed |-> {}, unmoved |-> {}, read |-> {}, missed |-> {}]

TypeOK ==
    /\ bucket \in [documents : SUBSET Documents,
                   failed    : SUBSET Keys,
                   manifest  : {None} \cup SUBSET Keys]
    /\ catalog \subseteq Comments
    /\ local \in [Workspaces -> {None} \cup SUBSET Keys]
    /\ run \in [Workspaces -> Run]
    /\ disturbed \in 0..Disturbances

(* A first run, or a manifest of before unresolved keys were remembered:   *)
(* it retires keys that could not be read, and the failed keys name them.  *)
Init ==
    /\ \E legacy \in SUBSET Keys :
         bucket = [documents |-> {}, failed |-> legacy,
                   manifest |-> IF legacy = {} THEN None ELSE legacy]
    /\ catalog = {}
    /\ local = [w \in Workspaces |-> None]
    /\ run = [w \in Workspaces |-> Idle]
    /\ disturbed = 0

-----------------------------------------------------------------------------
At(w, step) == run[w].at = step
Disturb == disturbed < Disturbances /\ disturbed' = disturbed + 1

(* _agencies: a sweep goes through every batch and a chunked run through   *)
(* every chunk of comments; any other run takes one batch.                 *)
SweepBatches == 0..(Batches - 1)

Plans(kind) == CASE kind = "sweep"   -> {SweepBatches}
                 [] kind = "chunked" -> {{BatchOf[k] : k \in Comments}} \ {{}}
                 [] OTHER            -> {{b} : b \in SweepBatches}

Begin(w, kind, publish) ==
    /\ At(w, "idle")
    /\ \E todo \in Plans(kind) :
         run' = [run EXCEPT ![w] = [Idle EXCEPT !.at = "prepare", !.kind = kind,
                                                !.publish = publish, !.todo = todo]]
    /\ local' = [local EXCEPT ![w] = IF w \in Runners THEN None ELSE @]
    /\ UNCHANGED <<bucket, catalog>>

Schedule(w) == w \in Runners /\ Begin(w, "sweep", TRUE) /\ UNCHANGED disturbed

Dispatch(w) ==
    /\ \E d \in Dispatches :
         /\ d.publish \/ w \in Runners \/ VetAtDesk
         /\ Begin(w, d.kind, d.publish)
    /\ Disturb

(* Manifest.load: the workspace's own file, or else a copy of the          *)
(* published one; without either a run goes on only if it was allowed to.  *)
(* A sweep loads it once, before its batches; another run after its index. *)
LoadManifest(w) ==
    LET found == IF local[w] # None THEN local[w] ELSE bucket.manifest IN
    /\ At(w, "prepare") /\ run[w].seen = None
    /\ run[w].kind = "sweep" \/ run[w].base # None
    /\ local' = [local EXCEPT ![w] = found]
    /\ run' = [run EXCEPT ![w].seen = IF found = None THEN {} ELSE found]
    /\ UNCHANGED <<bucket, catalog, disturbed>>

CaptureIndex(w) ==
    /\ At(w, "prepare") /\ run[w].base = None
    /\ run[w].kind = "sweep" => run[w].seen # None
    /\ run' = [run EXCEPT ![w].base = bucket.documents, ![w].failed = bucket.failed,
                          ![w].unmoved = Families]
    /\ UNCHANGED <<bucket, catalog, local, disturbed>>

Current(w) == CHOOSE b \in run[w].todo : \A other \in run[w].todo : b <= other

InBatch(w) == {k \in Keys : BatchOf[k] = Current(w) /\ (run[w].kind = "chunked" => k \in Comments)}

(* stage_agencies: the keys the manifest does not list, and those that     *)
(* failed before whether it lists them or not.  Any of them may fail.      *)
(* A fault: failed keys are retried only if the manifest does not list them. *)
AttemptedNew(w) == InBatch(w) \ run[w].seen
Attempted(w) == InBatch(w) \cap ((Keys \ run[w].seen) \cup run[w].failed)

Stage(w) ==
    /\ At(w, "prepare") /\ run[w].seen # None /\ run[w].base # None
    /\ \E missed \in SUBSET Attempted(w) :
         run' = [run EXCEPT ![w].read = Attempted(w) \ missed,
                            ![w].missed = missed,
                            ![w].at = IF missed = Attempted(w) THEN "checkpoint"
                                      ELSE IF run[w].kind = "chunked" THEN "comments" ELSE "merge"]
    /\ UNCHANGED <<bucket, catalog, local, disturbed>>

-----------------------------------------------------------------------------
(* A publish moves the family under every other run; one that captured the *)
(* index before is refused and ends, whatever it did so far.               *)
Advance(w, step) == [run EXCEPT ![w].at = step]
Moved(runs, w, family) ==
    [v \in Workspaces |-> IF v = w THEN runs[v] ELSE [runs[v] EXCEPT !.unmoved = @ \ {family}]]

(* A fault: the write is not conditional on the captured entry. *)
MayPublishAnyway(w, family) == run[w].publish
MayPublish(w, family) == run[w].publish /\ family \in run[w].unmoved

Refused(w, family) ==
    /\ run[w].publish /\ family \notin run[w].unmoved
    /\ \/ family = "documents" /\ At(w, "merge")
       \/ family = "checkpoints" /\ At(w, "checkpoint")
    /\ run' = [run EXCEPT ![w] = Idle]
    /\ UNCHANGED <<bucket, catalog, local, disturbed>>

(* _merge: the captured documents with the rows read, published as a       *)
(* generation even when only comments were staged; then the comments.      *)
PublishDocuments(w) ==
    LET rows == run[w].base \cup (run[w].read \cap Documents) IN
    /\ At(w, "merge")
    /\ IF run[w].publish
         THEN /\ MayPublish(w, "documents")
              /\ bucket' = [bucket EXCEPT !.documents = rows]
              /\ run' = Moved(Advance(w, "comments"), w, "documents")
         ELSE /\ run' = Advance(w, "comments")
              /\ UNCHANGED bucket
    /\ UNCHANGED <<catalog, local, disturbed>>

MergeComments(w) ==
    /\ At(w, "comments")
    /\ catalog' = catalog \cup (run[w].read \cap Comments)
    /\ run' = Advance(w, "checkpoint")
    /\ UNCHANGED <<bucket, local, disturbed>>

(* UnresolvedKeys.update and _save_checkpoints. *)
Save(w, failed) ==
    LET saved == [run EXCEPT ![w].at = "record", ![w].failed = failed] IN
    /\ At(w, "checkpoint")
    /\ IF run[w].publish
         THEN /\ MayPublish(w, "checkpoints")
              /\ bucket' = [bucket EXCEPT !.failed = failed]
              /\ run' = Moved(saved, w, "checkpoints")
         ELSE /\ run' = saved
              /\ UNCHANGED bucket
    /\ UNCHANGED <<catalog, local, disturbed>>

(* A fault: the failed keys of other batches are not carried over. *)
SaveOwnCheckpoints(w) == Save(w, run[w].missed)
SaveCheckpoints(w) == Save(w, (run[w].failed \ run[w].read) \cup run[w].missed)

(* Manifest.record and save: what memory did not know is appended to the   *)
(* workspace's file.                                                       *)
Record(w) ==
    LET new == run[w].read \ run[w].seen IN
    /\ At(w, "record")
    /\ local' = [local EXCEPT ![w] = IF new = {} THEN @ ELSE new \cup IF @ = None THEN {} ELSE @]
    /\ run' = [run EXCEPT ![w].at = "upload", ![w].seen = @ \cup new]
    /\ UNCHANGED <<bucket, catalog, disturbed>>

(* _publish: the workspace's manifest replaces the published one.  The     *)
(* next batch captures the index anew, the next chunk goes on with its     *)
(* own.  Afterwards the workspace of a runner is gone.                     *)
NextBatch(w) ==
    LET rest == run[w].todo \ {Current(w)}
        next == [run[w] EXCEPT !.at = "prepare", !.todo = rest, !.read = {}, !.missed = {}] IN
    IF rest = {} THEN Idle
    ELSE IF run[w].kind = "chunked" THEN next
    ELSE [next EXCEPT !.base = None, !.failed = {}, !.unmoved = {}]

Upload(w) ==
    /\ At(w, "upload")
    /\ bucket' = IF run[w].publish /\ local[w] # None
                   THEN [bucket EXCEPT !.manifest = local[w]] ELSE bucket
    /\ run' = [run EXCEPT ![w] = NextBatch(w)]
    /\ UNCHANGED <<catalog, local, disturbed>>

(* A crash, a cancelled job or an exception anywhere; a sweep stops.       *)
Crash(w) ==
    /\ ~At(w, "idle")
    /\ run' = [run EXCEPT ![w] = Idle]
    /\ Disturb
    /\ UNCHANGED <<bucket, catalog, local>>

Step(w) ==
    \/ LoadManifest(w) \/ CaptureIndex(w) \/ Stage(w)
    \/ PublishDocuments(w) \/ MergeComments(w) \/ SaveCheckpoints(w)
    \/ \E family \in Families : Refused(w, family)
    \/ Record(w) \/ Upload(w)

Next ==
    \E w \in Workspaces : Schedule(w) \/ Dispatch(w) \/ Step(w) \/ Crash(w)

(* A job that was started goes on until it ends or is killed, and the      *)
(* schedule starts sweeps again and again.  Crashes and unscheduled runs   *)
(* are only so many, so that weak fairness says that.                      *)
Fairness == \A w \in Workspaces : WF_vars(Step(w)) /\ WF_vars(Schedule(w))

EtlSpec == Init /\ [][Next]_vars
Spec == EtlSpec /\ Fairness

-----------------------------------------------------------------------------
Held(k) == k \in bucket.documents \/ k \in catalog

(* The inductive invariant, when a desk always publishes: whatever a run   *)
(* may upload names only keys that are held or remembered as failed.       *)
Sound(keys) == \A k \in keys : Held(k) \/ k \in bucket.failed

RunInv(w) ==
    LET r == run[w] IN
    /\ r.at \notin {"idle", "prepare"} => r.seen # None /\ r.base # None
    /\ r.at # "idle" /\ w \in Desks => r.publish
    /\ r.at = "merge" => r.kind # "chunked"
    /\ "documents" \in r.unmoved /\ (r.at \in {"prepare", "merge"} \/ r.kind = "chunked") =>
           r.base = bucket.documents
    /\ "checkpoints" \in r.unmoved /\ r.publish => r.failed = bucket.failed
    /\ r.at = "comments" /\ r.publish => \A k \in r.read \cap Documents : Held(k)
    /\ r.at \in {"checkpoint", "record", "upload"} /\ r.publish => \A k \in r.read : Held(k)
    /\ (w \in Desks \/ (r.at # "idle" /\ r.publish)) /\ local[w] # None => Sound(local[w])

Inv ==
    /\ TypeOK
    /\ bucket.manifest # None => Sound(bucket.manifest)
    /\ \A w \in Workspaces : RunInv(w)

(* A key the published manifest retires has its rows in the published      *)
(* documents or the catalog, or is remembered as failed: after a crash at  *)
(* any step, no later run skips a key whose rows are missing.              *)
RetiredIsHeld ==
    bucket.manifest # None => \A k \in bucket.manifest : Held(k) \/ k \in bucket.failed

(* Overlapping runs never drop rows another one published.                 *)
DocumentsGrow == [][bucket.documents \subseteq bucket'.documents]_vars

(* A key whose reads stop failing lands in the documents or the catalog,   *)
(* whatever was crashed, refused, retired or left behind before.           *)
KeyLands ==
    \A k \in Keys :
        <>[](\A w \in Workspaces : k \notin run[w].missed) => <>Held(k)
=============================================================================
