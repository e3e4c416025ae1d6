-------------------------- MODULE RulemakingDataset --------------------------
(***************************************************************************)
(* pipelines/materialized.py as pipelines/rulemaking_dataset.py runs it:   *)
(* a run restores the snapshot latest.json names, builds the next one from *)
(* it, uploads its artifacts and then its manifest under keys of its own,  *)
(* and replaces latest.json on the captured pointer's ETag.                *)
(*                                                                         *)
(* A snapshot id hashes the run id, so every build has its own; the ETag   *)
(* of the pointer is a digest of its bytes, which name one snapshot: the   *)
(* run stands for its snapshot and for that ETag.  Source inputs, stages   *)
(* and receipts are data.  A pointer write can land and lose its answer,   *)
(* be resent by the client, or arrive after its run gave up.               *)
(***************************************************************************)
EXTENDS Naturals, FiniteSets

CONSTANTS Runs,        \* runs of the pipeline, each used once
          Parts,       \* the artifacts of a snapshot besides its manifest
          None

ASSUME DatasetAssumption ==
    /\ None \notin Runs
    /\ "manifest" \notin Parts

VARIABLES pointer,   \* latest.json: the snapshot it names
          objects,   \* per snapshot: what is stored under its prefix
          previous,  \* per snapshot: previous_snapshot_id in its manifest
          run,       \* per run: where it is, the prior it captured
          inflight   \* pointer writes sent and not yet arrived

vars == <<pointer, objects, previous, run, inflight>>

Snapshot == Runs \cup {None}
Complete == Parts \cup {"manifest"}

TypeOK ==
    /\ pointer \in Snapshot
    /\ objects \in [Runs -> SUBSET Complete]
    /\ previous \in [Runs -> Snapshot]
    /\ run \in [Runs -> [at        : {"idle", "built", "guarded", "rechecked", "sent",
                                      "published", "refused", "lost"},
                         bootstrap : BOOLEAN,
                         prior     : Snapshot]]
    /\ \A r \in Runs : previous[r] = run[r].prior
    /\ inflight \subseteq [snapshot : Runs, etag : Snapshot]

Init ==
    /\ pointer = None
    /\ objects = [r \in Runs |-> {}]
    /\ previous = [r \in Runs |-> None]
    /\ run \in [Runs -> {[at |-> "idle", bootstrap |-> b, prior |-> None] : b \in BOOLEAN}]
    /\ inflight = {}

Advance(r, from, to) == run[r].at = from /\ run' = [run EXCEPT ![r].at = to]

(* _prime_previous_generation and the build: the prior is what the pointer *)
(* names, complete; without one only a bootstrap goes on.                  *)
Build(r) ==
    /\ run[r].at = "idle"
    /\ IF pointer = None THEN run[r].bootstrap ELSE objects[pointer] = Complete
    /\ run' = [run EXCEPT ![r].at = "built", ![r].prior = pointer]
    /\ previous' = [previous EXCEPT ![r] = pointer]
    /\ UNCHANGED <<pointer, objects, inflight>>

(* What _publish checks before the uploads and _publish_pointer after      *)
(* them: the stored pointer is the captured prior, its manifest is there.  *)
PriorUnchanged(r) ==
    /\ pointer = run[r].prior
    /\ IF pointer = None THEN run[r].bootstrap ELSE "manifest" \in objects[pointer]

Guard(r) ==
    /\ PriorUnchanged(r)
    /\ Advance(r, "built", "guarded")
    /\ UNCHANGED <<pointer, objects, previous, inflight>>

UploadArtifact(r) ==
    /\ run[r].at = "guarded"
    /\ \E part \in Parts \ objects[r] : objects' = [objects EXCEPT ![r] = @ \cup {part}]
    /\ UNCHANGED <<pointer, previous, run, inflight>>

(* A fault: the manifest goes up beside the artifacts. *)
UploadManifestEarly(r) ==
    /\ run[r].at = "guarded"
    /\ objects' = [objects EXCEPT ![r] = @ \cup {"manifest"}]
    /\ UNCHANGED <<pointer, previous, run, inflight>>
UploadManifest(r) ==
    /\ run[r].at = "guarded"
    /\ Parts \subseteq objects[r]
    /\ objects' = [objects EXCEPT ![r] = @ \cup {"manifest"}]
    /\ UNCHANGED <<pointer, previous, run, inflight>>

(* A fault: the stored pointer is captured afresh instead of compared.     *)
Recapture(r) ==
    /\ "manifest" \in objects[r]
    /\ run[r].at = "guarded"
    /\ run' = [run EXCEPT ![r].at = "rechecked", ![r].prior = pointer]
    /\ UNCHANGED <<pointer, objects, previous, inflight>>
Recheck(r) ==
    /\ "manifest" \in objects[r]
    /\ PriorUnchanged(r)
    /\ Advance(r, "guarded", "rechecked")
    /\ UNCHANGED <<pointer, objects, previous, inflight>>

(* _put_pointer: If-Match the captured ETag, or If-None-Match without one. *)
Write(r) == [snapshot |-> r, etag |-> run[r].prior]

Send(r) ==
    /\ Advance(r, "rechecked", "sent")
    /\ inflight' = inflight \cup {Write(r)}
    /\ UNCHANGED <<pointer, objects, previous>>

(* A fault: the request forgets the condition, as the base class's         *)
(* _publish_pointer does.                                                  *)
ArriveAnyway(w) ==
    /\ pointer' = w.snapshot
    /\ run' = [run EXCEPT ![w.snapshot].at = IF @ = "sent" THEN "published" ELSE @]
    /\ inflight' = inflight \ {w}
    /\ UNCHANGED <<objects, previous>>
(* The store applies the condition; the answer reaches a run that still    *)
(* waits for it.                                                           *)
Arrive(w) ==
    LET accepted == pointer = w.etag IN
    /\ pointer' = IF accepted THEN w.snapshot ELSE pointer
    /\ run' = [run EXCEPT ![w.snapshot].at =
                 IF @ # "sent" THEN @ ELSE IF accepted THEN "published" ELSE "refused"]
    /\ inflight' = inflight \ {w}
    /\ UNCHANGED <<objects, previous>>

(* No answer came: the first request landed, is still under way or is      *)
(* gone, and the client sends it again.                                    *)
Resend(r) ==
    /\ run[r].at = "sent"
    /\ inflight' = inflight \cup {Write(r)}
    /\ pointer' \in {pointer} \cup IF Write(r) \in inflight /\ pointer = run[r].prior THEN {r} ELSE {}
    /\ UNCHANGED <<objects, previous, run>>

(* The run refuses, fails or is cancelled.  Nothing it stored is removed,  *)
(* its write may still arrive, and no run resumes it.                      *)
Stop(r) ==
    /\ run[r].at \in {"built", "guarded", "rechecked", "sent"}
    /\ run' = [run EXCEPT ![r].at = "lost"]
    /\ UNCHANGED <<pointer, objects, previous, inflight>>

Next ==
    \/ \E r \in Runs :
         \/ Build(r) \/ Guard(r) \/ UploadArtifact(r) \/ UploadManifest(r) \/ Recheck(r)
         \/ Send(r) \/ Resend(r) \/ Stop(r)
    \/ \E w \in inflight : Arrive(w)

Spec == Init /\ [][Next]_vars

-----------------------------------------------------------------------------
(* start, the snapshot its manifest names as the previous one, the previous *)
(* one of that, and so on.                                                 *)
From(start, back) ==
    {s \in Runs : \A closed \in SUBSET Runs :
        /\ start # None => start \in closed
        /\ \A r \in closed : back[r] # None => back[r] \in closed
        => s \in closed}

Lineage == From(pointer, previous)

(* What became current was built, never again has the present snapshot for *)
(* its previous one, and is reached from latest.json.                      *)
LineageInv ==
    /\ \A s \in Lineage : run[s].at # "idle" /\ previous[s] # pointer
    /\ \A r \in Runs : run[r].at = "published" => r \in Lineage

(* The inductive invariant: a write under way, or about to be sent, names  *)
(* a snapshot that is all stored, and the prior its run captured.          *)
Inv ==
    /\ TypeOK
    /\ pointer # None => objects[pointer] = Complete
    /\ \A r \in Runs : /\ "manifest" \in objects[r] => objects[r] = Complete
                       /\ run[r].at \in {"rechecked", "sent"} => "manifest" \in objects[r]
    /\ \A w \in inflight : /\ objects[w.snapshot] = Complete
                           /\ w.etag = run[w.snapshot].prior
                           /\ run[w.snapshot].at # "idle"
    /\ LineageInv

(* Readers that resolve the pointer find the manifest and every artifact   *)
(* of the snapshot it names, whichever run died or was overtaken.          *)
SelectedComplete == pointer # None => objects[pointer] = Complete

(* A snapshot that becomes current was built from exactly the one it       *)
(* replaces, and none becomes current twice: the identities proceedings    *)
(* carry forward never fork or skip a snapshot, no write that was resent   *)
(* or comes late goes back, and a bootstrap never replaces anything.       *)
PriorIsReplaced ==
    [][pointer' # pointer => previous[pointer'] = pointer /\ pointer' \notin Lineage]_vars

(* What a run reported as published is reached from latest.json for good,  *)
(* by the previous snapshots the manifests name, whatever other runs       *)
(* publish over it or have under way.                                      *)
PublishedStays == \A r \in Runs : run[r].at = "published" => r \in Lineage
=============================================================================
