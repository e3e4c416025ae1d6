--------------------------- MODULE RulemakingProofs ---------------------------
(***************************************************************************)
(* Proofs about the rulemaking dataset's pointer, for every number of runs *)
(* and artifacts: a write under way carries the prior its manifest states, *)
(* and its snapshot is stored, so whichever write is applied replaces the  *)
(* snapshot it was built from by a complete one.  What is reached from     *)
(* latest.json by way of the previous snapshots only grows, by snapshots   *)
(* that were not in it.                                                    *)
(***************************************************************************)
EXTENDS RulemakingDataset, TLAPS

(* Where a run can be. *)
Places == {"idle", "built", "guarded", "rechecked", "sent", "published", "refused", "lost"}
RunRecord == [at : Places, bootstrap : BOOLEAN, prior : Snapshot]

(* A run that only moves keeps its prior and its type. *)
LEMMA Moves ==
    ASSUME TypeOK, NEW r \in Runs, NEW to \in Places,
           run' = [run EXCEPT ![r].at = to]
    PROVE  /\ run' \in [Runs -> RunRecord]
           /\ \A s \in Runs : run'[s].prior = run[s].prior
           /\ \A s \in Runs : s # r => run'[s] = run[s]
           /\ run'[r].at = to
  BY DEF TypeOK, RunRecord, Places

-----------------------------------------------------------------------------
(* From: the least set that holds start and the previous of each member. *)

LEMMA FromHolds ==
    ASSUME NEW start \in Snapshot, NEW back \in [Runs -> Snapshot]
    PROVE  /\ From(start, back) \subseteq Runs
           /\ start # None => start \in From(start, back)
           /\ \A s \in From(start, back) : back[s] # None => back[s] \in From(start, back)
<1>1. From(start, back) \subseteq Runs
  BY DEF From
<1>2. start # None => start \in From(start, back)
  BY DEF From, Snapshot
<1>3. ASSUME NEW s \in From(start, back), back[s] # None
      PROVE  back[s] \in From(start, back)
  <2>1. s \in Runs /\ back[s] \in Runs
    BY <1>1, <1>3 DEF Snapshot
  <2>2. ASSUME NEW closed \in SUBSET Runs, start # None => start \in closed,
               \A r \in closed : back[r] # None => back[r] \in closed
        PROVE  back[s] \in closed
    <3>1. s \in closed
      BY <2>2 DEF From
    <3> QED BY <1>3, <2>2, <3>1
  <2> QED BY <2>1, <2>2 DEF From
<1> QED BY <1>1, <1>2, <1>3

LEMMA FromLeast ==
    ASSUME NEW start, NEW back, NEW closed \in SUBSET Runs,
           start # None => start \in closed,
           \A r \in closed : back[r] # None => back[r] \in closed
    PROVE  From(start, back) \subseteq closed
  BY DEF From

LEMMA FromNone ==
    ASSUME NEW back
    PROVE  From(None, back) = {}
<1>1. {} \in SUBSET Runs
  OBVIOUS
<1> QED BY <1>1 DEF From

(* It depends on the previous snapshots of its members only. *)
LEMMA FromSame ==
    ASSUME NEW start \in Snapshot, NEW back \in [Runs -> Snapshot], NEW other \in [Runs -> Snapshot],
           \A s \in From(start, back) : other[s] = back[s]
    PROVE  From(start, other) = From(start, back)
<1> DEFINE both == From(start, back) \cap From(start, other)
<1>1. From(start, other) \subseteq From(start, back)
  BY FromHolds, FromLeast
<1>2. /\ both \in SUBSET Runs
      /\ start # None => start \in both
      /\ \A s \in both : back[s] # None => back[s] \in both
  BY FromHolds
<1>3. From(start, back) \subseteq both
  <2> HIDE DEF both
  <2> QED BY <1>2, FromLeast
<1> QED BY <1>1, <1>3

(* One snapshot more. *)
LEMMA FromNext ==
    ASSUME NEW start \in Snapshot, NEW back \in [Runs -> Snapshot], NEW r \in Runs, back[r] = start
    PROVE  From(r, back) = From(start, back) \cup {r}
<1>1. r \in Snapshot /\ r # None
  BY DatasetAssumption DEF Snapshot, DatasetAssumption
<1>2. From(r, back) \subseteq From(start, back) \cup {r}
  <2> DEFINE more == From(start, back) \cup {r}
  <2>1. more \in SUBSET Runs /\ r \in more /\ \A s \in more : back[s] # None => back[s] \in more
    BY FromHolds
  <2> HIDE DEF more
  <2>2. From(r, back) \subseteq more
    BY <2>1, FromLeast
  <2> QED BY <2>2 DEF more
<1>3. From(start, back) \subseteq From(r, back) /\ r \in From(r, back)
  <2>1. /\ From(r, back) \in SUBSET Runs /\ r \in From(r, back)
        /\ \A s \in From(r, back) : back[s] # None => back[s] \in From(r, back)
    BY <1>1, FromHolds
  <2> QED BY <2>1, FromLeast
<1> QED BY <1>2, <1>3

(* Most steps leave latest.json's lineage as it is. *)
LEMMA LineageStays ==
    ASSUME Inv, TypeOK', UNCHANGED pointer,
           \A s \in Runs : run[s].at # "idle" => run'[s].at # "idle" /\ previous'[s] = previous[s],
           \A s \in Runs : run'[s].at = "published" => run[s].at = "published"
    PROVE  LineageInv'
<1>1. /\ pointer \in Snapshot
      /\ previous \in [Runs -> Snapshot] /\ previous' \in [Runs -> Snapshot]
  BY DEF Inv, TypeOK
<1>2. \A s \in Lineage : s \in Runs /\ run[s].at # "idle" /\ previous[s] # pointer
  BY <1>1, FromHolds DEF Inv, LineageInv, Lineage
<1>3. \A s \in From(pointer, previous) : previous'[s] = previous[s]
  BY <1>2 DEF Lineage
<1>4. Lineage' = Lineage
  BY <1>1, <1>3, FromSame DEF Lineage
<1> QED BY <1>2, <1>4 DEF Inv, LineageInv

(* The one other change: the snapshot built from the present one follows it. *)
LEMMA LineageGrows ==
    ASSUME Inv, NEW r \in Runs, previous[r] = pointer, pointer' = r, UNCHANGED previous,
           run[r].at # "idle",
           \A s \in Runs : run[s].at # "idle" => run'[s].at # "idle",
           \A s \in Runs \ {r} : run'[s].at = "published" => run[s].at = "published"
    PROVE  LineageInv' /\ r \notin Lineage
<1>1. pointer \in Snapshot /\ previous \in [Runs -> Snapshot] /\ r # None
  BY DatasetAssumption DEF Inv, TypeOK, DatasetAssumption
<1>2. /\ \A s \in Lineage : s \in Runs /\ run[s].at # "idle" /\ previous[s] # pointer
      /\ \A s \in Lineage : previous[s] # None => previous[s] \in Lineage
      /\ pointer # None => pointer \in Lineage
  BY <1>1, FromHolds DEF Inv, LineageInv, Lineage
<1>3. Lineage' = Lineage \cup {r}
  BY <1>1, FromNext DEF Lineage
<1>4. r \notin Lineage
  BY <1>2
<1>5. \A s \in Lineage \cup {r} : previous[s] # r
  BY <1>1, <1>2, <1>4
<1> QED BY <1>2, <1>3, <1>4, <1>5 DEF Inv, LineageInv

-----------------------------------------------------------------------------
LEMMA InitInv == Init => Inv
<1> SUFFICES ASSUME Init PROVE Inv
  OBVIOUS
<1>1. TypeOK
  <2>1. run \in [Runs -> RunRecord]
    BY DEF Init, RunRecord, Places, Snapshot
  <2>2. \A r \in Runs : run[r].prior = None
    BY DEF Init
  <2> QED BY <2>1, <2>2 DEF Init, TypeOK, Snapshot, RunRecord, Places
<1>2. \A r \in Runs : run[r].at = "idle"
  BY DEF Init
<1>3. LineageInv
  BY <1>2, FromNone DEF Init, Lineage, LineageInv
<1> QED BY <1>1, <1>2, <1>3 DEF Init, Inv

-----------------------------------------------------------------------------
(* One lemma per group of steps. *)

LEMMA BuildInv == \A r \in Runs : Inv /\ Build(r) => Inv'
<1> SUFFICES ASSUME NEW r \in Runs, Inv, Build(r) PROVE Inv'
  OBVIOUS
<1> DEFINE now == [run[r] EXCEPT !.at = "built", !.prior = pointer]
<1>1. /\ run[r].at = "idle" /\ run \in [Runs -> RunRecord] /\ pointer \in Snapshot
      /\ run' = [run EXCEPT ![r].at = "built", ![r].prior = pointer]
      /\ previous' = [previous EXCEPT ![r] = pointer]
      /\ UNCHANGED <<pointer, objects, inflight>>
  BY DEF Inv, TypeOK, Build, RunRecord, Places
<1>2. /\ run'[r].at = "built" /\ run'[r].prior = pointer /\ run'[r].bootstrap = run[r].bootstrap
      /\ run' \in [Runs -> RunRecord]
      /\ \A s \in Runs : s # r => run'[s] = run[s]
  <2>1. run' = [run EXCEPT ![r] = now]
    BY <1>1 DEF RunRecord
  <2>2. now \in RunRecord
    BY <1>1 DEF RunRecord, Places
  <2>3. now.at = "built" /\ now.prior = pointer /\ now.bootstrap = run[r].bootstrap
    BY <1>1 DEF RunRecord
  <2> HIDE DEF now
  <2> QED BY <2>1, <2>2, <2>3, <1>1
<1>3. TypeOK'
  <2>1. \A s \in Runs : previous'[s] = run'[s].prior
    BY <1>1, <1>2 DEF Inv, TypeOK
  <2> QED BY <1>1, <1>2, <2>1 DEF Inv, TypeOK, RunRecord, Places
<1>4. \A w \in inflight' : w.snapshot # r
  BY <1>1 DEF Inv
<1>5. LineageInv'
  <2>1. \A s \in Runs : run[s].at # "idle" => s # r
    BY <1>1
  <2>2. \A s \in Runs \ {r} : previous'[s] = previous[s]
    BY <1>1 DEF Inv, TypeOK
  <2> QED BY <1>1, <1>2, <1>3, <2>1, <2>2, LineageStays
<1> QED BY <1>1, <1>2, <1>3, <1>4, <1>5 DEF Inv, TypeOK

(* A run moves on, with no effect outside. *)
LEMMA MoveInv ==
    ASSUME Inv, NEW r \in Runs, NEW to \in Places \ {"idle", "published"},
           run' = [run EXCEPT ![r].at = to],
           to \in {"rechecked", "sent"} => "manifest" \in objects[r],
           UNCHANGED <<pointer, objects, previous, inflight>>
    PROVE  Inv'
<1>1. /\ run' \in [Runs -> RunRecord]
      /\ \A s \in Runs : run'[s].prior = run[s].prior
      /\ \A s \in Runs : s # r => run'[s] = run[s]
      /\ run'[r].at = to
  BY Moves DEF Inv
<1>2. TypeOK'
  BY <1>1 DEF Inv, TypeOK, RunRecord, Places
<1>3. LineageInv'
  BY <1>1, <1>2, LineageStays
<1> QED BY <1>1, <1>2, <1>3 DEF Inv, TypeOK

LEMMA UploadInv == \A r \in Runs : Inv /\ (UploadArtifact(r) \/ UploadManifest(r)) => Inv'
<1> SUFFICES ASSUME NEW r \in Runs, Inv, UploadArtifact(r) \/ UploadManifest(r) PROVE Inv'
  OBVIOUS
<1>1. /\ UNCHANGED <<pointer, previous, run, inflight>>
      /\ objects \in [Runs -> SUBSET Complete]
      /\ run[r].at = "guarded"
  BY DEF Inv, TypeOK, UploadArtifact, UploadManifest
<1>2. PICK k \in Complete : /\ objects' = [objects EXCEPT ![r] = @ \cup {k}]
                            /\ k = "manifest" => Parts \subseteq objects[r]
  <2>1. CASE UploadArtifact(r)
    BY <2>1, DatasetAssumption DEF UploadArtifact, Complete, DatasetAssumption
  <2>2. CASE UploadManifest(r)
    BY <2>2 DEF UploadManifest, Complete
  <2> QED BY <2>1, <2>2
<1>3. /\ objects' \in [Runs -> SUBSET Complete]
      /\ \A s \in Runs : s # r => objects'[s] = objects[s]
      /\ objects'[r] = objects[r] \cup {k}
  BY <1>1, <1>2
<1>4. \A s \in Runs : objects[s] = Complete => objects'[s] = Complete
  BY <1>1, <1>3
<1>5. \A s \in Runs : "manifest" \in objects'[s] => objects'[s] = Complete
  BY <1>1, <1>2, <1>3, <1>4 DEF Inv, Complete
<1>6. TypeOK'
  BY <1>1, <1>3 DEF Inv, TypeOK, Snapshot
<1>7. LineageInv'
  BY <1>1, <1>6, LineageStays
<1> QED BY <1>1, <1>3, <1>4, <1>5, <1>6, <1>7 DEF Inv, TypeOK, Snapshot

(* A request starts, or starts again, under way. *)
LEMMA WriteType ==
    ASSUME Inv, NEW r \in Runs, "manifest" \in objects[r]
    PROVE  /\ Write(r) \in [snapshot : Runs, etag : Snapshot]
           /\ Write(r).snapshot = r
           /\ Write(r).etag = run[r].prior
           /\ objects[r] = Complete
  BY DEF Inv, TypeOK, Write

LEMMA SendInv == \A r \in Runs : Inv /\ Send(r) => Inv'
<1> SUFFICES ASSUME NEW r \in Runs, Inv, Send(r) PROVE Inv'
  OBVIOUS
<1>1. /\ run[r].at = "rechecked" /\ run' = [run EXCEPT ![r].at = "sent"]
      /\ inflight' = inflight \cup {Write(r)}
      /\ UNCHANGED <<pointer, objects, previous>>
      /\ "manifest" \in objects[r]
  BY DEF Send, Advance, Inv
<1>2. /\ run' \in [Runs -> RunRecord]
      /\ \A s \in Runs : run'[s].prior = run[s].prior
      /\ \A s \in Runs : s # r => run'[s] = run[s]
      /\ run'[r].at = "sent"
  BY <1>1, Moves DEF Inv, Places
<1>3. TypeOK'
  BY <1>1, <1>2, WriteType DEF Inv, TypeOK, RunRecord, Places
<1>4. \A w \in inflight' : /\ objects[w.snapshot] = Complete
                           /\ w.etag = run'[w.snapshot].prior
                           /\ run'[w.snapshot].at # "idle"
  BY <1>1, <1>2, WriteType DEF Inv, TypeOK
<1>5. LineageInv'
  BY <1>1, <1>2, <1>3, LineageStays
<1> QED BY <1>1, <1>2, <1>3, <1>4, <1>5 DEF Inv

LEMMA ResendInv == \A r \in Runs : Inv /\ Resend(r) => Inv'
<1> SUFFICES ASSUME NEW r \in Runs, Inv, Resend(r) PROVE Inv'
  OBVIOUS
<1>1. /\ run[r].at = "sent" /\ inflight' = inflight \cup {Write(r)}
      /\ pointer' = pointer \/ (pointer' = r /\ pointer = run[r].prior)
      /\ UNCHANGED <<objects, previous, run>>
      /\ "manifest" \in objects[r]
  BY DEF Resend, Inv
<1>2. TypeOK'
  BY <1>1, WriteType DEF Inv, TypeOK, Snapshot
<1>3. LineageInv'
  <2>1. CASE pointer' = pointer
    BY <1>1, <1>2, <2>1, LineageStays
  <2>2. CASE pointer' = r /\ pointer = run[r].prior
    <3>1. previous[r] = pointer
      BY <2>2 DEF Inv, TypeOK
    <3>2. \A s \in Runs : run[s].at = "published" => run[s].at # "sent"
      OBVIOUS
    <3> QED BY <1>1, <2>2, <3>1, <3>2, LineageGrows
  <2> QED BY <1>1, <2>1, <2>2
<1> QED BY <1>1, <1>2, <1>3, WriteType DEF Inv

LEMMA ArriveInv == \A w \in inflight : Inv /\ Arrive(w) => Inv'
<1> SUFFICES ASSUME NEW w \in inflight, Inv, Arrive(w) PROVE Inv'
  OBVIOUS
<1> DEFINE r == w.snapshot
           to == IF run[r].at # "sent" THEN run[r].at
                 ELSE IF pointer = w.etag THEN "published" ELSE "refused"
<1>1. /\ r \in Runs
      /\ IF pointer = w.etag THEN pointer' = r ELSE pointer' = pointer
      /\ run' = [run EXCEPT ![r].at = to]
      /\ inflight' = inflight \ {w}
      /\ UNCHANGED <<objects, previous>>
      /\ objects[r] = Complete
      /\ run[r].at # "idle"
      /\ run[r].at \in Places
  BY DEF Arrive, Inv, TypeOK, Places
<1>2. to \in Places \ {"idle"} /\ to # "sent" /\ (to = "rechecked" => run[r].at = "rechecked")
  BY <1>1 DEF Places
<1>7. /\ pointer = w.etag => previous[r] = pointer
      /\ to = "published" /\ pointer # w.etag => run[r].at = "published"
  BY <1>1 DEF Inv, TypeOK
<1> HIDE DEF to
<1>3. /\ run' \in [Runs -> RunRecord]
      /\ \A s \in Runs : run'[s].prior = run[s].prior
      /\ \A s \in Runs : s # r => run'[s] = run[s]
      /\ run'[r].at = to
  BY <1>1, <1>2, Moves DEF Inv
<1>4. TypeOK'
  BY <1>1, <1>3 DEF Inv, TypeOK, RunRecord, Places, Snapshot
<1>5. \A s \in Runs : run'[s].at \in {"rechecked", "sent"} => run[s].at \in {"rechecked", "sent"}
  BY <1>2, <1>3
<1>6. \A s \in Runs : run[s].at # "idle" => run'[s].at # "idle"
  BY <1>2, <1>3
<1>8. LineageInv'
  <2>1. CASE pointer = w.etag
    BY <1>1, <1>3, <1>6, <1>7, <2>1, LineageGrows
  <2>2. CASE pointer # w.etag
    <3>1. \A s \in Runs : run'[s].at = "published" => run[s].at = "published"
      BY <1>3, <1>7, <2>2
    <3> QED BY <1>1, <1>4, <1>6, <2>2, <3>1, LineageStays
  <2> QED BY <2>1, <2>2
<1> QED BY <1>1, <1>3, <1>4, <1>5, <1>6, <1>8 DEF Inv, TypeOK

LEMMA StepInv == Inv /\ [Next]_vars => Inv'
<1> SUFFICES ASSUME Inv, [Next]_vars PROVE Inv'
  OBVIOUS
<1>1. ASSUME NEW r \in Runs, Guard(r) PROVE Inv'
  BY <1>1, MoveInv DEF Guard, Advance, Places
<1>2. ASSUME NEW r \in Runs, Recheck(r) PROVE Inv'
  BY <1>2, MoveInv DEF Recheck, Advance, Places
<1>3. ASSUME NEW r \in Runs, Stop(r) PROVE Inv'
  BY <1>3, MoveInv DEF Stop, Places
<1>4. CASE UNCHANGED vars
  BY <1>4 DEF vars, Inv, TypeOK, LineageInv, Lineage
<1> QED BY <1>1, <1>2, <1>3, <1>4, BuildInv, UploadInv, SendInv, ResendInv, ArriveInv DEF Next

(* The inductive invariant holds throughout. *)
THEOREM Invariance == Spec => []Inv
  BY InitInv, StepInv, PTL DEF Spec

(* Every variable keeps its type; a run's captured prior is the one its    *)
(* manifest states (materialized.py:396, rulemaking_dataset.py:113).       *)
THEOREM TypeCorrect == Spec => []TypeOK
<1>1. Inv => TypeOK
  BY DEF Inv
<1> QED BY <1>1, Invariance, PTL

(* latest.json never names a snapshot with an object missing, whichever    *)
(* run died, was overtaken or had its write arrive late.                   *)
THEOREM SelectedIsComplete == Spec => []SelectedComplete
<1>1. Inv => SelectedComplete
  BY DEF Inv, SelectedComplete
<1> QED BY <1>1, Invariance, PTL

(* Every change of latest.json replaces the very snapshot the new one was  *)
(* built from (rulemaking_dataset.py:133) by one never current before.     *)
LEMMA StepReplaces ==
    ASSUME Inv, [Next]_vars, pointer' # pointer
    PROVE  previous[pointer'] = pointer /\ pointer' \notin Lineage
<1>1. ASSUME NEW w \in inflight, Arrive(w) PROVE previous[pointer'] = pointer /\ pointer' \in Runs
  <2>1. pointer = w.etag /\ pointer' = w.snapshot
    BY <1>1 DEF Arrive
  <2> QED BY <1>1, <2>1 DEF Inv, TypeOK
<1>2. ASSUME NEW r \in Runs, Resend(r) PROVE previous[pointer'] = pointer /\ pointer' \in Runs
  <2>1. pointer = run[r].prior /\ pointer' = r
    BY <1>2 DEF Resend
  <2> QED BY <1>2, <2>1 DEF Inv, TypeOK
<1>3. previous[pointer'] = pointer
  BY <1>1, <1>2
     DEF Next, vars, Build, Guard, UploadArtifact, UploadManifest, Recheck, Send, Stop
<1> QED BY <1>3 DEF Inv, LineageInv

THEOREM ReplacesItsPrior == Spec => PriorIsReplaced
<1>1. Inv /\ [Next]_vars =>
        [pointer' # pointer => previous[pointer'] = pointer /\ pointer' \notin Lineage]_vars
  BY StepReplaces
<1> QED BY <1>1, Invariance, PTL DEF Spec, PriorIsReplaced

(* No published snapshot is ever lost: the manifests lead back to it from  *)
(* whatever latest.json names later.                                       *)
THEOREM PublishedSnapshotsStay == Spec => []PublishedStays
<1>1. Inv => PublishedStays
  BY DEF Inv, LineageInv, PublishedStays
<1> QED BY <1>1, Invariance, PTL
=============================================================================
