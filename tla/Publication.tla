----------------------------- MODULE Publication -----------------------------
(***************************************************************************)
(* The publication protocol of sources/publication.py.                     *)
(*                                                                         *)
(* Writers build immutable, content-addressed generations of table         *)
(* families, upload their members under create-only keys, read them back,  *)
(* and move one shared pointer object, publication.v2.json, by a           *)
(* conditional write on the ETag they read.  An operator's rollback moves  *)
(* the same pointer back.                                                  *)
(*                                                                         *)
(* Abstractions.                                                           *)
(*  - A generation is its digest; root[g] is the part of its artifact.json *)
(*    the protocol compares.  readSnapshot is reduced to the family's own  *)
(*    entry and the managed parents, the only entries ever rechecked.      *)
(*  - An entry's publishedAt is left out, so entries are generations.      *)
(*  - The pointer's ETag is a digest of its bytes, so "If-Match etag" is   *)
(*    equality with the index that was read.                               *)
(*  - Content checks (shrink guard, partitions, evidence, digests of read  *)
(*    back bytes) either pass or end the job: Fail covers their refusals,  *)
(*    exceptions and crashes alike, at any point.                          *)
(***************************************************************************)
EXTENDS Naturals, FiniteSets

CONSTANTS Families,     \* table families
          Generations,  \* artifact digests
          Publishers,   \* processes that build and publish
          Operators,    \* processes that roll a family back
          Names,        \* table and dataset names a family can claim
          Layouts,      \* the [tables, receipts] listings a build may produce
          SharedLogs,   \* shared_receipt_logs(): receipt datasets, without tables, no family owns
          Precedes,     \* pairs of members whose keys sort in that order in every generation
          None,         \* absent index, absent entry, no expectation
          MaxAttempts,  \* _POINTER_ATTEMPTS
          MaxLate       \* bound on pointer requests still under way after their client gave up

Writers == Publishers \cup Operators

Keys == 1 .. 3          \* a generation's members
RootKey == 1            \* artifact.json
ReceiptKey == 2         \* etl_receipts.parquet, its key index and members.json
TableKey == 3           \* the tables' members

Entry == Generations \cup {None}
Index == [Families -> Entry]
Root == [family : Families, prior : Entry, parents : Index, layout : Layouts]
Job == [phase    : {"idle", "built", "staging", "swapping", "reread", "refused"},
        restore  : BOOLEAN,
        family   : Families \cup {None},
        target   : Entry,
        expected : Entry,
        seen     : Index \cup {None},
        done     : SUBSET Keys,
        tries    : 0 .. MaxAttempts]
Put == [writer : Writers, restore : BOOLEAN, family : Families, target : Entry,
        expect : Index \cup {None}]

ASSUME PublicationAssumption ==
    /\ None \notin Generations \cup Families
    /\ None \notin Index
    /\ None \notin Root
    /\ Layouts \subseteq [tables : SUBSET Names, receipts : SUBSET Names]
    /\ \A layout \in Layouts : layout.tables \cap SharedLogs = {}
    /\ Precedes \subseteq Keys \X Keys
    /\ MaxAttempts \in Nat \ {0}
    /\ MaxLate \in Nat

VARIABLES pointer,      \* the stored index, None while the object is absent
          root,         \* the root each generation built so far states
          stored,       \* the members in the bucket, as <<generation, key>>
          job,          \* what each writer is doing
          late,         \* pointer requests whose client stopped waiting
          landed        \* history: <<writer, generation>> whose publish moved the pointer

vars == <<pointer, root, stored, job, late, landed>>

IdleJob == [phase |-> "idle", restore |-> FALSE, family |-> None, target |-> None,
            expected |-> None, seen |-> None, done |-> {}, tries |-> 0]

RefusedJob == [IdleJob EXCEPT !.phase = "refused"]

TypeOK ==
    /\ pointer \in Index \cup {None}
    /\ root \in [Generations -> Root \cup {None}]
    /\ stored \subseteq Generations \X Keys
    /\ job \in [Writers -> Job]
    /\ late \subseteq Put
    /\ landed \subseteq Writers \X Generations

-----------------------------------------------------------------------------
(* Readings of the index and of a generation. *)

Entries(index) == IF index = None THEN [f \in Families |-> None] ELSE index

Claims(g) == root[g].layout.tables \cup root[g].layout.receipts

Complete(g) == \A k \in Keys : <<g, k>> \in stored

EverSelected == {g \in Generations : \E w \in Writers : <<w, g>> \in landed}

(* _merge_family: no other family of the index owns a name g lists. *)
OwnershipFree(f, g, index) ==
    \A h \in Families \ {f} :
        index[h] # None => Claims(index[h]) \cap Claims(g) = {}

(* _assert_parents_current *)
ParentsCurrent(g, index) ==
    \A h \in Families : root[g].parents[h] # None => index[h] = root[g].parents[h]

(* _assert_family_unchanged against the index the build captured *)
FamilyUnchanged(f, g, index) == index[f] = root[g].prior

(* A fault: receipt datasets are free to leave. *)
TablesHeld(g, old) ==
    old # None =>
        root[old].layout.tables \ root[g].layout.tables \subseteq root[g].layout.receipts

(* The table set grows by declared tables and shrinks only into receipts; no
   receipt dataset leaves, but a shared log, which only an entry written
   before logs were shared lists; receipts once published are not given up. *)
MembershipHeld(g, old) ==
    old # None =>
        LET was == root[old].layout
            is  == root[g].layout
        IN /\ was.tables \ is.tables \subseteq is.receipts
           /\ was.receipts \ is.receipts \subseteq SharedLogs
           /\ was.receipts # {} => is.receipts # {}

Admissible(j, index) ==
    /\ FamilyUnchanged(j.family, j.target, index)
    /\ ParentsCurrent(j.target, index)
    /\ OwnershipFree(j.family, j.target, index)

-----------------------------------------------------------------------------
Init ==
    /\ pointer = None
    /\ root = [g \in Generations |-> None]
    /\ stored = {}
    /\ job = [w \in Writers |-> IdleJob]
    /\ late = {}
    /\ landed = {}

Free(w) == job[w].phase \in {"idle", "refused"}

(* Capture the index, read parents through it, and build a generation whose
   root states both.  The digest is the content's: equal content is the same
   generation, whoever builds it.  A layout may list a shared log: no build
   does now (generation_entry), but those before logs were shared did. *)
Build(w, f, read, layout, g) ==
    LET index == Entries(pointer)
        built == [family  |-> f,
                  prior   |-> index[f],
                  parents |-> [h \in Families |-> IF h \in read THEN index[h] ELSE None],
                  layout  |-> layout]
    IN /\ Free(w)
       /\ \A h \in read : index[h] # None
       /\ root[g] \in {None, built}
       /\ root' = [root EXCEPT ![g] = built]
       /\ job' = [job EXCEPT ![w] = [IdleJob EXCEPT !.phase = "built", !.family = f,
                                                    !.target = g]]
       /\ UNCHANGED <<pointer, stored, late, landed>>

(* publish_generation: read the index and its ETag, check the generation
   against it, and start staging. *)
Begin(w) ==
    LET j == job[w] IN
    /\ j.phase = "built"
    /\ Admissible(j, Entries(pointer))
    /\ MembershipHeld(j.target, root[j.target].prior)
    /\ job' = [job EXCEPT ![w] = [j EXCEPT !.phase = "staging", !.seen = pointer]]
    /\ UNCHANGED <<pointer, root, stored, late, landed>>

RefuseBuild(w) ==
    LET j == job[w] IN
    /\ j.phase = "built"
    /\ ~ /\ Admissible(j, Entries(pointer))
         /\ MembershipHeld(j.target, root[j.target].prior)
    /\ job' = [job EXCEPT ![w] = RefusedJob]
    /\ UNCHANGED <<pointer, root, stored, late, landed>>

(* Upload or server-side copy of one more member.  Keys are taken in sorted
   order: the receipts' come after artifact.json, a table's may come anywhere.
   An object already there is left as it is. *)
Upload(w, key) ==
    LET j == job[w] IN
    /\ j.phase = "staging"
    /\ key \notin j.done
    /\ \A first \in Keys : <<first, key>> \in Precedes => first \in j.done
    /\ stored' = stored \cup {<<j.target, key>>}
    /\ job' = [job EXCEPT ![w] = [j EXCEPT !.done = @ \cup {key}]]
    /\ UNCHANGED <<pointer, root, late, landed>>

(* A fault: the pointer may move while members are still missing. *)
AdmitUnread(w) ==
    LET j == job[w] IN
    /\ j.phase = "staging"
    /\ job' = [job EXCEPT ![w] = [j EXCEPT !.phase = "swapping", !.done = {}]]
    /\ UNCHANGED <<pointer, root, stored, late, landed>>

(* admit_artifact reads the whole prefix back before the pointer may move. *)
Admit(w) ==
    LET j == job[w] IN
    /\ j.phase = "staging"
    /\ j.done = Keys
    /\ Complete(j.target)
    /\ job' = [job EXCEPT ![w] = [j EXCEPT !.phase = "swapping", !.done = {}]]
    /\ UNCHANGED <<pointer, root, stored, late, landed>>

-----------------------------------------------------------------------------
(* The conditional pointer write, shared by publish and rollback. *)

Request(w, j) == [writer |-> w, restore |-> j.restore, family |-> j.family,
                  target |-> j.target, expect |-> j.seen]

(* A fault: the put carries no condition. *)
StoreUnconditionally(put) ==
    /\ pointer' = [Entries(put.expect) EXCEPT ![put.family] = put.target]
    /\ landed' = IF put.restore THEN landed
                 ELSE landed \cup {<<put.writer, put.target>>}

(* The store answers a request: it replaces the pointer if the ETag matches. *)
Store(put) ==
    IF pointer = put.expect
    THEN /\ pointer' = [Entries(put.expect) EXCEPT ![put.family] = put.target]
         /\ landed' = IF put.restore THEN landed
                      ELSE landed \cup {<<put.writer, put.target>>}
    ELSE UNCHANGED <<pointer, landed>>

(* The writer sees the answer: done, or the pointer had moved. *)
Swap(w) ==
    LET j == job[w] IN
    /\ j.phase = "swapping"
    /\ Store(Request(w, j))
    /\ job' = [job EXCEPT ![w] =
                  IF pointer = j.seen THEN IdleJob
                  ELSE [j EXCEPT !.phase = "reread", !.seen = None, !.tries = @ + 1]]
    /\ UNCHANGED <<root, stored, late>>

(* No answer in time: the request may still arrive.  The client library sends
   it again, or the transport error ends the job with its result unknown. *)
TimeOut(w) ==
    /\ job[w].phase = "swapping"
    /\ Cardinality(late) < MaxLate
    /\ late' = late \cup {Request(w, job[w])}
    /\ \/ UNCHANGED job
       \/ job' = [job EXCEPT ![w] = IdleJob]
    /\ UNCHANGED <<pointer, root, stored, landed>>

Arrive(put) ==
    /\ Store(put)
    /\ late' = late \ {put}
    /\ UNCHANGED <<root, stored, job>>

(* Faults: the retries are not counted; parents are not checked again. *)
RetryForever(j) == Admissible(j, Entries(pointer))

RetryWithAnyParents(j) ==
    /\ j.tries < MaxAttempts
    /\ FamilyUnchanged(j.family, j.target, Entries(pointer))
    /\ OwnershipFree(j.family, j.target, Entries(pointer))

(* After a lost race a publish rereads the index and repeats its checks. *)
CanRetry(j) == /\ j.tries < MaxAttempts
               /\ Admissible(j, Entries(pointer))

Reread(w) ==
    LET j == job[w] IN
    /\ j.phase = "reread" /\ ~j.restore
    /\ job' = [job EXCEPT ![w] =
                  IF CanRetry(j) THEN [j EXCEPT !.phase = "swapping", !.seen = pointer]
                  ELSE RefusedJob]
    /\ UNCHANGED <<pointer, root, stored, late, landed>>

-----------------------------------------------------------------------------
(* restore_family, as the rollback command calls it. *)

(* The rollback file names the entry a conversion captured, or its absence.
   expected is the entry now stored, if that is the captured one or the
   conversion built from it; or None, to discard whatever is newer.  Only the
   root and the tables' members are looked for. *)
StartRestore(w, f, g, expected) ==
    /\ Free(w)
    /\ expected # None => /\ expected = Entries(pointer)[f]
                          /\ g \in {expected, root[expected].prior}
    /\ IF g = None
       THEN expected # None
       ELSE /\ g \in EverSelected
            /\ root[g].family = f
            /\ \A k \in {RootKey, TableKey} : <<g, k>> \in stored
    /\ job' = [job EXCEPT ![w] = [IdleJob EXCEPT !.phase = "reread", !.restore = TRUE,
                                                 !.family = f, !.target = g,
                                                 !.expected = expected]]
    /\ UNCHANGED <<pointer, root, stored, late, landed>>

(* A fault: the rollback does not look for a new owner of the names. *)
RestoreAnyNames(j) ==
    /\ j.tries < MaxAttempts
    /\ pointer # None
    /\ j.expected # None => Entries(pointer)[j.family] = j.expected

CanRestore(j) ==
    /\ j.tries < MaxAttempts
    /\ pointer # None
    /\ j.expected # None => Entries(pointer)[j.family] = j.expected
    /\ j.target # None => OwnershipFree(j.family, j.target, Entries(pointer))

(* One round of the rollback's loop: read the index, return when it already
   names the entry, refuse another generation than expected, or try to swap. *)
RestoreRead(w) ==
    LET j == job[w]
        restored == /\ j.tries < MaxAttempts
                    /\ pointer # None
                    /\ Entries(pointer)[j.family] = j.target
    IN /\ j.phase = "reread" /\ j.restore
       /\ job' = [job EXCEPT ![w] =
                     IF restored THEN IdleJob
                     ELSE IF CanRestore(j) THEN [j EXCEPT !.phase = "swapping", !.seen = pointer]
                     ELSE RefusedJob]
       /\ UNCHANGED <<pointer, root, stored, late, landed>>

(* An exception, a refusal of the content checks or a crash: the job's own
   state is gone, everything it stored stays. *)
Fail(w) ==
    /\ ~Free(w)
    /\ job' = [job EXCEPT ![w] = IdleJob]
    /\ UNCHANGED <<pointer, root, stored, late, landed>>

-----------------------------------------------------------------------------
Builds(w) ==
    \E f \in Families, layout \in Layouts, g \in Generations :
        \E read \in SUBSET (Families \ {f}) : Build(w, f, read, layout, g)

Restores(w) ==
    \E f \in Families, g \in Entry, expected \in Entry : StartRestore(w, f, g, expected)

Next ==
    \/ \E w \in Publishers : \/ Builds(w) \/ Begin(w) \/ RefuseBuild(w)
                              \/ Admit(w) \/ Reread(w)
                              \/ \E key \in Keys : Upload(w, key)
    \/ \E w \in Operators : Restores(w) \/ RestoreRead(w)
    \/ \E w \in Writers : Swap(w) \/ TimeOut(w) \/ Fail(w)
    \/ \E put \in late : Arrive(put)

Spec == Init /\ [][Next]_vars
-----------------------------------------------------------------------------
(* Properties. *)

(* The pointer never names a generation whose bytes are not all stored,
   whatever crashed, raced or arrived late: publish_generation uploads and
   reads every member back before it moves the pointer. *)
SelectedComplete ==
    \A f \in Families : Entries(pointer)[f] # None => Complete(Entries(pointer)[f])

(* Every table and receipt dataset has one owning family in the index, also
   when two families that never saw each other add the same name
   (_merge_family runs on every reread index). *)
OneOwner ==
    \A f, h \in Families :
        f # h /\ Entries(pointer)[f] # None /\ Entries(pointer)[h] # None =>
            Claims(Entries(pointer)[f]) \cap Claims(Entries(pointer)[h]) = {}

(* The chain retention and audits walk: the prior a published generation
   states was itself selected once, belongs to the same family, and every
   name it claimed, but a shared log, is still claimed by its successor. *)
ChainHeld ==
    \A g \in EverSelected : root[g].prior # None =>
        /\ root[g].prior \in EverSelected
        /\ root[root[g].prior].family = root[g].family
        /\ Claims(root[g].prior) \ SharedLogs \subseteq Claims(g)

(* A pointer write changes one family: a publish of one family never undoes
   another family's concurrent publish. *)
OneFamilyPerWrite ==
    [][\A f, h \in Families : Entries(pointer)'[f] # Entries(pointer)[f]
                             /\ Entries(pointer)'[h] # Entries(pointer)[h] => f = h]_vars

(* Publishing is atomic: the writes of builds, races, retries and rollbacks
   are those of a system where each publication reads its prior and its
   parents, builds and selects in one step. *)
Atomic == INSTANCE Selection
              WITH selection <- Entries(pointer),
                   basis <- [g \in Generations |-> IF g \in EverSelected THEN root[g] ELSE None]

PublicationIsAtomic == Atomic!Spec

-----------------------------------------------------------------------------
(* The inductive invariant.  A request that can still move the pointer, held
   by a swapping writer or abandoned under way, is safe against the index it
   expects; so the write it makes is safe, since it is made only if the
   pointer still is that index. *)

Active(j) == j.phase \in {"built", "staging", "swapping", "reread"}

Known(g) == g \in EverSelected \cup {None}

KnownIndex(index) == \A f \in Families : Known(Entries(index)[f])

(* A generation that was built, for the family that publishes it. *)
BuiltFor(f, g) == g \in Generations /\ root[g] # None /\ root[g].family = f

RestoreTarget(f, g) == g # None => g \in EverSelected /\ root[g].family = f

Ready(g) == Complete(g) /\ MembershipHeld(g, root[g].prior)

SafeAgainst(f, g, index) ==
    /\ FamilyUnchanged(f, g, Entries(index))
    /\ ParentsCurrent(g, Entries(index))
    /\ OwnershipFree(f, g, Entries(index))

SafePut(put) ==
    /\ KnownIndex(put.expect)
    /\ IF put.restore
       THEN /\ RestoreTarget(put.family, put.target)
            /\ put.target # None => OwnershipFree(put.family, put.target, Entries(put.expect))
       ELSE /\ BuiltFor(put.family, put.target)
            /\ Ready(put.target)
            /\ SafeAgainst(put.family, put.target, put.expect)

RootsInv ==
    \A g \in Generations : root[g] # None =>
        /\ root[g].parents[root[g].family] = None
        /\ root[g].prior # None => /\ root[g].prior \in EverSelected
                                   /\ root[root[g].prior].family = root[g].family

SelectedInv ==
    /\ \A g \in EverSelected : root[g] # None /\ Ready(g)
    /\ \A f \in Families : RestoreTarget(f, Entries(pointer)[f])

JobInv(w, j) ==
    /\ Active(j) => j.family \in Families
    /\ j.phase \in {"built", "staging", "swapping"} => j.tries < MaxAttempts
    /\ j.phase \in {"built", "staging"} => ~j.restore
    /\ Active(j) /\ ~j.restore => BuiltFor(j.family, j.target)
    /\ j.phase = "staging" => /\ MembershipHeld(j.target, root[j.target].prior)
                              /\ KnownIndex(j.seen)
                              /\ SafeAgainst(j.family, j.target, j.seen)
    /\ j.phase = "reread" /\ ~j.restore => Ready(j.target)
    /\ j.phase = "reread" /\ j.restore => RestoreTarget(j.family, j.target)
    /\ j.phase = "swapping" => SafePut(Request(w, j))

JobsInv == \A w \in Writers : JobInv(w, job[w])

Inv ==
    /\ TypeOK
    /\ RootsInv
    /\ SelectedInv
    /\ OneOwner
    /\ JobsInv
    /\ \A put \in late : SafePut(put)
=============================================================================
