-------------------------- MODULE PublicationProofs --------------------------
(***************************************************************************)
(* Proofs about the publication protocol, for every set of families,       *)
(* generations, publishers and operators, every bound on attempts and      *)
(* every number of abandoned requests: Inv is inductive, so the selected   *)
(* generations are complete, every name has one owner, the chain of priors *)
(* holds, a write changes one family, and the protocol implements the      *)
(* atomic Selection.                                                       *)
(***************************************************************************)
EXTENDS Publication, TLAPS

(* The index read from an absent pointer names no generation. *)
LEMMA EntriesType ==
    ASSUME NEW index \in Index \cup {None}
    PROVE  /\ Entries(index) \in Index
           /\ index # None => Entries(index) = index
           /\ index = None => Entries(index) = [f \in Families |-> None]
  BY DEF Entries, Index, Entry

-----------------------------------------------------------------------------
(* Type correctness.  Alone it is not inductive: a writer that waits for the
   answer to its request has an attempt left, which JobsInv states. *)

LEMMA InitType == Init => TypeOK
  BY PublicationAssumption
  DEF PublicationAssumption, Init, TypeOK, Index, Entry, Root, Job, Put, IdleJob, Writers

(* A job record with typed fields is a job. *)
LEMMA JobUpdate ==
    ASSUME TypeOK, NEW w \in Writers, NEW j \in Job, job' = [job EXCEPT ![w] = j]
    PROVE  job' \in [Writers -> Job]
  BY DEF TypeOK

LEMMA IdleType == IdleJob \in Job
  BY PublicationAssumption DEF PublicationAssumption, IdleJob, Job, Entry

LEMMA RefusedType == RefusedJob \in Job /\ RefusedJob.phase = "refused"
<1>1. IdleJob \in Job
  BY IdleType
<1> QED BY <1>1 DEF RefusedJob, Job

(* Each edit a step makes of a job record leaves a job record. *)
LEMMA JobEdits ==
    ASSUME NEW j \in Job, NEW seen \in Index \cup {None}
    PROVE  /\ [j EXCEPT !.phase = "staging", !.seen = seen] \in Job
           /\ [j EXCEPT !.phase = "swapping", !.seen = seen] \in Job
           /\ [j EXCEPT !.phase = "swapping", !.done = {}] \in Job
           /\ \A key \in Keys : [j EXCEPT !.done = @ \cup {key}] \in Job
           /\ j.tries + 1 \in 0 .. MaxAttempts =>
                 [j EXCEPT !.phase = "reread", !.seen = None, !.tries = @ + 1] \in Job
<1>1. [j EXCEPT !.phase = "staging", !.seen = seen] \in Job
  BY DEF Job
<1>2. [j EXCEPT !.phase = "swapping", !.seen = seen] \in Job
  BY DEF Job
<1>3. [j EXCEPT !.phase = "swapping", !.done = {}] \in Job
  BY DEF Job
<1>5. ASSUME NEW key \in Keys PROVE [j EXCEPT !.done = @ \cup {key}] \in Job
  <2>1. j.done \cup {key} \in SUBSET Keys
    BY DEF Job
  <2> QED BY <2>1 DEF Job
<1>6. ASSUME j.tries + 1 \in 0 .. MaxAttempts
      PROVE  [j EXCEPT !.phase = "reread", !.seen = None, !.tries = @ + 1] \in Job
  BY <1>6 DEF Job
<1> QED BY <1>1, <1>2, <1>3, <1>5, <1>6

(* What a request is made of, and what storing one leaves behind. *)
LEMMA RequestType ==
    ASSUME NEW w \in Writers, NEW j \in Job, j.family \in Families
    PROVE  Request(w, j) \in Put
  BY DEF Request, Put, Job

LEMMA StoreType ==
    ASSUME TypeOK, NEW put \in Put, Store(put), ~put.restore => put.target \in Generations
    PROVE  /\ pointer' \in Index \cup {None}
           /\ landed' \subseteq Writers \X Generations
<1>1. CASE pointer = put.expect
  <2>1. Entries(put.expect) \in Index
    BY EntriesType DEF Put
  <2>2. pointer' \in Index
    BY <1>1, <2>1 DEF Store, Index, Put, Entry
  <2> QED BY <1>1, <2>2 DEF Store, TypeOK, Put
<1>2. CASE pointer # put.expect
  BY <1>2 DEF Store, TypeOK
<1> QED BY <1>1, <1>2

LEMMA TypeStep == TypeOK /\ JobsInv /\ (\A put \in late : SafePut(put)) /\ [Next]_vars => TypeOK'
<1> SUFFICES ASSUME TypeOK, JobsInv, \A put \in late : SafePut(put), [Next]_vars
             PROVE  TypeOK'
  OBVIOUS
<1> USE PublicationAssumption
<1>j. \A w \in Writers : job[w] \in Job
  BY DEF TypeOK
<1>p. pointer \in Index \cup {None}
  BY DEF TypeOK
<1>e. Entries(pointer) \in Index
  BY <1>p, EntriesType
<1>1. ASSUME NEW w \in Publishers, Builds(w) PROVE TypeOK'
  <2>0. PICK f \in Families, layout \in Layouts, g \in Generations :
           \E read \in SUBSET (Families \ {f}) : Build(w, f, read, layout, g)
    BY <1>1 DEF Builds
  <2>1. PICK read \in SUBSET (Families \ {f}) : Build(w, f, read, layout, g)
    BY <2>0
  <2>2. root' \in [Generations -> Root \cup {None}]
    BY <2>1, <1>e DEF Build, TypeOK, Root, Index, Entry
  <2>3. [IdleJob EXCEPT !.phase = "built", !.family = f, !.target = g] \in Job
    BY IdleType DEF Job, Entry
  <2> QED BY <2>1, <2>2, <2>3, JobUpdate DEF Build, TypeOK, Writers
<1>2. ASSUME NEW w \in Publishers, Begin(w) PROVE TypeOK'
  <2>1. [job[w] EXCEPT !.phase = "staging", !.seen = pointer] \in Job
    BY <1>j, <1>p, JobEdits DEF Writers
  <2> QED BY <1>2, <2>1, JobUpdate DEF Begin, TypeOK, Writers
<1>3. ASSUME NEW w \in Publishers, RefuseBuild(w) PROVE TypeOK'
  BY <1>3, RefusedType, JobUpdate DEF RefuseBuild, TypeOK, Writers
<1>4. ASSUME NEW w \in Publishers, NEW key \in Keys, Upload(w, key) PROVE TypeOK'
  <2>1. [job[w] EXCEPT !.done = @ \cup {key}] \in Job
    BY <1>j, <1>p, JobEdits DEF Writers
  <2>2. job[w].target \in Generations
    BY <1>4 DEF JobsInv, JobInv, Upload, Writers, Active, BuiltFor
  <2> QED BY <1>4, <2>1, <2>2, JobUpdate DEF Upload, TypeOK, Writers
<1>5. ASSUME NEW w \in Publishers, Admit(w) PROVE TypeOK'
  <2>1. [job[w] EXCEPT !.phase = "swapping", !.done = {}] \in Job
    BY <1>j, <1>p, JobEdits DEF Writers
  <2> QED BY <1>5, <2>1, JobUpdate DEF Admit, TypeOK, Writers
<1>6. ASSUME NEW w \in Publishers, Reread(w) PROVE TypeOK'
  <2>1. [job[w] EXCEPT !.phase = "swapping", !.seen = pointer] \in Job
    BY <1>j, <1>p, JobEdits DEF Writers
  <2>2. RefusedJob \in Job
    BY RefusedType
  <2> QED BY <1>6, <2>1, <2>2, JobUpdate DEF Reread, TypeOK, Writers
<1>7. ASSUME NEW w \in Operators, Restores(w) PROVE TypeOK'
  <2>1. PICK f \in Families, g \in Entry, expected \in Entry : StartRestore(w, f, g, expected)
    BY <1>7 DEF Restores
  <2>2. [IdleJob EXCEPT !.phase = "reread", !.restore = TRUE, !.family = f, !.target = g,
                        !.expected = expected] \in Job
    BY IdleType DEF Job
  <2> QED BY <2>1, <2>2, JobUpdate DEF StartRestore, TypeOK, Writers
<1>8. ASSUME NEW w \in Operators, RestoreRead(w) PROVE TypeOK'
  <2>1. [job[w] EXCEPT !.phase = "swapping", !.seen = pointer] \in Job
    BY <1>j, <1>p, JobEdits DEF Writers
  <2>2. RefusedJob \in Job
    BY RefusedType
  <2> QED BY <1>8, <2>1, <2>2, IdleType, JobUpdate DEF RestoreRead, TypeOK, Writers
<1>9. ASSUME NEW w \in Writers, Swap(w) PROVE TypeOK'
  <2>0. job[w].tries + 1 \in 0 .. MaxAttempts
    BY <1>9, <1>j DEF Job, Swap, JobsInv, JobInv, PublicationAssumption
  <2>1. [job[w] EXCEPT !.phase = "reread", !.seen = None, !.tries = @ + 1] \in Job
    BY <2>0, <1>j, <1>p, JobEdits
  <2>2. Request(w, job[w]) \in Put
    BY <1>9, <1>j, RequestType DEF Swap, JobsInv, JobInv, Active
  <2>3. ~job[w].restore => job[w].target \in Generations
    BY <1>9 DEF Swap, JobsInv, JobInv, Active, BuiltFor
  <2>4. /\ pointer' \in Index \cup {None}
        /\ landed' \subseteq Writers \X Generations
    BY <1>9, <2>2, <2>3, StoreType DEF Swap, Request
  <2>5. job' \in [Writers -> Job]
    BY <1>9, <2>1, IdleType, JobUpdate DEF Swap
  <2> QED BY <1>9, <2>4, <2>5 DEF Swap, TypeOK
<1>10. ASSUME NEW w \in Writers, TimeOut(w) PROVE TypeOK'
  <2>1. Request(w, job[w]) \in Put
    BY <1>10, <1>j, RequestType DEF TimeOut, JobsInv, JobInv, Active
  <2>2. job' \in [Writers -> Job]
    BY <1>10, IdleType, JobUpdate DEF TimeOut, TypeOK
  <2> QED BY <1>10, <2>1, <2>2 DEF TimeOut, TypeOK
<1>11. ASSUME NEW w \in Writers, Fail(w) PROVE TypeOK'
  BY <1>11, IdleType, JobUpdate DEF Fail, TypeOK
<1>12. ASSUME NEW put \in late, Arrive(put) PROVE TypeOK'
  <2>1. /\ put \in Put
        /\ ~put.restore => put.target \in Generations
    BY DEF TypeOK, SafePut, BuiltFor
  <2>2. /\ pointer' \in Index \cup {None}
        /\ landed' \subseteq Writers \X Generations
    BY <1>12, <2>1, StoreType DEF Arrive
  <2> QED BY <1>12, <2>2 DEF Arrive, TypeOK
<1>13. CASE UNCHANGED vars
  BY <1>13 DEF vars, TypeOK
<1> QED
  BY <1>1, <1>2, <1>3, <1>4, <1>5, <1>6, <1>7, <1>8, <1>9, <1>10, <1>11, <1>12, <1>13 DEF Next

-----------------------------------------------------------------------------
(* What has been built, stored or selected stays so: a root is never rebuilt
   differently, a member is never removed, history only grows.  Facts about
   generations that were built are therefore stable. *)

Grown ==
    /\ \A g \in Generations : root[g] # None => root'[g] = root[g]
    /\ stored \subseteq stored'
    /\ landed \subseteq landed'

LEMMA Growth == TypeOK /\ [Next]_vars => Grown
<1> SUFFICES ASSUME TypeOK, [Next]_vars PROVE Grown
  OBVIOUS
<1>1. ASSUME NEW w \in Publishers, Builds(w) PROVE Grown
  <2>1. PICK f \in Families, layout \in Layouts, g \in Generations :
           \E read \in SUBSET (Families \ {f}) : Build(w, f, read, layout, g)
    BY <1>1 DEF Builds
  <2>2. PICK read \in SUBSET (Families \ {f}) : Build(w, f, read, layout, g)
    BY <2>1
  <2> DEFINE built == [family  |-> f,
                       prior   |-> Entries(pointer)[f],
                       parents |-> [h \in Families |-> IF h \in read THEN Entries(pointer)[h] ELSE None],
                       layout  |-> layout]
  <2>3. /\ root[g] \in {None, built}
        /\ root' = [root EXCEPT ![g] = built]
        /\ UNCHANGED <<stored, landed>>
    BY <2>2 DEF Build
  <2> HIDE DEF built
  <2> QED BY <2>3 DEF Grown, TypeOK
<1>2. ASSUME NEW put, Store(put) PROVE landed \subseteq landed'
  BY <1>2 DEF Store
<1>3. ASSUME NEW w \in Writers, Swap(w) PROVE Grown
  BY <1>3, <1>2 DEF Swap, Grown
<1>4. ASSUME NEW put \in late, Arrive(put) PROVE Grown
  BY <1>4, <1>2 DEF Arrive, Grown
<1>5. CASE UNCHANGED vars
  BY <1>5 DEF vars, Grown
<1> QED
  BY <1>1, <1>3, <1>4, <1>5
  DEF Next, Restores, Begin, RefuseBuild, Upload, Admit, Reread, StartRestore, RestoreRead, TimeOut,
      Fail, Grown

LEMMA StableEver ==
    ASSUME TypeOK, Grown
    PROVE  /\ \A g \in EverSelected : g \in EverSelected'
           /\ \A g \in Generations : Complete(g) => Complete(g)'
           /\ \A g \in Generations : root[g] # None => root'[g] = root[g]
  BY DEF Grown, EverSelected, Complete

LEMMA StableIndex ==
    ASSUME TypeOK, Grown, NEW index \in Index \cup {None}, KnownIndex(index)
    PROVE  KnownIndex(index)'
  BY StableEver DEF KnownIndex, Known, Entries

(* The index of a known generation names built generations only. *)
LEMMA KnownBuilt ==
    ASSUME SelectedInv, NEW index \in Index \cup {None}, KnownIndex(index), NEW f \in Families,
           Entries(index)[f] # None
    PROVE  Entries(index)[f] \in Generations /\ root[Entries(index)[f]] # None
  BY DEF KnownIndex, Known, SelectedInv, EverSelected

LEMMA StableReady ==
    ASSUME TypeOK, RootsInv, SelectedInv, Grown, NEW g \in Generations, root[g] # None
    PROVE  /\ MembershipHeld(g, root[g].prior) => MembershipHeld(g, root[g].prior)'
           /\ Ready(g) => Ready(g)'
<1>1. root'[g] = root[g]
  BY StableEver
<1>2. root[g].prior # None => /\ root[g].prior \in Generations
                              /\ root'[root[g].prior] = root[root[g].prior]
  BY StableEver DEF RootsInv, SelectedInv, EverSelected
<1>3. MembershipHeld(g, root[g].prior) => MembershipHeld(g, root[g].prior)'
  BY <1>1, <1>2 DEF MembershipHeld
<1> QED BY <1>3, StableEver DEF Ready

LEMMA StableSafe ==
    ASSUME TypeOK, RootsInv, SelectedInv, Grown, NEW f \in Families, NEW g \in Generations,
           root[g] # None, NEW index \in Index \cup {None}, KnownIndex(index)
    PROVE  /\ OwnershipFree(f, g, Entries(index)) => OwnershipFree(f, g, Entries(index))'
           /\ SafeAgainst(f, g, index) => SafeAgainst(f, g, index)'
<1>1. root'[g] = root[g]
  BY StableEver
<1>2. \A h \in Families : Entries(index)[h] # None =>
          root'[Entries(index)[h]] = root[Entries(index)[h]]
  BY KnownBuilt, StableEver
<1>3. Entries(index)' = Entries(index)
  BY DEF Entries
<1>4. OwnershipFree(f, g, Entries(index)) => OwnershipFree(f, g, Entries(index))'
  BY <1>1, <1>2, <1>3 DEF OwnershipFree, Claims
<1> QED BY <1>1, <1>3, <1>4 DEF SafeAgainst, FamilyUnchanged, ParentsCurrent

LEMMA StableTarget ==
    ASSUME TypeOK, SelectedInv, Grown, NEW f, NEW g, RestoreTarget(f, g)
    PROVE  RestoreTarget(f, g)'
  BY StableEver DEF RestoreTarget, SelectedInv, EverSelected

LEMMA StablePut ==
    ASSUME TypeOK, RootsInv, SelectedInv, Grown, NEW put \in Put, SafePut(put)
    PROVE  SafePut(put)'
<1>1. KnownIndex(put.expect)'
  BY StableIndex DEF SafePut, Put
<1>2. CASE put.restore
  <2>1. RestoreTarget(put.family, put.target)'
    BY <1>2, StableTarget DEF SafePut
  <2>2. ASSUME put.target # None PROVE OwnershipFree(put.family, put.target, Entries(put.expect))'
    BY <1>2, <2>2, StableSafe DEF SafePut, Put, RestoreTarget, SelectedInv, EverSelected
  <2> QED BY <1>1, <1>2, <2>1, <2>2 DEF SafePut
<1>3. CASE ~put.restore
  <2>1. BuiltFor(put.family, put.target)'
    BY <1>3, StableEver DEF SafePut, BuiltFor
  <2>2. Ready(put.target)'
    BY <1>3, StableReady DEF SafePut, BuiltFor
  <2>3. SafeAgainst(put.family, put.target, put.expect)'
    BY <1>3, StableSafe DEF SafePut, BuiltFor, Put
  <2> QED BY <1>1, <1>3, <2>1, <2>2, <2>3 DEF SafePut
<1> QED BY <1>2, <1>3 DEF Put

LEMMA StableJob ==
    ASSUME TypeOK, RootsInv, SelectedInv, Grown, NEW w \in Writers, NEW j \in Job, JobInv(w, j)
    PROVE  JobInv(w, j)'
<1>1. Active(j)' <=> Active(j)
  BY DEF Active
<1>2. ASSUME Active(j), ~j.restore PROVE BuiltFor(j.family, j.target)'
  BY <1>2, StableEver DEF JobInv, BuiltFor
<1>3. ASSUME j.phase = "staging"
      PROVE  /\ MembershipHeld(j.target, root[j.target].prior)'
             /\ KnownIndex(j.seen)'
             /\ SafeAgainst(j.family, j.target, j.seen)'
  <2>1. /\ ~j.restore /\ Active(j) /\ j.family \in Families
        /\ j.target \in Generations /\ root[j.target] # None
        /\ j.seen \in Index \cup {None}
    BY <1>3 DEF JobInv, Active, BuiltFor, Job
  <2> QED BY <1>3, <2>1, StableReady, StableIndex, StableSafe DEF JobInv
<1>4. ASSUME j.phase = "reread", ~j.restore PROVE Ready(j.target)'
  BY <1>4, StableReady DEF JobInv, Active, BuiltFor
<1>5. ASSUME j.phase = "reread", j.restore PROVE RestoreTarget(j.family, j.target)'
  BY <1>5, StableTarget DEF JobInv
<1>6. ASSUME j.phase = "swapping" PROVE SafePut(Request(w, j))'
  <2>1. Request(w, j) \in Put
    BY <1>6, RequestType DEF JobInv, Active
  <2>2. PICK put \in Put : put = Request(w, j)
    BY <2>1
  <2>3. SafePut(put)'
    BY <1>6, <2>2, StablePut DEF JobInv
  <2>4. Request(w, j)' = Request(w, j)
    BY DEF Request
  <2> QED BY <2>2, <2>3, <2>4
<1> QED BY <1>1, <1>2, <1>3, <1>4, <1>5, <1>6 DEF JobInv

-----------------------------------------------------------------------------
(* One writer's job changes: the others' facts are stable. *)

LEMMA JobStepPrimed ==
    ASSUME Inv, Grown, NEW w \in Writers, NEW j \in Job, JobInv(w, j)', job' = [job EXCEPT ![w] = j]
    PROVE  JobsInv'
<1> SUFFICES ASSUME NEW v \in Writers PROVE JobInv(v, job[v])'
  BY DEF JobsInv
<1>1. CASE v = w
  <2>1. job'[v] = j
    BY <1>1 DEF Inv, TypeOK
  <2> QED BY <2>1, <1>1
<1>2. CASE v # w
  <2>1. PICK i \in Job : i = job[v]
    BY DEF Inv, TypeOK
  <2>2. JobInv(v, i)
    BY <2>1 DEF Inv, JobsInv
  <2>3. JobInv(v, i)'
    BY <2>2, StableJob DEF Inv
  <2>4. job'[v] = i
    BY <1>2, <2>1 DEF Inv, TypeOK
  <2> QED BY <2>3, <2>4
<1> QED BY <1>1, <1>2

LEMMA JobStep ==
    ASSUME Inv, Grown, NEW w \in Writers, NEW j \in Job, JobInv(w, j), job' = [job EXCEPT ![w] = j]
    PROVE  JobsInv'
  BY JobStepPrimed, StableJob DEF Inv

(* An idle or refused writer promises nothing. *)
LEMMA RestingJob ==
    ASSUME NEW w, NEW j, j.phase \in {"idle", "refused"}
    PROVE  JobInv(w, j)
  BY DEF JobInv, Active

LEMMA RestingStep ==
    ASSUME Inv, Grown, NEW w \in Writers, NEW j \in Job, j.phase \in {"idle", "refused"},
           job' = [job EXCEPT ![w] = j]
    PROVE  JobsInv'
<1>1. JobInv(w, j)
  BY RestingJob
<1> QED BY <1>1, JobStep

LEMMA JobsUnchanged ==
    ASSUME Inv, Grown, job' = job
    PROVE  JobsInv'
<1> SUFFICES ASSUME NEW v \in Writers PROVE JobInv(v, job[v])'
  BY DEF JobsInv
<1>1. PICK i \in Job : i = job[v]
  BY DEF Inv, TypeOK
<1>2. JobInv(v, i)'
  BY <1>1, StableJob DEF Inv, JobsInv
<1> QED BY <1>1, <1>2

LEMMA LateStep ==
    ASSUME Inv, Grown, NEW put \in late
    PROVE  SafePut(put)'
  BY StablePut DEF Inv, TypeOK

-----------------------------------------------------------------------------
(* The pointer stays: what it names is as good as before. *)
LEMMA PointerUnchanged ==
    ASSUME Inv, Grown, UNCHANGED <<pointer, landed>>
    PROVE  SelectedInv' /\ OneOwner'
<1>1. EverSelected' = EverSelected
  BY DEF EverSelected
<1>2. Entries(pointer)' = Entries(pointer)
  BY DEF Entries
<1>3. \A g \in EverSelected : g \in Generations /\ root[g] # None /\ root'[g] = root[g]
  BY StableEver DEF Inv, SelectedInv, EverSelected
<1>4. ASSUME NEW g \in EverSelected PROVE root'[g] # None /\ Ready(g)'
  BY <1>3, StableReady DEF Inv, SelectedInv
<1>5. ASSUME NEW f \in Families PROVE RestoreTarget(f, Entries(pointer)[f])'
  BY <1>1, <1>2, <1>3 DEF Inv, SelectedInv, RestoreTarget
<1>6. OneOwner'
  BY <1>2, <1>3 DEF Inv, OneOwner, Claims, SelectedInv, RestoreTarget
<1> QED BY <1>1, <1>4, <1>5, <1>6 DEF SelectedInv

LEMMA RootsUnchanged ==
    ASSUME Inv, Grown, root' = root
    PROVE  RootsInv'
  BY StableEver DEF Inv, RootsInv

(* The pointer moves as a safe request asks. *)
LEMMA StoreStep ==
    ASSUME Inv, Grown, NEW put \in Put, SafePut(put), Store(put), UNCHANGED <<root, stored>>
    PROVE  SelectedInv' /\ OneOwner'
<1>1. CASE pointer # put.expect
  BY <1>1, PointerUnchanged DEF Store
<1>2. CASE pointer = put.expect
  <2> DEFINE f == put.family
             g == put.target
  <2>1. f \in Families /\ g \in Entry
    BY DEF Put
  <2>2. Entries(pointer) \in Index
    BY EntriesType DEF Inv, TypeOK
  <2>3. pointer' = [Entries(pointer) EXCEPT ![f] = g]
    BY <1>2 DEF Store
  <2>4. Entries(pointer)' = pointer'
    BY <2>1, <2>2, <2>3, PublicationAssumption DEF Entries, PublicationAssumption, Index
  <2>5. /\ Entries(pointer)'[f] = g
        /\ \A h \in Families \ {f} : Entries(pointer)'[h] = Entries(pointer)[h]
    BY <2>1, <2>2, <2>3, <2>4 DEF Index
  <2>6. EverSelected' \subseteq EverSelected \cup {x \in Generations : x = g /\ ~put.restore}
    BY <1>2 DEF Store, EverSelected
  <2>7. put.writer \in Writers /\ (~put.restore => g \in Generations /\ g \in EverSelected')
    BY <1>2 DEF Store, EverSelected, Put, SafePut, BuiltFor
  <2>8. ASSUME NEW x \in EverSelected' PROVE root'[x] # None /\ Ready(x)'
    <3>1. Ready(x)' <=> Ready(x)
      BY DEF Ready, Complete, MembershipHeld
    <3>2. root[x] # None /\ Ready(x)
      BY <2>6, <2>8 DEF Inv, SelectedInv, SafePut, BuiltFor
    <3> QED BY <3>1, <3>2
  <2>9. ASSUME NEW h \in Families PROVE RestoreTarget(h, Entries(pointer)[h])'
    <3>1. CASE h = f
      BY <3>1, <2>5, <2>7, StableEver
      DEF SafePut, RestoreTarget, BuiltFor, Inv
    <3>2. CASE h # f
      BY <3>2, <2>5, StableEver DEF Inv, SelectedInv, RestoreTarget
    <3> QED BY <3>1, <3>2
  <2>10. g # None => OwnershipFree(f, g, Entries(pointer))
    BY <1>2 DEF SafePut, SafeAgainst, Put
  <2>11. OneOwner'
    <3> SUFFICES ASSUME NEW a \in Families, NEW b \in Families, a # b,
                        Entries(pointer)'[a] # None, Entries(pointer)'[b] # None
                 PROVE  Claims(Entries(pointer)'[a]) \cap Claims(Entries(pointer)'[b]) = {}
      BY DEF OneOwner, Claims
    <3>1. CASE a # f /\ b # f
      BY <3>1, <2>5 DEF Inv, OneOwner
    <3>2. CASE a = f
      BY <3>2, <2>5, <2>10 DEF OwnershipFree
    <3>3. CASE b = f
      BY <3>3, <2>5, <2>10 DEF OwnershipFree
    <3> QED BY <3>1, <3>2, <3>3
  <2> QED BY <2>8, <2>9, <2>11 DEF SelectedInv
<1> QED BY <1>1, <1>2

-----------------------------------------------------------------------------
LEMMA InitInv == Init => Inv
<1> SUFFICES ASSUME Init PROVE Inv
  OBVIOUS
<1>1. EverSelected = {}
  BY DEF Init, EverSelected
<1>2. Entries(pointer) = [f \in Families |-> None]
  BY DEF Init, Entries
<1>3. RootsInv
  BY DEF Init, RootsInv
<1>4. SelectedInv
  BY <1>1, <1>2 DEF SelectedInv, RestoreTarget
<1>5. OneOwner
  BY <1>2 DEF OneOwner
<1>6. JobsInv
  BY RestingJob DEF Init, JobsInv, IdleJob
<1> QED BY <1>3, <1>4, <1>5, <1>6, InitType DEF Inv, Init

(* The stored index is known. *)
LEMMA PointerKnown == Inv => KnownIndex(pointer)
  BY DEF Inv, SelectedInv, KnownIndex, Known, RestoreTarget

(* A new build is for its family, and its prior was selected. *)
LEMMA BuildStep ==
    ASSUME Inv, TypeOK', Grown, NEW w \in Writers, NEW f \in Families, NEW layout \in Layouts,
           NEW g \in Generations, NEW read \in SUBSET (Families \ {f}),
           Build(w, f, read, layout, g)
    PROVE  RootsInv' /\ JobsInv'
<1> DEFINE index == Entries(pointer)
           built == [family  |-> f,
                     prior   |-> index[f],
                     parents |-> [h \in Families |-> IF h \in read THEN index[h] ELSE None],
                     layout  |-> layout]
           j == [IdleJob EXCEPT !.phase = "built", !.family = f, !.target = g]
<1>1. /\ root[g] \in {None, built}
      /\ root' = [root EXCEPT ![g] = built]
      /\ job' = [job EXCEPT ![w] = j]
      /\ UNCHANGED <<pointer, stored, late, landed>>
  BY DEF Build
<1>2. index \in Index
  BY EntriesType DEF Inv, TypeOK
<1>3. built \in Root /\ built # None
  BY <1>2, PublicationAssumption DEF Root, Index, Entry, PublicationAssumption
<1>4. root'[g] = built /\ \A x \in Generations \ {g} : root'[x] = root[x]
  BY <1>1 DEF Inv, TypeOK
<1>5. EverSelected' = EverSelected
  BY <1>1 DEF EverSelected
<1>6. \A x \in EverSelected : x \in Generations /\ root[x] # None /\ root'[x] = root[x]
  BY StableEver DEF Inv, SelectedInv, EverSelected
<1>7. built.parents[built.family] = None
  OBVIOUS
<1>8. built.prior # None => built.prior \in EverSelected /\ root[built.prior].family = built.family
  BY DEF Inv, SelectedInv, RestoreTarget
<1>9. RootsInv'
  <2> SUFFICES ASSUME NEW x \in Generations, root'[x] # None
               PROVE  /\ root'[x].parents[root'[x].family] = None
                      /\ root'[x].prior # None =>
                            /\ root'[x].prior \in EverSelected'
                            /\ root'[root'[x].prior].family = root'[x].family
    BY DEF RootsInv
  <2>1. CASE x = g
    <3> HIDE DEF built
    <3> QED BY <2>1, <1>4, <1>5, <1>6, <1>7, <1>8
  <2>2. CASE x # g
    BY <2>2, <1>4, <1>5, <1>6 DEF Inv, RootsInv
  <2> QED BY <2>1, <2>2
<1>10. j \in Job
  BY IdleType DEF Job, Entry
<1>11. /\ j.phase = "built" /\ j.family = f /\ j.target = g /\ ~j.restore /\ j.tries = 0
  BY IdleType DEF IdleJob, Job
<1>12. JobInv(w, j)'
  <2> HIDE DEF j
  <2>1. PICK i \in Job : i = j
    BY <1>10
  <2>2. BuiltFor(f, g)'
    <3>1. built.family = f
      OBVIOUS
    <3> HIDE DEF built
    <3> QED BY <3>1, <1>3, <1>4 DEF BuiltFor
  <2>3. JobInv(w, i)'
    BY <2>1, <2>2, <1>11, PublicationAssumption DEF JobInv, Active, PublicationAssumption
  <2> QED BY <2>1, <2>3
<1> QED BY <1>1, <1>9, <1>10, <1>12, JobStepPrimed

(* Steps of one writer that move neither the pointer nor any root. *)
LEMMA QuietStep ==
    ASSUME Inv, Grown, NEW w \in Writers, NEW j \in Job, JobInv(w, j), job' = [job EXCEPT ![w] = j],
           UNCHANGED <<pointer, root, landed>>
    PROVE  RootsInv' /\ SelectedInv' /\ OneOwner' /\ JobsInv'
  BY PointerUnchanged, RootsUnchanged, JobStep

LEMMA RestingQuietStep ==
    ASSUME Inv, Grown, NEW w \in Writers, NEW j \in Job, j.phase \in {"idle", "refused"},
           job' = [job EXCEPT ![w] = j], UNCHANGED <<pointer, root, landed>>
    PROVE  RootsInv' /\ SelectedInv' /\ OneOwner' /\ JobsInv'
  BY PointerUnchanged, RootsUnchanged, RestingStep

LEMMA InvStep == Inv /\ [Next]_vars => Inv'
<1> SUFFICES ASSUME Inv, [Next]_vars PROVE Inv'
  OBVIOUS
<1> USE PublicationAssumption DEF PublicationAssumption
<1>t. TypeOK'
  BY TypeStep DEF Inv
<1>g. Grown
  BY Growth DEF Inv
<1>j. \A w \in Writers : job[w] \in Job /\ JobInv(w, job[w])
  BY DEF Inv, TypeOK, JobsInv
<1>p. pointer \in Index \cup {None} /\ KnownIndex(pointer)
  BY PointerKnown DEF Inv, TypeOK
<1>i. IdleJob \in Job /\ IdleJob.phase = "idle"
  BY IdleType DEF IdleJob
<1> DEFINE Rest == RootsInv' /\ SelectedInv' /\ OneOwner' /\ JobsInv'
<1>1. ASSUME NEW w \in Publishers, Builds(w) PROVE Rest /\ late' = late
  <2>1. PICK f \in Families, layout \in Layouts, g \in Generations :
           \E read \in SUBSET (Families \ {f}) : Build(w, f, read, layout, g)
    BY <1>1 DEF Builds
  <2>2. PICK read \in SUBSET (Families \ {f}) : Build(w, f, read, layout, g)
    BY <2>1
  <2>3. UNCHANGED <<pointer, landed, late>>
    BY <2>2 DEF Build
  <2> QED BY <1>t, <1>g, <2>2, <2>3, BuildStep, PointerUnchanged DEF Writers
<1>2. ASSUME NEW w \in Publishers, Begin(w) PROVE Rest /\ late' = late
  <2> DEFINE j == [job[w] EXCEPT !.phase = "staging", !.seen = pointer]
  <2>1. j \in Job
    BY <1>j, <1>p, JobEdits DEF Writers
  <2>2. /\ job[w].phase = "built" /\ job' = [job EXCEPT ![w] = j]
        /\ MembershipHeld(job[w].target, root[job[w].target].prior)
        /\ SafeAgainst(job[w].family, job[w].target, pointer)
        /\ UNCHANGED <<pointer, root, landed, late>>
    BY <1>2 DEF Begin, Admissible, SafeAgainst
  <2>3. /\ j.phase = "staging" /\ j.seen = pointer /\ j.family = job[w].family
        /\ j.target = job[w].target /\ j.tries = job[w].tries /\ j.restore = job[w].restore
    BY <1>j DEF Job, Writers
  <2> HIDE DEF j
  <2>4. JobInv(w, j)
    BY <1>j, <1>p, <2>2, <2>3 DEF JobInv, Active, Writers
  <2> QED BY <1>g, <2>1, <2>2, <2>4, QuietStep DEF Writers
<1>3. ASSUME NEW w \in Publishers, RefuseBuild(w) PROVE Rest /\ late' = late
  BY <1>3, <1>g, RefusedType, RestingQuietStep DEF RefuseBuild, Writers
<1>4. ASSUME NEW w \in Publishers, NEW key \in Keys, Upload(w, key) PROVE Rest /\ late' = late
  <2> DEFINE j == [job[w] EXCEPT !.done = @ \cup {key}]
  <2>1. j \in Job
    BY <1>j, <1>p, JobEdits DEF Writers
  <2>2. /\ job[w].phase = "staging" /\ job' = [job EXCEPT ![w] = j]
        /\ UNCHANGED <<pointer, root, landed, late>>
    BY <1>4 DEF Upload
  <2>3. /\ j.phase = "staging" /\ j.seen = job[w].seen /\ j.family = job[w].family
        /\ j.target = job[w].target /\ j.tries = job[w].tries /\ j.restore = job[w].restore
    BY <1>j, <2>2 DEF Job, Writers
  <2> HIDE DEF j
  <2>4. JobInv(w, j)
    BY <1>j, <2>2, <2>3 DEF JobInv, Active, Writers
  <2> QED BY <1>g, <2>1, <2>2, <2>4, QuietStep DEF Writers
<1>5. ASSUME NEW w \in Publishers, Admit(w) PROVE Rest /\ late' = late
  <2> DEFINE j == [job[w] EXCEPT !.phase = "swapping", !.done = {}]
  <2>1. j \in Job
    BY <1>j, <1>p, JobEdits DEF Writers
  <2>2. /\ job[w].phase = "staging" /\ job' = [job EXCEPT ![w] = j]
        /\ Complete(job[w].target)
        /\ UNCHANGED <<pointer, root, landed, late>>
    BY <1>5 DEF Admit
  <2>3. /\ j.phase = "swapping" /\ j.seen = job[w].seen /\ j.family = job[w].family
        /\ j.target = job[w].target /\ j.tries = job[w].tries /\ j.restore = job[w].restore
    BY <1>j DEF Job, Writers
  <2> HIDE DEF j
  <2>4. SafePut(Request(w, j))
    BY <1>j, <2>2, <2>3 DEF JobInv, Active, Writers, SafePut, Request, Ready
  <2>5. JobInv(w, j)
    BY <1>j, <2>2, <2>3, <2>4 DEF JobInv, Active, Writers
  <2> QED BY <1>g, <2>1, <2>2, <2>5, QuietStep DEF Writers
<1>6. ASSUME NEW w \in Publishers, Reread(w) PROVE Rest /\ late' = late
  <2>0. /\ job[w].phase = "reread" /\ ~job[w].restore
        /\ UNCHANGED <<pointer, root, landed, late>>
    BY <1>6 DEF Reread
  <2>1. CASE CanRetry(job[w])
    <3> DEFINE j == [job[w] EXCEPT !.phase = "swapping", !.seen = pointer]
    <3>1. j \in Job
      BY <1>j, <1>p, JobEdits DEF Writers
    <3>2. /\ job' = [job EXCEPT ![w] = j]
          /\ job[w].tries < MaxAttempts
          /\ SafeAgainst(job[w].family, job[w].target, pointer)
      BY <1>6, <2>1 DEF Reread, CanRetry, Admissible, SafeAgainst
    <3>3. /\ j.phase = "swapping" /\ j.seen = pointer /\ j.family = job[w].family
          /\ j.target = job[w].target /\ j.tries = job[w].tries /\ j.restore = job[w].restore
      BY <1>j DEF Job, Writers
    <3> HIDE DEF j
    <3>4. SafePut(Request(w, j))
      BY <1>j, <1>p, <2>0, <3>2, <3>3 DEF JobInv, Active, Writers, SafePut, Request
    <3>5. JobInv(w, j)
      BY <1>j, <2>0, <3>2, <3>3, <3>4 DEF JobInv, Active, Writers
    <3> QED BY <1>g, <2>0, <3>1, <3>2, <3>5, QuietStep DEF Writers
  <2>2. CASE ~CanRetry(job[w])
    <3>1. job' = [job EXCEPT ![w] = RefusedJob]
      BY <1>6, <2>2 DEF Reread
    <3> QED BY <1>g, <2>0, <3>1, RefusedType, RestingQuietStep DEF Writers
  <2> QED BY <2>1, <2>2
<1>7. ASSUME NEW w \in Operators, Restores(w) PROVE Rest /\ late' = late
  <2>1. PICK f \in Families, g \in Entry, expected \in Entry : StartRestore(w, f, g, expected)
    BY <1>7 DEF Restores
  <2> DEFINE j == [IdleJob EXCEPT !.phase = "reread", !.restore = TRUE, !.family = f, !.target = g,
                                  !.expected = expected]
  <2>2. j \in Job
    BY IdleType DEF Job
  <2>3. /\ job' = [job EXCEPT ![w] = j]
        /\ RestoreTarget(f, g)
        /\ UNCHANGED <<pointer, root, landed, late>>
    BY <2>1 DEF StartRestore, RestoreTarget
  <2>4. j.phase = "reread" /\ j.restore /\ j.family = f /\ j.target = g
    BY DEF IdleJob
  <2> HIDE DEF j
  <2>5. JobInv(w, j)
    BY <2>3, <2>4 DEF JobInv, Active
  <2> QED BY <1>g, <2>2, <2>3, <2>5, QuietStep DEF Writers
<1>8. ASSUME NEW w \in Operators, RestoreRead(w) PROVE Rest /\ late' = late
  <2>0. /\ job[w].phase = "reread" /\ job[w].restore
        /\ UNCHANGED <<pointer, root, landed, late>>
    BY <1>8 DEF RestoreRead
  <2> DEFINE swapping == [job[w] EXCEPT !.phase = "swapping", !.seen = pointer]
  <2>1. \/ job' = [job EXCEPT ![w] = IdleJob]
        \/ CanRestore(job[w]) /\ job' = [job EXCEPT ![w] = swapping]
        \/ job' = [job EXCEPT ![w] = RefusedJob]
    BY <1>8 DEF RestoreRead
  <2>2. CASE job' = [job EXCEPT ![w] = IdleJob]
    BY <1>g, <1>i, <2>0, <2>2, RestingQuietStep DEF Writers
  <2>3. CASE CanRestore(job[w]) /\ job' = [job EXCEPT ![w] = swapping]
    <3>1. swapping \in Job
      BY <1>j, <1>p, JobEdits DEF Writers
    <3>2. /\ swapping.phase = "swapping" /\ swapping.seen = pointer
          /\ swapping.family = job[w].family /\ swapping.target = job[w].target
          /\ swapping.tries = job[w].tries /\ swapping.restore
      BY <1>j, <2>0 DEF Job, Writers
    <3> HIDE DEF swapping
    <3>3. SafePut(Request(w, swapping))
      BY <1>j, <1>p, <2>0, <2>3, <3>2 DEF JobInv, Writers, SafePut, Request, CanRestore
    <3>4. JobInv(w, swapping)
      BY <1>j, <2>0, <2>3, <3>2, <3>3 DEF JobInv, Active, Writers, CanRestore
    <3> QED BY <1>g, <2>0, <2>3, <3>1, <3>4, QuietStep DEF Writers
  <2>4. CASE job' = [job EXCEPT ![w] = RefusedJob]
    BY <1>g, <2>0, <2>4, RefusedType, RestingQuietStep DEF Writers
  <2> QED BY <2>1, <2>2, <2>3, <2>4
<1>9. ASSUME NEW w \in Writers, Swap(w) PROVE Rest /\ late' = late
  <2>0. /\ job[w].phase = "swapping" /\ Store(Request(w, job[w]))
        /\ UNCHANGED <<root, stored, late>>
    BY <1>9 DEF Swap
  <2>1. Request(w, job[w]) \in Put /\ SafePut(Request(w, job[w]))
    BY <1>j, <2>0, RequestType DEF JobInv, Active
  <2>2. RootsInv' /\ SelectedInv' /\ OneOwner'
    BY <1>g, <2>0, <2>1, StoreStep, RootsUnchanged
  <2> DEFINE j == [job[w] EXCEPT !.phase = "reread", !.seen = None, !.tries = @ + 1]
  <2>3. CASE pointer = job[w].seen
    <3>1. job' = [job EXCEPT ![w] = IdleJob]
      BY <1>9, <2>3 DEF Swap
    <3> QED BY <1>g, <1>i, <2>0, <2>2, <3>1, RestingStep
  <2>4. CASE pointer # job[w].seen
    <3>1. job' = [job EXCEPT ![w] = j]
      BY <1>9, <2>4 DEF Swap
    <3>2. job[w].tries + 1 \in 0 .. MaxAttempts
      BY <1>j, <2>0 DEF Job, JobInv
    <3>3. j \in Job
      BY <1>j, <1>p, <3>2, JobEdits
    <3>4. /\ j.phase = "reread" /\ j.restore = job[w].restore
          /\ j.family = job[w].family /\ j.target = job[w].target
      BY <1>j DEF Job
    <3> HIDE DEF j
    <3>5. JobInv(w, j)
      BY <1>j, <2>0, <2>1, <3>4 DEF JobInv, Active, SafePut, Request
    <3> QED BY <1>g, <2>0, <2>2, <3>1, <3>3, <3>5, JobStep
  <2> QED BY <2>3, <2>4
<1>10. ASSUME NEW w \in Writers, TimeOut(w) PROVE Rest /\ \A put \in late' : put \in late \/ SafePut(put)'
  <2>0. /\ job[w].phase = "swapping" /\ late' = late \cup {Request(w, job[w])}
        /\ job' = job \/ job' = [job EXCEPT ![w] = IdleJob]
        /\ UNCHANGED <<pointer, root, stored, landed>>
    BY <1>10 DEF TimeOut
  <2>1. PICK put \in Put : put = Request(w, job[w])
    BY <1>j, <2>0, RequestType DEF JobInv, Active
  <2>2. SafePut(put)'
    BY <1>g, <1>j, <2>0, <2>1, StablePut DEF JobInv, Inv
  <2>3. JobsInv'
    BY <1>g, <1>i, <2>0, RestingStep, JobsUnchanged
  <2> QED BY <1>g, <2>0, <2>1, <2>2, <2>3, PointerUnchanged, RootsUnchanged
<1>11. ASSUME NEW w \in Writers, Fail(w) PROVE Rest /\ late' = late
  BY <1>11, <1>g, <1>i, RestingQuietStep DEF Fail
<1>12. ASSUME NEW put \in late, Arrive(put) PROVE Rest /\ late' \subseteq late
  <2>1. put \in Put /\ SafePut(put)
    BY DEF Inv, TypeOK
  <2>2. Store(put) /\ UNCHANGED <<root, stored, job>> /\ late' \subseteq late
    BY <1>12 DEF Arrive
  <2> QED BY <1>g, <2>1, <2>2, StoreStep, RootsUnchanged, JobsUnchanged
<1>13. CASE UNCHANGED vars
  <2>1. UNCHANGED <<pointer, root, stored, job, late, landed>>
    BY <1>13 DEF vars
  <2>2. Rest
    BY <1>g, <2>1, PointerUnchanged, RootsUnchanged, JobsUnchanged
  <2> QED BY <2>1, <2>2, <1>t, <1>g, LateStep DEF Inv
<1> HIDE DEF Rest
<1>14. ASSUME Next PROVE Rest /\ \A put \in late' : put \in late \/ SafePut(put)'
  BY <1>1, <1>2, <1>3, <1>4, <1>5, <1>6, <1>7, <1>8, <1>9, <1>10, <1>11, <1>12, <1>14 DEF Next
<1>15. ASSUME Next PROVE \A put \in late' : SafePut(put)'
  BY <1>14, <1>15, <1>g, LateStep
<1> QED BY <1>13, <1>14, <1>15, <1>t DEF Rest, Inv

-----------------------------------------------------------------------------
(* The invariant holds, and what it implies. *)
THEOREM Invariance == Spec => []Inv
  BY InitInv, InvStep, PTL DEF Spec

(* Every variable keeps its type: no writer spends more than _POINTER_ATTEMPTS
   attempts, and every request asks for a family and an entry. *)
THEOREM TypeCorrect == Spec => []TypeOK
<1>1. Inv => TypeOK
  BY DEF Inv
<1> QED BY <1>1, Invariance, PTL

(* publish_generation moves the pointer only to members that are all stored,
   whatever races, crashes, late requests and rollbacks there were. *)
THEOREM SelectedIsComplete == Spec => []SelectedComplete
<1>1. Inv => SelectedComplete
  BY DEF Inv, SelectedInv, RestoreTarget, Ready, SelectedComplete
<1> QED BY <1>1, Invariance, PTL

(* _merge_family gives every table and receipt dataset one owning family. *)
THEOREM NamesHaveOneOwner == Spec => []OneOwner
<1>1. Inv => OneOwner
  BY DEF Inv
<1> QED BY <1>1, Invariance, PTL

(* A published generation succeeds a selected one of its family and keeps
   every name it claimed, but the shared logs, which no family owns. *)
THEOREM ChainIsHeld == Spec => []ChainHeld
<1>1. Inv => ChainHeld
  <2> SUFFICES ASSUME Inv, NEW g \in EverSelected, root[g].prior # None
               PROVE  /\ root[g].prior \in EverSelected
                      /\ root[root[g].prior].family = root[g].family
                      /\ Claims(root[g].prior) \ SharedLogs \subseteq Claims(g)
    BY DEF ChainHeld
  <2>1. g \in Generations /\ root[g] # None
    BY DEF Inv, SelectedInv, EverSelected
  <2>2. MembershipHeld(g, root[g].prior)
    BY DEF Inv, SelectedInv, Ready
  <2> QED BY <2>1, <2>2 DEF Inv, RootsInv, MembershipHeld, Claims
<1> QED BY <1>1, Invariance, PTL

-----------------------------------------------------------------------------
(* A write of the pointer, by whoever makes it, is one selection. *)
LEMMA StoreSelects ==
    ASSUME Inv, NEW put \in Put, SafePut(put), Store(put), UNCHANGED <<root, stored>>
    PROVE  \/ UNCHANGED <<pointer, landed>>
           \/ /\ pointer' \in Index
              /\ Entries(pointer)' = [Entries(pointer) EXCEPT ![put.family] = put.target]
              /\ SafePut([put EXCEPT !.expect = pointer])
              /\ EverSelected' = EverSelected \cup (IF put.restore THEN {} ELSE {put.target})
<1>1. CASE pointer # put.expect
  BY <1>1 DEF Store
<1>2. CASE pointer = put.expect
  <2>1. Entries(pointer) \in Index
    BY EntriesType DEF Inv, TypeOK
  <2>2. pointer' = [Entries(pointer) EXCEPT ![put.family] = put.target]
    BY <1>2 DEF Store
  <2>3. pointer' \in Index
    BY <2>1, <2>2 DEF Index, Put, Entry
  <2>4. Entries(pointer)' = pointer'
    BY <2>3, PublicationAssumption DEF Entries, PublicationAssumption
  <2>5. [put EXCEPT !.expect = pointer] = put
    BY <1>2 DEF Put
  <2>6. EverSelected' = EverSelected \cup (IF put.restore THEN {} ELSE {put.target})
    <3>1. put.writer \in Writers
      BY DEF Put
    <3>2. ~put.restore => put.target \in Generations
      BY DEF SafePut, BuiltFor
    <3>3. landed' = IF put.restore THEN landed ELSE landed \cup {<<put.writer, put.target>>}
      BY <1>2 DEF Store
    <3> QED BY <3>1, <3>2, <3>3 DEF EverSelected
  <2> QED BY <2>2, <2>3, <2>4, <2>5, <2>6
<1> QED BY <1>1, <1>2

(* Every step moves the pointer by one safe request, or leaves it alone. *)
LEMMA PointerStep ==
    ASSUME Inv, [Next]_vars
    PROVE  \/ UNCHANGED <<pointer, landed>>
           \/ \E put \in Put : SafePut(put) /\ Store(put) /\ UNCHANGED <<root, stored>>
<1>1. ASSUME NEW w \in Writers, Swap(w)
      PROVE  \E put \in Put : SafePut(put) /\ Store(put) /\ UNCHANGED <<root, stored>>
  <2>1. job[w] \in Job /\ JobInv(w, job[w])
    BY DEF Inv, TypeOK, JobsInv
  <2>2. job[w].phase = "swapping" /\ Store(Request(w, job[w])) /\ UNCHANGED <<root, stored>>
    BY <1>1 DEF Swap
  <2>3. Request(w, job[w]) \in Put /\ SafePut(Request(w, job[w]))
    BY <2>1, <2>2, RequestType DEF JobInv, Active
  <2> QED BY <2>2, <2>3
<1>2. ASSUME NEW put \in late, Arrive(put)
      PROVE  \E p \in Put : SafePut(p) /\ Store(p) /\ UNCHANGED <<root, stored>>
  BY <1>2 DEF Arrive, Inv, TypeOK
<1>3. CASE UNCHANGED vars
  BY <1>3 DEF vars
<1> QED
  BY <1>1, <1>2, <1>3
  DEF Next, Builds, Build, Restores, Begin, RefuseBuild, Upload, Admit, Reread, StartRestore, RestoreRead,
      TimeOut, Fail

(* The requests that can still move the pointer: abandoned ones under way, *)
(* and those of writers about to send.                                     *)
Moving == late \cup {Request(w, job[w]) : w \in {v \in Writers : job[v].phase = "swapping"}}

LEMMA MovingSteps ==
    ASSUME Inv, [Next]_vars
    PROVE  /\ late' \subseteq Moving
           /\ \/ UNCHANGED <<pointer, landed>>
              \/ \E put \in Moving : Store(put) /\ UNCHANGED <<root, stored>>
<1>1. ASSUME NEW w \in Writers, Swap(w)
      PROVE  late' = late /\ \E put \in Moving : Store(put) /\ UNCHANGED <<root, stored>>
  BY <1>1 DEF Swap, Moving
<1>2. ASSUME NEW put \in late, Arrive(put)
      PROVE  /\ late' \subseteq late
             /\ \E p \in Moving : Store(p) /\ UNCHANGED <<root, stored>>
  BY <1>2 DEF Arrive, Moving
<1>3. ASSUME NEW w \in Writers, TimeOut(w)
      PROVE  late' \subseteq Moving /\ UNCHANGED <<pointer, landed>>
  BY <1>3 DEF TimeOut, Moving
<1>4. CASE UNCHANGED vars
  BY <1>4 DEF vars, Moving
<1> QED
  BY <1>1, <1>2, <1>3, <1>4
  DEF Next, Builds, Build, Restores, Begin, RefuseBuild, Upload, Admit, Reread, StartRestore, RestoreRead,
      Fail, Moving

LEMMA MovingSafe ==
    ASSUME Inv, NEW put \in Moving
    PROVE  put \in Put /\ SafePut(put)
<1>1. CASE put \in late
  BY <1>1 DEF Inv, TypeOK
<1>2. ASSUME NEW w \in Writers, job[w].phase = "swapping", put = Request(w, job[w])
      PROVE  put \in Put /\ SafePut(put)
  <2>1. job[w] \in Job /\ JobInv(w, job[w])
    BY DEF Inv, TypeOK, JobsInv
  <2> QED BY <1>2, <2>1, RequestType DEF JobInv, Active
<1> QED BY <1>1, <1>2 DEF Moving

(* A pointer write changes one family's entry. *)
THEOREM WritesOneFamily == Spec => OneFamilyPerWrite
<1>1. ASSUME Inv, [Next]_vars, NEW f \in Families, NEW h \in Families,
             Entries(pointer)'[f] # Entries(pointer)[f], Entries(pointer)'[h] # Entries(pointer)[h]
      PROVE  f = h
  <2>1. ~UNCHANGED <<pointer, landed>>
    BY <1>1 DEF Entries
  <2>2. PICK put \in Put : SafePut(put) /\ Store(put) /\ UNCHANGED <<root, stored>>
    BY <1>1, <2>1, PointerStep
  <2>3. Entries(pointer)' = [Entries(pointer) EXCEPT ![put.family] = put.target]
    BY <1>1, <2>1, <2>2, StoreSelects
  <2>4. Entries(pointer) \in Index
    BY <1>1, EntriesType DEF Inv, TypeOK
  <2> QED BY <1>1, <2>3, <2>4 DEF Index
<1>2. Inv /\ [Next]_vars =>
        [\A f, h \in Families : Entries(pointer)'[f] # Entries(pointer)[f]
                               /\ Entries(pointer)'[h] # Entries(pointer)[h] => f = h]_vars
  BY <1>1
<1> QED BY <1>2, Invariance, PTL DEF Spec, OneFamilyPerWrite

-----------------------------------------------------------------------------
(* Refinement.  The abstract basis of a generation is its root once it has
   been selected. *)
Basis == [g \in Generations |-> IF g \in EverSelected THEN root[g] ELSE None]

LEMMA AtomicInit == Init => Atomic!Init
  BY DEF Init, Atomic!Init, Entries, EverSelected

(* Nothing but a write of the pointer is visible to the abstraction. *)
LEMMA AtomicStutter ==
    ASSUME Inv, [Next]_vars, UNCHANGED <<pointer, landed>>
    PROVE  UNCHANGED Atomic!vars
<1>1. Entries(pointer)' = Entries(pointer)
  BY DEF Entries
<1>2. EverSelected' = EverSelected
  BY DEF EverSelected
<1>3. \A g \in EverSelected : root'[g] = root[g]
  BY Growth DEF Grown, Inv, SelectedInv, EverSelected
<1>4. Basis' = Basis
  BY <1>2, <1>3 DEF Basis
<1> QED BY <1>1, <1>4 DEF Atomic!vars, Basis

(* The abstract reading of the names other families claim is the concrete one. *)
LEMMA AtomicUnclaimed ==
    ASSUME Inv, NEW f \in Families, NEW g \in Generations, OwnershipFree(f, g, Entries(pointer))
    PROVE  Atomic!Unclaimed(f, Claims(g))
<1>1. \A h \in Families : Entries(pointer)[h] # None =>
          Entries(pointer)[h] \in Generations /\ Entries(pointer)[h] \in EverSelected
  BY DEF Inv, SelectedInv, RestoreTarget, EverSelected
<1> QED BY <1>1 DEF OwnershipFree, Claims, Atomic!Unclaimed, Atomic!Claims

(* A safe publish reads, builds and selects as one transaction would. *)
LEMMA AtomicPublish ==
    ASSUME Inv, NEW f \in Families, NEW g \in Generations,
           BuiltFor(f, g), Ready(g), SafeAgainst(f, g, pointer),
           Entries(pointer)' = [Entries(pointer) EXCEPT ![f] = g],
           EverSelected' = EverSelected \cup {g}, root' = root
    PROVE  Atomic!Publish(f, g)
<1> DEFINE read == {h \in Families : root[g].parents[h] # None}
           layout == root[g].layout
<1>1. /\ root[g] \in Root
      /\ root[g].family = f
      /\ Entries(pointer) \in Index
  BY EntriesType DEF Inv, TypeOK, BuiltFor
<1>2. /\ read \in SUBSET (Families \ {f})
      /\ layout \in Layouts
  BY <1>1 DEF Inv, RootsInv, BuiltFor, Root
<1>3. Atomic!RootOf(f, read, layout) = root[g]
  <2>1. root[g].prior = Entries(pointer)[f]
    BY DEF SafeAgainst, FamilyUnchanged
  <2>2. root[g].parents = [h \in Families |-> IF h \in read THEN Entries(pointer)[h] ELSE None]
    BY <1>1 DEF SafeAgainst, ParentsCurrent, Root, Index
  <2> HIDE DEF read
  <2> QED BY <1>1, <2>1, <2>2 DEF Atomic!RootOf, Root
<1>4. Basis[g] \in {None, root[g]}
  BY DEF Basis
<1>5. Atomic!Unclaimed(f, Atomic!Claims(root[g]))
  <2>1. Atomic!Claims(root[g]) = Claims(g)
    BY DEF Claims, Atomic!Claims
  <2> QED BY <2>1, AtomicUnclaimed DEF SafeAgainst
<1>6. Entries(pointer)[f] # None =>
          Atomic!Claims(Basis[Entries(pointer)[f]]) \ SharedLogs \subseteq Atomic!Claims(root[g])
  <2> SUFFICES ASSUME Entries(pointer)[f] # None
               PROVE  Atomic!Claims(Basis[Entries(pointer)[f]]) \ SharedLogs \subseteq Atomic!Claims(root[g])
    OBVIOUS
  <2>1. Basis[Entries(pointer)[f]] = root[Entries(pointer)[f]]
    BY DEF Inv, SelectedInv, RestoreTarget, EverSelected, Basis
  <2>2. MembershipHeld(g, Entries(pointer)[f])
    BY DEF Ready, SafeAgainst, FamilyUnchanged
  <2> QED BY <2>1, <2>2 DEF MembershipHeld, Atomic!Claims
<1>7. Basis' = [Basis EXCEPT ![g] = root[g]]
  BY DEF Basis
<1> HIDE DEF read, layout
<1>8. /\ Basis[g] \in {None, Atomic!RootOf(f, read, layout)}
      /\ Atomic!Unclaimed(f, Atomic!Claims(Atomic!RootOf(f, read, layout)))
      /\ Entries(pointer)[f] # None => Atomic!Claims(Basis[Entries(pointer)[f]]) \ SharedLogs
                                         \subseteq Atomic!Claims(Atomic!RootOf(f, read, layout))
      /\ Basis' = [Basis EXCEPT ![g] = Atomic!RootOf(f, read, layout)]
  BY <1>3, <1>4, <1>5, <1>6, <1>7
<1> QED BY <1>2, <1>8 DEF Atomic!Publish, Basis

(* A safe restore selects what was selected before, or nothing. *)
LEMMA AtomicRestore ==
    ASSUME Inv, NEW f \in Families, NEW g \in Entry, RestoreTarget(f, g),
           g # None => OwnershipFree(f, g, Entries(pointer)),
           Entries(pointer)' = [Entries(pointer) EXCEPT ![f] = g],
           EverSelected' = EverSelected, root' = root
    PROVE  Atomic!Restore(f, g)
<1>1. Basis' = Basis
  BY DEF Basis
<1>2. ASSUME g # None
      PROVE  /\ Basis[g] # None
             /\ Basis[g].family = f
             /\ Atomic!Unclaimed(f, Atomic!Claims(Basis[g]))
  <2>1. g \in Generations /\ g \in EverSelected /\ root[g].family = f
    BY <1>2 DEF RestoreTarget, EverSelected
  <2>2. Basis[g] = root[g] /\ root[g] # None
    BY <2>1 DEF Basis, Inv, SelectedInv
  <2>3. Atomic!Claims(Basis[g]) = Claims(g)
    BY <2>2 DEF Claims, Atomic!Claims
  <2> QED BY <1>2, <2>1, <2>2, <2>3, AtomicUnclaimed
<1> QED BY <1>1, <1>2 DEF Atomic!Restore, Basis

LEMMA AtomicStep ==
    ASSUME Inv, [Next]_vars
    PROVE  [Atomic!Next]_(Atomic!vars)
<1>1. CASE UNCHANGED <<pointer, landed>>
  BY <1>1, AtomicStutter
<1>2. CASE ~UNCHANGED <<pointer, landed>>
  <2>1. PICK put \in Put : SafePut(put) /\ Store(put) /\ UNCHANGED <<root, stored>>
    BY <1>2, PointerStep
  <2> DEFINE f == put.family
             g == put.target
  <2>2. /\ Entries(pointer)' = [Entries(pointer) EXCEPT ![f] = g]
        /\ SafePut([put EXCEPT !.expect = pointer])
        /\ EverSelected' = EverSelected \cup (IF put.restore THEN {} ELSE {g})
    BY <1>2, <2>1, StoreSelects
  <2>3. f \in Families /\ g \in Entry
    BY DEF Put
  <2>4. IF put.restore
        THEN RestoreTarget(f, g) /\ (g # None => OwnershipFree(f, g, Entries(pointer)))
        ELSE BuiltFor(f, g) /\ Ready(g) /\ SafeAgainst(f, g, pointer)
    BY <2>2 DEF SafePut, Put
  <2> HIDE DEF f, g
  <2>5. CASE put.restore
    BY <2>1, <2>2, <2>3, <2>4, <2>5, AtomicRestore DEF Atomic!Next, Entry
  <2>6. CASE ~put.restore
    <3>1. g \in Generations
      BY <2>4, <2>6 DEF BuiltFor
    <3>2. Atomic!Publish(f, g)
      BY <2>1, <2>2, <2>3, <2>4, <2>6, <3>1, AtomicPublish
    <3> QED BY <2>3, <3>1, <3>2 DEF Atomic!Next
  <2> QED BY <2>5, <2>6
<1> QED BY <1>1, <1>2

(* The whole protocol, with its staging, races, retries, abandoned requests
   and rollbacks, implements the atomic selection. *)
THEOREM Implements == Spec => PublicationIsAtomic
<1>1. Inv /\ [Next]_vars => [Atomic!Next]_(Atomic!vars)
  BY AtomicStep
<1> QED BY <1>1, AtomicInit, Invariance, PTL DEF Spec, PublicationIsAtomic, Atomic!Spec
=============================================================================
