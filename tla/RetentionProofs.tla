--------------------------- MODULE RetentionProofs ---------------------------
(***************************************************************************)
(* Proofs about retention, for every set of families, generations and      *)
(* publishers, every KEEP_LAST, grace and bound.  HeldInv is inductive     *)
(* whoever writes, rollbacks included: what the deleting plan found it     *)
(* must keep loses nothing, whatever is published, rolled back or pinned   *)
(* meanwhile.  OnwardInv is where nobody rolls back (Operators = {}): no   *)
(* member of a generation that is current, a recent predecessor or an      *)
(* input of a current one is deleted either.                               *)
(***************************************************************************)
EXTENDS Retention, PublicationProofs, FiniteSetTheorems

(* Where nothing but the objects' times and the run's own state changes. *)
LEMMA RetentionProtocol == [RNext]_rvars => [Next]_vars
<1>1. PublicationStep => Next
  BY DEF PublicationStep, Uploads, ReadsBack, RollsBack, Proceeds, Next, Restores
<1> QED BY <1>1 DEF RNext, rvars, vars, Tick, Pin, Snapshot, Retain, ReadIndex, Mark, Finish, Delete, DeletePartly

-----------------------------------------------------------------------------
(* Closures: the least set that holds gens and where its members lead. *)

LEMMA ClosureHolds ==
    ASSUME NEW next \in [Generations -> SUBSET Generations], NEW gens \in SUBSET Generations
    PROVE  /\ gens \subseteq Closure(gens, next)
           /\ Closure(gens, next) \subseteq Generations
           /\ \A g \in Closure(gens, next) : next[g] \subseteq Closure(gens, next)
  BY DEF Closure

LEMMA ClosureLeast ==
    ASSUME NEW next, NEW gens, NEW closed \in SUBSET Generations,
           gens \subseteq closed, \A g \in closed : next[g] \subseteq closed
    PROVE  Closure(gens, next) \subseteq closed
  BY DEF Closure

(* Two ways to lead on that agree on a closed set have the same closures in it. *)
LEMMA ClosureSame ==
    ASSUME NEW next \in [Generations -> SUBSET Generations],
           NEW other \in [Generations -> SUBSET Generations],
           NEW closed \in SUBSET Generations, NEW gens \in SUBSET closed,
           \A g \in closed : next[g] \subseteq closed /\ other[g] = next[g]
    PROVE  Closure(gens, next) = Closure(gens, other)
<1>1. Closure(gens, next) \subseteq closed /\ Closure(gens, other) \subseteq closed
  BY ClosureLeast
<1>2. /\ gens \subseteq Closure(gens, next)
      /\ \A g \in Closure(gens, next) : other[g] \subseteq Closure(gens, next)
  BY <1>1, ClosureHolds
<1>3. /\ gens \subseteq Closure(gens, other)
      /\ \A g \in Closure(gens, other) : next[g] \subseteq Closure(gens, other)
  BY <1>1, ClosureHolds
<1>4. Closure(gens, other) \subseteq Closure(gens, next)
  BY <1>1, <1>2, ClosureLeast
<1>5. Closure(gens, next) \subseteq Closure(gens, other)
  BY <1>1, <1>3, ClosureLeast
<1> QED BY <1>4, <1>5

LEMMA ClosureWithin ==
    ASSUME NEW next \in [Generations -> SUBSET Generations], NEW more \in SUBSET Generations,
           NEW gens \in SUBSET Closure(more, next)
    PROVE  Closure(gens, next) \subseteq Closure(more, next)
  BY ClosureHolds, ClosureLeast

-----------------------------------------------------------------------------
(* Retention deletes no root, so what a selected generation replaced and was
   built from can always be read, and is itself selected. *)

LEMMA LinksType ==
    /\ Priors \in [Generations -> SUBSET Generations]
    /\ Parents \in [Generations -> SUBSET Generations]
    /\ Listed \subseteq Generations
  BY DEF Priors, Parents, Replaced, ParentsOf, Listed

LEMMA Links ==
    ASSUME HeldInv, NEW g \in EverSelected
    PROVE  /\ g \in Generations /\ root[g] # None /\ g \in Listed /\ <<g, RootKey>> \in Bucket
           /\ Priors[g] = {root[g].prior} \ {None}
           /\ Parents[g] = {root[g].parents[f] : f \in Families} \ {None}
           /\ Priors[g] \cup Parents[g] \subseteq EverSelected
           /\ root[g].family \in Families
           /\ \A h \in Priors[g] : root[h].family = root[g].family
<1>1. \A h \in EverSelected : /\ h \in Generations /\ root[h] \in Root
                              /\ h \in Listed /\ <<h, RootKey>> \in Bucket
  <2> SUFFICES ASSUME NEW h \in EverSelected
               PROVE  /\ h \in Generations /\ root[h] \in Root
                      /\ h \in Listed /\ <<h, RootKey>> \in Bucket
    OBVIOUS
  <2>1. h \in Generations /\ root[h] # None /\ Complete(h)
    BY DEF HeldInv, Inv, SelectedInv, Ready, EverSelected
  <2>2. RootKey \in Keys
    BY DEF Keys, RootKey
  <2>3. <<h, RootKey>> \in Bucket
    BY <2>1, <2>2 DEF Complete, Bucket, HeldInv, RetentionTypeOK
  <2>4. root[h] \in Root
    BY <2>1 DEF HeldInv, RetentionTypeOK, TypeOK
  <2> QED BY <2>1, <2>2, <2>3, <2>4 DEF Listed
<1>2. root[g] # None
  BY DEF HeldInv, Inv, SelectedInv
<1>3. root[g].prior # None => /\ root[g].prior \in EverSelected
                              /\ root[root[g].prior].family = root[g].family
  BY <1>1, <1>2 DEF HeldInv, Inv, RootsInv
<1>4. \A f \in Families : root[g].parents[f] # None => root[g].parents[f] \in EverSelected
  BY <1>1, <1>2 DEF HeldInv, KnownParents
<1>5. None \notin Listed
  BY LinksType, PublicationAssumption DEF PublicationAssumption
<1>6. Priors[g] = {root[g].prior} \ {None}
  BY <1>1, <1>3, <1>5 DEF Priors, Replaced
<1>7. Parents[g] = {root[g].parents[f] : f \in Families} \ {None}
  BY <1>1, <1>4, <1>5 DEF Parents, ParentsOf
<1>8. root[g].family \in Families
  BY <1>1 DEF Root
<1> QED BY <1>1, <1>2, <1>3, <1>4, <1>6, <1>7, <1>8

(* So the way back from a selected generation, and what it was built from, is
   the same after every step. *)
LEMMA LinksStay ==
    ASSUME HeldInv, RetentionTypeOK', Grown
    PROVE  /\ \A g \in EverSelected : /\ root'[g] = root[g]
                                      /\ Priors'[g] = Priors[g]
                                      /\ Parents'[g] = Parents[g]
           /\ EverSelected \subseteq EverSelected'
           /\ Priors' \in [Generations -> SUBSET Generations]
           /\ Parents' \in [Generations -> SUBSET Generations]
<1>1. \A g \in EverSelected : /\ g \in Generations /\ root'[g] = root[g]
                              /\ g \in Listed' /\ <<g, RootKey>> \in Bucket'
  <2> SUFFICES ASSUME NEW g \in EverSelected
               PROVE  /\ g \in Generations /\ root'[g] = root[g]
                      /\ g \in Listed' /\ <<g, RootKey>> \in Bucket'
    OBVIOUS
  <2>1. g \in Generations /\ root[g] # None /\ <<g, RootKey>> \in stored
    BY Links DEF Bucket
  <2>2. root'[g] = root[g] /\ <<g, RootKey>> \in stored'
    BY <2>1 DEF Grown
  <2>3. <<g, RootKey>> \in Bucket'
    BY <2>2 DEF Bucket, RetentionTypeOK
  <2>4. RootKey \in Keys
    BY DEF Keys, RootKey
  <2> QED BY <2>1, <2>2, <2>3, <2>4 DEF Listed
<1>2. None \notin Listed'
  BY PublicationAssumption DEF PublicationAssumption, Listed
<1>3. ASSUME NEW g \in EverSelected PROVE Priors'[g] = Priors[g]
  <2>1. Priors[g] = {root[g].prior} \ {None} /\ Priors[g] \subseteq EverSelected
    BY Links
  <2>2. Priors'[g] = {root[g].prior} \cap Listed'
    BY <1>1 DEF Priors, Replaced
  <2> QED BY <1>1, <1>2, <2>1, <2>2
<1>4. ASSUME NEW g \in EverSelected PROVE Parents'[g] = Parents[g]
  <2>1. Parents[g] = {root[g].parents[f] : f \in Families} \ {None} /\ Parents[g] \subseteq EverSelected
    BY Links
  <2>2. Parents'[g] = {root[g].parents[f] : f \in Families} \cap Listed'
    BY <1>1 DEF Parents, ParentsOf
  <2> QED BY <1>1, <1>2, <2>1, <2>2
<1>5. EverSelected \subseteq EverSelected'
  BY DEF EverSelected, Grown
<1>6. /\ Priors' \in [Generations -> SUBSET Generations]
      /\ Parents' \in [Generations -> SUBSET Generations]
  BY DEF Priors, Parents, Replaced, ParentsOf, Listed
<1> QED BY <1>1, <1>3, <1>4, <1>5, <1>6

LEMMA ClosuresStay ==
    ASSUME HeldInv, RetentionTypeOK', Grown, NEW gens \in SUBSET EverSelected
    PROVE  /\ Closure(gens, Priors') = Closure(gens, Priors)
           /\ Closure(gens, Parents') = Closure(gens, Parents)
<1>1. EverSelected \in SUBSET Generations
  BY DEF EverSelected
<1>2. \A g \in EverSelected : /\ Priors[g] \subseteq EverSelected /\ Priors'[g] = Priors[g]
                              /\ Parents[g] \subseteq EverSelected /\ Parents'[g] = Parents[g]
  BY Links, LinksStay
<1>3. /\ Priors \in [Generations -> SUBSET Generations]
      /\ Parents \in [Generations -> SUBSET Generations]
      /\ Priors' \in [Generations -> SUBSET Generations]
      /\ Parents' \in [Generations -> SUBSET Generations]
  BY LinksType, LinksStay
<1>4. Closure(gens, Priors) = Closure(gens, Priors')
  BY <1>1, <1>2, <1>3, ClosureSame
<1>5. Closure(gens, Parents) = Closure(gens, Parents')
  BY <1>1, <1>2, <1>3, ClosureSame
<1> QED BY <1>4, <1>5

(* The way back stays in the family. *)
LEMMA BackInFamily ==
    ASSUME HeldInv, NEW g \in EverSelected
    PROVE  /\ g \in Back(g)
           /\ \A h \in Back(g) : h \in EverSelected /\ root[h].family = root[g].family
<1> DEFINE same == {h \in EverSelected : root[h].family = root[g].family}
<1>1. same \in SUBSET Generations
  BY DEF EverSelected
<1>2. \A h \in same : Priors[h] \subseteq same
  BY Links
<1>3. Closure({g}, Priors) \subseteq same
  BY <1>1, <1>2, ClosureLeast
<1>4. g \in Closure({g}, Priors)
  BY Links, LinksType, ClosureHolds
<1> QED BY <1>3, <1>4 DEF Back

-----------------------------------------------------------------------------
(* What a step of the protocol does to the bucket: nothing, or it uploads    *)
(* members of one generation, which is then the newest.                      *)

LEMMA BucketStep ==
    ASSUME RetentionTypeOK, Grown, PublicationStep
    PROVE  /\ gone' \subseteq gone
           /\ Bucket \subseteq Bucket'
           /\ written' \in [Generations -> 0 .. MaxClock]
           /\ \A g \in Generations :
                 \/ /\ written'[g] = written[g]
                    /\ \A k \in Keys : <<g, k>> \in Bucket' => <<g, k>> \in Bucket
                 \/ /\ ~Whole(g)
                    /\ written'[g] = clock
                    /\ \A h \in Listed \ {g} : written[h] < clock
           /\ UNCHANGED <<clock, pins, inputs, keeper, unindexed>>
<1>1. gone' \subseteq gone
  BY DEF PublicationStep, Uploads, ReadsBack, RollsBack, Proceeds
<1>2. Bucket \subseteq Bucket'
  BY <1>1 DEF Bucket, Grown
<1> DEFINE fresh == {g \in Generations : \E k \in Keys : <<g, k>> \in Bucket' \ Bucket}
<1>3. /\ \A g \in fresh : \A h \in Listed \ {g} : written[h] < clock
      /\ written' = [g \in Generations |-> IF g \in fresh THEN clock ELSE written[g]]
      /\ UNCHANGED <<clock, pins, inputs, keeper, unindexed>>
  BY DEF PublicationStep, Stamp
<1>4. \A g \in fresh : ~Whole(g)
  BY DEF Whole
<1>5. ASSUME NEW g \in Generations \ fresh, NEW k \in Keys, <<g, k>> \in Bucket'
      PROVE  <<g, k>> \in Bucket
  BY <1>5
<1>6. clock \in 0 .. MaxClock /\ written \in [Generations -> 0 .. MaxClock]
  BY DEF RetentionTypeOK
<1>7. written' \in [Generations -> 0 .. MaxClock]
  BY <1>3, <1>6
<1>8. \A g \in Generations \ fresh : written'[g] = written[g]
  BY <1>3
<1>9. \A g \in fresh : written'[g] = clock
  BY <1>3
<1> HIDE DEF fresh
<1>10. ASSUME NEW g \in Generations
       PROVE  \/ /\ written'[g] = written[g]
                 /\ \A k \in Keys : <<g, k>> \in Bucket' => <<g, k>> \in Bucket
              \/ /\ ~Whole(g)
                 /\ written'[g] = clock
                 /\ \A h \in Listed \ {g} : written[h] < clock
  <2>1. CASE g \in fresh
    BY <1>3, <1>4, <1>9, <2>1
  <2>2. CASE g \notin fresh
    BY <1>5, <1>8, <2>2
  <2> QED BY <2>1, <2>2
<1> QED BY <1>1, <1>2, <1>3, <1>7, <1>10

(* The edits the run makes of its own record. *)
LEMMA RestingType == RestingKeeper \in Keeper
  BY DEF RestingKeeper, Keeper

LEMMA MarksType ==
    ASSUME NEW index, NEW now, NEW pinned
    PROVE  Deletable(index, now, pinned) \subseteq Listed
  BY DEF Deletable

(* The run's own step changes only its record and what is gone. *)
LEMMA KeeperType ==
    ASSUME RetentionTypeOK, Retain
    PROVE  /\ keeper' \in Keeper
           /\ keeper'.approved # {} => keeper'.phase \in {"approved", "reindexed"}
           /\ keeper'.doomed # {} => keeper'.phase = "deleting"
           /\ gone' \subseteq Generations \X (Keys \ {RootKey})
           /\ unindexed' \subseteq Families
           /\ UNCHANGED <<vars, clock, written, pins, inputs>>
<1> DEFINE Good(k) == /\ k \in Keeper
                      /\ k.approved # {} => k.phase \in {"approved", "reindexed"}
                      /\ k.doomed # {} => k.phase = "deleting"
<1>1. Good(RestingKeeper)
  BY RestingType DEF RestingKeeper
<1>2. Good(keeper)
  BY DEF RetentionTypeOK
<1>3. CASE ReadIndex
  <2>1. keeper.phase \in {"idle", "approved"} /\ UNCHANGED <<vars, gone, clock, written, pins, inputs, unindexed>>
    BY <1>3 DEF ReadIndex
  <2>2. /\ keeper' = [keeper EXCEPT !.phase = keeper'.phase, !.index = pointer, !.now = clock,
                                    !.pins = pins]
        /\ keeper'.phase = IF keeper.phase = "idle" THEN "indexed" ELSE "reindexed"
    BY <1>2, <1>3 DEF ReadIndex, Keeper
  <2>3. pointer \in Index \cup {None} /\ clock \in Nat /\ pins \in SUBSET Generations
    BY DEF RetentionTypeOK, TypeOK
  <2>4. Good(keeper')
    BY <1>2, <2>1, <2>2, <2>3 DEF Keeper
  <2> QED BY <2>1, <2>4 DEF RetentionTypeOK
<1>4. CASE Mark
  <2> DEFINE index == Entries(keeper.index)
             marks == Deletable(index, keeper.now, Pinned(index))
  <2>1. marks \subseteq Generations
    BY MarksType, LinksType
  <2>2. /\ keeper.phase \in {"indexed", "reindexed"}
        /\ keeper' = IF keeper.phase = "indexed"
                     THEN [RestingKeeper EXCEPT !.phase = "approved", !.approved = marks]
                     ELSE [keeper EXCEPT !.phase = "deleting", !.now = 0,
                                          !.pins = @ \cup inputs.native,
                                          !.sources = inputs.sources, !.approved = {},
                                          !.doomed = keeper.approved \cap marks]
        /\ UNCHANGED <<vars, gone, clock, written, pins, inputs, unindexed>>
    BY <1>4 DEF Mark
  <2> HIDE DEF marks
  <2>3. inputs.native \subseteq Generations /\ inputs.sources \subseteq Generations
    BY DEF RetentionTypeOK, Inputs
  <2>4. Good(keeper')
    BY <1>1, <1>2, <2>1, <2>2, <2>3 DEF Keeper, RestingKeeper
  <2> QED BY <2>2, <2>4 DEF RetentionTypeOK
<1>5. CASE Finish
  BY <1>1, <1>5 DEF Finish, RetentionTypeOK
<1>6. ASSUME NEW g \in Generations, NEW keys \in SUBSET (Keys \ {RootKey}),
             gone' = gone \cup (Bucket \cap ({g} \X keys)), NoteDeletion(g)
      PROVE  /\ gone' \subseteq Generations \X (Keys \ {RootKey})
             /\ unindexed' \subseteq Families
  <2>1. gone' \subseteq Generations \X (Keys \ {RootKey})
    BY <1>6 DEF RetentionTypeOK
  <2>2. unindexed' \subseteq Families
    BY <1>6 DEF RetentionTypeOK, NoteDeletion
  <2> QED BY <2>1, <2>2
<1>7. ASSUME NEW g \in Generations, Delete(g)
      PROVE  /\ Good(keeper')
             /\ gone' \subseteq Generations \X (Keys \ {RootKey})
             /\ unindexed' \subseteq Families
             /\ UNCHANGED <<vars, clock, written, pins, inputs>>
  <2>1. Good(keeper')
    <3>1. Good([keeper EXCEPT !.doomed = @ \ {g}])
      BY <1>2, <1>7 DEF Delete, Keeper
    <3> QED BY <1>1, <1>7, <3>1 DEF Delete
  <2>2. gone' = gone \cup (Bucket \cap ({g} \X (Keys \ {RootKey}))) /\ NoteDeletion(g)
    BY <1>7 DEF Delete
  <2> QED BY <1>6, <1>7, <2>1, <2>2 DEF Delete
<1>8. ASSUME NEW g \in Generations, NEW keys \in SUBSET (Keys \ {RootKey}), DeletePartly(g, keys)
      PROVE  /\ Good(keeper')
             /\ gone' \subseteq Generations \X (Keys \ {RootKey})
             /\ unindexed' \subseteq Families
             /\ UNCHANGED <<vars, clock, written, pins, inputs>>
  <2>1. gone' = gone \cup (Bucket \cap ({g} \X keys)) /\ NoteDeletion(g)
    BY <1>8 DEF DeletePartly
  <2> QED BY <1>1, <1>6, <1>8, <2>1 DEF DeletePartly
<1> QED BY <1>3, <1>4, <1>5, <1>7, <1>8 DEF Retain

LEMMA RetentionTypeStep ==
    ASSUME RetentionTypeOK, TypeOK', Grown, [RNext]_rvars
    PROVE  RetentionTypeOK'
<1>1. CASE PublicationStep
  BY <1>1, BucketStep DEF RetentionTypeOK
<1>2. CASE Tick
  BY <1>2, RetentionAssumption DEF Tick, RetentionTypeOK, RetentionAssumption
<1>3. ASSUME NEW g \in Generations, Pin(g) PROVE RetentionTypeOK'
  BY <1>3 DEF Pin, RetentionTypeOK
<1>6. ASSUME NEW native \in SUBSET EverSelected, NEW sources \in SUBSET EverSelected,
             Snapshot(native, sources)
      PROVE  RetentionTypeOK'
  BY <1>6 DEF Snapshot, RetentionTypeOK, Inputs, EverSelected
<1>4. CASE Retain
  BY <1>4, KeeperType DEF RetentionTypeOK
<1>5. CASE UNCHANGED rvars
  BY <1>5 DEF rvars, RetentionTypeOK
<1> QED BY <1>1, <1>2, <1>3, <1>4, <1>5, <1>6 DEF RNext, EverSelected

-----------------------------------------------------------------------------
(* The pointer only moves on: a request that moves it selects a generation   *)
(* that never was selected, read back, and built on the current one.         *)

LEMMA AwaitedBuilt ==
    ASSUME HeldInv, OnwardInv, NEW g \in Generations, Awaited(g)
    PROVE  root[g] # None /\ Complete(g)
<1>1. ASSUME NEW w \in Writers, job[w].phase \in {"swapping", "reread"}, job[w].target = g
      PROVE  root[g] # None /\ Complete(g)
  <2>1. JobInv(w, job[w]) /\ ~job[w].restore
    BY <1>1 DEF HeldInv, OnwardInv, Inv, JobsInv, NoRollbacks, Free
  <2>2. CASE job[w].phase = "swapping"
    <3>1. SafePut(Request(w, job[w]))
      BY <2>1, <2>2 DEF JobInv
    <3>2. Request(w, job[w]).restore = job[w].restore /\ Request(w, job[w]).target = g
      BY <1>1 DEF Request
    <3> QED BY <2>1, <3>1, <3>2 DEF SafePut, BuiltFor, Ready
  <2>3. CASE job[w].phase = "reread"
    BY <1>1, <2>1, <2>3 DEF JobInv, BuiltFor, Ready, Active
  <2> QED BY <1>1, <2>2, <2>3
<1>2. ASSUME NEW put \in late, put.target = g PROVE root[g] # None /\ Complete(g)
  BY <1>2 DEF HeldInv, OnwardInv, Inv, NoRollbacks, SafePut, BuiltFor, Ready
<1> QED BY <1>1, <1>2 DEF Awaited

LEMMA MovingAwaited ==
    ASSUME HeldInv, OnwardInv, NEW put \in Moving
    PROVE  /\ put \in Put /\ SafePut(put) /\ ~put.restore
           /\ Awaited(put.target)
<1>1. CASE put \in late
  BY <1>1, MovingSafe DEF HeldInv, OnwardInv, NoRollbacks, Awaited
<1>2. ASSUME NEW w \in Writers, job[w].phase = "swapping", put = Request(w, job[w])
      PROVE  ~put.restore /\ Awaited(put.target)
  BY <1>2 DEF HeldInv, OnwardInv, NoRollbacks, Awaited, Request, Free
<1> QED BY <1>1, <1>2, MovingSafe DEF Moving, HeldInv, OnwardInv

(* The step selects x. *)
Selects(x) ==
    /\ x \notin EverSelected /\ Awaited(x)
    /\ root[x] # None /\ root[x].family \in Families
    /\ root[x].prior = Current(root[x].family)
    /\ ParentsCurrent(x, Entries(pointer))
    /\ \A h \in Families : Entries(pointer)'[h] = IF h = root[x].family THEN x ELSE Current(h)
    /\ EverSelected' = EverSelected \cup {x}
    /\ UNCHANGED <<root, stored, gone, clock, written, pins, inputs, keeper, unindexed>>

LEMMA PointerMoves ==
    ASSUME HeldInv, OnwardInv, Grown, [RNext]_rvars
    PROVE  UNCHANGED <<pointer, landed>> \/ \E x \in Generations : Selects(x)
<1> SUFFICES ASSUME ~UNCHANGED <<pointer, landed>>
             PROVE  \E x \in Generations : Selects(x)
  OBVIOUS
<1>1. Inv /\ [Next]_vars /\ RetentionTypeOK
  BY RetentionProtocol DEF HeldInv, OnwardInv
<1>2. PICK put \in Moving : Store(put) /\ UNCHANGED <<root, stored>>
  BY <1>1, MovingSteps
<1>3. put \in Put /\ SafePut(put) /\ ~put.restore /\ Awaited(put.target)
  BY MovingAwaited
<1>4. /\ Entries(pointer)' = [Entries(pointer) EXCEPT ![put.family] = put.target]
      /\ SafePut([put EXCEPT !.expect = pointer])
      /\ EverSelected' = EverSelected \cup {put.target}
  BY <1>1, <1>2, <1>3, StoreSelects
<1> DEFINE x == put.target
           f == put.family
<1>5. f \in Families /\ x \in Generations /\ root[x] # None /\ root[x].family = f
  BY <1>3 DEF Put, SafePut, BuiltFor
<1>6. root[x].prior = Current(f) /\ ParentsCurrent(x, Entries(pointer))
  <2>1. /\ [put EXCEPT !.expect = pointer].expect = pointer
        /\ [put EXCEPT !.expect = pointer].restore = put.restore
        /\ [put EXCEPT !.expect = pointer].family = f
        /\ [put EXCEPT !.expect = pointer].target = x
    BY <1>3 DEF Put
  <2>2. SafeAgainst(f, x, pointer)
    BY <1>3, <1>4, <2>1 DEF SafePut
  <2> QED BY <2>2 DEF SafeAgainst, FamilyUnchanged, Current
<1>7. x \notin EverSelected
  BY <1>5, <1>6 DEF HeldInv, OnwardInv, MovesOn
<1>8. Entries(pointer) \in Index
  BY <1>1, EntriesType DEF Inv, TypeOK
<1>9. \A h \in Families : Entries(pointer)'[h] = IF h = f THEN x ELSE Current(h)
  BY <1>4, <1>5, <1>8 DEF Index, Current
<1>10. PublicationStep
  BY DEF RNext, rvars, vars, Tick, Pin, Snapshot, Retain, ReadIndex, Mark, Finish, Delete, DeletePartly
<1>11. UNCHANGED <<gone, clock, pins, inputs, keeper, unindexed>>
  BY <1>10 DEF PublicationStep, Proceeds, Uploads, ReadsBack, RollsBack, Upload, Admit, StartRestore
<1>12. UNCHANGED written
  <2>1. Bucket' = Bucket
    BY <1>2, <1>11 DEF Bucket
  <2>2. written' = [g \in Generations |-> written[g]]
    BY <1>10, <2>1 DEF PublicationStep, Stamp
  <2> QED BY <1>1, <2>2 DEF RetentionTypeOK
<1>13. Selects(x)
  BY <1>2, <1>3, <1>4, <1>5, <1>6, <1>7, <1>9, <1>11, <1>12 DEF Selects
<1> QED BY <1>5, <1>13

LEMMA CurrentSelected ==
    ASSUME HeldInv, NEW f \in Families, Current(f) # None
    PROVE  /\ Current(f) \in EverSelected /\ Current(f) \in Generations
           /\ root[Current(f)].family = f
  BY DEF HeldInv, Inv, SelectedInv, RestoreTarget, Current, EverSelected

(* What was ever selected goes on having a current generation. *)
LEMMA FamilyNamed ==
    ASSUME HeldInv, OnwardInv, NEW g \in EverSelected
    PROVE  Current(root[g].family) # None
  BY DEF HeldInv, OnwardInv, MovesOn

(* The newly selected generation is one step further on the chain, and its
   inputs are current. *)
LEMMA SelectionLinks ==
    ASSUME HeldInv, OnwardInv, NEW x \in Generations, Selects(x)
    PROVE  /\ Priors' = Priors /\ Parents' = Parents
           /\ \A g \in Back(x) : g = x \/ (Current(root[x].family) # None /\ g \in Back(Current(root[x].family)))
           /\ Current(root[x].family) # None => Back(Current(root[x].family)) \subseteq Back(x)
           /\ \A g \in WithParents({x}) :
                 g = x \/ \E h \in Families : g \in WithParents({Current(h)} \cap Generations)
<1> DEFINE c == Current(root[x].family)
<1>1. root[x].family \in Families /\ root[x].prior = c /\ Complete(x)
  BY AwaitedBuilt DEF Selects
<1>2. c # None => c \in EverSelected
  BY <1>1, CurrentSelected
<1>3. <<x, RootKey>> \in Bucket
  BY <1>1 DEF Complete, Bucket, Keys, RootKey, HeldInv, OnwardInv, RetentionTypeOK
<1>4. None \notin Listed
  BY LinksType, PublicationAssumption DEF PublicationAssumption
<1>5. EverSelected \in SUBSET Generations /\ EverSelected \subseteq Listed
  BY Links DEF EverSelected
<1>6. Priors[x] = {c} \ {None}
  BY <1>1, <1>2, <1>3, <1>4, <1>5 DEF Priors, Replaced
<1>7. Parents[x] \subseteq UNION {{Current(h)} \cap Generations : h \in Families}
  <2> SUFFICES ASSUME NEW g \in Parents[x]
               PROVE  \E h \in Families : g \in {Current(h)} \cap Generations
    OBVIOUS
  <2>1. g \in {root[x].parents[h] : h \in Families} \cap Listed
    BY <1>3 DEF Parents, ParentsOf
  <2>2. PICK h \in Families : g = root[x].parents[h]
    BY <2>1
  <2>3. g # None /\ g \in Generations
    BY <1>4, <2>1, LinksType
  <2> QED BY <2>2, <2>3 DEF Selects, ParentsCurrent, Current
<1>8. Priors' = Priors /\ Parents' = Parents
  BY DEF Selects, Priors, Parents, Replaced, ParentsOf, Listed, Bucket
<1>9. \A g \in Back(x) : g = x \/ (c # None /\ g \in Back(c))
  <2> DEFINE closed == {x} \cup {g \in Generations : c # None /\ g \in Back(c)}
  <2>1. c # None => c \in Back(c) /\ \A g \in Back(c) : g \in Generations /\ Priors[g] \subseteq Back(c)
    <3> SUFFICES ASSUME c # None PROVE c \in Back(c) /\ \A g \in Back(c) : g \in Generations /\ Priors[g] \subseteq Back(c)
      OBVIOUS
    <3>1. {c} \in SUBSET Generations
      BY <1>2, <1>5
    <3> QED BY <3>1, LinksType, ClosureHolds DEF Back
  <2>2. \A g \in closed : Priors[g] \subseteq closed
    BY <1>6, <2>1, LinksType
  <2>3. closed \in SUBSET Generations
    OBVIOUS
  <2> HIDE DEF closed
  <2>4. Closure({x}, Priors) \subseteq closed
    BY <2>2, <2>3, ClosureLeast DEF closed
  <2> QED BY <2>4 DEF Back, closed
<1>10. c # None => Back(c) \subseteq Back(x)
  <2> SUFFICES ASSUME c # None PROVE Back(c) \subseteq Back(x)
    OBVIOUS
  <2>1. x \in Closure({x}, Priors) /\ Priors[x] \subseteq Closure({x}, Priors)
    BY LinksType, ClosureHolds
  <2>2. {c} \in SUBSET Closure({x}, Priors)
    BY <1>6, <2>1
  <2> QED BY <2>2, LinksType, ClosureWithin DEF Back
<1>11. ASSUME NEW g \in WithParents({x})
       PROVE  g = x \/ \E h \in Families : g \in WithParents({Current(h)} \cap Generations)
  <2> DEFINE used == UNION {WithParents({Current(h)} \cap Generations) : h \in Families}
             closed == {x} \cup used
  <2>1. ASSUME NEW h \in Families
        PROVE  /\ {Current(h)} \cap Generations \subseteq WithParents({Current(h)} \cap Generations)
               /\ WithParents({Current(h)} \cap Generations) \subseteq Generations
               /\ \A s \in WithParents({Current(h)} \cap Generations) :
                     Parents[s] \subseteq WithParents({Current(h)} \cap Generations)
    BY LinksType, ClosureHolds DEF WithParents
  <2>2. used \subseteq Generations /\ \A s \in used : Parents[s] \subseteq used
    BY <2>1
  <2>3. Parents[x] \subseteq used
    BY <1>7, <2>1
  <2> HIDE DEF used
  <2>4. Closure({x}, Parents) \subseteq closed
    <3>1. closed \in SUBSET Generations
      BY <2>2
    <3> QED BY <2>2, <2>3, <3>1, ClosureLeast
  <2>5. g = x \/ g \in used
    BY <1>11, <2>4 DEF WithParents
  <2> QED BY <2>5 DEF used
<1> QED BY <1>8, <1>9, <1>10, <1>11

-----------------------------------------------------------------------------
(* What stays true of a generation that will not be current again. *)

LEMMA IndexStays ==
    ASSUME UNCHANGED <<pointer, landed>>
    PROVE  Entries(pointer)' = Entries(pointer) /\ EverSelected' = EverSelected
  BY DEF Entries, EverSelected

LEMMA PriorsAreOld ==
    ASSUME HeldInv, NEW g \in Generations, root[g] # None
    PROVE  root[g].prior \in EverSelected \cup {None} /\ root[g].family \in Families
  BY DEF HeldInv, Inv, RootsInv, RetentionTypeOK, TypeOK, Root

LEMMA StableObsolete ==
    ASSUME HeldInv, OnwardInv, Grown, [RNext]_rvars, NEW g \in Generations, root[g] # None, Obsolete(g)
    PROVE  Obsolete(g)'
<1>1. root'[g] = root[g]
  BY DEF Grown
<1>2. CASE UNCHANGED <<pointer, landed>>
  BY <1>1, <1>2, IndexStays DEF Obsolete, Current
<1>3. ASSUME NEW x \in Generations, Selects(x) PROVE Obsolete(g)'
  <2>1. root[g].prior \in EverSelected \cup {None} /\ root[g].family \in Families
    BY PriorsAreOld
  <2>2. x \notin EverSelected \cup {None}
    BY <1>3, PublicationAssumption DEF Selects, PublicationAssumption
  <2>3. g # x
    BY <1>3 DEF Selects, Obsolete
  <2> QED BY <1>1, <1>3, <2>1, <2>2, <2>3 DEF Selects, Obsolete, Current
<1> QED BY <1>2, <1>3, PointerMoves

(* It is on the chain, or an input of a current generation, only if it was. *)
LEMMA StableOffChain ==
    ASSUME HeldInv, OnwardInv, RetentionTypeOK', Grown, [RNext]_rvars,
           NEW g \in Generations, root[g] # None, Obsolete(g),
           Current(root[g].family) # None, g \in Back(Current(root[g].family))'
    PROVE  g \in Back(Current(root[g].family))
<1>1. root'[g] = root[g] /\ root[g].family \in Families
  BY PriorsAreOld DEF Grown
<1> DEFINE f == root[g].family
<1>2. Current(f) \in EverSelected
  BY <1>1, CurrentSelected
<1>3. g \in Closure({Entries(pointer)'[f]}, Priors')
  BY <1>1 DEF Back, Current
<1>4. CASE Entries(pointer)'[f] = Current(f)
  <2>1. {Current(f)} \in SUBSET EverSelected
    BY <1>2
  <2> QED BY <1>3, <1>4, <2>1, ClosuresStay DEF Back
<1>5. CASE Entries(pointer)'[f] # Current(f)
  <2>1. PICK x \in Generations : Selects(x)
    BY <1>5, PointerMoves, IndexStays DEF Current
  <2>2. root[x].family = f /\ Entries(pointer)'[f] = x
    BY <1>1, <1>5, <2>1 DEF Selects
  <2>3. g # x
    BY <2>1, <2>2 DEF Selects, Obsolete
  <2>4. g \in Back(x)
    BY <1>3, <2>1, <2>2, SelectionLinks DEF Back
  <2> QED BY <2>1, <2>2, <2>3, <2>4, SelectionLinks
<1> QED BY <1>4, <1>5

LEMMA StableUnused ==
    ASSUME HeldInv, OnwardInv, RetentionTypeOK', Grown, [RNext]_rvars,
           NEW g \in Generations, root[g] # None, Obsolete(g),
           NEW h \in Families, g \in WithParents({Current(h)} \cap Generations)'
    PROVE  \E e \in Families : g \in WithParents({Current(e)} \cap Generations)
<1>1. g \in Closure({Entries(pointer)'[h]} \cap Generations, Parents')
  BY DEF WithParents, Current
<1>2. CASE Entries(pointer)'[h] = Current(h)
  <2>1. {Current(h)} \cap Generations \in SUBSET EverSelected
    BY CurrentSelected, PublicationAssumption DEF PublicationAssumption
  <2> QED BY <1>1, <1>2, <2>1, ClosuresStay DEF WithParents
<1>3. CASE Entries(pointer)'[h] # Current(h)
  <2>1. PICK x \in Generations : Selects(x)
    BY <1>3, PointerMoves, IndexStays DEF Current
  <2>2. root[x].family = h /\ Entries(pointer)'[h] = x
    BY <1>3, <2>1 DEF Selects
  <2>3. g # x
    BY <2>1, <2>2 DEF Selects, Obsolete
  <2>4. {x} \cap Generations = {x}
    OBVIOUS
  <2>5. g \in WithParents({x})
    BY <1>1, <2>1, <2>2, <2>4, SelectionLinks DEF WithParents
  <2> QED BY <2>1, <2>3, <2>5, SelectionLinks
<1> QED BY <1>2, <1>3

-----------------------------------------------------------------------------
(* One conjunct of HeldInv, OnwardInv after another.  First those about the protocol. *)

LEMMA StoredBuiltStep ==
    ASSUME HeldInv, Grown, [Next]_vars
    PROVE  StoredBuilt'
<1>1. \A g \in Generations : root[g] # None => root'[g] # None
  BY DEF Grown
<1>2. ASSUME stored' = stored PROVE StoredBuilt'
  BY <1>1, <1>2 DEF HeldInv, StoredBuilt
<1>3. ASSUME NEW w \in Publishers, NEW key \in Keys, Upload(w, key) PROVE StoredBuilt'
  <2>1. job[w].phase = "staging" /\ stored' = stored \cup {<<job[w].target, key>>}
    BY <1>3 DEF Upload
  <2>2. w \in Writers /\ JobInv(w, job[w])
    BY DEF HeldInv, Inv, JobsInv, Writers
  <2>3. root[job[w].target] # None
    BY <2>1, <2>2 DEF JobInv, Active, BuiltFor
  <2> QED BY <1>1, <2>1, <2>3 DEF HeldInv, StoredBuilt
<1> QED
  BY <1>2, <1>3
  DEF Next, vars, Builds, Build, Begin, RefuseBuild, Admit, Reread, Restores, StartRestore,
      RestoreRead, Swap, TimeOut, Fail, Arrive

LEMMA NoRollbacksStep ==
    ASSUME Operators = {}, HeldInv, OnwardInv, [Next]_vars
    PROVE  NoRollbacks'
<1>1. \A put \in late' : ~put.restore
  BY MovingSteps, MovingAwaited DEF HeldInv, OnwardInv
<1>2. job \in [Writers -> Job]
  BY DEF HeldInv, OnwardInv, RetentionTypeOK, TypeOK
<1>3. \A w \in Writers : job[w] \in Job /\ (~Free(w) => ~job[w].restore)
  BY <1>2 DEF HeldInv, OnwardInv, NoRollbacks
<1>4. ASSUME NEW v \in Writers, NEW j, job' = [job EXCEPT ![v] = j], ~j.restore
      PROVE  NoRollbacks'
  BY <1>1, <1>2, <1>3, <1>4 DEF NoRollbacks, Free
<1>5. CASE UNCHANGED job
  BY <1>1, <1>3, <1>5 DEF NoRollbacks, Free
<1>6. ASSUME NEW w \in Publishers, Builds(w) PROVE NoRollbacks'
  <2>1. PICK f \in Families, g \in Generations :
           job' = [job EXCEPT ![w] = [IdleJob EXCEPT !.phase = "built", !.family = f, !.target = g]]
    BY <1>6 DEF Builds, Build
  <2>2. ~[IdleJob EXCEPT !.phase = "built", !.family = f, !.target = g].restore
    BY DEF IdleJob
  <2> QED BY <1>4, <2>1, <2>2 DEF Writers
<1>7. ASSUME NEW w \in Writers, ~Free(w), NEW j, job' = [job EXCEPT ![w] = j],
             j.restore = job[w].restore
      PROVE  NoRollbacks'
  <2>1. ~job[w].restore
    BY <1>3, <1>7
  <2>2. ~j.restore
    BY <1>7, <2>1, Zenon
  <2> QED BY <1>4, <1>7, <2>2
<1>8. ASSUME NEW w \in Writers, NEW j \in {IdleJob, RefusedJob}, job' = [job EXCEPT ![w] = j]
      PROVE  NoRollbacks'
  <2>1. ~j.restore
    BY DEF IdleJob, RefusedJob
  <2> QED BY <1>4, <1>8, <2>1
<1>9. ASSUME NEW w \in Writers
      PROVE  /\ [job[w] EXCEPT !.phase = "staging", !.seen = pointer].restore = job[w].restore
             /\ [job[w] EXCEPT !.phase = "swapping", !.seen = pointer].restore = job[w].restore
             /\ [job[w] EXCEPT !.phase = "swapping", !.done = {}].restore = job[w].restore
             /\ \A key : [job[w] EXCEPT !.done = @ \cup {key}].restore = job[w].restore
             /\ [job[w] EXCEPT !.phase = "reread", !.seen = None, !.tries = @ + 1].restore
                   = job[w].restore
  BY <1>3 DEF Job
<1>10. ASSUME NEW w \in Publishers,
              \/ Begin(w) \/ RefuseBuild(w) \/ Admit(w) \/ Reread(w)
              \/ \E key \in Keys : Upload(w, key)
       PROVE  NoRollbacks'
  <2>1. w \in Writers
    BY DEF Writers
  <2>2. ~Free(w)
    BY <1>10 DEF Begin, RefuseBuild, Upload, Admit, Reread, Free
  <2>3. CASE Begin(w)
    BY <1>7, <1>9, <2>1, <2>2, <2>3 DEF Begin
  <2>4. CASE RefuseBuild(w)
    BY <1>8, <2>1, <2>4 DEF RefuseBuild
  <2>5. ASSUME NEW key \in Keys, Upload(w, key) PROVE NoRollbacks'
    BY <1>7, <1>9, <2>1, <2>2, <2>5 DEF Upload
  <2>6. CASE Admit(w)
    BY <1>7, <1>9, <2>1, <2>2, <2>6 DEF Admit
  <2>7. CASE Reread(w)
    <3>1. \/ job' = [job EXCEPT ![w] = [job[w] EXCEPT !.phase = "swapping", !.seen = pointer]]
          \/ job' = [job EXCEPT ![w] = RefusedJob]
      BY <2>7 DEF Reread
    <3> QED BY <1>7, <1>8, <1>9, <2>1, <2>2, <3>1
  <2> QED BY <1>10, <2>3, <2>4, <2>5, <2>6, <2>7
<1>11. ASSUME NEW w \in Writers, Swap(w) PROVE NoRollbacks'
  <2>1. ~Free(w)
    BY <1>11 DEF Swap, Free
  <2>2. \/ job' = [job EXCEPT ![w] = IdleJob]
        \/ job' = [job EXCEPT ![w] = [job[w] EXCEPT !.phase = "reread", !.seen = None, !.tries = @ + 1]]
    BY <1>11 DEF Swap
  <2> QED BY <1>7, <1>8, <1>9, <2>1, <2>2
<1>12. ASSUME NEW w \in Writers, TimeOut(w) \/ Fail(w) PROVE NoRollbacks'
  <2>1. UNCHANGED job \/ job' = [job EXCEPT ![w] = IdleJob]
    BY <1>12 DEF TimeOut, Fail
  <2> QED BY <1>5, <1>8, <2>1
<1>13. ASSUME NEW put \in late, Arrive(put) PROVE NoRollbacks'
  BY <1>5, <1>13 DEF Arrive
<1>14. CASE UNCHANGED vars
  BY <1>5, <1>14 DEF vars
<1> QED BY <1>6, <1>10, <1>11, <1>12, <1>13, <1>14 DEF Next

LEMMA KnownParentsStep ==
    ASSUME HeldInv, Grown, [Next]_vars
    PROVE  KnownParents'
<1>1. \A g \in EverSelected : g \in EverSelected' /\ root'[g] = root[g]
  BY Links DEF Grown, EverSelected
<1>2. ASSUME NEW g \in Generations, root[g] # None, NEW h \in Families, root[g].parents[h] # None
      PROVE  /\ root[g].parents[h] \in EverSelected'
             /\ root'[root[g].parents[h]].family = h
  BY <1>1, <1>2 DEF HeldInv, KnownParents
<1>3. CASE root' = root
  BY <1>2, <1>3 DEF KnownParents
<1>4. ASSUME NEW w \in Publishers, Builds(w) PROVE KnownParents'
  <2>1. PICK f \in Families, layout \in Layouts, g \in Generations :
           \E read \in SUBSET (Families \ {f}) : Build(w, f, read, layout, g)
    BY <1>4 DEF Builds
  <2>2. PICK read \in SUBSET (Families \ {f}) : Build(w, f, read, layout, g)
    BY <2>1
  <2> DEFINE built == [family  |-> f,
                       prior   |-> Entries(pointer)[f],
                       parents |-> [h \in Families |-> IF h \in read THEN Entries(pointer)[h] ELSE None],
                       layout  |-> layout]
  <2>3. root' = [root EXCEPT ![g] = built]
    BY <2>2 DEF Build
  <2>4. \A h \in Families : built.parents[h] # None =>
            built.parents[h] = Current(h) /\ Current(h) # None
    BY DEF Current
  <2> HIDE DEF built
  <2>5. \A h \in Families : built.parents[h] # None =>
            built.parents[h] \in EverSelected' /\ root'[built.parents[h]].family = h
    BY <1>1, <2>4, CurrentSelected
  <2>6. \A x \in Generations : root'[x] = IF x = g THEN built ELSE root[x]
    BY <2>3 DEF HeldInv, RetentionTypeOK, TypeOK
  <2> QED BY <1>2, <2>5, <2>6 DEF KnownParents
<1> QED
  BY <1>3, <1>4
  DEF Next, vars, Restores, Begin, RefuseBuild, Upload, Admit, Reread, StartRestore, RestoreRead,
      Swap, TimeOut, Fail, Arrive

LEMMA MovesOnStep ==
    ASSUME HeldInv, OnwardInv, Grown, [RNext]_rvars
    PROVE  MovesOn'
<1>1. \A g \in EverSelected : /\ g \in Generations /\ root'[g] = root[g] /\ root[g] # None
                              /\ Current(root[g].family) # None
                              /\ root[g].prior # Current(root[g].family)
  BY Links DEF Grown, HeldInv, OnwardInv, MovesOn
<1>2. CASE UNCHANGED <<pointer, landed>>
  BY <1>1, <1>2, IndexStays DEF MovesOn, Current
<1>3. ASSUME NEW x \in Generations, Selects(x) PROVE MovesOn'
  <2>1. \A g \in EverSelected' : /\ root[g].family \in Families /\ root'[g] = root[g]
                                 /\ root[g].prior \in EverSelected \cup {None}
    BY <1>1, <1>3, PriorsAreOld DEF Selects
  <2>2. x \notin EverSelected \cup {None}
    BY <1>3, PublicationAssumption DEF Selects, PublicationAssumption
  <2>3. ASSUME NEW g \in EverSelected'
        PROVE  /\ Entries(pointer)'[root[g].family] # None
               /\ root[g].prior # Entries(pointer)'[root[g].family]
    <3>1. CASE root[g].family = root[x].family
      <4>1. Entries(pointer)'[root[g].family] = x
        BY <1>3, <2>1, <3>1 DEF Selects
      <4> QED BY <2>1, <2>2, <4>1
    <3>2. CASE root[g].family # root[x].family
      <4>1. Entries(pointer)'[root[g].family] = Current(root[g].family)
        BY <1>3, <2>1, <3>2 DEF Selects
      <4>2. g \in EverSelected
        BY <1>3, <3>2 DEF Selects
      <4> QED BY <1>1, <4>1, <4>2
    <3> QED BY <3>1, <3>2
  <2> QED BY <2>1, <2>3 DEF MovesOn, Current
<1> QED BY <1>2, <1>3, PointerMoves

-----------------------------------------------------------------------------
(* What the run may do to the bucket, and what stays whole and settled. *)

Deletes(g) ==
    /\ keeper.phase = "deleting" /\ g \in keeper.doomed
    /\ gone \subseteq gone' /\ gone' \subseteq gone \cup ({g} \X (Keys \ {RootKey}))
    /\ keeper' \in {RestingKeeper, [keeper EXCEPT !.doomed = @ \ {g}]}
    /\ NoteDeletion(g)
    /\ UNCHANGED <<vars, clock, written, pins, inputs>>

LEMMA StepKinds ==
    ASSUME [RNext]_rvars
    PROVE  \/ PublicationStep
           \/ \E g \in Generations : Deletes(g)
           \/ UNCHANGED <<vars, gone, written, unindexed>>
<1>1. ASSUME NEW g \in Generations, Delete(g) PROVE Deletes(g)
  BY <1>1 DEF Delete, Deletes
<1>2. ASSUME NEW g \in Generations, NEW keys \in SUBSET (Keys \ {RootKey}), DeletePartly(g, keys)
      PROVE  Deletes(g)
  BY <1>2 DEF DeletePartly, Deletes
<1> QED BY <1>1, <1>2 DEF RNext, Tick, Pin, Snapshot, Retain, ReadIndex, Mark, Finish, rvars

(* A plan that found the family in the index deletes only what will not be
   current again; any other deletion in the family is noted. *)
LEMMA DeletionIsNoted ==
    ASSUME HeldInv, OnwardInv, NEW g \in Generations, Deletes(g)
    PROVE  /\ root[g] # None /\ root[g].family \in Families
           /\ unindexed \subseteq unindexed'
           /\ root[g].family \notin unindexed' => FoundIndexed(root[g].family) /\ Obsolete(g)
<1>1. root[g] # None
  BY DEF Deletes, HeldInv, OnwardInv, MarksInv
<1>2. root[g].family \in Families
  BY <1>1, PriorsAreOld
<1>3. unindexed \subseteq unindexed'
  BY DEF Deletes, NoteDeletion
<1>4. ASSUME root[g].family \notin unindexed'
      PROVE  FoundIndexed(root[g].family) /\ Obsolete(g)
  <2>1. FoundIndexed(root[g].family)
    BY <1>2, <1>4 DEF Deletes, NoteDeletion, FoundIndexed
  <2> QED BY <2>1 DEF Deletes, HeldInv, OnwardInv, DoomedInv, Unneeded
<1> QED BY <1>1, <1>2, <1>3, <1>4

LEMMA StableWhole ==
    ASSUME HeldInv, OnwardInv, Grown, [RNext]_rvars, NEW c \in Generations, Whole(c),
           root[c].family \notin unindexed', ~Obsolete(c)
    PROVE  Whole(c)'
<1>1. CASE PublicationStep
  <2>1. Bucket \subseteq Bucket'
    BY <1>1, BucketStep DEF HeldInv, OnwardInv
  <2> QED BY <2>1 DEF Whole
<1>2. ASSUME NEW g \in Generations, Deletes(g) PROVE Whole(c)'
  <2>1. c # g
    BY <1>2, DeletionIsNoted
  <2>2. \A k \in Keys : <<c, k>> \in Bucket'
    BY <1>2, <2>1 DEF Deletes, vars, Bucket, Whole
  <2> QED BY <2>2 DEF Whole
<1>3. CASE UNCHANGED <<vars, gone, written, unindexed>>
  BY <1>3 DEF vars, Whole, Bucket
<1> QED BY <1>1, <1>2, <1>3, StepKinds

LEMMA StableSettled ==
    ASSUME HeldInv, OnwardInv, Grown, [RNext]_rvars, NEW c \in EverSelected, Settled(c), Whole(c)'
    PROVE  Settled(c)'
<1>1. c \in Generations /\ root'[c] = root[c]
  BY Links DEF Grown
<1>2. written \in [Generations -> 0 .. MaxClock] /\ clock \in 0 .. MaxClock /\ MaxClock \in Nat
  BY RetentionAssumption DEF RetentionAssumption, HeldInv, OnwardInv, RetentionTypeOK
<1> SUFFICES ASSUME NEW g \in Listed', root'[g].prior = c, root'[g].family = root'[c].family
             PROVE  written'[g] > written'[c]
  BY DEF Settled
<1>3. g \in Generations
  BY DEF Listed
<1>4. PICK k \in Keys : <<g, k>> \in Bucket'
  BY DEF Listed
<1>5. ASSUME <<g, k>> \in Bucket PROVE written[g] > written[c]
  <2>1. g \in Listed /\ <<g, k>> \in stored
    BY <1>3, <1>5 DEF Listed, Bucket
  <2>2. root'[g] = root[g]
    BY <1>3, <2>1 DEF HeldInv, OnwardInv, StoredBuilt, Grown
  <2> QED BY <1>1, <2>1, <2>2 DEF Settled
<1>6. CASE PublicationStep
  <2>1. written'[c] = written[c]
    BY <1>1, <1>6, BucketStep DEF Settled, HeldInv, OnwardInv
  <2>2. CASE written'[g] = written[g] /\ <<g, k>> \in Bucket
    BY <1>5, <2>1, <2>2
  <2>3. CASE ~Whole(g) /\ written'[g] = clock /\ \A h \in Listed \ {g} : written[h] < clock
    <3>1. g # c /\ c \in Listed
      BY <1>1, <2>3 DEF Settled, Whole, Listed, Keys
    <3> QED BY <1>1, <1>2, <1>3, <2>1, <2>3, <3>1
  <2> QED BY <1>3, <1>4, <1>6, <2>2, <2>3, BucketStep DEF HeldInv, OnwardInv
<1>7. ASSUME NEW d \in Generations, Deletes(d) PROVE written'[g] > written'[c]
  <2>1. <<g, k>> \in Bucket /\ written' = written
    BY <1>4, <1>7 DEF Deletes, vars, Bucket
  <2> QED BY <1>5, <2>1
<1>8. CASE UNCHANGED <<vars, gone, written, unindexed>>
  BY <1>4, <1>5, <1>8 DEF vars, Bucket
<1> QED BY <1>6, <1>7, <1>8, StepKinds

LEMMA UnindexedGrows ==
    ASSUME HeldInv, OnwardInv, [RNext]_rvars
    PROVE  unindexed \subseteq unindexed'
<1>1. CASE PublicationStep
  BY <1>1 DEF PublicationStep
<1> QED BY <1>1, StepKinds, DeletionIsNoted

LEMMA CurrentSettledStep ==
    ASSUME HeldInv, OnwardInv, RetentionTypeOK', Grown, [RNext]_rvars
    PROVE  CurrentSettled'
<1> SUFFICES ASSUME NEW f \in Families, f \notin unindexed', Entries(pointer)'[f] # None
             PROVE  \E c \in Generations : Entries(pointer)'[f] = c /\ Settled(c)'
  BY DEF CurrentSettled, Current, Settled, Whole
<1>1. f \notin unindexed
  BY UnindexedGrows
<1>2. CASE Entries(pointer)'[f] = Current(f)
  <2> DEFINE c == Current(f)
  <2>1. c \in EverSelected /\ c \in Generations /\ root[c].family = f /\ c # None
    BY <1>2, CurrentSelected
  <2>2. Settled(c) /\ ~Obsolete(c)
    BY <1>1, <2>1 DEF HeldInv, OnwardInv, CurrentSettled, Obsolete
  <2>3. Whole(c)
    BY <2>2 DEF Settled
  <2> HIDE DEF c
  <2>4. PICK d \in EverSelected : d = c
    BY <2>1
  <2>5. Settled(d)'
    BY <2>1, <2>2, <2>3, <2>4, StableWhole, StableSettled
  <2> QED BY <1>2, <2>1, <2>4, <2>5 DEF c
<1>3. CASE Entries(pointer)'[f] # Current(f)
  <2>1. PICK x \in Generations : Selects(x)
    BY <1>3, PointerMoves, IndexStays DEF Current
  <2>2. root[x].family = f /\ Entries(pointer)'[f] = x
    BY <1>3, <2>1 DEF Selects
  <2>3. Whole(x)
    BY <1>1, <2>1, <2>2 DEF Selects, HeldInv, OnwardInv, AwaitedWhole
  <2>4. Bucket' = Bucket /\ Listed' = Listed /\ root' = root
    BY <2>1 DEF Selects, Bucket, Listed
  <2>5. \A g \in Listed : root[g].prior # x
    <3> SUFFICES ASSUME NEW g \in Listed PROVE root[g].prior # x
      OBVIOUS
    <3>1. g \in Generations /\ root[g] # None
      BY DEF Listed, Bucket, HeldInv, OnwardInv, StoredBuilt
    <3>2. x \notin EverSelected \cup {None}
      BY <2>1, PublicationAssumption DEF Selects, PublicationAssumption
    <3> QED BY <3>1, <3>2, PriorsAreOld
  <2>6. Settled(x)'
    BY <2>3, <2>4, <2>5 DEF Settled, Whole
  <2> QED BY <2>2, <2>6
<1> QED BY <1>2, <1>3

(* Only a read-back makes a generation one that the pointer may move to. *)
LEMMA AwaitedStep ==
    ASSUME Operators = {}, HeldInv, OnwardInv, [RNext]_rvars, NEW g \in Generations, Awaited(g)'
    PROVE  Awaited(g) \/ (PublicationStep /\ Whole(g))
<1> SUFFICES ASSUME ~(PublicationStep /\ Whole(g)) PROVE Awaited(g)
  OBVIOUS
<1>1. [Next]_vars /\ Inv
  BY RetentionProtocol DEF HeldInv, OnwardInv
<1>2. \A put \in late' : Awaited(put.target)
  BY <1>1, MovingSteps, MovingAwaited
<1>3. job \in [Writers -> Job]
  BY <1>1 DEF Inv, TypeOK
<1> SUFFICES ASSUME NEW w \in Writers, job'[w].phase \in {"swapping", "reread"}, job'[w].target = g
             PROVE  Awaited(g)
  BY <1>2 DEF Awaited
<1>4. CASE job'[w] = job[w]
  BY <1>4 DEF Awaited
<1>5. ASSUME NEW v \in Writers, NEW j, job' = [job EXCEPT ![v] = j],
             j.phase \in {"swapping", "reread"} =>
                 j.target = job[v].target /\ job[v].phase \in {"swapping", "reread"}
      PROVE  Awaited(g)
  <2>1. job'[w] = IF w = v THEN j ELSE job[w]
    BY <1>3, <1>5
  <2> QED BY <1>4, <1>5, <2>1 DEF Awaited
<1>6. ASSUME NEW v \in Writers, NEW j \in {IdleJob, RefusedJob}, job' = [job EXCEPT ![v] = j]
      PROVE  Awaited(g)
  <2>1. j.phase \notin {"swapping", "reread"}
    BY DEF IdleJob, RefusedJob
  <2> QED BY <1>5, <1>6, <2>1
<1>7. ASSUME NEW v \in Publishers
      PROVE  /\ v \in Writers
             /\ [job[v] EXCEPT !.phase = "staging", !.seen = pointer].phase = "staging"
             /\ \A key : [job[v] EXCEPT !.done = @ \cup {key}].phase = job[v].phase
             /\ [job[v] EXCEPT !.phase = "swapping", !.seen = pointer].target = job[v].target
             /\ [job[v] EXCEPT !.phase = "swapping", !.done = {}].target = job[v].target
             /\ [job[v] EXCEPT !.phase = "reread", !.seen = None, !.tries = @ + 1].target
                   = job[v].target
  <2>1. v \in Writers /\ job[v] \in Job
    BY <1>3 DEF Writers
  <2> QED BY <2>1 DEF Job
<1>8. ASSUME NEW v \in Publishers, Builds(v) PROVE Awaited(g)
  <2>1. PICK f \in Families, x \in Generations :
           job' = [job EXCEPT ![v] = [IdleJob EXCEPT !.phase = "built", !.family = f, !.target = x]]
    BY <1>8 DEF Builds, Build
  <2>2. [IdleJob EXCEPT !.phase = "built", !.family = f, !.target = x].phase = "built"
    BY DEF IdleJob
  <2> QED BY <1>5, <1>7, <2>1, <2>2
<1>9. ASSUME NEW v \in Publishers, Begin(v) PROVE Awaited(g)
  BY <1>5, <1>7, <1>9 DEF Begin
<1>10. ASSUME NEW v \in Publishers, RefuseBuild(v) PROVE Awaited(g)
  BY <1>6, <1>7, <1>10 DEF RefuseBuild
<1>11. ASSUME NEW v \in Publishers, NEW key \in Keys, Uploads(v, key) PROVE Awaited(g)
  BY <1>5, <1>7, <1>11 DEF Uploads, Upload
<1>12. ASSUME NEW v \in Publishers, PublicationStep, ReadsBack(v) PROVE Awaited(g)
  <2> DEFINE j == [job[v] EXCEPT !.phase = "swapping", !.done = {}]
  <2>1. job' = [job EXCEPT ![v] = j] /\ Whole(job[v].target)
    BY <1>12 DEF ReadsBack, Admit
  <2>2. j.target = job[v].target /\ v \in Writers
    BY <1>7
  <2> HIDE DEF j
  <2>3. job'[w] = IF w = v THEN j ELSE job[w]
    BY <1>3, <2>1, <2>2
  <2> QED BY <1>4, <1>12, <2>1, <2>2, <2>3
<1>13. ASSUME NEW v \in Publishers, Reread(v) PROVE Awaited(g)
  <2>1. /\ job[v].phase = "reread"
        /\ \/ job' = [job EXCEPT ![v] = [job[v] EXCEPT !.phase = "swapping", !.seen = pointer]]
           \/ job' = [job EXCEPT ![v] = RefusedJob]
    BY <1>13 DEF Reread
  <2>2. CASE job' = [job EXCEPT ![v] = [job[v] EXCEPT !.phase = "swapping", !.seen = pointer]]
    BY <1>5, <1>7, <2>1, <2>2
  <2>3. CASE job' = [job EXCEPT ![v] = RefusedJob]
    BY <1>6, <1>7, <2>3
  <2> QED BY <2>1, <2>2, <2>3
<1>14. ASSUME NEW v \in Writers, Swap(v) PROVE Awaited(g)
  <2>1. v \in Publishers
    BY DEF Writers
  <2>2. /\ job[v].phase = "swapping"
        /\ \/ job' = [job EXCEPT ![v] = IdleJob]
           \/ job' = [job EXCEPT ![v] = [job[v] EXCEPT !.phase = "reread", !.seen = None, !.tries = @ + 1]]
    BY <1>14 DEF Swap
  <2> QED BY <1>5, <1>6, <1>7, <2>1, <2>2
<1>15. ASSUME NEW v \in Writers, TimeOut(v) \/ Fail(v) PROVE Awaited(g)
  <2>1. UNCHANGED job \/ job' = [job EXCEPT ![v] = IdleJob]
    BY <1>15 DEF TimeOut, Fail
  <2> QED BY <1>4, <1>6, <2>1
<1>16. ASSUME NEW put \in late, Arrive(put) PROVE Awaited(g)
  BY <1>4, <1>16 DEF Arrive
<1>17. CASE PublicationStep
  BY <1>8, <1>9, <1>10, <1>11, <1>12, <1>13, <1>14, <1>15, <1>16, <1>17
  DEF PublicationStep, Proceeds
<1>18. CASE UNCHANGED vars
  BY <1>4, <1>18 DEF vars
<1> QED BY <1>17, <1>18, StepKinds DEF Deletes

LEMMA AwaitedWholeStep ==
    ASSUME Operators = {}, HeldInv, OnwardInv, Grown, [RNext]_rvars
    PROVE  AwaitedWhole'
<1> SUFFICES ASSUME NEW g \in Generations, Awaited(g)', root'[g].family \notin unindexed',
                    root'[g].prior = Entries(pointer)'[root'[g].family]
             PROVE  Whole(g)'
  BY DEF AwaitedWhole, Current
<1>1. CASE Awaited(g)
  <2>1. root[g] # None /\ root'[g] = root[g]
    BY <1>1, AwaitedBuilt DEF Grown
  <2>2. root[g].prior \in EverSelected \cup {None} /\ root[g].family \in Families
    BY <2>1, PriorsAreOld
  <2>3. root[g].prior = Current(root[g].family)
    <3>1. CASE UNCHANGED <<pointer, landed>>
      BY <2>1, <3>1, IndexStays DEF Current
    <3>2. ASSUME NEW x \in Generations, Selects(x) PROVE root[g].prior = Current(root[g].family)
      <4>1. root[g].prior # x
        BY <2>2, <3>2, PublicationAssumption DEF Selects, PublicationAssumption
      <4> QED BY <2>1, <2>2, <3>2, <4>1 DEF Selects
    <3> QED BY <3>1, <3>2, PointerMoves
  <2>4. root[g].family \notin unindexed
    BY <2>1, UnindexedGrows
  <2>5. Whole(g)
    BY <1>1, <2>3, <2>4 DEF HeldInv, OnwardInv, AwaitedWhole
  <2> QED BY <2>1, <2>3, <2>5, StableWhole DEF Obsolete
<1>2. CASE PublicationStep /\ Whole(g)
  <2>1. Bucket \subseteq Bucket'
    BY <1>2, BucketStep DEF HeldInv, OnwardInv
  <2> QED BY <1>2, <2>1 DEF Whole
<1> QED BY <1>1, <1>2, AwaitedStep

-----------------------------------------------------------------------------
(* The chain only grows at its end, so whoever has places before it keeps
   them. *)

LEMMA ChainGrows ==
    ASSUME HeldInv, OnwardInv, RetentionTypeOK', Grown, [RNext]_rvars, NEW f \in Families, Current(f) # None
    PROVE  /\ Entries(pointer)'[f] # None
           /\ Back(Current(f)) \subseteq Closure({Entries(pointer)'[f]}, Priors')
<1>1. Current(f) \in EverSelected
  BY CurrentSelected
<1>2. CASE Entries(pointer)'[f] = Current(f)
  <2>1. {Current(f)} \in SUBSET EverSelected
    BY <1>1
  <2> QED BY <1>2, <2>1, ClosuresStay DEF Back
<1>3. CASE Entries(pointer)'[f] # Current(f)
  <2>1. PICK x \in Generations : Selects(x)
    BY <1>3, PointerMoves, IndexStays DEF Current
  <2>2. root[x].family = f /\ Entries(pointer)'[f] = x
    BY <1>3, <2>1 DEF Selects
  <2>3. x # None
    BY PublicationAssumption DEF PublicationAssumption
  <2> QED BY <2>1, <2>2, <2>3, SelectionLinks DEF Back
<1> QED BY <1>2, <1>3

LEMMA OneHistoryStep ==
    ASSUME HeldInv, OnwardInv, RetentionTypeOK', Grown, [RNext]_rvars
    PROVE  OneHistory'
<1>1. \A g \in EverSelected : /\ g \in Generations /\ root'[g] = root[g] /\ root[g].family \in Families
                              /\ Current(root[g].family) # None
  BY Links, FamilyNamed DEF Grown
<1>2. ASSUME NEW g \in EverSelected PROVE g \in Chain(root[g].family, Entries(pointer))'
  <2> DEFINE f == root[g].family
  <2>1. g \in Back(Current(f))
    BY <1>1 DEF OnwardInv, OneHistory, Chain, Current
  <2>2. /\ Entries(pointer)'[f] # None
        /\ g \in Closure({Entries(pointer)'[f]}, Priors')
    BY <1>1, <2>1, ChainGrows
  <2>3. root'[g].family = f
    BY <1>1
  <2> HIDE DEF f
  <2> QED BY <2>2, <2>3 DEF Chain, Back
<1>3. CASE UNCHANGED <<pointer, landed>>
  <2>1. EverSelected' = EverSelected
    BY <1>3, IndexStays
  <2> QED BY <1>1, <1>2, <2>1 DEF OnwardInv, OneHistory
<1>4. ASSUME NEW x \in Generations, Selects(x) PROVE OneHistory'
  <2>1. /\ root' = root /\ EverSelected' = EverSelected \cup {x}
        /\ root[x].family \in Families /\ Entries(pointer)'[root[x].family] = x
        /\ root[x].prior = Current(root[x].family)
    BY <1>4 DEF Selects
  <2>2. x # None
    BY PublicationAssumption DEF PublicationAssumption
  <2>3. x \in Closure({x}, Priors')
    BY LinksStay, ClosureHolds
  <2>4. x \in Chain(root[x].family, Entries(pointer))'
    BY <2>1, <2>2, <2>3 DEF Chain, Back
  <2>5. \A g \in EverSelected : root[g].family = root[x].family => root[g].prior # root[x].prior
    BY <2>1 DEF OnwardInv, MovesOn
  <2> QED BY <1>2, <2>1, <2>4, <2>5 DEF OnwardInv, OneHistory
<1> QED BY <1>3, <1>4, PointerMoves

LEMMA IndexedSelected ==
    ASSUME HeldInv
    PROVE  Indexed \subseteq EverSelected
  BY DEF HeldInv, IndexInv, Indexed

LEMMA StableLeftBehind ==
    ASSUME HeldInv, OnwardInv, RetentionTypeOK', Grown, [RNext]_rvars, UNCHANGED keeper,
           NEW c \in EverSelected, NEW g \in Generations, root[g] # None,
           Current(root[g].family) # None, LeftBehind(g, c)
    PROVE  LeftBehind(g, c)'
<1>1. root'[g] = root[g] /\ Obsolete(g) /\ Obsolete(g)'
  BY StableObsolete DEF Grown, LeftBehind
<1>2. ASSUME g \in Back(Current(root[g].family))' PROVE g \in Back(c)'
  <2>1. g \in Back(c)
    BY <1>1, <1>2, StableOffChain DEF LeftBehind
  <2>2. {c} \in SUBSET EverSelected
    OBVIOUS
  <2> QED BY <2>1, <2>2, ClosuresStay DEF Back
<1>3. ASSUME NEW f \in Families, g \in WithParents({Current(f)} \cap Generations)'
      PROVE  g \in WithParents(Indexed)'
  <2>1. g \in WithParents(Indexed)
    BY <1>1, <1>3, StableUnused DEF LeftBehind
  <2>2. Indexed' = Indexed /\ Indexed \in SUBSET EverSelected
    BY IndexedSelected DEF Indexed
  <2>3. Closure(Indexed, Parents') = Closure(Indexed, Parents)
    BY <2>2, ClosuresStay
  <2> QED BY <2>1, <2>2, <2>3 DEF WithParents
<1> QED BY <1>1, <1>2, <1>3 DEF LeftBehind

LEMMA StableUnneeded ==
    ASSUME HeldInv, OnwardInv, RetentionTypeOK', Grown, [RNext]_rvars,
           NEW g \in Generations, root[g] # None, Current(root[g].family) # None, Unneeded(g)
    PROVE  Unneeded(g)'
<1>1. root'[g] = root[g] /\ Obsolete(g) /\ Obsolete(g)' /\ root[g].family \in Families
  BY StableObsolete, PriorsAreOld DEF Grown, Unneeded
<1>2. ASSUME NEW f \in Families PROVE g \notin WithParents({Current(f)} \cap Generations)'
  BY <1>1, <1>2, StableUnused DEF Unneeded
<1>3. ASSUME g \in Back(Current(root[g].family))'
      PROVE  Place(root[g].family, Entries(pointer), g)' >= KeepLast
  <2> DEFINE c == Current(root[g].family)
             d == Entries(pointer)'[root[g].family]
             before == Back(c) \ Closure({g}, Priors)
             after == Closure({d}, Priors') \ Closure({g}, Priors)
  <2>1. g \in Back(c)
    BY <1>1, <1>3, StableOffChain
  <2>2. c \in EverSelected /\ c \in Generations
    BY <1>1, CurrentSelected
  <2>3. {g} \in SUBSET EverSelected
    BY <2>1, <2>2, BackInFamily
  <2>4. Closure({g}, Priors') = Closure({g}, Priors)
    BY <2>3, ClosuresStay
  <2>5. d # None /\ before \subseteq after
    BY <1>1, ChainGrows
  <2>6. IsFiniteSet(after)
    BY RetentionAssumption, FS_Subset DEF Closure, RetentionAssumption
  <2>7. Cardinality(before) >= KeepLast
    BY <2>1 DEF Unneeded, Place, Chain, Current, Back
  <2>8. Place(root[g].family, Entries(pointer), g)' = Cardinality(after)
    BY <1>1, <2>4, <2>5 DEF Place, Chain, Back
  <2> HIDE DEF before, after
  <2>9. /\ Cardinality(before) <= Cardinality(after)
        /\ Cardinality(before) \in Nat /\ Cardinality(after) \in Nat
    BY <2>5, <2>6, FS_Subset, FS_CardinalityType
  <2>10. KeepLast \in Nat
    BY RetentionAssumption DEF RetentionAssumption
  <2> QED BY <2>7, <2>8, <2>9, <2>10
<1> QED BY <1>1, <1>2, <1>3 DEF Unneeded

-----------------------------------------------------------------------------
(* The conjuncts about the run's record. *)

LEMMA KeeperKinds ==
    ASSUME HeldInv, [RNext]_rvars
    PROVE  \/ ReadIndex \/ Mark
           \/ keeper' = RestingKeeper /\ UNCHANGED <<pins, pointer, landed>>
           \/ \E g \in Generations : /\ Deletes(g)
                                     /\ keeper' = [keeper EXCEPT !.doomed = @ \ {g}]
           \/ UNCHANGED keeper
<1>1. ASSUME NEW g \in Generations, Delete(g)
      PROVE  \/ keeper' = RestingKeeper /\ UNCHANGED <<pins, pointer, landed>>
             \/ Deletes(g) /\ keeper' = [keeper EXCEPT !.doomed = @ \ {g}]
  BY <1>1 DEF Delete, Deletes, vars
<1> QED BY <1>1 DEF RNext, PublicationStep, Tick, Pin, Snapshot, Retain, Finish, DeletePartly, rvars, vars

(* Selected generations, as the index and a root name them. *)
LEMMA PinsStep ==
    ASSUME HeldInv, Grown, [RNext]_rvars
    PROVE  PinsInv'
<1>1. EverSelected \subseteq EverSelected'
  BY DEF Grown, EverSelected
<1> DEFINE named == pins \cup inputs.native \cup inputs.sources
<1>2. /\ named \subseteq EverSelected /\ keeper.pins \cup keeper.sources \subseteq EverSelected
      /\ keeper \in Keeper
  BY DEF HeldInv, PinsInv, RetentionTypeOK
<1>3. named' \subseteq EverSelected'
  <2>1. CASE PublicationStep \/ Retain
    <3>1. named' = named
      BY <2>1, KeeperType DEF PublicationStep, HeldInv
    <3> QED BY <1>1, <1>2, <3>1
  <2>2. ASSUME NEW g \in EverSelected, Pin(g) PROVE named' \subseteq EverSelected'
    BY <1>1, <1>2, <2>2 DEF Pin
  <2>3. ASSUME NEW native \in SUBSET EverSelected, NEW sources \in SUBSET EverSelected,
               Snapshot(native, sources)
        PROVE  named' \subseteq EverSelected'
    BY <1>1, <1>2, <2>3 DEF Snapshot
  <2>4. CASE Tick \/ UNCHANGED rvars
    <3>1. named' = named
      BY <2>4 DEF Tick, rvars
    <3> QED BY <1>1, <1>2, <3>1
  <2> QED BY <2>1, <2>2, <2>3, <2>4 DEF RNext
<1>4. keeper'.pins \cup keeper'.sources \subseteq EverSelected'
  <2>1. CASE ReadIndex
    <3>1. keeper'.pins = pins /\ keeper'.sources = keeper.sources
      BY <1>2, <2>1 DEF ReadIndex, Keeper
    <3> QED BY <1>1, <1>2, <3>1
  <2>2. CASE Mark
    <3>1. /\ keeper'.pins \in {keeper.pins \cup inputs.native, {}}
          /\ keeper'.sources \in {inputs.sources, {}}
      BY <1>2, <2>2 DEF Mark, Keeper, RestingKeeper
    <3> QED BY <1>1, <1>2, <3>1
  <2>3. CASE keeper' = RestingKeeper
    BY <2>3 DEF RestingKeeper
  <2>4. ASSUME NEW g \in Generations, keeper' = [keeper EXCEPT !.doomed = @ \ {g}]
        PROVE  keeper'.pins \cup keeper'.sources \subseteq EverSelected'
    <3>1. keeper'.pins = keeper.pins /\ keeper'.sources = keeper.sources
      BY <1>2, <2>4 DEF Keeper
    <3> QED BY <1>1, <1>2, <3>1
  <2>5. CASE UNCHANGED keeper
    BY <1>1, <1>2, <2>5
  <2> QED BY <2>1, <2>2, <2>3, <2>4, <2>5, KeeperKinds
<1> HIDE DEF named
<1>5. PinsInv' <=> (named' \cup keeper'.pins \cup keeper'.sources \subseteq EverSelected')
  BY DEF PinsInv, named
<1> QED BY <1>3, <1>4, <1>5

LEMMA IndexStep ==
    ASSUME HeldInv, Grown, [RNext]_rvars
    PROVE  IndexInv'
<1>1. \A g \in EverSelected : g \in EverSelected' /\ root'[g] = root[g]
  BY Links DEF Grown, EverSelected
<1>2. keeper \in Keeper
  BY DEF HeldInv, RetentionTypeOK
<1>3. ASSUME keeper'.index = keeper.index PROVE IndexInv'
  BY <1>1, <1>3 DEF HeldInv, IndexInv
<1>4. ASSUME keeper'.index = None PROVE IndexInv'
  BY <1>4 DEF IndexInv, Entries
<1>5. CASE ReadIndex
  <2>1. keeper'.index = pointer
    BY <1>2, <1>5 DEF ReadIndex, Keeper
  <2>2. \A f \in Families : Entries(pointer)[f] # None =>
           Entries(pointer)[f] \in EverSelected /\ root[Entries(pointer)[f]].family = f
    BY CurrentSelected DEF Current
  <2> QED BY <1>1, <2>1, <2>2 DEF IndexInv
<1>6. CASE Mark
  BY <1>2, <1>3, <1>4, <1>6 DEF Mark, Keeper, RestingKeeper
<1>7. CASE keeper' = RestingKeeper
  BY <1>4, <1>7 DEF RestingKeeper
<1>8. ASSUME NEW g \in Generations, keeper' = [keeper EXCEPT !.doomed = @ \ {g}] PROVE IndexInv'
  BY <1>2, <1>3, <1>8 DEF Keeper
<1> QED BY <1>3, <1>5, <1>6, <1>7, <1>8, KeeperKinds

LEMMA MarksStep ==
    ASSUME HeldInv, Grown, [RNext]_rvars
    PROVE  MarksInv'
<1>1. \A g \in Generations : root[g] # None => root'[g] # None
  BY DEF Grown
<1>2. keeper \in Keeper /\ \A g \in keeper.approved \cup keeper.doomed : root[g] # None
  BY DEF HeldInv, RetentionTypeOK, MarksInv
<1>3. ASSUME keeper'.approved \cup keeper'.doomed \subseteq keeper.approved \cup keeper.doomed
      PROVE  MarksInv'
  BY <1>1, <1>2, <1>3 DEF MarksInv, Keeper
<1>4. CASE ReadIndex
  BY <1>2, <1>3, <1>4 DEF ReadIndex, Keeper
<1>5. CASE Mark
  <2> DEFINE index == Entries(keeper.index)
             marks == Deletable(index, keeper.now, Pinned(index))
  <2>1. \A g \in marks : g \in Generations /\ root[g] # None
    BY MarksType DEF Listed, Bucket, HeldInv, StoredBuilt
  <2>2. keeper'.approved \cup keeper'.doomed \subseteq keeper.approved \cup keeper.doomed \cup marks
    <3>1. keeper' = IF keeper.phase = "indexed"
                    THEN [RestingKeeper EXCEPT !.phase = "approved", !.approved = marks]
                    ELSE [keeper EXCEPT !.phase = "deleting", !.now = 0,
                                         !.pins = @ \cup inputs.native,
                                         !.sources = inputs.sources, !.approved = {},
                                         !.doomed = keeper.approved \cap marks]
      BY <1>5 DEF Mark
    <3> HIDE DEF marks
    <3> QED BY <1>2, <3>1 DEF Keeper, RestingKeeper
  <2> HIDE DEF marks
  <2> QED BY <1>1, <1>2, <2>1, <2>2 DEF MarksInv, Keeper
<1>6. CASE keeper' = RestingKeeper
  BY <1>3, <1>6 DEF RestingKeeper
<1>7. ASSUME NEW g \in Generations, keeper' = [keeper EXCEPT !.doomed = @ \ {g}] PROVE MarksInv'
  BY <1>2, <1>3, <1>7 DEF Keeper
<1>8. CASE UNCHANGED keeper
  BY <1>3, <1>8
<1> QED BY <1>4, <1>5, <1>6, <1>7, <1>8, KeeperKinds

(* What is marked was built. *)
LEMMA MarkedBuilt ==
    ASSUME HeldInv, NEW g \in keeper.approved \cup keeper.doomed
    PROVE  g \in Generations /\ root[g] # None
  BY DEF HeldInv, RetentionTypeOK, Keeper, MarksInv

(* When the deleting plan reads the index, its entry is the current one. *)
LEMMA ReindexedStarts ==
    ASSUME HeldInv, OnwardInv, ReadIndex, keeper'.phase = "reindexed",
           NEW f \in Families, FoundIndexed(f)',
           NEW c \in Generations, c = Entries(keeper'.index)[f]
    PROVE  /\ Settled(c)'
           /\ c \in Back(Current(f))'
           /\ \A g \in Back(c)' : root'[g].prior # c
           /\ \A g \in keeper'.approved : root'[g].family = f =>
                  g = c \/ root'[g].prior = c \/ LeftBehind(g, c)'
<1>1. /\ keeper'.index = pointer /\ keeper'.approved = keeper.approved
      /\ UNCHANGED <<vars, gone, written, unindexed>>
  BY DEF ReadIndex, HeldInv, OnwardInv, RetentionTypeOK, Keeper
<1>2. UNCHANGED <<pointer, root, stored, gone, written, unindexed>>
  BY <1>1 DEF vars
<1>3. Current(f) # None /\ f \notin unindexed
  BY <1>1, <1>2 DEF FoundIndexed, Current
<1>4. Current(f) \in EverSelected /\ root[Current(f)].family = f
  BY <1>3, CurrentSelected
<1>5. c = Current(f) /\ c \in EverSelected
  BY <1>1, <1>4 DEF Current
<1>6. Settled(c)'
  <2>1. Settled(c)
    BY <1>3, <1>5 DEF HeldInv, OnwardInv, CurrentSettled
  <2>2. Bucket' = Bucket /\ Listed' = Listed
    BY <1>2 DEF Bucket, Listed
  <2> QED BY <1>2, <2>1, <2>2 DEF Settled, Whole
<1>7. Priors' = Priors /\ Parents' = Parents /\ Entries(pointer)' = Entries(pointer)
  BY <1>2 DEF Priors, Parents, Replaced, ParentsOf, Listed, Bucket
<1>8. c \in Back(c) /\ \A g \in Back(c) : root[g].prior # c
  <2> SUFFICES ASSUME NEW g \in Back(c) PROVE root[g].prior # c
    BY <1>5, BackInFamily
  <2>1. g \in EverSelected /\ root[g].family = f
    BY <1>4, <1>5, BackInFamily
  <2> QED BY <1>5, <2>1 DEF HeldInv, OnwardInv, MovesOn
<1>9. ASSUME NEW g \in keeper.approved, root[g].family = f, g # c, root[g].prior # c
      PROVE  LeftBehind(g, c)'
  <2>1. Obsolete(g)'
    BY <1>2, <1>5, <1>9 DEF Obsolete, Current
  <2>2. Back(Current(root[g].family))' = Back(c)'
    BY <1>2, <1>5, <1>9 DEF Current
  <2>3. Indexed' = {Current(h) : h \in Families} \ {None}
    BY <1>1 DEF Indexed, Current
  <2>4. Indexed' \in SUBSET Generations
    BY <2>3, CurrentSelected
  <2>5. ASSUME NEW h \in Families PROVE WithParents({Current(h)} \cap Generations)' \subseteq WithParents(Indexed)'
    <3>1. {Current(h)} \cap Generations \subseteq Indexed'
      BY <2>3, PublicationAssumption DEF PublicationAssumption
    <3>2. Indexed' \subseteq Closure(Indexed', Parents)
      BY <2>4, LinksType, ClosureHolds
    <3>3. Closure({Current(h)} \cap Generations, Parents) \subseteq Closure(Indexed', Parents)
      BY <2>4, <3>1, <3>2, LinksType, ClosureWithin
    <3> QED BY <1>7, <3>3 DEF WithParents, Current
  <2> QED BY <2>1, <2>2, <2>5 DEF LeftBehind
<1>10. Back(c)' = Back(c)
  BY <1>7 DEF Back
<1>11. c \in Back(Current(f))'
  BY <1>5, <1>7, <1>8 DEF Current, Back
<1> QED BY <1>1, <1>2, <1>6, <1>8, <1>9, <1>10, <1>11

(* Until it lists the bucket, publishing goes on. *)
LEMMA ReindexedStays ==
    ASSUME HeldInv, OnwardInv, RetentionTypeOK', Grown, [RNext]_rvars, UNCHANGED keeper,
           keeper.phase = "reindexed", NEW f \in Families, FoundIndexed(f)',
           NEW c \in Generations, c = Entries(keeper'.index)[f]
    PROVE  /\ Settled(c)'
           /\ c \in Back(Current(f))'
           /\ \A g \in Back(c)' : root'[g].prior # c
           /\ \A g \in keeper'.approved : root'[g].family = f =>
                  g = c \/ root'[g].prior = c \/ LeftBehind(g, c)'
<1>1. FoundIndexed(f) /\ keeper' = keeper
  BY UnindexedGrows DEF FoundIndexed
<1>2. c \in EverSelected /\ c = Entries(keeper.index)[f] /\ root[c].family = f
  BY <1>1 DEF HeldInv, OnwardInv, IndexInv, FoundIndexed
<1>3. /\ Settled(c)
      /\ c \in Back(Current(f))
      /\ \A g \in Back(c) : root[g].prior # c
      /\ \A g \in keeper.approved : root[g].family = f =>
             g = c \/ root[g].prior = c \/ LeftBehind(g, c)
  BY <1>1, <1>2 DEF HeldInv, OnwardInv, ReindexedInv
<1>4. Settled(c)'
  <2>1. Bucket \subseteq Bucket'
    <3>1. CASE PublicationStep
      BY <3>1, BucketStep DEF HeldInv, OnwardInv
    <3>2. CASE UNCHANGED <<vars, gone, written, unindexed>>
      BY <3>2 DEF vars, Bucket
    <3> QED BY <3>1, <3>2, StepKinds DEF Deletes
  <2>2. Whole(c)'
    BY <1>3, <2>1 DEF Settled, Whole
  <2> QED BY <1>2, <1>3, <2>2, StableSettled
<1>5. Current(f) # None
  BY <1>2, FamilyNamed
<1>6. c \in Back(Current(f))'
  BY <1>3, <1>5, ChainGrows DEF Back, Current
<1>7. \A g \in Back(c)' : root'[g].prior # c
  <2>1. {c} \in SUBSET EverSelected
    BY <1>2
  <2>2. Back(c)' = Back(c)
    BY <2>1, ClosuresStay DEF Back
  <2>3. \A g \in Back(c) : root'[g] = root[g]
    BY <1>2, BackInFamily, LinksStay
  <2> QED BY <1>3, <2>2, <2>3
<1>8. ASSUME NEW g \in keeper.approved, root'[g].family = f, g # c, root'[g].prior # c
      PROVE  LeftBehind(g, c)'
  <2>1. g \in Generations /\ root[g] # None
    BY MarkedBuilt
  <2>2. root'[g] = root[g]
    BY <2>1 DEF Grown
  <2>3. LeftBehind(g, c)
    BY <1>3, <1>8, <2>2
  <2> QED BY <1>2, <1>5, <1>8, <2>1, <2>2, <2>3, StableLeftBehind
<1> QED BY <1>1, <1>2, <1>4, <1>6, <1>7, <1>8

LEMMA ReindexedStep ==
    ASSUME HeldInv, OnwardInv, RetentionTypeOK', Grown, [RNext]_rvars
    PROVE  ReindexedInv'
<1>1. keeper \in Keeper
  BY DEF HeldInv, OnwardInv, RetentionTypeOK
<1>2. ASSUME keeper'.phase = "reindexed" PROVE ReadIndex \/ (UNCHANGED keeper /\ keeper.phase = "reindexed")
  <2>1. CASE Mark
    BY <1>1, <1>2, <2>1 DEF Mark, Keeper, RestingKeeper
  <2>2. CASE keeper' = RestingKeeper
    BY <1>2, <2>2 DEF RestingKeeper
  <2>3. ASSUME NEW g \in Generations, Deletes(g), keeper' = [keeper EXCEPT !.doomed = @ \ {g}]
        PROVE  FALSE
    BY <1>1, <1>2, <2>3 DEF Keeper, Deletes
  <2> QED BY <1>2, <2>1, <2>2, <2>3, KeeperKinds
<1> QED BY <1>2, ReindexedStarts, ReindexedStays DEF ReindexedInv

-----------------------------------------------------------------------------
(* What both plans mark, nothing current needs. *)

Base(index, now, pinned) ==
    (UNION {KeptInFamily(f, index, now) : f \in Families}) \cup (pinned \cap Listed)

LEMMA KeptHolds ==
    ASSUME NEW index \in Index, NEW now, NEW pinned
    PROVE  /\ Base(index, now, pinned) \subseteq Kept(index, now, pinned)
           /\ \A gens : gens \subseteq Kept(index, now, pinned) =>
                  WithParents(gens) \subseteq Kept(index, now, pinned)
<1> DEFINE base == Base(index, now, pinned)
<1>1. base \in SUBSET Generations
  <2>1. \A f \in Families : KeptInFamily(f, index, now) \subseteq Generations
    BY DEF KeptInFamily, KeptOnChain, Chain, Back, Closure, InFlight, Newest, OfFamily, Listed
  <2> QED BY <2>1 DEF Base, Listed
<1>2. Kept(index, now, pinned) = Closure(base, Parents)
  BY DEF Kept, WithParents, Base
<1> HIDE DEF base
<1>3. base \subseteq Closure(base, Parents)
  BY <1>1, LinksType, ClosureHolds
<1>4. \A gens : gens \subseteq Closure(base, Parents) =>
          Closure(gens, Parents) \subseteq Closure(base, Parents)
  BY <1>1, LinksType, ClosureWithin
<1> QED BY <1>2, <1>3, <1>4 DEF WithParents, base

(* Whatever the index names is at place 0 of its chain. *)
LEMMA IndexedKept ==
    ASSUME NEW index \in Index, NEW now, NEW pinned, NEW f \in Families, index[f] # None
    PROVE  /\ index[f] \in Kept(index, now, pinned)
           /\ Chain(f, index) = Back(index[f])
           /\ KeptOnChain(f, index, now) \subseteq Kept(index, now, pinned)
           /\ InFlight(f, index) \subseteq Kept(index, now, pinned)
<1> DEFINE c == index[f]
<1>1. c \in Generations
  BY DEF Index, Entry
<1>2. Chain(f, index) = Back(c)
  BY DEF Chain
<1>3. c \in Back(c)
  <2>1. {c} \in SUBSET Generations
    BY <1>1
  <2> QED BY <2>1, LinksType, ClosureHolds DEF Back
<1>4. Place(f, index, c) = 0
  <2>1. Chain(f, index) \ Back(c) = {}
    BY <1>2
  <2> QED BY <2>1, FS_EmptySet DEF Place
<1>5. c \in KeptOnChain(f, index, now)
  BY <1>2, <1>3, <1>4, RetentionAssumption DEF KeptOnChain, RetentionAssumption
<1>6. KeptOnChain(f, index, now) \cup InFlight(f, index) \subseteq Base(index, now, pinned)
  BY DEF Base, KeptInFamily
<1> QED BY <1>2, <1>5, <1>6, KeptHolds

(* The chains of an index the run holds, and what one plan keeps a generation
   for, are of selected generations; later steps leave them as they are. *)
LEMMA ChainsStay ==
    ASSUME HeldInv, NEW f \in Families
    PROVE  LET index == Entries(keeper.index) IN
           /\ Chain(f, index) \subseteq EverSelected
           /\ RetentionTypeOK' /\ Grown /\ keeper'.index = keeper.index =>
                  /\ Chain(f, index)' = Chain(f, index)
                  /\ \A g \in Chain(f, index) : Place(f, index, g)' = Place(f, index, g)
<1> DEFINE index == Entries(keeper.index)
<1>1. Chain(f, index) \subseteq EverSelected
  <2>1. CASE index[f] = None
    BY <2>1 DEF Chain
  <2>2. CASE index[f] # None
    <3>1. index[f] \in EverSelected
      BY <2>2 DEF HeldInv, IndexInv
    <3> QED BY <2>2, <3>1, BackInFamily DEF Chain
  <2> QED BY <2>1, <2>2
<1>2. ASSUME RetentionTypeOK', Grown, keeper'.index = keeper.index
      PROVE  /\ Chain(f, index)' = Chain(f, index)
             /\ \A g \in Chain(f, index) : Place(f, index, g)' = Place(f, index, g)
  <2>1. index' = index
    BY <1>2 DEF Entries
  <2>2. \A g \in EverSelected : Back(g)' = Back(g)
    <3> SUFFICES ASSUME NEW g \in EverSelected PROVE Closure({g}, Priors)' = Closure({g}, Priors)
      BY DEF Back
    <3>1. Closure({g}, Priors') = Closure({g}, Priors)
      BY <1>2, ClosuresStay
    <3> QED BY <3>1
  <2>3. Chain(f, index)' = Chain(f, index)
    <3>1. CASE index[f] = None
      BY <2>1, <3>1 DEF Chain
    <3>2. CASE index[f] # None
      <4>1. index[f] \in EverSelected
        BY <3>2 DEF HeldInv, IndexInv
      <4>2. Back(index[f])' = Back(index[f])
        BY <2>1, <2>2, <4>1 DEF Back
      <4> QED BY <2>1, <3>2, <4>2 DEF Chain
    <3> QED BY <3>1, <3>2
  <2>4. ASSUME NEW g \in Chain(f, index) PROVE Place(f, index, g)' = Place(f, index, g)
    <3>1. Back(g)' = Back(g)
      BY <1>1, <2>2
    <3> HIDE DEF index
    <3> QED BY <2>3, <3>1 DEF Place, index
  <2> QED BY <2>3, <2>4
<1> QED BY <1>1, <1>2

(* What a plan keeps generations for is what its marks start from. *)
Wanted == Recent(Entries(keeper.index)) \cup Pinned(Entries(keeper.index))

LEMMA WantedKept ==
    ASSUME HeldInv
    PROVE  LET index == Entries(keeper.index) IN
           WithParents(Wanted) \subseteq Kept(index, keeper.now, Pinned(index))
<1> DEFINE index == Entries(keeper.index)
           pinned == Pinned(index)
<1>1. index \in Index
  BY EntriesType DEF HeldInv, RetentionTypeOK, Keeper
<1>2. pinned \subseteq Listed
  <2>1. pinned \subseteq keeper.pins \cup inputs.native \cup inputs.sources
    BY DEF Pinned
  <2>2. keeper.pins \cup inputs.native \cup inputs.sources \subseteq EverSelected
    BY DEF HeldInv, PinsInv
  <2> HIDE DEF pinned
  <2> QED BY <2>1, <2>2, Links
<1> HIDE DEF pinned
<1>3. pinned \subseteq Base(index, keeper.now, pinned)
  BY <1>2 DEF Base
<1>4. ASSUME NEW f \in Families, NEW g \in Chain(f, index), Place(f, index, g) < KeepLast
      PROVE  g \in Kept(index, keeper.now, pinned)
  <2>1. index[f] # None
    BY <1>4 DEF Chain
  <2>2. g \in KeptOnChain(f, index, keeper.now)
    BY <1>4 DEF KeptOnChain
  <2> HIDE DEF index
  <2> QED BY <1>1, <2>1, <2>2, IndexedKept
<1> HIDE DEF index
<1>5. Recent(index) \subseteq Kept(index, keeper.now, pinned)
  BY <1>4 DEF Recent
<1>6. WithParents(Recent(index) \cup pinned) \subseteq Kept(index, keeper.now, pinned)
  BY <1>1, <1>3, <1>5, KeptHolds
<1> QED BY <1>6 DEF Wanted, index, pinned

(* What a run is about to delete, its approved plan marked and its fresh one. *)
LEMMA BothMark ==
    ASSUME HeldInv, Mark, NEW g \in keeper'.doomed
    PROVE  LET index == Entries(keeper.index) IN
           /\ keeper.phase = "reindexed" /\ g \in keeper.approved /\ g \in Listed
           /\ g \notin Kept(index, keeper.now, Pinned(index))
           /\ keeper'.pins = keeper.pins \cup inputs.native /\ keeper'.sources = inputs.sources
           /\ keeper'.index = keeper.index
<1> DEFINE index == Entries(keeper.index)
           marks == Deletable(index, keeper.now, Pinned(index))
<1>1. keeper \in Keeper
  BY DEF HeldInv, RetentionTypeOK
<1>2. /\ keeper.phase \in {"indexed", "reindexed"}
      /\ keeper' = IF keeper.phase = "indexed"
                   THEN [RestingKeeper EXCEPT !.phase = "approved", !.approved = marks]
                   ELSE [keeper EXCEPT !.phase = "deleting", !.now = 0,
                                       !.pins = @ \cup inputs.native,
                                       !.sources = inputs.sources, !.approved = {},
                                       !.doomed = keeper.approved \cap marks]
  BY DEF Mark
<1>3. /\ keeper.phase = "reindexed" /\ g \in keeper.approved /\ g \in marks
      /\ keeper'.pins = keeper.pins \cup inputs.native /\ keeper'.sources = inputs.sources
      /\ keeper'.index = keeper.index
  <2> HIDE DEF marks
  <2> QED BY <1>1, <1>2 DEF Keeper, RestingKeeper
<1> QED BY <1>3 DEF Deletable

(* Later steps change neither what that plan found on the chains, nor what it
   needs, nor what any of it was built from. *)
LEMMA NeededStays ==
    ASSUME HeldInv, RetentionTypeOK', Grown, keeper'.index = keeper.index
    PROVE  /\ Needed \in SUBSET EverSelected
           /\ Recent(Entries(keeper.index))' = Recent(Entries(keeper.index))
           /\ Described(Entries(keeper.index))' = Described(Entries(keeper.index))
<1> DEFINE index == Entries(keeper.index)
<1>1. ASSUME NEW f \in Families
      PROVE  /\ Chain(f, index) \subseteq EverSelected
             /\ Chain(f, index)' = Chain(f, index)
             /\ \A g \in Chain(f, index) : Place(f, index, g)' = Place(f, index, g)
  BY ChainsStay
<1>2. keeper.pins \subseteq EverSelected
  BY DEF HeldInv, PinsInv
<1>3. /\ Recent(index) \subseteq EverSelected /\ Described(index) \subseteq EverSelected
      /\ Recent(index)' = Recent(index) /\ Described(index)' = Described(index)
  <2> HIDE DEF index
  <2> QED BY <1>1 DEF Recent, Described
<1>4. Needed \in SUBSET EverSelected
  <2> HIDE DEF index
  <2> QED BY <1>2, <1>3 DEF Needed, index
<1> QED BY <1>3, <1>4

(* The plan that deletes needs what it kept. *)
LEMMA MarkNeeds ==
    ASSUME HeldInv, Mark, RetentionTypeOK', Grown, keeper'.doomed # {}
    PROVE  Needed' = Wanted /\ Wanted \in SUBSET EverSelected
<1> DEFINE index == Entries(keeper.index)
<1>1. /\ keeper'.pins = keeper.pins \cup inputs.native /\ keeper'.sources = inputs.sources
      /\ keeper'.index = keeper.index
  BY BothMark
<1>2. Recent(index)' = Recent(index) /\ Described(index)' = Described(index)
  BY <1>1, NeededStays
<1>3. Needed' = Recent(index)' \cup keeper'.pins \cup (keeper'.sources \cap Described(index)')
  BY DEF Needed
<1>4. Wanted = Recent(index) \cup (keeper.pins \cup inputs.native
                                      \cup (inputs.sources \cap Described(index)))
  BY DEF Wanted, Pinned
<1> HIDE DEF index
<1>5. Needed' = Wanted
  BY <1>1, <1>2, <1>3, <1>4
<1>6. /\ Recent(index) \cup Described(index) \subseteq EverSelected
      /\ keeper.pins \cup inputs.native \subseteq EverSelected
  <2>1. \A f \in Families : Chain(f, index) \subseteq EverSelected
    BY ChainsStay DEF index
  <2> QED BY <2>1 DEF Recent, Described, HeldInv, PinsInv
<1> QED BY <1>4, <1>5, <1>6

LEMMA DoomedHeldStep ==
    ASSUME HeldInv, RetentionTypeOK', Grown, [RNext]_rvars
    PROVE  DoomedHeld'
<1>1. keeper \in Keeper
  BY DEF HeldInv, RetentionTypeOK
<1>2. ASSUME NEW gens \in SUBSET EverSelected PROVE WithParents(gens)' = WithParents(gens)
  <2>1. Closure(gens, Parents') = Closure(gens, Parents)
    BY ClosuresStay
  <2> QED BY <2>1 DEF WithParents
<1>3. ASSUME keeper'.doomed \subseteq keeper.doomed, keeper'.pins = keeper.pins,
             keeper'.sources = keeper.sources, keeper'.index = keeper.index
      PROVE  DoomedHeld'
  <2>1. Needed \in SUBSET EverSelected /\ Needed' = Needed
    BY <1>3, NeededStays DEF Needed
  <2>2. WithParents(Needed)' = WithParents(Needed)
    <3> DEFINE needed == Needed
    <3>1. needed' = needed /\ needed \in SUBSET EverSelected
      BY <2>1
    <3> HIDE DEF needed
    <3>2. Closure(needed, Parents') = Closure(needed, Parents)
      BY <3>1, ClosuresStay
    <3>3. WithParents(needed)' = WithParents(needed)
      BY <3>1, <3>2 DEF WithParents
    <3> QED BY <3>3 DEF needed
  <2> QED BY <1>3, <2>2 DEF HeldInv, DoomedHeld
<1>4. CASE ReadIndex
  <2>1. keeper'.doomed = keeper.doomed /\ keeper.phase # "deleting"
    BY <1>1, <1>4 DEF ReadIndex, Keeper
  <2>2. keeper'.doomed = {}
    BY <2>1 DEF HeldInv, RetentionTypeOK
  <2> QED BY <2>2 DEF DoomedHeld
<1>5. CASE Mark
  <2> SUFFICES ASSUME NEW g \in keeper'.doomed PROVE g \notin WithParents(Needed)'
    BY DEF DoomedHeld
  <2>1. g \notin WithParents(Wanted)
    BY <1>5, BothMark, WantedKept
  <2>2. Needed' = Wanted /\ Wanted \in SUBSET EverSelected
    BY <1>5, MarkNeeds
  <2>3. WithParents(Needed)' = Closure(Needed', Parents')
    BY DEF WithParents
  <2>4. Closure(Wanted, Parents') = Closure(Wanted, Parents)
    BY <2>2, ClosuresStay
  <2> QED BY <2>1, <2>2, <2>3, <2>4 DEF WithParents
<1>6. CASE keeper' = RestingKeeper
  BY <1>6 DEF RestingKeeper, DoomedHeld
<1>7. ASSUME NEW g \in Generations, keeper' = [keeper EXCEPT !.doomed = @ \ {g}] PROVE DoomedHeld'
  BY <1>1, <1>3, <1>7 DEF Keeper
<1>8. CASE UNCHANGED keeper
  BY <1>3, <1>8
<1> QED BY <1>4, <1>5, <1>6, <1>7, <1>8, KeeperKinds

LEMMA DoomedStarts ==
    ASSUME HeldInv, OnwardInv, Mark, NEW g \in keeper'.doomed, FoundIndexed(root[g].family)
    PROVE  Unneeded(g)
<1> DEFINE index == Entries(keeper.index)
           kept == Kept(index, keeper.now, Pinned(index))
<1>1. keeper.phase = "reindexed" /\ g \in keeper.approved
  BY BothMark
<1>2. g \in Listed /\ g \notin kept
  BY BothMark
<1>3. index \in Index
  BY EntriesType DEF HeldInv, RetentionTypeOK, Keeper
<1>4. g \in Generations /\ root[g] # None /\ root[g].family \in Families
  BY <1>1, MarkedBuilt, PriorsAreOld
<1> HIDE DEF index, kept
<1> DEFINE f == root[g].family
           c == index[f]
<1>5. c # None /\ c \in Generations /\ c \in EverSelected /\ root[c].family = f
  BY <1>4 DEF FoundIndexed, index, HeldInv, OnwardInv, IndexInv, EverSelected
<1>6. /\ Settled(c)
      /\ c \in Back(Current(f))
      /\ \A h \in Back(c) : root[h].prior # c
      /\ g = c \/ root[g].prior = c \/ LeftBehind(g, c)
  BY <1>1, <1>4, <1>5 DEF HeldInv, OnwardInv, ReindexedInv, index
<1>7. /\ c \in kept /\ Chain(f, index) = Back(c)
      /\ KeptOnChain(f, index, keeper.now) \cup InFlight(f, index) \subseteq kept
  BY <1>3, <1>4, <1>5, IndexedKept DEF kept
<1>8. root[g].prior # c
  <2> SUFFICES ASSUME root[g].prior = c PROVE FALSE
    OBVIOUS
  <2>1. g \in OfFamily(f) \ Chain(f, index)
    BY <1>2, <1>6, <1>7 DEF OfFamily
  <2>2. written[g] > written[index[f]]
    BY <1>2, <1>5, <1>6 DEF Settled
  <2>3. g \in InFlight(f, index)
    BY <2>1, <2>2 DEF InFlight
  <2> QED BY <1>2, <1>7, <2>3
<1>9. LeftBehind(g, c)
  BY <1>2, <1>6, <1>7, <1>8
<1>10. ASSUME NEW h \in Families PROVE g \notin WithParents({Current(h)} \cap Generations)
  <2>1. Indexed \subseteq kept
    BY <1>3, IndexedKept DEF Indexed, kept, index
  <2>2. WithParents(Indexed) \subseteq kept
    BY <1>3, <2>1, KeptHolds DEF kept
  <2> QED BY <1>2, <1>9, <2>2 DEF LeftBehind
<1>11. ASSUME g \in Back(Current(f)) PROVE Place(f, Entries(pointer), g) >= KeepLast
  <2>1. g \in Chain(f, index) /\ g \notin KeptOnChain(f, index, keeper.now)
    BY <1>2, <1>7, <1>9, <1>11 DEF LeftBehind
  <2>2. ~(Place(f, index, g) < KeepLast)
    BY <2>1 DEF KeptOnChain
  <2>3. Current(f) # None
    BY <1>5, FamilyNamed
  <2>4. Chain(f, Entries(pointer)) = Back(Current(f))
    BY <2>3 DEF Chain, Current
  <2>5. Chain(f, index) \ Back(g) \subseteq Chain(f, Entries(pointer)) \ Back(g)
    <3>1. {c} \in SUBSET Closure({Current(f)}, Priors)
      BY <1>6 DEF Back
    <3>2. {Current(f)} \in SUBSET Generations
      BY <1>4, <2>3, CurrentSelected
    <3>3. Back(c) \subseteq Back(Current(f))
      BY <3>1, <3>2, LinksType, ClosureWithin DEF Back
    <3> QED BY <1>7, <2>4, <3>3
  <2>6. /\ IsFiniteSet(Chain(f, Entries(pointer)) \ Back(g))
        /\ Place(f, Entries(pointer), g) \in Nat /\ Place(f, index, g) \in Nat
    <3>1. /\ IsFiniteSet(Chain(f, Entries(pointer)) \ Back(g))
          /\ IsFiniteSet(Chain(f, index) \ Back(g))
      BY RetentionAssumption, FS_Subset DEF Chain, Back, Closure, RetentionAssumption
    <3> QED BY <3>1, FS_CardinalityType DEF Place
  <2>7. Place(f, index, g) <= Place(f, Entries(pointer), g)
    BY <2>5, <2>6, FS_Subset DEF Place
  <2>8. KeepLast \in Nat
    BY RetentionAssumption DEF RetentionAssumption
  <2> QED BY <2>2, <2>6, <2>7, <2>8
<1> QED BY <1>9, <1>10, <1>11 DEF LeftBehind, Unneeded

LEMMA DoomedStep ==
    ASSUME HeldInv, OnwardInv, RetentionTypeOK', Grown, [RNext]_rvars
    PROVE  DoomedInv'
<1>1. keeper \in Keeper
  BY DEF HeldInv, OnwardInv, RetentionTypeOK
<1>2. ASSUME keeper'.doomed \subseteq keeper.doomed, keeper'.index = keeper.index
      PROVE  DoomedInv'
  <2> SUFFICES ASSUME NEW g \in keeper'.doomed, FoundIndexed(root[g].family)'
               PROVE  Unneeded(g)'
    BY DEF DoomedInv
  <2>1. g \in Generations /\ root[g] # None /\ root'[g] = root[g] /\ root[g].family \in Families
    BY <1>2, MarkedBuilt, PriorsAreOld DEF Grown
  <2>2. FoundIndexed(root[g].family)
    BY <1>2, <2>1, UnindexedGrows DEF FoundIndexed
  <2>3. Unneeded(g)
    BY <1>2, <2>2 DEF OnwardInv, DoomedInv
  <2>4. Current(root[g].family) # None
    BY <2>1, <2>2, FamilyNamed DEF FoundIndexed, HeldInv, IndexInv
  <2> QED BY <2>1, <2>3, <2>4, StableUnneeded
<1>3. CASE ReadIndex
  <2>1. keeper'.doomed = keeper.doomed /\ keeper.phase # "deleting"
    BY <1>1, <1>3 DEF ReadIndex, Keeper
  <2>2. keeper'.doomed = {}
    BY <2>1 DEF HeldInv, OnwardInv, RetentionTypeOK
  <2> QED BY <2>2 DEF DoomedInv
<1>4. CASE Mark
  <2>1. UNCHANGED <<pointer, root, stored, gone, unindexed>>
    BY <1>4 DEF Mark, vars
  <2>2. /\ Priors' = Priors /\ Parents' = Parents /\ Entries(pointer)' = Entries(pointer)
    BY <2>1 DEF Priors, Parents, Replaced, ParentsOf, Listed, Bucket
  <2> SUFFICES ASSUME NEW g \in keeper'.doomed, FoundIndexed(root[g].family)'
               PROVE  Unneeded(g)'
    BY DEF DoomedInv
  <2>3. keeper'.index = keeper.index
    BY <1>4, BothMark
  <2>4. Unneeded(g)
    BY <1>4, <2>1, <2>3, DoomedStarts DEF FoundIndexed
  <2> QED BY <2>1, <2>2, <2>4 DEF Unneeded, Obsolete, Current, WithParents, Back, Place, Chain
<1>5. CASE keeper' = RestingKeeper
  BY <1>5 DEF RestingKeeper, DoomedInv
<1>6. ASSUME NEW g \in Generations, keeper' = [keeper EXCEPT !.doomed = @ \ {g}] PROVE DoomedInv'
  BY <1>1, <1>2, <1>6 DEF Keeper
<1>7. CASE UNCHANGED keeper
  BY <1>2, <1>7
<1> QED BY <1>3, <1>4, <1>5, <1>6, <1>7, KeeperKinds

-----------------------------------------------------------------------------
LEMMA RetentionInit == RInit => RInv
<1> SUFFICES ASSUME RInit PROVE RInv
  OBVIOUS
<1>1. Inv /\ TypeOK
  BY InitInv DEF RInit, Inv
<1>2. /\ pointer = None /\ stored = {} /\ late = {} /\ pins = {} /\ gone = {} /\ unindexed = {}
      /\ root = [g \in Generations |-> None] /\ landed = {} /\ clock = 0
      /\ job = [w \in Writers |-> IdleJob] /\ written = [g \in Generations |-> 0]
      /\ keeper = RestingKeeper /\ inputs = [native |-> {}, sources |-> {}]
  BY DEF RInit, Init
<1>3. \A w \in Writers : job[w].phase = "idle"
  BY <1>2 DEF IdleJob
<1>4. \A f \in Families : Entries(pointer)[f] = None /\ Entries(keeper.index)[f] = None
  BY <1>2 DEF Entries, RestingKeeper
<1>5. RetentionTypeOK
  <2>1. 0 \in 0 .. MaxClock
    BY RetentionAssumption DEF RetentionAssumption
  <2>2. keeper \in Keeper /\ keeper.approved = {} /\ keeper.doomed = {}
    BY <1>2, RestingType DEF RestingKeeper
  <2> QED BY <1>1, <1>2, <2>1, <2>2 DEF RetentionTypeOK, Inputs
<1>6. EverSelected = {}
  BY <1>2 DEF EverSelected
<1>7. StoredBuilt /\ KnownParents
  BY <1>2, <1>3 DEF StoredBuilt, KnownParents
<1>8. NoRollbacks /\ MovesOn /\ OneHistory
  BY <1>2, <1>3, <1>6 DEF NoRollbacks, MovesOn, OneHistory, Free
<1>9. CurrentSettled /\ AwaitedWhole
  BY <1>2, <1>3, <1>4 DEF CurrentSettled, Current, AwaitedWhole, Awaited
<1>10. PinsInv /\ IndexInv /\ MarksInv /\ DoomedHeld /\ ReindexedInv /\ DoomedInv
  BY <1>2, <1>4 DEF PinsInv, IndexInv, MarksInv, DoomedHeld, ReindexedInv, DoomedInv, RestingKeeper
<1> QED BY <1>1, <1>5, <1>7, <1>8, <1>9, <1>10 DEF RInv, HeldInv, OnwardInv

LEMMA GrownStep ==
    ASSUME HeldInv, [RNext]_rvars
    PROVE  Inv' /\ RetentionTypeOK' /\ Grown /\ [Next]_vars
<1>1. Inv /\ TypeOK /\ RetentionTypeOK
  BY DEF HeldInv, Inv
<1>2. [Next]_vars
  BY RetentionProtocol
<1>3. Inv' /\ TypeOK' /\ Grown
  BY <1>1, <1>2, InvStep, Growth DEF Inv
<1> QED BY <1>1, <1>2, <1>3, RetentionTypeStep

LEMMA HeldStep == HeldInv /\ [RNext]_rvars => HeldInv'
<1> QED
  BY GrownStep, StoredBuiltStep, KnownParentsStep, PinsStep, IndexStep, MarksStep, DoomedHeldStep
  DEF HeldInv

LEMMA OnwardStep ==
    ASSUME Operators = {}, HeldInv, OnwardInv, [RNext]_rvars
    PROVE  OnwardInv'
<1> QED
  BY GrownStep, NoRollbacksStep, MovesOnStep, OneHistoryStep, CurrentSettledStep, AwaitedWholeStep, ReindexedStep,
     DoomedStep
  DEF OnwardInv

(* Retention leaves the protocol as its own specification has it, rollbacks
   included: every theorem about Publication holds beside it. *)
THEOREM RetentionKeepsTheProtocol == RSpec => Spec
<1>1. RInit => Init
  BY DEF RInit
<1> QED BY <1>1, RetentionProtocol, PTL DEF RSpec, Spec

(* What the deleting plan found it must keep stays out of its marks: an
   inductive invariant whoever writes, rollbacks included. *)
THEOREM HeldInvariance == RSpec => []HeldInv
<1> QED BY HeldStep, RetentionInit, PTL DEF RSpec, RInv

(* The whole inductive invariant holds where nobody rolls back. *)
THEOREM RetentionInvariance ==
    ASSUME Operators = {}
    PROVE  RSpec => []RInv
<1>1. RInv /\ [RNext]_rvars => RInv'
  BY HeldStep, OnwardStep DEF RInv
<1> QED BY <1>1, RetentionInit, PTL DEF RSpec

(* A member that goes from the bucket goes by the deletion of a doomed
   generation. *)
LEMMA LosingStep ==
    ASSUME HeldInv, [RNext]_rvars, NEW g \in Generations, NEW k \in Keys, <<g, k>> \in Bucket \ Bucket'
    PROVE  g \in keeper.doomed
<1>1. CASE PublicationStep
  <2>1. Bucket \subseteq Bucket'
    BY <1>1, GrownStep, BucketStep DEF HeldInv
  <2> QED BY <2>1
<1>2. ASSUME NEW d \in Generations, Deletes(d) PROVE g \in keeper.doomed
  <2>1. ASSUME g # d PROVE <<g, k>> \in Bucket'
    BY <1>2, <2>1 DEF Deletes, vars, Bucket
  <2> QED BY <1>2, <2>1 DEF Deletes
<1>3. CASE UNCHANGED <<vars, gone, written, unindexed>>
  BY <1>3 DEF vars, Bucket
<1> QED BY <1>1, <1>2, <1>3, StepKinds

LEMMA LosesDoomed ==
    ASSUME HeldInv, [RNext]_rvars, NEW g \in Generations, Loses(g)
    PROVE  g \in keeper.doomed
<1>1. \E k \in Keys : <<g, k>> \in Bucket \ Bucket'
  BY DEF Loses, Whole
<1> QED BY <1>1, LosingStep

(* Nothing that the deleting plan needs, nor what any of it was built from,
   loses a member, whatever is published, rolled back or pinned meanwhile.
   What the plan needs is the current generations and recent predecessors of
   the index it read, what the pins and the rulemaking snapshot's native inputs
   named, and the source-table inputs that are on a chain of that index: after
   a rollback a source-table input off the chain is not among them. *)
THEOREM PlanIsHeld == RSpec => PlanHolds
<1>1. ASSUME HeldInv, [RNext]_rvars, NEW g \in Generations, NEW k \in Keys,
             <<g, k>> \in Bucket \ Bucket'
      PROVE  g \notin WithParents(Needed)
  BY <1>1, LosingStep DEF HeldInv, DoomedHeld
<1>2. HeldInv /\ [RNext]_rvars =>
        [\A g \in Generations, k \in Keys : <<g, k>> \in Bucket \ Bucket' =>
            g \notin WithParents(Needed)]_rvars
  BY <1>1
<1> QED BY <1>2, HeldInvariance, PTL DEF RSpec, PlanHolds

(* Publishing loses no generation and forks no chain, and retention cuts none. *)
THEOREM HistoryIsOneChain ==
    ASSUME Operators = {}
    PROVE  RSpec => []OneHistory
<1>1. RInv => OneHistory
  BY DEF RInv, OnwardInv
<1> QED BY <1>1, RetentionInvariance, PTL

(* The current generation of a family that no plan missed keeps all its members. *)
THEOREM CurrentIsStored ==
    ASSUME Operators = {}
    PROVE  RSpec => []CurrentStored
<1>1. RInv => CurrentStored
  BY DEF RInv, OnwardInv, CurrentSettled, Settled, Current, CurrentStored
<1> QED BY <1>1, RetentionInvariance, PTL

(* No recent member of a current chain loses anything. *)
THEOREM RecentChainIsSpared ==
    ASSUME Operators = {}
    PROVE  RSpec => RecentChainSpared
<1>1. ASSUME RInv, [RNext]_rvars, NEW g \in Generations, Loses(g),
             NEW f \in Families, FoundIndexed(f), g \in Chain(f, Entries(pointer))
      PROVE  Place(f, Entries(pointer), g) >= KeepLast
  <2>1. Entries(pointer)[f] = Current(f) /\ Current(f) # None
    BY <1>1 DEF Chain, Current
  <2>2. g \in Back(Current(f))
    BY <1>1, <2>1 DEF Chain
  <2>3. root[g].family = f
    BY <1>1, <2>1, <2>2, CurrentSelected, BackInFamily DEF RInv
  <2>4. Unneeded(g)
    BY <1>1, <2>3, LosesDoomed DEF RInv, OnwardInv, DoomedInv
  <2> QED BY <2>2, <2>3, <2>4 DEF Unneeded
<1>2. RInv /\ [RNext]_rvars =>
        [\A g \in Generations : Loses(g) =>
            \A f \in Families :
                FoundIndexed(f) /\ g \in Chain(f, Entries(pointer)) =>
                    Place(f, Entries(pointer), g) >= KeepLast]_rvars
  BY <1>1
<1> QED BY <1>2, RetentionInvariance, PTL DEF RSpec, RecentChainSpared

(* Nothing that a current generation was built from loses anything. *)
THEOREM ParentsAreSpared ==
    ASSUME Operators = {}
    PROVE  RSpec => ParentsSpared
<1>1. ASSUME RInv, [RNext]_rvars, NEW g \in Generations, Loses(g), FoundIndexed(root[g].family),
             NEW f \in Families
      PROVE  g \notin WithParents({Entries(pointer)[f]} \cap Generations)
  BY <1>1, LosesDoomed DEF RInv, OnwardInv, DoomedInv, Unneeded, Current
<1>2. RInv /\ [RNext]_rvars =>
        [\A g \in Generations : Loses(g) /\ FoundIndexed(root[g].family) =>
            \A f \in Families : g \notin WithParents({Entries(pointer)[f]} \cap Generations)]_rvars
  BY <1>1
<1> QED BY <1>2, RetentionInvariance, PTL DEF RSpec, ParentsSpared
=============================================================================
