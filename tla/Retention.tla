------------------------------ MODULE Retention ------------------------------
(***************************************************************************)
(* generation_retention.py over the publication protocol: the weekly run   *)
(* plans which generations nothing needs, plans again, and deletes the     *)
(* members (never the roots) of those both plans mark, while publishers    *)
(* and operators go on.                                                    *)
(*                                                                         *)
(* Time is a clock that advances between writes.  No two generations are   *)
(* written at one instant (the store's timestamps have milliseconds).      *)
(* A chain step is the readSnapshot entry of the family itself, so what    *)
(* the code calls described is the chains of the index.  A source table an *)
(* input names by its bytes stands for the generations that hold them.     *)
(* A server-side copy that races another creates its object once, as an    *)
(* upload does: that it may renew a timestamp is left out.                 *)
(***************************************************************************)
EXTENDS Publication

CONSTANTS KeepLast,     \* KEEP_LAST
          Grace,        \* GRACE, in clock ticks
          MaxClock,     \* bound on the clock
          MaxPins       \* bound on the generations named outside the bucket's chains

ASSUME RetentionAssumption ==
    /\ IsFiniteSet(Generations)
    /\ KeepLast \in Nat \ {0}
    /\ Grace \in Nat
    /\ MaxClock \in Nat
    /\ MaxPins \in Nat

VARIABLES gone,         \* members that were uploaded and have been deleted since
          clock,
          written,      \* when each generation's newest object was written
          pins,         \* what the pin documents name: notes, DocSpec, archive
          inputs,       \* what the current rulemaking snapshot was built from
          keeper,       \* the retention run: its phase, what it read, its marks
          unindexed     \* history: families with deletions by a plan whose index lacked them

rvars == <<vars, gone, clock, written, pins, inputs, keeper, unindexed>>

Inputs == [native : SUBSET Generations, sources : SUBSET Generations]

Keeper == [phase    : {"idle", "indexed", "approved", "reindexed", "deleting"},
           index    : Index \cup {None},
           now      : Nat,
           pins     : SUBSET Generations,
           sources  : SUBSET Generations,
           approved : SUBSET Generations,
           doomed   : SUBSET Generations]

RestingKeeper == [phase |-> "idle", index |-> None, now |-> 0, pins |-> {},
                  sources |-> {}, approved |-> {}, doomed |-> {}]

RetentionTypeOK ==
    /\ TypeOK
    /\ clock \in 0 .. MaxClock
    /\ written \in [Generations -> 0 .. MaxClock]
    /\ pins \subseteq Generations
    /\ inputs \in Inputs
    /\ keeper \in Keeper
    /\ gone \subseteq Generations \X (Keys \ {RootKey})
    /\ unindexed \subseteq Families
    /\ keeper.approved # {} => keeper.phase \in {"approved", "reindexed"}
    /\ keeper.doomed # {} => keeper.phase = "deleting"

-----------------------------------------------------------------------------
(* Publication's stored is what was ever uploaded; the bucket holds the rest. *)
Bucket == stored \ gone

Whole(g) == \A k \in Keys : <<g, k>> \in Bucket

(* The plan's marks, from the index, the time and the pins it read first and
   the listing and the rulemaking inputs it reads now. *)

Listed == {g \in Generations : \E k \in Keys : <<g, k>> \in Bucket}
HasMembers(g) == \E k \in Keys \ {RootKey} : <<g, k>> \in Bucket
OfFamily(f) == {g \in Listed : root[g].family = f}

(* gens, where each of them leads by next, and so on. *)
Closure(gens, next) ==
    {h \in Generations : \A closed \in SUBSET Generations :
        gens \subseteq closed /\ (\A s \in closed : next[s] \subseteq closed) => h \in closed}

(* The generation a stored root states as the one it replaced, if listed. *)
Replaced(g) == IF <<g, RootKey>> \in Bucket THEN {root[g].prior} \cap Listed ELSE {}

(* g, what it replaced, what that replaced, and so on. *)
Priors == [g \in Generations |-> Replaced(g)]
Back(g) == Closure({g}, Priors)

Chain(f, index) == IF index[f] = None THEN {} ELSE Back(index[f])

(* How many places before the current generation g is on the chain. *)
Place(f, index, g) == Cardinality(Chain(f, index) \ Back(g))

(* A fault: the predecessors are counted one short. *)
KeptShort(f, index, now) ==
    {g \in Chain(f, index) : g = index[f] \/ Place(f, index, g) < KeepLast - 1}

KeptOnChain(f, index, now) ==
    {g \in Chain(f, index) :
        \/ Place(f, index, g) < KeepLast
        \/ \E h \in Chain(f, index) : g \in Replaced(h) /\ now - written[h] < Grace}

(* A fault: only the chain is kept. *)
NothingInFlight(f, index) == {}

InFlight(f, index) ==
    {g \in OfFamily(f) \ Chain(f, index) : written[g] > written[index[f]]}

Newest(f) ==
    {g \in OfFamily(f) : Cardinality({h \in OfFamily(f) : written[h] > written[g]}) < KeepLast}

KeptInFamily(f, index, now) ==
    IF index[f] = None THEN Newest(f)
    ELSE KeptOnChain(f, index, now) \cup InFlight(f, index)

(* The managed parents a stored root records, and theirs, transitively. *)
ParentsOf(g) ==
    IF <<g, RootKey>> \in Bucket THEN {root[g].parents[f] : f \in Families} \cap Listed ELSE {}

Parents == [g \in Generations |-> ParentsOf(g)]
WithParents(gens) == Closure(gens, Parents)

(* A fault: the parents of what is kept are not. *)
KeptAlone(index, now, pinned) ==
    (UNION {KeptInFamily(f, index, now) : f \in Families}) \cup (pinned \cap Listed)

Kept(index, now, pinned) ==
    WithParents((UNION {KeptInFamily(f, index, now) : f \in Families}) \cup (pinned \cap Listed))

Deletable(index, now, pinned) ==
    {g \in Listed \ Kept(index, now, pinned) : HasMembers(g)}

Described(index) == UNION {Chain(f, index) : f \in Families}

(* A pin and a native input keep whatever they name; a source table's bytes
   keep the generations that hold them where a chain of the index does. *)
Pinned(index) == keeper.pins \cup inputs.native \cup (inputs.sources \cap Described(index))

-----------------------------------------------------------------------------
RInit ==
    /\ Init
    /\ clock = 0
    /\ written = [g \in Generations |-> 0]
    /\ pins = {}
    /\ inputs = [native |-> {}, sources |-> {}]
    /\ keeper = RestingKeeper
    /\ gone = {}
    /\ unindexed = {}

(* Objects created by a publisher's step carry the present time. *)
Stamp ==
    LET fresh == {g \in Generations : \E k \in Keys : <<g, k>> \in Bucket' \ Bucket} IN
    /\ \A g \in fresh : \A h \in Listed \ {g} : written[h] < clock
    /\ written' = [g \in Generations |-> IF g \in fresh THEN clock ELSE written[g]]

(* The steps of the protocol that meet the bucket: an upload creates what is *)
(* missing, deleted or not; the read-back and the rollback's look at the     *)
(* objects find what is there.                                               *)
Uploads(w, key) == Upload(w, key) /\ gone' = gone \ {<<job[w].target, key>>}

ReadsBack(w) == Admit(w) /\ Whole(job[w].target) /\ UNCHANGED gone

RollsBack(w) ==
    \E f \in Families, g \in Entry, expected \in Entry :
        /\ StartRestore(w, f, g, expected)
        /\ <<g, TableKey>> \notin gone
        /\ UNCHANGED gone

Proceeds ==
    /\ \/ \E w \in Publishers : Builds(w) \/ Begin(w) \/ RefuseBuild(w) \/ Reread(w)
       \/ \E w \in Operators : RestoreRead(w)
       \/ \E w \in Writers : Swap(w) \/ TimeOut(w) \/ Fail(w)
       \/ \E put \in late : Arrive(put)
    /\ UNCHANGED gone

PublicationStep ==
    /\ \/ \E w \in Publishers : ReadsBack(w) \/ \E key \in Keys : Uploads(w, key)
       \/ \E w \in Operators : RollsBack(w)
       \/ Proceeds
    /\ Stamp
    /\ UNCHANGED <<clock, pins, inputs, keeper, unindexed>>

Tick ==
    /\ clock < MaxClock
    /\ clock' = clock + 1
    /\ UNCHANGED <<vars, gone, written, pins, inputs, keeper, unindexed>>

(* A pin document names one more; that one may drop a name is left out. *)
Pin(g) ==
    /\ Cardinality(pins) + Cardinality(inputs.native) + Cardinality(inputs.sources) < MaxPins
    /\ pins' = pins \cup {g}
    /\ UNCHANGED <<vars, gone, clock, written, inputs, keeper, unindexed>>

(* Another rulemaking snapshot becomes the current one. *)
Snapshot(native, sources) ==
    /\ Cardinality(pins) + Cardinality(native) + Cardinality(sources) <= MaxPins
    /\ inputs' = [native |-> native, sources |-> sources]
    /\ inputs' # inputs
    /\ UNCHANGED <<vars, gone, clock, written, pins, keeper, unindexed>>

(* main reads the pins and the time, plan reads the index ... *)
ReadIndex ==
    /\ keeper.phase \in {"idle", "approved"}
    /\ keeper' = [keeper EXCEPT
                    !.phase = IF keeper.phase = "idle" THEN "indexed" ELSE "reindexed",
                    !.index = pointer, !.now = clock, !.pins = pins]
    /\ UNCHANGED <<vars, gone, clock, written, pins, inputs, unindexed>>

(* A fault: the approved plan is executed as it stands. *)
MarkOnce ==
    LET index == Entries(keeper.index)
        marks == Deletable(index, keeper.now, Pinned(index))
    IN /\ keeper.phase \in {"indexed", "reindexed"}
       /\ keeper' = IF keeper.phase = "indexed"
                    THEN [RestingKeeper EXCEPT !.phase = "approved", !.approved = marks]
                    ELSE [keeper EXCEPT !.phase = "deleting", !.now = 0,
                                        !.pins = @ \cup inputs.native,
                                        !.sources = inputs.sources, !.approved = {},
                                        !.doomed = keeper.approved]
       /\ UNCHANGED <<vars, gone, clock, written, pins, inputs, unindexed>>

(* ... then lists the bucket, reads the roots and the rulemaking inputs, and
   marks; a current generation or a native input that is not there refuses.
   The first plan is the approved one, the second the fresh one; where they
   mark nothing, Finish follows. *)
Mark ==
    LET index == Entries(keeper.index)
        marks == Deletable(index, keeper.now, Pinned(index))
    IN /\ keeper.phase \in {"indexed", "reindexed"}
       /\ \A f \in Families : index[f] \in Listed \cup {None}
       /\ \A g \in inputs.native : HasMembers(g)
       /\ keeper' = IF keeper.phase = "indexed"
                    THEN [RestingKeeper EXCEPT !.phase = "approved", !.approved = marks]
                    ELSE [keeper EXCEPT !.phase = "deleting", !.now = 0,
                                        !.pins = @ \cup inputs.native,
                                        !.sources = inputs.sources, !.approved = {},
                                        !.doomed = keeper.approved \cap marks]
       /\ keeper'.approved \cup keeper'.doomed # {}
       /\ UNCHANGED <<vars, gone, clock, written, pins, inputs, unindexed>>

NoteDeletion(g) ==
    unindexed' = unindexed \cup {f \in Families : f = root[g].family /\ Entries(keeper.index)[f] = None}

(* execute deletes the members of one doomed prefix after another. *)
Delete(g) ==
    /\ keeper.phase = "deleting"
    /\ g \in keeper.doomed
    /\ gone' = gone \cup (Bucket \cap ({g} \X (Keys \ {RootKey})))
    /\ keeper' = IF keeper.doomed = {g} THEN RestingKeeper ELSE [keeper EXCEPT !.doomed = @ \ {g}]
    /\ NoteDeletion(g)
    /\ UNCHANGED <<vars, clock, written, pins, inputs>>

(* DeleteObjects reports errors for some keys: the run raises midway. *)
DeletePartly(g, keys) ==
    /\ keeper.phase = "deleting"
    /\ g \in keeper.doomed
    /\ gone' = gone \cup (Bucket \cap ({g} \X keys))
    /\ keeper' = RestingKeeper
    /\ NoteDeletion(g)
    /\ UNCHANGED <<vars, clock, written, pins, inputs>>

(* The run ends: it has nothing to delete, refused, or stopped anywhere. *)
Finish ==
    /\ keeper # RestingKeeper
    /\ keeper' = RestingKeeper
    /\ UNCHANGED <<vars, gone, clock, written, pins, inputs, unindexed>>

Retain ==
    \/ ReadIndex \/ Mark \/ Finish
    \/ \E g \in Generations :
          \/ Delete(g)
          \/ \E keys \in SUBSET (Keys \ {RootKey}) : DeletePartly(g, keys)

RNext ==
    \/ PublicationStep
    \/ Tick
    \/ \E g \in EverSelected : Pin(g)
    \/ \E native, sources \in SUBSET EverSelected : Snapshot(native, sources)
    \/ Retain

RSpec == RInit /\ [][RNext]_rvars

-----------------------------------------------------------------------------
(* Properties. *)

(* Publishing goes on while the retention run reads, lists and deletes in
   turn.  What a family names is stored from its selection on and stays so
   while it is current, also when it was uploaded by a publish still in
   flight during the plan, or left by a crash and resumed.  The families left
   out had a generation deleted by a plan that did not find them in the
   index: there only upload times protect what is about to be selected. *)
CurrentStored ==
    \A f \in Families \ unindexed :
        LET g == Entries(pointer)[f] IN g # None => Whole(g)

(* The step deletes a member of a generation that was all there. *)
Loses(g) == Whole(g) /\ ~Whole(g)'

(* The plan that deletes found f in the index, and so did those before it. *)
FoundIndexed(f) == f \notin unindexed /\ Entries(keeper.index)[f] # None

(* The run deletes no member of the current generation, nor of its
   KEEP_LAST - 1 predecessors, of a family its last plan found in the index,
   whatever was published after that plan read the index. *)
RecentChainSpared ==
    [][\A g \in Generations : Loses(g) =>
          \A f \in Families :
              FoundIndexed(f) /\ g \in Chain(f, Entries(pointer)) =>
                  Place(f, Entries(pointer), g) >= KeepLast]_rvars

(* "The managed parents a kept generation records, transitively, so its
   inputs stay readable": what the current generations were built from is
   spared, also for a generation selected after the plan read the index. *)
ParentsSpared ==
    [][\A g \in Generations : Loses(g) /\ FoundIndexed(root[g].family) =>
          \A f \in Families : g \notin WithParents({Entries(pointer)[f]} \cap Generations)]_rvars

(* The KEEP_LAST newest generations of every chain of an index. *)
Recent(index) ==
    UNION {{g \in Chain(f, index) : Place(f, index, g) < KeepLast} : f \in Families}

(* What the deleting plan keeps a generation for: the index it read, the pins
   and native inputs it read, and the source inputs on a chain of that index. *)
Needed ==
    LET index == Entries(keeper.index) IN
    Recent(index) \cup keeper.pins \cup (keeper.sources \cap Described(index))

(* Whatever is published, rolled back or pinned meanwhile, the run deletes no
   member of what the index its deleting plan read names, nor of the KEEP_LAST
   - 1 predecessors, nor of what the pins and the rulemaking snapshot's native
   inputs named when it read them, nor of a generation on a chain of that index
   that holds one of the snapshot's source tables, nor of any managed parent
   that one of these records, transitively.  (The run parents has nobody roll
   back; PlanIsHeld is for any number of operators.) *)
PlanHolds ==
    [][\A g \in Generations, k \in Keys : <<g, k>> \in Bucket \ Bucket' =>
          g \notin WithParents(Needed)]_rvars

(* restore_family points a family at "an earlier generation whose objects
   are still stored": what a rollback selects stays stored while selected. *)
RestoredIsStored ==
    \A f \in Families :
        LET g == Entries(pointer)[f] IN g # None => Whole(g)

-----------------------------------------------------------------------------
(* The inductive invariant.  HeldInv needs nothing of the writers: what the  *)
(* plan kept stays out of its marks.  OnwardInv holds where nobody rolls     *)
(* back (Operators = {}): what the marks say of the generations that are,    *)
(* or may become, current.                                                   *)

Current(f) == Entries(pointer)[f]

(* Neither current nor built on what is: it will not be current again. *)
Obsolete(g) == g # Current(root[g].family) /\ root[g].prior # Current(root[g].family)

(* Only built generations are stored; their roots may come after tables. *)
StoredBuilt == \A g \in Generations, k \in Keys : <<g, k>> \in stored => root[g] # None

KnownParents ==
    \A g \in Generations : root[g] # None =>
        \A h \in Families : root[g].parents[h] # None =>
            root[g].parents[h] \in EverSelected /\ root[root[g].parents[h]].family = h

PinsInv ==
    pins \cup inputs.native \cup inputs.sources \cup keeper.pins \cup keeper.sources
        \subseteq EverSelected

IndexInv ==
    \A f \in Families : Entries(keeper.index)[f] # None =>
        /\ Entries(keeper.index)[f] \in EverSelected
        /\ root[Entries(keeper.index)[f]].family = f

MarksInv == \A g \in keeper.approved \cup keeper.doomed : root[g] # None

DoomedHeld == \A g \in keeper.doomed : g \notin WithParents(Needed)

HeldInv ==
    /\ Inv
    /\ RetentionTypeOK
    /\ StoredBuilt
    /\ KnownParents
    /\ PinsInv
    /\ IndexInv
    /\ MarksInv
    /\ DoomedHeld

NoRollbacks ==
    /\ \A w \in Writers : ~Free(w) => ~job[w].restore
    /\ \A put \in late : ~put.restore

(* A family only moves on: nothing was ever selected on top of its current. *)
MovesOn ==
    \A g \in EverSelected : /\ Current(root[g].family) # None
                            /\ root[g].prior # Current(root[g].family)

(* Every generation a family ever named is on the chain retention walks from
   the one it names now, and no two of them replaced the same one: whoever
   races, no publish is lost and none forks the chain. *)
OneHistory ==
    /\ \A g \in EverSelected : g \in Chain(root[g].family, Entries(pointer))
    /\ \A g, h \in EverSelected :
           root[g].family = root[h].family /\ root[g].prior = root[h].prior => g = h

(* All there, and older than whatever is being built on it. *)
Settled(c) ==
    /\ Whole(c)
    /\ \A g \in Listed : root[g].prior = c /\ root[g].family = root[c].family =>
           written[g] > written[c]

CurrentSettled ==
    \A f \in Families \ unindexed : Current(f) # None => Settled(Current(f))

(* Read back, and the pointer may still move to it. *)
Awaited(g) ==
    \/ \E w \in Writers : job[w].phase \in {"swapping", "reread"} /\ job[w].target = g
    \/ \E put \in late : put.target = g

AwaitedWhole ==
    \A g \in Generations :
        Awaited(g) /\ root[g].family \notin unindexed /\ root[g].prior = Current(root[g].family) =>
            Whole(g)

Indexed == {Entries(keeper.index)[f] : f \in Families} \ {None}

(* What the first plan marked, seen from the entry c that the second one read:
   it will not be current again, and no more needs it than c and its index. *)
LeftBehind(g, c) ==
    /\ Obsolete(g)
    /\ g \in Back(Current(root[g].family)) => g \in Back(c)
    /\ \A f \in Families :
           g \in WithParents({Current(f)} \cap Generations) => g \in WithParents(Indexed)

ReindexedInv ==
    keeper.phase = "reindexed" =>
        \A f \in Families, c \in Generations :
            FoundIndexed(f) /\ c = Entries(keeper.index)[f] =>
                /\ Settled(c)
                /\ c \in Back(Current(f))
                /\ \A g \in Back(c) : root[g].prior # c
                /\ \A g \in keeper.approved : root[g].family = f =>
                       g = c \/ root[g].prior = c \/ LeftBehind(g, c)

(* What both plans marked: nothing current needs it. *)
Unneeded(g) ==
    /\ Obsolete(g)
    /\ \A f \in Families : g \notin WithParents({Current(f)} \cap Generations)
    /\ g \in Back(Current(root[g].family)) =>
           Place(root[g].family, Entries(pointer), g) >= KeepLast

DoomedInv == \A g \in keeper.doomed : FoundIndexed(root[g].family) => Unneeded(g)

OnwardInv ==
    /\ NoRollbacks
    /\ MovesOn
    /\ OneHistory
    /\ CurrentSettled
    /\ AwaitedWhole
    /\ ReindexedInv
    /\ DoomedInv

RInv == HeldInv /\ OnwardInv
=============================================================================
