----------------------------- MODULE RunnerProofs -----------------------------
(***************************************************************************)
(* Proofs about the operational runner, for every set of processes that a  *)
(* payload may fork and every number of closing rounds: of a reconciled    *)
(* run, of a build under audit and of a success nothing lives but what was *)
(* forked under the look that closed its phase.                            *)
(***************************************************************************)
EXTENDS OperationalRunner, TLAPS

Exits      == {"none", "zero", "failed"}
Candidates == {"open", "sealed", "changed"}

(* The parts of TypeOK that belong to the phases. *)
PhasesTyped ==
    /\ guardian \in [Phases -> Guardian]
    /\ live \in [Phases -> SUBSET Workers]
    /\ forked \in [Phases -> SUBSET Workers]
    /\ slipped \in [Phases -> SUBSET Kin]
    /\ working \in [Phases -> BOOLEAN]
    /\ exit \in [Phases -> Exits]
    /\ rec \in [Phases -> Records]

LEMMA Typed == TypeOK => PhasesTyped
  BY DEF TypeOK, PhasesTyped, Exits, Observed

(* No set of processes is taken for a missing record. *)
LEMMA NoneIsNoSet == \A known \in KnownSet : known # None
  BY RunnerAssumption DEF RunnerAssumption, KnownSet, Workers

LEMMA GoneTyped ==
    Gone \in Guardian /\ Gone.at = "gone" /\ Gone.known = {} /\ Gone.listing = None
<1>1. Start \in Guardian /\ Start.known = {} /\ Start.listing = None
  BY RunnerAssumption DEF Start, Guardian, KnownSet, RunnerAssumption
<1> QED BY <1>1 DEF Gone, Guardian

-----------------------------------------------------------------------------
(* Frames: what a step keeps when it touches one phase, or none.           *)

(* All that becomes of one phase. *)
PhaseBecomes(p, g, r, alive, started, slip, works) ==
    /\ guardian' = [guardian EXCEPT ![p] = g]
    /\ rec' = [rec EXCEPT ![p] = r]
    /\ live' = [live EXCEPT ![p] = alive]
    /\ forked' = [forked EXCEPT ![p] = started]
    /\ slipped' = [slipped EXCEPT ![p] = slip]
    /\ working' = [working EXCEPT ![p] = works]
    /\ exit' \in [Phases -> Exits]

LEMMA PhasesStep ==
    ASSUME PhasesTyped, PhasesInv, NEW p \in Phases,
           NEW g \in Guardian, NEW r \in Records, NEW alive \in SUBSET Workers,
           NEW started \in SUBSET Workers, NEW slip \in SUBSET Kin, NEW works \in BOOLEAN,
           PhaseBecomes(p, g, r, alive, started, slip, works),
           PhaseFacts(g, r, alive, started, works), LookFacts(g, r, alive, slip),
           slip \subseteq started
    PROVE  PhasesTyped' /\ PhasesInv'
<1>1. PhasesTyped'
  BY DEF PhasesTyped, PhaseBecomes
<1>2. ASSUME NEW q \in Phases
      PROVE  /\ PhaseFacts(guardian'[q], rec'[q], live'[q], forked'[q], working'[q])
             /\ LookFacts(guardian'[q], rec'[q], live'[q], slipped'[q])
             /\ slipped'[q] \subseteq forked'[q]
  <2>1. CASE q = p
    <3>1. /\ guardian'[q] = g /\ rec'[q] = r /\ live'[q] = alive
          /\ forked'[q] = started /\ slipped'[q] = slip /\ working'[q] = works
      BY <2>1 DEF PhasesTyped, PhaseBecomes
    <3> QED BY <3>1
  <2>2. CASE q # p
    <3>1. /\ guardian'[q] = guardian[q] /\ rec'[q] = rec[q] /\ live'[q] = live[q]
          /\ forked'[q] = forked[q] /\ slipped'[q] = slipped[q] /\ working'[q] = working[q]
      BY <2>2 DEF PhasesTyped, PhaseBecomes
    <3> QED BY <3>1 DEF PhasesInv
  <2> QED BY <2>1, <2>2
<1> QED BY <1>1, <1>2 DEF PhasesInv

(* Records only grow: what was launched, released or ended stays so. *)
Grown ==
    \A q \in Phases : /\ rec'[q].launch = rec[q].launch
                      /\ rec[q].terminal # None => rec'[q].terminal = rec[q].terminal

LEMMA ClosedStays ==
    ASSUME Grown, NEW q \in Phases, ClosedBy(rec[q])
    PROVE  ClosedBy(rec'[q]) /\ (rec[q].terminal = "passed" => rec'[q].terminal = "passed")
  BY RunnerAssumption DEF Grown, ClosedBy, RunnerAssumption

LEMMA OwnerStays ==
    ASSUME OwnerInv, Grown,
           owner \in Owner, owner' = owner, result' = result,
           \A q \in Phases : guardian[q].at = "none" => guardian'[q].at = "none" \/ owner.at # "spawn",
           \A q \in Phases : ClosedBy(rec[q]) => slipped[q] \subseteq slipped'[q],
           candidate' = candidate
             \/ \E q \in Phases : ~ClosedBy(rec[q]) \/ slipped'[q] # {}
    PROVE  OwnerInv'
<1>1. "build" \in Phases /\ "audit" \in Phases /\ owner.phase \in Phases
  BY DEF Phases, Owner
<1>2. \A q \in Phases : q \in {"build", "audit"}
  BY DEF Phases
<1>3. \A q \in Phases : ClosedBy(rec[q]) => ClosedBy(rec'[q])
  BY ClosedStays
<1>4. \A q \in Phases : rec[q].terminal = "passed" => rec'[q].terminal = "passed"
  BY ClosedStays DEF ClosedBy
<1>5. \A q \in Phases : rec'[q].launch = rec[q].launch
  BY DEF Grown
<1>6. Succeeded' => Succeeded
  BY DEF Succeeded
<1>7. ASSUME Succeeded
      PROVE  candidate' = "sealed" \/ \E q \in Phases : slipped'[q] # {}
  <2>1. /\ \A q \in Phases : ClosedBy(rec[q])
        /\ candidate = "sealed" \/ \E q \in Phases : slipped[q] # {}
    BY <1>2, <1>7 DEF OwnerInv
  <2> QED BY <2>1
<1> QED BY <1>1, <1>2, <1>3, <1>4, <1>5, <1>6, <1>7 DEF OwnerInv

(* What the observer has found of a phase stays true. *)
Keeps(q) ==
    /\ ~GuardianLive(q) => ~GuardianLive(q)'
    /\ Over(q) => Over(q)'
    /\ Looking(q) /\ ~GuardianLive(q) /\ live[q] \subseteq observer.listing \cup slipped[q] =>
           live'[q] \subseteq observer.listing \cup slipped'[q]

LEMMA ObserverStays ==
    ASSUME ObserverInv, observer \in Observer, observer' = observer, reported' = reported,
           ~OwnerLive => /\ ~OwnerLive' /\ Grown
                         /\ \A q \in Phases : rec'[q].release = rec[q].release /\ Keeps(q)
    PROVE  ObserverInv'
<1>1. CASE OwnerLive
  BY <1>1 DEF ObserverInv
<1>2. CASE ~OwnerLive
  <2>1. "build" \in Phases /\ observer.phase \in Phases
    BY DEF Phases, Observer
  <2>2. /\ ~OwnerLive'
        /\ \A q \in Phases : /\ rec'[q].release = rec[q].release
                             /\ rec'[q].launch = rec[q].launch
                             /\ rec[q].terminal # None => rec'[q].terminal = rec[q].terminal
                             /\ Over(q) => Over(q)'
                             /\ ~GuardianLive(q) => ~GuardianLive(q)'
    BY <1>2 DEF Grown, Keeps
  <2>3. ASSUME observer.at = "judge", observer.command = "reconcile", observer.listing # None
        PROVE  /\ ~GuardianLive(observer.phase)'
               /\ live'[observer.phase] \subseteq observer.listing \cup slipped'[observer.phase]
    <3>1. /\ ~GuardianLive(observer.phase) /\ Looking(observer.phase)
          /\ live[observer.phase] \subseteq observer.listing \cup slipped[observer.phase]
      BY <2>3 DEF ObserverInv, Looking
    <3> QED BY <1>2, <2>1, <2>2, <3>1 DEF Keeps
  <2>4. ("reconcile" \in reported => ~OwnerLive /\ \A q \in Phases : Over(q))'
    BY <2>2 DEF ObserverInv
  <2>5. ASSUME observer.at = "judge", observer.command = "reconcile"
        PROVE  /\ \A q \in Phases :
                     /\ observer.seen[q].launch = rec'[q].launch
                     /\ observer.seen[q].release = rec'[q].release
                     /\ observer.seen[q].terminal # None =>
                            observer.seen[q].terminal = rec'[q].terminal
               /\ observer.phase = "audit" => Over("build")'
    BY <2>1, <2>2, <2>5 DEF ObserverInv
  <2>7. (observer.at \in {"terminate", "reread", "judge"} => ~OwnerLive)'
    BY <2>2
  <2>8. (observer.at # "judge" => observer.phase = "build" /\ observer.listing = None)'
    BY DEF ObserverInv
  <2> QED BY <2>3, <2>4, <2>5, <2>7, <2>8 DEF ObserverInv, GuardianLive
<1> QED BY <1>1, <1>2

(* Once its guardian is lost, the living of a phase grow only by what is    *)
(* forked under a look or by a slipped process.                            *)
OnlySlips(p, alive, slip) ==
    IF GuardianLive(p)
      THEN live[p] = {} => alive = {}
      ELSE /\ alive \cap slipped[p] \subseteq slip
           /\ live[p] \subseteq slipped[p] => alive \subseteq slip
           /\ Looking(p) => alive \subseteq live[p] \cup slip

(* What a step of one phase may make of it. *)
PhaseMay(p, g, r, alive, started, slip, works) ==
    /\ PhaseFacts(g, r, alive, started, works) /\ LookFacts(g, r, alive, slip)
    /\ slip \subseteq started
    /\ GuardianLive(p) \/ g = guardian[p]
    /\ ~GuardianLive(p) => slipped[p] \subseteq slip
    /\ OwnerLive \/ OnlySlips(p, alive, slip)

(* A step of one phase's guardian or processes: the owner, its result and  *)
(* the observer look on.                                                   *)
LEMMA PhaseStep ==
    ASSUME Inv, NEW p \in Phases,
           NEW g \in Guardian, NEW r \in Records, NEW alive \in SUBSET Workers,
           NEW started \in SUBSET Workers, NEW slip \in SUBSET Kin, NEW works \in BOOLEAN,
           PhaseBecomes(p, g, r, alive, started, slip, works),
           PhaseMay(p, g, r, alive, started, slip, works),
           UNCHANGED <<owner, result, watchVars>>,
           candidate' \in Candidates, candidate' = candidate \/ live[p] # {},
           r.launch = rec[p].launch, r.release = rec[p].release,
           rec[p].terminal # None => r.terminal = rec[p].terminal
    PROVE  Inv'
<1>1. PhasesTyped /\ PhasesInv /\ OwnerInv /\ ObserverInv /\ owner \in Owner
      /\ observer \in Observer
  BY Typed DEF Inv, TypeOK
<1>2. PhasesTyped' /\ PhasesInv'
  BY <1>1, PhasesStep DEF PhaseMay
<1>3. TypeOK'
  BY <1>2 DEF Inv, TypeOK, PhasesTyped, Exits, Candidates, Observed, watchVars
<1>4. Grown /\ \A q \in Phases : rec'[q].release = rec[q].release
  BY <1>1 DEF PhasesTyped, PhaseBecomes, Grown
<1>5. \A q \in Phases : guardian[q].at = "none" => guardian'[q].at = "none"
  BY <1>1 DEF PhasesTyped, PhaseBecomes, PhaseMay, GuardianLive
<1>6. ClosedBy(rec[p]) => /\ ~GuardianLive(p) /\ live[p] \subseteq slipped[p]
                          /\ slipped[p] \subseteq slip
  BY <1>1, RunnerAssumption
     DEF PhasesInv, PhaseMay, PhaseFacts, LookFacts, ClosedBy, GuardianLive, RunnerAssumption
<1>7. OwnerInv'
  <2>1. \A q \in Phases : ClosedBy(rec[q]) => slipped[q] \subseteq slipped'[q]
    BY <1>1, <1>6 DEF PhasesTyped, PhaseBecomes
  <2>2. slipped'[p] = slip
    BY <1>1 DEF PhasesTyped, PhaseBecomes
  <2>3. candidate' = candidate \/ \E q \in Phases : ~ClosedBy(rec[q]) \/ slipped'[q] # {}
    BY <1>6, <2>2
  <2> QED BY <1>1, <1>4, <1>5, <2>1, <2>3, OwnerStays
<1>8. ASSUME ~OwnerLive, NEW q \in Phases
      PROVE  Keeps(q)
  <2>1. CASE q # p
    <3>1. guardian'[q] = guardian[q] /\ live'[q] = live[q] /\ slipped'[q] = slipped[q]
      BY <1>1, <2>1 DEF PhasesTyped, PhaseBecomes
    <3> QED BY <3>1 DEF Keeps, GuardianLive, Over, Quiet
  <2>2. CASE q = p
    <3>1. guardian'[q] = g /\ live'[q] = alive /\ slipped'[q] = slip
      BY <1>1, <2>2 DEF PhasesTyped, PhaseBecomes
    <3>2. OnlySlips(q, alive, slip)
      BY <1>8, <2>2 DEF PhaseMay
    <3>3. ~GuardianLive(q) => ~GuardianLive(q)'
      BY <2>2, <3>1 DEF GuardianLive, PhaseMay
    <3>4. Over(q) => Over(q)'
      BY <3>1, <3>2, <3>3 DEF Over, Quiet, OnlySlips
    <3>5. ASSUME Looking(q), ~GuardianLive(q),
                 live[q] \subseteq observer.listing \cup slipped[q]
          PROVE  live'[q] \subseteq observer.listing \cup slipped'[q]
      BY <2>2, <3>1, <3>2, <3>5 DEF OnlySlips
    <3> QED BY <3>3, <3>4, <3>5 DEF Keeps
  <2> QED BY <2>1, <2>2
<1>9. ObserverInv'
  BY <1>1, <1>4, <1>8, ObserverStays DEF OwnerLive, watchVars
<1> QED BY <1>2, <1>3, <1>7, <1>9 DEF Inv

LEMMA IdleTyped ==
    /\ Idle \in Observer /\ Nothing \in Observed
    /\ Idle.at = "idle" /\ Idle.phase = "build" /\ Idle.listing = None
<1>1. Blank \in Records
  BY RunnerAssumption DEF Blank, Records, KnownSet, RunnerAssumption
<1>2. Nothing \in Observed
  BY <1>1 DEF Nothing, Observed
<1> QED BY <1>2 DEF Idle, Observer, Phases

LEMMA InitInv == Init => Inv
<1> SUFFICES ASSUME Init PROVE Inv
  OBVIOUS
<1> USE DEF Init
<1>1. Start \in Guardian /\ Blank \in Records
  BY RunnerAssumption DEF Start, Guardian, Blank, Records, KnownSet, RunnerAssumption
<1>3. TypeOK
  BY <1>1, IdleTyped, RunnerAssumption DEF TypeOK, Owner, Phases
<1>4. \A p \in Phases : PhaseFacts(guardian[p], rec[p], live[p], forked[p], working[p])
  BY RunnerAssumption DEF PhaseFacts, Start, Nothing, Blank, ClosedBy, RunnerAssumption
<1>5. \A p \in Phases : /\ LookFacts(guardian[p], rec[p], live[p], slipped[p])
                        /\ slipped[p] \subseteq forked[p]
  BY RunnerAssumption DEF LookFacts, Start, Nothing, Blank, ClosedBy, RunnerAssumption
<1>6. OwnerInv
  BY RunnerAssumption DEF OwnerInv, Succeeded, Nothing, Blank, ClosedBy, Phases, RunnerAssumption
<1>7. ObserverInv
  BY IdleTyped DEF ObserverInv
<1> QED BY <1>3, <1>4, <1>5, <1>6, <1>7 DEF Inv, PhasesInv

-----------------------------------------------------------------------------
(* The guardian. *)

(* What the invariant says of one phase. *)
Holds(p) ==
    /\ PhasesTyped
    /\ guardian[p] \in Guardian /\ rec[p] \in Records
    /\ live[p] \in SUBSET Workers /\ forked[p] \in SUBSET Workers
    /\ slipped[p] \in SUBSET Kin /\ slipped[p] \subseteq forked[p]
    /\ working[p] \in BOOLEAN /\ exit[p] \in Exits
    /\ PhaseFacts(guardian[p], rec[p], live[p], forked[p], working[p])
    /\ LookFacts(guardian[p], rec[p], live[p], slipped[p])

LEMMA PhaseHolds ==
    ASSUME Inv, NEW p \in Phases
    PROVE  Holds(p)
<1>1. PhasesTyped /\ PhasesInv
  BY Typed DEF Inv
<1> QED BY <1>1 DEF Holds, PhasesTyped, PhasesInv

(* The guardian alone moves, and may leave records. *)
LEMMA GuardianMoves ==
    ASSUME Inv, NEW p \in Phases, NEW g \in Guardian, NEW r \in Records,
           GuardianLive(p),
           guardian' = [guardian EXCEPT ![p] = g],
           rec' = [rec EXCEPT ![p] = r],
           UNCHANGED <<ownerVars, workerVars, watchVars>>,
           PhaseFacts(g, r, live[p], forked[p], working[p]),
           LookFacts(g, r, live[p], slipped[p]),
           r.launch = rec[p].launch, r.release = rec[p].release,
           rec[p].terminal # None => r.terminal = rec[p].terminal
    PROVE  Inv'
<1>0. Holds(p)
  BY PhaseHolds
<1>1. PhaseBecomes(p, g, r, live[p], forked[p], slipped[p], working[p])
  BY <1>0 DEF Holds, workerVars, PhasesTyped, PhaseBecomes
<1>2. candidate' \in Candidates /\ (candidate' = candidate \/ live[p] # {})
  BY DEF ownerVars, Inv, TypeOK, Candidates
<1>3. UNCHANGED <<owner, result, watchVars>>
  BY DEF ownerVars
<1>4. /\ live[p] \in SUBSET Workers /\ forked[p] \in SUBSET Workers /\ working[p] \in BOOLEAN
      /\ slipped[p] \in SUBSET Kin /\ slipped[p] \subseteq forked[p]
  BY <1>0 DEF Holds
<1>5. PhaseMay(p, g, r, live[p], forked[p], slipped[p], working[p])
  BY <1>4 DEF PhaseMay, OnlySlips
<1> QED BY <1>1, <1>2, <1>3, <1>4, <1>5, PhaseStep

LEMMA IdentifyInv == ASSUME Inv, NEW p \in Phases, Identify(p) PROVE Inv'
<1> DEFINE g == [guardian[p] EXCEPT !.at = "waiting"]
           r == [rec[p] EXCEPT !.child = {}]
<1>0. Holds(p)
  BY PhaseHolds
<1>1. guardian' = [guardian EXCEPT ![p] = g] /\ rec' = [rec EXCEPT ![p] = r]
  BY <1>0 DEF Identify, Move, Holds, PhasesTyped
<1>2. /\ guardian[p].at = "started" /\ GuardianLive(p)
      /\ UNCHANGED <<ownerVars, workerVars, watchVars>>
  BY DEF Identify, At, GuardianLive
<1>3. g \in Guardian /\ r \in Records
  BY <1>0 DEF Holds, Guardian, Records, KnownSet
<1>4. PhaseFacts(g, r, live[p], forked[p], working[p])
  BY <1>0, <1>2, NoneIsNoSet DEF Holds, PhaseFacts, Guardian, Records, KnownSet
<1>5. LookFacts(g, r, live[p], slipped[p])
  BY <1>0, <1>2 DEF Holds, LookFacts, Guardian, Records, ClosedBy
<1>6. /\ r.launch = rec[p].launch /\ r.release = rec[p].release
      /\ rec[p].terminal # None => r.terminal = rec[p].terminal
  BY <1>0 DEF Holds, Records
<1> HIDE DEF g, r
<1> QED BY <1>1, <1>2, <1>3, <1>4, <1>5, <1>6, GuardianMoves

LEMMA RecordPayloadInv == ASSUME Inv, NEW p \in Phases, RecordPayload(p) PROVE Inv'
<1> DEFINE g == [guardian[p] EXCEPT !.at = "identified", !.known = {"payload"}]
           r == [rec[p] EXCEPT !.child = {"payload"}]
<1>0. Holds(p)
  BY PhaseHolds
<1>1. guardian' = [guardian EXCEPT ![p] = g] /\ rec' = [rec EXCEPT ![p] = r]
  BY <1>0 DEF RecordPayload, Holds, PhasesTyped
<1>2. /\ guardian[p].at = "spawned" /\ GuardianLive(p)
      /\ UNCHANGED <<ownerVars, workerVars, watchVars>>
  BY DEF RecordPayload, At, GuardianLive
<1>3. g \in Guardian /\ r \in Records /\ {"payload"} \in KnownSet
  BY <1>0 DEF Holds, Guardian, Records, KnownSet, Workers
<1>4. PhaseFacts(g, r, live[p], forked[p], working[p])
  BY <1>0, <1>2, <1>3, NoneIsNoSet DEF Holds, PhaseFacts, Guardian, Records
<1>5. LookFacts(g, r, live[p], slipped[p])
  BY <1>0, <1>2 DEF Holds, LookFacts, Guardian, Records, ClosedBy
<1>6. /\ r.launch = rec[p].launch /\ r.release = rec[p].release
      /\ rec[p].terminal # None => r.terminal = rec[p].terminal
  BY <1>0 DEF Holds, Records
<1> HIDE DEF g, r
<1> QED BY <1>1, <1>2, <1>3, <1>4, <1>5, <1>6, GuardianMoves

LEMMA ReleasePayloadInv == ASSUME Inv, NEW p \in Phases, ReleasePayload(p) PROVE Inv'
<1> DEFINE g == [guardian[p] EXCEPT !.at = "running"]
           r == [rec[p] EXCEPT !.payloadRelease = TRUE]
<1>0. Holds(p)
  BY PhaseHolds
<1>1. guardian' = [guardian EXCEPT ![p] = g] /\ rec' = [rec EXCEPT ![p] = r]
  BY <1>0 DEF ReleasePayload, Move, Holds, PhasesTyped
<1>2. /\ guardian[p].at = "identified" /\ GuardianLive(p)
      /\ UNCHANGED <<ownerVars, workerVars, watchVars>>
  BY DEF ReleasePayload, At, GuardianLive
<1>3. g \in Guardian /\ r \in Records
  BY <1>0 DEF Holds, Guardian, Records
<1>4. PhaseFacts(g, r, live[p], forked[p], working[p])
  BY <1>0, <1>2, NoneIsNoSet DEF Holds, PhaseFacts, Guardian, Records
<1>5. LookFacts(g, r, live[p], slipped[p])
  BY <1>0, <1>2 DEF Holds, LookFacts, Guardian, Records, ClosedBy
<1>6. /\ r.launch = rec[p].launch /\ r.release = rec[p].release
      /\ rec[p].terminal # None => r.terminal = rec[p].terminal
  BY <1>0 DEF Holds, Records
<1> HIDE DEF g, r
<1> QED BY <1>1, <1>2, <1>3, <1>4, <1>5, <1>6, GuardianMoves

(* The guardian goes on without a record. *)
LEMMA GuardianTurns ==
    ASSUME Inv, NEW p \in Phases, NEW g \in Guardian, GuardianLive(p),
           guardian' = [guardian EXCEPT ![p] = g],
           UNCHANGED <<ownerVars, workerVars, rec, watchVars>>,
           PhaseFacts(g, rec[p], live[p], forked[p], working[p]),
           LookFacts(g, rec[p], live[p], slipped[p])
    PROVE  Inv'
<1>0. Holds(p)
  BY PhaseHolds
<1>1. rec' = [rec EXCEPT ![p] = rec[p]] /\ rec[p] \in Records
  BY <1>0 DEF Holds, PhasesTyped
<1> QED BY <1>1, GuardianMoves

LEMMA PayloadEndedInv == ASSUME Inv, NEW p \in Phases, PayloadEnded(p) PROVE Inv'
<1> DEFINE g == [guardian[p] EXCEPT !.at = "closing", !.listing = None,
                                    !.ok = Members(p) = {} /\ exit[p] = "zero"]
<1>0. Holds(p)
  BY PhaseHolds
<1>1. guardian' = [guardian EXCEPT ![p] = g]
  BY <1>0 DEF PayloadEnded, Holds, PhasesTyped
<1>2. /\ guardian[p].at = "running" /\ GuardianLive(p)
      /\ UNCHANGED <<ownerVars, workerVars, rec, watchVars>>
  BY DEF PayloadEnded, At, GuardianLive
<1>3. g \in Guardian
  BY <1>0 DEF Holds, Guardian
<1>4. PhaseFacts(g, rec[p], live[p], forked[p], working[p])
  BY <1>0, <1>2 DEF Holds, PhaseFacts, Guardian
<1>5. LookFacts(g, rec[p], live[p], slipped[p])
  BY <1>0, <1>2 DEF Holds, LookFacts, Guardian
<1> QED BY <1>0, <1>1, <1>2, <1>3, <1>4, <1>5, GuardianTurns

(* Fail, and with it Abandon and the owner's SIGTERM. *)
LEMMA FailInv ==
    ASSUME Inv, NEW p \in Phases,
           guardian[p].at \in {"waiting", "spawned", "identified", "running"},
           guardian' = [guardian EXCEPT ![p].at = "closing", ![p].listing = None, ![p].ok = FALSE],
           UNCHANGED <<ownerVars, workerVars, rec, watchVars>>
    PROVE  Inv'
<1> DEFINE g == [guardian[p] EXCEPT !.at = "closing", !.listing = None, !.ok = FALSE]
<1>0. Holds(p)
  BY PhaseHolds
<1>1. guardian' = [guardian EXCEPT ![p] = g]
  BY <1>0 DEF Holds, PhasesTyped
<1>2. GuardianLive(p)
  BY DEF GuardianLive
<1>3. g \in Guardian
  BY <1>0 DEF Holds, Guardian
<1>4. PhaseFacts(g, rec[p], live[p], forked[p], working[p])
  BY <1>0 DEF Holds, PhaseFacts, Guardian
<1>5. LookFacts(g, rec[p], live[p], slipped[p])
  BY <1>0 DEF Holds, LookFacts, Guardian
<1> QED BY <1>0, <1>1, <1>2, <1>3, <1>4, <1>5, GuardianTurns

(* A guardian that is killed, wherever it is. *)
LEMMA GuardianKilledInv == ASSUME Inv, NEW p \in Phases, GuardianKilled(p) PROVE Inv'
<1>0. Holds(p)
  BY PhaseHolds
<1>1. /\ guardian' = [guardian EXCEPT ![p] = Gone] /\ guardian[p].at # "none"
      /\ GuardianLive(p) /\ UNCHANGED <<ownerVars, workerVars, rec, watchVars>>
  BY DEF GuardianKilled, GuardianLive
<1>3. PhaseFacts(Gone, rec[p], live[p], forked[p], working[p])
  BY <1>0, <1>1, GoneTyped DEF Holds, PhaseFacts
<1>4. LookFacts(Gone, rec[p], live[p], slipped[p])
  BY <1>0, GoneTyped DEF Holds, LookFacts
<1> QED BY <1>1, <1>3, <1>4, GoneTyped, GuardianTurns

LEMMA DiscoverTyped ==
    ASSUME NEW p \in Phases, Holds(p), Listed(p)
    PROVE  /\ guardian[p].known \cup Members(p) \in KnownSet
           /\ guardian[p].known \cup Members(p) \subseteq forked[p]
           /\ guardian[p].listing \in KnownSet
           /\ live[p] \subseteq (guardian[p].known \cup Members(p)) \cup slipped[p]
<1>1. guardian[p].listing \in KnownSet
  BY DEF Holds, Listed, Guardian
<1>2. Members(p) \subseteq live[p] /\ live[p] \subseteq Members(p) \cup slipped[p]
  BY DEF Holds, Listed, LookFacts, Members
<1> QED BY <1>1, <1>2 DEF Holds, Guardian, KnownSet, PhaseFacts

(* The guardian records what its look found, and goes on. *)
LEMMA DiscoverInv ==
    ASSUME Inv, NEW p \in Phases, guardian[p].at \in {"running", "closing"}, Listed(p),
           NEW step \in {"running", "killing", "writing"},
           NEW listing \in {None} \cup KnownSet,
           listing = None \/ (step = "writing" /\ listing = guardian[p].listing),
           step = "writing" => listing = guardian[p].listing,
           step = "killing" => guardian[p].rounds # CloseRounds,
           Discover(p, step, listing)
    PROVE  Inv'
<1> DEFINE all == guardian[p].known \cup Members(p)
           g == [guardian[p] EXCEPT !.at = step, !.known = all, !.listing = listing]
           r == [rec[p] EXCEPT !.child = all]
<1>0. Holds(p)
  BY PhaseHolds
<1>1. guardian' = [guardian EXCEPT ![p] = g] /\ rec' = [rec EXCEPT ![p] = r]
  BY <1>0 DEF Discover, Holds, PhasesTyped
<1>2. GuardianLive(p) /\ UNCHANGED <<ownerVars, workerVars, watchVars>>
  BY DEF Discover, GuardianLive
<1>a. /\ all \in KnownSet /\ all \subseteq forked[p] /\ guardian[p].known \subseteq all
      /\ live[p] \subseteq all \cup slipped[p]
  BY <1>0, DiscoverTyped
<1> HIDE DEF all
<1>3. /\ g \in Guardian /\ g.at = step /\ g.known = all /\ g.listing = listing
      /\ g.rounds = guardian[p].rounds
  BY <1>0, <1>a DEF Holds, Guardian
<1>b. /\ r \in Records /\ r.child = all /\ r.launch = rec[p].launch
      /\ r.release = rec[p].release /\ r.payloadRelease = rec[p].payloadRelease
      /\ r.terminal = rec[p].terminal
  BY <1>0, <1>a DEF Holds, Records
<1> HIDE DEF g, r
<1>c. all # None /\ guardian[p].at \notin {"none", "started", "gone"}
  BY <1>a, NoneIsNoSet
<1>4. PhaseFacts(g, r, live[p], forked[p], working[p])
  BY <1>0, <1>a, <1>b, <1>c, <1>3 DEF Holds, PhaseFacts
<1>5. LookFacts(g, r, live[p], slipped[p])
  BY <1>0, <1>a, <1>b, <1>3 DEF Holds, LookFacts, Listed, ClosedBy
<1> QED BY <1>1, <1>2, <1>3, <1>4, <1>5, <1>b, GuardianMoves

LEMMA WatchInv == ASSUME Inv, NEW p \in Phases, Watch(p) PROVE Inv'
  BY DiscoverInv DEF Watch, At

LEMMA CloseRoundInv == ASSUME Inv, NEW p \in Phases, CloseRound(p) PROVE Inv'
<1>1. guardian[p].at = "closing" /\ Listed(p)
  BY DEF CloseRound, At
<1>2. guardian[p].listing \in KnownSet
  BY <1>1, PhaseHolds, DiscoverTyped
<1>3. CASE Members(p) = {} \/ guardian[p].rounds = CloseRounds
  <2>1. Discover(p, "writing", guardian[p].listing)
    BY <1>3 DEF CloseRound
  <2> QED BY <1>1, <1>2, <2>1, DiscoverInv
<1>4. CASE ~(Members(p) = {} \/ guardian[p].rounds = CloseRounds)
  <2>1. Discover(p, "killing", None)
    BY <1>4 DEF CloseRound
  <2> QED BY <1>1, <1>4, <2>1, DiscoverInv
<1> QED BY <1>3, <1>4

(* A terminal record that says closed leaves only slipped processes. *)
LEMMA WriteTerminalInv == ASSUME Inv, NEW p \in Phases, WriteTerminal(p) PROVE Inv'
<1>0. Holds(p)
  BY PhaseHolds
<1>1. PICK cleaned \in BOOLEAN :
          rec' = [rec EXCEPT ![p].terminal =
                    IF ~cleaned \/ guardian[p].known \cap live[p] # {} THEN "open"
                    ELSE IF guardian[p].ok THEN "passed" ELSE "closed"]
  BY DEF WriteTerminal
<1> DEFINE end == IF ~cleaned \/ guardian[p].known \cap live[p] # {} THEN "open"
                  ELSE IF guardian[p].ok THEN "passed" ELSE "closed"
           r == [rec[p] EXCEPT !.terminal = end]
<1>2. /\ guardian' = [guardian EXCEPT ![p] = Gone] /\ rec' = [rec EXCEPT ![p] = r]
      /\ guardian[p].at = "writing" /\ GuardianLive(p)
      /\ UNCHANGED <<ownerVars, workerVars, watchVars>>
  BY <1>0, <1>1 DEF WriteTerminal, At, Holds, PhasesTyped, GuardianLive
<1>4. /\ end \in {"passed", "closed", "open"}
      /\ end # "open" => guardian[p].known \cap live[p] = {}
  OBVIOUS
<1>5. end # "open" => live[p] \subseteq slipped[p]
  BY <1>0, <1>2, <1>4 DEF Holds, LookFacts
<1> HIDE DEF end
<1>6. /\ r \in Records /\ r.terminal = end /\ r.child = rec[p].child
      /\ r.launch = rec[p].launch /\ r.release = rec[p].release
      /\ r.payloadRelease = rec[p].payloadRelease
  BY <1>0, <1>4 DEF Holds, Records
<1>7. rec[p].terminal = None
  BY <1>0, <1>2 DEF Holds, PhaseFacts
<1> HIDE DEF r
<1>8. PhaseFacts(Gone, r, live[p], forked[p], working[p])
  BY <1>0, <1>2, <1>6, GoneTyped DEF Holds, PhaseFacts
<1>9. LookFacts(Gone, r, live[p], slipped[p])
  BY <1>5, <1>6, GoneTyped DEF LookFacts, ClosedBy
<1> QED BY <1>2, <1>6, <1>7, <1>8, <1>9, GoneTyped, GuardianMoves

(* A step of the phase's processes without a record. *)
LEMMA PhaseTurns ==
    ASSUME Inv, NEW p \in Phases, NEW g \in Guardian, NEW alive \in SUBSET Workers,
           NEW started \in SUBSET Workers, NEW slip \in SUBSET Kin, NEW works \in BOOLEAN,
           PhaseBecomes(p, g, rec[p], alive, started, slip, works),
           UNCHANGED <<owner, result, watchVars>>,
           candidate' \in Candidates, candidate' = candidate \/ live[p] # {},
           PhaseMay(p, g, rec[p], alive, started, slip, works)
    PROVE  Inv'
<1>0. Holds(p)
  BY PhaseHolds
<1>1. rec[p] \in Records
  BY <1>0 DEF Holds
<1> QED BY <1>1, PhaseStep

(* A look begins: all that lives is listed, and nothing has slipped yet. *)
LEMMA ListInv == ASSUME Inv, NEW p \in Phases, List(p) PROVE Inv'
<1> DEFINE g == [guardian[p] EXCEPT !.listing = live[p]]
<1>0. Holds(p)
  BY PhaseHolds
<1>1. PhaseBecomes(p, g, rec[p], live[p], forked[p], {}, working[p])
  BY <1>0 DEF List, Holds, PhasesTyped, PhaseBecomes
<1>2. /\ guardian[p].at \in {"closing", "running"} /\ GuardianLive(p)
      /\ UNCHANGED <<owner, result, watchVars>>
      /\ candidate' = candidate /\ candidate \in Candidates
  BY DEF List, At, GuardianLive, ownerVars, Inv, TypeOK, Candidates
<1>3. g \in Guardian /\ g.at = guardian[p].at /\ g.known = guardian[p].known
      /\ g.rounds = guardian[p].rounds /\ g.listing = live[p]
  BY <1>0 DEF Holds, Guardian, KnownSet
<1>4. PhaseFacts(g, rec[p], live[p], forked[p], working[p])
  BY <1>0, <1>2, <1>3 DEF Holds, PhaseFacts
<1>5. rec[p].terminal = None
  BY <1>0, <1>2 DEF Holds, PhaseFacts
<1>6. LookFacts(g, rec[p], live[p], {})
  BY <1>2, <1>3, <1>5, RunnerAssumption DEF LookFacts, ClosedBy, RunnerAssumption
<1>7. /\ live[p] \in SUBSET Workers /\ forked[p] \in SUBSET Workers /\ working[p] \in BOOLEAN
      /\ {} \in SUBSET Kin
  BY <1>0 DEF Holds
<1>8. PhaseMay(p, g, rec[p], live[p], forked[p], {}, working[p])
  BY <1>2, <1>4, <1>6 DEF PhaseMay, OnlySlips
<1> HIDE DEF g
<1> QED BY <1>1, <1>2, <1>3, <1>7, <1>8, PhaseTurns

LEMMA StartPayloadInv == ASSUME Inv, NEW p \in Phases, StartPayload(p) PROVE Inv'
<1> DEFINE g == [guardian[p] EXCEPT !.at = "spawned"]
           alive == live[p] \cup {"payload"}
           started == forked[p] \cup {"payload"}
<1>0. Holds(p)
  BY PhaseHolds
<1>1. PhaseBecomes(p, g, rec[p], alive, started, slipped[p], working[p])
  BY <1>0 DEF StartPayload, Move, Holds, PhasesTyped, PhaseBecomes
<1>2. /\ guardian[p].at = "waiting" /\ GuardianLive(p) /\ rec[p].release /\ OwnerLive
      /\ UNCHANGED <<owner, result, rec, watchVars>> /\ candidate' = candidate
      /\ candidate \in Candidates
  BY DEF StartPayload, At, GuardianLive, ownerVars, Inv, TypeOK, Candidates
<1>3. g \in Guardian /\ alive \in SUBSET Workers /\ started \in SUBSET Workers
  BY <1>0 DEF Holds, Guardian, Workers
<1>4. PhaseFacts(g, rec[p], alive, started, working[p])
  BY <1>0, <1>2, RunnerAssumption DEF Holds, PhaseFacts, Guardian, Records, RunnerAssumption
<1>5. rec[p].terminal = None /\ guardian[p].listing = None
  BY <1>0, <1>2 DEF Holds, PhaseFacts, LookFacts
<1>6. LookFacts(g, rec[p], alive, slipped[p])
  BY <1>0, <1>5, RunnerAssumption DEF Holds, LookFacts, Guardian, ClosedBy, RunnerAssumption
<1>7. /\ working[p] \in BOOLEAN /\ slipped[p] \in SUBSET Kin
      /\ slipped[p] \subseteq started
  BY <1>0 DEF Holds
<1> HIDE DEF g, alive, started
<1>8. PhaseMay(p, g, rec[p], alive, started, slipped[p], working[p])
  BY <1>2, <1>4, <1>6, <1>7 DEF PhaseMay
<1> QED BY <1>1, <1>2, <1>3, <1>7, <1>8, PhaseTurns

LEMMA TerminateInv == ASSUME Inv, NEW p \in Phases, Terminate(p) PROVE Inv'
<1>0. Holds(p)
  BY PhaseHolds
<1>r. PICK rounds \in {guardian[p].rounds + 1, CloseRounds} :
          guardian' = [guardian EXCEPT ![p].at = "closing", ![p].rounds = rounds]
  BY DEF Terminate
<1> DEFINE g == [guardian[p] EXCEPT !.at = "closing", !.rounds = rounds]
           alive == live[p] \ guardian[p].known
<1>1. PhaseBecomes(p, g, rec[p], alive, forked[p], slipped[p], working[p])
  BY <1>0, <1>r DEF Terminate, Holds, PhasesTyped, PhaseBecomes
<1>2. /\ guardian[p].at = "killing" /\ GuardianLive(p)
      /\ UNCHANGED <<owner, result, rec, watchVars>> /\ candidate' = candidate
      /\ candidate \in Candidates
  BY DEF Terminate, At, GuardianLive, ownerVars, Inv, TypeOK, Candidates
<1>3. rounds \in 0..CloseRounds
  <2>1. /\ guardian[p].rounds \in 0..CloseRounds /\ CloseRounds \in Nat \ {0}
        /\ guardian[p].rounds # CloseRounds
    BY <1>0, <1>2, RunnerAssumption DEF Holds, PhaseFacts, Guardian, RunnerAssumption
  <2> QED BY <2>1
<1>4. /\ g \in Guardian /\ g.at = "closing" /\ g.rounds = rounds
      /\ g.known = guardian[p].known /\ g.listing = guardian[p].listing
  BY <1>0, <1>3 DEF Holds, Guardian
<1>5. alive \in SUBSET Workers /\ alive \subseteq live[p]
  BY <1>0 DEF Holds
<1> HIDE DEF g, alive
<1>6. PhaseFacts(g, rec[p], alive, forked[p], working[p])
  BY <1>0, <1>2, <1>4, <1>5 DEF Holds, PhaseFacts
<1>7. LookFacts(g, rec[p], alive, slipped[p])
  BY <1>0, <1>2, <1>4, <1>5 DEF Holds, LookFacts
<1>8. /\ forked[p] \in SUBSET Workers /\ working[p] \in BOOLEAN
      /\ slipped[p] \in SUBSET Kin /\ slipped[p] \subseteq forked[p]
  BY <1>0 DEF Holds
<1>9. PhaseMay(p, g, rec[p], alive, forked[p], slipped[p], working[p])
  BY <1>2, <1>5, <1>6, <1>7, <1>8 DEF PhaseMay, OnlySlips
<1> QED BY <1>1, <1>2, <1>4, <1>5, <1>8, <1>9, PhaseTurns

-----------------------------------------------------------------------------
(* The payload and what it forks. *)

(* What the payload's processes may do to one another. *)
WorkersMay(p, alive, started, slip, works) ==
    /\ alive \subseteq started /\ forked[p] \subseteq started
    /\ live[p] = {} => alive = {}
    /\ forked[p] = {} => started = {}
    /\ slip \subseteq started /\ slipped[p] \subseteq slip
    /\ live[p] \subseteq slipped[p] => alive \subseteq slip
    /\ Looking(p) => alive \subseteq live[p] \cup slip
    /\ works => working[p] \/ rec[p].payloadRelease

(* They move while the guardian stays where it is. *)
LEMMA WorkersMove ==
    ASSUME Inv, NEW p \in Phases, NEW alive \in SUBSET Workers,
           NEW started \in SUBSET Workers, NEW slip \in SUBSET Kin, NEW works \in BOOLEAN,
           PhaseBecomes(p, guardian[p], rec[p], alive, started, slip, works),
           UNCHANGED <<owner, result, watchVars>>,
           candidate' \in Candidates, candidate' = candidate \/ live[p] # {},
           WorkersMay(p, alive, started, slip, works)
    PROVE  Inv'
<1>0. Holds(p)
  BY PhaseHolds
<1>1. guardian[p] \in Guardian
  BY <1>0 DEF Holds
<1>2. PhaseFacts(guardian[p], rec[p], alive, started, works)
  BY <1>0 DEF Holds, PhaseFacts, WorkersMay
<1>3. LookFacts(guardian[p], rec[p], alive, slip)
  BY <1>0 DEF Holds, LookFacts, Looking, Listed, WorkersMay
<1>4. PhaseMay(p, guardian[p], rec[p], alive, started, slip, works)
  BY <1>2, <1>3 DEF PhaseMay, WorkersMay, OnlySlips
<1> QED BY <1>1, <1>4, PhaseTurns

(* None is started, and none slips. *)
LEMMA WorkersDwindle ==
    ASSUME Inv, NEW p \in Phases, NEW alive \in SUBSET live[p], NEW works \in BOOLEAN,
           live' = [live EXCEPT ![p] = alive],
           working' = [working EXCEPT ![p] = works],
           exit' \in [Phases -> Exits],
           UNCHANGED <<owner, result, guardian, forked, slipped, rec, watchVars>>,
           candidate' \in Candidates, candidate' = candidate \/ live[p] # {},
           works => working[p] \/ rec[p].payloadRelease
    PROVE  Inv'
<1>0. Holds(p)
  BY PhaseHolds
<1>1. /\ PhaseBecomes(p, guardian[p], rec[p], alive, forked[p], slipped[p], works)
      /\ forked[p] \in SUBSET Workers
      /\ slipped[p] \in SUBSET Kin /\ slipped[p] \subseteq forked[p]
  BY <1>0 DEF Holds, PhasesTyped, PhaseBecomes
<1>2. alive \in SUBSET Workers /\ alive \subseteq forked[p] /\ alive \subseteq live[p]
  BY <1>0 DEF Holds, PhaseFacts
<1>3. UNCHANGED <<owner, result, watchVars>>
  OBVIOUS
<1>4. WorkersMay(p, alive, forked[p], slipped[p], works)
  BY <1>1, <1>2 DEF WorkersMay
<1> QED BY <1>1, <1>2, <1>3, <1>4, WorkersMove

LEMMA StartWorkInv == ASSUME Inv, NEW p \in Phases, StartWork(p) PROVE Inv'
<1>0. Holds(p)
  BY PhaseHolds
<1>1. /\ live' = [live EXCEPT ![p] = live[p]]
      /\ working' = [working EXCEPT ![p] = TRUE]
      /\ exit' \in [Phases -> Exits]
  BY <1>0 DEF StartWork, Holds, PhasesTyped
<1>2. /\ UNCHANGED <<owner, result, guardian, forked, slipped, rec, watchVars>>
      /\ candidate' = candidate /\ candidate \in Candidates
      /\ rec[p].payloadRelease
  BY DEF StartWork, ownerVars, Inv, TypeOK, Candidates
<1> QED BY <1>1, <1>2, WorkersDwindle

LEMMA LoseParentInv == ASSUME Inv, NEW p \in Phases, LoseParent(p) PROVE Inv'
<1>0. Holds(p)
  BY PhaseHolds
<1>1. /\ live' = [live EXCEPT ![p] = live[p] \ {"payload"}]
      /\ working' = [working EXCEPT ![p] = working[p]] /\ working[p] \in BOOLEAN
      /\ exit' \in [Phases -> Exits]
  BY <1>0 DEF LoseParent, Holds, PhasesTyped, Exits
<1>2. /\ UNCHANGED <<owner, result, guardian, forked, slipped, rec, watchVars>>
      /\ candidate' = candidate /\ candidate \in Candidates
  BY DEF LoseParent, ownerVars, Inv, TypeOK, Candidates
<1>3. live[p] \ {"payload"} \in SUBSET live[p]
  OBVIOUS
<1> QED BY <1>1, <1>2, <1>3, WorkersDwindle

LEMMA ForkInv == ASSUME Inv, NEW p \in Phases, Fork(p) PROVE Inv'
<1>0. Holds(p)
  BY PhaseHolds
<1>1. PICK parent \in live[p], k \in Kin \ forked[p] :
         /\ live' = [live EXCEPT ![p] = @ \cup {k}]
         /\ forked' = [forked EXCEPT ![p] = @ \cup {k}]
         /\ slipped' = [slipped EXCEPT ![p] =
                          @ \cup {s \in {k} : Looking(p) \/ parent \in slipped[p]}]
  BY DEF Fork
<1> DEFINE alive == live[p] \cup {k}
           started == forked[p] \cup {k}
           slip == slipped[p] \cup {s \in {k} : Looking(p) \/ parent \in slipped[p]}
<1>2. PhaseBecomes(p, guardian[p], rec[p], alive, started, slip, working[p])
  BY <1>0, <1>1 DEF Fork, Holds, PhasesTyped, PhaseBecomes
<1>3. /\ UNCHANGED <<owner, result, watchVars>>
      /\ candidate' = candidate /\ candidate \in Candidates
  BY DEF Fork, ownerVars, Inv, TypeOK, Candidates
<1>4. /\ alive \in SUBSET Workers /\ started \in SUBSET Workers /\ slip \in SUBSET Kin
      /\ working[p] \in BOOLEAN
  BY <1>0 DEF Holds, Workers
<1>5. /\ alive \subseteq started /\ forked[p] \subseteq started
      /\ live[p] # {} /\ forked[p] # {}
      /\ slip \subseteq started /\ slipped[p] \subseteq slip
  BY <1>0 DEF Holds, PhaseFacts
<1>6. Looking(p) => alive \subseteq live[p] \cup slip
  OBVIOUS
<1>7. live[p] \subseteq slipped[p] => alive \subseteq slip
  OBVIOUS
<1> HIDE DEF alive, started, slip
<1>8. WorkersMay(p, alive, started, slip, working[p])
  BY <1>5, <1>6, <1>7 DEF WorkersMay
<1> QED BY <1>2, <1>3, <1>4, <1>8, WorkersMove

LEMMA WriteCandidateInv == ASSUME Inv, NEW p \in Phases, WriteCandidate(p) PROVE Inv'
<1>0. Holds(p)
  BY PhaseHolds
<1>1. /\ live' = [live EXCEPT ![p] = live[p]]
      /\ working' = [working EXCEPT ![p] = working[p]] /\ working[p] \in BOOLEAN
      /\ exit' \in [Phases -> Exits]
  BY <1>0 DEF WriteCandidate, workerVars, Holds, PhasesTyped
<1>2. /\ UNCHANGED <<owner, result, guardian, forked, slipped, rec, watchVars>>
      /\ candidate' \in Candidates /\ live[p] # {}
  BY DEF WriteCandidate, workerVars, Candidates
<1> QED BY <1>1, <1>2, WorkersDwindle

LEMMA WorkerExitsInv == ASSUME Inv, NEW p \in Phases, WorkerExits(p) PROVE Inv'
<1>0. Holds(p)
  BY PhaseHolds
<1>1. PICK w \in live[p] :
          /\ live' = [live EXCEPT ![p] = @ \ {w}]
          /\ IF w = "payload" THEN \E code \in {"zero", "failed"} : exit' = [exit EXCEPT ![p] = code]
                              ELSE UNCHANGED exit
  BY DEF WorkerExits
<1>2. /\ live' = [live EXCEPT ![p] = live[p] \ {w}]
      /\ working' = [working EXCEPT ![p] = working[p]] /\ working[p] \in BOOLEAN
  BY <1>0, <1>1 DEF WorkerExits, Holds, PhasesTyped
<1>3. exit' \in [Phases -> Exits]
  BY <1>0, <1>1 DEF Holds, PhasesTyped, Exits
<1>4. /\ UNCHANGED <<owner, result, guardian, forked, slipped, rec, watchVars>>
      /\ candidate' = candidate /\ candidate \in Candidates
  BY DEF WorkerExits, ownerVars, Inv, TypeOK, Candidates
<1>5. live[p] \ {w} \in SUBSET live[p]
  OBVIOUS
<1> QED BY <1>2, <1>3, <1>4, <1>5, WorkersDwindle

LEMMA UnchangedInv == Inv /\ UNCHANGED vars => Inv'
<1> SUFFICES ASSUME Inv, UNCHANGED vars PROVE Inv'
  OBVIOUS
<1> USE DEF vars
<1>1. TypeOK'
  BY DEF Inv, TypeOK
<1>2. PhasesInv'
  BY DEF Inv, PhasesInv
<1>3. OwnerInv'
  BY DEF Inv, OwnerInv, Succeeded
<1>4. ObserverInv'
  BY DEF Inv, ObserverInv, OwnerLive, GuardianLive, Over, Quiet
<1> QED BY <1>1, <1>2, <1>3, <1>4 DEF Inv

-----------------------------------------------------------------------------
(* The owner. *)

(* While the owner lives, it has left no result, and nobody has reconciled  *)
(* the run or is past the check that the owner is dead.                     *)
LEMMA WhileOwnerLives ==
    ASSUME Inv, OwnerLive
    PROVE  /\ result = None /\ OwnerInv /\ PhasesTyped /\ PhasesInv /\ owner \in Owner
           /\ UNCHANGED watchVars => ObserverInv'
           /\ None # "built-and-audited" /\ candidate \in Candidates
           /\ None # "passed" /\ None # "closed"
  BY Typed, RunnerAssumption
     DEF Inv, OwnerInv, ObserverInv, OwnerLive, watchVars, TypeOK, Candidates, RunnerAssumption

(* The owner moves and leaves the phases alone. *)
LEMMA OwnerTurns ==
    ASSUME Inv, OwnerLive, owner' \in Owner, candidate' \in Candidates,
           result' \in {None, "failed", "built-and-audited"},
           UNCHANGED <<guardian, workerVars, rec, watchVars>>, OwnerInv'
    PROVE  Inv'
<1>1. PhasesInv' /\ PhasesTyped'
  BY WhileOwnerLives DEF PhasesInv, PhasesTyped, workerVars
<1>2. ObserverInv'
  BY WhileOwnerLives
<1>3. TypeOK'
  BY <1>1 DEF Inv, TypeOK, PhasesTyped, Exits, Candidates, Observed, watchVars
<1> QED BY <1>1, <1>2, <1>3 DEF Inv

(* What the processes of a phase leave alone when one is terminated. *)
progress == <<forked, slipped, working, exit>>

(* The owner moves, and so does one phase. *)
LEMMA OwnerAndPhase ==
    ASSUME Inv, OwnerLive, owner' \in Owner, NEW p \in Phases,
           NEW g \in Guardian, NEW r \in Records, NEW alive \in SUBSET Workers,
           guardian' = [guardian EXCEPT ![p] = g],
           rec' = [rec EXCEPT ![p] = r],
           live' = [live EXCEPT ![p] = alive],
           UNCHANGED <<progress, candidate, result, watchVars>>,
           PhaseFacts(g, r, alive, forked[p], working[p]), LookFacts(g, r, alive, slipped[p]),
           OwnerInv'
    PROVE  Inv'
<1>1. PhasesTyped /\ PhasesInv
  BY WhileOwnerLives
<1>2. /\ PhaseBecomes(p, g, r, alive, forked[p], slipped[p], working[p])
      /\ forked[p] \in SUBSET Workers /\ working[p] \in BOOLEAN
      /\ slipped[p] \in SUBSET Kin /\ slipped[p] \subseteq forked[p]
  BY <1>1 DEF PhasesTyped, PhasesInv, progress, PhaseBecomes
<1>3. PhasesInv' /\ PhasesTyped'
  BY <1>1, <1>2, PhasesStep
<1>4. ObserverInv'
  BY WhileOwnerLives
<1>5. TypeOK'
  BY <1>3 DEF Inv, TypeOK, PhasesTyped, Exits, Candidates, Observed, watchVars
<1> QED BY <1>3, <1>4, <1>5 DEF Inv

LEMMA LaunchInv == ASSUME Inv, Launch PROVE Inv'
<1> DEFINE p == owner.phase
           r == [rec[p] EXCEPT !.launch = TRUE]
<1>1. /\ OwnerLive /\ owner.at = "launch" /\ rec[p] = Blank
      /\ owner' = [owner EXCEPT !.at = "spawn"]
      /\ UNCHANGED <<guardian, workerVars, candidate, result, watchVars>>
  BY DEF Launch, OwnerLive, GoTo
<1>2. p \in Phases /\ owner' \in Owner /\ owner'.at = "spawn" /\ owner'.phase = p
  BY <1>1, WhileOwnerLives DEF Owner
<1>3. Holds(p)
  BY <1>2, PhaseHolds
<1>4. rec' = [rec EXCEPT ![p] = r]
  BY <1>2, <1>3 DEF Launch, Holds, PhasesTyped
<1>a. ~rec[p].launch /\ rec[p].terminal = None
  BY <1>1 DEF Blank
<1>b. /\ r \in Records /\ r.launch /\ r.child = rec[p].child /\ r.release = rec[p].release
      /\ r.payloadRelease = rec[p].payloadRelease /\ r.terminal = rec[p].terminal
  BY <1>3 DEF Holds, Records
<1>5. /\ r \in Records /\ r.launch /\ r.child = rec[p].child /\ r.release = rec[p].release
      /\ r.payloadRelease = rec[p].payloadRelease /\ r.terminal = rec[p].terminal
      /\ ~rec[p].launch /\ rec[p].terminal = None
  BY <1>a, <1>b
<1>6. guardian[p].at = "none"
  BY <1>3, <1>5 DEF Holds, PhaseFacts
<1>7. PhaseFacts(guardian[p], r, live[p], forked[p], working[p])
  BY <1>3, <1>5 DEF Holds, PhaseFacts
<1>8. LookFacts(guardian[p], r, live[p], slipped[p])
  BY <1>3, <1>5 DEF Holds, LookFacts, ClosedBy
<1>9. /\ guardian' = [guardian EXCEPT ![p] = guardian[p]] /\ guardian[p] \in Guardian
      /\ live' = [live EXCEPT ![p] = live[p]] /\ live[p] \in SUBSET Workers
      /\ UNCHANGED <<progress, candidate, result, watchVars>>
  BY <1>1, <1>3 DEF Holds, PhasesTyped, workerVars, progress
<1>10. OwnerInv'
  <2>1. \A q \in Phases : q # p => rec'[q] = rec[q]
    BY <1>3, <1>4 DEF Holds, PhasesTyped
  <2>2. rec'[p] = r /\ guardian'[p] = guardian[p]
    BY <1>1, <1>2, <1>3, <1>4 DEF Holds, PhasesTyped
  <2>3. OwnerInv /\ result' = None /\ None \notin {"passed", "closed", "built-and-audited"}
    BY <1>1, WhileOwnerLives
  <2>4. owner.phase = "audit" \/ rec["audit"].launch => ClosedBy(rec["build"])
    BY <2>3 DEF OwnerInv
  <2>5. ~ClosedBy(rec[p])
    BY <1>5, <2>3 DEF ClosedBy
  <2>6. p = "build" \/ p = "audit"
    BY <1>2 DEF Phases
  <2>7. owner'.phase = "audit" \/ rec'["audit"].launch => ClosedBy(rec'["build"])
    <3>1. CASE p = "build"
      BY <3>1, <2>1, <2>4, <2>5, <1>2 DEF Phases
    <3>2. CASE p = "audit"
      BY <3>2, <2>1, <2>4 DEF Phases
    <3> QED BY <2>6, <3>1, <3>2
  <2>8. owner'.at = "spawn" => rec'[owner'.phase].launch /\ guardian'[owner'.phase].at = "none"
    BY <2>2, <1>2, <1>5, <1>6
  <2> HIDE DEF p, r
  <2> QED BY <2>3, <2>7, <2>8, <1>2 DEF OwnerInv, Succeeded
<1> HIDE DEF p, r
<1> QED BY <1>1, <1>2, <1>4, <1>5, <1>7, <1>8, <1>9, <1>10, OwnerAndPhase

LEMMA SpawnGuardianInv == ASSUME Inv, SpawnGuardian PROVE Inv'
<1> DEFINE p == owner.phase
           g == [guardian[p] EXCEPT !.at = "started"]
<1>1. /\ OwnerLive /\ owner.at = "spawn"
      /\ owner' = [owner EXCEPT !.at = "startup"]
      /\ UNCHANGED <<workerVars, rec, candidate, result, watchVars>>
  BY DEF SpawnGuardian, OwnerLive, GoTo
<1>2. p \in Phases /\ owner' \in Owner /\ owner'.at = "startup" /\ owner'.phase = p
  BY <1>1, WhileOwnerLives DEF Owner
<1>3. Holds(p)
  BY <1>2, PhaseHolds
<1>4. guardian' = [guardian EXCEPT ![p] = g]
  BY <1>3 DEF SpawnGuardian, Holds, PhasesTyped
<1>5. rec[p].launch /\ guardian[p].at = "none"
  BY <1>1, WhileOwnerLives DEF OwnerInv
<1>6. /\ g \in Guardian /\ g.at = "started" /\ g.listing = None /\ g.known = {}
  BY <1>3, <1>5 DEF Holds, PhaseFacts, Start, Guardian
<1>7. PhaseFacts(g, rec[p], live[p], forked[p], working[p])
  BY <1>3, <1>5, <1>6 DEF Holds, PhaseFacts
<1>8. LookFacts(g, rec[p], live[p], slipped[p])
  BY <1>3, <1>6 DEF Holds, LookFacts
<1>9. /\ rec' = [rec EXCEPT ![p] = rec[p]] /\ rec[p] \in Records
      /\ live' = [live EXCEPT ![p] = live[p]] /\ live[p] \in SUBSET Workers
      /\ UNCHANGED <<progress, candidate, result, watchVars>>
  BY <1>1, <1>3 DEF Holds, PhasesTyped, workerVars, progress
<1>10. OwnerInv'
  BY <1>1, <1>2, WhileOwnerLives DEF OwnerInv, Succeeded
<1> HIDE DEF p, g
<1> QED BY <1>1, <1>2, <1>4, <1>6, <1>7, <1>8, <1>9, <1>10, OwnerAndPhase

(* An owner that breaks off has no success to report. *)
LEMMA BreakInv ==
    ASSUME Inv, OwnerLive, NEW step \in {"stop", "finish"}, Break(step),
           UNCHANGED <<guardian, workerVars, rec, candidate, result, watchVars>>
    PROVE  Inv'
<1>1. owner' \in Owner /\ owner'.at = step /\ owner'.phase = owner.phase /\ ~owner'.ok
  BY WhileOwnerLives DEF Owner, Break
<1>2. OwnerInv'
  BY <1>1, WhileOwnerLives DEF OwnerInv, Succeeded
<1>3. candidate' \in Candidates /\ result' \in {None, "failed", "built-and-audited"}
  BY WhileOwnerLives
<1> QED BY <1>1, <1>2, <1>3, OwnerTurns

LEMMA ReleaseInv == ASSUME Inv, Release PROVE Inv'
<1> DEFINE p == owner.phase
           r == [rec[p] EXCEPT !.release = TRUE]
<1>1. /\ OwnerLive /\ owner.at = "startup"
      /\ UNCHANGED <<guardian, workerVars, candidate, result, watchVars>>
  BY DEF Release, OwnerLive
<1>2. CASE rec[p].child = None
  BY <1>1, <1>2, BreakInv DEF Release
<1>3. CASE rec[p].child # None
  <2>1. p \in Phases
    BY <1>1, WhileOwnerLives DEF Owner
  <2>2. owner' = [owner EXCEPT !.at = "wait"]
    BY <1>3 DEF Release, GoTo
  <2>a. owner' \in Owner /\ owner'.at = "wait" /\ owner'.phase = p
    BY <1>1, <2>2, WhileOwnerLives DEF Owner
  <2>3. Holds(p)
    BY <2>1, PhaseHolds
  <2>4. rec' = [rec EXCEPT ![p] = r]
    BY <2>3, <1>3 DEF Release, Holds, PhasesTyped
  <2>5. /\ r \in Records /\ r.launch = rec[p].launch /\ r.child = rec[p].child /\ r.release
        /\ r.payloadRelease = rec[p].payloadRelease /\ r.terminal = rec[p].terminal
    BY <2>3 DEF Holds, Records
  <2>6. PhaseFacts(guardian[p], r, live[p], forked[p], working[p])
    BY <1>3, <2>3, <2>5 DEF Holds, PhaseFacts
  <2>7. LookFacts(guardian[p], r, live[p], slipped[p])
    BY <2>3, <2>5 DEF Holds, LookFacts, ClosedBy
  <2>8. /\ guardian' = [guardian EXCEPT ![p] = guardian[p]] /\ guardian[p] \in Guardian
        /\ live' = [live EXCEPT ![p] = live[p]] /\ live[p] \in SUBSET Workers
        /\ UNCHANGED <<progress, candidate, result, watchVars>>
    BY <1>1, <2>3 DEF Holds, PhasesTyped, workerVars, progress
  <2>9. \A q \in Phases : /\ rec'[q].launch = rec[q].launch
                          /\ rec'[q].terminal = rec[q].terminal
    BY <2>3, <2>4, <2>5 DEF Holds, PhasesTyped
  <2>10. "build" \in Phases /\ "audit" \in Phases
    BY DEF Phases
  <2> HIDE DEF p, r
  <2>11. OwnerInv'
    BY <1>1, <2>a, <2>9, <2>10, WhileOwnerLives DEF OwnerInv, Succeeded, ClosedBy, p
  <2> QED BY <1>1, <2>1, <2>a, <2>4, <2>5, <2>6, <2>7, <2>8, <2>11, OwnerAndPhase
<1> QED BY <1>2, <1>3

LEMMA GuardianExitedInv == ASSUME Inv, GuardianExited PROVE Inv'
<1>1. /\ OwnerLive /\ owner.at = "wait"
      /\ UNCHANGED <<guardian, workerVars, rec, candidate, result, watchVars>>
  BY DEF GuardianExited, OwnerLive
<1>2. CASE rec[owner.phase].terminal # "passed"
  BY <1>1, <1>2, BreakInv DEF GuardianExited
<1>3. CASE rec[owner.phase].terminal = "passed"
  <2>1. owner' = [owner EXCEPT !.at = "stop"]
    BY <1>3 DEF GuardianExited, GoTo
  <2>2. owner' \in Owner /\ owner'.at = "stop" /\ owner'.phase = owner.phase
    BY <1>1, <2>1, WhileOwnerLives DEF Owner
  <2>3. OwnerInv'
    BY <1>1, <1>3, <2>2, WhileOwnerLives DEF OwnerInv, Succeeded
  <2>4. candidate' \in Candidates /\ result' \in {None, "failed", "built-and-audited"}
    BY <1>1, WhileOwnerLives
  <2> QED BY <1>1, <2>2, <2>3, <2>4, OwnerTurns
<1> QED BY <1>2, <1>3

LEMMA GiveUpInv == ASSUME Inv, GiveUp PROVE Inv'
<1>1. OwnerLive
  BY DEF GiveUp, OwnerLive
<1>2. \E step \in {"stop", "finish"} : Break(step)
  BY DEF GiveUp
<1> QED BY <1>1, <1>2, BreakInv DEF GiveUp

LEMMA StopGuardianInv == ASSUME Inv, StopGuardian PROVE Inv'
<1> DEFINE p == owner.phase
<1>1. /\ OwnerLive /\ owner.at = "stop"
      /\ UNCHANGED <<workerVars, rec, candidate, result, watchVars>>
  BY DEF StopGuardian, OwnerLive
<1>2. p \in Phases
  BY <1>1, WhileOwnerLives DEF Owner
<1>3. Holds(p)
  BY <1>2, PhaseHolds
<1>4. CASE guardian[p].at = "gone"
  <2>1. guardian' = guardian
    BY <1>3, <1>4 DEF StopGuardian, Holds, PhasesTyped
  <2>2. owner' = [owner EXCEPT !.at = "orphans"]
    BY <1>4 DEF StopGuardian, GoTo
  <2>3. owner' \in Owner /\ owner'.at = "orphans" /\ owner'.phase = p /\ owner'.ok = owner.ok
    BY <1>1, <2>2, WhileOwnerLives DEF Owner
  <2>4. OwnerInv'
    BY <1>1, <2>1, <2>3, WhileOwnerLives DEF OwnerInv, Succeeded
  <2>5. candidate' \in Candidates /\ result' \in {None, "failed", "built-and-audited"}
    BY <1>1, WhileOwnerLives
  <2> QED BY <1>1, <2>1, <2>3, <2>4, <2>5, OwnerTurns
<1>5. CASE guardian[p].at # "gone"
  <2>1. UNCHANGED <<ownerVars, workerVars, rec, watchVars>>
    BY <1>1, <1>5 DEF StopGuardian, ownerVars
  <2>2. CASE guardian[p].at = "started"
    <3>1. guardian' = [guardian EXCEPT ![p] = Gone]
      BY <1>3, <2>2 DEF StopGuardian, Holds, PhasesTyped
    <3>2. GuardianKilled(p)
      BY <2>1, <2>2, <3>1 DEF GuardianKilled, GuardianLive
    <3> QED BY <1>2, <3>2, GuardianKilledInv
  <2>3. CASE guardian[p].at \in {"waiting", "spawned", "identified", "running"}
    <3>1. guardian' = [guardian EXCEPT ![p].at = "closing", ![p].listing = None, ![p].ok = FALSE]
      BY <1>3, <2>3 DEF StopGuardian, Holds, PhasesTyped
    <3> QED BY <1>2, <2>1, <2>3, <3>1, FailInv
  <2>4. CASE guardian[p].at \notin {"started", "waiting", "spawned", "identified", "running"}
    <3>1. guardian' = guardian
      BY <1>3, <2>4 DEF StopGuardian, Holds, PhasesTyped
    <3>2. vars' = vars
      BY <2>1, <3>1 DEF ownerVars, workerVars, watchVars, vars
    <3> QED BY <3>2, UnchangedInv
  <2> QED BY <2>2, <2>3, <2>4
<1> QED BY <1>4, <1>5

LEMMA KillGuardianInv == ASSUME Inv, KillGuardian PROVE Inv'
<1>1. owner.phase \in Phases
  BY DEF Inv, TypeOK, Owner
<1>2. GuardianKilled(owner.phase)
  BY DEF KillGuardian, GuardianKilled, GuardianLive
<1> QED BY <1>1, <1>2, GuardianKilledInv

LEMMA CloseOrphansInv == ASSUME Inv, CloseOrphans PROVE Inv'
<1> DEFINE p == owner.phase
           alive == IF ClosedByRecord(p, rec) THEN live[p] ELSE live[p] \ Recorded(p, rec)
           step == IF ~owner.ok THEN "finish" ELSE IF p = "build" THEN "seal" ELSE "census"
<1>1. /\ OwnerLive /\ owner.at = "orphans" /\ owner' = [owner EXCEPT !.at = step]
      /\ UNCHANGED <<guardian, forked, slipped, working, exit, rec, candidate, result, watchVars>>
  BY DEF CloseOrphans, OwnerLive, GoTo
<1>2. p \in Phases
  BY <1>1, WhileOwnerLives DEF Owner
<1>3. Holds(p)
  BY <1>2, PhaseHolds
<1>4. live' = [live EXCEPT ![p] = alive]
  BY <1>3 DEF CloseOrphans, Holds, PhasesTyped
<1>5. alive \subseteq live[p] /\ alive \in SUBSET Workers
  BY <1>3 DEF Holds
<1>6. owner' \in Owner /\ owner'.at = step /\ owner'.phase = p /\ owner'.ok = owner.ok
  BY <1>1, WhileOwnerLives DEF Owner
<1>7. OwnerInv'
  BY <1>1, <1>2, <1>6, WhileOwnerLives DEF OwnerInv, Succeeded, Phases
<1>8. PhaseFacts(guardian[p], rec[p], alive, forked[p], working[p])
  BY <1>3, <1>5 DEF Holds, PhaseFacts
<1>9. LookFacts(guardian[p], rec[p], alive, slipped[p])
  BY <1>3, <1>5 DEF Holds, LookFacts
<1>10. /\ guardian' = [guardian EXCEPT ![p] = guardian[p]] /\ guardian[p] \in Guardian
       /\ rec' = [rec EXCEPT ![p] = rec[p]] /\ rec[p] \in Records
       /\ UNCHANGED <<progress, candidate, result, watchVars>>
  BY <1>1, <1>3 DEF Holds, PhasesTyped, progress
<1> HIDE DEF p, alive
<1> QED BY <1>1, <1>2, <1>4, <1>5, <1>6, <1>7, <1>8, <1>9, <1>10, OwnerAndPhase

LEMMA SealInv == ASSUME Inv, Seal PROVE Inv'
<1>1. /\ OwnerLive /\ owner.at = "seal"
      /\ UNCHANGED <<guardian, workerVars, rec, result, watchVars>>
  BY DEF Seal, OwnerLive
<1>2. CASE rec["build"].terminal \notin {"passed", "closed"}
  BY <1>1, <1>2, BreakInv DEF Seal
<1>3. CASE rec["build"].terminal \in {"passed", "closed"}
  <2>1. owner' = [owner EXCEPT !.at = "launch", !.phase = "audit"] /\ candidate' = "sealed"
    BY <1>3 DEF Seal
  <2>2. owner' \in Owner /\ owner'.at = "launch" /\ owner'.phase = "audit"
    BY <1>1, <2>1, WhileOwnerLives DEF Owner, Phases
  <2>3. OwnerInv'
    BY <1>1, <1>3, <2>2, WhileOwnerLives DEF OwnerInv, Succeeded, ClosedBy
  <2>4. candidate' \in Candidates /\ result' \in {None, "failed", "built-and-audited"}
    BY <1>1, <2>1, WhileOwnerLives DEF Candidates
  <2> QED BY <1>1, <2>2, <2>3, <2>4, OwnerTurns
<1> QED BY <1>2, <1>3

LEMMA CensusInv == ASSUME Inv, Census PROVE Inv'
<1>1. /\ OwnerLive /\ owner.at = "census"
      /\ UNCHANGED <<guardian, workerVars, rec, candidate, result, watchVars>>
  BY DEF Census, OwnerLive
<1>2. CASE candidate # "sealed"
  BY <1>1, <1>2, BreakInv DEF Census
<1>3. CASE candidate = "sealed"
  <2>1. owner' = [owner EXCEPT !.at = "finish"]
    BY <1>3 DEF Census, GoTo
  <2>2. /\ owner' \in Owner /\ owner'.at = "finish" /\ owner'.phase = owner.phase
        /\ owner'.ok = owner.ok
    BY <1>1, <2>1, WhileOwnerLives DEF Owner
  <2>3. OwnerInv'
    BY <1>1, <1>3, <2>2, WhileOwnerLives DEF OwnerInv, Succeeded, ClosedBy
  <2>4. candidate' \in Candidates /\ result' \in {None, "failed", "built-and-audited"}
    BY <1>1, WhileOwnerLives
  <2> QED BY <1>1, <2>2, <2>3, <2>4, OwnerTurns
<1> QED BY <1>2, <1>3

LEMMA FinishInv == ASSUME Inv, Finish PROVE Inv'
<1>1. /\ OwnerLive /\ owner.at = "finish" /\ owner' = [owner EXCEPT !.at = "done"]
      /\ result' = IF owner.ok THEN "built-and-audited" ELSE "failed"
      /\ UNCHANGED <<guardian, workerVars, rec, candidate, watchVars>>
  BY DEF Finish, OwnerLive, GoTo
<1>2. owner' \in Owner /\ owner'.at = "done" /\ owner'.phase = owner.phase
  BY <1>1, WhileOwnerLives DEF Owner
<1>3. OwnerInv'
  <2>1. Succeeded' => Succeeded
    BY <1>1, <1>2 DEF Succeeded
  <2>2. slipped' = slipped
    BY <1>1 DEF workerVars
  <2> QED BY <1>1, <1>2, <2>1, <2>2, WhileOwnerLives DEF OwnerInv
<1>4. candidate' \in Candidates /\ result' \in {None, "failed", "built-and-audited"}
  BY <1>1, WhileOwnerLives
<1> QED BY <1>1, <1>2, <1>3, <1>4, OwnerTurns

LEMMA OwnerKilledInv == ASSUME Inv, OwnerKilled PROVE Inv'
<1>1. /\ OwnerLive /\ owner' = [at |-> "dead", phase |-> "build", ok |-> TRUE]
      /\ UNCHANGED <<guardian, workerVars, rec, candidate, result, watchVars>>
  BY DEF OwnerKilled
<1>2. owner' \in Owner /\ owner'.at = "dead" /\ owner'.phase = "build"
  BY <1>1 DEF Owner, Phases
<1>3. OwnerInv'
  BY <1>1, <1>2, WhileOwnerLives DEF OwnerInv, Succeeded
<1>4. candidate' \in Candidates /\ result' \in {None, "failed", "built-and-audited"}
  BY <1>1, WhileOwnerLives
<1> QED BY <1>1, <1>2, <1>3, <1>4, OwnerTurns

-----------------------------------------------------------------------------
(* status and reconcile. *)

(* Whoever only watches leaves what it watches. *)
LEMMA WatchOnly ==
    ASSUME Inv, UNCHANGED <<ownerVars, guardian, workerVars, rec>>,
           observer' \in Observer,
           reported' \subseteq {"status", "reconcile"}, ObserverInv'
    PROVE  Inv'
<1>1. TypeOK'
  BY DEF Inv, TypeOK, ownerVars, workerVars
<1>2. PhasesInv'
  BY DEF Inv, PhasesInv, workerVars
<1>3. OwnerInv'
  BY DEF Inv, OwnerInv, Succeeded, ownerVars, workerVars
<1> QED BY <1>1, <1>2, <1>3 DEF Inv

(* What is over stays over while nobody but the observer moves. *)
LEMMA StillOver ==
    ASSUME UNCHANGED <<ownerVars, guardian, workerVars, rec>>
    PROVE  /\ OwnerLive' = OwnerLive
           /\ \A q : GuardianLive(q)' = GuardianLive(q) /\ Over(q)' = Over(q)
  BY DEF ownerVars, workerVars, OwnerLive, GuardianLive, Over, Quiet

LEMMA ReadsInv == ASSUME Inv, NEW command \in {"status", "reconcile"}, Reads(command) PROVE Inv'
<1>1. /\ observer' = [Idle EXCEPT !.at = "owner", !.command = command, !.seen = rec]
      /\ reported' = reported
      /\ UNCHANGED <<ownerVars, guardian, workerVars, rec>>
  BY DEF Reads
<1>2. /\ observer' \in Observer /\ observer'.at = "owner"
      /\ observer'.phase = "build" /\ observer'.listing = None
  BY <1>1, IdleTyped DEF Observer, Inv, TypeOK
<1>3. ObserverInv'
  BY <1>1, <1>2, StillOver DEF Inv, ObserverInv
<1> QED BY <1>1, <1>2, <1>3, WatchOnly DEF Inv, TypeOK

LEMMA FindOwnerInv == ASSUME Inv, FindOwner PROVE Inv'
<1>1. /\ observer.at = "owner" /\ reported' = reported
      /\ observer' = IF OwnerLive THEN Idle
                     ELSE [observer EXCEPT !.at = IF observer.command = "status" THEN "judge"
                                                  ELSE "terminate"]
      /\ UNCHANGED <<ownerVars, guardian, workerVars, rec>>
  BY DEF FindOwner
<1>2. /\ observer \in Observer /\ ObserverInv
      /\ observer.phase = "build" /\ observer.listing = None
  BY <1>1 DEF Inv, TypeOK, ObserverInv
<1>3. /\ observer' \in Observer /\ observer'.phase = "build" /\ observer'.listing = None
      /\ observer'.at \in {"terminate", "judge"} => ~OwnerLive
      /\ observer'.at \in {"idle", "terminate", "judge"}
      /\ observer'.at = "judge" => observer'.command = "status"
  <2>1. CASE OwnerLive
    BY <1>1, <2>1, IdleTyped
  <2>2. CASE ~OwnerLive
    BY <1>1, <1>2, <2>2 DEF Observer
  <2> QED BY <2>1, <2>2
<1>4. ObserverInv'
  BY <1>1, <1>2, <1>3, StillOver DEF ObserverInv
<1> QED BY <1>1, <1>3, <1>4, WatchOnly DEF Inv, TypeOK

LEMMA RereadInv == ASSUME Inv, Reread PROVE Inv'
<1>1. /\ observer.at = "reread" /\ reported' = reported
      /\ observer' = [observer EXCEPT !.at = "judge", !.seen = rec]
      /\ UNCHANGED <<ownerVars, guardian, workerVars, rec>>
  BY DEF Reread
<1>2. /\ observer \in Observer /\ ObserverInv /\ ~OwnerLive
      /\ observer.phase = "build" /\ observer.listing = None
  BY <1>1 DEF Inv, TypeOK, ObserverInv
<1>3. /\ observer' \in Observer /\ observer'.phase = "build" /\ observer'.listing = None
      /\ observer'.seen = rec /\ observer'.at = "judge"
  BY <1>1, <1>2 DEF Observer, Inv, TypeOK
<1>4. ObserverInv'
  BY <1>1, <1>2, <1>3, StillOver DEF ObserverInv
<1> QED BY <1>1, <1>3, <1>4, WatchOnly DEF Inv, TypeOK

(* A verdict on one phase. *)
LEMMA ConcludeInv ==
    ASSUME Inv, NEW closed \in BOOLEAN, Conclude(closed), observer.at = "judge",
           closed /\ observer.command = "reconcile" => Over(observer.phase)
    PROVE  Inv'
<1> DEFINE more == closed /\ observer.phase = "build"
<1>1. /\ observer' = IF more THEN [observer EXCEPT !.phase = "audit", !.listing = None] ELSE Idle
      /\ reported' = reported \cup {c \in {observer.command} : closed /\ ~more}
      /\ UNCHANGED <<ownerVars, guardian, workerVars, rec>>
  BY DEF Conclude
<1>2. /\ observer \in Observer /\ ObserverInv /\ ~OwnerLive
      /\ observer.phase \in {"build", "audit"} /\ observer.command \in {"status", "reconcile"}
  BY DEF Inv, TypeOK, ObserverInv, Observer, Phases
<1>3. CASE more
  <2>1. /\ observer' = [observer EXCEPT !.phase = "audit", !.listing = None]
        /\ reported' = reported
    BY <1>1, <1>3
  <2>2. /\ observer' \in Observer /\ observer'.at = "judge" /\ observer'.phase = "audit"
        /\ observer'.listing = None /\ observer'.seen = observer.seen
        /\ observer'.command = observer.command
    BY <1>2, <2>1 DEF Observer, Phases
  <2>3. ObserverInv'
    BY <1>1, <1>2, <1>3, <2>1, <2>2, StillOver DEF ObserverInv
  <2> QED BY <1>1, <2>1, <2>2, <2>3, WatchOnly DEF Inv, TypeOK
<1>4. CASE ~more
  <2>1. observer' = Idle
    BY <1>1, <1>4
  <2>2. "reconcile" \in reported' => \A q \in Phases : Over(q)
    <3>1. CASE "reconcile" \in reported
      BY <1>2, <3>1 DEF ObserverInv
    <3>2. CASE closed /\ observer.command = "reconcile"
      <4>1. observer.phase = "audit" /\ Over("audit")
        BY <1>2, <1>4, <3>2
      <4>2. Over("build")
        BY <1>2, <3>2, <4>1 DEF ObserverInv
      <4> QED BY <4>1, <4>2 DEF Phases
    <3> QED BY <1>1, <3>1, <3>2
  <2>3. reported' \subseteq {"status", "reconcile"}
    BY <1>1, <1>2 DEF Inv, TypeOK
  <2>4. ObserverInv'
    BY <1>1, <1>2, <2>1, <2>2, StillOver, IdleTyped DEF ObserverInv
  <2> QED BY <1>1, <2>1, <2>3, <2>4, WatchOnly, IdleTyped
<1> QED BY <1>3, <1>4

(* What the records say of a phase is true once the owner is dead and the   *)
(* records that were read agree with the current ones.                     *)
LEMMA UnseenIsOver ==
    ASSUME NEW p \in Phases, Holds(p), NEW seen \in Observed, ClosedUnseen(p, seen),
           seen[p].launch = rec[p].launch, seen[p].release = rec[p].release,
           seen[p].terminal # None => seen[p].terminal = rec[p].terminal
    PROVE  Over(p)
<1>1. /\ PhaseFacts(guardian[p], rec[p], live[p], forked[p], working[p])
      /\ LookFacts(guardian[p], rec[p], live[p], slipped[p])
      /\ live[p] \subseteq forked[p]
  BY DEF Holds, PhaseFacts
<1>2. CASE ~seen[p].launch
  <2>1. guardian[p].at = "none" /\ ~rec[p].release
    BY <1>1, <1>2 DEF PhaseFacts
  <2> QED BY <1>1, <2>1 DEF PhaseFacts, Over, Quiet
<1>3. CASE seen[p].terminal \in {"passed", "closed"}
  <2>1. ClosedBy(rec[p]) /\ rec[p].terminal # None
    BY <1>3, RunnerAssumption DEF ClosedBy, RunnerAssumption
  <2> QED BY <1>1, <2>1 DEF PhaseFacts, LookFacts, Over, Quiet, GuardianLive
<1>4. CASE ~seen[p].release
  BY <1>1, <1>4 DEF PhaseFacts, Over, Quiet
<1> QED BY <1>2, <1>3, <1>4 DEF ClosedUnseen, ClosedByRecord

(* The records reconcile judges by agree with the current ones. *)
LEMMA SeenAgrees ==
    ASSUME Inv, observer.at = "judge", observer.command = "reconcile", NEW p \in Phases
    PROVE  /\ observer.seen[p].launch = rec[p].launch
           /\ observer.seen[p].release = rec[p].release
           /\ observer.seen[p].terminal # None => observer.seen[p].terminal = rec[p].terminal
  BY DEF Inv, ObserverInv

LEMMA JudgeInv == ASSUME Inv, Judge PROVE Inv'
<1> DEFINE p == observer.phase
           seen == observer.seen
           looks == ~StillActs(p, seen) /\ seen[p].child # None
<1>1. /\ observer.at = "judge" /\ observer.listing = None
      /\ observer \in Observer /\ ObserverInv /\ ~OwnerLive /\ p \in Phases /\ seen \in Observed
  BY DEF Judge, Inv, TypeOK, ObserverInv, Observer
<1>2. CASE looks /\ ~ClosedUnseen(p, seen)
  <2>1. /\ observer' = [observer EXCEPT !.listing = live[p]] /\ reported' = reported
        /\ UNCHANGED <<ownerVars, guardian, workerVars, rec>>
    BY <1>2 DEF Judge
  <2>2. ~GuardianLive(p) /\ live[p] \in KnownSet
    BY <1>1, <1>2 DEF StillActs, Inv, TypeOK, KnownSet
  <2>3. /\ observer' \in Observer /\ observer'.at = "judge" /\ observer'.phase = p
        /\ observer'.listing = live[p] /\ observer'.seen = seen
        /\ observer'.command = observer.command
    BY <1>1, <2>1, <2>2 DEF Observer
  <2>4. live' = live /\ slipped' = slipped /\ rec' = rec
    BY <2>1 DEF workerVars
  <2> HIDE DEF p, seen, looks
  <2>5. ObserverInv'
    BY <1>1, <2>1, <2>2, <2>3, <2>4, StillOver DEF ObserverInv, p, seen
  <2> QED BY <2>1, <2>3, <2>5, WatchOnly DEF Inv, TypeOK
<1>3. CASE ~(looks /\ ~ClosedUnseen(p, seen))
  <2>1. Conclude(ClosedUnseen(p, seen))
    BY <1>3 DEF Judge
  <2>2. ASSUME ClosedUnseen(p, seen), observer.command = "reconcile"
        PROVE  Over(p)
    BY <1>1, <2>2, PhaseHolds, SeenAgrees, UnseenIsOver
  <2>3. ClosedUnseen(p, seen) \in BOOLEAN
    BY DEF ClosedUnseen
  <2> QED BY <1>1, <2>1, <2>2, <2>3, ConcludeInv
<1> QED BY <1>2, <1>3

LEMMA GroupGoneInv == ASSUME Inv, GroupGone PROVE Inv'
<1>1. observer.listing # None /\ observer.at = "judge" /\ ObserverInv
  BY DEF GroupGone, Inv, ObserverInv
<1> DEFINE closed == observer.listing \cap live[observer.phase] = {}
<1>2. Conclude(closed)
  BY DEF GroupGone
<1>3. ASSUME closed, observer.command = "reconcile"
      PROVE  Over(observer.phase)
  <2>1. /\ ~GuardianLive(observer.phase)
        /\ live[observer.phase] \subseteq observer.listing \cup slipped[observer.phase]
    BY <1>1, <1>3 DEF ObserverInv
  <2> QED BY <1>3, <2>1 DEF Over, Quiet
<1> QED BY <1>1, <1>2, <1>3, ConcludeInv

LEMMA TerminateKnownInv == ASSUME Inv, TerminateKnown PROVE Inv'
<1>1. /\ observer.at = "terminate"
      /\ observer' = [observer EXCEPT !.at = "reread", !.seen = Nothing]
      /\ UNCHANGED <<ownerVars, forked, slipped, working, exit, rec, reported>>
  BY DEF TerminateKnown
<1>2. /\ ~OwnerLive /\ OwnerInv /\ ObserverInv /\ owner \in Owner /\ observer \in Observer
      /\ PhasesTyped /\ PhasesInv
      /\ observer.phase = "build" /\ observer.listing = None
  BY <1>1, Typed DEF Inv, ObserverInv, TypeOK
<1>3. ASSUME NEW q \in Phases
      PROVE  /\ guardian'[q] \in {guardian[q], Gone} /\ live'[q] \subseteq live[q]
             /\ guardian'[q] = Gone => guardian[q] = Gone \/ guardian[q].at # "none"
  BY DEF TerminateKnown, GuardianLive
<1>4. guardian' \in [Phases -> Guardian] /\ live' \in [Phases -> SUBSET Workers]
  BY <1>2, GoneTyped DEF TerminateKnown, PhasesTyped
<1>5. PhasesTyped'
  BY <1>1, <1>2, <1>4 DEF PhasesTyped
<1>6. PhasesInv'
  <2> SUFFICES ASSUME NEW q \in Phases
               PROVE  /\ PhaseFacts(guardian'[q], rec'[q], live'[q], forked'[q], working'[q])
                      /\ LookFacts(guardian'[q], rec'[q], live'[q], slipped'[q])
                      /\ slipped'[q] \subseteq forked'[q]
    BY DEF PhasesInv
  <2>1. /\ PhaseFacts(guardian[q], rec[q], live[q], forked[q], working[q])
        /\ LookFacts(guardian[q], rec[q], live[q], slipped[q])
        /\ slipped[q] \subseteq forked[q]
    BY <1>2 DEF PhasesInv
  <2>2. /\ rec'[q] = rec[q] /\ forked'[q] = forked[q] /\ slipped'[q] = slipped[q]
        /\ working'[q] = working[q]
    BY <1>1
  <2>3. CASE guardian'[q] = guardian[q]
    <3>1. PhaseFacts(guardian[q], rec[q], live'[q], forked[q], working[q])
      BY <2>1, <1>3 DEF PhaseFacts
    <3>2. LookFacts(guardian[q], rec[q], live'[q], slipped[q])
      BY <2>1, <1>3 DEF LookFacts
    <3> QED BY <2>1, <2>2, <2>3, <3>1, <3>2
  <2>4. CASE guardian'[q] = Gone /\ guardian[q].at # "none"
    <3>1. PhaseFacts(Gone, rec[q], live'[q], forked[q], working[q])
      BY <2>1, <2>4, <1>3, GoneTyped DEF PhaseFacts
    <3>2. LookFacts(Gone, rec[q], live'[q], slipped[q])
      BY <2>1, <1>3, GoneTyped DEF LookFacts
    <3> QED BY <2>1, <2>2, <2>4, <3>1, <3>2
  <2> QED BY <2>3, <2>4, <1>3
<1>7. /\ observer' \in Observer /\ observer'.at = "reread"
      /\ observer'.phase = "build" /\ observer'.listing = None
  BY <1>1, <1>2, IdleTyped DEF Observer
<1>8. TypeOK'
  BY <1>1, <1>5, <1>7 DEF Inv, TypeOK, PhasesTyped, Exits, Observed, ownerVars
<1>9. OwnerInv'
  <2>1. Grown /\ owner' = owner /\ result' = result /\ candidate' = candidate
    BY <1>1 DEF Grown, ownerVars
  <2>2. owner.at # "spawn" /\ \A q \in Phases : slipped[q] \subseteq slipped'[q]
    BY <1>1, <1>2 DEF OwnerLive
  <2> QED BY <2>1, <2>2, <1>2, OwnerStays
<1>10. ObserverInv'
  <2>1. ~OwnerLive'
    BY <1>1, <1>2 DEF OwnerLive, ownerVars
  <2>2. ASSUME NEW q \in Phases, Over(q)
        PROVE  Over(q)'
    <3>1. GuardianLive(q)' => GuardianLive(q)
      BY <1>3, GoneTyped DEF GuardianLive
    <3> QED BY <1>1, <1>3, <2>2, <3>1 DEF Over, Quiet
  <2> QED BY <1>1, <1>2, <1>7, <2>1, <2>2 DEF ObserverInv
<1> QED BY <1>6, <1>8, <1>9, <1>10 DEF Inv

-----------------------------------------------------------------------------
(* The invariant is inductive, and what it gives. *)

LEMMA OwnerStepInv == Inv /\ OwnerStep => Inv'
<1> SUFFICES ASSUME Inv, OwnerStep PROVE Inv'
  OBVIOUS
<1> QED BY LaunchInv, SpawnGuardianInv, ReleaseInv, GuardianExitedInv, StopGuardianInv,
           CloseOrphansInv, SealInv, CensusInv, FinishInv
        DEF OwnerStep

LEMMA GuardianStepInv == ASSUME Inv, NEW p \in Phases, GuardianStep(p) PROVE Inv'
<1>1. CASE Identify(p) BY <1>1, IdentifyInv
<1>2. CASE StartPayload(p) BY <1>2, StartPayloadInv
<1>3. CASE RecordPayload(p) BY <1>3, RecordPayloadInv
<1>4. CASE ReleasePayload(p) BY <1>4, ReleasePayloadInv
<1>5. CASE Watch(p) BY <1>5, WatchInv
<1>6. CASE PayloadEnded(p) BY <1>6, PayloadEndedInv
<1>7. CASE Abandon(p) BY <1>7, FailInv DEF Abandon, Fail
<1>8. CASE CloseRound(p) BY <1>8, CloseRoundInv
<1>9. CASE Terminate(p) BY <1>9, TerminateInv
<1>10. CASE WriteTerminal(p) BY <1>10, WriteTerminalInv
<1>11. CASE List(p) BY <1>11, ListInv
<1> QED BY <1>1, <1>2, <1>3, <1>4, <1>5, <1>6, <1>7, <1>8, <1>9, <1>10, <1>11 DEF GuardianStep

LEMMA CommandInv == ASSUME Inv, NEW command, Command(command) PROVE Inv'
<1>1. CASE FindOwner BY <1>1, FindOwnerInv
<1>2. CASE TerminateKnown BY <1>2, TerminateKnownInv
<1>3. CASE Reread BY <1>3, RereadInv
<1>4. CASE Judge BY <1>4, JudgeInv
<1>5. CASE GroupGone BY <1>5, GroupGoneInv
<1> QED BY <1>1, <1>2, <1>3, <1>4, <1>5 DEF Command

LEMMA StepInv == Inv /\ [Next]_vars => Inv'
<1> SUFFICES ASSUME Inv, [Next]_vars PROVE Inv'
  OBVIOUS
<1>1. CASE OwnerStep BY <1>1, OwnerStepInv
<1>2. CASE GiveUp BY <1>2, GiveUpInv
<1>3. CASE KillGuardian BY <1>3, KillGuardianInv
<1>4. CASE OwnerKilled BY <1>4, OwnerKilledInv
<1>5. ASSUME NEW p \in Phases,
             \/ GuardianStep(p) \/ Fail(p) \/ GuardianKilled(p)
             \/ StartWork(p) \/ LoseParent(p) \/ Fork(p) \/ WriteCandidate(p) \/ WorkerExits(p)
      PROVE  Inv'
  <2>1. CASE GuardianStep(p) BY <2>1, GuardianStepInv
  <2>2. CASE Fail(p) BY <2>2, FailInv DEF Fail
  <2>3. CASE GuardianKilled(p) BY <2>3, GuardianKilledInv
  <2>4. CASE StartWork(p) BY <2>4, StartWorkInv
  <2>5. CASE LoseParent(p) BY <2>5, LoseParentInv
  <2>6. CASE Fork(p) BY <2>6, ForkInv
  <2>7. CASE WriteCandidate(p) BY <2>7, WriteCandidateInv
  <2>8. CASE WorkerExits(p) BY <2>8, WorkerExitsInv
  <2> QED BY <1>5, <2>1, <2>2, <2>3, <2>4, <2>5, <2>6, <2>7, <2>8
<1>6. CASE Status BY <1>6, ReadsInv, CommandInv DEF Status
<1>7. CASE Reconcile BY <1>7, ReadsInv, CommandInv DEF Reconcile
<1>8. CASE UNCHANGED vars BY <1>8, UnchangedInv
<1> QED BY <1>1, <1>2, <1>3, <1>4, <1>5, <1>6, <1>7, <1>8 DEF Next

(* What the records, the places of the owner and the guardians and the     *)
(* living processes say of one another holds of every run, however many    *)
(* processes its payloads fork and whatever a look at them misses          *)
(* (run_phase, guardian, close_members, phase_closure).                    *)
THEOREM Invariance == RunSpec => []Inv
<1>1. Inv /\ [Next]_vars => Inv'
  BY StepInv
<1> QED BY InitInv, <1>1, PTL DEF RunSpec

(* When reconcile has reported a run closed, no race of its two reads with *)
(* a guardian or a kill leaves a process of it, and none can come back:    *)
(* only what was forked under the look that closed its phase may live.     *)
THEOREM ReconciledStaysFinal == RunSpec => []ReconciledIsFinal
<1>1. Inv => ReconciledIsFinal
  BY DEF Inv, ObserverInv, Over, ReconciledIsFinal
<1> QED BY Invariance, <1>1, PTL

(* A payload that forks nothing, as the offline commands run it            *)
(* (offline_single_process), leaves no process behind a reconciled run.    *)
THEOREM SingleProcessIsFinal ==
    ASSUME Kin = {}
    PROVE  RunSpec => []("reconcile" \in reported => NothingLives)
<1>1. Inv /\ "reconcile" \in reported => NothingLives
  <2> SUFFICES ASSUME Inv, "reconcile" \in reported, NEW p \in Phases PROVE live[p] = {}
    BY DEF NothingLives
  <2>1. live[p] \subseteq slipped[p] /\ slipped[p] \subseteq Kin
    BY DEF Inv, TypeOK, ObserverInv, Over, Quiet
  <2> QED BY <2>1
<1> QED BY Invariance, <1>1, PTL

(* Whatever is killed, no payload works before its identity is durable.    *)
THEOREM WorkersAreRecorded == RunSpec => []WorkIsRecorded
<1>1. Inv => WorkIsRecorded
  BY DEF Inv, PhasesInv, PhaseFacts, WorkIsRecorded
<1> QED BY Invariance, <1>1, PTL

(* run_phase starts the audit only over a build without processes, but for *)
(* those forked under the last look of the build's guardian.               *)
THEOREM AuditRunsAlone == RunSpec => []AuditAlone
<1>1. Inv => AuditAlone
  <2> SUFFICES ASSUME Inv, guardian["audit"].at # "none" PROVE Quiet("build")
    BY DEF AuditAlone
  <2>1. "audit" \in Phases /\ "build" \in Phases
    BY DEF Phases
  <2>2. rec["audit"].launch
    BY <2>1 DEF Inv, PhasesInv, PhaseFacts
  <2>3. ClosedBy(rec["build"])
    BY <2>2 DEF Inv, OwnerInv
  <2> QED BY <2>1, <2>3 DEF Inv, PhasesInv, LookFacts, Quiet
<1> QED BY Invariance, <1>1, PTL

(* A result "built-and-audited" is about the candidate as sealed, and      *)
(* nothing is left that could change it, unless a process was forked under *)
(* a last look (execute, completion).                                      *)
THEOREM SuccessesAreSealed == RunSpec => []SuccessIsSealed
<1>1. Inv => SuccessIsSealed
  <2> SUFFICES ASSUME Inv, result = "built-and-audited"
               PROVE  /\ \A p \in Phases : Quiet(p)
                      /\ candidate = "sealed" \/ \E p \in Phases : slipped[p] # {}
    BY DEF SuccessIsSealed
  <2>1. /\ ClosedBy(rec["build"]) /\ ClosedBy(rec["audit"])
        /\ candidate = "sealed" \/ \E p \in Phases : slipped[p] # {}
    BY DEF Inv, OwnerInv, Succeeded
  <2>2. \A p \in Phases : ClosedBy(rec[p])
    BY <2>1 DEF Phases
  <2>3. \A p \in Phases : Quiet(p)
    BY <2>2 DEF Inv, PhasesInv, LookFacts, Quiet
  <2> QED BY <2>1, <2>3
<1> QED BY Invariance, <1>1, PTL
=============================================================================
