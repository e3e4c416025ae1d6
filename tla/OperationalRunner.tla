-------------------------- MODULE OperationalRunner --------------------------
(***************************************************************************)
(* operational_runner.py: one admitted run of two phases.  The owner       *)
(* (execute, run_phase) starts a guardian per phase, the guardian starts   *)
(* the payload, and the payload may fork; each of them can be killed at    *)
(* any step.  What they know of each other is the durable records under    *)
(* the run root; status and reconcile judge from those records which       *)
(* processes can still act.                                                *)
(*                                                                         *)
(* A process identity is a pid with its birth time, so pids are not        *)
(* reused here.  Forked processes stay in the guardian's process group.    *)
(* A record is written whole or not at all (durable), and one read of the  *)
(* records is one step.  candidate is "open" until the owner seals it and  *)
(* "changed" once a process wrote it after that.                           *)
(*                                                                         *)
(* A look at the processes is two steps: the pids are listed, and each is  *)
(* checked afterwards.  What is forked in between is not listed, and its   *)
(* parent may be gone when it is checked: slipped holds those processes.   *)
(***************************************************************************)
EXTENDS Naturals, FiniteSets

CONSTANTS Kin,          \* the processes a payload's tree may fork, bounded
          CloseRounds,  \* rounds of close_members before its final look
          None          \* a record that does not exist

ASSUME RunnerAssumption ==
    /\ IsFiniteSet(Kin)
    /\ "payload" \notin Kin
    /\ CloseRounds \in Nat \ {0}
    /\ \A known \in SUBSET (Kin \cup {"payload"}) : known # None
    /\ None \notin {"passed", "closed", "open", "failed", "built-and-audited"}

Phases  == {"build", "audit"}
Workers == {"payload"} \cup Kin

KnownSet == SUBSET Workers

Records == [launch         : BOOLEAN,
            child          : {None} \cup KnownSet,   \* the known of {phase}-child.json
            release        : BOOLEAN,
            payloadRelease : BOOLEAN,
            terminal       : {None, "passed", "closed", "open"}]

VARIABLES owner,      \* the owner: where it is, in which phase, still without error
          guardian,   \* per phase: where the guardian is, what it knows, the listing
                      \* of a look it has begun, closing rounds
          live,       \* per phase: the living processes under the guardian
          forked,     \* per phase: the processes ever started
          slipped,    \* history, per phase: forked under a look, and by those
          working,    \* per phase: the payload passed await_release
          exit,       \* per phase: how the payload ended
          rec,        \* per phase: the durable records
          candidate,
          result,     \* result.json
          observer,   \* the status or reconcile command being run, the records it
                      \* read, the phase it judges, the listing of a look it has begun
          reported    \* the commands that reported the run closed

vars == <<owner, guardian, live, forked, slipped, working, exit, rec, candidate,
          result, observer, reported>>

ownerVars  == <<owner, candidate, result>>
workerVars == <<live, forked, slipped, working, exit>>
watchVars  == <<observer, reported>>

Owner    == [at    : {"launch", "spawn", "startup", "wait", "stop", "orphans", "seal",
                      "census", "finish", "done", "dead"},
             phase : Phases,
             ok    : BOOLEAN]
Guardian == [at      : {"none", "started", "waiting", "spawned", "identified", "running",
                        "closing", "killing", "writing", "gone"},
             known   : KnownSet,
             listing : {None} \cup KnownSet,
             rounds  : 0..CloseRounds,
             ok      : BOOLEAN]
Observed == [Phases -> Records]
Observer == [at      : {"idle", "owner", "terminate", "reread", "judge"},
             command : {"status", "reconcile"},
             seen    : Observed,
             phase   : Phases,
             listing : {None} \cup KnownSet]

TypeOK ==
    /\ owner \in Owner
    /\ guardian \in [Phases -> Guardian]
    /\ live \in [Phases -> SUBSET Workers]
    /\ forked \in [Phases -> SUBSET Workers]
    /\ slipped \in [Phases -> SUBSET Kin]
    /\ working \in [Phases -> BOOLEAN]
    /\ exit \in [Phases -> {"none", "zero", "failed"}]
    /\ rec \in Observed
    /\ candidate \in {"open", "sealed", "changed"}
    /\ result \in {None, "failed", "built-and-audited"}
    /\ observer \in Observer
    /\ reported \subseteq {"status", "reconcile"}

-----------------------------------------------------------------------------
(* What one process can tell of another.                                   *)

OwnerLive       == owner.at \notin {"done", "dead"}
GuardianLive(p) == guardian[p].at \notin {"none", "gone"}

(* phase_closure, before it looks at the group: what the records, seen at   *)
(* some moment, say by themselves, and whether a recorded process is alive. *)
ClosedByRecord(p, seen) ==
    \/ ~seen[p].launch
    \/ seen[p].terminal \in {"passed", "closed"} /\ seen[p].child # None

Recorded(p, seen) == IF seen[p].child = None THEN {} ELSE seen[p].child

StillActs(p, seen) ==
    /\ seen[p].child # None
    /\ GuardianLive(p) \/ live[p] \cap Recorded(p, seen) # {}

(* A fault: the process group of a lost guardian is not looked at. *)
ClosedByRecords(p, seen) ==
    \/ ClosedByRecord(p, seen)
    \/ ~StillActs(p, seen) /\ (~seen[p].release \/ seen[p].child # None)
ClosedUnseen(p, seen) ==
    \/ ClosedByRecord(p, seen)
    \/ ~StillActs(p, seen) /\ ~seen[p].release

Blank == [launch |-> FALSE, child |-> None, release |-> FALSE,
          payloadRelease |-> FALSE, terminal |-> None]
Nothing == [p \in Phases |-> Blank]
Idle    == [at |-> "idle", command |-> "status", seen |-> Nothing, phase |-> "build",
            listing |-> None]
Start   == [at |-> "none", known |-> {}, listing |-> None, rounds |-> 0, ok |-> TRUE]
Gone    == [Start EXCEPT !.at = "gone"]   \* a process keeps nothing when it ends

Init ==
    /\ owner = [at |-> "launch", phase |-> "build", ok |-> TRUE]
    /\ guardian = [p \in Phases |-> Start]
    /\ live = [p \in Phases |-> {}]
    /\ forked = [p \in Phases |-> {}]
    /\ slipped = [p \in Phases |-> {}]
    /\ working = [p \in Phases |-> FALSE]
    /\ exit = [p \in Phases |-> "none"]
    /\ rec = Nothing
    /\ candidate = "open"
    /\ result = None
    /\ observer = Idle
    /\ reported = {}

-----------------------------------------------------------------------------
(* The owner: execute and run_phase.                                       *)

GoTo(step) == owner' = [owner EXCEPT !.at = step]
Break(step) == owner' = [owner EXCEPT !.at = step, !.ok = FALSE]

Launch ==
    /\ owner.at = "launch"
    /\ rec[owner.phase] = Blank
    /\ rec' = [rec EXCEPT ![owner.phase].launch = TRUE]
    /\ GoTo("spawn")
    /\ UNCHANGED <<guardian, workerVars, candidate, result, watchVars>>

SpawnGuardian ==
    /\ owner.at = "spawn"
    /\ guardian' = [guardian EXCEPT ![owner.phase].at = "started"]
    /\ GoTo("startup")
    /\ UNCHANGED <<workerVars, rec, candidate, result, watchVars>>

(* The startup record names the child, and the owner releases it, or the   *)
(* guardian exited without one.                                            *)
Release ==
    LET p == owner.phase IN
    /\ owner.at = "startup"
    /\ IF rec[p].child # None
         THEN /\ rec' = [rec EXCEPT ![p].release = TRUE]
              /\ GoTo("wait")
         ELSE /\ guardian[p].at = "gone"
              /\ Break("stop")
              /\ UNCHANGED rec
    /\ UNCHANGED <<guardian, workerVars, candidate, result, watchVars>>

(* The guardian exited; only a passed, closed terminal record lets the     *)
(* phase succeed.                                                          *)
(* A fault: the guardian's exit is enough. *)
ExitIsEnough ==
    /\ owner.at = "wait"
    /\ guardian[owner.phase].at = "gone"
    /\ GoTo("stop")
    /\ UNCHANGED <<guardian, workerVars, rec, candidate, result, watchVars>>
GuardianExited ==
    /\ owner.at = "wait"
    /\ guardian[owner.phase].at = "gone"
    /\ IF rec[owner.phase].terminal = "passed" THEN GoTo("stop") ELSE Break("stop")
    /\ UNCHANGED <<guardian, workerVars, rec, candidate, result, watchVars>>

(* Any check of the owner between its steps fails: a limit, a changed pin. *)
(* In the end the wall limit passes, and every tick fails.                 *)
(* A fault: no tick while it waits for the guardian. *)
GiveUpOutside ==
    /\ owner.at \in {"launch", "spawn", "startup", "seal", "census"}
    /\ Break(IF owner.at = "startup" THEN "stop" ELSE "finish")
    /\ UNCHANGED <<guardian, workerVars, rec, candidate, result, watchVars>>
GiveUp ==
    /\ owner.at \in {"launch", "spawn", "startup", "wait", "seal", "census"}
    /\ Break(IF owner.at \in {"startup", "wait"} THEN "stop" ELSE "finish")
    /\ UNCHANGED <<guardian, workerVars, rec, candidate, result, watchVars>>

(* run_phase's finally: SIGTERM turns a guardian with handlers to closing, *)
(* ends one without, and is ignored by one that is closing; after          *)
(* STOP_SECONDS it is killed.                                              *)
StopGuardian ==
    LET p == owner.phase IN
    /\ owner.at = "stop"
    /\ guardian' = [guardian EXCEPT ![p] =
           CASE @.at = "started" -> Gone
             [] @.at \in {"waiting", "spawned", "identified", "running"} ->
                    [@ EXCEPT !.at = "closing", !.listing = None, !.ok = FALSE]
             [] OTHER -> @]
    /\ IF guardian[p].at = "gone" THEN GoTo("orphans") ELSE UNCHANGED owner
    /\ UNCHANGED <<workerVars, rec, candidate, result, watchVars>>

KillGuardian ==
    /\ owner.at = "stop"
    /\ guardian[owner.phase].at \in {"closing", "killing", "writing"}
    /\ guardian' = [guardian EXCEPT ![owner.phase] = Gone]
    /\ UNCHANGED <<ownerVars, workerVars, rec, watchVars>>

(* close_orphans: terminate what the lost guardian recorded, and go on.    *)
CloseOrphans ==
    LET p == owner.phase IN
    /\ owner.at = "orphans"
    /\ live' = [live EXCEPT ![p] = IF ClosedByRecord(p, rec) THEN @ ELSE @ \ Recorded(p, rec)]
    /\ GoTo(IF ~owner.ok THEN "finish" ELSE IF p = "build" THEN "seal" ELSE "census")
    /\ UNCHANGED <<guardian, forked, slipped, working, exit, rec, candidate, result, watchVars>>

(* completion: the census of the candidate, sealed for reuse and audit.    *)
Seal ==
    /\ owner.at = "seal"
    /\ IF rec["build"].terminal \in {"passed", "closed"}
         THEN /\ candidate' = "sealed"
              /\ owner' = [owner EXCEPT !.at = "launch", !.phase = "audit"]
         ELSE /\ Break("finish")
              /\ UNCHANGED candidate
    /\ UNCHANGED <<guardian, workerVars, rec, result, watchVars>>

(* A fault: the audited candidate is not compared with the seal. *)
NoCensus ==
    /\ owner.at = "census"
    /\ GoTo("finish")
    /\ UNCHANGED <<guardian, workerVars, rec, candidate, result, watchVars>>
Census ==
    /\ owner.at = "census"
    /\ IF candidate = "sealed" THEN GoTo("finish") ELSE Break("finish")
    /\ UNCHANGED <<guardian, workerVars, rec, candidate, result, watchVars>>

Finish ==
    /\ owner.at = "finish"
    /\ result' = IF owner.ok THEN "built-and-audited" ELSE "failed"
    /\ GoTo("done")
    /\ UNCHANGED <<guardian, workerVars, rec, candidate, watchVars>>

OwnerKilled ==
    /\ OwnerLive
    /\ owner' = [at |-> "dead", phase |-> "build", ok |-> TRUE]
    /\ UNCHANGED <<guardian, workerVars, rec, candidate, result, watchVars>>

OwnerStep ==
    \/ Launch \/ SpawnGuardian \/ Release \/ GuardianExited \/ StopGuardian
    \/ CloseOrphans \/ Seal \/ Census \/ Finish

-----------------------------------------------------------------------------
(* The guardian of a phase.                                                *)

At(p, step) == guardian[p].at = step
Move(p, step) == guardian' = [guardian EXCEPT ![p].at = step]

Identify(p) ==
    /\ At(p, "started")
    /\ rec' = [rec EXCEPT ![p].child = {}]
    /\ Move(p, "waiting")
    /\ UNCHANGED <<ownerVars, workerVars, watchVars>>

(* Released by a living owner, it starts the payload, which waits in turn. *)
StartPayload(p) ==
    /\ At(p, "waiting")
    /\ rec[p].release /\ OwnerLive
    /\ Move(p, "spawned")
    /\ live' = [live EXCEPT ![p] = @ \cup {"payload"}]
    /\ forked' = [forked EXCEPT ![p] = @ \cup {"payload"}]
    /\ UNCHANGED <<ownerVars, slipped, working, exit, rec, watchVars>>

(* A fault: the payload is released before its identity is durable. *)
ReleaseUnrecorded(p) ==
    /\ At(p, "spawned")
    /\ guardian' = [guardian EXCEPT ![p].at = "identified", ![p].known = {"payload"}]
    /\ rec' = [rec EXCEPT ![p].payloadRelease = TRUE]
    /\ UNCHANGED <<ownerVars, workerVars, watchVars>>
RecordPayload(p) ==
    /\ At(p, "spawned")
    /\ guardian' = [guardian EXCEPT ![p].at = "identified", ![p].known = {"payload"}]
    /\ rec' = [rec EXCEPT ![p].child = {"payload"}]
    /\ UNCHANGED <<ownerVars, workerVars, watchVars>>

ReleasePayload(p) ==
    /\ At(p, "identified")
    /\ rec' = [rec EXCEPT ![p].payloadRelease = TRUE]
    /\ Move(p, "running")
    /\ UNCHANGED <<ownerVars, workerVars, watchVars>>

(* members, while its leader lives: its descendants, and what else is left *)
(* in its process group after its parent died.  The last of the listings a *)
(* look takes shows all that live; the look finds what is listed and lives *)
(* when it is checked.                                                     *)
List(p) ==
    /\ At(p, "closing") \/ (At(p, "running") /\ OwnerLive)
    /\ guardian[p].listing = None
    /\ guardian' = [guardian EXCEPT ![p].listing = live[p]]
    /\ slipped' = [slipped EXCEPT ![p] = {}]
    /\ UNCHANGED <<ownerVars, live, forked, working, exit, rec, watchVars>>

Listed(p) == guardian[p].listing # None

(* A fault: descendants only, so that reparented processes are missed. *)
DescendantsOnly(p) == IF "payload" \in live[p] THEN guardian[p].listing \cap live[p] ELSE {}
Members(p) == guardian[p].listing \cap live[p]

Discover(p, step, listing) ==
    /\ guardian' = [guardian EXCEPT ![p].at = step, ![p].known = @ \cup Members(p),
                                    ![p].listing = listing]
    /\ rec' = [rec EXCEPT ![p].child = guardian[p].known \cup Members(p)]
    /\ UNCHANGED <<ownerVars, workerVars, watchVars>>

Watch(p) ==
    /\ At(p, "running") /\ Listed(p)
    /\ Discover(p, "running", None)

(* The payload was reaped before the look that must find nothing. *)
PayloadEnded(p) ==
    /\ At(p, "running") /\ Listed(p)
    /\ "payload" \notin guardian[p].listing
    /\ guardian' = [guardian EXCEPT ![p].at = "closing", ![p].listing = None,
                                    ![p].ok = Members(p) = {} /\ exit[p] = "zero"]
    /\ UNCHANGED <<ownerVars, workerVars, rec, watchVars>>

(* A tick, a sample or a record fails; without the owner the next look at  *)
(* it must.                                                                *)
Fail(p) ==
    /\ guardian[p].at \in {"waiting", "spawned", "identified", "running"}
    /\ guardian' = [guardian EXCEPT ![p].at = "closing", ![p].listing = None, ![p].ok = FALSE]
    /\ UNCHANGED <<ownerVars, workerVars, rec, watchVars>>
(* A fault: a running phase is not stopped when its owner disappears. *)
AbandonBeforeWork(p) == At(p, "waiting") /\ ~OwnerLive /\ Fail(p)
Abandon(p) ==
    /\ guardian[p].at \in {"waiting", "running"}
    /\ ~OwnerLive
    /\ Fail(p)

(* close_members: look, terminate what was found, and look again; the last  *)
(* look, after the rounds or past the deadline, terminates nothing.  What it *)
(* found is checked once more for the terminal record: the look lasts until  *)
(* that is written.                                                          *)
CloseRound(p) ==
    /\ At(p, "closing") /\ Listed(p)
    /\ IF Members(p) = {} \/ guardian[p].rounds = CloseRounds
         THEN Discover(p, "writing", guardian[p].listing)
         ELSE Discover(p, "killing", None)

Terminate(p) ==
    /\ At(p, "killing")
    /\ live' = [live EXCEPT ![p] = @ \ guardian[p].known]
    /\ \E rounds \in {guardian[p].rounds + 1, CloseRounds} :
         guardian' = [guardian EXCEPT ![p].at = "closing", ![p].rounds = rounds]
    /\ UNCHANGED <<ownerVars, forked, slipped, working, exit, rec, watchVars>>

(* The terminal record: closed when nothing it knows still lives, unless   *)
(* the cleanup itself failed.                                              *)
WriteTerminal(p) ==
    /\ At(p, "writing")
    /\ \E cleaned \in BOOLEAN :
         rec' = [rec EXCEPT ![p].terminal =
                    IF ~cleaned \/ guardian[p].known \cap live[p] # {} THEN "open"
                    ELSE IF guardian[p].ok THEN "passed" ELSE "closed"]
    /\ guardian' = [guardian EXCEPT ![p] = Gone]
    /\ UNCHANGED <<ownerVars, workerVars, watchVars>>

GuardianKilled(p) ==
    /\ GuardianLive(p)
    /\ guardian' = [guardian EXCEPT ![p] = Gone]
    /\ UNCHANGED <<ownerVars, workerVars, rec, watchVars>>

GuardianStep(p) ==
    \/ Identify(p) \/ StartPayload(p) \/ RecordPayload(p) \/ ReleasePayload(p) \/ List(p)
    \/ Watch(p) \/ PayloadEnded(p) \/ Abandon(p) \/ CloseRound(p) \/ Terminate(p)
    \/ WriteTerminal(p)

-----------------------------------------------------------------------------
(* The payload and what it forks.                                          *)

(* await_release in the payload: its release, from a living parent.        *)
StartWork(p) ==
    /\ "payload" \in live[p] /\ ~working[p]
    /\ rec[p].payloadRelease /\ GuardianLive(p)
    /\ working' = [working EXCEPT ![p] = TRUE]
    /\ UNCHANGED <<ownerVars, guardian, live, forked, slipped, exit, rec, watchVars>>

LoseParent(p) ==
    /\ "payload" \in live[p] /\ ~working[p]
    /\ ~GuardianLive(p)
    /\ live' = [live EXCEPT ![p] = @ \ {"payload"}]
    /\ exit' = [exit EXCEPT ![p] = "failed"]
    /\ UNCHANGED <<ownerVars, guardian, forked, slipped, working, rec, watchVars>>

(* A look at the phase is under way, the guardian's or reconcile's. *)
Looking(p) ==
    \/ Listed(p)
    \/ observer.listing # None /\ observer.phase = p /\ observer.command = "reconcile"

Fork(p) ==
    /\ working[p]
    /\ \E parent \in live[p], k \in Kin \ forked[p] :
         /\ live' = [live EXCEPT ![p] = @ \cup {k}]
         /\ forked' = [forked EXCEPT ![p] = @ \cup {k}]
         /\ slipped' = [slipped EXCEPT ![p] =
                          @ \cup {s \in {k} : Looking(p) \/ parent \in slipped[p]}]
    /\ UNCHANGED <<ownerVars, guardian, working, exit, rec, watchVars>>

(* Writes before the seal are the build's own; a worker of a phase without *)
(* the offline guard can write the candidate at any time.                  *)
WriteCandidate(p) ==
    /\ working[p] /\ live[p] # {}
    /\ candidate = "sealed"
    /\ candidate' = "changed"
    /\ UNCHANGED <<owner, result, guardian, workerVars, rec, watchVars>>

WorkerExits(p) ==
    /\ working[p]
    /\ \E w \in live[p] :
         /\ live' = [live EXCEPT ![p] = @ \ {w}]
         /\ IF w = "payload" THEN \E code \in {"zero", "failed"} : exit' = [exit EXCEPT ![p] = code]
                            ELSE UNCHANGED exit
    /\ UNCHANGED <<ownerVars, guardian, forked, slipped, working, rec, watchVars>>

-----------------------------------------------------------------------------
(* status, as the command and as a continuation's reuse call it: the       *)
(* records are read first, then the owner, then the processes of one phase *)
(* after the other.                                                        *)

(* reconcile: a status that must find the owner dead, the termination of   *)
(* every recorded process, guardians included, and a second status.  A     *)
(* held run can be reconciled again; a closed one is asked no more.        *)
Reads(command) ==
    /\ observer.at = "idle" /\ command \notin reported
    /\ observer' = [Idle EXCEPT !.at = "owner", !.command = command, !.seen = rec]
    /\ UNCHANGED <<ownerVars, guardian, workerVars, rec, reported>>

FindOwner ==
    /\ observer.at = "owner"
    /\ observer' = IF OwnerLive THEN Idle
                   ELSE [observer EXCEPT !.at = IF observer.command = "status" THEN "judge"
                                                ELSE "terminate"]
    /\ UNCHANGED <<ownerVars, guardian, workerVars, rec, reported>>

(* A fault: only the recorded guardians are terminated. *)
TerminateGuardians ==
    /\ observer.at = "terminate"
    /\ guardian' = [p \in Phases |-> IF GuardianLive(p) /\ observer.seen[p].child # None
                                       THEN Gone ELSE guardian[p]]
    /\ observer' = [observer EXCEPT !.at = "reread", !.seen = Nothing]
    /\ UNCHANGED <<ownerVars, workerVars, rec, reported>>
TerminateKnown ==
    /\ observer.at = "terminate"
    /\ guardian' = [p \in Phases |-> IF GuardianLive(p) /\ observer.seen[p].child # None
                                       THEN Gone ELSE guardian[p]]
    /\ live' = [p \in Phases |-> live[p] \ Recorded(p, observer.seen)]
    /\ observer' = [observer EXCEPT !.at = "reread", !.seen = Nothing]
    /\ UNCHANGED <<ownerVars, forked, slipped, working, exit, rec, reported>>

(* The owner that was found dead stays dead. *)
Reread ==
    /\ observer.at = "reread"
    /\ observer' = [observer EXCEPT !.at = "judge", !.seen = rec]
    /\ UNCHANGED <<ownerVars, guardian, workerVars, rec, reported>>

(* One open phase holds the run; after the last one it is reported closed. *)
Conclude(closed) ==
    LET more == closed /\ observer.phase = "build" IN
    /\ observer' = IF more THEN [observer EXCEPT !.phase = "audit", !.listing = None] ELSE Idle
    /\ reported' = reported \cup {c \in {observer.command} : closed /\ ~more}
    /\ UNCHANGED <<ownerVars, guardian, workerVars, rec>>

(* Looked at is the group of a recorded guardian that is gone, when none of *)
(* the recorded processes is left.                                          *)
Judge ==
    LET p == observer.phase
        seen == observer.seen
        looks == ~StillActs(p, seen) /\ seen[p].child # None IN
    /\ observer.at = "judge" /\ observer.listing = None
    /\ IF looks /\ ~ClosedUnseen(p, seen)
         THEN /\ observer' = [observer EXCEPT !.listing = live[p]]
              /\ UNCHANGED <<ownerVars, guardian, workerVars, rec, reported>>
         ELSE Conclude(ClosedUnseen(p, seen))

(* group_live, having listed the pids: none of those is still there. *)
GroupGone ==
    /\ observer.listing # None
    /\ Conclude(observer.listing \cap live[observer.phase] = {})

Command(command) ==
    /\ observer.command = command
    /\ FindOwner \/ TerminateKnown \/ Reread \/ Judge \/ GroupGone

Status    == Reads("status") \/ Command("status")
Reconcile == Reads("reconcile") \/ Command("reconcile")

Next ==
    \/ OwnerStep \/ GiveUp \/ KillGuardian \/ OwnerKilled
    \/ \E p \in Phases :
         \/ GuardianStep(p) \/ Fail(p) \/ GuardianKilled(p)
         \/ StartWork(p) \/ LoseParent(p) \/ Fork(p) \/ WriteCandidate(p) \/ WorkerExits(p)
    \/ Status \/ Reconcile

(* The runner's own processes are scheduled and the wall limit passes (WF  *)
(* of GiveUp).  Nothing is assumed of what the payload does, of the        *)
(* operator, nor that anything is killed.                                  *)
Fairness ==
    /\ WF_vars(OwnerStep)
    /\ WF_vars(GiveUp)
    /\ \A p \in Phases : WF_vars(GuardianStep(p)) /\ WF_vars(LoseParent(p))
    /\ WF_vars(Command("status"))

RunSpec  == Init /\ [][Next]_vars
Spec == RunSpec /\ Fairness

-----------------------------------------------------------------------------
NothingLives == \A p \in Phases : live[p] = {}

(* All that lives of the phase slipped through a look. *)
Quiet(p) == live[p] \subseteq slipped[p]

(* A run that reconcile reported closed stays without a process, but for   *)
(* one that was forked under the look that closed its phase, and those it  *)
(* forks: no worker the records name lives, nor any that was there to be   *)
(* listed, and no guardian is left that could start a payload.             *)
ReconciledIsFinal == "reconcile" \in reported => \A p \in Phases : Quiet(p)

(* The same of the verdict of one status command, which a continuation     *)
(* trusts when it reuses the build (phase_closure: "Return why no process  *)
(* of this phase can still act").                                          *)
StatusIsFinal == "status" \in reported => NothingLives

(* A payload works only after its identity is durable, so that whoever     *)
(* cleans up after a lost guardian can find it.                            *)
WorkIsRecorded ==
    \A p \in Phases : working[p] => rec[p].child # None /\ "payload" \in rec[p].child

(* The audit starts only over a build of which no process is left that its *)
(* guardian's last look could see; and a successful result stands for the  *)
(* candidate as sealed, with no process left that could still change it,   *)
(* unless one slipped through that look.                                   *)
AuditAlone == guardian["audit"].at # "none" => Quiet("build")
SuccessIsSealed ==
    result = "built-and-audited" =>
        /\ \A p \in Phases : Quiet(p)
        /\ candidate = "sealed" \/ \E p \in Phases : slipped[p] # {}

(* Processes in a dead guardian's group that no record names: they hold    *)
(* the run for manual inspection.                                          *)
Unrecorded(p) == live[p] \ Recorded(p, rec)

(* Whatever the payload does, the run ends: with a result, or killed.      *)
RunEnds == <>(owner.at \in {"done", "dead"})

(* When an operator keeps reconciling, a run without an owner is closed in *)
(* the end, wherever its processes were, unless a process nobody recorded  *)
(* outlives its guardian (docs/operational-runner.md: "no longer leaves a  *)
(* run held forever").                                                     *)
EventuallyClosed ==
    SF_vars(Reconcile) =>
        (~OwnerLive ~> ("reconcile" \in reported \/ \E p \in Phases : Unrecorded(p) # {}))

(* A guardian that outlives its owner ends the phase by itself; when       *)
(* processes are left, other than slipped ones, it was killed, or its      *)
(* terminal record says so.                                                *)
GuardianEndsWork ==
    \A p \in Phases :
        (~OwnerLive /\ guardian[p].at = "running")
            ~> (guardian[p].at = "gone" /\ (Quiet(p) \/ rec[p].terminal \in {None, "open"}))
-----------------------------------------------------------------------------
(* The inductive invariant. *)

(* What a phase's records and its guardian's place say of its processes:   *)
(* there are none before the release, none but slipped ones after a closed *)
(* terminal record, and the child record is what the guardian knows.       *)
ClosedBy(r) == r.terminal \in {"passed", "closed"}

PhaseFacts(g, r, alive, started, works) ==
    /\ alive \subseteq started /\ g.known \subseteq started
    /\ ~r.launch => g.at = "none"
    /\ g.at = "none" => g = Start
    /\ g.at \in {"none", "started"} => r.child = None
    /\ r.child = None => ~r.release
    /\ ~r.release \/ g.at = "waiting" => started = {}
    /\ g.at = "spawned" => "payload" \in started
    /\ g.at = "identified" => "payload" \in g.known
    /\ g.at \notin {"none", "started", "gone"} => r.child = g.known
    /\ r.payloadRelease => r.child # None /\ "payload" \in r.child
    /\ works => r.payloadRelease
    /\ r.terminal # None => g.at = "gone"
    /\ g.at = "killing" => g.rounds # CloseRounds

(* Whatever lives was listed by the look under way or slipped through it;  *)
(* what the last look found is known, and what a closed record leaves      *)
(* alive slipped.                                                          *)
LookFacts(g, r, alive, slip) ==
    /\ g.listing # None => /\ g.at \in {"running", "closing", "writing"}
                           /\ alive \subseteq g.listing \cup slip
    /\ g.at = "writing" => g.listing # None /\ alive \subseteq g.known \cup slip
    /\ ClosedBy(r) => alive \subseteq slip

PhasesInv ==
    \A p \in Phases : /\ PhaseFacts(guardian[p], rec[p], live[p], forked[p], working[p])
                      /\ LookFacts(guardian[p], rec[p], live[p], slipped[p])
                      /\ slipped[p] \subseteq forked[p]

(* While the owner has met no error, the phases it left are closed. *)
Succeeded == (owner.at = "finish" /\ owner.ok) \/ result = "built-and-audited"

OwnerInv ==
    /\ owner.phase = "audit" \/ rec["audit"].launch => ClosedBy(rec["build"])
    /\ owner.at = "spawn" => rec[owner.phase].launch /\ guardian[owner.phase].at = "none"
    /\ owner.at \in {"stop", "orphans", "seal", "census"} /\ owner.ok =>
           rec[owner.phase].terminal = "passed"
    /\ owner.at = "seal" => owner.phase = "build"
    /\ owner.at = "census" => owner.phase = "audit"
    /\ Succeeded => /\ ClosedBy(rec["build"]) /\ ClosedBy(rec["audit"])
                    /\ candidate = "sealed" \/ \E p \in Phases : slipped[p] # {}
    /\ result # None => owner.at = "done"

(* No process of the phase acts again, slipped ones apart. *)
Over(p) == Quiet(p) /\ (GuardianLive(p) => live[p] = {})

(* Past the owner's death reconcile judges from records that say what the  *)
(* current ones say of launches, releases and terminal records; the phases *)
(* it has passed are over.                                                 *)
ObserverInv ==
    /\ observer.at \in {"terminate", "reread", "judge"} => ~OwnerLive
    /\ observer.at # "judge" => observer.phase = "build" /\ observer.listing = None
    /\ observer.at = "judge" /\ observer.command = "reconcile" =>
           /\ \A p \in Phases :
                  /\ observer.seen[p].launch = rec[p].launch
                  /\ observer.seen[p].release = rec[p].release
                  /\ observer.seen[p].terminal # None =>
                         observer.seen[p].terminal = rec[p].terminal
           /\ observer.phase = "audit" => Over("build")
           /\ observer.listing # None =>
                  /\ ~GuardianLive(observer.phase)
                  /\ live[observer.phase] \subseteq observer.listing \cup slipped[observer.phase]
    /\ "reconcile" \in reported => ~OwnerLive /\ \A p \in Phases : Over(p)

(* The conjunction, inductive: what run_phase, the guardian and reconcile   *)
(* rely on of one another's records.                                       *)
Inv == TypeOK /\ PhasesInv /\ OwnerInv /\ ObserverInv
=============================================================================
