--------------------------- MODULE NativeConversion ---------------------------
(***************************************************************************)
(* native_conversion.py over the publication protocol: a command converts  *)
(* a published family to a native generation and publishes it, and another *)
(* one rolls it back.  Both keep one durable receipt per conversion,       *)
(* written before the pointer can move and again when the outcome is       *)
(* known; the stored index settles what a lost answer left open.           *)
(*                                                                         *)
(* A converter stands for one conversion with its own work directory, so   *)
(* it has one receipt.  A rollback starts after the conversion's command   *)
(* has ended.  The proofs, checkpoints and source states that qualify a    *)
(* conversion either pass or end it (Die).  publishedAt is left out, and   *)
(* with it the outcome that only publishedAt changed.                      *)
(***************************************************************************)
EXTENDS Publication

CONSTANT Converters     \* the publishers that are conversions

Outcomes == {"none", "attempted", "published", "moved", "not moved", "moved elsewhere"}
Receipt  == [family     : Families,
             captured   : Generations,   \* the entry the conversion replaces
             generation : Generations,   \* the one it means to publish
             publish    : Outcomes,      \* publish_attempt
             rollback   : {"none", "attempted", "restored", "not restored"}]

ASSUME ConversionAssumption ==
    /\ Converters \subseteq Publishers
    /\ Publishers \cap Operators = {}
    /\ None \notin Converters
    /\ None \notin Receipt

VARIABLES receipt,      \* conversion.json, None before it is written
          command,      \* where each conversion and rollback command is
          rolling,      \* the receipt a rollback works from
          waived        \* history: receipts for which --discard-newer was given

cvars == <<vars, receipt, command, rolling, waived>>

Commands == Converters \cup Operators
Steps    == {"ready", "built", "running", "returned", "raised", "ended"}

ConversionTypeOK ==
    /\ receipt \in [Converters -> Receipt \cup {None}]
    /\ command \in [Commands -> Steps]
    /\ rolling \in [Operators -> Converters \cup {None}]
    /\ waived \subseteq Converters

CInit ==
    /\ Init
    /\ receipt = [c \in Converters |-> None]
    /\ command = [w \in Commands |-> "ready"]
    /\ rolling = [o \in Operators |-> None]
    /\ waived = {}

At(w, step) == command[w] = step
GoTo(w, step) == command' = [command EXCEPT ![w] = step]
Stored(f) == Entries(pointer)[f]

-----------------------------------------------------------------------------
(* convert *)

Native(layout) == layout.receipts # {}

(* A family that is published, not native yet, and whose receipts, shared  *)
(* logs apart, no other family of the captured index holds.                *)
Convertible(f, layout) ==
    /\ Stored(f) # None /\ ~Native(root[Stored(f)].layout)
    /\ Native(layout)
    /\ \A h \in Families \ {f} : Stored(h) # None => Claims(Stored(h)) \cap layout.receipts \subseteq SharedLogs

(* Capture the entry, convert it, and write the receipt that names both. *)
Capture(c, f, read, layout, g) ==
    /\ Convertible(f, layout)
    /\ Build(c, f, read, layout, g)
    /\ receipt' = [receipt EXCEPT ![c] = [family |-> f, captured |-> Stored(f), generation |-> g,
                                          publish |-> "none", rollback |-> "none"]]
    /\ GoTo(c, "built")
    /\ UNCHANGED <<rolling, waived>>

(* A fault: the work directory of an earlier conversion is used again. *)
ConvertAgain(c, f, read, layout, g) ==
    /\ command[c] \in {"ready", "ended"}
    /\ Capture(c, f, read, layout, g)

(* A work directory that is not empty is refused. *)
Convert(c, f, read, layout, g) ==
    /\ At(c, "ready")
    /\ Capture(c, f, read, layout, g)

(* publish_prepared: another command publishes the generation of a dry run, *)
(* or one sealed later by resume_prepared.  Only a receipt without an      *)
(* attempt, for the captured entry; with moved parents it is refused.      *)
PublishPrepared(c) ==
    LET r == receipt[c]  built == root[r.generation] IN
    /\ At(c, "ended")
    /\ r # None /\ r.publish = "none"
    /\ Stored(r.family) = r.captured
    /\ Build(c, r.family, {h \in Families : built.parents[h] # None}, built.layout, r.generation)
    /\ GoTo(c, "built")
    /\ UNCHANGED <<receipt, rolling, waived>>

(* A fault: the publish call starts before the receipt says so. *)
AttemptUnrecorded(c) ==
    /\ At(c, "built")
    /\ GoTo(c, "running")
    /\ UNCHANGED <<vars, receipt, rolling, waived>>

(* The rollback file exists before the pointer can move. *)
RecordAttempt(c) ==
    /\ At(c, "built")
    /\ receipt' = [receipt EXCEPT ![c].publish = "attempted"]
    /\ GoTo(c, "running")
    /\ UNCHANGED <<vars, rolling, waived>>

(* The publish call: it goes on, returns, or raises. *)
PublishGoesOn(c) ==
    /\ At(c, "running")
    /\ Begin(c) \/ (\E key \in Keys : Upload(c, key)) \/ Admit(c) \/ Reread(c) \/ Swap(c) \/ TimeOut(c)
    /\ ~Free(c)'
    /\ UNCHANGED <<receipt, command, rolling, waived>>

PublishReturns(c) ==
    /\ At(c, "running")
    /\ Swap(c) /\ pointer = job[c].seen
    /\ GoTo(c, "returned")
    /\ UNCHANGED <<receipt, rolling, waived>>

PublishRaises(c) ==
    /\ At(c, "running")
    /\ RefuseBuild(c) \/ Reread(c) \/ TimeOut(c) \/ Fail(c)
    /\ Free(c)'
    /\ GoTo(c, "raised")
    /\ UNCHANGED <<receipt, rolling, waived>>

RecordPublished(c) ==
    /\ At(c, "returned")
    /\ receipt' = [receipt EXCEPT ![c].publish = "published"]
    /\ GoTo(c, "ended")
    /\ UNCHANGED <<vars, rolling, waived>>

(* The call raised: the stored index says which of three states holds, or  *)
(* cannot be read.                                                         *)
SettlePublish(c) ==
    LET r == receipt[c] IN
    /\ At(c, "raised")
    /\ \/ receipt' = [receipt EXCEPT ![c].publish =
                         IF Stored(r.family) = r.captured THEN "not moved"
                         ELSE IF Stored(r.family) # r.generation THEN "moved elsewhere"
                         ELSE "moved"]
       \/ UNCHANGED receipt
    /\ GoTo(c, "ended")
    /\ UNCHANGED <<vars, rolling, waived>>

(* A refusal before the publish call, or the end of the process anywhere. *)
Die(c) ==
    /\ command[c] \notin {"ready", "ended"}
    /\ GoTo(c, "ended")
    /\ IF Free(c) THEN UNCHANGED vars ELSE Fail(c)
    /\ UNCHANGED <<receipt, rolling, waived>>

-----------------------------------------------------------------------------
(* rollback *)

(* A fault: whatever the family names is rolled back. *)
AnyGeneration(r, discard) == TRUE
(* What the family must name: the captured generation, or the converted    *)
(* one, unless newer ones are to be discarded.                             *)
MayRollBack(r, discard) ==
    Stored(r.family) \in {r.captured, r.generation} \/ discard

(* The receipt says a rollback is attempted before restore_family starts.  *)
StartRollback(o, c, discard) ==
    LET r == receipt[c] IN
    /\ command[o] \in {"ready", "ended"}
    /\ At(c, "ended")
    /\ r # None /\ r.publish # "none"
    /\ MayRollBack(r, discard)
    /\ StartRestore(o, r.family, r.captured, IF discard THEN None ELSE Stored(r.family))
    /\ receipt' = [receipt EXCEPT ![c].rollback = "attempted"]
    /\ GoTo(o, "running")
    /\ rolling' = [rolling EXCEPT ![o] = c]
    /\ waived' = IF discard THEN waived \cup {c} ELSE waived

RestoreGoesOn(o) ==
    /\ At(o, "running")
    /\ RestoreRead(o) \/ Swap(o) \/ TimeOut(o)
    /\ ~Free(o)'
    /\ UNCHANGED <<receipt, command, rolling, waived>>

RestoreReturns(o) ==
    LET r == receipt[rolling[o]] IN
    /\ At(o, "running")
    /\ \/ RestoreRead(o) /\ job'[o].phase = "idle"
       \/ Swap(o) /\ pointer = job[o].seen
    /\ GoTo(o, "returned")
    /\ UNCHANGED <<receipt, rolling, waived>>

RestoreRaises(o) ==
    /\ At(o, "running")
    /\ \/ RestoreRead(o) /\ job'[o].phase = "refused"
       \/ TimeOut(o) /\ Free(o)'
       \/ Fail(o)
    /\ GoTo(o, "raised")
    /\ UNCHANGED <<receipt, rolling, waived>>

RecordRestored(o) ==
    /\ At(o, "returned")
    /\ receipt' = [receipt EXCEPT ![rolling[o]].rollback = "restored"]
    /\ GoTo(o, "ended")
    /\ UNCHANGED <<vars, rolling, waived>>

SettleRollback(o) ==
    LET r == receipt[rolling[o]] IN
    /\ At(o, "raised")
    /\ \/ receipt' = [receipt EXCEPT ![rolling[o]].rollback =
                         IF Stored(r.family) = r.captured THEN "restored" ELSE "not restored"]
       \/ UNCHANGED receipt
    /\ GoTo(o, "ended")
    /\ UNCHANGED <<vars, rolling, waived>>

-----------------------------------------------------------------------------
Converts(c) ==
    \E f \in Families, layout \in Layouts, g \in Generations :
        \E read \in SUBSET (Families \ {f}) : Convert(c, f, read, layout, g)

Conversion(c) ==
    \/ Converts(c)
    \/ PublishPrepared(c) \/ RecordAttempt(c) \/ PublishGoesOn(c) \/ PublishReturns(c) \/ PublishRaises(c)
    \/ RecordPublished(c) \/ SettlePublish(c) \/ Die(c)

Rollback(o) ==
    \/ \E c \in Converters, discard \in BOOLEAN : StartRollback(o, c, discard)
    \/ RestoreGoesOn(o) \/ RestoreReturns(o) \/ RestoreRaises(o)
    \/ RecordRestored(o) \/ SettleRollback(o) \/ Die(o)

(* The scheduled publishers, and requests that arrive late. *)
Others ==
    /\ \/ \E w \in Publishers \ Converters :
             \/ Builds(w) \/ Begin(w) \/ RefuseBuild(w) \/ (\E key \in Keys : Upload(w, key))
             \/ Admit(w) \/ Reread(w) \/ Swap(w) \/ TimeOut(w) \/ Fail(w)
       \/ \E put \in late : Arrive(put)
    /\ UNCHANGED <<receipt, command, rolling, waived>>

CNext ==
    \/ \E c \in Converters : Conversion(c)
    \/ \E o \in Operators : Rollback(o)
    \/ Others

CSpec == CInit /\ [][CNext]_cvars
-----------------------------------------------------------------------------
(* Properties. *)

(* Whenever a conversion has moved the pointer, also by a request that     *)
(* arrived after its process died, its receipt alone is enough to undo it: *)
(* it records the attempt and the entry that was replaced, that entry's    *)
(* members are all stored, and while the family names the conversion no    *)
(* other family has taken a name the entry claims.                         *)
ReceiptSuffices ==
    \A c \in Converters, g \in Generations : <<c, g>> \in landed =>
        LET r == receipt[c] IN
        /\ r # None /\ r.generation = g /\ r.publish # "none"
        /\ r.captured = root[g].prior
        /\ r.captured \in EverSelected /\ Complete(r.captured)
        /\ Stored(r.family) = g => OwnershipFree(r.family, r.captured, Entries(pointer))

(* A family goes forward to a generation built from the one it names, or   *)
(* back from a conversion to what that replaced.  Anything else discards a *)
(* generation, and needs --discard-newer for that conversion, however the  *)
(* commands, the scheduled runs and late requests interleave.              *)
NothingDiscardedUnseen ==
    [][\A f \in Families : Stored(f)' # Stored(f) =>
          \/ Stored(f)' # None /\ root'[Stored(f)'].prior = Stored(f)
          \/ Stored(f) # None /\ \E c \in Converters :
                receipt[c] # None /\ receipt[c].generation = Stored(f) /\ receipt[c].captured = Stored(f)'
          \/ \E c \in waived : receipt[c].captured = Stored(f)']_cvars

(* The commands use the protocol as its proofs assume: each of their steps *)
(* is one of Publication's, or leaves the bucket alone.                    *)
KeepsTheProtocol == Spec

-----------------------------------------------------------------------------
(* The inductive invariant: what each receipt says of the request that     *)
(* could still move the pointer in its name.                               *)

Undertaken(c, g) ==
    receipt[c] # None /\ receipt[c].generation = g /\ receipt[c].publish # "none"

(* The conversion whose receipt a restoring request would carry out. *)
Restoring(c, f, target, found) ==
    /\ receipt[c] # None /\ receipt[c].family = f /\ receipt[c].captured = target
    /\ c \in waived \/ found \in {receipt[c].captured, receipt[c].generation}

ReceiptsInv ==
    \A c \in Converters : receipt[c] # None =>
        /\ root[receipt[c].generation] # None
        /\ root[receipt[c].generation].family = receipt[c].family
        /\ root[receipt[c].generation].prior = receipt[c].captured
        /\ ~Native(root[receipt[c].captured].layout)

ConvertersInv ==
    \A c \in Converters :
        /\ At(c, "ready") <=> receipt[c] = None
        /\ At(c, "running") => receipt[c].publish # "none"
        /\ ~Free(c) => command[c] \in {"built", "running"} /\ job[c].target = receipt[c].generation
        /\ job[c].phase \in {"staging", "swapping", "reread"} => At(c, "running")

(* What a publish call returned, and a receipt records, did happen.  (A     *)
(* receipt that says "not moved" may be overtaken by a late request.)      *)
ReportsInv ==
    \A c \in Converters :
        receipt[c] # None /\ (At(c, "returned") \/ receipt[c].publish \in {"published", "moved"}) =>
            receipt[c].generation \in EverSelected

OperatorsInv ==
    \A o \in Operators :
        /\ command[o] \in {"running", "returned", "raised"} =>
               rolling[o] \in Converters /\ receipt[rolling[o]] # None
        /\ ~Free(o) =>
               /\ At(o, "running") /\ job[o].restore
               /\ Restoring(rolling[o], job[o].family, job[o].target, job[o].expected)
               /\ job[o].expected = None => rolling[o] \in waived
        /\ job[o].phase = "swapping" /\ job[o].expected # None =>
               Entries(job[o].seen)[job[o].family] = job[o].expected

OnlyOperatorsRestore == \A w \in Publishers : ~Free(w) => ~job[w].restore

Authorised(put) ==
    /\ put.writer \in Converters => ~put.restore /\ Undertaken(put.writer, put.target)
    /\ put.restore => \E c \in Converters :
           Restoring(c, put.family, put.target, Entries(put.expect)[put.family])

RequestsInv == \A put \in late : Authorised(put)

LandedInv ==
    \A c \in Converters, g \in Generations : <<c, g>> \in landed => Undertaken(c, g)

CInv ==
    /\ ConversionTypeOK
    /\ ReceiptsInv
    /\ ConvertersInv
    /\ ReportsInv
    /\ OperatorsInv
    /\ OnlyOperatorsRestore
    /\ RequestsInv
    /\ LandedInv
=============================================================================
