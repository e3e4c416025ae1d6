# Formal models of Spicy Regs

TLA+ models of the parts of Spicy Regs where several jobs or processes meet:
how table families are published, converted, rolled back and retired in one
object-storage bucket, how the regulations ETL retires the keys it has read, how the comments
catalog and its public mirror stay in step, how a materialized dataset moves its
pointer, and how an admitted operational run is started, watched and closed. The
models are translated from `src/src/spicy_regs/`; paths below are relative to that directory
unless they start with `docs/`. `PROJECT.json` maps each definition to the lines it
models, and lists the runs, the hazards and the theorems.

To repeat the results, in this directory (section 4 lists the other runs):

    tlc -workers 2 -config Rollback.cfg    MCPublication.tla
    tlc -workers 2 -config Regulations.cfg MCRegulations.tla
    tlapm PublicationProofs.tla

## 1. Inventory

The program is a set of batch jobs, started by a scheduler or by an operator,
that share one bucket and one Iceberg catalog. There is no server that
orders them: everything that coordinates two jobs is a conditional write.

| Component | State it keeps | Operations | Hard behaviour | What makes it correct |
|---|---|---|---|---|
| **Publication protocol** `sources/publication.py` | the pointer object `publication.v2.json` (the index: one entry per family); immutable generations under content-addressed prefixes | capture the index, stage, upload, read back, move the pointer with `If-Match`, reread and retry, roll back | races between writers, lost answers and resent requests, crashes midway, resumed uploads | the pointer names only complete generations; a name has one owner; a publication is atomic; one write changes one family |
| **Generation construction** `generations.py` | none beyond a local prefix | read the captured inputs, state prior and parents in the root, admit a prefix | the captured index is stale by the time it is used | the selected generation was built from what the index named |
| **Retention** `generation_retention.py` | none; it reads the index, a listing, roots and pins | plan, plan again, delete members | deletes from what it read earlier, while publishers go on; partly failed deletions | nothing current, recent, pinned, in flight or needed by those is deleted |
| Rollup pipelines `pipelines/rollups/` | local work files | capture, transform, build, publish | long time between capture and publish | (via the protocol) |
| **Native family conversion** `native_conversion.py`, `conversion_reads.py` | one durable receipt per conversion | convert a family, record the attempt before the pointer write and the outcome after it, publish a dry run later, roll back | dies between the two records; a write whose answer was lost lands later; scheduled runs go on | the receipt alone can undo whatever the conversion moved; nothing newer is discarded unasked |
| FEC conversion and release `fec_*.py` | two families' entries | publish two families in one swap, held unchanged to the byte | another write of either family, including one that only changes `publishedAt` | both or neither |
| **Rulemaking dataset** `pipelines/materialized.py`, `pipelines/rulemaking_dataset.py` | `latest.json` over immutable snapshots | capture the previous snapshot, build, upload artifacts and manifest, swap its own pointer | inputs hours old, overlapping runs, lost answers; the base class swaps without a condition | snapshots are complete when selected and form one chain |
| **Regulations ETL** `pipelines/regulations*.py`, `manifest.py`, `pipelines/staging.py` | the manifest of processed keys (published and local), failed-key checkpoints, staged rows | stage, publish documents, merge comments, save checkpoints, publish the manifest last | a crash between any two, overlapping runs, kept output directories | no retired key lacks its rows; failed keys are retried until they land |
| **Comments catalog** `sources/iceberg.py`, `sources/regulatory_catalog.py` | Iceberg tables and their snapshots | checked MERGE, exports pinned to a snapshot | another writer commits between the read and the MERGE | no accepted row is lost to a stale winner |
| **Comments mirror** `pipelines/comments_mirror.py`, `comments_generation.py` | fixed public keys and a receipt | replace the files, write the receipt last, skip when it matches | a crash leaves two snapshots mixed; agencies come and go | a matching receipt means matching files, and is reached in the end |
| Comment repairs `pipelines/comment_fields*.py`, `prior_repairs.py` | catalog rows | operator repairs | as the catalog | as the catalog |
| **Operational runner** `operational_runner.py`, `operational_prepare.py` | phase records of a run | owner, guardian and payload processes; status; reconcile | any of them dies anywhere | a run is closed only when nothing of it lives |
| Source catalog `source_catalog/` | raw archive, selection | import, export, select | a second content-addressed store | as the protocol |
| Receipts and evidence `etl_receipts.py`, `etl_bulk.py`, `source_evidence.py` | per-row receipts | record, verify | none of its own | data validation |
| Readers `remote_generations.py`, `selected_generations.py`, `explorer_publications.py`, `local_data.py` | local copies | resolve a pin, download with resume | an object replaced during a resumed download | never bytes of two versions |
| Object storage helpers `sources/r2.py`, `sources/cloudflare.py` | none | clients, uploads, purges | default client retries | pure I/O |
| Audits `generation_audit.py`, `receipt_history.py`, `navigation_measurements.py` | none | walk the chain of roots | chain truncated by deletions | read-only |
| Transforms, source readers | none | data processing | none | unit-testable |
| MCP server, CLI, scorecards | none | queries and reports | none | presentation |

The components in bold are modelled. They meet in three places: the index
(publishers, conversions, rollbacks, retention and readers), the bucket's
generations (publishers create them, retention deletes from them, readers and
rollbacks read them), and the catalog (regulations, comments, repairs and the
mirror). The operational runner stands apart: it runs one of these jobs as a
payload of processes that may die.

## 2. Plan

Done, in this order:

1. `Selection` (abstract), `Publication` and its proofs, `Retention` composed with it.
2. `OperationalRunner`: owner, guardian and payload with durable records, status and reconcile, and its proofs.
3. `RulemakingDataset` and its proofs.
4. `RegulationsEtl` and its proofs.
5. `CommentsCatalog`, `CommentsMirror` composed with it, and their proofs.
6. `NativeConversion` composed with `Publication`, and its proofs.
7. Proofs about `Retention`.
8. `CommentTable` (abstract), implemented by `CommentsCatalog`.

Left, the most valuable first:

1. `RegulationsEtl`: `--full-refresh`, dockets and the pending comment text.
2. *Exact release*: `publishedAt` in the entries, two families in one
   swap (`publish_fec_release`), and the byte-for-byte check (`exact=True`).
3. *Resumable download* of `sources/publication.py`.
4. Two retention runs at once.

Every module keeps its parameters as CONSTANTS with a named assumption, one
action per operation, and no recursive operator (the chain walk and the parents
closure of `Retention` are least sets), so that it can be proved about.

## 3. Modules

| Module | Models | Extends |
|---|---|---|
| `Selection` | what the protocol promises: each publication reads, builds and selects in one atomic step; a rollback selects what was selected before | |
| `Publication` | the protocol as the code runs it, with its properties and its inductive invariant | |
| `PublicationProofs` | theorems about `Publication` | `Publication` |
| `Retention` | the retention run beside running publishers and operators | `Publication` |
| `RetentionProofs` | theorems about it | `Retention`, `PublicationProofs` |
| `NativeConversion` | the conversion and rollback commands beside running publishers | `Publication` |
| `ConversionProofs` | theorems about it | `NativeConversion`, `PublicationProofs` |
| `OperationalRunner` | one admitted run of two phases and the commands that judge it | |
| `RunnerProofs` | theorems about it | `OperationalRunner` |
| `RulemakingDataset` | the runs that replace `latest.json` of a materialized dataset | |
| `RulemakingProofs` | theorems about it | `RulemakingDataset` |
| `RegulationsEtl` | runs of the regulations ETL over published, local and catalog state | |
| `RegulationsProofs` | theorems about it | `RegulationsEtl` |
| `CommentTable` | what the comments table promises: each merge and each fill happens at once | |
| `CommentsCatalog` | the writers that keep that promise by checked replaces | instance of `CommentTable` |
| `CommentsMirror` | the public mirror beside those writers | `CommentsCatalog` |
| `MirrorProofs` | theorems about both | `CommentsMirror` |
| `MCPublication`, `MCConversion`, `MCRetention`, `MCRunner`, `MCRulemaking`, `MCRegulations`, `MCMirror` | instances and symmetry for TLC | |

### Publication

State:

| Variable | In the code |
|---|---|
| `pointer` | the stored `publication.v2.json`; `None` while the object is absent (`_stored_index`) |
| `root[g]` | `spec` of g's `artifact.json`: family, prior, parents, tables and receipt datasets |
| `stored` | the objects under the generations' prefixes |
| `job[w]` | the local variables of a running `publish_generation` or `restore_family` |
| `late` | `put_object` requests whose client gave up waiting |
| `landed` | history: whose publish moved the pointer, to what |

Actions:

| Action | In the code |
|---|---|
| `Build` | a pipeline captures the index, reads its parents through it, and calls `build_generation` |
| `Begin`, `RefuseBuild` | `publish_generation` up to staging: `_stored_index`, `_assert_family_unchanged`, the membership, parent and ownership checks of `_stage_verified_generation` |
| `Upload` | one create-only upload or server-side copy; an object already there counts as success |
| `Admit` | the read-back of the whole prefix |
| `Swap` | `_put_pointer` and the caller's reaction to its answer |
| `TimeOut`, `Arrive` | a request that is still under way when its client stops waiting; the client library resends it (the default retries of `sources/r2.py`), or the job ends |
| `Reread` | the lost race: reread the index, repeat the checks, try again while `_POINTER_ATTEMPTS` lasts |
| `StartRestore`, `RestoreRead` | `restore_family`, with the entry and the expectation that the rollback command of `native_conversion.py` passes |
| `Fail` | an exception, a refused content check or a crash, at any point |

Abstractions, and why the properties do not see them:

- A generation is its digest. Two builds with equal content are one generation,
  which is how two jobs come to upload one prefix at once.
- A generation has three members: the root, the receipts (`etl_receipts.parquet`,
  its key index, `members.json`) and the tables. Keys are taken in sorted order: the
  receipts after `artifact.json`, a table before or after it by its name
  (`amendments*.parquet` comes first). `Precedes` is this order; the proofs hold for
  every order, the runs use `RootBeforeReceipts`, where the tables come anywhere, and, with
  retention, `TablesFirst`, where a prefix may be listed before it has a root.
- Shared receipt logs (`shared_receipt_logs()`, the constant `SharedLogs`) are the one exception to
  "no receipt dataset leaves" (`MembershipHeld`): an entry written before logs were shared
  lists one, its successors need not. No build lists one today; a layout may, for those entries.
- A member that the prior has unchanged is copied by the server after a `HEAD`
  (`_copy_unchanged_member`). The copy itself is unconditional; two that race write the same bytes, and
  may renew the object's timestamp, which is left out (section 7).
- The root's `readSnapshot` is reduced to the family's own entry and the
  managed parents: the protocol rechecks no other entry. Parents that the index
  does not manage are left out.
- An entry's `publishedAt` is left out; hence two entries of one generation
  are equal. The exact comparison of the conversions, which does see it, is
  not modelled. Leaving it out lets an ETag come back more often than in
  the code, where it needs a rollback to the very same bytes.
- The pointer's ETag is a digest of its bytes, so `If-Match` is equality with
  the index that was read.
- Shrink guards, partition checks, evidence lineage and digests either pass or
  end the job, which is `Fail`. Evidence objects and conversion proofs are
  uploaded with the members and are not told apart from them.

### NativeConversion

| Variable | In the code |
|---|---|
| `receipt[c]` | `conversion.json` in conversion c's work directory; `None` before it is written |
| `command[w]` | where the process of a conversion or rollback is |
| `rolling[o]` | the receipt a rollback works from |
| `waived` | history: the receipts for which an operator gave `--discard-newer` |

| Action | In the code |
|---|---|
| `Convert` | `convert`: refuse a used work directory, capture the entry, check that the family is published, not native, and that its receipts, shared logs apart, collide with nobody, build, write the receipt |
| `PublishPrepared` | `publish_prepared`: a dry run's generation, only without an earlier attempt and over the captured entry |
| `RecordAttempt` | `_publish_conversion` saves the receipt with the attempt before the publish call |
| `PublishGoesOn`, `PublishReturns`, `PublishRaises` | that call, step by step as in `Publication` |
| `RecordPublished`, `SettlePublish` | the record after it: published, or what the reread of the stored index says (not moved, moved, moved elsewhere), or nothing when it cannot be read |
| `StartRollback` | `rollback` up to `restore_family`: the check of what the family names, and the record that a rollback is attempted |
| `RestoreGoesOn`, `RestoreReturns`, `RestoreRaises`, `RecordRestored`, `SettleRollback` | the restore and the record after it |
| `Die` | a refusal of a later check, or the end of the process, anywhere |
| `Others` | scheduled publishers, and requests that arrive late |

The commands drive `Publication`'s actions: a converter is a publisher and a
rollback an operator, and each step of theirs is one of the protocol's beside a step of
the command. A conversion has its own work directory, hence one receipt. A rollback
starts after its conversion's command ended; several may follow one another. A dry
run, a refusal and a death before the attempt leave the same receipt without an
attempt, of which `PublishPrepared` may take any up.

`ReceiptSuffices` says nothing of the outcome in the receipt, and cannot: "not moved" is what the
stored index said when it was read, and a request that was given up on may land after
that, even after a rollback that found nothing to undo. What the code promises, and what
holds, is that the receipt is enough for (another) rollback.

### Retention

| Variable | In the code |
|---|---|
| `gone` | members that were uploaded and have been deleted since: the bucket holds `stored \ gone` (`Bucket`) |
| `clock`, `written` | time, and when each generation's newest object was written |
| `pins` | the generations that the pin documents name: release notes, the DocSpec manifest, archives |
| `inputs` | what the current rulemaking snapshot was built from: native inputs by generation, source tables by the generations that hold their bytes |
| `keeper` | the run: the index, time, pins and inputs it read, the approved marks, what it still has to delete |
| `unindexed` | history: the families of which a plan deleted a generation without having found them in the index |

| Action | In the code |
|---|---|
| `Uploads`, `ReadsBack`, `RollsBack` | the steps of the protocol that meet the bucket: an upload creates what is missing, the read-back and a rollback's look at the objects find what is there |
| `Proceeds`, `Tick` | the protocol's other steps, and time |
| `Pin`, `Snapshot` | a document names one more published generation; another rulemaking snapshot becomes current |
| `ReadIndex` | `main` reads the pins and the time, `plan` reads the index; taken as one read |
| `Mark` | the rest of `plan`: list, read the roots and the rulemaking inputs, walk the chain, keep, mark. It refuses when the listing lacks what the index names or a native input; a plan that leaves nothing to delete is the run's end |
| `Delete`, `DeletePartly` | `execute` for one prefix; `DeleteObjects` may fail for some keys, and then the run raises |
| `Finish` | the run ends, refuses or dies |

The marks follow the code rule by rule: `KeptOnChain` (the newest `KEEP_LAST`
and the grace rule), `InFlight` (uploads off the chain that are newer than the
current generation), `Newest` (families the index does not name), `Pinned`, and
`WithParents`. `Pinned` are the pins and the native inputs, wherever they are, and of the source tables the
generations that are `Described`, which are those on a chain of the index: one that was
rolled back is deletable although a snapshot was built from its tables. A listed prefix may have no root yet; it has no
parents then, as in the code. The grace of a predecessor runs from the last upload of its
*successor*, as in the code. The chain (`Back`) and the parents (`WithParents`)
are each the least set closed under one step of the code's loop; `Place` counts
how far before the current generation one is. `execute` goes through the prefixes in sorted
order, the model in any order. One retention run is modelled. No two
generations are written at the same clock value.

What the properties leave out, and why. A family that the index does not name keeps
its newest generations by upload time alone. A first generation that was uploaded before
others and is published by a rerun, which uploads nothing again, is then not among the newest; a plan made at
that time may delete it, although its publish has read it back and is about to move the pointer.
(TLC shows this with `KeepLast` 1.) `CurrentStored`,
`RecentChainSpared` and `ParentsSpared` therefore speak of families that the deleting
plan found in the index, and of no family that lost a generation otherwise
(`unindexed`). Rollbacks are the other exception (section 6): the runs `retain`
and `parents` have none. `PlanHolds` needs neither exception: it says what a deletion may take
in terms of the index, pins and inputs its own plan read, not of what is current when it happens. Its run
has no operator, so what it does not show, a rollback in between, rests on the theorem `PlanIsHeld`, which is for
any number of operators.

### OperationalRunner

| Variable | In the code |
|---|---|
| `owner` | where `execute` / `run_phase` is, and whether it still runs without error |
| `guardian[p]` | the guardian process of a phase, its `known`, how often it looked again, and the `listing` of a look it has begun |
| `live[p]`, `forked[p]`, `working[p]`, `exit[p]` | the payload and what it started: alive, ever started, past `await_release`, ended how |
| `slipped[p]` | history: the processes forked under a look, and what those forked |
| `rec[p]` | the durable `{phase}-*.json` records |
| `candidate` | the candidate directory: open, sealed by the completion, or changed after it |
| `result`, `observer`, `reported` | `result.json`; a status or reconcile under way with the records it read, the phase it judges and a listing; the verdicts given |

The owner's, the guardian's and the payload's steps follow their functions one
by one; each durable record is a step, so that a death can fall between any
two. `GiveUp` is any check of the owner that fails, and in the end the wall limit;
`Fail` is the same in the guardian. `StopGuardian`, `KillGuardian` and
`CloseOrphans` are the `finally` of `run_phase`. `OwnerKilled`, `GuardianKilled`
and `WorkerExits` are deaths at any step. `Fork` adds processes; `WriteCandidate`
is a process that writes where it should no longer.

A look at the processes is two steps. `members` and `group_live` list pids first and check
each of them afterwards; a process that is forked in between is not listed, and when its parent
exits before it is checked, nothing of the two is found. So `List` and `Judge` take the listing, and `Watch`,
`PayloadEnded`, `CloseRound` and `GroupGone` check it later; forks and exits fall
in between, and what was forked there is `slipped`. `PayloadEnded` and the final look of `close_members` are looks of this kind, and
so is the observer's at the group of a lost guardian; it judges one phase after the other. `slipped[p]`
starts anew with each look of the guardian, whose next listing shows whatever lives by then.

Why a reconciled run is final, but for what was forked under the look that closed its phase:
reconcile goes on only after it found the owner
dead, so no guardian is started afterwards; its second status reads records that
only a guardian can still change; and a guardian without a release from a living owner
never starts a payload. A phase then counts as closed only by a closed
terminal record, or when guardian, recorded processes and the process group are
gone. `status` alone lacks the first step: section 6. The properties name what a look can miss
(`Quiet`: all that lives slipped); section 7 says what that amounts to. `SingleProcessIsFinal` is the
statement without the exception, for payloads that fork nothing.

Abstractions: an identity is a pid with its birth time and is not reused;
processes stay in the guardian's process group (the module's text calls leaving
it a limitation); one read of all records is one step; the last listing of a look stands
for all of its listings; the deadline of `close_members` may end its rounds after any of them. The run has at most
one fork per phase and two closing rounds.

### RulemakingDataset

`pointer` is `latest.json`, `objects[r]` what is stored under run r's
prefix, `previous[r]` the `previous_snapshot_id` of its manifest, `run[r]` its
progress and captured prior, `inflight` the pointer writes under way. `Build`
captures the prior, `Guard` and `Recheck` compare it with the stored pointer
before and after the uploads, `UploadManifest` waits for every artifact, `Send` and
`Arrive` are the two ends of the conditional put, `Resend` the client's retry
after a lost answer (its first request landed, is under way, or is gone), `Stop`
whatever ends a run. A snapshot's id hashes its run's id; a run stands for its
snapshot, and, since the pointer's bytes name one snapshot, for the ETag.

### RegulationsEtl

| Variable | In the code |
|---|---|
| `bucket` | the published documents generation, the published failed keys, `manifest.parquet` on R2 |
| `catalog` | the comments merged into the catalog |
| `local[w]` | `manifest.parquet` in the output directory w |
| `run[w]` | the run in w: its kind, its batches to do, the manifest it loaded, the index entries it captured, what it read and what failed |

An output directory of a runner is new for each run, a desk's is kept. One
run per directory; runs of different directories overlap. `unmoved` holds the families
nobody else published since the run captured the index, which is what
`publish_generation` checks (the theorem `Implements` of `PublicationProofs` is why a
publish can be one step here). The order `PublishDocuments`, `MergeComments`,
`SaveCheckpoints`, `Record`, `Upload` is that of `_run`; a chunked run has
no documents and keeps the index it captured. A first run and a manifest written before
failed keys were remembered are the initial states. A key that was read has
its row; `missed` are the keys whose read failed.

`Inv` states for every run what it may upload: the manifest in its directory
names only keys whose rows are held, or that are remembered as failed. It
assumes that a desk does not run with `skip_upload` (`VetAtDesk = FALSE`), although that is the
program's default: section 6 says what happens then.

### CommentsCatalog and CommentsMirror

A row is its agency, its modify date (or none, `NoDate`) and whether its text is filled; at one
date a comment names one agency. A staged row wins over no row, over a row without a date and
over an older one, as in the query for winners. A writer reads (`PrepareMerge`, `PrepareFill`),
holds the rows read and the rows to write, and replaces them in one transaction
(`Replace`) that compares the rows read with those in the table, as `replace_native` does.
`Compact` is the managed compaction: a new snapshot with the same rows;
`changed` is the last snapshot that was more than that. `CommentTable` says what this comes
to: a merge takes of its source the winners, a fill sets texts,
each in one step (`CommitsAreAtomic`). `RowsAdvance` keeps a filled text only at a date: the next undated row of
a source replaces an undated row with its text, by the rule for winners and without any race.

The mirror's steps are those of `publish_comments_mirror`: `Export` pins a
snapshot unless the receipt `Matches`, `Recheck` compares
catalog and predecessor (`StillCurrent`), then come the monolith, the agency files in any order,
the index, the generation, the receipt. A commit between `Recheck` and `UploadMonolith`, or later, makes what is
uploaded outdated; the receipt then names an outdated snapshot, and the next run publishes again. `Retained` are the agencies that keep an emptied
file. A file is its rows. `Die` falls between any two steps; only one mirror runs
at a time (the `comments-catalog-write` lock), while writers may overlap it, since a
write without the lock is only warned about.

## 4. Runs

`CHECK_DEADLOCK FALSE` is set because a bounded instance may come to rest: all
requests answered, the clock at its bound, every generation built or the run's
result written is a legitimate end. Generations, families, publishers, runs and artifacts
are symmetric where no liveness is checked (no definition orders them).

| Run | Instance | Checks |
|---|---|---|
| `rollback` | 1 publisher, 1 operator, 2 families, 2 generations, a shared log, tables uploaded anywhere, 1 late request (573,000 states) | `Inv` (with `TypeOK`), `OneOwner`, `SelectedComplete`, `ChainHeld`, `OneFamilyPerWrite`, `PublicationIsAtomic` |
| `conversion` | 1 conversion, 1 scheduled publisher, 1 operator, 1 family, 3 generations, tables uploaded anywhere, 1 attempt, 1 late request (2,620,000 states) | `CInv`, `ReceiptSuffices`, `NothingDiscardedUnseen` |
| `retain` | 2 publishers, 1 family, 3 generations, tables uploaded first, `KeepLast` 2, `Grace` 1, clock to 2 (201,000 states) | `RInv`, `CurrentStored`, `RecentChainSpared` |
| `parents` | 1 publisher, 2 families of which one may read the other, 3 generations, tables uploaded first, `KeepLast` 1, no grace, clock to 2, 1 pin or input (532,000 states) | `ParentsSpared`, `PlanHolds` |
| `runner` | two phases, one fork per phase, 2 closing rounds, deaths anywhere, status and reconcile at any time (384,000 states) | `Inv`, `ReconciledIsFinal`, `WorkIsRecorded`, `AuditAlone`, `SuccessIsSealed`, `RunEnds`, `EventuallyClosed`, `GuardianEndsWork` |
| `rulemaking` | 4 runs, each a bootstrap or not, 2 artifacts (221,000 states) | `Inv`, `SelectedComplete`, `PublishedStays`, `PriorIsReplaced` |
| `etl` | a runner and a desk, a batch with a document and one with a comment, sweeps, single batches, chunked and vetting runs, 2 crashes or unscheduled runs (472,000 states) | `Inv`, `RetiredIsHeld`, `DocumentsGrow`, `KeyLands` |
| `mirror` | 1 comment without a date or with one of 2, which moves between 2 agencies, 2 writers, 2 commits, 1 death (655,000 states) | `Inv`, `ListedIsWhole`, `MirrorIsWhole`, `RowsAdvance`, `CommitsAreAtomic`, `MirrorConverges` |
| `status_race`, `restore_race`, `vetted_desk`, `stale_agency` | see section 6 | one documented claim each, violated |

Why the bounds are enough for what is asked:

- A publisher and an operator make every race of the swap loop (each attempt is against *some*
  other write); two publishers race in `conversion` and `retain`, with a third
  generation, so that a race is lost to one generation and the family then moves
  on to another. All properties of `rollback` are also proved, for any number of each.
- Two families make cross-family overwrites, ownership conflicts and stale
  parents. The layouts are chosen to collide: two families may claim one table,
  one layout moves a table into its receipts, the only way to drop it, and one lists the
  shared log that its successor does not.
- Two attempts are one retry and the refusal at the bound; the attempts beyond
  repeat the same step (`MaxAttempts` stands for `_POINTER_ATTEMPTS` = 8, and
  the proofs hold for every value).
- One late request beside a running writer and an operator shows the late
  arrival, the double arrival and the arrival after a rollback that
  brought the old index back.
- In `conversion`, three generations are the old one, the conversion and a
  scheduled publish on top of either; one attempt, because a lost race is then settled
  from the stored index at once. The proofs hold for any number of conversions and operators.
  That every step is one of `Publication`'s (`KeepsTheProtocol`) is proved; TLC was used on
  it only with two generations.
- In `retain` and `parents`, `KeepLast` and `Grace` are smaller than the code's
  (3 and six hours) so that generations do get deleted among three; the
  violation run about retention uses the code's `KEEP_LAST` of 3. Three clock values are one
  upload time for each generation. Tables come first so that a prefix without a root is listed,
  and marked where nothing protects it. The one pin is a document's, a native
  input or a source table; each is kept for itself, by a rule of its own. In `parents` no generation lists a name: the families' names
  never collide, and no property there is about them.
- In `runner`, one fork is a process the payload did not wait for, and is enough for one to slip
  through a look, the guardian's or reconcile's; two rounds are a closing that finds somebody and one that
  does not, or the final look after both did. The proofs hold for any number of forks and rounds.
- In `rulemaking`, four runs are a chain of three snapshots and one more run
  whose late write meets any of them. The proofs hold for any number.
- In `etl`, two batches make a sweep that stops half way; two
  disturbances are a desk run beside a sweep that is then crashed, or a crash and
  another one in its repetition.
- In `mirror`, the comment's row of the later date names another agency, so that an agency
  loses its last row. Two commits are a row and the one that replaces it, dated or not; or a read, the
  commit of another writer, and the replace it refuses; the proofs hold for any number. `MirrorIsWhole` holds for one death only (section 6), and is proved
  of every instance until then; `ListedIsWhole` is proved for any number.

Fairness. It is stated in three modules, for what the program or its scheduler does by itself:

- `OperationalRunner`: the owner's, the guardians' and a waiting payload's steps
  (processes the machine schedules), and `GiveUp`, since every tick fails once
  the wall limit passed. Nothing is assumed of what the payload does once it works. With
  that, `RunEnds` and `GuardianEndsWork` hold. `EventuallyClosed` assumes in the
  property itself that an operator keeps reconciling (strong fairness, because a
  status may hold the observer in turn), and excepts processes nobody recorded, which hold
  the run for inspection as the document says.
- `RegulationsEtl`: a started run goes on, and the schedule starts sweeps again
  and again. Crashes and unscheduled runs are bounded by `Disturbances`.
- `CommentsMirror`: the scheduled mirror is run again and again and its steps
  end. The bounded catalog becomes quiet; `MirrorConverges` is about that rest.

`Publication`, `NativeConversion`, `Retention` and `RulemakingDataset` have no fairness: nothing in
those batch jobs guarantees that one ends, and their properties are safety.

Every property has a mutant (`PROJECT.json`, "mutants"): a plausible bug in one
definition, such as a recheck dropped from the retry loop or a chain counted
one short, under which the same run finds the property violated. The mutated
forms stand in the modules, marked "A fault".

## 5. Proofs

Seven modules of theorems, checked by TLAPS. Each holds for every value of its
module's constants, from the module's named assumption alone (that markers of
absence are none of the things they mark the absence of, that bounds are numbers, that
functions have their types); `RegulationsProofs` assumes in each theorem that
`VetAtDesk = FALSE`, `RetentionProofs` in some that nobody rolls back (`Operators = {}`), `MirrorStaysWhole`
that few runs die, and `SingleProcessIsFinal` of `RunnerProofs` that payloads fork nothing (`Kin = {}`).

### PublicationProofs

| Theorem | Says |
|---|---|
| `Invariance` | `Inv` is an invariant |
| `TypeCorrect` | every variable has its type; no job spends more than its attempts |
| `SelectedIsComplete` | the pointer never names a generation with a member missing |
| `NamesHaveOneOwner` | each table and receipt dataset belongs to one selected family |
| `ChainIsHeld` | a published generation's prior was selected, is of its family, and loses no name, shared logs apart |
| `WritesOneFamily` | one write changes one family |
| `Implements` | `Publication` implements `Selection`: a publication is atomic |

The argument. None of the properties is inductive alone. What carries them is
`SafePut`: *a request that may still move the pointer is safe against the
index it expects*. For a publish, the generation is complete, keeps its
prior's names (shared logs apart), and its prior, parents and names agree with the expected index; for a
rollback, the target was selected before and its names are free there. The
claim holds for the request of a writer that is swapping and for every request
in `late`, including those of writers that have died. The write
happens only if the pointer *equals* the expected index, so it is safe against
the pointer, however late it comes. That is also why an ETag that comes back
does no harm here.

To keep `SafePut` along other writers' steps, `Grown` states that roots, stored
members and history only grow in this module, and the `Stable...` lemmas carry
each conjunct across a grown state. `JobInv` says what each phase of a job has
established so far, `StoreStep` that a safe write keeps `SelectedInv` and
`OneOwner`; `InvStep` goes through the actions. `TypeOK` needs the
same invariant: the attempt counter stays in its range because a swapping job
still has an attempt left.

For `Implements`, the selection is the index and the basis of a generation is its root
once it was selected. A pointer write maps to `Publish` (`AtomicPublish`) or
`Restore` (`AtomicRestore`), every other step to a stutter. The abstract
`Publish` reads prior and parents from the selection at the moment of the write:
what the theorem adds to the invariant is that the entries captured possibly
hours before are those of that moment.

### ConversionProofs

| Theorem | Says |
|---|---|
| `ConversionInvariance` | `Inv` of the protocol and `CInv` of the commands are invariants |
| `CommandsKeepTheProtocol` | `NativeConversion` implements `Publication` |
| `ReceiptIsEnough` | whatever moved the pointer for a conversion can be undone from its receipt |
| `DiscardsAreAskedFor` | a newer generation is only discarded where an operator said so |
| `ReportsAreTrue` | a publish call that returned, and a receipt that records "published" or "moved", stand for a generation that was selected |
| `ReturnedRollbacksLand` | when a rollback's restore returns, the index names the captured entry, whoever else wrote meanwhile |

The argument. Each step of the commands is a step of `Publication` or leaves its
variables alone, so `Inv` is preserved by the lemma `PublicationProofs` proves about
such steps, and with `Inv` comes what `ReceiptSuffices` needs about completeness. `CInv` adds the
receipts: *every request that can still move the pointer is `Authorised`*, a publish by
a receipt that records the attempt, a restore by one whose captured entry it carries
and which either waived the check or names the entry the request expects to replace. This holds of
requests in `late` too, whose process is gone, because receipts only change in ways that keep
it (an attempt is never taken back, `captured` and `generation` never change). A write
that lands then finds exactly the pointer it expects, which gives `DiscardsAreAskedFor`; and
what landed is `Undertaken`, which with the root's `prior` gives `ReceiptIsEnough`. That the captured entry's
names are still free follows from the protocol: a conversion claims all its prior's names
(`MembershipHeld`; the prior is not native and lists no receipts, so no shared log), and while the family names the conversion nobody else owns one (`OneOwner`).

`ReportsInv`, also part of `CInv`, is about the reports of success. Two commands write them: a publish call
returns only by the step that moves the pointer (`ReturnsSelected`), and the reread after a lost answer
records "moved" only where the index names the generation, which the protocol's
`SelectedInv` says was selected. Once true they stay true, because what was selected only grows, and only the
conversion's own command writes its record (`PublishKept`). The reports of failure have no such theorem: "not moved" may be
overtaken. For `RollbackLands`, `OperatorsInv` ties the running restore to the receipt it works from.

### RetentionProofs

| Theorem | Says |
|---|---|
| `RetentionKeepsTheProtocol` | over what was ever uploaded, `Retention` implements `Publication`, rollbacks included |
| `HeldInvariance` | `HeldInv`, the part of the invariant about one plan, holds with rollbacks too |
| `PlanIsHeld` | nothing goes of what the deleting plan read as recent, pinned, a native input, or a source-table input on a chain, nor of what that was built from; rollbacks included |
| `RetentionInvariance` | `RInv` is an invariant |
| `HistoryIsOneChain` | every generation ever selected is on the chain from the current one, and no two replaced the same one |
| `CurrentIsStored` | what a family names is all in the bucket |
| `RecentChainIsSpared` | no deletion takes from the current generation or its `KEEP_LAST` - 1 predecessors |
| `ParentsAreSpared` | nor from what the current generations were built from |

The first three hold of every instance, the others for `Operators = {}`: with rollbacks `CurrentStored` and
`OneHistory` are false (section 6; a rolled-back generation leaves the chain). The invariant `RInv` is split
accordingly. `HeldInv` needs nothing of the writers: only built generations are stored and marked (`StoredBuilt`,
`MarksInv`; a marked prefix need not have a root), prior and parents of a root were selected before it, hence
uploaded whole (`KnownParents`), and what the second plan
marks is not `Needed` by it, nor a parent of what is (`DoomedHeld`): recent on a chain of the index it read, pinned, a native
input, or a source-table input on a chain of that index.
Those are facts about roots and one read of the index, which later steps cannot change (`WantedKept`, `NeededStays`); so
`PlanIsHeld` follows whatever is published, rolled back or pinned between the plan and its deletions.

`OnwardInv` says what the plan means for the index *now*. A deletion changes `gone` and not `stored`, so `Inv` of the
protocol still holds, of what was ever uploaded. What it cannot say is that
nothing needed has gone since. That rests on three facts.

- *A family only moves on* (`MovesOn`): without rollbacks the pointer moves to a generation that was
  never selected and states the current one as its prior. What is neither current
  nor built on the current one (`Obsolete`) stays so for good.
- *What may still be selected is newer than the current one* (`CurrentSettled`): a build on the
  current generation starts after that one was read back, so its objects carry a later
  time, and a plan that finds the family in the index keeps it by `InFlight`. Hence what has been read back
  is still whole when its pointer write lands, however late (`AwaitedWhole`).
- *Roots are never deleted*: only other members are, by type (`RetentionTypeOK`). So the chain and the parents of a
  selected generation are the same sets in every later state.

The first plan's marks alone may be wrong: they may hold a generation that was about to be
selected over the index that plan read. `ReindexedInv` says what is left of them once the second
plan has read the index: each is current there, built on what is current there, or
`LeftBehind` for good. The second plan keeps the first two kinds, so what *both* plans mark is
`Unneeded` (`DoomedInv`): it will not be current again, no current generation needs it,
and it is `KEEP_LAST` or more places down the chain. All three stay true
as the families move on. `OneHistory` is inductive beside `MovesOn`: a generation that becomes current was never
selected and names the current one as its prior, so the chain from it is the old chain and itself. Retention can therefore
decide by one chain: no generation that was ever public is on a branch the walk does not see. The lemmas about `Closure` carry chains and inputs from one state to the next.

### RunnerProofs

| Theorem | Says |
|---|---|
| `Invariance` | `Inv`, and with it `TypeOK`, is an invariant |
| `ReconciledStaysFinal` | of a run that reconcile reported closed only slipped processes live, then or later |
| `SingleProcessIsFinal` | none lives, where payloads fork nothing |
| `WorkersAreRecorded` | no payload works before its identity is durable |
| `AuditRunsAlone` | the audit's guardian exists only when, of the build, none but slipped processes live |
| `SuccessesAreSealed` | a success stands for the sealed candidate with nobody left to change it, but for those |

Per phase, `PhaseFacts` ties the guardian's
place and the records to the processes: no process before a release, the
child record is what the guardian knows. `LookFacts` is about looks: *whatever lives was listed by the look under
way, or slipped through it*. A look that finds nobody therefore leaves nobody but slipped processes, however many
were forked before and however many rounds there were; and so does the
last look, whose finds are known and are checked once more for the terminal record. What a
closed record leaves alive slipped (`ClosedBy`), and what slipped forks only what counts as slipped.
`OwnerInv` adds that the owner leaves a phase without error
only over a passed terminal record, and `ObserverInv` that whoever judges after the
owner's death judges from records whose launches, releases and terminal states
are still the current ones, and that a phase it has passed is `Over`: no guardian acts on a process there, and
the look that found the group empty missed only what slipped (`UnseenIsOver`). `PhasesStep` frames a step of one phase;
there is one lemma per action.

### RulemakingProofs

`Invariance`, `TypeCorrect`, `SelectedIsComplete`, `ReplacesItsPrior`, `PublishedSnapshotsStay`. The
invariant is about writes in flight: each names a snapshot that is all stored, and its condition is
the prior its run captured, whether or not the run still lives. `ReplacesItsPrior` is
then one step: a write that lands found the pointer equal to that prior, and
`TypeOK` ties the manifest's `previous_snapshot_id` to it. `LineageInv` adds the chain: the snapshots reached from
`latest.json` through the manifests (`Lineage`, the least set closed under one manifest's link) were all built, none of
them names the present pointer as its predecessor, so a write that lands adds one snapshot to the lineage and drops none
(`LineageGrows`). Whatever a run reported as published is in it: the report is made only after
the run's own write landed. It is why a snapshot is never current twice.

### RegulationsProofs

`Invariance`, `TypeCorrect`, `RetiredKeysAreHeld`, `DocumentsOnlyGrow`.
`RunInv` says what each stage of a run has established. Its two halves lean on each other: while a family is
`unmoved`, the entry a run captured *is* the published one, so a publish
loses neither rows nor failed keys; and because neither is lost, a manifest that was
`Sound` when it was loaded or saved is still sound when it is uploaded. `HeldGrows` and
`BucketStep` carry the second half along other runs' publishes.

### MirrorProofs

| Theorem | Says |
|---|---|
| `Invariance`, `TypeCorrect` | `Inv`, and with it the types, are invariants |
| `CatalogIsAtomic` | `CommentsCatalog` implements `CommentTable` |
| `CommitsAdvance` | no commit loses a comment, takes one back to an earlier date or to none, or drops the text filled into a dated row |
| `ListedFilesAreWhole` | where the receipt matches, all the files it names are the table's, whatever died before |
| `WholeAfterOneDeath`, `MirrorStaysWhole` | so is every other agency file, until two runs died, or one died and a run is forced |
| `UploadsAreCurrentOrStale` | a run that passes the recheck holds the table of that moment, however many compactions came since its snapshot; what it uploads next is the table still, or a commit came in between and the catalog has left its snapshot, which its receipt will name |

For the
catalog: what a writer holds advances on the rows it read (`Sound`), and a
commit happens only where those rows stand, so commits advance rows, however
stale the decision was; and the same check makes the decision the one the table's own rows would have given, which is `CatalogIsAtomic`. For the mirror: `Replaced` follows the uploads, `Exported` says that a
run still at the catalog's snapshot has the catalog's rows, and a receipt of the
current snapshot describes them.

`MirrorIsWhole` also speaks of the files no receipt names. `Filled` are the agencies whose file has rows. `Tracked`, which is
inductive while `FewFaults`, says that between runs each of them is named by the monolith or by the receipt, and during a run by the
files the run means to write: so the next run replaces or empties it. One death can take one of the two names away, not both.
After that death the argument needs a run to start only when the catalog has a snapshot the receipt is not of, so that the receipt cannot
match again before a whole run has ended: `StartsOnNews` says so of unforced runs. A forced run neither waits for news nor
looks at the receipt for names, so that with `--force` one death can leave a stale file; hence the premise `FewFaults`.

### Only model-checked

- `Retention` with rollbacks: `RestoredIsStored` is refuted by TLC (section 6); what the other
  properties say where operators roll back is not proved.
  `HeldInvariance` and `PlanIsHeld` are what is left then.
- The four runs that refute a claim (section 6): TLC's counterexamples.
- Liveness (`RunEnds`, `EventuallyClosed`, `GuardianEndsWork`, `KeyLands`,
  `MirrorConverges`) and whatever needs induction over the length of a chain: out of
  the provers' reach.

## 6. Where the code and its text disagree

1. `restore_race`. A rollback checks that the target's objects are stored,
   once, before its swap loop. If the deleting plan has read the index before
   that swap, it deletes what the rollback then selects. It takes a rollback
   with `--discard-newer`, to a generation off the recent chain.
   Without rollbacks `CurrentStored` and `RecentChainSpared` hold and are proved.
2. `status_race`. `status` reads the records before it looks whether the owner
   lives. An owner that releases a guardian in between, and dies, leaves a run
   that is reported closed while its payload works. `reconcile` is safe from this
   (`ReconciledIsFinal`): it judges from records read after the owner was found dead, and misses
   only what is forked while it looks (section 7).
3. `vetted_desk`. The manifest is published after the data of *its* run. A
   run with `skip_upload`, the default, keeps its documents local but saves its
   keys in the output directory's manifest; the next run there with uploads
   loads that manifest, skips the keys, builds on the published documents and
   publishes the manifest. The rows are missing until a full refresh. Without
   vetting runs in a kept directory, `RetiredIsHeld` holds and is proved.
4. `stale_agency`. The mirror empties the file of an agency that lost its last
   row if the public monolith or the last receipt names the agency. After two
   interrupted runs neither may: one uploaded the agency's file and died before its
   receipt, the next replaced the monolith and died before the agency
   files. The file stays public with the moved row, and a later receipt matches
   over it. One interrupted run is enough if the next one is started with `--force`, which
   leaves the receipt's names out. Files that the receipt names are always right (`ListedIsWhole`).

## 7. Not modelled

Most of the repository's lines are notebooks, record transforms, source
readers, scorecards and the MCP server: sequential data processing, query
construction and presentation, without state that two actors share. They have no
interleavings to check, and their correctness is about data that these models
abstract from. `PROJECT.json` lists each component with its status.

Within the modelled components:

- `sources/publication.py`: the resumable download, the FEC release, the exact
  comparison of entries, evidence and proof uploads, the readers. A copy of an unchanged member is
  not create-only: two publishers of one generation that race may write it twice with
  the same bytes.
- `generation_retention.py`: two runs at once; grace across four chained generations; the new timestamp such
  a copy gives an object, by which a generation may look younger and be kept longer, or the current one may look younger
  than what is in flight, which then is not kept as such; pin documents that drop a name.
- `operational_runner.py`, what a look misses. One fork is enough for a closed report over a living process, and
  the model has these behaviours: the properties except `slipped` processes instead of
  holding by a coarser step. The shortest: in the look of `close_members` the payload forks once it was listed and exits
  before it is checked; nobody is found, and the terminal record says closed. The same can happen to reconcile: its second read
  of the records comes before the guardian, released by an owner since killed, has recorded its payload; the guardian is
  killed, and of the group reconcile then lists, the payload forks and exits. TLC needs 20 states for this to violate
  `"reconcile" \in reported => NothingLives`. `phase_closure` ("an empty
  group for a dead recorded guardian means nothing from the phase survives", `operational_runner.py:1057-1060`) and
  `docs/operational-runner.md:264-268` say more than such a look can tell. The window is of milliseconds.
- `operational_runner.py`, otherwise: admission, preparation, `continue_from` and its
  other checks, records forged by a payload, reused pids, processes that leave the
  guardian's group, records that fail to be written (they are failures at the step before).
- `pipelines/rulemaking_dataset.py`: source inputs and their age (overlapping
  runs may publish older inputs later; only the chain of snapshots is guarded), and the
  reconciliation by hand of an uncertain pointer write that
  `docs/native-family-conversion.md` describes.
- `pipelines/regulations.py`: dockets, attribute tables, the retries of comment
  text, `--full-refresh` (documents rebuilt without the keys that could not be
  read; a crash before its checkpoints leaves the old manifest over them, which retires those keys), keyed runs, false positives of the Bloom filter, the size guard.
- `pipelines/comments_mirror.py`: size floors, the prepared export, `--force` beyond
  the constant `Forces`, a rollback of the comments family.
- `native_conversion.py`: the preparation, sealing and qualification of a generation
  (digests, restored rows, policies, source states: they pass or end the command), the outcome
  "captured entry changed" that only `publishedAt` tells apart, tables FEC retires, the public
  read-back after the move, and a rollback started while its conversion still runs.
- `fec_release.py`, the source catalog, comment repairs: see
  `PROJECT.json` and the plan.
