# Verification of update_engine's VABC partition writer and postinstall harness

This directory holds TLA+ models of the parts of `update_engine` that are in
`src/`, TLC configurations that model-check them, and TLAPS proofs. The parts
are:

- the Virtual-A/B partition writer,
  `src/payload_consumer/vabc_partition_writer.h`, together with the
  collaborators it drives;
- the postinstall runner test harness,
  `src/payload_consumer/postinstall_runner_action_unittest.cc`.

`PROJECT.json` lists every component, run, mutant, finding, hazard and
theorem, and maps every definition to the source lines it models.

## 1. The system

### 1.1 VABC partition writer (`vabc_partition_writer.h`)

The writer turns a partition's InstallOperations into COW (copy-on-write)
operations for the snapshot writer `cow_writer_`. It applies one operation
at a time:

- `PerformZeroOrDiscardOperation` produces COW_ZERO.
- `PerformSourceCopyOperation` produces COW_COPY, or COW_REPLACE for a block
  whose source an earlier entry of the same operation overwrote.
- `PerformReplaceOperation`, `PerformSourceBsdiffOperation` and
  `PerformPuffDiffOperation` produce COW_REPLACE (header comment, lines
  44-46).
- `WriteAllCowOps` hands the converted operations to the COW writer. It reads
  the bytes of a materialised replace from the source descriptor.
- `CheckpointUpdateProgress(next_op_index)` persists where to resume.
- `Init(..., next_op_index)` resumes from that checkpoint.
- `FinishedInstallOps` and `Close` end the session.

Source reads go through `verified_source_fd_`. On a verification failure the
reader switches to the error-correcting replica (`OpenCurrentECCPartition`),
and stays there for the rest of the session.

The header holds declarations only. The method bodies, the converter
(`common/cow_operation_convert`) and `VerifiedSourceFd` are not in the
repository, so they are modelled from `spec.md` section 4. `PROJECT.json`
marks those definitions `spec_modelled`.

What is hard about this component:

- crashes between writing COW ops and checkpointing;
- re-emission of operations after a resume;
- the choice of descriptor, made during verification and used later when
  the bytes are read;
- calls that fail part-way;
- the meaning of a COW log whose entries overlap across operations.

### 1.2 Postinstall runner harness (`postinstall_runner_action_unittest.cc`)

Each test builds an `ActionProcessor` with three actions: a feeder, a
`PostinstallRunnerAction` and a collector. It runs them on a single-threaded
message loop, `loop_`. The parts of the fixture are:

- the processor delegate, whose flags are `code_`, `code_set_`,
  `processing_done_called_` and `processing_stopped_called_`;
- the fake hardware's powerwash flag;
- the helpers `SuspendRunningAction`, `ResumeRunningAction` and
  `CancelWhenStarted`, which poll the action with delayed tasks, some of them
  bound to the stack-allocated processor.

The action's own code is not in the repository, and `spec.md` places
postinstall out of scope. The action's behaviour is what the file's
expectations fix it to be:

- the mount, path and optional checks;
- the mapping from exit status to error code;
- powerwash only on success;
- `ProcessProgressLine` with its weights and its clamp to 1;
- the progress reported at the start and end of a partition.

### 1.3 Not modelled

- `src/common/mock_cros_healthd.h` is a gmock double with no state.
- Payload download and verification, manifest parsing, device-mapper merge
  mechanics and partition mapping are out of scope in `spec.md` section 1.
  The writer sees their results only through its interface.
- The internals of bsdiff and puffdiff are abstracted to two facts: whether
  the patch decodes, and whether its source verified.

## 2. Modules

| Module | Models | State | Actions |
|---|---|---|---|
| `VABCPartitionWriter` | the writer, the converter, the verified reader, process restarts | `plan`, `phase`, `nextOp`, `pending`, `inOp`, `eccMode`, `log`, `checkpoint`, `restarts` | `WriterInit`, the five `Perform*Operation`s, `WriteAllCowOps`, `WriteAllCowOpsFails`, `CompleteOperation`, `CheckpointUpdateProgress`, `FinishedInstallOps`, `Close`, `Restart`, `Terminated` |
| `MC_VABCPartitionWriter` | the writer's constants: blocks 0..3 and the payloads | | |
| `MC_VABCCopyCorrupt` | a SOURCE_COPY from a block that is corrupt on the primary | | |
| `VABCPartitionWriter_proofs` | TLAPS proofs of the writer's invariants | | |
| `VABCWriterContract` | what the writer promises its caller: one whole operation per successful call, a torn prefix on a crash or a failed call | `plan`, `status`, `cursor`, `ckpt`, `image`, `restarts` | `Open`, `Apply`, `Fail`, `Checkpoint`, `FinishedInstallOps`, `Close`, `Crash`, `Terminated` |
| `MC_VABCWriterContract` | the contract's constants: blocks 0..3 and three payloads with overlapping writes | | |
| `VABCWriterContract_proofs` | TLAPS proof that the contract ends in the target | | |
| `VABCPartitionWriter_refinement` | TLAPS proof that the writer implements the contract | | |
| `PostinstallRunner` | the harness, the loop's tasks, the program's steps | `test`, `run`, `loopOn`, `tasks`, `act`, `child`, `weights`, `cur`, `acc`, `codeVal`, `codeSet`, `doneCalled`, `stoppedCalled`, `powerwash`, `progress` | `RunPostinstallActionWithInstallPlan`, `StartProcessing`, `PerformPartitionPostinstall`, `ChildReady`, `ChildProgress`, `ChildExit`, `SuspendRunningAction`, `ResumeRunningAction`, `CancelWhenStarted`, `StopProcessing`, `ProcessProgressLine` |
| `MC_PostinstallRunner` | the file's tests as constants, plus two extra plans | | |
| `PostinstallRunner_proofs` | TLAPS proof of the harness's type invariant | | |

### 2.1 How the writer model maps to the code

Data is abstracted to its origin:

- a source block `b` holds `Orig(b)` (or `Bad(b)` where it is corrupt);
- a REPLACE or diff writes `NewData(k, i)`;
- a zeroed block holds `ZeroVal`;
- a read that verification would reject returns `Bad(b)`.

`SourceImage` is the source partition as the snapshot's base device reads
it: a COW_COPY is resolved there, on the primary descriptor
(`source_path_`), whatever descriptor the writer verified the block
through.

An InstallOperation carries `count`, the block count of its data blob
(what `PerformReplaceOperation` gets as `count`), and for a diff `outLen`,
the output length its patch declares. Both must match the destination
extents.

`PrimaryBad` and `EccBad` are the blocks that fail verification on each
descriptor. `HasEcc` says whether a replica can be opened.

A Perform call does everything before its first write in one step:

- verify the source and choose the descriptor (`ReadVerified`, which sets
  `eccMode`);
- check lengths;
- convert the operation into `pending`.

It either fails (`FailCall`, phase `failed`) or starts writing. Each
`WriteAllCowOps` step appends one COW op to `log`, so a crash can strike
between any two COW ops. `WriteAllCowOpsFails` is the snapshot writer
rejecting a COW op (`AddCopy`, `AddRawBlocks` or `AddZeroBlocks` returning
false): the call fails with the COW ops before it already in the log.

The converter materialises every block of a REPLACE or diff as its own
COW_REPLACE. Spec 4.3 requires only that the result be equivalent; the
per-block form is the finest one, and no property depends on the
grouping.

`CompleteOperation` is the call returning true, after which the caller
advances `next_op_index`. `Restart` is a process death or a retry after
`Close`. It keeps `log` (the COW device) and `checkpoint` (persisted
`next_op_index`), and loses everything else.

`Terminated` lets a closed writer with no retry left stutter, so deadlock
checking stays on.

Two readings of the log:

- `SnapshotView` is what the snapshot exposes: a COW_COPY reads the
  unmodified source and the last entry for a block wins.
- `InPlaceMerge` replays the log sequentially over one image, as spec 3
  and 8 describe.

`Target` is what the payload means: each operation reads the source, and
later operations win.

### 2.2 The writer's contract and the refinement mapping

`VABCWriterContract` abstracts the COW log, the converter and the verified
reader away. Its `image` is the partition as the snapshot exposes it. A
successful call (`Apply`) adds the effect of one whole operation. A
failed call (`Fail`) may leave a prefix of the operation written, since
the snapshot writer can reject a COW op after earlier ones were logged; a
call that fails before writing leaves the prefix of length 0. `Checkpoint` records the caller's
index. `Crash` may leave any prefix of the operation in progress written
(`TornPrefixes`), then the next session resumes from the checkpoint. Its
`Target` is in closed form: each block holds what the last operation
writing it puts there.

`VABCPartitionWriter` defines the mapping `Contract`:

- `Written` counts the COW ops the call in progress has already handed to
  the snapshot writer;
- `CommittedView` is the snapshot view of the log without those entries,
  that is, the partition as it was before the call started;
- `status`, `cursor` and `ckpt` are `phase`, `nextOp` and `checkpoint`.

Under this mapping, a Perform call that starts and each `WriteAllCowOps`
step are stutters. `CompleteOperation` is `Apply`, a failed call is
`Fail` (with the `Written` blocks torn when `WriteAllCowOpsFails`), and `Restart` is `Crash` with `Written` blocks torn. `ContractSpec`
states that the writer implements the contract.

### 2.3 How the harness model maps to the code

`tasks` is the set of tasks posted to `loop_`. Each task is tagged with the
run whose processor it is bound to.

A helper's self-repost ("not ready yet, poll again in 10 or 100 ms") changes
nothing, so it is not a step.

The program is `child`. It moves through these states:

- `started`;
- `ready`, once its stdin is `/dev/zero`, which `SuspendRunningAction`
  checks;
- `suspended`;
- `resumed`.

A stopped process cannot exit. `postinst_suspend` that was suspended
exits only after being resumed, with status 0. One that was never
suspended may exit on its own at any time, with a failure status
(`ExitCodeOf`): the test comment says it "returns 0 only if it was
suspended at some point".

`RunPostinstallActionWithInstallPlan` creates a fresh processor and action,
but the fixture's delegate flags and `powerwash` carry over to the next
run, as in the code.

The partition steps follow the fields that `ProcessProgressLineTest` pokes:

- `cur` is `current_partition_`;
- `weights` is `partition_weight_`;
- `acc` is `accumulated_weight_`;
- `Total` is `total_weight_`.

Progress values are exact fractions `<<num, den>>`.

## 3. Runs

| Run | Config | Expect | Properties |
|---|---|---|---|
| `writer_core` | `MC_VABCPartitionWriter.cfg` | pass (3858 states) | `TypeOK`, `CheckpointSafe`, `FinishedViewCorrect`, `NoCorruptData`, `NoWriteForMalformedOp` |
| `writer_contract` | `MC_VABC_contract.cfg` | pass (249 states) | `ContractSpec` |
| `contract_abstract` | `MC_VABCWriterContract.cfg` | pass (586 states) | `FinishedCorrect` |
| `inplace_reemit` | `MC_VABC_inplace_reemit.cfg` | violation | `InPlaceMergeCorrect` |
| `copy_corrupt` | `MC_VABCCopyCorrupt.cfg` | violation | `FinishedViewCorrect` |
| `postinstall_harness` | `MC_PostinstallRunner.cfg` | pass (116 states) | `TypeOK`, `EveryRunEnds` |
| `cancel_race` | `MC_PostinstallRunner_cancel.cfg` | violation | `CancelLeavesNoCode` |

### 3.1 Writer properties

**`CheckpointSafe`.** Every operation below the persisted checkpoint has a
COW op in the log for each of its destination blocks. A resume therefore
never skips an operation, whatever crashes, sink failures and retries came
before.

**`FinishedViewCorrect`.** After `FinishedInstallOps`, the snapshot view
equals the target. In `writer_core` this holds:

- across resumes that re-emit operations;
- across failed calls, including calls that failed part-way through
  `WriteAllCowOps`, retried after `Close`;
- across the fallback to ECC for diffs and for copies whose blocks the
  converter reads;
- with the in-operation overlap of a shifted SOURCE_COPY.

The payloads of `writer_core` meet `CopiedBlocksClean` (checked by an
`ASSUME`): no block that a SOURCE_COPY leaves as a COW_COPY is corrupt on
the primary. `copy_corrupt` drops that and finds the property violated
(section 4).

**`NoCorruptData`.** No COW op carries bytes that failed verification. This
catches `WriteAllCowOps` reading from a stale descriptor, and a diff applied
to corrupt data.

**`NoWriteForMalformedOp`** (an action property). No COW op is ever
appended for an operation whose data length, declared patch output or copy
block counts disagree with its extents.

**`ContractSpec`** (refinement). Every behaviour of the writer, seen
through `Contract`, is a behaviour of `VABCWriterContract`. A call that
returned true before writing all its COW ops, a checkpoint taken
mid-call, or a crash or sink failure that left anything but a prefix of
the current operation would each break it. The run uses `HasEcc = FALSE`:
with the ECC replica, a COW_COPY of a block bad on the primary is exactly
the `copy_corrupt` divergence, which the mapping cannot hide; the proof
covers both cases under `CopiedBlocksClean`.

**`FinishedCorrect`** (in the contract). After `FinishedInstallOps`, the
image is the payload's target, although crashes and failed calls tore
operations and each later session re-applied operations from the
checkpoint on. The source image has a bad block (3) that no operation
writes, so the target keeps it.

### 3.2 Harness properties

**`EveryRunEnds`** (liveness). Every test's loop returns: the suspend
helper's resume is always posted, and a suspended program is always
resumed and then exits.

`TypeOK` includes that `partition_weight_` is indexed inside its range.

### 3.3 Mutants

Every property of a passing run has a mutant in `PROJECT.json`: a variant of
a mapped definition that TLC shows breaks it. The variants are:

- a dropped retry limit;
- a checkpoint taken mid-call;
- a read at the destination offset;
- a read from the primary descriptor after the switch;
- a dropped length check;
- a call that returns true with COW ops still unwritten (`ContractSpec`);
- a contract checkpoint that counts the operation in progress as done
  (`FinishedCorrect`);
- an off-by-one run tag on the cancel helper's StopProcessing (`TypeOK`);
- a suspend without its resume (`EveryRunEnds`).

### 3.4 Bounds

**Writer.** Four blocks is the smallest partition that gives each of these
its own block:

- a shifted two-block copy;
- a zeroed block;
- a block bad on the primary but good on the replica (1);
- a block bad on the replica (2).

The seven payloads use every operation type and every failure path: a
length mismatch, a patch that does not decode, a patch whose declared
output disagrees with its extents, unequal copy counts, and an
unrecoverable read. Any call that has started writing can fail in the
sink. `MaxRestarts = 2` allows a crash mid-operation followed by a second
crash after resuming, or a failure, a `Close` and a retry. `restarts` is
capped by that bound.

**Contract.** `MC_VABCWriterContract` uses four blocks and three
payloads. In them, blocks are written by two or three operations, a copy
shifts blocks onto blocks that later operations write, and a malformed
copy can only fail. With two crashes, an operation can be torn at every
prefix and then re-applied.

**Harness.** The tests are those of the file:

- simple;
- powerwash required;
- mount failure;
- skip optional, which is two runs;
- error exit;
- exit 3;
- absolute path;
- suspend/resume;
- cancel;
- progress updates;
- `ProcessProgressLineTest`.

Two plans are added that the harness accepts:

- a mount failure with powerwash required;
- three partitions weighted {1, 2, 5}, combining a skip, a progress program
  and a failure.

The progress lines include 0, 1/4, 1/2, 1, 3/2, 2, a missing number and
another keyword.

### 3.5 Fairness

The liveness property assumes weak fairness of:

- each kind of loop task;
- the action's synchronous partition step;
- the program becoming ready and exiting;
- the test body's next run.

The message loop runs every task it is given, and a program that is not
stopped runs to its exit. Progress lines are not assumed fair: a program
need not print anything.

The harness runs set `CHECK_DEADLOCK FALSE`. The loop can wait forever
(`loop_.Run()` blocks with nothing to do), and `EveryRunEnds` is exactly the
check that this never happens.

## 4. Findings

**A COW_COPY from a block verified only on the replica (`copy_corrupt`,
spec gap).** `PerformSourceCopyOperation` verifies the source through
`verified_source_fd_`, which falls back to the ECC replica. The converter
still emits a COW_COPY for every block that no earlier entry of the same
operation overwrote, and the snapshot resolves a COW_COPY from the source
partition itself. With block 1 corrupt on the primary and good on the
replica, SOURCE_COPY 1->2 verifies, emits COW_COPY 1->2, and the finished
snapshot holds the corrupt block in 2. Spec 4.2 presents the ECC fallback
as making the copy read verified data. The writer's correctness theorems
therefore carry the hypothesis `CopiedBlocksClean`.

**Re-emission after a crash (`inplace_reemit`, spec gap).** Spec 4.1 calls
re-emission after a crash before the checkpoint harmless. Consider the
rotating copy [1,0]->[2,1], re-emitted after such a crash:

- An in-place replay reads block 1 after the first emission overwrote it.
- It is harmless only under the snapshot reading, where
  `FinishedViewCorrect` passes.

**The cancel test depends on timing (`cancel_race`, test bug).**
`RunAsRootCancelPostinstallActionTest` runs `postinst_suspend`, which
nobody suspends in this test, and which "returns 0 only if it was
suspended". `CancelWhenStarted` posts `StopProcessing` 100 ms after it
sees the command start. If the program exits first, the action completes
with `kPostinstallRunnerError`, `code_set_` becomes true, and
`EXPECT_FALSE(processor_delegate_.code_set_)` (line 439) fails. Nothing
in the test orders the stop before the exit.

## 5. Proofs (checked by `tlapm`)

The assumptions on the constants are stated in `VABCPartitionWriter` and
are as weak as the code allows:

- `PlansAssumption`: payloads are sequences of InstallOperations;
- `BlocksAssumption`: blocks are naturals;
- `CorruptionAssumption`: the bad blocks are blocks;
- `MaxRestartsAssumption`: the restart bound is a natural;
- `ExtentsAssumption`: no extent list repeats a block.

Every theorem holds for every payload, every set of corrupt blocks and
every restart bound. The three theorems of section 5.3 also assume
`CopiedBlocksClean`, stated as the theorem's hypothesis (`ASSUME
CopiedBlocksClean PROVE ...`) rather than of the constants, because
`copy_corrupt` shows it is needed.

### 5.1 Invariants of the writer (`VABCPartitionWriter_proofs`)

- `TypeCorrect`: `Spec => []TypeOK`.
- `CheckpointSafety`: `Spec => []CheckpointSafe`.
- `VerifiedDataOnly`: `Spec => []NoCorruptData`.
- `NoMalformedWrite`: `Spec => NoWriteForMalformedOp`.

None of these invariants is inductive on its own. The proofs use these
strengthenings:

- `CallInvariant`: while a call is in progress, each destination block of
  the current operation is either already in the log or still pending.
- `ReadyInvariant`: while the writer is ready, every operation below
  `nextOp` is fully logged. This is what `CheckpointUpdateProgress` copies
  into `checkpoint`.
- `IInv == TypeOK /\ CallInvariant /\ ReadyInvariant /\ CheckpointSafe`.
- `PendingClean` (in `DInv`): every pending replace carries clean data,
  and every pending "read" item reads a block that verifies on `eccMode`.
  This is why the verified reader's choice of descriptor stays valid until
  `WriteAllCowOps` reads the bytes.
- `SizedInvariant` (in `SInv`): a call in progress is on a well-sized
  operation. Every appended COW op belongs to that call.

`Restart` keeps `log` and `checkpoint` and lands in phase `none`, where
the call and ready invariants hold vacuously.

### 5.2 The contract (`VABCWriterContract_proofs`)

`ContractFinishedCorrect` is `Spec => []FinishedCorrect` for the contract.
The strengthening is `Settled`: every block that no operation from `Base`
on writes already holds its target value. `Base` is the cursor of a
running or finished session, and the checkpoint otherwise. `Ordered` adds
that a session is at or past the checkpoint. A torn operation at the
cursor is re-applied by the next session, because the checkpoint is at or
below it.

### 5.3 Refinement (`VABCPartitionWriter_refinement`)

`WriterRefinesContract` is `Spec => ContractSpec`. It rests on three
facts:

- `RefineInit`: the initial writer maps to the initial contract, with an
  empty log whose view is `SourceImage`.
- The inductive invariant `RInv == SInv /\ CallShape`. `CallShape` says
  that, while a call is in progress, the last `Written` log entries are the
  first `Written` blocks of its operation with their values, and the
  pending items are the rest, in order. The conversion lemmas
  (`ConvertZeroShaped`, `ConvertReplaceShaped`, `ConvertSourceCopyShaped`)
  establish it when a call starts. A SOURCE_COPY needs its source to
  verify on the chosen descriptor (`ReadVerifiedClean`) for its read
  items, and `CopiedBlocksClean` (through `CopiesCleanAt`) for its COW_COPY
  items, whose value is `SourceImage` of the source block. `WriteShaped`
  keeps it when a COW op is written.
- `RefineStep`: each writer step is a contract step or a stutter. The key
  lemma is `ViewSplit`. If the last `m` log entries write the first `m`
  blocks of operation `k`, the view of the log is the view without them
  with those blocks of `k` applied. `CompleteOperation` uses it with
  `m = Len(dst)`. `TornView` uses it with `m = Written` for `Restart`
  and `WriteAllCowOpsFails` in the middle of a call, which map to the
  contract's `Crash` and `Fail` with that prefix torn. A call that fails
  before writing is `Fail` with `m = 0`.

`ViewOf` picks a block's last log entry with `CHOOSE`. `MaxExists`
proves that such an entry exists, from the well-foundedness of `<` on
`Nat` (`WFMin`), since the library's induction rules cannot be
instantiated.

`WriterFinishedCorrect` combines the refinement with
`ContractFinishedCorrect`, through an instance of the contract's proof
module whose assumptions `ContractAssumptions` discharges. It states
that, once `FinishedInstallOps` has returned, the snapshot view equals
the contract's closed-form `Target`. This is `FinishedViewCorrect` for
every instance, with the closed-form target in place of the writer's
recursive one.

`FinishedViewCorrectness` is `FinishedViewCorrect` itself,
`Spec => []FinishedViewCorrect`, with the writer's recursive `Target`.
`Target` is defined as a recursive function over the operations of the
payload. `tlapm` reads such a definition as a `CHOOSE` of a function that
satisfies the recursive equation, so the proof shows two things:

- the equation has a solution: `PrefixTarget(n)`, the image after the
  first `n` operations in closed form (each block holds the value of
  its last writer below `n`, or its original value). `PrefixTargetStep`
  shows that this closed form satisfies the recursion step.
- the solution is unique (`TargetClosed`): a least `n` at which two
  solutions differ cannot exist, by `MinExists`.

`PrefixTargetContract` then equates `PrefixTarget(NumOps)` with the
contract's `Target`, block by block. Both pick the greatest operation
that writes the block. The theorem follows from `WriterFinishedCorrect`.
No induction rule of the library is needed.

### 5.4 The postinstall harness (`PostinstallRunner_proofs`)

This theorem holds for every set of tests and progress lines that meet
the assumptions `PostinstallRunner` states. `TestsAssumption` and
`LinesAssumption` give the types. `FieldsAssumption` says that the
action fields a test sets index inside `partition_weight_`: the test's
`current_partition_` is at most the number of weights, and below it when
the test calls `ProcessProgressLine` itself. The code's
`partition_weight_[current_partition_]` needs this, and
`ProcessProgressLineTest` meets it with partition 1 of three weights.

- `TypeCorrect`: `Spec => []TypeOK`. The strengthening `TypeInv` records:
  - the fields belong to the test before the first run;
  - while the action is queued or running a partition, the loop is on,
    `partition_weight_` has one weight per partition of the current plan,
    and `current_partition_` is inside it;
  - the only StartProcessing task is the current run's, pending exactly
    while the action is queued.

  `SumSeqNat` shows that `total_weight_` is a natural. It first shows
  that the recursive function `SumSeq` is defined by has a solution
  (`PartialSumsExist`), then takes the least position at which it would
  not be a natural. `LaunchOutcomes` lists what the action can decide
  for a partition.

### 5.5 Only model-checked

These stay with TLC:

- The three violations (`inplace_reemit`, `copy_corrupt`,
  `cancel_race`). They are counterexamples, which TLC finds and no proof
  can give.
- The liveness property `EveryRunEnds`. Liveness under fairness, and
  `ENABLED`, are out of the prover's reach.

## 6. Plan for further work

1. Model the converter's merging of adjacent copy blocks into ranges, and
   the `block_size_` granularity of `WriteAllCowOps`.
2. State liveness for the writer: under fairness of the caller and a
   bounded number of crashes, a payload of well-sized operations whose
   sources verify on some descriptor is eventually finished.
