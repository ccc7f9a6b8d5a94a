------------------------- MODULE VABCPartitionWriter -------------------------
(***************************************************************************)
(* The Virtual-A/B partition writer (payload_consumer/vabc_partition_writer *)
(* .h): the component that receives one InstallOperation at a time,        *)
(* turns it into COW operations handed to the snapshot writer (the COW     *)
(* log), and checkpoints the index of the next operation so that a         *)
(* restarted update resumes where it left off.                             *)
(*                                                                         *)
(* The header fixes the interface (Init, the Perform*Operation calls,      *)
(* CheckpointUpdateProgress, WriteAllCowOps, FinishedInstallOps, Close,    *)
(* the members cow_writer_ and verified_source_fd_); the bodies of those   *)
(* methods are not in the repository and follow spec.md section 4.         *)
(*                                                                         *)
(* Data is abstracted to where it came from: block b of the source         *)
(* partition holds Orig(b), a Replace or diff operation writes NewData,    *)
(* a zeroed block holds ZeroVal and a read that verification would reject  *)
(* returns Bad(b). The snapshot's base device is the primary source        *)
(* partition, so a block corrupt there reads as Bad(b) through it.         *)
(***************************************************************************)
EXTENDS Naturals, Sequences, FiniteSets

CONSTANTS
  Blocks,       \* block indices of the partition
  Plans,        \* candidate payloads: sequences of InstallOperations
  PrimaryBad,   \* blocks whose primary source read fails verification
  EccBad,       \* blocks whose read from the ECC replica fails as well
  HasEcc,       \* whether an error-correcting replica can be opened
  MaxRestarts   \* bound on process crashes and update retries

\* The six InstallOperation types the writer dispatches on.
OpTypes == {"ZERO", "DISCARD", "SOURCE_COPY", "REPLACE", "SOURCE_BSDIFF", "PUFFDIFF"}

\* Contents of a block, tagged with where they came from.
Orig(b) == <<"src", b>>
Bad(b) == <<"bad", b>>
NewData(k, i) == <<"new", k, i>>
ZeroVal == <<"zero">>
NoVal == <<"none">>

\* An InstallOperation: its type, source and destination block lists (the
\* extents flattened in order), the block count of its data blob (count),
\* whether a diff blob decodes and the block count of the output the patch
\* declares (outLen).
InstallOperations ==
  [type: OpTypes, src: Seq(Blocks), dst: Seq(Blocks), count: Nat,
   decodes: BOOLEAN, outLen: Nat]

ASSUME PlansAssumption == Plans \subseteq Seq(InstallOperations)
ASSUME BlocksAssumption == Blocks \subseteq Nat
ASSUME CorruptionAssumption ==
  /\ PrimaryBad \subseteq Blocks /\ EccBad \subseteq Blocks /\ HasEcc \in BOOLEAN
ASSUME MaxRestartsAssumption == MaxRestarts \in Nat

\* Extents of one list never overlap (spec 3): no block is listed twice.
NoDuplicates(s) == \A i, j \in DOMAIN s : s[i] = s[j] => i = j
ASSUME ExtentsAssumption ==
  \A p \in Plans : \A k \in DOMAIN p : NoDuplicates(p[k].src) /\ NoDuplicates(p[k].dst)

\* A COW operation as handed to the snapshot writer.
CowCopy(s, d) == [kind |-> "copy", src |-> s, dst |-> d, val |-> NoVal]
CowReplace(d, v) == [kind |-> "replace", src |-> d, dst |-> d, val |-> v]
CowZero(d) == [kind |-> "zero", src |-> d, dst |-> d, val |-> ZeroVal]

\* A converted operation still to be written: a COW operation, or a replace
\* whose bytes WriteAllCowOps reads from the source descriptor ("read").
WorkItem(k, s, d, v) == [kind |-> k, src |-> s, dst |-> d, val |-> v]

VARIABLES
  plan,        \* the payload being applied (fixed for a behaviour)
  phase,       \* writer lifecycle: "none" before Init, then "ready",
               \* "initFailed", "failed", "finished", "closed"
  nextOp,      \* index of the operation the caller issues next
  pending,     \* converted COW operations of the current call not yet written
  inOp,        \* a Perform*Operation call is in progress
  eccMode,     \* verified_source_fd_: "primary" or switched to "fallback"
  log,         \* durable COW log: records [op |-> index, entry |-> CowOperation]
  checkpoint,  \* persisted next_op_index
  restarts     \* crashes and retries so far

vars == <<plan, phase, nextOp, pending, inOp, eccMode, log, checkpoint, restarts>>

NumOps == Len(plan)
OpAt(k) == plan[k + 1]     \* operations are indexed from 0, as in the code
Dsts(op) == {op.dst[i] : i \in DOMAIN op.dst}
Srcs(op) == {op.src[i] : i \in DOMAIN op.src}

-----------------------------------------------------------------------------
(* Verified source reader (VerifiedSourceFd, spec 4.4).                    *)

\* What a read of block b through descriptor fd returns.
Content(b, fd) ==
  IF (fd = "primary" /\ b \in PrimaryBad) \/ (fd = "fallback" /\ b \in EccBad)
  THEN Bad(b) ELSE Orig(b)

\* Verify the blocks S: on a mismatch on the primary descriptor switch to
\* the ECC replica for this and every later read of the session and retry
\* once. The result is whether S verified and the descriptor now in use.
ReadVerified(S, mode) ==
  IF mode = "primary" /\ S \cap PrimaryBad = {}
    THEN [ok |-> TRUE, mode |-> "primary"]
  ELSE IF mode = "primary" /\ ~HasEcc
    THEN [ok |-> FALSE, mode |-> "primary"]
  ELSE [ok |-> S \cap EccBad = {}, mode |-> "fallback"]

\* The source partition as the snapshot's base device reads it: a COW_COPY
\* is resolved there, on the primary descriptor, whatever the writer
\* verified the block through.
SourceImage == [b \in Blocks |-> Content(b, "primary")]

-----------------------------------------------------------------------------
(* COW operation converter (common/cow_operation_convert, spec 4.3) for one *)
(* SOURCE_COPY: the i-th source block goes to the i-th destination block;  *)
(* a block whose source an earlier entry of the same operation overwrote  *)
(* is materialised from the source as a replace, all others stay copies.  *)
ConvertSourceCopy(op) ==
  [i \in 1..Len(op.dst) |->
     IF op.src[i] \in {op.dst[j] : j \in 1..(i - 1)}
     THEN WorkItem("read", op.src[i], op.dst[i], NoVal)
     ELSE WorkItem("copy", op.src[i], op.dst[i], NoVal)]

\* ZERO and DISCARD become one COW_ZERO per destination block.
ConvertZero(op) == [i \in 1..Len(op.dst) |-> WorkItem("zero", op.dst[i], op.dst[i], ZeroVal)]

\* REPLACE and the diffs become COW_REPLACE of the bytes they produce (a
\* diff is applied only to source data that verified).
ConvertReplace(op, k) ==
  [i \in 1..Len(op.dst) |-> WorkItem("replace", op.dst[i], op.dst[i], NewData(k, i))]

\* Variants of CowOpOf with plausible bugs: the bytes of a materialised
\* replace read at the destination offset instead of the source offset, or
\* from the primary descriptor whatever the call chose.
CowOpOfDstRead(item, mode) ==
  CASE item.kind = "copy" -> CowCopy(item.src, item.dst)
    [] item.kind = "read" -> CowReplace(item.dst, Orig(item.dst))
    [] item.kind = "zero" -> CowZero(item.dst)
    [] OTHER -> CowReplace(item.dst, item.val)
CowOpOfPrimary(item, mode) ==
  CASE item.kind = "copy" -> CowCopy(item.src, item.dst)
    [] item.kind = "read" -> CowReplace(item.dst, Content(item.src, "primary"))
    [] item.kind = "zero" -> CowZero(item.dst)
    [] OTHER -> CowReplace(item.dst, item.val)

\* The COW operation WriteAllCowOps writes for a work item, reading the
\* bytes of a materialised replace from the descriptor chosen for the call.
CowOpOf(item, mode) ==
  CASE item.kind = "copy" -> CowCopy(item.src, item.dst)
    [] item.kind = "read" -> CowReplace(item.dst, Content(item.src, mode))
    [] item.kind = "zero" -> CowZero(item.dst)
    [] OTHER -> CowReplace(item.dst, item.val)

-----------------------------------------------------------------------------
(* Partition writer operations.                                             *)

Init ==
  /\ plan \in Plans
  /\ phase = "none"
  /\ nextOp = 0
  /\ pending = <<>>
  /\ inOp = FALSE
  /\ eccMode = "primary"
  /\ log = <<>>
  /\ checkpoint = 0
  /\ restarts = 0

\* Init(install_plan, source_may_exist, next_op_index): the caller passes
\* the persisted checkpoint; opening the snapshot writer may fail.
WriterInit ==
  /\ phase = "none"
  /\ \/ /\ phase' = "ready"
        /\ nextOp' = checkpoint
     \/ /\ phase' = "initFailed"
        /\ UNCHANGED nextOp
  /\ UNCHANGED <<plan, pending, inOp, eccMode, log, checkpoint, restarts>>

\* The caller may issue the next operation.
CanPerform(types) ==
  /\ phase = "ready" /\ ~inOp
  /\ nextOp < NumOps
  /\ OpAt(nextOp).type \in types

\* Start writing the converted operations of the current call.
StartWriting(items) ==
  /\ pending' = items
  /\ inOp' = TRUE
  /\ phase' = phase

\* A Perform*Operation call returns false before writing anything.
FailCall ==
  /\ phase' = "failed"
  /\ UNCHANGED <<pending, inOp>>

PerformZeroOrDiscardOperation ==
  /\ CanPerform({"ZERO", "DISCARD"})
  /\ StartWriting(ConvertZero(OpAt(nextOp)))
  /\ UNCHANGED <<plan, nextOp, eccMode, log, checkpoint, restarts>>

\* The source blocks are verified, choosing the descriptor the materialised
\* replaces will be read from; the block counts must agree.
PerformSourceCopyOperation ==
  LET op == OpAt(nextOp)
      rd == ReadVerified(Srcs(op), eccMode)
  IN /\ CanPerform({"SOURCE_COPY"})
     /\ eccMode' = rd.mode
     /\ IF Len(op.src) = Len(op.dst) /\ rd.ok
          THEN StartWriting(ConvertSourceCopy(op))
          ELSE FailCall
     /\ UNCHANGED <<plan, nextOp, log, checkpoint, restarts>>

\* Variant without the length check.
PerformReplaceOperationUnchecked ==
  /\ CanPerform({"REPLACE"})
  /\ StartWriting(ConvertReplace(OpAt(nextOp), nextOp))
  /\ UNCHANGED <<plan, nextOp, eccMode, log, checkpoint, restarts>>

\* LengthMismatch is reported before any write.
PerformReplaceOperation ==
  LET op == OpAt(nextOp)
  IN /\ CanPerform({"REPLACE"})
     /\ IF op.count = Len(op.dst)
          THEN StartWriting(ConvertReplace(op, nextOp))
          ELSE FailCall
     /\ UNCHANGED <<plan, nextOp, eccMode, log, checkpoint, restarts>>

\* Both diffs read their source through the verified reader, apply the
\* patch and write the result as replaces; a patch that does not decode or
\* whose output length disagrees with the destination fails the call.
PerformDiffOperation(types) ==
  LET op == OpAt(nextOp)
      rd == ReadVerified(Srcs(op), eccMode)
  IN /\ CanPerform(types)
     /\ eccMode' = rd.mode
     /\ IF rd.ok /\ op.decodes /\ op.outLen = Len(op.dst)
          THEN StartWriting(ConvertReplace(op, nextOp))
          ELSE FailCall
     /\ UNCHANGED <<plan, nextOp, log, checkpoint, restarts>>

PerformSourceBsdiffOperation == PerformDiffOperation({"SOURCE_BSDIFF"})
PerformPuffDiffOperation == PerformDiffOperation({"PUFFDIFF"})

\* WriteAllCowOps: hand the next converted operation to the snapshot writer.
WriteAllCowOps ==
  /\ phase = "ready" /\ inOp /\ pending /= <<>>
  /\ log' = Append(log, [op |-> nextOp, entry |-> CowOpOf(Head(pending), eccMode)])
  /\ pending' = Tail(pending)
  /\ UNCHANGED <<plan, phase, nextOp, inOp, eccMode, checkpoint, restarts>>

\* The snapshot writer rejects a COW operation (AddCopy, AddRawBlocks or
\* AddZeroBlocks returns false): WriteAllCowOps returns false and so does
\* the call, with the COW operations before it already in the log.
WriteAllCowOpsFails ==
  /\ phase = "ready" /\ inOp /\ pending /= <<>>
  /\ phase' = "failed"
  /\ inOp' = FALSE
  /\ pending' = <<>>
  /\ UNCHANGED <<plan, nextOp, eccMode, log, checkpoint, restarts>>

\* Variant that returns true with converted operations still unwritten.
CompleteOperationEarly ==
  /\ phase = "ready" /\ inOp
  /\ inOp' = FALSE
  /\ nextOp' = nextOp + 1
  /\ pending' = <<>>
  /\ UNCHANGED <<plan, phase, eccMode, log, checkpoint, restarts>>

\* The call returns true once every converted operation is written; the
\* caller moves on to the next operation.
CompleteOperation ==
  /\ phase = "ready" /\ inOp /\ pending = <<>>
  /\ inOp' = FALSE
  /\ nextOp' = nextOp + 1
  /\ UNCHANGED <<plan, phase, pending, eccMode, log, checkpoint, restarts>>

\* Variant that checkpoints while a call is still writing, counting the
\* operation in progress as done.
CheckpointDuringCall ==
  /\ phase = "ready"
  /\ checkpoint' = IF inOp THEN nextOp + 1 ELSE nextOp
  /\ UNCHANGED <<plan, phase, nextOp, pending, inOp, eccMode, log, restarts>>

\* CheckpointUpdateProgress(next_op_index), between two calls.
CheckpointUpdateProgress ==
  /\ phase = "ready" /\ ~inOp
  /\ checkpoint' = nextOp
  /\ UNCHANGED <<plan, phase, nextOp, pending, inOp, eccMode, log, restarts>>

FinishedInstallOps ==
  /\ phase = "ready" /\ ~inOp /\ nextOp = NumOps
  /\ phase' = "finished"
  /\ UNCHANGED <<plan, nextOp, pending, inOp, eccMode, log, checkpoint, restarts>>

\* Close: the caller stops issuing operations (after a failure, after the
\* last one, or to cancel) and releases the writer.
Close ==
  /\ phase \in {"ready", "initFailed", "failed", "finished"} /\ ~inOp
  /\ phase' = "closed"
  /\ UNCHANGED <<plan, nextOp, pending, inOp, eccMode, log, checkpoint, restarts>>

\* Variant without the retry limit.
RestartUnbounded ==
  /\ phase' = "none"
  /\ nextOp' = 0
  /\ pending' = <<>>
  /\ inOp' = FALSE
  /\ eccMode' = "primary"
  /\ restarts' = restarts + 1
  /\ UNCHANGED <<plan, log, checkpoint>>

\* The process dies at any point, or the update is retried after Close;
\* the COW log and the checkpoint survive, everything else is lost.
Restart ==
  /\ restarts < MaxRestarts
  /\ phase' = "none"
  /\ nextOp' = 0
  /\ pending' = <<>>
  /\ inOp' = FALSE
  /\ eccMode' = "primary"
  /\ restarts' = restarts + 1
  /\ UNCHANGED <<plan, log, checkpoint>>

\* Once closed with no retry left, the writer stays closed.
Terminated ==
  /\ phase = "closed" /\ restarts = MaxRestarts
  /\ UNCHANGED vars

Next ==
  \/ WriterInit
  \/ PerformZeroOrDiscardOperation
  \/ PerformSourceCopyOperation
  \/ PerformReplaceOperation
  \/ PerformSourceBsdiffOperation
  \/ PerformPuffDiffOperation
  \/ WriteAllCowOps
  \/ WriteAllCowOpsFails
  \/ CompleteOperation
  \/ CheckpointUpdateProgress
  \/ FinishedInstallOps
  \/ Close
  \/ Restart
  \/ Terminated

Spec == Init /\ [][Next]_vars

-----------------------------------------------------------------------------
(* What the COW log means (spec 1, 3 and 6).                               *)

\* A SOURCE_COPY entry the converter leaves a COW_COPY (its source block
\* not overwritten earlier in the operation) names a block that reads
\* correctly on the primary descriptor. The writer emits the COW_COPY even
\* when the block verified only through the ECC replica, so FinishedViewCorrect
\* and the refinement rest on this hypothesis (run copy_corrupt shows why).
CopiedBlocksClean ==
  \A p \in Plans : \A k \in DOMAIN p :
    p[k].type = "SOURCE_COPY" =>
      \A i \in DOMAIN p[k].src \cap DOMAIN p[k].dst :
        p[k].src[i] \notin {p[k].dst[j] : j \in 1..(i - 1)} => p[k].src[i] \notin PrimaryBad

\* Apply one COW operation to an image; a copy reads block src of base.
ApplyCow(img, e, base) ==
  [img EXCEPT ![e.dst] = IF e.kind = "copy" THEN base[e.src] ELSE e.val]

\* What a COW operation puts in its block when the snapshot reads it: a
\* copy reads the unmodified source partition through the base device.
EntryValue(e) == IF e.kind = "copy" THEN SourceImage[e.src] ELSE e.val

\* The position of the last entry of L for block b.
LastEntry(L, b) ==
  CHOOSE j \in 1..Len(L) : L[j].entry.dst = b /\ \A i \in (j + 1)..Len(L) : L[i].entry.dst # b

\* The target partition as the snapshot exposes it after the entries L:
\* the last entry for a block wins, blocks without one read the source.
ViewOf(L) ==
  [b \in Blocks |->
     IF \E j \in 1..Len(L) : L[j].entry.dst = b
     THEN EntryValue(L[LastEntry(L, b)].entry) ELSE SourceImage[b]]
SnapshotView == ViewOf(log)

\* The partition after merging the log into it in place, entry by entry:
\* a copy reads the block as earlier entries left it.
InPlaceMerge ==
  LET v[j \in 0..Len(log)] ==
        IF j = 0 THEN SourceImage ELSE ApplyCow(v[j - 1], log[j].entry, v[j - 1])
  IN v[Len(log)]

\* What the payload means: each operation reads the original source and
\* writes its destination blocks, later operations winning; a block no
\* operation writes keeps what the source partition holds.
OpValue(k, i) ==
  CASE OpAt(k).type \in {"ZERO", "DISCARD"} -> ZeroVal
    [] OpAt(k).type = "SOURCE_COPY" -> Orig(OpAt(k).src[i])
    [] OTHER -> NewData(k, i)

ApplyOp(img, k) ==
  [b \in Blocks |->
     IF b \in Dsts(OpAt(k))
     THEN OpValue(k, CHOOSE i \in DOMAIN OpAt(k).dst : OpAt(k).dst[i] = b)
     ELSE img[b]]

Target ==
  LET t[n \in 0..NumOps] == IF n = 0 THEN SourceImage ELSE ApplyOp(t[n - 1], n - 1)
  IN t[NumOps]

-----------------------------------------------------------------------------
(* Properties.                                                             *)

Values == ({"src", "bad"} \X Blocks) \cup ({"new"} \X Nat \X Nat) \cup {ZeroVal, NoVal}

WorkItems == [kind: {"copy", "read", "zero", "replace"}, src: Blocks, dst: Blocks, val: Values]

CowOperations == [kind: {"copy", "replace", "zero"}, src: Blocks, dst: Blocks, val: Values]

TypeOK ==
  /\ plan \in Plans
  /\ phase \in {"none", "ready", "initFailed", "failed", "finished", "closed"}
  /\ nextOp \in 0..NumOps
  /\ pending \in Seq(WorkItems)
  /\ inOp \in BOOLEAN
  /\ eccMode \in {"primary", "fallback"}
  /\ log \in Seq([op: 0..NumOps, entry: CowOperations])
  /\ checkpoint \in 0..NumOps
  /\ restarts \in 0..MaxRestarts

\* The log L holds a COW operation of operation k for block d.
LogHas(L, k, d) == \E j \in 1..Len(L) : L[j].op = k /\ L[j].entry.dst = d

\* Every destination block of operation k has a COW operation of k in the log.
OpLogged(k) == \A d \in Dsts(OpAt(k)) : LogHas(log, k, d)

\* CheckpointUpdateProgress never records an index past an operation whose
\* COW operations have not all been handed to the snapshot writer, whatever
\* crashes, failed calls and retries came before: resuming from the
\* checkpoint never skips an operation.
CheckpointSafe == \A k \in 0..(checkpoint - 1) : OpLogged(k)

\* Once FinishedInstallOps has been called, the snapshot exposes exactly
\* the partition the payload describes, across crashes, resumptions from
\* the checkpoint (which re-emit operations) and ECC fallback.
FinishedViewCorrect == phase = "finished" => SnapshotView = Target

\* No COW operation carries bytes that failed verification: the bytes
\* WriteAllCowOps reads for a materialised replace and the output of a diff
\* come from a descriptor whose data verified.
NoCorruptData == \A j \in 1..Len(log) : log[j].entry.val \notin {Bad(b) : b \in Blocks}

\* Spec 3 and 8: replaying the emitted COW operations sequentially, in
\* place, never reads a block an earlier entry already overwrote, so the
\* merged partition is the target; spec 4.1 adds that re-emitting an
\* operation after a crash before its checkpoint is harmless.
InPlaceMergeCorrect == phase = "finished" => InPlaceMerge = Target

\* An operation whose data length or block counts disagree with its
\* extents (LengthMismatch) never has a COW operation written for it.
WellSized(op) ==
  /\ op.type = "SOURCE_COPY" => Len(op.src) = Len(op.dst)
  /\ op.type = "REPLACE" => op.count = Len(op.dst)
  /\ op.type \in {"SOURCE_BSDIFF", "PUFFDIFF"} => op.outLen = Len(op.dst)
NoWriteForMalformedOp ==
  [][Len(log') > Len(log) => WellSized(OpAt(log'[Len(log')].op))]_vars

-----------------------------------------------------------------------------
(* Refinement of the writer's contract (VABCWriterContract).               *)

\* COW operations of the call in progress already handed to the snapshot
\* writer; the operation is not done before the call returns.
Written == IF inOp THEN Len(OpAt(nextOp).dst) - Len(pending) ELSE 0

\* The snapshot as it was before the call in progress started writing.
CommittedView == ViewOf(SubSeq(log, 1, Len(log) - Written))

Contract == INSTANCE VABCWriterContract
              WITH Operations <- UNION {{p[k] : k \in DOMAIN p} : p \in Plans},
                   status <- phase, cursor <- nextOp, ckpt <- checkpoint,
                   image <- CommittedView

\* The writer implements its contract: each successful Perform*Operation
\* call changes the snapshot by exactly the effect of one whole
\* InstallOperation when it returns, a call that fails leaves a prefix of
\* its operation's blocks written (none when it fails before writing), the
\* checkpoint is the index of the caller's next operation, and a crash in
\* the middle of a call leaves a prefix of that operation's blocks written.
ContractSpec == Contract!Spec
=============================================================================
