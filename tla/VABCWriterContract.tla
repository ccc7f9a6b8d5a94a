------------------------- MODULE VABCWriterContract -------------------------
(***************************************************************************)
(* What the Virtual-A/B partition writer promises its caller (spec 1, 4.1  *)
(* and 6), with the COW log, the converter and the verified reader        *)
(* abstracted away: the partition as the snapshot exposes it (image) gains *)
(* the effect of one whole InstallOperation per successful call, the       *)
(* checkpoint records how many operations are done, and a crash may leave *)
(* a prefix of the operation in progress written ("torn") before the next  *)
(* session resumes from the checkpoint.                                    *)
(*                                                                         *)
(* VABCPartitionWriter implements this module under a refinement mapping  *)
(* (VABCPartitionWriter!Contract).                                         *)
(***************************************************************************)
EXTENDS Naturals, Sequences

CONSTANTS
  Blocks,       \* block indices of the partition
  Operations,   \* the InstallOperations payloads may contain
  Plans,        \* candidate payloads: sequences of Operations
  SourceImage,  \* the source partition as the snapshot's base device reads it
  MaxRestarts   \* bound on process crashes and update retries

\* Contents of a block: an original source block, a corrupt one, the k-th
\* operation's i-th output block, or zeroes.
Orig(b) == <<"src", b>>
Bad(b) == <<"bad", b>>
NewData(k, i) == <<"new", k, i>>
ZeroVal == <<"zero">>

\* A payload is a sequence of operations, each with a type and source and
\* destination block lists (the extents flattened in order).
ASSUME OperationsAssumption ==
  \A op \in Operations : op.src \in Seq(Blocks) /\ op.dst \in Seq(Blocks)
ASSUME PlansAssumption == Plans \subseteq Seq(Operations)
ASSUME MaxRestartsAssumption == MaxRestarts \in Nat

Values == ({"src", "bad"} \X Blocks) \cup ({"new"} \X Nat \X Nat) \cup {ZeroVal}

\* The source partition holds each block's original content, or a corrupt
\* copy of it.
ASSUME SourceAssumption == SourceImage \in [Blocks -> Values]

VARIABLES
  plan,      \* the payload being applied (fixed for a behaviour)
  status,    \* "none", "ready", "initFailed", "failed", "finished", "closed"
  cursor,    \* index of the next operation of this session
  ckpt,      \* persisted next_op_index
  image,     \* the target partition as the snapshot exposes it
  restarts   \* crashes and retries so far

vars == <<plan, status, cursor, ckpt, image, restarts>>

NumOps == Len(plan)
OpAt(k) == plan[k + 1]
Dsts(k) == {OpAt(k).dst[i] : i \in DOMAIN OpAt(k).dst}

\* Where block b sits in the destination list of operation k.
Pos(k, b) == CHOOSE i \in DOMAIN OpAt(k).dst : OpAt(k).dst[i] = b

\* The i-th output block of operation k: a copy reads the original source,
\* zero and discard write zeroes, the others write new data.
OpValue(k, i) ==
  CASE OpAt(k).type \in {"ZERO", "DISCARD"} -> ZeroVal
    [] OpAt(k).type = "SOURCE_COPY" -> Orig(OpAt(k).src[i])
    [] OTHER -> NewData(k, i)

\* The first m destination blocks of operation k written over img.
Covered(k, m) == {OpAt(k).dst[i] : i \in 1..m}
ApplyPrefix(img, k, m) ==
  [b \in Blocks |-> IF b \in Covered(k, m) THEN OpValue(k, Pos(k, b)) ELSE img[b]]
ApplyOp(img, k) == ApplyPrefix(img, k, Len(OpAt(k).dst))

\* A SOURCE_COPY lists as many source blocks as destination blocks; the
\* writer fails a call whose operation does not (LengthMismatch).
SameLength(op) == op.type = "SOURCE_COPY" => Len(op.src) = Len(op.dst)

\* The operations at index lo or later that write block b.
Writers(b, lo) == {k \in lo..(NumOps - 1) : b \in Dsts(k)}

\* What the payload means, in closed form: each block holds what the last
\* operation writing it puts there, or what the source partition holds.
Target ==
  [b \in Blocks |->
     IF Writers(b, 0) = {} THEN SourceImage[b]
     ELSE LET k == CHOOSE k \in Writers(b, 0) : \A j \in Writers(b, 0) : j <= k
          IN OpValue(k, Pos(k, b))]

-----------------------------------------------------------------------------
Init ==
  /\ plan \in Plans
  /\ status = "none"
  /\ cursor = 0
  /\ ckpt = 0
  /\ image = SourceImage
  /\ restarts = 0

\* Init(install_plan, source_may_exist, next_op_index) resumes from the
\* checkpoint, or fails.
Open ==
  /\ status = "none"
  /\ \/ status' = "ready" /\ cursor' = ckpt
     \/ status' = "initFailed" /\ UNCHANGED cursor
  /\ UNCHANGED <<plan, ckpt, image, restarts>>

\* How much of the operation in progress a crash or a failed call may leave written.
TornPrefixes ==
  IF status = "ready" /\ cursor < NumOps /\ SameLength(OpAt(cursor))
  THEN 0..Len(OpAt(cursor).dst) ELSE {0}

\* A Perform*Operation call that succeeds: the whole operation takes effect.
Apply ==
  /\ status = "ready" /\ cursor < NumOps
  /\ SameLength(OpAt(cursor))
  /\ image' = ApplyOp(image, cursor)
  /\ cursor' = cursor + 1
  /\ UNCHANGED <<plan, status, ckpt, restarts>>

\* A Perform*Operation call that returns false: it fails before writing,
\* or the snapshot writer rejects one of its COW operations after it wrote
\* a prefix of them.
Fail ==
  /\ status = "ready" /\ cursor < NumOps
  /\ \E m \in TornPrefixes : image' = ApplyPrefix(image, cursor, m)
  /\ status' = "failed"
  /\ UNCHANGED <<plan, cursor, ckpt, restarts>>

\* Variant that records the operation in progress as done.
CheckpointAhead ==
  /\ status = "ready" /\ cursor < NumOps
  /\ ckpt' = cursor + 1
  /\ UNCHANGED <<plan, status, cursor, image, restarts>>

\* CheckpointUpdateProgress(next_op_index), between two calls.
Checkpoint ==
  /\ status = "ready"
  /\ ckpt' = cursor
  /\ UNCHANGED <<plan, status, cursor, image, restarts>>

FinishedInstallOps ==
  /\ status = "ready" /\ cursor = NumOps
  /\ status' = "finished"
  /\ UNCHANGED <<plan, cursor, ckpt, image, restarts>>

Close ==
  /\ status \in {"ready", "initFailed", "failed", "finished"}
  /\ status' = "closed"
  /\ UNCHANGED <<plan, cursor, ckpt, image, restarts>>

\* The process dies, or the update is retried; the image and the checkpoint
\* survive, with part of the operation in progress written.
Crash ==
  /\ restarts < MaxRestarts
  /\ \E m \in TornPrefixes : image' = ApplyPrefix(image, cursor, m)
  /\ status' = "none"
  /\ cursor' = 0
  /\ restarts' = restarts + 1
  /\ UNCHANGED <<plan, ckpt>>

Terminated ==
  /\ status = "closed" /\ restarts = MaxRestarts
  /\ UNCHANGED vars

Next ==
  \/ Open \/ Apply \/ Fail \/ Checkpoint \/ FinishedInstallOps \/ Close
  \/ Crash \/ Terminated

Spec == Init /\ [][Next]_vars

-----------------------------------------------------------------------------
TypeOK ==
  /\ plan \in Plans
  /\ status \in {"none", "ready", "initFailed", "failed", "finished", "closed"}
  /\ cursor \in 0..NumOps
  /\ ckpt \in 0..NumOps
  /\ image \in [Blocks -> Values]
  /\ restarts \in 0..MaxRestarts

\* Once FinishedInstallOps has returned, the snapshot exposes exactly the
\* partition the payload describes, although crashes tore operations and
\* every session after the first re-applied the operations from the
\* checkpoint on.
FinishedCorrect == status = "finished" => image = Target
=============================================================================
