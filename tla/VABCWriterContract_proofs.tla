---------------------- MODULE VABCWriterContract_proofs ----------------------
(***************************************************************************)
(* Proofs about the writer's contract, for every partition, payload and   *)
(* number of restarts.                                                     *)
(*                                                                         *)
(* FinishedCorrect is not inductive: it says nothing about a session that  *)
(* is still running, or about the image a crash leaves behind. The        *)
(* strengthening Settled says which blocks already hold their final       *)
(* content: every block that no operation from Base on writes, where Base *)
(* is the cursor of a running or finished session and the checkpoint      *)
(* otherwise (the next session resumes there).                             *)
(***************************************************************************)
EXTENDS VABCWriterContract, TLAPS

Base == IF status \in {"ready", "finished"} THEN cursor ELSE ckpt

Settled == \A b \in Blocks : Writers(b, Base) = {} => image[b] = Target[b]

\* A running or finished session is at or past the checkpoint, and a
\* finished one is past the last operation.
Ordered ==
  /\ status \in {"ready", "finished"} => ckpt <= cursor
  /\ status = "finished" => cursor = NumOps

IInv == TypeOK /\ Ordered /\ Settled

-----------------------------------------------------------------------------
(* Lemmas about the payload.                                               *)

LEMMA OpAtType ==
  ASSUME NEW p \in Plans, NEW k \in 0..(Len(p) - 1)
  PROVE  /\ p[k + 1] \in Operations
         /\ p[k + 1].src \in Seq(Blocks) /\ p[k + 1].dst \in Seq(Blocks)
BY PlansAssumption, OperationsAssumption

\* The payload is a sequence of operations.
LEMMA PlanType ==
  ASSUME TypeOK
  PROVE  plan \in Seq(Operations) /\ NumOps \in Nat
BY PlansAssumption DEF TypeOK, NumOps

\* A later start has fewer writers.
LEMMA WritersMono ==
  ASSUME NEW b, NEW lo \in Nat, NEW hi \in Nat, lo <= hi
  PROVE  Writers(b, hi) \subseteq Writers(b, lo)
BY DEF Writers

\* No operation from NumOps on exists.
LEMMA WritersEnd ==
  ASSUME TypeOK, NEW b
  PROVE  Writers(b, NumOps) = {}
BY PlanType DEF Writers

\* Pos finds block b in the destination list of an operation that writes it.
LEMMA PosFacts ==
  ASSUME NEW k, NEW b, b \in Dsts(k)
  PROVE  Pos(k, b) \in DOMAIN OpAt(k).dst /\ OpAt(k).dst[Pos(k, b)] = b
BY DEF Dsts, Pos

\* Every output block of a well-sized operation is a value.
LEMMA OpValueType ==
  ASSUME TypeOK, NEW k \in 0..(NumOps - 1), SameLength(OpAt(k)),
         NEW i \in DOMAIN OpAt(k).dst
  PROVE  OpValue(k, i) \in Values
<1>1. OpAt(k).src \in Seq(Blocks) /\ OpAt(k).dst \in Seq(Blocks)
  BY OpAtType DEF TypeOK, OpAt, NumOps
<1>2. OpAt(k).type = "SOURCE_COPY" => OpAt(k).src[i] \in Blocks
  BY <1>1 DEF SameLength
<1>3. NewData(k, i) \in {"new"} \X Nat \X Nat
  BY <1>1 DEF NewData
<1>. QED
  BY <1>2, <1>3 DEF OpValue, Values, Orig, ZeroVal

\* Applying a prefix of a well-sized operation keeps the image typed.
LEMMA ApplyPrefixType ==
  ASSUME TypeOK, NEW k \in 0..(NumOps - 1), SameLength(OpAt(k)),
         NEW m \in 0..Len(OpAt(k).dst)
  PROVE  ApplyPrefix(image, k, m) \in [Blocks -> Values]
<1>1. OpAt(k).dst \in Seq(Blocks)
  BY OpAtType DEF TypeOK, OpAt, NumOps
<1>2. \A b \in Covered(k, m) : b \in Dsts(k)
  BY <1>1 DEF Covered, Dsts
<1>3. \A b \in Covered(k, m) : OpValue(k, Pos(k, b)) \in Values
  BY <1>2, PosFacts, OpValueType
<1>. QED
  BY <1>3 DEF ApplyPrefix, TypeOK

\* Applying a prefix changes only blocks the operation writes.
LEMMA ApplyPrefixOutside ==
  ASSUME NEW img, NEW k, NEW m \in Nat, OpAt(k).dst \in Seq(Blocks),
         m <= Len(OpAt(k).dst), NEW b \in Blocks, b \notin Dsts(k)
  PROVE  ApplyPrefix(img, k, m)[b] = img[b]
BY DEF ApplyPrefix, Covered, Dsts

\* When operation c writes b and no later one does, c is the last writer:
\* the target holds c's output for b.
LEMMA TargetLastWriter ==
  ASSUME TypeOK, NEW c \in 0..(NumOps - 1), NEW b \in Blocks, b \in Dsts(c),
         Writers(b, c + 1) = {}
  PROVE  Target[b] = OpValue(c, Pos(c, b))
<1>1. c \in Writers(b, 0)
  BY DEF Writers
<1>2. \A j \in Writers(b, 0) : j <= c
  BY DEF Writers, TypeOK
<1>3. \A k \in Writers(b, 0) : (\A j \in Writers(b, 0) : j <= k) => k = c
  BY <1>1, <1>2 DEF Writers, TypeOK
<1>4. (CHOOSE k \in Writers(b, 0) : \A j \in Writers(b, 0) : j <= k) = c
  BY <1>1, <1>2, <1>3
<1>. QED
  BY <1>1, <1>4 DEF Target

-----------------------------------------------------------------------------
(* The inductive invariant.                                                *)

LEMMA IInvInit == Init => IInv
<1>. SUFFICES ASSUME Init PROVE IInv
  OBVIOUS
<1>0. plan \in Seq(Operations)
  BY PlansAssumption DEF Init
<1>1. TypeOK
  BY <1>0, MaxRestartsAssumption, SourceAssumption DEF Init, TypeOK, NumOps
<1>2. \A b \in Blocks : Writers(b, 0) = {} => image[b] = Target[b]
  BY DEF Init, Target
<1>. QED
  BY <1>1, <1>2 DEF IInv, Ordered, Init, Base, Settled

\* A prefix of the operation in progress, as a crash or a failed call
\* leaves it, keeps the image typed and writes no block that is settled
\* from the checkpoint on.
LEMMA TornPrefixSafe ==
  ASSUME IInv, NEW m \in TornPrefixes
  PROVE  /\ ApplyPrefix(image, cursor, m) \in [Blocks -> Values]
         /\ \A b \in Blocks : Writers(b, ckpt) = {} =>
               ApplyPrefix(image, cursor, m)[b] = Target[b]
<1>0. /\ plan \in Seq(Operations) /\ NumOps \in Nat
      /\ cursor \in 0..NumOps /\ ckpt \in 0..NumOps
  BY PlanType DEF IInv, TypeOK
<1>1. \A b : Writers(b, ckpt) = {} => Writers(b, Base) = {}
  <2>1. ckpt <= Base
    BY <1>0 DEF IInv, Ordered, Base
  <2>. QED
    BY <1>0, <2>1, WritersMono DEF Base
<1>2. CASE status = "ready" /\ cursor < NumOps /\ SameLength(OpAt(cursor))
  <2>1. m \in 0..Len(OpAt(cursor).dst)
    BY <1>2 DEF TornPrefixes
  <2>2. OpAt(cursor).dst \in Seq(Blocks)
    BY <1>0, <1>2, OpAtType DEF IInv, TypeOK, OpAt, NumOps
  <2>3. ApplyPrefix(image, cursor, m) \in [Blocks -> Values]
    BY <1>0, <1>2, <2>1, ApplyPrefixType DEF IInv
  <2>4. ASSUME NEW b \in Blocks, Writers(b, ckpt) = {}
        PROVE  ApplyPrefix(image, cursor, m)[b] = Target[b]
    <3>1. b \notin Dsts(cursor)
      BY <2>4, <1>2, <1>0 DEF Writers, IInv, Ordered
    <3>2. ApplyPrefix(image, cursor, m)[b] = image[b]
      BY <2>1, <2>2, <3>1, ApplyPrefixOutside
    <3>. QED
      BY <3>2, <2>4, <1>1 DEF IInv, Settled
  <2>. QED
    BY <2>3, <2>4
<1>3. CASE ~(status = "ready" /\ cursor < NumOps /\ SameLength(OpAt(cursor)))
  <2>1. m = 0
    BY <1>3 DEF TornPrefixes
  <2>2. ApplyPrefix(image, cursor, m) = image
    BY <2>1 DEF ApplyPrefix, Covered, IInv, TypeOK
  <2>. QED
    BY <1>1, <2>2 DEF IInv, TypeOK, Settled
<1>. QED
  BY <1>2, <1>3

LEMMA IInvStep == IInv /\ [Next]_vars => IInv'
<1>. SUFFICES ASSUME IInv, [Next]_vars PROVE TypeOK' /\ Ordered' /\ Settled'
  BY DEF IInv
<1>. USE DEF IInv
<1>0. /\ plan \in Seq(Operations) /\ NumOps \in Nat
      /\ cursor \in 0..NumOps /\ ckpt \in 0..NumOps
  BY PlanType DEF TypeOK
\* The payload does not change, and with it neither do the writers of a
\* block nor the target.
<1>a. ASSUME plan' = plan
      PROVE  /\ NumOps' = NumOps
             /\ \A b, lo : Writers(b, lo)' = Writers(b, lo)
             /\ Target' = Target
  BY <1>a DEF NumOps, Writers, Dsts, OpAt, Target, OpValue, Pos
<1>1. CASE Open
  <2>1. TypeOK'
    BY <1>0, <1>1, <1>a DEF Open, TypeOK
  <2>2. Ordered'
    BY <1>0, <1>1, <1>a DEF Open, Ordered
  <2>3. Base' = ckpt /\ Base = ckpt
    BY <1>1 DEF Open, Base
  <2>4. Settled'
    BY <1>1, <1>a, <2>3 DEF Open, Settled
  <2>. QED
    BY <2>1, <2>2, <2>4
<1>2. CASE Apply
  <2>. DEFINE c == cursor
  <2>1. c \in 0..(NumOps - 1) /\ SameLength(OpAt(c))
    BY <1>0, <1>2 DEF Apply
  <2>2. OpAt(c).dst \in Seq(Blocks)
    BY <2>1, <1>0, OpAtType DEF TypeOK, OpAt, NumOps
  <2>3. image' \in [Blocks -> Values]
    BY <1>2, <2>1, ApplyPrefixType DEF Apply, ApplyOp
  <2>4. TypeOK'
    BY <1>0, <1>2, <1>a, <2>1, <2>3 DEF Apply, TypeOK
  <2>5. Ordered'
    BY <1>0, <1>2, <1>a DEF Apply, Ordered
  <2>6. Base' = c + 1 /\ Base = c
    BY <1>2 DEF Apply, Base
  <2>7. ASSUME NEW b \in Blocks, Writers(b, c + 1) = {}
        PROVE  image'[b] = Target[b]
    <3>1. CASE b \in Dsts(c)
      <4>1. b \in Covered(c, Len(OpAt(c).dst))
        BY <3>1, <2>2 DEF Dsts, Covered
      <4>2. image'[b] = OpValue(c, Pos(c, b))
        BY <1>2, <4>1 DEF Apply, ApplyOp, ApplyPrefix
      <4>. QED
        BY <4>2, <3>1, <2>1, <2>7, TargetLastWriter
    <3>2. CASE b \notin Dsts(c)
      <4>1. image'[b] = image[b]
        BY <1>2, <3>2, <2>2, ApplyPrefixOutside DEF Apply, ApplyOp
      <4>2. Writers(b, c) = {}
        BY <2>7, <3>2, <2>1 DEF Writers
      <4>. QED
        BY <4>1, <4>2, <2>6 DEF Settled
    <3>. QED
      BY <3>1, <3>2
  <2>8. Settled'
    BY <1>2, <1>a, <2>6, <2>7 DEF Apply, Settled
  <2>. QED
    BY <2>4, <2>5, <2>8
<1>3. CASE Fail
  <2>1. PICK m \in TornPrefixes : image' = ApplyPrefix(image, cursor, m)
    BY <1>3 DEF Fail
  <2>2. Base' = ckpt
    BY <1>3 DEF Fail, Base
  <2>3. image' \in [Blocks -> Values] /\ Settled'
    BY <1>3, <1>a, <2>1, <2>2, TornPrefixSafe DEF Fail, Settled
  <2>. QED
    BY <1>0, <1>3, <1>a, <2>3 DEF Fail, TypeOK, Ordered
<1>4. CASE Checkpoint
  <2>1. Base' = Base
    BY <1>4 DEF Checkpoint, Base
  <2>2. Settled'
    BY <1>4, <1>a, <2>1 DEF Checkpoint, Settled
  <2>. QED
    BY <1>0, <1>4, <1>a, <2>2 DEF Checkpoint, TypeOK, Ordered
<1>5. CASE FinishedInstallOps
  <2>1. Base' = Base
    BY <1>5 DEF FinishedInstallOps, Base
  <2>2. Settled'
    BY <1>5, <1>a, <2>1 DEF FinishedInstallOps, Settled
  <2>. QED
    BY <1>0, <1>5, <1>a, <2>2 DEF FinishedInstallOps, TypeOK, Ordered
<1>6. CASE Close
  <2>1. Base' = ckpt /\ ckpt <= Base
    BY <1>0, <1>6 DEF Close, Base, Ordered
  <2>2. \A b : Writers(b, ckpt) = {} => Writers(b, Base) = {}
    BY <1>0, <2>1, WritersMono DEF Base
  <2>3. Settled'
    BY <1>6, <1>a, <2>1, <2>2 DEF Close, Settled
  <2>. QED
    BY <1>0, <1>6, <1>a, <2>3 DEF Close, TypeOK, Ordered
<1>7. CASE Crash
  <2>1. PICK m \in TornPrefixes : image' = ApplyPrefix(image, cursor, m)
    BY <1>7 DEF Crash
  <2>2. Base' = ckpt
    BY <1>7 DEF Crash, Base
  <2>3. image' \in [Blocks -> Values] /\ Settled'
    BY <1>7, <1>a, <2>1, <2>2, TornPrefixSafe DEF Crash, Settled
  <2>. QED
    BY <1>0, <1>7, <1>a, <2>3, MaxRestartsAssumption DEF Crash, TypeOK, Ordered
<1>8. CASE Terminated \/ UNCHANGED vars
  <2>1. UNCHANGED vars
    BY <1>8 DEF Terminated
  <2>. QED
    BY <2>1, <1>a DEF vars, TypeOK, Ordered, Settled, Base
<1>. QED
  BY <1>1, <1>2, <1>3, <1>4, <1>5, <1>6, <1>7, <1>8 DEF Next

\* The strengthening implies the property: a finished session's cursor is
\* past every operation, so no block is still to be written.
LEMMA IInvFinished == IInv => FinishedCorrect
<1>. SUFFICES ASSUME IInv, status = "finished" PROVE image = Target
  BY DEF FinishedCorrect
<1>1. \A b \in Blocks : image[b] = Target[b]
  BY WritersEnd DEF IInv, Ordered, Settled, Base
<1>. QED
  BY <1>1 DEF IInv, TypeOK, Target

\* Whatever the payload, the crashes and the failed calls, a session that
\* reaches FinishedInstallOps leaves the snapshot exposing exactly the
\* partition the payload describes: resuming from the checkpoint re-applies
\* every operation a crash may have torn.
THEOREM ContractFinishedCorrect == Spec => []FinishedCorrect
<1>1. Init => IInv
  BY IInvInit
<1>2. IInv /\ [Next]_vars => IInv'
  BY IInvStep
<1>3. IInv => FinishedCorrect
  BY IInvFinished
<1>. QED
  BY <1>1, <1>2, <1>3, PTL DEF Spec
=============================================================================
