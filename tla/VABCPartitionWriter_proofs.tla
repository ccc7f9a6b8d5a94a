--------------------- MODULE VABCPartitionWriter_proofs ---------------------
(***************************************************************************)
(* Proofs about VABCPartitionWriter for every payload, every set of        *)
(* corrupt blocks and every bound on restarts: the type invariant, and     *)
(* that the persisted checkpoint never runs ahead of the COW log.          *)
(***************************************************************************)
EXTENDS VABCPartitionWriter, TLAPS

Modes == {"primary", "fallback"}

(* The operation the caller issues next is an InstallOperation. *)
LEMMA OpAtType ==
  ASSUME NEW p \in Seq(InstallOperations), NEW k \in 0..(Len(p) - 1)
  PROVE  p[k + 1] \in InstallOperations
  OBVIOUS

(* The verified reader always ends on one of the two descriptors. *)
LEMMA ReadVerifiedMode ==
  ASSUME NEW S, NEW mode \in Modes
  PROVE  ReadVerified(S, mode).mode \in Modes
  BY DEF ReadVerified, Modes

(* Every conversion produces a sequence of work items. *)
LEMMA ConvertZeroType ==
  ASSUME NEW op \in InstallOperations
  PROVE  ConvertZero(op) \in Seq(WorkItems)
  BY DEF ConvertZero, WorkItem, WorkItems, InstallOperations, Values, ZeroVal

LEMMA ConvertSourceCopyType ==
  ASSUME NEW op \in InstallOperations, Len(op.src) = Len(op.dst)
  PROVE  ConvertSourceCopy(op) \in Seq(WorkItems)
  BY DEF ConvertSourceCopy, WorkItem, WorkItems, InstallOperations, Values, NoVal

LEMMA ConvertReplaceType ==
  ASSUME NEW op \in InstallOperations, NEW k \in Nat
  PROVE  ConvertReplace(op, k) \in Seq(WorkItems)
  BY BlocksAssumption DEF ConvertReplace, WorkItem, WorkItems, InstallOperations,
                          Values, NewData

(* WriteAllCowOps turns a work item into a COW operation for the same block. *)
LEMMA CowOpOfType ==
  ASSUME NEW item \in WorkItems, NEW mode \in Modes
  PROVE  /\ CowOpOf(item, mode) \in CowOperations
         /\ CowOpOf(item, mode).dst = item.dst
  BY DEF CowOpOf, WorkItems, CowOperations, CowCopy, CowReplace, CowZero,
         Content, Orig, Bad, Values, ZeroVal, NoVal, Modes

(* The conversions keep the i-th destination block in the i-th item. *)
LEMMA ConvertDsts ==
  ASSUME NEW op \in InstallOperations, NEW k
  PROVE  /\ \A i \in 1..Len(op.dst) : ConvertZero(op)[i].dst = op.dst[i]
         /\ \A i \in 1..Len(op.dst) : ConvertSourceCopy(op)[i].dst = op.dst[i]
         /\ \A i \in 1..Len(op.dst) : ConvertReplace(op, k)[i].dst = op.dst[i]
         /\ Len(ConvertZero(op)) = Len(op.dst)
         /\ Len(ConvertSourceCopy(op)) = Len(op.dst)
         /\ Len(ConvertReplace(op, k)) = Len(op.dst)
  BY DEF ConvertZero, ConvertSourceCopy, ConvertReplace, WorkItem, InstallOperations

-----------------------------------------------------------------------------
(* Type correctness.                                                        *)

LEMMA TypeInit == Init => TypeOK
<1> SUFFICES ASSUME Init PROVE TypeOK
  OBVIOUS
<1>1. plan \in Seq(InstallOperations)
  BY PlansAssumption DEF Init
<1>2. Len(plan) \in Nat
  BY <1>1
<1>3. /\ nextOp \in 0..NumOps /\ checkpoint \in 0..NumOps
      /\ restarts \in 0..MaxRestarts
  BY <1>2, MaxRestartsAssumption DEF Init, NumOps
<1>4. pending \in Seq(WorkItems) /\ log \in Seq([op: 0..NumOps, entry: CowOperations])
  BY DEF Init
<1>. QED
  BY <1>3, <1>4, Zenon DEF Init, TypeOK

LEMMA TypeStep == TypeOK /\ (inOp => nextOp < NumOps) /\ [Next]_vars => TypeOK'
<1> SUFFICES ASSUME TypeOK, inOp => nextOp < NumOps, [Next]_vars PROVE TypeOK'
  OBVIOUS
<1>a. plan \in Seq(InstallOperations)
  BY PlansAssumption DEF TypeOK
<1>b. nextOp < NumOps => OpAt(nextOp) \in InstallOperations
  BY <1>a, OpAtType DEF TypeOK, OpAt, NumOps
<1>c. eccMode \in Modes
  BY DEF TypeOK, Modes
<1> USE <1>a DEF NumOps
<1>1. CASE WriterInit
  BY <1>1 DEF WriterInit, TypeOK
<1>2. CASE PerformZeroOrDiscardOperation
  BY <1>2, <1>b, ConvertZeroType
     DEF PerformZeroOrDiscardOperation, CanPerform, StartWriting, TypeOK
<1>3. CASE PerformSourceCopyOperation
  <2> DEFINE op == OpAt(nextOp)
             rd == ReadVerified(Srcs(op), eccMode)
  <2>1. rd.mode \in Modes
    BY <1>c, ReadVerifiedMode
  <2>2. CASE Len(op.src) = Len(op.dst) /\ rd.ok
    <3>1. ConvertSourceCopy(op) \in Seq(WorkItems)
      BY <1>3, <2>2, <1>b, ConvertSourceCopyType DEF PerformSourceCopyOperation, CanPerform
    <3>. QED
      BY <1>3, <2>1, <2>2, <3>1 DEF PerformSourceCopyOperation, StartWriting, TypeOK, Modes
  <2>3. CASE ~(Len(op.src) = Len(op.dst) /\ rd.ok)
    BY <1>3, <2>1, <2>3 DEF PerformSourceCopyOperation, FailCall, TypeOK, Modes
  <2>. QED
    BY <2>2, <2>3
<1>4. CASE PerformReplaceOperation
  <2>0. OpAt(nextOp) \in InstallOperations /\ nextOp \in Nat
    BY <1>4, <1>b DEF PerformReplaceOperation, CanPerform, TypeOK
  <2>1. ConvertReplace(OpAt(nextOp), nextOp) \in Seq(WorkItems)
    BY <2>0, ConvertReplaceType
  <2>. QED
    BY <1>4, <2>1 DEF PerformReplaceOperation, StartWriting, FailCall, TypeOK
<1>5. ASSUME NEW types, PerformDiffOperation(types) PROVE TypeOK'
  <2> DEFINE op == OpAt(nextOp)
             rd == ReadVerified(Srcs(op), eccMode)
  <2>1. rd.mode \in Modes
    BY <1>c, ReadVerifiedMode
  <2>0. op \in InstallOperations /\ nextOp \in Nat
    BY <1>5, <1>b DEF PerformDiffOperation, CanPerform, TypeOK
  <2>2. ConvertReplace(op, nextOp) \in Seq(WorkItems)
    BY <2>0, ConvertReplaceType
  <2>. QED
    BY <1>5, <2>1, <2>2 DEF PerformDiffOperation, StartWriting, FailCall, TypeOK, Modes
<1>6. CASE WriteAllCowOps
  <2>1. Head(pending) \in WorkItems
    BY <1>6 DEF WriteAllCowOps, TypeOK
  <2>2. CowOpOf(Head(pending), eccMode) \in CowOperations
    BY <2>1, <1>c, CowOpOfType
  <2>3. nextOp \in 0..NumOps
    BY DEF TypeOK
  <2>. QED
    BY <1>6, <2>2, <2>3 DEF WriteAllCowOps, TypeOK
<1>7. CASE CompleteOperation
  <2>1. nextOp < NumOps
    BY <1>7 DEF CompleteOperation, TypeOK
  <2>2. nextOp' \in 0..NumOps'
    BY <1>7, <2>1 DEF CompleteOperation, TypeOK
  <2>. QED
    BY <1>7, <2>2, Zenon DEF CompleteOperation, TypeOK
<1>8. CASE CheckpointUpdateProgress
  BY <1>8 DEF CheckpointUpdateProgress, TypeOK
<1>9. CASE FinishedInstallOps
  BY <1>9 DEF FinishedInstallOps, TypeOK
<1>10. CASE Close
  BY <1>10 DEF Close, TypeOK
<1>11. CASE Restart
  <2>1. restarts' \in 0..MaxRestarts
    BY <1>11, MaxRestartsAssumption DEF Restart, TypeOK
  <2>2. pending' \in Seq(WorkItems) /\ nextOp' \in 0..NumOps'
    BY <1>11 DEF Restart, TypeOK
  <2>3. phase' = "none" /\ inOp' \in BOOLEAN /\ eccMode' \in {"primary", "fallback"}
    BY <1>11 DEF Restart
  <2>. QED
    BY <1>11, <2>1, <2>2, <2>3, Zenon DEF Restart, TypeOK
<1>12. CASE Terminated \/ UNCHANGED vars
  BY <1>12 DEF Terminated, vars, TypeOK
<1>13. CASE WriteAllCowOpsFails
  <2>1. pending' \in Seq(WorkItems) /\ phase' = "failed" /\ inOp' = FALSE
    BY <1>13 DEF WriteAllCowOpsFails
  <2>. QED
    BY <1>13, <2>1, Zenon DEF WriteAllCowOpsFails, TypeOK
<1>. QED
  BY <1>1, <1>2, <1>3, <1>4, <1>5, <1>6, <1>7, <1>8, <1>9, <1>10, <1>11, <1>12, <1>13
     DEF Next, PerformSourceBsdiffOperation, PerformPuffDiffOperation

-----------------------------------------------------------------------------
(* The checkpoint never runs ahead of the log.                              *)

(* Appending to the log keeps every COW operation it already held. *)
LEMMA LogHasAppend ==
  ASSUME NEW S, NEW L \in Seq(S), NEW e, NEW k, NEW d, LogHas(L, k, d)
  PROVE  LogHas(Append(L, e), k, d)
  BY DEF LogHas

(* The appended COW operation is in the log. *)
LEMMA LogHasLast ==
  ASSUME NEW S, NEW L \in Seq(S), NEW k, NEW c
  PROVE  LogHas(Append(L, [op |-> k, entry |-> c]), k, c.dst)
  BY DEF LogHas

(* While a call is in progress, every destination block of the current
   operation is either already in the log or still among the converted
   COW operations waiting to be written. *)
CallInvariant ==
  inOp => /\ phase = "ready" /\ nextOp < NumOps
          /\ \A d \in Dsts(OpAt(nextOp)) :
                \/ LogHas(log, nextOp, d)
                \/ \E i \in 1..Len(pending) : pending[i].dst = d

(* Every operation the caller has already moved past is in the log. *)
ReadyInvariant == phase = "ready" => \A k \in 0..(nextOp - 1) : OpLogged(k)

IInv == TypeOK /\ CallInvariant /\ ReadyInvariant /\ CheckpointSafe

LEMMA IInvInit == Init => IInv
  BY TypeInit DEF Init, IInv, CallInvariant, ReadyInvariant, CheckpointSafe

(* A call that starts on the current operation with converted COW
   operations covering its destination blocks keeps the invariant. *)
LEMMA StartKeeps ==
  ASSUME IInv, TypeOK', NEW items, phase = "ready", ~inOp, nextOp < NumOps,
         OpAt(nextOp) \in InstallOperations,
         Len(items) = Len(OpAt(nextOp).dst),
         \A i \in 1..Len(OpAt(nextOp).dst) : items[i].dst = OpAt(nextOp).dst[i],
         StartWriting(items), UNCHANGED <<plan, nextOp, log, checkpoint>>
  PROVE  IInv'
<1>1. /\ phase' = "ready" /\ inOp' /\ pending' = items
      /\ nextOp' < NumOps' /\ nextOp' = nextOp
      /\ Dsts(OpAt(nextOp))' = Dsts(OpAt(nextOp))
  BY DEF StartWriting, OpAt, NumOps, Dsts
<1>2. \A d \in Dsts(OpAt(nextOp)) : \E i \in 1..Len(items) : items[i].dst = d
  BY DEF Dsts, InstallOperations
<1>3. CallInvariant'
  BY <1>1, <1>2 DEF CallInvariant
<1>4. ReadyInvariant' /\ CheckpointSafe'
  BY DEF IInv, ReadyInvariant, CheckpointSafe, OpLogged, StartWriting, OpAt, NumOps
<1>. QED
  BY <1>3, <1>4 DEF IInv

(* A step that leaves phase "ready" with no call in progress and keeps
   the log and the checkpoint keeps the invariant. *)
LEMMA LeaveKeeps ==
  ASSUME IInv, TypeOK', phase' # "ready", ~inOp', UNCHANGED <<plan, log, checkpoint>>
  PROVE  IInv'
  BY DEF IInv, CallInvariant, ReadyInvariant, CheckpointSafe, OpLogged, OpAt, NumOps

LEMMA IInvStep == IInv /\ [Next]_vars => IInv'
<1> SUFFICES ASSUME IInv, [Next]_vars PROVE IInv'
  OBVIOUS
<1>t. TypeOK'
  BY TypeStep DEF IInv, CallInvariant
<1>a. plan \in Seq(InstallOperations)
  BY PlansAssumption DEF IInv, TypeOK
<1>b. nextOp < NumOps => OpAt(nextOp) \in InstallOperations
  BY <1>a, OpAtType DEF IInv, TypeOK, OpAt, NumOps
<1>c. ~inOp \/ phase = "ready"
  BY DEF IInv, CallInvariant
<1>1. CASE WriterInit
  <2>1. CASE phase' = "ready"
    BY <1>t, <1>1, <2>1 DEF WriterInit, IInv, CallInvariant, ReadyInvariant,
                            CheckpointSafe, OpLogged, OpAt, NumOps
  <2>2. CASE phase' # "ready"
    <3>1. ~inOp' /\ UNCHANGED <<plan, log, checkpoint>>
      BY <1>1, <1>c DEF WriterInit
    <3>. QED
      BY <1>t, <2>2, <3>1, LeaveKeeps
  <2>. QED
    BY <2>1, <2>2
<1>2. CASE PerformZeroOrDiscardOperation
  <2>1. /\ phase = "ready" /\ ~inOp /\ nextOp < NumOps
        /\ OpAt(nextOp) \in InstallOperations
    BY <1>2, <1>b DEF PerformZeroOrDiscardOperation, CanPerform
  <2>2. /\ Len(ConvertZero(OpAt(nextOp))) = Len(OpAt(nextOp).dst)
        /\ \A i \in 1..Len(OpAt(nextOp).dst) :
              ConvertZero(OpAt(nextOp))[i].dst = OpAt(nextOp).dst[i]
    BY <2>1, ConvertDsts
  <2>3. StartWriting(ConvertZero(OpAt(nextOp))) /\ UNCHANGED <<plan, nextOp, log, checkpoint>>
    BY <1>2 DEF PerformZeroOrDiscardOperation
  <2>. QED
    BY <1>t, <2>1, <2>2, <2>3, StartKeeps
<1>3. CASE PerformSourceCopyOperation
  <2> DEFINE op == OpAt(nextOp)
             rd == ReadVerified(Srcs(op), eccMode)
  <2>0. /\ phase = "ready" /\ ~inOp /\ nextOp < NumOps /\ op \in InstallOperations
        /\ UNCHANGED <<plan, nextOp, log, checkpoint>>
    BY <1>3, <1>b DEF PerformSourceCopyOperation, CanPerform
  <2>1. CASE Len(op.src) = Len(op.dst) /\ rd.ok
    <3>1. /\ Len(ConvertSourceCopy(op)) = Len(op.dst)
          /\ \A i \in 1..Len(op.dst) : ConvertSourceCopy(op)[i].dst = op.dst[i]
      BY <2>0, ConvertDsts
    <3>2. StartWriting(ConvertSourceCopy(op))
      BY <1>3, <2>1 DEF PerformSourceCopyOperation
    <3>. QED
      BY <1>t, <2>0, <3>1, <3>2, StartKeeps
  <2>2. CASE ~(Len(op.src) = Len(op.dst) /\ rd.ok)
    <3>1. phase' # "ready" /\ ~inOp'
      BY <1>3, <2>0, <2>2 DEF PerformSourceCopyOperation, FailCall
    <3>. QED
      BY <1>t, <2>0, <3>1, LeaveKeeps
  <2>. QED
    BY <2>1, <2>2
<1>4. CASE PerformReplaceOperation
  <2> DEFINE op == OpAt(nextOp)
  <2>0. /\ phase = "ready" /\ ~inOp /\ nextOp < NumOps /\ op \in InstallOperations
        /\ UNCHANGED <<plan, nextOp, log, checkpoint>>
    BY <1>4, <1>b DEF PerformReplaceOperation, CanPerform
  <2>1. CASE op.count = Len(op.dst)
    <3>1. /\ Len(ConvertReplace(op, nextOp)) = Len(op.dst)
          /\ \A i \in 1..Len(op.dst) : ConvertReplace(op, nextOp)[i].dst = op.dst[i]
      BY <2>0 DEF ConvertReplace, WorkItem, InstallOperations
    <3>2. StartWriting(ConvertReplace(op, nextOp))
      BY <1>4, <2>1 DEF PerformReplaceOperation
    <3>. QED
      BY <1>t, <2>0, <3>1, <3>2, StartKeeps
  <2>2. CASE op.count # Len(op.dst)
    <3>1. phase' # "ready" /\ ~inOp'
      BY <1>4, <2>0, <2>2 DEF PerformReplaceOperation, FailCall
    <3>. QED
      BY <1>t, <2>0, <3>1, LeaveKeeps
  <2>. QED
    BY <2>1, <2>2
<1>5. ASSUME NEW types, PerformDiffOperation(types) PROVE IInv'
  <2> DEFINE op == OpAt(nextOp)
             rd == ReadVerified(Srcs(op), eccMode)
  <2>0. /\ phase = "ready" /\ ~inOp /\ nextOp < NumOps /\ op \in InstallOperations
        /\ UNCHANGED <<plan, nextOp, log, checkpoint>>
    BY <1>5, <1>b DEF PerformDiffOperation, CanPerform
  <2>1. CASE rd.ok /\ op.decodes /\ op.outLen = Len(op.dst)
    <3>1. /\ Len(ConvertReplace(op, nextOp)) = Len(op.dst)
          /\ \A i \in 1..Len(op.dst) : ConvertReplace(op, nextOp)[i].dst = op.dst[i]
      BY <2>0 DEF ConvertReplace, WorkItem, InstallOperations
    <3>2. StartWriting(ConvertReplace(op, nextOp))
      BY <1>5, <2>1 DEF PerformDiffOperation
    <3>. QED
      BY <1>t, <2>0, <3>1, <3>2, StartKeeps
  <2>2. CASE ~(rd.ok /\ op.decodes /\ op.outLen = Len(op.dst))
    <3>1. phase' # "ready" /\ ~inOp'
      BY <1>5, <2>0, <2>2 DEF PerformDiffOperation, FailCall
    <3>. QED
      BY <1>t, <2>0, <3>1, LeaveKeeps
  <2>. QED
    BY <2>1, <2>2
<1>6. CASE WriteAllCowOps
  <2> DEFINE c == CowOpOf(Head(pending), eccMode)
  <2>0. /\ log \in Seq([op: 0..NumOps, entry: CowOperations])
        /\ pending \in Seq(WorkItems) /\ pending # <<>>
        /\ eccMode \in Modes
    BY <1>6 DEF WriteAllCowOps, IInv, TypeOK, Modes
  <2>1. c.dst = Head(pending).dst
    <3>1. Head(pending) \in WorkItems
      BY <2>0
    <3>. QED
      BY <2>0, <3>1, CowOpOfType
  <2>2. \A k, d : LogHas(log, k, d) => LogHas(log', k, d)
    BY <1>6, <2>0, LogHasAppend DEF WriteAllCowOps
  <2>3. LogHas(log', nextOp, Head(pending).dst)
    BY <1>6, <2>0, <2>1, LogHasLast DEF WriteAllCowOps
  <2>4. CallInvariant'
    <3> SUFFICES ASSUME NEW d \in Dsts(OpAt(nextOp)),
                        \E i \in 1..Len(pending) : pending[i].dst = d
                 PROVE  \/ LogHas(log', nextOp, d)
                        \/ \E i \in 1..Len(pending') : pending'[i].dst = d
      BY <1>6, <2>2 DEF WriteAllCowOps, IInv, CallInvariant, OpAt, NumOps
    <3>1. PICK i \in 1..Len(pending) : pending[i].dst = d
      OBVIOUS
    <3>2. CASE i = 1
      BY <3>1, <3>2, <2>3, <2>0
    <3>3. CASE i > 1
      <4>1. /\ i - 1 \in 1..Len(pending')
            /\ pending'[i - 1] = pending[i]
        BY <1>6, <2>0, <3>1, <3>3 DEF WriteAllCowOps
      <4>. QED
        BY <3>1, <4>1
    <3>. QED
      BY <3>2, <3>3
  <2>5. ReadyInvariant' /\ CheckpointSafe'
    BY <1>6, <2>2 DEF WriteAllCowOps, IInv, ReadyInvariant, CheckpointSafe, OpLogged,
                      OpAt, NumOps
  <2>. QED
    BY <1>t, <2>4, <2>5 DEF IInv
<1>7. CASE CompleteOperation
  <2>1. OpLogged(nextOp)
    BY <1>7 DEF CompleteOperation, IInv, CallInvariant, OpLogged
  <2>2. ReadyInvariant'
    BY <1>7, <2>1 DEF CompleteOperation, IInv, ReadyInvariant, OpLogged, OpAt, NumOps,
                      TypeOK
  <2>. QED
    BY <1>t, <1>7, <2>2 DEF CompleteOperation, IInv, CallInvariant, CheckpointSafe,
                            OpLogged, OpAt, NumOps
<1>8. CASE CheckpointUpdateProgress
  BY <1>t, <1>8 DEF CheckpointUpdateProgress, IInv, CallInvariant, ReadyInvariant,
                    CheckpointSafe, OpLogged, OpAt, NumOps
<1>9. CASE FinishedInstallOps
  BY <1>t, <1>9, LeaveKeeps DEF FinishedInstallOps
<1>10. CASE Close
  BY <1>t, <1>10, LeaveKeeps DEF Close
<1>11. CASE Restart
  BY <1>t, <1>11, LeaveKeeps DEF Restart
<1>12. CASE Terminated \/ UNCHANGED vars
  <2>1. UNCHANGED vars
    BY <1>12 DEF Terminated
  <2>. QED
    BY <2>1 DEF vars, IInv, TypeOK, CallInvariant, ReadyInvariant, CheckpointSafe,
                OpLogged, OpAt, NumOps, Dsts, LogHas
<1>13. CASE WriteAllCowOpsFails
  BY <1>t, <1>13, LeaveKeeps DEF WriteAllCowOpsFails
<1>. QED
  BY <1>1, <1>2, <1>3, <1>4, <1>5, <1>6, <1>7, <1>8, <1>9, <1>10, <1>11, <1>12, <1>13
     DEF Next, PerformSourceBsdiffOperation, PerformPuffDiffOperation

(* Every reachable state is well typed. *)
THEOREM TypeCorrect == Spec => []TypeOK
  BY IInvInit, IInvStep, PTL DEF Spec, IInv

(* Resuming from the persisted checkpoint never skips an operation: every
   operation before CheckpointUpdateProgress's index has a COW operation
   for each of its destination blocks in the log, for every payload. *)
THEOREM CheckpointSafety == Spec => []CheckpointSafe
  BY IInvInit, IInvStep, PTL DEF Spec, IInv

-----------------------------------------------------------------------------
(* No COW operation carries data that failed verification.                 *)

BadVals == {Bad(b) : b \in Blocks}

(* A converted operation is clean for descriptor mode: a materialised
   replace reads a block whose content on that descriptor is the original,
   and any other replace carries data that is not corrupt. *)
CleanItem(item, mode) ==
  /\ item.kind = "read" => Content(item.src, mode) = Orig(item.src)
  /\ item.kind = "replace" => item.val \notin BadVals

(* While a call is in progress its remaining converted operations are
   clean for the descriptor the call chose. *)
PendingClean ==
  inOp => /\ phase = "ready" /\ nextOp < NumOps
          /\ \A i \in 1..Len(pending) : CleanItem(pending[i], eccMode)

DInv == TypeOK /\ PendingClean /\ NoCorruptData

(* A read the verified reader accepts returns the original content of
   every block on the descriptor it ends on. *)
LEMMA ReadVerifiedClean ==
  ASSUME NEW S, NEW mode, ReadVerified(S, mode).ok
  PROVE  \A b \in S : Content(b, ReadVerified(S, mode).mode) = Orig(b)
  BY DEF ReadVerified, Content

(* WriteAllCowOps turns a clean work item into a COW operation whose data
   is not corrupt. *)
LEMMA CowOpOfClean ==
  ASSUME NEW item \in WorkItems, NEW mode, CleanItem(item, mode)
  PROVE  CowOpOf(item, mode).val \notin BadVals
  BY DEF CowOpOf, CleanItem, WorkItems, CowCopy, CowReplace, CowZero, BadVals,
         Bad, NoVal, ZeroVal, Orig

(* The conversions produce clean work items: zeroes, replaces of data a
   patch or the payload produced, and copies whose materialised
   sources verified. *)
LEMMA ConvertZeroClean ==
  ASSUME NEW op, NEW mode
  PROVE  \A i \in 1..Len(ConvertZero(op)) : CleanItem(ConvertZero(op)[i], mode)
  BY DEF ConvertZero, WorkItem, CleanItem

LEMMA ConvertReplaceClean ==
  ASSUME NEW op \in InstallOperations, NEW k, NEW mode
  PROVE  \A i \in 1..Len(ConvertReplace(op, k)) :
            CleanItem(ConvertReplace(op, k)[i], mode)
  BY DEF ConvertReplace, WorkItem, CleanItem, BadVals, Bad, NewData, InstallOperations

LEMMA ConvertSourceCopyClean ==
  ASSUME NEW op \in InstallOperations, Len(op.src) = Len(op.dst), NEW mode,
         \A b \in Srcs(op) : Content(b, mode) = Orig(b)
  PROVE  \A i \in 1..Len(ConvertSourceCopy(op)) : CleanItem(ConvertSourceCopy(op)[i], mode)
  BY DEF ConvertSourceCopy, WorkItem, CleanItem, Srcs, InstallOperations

LEMMA DInvInit == Init => DInv
  BY TypeInit DEF Init, DInv, PendingClean, NoCorruptData

(* A call that returns false before writing keeps the invariant. *)
LEMMA FailKeeps ==
  ASSUME DInv, TypeOK', ~inOp, FailCall, UNCHANGED log
  PROVE  DInv'
  BY DEF DInv, FailCall, PendingClean, NoCorruptData

(* A call that starts writing clean items keeps the invariant. *)
LEMMA StartCleanKeeps ==
  ASSUME DInv, TypeOK', NEW items, phase = "ready", nextOp < NumOps,
         StartWriting(items), \A i \in 1..Len(items) : CleanItem(items[i], eccMode'),
         UNCHANGED <<plan, nextOp, log>>
  PROVE  DInv'
  BY DEF DInv, StartWriting, PendingClean, NoCorruptData, NumOps, BadVals

LEMMA DInvStep == DInv /\ [Next]_vars => DInv'
<1> SUFFICES ASSUME DInv, [Next]_vars PROVE DInv'
  OBVIOUS
<1>t. TypeOK'
  BY TypeStep DEF DInv, PendingClean
<1>a. plan \in Seq(InstallOperations)
  BY PlansAssumption DEF DInv, TypeOK
<1>b. nextOp < NumOps => OpAt(nextOp) \in InstallOperations
  BY <1>a, OpAtType DEF DInv, TypeOK, OpAt, NumOps
<1>1. CASE WriterInit
  BY <1>t, <1>1 DEF WriterInit, DInv, PendingClean, NoCorruptData
<1>2. CASE PerformZeroOrDiscardOperation
  <2>1. phase = "ready" /\ nextOp < NumOps /\ UNCHANGED <<plan, nextOp, log, eccMode>>
    BY <1>2 DEF PerformZeroOrDiscardOperation, CanPerform
  <2>. QED
    BY <1>t, <1>2, <2>1, ConvertZeroClean, StartCleanKeeps
       DEF PerformZeroOrDiscardOperation
<1>3. CASE PerformSourceCopyOperation
  <2> DEFINE op == OpAt(nextOp)
             rd == ReadVerified(Srcs(op), eccMode)
  <2>0. /\ phase = "ready" /\ ~inOp /\ nextOp < NumOps /\ op \in InstallOperations
        /\ UNCHANGED <<plan, nextOp, log>> /\ eccMode' = rd.mode
    BY <1>3, <1>b DEF PerformSourceCopyOperation, CanPerform
  <2>1. CASE Len(op.src) = Len(op.dst) /\ rd.ok
    <3>1. \A b \in Srcs(op) : Content(b, eccMode') = Orig(b)
      BY <2>0, <2>1, ReadVerifiedClean
    <3>2. \A i \in 1..Len(ConvertSourceCopy(op)) : CleanItem(ConvertSourceCopy(op)[i], eccMode')
      BY <2>0, <2>1, <3>1, ConvertSourceCopyClean
    <3>3. StartWriting(ConvertSourceCopy(op))
      BY <1>3, <2>1 DEF PerformSourceCopyOperation
    <3>. QED
      BY <1>t, <2>0, <3>2, <3>3, StartCleanKeeps
  <2>2. CASE ~(Len(op.src) = Len(op.dst) /\ rd.ok)
    BY <1>t, <1>3, <2>0, <2>2, FailKeeps DEF PerformSourceCopyOperation
  <2>. QED
    BY <2>1, <2>2
<1>4. CASE PerformReplaceOperation
  <2> DEFINE op == OpAt(nextOp)
  <2>0. /\ phase = "ready" /\ ~inOp /\ nextOp < NumOps /\ op \in InstallOperations
        /\ UNCHANGED <<plan, nextOp, log, eccMode>>
    BY <1>4, <1>b DEF PerformReplaceOperation, CanPerform
  <2>1. CASE op.count = Len(op.dst)
    <3>1. StartWriting(ConvertReplace(op, nextOp))
      BY <1>4, <2>1 DEF PerformReplaceOperation
    <3>. QED
      BY <1>t, <2>0, <3>1, ConvertReplaceClean, StartCleanKeeps
  <2>2. CASE op.count # Len(op.dst)
    BY <1>t, <1>4, <2>0, <2>2, FailKeeps DEF PerformReplaceOperation
  <2>. QED
    BY <2>1, <2>2
<1>5. ASSUME NEW types, PerformDiffOperation(types) PROVE DInv'
  <2> DEFINE op == OpAt(nextOp)
             rd == ReadVerified(Srcs(op), eccMode)
  <2>0. /\ phase = "ready" /\ ~inOp /\ nextOp < NumOps /\ op \in InstallOperations
        /\ UNCHANGED <<plan, nextOp, log>> /\ eccMode' = rd.mode
    BY <1>5, <1>b DEF PerformDiffOperation, CanPerform
  <2>1. CASE rd.ok /\ op.decodes /\ op.outLen = Len(op.dst)
    <3>2. StartWriting(ConvertReplace(op, nextOp))
      BY <1>5, <2>1 DEF PerformDiffOperation
    <3>. QED
      BY <1>t, <2>0, <3>2, ConvertReplaceClean, StartCleanKeeps
  <2>2. CASE ~(rd.ok /\ op.decodes /\ op.outLen = Len(op.dst))
    BY <1>t, <1>5, <2>0, <2>2, FailKeeps DEF PerformDiffOperation
  <2>. QED
    BY <2>1, <2>2
<1>6. CASE WriteAllCowOps
  <2> DEFINE c == CowOpOf(Head(pending), eccMode)
  <2>0. /\ log \in Seq([op: 0..NumOps, entry: CowOperations])
        /\ pending \in Seq(WorkItems) /\ pending # <<>> /\ inOp
        /\ \A i \in 1..Len(pending) : CleanItem(pending[i], eccMode)
    BY <1>6 DEF WriteAllCowOps, DInv, TypeOK, PendingClean
  <2>1. c.val \notin BadVals
    BY <2>0, CowOpOfClean
  <2>2. NoCorruptData'
    BY <1>6, <2>0, <2>1 DEF WriteAllCowOps, DInv, NoCorruptData, BadVals
  <2>3. \A i \in 1..Len(pending') : pending'[i] = pending[i + 1]
    BY <1>6, <2>0 DEF WriteAllCowOps
  <2>4. PendingClean'
    BY <1>6, <2>0, <2>3 DEF WriteAllCowOps, DInv, PendingClean, NumOps
  <2>. QED
    BY <1>t, <2>2, <2>4 DEF DInv
<1>7. CASE CompleteOperation
  BY <1>t, <1>7 DEF CompleteOperation, DInv, PendingClean, NoCorruptData
<1>8. CASE CheckpointUpdateProgress
  BY <1>t, <1>8 DEF CheckpointUpdateProgress, DInv, PendingClean, NoCorruptData, NumOps
<1>9. CASE FinishedInstallOps
  BY <1>t, <1>9 DEF FinishedInstallOps, DInv, PendingClean, NoCorruptData
<1>10. CASE Close
  BY <1>t, <1>10 DEF Close, DInv, PendingClean, NoCorruptData
<1>11. CASE Restart
  BY <1>t, <1>11 DEF Restart, DInv, PendingClean, NoCorruptData
<1>12. CASE Terminated \/ UNCHANGED vars
  <2>1. UNCHANGED vars
    BY <1>12 DEF Terminated
  <2>. QED
    BY <2>1 DEF vars, DInv, TypeOK, PendingClean, NoCorruptData, NumOps, CleanItem,
                BadVals
<1>13. CASE WriteAllCowOpsFails
  BY <1>t, <1>13 DEF WriteAllCowOpsFails, DInv, PendingClean, NoCorruptData
<1>. QED
  BY <1>1, <1>2, <1>3, <1>4, <1>5, <1>6, <1>7, <1>8, <1>9, <1>10, <1>11, <1>12, <1>13
     DEF Next, PerformSourceBsdiffOperation, PerformPuffDiffOperation

(* Whatever blocks are corrupt on the primary descriptor and on the ECC
   replica, and whatever order the fallback happens in, no COW operation
   WriteAllCowOps hands to the snapshot writer carries data that failed
   verification: the materialised replaces of a SOURCE_COPY read the
   descriptor its verification ended on, and a diff is applied only to a
   source that verified. *)
THEOREM VerifiedDataOnly == Spec => []NoCorruptData
  BY DInvInit, DInvStep, PTL DEF Spec, DInv

-----------------------------------------------------------------------------
(* No COW operation is written for a malformed operation.                  *)

(* While a call is in progress its operation passed the length checks. *)
SizedInvariant == inOp => WellSized(OpAt(nextOp))

SInv == IInv /\ SizedInvariant

LEMMA SInvInit == Init => SInv
  BY IInvInit DEF Init, SInv, SizedInvariant

(* A ZERO or DISCARD operation has no length to check. *)
LEMMA ZeroWellSized ==
  ASSUME NEW op, op.type \in {"ZERO", "DISCARD"}
  PROVE  WellSized(op)
  BY DEF WellSized

(* A call that starts writing keeps its operation, and the operation
   passed the call's checks. *)
LEMMA StartSized ==
  ASSUME NEW items, StartWriting(items), UNCHANGED <<plan, nextOp>>,
         WellSized(OpAt(nextOp))
  PROVE  SizedInvariant'
  BY DEF StartWriting, SizedInvariant, OpAt

(* A call that fails leaves no call in progress. *)
LEMMA FailSized ==
  ASSUME ~inOp, FailCall
  PROVE  SizedInvariant'
  BY DEF FailCall, SizedInvariant

LEMMA SInvStep == SInv /\ [Next]_vars => SInv'
<1> SUFFICES ASSUME SInv, [Next]_vars PROVE SInv'
  OBVIOUS
<1>i. IInv'
  BY IInvStep DEF SInv
<1> SUFFICES SizedInvariant'
  BY <1>i DEF SInv
<1>1. CASE PerformZeroOrDiscardOperation
  <2>1. OpAt(nextOp).type \in {"ZERO", "DISCARD"}
    BY <1>1 DEF PerformZeroOrDiscardOperation, CanPerform
  <2>. QED
    BY <1>1, <2>1, ZeroWellSized, StartSized DEF PerformZeroOrDiscardOperation
<1>2. CASE PerformSourceCopyOperation
  <2> DEFINE op == OpAt(nextOp)
             rd == ReadVerified(Srcs(op), eccMode)
  <2>0. ~inOp /\ op.type = "SOURCE_COPY" /\ UNCHANGED <<plan, nextOp>>
    BY <1>2 DEF PerformSourceCopyOperation, CanPerform
  <2>1. CASE Len(op.src) = Len(op.dst) /\ rd.ok
    <3>1. WellSized(op)
      BY <2>0, <2>1 DEF WellSized
    <3>. QED
      BY <1>2, <2>0, <2>1, <3>1, StartSized DEF PerformSourceCopyOperation
  <2>2. CASE ~(Len(op.src) = Len(op.dst) /\ rd.ok)
    BY <1>2, <2>0, <2>2, FailSized DEF PerformSourceCopyOperation
  <2>. QED
    BY <2>1, <2>2
<1>3. CASE PerformReplaceOperation
  <2> DEFINE op == OpAt(nextOp)
  <2>0. ~inOp /\ op.type = "REPLACE" /\ UNCHANGED <<plan, nextOp>>
    BY <1>3 DEF PerformReplaceOperation, CanPerform
  <2>1. CASE op.count = Len(op.dst)
    <3>1. WellSized(op)
      BY <2>0, <2>1 DEF WellSized
    <3>. QED
      BY <1>3, <2>0, <2>1, <3>1, StartSized DEF PerformReplaceOperation
  <2>2. CASE op.count # Len(op.dst)
    BY <1>3, <2>0, <2>2, FailSized DEF PerformReplaceOperation
  <2>. QED
    BY <2>1, <2>2
<1>4. ASSUME NEW types, PerformDiffOperation(types),
             types \in {{"SOURCE_BSDIFF"}, {"PUFFDIFF"}}
      PROVE  SizedInvariant'
  <2> DEFINE op == OpAt(nextOp)
             rd == ReadVerified(Srcs(op), eccMode)
  <2>0. ~inOp /\ op.type \in {"SOURCE_BSDIFF", "PUFFDIFF"} /\ UNCHANGED <<plan, nextOp>>
    BY <1>4 DEF PerformDiffOperation, CanPerform
  <2>1. CASE rd.ok /\ op.decodes /\ op.outLen = Len(op.dst)
    <3>1. WellSized(op)
      BY <2>0, <2>1 DEF WellSized
    <3>. QED
      BY <1>4, <2>0, <2>1, <3>1, StartSized DEF PerformDiffOperation
  <2>2. CASE ~(rd.ok /\ op.decodes /\ op.outLen = Len(op.dst))
    BY <1>4, <2>0, <2>2, FailSized DEF PerformDiffOperation
  <2>. QED
    BY <2>1, <2>2
<1>5. CASE WriteAllCowOps \/ CheckpointUpdateProgress
  BY <1>5 DEF WriteAllCowOps, CheckpointUpdateProgress, SInv, SizedInvariant, OpAt
<1>6. CASE WriterInit \/ CompleteOperation \/ FinishedInstallOps \/ Close \/ Restart
           \/ WriteAllCowOpsFails
  <2>1. ~inOp'
    BY <1>6 DEF WriterInit, CompleteOperation, FinishedInstallOps, Close, Restart,
                WriteAllCowOpsFails, SInv, IInv, CallInvariant
  <2>. QED
    BY <2>1 DEF SizedInvariant
<1>7. CASE Terminated \/ UNCHANGED vars
  BY <1>7 DEF Terminated, vars, SInv, SizedInvariant, OpAt
<1>. QED
  BY <1>1, <1>2, <1>3, <1>4, <1>5, <1>6, <1>7
     DEF Next, PerformSourceBsdiffOperation, PerformPuffDiffOperation

(* Only WriteAllCowOps appends to the log, and it tags the COW operation
   with the operation of the call in progress. *)
LEMMA GrowthStep ==
  ASSUME SInv, [Next]_vars
  PROVE  Len(log') > Len(log) => WellSized(OpAt(log'[Len(log')].op))
<1> SUFFICES ASSUME Len(log') > Len(log) PROVE WellSized(OpAt(log'[Len(log')].op))
  OBVIOUS
<1>1. CASE WriteAllCowOps
  <2>1. log \in Seq([op: 0..NumOps, entry: CowOperations])
    BY DEF SInv, IInv, TypeOK
  <2>2. log'[Len(log')].op = nextOp /\ inOp /\ plan' = plan
    BY <1>1, <2>1 DEF WriteAllCowOps
  <2>. QED
    BY <2>2 DEF SInv, SizedInvariant, OpAt
<1>2. CASE ~WriteAllCowOps
  <2>1. log' = log
    BY <1>2 DEF Next, WriterInit, PerformZeroOrDiscardOperation,
           PerformSourceCopyOperation, PerformReplaceOperation,
           PerformSourceBsdiffOperation, PerformPuffDiffOperation,
           PerformDiffOperation, CompleteOperation, CheckpointUpdateProgress,
           FinishedInstallOps, Close, Restart, Terminated, WriteAllCowOpsFails, vars
  <2>. QED
    BY <2>1
<1>. QED
  BY <1>1, <1>2

(* An InstallOperation whose data length disagrees with its destination
   extents, or a SOURCE_COPY with unequal block counts, never has a COW
   operation handed to the snapshot writer: the Perform*Operation call
   fails (LengthMismatch) before WriteAllCowOps runs. *)
THEOREM NoMalformedWrite == Spec => NoWriteForMalformedOp
<1>1. Spec => []SInv
  BY SInvInit, SInvStep, PTL DEF Spec
<1>2. SInv /\ [Next]_vars => [Len(log') > Len(log) => WellSized(OpAt(log'[Len(log')].op))]_vars
  BY GrowthStep
<1>. QED
  BY <1>1, <1>2, PTL DEF Spec, NoWriteForMalformedOp
=============================================================================
