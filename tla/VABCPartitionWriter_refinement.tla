------------------- MODULE VABCPartitionWriter_refinement -------------------
(***************************************************************************)
(* Proof that the partition writer implements its contract: every          *)
(* behaviour of VABCPartitionWriter, seen through the refinement mapping   *)
(* Contract (the snapshot before the call in progress, the phase, the     *)
(* caller's index and the checkpoint), is a behaviour of                  *)
(* VABCWriterContract, for every payload, corruption pattern and restart  *)
(* bound.                                                                  *)
(***************************************************************************)
EXTENDS VABCPartitionWriter_proofs, WellFoundedInduction

-----------------------------------------------------------------------------
(* Facts about the snapshot view of a log.                                 *)

(* The less-than relation on the naturals, as a set of pairs. *)
NatLess == OpToRel(<, Nat)

(* A non-empty set of positions below N has a greatest element: the least
   distance to N, by the well-foundedness of < on Nat. *)
LEMMA MaxExists ==
  ASSUME NEW N \in Nat, NEW T \in SUBSET (1..N), T # {}
  PROVE  \E j \in T : \A i \in T : i <= j
<1> DEFINE U == {N - t : t \in T}
<1>0. \A t \in T : N - t \in Nat
  OBVIOUS
<1>1. U \subseteq Nat /\ U # {}
  BY <1>0
<1>2. \A y, x \in Nat : y < x => <<y, x>> \in NatLess
  BY DEF NatLess, OpToRel
<1>3. IsWellFoundedOn(NatLess, Nat)
  BY NatLessThanWellFounded DEF NatLess
<1>4. PICK x \in U : \A y \in U : ~(<<y, x>> \in NatLess)
  BY <1>1, <1>3, WFMin, Zenon
<1>5. \A y \in U : ~(y < x)
  BY <1>1, <1>2, <1>4
<1>6. PICK j \in T : x = N - j
  OBVIOUS
<1>7. \A i \in T : N - i \in U
  OBVIOUS
<1>8. \A i \in T : i <= j
  BY <1>5, <1>6, <1>7
<1>. QED
  BY <1>8

(* When a log holds an entry for block b, LastEntry picks its last one. *)
LEMMA LastEntryFacts ==
  ASSUME NEW S, NEW L \in Seq(S), NEW b, \E j \in 1..Len(L) : L[j].entry.dst = b
  PROVE  /\ LastEntry(L, b) \in 1..Len(L)
         /\ L[LastEntry(L, b)].entry.dst = b
         /\ \A i \in (LastEntry(L, b) + 1)..Len(L) : L[i].entry.dst # b
<1> DEFINE T == {j \in 1..Len(L) : L[j].entry.dst = b}
<1>0. Len(L) \in Nat /\ T \in SUBSET (1..Len(L)) /\ T # {}
  OBVIOUS
<1>1. PICK j \in T : \A i \in T : i <= j
  BY <1>0, MaxExists
<1>2. \A i \in (j + 1)..Len(L) : L[i].entry.dst # b
  BY <1>1
<1>. QED
  BY <1>1, <1>2 DEF LastEntry

(* The last entry for block b is the only position holding b with no later
   entry for b. *)
LEMMA LastEntryIs ==
  ASSUME NEW S, NEW L \in Seq(S), NEW b, NEW j \in 1..Len(L), L[j].entry.dst = b,
         \A i \in (j + 1)..Len(L) : L[i].entry.dst # b
  PROVE  LastEntry(L, b) = j
<1>1. /\ LastEntry(L, b) \in 1..Len(L)
      /\ L[LastEntry(L, b)].entry.dst = b
      /\ \A i \in (LastEntry(L, b) + 1)..Len(L) : L[i].entry.dst # b
  BY LastEntryFacts
<1>. QED
  BY <1>1

(* The contract's reading of an operation is the writer's. *)
LEMMA ContractOpValue ==
  ASSUME NEW k, NEW i
  PROVE  Contract!OpValue(k, i) = OpValue(k, i)
  BY DEF Contract!OpValue, OpValue, Contract!OpAt, OpAt, Contract!ZeroVal, ZeroVal,
         Contract!Orig, Orig, Contract!NewData, NewData

(* In an extent list without repeats, a block is at a single position. *)
LEMMA PosIs ==
  ASSUME NEW k, NoDuplicates(OpAt(k).dst), NEW i0 \in DOMAIN OpAt(k).dst
  PROVE  Contract!Pos(k, OpAt(k).dst[i0]) = i0
  BY DEF Contract!Pos, Contract!OpAt, OpAt, NoDuplicates

(* If the last m entries of a log write the first m blocks of operation k,
   the snapshot of the log is the snapshot before them with those m blocks
   of k applied: how a call that wrote part of its operation changes what
   the snapshot exposes. *)
LEMMA ViewSplit ==
  ASSUME NEW S, NEW L \in Seq(S), NEW k,
         OpAt(k).dst \in Seq(Blocks), NoDuplicates(OpAt(k).dst),
         NEW m \in 0..Len(OpAt(k).dst), m <= Len(L),
         \A i \in 1..m : /\ L[Len(L) - m + i].entry.dst = OpAt(k).dst[i]
                         /\ EntryValue(L[Len(L) - m + i].entry) = OpValue(k, i)
  PROVE  ViewOf(L) = Contract!ApplyPrefix(ViewOf(SubSeq(L, 1, Len(L) - m)), k, m)
<1> DEFINE n == Len(L) - m
           P == SubSeq(L, 1, n)
           d == OpAt(k).dst
<1>0. /\ n \in Nat /\ P \in Seq(S) /\ Len(P) = n
      /\ \A j \in 1..n : P[j] = L[j]
  OBVIOUS
<1>a. ViewOf(L) = [b \in Blocks |-> ViewOf(L)[b]]
  BY DEF ViewOf
<1>b. Contract!ApplyPrefix(ViewOf(P), k, m) =
        [b \in Blocks |-> IF b \in Contract!Covered(k, m)
                          THEN Contract!OpValue(k, Contract!Pos(k, b)) ELSE ViewOf(P)[b]]
  BY DEF Contract!ApplyPrefix
<1>1. SUFFICES ASSUME NEW b \in Blocks
               PROVE  ViewOf(L)[b] =
                        IF b \in Contract!Covered(k, m)
                        THEN Contract!OpValue(k, Contract!Pos(k, b)) ELSE ViewOf(P)[b]
  BY <1>a, <1>b
<1>2. CASE b \in Contract!Covered(k, m)
  <2>1. PICK i0 \in 1..m : d[i0] = b
    BY <1>2 DEF Contract!Covered, Contract!OpAt, OpAt
  <2>2. Contract!OpValue(k, Contract!Pos(k, b)) = OpValue(k, i0)
    BY <2>1, PosIs, ContractOpValue
  <2>3. /\ n + i0 \in 1..Len(L) /\ L[n + i0].entry.dst = b
        /\ EntryValue(L[n + i0].entry) = OpValue(k, i0)
    BY <2>1
  <2>4. \A i \in (n + i0 + 1)..Len(L) : L[i].entry.dst # b
    <3> SUFFICES ASSUME NEW i \in (n + i0 + 1)..Len(L) PROVE L[i].entry.dst # b
      OBVIOUS
    <3>1. i - n \in 1..m /\ i - n # i0 /\ L[i].entry.dst = d[i - n]
      BY <2>1
    <3>. QED
      BY <2>1, <3>1 DEF NoDuplicates
  <2>5. LastEntry(L, b) = n + i0
    BY <2>3, <2>4, LastEntryIs
  <2>6. ViewOf(L)[b] = OpValue(k, i0)
    BY <2>3, <2>5 DEF ViewOf
  <2>. QED
    BY <1>2, <2>2, <2>6
<1>3. CASE b \notin Contract!Covered(k, m)
  <2>1. \A j \in (n + 1)..Len(L) : L[j].entry.dst # b
    <3> SUFFICES ASSUME NEW j \in (n + 1)..Len(L), L[j].entry.dst = b PROVE FALSE
      OBVIOUS
    <3>1. j - n \in 1..m /\ L[j].entry.dst = d[j - n]
      OBVIOUS
    <3>. QED
      BY <1>3, <3>1 DEF Contract!Covered, Contract!OpAt, OpAt
  <2>2. CASE \E j \in 1..Len(L) : L[j].entry.dst = b
    <3>0. PICK j0 \in 1..Len(L) : L[j0].entry.dst = b
      BY <2>2
    <3>1. j0 \in 1..Len(P) /\ P[j0].entry.dst = b
      BY <1>0, <2>1, <3>0
    <3>2. /\ LastEntry(P, b) \in 1..Len(P) /\ P[LastEntry(P, b)].entry.dst = b
          /\ \A i \in (LastEntry(P, b) + 1)..Len(P) : P[i].entry.dst # b
      <4>1. \E j \in 1..Len(P) : P[j].entry.dst = b
        BY <3>1
      <4>2. P \in Seq(S)
        BY <1>0
      <4> HIDE DEF P
      <4>. QED
        BY <4>1, <4>2, LastEntryFacts
    <3>3. /\ LastEntry(P, b) \in 1..Len(L) /\ L[LastEntry(P, b)].entry.dst = b
          /\ \A i \in (LastEntry(P, b) + 1)..Len(L) : L[i].entry.dst # b
      <4> DEFINE jl == LastEntry(P, b)
      <4>1. jl \in 1..n /\ L[jl].entry.dst = b
        BY <1>0, <3>2
      <4>2. ASSUME NEW i \in (jl + 1)..Len(L) PROVE L[i].entry.dst # b
        <5>1. CASE i <= n
          BY <1>0, <3>2, <4>1, <5>1
        <5>2. CASE i > n
          BY <2>1, <4>1, <5>2
        <5>. QED
          BY <5>1, <5>2
      <4>. QED
        BY <1>0, <4>1, <4>2
    <3>4. LastEntry(L, b) = LastEntry(P, b)
      BY <3>3, LastEntryIs
    <3>5. ViewOf(L)[b] = EntryValue(L[LastEntry(P, b)].entry)
      BY <2>2, <3>4 DEF ViewOf
    <3>6. ViewOf(P)[b] = EntryValue(P[LastEntry(P, b)].entry)
      BY <3>1 DEF ViewOf
    <3>. QED
      BY <1>0, <1>3, <3>2, <3>5, <3>6
  <2>3. CASE ~\E j \in 1..Len(L) : L[j].entry.dst = b
    <3>1. ~\E j \in 1..Len(P) : P[j].entry.dst = b
      BY <1>0, <2>3
    <3>. QED
      BY <1>3, <2>3, <3>1 DEF ViewOf
  <2>. QED
    BY <2>2, <2>3
<1>. QED
  BY <1>2, <1>3

-----------------------------------------------------------------------------
(* The shape of a call in progress.                                        *)

(* What the snapshot reads for a work item once WriteAllCowOps wrote it. *)
ItemValue(item, mode) == EntryValue(CowOpOf(item, mode))

(* The work items are the rest of operation k after its first w blocks:
   each writes the next destination block with what the operation puts
   there. *)
Shaped(items, k, mode, w) ==
  \A j \in 1..Len(items) : /\ items[j].dst = OpAt(k).dst[w + j]
                           /\ ItemValue(items[j], mode) = OpValue(k, w + j)

(* The last w entries of the log L are the first w blocks of operation k. *)
LogShaped(L, k, w) ==
  \A i \in 1..w : /\ L[Len(L) - w + i].entry.dst = OpAt(k).dst[i]
                  /\ EntryValue(L[Len(L) - w + i].entry) = OpValue(k, i)

(* While a call is in progress, the log ends with the blocks of its
   operation written so far and the pending work items are the others. *)
CallShape ==
  inOp => /\ Len(pending) <= Len(OpAt(nextOp).dst)
          /\ Written <= Len(log)
          /\ LogShaped(log, nextOp, Written)
          /\ Shaped(pending, nextOp, eccMode, Written)

RInv == SInv /\ CallShape

(* Each conversion yields the whole operation, block by block. *)
LEMMA ConvertZeroShaped ==
  ASSUME NEW k, OpAt(k) \in InstallOperations, OpAt(k).type \in {"ZERO", "DISCARD"},
         NEW mode
  PROVE  /\ Len(ConvertZero(OpAt(k))) = Len(OpAt(k).dst)
         /\ Shaped(ConvertZero(OpAt(k)), k, mode, 0)
<1> DEFINE op == OpAt(k)
<1>1. Len(ConvertZero(op)) = Len(op.dst)
  BY DEF ConvertZero, InstallOperations
<1>2. ASSUME NEW j \in 1..Len(op.dst)
      PROVE  /\ ConvertZero(op)[j].dst = op.dst[j]
             /\ ItemValue(ConvertZero(op)[j], mode) = OpValue(k, j)
  <2>1. ConvertZero(op)[j] = WorkItem("zero", op.dst[j], op.dst[j], ZeroVal)
    BY DEF ConvertZero
  <2>2. ItemValue(ConvertZero(op)[j], mode) = ZeroVal
    BY <2>1 DEF WorkItem, ItemValue, CowOpOf, CowZero, EntryValue
  <2>3. OpValue(k, j) = ZeroVal
    BY DEF OpValue
  <2>. QED
    BY <2>1, <2>2, <2>3 DEF WorkItem
<1>. QED
  BY <1>1, <1>2 DEF Shaped

(* A replace or a diff converts to one replace per destination block. *)
LEMMA ConvertReplaceShaped ==
  ASSUME NEW k, OpAt(k) \in InstallOperations,
         OpAt(k).type \notin {"ZERO", "DISCARD", "SOURCE_COPY"}, NEW mode
  PROVE  /\ Len(ConvertReplace(OpAt(k), k)) = Len(OpAt(k).dst)
         /\ Shaped(ConvertReplace(OpAt(k), k), k, mode, 0)
<1> DEFINE op == OpAt(k)
           items == ConvertReplace(op, k)
<1>1. items = [i \in 1..Len(op.dst) |->
                 [kind |-> "replace", src |-> op.dst[i], dst |-> op.dst[i],
                  val |-> NewData(k, i)]]
  BY DEF ConvertReplace, WorkItem
<1> HIDE DEF items
<1>2. Len(items) = Len(op.dst)
  BY <1>1 DEF InstallOperations
<1>3. ASSUME NEW j \in 1..Len(op.dst)
      PROVE  /\ items[j].dst = op.dst[j]
             /\ ItemValue(items[j], mode) = OpValue(k, j)
  <2>1. CowOpOf(items[j], mode) = CowReplace(op.dst[j], NewData(k, j))
    BY <1>1 DEF CowOpOf
  <2>2. ItemValue(items[j], mode) = NewData(k, j)
    BY <2>1 DEF ItemValue, CowReplace, EntryValue
  <2>3. OpValue(k, j) = NewData(k, j)
    BY DEF OpValue
  <2>. QED
    BY <1>1, <2>2, <2>3
<1>4. Shaped(items, k, mode, 0)
  BY <1>2, <1>3 DEF Shaped
<1>. QED
  BY <1>2, <1>4, Zenon DEF items

(* The entries of a SOURCE_COPY the converter leaves as COW_COPY read
   blocks that are clean on the primary descriptor. *)
CopiesClean(op) ==
  \A j \in 1..Len(op.dst) :
    op.src[j] \notin {op.dst[i] : i \in 1..(j - 1)} => op.src[j] \notin PrimaryBad

(* A verified SOURCE_COPY whose copies read clean blocks converts to
   copies, or to replaces of clean source bytes, one per destination
   block. *)
LEMMA ConvertSourceCopyShaped ==
  ASSUME NEW k, OpAt(k) \in InstallOperations, OpAt(k).type = "SOURCE_COPY",
         Len(OpAt(k).src) = Len(OpAt(k).dst), NEW mode,
         \A b \in Srcs(OpAt(k)) : Content(b, mode) = Orig(b),
         CopiesClean(OpAt(k))
  PROVE  /\ Len(ConvertSourceCopy(OpAt(k))) = Len(OpAt(k).dst)
         /\ Shaped(ConvertSourceCopy(OpAt(k)), k, mode, 0)
<1> DEFINE op == OpAt(k)
<1>1. Len(ConvertSourceCopy(op)) = Len(op.dst)
  BY DEF ConvertSourceCopy, InstallOperations
<1>2. ASSUME NEW j \in 1..Len(op.dst)
      PROVE  /\ ConvertSourceCopy(op)[j].dst = op.dst[j]
             /\ ItemValue(ConvertSourceCopy(op)[j], mode) = OpValue(k, j)
  <2>1. /\ op.src[j] \in Srcs(op) /\ op.src[j] \in Blocks
        /\ Content(op.src[j], mode) = Orig(op.src[j])
    BY DEF Srcs, InstallOperations
  <2>2. OpValue(k, j) = Orig(op.src[j])
    BY DEF OpValue
  <2>3. CASE op.src[j] \in {op.dst[i] : i \in 1..(j - 1)}
    <3>1. ConvertSourceCopy(op)[j] = WorkItem("read", op.src[j], op.dst[j], NoVal)
      BY <2>3 DEF ConvertSourceCopy
    <3>. QED
      BY <2>1, <2>2, <3>1 DEF WorkItem, ItemValue, CowOpOf, CowReplace, EntryValue
  <2>4. CASE op.src[j] \notin {op.dst[i] : i \in 1..(j - 1)}
    <3>1. ConvertSourceCopy(op)[j] = WorkItem("copy", op.src[j], op.dst[j], NoVal)
      BY <2>4 DEF ConvertSourceCopy
    <3>2. SourceImage[op.src[j]] = Orig(op.src[j])
      BY <2>1, <2>4 DEF CopiesClean, SourceImage, Content
    <3>. QED
      BY <2>2, <3>1, <3>2 DEF WorkItem, ItemValue, CowOpOf, CowCopy, EntryValue
  <2>. QED
    BY <2>3, <2>4
<1>. QED
  BY <1>1, <1>2 DEF Shaped

(* Under CopiedBlocksClean every SOURCE_COPY of the payload copies only
   clean blocks. *)
LEMMA CopiesCleanAt ==
  ASSUME CopiedBlocksClean, plan \in Plans, NEW k \in 0..(NumOps - 1),
         OpAt(k).type = "SOURCE_COPY", Len(OpAt(k).src) = Len(OpAt(k).dst)
  PROVE  CopiesClean(OpAt(k))
<1>1. plan \in Seq(InstallOperations) /\ k + 1 \in DOMAIN plan
  BY PlansAssumption DEF NumOps
<1>2. OpAt(k).src \in Seq(Blocks) /\ OpAt(k).dst \in Seq(Blocks)
  <2>1. OpAt(k) \in InstallOperations
    BY <1>1, OpAtType DEF OpAt, NumOps
  <2>. QED
    BY <2>1 DEF InstallOperations
<1>3. DOMAIN OpAt(k).src \cap DOMAIN OpAt(k).dst = 1..Len(OpAt(k).dst)
  BY <1>2
<1>. QED
  BY <1>1, <1>3 DEF CopiedBlocksClean, CopiesClean, OpAt

(* A step that keeps the payload keeps what its operations mean. *)
LEMMA PlanKept ==
  ASSUME plan' = plan
  PROVE  /\ \A k : OpAt(k)' = OpAt(k)
         /\ \A k, i : OpValue(k, i)' = OpValue(k, i)
  BY DEF OpAt, OpValue

(* No call is in progress initially. *)
LEMMA RInvInit == Init => RInv
  BY SInvInit DEF Init, RInv, CallShape

(* A call that starts with the whole operation converted keeps the shape:
   nothing is written yet. *)
LEMMA StartShaped ==
  ASSUME TypeOK, NEW items, StartWriting(items), UNCHANGED <<plan, nextOp, log>>,
         Len(items) = Len(OpAt(nextOp).dst), Shaped(items, nextOp, eccMode', 0)
  PROVE  CallShape'
<1>1. inOp' /\ pending' = items /\ OpAt(nextOp)' = OpAt(nextOp)
  BY DEF StartWriting, OpAt
<1>2. Written' = 0
  BY <1>1 DEF Written
<1>3. Len(log') \in Nat
  BY DEF TypeOK
<1>4. /\ \A k : OpAt(k)' = OpAt(k)
      /\ \A k, i : OpValue(k, i)' = OpValue(k, i)
  BY PlanKept
<1>. QED
  BY <1>1, <1>2, <1>3, <1>4 DEF CallShape, LogShaped, Shaped

(* A step that ends with no call in progress keeps the shape. *)
LEMMA IdleShaped ==
  ASSUME ~inOp'
  PROVE  CallShape'
  BY DEF CallShape

(* WriteAllCowOps moves the next work item to the end of the log. *)
LEMMA WriteShaped ==
  ASSUME RInv, WriteAllCowOps
  PROVE  CallShape'
<1> DEFINE op == OpAt(nextOp)
           h == Head(pending)
<1>0. /\ inOp /\ pending # <<>> /\ pending \in Seq(WorkItems) /\ eccMode \in Modes
      /\ op \in InstallOperations /\ nextOp \in Nat /\ op.dst \in Seq(Blocks)
      /\ log \in Seq([op: 0..NumOps, entry: CowOperations])
  <2>1. inOp /\ nextOp < NumOps /\ nextOp \in Nat /\ plan \in Seq(InstallOperations)
    BY PlansAssumption DEF WriteAllCowOps, RInv, SInv, IInv, CallInvariant, TypeOK
  <2>2. op \in InstallOperations
    BY <2>1, OpAtType DEF OpAt, NumOps
  <2>3. op.dst \in Seq(Blocks)
    BY <2>2 DEF InstallOperations
  <2>. QED
    BY <2>1, <2>2, <2>3 DEF WriteAllCowOps, RInv, SInv, IInv, TypeOK, Modes
<1>q. Len(pending) <= Len(op.dst)
  BY <1>0 DEF RInv, CallShape
<1>r. Len(op.dst) - Len(pending) \in Nat
  BY <1>0, <1>q
<1>p. PICK w \in Nat : w = Len(op.dst) - Len(pending)
  BY <1>r
<1>1. /\ Len(pending) <= Len(op.dst) /\ w <= Len(log) /\ Written = w
      /\ LogShaped(log, nextOp, w) /\ Shaped(pending, nextOp, eccMode, w)
  BY <1>0, <1>p DEF RInv, CallShape, Written
<1>2. /\ log' = Append(log, [op |-> nextOp, entry |-> CowOpOf(h, eccMode)])
      /\ pending' = Tail(pending) /\ inOp' /\ OpAt(nextOp)' = op
      /\ eccMode' = eccMode /\ nextOp' = nextOp /\ plan' = plan
  BY <1>0 DEF WriteAllCowOps, OpAt
<1>w. Written' = w + 1
  BY <1>0, <1>p, <1>1, <1>2 DEF Written
<1>3. /\ Len(pending') = Len(pending) - 1
      /\ w \in Nat /\ Len(log') = Len(log) + 1
      /\ Len(log) \in Nat /\ Len(pending) \in Nat /\ Len(op.dst) = w + Len(pending)
  BY <1>0, <1>p, <1>1, <1>2
<1>4. /\ h.dst = op.dst[w + 1]
      /\ ItemValue(h, eccMode) = OpValue(nextOp, w + 1)
      /\ CowOpOf(h, eccMode).dst = h.dst
  <2>1. h \in WorkItems /\ h = pending[1] /\ 1 \in 1..Len(pending)
    BY <1>0
  <2>2. pending[1].dst = op.dst[w + 1] /\ ItemValue(pending[1], eccMode) = OpValue(nextOp, w + 1)
    BY <1>1, <2>1 DEF Shaped
  <2>3. CowOpOf(h, eccMode).dst = h.dst
    BY <1>0, <2>1, CowOpOfType
  <2>. QED
    BY <2>1, <2>2, <2>3
<1>5. LogShaped(log', nextOp, w + 1)
  <2> SUFFICES ASSUME NEW i \in 1..(w + 1)
               PROVE  /\ log'[Len(log') - (w + 1) + i].entry.dst = OpAt(nextOp).dst[i]
                      /\ EntryValue(log'[Len(log') - (w + 1) + i].entry) = OpValue(nextOp, i)
    BY DEF LogShaped
  <2>1. CASE i <= w
    <3>1. Len(log') - (w + 1) + i = Len(log) - w + i
          /\ Len(log) - w + i \in 1..Len(log)
      BY <1>1, <1>3, <2>1
    <3>2. log'[Len(log) - w + i] = log[Len(log) - w + i]
      BY <1>0, <1>2, <3>1
    <3>3. /\ log[Len(log) - w + i].entry.dst = op.dst[i]
          /\ EntryValue(log[Len(log) - w + i].entry) = OpValue(nextOp, i)
      BY <1>1, <2>1 DEF LogShaped
    <3>. QED
      BY <3>1, <3>2, <3>3
  <2>2. CASE i = w + 1
    <3>0. Len(log') - (w + 1) + i = Len(log) + 1
      BY <1>3, <2>2
    <3>1. log'[Len(log') - (w + 1) + i] = [op |-> nextOp, entry |-> CowOpOf(h, eccMode)]
      BY <1>0, <1>2, <3>0
    <3>. QED
      BY <1>4, <2>2, <3>1 DEF ItemValue
  <2>. QED
    BY <1>3, <2>1, <2>2
<1>6. Shaped(pending', nextOp, eccMode, w + 1)
  <2> SUFFICES ASSUME NEW j \in 1..Len(pending')
               PROVE  /\ pending'[j].dst = OpAt(nextOp).dst[w + 1 + j]
                      /\ ItemValue(pending'[j], eccMode) = OpValue(nextOp, w + 1 + j)
    BY <1>2 DEF Shaped
  <2>1. j + 1 \in 1..Len(pending) /\ w + (j + 1) = w + 1 + j
    BY <1>3
  <2>2. pending'[j] = pending[j + 1]
    BY <1>0, <1>2, <2>1
  <2>3. /\ pending[j + 1].dst = op.dst[w + (j + 1)]
        /\ ItemValue(pending[j + 1], eccMode) = OpValue(nextOp, w + (j + 1))
    BY <1>1, <2>1 DEF Shaped
  <2>. QED
    BY <2>1, <2>2, <2>3
<1>. QED
  <2>1. Len(pending') <= Len(OpAt(nextOp)'.dst) /\ w + 1 <= Len(log')
    BY <1>1, <1>2, <1>3
  <2>. QED
    <3>1. \A k : OpAt(k)' = OpAt(k)
      BY <1>2, PlanKept
    <3>2. \A k, i : OpValue(k, i)' = OpValue(k, i)
      BY <1>2, PlanKept
    <3>. QED
      BY <1>w, <1>2, <1>5, <1>6, <2>1, <3>1, <3>2 DEF CallShape, LogShaped, Shaped

(* The shape of the call in progress is inductive with SInv, for payloads
   that copy only blocks clean on the primary descriptor. *)
LEMMA RInvStep ==
  ASSUME CopiedBlocksClean
  PROVE  RInv /\ [Next]_vars => RInv'
<1> SUFFICES ASSUME RInv, [Next]_vars PROVE RInv'
  OBVIOUS
<1>s. SInv'
  BY SInvStep DEF RInv
<1> SUFFICES CallShape'
  BY <1>s DEF RInv
<1>t. TypeOK /\ (inOp => phase = "ready")
  BY DEF RInv, SInv, IInv, CallInvariant
<1>b. nextOp < NumOps => OpAt(nextOp) \in InstallOperations
  <2>1. plan \in Seq(InstallOperations) /\ nextOp \in Nat
    BY <1>t, PlansAssumption DEF TypeOK
  <2>. QED
    BY <2>1, OpAtType DEF OpAt, NumOps
<1>1. CASE PerformZeroOrDiscardOperation
  <2>1. /\ nextOp < NumOps /\ OpAt(nextOp).type \in {"ZERO", "DISCARD"}
        /\ StartWriting(ConvertZero(OpAt(nextOp))) /\ UNCHANGED <<plan, nextOp, log>>
    BY <1>1 DEF PerformZeroOrDiscardOperation, CanPerform
  <2>. QED
    BY <1>t, <1>b, <2>1, ConvertZeroShaped, StartShaped
<1>2. CASE PerformSourceCopyOperation
  <2> DEFINE op == OpAt(nextOp)
             rd == ReadVerified(Srcs(op), eccMode)
  <2>0. /\ nextOp < NumOps /\ op.type = "SOURCE_COPY" /\ ~inOp
        /\ eccMode' = rd.mode /\ UNCHANGED <<plan, nextOp, log>>
    BY <1>2 DEF PerformSourceCopyOperation, CanPerform
  <2>1. CASE Len(op.src) = Len(op.dst) /\ rd.ok
    <3>1. \A b \in Srcs(op) : Content(b, eccMode') = Orig(b)
      BY <2>0, <2>1, ReadVerifiedClean
    <3>2. StartWriting(ConvertSourceCopy(op))
      BY <1>2, <2>1 DEF PerformSourceCopyOperation
    <3>3. CopiesClean(op)
      <4>1. plan \in Plans /\ nextOp \in 0..NumOps /\ NumOps \in Nat
        BY <1>t, PlansAssumption DEF TypeOK, NumOps
      <4>2. nextOp \in 0..(NumOps - 1)
        BY <2>0, <4>1
      <4>. QED
        BY <2>0, <2>1, <4>1, <4>2, CopiesCleanAt
    <3>. QED
      BY <1>t, <1>b, <2>0, <2>1, <3>1, <3>2, <3>3, ConvertSourceCopyShaped, StartShaped
  <2>2. CASE ~(Len(op.src) = Len(op.dst) /\ rd.ok)
    BY <1>2, <2>0, <2>2, IdleShaped DEF PerformSourceCopyOperation, FailCall
  <2>. QED
    BY <2>1, <2>2
<1>3. CASE PerformReplaceOperation
  <2> DEFINE op == OpAt(nextOp)
  <2>0. /\ nextOp < NumOps /\ op.type = "REPLACE" /\ ~inOp
        /\ UNCHANGED <<plan, nextOp, log>>
    BY <1>3 DEF PerformReplaceOperation, CanPerform
  <2>1. CASE op.count = Len(op.dst)
    <3>1. StartWriting(ConvertReplace(op, nextOp))
      BY <1>3, <2>1 DEF PerformReplaceOperation
    <3>. QED
      BY <1>t, <1>b, <2>0, <3>1, ConvertReplaceShaped, StartShaped
  <2>2. CASE op.count # Len(op.dst)
    BY <1>3, <2>0, <2>2, IdleShaped DEF PerformReplaceOperation, FailCall
  <2>. QED
    BY <2>1, <2>2
<1>4. ASSUME NEW types, PerformDiffOperation(types),
             types \in {{"SOURCE_BSDIFF"}, {"PUFFDIFF"}}
      PROVE  CallShape'
  <2> DEFINE op == OpAt(nextOp)
             rd == ReadVerified(Srcs(op), eccMode)
  <2>0. /\ nextOp < NumOps /\ op.type \in {"SOURCE_BSDIFF", "PUFFDIFF"} /\ ~inOp
        /\ UNCHANGED <<plan, nextOp, log>>
    BY <1>4 DEF PerformDiffOperation, CanPerform
  <2>1. CASE rd.ok /\ op.decodes /\ op.outLen = Len(op.dst)
    <3>2. StartWriting(ConvertReplace(op, nextOp))
      BY <1>4, <2>1 DEF PerformDiffOperation
    <3>. QED
      BY <1>t, <1>b, <2>0, <3>2, ConvertReplaceShaped, StartShaped
  <2>2. CASE ~(rd.ok /\ op.decodes /\ op.outLen = Len(op.dst))
    BY <1>4, <2>0, <2>2, IdleShaped DEF PerformDiffOperation, FailCall
  <2>. QED
    BY <2>1, <2>2
<1>5. CASE WriteAllCowOps
  BY <1>5, WriteShaped
<1>6. CASE WriterInit \/ CompleteOperation \/ CheckpointUpdateProgress
           \/ FinishedInstallOps \/ Close \/ Restart \/ Terminated
           \/ WriteAllCowOpsFails
  <2>0. CASE WriteAllCowOpsFails
    BY <2>0, IdleShaped DEF WriteAllCowOpsFails
  <2>1. CASE WriterInit
    BY <2>1, <1>t, IdleShaped DEF WriterInit
  <2>2. CASE CompleteOperation
    BY <2>2, <1>t, IdleShaped DEF CompleteOperation
  <2>3. CASE CheckpointUpdateProgress
    BY <2>3, <1>t, IdleShaped DEF CheckpointUpdateProgress
  <2>4. CASE FinishedInstallOps
    BY <2>4, <1>t, IdleShaped DEF FinishedInstallOps
  <2>5. CASE Close
    BY <2>5, <1>t, IdleShaped DEF Close
  <2>6. CASE Restart
    BY <2>6, <1>t, IdleShaped DEF Restart
  <2>7. CASE Terminated
    <3>1. ~inOp
      BY <2>7, <1>t DEF Terminated
    <3>. QED
      BY <2>7, <3>1, IdleShaped DEF Terminated, vars
  <2>. QED
    BY <1>6, <2>0, <2>1, <2>2, <2>3, <2>4, <2>5, <2>6, <2>7
<1>7. CASE UNCHANGED vars
  <2>1. /\ \A k : OpAt(k)' = OpAt(k)
        /\ \A k, i : OpValue(k, i)' = OpValue(k, i)
    BY <1>7, PlanKept DEF vars
  <2>2. Written' = Written
    BY <1>7, <2>1 DEF vars, Written
  <2>. QED
    BY <1>7, <2>1, <2>2 DEF vars, RInv, CallShape, LogShaped, Shaped
<1>. QED
  BY <1>1, <1>2, <1>3, <1>4, <1>5, <1>6, <1>7
     DEF Next, PerformSourceBsdiffOperation, PerformPuffDiffOperation

-----------------------------------------------------------------------------
(* The refinement mapping.                                                 *)

(* The contract reads the payload as the writer does. *)
LEMMA ContractOps ==
  /\ Contract!NumOps = NumOps
  /\ \A k : Contract!OpAt(k) = OpAt(k)
  /\ \A k : Contract!ApplyOp(CommittedView, k)
              = Contract!ApplyPrefix(CommittedView, k, Len(OpAt(k).dst))
  BY DEF Contract!NumOps, NumOps, Contract!OpAt, OpAt, Contract!ApplyOp

(* Writing no block of an operation changes no block. *)
LEMMA ApplyPrefixZero ==
  ASSUME NEW L, NEW k
  PROVE  Contract!ApplyPrefix(ViewOf(L), k, 0) = ViewOf(L)
  BY DEF Contract!ApplyPrefix, Contract!Covered, ViewOf

(* Between calls the committed snapshot is the whole log's. *)
LEMMA IdleView ==
  ASSUME NEW S, log \in Seq(S), ~inOp
  PROVE  CommittedView = ViewOf(log)
<1>1. Written = 0
  BY DEF Written
<1>2. SubSeq(log, 1, Len(log) - 0) = log
  OBVIOUS
<1>. QED
  BY <1>1, <1>2 DEF CommittedView

(* A step that keeps the log and the blocks written by the call keeps the
   committed snapshot. *)
LEMMA ViewKept ==
  ASSUME log' = log, Written' = Written
  PROVE  CommittedView' = CommittedView
  BY DEF CommittedView

(* A step between calls that keeps the log keeps the committed snapshot. *)
LEMMA IdleKept ==
  ASSUME log' = log, ~inOp, ~inOp'
  PROVE  CommittedView' = CommittedView
<1>1. Written' = Written
  BY DEF Written
<1>. QED
  BY <1>1, ViewKept

(* The writer starts where its contract starts: nothing written. *)
LEMMA RefineInit == Init => Contract!Init
<1> SUFFICES ASSUME Init PROVE Contract!Init
  OBVIOUS
<1>1. log = <<>> /\ ~inOp
  BY DEF Init
<1>2. CommittedView = ViewOf(<<>>)
  BY <1>1, IdleView
<1>3. CommittedView = SourceImage
  BY <1>2 DEF ViewOf, SourceImage
<1>. QED
  BY <1>3 DEF Init, Contract!Init

(* A call that starts writing has written nothing yet: the committed
   snapshot is unchanged. *)
LEMMA StartStutter ==
  ASSUME ~inOp, NEW items, StartWriting(items), UNCHANGED <<plan, nextOp, log>>,
         Len(items) = Len(OpAt(nextOp).dst)
  PROVE  CommittedView' = CommittedView
<1>1. inOp' /\ pending' = items /\ OpAt(nextOp)' = OpAt(nextOp)
  BY DEF StartWriting, OpAt
<1>2. Written' = 0 /\ Written = 0
  BY <1>1 DEF Written
<1>. QED
  BY <1>2, ViewKept

(* Handing one more COW operation of the call to the snapshot writer does
   not change the committed snapshot. *)
LEMMA WriteStutter ==
  ASSUME RInv, WriteAllCowOps
  PROVE  CommittedView' = CommittedView
<1> DEFINE op == OpAt(nextOp)
<1>0. /\ inOp /\ pending # <<>> /\ pending \in Seq(WorkItems)
      /\ op \in InstallOperations /\ op.dst \in Seq(Blocks)
      /\ log \in Seq([op: 0..NumOps, entry: CowOperations])
  <2>1. inOp /\ nextOp < NumOps /\ nextOp \in Nat /\ plan \in Seq(InstallOperations)
    BY PlansAssumption DEF WriteAllCowOps, RInv, SInv, IInv, CallInvariant, TypeOK
  <2>2. op \in InstallOperations
    BY <2>1, OpAtType DEF OpAt, NumOps
  <2>. QED
    BY <2>1, <2>2 DEF WriteAllCowOps, RInv, SInv, IInv, TypeOK, InstallOperations
<1>q. Len(pending) <= Len(op.dst)
  BY <1>0 DEF RInv, CallShape
<1>r. Len(op.dst) - Len(pending) \in Nat
  BY <1>0, <1>q
<1>p. PICK w \in Nat : w = Len(op.dst) - Len(pending)
  BY <1>r
<1>1. w <= Len(log) /\ Written = w
  BY <1>0, <1>p DEF RInv, CallShape, Written
<1>2. /\ log' = Append(log, [op |-> nextOp, entry |-> CowOpOf(Head(pending), eccMode)])
      /\ pending' = Tail(pending) /\ inOp' /\ OpAt(nextOp)' = op
  BY <1>0 DEF WriteAllCowOps, OpAt
<1>w. Written' = w + 1
  BY <1>0, <1>p, <1>2 DEF Written
<1>3. SubSeq(log', 1, Len(log') - (w + 1)) = SubSeq(log, 1, Len(log) - w)
  BY <1>0, <1>1, <1>2
<1>. QED
  BY <1>1, <1>w, <1>3 DEF CommittedView

(* A call that fails before writing leaves no block of its operation
   written: the contract's Fail with an empty prefix. *)
LEMMA FailRefines ==
  ASSUME ~inOp, phase = "ready", nextOp < NumOps, FailCall,
         UNCHANGED <<plan, nextOp, log, checkpoint, restarts>>
  PROVE  Contract!Fail
<1>1. ~inOp' /\ phase' = "failed"
  BY DEF FailCall
<1>2. CommittedView' = CommittedView
  BY <1>1, IdleKept
<1>3. Contract!ApplyPrefix(CommittedView, nextOp, 0) = CommittedView
  BY ApplyPrefixZero DEF CommittedView
<1>4. 0 \in Contract!TornPrefixes
  BY DEF Contract!TornPrefixes
<1>. QED
  BY <1>1, <1>2, <1>3, <1>4, ContractOps DEF Contract!Fail

(* While a call is in progress, the whole log's snapshot is the committed
   one with a prefix of the call's operation written: what a crash or a
   snapshot-writer error exposes. *)
LEMMA TornView ==
  ASSUME RInv, inOp
  PROVE  \E m \in Contract!TornPrefixes :
           ViewOf(log) = Contract!ApplyPrefix(CommittedView, nextOp, m)
<1> DEFINE S == [op: 0..NumOps, entry: CowOperations]
           op == OpAt(nextOp)
<1>1. /\ TypeOK /\ log \in Seq(S) /\ nextOp \in Nat /\ phase = "ready"
      /\ nextOp < NumOps /\ WellSized(op) /\ CallShape
  BY DEF RInv, SInv, IInv, TypeOK, CallInvariant, SizedInvariant
<1>2. op \in InstallOperations /\ op.dst \in Seq(Blocks) /\ NoDuplicates(op.dst)
  <2>1. plan \in Plans /\ plan \in Seq(InstallOperations) /\ nextOp + 1 \in DOMAIN plan
        /\ nextOp \in 0..(Len(plan) - 1)
    BY <1>1, PlansAssumption DEF TypeOK, NumOps
  <2>2. op \in InstallOperations
    BY <2>1, OpAtType DEF OpAt
  <2>3. NoDuplicates(op.dst)
    BY <2>1, ExtentsAssumption DEF OpAt
  <2>. QED
    BY <2>2, <2>3 DEF InstallOperations
<1>3. Len(pending) <= Len(op.dst) /\ pending \in Seq(WorkItems)
  BY <1>1 DEF CallShape, TypeOK
<1>4. PICK w \in Nat : w = Len(op.dst) - Len(pending)
  BY <1>2, <1>3
<1>5. Written = w /\ w \in 0..Len(op.dst)
  BY <1>3, <1>4 DEF Written
<1>6. w <= Len(log) /\ LogShaped(log, nextOp, w)
  BY <1>1, <1>5 DEF CallShape
<1>7. ViewOf(log) = Contract!ApplyPrefix(ViewOf(SubSeq(log, 1, Len(log) - w)), nextOp, w)
  BY <1>1, <1>2, <1>5, <1>6, ViewSplit DEF LogShaped
<1>8. CommittedView = ViewOf(SubSeq(log, 1, Len(log) - w))
  BY <1>5 DEF CommittedView
<1>9. w \in Contract!TornPrefixes
  BY <1>1, <1>2, <1>5, ContractOps DEF Contract!TornPrefixes, Contract!SameLength, WellSized
<1>. QED
  BY <1>7, <1>8, <1>9

(* Every step of the writer is a step of its contract or leaves the
   contract's state alone. *)
LEMMA RefineStep == RInv /\ [Next]_vars => [Contract!Next]_Contract!vars
<1> SUFFICES ASSUME RInv, [Next]_vars PROVE [Contract!Next]_Contract!vars
  OBVIOUS
<1> DEFINE S == [op: 0..NumOps, entry: CowOperations]
<1>t. /\ TypeOK /\ log \in Seq(S) /\ nextOp \in Nat
      /\ inOp => /\ phase = "ready" /\ nextOp < NumOps
                 /\ WellSized(OpAt(nextOp)) /\ CallShape
  BY DEF RInv, SInv, IInv, TypeOK, CallInvariant, SizedInvariant
<1>o. inOp => /\ OpAt(nextOp) \in InstallOperations
              /\ OpAt(nextOp).dst \in Seq(Blocks)
              /\ NoDuplicates(OpAt(nextOp).dst)
  <2> SUFFICES ASSUME inOp PROVE OpAt(nextOp) \in InstallOperations
                                 /\ NoDuplicates(OpAt(nextOp).dst)
    BY DEF InstallOperations
  <2>1. plan \in Plans /\ plan \in Seq(InstallOperations) /\ nextOp + 1 \in DOMAIN plan
    BY <1>t, PlansAssumption DEF TypeOK, NumOps
  <2>. QED
    BY <2>1, ExtentsAssumption DEF OpAt
<1>1. CASE WriterInit
  <2>1. ~inOp /\ ~inOp' /\ log' = log
    BY <1>1, <1>t DEF WriterInit
  <2>2. CommittedView' = CommittedView
    BY <2>1, IdleKept
  <2>3. Contract!Open
    BY <1>1, <2>2 DEF WriterInit, Contract!Open
  <2>. QED
    BY <2>3 DEF Contract!Next
<1>2. CASE CheckpointUpdateProgress
  <2>1. ~inOp /\ ~inOp' /\ log' = log
    BY <1>2 DEF CheckpointUpdateProgress
  <2>2. CommittedView' = CommittedView
    BY <2>1, IdleKept
  <2>3. Contract!Checkpoint
    BY <1>2, <2>2 DEF CheckpointUpdateProgress, Contract!Checkpoint
  <2>. QED
    BY <2>3 DEF Contract!Next
<1>3. CASE FinishedInstallOps
  <2>1. ~inOp /\ ~inOp' /\ log' = log
    BY <1>3 DEF FinishedInstallOps
  <2>2. CommittedView' = CommittedView
    BY <2>1, IdleKept
  <2>3. Contract!FinishedInstallOps
    BY <1>3, <2>2, ContractOps DEF FinishedInstallOps, Contract!FinishedInstallOps
  <2>. QED
    BY <2>3 DEF Contract!Next
<1>4. CASE Close
  <2>1. ~inOp /\ ~inOp' /\ log' = log
    BY <1>4 DEF Close
  <2>2. CommittedView' = CommittedView
    BY <2>1, IdleKept
  <2>3. Contract!Close
    BY <1>4, <2>2 DEF Close, Contract!Close
  <2>. QED
    BY <2>3 DEF Contract!Next
<1>5. CASE UNCHANGED vars
  <2>1. Written' = Written
    BY <1>5 DEF vars, Written, OpAt
  <2>2. CommittedView' = CommittedView
    BY <1>5, <2>1, ViewKept DEF vars
  <2>. QED
    BY <1>5, <2>2 DEF vars, Contract!vars
<1>6. CASE Terminated
  BY <1>5, <1>6 DEF Terminated
<1>b. nextOp < NumOps => OpAt(nextOp) \in InstallOperations
  <2>1. plan \in Seq(InstallOperations)
    BY <1>t, PlansAssumption DEF TypeOK
  <2>. QED
    BY <1>t, <2>1, OpAtType DEF OpAt, NumOps
<1>7. CASE PerformZeroOrDiscardOperation
  <2>1. /\ ~inOp /\ nextOp < NumOps /\ OpAt(nextOp).type \in {"ZERO", "DISCARD"}
        /\ StartWriting(ConvertZero(OpAt(nextOp)))
        /\ UNCHANGED <<plan, phase, nextOp, log, checkpoint, restarts>>
    BY <1>7 DEF PerformZeroOrDiscardOperation, CanPerform, StartWriting
  <2>2. CommittedView' = CommittedView
    BY <1>b, <2>1, ConvertZeroShaped, StartStutter
  <2>. QED
    BY <2>1, <2>2 DEF Contract!vars
<1>8. CASE PerformSourceCopyOperation
  <2> DEFINE op == OpAt(nextOp)
             rd == ReadVerified(Srcs(op), eccMode)
  <2>0. /\ ~inOp /\ phase = "ready" /\ nextOp < NumOps
        /\ UNCHANGED <<plan, nextOp, log, checkpoint, restarts>>
    BY <1>8 DEF PerformSourceCopyOperation, CanPerform
  <2>1. CASE Len(op.src) = Len(op.dst) /\ rd.ok
    <3>1. StartWriting(ConvertSourceCopy(op)) /\ phase' = phase
      BY <1>8, <2>1 DEF PerformSourceCopyOperation, StartWriting
    <3>2. Len(ConvertSourceCopy(op)) = Len(op.dst)
      BY <1>b, <2>0 DEF ConvertSourceCopy, InstallOperations
    <3>3. CommittedView' = CommittedView
      BY <2>0, <3>1, <3>2, StartStutter
    <3>. QED
      BY <2>0, <3>1, <3>3 DEF Contract!vars
  <2>2. CASE ~(Len(op.src) = Len(op.dst) /\ rd.ok)
    <3>1. FailCall
      BY <1>8, <2>2 DEF PerformSourceCopyOperation
    <3>. QED
      BY <2>0, <3>1, FailRefines DEF Contract!Next
  <2>. QED
    BY <2>1, <2>2
<1>9. CASE PerformReplaceOperation
  <2> DEFINE op == OpAt(nextOp)
  <2>0. /\ ~inOp /\ phase = "ready" /\ nextOp < NumOps /\ op.type = "REPLACE"
        /\ UNCHANGED <<plan, nextOp, log, checkpoint, restarts>>
    BY <1>9 DEF PerformReplaceOperation, CanPerform
  <2>1. CASE op.count = Len(op.dst)
    <3>1. StartWriting(ConvertReplace(op, nextOp)) /\ phase' = phase
      BY <1>9, <2>1 DEF PerformReplaceOperation, StartWriting
    <3>3. CommittedView' = CommittedView
      BY <1>b, <2>0, <3>1, ConvertReplaceShaped, StartStutter
    <3>. QED
      BY <2>0, <3>1, <3>3 DEF Contract!vars
  <2>2. CASE op.count # Len(op.dst)
    <3>1. FailCall
      BY <1>9, <2>2 DEF PerformReplaceOperation
    <3>. QED
      BY <2>0, <3>1, FailRefines DEF Contract!Next
  <2>. QED
    BY <2>1, <2>2
<1>10. ASSUME NEW types, PerformDiffOperation(types),
              types \in {{"SOURCE_BSDIFF"}, {"PUFFDIFF"}}
       PROVE  [Contract!Next]_Contract!vars
  <2> DEFINE op == OpAt(nextOp)
             rd == ReadVerified(Srcs(op), eccMode)
  <2>0. /\ ~inOp /\ phase = "ready" /\ nextOp < NumOps
        /\ op.type \in {"SOURCE_BSDIFF", "PUFFDIFF"}
        /\ UNCHANGED <<plan, nextOp, log, checkpoint, restarts>>
    BY <1>10 DEF PerformDiffOperation, CanPerform
  <2>1. CASE rd.ok /\ op.decodes /\ op.outLen = Len(op.dst)
    <3>2. StartWriting(ConvertReplace(op, nextOp)) /\ phase' = phase
      BY <1>10, <2>1 DEF PerformDiffOperation, StartWriting
    <3>3. CommittedView' = CommittedView
      BY <1>b, <2>0, <3>2, ConvertReplaceShaped, StartStutter
    <3>. QED
      BY <2>0, <3>2, <3>3 DEF Contract!vars
  <2>2. CASE ~(rd.ok /\ op.decodes /\ op.outLen = Len(op.dst))
    <3>1. FailCall
      BY <1>10, <2>2 DEF PerformDiffOperation
    <3>. QED
      BY <2>0, <3>1, FailRefines DEF Contract!Next
  <2>. QED
    BY <2>1, <2>2
<1>11. CASE WriteAllCowOps
  <2>1. CommittedView' = CommittedView
    BY <1>11, WriteStutter
  <2>. QED
    BY <1>11, <2>1 DEF WriteAllCowOps, Contract!vars
<1>12. CASE CompleteOperation
  <2> DEFINE op == OpAt(nextOp)
             n == Len(op.dst)
  <2>0. /\ inOp /\ pending = <<>> /\ ~inOp' /\ log' = log /\ nextOp' = nextOp + 1
        /\ UNCHANGED <<plan, phase, checkpoint, restarts>>
    BY <1>12 DEF CompleteOperation
  <2>1. /\ phase = "ready" /\ nextOp < NumOps /\ WellSized(op) /\ CallShape
        /\ op \in InstallOperations /\ op.dst \in Seq(Blocks) /\ NoDuplicates(op.dst)
    BY <1>t, <1>o, <2>0
  <2>2. Written = n
    BY <2>0 DEF Written
  <2>3. n \in Nat /\ n <= Len(log) /\ LogShaped(log, nextOp, n)
    BY <2>0, <2>1, <2>2 DEF CallShape
  <2>4. Written' = 0
    BY <2>0 DEF Written
  <2>5. CommittedView' = ViewOf(log)
    <3>1. SubSeq(log, 1, Len(log) - 0) = log
      BY <1>t
    <3>. QED
      BY <2>0, <2>4, <3>1 DEF CommittedView
  <2>6. CommittedView = ViewOf(SubSeq(log, 1, Len(log) - n))
    BY <2>2 DEF CommittedView
  <2>7. ViewOf(log) = Contract!ApplyPrefix(ViewOf(SubSeq(log, 1, Len(log) - n)), nextOp, n)
    <3>1. \A i \in 1..n : /\ log[Len(log) - n + i].entry.dst = OpAt(nextOp).dst[i]
                          /\ EntryValue(log[Len(log) - n + i].entry) = OpValue(nextOp, i)
      BY <2>3 DEF LogShaped
    <3>2. n \in 0..Len(OpAt(nextOp).dst) /\ n <= Len(log) /\ log \in Seq(S)
      BY <1>t, <2>3
    <3> HIDE DEF S, n
    <3>. QED
      BY <2>1, <3>1, <3>2, ViewSplit
  <2>8. CommittedView' = Contract!ApplyOp(CommittedView, nextOp)
    BY <2>5, <2>6, <2>7, ContractOps
  <2>9. Contract!SameLength(Contract!OpAt(nextOp))
    BY <2>1, ContractOps DEF Contract!SameLength, WellSized
  <2>10. Contract!Apply
    BY <2>0, <2>1, <2>8, <2>9, ContractOps DEF Contract!Apply
  <2>. QED
    BY <2>10 DEF Contract!Next
<1>13. CASE Restart
  <2>0. /\ ~inOp' /\ log' = log /\ phase' = "none" /\ nextOp' = 0
        /\ restarts < MaxRestarts /\ restarts' = restarts + 1
        /\ UNCHANGED <<plan, checkpoint>>
    BY <1>13 DEF Restart
  <2>1. Written' = 0
    BY <2>0 DEF Written
  <2>2. CommittedView' = ViewOf(log)
    <3>1. SubSeq(log, 1, Len(log) - 0) = log
      BY <1>t
    <3>. QED
      BY <2>0, <2>1, <3>1 DEF CommittedView
  <2>3. \E m \in Contract!TornPrefixes :
          CommittedView' = Contract!ApplyPrefix(CommittedView, nextOp, m)
    <3>1. CASE inOp
      BY <2>2, <3>1, TornView
    <3>2. CASE ~inOp
      <4>1. CommittedView = ViewOf(log)
        BY <1>t, <3>2, IdleView
      <4>2. Contract!ApplyPrefix(ViewOf(log), nextOp, 0) = ViewOf(log)
        BY ApplyPrefixZero
      <4>3. 0 \in Contract!TornPrefixes
        BY DEF Contract!TornPrefixes
      <4>. QED
        BY <2>2, <4>1, <4>2, <4>3
    <3>. QED
      BY <3>1, <3>2
  <2>4. Contract!Crash
    BY <2>0, <2>3 DEF Contract!Crash
  <2>. QED
    BY <2>4 DEF Contract!Next
<1>14. CASE WriteAllCowOpsFails
  <2>0. /\ inOp /\ ~inOp' /\ log' = log /\ phase = "ready" /\ phase' = "failed"
        /\ UNCHANGED <<plan, nextOp, checkpoint, restarts>>
    BY <1>14 DEF WriteAllCowOpsFails
  <2>1. CommittedView' = ViewOf(log)
    <3>1. Written' = 0
      BY <2>0 DEF Written
    <3>2. SubSeq(log, 1, Len(log) - 0) = log
      BY <1>t
    <3>. QED
      BY <2>0, <3>1, <3>2 DEF CommittedView
  <2>2. nextOp < NumOps
    BY <1>t, <2>0
  <2>3. \E m \in Contract!TornPrefixes :
          CommittedView' = Contract!ApplyPrefix(CommittedView, nextOp, m)
    BY <2>0, <2>1, TornView
  <2>4. Contract!Fail
    BY <2>0, <2>2, <2>3, ContractOps DEF Contract!Fail
  <2>. QED
    BY <2>4 DEF Contract!Next
<1>. QED
  BY <1>1, <1>2, <1>3, <1>4, <1>5, <1>6, <1>7, <1>8, <1>9, <1>10, <1>11, <1>12, <1>13,
     <1>14 DEF Next, PerformSourceBsdiffOperation, PerformPuffDiffOperation

-----------------------------------------------------------------------------
(* The partition writer implements VABCWriterContract under the mapping     *)
(* Contract, for every corruption pattern and restart bound and every      *)
(* payload whose COW_COPY sources read correctly on the primary           *)
(* descriptor (CopiedBlocksClean): a Perform*Operation call that returns  *)
(* true changes the snapshot by one whole operation, and a call that      *)
(* fails, or a crash in the middle of WriteAllCowOps, leaves a prefix of  *)
(* the operation written.                                                  *)
THEOREM WriterRefinesContract ==
  ASSUME CopiedBlocksClean
  PROVE  Spec => ContractSpec
<1>0. RInv /\ [Next]_vars => RInv'
  BY RInvStep
<1>1. Spec => []RInv
  BY <1>0, RInvInit, PTL DEF Spec
<1>2. Init => Contract!Init
  BY RefineInit
<1>3. RInv /\ [Next]_vars => [Contract!Next]_Contract!vars
  BY RefineStep
<1>. QED
  BY <1>1, <1>2, <1>3, PTL DEF Spec, ContractSpec, Contract!Spec

-----------------------------------------------------------------------------
(* The contract's theorem, read through the refinement mapping.            *)

ContractProofs == INSTANCE VABCWriterContract_proofs
                    WITH Operations <- UNION {{p[k] : k \in DOMAIN p} : p \in Plans},
                         status <- phase, cursor <- nextOp, ckpt <- checkpoint,
                         image <- CommittedView

(* The contract's assumptions hold of the writer's payloads and source. *)
LEMMA ContractAssumptions ==
  /\ MaxRestarts \in Nat
  /\ SourceImage \in [Blocks -> ContractProofs!Values]
  /\ Plans \subseteq Seq(UNION {{p[k] : k \in DOMAIN p} : p \in Plans})
  /\ \A op \in UNION {{p[k] : k \in DOMAIN p} : p \in Plans} :
        op.src \in Seq(Blocks) /\ op.dst \in Seq(Blocks)
<1> DEFINE U == UNION {{p[k] : k \in DOMAIN p} : p \in Plans}
<1>1. ASSUME NEW p \in Plans PROVE p \in Seq(U)
  <2>1. p \in Seq(InstallOperations) /\ \A k \in DOMAIN p : p[k] \in U
    BY PlansAssumption
  <2>. QED
    BY <2>1
<1>2. ASSUME NEW op \in U PROVE op.src \in Seq(Blocks) /\ op.dst \in Seq(Blocks)
  <2>1. PICK p \in Plans : \E k \in DOMAIN p : op = p[k]
    OBVIOUS
  <2>2. op \in InstallOperations
    BY <2>1, PlansAssumption
  <2>. QED
    BY <2>2 DEF InstallOperations
<1>3. SourceImage \in [Blocks -> ContractProofs!Values]
  BY BlocksAssumption DEF SourceImage, Content, Orig, Bad, ContractProofs!Values
<1>. QED
  BY <1>1, <1>2, <1>3, MaxRestartsAssumption

(* The contract as instantiated with its proofs is the contract. *)
LEMMA ContractProofsSame ==
  /\ Init => ContractProofs!Init
  /\ [Contract!Next]_Contract!vars => [ContractProofs!Next]_ContractProofs!vars
  /\ Contract!Target = ContractProofs!Target
<1>1. Init => ContractProofs!Init
  BY RefineInit DEF Contract!Init, ContractProofs!Init
<1>2. Contract!Next => ContractProofs!Next
  BY DEF Contract!Next, ContractProofs!Next, Contract!Open, ContractProofs!Open,
         Contract!Apply, ContractProofs!Apply, Contract!Fail, ContractProofs!Fail,
         Contract!Checkpoint, ContractProofs!Checkpoint,
         Contract!FinishedInstallOps, ContractProofs!FinishedInstallOps,
         Contract!Close, ContractProofs!Close, Contract!Crash, ContractProofs!Crash,
         Contract!Terminated, ContractProofs!Terminated, Contract!vars, ContractProofs!vars,
         Contract!NumOps, ContractProofs!NumOps, Contract!OpAt, ContractProofs!OpAt,
         Contract!SameLength, ContractProofs!SameLength, Contract!ApplyOp, ContractProofs!ApplyOp,
         Contract!ApplyPrefix, ContractProofs!ApplyPrefix, Contract!TornPrefixes,
         ContractProofs!TornPrefixes, Contract!Covered, ContractProofs!Covered, Contract!Pos, ContractProofs!Pos,
         Contract!OpValue, ContractProofs!OpValue, Contract!ZeroVal, ContractProofs!ZeroVal,
         Contract!Orig, ContractProofs!Orig, Contract!NewData, ContractProofs!NewData
<1>3. Contract!Target = ContractProofs!Target
  BY DEF Contract!Target, ContractProofs!Target, Contract!Writers, ContractProofs!Writers,
         Contract!Dsts, ContractProofs!Dsts, Contract!NumOps, ContractProofs!NumOps,
         Contract!OpAt, ContractProofs!OpAt, Contract!Covered, ContractProofs!Covered, Contract!Pos, ContractProofs!Pos,
         Contract!OpValue, ContractProofs!OpValue, Contract!ZeroVal, ContractProofs!ZeroVal,
         Contract!Orig, ContractProofs!Orig, Contract!NewData, ContractProofs!NewData
<1>. QED
  BY <1>1, <1>2, <1>3 DEF Contract!vars, ContractProofs!vars

(* Once FinishedInstallOps has returned, the snapshot exposes exactly the
   partition the payload describes (the contract's closed-form Target), for
   every corruption pattern, restart bound and payload whose COW_COPY
   sources read correctly on the primary descriptor: the writer's
   FinishedViewCorrect, obtained from the refinement and the contract's
   ContractFinishedCorrect. *)
THEOREM WriterFinishedCorrect ==
  ASSUME CopiedBlocksClean
  PROVE  Spec => [](phase = "finished" => SnapshotView = Contract!Target)
<1>0. RInv /\ [Next]_vars => RInv'
  BY RInvStep
<1>1. Spec => []RInv
  BY <1>0, RInvInit, PTL DEF Spec
<1>2. Spec => ContractProofs!Spec
  <2>1. Init => ContractProofs!Init
    BY ContractProofsSame
  <2>2. RInv /\ [Next]_vars => [ContractProofs!Next]_ContractProofs!vars
    BY RefineStep, ContractProofsSame
  <2>. QED
    BY <1>1, <2>1, <2>2, PTL DEF Spec, ContractProofs!Spec
<1>3. ContractProofs!Spec => []ContractProofs!FinishedCorrect
  BY ContractAssumptions, ContractProofs!ContractFinishedCorrect
<1>4. RInv /\ ContractProofs!FinishedCorrect
        => (phase = "finished" => SnapshotView = Contract!Target)
  <2> SUFFICES ASSUME RInv, ContractProofs!FinishedCorrect, phase = "finished"
               PROVE  SnapshotView = Contract!Target
    OBVIOUS
  <2>1. ~inOp /\ log \in Seq([op: 0..NumOps, entry: CowOperations])
    BY DEF RInv, SInv, IInv, CallInvariant, TypeOK
  <2>2. CommittedView = ViewOf(log)
    BY <2>1, IdleView
  <2>. QED
    BY <2>2, ContractProofsSame DEF ContractProofs!FinishedCorrect, SnapshotView
<1>. QED
  BY <1>1, <1>2, <1>3, <1>4, PTL

-----------------------------------------------------------------------------
(* The payload's meaning in closed form.                                   *)

(* The operations before the n-th that write block b, and the last of them. *)
WritersBelow(b, n) == {k \in 0..(n - 1) : b \in Dsts(OpAt(k))}
LastWriter(b, n) ==
  CHOOSE k \in WritersBelow(b, n) : \A j \in WritersBelow(b, n) : j <= k

(* The partition after the first n operations: each block holds what the
   last of them writing it puts there, or its original content. *)
PrefixTarget(n) ==
  [b \in Blocks |->
     IF WritersBelow(b, n) = {} THEN SourceImage[b]
     ELSE OpValue(LastWriter(b, n),
                  CHOOSE i \in DOMAIN OpAt(LastWriter(b, n)).dst :
                    OpAt(LastWriter(b, n)).dst[i] = b)]

(* The equation that defines the writer's Target, and the function TLAPS
   reads that recursive definition as. *)
IsTargetFcn(t) ==
  t = [n \in 0..NumOps |-> IF n = 0 THEN SourceImage ELSE ApplyOp(t[n - 1], n - 1)]
TargetFcn == CHOOSE t : IsTargetFcn(t)

(* Target is the last value of that function. *)
LEMMA TargetIs == Target = TargetFcn[NumOps]
  BY DEF Target, TargetFcn, IsTargetFcn

(* A non-empty set of naturals has a least element. *)
LEMMA MinExists ==
  ASSUME NEW T \in SUBSET Nat, T # {}
  PROVE  \E j \in T : \A i \in T : j <= i
<1>1. \A y, x \in Nat : y < x => <<y, x>> \in NatLess
  BY DEF NatLess, OpToRel
<1>2. IsWellFoundedOn(NatLess, Nat)
  BY NatLessThanWellFounded DEF NatLess
<1>3. PICK x \in T : \A y \in T : ~(<<y, x>> \in NatLess)
  BY <1>2, WFMin, Zenon
<1>4. x \in Nat /\ \A y \in T : y \in Nat /\ ~(y < x)
  BY <1>1, <1>3
<1>5. \A y \in T : x <= y
  BY <1>4
<1>. QED
  BY <1>5

(* No operation before the first: the original partition. *)
LEMMA PrefixTargetZero == PrefixTarget(0) = SourceImage
  BY DEF PrefixTarget, WritersBelow, SourceImage

(* One more operation applied over the first n - 1 gives the first n. *)
LEMMA PrefixTargetStep ==
  ASSUME plan \in Seq(InstallOperations), NEW n \in 1..NumOps
  PROVE  PrefixTarget(n) = ApplyOp(PrefixTarget(n - 1), n - 1)
<1> DEFINE op == OpAt(n - 1)
<1>0. op \in InstallOperations /\ op.dst \in Seq(Blocks)
  <2>1. n - 1 \in 0..(Len(plan) - 1)
    BY DEF NumOps
  <2>2. plan[(n - 1) + 1] \in InstallOperations
    BY <2>1, OpAtType
  <2>. QED
    BY <2>2 DEF OpAt, InstallOperations
<1> SUFFICES ASSUME NEW b \in Blocks
             PROVE  PrefixTarget(n)[b] = ApplyOp(PrefixTarget(n - 1), n - 1)[b]
  BY DEF PrefixTarget, ApplyOp
<1>1. CASE b \in Dsts(op)
  <2>1. n - 1 \in WritersBelow(b, n) /\ \A j \in WritersBelow(b, n) : j <= n - 1
    BY <1>1 DEF WritersBelow
  <2>2. LastWriter(b, n) = n - 1
    BY <2>1 DEF LastWriter
  <2>3. PrefixTarget(n)[b] = OpValue(n - 1, CHOOSE i \in DOMAIN op.dst : op.dst[i] = b)
    BY <2>1, <2>2 DEF PrefixTarget
  <2>4. ApplyOp(PrefixTarget(n - 1), n - 1)[b]
          = OpValue(n - 1, CHOOSE i \in DOMAIN op.dst : op.dst[i] = b)
    BY <1>1 DEF ApplyOp
  <2>. QED
    BY <2>3, <2>4
<1>2. CASE b \notin Dsts(op)
  <2>1. WritersBelow(b, n) = WritersBelow(b, n - 1)
    BY <1>2 DEF WritersBelow
  <2>2. LastWriter(b, n) = LastWriter(b, n - 1)
    BY <2>1 DEF LastWriter
  <2>3. PrefixTarget(n)[b] = PrefixTarget(n - 1)[b]
    BY <2>1, <2>2 DEF PrefixTarget
  <2>4. ApplyOp(PrefixTarget(n - 1), n - 1)[b] = PrefixTarget(n - 1)[b]
    BY <1>2 DEF ApplyOp
  <2>. QED
    BY <2>3, <2>4
<1>. QED
  BY <1>1, <1>2

(* The prefix targets satisfy Target's defining equation, so the function
   TLAPS reads it as does too. *)
LEMMA TargetFcnDefined ==
  ASSUME plan \in Seq(InstallOperations)
  PROVE  IsTargetFcn(TargetFcn)
<1> DEFINE F == [n \in 0..NumOps |-> PrefixTarget(n)]
<1>1. ASSUME NEW n \in 0..NumOps
      PROVE  F[n] = IF n = 0 THEN SourceImage ELSE ApplyOp(F[n - 1], n - 1)
  <2>1. CASE n = 0
    BY <2>1, PrefixTargetZero
  <2>2. CASE n # 0
    <3>1. n \in 1..NumOps /\ n - 1 \in 0..NumOps
      BY <2>2 DEF NumOps
    <3>. QED
      BY <2>2, <3>1, PrefixTargetStep
  <2>. QED
    BY <2>1, <2>2
<1>2. IsTargetFcn(F)
  BY <1>1 DEF IsTargetFcn
<1>. QED
  BY <1>2 DEF TargetFcn

(* Target's equation has a single solution, the prefix targets: a least n
   where they differ would differ from an n - 1 where they agree. *)
LEMMA TargetClosed ==
  ASSUME plan \in Seq(InstallOperations)
  PROVE  Target = PrefixTarget(NumOps)
<1> DEFINE t == TargetFcn
           D == {n \in 0..NumOps : t[n] # PrefixTarget(n)}
<1>1. t = [n \in 0..NumOps |-> IF n = 0 THEN SourceImage ELSE ApplyOp(t[n - 1], n - 1)]
  BY TargetFcnDefined DEF IsTargetFcn
<1>2. D = {}
  <2> SUFFICES ASSUME D # {} PROVE FALSE
    OBVIOUS
  <2>0. D \in SUBSET Nat
    BY DEF NumOps
  <2>1. PICK n0 \in D : \A i \in D : n0 <= i
    <3> HIDE DEF D
    <3>. QED
      BY <2>0, MinExists
  <2>2. n0 # 0
    BY <1>1, PrefixTargetZero
  <2>3. n0 \in 1..NumOps /\ n0 - 1 \in 0..NumOps /\ n0 - 1 \notin D
    BY <2>1, <2>2 DEF NumOps
  <2>4. t[n0] = ApplyOp(t[n0 - 1], n0 - 1)
    BY <1>1, <2>2, <2>3
  <2>5. t[n0 - 1] = PrefixTarget(n0 - 1)
    BY <2>3
  <2>6. t[n0] = PrefixTarget(n0)
    BY <2>3, <2>4, <2>5, PrefixTargetStep
  <2>. QED
    BY <2>1, <2>6
<1>3. NumOps \in 0..NumOps
  BY DEF NumOps
<1>. QED
  BY <1>2, <1>3, TargetIs

(* The closed form is the contract's Target. *)
LEMMA PrefixTargetContract == PrefixTarget(NumOps) = Contract!Target
<1>1. \A b : WritersBelow(b, NumOps) = Contract!Writers(b, 0)
  BY DEF WritersBelow, Contract!Writers, Contract!Dsts, Dsts, Contract!NumOps, NumOps,
         Contract!OpAt, OpAt
<1>2. \A k, i : Contract!OpValue(k, i) = OpValue(k, i)
  BY ContractOpValue
<1>3. \A k, b : Contract!Pos(k, b) = CHOOSE i \in DOMAIN OpAt(k).dst : OpAt(k).dst[i] = b
  BY DEF Contract!Pos, Contract!OpAt, OpAt
<1>4. ASSUME NEW b \in Blocks
      PROVE  PrefixTarget(NumOps)[b] = Contract!Target[b]
  <2> DEFINE W == WritersBelow(b, NumOps)
             kw == LastWriter(b, NumOps)
             kc == CHOOSE k \in Contract!Writers(b, 0) :
                     \A j \in Contract!Writers(b, 0) : j <= k
  <2>1. Contract!Target[b] =
          IF Contract!Writers(b, 0) = {} THEN SourceImage[b]
          ELSE Contract!OpValue(kc, Contract!Pos(kc, b))
    BY DEF Contract!Target, Contract!Orig, Orig
  <2>2. PrefixTarget(NumOps)[b] =
          IF W = {} THEN SourceImage[b]
          ELSE OpValue(kw, CHOOSE i \in DOMAIN OpAt(kw).dst : OpAt(kw).dst[i] = b)
    BY DEF PrefixTarget
  <2>3. CASE W = {}
    BY <1>1, <2>1, <2>2, <2>3
  <2>4. CASE W # {}
    <3>1. \E k \in W : \A j \in W : j <= k
      <4> DEFINE U == {k + 1 : k \in W}
      <4>1. NumOps \in Nat /\ U \in SUBSET (1..NumOps) /\ U # {}
        BY <2>4 DEF WritersBelow, NumOps
      <4>2. PICK u \in U : \A v \in U : v <= u
        <5> HIDE DEF U
        <5>. QED
          BY <4>1, MaxExists
      <4>3. PICK k0 \in W : u = k0 + 1
        BY <4>2
      <4>4. \A j \in W : j + 1 \in U /\ j \in Nat
        BY DEF WritersBelow
      <4>5. \A j \in W : j <= k0
        BY <4>2, <4>3, <4>4, <4>1
      <4>. QED
        BY <4>3, <4>5
    <3>2. kw \in W /\ \A j \in W : j <= kw
      BY <3>1 DEF LastWriter
    <3>3. kc \in W /\ \A j \in W : j <= kc
      BY <1>1, <3>1
    <3>4. W \subseteq Nat
      BY DEF WritersBelow
    <3>5. kc = kw
      BY <3>2, <3>3, <3>4
    <3>. QED
      BY <1>1, <1>2, <1>3, <2>1, <2>2, <2>4, <3>5
  <2>. QED
    BY <2>3, <2>4
<1>. QED
  BY <1>4 DEF PrefixTarget, Contract!Target

(* Once FinishedInstallOps has been called, the snapshot exposes exactly the
   partition the payload describes (the writer's recursive Target), for
   every corruption pattern and restart bound and every payload whose
   COW_COPY sources read correctly on the primary descriptor: the invariant
   writer_core checks, across crashes, failed calls, resumptions that
   re-emit operations and the ECC fallback. Run copy_corrupt shows that
   the hypothesis is needed. *)
THEOREM FinishedViewCorrectness ==
  ASSUME CopiedBlocksClean
  PROVE  Spec => []FinishedViewCorrect
<1>1. Spec => []TypeOK
  BY TypeCorrect
<1>2. Spec => [](phase = "finished" => SnapshotView = Contract!Target)
  BY WriterFinishedCorrect
<1>3. TypeOK /\ (phase = "finished" => SnapshotView = Contract!Target)
        => FinishedViewCorrect
  <2> SUFFICES ASSUME TypeOK, phase = "finished" => SnapshotView = Contract!Target
               PROVE  FinishedViewCorrect
    OBVIOUS
  <2>1. plan \in Seq(InstallOperations)
    BY PlansAssumption DEF TypeOK
  <2>2. Target = Contract!Target
    BY <2>1, TargetClosed, PrefixTargetContract
  <2>. QED
    BY <2>2 DEF FinishedViewCorrect
<1>. QED
  BY <1>1, <1>2, <1>3, PTL
=============================================================================
