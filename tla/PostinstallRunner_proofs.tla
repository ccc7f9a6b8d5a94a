------------------------ MODULE PostinstallRunner_proofs ------------------------
(***************************************************************************)
(* Proofs about the postinstall harness for every set of tests: the type   *)
(* invariant, with the strengthening that keeps every index into           *)
(* partition_weight_ in range.                                             *)
(***************************************************************************)
EXTENDS PostinstallRunner, WellFoundedInduction, TLAPS

\* The strengthening of TypeOK: which run the fields belong to in each state
\* of the action, and that the one posted StartProcessing is the current
\* run's and is pending exactly while the action is queued.
TypeInv ==
  /\ TypeOK
  /\ run = 0 => ~loopOn /\ weights = test.weights /\ cur = test.cur
  /\ act \in {"queued", "partition", "running"} =>
       loopOn /\ run >= 1 /\ Len(weights) = Len(Plan.parts)
  /\ act = "queued" => cur = 0
  /\ act \in {"partition", "running"} => cur < Len(weights)
  /\ \A t \in tasks : t.kind = "start" => act = "queued" /\ t.run = run

-----------------------------------------------------------------------------
(* total_weight_ is a natural number.                                      *)

(* The less-than relation on the naturals, as a set of pairs. *)
NatLess == OpToRel(<, Nat)

(* A non-empty set of naturals has a least element. *)
LEMMA MinExists ==
  ASSUME NEW T \in SUBSET Nat, T # {}
  PROVE  \E j \in T : \A i \in T : j <= i
<1>1. \A y, x \in Nat : y < x => <<y, x>> \in NatLess
  BY DEF NatLess, OpToRel
<1>2. IsWellFoundedOn(NatLess, Nat)
  BY NatLessThanWellFounded DEF NatLess
<1>3. PICK x \in T : \A y \in T : ~(<<y, x>> \in NatLess)
  BY <1>2, WFMin, Zenon
<1>4. x \in Nat /\ \A y \in T : y \in Nat /\ ~(y < x)
  BY <1>1, <1>3
<1>. QED
  BY <1>4

(* The partial sums of a sequence of naturals, up to every position, exist:
   the recursive function SumSeq is defined by has a solution. *)
LEMMA PartialSumsExist ==
  ASSUME NEW s \in Seq(Nat)
  PROVE  \E g : g = [i \in 0..Len(s) |-> IF i = 0 THEN 0 ELSE g[i - 1] + s[i]]
<1>. DEFINE IsSum(g, m) == /\ g \in [0..m -> Nat] /\ g[0] = 0
                          /\ \A i \in 1..m : g[i] = g[i - 1] + s[i]
            Bad == {m \in 0..Len(s) : ~\E g : IsSum(g, m)}
<1>1. Bad = {}
  <2>. SUFFICES ASSUME Bad # {} PROVE FALSE
    OBVIOUS
  <2>1. Bad \in SUBSET Nat
    OBVIOUS
  <2>. HIDE DEF Bad
  <2>2. PICK m \in Bad : \A j \in Bad : m <= j
    BY <2>1, MinExists
  <2>3. m \in 0..Len(s) /\ ~\E g : IsSum(g, m)
    BY <2>2 DEF Bad
  <2>4. CASE m = 0
    <3>. DEFINE g0 == [i \in 0..0 |-> 0]
    <3>1. IsSum(g0, 0)
      OBVIOUS
    <3>. QED
      BY <3>1, <2>3, <2>4
  <2>5. CASE m # 0
    <3>1. m - 1 \in 0..Len(s) /\ m - 1 \notin Bad
      BY <2>2, <2>3, <2>5
    <3>2. PICK h : IsSum(h, m - 1)
      BY <3>1 DEF Bad
    <3>. DEFINE g1 == [i \in 0..m |-> IF i < m THEN h[i] ELSE h[m - 1] + s[m]]
    <3>3. IsSum(g1, m)
      BY <3>2, <2>3, <2>5
    <3>. QED
      BY <3>3, <2>3
  <2>. QED
    BY <2>4, <2>5
<1>2. PICK g : IsSum(g, Len(s))
  <2>1. Len(s) \in 0..Len(s)
    OBVIOUS
  <2>. HIDE DEF Bad
  <2>2. Len(s) \notin Bad
    BY <1>1
  <2>. QED
    BY <2>1, <2>2, Zenon DEF Bad
<1>3. g = [i \in 0..Len(s) |-> IF i = 0 THEN 0 ELSE g[i - 1] + s[i]]
  BY <1>2
<1>. QED
  BY <1>3

(* The sum of a sequence of naturals is a natural. *)
LEMMA SumSeqNat ==
  ASSUME NEW s \in Seq(Nat)
  PROVE  SumSeq(s) \in Nat
<1>. DEFINE Eq(f) == f = [i \in 0..Len(s) |-> IF i = 0 THEN 0 ELSE f[i - 1] + s[i]]
            F == CHOOSE f : Eq(f)
<1>1. SumSeq(s) = F[Len(s)]
  BY DEF SumSeq
<1>2. Eq(F)
  BY PartialSumsExist
<1>. HIDE DEF F
<1>4. \A i \in 0..Len(s) : F[i] = IF i = 0 THEN 0 ELSE F[i - 1] + s[i]
  BY <1>2
<1>. DEFINE Bad == {i \in 0..Len(s) : F[i] \notin Nat}
<1>3. Bad = {}
  <2>. SUFFICES ASSUME Bad # {} PROVE FALSE
    OBVIOUS
  <2>1. Bad \in SUBSET Nat
    OBVIOUS
  <2>. HIDE DEF Bad
  <2>2. PICK m \in Bad : \A j \in Bad : m <= j
    BY <2>1, MinExists
  <2>3. m \in 0..Len(s) /\ F[m] \notin Nat
    BY <2>2 DEF Bad
  <2>4. m # 0 => m - 1 \in 0..Len(s) /\ F[m - 1] \in Nat
    BY <2>2, <2>3 DEF Bad
  <2>5. m # 0 /\ s[m] \in Nat
    BY <1>4, <2>3
  <2>. QED
    BY <1>4, <2>3, <2>4, <2>5
<1>. QED
  BY <1>1, <1>3


-----------------------------------------------------------------------------
(* TypeOK, through TypeInv.                                                *)

(* The length of a sequence is a natural. *)
LEMMA LenInNat ==
  ASSUME NEW S, NEW q \in Seq(S)
  PROVE  Len(q) \in Nat
OBVIOUS

(* The constants of the running test have their types. *)
LEMMA TestFacts ==
  ASSUME NEW t \in Tests
  PROVE  /\ t.runs \in Seq(InstallPlans) /\ t.helper \in {"none", "suspend", "cancel"}
         /\ t.weights \in Seq(Nat \ {0}) /\ t.cur \in 0..Len(t.weights) /\ t.acc \in Nat
         /\ t.runs = <<>> => t.cur < Len(t.weights)
BY TestsAssumption, FieldsAssumption

(* The test fixture starts in a state of TypeInv. *)
LEMMA TypeInit == Init => TypeInv
<1>. SUFFICES ASSUME Init PROVE TypeInv
  OBVIOUS
<1>1. test \in Tests
  BY DEF Init
<1>0. /\ test.runs \in Seq(InstallPlans) /\ test.helper \in {"none", "suspend", "cancel"}
      /\ test.weights \in Seq(Nat \ {0}) /\ test.cur \in 0..Len(test.weights)
      /\ test.acc \in Nat
  BY <1>1, TestFacts, Zenon
<1>2. HelperTasks(test.helper) \subseteq [kind: TaskKinds, run: 0..Len(test.runs)]
  BY <1>0 DEF HelperTasks, Task, TaskKinds
<1>3. TypeOK
  <2>0. Len(test.runs) \in Nat
    BY <1>0, LenInNat
  <2>1. run \in 0..Len(test.runs)
    BY <2>0 DEF Init
  <2>5. loopOn \in BOOLEAN /\ {codeSet, doneCalled, stoppedCalled, powerwash} \subseteq BOOLEAN
    BY Zenon DEF Init
  <2>2. tasks \subseteq [kind: TaskKinds, run: 0..Len(test.runs)]
    BY <1>2 DEF Init
  <2>3. /\ act \in {"none", "queued", "partition", "running", "finished"}
        /\ child \in {"none", "started", "ready", "suspended", "resumed"}
        /\ codeVal \in Codes
        /\ progress \in Nat \X Nat
    BY DEF Init, Codes, NoProgress
  <2>4. weights \in Seq(Nat \ {0}) /\ cur \in 0..Len(weights) /\ acc \in Nat
    BY <1>0 DEF Init
  <2>. QED
    BY <1>1, <2>1, <2>2, <2>3, <2>4, <2>5 DEF TypeOK
<1>4. \A t \in tasks : t.kind # "start"
  BY <1>0 DEF Init, HelperTasks, Task
<1>. QED
  BY <1>3, <1>4 DEF Init, TypeInv

(* While a partition is being run, the plan and the partition have their
   types and the partition index is inside the plan. *)
LEMMA PartFacts ==
  ASSUME TypeInv, act \in {"queued", "partition", "running"}
  PROVE  /\ run \in 1..Len(test.runs) /\ Plan \in InstallPlans
         /\ Plan.parts \in Seq(PartEntries) /\ Len(weights) = Len(Plan.parts)
         /\ act # "queued" => cur + 1 \in 1..Len(Plan.parts) /\ Part \in PartEntries
<1>0. test.runs \in Seq(InstallPlans)
  BY TestFacts, Zenon DEF TypeInv, TypeOK
<1>1. run \in 1..Len(test.runs) /\ test.runs \in Seq(InstallPlans)
  BY <1>0 DEF TypeInv, TypeOK
<1>2. Plan \in InstallPlans
  BY <1>1 DEF Plan
<1>3. Plan.parts \in Seq(PartEntries)
  BY <1>2 DEF InstallPlans
<1>4. Len(weights) = Len(Plan.parts)
  BY DEF TypeInv
<1>5. act # "queued" => cur + 1 \in 1..Len(Plan.parts)
  BY <1>4 DEF TypeInv, TypeOK
<1>. QED
  BY <1>1, <1>2, <1>3, <1>4, <1>5 DEF Part

(* The types every step keeps without looking at the state. *)
LEMMA WeightsNat ==
  ASSUME TypeInv
  PROVE  /\ weights \in Seq(Nat) /\ Total \in Nat
         /\ \A i \in 1..Len(weights) : weights[i] \in Nat \ {0}
<1>1. weights \in Seq(Nat)
  BY DEF TypeInv, TypeOK
<1>. QED
  BY <1>1, SumSeqNat DEF Total, TypeInv, TypeOK


(* Finish: the action completes with a code and the loop breaks; when no
   StartProcessing is left, TypeInv holds after it. *)
LEMMA FinishType ==
  ASSUME TypeInv, act \in {"queued", "partition", "running"}, NEW c \in Codes, Finish(c),
         UNCHANGED <<test, run, weights, cur, acc, stoppedCalled>>,
         progress' \in Nat \X Nat, tasks' \subseteq tasks,
         \A u \in tasks' : u.kind # "start"
  PROVE  TypeInv'
<1>1. Plan \in InstallPlans
  BY PartFacts
<1>2. Plan.powerwash \in BOOLEAN
  BY <1>1 DEF InstallPlans
<1>3. loopOn' \in BOOLEAN /\ {codeSet, doneCalled, stoppedCalled, powerwash}' \subseteq BOOLEAN
  BY <1>2, Zenon DEF Finish, TypeInv, TypeOK
<1>4. /\ test' \in Tests /\ run' \in 0..Len(test'.runs)
      /\ tasks' \subseteq [kind: TaskKinds, run: 0..Len(test'.runs)]
      /\ act' \in {"none", "queued", "partition", "running", "finished"}
      /\ child' \in {"none", "started", "ready", "suspended", "resumed"}
      /\ weights' \in Seq(Nat \ {0}) /\ cur' \in 0..Len(weights') /\ acc' \in Nat
      /\ codeVal' \in Codes
  BY DEF Finish, TypeInv, TypeOK
<1>5. TypeOK'
  BY <1>3, <1>4 DEF TypeOK
<1>6. run' # 0 /\ act' = "finished"
  BY PartFacts DEF Finish
<1>. QED
  BY <1>5, <1>6 DEF TypeInv

(* CompletePartition: the next partition, or completion after the last. *)
LEMMA CompleteType ==
  ASSUME TypeInv, act \in {"partition", "running"}, CompletePartition,
         UNCHANGED <<test, run, tasks, weights, stoppedCalled>>
  PROVE  TypeInv'
<1>1. /\ cur + 1 \in 1..Len(weights) /\ weights[cur + 1] \in Nat
      /\ Total \in Nat /\ Len(weights) = Len(Plan.parts)
  BY PartFacts, WeightsNat DEF TypeInv, TypeOK
<1>2. \A u \in tasks : u.kind # "start"
  BY DEF TypeInv
<1>3. CASE cur + 1 < Len(Plan.parts)
  <2>1. loopOn' \in BOOLEAN /\ {codeSet, doneCalled, stoppedCalled, powerwash}' \subseteq BOOLEAN
    BY <1>3, Zenon DEF CompletePartition, TypeInv, TypeOK
  <2>2. /\ test' \in Tests /\ run' \in 0..Len(test'.runs)
        /\ tasks' \subseteq [kind: TaskKinds, run: 0..Len(test'.runs)]
        /\ act' \in {"none", "queued", "partition", "running", "finished"}
        /\ child' \in {"none", "started", "ready", "suspended", "resumed"}
        /\ weights' \in Seq(Nat \ {0}) /\ cur' \in 0..Len(weights') /\ acc' \in Nat
        /\ codeVal' \in Codes /\ progress' \in Nat \X Nat
    BY <1>1, <1>3 DEF CompletePartition, TypeInv, TypeOK
  <2>3. loopOn' /\ run' = run /\ run # 0 /\ act' = "partition" /\ Plan' = Plan
    BY <1>3, PartFacts DEF CompletePartition, TypeInv, Plan
  <2>. QED
    BY <1>1, <1>2, <1>3, <2>1, <2>2, <2>3 DEF CompletePartition, TypeInv, TypeOK
<1>4. CASE ~(cur + 1 < Len(Plan.parts))
  <2>1. Finish("Success") /\ progress' = <<Total, Total>> /\ UNCHANGED <<cur, acc>>
    BY <1>4 DEF CompletePartition
  <2>. QED
    BY <1>1, <1>2, <2>1, FinishType DEF Codes
<1>. QED
  BY <1>3, <1>4


(* A step that changes only the tasks, the child and the progress keeps
   TypeInv when the new tasks and progress have their types and no new
   StartProcessing is posted. *)
LEMMA QuietType ==
  ASSUME TypeInv,
         UNCHANGED <<test, run, loopOn, act, weights, cur, acc, codeVal, codeSet,
                     doneCalled, stoppedCalled, powerwash>>,
         tasks' \subseteq [kind: TaskKinds, run: 0..Len(test.runs)],
         child' \in {"none", "started", "ready", "suspended", "resumed"},
         progress' \in Nat \X Nat,
         \A u \in tasks' : u.kind = "start" => u \in tasks
  PROVE  TypeInv'
<1>1. loopOn' \in BOOLEAN /\ {codeSet, doneCalled, stoppedCalled, powerwash}' \subseteq BOOLEAN
  BY Zenon DEF TypeInv, TypeOK
<1>2. TypeOK'
  BY <1>1 DEF TypeInv, TypeOK
<1>. QED
  BY <1>2 DEF TypeInv, Plan

(* partition_weight_ as RunPostinstallActionWithInstallPlan sets it from a
   plan: one positive weight per partition. *)
LEMMA PlanWeights ==
  ASSUME NEW p \in Seq(PartEntries)
  PROVE  LET w == [i \in DOMAIN p |-> p[i].weight]
         IN  w \in Seq(Nat \ {0}) /\ Len(w) = Len(p)
<1>1. \A i \in 1..Len(p) : p[i].weight \in Nat \ {0}
  <2>. TAKE i \in 1..Len(p)
  <2>1. p[i] \in PartEntries
    OBVIOUS
  <2>. QED
    BY <2>1 DEF PartEntries
<1>. QED
  BY <1>1

(* RunPostinstallActionWithInstallPlan keeps TypeInv. *)
LEMMA RunType ==
  ASSUME TypeInv, RunPostinstallActionWithInstallPlan
  PROVE  TypeInv'
<1>1. run + 1 \in 1..Len(test.runs) /\ test' = test /\ run' = run + 1
  BY DEF RunPostinstallActionWithInstallPlan, TypeInv, TypeOK
<1>2. test.runs \in Seq(InstallPlans)
  BY TestFacts, Zenon DEF TypeInv, TypeOK
<1>3. test.runs[run + 1] \in InstallPlans
  BY <1>1, <1>2
<1>9. test.runs[run + 1].parts \in Seq(PartEntries)
  BY <1>3 DEF InstallPlans
<1>4. weights' \in Seq(Nat \ {0}) /\ Len(weights') = Len(test.runs[run + 1].parts)
  BY <1>9, PlanWeights DEF RunPostinstallActionWithInstallPlan
<1>5. act \notin {"queued", "partition", "running"}
  BY DEF RunPostinstallActionWithInstallPlan, TypeInv
<1>6. tasks' \subseteq [kind: TaskKinds, run: 0..Len(test.runs)]
      /\ \A u \in tasks' : u.kind = "start" => u.run = run + 1
  BY <1>1, <1>5 DEF RunPostinstallActionWithInstallPlan, TypeInv, TypeOK, Task, TaskKinds
<1>7. loopOn' \in BOOLEAN /\ {codeSet, doneCalled, stoppedCalled, powerwash}' \subseteq BOOLEAN
  BY Zenon DEF RunPostinstallActionWithInstallPlan, TypeInv, TypeOK
<1>8. TypeOK'
  BY <1>1, <1>4, <1>6, <1>7 DEF RunPostinstallActionWithInstallPlan, TypeInv, TypeOK,
     NoProgress
<1>. QED
  BY <1>1, <1>4, <1>6, <1>8 DEF RunPostinstallActionWithInstallPlan, TypeInv, Plan

(* StartProcessing keeps TypeInv. *)
LEMMA StartType ==
  ASSUME TypeInv, NEW t \in tasks, StartProcessing(t)
  PROVE  TypeInv'
<1>1. act = "queued" /\ t.run = run /\ cur = 0
  BY DEF StartProcessing, TypeInv
<1>2. \A u \in tasks \ {t} : u.kind # "start"
  BY <1>1 DEF StartProcessing, TypeInv, TypeOK
<1>3. CASE Plan.parts = <<>>
  <2>1. Finish("Success") /\ UNCHANGED <<test, run, weights, cur, acc, stoppedCalled, progress>>
    BY <1>3 DEF StartProcessing
  <2>. QED
    BY <1>1, <1>2, <2>1, FinishType DEF StartProcessing, TypeInv, TypeOK, Codes
<1>4. CASE Plan.parts # <<>>
  <2>1. Len(weights) = Len(Plan.parts) /\ Plan.parts \in Seq(PartEntries)
    BY <1>1, PartFacts
  <2>2. cur < Len(weights)
    BY <1>1, <1>4, <2>1
  <2>3. loopOn' \in BOOLEAN /\ {codeSet, doneCalled, stoppedCalled, powerwash}' \subseteq BOOLEAN
    BY <1>4, Zenon DEF StartProcessing, TypeInv, TypeOK
  <2>4. TypeOK'
    BY <1>4, <2>3 DEF StartProcessing, TypeInv, TypeOK
  <2>. QED
    BY <1>1, <1>2, <1>4, <2>2, <2>4 DEF StartProcessing, TypeInv, Plan
<1>. QED
  BY <1>3, <1>4


(* The helpers' tasks keep TypeInv. *)
LEMMA HelperType ==
  ASSUME TypeInv, NEW t \in tasks,
         \/ SuspendRunningAction(t) \/ ResumeRunningAction(t) \/ CancelWhenStarted(t)
  PROVE  TypeInv'
<1>1. run \in 0..Len(test.runs)
  BY DEF TypeInv, TypeOK
<1>2. CASE SuspendRunningAction(t)
  BY <1>1, <1>2, QuietType DEF SuspendRunningAction, TypeInv, TypeOK, Task, TaskKinds
<1>3. CASE ResumeRunningAction(t)
  BY <1>3, QuietType DEF ResumeRunningAction, TypeInv, TypeOK
<1>4. CASE CancelWhenStarted(t)
  BY <1>1, <1>4, QuietType DEF CancelWhenStarted, TypeInv, TypeOK, Task, TaskKinds
<1>. QED
  BY <1>2, <1>3, <1>4

(* StopProcessing keeps TypeInv. *)
LEMMA StopType ==
  ASSUME TypeInv, NEW t \in tasks, StopProcessing(t)
  PROVE  TypeInv'
<1>1. loopOn' \in BOOLEAN /\ {codeSet, doneCalled, stoppedCalled, powerwash}' \subseteq BOOLEAN
  BY Zenon DEF StopProcessing, TypeInv, TypeOK
<1>2. TypeOK'
  BY <1>1 DEF StopProcessing, TypeInv, TypeOK
<1>3. \A u \in tasks : u.kind # "start"
  BY DEF StopProcessing, TypeInv
<1>. QED
  BY <1>2, <1>3 DEF StopProcessing, TypeInv

(* What the action decides for a partition before launching its program. *)
LEMMA LaunchOutcomes ==
  ASSUME Part \in PartEntries
  PROVE  LaunchOutcome \in {"MountError", "RunnerError", "Skip", "Launch"}
<1>1. Part.mount \in BOOLEAN /\ Part.optional \in BOOLEAN
  BY DEF PartEntries
<1>2. CASE ~Part.mount
  BY <1>2, Zenon DEF LaunchOutcome
<1>3. CASE Part.mount /\ Part.path = "absolute"
  BY <1>3, Zenon DEF LaunchOutcome
<1>4. CASE Part.mount /\ Part.path = "missing"
  BY <1>1, <1>4, Zenon DEF LaunchOutcome
<1>5. CASE Part.mount /\ Part.path \notin {"absolute", "missing"}
  BY <1>5, Zenon DEF LaunchOutcome
<1>. QED
  BY <1>2, <1>3, <1>4, <1>5

(* PerformPartitionPostinstall keeps TypeInv. *)
LEMMA PerformType ==
  ASSUME TypeInv, PerformPartitionPostinstall
  PROVE  TypeInv'
<1>1. act = "partition" /\ UNCHANGED <<test, run, tasks, weights, stoppedCalled>>
  BY DEF PerformPartitionPostinstall
<1>2. /\ acc \in Nat /\ Total \in Nat /\ cur < Len(weights)
      /\ \A u \in tasks : u.kind # "start"
  BY <1>1, WeightsNat DEF TypeInv, TypeOK
<1>3. CASE /\ LaunchOutcome = "Launch"
           /\ act' = "running" /\ child' = "started"
           /\ progress' = <<acc, Total>>
           /\ UNCHANGED <<loopOn, cur, acc, codeVal, codeSet, doneCalled, powerwash>>
  <2>1. loopOn' \in BOOLEAN /\ {codeSet, doneCalled, stoppedCalled, powerwash}' \subseteq BOOLEAN
    BY <1>1, <1>3, Zenon DEF TypeInv, TypeOK
  <2>2. TypeOK'
    BY <1>1, <1>2, <1>3, <2>1 DEF TypeInv, TypeOK
  <2>. QED
    BY <1>1, <1>2, <1>3, <2>2 DEF TypeInv, Plan
<1>4. CASE LaunchOutcome = "Skip" /\ CompletePartition
  BY <1>1, <1>4, CompleteType
<1>5. CASE /\ LaunchOutcome \notin {"Launch", "Skip"}
           /\ Finish(LaunchOutcome)
           /\ UNCHANGED <<cur, acc, progress>>
  <2>0. Part \in PartEntries
    BY <1>1, PartFacts
  <2>1. LaunchOutcome \in Codes
    BY <1>5, <2>0, LaunchOutcomes DEF Codes
  <2>. QED
    BY <1>1, <1>2, <1>5, <2>1, FinishType DEF TypeInv, TypeOK
<1>. QED
  BY <1>3, <1>4, <1>5 DEF PerformPartitionPostinstall

(* A progress line read while a partition runs, or by the test itself,
   makes a progress pair of naturals. *)
LEMMA ReportType ==
  ASSUME TypeInv, NEW l \in Lines, ReportLine(l), cur < Len(weights)
  PROVE  progress' \in Nat \X Nat
<1>1. l.num \in Nat /\ l.den \in Nat
  BY LinesAssumption DEF ProgressLines
<1>2. weights[cur + 1] \in Nat /\ Total \in Nat /\ acc \in Nat
  BY WeightsNat DEF TypeInv, TypeOK
<1>3. MinN(l.num, l.den) \in Nat
  BY <1>1 DEF MinN
<1>4. progress \in Nat \X Nat
  BY DEF TypeInv, TypeOK
<1>5. /\ acc * l.den \in Nat
      /\ weights[cur + 1] * MinN(l.num, l.den) \in Nat
      /\ Total * l.den \in Nat
  BY <1>1, <1>2, <1>3
<1>6. ProgressFor(l, acc, weights[cur + 1], Total) \in Nat \X Nat
  BY <1>5 DEF ProgressFor
<1>. QED
  BY <1>4, <1>6 DEF ReportLine

(* The child's events and the test's own progress lines keep TypeInv. *)
LEMMA ChildType ==
  ASSUME TypeInv,
         \/ ChildReady \/ ChildExit
         \/ \E l \in Lines : ChildProgress(l) \/ ProcessProgressLine(l)
  PROVE  TypeInv'
<1>1. CASE ChildReady
  BY <1>1, QuietType DEF ChildReady, TypeInv, TypeOK
<1>2. CASE \E l \in Lines : ChildProgress(l)
  <2>1. PICK l \in Lines : ChildProgress(l)
    BY <1>2
  <2>2. cur < Len(weights)
    BY <2>1 DEF ChildProgress, TypeInv
  <2>3. progress' \in Nat \X Nat
    BY <2>1, <2>2, ReportType DEF ChildProgress
  <2>. QED
    BY <2>1, <2>3, QuietType DEF ChildProgress, TypeInv, TypeOK
<1>3. CASE \E l \in Lines : ProcessProgressLine(l)
  <2>1. PICK l \in Lines : ProcessProgressLine(l)
    BY <1>3
  <2>2. test.runs = <<>> /\ test \in Tests
    BY <2>1 DEF ProcessProgressLine, TypeInv, TypeOK
  <2>3. test.cur < Len(test.weights)
    BY <2>2, TestFacts, Zenon
  <2>4. run = 0
    BY <2>2 DEF TypeInv, TypeOK
  <2>5. cur < Len(weights)
    BY <2>3, <2>4 DEF TypeInv
  <2>6. progress' \in Nat \X Nat
    BY <2>1, <2>5, ReportType DEF ProcessProgressLine
  <2>. QED
    BY <2>1, <2>6, QuietType DEF ProcessProgressLine, TypeInv, TypeOK
<1>4. CASE ChildExit
  <2>. DEFINE code == ExitCodeOf(Part.script, child = "resumed")
  <2>1. act = "running" /\ UNCHANGED <<test, run, tasks, weights, stoppedCalled>>
    BY <1>4 DEF ChildExit
  <2>2. CASE code = "Success"
    BY <1>4, <2>1, <2>2, CompleteType DEF ChildExit
  <2>3. CASE code # "Success"
    <3>1. Finish(code) /\ UNCHANGED <<cur, acc, progress>>
      BY <1>4, <2>3 DEF ChildExit
    <3>2. code \in Codes
      BY DEF ExitCodeOf, Codes
    <3>3. \A u \in tasks : u.kind # "start"
      BY <2>1 DEF TypeInv
    <3>. QED
      BY <2>1, <3>1, <3>2, <3>3, FinishType DEF TypeInv, TypeOK
  <2>. QED
    BY <2>2, <2>3
<1>. QED
  BY <1>1, <1>2, <1>3, <1>4

(* TypeInv is inductive. *)
LEMMA TypeStep == TypeInv /\ [Next]_vars => TypeInv'
<1>. SUFFICES ASSUME TypeInv, [Next]_vars PROVE TypeInv'
  OBVIOUS
<1>1. CASE RunPostinstallActionWithInstallPlan
  BY <1>1, RunType
<1>2. CASE \E t \in tasks : StartProcessing(t)
  BY <1>2, StartType
<1>3. CASE \E t \in tasks : SuspendRunningAction(t) \/ ResumeRunningAction(t)
                           \/ CancelWhenStarted(t)
  BY <1>3, HelperType
<1>4. CASE \E t \in tasks : StopProcessing(t)
  BY <1>4, StopType
<1>5. CASE PerformPartitionPostinstall
  BY <1>5, PerformType
<1>6. CASE \/ ChildReady \/ ChildExit
           \/ \E l \in Lines : ChildProgress(l) \/ ProcessProgressLine(l)
  BY <1>6, ChildType
<1>7. CASE UNCHANGED vars
  <2>1. TypeOK'
    BY <1>7, Zenon DEF vars, TypeInv, TypeOK
  <2>. QED
    BY <1>7, <2>1 DEF vars, TypeInv, Plan
<1>. QED
  BY <1>1, <1>2, <1>3, <1>4, <1>5, <1>6, <1>7 DEF Next

(* The type invariant of the harness: every reachable state of every test
   has the fields the code's types give it; in particular ProcessProgressLine
   and the partition steps never index partition_weight_ outside it, and
   total_weight_ is a natural number. *)
THEOREM TypeCorrect == Spec => []TypeOK
<1>1. Init => TypeInv
  BY TypeInit
<1>2. TypeInv /\ [Next]_vars => TypeInv'
  BY TypeStep
<1>3. TypeInv => TypeOK
  BY DEF TypeInv
<1>. QED
  BY <1>1, <1>2, <1>3, PTL DEF Spec


================================================================================
