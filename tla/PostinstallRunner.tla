--------------------------- MODULE PostinstallRunner ---------------------------
(***************************************************************************)
(* The postinstall test harness (payload_consumer/                         *)
(* postinstall_runner_action_unittest.cc) driving PostinstallRunnerAction  *)
(* through an ActionProcessor on a single-threaded message loop.           *)
(*                                                                         *)
(* The fixture owns the message loop, the processor delegate (code_,       *)
(* code_set_, processing_done_called_, processing_stopped_called_) and the *)
(* fake hardware (powerwash); none of them is reset between two runs of    *)
(* one test. The helpers SuspendRunningAction and CancelWhenStarted poll   *)
(* the action with delayed tasks. The action's own behaviour (mount, path  *)
(* checks, exit-status mapping, progress lines, powerwash) is what the     *)
(* test's expectations fix it to be.                                       *)
(***************************************************************************)
EXTENDS Naturals, Sequences

CONSTANTS
  Tests,   \* the test cases: the install plans run in order, the helper used
  Lines    \* lines a postinstall program may write to its progress descriptor

\* The postinstall programs of the test image and what they do.
Scripts == {"exit0", "exit1", "exit3", "suspend", "progress"}

\* One partition's postinstall settings (InstallPlan::Partition) and its
\* weight in the progress total.
PartEntries ==
  [mount: BOOLEAN, path: {"relative", "missing", "absolute"}, optional: BOOLEAN,
   script: Scripts, weight: Nat \ {0}]

\* An InstallPlan: the partitions to run postinstall on, powerwash_required.
InstallPlans == [parts: Seq(PartEntries), powerwash: BOOLEAN]

\* A progress line: a keyword and the number after it; den = 0 when the
\* number is missing or does not parse (NaN, garbage).
ProgressLines == [key: {"global_progress", "foo_bar"}, num: Nat, den: Nat]

\* A test: the plans of its RunPostinstallActionWithInstallPlan calls, the
\* helper it posts, and the action fields ProcessProgressLineTest sets.
ASSUME TestsAssumption ==
  Tests \subseteq [runs: Seq(InstallPlans), helper: {"none", "suspend", "cancel"},
                   weights: Seq(Nat \ {0}), cur: Nat, acc: Nat]
ASSUME LinesAssumption == Lines \subseteq ProgressLines
\* The action fields a test sets index inside partition_weight_, as the
\* code's partition_weight_[current_partition_] requires when the test calls
\* ProcessProgressLine itself.
ASSUME FieldsAssumption ==
  \A t \in Tests : /\ t.cur \in 0..Len(t.weights)
                  /\ (t.runs = <<>> => t.cur < Len(t.weights))

VARIABLES
  test,           \* the running TEST_F
  run,            \* RunPostinstallActionWithInstallPlan calls so far
  loopOn,         \* loop_.Run() in progress (postinstall_action_ non-null)
  tasks,          \* tasks posted to loop_ and not yet run: [kind, run]
  act,            \* the current action: "none", "queued", "partition" (about to
                  \* run the current partition), "running", "finished"
  child,          \* the postinstall process: "none", "started", "ready",
                  \* "suspended", "resumed"
  weights,        \* partition_weight_
  cur,            \* current_partition_
  acc,            \* accumulated_weight_
  codeVal,        \* processor_delegate_.code_
  codeSet,        \* processor_delegate_.code_set_
  doneCalled,     \* processor_delegate_.processing_done_called_
  stoppedCalled,  \* processor_delegate_.processing_stopped_called_
  powerwash,      \* fake_hardware_.IsPowerwashScheduled()
  progress        \* last ProgressUpdate as <<numerator, denominator>>

vars == <<test, run, loopOn, tasks, act, child, weights, cur, acc, codeVal, codeSet,
          doneCalled, stoppedCalled, powerwash, progress>>

NoProgress == <<0, 0>>
Plan == test.runs[run]
Part == Plan.parts[cur + 1]          \* partitions are indexed from 0
Task(k, r) == [kind |-> k, run |-> r]

\* total_weight_: the sum of the partition weights.
SumSeq(s) == LET f[i \in 0..Len(s)] == IF i = 0 THEN 0 ELSE f[i - 1] + s[i]
             IN f[Len(s)]
Total == SumSeq(weights)

\* Tasks the test body posts before its first run.
HelperTasks(h) ==
  CASE h = "suspend" -> {Task("suspendPoll", 0)}
    [] h = "cancel" -> {Task("cancelPoll", 0)}
    [] OTHER -> {}

-----------------------------------------------------------------------------
(* ProcessProgressLine: "global_progress x" reports the current partition's *)
(* share, x clamped to 1, of the weighted total; any other line is ignored. *)
MinN(a, b) == IF a < b THEN a ELSE b
ParseOk(l) == l.key = "global_progress" /\ l.den > 0
\* Variant without the clamp to 100%.
ProgressForUnclamped(l, a, w, total) == <<a * l.den + w * l.num, total * l.den>>
ProgressFor(l, a, w, total) == <<a * l.den + w * MinN(l.num, l.den), total * l.den>>
ReportLine(l) ==
  progress' = IF ParseOk(l) THEN ProgressFor(l, acc, weights[cur + 1], Total)
                            ELSE progress

\* The exit status of each program as the action reports it:
\* postinst_suspend returns 0 only if it was suspended at some point.
ExitCodeOf(s, suspended) ==
  CASE s \in {"exit0", "progress"} -> "Success"
    [] s = "suspend" -> IF suspended THEN "Success" ELSE "RunnerError"
    [] s = "exit3" -> "FirmwareB"
    [] OTHER -> "RunnerError"

\* What the action decides for the current partition before launching its
\* program: an optional missing program is skipped.
LaunchOutcome ==
  CASE ~Part.mount -> "MountError"
    [] Part.path = "absolute" -> "RunnerError"
    [] Part.path = "missing" -> IF Part.optional THEN "Skip" ELSE "RunnerError"
    [] OTHER -> "Launch"

\* The action completes with code c: powerwash is scheduled on success when
\* the plan requires it, the delegate's ActionCompleted records the code,
\* the processor reports ProcessingDone and the loop breaks.
Finish(c) ==
  /\ codeVal' = c /\ codeSet' = TRUE
  /\ powerwash' = (powerwash \/ (c = "Success" /\ Plan.powerwash))
  /\ doneCalled' = TRUE
  /\ loopOn' = FALSE /\ act' = "finished" /\ child' = "none"

\* The current partition is done: move to the next one, or complete with
\* kSuccess and report 100% after the last.
CompletePartition ==
  IF cur + 1 < Len(Plan.parts)
    THEN /\ act' = "partition" /\ child' = "none"
         /\ cur' = cur + 1 /\ acc' = acc + weights[cur + 1]
         /\ UNCHANGED <<loopOn, codeVal, codeSet, doneCalled, powerwash, progress>>
    ELSE /\ Finish("Success")
         /\ progress' = <<Total, Total>>
         /\ UNCHANGED <<cur, acc>>

-----------------------------------------------------------------------------
Init ==
  /\ test \in Tests
  /\ run = 0 /\ loopOn = FALSE
  /\ tasks = HelperTasks(test.helper)
  /\ act = "none" /\ child = "none"
  /\ weights = test.weights /\ cur = test.cur /\ acc = test.acc
  /\ codeVal = "Error" /\ codeSet = FALSE
  /\ doneCalled = FALSE /\ stoppedCalled = FALSE
  /\ powerwash = FALSE /\ progress = NoProgress

\* RunPostinstallActionWithInstallPlan: set up a fresh processor and action,
\* post StartProcessing and run the loop.
RunPostinstallActionWithInstallPlan ==
  /\ ~loopOn /\ run < Len(test.runs)
  /\ run' = run + 1 /\ loopOn' = TRUE /\ act' = "queued"
  /\ tasks' = tasks \cup {Task("start", run + 1)}
  /\ weights' = [i \in DOMAIN test.runs[run + 1].parts |-> test.runs[run + 1].parts[i].weight]
  /\ cur' = 0 /\ acc' = 0
  /\ progress' = NoProgress
  /\ UNCHANGED <<test, child, codeVal, codeSet, doneCalled, stoppedCalled, powerwash>>

\* The posted StartProcessing: the feeder hands the plan over and the
\* processor starts the action on its first partition.
StartProcessing(t) ==
  /\ loopOn /\ t.kind = "start"
  /\ tasks' = tasks \ {t}
  /\ IF Plan.parts = <<>>
       THEN Finish("Success") /\ UNCHANGED progress
       ELSE act' = "partition" /\ UNCHANGED <<loopOn, child, codeVal, codeSet,
                                              doneCalled, powerwash, progress>>
  /\ UNCHANGED <<test, run, weights, cur, acc, stoppedCalled>>

\* PerformPartitionPostinstall: mount the partition, check the program's
\* path and launch it (reporting the progress so far), skip it, or fail.
PerformPartitionPostinstall ==
  /\ act = "partition"
  /\ \/ /\ LaunchOutcome = "Launch"
        /\ act' = "running" /\ child' = "started"
        /\ progress' = <<acc, Total>>
        /\ UNCHANGED <<loopOn, cur, acc, codeVal, codeSet, doneCalled, powerwash>>
     \/ LaunchOutcome = "Skip" /\ CompletePartition
     \/ /\ LaunchOutcome \notin {"Launch", "Skip"}
        /\ Finish(LaunchOutcome)
        /\ UNCHANGED <<cur, acc, progress>>
  /\ UNCHANGED <<test, run, tasks, weights, stoppedCalled>>

\* The program sets itself up (redirects its input to /dev/zero).
ChildReady ==
  /\ act = "running" /\ child = "started"
  /\ child' = "ready"
  /\ UNCHANGED <<test, run, loopOn, tasks, act, weights, cur, acc, codeVal, codeSet,
                 doneCalled, stoppedCalled, powerwash, progress>>

\* The program writes a line to the progress descriptor.
ChildProgress(l) ==
  /\ act = "running" /\ child \in {"started", "ready", "resumed"}
  /\ Part.script = "progress"
  /\ ReportLine(l)
  /\ UNCHANGED <<test, run, loopOn, tasks, act, child, weights, cur, acc, codeVal,
                 codeSet, doneCalled, stoppedCalled, powerwash>>

\* The program exits (a stopped process cannot; postinst_suspend exits on
\* its own whether or not it was suspended, with 0 only once it has been
\* suspended and resumed): the partition is done, or the action fails with
\* the code of the exit status.
ChildExit ==
  LET code == ExitCodeOf(Part.script, child = "resumed")
  IN /\ act = "running" /\ child \in {"started", "ready", "resumed"}
     /\ IF code = "Success"
          THEN CompletePartition
          ELSE Finish(code) /\ UNCHANGED <<cur, acc, progress>>
     /\ UNCHANGED <<test, run, tasks, weights, stoppedCalled>>

\* Variants of the helpers: suspending without posting the resume, and
\* posting StopProcessing tagged with the next run.
SuspendWithoutResume(t) ==
  /\ loopOn /\ t.kind = "suspendPoll"
  /\ act = "running" /\ child = "ready"
  /\ child' = "suspended"
  /\ tasks' = tasks \ {t}
  /\ UNCHANGED <<test, run, loopOn, act, weights, cur, acc, codeVal, codeSet,
                 doneCalled, stoppedCalled, powerwash, progress>>
CancelWhenStartedNextRun(t) ==
  /\ loopOn /\ t.kind = "cancelPoll"
  /\ act = "running"
  /\ tasks' = (tasks \ {t}) \cup {Task("stop", run + 1)}
  /\ UNCHANGED <<test, run, loopOn, act, child, weights, cur, acc, codeVal, codeSet,
                 doneCalled, stoppedCalled, powerwash, progress>>

\* SuspendRunningAction: once the program is ready, suspend the action and
\* post ResumeRunningAction; before that it re-posts itself (no change).
SuspendRunningAction(t) ==
  /\ loopOn /\ t.kind = "suspendPoll"
  /\ act = "running" /\ child = "ready"
  /\ child' = "suspended"
  /\ tasks' = (tasks \ {t}) \cup {Task("resume", run)}
  /\ UNCHANGED <<test, run, loopOn, act, weights, cur, acc, codeVal, codeSet,
                 doneCalled, stoppedCalled, powerwash, progress>>

ResumeRunningAction(t) ==
  /\ loopOn /\ t.kind = "resume"
  /\ child' = IF child = "suspended" THEN "resumed" ELSE child
  /\ tasks' = tasks \ {t}
  /\ UNCHANGED <<test, run, loopOn, act, weights, cur, acc, codeVal, codeSet,
                 doneCalled, stoppedCalled, powerwash, progress>>

\* CancelWhenStarted: once current_command_ is set, post StopProcessing on
\* processor_ 100 ms later; before that it re-posts itself (no change).
CancelWhenStarted(t) ==
  /\ loopOn /\ t.kind = "cancelPoll"
  /\ act = "running"
  /\ tasks' = (tasks \ {t}) \cup {Task("stop", run)}
  /\ UNCHANGED <<test, run, loopOn, act, child, weights, cur, acc, codeVal, codeSet,
                 doneCalled, stoppedCalled, powerwash, progress>>

\* processor->StopProcessing(): the action kills the program and the
\* processor reports ProcessingStopped, breaking the loop. The stop is
\* posted once the program runs, and the loop runs no task while the action
\* moves between partitions (a synchronous step), so the action is running.
StopProcessing(t) ==
  /\ loopOn /\ t.kind = "stop"
  /\ act = "running"
  /\ tasks' = tasks \ {t}
  /\ stoppedCalled' = TRUE
  /\ loopOn' = FALSE /\ act' = "finished" /\ child' = "none"
  /\ UNCHANGED <<test, run, weights, cur, acc, codeVal, codeSet, doneCalled,
                 powerwash, progress>>

\* ProcessProgressLineTest calls ProcessProgressLine on an action that no
\* processor runs.
ProcessProgressLine(l) ==
  /\ test.runs = <<>>
  /\ ReportLine(l)
  /\ UNCHANGED <<test, run, loopOn, tasks, act, child, weights, cur, acc, codeVal,
                 codeSet, doneCalled, stoppedCalled, powerwash>>

Next ==
  \/ RunPostinstallActionWithInstallPlan
  \/ \E t \in tasks : \/ StartProcessing(t)
                      \/ SuspendRunningAction(t)
                      \/ ResumeRunningAction(t)
                      \/ CancelWhenStarted(t)
                      \/ StopProcessing(t)
  \/ PerformPartitionPostinstall
  \/ ChildReady
  \/ \E l \in Lines : ChildProgress(l) \/ ProcessProgressLine(l)
  \/ ChildExit

\* The loop runs every posted task and reacts to every event of the child;
\* the action's partition steps are synchronous; the test body calls its
\* runs in sequence.
Fairness ==
  /\ WF_vars(RunPostinstallActionWithInstallPlan)
  /\ WF_vars(\E t \in tasks : StartProcessing(t))
  /\ WF_vars(\E t \in tasks : SuspendRunningAction(t))
  /\ WF_vars(\E t \in tasks : ResumeRunningAction(t))
  /\ WF_vars(\E t \in tasks : CancelWhenStarted(t))
  /\ WF_vars(\E t \in tasks : StopProcessing(t))
  /\ WF_vars(PerformPartitionPostinstall)
  /\ WF_vars(ChildReady)
  /\ WF_vars(ChildExit)

Spec == Init /\ [][Next]_vars /\ Fairness

-----------------------------------------------------------------------------
(* Properties.                                                             *)

Codes == {"Error", "Success", "MountError", "RunnerError", "FirmwareB"}
TaskKinds == {"start", "suspendPoll", "resume", "cancelPoll", "stop"}

TypeOK ==
  /\ test \in Tests
  /\ run \in 0..Len(test.runs)
  /\ loopOn \in BOOLEAN
  /\ tasks \subseteq [kind: TaskKinds, run: 0..Len(test.runs)]
  /\ act \in {"none", "queued", "partition", "running", "finished"}
  /\ child \in {"none", "started", "ready", "suspended", "resumed"}
  /\ weights \in Seq(Nat \ {0})
  /\ cur \in 0..Len(weights) /\ acc \in Nat
  /\ codeVal \in Codes
  /\ {codeSet, doneCalled, stoppedCalled, powerwash} \subseteq BOOLEAN
  /\ progress \in Nat \X Nat

\* RunAsRootCancelPostinstallActionTest: when the cancelled test's runs are
\* over, ProcessingStopped was reported and ActionCompleted never recorded
\* a code, whatever the order of the polls, the program's steps and the
\* delayed StopProcessing.
CancelLeavesNoCode ==
  (test.helper = "cancel" /\ run = Len(test.runs) /\ ~loopOn)
    => stoppedCalled /\ ~codeSet

\* Every test's loop_.Run() returns: the suspended program is resumed, the
\* cancel is delivered, and no run waits forever on a task or on the child.
EveryRunEnds == <>(run = Len(test.runs) /\ ~loopOn)
=============================================================================
