------------------------- MODULE MC_PostinstallRunner -------------------------
(***************************************************************************)
(* The test cases of postinstall_runner_action_unittest.cc as constants,   *)
(* and one test with multi-partition plans that the file does not run.    *)
(***************************************************************************)
EXTENDS PostinstallRunner

MCPart(mount, path, opt, script) ==
  [mount |-> mount, path |-> path, optional |-> opt, script |-> script, weight |-> 1]
Default(script) == MCPart(TRUE, "relative", FALSE, script)
IPlan(parts, pw) == [parts |-> parts, powerwash |-> pw]
\* RunPostinstallAction: one partition, the given program and powerwash.
OneRun(part, pw, helper) ==
  [runs |-> <<IPlan(<<part>>, pw)>>, helper |-> helper, weights |-> <<>>,
   cur |-> 0, acc |-> 0]

SimpleTest == OneRun(Default("exit0"), FALSE, "none")
PowerwashRequiredTest == OneRun(Default("exit0"), TRUE, "none")
CantMountTest == OneRun(MCPart(FALSE, "relative", FALSE, "exit0"), FALSE, "none")
SkipOptionalTest ==
  [runs |-> <<IPlan(<<MCPart(TRUE, "missing", TRUE, "exit0")>>, FALSE),
              IPlan(<<MCPart(TRUE, "missing", FALSE, "exit0")>>, FALSE)>>,
   helper |-> "none", weights |-> <<>>, cur |-> 0, acc |-> 0]
ErrScriptTest == OneRun(Default("exit1"), FALSE, "none")
FirmwareBErrScriptTest == OneRun(Default("exit3"), FALSE, "none")
AbsolutePathTest == OneRun(MCPart(TRUE, "absolute", FALSE, "exit0"), FALSE, "none")
SuspendResumeTest == OneRun(Default("suspend"), FALSE, "suspend")
CancelTest == OneRun(Default("suspend"), FALSE, "cancel")
ProgressUpdatesTest == OneRun(Default("progress"), FALSE, "none")
\* ProcessProgressLineTest: current_partition_ 1 of weights {1, 2, 5}.
ProgressLineTest == [runs |-> <<>>, helper |-> "none", weights |-> <<1, 2, 5>>,
                     cur |-> 1, acc |-> 1]

\* Not in the file: the weights {1, 2, 5} of ProcessProgressLineTest as a
\* plan (an optional partition skipped, a progress program, and a program
\* that fails), then a plan of two partitions that both complete.
ThreePartitionsTest ==
  [runs |-> <<IPlan(<<[MCPart(TRUE, "missing", TRUE, "exit0") EXCEPT !.weight = 1],
                      [Default("progress") EXCEPT !.weight = 2],
                      [Default("exit1") EXCEPT !.weight = 5]>>, TRUE),
              IPlan(<<[Default("exit0") EXCEPT !.weight = 1],
                      [Default("progress") EXCEPT !.weight = 2]>>, TRUE)>>,
   helper |-> "none", weights |-> <<>>, cur |-> 0, acc |-> 0]

MCTests ==
  {SimpleTest, PowerwashRequiredTest, CantMountTest, SkipOptionalTest, ErrScriptTest,
   FirmwareBErrScriptTest, AbsolutePathTest, SuspendResumeTest, CancelTest,
   ProgressUpdatesTest, ProgressLineTest, ThreePartitionsTest}

GP(n, d) == [key |-> "global_progress", num |-> n, den |-> d]
MCLines ==
  {GP(0, 1), GP(1, 4), GP(1, 2), GP(1, 1),            \* numbers in [0, 1]
   GP(3, 2), GP(2, 1),                                \* numbers above 1
   GP(0, 0), [key |-> "foo_bar", num |-> 0, den |-> 0]} \* no number, other key

\* ProcessProgressLineTest's expectations: 0.5 of the second partition is
\* 0.25 of the total, and 1.5 is read as 100%, 3/8 of the total.
ASSUME ProgressReference ==
  /\ LET p == ProgressFor(GP(1, 2), 1, 2, 8) IN p[1] * 4 = p[2]
  /\ LET p == ProgressFor(GP(3, 2), 1, 2, 8) IN p[1] * 8 = 3 * p[2]
=============================================================================
