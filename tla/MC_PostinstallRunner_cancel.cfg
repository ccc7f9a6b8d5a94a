\* RunAsRootCancelPostinstallActionTest against postinst_suspend exiting on
\* its own: the test's expectation that no code is set, under every order
\* of the 10 ms poll, the 100 ms delayed StopProcessing and the program.
CONSTANTS
  Tests <- MCTests
  Lines <- MCLines
SPECIFICATION Spec
CHECK_DEADLOCK FALSE
INVARIANT
  CancelLeavesNoCode
