\* Every test of postinstall_runner_action_unittest.cc, every interleaving
\* of the posted tasks with the postinstall program. The message loop may
\* wait forever; EveryRunEnds is what rules that out.
CONSTANTS
  Tests <- MCTests
  Lines <- MCLines
SPECIFICATION Spec
CHECK_DEADLOCK FALSE
INVARIANTS
  TypeOK
PROPERTIES
  EveryRunEnds
