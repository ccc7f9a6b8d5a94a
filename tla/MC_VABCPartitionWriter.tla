---------------------- MODULE MC_VABCPartitionWriter ----------------------
(***************************************************************************)
(* Model-checking instance of VABCPartitionWriter: a four-block partition, *)
(* block 1 unreadable on the primary descriptor but recoverable from the   *)
(* ECC replica, block 2 readable only on the primary, and payloads that    *)
(* use every operation type, including an in-place shifted SOURCE_COPY     *)
(* and every way a call can fail.                                          *)
(***************************************************************************)
EXTENDS VABCPartitionWriter

Op(t, s, d, c, dec, out) ==
  [type |-> t, src |-> s, dst |-> d, count |-> c, decodes |-> dec, outLen |-> out]

\* Shift blocks 0,1 up by one (the second entry must be materialised),
\* zero block 3 and replace block 0.
PlanShift ==
  << Op("SOURCE_COPY", <<0, 1>>, <<1, 2>>, 0, TRUE, 0),
     Op("ZERO", <<>>, <<3>>, 0, TRUE, 0),
     Op("REPLACE", <<>>, <<0>>, 1, TRUE, 0) >>

\* A puffdiff reading block 2 before the switch to the replica, a bsdiff
\* reading block 1 (switches to the replica), then a discard.
PlanDiffs ==
  << Op("PUFFDIFF", <<2>>, <<3>>, 2, TRUE, 1),
     Op("SOURCE_BSDIFF", <<1>>, <<1>>, 1, TRUE, 1),
     Op("DISCARD", <<>>, <<0>>, 0, TRUE, 0) >>

\* A swap of blocks 0 and 1 whose second entry is materialised from the
\* replica, then a diff reading block 2, which the replica cannot recover.
\* Then calls that fail on their own: a REPLACE whose data is too long, a
\* patch that does not decode, a patch whose output is too long, and a copy
\* with unequal block counts.
PlanFailures ==
  << Op("SOURCE_COPY", <<0, 1>>, <<1, 0>>, 0, TRUE, 0),
     Op("SOURCE_BSDIFF", <<1, 2>>, <<0>>, 1, TRUE, 1) >>
PlanBadReplace ==
  << Op("ZERO", <<>>, <<0>>, 0, TRUE, 0), Op("REPLACE", <<>>, <<1>>, 2, TRUE, 0) >>
PlanBadPatch == << Op("PUFFDIFF", <<0>>, <<0>>, 1, FALSE, 1) >>
PlanBadOutLen == << Op("SOURCE_BSDIFF", <<0>>, <<0>>, 1, TRUE, 2) >>
PlanBadCopy == << Op("SOURCE_COPY", <<0, 1>>, <<3>>, 0, TRUE, 0) >>

\* Copy 1 to 2 and 0 to 1: two copies, safe in place when written once.
PlanRotate == << Op("SOURCE_COPY", <<1, 0>>, <<2, 1>>, 0, TRUE, 0) >>

MCBlocks == 0..3
MCPlans ==
  {PlanShift, PlanDiffs, PlanFailures, PlanBadReplace, PlanBadPatch, PlanBadOutLen, PlanBadCopy}
MCPrimaryBad == {1}
MCEccBad == {2}
MCNoBad == {}
MCRotatePlans == {PlanRotate}

\* The payloads copy no block that is corrupt on the primary descriptor.
ASSUME CopiedClean == CopiedBlocksClean
=============================================================================
