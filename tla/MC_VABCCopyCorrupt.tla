------------------------- MODULE MC_VABCCopyCorrupt -------------------------
(***************************************************************************)
(* A SOURCE_COPY of block 1 to block 2 where block 1 fails verification on *)
(* the primary descriptor and verifies on the ECC replica: the writer      *)
(* accepts the operation after switching to the replica and emits a       *)
(* COW_COPY, which the snapshot resolves on the primary source.            *)
(***************************************************************************)
EXTENDS VABCPartitionWriter

PlanCopyBad ==
  << [type |-> "SOURCE_COPY", src |-> <<1>>, dst |-> <<2>>, count |-> 0,
      decodes |-> TRUE, outLen |-> 0] >>

MCBlocks == 0..2
MCPlans == {PlanCopyBad}
MCPrimaryBad == {1}
MCEccBad == {}
=============================================================================
