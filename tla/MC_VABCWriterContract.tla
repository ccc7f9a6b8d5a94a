---------------------- MODULE MC_VABCWriterContract ----------------------
(***************************************************************************)
(* Model-checking instance of VABCWriterContract: a four-block partition   *)
(* and payloads in which several operations write the same block, so that *)
(* a torn or re-applied operation can leave a block that the last writer   *)
(* must put right.                                                         *)
(***************************************************************************)
EXTENDS VABCWriterContract

Op(t, s, d) == [type |-> t, src |-> s, dst |-> d]

\* Shift blocks 0,1 up by one, zero block 3, replace block 0.
PlanShift ==
  << Op("SOURCE_COPY", <<0, 1>>, <<1, 2>>), Op("ZERO", <<>>, <<3>>),
     Op("REPLACE", <<>>, <<0>>) >>

\* Blocks 0 and 1 are written by two operations each, block 2 by three.
PlanOverwrite ==
  << Op("REPLACE", <<>>, <<0, 1, 2>>), Op("SOURCE_COPY", <<2, 3>>, <<1, 2>>),
     Op("DISCARD", <<>>, <<2, 0>>) >>

\* A copy with more sources than destinations: only Fail may follow.
PlanBadCopy == << Op("SOURCE_COPY", <<0, 1>>, <<3>>) >>

MCBlocks == 0..3
\* Block 3 of the source partition is corrupt: PlanOverwrite never writes
\* it, so a finished session must still expose the corrupt block there.
MCSource == [b \in MCBlocks |-> IF b = 3 THEN Bad(b) ELSE Orig(b)]
MCPlans == {PlanShift, PlanOverwrite, PlanBadCopy}
MCOperations == UNION {{p[k] : k \in DOMAIN p} : p \in MCPlans}
=============================================================================
