---------------------------- MODULE MCHighLevel -----------------------------
(***************************************************************************)
(* The high level and an EventSet of the application on two native events; *)
(* PAPI_FP_OPS is not available, and the event of PAPI_ipc shares a native *)
(* event with PAPI_TOT_CYC. One of the arrays lists an event twice. The    *)
(* EventSets are followed as a CountingService too.                        *)
(***************************************************************************)
EXTENDS HighLevel, EventSetsService, TLC

CONSTANTS fp, cyc, ins, ops, main, user, all

MCPresetDef == ins :> <<fp, cyc>> @@ ops :> <<>>
MCEventOf == "HL_FLIPS" :> fp @@ "HL_IPC" :> ins @@ "HL_FLOPS" :> ops
MCAsked == {<<fp>>, <<cyc, ins>>, <<cyc, cyc>>}

\* bound: how long a measurement is followed
MeterBound == meter.n <= 3
=============================================================================
