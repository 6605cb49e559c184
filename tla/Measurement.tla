----------------------------- MODULE Measurement -----------------------------
(***************************************************************************)
(* The campaign of run_tests.sh with the n_body processes it starts: the   *)
(* script waits for each of them (no & at line 41), and what a process has *)
(* printed by the time it ends is the line it appends to the events file.  *)
(***************************************************************************)
EXTENDS Campaign

CONSTANT test_sizes   \* the number of objects of each test

ASSUME MeasurementAssumption == test_sizes \in [0..(Sizes - 1) -> Nat \ {0}]

\* The n_body process; its pc is "none" while there is no process.
VARIABLES pc, N, i, j, accel, objects, kernel, event_value, stdout

process == <<pc, N, i, j, accel, objects, kernel, event_value, stdout>>

NBody == INSTANCE NBodyRun

NoProcess ==
  /\ pc = "none" /\ N = 0 /\ i = 0 /\ j = 0 /\ accel = NBody!Still
  /\ objects = <<>> /\ kernel = {} /\ event_value = {} /\ stdout = {}

MInit == Init /\ NoProcess

\* ./n_body ${test_sizes[$size_index]} $INPUT $test_index
Exec ==
  /\ pc = "none" /\ run \in 1..Runs /\ test_index < NUM_EVENTS
  /\ pc' = "PAPI_library_init" /\ N' = test_sizes[size_index]
  /\ objects' = NBody!ReadFrom(test_sizes[size_index])
  /\ UNCHANGED <<vars, i, j, accel, kernel, event_value, stdout>>

Step == NBody!Next /\ UNCHANGED vars

Appended == IF stdout = {} THEN 0 ELSE 1

\* The process has ended: the script goes on with the next event.
Wait ==
  /\ pc \in {"exit(0)", "exit(1)"}
  /\ Test /\ files'[size_index].events[run] = Dir.events[run] + Appended
  /\ pc' = "none" /\ N' = 0 /\ i' = 0 /\ j' = 0 /\ accel' = NBody!Still
  /\ objects' = <<>> /\ kernel' = {} /\ event_value' = {} /\ stdout' = {}

Script == pc = "none" /\ (Clear \/ Average \/ Decide) /\ UNCHANGED process

MNext == Exec \/ Step \/ Wait \/ Script

mvars == <<vars, process>>

\* Every process ends and the script goes on.
MSpec == MInit /\ [][MNext]_mvars /\ WF_mvars(MNext)

-----------------------------------------------------------------------------
(* What is promised.                                                       *)

\* All objects move at once, in every process of the campaign (NBodyRun).
MovesAtOnce == NBody!MovesAtOnce

\* A count that is printed is the count of the whole kernel (NBodyRun).
CountsKernel == NBody!CountsKernel
=============================================================================
