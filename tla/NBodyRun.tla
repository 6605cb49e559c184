------------------------------ MODULE NBodyRun ------------------------------
(***************************************************************************)
(* One measurement of the n_body program (main.c, n_body.c): it counts one *)
(* event over one time step of N objects and prints the count, or exits at *)
(* the first PAPI call that fails.                                         *)
(*                                                                         *)
(* The floating-point numbers are left out: a coordinate is what it was    *)
(* computed from. It is {} as read from the input file and, once moved, the*)
(* set of terms summed into the acceleration that moved it. A term says    *)
(* which object it is due to, along which axis the difference of the two   *)
(* positions was taken and what these positions were. The speed, which     *)
(* enters aux_pos as it was read, is left out with the masses.             *)
(***************************************************************************)
EXTENDS Integers

VARIABLES
  pc,           \* the next PAPI call or loop
  N,
  i, j,         \* loop counters of n_body()
  accel,        \* the sum so far, by axis
  objects,      \* pos and aux_pos by object and axis
  kernel,       \* what has run between PAPI_start and PAPI_stop so far
  event_value,  \* what PAPI_stop stored
  stdout        \* the counts printed

loop == <<i, j, accel, objects>>

Axes == {"x", "y", "z"}
Still == [a \in Axes |-> {}]
ReadFrom(n) == [k \in 0..(n - 1) |-> [pos |-> Still, aux |-> Still]]

\* papi_run up to n_body(), call by call.
After == [PAPI_library_init    |-> "PAPI_create_eventset",
          PAPI_create_eventset |-> "PAPI_get_event_info",
          PAPI_get_event_info  |-> "PAPI_add_event",
          PAPI_add_event       |-> "PAPI_start",
          PAPI_start           |-> "forces"]

Prepare ==
  /\ pc \in DOMAIN After
  /\ pc' = After[pc] /\ UNCHANGED <<N, loop, kernel, event_value, stdout>>

\* papi_safe: a call that does not return PAPI_OK ends the program.
Fail ==
  /\ pc \in DOMAIN After \cup {"PAPI_stop", "PAPI_remove_event"}
  /\ pc' = "exit(1)" /\ UNCHANGED <<N, loop, kernel, event_value, stdout>>

-----------------------------------------------------------------------------
(* n_body()                                                                *)

\* The axis whose difference the code multiplies into accel.<a>.
DiffFor(a) == IF a = "z" THEN "y" ELSE a

Term(k, l, a) ==
  [by |-> l, along |-> DiffFor(a),
   mine |-> objects[k].pos[DiffFor(a)], its |-> objects[l].pos[DiffFor(a)]]

\* One turn of the inner loop.
Interact ==
  /\ pc = "forces" /\ i < N /\ j < N
  /\ accel' = [a \in Axes |-> accel[a] \cup {Term(i, j, a)}]
  /\ kernel' = kernel \cup {<<"force", i, j>>}
  /\ j' = j + 1 /\ UNCHANGED <<pc, N, i, objects, event_value, stdout>>

\* A slip in Move: the new position takes the place of the old one at once.
MoveNow ==
  /\ pc = "forces" /\ i < N /\ j = N
  /\ objects' = [objects EXCEPT ![i].pos = accel, ![i].aux = accel]
  /\ i' = i + 1 /\ j' = 0 /\ accel' = Still
  /\ UNCHANGED <<pc, N, kernel, event_value, stdout>>

\* The end of the outer loop's body: the new position goes to aux_pos.
Move ==
  /\ pc = "forces" /\ i < N /\ j = N
  /\ objects' = [objects EXCEPT ![i].aux = accel]
  /\ i' = i + 1 /\ j' = 0 /\ accel' = Still
  /\ UNCHANGED <<pc, N, kernel, event_value, stdout>>

EndForces ==
  /\ pc = "forces" /\ i = N
  /\ pc' = "copy" /\ i' = 0 /\ UNCHANGED <<N, j, accel, objects, kernel, event_value, stdout>>

\* One turn of the copying loop.
Copy ==
  /\ pc = "copy" /\ i < N
  /\ objects' = [objects EXCEPT ![i].pos = objects[i].aux]
  /\ kernel' = kernel \cup {<<"copy", i>>}
  /\ i' = i + 1 /\ UNCHANGED <<pc, N, j, accel, event_value, stdout>>

\* A slip in EndCopy: the counting stops before the copying.
EndCopyEarly ==
  /\ pc = "copy"
  /\ pc' = "PAPI_stop" /\ UNCHANGED <<N, loop, kernel, event_value, stdout>>

EndCopy ==
  /\ pc = "copy" /\ i = N
  /\ pc' = "PAPI_stop" /\ UNCHANGED <<N, loop, kernel, event_value, stdout>>

\* PAPI_stop stores the count; papi_run prints it.
Stop ==
  /\ pc = "PAPI_stop"
  /\ event_value' = kernel /\ stdout' = kernel
  /\ pc' = "PAPI_remove_event" /\ UNCHANGED <<N, loop, kernel>>

Remove ==
  /\ pc = "PAPI_remove_event"
  /\ pc' = "exit(0)" /\ UNCHANGED <<N, loop, kernel, event_value, stdout>>

Next == Fail \/ Prepare \/ Interact \/ Move \/ EndForces \/ Copy \/ EndCopy \/ Stop \/ Remove

-----------------------------------------------------------------------------
(* What is promised.                                                       *)

Objects == 0..(N - 1)

\* All objects move at once: every new position has a term for each other object,
\* and each term is made of positions as they were before anyone moved ("after all
\* positions are calculated, updates the old values").
MovesAtOnce ==
  pc \in {"PAPI_stop", "PAPI_remove_event", "exit(0)"} =>
    \A k \in Objects, a \in Axes :
      LET terms == objects[k].pos[a]
      IN  /\ Objects \ {k} \subseteq {t.by : t \in terms}
          /\ \A t \in terms : t.mine = {} /\ t.its = {}

\* A count that is printed is the count of the whole kernel, of all forces and
\* the copying back, whatever happens to the calls around it.
CountsKernel ==
  pc = "exit(0)" \/ stdout # {} =>
    stdout = {<<"force", k, l>> : k, l \in Objects} \cup {<<"copy", k>> : k \in Objects}
=============================================================================
