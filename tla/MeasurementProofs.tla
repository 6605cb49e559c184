-------------------------- MODULE MeasurementProofs --------------------------
(***************************************************************************)
(* For any number of test sizes, objects, events and possible times, and   *)
(* whichever PAPI calls fail: the objects move at once, and a count that   *)
(* is printed is the count of the whole kernel.                            *)
(*                                                                         *)
(* Neither is inductive. Computed says how far the process has got: which  *)
(* terms have been summed up, who has moved and who has been copied when i *)
(* and j are where they are. Place says which process it is the script     *)
(* waits for.                                                              *)
(***************************************************************************)
EXTENDS Measurement, TLAPS

Calls == DOMAIN NBody!After

\* A term of the position of object l before anyone moved, along axis a, and the
\* sum over the first n objects.
Fair(l, a) == [by |-> l, along |-> NBody!DiffFor(a), mine |-> {}, its |-> {}]
Sum(n) == [a \in NBody!Axes |-> {Fair(l, a) : l \in 0..(n - 1)}]

\* The objects when n of them have moved, and when n of them have been copied.
Moved(n, m) ==
  [k \in 0..(m - 1) |-> [pos |-> NBody!Still, aux |-> IF k < n THEN Sum(m) ELSE NBody!Still]]
Copied(n, m) ==
  [k \in 0..(m - 1) |-> [pos |-> IF k < n THEN Sum(m) ELSE NBody!Still, aux |-> Sum(m)]]

\* What the kernel has done after n turns of its loops over m objects.
Forces(n, m) == {<<"force", k, l>> : k \in 0..(n - 1), l \in 0..(m - 1)}
ForcesOn(k, n) == {<<"force", k, l>> : l \in 0..(n - 1)}
Copies(n) == {<<"copy", k>> : k \in 0..(n - 1)}
Whole(m) == Forces(m, m) \cup Copies(m)

Computed ==
  /\ N \in Nat
  /\ pc \in {"none", "forces", "copy", "PAPI_stop", "PAPI_remove_event", "exit(0)", "exit(1)"} \cup Calls
  /\ pc \in Calls \cup {"none"} => i = 0 /\ j = 0 /\ accel = NBody!Still /\ kernel = {}
  /\ pc \in Calls => objects = NBody!ReadFrom(N)
  /\ pc = "forces" => /\ i \in 0..N /\ j \in 0..N /\ (i = N => j = 0)
                      /\ accel = Sum(j) /\ objects = Moved(i, N)
                      /\ kernel = Forces(i, N) \cup ForcesOn(i, j)
  /\ pc = "copy" => /\ i \in 0..N /\ objects = Copied(i, N)
                    /\ kernel = Forces(N, N) \cup Copies(i)
  /\ pc \in {"PAPI_stop", "PAPI_remove_event", "exit(0)"} => objects = Copied(N, N) /\ kernel = Whole(N)
  /\ pc \in {"PAPI_remove_event", "exit(0)"} => stdout = Whole(N)
  /\ pc = "exit(1)" => stdout \in {{}, Whole(N)}
  /\ pc \in Calls \cup {"none", "forces", "copy", "PAPI_stop"} => stdout = {}

Place ==
  /\ size_index \in Nat /\ run \in 0..(Runs + 1)
  /\ run # 0 => size_index < Sizes
  /\ pc # "none" => run \in 1..Runs /\ N = test_sizes[size_index]

MInv == Computed /\ Place

-----------------------------------------------------------------------------
(* The sums and the sets the loops run through.                            *)

LEMMA SumGrows ==
  ASSUME NEW n \in Nat
  PROVE  /\ Sum(0) = NBody!Still
         /\ Sum(n + 1) = [a \in NBody!Axes |-> Sum(n)[a] \cup {Fair(n, a)}]
<1>1. 0..(0 - 1) = {} /\ 0..((n + 1) - 1) = (0..(n - 1)) \cup {n}
  OBVIOUS
<1> QED BY <1>1 DEF Sum, NBody!Still

LEMMA MovedGrows ==
  ASSUME NEW m \in Nat
  PROVE  /\ Moved(0, m) = NBody!ReadFrom(m)
         /\ Moved(m, m) = Copied(0, m)
         /\ \A n \in 0..(m - 1) :
              /\ [Moved(n, m) EXCEPT ![n].aux = Sum(m)] = Moved(n + 1, m)
              /\ [Copied(n, m) EXCEPT ![n].pos = Copied(n, m)[n].aux] = Copied(n + 1, m)
              /\ \A k \in 0..(m - 1) : Moved(n, m)[k].pos = NBody!Still
<1>1. \A k \in 0..(m - 1) : ~(k < 0) /\ k < m
  OBVIOUS
<1>2. Moved(0, m) = NBody!ReadFrom(m)
  BY <1>1 DEF Moved, NBody!ReadFrom
<1>3. Moved(m, m) = Copied(0, m)
  BY <1>1 DEF Moved, Copied
<1>4. ASSUME NEW n \in 0..(m - 1)
      PROVE  /\ [Moved(n, m) EXCEPT ![n].aux = Sum(m)] = Moved(n + 1, m)
             /\ [Copied(n, m) EXCEPT ![n].pos = Copied(n, m)[n].aux] = Copied(n + 1, m)
             /\ \A k \in 0..(m - 1) : Moved(n, m)[k].pos = NBody!Still
  <2>1. \A k \in 0..(m - 1) : k < n + 1 <=> k < n \/ k = n
    OBVIOUS
  <2>2. [Moved(n, m) EXCEPT ![n].aux = Sum(m)] = Moved(n + 1, m)
    <3>1. [Moved(n, m)[n] EXCEPT !.aux = Sum(m)] = Moved(n + 1, m)[n]
      BY <2>1 DEF Moved
    <3>2. \A k \in 0..(m - 1) : k # n => Moved(n, m)[k] = Moved(n + 1, m)[k]
      BY <2>1 DEF Moved
    <3>3. Moved(n, m) = [k \in 0..(m - 1) |-> Moved(n, m)[k]] /\ Moved(n + 1, m) = [k \in 0..(m - 1) |-> Moved(n + 1, m)[k]]
      BY Zenon DEF Moved
    <3> QED BY <3>1, <3>2, <3>3
  <2>3. [Copied(n, m) EXCEPT ![n].pos = Copied(n, m)[n].aux] = Copied(n + 1, m)
    <3>1. [Copied(n, m)[n] EXCEPT !.pos = Copied(n, m)[n].aux] = Copied(n + 1, m)[n]
      BY <2>1 DEF Copied
    <3>2. \A k \in 0..(m - 1) : k # n => Copied(n, m)[k] = Copied(n + 1, m)[k]
      BY <2>1 DEF Copied
    <3>3. Copied(n, m) = [k \in 0..(m - 1) |-> Copied(n, m)[k]] /\ Copied(n + 1, m) = [k \in 0..(m - 1) |-> Copied(n + 1, m)[k]]
      BY Zenon DEF Copied
    <3> QED BY <3>1, <3>2, <3>3
  <2> QED BY <2>2, <2>3 DEF Moved
<1> QED BY <1>2, <1>3, <1>4

LEMMA KernelGrows ==
  ASSUME NEW m \in Nat, NEW n \in Nat
  PROVE  /\ Forces(0, m) = {} /\ ForcesOn(n, 0) = {} /\ Copies(0) = {}
         /\ Forces(n + 1, m) = Forces(n, m) \cup ForcesOn(n, m)
         /\ \A k \in Nat : ForcesOn(n, k + 1) = ForcesOn(n, k) \cup {<<"force", n, k>>}
         /\ Copies(n + 1) = Copies(n) \cup {<<"copy", n>>}
<1>1. /\ 0..(0 - 1) = {} /\ 0..((n + 1) - 1) = (0..(n - 1)) \cup {n}
      /\ \A k \in Nat : 0..((k + 1) - 1) = (0..(k - 1)) \cup {k}
  OBVIOUS
<1> QED BY <1>1 DEF Forces, ForcesOn, Copies

-----------------------------------------------------------------------------
(* The process.                                                            *)

\* A step of n_body leads from one place of its loops to the next.
LEMMA ProcessComputes ==
  ASSUME MInv, Step
  PROVE  MInv'
<1> USE DEF MInv, Computed, Calls, NBody!After
<1>0. /\ UNCHANGED <<vars, N>> /\ NBody!Next /\ N \in Nat
      /\ (pc # "none" /\ pc' # "none" => Place')
  <2>1. UNCHANGED vars /\ NBody!Next
    BY DEF Step
  <2>2. UNCHANGED N
    BY <2>1 DEF NBody!Next, NBody!Fail, NBody!Prepare, NBody!Interact, NBody!Move, NBody!EndForces,
                NBody!Copy, NBody!EndCopy, NBody!Stop, NBody!Remove
  <2> QED BY <2>1, <2>2 DEF Place, vars
<1>1. CASE NBody!Fail
  BY <1>0, <1>1 DEF NBody!Fail
<1>2. CASE NBody!Prepare
  <2>1. /\ Sum(0) = NBody!Still /\ Moved(0, N) = NBody!ReadFrom(N)
        /\ Forces(0, N) \cup ForcesOn(0, 0) = {}
    BY <1>0, SumGrows, MovedGrows, KernelGrows
  <2>2. UNCHANGED <<N, i, j, accel, objects, kernel, event_value, stdout>>
    BY <1>2 DEF NBody!Prepare, NBody!loop
  <2>3. pc \in Calls /\ pc' = NBody!After[pc]
    BY <1>2 DEF NBody!Prepare
  <2>4. pc' \in Calls \/ pc' = "forces"
    BY <2>3
  <2>5. CASE pc' \in Calls
    BY <1>0, <2>2, <2>3, <2>5 DEF NBody!ReadFrom
  <2>6. CASE pc' = "forces"
    <3>1. Sum(0)' = Sum(0) /\ Moved(0, N)' = Moved(0, N) /\ (Forces(0, N) \cup ForcesOn(0, 0))' = Forces(0, N) \cup ForcesOn(0, 0)
      BY <1>0, <2>2
    <3> QED BY <1>0, <2>1, <2>2, <2>3, <2>6, <3>1
  <2> QED BY <2>4, <2>5, <2>6
<1>3. CASE NBody!Interact
  <2> USE <1>3 DEF NBody!Interact
  <2>1. i \in 0..(N - 1) /\ j \in 0..(N - 1) /\ objects = Moved(i, N)
    BY <1>0
  <2>2. \A l \in 0..(N - 1) : objects[l].pos = NBody!Still
    BY <1>0, <2>1, MovedGrows
  <2>3. \A a \in NBody!Axes : NBody!Term(i, j, a) = Fair(j, a)
    BY <2>1, <2>2 DEF NBody!Term, Fair, NBody!Still, NBody!DiffFor, NBody!Axes
  <2>4. accel' = Sum(j + 1)
    BY <1>0, <2>1, <2>3, SumGrows
  <2>5. kernel' = Forces(i, N) \cup ForcesOn(i, j + 1)
    BY <1>0, <2>1, KernelGrows
  <2>6. i' = i /\ j' = j + 1 /\ N' = N /\ pc = "forces" /\ pc' = "forces" /\ UNCHANGED <<objects, stdout>>
    BY <1>0
  <2>7. Sum(j)' = Sum(j + 1)
    BY <2>6
  <2>8. Moved(i, N)' = Moved(i, N)
    BY <2>6
  <2>9. (Forces(i, N) \cup ForcesOn(i, j))' = Forces(i, N) \cup ForcesOn(i, j + 1)
    BY <2>6
  <2>10. j + 1 \in 0..N /\ i # N
    BY <1>0, <2>1
  <2> QED BY <1>0, <2>1, <2>4, <2>5, <2>6, <2>7, <2>8, <2>9, <2>10
<1>4. CASE NBody!Move
  <2> USE <1>4 DEF NBody!Move
  <2>1. i \in 0..(N - 1) /\ j = N /\ objects = Moved(i, N) /\ accel = Sum(N)
    BY <1>0
  <2>2. objects' = Moved(i + 1, N)
    BY <1>0, <2>1, MovedGrows
  <2>3. kernel = Forces(i + 1, N)
    <3>1. kernel = Forces(i, N) \cup ForcesOn(i, N) /\ i \in Nat
      BY <1>0, <2>1
    <3> QED BY <1>0, <3>1, KernelGrows
  <2>4. i' = i + 1 /\ j' = 0 /\ N' = N /\ pc = "forces" /\ pc' = "forces" /\ UNCHANGED <<kernel, stdout>>
    BY <1>0
  <2>5. Sum(j)' = Sum(0)
    BY <2>4
  <2>6. Moved(i, N)' = Moved(i + 1, N)
    BY <2>4
  <2>7. (Forces(i, N) \cup ForcesOn(i, j))' = Forces(i + 1, N) \cup ForcesOn(i + 1, 0)
    BY <2>4
  <2>8. accel' = Sum(0) /\ ForcesOn(i + 1, 0) = {}
    <3>1. accel' = NBody!Still /\ i + 1 \in Nat
      BY <1>0, <2>1
    <3> QED BY <1>0, <3>1, SumGrows, KernelGrows
  <2>9. i + 1 \in 0..N /\ 0 \in 0..N
    BY <1>0, <2>1
  <2> QED BY <1>0, <2>2, <2>3, <2>4, <2>5, <2>6, <2>7, <2>8, <2>9
<1>5. CASE NBody!EndForces
  <2> USE <1>5 DEF NBody!EndForces
  <2>1. objects = Copied(0, N) /\ kernel = Forces(N, N) \cup Copies(0)
    <3>1. i = N /\ j = 0 /\ objects = Moved(N, N) /\ kernel = Forces(N, N) \cup ForcesOn(N, 0)
      BY <1>0
    <3> QED BY <1>0, <3>1, MovedGrows, KernelGrows
  <2>2. i' = 0 /\ N' = N /\ pc = "forces" /\ pc' = "copy" /\ UNCHANGED <<objects, kernel, stdout>>
    BY <1>0
  <2>3. Copied(i, N)' = Copied(0, N) /\ (Forces(N, N) \cup Copies(i))' = Forces(N, N) \cup Copies(0)
    BY <2>2
  <2> QED BY <1>0, <2>1, <2>2, <2>3
<1>6. CASE NBody!Copy
  <2> USE <1>6 DEF NBody!Copy
  <2>1. i \in 0..(N - 1) /\ objects = Copied(i, N)
    BY <1>0
  <2>2. objects' = Copied(i + 1, N)
    BY <1>0, <2>1, MovedGrows
  <2>3. kernel' = Forces(N, N) \cup Copies(i + 1)
    BY <1>0, <2>1, KernelGrows
  <2>4. i' = i + 1 /\ N' = N /\ pc = "copy" /\ pc' = "copy" /\ UNCHANGED stdout
    BY <1>0
  <2>5. Copied(i, N)' = Copied(i + 1, N) /\ (Forces(N, N) \cup Copies(i))' = Forces(N, N) \cup Copies(i + 1)
    BY <2>4
  <2>6. i + 1 \in 0..N
    BY <1>0, <2>1
  <2> QED BY <1>0, <2>2, <2>3, <2>4, <2>5, <2>6
<1>7. CASE NBody!EndCopy
  <2>1. objects = Copied(N, N) /\ kernel = Whole(N) /\ pc = "copy" /\ pc' = "PAPI_stop"
        /\ UNCHANGED <<N, objects, kernel, stdout>>
    BY <1>0, <1>7 DEF NBody!EndCopy, NBody!loop, Whole
  <2> QED BY <1>0, <2>1
<1>8. CASE NBody!Stop
  BY <1>0, <1>8 DEF NBody!Stop, NBody!loop
<1>9. CASE NBody!Remove
  BY <1>0, <1>9 DEF NBody!Remove, NBody!loop
<1> QED BY <1>0, <1>1, <1>2, <1>3, <1>4, <1>5, <1>6, <1>7, <1>8, <1>9 DEF NBody!Next

-----------------------------------------------------------------------------
(* The script.                                                             *)

LEMMA ScriptStarts == MInit => MInv
<1> SUFFICES ASSUME MInit PROVE MInv
  OBVIOUS
<1>1. Computed
  BY DEF MInit, NoProcess, Computed, Calls, NBody!After
<1>2. Place
  BY DEF MInit, NoProcess, Init, Place, Runs
<1> QED BY <1>1, <1>2 DEF MInv

LEMMA ScriptKeeps ==
  ASSUME MInv, Script
  PROVE  MInv'
<1>1. Computed' /\ pc' = "none"
  BY DEF MInv, Script, process, Computed
<1>2. Place'
  <2>1. CASE Clear
    BY <1>1, <2>1 DEF MInv, Place, Clear, Runs
  <2>2. CASE Average
    BY <1>1, <2>2 DEF MInv, Place, Average, Runs
  <2>3. CASE Decide
    BY <1>1, <2>3 DEF MInv, Place, Decide, Runs
  <2> QED BY <2>1, <2>2, <2>3 DEF Script
<1> QED BY <1>1, <1>2 DEF MInv

LEMMA ExecKeeps ==
  ASSUME MInv, Exec
  PROVE  MInv'
<1>1. size_index \in 0..(Sizes - 1) /\ test_sizes[size_index] \in Nat
  <2>1. size_index \in 0..(Sizes - 1)
    BY CampaignAssumption DEF MInv, Place, Exec, Runs
  <2> QED BY <2>1, MeasurementAssumption
<1>2. Computed'
  BY <1>1 DEF MInv, Exec, Computed, Calls, NBody!After
<1>3. Place'
  BY <1>1 DEF MInv, Exec, vars, Place
<1> QED BY <1>2, <1>3 DEF MInv

LEMMA WaitKeeps ==
  ASSUME MInv, Wait
  PROVE  MInv'
BY DEF MInv, Wait, Test, Place, Computed, Calls, NBody!After

-----------------------------------------------------------------------------
(* The theorems.                                                           *)

LEMMA StepsKeep == MInv /\ [MNext]_mvars => MInv'
<1> SUFFICES ASSUME MInv, [MNext]_mvars PROVE MInv'
  OBVIOUS
<1>1. CASE Exec BY <1>1, ExecKeeps
<1>2. CASE Step BY <1>2, ProcessComputes
<1>3. CASE Wait BY <1>3, WaitKeeps
<1>4. CASE Script BY <1>4, ScriptKeeps
<1>5. CASE UNCHANGED mvars
  BY <1>5 DEF mvars, vars, process, MInv, Computed, Place
<1> QED BY <1>1, <1>2, <1>3, <1>4, <1>5 DEF MNext

LEMMA AlwaysComputed == MSpec => []MInv
<1> QED BY ScriptStarts, StepsKeep, PTL DEF MSpec

\* In every process of a campaign of any size, with any number of objects, a new
\* position has a term for each other object, and each of its terms is made of
\* positions from before anyone moved (n_body.c's aux_pos).
THEOREM MovesAtOnceHolds == MSpec => []MovesAtOnce
<1>1. MInv => MovesAtOnce
  <2> SUFFICES ASSUME MInv, pc \in {"PAPI_stop", "PAPI_remove_event", "exit(0)"},
                      NEW k \in 0..(N - 1), NEW a \in NBody!Axes
               PROVE  /\ 0..(N - 1) \ {k} \subseteq {t.by : t \in objects[k].pos[a]}
                      /\ \A t \in objects[k].pos[a] : t.mine = {} /\ t.its = {}
    BY DEF MovesAtOnce, NBody!MovesAtOnce, NBody!Objects
  <2>1. objects[k].pos[a] = {Fair(l, a) : l \in 0..(N - 1)}
    BY DEF MInv, Computed, Copied, Sum
  <2>2. \A l \in 0..(N - 1) : Fair(l, a).by = l /\ Fair(l, a).mine = {} /\ Fair(l, a).its = {}
    BY DEF Fair
  <2> QED BY <2>1, <2>2
<1> QED BY <1>1, AlwaysComputed, PTL

\* A count that is printed is the count of all forces and all copies, whichever
\* of the calls around n_body() fail.
THEOREM CountsKernelHolds == MSpec => []CountsKernel
<1>1. MInv => CountsKernel
  BY DEF MInv, Computed, CountsKernel, NBody!CountsKernel, NBody!Objects, Whole, Forces, Copies, Calls
<1> QED BY <1>1, AlwaysComputed, PTL
=============================================================================
