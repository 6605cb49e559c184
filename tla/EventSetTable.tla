---------------------------- MODULE EventSetTable ----------------------------
(***************************************************************************)
(* The table of EventSets shared by all threads (DynamicArray_t, papi_     *)
(* internal.c and papi_internal.h). Slots are taken and given back under   *)
(* INTERNAL_LOCK; the calls that look an EventSet up by its handle, and    *)
(* the walk at the shutdown of a thread, read the table without it.        *)
(*                                                                         *)
(* An unlocked reader loads the pointer to the array and then an element.  *)
(* If another thread has had the array moved by realloc in between, it     *)
(* reads freed memory; nothing is promised of the process from then on     *)
(* (wild), and it is followed no further. What an EventSetInfo_t holds     *)
(* besides its index and its master is left to EventSets.                  *)
(***************************************************************************)
EXTENDS ThreadList, Sequences

CONSTANTS
  Blocks,      \* bound: the addresses malloc gives for an EventSetInfo_t
  InitSlots,   \* PAPI_INIT_SLOTS
  MaxSlots     \* bound: how far the table grows

Unset == -1
EventSetInfo == [master : Infos \cup {None}, index : Nat \cup {Unset}]

ASSUME EventSetTableAssumption ==
  /\ None \notin Blocks \cup EventSetInfo
  /\ InitSlots \in Nat \ {0} /\ MaxSlots \in Nat

VARIABLES
  map,             \* global_eventset_map: dataSlotArray, totalSlots, availSlots, fullSlots
  array,           \* the number of the array that is allocated
  esi,             \* the EventSetInfo_t at each address, None where there is none
  INTERNAL_LOCK,
  op,              \* where each thread is in these operations
  handles,         \* the handles each thread has
  wild

tablevars == <<map, array, esi, INTERNAL_LOCK, op, handles, wild>>

\* dataSlotArray is which array it points to and what is there from slot 0 on.
NewMap(n) == [array |-> 0, slots |-> [i \in 1..n |-> None], total |-> n, avail |-> n, full |-> 0]

Slot(i) == map.slots[i + 1]

Resting == [pc |-> "idle", master |-> None, block |-> None, i |-> 0, turn |-> 0, seen |-> 0]

TableInit ==
  /\ map = NewMap(0) /\ array = 0 /\ esi = [e \in Blocks |-> None]
  /\ INTERNAL_LOCK = None /\ op = [t \in Threads |-> Resting]
  /\ handles = [t \in Threads |-> {}] /\ wild = FALSE

On(t, pc) == op[t].pc = pc
Step(t, pc) == op' = [op EXCEPT ![t].pc = pc]

\* A slip in Take: the lock is not waited for.
TakeAnyway(t, pc, then) ==
  On(t, pc) /\ INTERNAL_LOCK' = t /\ Step(t, then) /\ UNCHANGED <<map, array, esi, handles, wild>>
Take(t, pc, then) ==
  /\ On(t, pc) /\ INTERNAL_LOCK = None
  /\ INTERNAL_LOCK' = t /\ Step(t, then) /\ UNCHANGED <<map, array, esi, handles, wild>>

-----------------------------------------------------------------------------
(* _papi_hwi_create_eventset: create_EventSet, then add_EventSet, which    *)
(* doubles the table when no slot is available.                            *)
NewEventSet(t, m) ==
  /\ UNCHANGED <<map, array, INTERNAL_LOCK, handles, wild>>
  /\ \/ \E e \in Blocks :
          /\ esi[e] = None
          /\ esi' = [esi EXCEPT ![e] = [master |-> None, index |-> Unset]]
          /\ op' = [op EXCEPT ![t] = [Resting EXCEPT !.pc = "add", !.master = m, !.block = e]]
     \/ op' = [op EXCEPT ![t] = [Resting EXCEPT !.pc = "done"]] /\ UNCHANGED esi

\* A call that finds no memory gives back what it has.
GiveUp(t) ==
  /\ esi' = [esi EXCEPT ![op[t].block] = None] /\ INTERNAL_LOCK' = None
  /\ op' = [op EXCEPT ![t].pc = "done", ![t].block = None]
  /\ UNCHANGED <<map, array, handles, wild>>

Free(m) == {i \in 0..(m.total - 1) : m.slots[i + 1] = None}

FindSlot(t) ==
  /\ On(t, "added") /\ map.avail # 0
  /\ \E i \in Free(map) :
       /\ \A j \in Free(map) : i <= j
       /\ op' = [op EXCEPT ![t].pc = "fill", ![t].i = i]
  /\ UNCHANGED <<map, array, esi, INTERNAL_LOCK, handles, wild>>

Fill(t) ==
  LET i == op[t].i
  IN  /\ On(t, "fill")
      /\ esi' = [esi EXCEPT ![op[t].block] = [master |-> op[t].master, index |-> i]]
      /\ map' = [map EXCEPT !.slots[i + 1] = op[t].block, !.full = @ + 1, !.avail = @ - 1]
      /\ handles' = [handles EXCEPT ![t] = @ \cup {i}]
      /\ INTERNAL_LOCK' = None /\ Step(t, "done") /\ UNCHANGED <<array, wild>>

\* expand_dynamic_array, store by store. Realloc frees the old array unless it
\* can grow where it is.
Realloc(t) ==
  /\ On(t, "added") /\ map.avail = 0
  /\ \/ /\ 2 * map.total <= MaxSlots /\ array' \in {array, array + 1} /\ Step(t, "grown")
        /\ UNCHANGED <<map, esi, INTERNAL_LOCK, handles, wild>>
     \/ GiveUp(t)

SetArray(t) ==
  /\ On(t, "grown") /\ Step(t, "cleared")
  /\ map' = [map EXCEPT !.array = array, !.slots = @ \o [i \in 1..map.total |-> None]]
  /\ UNCHANGED <<array, esi, INTERNAL_LOCK, handles, wild>>

\* A slip in Doubled: the slots in use are counted as available.
DoubledAll == [map EXCEPT !.total = 2 * @, !.avail = 2 * map.total]
Doubled == [map EXCEPT !.total = 2 * @, !.avail = 2 * map.total - map.full]

SetTotal(t) ==
  /\ On(t, "cleared") /\ map' = Doubled /\ Step(t, "added")
  /\ UNCHANGED <<array, esi, INTERNAL_LOCK, handles, wild>>

-----------------------------------------------------------------------------
(* _papi_hwi_lookup_EventSet, for a handle the application has.            *)
LookupEventSet(t, h) ==
  /\ op' = [op EXCEPT ![t] = [Resting EXCEPT !.pc = "load", !.i = h, !.seen = map.array]]
  /\ UNCHANGED <<map, array, esi, INTERNAL_LOCK, handles, wild>>

Intact(t) == op[t].seen = array

\* The array read from has been freed.
Stray(t) ==
  /\ op[t].pc \in {"load", "look"} /\ ~Intact(t)
  /\ wild' = TRUE /\ UNCHANGED <<map, array, esi, INTERNAL_LOCK, op, handles>>

Load(t) ==
  /\ On(t, "load") /\ Intact(t)
  /\ op' = [op EXCEPT ![t].pc = "done", ![t].block = Slot(op[t].i)]
  /\ UNCHANGED <<map, array, esi, INTERNAL_LOCK, handles, wild>>

\* PAPI_attach makes another ThreadInfo the master.
Attached(t, e, m) ==
  /\ esi' = [esi EXCEPT ![e].master = m]
  /\ UNCHANGED <<map, array, INTERNAL_LOCK, op, handles, wild>>

(* _papi_hwi_remove_EventSet frees first and clears the slot under the lock*)
(* afterwards. The memory may be another EventSet by then.                 *)
FreeEventSet(t, e, then) ==
  /\ esi' = [esi EXCEPT ![e] = None]
  /\ op' = [op EXCEPT ![t].pc = then, ![t].i = esi[e].index]
  /\ UNCHANGED <<map, array, INTERNAL_LOCK, handles, wild>>

Emptied(i) == [map EXCEPT !.slots[i + 1] = None, !.avail = @ + 1, !.full = @ - 1]

Clear(t, pc, then) ==
  /\ On(t, pc)
  /\ map' = Emptied(op[t].i) /\ handles' = [handles EXCEPT ![t] = @ \ {op[t].i}]
  /\ INTERNAL_LOCK' = None
  /\ op' = [op EXCEPT ![t].pc = then, ![t].turn = @ + 1] /\ UNCHANGED <<array, esi, wild>>

-----------------------------------------------------------------------------
(* _papi_hwi_thread_free_eventsets walks the table without a lock and      *)
(* removes what belongs to the master m.                                   *)
WalkTable(t, m) ==
  /\ op' = [op EXCEPT ![t] = [Resting EXCEPT !.pc = "walk", !.master = m]]
  /\ UNCHANGED <<map, array, esi, INTERNAL_LOCK, handles, wild>>

\* A slip in WalkEnd: as far as there are EventSets.
WalkEndFull == map.full
WalkEnd == map.total

Visit(t) ==
  /\ On(t, "walk")
  /\ op' = [op EXCEPT ![t].pc = IF op[t].turn < WalkEnd THEN "look" ELSE "done", ![t].seen = map.array]
  /\ UNCHANGED <<map, array, esi, INTERNAL_LOCK, handles, wild>>

\* What was freed since has no master any more that is anybody's.
Mine(t, e) == e # None /\ esi[e] # None /\ esi[e].master = op[t].master /\ op[t].master # None

Look(t) ==
  /\ On(t, "look") /\ Intact(t)
  /\ IF Mine(t, Slot(op[t].turn)) THEN FreeEventSet(t, Slot(op[t].turn), "swept")
     ELSE /\ op' = [op EXCEPT ![t].pc = "walk", ![t].turn = @ + 1]
          /\ UNCHANGED <<map, array, esi, INTERNAL_LOCK, handles, wild>>

-----------------------------------------------------------------------------
(* PAPI_shutdown frees what belongs to m and then the table, without a     *)
(* lock: no other thread uses PAPI by then. PAPI_library_init makes a new  *)
(* table.                                                                  *)
DropTable(m) ==
  /\ esi' = [e \in Blocks |-> IF \E i \in 0..(map.total - 1) : Slot(i) = e /\ esi[e].master = m
                              THEN None ELSE esi[e]]
  /\ map' = NewMap(0) /\ array' = 0 /\ handles' = [t \in Threads |-> {}]
  /\ UNCHANGED <<INTERNAL_LOCK, op, wild>>

MakeTable ==
  /\ map' = NewMap(InitSlots) /\ array' = 0
  /\ UNCHANGED <<esi, INTERNAL_LOCK, op, handles, wild>>

-----------------------------------------------------------------------------
TableWait(t) ==
  Take(t, "add", "added") \/ Take(t, "freed", "clear") \/ Take(t, "swept", "sweep")

TableGo(t) ==
  \/ FindSlot(t) \/ Fill(t) \/ Realloc(t) \/ SetArray(t) \/ SetTotal(t)
  \/ Load(t) \/ Stray(t) \/ Clear(t, "clear", "done")
  \/ Visit(t) \/ Look(t) \/ Clear(t, "sweep", "walk")

-----------------------------------------------------------------------------
(* What is promised.                                                       *)

\* Whenever nobody holds the lock, the two counters agree with the slots, so a
\* thread that finds one available finds an empty one, and the table grows only
\* when it is full.
SlotsCounted ==
  INTERNAL_LOCK = None =>
    /\ Len(map.slots) = map.total /\ map.avail + map.full = map.total
    /\ map.full = Cardinality({i \in 1..map.total : map.slots[i] # None})

\* Until a thread gives a handle back it names an EventSet of its own, in
\* memory that was not freed, whatever the other threads create, destroy and
\* grow meanwhile; no two threads have the same one.
HandlesHold ==
  ~wild =>
    \A t \in Threads : \A h \in handles[t] :
      \/ op[t].pc \in {"freed", "clear", "swept", "sweep"} /\ op[t].i = h
      \/ /\ h < map.total /\ Slot(h) # None
         /\ esi[Slot(h)] # None /\ esi[Slot(h)].index = h
         /\ \A u \in Threads \ {t} : h \notin handles[u]
=============================================================================
