---------------------------- MODULE NativeEvents ----------------------------
(***************************************************************************)
(* The two arrays PAPI keeps in every EventSet, and what adding and        *)
(* removing an event does to them (papi_internal.c).                       *)
(*                                                                         *)
(* EventInfoArray holds what the user added, presets and native events;    *)
(* NativeInfoArray holds the native events that those need, each once, with*)
(* the number of events that own it and its position among the counters.   *)
(* Each event records the positions of its native events: that is where    *)
(* _papi_hwi_read looks for its counts.                                    *)
(*                                                                         *)
(* Both arrays are dense prefixes in the code (PAPI_NULL and ni_event = -1 *)
(* mark the rest), so they are sequences here and a position is an index   *)
(* from 1.                                                                 *)
(***************************************************************************)
EXTENDS Integers, Sequences, FiniteSets

CONSTANTS
  Natives,       \* native event codes
  Presets,       \* preset event codes
  PresetDef,     \* the native events each preset is made of
  NumCntrs,      \* cmp_info.num_cntrs: the events an EventSet may list
  NumMpxCntrs    \* cmp_info.num_mpx_cntrs: the length of both arrays

\* The preset table of the platform: a preset the CPU does not offer has no
\* native events; none lists a native event twice.
ASSUME NativeEventsAssumption ==
  /\ Natives \cap Presets = {}
  /\ PresetDef \in [Presets -> Seq(Natives)]
  /\ \A p \in Presets : \A i, j \in DOMAIN PresetDef[p] :
       PresetDef[p][i] = PresetDef[p][j] => i = j
  /\ NumMpxCntrs \in Nat \ {0} /\ NumCntrs \in 0..NumMpxCntrs

Codes == Natives \cup Presets
Unmapped == -1

NativesOf(c) == IF c \in Natives THEN <<c>> ELSE PresetDef[c]
Needs(c) == {NativesOf(c)[k] : k \in DOMAIN NativesOf(c)}

Positions == 1..NumMpxCntrs

\* EventInfo_t and NativeInfo_t, as they are between two calls: an event has a
\* position for each of its native events.
EventInfo == {ev \in [code : Codes, pos : Seq(Positions)] :
                Len(ev.pos) = Len(NativesOf(ev.code))}
NativeInfo == [nat : Natives, owners : Int, pos : Positions]

\* The j-th smallest number of S.
Nth(S, j) == CHOOSE k \in S : Cardinality({l \in S : l <= k}) = j

Mapped(nats) == {nats[i].nat : i \in DOMAIN nats}

(***************************************************************************)
(* add_native_events: native events already mapped gain an owner, the      *)
(* others are appended in the order the event lists them.                  *)
(***************************************************************************)
Fresh(nats, c) == {k \in DOMAIN NativesOf(c) : NativesOf(c)[k] \notin Mapped(nats)}

NewNatives(nats, c) ==
  [j \in 1..Cardinality(Fresh(nats, c)) |-> NativesOf(c)[Nth(Fresh(nats, c), j)]]

Gain(nats, c) ==
  [i \in DOMAIN nats |->
     IF nats[i].nat \in Needs(c) THEN [nats[i] EXCEPT !.owners = @ + 1] ELSE nats[i]]

AddNatives(nats, c) ==
  LET fresh == NewNatives(nats, c)
  IN  Gain(nats, c) \o
      [k \in DOMAIN fresh |-> [nat |-> fresh[k], owners |-> 1, pos |-> Unmapped]]

\* A slip in Lose: only the first native event gives its owner back.
LoseFirst(nats, c) ==
  [i \in DOMAIN nats |->
     IF nats[i].nat = NativesOf(c)[1] THEN [nats[i] EXCEPT !.owners = @ - 1] ELSE nats[i]]

Lose(nats, c) ==
  [i \in DOMAIN nats |->
     IF nats[i].nat \in Needs(c) THEN [nats[i] EXCEPT !.owners = @ - 1] ELSE nats[i]]

InUse(nats) == {i \in DOMAIN nats : nats[i].owners > 0}

\* A slip in FailClean: NativeCount is not taken back.
FailCleanCounted(nats, c) == Lose(nats, c)

(***************************************************************************)
(* add_native_fail_clean, for every native event of c: take the owner back *)
(* and forget the native event with the last one. Nothing is moved, only   *)
(* NativeCount shrinks: what is forgotten has to be at the end.            *)
(***************************************************************************)
FailClean(nats, c) == SubSeq(Lose(nats, c), 1, Cardinality(InUse(Lose(nats, c))))

(***************************************************************************)
(* remove_native_events: each native event of c loses an owner; the holes  *)
(* are filled, first hole first, with the last native events in use.       *)
(***************************************************************************)
HolesBelow(nats, i) == Cardinality((1..(i - 1)) \ InUse(nats))

Filler(nats, hole) ==
  Nth(InUse(nats), Cardinality(InUse(nats)) - HolesBelow(nats, hole))

Compact(nats) ==
  [i \in 1..Cardinality(InUse(nats)) |->
     nats[IF i \in InUse(nats) THEN i ELSE Filler(nats, i)]]

RemoveNatives(nats, c) == Compact(Lose(nats, c))

(***************************************************************************)
(* _papi_hwi_remap_event_position: every event looks its native events up  *)
(* by name and copies their positions; one that is not found keeps the     *)
(* position it had.                                                        *)
(***************************************************************************)
PosIn(nats, n, old) ==
  IF n \in Mapped(nats) THEN nats[CHOOSE i \in DOMAIN nats : nats[i].nat = n].pos ELSE old

\* A slip in Located: the index in the event's own list for the position.
LocatedByIndex(ev, nats) ==
  [ev EXCEPT !.pos = [k \in DOMAIN NativesOf(ev.code) |-> k]]

Located(ev, nats) ==
  [ev EXCEPT !.pos = [k \in DOMAIN NativesOf(ev.code) |->
                        PosIn(nats, NativesOf(ev.code)[k], ev.pos[k])]]

Remap(evs, nats) == [i \in DOMAIN evs |-> Located(evs[i], nats)]

\* A new event before add_native_events fills in what it finds.
Blank(c) == [code |-> c, pos |-> [k \in DOMAIN NativesOf(c) |-> Unmapped]]

\* _papi_hwi_lookup_EventCodeIndex
IndexOf(evs, c) == CHOOSE i \in DOMAIN evs : evs[i].code = c
Listed(evs) == {evs[i].code : i \in DOMAIN evs}

\* The compaction of EventInfoArray in _papi_hwi_remove_event.
Without(evs, i) ==
  [k \in 1..(Len(evs) - 1) |-> IF k < i THEN evs[k] ELSE evs[k + 1]]

\* How many of the listed events need native event n.
Users(evs, n) == Cardinality({i \in DOMAIN evs : n \in Needs(evs[i].code)})
=============================================================================
