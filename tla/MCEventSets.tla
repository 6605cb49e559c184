---------------------------- MODULE MCEventSets -----------------------------
(***************************************************************************)
(* Instances of EventSets for TLC: up to three native events, presets made *)
(* of two of them or, where it is not available, of none, and where        *)
(* attaching is allowed one thread to attach to.                           *)
(***************************************************************************)
EXTENDS EventSets, TLC

CONSTANTS a, b, c, p, q, main, worker, user, all

MCPresetDef == p :> <<a, b>>
MCPresetDef0 == [x \in {} |-> <<>>]
MCPresetDef3 == p :> <<c, a>> @@ q :> <<>>

\* bound: an EventSet is followed until it is stopped or read with counts
Unread == \A s \in Alive :
  /\ \A i \in DOMAIN sets[s].stop : sets[s].stop[i] = {}
  /\ \A i \in DOMAIN sets[s].ctl.counts : sets[s].ctl.counts[i] = ZeroCount
=============================================================================
