-------------------------- MODULE CountingService ---------------------------
(***************************************************************************)
(* What PAPI's low-level interface promises the application that measures  *)
(* with it, said without counters, positions or contexts: every EventSet   *)
(* has its own events and its own readings, at most one of them runs, and  *)
(* no call on one EventSet shows in what another one gives.                *)
(*                                                                         *)
(* A reading of an event is the set of what was counted for it, one count  *)
(* [nat, dom, tid, n] for each of its parts; a zero reading is empty. Any  *)
(* call may be refused, and then it has no effect.                         *)
(***************************************************************************)
EXTENDS Integers, Sequences

CONSTANTS Sets, Events, Parts, Domains, DefaultDomain, Thread, None

VARIABLES
  svc,    \* for every handle None or an EventSet
  out     \* what the last call gave back

New == [events |-> <<>>, dom |-> DefaultDomain, running |-> FALSE, n |-> 0, held |-> <<>>]

Live == {s \in Sets : svc[s] # None}

Zero(k) == [i \in 1..k |-> {}]
Reading(e, dom, n) ==
  IF n = 0 THEN {} ELSE {[nat |-> m, dom |-> dom, tid |-> Thread, n |-> n] : m \in Parts[e]}
Readings(e) ==
  IF e.running THEN [i \in DOMAIN e.events |-> Reading(e.events[i], e.dom, e.n)] ELSE e.held

Gives(s, vals) == out' = [code |-> "OK", set |-> s, vals |-> vals]
Done == out' = [code |-> "OK", set |-> None, vals |-> <<>>]
Becomes(s, e) == svc' = [svc EXCEPT ![s] = e]

Init ==
  /\ svc = [s \in Sets |-> None]
  /\ out = [code |-> "OK", set |-> None, vals |-> <<>>]

Create == \E s \in Sets : svc[s] = None /\ Becomes(s, New) /\ Done

\* An event is added to the end, with a zero reading.
Add(s, c) ==
  /\ ~svc[s].running
  /\ \A i \in DOMAIN svc[s].events : svc[s].events[i] # c
  /\ Becomes(s, [svc[s] EXCEPT !.events = Append(@, c), !.held = Append(@, {})])
  /\ Done

Choose(s, d) ==
  /\ ~svc[s].running /\ svc[s].events = <<>>
  /\ Becomes(s, [svc[s] EXCEPT !.dom = d]) /\ Done

Cleanup(s) == ~svc[s].running /\ Becomes(s, New) /\ Done
Destroy(s) == ~svc[s].running /\ svc[s].events = <<>> /\ Becomes(s, None) /\ Done

Start(s) ==
  /\ \A r \in Live : ~svc[r].running
  /\ svc[s].events # <<>>
  /\ Becomes(s, [svc[s] EXCEPT !.running = TRUE, !.n = 0, !.held = <<>>])
  /\ Done

Stop(s) ==
  /\ svc[s].running
  /\ Becomes(s, [svc[s] EXCEPT !.running = FALSE, !.n = 0, !.held = Readings(svc[s])])
  /\ Gives(s, Readings(svc[s]))

Read(s) == Gives(s, Readings(svc[s])) /\ UNCHANGED svc

Cleared(e) == [e EXCEPT !.n = 0, !.held = Zero(Len(@))]
Reset(s) == Becomes(s, Cleared(svc[s])) /\ Done
Accum(s) == Becomes(s, Cleared(svc[s])) /\ Gives(s, Readings(svc[s]))

Refused == UNCHANGED svc /\ out'.set = None

Count ==
  /\ \E s \in Live : svc[s].running
  /\ svc' = [s \in Sets |->
               IF s \in Live /\ svc[s].running THEN [svc[s] EXCEPT !.n = @ + 1] ELSE svc[s]]
  /\ UNCHANGED out

Next ==
  \/ Create \/ Refused \/ Count
  \/ \E s \in Live :
       \/ \E c \in Events : Add(s, c)
       \/ \E d \in Domains : Choose(s, d)
       \/ Cleanup(s) \/ Destroy(s) \/ Start(s) \/ Stop(s) \/ Read(s) \/ Reset(s) \/ Accum(s)

Spec == Init /\ [][Next]_<<svc, out>>
=============================================================================
