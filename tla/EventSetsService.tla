-------------------------- MODULE EventSetsService --------------------------
(***************************************************************************)
(* EventSets as a CountingService, for an application that takes no        *)
(* liberty. What an EventSet has counted so far is in the shared context   *)
(* while it runs and in sw_stop when it does not; whether it is bound, the *)
(* native events, their positions and what is open do not show.            *)
(***************************************************************************)
EXTENDS EventSets

Shows == [events : Seq(Codes), dom : Domains, running : BOOLEAN, n : Nat,
          held : Seq(SUBSET Counts)]

ASSUME ServiceAssumption == None \notin Shows

Shown(s) ==
  LET e == sets[s]
  IN  IF e = None THEN None
      ELSE [events  |-> [i \in DOMAIN e.evs |-> e.evs[i].code],
            dom     |-> e.ctl.dom,
            running |-> Has(s, "RUNNING"),
            n       |-> IF Has(s, "RUNNING") THEN thr[e.master].ctx.n ELSE 0,
            held    |-> IF Has(s, "RUNNING") THEN <<>> ELSE Stopped(e)]

Service == INSTANCE CountingService WITH
  Sets <- Slots, Events <- Codes, Parts <- [x \in Codes |-> Needs(x)], Thread <- Caller,
  svc <- [s \in Slots |-> Shown(s)], out <- ret

\* What PAPI_read, PAPI_stop and PAPI_accum give for an EventSet are the
\* readings of its own events over its own time, in its own domain, although
\* all EventSets of the thread share one context and any of them may have been
\* the last to open it; a call that fails changes no EventSet.
ServesCounts == Service!Spec
=============================================================================
