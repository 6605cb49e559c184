----------------------------- MODULE PerfEvents -----------------------------
(***************************************************************************)
(* The perf_events substrate as the EventSet layer sees it (perf_events.c):*)
(* a context of open kernel counters, which all EventSets of a ThreadInfo  *)
(* share, and a control state of its own for each EventSet.                *)
(*                                                                         *)
(* The counters of a context form one group: only the leader is enabled,   *)
(* disabled and (all of them) reset, so they always have counted the same  *)
(* stretch of time. A count is kept as what was counted, [nat, dom, tid],  *)
(* and for how long, n; a count of 0 says nothing of its origin.           *)
(***************************************************************************)
EXTENDS NativeEvents

CONSTANTS
  HwCounters,   \* counters the kernel can schedule in one group
  OpenMayFail   \* may sys_perf_event_open fail for a group that fits?

ASSUME PerfEventsAssumption ==
  /\ HwCounters \in Nat
  /\ OpenMayFail \in BOOLEAN

ZeroCount == [n |-> 0]
CountOf(fd, n) ==
  IF n = 0 THEN ZeroCount ELSE [nat |-> fd.nat, dom |-> fd.dom, tid |-> fd.tid, n |-> n]

\* context_t: the open file descriptors, the state of the group leader and
\* the time counted since the last reset.
Closed == [fds |-> <<>>, on |-> FALSE, n |-> 0]

\* control_state_t: the configured events, the counting domain, the thread to
\* count (tid 0 in the code is the caller) and the counts last read.
Caller == "caller"
NewControlState(dom) ==
  [ev |-> <<>>, dom |-> dom, tid |-> Caller, counts |-> [i \in 1..NumMpxCntrs |-> ZeroCount]]

(***************************************************************************)
(* open_pe_evts: all the counters of the control state are opened, or none *)
(* stays open. Can opens it: the kernel's verdict on a group.              *)
(***************************************************************************)
Verdicts(evs) ==
  IF Len(evs) > HwCounters THEN {FALSE} ELSE IF OpenMayFail THEN BOOLEAN ELSE {TRUE}

Opened(ctl) ==
  [fds |-> [i \in DOMAIN ctl.ev |-> [nat |-> ctl.ev[i], dom |-> ctl.dom, tid |-> ctl.tid]],
   on |-> FALSE, n |-> 0]

(***************************************************************************)
(* _papi_pe_update_control_state with the EventSet's native events: close  *)
(* the context whoever opened it; for an empty list nothing else happens;  *)
(* otherwise give every native event its index as position and open the    *)
(* new group. ok is the verdict when it comes to that.                     *)
(***************************************************************************)
Configured(ctl, nats) ==
  IF nats = <<>> THEN ctl ELSE [ctl EXCEPT !.ev = [i \in DOMAIN nats |-> nats[i].nat]]

Positioned(nats) == [i \in DOMAIN nats |-> [nats[i] EXCEPT !.pos = i]]

Updated(ctl, nats, ok) ==
  IF nats # <<>> /\ ok THEN Opened(Configured(ctl, nats)) ELSE Closed

\* The same call with native = NULL: the events configured last are reopened.
Reopened(ctl, ok) == IF ctl.ev # <<>> /\ ok THEN Opened(ctl) ELSE Closed

(***************************************************************************)
(* _papi_pe_start resets the counters and enables the leader; the enabling *)
(* ioctl fails on a context with nothing open. _papi_pe_stop disables it.  *)
(***************************************************************************)
\* A slip in Enabled: the counters go on from where they were.
EnabledOn(ctx) == [ctx EXCEPT !.on = TRUE]

CanEnable(ctx) == ctx.fds # <<>>
Enabled(ctx)   == [ctx EXCEPT !.on = TRUE, !.n = 0]
Disabled(ctx)  == [ctx EXCEPT !.on = FALSE]
ResetCtx(ctx)  == [ctx EXCEPT !.n = 0]

(***************************************************************************)
(* _papi_pe_read looks for the i-th configured event among the counters of *)
(* whatever group is open in the context and fails at the first index that *)
(* the group does not have; the counts found before it are kept.           *)
(***************************************************************************)
ReadFails(ctx, ctl) == Len(ctl.ev) > Len(ctx.fds)

Fetched(ctx, ctl) ==
  [ctl EXCEPT !.counts =
     [i \in DOMAIN @ |-> IF i \in DOMAIN ctl.ev \cap DOMAIN ctx.fds
                           THEN CountOf(ctx.fds[i], ctx.n) ELSE @[i]]]

\* _papi_hwi_read: what an event reports, from the counts at its positions.
ValueOf(ev, counts) ==
  {counts[ev.pos[k]] : k \in DOMAIN ev.pos} \ {ZeroCount}

ValuesOf(evs, counts) == [i \in DOMAIN evs |-> ValueOf(evs[i], counts)]
=============================================================================
