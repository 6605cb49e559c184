----------------------------- MODULE EventSets ------------------------------
(***************************************************************************)
(* The EventSets of PAPI's low-level interface (papi.c, papi_internal.c)   *)
(* over the perf_events substrate: what each API call of one application   *)
(* thread does to the EventSet it names and to the ThreadInfo whose        *)
(* counter context that EventSet shares with others.                       *)
(*                                                                         *)
(* Self is the calling thread. Every other element of Threads is a thread  *)
(* an EventSet can be attached to; PAPI makes a ThreadInfo for it with a   *)
(* context of its own. A call is one step: PAPI takes no lock around it and*)
(* the contexts belong to the calling thread. The EventSet table shared by *)
(* several threads is a matter of its own, EventSetTable.                  *)
(*                                                                         *)
(* Liberties names the orders of calls the application allows itself       *)
(* beyond a plain one; the library accepts all of them:                    *)
(*   "remove"  PAPI_remove_event                                           *)
(*   "domain"  a new counting domain for an EventSet that has events       *)
(*   "overlap" changing an EventSet while another one of the ThreadInfo    *)
(*             is running                                                  *)
(*   "attach"  PAPI_attach and PAPI_detach                                 *)
(***************************************************************************)
EXTENDS PerfEvents

CONSTANTS Threads, Self, Domains, DefaultDomain, Liberties,
          None,      \* NULL
          MaxSets,   \* bound: EventSets alive at a time
          MaxTicks   \* bound: time a counter runs for

Slots == 0..(MaxSets - 1)
Flags == {"STOPPED", "RUNNING", "ATTACHED"}

\* PAPI_OK and the error codes these calls return.
ReturnCodes == {"OK", "EINVAL", "ENOEVNT", "ECNFLCT", "EISRUN", "ENOTRUN",
                "ENOCMP", "ESBSTR", "EBUG", "EPERM"}

(* EventSetInfo_t, with bound for CmpIdx >= 0 and stop for sw_stop, the     *)
(* counts PAPI_read gives for a stopped EventSet; and ThreadInfo_t.         *)
Counts == {ZeroCount} \cup
          [nat : Natives, dom : Domains, tid : Threads \cup {Caller}, n : Nat]

ControlState == [ev : Seq(Natives), dom : Domains, tid : Threads \cup {Caller},
                 counts : [1..NumMpxCntrs -> Counts]]

EventSetInfo == [state : SUBSET Flags, bound : BOOLEAN, master : Threads,
                 evs : Seq(EventInfo), nats : Seq(NativeInfo), ctl : ControlState,
                 stop : [1..NumMpxCntrs -> SUBSET Counts]]

Context == [fds : Seq([nat : Natives, dom : Domains, tid : Threads \cup {Caller}]),
            on : BOOLEAN, n : Nat]

ThreadInfo == [ctx : Context, from : Slots \cup {None}, running : Slots \cup {None}]


ASSUME EventSetsAssumption ==
  /\ Self \in Threads /\ Caller \notin Threads /\ None \notin Slots
  /\ DefaultDomain \in Domains
  /\ Liberties \subseteq {"remove", "domain", "overlap", "attach"}
  /\ MaxSets \in Nat \ {0} /\ MaxTicks \in Nat
  /\ None \notin EventSetInfo

VARIABLES
  sets,     \* global_eventset_map: an EventSetInfo_t or None in every slot
  thr,      \* the ThreadInfo_t: its context, from_esi and running_eventset
  ret       \* what the last call gave back

vars == <<sets, thr, ret>>

-----------------------------------------------------------------------------
(* The state of an EventSet is its set of flag bits.                       *)
Xor(flags, f) == IF f \in flags THEN flags \ {f} ELSE flags \cup {f}

Empty == [state |-> {"STOPPED"}, bound |-> FALSE, master |-> Self,
          evs |-> <<>>, nats |-> <<>>, ctl |-> NewControlState(DefaultDomain),
          stop |-> [i \in 1..NumMpxCntrs |-> {}]]

Alive == {s \in Slots : sets[s] # None}
Has(s, f) == f \in sets[s].state

\* A slip in Touch: the context is used, but from_esi is not set.
TouchContext(t, s, ctx) == [thr EXCEPT ![t].ctx = ctx]

(* Every call that touches the hardware goes through _papi_hwi_get_context,*)
(* which makes the EventSet the last one to use the context, from_esi.     *)
Touch(t, s, ctx) == [thr EXCEPT ![t].ctx = ctx, ![t].from = s]

Answer(s, vals) == ret' = [code |-> "OK", set |-> s, vals |-> vals]
Reply(code) == ret' = [code |-> code, set |-> None, vals |-> <<>>]
Refuse(code) == Reply(code) /\ UNCHANGED <<sets, thr>>

(* What the application keeps to unless it takes the liberty.              *)
Quiet(s) == "overlap" \in Liberties \/ thr[sets[s].master].running \in {None, s}

Init ==
  /\ sets = [s \in Slots |-> None]
  /\ thr = [t \in Threads |-> [ctx |-> Closed, from |-> None, running |-> None]]
  /\ ret = [code |-> "OK", set |-> None, vals |-> <<>>]

-----------------------------------------------------------------------------
(* PAPI_create_eventset takes the lowest free slot.                        *)
Create ==
  \E s \in Slots :
    /\ sets[s] = None /\ \A r \in 0..(s - 1) : sets[r] # None
    /\ sets' = [sets EXCEPT ![s] = Empty]
    /\ Reply("OK") /\ UNCHANGED thr

(* _papi_hwi_assign_eventset: fresh arrays and control state; it also sets *)
(* the state to PAPI_STOPPED, whatever flags were left in it.              *)
Bind(e) == [Empty EXCEPT !.bound = TRUE, !.master = e.master]

Assign(s) ==
  IF sets[s].bound THEN Refuse("EINVAL")
  ELSE /\ sets' = [sets EXCEPT ![s] = Bind(@)]
       /\ Reply("OK") /\ UNCHANGED thr

-----------------------------------------------------------------------------
(* PAPI_add_event. The EventSet is bound first and stays bound when the    *)
(* event is then refused. New native events rebuild the whole group; if    *)
(* that fails the old group is put back, which may fail in its turn.       *)

\* A slip in Joined: the events are not looked up again.
JoinedUnmapped(e, c, nats) == [e EXCEPT !.nats = nats, !.evs = Append(@, Blank(c))]

Joined(e, c, nats) ==
  [e EXCEPT !.nats = nats, !.evs = Remap(Append(@, Blank(c)), nats)]

\* Without a rebuilding the new event alone is looked up.
Sharing(e, c, nats) ==
  [e EXCEPT !.nats = nats, !.evs = Append(@, Located(Blank(c), nats))]

AddRefusal(e, c) ==
  IF c \in Listed(e.evs) \/ Len(e.evs) >= NumCntrs THEN "ECNFLCT"
  ELSE IF NativesOf(c) = <<>> THEN "ENOEVNT"
  ELSE IF Len(AddNatives(e.nats, c)) > NumMpxCntrs THEN "ECNFLCT"
  ELSE "OK"

AddShared(s, e, c) ==
  /\ NewNatives(e.nats, c) = <<>>
  /\ sets' = [sets EXCEPT ![s] = Sharing(e, c, AddNatives(e.nats, c))]
  /\ Reply("OK") /\ UNCHANGED thr

AddNew(s, e, c) ==
  LET nats == AddNatives(e.nats, c)
      ctl  == Configured(e.ctl, nats)
      old  == FailClean(Positioned(nats), c)
  IN  /\ NewNatives(e.nats, c) # <<>>
      /\ \E ok \in Verdicts(ctl.ev) :
           \/ /\ ok
              /\ sets' = [sets EXCEPT ![s] =
                            [Joined(e, c, Positioned(nats)) EXCEPT !.ctl = ctl]]
              /\ thr' = Touch(e.master, s, Opened(ctl))
              /\ Reply("OK")
           \/ /\ ~ok
              /\ \E again \in Verdicts(Configured(ctl, old).ev) :
                   /\ sets' = [sets EXCEPT ![s] =
                                 [e EXCEPT !.ctl = Configured(ctl, old),
                                           !.nats = Positioned(old)]]
                   /\ thr' = Touch(e.master, s, Updated(ctl, old, again))
              /\ Reply("ECNFLCT")

AddEvent(s, c) ==
  LET e == IF sets[s].bound THEN sets[s] ELSE Bind(sets[s])
      refusal == AddRefusal(e, c)
  IN  /\ Quiet(s)
      /\ IF Has(s, "RUNNING") THEN Refuse("EISRUN")
         ELSE IF refusal # "OK"
         THEN /\ sets' = [sets EXCEPT ![s] = e]
              /\ Reply(refusal) /\ UNCHANGED thr
         ELSE AddShared(s, e, c) \/ AddNew(s, e, c)

-----------------------------------------------------------------------------
(* PAPI_remove_event. When a native event loses its last owner the group   *)
(* is rebuilt; if that fails the event stays listed without its native     *)
(* events. The positions of the events that stay are not looked up again.  *)

RemoveEvent(s, c) ==
  LET e == sets[s]
      i == IndexOf(e.evs, c)
      nats == RemoveNatives(e.nats, c)
      ctl == Configured(e.ctl, nats)
      shrunk == Len(nats) < Len(e.nats)
  IN  /\ Quiet(s) /\ "remove" \in Liberties
      /\ IF ~Has(s, "STOPPED") THEN Refuse("EISRUN")
         ELSE IF c \notin Listed(e.evs) THEN Refuse("EINVAL")
         ELSE \/ /\ ~shrunk
                 /\ sets' = [sets EXCEPT ![s] = [e EXCEPT !.evs = Without(@, i), !.nats = nats]]
                 /\ Reply("OK") /\ UNCHANGED thr
              \/ /\ shrunk
                 /\ \E ok \in (IF nats = <<>> THEN {TRUE} ELSE Verdicts(ctl.ev)) :
                      /\ sets' = [sets EXCEPT ![s] =
                                    [e EXCEPT !.evs = IF ok THEN Without(@, i) ELSE @,
                                              !.nats = Positioned(nats), !.ctl = ctl]]
                      /\ thr' = Touch(e.master, s, Updated(e.ctl, nats, ok))
                      /\ IF ok THEN Reply("OK") ELSE Reply("ECNFLCT")

-----------------------------------------------------------------------------
(* PAPI_cleanup_eventset empties and unbinds the EventSet and closes the   *)
(* context; only the flags survive. An unbound one is left alone.          *)
Cleanup(s) ==
  /\ Quiet(s)
  /\ IF ~sets[s].bound THEN Refuse("OK")
     ELSE IF Has(s, "RUNNING") THEN Refuse("EISRUN")
     ELSE /\ sets' = [sets EXCEPT ![s] = [Empty EXCEPT !.state = sets[s].state,
                                                       !.master = sets[s].master]]
          /\ thr' = Touch(sets[s].master, s, Closed)
          /\ Reply("OK")

(* PAPI_destroy_eventset. The memory of the EventSetInfo_t is what the     *)
(* next one in the slot gets: from_esi keeps pointing there.               *)
Destroy(s) ==
  IF ~Has(s, "STOPPED") THEN Refuse("EISRUN")
  ELSE IF sets[s].evs # <<>> THEN Refuse("EINVAL")
  ELSE /\ sets' = [sets EXCEPT ![s] = None]
       /\ Reply("OK") /\ UNCHANGED thr

-----------------------------------------------------------------------------
(* PAPI_start. If another EventSet used the context last, the group of this*)
(* one is opened again first. An attached EventSet does not become the     *)
(* running one of its ThreadInfo. A failed start undoes the flags.         *)

Marked(e)   == [e EXCEPT !.state = Xor(@, "STOPPED") \cup {"RUNNING"}]

\* A slip in Unmarked: the second flag is forgotten.
Unflagged(e) == [e EXCEPT !.state = Xor(@, "RUNNING")]
Unmarked(e) == [e EXCEPT !.state = Xor(@, "RUNNING") \cup {"STOPPED"}]

\* The running_eventset of the ThreadInfo afterwards; a slip in it: the test
\* for PAPI_ATTACHED the wrong way round.
HolderSwapped(s, e) == IF "ATTACHED" \in e.state THEN s ELSE thr[e.master].running
Holder(s, e) == IF "ATTACHED" \in e.state THEN thr[e.master].running ELSE s

(* The start call itself, once the context is the EventSet's own.          *)
Launch(s, e, ctx) ==
  LET t == e.master
  IN  \/ /\ CanEnable(ctx)
         /\ sets' = [sets EXCEPT ![s] = Marked(e)]
         /\ thr' = [Touch(t, s, Enabled(ctx)) EXCEPT ![t].running = Holder(s, e)]
         /\ Reply("OK")
      \/ /\ ~CanEnable(ctx)
         /\ sets' = [sets EXCEPT ![s] = Unmarked(Marked(e))]
         /\ thr' = Touch(t, s, Disabled(ctx))
         /\ Reply("EBUG")

Start(s) ==
  LET e == sets[s]
      t == e.master
      ctl == Configured(e.ctl, e.nats)
      fresh == [e EXCEPT !.ctl = ctl, !.nats = Positioned(@),
                         !.evs = Remap(@, Positioned(e.nats))]
      moved == [e EXCEPT !.ctl = ctl, !.nats = Positioned(@)]
  IN  IF ~e.bound THEN Refuse("ENOCMP")
      ELSE IF thr[t].running # None THEN Refuse("EISRUN")
      ELSE IF e.evs = <<>> THEN Refuse("EINVAL")
      ELSE \/ thr[t].from = s /\ Launch(s, e, thr[t].ctx)
           \/ /\ thr[t].from # s
              /\ \E ok \in (IF e.nats = <<>> THEN {TRUE} ELSE Verdicts(ctl.ev)) :
                   \/ ok /\ Launch(s, fresh, Updated(e.ctl, e.nats, TRUE))
                   \/ /\ ~ok
                      /\ sets' = [sets EXCEPT ![s] = moved]
                      /\ thr' = Touch(t, s, Closed)
                      /\ Reply("ECNFLCT")

-----------------------------------------------------------------------------
(* PAPI_stop reads before it stops; if the reading fails the EventSet goes *)
(* on running.                                                             *)
Stop(s) ==
  LET e == sets[s]
      t == e.master
      ctl == Fetched(thr[t].ctx, e.ctl)
      vals == ValuesOf(e.evs, ctl.counts)
      read == [e EXCEPT !.ctl = ctl,
                        !.stop = [i \in DOMAIN @ |-> IF i \in DOMAIN vals THEN vals[i] ELSE @[i]]]
  IN  IF ~e.bound THEN Refuse("ENOCMP")
      ELSE IF ~Has(s, "RUNNING") THEN Refuse("ENOTRUN")
      ELSE \/ /\ ReadFails(thr[t].ctx, e.ctl)
              /\ sets' = [sets EXCEPT ![s].ctl = ctl]
              /\ thr' = Touch(t, s, thr[t].ctx)
              /\ Reply("ESBSTR")
           \/ /\ ~ReadFails(thr[t].ctx, e.ctl)
              /\ sets' = [sets EXCEPT ![s] = Unmarked(read)]
              /\ thr' = [Touch(t, s, Disabled(thr[t].ctx)) EXCEPT ![t].running =
                           IF Has(s, "ATTACHED") THEN @ ELSE None]
              /\ Answer(s, vals)

(* PAPI_read: the hardware of a running EventSet, sw_stop of a stopped one.*)
Stopped(e) == [i \in DOMAIN e.evs |-> e.stop[i]]

Read(s) ==
  LET e == sets[s]
      t == e.master
      ctl == Fetched(thr[t].ctx, e.ctl)
  IN  IF ~e.bound THEN Refuse("ENOCMP")
      ELSE IF ~Has(s, "RUNNING")
      THEN Answer(s, Stopped(e)) /\ UNCHANGED <<sets, thr>>
      ELSE /\ sets' = [sets EXCEPT ![s].ctl = ctl]
           /\ thr' = Touch(t, s, thr[t].ctx)
           /\ IF ReadFails(thr[t].ctx, e.ctl) THEN Reply("ESBSTR")
              ELSE Answer(s, ValuesOf(e.evs, ctl.counts))

(* PAPI_reset: all counters of the context, or sw_stop.                    *)
Cleared(e) == [i \in DOMAIN e.stop |-> IF i \in DOMAIN e.evs THEN {} ELSE e.stop[i]]

Reset(s) ==
  LET t == sets[s].master
  IN  IF ~sets[s].bound THEN Refuse("ENOCMP")
      ELSE IF Has(s, "RUNNING")
      THEN /\ thr' = Touch(t, s, ResetCtx(thr[t].ctx))
           /\ Reply("OK") /\ UNCHANGED sets
      ELSE /\ sets' = [sets EXCEPT ![s].stop = Cleared(sets[s])]
           /\ Reply("OK") /\ UNCHANGED thr

(* PAPI_accum: read into sw_stop, add to the caller's values (0 here),     *)
(* then PAPI_reset.                                                        *)
Accum(s) ==
  LET e == sets[s]
      t == e.master
      ctl == Fetched(thr[t].ctx, e.ctl)
      vals == ValuesOf(e.evs, ctl.counts)
      read == [e EXCEPT !.ctl = ctl,
                        !.stop = [i \in DOMAIN @ |-> IF i \in DOMAIN vals THEN vals[i] ELSE @[i]]]
  IN  IF ~e.bound THEN Refuse("ENOCMP")
      ELSE IF ~Has(s, "RUNNING")
      THEN /\ sets' = [sets EXCEPT ![s].stop = Cleared(e)]
           /\ Answer(s, Stopped(e)) /\ UNCHANGED thr
      ELSE IF ReadFails(thr[t].ctx, e.ctl)
      THEN /\ sets' = [sets EXCEPT ![s].ctl = ctl]
           /\ thr' = Touch(t, s, thr[t].ctx)
           /\ Reply("ESBSTR")
      ELSE /\ sets' = [sets EXCEPT ![s] = read]
           /\ thr' = Touch(t, s, ResetCtx(thr[t].ctx))
           /\ Answer(s, vals)

-----------------------------------------------------------------------------
(* PAPI_set_opt(PAPI_DOMAIN) changes the control state, if the kernel lets *)
(* check_permissions open a counter like that; what is open stays open     *)
(* with the domain it was opened with.                                     *)
SetDomain(s, d) ==
  /\ Quiet(s)
  /\ "domain" \in Liberties \/ sets[s].evs = <<>>
  /\ IF ~sets[s].bound THEN Refuse("ENOCMP")
     ELSE IF ~Has(s, "STOPPED") THEN Refuse("EISRUN")
     ELSE /\ thr' = Touch(sets[s].master, s, thr[sets[s].master].ctx)
          /\ \/ sets' = [sets EXCEPT ![s].ctl.dom = d] /\ Reply("OK")
             \/ OpenMayFail /\ UNCHANGED sets /\ Reply("EPERM")

(* PAPI_attach reopens the group in the context of the ThreadInfo the      *)
(* EventSet comes from, and only then moves it to that of the target.      *)
Attach(s, t) ==
  LET e == sets[s]
      ctl == [e.ctl EXCEPT !.tid = t]
  IN  /\ Quiet(s) /\ "attach" \in Liberties
      /\ IF ~e.bound THEN Refuse("ENOCMP")
         ELSE IF ~Has(s, "STOPPED") THEN Refuse("EISRUN")
         ELSE IF Has(s, "ATTACHED") THEN Refuse("EINVAL")
         ELSE \/ /\ OpenMayFail /\ UNCHANGED sets
                 /\ thr' = Touch(e.master, s, thr[e.master].ctx)
                 /\ Reply("EPERM")
              \/ \E ok \in (IF ctl.ev = <<>> THEN {TRUE} ELSE Verdicts(ctl.ev)) :
                   /\ sets' = [sets EXCEPT ![s] =
                         IF ok THEN [e EXCEPT !.ctl = ctl, !.master = t, !.state = @ \cup {"ATTACHED"}]
                         ELSE [e EXCEPT !.ctl = ctl]]
                   /\ thr' = Touch(e.master, s, Reopened(ctl, ok))
                   /\ Reply(IF ok THEN "OK" ELSE "ECNFLCT")

(* PAPI_detach goes back to counting the caller, but the EventSet stays    *)
(* with the ThreadInfo of the target.                                      *)
Detach(s) ==
  /\ Quiet(s) /\ "attach" \in Liberties
  /\ IF ~sets[s].bound THEN Refuse("ENOCMP")
     ELSE IF ~Has(s, "STOPPED") THEN Refuse("EISRUN")
     ELSE IF ~Has(s, "ATTACHED") THEN Refuse("EINVAL")
     ELSE /\ sets' = [sets EXCEPT ![s].ctl.tid = Caller, ![s].state = @ \ {"ATTACHED"}]
          /\ thr' = Touch(sets[s].master, s, thr[sets[s].master].ctx)
          /\ Reply("OK")

-----------------------------------------------------------------------------
(* Time passes: every enabled group counts.                                *)
Counting == {t \in Threads : thr[t].ctx.on}

Tick ==
  /\ Counting # {} /\ \A t \in Counting : thr[t].ctx.n < MaxTicks
  /\ thr' = [t \in Threads |->
               IF t \in Counting THEN [thr[t] EXCEPT !.ctx.n = @ + 1] ELSE thr[t]]
  /\ UNCHANGED <<sets, ret>>

Call(s) ==
  \/ Assign(s) \/ Cleanup(s) \/ Destroy(s)
  \/ \E c \in Codes : AddEvent(s, c) \/ RemoveEvent(s, c)
  \/ Start(s) \/ Stop(s) \/ Read(s) \/ Reset(s) \/ Accum(s)
  \/ \E d \in Domains : SetDomain(s, d)
  \/ \E t \in Threads \ {Self} : Attach(s, t)
  \/ Detach(s)

Next == Create \/ Tick \/ \E s \in Alive : Call(s)

Spec == Init /\ [][Next]_vars

-----------------------------------------------------------------------------
(* What is promised.                                                       *)

\* Every slot holds an EventSet or nothing, every ThreadInfo refers to slots,
\* neither array of an EventSet outgrows its allocation, and an event has a
\* position for each of its native events, inside the array of counts: the
\* reads of _papi_hwi_read and the writes to sw_stop stay in bounds.
Fits(e) == Len(e.evs) <= NumMpxCntrs /\ Len(e.nats) <= NumMpxCntrs

TypeOK ==
  /\ sets \in [Slots -> EventSetInfo \cup {None}]
  /\ thr \in [Threads -> ThreadInfo]
  /\ ret \in [code : ReturnCodes, set : Slots \cup {None}, vals : Seq(SUBSET Counts)]
  /\ \A s \in Alive : Fits(sets[s])

\* The owner counts of an EventSet's native events are those of its event list:
\* each native event is there once, for as many events as need it, and nothing
\* that no event needs is kept programmed.
OwnersMatch ==
  \A s \in Alive :
    LET e == sets[s]
    IN  /\ \A i \in DOMAIN e.nats : e.nats[i].owners = Users(e.evs, e.nats[i].nat)
        /\ Mapped(e.nats) = UNION {Needs(e.evs[i].code) : i \in DOMAIN e.evs}
        /\ Cardinality(Mapped(e.nats)) = Len(e.nats)

\* Only one EventSet of a thread is running, as PAPI_start says.
ExclusiveRun ==
  \A r, s \in Alive :
    Has(r, "RUNNING") /\ Has(s, "RUNNING") /\ sets[r].master = sets[s].master => r = s

\* The two flags of an EventSet and the running_eventset of its ThreadInfo say
\* the same, so that a call can trust whichever it tests.
RunningAgrees ==
  /\ \A s \in Alive : Has(s, "RUNNING") <=> thr[sets[s].master].running = s
  /\ \A s \in Alive : Has(s, "RUNNING") <=> ~Has(s, "STOPPED")
  /\ \A t \in Threads : thr[t].running # None => thr[t].running \in Alive

\* While an EventSet runs, its ThreadInfo's context counts its native events
\* and nothing else, in its own domain and for its own thread, whichever EventSet
\* had the context opened last: it can be read and stopped.
CountsItsOwn ==
  \A s \in Alive :
    LET ctx == thr[sets[s].master].ctx
    IN  Has(s, "RUNNING") =>
          /\ ctx.on /\ thr[sets[s].master].from = s
          /\ ctx.fds = [i \in DOMAIN sets[s].nats |->
                          [nat |-> sets[s].nats[i].nat,
                           dom |-> sets[s].ctl.dom, tid |-> sets[s].ctl.tid]]

\* A call that returns an error leaves the events of every EventSet, their
\* native events and the owner counts as they were, whatever it had already
\* done: PAPI_add_event in particular, which maps the native events and opens
\* the group before it knows that they fit.
Content(e) == [evs |-> e.evs, nats |-> [i \in DOMAIN e.nats |-> [e.nats[i] EXCEPT !.pos = 0]]]

FailedCallUndone ==
  [][ret'.code # "OK" => \A s \in Alive : Content(sets'[s]) = Content(sets[s])]_vars

\* While an EventSet runs, each of its events looks for its counts where the
\* context has the counters of its native events ("position in the counter
\* array for this events components").
PositionsHold ==
  \A s \in Alive : Has(s, "RUNNING") =>
    \A i \in DOMAIN sets[s].evs : \A k \in DOMAIN sets[s].evs[i].pos :
      LET ev == sets[s].evs[i]
          ctx == thr[sets[s].master].ctx
      IN  /\ ev.pos[k] \in DOMAIN ctx.fds
          /\ ctx.fds[ev.pos[k]].nat = NativesOf(ev.code)[k]

\* While an EventSet is running, what is read was counted in the domain set
\* for it ("sets the domain for a specific EventSet").
ReadsOwnDomain ==
  ret.set # None /\ Has(ret.set, "RUNNING") =>
    \A i \in DOMAIN ret.vals : \A v \in ret.vals[i] :
      v.dom = sets[ret.set].ctl.dom
=============================================================================
