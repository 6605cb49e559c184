------------------------------ MODULE HighLevel ------------------------------
(***************************************************************************)
(* The high-level interface (papi_hl.c) over the EventSets of one thread:  *)
(* an EventSet of its own, made on first use, that the calls fill, start,  *)
(* read and empty through the low-level interface. One step is one call of *)
(* that interface, as EventSets has it; between the high-level calls the   *)
(* application may use EventSets of its own.                               *)
(*                                                                         *)
(* real_time, proc_time and the rates are left out: of the totals a rate   *)
(* call keeps only total_ins, in units of time counted.                    *)
(***************************************************************************)
EXTENDS EventSets

CONSTANTS EventOf,    \* the event of HL_FLIPS, HL_IPC and HL_FLOPS
          TOT_CYC,    \* PAPI_TOT_CYC
          Asked,      \* the arrays PAPI_start_counters is called with
          Exact       \* every whole number up to here is a float

Rates == {"HL_FLIPS", "HL_IPC", "HL_FLOPS"}

ASSUME HighLevelAssumption ==
  /\ EventOf \in [Rates -> Codes] /\ TOT_CYC \in Codes
  /\ Asked \subseteq Seq(Codes) \ {<<>>}
  /\ Exact \in Nat \ {0}

VARIABLES
  hl,      \* the thread's HighLevelInfo; it has no EventSet until it is made
  call,    \* the high-level call in progress
  meter    \* for the properties: what the last start asked for, how long it has run,
           \* and whether an event was ever left behind for want of PAPI_TOT_CYC

hvars == <<vars, hl, call, meter>>

HighLevelInfo == [EventSet : Slots \cup {None}, num_evts : Nat, total_ins : Nat,
                  running : {"none", "HL_START_COUNTERS"} \cup Rates]

NewInfo(s) == [EventSet |-> s, num_evts |-> 0, total_ins |-> 0, running |-> "none"]
Made == hl.EventSet # None

Idle == call.pc = "idle"
Back(code) == call' = [pc |-> "idle", events |-> <<>>, level |-> "none", k |-> 0, retval |-> code]
Goto(pc) == call' = [call EXCEPT !.pc = pc]

\* What the code returns when the last low-level call is its last one.
Reflect == Back(ret'.code)

HInit ==
  /\ Init /\ hl = NewInfo(None) /\ meter = [asked |-> <<>>, n |-> 0, left |-> FALSE]
  /\ call = [pc |-> "idle", events |-> <<>>, level |-> "none", k |-> 0, retval |-> "OK"]

-----------------------------------------------------------------------------
(* A call begins; the application keeps the high level apart from EventSets*)
(* of its own that are running, unless it takes the liberty to overlap.    *)
Own == {hl.EventSet} \ {None}

Apart == "overlap" \in Liberties \/ \A t \in Threads : thr[t].running \in Own \cup {None}

\* level is what the call is about, events its array and k the element it is at.
Enter(pc, level, events) ==
  /\ Idle /\ Apart
  /\ call' = [pc |-> IF Made THEN pc ELSE "check_state", events |-> events,
              level |-> level, k |-> 1, retval |-> pc]
  /\ UNCHANGED <<vars, hl, meter>>

\* _internal_check_state makes the HighLevelInfo and its EventSet.
CheckState ==
  /\ call.pc = "check_state" /\ Create
  /\ hl' = NewInfo(CHOOSE s \in Slots : sets[s] = None /\ sets'[s] # None)
  /\ Goto(call.retval) /\ UNCHANGED meter

Return(code) == Back(code) /\ UNCHANGED <<vars, hl, meter>>

NumCounters == call.pc = "num_counters" /\ Return("OK")

\* Slips in Blanked: the total stays; the EventSet goes too.
BlankedTotal == [hl EXCEPT !.num_evts = 0, !.running = "none"]
BlankedAll == [hl EXCEPT !.EventSet = None, !.num_evts = 0, !.running = "none", !.total_ins = 0]

\* _internal_cleanup_hl_info
Blanked == [hl EXCEPT !.num_evts = 0, !.running = "none", !.total_ins = 0]

-----------------------------------------------------------------------------
(* PAPI_start_counters and the first call of a rate.                       *)

Begin ==
  /\ call.pc = "start_counters"
  /\ IF hl.running # "none" THEN Return("EINVAL")
     ELSE Goto("add") /\ UNCHANGED <<vars, hl, meter>>

\* The rate calls ask for every event before they add it; when PAPI_TOT_CYC is
\* not there they return as they are, with the first event in the EventSet.
Available(c) == call.level = "HL_START_COUNTERS" \/ NativesOf(c) # <<>>

\* A slip in Abandoned: what was added before stays.
AbandonedOnly == Return(call.retval)
Abandoned == Cleanup(hl.EventSet) /\ Back(call.retval) /\ UNCHANGED <<hl, meter>>

Add ==
  /\ call.pc = "add"
  /\ LET c == call.events[call.k]
     IN  IF ~Available(c)
         THEN /\ Back("ENOEVNT") /\ UNCHANGED <<vars, hl>>
              /\ meter' = [meter EXCEPT !.left = @ \/ call.k > 1]
         ELSE /\ AddEvent(hl.EventSet, c) /\ UNCHANGED meter
              /\ \/ /\ ret'.code = "OK" /\ UNCHANGED hl
                    /\ call' = IF call.k < Len(call.events) THEN [call EXCEPT !.k = @ + 1]
                               ELSE [call EXCEPT !.pc = "start"]
                 \/ /\ ret'.code = "EISRUN" /\ call.level = "HL_START_COUNTERS"
                    /\ Reflect /\ UNCHANGED hl
                 \/ /\ ret'.code # "OK"
                    /\ ret'.code = "EISRUN" => call.level # "HL_START_COUNTERS"
                    /\ hl' = Blanked
                    /\ call' = [call EXCEPT !.pc = "abandon", !.retval = ret'.code]

Abandon == call.pc = "abandon" /\ Abandoned

Started ==
  [hl EXCEPT !.running = call.level,
             !.num_evts = IF call.level = "HL_START_COUNTERS" THEN Len(call.events) ELSE @]

StartCounters ==
  /\ call.pc = "start" /\ Start(hl.EventSet) /\ Reflect
  /\ hl' = IF ret'.code = "OK" THEN Started ELSE hl
  /\ meter' = IF ret'.code = "OK" THEN [meter EXCEPT !.asked = call.events, !.n = 0] ELSE meter

-----------------------------------------------------------------------------
(* PAPI_flips, PAPI_ipc and PAPI_flops: stop, add to the totals, start.    *)

\* The sum of two floats is a float next to it.
Floats == {f \in 0..(Exact * Exact) : \E m, e \in 0..Exact : f = m * 2 ^ e}
Distance(x, y) == IF x < y THEN y - x ELSE x - y
FloatAdd(x, y) == CHOOSE f \in Floats : \A g \in Floats : Distance(f, x + y) <= Distance(g, x + y)

Rate ==
  /\ call.pc = "rate"
  /\ IF hl.running \notin {"none", call.level} THEN Return("EINVAL")
     ELSE /\ Goto(IF hl.running = "none" THEN "add" ELSE "stop")
          /\ UNCHANGED <<vars, hl, meter>>

\* values[0], in units of time.
Value == thr[sets[hl.EventSet].master].ctx.n

StopRate ==
  /\ call.pc = "stop" /\ Stop(hl.EventSet) /\ UNCHANGED meter
  /\ IF ret'.code # "OK" THEN Reflect /\ UNCHANGED hl
     ELSE /\ hl' = [hl EXCEPT !.total_ins = FloatAdd(@, Value)]
          /\ Goto("restart")

Restart ==
  /\ call.pc = "restart" /\ Start(hl.EventSet) /\ Reflect /\ UNCHANGED meter
  /\ hl' = IF ret'.code = "OK" THEN hl ELSE [hl EXCEPT !.running = "none"]

-----------------------------------------------------------------------------
(* PAPI_read_counters, PAPI_accum_counters and PAPI_stop_counters, with an *)
(* array for as many values as call.events is long.                        *)

Fitting == Len(call.events) >= hl.num_evts

ReadCounters ==
  /\ call.pc = "read"
  /\ IF hl.running # "HL_START_COUNTERS" \/ ~Fitting THEN Return("EINVAL")
     ELSE /\ Read(hl.EventSet) /\ UNCHANGED <<hl, meter>>
          /\ IF ret'.code = "OK" THEN Goto("reset") ELSE Reflect

ResetCounters ==
  /\ call.pc = "reset" /\ Reset(hl.EventSet) /\ Reflect /\ UNCHANGED <<hl, meter>>

AccumCounters ==
  /\ call.pc = "accum"
  /\ IF hl.running # "HL_START_COUNTERS" \/ ~Fitting THEN Return("EINVAL")
     ELSE Accum(hl.EventSet) /\ Reflect /\ UNCHANGED <<hl, meter>>

StopCounters ==
  /\ call.pc = "stop_counters"
  /\ IF hl.running = "none" THEN Return("ENOTRUN")
     ELSE IF hl.running = "HL_START_COUNTERS" /\ ~Fitting THEN Return("EINVAL")
     ELSE /\ Stop(hl.EventSet) /\ UNCHANGED meter
          /\ IF ret'.code # "OK" THEN Reflect /\ UNCHANGED hl
             ELSE /\ hl' = Blanked
                  /\ call' = [call EXCEPT !.pc = "empty", !.retval = "OK"]

EmptyCounters ==
  /\ call.pc = "empty" /\ Cleanup(hl.EventSet) /\ Back(call.retval)
  /\ UNCHANGED <<hl, meter>>

-----------------------------------------------------------------------------
HighLevelCall ==
  \/ Enter("num_counters", "none", <<>>)
  \/ \E events \in Asked : Enter("start_counters", "HL_START_COUNTERS", events)
  \/ \E r \in Rates : Enter("rate", r, <<EventOf[r], TOT_CYC>>)
  \/ \E pc \in {"read", "accum", "stop_counters"}, events \in Asked : Enter(pc, "none", events)

\* The low-level interface on the application's own EventSets. One slot is left
\* for the high level.
OwnCall ==
  /\ Idle /\ UNCHANGED <<hl, call, meter>>
  /\ \/ Create /\ (~Made => \E r, s \in Slots : r # s /\ {sets[r], sets[s]} = {None})
     \/ \E s \in Alive \ Own : Call(s)

\* Time also passes while a call is under way.
HTick ==
  /\ Tick /\ UNCHANGED <<hl, call>>
  /\ meter' = IF \E s \in Own : Has(s, "RUNNING") THEN [meter EXCEPT !.n = @ + 1] ELSE meter

HNext ==
  \/ HighLevelCall \/ CheckState \/ NumCounters
  \/ Begin \/ Add \/ Abandon \/ StartCounters
  \/ Rate \/ StopRate \/ Restart
  \/ ReadCounters \/ ResetCounters \/ AccumCounters \/ StopCounters \/ EmptyCounters
  \/ OwnCall \/ HTick

HSpec == HInit /\ [][HNext]_hvars

-----------------------------------------------------------------------------
(* What is promised.                                                       *)

HighLevelTypeOK ==
  /\ hl \in HighLevelInfo
  /\ Made => hl.EventSet \in Alive
  /\ call.pc \notin {"idle", "check_state"} => Made

\* Between two calls, what the high level says is running is what its EventSet
\* counts, event by event: the arrays the next call writes its values to have
\* one element for each of them, in this order. Otherwise nothing of a call
\* that failed is left in the EventSet for the next one to stumble over
\* ("remove any prior events that may have been added"). That is so until, where
\* there is no PAPI_TOT_CYC, a rate call returns with its first event added:
\* what is left then only a call that cleans up takes away.
RunsWhatWasAsked ==
  Idle /\ Made /\ ~meter.left =>
    LET e == sets[hl.EventSet]
    IN  /\ hl.running # "none" <=> Has(hl.EventSet, "RUNNING")
        /\ [i \in DOMAIN e.evs |-> e.evs[i].code] =
             IF hl.running = "none" THEN <<>> ELSE meter.asked
        /\ hl.running = "HL_START_COUNTERS" => hl.num_evts = Len(meter.asked)

\* The instructions a rate call returns are all those since the first call, no
\* stretch lost or counted twice over any number of stops and restarts, as long
\* as the total fits the float it is kept in.
TotalsAddUp ==
  Idle /\ Made /\ hl.running \in Rates /\ meter.n <= Exact =>
    hl.total_ins + Value = meter.n
=============================================================================
