----------------------------- MODULE Multiplex -------------------------------
(***************************************************************************)
(* Software multiplexing (multiplex.c): an EventSet with more events than  *)
(* counters is counted one event at a time. Every thread has a list of     *)
(* master events, each with an EventSet of its own that counts the event   *)
(* and the cycles; a timer signal stops the current one, extends its       *)
(* estimate to the time it was not counted and starts the next.            *)
(*                                                                         *)
(* The signal is blocked where the code modifies the lists: a call is one  *)
(* step for each such section, and the signal comes between the steps.     *)
(*                                                                         *)
(* External: the EventSet of a master event is counted as EventSets says.  *)
(* The application does not add events to, or remove them from, one        *)
(* EventSet while another one of the thread runs, which would close the    *)
(* counters of that one (the "overlap" liberty of EventSets): starting     *)
(* and stopping a master event then does not fail. Nor does it remove any  *)
(* from an EventSet that could not be started for want of the timer: they  *)
(* are active, and the removal of one that is in no other EventSet ends    *)
(* the program by the assertion in mpx_delete_one_event, while one that is *)
(* shared stays active for ever. All events of a thread                    *)
(* have the same domain and granularity, and none is a rate, as is_a_rate  *)
(* is never set.                                                           *)
(***************************************************************************)
EXTENDS Integers, Sequences, FiniteSets

CONSTANTS Threads, Events,
          SCALE_EVENT,   \* PAPI_TOT_CYC
          Sets, Owner,   \* the multiplexed EventSets and the thread of each
          MPX_MINCYC,    \* shortest slice a rate is taken from
          Programs,      \* what the application does: see Program
          None,
          MaxSlice,      \* bound: cycles until the timer is noticed
          MaxCycles      \* bound: total_c stays there; it decides nothing

\* The events an application puts into each EventSet, in the order they may come,
\* the counts per cycle they can have, one if its rates are constant, and whether
\* it calls PAPI_reset while it counts.
Program == [wants : [Sets -> Seq(Events)], rates : SUBSET Nat, resets : BOOLEAN]

ASSUME MultiplexAssumption ==
  /\ SCALE_EVENT \in Events /\ None \notin Events /\ None \notin Sets
  /\ IsFiniteSet(Sets) /\ Owner \in [Sets -> Threads] /\ Programs \subseteq Program
  /\ MPX_MINCYC \in Nat \ {0} /\ MaxSlice \in Nat /\ MaxCycles \in Nat

VARIABLES
  sets,     \* state of the EventSet_Info and its MPX_EventSet
  master,   \* MasterEvent by thread and event
  thr,      \* Threadlist: its list of master events, cur_event, total_c
  hw,       \* the master event that is counted, and its slice so far
  timer,    \* whether the interval timer of the process is set
  pc,       \* the section the thread's call has yet to do
  program   \* the application

vars == <<sets, master, thr, hw, timer, pc, program>>

-----------------------------------------------------------------------------
(* rate_estimate is counts over cycles; Scaled is the product cut to a      *)
(* long long.                                                               *)
NoRate == [n |-> 0, c |-> 1]
Scaled(rate, cycles) == (cycles * rate.n) \div rate.c

NoEvent  == [uses |-> 0, active |-> 0, prev_total_c |-> 0, count_estimate |-> 0,
             rate_estimate |-> NoRate]
NoSlice  == [run |-> None, n |-> 0, c |-> 0]
Slice(e) == [run |-> e, n |-> 0, c |-> 0]

Idle == [op |-> "idle", set |-> None, vals |-> <<>>]
Least(a, b) == IF a < b THEN a ELSE b

Holds(s, e) == \E i \in DOMAIN sets[s].mev : sets[s].mev[i] = e
At(s, e) == CHOOSE i \in DOMAIN sets[s].mev : sets[s].mev[i] = e
Dropped(seq, i) == SubSeq(seq, 1, i - 1) \o SubSeq(seq, i + 1, Len(seq))

Init ==
  /\ sets = [s \in Sets |-> [running |-> FALSE, status |-> "MPX_STOPPED",
                             mev |-> <<>>, start |-> <<>>]]
  /\ master = [t \in Threads |-> [e \in Events |-> NoEvent]]
  /\ thr = [t \in Threads |-> [head |-> <<>>, cur |-> None, total_c |-> 0]]
  /\ hw = [t \in Threads |-> NoSlice]
  /\ timer = FALSE
  /\ pc = [t \in Threads |-> Idle]
  /\ program \in Programs

Calls(t) == pc[t] = Idle

\* No EventSet of the thread is counted, started or half started (see above).
Quiet(t) == hw[t].run = None

-----------------------------------------------------------------------------
\* e comes later in program.wants[s] than all events of s: above all, s has it not yet.
Follows(s, e) ==
  \E i \in DOMAIN program.wants[s] :
    program.wants[s][i] = e /\ \A k \in i..Len(program.wants[s]) : ~Holds(s, program.wants[s][k])

(* PAPI_add_event: mpx_add_event finds the master event or makes one, at   *)
(* the head of the list. One that the component does not count is refused  *)
(* and leaves nothing.                                                      *)
AddEvent(s, e) ==
  LET t == Owner[s]
      new == master[t][e].uses = 0
  IN  /\ Calls(t) /\ Quiet(t) /\ ~sets[s].running /\ Follows(s, e)
      /\ sets' = [sets EXCEPT ![s].mev = Append(@, e), ![s].start = Append(@, 0)]
      /\ thr' = [thr EXCEPT ![t].head = IF new THEN <<e>> \o @ ELSE @]
      /\ master' = [master EXCEPT ![t][e].uses = @ + 1]
      /\ UNCHANGED <<hw, timer, pc, program>>

\* mpx_remove_unused.
Used(t, m) ==
  LET kept[k \in 0..Len(thr[t].head)] ==
        IF k = 0 THEN <<>>
        ELSE IF m[thr[t].head[k]].uses > 0 THEN Append(kept[k - 1], thr[t].head[k]) ELSE kept[k - 1]
  IN  kept[Len(thr[t].head)]
Forgotten(t, m) == [e \in Events |-> IF m[e].uses > 0 THEN m[e] ELSE NoEvent]

\* A slip in Unlisted: the use is not given back.
UnlistedKept(t, evs) == master[t]
Unlisted(t, evs) ==
  [e \in Events |-> IF e \in evs THEN [master[t][e] EXCEPT !.uses = @ - 1] ELSE master[t][e]]

\* mpx_delete_one_event moves what comes after the event down, in each array.
\* A slip in it: the start values stay where they are.
ShiftedPartly(set, i) == [set EXCEPT !.mev = Dropped(@, i)]
Shifted(set, i) == [set EXCEPT !.mev = Dropped(@, i), !.start = Dropped(@, i)]

(* PAPI_remove_event. An assertion ends the program if the last use of an  *)
(* active master event is given back.                                       *)
RemoveEvent(s, e) ==
  LET t == Owner[s]
      m == Unlisted(t, {e})
  IN  /\ Calls(t) /\ Quiet(t) /\ ~sets[s].running /\ Holds(s, e)
      /\ m[e].uses > 0 \/ m[e].active = 0
      /\ sets' = [sets EXCEPT ![s] = Shifted(@, At(s, e))]
      /\ master' = [master EXCEPT ![t] = Forgotten(t, m)]
      /\ thr' = [thr EXCEPT ![t].head = Used(t, m)]
      /\ UNCHANGED <<hw, timer, pc, program>>

(* PAPI_cleanup_eventset: MPX_cleanup refuses while the status is running. *)
Cleanup(s) ==
  LET t == Owner[s]
      m == Unlisted(t, {sets[s].mev[i] : i \in DOMAIN sets[s].mev})
  IN  /\ Calls(t) /\ Quiet(t) /\ ~sets[s].running /\ sets[s].status = "MPX_STOPPED"
      /\ sets' = [sets EXCEPT ![s].mev = <<>>, ![s].start = <<>>]
      /\ master' = [master EXCEPT ![t] = Forgotten(t, m)]
      /\ thr' = [thr EXCEPT ![t].head = Used(t, m)]
      /\ UNCHANGED <<hw, timer, pc, program>>

-----------------------------------------------------------------------------
(* PAPI_start is refused while any EventSet of the thread is counted. So   *)
(* all master events are inactive when MPX_start comes to run, and of its  *)
(* two branches only the one that starts an event from zero is taken.      *)
Zeroed(m) == [m EXCEPT !.active = 1, !.count_estimate = 0, !.rate_estimate = NoRate,
                       !.prev_total_c = 0]

StartEvents(s) ==
  LET t == Owner[s]
  IN  /\ Calls(t) /\ hw[t].run = None /\ sets[s].mev # <<>>
      /\ master' = [master EXCEPT ![t] =
                      [e \in Events |-> IF Holds(s, e) THEN Zeroed(@[e]) ELSE @[e]]]
      /\ \E i \in DOMAIN sets[s].mev :
           /\ thr' = [thr EXCEPT ![t].cur = sets[s].mev[i], ![t].total_c = 0]
           /\ hw' = [hw EXCEPT ![t] = Slice(sets[s].mev[i])]
      /\ sets' = [sets EXCEPT ![s].status = "MPX_RUNNING",
                              ![s].start = [i \in DOMAIN @ |-> 0]]
      /\ pc' = [pc EXCEPT ![t] = [op |-> "start", set |-> s, vals |-> <<>>]]
      /\ UNCHANGED <<timer, program>>

(* mpx_startup_itimer. If it fails, PAPI_start returns the error with the  *)
(* events already active.                                                   *)
StartTimer(t) ==
  /\ pc[t].op = "start"
  /\ \/ /\ timer' = TRUE
        /\ sets' = [sets EXCEPT ![pc[t].set].running = TRUE]
     \/ UNCHANGED <<timer, sets>>
  /\ pc' = [pc EXCEPT ![t] = Idle] /\ UNCHANGED <<master, thr, hw, program>>

-----------------------------------------------------------------------------
(* MPX_read. What has happened since an event was last sliced out is added *)
(* for PAPI_stop only.                                                      *)
Since(t, e) == thr[t].total_c - master[t][e].prev_total_c

Ahead(t, e) ==
  IF e = thr[t].cur THEN hw[t].n + Scaled(master[t][e].rate_estimate, Since(t, e))
  ELSE Scaled(master[t][e].rate_estimate, hw[t].c + Since(t, e))

StopValue(t, e) == master[t][e].count_estimate + Ahead(t, e)

\* A slip in ReadValue: reading extrapolates as stopping does.
ReadValueAhead(t, e) == StopValue(t, e)
ReadValue(t, e) == master[t][e].count_estimate

Reading(s) == [i \in DOMAIN sets[s].mev |->
                 ReadValue(Owner[s], sets[s].mev[i]) - sets[s].start[i]]
LastReading(s) == [i \in DOMAIN sets[s].mev |->
                 StopValue(Owner[s], sets[s].mev[i]) - sets[s].start[i]]

(* PAPI_reset of a running EventSet: MPX_reset reads it, and in a second   *)
(* section moves the start values up by what it read. (PAPI_read changes   *)
(* nothing, and PAPI_accum is a read and then a reset.)                    *)
ResetRead(s) ==
  LET t == Owner[s]
  IN  /\ Calls(t) /\ sets[s].running /\ program.resets
      /\ pc' = [pc EXCEPT ![t] = [op |-> "reset", set |-> s, vals |-> Reading(s)]]
      /\ UNCHANGED <<sets, master, thr, hw, timer, program>>

ResetStart(t) ==
  /\ pc[t].op = "reset"
  /\ sets' = [sets EXCEPT ![pc[t].set].start = [i \in DOMAIN @ |-> @[i] + pc[t].vals[i]]]
  /\ pc' = [pc EXCEPT ![t] = Idle] /\ UNCHANGED <<master, thr, hw, timer, program>>

-----------------------------------------------------------------------------
(* The next active event after e in the list, from its end back to the     *)
(* head; e itself if there is no other.                                     *)
IndexIn(seq, e) == CHOOSE i \in DOMAIN seq : seq[i] = e
After(seq, e, k) == seq[((IndexIn(seq, e) + k - 1) % Len(seq)) + 1]

\* A slip in NextActive: the search always begins at the head.
NextFromHead(t, m, e) ==
  LET others == SelectSeq(thr[t].head, LAMBDA x : x # e /\ m[x].active > 0)
  IN  IF others = <<>> THEN e ELSE others[1]

NextActive(t, m, e) ==
  LET seq == thr[t].head
      ks == {k \in 1..(Len(seq) - 1) : m[After(seq, e, k)].active > 0}
  IN  IF ks = {} THEN e ELSE After(seq, e, CHOOSE k \in ks : \A l \in ks : k <= l)

(* PAPI_stop: MPX_stop reads once more, and in a second section takes its  *)
(* events out of the rotation. If the current one is then not active, the  *)
(* next active one is started, or there is none and the timer is stopped.  *)
StopRead(s) ==
  LET t == Owner[s]
  IN  /\ Calls(t) /\ sets[s].running /\ sets[s].status = "MPX_RUNNING"
      /\ pc' = [pc EXCEPT ![t] = [op |-> "stop", set |-> s, vals |-> LastReading(s)]]
      /\ UNCHANGED <<sets, master, thr, hw, timer, program>>

\* What an event has estimated is not looked at again once it is inactive:
\* MPX_start begins at zero. So it is forgotten here.
Rested(m) == IF m.active > 1 THEN [m EXCEPT !.active = @ - 1] ELSE [NoEvent EXCEPT !.uses = m.uses]

Deactivated(t, s) ==
  [e \in Events |-> IF Holds(s, e) THEN Rested(master[t][e]) ELSE master[t][e]]

StopEvents(t) ==
  LET s == pc[t].set
      cur == thr[t].cur
      m == Deactivated(t, s)
      done == Holds(s, cur) /\ m[cur].active = 0
      next == NextActive(t, m, cur)
  IN  /\ pc[t].op = "stop"
      /\ master' = [master EXCEPT ![t] = m]
      /\ IF ~done THEN UNCHANGED <<thr, hw, timer>>
         ELSE IF next # cur
         THEN /\ thr' = [thr EXCEPT ![t].cur = next] /\ hw' = [hw EXCEPT ![t] = Slice(next)]
              /\ UNCHANGED timer
         ELSE /\ thr' = [thr EXCEPT ![t].cur = None, ![t].total_c = 0] /\ hw' = [hw EXCEPT ![t] = NoSlice]
              /\ timer' = FALSE
      /\ sets' = [sets EXCEPT ![s].running = FALSE, ![s].status = "MPX_STOPPED"]
      /\ pc' = [pc EXCEPT ![t] = Idle] /\ UNCHANGED program

-----------------------------------------------------------------------------
(* mpx_handler, in whatever thread the signal is delivered to. Where there *)
(* is no current event it does nothing.                                     *)
\* A slip in Rotated: the next one in the list, active or not.
RotatedBlindly(t, m, decent) == IF decent THEN After(thr[t].head, thr[t].cur, 1) ELSE thr[t].cur
Rotated(t, m, decent) == IF decent THEN NextActive(t, m, thr[t].cur) ELSE thr[t].cur

\* A slip in Estimated: the time up to now is not noted.
EstimatedAgain(m, slice, total) ==
  LET rate == IF slice.c >= MPX_MINCYC THEN [n |-> slice.n, c |-> slice.c] ELSE m.rate_estimate
  IN  [m EXCEPT !.rate_estimate = rate, !.count_estimate = @ + Scaled(rate, total - m.prev_total_c)]

Estimated(m, slice, total) ==
  LET rate == IF slice.c >= MPX_MINCYC THEN [n |-> slice.n, c |-> slice.c] ELSE m.rate_estimate
  IN  [m EXCEPT !.rate_estimate = rate, !.prev_total_c = total,
                !.count_estimate = @ + Scaled(rate, total - m.prev_total_c)]

Decent(t) == hw[t].c >= MPX_MINCYC

mpx_handler(t) ==
  LET cur == thr[t].cur
      total == Least(thr[t].total_c + hw[t].c, MaxCycles)
      m == [master[t] EXCEPT ![cur] = Estimated(@, hw[t], total)]
      next == Rotated(t, m, Decent(t))
  IN  /\ timer /\ cur # None
      /\ master' = [master EXCEPT ![t] = m]
      /\ thr' = [thr EXCEPT ![t].total_c = total, ![t].cur = next]
      /\ hw' = [hw EXCEPT ![t] = IF m[next].active > 0 THEN Slice(next) ELSE NoSlice]
      /\ UNCHANGED <<sets, timer, pc, program>>

\* A cycle of the program.
Work(t) ==
  /\ hw[t].run # None /\ hw[t].c < MaxSlice
  /\ \E r \in IF hw[t].run = SCALE_EVENT THEN {1} ELSE program.rates :
       hw' = [hw EXCEPT ![t].c = @ + 1, ![t].n = @ + r]
  /\ UNCHANGED <<sets, master, thr, timer, pc, program>>

(* The calls that are refused: changing or starting an EventSet that runs, *)
(* starting one without events or while another of the thread is counted,  *)
(* stopping one that does not run, cleaning up one whose start failed.     *)
Refused(s) ==
  /\ Calls(Owner[s])
  /\ \/ sets[s].running \/ sets[s].mev = <<>>
     \/ hw[Owner[s]].run # None
     \/ sets[s].status = "MPX_RUNNING"
  /\ UNCHANGED vars

-----------------------------------------------------------------------------
Call(s) ==
  \/ Refused(s)
  \/ \E e \in Events : AddEvent(s, e) \/ RemoveEvent(s, e)
  \/ Cleanup(s) \/ StartEvents(s) \/ ResetRead(s) \/ StopRead(s)

Step(t) == StartTimer(t) \/ ResetStart(t) \/ StopEvents(t) \/ mpx_handler(t) \/ Work(t)

Next == (\E s \in Sets : Call(s)) \/ (\E t \in Threads : Step(t))

(* The program goes on; the interval of the timer, ten milliseconds of     *)
(* processor time, is time and again enough for a decent slice; and the    *)
(* signal is not for ever late for one.                                     *)
Ripen(t) == hw[t].c = MPX_MINCYC - 1 /\ Work(t)
Turn(t) == Decent(t) /\ mpx_handler(t)

Fairness ==
  \A t \in Threads :
    /\ WF_vars(StartTimer(t) \/ ResetStart(t) \/ StopEvents(t))
    /\ WF_vars(Work(t)) /\ SF_vars(Ripen(t)) /\ SF_vars(Turn(t))

Spec == Init /\ [][Next]_vars /\ Fairness

-----------------------------------------------------------------------------
(* What is promised.                                                       *)

\* Types; an EventSet has a start value for each of its events.
MultiplexTypeOK ==
  /\ sets \in [Sets -> [running : BOOLEAN, status : {"MPX_STOPPED", "MPX_RUNNING"},
                        mev : Seq(Events), start : Seq(Int)]]
  /\ \A s \in Sets : Len(sets[s].start) = Len(sets[s].mev)
  /\ master \in [Threads -> [Events -> [uses : Nat, active : Nat, prev_total_c : Nat,
                                        count_estimate : Nat,
                                        rate_estimate : [n : Nat, c : Nat \ {0}]]]]
  /\ thr \in [Threads -> [head : Seq(Events), cur : Events \cup {None}, total_c : Nat]]
  /\ hw \in [Threads -> [run : Events \cup {None}, n : Nat, c : Nat]]
  /\ timer \in BOOLEAN

\* Every master event has as many uses as there are EventSets with it and is
\* active for as many as are running; and the list of the thread has the used
\* ones and no others, once each.
UsesMatch ==
  \A t \in Threads :
    LET mine == {s \in Sets : Owner[s] = t}
        listed == {thr[t].head[i] : i \in DOMAIN thr[t].head}
    IN  /\ \A e \in Events :
             /\ master[t][e].uses = Cardinality({s \in mine : Holds(s, e)})
             /\ master[t][e].active =
                  Cardinality({s \in mine : Holds(s, e) /\ sets[s].status = "MPX_RUNNING"})
        /\ listed = {e \in Events : master[t][e].uses > 0}
        /\ Cardinality(listed) = Len(thr[t].head)

\* A thread has a current event exactly while one of its EventSets is running;
\* the current event is active and is the one that is counted: MPX_read and
\* MPX_stop, which use it unasked, find it.
CurrentRuns ==
  \A t \in Threads :
    /\ thr[t].cur # None <=> \E s \in Sets : Owner[s] = t /\ sets[s].status = "MPX_RUNNING"
    /\ thr[t].cur # None => master[t][thr[t].cur].active > 0
    /\ hw[t].run = thr[t].cur

\* As long as an EventSet is running the timer is set ("Restore the timer (for
\* other event sets that may be running)", says MPX_stop). It is not: the timer is
\* one for the process, and the thread whose last EventSet stops takes it from all
\* the others, whose events then no longer take turns.
TimerKept == \A s \in Sets : sets[s].running => timer

\* Two readings of a running EventSet never decrease, and neither does the value
\* PAPI_stop gives, unless it is reset in between ("don't do this as it can cause
\* decreasing values if read is called again before another sample happens"). The
\* words before that of MPX_NONDECR_HYBRID, that there "will still be occasions
\* when two consecutive PAPI_read will yield decreasing results", are no longer so.
ReadsNeverDecrease ==
  [][\A s \in Sets :
       sets[s].running /\ sets'[s].running /\ sets'[s].start = sets[s].start =>
         \A i \in DOMAIN Reading(s) :
           Reading(s)[i] <= Reading(s)'[i] /\ Reading(s)[i] <= LastReading(s)[i]]_vars

\* For a program of constant rates no count is ever more than what a counter of
\* the event's own would have shown: no cycle is extrapolated over twice.
NeverOverstates ==
  \A s \in Sets : sets[s].running /\ (\E r \in program.rates : program.rates = {r}) =>
    LET t == Owner[s]
    IN  \A i \in DOMAIN sets[s].mev :
          \A r \in IF sets[s].mev[i] = SCALE_EVENT THEN {1} ELSE program.rates :
            LastReading(s)[i] <= r * (thr[t].total_c + hw[t].c)

\* Every active event is counted again and again as long as the timer is set.
EveryTurn ==
  \A t \in Threads, e \in Events :
    master[t][e].active > 0 /\ timer
      ~> thr[t].cur = e \/ master[t][e].active = 0 \/ ~timer
=============================================================================
