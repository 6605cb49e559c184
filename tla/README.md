# Specifications of CPD_PAPI

The repository measures an n-body kernel with hardware counters: a small
program (`src/src`), a script that runs it, and the PAPI 4.2.0 library it is
linked with (`src/papi/papi-4.2.0`). The library carries nearly all of the
logic and all of the state that outlives a call, so it is the core of these
specifications; the program and its script have a module each, and one that
puts them together.

Paths below are relative to `src/`; `PAPI/` is `papi/papi-4.2.0/src/`.

## 1. Inventory

| Component | State | Operations | Hard behaviour | What makes it correct |
|---|---|---|---|---|
| EventSets (`PAPI/papi.c`, `papi_internal.c`, `papi_internal.h`) | `EventSetInfo_t`: flags, `EventInfoArray`, `NativeInfoArray`, control state, `sw_stop`, `master` | create, assign, add, remove, cleanup, destroy, start, stop, read, reset, accum, write, set_opt | one call fails half-way; a long sequence of legal calls; several EventSets share one context | owner counts match events; failed calls leave no trace; at most one runs; a reading is of the set's own events |
| Native event mapping (`papi_internal.c` 473-779, 1013-1182) | the two arrays | add, remove, compaction, lookup of positions | presets share native events; compaction moves counters | each native event mapped once; positions right |
| perf_events substrate (`PAPI/perf_events.c`) | `context_t` (open descriptors) per thread, `control_state_t` per EventSet | open/close a group, enable, disable, reset, read, ctl | the kernel refuses groups; a context is rebuilt by whoever comes next | the context counts what the running EventSet wants |
| Threads (`threads.c`) | ring of `ThreadInfo_t` | register, unregister, look up, gather | ring under a lock, found through TLS without it | no lost or freed `ThreadInfo_t` in use |
| EventSet table (`papi_internal.c` 245-537) | `dataSlotArray` and its counts | insert, grow, look up, remove | looked up without the lock it is changed under | a live handle finds its own EventSet |
| CPU attach (`cpus.c`) | list of `CpuInfo_t` | look up, insert, free | second owner of contexts | as for threads |
| Multiplexing (`multiplex.c`) | per-thread lists of groups, a timer | add, remove, start, stop, rotate | signal handler against calls | scaled counts monotone, no lost event |
| Overflow and profiling (`extras.c`) | signal and timer use counts | start/stop signal and timer, dispatch | signals during stop | handler runs only for running sets |
| High-level interface (`papi_hl.c`) | a state per thread | start, read, stop counters, rates | mixing of calls | calls refused in wrong states |
| Presets (`papi_preset.c`, `papi_libpfm*_*.c`), user events | static tables | look up | none after start-up | — |
| `n_body` (`src/main.c`, `n_body.c`, `errors.h`) | objects, counters of loops | one measured time step | every PAPI call may fail | all objects move at once; count covers the kernel |
| `run_tests.sh` | the result directory | clear, test, average, decide | failing runs, repetition until agreement | accepted averages agree; the loop ends |

The parts interact as follows. An application call finds its `EventSetInfo_t`
in the table, and the `ThreadInfo_t` of the thread it belongs to (`master`).
`_papi_hwi_get_context` hands out that ThreadInfo's context and notes in
`from_esi` who was last to use it; `PAPI_start` reopens the counters only if
somebody else was. The layer above the substrate keeps which native events an
EventSet needs and where in the group of counters each of them is; the
substrate opens a group for that list and reads it back. No lock is taken
around a call: EventSets, contexts and ThreadInfos belong to a thread by
convention, and only the table and the lists are shared.

Above that layer, the high-level interface keeps one EventSet per thread and is
a client of the low-level calls; software multiplexing keeps one EventSet per
native count, also through those calls, and switches between them in a signal
handler.

The line of each hazard is in `PROJECT.json`, with the properties that guard it
or the reason why none does.

## 2. Plan

1. `NativeEvents`, `PerfEvents`, `EventSets` (each extends the one before): the
   low-level interface as one application thread uses it. *Done.*
2. `CountingService`, `EventSetsService`: what the interface promises, and that
   EventSets implements it. *Done for plain use.*
3. `EventSetsProofs`: types, running flags, exclusion; `OwnersProofs`: owner
   counts and failed calls; `CountsProofs`: who counts what in the shared context,
   the positions of the counts, and the refinement. *Done.*
4. `NBodyRun`, `Campaign`, then `Measurement`, the script with the processes it
   starts, and `MeasurementProofs`. *Done.*
5. `ThreadList`, `EventSetTable` and `Registry`, which composes them: what the
   threads share, step by step; `ThreadService` and `RegistryService`, what of it
   a user of the library is promised; and `RegistryProofs`, for any number of
   threads. *Done.*
6. `HighLevel` over EventSets, and `HighLevelProofs`. *Done.*
7. `Multiplex`: the rotation against the calls, and `MultiplexProofs`. *Done;
   the passing run has one thread, Timer two, the proofs any number.*

What is left, in the order of its use: the overflow handler against stop and
start (`extras.c`, `linux-timer.c`); `_papi_hwi_bipartite_alloc` against the
definition of a matching; the CPU_ATTACH and INHERIT options.

## 3. Modules

| Component | Module | Composed in |
|---|---|---|
| native events of an EventSet | NativeEvents | EventSets |
| perf_events contexts and groups | PerfEvents | EventSets |
| low-level calls | EventSets | EventSetsService (refines CountingService), HighLevel |
| high-level calls | HighLevel | |
| software multiplexing | Multiplex | |
| ring of ThreadInfo_t | ThreadList | Registry |
| table of EventSets | EventSetTable | Registry |
| registration, create, destroy, attach, shutdown | Registry | RegistryService (refines ThreadService) |
| n_body | NBodyRun | Measurement |
| run_tests.sh | Campaign | Measurement |

**NativeEvents** — `NativeInfoArray` and `EventInfoArray` and their pure
operations: `AddNatives` (add_native_precheck, add_native_events), `FailClean`
(add_native_fail_clean), `RemoveNatives` = `Compact` of `Lose`
(remove_native_events), `Remap`/`Located` (_papi_hwi_remap_event_position),
`Without` (the compaction in _papi_hwi_remove_event). The arrays are dense
prefixes between two calls, hence sequences; a position is an index from 1. A
preset is the sequence of its native events; how its value is computed from
them (derived events) is left out, and a reading is the set of the counts that
go into it.

**PerfEvents** — a context is `[fds, on, n]`: what is open, whether the group
leader is enabled, and for how long it has counted since the last reset. A count
is what was counted (native event, domain, thread) and for how long. All
counters of a group start, stop and reset together, so one `n` is enough.
`Verdicts` is the kernel's answer to opening a group: refused when it is longer
than HwCounters, and possibly for no visible reason when OpenMayFail.

**EventSets** — one action per call, the whole call in one step, guards and
error codes in the order of the code. `AddEvent` includes the binding to the
component, the mapping, the rebuilding and, when the kernel refuses, the
clean-up and the putting back of the old group, which may fail in turn; `Start`
includes the reopening, the second look-up of positions, and the undoing of the
flags. `AddRefusal` has the two bounds of the code: NumCntrs for the events (one
that is not multiplexed may list no more than the counters there are) and
NumMpxCntrs for the native events. `SetDomain` and `Attach` may be refused by
check_permissions, with PAPI_EPERM; the EventSet is by then the last user of the
context, as it is after one that succeeds. `Liberties` says which orders of calls the application uses; the library
accepts all of them. With none of them taken, an application only adds events,
sets a domain before it adds any, does not change one EventSet while another
runs, and does not attach.

**CountingService**, **EventSetsService** — the promise without counters,
positions and contexts, and the refinement mapping to it. The run that checks it
is HighLevel, whose every step is one of EventSets or none.

**HighLevel** — extends EventSets with `hl`, the thread's `HighLevelInfo`, and
`call`, where the high-level call in progress is. One step is one low-level
call: `Begin` is the look at `running` in PAPI_start_counters, `Add` one turn of
the loop over its array, `Abandon` the PAPI_cleanup_eventset of its failing path,
`StartCounters` the PAPI_start at the end; `Rate`, `StopRate`, `Restart` are
_rate_calls; `ReadCounters` and `ResetCounters` PAPI_read_counters, and so on. A
call that finds no HighLevelInfo makes one first (`CheckState`). Between the
calls the application uses EventSets of its own through the very actions of
EventSets. The only totals kept are those of instructions, in units of counted
time and in a float that holds every whole number up to Exact (2^24 in the code)
and beyond it the nearest of fewer, as the code keeps total_ins. `meter` is for
the properties: what was asked for, how much was counted, and whether an event
was ever left behind for want of PAPI_TOT_CYC (`left`).

**Multiplex** — a step is a section of code with the signal blocked, so that
`mpx_handler` comes between any two: MPX_start and the starting of the timer,
the read and the shifting of MPX_reset, the read and the stopping of MPX_stop.
`sets` is the MPX_EventSet, `master` the MasterEvents, `thr` the Threadlist, `hw`
the slice the current event has been counted for. `Work` is a cycle of the
program, in which the current event is counted some number of times. What each
application does (`Programs`) is chosen at the start: the events it puts in each
EventSet, the rates they may have, and whether it resets. `Shifted`, `Rotated`,
`Estimated` are the code's array shifts, choice of the next event, and
extrapolation, in whole numbers cut as the conversion to long long cuts.

**ThreadList** — the ring with each ThreadInfo_t at an address that may be used
again after free: `Allocate`, `Insert` (the stores of insert_thread one by one
where another thread may see them), `Search`, and `RemoveThread` with its
walk. **EventSetTable** — `map` (dataSlotArray, totalSlots, availSlots,
fullSlots) with the doubling store by store, unlocked look-ups as the two loads
they are (`array` numbers the array that is allocated, so a reader that has
loaded the pointer before a realloc is recognised: `Stray`, after which `wild`
holds and nothing is claimed), the slot search, freeing before the slot is
cleared, and the unlocked walk of a thread's shutdown. **Registry** — the calls
made of these parts: library_init, register, create, destroy, attach,
unregister, shutdown; `doing` says what each thread is in the middle of.
_papi_hwi_lookup_thread has an int for a parameter (`PAPI/threads.h:96`), so
`LookupThread` looks for `AsInt` of a tid: the tid itself, or for a thread in
`Wide`, whose tid does not fit, one that no ThreadInfo_t has.

**ThreadService**, **RegistryService** — what is left of Registry without ring,
table, memory, locks and calls in progress: `known`, the tids a look-up would
find; the handles of each thread; and whether the library is down, being
initialised, up, or being shut down. The mapping takes for `known` whom the walk
from the head passes (`Known`), at every moment, also between the stores of
insert_thread and remove_thread while another thread holds the lock. Three
things a reader might not expect are part of the promise, as the code gives no
more: two threads may meet one process at a time (`Meet` of what is known
already); a thread may leave before its last handles are void (`Leave`, then
`Forget`); and an initialisation may end with nobody known (`Opened`), as
allocating the first ThreadInfo_t may fail.

**NBodyRun** — papi_run and n_body() call by call and loop turn by loop turn.
A coordinate is what it was computed from, so the properties can say which
positions a sum was made of.

**Campaign** — run_tests.sh with awk, sort and the arithmetic of its test.
**Measurement** — the script starts n_body processes (`Exec`), which take the
steps of NBodyRun, and waits for each (`Wait`): what it has printed by then is
what the events file gains, a line or nothing.

MCEventSets, MCHighLevel, MCMultiplex, MCRegistry and MCMeasurement give the
modules their model values. Operators introduced as "a slip in X" are not part
of the specification; each has the shape of X with a plausible mistake and
serves to show that a property notices it.

## 4. Runs

| Run | Module | Checks | Outcome |
|---|---|---|---|
| EventSetsAll | MCEventSets | TypeOK, OwnersMatch, FailedCallUndone | hold |
| EventSetsRunning | MCEventSets | ExclusiveRun, RunningAgrees | hold |
| EventSetsRemove | MCEventSets | PositionsHold | violated |
| EventSetsDomain | MCEventSets | ReadsOwnDomain | violated |
| EventSetsAttach | MCEventSets | ExclusiveRun | violated |
| HighLevel | MCHighLevel | HighLevelTypeOK, RunsWhatWasAsked, TotalsAddUp, CountsItsOwn, PositionsHold, ServesCounts | hold |
| HighLevelMixed | MCHighLevel | RunsWhatWasAsked | violated |
| Multiplex | MCMultiplex | MultiplexTypeOK, UsesMatch, CurrentRuns, NeverOverstates, ReadsNeverDecrease, EveryTurn | hold |
| Timer | MCMultiplex | TimerKept | violated |
| Registry | MCRegistry | RingWhole, SearchEnds, SlotsCounted, HandlesHold, FindsItself, MastersLive, ShutdownFrees, ServesThreads | hold |
| Measurement | MCMeasurement | MovesAtOnce, CountsKernel, Settles | hold |
| Margin | MCMeasurement | FivePercent | violated |

*EventSetsAll* takes every liberty with one EventSet: three native events, a
preset that shares one of them, a preset without any, arrays of three and a
group of two, so that events share counters, adds are refused by the array and
by the kernel, and every order of removals moves every counter. *EventSetsRunning*
has two EventSets in one context, fewer events allowed than native events, and a
kernel that refuses at will: every failing path of start, add and remove. Counts
play no part in the properties of either, so time stands still in EventSetsRunning
(MaxTicks = 0), and in EventSetsAll an EventSet is followed until counts are read
into it (Unread).

*HighLevel* has two EventSets, the high level's own and one of the application,
a kernel that refuses groups, an event that is not available, one that shares a
native event with PAPI_TOT_CYC, and an array that lists an event twice. The two
EventSets take the context from one another, one tick tells counted from not
counted, and two domains tell whose settings were used: so the run is also the
one of the low level in plain use, whose properties it checks. Without the overlap
liberty the application does not call the high level while an EventSet of its own
is running; with it, *HighLevelMixed* is violated.

*Multiplex* has one thread, two EventSets and three events of which one is in
both; in one application three events take turns at a constant rate, in the
other two events change their rate and the EventSet is reset while it runs.
*Timer* has two threads, each with an EventSet of the same two events.
*Registry* has two threads, one of them in Wide, that may both attach to a third
process, three addresses for ThreadInfos and three for EventSets, so that what is
freed is used again at once, and a table that starts with one slot and doubles.
*Measurement* runs the script over two tests, of two and of four objects, with
any PAPI call of any process failing. Its averages are 50, 60 and 1000: two that
pass for the same, one that does not, and one with more digits than they, which
the textual sort puts first. *Margin* has the same script with 60 and 1000.

What the violations show:

- **PositionsHold after a removal.** The native event moved into the hole is
  still looked up at its old index (`PAPI/papi_internal.c:1166`).
- **ReadsOwnDomain.** PAPI_set_opt(PAPI_DOMAIN) after the events were added does
  not touch what is open, and makes the EventSet the last user of the context,
  so that PAPI_start does not reopen it either (`PAPI/papi.c:3283`).
- **ExclusiveRun with attached EventSets.** `running_eventset` is not set for
  them (`PAPI/papi.c:1778`).
- **RunsWhatWasAsked next to a running EventSet.** PAPI_start_counters cleans up
  when an event cannot be added, but not when the start at its end fails
  (`PAPI/papi_hl.c:540`): its events stay, and the next call adds to them.
- **TimerKept with two threads.** MPX_stop of the thread that has nothing left to
  count stops the interval timer of the process (`PAPI/multiplex.c:1136`), although
  its end says "Restore the timer (for other event sets that may be running)". The
  other thread stays with the event it was counting. Within one thread nothing
  of the kind can happen, as no other EventSet of it runs then.
- **FivePercent.** The script speaks of a margin of 5 % (`src/run_tests.sh:28`,
  `:54`, `:57`) and tests for 0.5 (`:55`) against the first line of a textual sort
  (`:49`). The run has 60, 60 and 1000 accepted: "1000" is sorted first, and no other
  average is more than half above it.

PositionsHold holds in plain use, ExclusiveRun without attaching and
RunsWhatWasAsked without overlap: the same properties are in passing runs.

Met while modelling, and part of the models, with a property that says what holds
nevertheless:

- *A narrowed thread id.* PAPI_unregister_thread frees the EventSets whose master
  is the ThreadInfo that a look-up of the thread's tid gives. The tid passes
  through an int there (`PAPI/threads.c:388`, `PAPI/threads.h:96`): an id of
  pthread_self() where a long has 64 bits is not found, no EventSet is freed, and
  those of the thread keep a master that has been. MastersLive therefore speaks of the
  EventSets of handles for all threads, and of what a thread leaves behind for
  those whose tid fits an int. A tid outside Wide is found by itself; that a tid
  cut to its low bits, or to zero, is that of another thread is left out.
- *An event left behind.* When PAPI_TOT_CYC is not available, a rate call returns
  with its first event in the EventSet (`PAPI/papi_hl.c:374`), where the branches
  around it clean up. RunsWhatWasAsked speaks of the time before that (`left`). The
  runs have PAPI_TOT_CYC; with `TOT_CYC = ops`, an event that is not available, the
  property holds as well, and fails after one call without that exception. The
  theorem covers both.
- *A comment that is out of date.* "There will still be occasions when two
  consecutive PAPI_read will yield decreasing results" (`PAPI/multiplex.c:51`)
  was true when every read extrapolated. With MPX_NONDECR_HYBRID (`:26`), which is
  on, a read gives the estimates as the handler left them and only PAPI_stop
  extrapolates (`:937`): ReadsNeverDecrease holds.
- *Forces.* The inner loop of n_body runs over the object itself too, whose zero
  distance is divided by, and z uses the differences along y (`src/n_body.c:62`,
  `:72`, `:78`), where the report says "all the other objects"
  (`report/sec2papi.tex:23`). The terms are the code's; MovesAtOnce asks that there
  be one for each other object and that all be of positions from before the step.
- *Runs that fail as a whole.* When no process of a run prints a line, awk stops at
  the division by zero and the line of times stays open (`src/run_tests.sh:46`).
  If that happens to all three, the file has a single line, nothing is compared,
  and the test is accepted without any measurement. Settles has it outside its
  premise, and FivePercent is about tests that were measured.

Smaller things, which no run is about:

- After a timer that could not be started, removing an event of the EventSet, the
  master event of which is still active, reaches the assertion at
  `PAPI/multiplex.c:1446` and ends the program. The application of Multiplex does not
  make that call (Quiet).
- PAPI_start refuses a second multiplexed EventSet of a thread, so the branch of
  MPX_start for events that are active already is never taken. PAPI_stop of a
  multiplexed EventSet returns before it writes sw_stop (`PAPI/papi.c:1880`). When
  the timer cannot be started the status stays MPX_RUNNING (`PAPI/multiplex.c:900`),
  and MPX_read returns with the signal still held when its counters cannot be
  read (`:925`). PAPI_set_multiplex of an EventSet with events adds them a second
  time when the first attempt fails half-way (`PAPI/papi_internal.c:1363`).
- PAPI_accum reads and then resets: what is counted in between is lost.
- Two threads that attach to one process at a time both make a ThreadInfo for
  it (`PAPI/threads.h:149`); an EventSet of a thread that is attached elsewhere is
  not among those its unregistering frees; and a thread that has unregistered
  before it calls PAPI_shutdown frees none of the ThreadInfos it made.

### Bounds

MaxSets bounds the EventSets alive at a time, MaxTicks the time a counter runs
between resets. NumCntrs, NumMpxCntrs, HwCounters, InitSlots,
MPX_MINCYC and Exact are parameters of the code that the instances make
small. In Registry, Infos and Blocks bound what is allocated at a time, and
MaxSlots the table: two doublings differ from one in nothing but the numbers. In
Multiplex, MaxSlice is how late the timer is noticed, and MaxCycles where total_c
stays; a slice of MaxSlice = MPX_MINCYC is a decent one, a shorter one is not,
and the instance reaches estimates made of several slices of each. MeterBound
ends a measurement of the high level after three units of time, one more than
Exact, so that the total is rounded, too. Unread ends what an EventSet of
EventSetsAll does once it has read a count, as the arrays do not depend on it.
Nothing else is bounded. The largest runs are HighLevel (2,723,391 states, two and a half minutes), Registry (1,600,400,
with addresses interchangeable, which is sound as none is compared but with another
for equality), EventSetsRunning (466,171) and Multiplex (127,915, with liveness),
each a minute or less.

### Fairness and deadlock

- *Measurement*: weak fairness of the whole. A script that waits for each
  process, and a process without an unbounded loop, go on. Settles says that if
  from some time on every run gives the same average, the campaign ends; without
  the premise it need not, as the code has no limit to its repetitions.
- *Multiplex*: weak fairness of the sections of a call once begun and of the
  program's work (`Work`), and strong fairness of `Ripen` and `Turn`: the timer
  interval of ten milliseconds of processor time is many times MPX_MINCYC, so
  that time and again the signal finds a slice that is long enough. It is strong
  because a call may stop a slice at any time. Nothing makes the application
  call, start or stop.
- *Registry* has none: that a look-up ends is stated as SearchEnds, a safety
  property, and that nobody waits for everybody is the absence of deadlock. A
  spin lock promises no more to a single thread.
- The library is otherwise passive, so EventSets and HighLevel have no fairness.

Deadlock is checked everywhere but in Measurement and Margin, which end.

## 5. Proofs

Checked by TLAPS for every value of the constants under the named assumptions of
the modules (presets made of distinct native events, at least one counter, the
calling thread among the threads, null values that are neither an EventSet or
event nor a record of the model, and in Registry and Multiplex finitely many
addresses and EventSets).

- `EventSetsProofs!TypesHold`: `Spec => []TypeOK`. TypeOK is inductive by
  itself: besides the types it says that both arrays fit and that each event has
  one position per native event, inside the array of counts. The work is in
  `NativeEventsProofs`: AddNatives and Compact return sequences of the right
  length and element type, the indices `Nth` picks exist, and Remap finds a
  position once the natives are all positioned.
- `EventSetsProofs!RunningHolds`: `Spec => []RunningAgrees`, if "attach" is not
  among the liberties. RunningAgrees is not inductive alone: a call on one
  EventSet could then disturb the flags of another of a different ThreadInfo.
  `IInv == TypeOK /\ RunningAgrees /\ Home`, where Home says that without
  attaching no EventSet is attached and all of them belong to the caller.
- `EventSetsProofs!ExclusiveRunHolds`: `Spec => []ExclusiveRun` under the same
  condition, from IInv: two running EventSets of one ThreadInfo would both be its
  running_eventset. The condition is needed, as EventSetsAttach shows.
- `OwnersProofs!OwnersMatchHolds`, `FailedCallUndoneHolds`: `Spec => []OwnersMatch`
  and `Spec => FailedCallUndone`, if PAPI_remove_event is not used or the
  kernel opens every group that fits. `OInv == TypeOK /\ Tidy`, where Tidy says of
  every EventSet that its owner counts are those of its events, that no native is
  there twice, that an unbound EventSet is empty, that every event has natives, and
  that the natives fit the counters: so the group a removal reopens, which is no
  longer than the one before, is not refused. The key lemmas are UsersGrow
  and UsersShrink (how the number of events that need a native changes),
  FailCleanRestores (add_native_fail_clean takes back just what the failed
  add_native_events put in, although the two run in different orders) and
  CompactIs (the compaction renumbers and loses nothing).
- `CountsProofs!CountsItsOwnHolds`: `Spec => []CountsItsOwn` if the only liberty
  taken is "remove", and then the kernel opens every group that fits.
  `KInv == IInv /\ OInv /\ Ready`; Ready ties the context to the EventSets: what
  is open is what the EventSet that last opened it asked for, in its domain and
  order, and the running EventSet is that one, with a group that is enabled. The
  property says the same of natives, domain and thread, of the running EventSet.
- `CountsProofs!PositionsHoldHolds`: `Spec => []PositionsHold` if no liberty is
  taken. `PInv == KInv /\ Places`: the positions of an EventSet's natives are
  their indices, and those of its events are the positions of their natives. The
  condition is needed, as EventSetsRemove shows.
- `CountsProofs!ServesCountsHolds`: `Spec => ServesCounts` if no liberty is taken,
  so that EventSets implements CountingService. `SInv == PInv /\ Spares`; Spares
  adds that sw_stop is zero beyond the events an EventSet has, and that an unbound
  EventSet has the default domain. There is one lemma per call, which shows that
  each of its outcomes is the service's call, a refusal, or without a trace, and
  one for Tick. The heart is ValuesAre: what a read finds at the positions of an
  EventSet's events, in the group that is open, are the readings of those events.
- `HighLevelProofs!HighLevelIsLowLevel`: every step of the high level is a step
  of EventSets or none, so each invariant of EventSets is one of HighLevel.
  `RunsWhatWasAskedHolds`: if neither "attach" nor "overlap" is among the
  liberties, `HSpec => []RunsWhatWasAsked`. The property speaks of moments
  between two calls, and the inductive
  `HIInv == IInv /\ Held /\ Underway /\ Stage` of all moments: Held, that the
  EventSet of the high level exists and is the caller's; Underway, that it is
  idle or running as `running` says; Stage, how much of the array the EventSet
  holds at each place of a call. The heart is that PAPI_start at the end of a
  start cannot fail: the events have just been added, so the group is the one
  that is open, and nothing of the application is running. It does not assume that
  PAPI_TOT_CYC is available: the invariant and the property stop where an event
  is left behind for want of it (`left`, see 4). HighLevelIsLowLevel and the two
  below do assume it, as after that a start may fail like any other.
- `HighLevelProofs!TotalsAddUpHolds` and `HighLevelTypesHold`, under the same
  conditions and where PAPI_TOT_CYC is available: `TInv == HIInv /\ Sums`. In the middle of a call the total is all
  that was counted, or all but what the EventSet still counts (NotYet); that a
  running EventSet's context is on, so that it counts whenever time passes; that a
  total is zero when nothing runs, as the next rate begins with it; and that the
  calls that set the counters to zero belong to PAPI_start_counters. The proofs
  rest on HIInv again: a restart that failed would lose what was counted after
  it. FloatAddIs is about floats: a sum up to Exact is exact, any other still a
  whole number. OthersQuiet shows that the application's own calls leave the
  context alone while the high level runs.
- `RegistryProofs`: all eight properties of Registry, for any number of threads,
  processes to attach to, addresses and slots. Three invariants are proved
  together with one another. `Calls == RingInv /\ Shapes /\ Control` is about
  the threads and the ring. RingInv holds between the stores of insert_thread and
  remove_thread too: what the next pointers go round is `Round`, the entries
  inserted and the one that is linked but not yet the head; it is a Cycle (no two
  entries have the same successor and no part of it is closed in itself); what
  is allocated and not in the ring is in one thread's hand; and each thread's
  thread-local variable names its own entry. Control says for each place of each
  call which operation is under way and what it has found. The key lemma is WalkIs: a
  walk of as many hops as the Cycle has entries meets each and is back at the
  head. With it `RingWholeHolds`, `SearchEndsHolds` and `FindsItselfHolds` follow.
  `Remaining` says what the loop of PAPI_shutdown has yet to come to, a set of as
  many entries as it counts on taking; `ShutdownFreesHolds` rests on it. `Table`
  is about the EventSets: each handle that was not given back has its slot, what a
  thread creates is in no slot until it fills an empty one, what is being removed
  is still counted, and a thread that unregisters, if a look-up finds it, has freed
  its own up to where it is. From it follow `SlotsCountedHolds`, `HandlesHoldHolds` and, with Calls,
  `MastersLiveHolds`.
- `RegistryProofs!ServesThreadsHolds`: `RegistrySpec => ServesThreads`, so that
  Registry implements ThreadService. It adds `Fresh` to the three invariants:
  while the library is down nothing is in the ring, unless PAPI_library_init has
  just put its caller there. SeenIs says whom the walk passes: all of the Round, or nobody
  between the two stores that insert the first entry. So Known changes when an
  entry is linked after another, when the first becomes the head, and when one is
  unlinked, and with none of the other stores (RingShows, OutsideShows); which
  call the entry belongs to, and with that which step of the service it is, is
  what Control knows (RingServes, TableServes). The steps of a call before, between and
  after change neither Known nor the handles (GoesServes); that a handle is taken
  by nobody who is not known, and by nobody who finds it taken, needs Table.
- `MultiplexProofs`: all safety properties of Multiplex and ReadsNeverDecrease.
  `Inv == Types /\ InSet /\ InThread`; InThread says of each thread that its list
  has the events in use (InList); that one EventSet runs at a time, whose events
  are active, while the others have no estimate (InTurn); that the current event
  is one of the running EventSet and no event was noted later than now (Counted);
  what a call between its two sections may rely on (Underway); and that with a
  constant rate an estimate is at most the rate times the time noted (AtRate).
  UsesMatch is not inductive without InTurn: the reset of estimates in MPX_start
  and the choice of the next event presume that no other EventSet of the thread is
  active. AtRate is why `NeverOverstatesHolds`: what is noted and what lies ahead
  add up to the whole time, and ScaledIs bounds a quotient of whole numbers by its
  rate. All hold
  for any number of threads.
- `MeasurementProofs!MovesAtOnceHolds`, `CountsKernelHolds`: for any sizes, objects,
  events and times. Their common invariant `MInv` says what the n_body process has
  summed up, moved and counted when its loops are at i and j, and which test and
  run the process that exists belongs to.

Every safety property of the passing runs has a theorem. Only model-checked, as it
is out of the prover's reach: liveness (Settles, EveryTurn) and ENABLED. The induction theorems of the library cannot be used, as they take
an operator; where an induction over a walk or a list is needed (WalkIs, UsedIs,
DistinctLength) the proofs make it with the set of the numbers for which the
claim holds and its least missing member (NatLeast, NatInd).

## 6. What the models leave out, and choices they make

- One component, perf_events, without kernel multiplexing, overflow, profiling,
  inherit and CPU attach; derived values; names and descriptions.
- In EventSets a call is atomic: nothing in the library runs between two steps of
  it on the same thread, as the overflow signal is left out and Multiplex has the
  other; other threads have EventSets of their own, and what they share is in
  Registry.
- The loop of _papi_pe_read declares `buffer` inside its body and fills it only in
  the turn of the group leader (`PAPI/perf_events.c:1054`). Formally the other
  turns read an indeterminate value; a build keeps the array in one stack slot,
  which nothing writes in between, so they find what the leader's turn read, and
  that is what Fetched says.
- When enabling fails for a context with nothing open, the code uses the
  descriptor number left in the control state; it is taken to be closed, that is
  not to have been given out again for something else.
- A context whose group is closed under a running EventSet (the "overlap"
  liberty) stays a matter of Quiet: CountsItsOwn and the refinement are claimed
  for plain use only. Multiplex takes the same for granted: adding to another
  multiplexed EventSet while one runs closes the counters of that one.
- `sw_stop` is not compacted when an event is removed from a stopped EventSet;
  Stopped keeps that.
- Registry: memory is that of malloc as this build uses it (PAPI_NO_MEMORY_MANAGEMENT,
  `PAPI/Makefile:57`); the substrate's own part of a ThreadInfo is left out but for
  its failing; the application uses the handles it was given and no others, does
  not call while the library is initialised or shut down, and attaches to
  processes that do not use PAPI. What PAPI_shutdown leaves behind is not followed
  after a new PAPI_library_init.
- EventSets: a domain is one the component has, so PAPI_EINVAL_DOM does not occur;
  an addition that finds an array full is refused in one step, where the code
  maps some natives and takes them back again (`PAPI/papi_internal.c:717-728`); and a
  failing look-up or allocation of the ThreadInfo of a process attached to, which
  PAPI_attach ignores (`PAPI/papi.c:3083`), is left to Registry.
- Multiplex: all events of a thread share their domain and granularity; refused
  additions, MPX_shutdown and PAPI_set_multiplex of an EventSet that has events
  are left out.
- n_body: masses, speeds and rounding are left out; N is at most the number of
  lines of the input. Campaign: times are whole numbers as awk prints them, and
  the sort is that of the C locale.

### Not modelled

- *Most of the repository by lines.* Of its 415,170 lines of C, shell and the like,
  about nine in ten are tables of events and encodings of two versions of libpfm,
  libperfctr with its kernel patches, substrates of other systems and processors
  (AIX, Solaris, FreeBSD, BlueGene, perfctr, perfmon), and test programs. They
  either have no state or are not in the build used here; perf_events is the
  substrate of the systems the measurements ran on.
- *library_init by two threads.* `papi.c:510` counts up a volatile variable before
  it looks: two threads at once both find it too high and both sleep until the
  other goes. The documentation has the library initialised before threads are
  made, which Registry follows.
- *PAPI_write* ends in an error of perf_events, which does not implement it;
  *PAPI_add_events* and *PAPI_remove_events* are loops of the calls modelled;
  *PAPI_state* and other queries change nothing.
- *Overflow and profiling*: what their handlers see is in mmap ring buffers and
  register contents, outside the state of these models; n_body uses neither.
- *CPU attach*: the list of CPUs is a copy of the ring of threads with other names,
  the context another owner for what EventSets has.
- *Presets, user events, component vector, debugging allocator, locks*: tables
  filled once, or a few instructions of assembly.
- *_papi_hwi_bipartite_alloc*: called by substrates that choose counters; with
  perf_events the kernel does (Verdicts).
