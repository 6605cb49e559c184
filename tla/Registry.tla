------------------------------ MODULE Registry -------------------------------
(***************************************************************************)
(* What the threads of an application share in PAPI: the ring of           *)
(* ThreadInfo_t (ThreadList) and the table of EventSets (EventSetTable),   *)
(* and the calls that change them, step by step, of any number of threads. *)
(*                                                                         *)
(* The application keeps to the documentation: it attaches only to         *)
(* processes that do not use PAPI themselves, uses the handles it has, and *)
(* calls PAPI_shutdown when the other threads have unregistered, after     *)
(* which one of them may initialise the library again.                     *)
(***************************************************************************)
EXTENDS EventSetTable

VARIABLES
  doing,   \* the call each thread is in
  up       \* init_level: may calls be made?

regvars == <<threadvars, tablevars, doing, up>>

NoCall == [call |-> "none", stage |-> "none", tid |-> None, block |-> None, tmp |-> None, n |-> 0]

RegistryInit ==
  /\ ThreadListInit /\ TableInit
  /\ doing = [t \in Threads |-> NoCall] /\ up = FALSE

Doing(t, stage) == doing[t].stage = stage
Begin(t, call, stage) ==
  doing' = [doing EXCEPT ![t] = [NoCall EXCEPT !.call = call, !.stage = stage]]
Then(t, stage) == doing' = [doing EXCEPT ![t].stage = stage]

\* Nobody calls while the library comes up or goes down.
Ready(t) ==
  up /\ doing[t] = NoCall /\ \A u \in Threads : doing[u].call \notin {"init", "shutdown"}
RingDone(t, stage) == Doing(t, stage) /\ at[t].pc = "done"
TableDone(t, stage) == Doing(t, stage) /\ op[t].pc = "done"

InRing == UNCHANGED <<tablevars, up>>
InTable == UNCHANGED <<threadvars, up>>

\* The call is over: what its parts have left in at and op is gone.
Return(t) ==
  /\ doing' = [doing EXCEPT ![t] = NoCall]
  /\ at' = [at EXCEPT ![t] = Away] /\ op' = [op EXCEPT ![t] = Resting]
  /\ UNCHANGED <<ring, my_thread, map, array, esi, INTERNAL_LOCK, handles, wild, up>>

-----------------------------------------------------------------------------
(* PAPI_register_thread, and PAPI_create_eventset, which registers the     *)
(* thread on the way when that has not been done.                          *)
Register(t) ==
  /\ Ready(t) /\ my_thread[t] = None
  /\ \E call \in {"register", "create"} : Begin(t, call, "register")
  /\ Allocate(t, t) /\ InRing

Registered(t) ==
  /\ RingDone(t, "register")
  /\ IF doing[t].call = "create" /\ Entry(t) # None
     THEN NewEventSet(t, Entry(t)) /\ Then(t, "create") /\ InTable
     ELSE Return(t)

Create(t) ==
  /\ Ready(t) /\ my_thread[t] # None
  /\ NewEventSet(t, my_thread[t]) /\ Begin(t, "create", "create") /\ InTable

Created(t) == TableDone(t, "create") /\ Return(t)

-----------------------------------------------------------------------------
(* PAPI_destroy_eventset of an EventSet that is stopped and empty.         *)
Destroy(t) ==
  /\ Ready(t)
  /\ \E h \in handles[t] : LookupEventSet(t, h)
  /\ Begin(t, "destroy", "lookup") /\ InTable

Doomed(t) ==
  /\ TableDone(t, "lookup") /\ doing[t].call = "destroy"
  /\ FreeEventSet(t, op[t].block, "freed") /\ Then(t, "destroy") /\ InTable

Destroyed(t) == TableDone(t, "destroy") /\ Return(t)

-----------------------------------------------------------------------------
(* PAPI_attach: the master becomes the ThreadInfo of the process, which is *)
(* made if the ring has none.                                              *)
Attach(t) ==
  /\ Ready(t)
  /\ \E h \in handles[t], tid \in Targets :
       /\ LookupEventSet(t, h)
       /\ doing' = [doing EXCEPT ![t] = [NoCall EXCEPT !.call = "attach", !.stage = "lookup", !.tid = tid]]
  /\ InTable

Attaching(t) ==
  /\ TableDone(t, "lookup") /\ doing[t].call = "attach"
  /\ IF esi[op[t].block].master # my_thread[t] THEN Return(t)
     ELSE /\ LookupThread(t, doing[t].tid)
          /\ doing' = [doing EXCEPT ![t].stage = "target", ![t].block = op[t].block]
          /\ InRing

Target(t) ==
  /\ RingDone(t, "target")
  /\ IF Entry(t) = None THEN Allocate(t, doing[t].tid) /\ Then(t, "made") /\ InRing
     ELSE Attached(t, doing[t].block, Entry(t)) /\ Then(t, "attached") /\ InTable

Made(t) ==
  /\ RingDone(t, "made")
  /\ IF Entry(t) = None THEN Return(t)
     ELSE Attached(t, doing[t].block, Entry(t)) /\ Then(t, "attached") /\ InTable

IsAttached(t) == Doing(t, "attached") /\ Return(t)

-----------------------------------------------------------------------------
(* PAPI_unregister_thread: the EventSets of the thread go, then its        *)
(* ThreadInfo. The walk of the table looks for those of the ThreadInfo that*)
(* a look-up of its tid gives; if that is none, they all stay. The         *)
(* application does not use its handles any more.                          *)
Unregister(t) ==
  /\ Ready(t) /\ my_thread[t] # None
  /\ LookupThread(t, t) /\ Begin(t, "unregister", "self") /\ InRing

Sweep(t) ==
  /\ RingDone(t, "self")
  /\ WalkTable(t, Entry(t)) /\ Then(t, "sweep") /\ InTable

Swept(t) ==
  /\ TableDone(t, "sweep")
  /\ RemoveThread(t, my_thread[t]) /\ Then(t, "remove")
  /\ handles' = [handles EXCEPT ![t] = {}]
  /\ UNCHANGED <<map, array, esi, INTERNAL_LOCK, op, wild, up>>

Gone(t) == RingDone(t, "remove") /\ doing[t].call = "unregister" /\ Return(t)

-----------------------------------------------------------------------------
(* PAPI_shutdown, by the last thread: the EventSets, the table, its        *)
(* ThreadInfo, then one after the other those it made for processes it     *)
(* attached to. What is left in the ring is forgotten.                     *)
Others(t) == Threads \ {t}

\* A thread without a ThreadInfo of its own frees none; doing.tid is our_tid.
Shutdown(t) ==
  /\ Ready(t) /\ \A u \in Others(t) : doing[u] = NoCall /\ my_thread[u] = None
  /\ DropTable(my_thread[t])
  /\ \/ my_thread[t] = None /\ Begin(t, "shutdown", "each") /\ UNCHANGED threadvars
     \/ /\ my_thread[t] # None /\ LookupThread(t, t)
        /\ doing' = [doing EXCEPT ![t] = [NoCall EXCEPT !.call = "shutdown", !.stage = "own", !.tid = t]]
  /\ UNCHANGED up

ShutOwn(t) ==
  /\ RingDone(t, "own")
  /\ RemoveThread(t, my_thread[t]) /\ Then(t, "remove") /\ InRing

\* A slip in Count: the ring is counted as if the head were not in it.
CountOthers(t) ==
  /\ RingDone(t, "remove") /\ doing[t].call = "shutdown"
  /\ doing' = [doing EXCEPT ![t].stage = "each", ![t].tmp = thread_head,
                            ![t].n = IF Reached = {} THEN 0 ELSE Cardinality(Reached) - 1]
  /\ UNCHANGED threadvars /\ InRing

\* As entries go away during the loop, it is their number that ends it.
Count(t) ==
  /\ RingDone(t, "remove") /\ doing[t].call = "shutdown"
  /\ doing' = [doing EXCEPT ![t].stage = "each", ![t].tmp = thread_head, ![t].n = Cardinality(Reached)]
  /\ UNCHANGED threadvars /\ InRing

Each(t) ==
  LET x == doing[t].tmp
  IN  /\ Doing(t, "each") /\ doing[t].n > 0
      /\ doing' = [doing EXCEPT ![t].tmp = info[x].next, ![t].n = @ - 1,
                                ![t].stage = IF info[x].allocator_tid = t THEN "removing" ELSE "each"]
      /\ IF info[x].allocator_tid = t THEN RemoveThread(t, x) ELSE UNCHANGED threadvars
      /\ InRing

Removed(t) == RingDone(t, "removing") /\ Then(t, "each") /\ UNCHANGED threadvars /\ InRing

\* Nothing points to what is left behind any more; it is not followed.
Down(t) ==
  /\ Doing(t, "each") /\ doing[t].n = 0
  /\ thread_head' = None /\ members' = {} /\ my_thread' = [my_thread EXCEPT ![t] = None]
  /\ info' = [x \in Infos |-> None] /\ esi' = [e \in Blocks |-> None]
  /\ doing' = [doing EXCEPT ![t] = NoCall] /\ at' = [at EXCEPT ![t] = Away]
  /\ up' = FALSE /\ UNCHANGED <<THREADS_LOCK, map, array, INTERNAL_LOCK, op, handles, wild>>

\* PAPI_library_init, by one thread.
Init(t) ==
  /\ ~up /\ \A u \in Threads : doing[u] = NoCall
  /\ Allocate(t, t) /\ MakeTable /\ Begin(t, "init", "init") /\ UNCHANGED up

Up(t) ==
  /\ RingDone(t, "init") /\ up' = (Entry(t) # None)
  /\ doing' = [doing EXCEPT ![t] = NoCall] /\ at' = [at EXCEPT ![t] = Away]
  /\ UNCHANGED <<ring, my_thread, tablevars>>

-----------------------------------------------------------------------------
Call(t) ==
  \/ Init(t) \/ Register(t) \/ Create(t) \/ Destroy(t) \/ Attach(t) \/ Unregister(t) \/ Shutdown(t)

GoOn(t) ==
  \/ ThreadsGo(t) /\ UNCHANGED doing /\ InRing
  \/ TableGo(t) /\ UNCHANGED doing /\ InTable
  \/ Registered(t) \/ Created(t) \/ Doomed(t) \/ Destroyed(t)
  \/ Attaching(t) \/ Target(t) \/ Made(t) \/ IsAttached(t)
  \/ Sweep(t) \/ Swept(t) \/ Gone(t)
  \/ ShutOwn(t) \/ Count(t) \/ Each(t) \/ Removed(t) \/ Down(t) \/ Up(t)

Wait(t) ==
  \/ ThreadsWait(t) /\ UNCHANGED doing /\ InRing
  \/ TableWait(t) /\ UNCHANGED doing /\ InTable

\* What the process does then is anybody's guess; it is not followed.
Lost == wild /\ UNCHANGED regvars

RegistryNext ==
  \/ Lost
  \/ ~wild /\ \E t \in Threads : Call(t) \/ GoOn(t) \/ Wait(t)

RegistrySpec == RegistryInit /\ [][RegistryNext]_regvars

-----------------------------------------------------------------------------
(* What is promised.                                                       *)

\* The ThreadInfo a thread finds as its own is its own, in the ring, and the
\* only one there with its tid, until it unregisters.
FindsItself ==
  \A t \in Threads :
    my_thread[t] # None /\ at[t].pc # "unlinked" =>
      /\ my_thread[t] \in members /\ info[my_thread[t]].tid = t
      /\ \A x \in members : info[x].tid = t => x = my_thread[t]

\* The EventSet a thread has a handle of belongs to a ThreadInfo that is not freed.
\* No EventSet in the table belongs to the ThreadInfo a thread is taking away:
\* whatever others create, attach, destroy and reuse meanwhile, it has taken its
\* EventSets with it. That is so as long as its tid fits an int; the EventSets of
\* the other threads stay, with a master that is freed.
Listed(i, e) == e # None /\ esi[e] # None /\ esi[e].index = i
MastersLive ==
  /\ \A t \in Threads : \A h \in handles[t] :
       Listed(h, Slot(h)) => info[esi[Slot(h)].master] # None
  /\ \A t \in Threads \ Wide : at[t].pc \in {"unlinked", "free"} =>
       \A i \in 0..(map.total - 1) : Listed(i, Slot(i)) => esi[Slot(i)].master # Entry(t)

\* PAPI_shutdown by a thread that is registered forgets none in the ring that
\* this thread had made, neither its own nor one of a process it attached to.
ShutdownFrees ==
  [][\A t \in Threads : doing[t].call = "shutdown" /\ doing[t].tid = t /\ ~up' =>
       \A x \in members : info[x].allocator_tid # t]_regvars
=============================================================================
