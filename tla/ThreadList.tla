----------------------------- MODULE ThreadList ------------------------------
(***************************************************************************)
(* The ring of ThreadInfo_t (threads.c, threads.h): the threads known to   *)
(* PAPI, and those it has been attached to, linked by next from            *)
(* _papi_hwi_thread_head and changed under THREADS_LOCK only. What the     *)
(* caller's own ThreadInfo is it knows without the ring, from a            *)
(* thread-local variable.                                                  *)
(*                                                                         *)
(* The operations here are the parts the calls of Registry are made of.    *)
(* Each ends at pc "done" with its result in entry, and what was allocated *)
(* may be an address used before.                                          *)
(***************************************************************************)
EXTENDS Integers, FiniteSets

CONSTANTS
  Threads,   \* the application's threads, named by their tid
  Wide,      \* those of them whose tid does not fit an int, as pthread_self() gives
  Targets,   \* tids of processes they attach to
  Infos,     \* bound: the addresses malloc gives for a ThreadInfo_t
  None       \* NULL

ThreadInfo == [tid : Threads \cup Targets, allocator_tid : Threads, next : Infos \cup {None}]

ASSUME ThreadListAssumption ==
  /\ Threads \cap Targets = {} /\ Wide \subseteq Threads /\ IsFiniteSet(Infos)
  /\ None \notin Threads \cup Targets \cup Infos \cup ThreadInfo

VARIABLES
  thread_head,    \* _papi_hwi_thread_head
  info,           \* the ThreadInfo_t at each address, None where there is none
  my_thread,      \* _papi_hwi_my_thread of each thread
  THREADS_LOCK,   \* who holds it
  at,             \* where each thread is in these operations
  members         \* for the properties: what has been inserted and not removed

ring == <<thread_head, info, THREADS_LOCK, members>>
threadvars == <<ring, my_thread, at>>

Away == [pc |-> "idle", tid |-> None, entry |-> None]

ThreadListInit ==
  /\ thread_head = None /\ info = [x \in Infos |-> None] /\ THREADS_LOCK = None
  /\ my_thread = [t \in Threads |-> None] /\ at = [t \in Threads |-> Away]
  /\ members = {}

At(t, pc) == at[t].pc = pc
To(t, pc) == at' = [at EXCEPT ![t].pc = pc]
Found(t, x) == at' = [at EXCEPT ![t].pc = "done", ![t].entry = x]

Entry(t) == at[t].entry

-----------------------------------------------------------------------------
(* _papi_hwi_initialize_thread: allocate, let the substrate initialise, and*)
(* insert after the head. Both may fail, and nothing is left then.         *)
Allocate(t, tid) ==
  /\ UNCHANGED <<thread_head, my_thread, THREADS_LOCK, members>>
  /\ \/ \E x \in Infos :
          /\ info[x] = None
          /\ info' = [info EXCEPT ![x] = [tid |-> tid, allocator_tid |-> t, next |-> None]]
          /\ at' = [at EXCEPT ![t] = [pc |-> "insert", tid |-> tid, entry |-> x]]
     \/ at' = [at EXCEPT ![t] = [pc |-> "done", tid |-> tid, entry |-> None]] /\ UNCHANGED info

\* A slip in Acquire: the lock is not waited for.
AcquireAnyway(t, pc, then) ==
  At(t, pc) /\ THREADS_LOCK' = t /\ To(t, then) /\ UNCHANGED <<thread_head, info, my_thread, members>>
Acquire(t, pc, then) ==
  /\ At(t, pc) /\ THREADS_LOCK = None
  /\ THREADS_LOCK' = t /\ To(t, then) /\ UNCHANGED <<thread_head, info, my_thread, members>>

\* A slip in Linked: the new entry leads back to the head, however many there are.
LinkedShort(x) ==
  IF thread_head = None THEN [info EXCEPT ![x].next = x]
  ELSE [info EXCEPT ![x].next = thread_head, ![thread_head].next = x]
Linked(x) ==
  IF thread_head = None THEN [info EXCEPT ![x].next = x]
  ELSE [info EXCEPT ![x].next = info[thread_head].next, ![thread_head].next = x]

Link(t) ==
  /\ At(t, "link") /\ info' = Linked(Entry(t))
  /\ To(t, "head") /\ UNCHANGED <<thread_head, my_thread, THREADS_LOCK, members>>

\* A slip in Remembered: so does that of a process attached to.
RememberedAlways(t) == [my_thread EXCEPT ![t] = Entry(t)]
\* Only a thread's own ThreadInfo goes to its thread-local variable.
Remembered(t) == IF at[t].tid = t THEN [my_thread EXCEPT ![t] = Entry(t)] ELSE my_thread

SetHead(t) ==
  /\ At(t, "head")
  /\ thread_head' = Entry(t) /\ THREADS_LOCK' = None /\ members' = members \cup {Entry(t)}
  /\ my_thread' = Remembered(t)
  /\ Found(t, Entry(t)) /\ UNCHANGED info

-----------------------------------------------------------------------------
(* _papi_hwi_lookup_thread with a tid: the entry found becomes the head.   *)

\* The n-th entry of the walk from the head.
Hop[n \in Nat] == IF n = 0 THEN thread_head ELSE info[Hop[n - 1]].next
Walk == IF thread_head = None THEN {} ELSE 0..(Cardinality(Infos) - 1)
Reached == {Hop[n] : n \in Walk}

\* The tid as the int parameter has it: one that no ThreadInfo_t has, if it does
\* not fit.
AsInt(tid) == IF tid \in Wide THEN None ELSE tid

LookupThread(t, tid) ==
  /\ at' = [at EXCEPT ![t] = [pc |-> "lookup", tid |-> AsInt(tid), entry |-> None]]
  /\ UNCHANGED <<ring, my_thread>>

FindThread(t) ==
  LET hits == {n \in Walk : info[Hop[n]].tid = at[t].tid}
      x == IF hits = {} THEN None ELSE Hop[CHOOSE n \in hits : \A m \in hits : n <= m]
  IN  /\ At(t, "find")
      /\ thread_head' = IF x = None THEN thread_head ELSE x
      /\ THREADS_LOCK' = None
      /\ Found(t, x) /\ UNCHANGED <<info, my_thread, members>>

-----------------------------------------------------------------------------
(* remove_thread and free_thread. The search for the entry before the one  *)
(* to remove ends only if that is in the ring.                             *)
RemoveThread(t, x) ==
  /\ at' = [at EXCEPT ![t] = [pc |-> "remove", tid |-> None, entry |-> x]]
  /\ UNCHANGED <<ring, my_thread>>

\* A slip in Advanced: the head stays where it was.
AdvancedNot(x) == IF info[x].next = x THEN None ELSE thread_head
Advanced(x) ==
  IF info[x].next = x THEN None
  ELSE IF thread_head = x THEN info[x].next ELSE thread_head

Unlink(t) ==
  LET x == Entry(t)
  IN  /\ At(t, "unlink") /\ x \in Reached
      /\ \E prev \in Reached :
           /\ info[prev].next = x
           /\ info' = IF prev = x THEN [info EXCEPT ![x].next = None]
                      ELSE [info EXCEPT ![prev].next = info[x].next]
      /\ thread_head' = Advanced(x) /\ members' = members \ {x}
      /\ To(t, "unlinked") /\ UNCHANGED <<my_thread, THREADS_LOCK>>

Unlinked(t) ==
  /\ At(t, "unlinked")
  /\ THREADS_LOCK' = None /\ my_thread' = [my_thread EXCEPT ![t] = None]
  /\ To(t, "free") /\ UNCHANGED <<thread_head, info, members>>

FreeThread(t) ==
  /\ At(t, "free")
  /\ info' = [info EXCEPT ![Entry(t)] = None]
  /\ Found(t, None) /\ UNCHANGED <<thread_head, my_thread, THREADS_LOCK, members>>

-----------------------------------------------------------------------------
ThreadsWait(t) ==
  \/ Acquire(t, "insert", "link") \/ Acquire(t, "lookup", "find") \/ Acquire(t, "remove", "unlink")

ThreadsGo(t) ==
  Link(t) \/ SetHead(t) \/ FindThread(t) \/ Unlink(t) \/ Unlinked(t) \/ FreeThread(t)

-----------------------------------------------------------------------------
(* What is promised.                                                       *)

\* Whenever nobody holds the lock, the walk from the head goes round all the
\* threads inserted and not yet removed, and through no memory that was freed.
RingWhole ==
  THREADS_LOCK = None =>
    /\ thread_head = None <=> members = {}
    /\ \A x \in members : info[x] # None /\ info[x].next \in members
    /\ Reached = members
    /\ members # {} => Hop[Cardinality(members)] = thread_head

\* A thread that holds the lock to remove an entry finds it on its way round
\* the ring, so the search ends and the lock is given back.
SearchEnds == \A t \in Threads : At(t, "unlink") => Entry(t) \in Reached
=============================================================================
