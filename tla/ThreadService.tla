--------------------------- MODULE ThreadService ---------------------------
(***************************************************************************)
(* What PAPI keeps of the threads that use it, said without a ring, a      *)
(* table, memory or locks: whom it knows, and which handles each thread    *)
(* has. A thread is known by its own calls alone and once at most; a       *)
(* process is known from when a thread attaches to it until the library    *)
(* goes down; and a handle is given to one thread at a time.               *)
(***************************************************************************)
CONSTANTS Threads, Targets

VARIABLES
  known,     \* the tids that a look-up finds
  handles,   \* the handles of each thread
  phase      \* of the library

NoHandles == [t \in Threads |-> {}]

Init == known = {} /\ handles = NoHandles /\ phase = "down"

-----------------------------------------------------------------------------
(* PAPI_library_init, of one thread, which is the first that is known.     *)
Open == phase = "down" /\ phase' = "opening" /\ UNCHANGED <<known, handles>>

Enter(t) ==
  /\ phase = "opening" /\ known = {}
  /\ known' = {t} /\ UNCHANGED <<handles, phase>>

Opened ==
  /\ phase = "opening" /\ phase' = IF known = {} THEN "down" ELSE "up"
  /\ UNCHANGED <<known, handles>>

-----------------------------------------------------------------------------
(* While it is up. Two threads may meet the same process at once; then it  *)
(* is known as before.                                                     *)
Join(t) ==
  /\ phase = "up" /\ t \notin known
  /\ known' = known \cup {t} /\ UNCHANGED <<handles, phase>>

Meet(p) ==
  /\ phase = "up" /\ known \cap Threads # {}
  /\ known' = known \cup {p} /\ UNCHANGED <<handles, phase>>

Take(t) ==
  /\ phase = "up" /\ t \in known
  /\ \E h \in handles'[t] :
       /\ \A u \in Threads : h \notin handles[u]
       /\ handles' = [handles EXCEPT ![t] = @ \cup {h}]
  /\ UNCHANGED <<known, phase>>

Give(t) ==
  /\ phase = "up" /\ t \in known
  /\ \E h \in handles[t] : handles' = [handles EXCEPT ![t] = @ \ {h}]
  /\ UNCHANGED <<known, phase>>

\* A thread that leaves may have handles yet, of EventSets that are attached to a
\* process or were not found to be its own. They are void before it is gone.
Forget(t) ==
  /\ phase = "up" /\ t \in known
  /\ handles' = [handles EXCEPT ![t] = {}] /\ UNCHANGED <<known, phase>>

Leave(t) ==
  /\ phase = "up" /\ t \in known /\ handles[t] = {}
  /\ known' = known \ {t} /\ UNCHANGED <<handles, phase>>

-----------------------------------------------------------------------------
(* PAPI_shutdown, of the last thread or when none is left: all handles go  *)
(* first, then that thread and whatever else is known.                     *)
Close ==
  /\ phase = "up" /\ \A t, u \in known \cap Threads : t = u
  /\ phase' = "closing" /\ handles' = NoHandles /\ UNCHANGED known

Part(x) ==
  /\ phase = "closing"
  /\ known' = known \ {x} /\ UNCHANGED <<handles, phase>>

Down ==
  /\ phase = "closing" /\ known \cap Threads = {}
  /\ phase' = "down" /\ known' = {} /\ UNCHANGED handles

-----------------------------------------------------------------------------
Next ==
  \/ Open \/ Opened \/ Close \/ Down
  \/ \E t \in Threads : Enter(t) \/ Join(t) \/ Take(t) \/ Give(t) \/ Leave(t) \/ Forget(t)
  \/ \E p \in Targets : Meet(p)
  \/ \E x \in known : Part(x)

Spec == Init /\ [][Next]_<<known, handles, phase>>
=============================================================================
