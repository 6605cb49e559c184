-------------------------- MODULE RegistryService ---------------------------
(***************************************************************************)
(* The ring and the table, with all their steps, as a ThreadService. Whom  *)
(* the library knows is whom the walk from the head passes, whatever is    *)
(* being linked or unlinked at that moment; what happens in a call before  *)
(* and after does not show.                                                *)
(***************************************************************************)
EXTENDS Registry

Known == {info[x].tid : x \in Reached}

In(call) == \E t \in Threads : doing[t].call = call
Phase ==
  IF In("shutdown") THEN "closing" ELSE IF In("init") THEN "opening"
  ELSE IF up THEN "up" ELSE "down"

Service == INSTANCE ThreadService WITH known <- Known, phase <- Phase

\* A thread is known by its own calls alone and until it unregisters, a process
\* until the library goes down, and a handle goes to a thread that is known and
\* to one at a time, although registering, attaching, creating, destroying and
\* the doubling of the table are many steps of many threads.
ServesThreads == Service!Spec
=============================================================================
