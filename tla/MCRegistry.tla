----------------------------- MODULE MCRegistry ------------------------------
(* Two threads and a process they may both attach to.                      *)
EXTENDS RegistryService, TLC

CONSTANTS main, worker, other

\* Addresses are interchangeable.
Addresses == Permutations(Infos) \cup Permutations(Blocks)
=============================================================================
