---------------------------- MODULE MCMultiplex -----------------------------
(* Instances of Multiplex for TLC: two EventSets of a thread, and one of   *)
(* each of two threads.                                                    *)
EXTENDS Multiplex, TLC

CONSTANTS cyc, ins, fpo, main, other, one, two

OneThread == one :> main @@ two :> main
EachItsOwn == one :> main @@ two :> other

\* Three events at a constant rate, one of them shared; two whose rates change.
Steady == [wants |-> one :> <<cyc, ins, fpo>> @@ two :> <<ins>>, rates |-> {2},
           resets |-> FALSE]
Varied == [wants |-> one :> <<cyc, ins>> @@ two :> <<>>, rates |-> {0, 2},
           resets |-> TRUE]

Both == {Steady, Varied}

\* The same two events in both EventSets.
Alike == {[wants |-> one :> <<cyc, ins>> @@ two :> <<cyc, ins>>, rates |-> {2}, resets |-> FALSE]}
=============================================================================
