--------------------------- MODULE MultiplexProofs --------------------------
(***************************************************************************)
(* Theorems about software multiplexing, for any number of events,         *)
(* EventSets and threads, any applications and any timing of the signal.   *)
(***************************************************************************)
EXTENDS Multiplex, FiniteSetTheorems, SequenceTheorems, TLAPS

-----------------------------------------------------------------------------
(* Lists.                                                                  *)

\* Every non-empty set of natural numbers has a least one.
LEMMA NatLeast ==
  ASSUME NEW S \in SUBSET Nat, S # {}
  PROVE  \E n \in S : \A m \in S : n <= m
<1> DEFINE R == {ss \in Nat \X Nat : ss[1] < ss[2]}
<1>1. IsWellFoundedOn(R, Nat)
  BY NatLessThanWellFounded DEF OpToRel
<1>2. \E n \in S : \A m \in S : ~(<<m, n>> \in R)
  <2> HIDE DEF R
  <2> QED BY <1>1, WFMin
<1>3. \A m, n \in Nat : <<m, n>> \in R <=> m < n
  OBVIOUS
<1> HIDE DEF R
<1>4. PICK n \in S : \A m \in S : ~(<<m, n>> \in R)
  BY <1>2
<1>5. \A m \in S : ~(m < n)
  BY <1>3, <1>4
<1> QED BY <1>5

\* Induction, with the set of the numbers that have the property.
LEMMA NatInd ==
  ASSUME NEW S, 0 \in S, \A n \in Nat : n \in S => n + 1 \in S
  PROVE  Nat \subseteq S
<1> SUFFICES ASSUME Nat \ S # {} PROVE FALSE
  OBVIOUS
<1>1. PICK n \in Nat \ S : \A m \in Nat \ S : n <= m
  BY NatLeast
<1>2. n # 0 /\ n - 1 \in Nat /\ n - 1 \in S
  BY <1>1
<1> QED BY <1>1, <1>2

Distinct(seq) == \A i, j \in DOMAIN seq : seq[i] = seq[j] => i = j
Listed(seq) == {seq[i] : i \in DOMAIN seq}

\* kept is what mpx_remove_unused keeps of the first entries of the list.
Keeps(t, m, kept, n) ==
  kept = [k \in 0..n |->
            IF k = 0 THEN <<>>
            ELSE IF m[thr[t].head[k]].uses > 0 THEN Append(kept[k - 1], thr[t].head[k]) ELSE kept[k - 1]]

LEMMA KeepsExist ==
  ASSUME NEW t, NEW m, NEW n \in Nat
  PROVE  \E kept : Keeps(t, m, kept, n)
<1> DEFINE S == {k \in Nat : \E kept : Keeps(t, m, kept, k)}
<1>1. 0 \in S
  <2> DEFINE g == [k \in 0..0 |-> <<>>]
  <2>1. Keeps(t, m, g, 0)
    BY DEF Keeps
  <2> QED BY <2>1
<1>2. ASSUME NEW k \in Nat, k \in S PROVE k + 1 \in S
  <2>1. PICK g : Keeps(t, m, g, k)
    BY <1>2
  <2> DEFINE new == IF m[thr[t].head[k + 1]].uses > 0 THEN Append(g[k], thr[t].head[k + 1]) ELSE g[k]
             h == [i \in 0..(k + 1) |-> IF i = k + 1 THEN new ELSE g[i]]
  <2>2. \A i \in 0..k :
          /\ h[i] = g[i]
          /\ g[i] = IF i = 0 THEN <<>>
                    ELSE IF m[thr[t].head[i]].uses > 0 THEN Append(g[i - 1], thr[t].head[i]) ELSE g[i - 1]
    <3> TAKE i \in 0..k
    <3>1. i \in 0..(k + 1) /\ i # k + 1
      OBVIOUS
    <3>2. h[i] = g[i]
      <4> HIDE DEF new
      <4> QED BY <3>1
    <3>3. g[i] = IF i = 0 THEN <<>>
                 ELSE IF m[thr[t].head[i]].uses > 0 THEN Append(g[i - 1], thr[t].head[i]) ELSE g[i - 1]
      BY <2>1, Zenon DEF Keeps
    <3> HIDE DEF new, h
    <3> QED BY <3>2, <3>3
  <2>3. h[k + 1] = new /\ h[(k + 1) - 1] = g[k]
    <3> HIDE DEF new
    <3> QED OBVIOUS
  <2>4. \A i \in 0..(k + 1) :
          h[i] = IF i = 0 THEN <<>>
                 ELSE IF m[thr[t].head[i]].uses > 0 THEN Append(h[i - 1], thr[t].head[i]) ELSE h[i - 1]
    <3> TAKE i \in 0..(k + 1)
    <3>1. CASE i = k + 1
      <4>1. i # 0 /\ h[i - 1] = g[k] /\ h[i] = new
        <5> HIDE DEF new, h
        <5> QED BY <3>1, <2>3
      <4> HIDE DEF h
      <4> QED BY <4>1, <3>1
    <3>2. CASE i \in 0..k
      <4>1. i # 0 => i - 1 \in 0..k
        BY <3>2
      <4> HIDE DEF new, h
      <4> QED BY <3>2, <2>2, <4>1
    <3> QED BY <3>1, <3>2
  <2>5. Keeps(t, m, h, k + 1)
    <3>1. h = [i \in 0..(k + 1) |-> h[i]]
      OBVIOUS
    <3> HIDE DEF h, new
    <3> QED BY <2>4, <3>1 DEF Keeps
  <2> QED BY <2>5
<1> HIDE DEF S
<1>3. Nat \subseteq S
  BY <1>1, <1>2, NatInd
<1> QED BY <1>3 DEF S

\* mpx_remove_unused keeps the events in use, in a list without repetitions.
LEMMA UsedIs ==
  ASSUME NEW t, NEW m, thr[t].head \in Seq(Events), Distinct(thr[t].head)
  PROVE  /\ Used(t, m) \in Seq(Events) /\ Distinct(Used(t, m))
         /\ Listed(Used(t, m)) = {e \in Listed(thr[t].head) : m[e].uses > 0}
<1> DEFINE head == thr[t].head
           kept == CHOOSE f : Keeps(t, m, f, Len(head))
           Good(n) == /\ kept[n] \in Seq(Events) /\ Distinct(kept[n])
                      /\ Listed(kept[n]) = {e \in {head[i] : i \in 1..n} : m[e].uses > 0}
           S == {n \in Nat : n <= Len(head) => Good(n)}
<1>1. Len(head) \in Nat /\ DOMAIN head = 1..Len(head) /\ \A i \in 1..Len(head) : head[i] \in Events
  BY LenProperties, ElementOfSeq
<1>2. Keeps(t, m, kept, Len(head))
  BY <1>1, KeepsExist
<1>3. Used(t, m) = kept[Len(head)]
  BY DEF Used, Keeps
<1> HIDE DEF kept
<1>4. \A k \in 0..Len(head) :
        kept[k] = IF k = 0 THEN <<>>
                  ELSE IF m[head[k]].uses > 0 THEN Append(kept[k - 1], head[k]) ELSE kept[k - 1]
  BY <1>2, Zenon DEF Keeps
<1>5. 0 \in S
  <2>1. kept[0] = <<>>
    BY <1>1, <1>4
  <2>2. <<>> \in Seq(Events) /\ Distinct(<<>>) /\ Listed(<<>>) = {}
    BY DEF Distinct, Listed
  <2>3. {head[i] : i \in 1..0} = {}
    OBVIOUS
  <2>4. Good(0)
    <3> HIDE DEF kept, head
    <3> QED BY <2>1, <2>2, <2>3
  <2> HIDE DEF Good
  <2> QED BY <2>4
<1>6. ASSUME NEW n \in Nat, n \in S PROVE n + 1 \in S
  <2> SUFFICES ASSUME n + 1 <= Len(head) PROVE Good(n + 1)
    OBVIOUS
  <2>0. n <= Len(head) => Good(n)
    BY <1>6
  <2>1. Good(n) /\ n + 1 \in 1..Len(head) /\ n + 1 \in 0..Len(head) /\ (n + 1) - 1 = n
    <3> HIDE DEF Good, head
    <3> QED BY <1>1, <2>0
  <2>2. kept[n + 1] = IF m[head[n + 1]].uses > 0 THEN Append(kept[n], head[n + 1]) ELSE kept[n]
    BY <1>4, <2>1
  <2>3. {head[i] : i \in 1..(n + 1)} = {head[i] : i \in 1..n} \cup {head[n + 1]}
    OBVIOUS
  <2>4. CASE ~(m[head[n + 1]].uses > 0)
    BY <2>1, <2>2, <2>3, <2>4
  <2>5. CASE m[head[n + 1]].uses > 0
    <3>1. head[n + 1] \notin {head[i] : i \in 1..n}
      <4>1. \A i \in 1..n : i \in DOMAIN head /\ n + 1 \in DOMAIN head /\ i # n + 1
        BY <1>1, <2>1
      <4> QED BY <4>1 DEF Distinct
    <3>2. head[n + 1] \notin Listed(kept[n]) /\ head[n + 1] \in Events
      BY <1>1, <2>1, <3>1
    <3>3. kept[n + 1] = Append(kept[n], head[n + 1])
      BY <2>2, <2>5
    <3> QED
      <4> DEFINE q == kept[n]
                 r == kept[n + 1]
                 x == head[n + 1]
      <4>1. q \in Seq(Events) /\ x \in Events /\ r = Append(q, x) /\ x \notin Listed(q) /\ Distinct(q)
        BY <2>1, <3>2, <3>3
      <4>2. Listed(q) = {e \in {head[i] : i \in 1..n} : m[e].uses > 0}
        BY <2>1
      <4> HIDE DEF q, r, x
      <4>3. /\ r \in Seq(Events) /\ Len(r) = Len(q) + 1 /\ DOMAIN q = 1..Len(q) /\ DOMAIN r = 1..Len(r)
            /\ Len(q) \in Nat /\ r[Len(q) + 1] = x /\ \A i \in 1..Len(q) : r[i] = q[i]
        BY <4>1, AppendProperties, LenProperties
      <4>4. Distinct(r)
        BY <4>1, <4>3 DEF Distinct, Listed
      <4>5. Listed(r) = Listed(q) \cup {x}
        BY <4>3 DEF Listed
      <4>6. Listed(r) = {e \in {head[i] : i \in 1..(n + 1)} : m[e].uses > 0}
        BY <4>2, <4>5, <2>3, <2>5 DEF x
      <4> QED BY <4>3, <4>4, <4>6 DEF r
  <2> QED BY <2>4, <2>5
<1> HIDE DEF S
<1>7. Nat \subseteq S
  BY <1>5, <1>6, NatInd
<1>8. Good(Len(head))
  <2>1. Len(head) \in S /\ Len(head) <= Len(head)
    BY <1>1, <1>7
  <2> HIDE DEF Good
  <2> QED BY <2>1 DEF S
<1>9. {head[i] : i \in 1..Len(head)} = Listed(head)
  BY <1>1 DEF Listed
<1> QED BY <1>3, <1>8, <1>9

-----------------------------------------------------------------------------
(* The invariant.                                                          *)

SetType == [running : BOOLEAN, status : {"MPX_STOPPED", "MPX_RUNNING"}, mev : Seq(Events), start : Seq(Int)]
RateType == [n : Nat, c : Nat \ {0}]
EventType == [uses : Nat, active : Nat, prev_total_c : Nat, count_estimate : Nat, rate_estimate : RateType]
ThreadType == [head : Seq(Events), cur : Events \cup {None}, total_c : Nat]
SliceType == [run : Events \cup {None}, n : Nat, c : Nat]
StageType == [op : {"idle", "start", "reset", "stop"}, set : Sets \cup {None}, vals : Seq(Int)]

Types ==
  /\ sets \in [Sets -> SetType] /\ master \in [Threads -> [Events -> EventType]]
  /\ thr \in [Threads -> ThreadType] /\ hw \in [Threads -> SliceType]
  /\ timer \in BOOLEAN /\ pc \in [Threads -> StageType] /\ program \in Programs

Mine(t) == {s \in Sets : Owner[s] = t}
Running(s) == sets[s].status = "MPX_RUNNING"
Users(t, e) == {s \in Mine(t) : Holds(s, e)}

\* An EventSet has each event once, with a start value that is not negative.
InSet(s) ==
  /\ Distinct(sets[s].mev) /\ Len(sets[s].start) = Len(sets[s].mev)
  /\ \A i \in DOMAIN sets[s].start : sets[s].start[i] >= 0
  /\ sets[s].running => Running(s)

\* The list of a thread has the events in use.
InList(t) ==
  /\ Distinct(thr[t].head)
  /\ \A e \in Events :
       /\ e \in Listed(thr[t].head) <=> master[t][e].uses > 0
       /\ master[t][e].uses = Cardinality(Users(t, e))

\* One EventSet of a thread is running at a time. Its events are active; what the
\* others were is forgotten.
Forgets(m) == m = [NoEvent EXCEPT !.uses = m.uses]
InTurn(t) ==
  /\ \A s, u \in Mine(t) : Running(s) /\ Running(u) => s = u
  /\ \A e \in Events :
       /\ (\E s \in Mine(t) : Holds(s, e) /\ Running(s)) => master[t][e].active = 1
       /\ (\A s \in Mine(t) : Running(s) => ~Holds(s, e)) => Forgets(master[t][e])

\* The current event is an active one, and none is ahead of the time.
Counted(t) ==
  /\ thr[t].cur # None <=> \E s \in Mine(t) : Running(s)
  /\ thr[t].cur # None => \E s \in Mine(t) : Running(s) /\ Holds(s, thr[t].cur)
  /\ hw[t].run = thr[t].cur /\ (thr[t].cur = None => hw[t] = NoSlice)
  /\ thr[t].total_c <= MaxCycles /\ \A e \in Events : master[t][e].prev_total_c <= thr[t].total_c

\* What a call in progress has to do is still to be done. A reset has read no
\* less than the start values it is about to raise take away.
Underway(t) ==
  /\ pc[t].op = "idle" => pc[t] = Idle
  /\ pc[t].op # "idle" => pc[t].set \in Mine(t) /\ Running(pc[t].set)
  /\ pc[t].op \in {"reset", "stop"} => sets[pc[t].set].running
  /\ pc[t].op = "reset" =>
       /\ Len(pc[t].vals) = Len(sets[pc[t].set].mev)
       /\ \A i \in DOMAIN pc[t].vals : sets[pc[t].set].start[i] + pc[t].vals[i] >= 0

\* With constant rates, each estimate is at most the rate times the time noted.
RatesOf(e) == IF e = SCALE_EVENT THEN {1} ELSE program.rates
Steady == \E r \in program.rates : program.rates = {r}
AtRate(t) ==
  Steady => \A e \in Events : \A r \in RatesOf(e) :
    /\ master[t][e].count_estimate <= r * master[t][e].prev_total_c
    /\ master[t][e].rate_estimate.n \in {0, r * master[t][e].rate_estimate.c}
    /\ hw[t].run = e => hw[t].n = r * hw[t].c

InThread(t) == InList(t) /\ InTurn(t) /\ Counted(t) /\ Underway(t) /\ AtRate(t)

Inv == Types /\ (\A s \in Sets : InSet(s)) /\ \A t \in Threads : InThread(t)

\* A step of t is within its own.
Only(t) ==
  /\ \A u \in Threads \ {t} : master'[u] = master[u] /\ thr'[u] = thr[u] /\ hw'[u] = hw[u] /\ pc'[u] = pc[u]
  /\ \A s \in Sets \ Mine(t) : sets'[s] = sets[s]
  /\ program' = program

LEMMA OnlyKeeps ==
  ASSUME Inv, NEW t \in Threads, Only(t), Types', \A s \in Mine(t) : InSet(s)', InThread(t)'
  PROVE  Inv'
<1>1. \A s \in Sets : InSet(s)'
  <2> TAKE s \in Sets
  <2>1. CASE s \in Mine(t)
    BY <2>1
  <2>2. CASE s \notin Mine(t)
    BY <2>2 DEF Inv, Only, InSet, Running
  <2> QED BY <2>1, <2>2
<1>2. \A u \in Threads : InThread(u)'
  <2> TAKE u \in Threads
  <2>1. CASE u = t
    BY <2>1
  <2>2. CASE u # t
    <3>1. /\ master'[u] = master[u] /\ thr'[u] = thr[u] /\ hw'[u] = hw[u] /\ pc'[u] = pc[u] /\ program' = program
          /\ \A s \in Mine(u) : sets'[s] = sets[s]
      BY <2>2 DEF Only, Mine
    <3>2. InList(u) /\ InTurn(u) /\ Counted(u) /\ Underway(u) /\ AtRate(u)
      BY DEF Inv, InThread
    <3>3. /\ \A s \in Mine(u) : Running(s)' = Running(s)
          /\ \A s \in Mine(u) : \A e : Holds(s, e)' = Holds(s, e)
      BY <3>1 DEF Running, Holds
    <3>4. \A e : Users(u, e)' = Users(u, e)
      BY <3>3 DEF Users, Mine
    <3>5. InList(u)'
      BY <3>1, <3>2, <3>4 DEF InList
    <3>6. InTurn(u)'
      BY <3>1, <3>2, <3>3 DEF InTurn, Mine
    <3>7. Counted(u)'
      BY <3>1, <3>2, <3>3 DEF Counted, Mine
    <3>8. Underway(u)'
      <4>1. pc[u].op # "idle" => pc[u].set \in Mine(u) /\ sets'[pc[u].set] = sets[pc[u].set]
        BY <3>1, <3>2 DEF Underway
      <4> QED BY <3>1, <3>2, <3>3, <4>1 DEF Underway, Mine
    <3>9. AtRate(u)'
      BY <3>1, <3>2 DEF AtRate, RatesOf, Steady
    <3> QED BY <3>5, <3>6, <3>7, <3>8, <3>9 DEF InThread
  <2> QED BY <2>1, <2>2
<1> QED BY <1>1, <1>2 DEF Inv

-----------------------------------------------------------------------------
(* What the parts of the state are.                                        *)

LEMMA SetIs ==
  ASSUME Inv, NEW s \in Sets
  PROVE  /\ sets[s] = [running |-> sets[s].running, status |-> sets[s].status,
                       mev |-> sets[s].mev, start |-> sets[s].start]
         /\ sets[s].running \in BOOLEAN /\ sets[s].status \in {"MPX_STOPPED", "MPX_RUNNING"}
         /\ sets[s].mev \in Seq(Events) /\ sets[s].start \in Seq(Int)
         /\ Len(sets[s].mev) \in Nat /\ Len(sets[s].start) = Len(sets[s].mev)
         /\ DOMAIN sets[s].mev = 1..Len(sets[s].mev) /\ DOMAIN sets[s].start = 1..Len(sets[s].mev)
         /\ \A i \in 1..Len(sets[s].mev) : sets[s].mev[i] \in Events /\ sets[s].start[i] \in Nat
         /\ Owner[s] \in Threads /\ s \in Mine(Owner[s])
<1>1. sets[s] \in SetType /\ InSet(s)
  BY DEF Inv, Types
<1>2. /\ sets[s] = [running |-> sets[s].running, status |-> sets[s].status,
                    mev |-> sets[s].mev, start |-> sets[s].start]
      /\ sets[s].running \in BOOLEAN /\ sets[s].status \in {"MPX_STOPPED", "MPX_RUNNING"}
      /\ sets[s].mev \in Seq(Events) /\ sets[s].start \in Seq(Int)
  BY <1>1 DEF SetType
<1>3. Len(sets[s].start) = Len(sets[s].mev) /\ \A i \in DOMAIN sets[s].start : sets[s].start[i] >= 0
  BY <1>1 DEF InSet
<1>4. /\ Len(sets[s].mev) \in Nat /\ DOMAIN sets[s].mev = 1..Len(sets[s].mev)
      /\ \A i \in 1..Len(sets[s].mev) : sets[s].mev[i] \in Events
  BY <1>2, LenProperties, ElementOfSeq
<1>5. DOMAIN sets[s].start = 1..Len(sets[s].start) /\ \A i \in 1..Len(sets[s].start) : sets[s].start[i] \in Int
  BY <1>2, LenProperties, ElementOfSeq
<1>6. Owner[s] \in Threads /\ s \in Mine(Owner[s])
  BY MultiplexAssumption DEF Mine
<1>7. \A i \in 1..Len(sets[s].mev) : sets[s].start[i] \in Nat
  BY <1>3, <1>4, <1>5
<1> QED BY <1>2, <1>3, <1>4, <1>5, <1>6, <1>7

LEMMA RatesAre ==
  ASSUME Inv, NEW e, NEW r \in RatesOf(e)
  PROVE  r \in Nat
<1>1. program.rates \subseteq Nat
  BY MultiplexAssumption DEF Inv, Types, Program
<1> QED BY <1>1 DEF RatesOf

LEMMA EventIs ==
  ASSUME NEW m \in EventType
  PROVE  /\ m = [uses |-> m.uses, active |-> m.active, prev_total_c |-> m.prev_total_c,
                 count_estimate |-> m.count_estimate, rate_estimate |-> m.rate_estimate]
         /\ m.uses \in Nat /\ m.active \in Nat /\ m.prev_total_c \in Nat /\ m.count_estimate \in Nat
         /\ m.rate_estimate \in RateType /\ m.rate_estimate.n \in Nat /\ m.rate_estimate.c \in Nat \ {0}
<1>1. /\ m = [uses |-> m.uses, active |-> m.active, prev_total_c |-> m.prev_total_c,
              count_estimate |-> m.count_estimate, rate_estimate |-> m.rate_estimate]
      /\ m.uses \in Nat /\ m.active \in Nat /\ m.prev_total_c \in Nat /\ m.count_estimate \in Nat
      /\ m.rate_estimate \in RateType
  BY DEF EventType
<1>2. m.rate_estimate.n \in Nat /\ m.rate_estimate.c \in Nat \ {0}
  BY <1>1 DEF RateType
<1> QED BY <1>1, <1>2

LEMMA ThreadIs ==
  ASSUME Inv, NEW t \in Threads
  PROVE  /\ thr[t] = [head |-> thr[t].head, cur |-> thr[t].cur, total_c |-> thr[t].total_c]
         /\ thr[t].head \in Seq(Events) /\ thr[t].cur \in Events \cup {None} /\ thr[t].total_c \in Nat
         /\ hw[t] = [run |-> hw[t].run, n |-> hw[t].n, c |-> hw[t].c]
         /\ hw[t].run \in Events \cup {None} /\ hw[t].n \in Nat /\ hw[t].c \in Nat
         /\ master[t] \in [Events -> EventType]
<1>1. thr[t] \in ThreadType /\ hw[t] \in SliceType /\ master[t] \in [Events -> EventType]
  BY DEF Inv, Types
<1>2. /\ thr[t] = [head |-> thr[t].head, cur |-> thr[t].cur, total_c |-> thr[t].total_c]
      /\ thr[t].head \in Seq(Events) /\ thr[t].cur \in Events \cup {None} /\ thr[t].total_c \in Nat
  BY <1>1 DEF ThreadType
<1>3. /\ hw[t] = [run |-> hw[t].run, n |-> hw[t].n, c |-> hw[t].c]
      /\ hw[t].run \in Events \cup {None} /\ hw[t].n \in Nat /\ hw[t].c \in Nat
  BY <1>1 DEF SliceType
<1> QED BY <1>1, <1>2, <1>3

LEMMA MineFinite ==
  ASSUME NEW t
  PROVE  IsFiniteSet(Mine(t)) /\ \A e : IsFiniteSet(Users(t, e)) /\ Cardinality(Users(t, e)) \in Nat
<1>1. Mine(t) \in SUBSET Sets /\ \A e : Users(t, e) \in SUBSET Sets
  BY DEF Mine, Users
<1> QED BY <1>1, MultiplexAssumption, FS_Subset, FS_CardinalityType

\* A thread of which nothing is counted has no running EventSet and no estimates.
LEMMA StillIs ==
  ASSUME Inv, NEW t \in Threads, hw[t].run = None
  PROVE  /\ thr[t].cur = None /\ hw[t] = NoSlice /\ \A s \in Mine(t) : ~Running(s) /\ ~sets[s].running
         /\ \A e \in Events : Forgets(master[t][e]) /\ master[t][e].active = 0
<1>1. InTurn(t) /\ Counted(t)
  BY DEF Inv, InThread
<1>2. thr[t].cur = None /\ hw[t] = NoSlice /\ \A s \in Mine(t) : ~Running(s)
  BY <1>1 DEF Counted
<1>3. \A s \in Mine(t) : ~sets[s].running
  BY <1>2 DEF Inv, InSet, Mine
<1>4. \A e \in Events : Forgets(master[t][e])
  BY <1>1, <1>2 DEF InTurn
<1>5. \A e \in Events : master[t][e].active = 0
  <2> TAKE e \in Events
  <2>1. master[t][e] = [NoEvent EXCEPT !.uses = master[t][e].uses]
    BY <1>4 DEF Forgets
  <2>2. [NoEvent EXCEPT !.uses = master[t][e].uses].active = 0
    BY DEF NoEvent
  <2> QED BY <2>1, <2>2
<1> QED BY <1>2, <1>3, <1>4, <1>5

-----------------------------------------------------------------------------
(* Changing the events of an EventSet.                                     *)

LEMMA ForgottenIs ==
  ASSUME NEW m, Forgets(m)
  PROVE  /\ m.active = 0 /\ m.prev_total_c = 0 /\ m.count_estimate = 0
         /\ m.rate_estimate = NoRate /\ m.rate_estimate.n = 0 /\ m.rate_estimate.c = 1
         /\ m.uses \in Nat => m \in EventType
<1>1. m = [uses |-> m.uses, active |-> 0, prev_total_c |-> 0, count_estimate |-> 0, rate_estimate |-> NoRate]
  BY DEF Forgets, NoEvent
<1>2. NoRate.n = 0 /\ NoRate.c = 1 /\ NoRate \in RateType
  BY DEF NoRate, RateType
<1>3. /\ m.active = 0 /\ m.prev_total_c = 0 /\ m.count_estimate = 0 /\ m.rate_estimate = NoRate
  BY <1>1
<1>4. m.uses \in Nat => m \in EventType
  BY <1>1, <1>2 DEF EventType
<1> QED BY <1>2, <1>3, <1>4

\* An event that is forgotten stays so, whatever uses it has.
LEMMA UsesTo ==
  ASSUME NEW m, Forgets(m), NEW n \in Nat
  PROVE  Forgets([m EXCEPT !.uses = n]) /\ [m EXCEPT !.uses = n].uses = n /\ [m EXCEPT !.uses = n] \in EventType
<1>1. m = [uses |-> m.uses, active |-> 0, prev_total_c |-> 0, count_estimate |-> 0, rate_estimate |-> NoRate]
  BY DEF Forgets, NoEvent
<1> DEFINE k == [m EXCEPT !.uses = n]
<1>2. k = [uses |-> n, active |-> 0, prev_total_c |-> 0, count_estimate |-> 0, rate_estimate |-> NoRate]
  BY <1>1
<1> HIDE DEF k
<1>3. k.uses = n
  BY <1>2
<1>4. Forgets(k)
  BY <1>2, <1>3 DEF Forgets, NoEvent
<1> QED BY <1>3, <1>4, ForgottenIs DEF k

LEMMA ListsTo ==
  ASSUME NEW r \in SetType, NEW q, NEW z
  PROVE  [r EXCEPT !.mev = q, !.start = z] = [running |-> r.running, status |-> r.status, mev |-> q, start |-> z]
<1>1. r = [running |-> r.running, status |-> r.status, mev |-> r.mev, start |-> r.start]
  BY DEF SetType
<1> DEFINE a == r.running
           b == r.status
           c == r.mev
           d == r.start
<1>2. r = [running |-> a, status |-> b, mev |-> c, start |-> d]
  BY <1>1
<1> HIDE DEF a, b, c, d
<1>3. [r EXCEPT !.mev = q, !.start = z] = [running |-> a, status |-> b, mev |-> q, start |-> z]
  <2>1. [[running |-> a, status |-> b, mev |-> c, start |-> d] EXCEPT !.mev = q, !.start = z]
        = [running |-> a, status |-> b, mev |-> q, start |-> z]
    <3> DEFINE one == [[running |-> a, status |-> b, mev |-> c, start |-> d] EXCEPT !.mev = q]
    <3>1. one = [running |-> a, status |-> b, mev |-> q, start |-> d]
      OBVIOUS
    <3>2. [[running |-> a, status |-> b, mev |-> c, start |-> d] EXCEPT !.mev = q, !.start = z]
          = [one EXCEPT !.start = z]
      OBVIOUS
    <3>3. [[running |-> a, status |-> b, mev |-> q, start |-> d] EXCEPT !.start = z]
          = [running |-> a, status |-> b, mev |-> q, start |-> z]
      OBVIOUS
    <3> HIDE DEF one
    <3> QED BY <3>1, <3>2, <3>3
  <2> QED BY <1>2, <2>1
<1> QED BY <1>3 DEF a, b

\* A change of the lists while nothing is counted.
LEMMA ListsKeep ==
  ASSUME Inv, NEW t \in Threads, Calls(t), hw[t].run = None, Only(t), Types', UNCHANGED <<hw, pc>>,
         thr'[t].cur = thr[t].cur, thr'[t].total_c = thr[t].total_c, InList(t)',
         \A s \in Mine(t) : sets'[s].status = sets[s].status /\ InSet(s)',
         \A e \in Events : Forgets(master'[t][e])
  PROVE  Inv'
<1>1. thr[t].cur = None /\ hw[t] = NoSlice /\ \A s \in Mine(t) : ~Running(s)
  BY StillIs
<1>2. \A s \in Mine(t) : ~Running(s)'
  BY <1>1 DEF Running
<1>3. InTurn(t)'
  BY <1>2 DEF InTurn, Mine
<1>4. Counted(t)'
  <2>1. thr[t].total_c \in Nat /\ thr[t].total_c <= MaxCycles
    BY ThreadIs DEF Inv, InThread, Counted
  <2>2. \A e \in Events : master'[t][e].prev_total_c = 0
    BY ForgottenIs
  <2>3. hw'[t].run = thr'[t].cur /\ hw'[t] = NoSlice
    BY <1>1
  <2> QED BY <1>1, <1>2, <2>1, <2>2, <2>3 DEF Counted, Mine
<1>5. Underway(t)'
  BY DEF Calls, Underway, Idle
<1>6. AtRate(t)'
  <2> SUFFICES ASSUME Steady', NEW e \in Events, NEW r \in RatesOf(e)'
               PROVE  /\ master'[t][e].count_estimate <= r * master'[t][e].prev_total_c
                      /\ master'[t][e].rate_estimate.n \in {0, r * master'[t][e].rate_estimate.c}
                      /\ hw'[t].run = e => hw'[t].n = r * hw'[t].c
    BY DEF AtRate
  <2>1. r \in Nat
    BY MultiplexAssumption DEF RatesOf, Types, Program
  <2>2. hw'[t].run # e
    BY <1>1, MultiplexAssumption
  <2> QED BY <2>1, <2>2, ForgottenIs
<1>7. InThread(t)'
  BY <1>3, <1>4, <1>5, <1>6 DEF InThread
<1> QED BY <1>7, OnlyKeeps

\* An EventSet does not have the event that comes next to it.
LEMMA FollowsIs ==
  ASSUME Inv, NEW s \in Sets, NEW e, Follows(s, e)
  PROVE  ~Holds(s, e) /\ e \in Events
<1>1. program.wants[s] \in Seq(Events)
  BY MultiplexAssumption DEF Inv, Types, Program
<1>2. PICK i \in DOMAIN program.wants[s] :
        program.wants[s][i] = e /\ \A k \in i..Len(program.wants[s]) : ~Holds(s, program.wants[s][k])
  BY DEF Follows
<1>3. i \in i..Len(program.wants[s]) /\ program.wants[s][i] \in Events
  BY <1>1, LenProperties, ElementOfSeq
<1> QED BY <1>2, <1>3

LEMMA AddEventKeeps ==
  ASSUME Inv, NEW s \in Sets, NEW e \in Events, AddEvent(s, e)
  PROVE  Inv'
<1> DEFINE t == Owner[s]
           head == thr[t].head
           mev == sets[s].mev
           start == sets[s].start
<1>0. t \in Threads /\ s \in Mine(t)
  BY SetIs
<1>1. /\ Calls(t) /\ hw[t].run = None /\ ~Holds(s, e)
      /\ sets' = [sets EXCEPT ![s].mev = Append(@, e), ![s].start = Append(@, 0)]
      /\ thr' = [thr EXCEPT ![t].head = IF master[t][e].uses = 0 THEN <<e>> \o @ ELSE @]
      /\ master' = [master EXCEPT ![t][e].uses = @ + 1]
      /\ UNCHANGED <<hw, timer, pc, program>>
  BY FollowsIs DEF AddEvent, Quiet
<1>2. sets[s] \in SetType /\ thr[t] \in ThreadType /\ master[t] \in [Events -> EventType]
  BY <1>0 DEF Inv, Types
<1>3. \A x \in Events : Forgets(master[t][x]) /\ master[t][x].uses \in Nat
  BY <1>0, <1>1, <1>2, StillIs, EventIs
<1>4. /\ sets' = [sets EXCEPT ![s] = sets'[s]]
      /\ sets'[s] = [running |-> sets[s].running, status |-> sets[s].status,
                     mev |-> Append(mev, e), start |-> Append(start, 0)]
  <2>1. sets[s] = [running |-> sets[s].running, status |-> sets[s].status, mev |-> mev, start |-> start]
    BY <1>2 DEF SetType
  <2>2. sets \in [Sets -> SetType]
    BY DEF Inv, Types
  <2> HIDE DEF mev, start
  <2>3. sets' = [sets EXCEPT ![s] = [sets[s] EXCEPT !.mev = Append(sets[s].mev, e), !.start = Append(sets[s].start, 0)]]
    BY <1>1
  <2> DEFINE new == [sets[s] EXCEPT !.mev = Append(sets[s].mev, e), !.start = Append(sets[s].start, 0)]
  <2>4. new = [running |-> sets[s].running, status |-> sets[s].status,
               mev |-> Append(sets[s].mev, e), start |-> Append(sets[s].start, 0)]
    BY <1>2, ListsTo
  <2> HIDE DEF new
  <2>5. sets' = [sets EXCEPT ![s] = new]
    BY <2>3 DEF new
  <2>6. sets'[s] = new
    BY <2>2, <2>5
  <2> QED BY <2>4, <2>5, <2>6 DEF mev, start
<1>5. /\ mev \in Seq(Events) /\ start \in Seq(Int) /\ Len(mev) \in Nat /\ Len(start) = Len(mev)
      /\ DOMAIN mev = 1..Len(mev) /\ DOMAIN start = 1..Len(mev)
      /\ \A i \in 1..Len(mev) : start[i] \in Nat
  BY SetIs
<1>6. /\ Append(mev, e) \in Seq(Events) /\ Append(start, 0) \in Seq(Int)
      /\ Len(Append(mev, e)) = Len(mev) + 1 /\ Len(Append(start, 0)) = Len(mev) + 1
      /\ DOMAIN Append(mev, e) = 1..(Len(mev) + 1) /\ DOMAIN Append(start, 0) = 1..(Len(mev) + 1)
      /\ Append(mev, e)[Len(mev) + 1] = e /\ \A i \in 1..Len(mev) : Append(mev, e)[i] = mev[i]
      /\ Append(start, 0)[Len(mev) + 1] = 0 /\ \A i \in 1..Len(mev) : Append(start, 0)[i] = start[i]
  <2> HIDE DEF mev, start
  <2>1. 0 \in Int
    OBVIOUS
  <2>2. /\ Append(mev, e) \in Seq(Events) /\ Append(start, 0) \in Seq(Int)
        /\ Len(Append(mev, e)) = Len(mev) + 1 /\ Len(Append(start, 0)) = Len(mev) + 1
        /\ Append(mev, e)[Len(mev) + 1] = e /\ \A i \in 1..Len(mev) : Append(mev, e)[i] = mev[i]
        /\ Append(start, 0)[Len(mev) + 1] = 0 /\ \A i \in 1..Len(mev) : Append(start, 0)[i] = start[i]
    BY <1>5, <2>1, AppendProperties
  <2> QED BY <2>2, LenProperties
<1>7. /\ sets'[s].running = sets[s].running /\ sets'[s].status = sets[s].status
      /\ sets'[s].mev = Append(mev, e) /\ sets'[s].start = Append(start, 0)
  <2> HIDE DEF mev, start
  <2> QED BY <1>4
<1>8. \A u \in Sets \ {s} : sets'[u] = sets[u]
  BY <1>4 DEF Inv, Types
<1>9. InSet(s)'
  <2>1. Distinct(mev) /\ (sets[s].running => Running(s)) /\ \A i \in 1..Len(mev) : mev[i] # e
    BY <1>1, <1>5 DEF Inv, InSet, Holds
  <2> HIDE DEF mev, start
  <2>2. Distinct(Append(mev, e))
    BY <1>5, <1>6, <2>1 DEF Distinct
  <2>3. \A i \in 1..(Len(mev) + 1) : Append(start, 0)[i] >= 0
    BY <1>5, <1>6
  <2> QED BY <1>6, <1>7, <2>1, <2>2, <2>3 DEF InSet, Running
<1>10. \A x : Holds(s, x)' <=> Holds(s, x) \/ x = e
  <2> TAKE x
  <2>1. Holds(s, x) <=> \E i \in 1..Len(mev) : mev[i] = x
    BY <1>5 DEF Holds
  <2>2. Holds(s, x)' <=> \E i \in 1..(Len(mev) + 1) : Append(mev, e)[i] = x
    BY <1>6, <1>7 DEF Holds
  <2> HIDE DEF mev
  <2> QED BY <1>5, <1>6, <2>1, <2>2
<1>11. \A u \in Mine(t) \ {s} : \A x : Holds(u, x)' = Holds(u, x)
  BY <1>8 DEF Holds, Mine
<1>12. Users(t, e)' = Users(t, e) \cup {s} /\ s \notin Users(t, e) /\ \A x \in Events \ {e} : Users(t, x)' = Users(t, x)
  BY <1>0, <1>1, <1>10, <1>11 DEF Users, Mine
<1>13. /\ \A u \in Threads \ {t} : master'[u] = master[u] /\ thr'[u] = thr[u]
       /\ master'[t] = [x \in Events |-> IF x = e THEN [master[t][e] EXCEPT !.uses = master[t][e].uses + 1]
                                                  ELSE master[t][x]]
       /\ thr'[t] = [head |-> IF master[t][e].uses = 0 THEN <<e>> \o head ELSE head,
                     cur |-> thr[t].cur, total_c |-> thr[t].total_c]
       /\ master' = [master EXCEPT ![t] = master'[t]] /\ thr' = [thr EXCEPT ![t] = thr'[t]]
  <2>1. master \in [Threads -> [Events -> EventType]] /\ thr \in [Threads -> ThreadType]
    BY DEF Inv, Types
  <2>2. thr[t] = [head |-> head, cur |-> thr[t].cur, total_c |-> thr[t].total_c]
    BY <1>2 DEF ThreadType
  <2>3. thr' = [thr EXCEPT ![t] = [thr[t] EXCEPT !.head = IF master[t][e].uses = 0 THEN <<e>> \o thr[t].head ELSE thr[t].head]]
    BY <1>1
  <2>4. master' = [master EXCEPT ![t] = [master[t] EXCEPT ![e] = [master[t][e] EXCEPT !.uses = master[t][e].uses + 1]]]
    BY <1>1
  <2> DEFINE list == IF master[t][e].uses = 0 THEN <<e>> \o head ELSE head
             new == [thr[t] EXCEPT !.head = list]
             one == [master[t][e] EXCEPT !.uses = master[t][e].uses + 1]
             all == [master[t] EXCEPT ![e] = one]
  <2>5. thr' = [thr EXCEPT ![t] = new] /\ master' = [master EXCEPT ![t] = all]
    BY <2>3, <2>4
  <2> HIDE DEF t, one, list
  <2>6. new = [head |-> list, cur |-> thr[t].cur, total_c |-> thr[t].total_c]
    BY <2>2
  <2>7. all = [x \in Events |-> IF x = e THEN one ELSE master[t][x]]
    BY <1>2
  <2> HIDE DEF new, all
  <2>8. thr'[t] = new /\ master'[t] = all /\ \A u \in Threads \ {t} : master'[u] = master[u] /\ thr'[u] = thr[u]
    BY <1>0, <2>1, <2>5
  <2> QED BY <2>5, <2>6, <2>7, <2>8 DEF list, one
<1>14. \A x \in Events : /\ Forgets(master'[t][x]) /\ master'[t][x] \in EventType
                         /\ master'[t][x].uses = IF x = e THEN master[t][e].uses + 1 ELSE master[t][x].uses
  <2> TAKE x \in Events
  <2>1. master[t][e].uses + 1 \in Nat
    BY <1>3
  <2>2. CASE x = e
    <3>1. master'[t][x] = [master[t][e] EXCEPT !.uses = master[t][e].uses + 1]
      BY <1>13, <2>2
    <3> QED BY <1>3, <2>1, <2>2, <3>1, UsesTo
  <2>3. CASE x # e
    <3>1. master'[t][x] = master[t][x]
      BY <1>13, <2>3
    <3> QED BY <1>2, <1>3, <2>3, <3>1
  <2> QED BY <2>2, <2>3
<1>15. /\ thr'[t].head \in Seq(Events) /\ Distinct(thr'[t].head)
       /\ Listed(thr'[t].head) = Listed(head) \cup {e}
       /\ thr'[t].cur = thr[t].cur /\ thr'[t].total_c = thr[t].total_c
  <2>1. head \in Seq(Events) /\ Distinct(head) /\ (e \in Listed(head) <=> master[t][e].uses > 0)
    BY <1>0, ThreadIs DEF Inv, InThread, InList
  <2>2. /\ thr'[t].head = (IF master[t][e].uses = 0 THEN <<e>> \o head ELSE head)
        /\ thr'[t].cur = thr[t].cur /\ thr'[t].total_c = thr[t].total_c
    <3> HIDE DEF head, t
    <3> QED BY <1>13
  <2>3. master[t][e].uses \in Nat
    BY <1>3
  <2> HIDE DEF head, t
  <2>4. CASE master[t][e].uses # 0
    <3>1. thr'[t].head = head /\ e \in Listed(head)
      BY <2>1, <2>2, <2>3, <2>4
    <3> QED BY <2>1, <2>2, <3>1
  <2>5. CASE master[t][e].uses = 0
    <3>1. thr'[t].head = <<e>> \o head /\ e \notin Listed(head)
      BY <2>1, <2>2, <2>5
    <3>2. <<e>> \in Seq(Events) /\ Len(<<e>>) = 1 /\ <<e>>[1] = e /\ DOMAIN <<e>> = 1..1
      OBVIOUS
    <3>3. Len(head) \in Nat /\ DOMAIN head = 1..Len(head)
      BY <2>1, LenProperties
    <3> DEFINE q == <<e>> \o head
    <3>4. /\ q \in Seq(Events) /\ Len(q) = 1 + Len(head)
          /\ \A i \in 1..Len(q) : q[i] = IF i <= 1 THEN <<e>>[i] ELSE head[i - 1]
      BY <2>1, <3>2, ConcatProperties
    <3>5. DOMAIN q = 1..Len(q)
      BY <3>4, LenProperties
    <3> HIDE DEF q
    <3>6. q[1] = e /\ \A i \in 1..Len(head) : q[i + 1] = head[i]
      BY <3>2, <3>3, <3>4
    <3>7. \A i \in 1..Len(q) : i = 1 \/ (i - 1 \in 1..Len(head) /\ q[i] = head[i - 1])
      BY <3>3, <3>4
    <3>8. Listed(q) = Listed(head) \cup {e}
      <4>1. \A x \in Listed(q) : x \in Listed(head) \cup {e}
        <5> TAKE x \in Listed(q)
        <5>1. PICK i \in 1..Len(q) : x = q[i]
          BY <3>5, Zenon DEF Listed
        <5>2. CASE i = 1
          BY <3>6, <5>1, <5>2
        <5>3. CASE i - 1 \in 1..Len(head) /\ q[i] = head[i - 1]
          <6>1. head[i - 1] \in Listed(head)
            BY <3>3, <5>3, Zenon DEF Listed
          <6> QED BY <5>1, <5>3, <6>1
        <5> QED BY <3>7, <5>2, <5>3
      <4>2. e \in Listed(q)
        BY <3>3, <3>4, <3>5, <3>6 DEF Listed
      <4>3. \A i \in 1..Len(head) : i + 1 \in DOMAIN q
        BY <3>3, <3>4, <3>5
      <4>4. \A x \in Listed(head) : x \in Listed(q)
        BY <3>3, <3>6, <4>3 DEF Listed
      <4> QED BY <4>1, <4>2, <4>4
    <3>9. Distinct(q)
      <4> SUFFICES ASSUME NEW i \in 1..Len(q), NEW j \in 1..Len(q), q[i] = q[j] PROVE i = j
        BY <3>5 DEF Distinct
      <4>1. \A k \in 1..Len(head) : head[k] # e
        BY <3>1, <3>3 DEF Listed
      <4>2. CASE i = 1 \/ j = 1
        BY <3>6, <3>7, <4>1, <4>2
      <4>3. CASE i # 1 /\ j # 1
        <5>1. i - 1 \in DOMAIN head /\ j - 1 \in DOMAIN head /\ head[i - 1] = head[j - 1]
          BY <3>3, <3>7, <4>3
        <5>2. i - 1 = j - 1
          BY <2>1, <5>1 DEF Distinct
        <5> QED BY <3>3, <3>4, <5>2
      <4> QED BY <4>2, <4>3
    <3> QED BY <2>2, <3>1, <3>4, <3>8, <3>9 DEF q
  <2> QED BY <2>4, <2>5
<1>16. InList(t)'
  <2>1. \A x \in Events : /\ x \in Listed(head) <=> master[t][x].uses > 0
                          /\ master[t][x].uses = Cardinality(Users(t, x))
    BY <1>0 DEF Inv, InThread, InList
  <2>2. Cardinality(Users(t, e)') = Cardinality(Users(t, e)) + 1
    BY <1>12, MineFinite, FS_AddElement
  <2>3. \A x \in Events : x \in Listed(thr'[t].head) <=> master'[t][x].uses > 0
    <3> HIDE DEF t, head
    <3> QED BY <1>3, <1>14, <1>15, <2>1
  <2>4. \A x \in Events : master'[t][x].uses = Cardinality(Users(t, x)')
    BY <1>12, <1>14, <2>1, <2>2
  <2> QED BY <1>15, <2>3, <2>4 DEF InList
<1>17. Types'
  <2>1. sets'[s] \in SetType
    BY <1>2, <1>4, <1>6 DEF SetType
  <2>2. thr'[t] \in ThreadType
    <3>1. thr[t].cur \in Events \cup {None} /\ thr[t].total_c \in Nat
      BY <1>2 DEF ThreadType
    <3>2. \E q : thr'[t] = [head |-> q, cur |-> thr[t].cur, total_c |-> thr[t].total_c]
      BY <1>13
    <3> QED BY <1>15, <3>1, <3>2 DEF ThreadType
  <2>3. master'[t] \in [Events -> EventType]
    BY <1>13, <1>14
  <2> HIDE DEF t
  <2> QED BY <1>0, <1>1, <1>4, <1>13, <2>1, <2>2, <2>3 DEF Inv, Types
<1>18. Only(t)
  BY <1>0, <1>1, <1>8, <1>13 DEF Only
<1>19. \A u \in Mine(t) : sets'[u].status = sets[u].status /\ InSet(u)'
  <2> TAKE u \in Mine(t)
  <2>1. CASE u = s
    BY <1>7, <1>9, <2>1
  <2>2. CASE u # s
    BY <1>8, <2>2 DEF Inv, InSet, Running, Mine
  <2> QED BY <2>1, <2>2
<1> HIDE DEF t
<1> QED BY <1>0, <1>1, <1>14, <1>15, <1>16, <1>17, <1>18, <1>19, ListsKeep

\* Moving down what comes after an entry takes that one out and no other.
LEMMA DroppedIs ==
  ASSUME NEW T, NEW q \in Seq(T), NEW i \in 1..Len(q)
  PROVE  /\ Dropped(q, i) \in Seq(T) /\ Len(Dropped(q, i)) = Len(q) - 1
         /\ \A k \in 1..(Len(q) - 1) : Dropped(q, i)[k] = IF k < i THEN q[k] ELSE q[k + 1]
<1>0. Len(q) \in Nat /\ DOMAIN q = 1..Len(q) /\ \A k \in 1..Len(q) : q[k] \in T
  BY LenProperties, ElementOfSeq
<1> DEFINE a == SubSeq(q, 1, i - 1)
           b == SubSeq(q, i + 1, Len(q))
<1>1. \A k \in 1..(i - 1) : q[k] \in T
  BY <1>0
<1>2. \A k \in (i + 1)..Len(q) : q[k] \in T
  BY <1>0
<1>3. a \in Seq(T) /\ Len(a) = i - 1 /\ \A k \in 1..(i - 1) : a[k] = q[k]
  <2>1. 1 \in 1..(Len(q) + 1) /\ i - 1 \in (1 - 1)..Len(q)
    BY <1>0
  <2>2. a \in Seq(T) /\ Len(a) = (IF 1 <= i - 1 THEN (i - 1) - 1 + 1 ELSE 0)
        /\ \A k \in 1..((i - 1) - 1 + 1) : a[k] = q[1 + k - 1]
    BY <2>1, SubSeqProperties
  <2> HIDE DEF a
  <2>3. Len(a) = i - 1
    BY <1>0, <2>2
  <2>4. \A k \in 1..(i - 1) : 1 + k - 1 = k
    OBVIOUS
  <2> QED BY <2>2, <2>3, <2>4
<1>4. b \in Seq(T) /\ Len(b) = Len(q) - i /\ \A k \in 1..(Len(q) - i) : b[k] = q[i + k]
  <2>1. i + 1 \in 1..(Len(q) + 1) /\ Len(q) \in ((i + 1) - 1)..Len(q)
    BY <1>0
  <2>2. b \in Seq(T) /\ Len(b) = (IF i + 1 <= Len(q) THEN Len(q) - (i + 1) + 1 ELSE 0)
        /\ \A k \in 1..(Len(q) - (i + 1) + 1) : b[k] = q[(i + 1) + k - 1]
    BY <2>1, SubSeqProperties
  <2> HIDE DEF b
  <2>3. Len(b) = Len(q) - i
    <3>1. Len(b) = IF i + 1 <= Len(q) THEN Len(q) - (i + 1) + 1 ELSE 0
      BY <2>2
    <3>2. i \in Int /\ i <= Len(q) /\ Len(q) \in Int
      BY <1>0
    <3> QED BY <3>1, <3>2
  <2>4. \A k \in 1..(Len(q) - i) : (i + 1) + k - 1 = i + k /\ k \in 1..(Len(q) - (i + 1) + 1)
    BY <1>0
  <2> QED BY <2>2, <2>3, <2>4
<1> HIDE DEF a, b
<1> DEFINE d == a \o b
<1>5. d \in Seq(T) /\ Len(d) = Len(a) + Len(b)
      /\ \A k \in 1..(Len(a) + Len(b)) : d[k] = IF k <= Len(a) THEN a[k] ELSE b[k - Len(a)]
  BY <1>3, <1>4, ConcatProperties
<1> HIDE DEF d
<1>6. Len(d) = Len(q) - 1
  BY <1>0, <1>3, <1>4, <1>5
<1>7. ASSUME NEW k \in 1..(Len(q) - 1) PROVE d[k] = IF k < i THEN q[k] ELSE q[k + 1]
  <2>1. d[k] = IF k <= i - 1 THEN a[k] ELSE b[k - (i - 1)]
    BY <1>0, <1>3, <1>4, <1>5
  <2>2. CASE k < i
    BY <1>0, <1>3, <2>1, <2>2
  <2>3. CASE ~(k < i)
    <3>1. k - (i - 1) \in 1..(Len(q) - i) /\ i + (k - (i - 1)) = k + 1 /\ ~(k <= i - 1)
      BY <1>0, <2>3
    <3> QED BY <1>4, <2>1, <2>3, <3>1
  <2> QED BY <2>2, <2>3
<1>8. Dropped(q, i) = d
  BY DEF Dropped, a, b, d
<1> QED BY <1>5, <1>6, <1>7, <1>8

LEMMA DroppedLists ==
  ASSUME NEW T, NEW q \in Seq(T), NEW i \in 1..Len(q), Distinct(q)
  PROVE  Distinct(Dropped(q, i)) /\ Listed(Dropped(q, i)) = Listed(q) \ {q[i]}
<1> DEFINE d == Dropped(q, i)
<1>1. Len(q) \in Nat /\ DOMAIN q = 1..Len(q)
  BY LenProperties
<1>2. d \in Seq(T) /\ Len(d) = Len(q) - 1 /\ \A k \in 1..(Len(q) - 1) : d[k] = IF k < i THEN q[k] ELSE q[k + 1]
  BY DroppedIs
<1> HIDE DEF d
<1>3. DOMAIN d = 1..(Len(q) - 1)
  BY <1>2, LenProperties
<1>4. \A j, k \in 1..Len(q) : q[j] = q[k] => j = k
  BY <1>1 DEF Distinct
<1> DEFINE g(k) == IF k < i THEN k ELSE k + 1
<1>5. \A k \in 1..(Len(q) - 1) : g(k) \in 1..Len(q) /\ g(k) # i /\ d[k] = q[g(k)]
  BY <1>1, <1>2
<1>6. \A j, k \in 1..(Len(q) - 1) : g(j) = g(k) => j = k
  BY <1>1
<1>7. \A j \in 1..Len(q) : j # i => \E k \in 1..(Len(q) - 1) : g(k) = j
  <2> TAKE j \in 1..Len(q)
  <2> HAVE j # i
  <2>1. CASE j < i
    BY <1>1, <2>1
  <2>2. CASE j > i
    <3>1. j - 1 \in 1..(Len(q) - 1) /\ g(j - 1) = j
      BY <1>1, <2>2
    <3> HIDE DEF g
    <3> QED BY <3>1
  <2> QED BY <2>1, <2>2
<1> HIDE DEF g
<1>8. Distinct(d)
  BY <1>3, <1>4, <1>5, <1>6 DEF Distinct
<1>9. \A x \in Listed(d) : x \in Listed(q) \ {q[i]}
  BY <1>1, <1>3, <1>4, <1>5 DEF Listed
<1>10. \A x \in Listed(q) \ {q[i]} : x \in Listed(d)
  <2> TAKE x \in Listed(q) \ {q[i]}
  <2>1. PICK j \in 1..Len(q) : q[j] = x
    BY <1>1 DEF Listed
  <2>2. PICK k \in 1..(Len(q) - 1) : g(k) = j
    BY <1>7, <2>1
  <2>3. k \in DOMAIN d /\ d[k] = x
    BY <1>3, <1>5, <2>1, <2>2
  <2> QED BY <2>3 DEF Listed
<1>11. Listed(d) = Listed(q) \ {q[i]}
  BY <1>9, <1>10
<1> QED BY <1>8, <1>11 DEF d

\* What leaves an EventSet is given back, and forgotten with its last use.
LEMMA GiveBackKeeps ==
  ASSUME Inv, NEW s \in Sets, NEW t, t = Owner[s], NEW evs \in SUBSET Events, Calls(t), hw[t].run = None,
         master' = [master EXCEPT ![t] = Forgotten(t, Unlisted(t, evs))],
         thr' = [thr EXCEPT ![t].head = Used(t, Unlisted(t, evs))],
         UNCHANGED <<hw, timer, pc, program>>,
         sets' = [sets EXCEPT ![s] = sets'[s]], sets'[s] \in SetType, sets'[s].status = sets[s].status, InSet(s)',
         \A e \in evs : Holds(s, e),
         \A e \in Events : Holds(s, e)' <=> Holds(s, e) /\ e \notin evs
  PROVE  Inv'
<1> DEFINE m == Unlisted(t, evs)
           head == thr[t].head
<1>0. t \in Threads /\ s \in Mine(t)
  BY SetIs
<1>1. thr[t] \in ThreadType /\ master[t] \in [Events -> EventType] /\ head \in Seq(Events)
  BY <1>0, ThreadIs DEF Inv, Types
<1>2. \A e \in Events : Forgets(master[t][e]) /\ master[t][e].uses \in Nat
  BY <1>0, <1>1, StillIs, EventIs
<1>3. InList(t)
  BY <1>0 DEF Inv, InThread
<1>4. \A u \in Sets \ {s} : sets'[u] = sets[u]
  BY DEF Inv, Types
<1>5. \A u \in Mine(t) \ {s} : \A e : Holds(u, e)' = Holds(u, e)
  BY <1>4 DEF Holds, Mine
<1>6. ASSUME NEW e \in Events
      PROVE  Forgets(m[e]) /\ m[e].uses \in Nat /\ m[e].uses = Cardinality(Users(t, e)') /\ m[e].uses <= master[t][e].uses
  <2>0. master[t][e].uses = Cardinality(Users(t, e))
    BY <1>3 DEF InList
  <2>1. CASE e \in evs
    <3>1. s \in Users(t, e) /\ Users(t, e)' = Users(t, e) \ {s}
      BY <1>0, <1>5, <2>1 DEF Users, Mine
    <3>2. Cardinality(Users(t, e)') = Cardinality(Users(t, e)) - 1 /\ IsFiniteSet(Users(t, e) \ {s})
      <4> DEFINE S == Users(t, e)
      <4>1. IsFiniteSet(S)
        BY MineFinite
      <4> HIDE DEF S
      <4>2. s \in S => Cardinality(S \ {s}) = Cardinality(S) - 1 /\ IsFiniteSet(S \ {s})
        BY <4>1, FS_RemoveElement
      <4> QED BY <3>1, <4>2 DEF S
    <3>3. Cardinality(Users(t, e)') \in Nat
      BY <3>1, <3>2, FS_CardinalityType
    <3>4. m[e] = [master[t][e] EXCEPT !.uses = master[t][e].uses - 1]
      BY <2>1 DEF Unlisted
    <3>5. master[t][e].uses - 1 \in Nat
      BY <2>0, <3>2, <3>3
    <3> HIDE DEF m
    <3>6. Forgets(m[e]) /\ m[e].uses = master[t][e].uses - 1
      BY <1>2, <3>4, <3>5, UsesTo
    <3> QED BY <1>2, <2>0, <3>2, <3>5, <3>6
  <2>2. CASE e \notin evs
    <3>1. Users(t, e)' = Users(t, e)
      BY <1>0, <1>5, <2>2 DEF Users, Mine
    <3>2. m[e] = master[t][e]
      BY <2>2 DEF Unlisted
    <3> HIDE DEF m
    <3> QED BY <1>2, <2>0, <3>1, <3>2
  <2> QED BY <2>1, <2>2
<1> HIDE DEF m
<1>7. /\ master' = [master EXCEPT ![t] = master'[t]] /\ thr' = [thr EXCEPT ![t] = thr'[t]]
      /\ master'[t] = [e \in Events |-> IF m[e].uses > 0 THEN m[e] ELSE NoEvent]
      /\ thr'[t] = [head |-> Used(t, m), cur |-> thr[t].cur, total_c |-> thr[t].total_c]
      /\ \A u \in Threads \ {t} : master'[u] = master[u] /\ thr'[u] = thr[u]
  <2>1. master \in [Threads -> [Events -> EventType]] /\ thr \in [Threads -> ThreadType]
    BY DEF Inv, Types
  <2> DEFINE all == Forgotten(t, m)
             new == [thr[t] EXCEPT !.head = Used(t, m)]
  <2>2. all = [e \in Events |-> IF m[e].uses > 0 THEN m[e] ELSE NoEvent]
    BY DEF Forgotten
  <2>3. thr' = [thr EXCEPT ![t] = new] /\ master' = [master EXCEPT ![t] = all]
    BY DEF m
  <2>4. new = [head |-> Used(t, m), cur |-> thr[t].cur, total_c |-> thr[t].total_c]
    BY <1>1 DEF ThreadType
  <2> HIDE DEF all, new
  <2>5. thr'[t] = new /\ master'[t] = all /\ \A u \in Threads \ {t} : master'[u] = master[u] /\ thr'[u] = thr[u]
    BY <1>0, <2>1, <2>3
  <2> QED BY <2>2, <2>3, <2>4, <2>5
<1>8. ASSUME NEW e \in Events PROVE Forgets(master'[t][e]) /\ master'[t][e] \in EventType /\ master'[t][e].uses = m[e].uses
  <2>1. CASE m[e].uses > 0
    BY <1>6, <1>7, <2>1, ForgottenIs
  <2>2. CASE ~(m[e].uses > 0)
    <3>1. master'[t][e] = NoEvent
      BY <1>7, <2>2
    <3>2. NoEvent.uses = 0 /\ Forgets(NoEvent)
      BY DEF NoEvent, Forgets
    <3> QED BY <1>6, <2>2, <3>1, <3>2, ForgottenIs
  <2> QED BY <2>1, <2>2
<1>9. /\ Used(t, m) \in Seq(Events) /\ Distinct(Used(t, m))
      /\ Listed(Used(t, m)) = {e \in Listed(head) : m[e].uses > 0}
  BY <1>1, <1>3, UsedIs DEF InList
<1>10. thr'[t].head = Used(t, m) /\ thr'[t].cur = thr[t].cur /\ thr'[t].total_c = thr[t].total_c
  BY <1>7
<1>11. InList(t)'
  <2>1. \A e \in Events : e \in Listed(head) <=> master[t][e].uses > 0
    BY <1>3 DEF InList
  <2>2. \A e \in Events : e \in Listed(thr'[t].head) <=> master'[t][e].uses > 0
    <3> TAKE e \in Events
    <3>1. m[e].uses > 0 => master[t][e].uses > 0
      BY <1>2, <1>6
    <3> QED BY <1>8, <1>9, <1>10, <2>1, <3>1
  <2>3. \A e \in Events : master'[t][e].uses = Cardinality(Users(t, e)')
    BY <1>6, <1>8
  <2> QED BY <1>9, <1>10, <2>2, <2>3 DEF InList
<1>12. Types'
  <2>1. thr'[t] \in ThreadType
    <3>1. thr[t].cur \in Events \cup {None} /\ thr[t].total_c \in Nat
      BY <1>1 DEF ThreadType
    <3> QED BY <1>7, <1>9, <3>1 DEF ThreadType
  <2>2. master'[t] \in [Events -> EventType]
    BY <1>7, <1>8
  <2> QED BY <1>0, <1>7, <2>1, <2>2 DEF Inv, Types
<1>13. Only(t)
  BY <1>0, <1>4, <1>7 DEF Only
<1>14. \A u \in Mine(t) : sets'[u].status = sets[u].status /\ InSet(u)'
  <2> TAKE u \in Mine(t)
  <2>1. CASE u = s
    BY <2>1
  <2>2. CASE u # s
    BY <1>4, <2>2 DEF Inv, InSet, Running, Mine
  <2> QED BY <2>1, <2>2
<1> QED BY <1>0, <1>8, <1>10, <1>11, <1>12, <1>13, <1>14, ListsKeep

LEMMA RemoveEventKeeps ==
  ASSUME Inv, NEW s \in Sets, NEW e \in Events, RemoveEvent(s, e)
  PROVE  Inv'
<1> DEFINE t == Owner[s]
           mev == sets[s].mev
           start == sets[s].start
           i == At(s, e)
<1>1. /\ Calls(t) /\ hw[t].run = None /\ Holds(s, e)
      /\ sets' = [sets EXCEPT ![s] = Shifted(sets[s], i)]
      /\ master' = [master EXCEPT ![t] = Forgotten(t, Unlisted(t, {e}))]
      /\ thr' = [thr EXCEPT ![t].head = Used(t, Unlisted(t, {e}))]
      /\ UNCHANGED <<hw, timer, pc, program>>
  BY DEF RemoveEvent, Quiet
<1>2. /\ mev \in Seq(Events) /\ start \in Seq(Int) /\ Len(mev) \in Nat /\ Len(start) = Len(mev)
      /\ DOMAIN mev = 1..Len(mev) /\ DOMAIN start = 1..Len(mev)
      /\ \A k \in 1..Len(mev) : start[k] \in Nat
  BY SetIs
<1>3. InSet(s) /\ sets[s] \in SetType /\ sets \in [Sets -> SetType]
  BY DEF Inv, Types
<1>4. i \in 1..Len(mev) /\ mev[i] = e
  BY <1>1, <1>2 DEF Holds, At
<1> HIDE DEF i
<1>5. /\ sets'[s] = [running |-> sets[s].running, status |-> sets[s].status,
                     mev |-> Dropped(mev, i), start |-> Dropped(start, i)]
      /\ sets' = [sets EXCEPT ![s] = sets'[s]]
  <2>1. Shifted(sets[s], i) = [sets[s] EXCEPT !.mev = Dropped(mev, i), !.start = Dropped(start, i)]
    BY DEF Shifted
  <2>2. Shifted(sets[s], i) = [running |-> sets[s].running, status |-> sets[s].status,
                               mev |-> Dropped(mev, i), start |-> Dropped(start, i)]
    BY <1>3, <2>1, ListsTo
  <2>3. sets'[s] = Shifted(sets[s], i)
    BY <1>1, <1>3
  <2> QED BY <1>1, <2>2, <2>3
<1>6. /\ sets'[s].running = sets[s].running /\ sets'[s].status = sets[s].status
      /\ sets'[s].mev = Dropped(mev, i) /\ sets'[s].start = Dropped(start, i)
  <2> HIDE DEF mev, start
  <2> QED BY <1>5
<1> HIDE DEF mev, start
<1>7. /\ Dropped(mev, i) \in Seq(Events) /\ Len(Dropped(mev, i)) = Len(mev) - 1
      /\ Distinct(Dropped(mev, i)) /\ Listed(Dropped(mev, i)) = Listed(mev) \ {e}
  <2>1. Distinct(mev)
    BY <1>3 DEF InSet, mev
  <2> QED BY <1>2, <1>4, <2>1, DroppedIs, DroppedLists
<1>8. /\ Dropped(start, i) \in Seq(Int) /\ Len(Dropped(start, i)) = Len(mev) - 1
      /\ \A k \in 1..(Len(mev) - 1) : Dropped(start, i)[k] = IF k < i THEN start[k] ELSE start[k + 1]
  <2>1. start \in Seq(Int) /\ i \in 1..Len(start) /\ Len(start) = Len(mev)
    BY <1>2, <1>4
  <2>2. /\ Dropped(start, i) \in Seq(Int) /\ Len(Dropped(start, i)) = Len(start) - 1
        /\ \A k \in 1..(Len(start) - 1) : Dropped(start, i)[k] = IF k < i THEN start[k] ELSE start[k + 1]
    BY <2>1, DroppedIs
  <2> QED BY <2>1, <2>2
<1>9. InSet(s)'
  <2>1. DOMAIN Dropped(start, i) = 1..(Len(mev) - 1)
    BY <1>8, LenProperties
  <2>2. \A k \in 1..(Len(mev) - 1) : Dropped(start, i)[k] >= 0
    <3> TAKE k \in 1..(Len(mev) - 1)
    <3>1. k \in 1..Len(mev) /\ k + 1 \in 1..Len(mev)
      BY <1>2
    <3>2. start[k] \in Nat /\ start[k + 1] \in Nat
      BY <1>2, <3>1
    <3>3. Dropped(start, i)[k] = start[k] \/ Dropped(start, i)[k] = start[k + 1]
      BY <1>8, Zenon
    <3> QED BY <3>2, <3>3
  <2>3. sets[s].running => Running(s)
    BY <1>3 DEF InSet
  <2> QED BY <1>6, <1>7, <1>8, <2>1, <2>2, <2>3 DEF InSet, Running
<1>10. \A x \in Events : Holds(s, x)' <=> Holds(s, x) /\ x \notin {e}
  <2> TAKE x \in Events
  <2>1. Holds(s, x)' <=> x \in Listed(Dropped(mev, i))
    BY <1>6 DEF Holds, Listed
  <2>2. Holds(s, x) <=> x \in Listed(mev)
    BY DEF Holds, Listed, mev
  <2> QED BY <1>7, <2>1, <2>2
<1>11. sets'[s] \in SetType
  BY <1>3, <1>5, <1>7, <1>8 DEF SetType
<1>12. {e} \in SUBSET Events /\ \A x \in {e} : Holds(s, x)
  BY <1>1
<1> QED BY <1>1, <1>5, <1>6, <1>9, <1>10, <1>11, <1>12, GiveBackKeeps

LEMMA CleanupKeeps ==
  ASSUME Inv, NEW s \in Sets, Cleanup(s)
  PROVE  Inv'
<1> DEFINE t == Owner[s]
           evs == {sets[s].mev[i] : i \in DOMAIN sets[s].mev}
<1>1. /\ Calls(t) /\ hw[t].run = None
      /\ sets' = [sets EXCEPT ![s] = [sets[s] EXCEPT !.mev = <<>>, !.start = <<>>]]
      /\ master' = [master EXCEPT ![t] = Forgotten(t, Unlisted(t, evs))]
      /\ thr' = [thr EXCEPT ![t].head = Used(t, Unlisted(t, evs))]
      /\ UNCHANGED <<hw, timer, pc, program>>
  BY DEF Cleanup, Quiet
<1>2. InSet(s) /\ sets[s] \in SetType /\ sets \in [Sets -> SetType]
  BY DEF Inv, Types
<1>3. evs \in SUBSET Events /\ \A x : x \in evs <=> Holds(s, x)
  BY SetIs DEF Holds
<1>4. /\ sets'[s] = [running |-> sets[s].running, status |-> sets[s].status, mev |-> <<>>, start |-> <<>>]
      /\ sets' = [sets EXCEPT ![s] = sets'[s]]
  <2> DEFINE new == [sets[s] EXCEPT !.mev = <<>>, !.start = <<>>]
  <2>1. new = [running |-> sets[s].running, status |-> sets[s].status, mev |-> <<>>, start |-> <<>>]
    BY <1>2, ListsTo
  <2>2. sets' = [sets EXCEPT ![s] = new]
    BY <1>1
  <2> HIDE DEF new
  <2>3. sets'[s] = new
    BY <1>2, <2>2
  <2> QED BY <2>1, <2>2, <2>3
<1>5. /\ sets'[s].running = sets[s].running /\ sets'[s].status = sets[s].status
      /\ sets'[s].mev = <<>> /\ sets'[s].start = <<>>
  BY <1>4
<1>6. sets'[s] \in SetType
  BY <1>2, <1>4 DEF SetType
<1>7. InSet(s)'
  BY <1>2, <1>5 DEF InSet, Distinct, Running
<1>8. \A x \in Events : Holds(s, x)' <=> Holds(s, x) /\ x \notin evs
  <2> TAKE x \in Events
  <2>1. ~Holds(s, x)'
    BY <1>5 DEF Holds
  <2> HIDE DEF evs
  <2> QED BY <1>3, <2>1
<1> HIDE DEF evs
<1> QED BY <1>1, <1>3, <1>4, <1>5, <1>6, <1>7, <1>8, GiveBackKeeps

-----------------------------------------------------------------------------
(* Starting.                                                               *)

LEMMA ZeroedIs ==
  ASSUME NEW m \in EventType
  PROVE  /\ Zeroed(m) \in EventType /\ Zeroed(m).uses = m.uses /\ Zeroed(m).active = 1
         /\ Zeroed(m).prev_total_c = 0 /\ Zeroed(m).count_estimate = 0
         /\ Zeroed(m).rate_estimate.n = 0 /\ Zeroed(m).rate_estimate.c = 1
<1>1. m = [uses |-> m.uses, active |-> m.active, prev_total_c |-> m.prev_total_c,
           count_estimate |-> m.count_estimate, rate_estimate |-> m.rate_estimate] /\ m.uses \in Nat
  BY EventIs
<1>2. NoRate.n = 0 /\ NoRate.c = 1 /\ NoRate \in RateType
  BY DEF NoRate, RateType
<1> DEFINE u == m.uses
           a == m.active
           p == m.prev_total_c
           n == m.count_estimate
           r == m.rate_estimate
           z == Zeroed(m)
<1>3. m = [uses |-> u, active |-> a, prev_total_c |-> p, count_estimate |-> n, rate_estimate |-> r] /\ u \in Nat
  BY <1>1
<1> HIDE DEF u, a, p, n, r
<1>4. z = [uses |-> u, active |-> 1, prev_total_c |-> 0, count_estimate |-> 0, rate_estimate |-> NoRate]
  <2>1. /\ DOMAIN m = {"uses", "active", "prev_total_c", "count_estimate", "rate_estimate"}
        /\ m.uses = u
    BY <1>3
  <2>2. /\ z = [x \in DOMAIN m |-> IF x = "active" THEN 1 ELSE IF x \in {"count_estimate", "prev_total_c"} THEN 0
                                  ELSE IF x = "rate_estimate" THEN NoRate ELSE m[x]]
    BY <2>1 DEF Zeroed
  <2> HIDE DEF z
  <2> QED BY <2>1, <2>2
<1> HIDE DEF z
<1>5. z.uses = u /\ z.active = 1 /\ z.prev_total_c = 0 /\ z.count_estimate = 0 /\ z.rate_estimate = NoRate
  BY <1>4
<1>6. z \in EventType
  BY <1>2, <1>3, <1>4 DEF EventType
<1> QED BY <1>2, <1>5, <1>6 DEF z, u

LEMMA StatusTo ==
  ASSUME NEW r \in SetType, NEW q, NEW z
  PROVE  [r EXCEPT !.status = q, !.start = z] = [running |-> r.running, status |-> q, mev |-> r.mev, start |-> z]
<1> DEFINE a == r.running
           b == r.status
           c == r.mev
           d == r.start
           one == [[running |-> a, status |-> b, mev |-> c, start |-> d] EXCEPT !.status = q]
<1>1. r = [running |-> a, status |-> b, mev |-> c, start |-> d]
  BY DEF SetType
<1> HIDE DEF a, b, c, d
<1>2. one = [running |-> a, status |-> q, mev |-> c, start |-> d]
  OBVIOUS
<1>3. [[running |-> a, status |-> b, mev |-> c, start |-> d] EXCEPT !.status = q, !.start = z] = [one EXCEPT !.start = z]
  OBVIOUS
<1>4. [[running |-> a, status |-> q, mev |-> c, start |-> d] EXCEPT !.start = z]
      = [running |-> a, status |-> q, mev |-> c, start |-> z]
  OBVIOUS
<1> HIDE DEF one
<1> QED BY <1>1, <1>2, <1>3, <1>4 DEF a, c

LEMMA TurnTo ==
  ASSUME NEW r \in ThreadType, NEW q, NEW z
  PROVE  [r EXCEPT !.cur = q, !.total_c = z] = [head |-> r.head, cur |-> q, total_c |-> z]
<1> DEFINE a == r.head
           b == r.cur
           c == r.total_c
           one == [[head |-> a, cur |-> b, total_c |-> c] EXCEPT !.cur = q]
<1>1. r = [head |-> a, cur |-> b, total_c |-> c]
  BY DEF ThreadType
<1> HIDE DEF a, b, c
<1>2. one = [head |-> a, cur |-> q, total_c |-> c]
  OBVIOUS
<1>3. [[head |-> a, cur |-> b, total_c |-> c] EXCEPT !.cur = q, !.total_c = z] = [one EXCEPT !.total_c = z]
  OBVIOUS
<1>4. [[head |-> a, cur |-> q, total_c |-> c] EXCEPT !.total_c = z] = [head |-> a, cur |-> q, total_c |-> z]
  OBVIOUS
<1> HIDE DEF one
<1> QED BY <1>1, <1>2, <1>3, <1>4 DEF a

LEMMA StartEventsKeeps ==
  ASSUME Inv, NEW s \in Sets, StartEvents(s)
  PROVE  Inv'
<1> DEFINE t == Owner[s]
           mev == sets[s].mev
<1>0. t \in Threads /\ s \in Mine(t)
  BY SetIs
<1>1. /\ Calls(t) /\ hw[t].run = None
      /\ master' = [master EXCEPT ![t] = [e \in Events |-> IF Holds(s, e) THEN Zeroed(master[t][e]) ELSE master[t][e]]]
      /\ sets' = [sets EXCEPT ![s].status = "MPX_RUNNING", ![s].start = [i \in DOMAIN @ |-> 0]]
      /\ pc' = [pc EXCEPT ![t] = [op |-> "start", set |-> s, vals |-> <<>>]]
      /\ UNCHANGED <<timer, program>>
  BY DEF StartEvents
<1>2. PICK i \in DOMAIN mev :
           /\ thr' = [thr EXCEPT ![t].cur = mev[i], ![t].total_c = 0]
           /\ hw' = [hw EXCEPT ![t] = Slice(mev[i])]
  BY DEF StartEvents
<1> DEFINE cur == mev[i]
<1>3. /\ sets \in [Sets -> SetType] /\ thr \in [Threads -> ThreadType] /\ hw \in [Threads -> SliceType]
      /\ master \in [Threads -> [Events -> EventType]] /\ pc \in [Threads -> StageType]
      /\ sets[s] \in SetType /\ thr[t] \in ThreadType /\ master[t] \in [Events -> EventType]
  BY <1>0 DEF Inv, Types
<1>4. /\ mev \in Seq(Events) /\ Len(mev) \in Nat /\ Len(sets[s].start) = Len(mev) /\ sets[s].start \in Seq(Int)
      /\ DOMAIN mev = 1..Len(mev) /\ DOMAIN sets[s].start = 1..Len(mev)
      /\ \A k \in 1..Len(mev) : mev[k] \in Events
  BY SetIs
<1>5. cur \in Events /\ Holds(s, cur) /\ cur # None
  BY <1>4, MultiplexAssumption DEF Holds
<1>6. /\ \A u \in Mine(t) : ~Running(u) /\ ~sets[u].running
      /\ \A e \in Events : Forgets(master[t][e]) /\ master[t][e].active = 0
  BY <1>0, <1>1, StillIs
<1> HIDE DEF cur, t
<1>7. /\ sets' = [sets EXCEPT ![s] = sets'[s]]
      /\ sets'[s] = [running |-> sets[s].running, status |-> "MPX_RUNNING", mev |-> mev,
                     start |-> [k \in 1..Len(mev) |-> 0]]
      /\ \A u \in Sets \ {s} : sets'[u] = sets[u]
  <2> DEFINE new == [sets[s] EXCEPT !.status = "MPX_RUNNING", !.start = [k \in DOMAIN sets[s].start |-> 0]]
  <2>1. sets' = [sets EXCEPT ![s] = new]
    BY <1>1
  <2>2. new = [running |-> sets[s].running, status |-> "MPX_RUNNING", mev |-> mev,
               start |-> [k \in 1..Len(mev) |-> 0]]
    <3> DEFINE z == [k \in 1..Len(mev) |-> 0]
    <3>1. new = [sets[s] EXCEPT !.status = "MPX_RUNNING", !.start = z]
      BY <1>4
    <3> HIDE DEF z
    <3> QED BY <1>3, <3>1, StatusTo DEF z
  <2> HIDE DEF new
  <2>3. sets'[s] = new /\ \A u \in Sets \ {s} : sets'[u] = sets[u]
    BY <1>3, <2>1
  <2> QED BY <2>1, <2>2, <2>3
<1>8. /\ sets'[s].running = sets[s].running /\ sets'[s].status = "MPX_RUNNING"
      /\ sets'[s].mev = mev /\ sets'[s].start = [k \in 1..Len(mev) |-> 0]
  <2> HIDE DEF mev
  <2> QED BY <1>7
<1>9. /\ thr' = [thr EXCEPT ![t] = thr'[t]] /\ hw' = [hw EXCEPT ![t] = hw'[t]]
      /\ thr'[t] = [head |-> thr[t].head, cur |-> cur, total_c |-> 0]
      /\ hw'[t] = [run |-> cur, n |-> 0, c |-> 0]
      /\ \A u \in Threads \ {t} : thr'[u] = thr[u] /\ hw'[u] = hw[u]
  <2> DEFINE new == [thr[t] EXCEPT !.cur = cur, !.total_c = 0]
  <2>1. thr' = [thr EXCEPT ![t] = new] /\ hw' = [hw EXCEPT ![t] = Slice(cur)]
    BY <1>2 DEF cur
  <2>2. new = [head |-> thr[t].head, cur |-> cur, total_c |-> 0]
    BY <1>3, TurnTo
  <2> HIDE DEF new
  <2>3. thr'[t] = new /\ hw'[t] = Slice(cur) /\ \A u \in Threads \ {t} : thr'[u] = thr[u] /\ hw'[u] = hw[u]
    BY <1>0, <1>3, <2>1
  <2> QED BY <2>1, <2>2, <2>3 DEF Slice
<1>10. /\ thr'[t].head = thr[t].head /\ thr'[t].cur = cur /\ thr'[t].total_c = 0
       /\ hw'[t].run = cur /\ hw'[t].n = 0 /\ hw'[t].c = 0
  BY <1>9
<1>11. /\ master' = [master EXCEPT ![t] = master'[t]]
       /\ master'[t] = [e \in Events |-> IF Holds(s, e) THEN Zeroed(master[t][e]) ELSE master[t][e]]
       /\ pc' = [pc EXCEPT ![t] = pc'[t]] /\ pc'[t] = [op |-> "start", set |-> s, vals |-> <<>>]
       /\ \A u \in Threads \ {t} : master'[u] = master[u] /\ pc'[u] = pc[u]
  BY <1>0, <1>1, <1>3
<1>12. ASSUME NEW e \in Events
       PROVE  /\ master'[t][e] \in EventType /\ master'[t][e].uses = master[t][e].uses
              /\ master'[t][e].prev_total_c = 0 /\ master'[t][e].count_estimate = 0
              /\ master'[t][e].rate_estimate.n = 0
              /\ Holds(s, e) => master'[t][e].active = 1
              /\ ~Holds(s, e) => Forgets(master'[t][e])
  <2>1. master[t][e] \in EventType
    BY <1>3
  <2>2. CASE Holds(s, e)
    <3>1. master'[t][e] = Zeroed(master[t][e])
      BY <1>11, <2>2
    <3> QED BY <2>1, <2>2, <3>1, ZeroedIs
  <2>3. CASE ~Holds(s, e)
    <3>1. master'[t][e] = master[t][e]
      BY <1>11, <2>3
    <3> QED BY <1>6, <2>1, <2>3, <3>1, ForgottenIs
  <2> QED BY <2>2, <2>3
<1>13. \A u \in Sets : \A e : Holds(u, e)' = Holds(u, e)
  BY <1>7, <1>8 DEF Holds
<1>14. InList(t)'
  <2>1. InList(t)
    BY <1>0 DEF Inv, InThread
  <2>2. \A e \in Events : Users(t, e)' = Users(t, e)
    BY <1>13 DEF Users, Mine
  <2> QED BY <1>10, <1>12, <2>1, <2>2 DEF InList
<1>15. Running(s)' /\ \A u \in Mine(t) \ {s} : ~Running(u)'
  BY <1>6, <1>7, <1>8 DEF Running, Mine
<1>16. InTurn(t)'
  <2>1. \A u, v \in Mine(t) : Running(u)' /\ Running(v)' => u = v
    BY <1>15
  <2>2. \A e \in Events : (\E u \in Mine(t) : Holds(u, e)' /\ Running(u)') => master'[t][e].active = 1
    BY <1>0, <1>12, <1>13, <1>15 DEF Mine
  <2>3. \A e \in Events : (\A u \in Mine(t) : Running(u)' => ~Holds(u, e)') => Forgets(master'[t][e])
    BY <1>0, <1>12, <1>13, <1>15
  <2> QED BY <2>1, <2>2, <2>3 DEF InTurn, Mine, Forgets
<1>17. Counted(t)'
  <2>1. 0 <= MaxCycles /\ \A e \in Events : master'[t][e].prev_total_c <= 0
    BY <1>12, MultiplexAssumption
  <2> QED BY <1>0, <1>5, <1>10, <1>13, <1>15, <2>1 DEF Counted, Mine
<1>18. Underway(t)'
  <2>1. pc'[t].op = "start" /\ pc'[t].set = s
    BY <1>11
  <2> QED BY <1>0, <1>15, <2>1 DEF Underway, Mine
<1>19. AtRate(t)'
  <2> SUFFICES ASSUME Steady', NEW e \in Events, NEW r \in RatesOf(e)'
               PROVE  /\ master'[t][e].count_estimate <= r * master'[t][e].prev_total_c
                      /\ master'[t][e].rate_estimate.n \in {0, r * master'[t][e].rate_estimate.c}
                      /\ hw'[t].run = e => hw'[t].n = r * hw'[t].c
    BY DEF AtRate
  <2>1. r \in Nat
    BY <1>1, MultiplexAssumption DEF RatesOf, Types, Program, Inv
  <2> QED BY <2>1, <1>10, <1>12
<1>20. InSet(s)'
  <2>1. [k \in 1..Len(mev) |-> 0] \in Seq(Int) /\ Len([k \in 1..Len(mev) |-> 0]) = Len(mev)
    BY <1>4
  <2>2. Distinct(mev)
    BY DEF Inv, InSet
  <2> HIDE DEF mev
  <2> QED BY <1>0, <1>6, <1>8, <1>15, <2>1, <2>2 DEF InSet
<1>21. Types'
  <2>1. sets'[s] \in SetType
    <3>1. [k \in 1..Len(mev) |-> 0] \in Seq(Int)
      BY <1>4
    <3>2. sets[s].running \in BOOLEAN
      BY SetIs
    <3> HIDE DEF mev
    <3> QED BY <1>4, <1>7, <3>1, <3>2 DEF SetType
  <2>2. thr'[t] \in ThreadType /\ hw'[t] \in SliceType
    <3>1. thr[t].head \in Seq(Events)
      BY <1>0, ThreadIs
    <3> QED BY <1>5, <1>9, <3>1 DEF ThreadType, SliceType
  <2>3. master'[t] \in [Events -> EventType]
    BY <1>11, <1>12
  <2>4. pc'[t] \in StageType
    <3>1. <<>> \in Seq(Int)
      OBVIOUS
    <3> QED BY <1>11, <3>1 DEF StageType
  <2> QED BY <1>0, <1>1, <1>3, <1>7, <1>9, <1>11, <2>1, <2>2, <2>3, <2>4 DEF Inv, Types
<1>22. Only(t)
  BY <1>0, <1>1, <1>7, <1>9, <1>11 DEF Only
<1>23. \A u \in Mine(t) : InSet(u)'
  <2> TAKE u \in Mine(t)
  <2>1. CASE u = s
    BY <1>20, <2>1
  <2>2. CASE u # s
    BY <1>7, <2>2 DEF Inv, InSet, Running, Mine
  <2> QED BY <2>1, <2>2
<1>24. InThread(t)'
  BY <1>14, <1>16, <1>17, <1>18, <1>19 DEF InThread
<1> QED BY <1>0, <1>21, <1>22, <1>23, <1>24, OnlyKeeps

-----------------------------------------------------------------------------
(* What is extrapolated.                                                   *)

LEMMA Quotients ==
  ASSUME NEW a \in Nat, NEW c \in Nat \ {0}
  PROVE  a \div c \in Nat /\ (a * c) \div c = a /\ 0 \div c = 0
<1>1. a \div c \in Nat
  OBVIOUS
<1>2. (a * c) \div c = a
  OBVIOUS
<1>3. 0 \div c = 0
  OBVIOUS
<1> QED BY <1>1, <1>2, <1>3

LEMMA Products ==
  ASSUME NEW a \in Nat, NEW b \in Nat
  PROVE  a * b \in Nat
OBVIOUS

LEMMA ScaledIs ==
  ASSUME NEW rate \in RateType, NEW k \in Nat
  PROVE  /\ Scaled(rate, k) \in Nat
         /\ \A r \in Nat : rate.n \in {0, r * rate.c} => Scaled(rate, k) <= r * k
<1>1. rate.n \in Nat /\ rate.c \in Nat \ {0}
  BY DEF RateType
<1> DEFINE n == rate.n
           c == rate.c
<1>2. n \in Nat /\ c \in Nat \ {0} /\ Scaled(rate, k) = (k * n) \div c
  BY <1>1 DEF Scaled
<1> HIDE DEF n, c
<1>3. (k * n) \div c \in Nat
  BY <1>2, Products, Quotients
<1>4. ASSUME NEW r \in Nat, n \in {0, r * c} PROVE (k * n) \div c <= r * k
  <2>1. r * k \in Nat
    BY Products
  <2>2. CASE n = 0
    <3>1. k * n = 0
      BY <2>2
    <3> QED BY <1>2, <2>1, <3>1, Quotients
  <2>3. CASE n = r * c
    <3>1. k * n = (r * k) * c
      BY <1>2, <2>3
    <3>2. ((r * k) * c) \div c = r * k
      BY <1>2, <2>1, Quotients
    <3> QED BY <2>1, <3>1, <3>2
  <2> QED BY <1>4, <2>2, <2>3
<1> QED BY <1>2, <1>3, <1>4 DEF n, c

\* An event that is active was noted no later than now, so it is extrapolated by
\* what is not negative.
LEMMA ReadIs ==
  ASSUME Inv, NEW t \in Threads, NEW e \in Events
  PROVE  /\ master[t][e] \in EventType /\ master[t][e].count_estimate \in Nat
         /\ Since(t, e) \in Nat /\ hw[t].c + Since(t, e) \in Nat
         /\ Ahead(t, e) \in Nat /\ StopValue(t, e) \in Nat /\ ReadValue(t, e) \in Nat
         /\ ReadValue(t, e) <= StopValue(t, e)
<1>1. /\ thr[t].total_c \in Nat /\ hw[t].n \in Nat /\ hw[t].c \in Nat /\ master[t][e] \in EventType
  BY ThreadIs
<1>2. /\ master[t][e].prev_total_c \in Nat /\ master[t][e].count_estimate \in Nat
      /\ master[t][e].rate_estimate \in RateType
  BY <1>1, EventIs
<1>3. master[t][e].prev_total_c <= thr[t].total_c
  BY DEF Inv, InThread, Counted
<1>4. Since(t, e) \in Nat /\ hw[t].c + Since(t, e) \in Nat
  BY <1>1, <1>2, <1>3 DEF Since
<1>5. /\ Scaled(master[t][e].rate_estimate, Since(t, e)) \in Nat
      /\ Scaled(master[t][e].rate_estimate, hw[t].c + Since(t, e)) \in Nat
  BY <1>2, <1>4, ScaledIs
<1>6. Ahead(t, e) \in Nat
  BY <1>1, <1>5 DEF Ahead
<1> QED BY <1>1, <1>2, <1>4, <1>6 DEF StopValue, ReadValue

\* A step that only moves the call on.
LEMMA StageKeeps ==
  ASSUME Inv, NEW t \in Threads, UNCHANGED <<sets, master, thr, hw, timer, program>>,
         pc' = [pc EXCEPT ![t] = pc'[t]], pc'[t] \in StageType, Underway(t)'
  PROVE  Inv'
<1>1. pc \in [Threads -> StageType]
  BY DEF Inv, Types
<1>2. Types'
  BY <1>1 DEF Inv, Types
<1>3. Only(t)
  BY <1>1 DEF Only
<1>4. \A s \in Mine(t) : InSet(s)'
  BY DEF Inv, InSet, Running, Mine
<1>5. InThread(t)'
  <2>1. InList(t) /\ InTurn(t) /\ Counted(t) /\ AtRate(t)
    BY DEF Inv, InThread
  <2>2. \A s \in Sets : Running(s)' = Running(s) /\ \A e : Holds(s, e)' = Holds(s, e)
    BY DEF Running, Holds
  <2>4. \A e : Users(t, e)' = Users(t, e)
    BY DEF Users, Holds, Mine
  <2>5. InList(t)'
    BY <2>1, <2>4 DEF InList
  <2>6. InTurn(t)'
    BY <2>1, <2>2 DEF InTurn, Mine
  <2>7. Counted(t)'
    BY <2>1, <2>2 DEF Counted, Mine
  <2>3. AtRate(t)'
    BY <2>1 DEF AtRate, Steady, RatesOf
  <2> QED BY <2>3, <2>5, <2>6, <2>7 DEF InThread
<1> QED BY <1>2, <1>3, <1>4, <1>5, OnlyKeeps

LEMMA ResetReadKeeps ==
  ASSUME Inv, NEW s \in Sets, ResetRead(s)
  PROVE  Inv'
<1> DEFINE t == Owner[s]
           mev == sets[s].mev
<1>0. t \in Threads /\ s \in Mine(t)
  BY SetIs
<1>1. /\ sets[s].running /\ pc' = [pc EXCEPT ![t] = [op |-> "reset", set |-> s, vals |-> Reading(s)]]
      /\ UNCHANGED <<sets, master, thr, hw, timer, program>>
  BY DEF ResetRead
<1>2. Running(s) /\ pc \in [Threads -> StageType]
  BY <1>1 DEF Inv, InSet, Types
<1>3. /\ Len(mev) \in Nat /\ DOMAIN mev = 1..Len(mev) /\ DOMAIN sets[s].start = 1..Len(mev)
      /\ \A i \in 1..Len(mev) : mev[i] \in Events /\ sets[s].start[i] \in Nat
  BY SetIs
<1>4. Reading(s) = [i \in 1..Len(mev) |-> ReadValue(t, mev[i]) - sets[s].start[i]]
  BY <1>3 DEF Reading
<1> HIDE DEF t, mev
<1>5. \A i \in 1..Len(mev) : ReadValue(t, mev[i]) \in Nat
  BY <1>0, <1>3, ReadIs
<1> DEFINE vals == Reading(s)
<1>6. vals \in Seq(Int) /\ Len(vals) = Len(mev) /\ DOMAIN vals = 1..Len(mev)
  <2>1. \A i \in 1..Len(mev) : ReadValue(t, mev[i]) - sets[s].start[i] \in Int
    BY <1>3, <1>5
  <2> QED BY <1>3, <1>4, <2>1
<1>7. \A i \in 1..Len(mev) : sets[s].start[i] + vals[i] >= 0
  <2> TAKE i \in 1..Len(mev)
  <2>1. vals[i] = ReadValue(t, mev[i]) - sets[s].start[i]
    BY <1>4
  <2> HIDE DEF vals
  <2> QED BY <1>3, <1>5, <2>1
<1> HIDE DEF vals
<1>8. pc'[t] = [op |-> "reset", set |-> s, vals |-> vals] /\ pc' = [pc EXCEPT ![t] = pc'[t]]
  BY <1>0, <1>1, <1>2 DEF vals
<1>9. pc'[t] \in StageType
  BY <1>6, <1>8 DEF StageType
<1>10. Underway(t)'
  <2>1. pc'[t].op = "reset" /\ pc'[t].set = s /\ pc'[t].vals = vals
    BY <1>8
  <2>2. Running(s)' /\ sets'[s].running /\ s \in Mine(t)' /\ Len(sets'[s].mev) = Len(mev)
    BY <1>0, <1>1, <1>2 DEF Running, Mine, mev
  <2> QED BY <1>1, <1>6, <1>7, <2>1, <2>2 DEF Underway
<1> QED BY <1>0, <1>1, <1>8, <1>9, <1>10, StageKeeps

LEMMA StopReadKeeps ==
  ASSUME Inv, NEW s \in Sets, StopRead(s)
  PROVE  Inv'
<1> DEFINE t == Owner[s]
           mev == sets[s].mev
<1>0. t \in Threads /\ s \in Mine(t)
  BY SetIs
<1>1. /\ sets[s].running /\ pc' = [pc EXCEPT ![t] = [op |-> "stop", set |-> s, vals |-> LastReading(s)]]
      /\ UNCHANGED <<sets, master, thr, hw, timer, program>>
  BY DEF StopRead
<1>2. Running(s) /\ pc \in [Threads -> StageType]
  BY <1>1 DEF Inv, InSet, Types
<1>3. /\ Len(mev) \in Nat /\ DOMAIN mev = 1..Len(mev) /\ DOMAIN sets[s].start = 1..Len(mev)
      /\ \A i \in 1..Len(mev) : mev[i] \in Events /\ sets[s].start[i] \in Nat
  BY SetIs
<1>4. LastReading(s) = [i \in 1..Len(mev) |-> StopValue(t, mev[i]) - sets[s].start[i]]
  BY <1>3 DEF LastReading
<1> HIDE DEF t, mev
<1> DEFINE vals == LastReading(s)
<1>5. vals \in Seq(Int)
  <2>1. \A i \in 1..Len(mev) : StopValue(t, mev[i]) \in Nat
    BY <1>0, <1>3, ReadIs
  <2>2. \A i \in 1..Len(mev) : StopValue(t, mev[i]) - sets[s].start[i] \in Int
    BY <1>3, <2>1
  <2> QED BY <1>3, <1>4, <2>2
<1> HIDE DEF vals
<1>6. pc'[t] = [op |-> "stop", set |-> s, vals |-> vals] /\ pc' = [pc EXCEPT ![t] = pc'[t]]
  BY <1>0, <1>1, <1>2 DEF vals
<1>7. pc'[t] \in StageType
  BY <1>5, <1>6 DEF StageType
<1>8. Underway(t)'
  <2>1. pc'[t].op = "stop" /\ pc'[t].set = s
    BY <1>6
  <2> QED BY <1>0, <1>1, <1>2, <2>1 DEF Underway, Running, Mine
<1> QED BY <1>0, <1>1, <1>6, <1>7, <1>8, StageKeeps

-----------------------------------------------------------------------------
(* The rotation.                                                           *)

LEMMA Remainders ==
  ASSUME NEW a \in Nat, NEW n \in Nat \ {0}
  PROVE  (a % n) \in 0..(n - 1)
OBVIOUS

\* The entry so many places after a current event is an event of the list.
LEMMA AfterIs ==
  ASSUME Inv, NEW t \in Threads, thr[t].cur \in Events, NEW s \in Mine(t), Holds(s, thr[t].cur),
         NEW k \in 1..(Len(thr[t].head) - 1)
  PROVE  After(thr[t].head, thr[t].cur, k) \in Events
<1> DEFINE head == thr[t].head
           cur == thr[t].cur
           i == IndexIn(head, cur)
           j == (i + k - 1) % Len(head)
<1>1. Len(head) \in Nat /\ DOMAIN head = 1..Len(head) /\ \A l \in 1..Len(head) : head[l] \in Events
  BY ThreadIs, LenProperties, ElementOfSeq
<1>2. cur \in Listed(head)
  <2>1. s \in Users(t, cur)
    BY DEF Users
  <2>2. Cardinality(Users(t, cur)) # 0
    BY <2>1, MineFinite, FS_EmptySet
  <2>3. master[t][cur].uses \in Nat /\ master[t][cur].uses = Cardinality(Users(t, cur))
    BY MineFinite DEF Inv, InThread, InList
  <2> QED BY <2>2, <2>3 DEF Inv, InThread, InList
<1>3. i \in 1..Len(head)
  BY <1>1, <1>2 DEF IndexIn, Listed
<1> HIDE DEF head, cur, i
<1>4. i + k - 1 \in Nat /\ Len(head) \in Nat \ {0}
  BY <1>1, <1>3
<1>5. j \in 0..(Len(head) - 1)
  BY <1>4, Remainders
<1> HIDE DEF j
<1>6. j + 1 \in 1..Len(head)
  BY <1>1, <1>5
<1>7. After(head, cur, k) = head[j + 1]
  BY DEF After, i, j
<1> QED BY <1>1, <1>6, <1>7 DEF head, cur

\* The last step of a call that leaves the events, and what runs, as they are.
LEMMA LastKeeps ==
  ASSUME Inv, NEW t \in Threads, NEW s \in Mine(t), UNCHANGED <<master, thr, hw, program>>, timer' \in BOOLEAN,
         sets' = [sets EXCEPT ![s] = sets'[s]], sets'[s] \in SetType, InSet(s)',
         sets'[s].mev = sets[s].mev, sets'[s].status = sets[s].status, pc' = [pc EXCEPT ![t] = Idle]
  PROVE  Inv'
<1>0. s \in Sets
  BY DEF Mine
<1>1. /\ pc \in [Threads -> StageType] /\ sets \in [Sets -> SetType]
      /\ \A u \in Sets \ {s} : sets'[u] = sets[u]
  BY DEF Inv, Types
<1>2. Idle \in StageType /\ Idle.op = "idle" /\ pc'[t] = Idle
  <2>1. <<>> \in Seq(Int)
    OBVIOUS
  <2> QED BY <1>1, <2>1 DEF Idle, StageType
<1>3. Types'
  BY <1>0, <1>1, <1>2 DEF Inv, Types
<1>4. Only(t)
  BY <1>1 DEF Only
<1>5. \A u \in Mine(t) : InSet(u)'
  <2> TAKE u \in Mine(t)
  <2>1. CASE u = s
    BY <2>1
  <2>2. CASE u # s
    BY <1>1, <2>2 DEF Inv, InSet, Running, Mine
  <2> QED BY <2>1, <2>2
<1>6. InList(t) /\ InTurn(t) /\ Counted(t) /\ AtRate(t)
  BY DEF Inv, InThread
<1>7. \A u \in Sets : Running(u)' = Running(u) /\ \A e : Holds(u, e)' = Holds(u, e)
  BY <1>1 DEF Running, Holds
<1>8. \A e : Users(t, e)' = Users(t, e)
  BY <1>7 DEF Users, Mine
<1>9. InList(t)'
  BY <1>6, <1>8 DEF InList
<1>10. InTurn(t)'
  BY <1>6, <1>7 DEF InTurn, Mine
<1>11. Counted(t)'
  BY <1>6, <1>7 DEF Counted, Mine
<1>12. AtRate(t)'
  BY <1>6 DEF AtRate, Steady, RatesOf
<1>13. Underway(t)'
  BY <1>2 DEF Underway
<1>14. InThread(t)'
  BY <1>9, <1>10, <1>11, <1>12, <1>13 DEF InThread
<1> QED BY <1>3, <1>4, <1>5, <1>14, OnlyKeeps

LEMMA StartTimerKeeps ==
  ASSUME Inv, NEW t \in Threads, StartTimer(t)
  PROVE  Inv'
<1>0. PICK s \in Mine(t) : s = pc[t].set /\ Running(s)
  BY DEF StartTimer, Inv, InThread, Underway
<1>1. /\ pc[t].op = "start" /\ pc' = [pc EXCEPT ![t] = Idle] /\ UNCHANGED <<master, thr, hw, program>>
      /\ (timer' = TRUE /\ sets' = [sets EXCEPT ![s].running = TRUE]) \/ UNCHANGED <<timer, sets>>
  BY <1>0 DEF StartTimer
<1>2. s \in Mine(t) /\ Running(s)
  BY <1>0
<1>3. s \in Sets /\ sets \in [Sets -> SetType] /\ sets[s] \in SetType /\ timer \in BOOLEAN /\ InSet(s)
  BY <1>2 DEF Mine, Inv, Types
<1>4. /\ sets' = [sets EXCEPT ![s] = sets'[s]] /\ timer' \in BOOLEAN
      /\ sets'[s] = sets[s] \/ sets'[s] = [sets[s] EXCEPT !.running = TRUE]
  BY <1>1, <1>3
<1>5. /\ sets'[s] \in SetType
      /\ sets'[s].mev = sets[s].mev /\ sets'[s].status = sets[s].status /\ sets'[s].start = sets[s].start
  BY <1>3, <1>4 DEF SetType
<1>6. InSet(s)'
  BY <1>2, <1>3, <1>5 DEF InSet, Running
<1> QED BY <1>1, <1>2, <1>4, <1>5, <1>6, LastKeeps

LEMMA ResetStartKeeps ==
  ASSUME Inv, NEW t \in Threads, ResetStart(t)
  PROVE  Inv'
<1>0. PICK s \in Mine(t) : s = pc[t].set
  BY DEF ResetStart, Inv, InThread, Underway
<1> DEFINE start == sets[s].start
           vals == pc[t].vals
           sum == [i \in DOMAIN start |-> start[i] + vals[i]]
<1>1. /\ pc[t].op = "reset" /\ pc' = [pc EXCEPT ![t] = Idle] /\ UNCHANGED <<master, thr, hw, timer, program>>
      /\ sets' = [sets EXCEPT ![s].start = sum]
  BY <1>0 DEF ResetStart
<1>2. /\ s \in Mine(t) /\ Running(s) /\ Len(vals) = Len(sets[s].mev)
      /\ \A i \in DOMAIN vals : start[i] + vals[i] >= 0
  BY <1>0, <1>1 DEF Inv, InThread, Underway
<1>3. /\ s \in Sets /\ sets \in [Sets -> SetType] /\ sets[s] \in SetType /\ timer \in BOOLEAN /\ InSet(s)
      /\ pc[t] \in StageType
  BY <1>2 DEF Mine, Inv, Types
<1>4. /\ Len(start) = Len(sets[s].mev) /\ Len(start) \in Nat /\ DOMAIN start = 1..Len(start)
      /\ \A i \in 1..Len(start) : start[i] \in Nat
  BY <1>3, SetIs
<1>5. DOMAIN vals = 1..Len(start) /\ \A i \in 1..Len(start) : vals[i] \in Int
  <2>1. vals \in Seq(Int)
    BY <1>3 DEF StageType
  <2> QED BY <1>2, <1>4, <2>1, LenProperties, ElementOfSeq
<1> HIDE DEF start, vals
<1>6. \A i \in 1..Len(start) : start[i] + vals[i] \in Int
  BY <1>4, <1>5
<1>7. sum \in Seq(Int) /\ Len(sum) = Len(start) /\ DOMAIN sum = 1..Len(start)
  BY <1>4, <1>6
<1>8. \A i \in 1..Len(start) : sum[i] >= 0
  BY <1>2, <1>4, <1>5
<1> HIDE DEF sum
<1>9. sets' = [sets EXCEPT ![s] = sets'[s]] /\ sets'[s] = [sets[s] EXCEPT !.start = sum]
  BY <1>1, <1>3
<1>10. /\ sets'[s] \in SetType /\ sets'[s].start = sum /\ sets'[s].running = sets[s].running
       /\ sets'[s].mev = sets[s].mev /\ sets'[s].status = sets[s].status
  BY <1>3, <1>7, <1>9 DEF SetType
<1>11. InSet(s)'
  <2>1. Distinct(sets[s].mev) /\ Len(start) = Len(sets[s].mev)
    BY <1>3, <1>4 DEF InSet
  <2>2. Len(sum) = Len(sets[s].mev) /\ \A i \in DOMAIN sum : sum[i] >= 0
    BY <1>7, <1>8, <2>1
  <2> QED BY <1>2, <1>10, <2>1, <2>2 DEF InSet, Running
<1>12. timer' \in BOOLEAN
  BY <1>1, <1>3
<1> QED BY <1>1, <1>2, <1>9, <1>10, <1>11, <1>12, LastKeeps

-----------------------------------------------------------------------------
(* Stopping: the events of the one EventSet that runs are forgotten.        *)

LEMMA RestedIs ==
  ASSUME NEW m \in EventType, m.active = 1
  PROVE  Forgets(Rested(m)) /\ Rested(m).uses = m.uses /\ Rested(m) \in EventType
<1>1. m.uses \in Nat
  BY EventIs
<1>2. Rested(m) = [NoEvent EXCEPT !.uses = m.uses]
  BY DEF Rested
<1>3. Forgets(NoEvent)
  BY DEF Forgets, NoEvent
<1> QED BY <1>1, <1>2, <1>3, UsesTo

LEMMA StopEventsKeeps ==
  ASSUME Inv, NEW t \in Threads, StopEvents(t)
  PROVE  Inv' /\ \A s \in Mine(t) : ~sets'[s].running
<1>a. PICK s \in Mine(t) : s = pc[t].set
  BY DEF StopEvents, Inv, InThread, Underway
<1> DEFINE cur == thr[t].cur
           m == Deactivated(t, s)
<1>0. InList(t) /\ InTurn(t) /\ Counted(t) /\ Underway(t)
  BY DEF Inv, InThread
<1>1. /\ pc[t].op = "stop" /\ master' = [master EXCEPT ![t] = m]
      /\ sets' = [sets EXCEPT ![s].running = FALSE, ![s].status = "MPX_STOPPED"]
      /\ pc' = [pc EXCEPT ![t] = Idle] /\ UNCHANGED program
  BY <1>a DEF StopEvents
<1>2. s \in Mine(t) /\ Running(s) /\ s \in Sets
  BY <1>a, <1>0, <1>1 DEF Underway, Mine
<1>3. /\ sets \in [Sets -> SetType] /\ thr \in [Threads -> ThreadType] /\ hw \in [Threads -> SliceType]
      /\ master \in [Threads -> [Events -> EventType]] /\ pc \in [Threads -> StageType] /\ timer \in BOOLEAN
      /\ sets[s] \in SetType /\ thr[t] \in ThreadType /\ master[t] \in [Events -> EventType]
  BY <1>2 DEF Inv, Types
<1>4. \A u \in Mine(t) : Running(u) => u = s
  BY <1>0, <1>2 DEF InTurn
<1>5. ASSUME NEW e \in Events
      PROVE  Forgets(m[e]) /\ m[e].uses = master[t][e].uses /\ m[e] \in EventType /\ m[e].active = 0
  <2>1. master[t][e] \in EventType
    BY <1>3
  <2>2. CASE Holds(s, e)
    <3>1. master[t][e].active = 1
      BY <1>0, <1>2, <2>2 DEF InTurn
    <3>2. m[e] = Rested(master[t][e])
      BY <2>2 DEF Deactivated
    <3> HIDE DEF m
    <3> QED BY <2>1, <3>1, <3>2, RestedIs, ForgottenIs
  <2>3. CASE ~Holds(s, e)
    <3>1. Forgets(master[t][e])
      BY <1>0, <1>4, <2>3 DEF InTurn
    <3>2. m[e] = master[t][e]
      BY <2>3 DEF Deactivated
    <3> HIDE DEF m
    <3> QED BY <2>1, <3>1, <3>2, ForgottenIs
  <2> QED BY <2>2, <2>3
<1>6. cur \in Events /\ Holds(s, cur) /\ m[cur].active = 0
  <2>1. cur # None
    BY <1>0, <1>2 DEF Counted
  <2>2. cur \in Events
    BY <2>1, ThreadIs
  <2>3. Holds(s, cur)
    BY <1>0, <1>4, <2>1 DEF Counted
  <2> QED BY <1>5, <2>2, <2>3
<1>7. NextActive(t, m, cur) = cur
  <2>1. \A k \in 1..(Len(thr[t].head) - 1) : After(thr[t].head, cur, k) \in Events
    BY <1>2, <1>6, AfterIs
  <2> HIDE DEF m, cur
  <2> QED BY <1>5, <2>1 DEF NextActive
<1>8. /\ thr' = [thr EXCEPT ![t].cur = None, ![t].total_c = 0] /\ hw' = [hw EXCEPT ![t] = NoSlice]
      /\ timer' = FALSE
  BY <1>a, <1>6, <1>7 DEF StopEvents
<1> HIDE DEF cur, m
<1>9. /\ thr' = [thr EXCEPT ![t] = thr'[t]] /\ thr'[t] = [head |-> thr[t].head, cur |-> None, total_c |-> 0]
      /\ hw'[t] = NoSlice /\ \A u \in Threads \ {t} : thr'[u] = thr[u] /\ hw'[u] = hw[u]
  <2> DEFINE new == [thr[t] EXCEPT !.cur = None, !.total_c = 0]
  <2>1. thr' = [thr EXCEPT ![t] = new]
    BY <1>8
  <2>2. new = [head |-> thr[t].head, cur |-> None, total_c |-> 0]
    BY <1>3, TurnTo
  <2> HIDE DEF new
  <2> QED BY <1>3, <1>8, <2>1, <2>2
<1>10. thr'[t].head = thr[t].head /\ thr'[t].cur = None /\ thr'[t].total_c = 0
  BY <1>9
<1>11. /\ sets' = [sets EXCEPT ![s] = sets'[s]] /\ \A u \in Sets \ {s} : sets'[u] = sets[u]
       /\ sets'[s].running = FALSE /\ sets'[s].status = "MPX_STOPPED"
       /\ sets'[s].mev = sets[s].mev /\ sets'[s].start = sets[s].start /\ sets'[s] \in SetType
  <2> DEFINE new == [sets[s] EXCEPT !.running = FALSE, !.status = "MPX_STOPPED"]
  <2>1. sets' = [sets EXCEPT ![s] = new]
    BY <1>1
  <2>2. /\ new.running = FALSE /\ new.status = "MPX_STOPPED" /\ new.mev = sets[s].mev
        /\ new.start = sets[s].start /\ new \in SetType
    BY <1>3 DEF SetType
  <2> HIDE DEF new
  <2> QED BY <1>2, <1>3, <2>1, <2>2
<1>12. \A u \in Mine(t) : ~Running(u)' /\ ~sets'[u].running
  <2>1. \A u \in Mine(t) \ {s} : ~Running(u) /\ ~sets[u].running
    BY <1>4 DEF Inv, InSet, Mine
  <2> QED BY <1>11, <2>1 DEF Running, Mine
<1>13. \A u \in Sets : \A e : Holds(u, e)' = Holds(u, e)
  BY <1>11 DEF Holds
<1>14. master'[t] = m /\ master' = [master EXCEPT ![t] = master'[t]] /\ \A u \in Threads \ {t} : master'[u] = master[u]
  BY <1>1, <1>3
<1>15. pc'[t] = Idle /\ Idle \in StageType /\ Idle.op = "idle" /\ \A u \in Threads \ {t} : pc'[u] = pc[u]
  <2>1. <<>> \in Seq(Int)
    OBVIOUS
  <2> QED BY <1>1, <1>3, <2>1 DEF Idle, StageType
<1>16. InList(t)'
  <2>1. \A e \in Events : Users(t, e)' = Users(t, e)
    BY <1>13 DEF Users, Mine
  <2> QED BY <1>0, <1>5, <1>10, <1>14, <2>1 DEF InList
<1>17. InTurn(t)'
  <2>1. \A e \in Events : Forgets(master'[t][e])
    BY <1>5, <1>14
  <2> QED BY <1>12, <2>1 DEF InTurn, Mine, Forgets
<1>18. Counted(t)'
  <2>1. 0 <= MaxCycles /\ \A e \in Events : master'[t][e].prev_total_c <= 0
    BY <1>5, <1>14, ForgottenIs, MultiplexAssumption
  <2>2. hw'[t] = NoSlice /\ hw'[t].run = None
    BY <1>9 DEF NoSlice
  <2> QED BY <1>10, <1>12, <2>1, <2>2 DEF Counted, Mine, NoSlice
<1>19. Underway(t)'
  BY <1>15 DEF Underway
<1>20. AtRate(t)'
  <2> SUFFICES ASSUME Steady', NEW e \in Events, NEW r \in RatesOf(e)'
               PROVE  /\ master'[t][e].count_estimate <= r * master'[t][e].prev_total_c
                      /\ master'[t][e].rate_estimate.n \in {0, r * master'[t][e].rate_estimate.c}
                      /\ hw'[t].run = e => hw'[t].n = r * hw'[t].c
    BY DEF AtRate
  <2>1. r \in Nat
    BY <1>1, MultiplexAssumption DEF RatesOf, Types, Program, Inv
  <2>2. hw'[t].run # e
    BY <1>9, MultiplexAssumption DEF NoSlice
  <2>3. Forgets(master'[t][e])
    BY <1>5, <1>14
  <2> QED BY <2>1, <2>2, <2>3, ForgottenIs
<1>21. InSet(s)'
  <2>1. InSet(s)
    BY <1>2 DEF Inv
  <2> QED BY <1>11, <2>1 DEF InSet
<1>22. \A u \in Mine(t) : InSet(u)'
  <2> TAKE u \in Mine(t)
  <2>1. CASE u = s
    BY <1>21, <2>1
  <2>2. CASE u # s
    BY <1>11, <2>2 DEF Inv, InSet, Running, Mine
  <2> QED BY <2>1, <2>2
<1>23. Types'
  <2>1. thr'[t] \in ThreadType /\ NoSlice \in SliceType
    <3>1. thr[t].head \in Seq(Events)
      BY ThreadIs
    <3> QED BY <1>9, <3>1 DEF ThreadType, NoSlice, SliceType
  <2>2. m \in [Events -> EventType]
    <3>1. m = [e \in Events |-> m[e]]
      BY DEF m, Deactivated
    <3> QED BY <1>5, <3>1
  <2> QED BY <1>1, <1>2, <1>3, <1>8, <1>9, <1>11, <1>14, <1>15, <2>1, <2>2 DEF Inv, Types
<1>24. Only(t)
  BY <1>1, <1>2, <1>9, <1>11, <1>14, <1>15 DEF Only
<1>25. InThread(t)'
  BY <1>16, <1>17, <1>18, <1>19, <1>20 DEF InThread
<1> QED BY <1>12, <1>22, <1>23, <1>24, <1>25, OnlyKeeps

LEMMA Distributes ==
  ASSUME NEW r \in Nat, NEW a \in Nat, NEW b \in Nat, a <= b
  PROVE  r * a \in Nat /\ r * b \in Nat /\ r * (b - a) \in Nat /\ r * a + r * (b - a) = r * b
<1>1. b - a \in Nat
  OBVIOUS
<1>2. r * a \in Nat /\ r * b \in Nat /\ r * (b - a) \in Nat
  BY <1>1, Products
<1>3. r * a + r * (b - a) = r * b
  OBVIOUS
<1> QED BY <1>2, <1>3

\* A new estimate is up to the time that is noted, and not less than the last.
LEMMA EstimatedIs ==
  ASSUME NEW m \in EventType, NEW slice \in SliceType, NEW total \in Nat, m.prev_total_c <= total
  PROVE  LET est == Estimated(m, slice, total)
         IN  /\ est \in EventType /\ est.uses = m.uses /\ est.active = m.active /\ est.prev_total_c = total
             /\ m.count_estimate <= est.count_estimate
             /\ \A r \in Nat :
                  m.count_estimate <= r * m.prev_total_c /\ m.rate_estimate.n \in {0, r * m.rate_estimate.c}
                    /\ slice.n = r * slice.c =>
                  est.count_estimate <= r * total /\ est.rate_estimate.n \in {0, r * est.rate_estimate.c}
<1> DEFINE rate == IF slice.c >= MPX_MINCYC THEN [n |-> slice.n, c |-> slice.c] ELSE m.rate_estimate
           more == Scaled(rate, total - m.prev_total_c)
           est == Estimated(m, slice, total)
<1>1. /\ m = [uses |-> m.uses, active |-> m.active, prev_total_c |-> m.prev_total_c,
              count_estimate |-> m.count_estimate, rate_estimate |-> m.rate_estimate]
      /\ m.uses \in Nat /\ m.active \in Nat /\ m.prev_total_c \in Nat /\ m.count_estimate \in Nat
      /\ m.rate_estimate \in RateType
  BY EventIs
<1>2. slice.n \in Nat /\ slice.c \in Nat /\ MPX_MINCYC \in Nat \ {0}
  BY MultiplexAssumption DEF SliceType
<1>3. rate \in RateType
  <2>1. slice.c >= MPX_MINCYC => [n |-> slice.n, c |-> slice.c] \in RateType
    BY <1>2 DEF RateType
  <2> QED BY <1>1, <2>1
<1>4. \A r \in Nat : m.rate_estimate.n \in {0, r * m.rate_estimate.c} /\ slice.n = r * slice.c =>
                     rate.n \in {0, r * rate.c}
  <2>1. CASE slice.c >= MPX_MINCYC
    <3>1. rate.n = slice.n /\ rate.c = slice.c
      BY <2>1
    <3> QED BY <3>1
  <2>2. CASE ~(slice.c >= MPX_MINCYC)
    BY <2>2
  <2> QED BY <2>1, <2>2
<1>5. est = [m EXCEPT !.rate_estimate = rate, !.prev_total_c = total, !.count_estimate = m.count_estimate + more]
  BY DEF Estimated
<1> HIDE DEF rate, more, est
<1>6. total - m.prev_total_c \in Nat
  BY <1>1
<1>7. more \in Nat /\ \A r \in Nat : rate.n \in {0, r * rate.c} => more <= r * (total - m.prev_total_c)
  BY <1>3, <1>6, ScaledIs DEF more
<1>8. /\ est.uses = m.uses /\ est.active = m.active /\ est.prev_total_c = total
      /\ est.count_estimate = m.count_estimate + more /\ est.rate_estimate = rate
      /\ DOMAIN est = DOMAIN m
  <2>1. DOMAIN m = {"uses", "active", "prev_total_c", "count_estimate", "rate_estimate"}
    BY <1>1
  <2> QED BY <1>5, <2>1
<1>9. est \in EventType
  <2>1. est = [x \in DOMAIN m |-> est[x]]
    BY <1>5
  <2>2. DOMAIN m = {"uses", "active", "prev_total_c", "count_estimate", "rate_estimate"}
    BY <1>1
  <2>3. m.count_estimate + more \in Nat
    BY <1>1, <1>7
  <2>4. est = [uses |-> est.uses, active |-> est.active, prev_total_c |-> est.prev_total_c,
               count_estimate |-> est.count_estimate, rate_estimate |-> est.rate_estimate]
    BY <2>1, <2>2
  <2>5. est = [uses |-> m.uses, active |-> m.active, prev_total_c |-> total,
               count_estimate |-> m.count_estimate + more, rate_estimate |-> rate]
    BY <1>8, <2>4
  <2> QED BY <1>1, <1>3, <2>3, <2>5 DEF EventType
<1>10. m.count_estimate <= est.count_estimate
  BY <1>1, <1>7, <1>8
<1>11. ASSUME NEW r \in Nat, m.count_estimate <= r * m.prev_total_c,
              m.rate_estimate.n \in {0, r * m.rate_estimate.c}, slice.n = r * slice.c
       PROVE  est.count_estimate <= r * total /\ est.rate_estimate.n \in {0, r * est.rate_estimate.c}
  <2>1. rate.n \in {0, r * rate.c}
    BY <1>4, <1>11
  <2>2. more <= r * (total - m.prev_total_c)
    BY <1>7, <2>1
  <2>3. /\ r * m.prev_total_c \in Nat /\ r * total \in Nat /\ r * (total - m.prev_total_c) \in Nat
        /\ r * m.prev_total_c + r * (total - m.prev_total_c) = r * total
    BY <1>1, Distributes
  <2> DEFINE a == r * m.prev_total_c
             b == r * (total - m.prev_total_c)
             c == r * total
  <2>4. a \in Nat /\ b \in Nat /\ c \in Nat /\ a + b = c /\ m.count_estimate <= a /\ more <= b
    BY <1>11, <2>2, <2>3
  <2> HIDE DEF a, b, c
  <2>5. m.count_estimate + more <= c
    BY <1>1, <1>7, <2>4
  <2> QED BY <1>8, <2>1, <2>5 DEF c
<1> QED BY <1>8, <1>9, <1>10, <1>11 DEF est

\* What the signal comes to next is an active event.
LEMMA NextIs ==
  ASSUME Inv, NEW t \in Threads, thr[t].cur \in Events, NEW s \in Mine(t), Holds(s, thr[t].cur),
         NEW m, m[thr[t].cur].active > 0
  PROVE  /\ NextActive(t, m, thr[t].cur) \in Events
         /\ m[NextActive(t, m, thr[t].cur)].active > 0
<1> DEFINE cur == thr[t].cur
           head == thr[t].head
           ks == {k \in 1..(Len(head) - 1) : m[After(head, cur, k)].active > 0}
           first == CHOOSE k \in ks : \A l \in ks : k <= l
<1>1. NextActive(t, m, cur) = IF ks = {} THEN cur ELSE After(head, cur, first)
  BY DEF NextActive
<1>2. CASE ks = {}
  BY <1>1, <1>2
<1>3. CASE ks # {}
  <2>1. Len(head) \in Nat
    BY ThreadIs, LenProperties
  <2> HIDE DEF head, cur
  <2>2. ks \in SUBSET Nat
    BY <2>1
  <2>3. first \in ks
    <3> HIDE DEF ks
    <3>1. \E k \in ks : \A l \in ks : k <= l
      BY <1>3, <2>2, NatLeast
    <3> QED BY <3>1
  <2> HIDE DEF first
  <2>4. first \in 1..(Len(head) - 1) /\ m[After(head, cur, first)].active > 0
    BY <2>3
  <2>5. After(head, cur, first) \in Events
    BY <2>4, AfterIs DEF head, cur
  <2> HIDE DEF ks
  <2> QED BY <1>1, <1>3, <2>4, <2>5 DEF cur
<1> QED BY <1>2, <1>3

LEMMA TotalTo ==
  ASSUME NEW r \in ThreadType, NEW q, NEW z
  PROVE  [r EXCEPT !.total_c = z, !.cur = q] = [head |-> r.head, cur |-> q, total_c |-> z]
<1> DEFINE a == r.head
           b == r.cur
           c == r.total_c
           one == [[head |-> a, cur |-> b, total_c |-> c] EXCEPT !.total_c = z]
<1>1. r = [head |-> a, cur |-> b, total_c |-> c]
  BY DEF ThreadType
<1> HIDE DEF a, b, c
<1>2. one = [head |-> a, cur |-> b, total_c |-> z]
  OBVIOUS
<1>3. [[head |-> a, cur |-> b, total_c |-> c] EXCEPT !.total_c = z, !.cur = q] = [one EXCEPT !.cur = q]
  OBVIOUS
<1>4. [[head |-> a, cur |-> b, total_c |-> z] EXCEPT !.cur = q] = [head |-> a, cur |-> q, total_c |-> z]
  OBVIOUS
<1> HIDE DEF one
<1> QED BY <1>1, <1>2, <1>3, <1>4 DEF a

LEMMA SliceTo ==
  ASSUME NEW r \in SliceType, NEW q, NEW z
  PROVE  [r EXCEPT !.c = q, !.n = z] = [run |-> r.run, n |-> z, c |-> q]
<1> DEFINE a == r.run
           b == r.n
           c == r.c
           one == [[run |-> a, n |-> b, c |-> c] EXCEPT !.c = q]
<1>1. r = [run |-> a, n |-> b, c |-> c]
  BY DEF SliceType
<1> HIDE DEF a, b, c
<1>2. one = [run |-> a, n |-> b, c |-> q]
  OBVIOUS
<1>3. [[run |-> a, n |-> b, c |-> c] EXCEPT !.c = q, !.n = z] = [one EXCEPT !.n = z]
  OBVIOUS
<1>4. [[run |-> a, n |-> b, c |-> q] EXCEPT !.n = z] = [run |-> a, n |-> z, c |-> q]
  OBVIOUS
<1> HIDE DEF one
<1> QED BY <1>1, <1>2, <1>3, <1>4 DEF a

LEMMA HandlerKeeps ==
  ASSUME Inv, NEW t \in Threads, mpx_handler(t)
  PROVE  /\ Inv' /\ UNCHANGED <<sets, timer>> /\ \A u \in Threads \ {t} : master'[u] = master[u]
         /\ \A e \in Events : master[t][e].count_estimate <= master'[t][e].count_estimate
<1>0. InList(t) /\ InTurn(t) /\ Counted(t) /\ Underway(t) /\ AtRate(t)
  BY DEF Inv, InThread
<1>1. PICK cur \in Events : cur = thr[t].cur
  BY ThreadIs DEF mpx_handler
<1>2. PICK s \in Mine(t) : Running(s) /\ Holds(s, cur)
  BY <1>0, <1>1, MultiplexAssumption DEF Counted
<1>3. /\ sets \in [Sets -> SetType] /\ thr \in [Threads -> ThreadType] /\ hw \in [Threads -> SliceType]
      /\ master \in [Threads -> [Events -> EventType]]
      /\ thr[t] \in ThreadType /\ hw[t] \in SliceType /\ master[t] \in [Events -> EventType]
  BY DEF Inv, Types
<1> DEFINE total == Least(thr[t].total_c + hw[t].c, MaxCycles)
           est == Estimated(master[t][cur], hw[t], total)
           m == [master[t] EXCEPT ![cur] = est]
           next == Rotated(t, m, Decent(t))
<1>4. /\ master' = [master EXCEPT ![t] = m]
      /\ thr' = [thr EXCEPT ![t].total_c = total, ![t].cur = next]
      /\ hw' = [hw EXCEPT ![t] = IF m[next].active > 0 THEN Slice(next) ELSE NoSlice]
      /\ UNCHANGED <<sets, timer, pc, program>>
  BY <1>1 DEF mpx_handler
<1>5. /\ thr[t].total_c \in Nat /\ hw[t].c \in Nat /\ thr[t].total_c <= MaxCycles
      /\ \A e \in Events : /\ master[t][e].prev_total_c \in Nat /\ master[t][e].prev_total_c <= thr[t].total_c
                           /\ master[t][e].count_estimate \in Nat
  BY <1>0, <1>3, ThreadIs, EventIs DEF Counted
<1>6. total \in Nat /\ thr[t].total_c <= total /\ total <= MaxCycles
  BY <1>5, MultiplexAssumption DEF Least
<1> HIDE DEF total
<1>7. master[t][cur] \in EventType /\ master[t][cur].prev_total_c <= total
  BY <1>3, <1>5, <1>6
<1>8. /\ est \in EventType /\ est.uses = master[t][cur].uses /\ est.active = master[t][cur].active
      /\ est.prev_total_c = total /\ master[t][cur].count_estimate <= est.count_estimate
      /\ \A r \in Nat :
           master[t][cur].count_estimate <= r * master[t][cur].prev_total_c
             /\ master[t][cur].rate_estimate.n \in {0, r * master[t][cur].rate_estimate.c}
             /\ hw[t].n = r * hw[t].c =>
           est.count_estimate <= r * total /\ est.rate_estimate.n \in {0, r * est.rate_estimate.c}
  <2> DEFINE ev == master[t][cur]
             sl == hw[t]
  <2>1. ev \in EventType /\ sl \in SliceType /\ total \in Nat /\ ev.prev_total_c <= total
    BY <1>3, <1>6, <1>7
  <2> HIDE DEF ev, sl
  <2>2. /\ Estimated(ev, sl, total) \in EventType /\ Estimated(ev, sl, total).uses = ev.uses
        /\ Estimated(ev, sl, total).active = ev.active
        /\ Estimated(ev, sl, total).prev_total_c = total
        /\ ev.count_estimate <= Estimated(ev, sl, total).count_estimate
        /\ \A r \in Nat :
             ev.count_estimate <= r * ev.prev_total_c /\ ev.rate_estimate.n \in {0, r * ev.rate_estimate.c}
               /\ sl.n = r * sl.c =>
             Estimated(ev, sl, total).count_estimate <= r * total
               /\ Estimated(ev, sl, total).rate_estimate.n \in {0, r * Estimated(ev, sl, total).rate_estimate.c}
    BY <2>1, EstimatedIs, Zenon
  <2> QED BY <2>2 DEF ev, sl
<1> HIDE DEF est
<1>9. m[cur] = est /\ \A e \in Events : e # cur => m[e] = master[t][e]
  <2> DEFINE f == master[t]
  <2>1. f \in [Events -> EventType]
    BY <1>3
  <2> HIDE DEF f
  <2>2. [f EXCEPT ![cur] = est][cur] = est /\ \A e \in Events : e # cur => [f EXCEPT ![cur] = est][e] = f[e]
    BY <2>1
  <2> QED BY <2>2 DEF f
<1>10. m \in [Events -> EventType]
  BY <1>3, <1>8
<1> HIDE DEF m
<1>11. \A e \in Events : m[e].uses = master[t][e].uses /\ m[e].active = master[t][e].active
  BY <1>8, <1>9
<1>12. next \in Events /\ m[next].active > 0
  <2>1. m[cur].active > 0
    <3>1. master[t][cur].active = 1
      BY <1>0, <1>2 DEF InTurn
    <3> QED BY <1>11, <3>1
  <2>2. NextActive(t, m, cur) \in Events /\ m[NextActive(t, m, cur)].active > 0
    BY <1>1, <1>2, <2>1, NextIs
  <2>3. next = NextActive(t, m, cur) \/ next = cur
    BY <1>1 DEF Rotated
  <2> HIDE DEF next
  <2> QED BY <2>1, <2>2, <2>3
<1> HIDE DEF next
<1>13. PICK n \in Events : n = next
  BY <1>12
<1>14. Holds(s, n)
  <2>1. ~Forgets(master[t][n])
    BY <1>11, <1>12, <1>13, ForgottenIs
  <2>2. PICK u \in Mine(t) : Running(u) /\ Holds(u, n)
    BY <1>0, <2>1 DEF InTurn
  <2>3. u = s
    BY <1>0, <1>2, <2>2 DEF InTurn
  <2> QED BY <2>2, <2>3
<1>15. /\ thr' = [thr EXCEPT ![t] = thr'[t]] /\ thr'[t] = [head |-> thr[t].head, cur |-> n, total_c |-> total]
       /\ hw' = [hw EXCEPT ![t] = hw'[t]] /\ hw'[t] = [run |-> n, n |-> 0, c |-> 0]
       /\ master' = [master EXCEPT ![t] = master'[t]] /\ master'[t] = m
       /\ \A u \in Threads \ {t} : thr'[u] = thr[u] /\ hw'[u] = hw[u] /\ master'[u] = master[u]
  <2> DEFINE new == [thr[t] EXCEPT !.cur = n, !.total_c = total]
  <2>1. thr' = [thr EXCEPT ![t] = [thr[t] EXCEPT !.total_c = total, !.cur = n]]
    BY <1>4, <1>13
  <2>2. [thr[t] EXCEPT !.total_c = total, !.cur = n] = [head |-> thr[t].head, cur |-> n, total_c |-> total]
    BY <1>3, TotalTo
  <2>3. hw' = [hw EXCEPT ![t] = Slice(n)] /\ Slice(n) = [run |-> n, n |-> 0, c |-> 0]
    BY <1>4, <1>12, <1>13 DEF Slice
  <2>4. thr' = [thr EXCEPT ![t] = [head |-> thr[t].head, cur |-> n, total_c |-> total]]
    BY <2>1, <2>2
  <2> QED BY <1>3, <1>4, <2>3, <2>4
<1>16. /\ thr'[t].head = thr[t].head /\ thr'[t].cur = n /\ thr'[t].total_c = total
       /\ hw'[t].run = n /\ hw'[t].n = 0 /\ hw'[t].c = 0
  BY <1>15
<1>17. \A e : Users(t, e)' = Users(t, e)
  BY <1>4 DEF Users, Holds, Mine
<1>18. \A u \in Sets : Running(u)' = Running(u) /\ \A e : Holds(u, e)' = Holds(u, e)
  BY <1>4 DEF Running, Holds
<1>19. InList(t)'
  BY <1>0, <1>11, <1>15, <1>16, <1>17 DEF InList
<1>20. InTurn(t)'
  <2>1. \A e \in Events : (\E u \in Mine(t) : Holds(u, e)' /\ Running(u)') => master'[t][e].active = 1
    BY <1>0, <1>11, <1>15, <1>18 DEF InTurn, Mine
  <2>2. \A e \in Events : (\A u \in Mine(t) : Running(u)' => ~Holds(u, e)') => Forgets(master'[t][e])
    <3> TAKE e \in Events
    <3> HAVE \A u \in Mine(t) : Running(u)' => ~Holds(u, e)'
    <3>1. \A u \in Mine(t) : Running(u) => ~Holds(u, e)
      BY <1>18 DEF Mine
    <3>2. Forgets(master[t][e]) /\ e # cur
      BY <1>0, <1>2, <3>1 DEF InTurn
    <3> QED BY <1>9, <1>15, <3>2
  <2>3. \A u, v \in Mine(t) : Running(u)' /\ Running(v)' => u = v
    BY <1>0, <1>18 DEF InTurn, Mine
  <2> QED BY <2>1, <2>2, <2>3 DEF InTurn, Mine, Forgets
<1>21. Counted(t)'
  <2>1. \A e \in Events : master'[t][e].prev_total_c <= total
    <3> TAKE e \in Events
    <3>1. CASE e = cur
      BY <1>6, <1>8, <1>9, <1>15, <3>1
    <3>2. CASE e # cur
      BY <1>5, <1>6, <1>9, <1>15, <3>2
    <3> QED BY <3>1, <3>2
  <2>2. n # None
    BY MultiplexAssumption
  <2>3. s \in Mine(t) /\ Running(s)' /\ Holds(s, n)'
    BY <1>2, <1>14, <1>18 DEF Mine
  <2> QED BY <1>6, <1>16, <2>1, <2>2, <2>3 DEF Counted, Mine
<1>22. Underway(t)'
  BY <1>0, <1>4, <1>18 DEF Underway, Mine
<1>23. AtRate(t)'
  <2> SUFFICES ASSUME Steady', NEW e \in Events, NEW r \in RatesOf(e)'
               PROVE  /\ master'[t][e].count_estimate <= r * master'[t][e].prev_total_c
                      /\ master'[t][e].rate_estimate.n \in {0, r * master'[t][e].rate_estimate.c}
                      /\ hw'[t].run = e => hw'[t].n = r * hw'[t].c
    BY DEF AtRate
  <2>1. r \in Nat /\ r \in RatesOf(e) /\ Steady
    <3>1. program' = program
      BY <1>4
    <3>2. r \in RatesOf(e)
      BY <3>1 DEF RatesOf
    <3>3. Steady
      BY <3>1 DEF Steady
    <3> QED BY <3>2, <3>3, RatesAre
  <2>2. /\ master[t][e].count_estimate <= r * master[t][e].prev_total_c
        /\ master[t][e].rate_estimate.n \in {0, r * master[t][e].rate_estimate.c}
        /\ hw[t].run = e => hw[t].n = r * hw[t].c
    BY <1>0, <2>1 DEF AtRate
  <2>3. hw'[t].n = r * hw'[t].c
    BY <1>16, <2>1
  <2>4. CASE e # cur
    <3>1. master'[t][e] = master[t][e]
      BY <1>9, <1>15, <2>4
    <3> QED BY <2>2, <2>3, <3>1
  <2>5. CASE e = cur
    <3>1. hw[t].run = e
      BY <1>0, <1>1, <2>5 DEF Counted
    <3>2. est.count_estimate <= r * total /\ est.rate_estimate.n \in {0, r * est.rate_estimate.c}
      BY <1>8, <2>1, <2>2, <2>5, <3>1
    <3>3. master'[t][e] = est /\ master'[t][e].prev_total_c = total
      BY <1>8, <1>9, <1>15, <2>5
    <3> QED BY <2>3, <3>2, <3>3
  <2> QED BY <2>4, <2>5
<1>24. Types'
  <2>1. thr'[t] \in ThreadType /\ hw'[t] \in SliceType
    <3>1. thr[t].head \in Seq(Events)
      BY ThreadIs
    <3> QED BY <1>6, <1>15, <3>1 DEF ThreadType, SliceType
  <2>2. m \in [Events -> EventType]
    BY <1>10
  <2> QED BY <1>3, <1>4, <1>15, <2>1, <2>2 DEF Inv, Types
<1>25. Only(t)
  BY <1>4, <1>15 DEF Only
<1>26. \A u \in Mine(t) : InSet(u)'
  BY <1>4 DEF Inv, InSet, Running, Mine
<1>27. InThread(t)'
  BY <1>19, <1>20, <1>21, <1>22, <1>23 DEF InThread
<1>28. Inv'
  BY <1>24, <1>25, <1>26, <1>27, OnlyKeeps
<1>29. \A e \in Events : master[t][e].count_estimate <= master'[t][e].count_estimate
  <2> TAKE e \in Events
  <2>1. CASE e = cur
    BY <1>8, <1>9, <1>15, <2>1
  <2>2. CASE e # cur
    BY <1>5, <1>9, <1>15, <2>2
  <2> QED BY <2>1, <2>2
<1> QED BY <1>4, <1>15, <1>28, <1>29

LEMMA WorkKeeps ==
  ASSUME Inv, NEW t \in Threads, Work(t)
  PROVE  Inv'
<1>1. PICK r \in IF hw[t].run = SCALE_EVENT THEN {1} ELSE program.rates :
           hw' = [hw EXCEPT ![t].c = @ + 1, ![t].n = @ + r]
  BY DEF Work
<1>2. hw[t].run # None /\ UNCHANGED <<sets, master, thr, timer, pc, program>>
  BY DEF Work
<1>3. r \in Nat
  BY <1>1, MultiplexAssumption DEF Inv, Types, Program
<1>4. /\ hw \in [Threads -> SliceType] /\ hw[t] \in SliceType /\ hw[t].run \in Events
      /\ hw[t].n \in Nat /\ hw[t].c \in Nat
  BY <1>2, ThreadIs DEF Inv, Types
<1>5. hw' = [hw EXCEPT ![t] = hw'[t]] /\ hw'[t] = [run |-> hw[t].run, n |-> hw[t].n + r, c |-> hw[t].c + 1]
  <2>1. hw' = [hw EXCEPT ![t] = [hw[t] EXCEPT !.c = hw[t].c + 1, !.n = hw[t].n + r]]
    BY <1>1
  <2>2. [hw[t] EXCEPT !.c = hw[t].c + 1, !.n = hw[t].n + r] = [run |-> hw[t].run, n |-> hw[t].n + r, c |-> hw[t].c + 1]
    BY <1>4, SliceTo
  <2>3. hw' = [hw EXCEPT ![t] = [run |-> hw[t].run, n |-> hw[t].n + r, c |-> hw[t].c + 1]]
    BY <2>1, <2>2
  <2> QED BY <1>4, <2>3
<1>6. /\ hw'[t].run = hw[t].run /\ hw'[t].n = hw[t].n + r /\ hw'[t].c = hw[t].c + 1
      /\ \A u \in Threads \ {t} : hw'[u] = hw[u]
  BY <1>4, <1>5
<1>7. InList(t) /\ InTurn(t) /\ Counted(t) /\ Underway(t) /\ AtRate(t)
  BY DEF Inv, InThread
<1>8. \A u \in Sets : Running(u)' = Running(u) /\ \A e : Holds(u, e)' = Holds(u, e)
  BY <1>2 DEF Running, Holds
<1>9. InList(t)'
  <2>1. \A e : Users(t, e)' = Users(t, e)
    BY <1>8 DEF Users, Mine
  <2> QED BY <1>2, <1>7, <2>1 DEF InList
<1>10. InTurn(t)'
  BY <1>2, <1>7, <1>8 DEF InTurn, Mine
<1>11. Counted(t)'
  <2>1. thr[t].cur # None
    BY <1>2, <1>7 DEF Counted
  <2> QED BY <1>2, <1>6, <1>7, <1>8, <2>1 DEF Counted, Mine
<1>12. Underway(t)'
  BY <1>2, <1>7, <1>8 DEF Underway, Mine
<1>13. AtRate(t)'
  <2> SUFFICES ASSUME Steady', NEW e \in Events, NEW q \in RatesOf(e)'
               PROVE  /\ master'[t][e].count_estimate <= q * master'[t][e].prev_total_c
                      /\ master'[t][e].rate_estimate.n \in {0, q * master'[t][e].rate_estimate.c}
                      /\ hw'[t].run = e => hw'[t].n = q * hw'[t].c
    BY DEF AtRate
  <2>1. q \in Nat /\ q \in RatesOf(e) /\ Steady
    <3>1. program' = program
      BY <1>2
    <3>2. q \in RatesOf(e)
      BY <3>1 DEF RatesOf
    <3>3. Steady
      BY <3>1 DEF Steady
    <3> QED BY <3>2, <3>3, RatesAre
  <2>2. /\ master[t][e].count_estimate <= q * master[t][e].prev_total_c
        /\ master[t][e].rate_estimate.n \in {0, q * master[t][e].rate_estimate.c}
        /\ hw[t].run = e => hw[t].n = q * hw[t].c
    BY <1>7, <2>1 DEF AtRate
  <2>3. ASSUME hw'[t].run = e PROVE hw'[t].n = q * hw'[t].c
    <3>1. hw[t].run = e /\ hw[t].n = q * hw[t].c
      BY <1>6, <2>2, <2>3
    <3>2. q = r
      BY <1>1, <2>1, <3>1 DEF RatesOf, Steady
    <3>3. q * (hw[t].c + 1) = q * hw[t].c + q
      BY <1>4, <2>1
    <3> QED BY <1>6, <3>1, <3>2, <3>3
  <2> QED BY <1>2, <2>2, <2>3
<1>14. Types'
  <2>1. hw'[t] \in SliceType
    BY <1>3, <1>4, <1>5 DEF SliceType
  <2> QED BY <1>2, <1>4, <1>5, <2>1 DEF Inv, Types
<1>15. Only(t)
  BY <1>2, <1>6 DEF Only
<1>16. \A u \in Mine(t) : InSet(u)'
  BY <1>2 DEF Inv, InSet, Running, Mine
<1>17. InThread(t)'
  BY <1>9, <1>10, <1>11, <1>12, <1>13 DEF InThread
<1> QED BY <1>14, <1>15, <1>16, <1>17, OnlyKeeps

-----------------------------------------------------------------------------
(* All steps.                                                              *)

LEMMA InitHolds == Init => Inv
<1> SUFFICES ASSUME Init PROVE Inv
  OBVIOUS
<1>1. /\ sets = [s \in Sets |-> [running |-> FALSE, status |-> "MPX_STOPPED", mev |-> <<>>, start |-> <<>>]]
      /\ master = [t \in Threads |-> [e \in Events |-> NoEvent]]
      /\ thr = [t \in Threads |-> [head |-> <<>>, cur |-> None, total_c |-> 0]]
      /\ hw = [t \in Threads |-> NoSlice] /\ timer = FALSE
      /\ pc = [t \in Threads |-> Idle] /\ program \in Programs
  BY DEF Init
<1>2. \A s \in Sets : /\ sets[s].running = FALSE /\ sets[s].status = "MPX_STOPPED"
                      /\ sets[s].mev = <<>> /\ sets[s].start = <<>>
  BY <1>1
<1>3. \A s \in Sets : ~Running(s) /\ \A e : ~Holds(s, e)
  BY <1>2 DEF Running, Holds
<1>4. \A t \in Threads, e \in Events : master[t][e] = NoEvent
  BY <1>1
<1>5. Forgets(NoEvent) /\ NoEvent.uses = 0 /\ NoEvent \in EventType
  <2>1. Forgets(NoEvent) /\ NoEvent.uses = 0
    BY DEF Forgets, NoEvent
  <2> QED BY <2>1, ForgottenIs
<1>6. \A t \in Threads : /\ thr[t].head = <<>> /\ thr[t].cur = None /\ thr[t].total_c = 0
                         /\ hw[t] = NoSlice /\ hw[t].run = None /\ pc[t] = Idle /\ pc[t].op = "idle"
  BY <1>1 DEF NoSlice, Idle
<1>7. Types
  <2>1. [running |-> FALSE, status |-> "MPX_STOPPED", mev |-> <<>>, start |-> <<>>] \in SetType
    BY DEF SetType
  <2>2. [head |-> <<>>, cur |-> None, total_c |-> 0] \in ThreadType
    BY DEF ThreadType
  <2>3. NoSlice \in SliceType
    BY DEF NoSlice, SliceType
  <2>4. Idle \in StageType
    BY DEF Idle, StageType
  <2> QED BY <1>1, <1>5, <2>1, <2>2, <2>3, <2>4 DEF Types
<1>8. \A s \in Sets : InSet(s)
  BY <1>2 DEF InSet, Distinct
<1>9. ASSUME NEW t \in Threads PROVE InThread(t)
  <2>1. InList(t)
    <3>1. Listed(<<>>) = {} /\ Distinct(<<>>)
      BY DEF Listed, Distinct
    <3>2. \A e : Users(t, e) = {}
      BY <1>3 DEF Users, Mine
    <3>3. \A e \in Events : master[t][e].uses = 0
      BY <1>4, <1>5
    <3>4. Cardinality({}) = 0
      BY FS_EmptySet
    <3>5. thr[t].head = <<>>
      BY <1>6
    <3>6. \A e \in Events : master[t][e].uses = Cardinality(Users(t, e))
      BY <3>2, <3>3, <3>4
    <3>7. \A e \in Events : e \in Listed(thr[t].head) <=> master[t][e].uses > 0
      BY <3>1, <3>3, <3>5
    <3> QED BY <3>1, <3>5, <3>6, <3>7 DEF InList
  <2>2. InTurn(t)
    BY <1>3, <1>4, <1>5 DEF InTurn, Mine
  <2>3. Counted(t)
    BY <1>3, <1>4, <1>5, <1>6, ForgottenIs, MultiplexAssumption DEF Counted, Mine
  <2>4. Underway(t)
    BY <1>6 DEF Underway
  <2>5. AtRate(t)
    <3> SUFFICES ASSUME NEW e \in Events, NEW r \in RatesOf(e)
                 PROVE  /\ master[t][e].count_estimate <= r * master[t][e].prev_total_c
                        /\ master[t][e].rate_estimate.n \in {0, r * master[t][e].rate_estimate.c}
                        /\ hw[t].run = e => hw[t].n = r * hw[t].c
      BY DEF AtRate
    <3>1. r \in Nat
      BY <1>1, MultiplexAssumption DEF RatesOf, Program
    <3>2. hw[t].run # e
      BY <1>6, MultiplexAssumption
    <3> QED BY <1>4, <1>5, <3>1, <3>2, ForgottenIs
  <2> QED BY <2>1, <2>2, <2>3, <2>4, <2>5 DEF InThread
<1> QED BY <1>7, <1>8, <1>9 DEF Inv

LEMMA StutterKeeps ==
  ASSUME Inv, UNCHANGED vars
  PROVE  Inv'
<1>1. UNCHANGED <<sets, master, thr, hw, timer, pc, program>>
  BY DEF vars
<1>2. \A s \in Sets : Running(s)' = Running(s) /\ \A e : Holds(s, e)' = Holds(s, e)
  BY <1>1 DEF Running, Holds
<1>3. Types' /\ \A s \in Sets : InSet(s)'
  BY <1>1, <1>2 DEF Inv, Types, InSet
<1>4. \A t \in Threads : InThread(t)'
  <2> TAKE t \in Threads
  <2>1. InList(t) /\ InTurn(t) /\ Counted(t) /\ Underway(t) /\ AtRate(t)
    BY DEF Inv, InThread
  <2>2. \A e : Users(t, e)' = Users(t, e)
    BY <1>2 DEF Users, Mine
  <2>3. InList(t)'
    BY <1>1, <2>1, <2>2 DEF InList
  <2>4. InTurn(t)' /\ Counted(t)' /\ Underway(t)'
    BY <1>1, <1>2, <2>1 DEF InTurn, Counted, Underway, Mine
  <2>5. AtRate(t)'
    BY <1>1, <2>1 DEF AtRate, Steady, RatesOf
  <2> QED BY <2>3, <2>4, <2>5 DEF InThread
<1> QED BY <1>3, <1>4 DEF Inv

LEMMA NextKeeps ==
  ASSUME Inv, [Next]_vars
  PROVE  Inv'
<1>1. CASE UNCHANGED vars
  BY <1>1, StutterKeeps
<1>2. ASSUME NEW s \in Sets, Call(s) PROVE Inv'
  <2>1. CASE Refused(s)
    BY <2>1, StutterKeeps DEF Refused
  <2>2. ASSUME NEW e \in Events, AddEvent(s, e) \/ RemoveEvent(s, e) PROVE Inv'
    BY <2>2, AddEventKeeps, RemoveEventKeeps
  <2>3. CASE Cleanup(s) \/ StartEvents(s)
    BY <2>3, CleanupKeeps, StartEventsKeeps
  <2>4. CASE ResetRead(s) \/ StopRead(s)
    BY <2>4, ResetReadKeeps, StopReadKeeps
  <2> QED BY <1>2, <2>1, <2>2, <2>3, <2>4 DEF Call
<1>3. ASSUME NEW t \in Threads, Step(t) PROVE Inv'
  BY <1>3, StartTimerKeeps, ResetStartKeeps, StopEventsKeeps, HandlerKeeps, WorkKeeps DEF Step
<1> QED BY <1>1, <1>2, <1>3 DEF Next

LEMMA InvHolds == Spec => []Inv
<1>1. Init => Inv
  BY InitHolds
<1>2. Inv /\ [Next]_vars => Inv'
  BY NextKeeps
<1> QED BY <1>1, <1>2, PTL DEF Spec

-----------------------------------------------------------------------------
(* What is promised.                                                       *)

\* A list without repetitions is as long as the set of its entries is large.
LEMMA DistinctLength ==
  ASSUME NEW T, NEW q \in Seq(T), Distinct(q)
  PROVE  Cardinality(Listed(q)) = Len(q)
<1> DEFINE First(n) == {q[i] : i \in 1..n}
           S == {n \in Nat : n <= Len(q) => IsFiniteSet(First(n)) /\ Cardinality(First(n)) = n}
<1>1. Len(q) \in Nat /\ DOMAIN q = 1..Len(q)
  BY LenProperties
<1>2. 0 \in S
  <2>1. First(0) = {}
    OBVIOUS
  <2>2. IsFiniteSet(First(0)) /\ Cardinality(First(0)) = 0
    BY <2>1, FS_EmptySet
  <2> HIDE DEF First
  <2> QED BY <2>2
<1>3. ASSUME NEW n \in Nat, n \in S PROVE n + 1 \in S
  <2> SUFFICES ASSUME n + 1 <= Len(q)
               PROVE  IsFiniteSet(First(n + 1)) /\ Cardinality(First(n + 1)) = n + 1
    <3> HIDE DEF First
    <3> QED OBVIOUS
  <2>1. n <= Len(q)
    BY <1>1
  <2>2. IsFiniteSet(First(n)) /\ Cardinality(First(n)) = n
    BY <1>3, <2>1
  <2>3. First(n + 1) = First(n) \cup {q[n + 1]}
    OBVIOUS
  <2>4. q[n + 1] \notin First(n)
    <3>1. \A i \in 1..n : i \in DOMAIN q /\ n + 1 \in DOMAIN q /\ i # n + 1
      BY <1>1
    <3> QED BY <3>1 DEF Distinct
  <2> HIDE DEF First
  <2> QED BY <2>2, <2>3, <2>4, FS_AddElement
<1> HIDE DEF S
<1>4. Len(q) \in S
  BY <1>1, <1>2, <1>3, NatInd
<1>5. First(Len(q)) = Listed(q)
  BY <1>1 DEF Listed
<1> HIDE DEF First
<1> QED BY <1>1, <1>4, <1>5 DEF S

\* The events of the calls and of the signal have the types of EventSet_Info,
\* MasterEvent and Threadlist; an EventSet has a start value for each event.
THEOREM MultiplexTypesHold == Spec => []MultiplexTypeOK
<1>1. Inv => MultiplexTypeOK
  BY DEF Inv, Types, InSet, MultiplexTypeOK, SetType, EventType, RateType, ThreadType, SliceType
<1> QED BY <1>1, InvHolds, PTL

\* mpx_add_event, mpx_delete_one_event, MPX_cleanup, MPX_start and MPX_stop count
\* the uses of every master event and the running EventSets it is active for, and
\* the list has the used events once each.
THEOREM UsesMatchHolds == Spec => []UsesMatch
<1>1. Inv => UsesMatch
  <2> SUFFICES ASSUME Inv, NEW t \in Threads
               PROVE  LET mine == {s \in Sets : Owner[s] = t}
                          listed == {thr[t].head[i] : i \in DOMAIN thr[t].head}
                      IN  /\ \A e \in Events :
                               /\ master[t][e].uses = Cardinality({s \in mine : Holds(s, e)})
                               /\ master[t][e].active =
                                    Cardinality({s \in mine : Holds(s, e) /\ sets[s].status = "MPX_RUNNING"})
                          /\ listed = {e \in Events : master[t][e].uses > 0}
                          /\ Cardinality(listed) = Len(thr[t].head)
    BY DEF UsesMatch
  <2>1. InList(t) /\ InTurn(t) /\ thr[t].head \in Seq(Events) /\ master[t] \in [Events -> EventType]
    BY ThreadIs DEF Inv, InThread
  <2>2. {thr[t].head[i] : i \in DOMAIN thr[t].head} = Listed(thr[t].head) /\ {s \in Sets : Owner[s] = t} = Mine(t)
    BY DEF Listed, Mine
  <2>3. \A e \in Events : master[t][e].uses = Cardinality({s \in Mine(t) : Holds(s, e)})
    BY <2>1 DEF InList, Users
  <2>4. ASSUME NEW e \in Events
        PROVE  master[t][e].active = Cardinality({s \in Mine(t) : Holds(s, e) /\ sets[s].status = "MPX_RUNNING"})
    <3>1. CASE \E s \in Mine(t) : Holds(s, e) /\ Running(s)
      <4>1. PICK s \in Mine(t) : Holds(s, e) /\ Running(s)
        BY <3>1
      <4>2. \A u \in Mine(t) : Running(u) => u = s
        BY <2>1, <4>1 DEF InTurn
      <4>3. {u \in Mine(t) : Holds(u, e) /\ sets[u].status = "MPX_RUNNING"} = {s}
        BY <4>1, <4>2 DEF Running
      <4>4. master[t][e].active = 1
        BY <2>1, <4>1 DEF InTurn
      <4> QED BY <4>3, <4>4, FS_Singleton
    <3>2. CASE ~\E s \in Mine(t) : Holds(s, e) /\ Running(s)
      <4>1. Forgets(master[t][e])
        BY <2>1, <3>2 DEF InTurn
      <4>2. master[t][e].active = 0
        BY <4>1, ForgottenIs
      <4>3. {u \in Mine(t) : Holds(u, e) /\ sets[u].status = "MPX_RUNNING"} = {}
        BY <3>2 DEF Running
      <4> QED BY <4>2, <4>3, FS_EmptySet
    <3> QED BY <3>1, <3>2
  <2>5. Listed(thr[t].head) = {e \in Events : master[t][e].uses > 0}
    <3>1. \A e \in Listed(thr[t].head) : e \in Events
      BY <2>1, LenProperties, ElementOfSeq DEF Listed
    <3> QED BY <2>1, <3>1 DEF InList
  <2>6. Cardinality(Listed(thr[t].head)) = Len(thr[t].head)
    BY <2>1, DistinctLength DEF InList
  <2> QED BY <2>2, <2>3, <2>4, <2>5, <2>6
<1> QED BY <1>1, InvHolds, PTL

\* MPX_start and MPX_stop, and mpx_handler between their sections, leave a thread
\* with a current event exactly while one of its EventSets is running, and the
\* current event is the one that is counted.
THEOREM CurrentRunsHolds == Spec => []CurrentRuns
<1>1. Inv => CurrentRuns
  <2> SUFFICES ASSUME Inv, NEW t \in Threads
               PROVE  /\ thr[t].cur # None <=> \E s \in Sets : Owner[s] = t /\ sets[s].status = "MPX_RUNNING"
                      /\ thr[t].cur # None => master[t][thr[t].cur].active > 0
                      /\ hw[t].run = thr[t].cur
    BY DEF CurrentRuns
  <2>1. Counted(t) /\ InTurn(t) /\ thr[t].cur \in Events \cup {None}
    BY ThreadIs DEF Inv, InThread
  <2>2. thr[t].cur # None <=> \E s \in Sets : Owner[s] = t /\ sets[s].status = "MPX_RUNNING"
    BY <2>1 DEF Counted, Mine, Running
  <2>3. ASSUME thr[t].cur # None PROVE master[t][thr[t].cur].active > 0
    <3>1. PICK s \in Mine(t) : Running(s) /\ Holds(s, thr[t].cur)
      BY <2>1, <2>3 DEF Counted
    <3>2. master[t][thr[t].cur].active = 1
      BY <2>1, <2>3, <3>1 DEF InTurn
    <3> QED BY <3>2
  <2>4. hw[t].run = thr[t].cur
    BY <2>1 DEF Counted
  <2> QED BY <2>2, <2>3, <2>4
<1> QED BY <1>1, InvHolds, PTL

\* With constant rates, MPX_read and MPX_stop extrapolate over no cycle twice: what
\* an event gives is never more than its rate times the cycles there were.
THEOREM NeverOverstatesHolds == Spec => []NeverOverstates
<1>1. Inv => NeverOverstates
  <2> SUFFICES ASSUME Inv, NEW s \in Sets, sets[s].running, Steady,
                      NEW t, t = Owner[s], NEW i \in DOMAIN sets[s].mev,
                      NEW r \in RatesOf(sets[s].mev[i])
               PROVE  LastReading(s)[i] <= r * (thr[t].total_c + hw[t].c)
    BY DEF NeverOverstates, Steady, RatesOf
  <2>1. PICK e \in Events : e = sets[s].mev[i]
    BY SetIs
  <2>2. t \in Threads /\ sets[s].start[i] \in Nat
    BY SetIs
  <2>3. r \in Nat
    BY RatesAre
  <2>4. LastReading(s)[i] = StopValue(t, e) - sets[s].start[i]
    BY <2>1 DEF LastReading
  <2> DEFINE m == master[t][e]
             total == thr[t].total_c
             c == hw[t].c
             prev == m.prev_total_c
  <2>5. /\ total \in Nat /\ c \in Nat /\ hw[t].n \in Nat /\ m \in EventType
    BY <2>2, ThreadIs
  <2>6. prev \in Nat /\ m.count_estimate \in Nat /\ m.rate_estimate \in RateType
    BY <2>5, EventIs
  <2>7. prev <= total
    BY <2>2 DEF Inv, InThread, Counted
  <2>8. AtRate(t)
    BY <2>2 DEF Inv, InThread
  <2>9. /\ m.count_estimate <= r * prev /\ m.rate_estimate.n \in {0, r * m.rate_estimate.c}
        /\ hw[t].run = e => hw[t].n = r * c
    BY <2>1, <2>8 DEF AtRate
  <2>10. hw[t].run = thr[t].cur
    BY <2>2 DEF Inv, InThread, Counted
  <2>11. StopValue(t, e) = m.count_estimate + Ahead(t, e)
    BY DEF StopValue
  <2>12. Ahead(t, e) = IF e = thr[t].cur THEN hw[t].n + Scaled(m.rate_estimate, total - prev)
                       ELSE Scaled(m.rate_estimate, c + (total - prev))
    BY DEF Ahead, Since
  <2> HIDE DEF m, total, c, prev
  <2>13. PICK since \in Nat : since = total - prev /\ c + since \in Nat
    BY <2>5, <2>6, <2>7
  <2>14. /\ Scaled(m.rate_estimate, since) \in Nat /\ Scaled(m.rate_estimate, since) <= r * since
         /\ Scaled(m.rate_estimate, c + since) \in Nat /\ Scaled(m.rate_estimate, c + since) <= r * (c + since)
    BY <2>3, <2>6, <2>9, <2>13, ScaledIs
  <2>15. r * (total + c) = r * prev + r * since + r * c /\ r * (c + since) = r * c + r * since
    <3>1. total = prev + since
      BY <2>5, <2>6, <2>13
    <3> QED BY <2>3, <2>5, <2>6, <2>13, <3>1
  <2>16. r * prev \in Nat /\ r * since \in Nat /\ r * c \in Nat
    BY <2>3, <2>5, <2>6, <2>13, Products
  <2>17. CASE e = thr[t].cur
    <3>1. hw[t].n = r * c /\ Ahead(t, e) = hw[t].n + Scaled(m.rate_estimate, since)
      BY <2>9, <2>10, <2>12, <2>13, <2>17
    <3>2. StopValue(t, e) <= r * (total + c) /\ StopValue(t, e) \in Nat
      BY <2>5, <2>6, <2>9, <2>11, <2>14, <2>15, <2>16, <3>1
    <3> QED BY <2>2, <2>4, <2>15, <2>16, <3>2 DEF total, c
  <2>18. CASE e # thr[t].cur
    <3>1. Ahead(t, e) = Scaled(m.rate_estimate, c + since)
      BY <2>12, <2>13, <2>18
    <3>2. StopValue(t, e) <= r * (total + c) /\ StopValue(t, e) \in Nat
      BY <2>5, <2>6, <2>9, <2>11, <2>14, <2>15, <2>16, <3>1
    <3> QED BY <2>2, <2>4, <2>15, <2>16, <3>2 DEF total, c
  <2> QED BY <2>17, <2>18
<1> QED BY <1>1, InvHolds, PTL

\* While an EventSet runs its events and start values change only by PAPI_reset,
\* and no estimate of its thread goes down.
LEMMA RunningGrows ==
  ASSUME Inv, Next, NEW s \in Sets, sets[s].running, sets'[s].running
  PROVE  /\ sets'[s].mev = sets[s].mev
         /\ \A e \in Events : master[Owner[s]][e].count_estimate <= master'[Owner[s]][e].count_estimate
<1> DEFINE o == Owner[s]
<1>0. o \in Threads /\ s \in Mine(o) /\ \A e \in Events : master[o][e].count_estimate \in Nat
  BY SetIs, ReadIs
<1>1. SUFFICES \/ sets'[s].mev = sets[s].mev /\ master'[o] = master[o]
               \/ sets'[s] = sets[s] /\ \E t \in Threads : mpx_handler(t)
  <2>1. CASE sets'[s].mev = sets[s].mev /\ master'[o] = master[o]
    BY <1>0, <2>1
  <2>2. ASSUME sets'[s] = sets[s], NEW t \in Threads, mpx_handler(t)
        PROVE  \A e \in Events : master[o][e].count_estimate <= master'[o][e].count_estimate
    <3>1. CASE t = o
      BY <2>2, <3>1, HandlerKeeps
    <3>2. CASE t # o
      <4>1. master'[o] = master[o]
        BY <1>0, <2>2, <3>2, HandlerKeeps
      <4> QED BY <1>0, <4>1
    <3> QED BY <3>1, <3>2
  <2> QED BY <1>1, <2>1, <2>2
<1>2. sets \in [Sets -> SetType] /\ master \in [Threads -> [Events -> EventType]]
  BY DEF Inv, Types
<1>3. ASSUME NEW u \in Sets, hw[Owner[u]].run = None PROVE u # s /\ Owner[u] # o
  <2>1. Owner[u] \in Threads
    BY SetIs
  <2>2. \A v \in Mine(Owner[u]) : ~sets[v].running
    BY <1>3, <2>1, StillIs
  <2>3. s \notin Mine(Owner[u])
    BY <2>2
  <2> QED BY <1>0, <2>3
<1>4. ASSUME NEW u \in Sets, Call(u) PROVE sets'[s].mev = sets[s].mev /\ master'[o] = master[o]
  <2>1. CASE Refused(u) \/ ResetRead(u) \/ StopRead(u)
    BY <2>1 DEF Refused, ResetRead, StopRead, vars
  <2>2. CASE hw[Owner[u]].run = None
    <3>1. u # s /\ Owner[u] # o
      BY <1>3, <2>2
    <3>2. ASSUME NEW e, AddEvent(u, e) PROVE sets'[s].mev = sets[s].mev /\ master'[o] = master[o]
      BY <1>0, <1>2, <3>1, <3>2 DEF AddEvent
    <3>3. ASSUME NEW e, RemoveEvent(u, e) PROVE sets'[s].mev = sets[s].mev /\ master'[o] = master[o]
      BY <1>0, <1>2, <3>1, <3>3 DEF RemoveEvent
    <3>4. CASE Cleanup(u)
      BY <1>0, <1>2, <3>1, <3>4 DEF Cleanup
    <3>5. CASE StartEvents(u)
      BY <1>0, <1>2, <3>1, <3>5 DEF StartEvents
    <3> QED BY <1>4, <2>1, <3>2, <3>3, <3>4, <3>5 DEF Call
  <2>3. ASSUME NEW e, AddEvent(u, e) \/ RemoveEvent(u, e) PROVE hw[Owner[u]].run = None
    BY <2>3 DEF AddEvent, RemoveEvent, Quiet
  <2>4. Cleanup(u) \/ StartEvents(u) => hw[Owner[u]].run = None
    BY DEF Cleanup, StartEvents, Quiet
  <2> QED BY <1>4, <2>1, <2>2, <2>3, <2>4 DEF Call
<1>5. ASSUME NEW t \in Threads, Step(t)
      PROVE  \/ sets'[s].mev = sets[s].mev /\ master'[o] = master[o]
             \/ sets'[s] = sets[s] /\ mpx_handler(t)
  <2>0. /\ sets[s] = [running |-> sets[s].running, status |-> sets[s].status,
                       mev |-> sets[s].mev, start |-> sets[s].start]
    BY SetIs
  <2>1. CASE StartTimer(t)
    <3>1. master' = master
      BY <2>1 DEF StartTimer
    <3>2. sets' = [sets EXCEPT ![pc[t].set].running = TRUE] \/ sets' = sets
      BY <2>1 DEF StartTimer
    <3>3. sets'[s] = sets[s] \/ sets'[s] = [sets[s] EXCEPT !.running = TRUE]
      BY <1>2, <3>2
    <3>4. [sets[s] EXCEPT !.running = TRUE].mev = sets[s].mev
      BY <2>0
    <3> QED BY <3>1, <3>3, <3>4
  <2>2. CASE ResetStart(t)
    <3>1. master' = master
      BY <2>2 DEF ResetStart
    <3> DEFINE new == [i \in DOMAIN sets[pc[t].set].start |-> sets[pc[t].set].start[i] + pc[t].vals[i]]
    <3>2. sets' = [sets EXCEPT ![pc[t].set].start = new]
      BY <2>2 DEF ResetStart
    <3> HIDE DEF new
    <3>3. sets'[s] = sets[s] \/ sets'[s] = [sets[s] EXCEPT !.start = new]
      BY <1>2, <3>2
    <3>4. [sets[s] EXCEPT !.start = new].mev = sets[s].mev
      BY <2>0
    <3> QED BY <3>1, <3>3, <3>4
  <2>3. CASE StopEvents(t)
    <3>1. s \notin Mine(t) /\ t # o
      BY <1>0, <2>3, StopEventsKeeps
    <3>2. pc[t].set \in Mine(t)
      BY <2>3 DEF StopEvents, Inv, InThread, Underway
    <3>3. sets'[s] = sets[s]
      BY <1>2, <2>3, <3>1, <3>2 DEF StopEvents
    <3>4. master'[o] = master[o]
      BY <1>0, <1>2, <2>3, <3>1 DEF StopEvents
    <3> QED BY <3>3, <3>4
  <2>4. CASE mpx_handler(t)
    BY <2>4, HandlerKeeps
  <2>5. CASE Work(t)
    BY <2>5 DEF Work
  <2> QED BY <1>5, <2>1, <2>2, <2>3, <2>4, <2>5 DEF Step
<1> QED BY <1>4, <1>5 DEF Next

\* Between two resets what MPX_read gives of a running EventSet does not go down,
\* and PAPI_stop gives no less than PAPI_read did: mpx_handler only adds to an
\* estimate, and no call takes the running events away.
THEOREM ReadsNeverDecreaseHolds == Spec => ReadsNeverDecrease
<1> DEFINE Step1 ==
      \A s \in Sets :
        sets[s].running /\ sets'[s].running /\ sets'[s].start = sets[s].start =>
          \A i \in DOMAIN Reading(s) :
            Reading(s)[i] <= Reading(s)'[i] /\ Reading(s)[i] <= LastReading(s)[i]
<1>1. Inv /\ [Next]_vars => [Step1]_vars
  <2> SUFFICES ASSUME Inv, Next, NEW s \in Sets,
                      sets[s].running, sets'[s].running, sets'[s].start = sets[s].start,
                      NEW i \in DOMAIN Reading(s)
               PROVE  Reading(s)[i] <= Reading(s)'[i] /\ Reading(s)[i] <= LastReading(s)[i]
    OBVIOUS
  <2>0. PICK t \in Threads : t = Owner[s]
    BY SetIs
  <2>1. i \in DOMAIN sets[s].mev
    BY DEF Reading
  <2>2. PICK e \in Events : e = sets[s].mev[i]
    BY <2>1, SetIs
  <2>3. sets'[s].mev = sets[s].mev /\ master[t][e].count_estimate <= master'[t][e].count_estimate
    BY <2>0, RunningGrows
  <2>4. Inv'
    BY NextKeeps
  <2>5. master[t][e].count_estimate \in Nat /\ ReadValue(t, e) <= StopValue(t, e) /\ StopValue(t, e) \in Nat
    BY ReadIs
  <2>6. sets[s].start[i] \in Nat
    BY <2>1, SetIs
  <2>7. master'[t][e].count_estimate \in Nat
    <3>1. master' \in [Threads -> [Events -> EventType]]
      BY <2>4 DEF Inv, Types
    <3>2. master'[t][e] \in EventType
      BY <3>1
    <3> QED BY <3>2, EventIs
  <2>8. Reading(s)[i] = master[t][e].count_estimate - sets[s].start[i]
    BY <2>0, <2>1, <2>2 DEF Reading, ReadValue
  <2>9. LastReading(s)[i] = StopValue(t, e) - sets[s].start[i]
    BY <2>0, <2>1, <2>2 DEF LastReading
  <2>10. Reading(s)'[i] = master'[t][e].count_estimate - sets[s].start[i]
    BY <2>0, <2>1, <2>2, <2>3 DEF Reading, ReadValue
  <2> QED BY <2>3, <2>5, <2>6, <2>7, <2>8, <2>9, <2>10 DEF ReadValue
<1>2. Step1 <=> \A s \in Sets :
       sets[s].running /\ sets'[s].running /\ sets'[s].start = sets[s].start =>
         \A i \in DOMAIN Reading(s) :
           Reading(s)[i] <= Reading(s)'[i] /\ Reading(s)[i] <= LastReading(s)[i]
  OBVIOUS
<1> QED BY <1>1, InvHolds, PTL DEF Spec, ReadsNeverDecrease
=============================================================================
