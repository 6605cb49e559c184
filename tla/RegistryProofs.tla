--------------------------- MODULE RegistryProofs ---------------------------
EXTENDS RegistryService, FiniteSetTheorems, SequenceTheorems, TLAPS

(***************************************************************************)
(* What any number of threads may rely on in the ring of ThreadInfo_t and  *)
(* in the table of EventSets, at every step of every call.                 *)
(*                                                                         *)
(* The ring is a Cycle: a walk of as many hops as it has entries goes      *)
(* through each once and comes back.  Calls is inductive together with     *)
(* Remaining: RingInv says where the entries are while somebody links or   *)
(* unlinks one, Control where each thread is in its call and what it knows *)
(* there, Remaining what the loop of PAPI_shutdown still has to walk.      *)
(* Table is inductive beside Calls: who has which slot, EventSet and       *)
(* handle while others create, destroy and double the table.               *)
(*                                                                         *)
(* Last, the ring and the table are a ThreadService. Whom the library      *)
(* knows is whom the walk passes, which is Seen: all of the Round, or      *)
(* nobody while the first entry is not yet the head. Fresh, also           *)
(* inductive, says that the ring is empty while the library is down.       *)
(***************************************************************************)

\* Every non-empty set of natural numbers has a least one.
LEMMA NatLeast ==
  ASSUME NEW S \in SUBSET Nat, S # {}
  PROVE  \E n \in S : \A m \in S : n <= m
<1> DEFINE R == {ss \in Nat \X Nat : ss[1] < ss[2]}
<1>1. IsWellFoundedOn(R, Nat)
  BY NatLessThanWellFounded DEF OpToRel
<1>2. \E n \in S : \A m \in S : ~(<<m, n>> \in R)
  <2> HIDE DEF R
  <2> QED BY <1>1, WFMin
<1>3. \A m, n \in Nat : <<m, n>> \in R <=> m < n
  OBVIOUS
<1> HIDE DEF R
<1>4. PICK n \in S : \A m \in S : ~(<<m, n>> \in R)
  BY <1>2
<1>5. \A m \in S : ~(m < n)
  BY <1>3, <1>4
<1> QED BY <1>5

\* Induction, with the set of the numbers that have the property.
LEMMA NatInd ==
  ASSUME NEW S, 0 \in S, \A n \in Nat : n \in S => n + 1 \in S
  PROVE  Nat \subseteq S
<1> SUFFICES ASSUME Nat \ S # {} PROVE FALSE
  OBVIOUS
<1>1. PICK n \in Nat \ S : \A m \in Nat \ S : n <= m
  BY NatLeast
<1>2. n # 0 /\ n - 1 \in Nat /\ n - 1 \in S
  BY <1>1
<1> QED BY <1>1, <1>2

\* g is the walk of k hops from the head.
Walks(g, k) == g = [i \in 0..k |-> IF i = 0 THEN thread_head ELSE info[g[i - 1]].next]

LEMMA WalksExist ==
  ASSUME NEW k \in Nat PROVE \E g : Walks(g, k)
<1> DEFINE S == {n \in Nat : \E g : Walks(g, n)}
<1>1. 0 \in S
  <2> DEFINE g == [i \in 0..0 |-> thread_head]
  <2>1. Walks(g, 0)
    BY DEF Walks
  <2> QED BY <2>1
<1>2. ASSUME NEW n \in Nat, n \in S PROVE n + 1 \in S
  <2>1. PICK g : Walks(g, n)
    BY <1>2
  <2> DEFINE h == [i \in 0..(n + 1) |-> IF i = n + 1 THEN info[g[n]].next ELSE g[i]]
  <2>2. \A i \in 0..n : h[i] = g[i] /\ g[i] = IF i = 0 THEN thread_head ELSE info[g[i - 1]].next
    BY <2>1 DEF Walks
  <2>3. \A i \in 0..(n + 1) : h[i] = IF i = 0 THEN thread_head ELSE info[h[i - 1]].next
    <3> TAKE i \in 0..(n + 1)
    <3>1. CASE i = n + 1
      BY <3>1, <2>2
    <3>2. CASE i \in 0..n
      <4>1. i # 0 => i - 1 \in 0..n
        BY <3>2
      <4> QED BY <3>2, <2>2, <4>1
    <3> QED BY <3>1, <3>2
  <2>4. Walks(h, n + 1)
    BY <2>3 DEF Walks
  <2> QED BY <2>4
<1> HIDE DEF S
<1>3. Nat \subseteq S
  BY <1>1, <1>2, NatInd
<1> QED BY <1>3 DEF S

LEMMA WalksAgree ==
  ASSUME NEW j \in Nat, NEW k \in Nat, NEW g, Walks(g, j), NEW h, Walks(h, k), NEW n \in Nat, n <= j, n <= k
  PROVE  g[n] = h[n]
<1> DEFINE S == {i \in Nat : i <= j /\ i <= k => g[i] = h[i]}
<1>0. \A i \in 0..j : g[i] = IF i = 0 THEN thread_head ELSE info[g[i - 1]].next
  BY DEF Walks
<1>1. \A i \in 0..k : h[i] = IF i = 0 THEN thread_head ELSE info[h[i - 1]].next
  BY DEF Walks
<1>2. 0 \in S
  BY <1>0, <1>1
<1>3. ASSUME NEW i \in Nat, i \in S PROVE i + 1 \in S
  BY <1>0, <1>1, <1>3
<1> HIDE DEF S
<1>4. Nat \subseteq S
  BY <1>2, <1>3, NatInd
<1> QED BY <1>4 DEF S

\* Hop is what its definition says, so that one can walk.
LEMMA HopIs ==
  Hop[0] = thread_head /\ \A n \in Nat : Hop[n + 1] = info[Hop[n]].next
<1> DEFINE way(k) == CHOOSE g : Walks(g, k)
           f == [k \in Nat |-> way(k)[k]]
<1>1. \A k \in Nat : Walks(way(k), k)
  BY WalksExist
<1>0. \A k \in Nat : \A i \in 0..k :
        way(k)[i] = IF i = 0 THEN thread_head ELSE info[way(k)[i - 1]].next
  <2> TAKE k \in Nat
  <2>1. Walks(way(k), k)
    BY <1>1
  <2> HIDE DEF way
  <2> QED BY <2>1 DEF Walks
<1>2. f[0] = thread_head
  BY <1>0
<1>3. ASSUME NEW k \in Nat \ {0} PROVE f[k] = info[f[k - 1]].next
  <2>1. way(k)[k] = info[way(k)[k - 1]].next
    BY <1>0
  <2>2. way(k)[k - 1] = way(k - 1)[k - 1]
    <3>1. k - 1 \in Nat /\ k - 1 <= k /\ k - 1 <= k - 1
      OBVIOUS
    <3>2. Walks(way(k), k) /\ Walks(way(k - 1), k - 1)
      BY <1>1, <3>1
    <3> HIDE DEF way
    <3> QED BY <3>1, <3>2, WalksAgree
  <2> QED BY <2>1, <2>2
<1>4. f = [n \in Nat |-> IF n = 0 THEN thread_head ELSE info[f[n - 1]].next]
  <2>1. \A n \in Nat : f[n] = IF n = 0 THEN thread_head ELSE info[f[n - 1]].next
    <3> HIDE DEF f
    <3> TAKE n \in Nat
    <3> QED BY <1>2, <1>3
  <2>2. f = [n \in Nat |-> f[n]]
    OBVIOUS
  <2> HIDE DEF f
  <2> QED BY <2>1, <2>2, Zenon
<1> HIDE DEF f
<1>5. Hop = [n \in Nat |-> IF n = 0 THEN thread_head ELSE info[Hop[n - 1]].next]
  BY <1>4 DEF Hop
<1>6. \A n \in Nat : n + 1 # 0 /\ (n + 1) - 1 = n /\ n + 1 \in Nat
  OBVIOUS
<1>7. \A n \in Nat : Hop[n] = IF n = 0 THEN thread_head ELSE info[Hop[n - 1]].next
  BY <1>5, Zenon
<1> QED BY <1>6, <1>7

\* The next pointers go round M: no two entries have the same successor, and no
\* part of M is closed in itself.
Cycle(M, inf) ==
  /\ \A x \in M : inf[x] # None /\ inf[x].next \in M
  /\ \A x, y \in M : inf[x].next = inf[y].next => x = y
  /\ \A S \in SUBSET M : S # {} /\ (\A x \in S : inf[x].next \in S) => S = M

\* Who walks round a cycle from the head meets every entry once and is back.
LEMMA WalkIs ==
  ASSUME NEW M \in SUBSET Infos, Cycle(M, info), thread_head \in M
  PROVE  Reached = M /\ Hop[Cardinality(M)] = thread_head
<1> DEFINE k == Cardinality(M)
<1>1. IsFiniteSet(M) /\ k \in Nat /\ k <= Cardinality(Infos) /\ Cardinality(Infos) \in Nat
  BY FS_Subset, FS_CardinalityType, ThreadListAssumption
<1>2. \A n \in Nat : Hop[n] \in M
  <2> DEFINE S == {n \in Nat : Hop[n] \in M}
  <2>1. 0 \in S
    BY HopIs
  <2>2. \A n \in Nat : n \in S => n + 1 \in S
    BY HopIs DEF Cycle
  <2> HIDE DEF S
  <2>3. Nat \subseteq S
    BY <2>1, <2>2, NatInd
  <2> QED BY <2>3 DEF S
<1> DEFINE Met == {n \in Nat : \E m \in 0..(n - 1) : Hop[m] = Hop[n]}
<1>3. Met # {}
  <2> DEFINE f == [n \in 0..k |-> Hop[n]]
  <2>1. f \in [0..k -> M]
    BY <1>1, <1>2
  <2>2. IsFiniteSet(0..k) /\ Cardinality(0..k) = k + 1
    BY <1>1, FS_Interval
  <2>3. \E n, m \in 0..k : n # m /\ f[n] = f[m]
    <3> HIDE DEF f
    <3> QED BY <1>1, <2>1, <2>2, FS_PigeonHole
  <2>4. PICK n, m \in 0..k : n # m /\ Hop[n] = Hop[m]
    BY <2>3
  <2>5. n < m \/ m < n
    BY <2>4, <1>1
  <2> QED BY <2>4, <2>5, <1>1
<1>4. PICK r \in Met : \A n \in Met : r <= n
  <2>1. Met \in SUBSET Nat
    OBVIOUS
  <2> HIDE DEF Met
  <2> QED BY <1>3, <2>1, NatLeast
<1>5. r \in Nat \ {0} /\ \A n \in 0..(r - 1), m \in 0..(r - 1) : Hop[n] = Hop[m] => n = m
  <2>1. r \in Nat \ {0}
    BY <1>4
  <2>2. \A n \in 0..(r - 1) : \A m \in 0..(n - 1) : Hop[n] # Hop[m]
    BY <1>4, <2>1
  <2>3. ASSUME NEW n \in 0..(r - 1), NEW m \in 0..(r - 1), Hop[n] = Hop[m] PROVE n = m
    <3>1. n = m \/ n \in 0..(m - 1) \/ m \in 0..(n - 1)
      BY <2>1
    <3> QED BY <3>1, <2>2, <2>3
  <2> QED BY <2>1, <2>3
<1>6. Hop[r] = Hop[0]
  <2>1. PICK m \in 0..(r - 1) : Hop[m] = Hop[r]
    BY <1>4
  <2>2. ASSUME m # 0 PROVE FALSE
    <3>1. m - 1 \in Nat /\ r - 1 \in Nat /\ m - 1 \in 0..((r - 1) - 1)
      BY <2>2, <1>5
    <3>2. Hop[m] = info[Hop[m - 1]].next /\ Hop[r] = info[Hop[r - 1]].next
      <4>1. Hop[(m - 1) + 1] = info[Hop[m - 1]].next /\ Hop[(r - 1) + 1] = info[Hop[r - 1]].next
        BY <3>1, HopIs
      <4>2. (m - 1) + 1 = m /\ (r - 1) + 1 = r
        BY <3>1, <1>5
      <4> QED BY <4>1, <4>2
    <3>3. Hop[m - 1] = Hop[r - 1]
      <4>1. Hop[m - 1] \in M /\ Hop[r - 1] \in M
        BY <3>1, <1>2
      <4>2. info[Hop[m - 1]].next = info[Hop[r - 1]].next
        BY <2>1, <3>2
      <4> HIDE DEF Met
      <4> QED BY <4>1, <4>2 DEF Cycle
    <3>4. r - 1 \in Met
      BY <3>1, <3>3
    <3> QED BY <3>1, <3>4, <1>4
  <2> QED BY <2>1, <2>2
<1> DEFINE S == {Hop[n] : n \in 0..(r - 1)}
<1>7. S = M
  <2>1. S \in SUBSET M
    BY <1>2, <1>5
  <2>2. S # {}
    <3>1. Hop[0] \in S
      BY <1>5
    <3> QED BY <3>1
  <2>3. ASSUME NEW n \in 0..(r - 1) PROVE info[Hop[n]].next \in S
    <3>1. info[Hop[n]].next = Hop[n + 1]
      BY HopIs, <1>5
    <3>2. n + 1 \in 0..(r - 1) \/ n + 1 = r
      BY <1>5
    <3>3. 0 \in 0..(r - 1)
      BY <1>5
    <3>4. Hop[n + 1] = Hop[0] \/ n + 1 \in 0..(r - 1)
      BY <3>2, <1>6
    <3> QED BY <3>1, <3>3, <3>4
  <2>4. \A x \in S : info[x].next \in S
    BY <2>3
  <2> HIDE DEF S
  <2> QED BY <2>1, <2>2, <2>4 DEF Cycle
<1>8. r = k
  <2> DEFINE f == [n \in 0..(r - 1) |-> Hop[n]]
  <2>1. f \in Bijection(0..(r - 1), M)
    <3>1. f \in [0..(r - 1) -> M]
      BY <1>7
    <3>2. \A n \in 0..(r - 1), m \in 0..(r - 1) : f[n] = f[m] => n = m
      BY <1>5
    <3>3. \A x \in M : \E n \in 0..(r - 1) : f[n] = x
      BY <1>7
    <3> HIDE DEF f
    <3> QED BY <3>1, <3>2, <3>3 DEF Bijection, Injection, Surjection, IsInjective
  <2>2. IsFiniteSet(0..(r - 1)) /\ Cardinality(0..(r - 1)) = r
    <3>1. r - 1 \in Int /\ 0 \in Int /\ ~(0 > r - 1) /\ (r - 1) - 0 + 1 = r
      BY <1>5
    <3> HIDE DEF Met
    <3> QED BY <3>1, FS_Interval
  <2>3. ExistsBijection(0..(r - 1), M)
    BY <2>1 DEF ExistsBijection
  <2> QED BY <2>2, <2>3, FS_Bijection
<1>9. Reached = M
  <2>1. thread_head # None
    BY ThreadListAssumption
  <2>2. Walk = 0..(Cardinality(Infos) - 1)
    BY <2>1 DEF Walk
  <2>3. Reached \subseteq M
    BY <1>1, <1>2, <2>2 DEF Reached
  <2>4. S \subseteq Reached
    BY <1>1, <1>5, <1>8, <2>2 DEF Reached
  <2> QED BY <2>3, <2>4, <1>7
<1> QED BY <1>6, <1>8, <1>9, HopIs

-----------------------------------------------------------------------------
(* The ring.                                                               *)

Maybe(S) == S \cup {None}
Tids == Threads \cup Targets

RingHeld == {"link", "head", "find", "unlink", "unlinked"}
Joining == {"insert", "link", "head"}
Leaving == {"remove", "unlink"}
Loose == {"insert", "link", "head", "unlinked", "free"}
AtPcs == {"idle", "lookup", "done"} \cup RingHeld \cup Loose \cup Leaving

RingTypes ==
  /\ thread_head \in Maybe(Infos) /\ members \in SUBSET Infos
  /\ info \in [Infos -> Maybe(ThreadInfo)]
  /\ my_thread \in [Threads -> Maybe(Infos)]
  /\ at \in [Threads -> [pc : AtPcs, tid : Maybe(Tids), entry : Maybe(Infos)]]

RingLocked ==
  /\ THREADS_LOCK \in Maybe(Threads)
  /\ \A t \in Threads : THREADS_LOCK = t <=> at[t].pc \in RingHeld

\* What the next pointers go round. An entry is on the way before it is the head.
Round == members \cup {x \in Infos : \E t \in Threads : at[t].pc = "head" /\ at[t].entry = x}

Linking ==
  /\ thread_head = None <=> members = {}
  /\ thread_head # None => thread_head \in members
  /\ Cycle(Round, info)

\* What a thread has in hand that is not in the ring is its alone.
LooseApart(t) ==
  at[t].pc \in Loose =>
    /\ Entry(t) \in Infos /\ Entry(t) \notin members /\ info[Entry(t)] # None
    /\ \A u \in Threads \ {t} : at[u].pc \in Loose => Entry(u) # Entry(t)

\* A thread puts itself into the ring, once, or a process that it attaches to.
Joins(t) ==
  at[t].pc \in Joining =>
    /\ info[Entry(t)].tid = at[t].tid
    /\ (at[t].tid = t /\ my_thread[t] = None) \/ at[t].tid \in Targets

\* What a thread takes out of the ring is there, and nobody else's.
Leaves(t) ==
  /\ at[t].pc \in Leaving =>
       /\ Entry(t) \in members /\ my_thread[t] \in {None, Entry(t)}
       /\ \A u \in Threads \ {t} :
            my_thread[u] # Entry(t) /\ (at[u].pc \in Leaving => Entry(u) # Entry(t))
  /\ at[t].pc = "unlinked" => my_thread[t] \in {None, Entry(t)}

Selves ==
  /\ \A t \in Threads : my_thread[t] # None /\ at[t].pc # "unlinked" =>
       my_thread[t] \in members /\ info[my_thread[t]].tid = t
  /\ \A x \in members : info[x].tid \in Threads => my_thread[info[x].tid] = x

RingInv ==
  /\ RingTypes /\ RingLocked /\ Linking /\ Selves
  /\ \A t \in Threads : LooseApart(t) /\ Joins(t) /\ Leaves(t)

Between(t) == at[t].pc \in {"idle", "done"}

-----------------------------------------------------------------------------
(* The steps of the operations on the ring.                                *)

\* A step of a thread changes its own place only.
LEMMA ToIs ==
  ASSUME RingTypes, NEW t \in Threads, NEW pc \in AtPcs, To(t, pc)
  PROVE  /\ at' \in [Threads -> [pc : AtPcs, tid : Maybe(Tids), entry : Maybe(Infos)]]
         /\ at'[t].pc = pc /\ at'[t].tid = at[t].tid /\ at'[t].entry = at[t].entry
         /\ \A u \in Threads \ {t} : at'[u] = at[u]
BY DEF RingTypes, To

LEMMA FoundIs ==
  ASSUME RingTypes, NEW t \in Threads, NEW x \in Maybe(Infos), Found(t, x)
  PROVE  /\ at' \in [Threads -> [pc : AtPcs, tid : Maybe(Tids), entry : Maybe(Infos)]]
         /\ at'[t].pc = "done" /\ at'[t].tid = at[t].tid /\ at'[t].entry = x
         /\ \A u \in Threads \ {t} : at'[u] = at[u]
BY DEF RingTypes, Found, AtPcs

LEMMA PlaceIs ==
  ASSUME RingTypes, NEW t \in Threads, NEW pc \in AtPcs, NEW tid \in Maybe(Tids), NEW x \in Maybe(Infos),
         at' = [at EXCEPT ![t] = [pc |-> pc, tid |-> tid, entry |-> x]]
  PROVE  /\ at' \in [Threads -> [pc : AtPcs, tid : Maybe(Tids), entry : Maybe(Infos)]]
         /\ at'[t].pc = pc /\ at'[t].tid = tid /\ at'[t].entry = x
         /\ \A u \in Threads \ {t} : at'[u] = at[u]
BY DEF RingTypes

\* At most one thread is between an insertion and its end.
LEMMA RoundIs ==
  ASSUME RingTypes, RingLocked
  PROVE  /\ \A t \in Threads : at[t].pc = "head" /\ Entry(t) \in Infos => Round = members \cup {Entry(t)}
         /\ (\A t \in Threads : at[t].pc # "head") => Round = members
         /\ \A t \in Threads : at[t].pc \in RingHeld =>
              \A u \in Threads \ {t} : at[u].pc \notin RingHeld
         /\ THREADS_LOCK = None => \A t \in Threads : at[t].pc \notin RingHeld
<1>1. \A t \in Threads : at[t].pc \in RingHeld => \A u \in Threads \ {t} : at[u].pc \notin RingHeld
  BY DEF RingLocked
<1>2. THREADS_LOCK = None => \A t \in Threads : at[t].pc \notin RingHeld
  BY ThreadListAssumption DEF RingLocked
<1>3. ASSUME NEW t \in Threads, at[t].pc = "head", Entry(t) \in Infos
      PROVE  Round = members \cup {Entry(t)}
  <2>2. \A u \in Threads : at[u].pc = "head" => u = t
    BY <1>1, <1>3 DEF RingHeld
  <2> QED BY <2>2, <1>3 DEF Round, Entry
<1> QED BY <1>1, <1>2, <1>3 DEF Round

\* A step that leaves the ring as it is and moves one thread, which links nothing.
LEMMA CalmKeeps ==
  ASSUME RingInv, NEW t \in Threads, RingTypes', RingLocked',
         UNCHANGED <<members, my_thread>>, \A x \in Infos : info[x] # None => info'[x] = info[x],
         thread_head' = thread_head \/ (thread_head # None /\ thread_head' \in members),
         \A u \in Threads \ {t} : at'[u] = at[u],
         at[t].pc \notin {"head", "unlinked"}, at'[t].pc \notin {"head", "unlinked"},
         LooseApart(t)', Joins(t)', Leaves(t)'
  PROVE  RingInv'
<1>1. Round' = Round
  BY DEF Round
<1>2. Linking'
  <2>1. Round \subseteq Infos
    BY DEF Round, RingInv, RingTypes
  <2>2. \A x \in Round : info'[x] = info[x] /\ info[x] # None
    BY <2>1 DEF RingInv, Linking, Cycle
  <2>3. Cycle(Round, info')
    <3>1. Cycle(Round, info)
      BY DEF RingInv, Linking
    <3>2. ASSUME NEW S \in SUBSET Round, S # {}, \A x \in S : info'[x].next \in S PROVE S = Round
      <4>1. \A x \in S : info[x].next \in S
        BY <2>2, <3>2
      <4> QED BY <3>1, <3>2, <4>1 DEF Cycle
    <3>3. /\ \A x \in Round : info'[x] # None /\ info'[x].next \in Round
          /\ \A x, y \in Round : info'[x].next = info'[y].next => x = y
      BY <2>2, <3>1 DEF Cycle
    <3> QED BY <3>2, <3>3 DEF Cycle
  <2> QED BY <1>1, <2>3, ThreadListAssumption DEF RingInv, Linking, RingTypes
<1>3. Selves'
  <2>1. \A x \in members : info'[x] = info[x]
    BY DEF RingInv, RingTypes, Linking, Cycle, Round
  <2> QED BY <2>1 DEF RingInv, Selves
<1>4. ASSUME NEW u \in Threads \ {t}
      PROVE  LooseApart(u)' /\ Joins(u)' /\ Leaves(u)'
  <2>1. LooseApart(u) /\ Joins(u) /\ Leaves(u) /\ at'[u] = at[u]
    BY DEF RingInv
  <2>2. LooseApart(u)'
    BY <2>1 DEF LooseApart, Entry
  <2>3. Joins(u)'
    <3>1. at[u].pc \in Joining => at[u].pc \in Loose
      BY DEF Joining, Loose
    <3> QED BY <2>1, <3>1 DEF Joins, LooseApart, Entry
  <2>4. Leaves(u)'
    BY <2>1 DEF Leaves, Entry
  <2> QED BY <2>2, <2>3, <2>4
<1> QED BY <1>2, <1>3, <1>4 DEF RingInv

LEMMA AllocateKeeps ==
  ASSUME RingInv, NEW t \in Threads, Between(t), NEW tid \in Tids,
         (tid = t /\ my_thread[t] = None) \/ tid \in Targets, Allocate(t, tid)
  PROVE  RingInv'
<1>0. RingTypes /\ RingLocked /\ \A u \in Threads : LooseApart(u)
  BY DEF RingInv
<1>1. CASE at' = [at EXCEPT ![t] = [pc |-> "done", tid |-> tid, entry |-> None]] /\ UNCHANGED info
  <2>1. /\ at'[t].pc = "done" /\ \A u \in Threads \ {t} : at'[u] = at[u]
        /\ at' \in [Threads -> [pc : AtPcs, tid : Maybe(Tids), entry : Maybe(Infos)]]
    BY <1>0, <1>1, PlaceIs DEF AtPcs, Maybe
  <2>2. UNCHANGED <<thread_head, my_thread, THREADS_LOCK, members, info>>
    BY <1>1 DEF Allocate
  <2>3. RingTypes' /\ RingLocked'
    BY <1>0, <2>1, <2>2 DEF RingTypes, RingLocked, RingHeld, Between
  <2>4. LooseApart(t)' /\ Joins(t)' /\ Leaves(t)'
    BY <2>1 DEF LooseApart, Joins, Leaves, Loose, Joining, Leaving
  <2> QED BY <2>1, <2>2, <2>3, <2>4, CalmKeeps DEF Between
<1>2. ASSUME NEW x \in Infos, info[x] = None,
             info' = [info EXCEPT ![x] = [tid |-> tid, allocator_tid |-> t, next |-> None]],
             at' = [at EXCEPT ![t] = [pc |-> "insert", tid |-> tid, entry |-> x]]
      PROVE  RingInv'
  <2>1. /\ at'[t].pc = "insert" /\ at'[t].tid = tid /\ at'[t].entry = x
        /\ \A u \in Threads \ {t} : at'[u] = at[u]
        /\ at' \in [Threads -> [pc : AtPcs, tid : Maybe(Tids), entry : Maybe(Infos)]]
    BY <1>0, <1>2, PlaceIs DEF AtPcs, Maybe, Loose
  <2>2. UNCHANGED <<thread_head, my_thread, THREADS_LOCK, members>>
    BY <1>2 DEF Allocate
  <2>3. /\ info' \in [Infos -> Maybe(ThreadInfo)] /\ info'[x] # None /\ info'[x].tid = tid
        /\ \A y \in Infos : info[y] # None => info'[y] = info[y]
    <3>1. [tid |-> tid, allocator_tid |-> t, next |-> None] \in ThreadInfo
      BY DEF ThreadInfo, Tids
    <3> QED BY <1>0, <1>2, <3>1, ThreadListAssumption DEF RingTypes, Maybe
  <2>4. RingTypes' /\ RingLocked'
    BY <1>0, <2>1, <2>2, <2>3 DEF RingTypes, RingLocked, RingHeld, Between
  <2>5. x \notin members
    BY <1>2 DEF RingInv, Linking, Cycle, Round
  <2>6. LooseApart(t)'
    BY <1>0, <1>2, <2>1, <2>2, <2>3, <2>5 DEF LooseApart, Loose, Entry
  <2>7. Joins(t)' /\ Leaves(t)'
    BY <2>1, <2>2, <2>3 DEF Joins, Leaves, Leaving, Entry
  <2> QED BY <2>1, <2>2, <2>3, <2>4, <2>6, <2>7, CalmKeeps DEF Between
<1> QED BY <1>1, <1>2 DEF Allocate

LEMMA AcquireKeeps ==
  ASSUME RingInv, NEW t \in Threads, NEW pc, NEW then, Acquire(t, pc, then),
         <<pc, then>> \in {<<"insert", "link">>, <<"lookup", "find">>, <<"remove", "unlink">>}
  PROVE  RingInv'
<1>0. RingTypes /\ RingLocked /\ LooseApart(t) /\ Joins(t) /\ Leaves(t)
  BY DEF RingInv
<1>1. then \in AtPcs /\ then \in RingHeld
  BY DEF AtPcs, RingHeld
<1>2. /\ at[t].pc = pc /\ THREADS_LOCK = None /\ THREADS_LOCK' = t
      /\ UNCHANGED <<thread_head, info, my_thread, members>>
  BY DEF Acquire, At
<1>3. /\ at'[t].pc = then /\ at'[t].tid = at[t].tid /\ at'[t].entry = at[t].entry
      /\ \A u \in Threads \ {t} : at'[u] = at[u]
      /\ at' \in [Threads -> [pc : AtPcs, tid : Maybe(Tids), entry : Maybe(Infos)]]
  BY <1>0, <1>1, ToIs DEF Acquire
<1>4. RingTypes'
  BY <1>0, <1>2, <1>3 DEF RingTypes
<1>5. RingLocked'
  <2>1. \A u \in Threads : at[u].pc \notin RingHeld
    BY <1>0, <1>2, RoundIs
  <2> QED BY <1>1, <1>2, <1>3, <2>1 DEF RingLocked, Maybe
<1>6. LooseApart(t)'
  BY <1>0, <1>2, <1>3 DEF LooseApart, Loose, Entry
<1>7. Joins(t)' /\ Leaves(t)'
  BY <1>0, <1>2, <1>3 DEF Joins, Joining, Leaves, Leaving, Entry
<1>8. at[t].pc \notin {"head", "unlinked"} /\ at'[t].pc \notin {"head", "unlinked"}
  BY <1>2, <1>3
<1> QED BY <1>2, <1>3, <1>4, <1>5, <1>6, <1>7, <1>8, CalmKeeps

-----------------------------------------------------------------------------
(* A cycle that grows or shrinks by an entry is one still.                 *)

LEMMA CycleStarts ==
  ASSUME NEW inf, NEW x, inf[x] # None, inf[x].next = x
  PROVE  Cycle({x}, inf)
<1>1. \A S \in SUBSET {x} : S # {} => S = {x}
  OBVIOUS
<1> QED BY <1>1 DEF Cycle

LEMMA CycleGrows ==
  ASSUME NEW M, NEW inf, NEW inf2, NEW h \in M, NEW x, x \notin M, Cycle(M, inf),
         inf2[x] # None, \A y \in M : inf2[y] # None,
         inf2[x].next = inf[h].next, inf2[h].next = x,
         \A y \in M \ {h} : inf2[y].next = inf[y].next
  PROVE  Cycle(M \cup {x}, inf2)
<1>1. \A y \in M \cup {x} : inf2[y] # None /\ inf2[y].next \in M \cup {x}
  BY DEF Cycle
<1>2. ASSUME NEW y \in M \cup {x}, NEW z \in M \cup {x}, inf2[y].next = inf2[z].next
      PROVE  y = z
  BY <1>2 DEF Cycle
<1>3. ASSUME NEW S \in SUBSET (M \cup {x}), S # {}, \A y \in S : inf2[y].next \in S
      PROVE  S = M \cup {x}
  <2>1. CASE x \notin S
    <3>1. h \notin S
      BY <1>3, <2>1
    <3>2. \A y \in S : y \in M /\ inf[y].next \in S
      BY <1>3, <2>1, <3>1
    <3>3. S = M
      BY <1>3, <3>2 DEF Cycle
    <3> QED BY <3>1, <3>3
  <2>2. CASE x \in S
    <3> DEFINE T == S \ {x}
    <3>1. inf[h].next \in T
      BY <1>3, <2>2 DEF Cycle
    <3>2. ASSUME NEW y \in T PROVE inf[y].next \in T
      <4>1. CASE y = h
        BY <3>1, <4>1
      <4>2. CASE y # h
        <5>1. y \in M /\ inf2[y].next = inf[y].next /\ inf2[y].next \in S /\ inf[y].next \in M
          BY <1>3, <4>2 DEF Cycle
        <5> QED BY <5>1
      <4> QED BY <4>1, <4>2
    <3>3. T \in SUBSET M /\ T # {}
      BY <3>1
    <3>4. T = M
      <4> HIDE DEF T
      <4> QED BY <3>2, <3>3 DEF Cycle
    <3> QED BY <2>2, <3>4
  <2> QED BY <2>1, <2>2
<1> QED BY <1>1, <1>2, <1>3 DEF Cycle

LEMMA CycleEnds ==
  ASSUME NEW M, NEW inf, NEW x \in M, Cycle(M, inf), inf[x].next = x
  PROVE  M = {x}
<1>1. {x} \in SUBSET M /\ {x} # {} /\ \A y \in {x} : inf[y].next \in {x}
  OBVIOUS
<1> QED BY <1>1 DEF Cycle

LEMMA CycleShrinks ==
  ASSUME NEW M, NEW inf, NEW inf2, NEW p \in M, NEW x \in M, p # x, Cycle(M, inf),
         inf[p].next = x, \A y \in M \ {x} : inf2[y] # None,
         inf2[p].next = inf[x].next, \A y \in M \ {x, p} : inf2[y].next = inf[y].next
  PROVE  Cycle(M \ {x}, inf2)
<1>0. inf[x].next \in M \ {x}
  <2>1. inf[x].next # x
    BY CycleEnds
  <2> QED BY <2>1 DEF Cycle
<1>1. ASSUME NEW y \in M \ {x} PROVE inf2[y] # None /\ inf2[y].next \in M \ {x}
  <2>1. y # p => inf[y].next # x
    BY <1>1 DEF Cycle
  <2> QED BY <1>0, <1>1, <2>1 DEF Cycle
<1>2. ASSUME NEW y \in M \ {x}, NEW z \in M \ {x}, inf2[y].next = inf2[z].next
      PROVE  y = z
  BY <1>2 DEF Cycle
<1>3. ASSUME NEW S \in SUBSET (M \ {x}), S # {}, \A y \in S : inf2[y].next \in S
      PROVE  S = M \ {x}
  <2>1. CASE p \notin S
    <3>1. \A y \in S : y \in M /\ inf[y].next \in S
      BY <1>3, <2>1
    <3>2. S = M
      BY <1>3, <3>1 DEF Cycle
    <3> QED BY <1>3, <3>2
  <2>2. CASE p \in S
    <3> DEFINE T == S \cup {x}
    <3>1. ASSUME NEW y \in T PROVE inf[y].next \in T
      <4>1. CASE y = p
        BY <4>1
      <4>2. CASE y = x
        BY <1>3, <2>2, <4>2
      <4>3. CASE y \in S \ {p}
        BY <1>3, <4>3
      <4> QED BY <4>1, <4>2, <4>3
    <3>2. T \in SUBSET M /\ T # {}
      BY <1>3
    <3>3. T = M
      <4> HIDE DEF T
      <4> QED BY <3>1, <3>2 DEF Cycle
    <3> QED BY <1>3, <3>3
  <2> QED BY <2>1, <2>2
<1> QED BY <1>1, <1>2, <1>3 DEF Cycle

-----------------------------------------------------------------------------
LEMMA LinkKeeps ==
  ASSUME RingInv, NEW t \in Threads, Link(t)
  PROVE  RingInv'
<1> DEFINE x == Entry(t)
<1>0. RingTypes /\ RingLocked /\ Linking /\ Selves /\ LooseApart(t) /\ Joins(t)
  BY DEF RingInv
<1>1. /\ at[t].pc = "link" /\ info' = Linked(x)
      /\ UNCHANGED <<thread_head, my_thread, THREADS_LOCK, members>>
  BY DEF Link, At
<1>2. /\ at'[t].pc = "head" /\ at'[t].tid = at[t].tid /\ at'[t].entry = at[t].entry
      /\ \A u \in Threads \ {t} : at'[u] = at[u]
      /\ at' \in [Threads -> [pc : AtPcs, tid : Maybe(Tids), entry : Maybe(Infos)]]
  <2>1. "head" \in AtPcs
    BY DEF AtPcs, RingHeld
  <2> QED BY <1>0, <2>1, ToIs DEF Link
<1>3. x \in Infos /\ x \notin members /\ info[x] # None /\ info[x] \in ThreadInfo
  BY <1>0, <1>1 DEF LooseApart, Loose, RingTypes, Maybe
<1>4. Round = members /\ \A u \in Threads \ {t} : at[u].pc \notin RingHeld
  <2>1. at[t].pc \in RingHeld
    BY <1>1 DEF RingHeld
  <2>2. \A u \in Threads \ {t} : at[u].pc \notin RingHeld
    BY <1>0, <2>1, RoundIs
  <2>3. \A u \in Threads : at[u].pc # "head"
    BY <1>1, <2>2 DEF RingHeld
  <2> QED BY <1>0, <2>2, <2>3, RoundIs
<1>5. Round' = members \cup {x}
  BY <1>1, <1>2, <1>3, <1>4 DEF Round, RingHeld, Entry
<1>6. /\ info' \in [Infos -> Maybe(ThreadInfo)] /\ info'[x] # None
      /\ \A y \in Infos : info[y] # None => info'[y] # None /\ info'[y].tid = info[y].tid
      /\ \A y \in members : y # thread_head => info'[y] = info[y]
  <2>1. CASE thread_head = None
    <3>1. info' = [info EXCEPT ![x] = [@ EXCEPT !.next = x]]
      BY <1>1, <2>1 DEF Linked
    <3>2. [info[x] EXCEPT !.next = x] \in ThreadInfo /\ [info[x] EXCEPT !.next = x].tid = info[x].tid
      BY <1>3 DEF ThreadInfo
    <3> QED BY <1>0, <1>3, <3>1, <3>2, ThreadListAssumption DEF RingTypes, Maybe
  <2>2. CASE thread_head # None
    <3> DEFINE h == thread_head
    <3>0. h \in members /\ h \in Infos /\ h # x /\ info[h] \in ThreadInfo /\ info[h].next \in Infos
      BY <1>0, <1>3, <1>4, <2>2 DEF Linking, Cycle, RingTypes, Maybe
    <3>1. info' = [info EXCEPT ![x] = [@ EXCEPT !.next = info[h].next], ![h] = [@ EXCEPT !.next = x]]
      BY <1>1, <2>2 DEF Linked
    <3>2. /\ [info[x] EXCEPT !.next = info[h].next] \in ThreadInfo
          /\ [info[x] EXCEPT !.next = info[h].next].tid = info[x].tid
          /\ [info[h] EXCEPT !.next = x] \in ThreadInfo /\ [info[h] EXCEPT !.next = x].tid = info[h].tid
      BY <1>3, <3>0 DEF ThreadInfo
    <3> QED BY <1>0, <1>3, <3>0, <3>1, <3>2, ThreadListAssumption DEF RingTypes, Maybe
  <2> QED BY <2>1, <2>2
<1>7. Cycle(members \cup {x}, info')
  <2>1. CASE thread_head = None
    <3>1. members = {}
      BY <1>0, <2>1 DEF Linking
    <3>2. info'[x].next = x
      BY <1>0, <1>1, <1>3, <2>1 DEF Linked, RingTypes, ThreadInfo
    <3> QED BY <1>6, <3>1, <3>2, CycleStarts
  <2>2. CASE thread_head # None
    <3>0. thread_head \in members /\ thread_head \in Infos /\ thread_head # x
      BY <1>0, <1>3, <2>2 DEF Linking, RingTypes
    <3>1. info[thread_head] \in ThreadInfo
      BY <1>0, <1>4, <3>0 DEF Linking, Cycle, RingTypes, Maybe
    <3>2. info'[x].next = info[thread_head].next /\ info'[thread_head].next = x
      BY <1>0, <1>1, <1>3, <2>2, <3>0, <3>1 DEF Linked, RingTypes, ThreadInfo
    <3>3. \A y \in members : info'[y] # None
      BY <1>0, <1>4, <1>6 DEF Linking, Cycle, RingTypes
    <3>4. Cycle(members, info)
      BY <1>0, <1>4 DEF Linking
    <3> HIDE DEF x
    <3> QED BY <1>3, <1>6, <3>0, <3>2, <3>3, <3>4, CycleGrows
  <2> QED BY <2>1, <2>2
<1>8. RingTypes' /\ RingLocked' /\ Linking'
  BY <1>0, <1>1, <1>2, <1>5, <1>6, <1>7 DEF RingTypes, RingLocked, RingHeld, Linking
<1>9. \A y \in members : info'[y].tid = info[y].tid
  BY <1>0, <1>4, <1>6 DEF Linking, Cycle, RingTypes
<1>10. Selves'
  BY <1>0, <1>1, <1>2, <1>9 DEF Selves
<1>11. ASSUME NEW u \in Threads PROVE LooseApart(u)' /\ Joins(u)' /\ Leaves(u)'
  <2>1. LooseApart(u) /\ Joins(u) /\ Leaves(u)
    BY DEF RingInv
  <2>2. at'[u].entry = at[u].entry /\ at'[u].tid = at[u].tid
        /\ (at'[u].pc \in Loose <=> at[u].pc \in Loose) /\ (at'[u].pc \in Joining <=> at[u].pc \in Joining)
        /\ (at'[u].pc \in Leaving <=> at[u].pc \in Leaving) /\ (at'[u].pc = "unlinked" <=> at[u].pc = "unlinked")
    BY <1>1, <1>2 DEF Loose, Joining, Leaving
  <2>3. \A v \in Threads : at'[v].entry = at[v].entry /\ (at'[v].pc \in Loose <=> at[v].pc \in Loose)
                           /\ (at'[v].pc \in Leaving <=> at[v].pc \in Leaving)
    BY <1>1, <1>2 DEF Loose, Leaving
  <2>4. LooseApart(u)'
    BY <1>1, <1>6, <2>1, <2>2, <2>3 DEF LooseApart, Entry
  <2>5. Joins(u)'
    <3>1. at[u].pc \in Joining => at[u].pc \in Loose
      BY DEF Joining, Loose
    <3> QED BY <1>1, <1>6, <2>1, <2>2, <3>1 DEF Joins, LooseApart, Entry
  <2>6. Leaves(u)'
    BY <1>1, <2>1, <2>2, <2>3 DEF Leaves, Entry
  <2> QED BY <2>4, <2>5, <2>6
<1> QED BY <1>8, <1>10, <1>11 DEF RingInv

LEMMA SetHeadKeeps ==
  ASSUME RingInv, NEW t \in Threads, SetHead(t)
  PROVE  RingInv' /\ at'[t].entry \in members' /\ info'[at'[t].entry].tid = at'[t].tid
         /\ (at[t].tid = t => my_thread'[t] = at'[t].entry)
<1> DEFINE x == Entry(t)
<1>0. RingTypes /\ RingLocked /\ Linking /\ Selves /\ LooseApart(t) /\ Joins(t)
  BY DEF RingInv
<1>1. /\ at[t].pc = "head" /\ thread_head' = x /\ members' = members \cup {x} /\ THREADS_LOCK' = None
      /\ my_thread' = Remembered(t) /\ UNCHANGED info
  BY DEF SetHead, At
<1>2. x \in Infos /\ x \notin members /\ info[x] # None /\ info[x].tid = at[t].tid
  BY <1>0, <1>1 DEF LooseApart, Loose, Joins, Joining
<1>3. /\ at'[t].pc = "done" /\ at'[t].tid = at[t].tid /\ at'[t].entry = x
      /\ \A u \in Threads \ {t} : at'[u] = at[u]
      /\ at' \in [Threads -> [pc : AtPcs, tid : Maybe(Tids), entry : Maybe(Infos)]]
  <2>1. x \in Maybe(Infos) /\ Found(t, x)
    BY <1>2 DEF Maybe, SetHead
  <2> QED BY <1>0, <2>1, FoundIs
<1>4. \A u \in Threads \ {t} : at[u].pc \notin RingHeld
  <2>1. at[t].pc \in RingHeld
    BY <1>1 DEF RingHeld
  <2> QED BY <1>0, <2>1, RoundIs
<1>5. Round = members \cup {x} /\ Round' = members \cup {x}
  <2>1. Round = members \cup {x}
    BY <1>0, <1>1, <1>2, RoundIs
  <2>2. \A u \in Threads : at'[u].pc # "head"
    BY <1>3, <1>4 DEF RingHeld
  <2> QED BY <1>1, <2>1, <2>2 DEF Round
<1>6. my_thread' \in [Threads -> Maybe(Infos)] /\ my_thread' = IF at[t].tid = t THEN [my_thread EXCEPT ![t] = x] ELSE my_thread
  BY <1>0, <1>1, <1>2 DEF RingTypes, Remembered, Maybe
<1>7. RingTypes' /\ RingLocked' /\ Linking'
  <2>1. RingTypes'
    BY <1>0, <1>1, <1>2, <1>3, <1>6 DEF RingTypes, Maybe
  <2>2. RingLocked'
    BY <1>0, <1>1, <1>3, <1>4, ThreadListAssumption DEF RingLocked, RingHeld, Maybe
  <2>3. Linking'
    BY <1>0, <1>1, <1>2, <1>5, ThreadListAssumption DEF Linking
  <2> QED BY <2>1, <2>2, <2>3
<1>8. Selves'
  <2>1. ASSUME NEW u \in Threads, my_thread'[u] # None, at'[u].pc # "unlinked"
        PROVE  my_thread'[u] \in members' /\ info'[my_thread'[u]].tid = u
    <3>1. CASE u = t /\ at[t].tid = t
      BY <1>0, <1>1, <1>2, <1>6, <3>1 DEF RingTypes
    <3>2. CASE ~(u = t /\ at[t].tid = t)
      <4>1. my_thread'[u] = my_thread[u]
        BY <1>0, <1>6, <3>2 DEF RingTypes
      <4>2. at[u].pc # "unlinked"
        BY <1>1, <1>3, <2>1
      <4> QED BY <1>0, <1>1, <2>1, <4>1, <4>2 DEF Selves
    <3> QED BY <3>1, <3>2
  <2>2. ASSUME NEW y \in members', info'[y].tid \in Threads PROVE my_thread'[info'[y].tid] = y
    <3>1. CASE y = x
      <4>1. at[t].tid = t
        BY <1>0, <1>1, <1>2, <2>2, <3>1, ThreadListAssumption DEF Joins, Joining
      <4> QED BY <1>0, <1>1, <1>2, <1>6, <3>1, <4>1 DEF RingTypes
    <3>2. CASE y \in members
      <4>1. my_thread[info[y].tid] = y /\ y # None
        BY <1>0, <1>1, <2>2, <3>2, ThreadListAssumption DEF Selves, RingTypes
      <4>2. CASE at[t].tid = t /\ info[y].tid = t
        <5>1. my_thread[t] = None
          BY <1>0, <1>1, <4>2, ThreadListAssumption DEF Joins, Joining
        <5> QED BY <4>1, <4>2, <5>1
      <4>3. CASE ~(at[t].tid = t /\ info[y].tid = t)
        BY <1>0, <1>1, <1>6, <2>2, <4>1, <4>3 DEF RingTypes
      <4> QED BY <4>2, <4>3
    <3> QED BY <1>1, <2>2, <3>1, <3>2
  <2> QED BY <2>1, <2>2 DEF Selves
<1>9. ASSUME NEW u \in Threads PROVE LooseApart(u)' /\ Joins(u)' /\ Leaves(u)'
  <2>1. LooseApart(u) /\ Joins(u) /\ Leaves(u)
    BY DEF RingInv
  <2>2. CASE u = t
    BY <1>3, <2>2 DEF LooseApart, Loose, Joins, Joining, Leaves, Leaving
  <2>3. CASE u # t
    <3>1. at'[u] = at[u] /\ my_thread'[u] = my_thread[u] /\ at[t].pc \in Loose /\ at'[t].pc \notin Loose
          /\ at'[t].pc \notin Leaving
      BY <1>0, <1>1, <1>3, <1>6, <2>3 DEF RingTypes, Loose, Leaving
    <3>2. at[u].pc \in Loose => Entry(u) # x
      BY <1>0, <2>3, <3>1 DEF LooseApart
    <3>3. LooseApart(u)'
      BY <1>1, <1>3, <2>1, <3>1, <3>2 DEF LooseApart, Entry
    <3>4. Joins(u)'
      BY <1>1, <2>1, <3>1 DEF Joins, Entry
    <3>5. \A v \in Threads : my_thread'[v] \in {my_thread[v], x}
      BY <1>0, <1>6 DEF RingTypes
    <3>6. ASSUME at[u].pc \in Leaving
          PROVE  /\ Entry(u) \in members' /\ my_thread[u] \in {None, Entry(u)}
                 /\ \A v \in Threads \ {u} :
                      my_thread'[v] # Entry(u) /\ (at'[v].pc \in Leaving => at'[v].entry # Entry(u))
      <4>1. Entry(u) \in members /\ Entry(u) # x
        BY <1>2, <2>1, <3>6 DEF Leaves
      <4>2. ASSUME NEW v \in Threads \ {u}
            PROVE  my_thread'[v] # Entry(u) /\ (at'[v].pc \in Leaving => at'[v].entry # Entry(u))
        <5>1. my_thread[v] # Entry(u) /\ (at[v].pc \in Leaving => Entry(v) # Entry(u))
          BY <2>1, <3>6 DEF Leaves
        <5>2. my_thread'[v] \in {my_thread[v], x}
          BY <3>5
        <5>3. at'[v] = at[v] \/ at'[v].pc \notin Leaving
          BY <1>3, <3>1
        <5> QED BY <4>1, <5>1, <5>2, <5>3 DEF Entry
      <4> QED BY <1>1, <2>1, <3>6, <4>1, <4>2 DEF Leaves
    <3>7. Leaves(u)'
      BY <2>1, <3>1, <3>6 DEF Leaves, Entry
    <3> QED BY <3>3, <3>4, <3>7
  <2> QED BY <2>2, <2>3
<1>10. RingInv'
  BY <1>7, <1>8, <1>9 DEF RingInv
<1> QED BY <1>0, <1>1, <1>2, <1>3, <1>6, <1>10 DEF RingTypes

\* A place of its own choice for a thread that is between two operations.
LEMMA PlaceKeeps ==
  ASSUME RingInv, NEW t \in Threads, Between(t), UNCHANGED <<ring, my_thread>>,
         NEW pc \in {"idle", "lookup"}, NEW tid \in Maybe(Tids),
         at' = [at EXCEPT ![t] = [pc |-> pc, tid |-> tid, entry |-> None]]
  PROVE  RingInv'
<1>0. RingTypes /\ RingLocked
  BY DEF RingInv
<1>1. /\ at'[t].pc = pc /\ \A u \in Threads \ {t} : at'[u] = at[u]
      /\ at' \in [Threads -> [pc : AtPcs, tid : Maybe(Tids), entry : Maybe(Infos)]]
  BY <1>0, PlaceIs DEF AtPcs, Maybe
<1>2. UNCHANGED <<thread_head, my_thread, THREADS_LOCK, members, info>>
  BY DEF ring
<1>3. RingTypes' /\ RingLocked'
  BY <1>0, <1>1, <1>2 DEF RingTypes, RingLocked, RingHeld, Between
<1>4. LooseApart(t)' /\ Joins(t)' /\ Leaves(t)'
  BY <1>1 DEF LooseApart, Joins, Leaves, Loose, Joining, Leaving
<1> QED BY <1>1, <1>2, <1>3, <1>4, CalmKeeps DEF Between

LEMMA RemoveKeeps ==
  ASSUME RingInv, NEW t \in Threads, Between(t), NEW x \in members, RemoveThread(t, x),
         my_thread[t] \in {None, x},
         \A u \in Threads \ {t} : my_thread[u] # x /\ (at[u].pc \in Leaving => Entry(u) # x)
  PROVE  RingInv'
<1>0. RingTypes /\ RingLocked
  BY DEF RingInv
<1>1. /\ at'[t].pc = "remove" /\ at'[t].entry = x /\ \A u \in Threads \ {t} : at'[u] = at[u]
      /\ at' \in [Threads -> [pc : AtPcs, tid : Maybe(Tids), entry : Maybe(Infos)]]
  BY <1>0, PlaceIs DEF AtPcs, Maybe, RemoveThread, RingTypes, Leaving
<1>2. UNCHANGED <<thread_head, my_thread, THREADS_LOCK, members, info>>
  BY DEF RemoveThread, ring
<1>3. RingTypes' /\ RingLocked'
  BY <1>0, <1>1, <1>2 DEF RingTypes, RingLocked, RingHeld, Between
<1>4. LooseApart(t)' /\ Joins(t)' /\ Leaves(t)'
  BY <1>1, <1>2 DEF LooseApart, Joins, Leaves, Loose, Joining, Leaving, Entry
<1> QED BY <1>1, <1>2, <1>3, <1>4, CalmKeeps DEF Between

\* Nobody else is there while a thread holds the lock.
LEMMA HeldIs ==
  ASSUME RingInv, NEW t \in Threads, at[t].pc \in RingHeld \ {"head"}
  PROVE  Round = members /\ Cycle(members, info) /\ Reached = members
         /\ \A u \in Threads \ {t} : at[u].pc \notin RingHeld
<1>0. RingTypes /\ RingLocked /\ Linking
  BY DEF RingInv
<1>1. \A u \in Threads \ {t} : at[u].pc \notin RingHeld
  BY <1>0, RoundIs
<1>2. Round = members
  <2>1. \A u \in Threads : at[u].pc # "head"
    BY <1>1 DEF RingHeld
  <2> QED BY <1>0, <2>1, RoundIs
<1>3. Reached = members
  <2>1. CASE thread_head = None
    BY <1>0, <2>1 DEF Linking, Reached, Walk
  <2>2. CASE thread_head # None
    BY <1>0, <1>2, <2>2, WalkIs DEF Linking, RingTypes
  <2> QED BY <2>1, <2>2
<1> QED BY <1>0, <1>1, <1>2, <1>3 DEF Linking

\* Whom the search finds has the tid that was looked for, and whoever has it is
\* found.
LEMMA FindKeeps ==
  ASSUME RingInv, NEW t \in Threads, FindThread(t)
  PROVE  /\ RingInv' /\ at'[t].pc = "done" /\ at'[t].tid = at[t].tid
         /\ at'[t].entry # None => at'[t].entry \in members /\ info[at'[t].entry].tid = at[t].tid
         /\ (\E y \in members : info[y].tid = at[t].tid) => at'[t].entry # None
<1> DEFINE hits == {n \in Walk : info[Hop[n]].tid = at[t].tid}
           first == CHOOSE n \in hits : \A m \in hits : n <= m
           x == IF hits = {} THEN None ELSE Hop[first]
<1>0. RingTypes /\ RingLocked /\ Linking
  BY DEF RingInv
<1>1. /\ at[t].pc = "find" /\ thread_head' = IF x = None THEN thread_head ELSE x
      /\ THREADS_LOCK' = None /\ Found(t, x) /\ UNCHANGED <<info, my_thread, members>>
  BY DEF FindThread, At
<1>2. Reached = members /\ \A u \in Threads \ {t} : at[u].pc \notin RingHeld
  BY <1>1, HeldIs DEF RingHeld
<1>3. hits # {} => first \in hits
  <2>1. Walk \in SUBSET Nat
    BY FS_CardinalityType, ThreadListAssumption DEF Walk
  <2>2. hits \in SUBSET Nat
    BY <2>1
  <2>3. hits # {} => \E n \in hits : \A m \in hits : n <= m
    <3> HIDE DEF hits
    <3> QED BY <2>2, NatLeast
  <2> HIDE DEF hits
  <2> QED BY <2>3
<1>4. x # None => x \in members /\ info[x].tid = at[t].tid
  <2>1. hits # {} => Hop[first] \in Reached /\ info[Hop[first]].tid = at[t].tid
    <3> HIDE DEF first
    <3> QED BY <1>3 DEF Reached
  <2> QED BY <1>2, <2>1
<1>5. (\E y \in members : info[y].tid = at[t].tid) => x # None
  <2>1. ASSUME NEW y \in members, info[y].tid = at[t].tid PROVE x # None
    <3>1. PICK n \in Walk : y = Hop[n]
      BY <1>2 DEF Reached
    <3>2. hits # {}
      BY <2>1, <3>1
    <3>3. Hop[first] \in members
      <4> HIDE DEF first
      <4> QED BY <1>2, <1>3, <3>2 DEF Reached
    <3> QED BY <1>0, <3>2, <3>3, ThreadListAssumption DEF RingTypes
  <2> QED BY <2>1
<1> HIDE DEF x
<1>6. x \in Maybe(Infos)
  BY <1>0, <1>4 DEF RingTypes, Maybe
<1>7. /\ at'[t].pc = "done" /\ at'[t].tid = at[t].tid /\ at'[t].entry = x
      /\ \A u \in Threads \ {t} : at'[u] = at[u]
      /\ at' \in [Threads -> [pc : AtPcs, tid : Maybe(Tids), entry : Maybe(Infos)]]
  BY <1>0, <1>1, <1>6, FoundIs
<1>8. RingTypes' /\ RingLocked'
  BY <1>0, <1>1, <1>2, <1>6, <1>7, ThreadListAssumption DEF RingTypes, RingLocked, RingHeld, Maybe
<1>9. LooseApart(t)' /\ Joins(t)' /\ Leaves(t)'
  BY <1>7 DEF LooseApart, Joins, Leaves, Loose, Joining, Leaving
<1>10. thread_head' = thread_head \/ (thread_head # None /\ thread_head' \in members)
  BY <1>0, <1>1, <1>4 DEF Linking
<1>11. RingInv'
  BY <1>1, <1>7, <1>8, <1>9, <1>10, CalmKeeps
<1> QED BY <1>1, <1>4, <1>5, <1>7, <1>11

LEMMA UnlinkKeeps ==
  ASSUME RingInv, NEW t \in Threads, Unlink(t)
  PROVE  RingInv' /\ \A y \in members : info'[y] # None /\ info'[y].tid = info[y].tid
                                         /\ info'[y].allocator_tid = info[y].allocator_tid
<1> DEFINE x == Entry(t)
<1>0. RingTypes /\ RingLocked /\ Linking /\ Selves /\ LooseApart(t) /\ Leaves(t)
  BY DEF RingInv
<1>1. /\ at[t].pc = "unlink" /\ thread_head' = Advanced(x) /\ members' = members \ {x}
      /\ UNCHANGED <<my_thread, THREADS_LOCK>>
  BY DEF Unlink, At
<1>2. /\ at'[t].pc = "unlinked" /\ at'[t].tid = at[t].tid /\ at'[t].entry = x
      /\ \A u \in Threads \ {t} : at'[u] = at[u]
      /\ at' \in [Threads -> [pc : AtPcs, tid : Maybe(Tids), entry : Maybe(Infos)]]
  <2>1. "unlinked" \in AtPcs
    BY DEF AtPcs, RingHeld
  <2> QED BY <1>0, <2>1, ToIs DEF Unlink, Entry
<1>3. /\ Round = members /\ Cycle(members, info) /\ Reached = members
      /\ \A u \in Threads \ {t} : at[u].pc \notin RingHeld
  BY <1>1, HeldIs DEF RingHeld
<1>4. x \in members /\ x \in Infos /\ my_thread[t] \in {None, x}
      /\ \A u \in Threads \ {t} : my_thread[u] # x /\ (at[u].pc \in Leaving => Entry(u) # x)
  BY <1>0, <1>1 DEF Leaves, Leaving, RingTypes
<1>5. PICK prev \in members :
        /\ info[prev].next = x
        /\ info' = IF prev = x THEN [info EXCEPT ![x].next = None]
                   ELSE [info EXCEPT ![prev].next = info[x].next]
  BY <1>3 DEF Unlink
<1>6. \A y \in members : y \in Infos /\ info[y] \in ThreadInfo /\ info[y].next \in Infos
  BY <1>0, <1>3 DEF Cycle, RingTypes, Maybe
<1>7. /\ info' \in [Infos -> Maybe(ThreadInfo)]
      /\ \A y \in Infos : info[y] # None =>
           info'[y] # None /\ info'[y].tid = info[y].tid /\ info'[y].allocator_tid = info[y].allocator_tid
  <2>1. CASE prev = x
    <3>1. [info[x] EXCEPT !.next = None] \in ThreadInfo
      BY <1>4, <1>6 DEF ThreadInfo
    <3>2. info' = [info EXCEPT ![x] = [info[x] EXCEPT !.next = None]]
      BY <1>0, <1>4, <1>5, <2>1 DEF RingTypes
    <3>3. [info[x] EXCEPT !.next = None].tid = info[x].tid
          /\ [info[x] EXCEPT !.next = None].allocator_tid = info[x].allocator_tid
      BY <1>4, <1>6 DEF ThreadInfo
    <3> QED BY <1>0, <1>4, <3>1, <3>2, <3>3, ThreadListAssumption DEF RingTypes, Maybe
  <2>2. CASE prev # x
    <3> DEFINE new == [info[prev] EXCEPT !.next = info[x].next]
    <3>1. new \in ThreadInfo
      BY <1>4, <1>5, <1>6 DEF ThreadInfo
    <3>2. info' = [info EXCEPT ![prev] = new]
      BY <1>0, <1>5, <1>6, <2>2 DEF RingTypes
    <3>3. new.tid = info[prev].tid /\ new.allocator_tid = info[prev].allocator_tid
      BY <1>5, <1>6 DEF ThreadInfo
    <3> HIDE DEF new
    <3> QED BY <1>0, <1>5, <1>6, <3>1, <3>2, <3>3, ThreadListAssumption DEF RingTypes, Maybe
  <2> QED BY <2>1, <2>2
<1>8. /\ Cycle(members \ {x}, info') /\ thread_head' \in Maybe(Infos)
      /\ thread_head' = None <=> members \ {x} = {}
      /\ thread_head' # None => thread_head' \in members \ {x}
  <2>1. CASE prev = x
    <3>1. members = {x}
      BY <1>3, <1>4, <1>5, <2>1, CycleEnds
    <3>2. thread_head' = None
      BY <1>1, <1>5, <2>1 DEF Advanced
    <3> QED BY <3>1, <3>2 DEF Cycle, Maybe
  <2>2. CASE prev # x
    <3>1. info[x].next # x /\ info[x].next \in members
      <4>1. info[x].next \in members
        BY <1>3, <1>4 DEF Cycle
      <4>2. info[x].next # x
        <5> HIDE DEF x
        <5> QED BY <1>3, <1>4, <1>5, <2>2, CycleEnds
      <4> QED BY <4>1, <4>2
    <3>2. thread_head \in members
      BY <1>0, <1>4 DEF Linking
    <3>3. thread_head' \in members \ {x}
      BY <1>1, <3>1, <3>2 DEF Advanced
    <3>4. info'[prev].next = info[x].next /\ \A y \in members \ {x, prev} : info'[y].next = info[y].next
      BY <1>0, <1>5, <1>6, <2>2 DEF RingTypes, ThreadInfo
    <3>5. \A y \in members \ {x} : info'[y] # None
      BY <1>6, <1>7, ThreadListAssumption
    <3>6. Cycle(members \ {x}, info')
      <4>1. info[prev].next = x /\ prev # x /\ x \in members /\ prev \in members /\ Cycle(members, info)
        BY <1>3, <1>4, <1>5, <2>2
      <4> HIDE DEF x
      <4> QED BY <3>4, <3>5, <4>1, CycleShrinks, SMTT(30)
    <3> QED BY <1>6, <3>3, <3>6, ThreadListAssumption DEF Maybe
  <2> QED BY <2>1, <2>2
<1>9. RingTypes' /\ RingLocked' /\ Linking'
  <2>1. RingTypes'
    BY <1>0, <1>1, <1>2, <1>7, <1>8 DEF RingTypes
  <2>2. RingLocked'
    BY <1>0, <1>1, <1>2 DEF RingLocked, RingHeld
  <2>3. Round' = members \ {x}
    <3>1. \A u \in Threads : at'[u].pc # "head"
      BY <1>2, <1>3 DEF RingHeld
    <3> QED BY <1>1, <3>1 DEF Round
  <2> QED BY <1>1, <1>8, <2>1, <2>2, <2>3 DEF Linking
<1>10. Selves'
  <2>1. \A u \in Threads : my_thread[u] # None /\ at'[u].pc # "unlinked" =>
          my_thread[u] \in members \ {x} /\ info'[my_thread[u]].tid = u
    <3> TAKE u \in Threads
    <3>1. CASE u = t
      BY <1>2, <3>1
    <3>2. CASE u # t
      <4>1. ASSUME my_thread[u] # None, at'[u].pc # "unlinked"
            PROVE  my_thread[u] \in members /\ info[my_thread[u]].tid = u /\ my_thread[u] # x
        BY <1>0, <1>2, <1>4, <3>2, <4>1 DEF Selves
      <4> QED BY <1>6, <1>7, <4>1, ThreadListAssumption
    <3> QED BY <3>1, <3>2
  <2>2. \A y \in members : info'[y].tid = info[y].tid
    BY <1>6, <1>7, ThreadListAssumption
  <2> QED BY <1>0, <1>1, <2>1, <2>2 DEF Selves
<1>11. ASSUME NEW u \in Threads PROVE LooseApart(u)' /\ Joins(u)' /\ Leaves(u)'
  <2>1. \A v \in Threads : LooseApart(v) /\ Joins(v) /\ Leaves(v)
    BY DEF RingInv
  <2>2. CASE u = t
    <3>1. \A v \in Threads \ {t} : at'[v].pc \in Loose => at'[v].entry # x
      BY <1>2, <1>4, <2>1 DEF LooseApart, Entry
    <3>2. info[x] # None
      BY <1>4, <1>6, ThreadListAssumption
    <3>3. LooseApart(t)'
      BY <1>1, <1>2, <1>4, <1>7, <3>1, <3>2 DEF LooseApart, Entry
    <3>4. Joins(t)' /\ Leaves(t)'
      BY <1>1, <1>2, <1>4 DEF Joins, Joining, Leaves, Leaving, Entry
    <3> QED BY <2>2, <3>3, <3>4
  <2>3. CASE u # t
    <3>0. at'[u] = at[u]
      BY <1>2, <2>3
    <3>1. LooseApart(u)'
      <4>1. at[u].pc \in Loose => Entry(u) # x
        BY <1>4, <2>1 DEF LooseApart
      <4>2. ASSUME at[u].pc \in Loose
            PROVE  \A v \in Threads \ {u} : at'[v].pc \in Loose => at'[v].entry # at[u].entry
        BY <1>2, <2>1, <4>1, <4>2 DEF LooseApart, Entry
      <4> QED BY <1>1, <1>7, <2>1, <3>0, <4>2 DEF LooseApart, Entry
    <3>2. Joins(u)'
      <4>1. at[u].pc \in Joining => at[u].pc \in Loose
        BY DEF Joining, Loose
      <4> QED BY <1>1, <1>7, <2>1, <3>0, <4>1 DEF Joins, LooseApart, Entry
    <3>3. Leaves(u)'
      <4>1. at[u].pc \in Leaving => Entry(u) \in members \ {x}
        BY <1>4, <2>1, <2>3 DEF Leaves
      <4>2. \A v \in Threads : at'[v] = at[v] \/ at'[v].pc \notin Leaving
        BY <1>2 DEF Leaving
      <4> QED BY <1>1, <2>1, <3>0, <4>1, <4>2 DEF Leaves, Entry
    <3> QED BY <3>1, <3>2, <3>3
  <2> QED BY <2>2, <2>3
<1>12. \A y \in members : info[y] # None
  BY <1>6, ThreadListAssumption
<1>13. RingInv'
  BY <1>9, <1>10, <1>11 DEF RingInv
<1> QED BY <1>6, <1>7, <1>12, <1>13

LEMMA UnlinkedKeeps ==
  ASSUME RingInv, NEW t \in Threads, Unlinked(t)
  PROVE  RingInv' /\ my_thread'[t] = None
<1>0. RingTypes /\ RingLocked /\ Linking /\ Selves /\ LooseApart(t) /\ Leaves(t)
  BY DEF RingInv
<1>1. /\ at[t].pc = "unlinked" /\ THREADS_LOCK' = None /\ my_thread' = [my_thread EXCEPT ![t] = None]
      /\ UNCHANGED <<thread_head, info, members>>
  BY DEF Unlinked, At
<1>2. /\ at'[t].pc = "free" /\ at'[t].tid = at[t].tid /\ at'[t].entry = at[t].entry
      /\ \A u \in Threads \ {t} : at'[u] = at[u]
      /\ at' \in [Threads -> [pc : AtPcs, tid : Maybe(Tids), entry : Maybe(Infos)]]
  <2>1. "free" \in AtPcs
    BY DEF AtPcs, Loose
  <2> QED BY <1>0, <2>1, ToIs DEF Unlinked
<1>3. \A u \in Threads \ {t} : at[u].pc \notin RingHeld
  BY <1>1, HeldIs DEF RingHeld
<1>4. my_thread'[t] = None /\ \A u \in Threads \ {t} : my_thread'[u] = my_thread[u]
  BY <1>0, <1>1 DEF RingTypes
<1>5. my_thread[t] \notin members
  BY <1>0, <1>1, ThreadListAssumption DEF Leaves, LooseApart, Loose, RingTypes
<1>6. RingTypes' /\ RingLocked' /\ Linking'
  <2>1. RingTypes'
    BY <1>0, <1>1, <1>2 DEF RingTypes, Maybe
  <2>2. RingLocked'
    BY <1>0, <1>1, <1>2, <1>3, ThreadListAssumption DEF RingLocked, RingHeld, Maybe
  <2>3. Round' = Round
    BY <1>1, <1>2 DEF Round
  <2> QED BY <1>0, <1>1, <2>1, <2>2, <2>3 DEF Linking
<1>7. Selves'
  BY <1>0, <1>1, <1>2, <1>4, <1>5 DEF Selves
<1>8. ASSUME NEW u \in Threads PROVE LooseApart(u)' /\ Joins(u)' /\ Leaves(u)'
  <2>1. LooseApart(u) /\ Joins(u) /\ Leaves(u)
    BY DEF RingInv
  <2>2. \A v \in Threads : at'[v].entry = at[v].entry /\ at'[v].tid = at[v].tid
          /\ (at'[v].pc \in Loose <=> at[v].pc \in Loose) /\ (at'[v].pc \in Joining <=> at[v].pc \in Joining)
          /\ (at'[v].pc \in Leaving <=> at[v].pc \in Leaving) /\ (at'[v].pc = "unlinked" => at[v].pc = "unlinked")
    BY <1>1, <1>2 DEF Loose, Joining, Leaving
  <2>3. LooseApart(u)'
    BY <1>1, <2>1, <2>2 DEF LooseApart, Entry
  <2>4. \A v \in Threads : my_thread'[v] \in {None, my_thread[v]} /\ (my_thread[v] = None => my_thread'[v] = None)
    BY <1>4
  <2>5. Joins(u)'
    BY <1>1, <2>1, <2>2, <2>4 DEF Joins, Entry
  <2>6. Leaves(u)'
    <3>1. Entry(u) \in members => Entry(u) # None
      BY <1>0, ThreadListAssumption DEF RingTypes
    <3> QED BY <1>1, <2>1, <2>2, <2>4, <3>1 DEF Leaves, Entry
  <2> QED BY <2>3, <2>5, <2>6
<1> QED BY <1>4, <1>6, <1>7, <1>8 DEF RingInv

LEMMA FreeKeeps ==
  ASSUME RingInv, NEW t \in Threads, FreeThread(t)
  PROVE  RingInv' /\ \A y \in members : info'[y] = info[y]
<1> DEFINE x == Entry(t)
<1>0. RingTypes /\ RingLocked /\ Linking /\ Selves /\ \A u \in Threads : LooseApart(u) /\ Joins(u) /\ Leaves(u)
  BY DEF RingInv
<1>1. /\ at[t].pc = "free" /\ info' = [info EXCEPT ![x] = None] /\ Found(t, None)
      /\ UNCHANGED <<thread_head, my_thread, THREADS_LOCK, members>>
  BY DEF FreeThread, At
<1>2. /\ at'[t].pc = "done" /\ \A u \in Threads \ {t} : at'[u] = at[u]
      /\ at' \in [Threads -> [pc : AtPcs, tid : Maybe(Tids), entry : Maybe(Infos)]]
  BY <1>0, <1>1, FoundIs DEF Maybe
<1>3. x \in Infos /\ x \notin members /\ \A u \in Threads \ {t} : at[u].pc \in Loose => Entry(u) # x
  BY <1>0, <1>1 DEF LooseApart, Loose
<1>4. info' \in [Infos -> Maybe(ThreadInfo)] /\ \A y \in Infos \ {x} : info'[y] = info[y]
  BY <1>0, <1>1, <1>3 DEF RingTypes, Maybe
<1>5. Round' = Round /\ x \notin Round /\ Round \subseteq Infos
  <2>1. Round' = Round
    BY <1>1, <1>2 DEF Round
  <2>2. x \notin Round
    BY <1>1, <1>3 DEF Round, Entry, Loose
  <2> QED BY <1>0, <2>1, <2>2 DEF Round, RingTypes
<1>6. Cycle(Round, info')
  <2>1. Cycle(Round, info) /\ \A y \in Round : info'[y] = info[y]
    BY <1>0, <1>4, <1>5 DEF Linking
  <2>2. ASSUME NEW S \in SUBSET Round, S # {}, \A y \in S : info'[y].next \in S PROVE S = Round
    <3>1. \A y \in S : info[y].next \in S
      BY <2>1, <2>2
    <3> QED BY <2>1, <2>2, <3>1 DEF Cycle
  <2>3. /\ \A y \in Round : info'[y] # None /\ info'[y].next \in Round
        /\ \A y, z \in Round : info'[y].next = info'[z].next => y = z
    BY <2>1 DEF Cycle
  <2> QED BY <2>2, <2>3 DEF Cycle
<1>7. RingTypes' /\ RingLocked' /\ Linking'
  BY <1>0, <1>1, <1>2, <1>4, <1>5, <1>6 DEF RingTypes, RingLocked, RingHeld, Linking
<1>8. \A y \in members : info'[y] = info[y]
  BY <1>0, <1>3, <1>4 DEF RingTypes
<1>9. Selves'
  BY <1>0, <1>1, <1>2, <1>8 DEF Selves
<1>10. ASSUME NEW u \in Threads PROVE LooseApart(u)' /\ Joins(u)' /\ Leaves(u)'
  <2>1. CASE u = t
    BY <1>2, <2>1 DEF LooseApart, Loose, Joins, Joining, Leaves, Leaving
  <2>2. CASE u # t
    <3>1. at'[u] = at[u] /\ at'[t].pc \notin Loose /\ at'[t].pc \notin Leaving
      BY <1>2, <2>2 DEF Loose, Leaving
    <3>2. LooseApart(u)'
      BY <1>0, <1>1, <1>2, <1>3, <1>4, <2>2, <3>1 DEF LooseApart, Entry
    <3>3. Joins(u)'
      <4>1. at[u].pc \in Joining => at[u].pc \in Loose
        BY DEF Joining, Loose
      <4> QED BY <1>0, <1>1, <1>3, <1>4, <2>2, <3>1, <4>1 DEF Joins, LooseApart, Entry
    <3>4. Leaves(u)'
      BY <1>0, <1>1, <1>2, <3>1 DEF Leaves, Entry
    <3> QED BY <3>2, <3>3, <3>4
  <2> QED BY <2>1, <2>2
<1> QED BY <1>7, <1>8, <1>9, <1>10 DEF RingInv

\* What is left is forgotten when no other thread is there.
LEMMA ForgetKeeps ==
  ASSUME RingInv, NEW t \in Threads, Between(t), \A u \in Threads \ {t} : at[u] = Away /\ my_thread[u] = None,
         thread_head' = None, members' = {}, my_thread' = [my_thread EXCEPT ![t] = None],
         info' = [x \in Infos |-> None], at' = [at EXCEPT ![t] = Away], UNCHANGED THREADS_LOCK
  PROVE  RingInv'
<1>0. RingTypes /\ RingLocked
  BY DEF RingInv
<1>1. /\ \A u \in Threads : at'[u].pc = "idle" /\ my_thread'[u] = None
      /\ at' \in [Threads -> [pc : AtPcs, tid : Maybe(Tids), entry : Maybe(Infos)]]
      /\ my_thread' \in [Threads -> Maybe(Infos)]
  BY <1>0 DEF RingTypes, Away, AtPcs, Maybe
<1>2. RingTypes'
  BY <1>1 DEF RingTypes, Maybe
<1>3. RingLocked'
  BY <1>0, <1>1 DEF RingLocked, RingHeld, Between, Away
<1>4. Linking' /\ Selves'
  BY <1>1 DEF Linking, Selves, Round, Cycle
<1>5. \A u \in Threads : LooseApart(u)' /\ Joins(u)' /\ Leaves(u)'
  BY <1>1 DEF LooseApart, Joins, Leaves, Loose, Joining, Leaving
<1> QED BY <1>2, <1>3, <1>4, <1>5 DEF RingInv

RingEdges ==
  {<<"insert", "link">>, <<"link", "head">>, <<"head", "done">>, <<"lookup", "find">>, <<"find", "done">>,
   <<"remove", "unlink">>, <<"unlink", "unlinked">>, <<"unlinked", "free">>, <<"free", "done">>}

\* What a step of a thread in the ring does, for the call it is part of.
Moves(t) ==
  /\ \A u \in Threads \ {t} : at'[u] = at[u] /\ my_thread'[u] = my_thread[u]
  /\ <<at[t].pc, at'[t].pc>> \in RingEdges /\ at'[t].tid = at[t].tid
  /\ at[t].pc \notin {"head", "find", "free"} => at'[t].entry = at[t].entry
  /\ at[t].pc = "head" /\ at[t].tid = t => my_thread'[t] = at'[t].entry
  /\ at[t].pc = "unlinked" => my_thread'[t] = None
  /\ ~(at[t].pc = "head" /\ at[t].tid = t) /\ at[t].pc # "unlinked" => my_thread'[t] = my_thread[t]
  /\ at[t].pc = "head" => at'[t].entry # None
  /\ at[t].pc = "find" /\ (\E x \in members : info[x].tid = at[t].tid) => at'[t].entry # None
  /\ at[t].pc \in {"head", "find"} /\ at'[t].entry # None =>
       at'[t].entry \in members' /\ info'[at'[t].entry].tid = at[t].tid
  /\ \A x \in members : (x \in members' \/ (at[t].pc = "unlink" /\ x = Entry(t))) /\ info'[x].tid = info[x].tid

LEMMA AtIs ==
  ASSUME RingTypes, NEW t \in Threads, NEW pc, To(t, pc)
  PROVE  /\ at'[t].pc = pc /\ at'[t].tid = at[t].tid /\ at'[t].entry = at[t].entry
         /\ \A u \in Threads \ {t} : at'[u] = at[u]
BY DEF RingTypes, To

LEMMA RingMoves ==
  ASSUME RingInv, NEW t \in Threads, ThreadsGo(t) \/ ThreadsWait(t)
  PROVE  RingInv' /\ Moves(t)
<1>0. RingTypes /\ RingLocked /\ Linking /\ LooseApart(t) /\ Joins(t)
  BY DEF RingInv
<1>1. CASE Link(t)
  <2>1. at[t].pc = "link" /\ UNCHANGED <<my_thread, members>> /\ To(t, "head")
    BY <1>1 DEF Link, At
  <2>2. \A x \in members : info'[x].tid = info[x].tid
    <3>1. \A x \in members : info[x] \in ThreadInfo /\ x \in Infos
      BY <1>0 DEF Linking, Round, Cycle, RingTypes, Maybe
    <3>2. info' = Linked(Entry(t))
      BY <1>1 DEF Link
    <3> QED BY <1>0, <3>1, <3>2 DEF Linked, RingTypes, ThreadInfo, Maybe, Linking
  <2>3. Moves(t)
    BY <1>0, <2>1, <2>2, AtIs DEF Moves, RingEdges
  <2> QED BY <1>1, <2>3, LinkKeeps
<1>2. CASE SetHead(t)
  <2>1. /\ RingInv' /\ at'[t].entry \in members' /\ info'[at'[t].entry].tid = at'[t].tid
        /\ (at[t].tid = t => my_thread'[t] = at'[t].entry)
    BY <1>2, SetHeadKeeps
  <2>2. /\ at[t].pc = "head" /\ members' = members \cup {Entry(t)} /\ UNCHANGED info
        /\ my_thread' = Remembered(t) /\ Found(t, Entry(t))
    BY <1>2 DEF SetHead, At
  <2>3. at'[t].pc = "done" /\ at'[t].tid = at[t].tid /\ \A u \in Threads \ {t} : at'[u] = at[u]
    BY <1>0, <2>2 DEF Found, RingTypes
  <2>4. /\ \A u \in Threads \ {t} : my_thread'[u] = my_thread[u]
        /\ at[t].tid # t => my_thread'[t] = my_thread[t]
    BY <1>0, <2>2 DEF Remembered, RingTypes
  <2>5. at'[t].entry # None
    BY <1>0, <2>1, ThreadListAssumption DEF RingInv, RingTypes
  <2> QED BY <2>1, <2>2, <2>3, <2>4, <2>5 DEF Moves, RingEdges
<1>3. CASE FindThread(t)
  <2>1. /\ RingInv' /\ at'[t].pc = "done" /\ at'[t].tid = at[t].tid
        /\ at'[t].entry # None => at'[t].entry \in members /\ info[at'[t].entry].tid = at[t].tid
        /\ (\E y \in members : info[y].tid = at[t].tid) => at'[t].entry # None
    BY <1>3, FindKeeps
  <2>2. at[t].pc = "find" /\ UNCHANGED <<info, my_thread, members>> /\ \A u \in Threads \ {t} : at'[u] = at[u]
    BY <1>0, <1>3 DEF FindThread, At, Found, RingTypes
  <2> QED BY <2>1, <2>2 DEF Moves, RingEdges
<1>4. CASE Unlink(t)
  <2>1. at[t].pc = "unlink" /\ UNCHANGED my_thread /\ To(t, "unlinked") /\ members' = members \ {Entry(t)}
    BY <1>4 DEF Unlink, At
  <2>2. RingInv' /\ \A x \in members : info'[x].tid = info[x].tid
    BY <1>4, UnlinkKeeps
  <2> QED BY <1>0, <2>1, <2>2, AtIs DEF Moves, RingEdges
<1>5. CASE Unlinked(t)
  <2>1. /\ at[t].pc = "unlinked" /\ my_thread' = [my_thread EXCEPT ![t] = None] /\ To(t, "free")
        /\ UNCHANGED <<info, members>>
    BY <1>5 DEF Unlinked, At
  <2>2. \A u \in Threads \ {t} : my_thread'[u] = my_thread[u]
    BY <1>0, <2>1 DEF RingTypes
  <2> QED BY <1>0, <1>5, <2>1, <2>2, AtIs, UnlinkedKeeps DEF Moves, RingEdges
<1>6. CASE FreeThread(t)
  <2>1. at[t].pc = "free" /\ Found(t, None) /\ UNCHANGED <<my_thread, members>>
    BY <1>6 DEF FreeThread, At
  <2>2. at'[t].pc = "done" /\ at'[t].tid = at[t].tid /\ at'[t].entry = None /\ \A u \in Threads \ {t} : at'[u] = at[u]
    BY <1>0, <2>1 DEF Found, RingTypes
  <2>3. RingInv' /\ \A x \in members : info'[x].tid = info[x].tid
    BY <1>6, FreeKeeps
  <2> QED BY <2>1, <2>2, <2>3 DEF Moves, RingEdges
<1>7. ASSUME NEW pc, NEW then, Acquire(t, pc, then),
             <<pc, then>> \in {<<"insert", "link">>, <<"lookup", "find">>, <<"remove", "unlink">>}
      PROVE  RingInv' /\ Moves(t)
  <2>1. at[t].pc = pc /\ To(t, then) /\ UNCHANGED <<info, my_thread, members>>
    BY <1>7 DEF Acquire, At
  <2>2. RingInv'
    BY <1>7, AcquireKeeps
  <2>3. /\ at'[t].pc = then /\ at'[t].tid = at[t].tid /\ at'[t].entry = at[t].entry
        /\ \A u \in Threads \ {t} : at'[u] = at[u]
    BY <1>0, <2>1, AtIs
  <2>4. <<at[t].pc, at'[t].pc>> \in RingEdges /\ pc \notin {"head", "find", "free", "unlinked", "unlink"}
    BY <1>7, <2>1, <2>3 DEF RingEdges
  <2> QED BY <2>1, <2>2, <2>3, <2>4 DEF Moves
<1>8. CASE ThreadsWait(t)
  <2>1. Acquire(t, "insert", "link") \/ Acquire(t, "lookup", "find") \/ Acquire(t, "remove", "unlink")
    BY <1>8 DEF ThreadsWait
  <2>2. CASE Acquire(t, "insert", "link")
    BY <1>7, <2>2
  <2>3. CASE Acquire(t, "lookup", "find")
    BY <1>7, <2>3
  <2>4. CASE Acquire(t, "remove", "unlink")
    BY <1>7, <2>4
  <2> QED BY <2>1, <2>2, <2>3, <2>4
<1> QED BY <1>1, <1>2, <1>3, <1>4, <1>5, <1>6, <1>8 DEF ThreadsGo

-----------------------------------------------------------------------------
(* The calls.                                                              *)

Making == {"add", "added", "fill", "grown", "cleared"}
Freeing == {"freed", "clear", "swept", "sweep"}
OutOfRing == Leaving \cup {"unlinked", "free", "done"}

Shapes ==
  /\ up \in BOOLEAN
  /\ doing = [t \in Threads |-> doing[t]] /\ op = [t \in Threads |-> op[t]]
  /\ handles = [t \in Threads |-> handles[t]]
  /\ \A t \in Threads :
       /\ doing[t] = [call |-> doing[t].call, stage |-> doing[t].stage, tid |-> doing[t].tid,
                      block |-> doing[t].block, tmp |-> doing[t].tmp, n |-> doing[t].n]
       /\ op[t] = [pc |-> op[t].pc, master |-> op[t].master, block |-> op[t].block, i |-> op[t].i,
                   turn |-> op[t].turn, seen |-> op[t].seen]

\* Where a thread is in the ring and in the table at each stage of a call.
Where(t) ==
  LET c == doing[t].call
      s == doing[t].stage
      a == at[t].pc
      o == op[t].pc
  IN  \/ doing[t] = NoCall /\ at[t] = Away /\ op[t] = Resting
      \/ s = "register" /\ c \in {"register", "create"} /\ a \in Joining \cup {"done"} /\ at[t].tid = t /\ op[t] = Resting
      \/ s = "create" /\ c = "create" /\ a \in {"idle", "done"} /\ o \in Making \cup {"done"}
      \/ s = "lookup" /\ c \in {"destroy", "attach"} /\ at[t] = Away /\ o \in {"load", "done"}
           /\ (c = "attach" => doing[t].tid \in Targets)
      \/ s = "destroy" /\ c = "destroy" /\ at[t] = Away /\ o \in {"freed", "clear", "done"}
      \/ s = "target" /\ c = "attach" /\ a \in {"lookup", "find", "done"} /\ doing[t].tid \in Targets
           /\ at[t].tid = doing[t].tid /\ o = "done"
      \/ s = "made" /\ c = "attach" /\ a \in Joining \cup {"done"} /\ at[t].tid \in Targets /\ o = "done"
      \/ s = "attached" /\ c = "attach" /\ a = "done" /\ o = "done"
      \/ s = "self" /\ c = "unregister" /\ a \in {"lookup", "find", "done"} /\ at[t].tid = AsInt(t) /\ op[t] = Resting
      \/ s = "sweep" /\ c = "unregister" /\ a = "done" /\ o \in {"walk", "look", "swept", "sweep", "done"}
      \/ s = "remove" /\ c = "unregister" /\ a \in OutOfRing /\ o = "done"
      \/ s = "remove" /\ c = "shutdown" /\ a \in OutOfRing /\ op[t] = Resting
      \/ s = "own" /\ c = "shutdown" /\ a \in {"lookup", "find", "done"} /\ at[t].tid = AsInt(t) /\ op[t] = Resting
      \/ s = "each" /\ c = "shutdown" /\ a \in {"idle", "done"} /\ op[t] = Resting
      \/ s = "removing" /\ c = "shutdown" /\ a \in OutOfRing /\ op[t] = Resting
      \/ s = "init" /\ c = "init" /\ a \in Joining \cup {"done"} /\ at[t].tid = t /\ op[t] = Resting

\* What the operations on the ring have found for the call.
Knows(t) ==
  LET s == doing[t].stage
      a == at[t].pc
  IN  /\ s \in {"register", "init"} /\ a = "done" => my_thread[t] = Entry(t)
      /\ s \in {"target", "made", "attached"} /\ a = "done" /\ Entry(t) # None =>
           Entry(t) \in members /\ info[Entry(t)].tid \in Targets
      /\ s = "attached" => Entry(t) # None
      /\ s \in {"self", "own", "sweep"} => my_thread[t] # None
      /\ s \in {"self", "own", "sweep"} /\ a = "done" => Entry(t) = IF t \in Wide THEN None ELSE my_thread[t]
      /\ s = "remove" /\ a \in Leaving \cup {"unlinked"} => my_thread[t] = Entry(t) /\ my_thread[t] # None
      /\ s = "remove" /\ a \in {"free", "done"} => my_thread[t] = None
      /\ doing[t].call \in {"create", "destroy", "attach"} /\ s # "register" => my_thread[t] # None
      /\ handles[t] # {} => my_thread[t] # None /\ s # "remove"
      /\ doing[t].call = "shutdown" => handles[t] = {}

\* The library comes up and goes down with one thread in it.
Alone(t) ==
  LET c == doing[t].call
  IN  /\ c \in {"init", "shutdown"} => \A u \in Threads \ {t} : doing[u] = NoCall
      /\ c = "shutdown" => \A u \in Threads \ {t} : my_thread[u] = None
      /\ c \notin {"none", "init"} => up
      /\ c = "init" => ~up
      /\ doing[t].stage \in {"each", "removing"} => my_thread[t] = None
      /\ ~up /\ my_thread[t] # None => c = "init" /\ at[t].pc = "done" /\ Entry(t) # None

Control(t) == Where(t) /\ Knows(t) /\ Alone(t)
\* The ring and the calls, inductive beside Remaining.
Calls == RingInv /\ Shapes /\ \A t \in Threads : Control(t)

\* What a step of t may do to the others, without an effect on what they know.
Elsewhere(t) ==
  /\ \A u \in Threads \ {t} :
       /\ at'[u] = at[u] /\ op'[u] = op[u] /\ doing'[u] = doing[u]
       /\ my_thread'[u] = my_thread[u] /\ handles'[u] \subseteq handles[u]
  /\ \/ /\ \A u \in Threads \ {t} : doing[u].call \notin {"init", "shutdown"}
        /\ up' = up
        /\ \A x \in members : info[x].tid \in Targets => x \in members' /\ info'[x].tid \in Targets
     \/ \A u \in Threads \ {t} : doing[u] = NoCall /\ my_thread[u] = None
     \/ /\ up' = up
        /\ \A u \in Threads \ {t} : doing[u] = NoCall

LEMMA OthersKeep ==
  ASSUME Calls, NEW t \in Threads, Elsewhere(t), NEW u \in Threads \ {t}
  PROVE  Control(u)'
<1>0. Where(u) /\ Knows(u) /\ Alone(u)
  BY DEF Calls, Control
<1>1. at'[u] = at[u] /\ op'[u] = op[u] /\ doing'[u] = doing[u] /\ my_thread'[u] = my_thread[u]
      /\ handles'[u] \subseteq handles[u]
  BY DEF Elsewhere
<1>2. Where(u)'
  BY <1>0, <1>1 DEF Where
<1>3. CASE doing[u] = NoCall /\ (up' = up \/ my_thread[u] = None)
  <2>1. Knows(u)'
    BY <1>0, <1>1, <1>3 DEF Knows, NoCall
  <2>2. Alone(u)'
    BY <1>0, <1>1, <1>3 DEF Alone, NoCall
  <2> QED BY <1>2, <2>1, <2>2 DEF Control
<1>4. CASE /\ doing[u].call \notin {"init", "shutdown"} /\ up' = up
           /\ \A x \in members : info[x].tid \in Targets => x \in members' /\ info'[x].tid \in Targets
  <2>1. Knows(u)'
    BY <1>0, <1>1, <1>4 DEF Knows, Entry
  <2>2. Alone(u)'
    BY <1>0, <1>1, <1>4 DEF Alone, Entry
  <2> QED BY <1>2, <2>1, <2>2 DEF Control
<1> QED BY <1>3, <1>4 DEF Elsewhere

\* Who is in a call steps beside others, or alone.
LEMMA NotAlone ==
  ASSUME Calls, NEW t \in Threads, doing[t] # NoCall
  PROVE  /\ \A u \in Threads \ {t} : doing[u].call \notin {"init", "shutdown"}
         /\ doing[t].call \in {"init", "shutdown"} => \A u \in Threads \ {t} : doing[u] = NoCall
BY DEF Calls, Control, Alone

-----------------------------------------------------------------------------
(* A step in the ring is a step of the call.                               *)

LEMMA TargetsStay ==
  ASSUME Calls, NEW t \in Threads, Moves(t)
  PROVE  \/ \A x \in members : info[x].tid \in Targets => x \in members' /\ info'[x].tid \in Targets
         \/ doing[t].call = "shutdown"
<1> SUFFICES ASSUME doing[t].call # "shutdown", NEW x \in members, info[x].tid \in Targets
             PROVE  x \in members' /\ info'[x].tid \in Targets
  OBVIOUS
<1>1. CASE at[t].pc = "unlink" /\ x = Entry(t)
  <2>1. doing[t].stage = "remove"
    BY <1>1 DEF Calls, Control, Where, Away, Joining
  <2>2. my_thread[t] = x /\ x # None
    BY <1>1, <2>1 DEF Calls, Control, Knows, Leaving
  <2>3. info[x].tid = t
    BY <1>1, <2>2 DEF Calls, RingInv, Selves
  <2> QED BY <2>3, ThreadListAssumption
<1> QED BY <1>1 DEF Moves

LEMMA RingStepKeeps ==
  ASSUME Calls, NEW t \in Threads, ThreadsGo(t) \/ ThreadsWait(t), UNCHANGED doing, InRing
  PROVE  Calls'
<1>0. RingInv /\ Shapes /\ Where(t) /\ Knows(t) /\ Alone(t)
  BY DEF Calls, Control
<1>1. RingInv' /\ Moves(t)
  BY RingMoves DEF Calls
<1>2. UNCHANGED <<op, handles, up>>
  BY DEF InRing, tablevars
<1>3. Shapes'
  BY <1>0, <1>2 DEF Shapes
<1>4. Where(t)'
  <2>1. /\ at[t].pc \in Joining => at'[t].pc \in Joining \cup {"done"}
        /\ at[t].pc \in {"lookup", "find"} => at'[t].pc \in {"lookup", "find", "done"}
        /\ at[t].pc \in Leaving \cup {"unlinked", "free"} => at'[t].pc \in OutOfRing
        /\ at[t].pc \notin {"idle", "done"} /\ at'[t].tid = at[t].tid
    BY <1>1 DEF Moves, RingEdges, Joining, Leaving, OutOfRing
  <2> HIDE DEF Joining, Leaving
  <2> QED BY <1>0, <1>2, <2>1 DEF Where, OutOfRing, Away
<1>5. doing[t] # NoCall /\ at[t].pc \notin {"idle", "done"}
  <2>1. at[t].pc \notin {"idle", "done"}
    BY <1>1 DEF Moves, RingEdges
  <2>2. at[t] # Away
    BY <2>1 DEF Away
  <2> QED BY <1>0, <2>1, <2>2 DEF Where, NoCall
<1>6. Knows(t)'
  <2>1. doing[t].stage \in {"register", "init"} => at[t].pc \in Joining /\ at[t].tid = t
    BY <1>0, <1>5 DEF Where, NoCall
  <2>2. doing[t].stage \in {"target", "made", "attached"} =>
          doing[t].stage # "attached" /\ at[t].tid \in Targets /\ at[t].pc \in Joining \cup {"lookup", "find"}
    BY <1>0, <1>5 DEF Where, NoCall
  <2>3. doing[t].stage \in {"self", "own", "sweep"} =>
          doing[t].stage # "sweep" /\ at[t].tid = AsInt(t) /\ at[t].pc \in {"lookup", "find"}
    BY <1>0, <1>5 DEF Where, NoCall
  <2>4. doing[t].stage = "remove" => at[t].pc \in OutOfRing \ {"done"}
    BY <1>0, <1>5 DEF Where, NoCall
  <2>5. my_thread[t] # None => my_thread'[t] # None \/ doing[t].stage \in {"remove", "removing"}
    <3>1. at[t].pc = "unlinked" => doing[t].stage \in {"remove", "removing"}
      BY <1>0 DEF Where, NoCall, Away, Joining
    <3> QED BY <1>1, <3>1 DEF Moves
  <2>6. doing[t].stage \in {"register", "init"} /\ at'[t].pc = "done" => my_thread'[t] = at'[t].entry
    BY <1>1, <2>1 DEF Moves, RingEdges, Joining
  <2>7. doing[t].stage \in {"target", "made", "attached"} /\ at'[t].pc = "done" /\ at'[t].entry # None =>
           at'[t].entry \in members' /\ info'[at'[t].entry].tid \in Targets
    BY <1>1, <2>2 DEF Moves, RingEdges, Joining
  <2>8. doing[t].stage \in {"self", "own", "sweep"} => my_thread'[t] # None /\ my_thread'[t] = my_thread[t]
    BY <1>0, <1>1, <2>3 DEF Moves, Knows
  <2>9. doing[t].stage \in {"self", "own", "sweep"} /\ at'[t].pc = "done" =>
          at'[t].entry = IF t \in Wide THEN None ELSE my_thread'[t]
    <3> SUFFICES ASSUME doing[t].stage \in {"self", "own", "sweep"}, at'[t].pc = "done"
                 PROVE  at'[t].entry = IF t \in Wide THEN None ELSE my_thread[t]
      BY <2>8
    <3>1. at[t].pc = "find" /\ at[t].tid = AsInt(t)
      BY <1>1, <2>3 DEF Moves, RingEdges
    <3>2. CASE t \notin Wide
      <4>1. at[t].tid = t
        BY <3>1, <3>2 DEF AsInt
      <4>2. my_thread[t] \in members /\ info[my_thread[t]].tid = t
        BY <1>0, <2>3, <3>1 DEF Knows, RingInv, Selves
      <4>3. at'[t].entry \in members' /\ info'[at'[t].entry].tid = t
        BY <1>1, <3>1, <4>1, <4>2 DEF Moves
      <4>4. my_thread'[t] = at'[t].entry
        BY <1>1, <4>3 DEF RingInv, Selves
      <4> QED BY <2>8, <3>2, <4>4
    <3>3. CASE t \in Wide
      <4>1. at[t].tid = None
        BY <3>1, <3>3 DEF AsInt
      <4>2. ASSUME at'[t].entry # None PROVE FALSE
        <5>1. at'[t].entry \in members' /\ info'[at'[t].entry].tid = None
          BY <1>1, <3>1, <4>1, <4>2 DEF Moves
        <5>2. info'[at'[t].entry] \in ThreadInfo
          BY <1>1, <5>1 DEF RingInv, RingTypes, Linking, Cycle, Round, Maybe
        <5> QED BY <5>1, <5>2, ThreadListAssumption DEF ThreadInfo
      <4> QED BY <3>3, <4>2
    <3> QED BY <3>2, <3>3
  <2>10. doing[t].stage = "remove" =>
           /\ at'[t].pc \in Leaving \cup {"unlinked"} => my_thread'[t] = at'[t].entry /\ my_thread'[t] # None
           /\ at'[t].pc \in {"free", "done"} => my_thread'[t] = None
    BY <1>0, <1>1, <2>4 DEF Knows, Moves, RingEdges, Leaving, OutOfRing, Entry
  <2>11. doing[t].stage = "removing" => handles[t] = {}
    BY <1>0 DEF Knows, Alone
  <2>12. doing[t].call \in {"create", "destroy", "attach"} /\ doing[t].stage # "register" => my_thread'[t] # None
    <3>1. doing[t].call \in {"create", "destroy", "attach"} => doing[t].stage \notin {"remove", "removing"}
      BY <1>0 DEF Where, NoCall
    <3> QED BY <1>0, <2>5, <3>1 DEF Knows
  <2>13. handles[t] # {} => my_thread'[t] # None /\ doing[t].stage # "remove"
    BY <1>0, <2>5, <2>11 DEF Knows
  <2>14. doing[t].call = "shutdown" => handles[t] = {}
    BY <1>0 DEF Knows
  <2> QED BY <1>2, <2>2, <2>6, <2>7, <2>8, <2>9, <2>10, <2>12, <2>13, <2>14 DEF Knows, Entry
<1>7. Alone(t)'
  <2>1. doing[t].call \in {"init", "shutdown"} => \A u \in Threads \ {t} : doing[u] = NoCall
    BY <1>0 DEF Alone
  <2>2. doing[t].stage \in {"each", "removing"} => my_thread'[t] = None
    <3>1. doing[t].stage \in {"each", "removing"} => at[t].pc \in OutOfRing
      BY <1>0, <1>5 DEF Where, NoCall
    <3> QED BY <1>0, <1>1, <3>1 DEF Alone, Moves, OutOfRing, Leaving
  <2>3. ~up /\ my_thread'[t] # None => doing[t].call = "init" /\ at'[t].pc = "done" /\ at'[t].entry # None
    <3> SUFFICES ASSUME ~up, my_thread'[t] # None
                 PROVE  doing[t].call = "init" /\ at'[t].pc = "done" /\ at'[t].entry # None
      OBVIOUS
    <3>1. doing[t].call \in {"none", "init"}
      BY <1>0 DEF Alone
    <3>2. doing[t].call = "init" /\ at[t].pc \in Joining /\ at[t].tid = t
      BY <1>0, <1>5, <3>1 DEF Where, NoCall
    <3>3. my_thread[t] = None
      BY <1>0, <3>2 DEF Alone, Joining
    <3>4. at[t].pc = "head"
      BY <1>1, <3>2, <3>3 DEF Moves, Joining
    <3> QED BY <1>1, <3>2, <3>4 DEF Moves, RingEdges
  <2>4. \A u \in Threads \ {t} : my_thread'[u] = my_thread[u]
    BY <1>1 DEF Moves
  <2> QED BY <1>0, <1>2, <2>1, <2>2, <2>3, <2>4 DEF Alone, Entry
<1>8. Elsewhere(t)
  <2>1. \A u \in Threads \ {t} : doing[u].call \notin {"init", "shutdown"}
    BY <1>5, NotAlone
  <2>2. \A u \in Threads \ {t} : at'[u] = at[u] /\ my_thread'[u] = my_thread[u]
    BY <1>1 DEF Moves
  <2>3. doing[t].call = "shutdown" => \A u \in Threads \ {t} : doing[u] = NoCall
    BY <1>0 DEF Alone
  <2> QED BY <1>1, <1>2, <2>1, <2>2, <2>3, TargetsStay DEF Elsewhere
<1>9. \A u \in Threads \ {t} : Control(u)'
  BY <1>8, OthersKeep
<1> QED BY <1>1, <1>3, <1>4, <1>6, <1>7, <1>9 DEF Calls, Control

-----------------------------------------------------------------------------
(* A step in the table is a step of the call.                              *)

TableEdges ==
  {<<"add", "added">>, <<"added", "fill">>, <<"fill", "done">>, <<"added", "grown">>, <<"added", "done">>,
   <<"grown", "cleared">>, <<"cleared", "added">>, <<"load", "done">>, <<"load", "load">>, <<"freed", "clear">>,
   <<"clear", "done">>, <<"walk", "look">>, <<"walk", "done">>, <<"look", "swept">>, <<"look", "walk">>,
   <<"look", "look">>, <<"swept", "sweep">>, <<"sweep", "walk">>}

OpShape(o) ==
  o = [pc |-> o.pc, master |-> o.master, block |-> o.block, i |-> o.i, turn |-> o.turn, seen |-> o.seen]

\* What a step of a thread in the table does, for the call it is part of.
TableMoves(t) ==
  /\ op' = [u \in Threads |-> op'[u]] /\ handles' = [u \in Threads |-> handles'[u]]
  /\ OpShape(op'[t])
  /\ \A u \in Threads \ {t} : op'[u] = op[u] /\ handles'[u] = handles[u]
  /\ <<op[t].pc, op'[t].pc>> \in TableEdges
  /\ op[t].pc # "fill" => handles'[t] \subseteq handles[t]

LEMMA TableStepMoves ==
  ASSUME Shapes, NEW t \in Threads, TableGo(t) \/ TableWait(t)
  PROVE  TableMoves(t)
<1>0. /\ op = [u \in Threads |-> op[u]] /\ handles = [u \in Threads |-> handles[u]]
      /\ OpShape(op[t])
  BY DEF Shapes, OpShape
<1>1. ASSUME NEW pc, NEW then, Take(t, pc, then), <<pc, then>> \in TableEdges, pc # "fill" PROVE TableMoves(t)
  BY <1>0, <1>1 DEF Take, On, Step, TableMoves, OpShape
<1>2. ASSUME NEW pc, NEW then, Clear(t, pc, then), <<pc, then>> \in TableEdges PROVE TableMoves(t)
  BY <1>0, <1>2 DEF Clear, On, TableMoves, OpShape
<1>3. CASE FindSlot(t)
  BY <1>0, <1>3 DEF FindSlot, On, TableMoves, OpShape, TableEdges
<1>4. CASE Fill(t)
  BY <1>0, <1>4 DEF Fill, On, Step, TableMoves, OpShape, TableEdges
<1>5. CASE Realloc(t)
  <2>1. CASE GiveUp(t)
    BY <1>0, <1>5, <2>1 DEF Realloc, GiveUp, On, TableMoves, OpShape, TableEdges
  <2>2. CASE Step(t, "grown") /\ UNCHANGED handles
    BY <1>0, <1>5, <2>2 DEF Realloc, On, Step, TableMoves, OpShape, TableEdges
  <2> QED BY <1>5, <2>1, <2>2 DEF Realloc
<1>6. CASE SetArray(t)
  BY <1>0, <1>6 DEF SetArray, On, Step, TableMoves, OpShape, TableEdges
<1>7. CASE SetTotal(t)
  BY <1>0, <1>7 DEF SetTotal, On, Step, TableMoves, OpShape, TableEdges
<1>8. CASE Load(t)
  BY <1>0, <1>8 DEF Load, On, TableMoves, OpShape, TableEdges
<1>9. CASE Stray(t)
  BY <1>0, <1>9 DEF Stray, TableMoves, OpShape, TableEdges
<1>10. CASE Visit(t)
  BY <1>0, <1>10 DEF Visit, On, TableMoves, OpShape, TableEdges
<1>11. CASE Look(t)
  <2>1. CASE FreeEventSet(t, Slot(op[t].turn), "swept")
    BY <1>0, <1>11, <2>1 DEF Look, FreeEventSet, On, TableMoves, OpShape, TableEdges
  <2>2. CASE op' = [op EXCEPT ![t].pc = "walk", ![t].turn = @ + 1] /\ UNCHANGED handles
    BY <1>0, <1>11, <2>2 DEF Look, On, TableMoves, OpShape, TableEdges
  <2> QED BY <1>11, <2>1, <2>2 DEF Look
<1>12. CASE TableWait(t)
  <2>1. CASE Take(t, "add", "added")
    BY <1>1, <2>1 DEF TableEdges
  <2>2. CASE Take(t, "freed", "clear")
    BY <1>1, <2>2 DEF TableEdges
  <2>3. CASE Take(t, "swept", "sweep")
    BY <1>1, <2>3 DEF TableEdges
  <2> QED BY <1>12, <2>1, <2>2, <2>3 DEF TableWait
<1>13. CASE Clear(t, "clear", "done")
  BY <1>2, <1>13 DEF TableEdges
<1>14. CASE Clear(t, "sweep", "walk")
  BY <1>2, <1>14 DEF TableEdges
<1> QED
  BY <1>3, <1>4, <1>5, <1>6, <1>7, <1>8, <1>9, <1>10, <1>11, <1>12, <1>13, <1>14 DEF TableGo

\* The table does not touch the ring.
LEMMA RingStays ==
  ASSUME RingInv, UNCHANGED threadvars
  PROVE  RingInv'
<1>1. UNCHANGED <<thread_head, info, THREADS_LOCK, members, my_thread, at>>
  BY DEF threadvars, ring
<1>2. RingTypes' /\ RingLocked' /\ Round' = Round /\ Selves'
  BY <1>1 DEF RingInv, RingTypes, RingLocked, Round, Selves
<1>3. Linking'
  BY <1>1, <1>2 DEF RingInv, Linking
<1>4. \A t \in Threads : LooseApart(t)' /\ Joins(t)' /\ Leaves(t)'
  BY <1>1 DEF RingInv, LooseApart, Joins, Leaves, Entry
<1> QED BY <1>2, <1>3, <1>4 DEF RingInv

LEMMA TableStepKeeps ==
  ASSUME Calls, NEW t \in Threads, TableGo(t) \/ TableWait(t), UNCHANGED doing, InTable
  PROVE  Calls'
<1>0. RingInv /\ Shapes /\ Where(t) /\ Knows(t) /\ Alone(t)
  BY DEF Calls, Control
<1>1. TableMoves(t)
  BY <1>0, TableStepMoves
<1>2. UNCHANGED <<thread_head, info, THREADS_LOCK, members, my_thread, at, doing, up>>
  BY DEF InTable, threadvars, ring
<1>3. RingInv'
  BY <1>0, RingStays DEF InTable
<1>4. Shapes'
  BY <1>0, <1>1, <1>2 DEF Shapes, TableMoves, OpShape
<1>5. doing[t] # NoCall /\ op[t] # Resting /\ op[t].pc \notin {"idle", "done"}
  <2>1. op[t].pc \notin {"idle", "done"}
    BY <1>1 DEF TableMoves, TableEdges
  <2>2. op[t] # Resting
    BY <2>1 DEF Resting
  <2> QED BY <1>0, <2>1, <2>2 DEF Where, NoCall
<1>6. Where(t)'
  BY <1>0, <1>1, <1>2, <1>5 DEF Where, TableMoves, TableEdges, Making
<1>7. Knows(t)'
  <2>1. handles'[t] # {} => my_thread[t] # None /\ doing[t].stage # "remove"
    <3>1. CASE op[t].pc = "fill"
      <4>1. doing[t].stage = "create" /\ doing[t].call = "create"
        BY <1>0, <1>5, <3>1 DEF Where, NoCall
      <4> QED BY <1>0, <4>1 DEF Knows
    <3>2. CASE op[t].pc # "fill"
      BY <1>0, <1>1, <3>2 DEF Knows, TableMoves
    <3> QED BY <3>1, <3>2
  <2>2. doing[t].call = "shutdown" => handles'[t] = {}
    <3>1. doing[t].call = "shutdown" => op[t].pc # "fill"
      BY <1>0, <1>5 DEF Where, NoCall
    <3> QED BY <1>0, <1>1, <3>1 DEF Knows, TableMoves
  <2> QED BY <1>0, <1>2, <2>1, <2>2 DEF Knows, Entry
<1>8. Alone(t)'
  BY <1>0, <1>2 DEF Alone, Entry
<1>9. Elsewhere(t)
  <2>1. \A u \in Threads \ {t} : doing[u].call \notin {"init", "shutdown"}
    BY <1>5, NotAlone
  <2> QED BY <1>1, <1>2, <2>1 DEF Elsewhere, TableMoves
<1>10. \A u \in Threads \ {t} : Control(u)'
  BY <1>9, OthersKeep
<1> QED BY <1>3, <1>4, <1>6, <1>7, <1>8, <1>10 DEF Calls, Control

-----------------------------------------------------------------------------
(* The beginning of a call.                                                *)

LEMMA CallsKeep ==
  ASSUME Calls, NEW t \in Threads, RingInv', Shapes', Where(t)', Knows(t)', Alone(t)', Elsewhere(t)
  PROVE  Calls'
BY OthersKeep DEF Calls, Control

LEMMA IdleIs ==
  ASSUME Calls, NEW t \in Threads, doing[t] = NoCall
  PROVE  /\ at[t] = Away /\ op[t] = Resting /\ Between(t)
         /\ handles[t] # {} => my_thread[t] # None
         /\ my_thread[t] # None => up /\ my_thread[t] \in members /\ info[my_thread[t]].tid = t
<1>1. at[t] = Away /\ op[t] = Resting
  BY DEF Calls, Control, Where, NoCall
<1>2. handles[t] # {} => my_thread[t] # None
  BY DEF Calls, Control, Knows, NoCall
<1>3. my_thread[t] # None => up /\ my_thread[t] \in members /\ info[my_thread[t]].tid = t
  BY <1>1 DEF Calls, Control, Alone, NoCall, RingInv, Selves, Away, RingTypes
<1> QED BY <1>1, <1>2, <1>3 DEF Between, Away

LEMMA AllocateIs ==
  ASSUME RingInv, NEW t \in Threads, NEW tid, Allocate(t, tid)
  PROVE  /\ at'[t].pc \in {"insert", "done"} /\ at'[t].tid = tid /\ (at'[t].pc = "done" => at'[t].entry = None)
         /\ \A u \in Threads \ {t} : at'[u] = at[u]
         /\ UNCHANGED <<my_thread, members>> /\ \A x \in members : info'[x] = info[x]
<1>1. RingTypes /\ \A x \in members : info[x] # None
  BY DEF RingInv, Linking, Cycle, Round
<1> QED BY <1>1 DEF Allocate, RingTypes

LEMMA BeginIs ==
  ASSUME Shapes, NEW t \in Threads, NEW call, NEW stage, Begin(t, call, stage)
  PROVE  /\ doing' = [u \in Threads |-> doing'[u]] /\ \A u \in Threads \ {t} : doing'[u] = doing[u]
         /\ doing'[t] = [call |-> call, stage |-> stage, tid |-> None, block |-> None, tmp |-> None, n |-> 0]
BY DEF Shapes, Begin, NoCall

LEMMA InitKeeps ==
  ASSUME Calls, NEW t \in Threads, Init(t)
  PROVE  Calls'
<1>0. RingInv /\ Shapes
  BY DEF Calls
<1>1. /\ ~up /\ up' = up /\ Allocate(t, t) /\ UNCHANGED <<op, handles>>
      /\ \A u \in Threads : doing[u] = NoCall
  BY DEF Init, MakeTable
<1>2. \A u \in Threads : at[u] = Away /\ op[u] = Resting /\ my_thread[u] = None /\ handles[u] = {} /\ Between(u)
  BY <1>1, IdleIs
<1>3. /\ doing' = [u \in Threads |-> doing'[u]] /\ \A u \in Threads \ {t} : doing'[u] = doing[u]
      /\ doing'[t] = [call |-> "init", stage |-> "init", tid |-> None, block |-> None, tmp |-> None, n |-> 0]
  BY <1>0, BeginIs DEF Init
<1>4. /\ at'[t].pc \in {"insert", "done"} /\ at'[t].tid = t /\ (at'[t].pc = "done" => at'[t].entry = None)
      /\ \A u \in Threads \ {t} : at'[u] = at[u]
      /\ UNCHANGED <<my_thread, members>> /\ \A x \in members : info'[x] = info[x]
  BY <1>0, <1>1, AllocateIs
<1>5. RingInv'
  BY <1>0, <1>1, <1>2, AllocateKeeps DEF Tids
<1>6. Shapes'
  BY <1>0, <1>1, <1>3 DEF Shapes
<1>7. Where(t)'
  BY <1>1, <1>2, <1>3, <1>4 DEF Where, Joining
<1>8. Knows(t)'
  BY <1>1, <1>2, <1>3, <1>4 DEF Knows, Entry
<1>9. Alone(t)'
  BY <1>1, <1>2, <1>3, <1>4 DEF Alone
<1>10. Elsewhere(t)
  BY <1>1, <1>3, <1>4 DEF Elsewhere
<1> QED BY <1>5, <1>6, <1>7, <1>8, <1>9, <1>10, CallsKeep

\* What is so whenever a call may begin.
LEMMA ReadyIs ==
  ASSUME Calls, NEW t \in Threads, Ready(t)
  PROVE  /\ up /\ doing[t] = NoCall /\ at[t] = Away /\ op[t] = Resting /\ Between(t)
         /\ \A u \in Threads : doing[u].call \notin {"init", "shutdown"}
         /\ handles[t] # {} => my_thread[t] # None
         /\ my_thread[t] # None => my_thread[t] \in members /\ info[my_thread[t]].tid = t
BY IdleIs DEF Ready

LEMMA RegisterKeeps ==
  ASSUME Calls, NEW t \in Threads, Register(t)
  PROVE  Calls'
<1>0. RingInv /\ Shapes
  BY DEF Calls
<1>1. my_thread[t] = None /\ Allocate(t, t) /\ UNCHANGED <<op, handles, up>>
  BY DEF Register, InRing, tablevars
<1>2. /\ up /\ op[t] = Resting /\ Between(t) /\ handles[t] = {}
      /\ \A u \in Threads : doing[u].call \notin {"init", "shutdown"}
  BY <1>1, ReadyIs DEF Register
<1>3. PICK call \in {"register", "create"} : Begin(t, call, "register")
  BY DEF Register
<1>4. /\ doing' = [u \in Threads |-> doing'[u]] /\ \A u \in Threads \ {t} : doing'[u] = doing[u]
      /\ doing'[t] = [call |-> call, stage |-> "register", tid |-> None, block |-> None, tmp |-> None, n |-> 0]
  BY <1>0, <1>3, BeginIs
<1>5. /\ at'[t].pc \in {"insert", "done"} /\ at'[t].tid = t /\ (at'[t].pc = "done" => at'[t].entry = None)
      /\ \A u \in Threads \ {t} : at'[u] = at[u]
      /\ UNCHANGED <<my_thread, members>> /\ \A x \in members : info'[x] = info[x]
  BY <1>0, <1>1, AllocateIs
<1>6. RingInv'
  BY <1>0, <1>1, <1>2, AllocateKeeps DEF Tids
<1>7. Shapes'
  BY <1>0, <1>1, <1>4 DEF Shapes
<1>8. Where(t)'
  BY <1>1, <1>2, <1>4, <1>5 DEF Where, Joining
<1>9. Knows(t)'
  BY <1>1, <1>2, <1>4, <1>5 DEF Knows, Entry
<1>10. Alone(t)'
  BY <1>1, <1>2, <1>4, <1>5 DEF Alone
<1>11. Elsewhere(t)
  BY <1>1, <1>2, <1>4, <1>5 DEF Elsewhere
<1> QED BY <1>6, <1>7, <1>8, <1>9, <1>10, <1>11, CallsKeep

LEMMA CreateKeeps ==
  ASSUME Calls, NEW t \in Threads, Create(t)
  PROVE  Calls'
<1>0. RingInv /\ Shapes
  BY DEF Calls
<1>1. /\ my_thread[t] # None /\ NewEventSet(t, my_thread[t]) /\ UNCHANGED <<handles, up>>
      /\ UNCHANGED <<my_thread, members, info, at>>
  BY DEF Create, InTable, NewEventSet, threadvars, ring
<1>2. /\ up /\ at[t] = Away
      /\ \A u \in Threads : doing[u].call \notin {"init", "shutdown"}
  BY ReadyIs DEF Create
<1>3. /\ doing' = [u \in Threads |-> doing'[u]] /\ \A u \in Threads \ {t} : doing'[u] = doing[u]
      /\ doing'[t] = [call |-> "create", stage |-> "create", tid |-> None, block |-> None, tmp |-> None, n |-> 0]
  BY <1>0, BeginIs DEF Create
<1>4. /\ op' = [u \in Threads |-> op'[u]] /\ \A u \in Threads \ {t} : op'[u] = op[u]
      /\ op'[t].pc \in {"add", "done"} /\ OpShape(op'[t])
  BY <1>0, <1>1 DEF NewEventSet, Shapes, OpShape, Resting
<1>5. RingInv'
  BY <1>0, RingStays DEF Create, InTable
<1>6. Shapes'
  BY <1>0, <1>1, <1>3, <1>4 DEF Shapes, OpShape
<1>7. Where(t)'
  BY <1>1, <1>2, <1>3, <1>4 DEF Where, Making, Away
<1>8. Knows(t)'
  BY <1>1, <1>2, <1>3, <1>4 DEF Knows, Entry
<1>9. Alone(t)'
  BY <1>1, <1>2, <1>3, <1>4 DEF Alone
<1>10. Elsewhere(t)
  BY <1>1, <1>2, <1>3, <1>4 DEF Elsewhere
<1> QED BY <1>5, <1>6, <1>7, <1>8, <1>9, <1>10, CallsKeep

LEMMA LooksKeep ==
  ASSUME Calls, NEW t \in Threads, Ready(t), NEW h \in handles[t], LookupEventSet(t, h), NEW tid,
         InTable, NEW call \in {"destroy", "attach"}, call = "attach" => tid \in Targets,
         doing' = [u \in Threads |-> doing'[u]], \A u \in Threads \ {t} : doing'[u] = doing[u],
         doing'[t] = [call |-> call, stage |-> "lookup", tid |-> tid, block |-> None, tmp |-> None, n |-> 0]
  PROVE  Calls'
<1>0. RingInv /\ Shapes
  BY DEF Calls
<1>1. UNCHANGED <<handles, up, my_thread, members, info, at>>
  BY DEF InTable, LookupEventSet, threadvars, ring
<1>2. /\ up /\ at[t] = Away /\ my_thread[t] # None
      /\ \A u \in Threads : doing[u].call \notin {"init", "shutdown"}
  BY ReadyIs
<1>3. /\ doing' = [u \in Threads |-> doing'[u]] /\ \A u \in Threads \ {t} : doing'[u] = doing[u]
      /\ doing'[t] = [call |-> call, stage |-> "lookup", tid |-> tid, block |-> None, tmp |-> None, n |-> 0]
  OBVIOUS
<1>4. /\ op' = [u \in Threads |-> op'[u]] /\ \A u \in Threads \ {t} : op'[u] = op[u]
      /\ op'[t].pc = "load" /\ OpShape(op'[t])
  BY <1>0 DEF LookupEventSet, Shapes, OpShape, Resting
<1>5. RingInv'
  BY <1>0, RingStays DEF InTable
<1>6. Shapes'
  BY <1>0, <1>1, <1>3, <1>4 DEF Shapes, OpShape
<1>7. Where(t)'
  BY <1>1, <1>2, <1>3, <1>4 DEF Where
<1>8. Knows(t)'
  BY <1>1, <1>2, <1>3, <1>4 DEF Knows, Entry
<1>9. Alone(t)'
  BY <1>1, <1>2, <1>3, <1>4 DEF Alone
<1>10. Elsewhere(t)
  BY <1>1, <1>2, <1>3, <1>4 DEF Elsewhere
<1> QED BY <1>5, <1>6, <1>7, <1>8, <1>9, <1>10, CallsKeep

LEMMA DestroyKeeps ==
  ASSUME Calls, NEW t \in Threads, Destroy(t) \/ Attach(t)
  PROVE  Calls'
<1>1. CASE Destroy(t)
  <2>1. PICK h \in handles[t] : LookupEventSet(t, h)
    BY <1>1 DEF Destroy
  <2>2. /\ doing' = [u \in Threads |-> doing'[u]] /\ \A u \in Threads \ {t} : doing'[u] = doing[u]
        /\ doing'[t] = [call |-> "destroy", stage |-> "lookup", tid |-> None, block |-> None, tmp |-> None, n |-> 0]
    BY <1>1, BeginIs DEF Destroy, Calls
  <2>3. Ready(t) /\ InTable
    BY <1>1 DEF Destroy
  <2> QED BY <2>1, <2>2, <2>3, LooksKeep
<1>2. CASE Attach(t)
  <2>1. PICK h \in handles[t], tid \in Targets :
          /\ LookupEventSet(t, h)
          /\ doing' = [doing EXCEPT ![t] = [NoCall EXCEPT !.call = "attach", !.stage = "lookup", !.tid = tid]]
    BY <1>2 DEF Attach
  <2>2. /\ doing' = [u \in Threads |-> doing'[u]] /\ \A u \in Threads \ {t} : doing'[u] = doing[u]
        /\ doing'[t] = [call |-> "attach", stage |-> "lookup", tid |-> tid, block |-> None, tmp |-> None, n |-> 0]
    BY <2>1 DEF Calls, Shapes, NoCall
  <2>3. Ready(t) /\ InTable
    BY <1>2 DEF Attach
  <2> QED BY <2>1, <2>2, <2>3, LooksKeep
<1> QED BY <1>1, <1>2

\* A thread looks itself up in the ring, to leave it.
LEMMA LookupKeeps ==
  ASSUME RingInv, NEW t \in Threads, Between(t), NEW tid \in Tids, LookupThread(t, tid)
  PROVE  /\ RingInv' /\ UNCHANGED <<my_thread, members, info>>
         /\ at'[t].pc = "lookup" /\ at'[t].tid = AsInt(tid) /\ at'[t].entry = None
         /\ \A u \in Threads \ {t} : at'[u] = at[u]
<1>1. RingTypes /\ AsInt(tid) \in Maybe(Tids)
  BY DEF RingInv, Maybe, AsInt
<1> QED BY <1>1, PlaceKeeps DEF LookupThread, ring, RingTypes

LEMMA UnregisterKeeps ==
  ASSUME Calls, NEW t \in Threads, Unregister(t)
  PROVE  Calls'
<1>0. RingInv /\ Shapes
  BY DEF Calls
<1>1. UNCHANGED <<handles, up, op>> /\ my_thread[t] # None
  BY DEF Unregister, InRing, tablevars
<1>2. /\ up /\ op[t] = Resting /\ Between(t)
      /\ \A u \in Threads : doing[u].call \notin {"init", "shutdown"}
  BY ReadyIs DEF Unregister
<1>3. /\ doing' = [u \in Threads |-> doing'[u]] /\ \A u \in Threads \ {t} : doing'[u] = doing[u]
      /\ doing'[t] = [call |-> "unregister", stage |-> "self", tid |-> None, block |-> None, tmp |-> None, n |-> 0]
  BY <1>0, BeginIs DEF Unregister
<1>4. /\ RingInv' /\ UNCHANGED <<my_thread, members, info>>
      /\ at'[t].pc = "lookup" /\ at'[t].tid = AsInt(t) /\ at'[t].entry = None
      /\ \A u \in Threads \ {t} : at'[u] = at[u]
  BY <1>0, <1>2, LookupKeeps DEF Unregister, Tids
<1>5. Shapes'
  BY <1>0, <1>1, <1>3 DEF Shapes
<1>6. Where(t)'
  BY <1>1, <1>2, <1>3, <1>4 DEF Where
<1>7. Knows(t)'
  BY <1>1, <1>2, <1>3, <1>4 DEF Knows, Entry
<1>8. Alone(t)'
  BY <1>1, <1>2, <1>3, <1>4 DEF Alone
<1>9. Elsewhere(t)
  BY <1>1, <1>2, <1>3, <1>4 DEF Elsewhere
<1> QED BY <1>4, <1>5, <1>6, <1>7, <1>8, <1>9, CallsKeep

LEMMA ShutdownKeeps ==
  ASSUME Calls, NEW t \in Threads, Shutdown(t)
  PROVE  Calls'
<1>0. RingInv /\ Shapes
  BY DEF Calls
<1>1. /\ UNCHANGED <<up, op>> /\ handles' = [u \in Threads |-> {}]
      /\ \A u \in Threads \ {t} : doing[u] = NoCall /\ my_thread[u] = None
  BY DEF Shutdown, DropTable, Others
<1>2. up /\ op[t] = Resting /\ at[t] = Away /\ Between(t)
  BY ReadyIs DEF Shutdown
<1>3. CASE my_thread[t] = None /\ Begin(t, "shutdown", "each") /\ UNCHANGED threadvars
  <2>1. /\ doing' = [u \in Threads |-> doing'[u]] /\ \A u \in Threads \ {t} : doing'[u] = doing[u]
        /\ doing'[t] = [call |-> "shutdown", stage |-> "each", tid |-> None, block |-> None, tmp |-> None, n |-> 0]
    BY <1>0, <1>3, BeginIs
  <2>2. RingInv' /\ UNCHANGED <<my_thread, members, info, at>>
    BY <1>0, <1>3, RingStays DEF threadvars, ring
  <2>3. Shapes'
    BY <1>0, <1>1, <2>1 DEF Shapes
  <2>4. Where(t)'
    BY <1>1, <1>2, <2>1, <2>2 DEF Where, Away
  <2>5. Knows(t)'
    BY <1>1, <1>2, <2>1, <2>2 DEF Knows, Entry
  <2>6. Alone(t)'
    BY <1>1, <1>2, <1>3, <2>1, <2>2 DEF Alone
  <2>7. Elsewhere(t)
    BY <1>1, <2>1, <2>2 DEF Elsewhere
  <2> QED BY <2>2, <2>3, <2>4, <2>5, <2>6, <2>7, CallsKeep
<1>4. CASE /\ my_thread[t] # None /\ LookupThread(t, t)
           /\ doing' = [doing EXCEPT ![t] = [NoCall EXCEPT !.call = "shutdown", !.stage = "own", !.tid = t]]
  <2>1. /\ doing' = [u \in Threads |-> doing'[u]] /\ \A u \in Threads \ {t} : doing'[u] = doing[u]
        /\ doing'[t] = [call |-> "shutdown", stage |-> "own", tid |-> t, block |-> None, tmp |-> None, n |-> 0]
    BY <1>0, <1>4 DEF Shapes, NoCall
  <2>2. /\ RingInv' /\ UNCHANGED <<my_thread, members, info>>
        /\ at'[t].pc = "lookup" /\ at'[t].tid = AsInt(t) /\ at'[t].entry = None
        /\ \A u \in Threads \ {t} : at'[u] = at[u]
    BY <1>0, <1>2, <1>4, LookupKeeps DEF Tids
  <2>3. Shapes'
    BY <1>0, <1>1, <2>1 DEF Shapes
  <2>4. Where(t)'
    BY <1>1, <1>2, <2>1, <2>2 DEF Where
  <2>5. Knows(t)'
    BY <1>1, <1>2, <1>4, <2>1, <2>2 DEF Knows, Entry
  <2>6. Alone(t)'
    BY <1>1, <1>2, <2>1, <2>2 DEF Alone
  <2>7. Elsewhere(t)
    BY <1>1, <2>1, <2>2 DEF Elsewhere
  <2> QED BY <2>2, <2>3, <2>4, <2>5, <2>6, <2>7, CallsKeep
<1> QED BY <1>3, <1>4 DEF Shutdown

-----------------------------------------------------------------------------
(* The rest of a call.                                                     *)

LEMMA ThenIs ==
  ASSUME Shapes, NEW t \in Threads, NEW stage, Then(t, stage)
  PROVE  /\ doing' = [u \in Threads |-> doing'[u]] /\ \A u \in Threads \ {t} : doing'[u] = doing[u]
         /\ doing'[t] = [call |-> doing[t].call, stage |-> stage, tid |-> doing[t].tid,
                         block |-> doing[t].block, tmp |-> doing[t].tmp, n |-> doing[t].n]
<1> DEFINE d == doing[t]
           new == [d EXCEPT !.stage = stage]
<1>1. doing = [u \in Threads |-> doing[u]]
  BY DEF Shapes
<1>2. doing' = [doing EXCEPT ![t] = new]
  BY DEF Then
<1>3. d = [call |-> d.call, stage |-> d.stage, tid |-> d.tid, block |-> d.block, tmp |-> d.tmp, n |-> d.n]
  BY Zenon DEF Shapes
<1> HIDE DEF d
<1>4. new = [call |-> d.call, stage |-> stage, tid |-> d.tid, block |-> d.block, tmp |-> d.tmp, n |-> d.n]
  BY <1>3
<1> HIDE DEF new
<1>5. /\ doing' = [u \in Threads |-> doing'[u]] /\ \A u \in Threads \ {t} : doing'[u] = doing[u]
      /\ doing'[t] = new
  BY <1>1, <1>2
<1> QED BY <1>4, <1>5 DEF d

\* The thread is in no call again.
LEMMA LeaveKeeps ==
  ASSUME Calls, NEW t \in Threads, doing[t] # NoCall, doing[t].call \notin {"init", "shutdown"},
         Between(t), my_thread[t] = None => handles'[t] = {},
         doing' = [doing EXCEPT ![t] = NoCall], at' = [at EXCEPT ![t] = Away], op' = [op EXCEPT ![t] = Resting],
         handles' = [u \in Threads |-> handles'[u]],
         \A u \in Threads : handles'[u] \subseteq handles[u], UNCHANGED <<ring, my_thread, up>>
  PROVE  Calls'
<1>0. RingInv /\ Shapes /\ Alone(t) /\ Knows(t) /\ RingTypes
  BY DEF Calls, Control, RingInv
<1>1. UNCHANGED <<info, members>>
  BY DEF ring
<1>2. /\ doing' = [u \in Threads |-> doing'[u]] /\ \A u \in Threads \ {t} : doing'[u] = doing[u]
      /\ op' = [u \in Threads |-> op'[u]] /\ \A u \in Threads \ {t} : op'[u] = op[u]
      /\ \A u \in Threads \ {t} : at'[u] = at[u]
      /\ doing'[t] = NoCall /\ op'[t] = Resting /\ at'[t] = Away
  BY <1>0 DEF Shapes, RingTypes
<1>3. RingInv'
  <2>1. None \in Maybe(Tids)
    BY DEF Maybe
  <2> QED BY <1>0, <2>1, PlaceKeeps DEF Away
<1>4. Shapes'
  BY <1>0, <1>2 DEF Shapes, NoCall, Resting
<1>5. Where(t)'
  BY <1>2 DEF Where
<1>6. Knows(t)'
  BY <1>2 DEF Knows, NoCall
<1>7. Alone(t)'
  <2>1. up
    BY <1>0, NotAlone DEF Alone, Calls, Control, Where, NoCall
  <2> QED BY <1>2, <2>1 DEF Alone, NoCall
<1>8. Elsewhere(t)
  <2>1. \A u \in Threads \ {t} : doing[u].call \notin {"init", "shutdown"}
    BY NotAlone
  <2> QED BY <1>1, <1>2, <2>1 DEF Elsewhere
<1> QED BY <1>3, <1>4, <1>5, <1>6, <1>7, <1>8, CallsKeep

LEMMA ReturnKeeps ==
  ASSUME Calls, NEW t \in Threads, doing[t] # NoCall, doing[t].call \notin {"init", "shutdown"},
         Between(t), Return(t)
  PROVE  Calls'
<1>1. my_thread[t] = None => handles[t] = {}
  BY DEF Calls, Control, Knows
<1>2. handles' = [u \in Threads |-> handles'[u]]
  BY DEF Return, Calls, Shapes
<1> QED BY <1>1, <1>2, LeaveKeeps DEF Return

LEMMA RegisteredKeeps ==
  ASSUME Calls, NEW t \in Threads, Registered(t)
  PROVE  Calls'
<1>0. RingInv /\ Shapes /\ Alone(t) /\ Knows(t) /\ Where(t)
  BY DEF Calls, Control
<1>1. /\ doing[t].stage = "register" /\ at[t].pc = "done" /\ doing[t].call \in {"register", "create"}
      /\ doing[t] # NoCall /\ Between(t) /\ my_thread[t] = Entry(t)
  BY <1>0 DEF Registered, RingDone, Doing, Where, NoCall, Between, Knows
<1>2. CASE Return(t)
  BY <1>1, <1>2, ReturnKeeps
<1>3. CASE /\ doing[t].call = "create" /\ Entry(t) # None
           /\ NewEventSet(t, Entry(t)) /\ Then(t, "create") /\ InTable
  <2>1. UNCHANGED <<handles, up, my_thread, members, info, at>>
    BY <1>3 DEF InTable, NewEventSet, threadvars, ring
  <2>2. /\ doing' = [u \in Threads |-> doing'[u]] /\ \A u \in Threads \ {t} : doing'[u] = doing[u]
        /\ doing'[t] = [call |-> "create", stage |-> "create", tid |-> doing[t].tid,
                        block |-> doing[t].block, tmp |-> doing[t].tmp, n |-> doing[t].n]
    BY <1>0, <1>3, ThenIs
  <2>3. /\ op' = [u \in Threads |-> op'[u]] /\ \A u \in Threads \ {t} : op'[u] = op[u]
        /\ op'[t].pc \in {"add", "done"} /\ OpShape(op'[t])
    BY <1>0, <1>3 DEF NewEventSet, Shapes, OpShape, Resting
  <2>4. RingInv'
    BY <1>0, <1>3, RingStays DEF InTable
  <2>5. Shapes'
    BY <1>0, <2>1, <2>2, <2>3 DEF Shapes, OpShape
  <2>6. Where(t)'
    BY <1>1, <2>1, <2>2, <2>3 DEF Where, Making
  <2>7. Knows(t)'
    BY <1>1, <1>3, <2>1, <2>2, <2>3 DEF Knows, Entry
  <2>8. Alone(t)'
    BY <1>0, <1>3, <2>1, <2>2, <2>3 DEF Alone
  <2>9. Elsewhere(t)
    <3>1. \A u \in Threads \ {t} : doing[u].call \notin {"init", "shutdown"}
      BY <1>1, NotAlone
    <3> QED BY <2>1, <2>2, <2>3, <3>1 DEF Elsewhere
  <2> QED BY <2>4, <2>5, <2>6, <2>7, <2>8, <2>9, CallsKeep
<1> QED BY <1>2, <1>3 DEF Registered

LEMMA CreatedKeeps ==
  ASSUME Calls, NEW t \in Threads, Created(t) \/ Destroyed(t) \/ IsAttached(t)
  PROVE  Calls'
<1>0. Where(t)
  BY DEF Calls, Control
<1>1. /\ doing[t].stage \in {"create", "destroy", "attached"} /\ Return(t)
  BY DEF Created, Destroyed, IsAttached, TableDone, Doing
<1>2. doing[t].call \notin {"init", "shutdown"} /\ doing[t] # NoCall /\ Between(t)
  BY <1>0, <1>1 DEF Where, NoCall, Between, Away
<1> QED BY <1>1, <1>2, ReturnKeeps

LEMMA DoomedKeeps ==
  ASSUME Calls, NEW t \in Threads, Doomed(t)
  PROVE  Calls'
<1>0. RingInv /\ Shapes /\ Alone(t) /\ Knows(t) /\ Where(t)
  BY DEF Calls, Control
<1>1. /\ doing[t].stage = "lookup" /\ doing[t].call = "destroy" /\ at[t] = Away
      /\ doing[t] # NoCall
  BY <1>0 DEF Doomed, TableDone, Doing, Where, NoCall
<1>2. UNCHANGED <<handles, up, my_thread, members, info, at>>
  BY DEF Doomed, InTable, FreeEventSet, threadvars, ring
<1>3. /\ doing' = [u \in Threads |-> doing'[u]] /\ \A u \in Threads \ {t} : doing'[u] = doing[u]
      /\ doing'[t] = [call |-> "destroy", stage |-> "destroy", tid |-> doing[t].tid,
                      block |-> doing[t].block, tmp |-> doing[t].tmp, n |-> doing[t].n]
  BY <1>0, <1>1, ThenIs DEF Doomed
<1>4. /\ op' = [u \in Threads |-> op'[u]] /\ \A u \in Threads \ {t} : op'[u] = op[u]
      /\ op'[t].pc = "freed" /\ OpShape(op'[t])
  <2>1. op' = [op EXCEPT ![t].pc = "freed", ![t].i = esi[op[t].block].index]
    BY DEF Doomed, FreeEventSet
  <2>2. op = [u \in Threads |-> op[u]] /\ OpShape(op[t])
    BY <1>0 DEF Shapes, OpShape
  <2> QED BY <2>1, <2>2 DEF OpShape
<1>5. RingInv'
  BY <1>0, RingStays DEF Doomed, InTable
<1>6. Shapes'
  BY <1>0, <1>2, <1>3, <1>4 DEF Shapes, OpShape
<1>7. Where(t)'
  BY <1>1, <1>2, <1>3, <1>4 DEF Where
<1>8. Knows(t)'
  BY <1>0, <1>1, <1>2, <1>3, <1>4 DEF Knows, Entry
<1>9. Alone(t)'
  BY <1>0, <1>1, <1>2, <1>3, <1>4 DEF Alone
<1>10. Elsewhere(t)
  <2>1. \A u \in Threads \ {t} : doing[u].call \notin {"init", "shutdown"}
    BY <1>1, NotAlone
  <2> QED BY <1>2, <1>3, <1>4, <2>1 DEF Elsewhere
<1> QED BY <1>5, <1>6, <1>7, <1>8, <1>9, <1>10, CallsKeep

LEMMA AttachingKeeps ==
  ASSUME Calls, NEW t \in Threads, Attaching(t)
  PROVE  Calls'
<1>0. RingInv /\ Shapes /\ Alone(t) /\ Knows(t) /\ Where(t)
  BY DEF Calls, Control
<1>1. /\ doing[t].stage = "lookup" /\ doing[t].call = "attach" /\ at[t] = Away /\ op[t].pc = "done"
      /\ doing[t].tid \in Targets /\ doing[t] # NoCall /\ Between(t)
  BY <1>0 DEF Attaching, TableDone, Doing, Where, NoCall, Between, Away
<1>2. CASE Return(t)
  BY <1>1, <1>2, ReturnKeeps
<1>3. CASE /\ LookupThread(t, doing[t].tid)
           /\ doing' = [doing EXCEPT ![t].stage = "target", ![t].block = op[t].block]
           /\ InRing
  <2>1. UNCHANGED <<handles, up, op>>
    BY <1>3 DEF InRing, tablevars
  <2>2. /\ doing' = [u \in Threads |-> doing'[u]] /\ \A u \in Threads \ {t} : doing'[u] = doing[u]
        /\ doing'[t] = [call |-> "attach", stage |-> "target", tid |-> doing[t].tid,
                        block |-> op[t].block, tmp |-> doing[t].tmp, n |-> doing[t].n]
    <3>1. /\ doing = [u \in Threads |-> doing[u]]
          /\ doing[t] = [call |-> doing[t].call, stage |-> doing[t].stage, tid |-> doing[t].tid,
                         block |-> doing[t].block, tmp |-> doing[t].tmp, n |-> doing[t].n]
      BY <1>0 DEF Shapes
    <3>2. doing' = [doing EXCEPT ![t].stage = "target", ![t].block = op[t].block]
      BY <1>3
    <3> QED BY <1>1, <3>1, <3>2
  <2>3. /\ RingInv' /\ UNCHANGED <<my_thread, members, info>>
        /\ at'[t].pc = "lookup" /\ at'[t].tid = doing[t].tid /\ at'[t].entry = None
        /\ \A u \in Threads \ {t} : at'[u] = at[u]
    <3>1. doing[t].tid \in Tids /\ AsInt(doing[t].tid) = doing[t].tid
      BY <1>1, ThreadListAssumption DEF Tids, AsInt
    <3> QED BY <1>0, <1>1, <1>3, <3>1, LookupKeeps
  <2>4. Shapes'
    BY <1>0, <2>1, <2>2 DEF Shapes
  <2>5. Where(t)'
    BY <1>1, <2>1, <2>2, <2>3 DEF Where
  <2>6. Knows(t)'
    BY <1>0, <1>1, <2>1, <2>2, <2>3 DEF Knows, Entry
  <2>7. Alone(t)'
    BY <1>0, <1>1, <2>1, <2>2, <2>3 DEF Alone
  <2>8. Elsewhere(t)
    <3>1. \A u \in Threads \ {t} : doing[u].call \notin {"init", "shutdown"}
      BY <1>1, NotAlone
    <3> QED BY <2>1, <2>2, <2>3, <3>1 DEF Elsewhere
  <2> QED BY <2>3, <2>4, <2>5, <2>6, <2>7, <2>8, CallsKeep
<1> QED BY <1>2, <1>3 DEF Attaching

\* The EventSet gets the ThreadInfo that was found or made for its master.
LEMMA AttachedKeeps ==
  ASSUME Calls, NEW t \in Threads, doing[t].stage \in {"target", "made"}, at[t].pc = "done", Entry(t) # None,
         Attached(t, doing[t].block, Entry(t)), Then(t, "attached"), InTable
  PROVE  Calls'
<1>0. RingInv /\ Shapes /\ Alone(t) /\ Knows(t) /\ Where(t)
  BY DEF Calls, Control
<1>1. doing[t].call = "attach" /\ op[t].pc = "done" /\ doing[t] # NoCall
  BY <1>0 DEF Where, NoCall
<1>2. UNCHANGED <<handles, up, op, my_thread, members, info, at>>
  BY DEF InTable, Attached, threadvars, ring
<1>3. /\ doing' = [u \in Threads |-> doing'[u]] /\ \A u \in Threads \ {t} : doing'[u] = doing[u]
      /\ doing'[t] = [call |-> "attach", stage |-> "attached", tid |-> doing[t].tid,
                      block |-> doing[t].block, tmp |-> doing[t].tmp, n |-> doing[t].n]
  BY <1>0, <1>1, ThenIs
<1>4. RingInv'
  BY <1>0, RingStays DEF InTable
<1>5. Shapes'
  BY <1>0, <1>2, <1>3 DEF Shapes
<1>6. Where(t)'
  BY <1>1, <1>2, <1>3 DEF Where
<1>7. Knows(t)'
  BY <1>0, <1>1, <1>2, <1>3 DEF Knows, Entry
<1>8. Alone(t)'
  BY <1>0, <1>1, <1>2, <1>3 DEF Alone
<1>9. Elsewhere(t)
  <2>1. \A u \in Threads \ {t} : doing[u].call \notin {"init", "shutdown"}
    BY <1>1, NotAlone
  <2> QED BY <1>2, <1>3, <2>1 DEF Elsewhere
<1> QED BY <1>4, <1>5, <1>6, <1>7, <1>8, <1>9, CallsKeep

LEMMA TargetKeeps ==
  ASSUME Calls, NEW t \in Threads, Target(t)
  PROVE  Calls'
<1>0. RingInv /\ Shapes /\ Alone(t) /\ Knows(t) /\ Where(t)
  BY DEF Calls, Control
<1>1. /\ doing[t].stage = "target" /\ doing[t].call = "attach" /\ at[t].pc = "done" /\ op[t].pc = "done"
      /\ doing[t].tid \in Targets /\ doing[t] # NoCall /\ Between(t)
  BY <1>0 DEF Target, RingDone, Doing, Where, NoCall, Between
<1>2. CASE /\ Entry(t) # None
           /\ Attached(t, doing[t].block, Entry(t)) /\ Then(t, "attached") /\ InTable
  BY <1>1, <1>2, AttachedKeeps
<1>3. CASE Allocate(t, doing[t].tid) /\ Then(t, "made") /\ InRing
  <2>1. UNCHANGED <<handles, up, op>>
    BY <1>3 DEF InRing, tablevars
  <2>2. /\ doing' = [u \in Threads |-> doing'[u]] /\ \A u \in Threads \ {t} : doing'[u] = doing[u]
        /\ doing'[t] = [call |-> "attach", stage |-> "made", tid |-> doing[t].tid,
                        block |-> doing[t].block, tmp |-> doing[t].tmp, n |-> doing[t].n]
    BY <1>0, <1>1, <1>3, ThenIs
  <2>3. /\ at'[t].pc \in {"insert", "done"} /\ at'[t].tid = doing[t].tid /\ (at'[t].pc = "done" => at'[t].entry = None)
        /\ \A u \in Threads \ {t} : at'[u] = at[u]
        /\ UNCHANGED <<my_thread, members>> /\ \A x \in members : info'[x] = info[x]
    BY <1>0, <1>3, AllocateIs
  <2>4. RingInv'
    BY <1>0, <1>1, <1>3, AllocateKeeps DEF Tids
  <2>5. Shapes'
    BY <1>0, <2>1, <2>2 DEF Shapes
  <2>6. Where(t)'
    BY <1>1, <2>1, <2>2, <2>3 DEF Where, Joining
  <2>7. Knows(t)'
    BY <1>0, <1>1, <2>1, <2>2, <2>3 DEF Knows, Entry
  <2>8. Alone(t)'
    BY <1>0, <1>1, <2>1, <2>2, <2>3 DEF Alone
  <2>9. Elsewhere(t)
    <3>1. \A u \in Threads \ {t} : doing[u].call \notin {"init", "shutdown"}
      BY <1>1, NotAlone
    <3> QED BY <2>1, <2>2, <2>3, <3>1 DEF Elsewhere
  <2> QED BY <2>4, <2>5, <2>6, <2>7, <2>8, <2>9, CallsKeep
<1> QED BY <1>2, <1>3 DEF Target

LEMMA MadeKeeps ==
  ASSUME Calls, NEW t \in Threads, Made(t)
  PROVE  Calls'
<1>0. Where(t)
  BY DEF Calls, Control
<1>1. /\ doing[t].stage = "made" /\ doing[t].call = "attach" /\ at[t].pc = "done"
      /\ doing[t] # NoCall /\ Between(t)
  BY <1>0 DEF Made, RingDone, Doing, Where, NoCall, Between
<1>2. CASE Return(t)
  BY <1>1, <1>2, ReturnKeeps
<1>3. CASE /\ Entry(t) # None
           /\ Attached(t, doing[t].block, Entry(t)) /\ Then(t, "attached") /\ InTable
  BY <1>1, <1>3, AttachedKeeps
<1> QED BY <1>2, <1>3 DEF Made

LEMMA SweepKeeps ==
  ASSUME Calls, NEW t \in Threads, Sweep(t)
  PROVE  Calls'
<1>0. RingInv /\ Shapes /\ Alone(t) /\ Knows(t) /\ Where(t)
  BY DEF Calls, Control
<1>1. /\ doing[t].stage = "self" /\ doing[t].call = "unregister" /\ at[t].pc = "done" /\ doing[t] # NoCall
  BY <1>0 DEF Sweep, RingDone, Doing, Where, NoCall
<1>2. UNCHANGED <<handles, up, my_thread, members, info, at>>
  BY DEF Sweep, InTable, WalkTable, threadvars, ring
<1>3. /\ doing' = [u \in Threads |-> doing'[u]] /\ \A u \in Threads \ {t} : doing'[u] = doing[u]
      /\ doing'[t] = [call |-> "unregister", stage |-> "sweep", tid |-> doing[t].tid,
                      block |-> doing[t].block, tmp |-> doing[t].tmp, n |-> doing[t].n]
  BY <1>0, <1>1, ThenIs DEF Sweep
<1>4. /\ op' = [u \in Threads |-> op'[u]] /\ \A u \in Threads \ {t} : op'[u] = op[u]
      /\ op'[t].pc = "walk" /\ OpShape(op'[t])
  <2>1. op' = [op EXCEPT ![t] = [Resting EXCEPT !.pc = "walk", !.master = Entry(t)]]
    BY DEF Sweep, WalkTable
  <2>2. op = [u \in Threads |-> op[u]]
    BY <1>0 DEF Shapes
  <2> QED BY <2>1, <2>2 DEF OpShape, Resting
<1>5. RingInv'
  BY <1>0, RingStays DEF Sweep, InTable
<1>6. Shapes'
  BY <1>0, <1>2, <1>3, <1>4 DEF Shapes, OpShape
<1>7. Where(t)'
  BY <1>1, <1>2, <1>3, <1>4 DEF Where
<1>8. Knows(t)'
  BY <1>0, <1>1, <1>2, <1>3, <1>4 DEF Knows, Entry
<1>9. Alone(t)'
  BY <1>0, <1>1, <1>2, <1>3, <1>4 DEF Alone
<1>10. Elsewhere(t)
  <2>1. \A u \in Threads \ {t} : doing[u].call \notin {"init", "shutdown"}
    BY <1>1, NotAlone
  <2> QED BY <1>2, <1>3, <1>4, <2>1 DEF Elsewhere
<1> QED BY <1>5, <1>6, <1>7, <1>8, <1>9, <1>10, CallsKeep

\* A thread takes itself out of the ring: it is there, and nobody else does it.
LEMMA OwnKeeps ==
  ASSUME RingInv, NEW t \in Threads, Between(t), my_thread[t] # None, RemoveThread(t, my_thread[t])
  PROVE  /\ RingInv' /\ UNCHANGED <<my_thread, members, info>>
         /\ at'[t].pc = "remove" /\ at'[t].entry = my_thread[t]
         /\ \A u \in Threads \ {t} : at'[u] = at[u]
<1>1. my_thread[t] \in members /\ info[my_thread[t]].tid = t
  BY DEF RingInv, Selves, Between
<1>2. ASSUME NEW u \in Threads \ {t}
      PROVE  my_thread[u] # my_thread[t] /\ (at[u].pc \in Leaving => Entry(u) # my_thread[t])
  <2>1. my_thread[u] # my_thread[t]
    <3>1. CASE at[u].pc = "unlinked"
      BY <1>1, <3>1, ThreadListAssumption DEF RingInv, Leaves, LooseApart, Loose, RingTypes
    <3>2. CASE at[u].pc # "unlinked"
      BY <1>1, <3>2 DEF RingInv, Selves
    <3> QED BY <3>1, <3>2
  <2>2. at[u].pc \in Leaving => Entry(u) # my_thread[t]
    BY DEF RingInv, Leaves
  <2> QED BY <2>1, <2>2
<1>3. RingInv'
  BY <1>1, <1>2, RemoveKeeps
<1>4. at \in [Threads -> [pc : AtPcs, tid : Maybe(Tids), entry : Maybe(Infos)]]
  BY DEF RingInv, RingTypes
<1> QED BY <1>3, <1>4 DEF RemoveThread, ring

LEMMA SweptKeeps ==
  ASSUME Calls, NEW t \in Threads, Swept(t) \/ ShutOwn(t)
  PROVE  Calls'
<1>0. RingInv /\ Shapes /\ Alone(t) /\ Knows(t) /\ Where(t)
  BY DEF Calls, Control
<1>1. /\ doing[t].stage \in {"sweep", "own"} /\ at[t].pc = "done" /\ doing[t] # NoCall
      /\ doing[t].call \in {"unregister", "shutdown"}
      /\ IF doing[t].call = "unregister" THEN op[t].pc = "done" ELSE op[t] = Resting
      /\ Between(t) /\ my_thread[t] # None
  BY <1>0 DEF Swept, ShutOwn, RingDone, TableDone, Doing, Where, NoCall, Between, Knows
<1>2. UNCHANGED <<up, op>> /\ RemoveThread(t, my_thread[t]) /\ Then(t, "remove")
  BY DEF Swept, ShutOwn, InRing, tablevars
<1>10. /\ handles' = [u \in Threads |-> handles'[u]] /\ handles'[t] = {}
       /\ \A u \in Threads \ {t} : handles'[u] = handles[u]
  <2>1. handles = [u \in Threads |-> handles[u]]
    BY <1>0 DEF Shapes
  <2>2. CASE Swept(t)
    BY <2>1, <2>2 DEF Swept
  <2>3. CASE ShutOwn(t)
    <3>1. doing[t].stage = "own" /\ UNCHANGED handles
      BY <2>3 DEF ShutOwn, RingDone, Doing, InRing, tablevars
    <3>2. doing[t].call = "shutdown"
      BY <1>0, <3>1 DEF Where, NoCall
    <3> QED BY <1>0, <2>1, <3>1, <3>2 DEF Knows
  <2> QED BY <2>2, <2>3
<1>3. /\ doing' = [u \in Threads |-> doing'[u]] /\ \A u \in Threads \ {t} : doing'[u] = doing[u]
      /\ doing'[t] = [call |-> doing[t].call, stage |-> "remove", tid |-> doing[t].tid,
                      block |-> doing[t].block, tmp |-> doing[t].tmp, n |-> doing[t].n]
  BY <1>0, <1>2, ThenIs
<1>4. /\ RingInv' /\ UNCHANGED <<my_thread, members, info>>
      /\ at'[t].pc = "remove" /\ at'[t].entry = my_thread[t]
      /\ \A u \in Threads \ {t} : at'[u] = at[u]
  BY <1>0, <1>1, <1>2, OwnKeeps
<1>5. Shapes'
  BY <1>0, <1>2, <1>3, <1>10 DEF Shapes
<1>6. Where(t)'
  BY <1>1, <1>2, <1>3, <1>4 DEF Where, OutOfRing, Leaving
<1>7. Knows(t)'
  BY <1>1, <1>3, <1>4, <1>10 DEF Knows, Entry, Leaving
<1>8. Alone(t)'
  <2>1. \A u \in Threads \ {t} : doing'[u] = doing[u] /\ my_thread'[u] = my_thread[u]
    BY <1>3, <1>4
  <2> QED BY <1>0, <1>1, <1>2, <1>3, <1>4, <2>1 DEF Alone
<1>9. Elsewhere(t)
  <2>1. \A u \in Threads \ {t} : doing[u].call \notin {"init", "shutdown"}
    BY <1>1, NotAlone
  <2> QED BY <1>2, <1>3, <1>4, <1>10, <2>1 DEF Elsewhere
<1> QED BY <1>4, <1>5, <1>6, <1>7, <1>8, <1>9, CallsKeep

LEMMA GoneKeeps ==
  ASSUME Calls, NEW t \in Threads, Gone(t)
  PROVE  Calls'
<1>1. /\ doing[t].call = "unregister" /\ doing[t] # NoCall /\ Between(t)
  BY DEF Gone, RingDone, NoCall, Between
<1> QED BY <1>1, ReturnKeeps DEF Gone

LEMMA CountKeeps ==
  ASSUME Calls, NEW t \in Threads, Count(t)
  PROVE  Calls'
<1>0. RingInv /\ Shapes /\ Alone(t) /\ Knows(t) /\ Where(t)
  BY DEF Calls, Control
<1>1. /\ doing[t].stage = "remove" /\ doing[t].call = "shutdown" /\ at[t].pc = "done" /\ doing[t] # NoCall
      /\ op[t] = Resting /\ my_thread[t] = None
  BY <1>0 DEF Count, RingDone, Doing, Where, NoCall, Knows
<1>2. UNCHANGED <<handles, up, op, my_thread, members, info, at>>
  BY DEF Count, InRing, tablevars, threadvars, ring
<1>3. /\ doing' = [u \in Threads |-> doing'[u]] /\ \A u \in Threads \ {t} : doing'[u] = doing[u]
      /\ doing'[t] = [call |-> "shutdown", stage |-> "each", tid |-> doing[t].tid,
                      block |-> doing[t].block, tmp |-> thread_head, n |-> Cardinality(Reached)]
  <2>1. /\ doing = [u \in Threads |-> doing[u]]
        /\ doing[t] = [call |-> doing[t].call, stage |-> doing[t].stage, tid |-> doing[t].tid,
                       block |-> doing[t].block, tmp |-> doing[t].tmp, n |-> doing[t].n]
    BY <1>0 DEF Shapes
  <2>2. doing' = [doing EXCEPT ![t].stage = "each", ![t].tmp = thread_head, ![t].n = Cardinality(Reached)]
    BY DEF Count
  <2> HIDE DEF Reached
  <2> QED BY <1>1, <2>1, <2>2
<1>4. RingInv'
  BY <1>0, RingStays DEF Count
<1>5. Shapes'
  BY <1>0, <1>2, <1>3 DEF Shapes
<1>6. Where(t)'
  BY <1>1, <1>2, <1>3 DEF Where
<1>7. Knows(t)'
  BY <1>0, <1>1, <1>2, <1>3 DEF Knows, Entry
<1>8. Alone(t)'
  <2>1. \A u \in Threads \ {t} : doing'[u] = doing[u]
    BY <1>3
  <2> QED BY <1>0, <1>1, <1>2, <1>3, <2>1 DEF Alone
<1>9. Elsewhere(t)
  <2>1. \A u \in Threads \ {t} : doing[u].call \notin {"init", "shutdown"}
    BY <1>1, NotAlone
  <2>2. \A u \in Threads \ {t} : doing[u] = NoCall
    BY <1>0, <1>1 DEF Alone
  <2> QED BY <1>2, <1>3, <2>1, <2>2 DEF Elsewhere
<1> QED BY <1>4, <1>5, <1>6, <1>7, <1>8, <1>9, CallsKeep

LEMMA EachKeeps ==
  ASSUME Calls, NEW t \in Threads, Each(t), doing[t].tmp \in members
  PROVE  Calls'
<1> DEFINE x == doing[t].tmp
           mine == info[x].allocator_tid = t
<1>0. RingInv /\ Shapes /\ Alone(t) /\ Knows(t) /\ Where(t)
  BY DEF Calls, Control
<1>1. /\ doing[t].stage = "each" /\ doing[t].call = "shutdown" /\ doing[t] # NoCall
      /\ op[t] = Resting /\ my_thread[t] = None /\ at[t].pc \in {"idle", "done"} /\ Between(t)
      /\ \A u \in Threads \ {t} : doing[u] = NoCall /\ my_thread[u] = None
  BY <1>0 DEF Each, Doing, Where, NoCall, Alone, Between
<1>2. UNCHANGED <<handles, up, op>>
  BY DEF Each, InRing, tablevars
<1>3. /\ doing' = [u \in Threads |-> doing'[u]] /\ \A u \in Threads \ {t} : doing'[u] = doing[u]
      /\ doing'[t] = [call |-> "shutdown", stage |-> IF mine THEN "removing" ELSE "each", tid |-> doing[t].tid,
                      block |-> doing[t].block, tmp |-> info[x].next, n |-> doing[t].n - 1]
  <2>1. /\ doing = [u \in Threads |-> doing[u]]
        /\ doing[t] = [call |-> doing[t].call, stage |-> doing[t].stage, tid |-> doing[t].tid,
                       block |-> doing[t].block, tmp |-> doing[t].tmp, n |-> doing[t].n]
    BY <1>0 DEF Shapes
  <2>2. doing' = [doing EXCEPT ![t].tmp = info[x].next, ![t].n = @ - 1,
                                ![t].stage = IF mine THEN "removing" ELSE "each"]
    BY DEF Each
  <2> QED BY <1>1, <2>1, <2>2
<1>4. /\ RingInv' /\ UNCHANGED <<my_thread, members, info>> /\ \A u \in Threads \ {t} : at'[u] = at[u]
      /\ IF mine THEN at'[t].pc = "remove" ELSE at'[t] = at[t]
  <2>1. CASE mine
    <3>1. RemoveThread(t, x)
      BY <2>1 DEF Each
    <3>2. \A u \in Threads \ {t} : my_thread[u] # x /\ at[u].pc \notin Leaving
      <4>1. \A u \in Threads \ {t} : at[u] = Away
        BY <1>1, IdleIs
      <4>2. x # None
        BY <1>0, ThreadListAssumption DEF RingInv, RingTypes
      <4> QED BY <1>1, <4>1, <4>2 DEF Away, Leaving
    <3>3. RingInv'
      BY <1>0, <1>1, <3>1, <3>2, RemoveKeeps
    <3>4. at \in [Threads -> [pc : AtPcs, tid : Maybe(Tids), entry : Maybe(Infos)]]
      BY <1>0 DEF RingInv, RingTypes
    <3> QED BY <2>1, <3>1, <3>3, <3>4 DEF RemoveThread, ring
  <2>2. CASE ~mine
    <3>1. UNCHANGED threadvars
      BY <2>2 DEF Each
    <3> QED BY <1>0, <2>2, <3>1, RingStays DEF threadvars, ring
  <2> QED BY <2>1, <2>2
<1> HIDE DEF mine
<1>5. Shapes'
  BY <1>0, <1>2, <1>3 DEF Shapes
<1>6. Where(t)'
  BY <1>1, <1>2, <1>3, <1>4 DEF Where, OutOfRing, Leaving
<1>7. Knows(t)'
  BY <1>0, <1>1, <1>2, <1>3, <1>4 DEF Knows, Entry
<1>8. Alone(t)'
  <2>1. \A u \in Threads \ {t} : doing'[u] = doing[u]
    BY <1>3
  <2> QED BY <1>0, <1>1, <1>2, <1>3, <1>4, <2>1 DEF Alone
<1>9. Elsewhere(t)
  BY <1>1, <1>2, <1>3, <1>4 DEF Elsewhere
<1> QED BY <1>4, <1>5, <1>6, <1>7, <1>8, <1>9, CallsKeep

LEMMA RemovedKeeps ==
  ASSUME Calls, NEW t \in Threads, Removed(t)
  PROVE  Calls'
<1>0. RingInv /\ Shapes /\ Alone(t) /\ Knows(t) /\ Where(t)
  BY DEF Calls, Control
<1>1. /\ doing[t].stage = "removing" /\ doing[t].call = "shutdown" /\ at[t].pc = "done" /\ doing[t] # NoCall
      /\ op[t] = Resting /\ my_thread[t] = None
  BY <1>0 DEF Removed, RingDone, Doing, Where, NoCall, Alone
<1>2. UNCHANGED <<handles, up, op, my_thread, members, info, at>>
  BY DEF Removed, InRing, tablevars, threadvars, ring
<1>3. /\ doing' = [u \in Threads |-> doing'[u]] /\ \A u \in Threads \ {t} : doing'[u] = doing[u]
      /\ doing'[t] = [call |-> "shutdown", stage |-> "each", tid |-> doing[t].tid,
                      block |-> doing[t].block, tmp |-> doing[t].tmp, n |-> doing[t].n]
  BY <1>0, <1>1, ThenIs DEF Removed
<1>4. RingInv'
  BY <1>0, RingStays DEF Removed
<1>5. Shapes'
  BY <1>0, <1>2, <1>3 DEF Shapes
<1>6. Where(t)'
  BY <1>1, <1>2, <1>3 DEF Where
<1>7. Knows(t)'
  BY <1>0, <1>1, <1>2, <1>3 DEF Knows, Entry
<1>8. Alone(t)'
  <2>1. \A u \in Threads \ {t} : doing'[u] = doing[u]
    BY <1>3
  <2> QED BY <1>0, <1>1, <1>2, <1>3, <2>1 DEF Alone
<1>9. Elsewhere(t)
  <2>1. \A u \in Threads \ {t} : doing[u] = NoCall
    BY <1>0, <1>1 DEF Alone
  <2> QED BY <1>2, <1>3, <2>1 DEF Elsewhere
<1> QED BY <1>4, <1>5, <1>6, <1>7, <1>8, <1>9, CallsKeep

LEMMA DownKeeps ==
  ASSUME Calls, NEW t \in Threads, Down(t)
  PROVE  Calls'
<1>0. RingInv /\ Shapes /\ Alone(t) /\ Knows(t) /\ Where(t) /\ RingTypes
  BY DEF Calls, Control, RingInv
<1>1. /\ doing[t].stage = "each" /\ doing[t].call = "shutdown" /\ doing[t] # NoCall
      /\ op[t] = Resting /\ my_thread[t] = None /\ Between(t)
      /\ \A u \in Threads \ {t} : doing[u] = NoCall /\ my_thread[u] = None
  BY <1>0 DEF Down, Doing, Where, NoCall, Alone, Between
<1>2. /\ UNCHANGED <<handles, op>> /\ up' = FALSE /\ doing' = [doing EXCEPT ![t] = NoCall]
      /\ at' = [at EXCEPT ![t] = Away] /\ my_thread' = [my_thread EXCEPT ![t] = None]
  BY DEF Down
<1>3. /\ doing' = [u \in Threads |-> doing'[u]] /\ \A u \in Threads \ {t} : doing'[u] = doing[u]
      /\ doing'[t] = NoCall /\ at'[t] = Away /\ my_thread'[t] = None
      /\ \A u \in Threads \ {t} : at'[u] = at[u] /\ my_thread'[u] = my_thread[u]
  BY <1>0, <1>2 DEF Shapes, RingTypes
<1>4. RingInv'
  <2>1. \A u \in Threads \ {t} : at[u] = Away /\ my_thread[u] = None
    BY <1>1, IdleIs
  <2> QED BY <1>0, <1>1, <2>1, ForgetKeeps DEF Down
<1>5. Shapes'
  BY <1>0, <1>2, <1>3 DEF Shapes, NoCall
<1>6. Where(t)'
  BY <1>1, <1>2, <1>3 DEF Where
<1>7. Knows(t)'
  BY <1>0, <1>1, <1>2, <1>3 DEF Knows, Entry, NoCall
<1>8. Alone(t)'
  BY <1>1, <1>2, <1>3 DEF Alone, NoCall
<1>9. Elsewhere(t)
  BY <1>1, <1>2, <1>3 DEF Elsewhere
<1> QED BY <1>4, <1>5, <1>6, <1>7, <1>8, <1>9, CallsKeep

LEMMA UpKeeps ==
  ASSUME Calls, NEW t \in Threads, Up(t)
  PROVE  Calls'
<1>0. RingInv /\ Shapes /\ Alone(t) /\ Knows(t) /\ Where(t) /\ RingTypes
  BY DEF Calls, Control, RingInv
<1>1. /\ doing[t].stage = "init" /\ doing[t].call = "init" /\ doing[t] # NoCall /\ ~up
      /\ op[t] = Resting /\ my_thread[t] = Entry(t) /\ Between(t)
      /\ \A u \in Threads \ {t} : doing[u] = NoCall /\ my_thread[u] = None
  <2>1. /\ doing[t].stage = "init" /\ at[t].pc = "done" /\ Between(t)
    BY DEF Up, RingDone, Doing, Between
  <2>2. /\ doing[t].call = "init" /\ op[t] = Resting /\ doing[t] # NoCall /\ ~up /\ my_thread[t] = Entry(t)
    BY <1>0, <2>1 DEF Where, NoCall, Alone, Knows
  <2>3. \A u \in Threads \ {t} : doing[u] = NoCall
    BY <1>0, <2>2 DEF Alone
  <2> QED BY <2>1, <2>2, <2>3, IdleIs
<1>2. /\ UNCHANGED <<handles, op, my_thread, members, info>> /\ up' = (Entry(t) # None)
      /\ doing' = [doing EXCEPT ![t] = NoCall] /\ at' = [at EXCEPT ![t] = Away]
  BY DEF Up, tablevars, ring
<1>3. /\ doing' = [u \in Threads |-> doing'[u]] /\ \A u \in Threads \ {t} : doing'[u] = doing[u]
      /\ doing'[t] = NoCall /\ at'[t] = Away
      /\ \A u \in Threads \ {t} : at'[u] = at[u]
  BY <1>0, <1>2 DEF Shapes, RingTypes
<1>4. RingInv'
  <2>1. None \in Maybe(Tids)
    BY DEF Maybe
  <2>2. UNCHANGED <<ring, my_thread>>
    BY DEF Up
  <2> QED BY <1>0, <1>1, <1>2, <2>1, <2>2, PlaceKeeps DEF Away
<1>5. Shapes'
  BY <1>0, <1>2, <1>3 DEF Shapes, NoCall
<1>6. Where(t)'
  BY <1>1, <1>2, <1>3 DEF Where
<1>7. Knows(t)'
  BY <1>0, <1>1, <1>2, <1>3 DEF Knows, Entry, NoCall
<1>8. Alone(t)'
  BY <1>1, <1>2, <1>3 DEF Alone, NoCall
<1>9. Elsewhere(t)
  BY <1>1, <1>2, <1>3 DEF Elsewhere
<1> QED BY <1>4, <1>5, <1>6, <1>7, <1>8, <1>9, CallsKeep

-----------------------------------------------------------------------------
(* The loop of PAPI_shutdown over what is left in the ring.                *)

\* What the loop takes out now.
Pending(t) == IF doing[t].stage = "removing" /\ at[t].pc \in Leaving THEN {Entry(t)} ELSE {}

\* U is what the loop has not come to: as many as are counted, the next one
\* among them, each of the others after another of them. It has taken out what
\* t made of the rest.
Rest(t, U) ==
  /\ U \in SUBSET (members \ Pending(t)) /\ Cardinality(U) = doing[t].n
  /\ U # {} => doing[t].tmp \in U
  /\ \A y \in members : info[y].next \in U \ {doing[t].tmp} => y \in U
  /\ \A x \in Pending(t) : U # {} => doing[t].tmp = info[x].next
  /\ doing[t].tid = t => \A y \in members \ (U \cup Pending(t)) : info[y].allocator_tid # t

Remaining(t) == doing[t].stage \in {"each", "removing"} => \E U : Rest(t, U)

LEMMA PartIs ==
  ASSUME RingInv, NEW U \in SUBSET members
  PROVE  IsFiniteSet(U) /\ Cardinality(U) \in Nat /\ (Cardinality(U) = 0 <=> U = {})
<1>1. IsFiniteSet(U)
  BY FS_Subset, ThreadListAssumption DEF RingInv, RingTypes
<1> QED BY <1>1, FS_CardinalityType, FS_EmptySet

\* The loop has come to the end of the ring, or goes on to what it has not come to.
LEMMA NextIsLeft ==
  ASSUME NEW M, NEW inf, Cycle(M, inf), NEW U \in SUBSET M, NEW x \in U,
         \A y \in M : inf[y].next \in U \ {x} => y \in U, U \ {x} # {}
  PROVE  inf[x].next \in U \ {x}
<1> SUFFICES ASSUME inf[x].next \notin U \ {x} PROVE FALSE
  OBVIOUS
<1> DEFINE S == M \ (U \ {x})
<1>1. S \in SUBSET M /\ x \in S /\ S # M
  OBVIOUS
<1>2. ASSUME NEW y \in S PROVE inf[y].next \in S
  BY <1>2 DEF Cycle
<1> HIDE DEF S
<1> QED BY <1>1, <1>2 DEF Cycle

LEMMA CountRemains ==
  ASSUME Calls, NEW t \in Threads, Count(t)
  PROVE  Remaining(t)'
<1>0. RingInv /\ Shapes /\ Where(t) /\ Alone(t)
  BY DEF Calls, Control
<1>1. /\ UNCHANGED <<info, members, at>> /\ doing[t].stage = "remove" /\ doing[t].call = "shutdown"
      /\ at[t].pc = "done"
  BY DEF Count, threadvars, ring, RingDone, Doing
<1>2. /\ doing'[t].stage = "each" /\ doing'[t].tmp = thread_head /\ doing'[t].n = Cardinality(Reached)
  <2>1. /\ doing = [u \in Threads |-> doing[u]]
        /\ doing[t] = [call |-> doing[t].call, stage |-> doing[t].stage, tid |-> doing[t].tid,
                       block |-> doing[t].block, tmp |-> doing[t].tmp, n |-> doing[t].n]
    BY <1>0 DEF Shapes
  <2>2. doing' = [doing EXCEPT ![t].stage = "each", ![t].tmp = thread_head, ![t].n = Cardinality(Reached)]
    BY DEF Count
  <2> QED BY <2>1, <2>2
<1>3. Reached = members /\ (members # {} => thread_head \in members)
  <2>1. \A u \in Threads : at[u].pc # "head"
    <3>1. \A u \in Threads \ {t} : at[u] = Away
      BY <1>0, <1>1, IdleIs DEF Alone
    <3> QED BY <1>1, <3>1 DEF Away
  <2>2. Round = members
    BY <1>0, <2>1, RoundIs DEF RingInv
  <2>3. CASE thread_head = None
    BY <1>0, <2>3 DEF RingInv, Linking, Reached, Walk
  <2>4. CASE thread_head # None
    BY <1>0, <2>2, <2>4, WalkIs DEF RingInv, RingTypes, Linking
  <2> QED BY <2>3, <2>4
<1>4. Rest(t, members)'
  BY <1>1, <1>2, <1>3 DEF Rest, Pending, Leaving
<1> QED BY <1>4 DEF Remaining

LEMMA EachRemains ==
  ASSUME Calls, NEW t \in Threads, Each(t), Remaining(t)
  PROVE  Remaining(t)' /\ doing[t].tmp \in members
<1> DEFINE x == doing[t].tmp
           mine == info[x].allocator_tid = t
<1>0. RingInv /\ Shapes /\ Where(t) /\ Alone(t)
  BY DEF Calls, Control
<1>1. /\ doing[t].stage = "each" /\ doing[t].call = "shutdown" /\ doing[t].n > 0 /\ at[t].pc \in {"idle", "done"}
  BY <1>0 DEF Each, Doing, Where, NoCall
<1>2. PICK U : Rest(t, U)
  BY <1>1 DEF Remaining
<1>3. Pending(t) = {} /\ U \in SUBSET members
  BY <1>1, <1>2 DEF Pending, Rest
<1>4. x \in U /\ x \in members
  <2>1. U # {}
    BY <1>0, <1>1, <1>2, <1>3, PartIs DEF Rest
  <2> QED BY <1>2, <1>3, <2>1 DEF Rest
<1>5. /\ doing'[t].stage = (IF mine THEN "removing" ELSE "each") /\ doing'[t].tid = doing[t].tid
      /\ doing'[t].tmp = info[x].next /\ doing'[t].n = doing[t].n - 1
  <2>1. /\ doing = [u \in Threads |-> doing[u]]
        /\ doing[t] = [call |-> doing[t].call, stage |-> doing[t].stage, tid |-> doing[t].tid,
                       block |-> doing[t].block, tmp |-> doing[t].tmp, n |-> doing[t].n]
    BY <1>0 DEF Shapes
  <2>2. doing' = [doing EXCEPT ![t].tmp = info[x].next, ![t].n = @ - 1,
                                ![t].stage = IF mine THEN "removing" ELSE "each"]
    BY DEF Each
  <2> QED BY <2>1, <2>2
<1>6. /\ UNCHANGED <<info, members>>
      /\ IF mine THEN at'[t].pc = "remove" /\ at'[t].entry = x ELSE at'[t] = at[t]
  <2>1. at = [u \in Threads |-> at[u]]
    BY <1>0 DEF RingInv, RingTypes
  <2>2. CASE mine
    BY <2>1, <2>2 DEF Each, RemoveThread, ring
  <2>3. CASE ~mine
    BY <2>3 DEF Each, threadvars, ring
  <2> QED BY <2>2, <2>3
<1>7. Pending(t)' = IF mine THEN {x} ELSE {}
  BY <1>5, <1>6 DEF Pending, Leaving, Entry
<1>8. PICK V : V = U \ {x}
  OBVIOUS
<1>9. V # {} => info[x].next \in V
  <2>1. Cycle(members, info)
    <3>1. \A u \in Threads : at[u].pc # "head"
      <4>1. \A u \in Threads \ {t} : at[u] = Away
        BY <1>0, <1>1, IdleIs DEF Alone
      <4> QED BY <1>1, <4>1 DEF Away
    <3>2. Round = members
      BY <1>0, <3>1, RoundIs DEF RingInv
    <3> QED BY <1>0, <3>2 DEF RingInv, Linking
  <2>2. \A y \in members : info[y].next \in U \ {x} => y \in U
    BY <1>2 DEF Rest
  <2> HIDE DEF x
  <2> QED BY <1>3, <1>4, <1>8, <2>1, <2>2, NextIsLeft
<1>10. Cardinality(V) = doing[t].n - 1
  <2>1. IsFiniteSet(U) /\ Cardinality(U) = doing[t].n
    BY <1>0, <1>2, <1>3, PartIs DEF Rest
  <2> HIDE DEF x
  <2> QED BY <1>4, <1>8, <2>1, FS_RemoveElement
<1>11. Rest(t, V)'
  <2> HIDE DEF mine
  <2>1. V \in SUBSET (members' \ Pending(t)') /\ Cardinality(V) = doing'[t].n
    BY <1>3, <1>5, <1>6, <1>7, <1>10, <1>8
  <2>2. V # {} => doing'[t].tmp \in V
    BY <1>5, <1>9
  <2>3. \A y \in members' : info'[y].next \in V \ {doing'[t].tmp} => y \in V
    BY <1>2, <1>5, <1>6, <1>8 DEF Rest
  <2>4. \A y \in Pending(t)' : V # {} => doing'[t].tmp = info'[y].next
    BY <1>5, <1>6, <1>7
  <2>5. doing'[t].tid = t => \A y \in members' \ (V \cup Pending(t)') : info'[y].allocator_tid # t
    BY <1>2, <1>3, <1>5, <1>6, <1>7, <1>8 DEF Rest, mine
  <2> QED BY <2>1, <2>2, <2>3, <2>4, <2>5 DEF Rest
<1> QED BY <1>4, <1>11 DEF Remaining

LEMMA RingRemains ==
  ASSUME Calls, NEW t \in Threads, ThreadsGo(t) \/ ThreadsWait(t), UNCHANGED doing, Remaining(t)
  PROVE  Remaining(t)'
<1> SUFFICES ASSUME doing[t].stage \in {"each", "removing"} PROVE \E U : Rest(t, U)'
  BY DEF Remaining
<1>0. RingInv /\ Shapes /\ Where(t) /\ Alone(t) /\ Moves(t)
  BY RingMoves DEF Calls, Control
<1>1. /\ doing[t].stage = "removing" /\ at[t].pc \in Leaving \cup {"unlinked", "free"}
  BY <1>0 DEF Where, NoCall, Moves, RingEdges, OutOfRing
<1>2. PICK U : Rest(t, U)
  BY DEF Remaining
<1>3. CASE at[t].pc # "unlink"
  <2>1. /\ members' = members /\ \A y \in members : info'[y] = info[y]
    <3>1. CASE at[t].pc = "remove"
      BY <3>1 DEF ThreadsGo, ThreadsWait, Acquire, Link, SetHead, FindThread, Unlink, Unlinked, FreeThread, At
    <3>2. CASE at[t].pc = "unlinked"
      BY <3>2 DEF ThreadsGo, ThreadsWait, Acquire, Link, SetHead, FindThread, Unlink, Unlinked, FreeThread, At
    <3>3. CASE at[t].pc = "free"
      <4>1. FreeThread(t)
        BY <3>3 DEF ThreadsGo, ThreadsWait, Acquire, Link, SetHead, FindThread, Unlink, Unlinked, At
      <4> QED BY <1>0, <4>1, FreeKeeps DEF FreeThread
    <3> QED BY <1>1, <1>3, <3>1, <3>2, <3>3 DEF Leaving
  <2>2. Pending(t)' = Pending(t)
    BY <1>0, <1>1, <1>3 DEF Pending, Moves, RingEdges, Leaving, Entry
  <2>3. Pending(t) \subseteq members
    BY <1>0 DEF Pending, RingInv, Leaves
  <2>4. Rest(t, U)'
    BY <1>2, <2>1, <2>2, <2>3 DEF Rest
  <2> QED BY <2>4
<1>4. CASE at[t].pc = "unlink"
  <2> DEFINE x == Entry(t)
  <2>1. Unlink(t)
    BY <1>4 DEF ThreadsGo, ThreadsWait, Acquire, Link, SetHead, FindThread, Unlinked, FreeThread, At
  <2>2. Pending(t) = {x} /\ Pending(t)' = {}
    BY <1>0, <1>1, <1>4 DEF Pending, Moves, RingEdges, Leaving
  <2>3. \A y \in members : info'[y].allocator_tid = info[y].allocator_tid
    BY <1>0, <2>1, UnlinkKeeps
  <2>4. /\ members' = members \ {x}
        /\ Reached = members /\ x \in members
    BY <1>0, <1>4, <2>1, HeldIs DEF Unlink, RingHeld
  <2>5. PICK prev \in members :
          /\ info[prev].next = x
          /\ info' = IF prev = x THEN [info EXCEPT ![x].next = None]
                     ELSE [info EXCEPT ![prev].next = info[x].next]
    BY <2>1, <2>4 DEF Unlink
  <2>6. \A y \in members : y \in Infos /\ info[y] \in ThreadInfo
    <3>1. \A y \in members : info[y] # None
      BY <1>0 DEF RingInv, Linking, Round, Cycle
    <3> QED BY <1>0, <3>1 DEF RingInv, RingTypes, Maybe
  <2>7. \A y \in members \ {x, prev} : info'[y].next = info[y].next
    BY <1>0, <2>5, <2>6 DEF RingInv, RingTypes
  <2>8. prev # x => info'[prev].next = info[x].next
    BY <1>0, <2>5, <2>6 DEF RingInv, RingTypes, ThreadInfo
  <2>9. U # {} => doing[t].tmp = info[x].next
    BY <1>2, <2>2 DEF Rest
  <2>10. \A y \in members' : info'[y].next \in U \ {doing[t].tmp} => y \in U
    <3> TAKE y \in members'
    <3>1. CASE y = prev
      BY <2>4, <2>8, <2>9, <3>1
    <3>2. CASE y # prev
      BY <1>2, <2>4, <2>7, <3>2 DEF Rest
    <3> QED BY <3>1, <3>2
  <2>11. Rest(t, U)'
    BY <1>2, <2>2, <2>3, <2>4, <2>10 DEF Rest
  <2> QED BY <2>11
<1> QED BY <1>3, <1>4

-----------------------------------------------------------------------------
(* All calls.                                                              *)

Moving(t) == Call(t) \/ GoOn(t) \/ Wait(t)

LEMMA DoingElse ==
  ASSUME Shapes, NEW t \in Threads, Moving(t)
  PROVE  \A u \in Threads \ {t} : doing'[u] = doing[u]
<1>1. CASE Call(t)
  BY <1>1 DEF Call, Init, Register, Create, Destroy, Attach, Unregister, Shutdown, Begin, Shapes
<1>2. CASE UNCHANGED doing
  BY <1>2
<1>3. CASE Registered(t) \/ Created(t) \/ Doomed(t) \/ Destroyed(t) \/ Attaching(t)
  BY <1>3 DEF Registered, Created, Doomed, Destroyed, Attaching, Then, Return, Shapes
<1>4. CASE Target(t) \/ Made(t) \/ IsAttached(t) \/ Sweep(t) \/ Swept(t) \/ Gone(t)
  BY <1>4 DEF Target, Made, IsAttached, Sweep, Swept, Gone, Then, Return, Shapes
<1>5. CASE ShutOwn(t) \/ Count(t) \/ Each(t) \/ Removed(t) \/ Down(t) \/ Up(t)
  BY <1>5 DEF ShutOwn, Count, Each, Removed, Down, Up, Then, Shapes
<1> QED BY <1>1, <1>2, <1>3, <1>4, <1>5 DEF Moving, GoOn, Wait

LEMMA StepKeeps ==
  ASSUME Calls, NEW t \in Threads, Remaining(t), Moving(t)
  PROVE  Calls'
<1>1. CASE Call(t)
  BY <1>1, InitKeeps, RegisterKeeps, CreateKeeps, DestroyKeeps, UnregisterKeeps, ShutdownKeeps DEF Call
<1>2. CASE (ThreadsGo(t) \/ ThreadsWait(t)) /\ UNCHANGED doing /\ InRing
  BY <1>2, RingStepKeeps
<1>3. CASE (TableGo(t) \/ TableWait(t)) /\ UNCHANGED doing /\ InTable
  BY <1>3, TableStepKeeps
<1>4. CASE Registered(t) \/ Created(t) \/ Doomed(t) \/ Destroyed(t)
  BY <1>4, RegisteredKeeps, CreatedKeeps, DoomedKeeps
<1>5. CASE Attaching(t) \/ Target(t) \/ Made(t) \/ IsAttached(t)
  BY <1>5, AttachingKeeps, TargetKeeps, MadeKeeps, CreatedKeeps
<1>6. CASE Sweep(t) \/ Swept(t) \/ Gone(t) \/ ShutOwn(t)
  BY <1>6, SweepKeeps, SweptKeeps, GoneKeeps
<1>7. CASE Each(t)
  BY <1>7, EachRemains, EachKeeps
<1>8. CASE Count(t) \/ Removed(t) \/ Down(t) \/ Up(t)
  BY <1>8, CountKeeps, RemovedKeeps, DownKeeps, UpKeeps
<1> QED BY <1>1, <1>2, <1>3, <1>4, <1>5, <1>6, <1>7, <1>8 DEF Moving, GoOn, Wait

\* The stage that each step leads to.
LEMMA StageIs ==
  ASSUME Shapes, NEW t \in Threads, Moving(t), doing'[t].stage \in {"each", "removing"}
  PROVE  \/ (ThreadsGo(t) \/ ThreadsWait(t)) /\ UNCHANGED doing
         \/ UNCHANGED threadvars /\ UNCHANGED doing
         \/ Count(t) \/ Each(t) \/ Removed(t)
         \/ Shutdown(t) /\ doing'[t].n = 0 /\ doing'[t].tid = None /\ doing'[t].stage = "each"
              /\ my_thread[t] = None /\ UNCHANGED threadvars
<1>0. /\ \A d : doing' = [doing EXCEPT ![t] = d] => doing'[t] = d
      /\ NoCall.stage = "none"
      /\ \A stage : Then(t, stage) => doing'[t].stage = stage
      /\ \A call, stage : Begin(t, call, stage) => doing'[t].stage = stage
  <2>1. \A d : doing' = [doing EXCEPT ![t] = d] => doing'[t] = d
    BY DEF Shapes
  <2>2. ASSUME NEW stage, Then(t, stage) PROVE doing'[t].stage = stage
    <3>1. doing'[t] = [call |-> doing[t].call, stage |-> stage, tid |-> doing[t].tid,
                       block |-> doing[t].block, tmp |-> doing[t].tmp, n |-> doing[t].n]
      BY <2>2, ThenIs
    <3> QED BY <3>1
  <2>3. ASSUME NEW call, NEW stage, Begin(t, call, stage) PROVE doing'[t].stage = stage
    <3>1. doing'[t] = [call |-> call, stage |-> stage, tid |-> None, block |-> None, tmp |-> None, n |-> 0]
      BY <2>3, BeginIs
    <3> QED BY <3>1
  <2> QED BY <2>1, <2>2, <2>3 DEF NoCall
<1>1. CASE Call(t)
  <2>1. CASE Init(t) \/ Register(t) \/ Create(t) \/ Destroy(t) \/ Unregister(t)
    BY <1>0, <2>1 DEF Init, Register, Create, Destroy, Unregister
  <2>2. CASE Attach(t)
    <3>1. PICK tid : doing' = [doing EXCEPT ![t] = [NoCall EXCEPT !.call = "attach", !.stage = "lookup", !.tid = tid]]
      BY <2>2 DEF Attach
    <3>2. doing'[t].stage = "lookup"
      BY <3>1 DEF Shapes, NoCall
    <3> QED BY <3>2
  <2>3. CASE Shutdown(t)
    <3>1. CASE my_thread[t] = None /\ Begin(t, "shutdown", "each") /\ UNCHANGED threadvars
      <4>1. doing'[t] = [call |-> "shutdown", stage |-> "each", tid |-> None, block |-> None, tmp |-> None, n |-> 0]
        BY <3>1, BeginIs
      <4> QED BY <2>3, <3>1, <4>1
    <3>2. CASE doing' = [doing EXCEPT ![t] = [NoCall EXCEPT !.call = "shutdown", !.stage = "own", !.tid = t]]
      <4>1. doing'[t].stage = "own"
        BY <3>2 DEF Shapes, NoCall
      <4> QED BY <4>1
    <3> QED BY <2>3, <3>1, <3>2 DEF Shutdown
  <2> QED BY <1>1, <2>1, <2>2, <2>3 DEF Call
<1>2. CASE \/ (ThreadsGo(t) \/ ThreadsWait(t)) /\ UNCHANGED doing
           \/ (TableGo(t) \/ TableWait(t)) /\ UNCHANGED doing /\ InTable
  BY <1>2 DEF InTable
<1>3. CASE Registered(t) \/ Created(t) \/ Doomed(t) \/ Destroyed(t)
  BY <1>0, <1>3 DEF Registered, Created, Doomed, Destroyed, Return
<1>4. CASE Attaching(t)
  <2>1. CASE doing' = [doing EXCEPT ![t].stage = "target", ![t].block = op[t].block]
    <3>1. doing = [u \in Threads |-> doing[u]]
          /\ doing[t] = [call |-> doing[t].call, stage |-> doing[t].stage, tid |-> doing[t].tid,
                         block |-> doing[t].block, tmp |-> doing[t].tmp, n |-> doing[t].n]
      BY DEF Shapes
    <3>2. doing'[t].stage = "target"
      BY <2>1, <3>1
    <3> QED BY <3>2
  <2>2. CASE Return(t)
    BY <1>0, <2>2 DEF Return
  <2> QED BY <1>4, <2>1, <2>2 DEF Attaching
<1>5. CASE Target(t) \/ Made(t) \/ IsAttached(t)
  BY <1>0, <1>5 DEF Target, Made, IsAttached, Return
<1>6. CASE Sweep(t) \/ Swept(t) \/ Gone(t) \/ ShutOwn(t) \/ Down(t) \/ Up(t)
  BY <1>0, <1>6 DEF Sweep, Swept, Gone, Return, ShutOwn, Down, Up
<1> QED BY <1>1, <1>2, <1>3, <1>4, <1>5, <1>6 DEF Moving, GoOn, Wait

LEMMA StepRemains ==
  ASSUME Calls, NEW t \in Threads, Moving(t), Remaining(t)
  PROVE  \A u \in Threads : Remaining(u)'
<1>0. Shapes /\ Calls'
  BY StepKeeps DEF Calls
<1>1. ASSUME doing'[t].stage \in {"each", "removing"} PROVE Remaining(t)'
  <2>1. CASE (ThreadsGo(t) \/ ThreadsWait(t)) /\ UNCHANGED doing
    BY <2>1, RingRemains
  <2>2. CASE UNCHANGED <<threadvars, doing>>
    BY <2>2 DEF Remaining, Rest, Pending, Entry, threadvars, ring
  <2>3. CASE Count(t)
    BY <2>3, CountRemains
  <2>4. CASE Each(t)
    BY <2>4, EachRemains
  <2>5. CASE Removed(t)
    <3>1. doing[t].stage = "removing" /\ at[t].pc = "done" /\ UNCHANGED <<info, members, at>>
      BY <2>5 DEF Removed, RingDone, Doing, threadvars, ring
    <3>2. /\ doing'[t].n = doing[t].n /\ doing'[t].tmp = doing[t].tmp /\ doing'[t].tid = doing[t].tid
          /\ doing'[t].stage = "each"
      <4>1. Then(t, "each")
        BY <2>5 DEF Removed
      <4>2. doing'[t] = [call |-> doing[t].call, stage |-> "each", tid |-> doing[t].tid,
                         block |-> doing[t].block, tmp |-> doing[t].tmp, n |-> doing[t].n]
        BY <1>0, <4>1, ThenIs
      <4> QED BY <4>2
    <3>3. Pending(t) = {} /\ Pending(t)' = {}
      BY <3>1, <3>2 DEF Pending, Leaving
    <3>4. PICK U : Rest(t, U)
      BY <3>1 DEF Remaining
    <3>5. Rest(t, U)'
      BY <3>1, <3>2, <3>3, <3>4 DEF Rest
    <3> QED BY <3>5 DEF Remaining
  <2>6. CASE /\ Shutdown(t) /\ doing'[t].n = 0 /\ doing'[t].tid = None /\ doing'[t].stage = "each"
             /\ UNCHANGED threadvars
    <3>1. Pending(t)' = {} /\ Cardinality({}) = 0
      BY <2>6, FS_EmptySet DEF Pending
    <3>2. Rest(t, {})'
      BY <2>6, <3>1, ThreadListAssumption DEF Rest
    <3> QED BY <3>2 DEF Remaining
  <2> QED BY <1>0, <1>1, <2>1, <2>2, <2>3, <2>4, <2>5, <2>6, StageIs
<1>2. ASSUME NEW u \in Threads \ {t}, doing'[u].stage \in {"each", "removing"} PROVE FALSE
  <2>1. doing'[u].call = "shutdown" /\ doing'[u] = doing[u]
    BY <1>0, <1>2, DoingElse DEF Calls, Control, Where, NoCall
  <2>2. doing[t] = NoCall
    BY <2>1 DEF Calls, Control, Alone
  <2>3. at[t] = Away /\ op[t] = Resting
    BY <2>2, IdleIs
  <2>4. ~Call(t)
    <3>1. ~Ready(t)
      BY <2>1 DEF Ready
    <3>2. ~Init(t)
      BY <2>1 DEF Init, NoCall
    <3> QED BY <3>1, <3>2 DEF Call, Register, Create, Destroy, Attach, Unregister, Shutdown
  <2>5. ~(ThreadsGo(t) \/ ThreadsWait(t))
    BY <2>3 DEF ThreadsGo, ThreadsWait, Acquire, Link, SetHead, FindThread, Unlink, Unlinked, FreeThread, At, Away
  <2>6. ~(TableGo(t) \/ TableWait(t))
    <3>1. ASSUME TableGo(t) \/ TableWait(t) PROVE FALSE
      <4>1. <<op[t].pc, op'[t].pc>> \in TableEdges
        BY <1>0, <3>1, TableStepMoves DEF TableMoves
      <4> QED BY <2>3, <4>1 DEF TableEdges, Resting
    <3> QED BY <3>1
  <2>7. doing[t].stage = "none"
    BY <2>2 DEF NoCall
  <2>8. FALSE
    BY <2>4, <2>5, <2>6, <2>7
       DEF Moving, GoOn, Wait, Registered, Created, Doomed, Destroyed, Attaching, Target, Made, IsAttached,
           Sweep, Swept, Gone, ShutOwn, Count, Each, Removed, Down, Up, RingDone, TableDone, Doing
  <2> QED BY <2>8
<1> QED BY <1>1, <1>2 DEF Remaining

LEMMA CallsStart ==
  RegistryInit => Calls /\ \A t \in Threads : Remaining(t)
<1> SUFFICES ASSUME RegistryInit PROVE Calls /\ \A t \in Threads : Remaining(t)
  OBVIOUS
<1>1. /\ thread_head = None /\ info = [x \in Infos |-> None] /\ THREADS_LOCK = None
      /\ my_thread = [t \in Threads |-> None] /\ at = [t \in Threads |-> Away] /\ members = {}
      /\ op = [t \in Threads |-> Resting] /\ handles = [t \in Threads |-> {}]
      /\ doing = [t \in Threads |-> NoCall] /\ up = FALSE
  BY DEF RegistryInit, ThreadListInit, TableInit
<1>2. RingTypes
  BY <1>1 DEF RingTypes, Maybe, Away, AtPcs
<1>3. RingLocked
  BY <1>1, ThreadListAssumption DEF RingLocked, Maybe, Away, RingHeld
<1>4. Linking /\ Selves
  BY <1>1 DEF Linking, Selves, Round, Cycle, Away
<1>5. \A t \in Threads : LooseApart(t) /\ Joins(t) /\ Leaves(t)
  BY <1>1 DEF LooseApart, Joins, Leaves, Away, Loose, Joining, Leaving
<1>6. Shapes
  BY <1>1 DEF Shapes, NoCall, Resting
<1>7. \A t \in Threads : Where(t) /\ Knows(t) /\ Alone(t)
  BY <1>1 DEF Where, Knows, Alone, NoCall
<1>8. \A t \in Threads : Remaining(t)
  BY <1>1 DEF Remaining, NoCall
<1> QED BY <1>2, <1>3, <1>4, <1>5, <1>6, <1>7, <1>8 DEF Calls, RingInv, Control

LEMMA CallsStay ==
  ASSUME Calls, \A t \in Threads : Remaining(t), [RegistryNext]_regvars
  PROVE  Calls' /\ \A t \in Threads : Remaining(t)'
<1>1. CASE UNCHANGED regvars
  <2>1. UNCHANGED <<threadvars, thread_head, info, THREADS_LOCK, members, my_thread, at, op, handles, doing, up>>
    BY <1>1 DEF regvars, threadvars, ring, tablevars
  <2>2. RingInv' /\ Shapes'
    BY <2>1, RingStays DEF Calls, Shapes
  <2>3. \A t \in Threads : Control(t)' /\ Remaining(t)'
    <3> TAKE t \in Threads
    <3>1. Where(t) /\ Knows(t) /\ Alone(t)
      BY DEF Calls, Control
    <3>2. Where(t)' /\ Knows(t)' /\ Alone(t)'
      BY <2>1, <3>1 DEF Where, Knows, Alone, Entry
    <3>3. Remaining(t)'
      BY <2>1 DEF Remaining, Rest, Pending, Entry
    <3> QED BY <3>2, <3>3 DEF Control
  <2> QED BY <2>2, <2>3 DEF Calls
<1>2. ASSUME NEW t \in Threads, Moving(t) PROVE Calls' /\ \A u \in Threads : Remaining(u)'
  BY <1>2, StepKeeps, StepRemains
<1> QED BY <1>1, <1>2 DEF RegistryNext, Lost, Moving

LEMMA CallsHold == RegistrySpec => [](Calls /\ \A t \in Threads : Remaining(t))
<1> DEFINE Inv == Calls /\ \A t \in Threads : Remaining(t)
<1>1. RegistryInit => Inv
  BY CallsStart
<1>2. Inv /\ [RegistryNext]_regvars => Inv'
  BY CallsStay
<1> QED BY <1>1, <1>2, PTL DEF RegistrySpec

-----------------------------------------------------------------------------
(* Whenever nobody holds THREADS_LOCK, the walk from the head goes round   *)
(* all threads inserted and not yet removed and through no freed memory.   *)
THEOREM RingWholeHolds == RegistrySpec => []RingWhole
<1>1. Calls => RingWhole
  <2> SUFFICES ASSUME Calls, THREADS_LOCK = None
               PROVE  /\ thread_head = None <=> members = {}
                      /\ \A x \in members : info[x] # None /\ info[x].next \in members
                      /\ Reached = members
                      /\ members # {} => Hop[Cardinality(members)] = thread_head
    BY DEF RingWhole
  <2>0. RingTypes /\ RingLocked /\ Linking
    BY DEF Calls, RingInv
  <2>1. Round = members
    <3>1. \A u \in Threads : at[u].pc # "head"
      BY <2>0, RoundIs DEF RingHeld
    <3> QED BY <2>0, <3>1, RoundIs
  <2>2. Cycle(members, info)
    BY <2>0, <2>1 DEF Linking
  <2>3. CASE thread_head = None
    BY <2>0, <2>2, <2>3 DEF Linking, Reached, Walk, Cycle
  <2>4. CASE thread_head # None
    BY <2>0, <2>2, <2>4, WalkIs DEF Linking, RingTypes, Cycle
  <2> QED BY <2>3, <2>4
<1> QED BY <1>1, CallsHold, PTL

(* A thread that holds the lock to remove an entry finds it on its way     *)
(* round the ring, so the search ends and the lock is given back.          *)
THEOREM SearchEndsHolds == RegistrySpec => []SearchEnds
<1>1. Calls => SearchEnds
  <2> SUFFICES ASSUME Calls, NEW t \in Threads, at[t].pc = "unlink" PROVE Entry(t) \in Reached
    BY DEF SearchEnds, At
  <2>1. Reached = members
    BY HeldIs DEF Calls, RingHeld
  <2> QED BY <2>1 DEF Calls, RingInv, Leaves, Leaving
<1> QED BY <1>1, CallsHold, PTL

(* What a thread finds in its thread-local variable is its own ThreadInfo, *)
(* in the ring, and the only one there with its tid, until it unregisters. *)
THEOREM FindsItselfHolds == RegistrySpec => []FindsItself
<1>1. Calls => FindsItself
  BY DEF Calls, RingInv, Selves, FindsItself
<1> QED BY <1>1, CallsHold, PTL

(* PAPI_shutdown by a thread that is registered forgets none in the ring   *)
(* that this thread had made.                                              *)
THEOREM ShutdownFreesHolds == RegistrySpec => ShutdownFrees
<1> DEFINE Frees == \A t \in Threads : doing[t].call = "shutdown" /\ doing[t].tid = t /\ ~up' =>
                      \A x \in members : info[x].allocator_tid # t
<1>1. Calls /\ (\A t \in Threads : Remaining(t)) /\ [RegistryNext]_regvars => [Frees]_regvars
  <2> SUFFICES ASSUME Calls, \A t \in Threads : Remaining(t), [RegistryNext]_regvars,
                      NEW t \in Threads, doing[t].call = "shutdown", doing[t].tid = t, ~up',
                      NEW x \in members
               PROVE  info[x].allocator_tid # t
    BY DEF Frees
  <2>1. up /\ \A u \in Threads \ {t} : doing[u] = NoCall
    BY DEF Calls, Control, Alone
  <2>2. PICK u \in Threads : Moving(u)
    BY <2>1 DEF RegistryNext, Lost, regvars, Moving
  <2>3. Down(u)
    <3>1. ~Up(u)
      <4>1. doing[u].stage # "init"
        BY <2>1 DEF Calls, Control, Where, NoCall
      <4> QED BY <4>1 DEF Up, RingDone, Doing
    <3>2. UNCHANGED up \/ Down(u)
      BY <2>2, <3>1
         DEF Moving, Call, GoOn, Wait, InRing, InTable, Init, Register, Create, Destroy, Attach, Unregister, Shutdown,
             Registered, Created, Doomed, Destroyed, Attaching, Target, Made, IsAttached, Sweep, Swept, Gone,
             ShutOwn, Count, Each, Removed, Return
    <3> QED BY <2>1, <3>2
  <2>4. doing[u].stage = "each" /\ doing[u].n = 0
    BY <2>3 DEF Down, Doing
  <2>5. u = t
    BY <2>1, <2>4 DEF NoCall
  <2>6. Pending(t) = {}
    BY <2>4, <2>5 DEF Pending
  <2>7. PICK U : Rest(t, U)
    BY <2>4, <2>5 DEF Remaining
  <2>8. U = {}
    BY <2>4, <2>5, <2>6, <2>7, PartIs DEF Rest, Calls
  <2> QED BY <2>6, <2>7, <2>8 DEF Rest
<1> QED BY <1>1, CallsHold, PTL DEF RegistrySpec, ShutdownFrees

-----------------------------------------------------------------------------
(* The table.                                                              *)

TableHeld == {"added", "fill", "grown", "cleared", "clear", "sweep"}

TableTypes ==
  /\ map \in [array : Nat, slots : Seq(Maybe(Blocks)), total : Nat, avail : Int, full : Int]
  /\ array \in Nat /\ esi \in [Blocks -> Maybe(EventSetInfo)]
  /\ handles \in [Threads -> SUBSET Nat]

TableLocked ==
  /\ INTERNAL_LOCK \in Maybe(Threads)
  /\ \A t \in Threads : INTERNAL_LOCK = t <=> op[t].pc \in TableHeld

\* While the table grows the new half is there and counts for nothing.
Growing == \E t \in Threads : op[t].pc = "cleared"
Used(slots) == {i \in 1..Len(slots) : slots[i] # None}
Counted ==
  /\ Len(map.slots) = IF Growing THEN 2 * map.total ELSE map.total
  /\ map.avail + map.full = map.total
  /\ map.full = Cardinality(Used(map.slots))
  /\ \A i \in (map.total + 1)..Len(map.slots) : map.slots[i] = None

Filled(e) == esi[e] # None /\ esi[e].index # Unset
Valid(h) == Slot(h) # None /\ esi[Slot(h)] # None /\ esi[Slot(h)].index = h

\* What a thread has by its handles, and has in hand for a handle.
Holds(t) ==
  /\ \A u \in Threads \ {t} : handles[t] \cap handles[u] = {}
  /\ \A h \in handles[t] :
       h < map.total /\ Slot(h) # None /\ ((op[t].pc \in Freeing /\ op[t].i = h) \/ Valid(h))
  /\ op[t].pc \in Freeing =>
       /\ op[t].i \in Nat /\ op[t].i < map.total /\ Slot(op[t].i) # None
       /\ \A e \in Blocks : Filled(e) => esi[e].index # op[t].i
       /\ \A u \in Threads \ {t} :
            op[t].i \notin handles[u] /\ (op[u].pc \in Freeing => op[u].i # op[t].i)
  /\ doing[t].stage \in {"lookup", "target", "made", "attached"} => op[t].i \in handles[t]
  /\ doing[t].stage = "lookup" /\ op[t].pc = "done" => op[t].block = Slot(op[t].i)
  /\ doing[t].stage \in {"target", "made", "attached"} => op[t].block = Slot(op[t].i) /\ doing[t].block = op[t].block

\* What a thread creates is its alone and in no slot, until it fills an empty one.
Creates(t) ==
  /\ op[t].pc \in Making =>
       /\ op[t].block \in Blocks /\ esi[op[t].block] = [master |-> None, index |-> Unset]
       /\ op[t].master = my_thread[t]
       /\ \A u \in Threads \ {t} : op[u].pc \in Making => op[u].block # op[t].block
  /\ op[t].pc = "fill" => op[t].i \in Free(map)
  /\ op[t].pc \in {"grown", "cleared"} => map.avail = 0

\* A thread that leaves and was found by its tid, until its ThreadInfo is freed.
Leaver(t) ==
  /\ doing[t].call = "unregister" /\ Entry(t) # None /\ t \notin Wide
  /\ doing[t].stage = "sweep" \/ (doing[t].stage = "remove" /\ at[t].pc # "done")

\* It has taken out what was its own up to where it is.
Sweeps(t) ==
  LET o == op[t].pc
  IN  /\ doing[t].stage = "sweep" /\ o # "done" => op[t].master = Entry(t) /\ op[t].turn \in Nat
      /\ o = "look" => op[t].turn \in Nat /\ op[t].turn < map.total
      /\ Leaver(t) =>
           \A e \in Blocks : Filled(e) /\ esi[e].master = Entry(t) =>
             \/ o \in {"walk", "look"} /\ esi[e].index >= op[t].turn
             \/ o \in {"swept", "sweep"} /\ esi[e].index > op[t].turn

Closing == \E t \in Threads : doing[t].call = "shutdown"

\* The processes attached to: whom no thread has for its own.
Processes == {x \in members : \A t \in Threads : my_thread[t] # x}

\* An EventSet that was put into the table is there. Its master is who has its
\* handle, or a process that is in the ring; if nobody has, it was left behind.
Owned ==
  ~Closing => \A e \in Blocks : Filled(e) =>
    /\ esi[e].index < map.total /\ Slot(esi[e].index) = e
    /\ \A t \in Threads : esi[e].index \in handles[t] => esi[e].master \in {my_thread[t]} \cup Processes

\* What is there when nobody uses the library, and in an EventSet that is new.
Bare ==
  /\ Closing => map.total = 0 /\ map.slots = << >> /\ \A t \in Threads : handles[t] = {}
  /\ ~up => (\A e \in Blocks : esi[e] = None) /\ \A t \in Threads : handles[t] = {}
  /\ \A e \in Blocks : esi[e] # None /\ esi[e].index = Unset => esi[e].master = None

\* The table, inductive beside Calls.
Table ==
  /\ TableTypes /\ TableLocked /\ Counted /\ Owned /\ Bare
  /\ \A t \in Threads : Holds(t) /\ Creates(t) /\ Sweeps(t)

\* A step of t moves nobody else.
Beside(t) ==
  \A u \in Threads \ {t} :
    /\ op'[u] = op[u] /\ doing'[u] = doing[u] /\ at'[u] = at[u]
    /\ my_thread'[u] = my_thread[u] /\ handles'[u] = handles[u]

-----------------------------------------------------------------------------
(* A step that leaves the slots and the EventSets alone.                   *)
LEMMA QuietKeeps ==
  ASSUME Table, NEW t \in Threads, Beside(t), UNCHANGED <<map, esi>>, array' \in Nat, ~up' => ~up,
         handles' \in [Threads -> SUBSET Nat], handles'[t] \subseteq handles[t],
         TableLocked', Owned', Holds(t)', Creates(t)', Sweeps(t)',
         op'[t].pc = "cleared" <=> op[t].pc = "cleared",
         op'[t].pc \in Making => op[t].pc \in Making /\ op'[t].block = op[t].block,
         doing'[t].call = "shutdown" => doing[t].call = "shutdown"
  PROVE  Table'
<1>1. TableTypes'
  BY DEF Table, TableTypes
<1>2. Growing' = Growing
  BY DEF Growing, Beside
<1>3. Counted'
  BY <1>2 DEF Table, Counted, Used
<1>4. Bare'
  <2>1. Closing' => Closing
    BY DEF Closing, Beside
  <2>2. \A u \in Threads : handles'[u] \subseteq handles[u]
    BY DEF Beside
  <2> QED BY <2>1, <2>2 DEF Table, Bare
<1>5. ASSUME NEW u \in Threads \ {t} PROVE Holds(u)' /\ Creates(u)' /\ Sweeps(u)'
  <2>1. Holds(u) /\ Creates(u) /\ Sweeps(u)
    BY DEF Table
  <2>2. /\ op'[u] = op[u] /\ doing'[u] = doing[u] /\ my_thread'[u] = my_thread[u] /\ handles'[u] = handles[u]
        /\ Entry(u)' = Entry(u)
    BY DEF Beside, Entry
  <2>3. Holds(u)'
    <3>1. \A v \in Threads \ {u} : handles[u] \cap handles'[v] = {}
      BY <2>1 DEF Holds, Beside
    <3>2. \A h : Valid(h)' <=> Valid(h)
      BY DEF Valid, Slot
    <3>3. ASSUME op[u].pc \in Freeing, NEW v \in Threads \ {u}
          PROVE  op[u].i \notin handles'[v] /\ (op'[v].pc \in Freeing => op'[v].i # op[u].i)
      <4>1. op[u].i \notin handles[v] /\ (op[v].pc \in Freeing => op[v].i # op[u].i)
        BY <2>1, <3>3 DEF Holds
      <4>2. CASE v = t
        BY <2>2, <3>3, <4>1, <4>2 DEF Holds
      <4>3. CASE v # t
        BY <4>1, <4>3 DEF Beside
      <4> QED BY <4>2, <4>3
    <3>4. \A h : Slot(h)' = Slot(h)
      BY DEF Slot
    <3>5. \A e : Filled(e)' <=> Filled(e)
      BY DEF Filled
    <3> QED BY <2>1, <2>2, <3>1, <3>2, <3>3, <3>4, <3>5, Zenon DEF Holds
  <2>4. Creates(u)'
    BY <2>1, <2>2 DEF Creates, Beside, Free
  <2>5. Sweeps(u)'
    <3>1. at'[u] = at[u] /\ op'[u] = op[u] /\ doing'[u] = doing[u] /\ esi' = esi /\ map' = map
      BY <2>2 DEF Beside
    <3>2. Leaver(u)' <=> Leaver(u)
      BY <3>1 DEF Leaver, Entry
    <3>3. \A e : Filled(e)' <=> Filled(e)
      BY <3>1 DEF Filled
    <3> QED BY <2>1, <2>2, <3>1, <3>2, <3>3 DEF Sweeps
  <2> QED BY <2>3, <2>4, <2>5
<1> QED BY <1>1, <1>3, <1>4, <1>5 DEF Table

\* Who has what, when the ring does not change under the EventSets.
LEMMA OwnedStays ==
  ASSUME Table, NEW t \in Threads, Beside(t), UNCHANGED <<map, esi>>,
         doing'[t].call = "shutdown" <=> doing[t].call = "shutdown",
         ~Closing => Processes \subseteq Processes',
         handles'[t] \subseteq handles[t], handles'[t] # {} => my_thread'[t] = my_thread[t]
  PROVE  Owned'
<1>1. Closing' <=> Closing
  BY DEF Closing, Beside
<1>2. (\A e : Filled(e)' <=> Filled(e)) /\ \A h : Slot(h)' = Slot(h)
  BY DEF Filled, Slot
<1>3. \A u \in Threads : \A h \in handles'[u] : h \in handles[u] /\ my_thread'[u] = my_thread[u]
  BY DEF Beside
<1> QED BY <1>1, <1>2, <1>3 DEF Table, Owned

\* A step in the ring.
LEMMA RingStepQuiet ==
  ASSUME Table, Calls, NEW t \in Threads, ThreadsGo(t) \/ ThreadsWait(t), UNCHANGED doing, InRing
  PROVE  Table'
<1>0. Moves(t) /\ Where(t) /\ Knows(t) /\ Alone(t) /\ RingInv
  BY RingMoves DEF Calls, Control
<1>1. UNCHANGED <<map, array, esi, INTERNAL_LOCK, op, handles, up>>
  BY DEF InRing, tablevars
<1>2. Beside(t)
  BY <1>0, <1>1 DEF Beside, Moves
<1>3. op[t].pc \notin Making \cup Freeing \cup {"walk", "look"} /\ doing[t] # NoCall
      /\ at[t].pc \notin {"idle", "done"}
  BY <1>0 DEF Where, Moves, RingEdges, Making, Freeing, Resting, Away, NoCall
<1>4. Owned'
  <2>1. handles[t] # {} => my_thread'[t] = my_thread[t]
    <3> SUFFICES ASSUME handles[t] # {} PROVE my_thread'[t] = my_thread[t]
      OBVIOUS
    <3>1. my_thread[t] # None /\ doing[t].stage # "remove" /\ doing[t].call # "shutdown"
      BY <1>0 DEF Knows
    <3>2. ~(at[t].pc = "head" /\ at[t].tid = t)
      BY <1>0, <3>1, ThreadListAssumption DEF RingInv, Joins, Joining
    <3>3. at[t].pc # "unlinked"
      BY <1>0, <3>1 DEF Where, Away, Joining
    <3> QED BY <1>0, <3>2, <3>3 DEF Moves
  <2>2. ASSUME ~Closing, NEW x \in Processes PROVE x \in Processes'
    <3>1. x \in members /\ x # None /\ \A u \in Threads : my_thread[u] # x
      BY <1>0, ThreadListAssumption DEF Processes, RingInv, RingTypes
    <3>2. x \in members'
      <4>1. CASE at[t].pc = "unlink" /\ x = Entry(t)
        <5>1. doing[t].stage = "remove"
          BY <1>0, <2>2, <4>1 DEF Where, Closing, Away, Joining
        <5> QED BY <1>0, <3>1, <4>1, <5>1 DEF Knows, Leaving
      <4> QED BY <1>0, <3>1, <4>1 DEF Moves
    <3>3. my_thread'[t] # x
      <4>1. CASE at[t].pc = "head" /\ at[t].tid = t
        <5>1. SetHead(t)
          BY <4>1 DEF ThreadsGo, ThreadsWait, Acquire, Link, FindThread, Unlink, Unlinked, FreeThread, At
        <5>2. at'[t].entry = Entry(t)
          BY <1>0, <5>1 DEF SetHead, Found, RingInv, RingTypes
        <5> QED BY <1>0, <3>1, <4>1, <5>2 DEF Moves, RingInv, LooseApart, Loose
      <4>2. CASE at[t].pc = "unlinked"
        BY <1>0, <3>1, <4>2 DEF Moves
      <4> QED BY <1>0, <3>1, <4>1, <4>2 DEF Moves
    <3>4. \A u \in Threads : my_thread'[u] # x
      BY <1>2, <3>1, <3>3 DEF Beside
    <3> QED BY <3>2, <3>4 DEF Processes
  <2> QED BY <1>1, <1>2, <2>1, <2>2, OwnedStays
<1>5. Holds(t)' /\ Creates(t)' /\ Sweeps(t)'
  <2>1. Holds(t) /\ Creates(t) /\ Sweeps(t)
    BY DEF Table
  <2>2. Holds(t)'
    <3>1. \A h : Valid(h)' <=> Valid(h)
      BY <1>1 DEF Valid, Slot
    <3> QED BY <1>1, <2>1, <3>1 DEF Holds, Filled, Slot
  <2>3. Creates(t)'
    BY <1>1, <1>3, <2>1 DEF Creates, Making, Freeing
  <2>4. Sweeps(t)'
    <3>1. doing[t].stage # "sweep" /\ (doing[t].stage = "remove" => at'[t].entry \in {None, Entry(t)})
      <4>1. doing[t].stage # "sweep" /\ (doing[t].stage = "remove" => at[t].pc \in OutOfRing)
        BY <1>0, <1>3 DEF Where, NoCall, Joining
      <4>2. CASE at[t].pc = "free"
        <5>1. FreeThread(t)
          BY <4>2 DEF ThreadsGo, ThreadsWait, Acquire, Link, SetHead, FindThread, Unlink, Unlinked, At
        <5>2. at'[t].entry = None
          BY <1>0, <5>1 DEF FreeThread, Found, RingInv, RingTypes
        <5> QED BY <4>1, <5>2
      <4>3. CASE at[t].pc # "free"
        BY <1>0, <4>1, <4>3 DEF Moves, OutOfRing, Leaving, Entry
      <4> QED BY <4>2, <4>3
    <3>2. Entry(t)' = at'[t].entry
      BY DEF Entry
    <3> QED BY <1>1, <1>3, <2>1, <3>1, <3>2 DEF Sweeps, Leaver, Filled
  <2> QED BY <2>2, <2>3, <2>4
<1>6. TableLocked'
  BY <1>1 DEF Table, TableLocked
<1> QED BY <1>1, <1>2, <1>4, <1>5, <1>6, QuietKeeps DEF Table, TableTypes

\* Where a thread is that takes no part in a change of the table.
Apart == {"idle", "load", "walk", "look", "done"}

\* A step of a thread that is, before and after, apart from the table.
LEMMA ApartKeeps ==
  ASSUME Table, NEW t \in Threads, Beside(t), UNCHANGED <<map, array, esi, INTERNAL_LOCK>>, ~up' => ~up,
         op[t].pc \in Apart, op'[t].pc \in Apart,
         handles' \in [Threads -> SUBSET Nat],
         handles'[t] = {} \/ (handles'[t] = handles[t] /\ my_thread'[t] = my_thread[t]),
         ~Closing => Processes \subseteq Processes',
         doing'[t].call = "shutdown" <=> doing[t].call = "shutdown",
         doing'[t].stage \in {"lookup", "target", "made", "attached"} => op'[t].i \in handles'[t],
         doing'[t].stage = "lookup" /\ op'[t].pc = "done" => op'[t].block = Slot(op'[t].i),
         doing'[t].stage \in {"target", "made", "attached"} =>
           op'[t].block = Slot(op'[t].i) /\ doing'[t].block = op'[t].block,
         Sweeps(t)'
  PROVE  Table'
<1>0. Holds(t) /\ Creates(t) /\ TableLocked
  BY DEF Table
<1>1. Apart \cap Making = {} /\ Apart \cap Freeing = {} /\ Apart \cap TableHeld = {}
      /\ "cleared" \in Making /\ "fill" \in Making /\ "grown" \in Making
  BY DEF Apart, Making, Freeing, TableHeld
<1>2. TableLocked'
  BY <1>0, <1>1 DEF TableLocked, Beside
<1>3. Owned'
  BY OwnedStays
<1>4. Holds(t)'
  <2>1. \A h : Valid(h)' <=> Valid(h)
    BY DEF Valid, Slot
  <2>2. \A h \in handles'[t] : h \in handles[t]
    OBVIOUS
  <2>3. \A u \in Threads \ {t} : handles'[t] \cap handles'[u] = {}
    BY <1>0, <2>2 DEF Holds, Beside
  <2>4. \A h \in handles'[t] : h < map.total /\ Slot(h)' # None /\ Valid(h)'
    BY <1>0, <1>1, <2>1, <2>2 DEF Holds, Slot
  <2>5. op'[t].pc \notin Freeing /\ \A i : Slot(i)' = Slot(i)
    BY <1>1 DEF Slot
  <2> QED BY <2>3, <2>4, <2>5 DEF Holds, Slot
<1>5. Creates(t)'
  BY <1>1 DEF Creates
<1>6. array' \in Nat
  BY DEF Table, TableTypes
<1> QED BY <1>1, <1>2, <1>3, <1>4, <1>5, <1>6, QuietKeeps

\* What a step that leaves the ring alone does to its entries.
LEMMA ProcessesStay ==
  ASSUME UNCHANGED <<my_thread, members>>
  PROVE  Processes' = Processes
BY DEF Processes

\* What a thread does in the ring it does in its own place.
LEMMA PlaceElse ==
  ASSUME Calls, NEW t \in Threads,
         \/ Return(t) \/ \E tid : Allocate(t, tid) \/ LookupThread(t, tid) \/ RemoveThread(t, tid)
         \/ at' = [at EXCEPT ![t] = Away] \/ UNCHANGED at
  PROVE  \A u \in Threads \ {t} : at'[u] = at[u]
BY DEF Calls, RingInv, RingTypes, Return, Allocate, LookupThread, RemoveThread

LEMMA ReturnQuiet ==
  ASSUME Table, Calls, NEW t \in Threads, Return(t), doing[t] # NoCall, op[t].pc \in Apart,
         doing[t].call # "shutdown"
  PROVE  Table'
<1>1. /\ UNCHANGED <<map, array, esi, INTERNAL_LOCK, handles, up, my_thread, members>>
      /\ doing' = [doing EXCEPT ![t] = NoCall] /\ op' = [op EXCEPT ![t] = Resting]
  BY DEF Return, ring
<1>2. doing'[t] = NoCall /\ op'[t] = Resting /\ Beside(t)
  BY <1>1, PlaceElse DEF Calls, Shapes, Beside
<1>3. NoCall.stage = "none" /\ NoCall.call = "none" /\ Resting.pc = "idle"
  BY DEF NoCall, Resting
<1>4. Sweeps(t)'
  BY <1>2, <1>3 DEF Sweeps, Leaver
<1>5. handles' \in [Threads -> SUBSET Nat] /\ op'[t].pc \in Apart
  BY <1>1, <1>2, <1>3 DEF Table, TableTypes, Apart
<1> QED BY <1>1, <1>2, <1>3, <1>4, <1>5, ApartKeeps, ProcessesStay

\* A step of a thread's call that leaves the table alone.
LEMMA InRingQuiet ==
  ASSUME Table, Calls, NEW t \in Threads, InRing, UNCHANGED <<my_thread, members>>,
         \A u \in Threads \ {t} : doing'[u] = doing[u] /\ at'[u] = at[u], op[t].pc \in Apart, op[t].pc # "look",
         doing'[t].call = "shutdown" <=> doing[t].call = "shutdown",
         doing'[t].stage \notin {"lookup", "sweep"},
         doing'[t].stage \in {"target", "made", "attached"} =>
           doing[t].stage \in {"target", "made", "attached", "lookup"} /\ op[t].pc = "done" /\ doing'[t].block = op[t].block,
         ~(doing'[t].stage = "remove" /\ doing'[t].call = "unregister")
  PROVE  Table'
<1>0. Holds(t) /\ Sweeps(t)
  BY DEF Table
<1>1. UNCHANGED <<map, array, esi, INTERNAL_LOCK, handles, op, up>>
  BY DEF InRing, tablevars
<1>2. Beside(t)
  BY <1>1 DEF Beside
<1>3. handles' \in [Threads -> SUBSET Nat]
  BY <1>1 DEF Table, TableTypes
<1>4. doing'[t].stage \in {"target", "made", "attached"} =>
        op'[t].i \in handles'[t] /\ op'[t].block = Slot(op'[t].i) /\ doing'[t].block = op'[t].block
  BY <1>0, <1>1 DEF Holds
<1>5. Sweeps(t)'
  BY <1>1 DEF Sweeps, Leaver
<1> QED BY <1>1, <1>2, <1>3, <1>4, <1>5, ApartKeeps, ProcessesStay

LEMMA RegisterQuiet ==
  ASSUME Table, Calls, NEW t \in Threads, Register(t)
  PROVE  Table'
<1>1. doing[t] = NoCall /\ op[t] = Resting
  BY ReadyIs DEF Register
<1>2. PICK call \in {"register", "create"} : Begin(t, call, "register")
  BY DEF Register
<1>3. /\ \A u \in Threads \ {t} : doing'[u] = doing[u]
      /\ doing'[t] = [call |-> call, stage |-> "register", tid |-> None, block |-> None, tmp |-> None, n |-> 0]
  BY <1>2, BeginIs DEF Calls
<1>4. doing'[t].call = call /\ doing'[t].stage = "register"
  BY <1>3
<1>5. InRing /\ UNCHANGED <<my_thread, members>>
  BY DEF Register, Allocate
<1>6. \A u \in Threads \ {t} : at'[u] = at[u]
  BY PlaceElse DEF Register
<1> QED BY <1>1, <1>3, <1>4, <1>5, <1>6, InRingQuiet DEF Apart, Resting, NoCall

LEMMA UnregisterQuiet ==
  ASSUME Table, Calls, NEW t \in Threads, Unregister(t)
  PROVE  Table'
<1>1. doing[t] = NoCall /\ op[t] = Resting
  BY ReadyIs DEF Unregister
<1>3. /\ \A u \in Threads \ {t} : doing'[u] = doing[u]
      /\ doing'[t] = [call |-> "unregister", stage |-> "self", tid |-> None, block |-> None, tmp |-> None, n |-> 0]
  BY BeginIs DEF Calls, Unregister
<1>4. doing'[t].call = "unregister" /\ doing'[t].stage = "self"
  BY <1>3
<1>5. InRing /\ UNCHANGED <<my_thread, members>>
  BY DEF Unregister, LookupThread, ring
<1>6. \A u \in Threads \ {t} : at'[u] = at[u]
  BY PlaceElse DEF Unregister
<1> QED BY <1>1, <1>3, <1>4, <1>5, <1>6, InRingQuiet DEF Apart, Resting, NoCall

LEMMA AttachingQuiet ==
  ASSUME Table, Calls, NEW t \in Threads, Attaching(t)
  PROVE  Table'
<1>1. doing[t].stage = "lookup" /\ doing[t].call = "attach" /\ op[t].pc = "done" /\ doing[t] # NoCall
  BY DEF Attaching, TableDone, Doing, NoCall
<1>2. CASE Return(t)
  BY <1>1, <1>2, ReturnQuiet DEF Apart
<1>3. CASE /\ LookupThread(t, doing[t].tid)
           /\ doing' = [doing EXCEPT ![t].stage = "target", ![t].block = op[t].block]
           /\ InRing
  <2>1. /\ \A u \in Threads \ {t} : doing'[u] = doing[u]
        /\ doing'[t] = [call |-> "attach", stage |-> "target", tid |-> doing[t].tid,
                        block |-> op[t].block, tmp |-> doing[t].tmp, n |-> doing[t].n]
    <3>1. /\ doing = [u \in Threads |-> doing[u]]
          /\ doing[t] = [call |-> doing[t].call, stage |-> doing[t].stage, tid |-> doing[t].tid,
                         block |-> doing[t].block, tmp |-> doing[t].tmp, n |-> doing[t].n]
      BY DEF Calls, Shapes
    <3>2. doing' = [doing EXCEPT ![t].stage = "target", ![t].block = op[t].block]
      BY <1>3
    <3> QED BY <1>1, <3>1, <3>2
  <2>2. doing'[t].call = "attach" /\ doing'[t].stage = "target" /\ doing'[t].block = op[t].block
    BY <2>1
  <2>3. UNCHANGED <<my_thread, members>>
    BY <1>3 DEF LookupThread, ring
  <2>4. \A u \in Threads \ {t} : at'[u] = at[u]
    BY <1>3, PlaceElse
  <2> QED BY <1>1, <1>3, <2>1, <2>2, <2>3, <2>4, InRingQuiet DEF Apart
<1> QED BY <1>2, <1>3 DEF Attaching

LEMMA LeavingQuiet ==
  ASSUME Table, Calls, NEW t \in Threads, ShutOwn(t) \/ Removed(t)
  PROVE  Table'
<1>0. Shapes /\ Where(t)
  BY DEF Calls, Control
<1>1. PICK stage \in {"remove", "each"} : Then(t, stage) /\ UNCHANGED <<my_thread, members>> /\ InRing
  BY DEF ShutOwn, Removed, RemoveThread, threadvars, ring
<1>2. /\ \A u \in Threads \ {t} : doing'[u] = doing[u]
      /\ doing'[t] = [call |-> doing[t].call, stage |-> stage, tid |-> doing[t].tid,
                      block |-> doing[t].block, tmp |-> doing[t].tmp, n |-> doing[t].n]
  BY <1>0, <1>1, ThenIs
<1>3. doing'[t].call = doing[t].call /\ doing'[t].stage = stage
  BY <1>2
<1>4. doing[t].stage \in {"own", "removing"} /\ doing[t].call = "shutdown" /\ op[t] = Resting
  BY <1>0 DEF Where, ShutOwn, Removed, RingDone, Doing, NoCall
<1>5. \A u \in Threads \ {t} : at'[u] = at[u]
  <2>1. UNCHANGED at \/ RemoveThread(t, my_thread[t])
    BY DEF ShutOwn, Removed, threadvars
  <2> QED BY <2>1, PlaceElse
<1> QED BY <1>1, <1>2, <1>3, <1>4, <1>5, InRingQuiet DEF Apart, Resting

\* A thread that has swept the table goes on to its ThreadInfo.
LEMMA SweptQuiet ==
  ASSUME Table, Calls, NEW t \in Threads, Swept(t)
  PROVE  Table'
<1>0. Shapes /\ Where(t) /\ Knows(t) /\ Sweeps(t)
  BY DEF Calls, Control, Table
<1>1. /\ doing[t].stage = "sweep" /\ doing[t].call = "unregister" /\ op[t].pc = "done" /\ at[t].pc = "done"
  BY <1>0 DEF Swept, TableDone, Doing, Where, NoCall, Away
<1>2. /\ UNCHANGED <<map, array, esi, INTERNAL_LOCK, up, op, my_thread, members>>
      /\ handles' = [handles EXCEPT ![t] = {}] /\ RemoveThread(t, my_thread[t])
  BY DEF Swept, RemoveThread, ring
<1>3. /\ \A u \in Threads \ {t} : doing'[u] = doing[u]
      /\ doing'[t] = [call |-> doing[t].call, stage |-> "remove", tid |-> doing[t].tid,
                      block |-> doing[t].block, tmp |-> doing[t].tmp, n |-> doing[t].n]
  BY <1>0, ThenIs DEF Swept
<1>4. doing'[t].call = "unregister" /\ doing'[t].stage = "remove"
  BY <1>1, <1>3
<1>5. Beside(t) /\ handles'[t] = {} /\ handles' \in [Threads -> SUBSET Nat]
  BY <1>2, <1>3, PlaceElse DEF Beside, Table, TableTypes
<1>6. Sweeps(t)'
  <2>1. Entry(t)' = my_thread[t]
    BY <1>2 DEF RemoveThread, Entry, Calls, RingInv, RingTypes
  <2>2. t \notin Wide => Entry(t) = my_thread[t]
    BY <1>0, <1>1 DEF Knows
  <2> QED BY <1>0, <1>1, <1>2, <1>4, <2>1, <2>2 DEF Sweeps, Leaver, Filled
<1> QED BY <1>1, <1>2, <1>4, <1>5, <1>6, ApartKeeps, ProcessesStay DEF Apart

LEMMA CountQuiet ==
  ASSUME Table, Calls, NEW t \in Threads, Count(t) \/ Each(t)
  PROVE  Table'
<1>0. Shapes /\ Where(t) /\ RingTypes
  BY DEF Calls, Control, RingInv
<1>1. doing[t].call = "shutdown" /\ op[t] = Resting
  BY <1>0 DEF Where, Count, Each, RingDone, Doing, NoCall
<1> DEFINE Marked(stage, tmp, n) == doing' = [doing EXCEPT ![t].tmp = tmp, ![t].n = n, ![t].stage = stage]
<1>2. PICK stage, tmp, n : stage \in {"each", "removing"} /\ Marked(stage, tmp, n)
  <2>1. CASE Count(t)
    <3>1. Marked("each", thread_head, Cardinality(Reached))
      BY <1>0, <2>1 DEF Count, Shapes
    <3> HIDE DEF Marked
    <3> QED BY <3>1
  <2>2. CASE Each(t)
    <3>1. \E stage \in {"each", "removing"} : Marked(stage, info[doing[t].tmp].next, doing[t].n - 1)
      <4>1. CASE info[doing[t].tmp].allocator_tid = t
        BY <1>0, <2>2, <4>1 DEF Each, Shapes
      <4>2. CASE info[doing[t].tmp].allocator_tid # t
        BY <1>0, <2>2, <4>2 DEF Each, Shapes
      <4> QED BY <4>1, <4>2
    <3> HIDE DEF Marked
    <3> QED BY <3>1
  <2> QED BY <2>1, <2>2
<1>3. /\ \A u \in Threads \ {t} : doing'[u] = doing[u]
      /\ doing'[t] = [call |-> "shutdown", stage |-> stage, tid |-> doing[t].tid,
                      block |-> doing[t].block, tmp |-> tmp, n |-> n]
  <2>1. /\ doing = [u \in Threads |-> doing[u]]
        /\ doing[t] = [call |-> doing[t].call, stage |-> doing[t].stage, tid |-> doing[t].tid,
                       block |-> doing[t].block, tmp |-> doing[t].tmp, n |-> doing[t].n]
    BY <1>0 DEF Shapes
  <2> QED BY <1>1, <1>2, <2>1
<1>4. doing'[t].call = "shutdown" /\ doing'[t].stage = stage
  BY <1>3
<1>5. InRing /\ UNCHANGED <<my_thread, members>>
  BY DEF Count, Each, RemoveThread, threadvars, ring
<1>6. op[t].pc = "idle" /\ stage \in {"each", "removing"}
  BY <1>1, <1>2 DEF Resting
<1>7. \A u \in Threads \ {t} : at'[u] = at[u]
  <2>1. UNCHANGED at \/ RemoveThread(t, doing[t].tmp)
    BY DEF Count, Each, threadvars
  <2> QED BY <2>1, PlaceElse
<1> QED BY <1>1, <1>3, <1>4, <1>5, <1>6, <1>7, InRingQuiet DEF Apart

\* The calls that look an EventSet up begin.
LEMMA LookupQuiet ==
  ASSUME Table, Calls, NEW t \in Threads, Destroy(t) \/ Attach(t)
  PROVE  Table'
<1>0. Shapes /\ doing[t] = NoCall /\ op[t] = Resting
  BY ReadyIs DEF Destroy, Attach, Calls
<1>1. PICK h \in handles[t] : LookupEventSet(t, h)
  BY DEF Destroy, Attach
<1> DEFINE Called(call, tid) ==
      /\ \A u \in Threads \ {t} : doing'[u] = doing[u]
      /\ doing'[t] = [call |-> call, stage |-> "lookup", tid |-> tid, block |-> None, tmp |-> None, n |-> 0]
<1>2. \E call, tid : call \in {"destroy", "attach"} /\ Called(call, tid)
  <2>1. CASE Destroy(t)
    <3>1. Called("destroy", None)
      BY <1>0, <2>1, BeginIs DEF Destroy
    <3> HIDE DEF Called
    <3> QED BY <3>1
  <2>2. CASE Attach(t)
    <3>1. PICK tid : doing' = [doing EXCEPT ![t] = [NoCall EXCEPT !.call = "attach", !.stage = "lookup", !.tid = tid]]
      BY <2>2 DEF Attach
    <3>2. Called("attach", tid)
      BY <1>0, <3>1 DEF Shapes, NoCall
    <3> HIDE DEF Called
    <3> QED BY <3>2
  <2> QED BY <2>1, <2>2
<1>3. PICK call, tid : call \in {"destroy", "attach"} /\ Called(call, tid)
  BY <1>2
<1>4. doing'[t].call = call /\ doing'[t].stage = "lookup"
  BY <1>3
<1>5. UNCHANGED <<map, array, esi, INTERNAL_LOCK, handles, up, my_thread, members>>
  BY <1>1 DEF LookupEventSet, Destroy, Attach, InTable, threadvars, ring
<1>6. /\ \A u \in Threads \ {t} : op'[u] = op[u]
      /\ op'[t] = [pc |-> "load", master |-> None, block |-> None, i |-> h, turn |-> 0, seen |-> map.array]
  BY <1>0, <1>1 DEF LookupEventSet, Shapes, Resting
<1>7. op'[t].pc = "load" /\ op'[t].i = h
  BY <1>6
<1>8. Beside(t) /\ handles' \in [Threads -> SUBSET Nat]
  <2>1. \A u \in Threads \ {t} : at'[u] = at[u]
    <3>1. UNCHANGED at
      BY DEF Destroy, Attach, InTable, threadvars
    <3> QED BY <3>1
  <2> QED BY <1>3, <1>5, <1>6, <2>1 DEF Beside, Table, TableTypes
<1>9. op[t].pc = "idle" /\ doing[t].call = "none"
  BY <1>0 DEF Resting, NoCall
<1>10. Sweeps(t)'
  BY <1>4, <1>7 DEF Sweeps, Leaver
<1> QED BY <1>3, <1>4, <1>5, <1>7, <1>8, <1>9, <1>10, ApartKeeps, ProcessesStay DEF Apart

\* The ends of the calls that leave the table as it is.
LEMMA EndsQuiet ==
  ASSUME Table, Calls, NEW t \in Threads, Return(t),
         Registered(t) \/ Created(t) \/ Destroyed(t) \/ Made(t) \/ IsAttached(t)
  PROVE  Table'
<1>1. doing[t].stage \in {"register", "create", "destroy", "made", "attached"} /\ (at[t].pc = "done" \/ op[t].pc = "done")
      /\ (doing[t].stage \in {"create", "destroy"} => op[t].pc = "done") /\ Where(t)
  BY DEF Registered, Created, Destroyed, Made, IsAttached, RingDone, TableDone, Doing, Calls, Control, Where, NoCall, Away
<1>2. doing[t] # NoCall /\ doing[t].call # "shutdown" /\ op[t].pc \in {"idle", "done"}
  BY <1>1 DEF Where, NoCall, Resting
<1> QED BY <1>2, ReturnQuiet DEF Apart

LEMMA TargetQuiet ==
  ASSUME Table, Calls, NEW t \in Threads, doing[t].stage = "target", at[t].pc = "done",
         Allocate(t, doing[t].tid), Then(t, "made"), InRing
  PROVE  Table'
<1>0. Shapes /\ Where(t) /\ Holds(t)
  BY DEF Calls, Control, Table
<1>1. doing[t].call = "attach" /\ op[t].pc = "done" /\ doing[t].block = op[t].block
  BY <1>0 DEF Where, NoCall, Holds
<1>2. /\ \A u \in Threads \ {t} : doing'[u] = doing[u]
      /\ doing'[t] = [call |-> doing[t].call, stage |-> "made", tid |-> doing[t].tid,
                      block |-> doing[t].block, tmp |-> doing[t].tmp, n |-> doing[t].n]
  BY <1>0, ThenIs
<1>3. doing'[t].call = doing[t].call /\ doing'[t].stage = "made" /\ doing'[t].block = doing[t].block
  BY <1>2
<1>4. UNCHANGED <<my_thread, members>>
  BY DEF Allocate
<1>5. \A u \in Threads \ {t} : at'[u] = at[u]
  BY PlaceElse
<1> QED BY <1>1, <1>2, <1>3, <1>4, <1>5, InRingQuiet DEF Apart

LEMMA SweepQuiet ==
  ASSUME Table, Calls, NEW t \in Threads, Sweep(t)
  PROVE  Table'
<1>0. Shapes /\ Where(t) /\ Knows(t) /\ Sweeps(t) /\ Holds(t)
  BY DEF Calls, Control, Table
<1>1. /\ doing[t].stage = "self" /\ doing[t].call = "unregister" /\ op[t] = Resting
      /\ at[t].pc = "done"
  BY <1>0 DEF Sweep, RingDone, Doing, Where, Knows, NoCall
<1>2. UNCHANGED <<map, array, esi, INTERNAL_LOCK, handles, up, my_thread, members, at>>
  BY DEF Sweep, WalkTable, InTable, threadvars, ring
<1>3. /\ \A u \in Threads \ {t} : doing'[u] = doing[u]
      /\ doing'[t] = [call |-> doing[t].call, stage |-> "sweep", tid |-> doing[t].tid,
                      block |-> doing[t].block, tmp |-> doing[t].tmp, n |-> doing[t].n]
  BY <1>0, ThenIs DEF Sweep
<1>4. doing'[t].call = "unregister" /\ doing'[t].stage = "sweep"
  BY <1>1, <1>3
<1>5. /\ \A u \in Threads \ {t} : op'[u] = op[u]
      /\ op'[t] = [pc |-> "walk", master |-> Entry(t), block |-> None, i |-> 0, turn |-> 0, seen |-> 0]
  BY <1>0, <1>1 DEF Sweep, WalkTable, Shapes, Resting
<1>6. op'[t].pc = "walk" /\ op'[t].master = Entry(t) /\ op'[t].turn = 0
  BY <1>5
<1>7. Sweeps(t)'
  <2>1. \A e \in Blocks : Filled(e) => esi[e].index >= 0
    BY DEF Filled, Table, TableTypes, EventSetInfo, Unset, Maybe
  <2>2. Entry(t)' = Entry(t)
    BY <1>2 DEF Entry
  <2> QED BY <1>2, <1>4, <1>6, <2>1, <2>2 DEF Sweeps, Leaver, Filled
<1>8. Beside(t) /\ handles' \in [Threads -> SUBSET Nat]
  BY <1>2, <1>3, <1>5 DEF Beside, Table, TableTypes
<1>9. op[t].pc = "idle"
  BY <1>1 DEF Resting
<1> QED BY <1>1, <1>2, <1>4, <1>6, <1>7, <1>8, <1>9, ApartKeeps, ProcessesStay DEF Apart

LEMMA GoneQuiet ==
  ASSUME Table, Calls, NEW t \in Threads, Gone(t)
  PROVE  Table'
<1>1. /\ doing[t].stage = "remove" /\ doing[t].call = "unregister" /\ op[t].pc = "done"
  BY DEF Calls, Control, Gone, RingDone, Doing, Where, NoCall
<1>2. doing[t] # NoCall
  BY <1>1 DEF NoCall
<1> QED BY <1>1, <1>2, ReturnQuiet DEF Gone, Apart

LEMMA UpQuiet ==
  ASSUME Table, Calls, NEW t \in Threads, Up(t)
  PROVE  Table'
<1>0. Shapes /\ Where(t) /\ Alone(t)
  BY DEF Calls, Control
<1>1. doing[t].stage = "init" /\ doing[t].call = "init" /\ op[t] = Resting /\ ~up
  BY <1>0 DEF Up, RingDone, Doing, Where, Alone, NoCall
<1>2. /\ UNCHANGED <<map, array, esi, INTERNAL_LOCK, handles, op, my_thread, members>>
      /\ doing' = [doing EXCEPT ![t] = NoCall]
  BY DEF Up, ring, tablevars
<1>3. /\ doing'[t] = NoCall /\ Beside(t) /\ handles' \in [Threads -> SUBSET Nat]
  <2>1. \A u \in Threads \ {t} : at'[u] = at[u]
    BY PlaceElse DEF Up
  <2> QED BY <1>0, <1>2, <2>1 DEF Shapes, Beside, Table, TableTypes
<1>4. NoCall.stage = "none" /\ NoCall.call = "none" /\ op[t].pc = "idle"
  BY <1>1 DEF NoCall, Resting
<1>5. Sweeps(t)'
  BY <1>2, <1>3, <1>4 DEF Sweeps, Leaver
<1> QED BY <1>1, <1>2, <1>3, <1>4, <1>5, ApartKeeps, ProcessesStay DEF Apart

-----------------------------------------------------------------------------
(* The steps in the table that leave the slots and the EventSets alone.    *)

\* What goes into an EventSet that is in the table.
LEMMA FilledIs ==
  ASSUME Table, NEW e \in Blocks, Filled(e)
  PROVE  /\ esi[e] \in EventSetInfo /\ esi[e].index \in Nat /\ e # None
         /\ ~Closing => /\ esi[e].index < map.total /\ Slot(esi[e].index) = e
                        /\ \A t \in Threads : esi[e].index \in handles[t] => esi[e].master \in {my_thread[t]} \cup Processes
BY EventSetTableAssumption DEF Table, TableTypes, Filled, EventSetInfo, Unset, Maybe, Owned

\* Who is in a call that is no shutdown is not there at one.
LEMMA NotClosing ==
  ASSUME Calls, NEW t \in Threads, doing[t] # NoCall, doing[t].call # "shutdown"
  PROVE  ~Closing
BY NotAlone DEF Closing, NoCall

LEMMA OpIs ==
  ASSUME Calls, NEW t \in Threads
  PROVE  /\ op = [u \in Threads |-> op[u]]
         /\ op[t] = [pc |-> op[t].pc, master |-> op[t].master, block |-> op[t].block, i |-> op[t].i,
                     turn |-> op[t].turn, seen |-> op[t].seen]
BY DEF Calls, Shapes

\* What a step within the table leaves alone.
InTableOnly == UNCHANGED <<doing, up, my_thread, members, at>>

LEMMA LoadQuiet ==
  ASSUME Table, Calls, NEW t \in Threads, Load(t), InTableOnly
  PROVE  Table'
<1>1. doing[t].stage = "lookup" /\ op[t].pc = "load"
  BY DEF Load, On, Calls, Control, Where, Resting, Making
<1>2. UNCHANGED <<map, array, esi, INTERNAL_LOCK, handles, doing, up, my_thread, members, at>>
      /\ op' = [op EXCEPT ![t].pc = "done", ![t].block = Slot(op[t].i)]
  BY DEF Load, InTableOnly
<1>3. /\ \A u \in Threads \ {t} : op'[u] = op[u]
      /\ op'[t] = [pc |-> "done", master |-> op[t].master, block |-> Slot(op[t].i), i |-> op[t].i,
                   turn |-> op[t].turn, seen |-> op[t].seen]
  <2>1. /\ op = [u \in Threads |-> op[u]]
        /\ op[t] = [pc |-> op[t].pc, master |-> op[t].master, block |-> op[t].block, i |-> op[t].i,
                    turn |-> op[t].turn, seen |-> op[t].seen]
    BY OpIs
  <2> HIDE DEF Slot
  <2> QED BY <1>2, <2>1
<1>4. op'[t].pc = "done" /\ op'[t].block = Slot(op[t].i) /\ op'[t].i = op[t].i
  BY <1>3
<1>5. Beside(t) /\ handles' \in [Threads -> SUBSET Nat]
  BY <1>2, <1>3 DEF Beside, Table, TableTypes
<1>6. Sweeps(t)'
  BY <1>1, <1>2, <1>4 DEF Sweeps, Leaver
<1>7. op[t].i \in handles[t]
  BY <1>1 DEF Table, Holds
<1> QED BY <1>1, <1>2, <1>4, <1>5, <1>6, <1>7, ApartKeeps, ProcessesStay DEF Apart

LEMMA StrayQuiet ==
  ASSUME Table, Calls, NEW t \in Threads, Stray(t), InTableOnly
  PROVE  Table'
<1>1. UNCHANGED <<map, array, esi, INTERNAL_LOCK, op, handles, doing, up, my_thread, members, at>>
  BY DEF Stray, InTableOnly
<1>2. Beside(t) /\ handles' \in [Threads -> SUBSET Nat]
  BY <1>1 DEF Beside, Table, TableTypes
<1>3. Sweeps(t)'
  <2>1. Entry(t)' = Entry(t)
    BY <1>1 DEF Entry
  <2> QED BY <1>1, <2>1 DEF Table, Sweeps, Leaver, Filled
<1>4. Holds(t)
  BY DEF Table
<1>5. op[t].pc \in {"load", "look"}
  BY DEF Stray
<1> QED BY <1>1, <1>2, <1>3, <1>4, <1>5, ApartKeeps, ProcessesStay DEF Apart, Holds, Freeing

\* The walk through the table is over when nothing is left of the master's.
LEMMA VisitQuiet ==
  ASSUME Table, Calls, NEW t \in Threads, Visit(t), InTableOnly
  PROVE  Table'
<1>0. Sweeps(t)
  BY DEF Table
<1>1. doing[t].stage = "sweep" /\ doing[t].call = "unregister" /\ op[t].pc = "walk" /\ doing[t] # NoCall
  BY DEF Visit, On, Calls, Control, Where, Resting, Making, NoCall
<1> DEFINE pc == IF op[t].turn < map.total THEN "look" ELSE "done"
<1>2. UNCHANGED <<map, array, esi, INTERNAL_LOCK, handles, doing, up, my_thread, members, at>>
      /\ op' = [op EXCEPT ![t].pc = pc, ![t].seen = map.array]
  BY DEF Visit, InTableOnly, WalkEnd
<1>3. pc \in {"look", "done"}
  OBVIOUS
<1>4. /\ \A u \in Threads \ {t} : op'[u] = op[u]
      /\ op'[t] = [pc |-> pc, master |-> op[t].master, block |-> op[t].block, i |-> op[t].i,
                   turn |-> op[t].turn, seen |-> map.array]
  <2>1. /\ op = [u \in Threads |-> op[u]]
        /\ op[t] = [pc |-> op[t].pc, master |-> op[t].master, block |-> op[t].block, i |-> op[t].i,
                    turn |-> op[t].turn, seen |-> op[t].seen]
    BY OpIs
  <2> HIDE DEF pc
  <2> QED BY <1>2, <2>1
<1>5. op'[t].pc = pc /\ op'[t].master = op[t].master /\ op'[t].turn = op[t].turn
  <2> HIDE DEF pc
  <2> QED BY <1>4
<1>6. Beside(t) /\ handles' \in [Threads -> SUBSET Nat]
  BY <1>2, <1>4 DEF Beside, Table, TableTypes
<1>7. op[t].turn \in Nat /\ op[t].master = Entry(t) /\ map.total \in Nat /\ Entry(t)' = Entry(t)
  BY <1>0, <1>1, <1>2 DEF Sweeps, Leaver, Table, TableTypes, Entry
<1>8. ASSUME Entry(t) # None, t \notin Wide, NEW e \in Blocks, Filled(e), esi[e].master = Entry(t)
      PROVE  op[t].turn < map.total /\ esi[e].index >= op[t].turn
  <2>1. esi[e].index \in Nat /\ esi[e].index < map.total
    BY <1>1, <1>8, FilledIs, NotClosing
  <2>2. esi[e].index >= op[t].turn
    BY <1>0, <1>1, <1>8 DEF Sweeps, Leaver
  <2> QED BY <1>7, <2>1, <2>2
<1>9. Sweeps(t)'
  <2>1. op'[t].master = Entry(t)' /\ op'[t].turn \in Nat
    BY <1>5, <1>7
  <2>2. op'[t].pc = "look" => op'[t].turn < map'.total
    BY <1>2, <1>5
  <2>3. ASSUME Entry(t) # None, t \notin Wide, NEW e \in Blocks, Filled(e)', esi'[e].master = Entry(t)'
        PROVE  op'[t].pc = "look" /\ esi'[e].index >= op'[t].turn
    <3>1. Filled(e) /\ esi[e].master = Entry(t)
      BY <1>2, <1>7, <2>3 DEF Filled
    <3> QED BY <1>2, <1>5, <1>8, <2>3, <3>1
  <2> HIDE DEF pc
  <2> QED BY <1>7, <2>1, <2>2, <2>3 DEF Sweeps, Leaver
<1> HIDE DEF pc
<1> QED BY <1>1, <1>2, <1>3, <1>5, <1>6, <1>9, ApartKeeps, ProcessesStay DEF Apart

\* What is not the master's is passed over.
LEMMA PassQuiet ==
  ASSUME Table, Calls, NEW t \in Threads, On(t, "look"), ~Mine(t, Slot(op[t].turn)), InTableOnly,
         op' = [op EXCEPT ![t].pc = "walk", ![t].turn = @ + 1],
         UNCHANGED <<map, array, esi, INTERNAL_LOCK, handles, wild>>
  PROVE  Table'
<1>0. Sweeps(t)
  BY DEF Table
<1>1. doing[t].stage = "sweep" /\ doing[t].call = "unregister" /\ op[t].pc = "look" /\ doing[t] # NoCall
  BY DEF On, Calls, Control, Where, Resting, Making, NoCall
<1>2. UNCHANGED <<doing, up, my_thread, members, at>>
  BY DEF InTableOnly
<1>3. /\ \A u \in Threads \ {t} : op'[u] = op[u]
      /\ op'[t] = [pc |-> "walk", master |-> op[t].master, block |-> op[t].block, i |-> op[t].i,
                   turn |-> op[t].turn + 1, seen |-> op[t].seen]
  <2>1. /\ op = [u \in Threads |-> op[u]]
        /\ op[t] = [pc |-> op[t].pc, master |-> op[t].master, block |-> op[t].block, i |-> op[t].i,
                    turn |-> op[t].turn, seen |-> op[t].seen]
    BY OpIs
  <2> QED BY <2>1
<1>4. op'[t].pc = "walk" /\ op'[t].master = op[t].master /\ op'[t].turn = op[t].turn + 1
  BY <1>3
<1>5. Beside(t) /\ handles' \in [Threads -> SUBSET Nat]
  BY <1>2, <1>3 DEF Beside, Table, TableTypes
<1>6. op[t].turn \in Nat /\ op[t].master = Entry(t) /\ Entry(t)' = Entry(t)
  BY <1>0, <1>1, <1>2 DEF Sweeps, Leaver, Entry
<1>7. ASSUME Entry(t) # None, t \notin Wide, NEW e \in Blocks, Filled(e), esi[e].master = Entry(t)
      PROVE  esi[e].index >= op[t].turn + 1
  <2>1. esi[e].index \in Nat /\ Slot(esi[e].index) = e /\ e # None
    BY <1>1, <1>7, FilledIs, NotClosing
  <2>2. esi[e].index >= op[t].turn
    BY <1>0, <1>1, <1>7 DEF Sweeps, Leaver
  <2>3. esi[e].index # op[t].turn
    BY <1>6, <1>7, <2>1 DEF Mine, Filled
  <2> QED BY <1>6, <2>1, <2>2, <2>3
<1>8. Sweeps(t)'
  <2>1. ASSUME Entry(t) # None, t \notin Wide, NEW e \in Blocks, Filled(e)', esi'[e].master = Entry(t)'
        PROVE  esi'[e].index >= op'[t].turn
    <3>1. Filled(e) /\ esi[e].master = Entry(t)
      BY <1>2, <1>6, <2>1 DEF Filled
    <3> QED BY <1>2, <1>4, <1>7, <2>1, <3>1
  <2>2. op'[t].turn \in Nat /\ op'[t].master = Entry(t)'
    BY <1>4, <1>6
  <2> QED BY <1>4, <1>6, <2>1, <2>2 DEF Sweeps, Leaver
<1> QED BY <1>1, <1>2, <1>4, <1>5, <1>8, ApartKeeps, ProcessesStay DEF Apart

\* What a thread makes or frees, it keeps in hand.
LEMMA HandKeeps ==
  ASSUME Table, Calls, NEW t \in Threads, InTableOnly, UNCHANGED <<map, esi, handles>>, array' \in Nat,
         \A u \in Threads \ {t} : op'[u] = op[u],
         <<op[t].pc, op'[t].pc>> \in {<<"add", "added">>, <<"freed", "clear">>, <<"swept", "sweep">>,
                                      <<"added", "fill">>, <<"added", "grown">>},
         op'[t].block = op[t].block, op'[t].master = op[t].master, op'[t].turn = op[t].turn,
         op'[t].pc # "fill" => op'[t].i = op[t].i,
         op'[t].pc = "fill" => op'[t].i \in Free(map),
         op'[t].pc = "grown" => map.avail = 0,
         TableLocked'
  PROVE  Table'
<1>0. Holds(t) /\ Creates(t) /\ Sweeps(t) /\ Where(t)
  BY DEF Table, Calls, Control
<1>1. UNCHANGED <<doing, up, my_thread, members, at>> /\ Entry(t)' = Entry(t)
  BY DEF InTableOnly, Entry
<1>2. Beside(t)
  BY <1>1 DEF Beside
<1>3. \/ op[t].pc \in Making /\ op'[t].pc \in Making /\ doing[t].stage = "create"
      \/ op[t].pc \in Freeing /\ op'[t].pc \in Freeing /\ op'[t].i = op[t].i
           /\ op'[t].pc \notin Making /\ doing[t].stage \in {"destroy", "sweep"}
  BY <1>0 DEF Where, Making, Freeing, NoCall, Resting
<1>4. Owned'
  BY <1>1, <1>2, OwnedStays, ProcessesStay
<1>5. Holds(t)'
  <2>1. \A h : (Valid(h)' <=> Valid(h)) /\ Slot(h)' = Slot(h)
    BY DEF Valid, Slot
  <2>2. op[t].pc \in Making => op'[t].pc \notin Freeing /\ op[t].pc \notin Freeing
    BY DEF Making, Freeing
  <2> QED BY <1>0, <1>1, <1>3, <2>1, <2>2 DEF Holds, Filled
<1>6. Creates(t)'
  BY <1>0, <1>1, <1>3 DEF Creates, Free, Making
<1>7. Sweeps(t)'
  <2>1. doing[t].stage = "sweep" => op[t].pc = "swept" /\ op'[t].pc = "sweep"
    BY <1>0, <1>3 DEF Where, Making, NoCall, Freeing
  <2>2. doing[t].stage # "remove" /\ op'[t].pc # "look"
    BY <1>3
  <2> QED BY <1>0, <1>1, <2>1, <2>2 DEF Sweeps, Leaver, Filled
<1>8. op'[t].pc # "cleared" /\ op[t].pc # "cleared"
  OBVIOUS
<1> QED BY <1>1, <1>2, <1>3, <1>4, <1>5, <1>6, <1>7, <1>8, QuietKeeps DEF Table, TableTypes

\* A step of t that takes the lock, or does not touch it.
LEMMA LockIs ==
  ASSUME Table, NEW t \in Threads, \A u \in Threads \ {t} : op'[u] = op[u],
         \/ INTERNAL_LOCK = None /\ INTERNAL_LOCK' = t /\ op'[t].pc \in TableHeld
         \/ op[t].pc \in TableHeld /\ INTERNAL_LOCK' = None /\ op'[t].pc \notin TableHeld
         \/ INTERNAL_LOCK' = INTERNAL_LOCK /\ (op'[t].pc \in TableHeld <=> op[t].pc \in TableHeld)
  PROVE  TableLocked'
BY ThreadListAssumption DEF Table, TableLocked, Maybe

LEMMA TakeQuiet ==
  ASSUME Table, Calls, NEW t \in Threads, TableWait(t), InTableOnly
  PROVE  Table'
<1>1. PICK pc, then : /\ <<pc, then>> \in {<<"add", "added">>, <<"freed", "clear">>, <<"swept", "sweep">>}
                      /\ Take(t, pc, then)
  BY DEF TableWait
<1>2. /\ \A u \in Threads \ {t} : op'[u] = op[u]
      /\ op'[t] = [pc |-> then, master |-> op[t].master, block |-> op[t].block, i |-> op[t].i,
                   turn |-> op[t].turn, seen |-> op[t].seen]
  <2>1. /\ op = [u \in Threads |-> op[u]]
        /\ op[t] = [pc |-> op[t].pc, master |-> op[t].master, block |-> op[t].block, i |-> op[t].i,
                    turn |-> op[t].turn, seen |-> op[t].seen]
    BY OpIs
  <2> QED BY <1>1, <2>1 DEF Take, Step
<1>3. op'[t].pc = then /\ op'[t].master = op[t].master /\ op'[t].block = op[t].block /\ op'[t].i = op[t].i
      /\ op'[t].turn = op[t].turn
  BY <1>2
<1>4. op[t].pc = pc /\ INTERNAL_LOCK = None /\ INTERNAL_LOCK' = t /\ UNCHANGED <<map, array, esi, handles>>
  BY <1>1 DEF Take, On
<1>5. TableLocked'
  BY <1>1, <1>2, <1>3, <1>4, LockIs DEF TableHeld
<1>6. then \notin {"fill", "grown"}
  BY <1>1
<1>7. array' \in Nat
  BY <1>4 DEF Table, TableTypes
<1> QED BY <1>1, <1>2, <1>3, <1>4, <1>5, <1>6, <1>7, HandKeeps

LEMMA FindSlotQuiet ==
  ASSUME Table, Calls, NEW t \in Threads, FindSlot(t), InTableOnly
  PROVE  Table'
<1>1. PICK i \in Free(map) : op' = [op EXCEPT ![t].pc = "fill", ![t].i = i]
  BY DEF FindSlot
<1>2. /\ \A u \in Threads \ {t} : op'[u] = op[u]
      /\ op'[t] = [pc |-> "fill", master |-> op[t].master, block |-> op[t].block, i |-> i,
                   turn |-> op[t].turn, seen |-> op[t].seen]
  <2>1. /\ op = [u \in Threads |-> op[u]]
        /\ op[t] = [pc |-> op[t].pc, master |-> op[t].master, block |-> op[t].block, i |-> op[t].i,
                    turn |-> op[t].turn, seen |-> op[t].seen]
    BY OpIs
  <2> HIDE DEF Free
  <2> QED BY <1>1, <2>1
<1>3. op'[t].pc = "fill" /\ op'[t].master = op[t].master /\ op'[t].block = op[t].block /\ op'[t].i = i
      /\ op'[t].turn = op[t].turn
  BY <1>2
<1>4. op[t].pc = "added" /\ UNCHANGED <<map, array, esi, handles, INTERNAL_LOCK>>
  BY DEF FindSlot, On
<1>5. TableLocked'
  BY <1>2, <1>3, <1>4, LockIs DEF TableHeld
<1>6. array' \in Nat
  BY <1>4 DEF Table, TableTypes
<1> QED BY <1>1, <1>2, <1>3, <1>4, <1>5, <1>6, HandKeeps

LEMMA ReallocQuiet ==
  ASSUME Table, Calls, NEW t \in Threads, InTableOnly, On(t, "added"), map.avail = 0,
         array' \in {array, array + 1}, Step(t, "grown"), UNCHANGED <<map, esi, INTERNAL_LOCK, handles, wild>>
  PROVE  Table'
<1>2. /\ \A u \in Threads \ {t} : op'[u] = op[u]
      /\ op'[t] = [pc |-> "grown", master |-> op[t].master, block |-> op[t].block, i |-> op[t].i,
                   turn |-> op[t].turn, seen |-> op[t].seen]
  <2>1. /\ op = [u \in Threads |-> op[u]]
        /\ op[t] = [pc |-> op[t].pc, master |-> op[t].master, block |-> op[t].block, i |-> op[t].i,
                    turn |-> op[t].turn, seen |-> op[t].seen]
    BY OpIs
  <2> QED BY <2>1 DEF Step
<1>3. op'[t].pc = "grown" /\ op'[t].master = op[t].master /\ op'[t].block = op[t].block /\ op'[t].i = op[t].i
      /\ op'[t].turn = op[t].turn
  BY <1>2
<1>4. op[t].pc = "added"
  BY DEF On
<1>5. TableLocked'
  BY <1>2, <1>3, <1>4, LockIs DEF TableHeld
<1>6. array' \in Nat
  BY DEF Table, TableTypes
<1> QED BY <1>2, <1>3, <1>4, <1>5, <1>6, HandKeeps

-----------------------------------------------------------------------------
(* The steps that change the slots or the EventSets.                       *)

\* A step of t takes nothing from u and gives it nothing.
Spared(t, u) ==
  /\ map.total <= map'.total
  /\ \A h \in handles[u] : h \notin handles'[t] /\ Slot(h)' = Slot(h) /\ (Valid(h) => Valid(h)')
  /\ \A e \in Blocks : Filled(e)' =>
       \/ /\ Filled(e) /\ esi'[e].index = esi[e].index
          /\ Leaver(u) /\ esi'[e].master = Entry(u) => esi[e].master = Entry(u)
       \/ esi'[e].index \in handles'[t] /\ (Leaver(u) => esi'[e].master # Entry(u))
  /\ op[u].pc \in Making => /\ esi'[op[u].block] = esi[op[u].block]
                            /\ op'[t].pc \in Making => op'[t].block # op[u].block
  /\ op[u].pc \in Freeing => /\ op[u].i \notin handles'[t] /\ Slot(op[u].i)' = Slot(op[u].i)
                             /\ op'[t].pc \in Freeing => op'[t].i # op[u].i
  /\ op[u].pc \in {"fill", "grown", "cleared"} => map' = map

LEMMA SparedKeep ==
  ASSUME Table, NEW t \in Threads, Beside(t), NEW u \in Threads \ {t}, Spared(t, u), map'.total \in Nat
  PROVE  Holds(u)' /\ Creates(u)' /\ Sweeps(u)'
<1>0. Holds(u) /\ Creates(u) /\ Sweeps(u)
  BY DEF Table
<1>1. op'[u] = op[u] /\ doing'[u] = doing[u] /\ my_thread'[u] = my_thread[u] /\ handles'[u] = handles[u]
      /\ Entry(u)' = Entry(u)
  BY DEF Beside, Entry
<1>2. handles[u] \subseteq Nat /\ map.total \in Nat
  BY DEF Table, TableTypes
<1>3. \A h \in handles[u] : Slot(h)' = Slot(h) /\ (Valid(h) => Valid(h)') /\ h < map'.total
  BY <1>0, <1>2 DEF Spared, Holds
<1>4. Holds(u)'
  <2>1. \A v \in Threads \ {u} : handles[u] \cap handles'[v] = {}
    BY <1>0 DEF Holds, Beside, Spared
  <2>2. op[u].pc \in Freeing =>
          /\ \A e \in Blocks : Filled(e)' => esi'[e].index # op[u].i
          /\ op[u].i < map'.total /\ Slot(op[u].i)' # None
          /\ \A v \in Threads \ {u} :
               op[u].i \notin handles'[v] /\ (op'[v].pc \in Freeing => op'[v].i # op[u].i)
    <3> SUFFICES ASSUME op[u].pc \in Freeing
                 PROVE  /\ \A e \in Blocks : Filled(e)' => esi'[e].index # op[u].i
                        /\ op[u].i < map'.total /\ Slot(op[u].i)' # None
                        /\ \A v \in Threads \ {u} :
                             op[u].i \notin handles'[v] /\ (op'[v].pc \in Freeing => op'[v].i # op[u].i)
      OBVIOUS
    <3>1. /\ op[u].i \in Nat /\ op[u].i < map.total /\ Slot(op[u].i) # None
          /\ \A e \in Blocks : Filled(e) => esi[e].index # op[u].i
          /\ \A v \in Threads \ {u} :
               op[u].i \notin handles[v] /\ (op[v].pc \in Freeing => op[v].i # op[u].i)
      BY <1>0 DEF Holds
    <3>2. /\ op[u].i \notin handles'[t] /\ Slot(op[u].i)' = Slot(op[u].i) /\ map.total <= map'.total
          /\ op'[t].pc \in Freeing => op'[t].i # op[u].i
      BY DEF Spared
    <3>3. \A e \in Blocks : Filled(e)' => esi'[e].index # op[u].i
      BY <3>1, <3>2 DEF Spared
    <3>4. op[u].i < map'.total
      BY <1>2, <3>1, <3>2
    <3>5. ASSUME NEW v \in Threads \ {u}
          PROVE  op[u].i \notin handles'[v] /\ (op'[v].pc \in Freeing => op'[v].i # op[u].i)
      <4>1. CASE v = t
        BY <3>2, <4>1
      <4>2. CASE v # t
        BY <3>1, <4>2 DEF Beside
      <4> QED BY <4>1, <4>2
    <3> QED BY <3>1, <3>2, <3>3, <3>4, <3>5
  <2>3. \A h \in handles[u] : Slot(h)' # None /\ ((op[u].pc \in Freeing /\ op[u].i = h) \/ Valid(h)')
    BY <1>0, <1>3 DEF Holds
  <2>4. /\ doing[u].stage = "lookup" /\ op[u].pc = "done" => op[u].block = Slot(op[u].i)'
        /\ doing[u].stage \in {"target", "made", "attached"} => op[u].block = Slot(op[u].i)'
    BY <1>0, <1>1, <1>3 DEF Holds
  <2> HIDE DEF Slot, Valid, Filled
  <2>5. \A i : Slot(i)' = map'.slots[i + 1]
    BY DEF Slot
  <2> QED BY <1>0, <1>1, <1>3, <2>1, <2>2, <2>3, <2>4 DEF Holds
<1>5. Creates(u)'
  <2>1. op[u].pc \in Making => \A v \in Threads \ {u} : op'[v].pc \in Making => op'[v].block # op[u].block
    BY <1>0 DEF Creates, Beside, Spared
  <2>2. op[u].pc \in Making => esi'[op[u].block] = esi[op[u].block]
    BY DEF Spared
  <2>3. op[u].pc \in {"fill", "grown", "cleared"} => map' = map
    BY DEF Spared
  <2> QED BY <1>0, <1>1, <2>1, <2>2, <2>3 DEF Creates, Free
<1>6. Sweeps(u)'
  <2>1. op[u].pc = "look" => op[u].turn \in Nat /\ op[u].turn < map'.total
    BY <1>0, <1>2 DEF Sweeps, Leaver, Spared
  <2>2. ASSUME Leaver(u), NEW e \in Blocks, Filled(e)', esi'[e].master = Entry(u)
        PROVE  Filled(e) /\ esi'[e].index = esi[e].index /\ esi[e].master = Entry(u)
    BY <2>2 DEF Spared
  <2>3. Leaver(u)' <=> Leaver(u)
    BY <1>1 DEF Leaver, Beside
  <2> QED BY <1>0, <1>1, <1>2, <2>1, <2>2, <2>3 DEF Sweeps
<1> QED BY <1>4, <1>5, <1>6

\* A step of a thread that is not shutting the library down keeps the invariant.
LEMMA TableKeeps ==
  ASSUME Table, NEW t \in Threads, Beside(t), \A u \in Threads \ {t} : Spared(t, u),
         TableTypes', TableLocked', Counted', Owned', Bare', Holds(t)', Creates(t)', Sweeps(t)'
  PROVE  Table'
<1>1. map'.total \in Nat
  BY DEF TableTypes
<1>2. \A u \in Threads \ {t} : Holds(u)' /\ Creates(u)' /\ Sweeps(u)'
  BY <1>1, SparedKeep
<1> QED BY <1>2 DEF Table

LEMMA BareStays ==
  ASSUME Table, NEW t \in Threads, Beside(t), up, up', ~Closing, doing'[t].call # "shutdown",
         \A e \in Blocks : esi'[e] = esi[e] \/ (esi'[e] # None /\ esi'[e].index = Unset => esi'[e].master = None)
  PROVE  Bare' /\ ~Closing'
BY DEF Bare, Table, Closing, Beside

LEMMA SlotIs ==
  ASSUME Table, NEW h \in Nat, h < map.total
  PROVE  Slot(h) \in Maybe(Blocks) /\ h + 1 \in 1..Len(map.slots)
<1>1. map.slots \in Seq(Maybe(Blocks)) /\ map.total \in Nat
  BY DEF Table, TableTypes
<1>2. Len(map.slots) \in Nat /\ Len(map.slots) >= map.total
  BY <1>1 DEF Table, Counted
<1> QED BY <1>1, <1>2 DEF Slot

\* What a handle names.
LEMMA HandleIs ==
  ASSUME Table, NEW t \in Threads, NEW h \in handles[t]
  PROVE  /\ h \in Nat /\ h < map.total /\ Slot(h) \in Blocks
         /\ (op[t].pc \in Freeing /\ op[t].i = h) \/ (Valid(h) /\ Filled(Slot(h)))
<1>1. h \in Nat /\ h < map.total /\ Slot(h) # None /\ ((op[t].pc \in Freeing /\ op[t].i = h) \/ Valid(h))
  BY DEF Table, TableTypes, Holds
<1>2. Slot(h) \in Blocks
  BY <1>1, SlotIs DEF Maybe
<1> QED BY <1>1, <1>2 DEF Valid, Filled, Unset

\* Memory that is no EventSet in the table, before and after.
LEMMA UnfilledKeeps ==
  ASSUME Table, NEW t \in Threads, Beside(t), up, up', ~Closing, doing'[t].call # "shutdown",
         UNCHANGED <<map, array, handles, my_thread, members>>, NEW b \in Blocks, NEW d,
         d = None \/ d = [master |-> None, index |-> Unset], ~Filled(b), esi' = [esi EXCEPT ![b] = d],
         \A u \in Threads \ {t} : op[u].pc \in Making => op[u].block # b,
         op'[t].pc \in Making => op'[t].block = b,
         op[t].pc # "cleared", op'[t].pc # "cleared", op[t].pc \notin Freeing, op'[t].pc \notin Freeing,
         doing'[t].stage \notin {"lookup", "target", "made", "attached"},
         TableLocked', Creates(t)', Sweeps(t)'
  PROVE  Table'
<1>0. d \in Maybe(EventSetInfo) /\ (d = None \/ (d.index = Unset /\ d.master = None)) /\ esi \in [Blocks -> Maybe(EventSetInfo)]
  BY DEF EventSetInfo, Maybe, Table, TableTypes
<1>1. /\ \A e \in Blocks : Filled(e)' <=> Filled(e)
      /\ \A e \in Blocks : Filled(e) => esi'[e] = esi[e]
      /\ \A e \in Blocks : e # b => esi'[e] = esi[e]
      /\ esi'[b] = d
  BY <1>0 DEF Filled
<1>2. TableTypes'
  BY <1>0 DEF Table, TableTypes
<1>3. Growing' = Growing
  BY DEF Growing, Beside
<1>4. Counted'
  BY <1>3 DEF Table, Counted, Used
<1>5. Bare' /\ ~Closing'
  BY <1>0, <1>1, BareStays
<1>6. Owned'
  <2>1. Processes' = Processes /\ \A h : Slot(h)' = Slot(h)
    BY ProcessesStay DEF Slot
  <2> QED BY <1>1, <2>1 DEF Table, Owned
<1>7. \A u \in Threads : \A h \in handles[u] : Slot(h)' = Slot(h) /\ (Valid(h) => Valid(h)')
  <2> TAKE u \in Threads
  <2> TAKE h \in handles[u]
  <2>1. Slot(h)' = Slot(h)
    BY DEF Slot
  <2>2. h \in Nat /\ Slot(h) \in Blocks
    BY HandleIs
  <2>3. ASSUME Valid(h) PROVE Valid(h)'
    <3>1. Filled(Slot(h))
      BY <2>2, <2>3 DEF Valid, Filled, Unset
    <3>2. esi'[Slot(h)] = esi[Slot(h)]
      BY <1>1, <2>2, <3>1
    <3> QED BY <2>1, <2>3, <3>2 DEF Valid
  <2> QED BY <2>1, <2>3
<1>8. \A u \in Threads \ {t} : Spared(t, u)
  <2> TAKE u \in Threads \ {t}
  <2>1. Holds(u) /\ Creates(u) /\ map.total \in Nat
    BY DEF Table, TableTypes
  <2>2. \A h \in handles[u] : h \notin handles[t]
    BY <2>1 DEF Holds
  <2>3. op[u].pc \in Making => esi'[op[u].block] = esi[op[u].block]
    BY <1>1, <2>1 DEF Creates
  <2>4. op[u].pc \in Freeing => op[u].i \notin handles[t]
    BY <2>1 DEF Holds
  <2>5. Slot(op[u].i)' = Slot(op[u].i)
    BY DEF Slot, Beside
  <2>6. \A e \in Blocks : Filled(e)' => Filled(e) /\ esi'[e] = esi[e]
    BY <1>1
  <2>7. op[u].pc \in Making => (op'[t].pc \in Making => op'[t].block # op[u].block)
    OBVIOUS
  <2> HIDE DEF Slot, Valid, Filled
  <2> QED BY <1>7, <2>1, <2>2, <2>3, <2>4, <2>5, <2>6, <2>7 DEF Spared
<1>9. Holds(t)'
  <2>1. Holds(t)
    BY DEF Table
  <2>2. \A u \in Threads \ {t} : handles'[t] \cap handles'[u] = {}
    BY <2>1 DEF Holds
  <2>3. \A h \in handles[t] : h < map.total /\ Slot(h)' # None /\ Valid(h)'
    BY <1>7, <2>1 DEF Holds
  <2> QED BY <2>2, <2>3 DEF Holds
<1> QED BY <1>2, <1>4, <1>5, <1>6, <1>8, <1>9, TableKeeps

\* An EventSet is made, or there is no memory for it.
LEMMA NewKeeps ==
  ASSUME Table, Calls, NEW t \in Threads, NewEventSet(t, my_thread[t]), op[t].pc = "idle",
         \A u \in Threads \ {t} : doing'[u] = doing[u],
         doing'[t].call = "create", doing'[t].stage = "create", up, up', ~Closing,
         UNCHANGED <<my_thread, members, at>>
  PROVE  Table'
<1>0. UNCHANGED <<map, array, INTERNAL_LOCK, handles>>
  BY DEF NewEventSet
<1>1. op = [u \in Threads |-> op[u]] /\ handles' \in [Threads -> SUBSET Nat] /\ doing[t].call # "shutdown"
  BY <1>0 DEF Calls, Shapes, Table, TableTypes, Closing
<1>2. CASE op' = [op EXCEPT ![t] = [Resting EXCEPT !.pc = "done"]] /\ UNCHANGED esi
  <2>1. op'[t].pc = "done" /\ \A u \in Threads \ {t} : op'[u] = op[u]
    BY <1>1, <1>2 DEF Resting
  <2>2. Beside(t)
    BY <1>0, <2>1 DEF Beside
  <2>3. Sweeps(t)'
    BY <2>1 DEF Sweeps, Leaver
  <2> QED BY <1>0, <1>1, <1>2, <2>1, <2>2, <2>3, ApartKeeps, ProcessesStay DEF Apart
<1>3. CASE \E e \in Blocks :
             /\ esi[e] = None
             /\ esi' = [esi EXCEPT ![e] = [master |-> None, index |-> Unset]]
             /\ op' = [op EXCEPT ![t] = [Resting EXCEPT !.pc = "add", !.master = my_thread[t], !.block = e]]
  <2>1. PICK e \in Blocks :
          /\ esi[e] = None
          /\ esi' = [esi EXCEPT ![e] = [master |-> None, index |-> Unset]]
          /\ op' = [op EXCEPT ![t] = [Resting EXCEPT !.pc = "add", !.master = my_thread[t], !.block = e]]
    BY <1>3
  <2>2. /\ \A u \in Threads \ {t} : op'[u] = op[u]
        /\ op'[t] = [pc |-> "add", master |-> my_thread[t], block |-> e, i |-> 0, turn |-> 0, seen |-> 0]
    BY <1>1, <2>1 DEF Resting
  <2>3. op'[t].pc = "add" /\ op'[t].master = my_thread[t] /\ op'[t].block = e
    BY <2>2
  <2>4. Beside(t)
    BY <1>0, <2>2 DEF Beside
  <2>5. TableLocked'
    BY <1>0, <2>2, <2>3, LockIs DEF TableHeld
  <2>6. \A u \in Threads \ {t} : op[u].pc \in Making => op[u].block # e
    BY <2>1, EventSetTableAssumption DEF Table, Creates, EventSetInfo, Maybe, Unset
  <2>7. Creates(t)'
    <3>1. esi'[e] = [master |-> None, index |-> Unset]
      BY <2>1 DEF Table, TableTypes
    <3> QED BY <2>2, <2>3, <2>6, <3>1 DEF Creates
  <2>8. Sweeps(t)'
    BY <2>3 DEF Sweeps, Leaver
  <2>9. ~Filled(e)
    BY <2>1 DEF Filled
  <2>10. "add" # "cleared" /\ "add" \notin Freeing /\ op[t].pc \notin Freeing /\ op[t].pc # "cleared"
    BY DEF Freeing
  <2> DEFINE new == [master |-> None, index |-> Unset]
  <2>11. new = None \/ new = [master |-> None, index |-> Unset]
    OBVIOUS
  <2>12. esi' = [esi EXCEPT ![e] = new]
    BY <2>1
  <2>13. doing'[t].call # "shutdown" /\ doing'[t].stage \notin {"lookup", "target", "made", "attached"}
    OBVIOUS
  <2> HIDE DEF new
  <2> QED BY <1>0, <2>3, <2>4, <2>5, <2>6, <2>7, <2>8, <2>9, <2>10, <2>11, <2>12, <2>13, UnfilledKeeps
<1> QED BY <1>2, <1>3 DEF NewEventSet

LEMMA CreateTable ==
  ASSUME Table, Calls, NEW t \in Threads, Create(t)
  PROVE  Table'
<1>1. /\ up /\ doing[t] = NoCall /\ op[t] = Resting
      /\ \A u \in Threads : doing[u].call \notin {"init", "shutdown"}
  BY ReadyIs DEF Create
<1>2. UNCHANGED <<up, my_thread, members, at>>
  BY DEF Create, InTable, threadvars, ring
<1>3. /\ \A u \in Threads \ {t} : doing'[u] = doing[u]
      /\ doing'[t] = [call |-> "create", stage |-> "create", tid |-> None, block |-> None, tmp |-> None, n |-> 0]
  BY BeginIs DEF Calls, Create
<1>4. doing'[t].call = "create" /\ doing'[t].stage = "create"
  BY <1>3
<1>5. ~Closing /\ op[t].pc = "idle"
  BY <1>1 DEF Closing, Resting
<1> QED BY <1>1, <1>2, <1>3, <1>4, <1>5, NewKeeps DEF Create

LEMMA RegisteredTable ==
  ASSUME Table, Calls, NEW t \in Threads, Registered(t)
  PROVE  Table'
<1>0. Shapes /\ Where(t) /\ Knows(t) /\ Alone(t)
  BY DEF Calls, Control
<1>1. CASE Return(t)
  BY <1>1, EndsQuiet
<1>2. CASE /\ doing[t].call = "create" /\ Entry(t) # None
           /\ NewEventSet(t, Entry(t)) /\ Then(t, "create") /\ InTable
  <2>1. /\ doing[t].stage = "register" /\ op[t] = Resting /\ my_thread[t] = Entry(t) /\ up
        /\ doing[t] # NoCall
    BY <1>0, <1>2 DEF Registered, RingDone, Doing, Where, Knows, Alone, NoCall
  <2>2. UNCHANGED <<up, my_thread, members, at>>
    BY <1>2 DEF InTable, threadvars, ring
  <2>3. /\ \A u \in Threads \ {t} : doing'[u] = doing[u]
        /\ doing'[t] = [call |-> doing[t].call, stage |-> "create", tid |-> doing[t].tid,
                        block |-> doing[t].block, tmp |-> doing[t].tmp, n |-> doing[t].n]
    BY <1>0, <1>2, ThenIs
  <2>4. doing'[t].call = "create" /\ doing'[t].stage = "create"
    BY <1>2, <2>3
  <2>5. ~Closing /\ op[t].pc = "idle"
    BY <1>2, <2>1, NotClosing DEF Resting
  <2> QED BY <1>2, <2>1, <2>2, <2>3, <2>4, <2>5, NewKeeps
<1> QED BY <1>1, <1>2 DEF Registered

\* There is no memory for a larger table.
LEMMA GiveUpTable ==
  ASSUME Table, Calls, NEW t \in Threads, On(t, "added"), GiveUp(t), InTableOnly
  PROVE  Table'
<1>0. Where(t) /\ Alone(t) /\ Creates(t)
  BY DEF Calls, Control, Table
<1>1. op[t].pc = "added" /\ doing[t].stage = "create" /\ doing[t].call = "create" /\ doing[t] # NoCall /\ up
  BY <1>0 DEF On, Where, Alone, NoCall, Resting
<1>2. /\ UNCHANGED <<map, array, handles, doing, up, my_thread, members, at>> /\ INTERNAL_LOCK' = None
      /\ esi' = [esi EXCEPT ![op[t].block] = None] /\ op' = [op EXCEPT ![t].pc = "done", ![t].block = None]
  BY DEF GiveUp, InTableOnly
<1>3. /\ \A u \in Threads \ {t} : op'[u] = op[u]
      /\ op'[t] = [pc |-> "done", master |-> op[t].master, block |-> None, i |-> op[t].i,
                   turn |-> op[t].turn, seen |-> op[t].seen]
  <2>1. /\ op = [u \in Threads |-> op[u]]
        /\ op[t] = [pc |-> op[t].pc, master |-> op[t].master, block |-> op[t].block, i |-> op[t].i,
                    turn |-> op[t].turn, seen |-> op[t].seen]
    BY OpIs
  <2> QED BY <1>2, <2>1
<1>4. op'[t].pc = "done"
  BY <1>3
<1>5. Beside(t) /\ ~Closing
  BY <1>1, <1>2, <1>3, NotClosing DEF Beside
<1>6. TableLocked'
  BY <1>1, <1>2, <1>3, <1>4, LockIs DEF TableHeld
<1>7. /\ op[t].block \in Blocks /\ ~Filled(op[t].block)
      /\ \A u \in Threads \ {t} : op[u].pc \in Making => op[u].block # op[t].block
  <2>1. op[t].block \in Blocks /\ esi[op[t].block] = [master |-> None, index |-> Unset]
        /\ \A u \in Threads \ {t} : op[u].pc \in Making => op[u].block # op[t].block
    BY <1>0, <1>1 DEF Creates, Making
  <2> QED BY <2>1 DEF Filled
<1>8. Creates(t)' /\ Sweeps(t)'
  BY <1>1, <1>2, <1>4 DEF Creates, Sweeps, Leaver, Making
<1>9. "done" \notin Making /\ "done" \notin Freeing /\ "added" \notin Freeing
  BY DEF Making, Freeing
<1> QED BY <1>1, <1>2, <1>4, <1>5, <1>6, <1>7, <1>8, <1>9, UnfilledKeeps

\* Who changes the table holds the lock, so nobody else is at that.
LEMMA HolderIs ==
  ASSUME Table, NEW t \in Threads, op[t].pc \in TableHeld
  PROVE  /\ \A u \in Threads \ {t} : op[u].pc \notin TableHeld
         /\ op[t].pc # "cleared" => ~Growing
BY DEF Table, TableLocked, Growing, TableHeld

\* The fields of the table.
LEMMA MapIs ==
  ASSUME Table
  PROVE  /\ map.array \in Nat /\ map.slots \in Seq(Maybe(Blocks)) /\ map.total \in Nat
         /\ map.avail \in Int /\ map.full \in Int /\ Len(map.slots) \in Nat /\ Len(map.slots) >= map.total
         /\ map = [array |-> map.array, slots |-> map.slots, total |-> map.total, avail |-> map.avail,
                   full |-> map.full]
BY DEF Table, TableTypes, Counted

\* One slot more in use, one less.
LEMMA UsedIs ==
  ASSUME NEW slots \in Seq(Maybe(Blocks)), NEW j \in 1..Len(slots), NEW x \in Maybe(Blocks)
  PROVE  LET new == [slots EXCEPT ![j] = x]
         IN  /\ new \in Seq(Maybe(Blocks)) /\ Len(new) = Len(slots)
             /\ \A i \in 1..Len(slots) : new[i] = IF i = j THEN x ELSE slots[i]
             /\ Cardinality(Used(slots)) \in Nat
             /\ slots[j] = None /\ x # None => Cardinality(Used(new)) = Cardinality(Used(slots)) + 1
             /\ slots[j] # None /\ x = None => Cardinality(Used(new)) = Cardinality(Used(slots)) - 1
<1> DEFINE new == [slots EXCEPT ![j] = x]
<1>1. /\ new \in Seq(Maybe(Blocks)) /\ Len(new) = Len(slots)
      /\ \A i \in 1..Len(slots) : new[i] = IF i = j THEN x ELSE slots[i]
  BY ExceptSeq
<1> HIDE DEF new
<1>2. IsFiniteSet(Used(slots)) /\ Cardinality(Used(slots)) \in Nat
  <2>1. IsFiniteSet(1..Len(slots)) /\ Used(slots) \subseteq 1..Len(slots)
    BY FS_Interval DEF Used
  <2> QED BY <2>1, FS_Subset, FS_CardinalityType
<1>3. slots[j] = None /\ x # None => Cardinality(Used(new)) = Cardinality(Used(slots)) + 1
  <2> SUFFICES ASSUME slots[j] = None, x # None PROVE Cardinality(Used(new)) = Cardinality(Used(slots)) + 1
    OBVIOUS
  <2>1. Used(new) = Used(slots) \cup {j} /\ j \notin Used(slots)
    BY <1>1 DEF Used
  <2> QED BY <1>2, <2>1, FS_AddElement
<1>4. slots[j] # None /\ x = None => Cardinality(Used(new)) = Cardinality(Used(slots)) - 1
  <2> SUFFICES ASSUME slots[j] # None, x = None PROVE Cardinality(Used(new)) = Cardinality(Used(slots)) - 1
    OBVIOUS
  <2>1. Used(new) = Used(slots) \ {j} /\ j \in Used(slots)
    BY <1>1 DEF Used
  <2> QED BY <1>2, <2>1, FS_RemoveElement
<1> QED BY <1>1, <1>2, <1>3, <1>4 DEF new

\* Two threads do not find the same ThreadInfo as their own.
LEMMA SelfIs ==
  ASSUME Calls, NEW t \in Threads, my_thread[t] # None, at[t].pc # "unlinked"
  PROVE  /\ my_thread[t] \in members
         /\ \A u \in Threads : my_thread[u] = my_thread[t] => u = t
<1>1. my_thread[t] \in members /\ info[my_thread[t]].tid = t
  BY DEF Calls, RingInv, Selves
<1>2. ASSUME NEW u \in Threads, my_thread[u] = my_thread[t] PROVE u = t
  <2>1. at[u].pc # "unlinked"
    BY <1>1, <1>2 DEF Calls, RingInv, LooseApart, Leaves, Loose
  <2>2. info[my_thread[u]].tid = u
    BY <1>2, <2>1 DEF Calls, RingInv, Selves
  <2> QED BY <1>1, <1>2, <2>2
<1> QED BY <1>1, <1>2

\* Nobody else has for its own what a thread takes out, nor is it a process.
LEMMA LeaverIs ==
  ASSUME Calls, NEW u \in Threads, Leaver(u)
  PROVE  /\ \A t \in Threads \ {u} : my_thread[t] # Entry(u)
         /\ \A x \in members : info[x].tid \in Targets => x # Entry(u)
         /\ Entry(u) \notin Processes
<1>0. Where(u) /\ Knows(u) /\ doing[u].call = "unregister" /\ Entry(u) # None /\ u \notin Wide
  BY DEF Calls, Control, Leaver
<1>1. CASE my_thread[u] = Entry(u) /\ at[u].pc # "unlinked"
  <2>1. info[Entry(u)].tid = u /\ u \notin Targets
    BY <1>0, <1>1, ThreadListAssumption DEF Calls, RingInv, Selves
  <2> QED BY <1>0, <1>1, <2>1, SelfIs DEF Processes
<1>2. CASE at[u].pc \in {"unlinked", "free"}
  <2>1. Entry(u) \notin members
    BY <1>2 DEF Calls, RingInv, LooseApart, Loose
  <2>2. ASSUME NEW t \in Threads \ {u}, my_thread[t] = Entry(u) PROVE FALSE
    <3>1. at[t].pc = "unlinked"
      BY <1>0, <2>1, <2>2 DEF Calls, RingInv, Selves
    <3>2. Entry(t) # Entry(u) /\ my_thread[t] \in {None, Entry(t)}
      BY <1>2, <3>1 DEF Calls, RingInv, LooseApart, Leaves, Loose
    <3> QED BY <1>0, <2>2, <3>2
  <2> QED BY <2>1, <2>2 DEF Processes
<1> QED BY <1>0, <1>1, <1>2 DEF Leaver, Where, Knows, OutOfRing, Leaving, NoCall

\* What Owned says of one EventSet.
InPlace(e) ==
  /\ esi[e].index < map.total /\ Slot(esi[e].index) = e
  /\ \A t \in Threads : esi[e].index \in handles[t] => esi[e].master \in {my_thread[t]} \cup Processes

LEMMA FillTable ==
  ASSUME Table, Calls, NEW t \in Threads, Fill(t), InTableOnly
  PROVE  Table'
<1> SUFFICES ASSUME NEW i, NEW b, NEW m, i = op[t].i, b = op[t].block, m = my_thread[t] PROVE Table'
  OBVIOUS
<1> DEFINE new == [map.slots EXCEPT ![i + 1] = b]
<1>0. Where(t) /\ Knows(t) /\ Alone(t) /\ Creates(t) /\ Holds(t)
  BY DEF Calls, Control, Table
<1>1. /\ op[t].pc = "fill" /\ doing[t].stage = "create" /\ doing[t].call = "create" /\ doing[t] # NoCall
      /\ up /\ m # None /\ at[t].pc \in {"idle", "done"}
  BY <1>0 DEF Fill, On, Where, Knows, Alone, NoCall, Resting
<1>2. /\ b \in Blocks /\ esi[b] = [master |-> None, index |-> Unset] /\ op[t].master = m
      /\ \A u \in Threads \ {t} : op[u].pc \in Making => op[u].block # b
      /\ i \in 0..(map.total - 1) /\ map.slots[i + 1] = None
  BY <1>0, <1>1 DEF Creates, Making, Free
<1>3. /\ map' = [array |-> map.array, slots |-> new, total |-> map.total, avail |-> map.avail - 1,
                 full |-> map.full + 1]
      /\ esi' = [esi EXCEPT ![b] = [master |-> m, index |-> i]]
      /\ handles' = [handles EXCEPT ![t] = @ \cup {i}]
      /\ INTERNAL_LOCK' = None /\ op' = [op EXCEPT ![t].pc = "done"]
      /\ UNCHANGED <<array, doing, up, my_thread, members, at>>
  <2>1. map' = [map EXCEPT !.slots[i + 1] = b, !.full = @ + 1, !.avail = @ - 1]
    BY DEF Fill
  <2>2. map = [array |-> map.array, slots |-> map.slots, total |-> map.total, avail |-> map.avail,
               full |-> map.full]
    BY MapIs
  <2>3. map' = [array |-> map.array, slots |-> new, total |-> map.total, avail |-> map.avail - 1,
                 full |-> map.full + 1]
    BY <2>1, <2>2
  <2> QED BY <1>2, <2>3 DEF Fill, Step, InTableOnly
<1>4. map'.slots = new /\ map'.total = map.total /\ map'.avail = map.avail - 1 /\ map'.full = map.full + 1
      /\ map'.array = map.array
  BY <1>3
<1>5. \A u \in Threads \ {t} : op'[u] = op[u]
  BY <1>3, OpIs
<1>6. op'[t].pc = "done"
  <2>1. op'[t] = [pc |-> "done", master |-> op[t].master, block |-> op[t].block, i |-> op[t].i,
                   turn |-> op[t].turn, seen |-> op[t].seen]
    <3>1. /\ op = [u \in Threads |-> op[u]]
          /\ op[t] = [pc |-> op[t].pc, master |-> op[t].master, block |-> op[t].block, i |-> op[t].i,
                      turn |-> op[t].turn, seen |-> op[t].seen]
      BY OpIs
    <3> QED BY <1>3, <3>1
  <2> QED BY <2>1
<1>7. /\ handles'[t] = handles[t] \cup {i} /\ \A u \in Threads \ {t} : handles'[u] = handles[u]
      /\ handles' \in [Threads -> SUBSET Nat] /\ i \in Nat
  BY <1>2, <1>3, MapIs DEF Table, TableTypes
<1>8. Beside(t)
  BY <1>3, <1>5, <1>7 DEF Beside
<1>9. /\ esi'[b] = [master |-> m, index |-> i] /\ \A e \in Blocks \ {b} : esi'[e] = esi[e]
  BY <1>2, <1>3 DEF Table, TableTypes
<1>10. esi'[b] # None /\ esi'[b].master = m /\ esi'[b].index = i /\ esi'[b] \in EventSetInfo
  <2>1. m \in Infos
    BY <1>1 DEF Calls, RingInv, RingTypes, Maybe
  <2>2. [master |-> m, index |-> i] \in EventSetInfo
    BY <1>7, <2>1 DEF EventSetInfo
  <2> QED BY <1>9, <2>2, EventSetTableAssumption
<1>11. /\ new \in Seq(Maybe(Blocks)) /\ Len(new) = Len(map.slots) /\ i + 1 \in 1..Len(map.slots)
       /\ \A j \in 1..Len(map.slots) : new[j] = IF j = i + 1 THEN b ELSE map.slots[j]
       /\ Cardinality(Used(new)) = Cardinality(Used(map.slots)) + 1
  <2>1. i + 1 \in 1..Len(map.slots) /\ b \in Maybe(Blocks) /\ b # None
    BY <1>2, MapIs, EventSetTableAssumption DEF Maybe
  <2> QED BY <1>2, <2>1, MapIs, UsedIs
<1>12. /\ \A h \in Nat : h < map.total /\ h # i => Slot(h)' = Slot(h)
       /\ Slot(i)' = b
  <2>1. \A h \in Nat : h < map.total => h + 1 \in 1..Len(map.slots)
    BY MapIs
  <2>2. \A h \in Nat : h # i => h + 1 # i + 1
    BY <1>7
  <2>3. \A h \in Nat : Slot(h)' = new[h + 1]
    BY <1>4 DEF Slot
  <2>4. new[i + 1] = b
    BY <1>11
  <2>5. Slot(i)' = b
    BY <1>7, <2>3, <2>4
  <2> QED BY <1>11, <2>1, <2>2, <2>3, <2>5 DEF Slot
<1> HIDE DEF new
<1>13. TableTypes'
  <2>1. esi' \in [Blocks -> Maybe(EventSetInfo)]
    BY <1>2, <1>3, <1>9, <1>10 DEF Table, TableTypes, Maybe
  <2>2. map' \in [array : Nat, slots : Seq(Maybe(Blocks)), total : Nat, avail : Int, full : Int]
    BY <1>3, <1>11, MapIs
  <2> QED BY <1>3, <1>7, <2>1, <2>2 DEF Table, TableTypes
<1>14. TableLocked'
  BY <1>1, <1>3, <1>5, <1>6, LockIs DEF TableHeld
<1>15. ~Growing /\ ~Growing' /\ \A u \in Threads \ {t} : op[u].pc \notin TableHeld
  <2>1. ~Growing /\ \A u \in Threads \ {t} : op[u].pc \notin TableHeld
    BY <1>1, HolderIs DEF TableHeld
  <2> QED BY <1>5, <1>6, <2>1 DEF Growing
<1>16. Counted'
  <2>1. Len(map.slots) = map.total /\ map.avail + map.full = map.total /\ map.full = Cardinality(Used(map.slots))
    BY <1>15 DEF Table, Counted
  <2>2. (map.avail - 1) + (map.full + 1) = map.total
    BY <2>1, MapIs
  <2>3. (map.total + 1)..Len(new) = {}
    BY <1>11, <2>1, MapIs
  <2> QED BY <1>4, <1>11, <1>15, <2>1, <2>2, <2>3 DEF Counted
<1>17. Bare' /\ ~Closing'
  <2>1. ~Closing /\ up /\ up' /\ doing'[t].call # "shutdown"
    BY <1>1, <1>3, NotClosing
  <2>2. \A e \in Blocks : esi'[e] = esi[e] \/ (esi'[e] # None /\ esi'[e].index = Unset => esi'[e].master = None)
    BY <1>7, <1>9, <1>10 DEF Unset
  <2> QED BY <1>8, <2>1, <2>2, BareStays
<1>18. \A u \in Threads : i \notin handles[u]
  BY <1>2, HandleIs, EventSetTableAssumption DEF Slot
<1>19. m \in members /\ \A u \in Threads : my_thread[u] = m => u = t
  <2>1. at[t].pc # "unlinked"
    BY <1>1
  <2> QED BY <1>1, <2>1, SelfIs
<1>20. Owned'
  <2> SUFFICES ASSUME NEW e \in Blocks, Filled(e)' PROVE InPlace(e)'
    BY DEF Owned, InPlace
  <2>1. CASE e = b
    <3>1. i < map.total
      BY <1>2, MapIs
    <3>2. Slot(esi[b].index)' = b
      BY <1>10, <1>12 DEF Slot
    <3>3. \A u \in Threads : i \in handles'[u] => my_thread'[u] = m
      BY <1>3, <1>7, <1>18
    <3> QED BY <1>4, <1>10, <2>1, <3>1, <3>2, <3>3 DEF InPlace
  <2>2. CASE e # b
    <3>1. esi'[e] = esi[e] /\ Filled(e)
      BY <1>9, <2>2 DEF Filled
    <3>2. /\ esi[e].index \in Nat /\ esi[e].index < map.total /\ Slot(esi[e].index) = e
          /\ \A u \in Threads : esi[e].index \in handles[u] => esi[e].master \in {my_thread[u]} \cup Processes
          /\ e # None
      BY <1>1, <3>1, FilledIs, NotClosing
    <3>3. esi[e].index # i
      BY <1>2, <3>2 DEF Slot
    <3>4. Slot(esi[e].index)' = e
      BY <1>12, <3>1, <3>2, <3>3 DEF Slot
    <3>5. Processes' = Processes /\ \A u \in Threads : esi[e].index \in handles'[u] => esi[e].index \in handles[u]
      BY <1>3, <1>7, <3>3, ProcessesStay
    <3> QED BY <1>3, <1>4, <3>1, <3>2, <3>4, <3>5 DEF InPlace
  <2> QED BY <2>1, <2>2
<1>21. \A u \in Threads : \A h \in handles[u] : Slot(h)' = Slot(h) /\ (Valid(h) => Valid(h)')
  <2> TAKE u \in Threads
  <2> TAKE h \in handles[u]
  <2>1. h \in Nat /\ h < map.total /\ Slot(h) \in Blocks /\ h # i
    BY <1>18, HandleIs
  <2>2. Slot(h)' = Slot(h)
    BY <1>12, <2>1
  <2>3. Valid(h) => Slot(h) # b
    BY <1>2, <2>1 DEF Valid, Unset
  <2> QED BY <1>9, <2>1, <2>2, <2>3 DEF Valid
<1>22. Holds(t)'
  <2>1. \A u \in Threads \ {t} : handles'[t] \cap handles'[u] = {}
    BY <1>0, <1>7, <1>18 DEF Holds
  <2>2. Valid(i)' /\ i < map'.total /\ Slot(i)' # None
    BY <1>2, <1>4, <1>10, <1>12, MapIs, EventSetTableAssumption DEF Valid
  <2>3. \A h \in handles[t] : h < map'.total /\ Slot(h)' # None /\ Valid(h)'
    BY <1>0, <1>1, <1>4, <1>21 DEF Holds, Freeing
  <2>4. op'[t].pc \notin Freeing /\ doing'[t].stage \notin {"lookup", "target", "made", "attached"}
    BY <1>1, <1>3, <1>6 DEF Freeing
  <2>5. \A h \in handles'[t] : h < map'.total /\ Slot(h)' # None /\ Valid(h)'
    BY <1>7, <2>2, <2>3
  <2> QED BY <2>1, <2>4, <2>5 DEF Holds
<1>23. Creates(t)' /\ Sweeps(t)'
  BY <1>1, <1>3, <1>6 DEF Creates, Sweeps, Leaver, Making
<1>24. \A u \in Threads \ {t} : Spared(t, u)
  <2> TAKE u \in Threads \ {t}
  <2>1. \A h \in handles[u] : h \notin handles'[t]
    BY <1>0, <1>7, <1>18 DEF Holds
  <2>2. ASSUME NEW e \in Blocks, Filled(e)'
        PROVE  \/ /\ Filled(e) /\ esi'[e].index = esi[e].index
                  /\ Leaver(u) /\ esi'[e].master = Entry(u) => esi[e].master = Entry(u)
               \/ esi'[e].index \in handles'[t] /\ (Leaver(u) => esi'[e].master # Entry(u))
    <3>1. CASE e = b
      <4>1. Leaver(u) => m # Entry(u)
        BY LeaverIs
      <4> QED BY <1>7, <1>10, <3>1, <4>1
    <3>2. CASE e # b
      BY <1>9, <2>2, <3>2 DEF Filled
    <3> QED BY <3>1, <3>2
  <2>3. op[u].pc \in Making => /\ esi'[op[u].block] = esi[op[u].block]
                              /\ op'[t].pc \notin Making
    BY <1>2, <1>6, <1>9 DEF Table, Creates, Making
  <2>4. op[u].pc \notin {"fill", "grown", "cleared"}
    BY <1>15 DEF TableHeld
  <2>5. op[u].pc \in Freeing => op[u].i \notin handles'[t] /\ Slot(op[u].i)' = Slot(op[u].i)
    <3> SUFFICES ASSUME op[u].pc \in Freeing
                 PROVE  op[u].i \notin handles'[t] /\ Slot(op[u].i)' = Slot(op[u].i)
      OBVIOUS
    <3>1. op[u].i \in Nat /\ op[u].i < map.total /\ Slot(op[u].i) # None /\ op[u].i \notin handles[t]
      BY DEF Table, Holds
    <3>2. op[u].i # i
      BY <1>2, <3>1 DEF Slot
    <3> QED BY <1>5, <1>7, <1>12, <3>1, <3>2
  <2>6. op'[t].pc \notin Freeing
    BY <1>6 DEF Freeing
  <2> QED BY <1>4, <1>21, <2>1, <2>2, <2>3, <2>4, <2>5, <2>6, MapIs DEF Spared
<1> QED BY <1>8, <1>13, <1>14, <1>16, <1>17, <1>20, <1>22, <1>23, <1>24, TableKeeps

\* A step that changes the slots, and of the EventSets none.
LEMMA SlotsKeep ==
  ASSUME Table, NEW t \in Threads, Beside(t), up, up', ~Closing, doing'[t].call # "shutdown",
         UNCHANGED <<esi, my_thread, members>>, op[t].pc \in TableHeld, TableTypes', TableLocked', Counted',
         map.total <= map'.total, handles'[t] \subseteq handles[t],
         \A h \in Nat : h < map.total /\ ~(op[t].pc \in Freeing /\ op[t].i = h) => Slot(h)' = Slot(h),
         op[t].pc \in Freeing => op[t].i \notin handles'[t],
         \A h \in handles'[t] : Valid(h),
         op'[t].pc \notin Freeing, doing'[t].stage \notin {"lookup", "target", "made", "attached"},
         op'[t].pc \in Making => op[t].pc \in Making /\ op'[t].block = op[t].block,
         Creates(t)', Sweeps(t)'
  PROVE  Table'
<1>1. Bare' /\ ~Closing'
  BY BareStays
<1>2. \A e : Filled(e)' <=> Filled(e)
  BY DEF Filled
<1>3. Owned'
  <2> SUFFICES ASSUME NEW e \in Blocks, Filled(e)' PROVE InPlace(e)'
    BY DEF Owned, InPlace
  <2>1. /\ esi[e].index \in Nat /\ esi[e].index < map.total /\ Slot(esi[e].index) = e
        /\ \A u \in Threads : esi[e].index \in handles[u] => esi[e].master \in {my_thread[u]} \cup Processes
    BY <1>2, FilledIs
  <2>2. op[t].pc \in Freeing => esi[e].index # op[t].i
    BY <1>2 DEF Table, Holds
  <2>3. Slot(esi[e].index)' = e
    BY <2>1, <2>2 DEF Slot
  <2>4. esi[e].index < map'.total
    BY <2>1, MapIs DEF TableTypes
  <2>5. Processes' = Processes /\ \A u \in Threads : handles'[u] \subseteq handles[u]
    BY ProcessesStay DEF Beside
  <2> QED BY <2>1, <2>3, <2>4, <2>5 DEF InPlace
<1>4. \A u \in Threads : \A h \in handles[u] :
        u # t \/ h \in handles'[t] => Slot(h)' = Slot(h) /\ (Valid(h) => Valid(h)')
  <2> SUFFICES ASSUME NEW u \in Threads, NEW h \in handles[u], u # t \/ h \in handles'[t]
               PROVE  Slot(h)' = Slot(h) /\ (Valid(h) => Valid(h)')
    OBVIOUS
  <2>1. h \in Nat /\ h < map.total
    BY HandleIs
  <2>2. ~(op[t].pc \in Freeing /\ op[t].i = h)
    <3>1. CASE u = t
      BY <3>1
    <3>2. CASE u # t
      BY <3>2 DEF Table, Holds
    <3> QED BY <3>1, <3>2
  <2>3. Slot(h)' = Slot(h)
    BY <2>1, <2>2
  <2> QED BY <2>3 DEF Valid
<1>5. Holds(t)'
  <2>1. \A h \in handles'[t] : h \in handles[t]
    OBVIOUS
  <2>2. \A h \in handles'[t] : h < map'.total /\ Slot(h)' # None /\ Valid(h)'
    <3> TAKE h \in handles'[t]
    <3>1. h \in Nat /\ h < map.total /\ Slot(h) # None /\ Valid(h)
      BY <2>1, HandleIs DEF Valid
    <3> QED BY <1>4, <2>1, <3>1, MapIs DEF TableTypes
  <2>3. \A u \in Threads \ {t} : handles'[t] \cap handles'[u] = {}
    BY <2>1 DEF Table, Holds, Beside
  <2> QED BY <2>2, <2>3 DEF Holds
<1>6. \A u \in Threads \ {t} : Spared(t, u)
  <2> TAKE u \in Threads \ {t}
  <2>1. \A h \in handles[u] : h \notin handles'[t]
    BY DEF Table, Holds
  <2>2. op[u].pc \in Making /\ op'[t].pc \in Making => op'[t].block # op[u].block
    BY DEF Table, Creates
  <2>3. op[u].pc \notin {"fill", "grown", "cleared"}
    BY HolderIs DEF TableHeld
  <2>4. op[u].pc \in Freeing => op[u].i \notin handles'[t] /\ Slot(op[u].i)' = Slot(op[u].i)
    <3> SUFFICES ASSUME op[u].pc \in Freeing
                 PROVE  op[u].i \notin handles'[t] /\ Slot(op[u].i)' = Slot(op[u].i)
      OBVIOUS
    <3>1. op[u].i \in Nat /\ op[u].i < map.total /\ op[u].i \notin handles[t]
          /\ (op[t].pc \in Freeing => op[t].i # op[u].i)
      BY DEF Table, Holds
    <3>2. op'[u] = op[u]
      BY DEF Beside
    <3> QED BY <3>1, <3>2
  <2>5. \A e \in Blocks : Filled(e)' => Filled(e) /\ esi'[e] = esi[e]
    BY <1>2
  <2>6. \A h \in handles[u] : Slot(h)' = Slot(h) /\ (Valid(h) => Valid(h)')
    BY <1>4
  <2> HIDE DEF Slot, Valid, Filled
  <2> QED BY <2>1, <2>2, <2>3, <2>4, <2>5, <2>6 DEF Spared
<1> QED BY <1>1, <1>3, <1>5, <1>6, TableKeeps

LEMMA SetArrayTable ==
  ASSUME Table, Calls, NEW t \in Threads, SetArray(t), InTableOnly
  PROVE  Table'
<1> DEFINE half == [i \in 1..map.total |-> None]
           new == map.slots \o half
<1>0. Where(t) /\ Alone(t) /\ Creates(t)
  BY DEF Calls, Control, Table
<1>1. /\ op[t].pc = "grown" /\ doing[t].stage = "create" /\ doing[t].call = "create" /\ doing[t] # NoCall /\ up
  BY <1>0 DEF SetArray, On, Where, Alone, NoCall, Resting
<1>2. /\ map' = [array |-> array, slots |-> new, total |-> map.total, avail |-> map.avail, full |-> map.full]
      /\ op' = [op EXCEPT ![t].pc = "cleared"]
      /\ UNCHANGED <<array, esi, INTERNAL_LOCK, handles, doing, up, my_thread, members, at>>
  <2>1. map' = [map EXCEPT !.array = array, !.slots = @ \o half]
    BY DEF SetArray
  <2>2. map = [array |-> map.array, slots |-> map.slots, total |-> map.total, avail |-> map.avail,
               full |-> map.full]
    BY MapIs
  <2> HIDE DEF half
  <2>3. map' = [array |-> array, slots |-> new, total |-> map.total, avail |-> map.avail, full |-> map.full]
    BY <2>1, <2>2
  <2> QED BY <2>3 DEF SetArray, Step, InTableOnly
<1>3. map'.slots = new /\ map'.total = map.total /\ map'.avail = map.avail /\ map'.full = map.full
  <2> HIDE DEF new
  <2> QED BY <1>2
<1>4. /\ \A u \in Threads \ {t} : op'[u] = op[u]
      /\ op'[t] = [pc |-> "cleared", master |-> op[t].master, block |-> op[t].block, i |-> op[t].i,
                   turn |-> op[t].turn, seen |-> op[t].seen]
  <2>1. /\ op = [u \in Threads |-> op[u]]
        /\ op[t] = [pc |-> op[t].pc, master |-> op[t].master, block |-> op[t].block, i |-> op[t].i,
                    turn |-> op[t].turn, seen |-> op[t].seen]
    BY OpIs
  <2> QED BY <1>2, <2>1
<1>5. op'[t].pc = "cleared" /\ op'[t].master = op[t].master /\ op'[t].block = op[t].block
  BY <1>4
<1>6. Beside(t)
  BY <1>2, <1>4 DEF Beside
<1>7. /\ new \in Seq(Maybe(Blocks)) /\ Len(new) = Len(map.slots) + map.total
      /\ \A i \in 1..(Len(map.slots) + map.total) :
           new[i] = IF i <= Len(map.slots) THEN map.slots[i] ELSE None
  <2>1. half \in Seq(Maybe(Blocks)) /\ Len(half) = map.total
    BY MapIs DEF Maybe
  <2>2. \A i \in 1..map.total : half[i] = None
    OBVIOUS
  <2> HIDE DEF half
  <2>3. /\ new \in Seq(Maybe(Blocks)) /\ Len(new) = Len(map.slots) + map.total
        /\ \A i \in 1..(Len(map.slots) + map.total) :
             new[i] = IF i <= Len(map.slots) THEN map.slots[i] ELSE half[i - Len(map.slots)]
    <3>1. map.slots \in Seq(Maybe(Blocks))
      BY MapIs
    <3>2. /\ new \in Seq(Maybe(Blocks)) /\ Len(new) = Len(map.slots) + Len(half)
          /\ \A i \in 1..(Len(map.slots) + Len(half)) :
               new[i] = IF i <= Len(map.slots) THEN map.slots[i] ELSE half[i - Len(map.slots)]
      BY <2>1, <3>1, ConcatProperties
    <3> QED BY <2>1, <3>2
  <2> QED BY <2>1, <2>2, <2>3, MapIs
<1> HIDE DEF new
<1>8. ~Growing /\ Growing'
  BY <1>1, <1>5, HolderIs DEF TableHeld, Growing
<1>9. Len(map.slots) = map.total /\ map.avail + map.full = map.total /\ map.full = Cardinality(Used(map.slots))
  BY <1>8 DEF Table, Counted
<1>10. Used(new) = Used(map.slots)
  BY <1>7, <1>9, MapIs DEF Used
<1>11. Counted'
  <2>1. \A i \in (map.total + 1)..Len(new) : new[i] = None
    BY <1>7, <1>9, MapIs
  <2>2. Len(new) = 2 * map.total
    BY <1>7, <1>9, MapIs
  <2> QED BY <1>3, <1>8, <1>9, <1>10, <2>1, <2>2 DEF Counted
<1>12. TableTypes'
  <2>1. map' \in [array : Nat, slots : Seq(Maybe(Blocks)), total : Nat, avail : Int, full : Int]
    BY <1>2, <1>7, MapIs DEF Table, TableTypes
  <2> QED BY <1>2, <2>1 DEF Table, TableTypes
<1>13. TableLocked'
  BY <1>1, <1>2, <1>4, <1>5, LockIs DEF TableHeld
<1>14. \A h \in Nat : h < map.total => Slot(h)' = Slot(h)
  <2>1. \A h \in Nat : h < map.total => h + 1 \in 1..(Len(map.slots) + map.total) /\ h + 1 <= Len(map.slots)
    BY MapIs
  <2>2. \A h \in Nat : h < map.total => new[h + 1] = map.slots[h + 1]
    BY <1>7, <2>1
  <2> QED BY <1>3, <2>2 DEF Slot
<1>15. Creates(t)' /\ Sweeps(t)'
  <2>1. /\ op[t].block \in Blocks /\ esi[op[t].block] = [master |-> None, index |-> Unset]
        /\ op[t].master = my_thread[t]
        /\ \A u \in Threads \ {t} : op[u].pc \in Making => op[u].block # op[t].block
        /\ map.avail = 0
    BY <1>0, <1>1 DEF Creates, Making
  <2>2. Creates(t)'
    BY <1>2, <1>3, <1>4, <1>5, <2>1 DEF Creates
  <2>3. Sweeps(t)'
    BY <1>1, <1>2, <1>5 DEF Sweeps, Leaver
  <2> QED BY <2>2, <2>3
<1>16. \A h \in handles[t] : Valid(h)
  BY <1>1, HandleIs DEF Freeing
<1>17. op[t].pc \in TableHeld /\ op[t].pc \in Making /\ op[t].pc \notin Freeing /\ op'[t].pc \notin Freeing
  BY <1>1, <1>5 DEF TableHeld, Making, Freeing
<1>18. ~Closing /\ map.total <= map'.total
  BY <1>1, <1>3, NotClosing, MapIs
<1> QED BY <1>1, <1>2, <1>5, <1>6, <1>11, <1>12, <1>13, <1>14, <1>15, <1>16, <1>17, <1>18, SlotsKeep

LEMMA SetTotalTable ==
  ASSUME Table, Calls, NEW t \in Threads, SetTotal(t), InTableOnly
  PROVE  Table'
<1>0. Where(t) /\ Alone(t) /\ Creates(t)
  BY DEF Calls, Control, Table
<1>1. /\ op[t].pc = "cleared" /\ doing[t].stage = "create" /\ doing[t].call = "create" /\ doing[t] # NoCall /\ up
  BY <1>0 DEF SetTotal, On, Where, Alone, NoCall, Resting
<1>2. /\ map' = [array |-> map.array, slots |-> map.slots, total |-> 2 * map.total,
                 avail |-> 2 * map.total - map.full, full |-> map.full]
      /\ op' = [op EXCEPT ![t].pc = "added"]
      /\ UNCHANGED <<array, esi, INTERNAL_LOCK, handles, doing, up, my_thread, members, at>>
  <2>1. map' = [map EXCEPT !.total = 2 * map.total, !.avail = 2 * map.total - map.full]
    BY MapIs DEF SetTotal, Doubled
  <2>2. map = [array |-> map.array, slots |-> map.slots, total |-> map.total, avail |-> map.avail,
               full |-> map.full]
    BY MapIs
  <2>3. map' = [array |-> map.array, slots |-> map.slots, total |-> 2 * map.total,
                avail |-> 2 * map.total - map.full, full |-> map.full]
    BY <2>1, <2>2
  <2> QED BY <2>3 DEF SetTotal, Step, InTableOnly
<1>3. map'.slots = map.slots /\ map'.total = 2 * map.total /\ map'.avail = 2 * map.total - map.full /\ map'.full = map.full
  BY <1>2
<1>4. /\ \A u \in Threads \ {t} : op'[u] = op[u]
      /\ op'[t] = [pc |-> "added", master |-> op[t].master, block |-> op[t].block, i |-> op[t].i,
                   turn |-> op[t].turn, seen |-> op[t].seen]
  <2>1. /\ op = [u \in Threads |-> op[u]]
        /\ op[t] = [pc |-> op[t].pc, master |-> op[t].master, block |-> op[t].block, i |-> op[t].i,
                    turn |-> op[t].turn, seen |-> op[t].seen]
    BY OpIs
  <2> QED BY <1>2, <2>1
<1>5. op'[t].pc = "added" /\ op'[t].master = op[t].master /\ op'[t].block = op[t].block
  BY <1>4
<1>6. Beside(t)
  BY <1>2, <1>4 DEF Beside
<1>7. Growing /\ ~Growing'
  <2>1. Growing
    BY <1>1 DEF Growing
  <2>2. \A u \in Threads \ {t} : op[u].pc # "cleared"
    BY <1>1, HolderIs DEF TableHeld
  <2> QED BY <1>4, <1>5, <2>1, <2>2 DEF Growing
<1>8. Len(map.slots) = 2 * map.total /\ map.full = Cardinality(Used(map.slots))
  BY <1>7 DEF Table, Counted
<1>9. Counted'
  <2>1. (2 * map.total + 1)..Len(map.slots) = {}
    BY <1>8, MapIs
  <2>2. (2 * map.total - map.full) + map.full = 2 * map.total
    BY MapIs
  <2> QED BY <1>3, <1>7, <1>8, <2>1, <2>2 DEF Counted
<1>10. TableTypes'
  <2>1. map' \in [array : Nat, slots : Seq(Maybe(Blocks)), total : Nat, avail : Int, full : Int]
    BY <1>2, MapIs
  <2> QED BY <1>2, <2>1 DEF Table, TableTypes
<1>11. TableLocked'
  BY <1>1, <1>2, <1>4, <1>5, LockIs DEF TableHeld
<1>12. \A h \in Nat : h < map.total => Slot(h)' = Slot(h)
  BY <1>3 DEF Slot
<1>13. Creates(t)' /\ Sweeps(t)'
  <2>1. /\ op[t].block \in Blocks /\ esi[op[t].block] = [master |-> None, index |-> Unset]
        /\ op[t].master = my_thread[t]
        /\ \A u \in Threads \ {t} : op[u].pc \in Making => op[u].block # op[t].block
    BY <1>0, <1>1 DEF Creates, Making
  <2>2. Creates(t)'
    BY <1>2, <1>4, <1>5, <2>1 DEF Creates
  <2>3. Sweeps(t)'
    BY <1>1, <1>2, <1>5 DEF Sweeps, Leaver
  <2> QED BY <2>2, <2>3
<1>14. \A h \in handles[t] : Valid(h)
  BY <1>1, HandleIs DEF Freeing
<1>15. op[t].pc \in TableHeld /\ op[t].pc \in Making /\ op[t].pc \notin Freeing /\ op'[t].pc \notin Freeing
  BY <1>1, <1>5 DEF TableHeld, Making, Freeing
<1>16. ~Closing /\ map.total <= map'.total
  BY <1>1, <1>3, NotClosing, MapIs
<1> QED BY <1>1, <1>2, <1>5, <1>6, <1>9, <1>10, <1>11, <1>12, <1>13, <1>14, <1>15, <1>16, SlotsKeep

\* The slot of an EventSet that was freed is emptied, and the handle is gone.
LEMMA ClearTable ==
  ASSUME Table, Calls, NEW t \in Threads, NEW pc, NEW then, <<pc, then>> \in {<<"clear", "done">>, <<"sweep", "walk">>},
         Clear(t, pc, then), InTableOnly
  PROVE  Table'
<1> SUFFICES ASSUME NEW i, i = op[t].i PROVE Table'
  OBVIOUS
<1> DEFINE new == [map.slots EXCEPT ![i + 1] = None]
<1>0. Where(t) /\ Alone(t) /\ Sweeps(t) /\ Holds(t)
  BY DEF Calls, Control, Table
<1>1. /\ op[t].pc = pc /\ doing[t].stage \in {"destroy", "sweep"} /\ doing[t].call \in {"destroy", "unregister"}
      /\ doing[t] # NoCall /\ up /\ (pc = "clear" <=> doing[t].stage = "destroy")
  BY <1>0 DEF Clear, On, Where, Alone, NoCall, Resting, Making
<1>2. /\ op[t].pc \in Freeing /\ i \in Nat /\ i < map.total /\ Slot(i) \in Blocks
      /\ \A e \in Blocks : Filled(e) => esi[e].index # i
  <2>1. op[t].pc \in Freeing
    BY <1>1 DEF Freeing
  <2>2. /\ i \in Nat /\ i < map.total /\ Slot(i) # None
        /\ \A e \in Blocks : Filled(e) => esi[e].index # i
    BY <1>0, <2>1 DEF Holds
  <2> QED BY <2>1, <2>2, SlotIs DEF Maybe
<1>3. /\ map' = [array |-> map.array, slots |-> new, total |-> map.total, avail |-> map.avail + 1,
                 full |-> map.full - 1]
      /\ handles' = [handles EXCEPT ![t] = @ \ {i}]
      /\ INTERNAL_LOCK' = None /\ op' = [op EXCEPT ![t].pc = then, ![t].turn = @ + 1]
      /\ UNCHANGED <<array, esi, doing, up, my_thread, members, at>>
  <2>1. map' = [map EXCEPT !.slots[i + 1] = None, !.avail = @ + 1, !.full = @ - 1]
    BY DEF Clear, Emptied
  <2>2. map = [array |-> map.array, slots |-> map.slots, total |-> map.total, avail |-> map.avail,
               full |-> map.full]
    BY MapIs
  <2>3. map' = [array |-> map.array, slots |-> new, total |-> map.total, avail |-> map.avail + 1,
                full |-> map.full - 1]
    BY <2>1, <2>2
  <2> QED BY <2>3 DEF Clear, InTableOnly
<1>4. map'.slots = new /\ map'.total = map.total /\ map'.avail = map.avail + 1 /\ map'.full = map.full - 1
  BY <1>3
<1>5. /\ \A u \in Threads \ {t} : op'[u] = op[u]
      /\ op'[t] = [pc |-> then, master |-> op[t].master, block |-> op[t].block, i |-> op[t].i,
                   turn |-> op[t].turn + 1, seen |-> op[t].seen]
  <2>1. /\ op = [u \in Threads |-> op[u]]
        /\ op[t] = [pc |-> op[t].pc, master |-> op[t].master, block |-> op[t].block, i |-> op[t].i,
                    turn |-> op[t].turn, seen |-> op[t].seen]
    BY OpIs
  <2> QED BY <1>3, <2>1
<1>6. op'[t].pc = then /\ op'[t].master = op[t].master /\ op'[t].turn = op[t].turn + 1
  BY <1>5
<1>7. /\ handles'[t] = handles[t] \ {i} /\ \A u \in Threads \ {t} : handles'[u] = handles[u]
      /\ handles' \in [Threads -> SUBSET Nat]
  BY <1>3 DEF Table, TableTypes
<1>8. Beside(t)
  BY <1>3, <1>5, <1>7 DEF Beside
<1>9. /\ new \in Seq(Maybe(Blocks)) /\ Len(new) = Len(map.slots) /\ i + 1 \in 1..Len(map.slots)
      /\ \A j \in 1..Len(map.slots) : new[j] = IF j = i + 1 THEN None ELSE map.slots[j]
      /\ Cardinality(Used(new)) = Cardinality(Used(map.slots)) - 1
  <2>1. i + 1 \in 1..Len(map.slots) /\ None \in Maybe(Blocks)
    BY <1>2, MapIs DEF Maybe
  <2>2. map.slots[i + 1] # None
    BY <1>2, EventSetTableAssumption DEF Slot
  <2> QED BY <2>1, <2>2, MapIs, UsedIs
<1> HIDE DEF new
<1>10. ~Growing /\ ~Growing'
  <2>1. op[t].pc \in TableHeld /\ op[t].pc # "cleared" /\ then # "cleared"
    BY <1>1 DEF TableHeld
  <2> QED BY <1>5, <1>6, <2>1, HolderIs DEF Growing
<1>11. Len(map.slots) = map.total /\ map.avail + map.full = map.total /\ map.full = Cardinality(Used(map.slots))
  BY <1>10 DEF Table, Counted
<1>12. Counted'
  <2>1. (map.avail + 1) + (map.full - 1) = map.total
    BY <1>11, MapIs
  <2>2. (map.total + 1)..Len(new) = {}
    BY <1>9, <1>11, MapIs
  <2> QED BY <1>4, <1>9, <1>10, <1>11, <2>1, <2>2 DEF Counted
<1>13. TableTypes'
  <2>1. map' \in [array : Nat, slots : Seq(Maybe(Blocks)), total : Nat, avail : Int, full : Int]
    BY <1>3, <1>9, MapIs
  <2> QED BY <1>3, <1>7, <2>1 DEF Table, TableTypes
<1>14. TableLocked'
  BY <1>1, <1>3, <1>5, <1>6, LockIs DEF TableHeld
<1>15. \A h \in Nat : h < map.total /\ ~(op[t].pc \in Freeing /\ op[t].i = h) => Slot(h)' = Slot(h)
  <2>1. \A h \in Nat : h < map.total => h + 1 \in 1..Len(map.slots)
    BY MapIs
  <2>2. \A h \in Nat : h # i => h + 1 # i + 1
    BY <1>2
  <2>3. \A h \in Nat : h < map.total /\ h # i => new[h + 1] = map.slots[h + 1]
    BY <1>9, <2>1, <2>2
  <2> QED BY <1>2, <1>4, <1>7, <2>3 DEF Slot
<1>16. Creates(t)'
  BY <1>1, <1>6 DEF Creates, Making
<1>17. Sweeps(t)'
  <2>1. CASE doing[t].stage = "destroy"
    BY <1>1, <1>3, <1>6, <2>1 DEF Sweeps, Leaver
  <2>2. CASE doing[t].stage = "sweep"
    <3>1. pc = "sweep" /\ then = "walk" /\ op[t].turn \in Nat /\ op[t].master = Entry(t)
          /\ doing[t].call = "unregister" /\ Entry(t)' = Entry(t)
      BY <1>0, <1>1, <1>3, <2>2 DEF Sweeps, Where, NoCall, Entry
    <3>2. ASSUME Leaver(t)', NEW e \in Blocks, Filled(e)', esi'[e].master = Entry(t)'
          PROVE  esi'[e].index >= op'[t].turn
      <4>1. Filled(e) /\ esi[e].master = Entry(t) /\ Leaver(t)
        BY <1>3, <3>1, <3>2 DEF Filled, Leaver
      <4>2. esi[e].index > op[t].turn
        BY <1>0, <1>1, <3>1, <4>1 DEF Sweeps
      <4>3. esi[e].index \in Nat
        BY <4>1, FilledIs
      <4> QED BY <1>3, <1>6, <3>1, <4>2, <4>3
    <3>3. op'[t].turn \in Nat /\ op'[t].master = Entry(t)' /\ op'[t].pc = "walk"
      BY <1>6, <3>1
    <3> QED BY <3>2, <3>3 DEF Sweeps
  <2> QED BY <1>1, <2>1, <2>2
<1>18. \A h \in handles'[t] : Valid(h)
  BY <1>7, HandleIs
<1>19. op[t].pc \in Freeing => op[t].i \notin handles'[t]
  BY <1>7
<1>20. op[t].pc \in TableHeld /\ op'[t].pc \notin Making /\ op'[t].pc \notin Freeing
  BY <1>1, <1>6 DEF TableHeld, Making, Freeing
<1>21. ~Closing /\ map.total <= map'.total
  BY <1>1, <1>4, NotClosing, MapIs
<1>22. doing'[t].call # "shutdown" /\ doing'[t].stage \notin {"lookup", "target", "made", "attached"} /\ up'
  BY <1>1, <1>3
<1>23. handles'[t] \subseteq handles[t] /\ UNCHANGED <<esi, my_thread, members>>
  BY <1>3, <1>7
<1> QED BY <1>1, <1>8, <1>12, <1>13, <1>14, <1>15, <1>16, <1>17, <1>18, <1>19, <1>20, <1>21, <1>22, <1>23, SlotsKeep

\* An EventSet in the table is freed that no other thread has a handle of. Who has its
\* handle has it until the slot is empty.
LEMMA FreeTable ==
  ASSUME Table, Calls, NEW t \in Threads, NEW e \in Blocks, Filled(e),
         \A u \in Threads \ {t} : esi[e].index \notin handles[u],
         op[t].pc \notin Freeing \cup TableHeld, NEW then \in {"freed", "swept"}, FreeEventSet(t, e, then),
         \A u \in Threads \ {t} : doing'[u] = doing[u], doing'[t].call # "shutdown",
         doing'[t].stage \notin {"lookup", "target", "made", "attached"}, up, up', ~Closing,
         UNCHANGED <<my_thread, members, at>>,
         op'[t].master = op[t].master /\ op'[t].turn = op[t].turn => Sweeps(t)'
  PROVE  Table'
<1> SUFFICES ASSUME NEW i, i = esi[e].index PROVE Table'
  OBVIOUS
<1>1. /\ UNCHANGED <<map, array, INTERNAL_LOCK, handles>> /\ esi' = [esi EXCEPT ![e] = None]
      /\ op' = [op EXCEPT ![t].pc = then, ![t].i = i]
  BY DEF FreeEventSet
<1>2. /\ \A u \in Threads \ {t} : op'[u] = op[u]
      /\ op'[t] = [pc |-> then, master |-> op[t].master, block |-> op[t].block, i |-> i,
                   turn |-> op[t].turn, seen |-> op[t].seen]
  <2>1. /\ op = [u \in Threads |-> op[u]]
        /\ op[t] = [pc |-> op[t].pc, master |-> op[t].master, block |-> op[t].block, i |-> op[t].i,
                    turn |-> op[t].turn, seen |-> op[t].seen]
    BY OpIs
  <2> QED BY <1>1, <2>1
<1>3. op'[t].pc = then /\ op'[t].master = op[t].master /\ op'[t].turn = op[t].turn /\ op'[t].i = i
  BY <1>2
<1>4. Beside(t)
  BY <1>1, <1>2 DEF Beside
<1>5. esi'[e] = None /\ ~Filled(e)' /\ \A f \in Blocks \ {e} : esi'[f] = esi[f] /\ (Filled(f)' <=> Filled(f))
  BY <1>1 DEF Table, TableTypes, Filled
<1>6. /\ i \in Nat /\ i < map.total /\ Slot(i) = e
      /\ \A f \in Blocks \ {e} : Filled(f) => esi[f].index # i
  BY FilledIs
<1>7. TableTypes'
  BY <1>1 DEF Table, TableTypes, Maybe
<1>8. TableLocked'
  BY <1>1, <1>2, <1>3, LockIs DEF TableHeld
<1>9. Growing' = Growing
  BY <1>2, <1>3 DEF Growing, TableHeld
<1>10. Counted'
  BY <1>1, <1>9 DEF Table, Counted
<1>11. Bare' /\ ~Closing'
  BY <1>4, <1>5, BareStays
<1>12. Owned'
  <2> SUFFICES ASSUME NEW f \in Blocks, Filled(f)' PROVE InPlace(f)'
    BY DEF Owned, InPlace
  <2>1. f # e /\ esi'[f] = esi[f] /\ Filled(f)
    BY <1>5
  <2>2. Processes' = Processes
    BY ProcessesStay
  <2>3. /\ esi[f].index < map.total /\ Slot(esi[f].index) = f
        /\ \A u \in Threads : esi[f].index \in handles[u] => esi[f].master \in {my_thread[u]} \cup Processes
    BY <2>1, FilledIs
  <2> QED BY <1>1, <2>1, <2>2, <2>3 DEF InPlace, Slot
<1>13. \A u \in Threads : \A h \in handles[u] : Slot(h)' = Slot(h) /\ (h # i /\ Valid(h) => Valid(h)')
  <2> TAKE u \in Threads
  <2> TAKE h \in handles[u]
  <2>1. Slot(h)' = Slot(h) /\ Slot(h) \in Blocks
    BY <1>1, HandleIs DEF Slot
  <2>2. h # i /\ Valid(h) => Slot(h) # e
    BY DEF Valid
  <2> QED BY <1>5, <2>1, <2>2 DEF Valid
<1>14. Holds(t)'
  <2>1. Holds(t) /\ op'[t].pc \in Freeing
    BY <1>3 DEF Table, Freeing
  <2>2. \A f \in Blocks : Filled(f)' => esi'[f].index # i
    BY <1>5, <1>6
  <2>3. \A h \in handles[t] : h < map.total /\ Slot(h)' # None /\ (h = i \/ Valid(h)')
    BY <1>13, <2>1 DEF Holds
  <2>4. Slot(i)' # None /\ i < map'.total
    BY <1>1, <1>6, EventSetTableAssumption DEF Slot
  <2>5. ASSUME NEW u \in Threads \ {t} PROVE i \notin handles'[u] /\ (op'[u].pc \in Freeing => op'[u].i # i)
    <3>1. Holds(u)
      BY DEF Table
    <3>2. op[u].pc \in Freeing => op[u].i # i
      BY <3>1 DEF Holds
    <3> QED BY <1>1, <1>2, <3>2
  <2> QED BY <1>1, <1>3, <1>6, <2>1, <2>2, <2>3, <2>4, <2>5 DEF Holds
<1>15. Creates(t)'
  BY <1>3 DEF Creates, Making
<1>16. \A u \in Threads \ {t} : Spared(t, u)
  <2> TAKE u \in Threads \ {t}
  <2>1. \A h \in handles[u] : h \notin handles[t] /\ h # i
    BY DEF Table, Holds
  <2>2. op[u].pc \in Making => op[u].block # e /\ op[u].block \in Blocks
    BY DEF Table, Creates, Filled
  <2>3. op[u].pc \in Freeing => op[u].i \notin handles[t] /\ op[u].i # i
    BY DEF Table, Holds
  <2>4. Slot(op[u].i)' = Slot(op[u].i)
    BY <1>1, <1>2 DEF Slot
  <2>5. \A f \in Blocks : Filled(f)' => Filled(f) /\ esi'[f] = esi[f]
    BY <1>5
  <2>6. \A h \in handles[u] : h \notin handles'[t] /\ Slot(h)' = Slot(h) /\ (Valid(h) => Valid(h)')
    BY <1>1, <1>13, <2>1
  <2>7. op[u].pc \in Making => esi'[op[u].block] = esi[op[u].block] /\ op'[t].pc \notin Making
    BY <1>3, <1>5, <2>2 DEF Making
  <2> HIDE DEF Slot, Valid, Filled
  <2> QED BY <1>1, <1>3, <2>3, <2>4, <2>5, <2>6, <2>7, MapIs DEF Spared
<1> QED BY <1>3, <1>4, <1>7, <1>8, <1>10, <1>11, <1>12, <1>14, <1>15, <1>16, TableKeeps

LEMMA DoomedTable ==
  ASSUME Table, Calls, NEW t \in Threads, Doomed(t)
  PROVE  Table'
<1>0. Shapes /\ Where(t) /\ Alone(t) /\ Holds(t)
  BY DEF Calls, Control, Table
<1>1. /\ doing[t].stage = "lookup" /\ doing[t].call = "destroy" /\ op[t].pc = "done" /\ doing[t] # NoCall /\ up
  BY <1>0 DEF Doomed, TableDone, Doing, NoCall, Alone
<1>2. UNCHANGED <<my_thread, members, up, at>> /\ FreeEventSet(t, op[t].block, "freed")
  BY DEF Doomed, InTable, threadvars, ring
<1>3. /\ \A u \in Threads \ {t} : doing'[u] = doing[u]
      /\ doing'[t] = [call |-> doing[t].call, stage |-> "destroy", tid |-> doing[t].tid,
                      block |-> doing[t].block, tmp |-> doing[t].tmp, n |-> doing[t].n]
  BY <1>0, ThenIs DEF Doomed
<1>4. doing'[t].call = "destroy" /\ doing'[t].stage = "destroy"
  BY <1>1, <1>3
<1>5. op[t].i \in handles[t] /\ op[t].block = Slot(op[t].i) /\ op[t].pc \notin Freeing \cup TableHeld
  BY <1>0, <1>1 DEF Holds, Freeing, TableHeld
<1>6. op[t].block \in Blocks /\ Filled(op[t].block) /\ esi[op[t].block].index = op[t].i
  BY <1>5, HandleIs DEF Valid
<1>7. op'[t].pc = "freed" => Sweeps(t)'
  BY <1>4 DEF Sweeps, Leaver
<1>8. op'[t].pc = "freed"
  <2> DEFINE index == esi[op[t].block].index
  <2>1. /\ op = [u \in Threads |-> op[u]]
        /\ op[t] = [pc |-> op[t].pc, master |-> op[t].master, block |-> op[t].block, i |-> op[t].i,
                    turn |-> op[t].turn, seen |-> op[t].seen]
    BY OpIs
  <2>2. op' = [op EXCEPT ![t].pc = "freed", ![t].i = index]
    BY <1>2 DEF FreeEventSet
  <2> HIDE DEF index
  <2>3. op'[t] = [pc |-> "freed", master |-> op[t].master, block |-> op[t].block, i |-> index,
                  turn |-> op[t].turn, seen |-> op[t].seen]
    BY <2>1, <2>2
  <2> QED BY <2>3
<1>9. ~Closing
  BY <1>1, NotClosing
<1>10. \A u \in Threads \ {t} : esi[op[t].block].index \notin handles[u]
  BY <1>0, <1>5, <1>6 DEF Holds
<1> QED BY <1>1, <1>2, <1>3, <1>4, <1>5, <1>6, <1>7, <1>8, <1>9, <1>10, FreeTable

\* What belongs to the master is freed, and is the only one in its slot.
LEMMA LookTable ==
  ASSUME Table, Calls, NEW t \in Threads, Look(t), InTableOnly
  PROVE  Table'
<1> SUFFICES ASSUME NEW e, e = Slot(op[t].turn) PROVE Table'
  OBVIOUS
<1>0. Shapes /\ Where(t) /\ Knows(t) /\ Alone(t) /\ Sweeps(t)
  BY DEF Calls, Control, Table
<1>1. /\ doing[t].stage = "sweep" /\ doing[t].call = "unregister" /\ op[t].pc = "look" /\ doing[t] # NoCall
      /\ up /\ at[t].pc = "done"
  BY <1>0 DEF Look, On, Where, Alone, NoCall, Resting, Making
<1>2. CASE ~Mine(t, e)
  BY <1>2, PassQuiet DEF Look
<1>3. CASE Mine(t, e)
  <2>1. UNCHANGED <<my_thread, members, up, doing, at>> /\ FreeEventSet(t, e, "swept")
    BY <1>3 DEF Look, InTableOnly
  <2>2. op[t].turn \in Nat /\ op[t].turn < map.total /\ op[t].master = Entry(t) /\ Entry(t)' = Entry(t)
    BY <1>0, <1>1, <2>1 DEF Sweeps, Entry
  <2>3. e \in Blocks /\ esi[e] # None /\ esi[e].master = Entry(t) /\ Entry(t) # None
    BY <1>3, <2>2, SlotIs DEF Mine, Maybe
  <2>4. Filled(e)
    BY <1>1, <2>3 DEF Table, Bare, Filled
  <2>5. ~Closing
    BY <1>1, NotClosing
  <2>6. Leaver(t) /\ \A u \in Threads \ {t} : esi[e].index \notin handles[u]
    <3>1. t \notin Wide
      BY <1>0, <1>1, <2>3 DEF Knows
    <3>2. Leaver(t)
      BY <1>1, <2>3, <3>1 DEF Leaver
    <3> QED BY <2>3, <2>4, <2>5, <3>2, FilledIs, LeaverIs
  <2>7. op[t].pc \notin Freeing \cup TableHeld
    BY <1>1 DEF Freeing, TableHeld
  <2>8. /\ op'[t].pc = "swept" /\ esi' = [esi EXCEPT ![e] = None]
    <3> DEFINE index == esi[e].index
    <3>1. /\ op = [u \in Threads |-> op[u]]
          /\ op[t] = [pc |-> op[t].pc, master |-> op[t].master, block |-> op[t].block, i |-> op[t].i,
                      turn |-> op[t].turn, seen |-> op[t].seen]
      BY OpIs
    <3>2. op' = [op EXCEPT ![t].pc = "swept", ![t].i = index] /\ esi' = [esi EXCEPT ![e] = None]
      BY <2>1 DEF FreeEventSet
    <3> HIDE DEF index
    <3>3. op'[t] = [pc |-> "swept", master |-> op[t].master, block |-> op[t].block, i |-> index,
                    turn |-> op[t].turn, seen |-> op[t].seen]
      BY <3>1, <3>2
    <3> QED BY <3>2, <3>3
  <2>9. ASSUME NEW f \in Blocks, Filled(f)', esi'[f].master = Entry(t)
        PROVE  esi'[f].index > op[t].turn
    <3>1. f # e /\ esi'[f] = esi[f] /\ Filled(f)
      BY <2>8, <2>9 DEF Filled, Table, TableTypes
    <3>2. esi[f].index \in Nat /\ Slot(esi[f].index) = f
      BY <2>5, <3>1, FilledIs
    <3>3. esi[f].index >= op[t].turn
      BY <1>0, <1>1, <2>6, <2>9, <3>1 DEF Sweeps
    <3> QED BY <2>2, <3>1, <3>2, <3>3
  <2>10. op'[t].master = op[t].master /\ op'[t].turn = op[t].turn => Sweeps(t)'
    BY <1>1, <2>1, <2>2, <2>8, <2>9 DEF Sweeps
  <2> QED BY <1>1, <2>1, <2>3, <2>4, <2>5, <2>6, <2>7, <2>10, FreeTable
<1> QED BY <1>2, <1>3

\* The EventSet of a thread gets another master, which is no thread's own.
LEMMA AttachedTable ==
  ASSUME Table, Calls, NEW t \in Threads, doing[t].stage \in {"target", "made"}, at[t].pc = "done", Entry(t) # None,
         Attached(t, doing[t].block, Entry(t)), Then(t, "attached"), InTable
  PROVE  Table'
<1> SUFFICES ASSUME NEW e, NEW m, e = doing[t].block, m = Entry(t) PROVE Table'
  OBVIOUS
<1>0. Shapes /\ Where(t) /\ Knows(t) /\ Alone(t) /\ Holds(t) /\ RingInv
  BY DEF Calls, Control, Table
<1>1. doing[t].call = "attach" /\ op[t].pc = "done" /\ doing[t] # NoCall /\ up
  BY <1>0 DEF Where, NoCall, Alone
<1>2. /\ UNCHANGED <<map, array, INTERNAL_LOCK, op, handles, my_thread, members, at, up>>
      /\ esi' = [esi EXCEPT ![e].master = m]
  BY DEF Attached, InTable, threadvars, ring
<1>3. /\ \A u \in Threads \ {t} : doing'[u] = doing[u]
      /\ doing'[t] = [call |-> doing[t].call, stage |-> "attached", tid |-> doing[t].tid,
                      block |-> doing[t].block, tmp |-> doing[t].tmp, n |-> doing[t].n]
  BY <1>0, ThenIs
<1>4. doing'[t].call = "attach" /\ doing'[t].stage = "attached" /\ doing'[t].block = e
  BY <1>1, <1>3
<1>5. op[t].i \in handles[t] /\ op[t].block = Slot(op[t].i) /\ op[t].block = e /\ op[t].pc \notin Freeing
  BY <1>0, <1>1 DEF Holds, Freeing
<1>6. e \in Blocks /\ Filled(e) /\ esi[e] \in EventSetInfo
  BY <1>5, HandleIs, FilledIs
<1>7. m \in members /\ m \in Infos /\ (\A u \in Threads : my_thread[u] # m) /\ info[m].tid \in Targets
  <2>1. m \in members /\ info[m].tid \in Targets /\ m \in Infos
    BY <1>0 DEF Knows, RingInv, RingTypes
  <2>2. ASSUME NEW u \in Threads, my_thread[u] = m PROVE FALSE
    <3>1. at[u].pc # "unlinked"
      BY <1>0, <2>1, <2>2 DEF RingInv, LooseApart, Leaves, Loose
    <3>2. info[m].tid = u
      BY <1>0, <2>1, <2>2, <3>1, ThreadListAssumption DEF RingInv, Selves, RingTypes
    <3> QED BY <2>1, <3>2, ThreadListAssumption
  <2> QED BY <2>1, <2>2
<1>8. /\ esi'[e] \in EventSetInfo /\ esi'[e].index = esi[e].index /\ esi'[e].master = m
      /\ \A f \in Blocks \ {e} : esi'[f] = esi[f]
  <2>1. esi[e] = [master |-> esi[e].master, index |-> esi[e].index] /\ esi[e].index \in Nat \cup {Unset}
    BY <1>6 DEF EventSetInfo
  <2>2. esi'[e] = [master |-> m, index |-> esi[e].index] /\ \A f \in Blocks \ {e} : esi'[f] = esi[f]
    BY <1>2, <1>6, <2>1 DEF Table, TableTypes
  <2>3. esi'[e] \in EventSetInfo
    BY <1>7, <2>1, <2>2 DEF EventSetInfo
  <2> QED BY <2>2, <2>3
<1>9. \A f \in Blocks : Filled(f)' <=> Filled(f)
  BY <1>6, <1>8, EventSetTableAssumption DEF Filled
<1>10. Beside(t)
  BY <1>2, <1>3 DEF Beside
<1>11. TableTypes'
  BY <1>2, <1>6, <1>8 DEF Table, TableTypes, Maybe
<1>12. TableLocked' /\ Counted'
  BY <1>2 DEF Table, TableLocked, Counted, Growing
<1>13. Bare' /\ ~Closing'
  <2>1. ~Closing
    BY <1>1, NotClosing
  <2>2. \A f \in Blocks : esi'[f] = esi[f] \/ (esi'[f] # None /\ esi'[f].index = Unset => esi'[f].master = None)
    BY <1>6, <1>8 DEF Filled
  <2> QED BY <1>1, <1>2, <1>4, <1>10, <2>1, <2>2, BareStays
<1>14. Owned'
  <2> SUFFICES ASSUME NEW f \in Blocks, Filled(f)' PROVE InPlace(f)'
    BY DEF Owned, InPlace
  <2>1. /\ esi[f].index < map.total /\ Slot(esi[f].index) = f
        /\ \A u \in Threads : esi[f].index \in handles[u] => esi[f].master \in {my_thread[u]} \cup Processes
    BY <1>1, <1>9, FilledIs, NotClosing
  <2>2. Processes' = Processes /\ m \in Processes
    BY <1>2, <1>7, ProcessesStay DEF Processes
  <2>3. esi'[f].index = esi[f].index /\ esi'[f].master \in {m, esi[f].master}
    BY <1>8
  <2>4. map'.slots[esi[f].index + 1] = f /\ map'.total = map.total
    BY <1>2, <2>1 DEF Slot
  <2> QED BY <1>2, <2>1, <2>2, <2>3, <2>4 DEF InPlace, Slot
<1>15. \A u \in Threads : \A h \in handles[u] : Slot(h)' = Slot(h) /\ (Valid(h) => Valid(h)')
  <2> TAKE u \in Threads
  <2> TAKE h \in handles[u]
  <2>1. Slot(h)' = Slot(h) /\ Slot(h) \in Blocks
    BY <1>2, HandleIs DEF Slot
  <2>2. esi'[Slot(h)] # None <=> esi[Slot(h)] # None
    BY <1>6, <1>8, <2>1, EventSetTableAssumption DEF Filled
  <2>3. esi'[Slot(h)].index = esi[Slot(h)].index
    BY <1>8, <2>1
  <2> QED BY <2>1, <2>2, <2>3 DEF Valid
<1>16. Holds(t)'
  <2>1. \A h \in handles[t] : h < map.total /\ Slot(h)' # None /\ Valid(h)'
    BY <1>0, <1>5, <1>15 DEF Holds
  <2>2. op[t].block = map'.slots[op[t].i + 1]
    BY <1>2, <1>5 DEF Slot
  <2>3. \A u \in Threads \ {t} : handles[t] \cap handles[u] = {}
    BY <1>0 DEF Holds
  <2>4. op'[t].block = Slot(op[t].i)'
    BY <1>2, <2>2 DEF Slot
  <2> QED BY <1>2, <1>4, <1>5, <2>1, <2>3, <2>4 DEF Holds
<1>17. Creates(t)' /\ Sweeps(t)'
  BY <1>1, <1>2, <1>4 DEF Creates, Sweeps, Leaver, Making
<1>18. \A u \in Threads \ {t} : Spared(t, u)
  <2> TAKE u \in Threads \ {t}
  <2>1. \A h \in handles[u] : h \notin handles[t]
    BY DEF Table, Holds
  <2>2. op[u].pc \in Making => op[u].block # e /\ op[u].block \in Blocks
    BY <1>6 DEF Table, Creates, Filled
  <2>3. op'[t].pc \notin Making
    BY <1>1, <1>2 DEF Making
  <2>4. ASSUME NEW f \in Blocks, Filled(f)'
        PROVE  /\ Filled(f) /\ esi'[f].index = esi[f].index
               /\ Leaver(u) /\ esi'[f].master = Entry(u) => esi[f].master = Entry(u)
    <3>1. Leaver(u) => m # Entry(u)
      BY <1>7, LeaverIs
    <3> QED BY <1>8, <1>9, <2>4, <3>1
  <2>5. op[u].pc \in Freeing => op[u].i \notin handles[t]
    BY DEF Table, Holds
  <2>6. Slot(op[u].i)' = Slot(op[u].i)
    BY <1>2 DEF Slot
  <2>7. op[u].pc \in Making => esi'[op[u].block] = esi[op[u].block]
    BY <1>8, <2>2
  <2>8. op'[t].pc \notin Freeing
    BY <1>2, <1>5
  <2> HIDE DEF Slot, Valid, Filled
  <2> QED BY <1>2, <1>15, <2>1, <2>3, <2>4, <2>5, <2>6, <2>7, <2>8, MapIs DEF Spared
<1> QED BY <1>10, <1>11, <1>12, <1>13, <1>14, <1>16, <1>17, <1>18, TableKeeps

LEMMA TargetTable ==
  ASSUME Table, Calls, NEW t \in Threads, Target(t) \/ Made(t)
  PROVE  Table'
<1>1. doing[t].stage \in {"target", "made"} /\ at[t].pc = "done"
  BY DEF Target, Made, RingDone, Doing
<1>2. CASE Return(t) /\ Made(t)
  BY <1>2, EndsQuiet
<1>3. CASE Allocate(t, doing[t].tid) /\ Then(t, "made") /\ InRing /\ doing[t].stage = "target"
  BY <1>1, <1>3, TargetQuiet
<1>4. CASE Entry(t) # None /\ Attached(t, doing[t].block, Entry(t)) /\ Then(t, "attached") /\ InTable
  BY <1>1, <1>4, AttachedTable
<1> QED BY <1>1, <1>2, <1>3, <1>4 DEF Target, Made, RingDone, Doing

-----------------------------------------------------------------------------
(* The library comes up and goes down, and nobody is in the table.         *)

LEMMA StillTable ==
  ASSUME \A t \in Threads : op'[t] = Resting /\ handles'[t] = {} /\
           doing'[t].stage \notin {"lookup", "target", "made", "attached", "sweep", "remove"},
         handles' \in [Threads -> SUBSET Nat], INTERNAL_LOCK' = None,
         map' \in [array : Nat, slots : Seq(Maybe(Blocks)), total : Nat, avail : Int, full : Int],
         map'.slots = [i \in 1..map'.total |-> None], map'.avail = map'.total, map'.full = 0,
         array' \in Nat, esi' \in [Blocks -> Maybe(EventSetInfo)],
         Closing' \/ \A e \in Blocks : esi'[e] = None,
         Bare'
  PROVE  Table'
<1>1. Resting.pc = "idle"
  BY DEF Resting
<1>2. TableTypes'
  BY DEF TableTypes
<1>3. TableLocked'
  BY <1>1, ThreadListAssumption DEF TableLocked, TableHeld, Maybe
<1>4. ~Growing'
  BY <1>1 DEF Growing
<1>5. Len(map'.slots) = map'.total
  OBVIOUS
<1>6. Used(map'.slots) = {}
  BY <1>5 DEF Used
<1>7. Counted'
  <2>1. Cardinality({}) = 0
    BY FS_EmptySet
  <2>2. (map'.total + 1)..Len(map'.slots) = {}
    BY <1>5
  <2>3. map'.avail + map'.full = map'.total
    OBVIOUS
  <2>4. map'.full = Cardinality(Used(map'.slots))
    BY <1>6, <2>1
  <2> QED BY <1>4, <1>5, <2>2, <2>3, <2>4 DEF Counted
<1>8. Owned'
  BY DEF Owned, Filled
<1>9. \A t \in Threads : Holds(t)' /\ Creates(t)' /\ Sweeps(t)'
  BY <1>1 DEF Holds, Creates, Sweeps, Leaver, Freeing, Making
<1> QED BY <1>2, <1>3, <1>7, <1>8, <1>9 DEF Table

\* Nobody holds the lock of the table when nobody is in it.
LEMMA Unlocked ==
  ASSUME Table, \A t \in Threads : op[t] = Resting
  PROVE  INTERNAL_LOCK = None
BY DEF Table, TableLocked, TableHeld, Maybe, Resting

LEMMA NewMapIs ==
  ASSUME NEW n \in Nat
  PROVE  /\ NewMap(n) \in [array : Nat, slots : Seq(Maybe(Blocks)), total : Nat, avail : Int, full : Int]
         /\ NewMap(n).slots = [i \in 1..n |-> None] /\ NewMap(n).total = n /\ NewMap(n).avail = n
         /\ NewMap(n).full = 0 /\ NewMap(n).array = 0
<1>1. [i \in 1..n |-> None] \in Seq(Maybe(Blocks))
  BY DEF Maybe
<1> QED BY <1>1 DEF NewMap

LEMMA ShutdownTable ==
  ASSUME Table, Calls, NEW t \in Threads, Shutdown(t)
  PROVE  Table'
<1>0. Shapes /\ TableTypes /\ up /\ up' = up
  BY ReadyIs DEF Calls, Table, Shutdown
<1>1. \A u \in Threads : op[u] = Resting /\ (u # t => doing[u] = NoCall)
  BY IdleIs, ReadyIs DEF Shutdown, Others
<1>2. /\ map' = NewMap(0) /\ array' = 0 /\ handles' = [u \in Threads |-> {}] /\ UNCHANGED <<INTERNAL_LOCK, op>>
      /\ esi' = [e \in Blocks |-> IF \E i \in 0..(map.total - 1) : Slot(i) = e /\ esi[e].master = my_thread[t]
                                  THEN None ELSE esi[e]]
  BY DEF Shutdown, DropTable
<1>3. /\ \A u \in Threads \ {t} : doing'[u] = doing[u]
      /\ doing'[t].call = "shutdown" /\ doing'[t].stage \in {"each", "own"}
  <2>1. CASE Begin(t, "shutdown", "each")
    <3>1. /\ \A u \in Threads \ {t} : doing'[u] = doing[u]
          /\ doing'[t] = [call |-> "shutdown", stage |-> "each", tid |-> None, block |-> None, tmp |-> None, n |-> 0]
      BY <1>0, <2>1, BeginIs
    <3> QED BY <3>1
  <2>2. CASE doing' = [doing EXCEPT ![t] = [NoCall EXCEPT !.call = "shutdown", !.stage = "own", !.tid = t]]
    <3>1. /\ \A u \in Threads \ {t} : doing'[u] = doing[u]
          /\ doing'[t] = [call |-> "shutdown", stage |-> "own", tid |-> t, block |-> None, tmp |-> None, n |-> 0]
      BY <1>0, <2>2 DEF Shapes, NoCall
    <3> QED BY <3>1
  <2> QED BY <2>1, <2>2 DEF Shutdown
<1>4. Closing'
  BY <1>3 DEF Closing
<1>5. esi' \in [Blocks -> Maybe(EventSetInfo)] /\ \A e \in Blocks : esi'[e] \in {None, esi[e]}
  BY <1>0, <1>2 DEF TableTypes, Maybe
<1>6. INTERNAL_LOCK' = None
  BY <1>1, <1>2, Unlocked
<1>7. /\ map' \in [array : Nat, slots : Seq(Maybe(Blocks)), total : Nat, avail : Int, full : Int]
      /\ map'.slots = [i \in 1..0 |-> None] /\ map'.total = 0 /\ map'.avail = 0 /\ map'.full = 0
  BY <1>2, NewMapIs
<1>8. Bare'
  <2>1. map'.slots = << >>
    BY <1>7
  <2>2. \A e \in Blocks : esi'[e] # None /\ esi'[e].index = Unset => esi'[e].master = None
    BY <1>5 DEF Table, Bare
  <2> QED BY <1>0, <1>2, <1>7, <2>1, <2>2 DEF Bare
<1>9. \A u \in Threads : op'[u] = Resting /\ handles'[u] = {} /\
        doing'[u].stage \notin {"lookup", "target", "made", "attached", "sweep", "remove"}
  BY <1>1, <1>2, <1>3 DEF NoCall
<1>10. handles' \in [Threads -> SUBSET Nat] /\ array' \in Nat
  BY <1>2
<1> QED BY <1>4, <1>5, <1>6, <1>7, <1>8, <1>9, <1>10, StillTable

LEMMA InitTable ==
  ASSUME Table, Calls, NEW t \in Threads, Init(t)
  PROVE  Table'
<1>0. Shapes /\ TableTypes /\ ~up /\ up' = up
  BY DEF Calls, Table, Init
<1>1. \A u \in Threads : op[u] = Resting /\ doing[u] = NoCall
  BY IdleIs DEF Init
<1>2. /\ map' = NewMap(InitSlots) /\ array' = 0 /\ UNCHANGED <<esi, INTERNAL_LOCK, op, handles>>
  BY DEF Init, MakeTable
<1>3. /\ \A u \in Threads \ {t} : doing'[u] = doing[u]
      /\ doing'[t] = [call |-> "init", stage |-> "init", tid |-> None, block |-> None, tmp |-> None, n |-> 0]
  BY <1>0, BeginIs DEF Init
<1>4. doing'[t].call = "init" /\ doing'[t].stage = "init"
  BY <1>3
<1>5. (\A e \in Blocks : esi[e] = None) /\ \A u \in Threads : handles[u] = {}
  BY <1>0 DEF Table, Bare
<1>6. INTERNAL_LOCK' = None
  BY <1>1, <1>2, Unlocked
<1>7. /\ map' \in [array : Nat, slots : Seq(Maybe(Blocks)), total : Nat, avail : Int, full : Int]
      /\ map'.slots = [i \in 1..map'.total |-> None] /\ map'.avail = map'.total /\ map'.full = 0
  BY <1>2, NewMapIs, EventSetTableAssumption
<1>8. Bare'
  <2>1. ~Closing'
    BY <1>1, <1>3, <1>4 DEF Closing, NoCall
  <2> QED BY <1>0, <1>2, <1>5, <2>1 DEF Bare
<1>9. \A u \in Threads : op'[u] = Resting /\ handles'[u] = {} /\
        doing'[u].stage \notin {"lookup", "target", "made", "attached", "sweep", "remove"}
  BY <1>1, <1>2, <1>3, <1>4, <1>5 DEF NoCall
<1>10. /\ handles' \in [Threads -> SUBSET Nat] /\ array' \in Nat /\ esi' \in [Blocks -> Maybe(EventSetInfo)]
       /\ \A e \in Blocks : esi'[e] = None
  BY <1>0, <1>2, <1>5 DEF TableTypes
<1> QED BY <1>6, <1>7, <1>8, <1>9, <1>10, StillTable

LEMMA DownTable ==
  ASSUME Table, Calls, NEW t \in Threads, Down(t)
  PROVE  Table'
<1>0. Shapes /\ TableTypes /\ Where(t) /\ Alone(t) /\ Counted
  BY DEF Calls, Table, Control
<1>1. doing[t].call = "shutdown" /\ op[t] = Resting /\ \A u \in Threads \ {t} : doing[u] = NoCall
  BY <1>0 DEF Down, Doing, Where, Alone, NoCall
<1>2. \A u \in Threads : op[u] = Resting
  BY <1>1, IdleIs
<1>3. Closing
  BY <1>1 DEF Closing
<1>4. map.total = 0 /\ map.slots = << >> /\ \A u \in Threads : handles[u] = {}
  BY <1>3 DEF Table, Bare
<1>5. /\ UNCHANGED <<map, array, INTERNAL_LOCK, op, handles>> /\ esi' = [e \in Blocks |-> None] /\ ~up'
      /\ doing' = [doing EXCEPT ![t] = NoCall]
  BY DEF Down
<1>6. \A u \in Threads : doing'[u] = NoCall
  BY <1>0, <1>1, <1>5 DEF Shapes
<1>7. INTERNAL_LOCK' = None
  BY <1>2, <1>5, Unlocked
<1>8. ~Growing
  BY <1>2 DEF Growing, Resting
<1>9. map.avail = 0 /\ map.full = 0
  <2>1. Used(map.slots) = {}
    BY <1>4 DEF Used
  <2>2. map.full = 0
    BY <1>0, <2>1, FS_EmptySet DEF Counted
  <2> QED BY <1>0, <1>4, <2>2, MapIs DEF Counted
<1>10. map'.slots = [i \in 1..map'.total |-> None] /\ map'.avail = map'.total /\ map'.full = 0
  BY <1>4, <1>5, <1>9
<1>11. Bare'
  <2>1. ~Closing'
    BY <1>6 DEF Closing, NoCall
  <2> QED BY <1>4, <1>5, <2>1 DEF Bare
<1>12. \A u \in Threads : op'[u] = Resting /\ handles'[u] = {} /\
        doing'[u].stage \notin {"lookup", "target", "made", "attached", "sweep", "remove"}
  BY <1>2, <1>4, <1>5, <1>6 DEF NoCall
<1>13. /\ handles' \in [Threads -> SUBSET Nat] /\ array' \in Nat /\ esi' \in [Blocks -> Maybe(EventSetInfo)]
       /\ \A e \in Blocks : esi'[e] = None
       /\ map' \in [array : Nat, slots : Seq(Maybe(Blocks)), total : Nat, avail : Int, full : Int]
  BY <1>0, <1>5 DEF TableTypes, Maybe
<1> QED BY <1>7, <1>10, <1>11, <1>12, <1>13, StillTable

-----------------------------------------------------------------------------
(* Every step keeps the table's invariant.                                 *)

LEMMA TableStepTable ==
  ASSUME Table, Calls, NEW t \in Threads, TableGo(t) \/ TableWait(t), UNCHANGED doing, InTable
  PROVE  Table'
<1>1. InTableOnly
  BY DEF InTableOnly, InTable, threadvars, ring
<1>2. CASE FindSlot(t) \/ Fill(t) \/ SetArray(t) \/ SetTotal(t) \/ Load(t) \/ Stray(t) \/ Visit(t) \/ Look(t)
  BY <1>1, <1>2, FindSlotQuiet, FillTable, SetArrayTable, SetTotalTable, LoadQuiet, StrayQuiet, VisitQuiet, LookTable
<1>3. CASE Realloc(t)
  <2>1. CASE GiveUp(t)
    BY <1>1, <1>3, <2>1, GiveUpTable DEF Realloc
  <2>2. CASE ~GiveUp(t)
    BY <1>1, <1>3, <2>2, ReallocQuiet DEF Realloc
  <2> QED BY <2>1, <2>2
<1>4. CASE Clear(t, "clear", "done")
  BY <1>1, <1>4, ClearTable
<1>5. CASE Clear(t, "sweep", "walk")
  BY <1>1, <1>5, ClearTable
<1>6. CASE TableWait(t)
  BY <1>1, <1>6, TakeQuiet
<1> QED BY <1>2, <1>3, <1>4, <1>5, <1>6 DEF TableGo

LEMMA StepTable ==
  ASSUME Table, Calls, NEW t \in Threads, Moving(t)
  PROVE  Table'
<1>1. CASE Call(t)
  BY <1>1, InitTable, RegisterQuiet, CreateTable, LookupQuiet, UnregisterQuiet, ShutdownTable DEF Call
<1>2. CASE (ThreadsGo(t) \/ ThreadsWait(t)) /\ UNCHANGED doing /\ InRing
  BY <1>2, RingStepQuiet
<1>3. CASE (TableGo(t) \/ TableWait(t)) /\ UNCHANGED doing /\ InTable
  BY <1>3, TableStepTable
<1>4. CASE Registered(t) \/ Created(t) \/ Doomed(t) \/ Destroyed(t)
  BY <1>4, RegisteredTable, DoomedTable, EndsQuiet DEF Created, Destroyed
<1>5. CASE Attaching(t) \/ Target(t) \/ Made(t) \/ IsAttached(t)
  BY <1>5, AttachingQuiet, TargetTable, EndsQuiet DEF IsAttached
<1>6. CASE Sweep(t) \/ Swept(t) \/ Gone(t) \/ ShutOwn(t) \/ Removed(t)
  BY <1>6, SweepQuiet, SweptQuiet, LeavingQuiet, GoneQuiet
<1>7. CASE Count(t) \/ Each(t) \/ Down(t) \/ Up(t)
  BY <1>7, CountQuiet, DownTable, UpQuiet
<1> QED BY <1>1, <1>2, <1>3, <1>4, <1>5, <1>6, <1>7 DEF Moving, GoOn, Wait

LEMMA TableStart ==
  RegistryInit => Table
<1> SUFFICES ASSUME RegistryInit PROVE Table
  OBVIOUS
<1>1. /\ map = NewMap(0) /\ array = 0 /\ esi = [e \in Blocks |-> None]
      /\ INTERNAL_LOCK = None /\ op = [t \in Threads |-> Resting] /\ handles = [t \in Threads |-> {}]
      /\ doing = [t \in Threads |-> NoCall] /\ up = FALSE
  BY DEF RegistryInit, TableInit
<1>2. /\ map \in [array : Nat, slots : Seq(Maybe(Blocks)), total : Nat, avail : Int, full : Int]
      /\ map.slots = << >> /\ map.total = 0 /\ map.avail = 0 /\ map.full = 0
  <2>1. /\ map \in [array : Nat, slots : Seq(Maybe(Blocks)), total : Nat, avail : Int, full : Int]
        /\ map.slots = [i \in 1..0 |-> None] /\ map.total = 0 /\ map.avail = 0 /\ map.full = 0
    BY <1>1, NewMapIs
  <2> QED BY <2>1
<1>3. TableTypes
  BY <1>1, <1>2 DEF TableTypes, Maybe
<1>4. \A t \in Threads : op[t].pc = "idle" /\ doing[t].stage = "none" /\ doing[t].call = "none" /\ handles[t] = {}
  BY <1>1 DEF Resting, NoCall
<1>5. TableLocked
  BY <1>1, <1>4, ThreadListAssumption DEF TableLocked, TableHeld, Maybe
<1>6. Counted
  <2>1. ~Growing /\ Used(map.slots) = {} /\ Len(map.slots) = 0
    BY <1>2, <1>4 DEF Growing, Used
  <2>2. (map.total + 1)..Len(map.slots) = {}
    BY <1>2, <2>1
  <2>3. map.full = Cardinality(Used(map.slots))
    BY <1>2, <2>1, FS_EmptySet
  <2>4. map.avail + map.full = map.total /\ Len(map.slots) = map.total
    BY <1>2, <2>1
  <2>5. \A i \in (map.total + 1)..Len(map.slots) : map.slots[i] = None
    BY <2>2
  <2> QED BY <2>1, <2>3, <2>4, <2>5 DEF Counted
<1>7. Owned /\ Bare
  BY <1>1, <1>4 DEF Owned, Bare, Closing, Filled
<1>8. \A t \in Threads : Holds(t) /\ Creates(t) /\ Sweeps(t)
  BY <1>4 DEF Holds, Creates, Sweeps, Leaver, Freeing, Making
<1> QED BY <1>3, <1>5, <1>6, <1>7, <1>8 DEF Table

LEMMA TableStays ==
  ASSUME Calls, Table, [RegistryNext]_regvars
  PROVE  Table'
<1>1. CASE UNCHANGED regvars
  <2>1. UNCHANGED <<members, my_thread, at, map, array, esi, INTERNAL_LOCK, op, handles, doing, up>>
    BY <1>1 DEF regvars, threadvars, ring, tablevars
  <2>2. TableTypes' /\ TableLocked' /\ Counted'
    BY <2>1 DEF Table, TableTypes, TableLocked, Counted, Growing
  <2>3. Owned' /\ Bare'
    <3>1. Processes' = Processes
      BY <2>1, ProcessesStay
    <3> QED BY <2>1, <3>1 DEF Table, Owned, Bare, Closing, Filled, Slot
  <2>4. \A t \in Threads : Holds(t)' /\ Creates(t)' /\ Sweeps(t)'
    <3> TAKE t \in Threads
    <3>1. Holds(t) /\ Creates(t) /\ Sweeps(t)
      BY DEF Table
    <3>2. Holds(t)'
      BY <2>1, <3>1 DEF Holds, Valid, Slot, Filled
    <3>3. Creates(t)' /\ Sweeps(t)'
      BY <2>1, <3>1 DEF Creates, Sweeps, Leaver, Entry, Free, Filled
    <3> QED BY <3>2, <3>3
  <2> QED BY <2>2, <2>3, <2>4 DEF Table
<1>2. ASSUME NEW t \in Threads, Moving(t) PROVE Table'
  BY <1>2, StepTable
<1> QED BY <1>1, <1>2 DEF RegistryNext, Lost, Moving

LEMMA TableHolds == RegistrySpec => [](Calls /\ Table)
<1> DEFINE Held == Calls /\ \A t \in Threads : Remaining(t)
<1>1. RegistryInit => Table
  BY TableStart
<1>2. Held /\ Table /\ [RegistryNext]_regvars => Table'
  BY TableStays
<1>3. RegistrySpec => []Held
  BY CallsHold
<1>4. Held => Calls
  OBVIOUS
<1> HIDE DEF Held
<1> QED BY <1>1, <1>2, <1>3, <1>4, PTL DEF RegistrySpec

-----------------------------------------------------------------------------
(* Whenever nobody holds INTERNAL_LOCK, availSlots and fullSlots agree with *)
(* the slots that are empty and in use.                                    *)
THEOREM SlotsCountedHolds == RegistrySpec => []SlotsCounted
<1>1. Table => SlotsCounted
  <2> SUFFICES ASSUME Table, INTERNAL_LOCK = None
               PROVE  /\ Len(map.slots) = map.total /\ map.avail + map.full = map.total
                      /\ map.full = Cardinality({i \in 1..map.total : map.slots[i] # None})
    BY DEF SlotsCounted
  <2>1. ~Growing
    BY ThreadListAssumption DEF Table, TableLocked, Growing, TableHeld
  <2> QED BY <2>1 DEF Table, Counted, Used
<1> QED BY <1>1, TableHolds, PTL

(* Until a thread gives a handle back, it names an EventSet of its own in  *)
(* memory that was not freed, whatever the other threads create, destroy   *)
(* and grow meanwhile; no two threads have the same handle.                *)
THEOREM HandlesHoldHolds == RegistrySpec => []HandlesHold
<1>1. Table => HandlesHold
  <2> SUFFICES ASSUME Table, NEW t \in Threads, NEW h \in handles[t]
               PROVE  \/ op[t].pc \in {"freed", "clear", "swept", "sweep"} /\ op[t].i = h
                      \/ /\ h < map.total /\ Slot(h) # None
                         /\ esi[Slot(h)] # None /\ esi[Slot(h)].index = h
                         /\ \A u \in Threads \ {t} : h \notin handles[u]
    BY DEF HandlesHold
  <2>1. Holds(t)
    BY DEF Table
  <2> QED BY <2>1 DEF Holds, Valid, Freeing
<1> QED BY <1>1, TableHolds, PTL

(* The EventSet a handle names has a master that is not freed, and nothing *)
(* in the table belongs to a ThreadInfo that a thread is taking away, if   *)
(* the thread's tid fits an int: it has taken its EventSets with it.       *)
THEOREM MastersLiveHolds == RegistrySpec => []MastersLive
<1>1. Calls /\ Table => MastersLive
  <2> SUFFICES ASSUME Calls, Table PROVE MastersLive
    OBVIOUS
  <2>1. ASSUME NEW t \in Threads, NEW h \in handles[t], Listed(h, Slot(h))
        PROVE  info[esi[Slot(h)].master] # None
    <3>1. /\ my_thread[t] # None /\ doing[t].stage # "remove" /\ doing[t].call # "shutdown" /\ Where(t)
      BY <2>1 DEF Calls, Control, Knows
    <3>2. at[t].pc # "unlinked"
      BY <3>1 DEF Where, Away, Joining
    <3>3. h \in Nat /\ Slot(h) \in Blocks /\ ~Closing
      BY <2>1, HandleIs DEF Table, Bare
    <3>4. Filled(Slot(h)) /\ esi[Slot(h)].index = h
      BY <2>1, <3>3 DEF Listed, Filled, Unset
    <3>5. esi[Slot(h)].master \in {my_thread[t]} \cup Processes
      BY <2>1, <3>3, <3>4, FilledIs
    <3>6. esi[Slot(h)].master \in members
      BY <3>1, <3>2, <3>5, SelfIs DEF Processes
    <3> QED BY <3>6 DEF Calls, RingInv, Linking, Cycle, Round
  <2>2. ASSUME NEW t \in Threads \ Wide, at[t].pc \in {"unlinked", "free"},
               NEW i \in 0..(map.total - 1), Listed(i, Slot(i))
        PROVE  esi[Slot(i)].master # Entry(t)
    <3>1. i \in Nat /\ i < map.total
      BY MapIs
    <3>2. Slot(i) \in Blocks /\ Filled(Slot(i)) /\ ~Closing
      BY <2>2, <3>1, SlotIs DEF Listed, Filled, Unset, Maybe, Table, Bare
    <3>3. Where(t) /\ Sweeps(t) /\ doing[t].call # "shutdown" /\ Entry(t) # None
      BY <2>2, <3>2, ThreadListAssumption DEF Calls, Control, Table, Closing, RingInv, LooseApart, Loose
    <3>4. doing[t].call = "unregister" /\ doing[t].stage = "remove" /\ op[t].pc = "done"
      BY <2>2, <3>3 DEF Where, Away, Joining
    <3>5. Leaver(t)
      BY <2>2, <3>3, <3>4 DEF Leaver
    <3> QED BY <3>2, <3>3, <3>4, <3>5 DEF Sweeps
  <2> QED BY <2>1, <2>2 DEF MastersLive
<1> QED BY <1>1, TableHolds, PTL

-----------------------------------------------------------------------------
(* The ring and the table as a ThreadService.                              *)

\* Whom the walk passes: what is being inserted, too, unless it is the first.
Seen == IF thread_head = None THEN {} ELSE Round

KnownIsSeen == Known = {info[x].tid : x \in Seen}

LEMMA SeenIs == RingInv => KnownIsSeen
<1> SUFFICES ASSUME RingInv PROVE Reached = Seen
  BY DEF Known, KnownIsSeen
<1>0. RingTypes /\ Linking
  BY DEF RingInv
<1>1. CASE thread_head = None
  BY <1>1 DEF Seen, Reached, Walk
<1>2. CASE thread_head # None
  <2>1. Round \in SUBSET Infos /\ thread_head \in Round /\ Cycle(Round, info)
    BY <1>0, <1>2 DEF Linking, Round, RingTypes
  <2>2. Reached = Round
    BY <2>1, WalkIs
  <2> QED BY <1>2, <2>2 DEF Seen
<1> QED BY <1>1, <1>2

LEMMA KnownStays ==
  ASSUME RingInv, RingInv', thread_head' = None <=> thread_head = None, Round' = Round,
         \A x \in Round : info'[x].tid = info[x].tid
  PROVE  Known' = Known
<1>1. Known = {info[x].tid : x \in Seen} /\ Known' = {info'[x].tid : x \in Seen'}
  <2>1. KnownIsSeen /\ KnownIsSeen'
    BY SeenIs, PTL
  <2> QED BY <2>1 DEF KnownIsSeen
<1>2. Seen' = Seen /\ Seen \subseteq Round
  BY DEF Seen
<1> QED BY <1>1, <1>2

\* What is known of the threads themselves.
LEMMA SelfKnown ==
  ASSUME RingInv, NEW t \in Threads
  PROVE  /\ my_thread[t] # None /\ at[t].pc # "unlinked" => t \in Known
         /\ my_thread[t] = None /\ at[t].pc \notin {"link", "head"} => t \notin Known
         /\ at[t].pc = "unlinked" => t \notin Known
<1>0. RingTypes /\ Linking /\ Selves /\ \A u \in Threads : LooseApart(u) /\ Joins(u) /\ Leaves(u)
  BY DEF RingInv
<1>1. Known = {info[x].tid : x \in Seen}
  BY SeenIs DEF KnownIsSeen
<1>2. ASSUME my_thread[t] # None, at[t].pc # "unlinked" PROVE t \in Known
  <2>1. my_thread[t] \in members /\ info[my_thread[t]].tid = t
    BY <1>0, <1>2 DEF Selves
  <2>2. my_thread[t] \in Seen
    BY <1>0, <2>1 DEF Seen, Linking, Round
  <2> QED BY <1>1, <2>1, <2>2
<1>3. ASSUME t \in Known, my_thread[t] = None \/ at[t].pc = "unlinked"
      PROVE  at[t].pc = "head"
  <2>1. PICK x \in Round : info[x].tid = t
    BY <1>1, <1>3 DEF Seen
  <2>2. ASSUME x \in members PROVE FALSE
    <3>1. my_thread[t] = x /\ x # None
      BY <1>0, <2>1, <2>2, ThreadListAssumption DEF Selves, RingTypes
    <3>2. at[t].pc = "unlinked"
      BY <1>3, <3>1
    <3>3. my_thread[t] = Entry(t) /\ Entry(t) \notin members
      BY <1>0, <3>1, <3>2 DEF Leaves, LooseApart, Loose
    <3> QED BY <2>2, <3>1, <3>3
  <2>3. PICK u \in Threads : at[u].pc = "head" /\ at[u].entry = x
    BY <2>1, <2>2 DEF Round
  <2>4. at[u].tid = t
    BY <1>0, <2>1, <2>3 DEF Joins, Joining, Entry
  <2>5. u = t
    BY <1>0, <2>3, <2>4, ThreadListAssumption DEF Joins, Joining
  <2> QED BY <2>3, <2>5
<1> QED BY <1>2, <1>3

\* What a step in the ring shows.
LEMMA RingShows ==
  ASSUME RingInv, NEW t \in Threads, ThreadsGo(t) \/ ThreadsWait(t)
  PROVE  \/ Known' = Known
         \/ /\ at[t].pc \in {"link", "head"} /\ Known' = Known \cup {at[t].tid}
            /\ at[t].tid = t => t \notin Known
            /\ Known = {} \/ members # {}
         \/ /\ at[t].pc = "unlink" /\ Known' = Known \ {info[Entry(t)].tid}
            /\ info[Entry(t)].tid \in Known
<1>0. RingTypes /\ RingLocked /\ Linking /\ Selves /\ \A u \in Threads : LooseApart(u) /\ Joins(u) /\ Leaves(u)
  BY DEF RingInv
<1>1. RingInv' /\ Moves(t)
  BY RingMoves
<1>2. Known = {info[x].tid : x \in Seen} /\ Known' = {info'[x].tid : x \in Seen'}
  <2>1. KnownIsSeen /\ KnownIsSeen'
    BY <1>1, SeenIs, PTL
  <2> QED BY <2>1 DEF KnownIsSeen
<1>3. CASE Link(t)
  <2>1. /\ at[t].pc = "link" /\ info' = Linked(Entry(t)) /\ UNCHANGED <<thread_head, members>>
        /\ at'[t].pc = "head" /\ at'[t].entry = Entry(t) /\ \A u \in Threads \ {t} : at'[u] = at[u]
    BY <1>0, <1>3, AtIs DEF Link, At, Entry
  <2>2. Entry(t) \in Infos /\ Entry(t) \notin members /\ info[Entry(t)].tid = at[t].tid
        /\ info[Entry(t)] # None
    BY <1>0, <2>1 DEF LooseApart, Loose, Joins, Joining
  <2>3. Round = members /\ \A u \in Threads \ {t} : at[u].pc # "head"
    BY <2>1, HeldIs DEF RingHeld
  <2>4. Round' = members \cup {Entry(t)}
    BY <2>1, <2>2, <2>3 DEF Round, Entry
  <2>5. CASE thread_head = None
    BY <1>2, <2>1, <2>5 DEF Seen
  <2>6. CASE thread_head # None
    <3>1. Seen = members /\ Seen' = members \cup {Entry(t)}
      BY <2>1, <2>3, <2>4, <2>6 DEF Seen
    <3>2. \A x \in members \cup {Entry(t)} : info'[x].tid = info[x].tid
      <4>1. \A x \in members : info[x] # None /\ x \in Infos
        BY <1>0, <2>3 DEF Linking, Cycle, RingTypes
      <4>2. thread_head \in members
        BY <1>0, <2>6 DEF Linking
      <4> QED BY <1>0, <2>1, <2>2, <4>1, <4>2 DEF Linked, RingTypes, ThreadInfo, Maybe
    <3>3. Known' = Known \cup {at[t].tid}
      BY <1>2, <2>2, <3>1, <3>2
    <3>4. ASSUME at[t].tid = t PROVE t \notin Known
      <4>1. my_thread[t] = None
        BY <1>0, <2>1, <3>4, ThreadListAssumption DEF Joins, Joining
      <4>2. \A x \in members : info[x].tid # t
        BY <1>0, <4>1, ThreadListAssumption DEF Selves, RingTypes
      <4> QED BY <1>2, <3>1, <4>2
    <3> QED BY <1>0, <2>1, <2>6, <3>3, <3>4 DEF Linking
  <2> QED BY <2>5, <2>6
<1>4. CASE SetHead(t)
  <2>1. /\ at[t].pc = "head" /\ thread_head' = Entry(t) /\ members' = members \cup {Entry(t)}
        /\ UNCHANGED info
    BY <1>4 DEF SetHead, At
  <2>2. Entry(t) \in Infos /\ Entry(t) \notin members /\ info[Entry(t)].tid = at[t].tid
    BY <1>0, <2>1 DEF LooseApart, Loose, Joins, Joining
  <2>3. Round = members \cup {Entry(t)} /\ \A u \in Threads \ {t} : at[u].pc # "head"
    BY <1>0, <2>1, <2>2, RoundIs DEF RingHeld
  <2>4. at'[t].pc = "done" /\ \A u \in Threads \ {t} : at'[u] = at[u]
    BY <1>0, <1>4, <2>2, FoundIs DEF SetHead, Maybe
  <2>5. Round' = members \cup {Entry(t)} /\ thread_head' # None
    BY <2>1, <2>2, <2>3, <2>4, ThreadListAssumption DEF Round
  <2>6. CASE thread_head = None
    <3>1. Known = {} /\ Known' = {at[t].tid}
      <4>1. members = {}
        BY <1>0, <2>6 DEF Linking
      <4> QED BY <1>2, <2>1, <2>2, <2>5, <2>6, <4>1 DEF Seen
    <3> QED BY <2>1, <3>1
  <2>7. CASE thread_head # None
    BY <1>2, <2>1, <2>3, <2>5, <2>7 DEF Seen
  <2> QED BY <2>6, <2>7
<1>5. CASE Unlink(t)
  <2>1. /\ at[t].pc = "unlink" /\ members' = members \ {Entry(t)} /\ at'[t].pc = "unlinked"
        /\ \A u \in Threads \ {t} : at'[u] = at[u]
    BY <1>0, <1>5, AtIs DEF Unlink, At
  <2>2. Round = members /\ \A u \in Threads \ {t} : at[u].pc # "head"
    BY <2>1, HeldIs DEF RingHeld
  <2>3. Round' = members'
    BY <2>1, <2>2 DEF Round
  <2>4. Seen = members /\ Seen' = members'
    BY <1>0, <1>1, <2>2, <2>3 DEF Seen, RingInv, Linking
  <2>5. \A x \in members : info'[x].tid = info[x].tid
    BY <1>1 DEF Moves
  <2>6. Entry(t) \in members
    BY <1>0, <2>1 DEF Leaves, Leaving
  <2> QED BY <1>2, <2>1, <2>4, <2>5, <2>6
<1>6. ASSUME ~Link(t), ~SetHead(t), ~Unlink(t) PROVE Known' = Known
  <2>1. at[t].pc \in {"insert", "lookup", "remove", "find", "unlinked", "free"} /\ UNCHANGED members
    BY <1>6 DEF ThreadsGo, ThreadsWait, FindThread, Unlinked, FreeThread, Acquire, At
  <2>2. at'[t].pc # "head" /\ \A u \in Threads \ {t} : at'[u] = at[u]
    BY <1>1, <2>1 DEF Moves, RingEdges
  <2>3. Round' = Round
    BY <2>1, <2>2 DEF Round
  <2>4. \A x \in Round : info'[x].tid = info[x].tid
    <3>1. CASE FreeThread(t)
      <4>1. at[t].pc = "free" /\ info' = [info EXCEPT ![Entry(t)] = None]
        BY <3>1 DEF FreeThread, At
      <4>2. Entry(t) \notin Round
        BY <1>0, <4>1 DEF LooseApart, Loose, Round, Entry
      <4> QED BY <1>0, <4>1, <4>2 DEF RingTypes
    <3>2. CASE ~FreeThread(t)
      BY <1>6, <3>2 DEF ThreadsGo, ThreadsWait, FindThread, Unlinked, Acquire
    <3> QED BY <3>1, <3>2
  <2>5. thread_head' = None <=> thread_head = None
    BY <1>0, <1>1, <2>1 DEF RingInv, Linking
  <2> QED BY <1>1, <2>3, <2>4, <2>5, KnownStays
<1> QED BY <1>3, <1>4, <1>5, <1>6

-----------------------------------------------------------------------------
(* What the other steps show.                                              *)

\* Outside of the ring's own operations nothing is linked.
LEMMA OutsideShows ==
  ASSUME RingInv, RingInv', NEW t \in Threads, UNCHANGED <<thread_head, members>>,
         \A x \in Infos : info[x] # None => info'[x] = info[x],
         \A u \in Threads \ {t} : at'[u] = at[u], at[t].pc # "head", at'[t].pc # "head"
  PROVE  Known' = Known
<1>1. Round' = Round
  BY DEF Round
<1>2. \A x \in Round : x \in Infos /\ info[x] # None
  BY DEF RingInv, RingTypes, Linking, Cycle, Round
<1> QED BY <1>1, <1>2, KnownStays

\* Nothing is in the ring while the library is down.
Fresh ==
  ~up => members = {} \/ \E t \in Threads : doing[t].call = "init" /\ at[t].pc = "done" /\ Entry(t) # None

PhaseIs ==
  \A t \in Threads :
    /\ doing[t].call = "shutdown" => Phase = "closing"
    /\ doing[t].call = "init" => Phase = "opening"
    /\ doing[t] # NoCall /\ doing[t].call \notin {"init", "shutdown"} => Phase = "up"

LEMMA PhaseNow == Calls => PhaseIs
<1> SUFFICES ASSUME Calls, NEW t \in Threads
             PROVE  /\ doing[t].call = "shutdown" => Phase = "closing"
                    /\ doing[t].call = "init" => Phase = "opening"
                    /\ doing[t] # NoCall /\ doing[t].call \notin {"init", "shutdown"} => Phase = "up"
  BY DEF PhaseIs
<1>1. Alone(t) /\ \A u \in Threads \ {t} : Alone(u)
  BY DEF Calls, Control
<1>2. CASE doing[t].call = "shutdown"
  BY <1>2 DEF Phase, In
<1>3. CASE doing[t].call = "init"
  BY <1>1, <1>3 DEF Phase, In, Alone, NoCall
<1>4. CASE doing[t] # NoCall /\ doing[t].call \notin {"init", "shutdown"}
  <2>1. doing[t].call # "none"
    BY <1>4 DEF Calls, Control, Where
  <2>2. \A u \in Threads \ {t} : doing[u].call \notin {"init", "shutdown"}
    BY <1>4, NotAlone
  <2> QED BY <1>1, <1>4, <2>1, <2>2 DEF Phase, In, Alone
<1> QED BY <1>2, <1>3, <1>4

LEMMA PhaseStays ==
  ASSUME NEW t \in Threads, \A u \in Threads \ {t} : doing'[u] = doing[u],
         \/ doing'[t].call = doing[t].call
         \/ {doing[t].call, doing'[t].call} \cap {"init", "shutdown"} = {},
         UNCHANGED up
  PROVE  Phase' = Phase
BY DEF Phase, In

LEMMA FreshStays ==
  ASSUME Calls, Fresh, NEW t \in Threads, Moving(t)
  PROVE  Fresh'
<1> SUFFICES ASSUME ~up'
             PROVE  members' = {} \/ \E u \in Threads : /\ doing'[u].call = "init" /\ at'[u].pc = "done"
                                                        /\ at'[u].entry # None
  BY DEF Fresh, Entry
<1>0. Where(t) /\ Knows(t) /\ Alone(t) /\ \A u \in Threads : Alone(u)
  BY DEF Calls, Control
<1>1. CASE up
  <2>1. ~Up(t)
    <3>1. doing[t].stage # "init"
      BY <1>0, <1>1 DEF Where, Alone, NoCall
    <3> QED BY <3>1 DEF Up, RingDone, Doing
  <2>2. UNCHANGED up \/ Down(t)
    BY <2>1
       DEF Moving, Call, GoOn, Wait, InRing, InTable, Init, Register, Create, Destroy, Attach, Unregister, Shutdown,
           Registered, Created, Doomed, Destroyed, Attaching, Target, Made, IsAttached, Sweep, Swept, Gone,
           ShutOwn, Count, Each, Removed, Return
  <2> QED BY <1>1, <2>2 DEF Down
<1>2. CASE ~up /\ doing[t] = NoCall
  <2>1. at[t] = Away /\ op[t] = Resting
    BY <1>2, IdleIs DEF Calls
  <2>2. ~GoOn(t) /\ ~Wait(t)
    <3>1. at[t].pc = "idle" /\ op[t].pc = "idle" /\ doing[t].stage = "none" /\ doing[t].call = "none"
      BY <1>2, <2>1 DEF Away, Resting, NoCall
    <3>2. ~ThreadsGo(t) /\ ~ThreadsWait(t)
      BY <3>1 DEF ThreadsGo, ThreadsWait, Link, SetHead, FindThread, Unlink, Unlinked, FreeThread, Acquire, At
    <3>3. ~TableGo(t) /\ ~TableWait(t)
      BY <3>1 DEF TableGo, TableWait, FindSlot, Fill, Realloc, SetArray, SetTotal, Load, Stray, Clear, Visit, Look,
                  Take, On
    <3> QED BY <3>1, <3>2, <3>3
          DEF GoOn, Wait, Registered, Created, Doomed, Destroyed, Attaching, Target, Made, IsAttached, Sweep, Swept,
              Gone, ShutOwn, Count, Each, Removed, Down, Up, RingDone, TableDone, Doing
  <2>3. Init(t)
    BY <1>2, <2>2 DEF Moving, Call, Ready, Register, Create, Destroy, Attach, Unregister, Shutdown
  <2>4. \A u \in Threads : doing[u].call # "init"
    BY <2>3 DEF Init, NoCall
  <2> QED BY <1>2, <2>3, <2>4 DEF Fresh, Init, Allocate
<1>3. CASE ~up /\ doing[t] # NoCall
  <2>1. doing[t].call = "init" /\ doing[t].stage = "init" /\ op[t] = Resting /\ at[t].pc \in Joining \cup {"done"}
    BY <1>0, <1>3 DEF Where, Alone, NoCall
  <2>2. \A u \in Threads \ {t} : doing[u].call # "init"
    BY <1>0, <2>1 DEF Alone, NoCall
  <2>3. at[t].pc # "done" \/ Entry(t) = None => members = {}
    BY <1>3, <2>2 DEF Fresh
  <2>4. CASE (ThreadsGo(t) \/ ThreadsWait(t)) /\ UNCHANGED doing
    <3>1. Moves(t)
      BY <2>4, RingMoves DEF Calls
    <3>2. at[t].pc \in Joining
      BY <2>1, <3>1 DEF Moves, RingEdges
    <3>3. CASE at[t].pc = "head"
      BY <2>1, <2>4, <3>1, <3>3 DEF Moves, RingEdges
    <3>4. CASE at[t].pc # "head"
      <4>1. at[t].pc \in {"insert", "link"}
        BY <3>2, <3>4 DEF Joining
      <4>2. UNCHANGED members
        BY <2>4, <4>1 DEF ThreadsGo, ThreadsWait, Link, SetHead, FindThread, Unlink, Unlinked, FreeThread, Acquire, At
      <4> QED BY <2>3, <4>1, <4>2
    <3> QED BY <3>3, <3>4
  <2>5. CASE ~((ThreadsGo(t) \/ ThreadsWait(t)) /\ UNCHANGED doing)
    <3>1. ~Call(t)
      BY <1>3 DEF Call, Init, Ready, Register, Create, Destroy, Attach, Unregister, Shutdown
    <3>2. ~TableGo(t) /\ ~TableWait(t)
      <4>1. op[t].pc = "idle"
        BY <2>1 DEF Resting
      <4> QED BY <4>1 DEF TableGo, TableWait, FindSlot, Fill, Realloc, SetArray, SetTotal, Load, Stray, Clear, Visit,
                          Look, Take, On
    <3>3. Up(t)
      BY <2>1, <2>5, <3>1, <3>2
         DEF Moving, GoOn, Wait, Registered, Created, Doomed, Destroyed, Attaching, Target, Made, IsAttached, Sweep,
             Swept, Gone, ShutOwn, Count, Each, Removed, Down, RingDone, TableDone, Doing
    <3>4. Entry(t) = None
      BY <3>3 DEF Up
    <3> QED BY <2>3, <3>3, <3>4 DEF Up, ring
  <2> QED BY <2>4, <2>5
<1> QED BY <1>1, <1>2, <1>3
-----------------------------------------------------------------------------
(* What each step is for a ThreadService.                                  *)

Serves == [Service!Next]_<<Known, handles, Phase>>

LEMMA SilentServes ==
  ASSUME Known' = Known, handles' = handles, Phase' = Phase
  PROVE  Serves
BY DEF Serves

LEMMA RingServes ==
  ASSUME Calls, Fresh, NEW t \in Threads, ThreadsGo(t) \/ ThreadsWait(t), UNCHANGED doing, InRing
  PROVE  Serves
<1>0. /\ RingInv /\ RingTypes /\ Selves /\ Where(t) /\ Knows(t) /\ Alone(t)
      /\ Joins(t) /\ \A u \in Threads \ {t} : Alone(u)
  BY DEF Calls, Control, RingInv
<1>1. Phase' = Phase /\ handles' = handles
  <2>1. UNCHANGED <<doing, up, handles>>
    BY DEF InRing, tablevars
  <2> QED BY <2>1 DEF Phase, In
<1>2. Moves(t)
  BY <1>0, RingMoves
<1>3. at[t].pc \notin {"idle", "done"}
  BY <1>2 DEF Moves, RingEdges
<1>4. doing[t] # NoCall
  BY <1>3, IdleIs DEF Away
<1>5. PhaseIs
  BY PhaseNow
<1>6. CASE Known' = Known
  BY <1>1, <1>6, SilentServes
<1>7. CASE /\ at[t].pc \in {"link", "head"} /\ Known' = Known \cup {at[t].tid}
           /\ at[t].tid = t => t \notin Known
           /\ Known = {} \/ members # {}
  <2>1. doing[t].stage \in {"register", "made", "init"}
    BY <1>0, <1>4, <1>7 DEF Where, OutOfRing, Leaving, Away
  <2>2. CASE doing[t].stage = "init"
    <3>1. doing[t].call = "init" /\ at[t].tid = t /\ ~up
      BY <1>0, <1>4, <2>2 DEF Where, Alone
    <3>2. members = {}
      <4>1. \A u \in Threads \ {t} : doing[u].call # "init"
        BY <1>0, <3>1 DEF Alone, NoCall
      <4> QED BY <1>7, <3>1, <4>1 DEF Fresh
    <3>3. Service!Enter(t)
      BY <1>1, <1>5, <1>7, <3>1, <3>2 DEF PhaseIs, Service!Enter
    <3> QED BY <3>3 DEF Serves, Service!Next
  <2>3. CASE doing[t].stage = "register"
    <3>1. doing[t].call \in {"register", "create"} /\ at[t].tid = t
      BY <1>0, <1>4, <2>3 DEF Where
    <3>2. Service!Join(t)
      BY <1>1, <1>4, <1>5, <1>7, <3>1 DEF PhaseIs, Service!Join
    <3> QED BY <3>2 DEF Serves, Service!Next
  <2>4. CASE doing[t].stage = "made"
    <3>1. doing[t].call = "attach" /\ at[t].tid \in Targets
      BY <1>0, <1>4, <2>4 DEF Where
    <3>2. my_thread[t] # None
      BY <1>0, <2>4, <3>1 DEF Knows
    <3>3. t \in Known
      BY <1>0, <1>7, <3>2, SelfKnown
    <3>4. Service!Meet(at[t].tid)
      BY <1>1, <1>4, <1>5, <1>7, <3>1, <3>3 DEF PhaseIs, Service!Meet
    <3> QED BY <3>1, <3>4 DEF Serves, Service!Next
  <2> QED BY <2>1, <2>2, <2>3, <2>4
<1>8. CASE /\ at[t].pc = "unlink" /\ Known' = Known \ {info[Entry(t)].tid}
           /\ info[Entry(t)].tid \in Known
  <2>1. doing[t].stage \in {"remove", "removing"} /\ doing[t].call \in {"unregister", "shutdown"}
    BY <1>0, <1>4, <1>8 DEF Where, Joining, Away
  <2>2. CASE doing[t].call = "shutdown"
    <3>1. Service!Part(info[Entry(t)].tid)
      BY <1>1, <1>5, <1>8, <2>2 DEF PhaseIs, Service!Part
    <3> QED BY <1>8, <3>1 DEF Serves, Service!Next
  <2>3. CASE doing[t].call = "unregister"
    <3>1. doing[t].stage = "remove"
      BY <1>0, <1>4, <2>1, <2>3 DEF Where
    <3>2. my_thread[t] = Entry(t) /\ my_thread[t] # None
      BY <1>0, <1>8, <3>1 DEF Knows, Leaving
    <3>3. info[Entry(t)].tid = t
      BY <1>0, <1>8, <3>2 DEF Selves
    <3>4. handles[t] = {}
      BY <1>0, <3>1 DEF Knows
    <3>5. Service!Leave(t)
      BY <1>1, <1>4, <1>5, <1>8, <2>3, <3>3, <3>4 DEF PhaseIs, Service!Leave
    <3> QED BY <3>5 DEF Serves, Service!Next
  <2> QED BY <2>1, <2>2, <2>3
<1> QED BY <1>0, <1>6, <1>7, <1>8, RingShows

\* Without a step in the ring.
LEMMA SameShows ==
  ASSUME Calls, Calls', UNCHANGED threadvars
  PROVE  Known' = Known
<1>1. UNCHANGED <<thread_head, members, info, at>>
  BY DEF threadvars, ring
<1>2. Round' = Round
  BY <1>1 DEF Round
<1> QED BY <1>1, <1>2, KnownStays DEF Calls

LEMMA TableServes ==
  ASSUME Calls, Calls', Table, NEW t \in Threads, TableGo(t) \/ TableWait(t), UNCHANGED doing, InTable
  PROVE  Serves
<1>0. /\ RingInv /\ Where(t) /\ Knows(t) /\ Alone(t) /\ PhaseIs
      /\ Holds(t) /\ Creates(t) /\ TableTypes /\ \A u \in Threads : Holds(u)
  BY PhaseNow DEF Calls, Control, RingInv, Table
<1>1. Phase' = Phase /\ Known' = Known
  <2>1. UNCHANGED <<doing, up, threadvars>>
    BY DEF InTable
  <2> QED BY <2>1, SameShows DEF Phase, In
<1>2. CASE Fill(t)
  <2>1. op[t].pc = "fill" /\ handles' = [handles EXCEPT ![t] = @ \cup {op[t].i}]
    BY <1>2 DEF Fill, On
  <2>2. doing[t].stage = "create" /\ doing[t].call = "create" /\ at[t].pc \in {"idle", "done"} /\ doing[t] # NoCall
    BY <1>0, <2>1 DEF Where, Resting, NoCall
  <2>3. t \in Known
    <3>1. my_thread[t] # None
      BY <1>0, <2>2 DEF Knows
    <3> QED BY <1>0, <2>2, <3>1, SelfKnown
  <2>4. \A u \in Threads : op[t].i \notin handles[u]
    <3>1. op[t].i \in Free(map)
      BY <1>0, <2>1 DEF Creates
    <3>2. Slot(op[t].i) = None
      BY <3>1 DEF Free, Slot
    <3> QED BY <1>0, <3>2 DEF Holds
  <2>5. op[t].i \in handles'[t]
    BY <1>0, <2>1 DEF TableTypes
  <2>6. Service!Take(t)
    <3>1. Phase = "up"
      BY <1>0, <2>2 DEF PhaseIs
    <3> QED BY <1>1, <2>1, <2>3, <2>4, <2>5, <3>1 DEF Service!Take
  <2> QED BY <2>6 DEF Serves, Service!Next
<1>3. CASE Clear(t, "clear", "done") \/ Clear(t, "sweep", "walk")
  <2>1. op[t].pc \in {"clear", "sweep"} /\ handles' = [handles EXCEPT ![t] = @ \ {op[t].i}]
    BY <1>3 DEF Clear, On
  <2>2. /\ doing[t].stage \in {"destroy", "sweep"} /\ doing[t].call \in {"destroy", "unregister"}
        /\ at[t].pc \in {"idle", "done"} /\ doing[t] # NoCall
    BY <1>0, <2>1 DEF Where, Resting, NoCall, Away, Making
  <2>3. t \in Known
    <3>1. my_thread[t] # None
      <4>1. CASE doing[t].stage = "sweep"
        BY <1>0, <4>1 DEF Knows
      <4>2. CASE doing[t].stage = "destroy"
        <5>1. doing[t].call = "destroy"
          BY <1>0, <4>2 DEF Where, NoCall
        <5> QED BY <1>0, <4>2, <5>1 DEF Knows
      <4> QED BY <2>2, <4>1, <4>2
    <3> QED BY <1>0, <2>2, <3>1, SelfKnown
  <2>4. CASE op[t].i \in handles[t]
    <3>1. Phase = "up"
      BY <1>0, <2>2 DEF PhaseIs
    <3>2. Service!Give(t)
      BY <1>1, <2>1, <2>3, <2>4, <3>1 DEF Service!Give
    <3> QED BY <3>2 DEF Serves, Service!Next
  <2>5. CASE op[t].i \notin handles[t]
    <3>1. handles = [u \in Threads |-> handles[u]] /\ handles[t] \ {op[t].i} = handles[t]
      BY <2>5 DEF Calls, Shapes
    <3>2. handles' = handles
      BY <2>1, <3>1
    <3> QED BY <1>1, <3>2, SilentServes
  <2> QED BY <2>4, <2>5
<1>4. CASE ~Fill(t) /\ ~Clear(t, "clear", "done") /\ ~Clear(t, "sweep", "walk")
  <2>1. handles' = handles
    BY <1>4 DEF TableGo, TableWait, FindSlot, Realloc, GiveUp, SetArray, SetTotal, Load, Stray, Visit, Look,
                FreeEventSet, Take
  <2> QED BY <1>1, <2>1, SilentServes
<1> QED BY <1>2, <1>3, <1>4

\* A step within a call, or to its end, that shows nothing.
LEMMA WithinServes ==
  ASSUME Calls, Calls', NEW t \in Threads, UNCHANGED <<thread_head, members, handles, up>>,
         \A x \in Infos : info[x] # None => info'[x] = info[x],
         \A u \in Threads \ {t} : at'[u] = at[u] /\ doing'[u] = doing[u],
         at[t].pc # "head", at'[t].pc # "head",
         \/ doing'[t].call = doing[t].call
         \/ {doing[t].call, doing'[t].call} \cap {"init", "shutdown"} = {}
  PROVE  Serves
<1>1. Known' = Known
  BY OutsideShows DEF Calls
<1>2. Phase' = Phase
  BY PhaseStays
<1> QED BY <1>1, <1>2, SilentServes

\* In the ring it sets out, or leaves.
LEMMA AtSteps ==
  ASSUME Calls, NEW t \in Threads,
         \/ \E tid : Allocate(t, tid)
         \/ \E tid : LookupThread(t, tid)
         \/ \E x : RemoveThread(t, x)
         \/ Return(t)
         \/ UNCHANGED threadvars /\ at[t].pc # "head"
  PROVE  /\ UNCHANGED <<thread_head, members>> /\ at'[t].pc # "head"
         /\ \A u \in Threads \ {t} : at'[u] = at[u]
         /\ \A x \in Infos : info[x] # None => info'[x] = info[x]
<1>1. RingTypes
  BY DEF Calls, RingInv
<1>2. CASE \E tid : Allocate(t, tid)
  BY <1>1, <1>2 DEF Allocate, RingTypes
<1>3. CASE (\E tid : LookupThread(t, tid)) \/ (\E x : RemoveThread(t, x)) \/ Return(t)
  BY <1>1, <1>3 DEF LookupThread, RemoveThread, Return, ring, RingTypes, Away
<1>4. CASE UNCHANGED threadvars /\ at[t].pc # "head"
  BY <1>4 DEF threadvars, ring
<1> QED BY <1>2, <1>3, <1>4

LEMMA Called ==
  ASSUME Shapes, NEW t \in Threads, NEW call, NEW stage, NEW tid,
         doing' = [doing EXCEPT ![t] = [NoCall EXCEPT !.call = call, !.stage = stage, !.tid = tid]]
  PROVE  doing'[t].call = call
<1> DEFINE c == [NoCall EXCEPT !.call = call, !.stage = stage, !.tid = tid]
<1>1. c.call = call
  BY DEF NoCall
<1>2. doing'[t] = c
  <2>1. doing' = [doing EXCEPT ![t] = c] /\ doing = [u \in Threads |-> doing[u]]
    BY DEF Shapes
  <2> HIDE DEF c
  <2> QED BY <2>1
<1> QED BY <1>1, <1>2

LEMMA Begun ==
  ASSUME Shapes, NEW t \in Threads, NEW call, NEW stage, Begin(t, call, stage)
  PROVE  doing'[t].call = call
<1>1. doing'[t] = [call |-> call, stage |-> stage, tid |-> None, block |-> None, tmp |-> None, n |-> 0]
  BY BeginIs
<1> QED BY <1>1

LEMMA CallServes ==
  ASSUME Calls, Calls', NEW t \in Threads, Call(t)
  PROVE  Serves
<1>0. RingInv /\ Shapes /\ PhaseIs /\ PhaseIs' /\ doing[t] = NoCall /\ at[t] = Away
  <2>1. PhaseIs /\ PhaseIs'
    BY PhaseNow, PTL
  <2>2. doing[t] = NoCall
    BY DEF Call, Init, Ready, Register, Create, Destroy, Attach, Unregister, Shutdown
  <2> QED BY <2>1, <2>2, IdleIs DEF Calls
<1>1. /\ \A u \in Threads \ {t} : doing'[u] = doing[u]
      /\ at[t].pc # "head"
  BY <1>0, DoingElse DEF Moving, Away
<1>2. CASE Init(t)
  <2>1. /\ ~up /\ UNCHANGED <<handles, up>> /\ \A u \in Threads : doing[u].call = "none"
        /\ Allocate(t, t) /\ doing'[t].call = "init"
    <3>1. ~up /\ UNCHANGED <<handles, up>> /\ Allocate(t, t) /\ \A u \in Threads : doing[u] = NoCall
      BY <1>2 DEF Init, MakeTable
    <3>2. doing'[t].call = "init"
      BY <1>0, <1>2, Begun DEF Init
    <3> QED BY <3>1, <3>2 DEF NoCall
  <2>2. Phase = "down" /\ Phase' = "opening"
    BY <1>0, <2>1 DEF Phase, In, PhaseIs
  <2>3. Known' = Known
    BY <1>1, <2>1, AtSteps, OutsideShows DEF Calls
  <2>4. Service!Open
    BY <2>1, <2>2, <2>3 DEF Service!Open
  <2> QED BY <2>4 DEF Serves, Service!Next
<1>3. CASE Register(t) \/ Create(t) \/ Destroy(t) \/ Attach(t) \/ Unregister(t)
  <2>0. doing[t].call = "none" /\ UNCHANGED <<handles, up>>
    <3>1. UNCHANGED <<handles, up>>
      BY <1>3 DEF Register, Create, Destroy, Attach, Unregister, InRing, InTable, tablevars, NewEventSet, LookupEventSet
    <3> QED BY <1>0, <3>1 DEF NoCall
  <2>1. doing'[t].call \in {"register", "create", "destroy", "attach", "unregister"}
    <3>1. CASE Attach(t)
      <4>1. PICK tid : doing' = [doing EXCEPT ![t] = [NoCall EXCEPT !.call = "attach", !.stage = "lookup", !.tid = tid]]
        BY <3>1 DEF Attach
      <4> QED BY <1>0, <4>1, Called
    <3>2. CASE ~Attach(t)
      <4>1. PICK call \in {"register", "create", "destroy", "unregister"}, stage \in {"register", "create", "lookup", "self"} :
              Begin(t, call, stage)
        BY <1>3, <3>2 DEF Register, Create, Destroy, Unregister
      <4> QED BY <1>0, <4>1, Begun
    <3> QED BY <3>1, <3>2
  <2>2. Allocate(t, t) \/ LookupThread(t, t) \/ UNCHANGED threadvars
    BY <1>3 DEF Register, Create, Destroy, Attach, Unregister, InTable
  <2>3. /\ UNCHANGED <<thread_head, members>> /\ at'[t].pc # "head"
        /\ \A u \in Threads \ {t} : at'[u] = at[u]
        /\ \A x \in Infos : info[x] # None => info'[x] = info[x]
    BY <1>1, <2>2, AtSteps
  <2> QED BY <1>1, <2>0, <2>1, <2>3, WithinServes
<1>4. CASE Shutdown(t)
  <2>0. /\ up /\ \A u \in Threads \ {t} : my_thread[u] = None /\ doing[u] = NoCall
        /\ handles' = [u \in Threads |-> {}] /\ UNCHANGED up
        /\ LookupThread(t, t) \/ UNCHANGED threadvars
    BY <1>4 DEF Shutdown, Ready, Others, DropTable
  <2>1. doing'[t].call = "shutdown" /\ \A u \in Threads : doing[u].call = "none"
    <3>1. ASSUME Begin(t, "shutdown", "each") PROVE doing'[t].call = "shutdown"
      BY <1>0, <3>1, Begun
    <3>2. ASSUME doing' = [doing EXCEPT ![t] = [NoCall EXCEPT !.call = "shutdown", !.stage = "own", !.tid = t]]
          PROVE  doing'[t].call = "shutdown"
      BY <1>0, <3>2, Called
    <3>3. \A u \in Threads : doing[u].call = "none"
      BY <1>0, <2>0 DEF NoCall
    <3> QED BY <1>4, <3>1, <3>2, <3>3 DEF Shutdown
  <2>2. Phase = "up" /\ Phase' = "closing"
    BY <1>0, <2>0, <2>1 DEF Phase, In, PhaseIs
  <2>3. Known' = Known
    BY <1>1, <2>0, <2>1, AtSteps, OutsideShows DEF Calls
  <2>4. ASSUME NEW u \in Threads, u # t PROVE u \notin Known
    <3>1. my_thread[u] = None /\ at[u] = Away
      BY <2>0, <2>1, <2>4, IdleIs
    <3> QED BY <1>0, <3>1, SelfKnown DEF Away
  <2>5. Service!Close
    BY <2>0, <2>1, <2>2, <2>3, <2>4 DEF Service!Close, Service!NoHandles
  <2> QED BY <2>5 DEF Serves, Service!Next
<1> QED BY <1>2, <1>3, <1>4 DEF Call

LEMMA DownServes ==
  ASSUME Calls, Calls', NEW t \in Threads, Down(t)
  PROVE  Serves
<1>0. RingInv /\ Where(t) /\ Alone(t) /\ PhaseIs
  BY PhaseNow DEF Calls, Control
<1>1. /\ doing[t].stage = "each" /\ doing' = [doing EXCEPT ![t] = NoCall] /\ ~up'
      /\ thread_head' = None /\ handles' = handles
  BY DEF Down, Doing
<1>2. doing[t].call = "shutdown" /\ at[t].pc \in {"idle", "done"} /\ my_thread[t] = None
  BY <1>0, <1>1 DEF Where, Alone, NoCall
<1>3. Phase = "closing" /\ Phase' = "down"
  <2>1. \A u \in Threads \ {t} : doing[u] = NoCall
    BY <1>0, <1>2 DEF Alone
  <2>2. \A u \in Threads : doing'[u].call = "none"
    BY <1>1, <2>1 DEF NoCall, Calls, Shapes
  <2> QED BY <1>0, <1>1, <1>2, <2>2 DEF PhaseIs, Phase, In
<1>4. \A u \in Threads : u \notin Known
  <2> TAKE u \in Threads
  <2>1. my_thread[u] = None /\ at[u].pc \in {"idle", "done"}
    <3>1. CASE u = t
      BY <1>2, <3>1
    <3>2. CASE u # t
      BY <1>0, <1>2, <3>2, IdleIs DEF Alone, Between
    <3> QED BY <3>1, <3>2
  <2> QED BY <1>0, <2>1, SelfKnown
<1>5. Known' = {}
  <2>1. KnownIsSeen'
    BY SeenIs, PTL DEF Calls
  <2> QED BY <1>1, <2>1 DEF KnownIsSeen, Seen
<1>6. Service!Down
  BY <1>1, <1>3, <1>4, <1>5 DEF Service!Down
<1> QED BY <1>6 DEF Serves, Service!Next

LEMMA UpServes ==
  ASSUME Calls, Calls', Fresh, NEW t \in Threads, Up(t)
  PROVE  Serves
<1>0. RingInv /\ Where(t) /\ Knows(t) /\ Alone(t) /\ PhaseIs
  BY PhaseNow DEF Calls, Control
<1>1. /\ doing[t].stage = "init" /\ at[t].pc = "done" /\ doing' = [doing EXCEPT ![t] = NoCall]
      /\ up' = (Entry(t) # None) /\ at' = [at EXCEPT ![t] = Away] /\ UNCHANGED <<ring, my_thread, handles>>
  BY DEF Up, RingDone, Doing, tablevars
<1>2. doing[t].call = "init" /\ ~up /\ my_thread[t] = Entry(t)
  BY <1>0, <1>1 DEF Where, Alone, Knows, NoCall
<1>3. \A u \in Threads \ {t} : doing[u] = NoCall
  BY <1>0, <1>2 DEF Alone
<1>4. Phase = "opening" /\ Phase' = IF Entry(t) = None THEN "down" ELSE "up"
  <2>1. \A u \in Threads : doing'[u].call = "none"
    BY <1>1, <1>3 DEF NoCall, Calls, Shapes
  <2> QED BY <1>0, <1>1, <1>2, <2>1 DEF PhaseIs, Phase, In
<1>5. Known' = Known
  <2>1. UNCHANGED <<thread_head, members, info>> /\ at'[t].pc # "head" /\ \A u \in Threads \ {t} : at'[u] = at[u]
    BY <1>0, <1>1 DEF ring, RingInv, RingTypes, Away
  <2> QED BY <1>1, <2>1, OutsideShows DEF Calls
<1>6. Entry(t) = None <=> Known = {}
  <2>1. ASSUME Entry(t) # None PROVE Known # {}
    BY <1>0, <1>1, <1>2, <2>1, SelfKnown
  <2>2. ASSUME Entry(t) = None PROVE Known = {}
    <3>1. members = {}
      BY <1>2, <1>3, <2>2 DEF Fresh, NoCall
    <3>2. thread_head = None
      BY <1>0, <3>1 DEF RingInv, Linking
    <3> QED BY <1>0, <3>2, SeenIs DEF KnownIsSeen, Seen
  <2> QED BY <2>1, <2>2
<1>7. Service!Opened
  BY <1>1, <1>4, <1>5, <1>6 DEF Service!Opened
<1> QED BY <1>7 DEF Serves, Service!Next

LEMMA ReturnServes ==
  ASSUME Calls, Calls', NEW t \in Threads, Return(t), doing[t].call \notin {"init", "shutdown"}, at[t].pc # "head"
  PROVE  Serves
<1>1. doing'[t].call = "none" /\ \A u \in Threads \ {t} : doing'[u] = doing[u]
  BY DEF Return, Calls, Shapes, NoCall
<1>2. UNCHANGED <<handles, up>>
  BY DEF Return
<1>3. /\ UNCHANGED <<thread_head, members>> /\ at'[t].pc # "head"
      /\ \A u \in Threads \ {t} : at'[u] = at[u]
      /\ \A x \in Infos : info[x] # None => info'[x] = info[x]
  BY AtSteps
<1> QED BY <1>1, <1>2, <1>3, WithinServes

\* The call goes on, and the thread sets out in the ring or stays where it is.
Goes(t) ==
  /\ doing'[t].call = doing[t].call /\ UNCHANGED <<handles, up>>
  /\ \/ \E tid : Allocate(t, tid)
     \/ \E tid : LookupThread(t, tid)
     \/ \E x : RemoveThread(t, x)
     \/ UNCHANGED threadvars

LEMMA GoesServes ==
  ASSUME Calls, Calls', NEW t \in Threads, Goes(t), at[t].pc # "head", \A u \in Threads \ {t} : doing'[u] = doing[u]
  PROVE  Serves
<1>1. /\ UNCHANGED <<thread_head, members>> /\ at'[t].pc # "head"
      /\ \A u \in Threads \ {t} : at'[u] = at[u]
      /\ \A x \in Infos : info[x] # None => info'[x] = info[x]
  BY AtSteps DEF Goes
<1> QED BY <1>1, WithinServes DEF Goes

LEMMA ThenGoes ==
  ASSUME Shapes, NEW t \in Threads, NEW stage, Then(t, stage)
  PROVE  doing'[t].call = doing[t].call
<1>1. doing'[t] = [call |-> doing[t].call, stage |-> stage, tid |-> doing[t].tid, block |-> doing[t].block,
                   tmp |-> doing[t].tmp, n |-> doing[t].n]
  BY ThenIs
<1> QED BY <1>1

\* What a thread that leaves had not given back is void with its ThreadInfo.
LEMMA SweptServes ==
  ASSUME Calls, Calls', NEW t \in Threads, Swept(t)
  PROVE  Serves
<1>0. RingInv /\ Shapes /\ Knows(t) /\ Where(t) /\ PhaseIs
  BY PhaseNow DEF Calls, Control
<1>1. /\ doing[t].stage = "sweep" /\ handles' = [handles EXCEPT ![t] = {}] /\ UNCHANGED up
      /\ RemoveThread(t, my_thread[t]) /\ Then(t, "remove")
  BY DEF Swept, TableDone, Doing
<1>2. doing[t].call = "unregister" /\ at[t].pc = "done" /\ doing[t] # NoCall
  BY <1>0, <1>1 DEF Where, NoCall
<1>3. /\ doing'[t].call = "unregister" /\ \A u \in Threads \ {t} : doing'[u] = doing[u]
  <2>1. doing'[t].call = doing[t].call
    BY <1>0, <1>1, ThenGoes
  <2> QED BY <1>0, <1>1, <1>2, <2>1 DEF Then, Shapes
<1>4. Known' = Known
  <2>1. /\ UNCHANGED <<thread_head, members>> /\ at'[t].pc # "head"
        /\ \A u \in Threads \ {t} : at'[u] = at[u]
        /\ \A x \in Infos : info[x] # None => info'[x] = info[x]
    BY <1>1, AtSteps
  <2> QED BY <1>2, <2>1, OutsideShows DEF Calls
<1>5. Phase = "up" /\ Phase' = Phase
  <2>1. Phase = "up"
    BY <1>0, <1>2 DEF PhaseIs
  <2> QED BY <1>1, <1>2, <1>3, <2>1, PhaseStays
<1>6. t \in Known
  <2>1. my_thread[t] # None
    BY <1>0, <1>1 DEF Knows
  <2> QED BY <1>0, <1>2, <2>1, SelfKnown
<1>7. Service!Forget(t)
  BY <1>1, <1>4, <1>5, <1>6 DEF Service!Forget
<1> QED BY <1>7 DEF Serves, Service!Next

\* The loop of PAPI_shutdown and PAPI_attach set more than the stage.
LEMMA FieldsGo ==
  ASSUME Shapes, NEW t \in Threads, NEW a, NEW b, NEW c,
         \/ doing' = [doing EXCEPT ![t].stage = a, ![t].block = b]
         \/ doing' = [doing EXCEPT ![t].stage = a, ![t].tmp = b, ![t].n = c]
         \/ doing' = [doing EXCEPT ![t].tmp = a, ![t].n = b, ![t].stage = c]
  PROVE  doing'[t].call = doing[t].call
<1>1. /\ doing = [u \in Threads |-> doing[u]]
      /\ doing[t] = [call |-> doing[t].call, stage |-> doing[t].stage, tid |-> doing[t].tid,
                     block |-> doing[t].block, tmp |-> doing[t].tmp, n |-> doing[t].n]
  BY DEF Shapes
<1>2. CASE doing' = [doing EXCEPT ![t].stage = a, ![t].block = b]
  BY <1>1, <1>2
<1>3. CASE doing' = [doing EXCEPT ![t].stage = a, ![t].tmp = b, ![t].n = c]
  BY <1>1, <1>3
<1>4. CASE doing' = [doing EXCEPT ![t].tmp = a, ![t].n = b, ![t].stage = c]
  BY <1>1, <1>4
<1> QED BY <1>2, <1>3, <1>4

LEMMA GoOnServes ==
  ASSUME Calls, Calls', NEW t \in Threads, \A u \in Threads \ {t} : doing'[u] = doing[u],
         \/ Registered(t) \/ Created(t) \/ Doomed(t) \/ Destroyed(t) \/ Attaching(t) \/ Target(t) \/ Made(t)
         \/ IsAttached(t) \/ Sweep(t) \/ Gone(t) \/ ShutOwn(t) \/ Count(t) \/ Each(t) \/ Removed(t)
  PROVE  Serves
<1>0. RingInv /\ Shapes /\ Where(t)
  BY DEF Calls, Control
<1>1. CASE Registered(t) \/ Created(t) \/ Doomed(t) \/ Destroyed(t)
  <2>1. doing[t].stage \in {"register", "create", "lookup", "destroy"} /\ (doing[t].stage = "register" => at[t].pc = "done")
    BY <1>1 DEF Registered, Created, Doomed, Destroyed, RingDone, TableDone, Doing
  <2>2. at[t].pc # "head" /\ doing[t].call \notin {"init", "shutdown"}
    BY <1>0, <2>1 DEF Where, NoCall, Away
  <2>3. CASE Return(t)
    BY <2>2, <2>3, ReturnServes
  <2>4. CASE ~Return(t)
    <3>1. \E stage : Then(t, stage)
      BY <1>1, <2>4 DEF Registered, Created, Doomed, Destroyed
    <3>2. UNCHANGED <<handles, up, threadvars>>
      BY <1>1, <2>4 DEF Registered, Created, Doomed, Destroyed, InTable, NewEventSet, FreeEventSet
    <3>3. doing'[t].call = doing[t].call
      BY <1>0, <3>1, ThenGoes
    <3> QED BY <2>2, <3>2, <3>3, GoesServes DEF Goes
  <2> QED BY <2>3, <2>4
<1>2. CASE Attaching(t) \/ Target(t) \/ Made(t) \/ IsAttached(t)
  <2>1. /\ doing[t].stage \in {"lookup", "target", "made", "attached"}
        /\ doing[t].stage \in {"target", "made"} => at[t].pc = "done"
    BY <1>2 DEF Attaching, Target, Made, IsAttached, RingDone, TableDone, Doing
  <2>2. at[t].pc # "head" /\ doing[t].call \notin {"init", "shutdown"}
    BY <1>0, <2>1 DEF Where, NoCall, Away
  <2>3. CASE Return(t)
    BY <2>2, <2>3, ReturnServes
  <2>4. CASE ~Return(t)
    <3>2. /\ UNCHANGED <<handles, up>>
          /\ (\E tid : Allocate(t, tid)) \/ (\E tid : LookupThread(t, tid)) \/ UNCHANGED threadvars
      BY <1>2, <2>4 DEF Attaching, Target, Made, IsAttached, InTable, InRing, tablevars, Attached
    <3>3. doing'[t].call = doing[t].call
      <4>1. CASE Attaching(t)
        <5>1. PICK a, b, c : doing' = [doing EXCEPT ![t].stage = a, ![t].block = b]
          <6>1. doing' = [doing EXCEPT ![t].stage = "target", ![t].block = op[t].block]
            BY <2>4, <4>1 DEF Attaching
          <6> QED BY <6>1
        <5> QED BY <1>0, <5>1, FieldsGo
      <4>2. CASE ~Attaching(t)
        <5>1. \E stage : Then(t, stage)
          BY <1>2, <2>4, <4>2 DEF Target, Made, IsAttached
        <5> QED BY <1>0, <5>1, ThenGoes
      <4> QED BY <4>1, <4>2
    <3> QED BY <2>2, <3>2, <3>3, GoesServes DEF Goes
  <2> QED BY <2>3, <2>4
<1>3. CASE Sweep(t) \/ ShutOwn(t) \/ Count(t) \/ Each(t) \/ Removed(t)
  <2>1. /\ doing[t].stage \in {"self", "own", "remove", "each", "removing"}
        /\ doing[t].stage \in {"self", "own", "remove", "removing"} => at[t].pc = "done"
    BY <1>3 DEF Sweep, ShutOwn, Count, Each, Removed, RingDone, Doing
  <2>2. at[t].pc # "head"
    BY <1>0, <2>1 DEF Where, NoCall
  <2>3. doing'[t].call = doing[t].call
    <3>1. CASE Count(t)
      BY <1>0, <3>1, FieldsGo DEF Count
    <3>2. CASE Each(t)
      <4>1. PICK a, b, c : doing' = [doing EXCEPT ![t].tmp = a, ![t].n = b, ![t].stage = c]
        <5>1. doing' = [doing EXCEPT ![t].tmp = info[doing[t].tmp].next, ![t].n = doing[t].n - 1,
                          ![t].stage = IF info[doing[t].tmp].allocator_tid = t THEN "removing" ELSE "each"]
          BY <3>2 DEF Each
        <5> QED BY <5>1
      <4> QED BY <1>0, <4>1, FieldsGo
    <3>3. CASE ~Count(t) /\ ~Each(t)
      <4>1. \E stage : Then(t, stage)
        BY <1>3, <3>3 DEF Sweep, ShutOwn, Removed
      <4> QED BY <1>0, <4>1, ThenGoes
    <3> QED BY <3>1, <3>2, <3>3
  <2>4. /\ UNCHANGED <<handles, up>>
        /\ (\E x : RemoveThread(t, x)) \/ UNCHANGED threadvars
    BY <1>3 DEF Sweep, ShutOwn, Count, Each, Removed, InTable, InRing, tablevars, WalkTable
  <2> QED BY <2>2, <2>3, <2>4, GoesServes DEF Goes
<1>4. CASE Gone(t)
  <2>1. at[t].pc # "head" /\ doing[t].call \notin {"init", "shutdown"} /\ Return(t)
    BY <1>4 DEF Gone, RingDone, Doing
  <2> QED BY <2>1, ReturnServes
<1> QED BY <1>1, <1>2, <1>3, <1>4

-----------------------------------------------------------------------------
(* Every step is one of a ThreadService or does not show.                  *)
LEMMA NextServes ==
  ASSUME Calls, Calls', Table, Fresh, [RegistryNext]_regvars
  PROVE  Serves
<1>1. CASE UNCHANGED regvars
  <2>1. UNCHANGED <<threadvars, handles, doing, up>>
    BY <1>1 DEF regvars, tablevars
  <2>2. Known' = Known /\ Phase' = Phase
    BY <2>1, SameShows DEF Phase, In
  <2> QED BY <2>1, <2>2, SilentServes
<1>2. ASSUME NEW t \in Threads, Moving(t) PROVE Serves
  <2>0. \A u \in Threads \ {t} : doing'[u] = doing[u]
    BY <1>2, DoingElse DEF Calls
  <2>1. CASE Call(t)
    BY <2>1, CallServes
  <2>2. CASE (ThreadsGo(t) \/ ThreadsWait(t)) /\ UNCHANGED doing /\ InRing
    BY <2>2, RingServes
  <2>3. CASE (TableGo(t) \/ TableWait(t)) /\ UNCHANGED doing /\ InTable
    BY <2>3, TableServes
  <2>4. CASE Swept(t) \/ Down(t) \/ Up(t)
    BY <2>4, SweptServes, DownServes, UpServes
  <2>5. CASE \/ Registered(t) \/ Created(t) \/ Doomed(t) \/ Destroyed(t) \/ Attaching(t) \/ Target(t) \/ Made(t)
             \/ IsAttached(t) \/ Sweep(t) \/ Gone(t) \/ ShutOwn(t) \/ Count(t) \/ Each(t) \/ Removed(t)
    BY <2>0, <2>5, GoOnServes
  <2> QED BY <1>2, <2>1, <2>2, <2>3, <2>4, <2>5 DEF Moving, GoOn, Wait
<1> QED BY <1>1, <1>2 DEF RegistryNext, Lost, Moving

LEMMA FreshHolds == RegistrySpec => []Fresh
<1>1. RegistryInit => Fresh
  BY DEF RegistryInit, ThreadListInit, Fresh
<1>2. Calls /\ Fresh /\ [RegistryNext]_regvars => Fresh'
  <2> SUFFICES ASSUME Calls, Fresh, [RegistryNext]_regvars PROVE Fresh'
    OBVIOUS
  <2>1. CASE UNCHANGED regvars
    BY <2>1 DEF Fresh, Entry, regvars, threadvars, ring
  <2>2. ASSUME NEW t \in Threads, Moving(t) PROVE Fresh'
    BY <2>2, FreshStays
  <2> QED BY <2>1, <2>2 DEF RegistryNext, Lost, Moving
<1> QED BY <1>1, <1>2, TableHolds, PTL DEF RegistrySpec

\* A thread is known by its own calls alone and until it unregisters, a process
\* until the library goes down, and a handle goes to a thread that is known and
\* to one at a time: the ring and the table, with all their steps, do what a
\* ThreadService does.
THEOREM ServesThreadsHolds == RegistrySpec => ServesThreads
<1>1. RegistryInit => Service!Init
  <2> SUFFICES ASSUME RegistryInit PROVE Service!Init
    OBVIOUS
  <2>1. RingInv
    BY CallsStart DEF Calls
  <2>2. thread_head = None /\ handles = [t \in Threads |-> {}] /\ ~up /\ \A t \in Threads : doing[t].call = "none"
    BY DEF RegistryInit, ThreadListInit, TableInit, NoCall
  <2>3. Known = {}
    BY <2>1, <2>2, SeenIs DEF KnownIsSeen, Seen
  <2>4. Phase = "down"
    BY <2>2 DEF Phase, In
  <2> QED BY <2>2, <2>3, <2>4 DEF Service!Init, Service!NoHandles
<1>2. Calls /\ Calls' /\ Table /\ Fresh /\ [RegistryNext]_regvars => [Service!Next]_<<Known, handles, Phase>>
  BY NextServes DEF Serves
<1> QED BY <1>1, <1>2, TableHolds, FreshHolds, PTL DEF RegistrySpec, ServesThreads, Service!Spec
=============================================================================
