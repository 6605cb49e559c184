------------------------- MODULE NativeEventsProofs -------------------------
(***************************************************************************)
(* What the operators of NativeEvents return, for every table of events.   *)
(*                                                                         *)
(* NumMpxCntrs bounds the arrays, so all sets of indexes here are finite;  *)
(* the j-th smallest index exists because counting the smaller ones maps   *)
(* a finite set of numbers one-to-one, hence onto, the numbers to its size.*)
(***************************************************************************)
EXTENDS NativeEvents, FiniteSetTheorems, SequenceTheorems, TLAPS

-----------------------------------------------------------------------------
(* The j-th smallest number of a set.                                      *)

Rank(S, k) == Cardinality({l \in S : l <= k})

\* Counting the members up to k is a number from 1 to the size of the set, and
\* grows with k.
LEMMA RankGrows ==
  ASSUME NEW S \in SUBSET Int, IsFiniteSet(S), NEW k \in S
  PROVE  /\ Rank(S, k) \in 1..Cardinality(S)
         /\ \A m \in S : k < m => Rank(S, k) < Rank(S, m)
<1> DEFINE Upto(x) == {l \in S : l <= x}
<1>1. \A x : IsFiniteSet(Upto(x)) /\ Cardinality(Upto(x)) \in Nat
             /\ Cardinality(Upto(x)) <= Cardinality(S)
  <2> TAKE x
  <2>1. Upto(x) \in SUBSET S
    OBVIOUS
  <2> QED BY <2>1, FS_Subset, FS_CardinalityType
<1>2. Cardinality(Upto(k)) # 0
  BY <1>1, FS_EmptySet, k \in Upto(k)
<1>3. ASSUME NEW m \in S, k < m
      PROVE  Cardinality(Upto(k)) < Cardinality(Upto(m))
  <2>1. k \in Int /\ m \in Int /\ m <= m /\ ~(m <= k)
    BY <1>3
  <2>2. \A l \in S : l <= k => l <= m
    BY <1>3
  <2>3. m \in Upto(m) /\ m \notin Upto(k)
    BY <2>1
  <2>4. Upto(k) \in SUBSET Upto(m)
    BY <2>2
  <2>5. /\ Cardinality(Upto(k)) <= Cardinality(Upto(m))
        /\ Cardinality(Upto(m)) = Cardinality(Upto(k)) => Upto(m) = Upto(k)
    BY <1>1, <2>4, FS_Subset
  <2> QED BY <1>1, <2>3, <2>5
<1>4. Cardinality(S) \in Nat
  BY FS_CardinalityType
<1> QED BY <1>1, <1>2, <1>3, <1>4 DEF Rank

\* Nth(S, j) is a member of S, j members are up to it, and it is the only one.
LEMMA NthIs ==
  ASSUME NEW S \in SUBSET Int, IsFiniteSet(S), NEW j \in 1..Cardinality(S)
  PROVE  /\ Nth(S, j) \in S
         /\ Rank(S, Nth(S, j)) = j
         /\ \A k \in S : Rank(S, k) = j => k = Nth(S, j)
<1> DEFINE T == 1..Cardinality(S)
           f == [k \in S |-> Rank(S, k)]
<1>1. Cardinality(S) \in Nat
  BY FS_CardinalityType
<1>2. IsFiniteSet(T) /\ Cardinality(T) = Cardinality(S)
  BY <1>1, FS_Interval
<1>3. \A k, m \in S : Rank(S, k) = Rank(S, m) => k = m
  <2> SUFFICES ASSUME NEW k \in S, NEW m \in S, k # m
               PROVE  Rank(S, k) # Rank(S, m)
    OBVIOUS
  <2>1. k \in Int /\ m \in Int
    OBVIOUS
  <2>2. /\ Rank(S, k) \in T /\ Rank(S, m) \in T
        /\ k < m => Rank(S, k) < Rank(S, m)
        /\ m < k => Rank(S, m) < Rank(S, k)
    BY RankGrows
  <2> QED BY <1>1, <2>1, <2>2
<1>4. f \in Injection(S, T)
  <2>1. f \in [S -> T]
    BY RankGrows
  <2> QED BY <1>3, <2>1 DEF Injection, IsInjective
<1>5. f \in Surjection(S, T)
  BY <1>2, <1>4, FS_Injection
<1>6. \E k \in S : Rank(S, k) = j
  BY <1>5 DEF Surjection
<1>7. Nth(S, j) \in S /\ Rank(S, Nth(S, j)) = j
  BY <1>6 DEF Nth, Rank
<1> QED BY <1>3, <1>7
-----------------------------------------------------------------------------
(* The native events of an event.                                          *)

\* What NativesOf and Needs give for every event code.
LEMMA NativesOfIs ==
  ASSUME NEW c \in Codes
  PROVE  /\ NativesOf(c) \in Seq(Natives)
         /\ Len(NativesOf(c)) \in Nat /\ DOMAIN NativesOf(c) = 1..Len(NativesOf(c))
         /\ \A k \in DOMAIN NativesOf(c) : NativesOf(c)[k] \in Natives
         /\ Needs(c) \subseteq Natives
<1>1. NativesOf(c) \in Seq(Natives)
  BY NativeEventsAssumption DEF NativesOf, Codes
<1>2. Len(NativesOf(c)) \in Nat /\ DOMAIN NativesOf(c) = 1..Len(NativesOf(c))
  BY <1>1, LenProperties
<1>3. \A k \in DOMAIN NativesOf(c) : NativesOf(c)[k] \in Natives
  BY <1>1, <1>2, ElementOfSeq
<1> QED BY <1>1, <1>2, <1>3 DEF Needs

\* The native events NewNatives lists are those of the event that are not mapped.
LEMMA NewNativesIs ==
  ASSUME NEW nats, NEW c \in Codes
  PROVE  /\ NewNatives(nats, c) \in Seq(Natives)
         /\ Len(NewNatives(nats, c)) = Cardinality(Fresh(nats, c))
         /\ \A n : (\E j \in DOMAIN NewNatives(nats, c) : NewNatives(nats, c)[j] = n)
                     <=> n \in Needs(c) \ Mapped(nats)
         /\ NewNatives(nats, c) = <<>> <=> Needs(c) \subseteq Mapped(nats)
<1> DEFINE F == Fresh(nats, c)
           N == NativesOf(c)
           W == NewNatives(nats, c)
<1>1. DOMAIN N \in SUBSET Int /\ IsFiniteSet(DOMAIN N)
  BY NativesOfIs, FS_Interval
<1>2. F \in SUBSET Int /\ IsFiniteSet(F) /\ F \subseteq DOMAIN N
  <2>1. F \in SUBSET (DOMAIN N)
    BY DEF Fresh
  <2> QED BY <1>1, <2>1, FS_Subset
<1>3. Cardinality(F) \in Nat
  BY <1>2, FS_CardinalityType
<1>4. \A j \in 1..Cardinality(F) : Nth(F, j) \in F
  BY <1>2, NthIs
<1>5. \A j \in 1..Cardinality(F) : N[Nth(F, j)] \in Natives
  BY <1>2, <1>4, NativesOfIs
<1>6. W = [j \in 1..Cardinality(F) |-> N[Nth(F, j)]]
  BY DEF NewNatives
<1>7. W \in Seq(Natives)
  <2> HIDE DEF N, F
  <2> DEFINE X == [j \in 1..Cardinality(F) |-> N[Nth(F, j)]]
  <2>1. X \in [1..Cardinality(F) -> Natives]
    BY <1>5
  <2> QED BY <1>3, <1>6, <2>1, SeqDef
<1>8. DOMAIN W = 1..Cardinality(F) /\ Len(W) = Cardinality(F)
  BY <1>3, <1>6, <1>7, LenProperties
<1>9. ASSUME NEW n
      PROVE  (\E j \in DOMAIN W : W[j] = n) <=> n \in Needs(c) \ Mapped(nats)
  <2>1. ASSUME NEW j \in DOMAIN W PROVE W[j] \in Needs(c) \ Mapped(nats)
    <3>1. W[j] = N[Nth(F, j)] /\ Nth(F, j) \in F
      BY <1>4, <1>6, <1>8
    <3> QED BY <3>1 DEF Fresh, Needs
  <2>2. ASSUME n \in Needs(c) \ Mapped(nats) PROVE \E j \in DOMAIN W : W[j] = n
    <3>1. PICK k \in DOMAIN N : N[k] = n
      BY <2>2 DEF Needs
    <3>2. k \in F
      BY <2>2, <3>1 DEF Fresh
    <3>3. Rank(F, k) \in 1..Cardinality(F)
      BY <1>2, <3>2, RankGrows
    <3>4. k = Nth(F, Rank(F, k))
      BY <1>2, <3>2, <3>3, NthIs
    <3>5. W[Rank(F, k)] = n
      BY <1>6, <3>1, <3>3, <3>4
    <3> QED BY <1>8, <3>3, <3>5
  <2> QED BY <2>1, <2>2
<1>10. W = <<>> <=> Needs(c) \subseteq Mapped(nats)
  <2>1. W = <<>> <=> DOMAIN W = {}
    BY <1>3, <1>7, <1>8, EmptySeq
  <2> QED BY <1>9, <2>1
<1> QED BY <1>7, <1>8, <1>9, <1>10
-----------------------------------------------------------------------------
(* NativeInfoArray while an event is added, removed or given up.           *)

\* A native event that has not been given a position yet may be in the array.
Row == [nat : Natives, owners : Int, pos : Int]

\* A row of NativeInfoArray with a position is one without it.
LEMMA NativeInfoIsRow ==
  ASSUME NEW nats \in Seq(NativeInfo)
  PROVE  nats \in Seq(Row)
<1>1. NativeInfo \subseteq Row
  BY NativeEventsAssumption DEF NativeInfo, Row, Positions
<1> QED BY <1>1, SeqMonotonic

\* Another owner count makes no other difference to a row.
LEMMA OwnersReplaced ==
  ASSUME NEW P, NEW r \in [nat : Natives, owners : Int, pos : P], NEW k \in Int
  PROVE  /\ [r EXCEPT !.owners = k] \in [nat : Natives, owners : Int, pos : P]
         /\ [r EXCEPT !.owners = k].nat = r.nat
         /\ [r EXCEPT !.owners = k].pos = r.pos
OBVIOUS

\* Gain and Lose only change owner counts.
LEMMA OwnersOnly ==
  ASSUME NEW R \in {Row, NativeInfo}, NEW nats \in Seq(R), NEW c \in Codes
  PROVE  /\ Gain(nats, c) \in Seq(R) /\ Len(Gain(nats, c)) = Len(nats)
         /\ Lose(nats, c) \in Seq(R) /\ Len(Lose(nats, c)) = Len(nats)
         /\ \A i \in 1..Len(nats) :
              /\ Gain(nats, c)[i].nat = nats[i].nat /\ Gain(nats, c)[i].pos = nats[i].pos
              /\ Lose(nats, c)[i].nat = nats[i].nat /\ Lose(nats, c)[i].pos = nats[i].pos
<1> DEFINE n == Len(nats)
           More(i) == IF nats[i].nat \in Needs(c) THEN [nats[i] EXCEPT !.owners = @ + 1] ELSE nats[i]
           Less(i) == IF nats[i].nat \in Needs(c) THEN [nats[i] EXCEPT !.owners = @ - 1] ELSE nats[i]
<1>1. n \in Nat /\ DOMAIN nats = 1..n /\ \A i \in 1..n : nats[i] \in R
  BY LenProperties, ElementOfSeq
<1>2. ASSUME NEW i \in 1..n
      PROVE  /\ More(i) \in R /\ Less(i) \in R
             /\ More(i).nat = nats[i].nat /\ More(i).pos = nats[i].pos
             /\ Less(i).nat = nats[i].nat /\ Less(i).pos = nats[i].pos
  <2>1. \E P : R = [nat : Natives, owners : Int, pos : P]
    BY DEF Row, NativeInfo
  <2>2. nats[i] \in R
    BY <1>1
  <2>3. nats[i].owners + 1 \in Int /\ nats[i].owners - 1 \in Int
    BY <2>1, <2>2
  <2> QED BY <2>1, <2>2, <2>3, OwnersReplaced
<1>3. Gain(nats, c) = [i \in 1..n |-> More(i)] /\ Lose(nats, c) = [i \in 1..n |-> Less(i)]
  BY <1>1 DEF Gain, Lose
<1> HIDE DEF n, More, Less
<1>4. [i \in 1..n |-> More(i)] \in [1..n -> R] /\ [i \in 1..n |-> Less(i)] \in [1..n -> R]
  BY <1>2
<1>5. Gain(nats, c) \in Seq(R) /\ Lose(nats, c) \in Seq(R)
  BY <1>1, <1>3, <1>4, SeqDef
<1>6. Len(Gain(nats, c)) = n /\ Len(Lose(nats, c)) = n
  BY <1>1, <1>3, <1>4
<1> QED BY <1>2, <1>3, <1>5, <1>6 DEF n

\* Adding an event maps its native events and keeps the others.
LEMMA AddNativesIs ==
  ASSUME NEW nats \in Seq(NativeInfo), NEW c \in Codes
  PROVE  /\ AddNatives(nats, c) \in Seq(Row)
         /\ Len(AddNatives(nats, c)) = Len(nats) + Len(NewNatives(nats, c))
         /\ Mapped(AddNatives(nats, c)) = Mapped(nats) \cup Needs(c)
         /\ NewNatives(nats, c) = <<>> => AddNatives(nats, c) \in Seq(NativeInfo)
<1> DEFINE W == NewNatives(nats, c)
           G == Gain(nats, c)
           X == [k \in DOMAIN W |-> [nat |-> W[k], owners |-> 1, pos |-> Unmapped]]
           A == AddNatives(nats, c)
<1>1. W \in Seq(Natives) /\ Len(W) \in Nat /\ DOMAIN W = 1..Len(W)
  BY NewNativesIs, LenProperties
<1>2. X \in Seq(Row) /\ Len(X) = Len(W) /\ \A k \in 1..Len(W) : X[k].nat = W[k]
  <2>1. \A k \in 1..Len(W) : W[k] \in Natives
    BY <1>1, ElementOfSeq
  <2>2. X \in [1..Len(W) -> Row]
    BY <1>1, <2>1 DEF Row, Unmapped
  <2> QED BY <1>1, <2>2, SeqDef
<1>3. /\ G \in Seq(NativeInfo) /\ G \in Seq(Row) /\ Len(G) = Len(nats) /\ Len(nats) \in Nat
      /\ \A i \in 1..Len(nats) : G[i].nat = nats[i].nat
  BY OwnersOnly, NativeInfoIsRow, LenProperties
<1>4. A = G \o X
  BY DEF AddNatives
<1> HIDE DEF G, X
<1>5. /\ A \in Seq(Row) /\ Len(A) = Len(nats) + Len(W)
      /\ \A i \in 1..(Len(nats) + Len(W)) :
           A[i] = IF i <= Len(nats) THEN G[i] ELSE X[i - Len(nats)]
  <2> HIDE DEF W, A
  <2>1. /\ G \o X \in Seq(Row) /\ Len(G \o X) = Len(G) + Len(X)
        /\ \A i \in 1..(Len(G) + Len(X)) :
             (G \o X)[i] = IF i <= Len(G) THEN G[i] ELSE X[i - Len(G)]
    <3> G \in Seq(Row) /\ X \in Seq(Row)
      BY <1>2, <1>3
    <3> QED BY ConcatProperties
  <2> QED BY <1>2, <1>3, <1>4, <2>1
<1>6. DOMAIN A = 1..(Len(nats) + Len(W)) /\ DOMAIN nats = 1..Len(nats)
  BY <1>5, LenProperties
<1>7. \A x : x \in Mapped(A) <=> x \in Mapped(nats) \/ \E k \in DOMAIN W : W[k] = x
  <2> TAKE x
  <2>1. ASSUME x \in Mapped(A) PROVE x \in Mapped(nats) \/ \E k \in DOMAIN W : W[k] = x
    <3>1. PICK i \in 1..(Len(nats) + Len(W)) : A[i].nat = x
      BY <1>6, <2>1 DEF Mapped
    <3>2. CASE i <= Len(nats)
      <4>1. i \in 1..Len(nats)
        BY <1>1, <3>2
      <4>2. nats[i].nat = x
        BY <1>3, <1>5, <3>1, <3>2, <4>1
      <4> QED BY <1>6, <4>1, <4>2 DEF Mapped
    <3>3. CASE ~(i <= Len(nats))
      <4>1. i - Len(nats) \in 1..Len(W)
        BY <1>1, <1>3, <3>3
      <4> QED BY <1>1, <1>2, <1>5, <3>1, <3>3, <4>1
    <3> QED BY <3>2, <3>3
  <2>2. ASSUME x \in Mapped(nats) PROVE x \in Mapped(A)
    <3>1. PICK i \in 1..Len(nats) : nats[i].nat = x
      BY <1>6, <2>2 DEF Mapped
    <3>2. i \in DOMAIN A /\ A[i].nat = x
      BY <1>1, <1>3, <1>5, <1>6, <3>1
    <3> QED BY <3>2 DEF Mapped
  <2>3. ASSUME NEW k \in DOMAIN W, W[k] = x PROVE x \in Mapped(A)
    <3>1. Len(nats) + k \in DOMAIN A /\ ~(Len(nats) + k <= Len(nats)) /\ Len(nats) + k - Len(nats) = k
      BY <1>1, <1>3, <1>6
    <3>2. A[Len(nats) + k].nat = x
      BY <1>1, <1>2, <1>5, <1>6, <2>3, <3>1
    <3> QED BY <3>1, <3>2 DEF Mapped
  <2> QED BY <2>1, <2>2, <2>3
<1>8. Mapped(A) = Mapped(nats) \cup Needs(c)
  BY <1>7, NewNativesIs
<1>9. W = <<>> => A \in Seq(NativeInfo)
  <2>1. W = <<>> => X = <<>>
    BY <1>1, <1>2, EmptySeq
  <2> QED BY <1>3, <1>4, <2>1, ConcatEmptySeq
<1> QED BY <1>5, <1>8, <1>9

\* The places still owned are places of the array, finitely many.
LEMMA InUseIs ==
  ASSUME NEW nats \in Seq(NativeInfo)
  PROVE  /\ InUse(nats) \subseteq 1..Len(nats) /\ InUse(nats) \in SUBSET Int
         /\ IsFiniteSet(InUse(nats))
         /\ Cardinality(InUse(nats)) \in 0..Len(nats)
<1>1. Len(nats) \in Nat /\ DOMAIN nats = 1..Len(nats)
  BY LenProperties
<1>2. InUse(nats) \in SUBSET (1..Len(nats))
  BY <1>1 DEF InUse
<1>3. IsFiniteSet(1..Len(nats)) /\ Cardinality(1..Len(nats)) = Len(nats)
  BY <1>1, FS_Interval
<1>4. /\ IsFiniteSet(InUse(nats))
      /\ Cardinality(InUse(nats)) <= Cardinality(1..Len(nats))
      /\ Cardinality(InUse(nats)) \in Nat
  BY <1>2, <1>3, FS_Subset, FS_CardinalityType
<1>5. InUse(nats) \in SUBSET Int
  BY <1>2
<1> QED BY <1>1, <1>2, <1>3, <1>4, <1>5

\* What add_native_fail_clean leaves is not longer than what it found.
LEMMA FailCleanIs ==
  ASSUME NEW nats \in Seq(NativeInfo), NEW c \in Codes
  PROVE  FailClean(nats, c) \in Seq(NativeInfo) /\ Len(FailClean(nats, c)) <= Len(nats)
<1> DEFINE L == Lose(nats, c)
           m == Cardinality(InUse(L))
<1>1. L \in Seq(NativeInfo) /\ Len(L) = Len(nats) /\ Len(nats) \in Nat
  BY OwnersOnly, LenProperties
<1>2. m \in 0..Len(nats)
  BY <1>1, InUseIs
<1>3. \A i \in 1..m : L[i] \in NativeInfo
  BY <1>1, <1>2, ElementOfSeq
<1>4. SubSeq(L, 1, m) \in Seq(NativeInfo) /\ Len(SubSeq(L, 1, m)) = IF 1 <= m THEN m - 1 + 1 ELSE 0
  <2> HIDE DEF L, m
  <2>1. m \in Int
    BY <1>1, <1>2
  <2> QED BY <1>3, <2>1, SubSeqProperties
<1> QED BY <1>1, <1>2, <1>4 DEF FailClean

\* Every hole below the number of native events in use has one to fill it.
LEMMA FillerIs ==
  ASSUME NEW nats \in Seq(NativeInfo), NEW i \in 1..Cardinality(InUse(nats))
  PROVE  Filler(nats, i) \in InUse(nats)
<1> DEFINE U == InUse(nats)
           H == (1..(i - 1)) \ U
<1>1. Cardinality(U) \in Nat /\ U \in SUBSET Int /\ IsFiniteSet(U) /\ i \in Int
  BY InUseIs, LenProperties
<1>2. IsFiniteSet(1..(i - 1)) /\ Cardinality(1..(i - 1)) = i - 1
  <2>1. i - 1 \in Int /\ 1 \in Int /\ i >= 1
    BY <1>1
  <2> DEFINE b == i - 1
  <2>2. IsFiniteSet(1..b) /\ Cardinality(1..b) = IF 1 > b THEN 0 ELSE b - 1 + 1
    <3> HIDE DEF b
    <3>1. b \in Int
      BY <2>1 DEF b
    <3> QED BY <3>1, FS_Interval
  <2> QED BY <1>1, <2>1, <2>2
<1>3. Cardinality(H) \in Nat /\ Cardinality(H) <= i - 1
  <2>1. H \in SUBSET (1..(i - 1))
    OBVIOUS
  <2> QED BY <1>2, <2>1, FS_Subset, FS_CardinalityType
<1>4. Cardinality(U) - Cardinality(H) \in 1..Cardinality(U)
  BY <1>1, <1>3
<1>5. Nth(U, Cardinality(U) - Cardinality(H)) \in U
  BY <1>1, <1>4, NthIs
<1> QED BY <1>5 DEF Filler, HolesBelow

\* remove_native_events keeps as many rows as are still owned.
LEMMA RemoveNativesIs ==
  ASSUME NEW nats \in Seq(NativeInfo), NEW c \in Codes
  PROVE  RemoveNatives(nats, c) \in Seq(NativeInfo) /\ Len(RemoveNatives(nats, c)) <= Len(nats)
<1> DEFINE L == Lose(nats, c)
           m == Cardinality(InUse(L))
           from(i) == IF i \in InUse(L) THEN i ELSE Filler(L, i)
<1>1. L \in Seq(NativeInfo) /\ Len(L) = Len(nats) /\ Len(nats) \in Nat
  BY OwnersOnly, LenProperties
<1>2. m \in 0..Len(nats) /\ InUse(L) \subseteq 1..Len(nats)
  BY <1>1, InUseIs
<1>3. ASSUME NEW i \in 1..m PROVE L[from(i)] \in NativeInfo
  <2>1. from(i) \in 1..Len(L)
    BY <1>1, <1>2, FillerIs
  <2> QED BY <1>1, <2>1, ElementOfSeq
<1>4. RemoveNatives(nats, c) = [i \in 1..m |-> L[from(i)]]
  BY DEF RemoveNatives, Compact
<1> HIDE DEF L, m, from
<1>5. RemoveNatives(nats, c) \in [1..m -> NativeInfo]
  BY <1>3, <1>4
<1> QED BY <1>1, <1>2, <1>5, SeqDef

-----------------------------------------------------------------------------
(* EventInfoArray.                                                         *)

\* An event that is looked up has its positions, if all its native events are
\* mapped or it had them before; it stays the same event.
LEMMA LocatedIs ==
  ASSUME NEW nats \in Seq(NativeInfo), NEW ev,
         \/ ev \in EventInfo
         \/ \E c \in Codes : ev = Blank(c) /\ Needs(c) \subseteq Mapped(nats)
  PROVE  Located(ev, nats) \in EventInfo /\ Located(ev, nats).code = ev.code
<1> DEFINE N == NativesOf(ev.code)
<1>1. /\ ev.code \in Codes /\ DOMAIN ev = {"code", "pos"}
      /\ ev = [code |-> ev.code, pos |-> ev.pos]
      /\ \/ Len(ev.pos) = Len(N) /\ ev.pos \in Seq(Positions)
         \/ Needs(ev.code) \subseteq Mapped(nats)
  BY DEF EventInfo, Blank
<1>2. N \in Seq(Natives) /\ Len(N) \in Nat /\ DOMAIN N = 1..Len(N)
  BY <1>1, NativesOfIs
<1>3. ASSUME NEW k \in DOMAIN N
      PROVE  PosIn(nats, N[k], ev.pos[k]) \in Positions
  <2>1. CASE N[k] \in Mapped(nats)
    <3>1. \E i \in DOMAIN nats : nats[i].nat = N[k]
      BY <2>1 DEF Mapped
    <3>2. \A i \in DOMAIN nats : nats[i].pos \in Positions
      <4>1. \A i \in DOMAIN nats : nats[i] \in NativeInfo
        BY LenProperties, ElementOfSeq
      <4> QED BY <4>1 DEF NativeInfo
    <3> QED BY <2>1, <3>1, <3>2 DEF PosIn
  <2>2. CASE N[k] \notin Mapped(nats)
    <3>1. Len(ev.pos) = Len(N) /\ ev.pos \in Seq(Positions)
      BY <1>1, <2>2 DEF Needs
    <3>2. ev.pos[k] \in Positions
      BY <1>2, <3>1, ElementOfSeq
    <3> QED BY <2>2, <3>2 DEF PosIn
  <2> QED BY <2>1, <2>2
<1> DEFINE Q == [k \in DOMAIN N |-> PosIn(nats, N[k], ev.pos[k])]
<1>4. Q \in Seq(Positions) /\ Len(Q) = Len(N)
  <2>1. Q \in [1..Len(N) -> Positions]
    BY <1>2, <1>3
  <2> QED BY <1>2, <2>1, SeqDef
<1>5. Located(ev, nats) = [code |-> ev.code, pos |-> Q]
  BY <1>1 DEF Located
<1> QED BY <1>1, <1>4, <1>5 DEF EventInfo

\* remap_event_position gives every listed event positions inside the array,
\* when each finds its native events mapped.
LEMMA RemapIs ==
  ASSUME NEW nats \in Seq(NativeInfo), NEW n \in Nat, NEW evs, DOMAIN evs = 1..n,
         \A i \in 1..n : \/ evs[i] \in EventInfo
                         \/ \E c \in Codes : evs[i] = Blank(c) /\ Needs(c) \subseteq Mapped(nats)
  PROVE  Remap(evs, nats) \in Seq(EventInfo) /\ Len(Remap(evs, nats)) = n
<1>1. \A i \in 1..n : Located(evs[i], nats) \in EventInfo
  BY LocatedIs
<1>2. Remap(evs, nats) = [i \in 1..n |-> Located(evs[i], nats)]
  BY DEF Remap
<1>3. Remap(evs, nats) \in [1..n -> EventInfo]
  BY <1>1, <1>2
<1> QED BY <1>3, SeqDef

\* A new event is placed with the others once its native events are mapped.
LEMMA AppendedIs ==
  ASSUME NEW nats \in Seq(NativeInfo), NEW evs \in Seq(EventInfo), NEW c \in Codes,
         Needs(c) \subseteq Mapped(nats)
  PROVE  /\ Remap(Append(evs, Blank(c)), nats) \in Seq(EventInfo)
         /\ Len(Remap(Append(evs, Blank(c)), nats)) = Len(evs) + 1
<1> DEFINE A == Append(evs, Blank(c))
           S == EventInfo \cup {Blank(c)}
<1>1. evs \in Seq(S) /\ Blank(c) \in S /\ Len(evs) \in Nat
  BY SeqMonotonic, LenProperties
<1>2. A \in Seq(S) /\ Len(A) = Len(evs) + 1
  <2> HIDE DEF S
  <2> QED BY <1>1, AppendProperties
<1>3. DOMAIN A = 1..(Len(evs) + 1) /\ \A i \in 1..(Len(evs) + 1) : A[i] \in S
  <2> HIDE DEF S, A
  <2> QED BY <1>2, LenProperties, ElementOfSeq
<1>4. \A i \in 1..(Len(evs) + 1) :
        \/ A[i] \in EventInfo
        \/ \E d \in Codes : A[i] = Blank(d) /\ Needs(d) \subseteq Mapped(nats)
  BY <1>3
<1> HIDE DEF A
<1>5. Len(evs) + 1 \in Nat
  BY <1>1
<1> QED BY <1>3, <1>4, <1>5, RemapIs DEF A

\* A listed event is found at an index of the list, and can be taken out there.
LEMMA WithoutIs ==
  ASSUME NEW evs \in Seq(EventInfo), NEW c \in Listed(evs)
  PROVE  /\ IndexOf(evs, c) \in 1..Len(evs)
         /\ Without(evs, IndexOf(evs, c)) \in Seq(EventInfo)
         /\ Len(Without(evs, IndexOf(evs, c))) = Len(evs) - 1
<1> DEFINE i == IndexOf(evs, c)
<1>1. Len(evs) \in Nat /\ DOMAIN evs = 1..Len(evs)
  BY LenProperties
<1>2. i \in 1..Len(evs)
  <2>1. \E k \in DOMAIN evs : evs[k].code = c
    BY DEF Listed
  <2> QED BY <1>1, <2>1 DEF IndexOf
<1> HIDE DEF i
<1>3. \A k \in 1..(Len(evs) - 1) : (IF k < i THEN evs[k] ELSE evs[k + 1]) \in EventInfo
  <2> TAKE k \in 1..(Len(evs) - 1)
  <2>1. k \in 1..Len(evs) /\ k + 1 \in 1..Len(evs)
    BY <1>1
  <2> QED BY <2>1, ElementOfSeq
<1>4. Without(evs, i) \in [1..(Len(evs) - 1) -> EventInfo]
  BY <1>3 DEF Without
<1>5. Len(evs) - 1 \in Nat
  BY <1>1, <1>2
<1>6. Without(evs, i) \in Seq(EventInfo) /\ Len(Without(evs, i)) = Len(evs) - 1
  BY <1>4, <1>5, SeqDef
<1> QED BY <1>2, <1>6 DEF i
=============================================================================
