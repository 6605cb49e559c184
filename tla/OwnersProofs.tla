---------------------------- MODULE OwnersProofs ----------------------------
(***************************************************************************)
(* The native events an EventSet keeps programmed are those its events     *)
(* need, with as many owners as there are events that need them, and a call*)
(* that fails takes nothing away and leaves nothing behind: through every  *)
(* order of additions, removals, clean-ups and starts, unless the kernel   *)
(* refuses a group that fits just when an event is removed.                *)
(*                                                                         *)
(* OwnersMatch is not inductive by itself. A removal must find the smaller *)
(* group no larger than one that was open before, an unbound EventSet must *)
(* have nothing to lose when it is bound, and a start must find a native   *)
(* event to open: that is Tidy.                                            *)
(***************************************************************************)
EXTENDS EventSetsProofs

-----------------------------------------------------------------------------
(* Counting the users of a native event.                                   *)

UserSet(evs, n) == {i \in DOMAIN evs : n \in Needs(evs[i].code)}

\* Only finitely many events can need one, and none does if and only if the
\* count is zero.
LEMMA UsersIs ==
  ASSUME NEW evs, NEW m \in Nat, DOMAIN evs = 1..m, NEW n
  PROVE  /\ IsFiniteSet(UserSet(evs, n)) /\ Users(evs, n) = Cardinality(UserSet(evs, n))
         /\ Users(evs, n) \in Nat
         /\ Users(evs, n) > 0 <=> \E i \in 1..m : n \in Needs(evs[i].code)
<1>1. IsFiniteSet(1..m)
  BY FS_Interval
<1>2. UserSet(evs, n) \in SUBSET (1..m)
  BY DEF UserSet
<1>3. IsFiniteSet(UserSet(evs, n)) /\ Cardinality(UserSet(evs, n)) \in Nat
  BY <1>1, <1>2, FS_Subset, FS_CardinalityType
<1>4. Users(evs, n) = Cardinality(UserSet(evs, n))
  BY DEF Users, UserSet
<1>5. Cardinality(UserSet(evs, n)) = 0 <=> UserSet(evs, n) = {}
  BY <1>3, FS_EmptySet
<1>6. UserSet(evs, n) = {} <=> ~\E i \in 1..m : n \in Needs(evs[i].code)
  BY DEF UserSet
<1> QED BY <1>3, <1>4, <1>5, <1>6

\* Two lists of the same events, wherever they look for their counts.
SameCodes(evs, old) == Len(evs) = Len(old) /\ \A i \in 1..Len(old) : evs[i].code = old[i].code

\* The positions have no part in the count.
LEMMA UsersSame ==
  ASSUME NEW old \in Seq(EventInfo), NEW evs \in Seq(EventInfo), SameCodes(evs, old), NEW n
  PROVE  Users(evs, n) = Users(old, n)
<1>1. DOMAIN evs = 1..Len(old) /\ DOMAIN old = 1..Len(old)
  BY LenProperties DEF SameCodes
<1>2. UserSet(evs, n) = UserSet(old, n)
  BY <1>1 DEF UserSet, SameCodes
<1> QED BY <1>2 DEF Users, UserSet

\* A list with one event more, c, at its end.
Joins(evs, old, c) ==
  /\ Len(evs) = Len(old) + 1 /\ evs[Len(old) + 1].code = c
  /\ \A i \in 1..Len(old) : evs[i].code = old[i].code

One(b) == IF b THEN 1 ELSE 0

\* The new event is one more user of the native events it needs.
LEMMA UsersGrow ==
  ASSUME NEW old \in Seq(EventInfo), NEW evs \in Seq(EventInfo), NEW c, Joins(evs, old, c), NEW n
  PROVE  Users(evs, n) = Users(old, n) + One(n \in Needs(c))
<1> DEFINE m == Len(old)
<1>1. m \in Nat /\ DOMAIN old = 1..m /\ DOMAIN evs = 1..(m + 1)
  BY LenProperties DEF Joins
<1>2. IsFiniteSet(UserSet(old, n)) /\ Cardinality(UserSet(old, n)) \in Nat /\ m + 1 \notin UserSet(old, n)
  <2>1. m + 1 \notin 1..m
    BY <1>1
  <2>2. UserSet(old, n) \subseteq 1..m
    BY <1>1 DEF UserSet
  <2>3. IsFiniteSet(UserSet(old, n)) /\ Cardinality(UserSet(old, n)) \in Nat
    BY <1>1, UsersIs
  <2> QED BY <2>1, <2>2, <2>3
<1>3. UserSet(evs, n) = IF n \in Needs(c) THEN UserSet(old, n) \cup {m + 1} ELSE UserSet(old, n)
  BY <1>1 DEF UserSet, Joins
<1>4. Cardinality(UserSet(old, n) \cup {m + 1}) = Cardinality(UserSet(old, n)) + 1
  BY <1>2, FS_AddElement
<1> HIDE DEF m
<1>5. Cardinality(UserSet(evs, n)) = Cardinality(UserSet(old, n)) + One(n \in Needs(c))
  <2>1. CASE n \in Needs(c)
    BY <1>3, <1>4, <2>1 DEF One
  <2>2. CASE n \notin Needs(c)
    BY <1>2, <1>3, <2>2 DEF One
  <2> QED BY <2>1, <2>2
<1> QED BY <1>5 DEF Users, UserSet

\* Taking the event at i out is one user less of the native events it needs.
LEMMA UsersShrink ==
  ASSUME NEW old \in Seq(EventInfo), NEW i \in 1..Len(old), NEW n
  PROVE  Users(Without(old, i), n) = Users(old, n) - One(n \in Needs(old[i].code))
<1> DEFINE m == Len(old)
           W == Without(old, i)
           T == UserSet(old, n) \ {i}
           place == [k \in UserSet(W, n) |-> IF k < i THEN k ELSE k + 1]
<1>1. m \in Nat /\ DOMAIN old = 1..m /\ i \in Int /\ 1 <= i /\ i <= m
  BY LenProperties
<1>2. DOMAIN W = 1..(m - 1) /\ m - 1 \in Nat
      /\ \A k \in 1..(m - 1) : W[k] = IF k < i THEN old[k] ELSE old[k + 1]
  BY <1>1 DEF Without
<1>3. IsFiniteSet(UserSet(old, n)) /\ Cardinality(UserSet(old, n)) \in Nat
  BY <1>1, UsersIs
<1>4. IsFiniteSet(UserSet(W, n)) /\ UserSet(W, n) \subseteq 1..(m - 1)
  <2> HIDE DEF W, m
  <2> QED BY <1>2, UsersIs DEF UserSet
<1> HIDE DEF W, m
<1>5. place \in [UserSet(W, n) -> T]
  <2> SUFFICES ASSUME NEW k \in UserSet(W, n)
               PROVE  (IF k < i THEN k ELSE k + 1) \in T
    OBVIOUS
  <2>1. k \in 1..(m - 1) /\ n \in Needs(W[k].code)
    BY <1>2 DEF UserSet
  <2> QED BY <1>1, <1>2, <2>1 DEF UserSet
<1>6. ASSUME NEW k \in UserSet(W, n), NEW l \in UserSet(W, n), place[k] = place[l]
      PROVE  k = l
  BY <1>1, <1>4, <1>6
<1>7. ASSUME NEW t \in T
      PROVE  \E k \in UserSet(W, n) : place[k] = t
  <2>1. t \in 1..m /\ t # i /\ n \in Needs(old[t].code)
    BY <1>1 DEF UserSet
  <2> DEFINE k == IF t < i THEN t ELSE t - 1
  <2>2. k \in 1..(m - 1) /\ (IF k < i THEN k ELSE k + 1) = t
    BY <1>1, <2>1
  <2>3. W[k] = old[t]
    BY <1>2, <2>2
  <2>4. k \in UserSet(W, n)
    BY <1>2, <2>1, <2>2, <2>3 DEF UserSet
  <2> QED BY <2>2, <2>4
<1>8. place \in Bijection(UserSet(W, n), T)
  BY <1>5, <1>6, <1>7 DEF Bijection, Injection, Surjection, IsInjective
<1>9. Cardinality(T) = Cardinality(UserSet(W, n))
  BY <1>4, <1>8, FS_Bijection DEF ExistsBijection
<1>10. Cardinality(T) = Cardinality(UserSet(old, n)) - One(i \in UserSet(old, n))
  <2>1. Cardinality(T) = IF i \in UserSet(old, n) THEN Cardinality(UserSet(old, n)) - 1
                         ELSE Cardinality(UserSet(old, n))
    BY <1>3, FS_RemoveElement
  <2>2. CASE i \in UserSet(old, n)
    BY <2>1, <2>2 DEF One
  <2>3. CASE i \notin UserSet(old, n)
    BY <1>3, <2>1, <2>3 DEF One
  <2> QED BY <2>2, <2>3
<1>11. i \in UserSet(old, n) <=> n \in Needs(old[i].code)
  BY <1>1 DEF UserSet
<1>12. Users(W, n) = Cardinality(UserSet(W, n)) /\ Users(old, n) = Cardinality(UserSet(old, n))
  BY DEF Users, UserSet
<1> QED BY <1>9, <1>10, <1>11, <1>12 DEF W
-----------------------------------------------------------------------------
(* The rows of NativeInfoArray, one by one.                                *)

\* Gain and Lose count an owner up and down where the event needs the row.
LEMMA OwnersMove ==
  ASSUME NEW R \in {Row, NativeInfo}, NEW nats \in Seq(R), NEW c \in Codes, NEW i \in 1..Len(nats)
  PROVE  /\ nats[i].owners \in Int
         /\ Gain(nats, c)[i].owners = nats[i].owners + One(nats[i].nat \in Needs(c))
         /\ Lose(nats, c)[i].owners = nats[i].owners - One(nats[i].nat \in Needs(c))
<1>1. DOMAIN nats = 1..Len(nats) /\ nats[i] \in R
  BY LenProperties, ElementOfSeq
<1>2. PICK P : R = [nat : Natives, owners : Int, pos : P]
  BY DEF Row, NativeInfo
<1>3. nats[i] \in [nat : Natives, owners : Int, pos : P]
  BY <1>1, <1>2
<1>4. CASE nats[i].nat \in Needs(c)
  <2>1. /\ Gain(nats, c)[i] = [nats[i] EXCEPT !.owners = @ + 1]
        /\ Lose(nats, c)[i] = [nats[i] EXCEPT !.owners = @ - 1]
    BY <1>1, <1>4 DEF Gain, Lose
  <2>2. One(nats[i].nat \in Needs(c)) = 1
    BY <1>4 DEF One
  <2> QED BY <1>3, <2>1, <2>2
<1>5. CASE nats[i].nat \notin Needs(c)
  <2>1. Gain(nats, c)[i] = nats[i] /\ Lose(nats, c)[i] = nats[i]
    BY <1>1, <1>5 DEF Gain, Lose
  <2>2. One(nats[i].nat \in Needs(c)) = 0
    BY <1>5 DEF One
  <2> QED BY <1>3, <2>1, <2>2
<1> QED BY <1>4, <1>5

\* The native events that are new to the array are all different.
LEMMA NewOnesDiffer ==
  ASSUME NEW nats, NEW c \in Codes,
         NEW j \in DOMAIN NewNatives(nats, c), NEW k \in DOMAIN NewNatives(nats, c),
         NewNatives(nats, c)[j] = NewNatives(nats, c)[k]
  PROVE  j = k
<1> DEFINE N == NativesOf(c)
           F == Fresh(nats, c)
<1>1. \A a, b \in DOMAIN N : N[a] = N[b] => a = b
  <2>1. CASE c \in Natives
    BY <2>1 DEF NativesOf
  <2>2. CASE c \in Presets /\ c \notin Natives
    <3>1. N = PresetDef[c] /\ \A a, b \in DOMAIN PresetDef[c] :
                                 PresetDef[c][a] = PresetDef[c][b] => a = b
      BY <2>2, NativeEventsAssumption DEF NativesOf
    <3> HIDE DEF N
    <3> QED BY <3>1
  <2> QED BY <2>1, <2>2 DEF Codes
<1>2. DOMAIN N \in SUBSET Int /\ IsFiniteSet(DOMAIN N)
  BY NativesOfIs, FS_Interval
<1>3. F \in SUBSET (DOMAIN N)
  BY DEF Fresh
<1>4. F \in SUBSET Int /\ IsFiniteSet(F)
  BY <1>2, <1>3, FS_Subset
<1>5. j \in 1..Cardinality(F) /\ k \in 1..Cardinality(F) /\ N[Nth(F, j)] = N[Nth(F, k)]
  BY DEF NewNatives
<1>6. Nth(F, j) \in F /\ Nth(F, k) \in F /\ Rank(F, Nth(F, j)) = j /\ Rank(F, Nth(F, k)) = k
  BY <1>4, <1>5, NthIs
<1> HIDE DEF N, F
<1>7. Nth(F, j) = Nth(F, k)
  BY <1>1, <1>3, <1>5, <1>6
<1> QED BY <1>6, <1>7

\* After the rows that were there, counted up, come the new ones with one owner.
LEMMA AddedRows ==
  ASSUME NEW nats \in Seq(NativeInfo), NEW c \in Codes
  PROVE  /\ \A i \in 1..Len(nats) :
              /\ AddNatives(nats, c)[i].nat = nats[i].nat
              /\ AddNatives(nats, c)[i].pos = nats[i].pos
              /\ AddNatives(nats, c)[i].owners = nats[i].owners + One(nats[i].nat \in Needs(c))
         /\ \A k \in 1..Len(NewNatives(nats, c)) :
              /\ AddNatives(nats, c)[Len(nats) + k].nat = NewNatives(nats, c)[k]
              /\ AddNatives(nats, c)[Len(nats) + k].owners = 1
<1> DEFINE W == NewNatives(nats, c)
           G == Gain(nats, c)
           X == [k \in DOMAIN W |-> [nat |-> W[k], owners |-> 1, pos |-> Unmapped]]
<1>1. W \in Seq(Natives) /\ Len(W) \in Nat /\ DOMAIN W = 1..Len(W)
  BY NewNativesIs, LenProperties
<1>2. X \in Seq(Row) /\ Len(X) = Len(W)
  <2>1. \A k \in 1..Len(W) : W[k] \in Natives
    BY <1>1, ElementOfSeq
  <2>2. X \in [1..Len(W) -> Row]
    BY <1>1, <2>1 DEF Row, Unmapped
  <2> QED BY <1>1, <2>2, SeqDef
<1>3. \A k \in 1..Len(W) : X[k].nat = W[k] /\ X[k].owners = 1
  BY <1>1
<1>4. G \in Seq(Row) /\ Len(G) = Len(nats) /\ Len(nats) \in Nat
  <2>1. G \in Seq(NativeInfo) /\ Len(G) = Len(nats)
    BY OwnersOnly
  <2> QED BY <2>1, NativeInfoIsRow, LenProperties
<1>5. \A i \in 1..Len(nats) : /\ G[i].nat = nats[i].nat /\ G[i].pos = nats[i].pos
                              /\ G[i].owners = nats[i].owners + One(nats[i].nat \in Needs(c))
  BY OwnersOnly, OwnersMove
<1>6. AddNatives(nats, c) = G \o X
  BY DEF AddNatives
<1> HIDE DEF G, X, W
<1>7. \A i \in 1..(Len(G) + Len(X)) : (G \o X)[i] = IF i <= Len(G) THEN G[i] ELSE X[i - Len(G)]
  BY <1>2, <1>4, ConcatProperties
<1>8. \A i \in 1..Len(nats) : AddNatives(nats, c)[i] = G[i]
  BY <1>1, <1>2, <1>4, <1>6, <1>7
<1>9. ASSUME NEW k \in 1..Len(W) PROVE AddNatives(nats, c)[Len(nats) + k] = X[k]
  <2>1. /\ Len(nats) + k \in 1..(Len(G) + Len(X)) /\ ~(Len(nats) + k <= Len(G))
        /\ Len(nats) + k - Len(G) = k
    BY <1>1, <1>2, <1>4
  <2> QED BY <1>6, <1>7, <2>1
<1> QED BY <1>3, <1>5, <1>8, <1>9 DEF W
-----------------------------------------------------------------------------
(* The owner counts and the event list.                                    *)

Owned(evs, nats) ==
  /\ \A i \in 1..Len(nats) : nats[i].owners = Users(evs, nats[i].nat) /\ nats[i].owners > 0
  /\ \A i \in 1..Len(evs) : Needs(evs[i].code) \subseteq Mapped(nats)
  /\ \A i, j \in 1..Len(nats) : nats[i].nat = nats[j].nat => i = j

\* Arrays that name the same native events with the same owners, wherever these
\* count.
Alike(nats, old) ==
  /\ Len(nats) = Len(old)
  /\ \A i \in 1..Len(old) : nats[i].nat = old[i].nat /\ nats[i].owners = old[i].owners

\* Such arrays map the same native events.
LEMMA AlikeMapped ==
  ASSUME NEW old \in Seq(Row), NEW nats \in Seq(Row), Alike(nats, old)
  PROVE  Mapped(nats) = Mapped(old)
<1>1. DOMAIN nats = 1..Len(old) /\ DOMAIN old = 1..Len(old)
  BY LenProperties DEF Alike
<1> QED BY <1>1 DEF Mapped, Alike

\* Where they count makes no difference to who owns them.
LEMMA OwnedSame ==
  ASSUME NEW evs \in Seq(EventInfo), NEW old \in Seq(EventInfo), SameCodes(evs, old),
         NEW nats \in Seq(Row), NEW was \in Seq(Row), Alike(nats, was), Owned(old, was)
  PROVE  Owned(evs, nats)
<1>1. Mapped(nats) = Mapped(was)
  BY AlikeMapped
<1>2. \A n : Users(evs, n) = Users(old, n)
  BY UsersSame
<1>3. \A i \in 1..Len(nats) : nats[i].owners = Users(evs, nats[i].nat) /\ nats[i].owners > 0
  BY <1>2 DEF Alike, Owned
<1>4. \A i \in 1..Len(evs) : Needs(evs[i].code) \subseteq Mapped(nats)
  BY <1>1 DEF Owned, SameCodes
<1>5. \A i, j \in 1..Len(nats) : nats[i].nat = nats[j].nat => i = j
  BY DEF Owned, Alike
<1> QED BY <1>3, <1>4, <1>5 DEF Owned

\* Adding an event keeps the owner counts those of the list.
LEMMA AddOwned ==
  ASSUME NEW old \in Seq(EventInfo), NEW was \in Seq(NativeInfo), Owned(old, was), NEW c \in Codes,
         NEW evs \in Seq(EventInfo), Joins(evs, old, c),
         NEW nats \in Seq(Row), Alike(nats, AddNatives(was, c))
  PROVE  Owned(evs, nats)
<1> DEFINE A == AddNatives(was, c)
           W == NewNatives(was, c)
           m == Len(was)
<1>1. m \in Nat /\ DOMAIN was = 1..m /\ W \in Seq(Natives) /\ Len(W) \in Nat /\ DOMAIN W = 1..Len(W)
  BY NewNativesIs, LenProperties
<1>2. /\ A \in Seq(Row) /\ Len(A) = m + Len(W) /\ Mapped(A) = Mapped(was) \cup Needs(c)
      /\ Len(nats) = m + Len(W) /\ Mapped(nats) = Mapped(A)
  BY AddNativesIs, AlikeMapped DEF Alike
<1>3. \A i \in 1..m : /\ nats[i].nat = was[i].nat
                      /\ nats[i].owners = was[i].owners + One(was[i].nat \in Needs(c))
  <2>1. \A i \in 1..m : i \in 1..Len(A)
    BY <1>1, <1>2
  <2> QED BY <2>1, AddedRows DEF Alike
<1>4. \A k \in 1..Len(W) : nats[m + k].nat = W[k] /\ nats[m + k].owners = 1
  <2>1. \A k \in 1..Len(W) : m + k \in 1..Len(A)
    BY <1>1, <1>2
  <2>2. \A k \in 1..Len(W) : A[m + k].nat = W[k] /\ A[m + k].owners = 1
    BY AddedRows
  <2>3. \A i \in 1..Len(A) : nats[i].nat = A[i].nat /\ nats[i].owners = A[i].owners
    BY DEF Alike
  <2> HIDE DEF A, W, m
  <2> QED BY <2>1, <2>2, <2>3
<1>5. \A i \in 1..Len(nats) : i \in 1..m \/ \E k \in 1..Len(W) : i = m + k
  <2> SUFFICES ASSUME NEW i \in 1..Len(nats), i \notin 1..m
               PROVE  \E k \in 1..Len(W) : i = m + k
    OBVIOUS
  <2>1. i - m \in 1..Len(W) /\ i = m + (i - m)
    BY <1>1, <1>2
  <2> QED BY <2>1
<1>6. \A k \in 1..Len(W) : W[k] \in Needs(c) \ Mapped(was)
  BY <1>1, NewNativesIs
<1>7. \A n : Users(evs, n) = Users(old, n) + One(n \in Needs(c))
  BY UsersGrow
<1>8. /\ Len(old) \in Nat /\ DOMAIN old = 1..Len(old)
      /\ \A n : Users(old, n) \in Nat
      /\ \A n : n \notin Mapped(was) => Users(old, n) = 0
  <2>1. Len(old) \in Nat /\ DOMAIN old = 1..Len(old)
    BY LenProperties
  <2>2. \A n : /\ Users(old, n) \in Nat
               /\ Users(old, n) > 0 <=> \E i \in 1..Len(old) : n \in Needs(old[i].code)
    BY <2>1, UsersIs
  <2>3. \A n : n \notin Mapped(was) => ~(Users(old, n) > 0)
    BY <2>2 DEF Owned
  <2> QED BY <2>1, <2>2, <2>3
<1> HIDE DEF A, W, m
<1>9. ASSUME NEW i \in 1..Len(nats)
      PROVE  nats[i].owners = Users(evs, nats[i].nat) /\ nats[i].owners > 0
  <2>1. CASE i \in 1..m
    <3>1. was[i].owners = Users(old, was[i].nat) /\ was[i].owners > 0
      BY <2>1 DEF Owned, m
    <3>2. One(was[i].nat \in Needs(c)) \in {0, 1}
      BY DEF One
    <3> QED BY <1>3, <1>7, <1>8, <2>1, <3>1, <3>2
  <2>2. ASSUME NEW k \in 1..Len(W), i = m + k
        PROVE  nats[i].owners = Users(evs, nats[i].nat) /\ nats[i].owners > 0
    <3>1. nats[i].nat = W[k] /\ nats[i].owners = 1
      BY <1>4, <2>2
    <3>2. Users(old, W[k]) = 0 /\ One(W[k] \in Needs(c)) = 1
      BY <1>6, <1>8 DEF One
    <3> QED BY <1>7, <3>1, <3>2
  <2> QED BY <1>5, <2>1, <2>2
<1>10. ASSUME NEW i \in 1..Len(evs)
       PROVE  Needs(evs[i].code) \subseteq Mapped(nats)
  <2>1. CASE i = Len(old) + 1
    BY <1>2, <2>1 DEF Joins
  <2>2. CASE i # Len(old) + 1
    <3>1. i \in 1..Len(old)
      BY <1>8, <2>2 DEF Joins
    <3> QED BY <1>2, <3>1 DEF Joins, Owned
  <2> QED BY <2>1, <2>2
<1>11. ASSUME NEW i \in 1..Len(nats), NEW j \in 1..Len(nats), nats[i].nat = nats[j].nat
       PROVE  i = j
  <2>1. CASE i \in 1..m /\ j \in 1..m
    BY <1>3, <1>11, <2>1 DEF Owned, m
  <2>2. \A a \in 1..m, k \in 1..Len(W) : nats[a].nat # nats[m + k].nat
    <3>1. \A a \in 1..m : was[a].nat \in Mapped(was)
      BY <1>1 DEF Mapped
    <3> QED BY <1>3, <1>4, <1>6, <3>1
  <2>3. ASSUME NEW k \in 1..Len(W), NEW l \in 1..Len(W), i = m + k, j = m + l
        PROVE  i = j
    <3>1. W[k] = W[l]
      BY <1>4, <1>11, <2>3
    <3>2. k = l
      BY <1>1, <3>1, NewOnesDiffer DEF W
    <3> QED BY <2>3, <3>2
  <2> QED BY <1>5, <1>11, <2>1, <2>2, <2>3
<1> QED BY <1>9, <1>10, <1>11 DEF Owned

\* add_native_fail_clean takes back what add_native_events did.
LEMMA FailCleanRestores ==
  ASSUME NEW evs \in Seq(EventInfo), NEW was \in Seq(NativeInfo), Owned(evs, was), NEW c \in Codes,
         NEW nats \in Seq(NativeInfo), Alike(nats, AddNatives(was, c))
  PROVE  Alike(FailClean(nats, c), was)
<1> DEFINE A == AddNatives(was, c)
           W == NewNatives(was, c)
           m == Len(was)
           L == Lose(nats, c)
<1>1. m \in Nat /\ DOMAIN was = 1..m /\ W \in Seq(Natives) /\ Len(W) \in Nat /\ DOMAIN W = 1..Len(W)
  BY NewNativesIs, LenProperties
<1>2. Len(A) = m + Len(W) /\ Len(nats) = m + Len(W)
  BY AddNativesIs DEF Alike
<1>3. L \in Seq(NativeInfo) /\ Len(L) = Len(nats) /\ DOMAIN L = 1..(m + Len(W))
  BY <1>2, OwnersOnly, LenProperties
<1>4. \A i \in 1..Len(nats) : /\ L[i].nat = nats[i].nat /\ nats[i].owners \in Int
                              /\ L[i].owners = nats[i].owners - One(nats[i].nat \in Needs(c))
  BY OwnersOnly, OwnersMove
<1>5. ASSUME NEW i \in 1..m
      PROVE  L[i].nat = was[i].nat /\ L[i].owners = was[i].owners /\ L[i].owners > 0
  <2>1. i \in 1..Len(nats) /\ i \in 1..Len(A)
    BY <1>1, <1>2
  <2>2. /\ nats[i].nat = was[i].nat
        /\ nats[i].owners = was[i].owners + One(was[i].nat \in Needs(c))
    BY <2>1, AddedRows DEF Alike
  <2>3. was[i].owners \in Int /\ was[i].owners > 0 /\ One(was[i].nat \in Needs(c)) \in {0, 1}
    <3>1. was[i].owners \in Int
      BY OwnersMove
    <3>2. was[i].owners > 0
      BY DEF Owned
    <3> QED BY <3>1, <3>2 DEF One
  <2> HIDE DEF L, m, A
  <2> QED BY <1>4, <2>1, <2>2, <2>3
<1>6. ASSUME NEW k \in 1..Len(W)
      PROVE  L[m + k].owners = 0
  <2>1. m + k \in 1..Len(nats) /\ m + k \in 1..Len(A)
    BY <1>1, <1>2
  <2>2. nats[m + k].nat = W[k] /\ nats[m + k].owners = 1
    <3>1. A[m + k].nat = W[k] /\ A[m + k].owners = 1
      BY <1>6, AddedRows
    <3>2. Alike(nats, A)
      OBVIOUS
    <3> HIDE DEF A
    <3> QED BY <2>1, <3>1, <3>2 DEF Alike
  <2>3. W[k] \in Needs(c)
    BY <1>1, NewNativesIs
  <2>4. One(nats[m + k].nat \in Needs(c)) = 1
    BY <2>2, <2>3 DEF One
  <2> HIDE DEF L, m, A, W
  <2> QED BY <1>4, <2>1, <2>2, <2>4
<1>7. InUse(L) = 1..m
  <2>1. ASSUME NEW i \in 1..(m + Len(W)), i \notin 1..m PROVE ~(L[i].owners > 0)
    <3>1. i - m \in 1..Len(W) /\ m + (i - m) = i
      BY <1>1, <2>1
    <3>2. L[m + (i - m)].owners = 0
      BY <1>6, <3>1
    <3> HIDE DEF L, m, W
    <3> QED BY <3>1, <3>2
  <2>2. \A i \in 1..m : i \in 1..(m + Len(W))
    BY <1>1
  <2> QED BY <1>3, <1>5, <2>1, <2>2 DEF InUse
<1>8. Cardinality(InUse(L)) = m
  <2> HIDE DEF m, L
  <2>1. Cardinality(1..m) = IF 1 > m THEN 0 ELSE m - 1 + 1
    BY <1>1, FS_Interval
  <2> QED BY <1>1, <1>7, <2>1
<1>9. FailClean(nats, c) = SubSeq(L, 1, m)
  BY <1>8 DEF FailClean
<1>10. \A i \in 1..m : L[i] \in NativeInfo
  <2>1. \A i \in 1..m : i \in 1..Len(L)
    BY <1>1, <1>2, <1>3
  <2> QED BY <1>3, <2>1, ElementOfSeq
<1> HIDE DEF L, m
<1>11. /\ Len(SubSeq(L, 1, m)) = IF 1 <= m THEN m - 1 + 1 ELSE 0
       /\ \A i \in 1..(m - 1 + 1) : SubSeq(L, 1, m)[i] = L[1 + i - 1]
  <2>1. m \in Int /\ 1 \in Int
    BY <1>1
  <2> QED BY <1>10, <2>1, SubSeqProperties
<1>12. Len(SubSeq(L, 1, m)) = m /\ \A i \in 1..m : SubSeq(L, 1, m)[i] = L[i]
  BY <1>1, <1>11
<1> QED BY <1>5, <1>9, <1>12 DEF Alike, m
-----------------------------------------------------------------------------
(* The compaction of NativeInfoArray.                                      *)

\* What fills a hole comes from behind the compacted array, and no two holes
\* get the same.
LEMMA FillerBehind ==
  ASSUME NEW nats \in Seq(NativeInfo), NEW j \in 1..Cardinality(InUse(nats)), j \notin InUse(nats)
  PROVE  /\ Filler(nats, j) > Cardinality(InUse(nats))
         /\ \A i \in 1..(j - 1) : i \notin InUse(nats) => Filler(nats, i) # Filler(nats, j)
<1> DEFINE U == InUse(nats)
           m == Cardinality(U)
           H(i) == (1..(i - 1)) \ U
<1>1. /\ U \in SUBSET Int /\ IsFiniteSet(U) /\ m \in Nat /\ j \in Int /\ 1 <= j /\ j <= m
      /\ \A l \in U : l >= 1
  BY InUseIs, LenProperties
<1>2. \A i : Filler(nats, i) = Nth(U, m - Cardinality(H(i)))
  BY DEF Filler, HolesBelow
<1>3. j \notin U
  OBVIOUS
<1> HIDE DEF U, m
<1>4. ASSUME NEW i \in 1..m
      PROVE  IsFiniteSet(H(i)) /\ Cardinality(H(i)) \in 0..(i - 1)
  <2> DEFINE b == i - 1
  <2>1. b \in Nat
    BY <1>1
  <2> HIDE DEF b
  <2>2. IsFiniteSet(1..b) /\ Cardinality(1..b) = b
    <3>1. IsFiniteSet(1..b) /\ Cardinality(1..b) = IF 1 > b THEN 0 ELSE b - 1 + 1
      BY <2>1, FS_Interval
    <3> QED BY <2>1, <3>1
  <2>3. H(i) \in SUBSET (1..b)
    BY DEF b
  <2>4. IsFiniteSet(H(i)) /\ Cardinality(H(i)) <= b /\ Cardinality(H(i)) \in Nat
    BY <2>2, <2>3, FS_Subset, FS_CardinalityType
  <2> QED BY <2>1, <2>4 DEF b
<1>5. ASSUME NEW i \in 1..m
      PROVE  Filler(nats, i) \in U /\ Rank(U, Filler(nats, i)) = m - Cardinality(H(i))
  <2>1. m - Cardinality(H(i)) \in 1..m
    BY <1>1, <1>4
  <2> QED BY <1>1, <1>2, <2>1, NthIs DEF m
<1>6. ASSUME NEW i \in 1..(j - 1), i \notin U
      PROVE  Filler(nats, i) # Filler(nats, j)
  <2>1. i \in 1..m /\ i \in H(j) /\ i \notin H(i)
    BY <1>1, <1>6
  <2>2. H(i) \in SUBSET H(j)
    BY <1>1
  <2>3. IsFiniteSet(H(j)) /\ Cardinality(H(i)) \in Int /\ Cardinality(H(j)) \in Int /\ H(i) # H(j)
    <3>1. H(i) # H(j)
      BY <2>1
    <3>2. j \in 1..m /\ \A k \in Int : 0..(k - 1) \subseteq Int
      BY <1>1
    <3> HIDE DEF H
    <3> QED BY <1>4, <2>1, <3>1, <3>2
  <2>4. Rank(U, Filler(nats, i)) = m - Cardinality(H(i)) /\ Rank(U, Filler(nats, j)) = m - Cardinality(H(j))
    BY <1>1, <1>5, <2>1
  <2> HIDE DEF H
  <2>5. Cardinality(H(i)) # Cardinality(H(j))
    BY <2>2, <2>3, FS_Subset
  <2>6. Rank(U, Filler(nats, i)) # Rank(U, Filler(nats, j))
    BY <1>1, <2>3, <2>4, <2>5
  <2> QED BY <2>6
<1>7. Filler(nats, j) > m
  <2> SUFFICES ASSUME ~(Filler(nats, j) > m) PROVE FALSE
    OBVIOUS
  <2> DEFINE x == Filler(nats, j)
             Low == (1..m) \cap U
             Holes == (1..m) \ U
  <2>1. x \in U /\ x \in Int /\ x <= m /\ Rank(U, x) = m - Cardinality(H(j))
    <3>1. x \in U /\ Rank(U, x) = m - Cardinality(H(j))
      BY <1>1, <1>5
    <3>2. x \in Int
      BY <1>1, <3>1
    <3> QED BY <1>1, <3>1, <3>2
  <2>2. IsFiniteSet(1..m) /\ Cardinality(1..m) = m
    <3>1. IsFiniteSet(1..m) /\ Cardinality(1..m) = IF 1 > m THEN 0 ELSE m - 1 + 1
      BY <1>1, FS_Interval
    <3> QED BY <1>1, <3>1
  <2>3. /\ IsFiniteSet(Holes) /\ Cardinality(Holes) = m - Cardinality(Low)
        /\ IsFiniteSet(Low) /\ Cardinality(Low) \in Nat /\ Cardinality(Holes) \in Nat
    BY <2>2, FS_Difference, FS_Intersection, FS_CardinalityType
  <2>4. Cardinality(Holes) >= Cardinality(H(j)) + 1
    <3>1. Cardinality(H(j) \cup {j}) = Cardinality(H(j)) + 1
      <4>1. j \notin H(j)
        BY <1>1
      <4>2. j \in 1..m
        BY <1>1
      <4> HIDE DEF H
      <4>3. IsFiniteSet(H(j))
        BY <1>4, <4>2
      <4> QED BY <4>1, <4>3, FS_AddElement
    <3>2. H(j) \cup {j} \in SUBSET Holes
      BY <1>1, <1>3
    <3>3. Cardinality(H(j) \cup {j}) <= Cardinality(Holes)
      BY <2>3, <3>2, FS_Subset
    <3>4. Cardinality(H(j)) \in Nat
      BY <1>1, <1>4
    <3> QED BY <2>3, <3>1, <3>3, <3>4
  <2>5. Rank(U, x) <= Cardinality(Low)
    <3>1. {l \in U : l <= x} \in SUBSET Low
      BY <1>1, <2>1
    <3> QED BY <2>3, <3>1, FS_Subset DEF Rank
  <2>6. Cardinality(H(j)) \in Nat
    BY <1>1, <1>4
  <2> HIDE DEF x, Low, Holes, H
  <2> QED BY <1>1, <2>1, <2>3, <2>4, <2>5, <2>6
<1> QED BY <1>6, <1>7 DEF m, U

\* The compacted array has every row still in use, once.
LEMMA CompactIs ==
  ASSUME NEW nats \in Seq(NativeInfo)
  PROVE  \E from \in Bijection(1..Cardinality(InUse(nats)), InUse(nats)) :
           Compact(nats) = [i \in 1..Cardinality(InUse(nats)) |-> nats[from[i]]]
<1> DEFINE U == InUse(nats)
           m == Cardinality(U)
           from == [i \in 1..m |-> IF i \in U THEN i ELSE Filler(nats, i)]
<1>1. U \in SUBSET Int /\ IsFiniteSet(U) /\ m \in Nat
  BY InUseIs, LenProperties
<1>2. \A i \in 1..m : Filler(nats, i) \in U
  BY FillerIs
<1>3. \A i \in 1..m : i \notin U => Filler(nats, i) > m
  BY FillerBehind
<1>4. \A j \in 1..m : j \notin U =>
        \A i \in 1..(j - 1) : i \notin U => Filler(nats, i) # Filler(nats, j)
  BY FillerBehind
<1>5. Compact(nats) = [i \in 1..m |-> nats[from[i]]]
  BY DEF Compact
<1> HIDE DEF U, m
<1>6. \A i, j \in 1..m : from[i] = from[j] => i = j
  <2> SUFFICES ASSUME NEW i \in 1..m, NEW j \in 1..m, i < j
               PROVE  from[i] # from[j]
    BY <1>1
  <2>1. i \in 1..(j - 1)
    BY <1>1
  <2>2. CASE i \in U /\ j \in U
    BY <1>1, <2>2
  <2>3. CASE i \in U /\ j \notin U
    <3>1. from[i] = i /\ from[j] = Filler(nats, j) /\ from[j] > m /\ from[j] \in Int
      BY <1>1, <1>2, <1>3, <2>3
    <3> QED BY <1>1, <3>1
  <2>4. CASE i \notin U /\ j \in U
    <3>1. from[i] = Filler(nats, i) /\ from[j] = j /\ from[i] > m /\ from[i] \in Int
      BY <1>1, <1>2, <1>3, <2>4
    <3> QED BY <1>1, <3>1
  <2>5. CASE i \notin U /\ j \notin U
    BY <1>4, <2>1, <2>5
  <2> QED BY <2>2, <2>3, <2>4, <2>5
<1>7. from \in Injection(1..m, U)
  BY <1>2, <1>6 DEF Injection, IsInjective
<1>8. Cardinality(1..m) = m
  <2>1. Cardinality(1..m) = IF 1 > m THEN 0 ELSE m - 1 + 1
    BY <1>1, FS_Interval
  <2> QED BY <1>1, <2>1
<1>9. from \in Surjection(1..m, U)
  BY <1>1, <1>7, <1>8, FS_Injection DEF m
<1>10. from \in Bijection(1..m, U)
  BY <1>7, <1>9 DEF Bijection
<1> QED BY <1>5, <1>10 DEF m, U

\* Removing an event keeps the owner counts those of the list.
LEMMA RemoveOwned ==
  ASSUME NEW old \in Seq(EventInfo), NEW was \in Seq(NativeInfo), Owned(old, was),
         NEW i \in 1..Len(old)
  PROVE  Owned(Without(old, i), RemoveNatives(was, old[i].code))
<1> DEFINE c == old[i].code
           W == Without(old, i)
           L == Lose(was, c)
           m == Cardinality(InUse(L))
           R == Compact(L)
<1>1. /\ Len(old) \in Nat /\ DOMAIN old = 1..Len(old) /\ c \in Codes
      /\ \A k \in 1..Len(old) : old[k].code \in Codes
  <2>1. \A k \in 1..Len(old) : old[k] \in EventInfo
    BY ElementOfSeq
  <2> QED BY <2>1, LenProperties DEF EventInfo
<1>2. L \in Seq(NativeInfo) /\ Len(L) = Len(was) /\ DOMAIN L = 1..Len(was) /\ DOMAIN was = 1..Len(was)
  BY <1>1, OwnersOnly, LenProperties
<1>3. PICK from \in Bijection(1..m, InUse(L)) : R = [k \in 1..m |-> L[from[k]]]
  BY <1>2, CompactIs
<1>4. /\ m \in Nat /\ InUse(L) \subseteq 1..Len(was) /\ from \in [1..m -> InUse(L)]
      /\ \A a, b \in 1..m : from[a] = from[b] => a = b
      /\ \A t \in InUse(L) : \E a \in 1..m : from[a] = t
  <2>1. InUse(L) \subseteq 1..Len(was) /\ m \in Nat
    BY <1>2, InUseIs, LenProperties
  <2> HIDE DEF m, L
  <2> QED BY <2>1 DEF Bijection, Injection, Surjection, IsInjective
<1>5. DOMAIN R = 1..m /\ Len(R) = m
  <2> HIDE DEF R, m, L
  <2> QED BY <1>3, <1>4
<1>6. /\ Len(W) = Len(old) - 1 /\ DOMAIN W = 1..(Len(old) - 1) /\ Len(old) - 1 \in Nat
      /\ \A k \in 1..(Len(old) - 1) : W[k] = IF k < i THEN old[k] ELSE old[k + 1]
  BY <1>1 DEF Without
<1>7. \A n : Users(W, n) = Users(old, n) - One(n \in Needs(c)) /\ Users(W, n) \in Nat
  <2>1. \A n : Users(W, n) \in Nat
    <3> HIDE DEF W
    <3> QED BY <1>6, UsersIs
  <2> QED BY <2>1, UsersShrink
<1>8. \A t \in 1..Len(was) :
        L[t].nat = was[t].nat /\ L[t].owners = Users(W, was[t].nat)
  <2> TAKE t \in 1..Len(was)
  <2>1. /\ L[t].nat = was[t].nat
        /\ L[t].owners = was[t].owners - One(was[t].nat \in Needs(c))
    BY <1>1, OwnersOnly, OwnersMove
  <2>2. was[t].owners = Users(old, was[t].nat)
    BY DEF Owned
  <2> HIDE DEF L, W, c
  <2> QED BY <1>7, <2>1, <2>2
<1>9. \A t \in InUse(L) : L[t].owners > 0
  BY DEF InUse
<1> HIDE DEF L, m, R, W, c
<1>10. ASSUME NEW a \in 1..Len(R)
       PROVE  R[a].owners = Users(W, R[a].nat) /\ R[a].owners > 0
  <2>1. R[a] = L[from[a]] /\ from[a] \in InUse(L) /\ from[a] \in 1..Len(was)
    BY <1>3, <1>4, <1>5
  <2> QED BY <1>8, <1>9, <2>1
<1>11. ASSUME NEW k \in 1..Len(W), NEW n \in Needs(W[k].code)
       PROVE  n \in Mapped(R)
  <2>1. PICK l \in 1..Len(old) : W[k] = old[l]
    <3>1. k \in 1..(Len(old) - 1) /\ k \in 1..Len(old) /\ k + 1 \in 1..Len(old)
      BY <1>1, <1>6
    <3> QED BY <1>6, <3>1
  <2>2. n \in Mapped(was)
    BY <1>11, <2>1 DEF Owned
  <2>3. PICK t \in 1..Len(was) : was[t].nat = n
    BY <1>2, <2>2 DEF Mapped
  <2>4. Users(W, n) > 0
    BY <1>6, <1>11, UsersIs
  <2>5. t \in InUse(L)
    BY <1>2, <1>8, <2>3, <2>4 DEF InUse
  <2>6. PICK a \in 1..m : from[a] = t
    BY <1>4, <2>5
  <2>7. a \in DOMAIN R /\ R[a].nat = n
    BY <1>3, <1>5, <1>8, <2>3, <2>6
  <2> QED BY <2>7 DEF Mapped
<1>12. ASSUME NEW a \in 1..Len(R), NEW b \in 1..Len(R), R[a].nat = R[b].nat
       PROVE  a = b
  <2>1. /\ R[a] = L[from[a]] /\ from[a] \in 1..Len(was)
        /\ R[b] = L[from[b]] /\ from[b] \in 1..Len(was)
    BY <1>3, <1>4, <1>5
  <2>2. was[from[a]].nat = was[from[b]].nat
    BY <1>8, <1>12, <2>1
  <2>3. from[a] = from[b]
    BY <2>1, <2>2 DEF Owned
  <2> QED BY <1>4, <1>5, <2>3
<1>13. RemoveNatives(was, c) = R
  BY DEF RemoveNatives, R, L
<1>14. Owned(W, R)
  BY <1>10, <1>11, <1>12 DEF Owned
<1> QED BY <1>13, <1>14 DEF W, c
-----------------------------------------------------------------------------
(* The invariant.                                                          *)

Tidy(e) ==
  /\ Owned(e.evs, e.nats)
  /\ Len(e.nats) <= HwCounters
  /\ \A i \in 1..Len(e.evs) : NativesOf(e.evs[i].code) # <<>>
  /\ ~e.bound => e.evs = <<>> /\ e.nats = <<>>

OInv == TypeOK /\ \A s \in Alive : Tidy(sets[s])

\* What FailedCallUndone says of one step.
Undone == ret'.code # "OK" => \A s \in Alive : Content(sets'[s]) = Content(sets[s])

Holds == OInv' /\ Undone

\* The owner counts of an invariant EventSet are those OwnersMatch asks for.
LEMMA OwnedMatches ==
  ASSUME NEW evs \in Seq(EventInfo), NEW nats \in Seq(NativeInfo), Owned(evs, nats)
  PROVE  /\ \A i \in DOMAIN nats : nats[i].owners = Users(evs, nats[i].nat)
         /\ Mapped(nats) = UNION {Needs(evs[i].code) : i \in DOMAIN evs}
         /\ Cardinality(Mapped(nats)) = Len(nats)
<1>1. /\ Len(nats) \in Nat /\ DOMAIN nats = 1..Len(nats)
      /\ Len(evs) \in Nat /\ DOMAIN evs = 1..Len(evs)
  BY LenProperties
<1>2. ASSUME NEW n \in Mapped(nats) PROVE \E i \in DOMAIN evs : n \in Needs(evs[i].code)
  <2>1. PICK i \in 1..Len(nats) : nats[i].nat = n
    BY <1>1 DEF Mapped
  <2>2. Users(evs, n) > 0
    BY <2>1 DEF Owned
  <2> QED BY <1>1, <2>2, UsersIs
<1>3. \A i \in DOMAIN evs : Needs(evs[i].code) \subseteq Mapped(nats)
  BY <1>1 DEF Owned
<1>4. Cardinality(Mapped(nats)) = Len(nats)
  <2> DEFINE f == [i \in 1..Len(nats) |-> nats[i].nat]
  <2>1. f \in Bijection(1..Len(nats), Mapped(nats))
    BY <1>1 DEF Bijection, Injection, Surjection, IsInjective, Mapped, Owned
  <2>2. IsFiniteSet(1..Len(nats)) /\ Cardinality(1..Len(nats)) = Len(nats)
    <3> DEFINE m == Len(nats)
    <3>1. m \in Nat
      BY <1>1
    <3> HIDE DEF m
    <3>2. IsFiniteSet(1..m) /\ Cardinality(1..m) = IF 1 > m THEN 0 ELSE m - 1 + 1
      BY <3>1, FS_Interval
    <3>3. IsFiniteSet(1..m) /\ Cardinality(1..m) = m
      BY <3>1, <3>2
    <3> QED BY <3>3 DEF m
  <2> QED BY <2>1, <2>2, FS_Bijection DEF ExistsBijection
<1> QED BY <1>1, <1>2, <1>3, <1>4 DEF Owned

\* What a call puts in its slot decides.
LEMMA PutTidy ==
  ASSUME OInv, NEW s \in Alive, StaysTyped, NEW x, sets' = [sets EXCEPT ![s] = x], Tidy(x),
         ret'.code # "OK" => Content(x) = Content(sets[s])
  PROVE  Holds
<1>1. \A r \in Alive : sets'[r] = IF r = s THEN x ELSE sets[r]
  BY TypeOKIs DEF OInv, Alive
<1>2. OInv'
  BY <1>1 DEF OInv, StaysTyped
<1>3. Undone
  BY <1>1 DEF Undone
<1> QED BY <1>2, <1>3 DEF Holds

\* A step that changes no EventSet keeps the invariant.
LEMMA NoneTidy ==
  ASSUME OInv, StaysTyped, UNCHANGED sets
  PROVE  Holds
BY DEF OInv, StaysTyped, Holds, Undone

\* An EventSet with the events, native events and binding of another.
Same(x, e) == x.evs = e.evs /\ x.nats = e.nats /\ x.bound = e.bound

\* A call that changes none of the three keeps the invariant and undoes nothing.
LEMMA SameTidy ==
  ASSUME OInv, NEW s \in Alive, StaysTyped, NEW x, Same(x, sets[s]),
         sets' = [sets EXCEPT ![s] = x]
  PROVE  Holds
<1>1. Tidy(x)
  BY DEF OInv, Tidy, Same
<1>2. Content(x) = Content(sets[s])
  BY DEF Content, Same
<1> QED BY <1>1, <1>2, PutTidy

\* Changes that leave those three alone.
LEMMA SameFields ==
  ASSUME NEW e \in Good
  PROVE  \A ctl, stop, state, master :
           /\ Same([e EXCEPT !.ctl = ctl], e) /\ Same([e EXCEPT !.stop = stop], e)
           /\ Same([e EXCEPT !.ctl = ctl, !.stop = stop], e)
           /\ Same([e EXCEPT !.state = state], e)
           /\ Same([e EXCEPT !.ctl = ctl, !.state = state], e)
           /\ Same([e EXCEPT !.ctl = ctl, !.master = master, !.state = state], e)
           /\ Same(Marked(e), e) /\ Same(Unmarked(e), e) /\ Same(Unmarked(Marked(e)), e)
BY DEF Same, Good, EventSetInfo, Marked, Unmarked

\* An EventSet with no events.
LEMMA NothingTidy ==
  ASSUME NEW x, x.evs = <<>>, x.nats = <<>>
  PROVE  Tidy(x)
<1>1. Len(<<>>) = 0 /\ HwCounters \in Nat
  BY EmptySeq, PerfEventsAssumption
<1> HIDE DEF Tidy
<1>2. Owned(<<>>, <<>>)
  BY <1>1 DEF Owned
<1> QED BY <1>1, <1>2 DEF Tidy

\* Giving the rows positions changes nothing else.
LEMMA PositionedAlike ==
  ASSUME NEW nats \in Seq(Row)
  PROVE  Alike(Positioned(nats), nats)
<1>1. Len(nats) \in Nat /\ DOMAIN nats = 1..Len(nats) /\ \A i \in 1..Len(nats) : nats[i] \in Row
  BY LenProperties, ElementOfSeq
<1>2. \A r \in Row, i \in Int : /\ [r EXCEPT !.pos = i].nat = r.nat
                              /\ [r EXCEPT !.pos = i].owners = r.owners
  BY DEF Row
<1>3. Positioned(nats) = [i \in 1..Len(nats) |-> [nats[i] EXCEPT !.pos = i]]
  BY <1>1 DEF Positioned
<1>4. Len(Positioned(nats)) = Len(nats)
  BY <1>1, <1>3
<1>5. ASSUME NEW i \in 1..Len(nats)
      PROVE  Positioned(nats)[i].nat = nats[i].nat /\ Positioned(nats)[i].owners = nats[i].owners
  <2>1. Positioned(nats)[i] = [nats[i] EXCEPT !.pos = i] /\ i \in Int
    BY <1>3
  <2> QED BY <1>1, <1>2, <2>1
<1> QED BY <1>4, <1>5 DEF Alike

\* New positions leave the content of an EventSet and its tidiness.
LEMMA MovedTidy ==
  ASSUME NEW e \in Good, Tidy(e), NEW evs \in Seq(EventInfo), SameCodes(evs, e.evs),
         NEW nats \in Seq(NativeInfo), Alike(nats, e.nats),
         NEW x, x.evs = evs, x.nats = nats, x.bound = e.bound
  PROVE  Tidy(x) /\ (evs = e.evs => Content(x) = Content(e))
<1>1. e.evs \in Seq(EventInfo) /\ e.nats \in Seq(NativeInfo) /\ e.nats \in Seq(Row) /\ nats \in Seq(Row)
  BY GoodIs, NativeInfoIsRow
<1>2. Owned(evs, nats)
  BY <1>1, OwnedSame DEF Tidy
<1>3. Tidy(x)
  <2>1. Len(nats) <= HwCounters
    BY DEF Tidy, Alike
  <2>2. \A i \in 1..Len(evs) : NativesOf(evs[i].code) # <<>>
    BY DEF Tidy, SameCodes
  <2>3. ~x.bound => evs = <<>> /\ nats = <<>>
    <3>1. \A q \in Seq(EventInfo) : Len(q) = 0 => q = <<>>
      BY EmptySeq
    <3>2. \A q \in Seq(NativeInfo) : Len(q) = 0 => q = <<>>
      BY EmptySeq
    <3>3. ~x.bound => Len(evs) = 0 /\ Len(nats) = 0
      BY EmptySeq DEF Tidy, SameCodes, Alike
    <3> QED BY <3>1, <3>2, <3>3
  <2> QED BY <1>2, <2>1, <2>2, <2>3 DEF Tidy
<1>4. ASSUME evs = e.evs PROVE Content(x) = Content(e)
  <2>1. /\ DOMAIN nats = 1..Len(nats) /\ DOMAIN e.nats = 1..Len(nats)
        /\ \A i \in 1..Len(nats) : nats[i] \in NativeInfo /\ e.nats[i] \in NativeInfo
    BY <1>1, LenProperties, ElementOfSeq DEF Alike
  <2>2. \A i \in 1..Len(nats) : [nats[i] EXCEPT !.pos = 0] = [e.nats[i] EXCEPT !.pos = 0]
    BY <2>1 DEF Alike, NativeInfo
  <2>3. [i \in DOMAIN nats |-> [nats[i] EXCEPT !.pos = 0]]
          = [i \in DOMAIN e.nats |-> [e.nats[i] EXCEPT !.pos = 0]]
    BY <2>1, <2>2
  <2> QED BY <1>4, <2>3 DEF Content
<1> QED BY <1>3, <1>4

\* The kernel is asked for as many counters as there are native events.
LEMMA VerdictIs ==
  ASSUME NEW ctl \in ControlState, NEW nats \in Seq(Row), nats # <<>>,
         NEW ok \in Verdicts(Configured(ctl, nats).ev)
  PROVE  /\ ok \in BOOLEAN /\ (ok => Len(nats) <= HwCounters)
         /\ ~OpenMayFail /\ Len(nats) <= HwCounters => ok
         /\ Opened(Configured(ctl, nats)).fds # <<>>
<1> DEFINE E == [i \in DOMAIN nats |-> nats[i].nat]
<1>1. Len(nats) \in Nat \ {0} /\ DOMAIN nats = 1..Len(nats)
  BY LenProperties, EmptySeq
<1>2. Len(E) = Len(nats) /\ DOMAIN E = 1..Len(nats)
  BY <1>1
<1>3. Configured(ctl, nats).ev = E
  BY DEF Configured, ControlState
<1> HIDE DEF E
<1>4. HwCounters \in Nat /\ OpenMayFail \in BOOLEAN
  BY PerfEventsAssumption
<1>5. Opened(Configured(ctl, nats)).fds # <<>>
  <2>1. DOMAIN Opened(Configured(ctl, nats)).fds = 1..Len(nats)
    BY <1>2, <1>3 DEF Opened
  <2>2. 1 \in 1..Len(nats) /\ DOMAIN <<>> = {}
    BY <1>1
  <2> QED BY <2>1, <2>2
<1>6. CASE Len(nats) > HwCounters
  <2>1. ok = FALSE
    BY <1>2, <1>3, <1>6 DEF Verdicts
  <2>2. ~(Len(nats) <= HwCounters)
    BY <1>1, <1>4, <1>6
  <2> QED BY <1>5, <2>1, <2>2
<1>7. CASE ~(Len(nats) > HwCounters)
  <2>1. ok \in BOOLEAN /\ (~OpenMayFail => ok)
    BY <1>2, <1>3, <1>7 DEF Verdicts
  <2>2. Len(nats) <= HwCounters
    BY <1>1, <1>4, <1>7
  <2> QED BY <1>5, <2>1, <2>2
<1> QED BY <1>6, <1>7
-----------------------------------------------------------------------------
(* PAPI_add_event.                                                         *)

\* A call that keeps the types and refuses changes nothing.
LEMMA RefuseTidy ==
  ASSUME OInv, StaysTyped, NEW code, Refuse(code)
  PROVE  Holds
BY NoneTidy DEF Refuse

\* The list with the new event at its end, whether all events or only the new
\* one are looked up.
LEMMA LookedUpIs ==
  ASSUME NEW evs \in Seq(EventInfo), NEW c \in Codes, NEW nats \in Seq(NativeInfo),
         Needs(c) \subseteq Mapped(nats)
  PROVE  /\ Remap(Append(evs, Blank(c)), nats) \in Seq(EventInfo)
         /\ Joins(Remap(Append(evs, Blank(c)), nats), evs, c)
         /\ Append(evs, Located(Blank(c), nats)) \in Seq(EventInfo)
         /\ Joins(Append(evs, Located(Blank(c), nats)), evs, c)
<1> DEFINE m == Len(evs)
           A == Append(evs, Blank(c))
           S == EventInfo \cup {Blank(c)}
           ev == Located(Blank(c), nats)
<1>1. ev \in EventInfo /\ ev.code = c
  BY LocatedIs DEF Blank
<1>2. m \in Nat /\ m + 1 \in 1..(m + 1) /\ \A i \in 1..m : i \in 1..(m + 1) /\ i # m + 1
  BY LenProperties
<1>3. /\ Append(evs, ev) \in Seq(EventInfo) /\ Len(Append(evs, ev)) = m + 1
      /\ \A i \in 1..m : Append(evs, ev)[i] = evs[i]
      /\ Append(evs, ev)[m + 1] = ev
  <2> HIDE DEF ev
  <2> QED BY <1>1, AppendProperties
<1>4. /\ A \in Seq(S) /\ Len(A) = m + 1
      /\ \A i \in 1..m : A[i] = evs[i]
      /\ A[m + 1] = Blank(c)
  <2>1. evs \in Seq(S) /\ Blank(c) \in S
    BY SeqMonotonic
  <2> HIDE DEF S
  <2> QED BY <2>1, AppendProperties
<1>5. DOMAIN A = 1..(m + 1)
  <2> HIDE DEF A, S
  <2> QED BY <1>4, LenProperties
<1>6. \A i \in 1..(m + 1) : Remap(A, nats)[i] = Located(A[i], nats)
  <2> HIDE DEF A
  <2> QED BY <1>5 DEF Remap
<1>7. Remap(A, nats) \in Seq(EventInfo) /\ Len(Remap(A, nats)) = m + 1
  BY AppendedIs
<1>8. \A i \in 1..m : Remap(A, nats)[i].code = evs[i].code
  <2>1. \A i \in 1..m : Located(evs[i], nats).code = evs[i].code
    BY ElementOfSeq, LocatedIs
  <2> HIDE DEF A
  <2> QED BY <1>2, <1>4, <1>6, <2>1
<1>9. Remap(A, nats)[m + 1].code = c
  <2> HIDE DEF A
  <2> QED BY <1>1, <1>2, <1>4, <1>6
<1>10. Joins(Remap(A, nats), evs, c)
  <2> HIDE DEF A
  <2> QED BY <1>7, <1>8, <1>9 DEF Joins
<1>11. Joins(Append(evs, ev), evs, c)
  <2> HIDE DEF ev
  <2> QED BY <1>1, <1>3 DEF Joins
<1> QED BY <1>3, <1>7, <1>10, <1>11

\* A bound EventSet with the event and its native events added is tidy.
LEMMA AddedTidy ==
  ASSUME NEW e \in Good, Tidy(e), NEW c \in Codes, NativesOf(c) # <<>>,
         NEW evs \in Seq(EventInfo), Joins(evs, e.evs, c),
         NEW nats \in Seq(NativeInfo), Alike(nats, AddNatives(e.nats, c)),
         Len(nats) <= HwCounters,
         NEW x, x.evs = evs, x.nats = nats, x.bound
  PROVE  Tidy(x)
<1>1. e.evs \in Seq(EventInfo) /\ e.nats \in Seq(NativeInfo) /\ nats \in Seq(Row) /\ Len(e.evs) \in Nat
  BY GoodIs, NativeInfoIsRow
<1>2. Owned(evs, nats)
  BY <1>1, AddOwned DEF Tidy
<1>3. \A i \in 1..Len(evs) : NativesOf(evs[i].code) # <<>>
  <2> SUFFICES ASSUME NEW i \in 1..Len(evs) PROVE NativesOf(evs[i].code) # <<>>
    OBVIOUS
  <2>1. i \in 1..Len(e.evs) \/ i = Len(e.evs) + 1
    BY <1>1 DEF Joins
  <2> QED BY <2>1 DEF Joins, Tidy
<1> QED BY <1>2, <1>3 DEF Tidy

\* PAPI_add_event where every native event is mapped already.
LEMMA AddSharedTidy ==
  ASSUME OInv, NEW s \in Alive, NEW e \in Good, Tidy(e), e.bound, NEW c \in Codes,
         AddRefusal(e, c) = "OK", AddShared(s, e, c), StaysTyped
  PROVE  Holds
<1> DEFINE A == AddNatives(e.nats, c)
           x == Sharing(e, c, A)
           evs == Append(e.evs, Located(Blank(c), A))
<1>1. e.evs \in Seq(EventInfo) /\ e.nats \in Seq(NativeInfo) /\ Len(e.nats) \in Nat
  BY GoodIs
<1>2. A \in Seq(NativeInfo) /\ Needs(c) \subseteq Mapped(A) /\ Len(A) = Len(e.nats)
  <2>1. Len(NewNatives(e.nats, c)) = 0
    BY EmptySeq DEF AddShared
  <2> QED BY <1>1, <2>1, AddNativesIs DEF AddShared
<1>3. NativesOf(c) # <<>>
  BY DEF AddRefusal
<1>4. evs \in Seq(EventInfo) /\ Joins(evs, e.evs, c)
  BY <1>1, <1>2, LookedUpIs
<1>5. x.evs = evs /\ x.nats = A /\ x.bound
  BY DEF Sharing, Good, EventSetInfo
<1>6. sets' = [sets EXCEPT ![s] = x] /\ ret'.code = "OK"
  BY DEF AddShared, Reply
<1>7. Len(A) <= HwCounters /\ Alike(A, A)
  BY <1>2 DEF Tidy, Alike
<1> HIDE DEF x, evs
<1>8. Tidy(x)
  BY <1>2, <1>3, <1>4, <1>5, <1>7, AddedTidy
<1> QED BY <1>6, <1>8, PutTidy

\* PAPI_add_event where the group is rebuilt: what a refused group leaves is
\* what there was.
LEMMA AddNewTidy ==
  ASSUME OInv, NEW s \in Alive, NEW e \in Good, Tidy(e), e.bound, Content(e) = Content(sets[s]),
         NEW c \in Codes, AddRefusal(e, c) = "OK", AddNew(s, e, c), StaysTyped
  PROVE  Holds
<1> DEFINE A == AddNatives(e.nats, c)
           P == Positioned(A)
           ctl == Configured(e.ctl, A)
           old == FailClean(P, c)
           d == Configured(ctl, old)
<1>1. /\ e.evs \in Seq(EventInfo) /\ e.nats \in Seq(NativeInfo) /\ e.nats \in Seq(Row)
      /\ e.ctl \in ControlState /\ Owned(e.evs, e.nats)
  BY GoodIs DEF Tidy
<1>2. A \in Seq(Row) /\ Len(A) <= NumMpxCntrs /\ Needs(c) \subseteq Mapped(A) /\ A # <<>>
  <2>1. Len(A) \in Nat /\ NumMpxCntrs \in Nat
    BY <1>1, AddNativesIs, NewNativesIs, LenProperties, NativeEventsAssumption
  <2>2. Len(NewNatives(e.nats, c)) # 0 /\ Len(NewNatives(e.nats, c)) \in Nat /\ Len(e.nats) \in Nat
    BY <1>1, NewNativesIs, EmptySeq, LenProperties DEF AddNew
  <2>3. Len(A) # 0
    BY <1>1, <2>2, AddNativesIs
  <2> QED BY <1>1, <2>1, <2>3, AddNativesIs, EmptySeq DEF AddRefusal
<1>3. P \in Seq(NativeInfo) /\ Needs(c) \subseteq Mapped(P) /\ Alike(P, A)
  BY <1>2, PositionedIs, PositionedAlike
<1>4. NativesOf(c) # <<>>
  BY DEF AddRefusal
<1>5. PICK ok \in Verdicts(ctl.ev) :
        \/ /\ ok
           /\ sets' = [sets EXCEPT ![s] = [Joined(e, c, P) EXCEPT !.ctl = ctl]]
           /\ Reply("OK")
        \/ /\ ~ok
           /\ sets' = [sets EXCEPT ![s] = [e EXCEPT !.ctl = d, !.nats = Positioned(old)]]
  BY DEF AddNew
<1>6. ok => Len(A) <= HwCounters
  BY <1>1, <1>2, VerdictIs
<1> HIDE DEF A, P, ctl, old, d
<1>7. CASE /\ ok
           /\ sets' = [sets EXCEPT ![s] = [Joined(e, c, P) EXCEPT !.ctl = ctl]]
           /\ Reply("OK")
  <2> DEFINE x == [Joined(e, c, P) EXCEPT !.ctl = ctl]
             evs == Remap(Append(e.evs, Blank(c)), P)
  <2>1. x.evs = evs /\ x.nats = P /\ x.bound
    BY DEF Joined, Good, EventSetInfo
  <2>2. evs \in Seq(EventInfo) /\ Joins(evs, e.evs, c)
    BY <1>1, <1>3, LookedUpIs
  <2>3. Len(P) <= HwCounters
    BY <1>3, <1>6, <1>7 DEF Alike
  <2> HIDE DEF x, evs
  <2>4. Tidy(x)
    BY <1>3, <1>4, <2>1, <2>2, <2>3, AddedTidy DEF A
  <2>5. ret'.code = "OK"
    BY <1>7 DEF Reply
  <2> QED BY <1>7, <2>4, <2>5, PutTidy DEF x
<1>8. CASE sets' = [sets EXCEPT ![s] = [e EXCEPT !.ctl = d, !.nats = Positioned(old)]]
  <2> DEFINE x == [e EXCEPT !.ctl = d, !.nats = Positioned(old)]
  <2>1. Alike(old, e.nats)
    BY <1>1, <1>3, FailCleanRestores DEF A, old
  <2>2. old \in Seq(NativeInfo) /\ old \in Seq(Row) /\ Len(old) <= NumMpxCntrs
    <3>1. old \in Seq(NativeInfo)
      BY <1>3, FailCleanIs DEF old
    <3>2. Len(old) <= NumMpxCntrs
      BY <2>1, GoodIs DEF Alike
    <3> QED BY <3>1, <3>2, NativeInfoIsRow
  <2>3. Positioned(old) \in Seq(NativeInfo) /\ Alike(Positioned(old), old)
    BY <2>2, PositionedIs, PositionedAlike
  <2>4. Alike(Positioned(old), e.nats)
    BY <2>1, <2>3 DEF Alike
  <2>5. x.evs = e.evs /\ x.nats = Positioned(old) /\ x.bound = e.bound
    BY DEF Good, EventSetInfo
  <2>6. SameCodes(e.evs, e.evs)
    BY DEF SameCodes
  <2> HIDE DEF x
  <2>7. Tidy(x) /\ Content(x) = Content(e)
    BY <1>1, <2>3, <2>4, <2>5, <2>6, MovedTidy
  <2> QED BY <1>8, <2>7, PutTidy DEF x
<1> QED BY <1>5, <1>7, <1>8

\* PAPI_add_event keeps the owner counts, and takes everything back when it
\* fails.
LEMMA AddEventTidy ==
  ASSUME OInv, NEW s \in Alive, NEW c \in Codes, AddEvent(s, c)
  PROVE  Holds
<1> DEFINE e == IF sets[s].bound THEN sets[s] ELSE Bind(sets[s])
<1>1. StaysTyped /\ Tidy(sets[s])
  BY AddEventTypes DEF OInv
<1>2. e \in Good
  BY AliveIs, NewEventSetIs DEF OInv
<1>3. e.bound /\ Tidy(e) /\ Content(e) = Content(sets[s])
  <2>1. CASE sets[s].bound
    BY <1>1, <2>1
  <2>2. CASE ~sets[s].bound
    <3>1. e.evs = <<>> /\ e.nats = <<>> /\ e.bound
      BY <2>2 DEF Bind, Empty
    <3>2. sets[s].evs = <<>> /\ sets[s].nats = <<>>
      BY <1>1, <2>2 DEF Tidy
    <3> HIDE DEF e
    <3> QED BY <3>1, <3>2, NothingTidy DEF Content
  <2> QED BY <2>1, <2>2
<1>4. CASE Has(s, "RUNNING")
  BY <1>1, <1>4, RefuseTidy DEF AddEvent
<1>5. CASE ~Has(s, "RUNNING") /\ AddRefusal(e, c) # "OK"
  <2>1. sets' = [sets EXCEPT ![s] = e]
    BY <1>5 DEF AddEvent
  <2> HIDE DEF e
  <2> QED BY <1>1, <1>3, <2>1, PutTidy
<1>6. CASE ~Has(s, "RUNNING") /\ AddRefusal(e, c) = "OK"
  <2>1. AddShared(s, e, c) \/ AddNew(s, e, c)
    BY <1>6 DEF AddEvent
  <2> HIDE DEF e
  <2> QED BY <1>1, <1>2, <1>3, <1>6, <2>1, AddSharedTidy, AddNewTidy
<1> QED BY <1>4, <1>5, <1>6
-----------------------------------------------------------------------------
(* The other calls.                                                        *)

\* A listed event is found where IndexOf says.
LEMMA FoundIs ==
  ASSUME NEW evs \in Seq(EventInfo), NEW c \in Listed(evs)
  PROVE  IndexOf(evs, c) \in 1..Len(evs) /\ evs[IndexOf(evs, c)].code = c
<1>1. DOMAIN evs = 1..Len(evs)
  BY LenProperties
<1>2. \E k \in DOMAIN evs : evs[k].code = c
  BY DEF Listed
<1>3. IndexOf(evs, c) \in DOMAIN evs /\ evs[IndexOf(evs, c)].code = c
  BY <1>2 DEF IndexOf
<1> QED BY <1>1, <1>3

\* PAPI_remove_event gives the native events' owners back. It does not fail half
\* way: the smaller group fits where the larger one did.
LEMMA RemoveEventTidy ==
  ASSUME ~OpenMayFail \/ "remove" \notin Liberties,
         OInv, NEW s \in Alive, NEW c \in Codes, RemoveEvent(s, c)
  PROVE  Holds
<1> DEFINE e == sets[s]
           i == IndexOf(e.evs, c)
           W == Without(e.evs, i)
           R == RemoveNatives(e.nats, c)
           ctl == Configured(e.ctl, R)
<1>1. StaysTyped /\ e \in Good /\ Tidy(e)
  BY RemoveEventTypes, AliveIs DEF OInv
<1>2. CASE ~Has(s, "STOPPED") \/ c \notin Listed(e.evs)
  BY <1>1, <1>2, RefuseTidy DEF RemoveEvent
<1>3. CASE Has(s, "STOPPED") /\ c \in Listed(e.evs)
  <2>1. /\ e.evs \in Seq(EventInfo) /\ Len(e.evs) \in Nat /\ e.ctl \in ControlState
        /\ e.nats \in Seq(NativeInfo) /\ Len(e.nats) \in Nat
    BY <1>1, GoodIs
  <2>2. i \in 1..Len(e.evs) /\ e.evs[i].code = c
    BY <1>3, <2>1, FoundIs
  <2>3. W \in Seq(EventInfo) /\ Len(W) = Len(e.evs) - 1
    BY <1>3, <2>1, WithoutIs
  <2>4. Owned(W, R)
    BY <1>1, <2>1, <2>2, RemoveOwned DEF Tidy
  <2>5. R \in Seq(NativeInfo) /\ R \in Seq(Row) /\ Len(R) <= HwCounters /\ Len(R) <= NumMpxCntrs
    <3>1. R \in Seq(NativeInfo) /\ Len(R) <= Len(e.nats) /\ Len(R) \in Nat
      BY <2>1, RemoveNativesIs, LenProperties
    <3>2. Len(e.nats) <= HwCounters /\ Len(e.nats) <= NumMpxCntrs
      BY <1>1, GoodIs DEF Tidy
    <3> HIDE DEF R
    <3> QED BY <2>1, <3>1, <3>2, NativeInfoIsRow, PerfEventsAssumption, NativeEventsAssumption
  <2>6. \A k \in 1..Len(W) : NativesOf(W[k].code) # <<>>
    <3> SUFFICES ASSUME NEW k \in 1..Len(W) PROVE NativesOf(W[k].code) # <<>>
      OBVIOUS
    <3>1. k \in 1..Len(e.evs) /\ k + 1 \in 1..Len(e.evs) /\ k \in 1..(Len(e.evs) - 1)
      BY <2>1, <2>3
    <3>2. W[k] = e.evs[k] \/ W[k] = e.evs[k + 1]
      BY <3>1 DEF Without
    <3> HIDE DEF W
    <3> QED BY <1>1, <3>1, <3>2 DEF Tidy
  <2>7. e.bound
    <3>1. e.evs # <<>>
      BY <2>1, <2>2, EmptySeq
    <3> QED BY <1>1, <3>1 DEF Tidy
  <2>8. \/ sets' = [sets EXCEPT ![s] = [e EXCEPT !.evs = W, !.nats = R]] /\ Reply("OK")
        \/ \E ok \in (IF R = <<>> THEN {TRUE} ELSE Verdicts(ctl.ev)) :
             /\ sets' = [sets EXCEPT ![s] = [e EXCEPT !.evs = IF ok THEN W ELSE @,
                                                      !.nats = Positioned(R), !.ctl = ctl]]
             /\ IF ok THEN Reply("OK") ELSE Reply("ECNFLCT")
    BY <1>3 DEF RemoveEvent
  <2>9. ~OpenMayFail
    BY DEF RemoveEvent
  <2> HIDE DEF W, R, ctl, i
  <2>10. CASE sets' = [sets EXCEPT ![s] = [e EXCEPT !.evs = W, !.nats = R]] /\ Reply("OK")
    <3> DEFINE x == [e EXCEPT !.evs = W, !.nats = R]
    <3>1. x.evs = W /\ x.nats = R /\ x.bound
      BY <1>1, <2>7 DEF Good, EventSetInfo
    <3> HIDE DEF x
    <3>2. Tidy(x)
      BY <2>4, <2>5, <2>6, <3>1 DEF Tidy
    <3> QED BY <1>1, <2>10, <3>2, PutTidy DEF x, Reply
  <2>11. ASSUME NEW ok \in (IF R = <<>> THEN {TRUE} ELSE Verdicts(ctl.ev)),
                sets' = [sets EXCEPT ![s] = [e EXCEPT !.evs = IF ok THEN W ELSE @,
                                                      !.nats = Positioned(R), !.ctl = ctl]],
                IF ok THEN Reply("OK") ELSE Reply("ECNFLCT")
         PROVE  Holds
    <3>1. ok
      <4>1. CASE R = <<>>
        BY <2>11, <4>1
      <4>2. CASE R # <<>>
        BY <2>1, <2>5, <2>9, <2>11, <4>2, VerdictIs DEF ctl
      <4> QED BY <4>1, <4>2
    <3> DEFINE x == [e EXCEPT !.evs = W, !.nats = Positioned(R), !.ctl = ctl]
    <3>2. sets' = [sets EXCEPT ![s] = x] /\ ret'.code = "OK"
      BY <2>11, <3>1 DEF Reply
    <3>3. x.evs = W /\ x.nats = Positioned(R) /\ x.bound
      BY <1>1, <2>7 DEF Good, EventSetInfo
    <3> HIDE DEF x
    <3>4. Positioned(R) \in Seq(Row) /\ Alike(Positioned(R), R)
      BY <2>5, PositionedIs, PositionedAlike, NativeInfoIsRow
    <3>5. Owned(W, Positioned(R))
      <4>1. SameCodes(W, W)
        BY DEF SameCodes
      <4> QED BY <2>3, <2>4, <2>5, <3>4, <4>1, OwnedSame
    <3>6. Tidy(x)
      BY <2>5, <2>6, <3>3, <3>4, <3>5 DEF Tidy, Alike
    <3> QED BY <1>1, <3>2, <3>6, PutTidy
  <2> QED BY <2>8, <2>10, <2>11
<1> QED BY <1>2, <1>3

\* An EventSet has native events exactly when it has events.
LEMMA EmptyTogether ==
  ASSUME NEW e \in Good, Tidy(e)
  PROVE  e.evs = <<>> <=> e.nats = <<>>
<1>1. /\ e.evs \in Seq(EventInfo) /\ Len(e.evs) \in Nat /\ DOMAIN e.evs = 1..Len(e.evs)
      /\ e.nats \in Seq(NativeInfo) /\ Len(e.nats) \in Nat
  BY GoodIs, LenProperties
<1>2. ASSUME e.evs # <<>> PROVE e.nats # <<>>
  <2>1. 1 \in 1..Len(e.evs) /\ e.evs[1].code \in Codes
    <3>1. Len(e.evs) # 0
      BY <1>1, <1>2, EmptySeq
    <3>2. 1 \in 1..Len(e.evs)
      BY <1>1, <3>1
    <3>3. e.evs[1] \in EventInfo
      BY <1>1, <3>2, ElementOfSeq
    <3> QED BY <3>2, <3>3 DEF EventInfo
  <2>2. PICK n : n \in Needs(e.evs[1].code)
    <3>1. NativesOf(e.evs[1].code) # <<>> /\ NativesOf(e.evs[1].code) \in Seq(Natives)
      BY <2>1, NativesOfIs DEF Tidy
    <3>2. 1 \in DOMAIN NativesOf(e.evs[1].code)
      BY <2>1, <3>1, NativesOfIs, EmptySeq
    <3> QED BY <3>2 DEF Needs
  <2>3. n \in Mapped(e.nats)
    BY <2>1, <2>2 DEF Tidy, Owned
  <2>4. Mapped(<<>>) = {}
    BY DEF Mapped
  <2> QED BY <2>3, <2>4
<1>3. ASSUME e.nats # <<>> PROVE e.evs # <<>>
  <2>1. 1 \in 1..Len(e.nats)
    BY <1>1, <1>3, EmptySeq
  <2>2. Users(e.evs, e.nats[1].nat) > 0
    BY <2>1 DEF Tidy, Owned
  <2>3. \E i \in 1..Len(e.evs) : e.nats[1].nat \in Needs(e.evs[i].code)
    BY <1>1, <2>2, UsersIs
  <2> QED BY <1>1, <2>3, EmptySeq
<1> QED BY <1>2, <1>3

\* What PAPI_assign_eventset and PAPI_cleanup_eventset leave has no events.
LEMMA EmptiedTidy ==
  ASSUME OInv, NEW s \in Alive, Assign(s) \/ Cleanup(s)
  PROVE  Holds
<1>1. StaysTyped
  BY AssignTypes, CleanupTypes DEF OInv
<1> DEFINE b == Bind(sets[s])
           u == [Empty EXCEPT !.state = sets[s].state, !.master = sets[s].master]
<1>2. \/ Refuse("EINVAL") \/ Refuse("OK") \/ Refuse("EISRUN")
      \/ sets' = [sets EXCEPT ![s] = b] /\ Reply("OK")
      \/ sets' = [sets EXCEPT ![s] = u] /\ Reply("OK")
  BY DEF Assign, Cleanup
<1>3. b.evs = <<>> /\ b.nats = <<>> /\ u.evs = <<>> /\ u.nats = <<>>
  BY DEF Bind, Empty
<1> HIDE DEF b, u
<1>4. ASSUME NEW x, sets' = [sets EXCEPT ![s] = x], x.evs = <<>>, x.nats = <<>>, Reply("OK")
      PROVE  Holds
  BY <1>1, <1>4, NothingTidy, PutTidy DEF Reply
<1> QED BY <1>1, <1>2, <1>3, <1>4, RefuseTidy

\* The start of a group: what it marks has the events it had.
LEMMA LaunchTidy ==
  ASSUME OInv, NEW s \in Alive, NEW e \in Good, Tidy(e), NEW ctx, Launch(s, e, ctx), StaysTyped,
         ~CanEnable(ctx) => Content(e) = Content(sets[s])
  PROVE  Holds
<1>1. \/ sets' = [sets EXCEPT ![s] = Marked(e)] /\ ret'.code = "OK"
      \/ sets' = [sets EXCEPT ![s] = Unmarked(Marked(e))] /\ ~CanEnable(ctx)
  BY DEF Launch, Reply
<1>2. \A x : Same(x, e) => Tidy(x) /\ Content(x) = Content(e)
  BY DEF Same, Tidy, Content
<1>3. Same(Marked(e), e) /\ Same(Unmarked(Marked(e)), e)
  BY SameFields
<1> QED BY <1>1, <1>2, <1>3, PutTidy

\* PAPI_start fails before it has changed anything but positions: once the
\* group is open again it can be enabled, as it is not empty.
LEMMA StartTidy ==
  ASSUME OInv, NEW s \in Alive, Start(s)
  PROVE  Holds
<1> DEFINE e == sets[s]
           ctl == Configured(e.ctl, e.nats)
           P == Positioned(e.nats)
           evs == Remap(e.evs, P)
           fresh == [e EXCEPT !.ctl = ctl, !.nats = P, !.evs = evs]
           moved == [e EXCEPT !.ctl = ctl, !.nats = P]
           ctx == Updated(e.ctl, e.nats, TRUE)
<1>1. StaysTyped /\ e \in Good /\ Tidy(e)
  BY StartTypes, AliveIs DEF OInv
<1>2. \/ Refuse("ENOCMP") \/ Refuse("EISRUN") \/ Refuse("EINVAL")
      \/ Launch(s, e, thr[e.master].ctx)
      \/ e.evs # <<>> /\ Launch(s, fresh, ctx)
      \/ sets' = [sets EXCEPT ![s] = moved]
  BY DEF Start
<1>3. /\ e.evs \in Seq(EventInfo) /\ e.nats \in Seq(NativeInfo) /\ e.nats \in Seq(Row)
      /\ e.ctl \in ControlState /\ Len(e.evs) \in Nat
  BY <1>1, GoodIs
<1>4. P \in Seq(NativeInfo) /\ Alike(P, e.nats)
  BY <1>1, <1>3, GoodIs, PositionedIs, PositionedAlike
<1>5. evs \in Seq(EventInfo) /\ SameCodes(evs, e.evs)
  <2>1. DOMAIN e.evs = 1..Len(e.evs) /\ \A i \in 1..Len(e.evs) : e.evs[i] \in EventInfo
    BY <1>3, LenProperties, ElementOfSeq
  <2>2. \A i \in 1..Len(e.evs) : Located(e.evs[i], P).code = e.evs[i].code
    BY <1>4, <2>1, LocatedIs
  <2>3. evs \in Seq(EventInfo) /\ Len(evs) = Len(e.evs)
    BY <1>3, <1>4, <2>1, RemapIs
  <2>4. \A i \in 1..Len(e.evs) : evs[i] = Located(e.evs[i], P)
    BY <2>1 DEF Remap
  <2> QED BY <2>2, <2>3, <2>4 DEF SameCodes
<1>6. fresh \in Good
  BY <1>1, StartedIs
<1>7. /\ fresh.evs = evs /\ fresh.nats = P /\ fresh.bound = e.bound
      /\ moved.evs = e.evs /\ moved.nats = P /\ moved.bound = e.bound
  <2> HIDE DEF P, evs, ctl
  <2> QED BY <1>1 DEF Good, EventSetInfo
<1> HIDE DEF fresh, moved, P, evs
<1>8. Tidy(fresh) /\ Tidy(moved) /\ Content(moved) = Content(e)
  <2>1. SameCodes(e.evs, e.evs)
    BY DEF SameCodes
  <2> QED BY <1>1, <1>3, <1>4, <1>5, <1>7, <2>1, MovedTidy
<1>9. CASE Refuse("ENOCMP") \/ Refuse("EISRUN") \/ Refuse("EINVAL")
  BY <1>1, <1>9, RefuseTidy
<1>10. CASE Launch(s, e, thr[e.master].ctx)
  BY <1>1, <1>10, LaunchTidy
<1>11. CASE e.evs # <<>> /\ Launch(s, fresh, ctx)
  <2>1. e.nats # <<>>
    BY <1>1, <1>11, EmptyTogether
  <2>2. CanEnable(ctx)
    <3>1. \E ok : ok \in Verdicts(Configured(e.ctl, e.nats).ev)
      BY DEF Verdicts
    <3>2. Opened(Configured(e.ctl, e.nats)).fds # <<>>
      BY <1>3, <2>1, <3>1, VerdictIs
    <3> QED BY <2>1, <3>2 DEF CanEnable, Updated
  <2> QED BY <1>1, <1>6, <1>8, <1>11, <2>2, LaunchTidy
<1>12. CASE sets' = [sets EXCEPT ![s] = moved]
  BY <1>1, <1>8, <1>12, PutTidy
<1> QED BY <1>2, <1>9, <1>10, <1>11, <1>12

\* Reading, resetting and stopping leave the events alone, and so do the options.
LEMMA OthersSame ==
  ASSUME OInv, NEW s \in Alive,
         \/ Stop(s) \/ Read(s) \/ Reset(s) \/ Accum(s)
         \/ \E d \in Domains : SetDomain(s, d)
         \/ \E t \in Threads \ {Self} : Attach(s, t)
         \/ Detach(s)
  PROVE  StaysTyped /\ \E x : Same(x, sets[s]) /\ sets' = [sets EXCEPT ![s] = x]
<1> DEFINE e == sets[s]
           Goal == StaysTyped /\ \E x : Same(x, e) /\ sets' = [sets EXCEPT ![s] = x]
<1>1. StaysTyped /\ e \in Good
  BY StopTypes, ReadTypes, ResetTypes, AccumTypes, SetDomainTypes, AttachTypes, DetachTypes, AliveIs
     DEF OInv
<1>2. UNCHANGED sets => Goal
  <2>1. sets = [sets EXCEPT ![s] = e] /\ Same(e, e)
    BY TypeOKIs DEF OInv, Alive, Same
  <2> QED BY <1>1, <2>1
<1>3. \A code : Refuse(code) => Goal
  BY <1>2 DEF Refuse
<1>4. ASSUME NEW x, Same(x, e), sets' = [sets EXCEPT ![s] = x] PROVE Goal
  BY <1>1, <1>4
<1> HIDE DEF Goal
<1>5. ASSUME Stop(s) PROVE Goal
  <2> DEFINE ctl == Fetched(thr[e.master].ctx, e.ctl)
             vals == ValuesOf(e.evs, ctl.counts)
             stop == [i \in DOMAIN e.stop |-> IF i \in DOMAIN vals THEN vals[i] ELSE e.stop[i]]
             read == [e EXCEPT !.ctl = ctl, !.stop = stop]
  <2>1. \/ Refuse("ENOCMP") \/ Refuse("ENOTRUN")
        \/ sets' = [sets EXCEPT ![s] = [e EXCEPT !.ctl = ctl]]
        \/ sets' = [sets EXCEPT ![s] = Unmarked(read)]
    BY <1>5 DEF Stop
  <2> HIDE DEF ctl, vals, stop
  <2>2. Same([e EXCEPT !.ctl = ctl], e)
    BY <1>1, SameFields
  <2>3. Same(Unmarked(read), e)
    BY <1>1 DEF Same, Unmarked, Good, EventSetInfo
  <2> HIDE DEF read
  <2> QED BY <1>3, <1>4, <2>1, <2>2, <2>3
<1>6. ASSUME Read(s) PROVE Goal
  <2>1. \/ Refuse("ENOCMP") \/ UNCHANGED sets
        \/ \E ctl : sets' = [sets EXCEPT ![s] = [e EXCEPT !.ctl = ctl]]
    BY <1>6 DEF Read
  <2> QED BY <1>1, <1>2, <1>3, <1>4, <2>1, SameFields
<1>7. ASSUME Reset(s) PROVE Goal
  <2>1. \/ Refuse("ENOCMP") \/ UNCHANGED sets
        \/ \E stop : sets' = [sets EXCEPT ![s] = [e EXCEPT !.stop = stop]]
    BY <1>7 DEF Reset
  <2> QED BY <1>1, <1>2, <1>3, <1>4, <2>1, SameFields
<1>8. ASSUME Accum(s) PROVE Goal
  <2>1. \/ Refuse("ENOCMP")
        \/ \E stop : sets' = [sets EXCEPT ![s] = [e EXCEPT !.stop = stop]]
        \/ \E ctl : sets' = [sets EXCEPT ![s] = [e EXCEPT !.ctl = ctl]]
        \/ \E ctl, stop : sets' = [sets EXCEPT ![s] = [e EXCEPT !.ctl = ctl, !.stop = stop]]
    BY <1>8 DEF Accum
  <2> QED BY <1>1, <1>3, <1>4, <2>1, SameFields
<1>9. ASSUME NEW d \in Domains, SetDomain(s, d) PROVE Goal
  <2>1. \/ Refuse("ENOCMP") \/ Refuse("EISRUN") \/ UNCHANGED sets
        \/ sets' = [sets EXCEPT ![s] = [e EXCEPT !.ctl = [@ EXCEPT !.dom = d]]]
    BY <1>9 DEF SetDomain
  <2>2. Same([e EXCEPT !.ctl = [@ EXCEPT !.dom = d]], e)
    BY <1>1, SameFields
  <2> QED BY <1>2, <1>3, <1>4, <2>1, <2>2
<1>10. ASSUME NEW t \in Threads \ {Self}, Attach(s, t) PROVE Goal
  <2> DEFINE ctl == [e.ctl EXCEPT !.tid = t]
  <2>1. \/ Refuse("ENOCMP") \/ Refuse("EISRUN") \/ Refuse("EINVAL") \/ UNCHANGED sets
        \/ sets' = [sets EXCEPT ![s] = [e EXCEPT !.ctl = ctl, !.master = t,
                                                 !.state = @ \cup {"ATTACHED"}]]
        \/ sets' = [sets EXCEPT ![s] = [e EXCEPT !.ctl = ctl]]
    BY <1>10 DEF Attach
  <2> HIDE DEF ctl
  <2>2. /\ Same([e EXCEPT !.ctl = ctl], e)
        /\ Same([e EXCEPT !.ctl = ctl, !.master = t, !.state = @ \cup {"ATTACHED"}], e)
    BY <1>1, SameFields
  <2> QED BY <1>2, <1>3, <1>4, <2>1, <2>2
<1>11. ASSUME Detach(s) PROVE Goal
  <2> DEFINE x == [e EXCEPT !.ctl = [e.ctl EXCEPT !.tid = Caller], !.state = e.state \ {"ATTACHED"}]
  <2>1. \/ Refuse("ENOCMP") \/ Refuse("EISRUN") \/ Refuse("EINVAL")
        \/ sets' = [sets EXCEPT ![s].ctl.tid = Caller, ![s].state = @ \ {"ATTACHED"}]
    BY <1>11 DEF Detach
  <2>2. [sets EXCEPT ![s].ctl.tid = Caller, ![s].state = @ \ {"ATTACHED"}] = [sets EXCEPT ![s] = x]
    BY <1>1, AliveIs, TypeOKIs DEF OInv, Good, EventSetInfo
  <2>3. Same(x, e)
    BY <1>1, SameFields
  <2> HIDE DEF x
  <2> QED BY <1>3, <1>4, <2>1, <2>2, <2>3
<1> QED BY <1>5, <1>6, <1>7, <1>8, <1>9, <1>10, <1>11 DEF Goal
-----------------------------------------------------------------------------
(* The invariant, and what the application gets from it.                   *)

\* Creating and destroying an EventSet leaves the others alone.
LEMMA SlotTidy ==
  ASSUME OInv, Create \/ \E s \in Alive : Destroy(s)
  PROVE  Holds
<1>1. TypeOK'
  BY CreateTypes, DestroyTypes DEF OInv
<1>2. CASE Create
  <2>1. PICK s \in Slots : sets[s] = None /\ sets' = [sets EXCEPT ![s] = Empty] /\ ret'.code = "OK"
    <3>1. PICK s \in Slots : sets[s] = None /\ sets' = [sets EXCEPT ![s] = Empty] /\ Reply("OK")
      BY <1>2 DEF Create
    <3>2. ret'.code = "OK"
      BY <3>1 DEF Reply
    <3> QED BY <3>1, <3>2
  <2>2. Tidy(Empty)
    <3>1. Empty.evs = <<>> /\ Empty.nats = <<>>
      BY DEF Empty
    <3> QED BY <3>1, NothingTidy
  <2>3. \A r \in Slots : sets'[r] = IF r = s THEN Empty ELSE sets[r]
    BY <2>1, TypeOKIs DEF OInv
  <2>4. \A r \in Alive' : Tidy(sets'[r])
    BY <2>2, <2>3 DEF OInv, Alive
  <2> QED BY <1>1, <2>1, <2>4 DEF Holds, OInv, Undone
<1>3. ASSUME NEW s \in Alive, Destroy(s) PROVE Holds
  <2>1. CASE Refuse("EISRUN") \/ Refuse("EINVAL")
    <3>1. UNCHANGED sets
      BY <2>1 DEF Refuse
    <3> QED BY <1>1, <3>1, NoneTidy DEF StaysTyped, Alive
  <2>2. CASE sets' = [sets EXCEPT ![s] = None] /\ Reply("OK")
    <3>1. \A r \in Alive' : r \in Alive /\ sets'[r] = sets[r]
      BY <2>2, TypeOKIs DEF OInv, Alive
    <3> QED BY <1>1, <2>2, <3>1 DEF Holds, OInv, Undone, Reply
  <2> QED BY <1>3, <2>1, <2>2 DEF Destroy
<1> QED BY <1>2, <1>3

\* Every step keeps the invariant, and those that fail undo what they did.
LEMMA NextTidy ==
  ASSUME ~OpenMayFail \/ "remove" \notin Liberties, OInv, [Next]_vars
  PROVE  OInv' /\ (Next => Undone)
<1>1. CASE Create \/ \E s \in Alive : Destroy(s)
  BY <1>1, SlotTidy DEF Holds
<1>2. CASE Tick \/ UNCHANGED vars
  <2>1. UNCHANGED sets /\ TypeOK'
    BY <1>2, NextTypes DEF Tick, vars, OInv
  <2> QED BY <2>1, NoneTidy DEF StaysTyped, Alive, Holds
<1>3. ASSUME NEW s \in Alive, Call(s), ~Destroy(s)
      PROVE  OInv' /\ Undone
  <2>1. CASE Assign(s) \/ Cleanup(s)
    BY <2>1, EmptiedTidy DEF Holds
  <2>2. CASE \E c \in Codes : AddEvent(s, c) \/ RemoveEvent(s, c)
    BY <2>2, AddEventTidy, RemoveEventTidy DEF Holds
  <2>3. CASE Start(s)
    BY <2>3, StartTidy DEF Holds
  <2>4. CASE ~(Assign(s) \/ Cleanup(s) \/ Start(s)
               \/ \E c \in Codes : AddEvent(s, c) \/ RemoveEvent(s, c))
    BY <1>3, <2>4, OthersSame, SameTidy DEF Holds, Call
  <2> QED BY <2>1, <2>2, <2>3, <2>4
<1> QED BY <1>1, <1>2, <1>3 DEF Next

\* Nothing is alive after PAPI_library_init.
LEMMA InitTidy == Init => OInv
<1> SUFFICES ASSUME Init PROVE OInv
  OBVIOUS
<1>1. Alive = {}
  BY DEF Init, Alive
<1> QED BY <1>1, InitTypes DEF OInv

\* The native events of an EventSet and their owner counts are those of its event
\* list, through failed additions and compactions, when PAPI_remove_event is not
\* used or the kernel opens every group that fits.
THEOREM OwnersMatchHolds ==
  ASSUME ~OpenMayFail \/ "remove" \notin Liberties
  PROVE  Spec => []OwnersMatch
<1>1. Init => OInv
  BY InitTidy
<1>2. OInv /\ [Next]_vars => OInv'
  BY NextTidy
<1>3. OInv => OwnersMatch
  <2> SUFFICES ASSUME OInv, NEW s \in Alive
               PROVE  LET e == sets[s]
                      IN  /\ \A i \in DOMAIN e.nats : e.nats[i].owners = Users(e.evs, e.nats[i].nat)
                          /\ Mapped(e.nats) = UNION {Needs(e.evs[i].code) : i \in DOMAIN e.evs}
                          /\ Cardinality(Mapped(e.nats)) = Len(e.nats)
    BY DEF OwnersMatch
  <2>1. sets[s].evs \in Seq(EventInfo) /\ sets[s].nats \in Seq(NativeInfo)
        /\ Owned(sets[s].evs, sets[s].nats)
    BY AliveIs, GoodIs DEF OInv, Tidy
  <2> QED BY <2>1, OwnedMatches
<1> QED BY <1>1, <1>2, <1>3, PTL DEF Spec

\* A call that returns an error leaves every EventSet's events, native events and
\* owner counts as they were, under the same condition.
THEOREM FailedCallUndoneHolds ==
  ASSUME ~OpenMayFail \/ "remove" \notin Liberties
  PROVE  Spec => FailedCallUndone
<1>1. Init => OInv
  BY InitTidy
<1>2. OInv /\ [Next]_vars => OInv'
  BY NextTidy
<1>3. OInv /\ [Next]_vars
        => [ret'.code # "OK" => \A s \in Alive : Content(sets'[s]) = Content(sets[s])]_vars
  BY NextTidy DEF Undone
<1> QED BY <1>1, <1>2, <1>3, PTL DEF Spec, FailedCallUndone
=============================================================================
