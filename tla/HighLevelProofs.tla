--------------------------- MODULE HighLevelProofs ---------------------------
(***************************************************************************)
(* The high-level interface keeps to the low-level one, and between two    *)
(* calls its EventSet holds and counts what was asked for and nothing else,*)
(* for every table of events, every number of counters, every array and    *)
(* every refusal of the kernel, as long as the application attaches no     *)
(* EventSet and runs none of its own meanwhile.                            *)
(*                                                                         *)
(* RunsWhatWasAsked says nothing of the middle of a call. Stage does: how  *)
(* far the EventSet is filled, and that its group is the one open in the   *)
(* context, so that the start at the end of the call cannot fail and leave *)
(* the events behind. In the same way Sums says of every moment what       *)
(* TotalsAddUp says between two calls.                                     *)
(***************************************************************************)
EXTENDS HighLevel, EventSetsProofs

(* Sums of floats.                                                         *)

\* A set of numbers has a least one.
LEMMA NatLeast ==
  ASSUME NEW S \in SUBSET Nat, S # {}
  PROVE  \E n \in S : \A m \in S : n <= m
<1> DEFINE R == {ss \in Nat \X Nat : ss[1] < ss[2]}
<1>1. IsWellFoundedOn(R, Nat)
  BY NatLessThanWellFounded DEF OpToRel
<1>2. \E n \in S : \A m \in S : ~(<<m, n>> \in R)
  <2> HIDE DEF R
  <2> QED BY <1>1, WFMin
<1>3. \A m, n \in Nat : <<m, n>> \in R <=> m < n
  OBVIOUS
<1> HIDE DEF R
<1>4. PICK n \in S : \A m \in S : ~(<<m, n>> \in R)
  BY <1>2
<1>5. \A m \in S : ~(m < n)
  BY <1>3, <1>4
<1> QED BY <1>5

\* Whole numbers up to Exact are floats, and a sum of them that
\* is one, too, is exact; any other sum is still a whole number.
LEMMA FloatAddIs ==
  ASSUME NEW x \in Nat, NEW y \in Nat
  PROVE  FloatAdd(x, y) \in Nat /\ (x + y <= Exact => FloatAdd(x, y) = x + y)
<1> DEFINE z == x + y
           D == {Distance(f, z) : f \in Floats}
<1>1. z \in Nat /\ Exact \in Nat /\ Floats \subseteq Nat /\ 2 ^ 0 = 1 /\ 0 \in 0..Exact
  BY HighLevelAssumption DEF Floats
<1>2. ASSUME NEW k \in 0..Exact PROVE k \in Floats
  <2>1. k \in 0..(Exact * Exact)
    <3>1. \A n \in Nat : n <= n * n
      OBVIOUS
    <3>2. Exact <= Exact * Exact /\ Exact * Exact \in Nat
      BY <1>1, <3>1
    <3> QED BY <1>1, <3>2
  <2>2. k = k * 2 ^ 0
    BY <1>1
  <2>3. \E m, e \in 0..Exact : k = m * 2 ^ e
    BY <1>1, <2>2, Zenon
  <2> QED BY <2>1, <2>3, Zenon DEF Floats
<1> HIDE DEF z
<1>3. \A f \in Floats : Distance(f, z) \in Nat /\ (Distance(f, z) = 0 <=> f = z)
  BY <1>1 DEF Distance
<1>4. \E f \in Floats : \A g \in Floats : Distance(f, z) <= Distance(g, z)
  <2>1. D \in SUBSET Nat /\ D # {}
    BY <1>1, <1>2, <1>3
  <2>2. PICK d \in D : \A n \in D : d <= n
    BY <2>1, NatLeast
  <2> QED BY <2>2
<1>5. /\ FloatAdd(x, y) \in Floats
      /\ \A g \in Floats : Distance(FloatAdd(x, y), z) <= Distance(g, z)
  BY <1>4 DEF FloatAdd, z
<1>6. ASSUME z <= Exact PROVE FloatAdd(x, y) = z
  <2>1. z \in Floats /\ Distance(z, z) = 0
    BY <1>1, <1>2, <1>3, <1>6
  <2> QED BY <1>3, <1>5, <2>1
<1> QED BY <1>1, <1>5, <1>6 DEF z

-----------------------------------------------------------------------------
\* What an EventSet e and the ThreadInfo th of the caller are in the middle of
\* a call: emptied; filled and open; running. It lists the first n of codes.
Vacant(e) == ~e.bound /\ e.evs = <<>> /\ e.nats = <<>> /\ "RUNNING" \notin e.state

Filled(e, th, s) ==
  /\ e.bound /\ "RUNNING" \notin e.state /\ e.ctl.ev # <<>>
  /\ th.from = s /\ CanEnable(th.ctx)

Busy(e) == e.bound /\ "RUNNING" \in e.state /\ e.ctl.ev # <<>>

Lists(e, codes, n) == Len(e.evs) = n /\ \A i \in 1..n : e.evs[i].code = codes[i]

-----------------------------------------------------------------------------
(* What the calls of the low-level interface make of such an EventSet.     *)

\* What changes in the slot of an EventSet changes nowhere else, and a touch
\* leaves its trace in the ThreadInfo.
LEMMA SlotIs ==
  ASSUME TypeOK, NEW s \in Alive
  PROVE  /\ \A x : [sets EXCEPT ![s] = x][s] = x
         /\ \A x : \A r \in Alive \ {s} : [sets EXCEPT ![s] = x][r] = sets[r]
         /\ \A t \in Threads : \A ctx :
              /\ Touch(t, s, ctx)[t].from = s
              /\ Touch(t, s, ctx)[t].ctx = ctx
              /\ Touch(t, s, ctx)[t].running = thr[t].running
<1>1. sets \in [Slots -> Good \cup {None}] /\ s \in Slots /\ Alive \subseteq Slots
  BY TypeOKIs DEF Alive
<1>2. ASSUME NEW t \in Threads, NEW ctx
      PROVE  /\ Touch(t, s, ctx)[t].from = s
             /\ Touch(t, s, ctx)[t].ctx = ctx
             /\ Touch(t, s, ctx)[t].running = thr[t].running
  BY <1>2, TypeOKIs DEF Touch, ThreadInfo
<1> QED BY <1>1, <1>2

\* A sequence of events that gains one.
LEMMA CodesAppended ==
  ASSUME NEW evs \in Seq(EventInfo), NEW c \in Codes, NEW nats
  PROVE  /\ Len(Remap(Append(evs, Blank(c)), nats)) = Len(evs) + 1
         /\ \A i \in 1..Len(evs) : Remap(Append(evs, Blank(c)), nats)[i].code = evs[i].code
         /\ Remap(Append(evs, Blank(c)), nats)[Len(evs) + 1].code = c
         /\ Len(Append(evs, Located(Blank(c), nats))) = Len(evs) + 1
         /\ \A i \in 1..Len(evs) : Append(evs, Located(Blank(c), nats))[i].code = evs[i].code
         /\ Append(evs, Located(Blank(c), nats))[Len(evs) + 1].code = c
<1> DEFINE n == Len(evs)
           A == Append(evs, Blank(c))
<1>1. n \in Nat /\ DOMAIN A = 1..(n + 1) /\ A[n + 1] = Blank(c)
      /\ \A i \in 1..n : A[i] = evs[i] /\ evs[i] \in EventInfo
  BY LenProperties, AppendProperties, ElementOfSeq
<1>2. \A ev \in EventInfo : Located(ev, nats).code = ev.code
  BY DEF Located, EventInfo
<1>3. Located(Blank(c), nats).code = c
  BY DEF Located, Blank
<1>4. Remap(A, nats) = [i \in 1..(n + 1) |-> Located(A[i], nats)]
  BY <1>1 DEF Remap
<1>5. Len(Remap(A, nats)) = n + 1
  BY <1>1, <1>4
<1>6. /\ Len(Append(evs, Located(Blank(c), nats))) = n + 1
      /\ Append(evs, Located(Blank(c), nats))[n + 1] = Located(Blank(c), nats)
      /\ \A i \in 1..n : Append(evs, Located(Blank(c), nats))[i] = evs[i]
  BY LenProperties, AppendProperties
<1> HIDE DEF n, A
<1>7. n + 1 \in 1..(n + 1) /\ \A i \in 1..n : i \in 1..(n + 1)
  BY <1>1
<1> QED BY <1>1, <1>2, <1>3, <1>4, <1>5, <1>6, <1>7 DEF n, A

\* PAPI_add_event on an EventSet that does not run either fills it further and
\* leaves its group open in the context, or leaves it bound and stopped.
LEMMA AddFills ==
  ASSUME IInv, NEW s \in Alive, NEW c \in Codes, AddEvent(s, c),
         Vacant(sets[s]) \/ Filled(sets[s], thr[Self], s),
         NEW codes, NEW n \in Nat, Lists(sets[s], codes, n), codes[n + 1] = c
  PROVE  /\ Alive' = Alive /\ thr'[Self].running = thr[Self].running
         /\ ret'.code # "EISRUN"
         /\ ret'.code = "OK" => /\ Filled(sets'[s], thr'[Self], s)
                                /\ Lists(sets'[s], codes, n + 1)
         /\ ret'.code # "OK" => sets'[s].bound /\ "RUNNING" \notin sets'[s].state
<1> DEFINE e == IF sets[s].bound THEN sets[s] ELSE Bind(sets[s])
           nats == AddNatives(e.nats, c)
           ctl == Configured(e.ctl, nats)
<1>1. Alive' = Alive
  BY AddEventTypes DEF IInv, StaysTyped
<1>2. Self \in Threads /\ sets[s] \in Good /\ sets[s].master = Self /\ ~Has(s, "RUNNING")
  BY AliveIs, EventSetsAssumption DEF IInv, Home, Vacant, Filled, Has
<1>3. /\ e \in Good /\ e.bound /\ "RUNNING" \notin e.state /\ e.master = Self
      /\ Lists(e, codes, n)
      /\ \/ e.nats = <<>>
         \/ e = sets[s] /\ Filled(e, thr[Self], s)
  <2>1. CASE sets[s].bound
    BY <1>2, <2>1 DEF Vacant, Has
  <2>2. CASE ~sets[s].bound
    <3>1. Bind(sets[s]) \in Good /\ Bind(sets[s]).evs = <<>> /\ Bind(sets[s]).nats = <<>>
      BY <1>2, NewEventSetIs DEF Bind, Empty
    <3>2. Bind(sets[s]).evs = sets[s].evs
      BY <2>2, <3>1 DEF Vacant, Filled
    <3> QED BY <1>2, <2>2, <3>1, <3>2, BoundIs DEF Has, Lists
  <2> QED BY <2>1, <2>2
<1>4. CASE AddRefusal(e, c) # "OK"
  <2>1. sets' = [sets EXCEPT ![s] = e] /\ UNCHANGED thr /\ ret'.code = AddRefusal(e, c)
    BY <1>2, <1>4 DEF AddEvent, Reply
  <2>2. AddRefusal(e, c) \in {"OK", "ECNFLCT", "ENOEVNT"}
    BY DEF AddRefusal
  <2> HIDE DEF e
  <2>3. sets'[s] = e /\ thr' = thr
    BY <2>1, SlotIs DEF IInv
  <2>4. ret'.code # "OK" /\ ret'.code # "EISRUN"
    BY <1>4, <2>1, <2>2
  <2> QED BY <1>1, <1>3, <2>3, <2>4
<1>5. CASE AddRefusal(e, c) = "OK"
  <2> HIDE DEF e
  <2>1. /\ AddShared(s, e, c) \/ AddNew(s, e, c)
        /\ NativesOf(c) # <<>>
    BY <1>2, <1>5 DEF AddEvent, AddRefusal, e
  <2>2. /\ e.evs \in Seq(EventInfo) /\ e.nats \in Seq(NativeInfo) /\ Len(e.evs) = n
        /\ nats \in Seq(Row) /\ Len(nats) = Len(e.nats) + Len(NewNatives(e.nats, c))
        /\ \A i \in 1..n : e.evs[i].code = codes[i]
    BY <1>3, GoodIs, AddNativesIs DEF Lists
  <2>3. CASE AddShared(s, e, c)
    <3>1. /\ sets' = [sets EXCEPT ![s] = Sharing(e, c, nats)] /\ UNCHANGED thr
          /\ ret'.code = "OK" /\ NewNatives(e.nats, c) = <<>>
      BY <2>3 DEF AddShared, Reply
    <3>2. e.nats # <<>>
      BY <2>1, <2>2, <3>1, NewNativesIs, NativesOfIs DEF Needs, Mapped
    <3> DEFINE x == Sharing(e, c, nats)
    <3> HIDE DEF nats
    <3>3. /\ x.bound = e.bound /\ x.state = e.state /\ x.ctl = e.ctl
          /\ x.evs = Append(e.evs, Located(Blank(c), nats))
      BY <1>3 DEF Sharing, Good, EventSetInfo
    <3> HIDE DEF x
    <3>4. sets'[s] = x
      <4>1. sets' = [sets EXCEPT ![s] = x]
        BY <3>1 DEF x
      <4> QED BY <4>1, SlotIs DEF IInv
    <3>5. Lists(x, codes, n + 1)
      <4>1. \A i \in 1..(n + 1) : i \in 1..n \/ i = n + 1
        OBVIOUS
      <4> QED BY <2>2, <3>3, <4>1, CodesAppended DEF Lists
    <3> QED BY <1>1, <1>3, <3>1, <3>2, <3>3, <3>4, <3>5 DEF Filled
  <2>4. CASE AddNew(s, e, c)
    <3> DEFINE good == [Joined(e, c, Positioned(nats)) EXCEPT !.ctl = ctl]
    <3> DEFINE old == FailClean(Positioned(nats), c)
               bad == [e EXCEPT !.ctl = Configured(ctl, old), !.nats = Positioned(old)]
    <3>1. \/ /\ sets' = [sets EXCEPT ![s] = good] /\ thr' = Touch(Self, s, Opened(ctl))
             /\ ret'.code = "OK"
          \/ \E again :
               /\ sets' = [sets EXCEPT ![s] = bad]
               /\ thr' = Touch(Self, s, Updated(ctl, old, again))
               /\ ret'.code = "ECNFLCT"
      <4>1. e.master = Self
        BY <1>3
      <4>2. \/ /\ sets' = [sets EXCEPT ![s] = good] /\ thr' = Touch(e.master, s, Opened(ctl))
               /\ Reply("OK")
            \/ /\ \E again \in Verdicts(Configured(ctl, old).ev) :
                    /\ sets' = [sets EXCEPT ![s] = bad]
                    /\ thr' = Touch(e.master, s, Updated(ctl, old, again))
               /\ Reply("ECNFLCT")
        BY <2>4, Zenon DEF AddNew
      <4> HIDE DEF good, bad, ctl, old, nats
      <4>3. \A code : Reply(code) => ret'.code = code
        BY DEF Reply
      <4> QED BY <4>1, <4>2, <4>3
    <3>2. NewNatives(e.nats, c) # <<>> /\ nats # <<>>
      <4> HIDE DEF nats
      <4>1. NewNatives(e.nats, c) # <<>>
        BY <2>4 DEF AddNew
      <4>2. Len(NewNatives(e.nats, c)) \in Nat \ {0} /\ Len(e.nats) \in Nat
        BY <2>2, <4>1, NewNativesIs, EmptySeq, LenProperties
      <4>3. Len(nats) # 0
        <5>1. Len(nats) = Len(e.nats) + Len(NewNatives(e.nats, c))
          BY <2>2
        <5>2. \A a \in Nat, b \in Nat \ {0} : a + b # 0
          OBVIOUS
        <5> QED BY <4>2, <5>1, <5>2
      <4> QED BY <4>1, <4>3, EmptySeq
    <3>3. CASE /\ sets' = [sets EXCEPT ![s] = good] /\ thr' = Touch(Self, s, Opened(ctl))
               /\ ret'.code = "OK"
      <4>1. /\ good.bound = e.bound /\ good.state = e.state /\ good.ctl = ctl
            /\ good.evs = Remap(Append(e.evs, Blank(c)), Positioned(nats))
        <5> HIDE DEF ctl, nats
        <5> QED BY <1>3 DEF Joined, Good, EventSetInfo
      <4> HIDE DEF good
      <4>2. ctl.ev # <<>> /\ Opened(ctl).fds # <<>>
        <5>1. e.ctl \in ControlState
          BY <1>3, GoodIs
        <5> HIDE DEF nats
        <5>2. ctl = [e.ctl EXCEPT !.ev = [i \in DOMAIN nats |-> nats[i].nat]]
          BY <3>2 DEF Configured
        <5>3. ctl.ev = [i \in DOMAIN nats |-> nats[i].nat]
          BY <5>1, <5>2 DEF ControlState
        <5>4. 1 \in DOMAIN nats
          <6>1. Len(nats) \in Nat \ {0} /\ DOMAIN nats = 1..Len(nats)
            BY <2>2, <3>2, EmptySeq, LenProperties
          <6> QED BY <6>1
        <5> HIDE DEF ctl
        <5>5. 1 \in DOMAIN ctl.ev /\ 1 \in DOMAIN Opened(ctl).fds
          BY <5>3, <5>4 DEF Opened
        <5> QED BY <5>5
      <4>3. Lists(good, codes, n + 1)
        <5>1. \A i \in 1..(n + 1) : i \in 1..n \/ i = n + 1
          OBVIOUS
        <5> QED BY <2>2, <4>1, <5>1, CodesAppended DEF Lists
      <4>4. Filled(good, thr'[Self], s) /\ thr'[Self].running = thr[Self].running
        BY <1>2, <1>3, <3>3, <4>1, <4>2, SlotIs DEF Filled, CanEnable, IInv
      <4> QED BY <1>1, <3>3, <4>3, <4>4, SlotIs DEF IInv
    <3>4. ASSUME NEW again, ret'.code = "ECNFLCT", sets' = [sets EXCEPT ![s] = bad],
                 thr' = Touch(Self, s, Updated(ctl, old, again))
          PROVE  /\ Alive' = Alive /\ thr'[Self].running = thr[Self].running
                 /\ sets'[s].bound /\ "RUNNING" \notin sets'[s].state
      <4> HIDE DEF ctl, old
      <4>1. Kept(bad, e)
        BY <1>3, KeptFields
      <4> HIDE DEF bad
      <4>2. Kept(sets'[s], e)
        BY <3>4, <4>1, SlotIs DEF IInv
      <4>3. thr'[Self].running = thr[Self].running
        BY <1>2, <3>4, SlotIs DEF IInv
      <4> QED BY <1>1, <1>3, <4>2, <4>3 DEF Kept
    <3> HIDE DEF good, bad, ctl, old, nats
    <3>5. "ECNFLCT" # "OK" /\ "ECNFLCT" # "EISRUN"
      OBVIOUS
    <3> QED BY <3>1, <3>3, <3>4, <3>5
  <2> QED BY <2>1, <2>3, <2>4
<1> QED BY <1>4, <1>5

\* PAPI_cleanup_eventset empties an EventSet that is bound and does not run.
LEMMA CleanupVacates ==
  ASSUME IInv, NEW s \in Alive, Cleanup(s), sets[s].bound, "RUNNING" \notin sets[s].state
  PROVE  /\ Alive' = Alive /\ thr'[Self].running = thr[Self].running
         /\ Vacant(sets'[s])
<1> DEFINE x == [Empty EXCEPT !.state = sets[s].state, !.master = sets[s].master]
<1>1. Alive' = Alive /\ sets[s].master = Self /\ Self \in Threads
  BY CleanupTypes, EventSetsAssumption DEF IInv, StaysTyped, Home
<1>2. sets' = [sets EXCEPT ![s] = x] /\ thr' = Touch(Self, s, Closed)
  BY <1>1 DEF Cleanup, Has
<1>3. Vacant(x)
  BY DEF Vacant, Empty
<1> HIDE DEF x
<1> QED BY <1>1, <1>2, <1>3, SlotIs DEF IInv

\* PAPI_start cannot fail on an EventSet whose group is the one open in the
\* context, when nothing runs there.
LEMMA StartRunsFilled ==
  ASSUME IInv, NEW s \in Alive, Start(s), Filled(sets[s], thr[Self], s), sets[s].evs # <<>>,
         thr[Self].running = None
  PROVE  /\ Alive' = Alive /\ ret'.code = "OK" /\ thr'[Self].running = s
         /\ Busy(sets'[s]) /\ sets'[s].evs = sets[s].evs
         /\ thr'[Self].ctx.on /\ thr'[Self].ctx.n = 0
<1> DEFINE e == sets[s]
           x == Marked(e)
<1>1. /\ Alive' = Alive /\ e \in Good /\ e.master = Self /\ Self \in Threads
      /\ ~Has(s, "ATTACHED")
  BY StartTypes, AliveIs, EventSetsAssumption DEF IInv, StaysTyped, Home
<1>2. Launch(s, e, thr[Self].ctx)
  BY <1>1 DEF Start, Filled
<1>3. /\ sets' = [sets EXCEPT ![s] = x]
      /\ thr' = [Touch(Self, s, Enabled(thr[Self].ctx)) EXCEPT ![Self].running = s]
      /\ ret'.code = "OK"
  BY <1>1, <1>2 DEF Launch, Filled, Holder, Has, Reply
<1>4. x.bound = e.bound /\ "RUNNING" \in x.state /\ x.ctl = e.ctl /\ x.evs = e.evs
  BY <1>1, MarksIs DEF Marked, Good, EventSetInfo
<1>5. thr'[Self].running = s /\ thr'[Self].ctx = Enabled(thr[Self].ctx)
  BY <1>1, <1>3, TypeOKIs DEF IInv, Touch, ThreadInfo
<1>6. Enabled(thr[Self].ctx).on /\ Enabled(thr[Self].ctx).n = 0
  BY <1>1, TypeOKIs DEF IInv, Enabled, ThreadInfo, Context
<1> HIDE DEF x
<1>7. sets'[s] = x
  BY <1>3, SlotIs DEF IInv
<1> QED BY <1>1, <1>3, <1>4, <1>5, <1>6, <1>7 DEF Busy, Filled

\* The counts are all of a control state that reading changes.
LEMMA FetchedKeeps ==
  ASSUME NEW ctl \in ControlState, NEW ctx
  PROVE  Fetched(ctx, ctl).ev = ctl.ev
BY DEF Fetched, ControlState

Alike(x, e) == x.bound = e.bound /\ x.state = e.state /\ x.evs = e.evs /\ x.ctl.ev = e.ctl.ev

\* What fetching and storing counts leaves alone.
LEMMA StoredKeeps ==
  ASSUME NEW e \in Good, NEW ctx, NEW stop
  PROVE  /\ Alike([e EXCEPT !.ctl = Fetched(ctx, e.ctl)], e)
         /\ Alike([e EXCEPT !.ctl = Fetched(ctx, e.ctl), !.stop = stop], e)
         /\ Alike([e EXCEPT !.stop = stop], e)
<1> DEFINE ctl == Fetched(ctx, e.ctl)
<1>1. ctl.ev = e.ctl.ev
  BY GoodIs, FetchedKeeps
<1> HIDE DEF ctl
<1>2. /\ Alike([e EXCEPT !.ctl = ctl], e)
      /\ Alike([e EXCEPT !.ctl = ctl, !.stop = stop], e)
      /\ Alike([e EXCEPT !.stop = stop], e)
  BY <1>1 DEF Alike, Good, EventSetInfo
<1> QED BY <1>2 DEF ctl

\* PAPI_stop either leaves the EventSet running or its group open in the
\* context, ready to be started again.
LEMMA StopLeavesFilled ==
  ASSUME IInv, NEW s \in Alive, Stop(s), Busy(sets[s])
  PROVE  /\ Alive' = Alive /\ sets'[s].evs = sets[s].evs
         /\ ret'.code = "OK" => Filled(sets'[s], thr'[Self], s) /\ thr'[Self].running = None
         /\ ret'.code # "OK" => /\ Busy(sets'[s]) /\ thr'[Self].running = thr[Self].running
                                /\ thr'[Self].ctx = thr[Self].ctx
<1> DEFINE e == sets[s]
           ctx == thr[Self].ctx
           ctl == Fetched(ctx, e.ctl)
           vals == ValuesOf(e.evs, ctl.counts)
           stop == [i \in DOMAIN e.stop |-> IF i \in DOMAIN vals THEN vals[i] ELSE e.stop[i]]
           failed == [e EXCEPT !.ctl = ctl]
           read == [e EXCEPT !.ctl = ctl, !.stop = stop]
<1>1. /\ Alive' = Alive /\ e \in Good /\ e.master = Self /\ Self \in Threads
      /\ ~Has(s, "ATTACHED") /\ ctx \in Context
  BY StopTypes, AliveIs, EventSetsAssumption DEF IInv, StaysTyped, Home
<1>2. \/ /\ sets' = [sets EXCEPT ![s] = failed]
         /\ thr' = Touch(Self, s, ctx) /\ ret'.code = "ESBSTR"
      \/ /\ ~ReadFails(ctx, e.ctl)
         /\ sets' = [sets EXCEPT ![s] = Unmarked(read)]
         /\ thr' = [Touch(Self, s, Disabled(ctx)) EXCEPT ![Self].running = None]
         /\ ret'.code = "OK"
  BY <1>1 DEF Stop, Busy, Has, Reply, Answer
<1>3. CASE /\ sets' = [sets EXCEPT ![s] = failed]
           /\ thr' = Touch(Self, s, ctx) /\ ret'.code = "ESBSTR"
  <2>1. Alike(failed, e)
    BY <1>1, StoredKeeps
  <2> HIDE DEF failed, ctx
  <2>2. sets'[s] = failed /\ thr'[Self].running = thr[Self].running /\ thr'[Self].ctx = ctx
    BY <1>1, <1>3, SlotIs DEF IInv
  <2> QED BY <1>1, <1>3, <2>1, <2>2 DEF Busy, Alike, ctx
<1>4. CASE /\ ~ReadFails(ctx, e.ctl)
           /\ sets' = [sets EXCEPT ![s] = Unmarked(read)]
           /\ thr' = [Touch(Self, s, Disabled(ctx)) EXCEPT ![Self].running = None]
           /\ ret'.code = "OK"
  <2>1. Alike(read, e)
    BY <1>1, StoredKeeps
  <2>2. read \in Good
    BY <1>1, ReadingIs
  <2>3. CanEnable(Disabled(ctx))
    <3>1. Len(e.ctl.ev) \in Nat \ {0} /\ Len(ctx.fds) \in Nat /\ Len(e.ctl.ev) <= Len(ctx.fds)
      <4>1. e.ctl.ev \in Seq(Natives)
        BY <1>1, GoodIs DEF ControlState
      <4>2. Len(ctx.fds) \in Nat
        BY <1>1, LenProperties DEF Context
      <4>3. Len(e.ctl.ev) \in Nat \ {0}
        BY <4>1, EmptySeq DEF Busy
      <4>4. ~(Len(e.ctl.ev) > Len(ctx.fds))
        BY <1>4 DEF ReadFails
      <4> QED BY <4>2, <4>3, <4>4
    <3>2. Len(ctx.fds) # 0
      BY <3>1
    <3>3. Disabled(ctx).fds = ctx.fds
      BY <1>1 DEF Disabled, Context
    <3> QED BY <3>2, <3>3, EmptySeq DEF CanEnable
  <2> DEFINE x == Unmarked(read)
  <2> HIDE DEF read
  <2>4. "RUNNING" \in read.state /\ "RUNNING" \notin Xor(read.state, "RUNNING") \cup {"STOPPED"}
    BY <2>1 DEF Busy, Xor, Alike
  <2>5. x.bound = e.bound /\ "RUNNING" \notin x.state /\ x.ctl = read.ctl /\ x.evs = e.evs
    BY <2>1, <2>2, <2>4 DEF Unmarked, Good, EventSetInfo, Alike
  <2> HIDE DEF x, ctx
  <2>6. sets'[s] = x
    <3>1. sets' = [sets EXCEPT ![s] = x]
      BY <1>4 DEF x
    <3> QED BY <3>1, SlotIs DEF IInv
  <2>7. thr'[Self].running = None /\ thr'[Self].from = s /\ thr'[Self].ctx = Disabled(ctx)
    BY <1>1, <1>4, TypeOKIs DEF IInv, Touch, ThreadInfo
  <2> QED BY <1>1, <1>4, <2>1, <2>3, <2>5, <2>6, <2>7 DEF Filled, Busy, Alike
<1> QED BY <1>2, <1>3, <1>4

\* PAPI_read, PAPI_reset and PAPI_accum leave a running EventSet running.
LEMMA ReadKeepsBusy ==
  ASSUME IInv, NEW s \in Alive, Read(s) \/ Reset(s) \/ Accum(s), Busy(sets[s])
  PROVE  /\ Alive' = Alive /\ sets'[s].evs = sets[s].evs /\ Busy(sets'[s])
         /\ thr'[Self].running = thr[Self].running
         /\ thr'[Self].ctx.on = thr[Self].ctx.on
<1> DEFINE e == sets[s]
           ctx == thr[Self].ctx
           ctl == Fetched(ctx, e.ctl)
           vals == ValuesOf(e.evs, ctl.counts)
           stop == [i \in DOMAIN e.stop |-> IF i \in DOMAIN vals THEN vals[i] ELSE e.stop[i]]
<1>1. /\ Alive' = Alive /\ e \in Good /\ e.master = Self /\ Self \in Threads
      /\ Has(s, "RUNNING") /\ e.bound
  BY ReadTypes, ResetTypes, AccumTypes, AliveIs, EventSetsAssumption
     DEF IInv, StaysTyped, Home, Busy, Has
<1>2. /\ \E c : c.on = ctx.on /\ thr' = Touch(Self, s, c)
      /\ \/ sets' = sets
         \/ sets' = [sets EXCEPT ![s] = [e EXCEPT !.ctl = ctl]]
         \/ sets' = [sets EXCEPT ![s] = [e EXCEPT !.ctl = ctl, !.stop = stop]]
  <2>1. ResetCtx(ctx).on = ctx.on
    BY <1>1, TypeOKIs DEF IInv, ResetCtx, ThreadInfo, Context
  <2>2. CASE Read(s)
    BY <1>1, <2>2 DEF Read
  <2>3. CASE Reset(s)
    BY <1>1, <2>1, <2>3 DEF Reset
  <2>4. CASE Accum(s)
    BY <1>1, <2>1, <2>4 DEF Accum
  <2> QED BY <2>2, <2>3, <2>4
<1>3. Alike([e EXCEPT !.ctl = ctl], e) /\ Alike([e EXCEPT !.ctl = ctl, !.stop = stop], e)
  BY <1>1, StoredKeeps
<1> DEFINE x1 == [e EXCEPT !.ctl = ctl]
           x2 == [e EXCEPT !.ctl = ctl, !.stop = stop]
<1> HIDE DEF x1, x2
<1>4. Alike(sets'[s], e)
  <2>1. sets' = sets \/ sets' = [sets EXCEPT ![s] = x1] \/ sets' = [sets EXCEPT ![s] = x2]
    BY <1>2 DEF x1, x2
  <2>2. Alike(x1, e) /\ Alike(x2, e)
    BY <1>3 DEF x1, x2
  <2>3. Alike(e, e)
    BY DEF Alike
  <2> QED BY <2>1, <2>2, <2>3, SlotIs DEF IInv
<1>5. thr'[Self].running = thr[Self].running /\ thr'[Self].ctx.on = ctx.on
  BY <1>1, <1>2, SlotIs DEF IInv
<1> QED BY <1>1, <1>4, <1>5 DEF Alike, Busy

\* A call on one EventSet leaves the others alone.
LEMMA OthersKeep ==
  ASSUME TypeOK, NEW s \in Alive, NEW r \in Alive \ {s}, Call(s)
  PROVE  sets'[r] = sets[r]
<1>1. sets \in [Slots -> Good \cup {None}] /\ s \in Slots /\ r \in Slots /\ r # s
  BY TypeOKIs DEF Alive
<1>2. CASE Assign(s) \/ Cleanup(s) \/ Destroy(s)
  BY <1>1, <1>2 DEF Assign, Cleanup, Destroy, Refuse
<1>3. CASE \E c \in Codes : AddEvent(s, c)
  <2>1. PICK c \in Codes : AddEvent(s, c)
    BY <1>3
  <2> DEFINE e == IF sets[s].bound THEN sets[s] ELSE Bind(sets[s])
  <2>2. sets' = sets \/ sets' = [sets EXCEPT ![s] = e] \/ AddShared(s, e, c) \/ AddNew(s, e, c)
    BY <2>1 DEF AddEvent, Refuse
  <2> HIDE DEF e
  <2> QED BY <1>1, <2>2 DEF AddShared, AddNew
<1>4. CASE \E c \in Codes : RemoveEvent(s, c)
  BY <1>1, <1>4 DEF RemoveEvent, Refuse
<1>5. CASE Start(s)
  BY <1>1, <1>5 DEF Start, Launch, Refuse
<1>6. CASE Stop(s) \/ Read(s) \/ Reset(s) \/ Accum(s)
  BY <1>1, <1>6 DEF Stop, Read, Reset, Accum, Refuse
<1>7. CASE \E d \in Domains : SetDomain(s, d)
  BY <1>1, <1>7 DEF SetDomain, Refuse
<1>8. CASE (\E t \in Threads \ {Self} : Attach(s, t)) \/ Detach(s)
  BY <1>1, <1>8 DEF Attach, Detach, Refuse
<1> QED BY <1>2, <1>3, <1>4, <1>5, <1>6, <1>7, <1>8 DEF Call

-----------------------------------------------------------------------------
(* The invariant.                                                          *)

HlSet == sets[hl.EventSet]

\* The EventSet as it is between two calls.
AtRest ==
  IF hl.running = "none" THEN Vacant(HlSet)
  ELSE Busy(HlSet) /\ Lists(HlSet, meter.asked, Len(meter.asked))

Entered == {"num_counters", "start_counters", "rate", "read", "accum", "stop_counters"}
Levels == {"HL_START_COUNTERS"} \cup Rates

MeterIs ==
  meter = [asked |-> meter.asked, n |-> meter.n, left |-> meter.left] /\ meter.left \in BOOLEAN

\* hl is a record, its EventSet is there, and what runs was asked for.
Held ==
  /\ hl = [EventSet |-> hl.EventSet, num_evts |-> hl.num_evts,
           total_ins |-> hl.total_ins, running |-> hl.running]
  /\ MeterIs
  /\ Made =>
    /\ hl.EventSet \in Alive
    /\ hl.running # "none" => meter.asked \in Seq(Codes) \ {<<>>}
    /\ hl.running = "HL_START_COUNTERS" => hl.num_evts = Len(meter.asked)

\* What a call is about, and that nothing else runs during it.
Asking ==
  /\ call.events \in Seq(Codes) \ {<<>>}
  /\ call.level \in Levels
  /\ call.level # "HL_START_COUNTERS" => call.events = <<EventOf[call.level], TOT_CYC>>

Underway ==
  /\ call = [pc |-> call.pc, events |-> call.events, level |-> call.level,
             k |-> call.k, retval |-> call.retval]
  /\ Idle \/ thr[Self].running \in Own \cup {None}
  /\ call.pc = "check_state" => ~Made /\ call.retval \in Entered /\ call.k = 1
  /\ call.pc \notin {"idle", "check_state"} => Made
  /\ call.pc \in {"start_counters", "rate"} => call.k = 1
  /\ call.pc \in {"start_counters", "rate", "add", "start"} => Asking
  /\ call.pc = "check_state" /\ call.retval \in {"start_counters", "rate"} => Asking

\* How far a call has come.
Stage ==
  Made =>
    /\ call.pc \in {"idle", "reset"} \cup Entered => AtRest
    /\ call.pc = "add" =>
         /\ hl.running = "none" /\ call.k \in 1..Len(call.events)
         /\ Lists(HlSet, call.events, call.k - 1)
         /\ IF call.k = 1 THEN Vacant(HlSet) ELSE Filled(HlSet, thr[Self], hl.EventSet)
    /\ call.pc = "start" =>
         /\ hl.running = "none" /\ Filled(HlSet, thr[Self], hl.EventSet)
         /\ Lists(HlSet, call.events, Len(call.events))
    /\ call.pc \in {"abandon", "empty"} =>
         hl.running = "none" /\ HlSet.bound /\ "RUNNING" \notin HlSet.state
    /\ call.pc \in {"stop", "reset"} => hl.running # "none" /\ AtRest
    /\ call.pc = "restart" =>
         /\ hl.running # "none" /\ Filled(HlSet, thr[Self], hl.EventSet)
         /\ Lists(HlSet, meter.asked, Len(meter.asked))

HIInv == IInv /\ Held /\ Underway /\ Stage

\* Every step of the high level is a call of the low-level interface on an
\* EventSet that is alive, or none.
LEMMA StepIs ==
  ASSUME HIInv, [HNext]_hvars
  PROVE  [Next]_vars
<1>1. /\ Made => hl.EventSet \in Alive
      /\ call.pc \notin {"idle", "check_state"} => Made
  BY DEF HIInv, Held, Underway
<1>2. \A s \in Alive : (\E c \in Codes : AddEvent(s, c)) \/ Cleanup(s) \/ Start(s) \/ Stop(s)
                       \/ Read(s) \/ Reset(s) \/ Accum(s) => [Next]_vars
  BY DEF Call, Next
<1>3. CASE HighLevelCall \/ NumCounters \/ Begin \/ Rate \/ UNCHANGED hvars
  BY <1>3 DEF HighLevelCall, Enter, NumCounters, Begin, Rate, Return, hvars
<1>4. CASE CheckState \/ HTick \/ OwnCall
  BY <1>4 DEF CheckState, HTick, OwnCall, Next
<1>5. CASE Add
  <2>1. UNCHANGED vars \/ AddEvent(hl.EventSet, call.events[call.k])
    BY <1>5 DEF Add, Return
  <2>2. call.events[call.k] \in Codes
    BY <1>1, <1>5, ElementOfSeq DEF Add, HIInv, Stage, Underway, Asking
  <2> QED BY <1>1, <1>2, <1>5, <2>1, <2>2 DEF Add
<1>6. CASE Abandon \/ StartCounters \/ StopRate \/ Restart
  BY <1>1, <1>2, <1>6 DEF Abandon, Abandoned, StartCounters, StopRate, Restart
<1>7. CASE ReadCounters \/ ResetCounters \/ AccumCounters \/ StopCounters \/ EmptyCounters
  BY <1>1, <1>2, <1>7 DEF ReadCounters, ResetCounters, AccumCounters, StopCounters, EmptyCounters,
     Return
<1> QED BY <1>3, <1>4, <1>5, <1>6, <1>7 DEF HNext

Rest == Held /\ Underway /\ Stage

USE DEF Made, MeterIs

\* Before the first call there is no EventSet of the high level.
LEMMA InitRests == HInit => HIInv
<1> SUFFICES ASSUME HInit PROVE HIInv
  OBVIOUS
<1>1. IInv /\ ~Made /\ Idle
  BY InitRuns DEF HInit, Idle, NewInfo
<1>2. call = [pc |-> "idle", events |-> <<>>, level |-> "none", k |-> 0, retval |-> "OK"]
  BY DEF HInit
<1>3. Held /\ Stage
  BY <1>1 DEF Held, Stage, HInit, NewInfo
<1>4. Underway
  BY <1>1, <1>2 DEF Underway
<1> QED BY <1>1, <1>3, <1>4 DEF HIInv

\* A call that returns with the EventSet as it is between two calls.
LEMMA BackRests ==
  ASSUME Held', Made => AtRest', Made' <=> Made, NEW code, Back(code)
  PROVE  Rest'
<1>1. call' = [pc |-> "idle", events |-> <<>>, level |-> "none", k |-> 0, retval |-> code]
  BY DEF Back
<1>2. Underway'
  BY <1>1 DEF Underway, Idle
<1>3. Stage'
  BY <1>1 DEF Stage
<1> QED BY <1>2, <1>3 DEF Rest

\* A call that returns without having done anything.
LEMMA ReturnRests ==
  ASSUME HIInv, Made => AtRest, NEW code, Return(code)
  PROVE  Rest'
<1>1. UNCHANGED <<vars, hl, meter>>
  BY DEF Return
<1>2. Held' /\ (Made => AtRest')
  BY <1>1 DEF HIInv, Held, Alive, AtRest, HlSet, vars
<1> QED BY <1>1, <1>2, BackRests DEF Return

\* What a call of an entry is called with.
With(pc, level, events) ==
  /\ pc \in Entered
  /\ pc \in {"start_counters", "rate"} =>
       /\ events \in Seq(Codes) \ {<<>>} /\ level \in Levels
       /\ level # "HL_START_COUNTERS" => events = <<EventOf[level], TOT_CYC>>

\* A call begins when nothing of the application's own runs.
LEMMA EnterRests ==
  ASSUME HIInv, "overlap" \notin Liberties, HighLevelCall
  PROVE  Rest'
<1>1. PICK pc, level, events : Enter(pc, level, events) /\ With(pc, level, events)
  <2>1. With("num_counters", "none", <<>>)
    BY DEF With, Entered
  <2>2. \A events \in Asked : /\ With("start_counters", "HL_START_COUNTERS", events)
                             /\ \A pc \in {"read", "accum", "stop_counters"} : With(pc, "none", events)
    BY HighLevelAssumption DEF With, Entered, Levels
  <2>3. ASSUME NEW r \in Rates PROVE With("rate", r, <<EventOf[r], TOT_CYC>>)
    <3>1. EventOf[r] \in Codes /\ TOT_CYC \in Codes
      BY HighLevelAssumption
    <3>2. <<EventOf[r], TOT_CYC>> \in Seq(Codes) /\ <<EventOf[r], TOT_CYC>> # <<>>
      BY <3>1
    <3> QED BY <3>2 DEF With, Entered, Levels
  <2> QED BY <2>1, <2>2, <2>3, Zenon DEF HighLevelCall
<1>2. /\ Idle /\ UNCHANGED <<vars, hl, meter>>
      /\ thr[Self].running \in Own \cup {None}
      /\ call' = [pc |-> IF Made THEN pc ELSE "check_state", events |-> events,
                  level |-> level, k |-> 1, retval |-> pc]
  BY <1>1, EventSetsAssumption DEF Enter, Apart
<1>3. Held' /\ (Made => AtRest')
  BY <1>2 DEF HIInv, Held, Alive, AtRest, HlSet, vars, Stage, Idle
<1>4. Underway'
  BY <1>1, <1>2 DEF Underway, Own, vars, Entered, Asking, With
<1>5. Stage'
  BY <1>1, <1>2, <1>3 DEF Stage, Entered, With
<1> QED BY <1>3, <1>4, <1>5 DEF Rest

\* The EventSet of the high level is new and empty.
LEMMA CheckStateRests ==
  ASSUME HIInv, CheckState
  PROVE  Rest'
<1>1. PICK r \in Slots : /\ sets[r] = None /\ sets' = [sets EXCEPT ![r] = Empty]
                        /\ UNCHANGED thr
  BY DEF CheckState, Create
<1>2. Empty # None /\ sets \in [Slots -> Good \cup {None}]
  BY NewEventSetIs, TypeOKIs, EventSetsAssumption DEF HIInv, IInv, Good
<1>3. \A s \in Slots : sets[s] = None /\ sets'[s] # None <=> s = r
  BY <1>1, <1>2
<1>4. r = CHOOSE s \in Slots : sets[s] = None /\ sets'[s] # None
  BY <1>3
<1>5. /\ hl' = [EventSet |-> r, num_evts |-> 0, total_ins |-> 0, running |-> "none"]
      /\ call' = [call EXCEPT !.pc = call.retval] /\ meter' = meter
  BY <1>4 DEF CheckState, Goto, NewInfo
<1>6. /\ call.pc = "check_state" /\ call.retval \in Entered /\ ~Made /\ call.k = 1
      /\ thr[Self].running = None
      /\ call.retval \in {"start_counters", "rate"} => Asking
      /\ MeterIs
  BY DEF CheckState, HIInv, Held, Underway, Own, Idle
<1>7. Made' /\ sets'[r] = Empty /\ r \in Alive' /\ Vacant(Empty)
  BY <1>1, <1>2, <1>3, <1>5, EventSetsAssumption DEF Alive, Vacant, Empty
<1>8. Held' /\ AtRest'
  BY <1>5, <1>6, <1>7 DEF Held, AtRest, HlSet
<1>9. Underway'
  <2>1. call' = [pc |-> call.retval, events |-> call.events, level |-> call.level,
                 k |-> call.k, retval |-> call.retval]
    BY <1>5 DEF HIInv, Underway
  <2> QED BY <1>1, <1>6, <1>7, <2>1 DEF Underway, Own, Entered, Asking
<1>10. Stage'
  <2>1. call'.pc \in Entered
    BY <1>5, <1>6 DEF HIInv, Underway
  <2> QED BY <1>8, <2>1 DEF Stage, Entered
<1> QED BY <1>8, <1>9, <1>10 DEF Rest

\* The EventSet takes the next of the events asked for, or is given up.
LEMMA AddRests ==
  ASSUME HIInv, ~meter'.left, Add
  PROVE  Rest'
<1> DEFINE s == hl.EventSet
           c == call.events[call.k]
<1>1. /\ Made /\ s \in Alive /\ call.pc = "add" /\ hl.running = "none"
      /\ hl = [EventSet |-> s, num_evts |-> hl.num_evts,
               total_ins |-> hl.total_ins, running |-> hl.running]
      /\ call.k \in 1..Len(call.events) /\ Lists(HlSet, call.events, call.k - 1)
      /\ IF call.k = 1 THEN Vacant(HlSet) ELSE Filled(HlSet, thr[Self], s)
      /\ Asking /\ Len(call.events) \in Nat
      /\ MeterIs
  BY LenProperties DEF Add, HIInv, Held, Underway, Stage, Asking
<1>2. c \in Codes
  BY <1>1, ElementOfSeq DEF Asking
<1>3. call = [pc |-> call.pc, events |-> call.events, level |-> call.level,
              k |-> call.k, retval |-> call.retval]
  BY DEF HIInv, Underway
<1>4. CASE ~Available(c)
  <2>1. /\ Back("ENOEVNT") /\ UNCHANGED <<vars, hl>>
        /\ meter' = [meter EXCEPT !.left = @ \/ call.k > 1]
    BY <1>4 DEF Add
  <2>2. call.k = 1 /\ meter' = meter
    <3>1. meter'.left = (meter.left \/ call.k > 1)
      BY <1>1, <2>1
    <3>2. ~meter.left /\ ~(call.k > 1)
      BY <3>1
    <3>3. call.k = 1
      BY <1>1, <3>2
    <3>4. meter' = [asked |-> meter.asked, n |-> meter.n, left |-> FALSE]
      BY <1>1, <2>1, <3>2
    <3>5. meter = [asked |-> meter.asked, n |-> meter.n, left |-> FALSE]
      BY <1>1, <3>2
    <3> QED BY <3>3, <3>4, <3>5
  <2>3. AtRest
    BY <1>1, <2>2 DEF AtRest
  <2>4. Return("ENOEVNT")
    BY <2>1, <2>2 DEF Return
  <2> QED BY <2>3, <2>4, ReturnRests
<1>5. CASE Available(c)
  <2>1. AddEvent(s, c) /\ meter' = meter
    BY <1>5 DEF Add
  <2>2. /\ Alive' = Alive /\ thr'[Self].running = thr[Self].running
        /\ ret'.code # "EISRUN"
        /\ ret'.code = "OK" => /\ Filled(sets'[s], thr'[Self], s)
                               /\ Lists(sets'[s], call.events, call.k)
        /\ ret'.code # "OK" => sets'[s].bound /\ "RUNNING" \notin sets'[s].state
    <3> DEFINE n == call.k - 1
    <3>1. n \in Nat /\ n + 1 = call.k /\ Lists(sets[s], call.events, n)
          /\ (Vacant(sets[s]) \/ Filled(sets[s], thr[Self], s))
      BY <1>1 DEF HlSet
    <3> HIDE DEF n, s
    <3>2. s \in Alive /\ c \in Codes /\ AddEvent(s, c) /\ call.events[n + 1] = c
      BY <1>1, <1>2, <2>1, <3>1
    <3> QED BY <3>1, <3>2, AddFills DEF HIInv
  <2>3. CASE ret'.code = "OK"
    <3>1. /\ hl' = hl
          /\ call' = IF call.k < Len(call.events) THEN [call EXCEPT !.k = @ + 1]
                     ELSE [call EXCEPT !.pc = "start"]
      BY <1>5, <2>3 DEF Add
    <3>2. Held'
      BY <1>1, <2>1, <2>2, <3>1 DEF Held
    <3>3. /\ call'.pc = IF call.k < Len(call.events) THEN "add" ELSE "start"
          /\ call'.k = IF call.k < Len(call.events) THEN call.k + 1 ELSE call.k
          /\ call'.events = call.events /\ call'.level = call.level
          /\ call' = [pc |-> call'.pc, events |-> call'.events, level |-> call'.level,
                      k |-> call'.k, retval |-> call'.retval]
      BY <1>1, <1>3, <3>1
    <3>4. Underway'
      BY <1>1, <2>2, <3>1, <3>3 DEF Underway, HIInv, Idle, Own, Asking
    <3>5. Stage'
      <4>1. CASE call.k < Len(call.events)
        <5>1. /\ call'.pc = "add" /\ call'.k \in 1..Len(call'.events) /\ call'.k # 1
              /\ call'.k - 1 = call.k
          BY <1>1, <3>3, <4>1
        <5> QED BY <1>1, <2>2, <2>3, <3>1, <3>3, <5>1 DEF Stage, HlSet, Entered
      <4>2. CASE ~(call.k < Len(call.events))
        <5>1. call'.pc = "start" /\ call.k = Len(call.events)
          BY <1>1, <3>3, <4>2
        <5> QED BY <1>1, <2>2, <2>3, <3>1, <3>3, <5>1 DEF Stage, HlSet, Entered
      <4> QED BY <4>1, <4>2
    <3> QED BY <3>2, <3>4, <3>5 DEF Rest
  <2>4. CASE ret'.code # "OK"
    <3>1. hl' = Blanked /\ call' = [call EXCEPT !.pc = "abandon", !.retval = ret'.code]
      BY <1>5, <2>2, <2>4 DEF Add
    <3>2. hl' = [EventSet |-> s, num_evts |-> 0, total_ins |-> 0, running |-> "none"]
      BY <1>1, <3>1 DEF Blanked
    <3>3. Held' /\ Made'
      BY <1>1, <2>1, <2>2, <3>2 DEF Held, HIInv, IInv, TypeOK
    <3>4. /\ call'.pc = "abandon"
          /\ call' = [pc |-> call'.pc, events |-> call'.events, level |-> call'.level,
                      k |-> call'.k, retval |-> call'.retval]
      BY <1>3, <3>1
    <3>5. Underway'
      BY <1>1, <2>2, <3>2, <3>3, <3>4 DEF Underway, HIInv, Idle, Own
    <3>6. Stage'
      BY <2>2, <2>4, <3>2, <3>4 DEF Stage, HlSet, Entered
    <3> QED BY <3>3, <3>5, <3>6 DEF Rest
  <2> QED BY <2>3, <2>4
<1> QED BY <1>4, <1>5

\* What holds whenever a call is under way.
LEMMA During ==
  ASSUME HIInv, call.pc \notin {"idle", "check_state"}
  PROVE  /\ Made /\ hl.EventSet \in Alive
         /\ thr[Self].running \in {hl.EventSet, None}
         /\ "RUNNING" \notin HlSet.state => thr[Self].running = None
<1>1. Made /\ hl.EventSet \in Alive /\ thr[Self].running \in {hl.EventSet, None}
  BY DEF HIInv, Held, Underway, Own, Idle
<1>2. sets[hl.EventSet].master = Self
      /\ (Has(hl.EventSet, "RUNNING") <=> thr[sets[hl.EventSet].master].running = hl.EventSet)
  BY <1>1 DEF HIInv, IInv, Home, RunningAgrees
<1> QED BY <1>1, <1>2 DEF HlSet, Has

\* A call that goes on.
LEMMA GoesOn ==
  ASSUME HIInv, call.pc \notin {"idle", "check_state"}, hl'.EventSet = hl.EventSet,
         thr'[Self].running \in {hl.EventSet, None},
         call'.pc \in {"abandon", "stop", "restart", "reset", "empty"},
         call' = [call EXCEPT !.pc = call'.pc]
           \/ \E code : call' = [call EXCEPT !.pc = call'.pc, !.retval = code]
  PROVE  Underway'
<1>1. call = [pc |-> call.pc, events |-> call.events, level |-> call.level,
              k |-> call.k, retval |-> call.retval]
  BY DEF HIInv, Underway
<1> DEFINE pc == call'.pc
<1>2. call' = [call EXCEPT !.pc = pc] \/ \E code : call' = [call EXCEPT !.pc = pc, !.retval = code]
  OBVIOUS
<1> HIDE DEF pc
<1>3. \/ call' = [pc |-> pc, events |-> call.events, level |-> call.level,
                  k |-> call.k, retval |-> call.retval]
      \/ \E code : call' = [pc |-> pc, events |-> call.events, level |-> call.level,
                            k |-> call.k, retval |-> code]
  BY <1>1, <1>2
<1>4. /\ call' = [pc |-> call'.pc, events |-> call'.events, level |-> call'.level,
                  k |-> call'.k, retval |-> call'.retval]
  BY <1>3
<1> QED BY <1>4, During DEF Underway, Own, Idle

\* The EventSet is emptied at the end of a call.
LEMMA EmptyRests ==
  ASSUME HIInv, Abandon \/ EmptyCounters
  PROVE  Rest'
<1>1. /\ Cleanup(hl.EventSet) /\ Back(call.retval) /\ UNCHANGED <<hl, meter>>
      /\ call.pc \in {"abandon", "empty"}
  BY DEF Abandon, Abandoned, EmptyCounters
<1>2. Made /\ hl.EventSet \in Alive /\ hl.running = "none" /\ HlSet.bound
      /\ "RUNNING" \notin HlSet.state
  BY <1>1, During DEF HIInv, Stage
<1>3. Alive' = Alive /\ Vacant(sets'[hl.EventSet])
  BY <1>1, <1>2, CleanupVacates DEF HIInv, HlSet
<1>4. Held' /\ AtRest'
  BY <1>1, <1>2, <1>3 DEF HIInv, Held, AtRest, HlSet
<1> QED BY <1>1, <1>4, BackRests

\* What a call starts at its end, and the events in it.
Launched == IF call.pc = "start" THEN call.events ELSE meter.asked

\* The start at the end of a call does not fail, and counts from zero.
LEMMA StartSucceeds ==
  ASSUME HIInv, StartCounters \/ Restart
  PROVE  /\ Made /\ hl.EventSet \in Alive /\ Launched \in Seq(Codes) \ {<<>>}
         /\ Lists(HlSet, Launched, Len(Launched))
         /\ Alive' = Alive /\ ret'.code = "OK"
         /\ Busy(sets'[hl.EventSet]) /\ sets'[hl.EventSet].evs = HlSet.evs
         /\ thr'[Self].ctx.on /\ thr'[Self].ctx.n = 0
<1> DEFINE s == hl.EventSet
<1>1. Start(s) /\ call.pc \in {"start", "restart"}
  BY DEF StartCounters, Restart
<1>2. /\ Made /\ s \in Alive /\ Filled(HlSet, thr[Self], s) /\ thr[Self].running = None
      /\ Lists(HlSet, Launched, Len(Launched)) /\ Launched \in Seq(Codes) \ {<<>>}
  BY <1>1, During DEF HIInv, Stage, Held, Underway, Asking, Filled, Launched
<1>3. sets[s].evs # <<>>
  <2> HIDE DEF s
  <2>1. Len(sets[s].evs) = Len(Launched) /\ Len(Launched) # 0
    BY <1>2, EmptySeq DEF Lists, HlSet, s
  <2> QED BY <2>1
<1> HIDE DEF s
<1>4. /\ Alive' = Alive /\ ret'.code = "OK" /\ Busy(sets'[s]) /\ sets'[s].evs = sets[s].evs
      /\ thr'[Self].ctx.on /\ thr'[Self].ctx.n = 0
  BY <1>1, <1>2, <1>3, StartRunsFilled DEF HIInv, HlSet, s
<1> QED BY <1>2, <1>4 DEF HlSet, s

\* It leaves the EventSet as it is between two calls.
LEMMA StartRests ==
  ASSUME HIInv, StartCounters \/ Restart
  PROVE  Rest'
<1> DEFINE s == hl.EventSet
           codes == Launched
<1>1. Back(ret'.code) /\ call.pc \in {"start", "restart"}
  BY DEF StartCounters, Restart, Reflect
<1>2. /\ Made /\ s \in Alive /\ codes \in Seq(Codes) \ {<<>>}
      /\ Lists(HlSet, codes, Len(codes))
  BY StartSucceeds
<1>3. /\ Alive' = Alive /\ ret'.code = "OK" /\ Busy(sets'[s]) /\ sets'[s].evs = sets[s].evs
  BY StartSucceeds DEF HlSet
<1>4. /\ hl'.EventSet = s /\ hl'.running # "none" /\ meter'.asked = codes
      /\ hl' = [EventSet |-> hl'.EventSet, num_evts |-> hl'.num_evts,
                total_ins |-> hl'.total_ins, running |-> hl'.running]
      /\ MeterIs'
      /\ hl'.running = "HL_START_COUNTERS" => hl'.num_evts = Len(codes)
  <2>1. /\ hl = [EventSet |-> s, num_evts |-> hl.num_evts,
                 total_ins |-> hl.total_ins, running |-> hl.running]
        /\ MeterIs
        /\ hl.running = "HL_START_COUNTERS" => hl.num_evts = Len(meter.asked)
    BY <1>2 DEF HIInv, Held
  <2>2. CASE StartCounters
    <3>1. call.level \in Levels /\ call.pc = "start" /\ hl' = Started
          /\ meter' = [asked |-> call.events, n |-> 0, left |-> meter.left]
      BY <1>3, <2>1, <2>2 DEF StartCounters, HIInv, Underway, Asking
    <3>2. hl' = [EventSet |-> s,
                 num_evts |-> IF call.level = "HL_START_COUNTERS" THEN Len(call.events)
                              ELSE hl.num_evts,
                 total_ins |-> hl.total_ins, running |-> call.level]
      BY <2>1, <3>1 DEF Started
    <3> QED BY <2>1, <3>1, <3>2 DEF Levels, Rates, Launched
  <2>3. CASE Restart
    <3>1. hl' = hl /\ meter' = meter /\ call.pc = "restart"
      BY <1>3, <2>3 DEF Restart
    <3>2. hl.running # "none"
      BY <1>2, <3>1 DEF HIInv, Stage
    <3> QED BY <2>1, <3>1, <3>2 DEF Launched
  <2> QED BY <2>2, <2>3
<1> HIDE DEF codes
<1>5. Held'
  BY <1>2, <1>3, <1>4 DEF Held
<1>6. AtRest'
  BY <1>2, <1>3, <1>4 DEF AtRest, HlSet, Lists
<1>7. Made' <=> Made
  BY <1>2, <1>4
<1> QED BY <1>1, <1>5, <1>6, <1>7, BackRests

\* A stop gives the EventSet back filled, or running as it was.
LEMMA StopRests ==
  ASSUME HIInv, StopRate \/ StopCounters
  PROVE  Rest'
<1> DEFINE s == hl.EventSet
<1>1. call.pc \in {"stop", "stop_counters"} /\ (hl.running # "none" => AtRest)
      /\ Made /\ s \in Alive /\ thr[Self].running \in {s, None}
      /\ (call.pc = "stop" => hl.running # "none") /\ AtRest
  BY During DEF StopRate, StopCounters, HIInv, Stage, Entered
<1> DEFINE Ran == Stop(s) /\ hl.running # "none" /\ meter' = meter
           Failed == Ran /\ ret'.code # "OK" /\ Back(ret'.code) /\ hl' = hl
           Restarting == /\ Ran /\ ret'.code = "OK" /\ call.pc = "stop"
                         /\ hl' = [hl EXCEPT !.total_ins = FloatAdd(@, Value)]
                         /\ call' = [call EXCEPT !.pc = "restart"]
           Emptying == /\ Ran /\ ret'.code = "OK" /\ call.pc = "stop_counters" /\ hl' = Blanked
                       /\ call' = [call EXCEPT !.pc = "empty", !.retval = "OK"]
<1>2. (\E code : Return(code)) \/ Failed \/ Restarting \/ Emptying
  BY <1>1 DEF StopRate, StopCounters, Reflect, Goto
<1>3. Ran => /\ Busy(HlSet) /\ Lists(HlSet, meter.asked, Len(meter.asked))
             /\ Alive' = Alive /\ sets'[s].evs = HlSet.evs
             /\ ret'.code = "OK" => Filled(sets'[s], thr'[Self], s) /\ thr'[Self].running = None
             /\ ret'.code # "OK" => Busy(sets'[s])
  <2> SUFFICES ASSUME Ran
               PROVE  /\ Busy(HlSet) /\ Lists(HlSet, meter.asked, Len(meter.asked))
                      /\ Alive' = Alive /\ sets'[s].evs = HlSet.evs
                      /\ ret'.code = "OK" => /\ Filled(sets'[s], thr'[Self], s)
                                             /\ thr'[Self].running = None
                      /\ ret'.code # "OK" => Busy(sets'[s])
    OBVIOUS
  <2>1. Busy(HlSet) /\ Lists(HlSet, meter.asked, Len(meter.asked))
    BY <1>1 DEF AtRest
  <2> HIDE DEF s
  <2>2. s \in Alive /\ Stop(s) /\ Busy(sets[s]) /\ IInv
    BY <1>1, <2>1 DEF HIInv, HlSet, s
  <2> QED BY <2>1, <2>2, StopLeavesFilled DEF HlSet, s
<1>4. CASE \E code : Return(code)
  BY <1>1, <1>4, ReturnRests
<1>5. CASE Failed
  <2>1. Held' /\ AtRest'
    BY <1>1, <1>3, <1>5 DEF HIInv, Held, AtRest, HlSet, Lists
  <2> QED BY <1>1, <1>5, <2>1, BackRests
<1>6. CASE Restarting
  <2> DEFINE total == FloatAdd(hl.total_ins, Value)
  <2>1. hl' = [hl EXCEPT !.total_ins = total]
    BY <1>6
  <2> HIDE DEF total
  <2>2. hl' = [EventSet |-> s, num_evts |-> hl.num_evts, total_ins |-> total,
               running |-> hl.running]
    BY <2>1 DEF HIInv, Held
  <2>3. call'.pc = "restart" /\ call' = [call EXCEPT !.pc = call'.pc]
    BY <1>6 DEF HIInv, Underway
  <2>4. Held'
    BY <1>1, <1>3, <1>6, <2>2 DEF HIInv, Held
  <2>5. Underway'
    BY <1>1, <1>3, <1>6, <2>2, <2>3, GoesOn
  <2>6. Stage'
    BY <1>1, <1>3, <1>6, <2>2, <2>3 DEF Stage, HlSet, Lists, Entered
  <2> QED BY <2>4, <2>5, <2>6 DEF Rest
<1>7. CASE Emptying
  <2>1. hl' = [EventSet |-> s, num_evts |-> 0, total_ins |-> 0, running |-> "none"]
    BY <1>7 DEF HIInv, Held, Blanked
  <2>2. call'.pc = "empty" /\ call' = [call EXCEPT !.pc = call'.pc, !.retval = "OK"]
    BY <1>7 DEF HIInv, Underway
  <2>3. Held'
    BY <1>1, <1>3, <1>7, <2>1 DEF HIInv, Held
  <2>4. Underway'
    <3>1. call.pc \notin {"idle", "check_state"} /\ hl'.EventSet = hl.EventSet
          /\ thr'[Self].running \in {hl.EventSet, None}
      BY <1>3, <1>7, <2>1
    <3>2. \E code : call' = [call EXCEPT !.pc = call'.pc, !.retval = code]
      BY <2>2
    <3> HIDE DEF Emptying, s
    <3> QED BY <2>2, <3>1, <3>2, GoesOn
  <2>5. Stage'
    BY <1>3, <1>7, <2>1, <2>2 DEF Stage, HlSet, Entered, Filled
  <2> QED BY <2>3, <2>4, <2>5 DEF Rest
<1> QED BY <1>2, <1>4, <1>5, <1>6, <1>7

\* What is read and reset keeps running.
LEMMA ReadRests ==
  ASSUME HIInv, ReadCounters \/ ResetCounters \/ AccumCounters
  PROVE  Rest'
<1> DEFINE s == hl.EventSet
           Ran == /\ Read(s) \/ Reset(s) \/ Accum(s)
                  /\ hl.running # "none" /\ UNCHANGED <<hl, meter>>
<1>1. Made /\ s \in Alive /\ AtRest /\ thr[Self].running \in {s, None}
      /\ call.pc \in {"read", "reset", "accum"}
      /\ (call.pc = "reset" => hl.running # "none")
  BY During DEF ReadCounters, ResetCounters, AccumCounters, HIInv, Stage, Entered
<1>2. \/ \E code : Return(code)
      \/ Ran /\ Back(ret'.code)
      \/ Ran /\ call' = [call EXCEPT !.pc = "reset"]
  BY <1>1 DEF ReadCounters, ResetCounters, AccumCounters, Reflect, Goto
<1>3. CASE \E code : Return(code)
  BY <1>1, <1>3, ReturnRests
<1>4. Ran => /\ Held' /\ AtRest'
             /\ thr'[Self].running = thr[Self].running
  <2> SUFFICES ASSUME Ran PROVE /\ Held' /\ AtRest'
                                /\ thr'[Self].running = thr[Self].running
    OBVIOUS
  <2>1. Busy(HlSet) /\ Lists(HlSet, meter.asked, Len(meter.asked))
    BY <1>1 DEF AtRest
  <2>2. /\ Alive' = Alive /\ sets'[s].evs = HlSet.evs /\ Busy(sets'[s])
        /\ thr'[Self].running = thr[Self].running
    <3>1. Read(s) \/ Reset(s) \/ Accum(s)
      OBVIOUS
    <3> HIDE DEF s, Ran
    <3>2. s \in Alive /\ Busy(sets[s]) /\ IInv
      BY <1>1, <2>1 DEF HIInv, HlSet, s
    <3> QED BY <3>1, <3>2, ReadKeepsBusy DEF HlSet, s
  <2> QED BY <1>1, <2>1, <2>2 DEF HIInv, Held, AtRest, HlSet, Lists
<1>5. CASE Ran /\ Back(ret'.code)
  BY <1>1, <1>4, <1>5, BackRests
<1>6. CASE Ran /\ call' = [call EXCEPT !.pc = "reset"]
  <2>1. call'.pc = "reset" /\ call' = [call EXCEPT !.pc = call'.pc]
    BY <1>6 DEF HIInv, Underway
  <2>2. Underway'
    <3>1. call.pc \notin {"idle", "check_state"} /\ hl'.EventSet = hl.EventSet
          /\ thr'[Self].running \in {hl.EventSet, None}
      BY <1>1, <1>4, <1>6
    <3> HIDE DEF Ran, s
    <3> QED BY <2>1, <3>1, GoesOn
  <2>3. Stage'
    BY <1>4, <1>6, <2>1 DEF Stage, Entered
  <2> QED BY <1>4, <1>6, <2>2, <2>3 DEF Rest
<1> QED BY <1>2, <1>3, <1>5, <1>6

\* A call that only looks at what runs.
LEMMA LookRests ==
  ASSUME HIInv, NumCounters \/ Begin \/ Rate
  PROVE  Rest'
<1>1. Made /\ AtRest /\ call.pc \in {"num_counters", "start_counters", "rate"}
  BY During DEF NumCounters, Begin, Rate, HIInv, Stage, Entered
<1>2. CASE \E code : Return(code)
  BY <1>1, <1>2, ReturnRests
<1>3. ASSUME UNCHANGED <<vars, hl, meter>>, NEW pc \in {"add", "stop"},
             call' = [call EXCEPT !.pc = pc], call.pc \in {"start_counters", "rate"},
             pc = "add" <=> hl.running = "none"
      PROVE  Rest'
  <2>1. /\ call'.pc = pc /\ call'.k = 1 /\ call'.events = call.events
        /\ call'.level = call.level
        /\ call' = [pc |-> call'.pc, events |-> call'.events, level |-> call'.level,
                    k |-> call'.k, retval |-> call'.retval]
    BY <1>1, <1>3 DEF HIInv, Underway
  <2>2. Held' /\ AtRest'
    BY <1>1, <1>3 DEF HIInv, Held, Alive, AtRest, HlSet, vars
  <2>3. Asking /\ thr[Self].running \in Own \cup {None}
    BY <1>3 DEF HIInv, Underway, Idle
  <2>4. Underway'
    BY <1>1, <1>3, <2>1, <2>3 DEF Underway, Own, Idle, Asking, vars
  <2>5. Stage'
    <3>1. CASE pc = "stop"
      BY <1>3, <2>1, <2>2, <3>1 DEF Stage, Entered
    <3>2. CASE pc = "add"
      <4>1. Vacant(HlSet)' /\ HlSet'.evs = <<>>
        BY <1>3, <2>2, <3>2 DEF AtRest, Vacant
      <4>2. Len(call.events) \in Nat \ {0}
        BY <2>3, EmptySeq, LenProperties DEF Asking
      <4>3. call'.k \in 1..Len(call'.events) /\ call'.k - 1 = 0
        BY <2>1, <4>2
      <4>4. Lists(HlSet, call.events, call.k - 1)'
        BY <4>1, <4>3 DEF Lists
      <4> QED BY <1>3, <2>1, <3>2, <4>1, <4>3, <4>4 DEF Stage, Entered
    <3> QED BY <1>3, <3>1, <3>2
  <2> QED BY <2>2, <2>4, <2>5 DEF Rest
<1>4. \/ \E code : Return(code)
      \/ \E pc \in {"add", "stop"} :
           /\ UNCHANGED <<vars, hl, meter>> /\ call' = [call EXCEPT !.pc = pc]
           /\ call.pc \in {"start_counters", "rate"} /\ (pc = "add" <=> hl.running = "none")
  BY DEF NumCounters, Begin, Rate, Goto
<1> QED BY <1>2, <1>3, <1>4

\* The application's own calls and the time that passes leave the high level's
\* EventSet alone.
LEMMA OwnRests ==
  ASSUME HIInv, OwnCall
  PROVE  Rest'
<1>1. Idle /\ UNCHANGED <<hl, call, meter>>
  BY DEF OwnCall
<1>2. Made => sets'[hl.EventSet] = sets[hl.EventSet] /\ hl.EventSet \in Alive
  <2> SUFFICES ASSUME Made
               PROVE  sets'[hl.EventSet] = sets[hl.EventSet] /\ hl.EventSet \in Alive
    OBVIOUS
  <2>1. hl.EventSet \in Alive /\ Own = {hl.EventSet}
    BY DEF HIInv, Held, Own
  <2>2. CASE Create
    BY <2>1, <2>2, TypeOKIs DEF Create, Alive, HIInv, IInv
  <2>3. CASE \E s \in Alive \ Own : Call(s)
    BY <2>1, <2>3, OthersKeep DEF HIInv, IInv
  <2> QED BY <2>1, <2>2, <2>3 DEF OwnCall
<1>3. Held' /\ (Made => AtRest')
  BY <1>1, <1>2 DEF HIInv, Held, Alive, AtRest, HlSet, Stage, Idle
<1>4. Underway'
  BY <1>1 DEF HIInv, Underway, Idle
<1>5. Stage'
  BY <1>1, <1>3 DEF Stage, Idle
<1> QED BY <1>3, <1>4, <1>5 DEF Rest

LEMMA TickRests ==
  ASSUME HIInv, HTick
  PROVE  Rest'
<1>1. /\ UNCHANGED <<sets, hl, call>> /\ meter'.asked = meter.asked
      /\ MeterIs'
  BY DEF HTick, Tick, HIInv, Held
<1>2. /\ thr'[Self].running = thr[Self].running /\ thr'[Self].from = thr[Self].from
      /\ CanEnable(thr'[Self].ctx) <=> CanEnable(thr[Self].ctx)
  <2>1. Self \in Threads /\ thr[Self] \in ThreadInfo
    BY TypeOKIs, EventSetsAssumption DEF HIInv, IInv
  <2>2. thr[Self].ctx \in Context
    BY <2>1 DEF ThreadInfo
  <2>3. thr'[Self] = thr[Self] \/ thr'[Self] = [thr[Self] EXCEPT !.ctx.n = @ + 1]
    BY <2>1 DEF HTick, Tick
  <2> QED BY <2>1, <2>2, <2>3 DEF ThreadInfo, Context, CanEnable
<1>3. Held'
  BY <1>1 DEF HIInv, Held, Alive
<1>4. Underway'
  BY <1>1, <1>2 DEF HIInv, Underway, Idle, Own, Asking
<1>5. Stage'
  BY <1>1, <1>2 DEF HIInv, Stage, AtRest, HlSet, Filled
<1> QED BY <1>3, <1>4, <1>5 DEF Rest

-----------------------------------------------------------------------------
\* Every step keeps the invariant, but one that leaves an event behind.
LEMMA HNextRests ==
  ASSUME "attach" \notin Liberties, "overlap" \notin Liberties,
         HIInv, [HNext]_hvars, ~meter'.left
  PROVE  HIInv'
<1>1. IInv'
  BY StepIs, NextRuns DEF HIInv
<1>2. Rest'
  <2>1. CASE UNCHANGED hvars
    BY <2>1 DEF hvars, vars, HIInv, Rest, Held, Alive, Underway, Own, Idle, Asking, Stage, AtRest,
       HlSet, Filled
  <2>2. CASE HighLevelCall \/ CheckState \/ NumCounters \/ Begin \/ Rate
    BY <2>2, EnterRests, CheckStateRests, LookRests
  <2>3. CASE Add \/ Abandon \/ EmptyCounters \/ StartCounters \/ Restart
    BY <2>3, AddRests, EmptyRests, StartRests
  <2>4. CASE StopRate \/ StopCounters \/ ReadCounters \/ ResetCounters \/ AccumCounters
    BY <2>4, StopRests, ReadRests
  <2>5. CASE OwnCall \/ HTick
    BY <2>5, OwnRests, TickRests
  <2> QED BY <2>1, <2>2, <2>3, <2>4, <2>5 DEF HNext
<1> QED BY <1>1, <1>2 DEF HIInv, Rest

-----------------------------------------------------------------------------
(* The totals of the rate calls. In the middle of a call the total is all  *)
(* that was counted, or all but what the EventSet still counts.            *)

NotYet == IF "RUNNING" \in HlSet.state THEN thr[Self].ctx.n ELSE 0

Sums ==
  /\ hl.num_evts \in Nat /\ hl.total_ins \in Nat /\ meter.n \in Nat
  /\ hl.running \in {"none"} \cup Levels
  /\ hl.running = "none" => hl.total_ins = 0
  /\ call.pc = "reset" => hl.running = "HL_START_COUNTERS"
  /\ Made /\ "RUNNING" \in HlSet.state => thr[Self].ctx.on
  /\ Made /\ hl.running \in Rates /\ meter.n <= Exact => hl.total_ins + NotYet = meter.n

\* A step after which hl, meter and what the EventSet counts are as before.
LEMMA SumsStay ==
  ASSUME Sums, UNCHANGED <<hl, meter>>,
         call'.pc = "reset" => call.pc = "reset" \/ hl.running = "HL_START_COUNTERS",
         Made => /\ HlSet'.state = HlSet.state
                 /\ "RUNNING" \in HlSet.state => thr'[Self].ctx = thr[Self].ctx
  PROVE  Sums'
BY DEF Sums, NotYet

\* A step after which nothing runs.
LEMMA SumsEnd ==
  ASSUME HIInv', hl'.running = "none", hl'.total_ins = 0,
         hl'.num_evts \in Nat, meter'.n \in Nat,
         call'.pc \in {"idle", "add", "start", "abandon", "empty"} \cup Entered
  PROVE  Sums'
<1>1. ASSUME Made' PROVE "RUNNING" \notin HlSet'.state
  BY <1>1 DEF HIInv, Stage, AtRest, Vacant, Filled
<1>2. call'.pc # "reset"
  BY DEF Entered
<1> QED BY <1>1, <1>2 DEF Sums, Rates

\* Calls that return or go on without having done anything.
LEMMA LookSums ==
  ASSUME HIInv, Sums, HighLevelCall \/ NumCounters \/ Begin \/ Rate \/ UNCHANGED hvars
  PROVE  Sums'
<1>1. UNCHANGED <<vars, hl, meter>> /\ (call'.pc = "reset" => call.pc = "reset")
  <2>1. CASE HighLevelCall
    <3>1. \A pc \in Entered : \A level, events :
            Enter(pc, level, events) => UNCHANGED <<vars, hl, meter>> /\ call'.pc # "reset"
      BY DEF Enter, Entered
    <3> QED BY <2>1, <3>1, Zenon DEF HighLevelCall, Entered
  <2>2. CASE NumCounters \/ Begin \/ Rate
    <3>1. \/ \E code : Return(code)
          \/ /\ UNCHANGED <<vars, hl, meter>>
             /\ \E pc \in {"add", "stop"} : call' = [call EXCEPT !.pc = pc]
      BY <2>2 DEF NumCounters, Begin, Rate, Goto
    <3> QED BY <3>1 DEF Return, Back, HIInv, Underway
  <2> QED BY <2>1, <2>2 DEF hvars
<1> QED BY <1>1, SumsStay DEF vars, HlSet

\* The EventSet is made, filled or emptied.
LEMMA FillSums ==
  ASSUME HIInv, Sums, HIInv', CheckState \/ Add \/ Abandon \/ EmptyCounters
  PROVE  Sums'
<1>1. CASE CheckState
  <2>1. /\ hl'.running = "none" /\ hl'.total_ins = 0 /\ hl'.num_evts = 0 /\ meter' = meter
        /\ call'.pc \in Entered
    BY <1>1 DEF CheckState, NewInfo, Goto, HIInv, Underway
  <2> QED BY <2>1, SumsEnd DEF Sums
<1>2. CASE Add
  <2>1. call.pc = "add" /\ Made /\ hl.running = "none"
    BY <1>2 DEF Add, HIInv, Stage, Underway
  <2>2. /\ hl' = hl \/ hl' = Blanked
        /\ meter'.n = meter.n
        /\ call'.pc \in {"idle", "add", "start", "abandon"}
    <3>1. /\ hl' = hl \/ hl' = Blanked
          /\ meter'.n = meter.n
          /\ \/ \E code : Back(code)
             \/ call' = [call EXCEPT !.k = @ + 1]
             \/ call' = [call EXCEPT !.pc = "start"]
             \/ \E code : call' = [call EXCEPT !.pc = "abandon", !.retval = code]
      BY <1>2 DEF Add, Reflect, HIInv, Held
    <3>2. call = [pc |-> "add", events |-> call.events, level |-> call.level,
                  k |-> call.k, retval |-> call.retval]
      BY <2>1 DEF HIInv, Underway
    <3>3. call'.pc \in {"idle", "add", "start", "abandon"}
      <4>1. CASE \E code : Back(code)
        BY <4>1 DEF Back
      <4>2. CASE call' = [call EXCEPT !.k = @ + 1]
        BY <3>2, <4>2
      <4>3. CASE call' = [call EXCEPT !.pc = "start"]
        BY <3>2, <4>3
      <4>4. CASE \E code : call' = [call EXCEPT !.pc = "abandon", !.retval = code]
        BY <3>2, <4>4
      <4> QED BY <3>1, <4>1, <4>2, <4>3, <4>4
    <3> QED BY <3>1, <3>3
  <2>3. hl'.running = "none" /\ hl'.total_ins = 0 /\ hl'.num_evts \in Nat
    BY <2>1, <2>2 DEF Blanked, Sums, HIInv, Held
  <2> QED BY <2>2, <2>3, SumsEnd DEF Sums
<1>3. CASE Abandon \/ EmptyCounters
  <2>1. /\ call.pc \in {"abandon", "empty"} /\ Made /\ UNCHANGED <<hl, meter>>
        /\ call'.pc = "idle"
    BY <1>3 DEF Abandon, Abandoned, EmptyCounters, Back, HIInv, Underway
  <2>2. hl.running = "none"
    BY <2>1 DEF HIInv, Stage
  <2> QED BY <2>1, <2>2, SumsEnd DEF Sums
<1> QED BY <1>1, <1>2, <1>3

\* A start counts from zero what the total does not have yet.
LEMMA StartSums ==
  ASSUME HIInv, Sums, StartCounters \/ Restart
  PROVE  Sums'
<1>1. /\ Made /\ ret'.code = "OK" /\ "RUNNING" \in sets'[hl.EventSet].state
      /\ thr'[Self].ctx.on /\ thr'[Self].ctx.n = 0
  BY StartSucceeds DEF Busy
<1>2. call'.pc = "idle" /\ hl'.EventSet = hl.EventSet
  <2>1. Back(ret'.code) /\ (hl' = hl \/ hl' = Started)
    BY <1>1 DEF StartCounters, Restart, Reflect
  <2> QED BY <2>1 DEF Back, Started, HIInv, Held
<1>3. "RUNNING" \in HlSet'.state /\ NotYet' = 0
  BY <1>1, <1>2 DEF HlSet, NotYet
<1>4. CASE StartCounters
  <2>1. /\ call.pc = "start" /\ Asking /\ hl.running = "none"
        /\ hl' = Started /\ meter'.n = 0
    BY <1>1, <1>4 DEF StartCounters, HIInv, Underway, Stage, Held
  <2>2. /\ hl'.total_ins = 0 /\ hl'.running \in Levels /\ hl'.num_evts \in Nat
    <3>1. Len(call.events) \in Nat
      BY <2>1, LenProperties DEF Asking
    <3> QED BY <2>1, <3>1 DEF Started, Sums, HIInv, Held, Asking
  <2>3. hl'.running # "none"
    BY <2>2 DEF Levels, Rates
  <2> QED BY <1>1, <1>2, <1>3, <2>1, <2>2, <2>3 DEF Sums
<1>5. CASE Restart
  <2>1. call.pc = "restart" /\ UNCHANGED <<hl, meter>>
    BY <1>1, <1>5 DEF Restart
  <2>2. "RUNNING" \notin HlSet.state
    BY <1>1, <2>1 DEF HIInv, Stage, Filled
  <2>3. NotYet = 0
    BY <2>2 DEF NotYet
  <2> QED BY <1>1, <1>2, <1>3, <2>1, <2>3 DEF Sums
<1> QED BY <1>4, <1>5

\* A stop moves what was counted to the total.
LEMMA StopSums ==
  ASSUME HIInv, Sums, HIInv', StopRate \/ StopCounters
  PROVE  Sums'
<1> DEFINE s == hl.EventSet
           n == thr[Self].ctx.n
<1>1. /\ Made /\ s \in Alive /\ AtRest /\ call.pc \in {"stop", "stop_counters"}
      /\ (call.pc = "stop" => hl.running # "none")
  BY During DEF StopRate, StopCounters, HIInv, Stage, Entered
<1>2. Value = n /\ n \in Nat
  BY <1>1, AliveIs DEF Value, HIInv, IInv, Home, Context
<1>3. ASSUME Stop(s), hl.running # "none"
      PROVE  /\ "RUNNING" \in HlSet.state
             /\ ret'.code = "OK" => "RUNNING" \notin sets'[s].state
             /\ ret'.code # "OK" => "RUNNING" \in sets'[s].state /\ thr'[Self].ctx = thr[Self].ctx
  <2> HIDE DEF s
  <2>1. s \in Alive /\ Busy(sets[s]) /\ Stop(s) /\ IInv
    BY <1>1, <1>3 DEF AtRest, HlSet, HIInv, s
  <2> QED BY <2>1, StopLeavesFilled DEF Busy, Filled, HlSet, s
<1>4. CASE \E code : Return(code)
  BY <1>4, SumsStay DEF Return, Back, vars, HlSet
<1>5. CASE Stop(s) /\ hl.running # "none" /\ ret'.code # "OK" /\ Back(ret'.code)
           /\ UNCHANGED <<hl, meter>>
  <2>1. /\ "RUNNING" \in HlSet.state /\ "RUNNING" \in HlSet'.state
        /\ thr'[Self].ctx = thr[Self].ctx /\ call'.pc = "idle"
    BY <1>3, <1>5 DEF HlSet, Back
  <2> QED BY <1>5, <2>1 DEF Sums, NotYet
<1>6. CASE /\ Stop(s) /\ hl.running # "none" /\ ret'.code = "OK" /\ call.pc = "stop"
           /\ hl' = [hl EXCEPT !.total_ins = FloatAdd(@, Value)]
           /\ call' = [call EXCEPT !.pc = "restart"] /\ meter' = meter
  <2>1. /\ FloatAdd(hl.total_ins, n) \in Nat
        /\ hl.total_ins + n <= Exact => FloatAdd(hl.total_ins, n) = hl.total_ins + n
    BY <1>2, FloatAddIs DEF Sums
  <2> DEFINE total == FloatAdd(hl.total_ins, n)
  <2>2. hl' = [hl EXCEPT !.total_ins = total]
    BY <1>2, <1>6
  <2> HIDE DEF total
  <2>3. /\ hl'.EventSet = s /\ hl'.num_evts = hl.num_evts /\ hl'.total_ins = total
        /\ hl'.running = hl.running /\ call'.pc = "restart"
    BY <1>6, <2>2 DEF HIInv, Held, Underway
  <2>4. "RUNNING" \in HlSet.state /\ "RUNNING" \notin HlSet'.state
    BY <1>3, <1>6, <2>3 DEF HlSet
  <2>5. NotYet = n /\ NotYet' = 0
    BY <2>4 DEF NotYet
  <2>6. ASSUME hl.running \in Rates, meter.n <= Exact PROVE total = meter.n
    BY <1>1, <2>1, <2>5, <2>6 DEF Sums, total
  <2> QED BY <1>1, <1>6, <2>1, <2>3, <2>4, <2>5, <2>6 DEF Sums, total
<1>7. CASE hl' = Blanked /\ call' = [call EXCEPT !.pc = "empty", !.retval = "OK"] /\ meter' = meter
  <2>1. hl'.running = "none" /\ hl'.total_ins = 0 /\ hl'.num_evts = 0 /\ call'.pc = "empty"
    BY <1>7 DEF Blanked, HIInv, Held, Underway
  <2> QED BY <1>7, <2>1, SumsEnd DEF Sums
<1> QED BY <1>1, <1>4, <1>5, <1>6, <1>7 DEF StopRate, StopCounters, Reflect, Goto

\* Reading, adding up and setting to zero are for PAPI_start_counters, which
\* keeps no total.
LEMMA ReadSums ==
  ASSUME HIInv, Sums, ReadCounters \/ ResetCounters \/ AccumCounters
  PROVE  Sums'
<1> DEFINE s == hl.EventSet
<1>1. /\ Made /\ s \in Alive /\ AtRest /\ call.pc \in {"read", "reset", "accum"}
  BY During DEF ReadCounters, ResetCounters, AccumCounters, HIInv, Stage, Entered
<1>2. CASE \E code : Return(code)
  BY <1>2, SumsStay DEF Return, Back, vars, HlSet
<1>3. CASE (Read(s) \/ Reset(s) \/ Accum(s)) /\ hl.running = "HL_START_COUNTERS"
           /\ UNCHANGED <<hl, meter>>
  <2>1. /\ "RUNNING" \in HlSet.state /\ "RUNNING" \in sets'[s].state
        /\ thr'[Self].ctx.on = thr[Self].ctx.on
    <3> HIDE DEF s
    <3>1. s \in Alive /\ Busy(sets[s]) /\ (Read(s) \/ Reset(s) \/ Accum(s)) /\ IInv
      BY <1>1, <1>3 DEF AtRest, HlSet, HIInv, s
    <3> QED BY <3>1, ReadKeepsBusy DEF Busy, HlSet, s
  <2>2. hl.running \notin Rates /\ hl.running # "none"
    BY <1>3 DEF Rates
  <2> QED BY <1>1, <1>3, <2>1, <2>2 DEF Sums, HlSet
<1> QED BY <1>1, <1>2, <1>3 DEF ReadCounters, ResetCounters, AccumCounters, Reflect, Sums

\* While the EventSet runs the application can do nothing to the context, and
\* both the context and the time asked of it go on together.
LEMMA OthersQuiet ==
  ASSUME IInv, "attach" \notin Liberties, "overlap" \notin Liberties,
         NEW s \in Alive, "RUNNING" \in sets[s].state, NEW r \in Alive \ {s}, Call(r)
  PROVE  thr' = thr
<1>1. /\ sets[s].master = Self /\ sets[r].master = Self /\ thr[Self].running = s
      /\ s # None /\ "RUNNING" \notin sets[r].state
  BY AliveIs, EventSetsAssumption DEF IInv, Home, RunningAgrees, Has
<1>2. ~Quiet(r)
  BY <1>1 DEF Quiet
<1>3. Assign(r) \/ Destroy(r) \/ Start(r) \/ Stop(r) \/ Read(r) \/ Reset(r) \/ Accum(r)
  BY <1>2 DEF Call, Cleanup, AddEvent, RemoveEvent, SetDomain, Attach, Detach
<1> QED BY <1>1, <1>3 DEF Assign, Destroy, Start, Stop, Read, Reset, Accum, Refuse, Has

LEMMA OwnSums ==
  ASSUME HIInv, Sums, "attach" \notin Liberties, "overlap" \notin Liberties, OwnCall \/ HTick
  PROVE  Sums'
<1>1. CASE OwnCall
  <2>1. Idle /\ UNCHANGED <<hl, call, meter>>
    BY <1>1 DEF OwnCall
  <2>2. ASSUME Made
        PROVE  /\ HlSet' = HlSet
               /\ "RUNNING" \in HlSet.state => thr' = thr
    <3>1. hl.EventSet \in Alive /\ Own = {hl.EventSet}
      BY <2>2 DEF HIInv, Held, Own
    <3>2. CASE Create
      BY <2>1, <3>1, <3>2, TypeOKIs DEF Create, Alive, HIInv, IInv, HlSet
    <3>3. CASE \E s \in Alive \ Own : Call(s)
      BY <2>1, <3>1, <3>3, OthersKeep, OthersQuiet DEF HIInv, IInv, HlSet
    <3> QED BY <1>1, <3>2, <3>3 DEF OwnCall
  <2> QED BY <2>1, <2>2, SumsStay DEF Idle
<1>2. CASE HTick
  <2>1. /\ UNCHANGED <<sets, hl, call>> /\ HlSet' = HlSet
    BY <1>2 DEF HTick, Tick, HlSet
  <2>2. Self \in Threads /\ thr[Self].ctx.on \in BOOLEAN /\ thr[Self].ctx.n \in Nat
    BY TypeOKIs, EventSetsAssumption DEF HIInv, IInv, ThreadInfo, Context
  <2>3. /\ thr'[Self].ctx.on = thr[Self].ctx.on
        /\ thr[Self].ctx.on => thr'[Self].ctx.n = thr[Self].ctx.n + 1
    <3>1. thr[Self] \in ThreadInfo /\ thr[Self].ctx \in Context
      BY <2>2, TypeOKIs DEF HIInv, IInv, ThreadInfo
    <3>2. thr'[Self] = IF thr[Self].ctx.on THEN [thr[Self] EXCEPT !.ctx.n = @ + 1] ELSE thr[Self]
      BY <1>2, <2>2 DEF HTick, Tick, Counting
    <3> QED BY <3>1, <3>2 DEF ThreadInfo, Context
  <2>4. /\ Made /\ "RUNNING" \in HlSet.state => meter'.n = meter.n + 1
        /\ meter'.n \in Nat
        /\ ~(Made /\ "RUNNING" \in HlSet.state) => meter'.n = meter.n
    BY <1>2 DEF HTick, Own, Has, HlSet, Sums, HIInv, Held
  <2>5. CASE Made /\ "RUNNING" \in HlSet.state
    <3>1. NotYet' = NotYet + 1 /\ NotYet \in Nat /\ meter'.n = meter.n + 1 /\ thr'[Self].ctx.on
      BY <2>1, <2>2, <2>3, <2>4, <2>5 DEF NotYet, Sums
    <3>2. hl.total_ins \in Nat /\ meter.n \in Nat
      BY DEF Sums
    <3>3. ASSUME hl.running \in Rates, meter'.n <= Exact PROVE hl.total_ins + NotYet' = meter'.n
      <4>1. meter.n <= Exact
        BY <3>1, <3>2, <3>3, HighLevelAssumption
      <4>2. hl.total_ins + NotYet = meter.n
        BY <2>5, <3>3, <4>1 DEF Sums
      <4> QED BY <3>1, <3>2, <4>2
    <3> QED BY <2>1, <2>4, <2>5, <3>1, <3>3 DEF Sums
  <2>6. CASE ~(Made /\ "RUNNING" \in HlSet.state)
    <3>1. meter'.n = meter.n /\ (Made => NotYet' = 0 /\ NotYet = 0)
      BY <2>1, <2>4, <2>6 DEF NotYet
    <3> QED BY <2>1, <2>6, <3>1 DEF Sums
  <2> QED BY <2>5, <2>6
<1> QED BY <1>1, <1>2

TInv == HIInv /\ Sums

LEMMA InitSums == HInit => TInv
<1> SUFFICES ASSUME HInit PROVE Sums
  BY InitRests DEF TInv
<1>1. ~Made /\ hl.num_evts = 0 /\ hl.total_ins = 0 /\ hl.running = "none" /\ meter.n = 0
      /\ call.pc # "reset"
  BY DEF HInit, NewInfo
<1> QED BY <1>1 DEF Sums

\* Every step keeps it.
LEMMA HNextSums ==
  ASSUME "attach" \notin Liberties, "overlap" \notin Liberties,
         TInv, [HNext]_hvars, ~meter'.left
  PROVE  TInv'
<1>1. HIInv'
  BY HNextRests DEF TInv
<1>2. CASE HighLevelCall \/ NumCounters \/ Begin \/ Rate \/ UNCHANGED hvars
  BY <1>1, <1>2, LookSums DEF TInv
<1>3. CASE CheckState \/ Add \/ Abandon \/ EmptyCounters
  BY <1>1, <1>3, FillSums DEF TInv
<1>4. CASE StartCounters \/ Restart
  BY <1>1, <1>4, StartSums DEF TInv
<1>5. CASE StopRate \/ StopCounters \/ ReadCounters \/ ResetCounters \/ AccumCounters
  BY <1>1, <1>5, StopSums, ReadSums DEF TInv
<1>6. CASE OwnCall \/ HTick
  BY <1>1, <1>6, OwnSums DEF TInv
<1> QED BY <1>2, <1>3, <1>4, <1>5, <1>6 DEF HNext

\* What rests between two calls is what was asked for.
LEMMA RestRuns == HIInv => RunsWhatWasAsked
<1> SUFFICES ASSUME HIInv, Idle, Made
             PROVE  /\ hl.running # "none" <=> Has(hl.EventSet, "RUNNING")
                    /\ [i \in DOMAIN HlSet.evs |-> HlSet.evs[i].code] =
                         IF hl.running = "none" THEN <<>> ELSE meter.asked
                    /\ hl.running = "HL_START_COUNTERS" => hl.num_evts = Len(meter.asked)
  BY DEF RunsWhatWasAsked, HlSet
<1>1. AtRest /\ hl.EventSet \in Alive
      /\ (hl.running = "HL_START_COUNTERS" => hl.num_evts = Len(meter.asked))
      /\ (hl.running # "none" => meter.asked \in Seq(Codes))
  BY DEF HIInv, Stage, Held, Idle
<1>2. CASE hl.running = "none"
  BY <1>1, <1>2 DEF AtRest, Vacant, Has, HlSet
<1>3. CASE hl.running # "none"
  <2>1. Busy(HlSet) /\ Len(HlSet.evs) = Len(meter.asked)
        /\ \A i \in 1..Len(meter.asked) : HlSet.evs[i].code = meter.asked[i]
    BY <1>1, <1>3 DEF AtRest, Lists
  <2>2. HlSet.evs \in Seq(EventInfo)
    BY <1>1, AliveIs, GoodIs DEF HIInv, IInv, HlSet
  <2>3. DOMAIN HlSet.evs = 1..Len(meter.asked)
    BY <2>1, <2>2, LenProperties
  <2>4. meter.asked = [i \in 1..Len(meter.asked) |-> meter.asked[i]]
    BY <1>1, <1>3
  <2>5. [i \in DOMAIN HlSet.evs |-> HlSet.evs[i].code] = meter.asked
    BY <2>1, <2>3, <2>4
  <2> QED BY <1>1, <1>3, <2>1, <2>5 DEF Busy, Has, HlSet
<1> QED BY <1>2, <1>3

-----------------------------------------------------------------------------
(* Whatever the step is, what was left behind stays noted. A rate call     *)
(* leaves its first event only where there is no PAPI_TOT_CYC.             *)

Unspoilt == MeterIs /\ (meter.left \/ TInv)

LEMMA InitKept == HInit => Unspoilt
BY InitSums DEF Unspoilt, HInit

LEMMA MeterSteps ==
  ASSUME MeterIs, [HNext]_hvars
  PROVE  /\ MeterIs' /\ (meter.left => meter'.left)
         /\ meter'.left /\ ~meter.left => Add /\ ~Available(call.events[call.k]) /\ call.k > 1
<1>1. CASE HighLevelCall
  BY <1>1 DEF HighLevelCall, Enter
<1>2. CASE CheckState \/ NumCounters \/ Begin \/ Abandon \/ Rate \/ StopRate \/ Restart
  BY <1>2 DEF CheckState, NumCounters, Begin, Abandon, Abandoned, Rate, StopRate, Restart, Return
<1>3. CASE ReadCounters \/ ResetCounters \/ AccumCounters \/ StopCounters \/ EmptyCounters
  BY <1>3 DEF ReadCounters, ResetCounters, AccumCounters, StopCounters, EmptyCounters, Return
<1>4. CASE OwnCall \/ UNCHANGED hvars
  BY <1>4 DEF OwnCall, hvars
<1>5. CASE HTick
  BY <1>5 DEF HTick
<1>6. CASE StartCounters
  BY <1>6 DEF StartCounters
<1>7. CASE Add
  BY <1>7 DEF Add
<1> QED BY <1>1, <1>2, <1>3, <1>4, <1>5, <1>6, <1>7 DEF HNext

LEMMA HNextKept ==
  ASSUME "attach" \notin Liberties, "overlap" \notin Liberties, Unspoilt, [HNext]_hvars
  PROVE  Unspoilt'
<1>1. MeterIs' /\ (meter.left => meter'.left)
  BY MeterSteps DEF Unspoilt
<1>2. CASE meter'.left
  BY <1>1, <1>2 DEF Unspoilt
<1>3. CASE ~meter'.left
  BY <1>1, <1>3, HNextSums DEF Unspoilt
<1> QED BY <1>2, <1>3

\* Where there is PAPI_TOT_CYC nothing is left.
LEMMA HNextAll ==
  ASSUME "attach" \notin Liberties, "overlap" \notin Liberties, NativesOf(TOT_CYC) # <<>>,
         TInv, ~meter.left, [HNext]_hvars
  PROVE  TInv' /\ ~meter'.left
<1>1. MeterIs
  BY DEF TInv, HIInv, Held
<1>2. ASSUME meter'.left PROVE FALSE
  <2>1. Add /\ ~Available(call.events[call.k]) /\ call.k > 1
    BY <1>1, <1>2, MeterSteps
  <2>2. Asking /\ call.k \in 1..Len(call.events)
    BY <2>1 DEF Add, TInv, HIInv, Underway, Stage
  <2>3. call.level \in Rates /\ call.events[call.k] # TOT_CYC
    BY <2>1, <2>2 DEF Available, Asking, Levels
  <2>4. call.events = <<EventOf[call.level], TOT_CYC>>
    BY <2>2, <2>3 DEF Asking, Rates
  <2> QED BY <2>1, <2>2, <2>3, <2>4
<1> QED BY <1>2, HNextSums

All == TInv /\ ~meter.left

\* The high level does to the EventSets only what the application could do to
\* them through the low-level interface, one call at a time, and so keeps what
\* that interface promises: here, that the flags of the EventSets and the
\* running_eventset of the ThreadInfo agree. That is where there is PAPI_TOT_CYC.
THEOREM HighLevelIsLowLevel ==
  ASSUME "attach" \notin Liberties, "overlap" \notin Liberties, NativesOf(TOT_CYC) # <<>>
  PROVE  HSpec => Spec /\ []RunningAgrees
<1>1. HInit => Init /\ All
  BY InitSums DEF HInit, All
<1>2. All /\ [HNext]_hvars => All'
  BY HNextAll DEF All
<1>3. All /\ [HNext]_hvars => [Next]_vars
  BY StepIs DEF All, TInv
<1>4. All => RunningAgrees
  BY DEF All, TInv, HIInv, IInv
<1> QED BY <1>1, <1>2, <1>3, <1>4, PTL DEF HSpec, Spec

\* Whatever the application asks for and whichever events are missing or do not
\* fit, what the high level says is running is what its EventSet counts, event
\* by event, and when nothing runs nothing of an earlier call is left in it, but
\* for what a rate call leaves that finds no PAPI_TOT_CYC.
THEOREM RunsWhatWasAskedHolds ==
  ASSUME "attach" \notin Liberties, "overlap" \notin Liberties
  PROVE  HSpec => []RunsWhatWasAsked
<1>1. HInit => Unspoilt
  BY InitKept
<1>2. Unspoilt /\ [HNext]_hvars => Unspoilt'
  BY HNextKept
<1>3. Unspoilt => RunsWhatWasAsked
  <2>1. CASE meter.left
    BY <2>1 DEF RunsWhatWasAsked
  <2>2. CASE ~meter.left
    BY <2>2, RestRuns DEF Unspoilt, TInv
  <2> QED BY <2>1, <2>2
<1> QED BY <1>1, <1>2, <1>3, PTL DEF HSpec

\* Where there is PAPI_TOT_CYC the thread's HighLevelInfo keeps its types at every
\* step of every call: its EventSet is alive once it is made, and no call but the
\* one that makes it gets past _internal_check_state without one.
THEOREM HighLevelTypesHold ==
  ASSUME "attach" \notin Liberties, "overlap" \notin Liberties, NativesOf(TOT_CYC) # <<>>
  PROVE  HSpec => []HighLevelTypeOK
<1>1. HInit => All
  BY InitSums DEF HInit, All
<1>2. All /\ [HNext]_hvars => All'
  BY HNextAll DEF All
<1>3. All => HighLevelTypeOK
  <2> SUFFICES ASSUME TInv PROVE hl \in HighLevelInfo
    BY DEF HighLevelTypeOK, All, TInv, HIInv, Held, Underway
  <2>1. hl.EventSet \in Slots \cup {None}
    BY DEF TInv, HIInv, Held, Alive
  <2> QED BY <2>1 DEF TInv, Sums, HIInv, Held, HighLevelInfo, Levels
<1> QED BY <1>1, <1>2, <1>3, PTL DEF HSpec

\* Whatever stops, restarts and failures there are in between, the total of a
\* rate call and what is counted since are all that was counted since the first
\* call, as long as the float that keeps the total can hold it. (Where there is
\* no PAPI_TOT_CYC no rate call counts at all.)
THEOREM TotalsAddUpHolds ==
  ASSUME "attach" \notin Liberties, "overlap" \notin Liberties, NativesOf(TOT_CYC) # <<>>
  PROVE  HSpec => []TotalsAddUp
<1>1. HInit => All
  BY InitSums DEF HInit, All
<1>2. All /\ [HNext]_hvars => All'
  BY HNextAll DEF All
<1>3. All => TotalsAddUp
  <2> SUFFICES ASSUME TInv, Idle, Made, hl.running \in Rates, meter.n <= Exact
               PROVE  hl.total_ins + Value = meter.n
    BY DEF TotalsAddUp, All
  <2>1. AtRest /\ hl.EventSet \in Alive /\ hl.running # "none"
    BY DEF TInv, HIInv, Stage, Held, Idle, Rates
  <2>2. "RUNNING" \in HlSet.state /\ sets[hl.EventSet].master = Self
    BY <2>1 DEF AtRest, Busy, TInv, HIInv, IInv, Home
  <2> QED BY <2>2 DEF TInv, Sums, NotYet, Value
<1> QED BY <1>1, <1>2, <1>3, PTL DEF HSpec
=============================================================================
