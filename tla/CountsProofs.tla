---------------------------- MODULE CountsProofs ----------------------------
(***************************************************************************)
(* The EventSet that runs counts its own native events, and each of its    *)
(* events looks for its counts where they are, although all EventSets of   *)
(* the thread share one context and any of them may have been the last to  *)
(* open it: for an application that takes no liberty, or none but removing *)
(* events, and whatever the kernel refuses.                                *)
(*                                                                         *)
(* The invariant, Ready, is about the context: what is open in it belongs  *)
(* to the EventSet in from_esi, unless that one is new in its slot, has no *)
(* native events or could not open them.                                   *)
(***************************************************************************)
EXTENDS OwnersProofs, EventSetsService

\* The application attaches no EventSet, changes none while another one runs nor
\* the domain of one that has events; and if it removes events, the kernel opens
\* every group that fits.
Plain == Liberties \subseteq {"remove"} /\ (~OpenMayFail \/ "remove" \notin Liberties)

-----------------------------------------------------------------------------
(* The names of the native events, and the group that counts them.         *)

Names(nats) == [i \in DOMAIN nats |-> nats[i].nat]

Group(names, dom) == [i \in DOMAIN names |-> [nat |-> names[i], dom |-> dom, tid |-> Caller]]

\* There are as many names as rows.
LEMMA NamesIs ==
  ASSUME NEW nats \in Seq(Row)
  PROVE  /\ DOMAIN Names(nats) = 1..Len(nats) /\ Len(Names(nats)) = Len(nats)
         /\ Names(nats) = <<>> <=> nats = <<>>
         /\ Names(<<>>) = <<>>
<1>1. Len(nats) \in Nat /\ DOMAIN nats = 1..Len(nats) /\ (nats = <<>> <=> Len(nats) = 0)
  BY LenProperties, EmptySeq
<1>2. DOMAIN Names(nats) = 1..Len(nats) /\ Len(Names(nats)) = Len(nats)
  BY <1>1 DEF Names
<1>3. Names(<<>>) = <<>>
  BY DEF Names
<1>4. Names(nats) = <<>> => Len(nats) = 0
  <2>1. Len(<<>>) = 0
    BY EmptySeq
  <2> QED BY <1>2, <2>1
<1> QED BY <1>1, <1>2, <1>3, <1>4

\* Positions and owners have no part in the names.
LEMMA NamesAlike ==
  ASSUME NEW nats \in Seq(Row), NEW old \in Seq(Row), Len(nats) = Len(old),
         \A i \in 1..Len(old) : nats[i].nat = old[i].nat
  PROVE  Names(nats) = Names(old)
<1>1. DOMAIN nats = 1..Len(old) /\ DOMAIN old = 1..Len(old)
  BY LenProperties
<1> QED BY <1>1 DEF Names

\* What _papi_pe_update_control_state configures and opens for native events.
LEMMA OpenedIs ==
  ASSUME NEW ctl \in ControlState, NEW nats \in Seq(Row), ctl.tid = Caller
  PROVE  /\ Configured(ctl, nats).tid = Caller /\ Configured(ctl, nats).dom = ctl.dom
         /\ Names(nats) # <<>> => Configured(ctl, nats).ev = Names(nats)
         /\ Names(nats) # <<>> => Opened(Configured(ctl, nats)).fds = Group(Names(nats), ctl.dom)
         /\ Opened(Configured(ctl, nats)).on = FALSE /\ Closed.on = FALSE /\ Closed.fds = <<>>
         /\ \A ok : /\ Updated(ctl, nats, ok).on = FALSE
                    /\ \/ Updated(ctl, nats, ok).fds = <<>>
                       \/ Updated(ctl, nats, ok).fds = Group(Names(nats), ctl.dom)
<1>1. Names(nats) = <<>> <=> nats = <<>>
  BY NamesIs
<1>2. /\ Configured(ctl, nats).tid = Caller /\ Configured(ctl, nats).dom = ctl.dom
      /\ Names(nats) # <<>> => Configured(ctl, nats).ev = Names(nats)
  BY <1>1 DEF Configured, Names, ControlState
<1>3. Names(nats) # <<>> => Opened(Configured(ctl, nats)).fds = Group(Names(nats), ctl.dom)
  BY <1>2 DEF Opened, Group
<1>4. Opened(Configured(ctl, nats)).on = FALSE /\ Closed.on = FALSE /\ Closed.fds = <<>>
  BY DEF Opened, Closed
<1>5. ASSUME NEW ok
      PROVE  /\ Updated(ctl, nats, ok).on = FALSE
             /\ \/ Updated(ctl, nats, ok).fds = <<>>
                \/ Updated(ctl, nats, ok).fds = Group(Names(nats), ctl.dom)
  BY <1>1, <1>3, <1>4 DEF Updated
<1> QED BY <1>2, <1>3, <1>4, <1>5

\* A removal that frees no native event leaves them where they were.
LEMMA KeptNames ==
  ASSUME NEW nats \in Seq(NativeInfo), NEW c \in Codes, ~(Len(RemoveNatives(nats, c)) < Len(nats))
  PROVE  Names(RemoveNatives(nats, c)) = Names(nats)
<1> DEFINE L == Lose(nats, c)
           R == RemoveNatives(nats, c)
           m == Cardinality(InUse(L))
<1>1. L \in Seq(NativeInfo) /\ Len(L) = Len(nats) /\ Len(nats) \in Nat
  BY OwnersOnly, LenProperties
<1>2. R \in Seq(NativeInfo) /\ Len(R) = Len(nats)
  BY <1>1, RemoveNativesIs, LenProperties
<1>3. R = [i \in 1..m |-> L[IF i \in InUse(L) THEN i ELSE Filler(L, i)]] /\ m \in Nat
  BY <1>1, InUseIs DEF RemoveNatives, Compact
<1>4. m = Len(nats)
  <2> HIDE DEF L, m
  <2> QED BY <1>2, <1>3
<1>5. InUse(L) = 1..Len(nats)
  <2> DEFINE n == Len(nats)
  <2>1. InUse(L) \in SUBSET (1..n) /\ n \in Nat
    BY <1>1, InUseIs
  <2> HIDE DEF n
  <2>2. IsFiniteSet(1..n) /\ Cardinality(1..n) = n
    <3>1. IsFiniteSet(1..n) /\ Cardinality(1..n) = IF 1 > n THEN 0 ELSE n - 1 + 1
      BY <2>1, FS_Interval
    <3> QED BY <2>1, <3>1
  <2>3. Cardinality(InUse(L)) = n
    BY <1>4 DEF n
  <2> QED BY <2>1, <2>2, <2>3, FS_Subset DEF n
<1>6. \A i \in 1..Len(nats) : R[i] = L[i]
  <2> HIDE DEF L, m, R
  <2> QED BY <1>3, <1>4, <1>5
<1>7. \A i \in 1..Len(nats) : R[i].nat = nats[i].nat
  BY <1>6, OwnersOnly
<1> QED BY <1>2, <1>7, NativeInfoIsRow, NamesAlike
-----------------------------------------------------------------------------
(* The invariant.                                                          *)

Run == thr[Self].running
From == thr[Self].from
Ctx == thr[Self].ctx

\* The control state has the native events configured, to count the caller.
Named(e) == e.ctl.tid = Caller /\ (Names(e.nats) # <<>> => e.ctl.ev = Names(e.nats))

\* What is open, if anything is, is the group of the EventSet.
Opens(e, ctx) ==
  Names(e.nats) # <<>> /\ ctx.fds # <<>> => ctx.fds = Group(Names(e.nats), e.ctl.dom)

Ready ==
  /\ \A s \in Alive : Named(sets[s])
  /\ From \in Alive => Opens(sets[From], Ctx)
  /\ Run # None => /\ From = Run /\ Ctx.on
                   /\ Ctx.fds # <<>> /\ Names(sets[Run].nats) # <<>>
  /\ Ctx.on => Run # None
  /\ \A t \in Threads \ {Self} : ~thr[t].ctx.on

KInv == IInv /\ OInv /\ Ready

\* What holds of an EventSet of the calling thread.
LEMMA OwnIs ==
  ASSUME IInv, NEW s \in Alive
  PROVE  /\ s \in Slots /\ s # None /\ sets[s] \in Good /\ sets[s].master = Self /\ Self \in Threads
         /\ Has(s, "RUNNING") <=> Run = s
         /\ Has(s, "RUNNING") <=> ~Has(s, "STOPPED")
         /\ ~Has(s, "ATTACHED") /\ (Run = s => sets[s].bound)
         /\ Ctx \in Context
BY AliveIs, EventSetsAssumption DEF IInv, Home, RunningAgrees, Run, Ctx, Alive

\* A call that touches the context of the calling thread.
LEMMA TouchedIs ==
  ASSUME TypeOK, NEW s, NEW ctx, thr' = Touch(Self, s, ctx)
  PROVE  /\ Ctx' = ctx /\ From' = s /\ Run' = Run
         /\ \A t \in Threads \ {Self} : thr'[t] = thr[t]
<1>1. thr \in [Threads -> ThreadInfo] /\ Self \in Threads
  BY TypeOKIs, EventSetsAssumption
<1>2. thr' = [thr EXCEPT ![Self] = [@ EXCEPT !.ctx = ctx, !.from = s]]
  BY DEF Touch
<1>3. thr[Self] \in ThreadInfo
  BY <1>1
<1>4. /\ thr'[Self] = [thr[Self] EXCEPT !.ctx = ctx, !.from = s]
      /\ \A t \in Threads \ {Self} : thr'[t] = thr[t]
  BY <1>1, <1>2
<1> QED BY <1>3, <1>4 DEF ThreadInfo, Ctx, From, Run

\* A call that starts or stops in the context of the calling thread.
LEMMA StartsStopsIs ==
  ASSUME TypeOK, NEW s, NEW ctx, NEW r, thr' = [Touch(Self, s, ctx) EXCEPT ![Self].running = r]
  PROVE  /\ Ctx' = ctx /\ From' = s /\ Run' = r
         /\ \A t \in Threads \ {Self} : thr'[t] = thr[t]
<1>1. thr \in [Threads -> ThreadInfo] /\ Self \in Threads
  BY TypeOKIs, EventSetsAssumption
<1>2. thr[Self] \in ThreadInfo
  BY <1>1
<1>3. thr' = [thr EXCEPT ![Self] = [thr[Self] EXCEPT !.ctx = ctx, !.from = s, !.running = r]]
  BY <1>1, <1>2 DEF Touch, ThreadInfo
<1>4. /\ thr'[Self] = [thr[Self] EXCEPT !.ctx = ctx, !.from = s, !.running = r]
      /\ \A t \in Threads \ {Self} : thr'[t] = thr[t]
  BY <1>1, <1>3
<1> QED BY <1>2, <1>4 DEF ThreadInfo, Run, From, Ctx

\* A call that leaves the threads alone.
LEMMA PutStill ==
  ASSUME KInv, NEW s \in Alive, StaysTyped, NEW x, sets' = [sets EXCEPT ![s] = x], UNCHANGED thr,
         Named(x), From = s => Opens(x, Ctx), Run = s => Names(x.nats) # <<>>
  PROVE  Ready'
<1>1. \A r \in Alive : sets'[r] = IF r = s THEN x ELSE sets[r]
  BY TypeOKIs DEF KInv, IInv, Alive
<1>2. Alive' = Alive /\ Run' = Run /\ From' = From /\ Ctx' = Ctx
  BY DEF StaysTyped, Run, From, Ctx
<1>3. Run # None => Run \in Alive
  BY EventSetsAssumption DEF KInv, IInv, RunningAgrees, Run
<1> QED BY <1>1, <1>2, <1>3 DEF KInv, Ready

\* A call that touches the context while nothing runs.
LEMMA PutIdle ==
  ASSUME KInv, NEW s \in Alive, StaysTyped, NEW x, sets' = [sets EXCEPT ![s] = x],
         NEW ctx, thr' = Touch(Self, s, ctx), Run = None, ctx.on = FALSE,
         Named(x), Opens(x, ctx)
  PROVE  Ready'
<1>1. \A r \in Alive : sets'[r] = IF r = s THEN x ELSE sets[r]
  BY TypeOKIs DEF KInv, IInv, Alive
<1>2. /\ Alive' = Alive /\ Run' = None /\ From' = s /\ Ctx' = ctx
      /\ \A t \in Threads \ {Self} : thr'[t] = thr[t]
  BY TouchedIs DEF KInv, IInv, StaysTyped
<1> QED BY <1>1, <1>2 DEF KInv, Ready

\* A call that touches the context of the EventSet that runs.
LEMMA PutRunning ==
  ASSUME KInv, NEW s \in Alive, StaysTyped, NEW x, sets' = [sets EXCEPT ![s] = x],
         NEW ctx, thr' = Touch(Self, s, ctx), Run = s, ctx.on, ctx.fds = Ctx.fds,
         x.nats = sets[s].nats, x.ctl.ev = sets[s].ctl.ev, x.ctl.dom = sets[s].ctl.dom,
         x.ctl.tid = sets[s].ctl.tid
  PROVE  Ready'
<1>1. \A r \in Alive : sets'[r] = IF r = s THEN x ELSE sets[r]
  BY TypeOKIs DEF KInv, IInv, Alive
<1>2. /\ Alive' = Alive /\ Run' = s /\ From' = s /\ Ctx' = ctx
      /\ \A t \in Threads \ {Self} : thr'[t] = thr[t]
  BY TouchedIs DEF KInv, IInv, StaysTyped
<1>3. s # None
  BY OwnIs DEF KInv
<1>4. Named(x) /\ Opens(x, ctx) /\ Names(x.nats) # <<>> /\ ctx.fds # <<>>
  BY <1>3 DEF KInv, Ready, Named, Opens
<1> QED BY <1>1, <1>2, <1>3, <1>4 DEF KInv, Ready

\* Positions are the only difference that giving them makes.
LEMMA PositionedNames ==
  ASSUME NEW nats \in Seq(Row), Len(nats) <= NumMpxCntrs
  PROVE  Names(Positioned(nats)) = Names(nats)
<1>1. Positioned(nats) \in Seq(Row) /\ Alike(Positioned(nats), nats)
  BY PositionedIs, PositionedAlike, NativeInfoIsRow
<1> QED BY <1>1, NamesAlike DEF Alike

\* A call that has the substrate open another group while nothing runs.
LEMMA PutRebuilt ==
  ASSUME KInv, NEW s \in Alive, StaysTyped, Run = None,
         NEW ctl \in ControlState, ctl.tid = Caller, NEW nats \in Seq(Row), NEW ok,
         NEW x, sets' = [sets EXCEPT ![s] = x], thr' = Touch(Self, s, Updated(ctl, nats, ok)),
         x.ctl = Configured(ctl, nats), Names(x.nats) = Names(nats)
  PROVE  Ready'
<1>1. Named(x)
  BY OpenedIs DEF Named
<1>2. Opens(x, Updated(ctl, nats, ok)) /\ Updated(ctl, nats, ok).on = FALSE
  <2> DEFINE u == Updated(ctl, nats, ok)
  <2>1. u.on = FALSE /\ (u.fds = <<>> \/ u.fds = Group(Names(nats), ctl.dom))
    BY OpenedIs
  <2>2. x.ctl.dom = ctl.dom
    BY OpenedIs
  <2> HIDE DEF u
  <2>3. Opens(x, u)
    BY <2>1, <2>2 DEF Opens
  <2> QED BY <2>1, <2>3 DEF u
<1> QED BY <1>1, <1>2, PutIdle

\* An EventSet that may be changed and does not run is one of a thread where none
\* does.
LEMMA IdleIs ==
  ASSUME Plain, IInv, NEW s \in Alive, Quiet(s), ~Has(s, "RUNNING")
  PROVE  Run = None
<1>1. "overlap" \notin Liberties
  BY DEF Plain
<1> QED BY <1>1, OwnIs DEF Quiet, Run

\* The start call itself, in the context of the EventSet.
LEMMA LaunchReady ==
  ASSUME KInv, NEW s \in Alive, StaysTyped, Run = None,
         NEW y \in Good, y.master = Self, "ATTACHED" \notin y.state,
         Named(y), Names(y.nats) # <<>>,
         NEW ctx \in Context, Opens(y, ctx), Launch(s, y, ctx)
  PROVE  Ready'
<1>1. /\ Marked(y).nats = y.nats /\ Marked(y).ctl = y.ctl
      /\ Unmarked(Marked(y)).nats = y.nats /\ Unmarked(Marked(y)).ctl = y.ctl
  BY DEF Marked, Unmarked, Good, EventSetInfo
<1>2. /\ Enabled(ctx).fds = ctx.fds /\ Enabled(ctx).on
      /\ Disabled(ctx).fds = ctx.fds /\ Disabled(ctx).on = FALSE
  BY DEF Enabled, Disabled, Context
<1>3. CASE /\ ~CanEnable(ctx) /\ sets' = [sets EXCEPT ![s] = Unmarked(Marked(y))]
           /\ thr' = Touch(Self, s, Disabled(ctx))
  <2>1. Named(Unmarked(Marked(y))) /\ Opens(Unmarked(Marked(y)), Disabled(ctx))
    BY <1>1, <1>2 DEF Named, Opens
  <2> QED BY <1>2, <1>3, <2>1, PutIdle
<1>4. CASE /\ CanEnable(ctx) /\ sets' = [sets EXCEPT ![s] = Marked(y)]
           /\ thr' = [Touch(Self, s, Enabled(ctx)) EXCEPT ![Self].running = s]
  <2>1. \A r \in Alive : sets'[r] = IF r = s THEN Marked(y) ELSE sets[r]
    BY <1>4, TypeOKIs DEF KInv, IInv, Alive
  <2>2. /\ Alive' = Alive /\ Run' = s /\ From' = s /\ Ctx' = Enabled(ctx) /\ s # None
        /\ \A t \in Threads \ {Self} : thr'[t] = thr[t]
    BY <1>4, StartsStopsIs, OwnIs DEF KInv, IInv, StaysTyped
  <2>3. Named(Marked(y)) /\ Opens(Marked(y), Enabled(ctx))
    BY <1>1, <1>2 DEF Named, Opens
  <2>4. Enabled(ctx).fds # <<>> /\ Names(Marked(y).nats) # <<>>
    BY <1>1, <1>2, <1>4 DEF CanEnable
  <2> QED BY <1>2, <2>1, <2>2, <2>3, <2>4 DEF KInv, Ready
<1> QED BY <1>3, <1>4 DEF Launch, Holder
-----------------------------------------------------------------------------
(* Every call keeps it.                                                    *)

\* A new EventSet has no native events, wherever from_esi points.
LEMMA CreateReady ==
  ASSUME KInv, Create
  PROVE  Ready'
<1>1. PICK s \in Slots : sets[s] = None /\ sets' = [sets EXCEPT ![s] = Empty] /\ UNCHANGED thr
  BY DEF Create
<1>2. Alive' = Alive \cup {s} /\ s \notin Alive /\ s # None
  BY <1>1, TypeOKIs, NewEventSetIs, EventSetsAssumption DEF KInv, IInv, Alive, Good
<1>3. \A r \in Alive' : sets'[r] = IF r = s THEN Empty ELSE sets[r]
  BY <1>1, <1>2, TypeOKIs DEF KInv, IInv, Alive
<1>4. Named(Empty) /\ \A ctx : Opens(Empty, ctx)
  <2>1. Names(Empty.nats) = <<>> /\ Empty.ctl.tid = Caller
    BY DEF Empty, Names, NewControlState
  <2> QED BY <2>1 DEF Named, Opens
<1>5. Run # None => Run \in Alive
  BY EventSetsAssumption DEF KInv, IInv, RunningAgrees, Run
<1>6. Run' = Run /\ From' = From /\ Ctx' = Ctx
  BY <1>1 DEF Run, From, Ctx
<1> QED BY <1>1, <1>2, <1>3, <1>4, <1>5, <1>6 DEF KInv, Ready

\* A call that is refused changes nothing.
LEMMA RefuseReady ==
  ASSUME KInv, NEW code, Refuse(code)
  PROVE  Ready'
BY DEF Refuse, KInv, Ready, Alive, Run, From, Ctx

\* An EventSet that is bound only now has no native events yet.
LEMMA BindReady ==
  ASSUME KInv, NEW s \in Alive, ~sets[s].bound, StaysTyped,
         sets' = [sets EXCEPT ![s] = Bind(sets[s])], UNCHANGED thr
  PROVE  Ready'
<1>1. Named(Bind(sets[s])) /\ Opens(Bind(sets[s]), Ctx)
  <2>1. Names(Bind(sets[s]).nats) = <<>> /\ Bind(sets[s]).ctl.tid = Caller
    BY DEF Bind, Empty, Names, NewControlState
  <2> QED BY <2>1 DEF Named, Opens
<1>2. Run # s
  BY OwnIs DEF KInv
<1> QED BY <1>1, <1>2, PutStill

LEMMA AssignReady ==
  ASSUME KInv, NEW s \in Alive, Assign(s)
  PROVE  Ready'
<1>1. StaysTyped
  BY AssignTypes DEF KInv, IInv
<1> QED BY <1>1, RefuseReady, BindReady DEF Assign

\* PAPI_add_event where every native event is there already: the group stays.
LEMMA AddSharedReady ==
  ASSUME KInv, NEW s \in Alive, NEW e \in Good, e.bound, Named(e), StaysTyped,
         From = s => Opens(e, Ctx), Run = None, NEW c \in Codes, AddShared(s, e, c)
  PROVE  Ready'
<1> DEFINE A == AddNatives(e.nats, c)
           x == Sharing(e, c, A)
<1>1. e.nats \in Seq(NativeInfo) /\ e.nats \in Seq(Row) /\ Len(e.nats) \in Nat
  BY GoodIs
<1>2. A \in Seq(Row) /\ Len(A) = Len(e.nats)
  <2>1. Len(NewNatives(e.nats, c)) = 0
    BY EmptySeq DEF AddShared
  <2> QED BY <1>1, <2>1, AddNativesIs
<1>3. Names(A) = Names(e.nats)
  BY <1>1, <1>2, AddedRows, NamesAlike
<1>4. x.nats = A /\ x.ctl = e.ctl
  BY DEF Sharing, Good, EventSetInfo
<1>5. sets' = [sets EXCEPT ![s] = x] /\ UNCHANGED thr
  BY DEF AddShared
<1> HIDE DEF x, A
<1>6. Named(x) /\ (From = s => Opens(x, Ctx))
  BY <1>3, <1>4 DEF Named, Opens
<1>7. Run # s
  BY OwnIs DEF KInv
<1> QED BY <1>5, <1>6, <1>7, PutStill

\* PAPI_add_event where the group is rebuilt, and the old one when the kernel
\* refuses the new one.
LEMMA AddNewReady ==
  ASSUME KInv, NEW s \in Alive, NEW e \in Good, e.master = Self, Named(e), StaysTyped, Run = None,
         NEW c \in Codes, AddRefusal(e, c) = "OK", AddNew(s, e, c)
  PROVE  Ready'
<1> DEFINE A == AddNatives(e.nats, c)
           P == Positioned(A)
           ctl == Configured(e.ctl, A)
           old == FailClean(P, c)
           d == Configured(ctl, old)
<1>1. e.nats \in Seq(NativeInfo) /\ Len(e.nats) \in Nat /\ e.ctl \in ControlState
  BY GoodIs
<1>2. A \in Seq(Row) /\ Len(A) <= NumMpxCntrs /\ Len(A) \in Nat /\ A # <<>>
  <2>1. Len(A) \in Nat /\ NumMpxCntrs \in Nat
    BY <1>1, AddNativesIs, NewNativesIs, LenProperties, NativeEventsAssumption
  <2>2. Len(NewNatives(e.nats, c)) # 0 /\ Len(NewNatives(e.nats, c)) \in Nat
    BY <1>1, NewNativesIs, EmptySeq, LenProperties DEF AddNew
  <2>3. Len(A) # 0
    BY <1>1, <2>2, AddNativesIs
  <2> QED BY <1>1, <2>1, <2>3, AddNativesIs, EmptySeq DEF AddRefusal
<1>3. P \in Seq(NativeInfo) /\ Len(P) = Len(A)
  BY <1>2, PositionedIs
<1>4. old \in Seq(Row) /\ Len(old) <= NumMpxCntrs
  <2>1. old \in Seq(NativeInfo) /\ Len(old) <= Len(P) /\ Len(old) \in Nat /\ NumMpxCntrs \in Nat
    BY <1>3, FailCleanIs, LenProperties, NativeEventsAssumption
  <2> HIDE DEF old, P, A
  <2> QED BY <1>2, <1>3, <2>1, NativeInfoIsRow
<1>5. ctl \in ControlState /\ ctl.tid = Caller
  BY <1>1, <1>2, ConfiguredIs, OpenedIs DEF Named
<1>6. Updated(e.ctl, A, TRUE) = Opened(ctl)
  BY <1>2 DEF Updated
<1>7. \/ /\ sets' = [sets EXCEPT ![s] = [Joined(e, c, P) EXCEPT !.ctl = ctl]]
         /\ thr' = Touch(Self, s, Opened(ctl))
      \/ \E again : /\ sets' = [sets EXCEPT ![s] = [e EXCEPT !.ctl = d, !.nats = Positioned(old)]]
                    /\ thr' = Touch(Self, s, Updated(ctl, old, again))
  BY DEF AddNew
<1>8. Names(P) = Names(A) /\ Names(Positioned(old)) = Names(old)
  BY <1>2, <1>4, PositionedNames
<1> HIDE DEF A, P, old
<1>9. CASE /\ sets' = [sets EXCEPT ![s] = [Joined(e, c, P) EXCEPT !.ctl = ctl]]
           /\ thr' = Touch(Self, s, Opened(ctl))
  <2> DEFINE x == [Joined(e, c, P) EXCEPT !.ctl = ctl]
  <2>1. x.nats = P /\ x.ctl = ctl
    BY DEF Joined, Good, EventSetInfo
  <2>2. sets' = [sets EXCEPT ![s] = x] /\ thr' = Touch(Self, s, Updated(e.ctl, A, TRUE))
    BY <1>6, <1>9
  <2> HIDE DEF x
  <2> QED BY <1>1, <1>2, <1>8, <2>1, <2>2, PutRebuilt DEF Named
<1>10. ASSUME NEW again, sets' = [sets EXCEPT ![s] = [e EXCEPT !.ctl = d, !.nats = Positioned(old)]],
              thr' = Touch(Self, s, Updated(ctl, old, again))
       PROVE  Ready'
  <2> DEFINE x == [e EXCEPT !.ctl = d, !.nats = Positioned(old)]
  <2>1. x.nats = Positioned(old) /\ x.ctl = d
    BY DEF Good, EventSetInfo
  <2> HIDE DEF x, ctl
  <2> QED BY <1>4, <1>5, <1>8, <1>10, <2>1, PutRebuilt DEF x
<1> QED BY <1>7, <1>9, <1>10

LEMMA AddEventReady ==
  ASSUME Plain, KInv, NEW s \in Alive, NEW c \in Codes, AddEvent(s, c)
  PROVE  Ready'
<1> DEFINE e == IF sets[s].bound THEN sets[s] ELSE Bind(sets[s])
<1>1. StaysTyped /\ Quiet(s)
  BY AddEventTypes DEF KInv, IInv, AddEvent
<1>2. e \in Good /\ e.master = Self /\ e.bound
  BY OwnIs, NewEventSetIs, BoundIs DEF KInv
<1>3. Named(e) /\ (From = s => Opens(e, Ctx))
  <2>1. CASE sets[s].bound
    BY <2>1 DEF KInv, Ready
  <2>2. CASE ~sets[s].bound
    <3>1. Names(e.nats) = <<>> /\ e.ctl.tid = Caller
      BY <2>2 DEF Bind, Empty, Names, NewControlState
    <3> QED BY <3>1 DEF Named, Opens
  <2> QED BY <2>1, <2>2
<1>4. CASE Has(s, "RUNNING")
  BY <1>4, RefuseReady DEF AddEvent
<1>5. CASE ~Has(s, "RUNNING")
  <2>1. Run = None
    BY <1>1, <1>5, IdleIs DEF KInv
  <2>2. Run # s
    BY <1>5, OwnIs DEF KInv
  <2>3. \/ sets' = [sets EXCEPT ![s] = e] /\ UNCHANGED thr
        \/ AddShared(s, e, c)
        \/ AddRefusal(e, c) = "OK" /\ AddNew(s, e, c)
    BY <1>5 DEF AddEvent
  <2> HIDE DEF e
  <2> QED BY <1>1, <1>2, <1>3, <2>1, <2>2, <2>3, PutStill, AddSharedReady, AddNewReady
<1> QED BY <1>4, <1>5

\* PAPI_remove_event opens the smaller group, or leaves the one that is open.
LEMMA RemoveEventReady ==
  ASSUME Plain, KInv, NEW s \in Alive, NEW c \in Codes, RemoveEvent(s, c)
  PROVE  Ready'
<1> DEFINE e == sets[s]
           i == IndexOf(e.evs, c)
           R == RemoveNatives(e.nats, c)
           ctl == Configured(e.ctl, R)
<1>1. StaysTyped /\ Quiet(s) /\ e \in Good /\ e.master = Self /\ Named(e)
  BY RemoveEventTypes, OwnIs DEF KInv, IInv, Ready, RemoveEvent
<1>2. CASE ~Has(s, "STOPPED") \/ c \notin Listed(e.evs)
  BY <1>2, RefuseReady DEF RemoveEvent
<1>3. CASE Has(s, "STOPPED") /\ c \in Listed(e.evs)
  <2>1. Run = None
    BY <1>1, <1>3, OwnIs, IdleIs DEF KInv
  <2>2. Run # s
    BY <2>1, OwnIs DEF KInv
  <2>3. /\ e.nats \in Seq(NativeInfo) /\ e.nats \in Seq(Row) /\ Len(e.nats) \in Nat
        /\ Len(e.nats) <= NumMpxCntrs /\ e.ctl \in ControlState
    BY <1>1, GoodIs
  <2>4. R \in Seq(Row) /\ Len(R) \in Nat /\ Len(R) <= NumMpxCntrs
    <3>1. R \in Seq(NativeInfo) /\ Len(R) <= Len(e.nats)
      BY <2>3, RemoveNativesIs
    <3>2. R \in Seq(Row) /\ Len(R) \in Nat /\ NumMpxCntrs \in Nat
      BY <3>1, NativeInfoIsRow, LenProperties, NativeEventsAssumption
    <3> HIDE DEF R
    <3> QED BY <2>3, <3>1, <3>2
  <2>5. \/ /\ ~(Len(R) < Len(e.nats)) /\ UNCHANGED thr
           /\ \E evs : sets' = [sets EXCEPT ![s] = [e EXCEPT !.evs = evs, !.nats = R]]
        \/ \E ok, evs : /\ sets' = [sets EXCEPT ![s] =
                                     [e EXCEPT !.evs = evs, !.nats = Positioned(R), !.ctl = ctl]]
                        /\ thr' = Touch(Self, s, Updated(e.ctl, R, ok))
    BY <1>1, <1>3 DEF RemoveEvent
  <2>6. Names(Positioned(R)) = Names(R)
    BY <2>4, PositionedNames
  <2>7. ~(Len(R) < Len(e.nats)) => Names(R) = Names(e.nats)
    BY <2>3, KeptNames
  <2> HIDE DEF R, ctl
  <2>8. ASSUME NEW evs, ~(Len(R) < Len(e.nats)), UNCHANGED thr,
               sets' = [sets EXCEPT ![s] = [e EXCEPT !.evs = evs, !.nats = R]]
        PROVE  Ready'
    <3> DEFINE x == [e EXCEPT !.evs = evs, !.nats = R]
    <3>1. x.nats = R /\ x.ctl = e.ctl
      BY <1>1 DEF Good, EventSetInfo
    <3> HIDE DEF x
    <3>2. Named(x) /\ (From = s => Opens(x, Ctx))
      BY <1>1, <2>7, <2>8, <3>1 DEF Named, Opens, KInv, Ready
    <3> QED BY <1>1, <2>2, <2>8, <3>2, PutStill DEF x
  <2>9. ASSUME NEW ok, NEW evs,
               sets' = [sets EXCEPT ![s] =
                          [e EXCEPT !.evs = evs, !.nats = Positioned(R), !.ctl = ctl]],
               thr' = Touch(Self, s, Updated(e.ctl, R, ok))
        PROVE  Ready'
    <3> DEFINE x == [e EXCEPT !.evs = evs, !.nats = Positioned(R), !.ctl = ctl]
    <3>1. x.nats = Positioned(R) /\ x.ctl = Configured(e.ctl, R)
      BY <1>1 DEF Good, EventSetInfo, ctl
    <3> HIDE DEF x
    <3> QED BY <1>1, <2>1, <2>3, <2>4, <2>6, <2>9, <3>1, PutRebuilt DEF x, Named
  <2> QED BY <2>5, <2>8, <2>9
<1> QED BY <1>2, <1>3

\* PAPI_cleanup_eventset empties the EventSet and closes the context.
LEMMA CleanupReady ==
  ASSUME Plain, KInv, NEW s \in Alive, Cleanup(s)
  PROVE  Ready'
<1> DEFINE x == [Empty EXCEPT !.state = sets[s].state, !.master = sets[s].master]
<1>1. CASE ~sets[s].bound \/ Has(s, "RUNNING")
  BY <1>1, RefuseReady DEF Cleanup
<1>2. CASE sets[s].bound /\ ~Has(s, "RUNNING")
  <2>1. StaysTyped /\ Run = None /\ sets[s].master = Self
    BY <1>2, CleanupTypes, IdleIs, OwnIs DEF KInv, IInv, Cleanup
  <2>2. sets' = [sets EXCEPT ![s] = x] /\ thr' = Touch(Self, s, Closed)
    BY <1>2, <2>1 DEF Cleanup
  <2>3. Named(x) /\ Opens(x, Closed) /\ Closed.on = FALSE
    <3>1. Names(x.nats) = <<>> /\ x.ctl.tid = Caller
      BY DEF Empty, Names, NewControlState
    <3> QED BY <3>1 DEF Named, Opens, Closed
  <2> HIDE DEF x
  <2> QED BY <2>1, <2>2, <2>3, PutIdle
<1> QED BY <1>1, <1>2

\* PAPI_destroy_eventset: from_esi may go on pointing to the slot.
LEMMA DestroyReady ==
  ASSUME KInv, NEW s \in Alive, Destroy(s)
  PROVE  Ready'
<1>1. CASE ~Has(s, "STOPPED") \/ sets[s].evs # <<>>
  BY <1>1, RefuseReady DEF Destroy
<1>2. CASE Has(s, "STOPPED") /\ sets[s].evs = <<>>
  <2>1. sets' = [sets EXCEPT ![s] = None] /\ UNCHANGED thr
    BY <1>2 DEF Destroy
  <2>2. Alive' = Alive \ {s} /\ \A r \in Alive' : sets'[r] = sets[r]
    BY <2>1, TypeOKIs DEF KInv, IInv, Alive
  <2>3. Run # s /\ (Run # None => Run \in Alive)
    BY <1>2, OwnIs, EventSetsAssumption DEF KInv, IInv, RunningAgrees, Run
  <2>4. Run' = Run /\ From' = From /\ Ctx' = Ctx
    BY <2>1 DEF Run, From, Ctx
  <2> QED BY <2>1, <2>2, <2>3, <2>4 DEF KInv, Ready
<1> QED BY <1>1, <1>2

\* PAPI_start finds its own group open, or opens it.
LEMMA StartReady ==
  ASSUME KInv, NEW s \in Alive, Start(s)
  PROVE  Ready'
<1> DEFINE e == sets[s]
           ctl == Configured(e.ctl, e.nats)
           P == Positioned(e.nats)
           fresh == [e EXCEPT !.ctl = ctl, !.nats = P, !.evs = Remap(e.evs, P)]
           moved == [e EXCEPT !.ctl = ctl, !.nats = P]
           ctx == Updated(e.ctl, e.nats, TRUE)
<1>1. /\ StaysTyped /\ e \in Good /\ e.master = Self /\ Named(e) /\ Ctx \in Context
      /\ "ATTACHED" \notin e.state
  BY StartTypes, OwnIs DEF KInv, IInv, Ready, Has
<1>2. CASE ~e.bound \/ Run # None \/ e.evs = <<>>
  BY <1>1, <1>2, RefuseReady DEF Start, Run
<1>3. CASE e.bound /\ Run = None /\ e.evs # <<>>
  <2>1. /\ e.nats \in Seq(Row) /\ e.nats \in Seq(NativeInfo) /\ e.ctl \in ControlState
        /\ Len(e.nats) <= NumMpxCntrs /\ e.ctl.tid = Caller
    BY <1>1, GoodIs DEF Named
  <2>2. Names(e.nats) # <<>>
    <3>1. Tidy(e)
      BY DEF KInv, OInv
    <3> QED BY <1>1, <1>3, <2>1, <3>1, EmptyTogether, NamesIs
  <2>3. Names(P) = Names(e.nats)
    BY <2>1, PositionedNames
  <2>4. \/ From = s /\ Launch(s, e, Ctx)
        \/ Launch(s, fresh, ctx)
        \/ sets' = [sets EXCEPT ![s] = moved] /\ thr' = Touch(Self, s, Closed)
    BY <1>1, <1>3 DEF Start, Run, From, Ctx
  <2>5. CASE From = s /\ Launch(s, e, Ctx)
    <3>1. Opens(e, Ctx)
      BY <2>5 DEF KInv, Ready
    <3> HIDE DEF e
    <3> QED BY <1>1, <1>3, <2>2, <2>5, <3>1, LaunchReady
  <2>6. fresh.nats = P /\ fresh.ctl = ctl /\ fresh.master = Self /\ fresh.state = e.state
    <3> HIDE DEF P, ctl
    <3> QED BY <1>1 DEF Good, EventSetInfo
  <2>7. moved.nats = P /\ moved.ctl = ctl
    <3> HIDE DEF P, ctl
    <3> QED BY <1>1 DEF Good, EventSetInfo
  <2>8. fresh \in Good /\ ctx \in Context
    BY <1>1, StartedIs
  <2>9. Updated(e.ctl, e.nats, FALSE) = Closed
    BY DEF Updated
  <2> HIDE DEF fresh, moved, P
  <2>10. CASE Launch(s, fresh, ctx)
    <3>1. Named(fresh)
      BY <2>1, <2>3, <2>6, OpenedIs DEF Named
    <3>2. Opens(fresh, ctx)
      <4>1. ctx.fds = <<>> \/ ctx.fds = Group(Names(e.nats), e.ctl.dom)
        BY <2>1, OpenedIs
      <4>2. ctl.dom = e.ctl.dom
        BY <2>1, OpenedIs
      <4> HIDE DEF ctx, ctl
      <4> QED BY <2>3, <2>6, <4>1, <4>2 DEF Opens
    <3> HIDE DEF ctx, ctl
    <3> QED BY <1>1, <1>3, <2>2, <2>3, <2>6, <2>8, <2>10, <3>1, <3>2, LaunchReady
  <2>11. CASE sets' = [sets EXCEPT ![s] = moved] /\ thr' = Touch(Self, s, Closed)
    BY <1>1, <1>3, <2>1, <2>3, <2>7, <2>9, <2>11, PutRebuilt
  <2> QED BY <2>4, <2>5, <2>10, <2>11
<1> QED BY <1>2, <1>3

\* Reading changes nothing in the control state but the counts.
LEMMA FetchedKeeps ==
  ASSUME NEW ctx, NEW ctl \in ControlState
  PROVE  /\ Fetched(ctx, ctl).ev = ctl.ev /\ Fetched(ctx, ctl).dom = ctl.dom
         /\ Fetched(ctx, ctl).tid = ctl.tid
BY DEF Fetched, ControlState

\* An EventSet that runs and is read.
LEMMA ReadingReady ==
  ASSUME KInv, NEW s \in Alive, Has(s, "RUNNING"), StaysTyped,
         NEW x, sets' = [sets EXCEPT ![s] = x], x.nats = sets[s].nats,
         x.ctl = sets[s].ctl \/ x.ctl = Fetched(Ctx, sets[s].ctl),
         NEW ctx \in {Ctx, ResetCtx(Ctx)}, thr' = Touch(Self, s, ctx)
  PROVE  Ready'
<1>1. Run = s /\ s # None /\ sets[s].ctl \in ControlState /\ Ctx \in Context
  BY OwnIs, GoodIs DEF KInv
<1>2. x.ctl.ev = sets[s].ctl.ev /\ x.ctl.dom = sets[s].ctl.dom /\ x.ctl.tid = sets[s].ctl.tid
  BY <1>1, FetchedKeeps
<1>3. ctx.fds = Ctx.fds /\ ctx.on
  BY <1>1 DEF ResetCtx, Context, KInv, Ready
<1> QED BY <1>1, <1>2, <1>3, PutRunning

\* PAPI_stop disables the group and leaves it open, unless it cannot be read.
LEMMA StopReady ==
  ASSUME KInv, NEW s \in Alive, Stop(s)
  PROVE  Ready'
<1> DEFINE e == sets[s]
           ctl == Fetched(Ctx, e.ctl)
           vals == ValuesOf(e.evs, ctl.counts)
           stop == [i \in DOMAIN e.stop |-> IF i \in DOMAIN vals THEN vals[i] ELSE e.stop[i]]
           read == [e EXCEPT !.ctl = ctl, !.stop = stop]
<1>1. /\ StaysTyped /\ e \in Good /\ e.master = Self /\ ~Has(s, "ATTACHED") /\ Named(e)
      /\ e.ctl \in ControlState /\ Ctx \in Context
  BY StopTypes, OwnIs, GoodIs DEF KInv, IInv, Ready
<1>2. CASE ~e.bound \/ ~Has(s, "RUNNING")
  BY <1>2, RefuseReady DEF Stop
<1>3. CASE e.bound /\ Has(s, "RUNNING")
  <2>1. \/ /\ sets' = [sets EXCEPT ![s] = [e EXCEPT !.ctl = ctl]]
           /\ thr' = Touch(Self, s, Ctx)
        \/ /\ sets' = [sets EXCEPT ![s] = Unmarked(read)]
           /\ thr' = [Touch(Self, s, Disabled(Ctx)) EXCEPT ![Self].running = None]
    BY <1>1, <1>3 DEF Stop, Ctx
  <2> HIDE DEF stop
  <2>2. CASE /\ sets' = [sets EXCEPT ![s] = [e EXCEPT !.ctl = ctl]]
             /\ thr' = Touch(Self, s, Ctx)
    <3> DEFINE x == [e EXCEPT !.ctl = ctl]
    <3>1. x.nats = e.nats /\ x.ctl = ctl
      BY <1>1 DEF Good, EventSetInfo
    <3> HIDE DEF x
    <3> QED BY <1>1, <1>3, <2>2, <3>1, ReadingReady DEF x
  <2>3. CASE /\ sets' = [sets EXCEPT ![s] = Unmarked(read)]
             /\ thr' = [Touch(Self, s, Disabled(Ctx)) EXCEPT ![Self].running = None]
    <3> DEFINE x == Unmarked(read)
    <3>1. x.nats = e.nats /\ x.ctl = ctl
      BY <1>1 DEF Unmarked, Good, EventSetInfo
    <3>2. ctl.ev = e.ctl.ev /\ ctl.dom = e.ctl.dom /\ ctl.tid = e.ctl.tid
      BY <1>1, FetchedKeeps
    <3>3. Disabled(Ctx).on = FALSE /\ Disabled(Ctx).fds = Ctx.fds
      BY <1>1 DEF Disabled, Context
    <3>4. From = s
      BY <1>3, OwnIs DEF KInv, Ready
    <3> HIDE DEF x, ctl, read
    <3>5. Named(x) /\ Opens(x, Disabled(Ctx))
      BY <1>1, <3>1, <3>2, <3>3, <3>4 DEF Named, Opens, KInv, Ready
    <3>6. \A r \in Alive : sets'[r] = IF r = s THEN x ELSE sets[r]
      BY <2>3, TypeOKIs DEF KInv, IInv, Alive, x
    <3>7. /\ Alive' = Alive /\ Run' = None /\ From' = s /\ Ctx' = Disabled(Ctx)
          /\ \A t \in Threads \ {Self} : thr'[t] = thr[t]
      BY <1>1, <2>3, StartsStopsIs DEF KInv, IInv, StaysTyped
    <3> QED BY <3>3, <3>5, <3>6, <3>7 DEF KInv, Ready
  <2> QED BY <2>1, <2>2, <2>3
<1> QED BY <1>2, <1>3

\* PAPI_read, PAPI_reset and PAPI_accum of an EventSet that runs, and of one that
\* does not.
LEMMA ReadsReady ==
  ASSUME KInv, NEW s \in Alive, Read(s) \/ Reset(s) \/ Accum(s)
  PROVE  Ready'
<1> DEFINE e == sets[s]
           ctl == Fetched(Ctx, e.ctl)
<1>1. StaysTyped /\ e \in Good /\ e.master = Self
  BY ReadTypes, ResetTypes, AccumTypes, OwnIs DEF KInv, IInv
<1>2. CASE ~e.bound
  BY <1>2, RefuseReady DEF Read, Reset, Accum
<1>3. CASE e.bound /\ ~Has(s, "RUNNING")
  <2>1. \/ UNCHANGED <<sets, thr>>
        \/ \E stop : sets' = [sets EXCEPT ![s] = [e EXCEPT !.stop = stop]] /\ UNCHANGED thr
    BY <1>3 DEF Read, Reset, Accum
  <2>2. CASE UNCHANGED <<sets, thr>>
    BY <2>2 DEF KInv, Ready, Alive, Run, From, Ctx
  <2>3. ASSUME NEW stop, sets' = [sets EXCEPT ![s] = [e EXCEPT !.stop = stop]], UNCHANGED thr
        PROVE  Ready'
    <3> DEFINE x == [e EXCEPT !.stop = stop]
    <3>1. x.nats = e.nats /\ x.ctl = e.ctl
      BY <1>1 DEF Good, EventSetInfo
    <3>2. Run # s
      BY <1>3, OwnIs DEF KInv
    <3> HIDE DEF x
    <3>3. Named(x) /\ (From = s => Opens(x, Ctx))
      BY <3>1 DEF Named, Opens, KInv, Ready
    <3> QED BY <1>1, <2>3, <3>2, <3>3, PutStill DEF x
  <2> QED BY <2>1, <2>2, <2>3
<1>4. CASE e.bound /\ Has(s, "RUNNING")
  <2>1. PICK ctx \in {Ctx, ResetCtx(Ctx)} :
          /\ thr' = Touch(Self, s, ctx)
          /\ \/ UNCHANGED sets
             \/ sets' = [sets EXCEPT ![s] = [e EXCEPT !.ctl = ctl]]
             \/ \E stop : sets' = [sets EXCEPT ![s] = [e EXCEPT !.ctl = ctl, !.stop = stop]]
    BY <1>1, <1>4 DEF Read, Reset, Accum, Ctx
  <2> HIDE DEF ctl
  <2>2. ASSUME NEW x, sets' = [sets EXCEPT ![s] = x], x.nats = e.nats, x.ctl \in {e.ctl, ctl}
        PROVE  Ready'
    BY <1>1, <1>4, <2>1, <2>2, ReadingReady DEF ctl
  <2>3. CASE UNCHANGED sets
    <3>1. sets' = [sets EXCEPT ![s] = e]
      BY <2>3, TypeOKIs DEF KInv, IInv, Alive
    <3> QED BY <2>2, <3>1
  <2>4. CASE sets' = [sets EXCEPT ![s] = [e EXCEPT !.ctl = ctl]]
    <3> DEFINE x == [e EXCEPT !.ctl = ctl]
    <3>1. x.nats = e.nats /\ x.ctl = ctl
      BY <1>1 DEF Good, EventSetInfo
    <3> HIDE DEF x
    <3> QED BY <2>2, <2>4, <3>1 DEF x
  <2>5. ASSUME NEW stop, sets' = [sets EXCEPT ![s] = [e EXCEPT !.ctl = ctl, !.stop = stop]]
        PROVE  Ready'
    <3> DEFINE x == [e EXCEPT !.ctl = ctl, !.stop = stop]
    <3>1. x.nats = e.nats /\ x.ctl = ctl
      BY <1>1 DEF Good, EventSetInfo
    <3> HIDE DEF x
    <3> QED BY <2>2, <2>5, <3>1 DEF x
  <2> QED BY <2>1, <2>3, <2>4, <2>5
<1> QED BY <1>2, <1>3, <1>4

\* A domain is only set for an EventSet that has nothing open.
LEMMA SetDomainReady ==
  ASSUME Plain, KInv, NEW s \in Alive, NEW d \in Domains, SetDomain(s, d)
  PROVE  Ready'
<1> DEFINE e == sets[s]
           x == [e EXCEPT !.ctl = [e.ctl EXCEPT !.dom = d]]
<1>1. StaysTyped /\ e \in Good /\ e.master = Self /\ Named(e) /\ Ctx \in Context
  BY SetDomainTypes, OwnIs DEF KInv, IInv, Ready
<1>2. CASE ~e.bound \/ ~Has(s, "STOPPED")
  BY <1>2, RefuseReady DEF SetDomain
<1>3. CASE e.bound /\ Has(s, "STOPPED")
  <2>1. Run = None /\ (s \in Slots /\ e \in Good)
    BY <1>3, OwnIs, IdleIs DEF KInv, SetDomain
  <2>2. e.evs = <<>>
    BY DEF SetDomain, Plain
  <2>3. Names(e.nats) = <<>>
    <3>1. Tidy(e) /\ e.nats \in Seq(Row)
      BY <1>1, GoodIs DEF KInv, OInv
    <3> QED BY <1>1, <2>2, <3>1, EmptyTogether, NamesIs
  <2>4. (sets' = [sets EXCEPT ![s] = x] \/ sets' = [sets EXCEPT ![s] = e]) /\ thr' = Touch(Self, s, Ctx)
    <3>1. (sets' = [sets EXCEPT ![s].ctl.dom = d] \/ UNCHANGED sets) /\ thr' = Touch(Self, s, Ctx)
      BY <1>1, <1>3 DEF SetDomain, Ctx
    <3>2. sets = [sets EXCEPT ![s] = e]
      BY TypeOKIs DEF KInv, IInv
    <3> QED BY <3>1, <3>2
  <2>5. x.nats = e.nats /\ x.ctl.tid = Caller
    <3>1. e.ctl \in ControlState /\ e.ctl.tid = Caller
      BY <1>1, GoodIs DEF Named
    <3> QED BY <1>1, <3>1 DEF Good, EventSetInfo, ControlState
  <2>6. Ctx.on = FALSE
    BY <1>1, <2>1 DEF Context, KInv, Ready
  <2> HIDE DEF x
  <2>7. Named(x) /\ Opens(x, Ctx) /\ Opens(e, Ctx)
    BY <2>3, <2>5 DEF Named, Opens
  <2> QED BY <1>1, <2>1, <2>4, <2>6, <2>7, PutIdle
<1> QED BY <1>2, <1>3

\* Time changes how long the counters have counted.
LEMMA TickReady ==
  ASSUME KInv, Tick
  PROVE  Ready'
<1>1. thr \in [Threads -> ThreadInfo] /\ Self \in Threads
  BY TypeOKIs, EventSetsAssumption DEF KInv, IInv
<1>2. \A x \in ThreadInfo : /\ [x EXCEPT !.ctx.n = @ + 1].running = x.running
                            /\ [x EXCEPT !.ctx.n = @ + 1].from = x.from
                            /\ [x EXCEPT !.ctx.n = @ + 1].ctx.fds = x.ctx.fds
                            /\ [x EXCEPT !.ctx.n = @ + 1].ctx.on = x.ctx.on
  BY DEF ThreadInfo, Context
<1>3. \A t \in Threads : /\ thr'[t].running = thr[t].running /\ thr'[t].from = thr[t].from
                         /\ thr'[t].ctx.fds = thr[t].ctx.fds /\ thr'[t].ctx.on = thr[t].ctx.on
  BY <1>1, <1>2 DEF Tick
<1>4. UNCHANGED sets /\ Alive' = Alive
  BY DEF Tick, Alive
<1> QED BY <1>1, <1>3, <1>4 DEF KInv, Ready, Opens, Run, From, Ctx

LEMMA NextReady ==
  ASSUME Plain, KInv, [Next]_vars
  PROVE  KInv'
<1>1. IInv' /\ OInv'
  BY NextRuns, NextTidy DEF KInv, Plain
<1>2. Ready'
  <2>1. CASE Create \/ Tick
    BY <2>1, CreateReady, TickReady
  <2>2. ASSUME NEW s \in Alive, Call(s) PROVE Ready'
    <3>1. ~(\E t \in Threads \ {Self} : Attach(s, t)) /\ ~Detach(s)
      BY DEF Plain, Attach, Detach
    <3> QED BY <2>2, <3>1, AssignReady, CleanupReady, DestroyReady, AddEventReady,
               RemoveEventReady, StartReady, StopReady, ReadsReady, SetDomainReady DEF Call
  <2>3. CASE UNCHANGED vars
    BY <2>3 DEF vars, KInv, Ready, Alive, Run, From, Ctx
  <2> QED BY <2>1, <2>2, <2>3 DEF Next
<1> QED BY <1>1, <1>2 DEF KInv

LEMMA InitReady == Init => KInv
<1> SUFFICES ASSUME Init PROVE KInv
  OBVIOUS
<1>1. Alive = {} /\ Run = None /\ From = None /\ \A t \in Threads : thr[t].ctx.on = FALSE
  BY EventSetsAssumption DEF Init, Alive, Run, From, Closed
<1>2. ~Ctx.on
  BY <1>1, EventSetsAssumption DEF Ctx
<1> QED BY <1>1, <1>2, InitRuns, InitTidy DEF KInv, Ready
-----------------------------------------------------------------------------
(* What the application gets from it.                                      *)

\* What is open while an EventSet runs is its group.
LEMMA RunningOpens ==
  ASSUME KInv, NEW s \in Alive, Has(s, "RUNNING")
  PROVE  /\ thr[sets[s].master].ctx = Ctx /\ thr[sets[s].master].from = From
         /\ Ctx.on /\ From = s /\ Ctx.fds = Group(Names(sets[s].nats), sets[s].ctl.dom)
<1>1. Run = s /\ s # None /\ sets[s].master = Self
  BY OwnIs DEF KInv
<1>2. Ctx.on /\ From = s /\ Names(sets[s].nats) # <<>> /\ Ctx.fds # <<>>
  BY <1>1 DEF KInv, Ready
<1>3. Ctx.fds = Group(Names(sets[s].nats), sets[s].ctl.dom)
  BY <1>2 DEF KInv, Ready, Opens
<1> QED BY <1>1, <1>2, <1>3 DEF Ctx, From

\* While an EventSet runs, its ThreadInfo's context counts its native events and
\* nothing else, in its own domain and for its own thread, so that it can be read
\* and stopped: whichever EventSets of the thread were last to use the context,
\* and whatever was refused before.
THEOREM CountsItsOwnHolds ==
  ASSUME Plain
  PROVE  Spec => []CountsItsOwn
<1>1. Init => KInv
  BY InitReady
<1>2. KInv /\ [Next]_vars => KInv'
  BY NextReady
<1>3. KInv => CountsItsOwn
  <2> SUFFICES ASSUME KInv, NEW s \in Alive, Has(s, "RUNNING"), NEW ctx, ctx = thr[sets[s].master].ctx
               PROVE  /\ ctx.on /\ thr[sets[s].master].from = s
                      /\ ctx.fds = [i \in DOMAIN sets[s].nats |->
                                      [nat |-> sets[s].nats[i].nat,
                                       dom |-> sets[s].ctl.dom, tid |-> sets[s].ctl.tid]]
    BY DEF CountsItsOwn
  <2>1. ctx.on /\ thr[sets[s].master].from = s
    BY RunningOpens
  <2>2. ctx.fds = Group(Names(sets[s].nats), sets[s].ctl.dom)
    BY RunningOpens
  <2>3. sets[s].ctl.tid = Caller
    BY DEF KInv, Ready, Named
  <2>4. Group(Names(sets[s].nats), sets[s].ctl.dom)
          = [i \in DOMAIN sets[s].nats |->
               [nat |-> sets[s].nats[i].nat, dom |-> sets[s].ctl.dom, tid |-> Caller]]
    BY DEF Group, Names
  <2> QED BY <2>1, <2>2, <2>3, <2>4
<1> QED BY <1>1, <1>2, <1>3, PTL DEF Spec
-----------------------------------------------------------------------------
(* Positions: the array of native events is kept in the order of their     *)
(* positions, also by an addition that fails, and what runs is that array. *)
(* A removal moves native events without looking the positions up again.   *)

\* Native events are where their positions say.
InOrder(nats) == \A j \in 1..Len(nats) : nats[j].pos = j

\* An event has the positions of its native events.
At(ev, nats) ==
  \A k \in DOMAIN ev.pos : /\ ev.pos[k] \in 1..Len(nats)
                           /\ nats[ev.pos[k]].nat = NativesOf(ev.code)[k]

Placed(e) == InOrder(e.nats) /\ \A i \in 1..Len(e.evs) : At(e.evs[i], e.nats)

Places == \A s \in Alive : Placed(sets[s])

PInv == KInv /\ Places

-----------------------------------------------------------------------------
(* Looking positions up.                                                   *)

\* An event that is new or listed.
Unlooked(ev) == ev \in EventInfo \/ \E c \in Codes : ev = Blank(c)

LEMMA LocatedAt ==
  ASSUME NEW nats \in Seq(NativeInfo), InOrder(nats), NEW ev, Unlooked(ev),
         Needs(ev.code) \subseteq Mapped(nats)
  PROVE  At(Located(ev, nats), nats)
<1> DEFINE N == NativesOf(ev.code)
           Q == [k \in DOMAIN N |-> PosIn(nats, N[k], ev.pos[k])]
<1>1. ev = [code |-> ev.code, pos |-> ev.pos] /\ DOMAIN ev = {"code", "pos"}
  BY DEF Unlooked, EventInfo, Blank
<1>2. Located(ev, nats) = [code |-> ev.code, pos |-> Q]
  BY <1>1 DEF Located
<1>3. DOMAIN nats = 1..Len(nats)
  BY LenProperties
<1>4. ASSUME NEW k \in DOMAIN N
      PROVE  Q[k] \in 1..Len(nats) /\ nats[Q[k]].nat = N[k]
  <2>1. N[k] \in Mapped(nats)
    BY DEF Needs
  <2>2. \E i \in DOMAIN nats : nats[i].nat = N[k]
    BY <2>1 DEF Mapped
  <2> DEFINE i == CHOOSE j \in DOMAIN nats : nats[j].nat = N[k]
  <2>3. i \in DOMAIN nats /\ nats[i].nat = N[k]
    BY <2>2
  <2>4. Q[k] = nats[i].pos
    BY <2>1 DEF PosIn
  <2> HIDE DEF i, Q, N
  <2> QED BY <1>3, <2>3, <2>4 DEF InOrder
<1> HIDE DEF N
<1> QED BY <1>2, <1>4 DEF At, N

\* What an array gets positions for is in order.
LEMMA PositionedInOrder ==
  ASSUME NEW nats \in Seq(Row)
  PROVE  InOrder(Positioned(nats))
<1>1. Len(nats) \in Nat /\ DOMAIN nats = 1..Len(nats) /\ \A i \in 1..Len(nats) : nats[i] \in Row
  BY LenProperties, ElementOfSeq
<1>2. Len(Positioned(nats)) = Len(nats)
  BY PositionedAlike DEF Alike
<1>3. \A r \in Row, i \in Int : [r EXCEPT !.pos = i].pos = i
  BY DEF Row
<1>4. \A j \in 1..Len(nats) : Positioned(nats)[j] = [nats[j] EXCEPT !.pos = j]
  BY <1>1 DEF Positioned
<1>5. \A j \in 1..Len(nats) : j \in Int
  BY <1>1
<1>6. ASSUME NEW j \in 1..Len(nats) PROVE Positioned(nats)[j].pos = j
  <2>1. nats[j] \in Row /\ j \in Int
    BY <1>1, <1>5
  <2>2. [nats[j] EXCEPT !.pos = j].pos = j
    BY <2>1 DEF Row
  <2> QED BY <1>4, <2>2
<1> QED BY <1>2, <1>6 DEF InOrder

\* An array with the same native events in the same order does as well.
LEMMA AlikePlaced ==
  ASSUME NEW e, Placed(e), NEW x, x.evs = e.evs, Alike(x.nats, e.nats), InOrder(x.nats)
  PROVE  Placed(x)
BY DEF Placed, At, Alike

LEMMA EmptyPlaced ==
  ASSUME NEW x, x.evs = <<>>, x.nats = <<>>
  PROVE  Placed(x)
<1>1. Len(<<>>) = 0 /\ 1..0 = {}
  BY EmptySeq
<1> QED BY <1>1 DEF Placed, InOrder

\* All events of a list looked up again.
LEMMA RemapPlaced ==
  ASSUME NEW nats \in Seq(NativeInfo), InOrder(nats), NEW n \in Nat, NEW evs, DOMAIN evs = 1..n,
         \A i \in 1..n : Unlooked(evs[i]) /\ Needs(evs[i].code) \subseteq Mapped(nats)
  PROVE  \A i \in 1..n : At(Remap(evs, nats)[i], nats)
<1>1. \A i \in 1..n : Remap(evs, nats)[i] = Located(evs[i], nats)
  BY DEF Remap
<1> QED BY <1>1, LocatedAt
-----------------------------------------------------------------------------
(* Every call keeps them.                                                  *)

LEMMA PutPlaced ==
  ASSUME PInv, NEW s \in Alive, StaysTyped, NEW x, sets' = [sets EXCEPT ![s] = x], Placed(x)
  PROVE  Places'
<1>1. \A r \in Alive : sets'[r] = IF r = s THEN x ELSE sets[r]
  BY TypeOKIs DEF PInv, KInv, IInv, Alive
<1> QED BY <1>1 DEF PInv, Places, StaysTyped

LEMMA SamePlaced ==
  ASSUME NEW e, Placed(e), NEW x, Same(x, e)
  PROVE  Placed(x)
BY DEF Same, Placed

LEMMA StillPlaced ==
  ASSUME PInv, UNCHANGED sets
  PROVE  Places'
BY DEF PInv, Places, Alive

\* The new event alone is looked up; what it shares stays where it is.
LEMMA AddSharedPlaced ==
  ASSUME PInv, NEW s \in Alive, StaysTyped, NEW e \in Good, Placed(e), NEW c \in Codes,
         AddShared(s, e, c)
  PROVE  Places'
<1> DEFINE A == AddNatives(e.nats, c)
           ev == Located(Blank(c), A)
           x == Sharing(e, c, A)
<1>1. /\ e.nats \in Seq(NativeInfo) /\ Len(e.nats) \in Nat
      /\ e.evs \in Seq(EventInfo) /\ Len(e.evs) \in Nat
  BY GoodIs
<1>2. A \in Seq(NativeInfo) /\ Needs(c) \subseteq Mapped(A) /\ Len(A) = Len(e.nats)
  <2>1. Len(NewNatives(e.nats, c)) = 0
    BY EmptySeq DEF AddShared
  <2> QED BY <1>1, <2>1, AddNativesIs DEF AddShared
<1>3. \A i \in 1..Len(e.nats) : A[i].nat = e.nats[i].nat /\ A[i].pos = e.nats[i].pos
  BY <1>1, AddedRows
<1>4. x.evs = Append(e.evs, ev) /\ x.nats = A
  BY DEF Sharing, Good, EventSetInfo
<1>5. ev \in EventInfo
  BY <1>2, LocatedIs
<1>6. sets' = [sets EXCEPT ![s] = x]
  BY DEF AddShared
<1> HIDE DEF x, A
<1>7. InOrder(A)
  BY <1>2, <1>3 DEF Placed, InOrder
<1>8. At(ev, A)
  <2>1. Blank(c).code = c
    BY DEF Blank
  <2> QED BY <1>2, <1>7, <2>1, LocatedAt DEF Unlooked
<1>9. \A i \in 1..Len(e.evs) : At(e.evs[i], A)
  BY <1>2, <1>3 DEF Placed, At
<1> HIDE DEF ev
<1>10. /\ Len(x.evs) = Len(e.evs) + 1 /\ x.evs[Len(e.evs) + 1] = ev
       /\ \A i \in 1..Len(e.evs) : x.evs[i] = e.evs[i]
  BY <1>1, <1>4, <1>5, AppendProperties
<1>11. \A i \in 1..(Len(e.evs) + 1) : i \in 1..Len(e.evs) \/ i = Len(e.evs) + 1
  BY <1>1
<1>12. Placed(x)
  BY <1>4, <1>7, <1>8, <1>9, <1>10, <1>11 DEF Placed
<1> QED BY <1>6, <1>12, PutPlaced

\* Where the group is rebuilt all events are looked up; a refused one leaves the
\* native events of before in their order.
LEMMA AddNewPlaced ==
  ASSUME PInv, NEW s \in Alive, StaysTyped, NEW e \in Good, Placed(e), Tidy(e), NEW c \in Codes,
         AddRefusal(e, c) = "OK", AddNew(s, e, c)
  PROVE  Places'
<1> DEFINE A == AddNatives(e.nats, c)
           P == Positioned(A)
           ctl == Configured(e.ctl, A)
           old == FailClean(P, c)
           B == Append(e.evs, Blank(c))
           m == Len(e.evs)
<1>1. /\ e.nats \in Seq(NativeInfo) /\ e.nats \in Seq(Row) /\ Len(e.nats) \in Nat
      /\ e.evs \in Seq(EventInfo) /\ m \in Nat /\ Owned(e.evs, e.nats)
  BY GoodIs DEF Tidy
<1>2. A \in Seq(Row) /\ Len(A) <= NumMpxCntrs /\ Mapped(A) = Mapped(e.nats) \cup Needs(c)
  <2>1. Len(A) \in Nat /\ NumMpxCntrs \in Nat
    BY <1>1, AddNativesIs, NewNativesIs, LenProperties, NativeEventsAssumption
  <2> QED BY <1>1, <2>1, AddNativesIs DEF AddRefusal
<1>3. P \in Seq(NativeInfo) /\ Mapped(P) = Mapped(A) /\ Alike(P, A) /\ InOrder(P)
  BY <1>2, PositionedIs, PositionedAlike, PositionedInOrder
<1>4. \/ sets' = [sets EXCEPT ![s] = [Joined(e, c, P) EXCEPT !.ctl = ctl]]
      \/ \E d : sets' = [sets EXCEPT ![s] = [e EXCEPT !.ctl = d, !.nats = Positioned(old)]]
  BY DEF AddNew
<1>5. /\ DOMAIN B = 1..(m + 1) /\ B[m + 1] = Blank(c)
      /\ \A i \in 1..m : B[i] = e.evs[i]
  <2> DEFINE S == EventInfo \cup {Blank(c)}
  <2>1. e.evs \in Seq(S) /\ Blank(c) \in S
    BY <1>1, SeqMonotonic
  <2> HIDE DEF S
  <2>2. /\ B \in Seq(S) /\ Len(B) = m + 1 /\ B[m + 1] = Blank(c)
        /\ \A i \in 1..m : B[i] = e.evs[i]
    BY <2>1, AppendProperties
  <2> HIDE DEF B
  <2> QED BY <2>2, LenProperties
<1>6. \A i \in 1..(m + 1) : Unlooked(B[i]) /\ Needs(B[i].code) \subseteq Mapped(P)
  <2>1. ASSUME NEW i \in 1..m PROVE Unlooked(B[i]) /\ Needs(B[i].code) \subseteq Mapped(P)
    BY <1>1, <1>2, <1>3, <1>5, ElementOfSeq DEF Unlooked, Owned
  <2>2. Unlooked(B[m + 1]) /\ Needs(B[m + 1].code) \subseteq Mapped(P)
    <3>1. Blank(c).code = c
      BY DEF Blank
    <3> QED BY <1>2, <1>3, <1>5, <3>1 DEF Unlooked
  <2>3. \A i \in 1..(m + 1) : i \in 1..m \/ i = m + 1
    BY <1>1
  <2> HIDE DEF B
  <2> QED BY <2>1, <2>2, <2>3
<1> HIDE DEF A, P, ctl, old
<1>7. CASE sets' = [sets EXCEPT ![s] = [Joined(e, c, P) EXCEPT !.ctl = ctl]]
  <2> DEFINE x == [Joined(e, c, P) EXCEPT !.ctl = ctl]
  <2>1. x.evs = Remap(B, P) /\ x.nats = P
    BY DEF Joined, Good, EventSetInfo
  <2> HIDE DEF x
  <2>2. Len(x.evs) = m + 1
    <3>1. DOMAIN Remap(B, P) = 1..(m + 1)
      BY <1>5 DEF Remap
    <3>2. x.evs \in Seq(EventInfo)
      BY <1>1, <1>2, <1>3, <2>1, AppendedIs
    <3>3. DOMAIN x.evs = 1..Len(x.evs) /\ Len(x.evs) \in Nat
      BY <3>2, LenProperties
    <3> HIDE DEF B
    <3> QED BY <1>1, <2>1, <3>1, <3>3
  <2>3. \A i \in 1..(m + 1) : At(x.evs[i], P)
    <3>1. m + 1 \in Nat
      BY <1>1
    <3> HIDE DEF B
    <3> QED BY <1>3, <1>5, <1>6, <2>1, <3>1, RemapPlaced
  <2>4. Placed(x)
    BY <1>3, <2>1, <2>2, <2>3 DEF Placed
  <2> QED BY <1>7, <2>4, PutPlaced DEF x
<1>8. ASSUME NEW d, sets' = [sets EXCEPT ![s] = [e EXCEPT !.ctl = d, !.nats = Positioned(old)]]
      PROVE  Places'
  <2> DEFINE x == [e EXCEPT !.ctl = d, !.nats = Positioned(old)]
  <2>1. Alike(old, e.nats) /\ old \in Seq(Row)
    BY <1>1, <1>3, FailCleanRestores, FailCleanIs, NativeInfoIsRow DEF A, old
  <2>2. Alike(Positioned(old), e.nats) /\ InOrder(Positioned(old))
    BY <2>1, PositionedAlike, PositionedInOrder DEF Alike
  <2>3. x.evs = e.evs /\ x.nats = Positioned(old)
    BY DEF Good, EventSetInfo
  <2> HIDE DEF x
  <2>4. Placed(x)
    BY <2>2, <2>3, AlikePlaced
  <2> QED BY <1>8, <2>4, PutPlaced DEF x
<1> QED BY <1>4, <1>7, <1>8

LEMMA AddEventPlaced ==
  ASSUME PInv, NEW s \in Alive, NEW c \in Codes, AddEvent(s, c)
  PROVE  Places'
<1> DEFINE e == IF sets[s].bound THEN sets[s] ELSE Bind(sets[s])
<1>1. StaysTyped
  BY AddEventTypes DEF PInv, KInv, IInv
<1>2. e \in Good
  BY AliveIs, NewEventSetIs DEF PInv, KInv, IInv
<1>3. Placed(e) /\ Tidy(e)
  <2>1. CASE sets[s].bound
    BY <2>1 DEF PInv, Places, KInv, OInv
  <2>2. CASE ~sets[s].bound
    <3>1. e.evs = <<>> /\ e.nats = <<>>
      BY <2>2 DEF Bind, Empty
    <3> HIDE DEF e
    <3> QED BY <3>1, EmptyPlaced, NothingTidy
  <2> QED BY <2>1, <2>2
<1>4. \/ UNCHANGED sets
      \/ sets' = [sets EXCEPT ![s] = e]
      \/ AddShared(s, e, c)
      \/ AddRefusal(e, c) = "OK" /\ AddNew(s, e, c)
  BY DEF AddEvent, Refuse
<1> HIDE DEF e
<1> QED BY <1>1, <1>2, <1>3, <1>4, StillPlaced, PutPlaced, AddSharedPlaced, AddNewPlaced

\* PAPI_start looks all events up when it opens the group.
LEMMA StartPlaced ==
  ASSUME PInv, NEW s \in Alive, Start(s)
  PROVE  Places'
<1> DEFINE e == sets[s]
           ctl == Configured(e.ctl, e.nats)
           P == Positioned(e.nats)
           evs == Remap(e.evs, P)
           fresh == [e EXCEPT !.ctl = ctl, !.nats = P, !.evs = evs]
           moved == [e EXCEPT !.ctl = ctl, !.nats = P]
<1>1. StaysTyped /\ e \in Good /\ Placed(e) /\ Tidy(e)
  BY StartTypes, AliveIs DEF PInv, Places, KInv, OInv, IInv
<1>2. \/ UNCHANGED sets
      \/ \E y \in {e, fresh} : \/ sets' = [sets EXCEPT ![s] = Marked(y)]
                               \/ sets' = [sets EXCEPT ![s] = Unmarked(Marked(y))]
      \/ sets' = [sets EXCEPT ![s] = moved]
  BY DEF Start, Launch, Refuse
<1>3. /\ e.evs \in Seq(EventInfo) /\ Len(e.evs) \in Nat /\ DOMAIN e.evs = 1..Len(e.evs)
      /\ e.nats \in Seq(Row) /\ Len(e.nats) <= NumMpxCntrs
  BY <1>1, GoodIs, LenProperties
<1>4. P \in Seq(NativeInfo) /\ Mapped(P) = Mapped(e.nats) /\ Alike(P, e.nats) /\ InOrder(P)
  BY <1>3, PositionedIs, PositionedAlike, PositionedInOrder
<1>5. /\ fresh.evs = evs /\ fresh.nats = P
      /\ moved.evs = e.evs /\ moved.nats = P
  <2> HIDE DEF P, evs, ctl
  <2> QED BY <1>1 DEF Good, EventSetInfo
<1>6. fresh \in Good
  BY <1>1, StartedIs
<1> HIDE DEF fresh, moved, P
<1>7. Placed(fresh)
  <2>1. \A i \in 1..Len(e.evs) : Unlooked(e.evs[i]) /\ Needs(e.evs[i].code) \subseteq Mapped(P)
    BY <1>1, <1>3, <1>4, ElementOfSeq DEF Unlooked, Tidy, Owned
  <2>2. \A i \in 1..Len(e.evs) : At(evs[i], P)
    BY <1>3, <1>4, <2>1, RemapPlaced
  <2>3. Len(evs) = Len(e.evs)
    BY <1>3 DEF Remap
  <2> HIDE DEF evs
  <2> QED BY <1>4, <1>5, <2>2, <2>3 DEF Placed
<1>8. Placed(moved)
  BY <1>1, <1>4, <1>5, AlikePlaced
<1>9. \A y \in Good : Same(Marked(y), y) /\ Same(Unmarked(Marked(y)), y)
  BY DEF Same, Marked, Unmarked, Good, EventSetInfo
<1>10. \A y \in {e, fresh} : Placed(Marked(y)) /\ Placed(Unmarked(Marked(y)))
  BY <1>1, <1>6, <1>7, <1>9, SamePlaced
<1> QED BY <1>1, <1>2, <1>8, <1>10, StillPlaced, PutPlaced
-----------------------------------------------------------------------------
(* The invariant, and what the application gets from it.                   *)

LEMMA CallPlaced ==
  ASSUME Liberties = {}, PInv, NEW s \in Alive, Call(s)
  PROVE  Places'
<1>1. CASE Assign(s) \/ Cleanup(s)
  <2>1. StaysTyped
    BY <1>1, AssignTypes, CleanupTypes DEF PInv, KInv, IInv
  <2> DEFINE b == Bind(sets[s])
             u == [Empty EXCEPT !.state = sets[s].state, !.master = sets[s].master]
  <2>2. UNCHANGED sets \/ sets' = [sets EXCEPT ![s] = b] \/ sets' = [sets EXCEPT ![s] = u]
    BY <1>1 DEF Assign, Cleanup, Refuse
  <2>3. b.evs = <<>> /\ b.nats = <<>> /\ u.evs = <<>> /\ u.nats = <<>>
    BY DEF Bind, Empty
  <2> HIDE DEF b, u
  <2>4. Placed(b) /\ Placed(u)
    BY <2>3, EmptyPlaced
  <2> QED BY <2>1, <2>2, <2>4, StillPlaced, PutPlaced
<1>2. CASE Destroy(s)
  <2>1. UNCHANGED sets \/ sets' = [sets EXCEPT ![s] = None]
    BY <1>2 DEF Destroy, Refuse
  <2>2. CASE sets' = [sets EXCEPT ![s] = None]
    <3>1. Alive' = Alive \ {s} /\ \A r \in Alive' : sets'[r] = sets[r]
      BY <2>2, TypeOKIs DEF PInv, KInv, IInv, Alive
    <3> QED BY <3>1 DEF PInv, Places
  <2> QED BY <2>1, <2>2, StillPlaced
<1>3. ASSUME NEW c \in Codes, AddEvent(s, c) \/ RemoveEvent(s, c) PROVE Places'
  <2>1. ~RemoveEvent(s, c)
    BY DEF RemoveEvent
  <2> QED BY <1>3, <2>1, AddEventPlaced
<1>4. CASE Start(s)
  BY <1>4, StartPlaced
<1>5. CASE ~(Assign(s) \/ Cleanup(s) \/ Destroy(s) \/ Start(s)
             \/ \E c \in Codes : AddEvent(s, c) \/ RemoveEvent(s, c))
  <2>1. StaysTyped /\ \E x : Same(x, sets[s]) /\ sets' = [sets EXCEPT ![s] = x]
    BY <1>5, OthersSame DEF Call, PInv, KInv
  <2> QED BY <2>1, SamePlaced, PutPlaced DEF PInv, Places
<1> QED BY <1>1, <1>2, <1>3, <1>4, <1>5

LEMMA NextPlaced ==
  ASSUME Liberties = {}, PInv, [Next]_vars
  PROVE  PInv'
<1>1. KInv'
  BY NextReady DEF PInv, Plain
<1>2. Places'
  <2>1. CASE Create
    <3>1. PICK s \in Slots : sets[s] = None /\ sets' = [sets EXCEPT ![s] = Empty]
      BY <2>1 DEF Create
    <3>2. \A r \in Alive' : r = s \/ r \in Alive
      BY <3>1, TypeOKIs DEF PInv, KInv, IInv, Alive
    <3>3. \A r \in Alive' : sets'[r] = IF r = s THEN Empty ELSE sets[r]
      BY <3>1, TypeOKIs DEF PInv, KInv, IInv, Alive
    <3>4. Placed(Empty)
      BY EmptyPlaced DEF Empty
    <3> QED BY <3>2, <3>3, <3>4 DEF PInv, Places
  <2>2. CASE Tick \/ UNCHANGED vars
    BY <2>2, StillPlaced DEF Tick, vars
  <2> QED BY <2>1, <2>2, CallPlaced DEF Next
<1> QED BY <1>1, <1>2 DEF PInv

\* While an EventSet runs, each of its events looks for its counts where the
\* context has the counters of its native events, if the application takes no
\* liberty.
THEOREM PositionsHoldHolds ==
  ASSUME Liberties = {}
  PROVE  Spec => []PositionsHold
<1>1. Init => PInv
  <2>1. Init => Alive = {}
    BY DEF Init, Alive
  <2> QED BY <2>1, InitReady DEF PInv, Places
<1>2. PInv /\ [Next]_vars => PInv'
  BY NextPlaced
<1>3. PInv => PositionsHold
  <2> SUFFICES ASSUME PInv, NEW s \in Alive, Has(s, "RUNNING"),
                      NEW i \in DOMAIN sets[s].evs, NEW k \in DOMAIN sets[s].evs[i].pos,
                      NEW fds, fds = thr[sets[s].master].ctx.fds
               PROVE  /\ sets[s].evs[i].pos[k] \in DOMAIN fds
                      /\ fds[sets[s].evs[i].pos[k]].nat = NativesOf(sets[s].evs[i].code)[k]
    BY DEF PositionsHold
  <2>1. fds = Group(Names(sets[s].nats), sets[s].ctl.dom)
    BY RunningOpens DEF PInv
  <2>2. sets[s] \in Good
    BY AliveIs DEF PInv, KInv, IInv
  <2>3. DOMAIN sets[s].evs = 1..Len(sets[s].evs) /\ DOMAIN sets[s].nats = 1..Len(sets[s].nats)
    BY <2>2, GoodIs, LenProperties
  <2>4. At(sets[s].evs[i], sets[s].nats)
    BY <2>3 DEF PInv, Places, Placed
  <2>5. DOMAIN fds = 1..Len(sets[s].nats) /\ \A j \in 1..Len(sets[s].nats) : fds[j].nat = sets[s].nats[j].nat
    BY <2>1, <2>3 DEF Group, Names
  <2> QED BY <2>4, <2>5 DEF At
<1> QED BY <1>1, <1>2, <1>3, PTL DEF Spec

-----------------------------------------------------------------------------
(***************************************************************************)
(* EventSets implements CountingService for an application that takes no   *)
(* liberty: for any number of EventSets, events and counters, what a call  *)
(* gives for an EventSet are the readings of its own events over its own   *)
(* time, and a call that fails changes none.                               *)
(*                                                                         *)
(* PInv says where the counts of a running EventSet are. What is left for  *)
(* the invariant here is the EventSet that does not run: sw_stop is zero   *)
(* beyond the events it has, and it has the default domain until it is     *)
(* bound.                                                                  *)
(***************************************************************************)

Spare(e) ==
  /\ \A i \in 1..NumMpxCntrs : i > Len(e.evs) => e.stop[i] = {}
  /\ ~e.bound => e.ctl.dom = DefaultDomain

Spares == \A s \in Alive : Spare(sets[s])

SInv == PInv /\ Spares

-----------------------------------------------------------------------------
(* What shows of an EventSet.                                              *)

CodesOf(evs) == [i \in DOMAIN evs |-> evs[i].code]

Runs(e) == "RUNNING" \in e.state

View(e, n) == [events  |-> CodesOf(e.evs), dom |-> e.ctl.dom, running |-> Runs(e),
               n |-> IF Runs(e) THEN n ELSE 0,
               held |-> IF Runs(e) THEN <<>> ELSE Stopped(e)]

Views == [s \in Slots |-> Shown(s)]

\* A record is never NULL.
LEMMA ViewIs ==
  ASSUME NEW e \in Good, NEW n \in Nat
  PROVE  /\ View(e, n) # None /\ View(e, n) \in Shows
         /\ View(e, n).events = CodesOf(e.evs) /\ View(e, n).dom = e.ctl.dom
         /\ View(e, n).running = Runs(e)
         /\ View(e, n).n = IF Runs(e) THEN n ELSE 0
         /\ View(e, n).held = IF Runs(e) THEN <<>> ELSE Stopped(e)
<1>1. CodesOf(e.evs) \in Seq(Codes)
  <2>1. e.evs \in Seq(EventInfo) /\ Len(e.evs) \in Nat /\ DOMAIN e.evs = 1..Len(e.evs)
    BY GoodIs, LenProperties
  <2>2. \A i \in 1..Len(e.evs) : e.evs[i].code \in Codes
    BY <2>1, ElementOfSeq DEF EventInfo
  <2>3. CodesOf(e.evs) \in [1..Len(e.evs) -> Codes]
    BY <2>1, <2>2 DEF CodesOf
  <2> QED BY <2>1, <2>3, SeqDef
<1>2. Stopped(e) \in Seq(SUBSET Counts) /\ <<>> \in Seq(SUBSET Counts)
  BY StoppedIs, EmptySeq
<1>3. e.ctl.dom \in Domains
  BY GoodIs DEF ControlState
<1>4. View(e, n) \in Shows
  BY <1>1, <1>2, <1>3 DEF View, Runs, Shows
<1>5. View(e, n) # None
  BY <1>4, ServiceAssumption
<1> QED BY <1>4, <1>5 DEF View

LEMMA ShowsSame ==
  ASSUME NEW u \in Shows, NEW w \in Shows, u.events = w.events, u.dom = w.dom,
         u.running = w.running, u.n = w.n, u.held = w.held
  PROVE  u = w
BY DEF Shows

\* What the calls of the service make of an EventSet.
LEMMA AddedShow ==
  ASSUME NEW v \in Shows, NEW c \in Codes, NEW w \in Shows,
         w.events = Append(v.events, c), w.held = Append(v.held, {}),
         w.dom = v.dom, w.running = v.running, w.n = v.n
  PROVE  w = [v EXCEPT !.events = Append(@, c), !.held = Append(@, {})]
<1> DEFINE a == Append(v.events, c)
           h == Append(v.held, {})
           u == [v EXCEPT !.events = a, !.held = h]
<1>1. a \in Seq(Codes) /\ h \in Seq(SUBSET Counts)
  BY AppendProperties DEF Shows
<1> HIDE DEF a, h
<1>2. u \in Shows /\ u.events = a /\ u.held = h
  BY <1>1 DEF Shows
<1>3. u.dom = v.dom /\ u.running = v.running /\ u.n = v.n
  BY DEF Shows
<1>4. [v EXCEPT !.events = a].held = v.held
  BY DEF Shows
<1> HIDE DEF u
<1>5. w = u
  BY <1>2, <1>3, ShowsSame DEF a, h
<1> QED BY <1>4, <1>5 DEF u, a, h

LEMMA StartedShow ==
  ASSUME NEW v \in Shows, NEW w \in Shows, w.events = v.events, w.dom = v.dom,
         w.running = TRUE, w.n = 0, w.held = <<>>
  PROVE  w = [v EXCEPT !.running = TRUE, !.n = 0, !.held = <<>>]
<1> DEFINE u == [v EXCEPT !.running = TRUE, !.n = 0, !.held = <<>>]
<1>1. <<>> \in Seq(SUBSET Counts)
  BY EmptySeq
<1>2. /\ u \in Shows /\ u.events = v.events /\ u.dom = v.dom
      /\ u.running = TRUE /\ u.n = 0 /\ u.held = <<>>
  BY <1>1 DEF Shows
<1> HIDE DEF u
<1>3. w = u
  BY <1>2, ShowsSame
<1> QED BY <1>3 DEF u

LEMMA StoppedShow ==
  ASSUME NEW v \in Shows, NEW w \in Shows, w.events = v.events, w.dom = v.dom,
         w.running = FALSE, w.n = 0
  PROVE  w = [v EXCEPT !.running = FALSE, !.n = 0, !.held = w.held]
<1> DEFINE h == w.held
           u == [v EXCEPT !.running = FALSE, !.n = 0, !.held = h]
<1>1. h \in Seq(SUBSET Counts)
  BY DEF Shows
<1> HIDE DEF h
<1>2. /\ u \in Shows /\ u.events = v.events /\ u.dom = v.dom
      /\ u.running = FALSE /\ u.n = 0 /\ u.held = h
  BY <1>1 DEF Shows
<1> HIDE DEF u
<1>3. w = u
  BY <1>2, ShowsSame DEF h
<1> QED BY <1>3 DEF u, h

LEMMA ClearedShow ==
  ASSUME NEW v \in Shows, NEW w \in Shows, w.events = v.events, w.dom = v.dom,
         w.running = v.running, w.n = 0, w.held = Service!Zero(Len(v.held))
  PROVE  w = Service!Cleared(v)
<1> DEFINE h == w.held
           u == [v EXCEPT !.n = 0, !.held = h]
<1>1. h \in Seq(SUBSET Counts) /\ h = Service!Zero(Len(v.held))
  BY DEF Shows
<1> HIDE DEF h
<1>2. /\ u \in Shows /\ u.events = v.events /\ u.dom = v.dom
      /\ u.running = v.running /\ u.n = 0 /\ u.held = h
  BY <1>1 DEF Shows
<1>3. [v EXCEPT !.n = 0].held = v.held
  BY DEF Shows
<1> HIDE DEF u
<1>4. w = u
  BY <1>2, ShowsSame DEF h
<1> QED BY <1>1, <1>3, <1>4 DEF u, Service!Cleared

LEMMA ChosenShow ==
  ASSUME NEW v \in Shows, NEW w \in Shows, NEW d \in Domains, w.events = v.events, w.dom = d,
         w.running = v.running, w.n = v.n, w.held = v.held
  PROVE  w = [v EXCEPT !.dom = d]
<1> DEFINE u == [v EXCEPT !.dom = d]
<1>1. /\ u \in Shows /\ u.events = v.events /\ u.dom = d
      /\ u.running = v.running /\ u.n = v.n /\ u.held = v.held
  BY DEF Shows
<1> HIDE DEF u
<1>2. w = u
  BY <1>1, ShowsSame
<1> QED BY <1>2 DEF u

LEMMA CountedShow ==
  ASSUME NEW v \in Shows, NEW w \in Shows, w.events = v.events, w.dom = v.dom,
         w.running = v.running, w.n = v.n + 1, w.held = v.held
  PROVE  w = [v EXCEPT !.n = @ + 1]
<1> DEFINE k == v.n + 1
           u == [v EXCEPT !.n = k]
<1>1. k \in Nat
  BY DEF Shows
<1> HIDE DEF k
<1>2. /\ u \in Shows /\ u.events = v.events /\ u.dom = v.dom
      /\ u.running = v.running /\ u.n = k /\ u.held = v.held
  BY <1>1 DEF Shows
<1> HIDE DEF u
<1>3. w = u
  BY <1>2, ShowsSame DEF k
<1> QED BY <1>3 DEF u, k

LEMMA ShownIs ==
  ASSUME IInv
  PROVE  \A s \in Slots : Shown(s) = IF sets[s] = None THEN None ELSE View(sets[s], Ctx.n)
<1> SUFFICES ASSUME NEW s \in Slots, sets[s] # None
             PROVE  Shown(s) = View(sets[s], Ctx.n)
  BY DEF Shown
<1>1. s \in Alive /\ sets[s].master = Self
  BY OwnIs DEF Alive
<1> QED BY <1>1 DEF Shown, View, CodesOf, Runs, Has, Ctx

\* The same after a step.
LEMMA ShownNext ==
  ASSUME IInv'
  PROVE  \A s \in Slots : Shown(s)' = IF sets'[s] = None THEN None ELSE View(sets'[s], Ctx'.n)
<1> SUFFICES ASSUME NEW s \in Slots, sets'[s] # None
             PROVE  Shown(s)' = View(sets'[s], Ctx'.n)
  BY DEF Shown
<1>1. sets'[s].master = Self
  BY DEF IInv, Home, Alive
<1> QED BY <1>1 DEF Shown, View, CodesOf, Runs, Has, Ctx

\* Handles that are in use for the service.
LEMMA LiveIs ==
  ASSUME IInv
  PROVE  Service!Live = Alive
<1>1. \A s \in Alive : View(sets[s], Ctx.n) # None
  <2>1. \A s \in Alive : sets[s] \in Good /\ Ctx.n \in Nat
    BY OwnIs DEF Context
  <2> QED BY <2>1, ViewIs
<1> QED BY <1>1, ShownIs DEF Service!Live, Alive

\* A step that changes what is in one slot, seen by the service.
LEMMA BecomesIs ==
  ASSUME IInv, IInv', NEW s \in Slots, NEW x \in Good \cup {None}, sets' = [sets EXCEPT ![s] = x],
         UNCHANGED thr \/ Run \in {None, s}
  PROVE  Views' = [Views EXCEPT ![s] = IF x = None THEN None ELSE View(x, Ctx'.n)]
<1>1. \A r \in Slots : sets'[r] = IF r = s THEN x ELSE sets[r]
  BY TypeOKIs DEF IInv
<1>2. Shown(s)' = IF x = None THEN None ELSE View(x, Ctx'.n)
  BY <1>1, ShownNext
<1>3. ASSUME NEW r \in Slots, r # s PROVE Shown(r)' = Shown(r)
  <2>1. sets[r] = None \/ (r \in Alive /\ sets[r] # None)
    BY DEF Alive
  <2>2. sets'[r] = sets[r]
    BY <1>1, <1>3
  <2>3. CASE sets[r] = None
    BY <2>2, <2>3, ShownIs, ShownNext
  <2>4. CASE sets[r] # None /\ r \in Alive
    <3>1. Runs(sets[r]) => Ctx' = Ctx
      BY <1>3, <2>4, OwnIs DEF Runs, Has, Ctx
    <3>2. View(sets[r], Ctx'.n) = View(sets[r], Ctx.n)
      BY <3>1 DEF View
    <3> QED BY <2>2, <2>4, <3>2, ShownIs, ShownNext
  <2> QED BY <2>1, <2>3, <2>4
<1> QED BY <1>2, <1>3 DEF Views

\* An EventSet that does not run, and one that does.
LEMMA IdleView ==
  ASSUME NEW x, ~Runs(x), NEW n
  PROVE  View(x, n) = [events |-> CodesOf(x.evs), dom |-> x.ctl.dom, running |-> FALSE, n |-> 0,
                       held |-> Stopped(x)]
<1>1. Runs(x) = FALSE
  BY DEF Runs
<1> QED BY <1>1 DEF View

LEMMA BusyView ==
  ASSUME NEW x, Runs(x), NEW n
  PROVE  View(x, n) = [events |-> CodesOf(x.evs), dom |-> x.ctl.dom, running |-> TRUE, n |-> n,
                       held |-> <<>>]
<1>1. Runs(x) = TRUE
  BY DEF Runs
<1> QED BY <1>1 DEF View

\* EventSets that show the same.
LEMMA SameView ==
  ASSUME NEW x, NEW e, NEW n, NEW m, CodesOf(x.evs) = CodesOf(e.evs), x.ctl.dom = e.ctl.dom,
         Runs(x) <=> Runs(e), Runs(e) => n = m, ~Runs(e) => Stopped(x) = Stopped(e)
  PROVE  View(x, n) = View(e, m)
BY DEF View, Runs

\* The same events with the same domain and sw_stop in the same state.
LEMMA SameFieldsView ==
  ASSUME NEW x, NEW e, NEW n, NEW m, CodesOf(x.evs) = CodesOf(e.evs), x.ctl.dom = e.ctl.dom,
         x.state = e.state, Runs(e) => n = m, DOMAIN x.evs = DOMAIN e.evs, x.stop = e.stop
  PROVE  View(x, n) = View(e, m)
BY DEF View, Runs, Stopped
-----------------------------------------------------------------------------
(* Calls that the service answers with a refusal, or without a trace.      *)

\* What is to be shown of every step.
Serves == Spares' /\ [Service!Next]_<<Views, ret>>

\* Spare of an EventSet that is put in a slot.
LEMMA PutSpare ==
  ASSUME SInv, NEW s \in Slots, NEW x, sets' = [sets EXCEPT ![s] = x], x # None => Spare(x)
  PROVE  Spares'
<1>1. \A r \in Slots : sets'[r] = IF r = s THEN x ELSE sets[r]
  BY TypeOKIs DEF SInv, PInv, KInv, IInv
<1> QED BY <1>1 DEF SInv, Spares, Alive

LEMMA StillViews ==
  ASSUME SInv, UNCHANGED <<sets, thr>>
  PROVE  Views' = Views /\ Spares'
BY DEF Views, Shown, Has, Stopped, SInv, Spares, Alive

LEMMA StillServes ==
  ASSUME SInv, UNCHANGED <<sets, thr>>, ret'.set = None
  PROVE  Serves
<1>1. Views' = Views /\ Spares'
  BY StillViews
<1> QED BY <1>1 DEF Serves, Views, Service!Next, Service!Refused

LEMMA RefuseServes ==
  ASSUME SInv, NEW code, Refuse(code)
  PROVE  Serves
BY StillServes DEF Refuse, Reply

\* A call that changes nothing that shows.
LEMMA HiddenViews ==
  ASSUME SInv, IInv', NEW s \in Alive, NEW x \in Good, sets' = [sets EXCEPT ![s] = x],
         UNCHANGED thr \/ Run \in {None, s}, View(x, Ctx'.n) = View(sets[s], Ctx.n),
         Spare(x)
  PROVE  Views' = Views /\ Spares'
<1>1. Shown(s) = View(sets[s], Ctx.n) /\ s \in Slots /\ x # None
  BY ShownIs, EventSetsAssumption DEF Alive, SInv, PInv, KInv, Good
<1>2. Views' = Views
  BY <1>1, BecomesIs DEF Views, SInv, PInv, KInv
<1>3. Spares'
  BY <1>1, PutSpare
<1> QED BY <1>2, <1>3

LEMMA HiddenServes ==
  ASSUME SInv, IInv', NEW s \in Alive, NEW x \in Good, sets' = [sets EXCEPT ![s] = x],
         UNCHANGED thr \/ Run \in {None, s}, View(x, Ctx'.n) = View(sets[s], Ctx.n),
         Spare(x), ret'.set = None
  PROVE  Serves
<1>1. Views' = Views /\ Spares'
  BY HiddenViews
<1> QED BY <1>1 DEF Serves, Views, Service!Next, Service!Refused

\* What a call leaves in the slot of an EventSet that stays is one.
LEMMA StayedGood ==
  ASSUME SInv, StaysTyped, NEW s \in Alive, NEW x, sets' = [sets EXCEPT ![s] = x]
  PROVE  x \in Good
<1>1. s \in Alive' /\ sets'[s] = x /\ x # None
  BY TypeOKIs DEF SInv, PInv, KInv, IInv, StaysTyped, Alive
<1> QED BY <1>1 DEF StaysTyped, TypeOK, Good, Alive
-----------------------------------------------------------------------------
(* Calls that show.                                                        *)

\* The view of an EventSet that is alive and its place among the handles.
LEMMA AliveView ==
  ASSUME SInv, NEW s \in Alive
  PROVE  /\ s \in Service!Live /\ s \in Slots /\ Views[s] = View(sets[s], Ctx.n)
         /\ sets[s] \in Good /\ Ctx.n \in Nat
BY LiveIs, ShownIs, OwnIs DEF SInv, PInv, KInv, Views, Context, Alive

\* An EventSet without events shows none.
LEMMA EmptyView ==
  ASSUME NEW x, x.evs = <<>>, ~Runs(x), NEW n
  PROVE  View(x, n) = [events |-> <<>>, dom |-> x.ctl.dom, running |-> FALSE, n |-> 0,
                       held |-> <<>>]
<1>1. CodesOf(x.evs) = <<>> /\ Stopped(x) = <<>>
  <2>1. DOMAIN <<>> = {} /\ DOMAIN x.evs = {}
    OBVIOUS
  <2> QED BY <2>1 DEF CodesOf, Stopped
<1> QED BY <1>1, IdleView

LEMMA EmptySpare ==
  /\ Spare(Empty)
  /\ \A st, ms : Spare([Empty EXCEPT !.state = st, !.master = ms])
  /\ \A ms : Spare([Empty EXCEPT !.bound = TRUE, !.master = ms])
BY DEF Spare, Empty, NewControlState

LEMMA CreateServes ==
  ASSUME SInv, IInv', Create
  PROVE  Serves
<1>1. PICK s \in Slots : /\ sets[s] = None /\ sets' = [sets EXCEPT ![s] = Empty]
                         /\ Reply("OK") /\ UNCHANGED thr
  BY DEF Create
<1>2. Empty # None /\ Empty \in Good
  BY NewEventSetIs, EventSetsAssumption DEF Good
<1>3. View(Empty, Ctx'.n) = Service!New
  <2>1. Empty.evs = <<>> /\ ~Runs(Empty) /\ Empty.ctl.dom = DefaultDomain
    BY DEF Empty, Runs, NewControlState
  <2> QED BY <2>1, EmptyView DEF Service!New
<1>4. Views' = [Views EXCEPT ![s] = Service!New]
  BY <1>1, <1>2, <1>3, BecomesIs DEF SInv, PInv, KInv
<1>5. Views[s] = None
  BY <1>1 DEF Views, Shown
<1>6. Service!Create
  BY <1>1, <1>4, <1>5 DEF Service!Create, Service!Becomes, Service!Done, Views, Reply
<1>7. Spares'
  BY <1>1, PutSpare, EmptySpare
<1> QED BY <1>6, <1>7 DEF Serves, Service!Next

LEMMA DestroyServes ==
  ASSUME SInv, IInv', NEW s \in Alive, Destroy(s)
  PROVE  Serves
<1>1. CASE ~Has(s, "STOPPED") \/ sets[s].evs # <<>>
  BY <1>1, RefuseServes DEF Destroy
<1>2. CASE Has(s, "STOPPED") /\ sets[s].evs = <<>>
  <2>1. sets' = [sets EXCEPT ![s] = None] /\ Reply("OK") /\ UNCHANGED thr
    BY <1>2 DEF Destroy
  <2>2. Views' = [Views EXCEPT ![s] = None] /\ Spares'
    BY <2>1, AliveView, BecomesIs, PutSpare DEF SInv, PInv, KInv
  <2>3. ~Views[s].running /\ Views[s].events = <<>>
    <3>1. ~Runs(sets[s])
      BY <1>2, OwnIs DEF SInv, PInv, KInv, Runs, Has
    <3> QED BY <1>2, <3>1, AliveView, EmptyView
  <2>4. Service!Destroy(s)
    BY <2>1, <2>2, <2>3 DEF Service!Destroy, Service!Becomes, Service!Done, Views, Reply
  <2> QED BY <2>2, <2>4, AliveView DEF Serves, Service!Next
<1> QED BY <1>1, <1>2

LEMMA CleanupServes ==
  ASSUME Liberties = {}, SInv, IInv', NEW s \in Alive, Cleanup(s)
  PROVE  Serves
<1> DEFINE x == [Empty EXCEPT !.state = sets[s].state, !.master = sets[s].master]
<1>1. CASE ~sets[s].bound \/ Has(s, "RUNNING")
  BY <1>1, RefuseServes DEF Cleanup
<1>2. CASE sets[s].bound /\ ~Has(s, "RUNNING")
  <2>1. Run = None
    BY <1>2, IdleIs DEF SInv, PInv, KInv, Cleanup, Plain
  <2>2. sets' = [sets EXCEPT ![s] = x] /\ Reply("OK")
    BY <1>2 DEF Cleanup
  <2>3. x \in Good
    <3>1. sets[s] \in Good
      BY AliveView
    <3> QED BY <3>1, NewEventSetIs, GoodIs DEF Good, EventSetInfo, Fits
  <2>4. x.evs = <<>> /\ ~Runs(x) /\ x.ctl.dom = DefaultDomain
    BY <1>2 DEF Empty, Runs, NewControlState, Has
  <2>5. Spare(x)
    BY EmptySpare
  <2> HIDE DEF x
  <2>6. View(x, Ctx'.n) = Service!New /\ x # None
    BY <2>3, <2>4, EmptyView, EventSetsAssumption DEF Service!New, Good
  <2>7. Views' = [Views EXCEPT ![s] = Service!New] /\ Spares'
    BY <2>1, <2>2, <2>3, <2>5, <2>6, AliveView, BecomesIs, PutSpare DEF SInv, PInv, KInv
  <2>8. ~Views[s].running
    <3>1. ~Runs(sets[s])
      BY <1>2 DEF Runs, Has
    <3> QED BY <3>1, AliveView, ViewIs
  <2>9. Service!Cleanup(s)
    BY <2>2, <2>7, <2>8 DEF Service!Cleanup, Service!Becomes, Service!Done, Views, Reply
  <2> QED BY <2>7, <2>9, AliveView DEF Serves, Service!Next
<1> QED BY <1>1, <1>2

\* An EventSet that is not bound yet looks like one that has just been.
LEMMA BindView ==
  ASSUME SInv, NEW s \in Alive, ~sets[s].bound, NEW x, x = Bind(sets[s]), NEW n, NEW m
  PROVE  /\ x \in Good /\ Spare(x) /\ ~Runs(x) /\ ~Runs(sets[s]) /\ x.evs = <<>>
         /\ View(x, n) = View(sets[s], m)
<1>1. x.evs = <<>> /\ ~Runs(x) /\ x.ctl.dom = DefaultDomain /\ Spare(x)
  BY EmptySpare DEF Bind, Empty, Runs, NewControlState
<1>2. sets[s].evs = <<>> /\ sets[s].ctl.dom = DefaultDomain
  BY DEF SInv, Spares, Spare, PInv, KInv, OInv, Tidy
<1>3. ~Runs(sets[s])
  BY OwnIs DEF SInv, PInv, KInv, Runs, Has
<1>4. x \in Good
  BY AliveView, NewEventSetIs
<1> QED BY <1>1, <1>2, <1>3, <1>4, EmptyView

LEMMA AssignServes ==
  ASSUME SInv, IInv', NEW s \in Alive, Assign(s)
  PROVE  Serves
<1>1. CASE sets[s].bound
  BY <1>1, RefuseServes DEF Assign
<1>2. CASE ~sets[s].bound
  <2>1. sets' = [sets EXCEPT ![s] = Bind(sets[s])] /\ UNCHANGED thr /\ ret'.set = None
    BY <1>2 DEF Assign, Reply
  <2> DEFINE x == Bind(sets[s])
  <2>2. x \in Good /\ Spare(x) /\ View(x, Ctx'.n) = View(sets[s], Ctx.n)
    BY <1>2, BindView
  <2> HIDE DEF x
  <2> QED BY <2>1, <2>2, HiddenServes DEF x
<1> QED BY <1>1, <1>2

LEMMA NextCount ==
  ASSUME IInv'
  PROVE  Ctx'.n \in Nat
BY EventSetsAssumption DEF IInv, TypeOK, ThreadInfo, Context, Ctx

\* An event at the end of the list.
LEMMA JoinServes ==
  ASSUME SInv, IInv', StaysTyped, Run = None, NEW s \in Alive,
         NEW e \in Good, ~Runs(e), Spare(e), View(e, Ctx.n) = View(sets[s], Ctx.n),
         NEW c \in Codes, c \notin Listed(e.evs), Len(e.evs) # NumMpxCntrs,
         NEW x, sets' = [sets EXCEPT ![s] = x], x.bound, x.state = e.state, x.stop = e.stop,
         x.ctl.dom = e.ctl.dom, DOMAIN x.evs = 1..(Len(e.evs) + 1), Len(x.evs) = Len(e.evs) + 1,
         \A i \in 1..Len(e.evs) : x.evs[i].code = e.evs[i].code,
         x.evs[Len(e.evs) + 1].code = c, Reply("OK")
  PROVE  Serves
<1> DEFINE m == Len(e.evs)
           v == View(e, Ctx.n)
           w == View(x, Ctx'.n)
<1>1. /\ m \in Nat /\ DOMAIN e.evs = 1..m /\ m + 1 \in 1..NumMpxCntrs /\ NumMpxCntrs \in Nat
      /\ Ctx.n \in Nat /\ Ctx'.n \in Nat
  <2>1. Ctx'.n \in Nat
    BY NextCount
  <2> QED BY <2>1, GoodIs, LenProperties, NativeEventsAssumption, AliveView
<1>2. CodesOf(e.evs) = [i \in 1..m |-> e.evs[i].code] /\ Stopped(e) = [i \in 1..m |-> e.stop[i]]
  BY <1>1 DEF CodesOf, Stopped
<1>3. CodesOf(x.evs) = Append(CodesOf(e.evs), c)
  <2>1. CodesOf(x.evs) = [i \in 1..(m + 1) |-> x.evs[i].code]
    BY DEF CodesOf
  <2>2. Append(CodesOf(e.evs), c) = [i \in 1..(m + 1) |-> IF i <= m THEN e.evs[i].code ELSE c]
    BY <1>1, <1>2
  <2>3. \A i \in 1..(m + 1) : x.evs[i].code = IF i <= m THEN e.evs[i].code ELSE c
    BY <1>1
  <2> HIDE DEF m
  <2> QED BY <2>1, <2>2, <2>3
<1>4. Stopped(x) = Append(Stopped(e), {})
  <2>1. Stopped(x) = [i \in 1..(m + 1) |-> e.stop[i]]
    BY DEF Stopped
  <2>2. Append(Stopped(e), {}) = [i \in 1..(m + 1) |-> IF i <= m THEN e.stop[i] ELSE {}]
    BY <1>1, <1>2
  <2>3. e.stop[m + 1] = {}
    BY <1>1 DEF Spare
  <2>4. \A i \in 1..(m + 1) : e.stop[i] = IF i <= m THEN e.stop[i] ELSE {}
    <3>1. \A i \in 1..(m + 1) : i <= m \/ i = m + 1
      BY <1>1
    <3> HIDE DEF m
    <3> QED BY <2>3, <3>1
  <2> HIDE DEF m
  <2> QED BY <2>1, <2>2, <2>4
<1>5. x \in Good /\ x # None /\ ~Runs(x)
  BY StayedGood, EventSetsAssumption DEF Good, Runs
<1>6. Spare(x)
  BY <1>1 DEF Spare
<1>7. w = [v EXCEPT !.events = Append(@, c), !.held = Append(@, {})]
  <2>1. /\ v \in Shows /\ v.events = CodesOf(e.evs) /\ v.dom = e.ctl.dom /\ v.running = Runs(e)
        /\ v.n = 0 /\ v.held = Stopped(e)
    BY <1>1, ViewIs
  <2>2. /\ w \in Shows /\ w.events = CodesOf(x.evs) /\ w.dom = x.ctl.dom /\ w.running = Runs(x)
        /\ w.n = 0 /\ w.held = Stopped(x)
    BY <1>1, <1>5, ViewIs
  <2>3. Runs(x) = Runs(e)
    BY DEF Runs
  <2> HIDE DEF v, w
  <2>4. w.events = Append(v.events, c) /\ w.held = Append(v.held, {})
    BY <1>3, <1>4, <2>1, <2>2
  <2>5. w.dom = v.dom /\ w.running = v.running /\ w.n = v.n
    BY <2>1, <2>2, <2>3
  <2> QED BY <2>1, <2>2, <2>4, <2>5, AddedShow
<1>8. Views' = [Views EXCEPT ![s] = w] /\ Spares' /\ Views[s] = v
  BY <1>5, <1>6, BecomesIs, PutSpare, AliveView DEF SInv, PInv, KInv
<1>9. ~v.running /\ v.events = CodesOf(e.evs)
  BY <1>1, ViewIs
<1>10. \A i \in DOMAIN v.events : v.events[i] # c
  BY <1>9 DEF CodesOf, Listed
<1> HIDE DEF v, w
<1>11. Service!Add(s, c)
  BY <1>7, <1>8, <1>9, <1>10 DEF Service!Add, Service!Becomes, Service!Done, Views, Reply
<1> QED BY <1>8, <1>11, AliveView DEF Serves, Service!Next

\* The list with the new event, and looking events up.
LEMMA JoinedCodes ==
  ASSUME NEW evs \in Seq(EventInfo), NEW c \in Codes, NEW B, B = Append(evs, Blank(c))
  PROVE  /\ DOMAIN B = 1..(Len(evs) + 1) /\ Len(evs) \in Nat
         /\ \A i \in 1..Len(evs) : B[i].code = evs[i].code
         /\ B[Len(evs) + 1].code = c
         /\ \A i \in DOMAIN B : Unlooked(B[i])
<1> DEFINE S == EventInfo \cup {Blank(c)}
           m == Len(evs)
<1>1. evs \in Seq(S) /\ Blank(c) \in S
  BY SeqMonotonic
<1> HIDE DEF S
<1>2. /\ B \in Seq(S) /\ Len(B) = m + 1 /\ B[m + 1] = Blank(c) /\ m \in Nat
      /\ \A i \in 1..m : B[i] = evs[i]
  BY <1>1, AppendProperties, LenProperties
<1>3. DOMAIN B = 1..(m + 1) /\ \A i \in 1..(m + 1) : B[i] \in S
  BY <1>2, LenProperties, ElementOfSeq
<1>4. \A ev \in S : Unlooked(ev)
  BY DEF S, Unlooked
<1>5. Blank(c).code = c
  BY DEF Blank
<1> QED BY <1>2, <1>3, <1>4, <1>5

LEMMA RemapCodes ==
  ASSUME NEW B, \A i \in DOMAIN B : Unlooked(B[i]), NEW nats
  PROVE  /\ DOMAIN Remap(B, nats) = DOMAIN B
         /\ \A i \in DOMAIN B : Remap(B, nats)[i].code = B[i].code
<1>1. ASSUME NEW ev, Unlooked(ev) PROVE Located(ev, nats).code = ev.code
  <2>1. ev = [code |-> ev.code, pos |-> ev.pos]
    BY <1>1 DEF Unlooked, EventInfo, Blank
  <2> QED BY <2>1 DEF Located
<1> QED BY <1>1 DEF Remap

LEMMA AddEventServes ==
  ASSUME Liberties = {}, SInv, IInv', NEW s \in Alive, NEW c \in Codes, AddEvent(s, c)
  PROVE  Serves
<1> DEFINE e == IF sets[s].bound THEN sets[s] ELSE Bind(sets[s])
           A == AddNatives(e.nats, c)
           P == Positioned(A)
           B == Append(e.evs, Blank(c))
           ctl == Configured(e.ctl, A)
           old == FailClean(P, c)
           m == Len(e.evs)
<1>1. StaysTyped
  BY AddEventTypes DEF SInv, PInv, KInv, IInv
<1>2. CASE Has(s, "RUNNING")
  BY <1>2, RefuseServes DEF AddEvent
<1>3. CASE ~Has(s, "RUNNING")
  <2>1. Run = None
    BY <1>3, IdleIs DEF SInv, PInv, KInv, AddEvent, Plain
  <2>2. /\ e \in Good /\ ~Runs(e) /\ Spare(e) /\ e.bound /\ View(e, Ctx.n) = View(sets[s], Ctx.n)
        /\ View(e, Ctx'.n) = View(sets[s], Ctx.n)
    <3>1. CASE sets[s].bound
      <4>1. ~Runs(sets[s])
        BY <1>3 DEF Runs, Has
      <4> QED BY <3>1, <4>1, AliveView, IdleView DEF SInv, Spares
    <3>2. CASE ~sets[s].bound
      <4>1. Bind(sets[s]).bound
        BY DEF Bind, Empty
      <4> QED BY <3>2, <4>1, BindView
    <3> QED BY <3>1, <3>2
  <2>3. /\ e.evs \in Seq(EventInfo) /\ m \in Nat /\ DOMAIN e.evs = 1..m
        /\ e.stop \in [1..NumMpxCntrs -> SUBSET Counts] /\ e.ctl \in ControlState
    BY <2>2, GoodIs, LenProperties
  <2>4. \/ AddRefusal(e, c) # "OK" /\ sets' = [sets EXCEPT ![s] = e] /\ ret'.set = None
        \/ AddRefusal(e, c) = "OK" /\ (AddShared(s, e, c) \/ AddNew(s, e, c))
    BY <1>3 DEF AddEvent, Reply
  <2> HIDE DEF e
  <2>5. CASE AddRefusal(e, c) # "OK" /\ sets' = [sets EXCEPT ![s] = e] /\ ret'.set = None
    BY <2>1, <2>2, <2>5, HiddenServes
  <2>6. ASSUME AddRefusal(e, c) = "OK" PROVE c \notin Listed(e.evs) /\ m # NumMpxCntrs
    <3>1. NumMpxCntrs \in Nat /\ NumCntrs \in 0..NumMpxCntrs
      BY NativeEventsAssumption
    <3> QED BY <2>3, <2>6, <3>1 DEF AddRefusal
  <2>7. CASE AddRefusal(e, c) = "OK" /\ AddShared(s, e, c)
    <3> DEFINE ev == Located(Blank(c), A)
               x == Sharing(e, c, A)
    <3>1. sets' = [sets EXCEPT ![s] = x] /\ Reply("OK")
      BY <2>7 DEF AddShared
    <3>2. x.evs = Append(e.evs, ev) /\ x.stop = e.stop /\ x.state = e.state /\ x.ctl = e.ctl /\ x.bound
      BY <2>2 DEF Sharing, Good, EventSetInfo
    <3>3. ev.code = c
      BY DEF Located, Blank
    <3> HIDE DEF x, ev
    <3>4. x.evs \in Seq(EventInfo) /\ DOMAIN x.evs = 1..Len(x.evs)
      BY <1>1, <3>1, StayedGood, GoodIs, LenProperties
    <3>5. /\ Len(x.evs) = m + 1 /\ x.evs[m + 1] = ev
          /\ \A i \in 1..m : x.evs[i] = e.evs[i]
      BY <2>3, <3>2
    <3> QED BY <1>1, <2>1, <2>2, <2>6, <2>7, <3>1, <3>2, <3>3, <3>4, <3>5, JoinServes
  <2>8. CASE AddRefusal(e, c) = "OK" /\ AddNew(s, e, c)
    <3>1. \/ /\ sets' = [sets EXCEPT ![s] = [Joined(e, c, P) EXCEPT !.ctl = ctl]]
             /\ Reply("OK")
          \/ /\ sets' = [sets EXCEPT ![s] = [e EXCEPT !.ctl = Configured(ctl, old),
                                                      !.nats = Positioned(old)]]
             /\ ret'.set = None
      BY <2>8 DEF AddNew, Reply
    <3>2. /\ ctl.dom = e.ctl.dom /\ Configured(ctl, old).dom = e.ctl.dom
      BY <2>3 DEF Configured, ControlState
    <3> HIDE DEF ctl, old, P
    <3>3. CASE /\ sets' = [sets EXCEPT ![s] = [Joined(e, c, P) EXCEPT !.ctl = ctl]]
               /\ Reply("OK")
      <4> DEFINE x == [Joined(e, c, P) EXCEPT !.ctl = ctl]
      <4>1. /\ x.evs = Remap(B, P) /\ x.stop = e.stop /\ x.state = e.state
            /\ x.ctl = ctl /\ x.bound
        BY <2>2 DEF Joined, Good, EventSetInfo
      <4> HIDE DEF x
      <4>2. x.evs \in Seq(EventInfo) /\ DOMAIN x.evs = 1..Len(x.evs) /\ Len(x.evs) \in Nat
        BY <1>1, <3>3, StayedGood, GoodIs, LenProperties DEF x
      <4>3. /\ DOMAIN x.evs = 1..(m + 1) /\ x.evs[m + 1].code = c
            /\ \A i \in 1..m : x.evs[i].code = e.evs[i].code
        <5> HIDE DEF B
        <5>3. B = Append(e.evs, Blank(c)) /\ e.evs \in Seq(EventInfo) /\ c \in Codes
          BY <2>3 DEF B
        <5>4. /\ DOMAIN B = 1..(m + 1)
              /\ \A i \in 1..m : B[i].code = e.evs[i].code
              /\ B[m + 1].code = c
              /\ \A i \in DOMAIN B : Unlooked(B[i])
          BY <5>3, JoinedCodes
        <5>5. DOMAIN Remap(B, P) = DOMAIN B /\ \A i \in DOMAIN B : Remap(B, P)[i].code = B[i].code
          BY <5>4, RemapCodes
        <5>1. /\ DOMAIN B = 1..(m + 1)
              /\ \A i \in 1..m : B[i].code = e.evs[i].code
              /\ B[m + 1].code = c
              /\ DOMAIN x.evs = DOMAIN B
              /\ \A i \in DOMAIN B : x.evs[i].code = B[i].code
          BY <4>1, <5>4, <5>5
        <5>2. m + 1 \in 1..(m + 1) /\ \A i \in 1..m : i \in 1..(m + 1)
          BY <2>3
        <5> QED BY <5>1, <5>2
      <4>4. Len(x.evs) = m + 1
        BY <2>3, <4>2, <4>3
      <4>5. sets' = [sets EXCEPT ![s] = x]
        BY <3>3 DEF x
      <4> QED BY <1>1, <2>1, <2>2, <2>6, <2>8, <3>2, <3>3, <4>1, <4>3, <4>4, <4>5, JoinServes
    <3>4. CASE /\ sets' = [sets EXCEPT ![s] = [e EXCEPT !.ctl = Configured(ctl, old),
                                                        !.nats = Positioned(old)]]
               /\ ret'.set = None
      <4> DEFINE x == [e EXCEPT !.ctl = Configured(ctl, old), !.nats = Positioned(old)]
      <4>1. x.evs = e.evs /\ x.stop = e.stop /\ x.state = e.state /\ x.ctl.dom = e.ctl.dom /\ x.bound
        BY <2>2, <3>2 DEF Good, EventSetInfo
      <4>2. sets' = [sets EXCEPT ![s] = x]
        BY <3>4
      <4> HIDE DEF x
      <4>3. View(x, Ctx'.n) = View(sets[s], Ctx.n)
        BY <2>2, <4>1, SameFieldsView
      <4>4. x \in Good /\ Spare(x)
        BY <1>1, <2>2, <4>1, <4>2, StayedGood DEF Spare
      <4> QED BY <2>1, <3>4, <4>2, <4>3, <4>4, HiddenServes
    <3> QED BY <3>1, <3>3, <3>4
  <2> QED BY <2>4, <2>5, <2>7, <2>8
<1> QED BY <1>2, <1>3

\* No EventSet runs for the service while none does for the thread.
LEMMA NoneRuns ==
  ASSUME SInv, Run = None
  PROVE  \A r \in Service!Live : ~Views[r].running
<1> SUFFICES ASSUME NEW r \in Alive PROVE ~Views[r].running
  BY LiveIs DEF SInv, PInv, KInv
<1>1. ~Runs(sets[r])
  BY OwnIs DEF SInv, PInv, KInv, Runs, Has
<1> QED BY <1>1, AliveView, ViewIs

\* The start call itself.
LEMMA LaunchServes ==
  ASSUME SInv, IInv', StaysTyped, Run = None, NEW s \in Alive, sets[s].evs # <<>>,
         NEW y \in Good, CodesOf(y.evs) = CodesOf(sets[s].evs), DOMAIN y.evs = DOMAIN sets[s].evs,
         Len(y.evs) = Len(sets[s].evs), y.stop = sets[s].stop, y.state = sets[s].state,
         y.ctl.dom = sets[s].ctl.dom, y.bound, y.master = Self,
         NEW ctx \in Context, Launch(s, y, ctx)
  PROVE  Serves
<1> DEFINE e == sets[s]
           v == View(e, Ctx.n)
<1>1. /\ e \in Good /\ ~Runs(e) /\ Ctx.n \in Nat /\ Ctx'.n \in Nat /\ Spare(e)
      /\ Run # s /\ "STOPPED" \in e.state
  BY AliveView, NextCount, OwnIs DEF SInv, PInv, KInv, Runs, Has, Spares
<1>2. /\ Marked(y).evs = y.evs /\ Marked(y).stop = y.stop /\ Marked(y).ctl = y.ctl
      /\ Marked(y).bound = y.bound /\ Runs(Marked(y))
  BY DEF Marked, Good, EventSetInfo, Runs
<1>3. /\ Unmarked(Marked(y)).evs = y.evs /\ Unmarked(Marked(y)).stop = y.stop
      /\ Unmarked(Marked(y)).ctl = y.ctl /\ Unmarked(Marked(y)).bound = y.bound
      /\ ~Runs(Unmarked(Marked(y)))
  <2>1. Marked(y).state = (y.state \ {"STOPPED"}) \cup {"RUNNING"}
    BY <1>1 DEF Marked, Good, EventSetInfo, Xor
  <2>2. Marked(y) \in Good
    BY MarkedIs
  <2>3. Unmarked(Marked(y)).state = (Marked(y).state \ {"RUNNING"}) \cup {"STOPPED"}
    BY <2>1, <2>2 DEF Unmarked, Good, EventSetInfo, Xor
  <2> QED BY <1>2, <2>2, <2>3 DEF Unmarked, Good, EventSetInfo, Runs
<1>4. CASE /\ sets' = [sets EXCEPT ![s] = Unmarked(Marked(y))] /\ ret'.set = None
  <2> DEFINE x == Unmarked(Marked(y))
  <2> HIDE DEF x
  <2>1. View(x, Ctx'.n) = View(e, Ctx.n)
    <3>1. /\ x.evs = y.evs /\ x.stop = e.stop /\ x.ctl.dom = e.ctl.dom /\ ~Runs(x)
      BY <1>3 DEF x
    <3>2. Stopped(x) = Stopped(e)
      BY <3>1 DEF Stopped
    <3> QED BY <1>1, <3>1, <3>2, IdleView
  <2>2. x \in Good /\ Spare(x)
    BY <1>1, <1>3, <1>4, StayedGood DEF x, Spare
  <2> QED BY <1>4, <2>1, <2>2, HiddenServes DEF x
<1>5. CASE /\ sets' = [sets EXCEPT ![s] = Marked(y)] /\ Reply("OK")
           /\ thr' = [Touch(Self, s, Enabled(ctx)) EXCEPT ![Self].running = Holder(s, y)]
  <2> DEFINE x == Marked(y)
             w == View(x, Ctx'.n)
  <2> HIDE DEF x
  <2>1. Ctx'.n = 0
    <3>1. Ctx' = Enabled(ctx)
      BY <1>5, StartsStopsIs DEF SInv, PInv, KInv, IInv
    <3> QED BY <3>1 DEF Enabled, Context
  <2>2. x \in Good /\ Spare(x) /\ x # None
    BY <1>1, <1>2, <1>5, StayedGood, EventSetsAssumption DEF x, Spare, Good
  <2>3. x.evs = y.evs /\ x.ctl.dom = e.ctl.dom /\ Runs(x)
    BY <1>2 DEF x
  <2>4. Views' = [Views EXCEPT ![s] = w] /\ Spares' /\ Views[s] = v
    BY <1>5, <2>2, BecomesIs, PutSpare, AliveView DEF SInv, PInv, KInv, x
  <2>5. /\ w \in Shows /\ w.events = CodesOf(e.evs) /\ w.dom = e.ctl.dom /\ w.running = TRUE
        /\ w.n = 0 /\ w.held = <<>>
    <3>1. Runs(x) = TRUE
      BY <2>3 DEF Runs
    <3> QED BY <1>1, <2>1, <2>2, <2>3, <3>1, ViewIs
  <2>6. v \in Shows /\ v.events = CodesOf(e.evs) /\ v.dom = e.ctl.dom
    BY <1>1, ViewIs
  <2> HIDE DEF w, v
  <2>7. w = [v EXCEPT !.running = TRUE, !.n = 0, !.held = <<>>]
    <3>1. w.events = v.events /\ w.dom = v.dom
      BY <2>5, <2>6
    <3> QED BY <2>5, <2>6, <3>1, StartedShow
  <2>8. v.events # <<>>
    <3>1. DOMAIN e.evs # {}
      <4>1. e.evs \in Seq(EventInfo) /\ Len(e.evs) \in Nat /\ DOMAIN e.evs = 1..Len(e.evs)
        BY <1>1, GoodIs, LenProperties
      <4>2. Len(e.evs) # 0
        BY <4>1, EmptySeq
      <4>3. 1 \in 1..Len(e.evs)
        BY <4>1, <4>2
      <4> QED BY <4>1, <4>3
    <3>2. DOMAIN CodesOf(e.evs) # {} /\ DOMAIN <<>> = {}
      BY <3>1 DEF CodesOf
    <3> QED BY <2>6, <3>2
  <2>9. Service!Start(s)
    BY <1>5, <2>4, <2>7, <2>8, NoneRuns
       DEF Service!Start, Service!Becomes, Service!Done, Views, Reply
  <2> QED BY <2>4, <2>9, AliveView DEF Serves, Service!Next
<1> QED BY <1>4, <1>5 DEF Launch, Reply

LEMMA StartServes ==
  ASSUME SInv, IInv', NEW s \in Alive, Start(s)
  PROVE  Serves
<1> DEFINE e == sets[s]
           ctl == Configured(e.ctl, e.nats)
           P == Positioned(e.nats)
           evs == Remap(e.evs, P)
           fresh == [e EXCEPT !.ctl = ctl, !.nats = P, !.evs = evs]
           moved == [e EXCEPT !.ctl = ctl, !.nats = P]
           ctx == Updated(e.ctl, e.nats, TRUE)
<1>1. /\ StaysTyped /\ e \in Good /\ e.master = Self /\ Ctx \in Context /\ Spare(e)
  BY StartTypes, OwnIs DEF SInv, PInv, KInv, IInv, Spares
<1>2. CASE ~e.bound \/ Run # None \/ e.evs = <<>>
  BY <1>1, <1>2, RefuseServes DEF Start, Run
<1>3. CASE e.bound /\ Run = None /\ e.evs # <<>>
  <2>1. \/ Launch(s, e, Ctx)
        \/ Launch(s, fresh, ctx)
        \/ sets' = [sets EXCEPT ![s] = moved] /\ ret'.set = None
    <3>1. \/ Launch(s, e, Ctx)
          \/ Launch(s, fresh, ctx)
          \/ sets' = [sets EXCEPT ![s] = moved] /\ Reply("ECNFLCT")
      BY <1>1, <1>3 DEF Start, Run, Ctx
    <3>2. Reply("ECNFLCT") => ret'.set = None
      BY DEF Reply
    <3> HIDE DEF fresh, moved, ctx
    <3> QED BY <3>1, <3>2
  <2>2. /\ e.evs \in Seq(EventInfo) /\ Len(e.evs) \in Nat /\ DOMAIN e.evs = 1..Len(e.evs)
        /\ e.ctl \in ControlState
    BY <1>1, GoodIs, LenProperties
  <2>3. fresh \in Good /\ moved \in Good /\ ctx \in Context
    BY <1>1, StartedIs
  <2>4. ctl.dom = e.ctl.dom
    BY <2>2 DEF Configured, ControlState
  <2> HIDE DEF ctl, P, ctx
  <2>5. /\ fresh.evs = evs /\ fresh.stop = e.stop /\ fresh.state = e.state /\ fresh.ctl = ctl
        /\ fresh.bound = e.bound /\ fresh.master = e.master
    BY <1>1 DEF Good, EventSetInfo
  <2>6. /\ moved.evs = e.evs /\ moved.stop = e.stop /\ moved.state = e.state /\ moved.ctl = ctl
        /\ moved.bound = e.bound
    BY <1>1 DEF Good, EventSetInfo
  <2> HIDE DEF fresh, moved
  <2>7. DOMAIN evs = DOMAIN e.evs /\ CodesOf(evs) = CodesOf(e.evs)
    <3>1. \A i \in DOMAIN e.evs : Unlooked(e.evs[i])
      BY <2>2, ElementOfSeq DEF Unlooked
    <3>2. DOMAIN evs = DOMAIN e.evs /\ \A i \in DOMAIN e.evs : evs[i].code = e.evs[i].code
      BY <3>1, RemapCodes
    <3> HIDE DEF evs
    <3> QED BY <3>2 DEF CodesOf
  <2>8. Len(fresh.evs) = Len(e.evs)
    <3>1. DOMAIN fresh.evs = 1..Len(fresh.evs) /\ Len(fresh.evs) \in Nat
      BY <2>3, GoodIs, LenProperties
    <3> HIDE DEF evs
    <3> QED BY <2>2, <2>5, <2>7, <3>1
  <2> HIDE DEF evs
  <2>9. CASE Launch(s, e, Ctx)
    BY <1>1, <1>3, <2>9, LaunchServes
  <2>10. CASE Launch(s, fresh, ctx)
    BY <1>1, <1>3, <2>3, <2>4, <2>5, <2>7, <2>8, <2>10, LaunchServes
  <2>11. CASE sets' = [sets EXCEPT ![s] = moved] /\ ret'.set = None
    <3>1. View(moved, Ctx'.n) = View(e, Ctx.n)
      <4>1. ~Runs(e)
        BY <1>3, OwnIs DEF SInv, PInv, KInv, Runs, Has
      <4> QED BY <2>4, <2>6, <4>1, SameFieldsView
    <3>2. Spare(moved)
      BY <1>1, <1>3, <2>6 DEF Spare
    <3> QED BY <1>3, <2>3, <2>11, <3>1, <3>2, HiddenServes
  <2> QED BY <2>1, <2>9, <2>10, <2>11
<1> QED BY <1>2, <1>3
-----------------------------------------------------------------------------
(* Readings.                                                               *)

\* What an EventSet that runs would read now are the readings of its events.
LEMMA ValuesAre ==
  ASSUME SInv, NEW s \in Alive, Has(s, "RUNNING")
  PROVE  /\ ~ReadFails(Ctx, sets[s].ctl)
         /\ ValuesOf(sets[s].evs, Fetched(Ctx, sets[s].ctl).counts) = Service!Readings(Views[s])
<1> DEFINE e == sets[s]
           N == Names(e.nats)
           l == Len(e.nats)
           C == Fetched(Ctx, e.ctl).counts
           n == Ctx.n
           dom == e.ctl.dom
           Of(m) == [nat |-> m, dom |-> dom, tid |-> Caller, n |-> n]
<1>1. /\ e \in Good /\ Runs(e) /\ n \in Nat /\ Named(e) /\ Placed(e)
      /\ Run = s /\ s # None /\ N # <<>>
  BY AliveView, OwnIs DEF SInv, PInv, KInv, Ready, Places, Runs, Has
<1>2. /\ e.evs \in Seq(EventInfo) /\ DOMAIN e.evs = 1..Len(e.evs) /\ Len(e.evs) \in Nat
      /\ e.nats \in Seq(NativeInfo) /\ l \in Nat /\ DOMAIN e.nats = 1..l /\ l <= NumMpxCntrs
      /\ e.ctl \in ControlState /\ NumMpxCntrs \in Nat
  BY <1>1, GoodIs, LenProperties, NativeEventsAssumption
<1>3. Ctx.fds = Group(N, dom) /\ e.ctl.ev = N
  BY <1>1, RunningOpens DEF SInv, PInv, KInv, Named
<1>4. DOMAIN N = 1..l /\ \A j \in 1..l : N[j] = e.nats[j].nat
  BY <1>2 DEF Names
<1>5. DOMAIN Ctx.fds = 1..l /\ \A j \in 1..l : Ctx.fds[j] = [nat |-> e.nats[j].nat, dom |-> dom, tid |-> Caller]
  BY <1>3, <1>4 DEF Group
<1>6. ~ReadFails(Ctx, e.ctl)
  <2>1. Ctx.fds \in Seq([nat : Natives, dom : Domains, tid : Threads \cup {Caller}])
        /\ e.ctl.ev \in Seq(Natives)
    BY <1>2, OwnIs DEF SInv, PInv, KInv, Context, ControlState
  <2>2. Len(Ctx.fds) = l /\ Len(e.ctl.ev) = l
    BY <1>2, <1>3, <1>4, <1>5, <2>1, LenProperties
  <2> QED BY <1>2, <2>2 DEF ReadFails
<1>7. \A j \in 1..l : C[j] = CountOf(Ctx.fds[j], n)
  <2>1. e.ctl.counts \in [1..NumMpxCntrs -> Counts]
    BY <1>2 DEF ControlState
  <2>2. C = [i \in 1..NumMpxCntrs |-> IF i \in DOMAIN e.ctl.ev \cap DOMAIN Ctx.fds
                                        THEN CountOf(Ctx.fds[i], n) ELSE e.ctl.counts[i]]
    BY <1>2, <2>1 DEF Fetched, ControlState
  <2>3. \A j \in 1..l : j \in 1..NumMpxCntrs
    BY <1>2
  <2> HIDE DEF C
  <2> QED BY <1>3, <1>4, <1>5, <2>2, <2>3
<1>8. \A j \in 1..l : C[j] = IF n = 0 THEN ZeroCount ELSE Of(e.nats[j].nat)
  <2>1. \A j \in 1..l : /\ Ctx.fds[j].nat = e.nats[j].nat /\ Ctx.fds[j].dom = dom
                       /\ Ctx.fds[j].tid = Caller
    <3> SUFFICES ASSUME NEW j \in 1..l
                 PROVE  /\ Ctx.fds[j].nat = e.nats[j].nat /\ Ctx.fds[j].dom = dom
                        /\ Ctx.fds[j].tid = Caller
      OBVIOUS
    <3>1. Ctx.fds[j] = [nat |-> e.nats[j].nat, dom |-> dom, tid |-> Caller]
      BY <1>5
    <3> HIDE DEF dom, l
    <3> QED BY <3>1
  <2> HIDE DEF C, n, dom
  <2>2. ASSUME NEW j \in 1..l PROVE C[j] = IF n = 0 THEN ZeroCount ELSE Of(e.nats[j].nat)
    BY <1>7, <2>1 DEF CountOf
  <2> QED BY <2>2
<1>9. ASSUME NEW i \in DOMAIN e.evs
      PROVE  ValueOf(e.evs[i], C) = Service!Reading(e.evs[i].code, dom, n)
  <2> DEFINE ev == e.evs[i]
             K == DOMAIN ev.pos
  <2>1. ev \in EventInfo /\ At(ev, e.nats)
    BY <1>1, <1>2, ElementOfSeq DEF Placed
  <2>2. K = DOMAIN NativesOf(ev.code) /\ ev.code \in Codes
    BY <2>1, NativesOfIs, LenProperties DEF EventInfo
  <2>3. \A k \in K : C[ev.pos[k]] = IF n = 0 THEN ZeroCount ELSE Of(NativesOf(ev.code)[k])
    BY <1>8, <2>1 DEF At
  <2>4. Needs(ev.code) = {NativesOf(ev.code)[k] : k \in K}
    BY <2>2 DEF Needs
  <2>5. ValueOf(ev, C) = {C[ev.pos[k]] : k \in K} \ {ZeroCount}
    BY DEF ValueOf
  <2>6. Service!Reading(ev.code, dom, n) = IF n = 0 THEN {} ELSE {Of(m) : m \in Needs(ev.code)}
    BY <2>2 DEF Service!Reading
  <2>7. n # 0 => \A m : Of(m) # ZeroCount
    BY DEF ZeroCount
  <2> HIDE DEF C, n, K, Of
  <2>8. CASE n = 0
    BY <2>3, <2>5, <2>6, <2>8
  <2>9. CASE n # 0
    BY <2>3, <2>4, <2>5, <2>6, <2>7, <2>9
  <2> QED BY <2>8, <2>9
<1>10. ValuesOf(e.evs, C) = [i \in DOMAIN e.evs |-> Service!Reading(e.evs[i].code, dom, n)]
  BY <1>9 DEF ValuesOf
<1>11. Service!Readings(Views[s]) = [i \in DOMAIN e.evs |-> Service!Reading(e.evs[i].code, dom, n)]
  <2> DEFINE v == Views[s]
  <2>1. v.running = TRUE /\ v.events = CodesOf(e.evs) /\ v.dom = dom /\ v.n = n
    <3>1. Runs(e) = TRUE
      BY <1>1 DEF Runs
    <3> QED BY <1>1, <3>1, AliveView, ViewIs
  <2> HIDE DEF v, n, dom
  <2>2. DOMAIN v.events = DOMAIN e.evs /\ \A i \in DOMAIN e.evs : v.events[i] = e.evs[i].code
    BY <2>1 DEF CodesOf
  <2>3. Service!Readings(v) = [i \in DOMAIN v.events |-> Service!Reading(v.events[i], v.dom, v.n)]
    BY <2>1 DEF Service!Readings
  <2>4. Service!Readings(v) = [i \in DOMAIN e.evs |-> Service!Reading(v.events[i], dom, n)]
    BY <2>1, <2>2, <2>3
  <2> QED BY <2>2, <2>4 DEF v
<1> QED BY <1>6, <1>10, <1>11

\* The values of a reading in sw_stop.
StopOf(e, vals) == [i \in DOMAIN e.stop |-> IF i \in DOMAIN vals THEN vals[i] ELSE e.stop[i]]

LEMMA SwStopIs ==
  ASSUME NEW e \in Good, Spare(e), NEW counts, NEW vals, vals = ValuesOf(e.evs, counts),
         NEW x, x.evs = e.evs, x.stop = StopOf(e, vals), x.bound = e.bound,
         x.ctl.dom = e.ctl.dom
  PROVE  Stopped(x) = vals /\ Spare(x)
<1>1. /\ DOMAIN e.evs = 1..Len(e.evs) /\ Len(e.evs) \in Nat /\ Len(e.evs) <= NumMpxCntrs
      /\ NumMpxCntrs \in Nat /\ DOMAIN e.stop = 1..NumMpxCntrs
  BY GoodIs, LenProperties, NativeEventsAssumption
<1>2. vals = [i \in DOMAIN e.evs |-> ValueOf(e.evs[i], counts)]
  BY DEF ValuesOf
<1>3. \A i \in 1..NumMpxCntrs : x.stop[i] = IF i \in 1..Len(e.evs) THEN vals[i] ELSE e.stop[i]
  BY <1>1, <1>2 DEF StopOf
<1>4. \A i \in 1..Len(e.evs) : i \in 1..NumMpxCntrs
  BY <1>1
<1>5. Stopped(x) = vals
  <2>1. Stopped(x) = [i \in DOMAIN e.evs |-> x.stop[i]]
    BY DEF Stopped
  <2>2. \A i \in DOMAIN e.evs : x.stop[i] = ValueOf(e.evs[i], counts)
    BY <1>1, <1>2, <1>3, <1>4
  <2> QED BY <1>2, <2>1, <2>2
<1>6. Spare(x)
  <2>1. \A i \in 1..NumMpxCntrs : i > Len(e.evs) => i \notin 1..Len(e.evs)
    BY <1>1
  <2> QED BY <1>3, <2>1 DEF Spare
<1> QED BY <1>5, <1>6

\* The fields of what an EventSet shows.
LEMMA AliveFields ==
  ASSUME SInv, NEW s \in Alive, NEW v, v = Views[s]
  PROVE  /\ v = View(sets[s], Ctx.n) /\ v \in Shows
         /\ v.events = CodesOf(sets[s].evs) /\ v.dom = sets[s].ctl.dom
         /\ Runs(sets[s]) => v.running = TRUE /\ v.n = Ctx.n /\ v.held = <<>>
         /\ ~Runs(sets[s]) => v.running = FALSE /\ v.n = 0 /\ v.held = Stopped(sets[s])
<1>1. (Runs(sets[s]) => Runs(sets[s]) = TRUE) /\ (~Runs(sets[s]) => Runs(sets[s]) = FALSE)
  BY DEF Runs
<1> QED BY <1>1, AliveView, ViewIs

\* The same of what a call puts in its slot.
LEMMA NewFields ==
  ASSUME IInv', NEW x \in Good, NEW w, w = View(x, Ctx'.n)
  PROVE  /\ w \in Shows /\ w.events = CodesOf(x.evs) /\ w.dom = x.ctl.dom
         /\ Runs(x) => w.running = TRUE /\ w.n = Ctx'.n /\ w.held = <<>>
         /\ ~Runs(x) => w.running = FALSE /\ w.n = 0 /\ w.held = Stopped(x)
<1>1. (Runs(x) => Runs(x) = TRUE) /\ (~Runs(x) => Runs(x) = FALSE)
  BY DEF Runs
<1> QED BY <1>1, NextCount, ViewIs

\* PAPI_stop leaves what PAPI_read would have given.
LEMMA StopServes ==
  ASSUME SInv, IInv', NEW s \in Alive, Stop(s)
  PROVE  Serves
<1> DEFINE e == sets[s]
           ctl == Fetched(Ctx, e.ctl)
           vals == ValuesOf(e.evs, ctl.counts)
           read == [e EXCEPT !.ctl = ctl, !.stop = StopOf(e, vals)]
           x == Unmarked(read)
           v == Views[s]
           w == View(x, Ctx'.n)
<1>1. /\ StaysTyped /\ e \in Good /\ e.master = Self /\ Spare(e) /\ e.ctl \in ControlState
  BY StopTypes, OwnIs, GoodIs DEF SInv, PInv, KInv, IInv, Spares
<1>2. CASE ~e.bound \/ ~Has(s, "RUNNING")
  BY <1>2, RefuseServes DEF Stop
<1>3. CASE e.bound /\ Has(s, "RUNNING")
  <2>1. Run = s /\ Runs(e)
    BY <1>3, OwnIs DEF SInv, PInv, KInv, Runs, Has
  <2>2. ~ReadFails(Ctx, e.ctl) /\ vals = Service!Readings(v)
    BY <1>3, ValuesAre
  <2>3. sets' = [sets EXCEPT ![s] = x] /\ Answer(s, vals)
    BY <1>1, <1>3, <2>2 DEF Stop, Ctx, StopOf
  <2> HIDE DEF ctl
  <2>4. ctl.dom = e.ctl.dom
    BY <1>1, FetchedKeeps DEF ctl
  <2> HIDE DEF vals
  <2>5. /\ x.evs = e.evs /\ x.stop = StopOf(e, vals) /\ x.bound = e.bound /\ x.ctl = ctl
        /\ ~Runs(x)
    <3>1. /\ read.evs = e.evs /\ read.stop = StopOf(e, vals) /\ read.bound = e.bound
          /\ read.ctl = ctl /\ read.state = e.state
          /\ DOMAIN read = DOMAIN e
      BY <1>1 DEF Good, EventSetInfo
    <3>2. DOMAIN e = {"state", "bound", "master", "evs", "nats", "ctl", "stop"}
      BY <1>1 DEF Good, EventSetInfo
    <3> HIDE DEF read
    <3>3. /\ x.evs = read.evs /\ x.stop = read.stop /\ x.bound = read.bound /\ x.ctl = read.ctl
          /\ x.state = Xor(read.state, "RUNNING") \cup {"STOPPED"}
      BY <3>1, <3>2 DEF Unmarked
    <3> HIDE DEF x
    <3> QED BY <2>1, <3>1, <3>3 DEF Xor, Runs
  <2> HIDE DEF x
  <2>6. Stopped(x) = vals /\ Spare(x)
    BY <1>1, <2>4, <2>5, SwStopIs DEF vals
  <2>7. x \in Good /\ x # None
    BY <1>1, <2>3, StayedGood, EventSetsAssumption DEF Good
  <2>8. Views' = [Views EXCEPT ![s] = w] /\ Spares'
    BY <2>1, <2>3, <2>6, <2>7, BecomesIs, PutSpare, AliveView DEF SInv, PInv, KInv
  <2>9. /\ w \in Shows /\ w.events = CodesOf(e.evs) /\ w.dom = e.ctl.dom /\ w.running = FALSE
        /\ w.n = 0 /\ w.held = vals
    <3>1. w = View(x, Ctx'.n)
      OBVIOUS
    <3> HIDE DEF w
    <3>2. /\ w \in Shows /\ w.events = CodesOf(x.evs) /\ w.dom = x.ctl.dom /\ w.running = FALSE
          /\ w.n = 0 /\ w.held = Stopped(x)
      BY <2>5, <2>7, <3>1, NewFields
    <3> QED BY <2>4, <2>5, <2>6, <3>2
  <2>10. v \in Shows /\ v.events = CodesOf(e.evs) /\ v.dom = e.ctl.dom /\ v.running = TRUE
    BY <2>1, AliveFields
  <2> HIDE DEF w, v
  <2>11. w = [v EXCEPT !.running = FALSE, !.n = 0, !.held = vals]
    <3>1. w.events = v.events /\ w.dom = v.dom
      BY <2>9, <2>10
    <3>2. w = [v EXCEPT !.running = FALSE, !.n = 0, !.held = w.held]
      BY <2>9, <2>10, <3>1, StoppedShow
    <3> QED BY <2>9, <3>2
  <2>12. Service!Stop(s)
    BY <2>2, <2>3, <2>8, <2>10, <2>11
       DEF Service!Stop, Service!Becomes, Service!Gives, Views, Answer, v
  <2> QED BY <2>8, <2>12, AliveView DEF Serves, Service!Next
<1> QED BY <1>2, <1>3

\* What an idle EventSet reads is what it holds.
LEMMA HeldIs ==
  ASSUME SInv, NEW s \in Alive, ~Runs(sets[s])
  PROVE  Service!Readings(Views[s]) = Stopped(sets[s])
<1> DEFINE v == Views[s]
<1>1. v.running = FALSE /\ v.held = Stopped(sets[s])
  BY AliveFields
<1> HIDE DEF v
<1> QED BY <1>1 DEF Service!Readings, v

LEMMA ReadServes ==
  ASSUME SInv, IInv', NEW s \in Alive, Read(s)
  PROVE  Serves
<1> DEFINE e == sets[s]
           ctl == Fetched(Ctx, e.ctl)
           vals == ValuesOf(e.evs, ctl.counts)
           x == [e EXCEPT !.ctl = ctl]
<1>1. /\ StaysTyped /\ e \in Good /\ e.master = Self /\ Spare(e) /\ e.ctl \in ControlState
  BY ReadTypes, OwnIs, GoodIs DEF SInv, PInv, KInv, IInv, Spares
<1>2. CASE ~e.bound
  BY <1>2, RefuseServes DEF Read
<1>3. ASSUME e.bound PROVE /\ Views' = Views /\ Spares' /\ Answer(s, Service!Readings(Views[s]))
  <2>1. CASE ~Has(s, "RUNNING")
    <3>1. UNCHANGED <<sets, thr>> /\ Answer(s, Stopped(e))
      BY <1>3, <2>1 DEF Read
    <3>2. Service!Readings(Views[s]) = Stopped(e)
      BY <2>1, HeldIs DEF Runs, Has
    <3> QED BY <3>1, <3>2, StillViews
  <2>2. CASE Has(s, "RUNNING")
    <3>1. Run = s /\ ~ReadFails(Ctx, e.ctl) /\ vals = Service!Readings(Views[s])
      BY <2>2, OwnIs, ValuesAre DEF SInv, PInv, KInv
    <3>2. /\ sets' = [sets EXCEPT ![s] = x] /\ Answer(s, vals)
          /\ thr' = Touch(Self, s, Ctx)
      BY <1>1, <1>3, <2>2, <3>1 DEF Read, Ctx
    <3>3. Ctx' = Ctx
      BY <3>2, TouchedIs DEF SInv, PInv, KInv, IInv
    <3>4. ctl.dom = e.ctl.dom
      BY <1>1, FetchedKeeps
    <3> HIDE DEF ctl, vals
    <3>5. /\ x.evs = e.evs /\ x.stop = e.stop /\ x.bound = e.bound /\ x.ctl = ctl
          /\ x.state = e.state
      BY <1>1 DEF Good, EventSetInfo
    <3> HIDE DEF x
    <3>6. View(x, Ctx'.n) = View(e, Ctx.n)
      BY <3>3, <3>4, <3>5, SameFieldsView
    <3>7. x \in Good /\ Spare(x)
      BY <1>1, <1>3, <3>2, <3>5, StayedGood DEF Spare
    <3> QED BY <3>1, <3>2, <3>6, <3>7, HiddenViews
  <2> QED BY <2>1, <2>2
<1>4. CASE e.bound
  <2>1. Service!Read(s)
    BY <1>3, <1>4 DEF Service!Read, Service!Gives, Views, Answer
  <2> QED BY <1>3, <1>4, <2>1, AliveView DEF Serves, Service!Next
<1> QED BY <1>2, <1>4

\* A reset, of the context or of sw_stop.
LEMMA ClearViews ==
  ASSUME SInv, IInv', NEW s \in Alive, NEW x \in Good, sets' = [sets EXCEPT ![s] = x],
         UNCHANGED thr \/ Run \in {None, s}, x.evs = sets[s].evs, x.state = sets[s].state,
         x.ctl.dom = sets[s].ctl.dom, Runs(sets[s]) => Ctx'.n = 0,
         ~Runs(sets[s]) => x.stop = Cleared(sets[s]), Spare(x)
  PROVE  Views' = [Views EXCEPT ![s] = Service!Cleared(Views[s])] /\ Spares'
<1> DEFINE e == sets[s]
           v == Views[s]
           w == View(x, Ctx'.n)
<1>1. Views' = [Views EXCEPT ![s] = w] /\ Spares'
  <2>1. x # None
    BY EventSetsAssumption DEF Good
  <2> QED BY <2>1, BecomesIs, PutSpare, AliveView DEF SInv, PInv, KInv
<1>2. /\ v \in Shows /\ v.events = CodesOf(e.evs) /\ v.dom = e.ctl.dom
      /\ Runs(e) => v.running = TRUE /\ v.n = Ctx.n /\ v.held = <<>>
      /\ ~Runs(e) => v.running = FALSE /\ v.n = 0 /\ v.held = Stopped(e)
  BY AliveFields
<1>3. /\ w \in Shows /\ w.events = CodesOf(x.evs) /\ w.dom = x.ctl.dom
      /\ Runs(x) => w.running = TRUE /\ w.n = Ctx'.n /\ w.held = <<>>
      /\ ~Runs(x) => w.running = FALSE /\ w.n = 0 /\ w.held = Stopped(x)
  BY NewFields
<1>4. Runs(x) <=> Runs(e)
  BY DEF Runs
<1>5. Runs(e) => w.held = Service!Zero(Len(v.held))
  <2>1. Service!Zero(0) = <<>> /\ Len(<<>>) = 0
    <3>1. 1..0 = {} /\ Len(<<>>) = 0
      BY EmptySeq
    <3> QED BY <3>1 DEF Service!Zero
  <2> HIDE DEF v, w
  <2> QED BY <1>2, <1>3, <1>4, <2>1
<1>6. ~Runs(e) => w.held = Service!Zero(Len(v.held))
  <2> SUFFICES ASSUME ~Runs(e) PROVE Stopped(x) = Service!Zero(Len(Stopped(e)))
    BY <1>2, <1>3, <1>4
  <2>1. /\ e \in Good /\ DOMAIN e.evs = 1..Len(e.evs) /\ Len(e.evs) \in Nat
        /\ Len(e.evs) <= NumMpxCntrs /\ NumMpxCntrs \in Nat /\ DOMAIN e.stop = 1..NumMpxCntrs
    BY AliveView, GoodIs, LenProperties, NativeEventsAssumption
  <2>2. Stopped(e) \in Seq(SUBSET Counts) /\ DOMAIN Stopped(e) = 1..Len(e.evs)
    BY <2>1, StoppedIs DEF Stopped
  <2>3. Len(Stopped(e)) = Len(e.evs)
    BY <2>1, <2>2, LenProperties
  <2>4. \A i \in 1..Len(e.evs) : x.stop[i] = {}
    BY <2>1 DEF Cleared
  <2>5. Stopped(x) = [i \in 1..Len(e.evs) |-> {}]
    BY <2>1, <2>4 DEF Stopped
  <2> QED BY <2>3, <2>5 DEF Service!Zero
<1>7. w = Service!Cleared(v)
  <2>1. w.running = v.running /\ w.n = 0
    BY <1>2, <1>3, <1>4
  <2>2. w.events = v.events /\ w.dom = v.dom
    BY <1>2, <1>3
  <2> HIDE DEF v, w
  <2> QED BY <1>2, <1>3, <1>5, <1>6, <2>1, <2>2, ClearedShow
<1> QED BY <1>1, <1>7

LEMMA ClearedSpare ==
  ASSUME NEW e \in Good, Spare(e), NEW x, x.evs = e.evs, x.stop = Cleared(e), x.bound
  PROVE  Spare(x)
<1>1. DOMAIN e.stop = 1..NumMpxCntrs
  BY GoodIs
<1> QED BY <1>1 DEF Spare, Cleared

\* Another sw_stop for an EventSet that does not run.
LEMMA ZeroStopIs ==
  ASSUME NEW e \in Good, Spare(e), e.bound, NEW x, x = [e EXCEPT !.stop = Cleared(e)]
  PROVE  /\ x.evs = e.evs /\ x.state = e.state /\ x.ctl = e.ctl /\ x.stop = Cleared(e)
         /\ x \in Good /\ Spare(x)
<1>1. /\ x.evs = e.evs /\ x.state = e.state /\ x.ctl = e.ctl /\ x.bound = e.bound
      /\ x.stop = Cleared(e)
  BY DEF Good, EventSetInfo
<1>2. x \in Good
  BY StoppedIs
<1> QED BY <1>1, <1>2, ClearedSpare

LEMMA ResetServes ==
  ASSUME SInv, IInv', NEW s \in Alive, Reset(s)
  PROVE  Serves
<1> DEFINE e == sets[s]
<1>1. /\ e \in Good /\ e.master = Self /\ Spare(e) /\ Ctx \in Context
  BY OwnIs DEF SInv, PInv, KInv, IInv, Spares
<1>2. CASE ~e.bound
  BY <1>2, RefuseServes DEF Reset
<1>3. ASSUME e.bound
      PROVE  /\ Views' = [Views EXCEPT ![s] = Service!Cleared(Views[s])] /\ Spares'
             /\ Reply("OK")
  <2>1. CASE ~Has(s, "RUNNING")
    <3> DEFINE x == [e EXCEPT !.stop = Cleared(e)]
    <3>1. sets' = [sets EXCEPT ![s] = x] /\ UNCHANGED thr /\ Reply("OK")
      <4>1. sets' = [sets EXCEPT ![s].stop = Cleared(e)] /\ UNCHANGED thr /\ Reply("OK")
        BY <1>3, <2>1 DEF Reset
      <4> QED BY <4>1
    <3>2. /\ x.evs = e.evs /\ x.state = e.state /\ x.ctl = e.ctl /\ x.stop = Cleared(e)
          /\ x \in Good /\ Spare(x)
      BY <1>1, <1>3, ZeroStopIs
    <3>3. ~Runs(e)
      BY <2>1 DEF Runs, Has
    <3> HIDE DEF x
    <3> QED BY <3>1, <3>2, <3>3, ClearViews
  <2>2. CASE Has(s, "RUNNING")
    <3>1. Run = s /\ Runs(e)
      BY <2>2, OwnIs DEF SInv, PInv, KInv, Runs, Has
    <3>2. thr' = Touch(Self, s, ResetCtx(Ctx)) /\ Reply("OK") /\ UNCHANGED sets
      BY <1>1, <1>3, <2>2 DEF Reset, Ctx
    <3>3. Ctx'.n = 0
      <4>1. Ctx' = ResetCtx(Ctx)
        BY <3>2, TouchedIs DEF SInv, PInv, KInv, IInv
      <4> QED BY <1>1, <4>1 DEF ResetCtx, Context
    <3>4. sets' = [sets EXCEPT ![s] = e]
      BY <3>2, TypeOKIs DEF SInv, PInv, KInv, IInv, Alive
    <3> HIDE DEF e
    <3> QED BY <1>1, <3>1, <3>2, <3>3, <3>4, ClearViews DEF e
  <2> QED BY <2>1, <2>2
<1>4. CASE e.bound
  <2>1. Service!Reset(s)
    BY <1>3, <1>4 DEF Service!Reset, Service!Becomes, Service!Done, Views, Reply
  <2> QED BY <1>3, <1>4, <2>1, AliveView DEF Serves, Service!Next
<1> QED BY <1>2, <1>4

LEMMA AccumServes ==
  ASSUME SInv, IInv', NEW s \in Alive, Accum(s)
  PROVE  Serves
<1> DEFINE e == sets[s]
           ctl == Fetched(Ctx, e.ctl)
           vals == ValuesOf(e.evs, ctl.counts)
<1>1. /\ StaysTyped /\ e \in Good /\ e.master = Self /\ Spare(e) /\ Ctx \in Context
      /\ e.ctl \in ControlState
  BY AccumTypes, OwnIs, GoodIs DEF SInv, PInv, KInv, IInv, Spares
<1>2. CASE ~e.bound
  BY <1>2, RefuseServes DEF Accum
<1>3. ASSUME e.bound
      PROVE  /\ Views' = [Views EXCEPT ![s] = Service!Cleared(Views[s])] /\ Spares'
             /\ Answer(s, Service!Readings(Views[s]))
  <2>1. CASE ~Has(s, "RUNNING")
    <3> DEFINE x == [e EXCEPT !.stop = Cleared(e)]
    <3>1. sets' = [sets EXCEPT ![s] = x] /\ UNCHANGED thr /\ Answer(s, Stopped(e))
      <4>1. sets' = [sets EXCEPT ![s].stop = Cleared(e)] /\ UNCHANGED thr /\ Answer(s, Stopped(e))
        BY <1>3, <2>1 DEF Accum
      <4> QED BY <4>1
    <3>2. /\ x.evs = e.evs /\ x.state = e.state /\ x.ctl = e.ctl /\ x.stop = Cleared(e)
          /\ x \in Good /\ Spare(x)
      BY <1>1, <1>3, ZeroStopIs
    <3>3. ~Runs(e)
      BY <2>1 DEF Runs, Has
    <3>4. Service!Readings(Views[s]) = Stopped(e)
      BY <3>3, HeldIs
    <3> HIDE DEF x
    <3> QED BY <3>1, <3>2, <3>3, <3>4, ClearViews
  <2>2. CASE Has(s, "RUNNING")
    <3> DEFINE x == [e EXCEPT !.ctl = ctl, !.stop = StopOf(e, vals)]
    <3>1. /\ Run = s /\ Runs(e) /\ ~ReadFails(Ctx, e.ctl)
          /\ vals = Service!Readings(Views[s])
      BY <2>2, OwnIs, ValuesAre DEF SInv, PInv, KInv, Runs, Has
    <3>2. /\ sets' = [sets EXCEPT ![s] = x] /\ Answer(s, vals)
          /\ thr' = Touch(Self, s, ResetCtx(Ctx))
      BY <1>1, <1>3, <2>2, <3>1 DEF Accum, Ctx, StopOf
    <3>3. Ctx'.n = 0
      <4>1. Ctx' = ResetCtx(Ctx)
        BY <3>2, TouchedIs DEF SInv, PInv, KInv, IInv
      <4> QED BY <1>1, <4>1 DEF ResetCtx, Context
    <3>4. ctl.dom = e.ctl.dom
      BY <1>1, FetchedKeeps
    <3> HIDE DEF vals
    <3>5. /\ x.evs = e.evs /\ x.stop = StopOf(e, vals) /\ x.bound = e.bound /\ x.ctl = ctl
          /\ x.state = e.state
      <4> HIDE DEF ctl
      <4> QED BY <1>1 DEF Good, EventSetInfo
    <3> HIDE DEF x, ctl
    <3>6. x \in Good /\ Spare(x)
      BY <1>1, <3>2, <3>4, <3>5, StayedGood, SwStopIs DEF vals
    <3> QED BY <1>1, <3>1, <3>2, <3>3, <3>4, <3>5, <3>6, ClearViews
  <2> QED BY <2>1, <2>2
<1>4. CASE e.bound
  <2>1. Service!Accum(s)
    BY <1>3, <1>4 DEF Service!Accum, Service!Becomes, Service!Gives, Views, Answer
  <2> QED BY <1>3, <1>4, <2>1, AliveView DEF Serves, Service!Next
<1> QED BY <1>2, <1>4

LEMMA SetDomainServes ==
  ASSUME Liberties = {}, SInv, IInv', NEW s \in Alive, NEW d \in Domains, SetDomain(s, d)
  PROVE  Serves
<1> DEFINE e == sets[s]
           c == [e.ctl EXCEPT !.dom = d]
           x == [e EXCEPT !.ctl = c]
           v == Views[s]
           w == View(x, Ctx'.n)
<1>1. StaysTyped /\ e \in Good /\ Spare(e) /\ e.ctl \in ControlState /\ e.evs = <<>>
  BY SetDomainTypes, OwnIs, GoodIs DEF SInv, PInv, KInv, IInv, Spares, SetDomain
<1>2. CASE ~e.bound \/ ~Has(s, "STOPPED")
  BY <1>2, RefuseServes DEF SetDomain
<1>3. CASE e.bound /\ Has(s, "STOPPED") /\ ~Reply("EPERM")
  <2>1. ~Has(s, "RUNNING") /\ ~Runs(e)
    BY <1>3, OwnIs DEF SInv, PInv, KInv, Runs, Has
  <2>2. Run = None
    BY <2>1, IdleIs DEF SInv, PInv, KInv, SetDomain, Plain
  <2>3. sets' = [sets EXCEPT ![s] = x] /\ Reply("OK")
    <3>1. sets' = [sets EXCEPT ![s].ctl.dom = d] /\ Reply("OK")
      BY <1>3 DEF SetDomain
    <3> QED BY <3>1
  <2>4. c.dom = d
    BY <1>1 DEF ControlState
  <2> HIDE DEF c
  <2>5. x.evs = e.evs /\ x.state = e.state /\ x.ctl = c /\ x.stop = e.stop /\ x.bound = e.bound
    BY <1>1 DEF Good, EventSetInfo
  <2> HIDE DEF x
  <2>6. x \in Good /\ Spare(x) /\ x # None /\ ~Runs(x)
    BY <1>1, <1>3, <2>1, <2>3, <2>5, StayedGood, EventSetsAssumption DEF Spare, Good, Runs
  <2>7. Views' = [Views EXCEPT ![s] = w] /\ Spares'
    BY <2>2, <2>3, <2>6, BecomesIs, PutSpare, AliveView DEF SInv, PInv, KInv
  <2>8. /\ w \in Shows /\ w.events = CodesOf(e.evs) /\ w.dom = d /\ w.running = FALSE
        /\ w.n = 0 /\ w.held = Stopped(e)
    <3>1. w = View(x, Ctx'.n)
      OBVIOUS
    <3> HIDE DEF w
    <3>2. Stopped(x) = Stopped(e)
      BY <2>5 DEF Stopped
    <3> QED BY <2>4, <2>5, <2>6, <3>1, <3>2, NewFields
  <2>9. /\ v \in Shows /\ v.events = CodesOf(e.evs) /\ v.running = FALSE
        /\ v.n = 0 /\ v.held = Stopped(e)
    BY <2>1, AliveFields
  <2> HIDE DEF w, v
  <2>10. w = [v EXCEPT !.dom = d]
    BY <2>8, <2>9, ChosenShow
  <2>11. v.events = <<>>
    <3>1. DOMAIN e.evs = {}
      BY <1>1, EmptySeq
    <3> QED BY <1>1, <2>9, <3>1 DEF CodesOf
  <2>12. Service!Choose(s, d)
    BY <2>3, <2>7, <2>9, <2>10, <2>11
       DEF Service!Choose, Service!Becomes, Service!Done, Views, Reply, v
  <2> QED BY <2>7, <2>12, AliveView DEF Serves, Service!Next
<1>4. CASE e.bound /\ Has(s, "STOPPED") /\ Reply("EPERM")
  <2>1. ~Has(s, "RUNNING") /\ ~Runs(e)
    BY <1>4, OwnIs DEF SInv, PInv, KInv, Runs, Has
  <2>2. Run = None
    BY <2>1, IdleIs DEF SInv, PInv, KInv, SetDomain, Plain
  <2>3. UNCHANGED sets
    BY <1>4 DEF SetDomain, Reply
  <2>4. sets' = [sets EXCEPT ![s] = e]
    BY <2>3, TypeOKIs DEF SInv, PInv, KInv, IInv
  <2>5. View(e, Ctx'.n) = View(e, Ctx.n)
    BY <2>1 DEF View
  <2>6. ret'.set = None
    BY <1>4 DEF Reply
  <2> QED BY <1>1, <2>2, <2>4, <2>5, <2>6, HiddenServes
<1> QED BY <1>2, <1>3, <1>4

\* Time passes for the EventSet that runs and for no other.
LEMMA TickServes ==
  ASSUME SInv, IInv', Tick
  PROVE  Serves
<1> DEFINE V == [r \in Slots |-> IF r \in Service!Live /\ Views[r].running
                                 THEN [Views[r] EXCEPT !.n = @ + 1] ELSE Views[r]]
<1>1. Self \in Counting
  BY DEF Tick, Counting, SInv, PInv, KInv, Ready
<1>2. Ctx.on /\ Run # None /\ Run \in Alive /\ Ctx \in Context
  <2>1. Ctx.on
    BY <1>1 DEF Counting, Ctx
  <2>2. Run # None
    BY <2>1 DEF SInv, PInv, KInv, Ready
  <2>3. Run \in Alive
    BY <2>2, EventSetsAssumption DEF SInv, PInv, KInv, IInv, RunningAgrees, Run
  <2> QED BY <2>1, <2>2, <2>3, OwnIs DEF SInv, PInv, KInv
<1>3. Ctx'.n = Ctx.n + 1
  <2>1. thr \in [Threads -> ThreadInfo] /\ Self \in Threads
    BY TypeOKIs, EventSetsAssumption DEF SInv, PInv, KInv, IInv
  <2>2. thr'[Self] = [thr[Self] EXCEPT !.ctx.n = @ + 1]
    BY <1>1, <2>1 DEF Tick
  <2> QED BY <2>1, <2>2 DEF Ctx, ThreadInfo, Context
<1>4. UNCHANGED <<sets, ret>> /\ Spares'
  BY DEF Tick, SInv, Spares, Alive
<1>5. \E r \in Service!Live : Views[r].running
  <2>1. Runs(sets[Run]) /\ Run \in Service!Live
    BY <1>2, OwnIs, AliveView DEF SInv, PInv, KInv, Runs, Has
  <2> QED BY <1>2, <2>1, AliveFields
<1>6. ASSUME NEW r \in Slots PROVE Shown(r)' = V[r]
  <2> DEFINE e == sets[r]
             v == Views[r]
             w == View(e, Ctx'.n)
  <2>1. CASE r \notin Alive
    <3>1. sets[r] = None
      BY <2>1 DEF Alive
    <3>2. Shown(r)' = None /\ v = None /\ r \notin Service!Live
      BY <1>4, <2>1, <3>1, LiveIs DEF Shown, Views, SInv, PInv, KInv
    <3> QED BY <3>2
  <2>2. CASE r \in Alive
    <3>1. /\ e \in Good /\ e # None /\ r \in Service!Live /\ Ctx.n \in Nat
      BY <2>2, AliveView DEF Alive
    <3>2. Shown(r)' = w
      BY <1>4, <3>1, ShownNext
    <3>3. /\ v = View(e, Ctx.n) /\ v \in Shows
          /\ v.events = CodesOf(e.evs) /\ v.dom = e.ctl.dom
          /\ Runs(e) => v.running = TRUE /\ v.n = Ctx.n /\ v.held = <<>>
          /\ ~Runs(e) => v.running = FALSE /\ v.n = 0 /\ v.held = Stopped(e)
      BY <2>2, AliveFields
    <3>4. /\ w \in Shows /\ w.events = CodesOf(e.evs) /\ w.dom = e.ctl.dom
          /\ Runs(e) => w.running = TRUE /\ w.n = Ctx'.n /\ w.held = <<>>
      BY <3>1, NewFields
    <3>5. CASE Runs(e)
      <4> HIDE DEF v, w, e
      <4>1. w.running = v.running /\ w.n = v.n + 1 /\ w.held = v.held
        BY <1>3, <3>3, <3>4, <3>5
      <4>2. w.events = v.events /\ w.dom = v.dom
        BY <3>3, <3>4
      <4>3. w = [v EXCEPT !.n = @ + 1] /\ v.running
        BY <3>3, <3>4, <3>5, <4>1, <4>2, CountedShow
      <4> QED BY <3>1, <3>2, <4>3 DEF v
    <3>6. CASE ~Runs(e)
      <4>1. w = View(e, Ctx.n)
        BY <3>6, IdleView
      <4>2. ~v.running
        BY <3>3, <3>6
      <4> QED BY <3>2, <3>3, <4>1, <4>2
    <3> QED BY <3>5, <3>6
  <2> QED BY <2>1, <2>2
<1>7. Views' = V
  BY <1>6 DEF Views
<1>8. Service!Count
  BY <1>4, <1>5, <1>7 DEF Service!Count, Views
<1> QED BY <1>4, <1>8 DEF Serves, Service!Next
-----------------------------------------------------------------------------
(* The invariant and the refinement.                                       *)

LEMMA NextServes ==
  ASSUME Liberties = {}, SInv, [Next]_vars
  PROVE  SInv' /\ [Service!Next]_<<Views, ret>>
<1>1. PInv' /\ IInv'
  BY NextPlaced DEF SInv, PInv, KInv
<1>2. Serves
  <2>1. CASE Create
    BY <1>1, <2>1, CreateServes
  <2>2. CASE Tick
    BY <1>1, <2>2, TickServes
  <2>3. ASSUME NEW s \in Alive, Call(s) PROVE Serves
    <3>1. ASSUME NEW c \in Codes, AddEvent(s, c) \/ RemoveEvent(s, c) PROVE Serves
      <4>1. ~RemoveEvent(s, c)
        BY DEF RemoveEvent
      <4> QED BY <1>1, <3>1, <4>1, AddEventServes
    <3>2. ASSUME NEW d \in Domains, SetDomain(s, d) PROVE Serves
      BY <1>1, <3>2, SetDomainServes
    <3>3. ~(\E t \in Threads \ {Self} : Attach(s, t)) /\ ~Detach(s)
      BY DEF Attach, Detach
    <3>4. CASE Assign(s) \/ Cleanup(s) \/ Destroy(s) \/ Start(s) \/ Stop(s)
      BY <1>1, <3>4, AssignServes, CleanupServes, DestroyServes, StartServes, StopServes
    <3>5. CASE Read(s) \/ Reset(s) \/ Accum(s)
      BY <1>1, <3>5, ReadServes, ResetServes, AccumServes
    <3> QED BY <2>3, <3>1, <3>2, <3>3, <3>4, <3>5 DEF Call
  <2>4. CASE UNCHANGED vars
    <3>1. Views' = Views /\ Spares' /\ ret' = ret
      BY <2>4, StillViews DEF vars
    <3> QED BY <3>1 DEF Serves
  <2> QED BY <2>1, <2>2, <2>3, <2>4 DEF Next
<1> QED BY <1>1, <1>2 DEF SInv, Serves

LEMMA InitServes ==
  ASSUME Liberties = {}, Init
  PROVE  SInv /\ Service!Init
<1>1. Alive = {}
  BY DEF Init, Alive
<1>2. SInv
  BY <1>1, InitReady DEF SInv, PInv, Places, Spares
<1>3. Service!Init
  BY DEF Init, Service!Init, Shown
<1> QED BY <1>2, <1>3

\* The low-level interface gives every EventSet readings of its own events over
\* its own time, whatever the others of the thread do with the context they all
\* share, and a call that fails shows in none: for an application that takes no
\* liberty, EventSets implements CountingService.
THEOREM ServesCountsHolds ==
  ASSUME Liberties = {}
  PROVE  Spec => ServesCounts
<1>1. Init => SInv /\ Service!Init
  BY InitServes
<1>2. SInv /\ [Next]_vars => SInv' /\ [Service!Next]_<<[s \in Slots |-> Shown(s)], ret>>
  BY NextServes DEF Views
<1> QED BY <1>1, <1>2, PTL DEF Spec, ServesCounts, Service!Spec
=============================================================================
