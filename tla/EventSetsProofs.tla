-------------------------- MODULE EventSetsProofs ---------------------------
(***************************************************************************)
(* Theorems about EventSets, for every table of events, every number of    *)
(* EventSets and threads, every order of calls and every verdict of the    *)
(* kernel.                                                                 *)
(***************************************************************************)
EXTENDS EventSets, NativeEventsProofs

-----------------------------------------------------------------------------
(* What the operators of PerfEvents return.                                *)

\* Positions are given to the native events in their order.
LEMMA PositionedIs ==
  ASSUME NEW nats \in Seq(Row), Len(nats) <= NumMpxCntrs
  PROVE  /\ Positioned(nats) \in Seq(NativeInfo) /\ Len(Positioned(nats)) = Len(nats)
         /\ Mapped(Positioned(nats)) = Mapped(nats)
<1> DEFINE n == Len(nats)
<1>1. n \in Nat /\ DOMAIN nats = 1..n /\ \A i \in 1..n : nats[i] \in Row
  BY LenProperties, ElementOfSeq
<1>2. \A r \in Row, i \in Positions : /\ [r EXCEPT !.pos = i] \in NativeInfo
                                    /\ [r EXCEPT !.pos = i].nat = r.nat
  BY DEF Row, NativeInfo
<1>3. 1..n \subseteq Positions
  BY <1>1, NativeEventsAssumption DEF Positions
<1>4. Positioned(nats) = [i \in 1..n |-> [nats[i] EXCEPT !.pos = i]]
  BY <1>1 DEF Positioned
<1> HIDE DEF n
<1>5. \A i \in 1..n : /\ [nats[i] EXCEPT !.pos = i] \in NativeInfo
                      /\ [nats[i] EXCEPT !.pos = i].nat = nats[i].nat
  BY <1>1, <1>2, <1>3
<1>6. Positioned(nats) \in [1..n -> NativeInfo]
  BY <1>4, <1>5
<1>7. Mapped(Positioned(nats)) = Mapped(nats)
  BY <1>1, <1>4, <1>5 DEF Mapped
<1> QED BY <1>1, <1>6, <1>7, SeqDef DEF n

\* Configuring a control state leaves it one, whatever the native events.
LEMMA ConfiguredIs ==
  ASSUME NEW ctl \in ControlState, NEW nats \in Seq(Row)
  PROVE  Configured(ctl, nats) \in ControlState
<1> DEFINE E == [i \in DOMAIN nats |-> nats[i].nat]
<1>1. Len(nats) \in Nat /\ DOMAIN nats = 1..Len(nats) /\ \A i \in 1..Len(nats) : nats[i] \in Row
  BY LenProperties, ElementOfSeq
<1>2. E \in Seq(Natives)
  <2>1. E \in [1..Len(nats) -> Natives]
    BY <1>1 DEF Row
  <2> QED BY <1>1, <2>1, SeqDef
<1> HIDE DEF E
<1>3. [ctl EXCEPT !.ev = E] \in ControlState
  BY <1>2 DEF ControlState
<1> QED BY <1>3 DEF Configured, E

\* Whatever is done to a context leaves it one.
LEMMA ContextIs ==
  ASSUME NEW ctl \in ControlState, NEW nats \in Seq(NativeInfo), NEW ok \in BOOLEAN
  PROVE  /\ Opened(ctl) \in Context /\ Closed \in Context
         /\ Updated(ctl, nats, ok) \in Context /\ Reopened(ctl, ok) \in Context
<1>1. ASSUME NEW d \in ControlState PROVE Opened(d) \in Context
  <2> DEFINE Fd == [nat : Natives, dom : Domains, tid : Threads \cup {Caller}]
             F == [i \in DOMAIN d.ev |-> [nat |-> d.ev[i], dom |-> d.dom, tid |-> d.tid]]
  <2>1. d.ev \in Seq(Natives) /\ d.dom \in Domains /\ d.tid \in Threads \cup {Caller}
    BY DEF ControlState
  <2>2. /\ Len(d.ev) \in Nat /\ DOMAIN d.ev = 1..Len(d.ev)
        /\ \A i \in 1..Len(d.ev) : d.ev[i] \in Natives
    BY <2>1, LenProperties, ElementOfSeq
  <2>3. F \in [1..Len(d.ev) -> Fd]
    BY <2>1, <2>2
  <2>4. F \in Seq(Fd)
    BY <2>2, <2>3, SeqDef
  <2> HIDE DEF F
  <2>5. [fds |-> F, on |-> FALSE, n |-> 0] \in Context
    BY <2>4 DEF Context
  <2> QED BY <2>5 DEF Opened, F
<1>2. Closed \in Context
  BY EmptySeq DEF Closed, Context
<1>3. Configured(ctl, nats) \in ControlState
  BY ConfiguredIs, NativeInfoIsRow
<1> QED BY <1>1, <1>2, <1>3 DEF Updated, Reopened

\* Starting, stopping, resetting and closing keep a context a context.
LEMMA SwitchedIs ==
  ASSUME NEW ctx \in Context
  PROVE  /\ Enabled(ctx) \in Context /\ Disabled(ctx) \in Context /\ ResetCtx(ctx) \in Context
         /\ Closed \in Context
BY EmptySeq DEF Context, Enabled, Disabled, ResetCtx, Closed

\* Reading fills the counts of the control state with counts.
LEMMA FetchedIs ==
  ASSUME NEW ctx \in Context, NEW ctl \in ControlState
  PROVE  Fetched(ctx, ctl) \in ControlState
<1> DEFINE Fd == [nat : Natives, dom : Domains, tid : Threads \cup {Caller}]
           Got(i) == IF i \in DOMAIN ctl.ev \cap DOMAIN ctx.fds
                       THEN CountOf(ctx.fds[i], ctx.n) ELSE ctl.counts[i]
           C == [i \in DOMAIN ctl.counts |-> Got(i)]
<1>1. ctx.fds \in Seq(Fd) /\ ctx.n \in Nat
  BY DEF Context
<1>2. ctl.counts \in [1..NumMpxCntrs -> Counts]
  BY DEF ControlState
<1>3. \A i \in DOMAIN ctx.fds : ctx.fds[i] \in Fd
  <2> HIDE DEF Fd
  <2> QED BY <1>1, LenProperties, ElementOfSeq
<1>4. \A fd \in Fd : CountOf(fd, ctx.n) \in Counts
  BY <1>1 DEF CountOf, Counts
<1>5. \A i \in 1..NumMpxCntrs : Got(i) \in Counts
  BY <1>2, <1>3, <1>4
<1>6. C \in [1..NumMpxCntrs -> Counts]
  <2> HIDE DEF Got
  <2> QED BY <1>2, <1>5
<1>7. Fetched(ctx, ctl) = [ctl EXCEPT !.counts = C]
  BY DEF Fetched
<1> HIDE DEF C
<1> QED BY <1>6, <1>7 DEF ControlState

\* An EventSet's values are sets of counts, one for every event.
LEMMA ValuesOfIs ==
  ASSUME NEW evs \in Seq(EventInfo), NEW ctl \in ControlState
  PROVE  /\ ValuesOf(evs, ctl.counts) \in Seq(SUBSET Counts)
         /\ \A i \in DOMAIN ValuesOf(evs, ctl.counts) :
              ValuesOf(evs, ctl.counts)[i] \in SUBSET Counts
<1>1. /\ Len(evs) \in Nat /\ DOMAIN evs = 1..Len(evs)
      /\ \A i \in 1..Len(evs) : evs[i] \in EventInfo
  BY LenProperties, ElementOfSeq
<1>2. \A j \in Positions : ctl.counts[j] \in Counts
  BY DEF ControlState, Positions
<1>3. ASSUME NEW ev \in EventInfo PROVE ValueOf(ev, ctl.counts) \in SUBSET Counts
  <2>1. ev.pos \in Seq(Positions)
    BY DEF EventInfo
  <2>2. \A k \in DOMAIN ev.pos : ev.pos[k] \in Positions
    BY <2>1, LenProperties, ElementOfSeq
  <2> QED BY <1>2, <2>2 DEF ValueOf
<1>4. \A i \in 1..Len(evs) : ValueOf(evs[i], ctl.counts) \in SUBSET Counts
  BY <1>1, <1>3
<1>5. ValuesOf(evs, ctl.counts) = [i \in 1..Len(evs) |-> ValueOf(evs[i], ctl.counts)]
  BY <1>1 DEF ValuesOf
<1>6. ValuesOf(evs, ctl.counts) \in [1..Len(evs) -> SUBSET Counts]
  BY <1>4, <1>5
<1> QED BY <1>1, <1>6, SeqDef
-----------------------------------------------------------------------------
(* The pieces of a step that keep TypeOK.                                  *)

Good == {e \in EventSetInfo : Fits(e)}
Answers == [code : ReturnCodes, set : Slots \cup {None}, vals : Seq(SUBSET Counts)]

\* TypeOK with an EventSet's type and its bounds taken together.
LEMMA TypeOKIs ==
  TypeOK <=> /\ sets \in [Slots -> Good \cup {None}]
             /\ thr \in [Threads -> ThreadInfo]
             /\ ret \in Answers
BY DEF TypeOK, Good, Answers, Alive

\* What has to be shown of a step for the type invariant.
LEMMA TypeOKNext ==
  ASSUME sets' \in [Slots -> Good \cup {None}], thr' \in [Threads -> ThreadInfo], ret' \in Answers
  PROVE  TypeOK'
BY DEF TypeOK, Good, Answers, Alive

\* What the type invariant says of an EventSet that is alive.
LEMMA AliveIs ==
  ASSUME TypeOK, NEW s \in Alive
  PROVE  /\ s \in Slots /\ sets[s] \in Good /\ sets[s] # None
         /\ sets[s].master \in Threads /\ thr[sets[s].master].ctx \in Context
<1>1. s \in Slots /\ sets[s] \in Good /\ sets[s] # None
  BY TypeOKIs DEF Alive
<1>2. sets[s].master \in Threads
  BY <1>1 DEF Good, EventSetInfo
<1> QED BY <1>1, <1>2, TypeOKIs DEF ThreadInfo

\* The fields of an EventSet.
LEMMA GoodIs ==
  ASSUME NEW e \in Good
  PROVE  /\ e.state \in SUBSET Flags /\ e.master \in Threads /\ e.bound \in BOOLEAN
         /\ e.evs \in Seq(EventInfo) /\ Len(e.evs) \in Nat /\ Len(e.evs) <= NumMpxCntrs
         /\ e.nats \in Seq(NativeInfo) /\ Len(e.nats) \in Nat /\ Len(e.nats) <= NumMpxCntrs
         /\ e.nats \in Seq(Row)
         /\ e.ctl \in ControlState /\ e.stop \in [1..NumMpxCntrs -> SUBSET Counts]
<1>1. e.evs \in Seq(EventInfo) /\ e.nats \in Seq(NativeInfo)
  BY DEF Good, EventSetInfo
<1> QED BY <1>1, LenProperties, NativeInfoIsRow DEF Good, EventSetInfo, Fits

\* What an EventSet is made of anew is an EventSet again.
LEMMA RemadeIs ==
  ASSUME NEW state \in SUBSET Flags, NEW bound \in BOOLEAN, NEW master \in Threads,
         NEW evs \in Seq(EventInfo), Len(evs) <= NumMpxCntrs,
         NEW nats \in Seq(NativeInfo), Len(nats) <= NumMpxCntrs,
         NEW ctl \in ControlState, NEW stop \in [1..NumMpxCntrs -> SUBSET Counts]
  PROVE  [state |-> state, bound |-> bound, master |-> master, evs |-> evs,
          nats |-> nats, ctl |-> ctl, stop |-> stop] \in Good
BY DEF Good, Fits, EventSetInfo

\* An EventSet is the record of its fields.
LEMMA FieldsOf ==
  ASSUME NEW e \in Good
  PROVE  e = [state |-> e.state, bound |-> e.bound, master |-> e.master, evs |-> e.evs,
              nats |-> e.nats, ctl |-> e.ctl, stop |-> e.stop]
BY DEF Good, EventSetInfo

\* create_EventSet and _papi_hwi_assign_eventset make EventSets.
LEMMA NewEventSetIs ==
  /\ Empty \in Good
  /\ \A e \in Good : Bind(e) \in Good
<1>1. NewControlState(DefaultDomain) \in ControlState
  <2>1. ZeroCount \in Counts
    BY DEF Counts
  <2>2. [i \in 1..NumMpxCntrs |-> ZeroCount] \in [1..NumMpxCntrs -> Counts]
    BY <2>1
  <2> QED BY <2>2, EmptySeq, EventSetsAssumption DEF NewControlState, ControlState
<1>2. /\ [i \in 1..NumMpxCntrs |-> {}] \in [1..NumMpxCntrs -> SUBSET Counts]
      /\ 0 <= NumMpxCntrs /\ {"STOPPED"} \in SUBSET Flags
  BY NativeEventsAssumption DEF Flags
<1>3. Empty \in Good
  BY <1>1, <1>2, EmptySeq, EventSetsAssumption, RemadeIs DEF Empty
<1>4. ASSUME NEW e \in Good PROVE Bind(e) \in Good
  <2>1. \A x \in Good, m \in Threads : [x EXCEPT !.bound = TRUE, !.master = m] \in Good
    BY DEF Good, Fits, EventSetInfo
  <2>2. e.master \in Threads
    BY GoodIs
  <2> QED BY <1>3, <2>1, <2>2 DEF Bind
<1> QED BY <1>3, <1>4

\* A call that touches a context leaves ThreadInfos, also when it sets
\* running_eventset.
LEMMA TouchIs ==
  ASSUME TypeOK, NEW t \in Threads, NEW s \in Slots, NEW ctx \in Context,
         NEW r \in Slots \cup {None}
  PROVE  /\ Touch(t, s, ctx) \in [Threads -> ThreadInfo]
         /\ [Touch(t, s, ctx) EXCEPT ![t].running = r] \in [Threads -> ThreadInfo]
<1>1. thr \in [Threads -> ThreadInfo]
  BY TypeOKIs
<1>2. \A u \in ThreadInfo, x \in Context, y \in Slots \cup {None} :
        /\ [u EXCEPT !.ctx = x] \in ThreadInfo
        /\ [u EXCEPT !.from = y] \in ThreadInfo
        /\ [u EXCEPT !.running = y] \in ThreadInfo
  BY DEF ThreadInfo
<1>3. [thr EXCEPT ![t].ctx = ctx] \in [Threads -> ThreadInfo]
  BY <1>1, <1>2
<1>4. [[thr EXCEPT ![t].ctx = ctx] EXCEPT ![t].from = s] \in [Threads -> ThreadInfo]
  BY <1>2, <1>3
<1>5. Touch(t, s, ctx) = [[thr EXCEPT ![t].ctx = ctx] EXCEPT ![t].from = s]
  BY DEF Touch
<1>6. Touch(t, s, ctx) \in [Threads -> ThreadInfo]
  BY <1>4, <1>5
<1> QED BY <1>2, <1>6

\* A return code is an answer.
LEMMA ReplyIs ==
  ASSUME NEW code \in ReturnCodes, Reply(code)
  PROVE  ret' \in Answers
<1>1. <<>> \in Seq(SUBSET Counts)
  BY EmptySeq
<1> QED BY <1>1 DEF Reply, Answers

\* Values returned with PAPI_OK are an answer.
LEMMA AnswerIs ==
  ASSUME NEW s \in Slots, NEW vals \in Seq(SUBSET Counts), Answer(s, vals)
  PROVE  ret' \in Answers
<1>1. "OK" \in ReturnCodes
  BY DEF ReturnCodes
<1> QED BY <1>1 DEF Answer, Answers

\* Most calls make and destroy no EventSet.
StaysTyped == TypeOK' /\ Alive' = Alive

\* One EventSet is put in a slot, everything else is typed.
LEMMA PutIs ==
  ASSUME TypeOK, NEW s \in Slots, NEW e \in Good \cup {None}, sets' = [sets EXCEPT ![s] = e],
         thr' \in [Threads -> ThreadInfo], ret' \in Answers
  PROVE  TypeOK'
BY TypeOKIs, TypeOKNext

\* A call that puts an EventSet in the slot of one keeps the types and who is
\* alive.
LEMMA PutGoodIs ==
  ASSUME TypeOK, NEW s \in Alive, NEW e \in Good, sets' = [sets EXCEPT ![s] = e],
         thr' \in [Threads -> ThreadInfo], ret' \in Answers
  PROVE  StaysTyped
<1>1. TypeOK'
  BY PutIs DEF Alive
<1>2. e # None
  BY EventSetsAssumption DEF Good
<1> QED BY <1>1, <1>2, TypeOKIs DEF StaysTyped, Alive

\* No EventSet changes.
LEMMA KeptIs ==
  ASSUME TypeOK, sets' = sets, thr' \in [Threads -> ThreadInfo], ret' \in Answers
  PROVE  StaysTyped
<1>1. TypeOK'
  BY TypeOKIs, TypeOKNext
<1> QED BY <1>1 DEF StaysTyped, Alive

\* A refused call keeps the types.
LEMMA RefuseIs ==
  ASSUME TypeOK, NEW code \in ReturnCodes, Refuse(code)
  PROVE  StaysTyped
BY TypeOKIs, KeptIs, ReplyIs DEF Refuse

-----------------------------------------------------------------------------
(* TypeOK, action by action.                                               *)

\* PAPI_library_init leaves an empty table and empty ThreadInfos.
LEMMA InitTypes == Init => TypeOK
<1> SUFFICES ASSUME Init PROVE TypeOK
  OBVIOUS
<1>1. sets \in [Slots -> Good \cup {None}]
  BY DEF Init
<1>2. thr \in [Threads -> ThreadInfo]
  <2>1. Closed \in Context
    BY EmptySeq DEF Closed, Context
  <2> QED BY <2>1 DEF Init, ThreadInfo
<1>3. ret \in Answers
  BY EmptySeq DEF Init, Answers, ReturnCodes
<1> QED BY <1>1, <1>2, <1>3, TypeOKIs

\* PAPI_create_eventset keeps the types.
LEMMA CreateTypes == TypeOK /\ Create => TypeOK'
<1> SUFFICES ASSUME TypeOK, Create PROVE TypeOK'
  OBVIOUS
<1>1. PICK s \in Slots : sets' = [sets EXCEPT ![s] = Empty] /\ Reply("OK") /\ UNCHANGED thr
  BY DEF Create
<1>2. ret' \in Answers
  BY <1>1, ReplyIs DEF ReturnCodes
<1> QED BY <1>1, <1>2, NewEventSetIs, PutIs, TypeOKIs

\* Binding an EventSet to its component keeps the types.
LEMMA AssignTypes ==
  ASSUME TypeOK, NEW s \in Alive, Assign(s)
  PROVE  StaysTyped
<1>1. CASE sets[s].bound
  BY <1>1, RefuseIs DEF Assign, ReturnCodes
<1>2. CASE ~sets[s].bound
  <2>1. sets' = [sets EXCEPT ![s] = Bind(sets[s])] /\ Reply("OK") /\ UNCHANGED thr
    BY <1>2, AliveIs DEF Assign
  <2>2. ret' \in Answers
    BY <2>1, ReplyIs DEF ReturnCodes
  <2> QED BY <2>1, <2>2, AliveIs, NewEventSetIs, PutGoodIs, TypeOKIs
<1> QED BY <1>1, <1>2

\* An event that is put on the list finds its native events mapped, and the
\* list does not outgrow its array.
LEMMA JoinedIs ==
  ASSUME NEW e \in Good, NEW c \in Codes, NEW nats \in Seq(NativeInfo), NEW ctl \in ControlState,
         Len(e.evs) # NumMpxCntrs, Len(nats) <= NumMpxCntrs, Needs(c) \subseteq Mapped(nats)
  PROVE  /\ Joined(e, c, nats) \in Good
         /\ [Joined(e, c, nats) EXCEPT !.ctl = ctl] \in Good
<1> DEFINE E == Remap(Append(e.evs, Blank(c)), nats)
<1>1. E \in Seq(EventInfo) /\ Len(E) <= NumMpxCntrs
  <2>1. E \in Seq(EventInfo) /\ Len(E) = Len(e.evs) + 1
    BY GoodIs, AppendedIs
  <2>2. NumMpxCntrs \in Nat
    BY NativeEventsAssumption
  <2> QED BY <2>1, <2>2, GoodIs
<1>2. Joined(e, c, nats) = [e EXCEPT !.nats = nats, !.evs = E]
  BY DEF Joined
<1> HIDE DEF E
<1>3. Joined(e, c, nats) \in Good
  BY <1>1, <1>2 DEF Good, Fits, EventSetInfo
<1>4. \A x \in Good : [x EXCEPT !.ctl = ctl] \in Good
  BY DEF Good, Fits, EventSetInfo
<1> QED BY <1>3, <1>4

\* The same for an event that shares all its native events.
LEMMA SharingIs ==
  ASSUME NEW e \in Good, NEW c \in Codes, NEW nats \in Seq(NativeInfo),
         Len(e.evs) # NumMpxCntrs, Len(nats) <= NumMpxCntrs, Needs(c) \subseteq Mapped(nats)
  PROVE  Sharing(e, c, nats) \in Good
<1> DEFINE ev == Located(Blank(c), nats)
           E == Append(e.evs, ev)
<1>1. ev \in EventInfo
  BY LocatedIs
<1> HIDE DEF ev
<1>2. E \in Seq(EventInfo) /\ Len(E) = Len(e.evs) + 1
  BY <1>1, GoodIs, AppendProperties
<1>3. Len(E) <= NumMpxCntrs
  BY <1>2, GoodIs, NativeEventsAssumption
<1> HIDE DEF E
<1>4. [e EXCEPT !.nats = nats, !.evs = E] \in Good
  BY <1>2, <1>3 DEF Good, Fits, EventSetInfo
<1> QED BY <1>4 DEF Sharing, E, ev

\* PAPI_add_event keeps the types when every native event is mapped already.
LEMMA AddSharedTypes ==
  ASSUME TypeOK, NEW s \in Alive, NEW e \in Good, NEW c \in Codes,
         AddRefusal(e, c) = "OK", AddShared(s, e, c)
  PROVE  StaysTyped
<1> DEFINE A == AddNatives(e.nats, c)
<1>1. Len(e.evs) # NumMpxCntrs /\ Len(A) <= NumMpxCntrs
  <2>1. Len(A) \in Nat /\ Len(e.evs) \in Nat /\ NumMpxCntrs \in Nat /\ NumCntrs \in 0..NumMpxCntrs
    BY GoodIs, AddNativesIs, NewNativesIs, LenProperties, NativeEventsAssumption
  <2> QED BY <2>1 DEF AddRefusal
<1>2. A \in Seq(NativeInfo) /\ Needs(c) \subseteq Mapped(A)
  BY GoodIs, AddNativesIs DEF AddShared
<1>3. Sharing(e, c, A) \in Good
  BY <1>1, <1>2, SharingIs
<1>4. ret' \in Answers
  BY ReplyIs DEF AddShared, ReturnCodes
<1> QED BY <1>3, <1>4, AliveIs, PutGoodIs, TypeOKIs DEF AddShared

\* PAPI_add_event keeps the types when the group is rebuilt, whichever of the
\* two rebuildings fails.
LEMMA AddNewTypes ==
  ASSUME TypeOK, NEW s \in Alive, NEW e \in Good, NEW c \in Codes,
         AddRefusal(e, c) = "OK", AddNew(s, e, c)
  PROVE  StaysTyped
<1> DEFINE A == AddNatives(e.nats, c)
           ctl == Configured(e.ctl, A)
           old == FailClean(Positioned(A), c)
<1>1. /\ Len(e.evs) # NumMpxCntrs /\ Len(A) <= NumMpxCntrs /\ A \in Seq(Row)
      /\ Needs(c) \subseteq Mapped(A)
  <2>1. Len(A) \in Nat /\ Len(e.evs) \in Nat /\ NumMpxCntrs \in Nat /\ NumCntrs \in 0..NumMpxCntrs
    BY GoodIs, AddNativesIs, NewNativesIs, LenProperties, NativeEventsAssumption
  <2> QED BY <2>1, GoodIs, AddNativesIs DEF AddRefusal
<1>2. /\ Positioned(A) \in Seq(NativeInfo) /\ Len(Positioned(A)) <= NumMpxCntrs
      /\ Needs(c) \subseteq Mapped(Positioned(A))
  BY <1>1, PositionedIs
<1>3. ctl \in ControlState
  BY <1>1, GoodIs, ConfiguredIs
<1>4. old \in Seq(NativeInfo) /\ old \in Seq(Row) /\ Len(old) <= NumMpxCntrs
  <2>1. old \in Seq(NativeInfo) /\ Len(old) <= Len(Positioned(A))
    BY <1>2, FailCleanIs
  <2>2. Len(old) \in Nat /\ Len(Positioned(A)) \in Nat /\ NumMpxCntrs \in Nat
    BY <1>2, <2>1, LenProperties, NativeEventsAssumption
  <2> QED BY <1>2, <2>1, <2>2, NativeInfoIsRow
<1>5. Positioned(old) \in Seq(NativeInfo) /\ Len(Positioned(old)) <= NumMpxCntrs
  BY <1>4, PositionedIs
<1>6. s \in Slots /\ e.master \in Threads
  BY AliveIs, GoodIs
<1>7. None \in Slots \cup {None}
  OBVIOUS
<1> HIDE DEF A, ctl, old
<1>8. CASE /\ sets' = [sets EXCEPT ![s] = [Joined(e, c, Positioned(A)) EXCEPT !.ctl = ctl]]
           /\ thr' = Touch(e.master, s, Opened(ctl))
           /\ Reply("OK")
  <2>1. [Joined(e, c, Positioned(A)) EXCEPT !.ctl = ctl] \in Good
    BY <1>1, <1>2, <1>3, JoinedIs
  <2>2. thr' \in [Threads -> ThreadInfo]
    BY <1>3, <1>4, <1>6, <1>7, <1>8, ContextIs, TouchIs
  <2>3. ret' \in Answers
    BY <1>8, ReplyIs DEF ReturnCodes
  <2> QED BY <1>6, <1>8, <2>1, <2>2, <2>3, PutGoodIs
<1>9. ASSUME NEW again \in BOOLEAN,
             sets' = [sets EXCEPT ![s] = [e EXCEPT !.ctl = Configured(ctl, old),
                                                   !.nats = Positioned(old)]],
             thr' = Touch(e.master, s, Updated(ctl, old, again)),
             Reply("ECNFLCT")
      PROVE  StaysTyped
  <2>1. Configured(ctl, old) \in ControlState
    BY <1>3, <1>4, ConfiguredIs
  <2>2. \A d \in ControlState, x \in Seq(NativeInfo) : Len(x) <= NumMpxCntrs =>
          [e EXCEPT !.ctl = d, !.nats = x] \in Good
    BY DEF Good, Fits, EventSetInfo
  <2>3. [e EXCEPT !.ctl = Configured(ctl, old), !.nats = Positioned(old)] \in Good
    BY <1>5, <2>1, <2>2
  <2>4. thr' \in [Threads -> ThreadInfo]
    BY <1>3, <1>4, <1>6, <1>7, <1>9, ContextIs, TouchIs
  <2>5. ret' \in Answers
    BY <1>9, ReplyIs DEF ReturnCodes
  <2> QED BY <1>6, <1>9, <2>3, <2>4, <2>5, PutGoodIs
<1>10. \A evs : Verdicts(evs) \subseteq BOOLEAN
  BY DEF Verdicts
<1>11. PICK ok \in Verdicts(ctl.ev) :
         \/ /\ ok
            /\ sets' = [sets EXCEPT ![s] = [Joined(e, c, Positioned(A)) EXCEPT !.ctl = ctl]]
            /\ thr' = Touch(e.master, s, Opened(ctl))
            /\ Reply("OK")
         \/ /\ ~ok
            /\ \E again \in Verdicts(Configured(ctl, old).ev) :
                 /\ sets' = [sets EXCEPT ![s] = [e EXCEPT !.ctl = Configured(ctl, old),
                                                         !.nats = Positioned(old)]]
                 /\ thr' = Touch(e.master, s, Updated(ctl, old, again))
            /\ Reply("ECNFLCT")
  BY DEF AddNew, A, ctl, old
<1>12. ASSUME /\ \E again \in Verdicts(Configured(ctl, old).ev) :
                    /\ sets' = [sets EXCEPT ![s] = [e EXCEPT !.ctl = Configured(ctl, old),
                                                            !.nats = Positioned(old)]]
                    /\ thr' = Touch(e.master, s, Updated(ctl, old, again))
              /\ Reply("ECNFLCT")
       PROVE  StaysTyped
  <2>1. PICK again \in BOOLEAN :
          /\ sets' = [sets EXCEPT ![s] = [e EXCEPT !.ctl = Configured(ctl, old),
                                                  !.nats = Positioned(old)]]
          /\ thr' = Touch(e.master, s, Updated(ctl, old, again))
    BY <1>10, <1>12
  <2> QED BY <1>9, <1>12, <2>1
<1> QED BY <1>8, <1>11, <1>12

\* PAPI_add_event keeps the types.
LEMMA AddEventTypes ==
  ASSUME TypeOK, NEW s \in Alive, NEW c \in Codes, AddEvent(s, c)
  PROVE  StaysTyped
<1> DEFINE e == IF sets[s].bound THEN sets[s] ELSE Bind(sets[s])
<1>1. e \in Good
  BY AliveIs, NewEventSetIs
<1>2. CASE Has(s, "RUNNING")
  BY <1>2, RefuseIs DEF AddEvent, ReturnCodes
<1>3. CASE ~Has(s, "RUNNING") /\ AddRefusal(e, c) # "OK"
  <2>1. /\ sets' = [sets EXCEPT ![s] = e]
        /\ Reply(AddRefusal(e, c)) /\ UNCHANGED thr
    BY <1>3 DEF AddEvent
  <2>2. AddRefusal(e, c) \in ReturnCodes
    BY DEF AddRefusal, ReturnCodes
  <2> HIDE DEF e
  <2> QED BY <1>1, <2>1, <2>2, AliveIs, ReplyIs, PutGoodIs, TypeOKIs
<1>4. CASE ~Has(s, "RUNNING") /\ AddRefusal(e, c) = "OK"
  <2>1. AddShared(s, e, c) \/ AddNew(s, e, c)
    BY <1>4 DEF AddEvent
  <2> HIDE DEF e
  <2> QED BY <1>1, <1>4, <2>1, AddSharedTypes, AddNewTypes
<1> QED BY <1>2, <1>3, <1>4

\* Changes to an EventSet that leave it one.
LEMMA ChangedIs ==
  ASSUME NEW e \in Good
  PROVE  /\ \A x \in ControlState : [e EXCEPT !.ctl = x] \in Good
         /\ \A x \in SUBSET Flags : [e EXCEPT !.state = x] \in Good
         /\ \A x \in [1..NumMpxCntrs -> SUBSET Counts] : [e EXCEPT !.stop = x] \in Good
         /\ \A x \in Threads : [e EXCEPT !.master = x] \in Good
         /\ \A x \in Seq(EventInfo) : Len(x) <= NumMpxCntrs => [e EXCEPT !.evs = x] \in Good
         /\ \A x \in Seq(NativeInfo) : Len(x) <= NumMpxCntrs => [e EXCEPT !.nats = x] \in Good
<1>1. \A x \in ControlState : [e EXCEPT !.ctl = x] \in Good
  BY DEF Good, Fits, EventSetInfo
<1>2. \A x \in SUBSET Flags : [e EXCEPT !.state = x] \in Good
  BY DEF Good, Fits, EventSetInfo
<1>3. \A x \in [1..NumMpxCntrs -> SUBSET Counts] : [e EXCEPT !.stop = x] \in Good
  BY DEF Good, Fits, EventSetInfo
<1>4. \A x \in Threads : [e EXCEPT !.master = x] \in Good
  BY DEF Good, Fits, EventSetInfo
<1>5. \A x \in Seq(EventInfo) : Len(x) <= NumMpxCntrs => [e EXCEPT !.evs = x] \in Good
  BY DEF Good, Fits, EventSetInfo
<1>6. \A x \in Seq(NativeInfo) : Len(x) <= NumMpxCntrs => [e EXCEPT !.nats = x] \in Good
  BY DEF Good, Fits, EventSetInfo
<1> QED BY <1>1, <1>2, <1>3, <1>4, <1>5, <1>6

\* PAPI_remove_event keeps the types.
LEMMA RemoveEventTypes ==
  ASSUME TypeOK, NEW s \in Alive, NEW c \in Codes, RemoveEvent(s, c)
  PROVE  StaysTyped
<1> DEFINE e == sets[s]
           i == IndexOf(e.evs, c)
           W == Without(e.evs, i)
           nats == RemoveNatives(e.nats, c)
           ctl == Configured(e.ctl, nats)
<1>1. s \in Slots /\ e \in Good /\ e.master \in Threads
  BY AliveIs
<1>2. nats \in Seq(NativeInfo) /\ nats \in Seq(Row) /\ Len(nats) <= NumMpxCntrs
  <2>1. nats \in Seq(NativeInfo) /\ Len(nats) <= Len(e.nats)
    BY <1>1, GoodIs, RemoveNativesIs
  <2>2. Len(nats) \in Nat /\ Len(e.nats) \in Nat /\ Len(e.nats) <= NumMpxCntrs
        /\ NumMpxCntrs \in Nat
    BY <1>1, <2>1, GoodIs, LenProperties, NativeEventsAssumption
  <2> QED BY <2>1, <2>2, NativeInfoIsRow
<1>3. ctl \in ControlState
  BY <1>1, <1>2, GoodIs, ConfiguredIs
<1>4. Positioned(nats) \in Seq(NativeInfo) /\ Len(Positioned(nats)) <= NumMpxCntrs
  BY <1>2, PositionedIs
<1>5. c \in Listed(e.evs) => W \in Seq(EventInfo) /\ Len(W) <= NumMpxCntrs
  <2>1. /\ Len(e.evs) \in Nat /\ Len(e.evs) <= NumMpxCntrs /\ NumMpxCntrs \in Nat
        /\ e.evs \in Seq(EventInfo)
    BY <1>1, GoodIs, NativeEventsAssumption
  <2>2. c \in Listed(e.evs) => W \in Seq(EventInfo) /\ Len(W) = Len(e.evs) - 1
    BY <2>1, WithoutIs
  <2> QED BY <2>1, <2>2
<1>6. CASE ~Has(s, "STOPPED")
  BY <1>6, RefuseIs DEF RemoveEvent, ReturnCodes
<1>7. CASE Has(s, "STOPPED") /\ c \notin Listed(e.evs)
  BY <1>7, RefuseIs DEF RemoveEvent, ReturnCodes
<1>8. CASE Has(s, "STOPPED") /\ c \in Listed(e.evs)
  <2>1. \/ /\ sets' = [sets EXCEPT ![s] = [e EXCEPT !.evs = W, !.nats = nats]]
           /\ Reply("OK") /\ UNCHANGED thr
        \/ \E ok \in (IF nats = <<>> THEN {TRUE} ELSE Verdicts(ctl.ev)) :
             /\ sets' = [sets EXCEPT ![s] = [e EXCEPT !.evs = IF ok THEN W ELSE e.evs,
                                                      !.nats = Positioned(nats), !.ctl = ctl]]
             /\ thr' = Touch(e.master, s, Updated(e.ctl, nats, ok))
             /\ IF ok THEN Reply("OK") ELSE Reply("ECNFLCT")
    BY <1>8 DEF RemoveEvent
  <2> HIDE DEF W, nats, ctl, e
  <2>2. CASE /\ sets' = [sets EXCEPT ![s] = [e EXCEPT !.evs = W, !.nats = nats]]
             /\ Reply("OK") /\ UNCHANGED thr
    <3>1. [e EXCEPT !.evs = W] \in Good
      BY <1>1, <1>5, <1>8, ChangedIs
    <3>2. [[e EXCEPT !.evs = W] EXCEPT !.nats = nats] \in Good
      BY <1>2, <3>1, ChangedIs
    <3>3. ret' \in Answers
      BY <2>2, ReplyIs DEF ReturnCodes
    <3> QED BY <1>1, <2>2, <3>2, <3>3, PutGoodIs, TypeOKIs
  <2>3. ASSUME NEW ok \in BOOLEAN,
               sets' = [sets EXCEPT ![s] = [e EXCEPT !.evs = IF ok THEN W ELSE e.evs,
                                                     !.nats = Positioned(nats), !.ctl = ctl]],
               thr' = Touch(e.master, s, Updated(e.ctl, nats, ok)),
               IF ok THEN Reply("OK") ELSE Reply("ECNFLCT")
        PROVE  StaysTyped
    <3> DEFINE V == IF ok THEN W ELSE e.evs
    <3>1. V \in Seq(EventInfo) /\ Len(V) <= NumMpxCntrs
      BY <1>1, <1>5, <1>8, GoodIs
    <3> HIDE DEF V
    <3>2. [e EXCEPT !.evs = V] \in Good
      BY <1>1, <3>1, ChangedIs
    <3>3. [[e EXCEPT !.evs = V] EXCEPT !.nats = Positioned(nats)] \in Good
      BY <1>4, <3>2, ChangedIs
    <3>4. [[[e EXCEPT !.evs = V] EXCEPT !.nats = Positioned(nats)] EXCEPT !.ctl = ctl] \in Good
      BY <1>3, <3>3, ChangedIs
    <3>5. [e EXCEPT !.evs = V, !.nats = Positioned(nats), !.ctl = ctl] \in Good
      BY <3>4
    <3>6. thr' \in [Threads -> ThreadInfo]
      BY <1>1, <1>2, <2>3, GoodIs, ContextIs, TouchIs
    <3>7. ret' \in Answers
      BY <2>3, ReplyIs DEF ReturnCodes
    <3> QED BY <1>1, <2>3, <3>5, <3>6, <3>7, PutGoodIs DEF V
  <2>4. (IF nats = <<>> THEN {TRUE} ELSE Verdicts(ctl.ev)) \subseteq BOOLEAN
    BY DEF Verdicts
  <2> QED BY <2>1, <2>2, <2>3, <2>4
<1> QED BY <1>6, <1>7, <1>8

\* PAPI_cleanup_eventset keeps the types.
LEMMA CleanupTypes ==
  ASSUME TypeOK, NEW s \in Alive, Cleanup(s)
  PROVE  StaysTyped
<1>1. CASE ~sets[s].bound \/ Has(s, "RUNNING")
  BY <1>1, RefuseIs DEF Cleanup, ReturnCodes
<1>2. CASE sets[s].bound /\ ~Has(s, "RUNNING")
  <2>1. s \in Slots /\ sets[s].state \in SUBSET Flags /\ sets[s].master \in Threads
    BY AliveIs, GoodIs
  <2>2. [Empty EXCEPT !.state = sets[s].state] \in Good
    BY <2>1, NewEventSetIs, ChangedIs
  <2>3. [[Empty EXCEPT !.state = sets[s].state] EXCEPT !.master = sets[s].master] \in Good
    BY <2>1, <2>2, ChangedIs
  <2>4. /\ sets' = [sets EXCEPT ![s] = [Empty EXCEPT !.state = sets[s].state,
                                                     !.master = sets[s].master]]
        /\ thr' = Touch(sets[s].master, s, Closed) /\ Reply("OK")
    BY <1>2 DEF Cleanup
  <2>5. thr' \in [Threads -> ThreadInfo]
    BY <2>1, <2>4, AliveIs, SwitchedIs, TouchIs
  <2>6. ret' \in Answers
    BY <2>4, ReplyIs DEF ReturnCodes
  <2> QED BY <2>1, <2>3, <2>4, <2>5, <2>6, PutGoodIs
<1> QED BY <1>1, <1>2

\* PAPI_destroy_eventset keeps the types.
LEMMA DestroyTypes ==
  ASSUME TypeOK, NEW s \in Alive, Destroy(s)
  PROVE  TypeOK'
<1>1. CASE ~Has(s, "STOPPED") \/ sets[s].evs # <<>>
  BY <1>1, RefuseIs DEF StaysTyped, Destroy, ReturnCodes
<1>2. CASE Has(s, "STOPPED") /\ sets[s].evs = <<>>
  <2>1. sets' = [sets EXCEPT ![s] = None] /\ Reply("OK") /\ UNCHANGED thr
    BY <1>2 DEF Destroy
  <2>2. ret' \in Answers
    BY <2>1, ReplyIs DEF ReturnCodes
  <2> QED BY <2>1, <2>2, AliveIs, PutIs, TypeOKIs
<1> QED BY <1>1, <1>2

\* Every state the flags of a running or stopped EventSet can become.
LEMMA FlagsIs ==
  ASSUME NEW f \in SUBSET Flags
  PROVE  /\ Xor(f, "STOPPED") \in SUBSET Flags /\ Xor(f, "RUNNING") \in SUBSET Flags
         /\ f \cup {"ATTACHED"} \in SUBSET Flags /\ f \ {"ATTACHED"} \in SUBSET Flags
BY DEF Xor, Flags

\* Setting the flags of a start and of a stop keeps an EventSet one.
LEMMA MarkedIs ==
  ASSUME NEW e \in Good
  PROVE  Marked(e) \in Good /\ Unmarked(e) \in Good
<1>1. e.state \in SUBSET Flags
  BY GoodIs
<1>2. /\ Xor(e.state, "STOPPED") \cup {"RUNNING"} \in SUBSET Flags
      /\ Xor(e.state, "RUNNING") \cup {"STOPPED"} \in SUBSET Flags
  BY <1>1, FlagsIs DEF Flags
<1> QED BY <1>2, ChangedIs DEF Marked, Unmarked

\* The start of an opened group keeps the types, also when the kernel refuses
\* it.
LEMMA LaunchTypes ==
  ASSUME TypeOK, NEW s \in Alive, NEW e \in Good, NEW ctx \in Context, Launch(s, e, ctx)
  PROVE  StaysTyped
<1> DEFINE holder == Holder(s, e)
<1>1. s \in Slots /\ e.master \in Threads
  BY AliveIs, GoodIs
<1>2. holder \in Slots \cup {None}
  BY <1>1, TypeOKIs DEF ThreadInfo, Holder
<1>3. Marked(e) \in Good /\ Unmarked(Marked(e)) \in Good
  BY MarkedIs
<1>4. \/ /\ sets' = [sets EXCEPT ![s] = Marked(e)]
         /\ thr' = [Touch(e.master, s, Enabled(ctx)) EXCEPT ![e.master].running = holder]
         /\ Reply("OK")
      \/ /\ sets' = [sets EXCEPT ![s] = Unmarked(Marked(e))]
         /\ thr' = Touch(e.master, s, Disabled(ctx))
         /\ Reply("EBUG")
  BY DEF Launch
<1> HIDE DEF holder
<1>5. thr' \in [Threads -> ThreadInfo]
  <2>1. Enabled(ctx) \in Context /\ Disabled(ctx) \in Context
    BY SwitchedIs
  <2>2. [Touch(e.master, s, Enabled(ctx)) EXCEPT ![e.master].running = holder]
          \in [Threads -> ThreadInfo]
    BY <1>1, <1>2, <2>1, TouchIs
  <2>3. Touch(e.master, s, Disabled(ctx)) \in [Threads -> ThreadInfo]
    BY <1>1, <1>2, <2>1, TouchIs
  <2> QED BY <1>4, <2>2, <2>3
<1>6. ret' \in Answers
  BY <1>4, ReplyIs DEF ReturnCodes
<1> QED BY <1>1, <1>3, <1>4, <1>5, <1>6, PutGoodIs

\* An EventSet whose group a start opens again.
LEMMA StartedIs ==
  ASSUME NEW e \in Good
  PROVE  LET ctl == Configured(e.ctl, e.nats)
             moved == [e EXCEPT !.ctl = ctl, !.nats = Positioned(e.nats)]
             fresh == [e EXCEPT !.ctl = ctl, !.nats = Positioned(e.nats),
                                !.evs = Remap(e.evs, Positioned(e.nats))]
         IN  /\ moved \in Good /\ fresh \in Good
             /\ Updated(e.ctl, e.nats, TRUE) \in Context
<1> DEFINE ctl == Configured(e.ctl, e.nats)
           moved == [e EXCEPT !.ctl = ctl, !.nats = Positioned(e.nats)]
<1>1. ctl \in ControlState
  BY GoodIs, ConfiguredIs
<1>2. Positioned(e.nats) \in Seq(NativeInfo) /\ Len(Positioned(e.nats)) <= NumMpxCntrs
  BY GoodIs, PositionedIs
<1>3. /\ Remap(e.evs, Positioned(e.nats)) \in Seq(EventInfo)
      /\ Len(Remap(e.evs, Positioned(e.nats))) <= NumMpxCntrs
  <2>1. /\ e.evs \in Seq(EventInfo) /\ Len(e.evs) \in Nat /\ Len(e.evs) <= NumMpxCntrs
        /\ DOMAIN e.evs = 1..Len(e.evs) /\ \A i \in 1..Len(e.evs) : e.evs[i] \in EventInfo
    <3> e.evs \in Seq(EventInfo)
      BY GoodIs
    <3> QED BY GoodIs, LenProperties, ElementOfSeq
  <2> QED BY <1>2, <2>1, RemapIs
<1>4. Updated(e.ctl, e.nats, TRUE) \in Context
  BY GoodIs, ContextIs
<1> HIDE DEF ctl
<1>5. [e EXCEPT !.ctl = ctl] \in Good
  BY <1>1, ChangedIs
<1>6. [[e EXCEPT !.ctl = ctl] EXCEPT !.nats = Positioned(e.nats)] \in Good
  BY <1>2, <1>5, ChangedIs
<1>7. [[[e EXCEPT !.ctl = ctl] EXCEPT !.nats = Positioned(e.nats)]
         EXCEPT !.evs = Remap(e.evs, Positioned(e.nats))] \in Good
  BY <1>3, <1>6, ChangedIs
<1> QED BY <1>4, <1>6, <1>7 DEF ctl

\* PAPI_start keeps the types.
LEMMA StartTypes ==
  ASSUME TypeOK, NEW s \in Alive, Start(s)
  PROVE  StaysTyped
<1> DEFINE e == sets[s]
           t == e.master
           ctl == Configured(e.ctl, e.nats)
           fresh == [e EXCEPT !.ctl = ctl, !.nats = Positioned(e.nats),
                              !.evs = Remap(e.evs, Positioned(e.nats))]
           moved == [e EXCEPT !.ctl = ctl, !.nats = Positioned(e.nats)]
<1>1. s \in Slots /\ e \in Good /\ t \in Threads /\ thr[t].ctx \in Context
  BY AliveIs
<1>2. moved \in Good /\ fresh \in Good /\ Updated(e.ctl, e.nats, TRUE) \in Context
  BY <1>1, StartedIs
<1>3. CASE ~e.bound \/ thr[t].running # None \/ e.evs = <<>>
  BY <1>3, RefuseIs DEF Start, ReturnCodes
<1>4. CASE ~(~e.bound \/ thr[t].running # None \/ e.evs = <<>>)
  <2>1. \/ Launch(s, e, thr[t].ctx)
        \/ \E ok \in (IF e.nats = <<>> THEN {TRUE} ELSE Verdicts(ctl.ev)) :
             \/ Launch(s, fresh, Updated(e.ctl, e.nats, TRUE))
             \/ /\ sets' = [sets EXCEPT ![s] = moved]
                /\ thr' = Touch(t, s, Closed)
                /\ Reply("ECNFLCT")
    BY <1>4 DEF Start
  <2>2. CASE Launch(s, e, thr[t].ctx)
    BY <1>1, <2>2, LaunchTypes
  <2>3. CASE Launch(s, fresh, Updated(e.ctl, e.nats, TRUE))
    <3> HIDE DEF fresh, e
    <3> QED BY <1>2, <2>3, LaunchTypes
  <2>4. CASE /\ sets' = [sets EXCEPT ![s] = moved]
             /\ thr' = Touch(t, s, Closed)
             /\ Reply("ECNFLCT")
    <3> HIDE DEF moved, t
    <3>1. thr' \in [Threads -> ThreadInfo]
      BY <1>1, <2>4, SwitchedIs, TouchIs
    <3>2. ret' \in Answers
      BY <2>4, ReplyIs DEF ReturnCodes
    <3> QED BY <1>1, <1>2, <2>4, <3>1, <3>2, PutGoodIs
  <2> QED BY <2>1, <2>2, <2>3, <2>4
<1> QED BY <1>3, <1>4

\* What a reading leaves in an EventSet, and what it gives.
LEMMA ReadingIs ==
  ASSUME NEW e \in Good, NEW ctx \in Context
  PROVE  LET ctl == Fetched(ctx, e.ctl)
             vals == ValuesOf(e.evs, ctl.counts)
         IN  /\ ctl \in ControlState
             /\ vals \in Seq(SUBSET Counts)
             /\ [e EXCEPT !.ctl = ctl] \in Good
             /\ [e EXCEPT !.ctl = ctl,
                          !.stop = [i \in DOMAIN @ |-> IF i \in DOMAIN vals THEN vals[i] ELSE @[i]]]
                  \in Good
<1> DEFINE ctl == Fetched(ctx, e.ctl)
           vals == ValuesOf(e.evs, ctl.counts)
           stop == [i \in DOMAIN e.stop |-> IF i \in DOMAIN vals THEN vals[i] ELSE e.stop[i]]
<1>1. ctl \in ControlState
  BY GoodIs, FetchedIs
<1> HIDE DEF ctl
<1>2. vals \in Seq(SUBSET Counts) /\ \A i \in DOMAIN vals : vals[i] \in SUBSET Counts
  BY <1>1, GoodIs, ValuesOfIs
<1> HIDE DEF vals
<1>3. stop \in [1..NumMpxCntrs -> SUBSET Counts]
  BY <1>2, GoodIs
<1> HIDE DEF stop
<1>4. [e EXCEPT !.ctl = ctl] \in Good
  BY <1>1, ChangedIs
<1>5. [[e EXCEPT !.ctl = ctl] EXCEPT !.stop = stop] \in Good
  BY <1>3, <1>4, ChangedIs
<1>6. [e EXCEPT !.ctl = ctl, !.stop = stop] \in Good
  BY <1>5
<1> QED BY <1>1, <1>2, <1>4, <1>6 DEF ctl, vals, stop

\* PAPI_stop keeps the types.
LEMMA StopTypes ==
  ASSUME TypeOK, NEW s \in Alive, Stop(s)
  PROVE  StaysTyped
<1> DEFINE e == sets[s]
           t == e.master
           ctl == Fetched(thr[t].ctx, e.ctl)
           vals == ValuesOf(e.evs, ctl.counts)
           read == [e EXCEPT !.ctl = ctl,
                      !.stop = [i \in DOMAIN @ |-> IF i \in DOMAIN vals THEN vals[i] ELSE @[i]]]
           kept == IF Has(s, "ATTACHED") THEN Touch(t, s, Disabled(thr[t].ctx))[t].running ELSE None
<1>1. /\ s \in Slots /\ e \in Good /\ t \in Threads /\ thr[t].ctx \in Context
      /\ sets \in [Slots -> Good \cup {None}] /\ None \in Slots \cup {None}
  BY AliveIs, TypeOKIs
<1>2. vals \in Seq(SUBSET Counts) /\ [e EXCEPT !.ctl = ctl] \in Good /\ read \in Good
  BY <1>1, ReadingIs
<1>3. CASE ~e.bound \/ ~Has(s, "RUNNING")
  BY <1>3, RefuseIs DEF Stop, ReturnCodes
<1>4. CASE ~(~e.bound \/ ~Has(s, "RUNNING"))
  <2>1. \/ /\ sets' = [sets EXCEPT ![s].ctl = ctl]
           /\ thr' = Touch(t, s, thr[t].ctx)
           /\ Reply("ESBSTR")
        \/ /\ sets' = [sets EXCEPT ![s] = Unmarked(read)]
           /\ thr' = [Touch(t, s, Disabled(thr[t].ctx)) EXCEPT ![t].running =
                        IF Has(s, "ATTACHED") THEN @ ELSE None]
           /\ Answer(s, vals)
    BY <1>4 DEF Stop
  <2> HIDE DEF e, t, ctl, vals, read
  <2>2. CASE /\ sets' = [sets EXCEPT ![s].ctl = ctl]
             /\ thr' = Touch(t, s, thr[t].ctx)
             /\ Reply("ESBSTR")
    <3>1. sets' = [sets EXCEPT ![s] = [e EXCEPT !.ctl = ctl]]
      BY <2>2 DEF e
    <3>2. thr' \in [Threads -> ThreadInfo]
      BY <1>1, <2>2, TouchIs
    <3>3. ret' \in Answers
      BY <2>2, ReplyIs DEF ReturnCodes
    <3> QED BY <1>1, <1>2, <3>1, <3>2, <3>3, PutGoodIs
  <2>3. CASE /\ sets' = [sets EXCEPT ![s] = Unmarked(read)]
             /\ thr' = [Touch(t, s, Disabled(thr[t].ctx)) EXCEPT ![t].running =
                          IF Has(s, "ATTACHED") THEN @ ELSE None]
             /\ Answer(s, vals)
    <3>1. Disabled(thr[t].ctx) \in Context
      BY <1>1, SwitchedIs
    <3>2. Touch(t, s, Disabled(thr[t].ctx)) \in [Threads -> ThreadInfo]
      BY <1>1, <3>1, TouchIs
    <3>3. kept \in Slots \cup {None}
      BY <1>1, <3>2 DEF ThreadInfo
    <3>4. thr' = [Touch(t, s, Disabled(thr[t].ctx)) EXCEPT ![t].running = kept]
      BY <2>3
    <3> HIDE DEF kept
    <3>5. thr' \in [Threads -> ThreadInfo]
      BY <1>1, <3>1, <3>3, <3>4, TouchIs
    <3>6. Unmarked(read) \in Good
      BY <1>2, MarkedIs
    <3>7. ret' \in Answers
      BY <1>1, <1>2, <2>3, AnswerIs
    <3> QED BY <1>1, <2>3, <3>5, <3>6, <3>7, PutGoodIs
  <2> QED BY <2>1, <2>2, <2>3
<1> QED BY <1>3, <1>4

\* The values of a stopped EventSet, and sw_stop once they are cleared.
LEMMA StoppedIs ==
  ASSUME NEW e \in Good
  PROVE  /\ Stopped(e) \in Seq(SUBSET Counts)
         /\ [e EXCEPT !.stop = Cleared(e)] \in Good
<1>1. /\ Len(e.evs) \in Nat /\ DOMAIN e.evs = 1..Len(e.evs) /\ Len(e.evs) <= NumMpxCntrs
      /\ NumMpxCntrs \in Nat /\ e.stop \in [1..NumMpxCntrs -> SUBSET Counts]
  BY GoodIs, LenProperties, NativeEventsAssumption
<1>2. Stopped(e) \in [1..Len(e.evs) -> SUBSET Counts]
  BY <1>1 DEF Stopped
<1>3. Cleared(e) \in [1..NumMpxCntrs -> SUBSET Counts]
  BY <1>1 DEF Cleared
<1> QED BY <1>1, <1>2, <1>3, SeqDef, ChangedIs

\* PAPI_read keeps the types.
LEMMA ReadTypes ==
  ASSUME TypeOK, NEW s \in Alive, Read(s)
  PROVE  StaysTyped
<1> DEFINE e == sets[s]
           t == e.master
           ctl == Fetched(thr[t].ctx, e.ctl)
           vals == ValuesOf(e.evs, ctl.counts)
<1>1. /\ s \in Slots /\ e \in Good /\ t \in Threads /\ thr[t].ctx \in Context
      /\ None \in Slots \cup {None}
  BY AliveIs
<1>2. vals \in Seq(SUBSET Counts) /\ [e EXCEPT !.ctl = ctl] \in Good
  BY <1>1, ReadingIs
<1>3. CASE ~e.bound
  BY <1>3, RefuseIs DEF Read, ReturnCodes
<1>4. CASE e.bound /\ ~Has(s, "RUNNING")
  <2>1. Answer(s, Stopped(e)) /\ UNCHANGED <<sets, thr>>
    BY <1>4 DEF Read
  <2>2. ret' \in Answers
    BY <1>1, <2>1, StoppedIs, AnswerIs
  <2> QED BY <2>1, <2>2, KeptIs, TypeOKIs
<1>5. CASE e.bound /\ Has(s, "RUNNING")
  <2>1. /\ sets' = [sets EXCEPT ![s] = [e EXCEPT !.ctl = ctl]]
        /\ thr' = Touch(t, s, thr[t].ctx)
        /\ Reply("ESBSTR") \/ Answer(s, vals)
    BY <1>5 DEF Read
  <2> HIDE DEF e, t, ctl, vals
  <2>2. thr' \in [Threads -> ThreadInfo]
    BY <1>1, <2>1, TouchIs
  <2>3. ret' \in Answers
    BY <1>1, <1>2, <2>1, ReplyIs, AnswerIs DEF ReturnCodes
  <2> QED BY <1>1, <1>2, <2>1, <2>2, <2>3, PutGoodIs
<1> QED BY <1>3, <1>4, <1>5

\* PAPI_reset keeps the types.
LEMMA ResetTypes ==
  ASSUME TypeOK, NEW s \in Alive, Reset(s)
  PROVE  StaysTyped
<1> DEFINE e == sets[s]
           t == e.master
<1>1. /\ s \in Slots /\ e \in Good /\ t \in Threads /\ thr[t].ctx \in Context
      /\ None \in Slots \cup {None} /\ ResetCtx(thr[t].ctx) \in Context
  BY AliveIs, SwitchedIs
<1>2. CASE ~e.bound
  BY <1>2, RefuseIs DEF Reset, ReturnCodes
<1>3. CASE e.bound
  <2>1. /\ \/ thr' = Touch(t, s, ResetCtx(thr[t].ctx)) /\ UNCHANGED sets
           \/ sets' = [sets EXCEPT ![s] = [e EXCEPT !.stop = Cleared(e)]] /\ UNCHANGED thr
        /\ Reply("OK")
    BY <1>3 DEF Reset
  <2> HIDE DEF e, t
  <2>2. ret' \in Answers
    BY <2>1, ReplyIs DEF ReturnCodes
  <2>3. CASE thr' = Touch(t, s, ResetCtx(thr[t].ctx)) /\ UNCHANGED sets
    <3>1. thr' \in [Threads -> ThreadInfo]
      BY <1>1, <2>3, TouchIs
    <3> QED BY <2>2, <2>3, <3>1, KeptIs, TypeOKIs
  <2>4. CASE sets' = [sets EXCEPT ![s] = [e EXCEPT !.stop = Cleared(e)]] /\ UNCHANGED thr
    <3>1. [e EXCEPT !.stop = Cleared(e)] \in Good
      BY <1>1, StoppedIs
    <3> QED BY <1>1, <2>2, <2>4, <3>1, PutGoodIs, TypeOKIs
  <2> QED BY <2>1, <2>3, <2>4
<1> QED BY <1>2, <1>3

\* PAPI_accum keeps the types.
LEMMA AccumTypes ==
  ASSUME TypeOK, NEW s \in Alive, Accum(s)
  PROVE  StaysTyped
<1> DEFINE e == sets[s]
           t == e.master
           ctl == Fetched(thr[t].ctx, e.ctl)
           vals == ValuesOf(e.evs, ctl.counts)
           read == [e EXCEPT !.ctl = ctl,
                      !.stop = [i \in DOMAIN @ |-> IF i \in DOMAIN vals THEN vals[i] ELSE @[i]]]
<1>1. /\ s \in Slots /\ e \in Good /\ t \in Threads /\ thr[t].ctx \in Context
      /\ None \in Slots \cup {None} /\ ResetCtx(thr[t].ctx) \in Context
  BY AliveIs, SwitchedIs
<1>2. vals \in Seq(SUBSET Counts) /\ [e EXCEPT !.ctl = ctl] \in Good /\ read \in Good
  BY <1>1, ReadingIs
<1>3. CASE ~e.bound
  BY <1>3, RefuseIs DEF Accum, ReturnCodes
<1>4. CASE e.bound /\ ~Has(s, "RUNNING")
  <2>1. /\ sets' = [sets EXCEPT ![s] = [e EXCEPT !.stop = Cleared(e)]]
        /\ Answer(s, Stopped(e)) /\ UNCHANGED thr
    BY <1>4 DEF Accum
  <2>2. ret' \in Answers
    BY <1>1, <2>1, StoppedIs, AnswerIs
  <2>3. [e EXCEPT !.stop = Cleared(e)] \in Good
    BY <1>1, StoppedIs
  <2> QED BY <1>1, <2>1, <2>2, <2>3, PutGoodIs, TypeOKIs
<1>5. CASE e.bound /\ Has(s, "RUNNING")
  <2>1. \/ /\ sets' = [sets EXCEPT ![s] = [e EXCEPT !.ctl = ctl]]
           /\ thr' = Touch(t, s, thr[t].ctx)
           /\ Reply("ESBSTR")
        \/ /\ sets' = [sets EXCEPT ![s] = read]
           /\ thr' = Touch(t, s, ResetCtx(thr[t].ctx))
           /\ Answer(s, vals)
    BY <1>5 DEF Accum
  <2> HIDE DEF e, t, ctl, vals, read
  <2>2. thr' \in [Threads -> ThreadInfo]
    <3>1. /\ Touch(t, s, thr[t].ctx) \in [Threads -> ThreadInfo]
          /\ Touch(t, s, ResetCtx(thr[t].ctx)) \in [Threads -> ThreadInfo]
      BY <1>1, TouchIs
    <3> QED BY <2>1, <3>1
  <2>3. ret' \in Answers
    BY <1>1, <1>2, <2>1, ReplyIs, AnswerIs DEF ReturnCodes
  <2> QED BY <1>1, <1>2, <2>1, <2>2, <2>3, PutGoodIs
<1> QED BY <1>3, <1>4, <1>5

\* PAPI_set_opt(PAPI_DOMAIN) keeps the types.
LEMMA SetDomainTypes ==
  ASSUME TypeOK, NEW s \in Alive, NEW d \in Domains, SetDomain(s, d)
  PROVE  StaysTyped
<1> DEFINE e == sets[s]
<1>1. /\ s \in Slots /\ e \in Good /\ e.master \in Threads /\ thr[e.master].ctx \in Context
      /\ None \in Slots \cup {None}
  BY AliveIs
<1>2. CASE ~e.bound \/ ~Has(s, "STOPPED")
  BY <1>2, RefuseIs DEF SetDomain, ReturnCodes
<1>3. CASE ~(~e.bound \/ ~Has(s, "STOPPED")) /\ UNCHANGED sets
  <2>1. thr' = Touch(e.master, s, thr[e.master].ctx) /\ (Reply("OK") \/ Reply("EPERM"))
    BY <1>3 DEF SetDomain
  <2>2. thr' \in [Threads -> ThreadInfo]
    BY <1>1, <2>1, TouchIs
  <2>3. ret' \in Answers
    BY <2>1, ReplyIs DEF ReturnCodes
  <2>4. sets' = [sets EXCEPT ![s] = e]
    BY <1>3, TypeOKIs
  <2> QED BY <1>1, <2>2, <2>3, <2>4, PutGoodIs
<1>4. CASE ~(~e.bound \/ ~Has(s, "STOPPED")) /\ ~UNCHANGED sets
  <2>1. /\ sets' = [sets EXCEPT ![s] = [e EXCEPT !.ctl = [e.ctl EXCEPT !.dom = d]]]
        /\ thr' = Touch(e.master, s, thr[e.master].ctx)
        /\ Reply("OK")
    BY <1>4 DEF SetDomain
  <2> HIDE DEF e
  <2>2. [e.ctl EXCEPT !.dom = d] \in ControlState
    <3>1. e.ctl \in ControlState
      BY <1>1, GoodIs
    <3> QED BY <3>1 DEF ControlState
  <2>3. [e EXCEPT !.ctl = [e.ctl EXCEPT !.dom = d]] \in Good
    BY <1>1, <2>2, ChangedIs
  <2>4. thr' \in [Threads -> ThreadInfo]
    BY <1>1, <2>1, TouchIs
  <2>5. ret' \in Answers
    BY <2>1, ReplyIs DEF ReturnCodes
  <2> QED BY <1>1, <2>1, <2>3, <2>4, <2>5, PutGoodIs
<1> QED BY <1>2, <1>3, <1>4

\* PAPI_attach keeps the types, also when the group cannot be opened again.
LEMMA AttachTypes ==
  ASSUME TypeOK, NEW s \in Alive, NEW t \in Threads, Attach(s, t)
  PROVE  StaysTyped
<1> DEFINE e == sets[s]
           ctl == [e.ctl EXCEPT !.tid = t]
<1>1. /\ s \in Slots /\ e \in Good /\ e.master \in Threads /\ None \in Slots \cup {None}
  BY AliveIs
<1>2. ctl \in ControlState
  <2> HIDE DEF e
  <2>1. e.ctl \in ControlState
    BY <1>1, GoodIs
  <2> QED BY <2>1 DEF ControlState
<1>3. CASE ~e.bound \/ ~Has(s, "STOPPED") \/ Has(s, "ATTACHED")
  BY <1>3, RefuseIs DEF Attach, ReturnCodes
<1>4. CASE UNCHANGED sets /\ thr' = Touch(e.master, s, thr[e.master].ctx) /\ Reply("EPERM")
  <2>1. thr' \in [Threads -> ThreadInfo]
    BY <1>1, <1>4, AliveIs, TouchIs
  <2>2. ret' \in Answers
    BY <1>4, ReplyIs DEF ReturnCodes
  <2>3. sets' = [sets EXCEPT ![s] = e]
    BY <1>4, TypeOKIs
  <2> QED BY <1>1, <2>1, <2>2, <2>3, PutGoodIs
<1>5. CASE /\ ~(~e.bound \/ ~Has(s, "STOPPED") \/ Has(s, "ATTACHED"))
           /\ ~(UNCHANGED sets /\ thr' = Touch(e.master, s, thr[e.master].ctx) /\ Reply("EPERM"))
  <2>1. PICK ok \in (IF ctl.ev = <<>> THEN {TRUE} ELSE Verdicts(ctl.ev)) :
          /\ sets' = [sets EXCEPT ![s] =
                IF ok THEN [e EXCEPT !.ctl = ctl, !.master = t, !.state = @ \cup {"ATTACHED"}]
                ELSE [e EXCEPT !.ctl = ctl]]
          /\ thr' = Touch(e.master, s, Reopened(ctl, ok))
          /\ Reply(IF ok THEN "OK" ELSE "ECNFLCT")
    BY <1>5 DEF Attach
  <2>2. ok \in BOOLEAN
    BY <2>1 DEF Verdicts
  <2> HIDE DEF ctl, e
  <2>3. [e EXCEPT !.ctl = ctl] \in Good
    BY <1>1, <1>2, ChangedIs
  <2>4. [[e EXCEPT !.ctl = ctl] EXCEPT !.master = t] \in Good
    BY <2>3, ChangedIs
  <2>5. e.state \cup {"ATTACHED"} \in SUBSET Flags
    BY <1>1, GoodIs, FlagsIs
  <2>6. [[[e EXCEPT !.ctl = ctl] EXCEPT !.master = t] EXCEPT !.state = e.state \cup {"ATTACHED"}]
          \in Good
    BY <2>4, <2>5, ChangedIs
  <2>7. [e EXCEPT !.ctl = ctl, !.master = t, !.state = @ \cup {"ATTACHED"}] \in Good
    BY <2>6
  <2>8. thr' \in [Threads -> ThreadInfo]
    <3>1. Reopened(ctl, ok) \in Context
      <4>1. <<>> \in Seq(NativeInfo)
        BY EmptySeq
      <4> QED BY <1>2, <2>2, <4>1, ContextIs
    <3> QED BY <1>1, <2>1, <3>1, TouchIs
  <2>9. ret' \in Answers
    BY <2>1, ReplyIs DEF ReturnCodes
  <2> QED BY <1>1, <2>1, <2>3, <2>7, <2>8, <2>9, PutGoodIs
<1> QED BY <1>3, <1>4, <1>5

\* PAPI_detach keeps the types.
LEMMA DetachTypes ==
  ASSUME TypeOK, NEW s \in Alive, Detach(s)
  PROVE  StaysTyped
<1> DEFINE e == sets[s]
           ctl == [e.ctl EXCEPT !.tid = Caller]
           flags == e.state \ {"ATTACHED"}
<1>1. /\ s \in Slots /\ e \in Good /\ e.master \in Threads /\ thr[e.master].ctx \in Context
      /\ sets \in [Slots -> Good \cup {None}] /\ None \in Slots \cup {None}
  BY AliveIs, TypeOKIs
<1>2. CASE ~e.bound \/ ~Has(s, "STOPPED") \/ ~Has(s, "ATTACHED")
  BY <1>2, RefuseIs DEF Detach, ReturnCodes
<1>3. CASE ~(~e.bound \/ ~Has(s, "STOPPED") \/ ~Has(s, "ATTACHED"))
  <2>1. /\ sets' = [sets EXCEPT ![s].ctl.tid = Caller, ![s].state = @ \ {"ATTACHED"}]
        /\ thr' = Touch(e.master, s, thr[e.master].ctx)
        /\ Reply("OK")
    BY <1>3 DEF Detach
  <2>2. ctl \in ControlState /\ flags \in SUBSET Flags
    <3> HIDE DEF e
    <3>1. e.ctl \in ControlState /\ e.state \in SUBSET Flags
      BY <1>1, GoodIs
    <3> QED BY <3>1, FlagsIs DEF ControlState
  <2>3. [e EXCEPT !.ctl = ctl] \in Good
    BY <1>1, <2>2, ChangedIs
  <2>4. [[e EXCEPT !.ctl = ctl] EXCEPT !.state = flags] \in Good
    BY <2>2, <2>3, ChangedIs
  <2>5. sets' = [sets EXCEPT ![s] = [[e EXCEPT !.ctl = ctl] EXCEPT !.state = flags]]
    <3>1. [e EXCEPT !.ctl = ctl].state = e.state
      BY <1>1 DEF Good, EventSetInfo
    <3> QED BY <1>1, <2>1, <3>1
  <2> HIDE DEF e, ctl, flags
  <2>6. thr' \in [Threads -> ThreadInfo]
    BY <1>1, <2>1, TouchIs
  <2>7. ret' \in Answers
    BY <2>1, ReplyIs DEF ReturnCodes
  <2> QED BY <1>1, <2>4, <2>5, <2>6, <2>7, PutGoodIs
<1> QED BY <1>2, <1>3

\* Counting keeps the types.
LEMMA TickTypes == TypeOK /\ Tick => TypeOK'
<1> SUFFICES ASSUME TypeOK, Tick PROVE TypeOK'
  OBVIOUS
<1>1. \A u \in ThreadInfo : [u EXCEPT !.ctx.n = @ + 1] \in ThreadInfo
  <2> TAKE u \in ThreadInfo
  <2>1. u.ctx \in Context
    BY DEF ThreadInfo
  <2>2. u.ctx.n + 1 \in Nat
    BY <2>1 DEF Context
  <2>3. [u.ctx EXCEPT !.n = u.ctx.n + 1] \in Context
    BY <2>1, <2>2 DEF Context
  <2> QED BY <2>3 DEF ThreadInfo
<1>2. thr' \in [Threads -> ThreadInfo]
  BY <1>1, TypeOKIs DEF Tick
<1> QED BY <1>2, TypeOKIs, TypeOKNext DEF Tick
-----------------------------------------------------------------------------
(* The type invariant.                                                     *)

\* Every call on an EventSet keeps the types.
LEMMA CallTypes ==
  ASSUME TypeOK, NEW s \in Alive, Call(s)
  PROVE  TypeOK'
<1>1. CASE Assign(s) \/ Cleanup(s) \/ Destroy(s)
  BY <1>1, AssignTypes, CleanupTypes, DestroyTypes DEF StaysTyped
<1>2. CASE \E c \in Codes : AddEvent(s, c) \/ RemoveEvent(s, c)
  BY <1>2, AddEventTypes, RemoveEventTypes DEF StaysTyped
<1>3. CASE Start(s) \/ Stop(s) \/ Read(s) \/ Reset(s) \/ Accum(s)
  BY <1>3, StartTypes, StopTypes, ReadTypes, ResetTypes, AccumTypes DEF StaysTyped
<1>4. CASE (\E d \in Domains : SetDomain(s, d)) \/ (\E t \in Threads \ {Self} : Attach(s, t))
           \/ Detach(s)
  BY <1>4, SetDomainTypes, AttachTypes, DetachTypes DEF StaysTyped
<1> QED BY <1>1, <1>2, <1>3, <1>4 DEF Call

\* Every step keeps the types.
LEMMA NextTypes == TypeOK /\ [Next]_vars => TypeOK'
<1> SUFFICES ASSUME TypeOK, [Next]_vars PROVE TypeOK'
  OBVIOUS
<1>1. CASE Create \/ Tick
  BY <1>1, CreateTypes, TickTypes
<1>2. CASE \E s \in Alive : Call(s)
  BY <1>2, CallTypes
<1>3. CASE UNCHANGED vars
  BY <1>3, TypeOKIs, TypeOKNext DEF vars
<1> QED BY <1>1, <1>2, <1>3 DEF Next

\* Whatever the order of calls, an EventSet's arrays never outgrow what
\* _papi_hwi_assign_eventset allocated, and every event has a position inside
\* the array of counts for each of its native events.
THEOREM TypesHold == Spec => []TypeOK
<1>1. Init => TypeOK
  BY InitTypes
<1>2. TypeOK /\ [Next]_vars => TypeOK'
  BY NextTypes
<1> QED BY <1>1, <1>2, PTL DEF Spec

-----------------------------------------------------------------------------
(***************************************************************************)
(* An application that attaches no EventSet runs one EventSet at a time,   *)
(* and the flags of the EventSets and the running_eventset of its          *)
(* ThreadInfo never disagree: whatever it removes, changes or starts while *)
(* another EventSet runs, and whatever the kernel refuses.                 *)
(*                                                                         *)
(* RunningAgrees is not inductive by itself: what PAPI_start and PAPI_stop *)
(* write is in the ThreadInfo the EventSet comes from and depends on the   *)
(* attached flag, PAPI_add_event binds an EventSet that is not bound and   *)
(* PAPI_assign_eventset overwrites its flags. Home says that every         *)
(* EventSet stays with the calling thread and is bound while it runs.      *)
(***************************************************************************)

Home ==
  /\ \A s \in Alive : /\ sets[s].master = Self /\ ~Has(s, "ATTACHED")
                      /\ Has(s, "RUNNING") => sets[s].bound
  /\ \A t \in Threads \ {Self} : thr[t].running = None

IInv == TypeOK /\ RunningAgrees /\ Home
-----------------------------------------------------------------------------
(* Most calls change neither who runs nor whose EventSet it is.            *)

Steady ==
  /\ Alive' = Alive
  /\ \A s \in Alive : /\ sets'[s].state = sets[s].state /\ sets'[s].master = sets[s].master
                      /\ Has(s, "RUNNING") => sets'[s].bound
  /\ \A t \in Threads : thr'[t].running = thr[t].running

\* A step that changes neither who runs nor whose EventSet it is keeps the
\* invariant.
LEMMA SteadyIs ==
  ASSUME IInv, Steady, TypeOK'
  PROVE  IInv'
<1>1. RunningAgrees'
  <2>1. /\ \A s \in Alive : sets[s].master \in Threads
        /\ \A s \in Alive : Has(s, "RUNNING") <=> thr[sets[s].master].running = s
        /\ \A s \in Alive : Has(s, "RUNNING") <=> ~Has(s, "STOPPED")
        /\ \A t \in Threads : thr[t].running # None => thr[t].running \in Alive
    BY AliveIs DEF IInv, RunningAgrees
  <2>2. \A s \in Alive : thr'[sets'[s].master].running = thr[sets[s].master].running
    BY <2>1 DEF Steady
  <2>3. \A s \in Alive, f \in Flags : Has(s, f)' <=> Has(s, f)
    BY DEF Steady, Has
  <2>4. \A s \in Alive : (Has(s, "RUNNING") <=> thr[sets[s].master].running = s)'
    BY <2>1, <2>2, <2>3 DEF Flags
  <2>5. \A t \in Threads : (thr[t].running # None => thr[t].running \in Alive)'
    BY <2>1 DEF Steady
  <2> QED BY <2>1, <2>3, <2>4, <2>5 DEF RunningAgrees, Steady, Flags
<1>2. Home'
  BY DEF IInv, Home, Steady, Has
<1> QED BY <1>1, <1>2 DEF IInv

\* A call that touches a context does not change who runs in it.
LEMMA TouchSteady ==
  ASSUME TypeOK, NEW t \in Threads, NEW s, NEW ctx, thr' = Touch(t, s, ctx)
  PROVE  \A u \in Threads : thr'[u].running = thr[u].running
<1>1. \A u \in Threads : thr[u] \in ThreadInfo
  BY TypeOKIs
<1>2. \A x \in ThreadInfo : [x EXCEPT !.ctx = ctx, !.from = s].running = x.running
  BY DEF ThreadInfo
<1>3. \A u \in Threads : thr'[u] = IF u = t THEN [thr[u] EXCEPT !.ctx = ctx, !.from = s] ELSE thr[u]
  BY <1>1, TypeOKIs DEF Touch, ThreadInfo
<1> QED BY <1>1, <1>2, <1>3

\* What one call puts in its slot decides, for the others nothing changes.
LEMMA PutSteady ==
  ASSUME TypeOK, NEW s \in Alive, Alive' = Alive, NEW e, sets' = [sets EXCEPT ![s] = e],
         e.state = sets[s].state, e.master = sets[s].master,
         \A r \in Alive : Has(r, "RUNNING") => sets[r].bound,
         Has(s, "RUNNING") => e.bound,
         \A t \in Threads : thr'[t].running = thr[t].running
  PROVE  Steady
<1>1. sets \in [Slots -> Good \cup {None}] /\ Alive \subseteq Slots
  BY TypeOKIs DEF Alive
<1>2. \A r \in Alive : sets'[r] = IF r = s THEN e ELSE sets[r]
  BY <1>1
<1> QED BY <1>2 DEF Steady

\* A refused call is steady.
LEMMA RefuseSteady ==
  ASSUME IInv, NEW code, Refuse(code)
  PROVE  Steady
BY DEF Refuse, Steady, Alive, IInv, Home, Has
-----------------------------------------------------------------------------
(* The calls that are steady.                                              *)

\* Binding an EventSet leaves it the flags it has, as it is not running.
LEMMA BoundIs ==
  ASSUME IInv, NEW s \in Alive, ~sets[s].bound
  PROVE  /\ Bind(sets[s]).state = sets[s].state /\ Bind(sets[s]).master = sets[s].master
         /\ Bind(sets[s]).bound /\ ~Has(s, "RUNNING")
<1>1. sets[s].state \in SUBSET {"STOPPED", "RUNNING", "ATTACHED"}
  BY AliveIs, GoodIs DEF IInv, Flags
<1>2. ~Has(s, "RUNNING") /\ ~Has(s, "ATTACHED") /\ Has(s, "STOPPED")
  BY DEF IInv, Home, RunningAgrees
<1>3. sets[s].state = {"STOPPED"}
  BY <1>1, <1>2 DEF Has
<1> QED BY <1>2, <1>3 DEF Bind, Empty

\* Binding an EventSet keeps the invariant.
LEMMA AssignSteady ==
  ASSUME IInv, NEW s \in Alive, Assign(s)
  PROVE  IInv'
<1>1. TypeOK' /\ Alive' = Alive
  BY AssignTypes DEF IInv, StaysTyped
<1>2. Steady
  <2>1. CASE sets[s].bound
    BY <2>1, RefuseSteady DEF Assign
  <2>2. CASE ~sets[s].bound
    <3>1. sets' = [sets EXCEPT ![s] = Bind(sets[s])] /\ UNCHANGED thr
      BY <2>2, AliveIs DEF Assign, IInv
    <3> QED BY <1>1, <2>2, <3>1, BoundIs, PutSteady DEF IInv, Home
  <2> QED BY <2>1, <2>2
<1> QED BY <1>1, <1>2, SteadyIs

\* PAPI_add_event keeps the invariant, whatever of it fails.
LEMMA AddEventSteady ==
  ASSUME IInv, NEW s \in Alive, NEW c \in Codes, AddEvent(s, c)
  PROVE  IInv'
<1> DEFINE e == IF sets[s].bound THEN sets[s] ELSE Bind(sets[s])
<1>1. TypeOK' /\ Alive' = Alive
  BY AddEventTypes DEF IInv, StaysTyped
<1>2. /\ e \in Good /\ e.state = sets[s].state /\ e.master = sets[s].master /\ e.bound
      /\ e.master \in Threads
  BY AliveIs, NewEventSetIs, BoundIs DEF IInv
<1>3. CASE Has(s, "RUNNING")
  BY <1>1, <1>3, RefuseSteady, SteadyIs DEF AddEvent
<1>4. CASE ~Has(s, "RUNNING") /\ AddRefusal(e, c) # "OK"
  <2>1. sets' = [sets EXCEPT ![s] = e] /\ UNCHANGED thr
    BY <1>4 DEF AddEvent
  <2> HIDE DEF e
  <2>2. Steady
    BY <1>1, <1>2, <2>1, PutSteady DEF IInv, Home
  <2> QED BY <1>1, <2>2, SteadyIs
<1>5. ASSUME NEW x, NEW ctx, x.state = e.state, x.master = e.master, x.bound = e.bound,
             sets' = [sets EXCEPT ![s] = x],
             UNCHANGED thr \/ thr' = Touch(e.master, s, ctx)
      PROVE  IInv'
  <2> HIDE DEF e
  <2>1. \A t \in Threads : thr'[t].running = thr[t].running
    BY <1>2, <1>5, TouchSteady DEF IInv
  <2>2. Steady
    BY <1>1, <1>2, <1>5, <2>1, PutSteady DEF IInv, Home
  <2> QED BY <1>1, <2>2, SteadyIs
<1>6. CASE ~Has(s, "RUNNING") /\ AddRefusal(e, c) = "OK"
  <2>1. AddShared(s, e, c) \/ AddNew(s, e, c)
    BY <1>6 DEF AddEvent
  <2> HIDE DEF e
  <2>2. \A nats, ctl : /\ Joined(e, c, nats).state = e.state /\ Joined(e, c, nats).master = e.master
                       /\ Joined(e, c, nats).bound = e.bound
                       /\ [Joined(e, c, nats) EXCEPT !.ctl = ctl].state = e.state
                       /\ [Joined(e, c, nats) EXCEPT !.ctl = ctl].master = e.master
                       /\ [Joined(e, c, nats) EXCEPT !.ctl = ctl].bound = e.bound
                       /\ [e EXCEPT !.ctl = ctl, !.nats = nats].state = e.state
                       /\ [e EXCEPT !.ctl = ctl, !.nats = nats].master = e.master
                       /\ [e EXCEPT !.ctl = ctl, !.nats = nats].bound = e.bound
    BY <1>2 DEF Joined, Good, EventSetInfo
  <2>3. CASE AddShared(s, e, c)
    <3>1. \A nats : /\ Sharing(e, c, nats).state = e.state /\ Sharing(e, c, nats).master = e.master
                    /\ Sharing(e, c, nats).bound = e.bound
      BY <1>2 DEF Sharing, Good, EventSetInfo
    <3> QED BY <1>5, <2>3, <3>1 DEF AddShared
  <2>4. CASE AddNew(s, e, c)
    <3>1. \E x, ctx : /\ x.state = e.state /\ x.master = e.master /\ x.bound = e.bound
                      /\ sets' = [sets EXCEPT ![s] = x]
                      /\ thr' = Touch(e.master, s, ctx)
      BY <2>2, <2>4 DEF AddNew
    <3> QED BY <1>5, <3>1
  <2> QED BY <2>1, <2>3, <2>4
<1> QED BY <1>3, <1>4, <1>6

Kept(x, e) == x.state = e.state /\ x.master = e.master /\ x.bound = e.bound

\* A call that changes no flag, no binding and no master of its EventSet and
\* at most touches the context is steady.
LEMMA KeptSteady ==
  ASSUME IInv, NEW s \in Alive, TypeOK', Alive' = Alive, NEW x, NEW ctx, Kept(x, sets[s]),
         sets' = [sets EXCEPT ![s] = x],
         UNCHANGED thr \/ thr' = Touch(sets[s].master, s, ctx)
  PROVE  IInv'
<1>1. \A t \in Threads : thr'[t].running = thr[t].running
  BY AliveIs, TouchSteady DEF IInv
<1>2. Steady
  BY <1>1, PutSteady DEF IInv, Home, Kept
<1> QED BY <1>2, SteadyIs

\* Changes that leave those three alone.
LEMMA KeptFields ==
  ASSUME NEW e \in Good
  PROVE  \A evs, nats, ctl, stop :
           /\ Kept([e EXCEPT !.ctl = ctl], e) /\ Kept([e EXCEPT !.stop = stop], e)
           /\ Kept([e EXCEPT !.ctl = ctl, !.stop = stop], e)
           /\ Kept([e EXCEPT !.ctl = ctl, !.nats = nats], e)
           /\ Kept([e EXCEPT !.ctl = ctl, !.nats = nats, !.evs = evs], e)
           /\ Kept([e EXCEPT !.evs = evs, !.nats = nats], e)
           /\ Kept([e EXCEPT !.evs = evs, !.nats = nats, !.ctl = ctl], e)
BY DEF Kept, Good, EventSetInfo

\* PAPI_remove_event keeps the invariant.
LEMMA RemoveEventSteady ==
  ASSUME IInv, NEW s \in Alive, NEW c \in Codes, RemoveEvent(s, c)
  PROVE  IInv'
<1>1. TypeOK' /\ Alive' = Alive
  BY RemoveEventTypes DEF IInv, StaysTyped
<1>2. sets[s] \in Good
  BY AliveIs DEF IInv
<1>3. CASE ~Has(s, "STOPPED") \/ c \notin Listed(sets[s].evs)
  BY <1>1, <1>3, RefuseSteady, SteadyIs DEF RemoveEvent
<1>4. CASE Has(s, "STOPPED") /\ c \in Listed(sets[s].evs)
  <2> DEFINE e == sets[s]
             W == Without(e.evs, IndexOf(e.evs, c))
             nats == RemoveNatives(e.nats, c)
             ctl == Configured(e.ctl, nats)
  <2>1. \/ /\ sets' = [sets EXCEPT ![s] = [e EXCEPT !.evs = W, !.nats = nats]]
           /\ UNCHANGED thr
        \/ \E ok : /\ sets' = [sets EXCEPT ![s] = [e EXCEPT !.evs = IF ok THEN W ELSE @,
                                                            !.nats = Positioned(nats), !.ctl = ctl]]
                   /\ thr' = Touch(e.master, s, Updated(e.ctl, nats, ok))
    BY <1>4 DEF RemoveEvent
  <2> HIDE DEF W, nats, ctl
  <2>2. CASE sets' = [sets EXCEPT ![s] = [e EXCEPT !.evs = W, !.nats = nats]] /\ UNCHANGED thr
    <3>1. Kept([e EXCEPT !.evs = W, !.nats = nats], e)
      BY <1>2, KeptFields
    <3> QED BY <1>1, <2>2, <3>1, KeptSteady
  <2>3. ASSUME NEW ok,
               sets' = [sets EXCEPT ![s] = [e EXCEPT !.evs = IF ok THEN W ELSE @,
                                                     !.nats = Positioned(nats), !.ctl = ctl]],
               thr' = Touch(e.master, s, Updated(e.ctl, nats, ok))
        PROVE  IInv'
    <3> DEFINE evs == IF ok THEN W ELSE e.evs
    <3>1. Kept([e EXCEPT !.evs = evs, !.nats = Positioned(nats), !.ctl = ctl], e)
      BY <1>2, KeptFields
    <3> QED BY <1>1, <2>3, <3>1, KeptSteady
  <2> QED BY <2>1, <2>2, <2>3
<1> QED BY <1>3, <1>4

\* What PAPI_cleanup_eventset leaves is unbound, but it does not run.
LEMMA CleanupSteady ==
  ASSUME IInv, NEW s \in Alive, Cleanup(s)
  PROVE  IInv'
<1> DEFINE x == [Empty EXCEPT !.state = sets[s].state, !.master = sets[s].master]
<1>1. TypeOK' /\ Alive' = Alive
  BY CleanupTypes DEF IInv, StaysTyped
<1>2. CASE ~sets[s].bound \/ Has(s, "RUNNING")
  BY <1>1, <1>2, RefuseSteady, SteadyIs DEF Cleanup
<1>3. CASE sets[s].bound /\ ~Has(s, "RUNNING")
  <2>1. sets' = [sets EXCEPT ![s] = x] /\ thr' = Touch(sets[s].master, s, Closed)
    BY <1>3 DEF Cleanup
  <2>2. x.state = sets[s].state /\ x.master = sets[s].master
    BY DEF Empty
  <2> HIDE DEF x
  <2>3. \A t \in Threads : thr'[t].running = thr[t].running
    BY <2>1, AliveIs, TouchSteady DEF IInv
  <2>4. Steady
    BY <1>1, <1>3, <2>1, <2>2, <2>3, PutSteady DEF IInv, Home
  <2> QED BY <1>1, <2>4, SteadyIs
<1> QED BY <1>2, <1>3

\* PAPI_read keeps the invariant.
LEMMA ReadSteady ==
  ASSUME IInv, NEW s \in Alive, Read(s)
  PROVE  IInv'
<1>1. TypeOK' /\ Alive' = Alive /\ sets[s] \in Good
  BY ReadTypes, AliveIs DEF IInv, StaysTyped
<1>2. CASE ~sets[s].bound
  BY <1>1, <1>2, RefuseSteady, SteadyIs DEF Read
<1>3. CASE sets[s].bound /\ ~Has(s, "RUNNING")
  <2>1. UNCHANGED <<sets, thr>>
    BY <1>3 DEF Read
  <2> QED BY <1>1, <2>1, SteadyIs DEF Steady, IInv, Home, Has
<1>4. CASE sets[s].bound /\ Has(s, "RUNNING")
  <2>1. \E ctl, ctx : /\ sets' = [sets EXCEPT ![s] = [sets[s] EXCEPT !.ctl = ctl]]
                      /\ thr' = Touch(sets[s].master, s, ctx)
    BY <1>4 DEF Read
  <2> QED BY <1>1, <2>1, KeptFields, KeptSteady
<1> QED BY <1>2, <1>3, <1>4

\* PAPI_reset keeps the invariant.
LEMMA ResetSteady ==
  ASSUME IInv, NEW s \in Alive, Reset(s)
  PROVE  IInv'
<1>1. TypeOK' /\ Alive' = Alive /\ sets[s] \in Good /\ sets[s].master \in Threads
  BY ResetTypes, AliveIs DEF IInv, StaysTyped
<1>2. CASE ~sets[s].bound
  BY <1>1, <1>2, RefuseSteady, SteadyIs DEF Reset
<1>3. CASE sets[s].bound /\ Has(s, "RUNNING")
  <2>1. UNCHANGED sets /\ thr' = Touch(sets[s].master, s, ResetCtx(thr[sets[s].master].ctx))
    BY <1>3 DEF Reset
  <2>2. \A t \in Threads : thr'[t].running = thr[t].running
    BY <1>1, <2>1, TouchSteady DEF IInv
  <2> QED BY <1>1, <2>1, <2>2, SteadyIs DEF Steady, IInv, Home, Has
<1>4. CASE sets[s].bound /\ ~Has(s, "RUNNING")
  <2>1. /\ sets' = [sets EXCEPT ![s] = [sets[s] EXCEPT !.stop = Cleared(sets[s])]]
        /\ UNCHANGED thr
    BY <1>4 DEF Reset
  <2>2. Kept([sets[s] EXCEPT !.stop = Cleared(sets[s])], sets[s])
    BY <1>1, KeptFields
  <2>3. Steady
    BY <1>1, <2>1, <2>2, PutSteady DEF IInv, Home, Kept
  <2> QED BY <1>1, <2>3, SteadyIs
<1> QED BY <1>2, <1>3, <1>4

\* PAPI_accum keeps the invariant.
LEMMA AccumSteady ==
  ASSUME IInv, NEW s \in Alive, Accum(s)
  PROVE  IInv'
<1>1. TypeOK' /\ Alive' = Alive /\ sets[s] \in Good /\ sets[s].master \in Threads
  BY AccumTypes, AliveIs DEF IInv, StaysTyped
<1>2. CASE ~sets[s].bound
  BY <1>1, <1>2, RefuseSteady, SteadyIs DEF Accum
<1>3. CASE sets[s].bound
  <2> DEFINE e == sets[s]
             ctx == thr[e.master].ctx
             ctl == Fetched(ctx, e.ctl)
             vals == ValuesOf(e.evs, ctl.counts)
             stop == [i \in DOMAIN e.stop |-> IF i \in DOMAIN vals THEN vals[i] ELSE e.stop[i]]
  <2>1. \/ sets' = [sets EXCEPT ![s] = [e EXCEPT !.stop = Cleared(e)]] /\ UNCHANGED thr
        \/ sets' = [sets EXCEPT ![s] = [e EXCEPT !.ctl = ctl]] /\ thr' = Touch(e.master, s, ctx)
        \/ /\ sets' = [sets EXCEPT ![s] = [e EXCEPT !.ctl = ctl, !.stop = stop]]
           /\ thr' = Touch(e.master, s, ResetCtx(ctx))
    BY <1>3 DEF Accum
  <2>2. /\ Kept([e EXCEPT !.stop = Cleared(e)], e) /\ Kept([e EXCEPT !.ctl = ctl], e)
        /\ Kept([e EXCEPT !.ctl = ctl, !.stop = stop], e)
    BY <1>1, KeptFields
  <2> HIDE DEF ctx, ctl, vals, stop
  <2>3. \A t \in Threads : thr'[t].running = thr[t].running
    BY <1>1, <2>1, TouchSteady DEF IInv
  <2>4. Steady
    BY <1>1, <2>1, <2>2, <2>3, PutSteady DEF IInv, Home, Kept
  <2> QED BY <1>1, <2>4, SteadyIs
<1> QED BY <1>2, <1>3

\* PAPI_set_opt(PAPI_DOMAIN) keeps the invariant.
LEMMA SetDomainSteady ==
  ASSUME IInv, NEW s \in Alive, NEW d \in Domains, SetDomain(s, d)
  PROVE  IInv'
<1>1. TypeOK' /\ Alive' = Alive /\ sets[s] \in Good
  BY SetDomainTypes, AliveIs DEF IInv, StaysTyped
<1>2. CASE ~sets[s].bound \/ ~Has(s, "STOPPED")
  BY <1>1, <1>2, RefuseSteady, SteadyIs DEF SetDomain
<1>3. CASE sets[s].bound /\ Has(s, "STOPPED")
  <2>1. sets = [sets EXCEPT ![s] = [sets[s] EXCEPT !.ctl = sets[s].ctl]]
    BY <1>1, TypeOKIs DEF IInv, Good, EventSetInfo
  <2>2. \E ctl, ctx : /\ sets' = [sets EXCEPT ![s] = [sets[s] EXCEPT !.ctl = ctl]]
                      /\ thr' = Touch(sets[s].master, s, ctx)
    BY <1>3, <2>1 DEF SetDomain
  <2> QED BY <1>1, <2>2, KeptFields, KeptSteady
<1> QED BY <1>2, <1>3

\* Counting keeps the invariant.
LEMMA TickSteady == IInv /\ Tick => IInv'
<1> SUFFICES ASSUME IInv, Tick PROVE IInv'
  OBVIOUS
<1>1. TypeOK' /\ UNCHANGED sets /\ Alive' = Alive
  BY TickTypes DEF IInv, Tick, Alive
<1>2. \A t \in Threads : thr'[t].running = thr[t].running
  <2>1. \A x \in ThreadInfo : [x EXCEPT !.ctx.n = @ + 1].running = x.running
    BY DEF ThreadInfo
  <2>2. \A t \in Threads : thr[t] \in ThreadInfo
    BY TypeOKIs DEF IInv
  <2> QED BY <2>1, <2>2 DEF Tick
<1> QED BY <1>1, <1>2, SteadyIs DEF Steady, IInv, Home, Has
-----------------------------------------------------------------------------
(* The calls that make an EventSet, release one, start one and stop one.   *)

\* A new EventSet takes a slot that no ThreadInfo refers to.
LEMMA CreateRuns == IInv /\ Create => IInv'
<1> SUFFICES ASSUME IInv, Create PROVE IInv'
  OBVIOUS
<1>1. TypeOK'
  BY CreateTypes DEF IInv
<1>2. PICK s \in Slots : /\ sets[s] = None /\ sets' = [sets EXCEPT ![s] = Empty]
                         /\ UNCHANGED thr
  BY DEF Create
<1>3. sets \in [Slots -> Good \cup {None}] /\ Empty # None
  BY TypeOKIs, NewEventSetIs, EventSetsAssumption DEF IInv, Good
<1>4. /\ s \notin Alive /\ Alive' = Alive \cup {s}
      /\ \A r \in Slots : sets'[r] = IF r = s THEN Empty ELSE sets[r]
  BY <1>2, <1>3 DEF Alive
<1>5. /\ Empty.state = {"STOPPED"} /\ Empty.master = Self
  BY DEF Empty
<1>6. Self \in Threads /\ \A t \in Threads : thr[t].running # s
  BY <1>2, <1>4, EventSetsAssumption DEF IInv, RunningAgrees
<1>7. RunningAgrees'
  BY <1>2, <1>4, <1>5, <1>6 DEF IInv, RunningAgrees, Has, Alive
<1>8. Home'
  BY <1>2, <1>4, <1>5, <1>6 DEF IInv, Home, Has, Alive
<1> QED BY <1>1, <1>7, <1>8 DEF IInv

\* Only an EventSet that does not run is released, so no ThreadInfo still
\* refers to it as the running one.
LEMMA DestroyRuns ==
  ASSUME IInv, NEW s \in Alive, Destroy(s)
  PROVE  IInv'
<1>1. TypeOK'
  BY DestroyTypes DEF IInv
<1>2. CASE ~Has(s, "STOPPED") \/ sets[s].evs # <<>>
  BY <1>1, <1>2, RefuseSteady, SteadyIs DEF Destroy
<1>3. CASE Has(s, "STOPPED") /\ sets[s].evs = <<>>
  <2>1. sets' = [sets EXCEPT ![s] = None] /\ UNCHANGED thr
    BY <1>3 DEF Destroy
  <2>2. /\ Alive' = Alive \ {s}
        /\ \A r \in Alive \ {s} : sets'[r] = sets[r]
    BY <2>1, TypeOKIs DEF IInv, Alive
  <2>3. ~Has(s, "RUNNING") /\ sets[s].master = Self
    BY <1>3 DEF IInv, RunningAgrees, Home
  <2>4. \A t \in Threads : thr[t].running # s
    <3>1. thr[Self].running # s
      BY <2>3 DEF IInv, RunningAgrees
    <3>2. None # s
      BY EventSetsAssumption DEF Alive
    <3> QED BY <3>1, <3>2 DEF IInv, Home
  <2>5. RunningAgrees'
    BY <2>1, <2>2, <2>4 DEF IInv, RunningAgrees, Has
  <2>6. Home'
    BY <2>1, <2>2 DEF IInv, Home, Has
  <2> QED BY <1>1, <2>5, <2>6 DEF IInv
<1> QED BY <1>2, <1>3

\* One call that changes the flags of its EventSet and the running_eventset of
\* the calling thread, both to running or both to not running.
LEMMA SwitchRuns ==
  ASSUME IInv, NEW s \in Alive, TypeOK', Alive' = Alive,
         NEW x, sets' = [sets EXCEPT ![s] = x], x.master = Self, x.bound,
         "ATTACHED" \notin x.state,
         "RUNNING" \in x.state <=> "STOPPED" \notin x.state,
         thr[Self].running \in {None, s},
         thr'[Self].running = IF "RUNNING" \in x.state THEN s ELSE None,
         \A t \in Threads \ {Self} : thr'[t].running = thr[t].running
  PROVE  IInv'
<1>1. \A r \in Alive : sets'[r] = IF r = s THEN x ELSE sets[r]
  BY TypeOKIs DEF IInv, Alive
<1>2. None # s /\ None \notin Alive /\ Self \in Threads
  BY EventSetsAssumption DEF Alive
<1>3. \A r \in Alive : Has(r, "RUNNING") <=> thr[Self].running = r
  BY DEF IInv, RunningAgrees, Home
<1>4. RunningAgrees'
  <2>1. ASSUME NEW r \in Alive
        PROVE  /\ (Has(r, "RUNNING") <=> thr[sets[r].master].running = r)'
               /\ (Has(r, "RUNNING") <=> ~Has(r, "STOPPED"))'
    <3>1. CASE r = s
      BY <1>1, <1>2, <3>1 DEF Has
    <3>2. CASE r # s
      <4>1. sets'[r] = sets[r] /\ sets[r].master = Self /\ ~Has(r, "RUNNING")
        BY <1>1, <1>2, <1>3, <3>2 DEF IInv, Home
      <4>2. thr'[Self].running # r
        BY <1>2, <3>2
      <4> QED BY <4>1, <4>2 DEF Has, IInv, RunningAgrees
    <3> QED BY <3>1, <3>2
  <2>2. \A t \in Threads : (thr[t].running # None => thr[t].running \in Alive)'
    BY <1>2 DEF IInv, Home
  <2> QED BY <2>1, <2>2 DEF RunningAgrees
<1>5. Home'
  BY <1>1, <1>2 DEF IInv, Home, Has
<1> QED BY <1>4, <1>5 DEF IInv

\* The flags a start leaves, and those of a start undone or of a stop.
LEMMA MarksIs ==
  ASSUME NEW e \in Good
  PROVE  /\ Marked(e).master = e.master /\ Marked(e).bound = e.bound
         /\ Unmarked(e).master = e.master /\ Unmarked(e).bound = e.bound
         /\ Marked(e).state = Xor(e.state, "STOPPED") \cup {"RUNNING"}
         /\ Unmarked(e).state = Xor(e.state, "RUNNING") \cup {"STOPPED"}
BY DEF Marked, Unmarked, Good, EventSetInfo

\* The start of an opened group sets the flags and running_eventset together,
\* and a refused one sets neither.
LEMMA LaunchRuns ==
  ASSUME IInv, NEW s \in Alive, NEW e \in Good, Kept(e, sets[s]), e.bound,
         NEW ctx \in Context, thr[Self].running = None, Launch(s, e, ctx)
  PROVE  IInv'
<1>1. TypeOK' /\ Alive' = Alive
  BY LaunchTypes DEF IInv, StaysTyped
<1>2. e.master = Self /\ Self \in Threads /\ e.state = {"STOPPED"}
  <2>1. e.state \in SUBSET {"STOPPED", "RUNNING", "ATTACHED"}
    BY GoodIs DEF Flags
  <2>2. sets[s].master = Self /\ ~Has(s, "ATTACHED") /\ s # None
    BY EventSetsAssumption DEF IInv, Home, Alive
  <2>3. ~Has(s, "RUNNING") /\ Has(s, "STOPPED")
    BY <2>2 DEF IInv, RunningAgrees
  <2> QED BY <2>1, <2>2, <2>3, EventSetsAssumption DEF Kept, Has
<1>3. Marked(e).state = {"RUNNING"} /\ Unmarked(Marked(e)).state = {"STOPPED"}
  <2>1. Marked(e) \in Good
    BY MarkedIs
  <2> QED BY <1>2, <2>1, MarksIs DEF Xor
<1>4. CASE /\ sets' = [sets EXCEPT ![s] = Marked(e)]
           /\ thr' = [Touch(Self, s, Enabled(ctx)) EXCEPT ![Self].running = s]
  <2>1. /\ thr'[Self].running = s
        /\ \A t \in Threads \ {Self} : thr'[t].running = thr[t].running
    BY <1>2, <1>4, TypeOKIs DEF IInv, Touch, ThreadInfo
  <2>2. Marked(e).master = Self /\ Marked(e).bound
    BY <1>2, MarksIs
  <2>3. "STOPPED" \notin {"RUNNING"} /\ "ATTACHED" \notin {"RUNNING"}
    OBVIOUS
  <2> QED BY <1>1, <1>3, <1>4, <2>1, <2>2, <2>3, SwitchRuns
<1>5. CASE /\ sets' = [sets EXCEPT ![s] = Unmarked(Marked(e))]
           /\ thr' = Touch(Self, s, Disabled(ctx))
  <2>1. \A t \in Threads : thr'[t].running = thr[t].running
    BY <1>2, <1>5, TouchSteady DEF IInv
  <2>2. Unmarked(Marked(e)).master = Self /\ Unmarked(Marked(e)).bound
    BY <1>2, MarkedIs, MarksIs
  <2>3. "RUNNING" \notin {"STOPPED"} /\ "ATTACHED" \notin {"STOPPED"}
    OBVIOUS
  <2>4. thr'[Self].running = None
    BY <1>2, <2>1
  <2> QED BY <1>1, <1>2, <1>3, <1>5, <2>1, <2>2, <2>3, <2>4, SwitchRuns
<1>6. Holder(s, e) = s
  BY <1>2 DEF Holder
<1> QED BY <1>2, <1>4, <1>5, <1>6 DEF Launch

\* PAPI_start keeps the invariant: it goes through only when nothing runs.
LEMMA StartRuns ==
  ASSUME IInv, NEW s \in Alive, Start(s)
  PROVE  IInv'
<1> DEFINE e == sets[s]
           ctl == Configured(e.ctl, e.nats)
           fresh == [e EXCEPT !.ctl = ctl, !.nats = Positioned(@),
                              !.evs = Remap(@, Positioned(e.nats))]
           moved == [e EXCEPT !.ctl = ctl, !.nats = Positioned(@)]
<1>1. TypeOK' /\ Alive' = Alive
  BY StartTypes DEF IInv, StaysTyped
<1>2. e \in Good /\ e.master = Self /\ Self \in Threads /\ thr[Self].ctx \in Context
  BY AliveIs DEF IInv, Home
<1>3. CASE ~e.bound \/ thr[Self].running # None \/ e.evs = <<>>
  BY <1>1, <1>2, <1>3, RefuseSteady, SteadyIs DEF Start
<1>4. CASE ~(~e.bound \/ thr[Self].running # None \/ e.evs = <<>>)
  <2>1. \/ Launch(s, e, thr[Self].ctx)
        \/ Launch(s, fresh, Updated(e.ctl, e.nats, TRUE))
        \/ sets' = [sets EXCEPT ![s] = moved] /\ thr' = Touch(Self, s, Closed)
    BY <1>2, <1>4 DEF Start
  <2>2. CASE Launch(s, e, thr[Self].ctx)
    BY <1>2, <1>4, <2>2, LaunchRuns DEF Kept
  <2>3. CASE Launch(s, fresh, Updated(e.ctl, e.nats, TRUE))
    <3>1. fresh \in Good /\ Updated(e.ctl, e.nats, TRUE) \in Context
      BY <1>2, StartedIs
    <3>2. Kept(fresh, e)
      <4> HIDE DEF e, ctl
      <4> QED BY <1>2, KeptFields
    <3>3. fresh.bound
      BY <1>4, <3>2 DEF Kept
    <3> HIDE DEF fresh
    <3> QED BY <1>4, <2>3, <3>1, <3>2, <3>3, LaunchRuns
  <2>4. CASE sets' = [sets EXCEPT ![s] = moved] /\ thr' = Touch(Self, s, Closed)
    <3>1. Kept(moved, e)
      <4> HIDE DEF e, ctl
      <4> QED BY <1>2, KeptFields
    <3> HIDE DEF moved
    <3> QED BY <1>1, <1>2, <2>4, <3>1, KeptSteady
  <2> QED BY <2>1, <2>2, <2>3, <2>4
<1> QED BY <1>3, <1>4

\* PAPI_stop keeps the invariant: it clears both or, when the reading fails,
\* neither.
LEMMA StopRuns ==
  ASSUME IInv, NEW s \in Alive, Stop(s)
  PROVE  IInv'
<1> DEFINE e == sets[s]
           ctl == Fetched(thr[Self].ctx, e.ctl)
           vals == ValuesOf(e.evs, ctl.counts)
           stop == [i \in DOMAIN e.stop |-> IF i \in DOMAIN vals THEN vals[i] ELSE e.stop[i]]
           read == [e EXCEPT !.ctl = ctl, !.stop = stop]
<1>1. TypeOK' /\ Alive' = Alive
  BY StopTypes DEF IInv, StaysTyped
<1>2. /\ e \in Good /\ e.master = Self /\ Self \in Threads /\ thr[Self].ctx \in Context
      /\ ~Has(s, "ATTACHED")
  BY AliveIs DEF IInv, Home
<1>3. CASE ~e.bound \/ ~Has(s, "RUNNING")
  BY <1>1, <1>3, RefuseSteady, SteadyIs DEF Stop
<1>4. CASE e.bound /\ Has(s, "RUNNING")
  <2>1. \/ /\ sets' = [sets EXCEPT ![s] = [e EXCEPT !.ctl = ctl]]
           /\ thr' = Touch(Self, s, thr[Self].ctx)
        \/ /\ sets' = [sets EXCEPT ![s] = Unmarked(read)]
           /\ thr' = [Touch(Self, s, Disabled(thr[Self].ctx)) EXCEPT ![Self].running = None]
    BY <1>2, <1>4 DEF Stop
  <2>2. CASE /\ sets' = [sets EXCEPT ![s] = [e EXCEPT !.ctl = ctl]]
             /\ thr' = Touch(Self, s, thr[Self].ctx)
    <3>1. Kept([e EXCEPT !.ctl = ctl], e)
      BY <1>2, KeptFields
    <3> HIDE DEF ctl
    <3> QED BY <1>1, <1>2, <2>2, <3>1, KeptSteady
  <2>3. CASE /\ sets' = [sets EXCEPT ![s] = Unmarked(read)]
             /\ thr' = [Touch(Self, s, Disabled(thr[Self].ctx)) EXCEPT ![Self].running = None]
    <3>1. read \in Good
      BY <1>2, ReadingIs
    <3>2. Kept(read, e)
      BY <1>2, KeptFields
    <3> HIDE DEF read
    <3>3. thr[Self].running = s /\ e.state = {"RUNNING"}
      <4>1. e.state \in SUBSET {"STOPPED", "RUNNING", "ATTACHED"}
        BY <1>2, GoodIs DEF Flags
      <4>2. thr[Self].running = s /\ ~Has(s, "STOPPED")
        BY <1>2, <1>4 DEF IInv, RunningAgrees
      <4> QED BY <1>2, <1>4, <4>1, <4>2 DEF Has
    <3>4. /\ Unmarked(read).state = {"STOPPED"} /\ Unmarked(read).master = Self
          /\ Unmarked(read).bound
      BY <1>2, <1>4, <3>1, <3>2, <3>3, MarksIs DEF Kept, Xor
    <3>5. /\ thr'[Self].running = None
          /\ \A t \in Threads \ {Self} : thr'[t].running = thr[t].running
      BY <1>2, <2>3, TypeOKIs DEF IInv, Touch, ThreadInfo
    <3>6. "RUNNING" \notin {"STOPPED"} /\ "ATTACHED" \notin {"STOPPED"}
      OBVIOUS
    <3> QED BY <1>1, <2>3, <3>3, <3>4, <3>5, <3>6, SwitchRuns
  <2> QED BY <2>1, <2>2, <2>3
<1> QED BY <1>3, <1>4
-----------------------------------------------------------------------------
(* The invariant, and what the application gets from it.                   *)

\* Nothing is alive and nothing runs after PAPI_library_init.
LEMMA InitRuns == Init => IInv
<1> SUFFICES ASSUME Init PROVE IInv
  OBVIOUS
<1>1. TypeOK
  BY InitTypes
<1>2. Alive = {} /\ \A t \in Threads : thr[t].running = None
  BY DEF Init, Alive
<1> QED BY <1>1, <1>2 DEF IInv, RunningAgrees, Home

\* Without PAPI_attach every call keeps the invariant.
LEMMA CallRuns ==
  ASSUME "attach" \notin Liberties, IInv, NEW s \in Alive, Call(s)
  PROVE  IInv'
<1>1. CASE Assign(s) \/ Cleanup(s) \/ Destroy(s)
  BY <1>1, AssignSteady, CleanupSteady, DestroyRuns
<1>2. CASE \E c \in Codes : AddEvent(s, c) \/ RemoveEvent(s, c)
  BY <1>2, AddEventSteady, RemoveEventSteady
<1>3. CASE Start(s) \/ Stop(s)
  BY <1>3, StartRuns, StopRuns
<1>4. CASE Read(s) \/ Reset(s) \/ Accum(s) \/ \E d \in Domains : SetDomain(s, d)
  BY <1>4, ReadSteady, ResetSteady, AccumSteady, SetDomainSteady
<1>5. CASE (\E t \in Threads \ {Self} : Attach(s, t)) \/ Detach(s)
  BY <1>5 DEF Attach, Detach
<1> QED BY <1>1, <1>2, <1>3, <1>4, <1>5 DEF Call

\* Without PAPI_attach every step keeps the invariant.
LEMMA NextRuns ==
  ASSUME "attach" \notin Liberties, IInv, [Next]_vars
  PROVE  IInv'
<1>1. CASE Create \/ Tick
  BY <1>1, CreateRuns, TickSteady
<1>2. CASE \E s \in Alive : Call(s)
  BY <1>2, CallRuns
<1>3. CASE UNCHANGED vars
  <2>1. TypeOK'
    BY <1>3, NextTypes DEF IInv
  <2> QED BY <1>3, <2>1, SteadyIs DEF vars, Steady, Alive, IInv, Home, Has
<1> QED BY <1>1, <1>2, <1>3 DEF Next

\* The flags of the EventSets and the running_eventset of the ThreadInfos say
\* the same after any calls but PAPI_attach, refused and failing ones included.
THEOREM RunningHolds ==
  ASSUME "attach" \notin Liberties
  PROVE  Spec => []RunningAgrees
<1>1. Init => IInv
  BY InitRuns
<1>2. IInv /\ [Next]_vars => IInv'
  BY NextRuns
<1>3. IInv => RunningAgrees
  BY DEF IInv
<1> QED BY <1>1, <1>2, <1>3, PTL DEF Spec

\* PAPI_start lets a thread that attaches no EventSet run one at a time, the
\* failed starts and stops in between notwithstanding.
THEOREM ExclusiveRunHolds ==
  ASSUME "attach" \notin Liberties
  PROVE  Spec => []ExclusiveRun
<1>1. Init => IInv
  BY InitRuns
<1>2. IInv /\ [Next]_vars => IInv'
  BY NextRuns
<1>3. IInv => ExclusiveRun
  BY DEF IInv, RunningAgrees, ExclusiveRun
<1> QED BY <1>1, <1>2, <1>3, PTL DEF Spec
=============================================================================
