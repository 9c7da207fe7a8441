------------------------- MODULE EnforcementProofs -------------------------
(***************************************************************************)
(* Proofs about the dispatch of events and the enforcement flow, for every *)
(* set of games, tasks, reasons, levels and options.                       *)
(*                                                                         *)
(* What has still to be dispatched decides what becomes of the flow: the   *)
(* last operation that arms or cancels.  As long as no handler overtakes a *)
(* dispatch, that operation is the right one for the engine's present      *)
(* state, and where there is none the flow is already right.               *)
(***************************************************************************)
EXTENDS Enforcement, TLAPS

\* The same judgements for any state e of the engine.
RestrictedIn(e) == e.game # None /\ e.view.level >= 2
NoCauseIn(e) == e.game = None \/ e.view.reason = None

\* Operation o sets the flow of an engine in state e, and as e asks for.
Decides(e, o) ==
    \/ o.op = "cancel"
    \/ e.game # None /\ (o.op = "launched" \/ (o.op = "activated" /\ o.level >= 2))
Right(e, o) ==
    /\ RestrictedIn(e) => o.op # "cancel" /\ o.level <= e.view.level
    /\ NoCauseIn(e) => o.op = "cancel"

\* Nothing in ops sets the flow; the last operation that does is the right one.
Undecided(e, ops) == \A i \in DOMAIN ops : ~Decides(e, ops[i])
EndsRight(e, ops) ==
    \A i \in DOMAIN ops :
        Decides(e, ops[i]) /\ (\A j \in DOMAIN ops : i < j => ~Decides(e, ops[j]))
        => Right(e, ops[i])

\* Where a task waits for notify-send, its next operation is the notification.
WaitsForNotice ==
    /\ turn # None => todo[turn] # <<>>
    /\ \A t \in Tasks \ {turn} : todo[t] # <<>> => Head(todo[t]).op = "send"

\* A flow for a game that has gone is about to be cancelled, also after an overtaking.
GoneGameCancelled ==
    flow # None /\ flow.game # eng.game =>
        \E t \in Tasks : \E i \in DOMAIN todo[t] : todo[t][i].op = "cancel"

\* A restricted game is pursued by a flow in its first phase, or was asked to close.
Settled ==
    /\ Restricted => \/ asked
                     \/ /\ flow # None /\ flow.phase = "grace"
                        /\ flow.game = eng.game /\ flow.level <= eng.view.level
    /\ NoCauseIn(eng) => flow = None

\* Without an overtaking one task at most dispatches.
NotOvertaken ==
    ~overlap =>
        /\ \A t, u \in Tasks : todo[t] # <<>> /\ todo[u] # <<>> => t = u
        /\ \A t \in Tasks : EndsRight(eng, todo[t])
        /\ (\A t \in Tasks : Undecided(eng, todo[t])) => Settled

IInv == TypeOK /\ WaitsForNotice /\ GoneGameCancelled /\ NotOvertaken

-----------------------------------------------------------------------------
(* Sequences of operations *)

\* One operation, none, or two sequences one after the other.
LEMMA Elements ==
    ASSUME NEW S, NEW a \in Seq(S), NEW b \in Seq(S)
    PROVE  /\ a \o b \in Seq(S)
           /\ DOMAIN a = 1 .. Len(a) /\ DOMAIN b = 1 .. Len(b)
           /\ DOMAIN (a \o b) = 1 .. Len(a) + Len(b)
           /\ \A i \in 1 .. Len(a) : (a \o b)[i] = a[i]
           /\ \A i \in 1 .. Len(b) : (a \o b)[Len(a) + i] = b[i]
           /\ \A i \in DOMAIN (a \o b) : i \in DOMAIN a \/ (i - Len(a) \in DOMAIN b /\ i > Len(a))
           /\ Len(a) \in Nat /\ Len(b) \in Nat
OBVIOUS

\* The rest of a sequence that is not empty.
LEMMA Rest ==
    ASSUME NEW S, NEW ops \in Seq(S), ops # <<>>
    PROVE  /\ Head(ops) \in S /\ Tail(ops) \in Seq(S)
           /\ Head(ops) = ops[1] /\ 1 \in DOMAIN ops
           /\ \A i \in DOMAIN Tail(ops) : i + 1 \in DOMAIN ops /\ Tail(ops)[i] = ops[i + 1]
           /\ \A i \in DOMAIN ops : i = 1 \/ (i - 1 \in DOMAIN Tail(ops) /\ i > 1)
           /\ DOMAIN ops = 1 .. Len(ops) /\ DOMAIN Tail(ops) = 1 .. Len(ops) - 1
           /\ Len(ops) \in Nat
<1>1. Len(ops) \in Nat /\ Len(ops) # 0 /\ DOMAIN ops = 1 .. Len(ops)
  OBVIOUS
<1>2. Tail(ops) \in Seq(S) /\ Len(Tail(ops)) = Len(ops) - 1
  BY <1>1
<1>3. DOMAIN Tail(ops) = 1 .. Len(ops) - 1
  BY <1>1, <1>2
<1>4. \A i \in 1 .. Len(ops) - 1 : Tail(ops)[i] = ops[i + 1]
  BY <1>1
<1>5. Head(ops) = ops[1] /\ Head(ops) \in S
  BY <1>1
<1>6. QED
  BY <1>1, <1>2, <1>3, <1>4, <1>5

\* Nothing is decided by two sequences of which neither decides.
LEMMA UndecidedConcat ==
    ASSUME NEW e, NEW S, NEW a \in Seq(S), NEW b \in Seq(S)
    PROVE  Undecided(e, a \o b) <=> Undecided(e, a) /\ Undecided(e, b)
<1>1. ASSUME Undecided(e, a \o b) PROVE Undecided(e, a) /\ Undecided(e, b)
  <2>1. ASSUME NEW i \in DOMAIN a PROVE ~Decides(e, a[i])
    <3>1. i \in DOMAIN (a \o b) /\ (a \o b)[i] = a[i]
      BY Elements
    <3>2. QED
      BY <1>1, <3>1 DEF Undecided
  <2>2. ASSUME NEW i \in DOMAIN b PROVE ~Decides(e, b[i])
    <3>1. Len(a) + i \in DOMAIN (a \o b) /\ (a \o b)[Len(a) + i] = b[i]
      BY Elements
    <3>2. QED
      BY <1>1, <3>1 DEF Undecided
  <2>3. QED
    BY <2>1, <2>2 DEF Undecided
<1>2. ASSUME Undecided(e, a), Undecided(e, b), NEW i \in DOMAIN (a \o b)
      PROVE  ~Decides(e, (a \o b)[i])
  <2>1. CASE i \in DOMAIN a
    <3>1. (a \o b)[i] = a[i]
      BY <2>1, Elements
    <3>2. QED
      BY <1>2, <2>1, <3>1 DEF Undecided
  <2>2. CASE i - Len(a) \in DOMAIN b /\ i > Len(a)
    <3>1. (a \o b)[i] = b[i - Len(a)]
      BY <2>2, Elements
    <3>2. QED
      BY <1>2, <2>2, <3>1 DEF Undecided
  <2>3. QED
    BY <1>2, <2>1, <2>2, Elements
<1>3. QED
  BY <1>1, <1>2 DEF Undecided

\* The last decision of two sequences is that of the second, if it makes one.
LEMMA EndsRightConcat ==
    ASSUME NEW e, NEW S, NEW a \in Seq(S), NEW b \in Seq(S),
           EndsRight(e, b), Undecided(e, b) => EndsRight(e, a)
    PROVE  EndsRight(e, a \o b)
<1> SUFFICES ASSUME NEW i \in DOMAIN (a \o b), Decides(e, (a \o b)[i]),
                    \A j \in DOMAIN (a \o b) : i < j => ~Decides(e, (a \o b)[j])
             PROVE  Right(e, (a \o b)[i])
  BY DEF EndsRight
<1>1. CASE i \in DOMAIN a
  <2>1. (a \o b)[i] = a[i] /\ i \in 1 .. Len(a)
    BY <1>1, Elements
  <2>2. ASSUME NEW j \in DOMAIN b PROVE ~Decides(e, b[j])
    <3>1. Len(a) + j \in DOMAIN (a \o b) /\ (a \o b)[Len(a) + j] = b[j] /\ i < Len(a) + j
      BY <2>1, Elements
    <3>2. QED
      BY <3>1
  <2>3. ASSUME NEW j \in DOMAIN a, i < j PROVE ~Decides(e, a[j])
    <3>1. j \in DOMAIN (a \o b) /\ (a \o b)[j] = a[j]
      BY Elements
    <3>2. QED
      BY <2>3, <3>1
  <2>4. QED
    BY <1>1, <2>1, <2>2, <2>3 DEF Undecided, EndsRight
<1>2. CASE i - Len(a) \in DOMAIN b /\ i > Len(a)
  <2>1. (a \o b)[i] = b[i - Len(a)]
    BY <1>2, Elements
  <2>2. ASSUME NEW j \in DOMAIN b, i - Len(a) < j PROVE ~Decides(e, b[j])
    <3>1. Len(a) + j \in DOMAIN (a \o b) /\ (a \o b)[Len(a) + j] = b[j] /\ i < Len(a) + j
      BY <1>2, <2>2, Elements
    <3>2. QED
      BY <3>1
  <2>3. QED
    BY <1>2, <2>1, <2>2 DEF EndsRight
<1>3. QED
  BY <1>1, <1>2, Elements

\* The empty sequence and sequences of one operation.
LEMMA EmptyOps ==
    ASSUME NEW e
    PROVE  <<>> \in Seq(Ops) /\ Undecided(e, <<>>) /\ EndsRight(e, <<>>) /\ ~Effective(<<>>)
BY DEF Undecided, EndsRight, Effective

\* A single operation decides, and is effective, as such.
LEMMA OneOp ==
    ASSUME NEW e, NEW o \in Ops
    PROVE  /\ <<o>> \in Seq(Ops) /\ <<o>> # <<>>
           /\ Undecided(e, <<o>>) <=> ~Decides(e, o)
           /\ EndsRight(e, <<o>>) <=> (Decides(e, o) => Right(e, o))
           /\ 1 \in DOMAIN <<o>> /\ <<o>>[1] = o
           /\ Effective(<<o>>) <=> o.op # "send"
<1>1. <<o>> \in Seq(Ops) /\ <<o>> # <<>> /\ DOMAIN <<o>> = {1} /\ <<o>>[1] = o
  OBVIOUS
<1>2. QED
  BY <1>1 DEF Undecided, EndsRight, Effective

\* Two sequences of notifications are one.
LEMMA EffectiveConcat ==
    ASSUME NEW S, NEW a \in Seq(S), NEW b \in Seq(S), Effective(a \o b)
    PROVE  Effective(a) \/ Effective(b)
<1>1. PICK i \in DOMAIN (a \o b) : (a \o b)[i].op # "send"
  BY DEF Effective
<1>2. CASE i \in DOMAIN a
  <2>1. (a \o b)[i] = a[i]
    BY <1>2, Elements
  <2>2. QED
    BY <1>1, <1>2, <2>1 DEF Effective
<1>3. CASE i - Len(a) \in DOMAIN b /\ i > Len(a)
  <2>1. (a \o b)[i] = b[i - Len(a)]
    BY <1>3, Elements
  <2>2. QED
    BY <1>1, <1>3, <2>1 DEF Effective
<1>4. QED
  BY <1>1, <1>2, <1>3, Elements

-----------------------------------------------------------------------------
(* The operations a handler leaves *)

\* A view of the restriction; without a reason there is no level.
LEMMA ViewType ==
    ASSUME NEW v \in Views
    PROVE  v.level \in 0 .. 3 /\ (v.reason = None => v.level = 0)
<1>1. CASE v \in [reason : Reasons, level : Levels]
  <2>1. v.level \in Levels /\ v.reason \in Reasons
    BY <1>1
  <2>2. QED
    BY <2>1, LevelAssumption, NoneAssumption
<1>2. CASE v = [reason |-> None, level |-> 0]
  <2>1. v.level = 0
    BY <1>2
  <2>2. QED
    BY <2>1
<1>3. QED
  BY <1>1, <1>2 DEF Views

\* A notification decides nothing.
LEMMA SendOps ==
    ASSUME NEW e
    PROVE  Send \in Seq(Ops) /\ Undecided(e, Send) /\ EndsRight(e, Send) /\ ~Effective(Send)
<1>1. [op |-> "send"] \in Ops
  BY DEF Ops
<1>2. ~Decides(e, [op |-> "send"])
  BY DEF Decides
<1>3. QED
  BY <1>1, <1>2, OneOp DEF Send

\* A cancellation decides, and rightly unless a game is restricted.
LEMMA CancelOps ==
    ASSUME NEW e
    PROVE  /\ Cancel \in Seq(Ops) /\ ~Undecided(e, Cancel)
           /\ ~RestrictedIn(e) => EndsRight(e, Cancel)
           /\ \E i \in DOMAIN Cancel : Cancel[i].op = "cancel"
<1>1. [op |-> "cancel"] \in Ops
  BY DEF Ops
<1>2. Decides(e, [op |-> "cancel"]) /\ (~RestrictedIn(e) => Right(e, [op |-> "cancel"]))
  BY DEF Decides, Right
<1>3. QED
  BY <1>1, <1>2, OneOp DEF Cancel

\* Where the engine neither restricts a game nor lacks a reason, every decision is
\* right: with a game anything is, and without one only a cancellation decides.
LEMMA AnyEndsRight ==
    ASSUME NEW e, NEW ops, ~RestrictedIn(e), e.view.reason # None
    PROVE  EndsRight(e, ops)
BY DEF EndsRight, Right, Decides, NoCauseIn

\* What _refresh_restriction leaves is right for the view it arrives at, and without
\* a decision only when the view stays or asks for nothing.
LEMMA ChangeOps ==
    ASSUME NEW e, NEW old \in Views, NEW new \in Views, NEW n \in BOOLEAN, e.view = new
    PROVE  /\ Change(old, new, n) \in Seq(Ops)
           /\ EndsRight(e, Change(old, new, n))
           /\ Undecided(e, Change(old, new, n)) =>
                 old = new \/ (~RestrictedIn(e) /\ new.reason # None)
           /\ old = new => ~Effective(Change(old, new, n))
<1> DEFINE a == IF n THEN Send ELSE <<>>
<1> DEFINE b == IF old = new THEN <<>>
                ELSE IF new.reason = None THEN Cancel
                ELSE IF new.level = 0 THEN <<>>
                ELSE <<[op |-> "activated", level |-> new.level]>>
<1>0. Change(old, new, n) = a \o b
  BY DEF Change
<1>1. a \in Seq(Ops) /\ Undecided(e, a) /\ EndsRight(e, a) /\ ~Effective(a)
  BY SendOps, EmptyOps
<1>2. /\ b \in Seq(Ops) /\ EndsRight(e, b)
      /\ Undecided(e, b) => old = new \/ (~RestrictedIn(e) /\ new.reason # None)
      /\ old = new => ~Effective(b)
  <2>1. CASE old = new
    BY <2>1, EmptyOps
  <2>2. CASE old # new /\ new.reason = None
    <3>1. ~RestrictedIn(e)
      BY <2>2, ViewType DEF RestrictedIn
    <3>2. QED
      BY <2>2, <3>1, CancelOps
  <2>3. CASE old # new /\ new.reason # None /\ new.level = 0
    <3>1. ~RestrictedIn(e)
      BY <2>3 DEF RestrictedIn
    <3>2. QED
      BY <2>3, <3>1, EmptyOps
  <2>4. CASE old # new /\ new.reason # None /\ new.level # 0
    <3> DEFINE o == [op |-> "activated", level |-> new.level]
    <3>1. new.level \in 1 .. 3
      BY <2>4, ViewType
    <3>2. o \in Ops
      BY <3>1 DEF Ops
    <3>3. o.op = "activated" /\ o.level = new.level
      OBVIOUS
    <3>4. b = <<o>>
      BY <2>4
    <3> HIDE DEF o
    <3>5. Decides(e, o) => Right(e, o)
      BY <2>4, <3>1, <3>3 DEF Decides, Right, RestrictedIn, NoCauseIn
    <3>6. ~Decides(e, o) => ~RestrictedIn(e)
      BY <3>3 DEF Decides, RestrictedIn
    <3>7. QED
      BY <2>4, <3>2, <3>4, <3>5, <3>6, OneOp
  <2>5. QED
    BY <2>1, <2>2, <2>3, <2>4
<1> HIDE DEF a, b
<1>3. a \o b \in Seq(Ops)
  BY <1>1, <1>2, Elements
<1>4. EndsRight(e, a \o b)
  BY <1>1, <1>2, EndsRightConcat
<1>5. Undecided(e, a \o b) => Undecided(e, b)
  BY <1>1, <1>2, UndecidedConcat
<1>6. Effective(a \o b) => Effective(b)
  BY <1>1, <1>2, EffectiveConcat
<1>7. QED
  BY <1>0, <1>2, <1>3, <1>4, <1>5, <1>6

\* The end of a game that was there is a cancellation.
LEMMA StoppedOps ==
    ASSUME NEW e, NEW game
    PROVE  /\ Stopped(game) \in Seq(Ops)
           /\ ~RestrictedIn(e) => EndsRight(e, Stopped(game))
           /\ Undecided(e, Stopped(game)) => game = None
           /\ game # None => \E i \in DOMAIN Stopped(game) : Stopped(game)[i].op = "cancel"
BY EmptyOps, CancelOps DEF Stopped

\* A new game under a restriction of level 2 or 3 arms, and rightly.
LEMMA LaunchedOps ==
    ASSUME NEW e, e.view \in Views, e.game # None
    PROVE  /\ Launched(e.view.level) \in Seq(Ops)
           /\ EndsRight(e, Launched(e.view.level))
           /\ Undecided(e, Launched(e.view.level)) <=> ~RestrictedIn(e)
<1> DEFINE l == e.view.level
<1> DEFINE o == [op |-> "launched", level |-> l]
<1>1. l \in 0 .. 3 /\ (e.view.reason = None => l = 0)
  BY ViewType
<1>2. CASE l < 2
  <2>1. Launched(l) = <<>> /\ ~RestrictedIn(e)
    BY <1>1, <1>2 DEF Launched, RestrictedIn
  <2>2. QED
    BY <2>1, EmptyOps
<1>3. CASE ~(l < 2)
  <2>1. Launched(l) = <<o>> /\ RestrictedIn(e) /\ l \in 2 .. 3
    BY <1>1, <1>3 DEF Launched, RestrictedIn
  <2>2. o \in Ops
    BY <2>1 DEF Ops
  <2>3. o.op = "launched" /\ o.level = e.view.level
    OBVIOUS
  <2> HIDE DEF o
  <2>4. Decides(e, o) /\ Right(e, o)
    BY <1>1, <2>1, <2>3 DEF Decides, Right, NoCauseIn
  <2>5. QED
    BY <2>1, <2>2, <2>4, OneOp
<1>4. QED
  BY <1>2, <1>3

-----------------------------------------------------------------------------
(* A handler *)

\* The operations of a tick, and of an RPC that ticks and changes the restriction.
LEMMA PolicyOps ==
    ASSUME NEW e, NEW v0 \in Views, NEW v1 \in Views, e.view \in Views,
           NEW n1 \in BOOLEAN, NEW n2 \in BOOLEAN, NEW ops,
           ops = Change(v0, v1, n1) \o Change(v1, e.view, n2)
    PROVE  /\ ops \in Seq(Ops)
           /\ EndsRight(e, ops)
           /\ Undecided(e, ops) => v0 = e.view \/ (~RestrictedIn(e) /\ e.view.reason # None)
           /\ Undecided(e, ops) /\ ~(~RestrictedIn(e) /\ e.view.reason # None) => ~Effective(ops)
<1> DEFINE a == Change(v0, v1, n1)
<1> DEFINE b == Change(v1, e.view, n2)
<1> DEFINE nothing == ~RestrictedIn(e) /\ e.view.reason # None
<1>1. /\ b \in Seq(Ops) /\ EndsRight(e, b)
      /\ Undecided(e, b) => v1 = e.view \/ nothing
      /\ v1 = e.view => ~Effective(b)
  BY ChangeOps
<1>2. a \in Seq(Ops)
  <2>1. [view |-> v1].view = v1
    OBVIOUS
  <2>2. QED
    BY <2>1, ChangeOps
<1>3. v1 = e.view => EndsRight(e, a) /\ (Undecided(e, a) => v0 = v1 \/ nothing)
                     /\ (v0 = v1 => ~Effective(a))
  BY ChangeOps
<1>4. nothing => EndsRight(e, a)
  BY AnyEndsRight
<1>5. ops = a \o b
  OBVIOUS
<1> HIDE DEF a, b, nothing
<1>6. ops \in Seq(Ops)
  BY <1>1, <1>2, <1>5, Elements
<1>7. EndsRight(e, ops)
  BY <1>1, <1>2, <1>3, <1>4, <1>5, EndsRightConcat
<1>8. Undecided(e, ops) => Undecided(e, a) /\ Undecided(e, b)
  BY <1>1, <1>2, <1>5, UndecidedConcat
<1>9. Effective(ops) => Effective(a) \/ Effective(b)
  BY <1>1, <1>2, <1>5, EffectiveConcat
<1>10. Undecided(e, ops) => nothing \/ (v1 = e.view /\ v0 = v1)
  BY <1>1, <1>3, <1>8
<1>11. QED
  BY <1>1, <1>3, <1>6, <1>7, <1>9, <1>10 DEF nothing

\* The judgements of the model are those of the engine's present state.
LEMMA PresentState ==
    /\ Restricted <=> RestrictedIn(eng)
    /\ NoCauseIn(eng) <=> (eng.game = None \/ eng.view.reason = None)
BY DEF Restricted, RestrictedIn, NoCauseIn

\* A flow for a game that has gone, while nothing is dispatched: there is none.
LEMMA NoFlowOfGoneGame ==
    ASSUME IInv, \A t \in Tasks : todo[t] = <<>>, eng.game = None
    PROVE  flow = None
<1>1. ASSUME flow # None PROVE FALSE
  <2>1. flow.game \in Games
    BY <1>1 DEF IInv, TypeOK, Flow
  <2>2. flow.game # eng.game
    BY <2>1, NoneAssumption
  <2>3. PICK t \in Tasks : \E i \in DOMAIN todo[t] : todo[t][i].op = "cancel"
    BY <1>1, <2>2 DEF IInv, GoneGameCancelled
  <2>4. QED
    BY <2>3
<1>2. QED
  BY <1>1

\* A handler that leaves the right operations, or none where none are needed.
LEMMA HandledIInv ==
    ASSUME IInv, NEW t \in Tasks, Idle(t),
           NEW new \in [game : Games \cup {None}, view : Views], NEW ops \in Seq(Ops),
           Handled(t, new, ops), opts' \in Options,
           EndsRight(new, ops),
           new.game # eng.game /\ eng.game # None =>
               \E i \in DOMAIN ops : ops[i].op = "cancel",
           Undecided(new, ops) =>
               \/ new = eng /\ ~Effective(ops)
               \/ ~RestrictedIn(new) /\ (NoCauseIn(new) => eng.game = None)
    PROVE  IInv'
<1>0. /\ eng' = new /\ flow' = flow /\ turn = None /\ todo[t] = <<>>
      /\ todo' = [todo EXCEPT ![t] = ops] /\ todo \in [Tasks -> Seq(Ops)]
  BY DEF Handled, Idle, IInv, TypeOK
<1>1. todo' \in [Tasks -> Seq(Ops)] /\ todo'[t] = ops /\ \A u \in Tasks \ {t} : todo'[u] = todo[u]
  BY <1>0
<1>2. TypeOK'
  <2>1. asked' \in BOOLEAN /\ overlap' \in BOOLEAN
    BY DEF IInv, TypeOK, Handled, Pending, Effective
  <2>2. turn' \in Tasks \cup {None}
    BY DEF Handled
  <2>3. QED
    BY <1>0, <1>1, <2>1, <2>2 DEF IInv, TypeOK
<1>3. WaitsForNotice'
  <2>1. turn' # None => todo'[turn'] # <<>>
    BY <1>1 DEF Handled
  <2>2. ASSUME NEW u \in Tasks \ {turn'}, todo'[u] # <<>> PROVE Head(todo'[u]).op = "send"
    <3>1. u # t
      BY <1>1, <2>2 DEF Handled
    <3>2. todo'[u] = todo[u] /\ u # turn
      BY <1>0, <1>1, <3>1, NoneAssumption
    <3>3. QED
      BY <2>2, <3>2 DEF IInv, WaitsForNotice
  <2>3. QED
    BY <2>1, <2>2 DEF WaitsForNotice
<1>4. GoneGameCancelled'
  <2> SUFFICES ASSUME flow # None, flow.game # new.game
               PROVE  \E u \in Tasks : \E i \in DOMAIN todo'[u] : todo'[u][i].op = "cancel"
    BY <1>0 DEF GoneGameCancelled
  <2>1. CASE new.game # eng.game /\ eng.game # None
    BY <1>1, <2>1
  <2>2. CASE new.game = eng.game \/ eng.game = None
    <3>1. flow.game # eng.game
      <4>1. flow.game \in Games
        BY DEF IInv, TypeOK, Flow
      <4>2. QED
        BY <2>2, <4>1, NoneAssumption
    <3>2. PICK u \in Tasks : \E i \in DOMAIN todo[u] : todo[u][i].op = "cancel"
      BY <3>1 DEF IInv, GoneGameCancelled
    <3>3. u # t
      BY <1>0, <3>2
    <3>4. QED
      BY <1>1, <3>2, <3>3
  <2>3. QED
    BY <2>1, <2>2
<1>5. NotOvertaken'
  <2> SUFFICES ASSUME ~overlap'
               PROVE  /\ \A u, w \in Tasks : todo'[u] # <<>> /\ todo'[w] # <<>> => u = w
                      /\ \A u \in Tasks : EndsRight(new, todo'[u])
                      /\ (\A u \in Tasks : Undecided(new, todo'[u])) => Settled'
    BY <1>0 DEF NotOvertaken
  <2>1. \A u \in Tasks : todo[u] = <<>>
    BY <1>0 DEF Handled, Pending
  <2>2. \A u \in Tasks \ {t} : todo'[u] = <<>>
    BY <1>1, <2>1
  <2>3. \A u \in Tasks : EndsRight(new, todo'[u])
    BY <1>1, <2>2, EmptyOps
  <2>4. ASSUME \A u \in Tasks : Undecided(new, todo'[u]) PROVE Settled'
    <3>1. Undecided(new, ops)
      BY <1>1, <2>4
    <3>2. CASE new = eng /\ ~Effective(ops)
      <4>1. ~overlap /\ (asked' <=> asked)
        BY <3>2 DEF Handled, IInv, TypeOK
      <4>2. \A u \in Tasks : Undecided(eng, todo[u])
        BY <2>1, EmptyOps
      <4>3. Settled
        BY <4>1, <4>2 DEF IInv, NotOvertaken
      <4>4. QED
        BY <1>0, <3>2, <4>1, <4>3 DEF Settled, Restricted, NoCauseIn
    <3>3. CASE ~RestrictedIn(new) /\ (NoCauseIn(new) => eng.game = None)
      <4>1. NoCauseIn(new) => flow = None
        BY <2>1, <3>3, NoFlowOfGoneGame
      <4>2. QED
        BY <1>0, <3>3, <4>1 DEF Settled, Restricted, RestrictedIn, NoCauseIn
    <3>4. QED
      BY <3>1, <3>2, <3>3
  <2>5. QED
    BY <2>2, <2>3, <2>4
<1>6. QED
  BY <1>2, <1>3, <1>4, <1>5 DEF IInv

\* A tick, an RPC, a change of the settings.
LEMMA PolicyIInv ==
    ASSUME IInv, NEW t \in Tasks, Idle(t), Policy(t), opts' \in Options
    PROVE  IInv'
<1>1. PICK v1 \in Views, v2 \in Views, n1 \in BOOLEAN, n2 \in BOOLEAN :
         Handled(t, [eng EXCEPT !.view = v2], Change(eng.view, v1, n1) \o Change(v1, v2, n2))
  BY DEF Policy
<1> DEFINE new == [eng EXCEPT !.view = v2]
<1> DEFINE ops == Change(eng.view, v1, n1) \o Change(v1, v2, n2)
<1>2. /\ eng \in [game : Games \cup {None}, view : Views] /\ eng.view \in Views
  BY DEF IInv, TypeOK
<1>3. /\ new \in [game : Games \cup {None}, view : Views]
      /\ new.view = v2 /\ new.game = eng.game /\ (eng.view = v2 => new = eng)
  BY <1>2
<1>4. Handled(t, new, ops)
  BY <1>1
<1>5. ops = Change(eng.view, v1, n1) \o Change(v1, new.view, n2)
  BY <1>3
<1> HIDE DEF new, ops
<1>6. /\ ops \in Seq(Ops)
      /\ EndsRight(new, ops)
      /\ Undecided(new, ops) => eng.view = new.view \/ (~RestrictedIn(new) /\ new.view.reason # None)
      /\ Undecided(new, ops) /\ ~(~RestrictedIn(new) /\ new.view.reason # None) => ~Effective(ops)
  BY <1>2, <1>3, <1>5, PolicyOps
<1>7. Undecided(new, ops) =>
        \/ new = eng /\ ~Effective(ops)
        \/ ~RestrictedIn(new) /\ (NoCauseIn(new) => eng.game = None)
  BY <1>3, <1>6 DEF NoCauseIn
<1>8. QED
  BY <1>3, <1>4, <1>6, <1>7, HandledIInv

\* A tick or an RPC.
LEMMA PolicyHandlerIInv ==
    ASSUME IInv, NEW t \in Tasks, PolicyHandler(t) PROVE IInv'
BY PolicyIInv DEF PolicyHandler, IInv, TypeOK

\* config.update.
LEMMA ConfigUpdatedIInv ==
    ASSUME IInv, NEW t \in Tasks, ConfigUpdated(t) PROVE IInv'
BY PolicyIInv DEF ConfigUpdated

\* set_game.
LEMMA GameReportedIInv ==
    ASSUME IInv, NEW t \in Tasks, GameReported(t) PROVE IInv'
<1>1. PICK g \in Games, v \in Views, n \in BOOLEAN :
        Handled(t, [game |-> g, view |-> v],
                Change(eng.view, v, n)
                \o IF g = eng.game THEN <<>> ELSE Stopped(eng.game) \o Launched(v.level))
  BY DEF GameReported
<1> DEFINE new == [game |-> g, view |-> v]
<1> DEFINE a == Change(eng.view, v, n)
<1> DEFINE s == Stopped(eng.game)
<1> DEFINE l == Launched(v.level)
<1> DEFINE b == IF g = eng.game THEN <<>> ELSE s \o l
<1> DEFINE ops == a \o b
<1>2. eng \in [game : Games \cup {None}, view : Views] /\ eng.view \in Views
  BY DEF IInv, TypeOK
<1>3. /\ new \in [game : Games \cup {None}, view : Views]
      /\ new.view = v /\ new.game = g /\ g # None
      /\ eng.view = v /\ g = eng.game => new = eng
  BY <1>2, NoneAssumption
<1>4. Handled(t, new, ops) /\ Idle(t) /\ opts' \in Options
  BY <1>1 DEF GameReported, IInv, TypeOK
<1> HIDE DEF new
<1>5. /\ a \in Seq(Ops) /\ EndsRight(new, a)
      /\ Undecided(new, a) => eng.view = v \/ (~RestrictedIn(new) /\ v.reason # None)
      /\ eng.view = v => ~Effective(a)
  BY <1>2, <1>3, ChangeOps
<1>6. /\ s \in Seq(Ops)
      /\ ~RestrictedIn(new) => EndsRight(new, s)
      /\ Undecided(new, s) => eng.game = None
      /\ eng.game # None => \E i \in DOMAIN s : s[i].op = "cancel"
  BY StoppedOps
<1>7. /\ l \in Seq(Ops) /\ EndsRight(new, l)
      /\ Undecided(new, l) <=> ~RestrictedIn(new)
  BY <1>3, LaunchedOps
<1> HIDE DEF a, s, l
<1>8. CASE g = eng.game
  <2>1. ops = a
    BY <1>5, <1>8
  <2>2. Undecided(new, ops) =>
          \/ new = eng /\ ~Effective(ops)
          \/ ~RestrictedIn(new) /\ (NoCauseIn(new) => eng.game = None)
    BY <1>3, <1>5, <1>8, <2>1 DEF NoCauseIn
  <2> HIDE DEF ops
  <2>3. QED
    BY <1>3, <1>4, <1>5, <1>8, <2>1, <2>2, HandledIInv
<1>9. CASE g # eng.game
  <2>1. b = s \o l
    BY <1>9
  <2> HIDE DEF b
  <2>2. b \in Seq(Ops) /\ EndsRight(new, b)
    BY <1>6, <1>7, <2>1, Elements, EndsRightConcat
  <2>3. Undecided(new, b) => ~RestrictedIn(new) /\ eng.game = None
    BY <1>6, <1>7, <2>1, UndecidedConcat
  <2>4. eng.game # None => \E i \in DOMAIN ops : ops[i].op = "cancel"
    <3>1. SUFFICES ASSUME eng.game # None PROVE \E i \in DOMAIN ops : ops[i].op = "cancel"
      OBVIOUS
    <3>2. PICK i \in DOMAIN s : s[i].op = "cancel"
      BY <1>6, <3>1
    <3>3. i \in DOMAIN b /\ b[i] = s[i]
      BY <1>6, <1>7, <2>1, <3>2, Elements
    <3>4. Len(a) + i \in DOMAIN ops /\ ops[Len(a) + i] = b[i]
      BY <1>5, <2>2, <3>3, Elements
    <3>5. QED
      BY <3>2, <3>3, <3>4
  <2>5. ops \in Seq(Ops) /\ EndsRight(new, ops)
    BY <1>5, <2>2, Elements, EndsRightConcat
  <2>6. Undecided(new, ops) => Undecided(new, b)
    BY <1>5, <2>2, UndecidedConcat
  <2> HIDE DEF ops
  <2>7. QED
    BY <1>3, <1>4, <2>3, <2>4, <2>5, <2>6, HandledIInv
<1>10. QED
  BY <1>8, <1>9

\* clear_game.
LEMMA GameClearedIInv ==
    ASSUME IInv, NEW t \in Tasks, GameCleared(t) PROVE IInv'
<1>1. PICK v \in Views, n \in BOOLEAN :
        Handled(t, [game |-> None, view |-> v], Change(eng.view, v, n) \o Stopped(eng.game))
  BY DEF GameCleared
<1> DEFINE new == [game |-> None, view |-> v]
<1> DEFINE a == Change(eng.view, v, n)
<1> DEFINE s == Stopped(eng.game)
<1> DEFINE ops == a \o s
<1>2. eng.view \in Views
  BY DEF IInv, TypeOK
<1>3. /\ new \in [game : Games \cup {None}, view : Views]
      /\ new.view = v /\ ~RestrictedIn(new)
  BY DEF RestrictedIn
<1>4. Handled(t, new, ops) /\ Idle(t) /\ opts' \in Options
  BY <1>1 DEF GameCleared, IInv, TypeOK
<1> HIDE DEF new
<1>5. a \in Seq(Ops) /\ EndsRight(new, a)
  BY <1>2, <1>3, ChangeOps
<1>6. /\ s \in Seq(Ops) /\ EndsRight(new, s)
      /\ Undecided(new, s) => eng.game = None
      /\ eng.game # None => \E i \in DOMAIN s : s[i].op = "cancel"
  BY <1>3, StoppedOps
<1> HIDE DEF a, s
<1>7. ops \in Seq(Ops) /\ EndsRight(new, ops)
  BY <1>5, <1>6, Elements, EndsRightConcat
<1>8. Undecided(new, ops) => eng.game = None
  BY <1>5, <1>6, UndecidedConcat
<1>9. eng.game # None => \E i \in DOMAIN ops : ops[i].op = "cancel"
  <2>1. SUFFICES ASSUME eng.game # None PROVE \E i \in DOMAIN ops : ops[i].op = "cancel"
    OBVIOUS
  <2>2. PICK i \in DOMAIN s : s[i].op = "cancel"
    BY <1>6, <2>1
  <2>3. Len(a) + i \in DOMAIN ops /\ ops[Len(a) + i] = s[i]
    BY <1>5, <1>6, Elements
  <2>4. QED
    BY <2>2, <2>3
<1> HIDE DEF ops
<1>10. QED
  BY <1>3, <1>4, <1>7, <1>8, <1>9, HandledIInv

-----------------------------------------------------------------------------
(* Dispatch *)

\* What is left after the first operation.
LEMMA RestDecides ==
    ASSUME NEW e, NEW ops \in Seq(Ops), ops # <<>>
    PROVE  /\ EndsRight(e, ops) => EndsRight(e, Tail(ops))
           /\ Undecided(e, Tail(ops)) /\ ~Decides(e, Head(ops)) => Undecided(e, ops)
           /\ Undecided(e, Tail(ops)) /\ Decides(e, Head(ops)) /\ EndsRight(e, ops) =>
                 Right(e, Head(ops))
<1>0. /\ Head(ops) = ops[1] /\ 1 \in DOMAIN ops
      /\ \A i \in DOMAIN Tail(ops) : i + 1 \in DOMAIN ops /\ Tail(ops)[i] = ops[i + 1]
      /\ \A i \in DOMAIN ops : i = 1 \/ (i - 1 \in DOMAIN Tail(ops) /\ i > 1)
      /\ DOMAIN ops \subseteq Nat /\ DOMAIN Tail(ops) \subseteq Nat
  BY Rest
<1>1. \A i \in DOMAIN ops : i # 1 => i - 1 \in DOMAIN Tail(ops) /\ Tail(ops)[i - 1] = ops[i]
  BY <1>0
<1>2. ASSUME EndsRight(e, ops), NEW i \in DOMAIN Tail(ops), Decides(e, Tail(ops)[i]),
             \A j \in DOMAIN Tail(ops) : i < j => ~Decides(e, Tail(ops)[j])
      PROVE  Right(e, Tail(ops)[i])
  <2>1. i + 1 \in DOMAIN ops /\ Tail(ops)[i] = ops[i + 1]
    BY <1>0
  <2>2. ASSUME NEW j \in DOMAIN ops, i + 1 < j PROVE ~Decides(e, ops[j])
    <3>1. j - 1 \in DOMAIN Tail(ops) /\ Tail(ops)[j - 1] = ops[j] /\ i < j - 1
      BY <1>0, <1>1, <2>2
    <3>2. QED
      BY <1>2, <3>1
  <2>3. QED
    BY <1>2, <2>1, <2>2 DEF EndsRight
<1>3. ASSUME Undecided(e, Tail(ops)), ~Decides(e, Head(ops)) PROVE Undecided(e, ops)
  BY <1>0, <1>1, <1>3 DEF Undecided
<1>4. ASSUME Undecided(e, Tail(ops)), Decides(e, Head(ops)), EndsRight(e, ops)
      PROVE  Right(e, Head(ops))
  <2>1. ASSUME NEW j \in DOMAIN ops, 1 < j PROVE ~Decides(e, ops[j])
    BY <1>0, <1>1, <1>4, <2>1 DEF Undecided
  <2>2. QED
    BY <1>0, <1>4, <2>1 DEF EndsRight
<1>5. QED
  BY <1>2, <1>3, <1>4 DEF EndsRight

\* The flow after one operation: its type, and what it was armed for.
LEMMA DispatchedFlow ==
    ASSUME TypeOK, NEW o \in Ops
    PROVE  /\ Dispatched(o) \in Flow \cup {None}
           /\ o.op = "cancel" => Dispatched(o) = None
           /\ ~Decides(eng, o) => Dispatched(o) = flow
           /\ Decides(eng, o) /\ o.op # "cancel" =>
                 /\ Dispatched(o) \in Flow
                 /\ Dispatched(o).game = eng.game /\ Dispatched(o).phase = "grace"
                 /\ o.level <= eng.view.level => Dispatched(o).level <= eng.view.level
<1>0. eng.game \in Games \cup {None} /\ eng.view \in Views /\ flow \in Flow \cup {None}
  BY DEF TypeOK
<1>1. eng.view.level \in 0 .. 3
  BY <1>0, ViewType
<1>2. ASSUME eng.game # None, NEW level \in 2 .. 3
      PROVE  /\ Armed(eng.game, level) \in Flow
             /\ Armed(eng.game, level).game = eng.game
             /\ Armed(eng.game, level).phase = "grace"
             /\ Armed(eng.game, level).level = level
  <2>1. opts.fallback \in BOOLEAN /\ opts.force \in BOOLEAN
    BY OptionAssumption DEF TypeOK
  <2>2. QED
    BY <1>0, <1>2, <2>1 DEF Armed, Flow, Phases
<1>3. CASE o.op = "send"
  BY <1>0, <1>3 DEF Dispatched, Decides
<1>4. CASE o.op = "cancel"
  BY <1>4 DEF Dispatched, Decides
<1>5. CASE o.op = "activated"
  <2>1. o.level \in 1 .. 3
    BY <1>5 DEF Ops
  <2>2. Dispatched(o) = IF eng.game # None /\ o.level >= 2 THEN Armed(eng.game, o.level) ELSE flow
    BY <1>5 DEF Dispatched
  <2>3. QED
    BY <1>0, <1>2, <1>5, <2>1, <2>2 DEF Decides
<1>6. CASE o.op = "launched"
  <2>1. o.level \in 2 .. 3
    BY <1>6 DEF Ops
  <2>2. MaxOf(o.level, eng.view.level) \in 2 .. 3
        /\ (o.level <= eng.view.level => MaxOf(o.level, eng.view.level) <= eng.view.level)
    BY <1>1, <2>1 DEF MaxOf
  <2>3. Dispatched(o) = IF eng.game # None
                        THEN Armed(eng.game, MaxOf(o.level, eng.view.level)) ELSE flow
    BY <1>6 DEF Dispatched
  <2>4. QED
    BY <1>0, <1>2, <1>6, <2>2, <2>3 DEF Decides
<1>7. QED
  BY <1>3, <1>4, <1>5, <1>6 DEF Ops

\* A task takes its first operation off: common to a dispatch and to the end of
\* notify-send.
LEMMA TakenOff ==
    ASSUME IInv, NEW t \in Tasks, todo[t] # <<>>, turn \in {t, None},
           todo' = [todo EXCEPT ![t] = Tail(@)],
           turn' = IF Tail(todo[t]) = <<>> THEN None ELSE t,
           UNCHANGED <<eng, opts, asked, overlap>>,
           flow' = Dispatched(Head(todo[t]))
    PROVE  IInv'
<1> DEFINE ops == todo[t]
<1> DEFINE o == Head(ops)
<1>0. todo \in [Tasks -> Seq(Ops)] /\ ops \in Seq(Ops)
  BY DEF IInv, TypeOK
<1>1. /\ o \in Ops /\ Tail(ops) \in Seq(Ops) /\ o = ops[1]
      /\ \A i \in DOMAIN Tail(ops) : i + 1 \in DOMAIN ops /\ Tail(ops)[i] = ops[i + 1]
      /\ \A i \in DOMAIN ops : i = 1 \/ (i - 1 \in DOMAIN Tail(ops) /\ i > 1)
      /\ DOMAIN ops \subseteq Nat
  BY <1>0, Rest
<1>2. todo' \in [Tasks -> Seq(Ops)] /\ todo'[t] = Tail(ops)
      /\ \A u \in Tasks \ {t} : todo'[u] = todo[u]
  BY <1>0, <1>1
<1>3. /\ flow' \in Flow \cup {None}
      /\ o.op = "cancel" => flow' = None
      /\ ~Decides(eng, o) => flow' = flow
      /\ Decides(eng, o) /\ o.op # "cancel" =>
            /\ flow' \in Flow
            /\ flow'.game = eng.game /\ flow'.phase = "grace"
            /\ o.level <= eng.view.level => flow'.level <= eng.view.level
  BY <1>1, DispatchedFlow DEF IInv
<1> HIDE DEF o
<1>4. TypeOK'
  BY <1>2, <1>3 DEF IInv, TypeOK
<1>5. WaitsForNotice'
  <2>1. turn' # None => todo'[turn'] # <<>>
    BY <1>2
  <2>2. ASSUME NEW u \in Tasks \ {turn'}, todo'[u] # <<>> PROVE Head(todo'[u]).op = "send"
    <3>1. u # t
      BY <1>2, <2>2
    <3>2. todo'[u] = todo[u] /\ u # turn
      BY <1>2, <3>1, NoneAssumption
    <3>3. QED
      BY <2>2, <3>2 DEF IInv, WaitsForNotice
  <2>3. QED
    BY <2>1, <2>2 DEF WaitsForNotice
<1>6. GoneGameCancelled'
  <2> SUFFICES ASSUME flow' # None, flow'.game # eng.game
               PROVE  \E u \in Tasks : \E i \in DOMAIN todo'[u] : todo'[u][i].op = "cancel"
    BY DEF GoneGameCancelled
  <2>1. o.op # "cancel" /\ flow' = flow
    BY <1>3
  <2>2. PICK u \in Tasks : \E i \in DOMAIN todo[u] : todo[u][i].op = "cancel"
    BY <2>1 DEF IInv, GoneGameCancelled
  <2>3. CASE u # t
    BY <1>2, <2>2, <2>3
  <2>4. CASE u = t
    <3>1. PICK i \in DOMAIN ops : ops[i].op = "cancel"
      BY <2>2, <2>4
    <3>2. i # 1
      BY <1>1, <2>1, <3>1
    <3>3. i - 1 \in DOMAIN Tail(ops) /\ Tail(ops)[i - 1] = ops[i]
      BY <1>1, <3>2
    <3>4. QED
      BY <1>2, <3>1, <3>3
  <2>5. QED
    BY <2>3, <2>4
<1>7. NotOvertaken'
  <2> SUFFICES ASSUME ~overlap
               PROVE  /\ \A u, w \in Tasks : todo'[u] # <<>> /\ todo'[w] # <<>> => u = w
                      /\ \A u \in Tasks : EndsRight(eng, todo'[u])
                      /\ (\A u \in Tasks : Undecided(eng, todo'[u])) => Settled'
    BY DEF NotOvertaken
  <2>0. /\ \A u, w \in Tasks : todo[u] # <<>> /\ todo[w] # <<>> => u = w
        /\ \A u \in Tasks : EndsRight(eng, todo[u])
        /\ (\A u \in Tasks : Undecided(eng, todo[u])) => Settled
    BY DEF IInv, NotOvertaken
  <2>1. \A u \in Tasks \ {t} : todo[u] = <<>> /\ todo'[u] = <<>>
    BY <1>2, <2>0
  <2>2. EndsRight(eng, Tail(ops))
    BY <1>0, <2>0, RestDecides
  <2>3. \A u \in Tasks : EndsRight(eng, todo'[u])
    BY <1>2, <2>1, <2>2, EmptyOps
  <2>4. ASSUME Undecided(eng, Tail(ops)) PROVE Settled'
    <3>1. CASE ~Decides(eng, o)
      <4>1. Undecided(eng, ops)
        BY <1>0, <2>4, <3>1, RestDecides DEF o
      <4>2. Settled
        BY <2>0, <2>1, <4>1, EmptyOps
      <4>3. QED
        BY <1>3, <3>1, <4>2 DEF Settled, Restricted, NoCauseIn
    <3>2. CASE Decides(eng, o)
      <4>1. Right(eng, o)
        BY <1>0, <2>0, <2>4, <3>2, RestDecides DEF o
      <4>2. NoCauseIn(eng) => flow' = None
        BY <1>3, <4>1 DEF Right
      <4>3. Restricted => flow' # None /\ flow'.phase = "grace"
                          /\ flow'.game = eng.game /\ flow'.level <= eng.view.level
        BY <1>3, <3>2, <4>1, PresentState, NoneAssumption DEF Right
      <4>4. QED
        BY <4>2, <4>3 DEF Settled, Restricted, NoCauseIn
    <3>3. QED
      BY <3>1, <3>2
  <2>5. QED
    BY <1>2, <2>1, <2>3, <2>4
<1>8. QED
  BY <1>4, <1>5, <1>6, <1>7 DEF IInv

\* An event is dispatched.
LEMMA DispatchIInv ==
    ASSUME IInv, NEW t \in Tasks, Dispatch(t) PROVE IInv'
<1>1. todo[t] # <<>>
  BY NoneAssumption DEF IInv, WaitsForNotice, Dispatch
<1>2. QED
  BY <1>1, TakenOff DEF Dispatch

\* notify-send is started.
LEMMA NotifyIInv ==
    ASSUME IInv, NEW t \in Tasks, Notify(t) PROVE IInv'
<1>1. TypeOK'
  BY DEF IInv, TypeOK, Notify
<1>2. WaitsForNotice'
  BY DEF IInv, WaitsForNotice, Notify
<1>3. GoneGameCancelled'
  BY DEF IInv, GoneGameCancelled, Notify
<1>4. NotOvertaken'
  BY DEF IInv, NotOvertaken, Settled, Restricted, Notify
<1>5. QED
  BY <1>1, <1>2, <1>3, <1>4 DEF IInv

\* notify-send has ended: what is taken off is the notification.
LEMMA NotifiedIInv ==
    ASSUME IInv, NEW t \in Tasks, Notified(t) PROVE IInv'
<1>1. Head(todo[t]).op = "send"
  BY NoneAssumption DEF IInv, WaitsForNotice, Notified
<1>2. flow' = Dispatched(Head(todo[t]))
  BY <1>1 DEF Notified, Dispatched
<1>3. QED
  BY <1>2, TakenOff DEF Notified

-----------------------------------------------------------------------------
(* The flow *)

\* A step of the flow with the loop free: it changes neither the game nor the level
\* it is for, or ends; it ends only when it does not apply, or has asked.
LEMMA FlowStepIInv ==
    ASSUME IInv, UNCHANGED <<eng, opts, todo, turn, overlap>>, flow # None,
           asked' \in BOOLEAN, asked => asked',
           \/ flow' = None
           \/ flow' \in Flow /\ flow'.game = flow.game /\ flow'.level = flow.level,
           \/ asked'
           \/ flow' = None /\ ~Applicable
           \/ flow.phase # "grace"
    PROVE  IInv'
<1>1. TypeOK'
  BY DEF IInv, TypeOK
<1>2. WaitsForNotice'
  BY DEF IInv, WaitsForNotice
<1>3. GoneGameCancelled'
  BY DEF IInv, GoneGameCancelled
<1>4. NotOvertaken'
  <2> SUFFICES ASSUME ~overlap, \A t \in Tasks : Undecided(eng, todo[t]) PROVE Settled'
    BY DEF IInv, NotOvertaken
  <2>1. Settled
    BY DEF IInv, NotOvertaken
  <2>2. Restricted => asked'
    BY <2>1 DEF Settled, Applicable
  <2>3. ~NoCauseIn(eng)
    BY <2>1 DEF Settled
  <2>4. QED
    BY <2>2, <2>3 DEF Settled, Restricted, NoCauseIn
<1>5. QED
  BY <1>1, <1>2, <1>3, <1>4 DEF IInv

\* A flow that goes on keeps its game and its level.
LEMMA PhaseType ==
    ASSUME TypeOK, flow # None, NEW phase \in Phases
    PROVE  LET next == [flow EXCEPT !.phase = phase]
           IN  next \in Flow /\ next.game = flow.game /\ next.level = flow.level
BY DEF TypeOK, Flow

\* _run, to its end or to its next await.
LEMMA FlowIInv ==
    ASSUME IInv, GiveUp \/ GraceEnds \/ CloseTimesOut \/ Terminate \/ TermTimesOut \/ Kill
    PROVE  IInv'
<1>0. asked \in BOOLEAN /\ TypeOK
  BY DEF IInv, TypeOK
<1>1. CASE GiveUp
  BY <1>0, <1>1, FlowStepIInv DEF GiveUp, In, Finish
<1>2. CASE GraceEnds
  <2>1. flow # None /\ "closing" \in Phases
    BY <1>2 DEF GraceEnds, In, Phases
  <2>2. QED
    BY <1>0, <1>2, <2>1, PhaseType, FlowStepIInv DEF GraceEnds, In, Goto
<1>3. CASE CloseTimesOut
  <2>1. flow # None /\ flow.phase # "grace" /\ "term" \in Phases
    BY <1>3 DEF CloseTimesOut, In, Phases
  <2>2. CASE flow.fallback
    BY <1>0, <1>3, <2>1, <2>2, PhaseType, FlowStepIInv DEF CloseTimesOut, Goto
  <2>3. CASE ~flow.fallback
    BY <1>0, <1>3, <2>1, <2>3, FlowStepIInv DEF CloseTimesOut, Finish
  <2>4. QED
    BY <2>2, <2>3
<1>4. CASE Terminate
  <2>1. flow # None /\ flow.phase # "grace" /\ "waiting" \in Phases
    BY <1>4 DEF Terminate, In, Phases
  <2>2. QED
    BY <1>0, <1>4, <2>1, PhaseType, FlowStepIInv DEF Terminate, Goto
<1>5. CASE TermTimesOut
  <2>1. flow # None /\ flow.phase # "grace" /\ "kill" \in Phases
    BY <1>5 DEF TermTimesOut, In, Phases
  <2>2. CASE flow.force
    BY <1>0, <1>5, <2>1, <2>2, PhaseType, FlowStepIInv DEF TermTimesOut, Goto
  <2>3. CASE ~flow.force
    BY <1>0, <1>5, <2>1, <2>3, FlowStepIInv DEF TermTimesOut, Finish
  <2>4. QED
    BY <2>2, <2>3
<1>6. CASE Kill
  <2>1. flow # None /\ flow.phase # "grace"
    BY <1>6 DEF Kill, In
  <2>2. QED
    BY <1>0, <1>6, <2>1, FlowStepIInv DEF Kill, Finish
<1>7. QED
  BY <1>1, <1>2, <1>3, <1>4, <1>5, <1>6

-----------------------------------------------------------------------------
(* Theorems *)

\* The service starts without a game, with nothing to dispatch and no flow.
LEMMA InitIInv == Init => IInv
<1> SUFFICES ASSUME Init PROVE IInv
  OBVIOUS
<1>1. \A t \in Tasks : todo[t] = <<>>
  BY DEF Init
<1>2. TypeOK
  BY EmptyOps DEF Init, TypeOK
<1>3. WaitsForNotice /\ GoneGameCancelled
  BY <1>1 DEF Init, WaitsForNotice, GoneGameCancelled
<1>4. \A t \in Tasks : EndsRight(eng, todo[t])
  BY <1>1, EmptyOps
<1>5. Settled
  BY DEF Init, Settled, Restricted
<1>6. QED
  BY <1>1, <1>2, <1>3, <1>4, <1>5 DEF IInv, NotOvertaken

\* Every step of the service keeps the inductive invariant.
LEMMA NextIInv == IInv /\ [Next]_vars => IInv'
<1> SUFFICES ASSUME IInv, [Next]_vars PROVE IInv'
  OBVIOUS
<1>1. ASSUME NEW t \in Tasks,
             PolicyHandler(t) \/ ConfigUpdated(t) \/ GameReported(t) \/ GameCleared(t)
      PROVE  IInv'
  BY <1>1, PolicyHandlerIInv, ConfigUpdatedIInv, GameReportedIInv, GameClearedIInv
<1>2. ASSUME NEW t \in Tasks, Dispatch(t) \/ Notify(t) \/ Notified(t) PROVE IInv'
  BY <1>2, DispatchIInv, NotifyIInv, NotifiedIInv
<1>3. CASE GiveUp \/ GraceEnds \/ CloseTimesOut \/ Terminate \/ TermTimesOut \/ Kill
  BY <1>3, FlowIInv
<1>4. CASE UNCHANGED vars
  BY <1>4 DEF IInv, TypeOK, WaitsForNotice, GoneGameCancelled, NotOvertaken, Settled, Restricted,
              vars
<1>5. QED
  BY <1>1, <1>2, <1>3, <1>4 DEF Next

\* The inductive invariant holds in every reachable state.
THEOREM Invariance == Spec => []IInv
BY InitIInv, NextIInv, PTL DEF Spec

\* Every operation waiting for dispatch and every flow has a level its event can
\* carry.
THEOREM TypeCorrect == Spec => []TypeOK
<1>1. IInv => TypeOK
  BY DEF IInv
<1>2. QED
  BY <1>1, Invariance, PTL

\* With everything dispatched and no overtaking, the flow is right.
LEMMA QuiescentSettled == IInv /\ Quiescent /\ ~overlap => Settled
<1> SUFFICES ASSUME IInv, Quiescent, ~overlap PROVE Settled
  OBVIOUS
<1>1. \A t \in Tasks : Undecided(eng, todo[t])
  BY EmptyOps DEF Quiescent
<1>2. QED
  BY <1>1 DEF IInv, NotOvertaken

\* service.py and enforcement.py: no sequence of reports, restrictions and late flows
\* loses the pursuit of a restricted game, unless a handler overtakes a dispatch.
THEOREM PursuitIsKept == Spec => []PursuedUnlessOvertaken
<1>1. IInv => PursuedUnlessOvertaken
  BY QuiescentSettled DEF PursuedUnlessOvertaken, Settled, Pursued
<1>2. QED
  BY <1>1, Invariance, PTL

\* Nor does one leave a flow for a game that has gone, or without a reason.
THEOREM FlowsHaveCause == Spec => []NoFlowWithoutCause
<1>1. IInv => NoFlowWithoutCause
  BY QuiescentSettled DEF NoFlowWithoutCause, Settled, NoCauseIn
<1>2. QED
  BY <1>1, Invariance, PTL

\* Overtaken or not, once everything is dispatched the manager pursues no game but
\* the present one: each end of a game leaves a cancellation behind.
THEOREM OnlyPresentGamePursued == Spec => []FlowOfPresentGame
<1>1. IInv => FlowOfPresentGame
  BY DEF IInv, GoneGameCancelled, FlowOfPresentGame, Quiescent
<1>2. QED
  BY <1>1, Invariance, PTL

=============================================================================
