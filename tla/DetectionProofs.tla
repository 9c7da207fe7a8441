-------------------------- MODULE DetectionProofs --------------------------
(***************************************************************************)
(* When all is seen and nothing went wrong, the game that is timed is one  *)
(* that runs, and a game that runs is timed.  Neither is inductive, since  *)
(* both speak of settled states only.  DetInv says what is owed in every   *)
(* state:                                                                  *)
(*   Queued      what the events that wait will leave is what the source   *)
(*               in charge reported, so that a stop never hits a game it   *)
(*               is not about                                              *)
(*   Followed    of a game that is not listed, whatever the reader knows   *)
(*               or will be told also ends in lines it has not read        *)
(*   Sequential  while games run one at a time, where in the unread lines  *)
(*               the one that is listed starts, with all before it ended   *)
(*   Reported    the plugin's word is of the present, or a report is due   *)
(*   Served      with a source in charge, a game is timed                  *)
(* A turn of the reader is a fold over its lines; Turn lists the states in *)
(* between, and each part is carried from line to line.  Induction over    *)
(* the lines is by their smallest counterexample.                          *)
(***************************************************************************)
EXTENDS Detection, FiniteSetTheorems, WellFoundedInduction, TLAPS

\* The game that is timed once the first k events of q are consumed, if the plugin
\* does not decide: after none of them c, else what the k-th one leaves.
Left(c, q, k) ==
    IF k = 0 THEN IF c = None \/ c.source = "decky" THEN {} ELSE {c.app}
    ELSE IF q[k].type = "stopped" THEN {} ELSE {q[k].game.app}

\* The queue q is in order for the arbiter a and the game c that is timed: a game is
\* stopped only after itself or after nothing, and what is timed in the end is what
\* the source in charge reported.
Queued(a, q, c) ==
    /\ \A k \in 1 .. Len(q) : q[k].type = "stopped" => Left(c, q, k - 1) \subseteq {q[k].game.app}
    /\ a.key = None => Left(c, q, Len(q)) = {}
    /\ a.key # None => /\ Left(c, q, Len(q)) \subseteq {a.key.app}
                       /\ q # <<>> => q[Len(q)].type # "stopped"

\* And of the arbiter with the last scan l: the log is in charge under the name it
\* will also stop the game by, the scan with what it saw last.
InOrder(a, q, c, l) ==
    /\ Queued(a, q, c)
    /\ a.priority = 80 => a.key.name = FirstName
    /\ a.priority = 50 => l # None /\ KeyOf(l) = a.key

\* Steam's end of game x is among the lines i .. j.
EndsIn(lines, x, i, j) == \E k \in i .. j : lines[k].op = "remove" /\ lines[k].app = x

\* Of game x, whatever the reader knows after k lines, and whatever starts in the
\* lines up to b, also ends in the lines up to b.
Closes(pids, a, lines, x, k, b) ==
    /\ pids[x] # {} => EndsIn(lines, x, k + 1, b)
    /\ a.priority = 80 /\ a.key.app = x => EndsIn(lines, x, k + 1, b)
    /\ \A i \in k + 1 .. b :
        lines[i].op = "track" /\ lines[i].app = x => EndsIn(lines, x, i + 1, b)

\* The reader knows of no game but the one that is listed, and the log is in charge
\* of what it tracks; what the last scan saw, if it is still listed, has somebody
\* in charge.
Knows(pids, a) ==
    /\ \A x \in Games : pids[x] # {} => a.priority = 80 /\ a.key.app = x
    /\ a.priority = 80 => a.key.app \in listed
    /\ last # None /\ last.app \in listed => a.key # None

\* The lines after the b-th are of the processes of the game that is listed.
OnlyListed(lines, b) ==
    \A i \in b + 1 .. Len(lines) : lines[i].op \in {"track", "untrack"} /\ lines[i].app \in listed

\* While games run one at a time: either the reader has caught up with the start of
\* the game that is listed, if it is to be told of it, or at some line everything
\* before has ended, and the game that is listed, if there is one, starts there.
Sequential ==
    \E b \in 0 .. Len(log.unread) :
        /\ OnlyListed(log.unread, b)
        /\ \/ b = 0 /\ Knows(parser.pids, arbiter)
           \/ /\ \A x \in Games : Closes(parser.pids, arbiter, log.unread, x, 0, b)
              /\ \/ listed = {}
                 \/ b < Len(log.unread) /\ log.unread[b + 1].op = "track"

\* What the log and its reader have in common while nothing went wrong.
Followed ==
    /\ log.alive
    /\ \A g \in Games : parser.names[g] = FirstName
    /\ \A i \in 1 .. Len(log.unread) : log.unread[i].op # "name"
    /\ \A x \in Games \ listed :
        Closes(parser.pids, arbiter, log.unread, x, 0, Len(log.unread))

\* A report is due, or the last one under way is of the present, or the plugin's
\* word that is in force is.
Reported ==
    \/ plugin.due > 0
    \/ plugin.sent # <<>> /\ plugin.sent[Len(plugin.sent)] \in Foreground
    \/ /\ plugin.sent = <<>>
       /\ current # None /\ current.source = "decky" => current.app \in listed

\* With a source in charge, only a report may leave no game timed: one that came
\* too late, or one of the present.
Served ==
    /\ arbiter.key # None /\ queue = <<>>
    /\ plugin.installed => plugin.due = 0 /\ plugin.sent = <<>> /\ listed # {}
    => current # None

\* What holds whatever went wrong.
Always ==
    /\ \A g \in Games : procs[g] # {} => g \in listed
    /\ ~overlap => \A x, y \in listed : x = y
    /\ ~plugin.installed => /\ plugin.due = 0 /\ plugin.sent = <<>>
                            /\ current # None => current.source # "decky"

\* What holds until something goes wrong.
Sane ==
    /\ Followed
    /\ InOrder(arbiter, queue, current, last)
    /\ Reported
    /\ Served
    /\ ~overlap => Sequential

DetInv == TypeOK /\ Always /\ (~mishap => Sane)

-----------------------------------------------------------------------------
(* One event, and the lines of a turn of the reader *)

Arbiters == {a \in [priority : {0, 50, 80}, key : Maybe(Key)] :
                (a.priority = 0) = (a.key = None)}

\* The state a turn of the reader works on, and the one a scan works on.
Reading  == [pids : [Games -> SUBSET Pids], names : [Games -> Names],
             arbiter : Arbiters, queue : Seq(Event)]
Scanning == [arbiter : Arbiters, queue : Seq(Event)]

\* What becomes of the arbiter a and of the queue q at an event.
ArbiterAfter(a, event) ==
    IF ~Forwarded(a, event) THEN a
    ELSE IF event.type = "stopped" THEN NoSource
    ELSE [priority |-> Priority[event.game.source], key |-> KeyOf(event.game)]

QueueAfter(a, q, event) == IF Forwarded(a, event) THEN Append(q, event) ELSE q

\* An event has an identity, that a key and a priority, and None is none of them.
LEMMA EventType ==
  ASSUME NEW event \in Event
  PROVE  /\ event.game \in Identity
         /\ KeyOf(event.game) \in Key
         /\ KeyOf(event.game) # None
         /\ KeyOf(event.game).app = event.game.app
         /\ KeyOf(event.game).name = event.game.name
         /\ event.game.app \in Games
         /\ event.game.source = "steam_log" => Priority[event.game.source] = 80
         /\ event.game.source = "procfs" => Priority[event.game.source] = 50
         /\ event.game.source \in {"steam_log", "procfs"}
         /\ Priority[event.game.source] \in {50, 80}
<1>1. event.game \in Identity
  BY DEF Event
<1>2. KeyOf(event.game) \in Key
  BY <1>1 DEF Identity, Key, KeyOf
<1>3. KeyOf(event.game) # None
  BY <1>2, NoneAssumption
<1>4. event.game.app \in Games /\ event.game.source \in {"steam_log", "procfs"}
  BY <1>1 DEF Identity
<1>5. KeyOf(event.game).app = event.game.app /\ KeyOf(event.game).name = event.game.name
  BY DEF KeyOf
<1>6. Priority["steam_log"] = 80 /\ Priority["procfs"] = 50
  BY DEF Priority
<1> QED BY <1>1, <1>2, <1>3, <1>4, <1>5, <1>6

\* The arbitration leaves an arbiter and a queue.
LEMMA AfterType ==
  ASSUME NEW a \in Arbiters, NEW q \in Seq(Event), NEW event \in Event
  PROVE  ArbiterAfter(a, event) \in Arbiters /\ QueueAfter(a, q, event) \in Seq(Event)
<1>1. NoSource \in Arbiters
  BY DEF NoSource, Arbiters, Maybe
<1>2. [priority |-> Priority[event.game.source], key |-> KeyOf(event.game)] \in Arbiters
  BY EventType DEF Arbiters, Maybe
<1> QED BY <1>1, <1>2 DEF ArbiterAfter, QueueAfter

\* The arbitration of an event, field by field.
LEMMA ArbitrateReading ==
  ASSUME NEW s \in Reading, NEW event \in Event
  PROVE  /\ Arbitrate(s, event) \in Reading
         /\ Arbitrate(s, event).pids = s.pids
         /\ Arbitrate(s, event).names = s.names
         /\ Arbitrate(s, event).arbiter = ArbiterAfter(s.arbiter, event)
         /\ Arbitrate(s, event).queue = QueueAfter(s.arbiter, s.queue, event)
<1>1. /\ s.arbiter \in Arbiters /\ s.queue \in Seq(Event)
      /\ s.pids \in [Games -> SUBSET Pids] /\ s.names \in [Games -> Names]
  BY DEF Reading
<1>2. /\ ArbiterAfter(s.arbiter, event) \in Arbiters
      /\ QueueAfter(s.arbiter, s.queue, event) \in Seq(Event)
  BY <1>1, AfterType
<1>3. CASE Forwarded(s.arbiter, event)
  <2>1. /\ ArbiterAfter(s.arbiter, event) =
             IF event.type = "stopped" THEN NoSource
             ELSE [priority |-> Priority[event.game.source], key |-> KeyOf(event.game)]
        /\ QueueAfter(s.arbiter, s.queue, event) = Append(s.queue, event)
    BY <1>3 DEF ArbiterAfter, QueueAfter
  <2>2. Arbitrate(s, event) = [s EXCEPT !.queue = QueueAfter(s.arbiter, s.queue, event),
                                        !.arbiter = ArbiterAfter(s.arbiter, event)]
    BY <1>3, <2>1 DEF Arbitrate
  <2> QED BY <1>2, <2>2 DEF Reading
<1>4. CASE ~Forwarded(s.arbiter, event)
  BY <1>4 DEF Arbitrate, ArbiterAfter, QueueAfter
<1> QED BY <1>3, <1>4

\* The same for a scan.
LEMMA ArbitrateScanning ==
  ASSUME NEW s \in Scanning, NEW event \in Event
  PROVE  /\ Arbitrate(s, event).arbiter = ArbiterAfter(s.arbiter, event)
         /\ Arbitrate(s, event).queue = QueueAfter(s.arbiter, s.queue, event)
<1>1. CASE Forwarded(s.arbiter, event)
  <2>1. /\ ArbiterAfter(s.arbiter, event) =
             IF event.type = "stopped" THEN NoSource
             ELSE [priority |-> Priority[event.game.source], key |-> KeyOf(event.game)]
        /\ QueueAfter(s.arbiter, s.queue, event) = Append(s.queue, event)
    BY <1>1 DEF ArbiterAfter, QueueAfter
  <2>2. Arbitrate(s, event) = [s EXCEPT !.queue = QueueAfter(s.arbiter, s.queue, event),
                                        !.arbiter = ArbiterAfter(s.arbiter, event)]
    BY <1>1, <2>1 DEF Arbitrate
  <2> QED BY <2>2 DEF Scanning
<1>2. CASE ~Forwarded(s.arbiter, event)
  BY <1>2 DEF Arbitrate, ArbiterAfter, QueueAfter
<1> QED BY <1>1, <1>2

\* The events of the reader.
SteamEvent(type, s, app) == [type |-> type, game |-> SteamIdentity(s, app)]

LEMMA SteamEventType ==
  ASSUME NEW s \in Reading, NEW app \in Games, NEW type \in {"started", "changed", "stopped"}
  PROVE  /\ SteamEvent(type, s, app) \in Event
         /\ SteamEvent(type, s, app).type = type
         /\ SteamEvent(type, s, app).game.app = app
         /\ SteamEvent(type, s, app).game.name = s.names[app]
         /\ SteamEvent(type, s, app).game.source = "steam_log"
<1>1. s.names[app] \in Names
  BY DEF Reading
<1> QED BY <1>1 DEF SteamEvent, SteamIdentity, Event, Identity

\* A line of the log, by its kind.
LEMMA LineType ==
  ASSUME NEW line \in Line
  PROVE  /\ line.op \in {"track", "untrack", "remove", "name"}
         /\ line.app \in Games
         /\ line.op \in {"track", "untrack"} => line.pid \in Pids
         /\ line.op = "name" => line.name \in Names
BY DEF Line

\* What a line does to the reader, field by field.
LEMMA FeedFields ==
  ASSUME NEW s \in Reading, NEW line \in Line
  PROVE  /\ FeedLine(s, line) \in Reading
         /\ line.op # "name" => FeedLine(s, line).names = s.names
         /\ \A x \in Games : x # line.app => FeedLine(s, line).pids[x] = s.pids[x]
         /\ line.op \in {"name", "untrack"} =>
              /\ FeedLine(s, line).arbiter = s.arbiter
              /\ FeedLine(s, line).queue = s.queue
              /\ FeedLine(s, line).pids[line.app] \subseteq s.pids[line.app]
         /\ line.op = "track" /\ s.pids[line.app] # {} =>
              /\ FeedLine(s, line).arbiter = s.arbiter
              /\ FeedLine(s, line).queue = s.queue
         /\ line.op = "track" /\ s.pids[line.app] = {} =>
              LET e == SteamEvent("started", s, line.app)
              IN  /\ FeedLine(s, line).arbiter = ArbiterAfter(s.arbiter, e)
                  /\ FeedLine(s, line).queue = QueueAfter(s.arbiter, s.queue, e)
         /\ line.op = "remove" =>
              LET e == SteamEvent("stopped", s, line.app)
              IN  /\ FeedLine(s, line).pids[line.app] = {}
                  /\ FeedLine(s, line).arbiter = ArbiterAfter(s.arbiter, e)
                  /\ FeedLine(s, line).queue = QueueAfter(s.arbiter, s.queue, e)
<1> DEFINE app == line.app
<1>0. /\ line.op \in {"track", "untrack", "remove", "name"}
      /\ app \in Games
      /\ line.op \in {"track", "untrack"} => line.pid \in Pids
      /\ line.op = "name" => line.name \in Names
  BY LineType
<1>1. /\ s.arbiter \in Arbiters /\ s.queue \in Seq(Event)
      /\ s.pids \in [Games -> SUBSET Pids] /\ s.names \in [Games -> Names]
  BY DEF Reading
<1>2. CASE line.op = "name"
  <2>1. FeedLine(s, line) = [s EXCEPT !.names[line.app] = line.name]
    BY <1>2 DEF FeedLine
  <2> QED BY <1>0, <1>1, <1>2, <2>1 DEF Reading
<1>3. CASE line.op = "untrack"
  <2>1. FeedLine(s, line) = [s EXCEPT !.pids[line.app] = @ \ {line.pid}]
    BY <1>3 DEF FeedLine
  <2> QED BY <1>0, <1>1, <1>3, <2>1 DEF Reading
<1>4. CASE line.op = "track"
  <2> DEFINE t == [s EXCEPT !.pids[line.app] = @ \cup {line.pid}]
             e == SteamEvent("started", s, app)
  <2>1. /\ t \in Reading /\ t.arbiter = s.arbiter /\ t.queue = s.queue /\ t.names = s.names
        /\ \A x \in Games : x # app => t.pids[x] = s.pids[x]
    BY <1>0, <1>1, <1>4 DEF Reading
  <2>2. e = [type |-> "started", game |-> SteamIdentity(t, line.app)]
    BY <2>1 DEF SteamEvent, SteamIdentity
  <2>3. FeedLine(s, line) = IF s.pids[app] # {} THEN t ELSE Arbitrate(t, e)
    BY <1>4, <2>2 DEF FeedLine
  <2>4. e \in Event
    BY <1>0, SteamEventType
  <2> HIDE DEF t
  <2>5. CASE s.pids[app] # {}
    BY <1>4, <2>1, <2>3, <2>5
  <2>6. CASE s.pids[app] = {}
    <3>1. FeedLine(s, line) = Arbitrate(t, e)
      BY <2>3, <2>6
    <3> HIDE DEF e
    <3>2. /\ Arbitrate(t, e) \in Reading
          /\ Arbitrate(t, e).pids = t.pids
          /\ Arbitrate(t, e).names = t.names
          /\ Arbitrate(t, e).arbiter = ArbiterAfter(t.arbiter, e)
          /\ Arbitrate(t, e).queue = QueueAfter(t.arbiter, t.queue, e)
      BY <2>1, <2>4, ArbitrateReading
    <3> QED BY <1>4, <2>1, <2>6, <3>1, <3>2 DEF e
  <2> QED BY <2>5, <2>6
<1>5. CASE line.op = "remove"
  <2> DEFINE t == [s EXCEPT !.pids[line.app] = {}]
             e == SteamEvent("stopped", s, app)
  <2>1. /\ t \in Reading /\ t.arbiter = s.arbiter /\ t.queue = s.queue /\ t.names = s.names
        /\ \A x \in Games : x # app => t.pids[x] = s.pids[x]
        /\ t.pids[app] = {}
    BY <1>0, <1>1, <1>5 DEF Reading
  <2>2. FeedLine(s, line) = Arbitrate(t, e)
    BY <1>5 DEF FeedLine, SteamEvent
  <2>3. e \in Event
    BY <1>0, SteamEventType
  <2> HIDE DEF t, e
  <2>4. /\ Arbitrate(t, e) \in Reading
        /\ Arbitrate(t, e).pids = t.pids
        /\ Arbitrate(t, e).names = t.names
        /\ Arbitrate(t, e).arbiter = ArbiterAfter(t.arbiter, e)
        /\ Arbitrate(t, e).queue = QueueAfter(t.arbiter, t.queue, e)
    BY <2>1, <2>3, ArbitrateReading
  <2> QED BY <1>5, <2>1, <2>2, <2>4 DEF e
<1> QED BY <1>0, <1>2, <1>3, <1>4, <1>5

-----------------------------------------------------------------------------
(* The fold over the lines *)

\* A set of naturals has a smallest one.
LEMMA Smallest ==
  ASSUME NEW T, T \subseteq Nat, T # {}
  PROVE  \E n \in T : \A k \in Nat : k < n => k \notin T
<1> DEFINE R == OpToRel(<, Nat)
<1>1. IsWellFoundedOn(R, Nat)
  BY NatLessThanWellFounded
<1>2. \A x, y \in Nat : <<x, y>> \in R <=> x < y
  BY DEF OpToRel
<1> HIDE DEF R
<1>3. PICK n \in T : \A k \in T : ~(<<k, n>> \in R)
  BY <1>1, WFMin
<1> QED BY <1>2, <1>3

\* A number above all others of a set is its maximum.
LEMMA MaxIs ==
  ASSUME NEW T, T \subseteq Nat, NEW n \in T, \A k \in T : k <= n
  PROVE  Max(T) = n
<1>1. n \in T /\ \A k \in T : n >= k
  BY DEF Max
<1>2. Max(T) \in T /\ \A k \in T : Max(T) >= k
  BY <1>1 DEF Max
<1>3. Max(T) \in Nat /\ n \in Nat /\ Max(T) >= n /\ n >= Max(T)
  BY <1>1, <1>2
<1> QED BY <1>3

\* The equation by which FoldLeft is defined, for the lines of the log.
FeedStep(base, lines, it, s) ==
    IF s = {} THEN base ELSE FeedLine(it[s \ {Max(s)}], lines[Max(s)])

Feeds(base, lines, it) ==
    it = [s \in SUBSET (DOMAIN lines) |-> FeedStep(base, lines, it, s)]

\* Some function satisfies it: on the subsets of longer and longer prefixes.
LEMMA FeedDefined ==
  ASSUME NEW base \in Reading, NEW lines \in Seq(Line)
  PROVE  \E it : Feeds(base, lines, it)
<1> DEFINE D == DOMAIN lines
           Upto(n, it) == \A s \in SUBSET D : s \subseteq 1 .. n => it[s] = FeedStep(base, lines, it, s)
           Missing(n) == \A it \in [SUBSET D -> Reading] : ~Upto(n, it)
           B == {n \in Nat : n <= Len(lines) /\ Missing(n)}
<1>1. D = 1 .. Len(lines) /\ Len(lines) \in Nat
  OBVIOUS
<1>2. B = {}
  <2> SUFFICES ASSUME B # {} PROVE FALSE
    OBVIOUS
  <2>1. PICK n \in B : \A k \in Nat : k < n => k \notin B
    <3>1. B \subseteq Nat
      OBVIOUS
    <3> HIDE DEF B
    <3> QED BY <3>1, Smallest
  <2>2. n \in Nat /\ n <= Len(lines) /\ Missing(n)
    BY <2>1
  <2>3. \A k \in Nat : k < n => ~Missing(k)
    <3> HIDE DEF Missing
    <3> QED BY <1>1, <2>1, <2>2
  <2>4. CASE n = 0
    <3> DEFINE z == [s \in SUBSET D |-> base]
    <3>1. z \in [SUBSET D -> Reading]
      OBVIOUS
    <3>2. ASSUME NEW s \in SUBSET D, s \subseteq 1 .. 0 PROVE z[s] = FeedStep(base, lines, z, s)
      <4>1. s = {}
        BY <3>2
      <4> QED BY <4>1 DEF FeedStep
    <3>3. Upto(n, z)
      BY <2>4, <3>2
    <3> QED BY <2>2, <3>1, <3>3
  <2>5. CASE n > 0
    <3>0. n - 1 \in Nat /\ n - 1 < n /\ n \in D /\ lines[n] \in Line
      BY <1>1, <2>2, <2>5
    <3>1. PICK u \in [SUBSET D -> Reading] : Upto(n - 1, u)
      <4>1. ~Missing(n - 1)
        BY <2>3, <3>0
      <4> QED BY <4>1
    <3> DEFINE v == [s \in SUBSET D |-> IF n \in s THEN FeedLine(u[s \ {n}], lines[n]) ELSE u[s]]
    <3>2. \A s \in SUBSET D : FeedLine(u[s \ {n}], lines[n]) \in Reading
      <4> TAKE s \in SUBSET D
      <4>1. s \ {n} \in SUBSET D
        OBVIOUS
      <4>2. u[s \ {n}] \in Reading
        BY <3>1, <4>1
      <4> QED BY <3>0, <4>2, FeedFields
    <3>3. v \in [SUBSET D -> Reading]
      BY <3>1, <3>2
    <3>4. \A s \in SUBSET D : s \subseteq 1 .. n - 1 => v[s] = u[s] /\ s \ {Max(s)} \subseteq 1 .. n - 1
      BY <2>2
    <3>5. ASSUME NEW s \in SUBSET D, s \subseteq 1 .. n PROVE v[s] = FeedStep(base, lines, v, s)
      <4>1. CASE n \in s
        <5>1. Max(s) = n
          BY <2>2, <3>5, <4>1, MaxIs
        <5>2. s \ {n} \in SUBSET D /\ s \ {n} \subseteq 1 .. n - 1
          BY <2>2, <3>5
        <5>3. v[s \ {n}] = u[s \ {n}]
          BY <3>4, <5>2
        <5>4. v[s] = FeedLine(u[s \ {n}], lines[n])
          BY <4>1
        <5> HIDE DEF v
        <5> QED BY <4>1, <5>1, <5>3, <5>4 DEF FeedStep
      <4>2. CASE n \notin s
        <5>1. s \subseteq 1 .. n - 1
          BY <2>2, <3>5, <4>2
        <5>2. s \ {Max(s)} \in SUBSET D /\ s \ {Max(s)} \subseteq 1 .. n - 1
          BY <5>1
        <5>3. v[s] = u[s] /\ v[s \ {Max(s)}] = u[s \ {Max(s)}]
          BY <3>4, <5>1, <5>2
        <5>4. u[s] = FeedStep(base, lines, u, s)
          BY <3>1, <5>1
        <5> HIDE DEF v
        <5> QED BY <5>3, <5>4 DEF FeedStep
      <4> QED BY <4>1, <4>2
    <3>6. Upto(n, v)
      BY <3>5
    <3> HIDE DEF v, Upto
    <3> QED BY <2>2, <3>3, <3>6
  <2> QED BY <2>2, <2>4, <2>5
<1>3. PICK it \in [SUBSET D -> Reading] : Upto(Len(lines), it)
  <2>1. ~Missing(Len(lines))
    <3> HIDE DEF Missing
    <3> QED BY <1>1, <1>2
  <2> QED BY <2>1
<1>4. \A s \in SUBSET D : it[s] = FeedStep(base, lines, it, s)
  BY <1>1, <1>3
<1>5. it = [s \in SUBSET D |-> FeedStep(base, lines, it, s)]
  BY <1>3, <1>4
<1> QED BY <1>5 DEF Feeds

\* The state of the reader after each line: the first is the one it starts from,
\* each further one is what the line makes of the one before, and the last one is
\* what the turn of the reader ends with.
Turn(base, lines, st) ==
    /\ st \in [0 .. Len(lines) -> Reading]
    /\ st[0] = base
    /\ \A k \in 1 .. Len(lines) : st[k] = FeedLine(st[k - 1], lines[k])

LEMMA TurnExists ==
  ASSUME NEW base \in Reading, NEW lines \in Seq(Line)
  PROVE  \E st : Turn(base, lines, st) /\ st[Len(lines)] = FoldLeft(FeedLine, base, lines)
<1> DEFINE it == CHOOSE f : Feeds(base, lines, f)
           N == Len(lines)
           st == [k \in 0 .. N |-> it[1 .. k]]
           B == {k \in Nat : k <= N /\ it[1 .. k] \notin Reading}
<1>1. N \in Nat /\ DOMAIN lines = 1 .. N
  OBVIOUS
<1>2. Feeds(base, lines, it)
  BY FeedDefined
<1>3. FoldLeft(FeedLine, base, lines) = it[DOMAIN lines]
  BY DEF FoldLeft, MapThenFoldSet, Feeds, FeedStep
<1> HIDE DEF it
<1>4. \A s \in SUBSET (1 .. N) : it[s] = FeedStep(base, lines, it, s)
  BY <1>1, <1>2 DEF Feeds
<1>5. it[1 .. 0] = base
  <2>1. 1 .. 0 = {}
    OBVIOUS
  <2> QED BY <1>4, <2>1 DEF FeedStep
<1>6. ASSUME NEW k \in 1 .. N PROVE it[1 .. k] = FeedLine(it[1 .. k - 1], lines[k])
  <2>0. k \in Nat /\ 1 <= k /\ k <= N /\ k \in 1 .. k
    BY <1>1
  <2>1. 1 .. k \subseteq 1 .. N /\ 1 .. k # {} /\ 1 .. k \subseteq Nat
    <3>1. \A i \in 1 .. k : i \in 1 .. N /\ i \in Nat
      BY <1>1, <2>0
    <3> HIDE DEF N
    <3> QED BY <2>0, <3>1
  <2>2. Max(1 .. k) = k
    <3>1. \A i \in 1 .. k : i <= k
      BY <2>0
    <3> HIDE DEF N
    <3> QED BY <2>0, <2>1, <3>1, MaxIs
  <2>3. (1 .. k) \ {k} = 1 .. k - 1
    BY <2>0
  <2>4. it[1 .. k] = FeedStep(base, lines, it, 1 .. k)
    BY <1>4, <2>1
  <2> QED BY <2>1, <2>2, <2>3, <2>4 DEF FeedStep
<1>7. B = {}
  <2> SUFFICES ASSUME B # {} PROVE FALSE
    OBVIOUS
  <2>1. PICK n \in B : \A k \in Nat : k < n => k \notin B
    <3>1. B \subseteq Nat
      OBVIOUS
    <3> HIDE DEF B
    <3> QED BY <3>1, Smallest
  <2>2. n \in Nat /\ n <= N /\ it[1 .. n] \notin Reading
    BY <2>1
  <2>3. n # 0
    BY <1>5, <2>2
  <2>4. n - 1 \in Nat /\ n - 1 < n /\ n \in 1 .. N
    BY <1>1, <2>2, <2>3
  <2>5. it[1 .. n - 1] \in Reading /\ lines[n] \in Line
    BY <1>1, <2>1, <2>2, <2>4
  <2>6. FeedLine(it[1 .. n - 1], lines[n]) \in Reading
    BY <2>5, FeedFields
  <2> QED BY <1>6, <2>2, <2>4, <2>6
<1>8. \A k \in 0 .. N : st[k] = it[1 .. k] /\ it[1 .. k] \in Reading
  BY <1>1, <1>7
<1>9. st \in [0 .. N -> Reading]
  BY <1>8
<1>10. st[0] = base
  BY <1>1, <1>5
<1>11. \A k \in 1 .. N : k - 1 \in 0 .. N /\ k \in 0 .. N
  BY <1>1
<1>12. \A k \in 1 .. N : st[k] = FeedLine(st[k - 1], lines[k])
  BY <1>6, <1>8, <1>11
<1>13. st[N] = FoldLeft(FeedLine, base, lines)
  BY <1>1, <1>3, <1>8
<1> HIDE DEF st
<1> QED BY <1>9, <1>10, <1>12, <1>13 DEF Turn

\* One event: the fold of a scan is the arbitration of its event.
LEMMA FoldOne ==
  ASSUME NEW base, NEW e
  PROVE  FoldLeft(Arbitrate, base, <<e>>) = Arbitrate(base, e)
<1> DEFINE Step(it, s) == IF s = {} THEN base ELSE Arbitrate(it[s \ {Max(s)}], <<e>>[Max(s)])
           Iter(it) == it = [s \in SUBSET (DOMAIN <<e>>) |-> Step(it, s)]
           w == [s \in SUBSET {1} |-> IF s = {} THEN base ELSE Arbitrate(base, e)]
<1>1. DOMAIN <<e>> = {1} /\ <<e>>[1] = e
  OBVIOUS
<1>2. Max({1}) = 1 /\ {1} \ {1} = {}
  BY MaxIs
<1>3. \A s \in SUBSET {1} : s = {} \/ s = {1}
  OBVIOUS
<1>4. Iter(w)
  <2>1. \A s \in SUBSET {1} : w[s] = Step(w, s)
    BY <1>1, <1>2, <1>3
  <2>2. w = [s \in SUBSET {1} |-> w[s]]
    OBVIOUS
  <2> HIDE DEF w, Step
  <2> QED BY <1>1, <2>1, <2>2
<1> DEFINE it == CHOOSE f : Iter(f)
<1>5. FoldLeft(Arbitrate, base, <<e>>) = it[DOMAIN <<e>>]
  BY DEF FoldLeft, MapThenFoldSet
<1>6. Iter(it)
  <2> HIDE DEF Iter
  <2> QED BY <1>4
<1> HIDE DEF it, w
<1>7. \A s \in SUBSET {1} : it[s] = Step(it, s)
  BY <1>1, <1>6
<1>8. it[{}] = base
  BY <1>7
<1>9. it[{1}] = Arbitrate(base, e)
  <2>1. it[{1}] = Step(it, {1})
    BY <1>7
  <2> QED BY <1>1, <1>2, <1>8, <2>1
<1> QED BY <1>1, <1>5, <1>9

-----------------------------------------------------------------------------
(* The arbitration keeps the queue in order. *)

\* The arbiter's fields.
LEMMA ArbiterType ==
  ASSUME NEW a \in Arbiters
  PROVE  /\ a.priority \in {0, 50, 80}
         /\ a.key \in Maybe(Key)
         /\ a.priority = 0 <=> a.key = None
         /\ a.key # None => a.key.app \in Games /\ a.key.name \in Names
BY DEF Arbiters, Maybe, Key

\* An event that is passed on.
LEMMA ForwardedQueued ==
  ASSUME NEW a \in Arbiters, NEW q \in Seq(Event), NEW c, NEW event \in Event,
         Queued(a, q, c), Forwarded(a, event)
  PROVE  Queued(ArbiterAfter(a, event), Append(q, event), c)
<1> DEFINE r == Append(q, event)
           n == Len(q)
           b == ArbiterAfter(a, event)
<1>1. r \in Seq(Event) /\ Len(r) = n + 1 /\ n \in Nat /\ r[n + 1] = event /\ r # <<>>
      /\ \A k \in 1 .. n : r[k] = q[k]
  OBVIOUS
<1>2. \A k \in 0 .. n : Left(c, r, k) = Left(c, q, k)
  <2> TAKE k \in 0 .. n
  <2>1. CASE k = 0
    BY <2>1 DEF Left
  <2>2. CASE k # 0
    <3>1. r[k] = q[k]
      BY <1>1, <2>2
    <3> HIDE DEF r
    <3> QED BY <2>2, <3>1 DEF Left
  <2> QED BY <2>1, <2>2
<1>3. Left(c, r, n + 1) = IF event.type = "stopped" THEN {} ELSE {event.game.app}
  BY <1>1 DEF Left
<1>4. ASSUME NEW k \in 1 .. n + 1, r[k].type = "stopped"
      PROVE  Left(c, r, k - 1) \subseteq {r[k].game.app}
  <2>1. CASE k \in 1 .. n
    <3>1. k - 1 \in 0 .. n /\ r[k] = q[k]
      BY <1>1, <2>1
    <3>2. Left(c, q, k - 1) \subseteq {q[k].game.app}
      BY <1>4, <2>1, <3>1 DEF Queued
    <3> QED BY <1>2, <3>1, <3>2
  <2>2. CASE k = n + 1
    <3>1. k - 1 = n /\ r[k] = event /\ n \in 0 .. n
      BY <1>1, <2>2
    <3>2. Left(c, r, k - 1) = Left(c, q, n)
      BY <1>2, <3>1
    <3>3. a.key \in {None, KeyOf(event.game)}
      BY <1>4, <3>1 DEF Forwarded
    <3>4. Left(c, q, n) \subseteq {event.game.app}
      BY <3>3, EventType DEF Queued
    <3> QED BY <3>1, <3>2, <3>4
  <2> QED BY <1>1, <2>1, <2>2
<1>5. CASE event.type = "stopped"
  <2>1. b.key = None
    BY <1>5 DEF ArbiterAfter, NoSource
  <2> HIDE DEF b, r
  <2> QED BY <1>1, <1>3, <1>4, <1>5, <2>1 DEF Queued, b, r
<1>6. CASE event.type # "stopped"
  <2>1. b.key # None /\ b.key.app = event.game.app
    BY <1>6, EventType DEF ArbiterAfter
  <2> HIDE DEF b, r
  <2> QED BY <1>1, <1>3, <1>4, <1>6, <2>1 DEF Queued, b, r
<1> QED BY <1>5, <1>6

\* Any event.
LEMMA AfterQueued ==
  ASSUME NEW a \in Arbiters, NEW q \in Seq(Event), NEW c, NEW event \in Event, Queued(a, q, c)
  PROVE  Queued(ArbiterAfter(a, event), QueueAfter(a, q, event), c)
<1>1. CASE Forwarded(a, event)
  BY <1>1, ForwardedQueued DEF QueueAfter
<1>2. CASE ~Forwarded(a, event)
  BY <1>2 DEF ArbiterAfter, QueueAfter
<1> QED BY <1>1, <1>2

\* An event of the log, under the first name.
LEMMA SteamInOrder ==
  ASSUME NEW a \in Arbiters, NEW q \in Seq(Event), NEW c, NEW l, NEW event \in Event,
         InOrder(a, q, c, l), event.game.source = "steam_log", event.game.name = FirstName
  PROVE  InOrder(ArbiterAfter(a, event), QueueAfter(a, q, event), c, l)
<1> DEFINE b == ArbiterAfter(a, event)
<1>1. Queued(b, QueueAfter(a, q, event), c)
  BY AfterQueued DEF InOrder
<1>2. b.priority = 80 => b.key.name = FirstName
  BY EventType DEF ArbiterAfter, NoSource, InOrder
<1>3. b.priority = 50 => l # None /\ KeyOf(l) = b.key
  BY EventType DEF ArbiterAfter, NoSource, InOrder
<1> QED BY <1>1, <1>2, <1>3 DEF InOrder

\* The event of a scan, which is about what the scan before saw, or what this one
\* sees.
LEMMA ScanInOrder ==
  ASSUME NEW a \in Arbiters, NEW q \in Seq(Event), NEW c, NEW l, NEW event \in Event, NEW d,
         InOrder(a, q, c, l), event.game.source = "procfs",
         \/ d = None /\ event.type = "stopped" /\ event.game = l /\ l # None
         \/ d # None /\ event.type # "stopped" /\ event.game = d
  PROVE  /\ InOrder(ArbiterAfter(a, event), QueueAfter(a, q, event), c, d)
         /\ a.priority = 80 => ArbiterAfter(a, event) = a
         /\ a.priority # 80 => ArbiterAfter(a, event).priority # 80
         /\ d # None => ArbiterAfter(a, event).key # None
<1> DEFINE b == ArbiterAfter(a, event)
<1>0. Priority[event.game.source] = 50
  BY EventType
<1>1. Queued(b, QueueAfter(a, q, event), c)
  BY AfterQueued DEF InOrder
<1>2. CASE a.priority = 80
  <2>1. b = a
    BY <1>0, <1>2 DEF ArbiterAfter, Forwarded
  <2>2. a.key # None
    BY <1>2, ArbiterType
  <2> HIDE DEF b
  <2> QED BY <1>1, <1>2, <2>1, <2>2 DEF InOrder, b
<1>3. CASE a.priority # 80
  <2>1. a.priority \in {0, 50}
    BY <1>3, ArbiterType
  <2>2. CASE event.type # "stopped"
    <3>1. Forwarded(a, event)
      BY <1>0, <2>1, <2>2 DEF Forwarded
    <3>2. b.priority = 50 /\ b.key = KeyOf(event.game)
      BY <1>0, <2>2, <3>1 DEF ArbiterAfter
    <3>3. KeyOf(event.game) # None
      BY EventType
    <3> HIDE DEF b
    <3> QED BY <1>1, <1>3, <2>2, <3>2, <3>3 DEF InOrder, b
  <2>3. CASE event.type = "stopped"
    <3>1. a.key = None \/ a.key = KeyOf(event.game)
      BY <2>1, <2>3, ArbiterType DEF InOrder
    <3>2. Forwarded(a, event)
      BY <1>0, <2>1, <3>1 DEF Forwarded
    <3>3. b.priority = 0
      BY <2>3, <3>2 DEF ArbiterAfter, NoSource
    <3> HIDE DEF b
    <3> QED BY <1>1, <1>3, <2>3, <3>3 DEF InOrder, b
  <2> QED BY <2>2, <2>3
<1> QED BY <1>2, <1>3

\* A line that names no game leaves the names alone.
LEMMA FeedNames ==
  ASSUME NEW s \in Reading, NEW line \in Line, line.op # "name"
  PROVE  FeedLine(s, line).names = s.names
BY FeedFields

\* A line keeps it in order.
LEMMA FeedInOrder ==
  ASSUME NEW s \in Reading, NEW line \in Line, NEW c, NEW l,
         line.op # "name", s.names[line.app] = FirstName,
         InOrder(s.arbiter, s.queue, c, l)
  PROVE  InOrder(FeedLine(s, line).arbiter, FeedLine(s, line).queue, c, l)
<1>0. s.arbiter \in Arbiters /\ s.queue \in Seq(Event) /\ line.app \in Games
  BY LineType DEF Reading
<1>1. ASSUME NEW type \in {"started", "stopped"}
      PROVE  InOrder(ArbiterAfter(s.arbiter, SteamEvent(type, s, line.app)),
                     QueueAfter(s.arbiter, s.queue, SteamEvent(type, s, line.app)), c, l)
  BY <1>0, SteamEventType, SteamInOrder
<1>2. CASE line.op = "untrack" \/ (line.op = "track" /\ s.pids[line.app] # {})
  BY <1>2, FeedFields
<1>3. CASE line.op = "track" /\ s.pids[line.app] = {}
  BY <1>1, <1>3, FeedFields
<1>4. CASE line.op = "remove"
  BY <1>1, <1>4, FeedFields
<1> QED BY <1>2, <1>3, <1>4, LineType

\* So does a turn of the reader.
LEMMA TurnInOrder ==
  ASSUME NEW base, NEW lines \in Seq(Line), NEW st, Turn(base, lines, st), NEW c, NEW l,
         \A i \in 1 .. Len(lines) : lines[i].op # "name",
         \A g \in Games : base.names[g] = FirstName,
         InOrder(base.arbiter, base.queue, c, l)
  PROVE  \A k \in 0 .. Len(lines) : /\ \A g \in Games : st[k].names[g] = FirstName
                                    /\ InOrder(st[k].arbiter, st[k].queue, c, l)
<1> DEFINE N == Len(lines)
           P(k) == /\ \A g \in Games : st[k].names[g] = FirstName
                   /\ InOrder(st[k].arbiter, st[k].queue, c, l)
           B == {k \in Nat : k <= N /\ ~P(k)}
<1>0. N \in Nat
  OBVIOUS
<1>1. P(0)
  BY DEF Turn
<1>2. ASSUME NEW k \in 1 .. N, P(k - 1) PROVE P(k)
  <2>1. k - 1 \in 0 .. N /\ k \in 0 .. N /\ lines[k] \in Line
    BY <1>0
  <2>2. st[k - 1] \in Reading /\ st[k] = FeedLine(st[k - 1], lines[k])
    BY <2>1 DEF Turn
  <2>3. lines[k].op # "name" /\ lines[k].app \in Games
    BY <2>1, LineType
  <2>4. st[k].names = st[k - 1].names
    BY <2>1, <2>2, <2>3, FeedNames
  <2>5. InOrder(st[k].arbiter, st[k].queue, c, l)
    BY <1>2, <2>1, <2>2, <2>3, FeedInOrder
  <2> QED BY <1>2, <2>4, <2>5
<1>3. B = {}
  <2> SUFFICES ASSUME B # {} PROVE FALSE
    OBVIOUS
  <2> HIDE DEF P
  <2>1. PICK n \in B : \A k \in Nat : k < n => k \notin B
    <3>1. B \subseteq Nat
      OBVIOUS
    <3> HIDE DEF B
    <3> QED BY <3>1, Smallest
  <2>2. n # 0 /\ n \in Nat /\ n <= N /\ ~P(n)
    BY <1>1, <2>1
  <2>3. n \in 1 .. N /\ n - 1 \in Nat /\ n - 1 < n /\ n - 1 <= N
    BY <1>0, <2>2
  <2>4. P(n - 1)
    BY <2>1, <2>3
  <2> QED BY <1>2, <2>2, <2>3, <2>4
<1> HIDE DEF P
<1>4. \A k \in 0 .. N : P(k)
  BY <1>0, <1>3
<1> QED BY <1>4 DEF P

-----------------------------------------------------------------------------
(* What the log tells of a game *)

\* A start in the log takes charge.
LEMMA StartTakesCharge ==
  ASSUME NEW s \in Reading, NEW app \in Games
  PROVE  LET a == ArbiterAfter(s.arbiter, SteamEvent("started", s, app))
         IN  a.priority = 80 /\ a.key # None /\ a.key.app = app
<1> DEFINE e == SteamEvent("started", s, app)
<1>1. e \in Event /\ e.type = "started" /\ e.game.app = app /\ e.game.source = "steam_log"
  BY SteamEventType
<1> HIDE DEF e
<1>2. /\ Priority[e.game.source] = 80 /\ KeyOf(e.game) # None
      /\ KeyOf(e.game).app = app
  BY <1>1, EventType
<1>3. s.arbiter.priority \in {0, 50, 80}
  BY ArbiterType DEF Reading
<1>4. Forwarded(s.arbiter, e)
  BY <1>1, <1>2, <1>3 DEF Forwarded
<1>5. ArbiterAfter(s.arbiter, e) = [priority |-> 80, key |-> KeyOf(e.game)]
  BY <1>1, <1>2, <1>4 DEF ArbiterAfter
<1> QED BY <1>2, <1>5 DEF e

\* An end in the log leaves nobody in charge, or changes nothing: it always stops
\* the game of which the log is in charge, and no other.
LEMMA EndStops ==
  ASSUME NEW s \in Reading, NEW app \in Games, s.names[app] = FirstName
  PROVE  LET a == ArbiterAfter(s.arbiter, SteamEvent("stopped", s, app))
         IN  /\ a = NoSource \/ a = s.arbiter
             /\ s.arbiter.key # None /\ s.arbiter.key.app # app => a = s.arbiter
             /\ s.arbiter.priority = 80 /\ s.arbiter.key.app = app
                /\ s.arbiter.key.name = FirstName => a = NoSource
<1> DEFINE e == SteamEvent("stopped", s, app)
<1>1. /\ e \in Event /\ e.type = "stopped" /\ e.game.app = app /\ e.game.source = "steam_log"
      /\ e.game.name = FirstName
  BY SteamEventType
<1> HIDE DEF e
<1>2. /\ Priority[e.game.source] = 80
      /\ KeyOf(e.game) = [app |-> app, name |-> FirstName]
      /\ KeyOf(e.game).app = app
  BY <1>1, EventType DEF KeyOf
<1>3. /\ s.arbiter.priority \in {0, 50, 80} /\ s.arbiter.key \in Maybe(Key)
      /\ s.arbiter.priority = 0 <=> s.arbiter.key = None
  BY ArbiterType DEF Reading
<1>4. Forwarded(s.arbiter, e) <=> s.arbiter.key \in {None, KeyOf(e.game)}
  BY <1>1, <1>2, <1>3 DEF Forwarded
<1>5. ArbiterAfter(s.arbiter, e) = IF Forwarded(s.arbiter, e) THEN NoSource ELSE s.arbiter
  BY <1>1 DEF ArbiterAfter
<1>6. s.arbiter.key # None /\ s.arbiter.key.app = app /\ s.arbiter.key.name = FirstName
      => s.arbiter.key = KeyOf(e.game)
  BY <1>2, <1>3 DEF Maybe, Key
<1>7. s.arbiter.key # None /\ s.arbiter.key.app # app => ~Forwarded(s.arbiter, e)
  BY <1>2, <1>4
<1>8. s.arbiter.priority = 80 /\ s.arbiter.key.app = app /\ s.arbiter.key.name = FirstName
      => Forwarded(s.arbiter, e)
  BY <1>3, <1>4, <1>6
<1> HIDE DEF ArbiterAfter, Forwarded
<1> QED BY <1>5, <1>7, <1>8 DEF e

\* What a line does to the arbiter.
LEMMA FeedArbiter ==
  ASSUME NEW s \in Reading, NEW line \in Line, line.op # "name", s.names[line.app] = FirstName
  PROVE  LET a == FeedLine(s, line).arbiter
         IN  /\ line.op = "untrack" => a = s.arbiter
             /\ line.op = "track" /\ s.pids[line.app] # {} => a = s.arbiter
             /\ line.op = "track" /\ s.pids[line.app] = {} =>
                    a.priority = 80 /\ a.key # None /\ a.key.app = line.app
             /\ line.op = "remove" =>
                  /\ a = NoSource \/ a = s.arbiter
                  /\ s.arbiter.key # None /\ s.arbiter.key.app # line.app => a = s.arbiter
                  /\ s.arbiter.priority = 80 /\ s.arbiter.key.app = line.app
                     /\ s.arbiter.key.name = FirstName => a = NoSource
<1>1. line.app \in Games
  BY LineType
<1>2. CASE line.op = "untrack" \/ (line.op = "track" /\ s.pids[line.app] # {})
  <2>1. FeedLine(s, line).arbiter = s.arbiter
    BY <1>2, FeedFields
  <2> QED BY <1>2, <2>1
<1>3. CASE line.op = "track" /\ s.pids[line.app] = {}
  <2>1. FeedLine(s, line).arbiter = ArbiterAfter(s.arbiter, SteamEvent("started", s, line.app))
    BY <1>3, FeedFields
  <2> QED BY <1>1, <1>3, <2>1, StartTakesCharge
<1>4. CASE line.op = "remove"
  <2>1. FeedLine(s, line).arbiter = ArbiterAfter(s.arbiter, SteamEvent("stopped", s, line.app))
    BY <1>4, FeedFields
  <2> QED BY <1>1, <1>4, <2>1, EndStops
<1> QED BY <1>2, <1>3, <1>4, LineType

\* What a line does to the processes the reader knows.
LEMMA FeedPids ==
  ASSUME NEW s \in Reading, NEW line \in Line, NEW x \in Games
  PROVE  /\ line.app # x => FeedLine(s, line).pids[x] = s.pids[x]
         /\ line.op = "untrack" /\ s.pids[x] = {} => FeedLine(s, line).pids[x] = {}
         /\ line.op = "remove" /\ line.app = x => FeedLine(s, line).pids[x] = {}
<1>1. line.app # x => FeedLine(s, line).pids[x] = s.pids[x]
  BY FeedFields
<1>2. line.op = "untrack" => FeedLine(s, line).pids[line.app] \subseteq s.pids[line.app]
  BY FeedFields
<1>3. line.op = "remove" => FeedLine(s, line).pids[line.app] = {}
  BY FeedFields
<1> QED BY <1>1, <1>2, <1>3

\* Whatever ends in the lines up to b does so after each of them.
LEMMA FeedCloses ==
  ASSUME NEW s \in Reading, NEW lines \in Seq(Line), NEW x \in Games, NEW b \in 0 .. Len(lines),
         NEW k \in Nat, k < b, lines[k + 1].op # "name",
         \A g \in Games : s.names[g] = FirstName,
         s.arbiter.priority = 80 => s.arbiter.key.name = FirstName,
         Closes(s.pids, s.arbiter, lines, x, k, b)
  PROVE  Closes(FeedLine(s, lines[k + 1]).pids, FeedLine(s, lines[k + 1]).arbiter, lines, x, k + 1, b)
<1> DEFINE line == lines[k + 1]
           t == FeedLine(s, line)
<1>0. b \in Nat /\ k + 1 \in 1 .. Len(lines) /\ k + 1 \in k + 1 .. b
  OBVIOUS
<1>1. line \in Line /\ line.app \in Games /\ line.op \in {"track", "untrack", "remove"}
  BY <1>0, LineType
<1>2. ~(line.op = "remove" /\ line.app = x) /\ EndsIn(lines, x, k + 1, b)
      => EndsIn(lines, x, k + 2, b)
  <2> SUFFICES ASSUME ~(line.op = "remove" /\ line.app = x), EndsIn(lines, x, k + 1, b)
               PROVE  EndsIn(lines, x, k + 2, b)
    OBVIOUS
  <2>1. PICK i \in k + 1 .. b : lines[i].op = "remove" /\ lines[i].app = x
    BY DEF EndsIn
  <2>2. i # k + 1
    BY <2>1
  <2>3. i \in k + 2 .. b
    BY <1>0, <2>2
  <2> QED BY <2>1, <2>3 DEF EndsIn
<1>3. line.op = "track" /\ line.app = x => EndsIn(lines, x, k + 2, b)
  <2>1. line.op = "track" /\ line.app = x => EndsIn(lines, x, (k + 1) + 1, b)
    BY <1>0 DEF Closes
  <2>2. (k + 1) + 1 = k + 2
    OBVIOUS
  <2> HIDE DEF line
  <2> QED BY <2>1, <2>2
<1>4. \A i \in k + 2 .. b : lines[i].op = "track" /\ lines[i].app = x => EndsIn(lines, x, i + 1, b)
  <2>1. \A i \in k + 2 .. b : i \in k + 1 .. b
    BY <1>0
  <2> QED BY <2>1 DEF Closes
<1>5. t.pids[x] # {} => EndsIn(lines, x, k + 2, b)
  <2> SUFFICES ASSUME t.pids[x] # {} PROVE EndsIn(lines, x, k + 2, b)
    OBVIOUS
  <2>1. ~(line.op = "remove" /\ line.app = x)
    BY <1>1, FeedPids
  <2>2. CASE s.pids[x] # {}
    BY <1>2, <2>1, <2>2 DEF Closes
  <2>3. CASE s.pids[x] = {}
    <3>1. line.app = x /\ line.op # "untrack"
      BY <1>1, <2>3, FeedPids
    <3> QED BY <1>1, <1>3, <2>1, <3>1
  <2> QED BY <2>2, <2>3
<1>6. t.arbiter.priority = 80 /\ t.arbiter.key.app = x => EndsIn(lines, x, k + 2, b)
  <2> SUFFICES ASSUME t.arbiter.priority = 80, t.arbiter.key.app = x
               PROVE  EndsIn(lines, x, k + 2, b)
    OBVIOUS
  <2>0. s.names[line.app] = FirstName
    BY <1>1
  <2>1. CASE t.arbiter = s.arbiter
    <3>1. ~(line.op = "remove" /\ line.app = x)
      <4> SUFFICES ASSUME line.op = "remove", line.app = x PROVE FALSE
        OBVIOUS
      <4>1. t.arbiter = NoSource
        BY <1>1, <2>0, <2>1, FeedArbiter
      <4> QED BY <4>1 DEF NoSource
    <3> QED BY <1>2, <2>1, <3>1 DEF Closes
  <2>2. CASE t.arbiter # s.arbiter
    <3>1. CASE line.op = "remove"
      <4>1. t.arbiter = NoSource
        BY <1>1, <2>0, <2>2, <3>1, FeedArbiter
      <4> QED BY <4>1 DEF NoSource
    <3>2. CASE line.op # "remove"
      <4>1. line.op = "track" /\ t.arbiter.key.app = line.app
        BY <1>1, <2>0, <2>2, <3>2, FeedArbiter
      <4> QED BY <1>3, <4>1
    <3> QED BY <3>1, <3>2
  <2> QED BY <2>1, <2>2
<1>7. (k + 1) + 1 = k + 2
  OBVIOUS
<1> HIDE DEF t, line
<1>8. Closes(t.pids, t.arbiter, lines, x, k + 1, b)
  BY <1>4, <1>5, <1>6, <1>7 DEF Closes
<1> QED BY <1>8 DEF t, line

\* Nothing of the listed game's processes makes the reader know of another.
LEMMA FeedKnows ==
  ASSUME NEW s \in Reading, NEW line \in Line, line.op \in {"track", "untrack"},
         line.app \in listed, \A x, y \in listed : x = y,
         s.names[line.app] = FirstName, Knows(s.pids, s.arbiter)
  PROVE  Knows(FeedLine(s, line).pids, FeedLine(s, line).arbiter)
<1> DEFINE t == FeedLine(s, line)
<1>0. line.app \in Games /\ line.op # "name"
  BY LineType
<1>1. CASE t.arbiter = s.arbiter
  <2>1. ASSUME NEW x \in Games, t.pids[x] # {}
        PROVE  t.arbiter.priority = 80 /\ t.arbiter.key.app = x
    <3>1. CASE s.pids[x] # {}
      BY <1>1, <3>1 DEF Knows
    <3>2. CASE s.pids[x] = {}
      <4>1. line.app = x /\ line.op = "track"
        BY <2>1, <3>2, FeedPids
      <4> QED BY <1>0, <1>1, <3>2, <4>1, FeedArbiter
    <3> QED BY <3>1, <3>2
  <2> HIDE DEF t
  <2> QED BY <1>1, <2>1 DEF Knows, t
<1>2. CASE t.arbiter # s.arbiter
  <2>1. /\ t.arbiter.priority = 80 /\ t.arbiter.key # None /\ t.arbiter.key.app = line.app
        /\ line.op = "track" /\ s.pids[line.app] = {}
    BY <1>0, <1>2, FeedArbiter
  <2>2. ASSUME NEW x \in Games, t.pids[x] # {} PROVE x = line.app
    <3> SUFFICES ASSUME x # line.app PROVE FALSE
      OBVIOUS
    <3>1. s.pids[x] # {}
      BY <2>2, FeedPids
    <3>2. s.arbiter.priority = 80 /\ s.arbiter.key.app = x
      BY <3>1 DEF Knows
    <3>3. x \in listed
      BY <3>2 DEF Knows
    <3> QED BY <3>3
  <2> HIDE DEF t
  <2> QED BY <2>1, <2>2 DEF Knows, t
<1> QED BY <1>1, <1>2

\* The first process of the listed game, for a reader that knows of no game.
LEMMA FeedFirst ==
  ASSUME NEW s \in Reading, NEW line \in Line, line.op = "track", line.app \in listed,
         s.names[line.app] = FirstName, \A x \in Games : s.pids[x] = {}
  PROVE  Knows(FeedLine(s, line).pids, FeedLine(s, line).arbiter)
<1> DEFINE t == FeedLine(s, line)
<1>0. line.app \in Games /\ line.op # "name"
  BY LineType
<1>1. t.arbiter.priority = 80 /\ t.arbiter.key # None /\ t.arbiter.key.app = line.app
  BY <1>0, FeedArbiter
<1>2. \A x \in Games : t.pids[x] # {} => x = line.app
  BY FeedPids
<1> HIDE DEF t
<1> QED BY <1>1, <1>2 DEF Knows, t

\* What a turn of the reader is given.
Fed(base, lines, st) ==
    /\ lines \in Seq(Line)
    /\ Turn(base, lines, st)
    /\ \A i \in 1 .. Len(lines) : lines[i].op # "name"
    /\ \A k \in 0 .. Len(lines) :
        /\ \A g \in Games : st[k].names[g] = FirstName
        /\ st[k].arbiter.priority = 80 => st[k].arbiter.key.name = FirstName

\* One line of it.
LEMMA FedLine ==
  ASSUME NEW base, NEW lines, NEW st, Fed(base, lines, st), NEW k \in 1 .. Len(lines)
  PROVE  /\ lines[k] \in Line /\ lines[k].op # "name" /\ lines[k].app \in Games
         /\ st[k - 1] \in Reading /\ st[k] = FeedLine(st[k - 1], lines[k])
         /\ \A g \in Games : st[k - 1].names[g] = FirstName
         /\ st[k - 1].arbiter.priority = 80 => st[k - 1].arbiter.key.name = FirstName
<1>1. lines[k] \in Line /\ k - 1 \in 0 .. Len(lines) /\ k \in 0 .. Len(lines)
  BY DEF Fed
<1>2. lines[k].app \in Games
  BY <1>1, LineType
<1>3. st[k - 1] \in Reading /\ st[k] = FeedLine(st[k - 1], lines[k])
  BY <1>1 DEF Fed, Turn
<1> QED BY <1>1, <1>2, <1>3 DEF Fed

\* After the line up to which a game has ended the reader does not know it.
LEMMA TurnCloses ==
  ASSUME NEW base, NEW lines, NEW st, Fed(base, lines, st),
         NEW x \in Games, NEW b \in 0 .. Len(lines),
         Closes(base.pids, base.arbiter, lines, x, 0, b)
  PROVE  /\ st[b].pids[x] = {}
         /\ ~(st[b].arbiter.priority = 80 /\ st[b].arbiter.key.app = x)
<1> DEFINE P(k) == Closes(st[k].pids, st[k].arbiter, lines, x, k, b)
           B == {k \in Nat : k <= b /\ ~P(k)}
<1>0. Len(lines) \in Nat /\ b \in Nat /\ b <= Len(lines) /\ lines \in Seq(Line)
  BY DEF Fed
<1>1. P(0)
  BY DEF Fed, Turn
<1>2. ASSUME NEW k \in Nat, k < b, P(k) PROVE P(k + 1)
  <2>1. k + 1 \in 1 .. Len(lines) /\ (k + 1) - 1 = k
    BY <1>0, <1>2
  <2> DEFINE j == k + 1
  <2>2. /\ lines[j] \in Line /\ lines[j].op # "name"
        /\ st[j - 1] \in Reading /\ st[j] = FeedLine(st[j - 1], lines[j])
        /\ \A g \in Games : st[j - 1].names[g] = FirstName
        /\ st[j - 1].arbiter.priority = 80 => st[j - 1].arbiter.key.name = FirstName
    <3> HIDE DEF j
    <3> QED BY <2>1, FedLine DEF j
  <2>3. /\ lines[k + 1].op # "name" /\ st[k] \in Reading /\ st[k + 1] = FeedLine(st[k], lines[k + 1])
        /\ \A g \in Games : st[k].names[g] = FirstName
        /\ st[k].arbiter.priority = 80 => st[k].arbiter.key.name = FirstName
    BY <2>1, <2>2
  <2> QED BY <1>0, <1>2, <2>3, FeedCloses
<1>3. B = {}
  <2> SUFFICES ASSUME B # {} PROVE FALSE
    OBVIOUS
  <2> HIDE DEF P
  <2>1. PICK n \in B : \A k \in Nat : k < n => k \notin B
    <3>1. B \subseteq Nat
      OBVIOUS
    <3> HIDE DEF B
    <3> QED BY <3>1, Smallest
  <2>2. n # 0 /\ n \in Nat /\ n <= b /\ ~P(n)
    BY <1>1, <2>1
  <2>3. n - 1 \in Nat /\ n - 1 < n /\ n - 1 < b /\ (n - 1) + 1 = n
    BY <1>0, <2>2
  <2>4. P(n - 1)
    BY <1>0, <2>1, <2>3
  <2>5. P((n - 1) + 1)
    BY <1>2, <2>3, <2>4
  <2> QED BY <2>2, <2>3, <2>5
<1> HIDE DEF P
<1>4. P(b)
  BY <1>0, <1>3
<1>5. ~EndsIn(lines, x, b + 1, b)
  BY <1>0 DEF EndsIn
<1> QED BY <1>4, <1>5 DEF P, Closes

\* From where only the listed game's processes are left, the reader knows at the
\* end what it knew there.
LEMMA TurnKnows ==
  ASSUME NEW base, NEW lines, NEW st, Fed(base, lines, st), \A x, y \in listed : x = y,
         NEW b \in 0 .. Len(lines), OnlyListed(lines, b), NEW m \in b .. Len(lines),
         Knows(st[m].pids, st[m].arbiter)
  PROVE  Knows(st[Len(lines)].pids, st[Len(lines)].arbiter)
<1> DEFINE P(k) == Knows(st[k].pids, st[k].arbiter)
           N == Len(lines)
           B == {k \in Nat : m <= k /\ k <= N /\ ~P(k)}
<1>0. N \in Nat /\ b \in Nat /\ m \in Nat /\ b <= m /\ m <= N
  BY DEF Fed
<1>2. ASSUME NEW k \in Nat, m < k, k <= N, P(k - 1) PROVE P(k)
  <2>1. k \in 1 .. N /\ k \in b + 1 .. N
    BY <1>0, <1>2
  <2>2. /\ lines[k] \in Line /\ lines[k].app \in Games
        /\ st[k - 1] \in Reading /\ st[k] = FeedLine(st[k - 1], lines[k])
        /\ \A g \in Games : st[k - 1].names[g] = FirstName
    BY <2>1, FedLine
  <2>3. lines[k].op \in {"track", "untrack"} /\ lines[k].app \in listed
    BY <2>1 DEF OnlyListed
  <2> QED BY <1>2, <2>2, <2>3, FeedKnows
<1>3. B = {}
  <2> SUFFICES ASSUME B # {} PROVE FALSE
    OBVIOUS
  <2> HIDE DEF P
  <2>0. P(m)
    BY DEF P
  <2>1. PICK n \in B : \A k \in Nat : k < n => k \notin B
    <3>1. B \subseteq Nat
      OBVIOUS
    <3> HIDE DEF B
    <3> QED BY <3>1, Smallest
  <2>2. n # m /\ n \in Nat /\ m <= n /\ n <= N /\ ~P(n)
    BY <2>0, <2>1
  <2>3. n - 1 \in Nat /\ n - 1 < n /\ m <= n - 1 /\ n - 1 <= N /\ m < n
    BY <1>0, <2>2
  <2>4. P(n - 1)
    BY <2>1, <2>3
  <2> QED BY <1>2, <2>2, <2>3, <2>4
<1> HIDE DEF P
<1>4. P(N)
  BY <1>0, <1>3
<1> QED BY <1>4 DEF P

-----------------------------------------------------------------------------
(* Types *)

PluginType == [installed : BOOLEAN, due : 0 .. MaxReports, sent : Seq(Maybe(Games))]
LogType    == [unread : Seq(Line), rotated : BOOLEAN, alive : BOOLEAN]

\* TypeOK, with the arbiter's condition in its type.
LEMMA Types ==
  ASSUME TypeOK
  PROVE  /\ arbiter \in Arbiters
         /\ log \in LogType /\ log.unread \in Seq(Line) /\ Len(log.unread) \in Nat
         /\ Len(log.unread) <= MaxUnread
         /\ parser.pids \in [Games -> SUBSET Pids] /\ parser.names \in [Games -> Names]
         /\ queue \in Seq(Event)
         /\ current \in Maybe(Timed)
         /\ plugin \in PluginType /\ plugin.installed \in BOOLEAN /\ plugin.due \in 0 .. MaxReports
         /\ plugin.sent \in Seq(Maybe(Games))
         /\ listed \subseteq Games /\ procs \in [Games -> SUBSET Pids]
         /\ last # None => last \in Identity /\ last.source = "procfs"
BY DEF TypeOK, Arbiters, LogType, PluginType, Maybe, Identity

\* Nothing is a sequence of anything, and new values for the fields of the log and
\* of the plugin leave a log and a plugin.
LEMMA Empty == ASSUME NEW T PROVE <<>> \in Seq(T) /\ Len(<<>>) = 0
OBVIOUS

LEMMA ClearLog ==
  ASSUME NEW l \in LogType
  PROVE  /\ [l EXCEPT !.unread = <<>>, !.rotated = FALSE] \in LogType
         /\ [l EXCEPT !.unread = <<>>, !.rotated = FALSE].unread = <<>>
         /\ [l EXCEPT !.unread = <<>>, !.rotated = FALSE].alive = l.alive
         /\ [l EXCEPT !.alive = FALSE, !.unread = <<>>] \in LogType
         /\ [l EXCEPT !.alive = FALSE, !.unread = <<>>].unread = <<>>
<1>1. <<>> \in Seq(Line)
  BY Empty
<1> QED BY <1>1 DEF LogType

LEMMA SetPlugin ==
  ASSUME NEW p \in PluginType, NEW d \in 0 .. MaxReports, NEW q \in Seq(Maybe(Games))
  PROVE  /\ [p EXCEPT !.due = d, !.sent = q] \in PluginType
         /\ [p EXCEPT !.due = d, !.sent = q].due = d
         /\ [p EXCEPT !.due = d, !.sent = q].sent = q
         /\ [p EXCEPT !.due = d, !.sent = q].installed = p.installed
         /\ [p EXCEPT !.sent = q] \in PluginType
         /\ [p EXCEPT !.sent = q].due = p.due
         /\ [p EXCEPT !.sent = q].sent = q
         /\ [p EXCEPT !.sent = q].installed = p.installed
BY DEF PluginType

\* What a turn of the reader works on.
Base == [pids |-> parser.pids, names |-> parser.names, arbiter |-> arbiter, queue |-> queue]

\* A turn of the reader, line by line.
LEMMA ReadTurn ==
  ASSUME TypeOK, ReadLog, ~log.rotated
  PROVE  \E st : /\ Turn(Base, log.unread, st)
                 /\ LET s == st[Len(log.unread)]
                    IN  /\ s \in Reading
                        /\ parser' = [pids |-> s.pids, names |-> s.names]
                        /\ arbiter' = s.arbiter
                        /\ queue' = s.queue
                 /\ mishap' = mishap
<1>1. Base \in Reading
  BY Types DEF Base, Reading
<1>2. log.unread \in Seq(Line) /\ Len(log.unread) \in Nat
  BY Types
<1>3. PICK st : /\ Turn(Base, log.unread, st)
                /\ st[Len(log.unread)] = FoldLeft(FeedLine, Base, log.unread)
  BY <1>1, <1>2, TurnExists
<1> DEFINE s == FoldLeft(FeedLine, Base, log.unread)
<1>4. s \in Reading
  <2>1. Len(log.unread) \in 0 .. Len(log.unread)
    BY <1>2
  <2> HIDE DEF s
  <2> QED BY <1>3, <2>1 DEF Turn, s
<1>5. /\ parser' = [pids |-> s.pids, names |-> s.names]
      /\ arbiter' = s.arbiter
      /\ queue' = s.queue
      /\ mishap' = mishap
  BY DEF ReadLog, Base
<1> HIDE DEF s
<1> QED BY <1>3, <1>4, <1>5 DEF s

\* The outcome of a scan and the event it gives.
LEMMA ScanEvent ==
  ASSUME TypeOK, Scan
  PROVE  \E e \in Event :
           /\ arbiter' = ArbiterAfter(arbiter, e)
           /\ queue' = QueueAfter(arbiter, queue, e)
           /\ e.game.source = "procfs"
           /\ last' # None => /\ last' \in [app : Games, name : Names, source : {"procfs"}]
                              /\ last'.app \in WithProcesses
           /\ \/ last' = None /\ e.type = "stopped" /\ e.game = last /\ last # None
              \/ last' # None /\ e.type # "stopped" /\ e.game = last'
<1>1. PICK detected \in ScanResults :
        /\ detected # last
        /\ last' = detected
        /\ LET s == FoldLeft(Arbitrate, [arbiter |-> arbiter, queue |-> queue], ScanEvents(detected))
           IN  arbiter' = s.arbiter /\ queue' = s.queue
  BY DEF Scan
<1> DEFINE e == [type |-> IF detected = None THEN "stopped"
                          ELSE IF last = None THEN "started" ELSE "changed",
                 game |-> IF detected = None THEN last ELSE detected]
           b == [arbiter |-> arbiter, queue |-> queue]
<1>2. detected # None => /\ detected \in [app : Games, name : Names, source : {"procfs"}]
                         /\ detected.app \in WithProcesses
  BY DEF ScanResults, WithProcesses
<1>3. detected = None => last # None
  BY <1>1
<1>4. last # None => last \in Identity /\ last.source = "procfs"
  BY Types
<1>5. e \in Event /\ e.game.source = "procfs"
  BY <1>2, <1>3, <1>4 DEF Event, Identity
<1>6. ScanEvents(detected) = <<e>>
  BY DEF ScanEvents
<1>7. b \in Scanning /\ b.arbiter = arbiter /\ b.queue = queue
  BY Types DEF Scanning
<1>8. /\ detected = None => e.type = "stopped" /\ e.game = last
      /\ detected # None => e.type # "stopped" /\ e.game = detected
  OBVIOUS
<1> HIDE DEF e, b
<1>9. FoldLeft(Arbitrate, b, ScanEvents(detected)) = Arbitrate(b, e)
  BY <1>6, FoldOne
<1>10. arbiter' = ArbiterAfter(arbiter, e) /\ queue' = QueueAfter(arbiter, queue, e)
  BY <1>1, <1>5, <1>7, <1>9, ArbitrateScanning DEF b
<1> QED BY <1>1, <1>2, <1>3, <1>5, <1>8, <1>10

\* The initial types.
LEMMA InitTypes == Init => TypeOK
<1> SUFFICES ASSUME Init PROVE TypeOK
  OBVIOUS
<1>1. listed \subseteq Games /\ procs \in [Games -> SUBSET Pids]
  BY DEF Init
<1>2. log \in [unread : Seq(Line), rotated : BOOLEAN, alive : BOOLEAN] /\ Len(log.unread) <= MaxUnread
  BY BoundAssumption DEF Init
<1>3. parser \in [pids : [Games -> SUBSET Pids], names : [Games -> Names]]
  BY NameAssumption DEF Init, NoProcs
<1>4. /\ arbiter \in [priority : {0, 50, 80}, key : Maybe(Key)]
      /\ (arbiter.priority = 0) = (arbiter.key = None)
  BY DEF Init, NoSource, Maybe
<1>5. plugin \in [installed : BOOLEAN, due : 0 .. MaxReports, sent : Seq(Maybe(Games))]
  <2>1. 0 \in 0 .. MaxReports /\ <<>> \in Seq(Maybe(Games))
    BY BoundAssumption, Empty
  <2> QED BY <2>1, PluginAssumption DEF Init
<1>6. last \in Maybe([app : Games, name : Names, source : {"procfs"}]) /\ current \in Maybe(Timed)
  BY DEF Init, Maybe
<1>7. queue \in Seq(Event) /\ recent \in BOOLEAN /\ mishap \in BOOLEAN
  BY Empty DEF Init
<1>8. overlap \in BOOLEAN
  BY DEF Init
<1> QED BY <1>1, <1>2, <1>3, <1>4, <1>5, <1>6, <1>7, <1>8 DEF TypeOK

\* A line that is written is one more that is not read.
LEMMA WrittenType ==
  ASSUME TypeOK, NEW line \in Line, Written(line)
  PROVE  log' \in LogType /\ Len(log'.unread) <= MaxUnread
<1>1. CASE log.alive
  <2>1. log' = [log EXCEPT !.unread = Append(log.unread, line)] /\ Len(log.unread) < MaxUnread
    BY <1>1 DEF Written
  <2>2. Append(log.unread, line) \in Seq(Line) /\ Len(Append(log.unread, line)) = Len(log.unread) + 1
    BY Types
  <2>3. log' \in LogType /\ log'.unread = Append(log.unread, line)
    BY <2>1, <2>2, Types DEF LogType
  <2> QED BY <2>1, <2>2, <2>3, Types, BoundAssumption
<1>2. CASE ~log.alive
  BY <1>2, Types DEF Written
<1> QED BY <1>1, <1>2

\* A change of the list of games tells the plugin.
LEMMA ListedType ==
  ASSUME TypeOK, NEW games \in SUBSET Games, Listed(games)
  PROVE  /\ listed' = games
         /\ overlap' \in BOOLEAN
         /\ plugin' \in PluginType
         /\ plugin'.sent = plugin.sent /\ plugin'.installed = plugin.installed
         /\ plugin.installed /\ games # listed => plugin'.due > 0
         /\ games = listed \/ ~plugin.installed => plugin' = plugin
<1>1. listed' = games /\ overlap' \in BOOLEAN
  BY DEF Listed
<1>2. CASE games = listed
  BY <1>1, <1>2, Types DEF Listed
<1>3. CASE games # listed
  <2>1. plugin' = [plugin EXCEPT !.due = IF plugin.installed THEN plugin.due + 1 ELSE plugin.due]
        /\ plugin.due < MaxReports
    BY <1>3 DEF Listed, Notification
  <2>2. plugin \in PluginType /\ plugin.due \in 0 .. MaxReports
    BY Types
  <2>3. plugin.due + 1 \in 0 .. MaxReports /\ plugin.due + 1 > 0
    BY <2>1, <2>2, BoundAssumption
  <2> QED BY <1>1, <1>3, <2>1, <2>2, <2>3 DEF PluginType
<1> QED BY <1>2, <1>3

\* Every step keeps the types.
LEMMA NextTypes == TypeOK /\ [Next]_vars => TypeOK'
<1> SUFFICES ASSUME TypeOK, [Next]_vars PROVE TypeOK'
  OBVIOUS
<1>0. /\ MaxReports \in Nat /\ log \in LogType /\ plugin \in PluginType
      /\ mishap \in BOOLEAN
  BY Types, BoundAssumption DEF TypeOK
<1>1. ASSUME NEW g \in Games, NEW p \in Pids, ProcessStarts(g, p) PROVE TypeOK'
  <2>1. [op |-> "track", app |-> g, pid |-> p] \in Line
    BY DEF Line
  <2>2. log' \in LogType /\ Len(log'.unread) <= MaxUnread
    BY <1>1, <2>1, WrittenType DEF ProcessStarts
  <2>3. listed \cup {g} \in SUBSET Games
    BY Types
  <2>4. listed' = listed \cup {g} /\ overlap' \in BOOLEAN /\ plugin' \in PluginType
    BY <1>1, <2>3, ListedType DEF ProcessStarts
  <2>5. procs' \in [Games -> SUBSET Pids]
    BY <1>1, Types DEF ProcessStarts
  <2> QED BY <1>1, <2>2, <2>3, <2>4, <2>5 DEF ProcessStarts, Daemon, TypeOK, LogType, PluginType
<1>2. ASSUME NEW g \in Games, NEW p \in Pids, ProcessEnds(g, p) PROVE TypeOK'
  <2>1. [op |-> "untrack", app |-> g, pid |-> p] \in Line
    BY DEF Line
  <2>2. log' \in LogType /\ Len(log'.unread) <= MaxUnread
    BY <1>2, <2>1, WrittenType DEF ProcessEnds
  <2>3. procs' \in [Games -> SUBSET Pids]
    BY <1>2, Types DEF ProcessEnds
  <2> QED BY <1>2, <2>2, <2>3 DEF ProcessEnds, Daemon, TypeOK, LogType
<1>3. ASSUME NEW g \in Games, GameEnds(g) PROVE TypeOK'
  <2>1. [op |-> "remove", app |-> g] \in Line
    BY DEF Line
  <2>2. log' \in LogType /\ Len(log'.unread) <= MaxUnread
    BY <1>3, <2>1, WrittenType DEF GameEnds
  <2>3. listed \ {g} \in SUBSET Games
    BY Types
  <2>4. listed' = listed \ {g} /\ overlap' \in BOOLEAN /\ plugin' \in PluginType
    BY <1>3, <2>3, ListedType DEF GameEnds
  <2>5. procs' \in [Games -> SUBSET Pids]
    BY <1>3, Types DEF GameEnds
  <2> QED BY <1>3, <2>2, <2>3, <2>4, <2>5 DEF GameEnds, Daemon, TypeOK, LogType, PluginType
<1>4. ASSUME NEW g \in Games, NEW n \in Names, Renamed(g, n) PROVE TypeOK'
  <2>1. [op |-> "name", app |-> g, name |-> n] \in Line
    BY DEF Line
  <2>2. log' \in LogType /\ Len(log'.unread) <= MaxUnread
    BY <1>4, <2>1, WrittenType DEF Renamed
  <2> QED BY <1>4, <2>2 DEF Renamed, Daemon, steam, TypeOK, LogType
<1>5. CASE Rotated
  <2>1. log' \in LogType /\ log'.unread = log.unread
    BY <1>0, <1>5 DEF Rotated, LogType
  <2> QED BY <1>5, <2>1 DEF Rotated, Daemon, steam, TypeOK, LogType
<1>6. CASE ReadLog
  <2>1. log' \in LogType /\ Len(log'.unread) <= MaxUnread
    <3>1. log' = [log EXCEPT !.unread = <<>>, !.rotated = FALSE]
      BY <1>6 DEF ReadLog
    <3>2. log' \in LogType /\ log'.unread = <<>>
      BY <1>0, <3>1, ClearLog
    <3> QED BY <3>2, BoundAssumption
  <2>2. mishap' \in BOOLEAN
    BY <1>0, <1>6 DEF ReadLog
  <2>3. CASE log.rotated
    BY <1>6, <2>1, <2>2, <2>3 DEF ReadLog, steam, TypeOK, LogType
  <2>4. CASE ~log.rotated
    <3>1. PICK s \in Reading : /\ parser' = [pids |-> s.pids, names |-> s.names]
                               /\ arbiter' = s.arbiter
                               /\ queue' = s.queue
      BY <1>6, <2>4, ReadTurn
    <3>2. /\ parser' \in [pids : [Games -> SUBSET Pids], names : [Games -> Names]]
          /\ arbiter' \in Arbiters /\ queue' \in Seq(Event)
      BY <3>1 DEF Reading
    <3> QED BY <1>6, <2>1, <2>2, <3>2 DEF ReadLog, steam, TypeOK, LogType, Arbiters
  <2> QED BY <2>3, <2>4
<1>7. CASE ReaderFails
  <2>1. log' \in LogType /\ Len(log'.unread) <= MaxUnread
    <3>1. log' = [log EXCEPT !.alive = FALSE, !.unread = <<>>]
      BY <1>7 DEF ReaderFails
    <3>2. log' \in LogType /\ log'.unread = <<>>
      BY <1>0, <3>1, ClearLog
    <3> QED BY <3>2, BoundAssumption
  <2> QED BY <1>7, <2>1 DEF ReaderFails, Daemon, steam, TypeOK, LogType
<1>8. CASE Scan
  <2>1. PICK e \in Event :
           /\ arbiter' = ArbiterAfter(arbiter, e)
           /\ queue' = QueueAfter(arbiter, queue, e)
           /\ last' # None => last' \in [app : Games, name : Names, source : {"procfs"}]
    BY <1>8, ScanEvent
  <2>2. arbiter' \in Arbiters /\ queue' \in Seq(Event)
    BY <2>1, Types, AfterType
  <2> QED BY <1>8, <2>1, <2>2 DEF Scan, steam, TypeOK, Maybe, Arbiters
<1>9. CASE Consume
  <2>1. queue' \in Seq(Event) /\ Head(queue) \in Event
    BY <1>9, Types DEF Consume
  <2>2. Head(queue).game.app \in Games /\ Head(queue).game.source \in {"steam_log", "procfs"}
    BY <2>1, EventType
  <2>3. current' \in Maybe(Timed)
    BY <1>9, <2>2, Types DEF Consume, Consumed, Maybe, Timed
  <2> QED BY <1>9, <2>1, <2>3 DEF Consume, steam, TypeOK
<1>10. ASSUME NEW d \in 0 .. MaxReports, Report(d) PROVE TypeOK'
  <2>1. PICK g \in Foreground : plugin' = [plugin EXCEPT !.due = d, !.sent = Append(plugin.sent, g)]
    BY <1>10 DEF Report
  <2>2. g \in Maybe(Games)
    BY Types DEF Foreground, Maybe
  <2>3. plugin' \in PluginType
    <3>1. Append(plugin.sent, g) \in Seq(Maybe(Games))
      BY <2>2, Types
    <3> QED BY <1>0, <2>1, <3>1, SetPlugin
  <2> QED BY <1>10, <2>3 DEF Report, Daemon, steam, TypeOK, PluginType
<1>11. CASE ReportDue
  <2>1. plugin.due - 1 \in 0 .. MaxReports
    BY <1>0, <1>11, Types DEF ReportDue
  <2> QED BY <1>10, <1>11, <2>1 DEF ReportDue
<1>12. CASE ReportFromPanel
  BY <1>10, <1>12, Types DEF ReportFromPanel
<1>13. CASE ReportLost
  <2>1. plugin' \in PluginType
    <3>1. Tail(plugin.sent) \in Seq(Maybe(Games)) /\ plugin' = [plugin EXCEPT !.sent = Tail(plugin.sent)]
      BY <1>13, Types DEF ReportLost
    <3> QED BY <1>0, <3>1, Types, SetPlugin
  <2> QED BY <1>13, <2>1 DEF ReportLost, Daemon, steam, TypeOK, PluginType
<1>14. CASE SignalExpires
  BY <1>14 DEF SignalExpires, steam, TypeOK
<1>15. CASE Restart
  <2>1. log' \in LogType /\ Len(log'.unread) <= MaxUnread
    BY <1>15, BoundAssumption DEF Restart, LogType
  <2>2. parser' \in [pids : [Games -> SUBSET Pids], names : [Games -> Names]]
    BY <1>15, NameAssumption DEF Restart, NoProcs
  <2>3. arbiter' \in Arbiters
    BY <1>15 DEF Restart, NoSource, Arbiters, Maybe
  <2>4. plugin' \in PluginType
    <3>1. plugin' = [plugin EXCEPT !.sent = <<>>]
      BY <1>15 DEF Restart
    <3> QED BY <1>0, <3>1, Empty, Types, SetPlugin
  <2>5. /\ last' \in Maybe([app : Games, name : Names, source : {"procfs"}])
        /\ current' \in Maybe(Timed)
    BY <1>15 DEF Restart, Maybe
  <2>6. queue' \in Seq(Event) /\ recent' \in BOOLEAN /\ mishap' \in BOOLEAN
    BY <1>15, Empty DEF Restart
  <2>7. listed' = listed /\ procs' = procs /\ overlap' = overlap
    BY <1>15 DEF Restart, steam
  <2> QED BY <2>1, <2>2, <2>3, <2>4, <2>5, <2>6, <2>7 DEF TypeOK, PluginType, LogType, Arbiters
<1>16. ASSUME NEW i \in 1 .. MaxReports, ReportArrives(i) PROVE TypeOK'
  <2>1. i \in 1 .. Len(plugin.sent) /\ plugin.sent[i] \in Maybe(Games)
    BY <1>16, Types DEF ReportArrives
  <2>2. RemoveAt(plugin.sent, i) \in Seq(Maybe(Games))
    BY <2>1, Types DEF RemoveAt
  <2>3. plugin' \in PluginType
    BY <1>0, <1>16, <2>2 DEF ReportArrives, PluginType
  <2>4. current' \in Maybe(Timed)
    BY <1>16, <2>1 DEF ReportArrives, Maybe, Timed
  <2>5. mishap' \in BOOLEAN
    BY <1>0, <1>16 DEF ReportArrives
  <2> QED BY <1>16, <2>3, <2>4, <2>5 DEF ReportArrives, steam, TypeOK, PluginType
<1>17. CASE UNCHANGED vars
  BY <1>17 DEF vars, TypeOK
<1> QED BY <1>1, <1>2, <1>3, <1>4, <1>5, <1>6, <1>7, <1>8, <1>9, <1>11, <1>12, <1>13,
           <1>14, <1>15, <1>16, <1>17 DEF Next, SteamStep

\* The detectors, the queues and the plugin keep their types, the log's bound and the
\* link between the arbiter's priority and its key.
THEOREM TypeCorrect == Spec => []TypeOK
BY InitTypes, NextTypes, PTL DEF Spec

-----------------------------------------------------------------------------
(* The parts of the invariant, one by one *)

\* Games that are not more than one are one.
LEMMA AtMostOne ==
  ASSUME NEW T \in SUBSET Games, ~(Cardinality(T) > 1)
  PROVE  \A x, y \in T : x = y
<1> SUFFICES ASSUME NEW x \in T, NEW y \in T, x # y PROVE FALSE
  OBVIOUS
<1>1. IsFiniteSet(T)
  BY GamesAssumption, FS_Subset
<1>2. {x, y} \subseteq T
  OBVIOUS
<1>3. Cardinality({x, y}) = 2 /\ IsFiniteSet({x, y})
  <2>1. IsFiniteSet({x}) /\ Cardinality({x}) = 1
    BY FS_Singleton
  <2>2. Cardinality({x} \cup {y}) = 2 /\ IsFiniteSet({x} \cup {y})
    BY <2>1, FS_AddElement
  <2>3. {x} \cup {y} = {x, y}
    OBVIOUS
  <2> QED BY <2>2, <2>3
<1>4. Cardinality({x, y}) <= Cardinality(T) /\ Cardinality(T) \in Nat
  BY <1>1, <1>2, FS_Subset, FS_CardinalityType
<1> QED BY <1>3, <1>4

\* An end stays an end when a line is added.
LEMMA EndsAppend ==
  ASSUME NEW u \in Seq(Line), NEW line \in Line, NEW x, NEW i \in Nat, i >= 1, NEW j \in Nat,
         j <= Len(u), EndsIn(u, x, i, j)
  PROVE  EndsIn(Append(u, line), x, i, j) /\ EndsIn(Append(u, line), x, i, Len(u) + 1)
<1>1. PICK k \in i .. j : u[k].op = "remove" /\ u[k].app = x
  BY DEF EndsIn
<1>2. k \in 1 .. Len(u) /\ k \in i .. Len(u) + 1
  OBVIOUS
<1>3. Append(u, line)[k] = u[k]
  BY <1>2
<1> QED BY <1>1, <1>2, <1>3 DEF EndsIn

\* What ends in the lines up to b still does.
LEMMA ClosesPrefix ==
  ASSUME NEW pids, NEW a, NEW u \in Seq(Line), NEW line \in Line, NEW x, NEW b \in 0 .. Len(u),
         Closes(pids, a, u, x, 0, b)
  PROVE  Closes(pids, a, Append(u, line), x, 0, b)
<1> DEFINE v == Append(u, line)
<1>0. b \in Nat /\ b <= Len(u) /\ Len(u) \in Nat
  OBVIOUS
<1>1. EndsIn(u, x, 0 + 1, b) => EndsIn(v, x, 0 + 1, b)
  <2>1. 0 + 1 = 1 /\ 1 \in Nat /\ 1 >= 1
    OBVIOUS
  <2>2. EndsIn(u, x, 1, b) => EndsIn(v, x, 1, b)
    BY <1>0, <2>1, EndsAppend
  <2> HIDE DEF v
  <2> QED BY <2>1, <2>2
<1>2. ASSUME NEW i \in 0 + 1 .. b, v[i].op = "track", v[i].app = x PROVE EndsIn(v, x, i + 1, b)
  <2>1. i \in 1 .. Len(u) /\ i + 1 \in Nat /\ i + 1 >= 1
    BY <1>0
  <2>2. v[i] = u[i]
    BY <2>1
  <2>3. EndsIn(u, x, i + 1, b)
    BY <1>2, <2>2 DEF Closes
  <2> QED BY <1>0, <2>1, <2>3, EndsAppend
<1> HIDE DEF v
<1> QED BY <1>1, <1>2 DEF Closes, v

\* A line that is not of a process of x changes nothing for x.
LEMMA ClosesOther ==
  ASSUME NEW pids, NEW a, NEW u \in Seq(Line), NEW line \in Line, NEW x,
         ~(line.op = "track" /\ line.app = x), Closes(pids, a, u, x, 0, Len(u))
  PROVE  Closes(pids, a, Append(u, line), x, 0, Len(u) + 1)
<1> DEFINE v == Append(u, line)
           n == Len(u)
<1>0. n \in Nat
  OBVIOUS
<1>1. EndsIn(u, x, 0 + 1, n) => EndsIn(v, x, 0 + 1, n + 1)
  BY <1>0, EndsAppend
<1>2. ASSUME NEW i \in 0 + 1 .. n + 1, v[i].op = "track", v[i].app = x PROVE EndsIn(v, x, i + 1, n + 1)
  <2>0. i # n + 1
    BY <1>2
  <2>1. i \in 1 .. n /\ i + 1 \in Nat /\ i + 1 >= 1
    BY <1>0, <2>0
  <2>2. v[i] = u[i]
    BY <2>1
  <2>3. EndsIn(u, x, i + 1, n)
    BY <1>2, <2>1, <2>2 DEF Closes
  <2> QED BY <1>0, <2>1, <2>3, EndsAppend
<1> HIDE DEF v
<1> QED BY <1>1, <1>2 DEF Closes, v

\* The end of x ends everything of x.
LEMMA ClosesEnd ==
  ASSUME NEW pids, NEW a, NEW u \in Seq(Line), NEW line \in Line, NEW x,
         line.op = "remove", line.app = x
  PROVE  Closes(pids, a, Append(u, line), x, 0, Len(u) + 1)
<1> DEFINE v == Append(u, line)
           n == Len(u)
<1>0. n \in Nat /\ v[n + 1] = line
  OBVIOUS
<1>1. \A i \in 1 .. n + 1 : EndsIn(v, x, i, n + 1)
  BY <1>0 DEF EndsIn
<1>2. ASSUME NEW i \in 0 + 1 .. n + 1, v[i].op = "track", v[i].app = x PROVE EndsIn(v, x, i + 1, n + 1)
  <2>1. i # n + 1
    BY <1>0, <1>2
  <2>2. i + 1 \in 1 .. n + 1
    BY <1>0, <2>1
  <2> QED BY <1>1, <2>2
<1>3. EndsIn(v, x, 0 + 1, n + 1)
  BY <1>0, <1>1
<1> HIDE DEF v
<1> QED BY <1>2, <1>3 DEF Closes, v

\* With another arbiter, which is the log's only if it was before.
LEMMA ClosesArbiter ==
  ASSUME NEW pids, NEW a, NEW b, NEW u, NEW x, NEW k, NEW m, Closes(pids, a, u, x, k, m),
         b.priority = 80 => b = a
  PROVE  Closes(pids, b, u, x, k, m)
BY DEF Closes

\* Without lines, and with nothing known, there is nothing to end.
LEMMA ClosesEmpty ==
  ASSUME NEW pids, NEW a, NEW x, pids[x] = {}, ~(a.priority = 80 /\ a.key.app = x)
  PROVE  Closes(pids, a, <<>>, x, 0, 0)
BY DEF Closes

\* The queue without the plugin's or any game.
LEMMA QueuedWithout ==
  ASSUME NEW a, NEW q \in Seq(Event), NEW c, NEW d, Queued(a, q, c), d = None \/ d.source = "decky"
  PROVE  Queued(a, q, d)
<1>1. Len(q) \in Nat
  OBVIOUS
<1>2. \A k \in 0 .. Len(q) : Left(d, q, k) \subseteq Left(c, q, k)
  BY <1>1 DEF Left
<1>3. \A k \in 1 .. Len(q) : k - 1 \in 0 .. Len(q)
  BY <1>1
<1>4. Len(q) \in 0 .. Len(q)
  BY <1>1
<1>5. \A k \in 1 .. Len(q) : q[k].type = "stopped" => Left(d, q, k - 1) \subseteq {q[k].game.app}
  <2> SUFFICES ASSUME NEW k \in 1 .. Len(q), q[k].type = "stopped"
               PROVE  Left(d, q, k - 1) \subseteq {q[k].game.app}
    OBVIOUS
  <2>1. Left(c, q, k - 1) \subseteq {q[k].game.app}
    BY DEF Queued
  <2> QED BY <1>2, <1>3, <2>1
<1> QED BY <1>2, <1>4, <1>5 DEF Queued

\* The queue after its first event is consumed.
LEMMA QueuedTail ==
  ASSUME NEW a, NEW q \in Seq(Event), q # <<>>, NEW c, NEW d, Queued(a, q, c),
         Left(d, Tail(q), 0) \subseteq Left(c, q, 1)
  PROVE  Queued(a, Tail(q), d)
<1> DEFINE t == Tail(q)
           n == Len(q)
<1>1. n \in Nat /\ n >= 1 /\ Len(t) = n - 1 /\ t \in Seq(Event)
  OBVIOUS
<1>2. \A k \in 1 .. n - 1 : t[k] = q[k + 1]
  OBVIOUS
<1>3. \A k \in 0 .. n - 1 : Left(d, t, k) \subseteq Left(c, q, k + 1)
  <2> TAKE k \in 0 .. n - 1
  <2>1. CASE k = 0
    BY <2>1
  <2>2. CASE k # 0
    <3>1. t[k] = q[k + 1] /\ k + 1 # 0
      BY <1>1, <1>2, <2>2
    <3> HIDE DEF t
    <3> QED BY <2>2, <3>1 DEF Left
  <2> QED BY <2>1, <2>2
<1>4. ASSUME NEW k \in 1 .. n - 1, t[k].type = "stopped"
      PROVE  Left(d, t, k - 1) \subseteq {t[k].game.app}
  <2>1. k - 1 \in 0 .. n - 1 /\ (k - 1) + 1 = k /\ k + 1 \in 1 .. n /\ (k + 1) - 1 = k
    BY <1>1
  <2>2. t[k] = q[k + 1]
    BY <1>2
  <2>3. Left(c, q, (k + 1) - 1) \subseteq {q[k + 1].game.app}
    BY <1>4, <2>1, <2>2 DEF Queued
  <2>4. Left(d, t, k - 1) \subseteq Left(c, q, (k - 1) + 1)
    BY <1>3, <2>1
  <2> HIDE DEF t
  <2> QED BY <2>1, <2>2, <2>3, <2>4
<1>5. Left(d, t, n - 1) \subseteq Left(c, q, n)
  <2>1. n - 1 \in 0 .. n - 1 /\ (n - 1) + 1 = n
    BY <1>1
  <2> HIDE DEF t
  <2> QED BY <1>3, <2>1
<1>6. t # <<>> => t[Len(t)] = q[n]
  <2> SUFFICES ASSUME t # <<>> PROVE t[Len(t)] = q[n]
    OBVIOUS
  <2>1. Len(t) \in 1 .. n - 1 /\ Len(t) + 1 = n
    BY <1>1
  <2> HIDE DEF t
  <2> QED BY <1>2, <2>1
<1> HIDE DEF t
<1> QED BY <1>1, <1>4, <1>5, <1>6 DEF Queued, t

\* No event, no change of the source in charge.
LEMMA AfterQuiet ==
  ASSUME NEW a, NEW q \in Seq(Event), NEW event \in Event, QueueAfter(a, q, event) = <<>>
  PROVE  ArbiterAfter(a, event) = a /\ q = <<>>
<1>1. Append(q, event) # <<>>
  <2>1. Len(Append(q, event)) = Len(q) + 1 /\ Len(q) \in Nat
    OBVIOUS
  <2>2. Len(<<>>) = 0
    OBVIOUS
  <2> QED BY <2>1, <2>2
<1>2. ~Forwarded(a, event)
  BY <1>1 DEF QueueAfter
<1> QED BY <1>2 DEF ArbiterAfter, QueueAfter

\* So it is with a line ...
LEMMA FeedQuiet ==
  ASSUME NEW s \in Reading, NEW line \in Line, FeedLine(s, line).queue = <<>>
  PROVE  FeedLine(s, line).arbiter = s.arbiter /\ s.queue = <<>>
<1>0. s.queue \in Seq(Event) /\ line.app \in Games
  BY LineType DEF Reading
<1>1. ASSUME NEW type \in {"started", "stopped"},
             QueueAfter(s.arbiter, s.queue, SteamEvent(type, s, line.app)) = <<>>
      PROVE  /\ ArbiterAfter(s.arbiter, SteamEvent(type, s, line.app)) = s.arbiter
             /\ s.queue = <<>>
  <2>1. SteamEvent(type, s, line.app) \in Event
    BY <1>0, SteamEventType
  <2> QED BY <1>0, <1>1, <2>1, AfterQuiet
<1>2. CASE line.op \in {"name", "untrack"} \/ (line.op = "track" /\ s.pids[line.app] # {})
  BY <1>2, FeedFields
<1>3. CASE line.op = "track" /\ s.pids[line.app] = {}
  BY <1>1, <1>3, FeedFields
<1>4. CASE line.op = "remove"
  BY <1>1, <1>4, FeedFields
<1> QED BY <1>2, <1>3, <1>4, LineType

\* ... and with a turn of the reader.
LEMMA TurnQuiet ==
  ASSUME NEW base, NEW lines \in Seq(Line), NEW st, Turn(base, lines, st),
         st[Len(lines)].queue = <<>>
  PROVE  st[Len(lines)].arbiter = base.arbiter /\ base.queue = <<>>
<1> DEFINE N == Len(lines)
           P(k) == st[k].queue = <<>> => st[k].arbiter = base.arbiter /\ base.queue = <<>>
           B == {k \in Nat : k <= N /\ ~P(k)}
<1>0. N \in Nat
  OBVIOUS
<1>1. P(0)
  BY DEF Turn
<1>2. ASSUME NEW k \in 1 .. N, P(k - 1) PROVE P(k)
  <2>1. k - 1 \in 0 .. N /\ lines[k] \in Line
    BY <1>0
  <2>2. st[k - 1] \in Reading /\ st[k] = FeedLine(st[k - 1], lines[k])
    BY <2>1 DEF Turn
  <2> QED BY <1>2, <2>1, <2>2, FeedQuiet
<1>3. B = {}
  <2> SUFFICES ASSUME B # {} PROVE FALSE
    OBVIOUS
  <2> HIDE DEF P
  <2>1. PICK n \in B : \A k \in Nat : k < n => k \notin B
    <3>1. B \subseteq Nat
      OBVIOUS
    <3> HIDE DEF B
    <3> QED BY <3>1, Smallest
  <2>2. n # 0 /\ n \in Nat /\ n <= N /\ ~P(n)
    BY <1>1, <2>1
  <2>3. n \in 1 .. N /\ n - 1 \in Nat /\ n - 1 < n /\ n - 1 <= N
    BY <1>0, <2>2
  <2>4. P(n - 1)
    BY <2>1, <2>3
  <2> QED BY <1>2, <2>2, <2>3, <2>4
<1> HIDE DEF P
<1>4. P(N)
  BY <1>0, <1>3
<1> QED BY <1>4 DEF P

-----------------------------------------------------------------------------
(* One step per action *)

\* A change of the list of games keeps the plugin's word good: it tells the plugin.
LEMMA ListedReported ==
  ASSUME TypeOK, Always, NEW games \in SUBSET Games, Listed(games),
         UNCHANGED <<arbiter, queue, current>>
  PROVE  /\ ~plugin'.installed => /\ plugin'.due = 0 /\ plugin'.sent = <<>>
                                  /\ current' # None => current'.source # "decky"
         /\ Reported => Reported'
         /\ Served => Served'
         /\ ~overlap' => \A x, y \in listed' : x = y
<1>1. /\ listed' = games /\ plugin' \in PluginType
      /\ plugin'.sent = plugin.sent /\ plugin'.installed = plugin.installed
      /\ plugin.installed /\ games # listed => plugin'.due > 0
      /\ games = listed \/ ~plugin.installed => plugin' = plugin
  BY ListedType
<1>2. plugin.installed \in BOOLEAN /\ plugin'.due \in Nat /\ plugin.due \in Nat
  BY <1>1, Types, BoundAssumption DEF PluginType
<1>3. ~overlap' => \A x, y \in listed' : x = y
  BY <1>1, AtMostOne DEF Listed
<1>4. CASE plugin.installed /\ games # listed
  <2>1. plugin'.due > 0
    BY <1>1, <1>4
  <2>2. plugin'.due # 0
    BY <1>2, <2>1
  <2> QED BY <1>1, <1>3, <1>4, <2>1, <2>2 DEF Reported, Served
<1>5. CASE ~plugin.installed
  <2>1. plugin' = plugin
    BY <1>1, <1>5
  <2>2. /\ plugin.due = 0 /\ plugin.sent = <<>>
        /\ current # None => current.source # "decky"
    BY <1>5 DEF Always
  <2>3. Reported'
    BY <2>1, <2>2 DEF Reported
  <2>4. Served => Served'
    BY <1>5, <2>1 DEF Served
  <2> QED BY <1>3, <2>1, <2>2, <2>3, <2>4
<1>6. CASE plugin.installed /\ games = listed
  <2>1. plugin' = plugin /\ listed' = listed
    BY <1>1, <1>6
  <2>2. Reported => Reported'
    BY <2>1 DEF Reported, Foreground
  <2>3. Served => Served'
    BY <2>1 DEF Served
  <2> QED BY <1>3, <1>6, <2>1, <2>2, <2>3
<1> QED BY <1>2, <1>4, <1>5, <1>6

\* What Steam writes, while there is a reader.
LEMMA WrittenLine ==
  ASSUME TypeOK, NEW line \in Line, Written(line), log.alive, line.op # "name",
         \A i \in 1 .. Len(log.unread) : log.unread[i].op # "name"
  PROVE  /\ log'.alive
         /\ log'.unread = Append(log.unread, line)
         /\ Len(log'.unread) = Len(log.unread) + 1
         /\ log'.unread[Len(log.unread) + 1] = line
         /\ \A i \in 1 .. Len(log.unread) : log'.unread[i] = log.unread[i]
         /\ \A i \in 1 .. Len(log'.unread) : log'.unread[i].op # "name"
<1>1. log \in LogType /\ log.unread \in Seq(Line)
  BY Types
<1>2. log' = [log EXCEPT !.unread = Append(log.unread, line)]
  BY DEF Written
<1>3. log'.alive /\ log'.unread = Append(log.unread, line)
  BY <1>1, <1>2 DEF LogType
<1>4. /\ Len(log'.unread) = Len(log.unread) + 1 /\ Len(log.unread) \in Nat
      /\ log'.unread[Len(log.unread) + 1] = line
      /\ \A i \in 1 .. Len(log.unread) : log'.unread[i] = log.unread[i]
  BY <1>1, <1>3
<1>5. ASSUME NEW i \in 1 .. Len(log'.unread) PROVE log'.unread[i].op # "name"
  <2>1. i = Len(log.unread) + 1 \/ i \in 1 .. Len(log.unread)
    BY <1>4
  <2> QED BY <1>4, <2>1
<1> QED BY <1>3, <1>4, <1>5

\* A process starts.  The game is listed afterwards; if none was, everything before
\* has ended and this line is where the reader learns of it.
LEMMA StartsKeeps ==
  ASSUME DetInv, NEW g \in Games, NEW p \in Pids, ProcessStarts(g, p)
  PROVE  Always' /\ (~mishap' => Sane')
<1> DEFINE line == [op |-> "track", app |-> g, pid |-> p]
           u == log.unread
           n == Len(u)
<1>0. TypeOK /\ Always
  BY DEF DetInv
<1>1. /\ listed' = listed \cup {g} /\ listed \cup {g} \in SUBSET Games
      /\ Listed(listed \cup {g}) /\ Written(line)
      /\ UNCHANGED <<parser, last, arbiter, queue, current, recent, mishap>>
      /\ procs' = [procs EXCEPT ![g] = procs[g] \cup {p}]
  BY <1>0, Types DEF ProcessStarts, Listed, Daemon
<1>2. line \in Line /\ line.op = "track" /\ line.app = g
  BY DEF Line
<1>3. /\ ~plugin'.installed => /\ plugin'.due = 0 /\ plugin'.sent = <<>>
                               /\ current' # None => current'.source # "decky"
      /\ Reported => Reported'
      /\ Served => Served'
      /\ ~overlap' => \A x, y \in listed' : x = y
  BY <1>0, <1>1, ListedReported
<1>4. Always'
  <2>1. \A x \in Games : procs'[x] # {} => x \in listed'
    BY <1>0, <1>1, Types DEF Always
  <2> QED BY <1>3, <2>1 DEF Always
<1>5. ASSUME ~mishap' PROVE Sane'
  <2>0. Sane
    BY <1>1, <1>5 DEF DetInv
  <2> HIDE DEF line
  <2>1. /\ log'.alive /\ log'.unread = Append(u, line) /\ Len(log'.unread) = n + 1
        /\ log'.unread[n + 1] = line /\ \A i \in 1 .. n : log'.unread[i] = u[i]
        /\ \A i \in 1 .. Len(log'.unread) : log'.unread[i].op # "name"
    BY <1>0, <1>1, <1>2, <2>0, WrittenLine DEF Sane, Followed
  <2>2. u \in Seq(Line) /\ n \in Nat
    BY <1>0, Types
  <2>3. Followed'
    <3>1. ASSUME NEW x \in Games, x \notin listed'
          PROVE  Closes(parser.pids, arbiter, log'.unread, x, 0, n + 1)
      <4>1. x \notin listed /\ x # g
        BY <1>1, <3>1
      <4>2. Closes(parser.pids, arbiter, u, x, 0, n)
        BY <2>0, <4>1 DEF Sane, Followed
      <4> QED BY <1>2, <2>1, <2>2, <4>1, <4>2, ClosesOther
    <3> QED BY <1>1, <2>0, <2>1, <3>1 DEF Sane, Followed
  <2>4. InOrder(arbiter, queue, current, last)'
    BY <1>1, <2>0 DEF Sane, InOrder, Queued, Left
  <2>5. ASSUME ~overlap' PROVE Sequential'
    <3>1. CASE listed = {}
      <4>1. \A x \in Games : Closes(parser.pids, arbiter, u, x, 0, n)
        BY <2>0, <3>1 DEF Sane, Followed
      <4>2. \A x \in Games : Closes(parser.pids, arbiter, log'.unread, x, 0, n)
        <5>1. n \in 0 .. Len(u)
          BY <2>2
        <5> QED BY <1>2, <2>1, <2>2, <4>1, <5>1, ClosesPrefix
      <4>3. \A i \in n + 1 .. Len(log'.unread) : /\ log'.unread[i].op \in {"track", "untrack"}
                                                 /\ log'.unread[i].app \in listed'
        <5>1. \A i \in n + 1 .. n + 1 : i = n + 1
          BY <2>2
        <5> QED BY <1>1, <1>2, <2>1, <5>1
      <4>4. n \in 0 .. Len(log'.unread) /\ n < Len(log'.unread)
        BY <2>1, <2>2
      <4>5. log'.unread[n + 1].op = "track"
        BY <1>2, <2>1
      <4> QED BY <1>1, <4>2, <4>3, <4>4, <4>5 DEF Sequential, OnlyListed
    <3>2. CASE listed # {}
      <4>1. listed' = listed /\ ~overlap
        BY <1>1, <1>3, <2>5, <3>2 DEF Listed
      <4>2. PICK b \in 0 .. n :
               /\ OnlyListed(u, b)
               /\ \/ b = 0 /\ Knows(parser.pids, arbiter)
                  \/ /\ \A x \in Games : Closes(parser.pids, arbiter, u, x, 0, b)
                     /\ \/ listed = {}
                        \/ b < n /\ u[b + 1].op = "track"
        BY <2>0, <4>1 DEF Sane, Sequential
      <4>3. b \in Nat /\ b <= n /\ b \in 0 .. n + 1
        BY <2>2
      <4>4. ASSUME NEW i \in b + 1 .. n + 1
            PROVE  log'.unread[i].op \in {"track", "untrack"} /\ log'.unread[i].app \in listed
        <5>1. i = n + 1 \/ (i \in b + 1 .. n /\ i \in 1 .. n)
          BY <2>2, <4>3
        <5> QED BY <1>1, <1>2, <2>1, <4>1, <4>2, <5>1 DEF OnlyListed
      <4>5. CASE b = 0 /\ Knows(parser.pids, arbiter)
        <5>1. Knows(parser.pids, arbiter)'
          BY <1>1, <4>1, <4>5 DEF Knows
        <5> QED BY <2>1, <4>1, <4>3, <4>4, <4>5, <5>1 DEF Sequential, OnlyListed
      <4>6. CASE /\ \A x \in Games : Closes(parser.pids, arbiter, u, x, 0, b)
                 /\ b < n /\ u[b + 1].op = "track"
        <5>1. \A x \in Games : Closes(parser.pids, arbiter, log'.unread, x, 0, b)
          BY <1>2, <2>1, <2>2, <4>6, ClosesPrefix
        <5>2. b + 1 \in 1 .. n /\ b < n + 1
          BY <2>2, <4>3, <4>6
        <5>3. log'.unread[b + 1].op = "track"
          BY <2>1, <4>6, <5>2
        <5> QED BY <1>1, <2>1, <4>1, <4>3, <4>4, <5>1, <5>2, <5>3 DEF Sequential, OnlyListed
      <4> QED BY <3>2, <4>2, <4>5, <4>6
    <3> QED BY <3>1, <3>2
  <2> QED BY <1>3, <2>0, <2>3, <2>4, <2>5 DEF Sane
<1> QED BY <1>4, <1>5

\* A process ends: a line of the game that is listed.
LEMMA EndsKeeps ==
  ASSUME DetInv, NEW g \in Games, NEW p \in Pids, ProcessEnds(g, p)
  PROVE  Always' /\ (~mishap' => Sane')
<1> DEFINE line == [op |-> "untrack", app |-> g, pid |-> p]
           u == log.unread
           n == Len(u)
<1>0. TypeOK /\ Always
  BY DEF DetInv
<1>1. /\ p \in procs[g] /\ Written(line)
      /\ UNCHANGED <<listed, plugin, overlap, parser, last, arbiter, queue, current, recent, mishap>>
      /\ procs' = [procs EXCEPT ![g] = procs[g] \ {p}]
  BY DEF ProcessEnds, Daemon
<1>2. line \in Line /\ line.op = "untrack" /\ line.app = g
  BY DEF Line
<1>3. g \in listed
  BY <1>0, <1>1 DEF Always
<1>4. Always'
  <2>1. \A x \in Games : procs'[x] # {} => x \in listed'
    BY <1>0, <1>1, <1>3, Types DEF Always
  <2> QED BY <1>0, <1>1, <2>1 DEF Always
<1>5. ASSUME ~mishap' PROVE Sane'
  <2>0. Sane
    BY <1>1, <1>5 DEF DetInv
  <2> HIDE DEF line
  <2>1. /\ log'.alive /\ log'.unread = Append(u, line) /\ Len(log'.unread) = n + 1
        /\ log'.unread[n + 1] = line /\ \A i \in 1 .. n : log'.unread[i] = u[i]
        /\ \A i \in 1 .. Len(log'.unread) : log'.unread[i].op # "name"
    BY <1>0, <1>1, <1>2, <2>0, WrittenLine DEF Sane, Followed
  <2>2. u \in Seq(Line) /\ n \in Nat
    BY <1>0, Types
  <2>3. Followed'
    <3>1. ASSUME NEW x \in Games, x \notin listed
          PROVE  Closes(parser.pids, arbiter, log'.unread, x, 0, n + 1)
      <4>1. Closes(parser.pids, arbiter, u, x, 0, n)
        BY <2>0, <3>1 DEF Sane, Followed
      <4> QED BY <1>2, <2>1, <2>2, <4>1, ClosesOther
    <3> QED BY <1>1, <2>0, <2>1, <3>1 DEF Sane, Followed
  <2>4. InOrder(arbiter, queue, current, last)'
    BY <1>1, <2>0 DEF Sane, InOrder, Queued, Left
  <2>5. Reported' /\ Served'
    BY <1>1, <2>0 DEF Sane, Reported, Foreground, Served
  <2>6. ASSUME ~overlap' PROVE Sequential'
    <3>1. PICK b \in 0 .. n :
             /\ OnlyListed(u, b)
             /\ \/ b = 0 /\ Knows(parser.pids, arbiter)
                \/ /\ \A x \in Games : Closes(parser.pids, arbiter, u, x, 0, b)
                   /\ \/ listed = {}
                      \/ b < n /\ u[b + 1].op = "track"
      BY <1>1, <2>0, <2>6 DEF Sane, Sequential
    <3>2. b \in Nat /\ b <= n /\ b \in 0 .. n + 1
      BY <2>2
    <3>3. ASSUME NEW i \in b + 1 .. n + 1
          PROVE  log'.unread[i].op \in {"track", "untrack"} /\ log'.unread[i].app \in listed
      <4>1. i = n + 1 \/ (i \in b + 1 .. n /\ i \in 1 .. n)
        BY <2>2, <3>2
      <4> QED BY <1>2, <1>3, <2>1, <3>1, <4>1 DEF OnlyListed
    <3>4. CASE b = 0 /\ Knows(parser.pids, arbiter)
      <4>1. Knows(parser.pids, arbiter)'
        BY <1>1, <3>4 DEF Knows
      <4> QED BY <1>1, <2>1, <3>2, <3>3, <3>4, <4>1 DEF Sequential, OnlyListed
    <3>5. CASE /\ \A x \in Games : Closes(parser.pids, arbiter, u, x, 0, b)
               /\ b < n /\ u[b + 1].op = "track"
      <4>1. \A x \in Games : Closes(parser.pids, arbiter, log'.unread, x, 0, b)
        BY <1>2, <2>1, <2>2, <3>5, ClosesPrefix
      <4>2. b + 1 \in 1 .. n /\ b < n + 1
        BY <2>2, <3>2, <3>5
      <4>3. log'.unread[b + 1].op = "track"
        BY <2>1, <3>5, <4>2
      <4> QED BY <1>1, <2>1, <3>2, <3>3, <4>1, <4>2, <4>3 DEF Sequential, OnlyListed
    <3> QED BY <1>3, <3>1, <3>4, <3>5
  <2> QED BY <2>3, <2>4, <2>5, <2>6 DEF Sane
<1> QED BY <1>4, <1>5

\* A game ends.  If another is listed, two games were; if none is, everything has
\* ended with this line.
LEMMA GameEndsKeeps ==
  ASSUME DetInv, NEW g \in Games, GameEnds(g)
  PROVE  Always' /\ (~mishap' => Sane')
<1> DEFINE line == [op |-> "remove", app |-> g]
           u == log.unread
           n == Len(u)
<1>0. TypeOK /\ Always
  BY DEF DetInv
<1>1. /\ g \in listed /\ listed' = listed \ {g} /\ listed \ {g} \in SUBSET Games
      /\ Listed(listed \ {g}) /\ Written(line)
      /\ UNCHANGED <<parser, last, arbiter, queue, current, recent, mishap>>
      /\ procs' = [procs EXCEPT ![g] = {}]
  BY <1>0, Types DEF GameEnds, Listed, Daemon
<1>2. line \in Line /\ line.op = "remove" /\ line.app = g
  BY DEF Line
<1>3. /\ ~plugin'.installed => /\ plugin'.due = 0 /\ plugin'.sent = <<>>
                               /\ current' # None => current'.source # "decky"
      /\ Reported => Reported'
      /\ Served => Served'
      /\ ~overlap' => \A x, y \in listed' : x = y
  BY <1>0, <1>1, ListedReported
<1>4. Always'
  <2>1. \A x \in Games : procs'[x] # {} => x \in listed'
    BY <1>0, <1>1, Types DEF Always
  <2> QED BY <1>3, <2>1 DEF Always
<1>5. ASSUME ~mishap' PROVE Sane'
  <2>0. Sane
    BY <1>1, <1>5 DEF DetInv
  <2> HIDE DEF line
  <2>1. /\ log'.alive /\ log'.unread = Append(u, line) /\ Len(log'.unread) = n + 1
        /\ log'.unread[n + 1] = line /\ \A i \in 1 .. n : log'.unread[i] = u[i]
        /\ \A i \in 1 .. Len(log'.unread) : log'.unread[i].op # "name"
    BY <1>0, <1>1, <1>2, <2>0, WrittenLine DEF Sane, Followed
  <2>2. u \in Seq(Line) /\ n \in Nat
    BY <1>0, Types
  <2>3. ASSUME NEW x \in Games, x \notin listed'
        PROVE  Closes(parser.pids, arbiter, log'.unread, x, 0, n + 1)
    <3>1. CASE x = g
      BY <1>2, <2>1, <2>2, <3>1, ClosesEnd
    <3>2. CASE x # g
      <4>1. x \notin listed
        BY <1>1, <2>3, <3>2
      <4>2. Closes(parser.pids, arbiter, u, x, 0, n)
        BY <2>0, <4>1 DEF Sane, Followed
      <4> QED BY <1>2, <2>1, <2>2, <4>2, ClosesOther
    <3> QED BY <3>1, <3>2
  <2>4. Followed'
    BY <1>1, <2>0, <2>1, <2>3 DEF Sane, Followed
  <2>5. InOrder(arbiter, queue, current, last)'
    BY <1>1, <2>0 DEF Sane, InOrder, Queued, Left
  <2>6. ASSUME ~overlap' PROVE Sequential'
    <3>1. listed' = {}
      <4> SUFFICES ASSUME listed' # {} PROVE FALSE
        OBVIOUS
      <4>1. ~overlap
        BY <1>1, <2>6 DEF Listed
      <4> QED BY <1>0, <1>1, <4>1 DEF Always
    <3>2. n + 1 \in 0 .. n + 1 /\ \A i \in (n + 1) + 1 .. n + 1 : FALSE
      BY <2>2
    <3> QED BY <1>1, <2>1, <2>3, <3>1, <3>2 DEF Sequential, OnlyListed
  <2> QED BY <1>3, <2>0, <2>4, <2>5, <2>6 DEF Sane
<1> QED BY <1>4, <1>5

\* What is needed of the lines the reader is given.
LEMMA TurnFed ==
  ASSUME TypeOK, Sane, NEW st, Turn(Base, log.unread, st)
  PROVE  /\ Fed(Base, log.unread, st)
         /\ \A k \in 0 .. Len(log.unread) :
              InOrder(st[k].arbiter, st[k].queue, current, last)
<1>1. log.unread \in Seq(Line)
  BY Types
<1>2. /\ \A i \in 1 .. Len(log.unread) : log.unread[i].op # "name"
      /\ \A g \in Games : Base.names[g] = FirstName
      /\ InOrder(Base.arbiter, Base.queue, current, last)
  BY DEF Sane, Followed, Base
<1>3. \A k \in 0 .. Len(log.unread) : /\ \A g \in Games : st[k].names[g] = FirstName
                                      /\ InOrder(st[k].arbiter, st[k].queue, current, last)
  <2>1. ASSUME NEW u, u = log.unread, NEW c, c = current, NEW l, l = last
        PROVE  \A k \in 0 .. Len(u) : /\ \A g \in Games : st[k].names[g] = FirstName
                                      /\ InOrder(st[k].arbiter, st[k].queue, c, l)
    <3>1. Turn(Base, u, st) /\ u \in Seq(Line) /\ \A i \in 1 .. Len(u) : u[i].op # "name"
      BY <1>1, <1>2, <2>1
    <3>2. InOrder(Base.arbiter, Base.queue, c, l)
      BY <1>2, <2>1
    <3> QED BY ONLY <1>2, <3>1, <3>2, TurnInOrder
  <2> QED BY <2>1
<1>4. \A k \in 0 .. Len(log.unread) :
         st[k].arbiter.priority = 80 => st[k].arbiter.key.name = FirstName
  BY <1>3 DEF InOrder
<1> QED BY <1>1, <1>2, <1>3, <1>4 DEF Fed

\* A turn of the reader.
LEMMA ReadKeeps ==
  ASSUME DetInv, ReadLog
  PROVE  Always' /\ (~mishap' => Sane')
<1> DEFINE u == log.unread
           n == Len(u)
<1>0. TypeOK /\ Always
  BY DEF DetInv
<1>1. /\ UNCHANGED <<listed, procs, last, current, recent, plugin, overlap>>
      /\ log' = [log EXCEPT !.unread = <<>>, !.rotated = FALSE]
  BY DEF ReadLog, steam
<1>2. log'.unread = <<>> /\ log'.alive = log.alive /\ Len(log'.unread) = 0
  <2>1. log'.unread = <<>> /\ log'.alive = log.alive
    BY <1>0, <1>1, Types, ClearLog
  <2> QED BY <2>1
<1>3. Always'
  BY <1>0, <1>1 DEF Always
<1>4. u \in Seq(Line) /\ n \in Nat
  BY <1>0, Types
<1>5. CASE log.rotated /\ ~mishap'
  <2>1. UNCHANGED <<parser, arbiter, queue>> /\ u = <<>> /\ ~mishap
    BY <1>5 DEF ReadLog
  <2>2. Sane
    BY <2>1 DEF DetInv
  <2>3. log'.unread = log.unread /\ log'.alive = log.alive
    BY <1>2, <2>1
  <2>4. Followed'
    BY <1>1, <2>1, <2>2, <2>3 DEF Sane, Followed
  <2>5. InOrder(arbiter, queue, current, last)'
    BY <1>1, <2>1, <2>2 DEF Sane, InOrder, Queued, Left
  <2>6. Reported' /\ Served'
    BY <1>1, <2>1, <2>2 DEF Sane, Reported, Foreground, Served
  <2>7. ~overlap' => Sequential'
    BY <1>1, <2>1, <2>2, <2>3 DEF Sane, Sequential, OnlyListed, Knows
  <2> QED BY <1>3, <2>4, <2>5, <2>6, <2>7 DEF Sane
<1>6. CASE ~log.rotated /\ ~mishap'
  <2>1. PICK st : /\ Turn(Base, u, st)
                  /\ st[n] \in Reading
                  /\ parser' = [pids |-> st[n].pids, names |-> st[n].names]
                  /\ arbiter' = st[n].arbiter
                  /\ queue' = st[n].queue
                  /\ mishap' = mishap
    BY <1>0, <1>6, ReadTurn
  <2>2. Sane
    BY <1>6, <2>1 DEF DetInv
  <2>3. /\ Fed(Base, u, st)
        /\ \A k \in 0 .. n : InOrder(st[k].arbiter, st[k].queue, current, last)
    BY <1>0, <2>1, <2>2, TurnFed
  <2>4. parser'.pids = st[n].pids /\ parser'.names = st[n].names
    BY <2>1
  <2>5. 0 \in 0 .. n /\ n \in 0 .. n /\ Base.pids = parser.pids /\ Base.arbiter = arbiter
        /\ Base.queue = queue /\ st[0] = Base
    BY <1>4, <2>1 DEF Base, Turn
  <2>6. InOrder(arbiter, queue, current, last)'
    <3>1. InOrder(arbiter', queue', current, last)
      BY <2>1, <2>3, <2>5
    <3> QED BY <1>1, <3>1 DEF InOrder, Queued, Left
  <2>7. Followed'
    <3>1. ASSUME NEW x \in Games, x \notin listed PROVE Closes(parser'.pids, arbiter', <<>>, x, 0, 0)
      <4>1. Closes(Base.pids, Base.arbiter, u, x, 0, n)
        BY <2>2, <2>5, <3>1 DEF Sane, Followed
      <4>2. st[n].pids[x] = {} /\ ~(st[n].arbiter.priority = 80 /\ st[n].arbiter.key.app = x)
        BY <2>3, <2>5, <4>1, TurnCloses
      <4> QED BY <2>1, <2>4, <4>2, ClosesEmpty
    <3>2. \A g \in Games : parser'.names[g] = FirstName
      BY <2>3, <2>4, <2>5 DEF Fed
    <3> QED BY <1>1, <1>2, <2>2, <3>1, <3>2 DEF Sane, Followed
  <2>8. Reported'
    BY <1>1, <2>2 DEF Sane, Reported, Foreground
  <2>9. Served'
    <3>1. queue' = <<>> => arbiter' = arbiter /\ queue = <<>>
      BY <1>4, <2>1, <2>5, TurnQuiet
    <3> QED BY <1>1, <2>2, <3>1 DEF Sane, Served
  <2>10. ASSUME ~overlap' PROVE Sequential'
    <3>0. \A x, y \in listed : x = y
      BY <1>0, <1>1, <2>10 DEF Always
    <3>1. PICK b \in 0 .. n :
             /\ OnlyListed(u, b)
             /\ \/ b = 0 /\ Knows(parser.pids, arbiter)
                \/ /\ \A x \in Games : Closes(parser.pids, arbiter, u, x, 0, b)
                   /\ \/ listed = {}
                      \/ b < n /\ u[b + 1].op = "track"
      BY <1>1, <2>2, <2>10 DEF Sane, Sequential
    <3>2. b \in Nat /\ b <= n
      BY <1>4
    <3>3. ASSUME Knows(st[n].pids, st[n].arbiter) PROVE Sequential'
      <4>1. Knows(parser.pids, arbiter)'
        BY <1>1, <2>1, <2>4, <3>3 DEF Knows
      <4>2. 0 \in 0 .. Len(log'.unread) /\ \A i \in 0 + 1 .. Len(log'.unread) : FALSE
        BY <1>2
      <4> QED BY <4>1, <4>2 DEF Sequential, OnlyListed
    <3>4. CASE b = 0 /\ Knows(parser.pids, arbiter)
      <4>1. Knows(st[0].pids, st[0].arbiter) /\ 0 \in b .. n
        BY <1>4, <2>5, <3>4
      <4> QED BY <2>3, <3>0, <3>1, <3>3, <4>1, TurnKnows
    <3>5. CASE \A x \in Games : Closes(parser.pids, arbiter, u, x, 0, b)
      <4>1. \A x \in Games : /\ st[b].pids[x] = {}
                             /\ ~(st[b].arbiter.priority = 80 /\ st[b].arbiter.key.app = x)
        BY <2>3, <2>5, <3>5, TurnCloses
      <4>2. CASE listed = {}
        <5>1. b = n
          <6> SUFFICES ASSUME b # n PROVE FALSE
            OBVIOUS
          <6>1. n \in b + 1 .. n
            BY <1>4, <3>2
          <6> QED BY <3>1, <4>2, <6>1 DEF OnlyListed
        <5>2. \A x \in Games : Closes(parser'.pids, arbiter', <<>>, x, 0, 0)
          BY <2>1, <2>4, <4>1, <5>1, ClosesEmpty
        <5>3. 0 \in 0 .. Len(log'.unread) /\ \A i \in 0 + 1 .. Len(log'.unread) : FALSE
          BY <1>2
        <5> QED BY <1>1, <1>2, <4>2, <5>2, <5>3 DEF Sequential, OnlyListed
      <4>3. CASE b < n /\ u[b + 1].op = "track"
        <5>1. b + 1 \in 1 .. n /\ b + 1 \in b + 1 .. n /\ b + 1 \in b .. n /\ (b + 1) - 1 = b
          BY <1>4, <3>2, <4>3
        <5> DEFINE j == b + 1
        <5>2. /\ u[j] \in Line /\ u[j].app \in Games
              /\ st[j - 1] \in Reading /\ st[j] = FeedLine(st[j - 1], u[j])
              /\ \A g \in Games : st[j - 1].names[g] = FirstName
          <6> HIDE DEF j
          <6> QED BY <2>3, <5>1, FedLine DEF j
        <5>3. st[b] \in Reading /\ st[j] = FeedLine(st[b], u[j]) /\ st[b].names[u[j].app] = FirstName
          BY <5>1, <5>2
        <5>4. u[j].app \in listed
          BY <3>1, <5>1 DEF OnlyListed
        <5>5. Knows(st[j].pids, st[j].arbiter)
          <6> HIDE DEF j
          <6> QED BY <4>1, <4>3, <5>2, <5>3, <5>4, FeedFirst DEF j
        <5> QED BY <2>3, <3>0, <3>1, <3>3, <5>1, <5>5, TurnKnows
      <4>4. CASE b = 0 /\ Knows(parser.pids, arbiter)
        BY <3>4, <4>4
      <4> QED BY <3>1, <4>2, <4>3, <4>4
    <3> QED BY <3>1, <3>4, <3>5
  <2> QED BY <1>3, <2>6, <2>7, <2>8, <2>9, <2>10 DEF Sane
<1> QED BY <1>3, <1>5, <1>6

\* What follows the first element of a sequence.
LEMMA TailOf ==
  ASSUME NEW T, NEW q \in Seq(T), q # <<>>
  PROVE  /\ Len(q) >= 1 /\ Len(Tail(q)) = Len(q) - 1
         /\ \A k \in 1 .. Len(q) - 1 : Tail(q)[k] = q[k + 1]
         /\ Len(q) = 1 => Tail(q) = <<>>
<1>1. Len(q) \in Nat /\ Len(q) >= 1
  OBVIOUS
<1>2. Tail(q) \in Seq(T) /\ Len(Tail(q)) = Len(q) - 1
  OBVIOUS
<1>3. \A k \in 1 .. Len(q) - 1 : Tail(q)[k] = q[k + 1]
  OBVIOUS
<1>4. Len(q) = 1 => Tail(q) = <<>>
  <2> DEFINE t == Tail(q)
  <2>1. Len(q) = 1 => Len(t) = 0
    BY <1>2
  <2>2. t \in Seq(T)
    BY <1>2
  <2> HIDE DEF t
  <2>3. Len(t) = 0 => t = <<>>
    BY <2>2
  <2> QED BY <2>1, <2>3 DEF t
<1> QED BY <1>1, <1>2, <1>3, <1>4

\* A scan.
LEMMA ScanKeeps ==
  ASSUME DetInv, Scan
  PROVE  Always' /\ (~mishap' => Sane')
<1>0. TypeOK /\ Always
  BY DEF DetInv
<1>1. UNCHANGED <<listed, procs, log, parser, current, recent, plugin, mishap, overlap>>
  BY DEF Scan, steam
<1>2. Always'
  BY <1>0, <1>1 DEF Always
<1>3. ASSUME ~mishap' PROVE Sane'
  <2>0. Sane
    BY <1>1, <1>3 DEF DetInv
  <2>1. PICK e \in Event :
           /\ arbiter' = ArbiterAfter(arbiter, e)
           /\ queue' = QueueAfter(arbiter, queue, e)
           /\ e.game.source = "procfs"
           /\ last' # None => last'.app \in WithProcesses
           /\ \/ last' = None /\ e.type = "stopped" /\ e.game = last /\ last # None
              \/ last' # None /\ e.type # "stopped" /\ e.game = last'
    BY <1>0, ScanEvent
  <2>2. arbiter \in Arbiters /\ queue \in Seq(Event)
    BY <1>0, Types
  <2>3. /\ InOrder(arbiter', queue', current, last')
        /\ arbiter.priority = 80 => arbiter' = arbiter
        /\ arbiter.priority # 80 => arbiter'.priority # 80
        /\ last' # None => arbiter'.key # None
    BY <2>0, <2>1, <2>2, ScanInOrder DEF Sane
  <2>4. InOrder(arbiter, queue, current, last)'
    BY <1>1, <2>3 DEF InOrder, Queued, Left
  <2>5. \A x, b : Closes(parser.pids, arbiter, log.unread, x, 0, b)
                  => Closes(parser.pids, arbiter', log.unread, x, 0, b)
    BY <2>3, ClosesArbiter
  <2>6. Followed'
    <3>1. \A x \in Games \ listed :
            Closes(parser.pids, arbiter', log.unread, x, 0, Len(log.unread))
      BY <2>0, <2>5 DEF Sane, Followed
    <3> QED BY <1>1, <2>0, <3>1 DEF Sane, Followed
  <2>7. Reported'
    BY <1>1, <2>0 DEF Sane, Reported, Foreground
  <2>8. Served'
    <3>1. queue' = <<>> => arbiter' = arbiter /\ queue = <<>>
      BY <2>1, <2>2, AfterQuiet
    <3> QED BY <1>1, <2>0, <3>1 DEF Sane, Served
  <2>9. ASSUME ~overlap' PROVE Sequential'
    <3>1. PICK b \in 0 .. Len(log.unread) :
             /\ OnlyListed(log.unread, b)
             /\ \/ b = 0 /\ Knows(parser.pids, arbiter)
                \/ /\ \A x \in Games : Closes(parser.pids, arbiter, log.unread, x, 0, b)
                   /\ \/ listed = {}
                      \/ b < Len(log.unread) /\ log.unread[b + 1].op = "track"
      BY <1>1, <2>0, <2>9 DEF Sane, Sequential
    <3>2. OnlyListed(log.unread, b)'
      BY <1>1, <3>1 DEF OnlyListed
    <3>3. CASE Knows(parser.pids, arbiter) /\ b = 0
      <4>1. Knows(parser.pids, arbiter)'
        BY <1>1, <2>3, <3>3 DEF Knows
      <4> QED BY <1>1, <3>1, <3>2, <3>3, <4>1 DEF Sequential
    <3>4. CASE /\ \A x \in Games : Closes(parser.pids, arbiter, log.unread, x, 0, b)
               /\ \/ listed = {}
                  \/ b < Len(log.unread) /\ log.unread[b + 1].op = "track"
      <4>1. \A x \in Games : Closes(parser.pids, arbiter', log.unread, x, 0, b)
        BY <2>5, <3>4
      <4> QED BY <1>1, <3>1, <3>2, <3>4, <4>1 DEF Sequential
    <3> QED BY <3>1, <3>3, <3>4
  <2> QED BY <2>4, <2>6, <2>7, <2>8, <2>9 DEF Sane
<1> QED BY <1>2, <1>3

\* The consumer takes an event.
LEMMA ConsumeKeeps ==
  ASSUME DetInv, Consume
  PROVE  Always' /\ (~mishap' => Sane')
<1> DEFINE e == Head(queue)
<1>0. TypeOK /\ Always
  BY DEF DetInv
<1>1. /\ UNCHANGED <<listed, procs, log, parser, last, arbiter, recent, plugin, mishap, overlap>>
      /\ queue # <<>> /\ queue' = Tail(queue) /\ current' = Consumed(e)
  BY DEF Consume, steam
<1>2. queue \in Seq(Event) /\ e \in Event /\ e = queue[1] /\ Len(queue) \in Nat /\ Len(queue) >= 1
  BY <1>0, <1>1, Types
<1>3. e.game.app \in Games /\ e.game.source \in {"steam_log", "procfs"}
  BY <1>2, EventType
<1>4. [app |-> e.game.app, source |-> e.game.source] \in Timed
  BY <1>3 DEF Timed
<1> HIDE DEF e
<1>5. /\ current' = current \/ current' = None
         \/ current' = [app |-> e.game.app, source |-> e.game.source]
      /\ e.type # "stopped" => current' # None
      /\ e.type = "stopped" => current' = current \/ current' = None
      /\ e.type = "stopped" /\ current # None /\ current' # None /\ current.source # "decky"
         => current.app # e.game.app /\ current' = current
      /\ e.type # "stopped" /\ current' = current /\ current # None /\ current.source # "decky"
         => current.app = e.game.app
  <2>1. CASE recent /\ current # None /\ current.source = "decky"
    BY <1>1, <2>1 DEF Consumed
  <2>2. CASE ~(recent /\ current # None /\ current.source = "decky") /\ e.type = "stopped"
    <3>1. current' = IF current # None /\ current.app # e.game.app THEN current ELSE None
      BY <1>1, <2>2 DEF Consumed
    <3> QED BY <2>2, <3>1
  <2>3. CASE ~(recent /\ current # None /\ current.source = "decky") /\ e.type # "stopped"
    <3>1. current' = [app |-> e.game.app, source |-> e.game.source]
      BY <1>1, <2>3 DEF Consumed
    <3>2. current' # None /\ current'.app = e.game.app
      BY <1>4, <3>1, NoneAssumption
    <3> QED BY <2>3, <3>1, <3>2
  <2> QED BY <2>1, <2>2, <2>3
<1>6. current' # None /\ current'.source = "decky" => current' = current
  BY <1>3, <1>5
<1>7. Always'
  BY <1>0, <1>1, <1>6 DEF Always
<1>8. ASSUME ~mishap' PROVE Sane'
  <2>0. Sane
    BY <1>1, <1>8 DEF DetInv
  <2>1. Left(current', Tail(queue), 0) \subseteq Left(current, queue, 1)
    <3>1. CASE current' = None \/ current'.source = "decky"
      BY <3>1 DEF Left
    <3>2. CASE current' # None /\ current'.source # "decky"
      <4>1. Left(current', Tail(queue), 0) = {current'.app}
        BY <3>2 DEF Left
      <4>2. CASE e.type = "stopped"
        <5>1. current' = current
          BY <1>5, <3>2, <4>2
        <5>2. current.app # e.game.app
          BY <1>5, <3>2, <4>2, <5>1
        <5>3. 1 \in 1 .. Len(queue) /\ 1 - 1 = 0
          BY <1>2
        <5>4. Left(current, queue, 1 - 1) \subseteq {e.game.app}
          BY <1>2, <2>0, <4>2, <5>3 DEF Sane, InOrder, Queued
        <5>5. Left(current, queue, 0) = {current.app}
          BY <3>2, <5>1 DEF Left
        <5> QED BY <5>2, <5>3, <5>4, <5>5
      <4>3. CASE e.type # "stopped"
        <5>1. current'.app = e.game.app
          BY <1>5, <3>2, <4>3
        <5>2. Left(current, queue, 1) = {e.game.app}
          BY <1>2, <4>3 DEF Left
        <5> QED BY <4>1, <5>1, <5>2
      <4> QED BY <4>2, <4>3
    <3> QED BY <3>1, <3>2
  <2>2. Queued(arbiter, Tail(queue), current')
    BY <1>1, <1>2, <2>0, <2>1, QueuedTail DEF Sane, InOrder
  <2>3. InOrder(arbiter, queue, current, last)'
    <3>1. InOrder(arbiter, queue', current', last)
      BY <1>1, <2>0, <2>2 DEF Sane, InOrder
    <3> QED BY <1>1, <3>1 DEF InOrder, Queued, Left
  <2>4. Followed'
    BY <1>1, <2>0 DEF Sane, Followed
  <2>5. Reported'
    BY <1>1, <1>6, <2>0 DEF Sane, Reported, Foreground
  <2>6. Served'
    <3> SUFFICES ASSUME arbiter'.key # None, queue' = <<>> PROVE current' # None
      BY DEF Served
    <3>1. Len(queue) = 1
      <4>1. Len(queue') = Len(queue) - 1
        BY <1>1, <1>2, TailOf
      <4>2. Len(queue') = 0
        OBVIOUS
      <4> QED BY <1>2, <4>1, <4>2
    <3>2. e.type # "stopped"
      BY <1>1, <1>2, <2>0, <3>1 DEF Sane, InOrder, Queued
    <3> QED BY <1>5, <3>2
  <2>7. ~overlap' => Sequential'
    BY <1>1, <2>0 DEF Sane, Sequential, OnlyListed, Knows
  <2> QED BY <2>3, <2>4, <2>5, <2>6, <2>7 DEF Sane
<1> QED BY <1>7, <1>8

\* The plugin reports what runs at present.
LEMMA ReportKeeps ==
  ASSUME DetInv, NEW d \in 0 .. MaxReports, Report(d)
  PROVE  Always' /\ (~mishap' => Sane')
<1>0. TypeOK /\ Always
  BY DEF DetInv
<1>1. UNCHANGED <<listed, procs, log, parser, last, arbiter, queue, current, recent, mishap, overlap>>
  BY DEF Report, steam, Daemon
<1>2. PICK g \in Foreground : plugin' = [plugin EXCEPT !.due = d, !.sent = Append(plugin.sent, g)]
  BY DEF Report
<1>3. plugin \in PluginType /\ plugin.sent \in Seq(Maybe(Games)) /\ plugin.installed
  BY <1>0, Types DEF Report
<1>4. g \in Maybe(Games)
  BY <1>0, Types DEF Foreground, Maybe
<1>5. Append(plugin.sent, g) \in Seq(Maybe(Games))
  BY <1>3, <1>4
<1>6. plugin'.installed /\ plugin'.sent = Append(plugin.sent, g)
  <2> DEFINE q == Append(plugin.sent, g)
  <2>0. q \in Seq(Maybe(Games)) /\ plugin' = [plugin EXCEPT !.due = d, !.sent = q]
    BY <1>2, <1>5
  <2> HIDE DEF q
  <2>1. plugin'.installed = plugin.installed /\ plugin'.sent = q
    BY <1>3, <2>0 DEF PluginType
  <2> QED BY <1>3, <2>1 DEF q
<1>7. plugin'.sent[Len(plugin'.sent)] = g /\ Len(plugin'.sent) # 0
  BY <1>3, <1>4, <1>6
<1>8. plugin'.sent # <<>>
  BY <1>7
<1>9. Always'
  BY <1>0, <1>1, <1>6 DEF Always
<1>10. ASSUME ~mishap' PROVE Sane'
  <2>0. Sane
    BY <1>1, <1>10 DEF DetInv
  <2>1. Followed' /\ InOrder(arbiter, queue, current, last)'
    BY <1>1, <2>0 DEF Sane, Followed, InOrder, Queued, Left
  <2>2. Reported'
    <3>1. g \in Foreground'
      BY <1>1 DEF Foreground
    <3> QED BY <1>7, <1>8, <3>1 DEF Reported
  <2>3. Served'
    BY <1>6, <1>8 DEF Served
  <2>4. ~overlap' => Sequential'
    BY <1>1, <2>0 DEF Sane, Sequential, OnlyListed, Knows
  <2> QED BY <2>1, <2>2, <2>3, <2>4 DEF Sane
<1> QED BY <1>9, <1>10

\* A report is served: in the order they were sent, unless something went wrong.
LEMMA ArrivesKeeps ==
  ASSUME DetInv, NEW i \in 1 .. MaxReports, ReportArrives(i)
  PROVE  Always' /\ (~mishap' => Sane')
<1> DEFINE q == plugin.sent
<1>0. TypeOK /\ Always
  BY DEF DetInv
<1>1. /\ UNCHANGED <<listed, procs, log, parser, last, arbiter, queue, overlap>>
      /\ i \in DOMAIN q /\ mishap' = (mishap \/ i > 1)
      /\ plugin' = [plugin EXCEPT !.sent = RemoveAt(q, i)]
      /\ current' = IF q[i] = None THEN None ELSE [app |-> q[i], source |-> "decky"]
  BY DEF ReportArrives, steam
<1>2. plugin \in PluginType /\ q \in Seq(Maybe(Games)) /\ i \in 1 .. Len(q) /\ Len(q) \in Nat
  BY <1>0, <1>1, Types
<1>3. RemoveAt(q, i) \in Seq(Maybe(Games))
  BY <1>2 DEF RemoveAt
<1>4. /\ plugin'.installed = plugin.installed /\ plugin'.due = plugin.due
      /\ plugin'.sent = RemoveAt(q, i)
  <2>1. plugin.due \in 0 .. MaxReports
    BY <1>0, Types
  <2> QED BY <1>1, <1>2, <1>3, <2>1, SetPlugin
<1>5. q # <<>>
  BY <1>2
<1>6. plugin.installed
  BY <1>0, <1>5, Types DEF Always
<1>7. Always'
  BY <1>0, <1>1, <1>4, <1>6 DEF Always
<1>8. ASSUME ~mishap' PROVE Sane'
  <2>0. Sane /\ i = 1
    <3>1. ~mishap /\ ~(i > 1)
      BY <1>1, <1>8
    <3>2. i = 1
      BY <1>2, <3>1
    <3> QED BY <3>1, <3>2 DEF DetInv
  <2>1. plugin'.sent = Tail(q)
    <3>1. RemoveAt(q, 1) = SubSeq(q, 1, 0) \o SubSeq(q, 2, Len(q))
      BY DEF RemoveAt
    <3>2. SubSeq(q, 2, Len(q)) = Tail(q)
      BY <1>2, <1>5
    <3>3. SubSeq(q, 1, 0) = <<>> /\ Tail(q) \in Seq(Maybe(Games))
      BY <1>2, <1>5
    <3> HIDE DEF q
    <3>4. <<>> \o Tail(q) = Tail(q)
      BY <3>3
    <3> QED BY <1>4, <2>0, <3>1, <3>2, <3>3, <3>4
  <2>2. current' = None \/ current'.source = "decky"
    BY <1>1
  <2>3. /\ q[1] = None => current' = None
        /\ q[1] # None => current' # None /\ current'.app = q[1]
    <3>1. q[1] # None => q[1] \in Games
      BY <1>2, <2>0 DEF Maybe
    <3>2. q[1] # None => [app |-> q[1], source |-> "decky"] \in Timed
      BY <3>1 DEF Timed
    <3> QED BY <1>1, <2>0, <3>2, NoneAssumption
  <2>4. Queued(arbiter, queue, current')
    <3>1. queue \in Seq(Event)
      BY <1>0, Types
    <3> QED BY <2>0, <2>2, <3>1, QueuedWithout DEF Sane, InOrder
  <2>5. InOrder(arbiter, queue, current, last)'
    <3>1. InOrder(arbiter, queue, current', last)
      BY <2>0, <2>4 DEF Sane, InOrder
    <3> QED BY <1>1, <3>1 DEF InOrder, Queued, Left
  <2>6. Followed'
    BY <1>1, <2>0 DEF Sane, Followed
  <2>7. plugin.due > 0 \/ q[Len(q)] \in Foreground
    BY <1>5, <2>0 DEF Sane, Reported
  <2>8. CASE Len(q) = 1
    <3>1. plugin'.sent = <<>>
      BY <1>2, <1>5, <2>1, <2>8, TailOf
    <3>2. plugin.due > 0 \/ q[1] \in Foreground
      BY <2>7, <2>8
    <3>3. q[1] \in Foreground /\ q[1] # None => q[1] \in listed
      BY DEF Foreground
    <3>4. q[1] \in Foreground /\ listed # {} => q[1] # None
      BY <1>0, Types, NoneAssumption DEF Foreground
    <3>5. plugin.due \in Nat
      BY <1>0, Types, BoundAssumption
    <3>6. Reported'
      BY <1>1, <1>4, <2>3, <3>1, <3>2, <3>3 DEF Reported
    <3>7. Served'
      BY <1>1, <1>4, <1>6, <2>3, <3>2, <3>4, <3>5 DEF Served
    <3>8. ~overlap' => Sequential'
      BY <1>1, <2>0 DEF Sane, Sequential, OnlyListed, Knows
    <3> QED BY <2>5, <2>6, <3>6, <3>7, <3>8 DEF Sane
  <2>9. CASE Len(q) # 1
    <3>0. /\ Len(Tail(q)) = Len(q) - 1 /\ Len(q) >= 1
          /\ \A k \in 1 .. Len(q) - 1 : Tail(q)[k] = q[k + 1]
      BY <1>2, <1>5, TailOf
    <3>1. Len(q) - 1 \in 1 .. Len(q) - 1 /\ (Len(q) - 1) + 1 = Len(q)
      <4> DEFINE n == Len(q)
      <4>1. n \in Nat /\ n >= 1 /\ n # 1
        BY <1>2, <2>9, <3>0
      <4> HIDE DEF n
      <4>2. n - 1 \in 1 .. n - 1 /\ (n - 1) + 1 = n
        BY <4>1
      <4> QED BY <4>2 DEF n
    <3>2. Tail(q)[Len(q) - 1] = q[Len(q)] /\ Len(Tail(q)) = Len(q) - 1
      BY <3>0, <3>1
    <3>3. Tail(q) # <<>>
      <4>1. Len(Tail(q)) # 0
        BY <1>2, <2>9, <3>0
      <4> QED BY <4>1, Empty
    <3>4. Reported'
      BY <1>1, <1>4, <2>1, <2>7, <3>2, <3>3 DEF Reported, Foreground
    <3>5. Served'
      BY <1>4, <1>6, <2>1, <3>3 DEF Served
    <3>6. ~overlap' => Sequential'
      BY <1>1, <2>0 DEF Sane, Sequential, OnlyListed, Knows
    <3> QED BY <2>5, <2>6, <3>4, <3>5, <3>6 DEF Sane
  <2> QED BY <2>8, <2>9
<1> QED BY <1>7, <1>8

\* The daemon starts: the reader knows nothing and nobody is in charge.
LEMMA FreshSane ==
  ASSUME log.alive, log.unread = <<>>, \A g \in Games : parser.names[g] = FirstName,
         \A g \in Games : parser.pids[g] = {}, arbiter = NoSource, last = None, queue = <<>>,
         current = None, plugin.sent = <<>>
  PROVE  Sane
<1>1. Len(log.unread) = 0 /\ Len(queue) = 0 /\ arbiter.priority = 0 /\ arbiter.key = None
  BY DEF NoSource
<1>2. Followed
  <2>1. \A x \in Games : Closes(parser.pids, arbiter, <<>>, x, 0, 0)
    BY <1>1, ClosesEmpty
  <2>2. \A i \in 1 .. Len(log.unread) : FALSE
    BY <1>1
  <2> QED BY <1>1, <2>1, <2>2 DEF Followed
<1>3. InOrder(arbiter, queue, current, last)
  <2>1. Left(current, queue, 0) = {}
    BY DEF Left
  <2>2. \A k \in 1 .. Len(queue) : FALSE
    BY <1>1
  <2> QED BY <1>1, <2>1, <2>2 DEF InOrder, Queued
<1>4. Reported /\ Served
  BY <1>1 DEF Reported, Served
<1>5. Sequential
  <2>1. Knows(parser.pids, arbiter)
    BY <1>1 DEF Knows
  <2>2. 0 \in 0 .. Len(log.unread) /\ \A i \in 0 + 1 .. Len(log.unread) : FALSE
    BY <1>1
  <2> QED BY <2>1, <2>2 DEF Sequential, OnlyListed
<1> QED BY <1>2, <1>3, <1>4, <1>5 DEF Sane

\* Initially the invariant holds ...
LEMMA InitDetInv == Init => DetInv
<1> SUFFICES ASSUME Init PROVE DetInv
  OBVIOUS
<1>1. TypeOK
  BY InitTypes
<1>2. Always
  <2>1. \A g \in Games : procs[g] # {} => g \in listed
    BY DEF Init
  <2>2. ~overlap => \A x, y \in listed : x = y
    BY AtMostOne DEF Init
  <2> QED BY <2>1, <2>2 DEF Init, Always
<1>3. Sane
  <2>1. log.alive /\ log.unread = <<>> /\ plugin.sent = <<>>
    BY DEF Init
  <2>2. \A g \in Games : parser.names[g] = FirstName /\ parser.pids[g] = {}
    BY DEF Init, NoProcs
  <2>3. arbiter = NoSource /\ last = None /\ queue = <<>> /\ current = None
    BY DEF Init
  <2> QED BY <2>1, <2>2, <2>3, FreshSane
<1> QED BY <1>1, <1>2, <1>3 DEF DetInv

\* The same state is reached by a restart.
LEMMA RestartKeeps ==
  ASSUME DetInv, Restart
  PROVE  Always' /\ (~mishap' => Sane')
<1>0. TypeOK /\ Always
  BY DEF DetInv
<1>1. plugin' = [plugin EXCEPT !.sent = <<>>] /\ plugin \in PluginType
  BY <1>0, Types DEF Restart
<1>2. plugin'.sent = <<>> /\ plugin'.installed = plugin.installed /\ plugin'.due = plugin.due
  BY <1>1 DEF PluginType
<1>3. UNCHANGED <<listed, procs, overlap>> /\ current' = None
  BY DEF Restart, steam
<1>4. Always'
  BY <1>0, <1>2, <1>3 DEF Always
<1>5. log'.alive /\ log'.unread = <<>>
  BY DEF Restart
<1>6. \A g \in Games : parser'.names[g] = FirstName /\ parser'.pids[g] = {}
  BY DEF Restart, NoProcs
<1>7. arbiter' = NoSource /\ last' = None /\ queue' = <<>>
  BY DEF Restart
<1>8. /\ Len(log'.unread) = 0 /\ Len(queue') = 0 /\ arbiter'.priority = 0 /\ arbiter'.key = None
  BY <1>5, <1>7 DEF NoSource
<1>9. Followed'
  <2>1. \A x \in Games : Closes(parser'.pids, arbiter', <<>>, x, 0, 0)
    BY <1>6, <1>8, ClosesEmpty
  <2>2. \A i \in 1 .. Len(log'.unread) : FALSE
    BY <1>8
  <2> QED BY <1>5, <1>6, <1>8, <2>1, <2>2 DEF Followed
<1>10. InOrder(arbiter, queue, current, last)'
  <2>1. Left(current', queue', 0) = {}
    BY <1>3 DEF Left
  <2>2. \A k \in 1 .. Len(queue') : FALSE
    BY <1>8
  <2>3. InOrder(arbiter', queue', current', last')
    BY <1>7, <1>8, <2>1, <2>2 DEF InOrder, Queued
  <2> QED BY <2>3 DEF InOrder, Queued, Left
<1>11. Reported' /\ Served'
  BY <1>2, <1>3, <1>8 DEF Reported, Served
<1>12. Sequential'
  <2>1. Knows(parser.pids, arbiter)'
    BY <1>6, <1>7, <1>8 DEF Knows
  <2>2. 0 \in 0 .. Len(log'.unread) /\ \A i \in 0 + 1 .. Len(log'.unread) : FALSE
    BY <1>8
  <2> QED BY <2>1, <2>2 DEF Sequential, OnlyListed
<1> QED BY <1>4, <1>9, <1>10, <1>11, <1>12 DEF Sane

\* The steps that change neither what the daemon knows nor what runs, or after
\* which nothing is claimed.
LEMMA OtherKeeps ==
  ASSUME DetInv,
         \/ Rotated \/ ReaderFails \/ ReportLost \/ SignalExpires
         \/ \E g \in Games, n \in Names : Renamed(g, n)
         \/ UNCHANGED vars
  PROVE  Always' /\ (~mishap' => Sane')
<1>0. TypeOK /\ Always
  BY DEF DetInv
<1>1. CASE ReaderFails \/ \E g \in Games, n \in Names : Renamed(g, n)
  <2>1. mishap' /\ UNCHANGED <<listed, procs, overlap, plugin, current>>
    BY <1>1 DEF ReaderFails, Renamed, steam, Daemon
  <2> QED BY <1>0, <2>1 DEF Always
<1>2. CASE ReportLost
  <2>1. mishap' /\ UNCHANGED <<listed, procs, overlap, current>> /\ plugin.sent # <<>>
        /\ plugin' = [plugin EXCEPT !.sent = Tail(plugin.sent)]
    BY <1>2 DEF ReportLost, steam, Daemon
  <2>2. plugin'.installed = plugin.installed /\ plugin.installed \in BOOLEAN
    BY <1>0, <2>1, Types DEF PluginType
  <2>3. plugin.installed
    BY <1>0, <2>1, <2>2 DEF Always
  <2> QED BY <1>0, <2>1, <2>2, <2>3 DEF Always
<1>3. CASE Rotated \/ SignalExpires \/ UNCHANGED vars
  <2>1. /\ UNCHANGED <<listed, procs, parser, last, arbiter, queue, current, plugin, mishap, overlap>>
        /\ log'.unread = log.unread /\ log'.alive = log.alive
    <3>1. log \in LogType
      BY <1>0, Types
    <3>2. CASE Rotated
      <4>1. log' = [log EXCEPT !.rotated = TRUE]
        BY <3>2 DEF Rotated
      <4>2. log'.unread = log.unread /\ log'.alive = log.alive
        BY <3>1, <4>1 DEF LogType
      <4> QED BY <3>2, <4>2 DEF Rotated, steam, Daemon
    <3>3. CASE SignalExpires
      BY <3>3 DEF SignalExpires, steam
    <3>4. CASE UNCHANGED vars
      BY <3>4 DEF vars
    <3> QED BY <1>3, <3>2, <3>3, <3>4
  <2>2. Always'
    BY <1>0, <2>1 DEF Always
  <2>3. ASSUME Sane PROVE Sane'
    <3>1. Followed'
      BY <2>1, <2>3 DEF Sane, Followed
    <3>2. InOrder(arbiter, queue, current, last)'
      BY <2>1, <2>3 DEF Sane, InOrder, Queued, Left
    <3>3. Reported' /\ Served'
      BY <2>1, <2>3 DEF Sane, Reported, Foreground, Served
    <3>4. ~overlap' => Sequential'
      BY <2>1, <2>3 DEF Sane, Sequential, OnlyListed, Knows
    <3> QED BY <3>1, <3>2, <3>3, <3>4 DEF Sane
  <2> QED BY <2>1, <2>2, <2>3 DEF DetInv
<1> QED BY <1>1, <1>2, <1>3

\* ... and every step keeps it.
LEMMA NextDetInv == DetInv /\ [Next]_vars => DetInv'
<1> SUFFICES ASSUME DetInv, [Next]_vars PROVE DetInv'
  OBVIOUS
<1>1. TypeOK'
  BY NextTypes DEF DetInv
<1>2. Always' /\ (~mishap' => Sane')
  <2>1. CASE \E g \in Games, p \in Pids : ProcessStarts(g, p)
    BY <2>1, StartsKeeps
  <2>2. CASE \E g \in Games, p \in Pids : ProcessEnds(g, p)
    BY <2>2, EndsKeeps
  <2>3. CASE \E g \in Games : GameEnds(g)
    BY <2>3, GameEndsKeeps
  <2>4. CASE ReadLog
    BY <2>4, ReadKeeps
  <2>5. CASE Scan
    BY <2>5, ScanKeeps
  <2>6. CASE Consume
    BY <2>6, ConsumeKeeps
  <2>7. CASE ReportDue \/ ReportFromPanel
    <3>1. plugin.due \in 0 .. MaxReports
      BY Types DEF DetInv
    <3>2. plugin.due > 0 => plugin.due - 1 \in 0 .. MaxReports
      BY <3>1, BoundAssumption
    <3> QED BY <2>7, <3>1, <3>2, ReportKeeps DEF ReportDue, ReportFromPanel
  <2>8. CASE Restart
    BY <2>8, RestartKeeps
  <2>9. CASE \E i \in 1 .. MaxReports : ReportArrives(i)
    BY <2>9, ArrivesKeeps
  <2>10. CASE \/ Rotated \/ ReaderFails \/ ReportLost \/ SignalExpires
              \/ \E g \in Games, n \in Names : Renamed(g, n)
              \/ UNCHANGED vars
    BY <2>10, OtherKeeps
  <2> QED BY <2>1, <2>2, <2>3, <2>4, <2>5, <2>6, <2>7, <2>8, <2>9, <2>10 DEF Next, SteamStep
<1> QED BY <1>1, <1>2 DEF DetInv

\* When all is seen, the last scan, if it saw a game, is in charge or leaves the
\* charge to the log, and the one in charge reported a game that is listed.
LEMMA SettledTimed == DetInv => TimedGameRuns
<1> SUFFICES ASSUME DetInv, Settled, ~mishap, current # None PROVE current.app \in listed
  BY DEF TimedGameRuns
<1>0. TypeOK /\ Always /\ Sane
  BY DEF DetInv
<1>1. /\ log.unread = <<>> /\ queue = <<>> /\ plugin.due = 0 /\ plugin.sent = <<>>
      /\ last # None => last.app \in WithProcesses
  BY DEF Settled
<1>2. Len(log.unread) = 0 /\ Len(queue) = 0
  BY <1>1
<1>3. CASE current.source = "decky"
  BY <1>0, <1>1, <1>3 DEF Sane, Reported
<1>4. CASE current.source # "decky"
  <2>1. Left(current, queue, Len(queue)) = {current.app}
    BY <1>2, <1>4 DEF Left
  <2>2. arbiter.key # None /\ current.app = arbiter.key.app
    BY <1>0, <2>1 DEF Sane, InOrder, Queued
  <2>3. arbiter.priority \in {50, 80} /\ arbiter.key.app \in Games
    BY <1>0, <2>2, Types, ArbiterType
  <2>4. CASE arbiter.priority = 80
    <3> SUFFICES ASSUME arbiter.key.app \notin listed PROVE FALSE
      BY <2>2
    <3>1. Closes(parser.pids, arbiter, log.unread, arbiter.key.app, 0, 0)
      BY <1>0, <1>2, <2>3 DEF Sane, Followed
    <3>2. EndsIn(log.unread, arbiter.key.app, 0 + 1, 0)
      BY <2>4, <3>1 DEF Closes
    <3> QED BY <3>2 DEF EndsIn
  <2>5. CASE arbiter.priority = 50
    <3>1. last # None /\ KeyOf(last) = arbiter.key
      BY <1>0, <2>5 DEF Sane, InOrder
    <3>2. last.app = arbiter.key.app
      BY <3>1 DEF KeyOf
    <3>3. last.app \in Games /\ procs[last.app] # {}
      BY <1>1, <3>1 DEF WithProcesses
    <3> QED BY <1>0, <2>2, <3>2, <3>3 DEF Always
  <2> QED BY <2>3, <2>4, <2>5
<1> QED BY <1>3, <1>4

\* And if games run one at a time, somebody is in charge of the one that runs.
LEMMA SettledRunning == DetInv => RunningGameIsTimed
<1> SUFFICES ASSUME DetInv, Settled, ~mishap, ~overlap, WithProcesses # {} PROVE current # None
  BY DEF RunningGameIsTimed
<1>0. TypeOK /\ Always /\ Sane /\ Sequential
  BY DEF DetInv, Sane
<1>1. /\ log.unread = <<>> /\ queue = <<>> /\ plugin.due = 0 /\ plugin.sent = <<>>
      /\ last # None /\ last.app \in WithProcesses
  BY DEF Settled
<1>2. Len(log.unread) = 0
  BY <1>1
<1>3. last.app \in listed
  BY <1>0, <1>1 DEF WithProcesses, Always
<1>4. PICK b \in 0 .. 0 : \/ Knows(parser.pids, arbiter)
                          \/ listed = {} \/ b < 0
  BY <1>0, <1>2 DEF Sequential
<1>5. Knows(parser.pids, arbiter)
  BY <1>3, <1>4
<1>6. arbiter.key # None
  BY <1>1, <1>3, <1>5 DEF Knows
<1> QED BY <1>0, <1>1, <1>3, <1>6 DEF Sane, Served

\* The invariant the two theorems about settled states rest on.
THEOREM Invariance == Spec => []DetInv
BY InitDetInv, NextDetInv, PTL DEF Spec

\* Whatever order lines, scans, events and reports take, and with any number of
\* games, processes and lines: when all is seen and nothing went wrong, the game
\* that is timed is one that Steam lists.
THEOREM TimedGamesRun == Spec => []TimedGameRuns
BY Invariance, SettledTimed, PTL

\* And a game that runs is timed, unless two games ran together.
THEOREM RunningGamesAreTimed == Spec => []RunningGameIsTimed
BY Invariance, SettledRunning, PTL

=============================================================================
