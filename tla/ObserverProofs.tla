---------------------------- MODULE ObserverProofs ----------------------------
(***************************************************************************)
(* What the HTTP API shows (Observers), for any number of readers, CPUs,   *)
(* handlers and rules:                                                     *)
(*   - no connection is shown idle for longer than the daemon runs         *)
(*     (AgesSane), since whatever is tracked was seen after the start;     *)
(*   - the total is never ahead of the verdicts by more than the packets   *)
(*     whose verdict was not counted yet (TotalNeverAhead), as long as the *)
(*     counters have not wrapped: PacketsInv ties them to the frames       *)
(*     received, and StatsSoFar says what half an answer promises;         *)
(*   - an answer holds everything that was there all the while             *)
(*     (ListingComplete); WalkSoFar says where the walk still has to go.   *)
(***************************************************************************)
EXTENDS Observers, DatapathProofs

(***************************************************************************)
(* Requests in progress.                                                   *)
(***************************************************************************)
Things == CounterIndex \cup Walked \cup {"config", "clock"}
Places == Keys("IP") \cup Keys("PORT") \cup Flows \cup {None}
Values == [packets : Nat, bytes : Nat] \cup {"ALLOW", "DENY"} \cup Nat
            \cup RuleValues("IP") \cup RuleValues("PORT")
Get == [endpoint : Endpoints \cup {None}, todo : Seq(Things), cursor : Places,
        count : Nat, found : Places, clock : Nat,
        shown : SUBSET [from : Things, key : Places, val : Values]]

\* Types of the requests in progress; one that was answered left nothing.
GetTypeOK ==
    /\ get \in [Readers -> Get]
    /\ \A r \in Readers : get[r].endpoint = None => get[r] = NoGet

LEMMA ReadsType ==
    \A e \in Endpoints : Reads(e) \in Seq(Things)
<1> SUFFICES ASSUME NEW e \in Endpoints PROVE Reads(e) \in Seq(Things)
  OBVIOUS
<1> USE DEF Reads, Things, CounterIndex, Walked, Tables
<1>1. CASE e = "/health"
  BY <1>1
<1>2. CASE e = "/status"
  BY <1>2
<1>3. CASE e = "/stats"
  BY <1>3
<1>4. CASE e = "/rules"
  BY <1>4
<1>5. CASE e = "/conntrack"
  BY <1>5
<1> QED
  BY <1>1, <1>2, <1>3, <1>4, <1>5, ReaderAssumption DEF Paths

\* A key the walk may still reach is a key of the table; the nearest is defined.
LEMMA WalkOn ==
    ASSUME MapsTypeOK, NEW t \in Walked, NEW cursor, Reachable(t, cursor) # {}
    PROVE  LET ahead == Reachable(t, cursor)
               k == CHOOSE k \in ahead : \A j \in ahead : Place(t, k) <= Place(t, j)
           IN  k \in ahead /\ \A j \in ahead : Place(t, k) <= Place(t, j)
<1> DEFINE ahead == Reachable(t, cursor)
           T == {Place(t, k) : k \in ahead}
<1>1. \A k \in ahead : Place(t, k) \in Nat
  BY RuleBucketAssumption, BucketAssumption
     DEF Reachable, Place, Present, Walked, Tracked, Stored
<1>2. T \subseteq Nat /\ T # {}
  BY <1>1
<1>3. \E x \in T : \A y \in T : x <= y
  BY <1>2, NatMin
<1>4. \E k \in ahead : \A j \in ahead : Place(t, k) <= Place(t, j)
  BY <1>3
<1> QED
  BY <1>4

LEMMA PresentKeys ==
    \A t \in Walked : Present(t) \subseteq Places \ {None}
BY RuleBucketAssumption, SlotAssumption
   DEF Walked, Present, Places, Tables, Stored, Tracked

LEMMA ItemType ==
    ASSUME MapsTypeOK, GetTypeOK, NEW r \in Readers, NEW t \in Walked,
           NEW k \in Present(t)
    PROVE  Item(r, t, k) \in [from : Things, key : Places, val : Values]
<1>1. k \in Places /\ t \in Things
  BY PresentKeys DEF Things
<1>2. CASE t \in Tables
  <2>1. k \in Keys(t) /\ Matched(rules[t][k])
    BY <1>2 DEF Present, Stored
  <2>2. rules[t][k] \in RuleValues(t)
    BY <1>2, <2>1 DEF MapsTypeOK, Matched
  <2>3. rules[t][k] \in Values
    BY <1>2, <2>2 DEF Tables, Values
  <2> QED
    BY <1>1, <1>2, <2>3 DEF Item
<1>3. CASE t \notin Tables
  <2>1. k \in Flows /\ conntrack[k] \in Slots
    BY <1>3 DEF Present, Tracked, MapsTypeOK
  <2>2. elems[conntrack[k]].last_seen \in Nat
    BY <2>1 DEF MapsTypeOK
  <2>3. get[r].clock \in Nat
    BY DEF GetTypeOK, Get
  <2>4. ctEntry(k, get[r].clock) \in Nat
    BY <2>2, <2>3 DEF ctEntry
  <2> QED
    BY <1>1, <1>3, <2>4 DEF Item, Values
<1> QED
  BY <1>2, <1>3

\* What a request is after a step of its reader.
Becomes(r, endpoint, todo, cursor, count, found, clock, shown) ==
    /\ get'[r].endpoint = endpoint
    /\ get'[r].todo = todo
    /\ get'[r].cursor = cursor
    /\ get'[r].count = count
    /\ get'[r].found = found
    /\ get'[r].clock = clock
    /\ get'[r].shown = shown

Counter(i) == [from |-> i, key |-> None, val |-> counters[i]]
Policy == [from |-> "config", key |-> None, val |-> firewall_config]

\* A step of a reader moves its own request, in one of these ways.
Moves(r) ==
    LET g == get[r]
        Goes(todo, cursor, count, found, clock, shown) ==
            Becomes(r, g.endpoint, todo, cursor, count, found, clock, shown)
    IN  \/ /\ g = NoGet
           /\ \E e \in Endpoints : Becomes(r, e, Reads(e), None, 0, None, 0, {})
        \/ \E i \in CounterIndex :
            /\ Reading(r, i)
            /\ Goes(Tail(g.todo), g.cursor, g.count, g.found, g.clock,
                    g.shown \cup {Counter(i)})
        \/ /\ Reading(r, "config")
           /\ Goes(Tail(g.todo), g.cursor, g.count, g.found, g.clock, g.shown \cup {Policy})
        \/ /\ Reading(r, "clock")
           /\ Goes(Tail(g.todo), g.cursor, g.count, g.found, now, g.shown)
        \/ \E t \in Walked :
            /\ Reading(r, t)
            /\ g.found = None
            /\ IF Reachable(t, g.cursor) = {}
               THEN Goes(Tail(g.todo), None, 0, None, g.clock, g.shown)
               ELSE \E k \in Reachable(t, g.cursor) :
                        /\ \A j \in Reachable(t, g.cursor) : Place(t, k) <= Place(t, j)
                        /\ Goes(g.todo, k, g.count + 1, k, g.clock, g.shown)
        \/ \E t \in Walked :
            /\ Reading(r, t)
            /\ g.found # None
            /\ Goes(g.todo, g.cursor, g.count, None, g.clock,
                    IF g.found \in Present(t) THEN g.shown \cup {Item(r, t, g.found)}
                                              ELSE g.shown)
        \/ get'[r] = NoGet

LEMMA ReaderMoves ==
    ASSUME MapsTypeOK, GetTypeOK, NEW r \in Readers, ReaderStep(r)
    PROVE  Moves(r) /\ \A q \in Readers \ {r} : get'[q] = get[q]
<1>1. get \in [Readers -> Get] /\ get[r] \in Get
  BY DEF GetTypeOK
<1>2. CASE Request(r)
  BY <1>1, <1>2 DEF Request, NoGet, Moves, Becomes, Get
<1>3. CASE ReadCounter(r)
  BY <1>1, <1>3 DEF ReadCounter, Show, Moves, Becomes, Get, Counter
<1>4. CASE ReadPolicy(r)
  BY <1>1, <1>4 DEF ReadPolicy, Show, Moves, Becomes, Get, Policy
<1>5. CASE ReadClock(r)
  BY <1>1, <1>5 DEF ReadClock, Moves, Becomes, Get
<1>6. CASE WalkNext(r)
  <2>1. PICK t \in Walked :
            /\ Reading(r, t)
            /\ get[r].found = None
            /\ LET ahead == Reachable(t, get[r].cursor)
               IN  IF ahead = {}
                   THEN get' = [get EXCEPT ![r].todo = Tail(@), ![r].cursor = None,
                                           ![r].count = 0]
                   ELSE LET k == CHOOSE k \in ahead :
                                    \A j \in ahead : Place(t, k) <= Place(t, j)
                        IN  get' = [get EXCEPT ![r].cursor = k, ![r].found = k,
                                               ![r].count = @ + 1]
    BY <1>6 DEF WalkNext
  <2>2. CASE Reachable(t, get[r].cursor) = {}
    BY <1>1, <2>1, <2>2 DEF Moves, Becomes, Get
  <2>3. CASE Reachable(t, get[r].cursor) # {}
    <3>1. PICK k \in Reachable(t, get[r].cursor) :
            /\ \A j \in Reachable(t, get[r].cursor) : Place(t, k) <= Place(t, j)
            /\ get' = [get EXCEPT ![r].cursor = k, ![r].found = k, ![r].count = @ + 1]
      BY <2>1, <2>3, WalkOn
    <3>2. Becomes(r, get[r].endpoint, get[r].todo, k, get[r].count + 1, k,
                  get[r].clock, get[r].shown)
      BY <1>1, <3>1 DEF Becomes, Get
    <3> QED
      BY <1>1, <2>1, <2>3, <3>1, <3>2 DEF Moves
  <2> QED
    BY <2>2, <2>3
<1>7. CASE WalkLookup(r)
  <2>1. PICK t \in Walked :
            /\ Reading(r, t)
            /\ get[r].found # None
            /\ get' = [get EXCEPT ![r].found = None,
                           ![r].shown = IF get[r].found \in Present(t)
                                        THEN @ \cup {Item(r, t, get[r].found)} ELSE @]
    BY <1>7 DEF WalkLookup
  <2>2. Becomes(r, get[r].endpoint, get[r].todo, get[r].cursor, get[r].count, None,
                get[r].clock, IF get[r].found \in Present(t)
                              THEN get[r].shown \cup {Item(r, t, get[r].found)}
                              ELSE get[r].shown)
    BY <1>1, <2>1 DEF Becomes, Get
  <2>3. Moves(r)
    BY ONLY <2>1, <2>2, Zenon DEF Moves
  <2> QED
    BY <1>1, <2>1, <2>3
<1>8. CASE WalkAborted(r) \/ ReadFails(r) \/ Answer(r)
  BY <1>1, <1>8 DEF WalkAborted, ReadFails, Answer, Moves
<1> QED
  BY <1>2, <1>3, <1>4, <1>5, <1>6, <1>7, <1>8 DEF ReaderStep

LEMMA GetType ==
    ASSUME MapsTypeOK, GetTypeOK, NEW r \in Readers, ReaderStep(r)
    PROVE  GetTypeOK'
<1> DEFINE g == get[r]
           S == [from : Things, key : Places, val : Values]
<1>1. /\ get \in [Readers -> Get] /\ g \in Get
      /\ \A q \in Readers : get[q].endpoint = None => get[q] = NoGet
  BY DEF GetTypeOK
<1>2. NoGet \in Get /\ NoGet.todo = <<>> /\ NoGet.endpoint = None
  BY DEF NoGet, Get, Places
<1>3. g.todo # <<>> => Tail(g.todo) \in Seq(Things) /\ g.endpoint # None
  BY <1>1, <1>2 DEF Get
<1>4. ASSUME get' \in [Readers -> Get], get'[r].endpoint # None,
             \A q \in Readers \ {r} : get'[q] = get[q]
      PROVE  GetTypeOK'
  BY <1>1, <1>4 DEF GetTypeOK
<1>5. ASSUME NEW s \in S, NEW what, Reading(r, what), Show(r, s)
      PROVE  GetTypeOK'
  <2>1. g.todo # <<>>
    BY <1>5 DEF Reading
  <2>2. /\ get' \in [Readers -> Get] /\ get'[r].endpoint = g.endpoint
        /\ \A q \in Readers \ {r} : get'[q] = get[q]
    BY <1>1, <1>3, <1>5, <2>1 DEF Show, Get
  <2> QED
    BY <1>3, <1>4, <2>1, <2>2
<1>6. CASE Request(r)
  <2>1. PICK e \in Endpoints : get' = [get EXCEPT ![r].endpoint = e, ![r].todo = Reads(e)]
    BY <1>6 DEF Request
  <2>2. /\ get' \in [Readers -> Get] /\ get'[r].endpoint = e
        /\ \A q \in Readers \ {r} : get'[q] = get[q]
    BY <1>1, <2>1, ReadsType DEF Get
  <2> QED
    BY <1>4, <2>2, ReaderAssumption
<1>7. CASE ReadCounter(r)
  <2>1. PICK i \in CounterIndex : Reading(r, i) /\ Show(r, Counter(i))
    BY <1>7 DEF ReadCounter, Counter
  <2>2. Counter(i) \in S
    BY DEF Counter, MapsTypeOK, Things, Values, Places
  <2> QED
    BY <1>5, <2>1, <2>2
<1>8. CASE ReadPolicy(r)
  <2>1. Policy \in S
    BY DEF Policy, MapsTypeOK, Things, Values, Places
  <2> QED
    BY <1>5, <1>8, <2>1 DEF ReadPolicy, Policy
<1>9. CASE ReadClock(r)
  <2>1. g.todo # <<>> /\ now \in Nat
    BY <1>9 DEF ReadClock, Reading, MapsTypeOK
  <2>2. /\ get' \in [Readers -> Get] /\ get'[r].endpoint = g.endpoint
        /\ \A q \in Readers \ {r} : get'[q] = get[q]
    BY <1>1, <1>3, <1>9, <2>1 DEF ReadClock, Get
  <2> QED
    BY <1>3, <1>4, <2>1, <2>2
<1>10. CASE WalkNext(r)
  <2>1. PICK t \in Walked :
            /\ Reading(r, t)
            /\ LET ahead == Reachable(t, get[r].cursor)
               IN  IF ahead = {}
                   THEN get' = [get EXCEPT ![r].todo = Tail(@), ![r].cursor = None,
                                           ![r].count = 0]
                   ELSE LET k == CHOOSE k \in ahead :
                                    \A j \in ahead : Place(t, k) <= Place(t, j)
                        IN  get' = [get EXCEPT ![r].cursor = k, ![r].found = k,
                                               ![r].count = @ + 1]
    BY <1>10 DEF WalkNext
  <2>2. g.todo # <<>> /\ None \in Places
    BY <2>1 DEF Reading, Places
  <2>3. CASE Reachable(t, g.cursor) = {}
    <3>1. get' = [get EXCEPT ![r].todo = Tail(@), ![r].cursor = None, ![r].count = 0]
      BY <2>1, <2>3
    <3>2. /\ get' \in [Readers -> Get] /\ get'[r].endpoint = g.endpoint
          /\ \A q \in Readers \ {r} : get'[q] = get[q]
      BY <1>1, <1>3, <2>2, <3>1 DEF Get
    <3> QED
      BY <1>3, <1>4, <2>2, <3>2
  <2>4. CASE Reachable(t, g.cursor) # {}
    <3>1. PICK k \in Reachable(t, g.cursor) :
             get' = [get EXCEPT ![r].cursor = k, ![r].found = k, ![r].count = @ + 1]
      BY <2>1, <2>4, WalkOn
    <3>2. k \in Places
      BY PresentKeys DEF Reachable
    <3> HIDE DEF g
    <3>3. g.count + 1 \in Nat
      BY <1>1 DEF Get
    <3>4. get' = [get EXCEPT ![r] = [g EXCEPT !.cursor = k, !.found = k, !.count = g.count + 1]]
      BY <1>1, <3>1 DEF g
    <3>5. [g EXCEPT !.cursor = k, !.found = k, !.count = g.count + 1] \in Get
      BY <1>1, <3>2, <3>3 DEF Get
    <3>6. /\ get' \in [Readers -> Get] /\ get'[r].endpoint = g.endpoint
          /\ \A q \in Readers \ {r} : get'[q] = get[q]
      BY <1>1, <3>4, <3>5 DEF Get
    <3> QED
      BY <1>3, <1>4, <2>2, <3>6
  <2> QED
    BY <2>3, <2>4
<1>11. CASE WalkLookup(r)
  <2>1. PICK t \in Walked :
            /\ Reading(r, t)
            /\ get' = [get EXCEPT ![r].found = None,
                           ![r].shown = IF get[r].found \in Present(t)
                                        THEN @ \cup {Item(r, t, get[r].found)} ELSE @]
    BY <1>11 DEF WalkLookup
  <2> DEFINE seen == IF g.found \in Present(t) THEN g.shown \cup {Item(r, t, g.found)}
                     ELSE g.shown
  <2>2. g.todo # <<>> /\ None \in Places
    BY <2>1 DEF Reading, Places
  <2>3. seen \in SUBSET S
    BY <1>1, ItemType DEF Get
  <2>4. get' = [get EXCEPT ![r].found = None, ![r].shown = seen]
    BY <2>1
  <2> HIDE DEF seen
  <2>5. /\ get' \in [Readers -> Get] /\ get'[r].endpoint = g.endpoint
        /\ \A q \in Readers \ {r} : get'[q] = get[q]
    BY <1>1, <2>2, <2>3, <2>4 DEF Get
  <2> QED
    BY <1>3, <1>4, <2>2, <2>5
<1>12. CASE WalkAborted(r) \/ ReadFails(r) \/ Answer(r)
  <2>1. get' = [get EXCEPT ![r] = NoGet]
    BY <1>12 DEF WalkAborted, ReadFails, Answer
  <2> QED
    BY <1>1, <1>2, <2>1 DEF GetTypeOK
<1> QED
  BY <1>6, <1>7, <1>8, <1>9, <1>10, <1>11, <1>12 DEF ReaderStep

\* Beside the readers the firewall runs on; the readers write nothing.
OTypeInv == TypeOK /\ GetTypeOK

LEMMA OTypeInit == OInit => OTypeInv
<1> SUFFICES ASSUME OInit PROVE OTypeInv
  OBVIOUS
<1>1. NoGet \in Get
  BY DEF NoGet, Get, Places
<1> QED
  BY <1>1, InitType DEF OInit, OTypeInv, GetTypeOK

LEMMA OTypeNext == OTypeInv /\ [ONext]_ovars => OTypeInv'
<1> SUFFICES ASSUME OTypeInv, [ONext]_ovars PROVE OTypeInv'
  OBVIOUS
<1>1. [Next]_vars
  BY DEF ONext, ovars
<1>2. TypeOK'
  BY <1>1, NextType DEF OTypeInv
<1>3. GetTypeOK'
  <2>1. UNCHANGED get \/ \E r \in Readers : ReaderStep(r)
    BY DEF ONext, ovars, observers
  <2> QED
    BY <2>1, GetType DEF OTypeInv, TypeOK, GetTypeOK
<1> QED
  BY <1>2, <1>3 DEF OTypeInv

(***************************************************************************)
(* Ages.                                                                   *)
(***************************************************************************)
\* What is tracked was seen since the daemon started.
SeenSinceBoot ==
    /\ now >= Boot
    /\ \A f \in Tracked : elems[conntrack[f]].last_seen >= Boot
    /\ \A c \in Cpus : xdp[c].pc \in {"ctTouch", "ctInsert"} => xdp[c].stamp >= Boot

ClockRead(r) == get[r].clock \in Nat /\ get[r].clock <= now

AgesInv == OTypeInv /\ SeenSinceBoot /\ AgesSane /\ \A r \in Readers : ClockRead(r)

LEMMA NowGrows ==
    ASSUME TypeOK, [Next]_vars
    PROVE  now' >= now
<1>1. UNCHANGED now => now' >= now
  BY DEF TypeOK, MapsTypeOK
<1>2. CASE ControlNext
  BY <1>1, <1>2 DEF ControlNext, Accept, Lock, Unlock, Reply, StartupBlock, StartupNext,
        ManagerStep, SetPresenceRead, SetPresenceWrite, PutRule, DeleteRule, WipeRule,
        MapHasEntries, SyncPresenceRead, SyncPresenceWrite, SetDefaultPolicy,
        ConntrackKeys, ConntrackDelete, SyscallError
<1>3. CASE DatapathNext
  BY <1>1, <1>3 DEF DatapathNext, ProgramStep, Receive, RawVerdict, ReadPresence,
        LookupSource, LookupDestination, ProbePort, Decide, EstablishedLookup,
        EstablishedState, CtLookup, CtTouch, CtUpdateState, CtEstablish, CtInsertNew,
        CountTotal, CountTotalBytes, CountVerdict, CountVerdictBytes
<1>4. CASE ReaperNext
  BY <1>1, <1>4 DEF ReaperNext, ReapStart, ReapScan, ReapDelete, ReapEnd
<1>5. CASE Tick
  BY <1>5 DEF Tick, TypeOK, MapsTypeOK
<1>6. CASE UNCHANGED vars
  BY <1>1, <1>6 DEF vars
<1> QED
  BY <1>2, <1>3, <1>4, <1>5, <1>6 DEF Next, TimedNext

\* An element is written with the time of a packet that arrived after the start.
LEMMA SeenStep ==
    ASSUME TypeOK, TypeOK', SeenSinceBoot, [Next]_vars
    PROVE  SeenSinceBoot'
<1> USE DEF AtX
<1>1. /\ MapsTypeOK /\ MapsTypeOK' /\ XdpTypeOK
      /\ xdp \in [Cpus -> XdpRecord] /\ conntrack \in [Flows -> Slots \cup {None}]
      /\ elems \in [Slots -> [last_seen : Nat, state : CtState]]
      /\ now \in Nat /\ now' \in Nat /\ Boot \in Nat
  BY LimitAssumption DEF TypeOK, MapsTypeOK, XdpTypeOK
<1>2. now' >= Boot
  BY <1>1, NowGrows DEF SeenSinceBoot
<1>3. CASE ~ DatapathNext
  <2>1. UNCHANGED <<elems, xdp>> /\ \A f \in Flows : conntrack'[f] \in {conntrack[f], None}
    BY <1>1, <1>3, TableLeft
  <2>2. \A f \in Tracked' : f \in Tracked /\ conntrack'[f] = conntrack[f]
    BY <2>1 DEF Tracked
  <2> QED
    BY <1>2, <2>1, <2>2 DEF SeenSinceBoot
<1>4. CASE DatapathNext
  <2>1. PICK c \in Cpus : (\E f \in Frames : Receive(c, f)) \/ ProgramStep(c)
    BY <1>4 DEF DatapathNext
  <2>2. \A d \in Cpus \ {c} : xdp'[d] = xdp[d]
    BY <1>1, <2>1, OwnLocals
  <2>3. xdp[c] \in XdpRecord
    BY <1>1
  <2>4. ASSUME \A f \in Tracked' : elems'[conntrack'[f]].last_seen >= Boot,
               xdp'[c].pc \in {"ctTouch", "ctInsert"} => xdp'[c].stamp >= Boot
        PROVE  SeenSinceBoot'
    BY <1>2, <2>2, <2>4 DEF SeenSinceBoot
  <2>5. UNCHANGED <<conntrack, elems>>
            => \A f \in Tracked' : elems'[conntrack'[f]].last_seen >= Boot
    BY DEF SeenSinceBoot, Tracked
  <2>6. ASSUME NEW v, NEW p, Settle(c, v, p)
        PROVE  xdp'[c].pc = p
    BY <1>1, <2>6 DEF Settle, NoPacket
  <2>7. CASE CtLookup(c)
    <3>1. xdp'[c].stamp = now /\ now >= Boot
      BY <1>1, <2>7 DEF CtLookup, XdpRecord, SeenSinceBoot
    <3> QED
      BY <2>4, <2>5, <2>7, <3>1 DEF CtLookup, maps
  <2>8. CASE CtTouch(c)
    <3>1. xdp[c].stamp >= Boot /\ xdp[c].elem \in Slots /\ xdp[c].stamp \in Nat
      BY <1>1, <2>3, <2>8 DEF CtTouch, SeenSinceBoot, XdpTypeOK, Derefs, XdpRecord
    <3>2. xdp'[c].pc = "ctState" /\ UNCHANGED conntrack
      BY <1>1, <2>8 DEF CtTouch, XdpRecord
    <3>3. \A s \in Slots : elems'[s].last_seen \in {elems[s].last_seen, xdp[c].stamp}
      BY <1>1, <2>8 DEF CtTouch
    <3>4. \A f \in Tracked' : f \in Tracked /\ conntrack'[f] = conntrack[f]
                                /\ conntrack[f] \in Slots
      BY <1>1, <3>2 DEF Tracked
    <3>5. \A f \in Tracked' : elems'[conntrack'[f]].last_seen >= Boot
      BY <3>1, <3>3, <3>4 DEF SeenSinceBoot
    <3> QED
      BY <2>4, <3>2, <3>5
  <2>9. ASSUME NEW st \in CtState, NEW e \in Slots,
               elems' = [elems EXCEPT ![e].state = st] \/ UNCHANGED elems,
               UNCHANGED conntrack
        PROVE  \A f \in Tracked' : elems'[conntrack'[f]].last_seen >= Boot
    <3>1. \A s \in Slots : elems'[s].last_seen = elems[s].last_seen
      BY <1>1, <2>9
    <3>2. \A f \in Tracked' : f \in Tracked /\ conntrack'[f] = conntrack[f]
                                /\ conntrack[f] \in Slots
      BY <1>1, <2>9 DEF Tracked
    <3> QED
      BY <3>1, <3>2 DEF SeenSinceBoot
  <2>10. xdp[c].pc \in {"ctState", "ctEstablish"} => xdp[c].elem \in Slots
    BY <1>1 DEF XdpTypeOK, Derefs
  <2>11. CASE CtUpdateState(c)
    <3>1. xdp'[c].pc \in {"total", "ctEstablish"}
      BY <1>1, <2>6, <2>11 DEF CtUpdateState, GotoX, XdpRecord
    <3>2. \A f \in Tracked' : elems'[conntrack'[f]].last_seen >= Boot
      BY <2>9, <2>10, <2>11 DEF CtUpdateState, CtState
    <3> QED
      BY <2>4, <3>1, <3>2
  <2>12. CASE CtEstablish(c)
    <3>1. xdp'[c].pc = "total"
      BY <2>6, <2>12 DEF CtEstablish
    <3>2. \A f \in Tracked' : elems'[conntrack'[f]].last_seen >= Boot
      BY <2>9, <2>10, <2>12 DEF CtEstablish, CtState
    <3> QED
      BY <2>4, <3>1, <3>2
  <2>13. CASE CtInsertNew(c)
    <3>1. xdp'[c].pc = "total"
      BY <2>6, <2>13 DEF CtInsertNew
    <3>2. xdp[c].stamp >= Boot
      BY <2>13 DEF CtInsertNew, SeenSinceBoot
    <3>3. CASE UNCHANGED ctVars
      BY <2>4, <2>5, <3>1, <3>3 DEF ctVars
    <3>4. CASE ~ UNCHANGED ctVars
      <4> DEFINE v == [last_seen |-> xdp[c].stamp, state |-> FirstState(c)]
      <4>1. CtInsert(Flow(c), v)
        BY <2>13 DEF CtInsertNew
      <4>2. PICK s \in FreeSlots : /\ conntrack' = [conntrack EXCEPT ![Flow(c)] = s]
                                   /\ elems' = [elems EXCEPT ![s] = v]
        BY <3>4, <4>1 DEF CtInsert
      <4>3. \A f \in Tracked' : f = Flow(c) \/ (f \in Tracked /\ conntrack'[f] = conntrack[f])
        BY <1>1, <4>2 DEF Tracked
      <4>4. \A f \in Tracked' : conntrack'[f] = s \/ (f \in Tracked /\ conntrack'[f] = conntrack[f])
        BY <1>1, <4>2, <4>3 DEF Tracked
      <4>5. s \in Slots /\ \A f \in Tracked : conntrack[f] # s /\ conntrack[f] \in Slots
        BY <1>1 DEF FreeSlots, Tracked
      <4>6. elems'[s].last_seen = xdp[c].stamp
            /\ \A e \in Slots \ {s} : elems'[e] = elems[e]
        BY <1>1, <4>2, <4>5
      <4>7. \A f \in Tracked' : elems'[conntrack'[f]].last_seen >= Boot
        BY <3>2, <4>4, <4>5, <4>6 DEF SeenSinceBoot
      <4> QED
        BY <2>4, <3>1, <4>7
    <3> QED
      BY <3>3, <3>4
  <2>14. CASE /\ ~ CtLookup(c) /\ ~ CtTouch(c) /\ ~ CtUpdateState(c)
              /\ ~ CtEstablish(c) /\ ~ CtInsertNew(c)
    BY <1>1, <2>1, <2>4, <2>5, <2>14, PointerRead
  <2> QED
    BY <2>7, <2>8, <2>11, <2>12, <2>13, <2>14
<1> QED
  BY <1>3, <1>4

\* What a reader shows of the connection table, and the clock it goes by.
LEMMA AgesStep ==
    ASSUME AgesInv, NEW r \in Readers, ReaderStep(r), UNCHANGED vars
    PROVE  /\ ClockRead(r)'
           /\ \A s \in get'[r].shown : s.from = "CONNTRACK" => s.val \in 0 .. now - Boot
<1> DEFINE g == get[r]
           Fine(shown) == \A s \in shown : s.from = "CONNTRACK" => s.val \in 0 .. now - Boot
<1>1. /\ Fine(g.shown) /\ g.clock \in Nat /\ g.clock <= now
      /\ now \in Nat /\ Boot \in Nat /\ now >= Boot
  BY LimitAssumption
     DEF AgesInv, AgesSane, ClockRead, OTypeInv, TypeOK, MapsTypeOK, SeenSinceBoot
<1>2. UNCHANGED now
  BY DEF vars
<1>3. SUFFICES Fine(get'[r].shown) /\ get'[r].clock \in Nat /\ get'[r].clock <= now
  BY <1>2 DEF ClockRead
<1>4. Moves(r) /\ MapsTypeOK /\ SeenSinceBoot
  BY ReaderMoves DEF AgesInv, OTypeInv, TypeOK
<1>5. ASSUME NEW t \in Walked, NEW k \in Present(t)
      PROVE  Fine({Item(r, t, k)})
  <2>1. CASE t \in Tables
    BY <2>1 DEF Item, Tables
  <2>2. CASE t \notin Tables
    <3>1. k \in Tracked
      BY <2>2 DEF Present
    <3>2. /\ elems[conntrack[k]].last_seen \in Nat
          /\ elems[conntrack[k]].last_seen >= Boot
      BY <1>4, <3>1 DEF MapsTypeOK, Tracked, SeenSinceBoot
    <3>3. ctEntry(k, g.clock) \in 0 .. now - Boot
      BY <1>1, <3>2 DEF ctEntry
    <3> QED
      BY <2>2, <3>3 DEF Item
  <2> QED
    BY <2>1, <2>2
<1>6. Fine({Policy}) /\ \A i \in CounterIndex : Fine({Counter(i)})
  BY DEF Policy, Counter, CounterIndex
<1>7. \A a, b : Fine(a) /\ Fine(b) => Fine(a \cup b)
  OBVIOUS
<1>8. Fine({}) /\ NoGet.shown = {} /\ NoGet.clock = 0
  BY DEF NoGet
<1>9. now <= now /\ 0 <= now /\ 0 \in Nat
  BY <1>1
<1> HIDE DEF Fine
<1>10. ASSUME NEW t \in Walked
       PROVE  Fine(IF g.found \in Present(t) THEN g.shown \cup {Item(r, t, g.found)}
                   ELSE g.shown)
  BY <1>1, <1>5, <1>7
<1> HIDE DEF g
<1> DEFINE G == Fine(get'[r].shown) /\ get'[r].clock \in Nat /\ get'[r].clock <= now
<1>11. ASSUME NEW todo, NEW cursor, NEW count, NEW found, NEW clock, NEW shown,
              Becomes(r, g.endpoint, todo, cursor, count, found, clock, shown),
              clock \in {g.clock, now}, Fine(shown)
       PROVE  G
  BY <1>1, <1>9, <1>11 DEF Becomes
<1>12. ASSUME NEW e, Becomes(r, e, Reads(e), None, 0, None, 0, {})
       PROVE  G
  BY <1>8, <1>9, <1>12 DEF Becomes
<1>13. \A i \in CounterIndex : Fine(g.shown \cup {Counter(i)})
  BY <1>1, <1>6, <1>7
<1>14. Fine(g.shown \cup {Policy})
  BY <1>1, <1>6, <1>7
<1>15. get'[r] = NoGet => G
  BY <1>8, <1>9
<1> HIDE DEF G
<1>16. Moves(r) => G
  BY ONLY <1>1, <1>10, <1>11, <1>12, <1>13, <1>14, <1>15 DEF Moves, g
<1> QED
  BY <1>4, <1>16 DEF G

LEMMA AgesInit == OInit => AgesInv
<1> SUFFICES ASSUME OInit PROVE AgesInv
  OBVIOUS
<1>1. OTypeInv
  BY OTypeInit
<1>2. now = Boot /\ Tracked = {} /\ \A c \in Cpus : xdp[c].pc = "idle"
  BY DEF OInit, Init, MapsInit, DatapathInit, NoPacket, Tracked
<1>3. \A r \in Readers : get[r] = NoGet
  BY DEF OInit
<1> QED
  BY <1>1, <1>2, <1>3, LimitAssumption
     DEF AgesInv, SeenSinceBoot, AgesSane, ClockRead, NoGet

LEMMA AgesNext == AgesInv /\ [ONext]_ovars => AgesInv'
<1> SUFFICES ASSUME AgesInv, [ONext]_ovars PROVE AgesInv'
  OBVIOUS
<1>1. OTypeInv' /\ TypeOK /\ TypeOK'
  BY OTypeNext DEF AgesInv, OTypeInv
<1>2. [Next]_vars
  BY DEF ONext, ovars
<1>3. SeenSinceBoot'
  BY <1>1, <1>2, SeenStep DEF AgesInv
<1>4. now' >= now /\ now \in Nat /\ now' \in Nat /\ Boot \in Nat
  BY <1>1, <1>2, NowGrows, LimitAssumption DEF TypeOK, MapsTypeOK
<1>5. ASSUME NEW q \in Readers, get'[q] = get[q]
      PROVE  /\ ClockRead(q)'
             /\ \A s \in get'[q].shown : s.from = "CONNTRACK" => s.val \in 0 .. now' - Boot
  BY <1>4, <1>5 DEF AgesInv, AgesSane, ClockRead
<1>6. ASSUME NEW r \in Readers, ReaderStep(r), UNCHANGED vars
      PROVE  AgesSane' /\ \A q \in Readers : ClockRead(q)'
  <2>1. \A q \in Readers \ {r} : get'[q] = get[q]
    BY <1>6, ReaderMoves DEF AgesInv, OTypeInv, TypeOK
  <2>2. UNCHANGED now
    BY <1>6 DEF vars
  <2> QED
    BY <1>5, <1>6, <2>1, <2>2, AgesStep DEF AgesSane
<1>7. CASE UNCHANGED get
  BY <1>1, <1>3, <1>5, <1>7 DEF AgesInv, AgesSane
<1> QED
  BY <1>1, <1>3, <1>6, <1>7 DEF ONext, ovars, observers, AgesInv

\* ctEntry: whatever is refreshed, deleted and inserted during the walk, no
\* connection is shown idle for longer than the daemon runs.
THEOREM AgesAreSane == OSpec => []AgesSane
<1>1. AgesInv => AgesSane
  BY DEF AgesInv
<1> QED
  BY <1>1, AgesInit, AgesNext, PTL DEF OSpec

(***************************************************************************)
(* Packets.                                                                *)
(***************************************************************************)
Waiting == XdpSteps \ {"idle", "totalBytes", "verdict", "verdictBytes"}
Packets(i) == counters[i].packets

\* Without a wrap the balance of the counters is exact, and no more is counted
\* than was received.
PacketsInv ==
    /\ TypeOK
    /\ received \in 0 .. MaxPackets
    /\ Packets("TOTAL") = Packets("DROP") + Packets("PASS") + Cardinality(InFlight(PacketsOut))
    /\ Packets("TOTAL") + Cardinality(InFlight(Waiting)) <= received

LEMMA PacketsType ==
    ASSUME MapsTypeOK
    PROVE  \A i \in CounterIndex : Packets(i) \in Nat
BY DEF MapsTypeOK, Packets

LEMMA PacketsAdd ==
    ASSUME MapsTypeOK, NEW i \in CounterIndex, AddTo(i, "packets", 1),
           Packets(i) + 1 < CounterMod
    PROVE  /\ Packets(i)' = Packets(i) + 1
           /\ \A j \in CounterIndex \ {i} : Packets(j)' = Packets(j)
<1>1. counters \in [CounterIndex -> [packets : Nat, bytes : Nat]]
  BY DEF MapsTypeOK
<1>2. \A n \in Nat : n < CounterMod => n % CounterMod = n
  <2> SUFFICES ASSUME NEW n \in Nat, n < CounterMod PROVE n % CounterMod = n
    OBVIOUS
  <2>1. CounterMod \in Nat \ {0} /\ n \in 0 .. CounterMod - 1
    BY LimitAssumption
  <2>2. (CounterMod * 0 + n) % CounterMod = n
    BY <2>1, ModUnique
  <2> QED
    BY <2>1, <2>2
<1>3. (Packets(i) + 1) % CounterMod = Packets(i) + 1
  BY <1>2, PacketsType
<1>4. counters' = [counters EXCEPT ![i].packets = Packets(i) + 1]
  BY <1>3 DEF AddTo, Packets
<1> QED
  BY <1>1, <1>4 DEF Packets

LEMMA PacketsKept ==
    ASSUME MapsTypeOK, NEW i \in CounterIndex, NEW n, AddTo(i, "bytes", n)
    PROVE  \A j \in CounterIndex : Packets(j)' = Packets(j)
<1>1. counters \in [CounterIndex -> [packets : Nat, bytes : Nat]]
  BY DEF MapsTypeOK
<1>2. \E v : counters' = [counters EXCEPT ![i].bytes = v]
  BY DEF AddTo
<1> QED
  BY <1>1, <1>2 DEF Packets

LEMMA PacketsProgram ==
    ASSUME MaxPackets < CounterMod, PacketsInv, TypeOK', NEW c \in Cpus,
           (\E f \in Frames : Receive(c, f)) \/ ProgramStep(c), CountReceived
    PROVE  PacketsInv' /\ \A i \in CounterIndex : Packets(i)' >= Packets(i)
<1> DEFINE T == Packets("TOTAL")
           D == Packets("DROP")
           P == Packets("PASS")
           N == Cardinality(InFlight(PacketsOut))
           M == Cardinality(InFlight(PacketsOut)')
           W == Cardinality(InFlight(Waiting))
           V == Cardinality(InFlight(Waiting)')
           Same == \A j \in CounterIndex : Packets(j)' = Packets(j)
<1> USE DEF AtX
<1>1. /\ MapsTypeOK /\ MapsTypeOK' /\ XdpTypeOK /\ XdpTypeOK'
      /\ xdp \in [Cpus -> XdpRecord] /\ xdp[c] \in XdpRecord
      /\ xdp'[c].pc \in XdpSteps /\ xdp[c].pc \in XdpSteps
  BY DEF PacketsInv, TypeOK, XdpTypeOK, XdpRecord
<1>2. \A d \in Cpus \ {c} : xdp'[d] = xdp[d]
  BY <1>1, OwnLocals
<1>3. /\ N \in Nat /\ M \in Nat
      /\ (xdp[c].pc \in PacketsOut <=> xdp'[c].pc \in PacketsOut) => M = N
      /\ xdp[c].pc \notin PacketsOut /\ xdp'[c].pc \in PacketsOut => M = N + 1
      /\ xdp[c].pc \in PacketsOut /\ xdp'[c].pc \notin PacketsOut => N = M + 1
  BY <1>2, PacketsStep
<1>4. /\ W \in Nat /\ V \in Nat
      /\ (xdp[c].pc \in Waiting <=> xdp'[c].pc \in Waiting) => V = W
      /\ xdp[c].pc \notin Waiting /\ xdp'[c].pc \in Waiting => V = W + 1
      /\ xdp[c].pc \in Waiting /\ xdp'[c].pc \notin Waiting => W = V + 1
  BY <1>2, PacketsStep
<1>5. /\ T \in Nat /\ D \in Nat /\ P \in Nat
      /\ T = D + P + N /\ T + W <= received
      /\ received \in Nat /\ received <= MaxPackets
      /\ MaxPackets \in Nat /\ CounterMod \in Nat
  BY <1>1, PacketsType, ReaderAssumption, LimitAssumption DEF PacketsInv, CounterIndex
<1>6. CounterIndex = {"TOTAL", "DROP", "PASS"}
  BY DEF CounterIndex
<1>7. /\ received' <= MaxPackets /\ received' \in Nat
      /\ received' = received + (IF Received THEN 1 ELSE 0)
      /\ received' >= received
  BY <1>5 DEF CountReceived
<1>8. xdp[c].pc # "idle" => ~ Received
  BY <1>2 DEF Received
<1>9. xdp[c].pc = "idle" /\ xdp'[c].pc # "idle" => Received
  BY DEF Received
<1> HIDE DEF N, M, W, V
<1>10. ASSUME \A i \in CounterIndex : Packets(i)' >= Packets(i),
              Packets("TOTAL")' = Packets("DROP")' + Packets("PASS")' + M,
              Packets("TOTAL")' + V <= received'
       PROVE  PacketsInv' /\ \A i \in CounterIndex : Packets(i)' >= Packets(i)
  BY <1>7, <1>10, ReaderAssumption DEF PacketsInv, M, V
<1>11. CASE CountTotal(c)
  <2>1. xdp[c].pc = "total" /\ xdp'[c].pc = "totalBytes" /\ AddTo("TOTAL", "packets", 1)
    BY <1>1, <1>11 DEF CountTotal, Settle, NoPacket
  <2>2. M = N + 1 /\ W = V + 1
    BY <1>3, <1>4, <2>1 DEF PacketsOut, Waiting, XdpSteps
  <2>3. T + 1 < CounterMod
    BY <1>4, <1>5, <2>2
  <2>4. Packets("TOTAL")' = T + 1 /\ Packets("DROP")' = D /\ Packets("PASS")' = P
    BY <1>1, <1>6, <2>1, <2>3, PacketsAdd
  <2> QED
    BY <1>3, <1>4, <1>5, <1>6, <1>7, <1>10, <2>2, <2>4
<1>12. CASE CountVerdict(c)
  <2>0. PICK v : v = xdp[c].verdict
    OBVIOUS
  <2>1. /\ xdp[c].pc = "verdict" /\ xdp'[c].pc = "verdictBytes"
        /\ AddTo(v, "packets", 1) /\ v \in {"DROP", "PASS"}
    BY <1>1, <1>12, <2>0 DEF CountVerdict, GotoX, XdpRecord, Verdicts
  <2>2. N = M + 1 /\ W = V
    BY <1>3, <1>4, <2>1 DEF PacketsOut, Waiting, XdpSteps
  <2>3. Packets(v) + 1 < CounterMod
    BY <1>3, <1>4, <1>5, <2>1, <2>2
  <2>4. Packets(v)' = Packets(v) + 1 /\ \A j \in CounterIndex \ {v} : Packets(j)' = Packets(j)
    BY <1>1, <1>6, <2>1, <2>3, PacketsAdd
  <2>5. \/ Packets("TOTAL")' = T /\ Packets("DROP")' = D + 1 /\ Packets("PASS")' = P
        \/ Packets("TOTAL")' = T /\ Packets("DROP")' = D /\ Packets("PASS")' = P + 1
    BY <1>6, <2>1, <2>4
  <2> QED
    BY <1>3, <1>4, <1>5, <1>6, <1>7, <1>10, <2>2, <2>5
<1>13. ASSUME Same, M = N, V <= W + (IF Received THEN 1 ELSE 0)
       PROVE  PacketsInv' /\ \A i \in CounterIndex : Packets(i)' >= Packets(i)
  <2>1. Packets("TOTAL")' = T /\ Packets("DROP")' = D /\ Packets("PASS")' = P
    BY <1>6, <1>13
  <2> QED
    BY <1>3, <1>4, <1>5, <1>6, <1>7, <1>10, <1>13, <2>1
<1>14. CASE CountTotalBytes(c)
  <2>1. xdp[c].pc = "totalBytes" /\ xdp'[c].pc = "verdict"
        /\ AddTo("TOTAL", "bytes", xdp[c].frame.len)
    BY <1>1, <1>14 DEF CountTotalBytes, GotoX, XdpRecord
  <2>2. M = N /\ V = W
    BY <1>3, <1>4, <2>1 DEF PacketsOut, Waiting
  <2>3. Same
    BY <1>1, <1>6, <2>1, PacketsKept
  <2> QED
    BY <1>4, <1>13, <2>2, <2>3
<1>15. CASE CountVerdictBytes(c)
  <2>1. xdp[c].pc = "verdictBytes" /\ xdp'[c].pc = "idle"
        /\ AddTo(xdp[c].verdict, "bytes", xdp[c].frame.len)
        /\ xdp[c].verdict \in CounterIndex
    BY <1>1, <1>15 DEF CountVerdictBytes, NoPacket, XdpRecord, Verdicts, CounterIndex
  <2>2. M = N /\ V = W
    BY <1>3, <1>4, <2>1 DEF PacketsOut, Waiting
  <2>3. Same
    BY <1>1, <2>1, PacketsKept
  <2> QED
    BY <1>4, <1>13, <2>2, <2>3
<1>16. CASE /\ ~ CountTotal(c) /\ ~ CountTotalBytes(c)
            /\ ~ CountVerdict(c) /\ ~ CountVerdictBytes(c)
  <2>1. /\ counters' = counters
        /\ xdp[c].pc \notin PacketsOut \cup BytesOut
        /\ xdp'[c].pc \notin PacketsOut \cup BytesOut \cup {"idle"}
    BY <1>1, <1>16, Uncounted
  <2>2. Same
    BY <2>1 DEF Packets
  <2>3. M = N /\ xdp'[c].pc \in Waiting
    BY <1>1, <1>3, <2>1 DEF PacketsOut, BytesOut, Waiting
  <2>4. xdp[c].pc # "idle" => xdp[c].pc \in Waiting
    BY <1>1, <2>1 DEF PacketsOut, BytesOut, Waiting
  <2>5. V <= W + (IF Received THEN 1 ELSE 0)
    <3>1. CASE xdp[c].pc = "idle"
      <4>1. Received /\ V = W + 1
        BY <1>4, <1>9, <2>1, <2>3, <3>1 DEF Waiting
      <4> QED
        BY <1>4, <4>1
    <3>2. CASE xdp[c].pc # "idle"
      BY <1>4, <2>3, <2>4, <3>2
    <3> QED
      BY <3>1, <3>2
  <2> QED
    BY <1>13, <2>2, <2>3, <2>5
<1> QED
  BY <1>11, <1>12, <1>14, <1>15, <1>16

LEMMA PacketsNext ==
    ASSUME MaxPackets < CounterMod, PacketsInv, [Next]_vars,
           CountReceived \/ UNCHANGED <<xdp, counters, received>>
    PROVE  PacketsInv' /\ \A i \in CounterIndex : Packets(i)' >= Packets(i)
<1>1. TypeOK /\ TypeOK' /\ MapsTypeOK
  BY NextType DEF PacketsInv, TypeOK
<1>2. CASE UNCHANGED <<xdp, counters>>
  <2>1. ~ Received /\ received \in Nat
    BY <1>2 DEF Received, AtX, PacketsInv
  <2>2. received' = received
    BY <2>1 DEF CountReceived
  <2>3. \A i \in CounterIndex : Packets(i)' = Packets(i) /\ Packets(i) \in Nat
    BY <1>1, <1>2, PacketsType DEF Packets
  <2>4. \A S : InFlight(S)' = InFlight(S)
    BY <1>2 DEF InFlight
  <2> QED
    BY <1>1, <1>2, <2>2, <2>3, <2>4 DEF PacketsInv, Packets
<1>3. CASE ~ UNCHANGED <<xdp, counters>>
  <2>1. PICK c \in Cpus : (\E f \in Frames : Receive(c, f)) \/ ProgramStep(c)
    BY <1>3, CountersLeft DEF DatapathNext
  <2> QED
    BY <1>1, <1>3, <2>1, PacketsProgram
<1> QED
  BY <1>2, <1>3

ShownIs(r, i, n) ==
    \E s \in get[r].shown :
        /\ s.from = i
        /\ s.val.packets = n
        /\ \A x \in get[r].shown : x.from = i => x = s

StatsSoFar(r) ==
    get[r].endpoint = "/stats" =>
        \/ get[r].todo = <<"TOTAL", "DROP", "PASS">> /\ get[r].shown = {}
        \/ /\ get[r].todo = <<"DROP", "PASS">>
           /\ \A x \in get[r].shown : x.from = "TOTAL"
           /\ \E n \in Nat : /\ ShownIs(r, "TOTAL", n)
                             /\ n <= Packets("DROP") + Packets("PASS") + begun[r]
        \/ /\ get[r].todo = <<"PASS">>
           /\ \A x \in get[r].shown : x.from \in {"TOTAL", "DROP"}
           /\ \E n, d \in Nat : /\ ShownIs(r, "TOTAL", n) /\ ShownIs(r, "DROP", d)
                                /\ n <= d + Packets("PASS") + begun[r]
        \/ /\ get[r].todo = <<>>
           /\ \E n, d, p \in Nat : /\ ShownIs(r, "TOTAL", n) /\ ShownIs(r, "DROP", d)
                                   /\ ShownIs(r, "PASS", p)
                                   /\ n <= d + p + begun[r]

StatsInv == OTypeInv /\ PacketsInv /\ \A r \in Readers : StatsSoFar(r) /\ begun[r] \in Nat

\* A counter that is read adds an item to the answer and takes one from the plan.
LEMMA StatsStep ==
    ASSUME StatsInv, NEW r \in Readers, ReaderStep(r), UNCHANGED vars, TrackBegun
    PROVE  StatsSoFar(r)'
<1> DEFINE g == get[r]
           n == Packets("TOTAL")
           d == Packets("DROP")
           p == Packets("PASS")
<1>1. /\ Moves(r) /\ StatsSoFar(r) /\ MapsTypeOK
      /\ get[r].endpoint = None => get[r] = NoGet
  BY ReaderMoves DEF StatsInv, OTypeInv, GetTypeOK, TypeOK
<1>2. \A i : Packets(i)' = Packets(i)
  BY DEF vars, maps, Packets
<1>3. /\ begun[r] \in Nat
      /\ Begun = Cardinality(InFlight(PacketsOut)) /\ Begun \in Nat
      /\ begun'[r] = IF get'[r].endpoint = None THEN 0
                     ELSE IF Reading(r, "TOTAL") /\ get'[r] # get[r] THEN Begun
                     ELSE begun[r]
  <2>1. InFlight(PacketsOut) \in SUBSET Cpus
    BY DEF InFlight
  <2> QED
    BY <2>1, CpuAssumption, FS_Subset, FS_CardinalityType
       DEF StatsInv, TrackBegun, Begun, PacketsOut
<1>4. n \in Nat /\ d \in Nat /\ p \in Nat /\ n = d + p + Begun
  BY <1>1, <1>3, PacketsType DEF StatsInv, PacketsInv, CounterIndex
<1>5. SUFFICES ASSUME get'[r].endpoint = "/stats"
               PROVE  StatsSoFar(r)'
  BY DEF StatsSoFar
<1>6. NoGet.endpoint = None /\ None # "/stats"
  BY ReaderAssumption DEF NoGet, Paths
<1>7. CASE get[r] = NoGet
  <2>1. get[r].todo = <<>>
    BY <1>7 DEF NoGet
  <2>2. \A i : ~ Reading(r, i)
    BY <2>1 DEF Reading
  <2>3. PICK e \in Endpoints : Becomes(r, e, Reads(e), None, 0, None, 0, {})
    BY ONLY <1>1, <1>5, <1>6, <2>2 DEF Moves
  <2>4. get'[r].todo = <<"TOTAL", "DROP", "PASS">> /\ get'[r].shown = {}
    BY <1>5, <2>3 DEF Becomes, Reads
  <2> QED
    BY <2>4 DEF StatsSoFar
<1>8. CASE get[r] # NoGet
  <2>1. get'[r].endpoint = g.endpoint
    BY <1>1, <1>5, <1>6, <1>8 DEF Moves, Becomes
  <2>2. ASSUME NEW i \in CounterIndex, NEW rest, g.todo # <<>>, Head(g.todo) = i,
               Tail(g.todo) = rest
        PROVE  get'[r].todo = rest /\ get'[r].shown = g.shown \cup {Counter(i)}
    <3>1. \A j : Reading(r, j) => j = i
      BY <2>2 DEF Reading
    <3>2. i # "config" /\ i # "clock" /\ i \notin Walked
      BY DEF CounterIndex, Walked, Tables
    <3>3. Becomes(r, g.endpoint, Tail(g.todo), g.cursor, g.count, g.found, g.clock,
                  g.shown \cup {Counter(i)})
      BY ONLY <1>1, <1>5, <1>6, <1>8, <3>1, <3>2 DEF Moves
    <3> QED
      BY <2>2, <3>3 DEF Becomes
  <2>3. \A i \in CounterIndex : Counter(i).from = i /\ Counter(i).val.packets = Packets(i)
    BY DEF Counter, Packets
  <2>4. CASE g.todo = <<"TOTAL", "DROP", "PASS">> /\ g.shown = {}
    <3>0. /\ g.todo # <<>> /\ Head(g.todo) = "TOTAL" /\ Tail(g.todo) = <<"DROP", "PASS">>
          /\ "TOTAL" \in CounterIndex
      BY <2>4 DEF CounterIndex
    <3>1. get'[r].todo = <<"DROP", "PASS">> /\ get'[r].shown = {Counter("TOTAL")}
      BY <2>2, <2>4, <3>0
    <3>2. begun'[r] = Begun
      <4>1. Reading(r, "TOTAL") /\ get'[r] # get[r]
        BY <2>4, <3>1 DEF Reading
      <4> QED
        BY <1>3, <1>5, <1>6, <4>1
    <3>3. ShownIs(r, "TOTAL", n)'
      BY <1>2, <2>3, <3>1 DEF ShownIs, CounterIndex
    <3>4. \A x \in get'[r].shown : x.from = "TOTAL"
      BY <2>3, <3>1 DEF CounterIndex
    <3> QED
      BY <1>2, <1>4, <3>1, <3>2, <3>3, <3>4 DEF StatsSoFar
  <2>5. g.todo \in {<<"DROP", "PASS">>, <<"PASS">>} => begun'[r] = begun[r]
    <3>1. g.todo \in {<<"DROP", "PASS">>, <<"PASS">>} => ~ Reading(r, "TOTAL")
      BY DEF Reading
    <3> QED
      BY <1>3, <1>5, <1>6, <3>1
  <2>6. ASSUME NEW i \in CounterIndex, NEW v, ShownIs(r, i, v), NEW j \in CounterIndex \ {i},
               get'[r].shown = g.shown \cup {Counter(j)}
        PROVE  ShownIs(r, i, v)'
    BY <2>3, <2>6 DEF ShownIs
  <2>7. ASSUME NEW i \in CounterIndex, \A x \in g.shown : x.from # i,
               get'[r].shown = g.shown \cup {Counter(i)}
        PROVE  ShownIs(r, i, Packets(i))'
    BY <1>2, <2>3, <2>7 DEF ShownIs
  <2>8. ASSUME g.todo = <<"DROP", "PASS">>, \A x \in g.shown : x.from = "TOTAL",
               NEW t \in Nat, ShownIs(r, "TOTAL", t), t <= d + p + begun[r]
        PROVE  StatsSoFar(r)'
    <3>0. /\ g.todo # <<>> /\ Head(g.todo) = "DROP" /\ Tail(g.todo) = <<"PASS">>
          /\ "DROP" \in CounterIndex
      BY <2>8 DEF CounterIndex
    <3>1. get'[r].todo = <<"PASS">> /\ get'[r].shown = g.shown \cup {Counter("DROP")}
      BY <2>2, <3>0
    <3>2. ShownIs(r, "TOTAL", t)' /\ ShownIs(r, "DROP", d)'
      BY <2>6, <2>7, <2>8, <3>1 DEF CounterIndex
    <3>3. \A x \in get'[r].shown : x.from \in {"TOTAL", "DROP"}
      BY <2>3, <2>8, <3>1 DEF CounterIndex
    <3>4. t <= d + Packets("PASS")' + begun'[r] /\ d \in Nat
      BY <1>2, <1>4, <2>5, <2>8
    <3>5. \E a, b \in Nat : /\ ShownIs(r, "TOTAL", a)' /\ ShownIs(r, "DROP", b)'
                            /\ a <= b + Packets("PASS")' + begun'[r]
      <4>1. PICK b : b = d
        OBVIOUS
      <4> QED
        BY <1>2, <3>2, <3>4, <4>1 DEF ShownIs
    <3> QED
      BY <3>1, <3>3, <3>5 DEF StatsSoFar
  <2>9. ASSUME g.todo = <<"PASS">>, \A x \in g.shown : x.from \in {"TOTAL", "DROP"},
               NEW t \in Nat, NEW u \in Nat, ShownIs(r, "TOTAL", t), ShownIs(r, "DROP", u),
               t <= u + p + begun[r]
        PROVE  StatsSoFar(r)'
    <3>1. get'[r].todo = <<>> /\ get'[r].shown = g.shown \cup {Counter("PASS")}
      BY <2>2, <2>9 DEF CounterIndex
    <3>2. ShownIs(r, "TOTAL", t)' /\ ShownIs(r, "DROP", u)' /\ ShownIs(r, "PASS", p)'
      BY <2>6, <2>7, <2>9, <3>1 DEF CounterIndex
    <3>3. t <= u + p + begun'[r] /\ p \in Nat
      BY <1>4, <2>5, <2>9
    <3>4. \E a, b, c \in Nat : /\ ShownIs(r, "TOTAL", a)' /\ ShownIs(r, "DROP", b)'
                               /\ ShownIs(r, "PASS", c)'
                               /\ a <= b + c + begun'[r]
      <4>1. PICK c : c = p
        OBVIOUS
      <4> QED
        BY <1>2, <3>2, <3>3, <4>1 DEF ShownIs
    <3> QED
      BY <3>1, <3>4 DEF StatsSoFar
  <2>10. g.todo # <<>>
    <3>1. g.todo = <<>> => \A i : ~ Reading(r, i)
      BY DEF Reading
    <3> QED
      BY ONLY <1>1, <1>5, <1>6, <1>8, <3>1 DEF Moves
  <2> QED
    BY <1>1, <1>5, <2>1, <2>4, <2>8, <2>9, <2>10 DEF StatsSoFar
<1> QED
  BY <1>7, <1>8

LEMMA StatsInit == OInit => StatsInv
<1> SUFFICES ASSUME OInit PROVE StatsInv
  OBVIOUS
<1>1. OTypeInv /\ TypeOK
  BY OTypeInit DEF OTypeInv
<1>2. /\ \A i \in CounterIndex : Packets(i) = 0
      /\ \A c \in Cpus : xdp[c].pc = "idle"
  BY DEF OInit, Init, MapsInit, DatapathInit, NoPacket, Packets
<1>3. Cardinality(InFlight(PacketsOut)) = 0 /\ Cardinality(InFlight(Waiting)) = 0
  <2>1. InFlight(PacketsOut) = {} /\ InFlight(Waiting) = {}
    BY <1>2 DEF InFlight, PacketsOut, Waiting
  <2> QED
    BY <2>1, FS_EmptySet
<1>4. PacketsInv
  BY <1>1, <1>2, <1>3, ReaderAssumption DEF PacketsInv, OInit, CounterIndex
<1>5. \A r \in Readers : StatsSoFar(r) /\ begun[r] \in Nat
  BY ReaderAssumption DEF OInit, NoGet, StatsSoFar, Paths
<1> QED
  BY <1>1, <1>4, <1>5 DEF StatsInv

LEMMA StatsNext ==
    ASSUME MaxPackets < CounterMod
    PROVE  StatsInv /\ [ONext]_ovars => StatsInv'
<1> SUFFICES ASSUME StatsInv, [ONext]_ovars PROVE StatsInv'
  OBVIOUS
<1>1. OTypeInv' /\ OTypeInv /\ PacketsInv
  BY OTypeNext DEF StatsInv
<1>2. [Next]_vars /\ (CountReceived \/ UNCHANGED <<xdp, counters, received>>)
  BY DEF ONext, ovars, observers, vars, maps
<1>3. PacketsInv' /\ \A i \in CounterIndex : Packets(i)' >= Packets(i)
  BY <1>1, <1>2, PacketsNext
<1>4. \A i \in CounterIndex : Packets(i) \in Nat /\ Packets(i)' \in Nat
  <2>1. MapsTypeOK /\ MapsTypeOK'
    BY <1>3 DEF StatsInv, PacketsInv, TypeOK
  <2> QED
    BY <2>1 DEF Packets, MapsTypeOK
<1>5. ASSUME NEW q \in Readers, get'[q] = get[q], begun'[q] = begun[q]
      PROVE  StatsSoFar(q)' /\ begun'[q] \in Nat
  <2>1. \A i, v : ShownIs(q, i, v)' = ShownIs(q, i, v)
    BY <1>5 DEF ShownIs
  <2>2. begun[q] \in Nat /\ StatsSoFar(q)
    BY DEF StatsInv
  <2>3. ASSUME NEW t \in Nat, t <= Packets("DROP") + Packets("PASS") + begun[q]
        PROVE  t <= Packets("DROP")' + Packets("PASS")' + begun'[q]
    BY <1>3, <1>4, <1>5, <2>2, <2>3 DEF CounterIndex
  <2>4. ASSUME NEW t \in Nat, NEW u \in Nat, t <= u + Packets("PASS") + begun[q]
        PROVE  t <= u + Packets("PASS")' + begun'[q]
    BY <1>3, <1>4, <1>5, <2>2, <2>4 DEF CounterIndex
  <2> QED
    BY <1>5, <2>1, <2>2, <2>3, <2>4 DEF StatsSoFar
<1>6. ASSUME NEW r \in Readers, ReaderStep(r), UNCHANGED vars, TrackBegun
      PROVE  \A q \in Readers : StatsSoFar(q)' /\ begun'[q] \in Nat
  <2>1. \A q \in Readers \ {r} : get'[q] = get[q]
    BY <1>1, <1>6, ReaderMoves DEF OTypeInv, TypeOK
  <2>2. ASSUME NEW q \in Readers
        PROVE  begun'[q] \in Nat
    <3>1. InFlight(PacketsOut) \in SUBSET Cpus /\ begun[q] \in Nat
      BY DEF InFlight, StatsInv
    <3>2. Begun \in Nat
      BY <3>1, CpuAssumption, FS_Subset, FS_CardinalityType DEF Begun, PacketsOut
    <3> QED
      BY <1>6, <3>1, <3>2 DEF TrackBegun
  <2>3. ASSUME NEW q \in Readers \ {r}
        PROVE  StatsSoFar(q)'
    <3>1. CASE get[q].endpoint = None
      BY <2>1, <3>1, ReaderAssumption DEF StatsSoFar, Paths
    <3>2. CASE get[q].endpoint # None
      <4>1. begun'[q] = begun[q]
        BY <1>6, <2>1, <3>2 DEF TrackBegun
      <4> QED
        BY <1>5, <2>1, <4>1
    <3> QED
      BY <3>1, <3>2
  <2> QED
    BY <1>6, <2>2, <2>3, StatsStep
<1>7. CASE UNCHANGED <<get, begun>>
  BY <1>1, <1>3, <1>5, <1>7 DEF StatsInv
<1> QED
  BY <1>1, <1>3, <1>6, <1>7 DEF ONext, ovars, observers, StatsInv

\* GetCounters reads TOTAL first: as long as no counter wraps, the total shown
\* is ahead of the verdicts shown by no more than the packets that were between
\* their two counts when TOTAL was read, on any number of CPUs and however long
\* the reading takes.
THEOREM TotalIsNeverAhead ==
    ASSUME MaxPackets < CounterMod
    PROVE  OSpec => []TotalNeverAhead
<1>1. StatsInv => TotalNeverAhead
  <2> SUFFICES ASSUME StatsInv, NEW r \in Readers, Answering(r), get[r].endpoint = "/stats"
               PROVE  PacketsShown(r, "TOTAL")
                        <= PacketsShown(r, "DROP") + PacketsShown(r, "PASS") + begun[r]
    BY DEF TotalNeverAhead
  <2>1. StatsSoFar(r) /\ get[r].todo = <<>>
    BY DEF StatsInv, Answering
  <2>2. \A i, n : ShownIs(r, i, n) => PacketsShown(r, i) = n
    BY DEF ShownIs, PacketsShown
  <2>3. PICK n, d, p \in Nat : /\ ShownIs(r, "TOTAL", n) /\ ShownIs(r, "DROP", d)
                               /\ ShownIs(r, "PASS", p)
                               /\ n <= d + p + begun[r]
    BY <2>1 DEF StatsSoFar
  <2> QED
    BY <2>2, <2>3
<1>2. StatsInv /\ [ONext]_ovars => StatsInv'
  BY StatsNext
<1> QED
  BY <1>1, <1>2, StatsInit, PTL DEF OSpec

(***************************************************************************)
(* Listings.                                                               *)
(***************************************************************************)
Left(todo) == {todo[i] : i \in 1 .. Len(todo)}

Lists(r, t, k) ==
    \E s \in get[r].shown :
        s.from = t /\ s.key = k /\ (t \in Tables => s.val = rules[t][k])

\* What was there all the while is in the answer already, or in a table that is
\* still to be walked; in the one that is being walked, it is the key NextKey
\* gave or one further on.
Awaits(r, t, k) ==
    /\ t \in Left(get[r].todo)
    /\ Reading(r, t) => \/ get[r].cursor = None
                        \/ k = get[r].found
                        \/ Place(t, k) > Place(t, get[r].cursor)

WalkSoFar(r) ==
    /\ get[r].endpoint = None => steady[r] = {}
    /\ ~ (\E t \in Walked : Reading(r, t)) => get[r].cursor = None /\ get[r].found = None
    /\ \A x \in steady[r] :
        /\ x[1] \in Walked
        /\ x[2] \in Present(x[1])
        /\ x[1] \in Left(Reads(get[r].endpoint)) =>
                Lists(r, x[1], x[2]) \/ Awaits(r, x[1], x[2])

ListingInv == OTypeInv /\ \A r \in Readers : WalkSoFar(r)

LEMMA LeftHead ==
    ASSUME NEW S, NEW todo \in Seq(S), todo # <<>>
    PROVE  Left(todo) = {Head(todo)} \cup Left(Tail(todo))
BY DEF Left

LEMMA PlaceType ==
    ASSUME NEW t \in Walked
    PROVE  /\ \A k \in Present(t) : Place(t, k) \in Nat
           /\ \A j, k \in Present(t) : Place(t, j) = Place(t, k) => j = k
BY RuleBucketAssumption, BucketAssumption
   DEF Place, Present, Walked, Tracked, Stored

\* What is still there: where it was, and as it was.
LEMMA StillPresent ==
    ASSUME NEW r \in Readers, WalkSoFar(r), NEW x \in StillThere(steady[r])
    PROVE  /\ x \in steady[r] /\ x[1] \in Walked
           /\ x[2] \in Present(x[1])'
           /\ x[1] \in Tables => rules'[x[1]][x[2]] = rules[x[1]][x[2]]
<1>1. x \in steady[r]
  BY DEF StillThere, Kept
<1>2. x[1] \in Walked /\ x[2] \in Present(x[1])
  BY <1>1 DEF WalkSoFar
<1>3. PICK t, k : t = x[1] /\ k = x[2]
  OBVIOUS
<1>4. CASE t \in Tables
  <2>1. rules'[t][k] = rules[t][k]
    BY <1>3, <1>4 DEF StillThere, Kept, Tables
  <2>2. k \in Keys(t) /\ Matched(rules[t][k])
    BY <1>2, <1>3, <1>4 DEF Present, Stored
  <2>3. k \in Present(t)'
    BY <1>4, <2>1, <2>2 DEF Present, Stored, Matched
  <2> QED
    BY <1>1, <1>2, <1>3, <2>1, <2>3 DEF Present
<1>5. CASE t \notin Tables
  <2>1. k \in Tracked'
    BY <1>3, <1>5 DEF StillThere, Kept
  <2> QED
    BY <1>1, <1>2, <1>3, <1>5, <2>1 DEF Present
<1> QED
  BY <1>4, <1>5

LEMMA AllPresent ==
    \A x \in Everything : x[1] \in Walked /\ x[2] \in Present(x[1])
BY DEF Everything, StoredRules, Present, Walked, Tables

\* The firewall's own steps leave requests alone.
LEMMA WalkWaits ==
    ASSUME NEW q \in Readers, WalkSoFar(q), get'[q] = get[q], TrackSteady
    PROVE  WalkSoFar(q)'
<1>1. /\ steady'[q] \subseteq StillThere(steady[q])
      /\ get'[q].endpoint = None => steady'[q] = {}
  BY DEF TrackSteady
<1>2. \A x \in steady'[q] : /\ x \in steady[q] /\ x[1] \in Walked
                            /\ x[2] \in Present(x[1])'
                            /\ x[1] \in Tables => rules'[x[1]][x[2]] = rules[x[1]][x[2]]
  BY <1>1, StillPresent
<1>3. \A t, k : (t \in Tables => rules'[t][k] = rules[t][k]) /\ Lists(q, t, k)
            => Lists(q, t, k)'
  BY DEF Lists
<1>4. \A t, k : Awaits(q, t, k) => Awaits(q, t, k)'
  BY DEF Awaits, Reading, Place
<1>5. \A t : Reading(q, t)' = Reading(q, t)
  BY DEF Reading
<1> QED
  BY <1>1, <1>2, <1>3, <1>4, <1>5 DEF WalkSoFar

LEMMA WalkStep ==
    ASSUME OTypeInv, NEW r \in Readers, WalkSoFar(r), ReaderStep(r), UNCHANGED vars,
           TrackSteady
    PROVE  WalkSoFar(r)'
<1> DEFINE g == get[r]
<1>1. /\ MapsTypeOK /\ GetTypeOK /\ Moves(r)
      /\ g \in Get /\ (g.endpoint = None => g = NoGet)
  BY ReaderMoves DEF OTypeInv, TypeOK, GetTypeOK
<1>2. /\ rules' = rules /\ \A t : Present(t)' = Present(t)
      /\ \A t, k : Place(t, k)' = Place(t, k)
  BY DEF vars, maps, Present, Stored, Tracked, Place
<1>3. NoGet.todo = <<>> /\ NoGet.cursor = None /\ NoGet.found = None /\ NoGet.endpoint = None
  BY DEF NoGet
<1>4. \A t : Reading(r, t) => /\ g.todo # <<>> /\ t = Head(g.todo) /\ g.endpoint # None
                              /\ Left(g.todo) = {t} \cup Left(Tail(g.todo))
  BY <1>1, <1>3, LeftHead DEF Reading, Get
<1>5. CASE get'[r] = NoGet
  <2>1. steady'[r] = {}
    BY <1>3, <1>5 DEF TrackSteady
  <2> QED
    BY <1>3, <1>5, <2>1 DEF WalkSoFar
<1>6. ASSUME g = NoGet, NEW e \in Endpoints, Becomes(r, e, Reads(e), None, 0, None, 0, {})
      PROVE  WalkSoFar(r)'
  <2>1. steady'[r] = Everything
    BY <1>3, <1>6, ReaderAssumption DEF TrackSteady, Becomes
  <2> QED
    BY <1>2, <1>6, <2>1, AllPresent, ReaderAssumption DEF WalkSoFar, Becomes, Awaits
<1>7. ASSUME get'[r].endpoint = g.endpoint, g.endpoint # None,
             \A x \in steady[r] :
                x[2] \in Present(x[1]) /\ x[1] \in Walked
                /\ (Lists(r, x[1], x[2]) \/ Awaits(r, x[1], x[2]))
                    => Lists(r, x[1], x[2])' \/ Awaits(r, x[1], x[2])',
             ~ (\E t \in Walked : Reading(r, t)')
                => get'[r].cursor = None /\ get'[r].found = None
      PROVE  WalkSoFar(r)'
  <2>1. steady'[r] = StillThere(steady[r])
    BY <1>7 DEF TrackSteady
  <2>2. steady'[r] \subseteq steady[r]
    BY <2>1, StillPresent
  <2> QED
    BY <1>2, <1>7, <2>2 DEF WalkSoFar
\* One thing read: the rest of the plan waits.
<1>8. ASSUME NEW what, Reading(r, what), NEW clock, NEW shown, NEW count,
             Becomes(r, g.endpoint, Tail(g.todo), None, count, None, clock, shown),
             g.shown \subseteq shown,
             \A x \in steady[r] : x[1] = what /\ x[2] \in Present(x[1]) /\ x[1] \in Walked
                                    /\ Awaits(r, x[1], x[2]) => Lists(r, x[1], x[2])
      PROVE  WalkSoFar(r)'
  <2>1. \A t, k : Lists(r, t, k) => Lists(r, t, k)'
    BY <1>2, <1>8 DEF Lists, Becomes
  <2>2. \A t, k : t # what /\ Awaits(r, t, k) => Awaits(r, t, k)'
    BY <1>4, <1>8 DEF Awaits, Becomes
  <2> QED
    BY <1>4, <1>7, <1>8, <2>1, <2>2 DEF Becomes
<1>9. ASSUME NEW what, Reading(r, what), what \notin Walked
      PROVE  /\ g.cursor = None /\ g.found = None
             /\ \A x \in steady[r] : x[1] = what /\ x[2] \in Present(x[1])
                                        /\ x[1] \in Walked
                                        /\ Awaits(r, x[1], x[2]) => Lists(r, x[1], x[2])
  BY <1>4, <1>9 DEF WalkSoFar
\* The walk has come to the end of the table.
<1>10. ASSUME NEW t \in Walked, Reading(r, t), g.found = None,
              Reachable(t, g.cursor) = {}
       PROVE  \A x \in steady[r] : x[1] = t /\ x[2] \in Present(x[1]) /\ x[1] \in Walked
                                    /\ Awaits(r, x[1], x[2]) => Lists(r, x[1], x[2])
  <2> SUFFICES ASSUME NEW k \in Present(t), Awaits(r, t, k) PROVE FALSE
    BY <1>10
  <2>1. k # None /\ None \notin Present(t)
    BY <1>10, PresentKeys
  <2>2. g.cursor \in Present(t) /\ ~ (Place(t, k) > Place(t, g.cursor))
    BY <1>10 DEF Reachable
  <2> QED
    BY <1>10, <2>1, <2>2 DEF Awaits
\* NextKey gives the nearest key ahead.
<1>11. ASSUME NEW t \in Walked, Reading(r, t), g.found = None,
              NEW k \in Reachable(t, g.cursor),
              \A j \in Reachable(t, g.cursor) : Place(t, k) <= Place(t, j),
              Becomes(r, g.endpoint, g.todo, k, g.count + 1, k, g.clock, g.shown)
       PROVE  WalkSoFar(r)'
  <2>1. \A u, j : Lists(r, u, j) => Lists(r, u, j)'
    BY <1>2, <1>11 DEF Lists, Becomes
  <2>2. \A u : Reading(r, u)' = Reading(r, u)
    BY <1>11 DEF Reading, Becomes
  <2>3. \A u, j : u # t /\ Awaits(r, u, j) => Awaits(r, u, j)'
    BY <1>4, <1>11, <2>2 DEF Awaits, Becomes
  <2>4. ASSUME NEW j \in Present(t), Awaits(r, t, j)
        PROVE  Awaits(r, t, j)'
    <3>1. j # None /\ None \notin Present(t) /\ k \in Present(t)
      BY <1>11, PresentKeys DEF Reachable
    <3>2. j \in Reachable(t, g.cursor)
      <4>1. CASE g.cursor \in Present(t)
        BY <1>11, <2>4, <3>1, <4>1 DEF Awaits, Reachable
      <4>2. CASE g.cursor \notin Present(t)
        BY <4>2 DEF Reachable
      <4> QED
        BY <4>1, <4>2
    <3>3. Place(t, j) \in Nat /\ Place(t, k) \in Nat /\ (Place(t, j) = Place(t, k) => j = k)
      BY <3>1, PlaceType
    <3>4. j = k \/ Place(t, j) > Place(t, k)
      BY <1>11, <3>2, <3>3
    <3> QED
      BY <1>2, <1>11, <2>4, <3>4 DEF Awaits, Becomes
  <2> QED
    BY <1>4, <1>7, <1>11, <2>1, <2>2, <2>3, <2>4 DEF Becomes
\* The key it stands on is shown, unless it is gone.
<1>12. ASSUME NEW t \in Walked, Reading(r, t), g.found # None, NEW shown,
              shown = (IF g.found \in Present(t) THEN g.shown \cup {Item(r, t, g.found)}
                       ELSE g.shown),
              Becomes(r, g.endpoint, g.todo, g.cursor, g.count, None, g.clock, shown)
       PROVE  WalkSoFar(r)'
  <2>1. \A u, j : Lists(r, u, j) => Lists(r, u, j)'
    BY <1>2, <1>12 DEF Lists, Becomes
  <2>2. \A u : Reading(r, u)' = Reading(r, u)
    BY <1>12 DEF Reading, Becomes
  <2>3. \A u, j : (u # t \/ j # g.found) /\ Awaits(r, u, j) => Awaits(r, u, j)'
    BY <1>2, <1>4, <1>12, <2>2 DEF Awaits, Becomes
  <2>4. ASSUME NEW k, k = g.found, k \in Present(t)
        PROVE  Lists(r, t, k)'
    <3>1. Item(r, t, k) \in get'[r].shown
      BY <1>12, <2>4 DEF Becomes
    <3>2. /\ Item(r, t, k).from = t /\ Item(r, t, k).key = k
          /\ t \in Tables => Item(r, t, k).val = rules[t][k]
      BY DEF Item
    <3> QED
      BY <1>2, <3>1, <3>2 DEF Lists
  <2>5. ASSUME NEW x \in steady[r], x[2] \in Present(x[1]),
               Lists(r, x[1], x[2]) \/ Awaits(r, x[1], x[2])
        PROVE  Lists(r, x[1], x[2])' \/ Awaits(r, x[1], x[2])'
    <3>1. PICK u, j : u = x[1] /\ j = x[2]
      OBVIOUS
    <3>2. Lists(r, u, j)' \/ Awaits(r, u, j)'
      BY <2>1, <2>3, <2>4, <2>5, <3>1
    <3> QED
      BY <2>1, <2>3, <2>4, <2>5, <3>1, <3>2
  <2> QED
    BY <1>4, <1>7, <1>12, <2>2, <2>5 DEF Becomes
<1>13. "config" \notin Walked /\ "clock" \notin Walked /\ \A i \in CounterIndex : i \notin Walked
  BY DEF CounterIndex, Walked, Tables
<1>14. ASSUME NEW what, Reading(r, what), what \notin Walked, NEW clock, NEW shown,
              Becomes(r, g.endpoint, Tail(g.todo), g.cursor, g.count, g.found, clock, shown),
              g.shown \subseteq shown
       PROVE  WalkSoFar(r)'
  BY <1>8, <1>9, <1>14
<1> DEFINE G == WalkSoFar(r)'
<1>15. g = NoGet /\ (\E e \in Endpoints : Becomes(r, e, Reads(e), None, 0, None, 0, {})) => G
  BY <1>6
<1>16. \A i \in CounterIndex :
          /\ Reading(r, i)
          /\ Becomes(r, g.endpoint, Tail(g.todo), g.cursor, g.count, g.found, g.clock,
                     g.shown \cup {Counter(i)})
          => G
  <2> SUFFICES ASSUME NEW i \in CounterIndex, Reading(r, i),
                      Becomes(r, g.endpoint, Tail(g.todo), g.cursor, g.count, g.found,
                              g.clock, g.shown \cup {Counter(i)})
               PROVE  G
    OBVIOUS
  <2>1. i \notin Walked /\ g.shown \subseteq g.shown \cup {Counter(i)}
    BY <1>13
  <2> QED
    BY <1>14, <2>1
<1>17. /\ Reading(r, "config")
       /\ Becomes(r, g.endpoint, Tail(g.todo), g.cursor, g.count, g.found, g.clock,
                  g.shown \cup {Policy})
       => G
  <2>1. g.shown \subseteq g.shown \cup {Policy}
    OBVIOUS
  <2> QED
    BY <1>13, <1>14, <2>1
<1>18. /\ Reading(r, "clock")
       /\ Becomes(r, g.endpoint, Tail(g.todo), g.cursor, g.count, g.found, now, g.shown)
       => G
  BY <1>13, <1>14
<1>19. \A t \in Walked :
          /\ Reading(r, t) /\ g.found = None /\ Reachable(t, g.cursor) = {}
          /\ Becomes(r, g.endpoint, Tail(g.todo), None, 0, None, g.clock, g.shown)
          => G
  BY <1>8, <1>10
<1>20. \A t \in Walked : \A k \in Reachable(t, g.cursor) :
          /\ Reading(r, t) /\ g.found = None
          /\ \A j \in Reachable(t, g.cursor) : Place(t, k) <= Place(t, j)
          /\ Becomes(r, g.endpoint, g.todo, k, g.count + 1, k, g.clock, g.shown)
          => G
  BY <1>11
<1>21. \A t \in Walked :
          /\ Reading(r, t) /\ g.found # None
          /\ Becomes(r, g.endpoint, g.todo, g.cursor, g.count, None, g.clock,
                     IF g.found \in Present(t) THEN g.shown \cup {Item(r, t, g.found)}
                                               ELSE g.shown)
          => G
  BY <1>12
<1>22. get'[r] = NoGet => G
  BY <1>5
<1> HIDE DEF g, G
<1>23. Moves(r) => G
  BY ONLY <1>15, <1>16, <1>17, <1>18, <1>19, <1>20, <1>21, <1>22 DEF Moves, g
<1> QED
  BY <1>1, <1>23 DEF G

LEMMA ListingInit == OInit => ListingInv
<1> SUFFICES ASSUME OInit PROVE ListingInv
  OBVIOUS
<1>1. \A r \in Readers : get[r] = NoGet /\ steady[r] = {}
  BY DEF OInit
<1>2. NoGet.cursor = None /\ NoGet.found = None
  BY DEF NoGet
<1> QED
  BY <1>1, <1>2, OTypeInit DEF ListingInv, WalkSoFar

LEMMA ListingNext == ListingInv /\ [ONext]_ovars => ListingInv'
<1> SUFFICES ASSUME ListingInv, [ONext]_ovars PROVE ListingInv'
  OBVIOUS
<1>1. OTypeInv /\ OTypeInv' /\ \A r \in Readers : WalkSoFar(r)
  BY OTypeNext DEF ListingInv
<1>2. CASE UNCHANGED get /\ TrackSteady
  BY <1>1, <1>2, WalkWaits DEF ListingInv
<1>3. ASSUME NEW r \in Readers, ReaderStep(r), UNCHANGED vars, TrackSteady
      PROVE  ListingInv'
  <2>1. \A q \in Readers \ {r} : get'[q] = get[q]
    BY <1>1, <1>3, ReaderMoves DEF OTypeInv, TypeOK
  <2>2. WalkSoFar(r)'
    BY <1>1, <1>3, WalkStep
  <2>3. \A q \in Readers \ {r} : WalkSoFar(q)'
    BY <1>1, <1>3, <2>1, WalkWaits
  <2> QED
    BY <1>1, <2>2, <2>3 DEF ListingInv
<1>4. CASE UNCHANGED ovars
  <2>1. \A r \in Readers : WalkSoFar(r)' = WalkSoFar(r)
    BY <1>4 DEF ovars, observers, vars, maps, WalkSoFar, Awaits, Lists, Reading, Place,
                Present, Stored, Tracked
  <2> QED
    BY <1>1, <2>1 DEF ListingInv
<1> QED
  BY <1>2, <1>3, <1>4 DEF ONext

\* ListBlockedRules, List and ListConntrack walk a table without the mutex that
\* guards its changes: whatever comes and goes in the meantime, a rule that was
\* stored unchanged and a flow that was tracked from the request to the answer
\* is in the answer, for tables of any size and any number of readers.
THEOREM ListingIsComplete == OSpec => []ListingComplete
<1>1. ListingInv => ListingComplete
  <2> SUFFICES ASSUME ListingInv, NEW r \in Readers, Answering(r), NEW x \in steady[r],
                      NEW i \in 1 .. Len(Reads(get[r].endpoint)),
                      Reads(get[r].endpoint)[i] = x[1]
               PROVE  Lists(r, x[1], x[2])
    BY DEF ListingComplete, Lists
  <2>1. x[1] \in Left(Reads(get[r].endpoint)) /\ WalkSoFar(r) /\ get[r].todo = <<>>
    BY DEF Left, ListingInv, Answering
  <2>2. Left(<<>>) = {}
    BY DEF Left
  <2>3. ~ Awaits(r, x[1], x[2])
    BY <2>1, <2>2 DEF Awaits
  <2> QED
    BY <2>1, <2>3 DEF WalkSoFar
<1>2. ListingInv /\ [ONext]_ovars => ListingInv'
  BY ListingNext
<1> QED
  BY <1>1, <1>2, ListingInit, PTL DEF OSpec
===============================================================================
