------------------------------- MODULE Observers -------------------------------
(***************************************************************************)
(* The HTTP API beside the running firewall (control/api/api.go): each GET *)
(* is served by a goroutine that reads the maps through the same manager   *)
(* code as the control server, without Server.mu, one map operation per    *)
(* step.  It writes nothing; what it shows is put together from moments    *)
(* between which packets are counted and rules come and go.                *)
(*                                                                         *)
(* get[r] is the request in progress: what is still to be read, the        *)
(* position of its walk, the key NextKey gave, the clock it has read and   *)
(* what it will show.  Histories: steady[r], the rules stored unchanged    *)
(* and the flows tracked since the request came in; begun[r], how many     *)
(* packets were counted in TOTAL only when r read it; and the number of    *)
(* frames received, which MaxPackets bounds.                               *)
(***************************************************************************)
EXTENDS Firewall

CONSTANTS
    Readers,        \* goroutines that serve the API
    Endpoints,      \* the paths clients ask for
    RuleBucket,     \* [Tables -> [keys -> Nat]]: a rule's place in the walk
    MaxPackets      \* frames received (bounds the instance)

Paths == {"/health", "/status", "/stats", "/rules", "/conntrack"}

ASSUME ReaderAssumption ==
    /\ Endpoints \subseteq Paths
    /\ None \notin Paths
    /\ MaxPackets \in Nat
ASSUME RuleBucketAssumption ==
    \A t \in Tables :
        /\ None \notin Keys(t)
        /\ RuleBucket[t] \in [Keys(t) -> Nat]
        /\ \A j, k \in Keys(t) : RuleBucket[t][j] = RuleBucket[t][k] => j = k

VARIABLES get, steady, begun, received

observers == <<get, steady, begun, received>>
ovars == <<vars, observers>>

(***************************************************************************)
(* What an endpoint reads, in order.                                       *)
(***************************************************************************)
\* Mutant: the verdicts' counters first.
Reads_TotalLast(endpoint) ==
    CASE endpoint = "/health"    -> <<>>
      [] endpoint = "/status"    -> <<"config", "IP", "PORT">>
      [] endpoint = "/stats"     -> <<"PASS", "DROP", "TOTAL">>
      [] endpoint = "/rules"     -> <<"IP", "PORT">>
      [] endpoint = "/conntrack" -> <<"clock", "CONNTRACK">>

Reads(endpoint) ==
    CASE endpoint = "/health"    -> <<>>
      [] endpoint = "/status"    -> <<"config", "IP", "PORT">>
      [] endpoint = "/stats"     -> <<"TOTAL", "DROP", "PASS">>
      [] endpoint = "/rules"     -> <<"IP", "PORT">>
      [] endpoint = "/conntrack" -> <<"clock", "CONNTRACK">>

NoGet == [endpoint |-> None, todo |-> <<>>, cursor |-> None, count |-> 0,
          found |-> None, clock |-> 0, shown |-> {}]

Reading(r, what) == get[r].todo # <<>> /\ Head(get[r].todo) = what
Answering(r) == get[r].endpoint # None /\ get[r].todo = <<>>

\* One item for the answer, and on to the next thing to read.
Show(r, item) == get' = [get EXCEPT ![r].todo = Tail(@), ![r].shown = @ \cup {item}]

(***************************************************************************)
(* A table as an iterator walks it.                                        *)
(***************************************************************************)
Walked == Tables \cup {"CONNTRACK"}
Present(t) == IF t \in Tables THEN Stored(t) ELSE Tracked
Place(t, k) == IF t \in Tables THEN RuleBucket[t][k] ELSE Bucket[k]
MaxEntries(t) == IF t \in Tables THEN MaxRules ELSE MaxFlows

\* The keys NextKey may still reach from a cursor.
Reachable(t, cursor) ==
    {k \in Present(t) : cursor \in Present(t) => Place(t, k) > Place(t, cursor)}

\* ctEntry.  Mutant: the age is taken without a look at the order.
ctEntry_Unguarded(flow, clock) ==
    (clock - elems[conntrack[flow]].last_seen) % CounterMod

ctEntry(flow, clock) ==
    LET last_seen == elems[conntrack[flow]].last_seen
    IN  IF clock > last_seen THEN clock - last_seen ELSE 0

Item(r, t, k) ==
    [from |-> t, key |-> k,
     val |-> IF t \in Tables THEN rules[t][k] ELSE ctEntry(k, get[r].clock)]

(***************************************************************************)
(* Steps of a request.                                                     *)
(***************************************************************************)
Request(r) ==
    /\ get[r] = NoGet
    /\ \E e \in Endpoints :
        get' = [get EXCEPT ![r].endpoint = e, ![r].todo = Reads(e)]

\* GetCounters: one slot, packets and bytes together.
ReadCounter(r) ==
    \E i \in CounterIndex :
        Reading(r, i) /\ Show(r, [from |-> i, key |-> None, val |-> counters[i]])

ReadPolicy(r) ==
    /\ Reading(r, "config")
    /\ Show(r, [from |-> "config", key |-> None, val |-> firewall_config])

ReadClock(r) ==
    /\ Reading(r, "clock")
    /\ get' = [get EXCEPT ![r].todo = Tail(@), ![r].clock = now]

\* Next: the key after the cursor, or the end of the table ...
WalkNext(r) ==
    \E t \in Walked :
        /\ Reading(r, t)
        /\ get[r].found = None
        /\ get[r].count <= MaxEntries(t)
        /\ LET ahead == Reachable(t, get[r].cursor)
           IN  IF ahead = {}
               THEN get' = [get EXCEPT ![r].todo = Tail(@), ![r].cursor = None,
                                       ![r].count = 0]
               ELSE LET k == CHOOSE k \in ahead :
                                \A j \in ahead : Place(t, k) <= Place(t, j)
                    IN  get' = [get EXCEPT ![r].cursor = k, ![r].found = k,
                                           ![r].count = @ + 1]

\* ... and its value, unless the key is gone by now.
WalkLookup(r) ==
    \E t \in Walked :
        /\ Reading(r, t)
        /\ get[r].found # None
        /\ get' = [get EXCEPT ![r].found = None,
                       ![r].shown = IF get[r].found \in Present(t)
                                    THEN @ \cup {Item(r, t, get[r].found)} ELSE @]

\* Mutant: iter.Err() is not looked at, and the walk so far is the table.
WalkAborted_Ignored(r) ==
    \E t \in Walked :
        /\ Reading(r, t)
        /\ get[r].found = None
        /\ get[r].count > MaxEntries(t)
        /\ get' = [get EXCEPT ![r].todo = Tail(@), ![r].cursor = None, ![r].count = 0]

\* The iterator gives up: status 500, and nothing is shown.
WalkAborted(r) ==
    \E t \in Walked :
        /\ Reading(r, t)
        /\ get[r].found = None
        /\ get[r].count > MaxEntries(t)
        /\ get' = [get EXCEPT ![r] = NoGet]

\* A lookup the kernel refuses: the same.
ReadFails(r) ==
    /\ SyscallsFail
    /\ get[r].todo # <<>>
    /\ get' = [get EXCEPT ![r] = NoGet]

Answer(r) ==
    /\ Answering(r)
    /\ get' = [get EXCEPT ![r] = NoGet]

ReaderStep(r) ==
    \/ Request(r)
    \/ ReadCounter(r) \/ ReadPolicy(r) \/ ReadClock(r)
    \/ WalkNext(r) \/ WalkLookup(r) \/ WalkAborted(r)
    \/ ReadFails(r)
    \/ Answer(r)

(***************************************************************************)
(* Histories and the specification.                                        *)
(***************************************************************************)
Everything == StoredRules \cup {<<"CONNTRACK", f>> : f \in Tracked}
StillThere(things) ==
    Kept({x \in things : x[1] \in Tables})
        \cup {x \in things : x[1] = "CONNTRACK" /\ x[2] \in Tracked'}
TrackSteady ==
    steady' = [r \in Readers |->
                 IF get'[r].endpoint = None THEN {}
                 ELSE IF get[r].endpoint = None THEN Everything
                 ELSE StillThere(steady[r])]

Begun == Cardinality(InFlight({"totalBytes", "verdict"}))
TrackBegun ==
    begun' = [r \in Readers |->
                IF get'[r].endpoint = None THEN 0
                ELSE IF Reading(r, "TOTAL") /\ get'[r] # get[r] THEN Begun
                ELSE begun[r]]

Received == \E c \in Cpus : AtX(c, "idle") /\ xdp'[c].pc # "idle"
CountReceived ==
    /\ received' = received + (IF Received THEN 1 ELSE 0)
    /\ received' <= MaxPackets

OInit ==
    /\ Init
    /\ get = [r \in Readers |-> NoGet]
    /\ steady = [r \in Readers |-> {}]
    /\ begun = [r \in Readers |-> 0]
    /\ received = 0

ONext ==
    \/ Next /\ CountReceived /\ UNCHANGED <<get, begun>> /\ TrackSteady
    \/ (\E r \in Readers : ReaderStep(r)) /\ UNCHANGED <<vars, received>>
            /\ TrackSteady /\ TrackBegun

OSpec == OInit /\ [][ONext]_ovars

(***************************************************************************)
(* Properties.                                                             *)
(***************************************************************************)
\* GetCounters reads TOTAL first: however long the reading takes and however
\* many packets are counted meanwhile, the packets shown as total are at most
\* those shown as dropped or passed and those (one per CPU) whose verdict was
\* not counted yet when TOTAL was read.  The other way round there is no bound.
PacketsShown(r, i) ==
    (CHOOSE s \in get[r].shown : s.from = i).val.packets
TotalNeverAhead ==
    \A r \in Readers : Answering(r) /\ get[r].endpoint = "/stats" =>
        PacketsShown(r, "TOTAL")
            <= PacketsShown(r, "DROP") + PacketsShown(r, "PASS") + begun[r]

\* ListBlockedRules, List and ListConntrack without the mutex: a rule that was
\* stored unchanged, or a flow that was tracked, from the request to the answer
\* is in the answer, although the iterator starts over when the key it stands
\* on is deleted, and gives up when that happens too often.
ListingComplete ==
    \A r \in Readers : Answering(r) =>
        \A x \in steady[r] :
            \A i \in 1 .. Len(Reads(get[r].endpoint)) :
                Reads(get[r].endpoint)[i] = x[1] =>
                    \E s \in get[r].shown :
                        /\ s.from = x[1]
                        /\ s.key = x[2]
                        /\ x[1] \in Tables => s.val = rules[x[1]][x[2]]

\* ctEntry: the clock is read once, before the walk, while packets go on to
\* refresh the entries: an entry seen after that reading is not idle, and none
\* is shown idle for longer than the daemon runs.
AgesSane ==
    \A r \in Readers : \A s \in get[r].shown :
        s.from = "CONNTRACK" => s.val \in 0 .. now - Boot
===============================================================================
