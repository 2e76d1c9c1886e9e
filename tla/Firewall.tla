------------------------------- MODULE Firewall -------------------------------
(***************************************************************************)
(* The running firewall: control handlers and main, the reaper and the XDP *)
(* program on every CPU, interleaved at every map operation.               *)
(*                                                                         *)
(* Two history variables record what the properties are about:             *)
(*   live[c]   the rules stored, unchanged, ever since CPU c received the  *)
(*             packet it is working on;                                    *)
(*   admitted  the flows of which a packet passed because a rule said so   *)
(*             while the default policy was deny.                          *)
(***************************************************************************)
EXTENDS ControlPlane, Datapath, Reaper

CONSTANT MaxTime        \* the clock stops here (bounds the instance)

ASSUME TimeAssumption == MaxTime \in Nat

VARIABLES live, admitted

vars == <<maps, now, controlVars, xdp, reap, live, admitted>>

Init ==
    /\ MapsInit
    /\ ControlInit
    /\ DatapathInit
    /\ ReaperInit
    /\ live = [c \in Cpus |-> {}]
    /\ admitted = {}

Tick ==
    /\ now < MaxTime
    /\ now' = now + 1
    /\ UNCHANGED <<maps, controlVars, xdp, reap>>

(***************************************************************************)
(* History.                                                                *)
(***************************************************************************)
StoredRules == UNION {{<<t, k>> : k \in Stored(t)} : t \in Tables}
Kept(stored) == {r \in stored : rules'[r[1]][r[2]] = rules[r[1]][r[2]]}

\* Tracked while its packet is undecided, forgotten once it is.
Undecided == {"raw", "presence", "src", "dst", "probe", "config"}
TrackLive ==
    live' = [c \in Cpus |->
                IF xdp'[c].pc \notin Undecided THEN {}
                ELSE IF xdp[c].pc = "idle" THEN Kept(StoredRules)
                ELSE Kept(live[c])]

AdmitsNow(c) ==
    /\ AtX(c, "config")
    /\ xdp'[c].pc # "config"
    /\ firewall_config = "DENY"
    /\ xdp[c].frame \in TcpFrames
    /\ RuleMatched(c)
    /\ decide(xdp[c].ip, xdp[c].port, firewall_config) = "PASS"
TrackAdmitted ==
    admitted' = admitted \cup {Flow(c) : c \in {d \in Cpus : AdmitsNow(d)}}

History == TrackLive /\ TrackAdmitted

\* main starts the reaper's goroutine once the -block list is applied.
TimedNext ==
    \/ Started /\ ReaperNext /\ UNCHANGED <<controlVars, xdp>>
    \/ Tick

Next ==
    \/ ControlNext /\ UNCHANGED <<xdp, reap>> /\ History
    \/ DatapathNext /\ UNCHANGED <<controlVars, reap>> /\ History
    \/ TimedNext /\ History

(***************************************************************************)
(* Fairness.  A goroutine that can run is run; a handler that waits for    *)
(* the mutex gets it (sync.Mutex hands over to a waiter that has starved   *)
(* for a millisecond).  Clients, packets, the timer and failures owe       *)
(* nothing.                                                                *)
(***************************************************************************)
Fairness ==
    /\ \A h \in Handlers :
        /\ WF_vars((Unlock(h) \/ Reply(h) \/ ManagerStep(h))
                    /\ UNCHANGED <<xdp, reap>> /\ History)
        /\ SF_vars(Lock(h) /\ UNCHANGED <<xdp, reap>> /\ History)

Spec == Init /\ [][Next]_vars
FairSpec == Spec /\ Fairness

(***************************************************************************)
(* Properties.                                                             *)
(***************************************************************************)
\* Types of the maps, of every actor's locals and of the histories.
TypeOK ==
    /\ MapsTypeOK
    /\ ControlTypeOK
    /\ XdpTypeOK
    /\ ReaperTypeOK
    /\ live \in [Cpus -> SUBSET (UNION {{t} \X Keys(t) : t \in Tables})]
    /\ admitted \in SUBSET Flows

\* presence.go: the flag of a table is set before its first insert and cleared
\* only after its last delete, whatever fails and whoever interleaves: a
\* stored rule is always advertised.
PresenceConservative == \A t \in Tables : Stored(t) # {} => t \in rule_presence

\* Why it holds, whoever interleaves: a map operation is made by the holder of
\* the mutex, or by main before there is a server; so between its read and its
\* write the sole writer's copy of the flags, and what it knows of the table it
\* writes, stay true.
MutexHeld == \A h \in Handlers : op[h].pc \in Locked => mu = h
StartupAlone == \A h \in Handlers : ~ At(h, "idle") => Started
WriterKnows(a) ==
    /\ op[a].pc \in {"setWrite", "syncWrite"} => op[a].flags = rule_presence
    /\ At(a, "put") => Table(a) \in rule_presence
    /\ op[a].pc \in {"syncRead", "syncWrite"} => op[a].has = (Stored(Table(a)) # {})
SoleWriterKnows ==
    /\ MutexHeld
    /\ StartupAlone
    /\ \A a \in Actors : WriterKnows(a)

\* syncPresence: with no call in progress and no failed map operation the
\* flags are exact, so an emptied table costs the datapath nothing.
Quiet == Started /\ mu = Free
PresenceExact ==
    Quiet => rule_presence = {t \in Tables : Stored(t) # {}}

\* firewall.c step 2 and maps.h: a rule that covers a packet and was stored all
\* the while the packet was looked up has been consulted when the decision is
\* made, although flag and tables are read at different moments: the IP lookup
\* matched, and the port lookup kept a rule of at least its priority.
CoversPacket(t, k, c) ==
    IF t = "IP" THEN Covers(k, Info(c).saddr) \/ Covers(k, Info(c).daddr)
    ELSE \E i \in Probes : k = ProbeKey(i, Info(c))
LiveRuleConsulted ==
    \A c \in Cpus : AtX(c, "config") =>
        \A r \in live[c] : CoversPacket(r[1], r[2], c) =>
            IF r[1] = "IP" THEN Matched(xdp[c].ip)
            ELSE /\ Matched(xdp[c].port)
                 /\ xdp[c].port.priority >= rules["PORT"][r[2]].priority

\* ct_update and the established fast path: state exists only for a flow that
\* a rule let through under default-deny, and only such a flow passes without
\* a rule.  A dropped SYN leaves nothing a later ACK could use, even when the
\* default policy or the rules change while packets are in flight.
TrackedFlowsAdmitted ==
    /\ Tracked \subseteq admitted
    /\ \A c \in Cpus : xdp[c].pc \in {"estState", "ctLookup", "ctTouch", "ctState",
                                      "ctEstablish", "ctInsert"}
                            => Flow(c) \in admitted

\* incr_counter: TOTAL is DROP plus PASS plus what has been added to TOTAL and
\* not yet to the verdict's counter, in packets and in bytes, on any number of
\* CPUs and across a wrap of the counters.
InFlight(steps) == {c \in Cpus : xdp[c].pc \in steps}
SumOver(w) ==
    LET sum[S \in SUBSET DOMAIN w] ==
            IF S = {} THEN 0
            ELSE LET x == CHOOSE y \in S : TRUE
                 IN  w[x] + sum[S \ {x}]
    IN  sum[DOMAIN w]
BytesOf(cpus) == SumOver([c \in cpus |-> xdp[c].frame.len])
Balanced(field, inFlight) ==
    counters["TOTAL"][field] % CounterMod
        = (counters["DROP"][field] + counters["PASS"][field] + inFlight) % CounterMod
CountersConserve ==
    /\ Balanced("packets", Cardinality(InFlight({"totalBytes", "verdict"})))
    /\ Balanced("bytes", BytesOf(InFlight({"verdict", "verdictBytes"})))

\* ct_update's FIN/RST test comes first: a conntrack entry that is CLOSED stays
\* CLOSED as long as it is there, and no later packet of the flow opens it again,
\* however clear and the reaper interleave.  (For one CPU, where the packets of
\* one direction of a connection usually are: on two, ct_update's read and write
\* of the state race.)
StateOf(f) == IF f \in Tracked THEN elems[conntrack[f]].state ELSE "NONE"
ClosedIsFinal ==
    [][\A f \in Flows : StateOf(f) = "CLOSED" => StateOf(f)' \in {"CLOSED", "NONE"}]_vars

\* server.go: every request that waits for the mutex is answered, whatever
\* the datapath does to the table that a clear walks over.
Answered == \A h \in Handlers : At(h, "lock") ~> At(h, "idle")

\* conntrack.go:119: Reap deletes entries idle for at least the timeout.
ReapsOnlyIdle ==
    [][\A f \in Tracked : ReapDelete /\ f \notin Tracked'
            => now - elems[conntrack[f]].last_seen >= CtTimeout]_vars

\* server.go:250: a clear that answered OK has cleared the tracked state along
\* with the rules: no rule, no flow.
ClearForgetsFlows ==
    \A h \in Handlers :
        At(h, "reply") /\ op[h].ok /\ op[h].call = ClearConntrack
            /\ (\A t \in Tables : Stored(t) = {})
        => Tracked = {}
===============================================================================
