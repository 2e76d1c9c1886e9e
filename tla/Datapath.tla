------------------------------- MODULE Datapath -------------------------------
(***************************************************************************)
(* firewall_prog as it runs on each CPU (bpf/firewall.c): one step per map *)
(* access, so that the daemon and the other CPUs can act between any two.  *)
(* xdp[c] is the packet CPU c is working on and the program's locals; a    *)
(* local is dropped once the program no longer reads it.                   *)
(***************************************************************************)
EXTENDS KernelMaps

CONSTANT Cpus

ASSUME CpuAssumption == IsFiniteSet(Cpus)

VARIABLE xdp

Verdicts == {"PASS", "DROP"}
XdpSteps == {"idle", "raw", "presence", "src", "dst", "probe", "config",
             "established", "estState", "ctLookup", "ctTouch", "ctState",
             "ctEstablish", "ctInsert", "total", "totalBytes", "verdict",
             "verdictBytes"}

\* The steps that look rules up, use the connection table, follow a pointer
\* into it.
Lookups == {"presence", "src", "dst", "probe", "config"}
Derefs == {"estState", "ctTouch", "ctState", "ctEstablish"}
CtSteps == Derefs \cup {"established", "ctLookup", "ctInsert"}

NoPacket ==
    [pc |-> "idle", frame |-> None, flags |-> {}, ip |-> NoRule, port |-> NoRule,
     probe |-> 1, verdict |-> "PASS", elem |-> None, stamp |-> 0]

AtX(c, step) == xdp[c].pc = step

XdpRecord ==
    [pc : XdpSteps, frame : Frames \cup {None}, flags : SUBSET Tables,
     ip : RuleValues("IP") \cup {NoRule}, port : RuleValues("PORT") \cup {NoRule},
     probe : Probes, verdict : Verdicts, elem : Slots \cup {None},
     stamp : Nat]

\* Types of the program's locals.  Past the parse there is a frame, with an IP
\* header except on the raw path; the connection table is reached with a TCP
\* frame only, and every pointer that is followed is not null.
XdpTypeOK ==
    /\ xdp \in [Cpus -> XdpRecord]
    /\ \A c \in Cpus :
        /\ ~ AtX(c, "idle") => xdp[c].frame \in Frames
        /\ xdp[c].pc \in Lookups => HasIpHeader(xdp[c].frame)
        /\ xdp[c].pc \in CtSteps => xdp[c].frame \in TcpFrames
        /\ xdp[c].pc \in Derefs => xdp[c].elem \in Slots

DatapathInit == xdp = [c \in Cpus |-> NoPacket]

Info(c) == parse_packet(xdp[c].frame)
Flow(c) == ct_build_key(Info(c))
Has(c, flag) == flag \in Info(c).tcp_flags
Closing(c) == Has(c, "FIN") \/ Has(c, "RST")

GotoX(c, step) == xdp' = [xdp EXCEPT ![c].pc = step]

\* The verdict is settled: forget the lookups and go on.
Settle(c, verdict, step) ==
    xdp' = [xdp EXCEPT ![c] = [NoPacket EXCEPT !.pc = step, !.frame = xdp[c].frame,
                                               !.verdict = verdict]]

(***************************************************************************)
(* 1. parse.                                                               *)
(***************************************************************************)
Receive(c, frame) ==
    /\ AtX(c, "idle")
    /\ xdp' = [xdp EXCEPT ![c].frame = frame,
                          ![c].pc = IF HasIpHeader(frame) THEN "presence" ELSE "raw"]
    /\ UNCHANGED <<maps, now>>

\* Unparseable or not IPv4: the default policy.
RawVerdict(c) ==
    /\ AtX(c, "raw")
    /\ Settle(c, ByDefault(firewall_config), "total")
    /\ UNCHANGED <<maps, now>>

(***************************************************************************)
(* 2. lookups, each behind its presence flag.                              *)
(***************************************************************************)
AfterIp(flags) == IF "PORT" \in flags THEN "probe" ELSE "config"

ReadPresence(c) ==
    /\ AtX(c, "presence")
    /\ xdp' = [xdp EXCEPT ![c].flags = rule_presence,
                          ![c].pc = IF "IP" \in rule_presence THEN "src"
                                    ELSE AfterIp(rule_presence)]
    /\ UNCHANGED <<maps, now>>

LookupSource(c) ==
    /\ AtX(c, "src")
    /\ LET rule == LpmLookup(rules["IP"], Info(c).saddr)
       IN  xdp' = [xdp EXCEPT ![c].ip = rule,
                              ![c].pc = IF Matched(rule) THEN AfterIp(xdp[c].flags)
                                        ELSE "dst"]
    /\ UNCHANGED <<maps, now>>

LookupDestination(c) ==
    /\ AtX(c, "dst")
    /\ xdp' = [xdp EXCEPT ![c].ip = LpmLookup(rules["IP"], Info(c).daddr),
                          ![c].pc = AfterIp(xdp[c].flags)]
    /\ UNCHANGED <<maps, now>>

ProbePort(c) ==
    /\ AtX(c, "probe")
    /\ LET i == xdp[c].probe
           elem == HashLookup(rules["PORT"], ProbeKey(i, Info(c)))
       IN  xdp' = [xdp EXCEPT ![c].port = TRY_LOOKUP(@, elem),
                              ![c].probe = IF i = 4 THEN 1 ELSE i + 1,
                              ![c].pc = IF i = 4 THEN "config" ELSE "probe"]
    /\ UNCHANGED <<maps, now>>

(***************************************************************************)
(* 3. decision.  The default policy is read once, and also decides whether *)
(* the connection table is consulted and updated.                          *)
(***************************************************************************)
RuleMatched(c) == Matched(xdp[c].ip) \/ Matched(xdp[c].port)
Stateful(c) == firewall_config = "DENY" /\ Info(c).protocol = TCP

\* Mutant: a packet dropped for want of a rule is tracked too.
Decide_TracksDropped(c) ==
    /\ AtX(c, "config")
    /\ IF RuleMatched(c)
       THEN LET verdict == decide(xdp[c].ip, xdp[c].port, firewall_config)
            IN  Settle(c, verdict, IF verdict = "PASS" /\ Stateful(c)
                                   THEN "ctLookup" ELSE "total")
       ELSE Settle(c, ByDefault(firewall_config),
                   IF Stateful(c) THEN "ctLookup" ELSE "total")
    /\ UNCHANGED <<maps, now>>

Decide(c) ==
    /\ AtX(c, "config")
    /\ IF RuleMatched(c)
       THEN LET verdict == decide(xdp[c].ip, xdp[c].port, firewall_config)
            IN  Settle(c, verdict, IF verdict = "PASS" /\ Stateful(c)
                                   THEN "ctLookup" ELSE "total")
       ELSE Settle(c, ByDefault(firewall_config),
                   IF Stateful(c) THEN "established" ELSE "total")
    /\ UNCHANGED <<maps, now>>

\* Mutant: the missed lookup's null is followed.
EstablishedLookup_NoNullTest(c) ==
    /\ AtX(c, "established")
    /\ xdp' = [xdp EXCEPT ![c].elem = conntrack[Flow(c)], ![c].pc = "estState"]
    /\ UNCHANGED <<maps, now>>

\* ct_is_established: the lookup, then the read of the element's state.
EstablishedLookup(c) ==
    /\ AtX(c, "established")
    /\ LET slot == conntrack[Flow(c)]
       IN  xdp' = [xdp EXCEPT ![c].elem = slot,
                              ![c].pc = IF slot = None THEN "total" ELSE "estState"]
    /\ UNCHANGED <<maps, now>>

\* Mutant: a closed connection counts as established.
EstablishedState_ClosedToo(c) ==
    /\ AtX(c, "estState")
    /\ IF elems[xdp[c].elem].state # "NEW"
       THEN Settle(c, "PASS", "ctLookup")
       ELSE Settle(c, "DROP", "total")
    /\ UNCHANGED <<maps, now>>

EstablishedState(c) ==
    /\ AtX(c, "estState")
    /\ IF elems[xdp[c].elem].state = "ESTABLISHED"
       THEN Settle(c, "PASS", "ctLookup")
       ELSE Settle(c, "DROP", "total")
    /\ UNCHANGED <<maps, now>>

(***************************************************************************)
(* 4. ct_update: clock and lookup; then the element's last_seen and state  *)
(* through the pointer, or a new entry.                                    *)
(***************************************************************************)
CtLookup(c) ==
    /\ AtX(c, "ctLookup")
    /\ LET slot == conntrack[Flow(c)]
       IN  xdp' = [xdp EXCEPT ![c].elem = slot, ![c].stamp = now,
                              ![c].pc = IF slot = None THEN "ctInsert" ELSE "ctTouch"]
    /\ UNCHANGED <<maps, now>>

CtTouch(c) ==
    /\ AtX(c, "ctTouch")
    /\ elems' = [elems EXCEPT ![xdp[c].elem].last_seen = xdp[c].stamp]
    /\ xdp' = [xdp EXCEPT ![c].pc = "ctState", ![c].stamp = 0]
    /\ UNCHANGED <<rules, rule_presence, firewall_config, conntrack, counters, now>>

\* Mutant: an ACK establishes whatever the state.
CtUpdateState_AnyState(c) ==
    /\ AtX(c, "ctState")
    /\ IF Closing(c)
       THEN /\ elems' = [elems EXCEPT ![xdp[c].elem].state = "CLOSED"]
            /\ Settle(c, "PASS", "total")
       ELSE /\ UNCHANGED elems
            /\ IF Has(c, "ACK") THEN GotoX(c, "ctEstablish")
               ELSE Settle(c, "PASS", "total")
    /\ UNCHANGED <<rules, rule_presence, firewall_config, conntrack, counters, now>>

\* FIN or RST stores CLOSED; otherwise the state is read, and an ACK on NEW
\* goes on to store ESTABLISHED.
CtUpdateState(c) ==
    /\ AtX(c, "ctState")
    /\ IF Closing(c)
       THEN /\ elems' = [elems EXCEPT ![xdp[c].elem].state = "CLOSED"]
            /\ Settle(c, "PASS", "total")
       ELSE /\ UNCHANGED elems
            /\ IF elems[xdp[c].elem].state = "NEW" /\ Has(c, "ACK")
               THEN GotoX(c, "ctEstablish")
               ELSE Settle(c, "PASS", "total")
    /\ UNCHANGED <<rules, rule_presence, firewall_config, conntrack, counters, now>>

CtEstablish(c) ==
    /\ AtX(c, "ctEstablish")
    /\ elems' = [elems EXCEPT ![xdp[c].elem].state = "ESTABLISHED"]
    /\ Settle(c, "PASS", "total")
    /\ UNCHANGED <<rules, rule_presence, firewall_config, conntrack, counters, now>>

FirstState(c) ==
    IF Closing(c) THEN "CLOSED" ELSE IF Has(c, "SYN") THEN "NEW" ELSE "ESTABLISHED"

CtInsertNew(c) ==
    /\ AtX(c, "ctInsert")
    /\ CtInsert(Flow(c), [last_seen |-> xdp[c].stamp, state |-> FirstState(c)])
    /\ Settle(c, "PASS", "total")
    /\ UNCHANGED <<rules, rule_presence, firewall_config, counters, now>>

(***************************************************************************)
(* 6. counters: TOTAL, then the verdict's; packets, then bytes.            *)
(***************************************************************************)
CountTotal(c) ==
    /\ AtX(c, "total")
    /\ AddTo("TOTAL", "packets", 1)
    /\ Settle(c, xdp[c].verdict, "totalBytes")
    /\ UNCHANGED <<ruleVars, firewall_config, ctVars, now>>

CountTotalBytes(c) ==
    /\ AtX(c, "totalBytes")
    /\ AddTo("TOTAL", "bytes", xdp[c].frame.len)
    /\ GotoX(c, "verdict")
    /\ UNCHANGED <<ruleVars, firewall_config, ctVars, now>>

\* Mutant: a dropped packet counts in TOTAL only.
CountVerdict_PassOnly(c) ==
    /\ AtX(c, "verdict")
    /\ IF xdp[c].verdict = "DROP" THEN UNCHANGED counters
       ELSE AddTo("PASS", "packets", 1)
    /\ GotoX(c, "verdictBytes")
    /\ UNCHANGED <<ruleVars, firewall_config, ctVars, now>>

CountVerdict(c) ==
    /\ AtX(c, "verdict")
    /\ AddTo(xdp[c].verdict, "packets", 1)
    /\ GotoX(c, "verdictBytes")
    /\ UNCHANGED <<ruleVars, firewall_config, ctVars, now>>

\* The last count, and the program returns its verdict.
CountVerdictBytes(c) ==
    /\ AtX(c, "verdictBytes")
    /\ AddTo(xdp[c].verdict, "bytes", xdp[c].frame.len)
    /\ xdp' = [xdp EXCEPT ![c] = NoPacket]
    /\ UNCHANGED <<ruleVars, firewall_config, ctVars, now>>

ProgramStep(c) ==
    \/ RawVerdict(c)
    \/ ReadPresence(c)
    \/ LookupSource(c)
    \/ LookupDestination(c)
    \/ ProbePort(c)
    \/ Decide(c)
    \/ EstablishedLookup(c)
    \/ EstablishedState(c)
    \/ CtLookup(c)
    \/ CtTouch(c)
    \/ CtUpdateState(c)
    \/ CtEstablish(c)
    \/ CtInsertNew(c)
    \/ CountTotal(c)
    \/ CountTotalBytes(c)
    \/ CountVerdict(c)
    \/ CountVerdictBytes(c)

DatapathNext ==
    \E c \in Cpus : (\E f \in Frames : Receive(c, f)) \/ ProgramStep(c)
===============================================================================
