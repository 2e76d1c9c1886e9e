------------------------------ MODULE KernelMaps ------------------------------
(***************************************************************************)
(* The eBPF maps the daemon and the XDP program share (bpf/maps.h), with   *)
(* the kernel and library behaviour both sides rely on:                    *)
(*   - one map operation is atomic, two are not;                           *)
(*   - conntrack is a preallocated hash: a lookup yields a pointer to an   *)
(*     element, which keeps pointing there after the entry is deleted and  *)
(*     the element given to another flow;                                  *)
(*   - cilium's MapIterator walks a hash in bucket order, starts over when *)
(*     the key it stands on is gone, and gives up after max_entries steps. *)
(***************************************************************************)
EXTENDS ControlProtocol, FiniteSets, Sequences

CONSTANTS
    Requests,       \* the control requests clients may send
    Startup,        \* the values of main's -block list, in order
    Frames,         \* the frames that may arrive
    Bucket,         \* [Flows -> Nat]: a flow's place in the hash
    Slots,          \* the elements of the conntrack hash
    None,           \* no element, no key: a lookup that missed
    MaxRules,       \* max_entries of a rule table
    MaxFlows,       \* max_entries of conntrack
    CounterMod,     \* a u64 wraps at this value (2^64)
    Boot            \* the clock when the daemon starts

ASSUME LimitAssumption ==
    /\ MaxRules \in Nat \ {0}
    /\ MaxFlows \in Nat \ {0}
    /\ CounterMod \in Nat \ {0}
    /\ Boot \in Nat
    /\ Len(Startup) \in Nat
ASSUME RequestAssumption == \A r \in Requests : r.priority \in Nat
ASSUME FrameAssumption == \A f \in Frames : f.len \in Nat

VARIABLES
    rules,              \* [Tables -> table]: blocked_ips and port_policy
    rule_presence,      \* the tables advertised as non-empty
    firewall_config,    \* the default policy
    conntrack,          \* [Flows -> Slots or None]
    elems,              \* [Slots -> ct_value]
    counters,           \* [CounterIndex -> counter_value]
    now                 \* CLOCK_MONOTONIC, as bpf_ktime_get_ns reads it

ruleVars == <<rules, rule_presence>>
ctVars == <<conntrack, elems>>
maps == <<rules, rule_presence, firewall_config, conntrack, elems, counters>>

(***************************************************************************)
(* The rule tables.                                                        *)
(***************************************************************************)
Calls ==
    {handle(r) : r \in Requests}
        \cup {BlockIP(Startup[i]) : i \in 1 .. Len(Startup)}
        \cup {ClearPorts, ClearConntrack}

Puts(t) == {c \in Calls : c.kind = "put" /\ c.table = t}
Dels(t) == {c \in Calls : c.kind = "del" /\ c.table = t}
KeysOf == [t \in Tables |-> {c.key : c \in Puts(t) \cup Dels(t)}]
Keys(t) == KeysOf[t]
RuleValues(t) == {c.val : c \in Puts(t)}

ASSUME RuleAssumption == \A t \in Tables : NoRule \notin RuleValues(t)

ASSUME PrefixAssumption == \A k \in Keys("IP") : k.prefixlen \in 0 .. AddrBits

Stored(t) == {k \in Keys(t) : Matched(rules[t][k])}
IsFull(t) == Cardinality(Stored(t)) >= MaxRules

(***************************************************************************)
(* Conntrack.                                                              *)
(***************************************************************************)
CtState == {"NEW", "ESTABLISHED", "CLOSED"}

TcpFrames == {f \in Frames : HasIpHeader(f) /\ f.protocol = TCP}
FlowOf(frame) == ct_build_key(parse_packet(frame))
Flows == {FlowOf(f) : f \in TcpFrames}

Tracked == {f \in Flows : conntrack[f] # None}
FreeSlots == {s \in Slots : \A f \in Flows : conntrack[f] # s}

\* bpf_map_update_elem(BPF_ANY): a fresh element takes the place of whatever
\* the key had; a new key in a full table is refused (and the refusal ignored
\* by the caller).
CtInsert(flow, value) ==
    IF Cardinality(Tracked) < MaxFlows \/ flow \in Tracked
    THEN \E s \in FreeSlots :
            /\ conntrack' = [conntrack EXCEPT ![flow] = s]
            /\ elems' = [elems EXCEPT ![s] = value]
    ELSE UNCHANGED ctVars

CtDelete(flow) ==
    /\ conntrack' = [conntrack EXCEPT ![flow] = None]
    /\ UNCHANGED elems

ASSUME SlotAssumption == None \notin Slots /\ None \notin Flows
ASSUME BucketAssumption ==
    /\ Bucket \in [Flows -> Nat]
    /\ \A f, g \in Flows : Bucket[f] = Bucket[g] => f = g

(***************************************************************************)
(* MapIterator over conntrack: the key it stands on and how many it gave.  *)
(***************************************************************************)
NoIter == [cursor |-> None, count |-> 0]
Iter == [cursor : Flows \cup {None}, count : 0 .. MaxFlows + 1]

\* The entries NextKey may still reach.
Ahead(it) ==
    IF it.cursor \in Tracked
    THEN {f \in Tracked : Bucket[f] > Bucket[it.cursor]}
    ELSE Tracked

NextKey(it) ==
    CHOOSE f \in Ahead(it) : \A g \in Ahead(it) : Bucket[f] <= Bucket[g]

IterAborted(it) == it.count > MaxFlows
IterDone(it) == ~ IterAborted(it) /\ Ahead(it) = {}
IterHasNext(it) == ~ IterAborted(it) /\ Ahead(it) # {}
Advance(it) == [cursor |-> NextKey(it), count |-> it.count + 1]

(***************************************************************************)
(* Counters.                                                               *)
(***************************************************************************)
CounterIndex == {"TOTAL", "DROP", "PASS"}

AddTo(idx, field, n) ==
    counters' = [counters EXCEPT ![idx][field] = (@ + n) % CounterMod]

(***************************************************************************)
(* The maps as NewFirewall loads them.  An element's content before its    *)
(* first use is arbitrary; nothing reads it.                               *)
(***************************************************************************)
MapsInit ==
    /\ rules = [t \in Tables |-> [k \in Keys(t) |-> NoRule]]
    /\ rule_presence = {}
    /\ firewall_config = "ALLOW"
    /\ conntrack = [f \in Flows |-> None]
    /\ elems = [s \in Slots |-> [last_seen |-> 0, state |-> "NEW"]]
    /\ counters = [i \in CounterIndex |-> [packets |-> 0, bytes |-> 0]]
    /\ now = Boot

\* Types of the shared maps.
MapsTypeOK ==
    /\ rules = [t \in Tables |-> rules[t]]
    /\ \A t \in Tables : rules[t] \in [Keys(t) -> RuleValues(t) \cup {NoRule}]
    /\ rule_presence \in SUBSET Tables
    /\ firewall_config \in {"ALLOW", "DENY"}
    /\ conntrack \in [Flows -> Slots \cup {None}]
    /\ elems \in [Slots -> [last_seen : Nat, state : CtState]]
    /\ counters \in [CounterIndex -> [packets : Nat, bytes : Nat]]
    /\ now \in Nat
===============================================================================
