------------------------------ MODULE RulePolicy ------------------------------
(***************************************************************************)
(* The pure part of the XDP program (bpf/firewall.c, bpf/helpers.h): how a *)
(* frame becomes a packet_info, which rule of each table covers a packet,  *)
(* and how the matched rules and the default policy become a verdict.      *)
(*                                                                         *)
(* An address is a number below 2^AddrBits (AddrBits is 32 in the code and *)
(* every prefix length is relative to it).  A port travels as the two wire *)
(* bytes <<high, low>>; the program and the map keys hold the u16 that a   *)
(* little-endian load of those bytes yields.  A table is a function from   *)
(* the keys it may hold to a rule value or NoRule.                         *)
(***************************************************************************)
EXTENDS Integers

CONSTANTS
    AddrBits,       \* width of an address
    NoRule          \* "no element": a missed lookup, an absent entry

ASSUME AddrBitsAssumption == AddrBits \in Nat

Addr == 0 .. (2 ^ AddrBits - 1)

(***************************************************************************)
(* Packets.                                                                *)
(***************************************************************************)
TCP == 6
UDP == 17

EthLen == 14
IpLen == 20
TcpLen == 20
UdpLen == 8

\* A 16-bit load of two wire bytes on a little-endian host.
LoadU16(bytes) == bytes[1] + 256 * bytes[2]

\* parse_ethhdr, the ETH_P_IP test and parse_iphdr: does the frame hold a
\* complete IPv4 header (options included)?
HasIpHeader(frame) ==
    /\ frame.len >= EthLen
    /\ frame.ethertype = "IPv4"
    /\ frame.len >= EthLen + IpLen
    /\ 4 * frame.ihl >= IpLen
    /\ frame.len >= EthLen + 4 * frame.ihl

\* parse_tcphdr / parse_udphdr: the transport header fits the frame.
HasL4Header(frame) ==
    LET room == frame.len - (EthLen + 4 * frame.ihl)
    IN  \/ frame.protocol = TCP /\ room >= TcpLen
        \/ frame.protocol = UDP /\ room >= UdpLen

\* A frame whose transport header is cut short still parses, with zero ports
\* and no flags.
parse_packet(frame) ==
    [saddr     |-> frame.saddr,
     daddr     |-> frame.daddr,
     protocol  |-> frame.protocol,
     dport     |-> IF HasL4Header(frame) THEN LoadU16(frame.dport) ELSE 0,
     sport     |-> IF HasL4Header(frame) THEN LoadU16(frame.sport) ELSE 0,
     tcp_flags |-> IF HasL4Header(frame) /\ frame.protocol = TCP
                   THEN frame.flags ELSE {}]

(***************************************************************************)
(* Lookups.                                                                *)
(***************************************************************************)
Matched(rule) == rule # NoRule

\* bpf_map_lookup_elem on a hash map: an exact match on the key.
HashLookup(table, key) == IF key \in DOMAIN table THEN table[key] ELSE NoRule

\* The leading prefixlen bits of the address are those of the prefix.
Covers(prefix, addr) ==
    LET host == 2 ^ (AddrBits - prefix.prefixlen)
    IN  addr \div host = prefix.data \div host

\* bpf_map_lookup_elem on the LPM trie: the longest stored prefix that covers
\* the address.
LpmHits(table, addr) ==
    {p \in DOMAIN table : Matched(table[p]) /\ Covers(p, addr)}
Longest(prefixes) ==
    CHOOSE p \in prefixes : \A q \in prefixes : q.prefixlen <= p.prefixlen
LpmLookup(table, addr) ==
    IF LpmHits(table, addr) = {} THEN NoRule
    ELSE table[Longest(LpmHits(table, addr))]

\* ip_block_action: the source address' match, else the destination's.
ip_block_action(table, info) ==
    LET src == LpmLookup(table, info.saddr)
    IN  IF Matched(src) THEN src ELSE LpmLookup(table, info.daddr)

\* The four keys port_rule_action probes, most specific first.
Probes == 1 .. 4
ProbeKey(i, info) ==
    [protocol |-> info.protocol,
     dport    |-> IF i \in {1, 2} THEN info.dport ELSE 0,
     sport    |-> IF i \in {1, 3} THEN info.sport ELSE 0,
     dst      |-> info.daddr]

\* Mutants: a later match of equal priority wins; the first match stays.
TRY_LOOKUP_LaterWins(best, elem) ==
    IF Matched(elem) /\ (~ Matched(best) \/ elem.priority >= best.priority)
    THEN elem ELSE best
TRY_LOOKUP_FirstStays(best, elem) == IF Matched(best) THEN best ELSE elem

\* TRY_LOOKUP keeps the first match unless a later one has a strictly higher
\* priority.
TRY_LOOKUP(best, elem) ==
    IF Matched(elem) /\ (~ Matched(best) \/ elem.priority > best.priority)
    THEN elem ELSE best

port_rule_action(table, info) ==
    LET Probe(best, i) == TRY_LOOKUP(best, HashLookup(table, ProbeKey(i, info)))
    IN  Probe(Probe(Probe(Probe(NoRule, 1), 2), 3), 4)

(***************************************************************************)
(* The decision.                                                           *)
(***************************************************************************)
ByDefault(def) == IF def = "DENY" THEN "DROP" ELSE "PASS"

\* decide(): both matched: the higher priority, and DROP if either says DROP
\* at equal priority; one matched: that one; none: the default policy.
decide(ip, port, def) ==
    IF Matched(ip) /\ Matched(port)
    THEN IF ip.priority # port.priority
         THEN IF ip.priority > port.priority THEN ip.action ELSE port.action
         ELSE IF "DROP" \in {ip.action, port.action} THEN "DROP" ELSE "PASS"
    ELSE IF Matched(ip) THEN ip.action
    ELSE IF Matched(port) THEN port.action
    ELSE ByDefault(def)

(***************************************************************************)
(* The conntrack key: the packet's own 5-tuple, in the packet's direction. *)
(***************************************************************************)
ct_build_key(info) ==
    [saddr |-> info.saddr, daddr |-> info.daddr, sport |-> info.sport,
     dport |-> info.dport, protocol |-> info.protocol]
===============================================================================
