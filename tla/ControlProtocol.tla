---------------------------- MODULE ControlProtocol ----------------------------
(***************************************************************************)
(* What a control request asks of the policy: Server.handle dispatches it  *)
(* (control/server/server.go), the facade and the managers parse its       *)
(* strings (control/ebpf, control/rules/parser.go), and what is left is    *)
(* one call of a map manager, or a refusal that touches nothing.           *)
(*                                                                         *)
(* A request is a record [command, value, protocol, port, sport, action,   *)
(* priority].  Its value is one of [form |-> "host", addr |-> a],          *)
(* [form |-> "cidr", addr |-> a, len |-> n] and [form |-> "word",          *)
(* text |-> w]; a word is what no address parser accepts.                  *)
(***************************************************************************)
EXTENDS RulePolicy

\* The two rule tables: "IP" is the blocked_ips trie, "PORT" the port_policy
\* hash.
Tables == {"IP", "PORT"}

Refused == [kind |-> "refused"]

(***************************************************************************)
(* Parsers.                                                                *)
(***************************************************************************)
IsAddress(value) == value.form \in {"host", "cidr"}
IsHost(value) == value.form = "host"

\* A bare host becomes a full-length prefix, a CIDR loses its host bits.
ParseIPOrCIDR(value) ==
    IF IsHost(value)
    THEN [prefixlen |-> AddrBits, data |-> value.addr]
    ELSE LET host == 2 ^ (AddrBits - value.len)
         IN  [prefixlen |-> value.len,
              data      |-> (value.addr \div host) * host]

ValidAction(action) == action \in {"", "drop", "pass"}
ParseAction(action) == IF action = "pass" THEN "PASS" ELSE "DROP"

ValidProtocol(protocol) == protocol \in {"", "tcp", "udp"}
protoToCode(protocol) ==
    CASE protocol = ""    -> 0
      [] protocol = "tcp" -> TCP
      [] protocol = "udp" -> UDP

IsPolicyWord(value) ==
    value.form = "word" /\ value.text \in {"", "allow", "deny"}

\* Mutant: the word is stored as it is.
ParseDefaultPolicy_Verbatim(value) == value.text
ParseDefaultPolicy(value) == IF value.text = "deny" THEN "DENY" ELSE "ALLOW"

\* The u16 whose little-endian bytes are the port's wire bytes.
portToWire(port) == LoadU16(<<port \div 256, port % 256>>)

\* Listings rebuild the wire bytes and read them big-endian.
wireToPort(w) == 256 * (w % 256) + w \div 256

newPortKey(req) ==
    [protocol |-> protoToCode(req.protocol), dport |-> portToWire(req.port),
     sport |-> portToWire(req.sport), dst |-> req.value.addr]

(***************************************************************************)
(* Dispatch.                                                               *)
(***************************************************************************)
\* A request that names a protocol or a port is about the port table.
NamesPort(req) == req.protocol # "" \/ req.port # 0 \/ req.sport # 0

\* With no action the request takes the DROP entry points, which store
\* priority 0 whatever the request's priority is.
RequestedRule(req) ==
    [action   |-> ParseAction(req.action),
     priority |-> IF req.action = "" THEN 0 ELSE req.priority]

IpKeyOk(req) == IsAddress(req.value)
PortKeyOk(req) == IsHost(req.value) /\ ValidProtocol(req.protocol)

Block(req) ==
    IF ~ ValidAction(req.action) THEN Refused
    ELSE IF NamesPort(req)
    THEN IF PortKeyOk(req)
         THEN [kind |-> "put", table |-> "PORT", key |-> newPortKey(req),
               val |-> RequestedRule(req)]
         ELSE Refused
    ELSE IF IpKeyOk(req)
         THEN [kind |-> "put", table |-> "IP", key |-> ParseIPOrCIDR(req.value),
               val |-> RequestedRule(req)]
         ELSE Refused

Unblock(req) ==
    IF NamesPort(req)
    THEN IF PortKeyOk(req)
         THEN [kind |-> "del", table |-> "PORT", key |-> newPortKey(req)]
         ELSE Refused
    ELSE IF IpKeyOk(req)
         THEN [kind |-> "del", table |-> "IP", key |-> ParseIPOrCIDR(req.value)]
         ELSE Refused

SetDefault(req) ==
    IF IsPolicyWord(req.value)
    THEN [kind |-> "setdefault", policy |-> ParseDefaultPolicy(req.value)]
    ELSE Refused

\* The first manager call of a request.  "clear" makes three, in this order.
ClearIP == [kind |-> "clear", table |-> "IP"]
ClearPorts == [kind |-> "clear", table |-> "PORT"]
ClearConntrack == [kind |-> "clearct"]

handle(req) ==
    CASE req.command = "block"   -> Block(req)
      [] req.command = "unblock" -> Unblock(req)
      [] req.command \in {"setdefault", "default"} -> SetDefault(req)
      [] req.command = "clear"   -> ClearIP
      [] req.command \in {"list", "listports", "status", "conntrack", "stats"}
                                 -> [kind |-> "read"]
      [] OTHER                   -> Refused

\* main's -block list goes through BlockIP: a DROP rule of priority 0.
BlockIP(value) ==
    Block([command |-> "block", value |-> value, protocol |-> "", port |-> 0,
           sport |-> 0, action |-> "", priority |-> 0])
===============================================================================
