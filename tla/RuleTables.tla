------------------------------ MODULE RuleTables ------------------------------
(***************************************************************************)
(* The firewall as one client alone sees it: each command line, or request *)
(* written to the socket by another program, is applied to the rule tables *)
(* at once, and a frame that arrives between two of them gets the verdict  *)
(* firewall_prog computes from the tables and the default policy (no       *)
(* connection is tracked here).                                            *)
(*                                                                         *)
(* The rule book is a history variable: the rules in force in the words of *)
(* those who asked for them (sets of addresses, port numbers as typed).    *)
(* Verdicts of the program, which go through the client's parser,          *)
(* prefixes, wire byte order and probe keys, are compared with the book.   *)
(***************************************************************************)
EXTENDS Firewallctl, FiniteSets

CONSTANTS
    Lines,          \* the command lines that may be typed
    Requests,       \* the requests other programs may send
    Frames          \* the frames that may arrive

\* The program's addresses are IPv4 addresses.
ASSUME WidthAssumption == AddrBits \in 0 .. 32

\* What an address parser accepts has the width of an address.
AddressOk(value) ==
    \/ value.form = "word"
    \/ value.form = "host" /\ value.addr \in Addr
    \/ value.form = "cidr" /\ value.addr \in Addr /\ value.len \in 0 .. AddrBits

\* Ports are uint16 and priorities uint32, on the socket and on the wire.
Port == 0 .. 2 ^ 16 - 1
Byte == 0 .. 255

ASSUME RequestAssumption ==
    \A req \in Requests :
        /\ req.port \in Port /\ req.sport \in Port /\ req.priority \in Nat
        /\ AddressOk(req.value)

\* Every token is a word or one option; what a number option says is a number.
ASSUME LineAssumption ==
    \A line \in Lines :
        /\ Len(line) \in Nat /\ DOMAIN line = 1 .. Len(line)
        /\ \A i \in DOMAIN line : \E name \in DOMAIN line[i] :
                /\ DOMAIN line[i] = {name}
                /\ name = "arg" => AddressOk(line[i].arg)
                /\ name \in {"dport", "sport", "priority"} => line[i][name] \in Int

ASSUME FrameAssumption ==
    \A f \in Frames :
        /\ f.saddr \in Addr /\ f.daddr \in Addr
        /\ f.sport \in Byte \X Byte /\ f.dport \in Byte \X Byte

VARIABLES
    rules,              \* [Tables -> table]: blocked_ips and port_policy
    firewall_config,    \* the default policy
    book                \* history: the rules in force, as requested

vars == <<rules, firewall_config, book>>

(***************************************************************************)
(* What is asked: the request, and the words of whoever asks for it.       *)
(***************************************************************************)
\* The tokens of a name, by position; the value of the last one.
At(line, name) == {i \in DOMAIN line : name \in DOMAIN line[i]}
Said(line, name, otherwise) ==
    IF At(line, name) = {} THEN otherwise
    ELSE line[CHOOSE i \in At(line, name) : \A j \in At(line, name) : j <= i][name]
\* The second of the words.
Object(line) ==
    LET Before(i) == {j \in At(line, "arg") : j < i}
    IN  IF \E i \in At(line, "arg") : Cardinality(Before(i)) = 1
        THEN line[CHOOSE i \in At(line, "arg") : Cardinality(Before(i)) = 1].arg
        ELSE [form |-> "word", text |-> ""]
Words(line) ==
    [value    |-> Object(line),
     protocol |-> Said(line, "protocol", ""),
     port     |-> Said(line, "dport", 0),
     sport    |-> Said(line, "sport", 0),
     action   |-> Said(line, "action", ""),
     priority |-> Said(line, "priority", 0)]

Sent == {line \in Lines : firewallctl(line) # NotSent}
Asks == {[req |-> firewallctl(line), words |-> Words(line)] : line \in Sent}
            \cup {[req |-> req, words |-> req] : req \in Requests}

(***************************************************************************)
(* State.                                                                  *)
(***************************************************************************)
KeyedCalls(t) ==
    {c \in {handle(a.req) : a \in Asks} : c.kind \in {"put", "del"} /\ c.table = t}
Keys(t) == {c.key : c \in KeyedCalls(t)}
Rule == {RequestedRule(a.req) : a \in Asks}

ASSUME RuleAssumption == NoRule \notin Rule

Empty(t) == [k \in Keys(t) |-> NoRule]

Init ==
    /\ rules = [t \in Tables |-> Empty(t)]
    /\ firewall_config = "ALLOW"
    /\ book = {}

(***************************************************************************)
(* The book.                                                               *)
(***************************************************************************)
\* The addresses a value names.
Net(value) ==
    IF IsHost(value) THEN {value.addr}
    ELSE {a \in Addr : a \div 2 ^ (AddrBits - value.len)
                            = value.addr \div 2 ^ (AddrBits - value.len)}

\* What a rule is about, in those words.
Subject(words) ==
    IF NamesPort(words)
    THEN [about |-> "port", protocol |-> words.protocol, port |-> words.port,
          sport |-> words.sport, dst |-> words.value.addr]
    ELSE [about |-> "net", net |-> Net(words.value)]

\* "asked" is the priority that was said.
Entry(words) == [subject |-> Subject(words), rule |-> RequestedRule(words),
                 asked |-> words.priority]
Without(subject) == {e \in book : e.subject # subject}

(***************************************************************************)
(* Operations.                                                             *)
(***************************************************************************)
BlockRule(ask) ==
    LET call == handle(ask.req)
    IN  /\ call.kind = "put"
        /\ rules' = [rules EXCEPT ![call.table][call.key] = call.val]
        /\ book' = Without(Subject(ask.words)) \cup {Entry(ask.words)}
        /\ UNCHANGED firewall_config

\* Deleting an absent key is an error and changes nothing.
UnblockRule(ask) ==
    LET call == handle(ask.req)
    IN  /\ call.kind = "del"
        /\ Matched(rules[call.table][call.key])
        /\ rules' = [rules EXCEPT ![call.table][call.key] = NoRule]
        /\ book' = Without(Subject(ask.words))
        /\ UNCHANGED firewall_config

SetPolicy(ask) ==
    LET call == handle(ask.req)
    IN  /\ call.kind = "setdefault"
        /\ firewall_config' = call.policy
        /\ UNCHANGED <<rules, book>>

ClearRules(ask) ==
    /\ handle(ask.req) = ClearIP
    /\ rules' = [t \in Tables |-> Empty(t)]
    /\ book' = {}
    /\ UNCHANGED firewall_config

Next ==
    \E ask \in Asks :
        BlockRule(ask) \/ UnblockRule(ask) \/ SetPolicy(ask) \/ ClearRules(ask)

Spec == Init /\ [][Next]_vars

(***************************************************************************)
(* The program's verdict on a frame.                                       *)
(***************************************************************************)
IpRule(frame) == ip_block_action(rules["IP"], parse_packet(frame))
PortRule(frame) == port_rule_action(rules["PORT"], parse_packet(frame))

firewall_prog(frame) ==
    IF HasIpHeader(frame)
    THEN decide(IpRule(frame), PortRule(frame), firewall_config)
    ELSE ByDefault(firewall_config)

(***************************************************************************)
(* The verdict by the book.                                                *)
(***************************************************************************)
\* The numbers a frame carries, as a client would write them.
PortNumber(bytes) == 256 * bytes[1] + bytes[2]
ProtocolName(frame) == CASE frame.protocol = TCP -> "tcp"
                         [] frame.protocol = UDP -> "udp"
                         [] frame.protocol = 0 -> ""
                         [] OTHER -> "other"

\* A cut transport header leaves both ports zero in the program, and 0 is how
\* a rule says "any".
DportOf(frame) == IF HasL4Header(frame) THEN PortNumber(frame.dport) ELSE 0
SportOf(frame) == IF HasL4Header(frame) THEN PortNumber(frame.sport) ELSE 0

\* The smallest net of the book that holds the address.
NetEntries(addr) ==
    LET holding == {e \in book : e.subject.about = "net" /\ addr \in e.subject.net}
    IN  {e \in holding : \A f \in holding :
                            Cardinality(e.subject.net) <= Cardinality(f.subject.net)}

PortEntries(frame) ==
    {e \in book : /\ e.subject.about = "port"
                  /\ e.subject.protocol = ProtocolName(frame)
                  /\ e.subject.port \in {0, DportOf(frame)}
                  /\ e.subject.sport \in {0, SportOf(frame)}
                  /\ e.subject.dst = frame.daddr}

\* Exact destination port before exact source port before neither.
Specificity(e) == (IF e.subject.port # 0 THEN 2 ELSE 0)
                + (IF e.subject.sport # 0 THEN 1 ELSE 0)
Outranks(e, f) ==
    \/ e.rule.priority > f.rule.priority
    \/ e.rule.priority = f.rule.priority /\ Specificity(e) >= Specificity(f)

\* The rule of each kind that speaks for the frame.
Speakers(frame) ==
    LET ip == IF NetEntries(frame.saddr) # {}
              THEN NetEntries(frame.saddr) ELSE NetEntries(frame.daddr)
        port == {e \in PortEntries(frame) :
                    \A f \in PortEntries(frame) : Outranks(e, f)}
    IN  {e.rule : e \in ip \cup port}

ByTheBook(frame) ==
    LET speakers == IF HasIpHeader(frame) THEN Speakers(frame) ELSE {}
        top == {r \in speakers : \A s \in speakers : s.priority <= r.priority}
    IN  IF speakers = {} THEN ByDefault(firewall_config)
        ELSE IF \E r \in top : r.action = "DROP" THEN "DROP" ELSE "PASS"

(***************************************************************************)
(* The listings: a row per rule.                                           *)
(***************************************************************************)
codeToProto(code) ==
    CASE code = TCP -> "tcp" [] code = UDP -> "udp" [] OTHER -> ""
PortRow(k) ==
    [about |-> "port", protocol |-> codeToProto(k.protocol),
     port |-> wireToPort(k.dport), sport |-> wireToPort(k.sport), dst |-> k.dst]
NetRow(k) ==
    [about |-> "net",
     net |-> Net([form |-> "cidr", addr |-> k.data, len |-> k.prefixlen])]

Stored(t) == {k \in Keys(t) : Matched(rules[t][k])}
Listed == {[subject |-> PortRow(k), rule |-> rules["PORT"][k]] : k \in Stored("PORT")}
ListedNets == {[subject |-> NetRow(k), rule |-> rules["IP"][k]] : k \in Stored("IP")}

(***************************************************************************)
(* Properties.                                                             *)
(***************************************************************************)
\* Types of the two tables, the default policy and the book.
TypeOK ==
    /\ DOMAIN rules = Tables
    /\ \A t \in Tables : rules[t] \in [Keys(t) -> Rule \cup {NoRule}]
    /\ firewall_config \in {"ALLOW", "DENY"}
    /\ \A e \in book : e.rule \in Rule

\* firewall_prog's verdict (LPM on source then destination, four probes, the
\* decision table) is the verdict of the rules as the clients asked for them:
\* smallest net first, highest priority then most specific port rule, DROP on
\* a tie, the default policy when no rule speaks.
VerdictByTheBook == \A f \in Frames : firewall_prog(f) = ByTheBook(f)

\* list (ListBlockedRules) and listports (PortPolicyManager.List) print every
\* rule of the book with the addresses, or the protocol and port numbers, that
\* were typed, and nothing else.
ListingByTheBook ==
    Listed \cup ListedNets = {[subject |-> e.subject, rule |-> e.rule] : e \in book}

\* TESTING.md:133: a port rule blocked with an explicit priority is listed
\* with that priority.
RequestedPriorityListed ==
    \A e \in book : e.subject.about = "port" =>
        \E l \in Listed : l.subject = e.subject /\ l.rule.priority = e.asked

\* maps.h:115: a port rule whose protocol is 0 ("any") applies to a TCP frame
\* to its destination and ports.
AnyProtocolMatches ==
    \A f \in Frames : \A e \in book :
        (/\ HasIpHeader(f)
         /\ e.subject.about = "port"
         /\ e.subject.protocol = ""
         /\ e.subject.dst = f.daddr
         /\ e.subject.port \in {0, DportOf(f)}
         /\ e.subject.sport \in {0, SportOf(f)})
        => Matched(PortRule(f))
===============================================================================
