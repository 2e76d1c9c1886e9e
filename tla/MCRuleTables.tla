----------------------------- MODULE MCRuleTables -----------------------------
(***************************************************************************)
(* An instance of RuleTables: two-bit addresses, two nested networks, the  *)
(* four kinds of port rule, two actions at two priorities.                 *)
(***************************************************************************)
EXTENDS RuleTables

Host(a) == [form |-> "host", addr |-> a]
Cidr(a, n) == [form |-> "cidr", addr |-> a, len |-> n]
Word(w) == [form |-> "word", text |-> w]

Arg(v) == [arg |-> v]
Option(name, v) == [n \in {name} |-> v]
Bad == [unknown |-> ""]

\* An option is typed unless it says what goes without saying.
Unless(o, v, default) == IF v = default THEN <<>> ELSE <<Option(o, v)>>
OptionsOf(s) ==
    Unless("protocol", s[2], "") \o Unless("dport", s[3], 0) \o Unless("sport", s[4], 0)
VerdictOptions(v) == Unless("action", v[1], "") \o Unless("priority", v[2], 0)

\* [value, protocol, port, sport] of a rule.
IpSubjects == {<<Host(1), "", 0, 0>>, <<Cidr(1, 1), "", 0, 0>>}
PortSubjects == {<<Host(2), "tcp", 22, 5000>>, <<Host(2), "tcp", 22, 0>>,
                 <<Host(2), "tcp", 0, 5000>>, <<Host(2), "tcp", 0, 0>>}
AnySubjects == {<<Host(2), "", 22, 0>>, <<Host(2), "udp", 22, 0>>}

\* [action, priority] of a block line.
Plain == {<<"", 0>>, <<"pass", 1>>}
Ranked == {<<"drop", 1>>, <<"pass", 0>>}

\* Options before the command, between its words and after them.
Blocks(subjects, verdicts) ==
    {VerdictOptions(v) \o <<Arg(Word("block")), Arg(s[1])>> \o OptionsOf(s)
        : s \in subjects, v \in verdicts}
Unblocks(subjects) ==
    {<<Arg(Word("unblock"))>> \o OptionsOf(s) \o <<Arg(s[1])>> : s \in subjects}
Line(command, value) == <<Arg(Word(command)), Arg(value)>>

\* An option twice: the last one counts.
Corrected == {<<Option("dport", 80)>> \o Line("block", Host(2))
                \o <<Option("protocol", "tcp"), Option("dport", 22)>>}

\* Lines the client refuses: a port above 65535 that is 22 modulo 2^16, a
\* number that is none, an unknown option, words missing, a command that is
\* none.
Slips ==
    {Line("block", Host(2)) \o <<Option("dport", 65558)>>,
     Line("block", Host(2)) \o <<Option("sport", NotANumber)>>,
     Line("block", Host(1)) \o <<Option("priority", NotANumber)>>,
     <<Bad>> \o Line("block", Host(1)),
     <<Arg(Word("block"))>>, <<Arg(Word("default"))>>, <<Option("dport", 22)>>,
     <<Arg(Host(1)), Arg(Word("block"))>>, Line("flush", Host(1))}

\* Lines the daemon refuses or that only read: a network where a host is
\* needed, a word where an address is, an unknown protocol, action and policy.
Mistakes ==
    {Line("block", Cidr(2, 1)) \o <<Option("protocol", "tcp"), Option("dport", 22)>>,
     Line("block", Word("x")), Line("unblock", Word("x")),
     Line("block", Host(2)) \o <<Option("protocol", "icmp")>>,
     Line("unblock", Host(2)) \o <<Option("protocol", "icmp")>>,
     Line("block", Host(2)) \o <<Option("action", "reject")>>,
     Line("default", Word("x")), <<Arg(Word("list"))>>}

MCLines ==
    Blocks(IpSubjects, Plain \cup {<<"drop", 1>>}) \cup Blocks(PortSubjects, Plain)
        \cup Blocks({<<Host(2), "tcp", 22, 0>>}, Ranked)
        \cup Blocks(AnySubjects, {<<"", 0>>})
        \cup Unblocks(IpSubjects \cup PortSubjects \cup AnySubjects)
        \cup {Line("default", Word("deny")), <<Arg(Word("clear"))>>}
        \cup Corrected \cup Slips \cup Mistakes

\* What only another program sends.
MCRequests ==
    {BareRequest("setdefault", Word("")), BareRequest("flush", Word(""))}

\* The lines of the run about priorities.
MCPriorityLines ==
    Blocks({<<Host(2), "tcp", 22, 0>>}, {<<"", 0>>, <<"", 1>>, <<"drop", 1>>})

\* The lines of the run about rules for any protocol.
MCAnyLines == Blocks(AnySubjects, Plain) \cup Unblocks(AnySubjects)

Frame(len, ethertype, ihl, protocol, saddr, daddr, sport, dport) ==
    [len |-> len, ethertype |-> ethertype, ihl |-> ihl, protocol |-> protocol,
     saddr |-> saddr, daddr |-> daddr, sport |-> sport, dport |-> dport,
     flags |-> {"ACK"}]

Ssh == <<0, 22>>
Swapped == <<22, 0>>
Client == <<19, 136>>       \* port 5000
Other == <<0, 80>>

MCFrames ==
    {Frame(54, "IPv4", 5, TCP, s, 2, sport, dport)
        : s \in {0, 1, 3}, sport \in {Client, Other}, dport \in {Ssh, Swapped}}
    \cup {Frame(54, "IPv4", 5, TCP, 2, 1, Client, Ssh),   \* destination covered
          Frame(53, "IPv4", 5, TCP, 3, 2, Client, Ssh),   \* cut TCP header
          Frame(54, "IPv4", 6, TCP, 3, 2, Client, Ssh),   \* options cut it too
          Frame(58, "IPv4", 6, TCP, 3, 2, Client, Ssh),
          Frame(42, "IPv4", 5, UDP, 3, 2, Client, Ssh),
          Frame(34, "IPv4", 5, 1, 1, 2, Client, Ssh),     \* ICMP
          Frame(54, "IPv4", 5, 0, 3, 2, Client, Ssh),     \* protocol 0
          Frame(54, "IPv4", 4, TCP, 1, 2, Client, Ssh),   \* bad ihl
          Frame(33, "IPv4", 5, TCP, 1, 2, Client, Ssh),
          Frame(54, "ARP", 5, TCP, 1, 2, Client, Ssh),
          Frame(13, "IPv4", 5, TCP, 1, 2, Client, Ssh)}
===============================================================================
