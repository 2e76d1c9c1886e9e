------------------------------ MODULE MCFirewall ------------------------------
(***************************************************************************)
(* Instances of Firewall: one-bit addresses, a network and a host rule, a  *)
(* port rule or two, and the frames of one or two TCP connections.         *)
(***************************************************************************)
EXTENDS FirewallService, TLC

Host(a) == [form |-> "host", addr |-> a]
Cidr(a, n) == [form |-> "cidr", addr |-> a, len |-> n]
Word(w) == [form |-> "word", text |-> w]

Request(command, value, protocol, port, action, priority) ==
    [command |-> command, value |-> value, protocol |-> protocol, port |-> port,
     sport |-> 0, action |-> action, priority |-> priority]

Everyone == Cidr(1, 0)
BlockAll == Request("block", Everyone, "", 0, "", 0)
UnblockAll == Request("unblock", Everyone, "", 0, "", 0)
DropSsh == Request("block", Host(1), "tcp", 22, "drop", 2)
AllowTcp == Request("block", Host(1), "tcp", 0, "pass", 3)
AllowSsh == Request("block", Host(1), "tcp", 22, "pass", 1)
Deny == Request("default", Word("deny"), "", 0, "", 0)
Clear == Request("clear", Word(""), "", 0, "", 0)
List == Request("list", Word(""), "", 0, "", 0)

Frame(saddr, daddr, sport, dport, flags) ==
    [len |-> 54, ethertype |-> "IPv4", ihl |-> 5, protocol |-> TCP,
     saddr |-> saddr, daddr |-> daddr, sport |-> sport, dport |-> dport,
     flags |-> flags]

Ssh == <<0, 22>>
ClientA == <<19, 136>>

SynA == Frame(0, 1, ClientA, Ssh, {"SYN"})
AckA == Frame(0, 1, ClientA, Ssh, {"ACK"})
FinA == Frame(0, 1, ClientA, Ssh, {"FIN", "ACK"})

\* Hash order by client port.
MCBucket == [f \in Flows |-> f.sport]

NoStartup == <<>>

\* Two handlers, a startup list with a bad entry, both tables, two port rules
\* of which the less specific wins; every map operation may fail.
StartupList == <<Word("x"), Everyone>>
RuleRequests == {BlockAll, UnblockAll, DropSsh, AllowTcp, Clear}
HandlerSymmetry == Permutations(Handlers)
RuleFrames == {AckA}

\* Two handlers that wait for each other, packets that are tracked and a reaper
\* that walks while they clear; a request that changes nothing.
LiveRequests == {AllowSsh, Deny, Clear, List}
LiveFrames == {AckA}

\* One connection and the reaper.
ReaperRequests == {AllowSsh, Deny, Clear}
ReaperFrames == {SynA, AckA, FinA}
===============================================================================
