----------------------------- MODULE MCObservers -----------------------------
(***************************************************************************)
(* Instances of Observers: one reader of the counters and the flows beside *)
(* two CPUs, and one reader of the rules beside a handler that changes     *)
(* them.                                                                   *)
(***************************************************************************)
EXTENDS Observers, TLC

Host(a) == [form |-> "host", addr |-> a]
Word(w) == [form |-> "word", text |-> w]
Control(command, value, protocol, port, action, priority) ==
    [command |-> command, value |-> value, protocol |-> protocol, port |-> port,
     sport |-> 0, action |-> action, priority |-> priority]

Deny == Control("default", Word("deny"), "", 0, "", 0)
AllowSsh == Control("block", Host(1), "tcp", 22, "pass", 1)
AllowClient == Control("block", Host(0), "", 0, "pass", 1)
Clear == Control("clear", Word(""), "", 0, "", 0)

Frame(len, ethertype, flags) ==
    [len |-> len, ethertype |-> ethertype, ihl |-> 5, protocol |-> TCP,
     saddr |-> 0, daddr |-> 1, sport |-> <<19, 136>>, dport |-> <<0, 22>>,
     flags |-> flags]
Syn == Frame(54, "IPv4", {"SYN"})
Arp == Frame(42, "ARP", {})

MCBucket == [f \in Flows |-> f.sport]
NoStartup == <<>>

\* The first packets of a connection, dropped, passed and tracked, and frames
\* that no rule is looked up for.
CounterRequests == {AllowClient, Deny}
CounterFrames == {Syn, Arp}
CounterEndpoints == {"/stats", "/conntrack"}
CpuSymmetry == Permutations(Cpus)

\* Three addresses and room for two of them; a port rule, cleared with them.
Ips == {Host(0), Host(1), Host(2)}
ListingRequests ==
    {Control("block", v, "", 0, "", 0) : v \in Ips}
        \cup {Control("unblock", v, "", 0, "", 0) : v \in Ips}
        \cup {AllowSsh, Clear}
ListingEndpoints == {"/rules", "/status"}
NoFrames == {}

PlaceOf(key) == IF "data" \in DOMAIN key THEN key.data ELSE key.dport
MCRuleBucket == [t \in Tables |-> [k \in Keys(t) |-> PlaceOf(k)]]
===============================================================================
