-------------------------------- MODULE MCAging --------------------------------
(***************************************************************************)
(* An instance of Aging: a connection, a rule that admits it and is        *)
(* cleared again, a timeout of four seconds.                               *)
(***************************************************************************)
EXTENDS Aging, TLC

Host(a) == [form |-> "host", addr |-> a]
Word(w) == [form |-> "word", text |-> w]
Control(command, value, protocol, port, action, priority) ==
    [command |-> command, value |-> value, protocol |-> protocol, port |-> port,
     sport |-> 0, action |-> action, priority |-> priority]

Deny == Control("default", Word("deny"), "", 0, "", 0)
AllowSsh == Control("block", Host(1), "tcp", 22, "pass", 1)
Clear == Control("clear", Word(""), "", 0, "", 0)

Frame(sport, flags) ==
    [len |-> 54, ethertype |-> "IPv4", ihl |-> 5, protocol |-> TCP,
     saddr |-> 0, daddr |-> 1, sport |-> sport, dport |-> <<0, 22>>,
     flags |-> flags]
AckA == Frame(<<19, 136>>, {"ACK"})
FinA == Frame(<<19, 136>>, {"FIN", "ACK"})
SynA == Frame(<<19, 136>>, {"SYN"})

MCBucket == [f \in Flows |-> f.sport]
NoStartup == <<>>
MCRequests == {AllowSsh, Deny, Clear}
MCFrames == {SynA, AckA, FinA}
===============================================================================
