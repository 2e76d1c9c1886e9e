-------------------------------- MODULE Restart --------------------------------
(***************************************************************************)
(* A daemon goes down, or is killed, and its successor comes up on the     *)
(* same interface and the same socket path: what becomes of the socket's   *)
(* name in the file system, which both of them bind and remove             *)
(* (control/server/server.go), and of the interface, which takes one       *)
(* program at a time (control/ebpf/xdp.go).  The successor runs the same   *)
(* main; of it only the steps that touch the two are shown.  A supervisor  *)
(* may start it at any time, and again when it has given up.               *)
(***************************************************************************)
EXTENDS Daemon

VARIABLES
    path,       \* whose socket the path names: an old one's, this or succ
    succ        \* the successor

rvars == <<vars, path, succ>>

\* Types of the two, and Daemon's.
RTypeOK ==
    /\ TypeOK
    /\ path \in {"none", "stale", "this", "succ"}
    /\ succ \in {"none", "attach", "remove", "bind", "serving", "gaveUp"}

\* An earlier daemon may have been killed here.
RInit ==
    /\ Init
    /\ path \in {"none", "stale"}
    /\ succ = "none"

(***************************************************************************)
(* The daemon's steps, and what they do to the name.  Closing a Unix       *)
(* listener unlinks the name whoever is behind it, and Close removes it    *)
(* once more after the wait.                                               *)
(***************************************************************************)
Binds == listener = "none" /\ listener' = "open"
Unlinks == listener = "open" /\ listener' = "closed"
Removes == main = "wait" /\ main' = "stop"
FailsToListen == main = "listen" /\ main' = "exited"
Connects == \E c \in Conns : conn[c] = "none" /\ conn'[c] = "queued"

This ==
    /\ Next
    /\ Connects => path = "this"
    /\ path' \in IF Binds THEN {"this"}
                 ELSE IF Unlinks \/ Removes THEN {"none"}
                 ELSE IF FailsToListen THEN {path, "none"}
                 ELSE {path}
    /\ UNCHANGED succ

(***************************************************************************)
(* The successor: attach, Remove, Listen.                                  *)
(***************************************************************************)
SuccStart ==
    /\ main # "attach"
    /\ succ \in {"none", "gaveUp"}
    /\ succ' = "attach"
    /\ UNCHANGED <<vars, path>>

\* The kernel refuses a second program on the interface: log.Fatalf.
SuccAttach ==
    /\ succ = "attach"
    /\ succ' = IF fw = "attached" THEN "gaveUp" ELSE "remove"
    /\ UNCHANGED <<vars, path>>

\* Mutant: a stale socket is left where it is.
SuccRemove_Skipped ==
    /\ succ = "remove"
    /\ succ' = "bind"
    /\ UNCHANGED <<vars, path>>

SuccRemove ==
    /\ succ = "remove"
    /\ path' = "none"
    /\ succ' = "bind"
    /\ UNCHANGED vars

\* Binding a name that exists fails.
SuccBind ==
    /\ succ = "bind"
    /\ IF path = "none" THEN path' = "succ" /\ succ' = "serving"
       ELSE succ' = "gaveUp" /\ UNCHANGED path
    /\ UNCHANGED vars

SuccKilled ==
    /\ succ \in {"remove", "bind", "serving"}
    /\ succ' = "none"
    /\ UNCHANGED <<vars, path>>

SuccStep == SuccStart \/ SuccAttach \/ SuccRemove \/ SuccBind

RNext == This \/ SuccStep \/ SuccKilled

RSpec == RInit /\ [][RNext]_rvars /\ Fairness /\ WF_rvars(SuccStep)

(***************************************************************************)
(* Properties.                                                             *)
(***************************************************************************)
\* main.go:132-133, "socket closes before XDP detaches": the name is unlinked
\* for the last time while the program still holds the interface, so a daemon
\* that is up keeps its socket, whoever went down before it, and however.
SocketReachesRunning ==
    /\ main = "run" /\ ~ cancelled => path = "this"
    /\ succ = "serving" => path = "succ"

\* server.go:66: when the daemon is gone, killed or not, a supervisor that keeps
\* trying gets one that can be reached: neither the interface nor the stale
\* socket stands in its way.
Recovers ==
    <>[][~ SuccKilled]_rvars => (main = "exited" ~> succ = "serving")
===============================================================================
