-------------------------------- MODULE Daemon --------------------------------
(***************************************************************************)
(* The daemon's life (cmd/firewall/main.go, control/server/server.go,      *)
(* control/ebpf/xdp.go): main loads and attaches the program and starts    *)
(* the control server; an accept loop hands each connection to a handler;  *)
(* a signal cancels the context; Close stops accepting, waits for the      *)
(* handlers and removes the socket; then the program is detached.  What a  *)
(* handler does to the maps is one step here (ControlPlane has the steps). *)
(***************************************************************************)
EXTENDS Integers, FiniteSets

CONSTANTS
    Conns,      \* the connections clients may open
    Main,       \* the goroutine of main, as a holder of the mutex
    Free        \* the mutex is not held

ASSUME DaemonAssumption ==
    /\ IsFiniteSet(Conns)
    /\ Main \notin Conns
    /\ Free \notin Conns \cup {Main}
    /\ Conns \cap {"off", "accept", "over"} = {}

VARIABLES
    main,       \* main's program counter
    fw,         \* the loaded objects and the XDP link
    cancelled,  \* the signal has come
    listener,   \* Server.ln
    live,       \* Server.live
    mu,         \* Server.mu: its holder, or Free
    wg,         \* Server.wg's counter
    loop,       \* the accept loop
    conn,       \* [Conns -> where the connection and its handler are]
    early       \* history: the handlers counted when Close began to wait

vars == <<main, fw, cancelled, listener, live, mu, wg, loop, conn, early>>
serverVars == <<listener, live, mu, wg, loop, conn, early>>

MainSteps == {"attach", "listen", "goLive", "run", "lock", "clearLive", "wait",
              "stop", "return", "exited"}
Handling == {"read", "lock", "apply", "reply", "finish"}

InFlight == {c \in Conns : conn[c] \in Handling}
Running == main # "exited"

\* Types, and: the counter counts the handlers, so Close's Wait means what it
\* says.
TypeOK ==
    /\ main \in MainSteps
    /\ fw \in {"loaded", "attached", "closed"}
    /\ cancelled \in BOOLEAN
    /\ listener \in {"none", "open", "closed"}
    /\ live \in BOOLEAN
    /\ mu \in Conns \cup {Main, Free}
    /\ loop \in {"off", "accept", "over"} \cup Conns
    /\ conn \in [Conns -> {"none", "queued", "accepted", "reset", "done"} \cup Handling]
    /\ early \in SUBSET Conns
    /\ wg = Cardinality(InFlight)

Init ==
    /\ main = "attach"
    /\ fw = "loaded"
    /\ cancelled = FALSE
    /\ listener = "none"
    /\ live = FALSE
    /\ mu = Free
    /\ wg = 0
    /\ loop = "off"
    /\ conn = [c \in Conns |-> "none"]
    /\ early = {}

(***************************************************************************)
(* main, up to the signal.  log.Fatalf ends the process, and the kernel    *)
(* then closes what it held.                                               *)
(***************************************************************************)
\* XDPProgram.Start: driver mode, then generic mode.
Attach ==
    /\ main = "attach"
    /\ main' = "listen"
    /\ fw' = "attached"
    /\ UNCHANGED <<cancelled, serverVars>>

\* A failed start: both attach modes, or Remove, Listen or Chmod of the socket.
Fatal ==
    /\ main \in {"attach", "listen"}
    /\ main' = "exited"
    /\ fw' = "closed"
    /\ UNCHANGED <<cancelled, serverVars>>

\* Server.Start: the stale socket goes, the listener is bound; then live is
\* set under the mutex and the accept loop starts.
Listen ==
    /\ main = "listen"
    /\ main' = "goLive"
    /\ listener' = "open"
    /\ UNCHANGED <<fw, cancelled, live, mu, wg, loop, conn, early>>

GoLive ==
    /\ main = "goLive"
    /\ mu = Free
    /\ live' = TRUE
    /\ loop' = "accept"
    /\ main' = "run"
    /\ UNCHANGED <<fw, cancelled, listener, mu, wg, conn, early>>

Signal ==
    /\ Running
    /\ ~ cancelled
    /\ cancelled' = TRUE
    /\ UNCHANGED <<main, fw, serverVars>>

(***************************************************************************)
(* Connections.                                                            *)
(***************************************************************************)
Goto(c, step) == conn' = [conn EXCEPT ![c] = step]

Connect(c) ==
    /\ Running
    /\ listener = "open"
    /\ conn[c] = "none"
    /\ Goto(c, "queued")
    /\ UNCHANGED <<main, fw, cancelled, listener, live, mu, wg, loop, early>>

\* acceptLoop: Accept, then wg.Add and the handler's goroutine; it ends when
\* Accept fails.
AcceptConn(c) ==
    /\ Running
    /\ loop = "accept"
    /\ listener = "open"
    /\ conn[c] = "queued"
    /\ loop' = c
    /\ Goto(c, "accepted")
    /\ UNCHANGED <<main, fw, cancelled, listener, live, mu, wg, early>>

Spawn(c) ==
    /\ Running
    /\ loop = c
    /\ loop' = "accept"
    /\ wg' = wg + 1
    /\ Goto(c, "read")
    /\ UNCHANGED <<main, fw, cancelled, listener, live, mu, early>>

AcceptFails ==
    /\ Running
    /\ loop = "accept"
    /\ listener = "closed"
    /\ loop' = "over"
    /\ UNCHANGED <<main, fw, cancelled, listener, live, mu, wg, conn, early>>

\* handleConn: a request, a malformed one, or the client hangs up.  There is
\* no deadline.
Read(c) ==
    /\ Running
    /\ conn[c] = "read"
    /\ \E step \in {"lock", "reply", "finish"} : Goto(c, step)
    /\ UNCHANGED <<main, fw, cancelled, listener, live, mu, wg, loop, early>>

\* handle, under the mutex.
LockHandler(c) ==
    /\ Running
    /\ conn[c] = "lock"
    /\ mu = Free
    /\ mu' = c
    /\ Goto(c, "apply")
    /\ UNCHANGED <<main, fw, cancelled, listener, live, wg, loop, early>>

Apply(c) ==
    /\ Running
    /\ conn[c] = "apply"
    /\ mu' = Free
    /\ Goto(c, "reply")
    /\ UNCHANGED <<main, fw, cancelled, listener, live, wg, loop, early>>

Reply(c) ==
    /\ Running
    /\ conn[c] = "reply"
    /\ Goto(c, "finish")
    /\ UNCHANGED <<main, fw, cancelled, listener, live, mu, wg, loop, early>>

\* The deferred wg.Done and conn.Close.  Mutant: Done twice.
Finish_DoneTwice(c) ==
    /\ Running
    /\ conn[c] = "finish"
    /\ wg' = wg - 2
    /\ Goto(c, "done")
    /\ UNCHANGED <<main, fw, cancelled, listener, live, mu, loop, early>>

Finish(c) ==
    /\ Running
    /\ conn[c] = "finish"
    /\ wg' = wg - 1
    /\ Goto(c, "done")
    /\ UNCHANGED <<main, fw, cancelled, listener, live, mu, loop, early>>

(***************************************************************************)
(* The end.  The listener is closed by Close and by the goroutine that     *)
(* waits for the context, whichever comes first; closing it also unlinks   *)
(* the socket and resets the connections nobody has accepted.              *)
(***************************************************************************)
CloseListener ==
    /\ listener' = "closed"
    /\ conn' = [c \in Conns |-> IF conn[c] = "queued" THEN "reset" ELSE conn[c]]

ContextClosesListener ==
    /\ Running
    /\ cancelled
    /\ listener = "open"
    /\ main # "goLive"
    /\ CloseListener
    /\ UNCHANGED <<main, fw, cancelled, live, mu, wg, loop, early>>

\* Mutants: the listener is left open; the program is detached first.
CloseBegins_Listening ==
    /\ main = "run"
    /\ cancelled
    /\ main' = "lock"
    /\ UNCHANGED <<fw, cancelled, serverVars>>

CloseBegins_DetachesFirst ==
    /\ main = "run"
    /\ cancelled
    /\ main' = "lock"
    /\ fw' = "closed"
    /\ CloseListener
    /\ UNCHANGED <<cancelled, live, mu, wg, loop, early>>

CloseBegins ==
    /\ main = "run"
    /\ cancelled
    /\ main' = "lock"
    /\ CloseListener
    /\ UNCHANGED <<fw, cancelled, live, mu, wg, loop, early>>

LockClose ==
    /\ main = "lock"
    /\ mu = Free
    /\ mu' = Main
    /\ main' = "clearLive"
    /\ UNCHANGED <<fw, cancelled, listener, live, wg, loop, conn, early>>

\* Mutants: the mutex is kept until Close returns; live stays set.
ClearLive_KeepsLock ==
    /\ main = "clearLive"
    /\ live' = FALSE
    /\ main' = "wait"
    /\ early' = InFlight
    /\ UNCHANGED <<fw, cancelled, listener, mu, wg, loop, conn>>
ClearLive_StaysSet ==
    /\ main = "clearLive"
    /\ mu' = Free
    /\ main' = "wait"
    /\ early' = InFlight
    /\ UNCHANGED <<fw, cancelled, listener, live, wg, loop, conn>>

ClearLive ==
    /\ main = "clearLive"
    /\ live' = FALSE
    /\ mu' = Free
    /\ main' = "wait"
    /\ early' = InFlight
    /\ UNCHANGED <<fw, cancelled, listener, wg, loop, conn>>

\* Mutant: Close does not wait.
Wait_Skipped ==
    /\ main = "wait"
    /\ main' = "stop"
    /\ UNCHANGED <<fw, cancelled, serverVars>>

Wait ==
    /\ main = "wait"
    /\ wg = 0
    /\ main' = "stop"
    /\ UNCHANGED <<fw, cancelled, serverVars>>

\* The deferred fw.Stop: the link and every map are closed.
Stop ==
    /\ main = "stop"
    /\ fw' = "closed"
    /\ main' = "return"
    /\ UNCHANGED <<cancelled, serverVars>>

\* main returns and takes every goroutine with it.
Return ==
    /\ main = "return"
    /\ main' = "exited"
    /\ UNCHANGED <<fw, cancelled, serverVars>>

\* The process is killed, or panics: its memory is gone, the kernel closes what
\* it held, and the socket's name stays.
Kill ==
    /\ Running
    /\ main' = "exited"
    /\ fw' = "closed"
    /\ live' = FALSE
    /\ UNCHANGED <<cancelled, listener, mu, wg, loop, conn, early>>

(***************************************************************************)
(* The specification.                                                      *)
(***************************************************************************)
MainStep ==
    \/ Attach \/ Listen \/ GoLive
    \/ CloseBegins \/ LockClose \/ ClearLive \/ Wait \/ Stop \/ Return

HandlerStep(c) == LockHandler(c) \/ Apply(c) \/ Reply(c) \/ Finish(c)

Next ==
    \/ MainStep
    \/ Fatal \/ Kill
    \/ Signal
    \/ ContextClosesListener
    \/ AcceptFails
    \/ \E c \in Conns :
        Connect(c) \/ AcceptConn(c) \/ Spawn(c) \/ Read(c) \/ HandlerStep(c)

Spec == Init /\ [][Next]_vars

(***************************************************************************)
(* Goroutines that can run do, and the mutex is fair to its waiters.       *)
(* Clients owe nothing: neither Connect nor Read is fair.                  *)
(***************************************************************************)
Fairness ==
    /\ WF_vars(MainStep)
    /\ SF_vars(LockClose)
    /\ WF_vars(\E c \in Conns : Spawn(c))
    /\ \A c \in Conns :
        /\ WF_vars(Apply(c) \/ Reply(c) \/ Finish(c))
        /\ SF_vars(LockHandler(c))

FairSpec == Spec /\ Fairness

(***************************************************************************)
(* Properties.                                                             *)
(***************************************************************************)
AfterClose == main \in {"stop", "return"}

\* server.go:110: a handler that was running when Close began to wait has
\* finished before the maps are closed under it.
EarlyHandlersServed ==
    AfterClose => \A c \in early : conn[c] = "done"

\* acceptLoop adds to the WaitGroup after Accept: at most one connection, the
\* one in the loop's hands, gets past a Close, however many were coming in.
AtMostOneLate == AfterClose => Cardinality(InFlight) <= 1

\* status: "attached" is only ever reported of a program that is attached.
LiveMeansAttached == live => fw = "attached"

\* After a signal the daemon goes down, unless a client that says nothing keeps
\* a handler reading for ever: Close holds no lock its handlers wait for.
Silent == \E c \in Conns : conn[c] = "read"
ShutsDown == <>[](~ Silent) => (cancelled ~> main = "exited")

\* server.go:110: "Close stops accepting, waits for in-flight request handlers":
\* no handler runs once Close has returned.
CloseWaitsForHandlers == AfterClose => InFlight = {}
===============================================================================
