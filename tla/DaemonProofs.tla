----------------------------- MODULE DaemonProofs -----------------------------
(***************************************************************************)
(* What Server.Close promises and keeps, for any number of connections:    *)
(* the handlers it counted are served before the program is detached, at   *)
(* most one connection slips past it, and "attached" is told of an         *)
(* attached program only.                                                  *)
(*                                                                         *)
(* Three facts are needed that the properties do not state: the loop holds *)
(* the connection it accepted and nobody else touches it; the listener     *)
(* stays closed from the moment Close begins; and the handlers counted     *)
(* when Close began to wait can only move on.                              *)
(***************************************************************************)
EXTENDS Restart, FiniteSetTheorems, TLAPS

Up == {"run", "lock", "clearLive"}
Closing == {"lock", "clearLive", "wait", "stop", "return"}

LoopHolds == loop \in Conns => conn[loop] = "accepted"
Phase ==
    /\ live => main \in Up
    /\ main \in {"listen", "goLive", "wait", "stop"} \cup Up => fw = "attached"
    /\ main \in Closing => listener = "closed"
EarlyMoveOn ==
    main \in {"wait", "stop", "return"} =>
        \A c \in early : conn[c] \in {"done"} \cup Handling
OneSlips ==
    AfterClose => InFlight = {} \/ (loop \notin Conns /\ \E c \in Conns : InFlight = {c})

DaemonInv ==
    /\ TypeOK
    /\ LoopHolds
    /\ Phase
    /\ EarlyMoveOn
    /\ EarlyHandlersServed
    /\ OneSlips

\* The handlers are finitely many and counted by a natural number.
LEMMA FiniteInFlight ==
    IsFiniteSet(InFlight) /\ Cardinality(InFlight) \in Nat
<1>1. InFlight \in SUBSET Conns
  BY DEF InFlight
<1>2. IsFiniteSet(InFlight)
  BY <1>1, FS_Subset, DaemonAssumption
<1> QED
  BY <1>2, FS_CardinalityType

\* A connection that moves within the handler's steps, or outside them, leaves
\* the handlers as they are ...
LEMMA MoveKeeps ==
    ASSUME TypeOK, NEW c \in Conns, NEW step, conn' = [conn EXCEPT ![c] = step],
           conn[c] \in Handling <=> step \in Handling
    PROVE  InFlight' = InFlight
BY DEF TypeOK, InFlight

\* ... one that enters them is added ...
LEMMA EnterAdds ==
    ASSUME TypeOK, NEW c \in Conns, NEW step, conn' = [conn EXCEPT ![c] = step],
           conn[c] \notin Handling, step \in Handling
    PROVE  /\ InFlight' = InFlight \cup {c}
           /\ Cardinality(InFlight') = Cardinality(InFlight) + 1
<1>1. InFlight' = InFlight \cup {c}
  BY DEF TypeOK, InFlight
<1>2. c \notin InFlight
  BY DEF InFlight
<1> QED
  BY <1>1, <1>2, FiniteInFlight, FS_AddElement

\* ... and one that leaves them is removed.
LEMMA LeaveRemoves ==
    ASSUME TypeOK, NEW c \in Conns, NEW step, conn' = [conn EXCEPT ![c] = step],
           conn[c] \in Handling, step \notin Handling
    PROVE  /\ InFlight' = InFlight \ {c}
           /\ Cardinality(InFlight') = Cardinality(InFlight) - 1
<1>1. InFlight' = InFlight \ {c}
  BY DEF TypeOK, InFlight
<1>2. c \in InFlight
  BY DEF InFlight
<1> QED
  BY <1>1, <1>2, FiniteInFlight, FS_RemoveElement

\* Closing the listener resets connections nobody has accepted.
LEMMA ResetKeeps ==
    ASSUME TypeOK, CloseListener
    PROVE  InFlight' = InFlight
BY DEF TypeOK, CloseListener, InFlight, Handling

LEMMA DaemonInit == Init => DaemonInv
<1> SUFFICES ASSUME Init PROVE DaemonInv
  OBVIOUS
<1>1. InFlight = {}
  BY DEF Init, InFlight, Handling
<1>2. TypeOK
  BY <1>1, FS_EmptySet DEF Init, TypeOK, MainSteps
<1> QED
  BY <1>2, DaemonAssumption DEF Init, DaemonInv, LoopHolds, Phase, Up, Closing, EarlyMoveOn,
     EarlyHandlersServed, OneSlips, AfterClose

\* main's own steps.
LEMMA MainKeeps ==
    ASSUME DaemonInv, MainStep \/ Fatal \/ Kill
    PROVE  DaemonInv'
<1> USE DEF DaemonInv, TypeOK, LoopHolds, Phase, EarlyMoveOn, EarlyHandlersServed, OneSlips,
            AfterClose, Up, Closing, MainSteps, serverVars
<1>1. ASSUME conn' = conn PROVE InFlight' = InFlight
  BY <1>1 DEF InFlight
<1>2. CASE Attach \/ Fatal
  BY <1>1, <1>2 DEF Attach, Fatal
<1>10. CASE Kill
  BY <1>1, <1>10 DEF Kill
<1>3. CASE Listen
  BY <1>1, <1>3 DEF Listen
<1>9. CASE GoLive
  <2>1. loop' \notin Conns
    BY <1>9, DaemonAssumption DEF GoLive
  <2> QED
    BY <1>1, <1>9, <2>1 DEF GoLive
<1>4. CASE CloseBegins
  <2>1. InFlight' = InFlight
    BY <1>4, ResetKeeps DEF CloseBegins
  <2> QED
    BY <1>4, <2>1 DEF CloseBegins, CloseListener
<1>5. CASE LockClose
  BY <1>1, <1>5 DEF LockClose
<1>6. CASE ClearLive
  BY <1>1, <1>6 DEF ClearLive, InFlight
<1>7. CASE Wait
  <2>1. InFlight = {}
    BY <1>7, FiniteInFlight, FS_EmptySet DEF Wait
  <2>2. \A c \in early : conn[c] = "done"
    BY <1>7, <2>1 DEF Wait, InFlight
  <2> QED
    BY <1>1, <1>7, <2>1, <2>2 DEF Wait
<1>8. CASE Stop \/ Return
  BY <1>1, <1>8 DEF Stop, Return
<1> QED
  BY <1>2, <1>3, <1>4, <1>5, <1>6, <1>7, <1>8, <1>9, <1>10 DEF MainStep

\* The accept loop, and the goroutine that closes the listener.
LEMMA LoopKeeps ==
    ASSUME DaemonInv,
           \/ ContextClosesListener \/ AcceptFails
           \/ \E c \in Conns : Connect(c) \/ AcceptConn(c) \/ Spawn(c)
    PROVE  DaemonInv'
<1> USE DEF DaemonInv, TypeOK, LoopHolds, Phase, EarlyMoveOn, EarlyHandlersServed, OneSlips,
            AfterClose, Closing
<1>1. CASE ContextClosesListener
  <2>1. InFlight' = InFlight
    BY <1>1, ResetKeeps DEF ContextClosesListener
  <2> QED
    BY <1>1, <2>1 DEF ContextClosesListener, CloseListener
<1>2. CASE AcceptFails
  <2>1. InFlight' = InFlight
    BY <1>2 DEF AcceptFails, InFlight
  <2> QED
    BY <1>2, <2>1, DaemonAssumption DEF AcceptFails
<1>3. ASSUME NEW c \in Conns, Connect(c) PROVE DaemonInv'
  <2>1. InFlight' = InFlight
    BY <1>3, MoveKeeps DEF Connect, Goto, Handling
  <2> QED
    BY <1>3, <2>1 DEF Connect, Goto
<1>4. ASSUME NEW c \in Conns, AcceptConn(c) PROVE DaemonInv'
  <2>1. InFlight' = InFlight
    BY <1>4, MoveKeeps DEF AcceptConn, Goto, Handling
  <2> QED
    BY <1>4, <2>1 DEF AcceptConn, Goto, Handling
<1>5. ASSUME NEW c \in Conns, Spawn(c) PROVE DaemonInv'
  <2>1. /\ InFlight' = InFlight \cup {c}
        /\ Cardinality(InFlight') = Cardinality(InFlight) + 1
    BY <1>5, EnterAdds DEF Spawn, Goto, Handling
  <2>2. loop' \notin Conns
    BY <1>5, DaemonAssumption DEF Spawn
  <2> QED
    BY <1>5, <2>1, <2>2 DEF Spawn, Goto, Handling
<1> QED
  BY <1>1, <1>2, <1>3, <1>4, <1>5

\* The handlers.
LEMMA HandlerKeeps ==
    ASSUME DaemonInv, NEW c \in Conns, Read(c) \/ HandlerStep(c)
    PROVE  DaemonInv'
<1> USE DEF DaemonInv, TypeOK, LoopHolds, Phase, EarlyMoveOn, EarlyHandlersServed, OneSlips,
            AfterClose
<1>1. CASE Read(c)
  <2>1. PICK step \in {"lock", "reply", "finish"} : Goto(c, step)
    BY <1>1 DEF Read
  <2>2. InFlight' = InFlight
    BY <1>1, <2>1, MoveKeeps DEF Read, Goto, Handling
  <2> QED
    BY <1>1, <2>1, <2>2 DEF Read, Goto, Handling
<1>2. CASE LockHandler(c) \/ Apply(c) \/ Reply(c)
  <2>1. InFlight' = InFlight
    BY <1>2, MoveKeeps DEF LockHandler, Apply, Reply, Goto, Handling
  <2> QED
    BY <1>2, <2>1 DEF LockHandler, Apply, Reply, Goto, Handling
<1>3. CASE Finish(c)
  <2>1. /\ InFlight' = InFlight \ {c}
        /\ Cardinality(InFlight') = Cardinality(InFlight) - 1
    BY <1>3, LeaveRemoves DEF Finish, Goto, Handling
  <2> QED
    BY <1>3, <2>1 DEF Finish, Goto, Handling
<1> QED
  BY <1>1, <1>2, <1>3 DEF HandlerStep

LEMMA DaemonNext == DaemonInv /\ [Next]_vars => DaemonInv'
<1> SUFFICES ASSUME DaemonInv, [Next]_vars PROVE DaemonInv'
  OBVIOUS
<1>1. CASE Signal
  <2>1. InFlight' = InFlight
    BY <1>1 DEF Signal, serverVars, InFlight
  <2> QED
    BY <1>1, <2>1 DEF Signal, serverVars, DaemonInv, TypeOK, LoopHolds, Phase, EarlyMoveOn,
       EarlyHandlersServed, OneSlips, AfterClose
<1>2. CASE UNCHANGED vars
  <2>1. InFlight' = InFlight
    BY <1>2 DEF vars, InFlight
  <2> QED
    BY <1>2, <2>1 DEF vars, DaemonInv, TypeOK, LoopHolds, Phase, EarlyMoveOn,
       EarlyHandlersServed, OneSlips, AfterClose
<1> QED
  BY <1>1, <1>2, MainKeeps, LoopKeeps, HandlerKeeps DEF Next

\* One connection at most is a set of at most one element.
LEMMA SlipsCounted == DaemonInv => AtMostOneLate
BY FS_EmptySet, FS_Singleton DEF DaemonInv, OneSlips, AtMostOneLate

LEMMA DaemonInvariant == Spec => []DaemonInv
BY DaemonInit, DaemonNext, PTL DEF Spec

\* server.go:110-133, Close: the WaitGroup counts the handlers, and the ones
\* counted when Close begins to wait are done when the maps are closed.
THEOREM CountedAreServed == Spec => [](TypeOK /\ EarlyHandlersServed)
<1>1. DaemonInv => TypeOK /\ EarlyHandlersServed
  BY DEF DaemonInv
<1> QED
  BY <1>1, DaemonInvariant, PTL

\* server.go:98-108, acceptLoop: at most one handler runs after Close.
THEOREM OneSlipsAtMost == Spec => []AtMostOneLate
BY SlipsCounted, DaemonInvariant, PTL

\* server.go:235, status: live is set only while the program is attached.
THEOREM StatusTellsTheTruth == Spec => []LiveMeansAttached
<1>1. DaemonInv => LiveMeansAttached
  BY DEF DaemonInv, Phase, Up, LiveMeansAttached
<1> QED
  BY <1>1, DaemonInvariant, PTL

(***************************************************************************)
(* The socket's name, for any number of connections and any number of      *)
(* restarts: a daemon that is up keeps the name it bound, and its          *)
(* successor keeps the name from it.  The argument is the order of main's  *)
(* deferred calls.  The successor touches the name only after the kernel   *)
(* gave it the interface; the interface is free only when main has got to  *)
(* "return" or the process is gone; and from there on nothing of this      *)
(* daemon's binds, unlinks or removes the name.                            *)
(***************************************************************************)
\* The successor has the interface, and may touch the name.
Owning == {"remove", "bind", "serving"}

\* The listener while main comes up, and until a signal may close it.
Listening ==
    /\ main \in {"attach", "listen"} => listener = "none"
    /\ main = "goLive" => listener = "open"
    /\ main = "run" /\ ~ cancelled => listener = "open"

\* The two never hold the interface at once.
OneOwner ==
    /\ main = "attach" => succ = "none"
    /\ main \in {"return", "exited"} => fw = "closed"
    /\ succ \in Owning => fw = "closed" /\ main \in {"return", "exited"}

\* An open listener of a daemon that is up, and the successor's, are named.
Named ==
    /\ main \in {"goLive", "run"} /\ listener = "open" => path = "this"
    /\ succ = "serving" => path = "succ"

RestartInv ==
    /\ DaemonInv
    /\ RTypeOK
    /\ Listening
    /\ OneOwner
    /\ Named

LEMMA RestartInit == RInit => RestartInv
BY DaemonInit DEF RInit, Init, RestartInv, DaemonInv, RTypeOK, Listening, OneOwner, Named, Owning

\* What the name is after a step of the daemon.
LEMMA NameAfter ==
    ASSUME This
    PROVE  /\ Binds => path' = "this"
           /\ Removes \/ Unlinks => Binds \/ path' = "none"
           /\ ~ Binds /\ ~ Unlinks /\ ~ Removes /\ ~ FailsToListen => path' = path
           /\ path' \in {"this", "none", path}
           /\ UNCHANGED succ
BY DEF This

\* Its connections and its handlers leave main, the program, the signal and the
\* listener alone.
LEMMA OthersKeep ==
    ASSUME \/ AcceptFails
           \/ \E c \in Conns :
                Connect(c) \/ AcceptConn(c) \/ Spawn(c) \/ Read(c) \/ HandlerStep(c)
    PROVE  UNCHANGED <<main, fw, cancelled, listener>>
BY DEF AcceptFails, Connect, AcceptConn, Spawn, Read, HandlerStep, LockHandler, Apply, Reply,
   Finish

\* A step of the daemon: the name changes with the listener, with Close's last
\* Remove and with a failed start.
LEMMA ThisKeeps ==
    ASSUME RestartInv, This
    PROVE  RestartInv'
<1> USE DEF RestartInv, Owning
<1>1. DaemonInv' /\ RTypeOK'
  <2>1. DaemonInv'
    BY DaemonNext DEF This
  <2>2. TypeOK'
    BY <2>1 DEF DaemonInv
  <2> QED
    BY <2>1, <2>2, NameAfter DEF RTypeOK
<1>2. Phase
  BY DEF DaemonInv
<1>3. CASE Attach \/ Fatal \/ Listen
  BY <1>1, <1>2, <1>3, NameAfter DEF Attach, Fatal, Listen, serverVars, Listening, OneOwner,
     Named, Phase, Up, Binds, Unlinks, Removes, FailsToListen
<1>4. CASE GoLive \/ LockClose \/ ClearLive \/ Stop \/ Return \/ Signal
  BY <1>1, <1>2, <1>4, NameAfter DEF GoLive, LockClose, ClearLive, Stop, Return, Signal,
     serverVars, Listening, OneOwner, Named, Phase, Up, Closing, Binds, Unlinks, Removes,
     FailsToListen
<1>5. CASE CloseBegins \/ ContextClosesListener \/ Wait
  BY <1>1, <1>2, <1>5, NameAfter DEF CloseBegins, ContextClosesListener, Wait, CloseListener,
     Running, serverVars, Listening, OneOwner, Named, Phase, Up, Closing, Binds, Unlinks, Removes,
     FailsToListen
<1>6. CASE Kill
  BY <1>1, <1>2, <1>6, NameAfter DEF Kill, Listening, OneOwner, Named, Phase, Up, Binds, Unlinks,
     Removes, FailsToListen
<1>7. ASSUME UNCHANGED <<main, fw, cancelled, listener>> PROVE RestartInv'
  BY <1>1, <1>2, <1>7, NameAfter DEF Listening, OneOwner, Named, Binds, Unlinks, Removes,
     FailsToListen
<1> QED
  BY <1>3, <1>4, <1>5, <1>6, <1>7, OthersKeep DEF This, Next, MainStep

\* A step of the successor: it touches the name only while it owns the
\* interface, and gets that only from a daemon that has closed its program.
LEMMA SuccessorKeeps ==
    ASSUME RestartInv, SuccStep \/ SuccKilled
    PROVE  RestartInv'
<1>1. UNCHANGED vars
  BY DEF SuccStep, SuccStart, SuccAttach, SuccRemove, SuccBind, SuccKilled
<1>2. DaemonInv' /\ TypeOK'
  BY <1>1, DaemonNext DEF RestartInv, DaemonInv
<1>3. fw # "attached" /\ main # "attach" => fw = "closed" /\ main \in {"return", "exited"}
  BY DEF RestartInv, OneOwner, DaemonInv, TypeOK, Phase, Up, MainSteps
<1> QED
  BY <1>1, <1>2, <1>3 DEF RestartInv, RTypeOK, Listening, OneOwner, Named, Owning, vars,
     SuccStep, SuccStart, SuccAttach, SuccRemove, SuccBind, SuccKilled

LEMMA RestartNext == RestartInv /\ [RNext]_rvars => RestartInv'
<1> SUFFICES ASSUME RestartInv, [RNext]_rvars PROVE RestartInv'
  OBVIOUS
<1>1. CASE UNCHANGED rvars
  <2>1. DaemonInv' /\ TypeOK'
    BY <1>1, DaemonNext DEF RestartInv, DaemonInv, rvars
  <2> QED
    BY <1>1, <2>1 DEF rvars, vars, RestartInv, RTypeOK, Listening, OneOwner, Named
<1> QED
  BY <1>1, ThisKeeps, SuccessorKeeps DEF RNext

LEMMA RestartInvariant == RSpec => []RestartInv
BY RestartInit, RestartNext, PTL DEF RSpec

\* main.go:120-133 and server.go:66-79, 110-133: main's deferred calls unlink
\* the socket before they give up the interface, so the name of a daemon that is
\* up, and has not been told to stop, is its own, however often it is restarted.
THEOREM NameIsKept == RSpec => []SocketReachesRunning
<1>1. RestartInv => SocketReachesRunning
  BY DEF RestartInv, Listening, Named, SocketReachesRunning
<1> QED
  BY <1>1, RestartInvariant, PTL

\* server.go:66-79 and main.go:40-66: the daemon keeps its types when it is
\* killed at any step, and so do the socket's name and the successor.
THEOREM RestartTyped == RSpec => []RTypeOK
<1>1. RestartInv => RTypeOK
  BY DEF RestartInv
<1> QED
  BY <1>1, RestartInvariant, PTL

\* server.go:98-133 and 235: what Close and status promise holds of a daemon
\* whose successors come and go, since they share only the name and the
\* interface with it.
THEOREM DaemonUnderRestarts ==
    RSpec => [](EarlyHandlersServed /\ AtMostOneLate /\ LiveMeansAttached)
<1>1. RestartInv => DaemonInv
  BY DEF RestartInv
<1>2. DaemonInv => EarlyHandlersServed /\ LiveMeansAttached
  BY DEF DaemonInv, Phase, Up, LiveMeansAttached
<1> QED
  BY <1>1, <1>2, SlipsCounted, RestartInvariant, PTL
===============================================================================
