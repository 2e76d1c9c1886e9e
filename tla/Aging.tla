--------------------------------- MODULE Aging ---------------------------------
(***************************************************************************)
(* The running firewall in time: main's ticker that starts the reaper      *)
(* every half timeout (cmd/firewall/main.go), and what becomes of tracked  *)
(* flows.                                                                  *)
(*                                                                         *)
(* Time never ends, so it is counted backwards: the clock stands at Boot   *)
(* and a second that passes makes every stamp one older, down to 0, which  *)
(* is older than any timeout.  A second passes only when nothing is under  *)
(* way: a run of the program, a reaper's pass and a request are short      *)
(* against it.                                                             *)
(***************************************************************************)
EXTENDS Firewall

VARIABLES
    wait,   \* seconds to the next tick
    due     \* ticker.C holds a tick

avars == <<vars, wait, due>>

\* Half the timeout, at least a second.  Mutant: the whole timeout.
Interval_Full == CtTimeout
Interval == IF CtTimeout \div 2 < 1 THEN 1 ELSE CtTimeout \div 2

\* Every age that matters is below Boot; time counts by Elapse alone.
ASSUME AgingAssumption ==
    /\ CtTimeout > 0
    /\ Boot > CtTimeout + 1
    /\ 2 * Boot > 3 * CtTimeout
    /\ MaxTime = Boot

AInit ==
    /\ Init
    /\ wait = Interval
    /\ due = FALSE

\* The reaper's goroutine takes the tick.
PassBegins == reap.pc = "rest" /\ reap'.pc # "rest"

Act ==
    /\ Next
    /\ PassBegins => due
    /\ due' = (due /\ ~ PassBegins)
    /\ UNCHANGED wait

AtRest ==
    /\ reap.pc = "rest" /\ ~ due
    /\ \A c \in Cpus : AtX(c, "idle")
    /\ \A a \in Actors : At(a, "idle")

Older(stamp) == IF stamp > 0 THEN stamp - 1 ELSE 0

\* main starts the ticker once the -block list is applied.
Elapse ==
    /\ Started
    /\ AtRest
    /\ elems' = [s \in Slots |-> [elems[s] EXCEPT !.last_seen = Older(@)]]
    /\ wait' = IF wait > 1 THEN wait - 1 ELSE Interval
    /\ due' = (wait = 1)
    /\ UNCHANGED <<rules, rule_presence, firewall_config, conntrack, counters, now,
                   controlVars, xdp, reap, live, admitted>>

ANext == Act \/ Elapse

\* Time goes on: what keeps a second from passing is over before it is due.
TimeGoesOn == []<><<Elapse>>_avars

ASpec == AInit /\ [][ANext]_avars /\ TimeGoesOn

(***************************************************************************)
(* Properties.                                                             *)
(***************************************************************************)
Age(f) == now - elems[conntrack[f]].last_seen

\* main.go:75-77: the reaper "scans roughly every half timeout so a flow is
\* evicted within ~1.5x the configured timeout", whatever clear, packets and the
\* walk's restarts do to its passes.
EvictedInTime == CtTimeout >= 2 => \A f \in Tracked : 2 * Age(f) < 3 * CtTimeout

\* ct_update refreshes CLOSED entries too, and ct_is_established does not take
\* them for established: once no rule lets packets of a closed connection pass,
\* its entry goes, however many of them still come.
ClosedFlowsGo ==
    \A f \in Flows :
        <>[][\A c \in Cpus : AdmitsNow(c) => Flow(c) # f]_avars
            => (StateOf(f) = "CLOSED" ~> f \notin Tracked)
===============================================================================
