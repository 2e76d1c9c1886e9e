--------------------------- MODULE DatapathProofs ---------------------------
(***************************************************************************)
(* What the program on the CPUs leaves behind, in the connection table and *)
(* in the counters, for any number of CPUs, flows and frames.              *)
(*                                                                         *)
(* Only what a rule let through under default-deny is ever tracked         *)
(* (Firewall!TrackedFlowsAdmitted): with the types that is inductive, for  *)
(* what a program carries past its decision is the flow it decided on.     *)
(*                                                                         *)
(* On one CPU a closed flow stays closed (Firewall!ClosedIsFinal): what    *)
(* ct_update read of the table is still so when it writes.                 *)
(*                                                                         *)
(* The counters conserve packets and bytes (Firewall!CountersConserve),    *)
(* modulo their width: each step moves one CPU in or out of the set that   *)
(* is counted in TOTAL only, and adds as much to one counter.              *)
(***************************************************************************)
EXTENDS FirewallProofs, FiniteSetTheorems

(***************************************************************************)
(* The connection table.                                                   *)
(***************************************************************************)
\* The steps from which a packet's flow is refreshed, or read as tracked.
Carries == {"estState", "ctLookup", "ctTouch", "ctState", "ctEstablish", "ctInsert"}

\* A program enters the steps that carry a flow, or stays in them, in three
\* ways, each with the packet it had.
LEMMA CarryStep ==
    ASSUME XdpTypeOK, NEW c \in Cpus,
           (\E f \in Frames : Receive(c, f)) \/ ProgramStep(c),
           xdp'[c].pc \in Carries
    PROVE  /\ xdp'[c].frame = xdp[c].frame
           /\ \/ xdp[c].pc \in Carries
              \/ EstablishedLookup(c) /\ conntrack[Flow(c)] # None
              \/ /\ Decide(c) /\ RuleMatched(c) /\ Stateful(c)
                 /\ decide(xdp[c].ip, xdp[c].port, firewall_config) = "PASS"
<1> USE DEF AtX, Carries
<1>1. xdp \in [Cpus -> XdpRecord] /\ xdp[c] \in XdpRecord
  BY DEF XdpTypeOK
<1>2. NoPacket.pc = "idle"
  BY DEF NoPacket
<1>3. ASSUME NEW v, NEW p, Settle(c, v, p)
      PROVE  xdp'[c].pc = p /\ xdp'[c].frame = xdp[c].frame
  BY <1>1, <1>3 DEF Settle, NoPacket
<1>4. ASSUME NEW p, GotoX(c, p)
      PROVE  xdp'[c].pc = p /\ xdp'[c].frame = xdp[c].frame
  BY <1>1, <1>4 DEF GotoX, XdpRecord
<1>5. CASE \E f \in Frames : Receive(c, f)
  <2>1. xdp'[c].pc \in {"raw", "presence"}
    BY <1>1, <1>5 DEF Receive, XdpRecord
  <2> QED
    BY <2>1
<1>6. CASE RawVerdict(c)
  BY <1>3, <1>6 DEF RawVerdict
<1>7. CASE ReadPresence(c)
  BY <1>1, <1>7 DEF ReadPresence, AfterIp, XdpRecord
<1>8. CASE LookupSource(c)
  <2>1. xdp'[c].pc \in {"dst", "probe", "config"}
    BY <1>1, <1>8 DEF LookupSource, AfterIp, XdpRecord
  <2> QED
    BY <2>1
<1>9. CASE LookupDestination(c)
  <2>1. xdp'[c].pc \in {"probe", "config"}
    BY <1>1, <1>9 DEF LookupDestination, AfterIp, XdpRecord
  <2> QED
    BY <2>1
<1>10. CASE ProbePort(c)
  <2>1. xdp'[c].pc \in {"probe", "config"}
    BY <1>1, <1>10 DEF ProbePort, XdpRecord
  <2> QED
    BY <2>1
<1>11. CASE Decide(c)
  <2>1. CASE RuleMatched(c)
    BY <1>3, <1>11, <2>1 DEF Decide
  <2>2. CASE ~ RuleMatched(c)
    BY <1>3, <1>11, <2>2 DEF Decide
  <2> QED
    BY <2>1, <2>2
<1>12. CASE EstablishedLookup(c)
  BY <1>1, <1>12 DEF EstablishedLookup, XdpRecord
<1>13. CASE EstablishedState(c)
  BY <1>3, <1>13 DEF EstablishedState
<1>14. CASE CtLookup(c)
  BY <1>1, <1>14 DEF CtLookup, XdpRecord
<1>15. CASE CtTouch(c)
  BY <1>1, <1>15 DEF CtTouch, XdpRecord
<1>16. CASE CtUpdateState(c)
  BY <1>3, <1>4, <1>16 DEF CtUpdateState
<1>17. CASE CtEstablish(c)
  BY <1>3, <1>17 DEF CtEstablish
<1>18. CASE CtInsertNew(c)
  BY <1>3, <1>18 DEF CtInsertNew
<1>19. CASE CountTotal(c)
  BY <1>3, <1>19 DEF CountTotal
<1>20. CASE CountTotalBytes(c)
  BY <1>4, <1>20 DEF CountTotalBytes
<1>21. CASE CountVerdict(c)
  BY <1>4, <1>21 DEF CountVerdict
<1>22. CASE CountVerdictBytes(c)
  BY <1>1, <1>2, <1>22 DEF CountVerdictBytes
<1> QED
  BY <1>5, <1>6, <1>7, <1>8, <1>9, <1>10, <1>11, <1>12, <1>13, <1>14, <1>15, <1>16,
     <1>17, <1>18, <1>19, <1>20, <1>21, <1>22 DEF ProgramStep

\* The table gains a flow only by the insertion of a program that carries it.
LEMMA TrackStep ==
    ASSUME MapsTypeOK, XdpTypeOK, NEW c \in Cpus,
           (\E f \in Frames : Receive(c, f)) \/ ProgramStep(c)
    PROVE  \A f \in Tracked' \ Tracked : AtX(c, "ctInsert") /\ f = Flow(c)
<1> USE DEF AtX
<1>1. UNCHANGED conntrack => Tracked' = Tracked
  BY DEF Tracked
<1>2. CASE CtInsertNew(c)
  <2>1. conntrack \in [Flows -> Slots \cup {None}]
    BY DEF MapsTypeOK
  <2>2. CASE UNCHANGED ctVars
    BY <1>1, <2>2 DEF ctVars
  <2>3. CASE \E s \in FreeSlots : conntrack' = [conntrack EXCEPT ![Flow(c)] = s]
    BY <1>2, <2>1, <2>3 DEF CtInsertNew, Tracked
  <2> QED
    BY <1>2, <2>2, <2>3 DEF CtInsertNew, CtInsert
<1>3. CASE ~ CtInsertNew(c)
  <2>1. UNCHANGED <<maps, now>> \/ UNCHANGED ctVars => UNCHANGED conntrack
    BY DEF maps, ctVars
  <2>2. UNCHANGED conntrack
    BY <1>3, <2>1
       DEF ProgramStep, Receive, RawVerdict, ReadPresence, LookupSource,
           LookupDestination, ProbePort, Decide, EstablishedLookup, EstablishedState,
           CtLookup, CtTouch, CtUpdateState, CtEstablish, CountTotal, CountTotalBytes,
           CountVerdict, CountVerdictBytes
  <2> QED
    BY <1>1, <2>2
<1> QED
  BY <1>2, <1>3

(***************************************************************************)
(* Induction.                                                              *)
(***************************************************************************)
AdmittedInv == TypeOK /\ TrackedFlowsAdmitted

LEMMA AdmittedInit == Init => AdmittedInv
<1> SUFFICES ASSUME Init PROVE AdmittedInv
  OBVIOUS
<1>1. Tracked = {}
  BY DEF Init, MapsInit, Tracked
<1>2. \A c \in Cpus : xdp[c].pc = "idle"
  BY DEF Init, DatapathInit, NoPacket
<1> QED
  BY <1>1, <1>2, InitType DEF AdmittedInv, TrackedFlowsAdmitted

LEMMA AdmittedNext == AdmittedInv /\ [Next]_vars => AdmittedInv'
<1> SUFFICES ASSUME AdmittedInv, [Next]_vars PROVE AdmittedInv'
  OBVIOUS
<1>1. /\ MapsTypeOK /\ XdpTypeOK /\ ControlTypeOK
      /\ Tracked \subseteq admitted
      /\ \A c \in Cpus : xdp[c].pc \in Carries => Flow(c) \in admitted
  BY DEF AdmittedInv, TypeOK, TrackedFlowsAdmitted, Carries
<1>2. TypeOK'
  BY NextType DEF AdmittedInv
<1>3. admitted \subseteq admitted'
  BY DEF Next, History, TrackAdmitted, vars
<1>4. ASSUME UNCHANGED xdp, Tracked' \subseteq Tracked
      PROVE  AdmittedInv'
  <2>1. \A c \in Cpus : Flow(c)' = Flow(c)
    BY <1>4 DEF Flow, Info
  <2> QED
    BY <1>1, <1>2, <1>3, <1>4, <2>1 DEF AdmittedInv, TrackedFlowsAdmitted, Carries
<1>5. UNCHANGED conntrack => Tracked' \subseteq Tracked
  BY DEF Tracked
<1>6. ASSUME NEW f \in Flows, CtDelete(f)
      PROVE  Tracked' \subseteq Tracked
  <2>1. \A g \in Flows : conntrack'[g] = IF g = f THEN None ELSE conntrack[g]
    BY <1>1, <1>6 DEF CtDelete, MapsTypeOK
  <2> QED
    BY <2>1 DEF Tracked
<1>7. CASE DatapathNext /\ UNCHANGED <<controlVars, reap>> /\ History
  <2>1. PICK c \in Cpus : (\E f \in Frames : Receive(c, f)) \/ ProgramStep(c)
    BY <1>7 DEF DatapathNext
  <2>2. Tracked' \subseteq admitted'
    <3>1. "ctInsert" \in Carries
      BY DEF Carries
    <3> QED
      BY <1>1, <1>3, <2>1, <3>1, TrackStep DEF AtX
  <2>3. ASSUME NEW d \in Cpus, xdp'[d].pc \in Carries
        PROVE  Flow(d)' \in admitted'
    <3>1. CASE d # c
      <4>1. xdp'[d] = xdp[d]
        BY <1>1, <2>1, <3>1, OwnLocals
      <4>2. Flow(d)' = Flow(d)
        BY <4>1 DEF Flow, Info
      <4> QED
        BY <1>1, <1>3, <2>3, <4>1, <4>2
    <3>2. CASE d = c
      <4>1. Flow(c)' = Flow(c)
        BY <1>1, <2>1, <2>3, <3>2, CarryStep DEF Flow, Info
      <4>2. CASE xdp[c].pc \in Carries
        BY <1>1, <1>3, <3>2, <4>1, <4>2
      <4>3. CASE EstablishedLookup(c) /\ conntrack[Flow(c)] # None
        <5>1. xdp[c].frame \in TcpFrames
          BY <1>1, <4>3 DEF EstablishedLookup, XdpTypeOK, AtX, CtSteps
        <5>2. Flow(c) \in Tracked
          BY <4>3, <5>1 DEF Tracked, Flows, FlowOf, Flow, Info
        <5> QED
          BY <1>1, <1>3, <3>2, <4>1, <5>2
      <4>4. CASE /\ Decide(c) /\ RuleMatched(c) /\ Stateful(c)
                 /\ decide(xdp[c].ip, xdp[c].port, firewall_config) = "PASS"
        <5>1. AtX(c, "config") /\ firewall_config = "DENY"
          BY <4>4 DEF Decide, Stateful
        <5>2. xdp[c].frame \in TcpFrames
          BY <1>1, <4>4, <5>1 DEF Stateful, XdpTypeOK, AtX, Lookups, TcpFrames, Info,
                                  parse_packet
        <5>3. xdp'[c].pc # "config"
          BY <2>3, <3>2 DEF Carries
        <5>4. AdmitsNow(c)
          BY <4>4, <5>1, <5>2, <5>3 DEF AdmitsNow
        <5>5. Flow(c) \in admitted'
          BY <1>7, <5>4 DEF History, TrackAdmitted
        <5> QED
          BY <3>2, <4>1, <5>5
      <4> QED
        BY <1>1, <2>1, <2>3, <3>2, <4>2, <4>3, <4>4, CarryStep
    <3> QED
      BY <3>1, <3>2
  <2> QED
    BY <1>2, <2>2, <2>3 DEF AdmittedInv, TrackedFlowsAdmitted, Carries
<1>8. CASE ControlNext /\ UNCHANGED <<xdp, reap>> /\ History
  <2>1. ASSUME NEW a \in Actors, ConntrackDelete(a)
        PROVE  Tracked' \subseteq Tracked
    <3>1. UNCHANGED ctVars => Tracked' \subseteq Tracked
      BY <1>5 DEF ctVars
    <3>2. ASSUME CtDelete(Head(op[a].keys)), op[a].keys # <<>>
          PROVE  Tracked' \subseteq Tracked
      <4>1. op[a].keys \in Seq(Flows)
        BY <1>1 DEF ControlTypeOK, Op
      <4>2. Head(op[a].keys) \in Flows
        BY <3>2, <4>1
      <4> QED
        BY <1>6, <3>2, <4>2
    <3> QED
      BY <2>1, <3>1, <3>2 DEF ConntrackDelete
  <2>2. ASSUME NEW a \in Actors, ManagerStep(a), ~ ConntrackDelete(a)
        PROVE  UNCHANGED conntrack
    BY <2>2 DEF ManagerStep, SetPresenceRead, SetPresenceWrite, PutRule, DeleteRule,
                WipeRule, MapHasEntries, SyncPresenceRead, SyncPresenceWrite,
                SetDefaultPolicy, ConntrackKeys, SyscallError, maps, ctVars
  <2>3. (~ \E a \in Actors : ManagerStep(a)) => UNCHANGED conntrack
    BY <1>8 DEF ControlNext, Accept, Lock, Unlock, Reply, StartupBlock, StartupNext, maps
  <2> QED
    BY <1>4, <1>5, <1>8, <2>1, <2>2, <2>3
<1>9. CASE Started /\ ReaperNext /\ UNCHANGED <<controlVars, xdp>> /\ History
  <2>1. ASSUME ReapDelete
        PROVE  Tracked' \subseteq Tracked
    BY <1>6, <2>1 DEF ReapDelete, Tracked
  <2>2. ReapStart \/ ReapScan \/ ReapEnd => UNCHANGED conntrack
    BY DEF ReapStart, ReapScan, ReapEnd, maps
  <2> QED
    BY <1>4, <1>5, <1>9, <2>1, <2>2 DEF ReaperNext
<1>10. CASE Tick /\ History
  BY <1>4, <1>5, <1>10 DEF Tick, maps
<1>11. CASE UNCHANGED vars
  BY <1>4, <1>5, <1>11 DEF vars, maps
<1> QED
  BY <1>7, <1>8, <1>9, <1>10, <1>11 DEF Next, TimedNext

\* A flow is tracked, or a packet of it passes as established, only if an
\* earlier packet of that very flow passed by a rule under default-deny:
\* whatever rules, default policy and table do while packets are in flight, on
\* any number of CPUs.
THEOREM OnlyAdmittedTracked == Spec => []TrackedFlowsAdmitted
<1>1. AdmittedInv => TrackedFlowsAdmitted
  BY DEF AdmittedInv
<1> QED
  BY <1>1, AdmittedInit, AdmittedNext, PTL DEF Spec

(***************************************************************************)
(* Closed connections, on one CPU.                                         *)
(***************************************************************************)
\* The handlers and the reaper only take flows out of the table.
LEMMA TableLeft ==
    ASSUME MapsTypeOK, [Next]_vars, ~ DatapathNext
    PROVE  /\ UNCHANGED <<elems, xdp>>
           /\ \A f \in Flows : conntrack'[f] \in {conntrack[f], None}
<1>1. conntrack \in [Flows -> Slots \cup {None}]
  BY DEF MapsTypeOK
<1>2. UNCHANGED conntrack => \A f \in Flows : conntrack'[f] \in {conntrack[f], None}
  OBVIOUS
<1>3. ASSUME NEW flow, CtDelete(flow)
      PROVE  UNCHANGED elems /\ \A f \in Flows : conntrack'[f] \in {conntrack[f], None}
  BY <1>1, <1>3 DEF CtDelete
<1>4. CASE ControlNext /\ UNCHANGED <<xdp, reap>> /\ History
  <2>1. ASSUME NEW a \in Actors, ConntrackDelete(a)
        PROVE  UNCHANGED elems /\ \A f \in Flows : conntrack'[f] \in {conntrack[f], None}
    <3>1. CtDelete(Head(op[a].keys)) \/ UNCHANGED ctVars
      BY <2>1 DEF ConntrackDelete
    <3> QED
      BY <1>2, <1>3, <3>1 DEF ctVars
  <2>2. ASSUME NEW a \in Actors, ManagerStep(a), ~ ConntrackDelete(a)
        PROVE  UNCHANGED <<elems, conntrack>>
    BY <2>2 DEF ManagerStep, SetPresenceRead, SetPresenceWrite, PutRule, DeleteRule,
                WipeRule, MapHasEntries, SyncPresenceRead, SyncPresenceWrite,
                SetDefaultPolicy, ConntrackKeys, SyscallError, maps, ctVars
  <2>3. (~ \E a \in Actors : ManagerStep(a)) => UNCHANGED <<elems, conntrack>>
    BY <1>4 DEF ControlNext, Accept, Lock, Unlock, Reply, StartupBlock, StartupNext, maps
  <2> QED
    BY <1>2, <1>4, <2>1, <2>2, <2>3
<1>5. CASE TimedNext /\ History
  <2>1. ReapDelete => UNCHANGED elems /\ \A f \in Flows : conntrack'[f] \in {conntrack[f], None}
    BY <1>3 DEF ReapDelete
  <2>2. ReapStart \/ ReapScan \/ ReapEnd \/ Tick => UNCHANGED <<elems, conntrack>>
    BY DEF ReapStart, ReapScan, ReapEnd, Tick, maps
  <2>3. UNCHANGED xdp
    BY <1>5 DEF TimedNext, Tick
  <2> QED
    BY <1>2, <1>5, <2>1, <2>2, <2>3 DEF TimedNext, ReaperNext
<1>6. CASE UNCHANGED vars
  BY <1>2, <1>6 DEF vars, maps
<1> QED
  BY <1>4, <1>5, <1>6 DEF Next

\* What a single CPU has read of the table and not yet acted on is still so.
ReadIsTrue(c) ==
    /\ AtX(c, "ctEstablish") => elems[xdp[c].elem].state = "NEW"
    /\ AtX(c, "ctInsert") => Flow(c) \notin Tracked

OneCpuInv == TypeOK /\ \A c \in Cpus : ReadIsTrue(c)

Closes == \A f \in Flows : StateOf(f) = "CLOSED" => StateOf(f)' \in {"CLOSED", "NONE"}

LEMMA PointerRead ==
    ASSUME XdpTypeOK, NEW c \in Cpus,
           (\E f \in Frames : Receive(c, f)) \/ ProgramStep(c),
           ~ CtLookup(c), ~ CtTouch(c), ~ CtUpdateState(c), ~ CtEstablish(c), ~ CtInsertNew(c)
    PROVE  /\ UNCHANGED <<conntrack, elems>>
           /\ xdp'[c].pc \notin {"ctTouch", "ctEstablish", "ctInsert"}
<1>1. xdp \in [Cpus -> XdpRecord] /\ xdp[c] \in XdpRecord
  BY DEF XdpTypeOK
<1>2. CASE CountTotal(c)
  BY <1>1, <1>2 DEF CountTotal, Settle, NoPacket, ctVars
<1>3. CASE CountTotalBytes(c)
  BY <1>1, <1>3 DEF CountTotalBytes, GotoX, ctVars, XdpRecord
<1>4. CASE CountVerdict(c)
  BY <1>1, <1>4 DEF CountVerdict, GotoX, ctVars, XdpRecord
<1>5. CASE CountVerdictBytes(c)
  BY <1>1, <1>5 DEF CountVerdictBytes, NoPacket, ctVars
<1>6. CASE /\ ~ CountTotal(c) /\ ~ CountTotalBytes(c)
           /\ ~ CountVerdict(c) /\ ~ CountVerdictBytes(c)
  BY <1>6, Deciding DEF ProgramStep, Undecided, maps
<1> QED
  BY <1>2, <1>3, <1>4, <1>5, <1>6

LEMMA ClosedStep ==
    ASSUME MapsTypeOK, XdpTypeOK, NEW c \in Cpus, ReadIsTrue(c),
           (\E f \in Frames : Receive(c, f)) \/ ProgramStep(c)
    PROVE  ReadIsTrue(c)' /\ Closes
<1>1. /\ conntrack \in [Flows -> Slots \cup {None}]
      /\ elems \in [Slots -> [last_seen : Nat, state : CtState]]
  BY DEF MapsTypeOK
<1>2. xdp \in [Cpus -> XdpRecord] /\ xdp[c] \in XdpRecord
  BY DEF XdpTypeOK
<1>3. ASSUME conntrack' = conntrack, \A s \in Slots : elems'[s].state = elems[s].state
             \/ elems'[s].state = "CLOSED" \/ elems[s].state = "NEW"
      PROVE  Closes
  BY <1>1, <1>3 DEF Closes, StateOf, Tracked
<1>4. ASSUME NEW v, NEW p, Settle(c, v, p)
      PROVE  xdp'[c].pc = p
  BY <1>2, <1>4 DEF Settle, NoPacket
<1>5. CASE CtLookup(c)
  <2>1. UNCHANGED <<conntrack, elems>>
    BY <1>5 DEF CtLookup, maps
  <2>2. /\ xdp'[c].pc \in {"ctInsert", "ctTouch"} /\ xdp'[c].frame = xdp[c].frame
        /\ xdp'[c].pc = "ctInsert" => conntrack[Flow(c)] = None
    BY <1>2, <1>5 DEF CtLookup, XdpRecord
  <2>3. Flow(c)' = Flow(c)
    BY <2>2 DEF Flow, Info
  <2> QED
    BY <1>3, <2>1, <2>2, <2>3 DEF ReadIsTrue, AtX, Tracked
<1>6. CASE CtTouch(c)
  <2>1. xdp'[c].pc = "ctState" /\ conntrack' = conntrack
    BY <1>2, <1>6 DEF CtTouch, XdpRecord
  <2>2. \A s \in Slots : elems'[s].state = elems[s].state
    BY <1>1, <1>6 DEF CtTouch
  <2> QED
    BY <1>3, <2>1, <2>2 DEF ReadIsTrue, AtX
<1>7. CASE CtUpdateState(c)
  <2>1. conntrack' = conntrack
    BY <1>7 DEF CtUpdateState
  <2>2. CASE Closing(c)
    <3>1. \A s \in Slots : elems'[s].state = elems[s].state \/ elems'[s].state = "CLOSED"
      BY <1>1, <1>7, <2>2 DEF CtUpdateState
    <3>2. xdp'[c].pc = "total"
      BY <1>4, <1>7, <2>2 DEF CtUpdateState
    <3> QED
      BY <1>3, <2>1, <3>1, <3>2 DEF ReadIsTrue, AtX
  <2>3. CASE ~ Closing(c)
    <3>1. elems' = elems
      BY <1>7, <2>3 DEF CtUpdateState
    <3>2. CASE elems[xdp[c].elem].state = "NEW" /\ Has(c, "ACK")
      <4>1. xdp'[c].pc = "ctEstablish" /\ xdp'[c].elem = xdp[c].elem
        BY <1>2, <1>7, <2>3, <3>2 DEF CtUpdateState, GotoX, XdpRecord
      <4> QED
        BY <1>3, <2>1, <3>1, <3>2, <4>1 DEF ReadIsTrue, AtX
    <3>3. CASE ~ (elems[xdp[c].elem].state = "NEW" /\ Has(c, "ACK"))
      <4>1. xdp'[c].pc = "total"
        BY <1>4, <1>7, <2>3, <3>3 DEF CtUpdateState
      <4> QED
        BY <1>3, <2>1, <3>1, <4>1 DEF ReadIsTrue, AtX
    <3> QED
      BY <3>2, <3>3
  <2> QED
    BY <2>2, <2>3
<1>8. CASE CtEstablish(c)
  <2>1. xdp'[c].pc = "total" /\ conntrack' = conntrack
    BY <1>4, <1>8 DEF CtEstablish
  <2>2. elems[xdp[c].elem].state = "NEW"
    BY <1>8 DEF CtEstablish, ReadIsTrue
  <2>3. \A s \in Slots : elems'[s].state = elems[s].state \/ elems[s].state = "NEW"
    BY <1>1, <1>8, <2>2 DEF CtEstablish
  <2> QED
    BY <1>3, <2>1, <2>3 DEF ReadIsTrue, AtX
<1>9. CASE CtInsertNew(c)
  <2>1. xdp'[c].pc = "total"
    BY <1>4, <1>9 DEF CtInsertNew
  <2>2. Flow(c) \notin Tracked
    BY <1>9 DEF CtInsertNew, ReadIsTrue
  <2>3. CASE UNCHANGED ctVars
    BY <1>3, <2>1, <2>3 DEF ReadIsTrue, AtX, ctVars
  <2>4. ASSUME NEW s \in FreeSlots, NEW value,
               conntrack' = [conntrack EXCEPT ![Flow(c)] = s],
               elems' = [elems EXCEPT ![s] = value]
        PROVE  Closes
    <3>1. ASSUME NEW f \in Flows, StateOf(f) = "CLOSED"
          PROVE  StateOf(f)' = "CLOSED"
      <4>1. f \in Tracked /\ elems[conntrack[f]].state = "CLOSED"
        BY <3>1 DEF StateOf
      <4>2. f # Flow(c) /\ conntrack[f] \in Slots /\ conntrack[f] # s
        BY <1>1, <2>2, <2>4, <4>1 DEF Tracked, FreeSlots
      <4>3. conntrack'[f] = conntrack[f] /\ elems'[conntrack[f]] = elems[conntrack[f]]
        BY <1>1, <2>4, <4>2
      <4>4. f \in Tracked'
        BY <4>1, <4>3 DEF Tracked
      <4> QED
        BY <4>1, <4>3, <4>4 DEF StateOf
    <3> QED
      BY <3>1 DEF Closes
  <2> QED
    BY <1>9, <2>1, <2>3, <2>4 DEF CtInsertNew, CtInsert, ReadIsTrue, AtX
<1>10. CASE /\ ~ CtLookup(c) /\ ~ CtTouch(c) /\ ~ CtUpdateState(c)
            /\ ~ CtEstablish(c) /\ ~ CtInsertNew(c)
  <2>1. UNCHANGED <<conntrack, elems>> /\ xdp'[c].pc \notin {"ctEstablish", "ctInsert"}
    BY <1>10, PointerRead
  <2> QED
    BY <1>3, <2>1 DEF ReadIsTrue, AtX
<1> QED
  BY <1>5, <1>6, <1>7, <1>8, <1>9, <1>10

\* On one CPU a connection that was closed is not open again before its entry is
\* gone: what ct_update tests still holds when it writes, though the entry may
\* have been deleted, or its element be another flow's, in between.
THEOREM ClosedStays ==
    ASSUME NEW cpu, Cpus = {cpu}
    PROVE  Spec => ClosedIsFinal
<1>1. Init => OneCpuInv
  <2>1. Init => \A c \in Cpus : xdp[c].pc = "idle"
    BY DEF Init, DatapathInit, NoPacket
  <2> QED
    BY <2>1, InitType DEF OneCpuInv, ReadIsTrue, AtX
<1>2. ASSUME OneCpuInv, [Next]_vars
      PROVE  OneCpuInv' /\ Closes
  <2>1. TypeOK' /\ MapsTypeOK /\ XdpTypeOK
    BY <1>2, NextType DEF OneCpuInv, TypeOK
  <2>2. CASE DatapathNext
    <3>1. PICK c \in Cpus : (\E f \in Frames : Receive(c, f)) \/ ProgramStep(c)
      BY <2>2 DEF DatapathNext
    <3>2. ReadIsTrue(c)' /\ Closes
      BY <1>2, <2>1, <3>1, ClosedStep DEF OneCpuInv
    <3> QED
      BY <2>1, <3>2 DEF OneCpuInv
  <2>3. CASE ~ DatapathNext
    <3>1. /\ UNCHANGED <<elems, xdp>>
          /\ \A f \in Flows : conntrack'[f] \in {conntrack[f], None}
      BY <1>2, <2>1, <2>3, TableLeft
    <3>2. \A f \in Tracked' : f \in Tracked /\ conntrack'[f] = conntrack[f]
      BY <3>1 DEF Tracked
    <3>3. \A c \in Cpus : ReadIsTrue(c)'
      BY <1>2, <3>1, <3>2 DEF OneCpuInv, ReadIsTrue, AtX, Flow, Info
    <3>4. Closes
      BY <3>1, <3>2 DEF Closes, StateOf
    <3> QED
      BY <2>1, <3>3, <3>4 DEF OneCpuInv
  <2> QED
    BY <2>2, <2>3
<1>3. Closes => [\A f \in Flows : StateOf(f) = "CLOSED"
                                    => StateOf(f)' \in {"CLOSED", "NONE"}]_vars
  BY DEF Closes
<1> QED
  BY <1>1, <1>2, <1>3, PTL DEF Spec, ClosedIsFinal

(***************************************************************************)
(* Counting modulo a width.                                                *)
(***************************************************************************)
LEMMA ModUnique ==
    ASSUME NEW M \in Nat \ {0}, NEW q \in Int, NEW r \in 0 .. M - 1
    PROVE  (M * q + r) % M = r
OBVIOUS

LEMMA ModRange ==
    ASSUME NEW M \in Nat \ {0}, NEW a \in Nat
    PROVE  a % M \in 0 .. M - 1 /\ (a % M) % M = a % M
OBVIOUS

LEMMA Distributes ==
    ASSUME NEW M \in Nat, NEW a \in Int, NEW b \in Int
    PROVE  M * (a + b) = M * a + M * b
OBVIOUS

\* Division with remainder: of the numbers that a exceeds by a multiple of M, the
\* least is below M.
LEMMA Divides ==
    ASSUME NEW M \in Nat \ {0}, NEW a \in Nat
    PROVE  \E q \in Nat : a = M * q + (a % M)
<1> DEFINE T == {x \in Nat : \E q \in Nat : a = M * q + x}
<1>1. a \in T
  <2>1. a = M * 0 + a
    OBVIOUS
  <2> QED
    BY <2>1
<1>2. PICK x \in T : \A y \in T : x <= y
  BY <1>1, NatMin
<1>3. PICK q \in Nat : a = M * q + x
  OBVIOUS
<1>4. x < M
  <2> SUFFICES ASSUME x >= M PROVE FALSE
    OBVIOUS
  <2>1. x - M \in Nat
    OBVIOUS
  <2>2. M * (q + 1) = M * q + M /\ M * q \in Nat
    BY Distributes
  <2>3. a = M * (q + 1) + (x - M)
    BY <1>3, <2>2
  <2>4. x - M \in T
    BY <2>1, <2>3
  <2> QED
    BY <1>2, <2>1, <2>4
<1>5. (M * q + x) % M = x
  BY <1>4, ModUnique
<1>6. a % M = x
  BY ONLY <1>3, <1>5, Zenon
<1>7. a = M * q + (a % M)
  BY ONLY <1>3, <1>6, Zenon
<1> QED
  BY ONLY <1>7, q \in Nat, Zenon

\* Numbers that are equal modulo M stay so when as much is added to both.
LEMMA ModAdd ==
    ASSUME NEW M \in Nat \ {0}, NEW a \in Nat, NEW b \in Nat, NEW k \in Nat, a % M = b % M
    PROVE  (a + k) % M = (b + k) % M
<1> DEFINE r == a % M
<1>1. r \in 0 .. M - 1
  BY ModRange
<1>2. PICK qa \in Nat : a = M * qa + r
  BY Divides
<1>3. PICK qb \in Nat : b = M * qb + r
  BY Divides
<1> HIDE DEF r
<1> DEFINE s == (r + k) % M
<1>4. s \in 0 .. M - 1
  BY <1>1, ModRange
<1>5. PICK q \in Nat : r + k = M * q + s
  <2>1. r + k \in Nat
    BY <1>1
  <2>2. \E q \in Nat : r + k = M * q + ((r + k) % M)
    BY <2>1, Divides
  <2> QED
    BY ONLY <2>2, Zenon
<1> HIDE DEF s
<1>6. M * (qa + q) = M * qa + M * q /\ M * (qb + q) = M * qb + M * q
  BY Distributes
<1>7. /\ M * qa \in Nat /\ M * qb \in Nat /\ M * q \in Nat
      /\ r \in Nat /\ s \in Nat
  BY <1>1, <1>4
<1>8. a + k = M * (qa + q) + s /\ b + k = M * (qb + q) + s
  BY <1>2, <1>3, <1>5, <1>6, <1>7
<1>9. (M * (qa + q) + s) % M = s /\ (M * (qb + q) + s) % M = s
  BY <1>4, ModUnique
<1> QED
  BY <1>8, <1>9

Congruent(M, a, b) == a % M = b % M

\* A packet that is counted in TOTAL is on its way ...
LEMMA CountIn ==
    ASSUME NEW M \in Nat \ {0}, NEW t \in Nat, NEW e \in Nat, NEW k \in Nat,
           Congruent(M, t, e)
    PROVE  Congruent(M, (t + k) % M, e + k)
<1>1. (t + k) % M = (e + k) % M
  BY ModAdd DEF Congruent
<1> DEFINE u == t + k
<1>2. u \in Nat
  OBVIOUS
<1> HIDE DEF u
<1>3. (u % M) % M = u % M
  BY <1>2, ModRange
<1>4. ((t + k) % M) % M = (t + k) % M
  BY ONLY <1>3, Zenon DEF u
<1> QED
  BY ONLY <1>1, <1>4, Zenon DEF Congruent

\* Part of a sum may be taken modulo M.
LEMMA ModPart ==
    ASSUME NEW M \in Nat \ {0}, NEW x \in Nat, NEW y \in Nat
    PROVE  ((x % M) + y) % M = (x + y) % M
<1> DEFINE z == x % M
<1>1. z \in Nat /\ z % M = x % M
  <2>1. x % M \in 0 .. M - 1 /\ (x % M) % M = x % M
    BY ModRange
  <2> QED
    BY ONLY <2>1, M \in Nat
<1> HIDE DEF z
<1>2. (z + y) % M = (x + y) % M
  BY <1>1, ModAdd
<1> QED
  BY ONLY <1>2, Zenon DEF z

\* ... until it is counted for its verdict.
LEMMA CountOut ==
    ASSUME NEW M \in Nat \ {0}, NEW t \in Nat, NEW d \in Nat, NEW p \in Nat, NEW n \in Nat,
           NEW k \in Nat, Congruent(M, t, d + p + (n + k))
    PROVE  /\ Congruent(M, t, ((d + k) % M) + p + n)
           /\ Congruent(M, t, d + ((p + k) % M) + n)
<1> DEFINE x == d + k
           y == p + k
           e == d + p + (n + k)
           u == x % M
           v == y % M
<1>1. x \in Nat /\ y \in Nat /\ p + n \in Nat /\ d + n \in Nat
  OBVIOUS
<1>2. x + (p + n) = e /\ y + (d + n) = e /\ t % M = e % M
  BY DEF Congruent
<1> HIDE DEF x, y, e
<1>3. (u + (p + n)) % M = (x + (p + n)) % M
  BY ONLY <1>1, M \in Nat \ {0}, ModPart
<1>4. (v + (d + n)) % M = (y + (d + n)) % M
  BY ONLY <1>1, M \in Nat \ {0}, ModPart
<1>5. u \in Nat /\ v \in Nat
  BY <1>1, ModRange
<1> HIDE DEF u, v
<1>6. u + (p + n) = u + p + n /\ v + (d + n) = d + v + n
  BY <1>5
<1>7. t % M = (u + p + n) % M /\ t % M = (d + v + n) % M
  BY ONLY <1>2, <1>3, <1>4, <1>6, Zenon
<1> QED
  BY ONLY <1>7, Zenon DEF u, v, x, y, Congruent

(***************************************************************************)
(* Sums: the order in which SumOver picks its elements does not matter.    *)
(***************************************************************************)
\* g adds up w over every subset of D, whatever the order.
AddsUp(g, w, D) ==
    /\ g \in [SUBSET D -> Nat]
    /\ g[{}] = 0
    /\ \A S \in SUBSET D : \A x \in S : g[S] = w[x] + g[S \ {x}]

LEMMA ExtendSum ==
    ASSUME NEW w, NEW D, NEW d \in D, \A x \in D : w[x] \in Nat, NEW g, AddsUp(g, w, D \ {d})
    PROVE  \E h : AddsUp(h, w, D)
<1> DEFINE h == [S \in SUBSET D |-> g[S \ {d}] + (IF d \in S THEN w[d] ELSE 0)]
<1>1. \A S \in SUBSET D : S \ {d} \in SUBSET (D \ {d})
  OBVIOUS
<1>2. h \in [SUBSET D -> Nat]
  BY <1>1 DEF AddsUp
<1>3. h[{}] = 0
  <2>1. {} \ {d} = {}
    OBVIOUS
  <2> QED
    BY <2>1 DEF AddsUp
<1>4. ASSUME NEW S \in SUBSET D, NEW x \in S
      PROVE  h[S] = w[x] + h[S \ {x}]
  <2>1. CASE x = d
    <3>1. (S \ {d}) \ {d} = S \ {d}
      OBVIOUS
    <3>2. h[S] = g[S \ {d}] + w[d]
      BY <1>4, <2>1
    <3>3. h[S \ {d}] = g[S \ {d}] + 0
      BY <3>1
    <3> QED
      BY <1>1, <2>1, <3>2, <3>3 DEF AddsUp
  <2>2. CASE x # d
    <3>1. (S \ {x}) \ {d} = (S \ {d}) \ {x} /\ x \in S \ {d}
      BY <2>2
    <3>2. g[S \ {d}] = w[x] + g[(S \ {d}) \ {x}]
      BY <1>1, <3>1 DEF AddsUp
    <3>3. d \in S <=> d \in S \ {x}
      BY <2>2
    <3>4. h[S] = g[S \ {d}] + (IF d \in S THEN w[d] ELSE 0)
      OBVIOUS
    <3>5. h[S \ {x}] = g[(S \ {d}) \ {x}] + (IF d \in S THEN w[d] ELSE 0)
      BY <3>1, <3>3
    <3> QED
      <4>1. g[(S \ {d}) \ {x}] \in Nat /\ g[S \ {d}] \in Nat
        BY <1>1, <3>1 DEF AddsUp
      <4>2. (IF d \in S THEN w[d] ELSE 0) \in Nat
        OBVIOUS
      <4>3. w[x] \in Nat
        OBVIOUS
      <4> HIDE DEF h
      <4> QED
        BY <4>1, <4>2, <4>3, <3>2, <3>4, <3>5
  <2> QED
    BY <2>1, <2>2
<1> HIDE DEF h
<1> QED
  BY <1>2, <1>3, <1>4 DEF AddsUp

LEMMA SumExists ==
    ASSUME NEW w, NEW D, IsFiniteSet(D), \A x \in D : w[x] \in Nat
    PROVE  \E g : AddsUp(g, w, D)
<1> DEFINE Bad == {S \in SUBSET D : ~ \E g : AddsUp(g, w, S)}
           Sizes == {Cardinality(S) : S \in Bad}
<1> SUFFICES ASSUME Bad # {} PROVE FALSE
  OBVIOUS
<1>1. \A S \in SUBSET D : IsFiniteSet(S) /\ Cardinality(S) \in Nat
  BY FS_Subset, FS_CardinalityType
<1>2. Sizes \subseteq Nat /\ Sizes # {}
  BY <1>1
<1>3. PICK n \in Sizes : \A m \in Sizes : n <= m
  BY <1>2, NatMin
<1>4. PICK S \in Bad : Cardinality(S) = n
  OBVIOUS
<1>5. CASE S = {}
  <2> DEFINE g == [T \in SUBSET {} |-> 0]
  <2>1. AddsUp(g, w, {})
    BY DEF AddsUp
  <2> QED
    BY <1>4, <1>5, <2>1
<1>6. ASSUME NEW d \in S PROVE FALSE
  <2>1. Cardinality(S \ {d}) = n - 1
    BY <1>1, <1>4, <1>6, FS_RemoveElement
  <2>2. S \ {d} \notin Bad
    BY <1>2, <1>3, <2>1
  <2>3. PICK g : AddsUp(g, w, S \ {d})
    BY <2>2
  <2>4. \E h : AddsUp(h, w, S)
    BY <1>6, <2>3, ExtendSum
  <2> QED
    BY <1>4, <2>4
<1> QED
  BY <1>5, <1>6

\* The definition finds such a sum.
LEMMA SumIs ==
    ASSUME NEW w, NEW g, AddsUp(g, w, DOMAIN w), IsFiniteSet(DOMAIN w)
    PROVE  SumOver(w) = g[DOMAIN w]
<1> DEFINE D == DOMAIN w
           Rec(f) == [S \in SUBSET D |->
                        IF S = {} THEN 0
                        ELSE LET x == CHOOSE y \in S : TRUE
                             IN  w[x] + f[S \ {x}]]
           sum == CHOOSE f : f = Rec(f)
<1>1. g = Rec(g)
  <2>1. ASSUME NEW S \in SUBSET D, S # {}
        PROVE  g[S] = LET x == CHOOSE y \in S : TRUE IN  w[x] + g[S \ {x}]
    <3>1. (CHOOSE y \in S : TRUE) \in S
      BY <2>1
    <3> QED
      BY <3>1 DEF AddsUp
  <2> QED
    BY <2>1 DEF AddsUp
<1>2. sum = Rec(sum)
  BY <1>1
<1> HIDE DEF sum
<1>3. \A S \in SUBSET D : sum[S] = g[S]
  <2> DEFINE Bad == {S \in SUBSET D : sum[S] # g[S]}
             Sizes == {Cardinality(S) : S \in Bad}
  <2> SUFFICES ASSUME Bad # {} PROVE FALSE
    OBVIOUS
  <2>1. \A S \in SUBSET D : IsFiniteSet(S) /\ Cardinality(S) \in Nat
    BY FS_Subset, FS_CardinalityType
  <2>2. Sizes \subseteq Nat /\ Sizes # {}
    BY <2>1
  <2>3. PICK n \in Sizes : \A m \in Sizes : n <= m
    BY <2>2, NatMin
  <2>4. PICK S \in Bad : Cardinality(S) = n
    OBVIOUS
  <2>5. S # {}
    BY <1>2, <2>4 DEF AddsUp
  <2> DEFINE x == CHOOSE y \in S : TRUE
  <2>6. x \in S
    BY <2>5
  <2>7. sum[S] = w[x] + sum[S \ {x}]
    BY <1>2, <2>4, <2>5
  <2>8. g[S] = w[x] + g[S \ {x}]
    BY <2>4, <2>6 DEF AddsUp
  <2> HIDE DEF x
  <2>9. Cardinality(S \ {x}) = n - 1
    BY <2>1, <2>4, <2>6, FS_RemoveElement
  <2>10. S \ {x} \notin Bad
    BY <2>2, <2>3, <2>9
  <2>11. sum[S \ {x}] = g[S \ {x}]
    BY <2>4, <2>10
  <2> QED
    BY <2>4, <2>7, <2>8, <2>11
<1>4. SumOver(w) = sum[D]
  BY DEF SumOver, sum
<1> QED
  BY <1>3, <1>4

\* One element of a sum is taken out.
LEMMA SumAdd ==
    ASSUME NEW w, IsFiniteSet(DOMAIN w), \A x \in DOMAIN w : w[x] \in Nat, NEW d \in DOMAIN w
    PROVE  LET rest == [x \in DOMAIN w \ {d} |-> w[x]]
           IN  SumOver(rest) \in Nat /\ SumOver(w) = w[d] + SumOver(rest)
<1> DEFINE D == DOMAIN w
           rest == [x \in D \ {d} |-> w[x]]
<1>1. IsFiniteSet(D \ {d}) /\ DOMAIN rest = D \ {d}
  BY FS_Subset
<1>2. PICK h : AddsUp(h, w, D)
  BY SumExists
<1> DEFINE g == [S \in SUBSET (D \ {d}) |-> h[S]]
<1>3. \A S \in SUBSET (D \ {d}) : S \in SUBSET D /\ (\A x \in S : S \ {x} \in SUBSET (D \ {d}))
  OBVIOUS
<1>4. AddsUp(g, rest, D \ {d})
  <2>1. g \in [SUBSET (D \ {d}) -> Nat] /\ g[{}] = 0
    BY <1>2, <1>3 DEF AddsUp
  <2>2. ASSUME NEW S \in SUBSET (D \ {d}), NEW x \in S
        PROVE  g[S] = rest[x] + g[S \ {x}]
    <3>1. h[S] = w[x] + h[S \ {x}]
      BY <1>2, <1>3, <2>2 DEF AddsUp
    <3>2. g[S] = h[S] /\ g[S \ {x}] = h[S \ {x}] /\ rest[x] = w[x]
      BY <1>3, <2>2
    <3> QED
      BY <3>1, <3>2
  <2> QED
    BY <2>1, <2>2 DEF AddsUp
<1>5. SumOver(rest) = h[D \ {d}] /\ SumOver(w) = h[D]
  <2>1. SumOver(rest) = g[D \ {d}]
    BY <1>1, <1>4, SumIs
  <2>2. SumOver(w) = h[D]
    BY <1>2, SumIs
  <2> QED
    BY <2>1, <2>2
<1>6. h[D] = w[d] + h[D \ {d}] /\ h[D \ {d}] \in Nat
  BY <1>2 DEF AddsUp
<1> QED
  BY <1>5, <1>6

(***************************************************************************)
(* The counters.                                                           *)
(***************************************************************************)
\* Where a program has counted its packet, or its bytes, for TOTAL alone.
PacketsOut == {"totalBytes", "verdict"}
BytesOut == {"verdict", "verdictBytes"}
Fields == {"packets", "bytes"}

\* A count changes one field of one counter.
LEMMA AddToField ==
    ASSUME MapsTypeOK, NEW idx \in CounterIndex, NEW field \in Fields, NEW n \in Nat,
           AddTo(idx, field, n), NEW i \in CounterIndex, NEW f \in Fields
    PROVE  /\ counters[i][f] \in Nat
           /\ counters'[i][f] = IF i = idx /\ f = field
                                THEN (counters[i][f] + n) % CounterMod
                                ELSE counters[i][f]
<1>1. counters \in [CounterIndex -> [packets : Nat, bytes : Nat]]
  BY DEF MapsTypeOK
<1>2. counters[i] \in [packets : Nat, bytes : Nat]
  BY <1>1
<1>3. counters[i][f] \in Nat
  BY <1>2 DEF Fields
<1>4. CASE field = "packets"
  <2> DEFINE v == (counters[idx].packets + n) % CounterMod
  <2>1. counters' = [counters EXCEPT ![idx].packets = v]
    BY <1>4 DEF AddTo
  <2>2. i = idx /\ f = "packets" => v = (counters[i][f] + n) % CounterMod
    BY Zenon
  <2> HIDE DEF v
  <2>3. i # idx => counters'[i] = counters[i]
    BY <1>1, <2>1
  <2>4. i = idx => counters'[i].packets = v /\ counters'[i].bytes = counters[i].bytes
    BY <1>1, <2>1
  <2>5. counters'[i][f] = IF i = idx /\ f = "packets" THEN v ELSE counters[i][f]
    BY <2>3, <2>4 DEF Fields
  <2>6. counters'[i][f] = IF i = idx /\ f = "packets" THEN (counters[i][f] + n) % CounterMod
                          ELSE counters[i][f]
    BY ONLY <2>2, <2>5, Zenon
  <2> QED
    BY <1>3, <1>4, <2>6, Zenon
<1>5. CASE field = "bytes"
  <2> DEFINE v == (counters[idx].bytes + n) % CounterMod
  <2>1. counters' = [counters EXCEPT ![idx].bytes = v]
    BY <1>5 DEF AddTo
  <2>2. i = idx /\ f = "bytes" => v = (counters[i][f] + n) % CounterMod
    BY Zenon
  <2> HIDE DEF v
  <2>3. i # idx => counters'[i] = counters[i]
    BY <1>1, <2>1
  <2>4. i = idx => counters'[i].bytes = v /\ counters'[i].packets = counters[i].packets
    BY <1>1, <2>1
  <2>5. counters'[i][f] = IF i = idx /\ f = "bytes" THEN v ELSE counters[i][f]
    BY <2>3, <2>4 DEF Fields
  <2>6. counters'[i][f] = IF i = idx /\ f = "bytes" THEN (counters[i][f] + n) % CounterMod
                          ELSE counters[i][f]
    BY ONLY <2>2, <2>5, Zenon
  <2> QED
    BY ONLY <1>3, <1>5, <2>6, Zenon
<1> QED
  BY <1>4, <1>5 DEF Fields

\* Every other step of a program counts nothing and stays outside.
LEMMA Uncounted ==
    ASSUME XdpTypeOK, NEW c \in Cpus,
           (\E f \in Frames : Receive(c, f)) \/ ProgramStep(c),
           ~ CountTotal(c), ~ CountTotalBytes(c), ~ CountVerdict(c), ~ CountVerdictBytes(c)
    PROVE  /\ counters' = counters
           /\ xdp[c].pc \notin PacketsOut \cup BytesOut
           /\ xdp'[c].pc \notin PacketsOut \cup BytesOut \cup {"idle"}
<1> USE DEF AtX, PacketsOut, BytesOut
<1>1. xdp \in [Cpus -> XdpRecord] /\ xdp[c] \in XdpRecord
  BY DEF XdpTypeOK
<1>2. ASSUME NEW v, NEW p, Settle(c, v, p)
      PROVE  xdp'[c].pc = p
  BY <1>1, <1>2 DEF Settle, NoPacket
<1>3. CASE CtLookup(c)
  <2>1. xdp'[c].pc \in {"ctInsert", "ctTouch"}
    BY <1>1, <1>3 DEF CtLookup, XdpRecord
  <2> QED
    BY <1>3, <2>1 DEF CtLookup, maps
<1>4. CASE CtTouch(c)
  <2>1. xdp'[c].pc = "ctState"
    BY <1>1, <1>4 DEF CtTouch, XdpRecord
  <2> QED
    BY <1>4, <2>1 DEF CtTouch
<1>5. CASE CtUpdateState(c)
  <2>1. xdp'[c].pc \in {"total", "ctEstablish"}
    BY <1>1, <1>2, <1>5 DEF CtUpdateState, GotoX, XdpRecord
  <2> QED
    BY <1>5, <2>1 DEF CtUpdateState
<1>6. CASE CtEstablish(c)
  BY <1>2, <1>6 DEF CtEstablish
<1>7. CASE CtInsertNew(c)
  BY <1>2, <1>7 DEF CtInsertNew
<1>8. CASE /\ ~ CtLookup(c) /\ ~ CtTouch(c) /\ ~ CtUpdateState(c)
           /\ ~ CtEstablish(c) /\ ~ CtInsertNew(c)
  BY <1>8, Deciding DEF ProgramStep, Undecided, maps
<1> QED
  BY <1>3, <1>4, <1>5, <1>6, <1>7, <1>8

\* One CPU more or less in flight.
LEMMA OneMore ==
    ASSUME NEW S \in SUBSET Cpus, NEW c \in Cpus, c \notin S
    PROVE  /\ Cardinality(S) \in Nat
           /\ Cardinality(S \cup {c}) = Cardinality(S) + 1
  BY CpuAssumption, FS_Subset, FS_CardinalityType, FS_AddElement

LEMMA BytesAreNat ==
    ASSUME NEW S \in SUBSET Cpus, NEW len, \A d \in S : len[d] \in Nat
    PROVE  SumOver([d \in S |-> len[d]]) \in Nat
<1> DEFINE w == [d \in S |-> len[d]]
<1>1. DOMAIN w = S /\ \A d \in S : w[d] \in Nat
  OBVIOUS
<1> HIDE DEF w
<1>2. IsFiniteSet(DOMAIN w)
  BY <1>1, CpuAssumption, FS_Subset
<1>3. PICK g : AddsUp(g, w, DOMAIN w)
  BY <1>1, <1>2, SumExists
<1>4. SumOver(w) = g[DOMAIN w]
  BY <1>2, <1>3, SumIs
<1> QED
  BY <1>3, <1>4 DEF AddsUp, w

LEMMA OneMoreBytes ==
    ASSUME NEW S \in SUBSET Cpus, NEW c \in Cpus, c \notin S, NEW len,
           \A d \in S \cup {c} : len[d] \in Nat
    PROVE  /\ SumOver([d \in S |-> len[d]]) \in Nat
           /\ SumOver([d \in S \cup {c} |-> len[d]]) = len[c] + SumOver([d \in S |-> len[d]])
<1> DEFINE w == [d \in S \cup {c} |-> len[d]]
<1>1. DOMAIN w = S \cup {c} /\ (\A d \in DOMAIN w : w[d] \in Nat) /\ w[c] = len[c]
  OBVIOUS
<1>2. IsFiniteSet(DOMAIN w)
  BY <1>1, CpuAssumption, FS_Subset
<1>3. [x \in DOMAIN w \ {c} |-> w[x]] = [d \in S |-> len[d]]
  OBVIOUS
<1>4. c \in DOMAIN w
  OBVIOUS
<1> HIDE DEF w
<1>5. LET rest == [x \in DOMAIN w \ {c} |-> w[x]]
      IN  SumOver(rest) \in Nat /\ SumOver(w) = w[c] + SumOver(rest)
  BY <1>1, <1>2, <1>4, SumAdd
<1> QED
  BY <1>1, <1>3, <1>5 DEF w

\* What is added to TOTAL is in flight, what is added to a verdict no longer is.
LEMMA BalanceIn ==
    ASSUME MapsTypeOK, NEW field \in Fields, NEW n \in Nat, NEW k \in Nat,
           Balanced(field, n), AddTo("TOTAL", field, k)
    PROVE  counters'["TOTAL"][field] % CounterMod
               = (counters'["DROP"][field] + counters'["PASS"][field] + (n + k)) % CounterMod
<1> DEFINE t == counters["TOTAL"][field]
           d == counters["DROP"][field]
           p == counters["PASS"][field]
           e == d + p + n
<1>1. /\ t \in Nat /\ counters'["TOTAL"][field] = (t + k) % CounterMod
      /\ d \in Nat /\ counters'["DROP"][field] = d
      /\ p \in Nat /\ counters'["PASS"][field] = p
  BY AddToField DEF CounterIndex
<1>2. Congruent(CounterMod, t, e)
  BY ONLY Balanced(field, n) DEF Balanced, Congruent
<1> HIDE DEF t, d, p
<1>3. e \in Nat /\ e + k = d + p + (n + k)
  BY <1>1
<1> HIDE DEF e
<1>4. Congruent(CounterMod, (t + k) % CounterMod, e + k)
  BY <1>1, <1>2, <1>3, LimitAssumption, CountIn
<1> QED
  BY ONLY <1>1, <1>3, <1>4, Zenon DEF Congruent

LEMMA BalanceOut ==
    ASSUME MapsTypeOK, NEW field \in Fields, NEW n \in Nat, NEW k \in Nat,
           Balanced(field, n + k), NEW v \in Verdicts, AddTo(v, field, k)
    PROVE  counters'["TOTAL"][field] % CounterMod
               = (counters'["DROP"][field] + counters'["PASS"][field] + n) % CounterMod
<1> DEFINE t == counters["TOTAL"][field]
           d == counters["DROP"][field]
           p == counters["PASS"][field]
<1>1. /\ t \in Nat /\ counters'["TOTAL"][field] = t
      /\ d \in Nat /\ counters'["DROP"][field] = IF v = "DROP" THEN (d + k) % CounterMod ELSE d
      /\ p \in Nat /\ counters'["PASS"][field] = IF v = "PASS" THEN (p + k) % CounterMod ELSE p
  BY AddToField DEF CounterIndex, Verdicts
<1>2. Congruent(CounterMod, t, d + p + (n + k))
  BY ONLY Balanced(field, n + k) DEF Balanced, Congruent
<1> HIDE DEF t, d, p
<1>3. /\ Congruent(CounterMod, t, ((d + k) % CounterMod) + p + n)
      /\ Congruent(CounterMod, t, d + ((p + k) % CounterMod) + n)
  BY <1>1, <1>2, LimitAssumption, CountOut
<1>4. v = "DROP" \/ v = "PASS"
  BY DEF Verdicts
<1>5. CASE v = "DROP"
  <2>1. v # "PASS"
    BY <1>5
  <2> QED
    BY ONLY <1>1, <1>3, <1>5, <2>1, Zenon DEF Congruent
<1>6. CASE v = "PASS"
  <2>1. v # "DROP"
    BY <1>6
  <2> QED
    BY ONLY <1>1, <1>3, <1>6, <2>1, Zenon DEF Congruent
<1> QED
  BY <1>4, <1>5, <1>6

\* The other field is left alone.
LEMMA BalanceKept ==
    ASSUME MapsTypeOK, NEW field \in Fields, NEW n \in Nat, NEW k \in Nat,
           Balanced(field, n), NEW i \in CounterIndex, NEW g \in Fields, g # field,
           AddTo(i, g, k)
    PROVE  counters'["TOTAL"][field] % CounterMod
               = (counters'["DROP"][field] + counters'["PASS"][field] + n) % CounterMod
<1>1. \A j \in CounterIndex : counters'[j][field] = counters[j][field]
  BY AddToField
<1>2. /\ counters'["TOTAL"][field] = counters["TOTAL"][field]
      /\ counters'["DROP"][field] = counters["DROP"][field]
      /\ counters'["PASS"][field] = counters["PASS"][field]
  BY <1>1 DEF CounterIndex
<1> QED
  BY ONLY <1>2, Balanced(field, n), Zenon DEF Balanced

\* How the sets of programs in flight change with one CPU's step.
LEMMA SetStep ==
    ASSUME NEW c \in Cpus, \A d \in Cpus \ {c} : xdp'[d] = xdp[d], NEW S
    PROVE  /\ (xdp[c].pc \in S <=> xdp'[c].pc \in S) => InFlight(S)' = InFlight(S)
           /\ xdp[c].pc \notin S /\ xdp'[c].pc \in S
                => c \notin InFlight(S) /\ InFlight(S)' = InFlight(S) \cup {c}
           /\ xdp[c].pc \in S /\ xdp'[c].pc \notin S
                => c \notin InFlight(S)' /\ InFlight(S) = InFlight(S)' \cup {c}
  BY DEF InFlight

LEMMA PacketsStep ==
    ASSUME NEW c \in Cpus, \A d \in Cpus \ {c} : xdp'[d] = xdp[d], NEW S
    PROVE  /\ Cardinality(InFlight(S)) \in Nat /\ Cardinality(InFlight(S)') \in Nat
           /\ (xdp[c].pc \in S <=> xdp'[c].pc \in S)
                => Cardinality(InFlight(S)') = Cardinality(InFlight(S))
           /\ xdp[c].pc \notin S /\ xdp'[c].pc \in S
                => Cardinality(InFlight(S)') = Cardinality(InFlight(S)) + 1
           /\ xdp[c].pc \in S /\ xdp'[c].pc \notin S
                => Cardinality(InFlight(S)) = Cardinality(InFlight(S)') + 1
<1>1. InFlight(S) \in SUBSET Cpus /\ InFlight(S)' \in SUBSET Cpus
  BY DEF InFlight
<1>2. Cardinality(InFlight(S)) \in Nat /\ Cardinality(InFlight(S)') \in Nat
  BY <1>1, CpuAssumption, FS_Subset, FS_CardinalityType
<1>3. CASE xdp[c].pc \in S <=> xdp'[c].pc \in S
  BY <1>2, <1>3, SetStep
<1>4. CASE xdp[c].pc \notin S /\ xdp'[c].pc \in S
  <2>1. c \notin InFlight(S) /\ InFlight(S)' = InFlight(S) \cup {c}
    BY <1>4, SetStep
  <2> QED
    BY <1>1, <1>2, <1>4, <2>1, OneMore
<1>5. CASE xdp[c].pc \in S /\ xdp'[c].pc \notin S
  <2>1. c \notin InFlight(S)' /\ InFlight(S) = InFlight(S)' \cup {c}
    BY <1>5, SetStep
  <2> QED
    BY <1>1, <1>2, <1>5, <2>1, OneMore
<1> QED
  BY <1>3, <1>4, <1>5

LEMMA BytesStep ==
    ASSUME XdpTypeOK, XdpTypeOK', NEW c \in Cpus,
           \A d \in Cpus \ {c} : xdp'[d] = xdp[d], NEW S, "idle" \notin S
    PROVE  /\ BytesOf(InFlight(S)) \in Nat /\ BytesOf(InFlight(S))' \in Nat
           /\ (xdp[c].pc \in S <=> xdp'[c].pc \in S) /\ xdp'[c].frame = xdp[c].frame
                => BytesOf(InFlight(S))' = BytesOf(InFlight(S))
           /\ xdp[c].pc \notin S /\ xdp'[c].pc \notin S
                => BytesOf(InFlight(S))' = BytesOf(InFlight(S))
           /\ xdp[c].pc \notin S /\ xdp'[c].pc \in S
                => BytesOf(InFlight(S))' = BytesOf(InFlight(S)) + xdp'[c].frame.len
           /\ xdp[c].pc \in S /\ xdp'[c].pc \notin S
                => BytesOf(InFlight(S)) = BytesOf(InFlight(S))' + xdp[c].frame.len
<1> DEFINE I == InFlight(S)
           J == InFlight(S)'
           old == [d \in Cpus |-> xdp[d].frame.len]
           new == [d \in Cpus |-> xdp'[d].frame.len]
<1>1. I \in SUBSET Cpus /\ J \in SUBSET Cpus
  BY DEF InFlight
<1>2. \A d \in I : old[d] \in Nat
  BY FrameAssumption DEF InFlight, XdpTypeOK, AtX
<1>3. \A d \in J : new[d] \in Nat
  BY FrameAssumption DEF InFlight, XdpTypeOK, AtX
<1>4. \A d \in Cpus \ {c} : new[d] = old[d]
  OBVIOUS
<1>5. BytesOf(I) = SumOver([d \in I |-> old[d]])
  <2>1. [d \in I |-> xdp[d].frame.len] = [d \in I |-> old[d]]
    BY <1>1
  <2> QED
    BY <2>1 DEF BytesOf
<1>6. BytesOf(InFlight(S))' = SumOver([d \in J |-> new[d]])
  <2>1. [d \in J |-> xdp'[d].frame.len] = [d \in J |-> new[d]]
    BY <1>1
  <2> QED
    BY <2>1 DEF BytesOf
<1>7. /\ (xdp[c].pc \in S <=> xdp'[c].pc \in S) => J = I
      /\ xdp[c].pc \notin S /\ xdp'[c].pc \in S => c \notin I /\ J = I \cup {c}
      /\ xdp[c].pc \in S /\ xdp'[c].pc \notin S => c \notin J /\ I = J \cup {c}
      /\ c \in I <=> xdp[c].pc \in S
  BY SetStep DEF InFlight
<1>8. new[c] = xdp'[c].frame.len /\ old[c] = xdp[c].frame.len
  OBVIOUS
<1> DEFINE i == SumOver([d \in I |-> old[d]])
           j == SumOver([d \in J |-> new[d]])
<1> HIDE DEF I, J, old, new
<1>9. (J = I /\ \A d \in I : new[d] = old[d]) => j = i
  <2>1. (J = I /\ \A d \in I : new[d] = old[d])
            => [d \in J |-> new[d]] = [d \in I |-> old[d]]
    OBVIOUS
  <2> QED
    BY <2>1
<1>10. ASSUME c \notin I, J = I \cup {c}
       PROVE  i \in Nat /\ j = i + new[c]
  <2>1. [d \in I |-> new[d]] = [d \in I |-> old[d]]
    BY <1>1, <1>4, <1>10
  <2>2. /\ SumOver([d \in I |-> new[d]]) \in Nat
        /\ SumOver([d \in I \cup {c} |-> new[d]]) = new[c] + SumOver([d \in I |-> new[d]])
    BY <1>1, <1>3, <1>10, OneMoreBytes
  <2>3. new[c] \in Nat
    BY <1>3, <1>10
  <2> QED
    BY <1>10, <2>1, <2>2, <2>3
<1>11. ASSUME c \notin J, I = J \cup {c}
       PROVE  j \in Nat /\ i = j + old[c]
  <2>1. [d \in J |-> new[d]] = [d \in J |-> old[d]]
    BY <1>1, <1>4, <1>11
  <2>2. /\ SumOver([d \in J |-> old[d]]) \in Nat
        /\ SumOver([d \in J \cup {c} |-> old[d]]) = old[c] + SumOver([d \in J |-> old[d]])
    BY <1>1, <1>2, <1>11, OneMoreBytes
  <2>3. old[c] \in Nat
    BY <1>2, <1>11
  <2> QED
    BY <1>11, <2>1, <2>2, <2>3
<1>12. i \in Nat /\ j \in Nat
  BY <1>1, <1>2, <1>3, BytesAreNat
<1> HIDE DEF i, j
<1>13. (xdp[c].pc \in S <=> xdp'[c].pc \in S) /\ xdp'[c].frame = xdp[c].frame => j = i
  BY <1>1, <1>4, <1>7, <1>8, <1>9
<1>14. xdp[c].pc \notin S /\ xdp'[c].pc \notin S => j = i
  BY <1>1, <1>4, <1>7, <1>9
<1> QED
  BY <1>5, <1>6, <1>7, <1>8, <1>10, <1>11, <1>12, <1>13, <1>14 DEF i, j, I

\* Each count of a program keeps the balance of its field; the other field and
\* what is in flight of it are left alone.
LEMMA ConserveStep ==
    ASSUME MapsTypeOK, XdpTypeOK, XdpTypeOK', NEW c \in Cpus,
           (\E f \in Frames : Receive(c, f)) \/ ProgramStep(c), CountersConserve
    PROVE  CountersConserve'
<1> DEFINE N == Cardinality(InFlight(PacketsOut))
           M == Cardinality(InFlight(PacketsOut)')
           I == BytesOf(InFlight(BytesOut))
           J == BytesOf(InFlight(BytesOut))'
           Even(field, n) == counters'["TOTAL"][field] % CounterMod
               = (counters'["DROP"][field] + counters'["PASS"][field] + n) % CounterMod
<1>1. \A d \in Cpus \ {c} : xdp'[d] = xdp[d]
  BY OwnLocals
<1>2. Balanced("packets", N) /\ Balanced("bytes", I)
  BY DEF CountersConserve, PacketsOut, BytesOut
<1>3. SUFFICES Even("packets", M) /\ Even("bytes", J)
  BY DEF CountersConserve, Balanced, PacketsOut, BytesOut
<1>4. /\ N \in Nat /\ M \in Nat
      /\ (xdp[c].pc \in PacketsOut <=> xdp'[c].pc \in PacketsOut) => M = N
      /\ xdp[c].pc \notin PacketsOut /\ xdp'[c].pc \in PacketsOut => M = N + 1
      /\ xdp[c].pc \in PacketsOut /\ xdp'[c].pc \notin PacketsOut => N = M + 1
  BY <1>1, PacketsStep
<1>5. /\ I \in Nat /\ J \in Nat
      /\ (xdp[c].pc \in BytesOut <=> xdp'[c].pc \in BytesOut) /\ xdp'[c].frame = xdp[c].frame
            => J = I
      /\ xdp[c].pc \notin BytesOut /\ xdp'[c].pc \notin BytesOut => J = I
      /\ xdp[c].pc \notin BytesOut /\ xdp'[c].pc \in BytesOut => J = I + xdp'[c].frame.len
      /\ xdp[c].pc \in BytesOut /\ xdp'[c].pc \notin BytesOut => I = J + xdp[c].frame.len
  <2>1. "idle" \notin BytesOut
    BY DEF BytesOut
  <2> QED
    BY <1>1, <2>1, BytesStep
<1> HIDE DEF N, M, I, J
<1>6. xdp \in [Cpus -> XdpRecord] /\ xdp[c] \in XdpRecord
  BY DEF XdpTypeOK
<1>7. /\ xdp[c].verdict \in Verdicts /\ Verdicts \subseteq CounterIndex
      /\ ~ AtX(c, "idle") => xdp[c].frame.len \in Nat
      /\ "TOTAL" \in CounterIndex /\ "packets" \in Fields /\ "bytes" \in Fields
      /\ "packets" # "bytes"
  BY <1>6, FrameAssumption DEF XdpRecord, XdpTypeOK, Verdicts, CounterIndex, Fields
<1>8. CASE CountTotal(c)
  <2>1. xdp[c].pc = "total" /\ xdp'[c].pc = "totalBytes" /\ AddTo("TOTAL", "packets", 1)
    BY <1>6, <1>8 DEF CountTotal, AtX, Settle, NoPacket
  <2>2. M = N + 1 /\ J = I
    BY <1>4, <1>5, <2>1 DEF PacketsOut, BytesOut
  <2>3. Even("packets", N + 1)
    BY <1>2, <1>4, <1>7, <2>1, BalanceIn
  <2>4. Even("bytes", I)
    BY <1>2, <1>5, <1>7, <2>1, BalanceKept
  <2> QED
    BY ONLY <2>2, <2>3, <2>4, Zenon
<1>9. CASE CountTotalBytes(c)
  <2> DEFINE len == xdp[c].frame.len
  <2>1. /\ xdp[c].pc = "totalBytes" /\ xdp'[c].pc = "verdict" /\ xdp'[c].frame = xdp[c].frame
        /\ AddTo("TOTAL", "bytes", len)
    BY <1>6, <1>9 DEF CountTotalBytes, AtX, GotoX, XdpRecord
  <2>2. M = N /\ J = I + len /\ len \in Nat
    BY <1>4, <1>5, <1>7, <2>1 DEF PacketsOut, BytesOut, AtX
  <2> HIDE DEF len
  <2>3. Even("packets", N)
    BY <1>2, <1>4, <1>7, <2>1, <2>2, BalanceKept
  <2>4. Even("bytes", I + len)
    BY <1>2, <1>5, <1>7, <2>1, <2>2, BalanceIn
  <2> QED
    BY ONLY <2>2, <2>3, <2>4, Zenon
<1>10. CASE CountVerdict(c)
  <2>1. /\ xdp[c].pc = "verdict" /\ xdp'[c].pc = "verdictBytes" /\ xdp'[c].frame = xdp[c].frame
        /\ AddTo(xdp[c].verdict, "packets", 1)
    BY <1>6, <1>10 DEF CountVerdict, AtX, GotoX, XdpRecord
  <2>2. N = M + 1 /\ J = I
    BY <1>4, <1>5, <2>1 DEF PacketsOut, BytesOut
  <2>3. Even("packets", M)
    BY <1>2, <1>4, <1>7, <2>1, <2>2, BalanceOut
  <2>4. Even("bytes", I)
    BY <1>2, <1>5, <1>7, <2>1, BalanceKept
  <2> QED
    BY ONLY <2>2, <2>3, <2>4, Zenon
<1>11. CASE CountVerdictBytes(c)
  <2> DEFINE len == xdp[c].frame.len
  <2>1. /\ xdp[c].pc = "verdictBytes" /\ xdp'[c].pc = "idle"
        /\ AddTo(xdp[c].verdict, "bytes", len)
    BY <1>6, <1>11 DEF CountVerdictBytes, AtX, NoPacket
  <2>2. M = N /\ I = J + len /\ len \in Nat
    BY <1>4, <1>5, <1>7, <2>1 DEF PacketsOut, BytesOut, AtX
  <2> HIDE DEF len
  <2>3. Even("packets", N)
    BY <1>2, <1>4, <1>7, <2>1, <2>2, BalanceKept
  <2>4. Even("bytes", J)
    BY <1>2, <1>5, <1>7, <2>1, <2>2, BalanceOut
  <2> QED
    BY ONLY <2>2, <2>3, <2>4, Zenon
<1>12. CASE /\ ~ CountTotal(c) /\ ~ CountTotalBytes(c)
            /\ ~ CountVerdict(c) /\ ~ CountVerdictBytes(c)
  <2>1. /\ counters' = counters
        /\ xdp[c].pc \notin PacketsOut \cup BytesOut
        /\ xdp'[c].pc \notin PacketsOut \cup BytesOut
    BY <1>12, Uncounted
  <2>2. M = N /\ J = I
    BY <1>4, <1>5, <2>1
  <2> QED
    BY ONLY <1>2, <2>1, <2>2, Zenon DEF Balanced
<1> QED
  BY <1>8, <1>9, <1>10, <1>11, <1>12

\* The handlers, the reaper and the clock leave the counters to the programs.
LEMMA CountersLeft ==
    ASSUME [Next]_vars
    PROVE  (UNCHANGED <<counters, xdp>>) \/ DatapathNext
<1>1. CASE ControlNext /\ UNCHANGED <<xdp, reap>> /\ History
  <2>1. ASSUME NEW a \in Actors, ManagerStep(a)
        PROVE  UNCHANGED counters
    BY <2>1 DEF ManagerStep, SetPresenceRead, SetPresenceWrite, PutRule, DeleteRule,
                WipeRule, MapHasEntries, SyncPresenceRead, SyncPresenceWrite,
                SetDefaultPolicy, ConntrackKeys, ConntrackDelete, SyscallError, maps, ctVars
  <2>2. (~ \E a \in Actors : ManagerStep(a)) => UNCHANGED counters
    BY <1>1 DEF ControlNext, Accept, Lock, Unlock, Reply, StartupBlock, StartupNext, maps
  <2> QED
    BY <1>1, <2>1, <2>2
<1>2. CASE TimedNext /\ History
  BY <1>2 DEF TimedNext, ReaperNext, ReapStart, ReapScan, ReapDelete, ReapEnd, Tick, maps
<1>3. CASE UNCHANGED vars
  BY <1>3 DEF vars, maps
<1> QED
  BY <1>1, <1>2, <1>3 DEF Next

ConserveInv == TypeOK /\ CountersConserve

LEMMA ConserveInit == Init => CountersConserve
<1> SUFFICES ASSUME Init PROVE CountersConserve
  OBVIOUS
<1>1. \A S : "idle" \notin S => InFlight(S) = {}
  BY DEF Init, DatapathInit, NoPacket, InFlight
<1>2. InFlight({"totalBytes", "verdict"}) = {} /\ InFlight({"verdict", "verdictBytes"}) = {}
  BY <1>1
<1>3. Cardinality({}) = 0
  BY FS_EmptySet
<1>4. BytesOf({}) = 0
  <2> DEFINE w == [c \in {} |-> xdp[c].frame.len]
             g == [S \in SUBSET {} |-> 0]
  <2>1. AddsUp(g, w, {}) /\ DOMAIN w = {}
    BY DEF AddsUp
  <2>2. SumOver(w) = g[{}]
    <3> HIDE DEF w, g
    <3> QED
      BY <2>1, SumIs, FS_EmptySet
  <2> QED
    BY <2>2 DEF BytesOf
<1>5. \A field \in Fields : \A i \in CounterIndex : counters[i][field] = 0
  BY DEF Init, MapsInit, Fields
<1>6. \A field \in Fields : Balanced(field, 0)
  BY <1>5 DEF Balanced, CounterIndex
<1> QED
  BY <1>2, <1>3, <1>4, <1>6 DEF CountersConserve, Fields

LEMMA ConserveNext == ConserveInv /\ [Next]_vars => ConserveInv'
<1> SUFFICES ASSUME ConserveInv, [Next]_vars PROVE ConserveInv'
  OBVIOUS
<1>1. TypeOK'
  BY NextType DEF ConserveInv
<1>2. MapsTypeOK /\ XdpTypeOK /\ XdpTypeOK' /\ CountersConserve
  BY <1>1 DEF ConserveInv, TypeOK
<1>3. UNCHANGED <<counters, xdp>> => CountersConserve'
  BY <1>2 DEF CountersConserve, Balanced, InFlight, BytesOf
<1>4. ASSUME DatapathNext PROVE CountersConserve'
  <2>1. PICK c \in Cpus : (\E f \in Frames : Receive(c, f)) \/ ProgramStep(c)
    BY <1>4 DEF DatapathNext
  <2> QED
    BY <1>2, <2>1, ConserveStep
<1> QED
  BY <1>1, <1>2, <1>3, <1>4, CountersLeft DEF ConserveInv

\* Whatever wraps and whoever counts at the same time, TOTAL is DROP plus PASS
\* plus what is in flight between the two counts, in packets and in bytes.
THEOREM TotalsBalance == Spec => []CountersConserve
<1>1. Init => ConserveInv
  BY InitType, ConserveInit DEF ConserveInv
<1>2. ConserveInv => CountersConserve
  BY DEF ConserveInv
<1> QED
  BY <1>1, <1>2, ConserveNext, PTL DEF Spec
===============================================================================
