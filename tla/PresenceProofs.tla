---------------------------- MODULE PresenceProofs ----------------------------
(***************************************************************************)
(* The presence flags and the lookups behind them, for any number of       *)
(* handlers, CPUs and rules:                                               *)
(*   - a stored rule is always advertised (PresenceConservative).  The     *)
(*     write of a flag relies on what its writer read one or two steps     *)
(*     before; SoleWriterKnows, the strengthening, says it is still so;    *)
(*   - so a rule stored all the while a packet is looked up is consulted   *)
(*     (LiveRuleConsulted); Looked(c) says what each lookup has settled;   *)
(*   - and, when no map operation fails, the flags are exact whenever no   *)
(*     call is in progress (PresenceExact); FlagsExplained names the calls *)
(*     that leave an empty table advertised meanwhile.                     *)
(***************************************************************************)
EXTENDS FirewallProofs, FiniteSetTheorems

(***************************************************************************)
(* Who may write.                                                          *)
(***************************************************************************)
\* A manager's step starts and ends inside the call, and moves only its actor.
LEMMA ManagerMove ==
    ASSUME ControlTypeOK, NEW a \in Actors, ManagerStep(a)
    PROVE  /\ op[a].pc \in Syscalls
           /\ op' = [op EXCEPT ![a] = op'[a]]
           /\ op'[a].pc \in Locked
           /\ UNCHANGED <<mu, boot>>
<1> USE DEF At
<1>1. op \in [Actors -> Op] /\ op[a] \in Op
  BY DEF ControlTypeOK
<1>2. Fail(a) \/ Succeed(a) => /\ op' = [op EXCEPT ![a] = op'[a]]
                               /\ op'[a].pc \in Locked
  BY FailStep, SucceedStep DEF Locked
<1>3. ASSUME NEW p \in Locked, Goto(a, p)
      PROVE  op' = [op EXCEPT ![a] = op'[a]] /\ op'[a].pc \in Locked
  BY <1>1, <1>3 DEF Goto, Op
<1>4. CASE SetPresenceRead(a)
  BY <1>1, <1>4 DEF SetPresenceRead, Locked, Syscalls, Op
<1>5. CASE SetPresenceWrite(a)
  BY <1>1, <1>5 DEF SetPresenceWrite, Locked, Syscalls, Op
<1>6. CASE PutRule(a)
  BY <1>2, <1>6 DEF PutRule, Syscalls
<1>7. CASE DeleteRule(a)
  BY <1>2, <1>3, <1>7 DEF DeleteRule, Locked, Syscalls
<1>8. CASE WipeRule(a)
  BY <1>1, <1>3, <1>8 DEF WipeRule, Locked, Syscalls
<1>9. CASE MapHasEntries(a)
  BY <1>1, <1>9 DEF MapHasEntries, Locked, Syscalls, Op
<1>10. CASE SyncPresenceRead(a)
  BY <1>1, <1>10 DEF SyncPresenceRead, Locked, Syscalls, Op
<1>11. CASE SyncPresenceWrite(a)
  BY <1>2, <1>11 DEF SyncPresenceWrite, Syscalls
<1>12. CASE SetDefaultPolicy(a)
  BY <1>2, <1>12 DEF SetDefaultPolicy, Syscalls
<1>13. CASE ConntrackKeys(a)
  BY <1>1, <1>2, <1>13 DEF ConntrackKeys, Locked, Syscalls, Op
<1>14. CASE ConntrackDelete(a)
  BY <1>1, <1>2, <1>14 DEF ConntrackDelete, Locked, Syscalls, Op
<1>15. CASE SyscallError(a)
  BY <1>2, <1>15 DEF SyscallError
<1> QED
  BY <1>4, <1>5, <1>6, <1>7, <1>8, <1>9, <1>10, <1>11, <1>12, <1>13, <1>14, <1>15
     DEF ManagerStep

\* Two actors are never inside a call at once.
LEMMA OneInside ==
    ASSUME ControlTypeOK, MutexHeld, StartupAlone,
           NEW a \in Actors, NEW b \in Actors,
           op[a].pc \in Locked, op[b].pc \in Locked
    PROVE  a = b
<1>1. \A c \in Actors : op[c].pc \in Locked => ~ At(c, "idle")
  BY DEF At, Locked, Syscalls
<1>2. \A h \in Handlers : op[h].pc \in Locked => op[Main].pc \notin Locked
  BY <1>1 DEF StartupAlone, Started, Actors, Locked, Syscalls
<1>3. \A g, h \in Handlers : op[g].pc \in Locked /\ op[h].pc \in Locked => g = h
  BY DEF MutexHeld
<1> QED
  BY <1>2, <1>3 DEF Actors

(***************************************************************************)
(* What the writer's step does to the flags and to what it knows.          *)
(***************************************************************************)
LEMMA WriterStep ==
    ASSUME MapsTypeOK, ControlTypeOK, PresenceConservative,
           NEW a \in Actors, WriterKnows(a), ManagerStep(a)
    PROVE  PresenceConservative' /\ WriterKnows(a)'
<1> USE DEF At
<1>1. op \in [Actors -> Op] /\ op[a] \in Op
  BY DEF ControlTypeOK
<1>2. UNCHANGED ruleVars => PresenceConservative'
  BY DEF PresenceConservative, Stored, ruleVars
<1>3. UNCHANGED <<maps, now>> => UNCHANGED ruleVars
  BY DEF maps, ruleVars
<1>4. ASSUME op'[a].pc \notin {"setWrite", "put", "syncRead", "syncWrite"}
      PROVE  WriterKnows(a)'
  BY <1>4 DEF WriterKnows
<1>5. Fail(a) \/ Succeed(a) => WriterKnows(a)'
  BY <1>4, FailStep, SucceedStep
<1>6. ASSUME NEW p \in {"has", "wipe", "ctKeys", "ctDel"}, op'[a].pc = p
      PROVE  WriterKnows(a)'
  BY <1>4, <1>6
<1>7. ASSUME NEW t \in Tables, NEW k \in Keys(t),
             rules' = [rules EXCEPT ![t][k] = NoRule], UNCHANGED rule_presence
      PROVE  PresenceConservative'
  <2>1. \A s \in Tables : Stored(s)' \subseteq Stored(s)
    BY <1>7, RuleWrite DEF Stored, Matched
  <2> QED
    BY <1>7, <2>1 DEF PresenceConservative
<1>8. CASE SetPresenceRead(a)
  <2>1. op'[a].pc = "setWrite" /\ op'[a].flags = rule_presence
    BY <1>1, <1>8 DEF SetPresenceRead, Op
  <2>2. UNCHANGED rule_presence
    BY <1>8 DEF SetPresenceRead, maps
  <2>3. WriterKnows(a)'
    BY <2>1, <2>2 DEF WriterKnows
  <2> QED
    BY <1>2, <1>3, <1>8, <2>3 DEF SetPresenceRead
<1>9. CASE SetPresenceWrite(a)
  <2>1. op[a].flags = rule_presence
    BY <1>9 DEF SetPresenceWrite, WriterKnows
  <2>2. rule_presence' = rule_presence \cup {Table(a)} /\ UNCHANGED rules
    BY <1>9, <2>1 DEF SetPresenceWrite
  <2>3. PresenceConservative'
    BY <2>2 DEF PresenceConservative, Stored
  <2>4. op'[a].pc = "put" /\ op'[a].call = op[a].call
    BY <1>1, <1>9 DEF SetPresenceWrite, Op
  <2> QED
    BY <2>2, <2>3, <2>4 DEF WriterKnows, Table
<1>10. CASE PutRule(a)
  <2>1. Table(a) \in Tables /\ Key(a) \in Keys(Table(a))
        /\ op[a].call.val \in RuleValues(Table(a))
    BY <1>10, CallAt DEF PutRule, Syscalls
  <2>2. Table(a) \in rule_presence /\ UNCHANGED rule_presence
    BY <1>10 DEF PutRule, WriterKnows
  <2>3. \/ UNCHANGED rules
        \/ rules' = [rules EXCEPT ![Table(a)][Key(a)] = op[a].call.val]
    BY <1>10 DEF PutRule
  <2>4. \A s \in Tables \ {Table(a)} : Stored(s)' = Stored(s)
    BY <2>1, <2>3, RuleWrite DEF Stored
  <2>5. PresenceConservative'
    BY <2>2, <2>4 DEF PresenceConservative
  <2> QED
    BY <1>5, <1>10, <2>5 DEF PutRule
<1>11. CASE DeleteRule(a)
  <2>1. Table(a) \in Tables /\ Key(a) \in Keys(Table(a))
    BY <1>11, CallAt DEF DeleteRule, Syscalls
  <2>2. PresenceConservative'
    BY <1>2, <1>7, <1>11, <2>1 DEF DeleteRule, ruleVars
  <2>3. Goto(a, "has") => WriterKnows(a)'
    BY <1>1, <1>6 DEF Goto, Op
  <2> QED
    BY <1>5, <1>11, <2>2, <2>3 DEF DeleteRule
<1>12. CASE WipeRule(a)
  <2>1. Table(a) \in Tables
    BY <1>12, CallAt DEF WipeRule, Syscalls
  <2>2. Stored(Table(a)) \subseteq Keys(Table(a))
    BY DEF Stored
  <2>3. PresenceConservative'
    BY <1>2, <1>7, <1>12, <2>1, <2>2 DEF WipeRule, ruleVars
  <2>4. Goto(a, "has") => WriterKnows(a)'
    BY <1>1, <1>6 DEF Goto, Op
  <2>5. UNCHANGED op => WriterKnows(a)'
    BY <1>6, <1>12 DEF WipeRule
  <2> QED
    BY <1>12, <2>3, <2>4, <2>5 DEF WipeRule
<1>13. CASE MapHasEntries(a)
  <2>1. op'[a].pc = "syncRead" /\ op'[a].call = op[a].call
        /\ op'[a].has = (Stored(Table(a)) # {})
    BY <1>1, <1>13 DEF MapHasEntries, Op
  <2>2. UNCHANGED ruleVars
    BY <1>3, <1>13 DEF MapHasEntries
  <2>3. WriterKnows(a)'
    BY <2>1, <2>2 DEF WriterKnows, Table, Stored, ruleVars
  <2> QED
    BY <1>2, <2>2, <2>3
<1>14. CASE SyncPresenceRead(a)
  <2>1. op'[a].pc = "syncWrite" /\ op'[a].call = op[a].call
        /\ op'[a].has = op[a].has /\ op'[a].flags = rule_presence
    BY <1>1, <1>14 DEF SyncPresenceRead, Op
  <2>2. UNCHANGED ruleVars
    BY <1>3, <1>14 DEF SyncPresenceRead
  <2>3. op[a].has = (Stored(Table(a)) # {})
    BY <1>14 DEF SyncPresenceRead, WriterKnows
  <2>4. WriterKnows(a)'
    BY <2>1, <2>2, <2>3 DEF WriterKnows, Table, Stored, ruleVars
  <2> QED
    BY <1>2, <2>2, <2>4
<1>15. CASE SyncPresenceWrite(a)
  <2>1. op[a].flags = rule_presence /\ op[a].has = (Stored(Table(a)) # {})
    BY <1>15 DEF SyncPresenceWrite, WriterKnows
  <2>2. /\ UNCHANGED rules
        /\ rule_presence' = IF Stored(Table(a)) # {} THEN rule_presence \cup {Table(a)}
                                                     ELSE rule_presence \ {Table(a)}
    BY <1>15, <2>1 DEF SyncPresenceWrite
  <2>3. PresenceConservative'
    BY <2>2 DEF PresenceConservative, Stored
  <2> QED
    BY <1>5, <1>15, <2>3 DEF SyncPresenceWrite
<1>16. CASE SetDefaultPolicy(a)
  BY <1>2, <1>5, <1>16 DEF SetDefaultPolicy
<1>17. CASE ConntrackKeys(a)
  <2>1. UNCHANGED ruleVars
    BY <1>3, <1>17 DEF ConntrackKeys
  <2>2. op'[a].pc \in {"ctKeys", "ctDel"} \/ Fail(a)
    BY <1>1, <1>17 DEF ConntrackKeys, Op
  <2> QED
    BY <1>2, <1>5, <1>6, <2>1, <2>2
<1>18. CASE ConntrackDelete(a)
  <2>1. op'[a].pc = "ctDel" \/ Fail(a) \/ Succeed(a)
    BY <1>1, <1>18 DEF ConntrackDelete, Op
  <2> QED
    BY <1>2, <1>5, <1>6, <1>18, <2>1 DEF ConntrackDelete
<1>19. CASE SyscallError(a)
  BY <1>2, <1>3, <1>5, <1>19 DEF SyscallError
<1> QED
  BY <1>8, <1>9, <1>10, <1>11, <1>12, <1>13, <1>14, <1>15, <1>16, <1>17, <1>18, <1>19
     DEF ManagerStep

(***************************************************************************)
(* The invariant and its induction.                                        *)
(***************************************************************************)
PresenceInv == TypeOK /\ PresenceConservative /\ SoleWriterKnows

LEMMA PresenceInit == Init => PresenceInv
<1> SUFFICES ASSUME Init PROVE PresenceInv
  OBVIOUS
<1>1. TypeOK
  BY InitType
<1>2. \A a \in Actors : op[a].pc = "idle"
  BY DEF Init, ControlInit, Idle
<1>3. \A t \in Tables : Stored(t) = {}
  BY DEF Init, MapsInit, Stored, Matched
<1>4. SoleWriterKnows
  BY <1>2 DEF SoleWriterKnows, MutexHeld, StartupAlone, WriterKnows, At, Actors, Locked,
              Syscalls
<1> QED
  BY <1>1, <1>3, <1>4 DEF PresenceInv, PresenceConservative

\* A step that is no manager's leaves every writer's knowledge alone, provided
\* that what it changes of a call is not at a step that relies on it.
LEMMA NoWrite ==
    ASSUME PresenceConservative, NEW a \in Actors, WriterKnows(a), UNCHANGED ruleVars,
           \/ op'[a] = op[a]
           \/ op'[a].pc \notin {"setWrite", "put", "syncRead", "syncWrite"}
    PROVE  PresenceConservative' /\ WriterKnows(a)'
BY DEF PresenceConservative, WriterKnows, Stored, ruleVars, At, Table

LEMMA ControlPresence ==
    ASSUME PresenceInv, ControlNext
    PROVE  PresenceConservative' /\ SoleWriterKnows'
<1> USE DEF At
<1>1. /\ MapsTypeOK /\ ControlTypeOK /\ PresenceConservative
      /\ MutexHeld /\ StartupAlone /\ \A a \in Actors : WriterKnows(a)
  BY DEF PresenceInv, TypeOK, SoleWriterKnows
<1>2. op \in [Actors -> Op] /\ Main \in Actors /\ Handlers \subseteq Actors
  BY <1>1 DEF ControlTypeOK, Actors
<1>3. Main \notin Handlers /\ Free \notin Handlers
  BY ActorAssumption
<1>4. ASSUME NEW a \in Actors, ManagerStep(a)
      PROVE  PresenceConservative' /\ SoleWriterKnows'
  <2>1. /\ op[a].pc \in Syscalls
        /\ op' = [op EXCEPT ![a] = op'[a]]
        /\ op'[a].pc \in Locked
        /\ UNCHANGED <<mu, boot>>
    BY <1>1, <1>4, ManagerMove
  <2>2. \A b \in Actors \ {a} : op'[b] = op[b]
    BY <1>2, <2>1
  <2>3. op[a].pc \in Locked /\ op[a].pc # "idle"
    BY <2>1 DEF Locked, Syscalls
  <2>4. PresenceConservative' /\ WriterKnows(a)'
    BY <1>1, <1>4, WriterStep
  <2>5. ASSUME NEW b \in Actors \ {a}
        PROVE  WriterKnows(b)'
    <3>1. op[b].pc \notin Locked
      BY <1>1, <2>3, OneInside
    <3>2. op'[b].pc \notin {"setWrite", "put", "syncRead", "syncWrite"}
      BY <2>2, <3>1 DEF Locked, Syscalls
    <3> QED
      BY <3>2 DEF WriterKnows
  <2>6. MutexHeld'
    BY <1>1, <1>2, <2>1, <2>2, <2>3 DEF MutexHeld
  <2>7. ASSUME NEW h \in Handlers, op'[h].pc # "idle"
        PROVE  Started'
    <3>1. Started
      <4>1. op[h].pc # "idle"
        BY <1>2, <2>2, <2>3, <2>7
      <4> QED
        BY <1>1, <4>1 DEF StartupAlone
    <3>2. a # Main
      BY <2>3, <3>1 DEF Started
    <3> QED
      BY <1>2, <2>1, <2>2, <3>1, <3>2 DEF Started
  <2> QED
    BY <2>4, <2>5, <2>6, <2>7 DEF SoleWriterKnows, StartupAlone, Actors
<1>5. ASSUME NEW h \in Handlers, NEW x,
             op' = [op EXCEPT ![h] = x], UNCHANGED <<boot, maps, now>>,
             x.pc \notin {"setWrite", "put", "syncRead", "syncWrite"},
             Started,
             \A g \in Handlers : op'[g].pc \in Locked => mu' = g
      PROVE  PresenceConservative' /\ SoleWriterKnows'
  <2>1. \A b \in Actors : op'[b] = IF b = h THEN x ELSE op[b]
    BY <1>2, <1>5
  <2>2. UNCHANGED ruleVars
    BY <1>5 DEF maps, ruleVars
  <2>3. \A b \in Actors : PresenceConservative' /\ WriterKnows(b)'
    BY <1>1, <1>5, <2>1, <2>2, NoWrite
  <2>4. Started'
    BY <1>2, <1>3, <1>5, <2>1 DEF Started
  <2> QED
    BY <1>2, <1>5, <2>3, <2>4 DEF SoleWriterKnows, MutexHeld, StartupAlone
<1>6. ASSUME NEW h \in Handlers, NEW req \in Requests, Accept(h, req)
      PROVE  PresenceConservative' /\ SoleWriterKnows'
  <2> DEFINE x == [Idle EXCEPT !.pc = "lock", !.call = handle(req)]
  <2>1. x.pc = "lock"
    BY DEF Idle
  <2>2. \A g \in Handlers : op'[g].pc \in Locked => mu' = g
    BY <1>1, <1>2, <1>6, <2>1 DEF Accept, MutexHeld, Locked, Syscalls
  <2> HIDE DEF x
  <2>3. op' = [op EXCEPT ![h] = x] /\ UNCHANGED <<boot, maps, now>> /\ Started
    BY <1>6 DEF Accept, x
  <2> QED
    BY <1>5, <2>1, <2>2, <2>3
<1>7. ASSUME NEW h \in Handlers, op[h].pc \in {"lock", "return", "reply"}
      PROVE  Started
  BY <1>1, <1>7 DEF StartupAlone
<1>8. ASSUME NEW h \in Handlers, Lock(h)
      PROVE  PresenceConservative' /\ SoleWriterKnows'
  <2> DEFINE x == Enter(op[h].call)
  <2>1. op[h].call \in Calls \cup {NoCall}
    BY <1>2 DEF Op
  <2>2. x.pc \in {"return", "setRead", "del", "wipe", "ctKeys", "config"}
    BY <2>1, EnterType
  <2> HIDE DEF x
  <2>3. op' = [op EXCEPT ![h] = x] /\ UNCHANGED <<boot, maps, now>>
        /\ mu = Free /\ mu' = h /\ op[h].pc = "lock"
    BY <1>2, <1>8 DEF Lock, x
  <2>4. \A g \in Handlers : op'[g].pc \in Locked => mu' = g
    BY <1>1, <1>2, <1>3, <2>3 DEF MutexHeld
  <2> QED
    BY <1>5, <1>7, <2>2, <2>3, <2>4
<1>9. ASSUME NEW h \in Handlers, Unlock(h)
      PROVE  PresenceConservative' /\ SoleWriterKnows'
  <2> DEFINE x == [op[h] EXCEPT !.pc = "reply"]
  <2>1. x.pc = "reply"
    BY <1>2 DEF Op
  <2>2. mu = h
    BY <1>1, <1>9 DEF Unlock, MutexHeld, Locked
  <2>3. op' = [op EXCEPT ![h] = x] /\ UNCHANGED <<boot, maps, now>> /\ op[h].pc = "return"
    BY <1>2, <1>9 DEF Unlock, Goto
  <2>4. \A g \in Handlers : op'[g].pc \in Locked => mu' = g
    <3>1. \A g \in Handlers : op'[g].pc \notin Locked
      BY <1>1, <1>2, <2>1, <2>2, <2>3 DEF MutexHeld, Locked, Syscalls
    <3> QED
      BY <3>1
  <2> HIDE DEF x
  <2> QED
    BY <1>5, <1>7, <2>1, <2>3, <2>4
<1>10. ASSUME NEW h \in Handlers, Reply(h)
       PROVE  PresenceConservative' /\ SoleWriterKnows'
  <2>1. Idle.pc = "idle"
    BY DEF Idle
  <2>2. op' = [op EXCEPT ![h] = Idle] /\ UNCHANGED <<boot, maps, now>>
        /\ op[h].pc = "reply" /\ UNCHANGED mu
    BY <1>10 DEF Reply
  <2>3. \A g \in Handlers : op'[g].pc \in Locked => mu' = g
    BY <1>1, <1>2, <2>1, <2>2 DEF MutexHeld, Locked, Syscalls
  <2> QED
    BY <1>5, <1>7, <2>1, <2>2, <2>3
<1>11. ASSUME NEW x, op' = [op EXCEPT ![Main] = x], UNCHANGED <<mu, maps, now>>,
              x.pc \notin {"setWrite", "put", "syncRead", "syncWrite"},
              ~ Started
       PROVE  PresenceConservative' /\ SoleWriterKnows'
  <2>1. \A b \in Actors : op'[b] = IF b = Main THEN x ELSE op[b]
    BY <1>2, <1>11
  <2>2. UNCHANGED ruleVars
    BY <1>11 DEF maps, ruleVars
  <2>3. \A b \in Actors : PresenceConservative' /\ WriterKnows(b)'
    BY <1>1, <1>11, <2>1, <2>2, NoWrite
  <2>4. \A h \in Handlers : op'[h].pc = "idle"
    BY <1>1, <1>2, <1>3, <1>11, <2>1 DEF StartupAlone
  <2>5. MutexHeld' /\ StartupAlone'
    BY <2>4 DEF MutexHeld, StartupAlone, Locked, Syscalls
  <2> QED
    BY <1>2, <2>3, <2>5 DEF SoleWriterKnows
<1>12. CASE StartupBlock
  <2> DEFINE x == Enter(BlockIP(Startup[boot + 1]))
  <2>1. boot + 1 \in 1 .. Len(Startup) /\ ~ Started
    BY <1>1, <1>12, LimitAssumption DEF StartupBlock, ControlTypeOK, Started
  <2>2. x.pc \in {"return", "setRead", "del", "wipe", "ctKeys", "config"}
    BY <2>1, KnownCalls, EnterType
  <2> HIDE DEF x
  <2>3. op' = [op EXCEPT ![Main] = x] /\ UNCHANGED <<mu, maps, now>>
    BY <1>12 DEF StartupBlock, x
  <2> QED
    BY <1>11, <2>1, <2>2, <2>3
<1>13. CASE StartupNext
  BY <1>11, <1>13 DEF StartupNext, Started, Idle
<1> QED
  BY <1>4, <1>6, <1>8, <1>9, <1>10, <1>12, <1>13 DEF ControlNext

LEMMA PresenceNext == PresenceInv /\ [Next]_vars => PresenceInv'
<1> SUFFICES ASSUME PresenceInv, [Next]_vars PROVE PresenceInv'
  OBVIOUS
<1>1. TypeOK'
  BY NextType DEF PresenceInv
<1>2. CASE ControlNext
  BY <1>1, <1>2, ControlPresence DEF PresenceInv
<1>3. ASSUME UNCHANGED ruleVars, UNCHANGED controlVars
      PROVE  PresenceInv'
  <2>1. PresenceConservative'
    BY <1>3 DEF PresenceInv, PresenceConservative, Stored, ruleVars
  <2>2. SoleWriterKnows'
    BY <1>3 DEF PresenceInv, SoleWriterKnows, MutexHeld, StartupAlone, WriterKnows,
                Started, At, Table, Stored, ruleVars, controlVars
  <2> QED
    BY <1>1, <2>1, <2>2 DEF PresenceInv
<1>4. ASSUME NEW c \in Cpus, (\E f \in Frames : Receive(c, f)) \/ ProgramStep(c)
      PROVE  UNCHANGED ruleVars
  <2>1. UNCHANGED <<maps, now>> => UNCHANGED ruleVars
    BY DEF maps, ruleVars
  <2> QED
    BY <1>4, <2>1
       DEF ruleVars, ProgramStep, Receive, RawVerdict, ReadPresence, LookupSource,
           LookupDestination, ProbePort, Decide, EstablishedLookup, EstablishedState,
           CtLookup, CtTouch, CtUpdateState, CtEstablish, CtInsertNew, CountTotal,
           CountTotalBytes, CountVerdict, CountVerdictBytes
<1>5. CASE DatapathNext /\ UNCHANGED <<controlVars, reap>>
  BY <1>3, <1>4, <1>5 DEF DatapathNext
<1>6. CASE ReaperNext /\ UNCHANGED <<controlVars, xdp>>
  BY <1>3, <1>6 DEF ReaperNext, ReapStart, ReapScan, ReapDelete, ReapEnd, maps, ruleVars
<1>7. CASE Tick
  BY <1>3, <1>7 DEF Tick, maps, ruleVars
<1>8. CASE UNCHANGED vars
  BY <1>3, <1>8 DEF vars, maps, ruleVars
<1> QED
  BY <1>2, <1>5, <1>6, <1>7, <1>8 DEF Next, TimedNext

\* A table that holds a rule is advertised to the datapath, at every moment,
\* however handlers, main's list and failing map operations interleave.
THEOREM PresenceAlwaysConservative == Spec => []PresenceConservative
<1>1. PresenceInv => PresenceConservative
  BY DEF PresenceInv
<1> QED
  BY <1>1, PresenceInit, PresenceNext, PTL DEF Spec

\* What makes it so: one writer inside a call, whose reads are still true when
\* it writes.
THEOREM SoleWriter == Spec => []SoleWriterKnows
<1>1. PresenceInv => SoleWriterKnows
  BY DEF PresenceInv
<1> QED
  BY <1>1, PresenceInit, PresenceNext, PTL DEF Spec

(***************************************************************************)
(* Rules that stay while a packet is looked up.                            *)
(***************************************************************************)
\* No port was probed yet.
Unprobed == {"idle", "presence", "src", "dst"}

\* What the lookups of CPU c have to say, so far, of a rule that was stored all
\* the while.
Looked(c) ==
    /\ xdp[c].pc \in Unprobed => xdp[c].probe = 1
    /\ \A r \in live[c] :
        /\ Matched(rules[r[1]][r[2]])
        /\ xdp[c].pc \in {"src", "dst", "probe", "config"} => r[1] \in xdp[c].flags
        /\ r[1] = "IP" =>
            /\ AtX(c, "dst") => ~ Covers(r[2], Info(c).saddr)
            /\ xdp[c].pc \in {"probe", "config"} /\ CoversPacket("IP", r[2], c)
                 => Matched(xdp[c].ip)
        /\ r[1] = "PORT" => \A i \in Probes :
            (/\ AtX(c, "config") \/ (AtX(c, "probe") /\ i < xdp[c].probe)
             /\ r[2] = ProbeKey(i, Info(c)))
            => /\ Matched(xdp[c].port)
               /\ xdp[c].port.priority >= rules["PORT"][r[2]].priority

LookedInv == PresenceInv /\ \A c \in Cpus : Looked(c)

\* A lookup finds a rule that is stored and covers what is looked up.
LEMMA LpmFinds ==
    ASSUME MapsTypeOK, NEW k \in Keys("IP"), NEW addr,
           Matched(rules["IP"][k]), Covers(k, addr)
    PROVE  Matched(LpmLookup(rules["IP"], addr))
<1>1. DOMAIN rules["IP"] = Keys("IP")
  BY DEF MapsTypeOK, Tables
<1>2. k \in LpmHits(rules["IP"], addr)
  BY <1>1 DEF LpmHits
<1> QED
  BY <1>1, <1>2, LpmMatch DEF LpmHits

LEMMA HashFinds ==
    ASSUME MapsTypeOK, NEW k \in Keys("PORT")
    PROVE  HashLookup(rules["PORT"], k) = rules["PORT"][k]
BY DEF MapsTypeOK, Tables, HashLookup

\* What is said of a rule stays true while the packet's locals do.
LEMMA LookedStays ==
    ASSUME NEW c \in Cpus, TrackLive, xdp'[c] = xdp[c], Looked(c)
    PROVE  Looked(c)'
<1>1. live'[c] = IF xdp[c].pc \notin Undecided THEN {} ELSE Kept(live[c])
  <2>1. xdp[c].pc \in Undecided => xdp[c].pc # "idle"
    BY DEF Undecided
  <2> QED
    BY <2>1 DEF TrackLive
<1>2. \A r \in live'[c] : r \in live[c] /\ rules'[r[1]][r[2]] = rules[r[1]][r[2]]
  BY <1>1 DEF Kept
<1>3. Info(c)' = Info(c)
  BY DEF Info
<1>4. \A r \in live'[c] : r[1] = "PORT" => rules'["PORT"][r[2]] = rules["PORT"][r[2]]
  BY <1>2
<1>5. \A k : CoversPacket("IP", k, c)' = CoversPacket("IP", k, c)
  BY <1>3 DEF CoversPacket
<1> QED
  BY <1>2, <1>3, <1>4, <1>5 DEF Looked, AtX

\* The other steps leave the lookups, for the next packet with nothing probed.
LEMMA Decided ==
    ASSUME XdpTypeOK, NEW c \in Cpus, ProgramStep(c), ~ ReadPresence(c),
           ~ LookupSource(c), ~ LookupDestination(c), ~ ProbePort(c)
    PROVE  /\ xdp'[c].pc \notin Undecided
           /\ xdp'[c].pc \in Unprobed => xdp'[c].probe = 1
<1> USE DEF AtX, Undecided, Unprobed
<1>1. xdp \in [Cpus -> XdpRecord] /\ xdp[c] \in XdpRecord
  BY DEF XdpTypeOK
<1>2. ASSUME NEW v, NEW p, Settle(c, v, p)
      PROVE  xdp'[c].pc = p
  BY <1>1, <1>2 DEF Settle, NoPacket
<1>3. ASSUME NEW p, GotoX(c, p)
      PROVE  xdp'[c].pc = p
  BY <1>1, <1>3 DEF GotoX, XdpRecord
<1>4. CASE RawVerdict(c)
  BY <1>2, <1>4 DEF RawVerdict
<1>5. CASE Decide(c)
  <2>1. xdp'[c].pc \in {"ctLookup", "established", "total"}
    BY <1>2, <1>5 DEF Decide
  <2> QED
    BY <2>1
<1>6. CASE EstablishedLookup(c)
  <2>1. xdp'[c].pc \in {"total", "estState"}
    BY <1>1, <1>6 DEF EstablishedLookup, XdpRecord
  <2> QED
    BY <2>1
<1>7. CASE EstablishedState(c)
  BY <1>2, <1>7 DEF EstablishedState
<1>8. CASE CtLookup(c)
  <2>1. xdp'[c].pc \in {"ctInsert", "ctTouch"}
    BY <1>1, <1>8 DEF CtLookup, XdpRecord
  <2> QED
    BY <2>1
<1>9. CASE CtTouch(c)
  BY <1>1, <1>9 DEF CtTouch, XdpRecord
<1>10. CASE CtUpdateState(c)
  BY <1>2, <1>3, <1>10 DEF CtUpdateState
<1>11. CASE CtEstablish(c) \/ CtInsertNew(c)
  BY <1>2, <1>11 DEF CtEstablish, CtInsertNew
<1>12. CASE CountTotal(c) \/ CountTotalBytes(c) \/ CountVerdict(c)
  BY <1>2, <1>3, <1>12 DEF CountTotal, CountTotalBytes, CountVerdict
<1>13. CASE CountVerdictBytes(c)
  BY <1>1, <1>13 DEF CountVerdictBytes, NoPacket
<1> QED
  BY <1>4, <1>5, <1>6, <1>7, <1>8, <1>9, <1>10, <1>11, <1>12, <1>13 DEF ProgramStep

\* Each step of the lookup adds what it has looked up.
LEMMA LookedStep ==
    ASSUME TypeOK, TypeOK', PresenceConservative, NEW c \in Cpus, Looked(c), TrackLive,
           (\E f \in Frames : Receive(c, f)) \/ ProgramStep(c)
    PROVE  Looked(c)'
<1> USE DEF AtX
<1>1. xdp \in [Cpus -> XdpRecord] /\ xdp[c] \in XdpRecord /\ xdp'[c] \in XdpRecord
  BY DEF TypeOK, XdpTypeOK
<1>2. MapsTypeOK /\ \A r \in live[c] : r[1] \in Tables /\ r[2] \in Keys(r[1])
  BY DEF TypeOK
<1>3. ASSUME xdp'[c].pc \notin Undecided, xdp'[c].pc \in Unprobed => xdp'[c].probe = 1
      PROVE  Looked(c)'
  <2>1. live'[c] = {}
    BY <1>3 DEF TrackLive
  <2> QED
    BY <1>3, <2>1 DEF Looked
<1>4. ASSUME UNCHANGED maps, xdp'[c].pc \in Undecided, xdp[c].pc # "idle"
      PROVE  live'[c] = live[c] /\ UNCHANGED rules
  BY <1>4 DEF TrackLive, Kept, maps
<1>5. CASE \E f \in Frames : Receive(c, f)
  <2>1. PICK f \in Frames : Receive(c, f)
    BY <1>5
  <2>2. /\ xdp[c].pc = "idle" /\ xdp'[c].pc \in {"raw", "presence"}
        /\ xdp'[c].probe = xdp[c].probe
    <3>1. xdp'[c] = [xdp[c] EXCEPT !.frame = f,
                                   !.pc = IF HasIpHeader(f) THEN "presence" ELSE "raw"]
      BY ONLY <1>1, <2>1, c \in Cpus DEF Receive
    <3> QED
      BY ONLY <1>1, <2>1, <3>1 DEF XdpRecord, Receive, AtX
  <2>3. UNCHANGED rules
    BY <2>1 DEF Receive, maps
  <2>4. live'[c] \subseteq StoredRules
    BY <2>2 DEF TrackLive, Kept, Undecided
  <2>5. \A r \in live'[c] : Matched(rules'[r[1]][r[2]])
    BY <2>3, <2>4 DEF StoredRules, Stored
  <2> QED
    BY <2>2, <2>5 DEF Looked, Unprobed
<1>6. CASE ReadPresence(c)
  <2>1. /\ xdp[c].pc = "presence" /\ UNCHANGED maps
        /\ xdp'[c].flags = rule_presence /\ xdp'[c].probe = xdp[c].probe
        /\ xdp'[c].pc = IF "IP" \in rule_presence THEN "src" ELSE AfterIp(rule_presence)
    BY <1>1, <1>6 DEF ReadPresence, XdpRecord
  <2>2. AfterIp(rule_presence) = IF "PORT" \in rule_presence THEN "probe" ELSE "config"
    BY DEF AfterIp
  <2>3. live'[c] = live[c] /\ UNCHANGED rules
    BY <1>4, <2>1, <2>2 DEF Undecided
  <2>4. \A r \in live[c] : r[1] \in rule_presence /\ Matched(rules[r[1]][r[2]])
    BY <1>2 DEF Looked, PresenceConservative, Stored
  <2>5. xdp[c].probe = 1
    BY <2>1 DEF Looked, Unprobed
  <2>6. \A i \in Probes : ~ i < 1
    BY DEF Probes
  <2> QED
    BY <2>1, <2>2, <2>3, <2>4, <2>5, <2>6 DEF Looked
<1>7. CASE LookupSource(c)
  <2> DEFINE rule == LpmLookup(rules["IP"], Info(c).saddr)
  <2>1. /\ xdp[c].pc = "src" /\ UNCHANGED maps
        /\ xdp'[c].flags = xdp[c].flags /\ xdp'[c].probe = xdp[c].probe
        /\ xdp'[c].frame = xdp[c].frame /\ xdp'[c].ip = rule
        /\ xdp'[c].pc = IF Matched(rule) THEN AfterIp(xdp[c].flags) ELSE "dst"
    BY <1>1, <1>7 DEF LookupSource, XdpRecord
  <2>2. AfterIp(xdp[c].flags) = IF "PORT" \in xdp[c].flags THEN "probe" ELSE "config"
    BY DEF AfterIp
  <2>3. live'[c] = live[c] /\ UNCHANGED rules
    BY <1>4, <2>1, <2>2 DEF Undecided
  <2>4. \A r \in live[c] : r[1] \in xdp[c].flags /\ Matched(rules[r[1]][r[2]])
    BY <2>1 DEF Looked
  <2>5. \A r \in live[c] : r[1] = "IP" /\ Covers(r[2], Info(c).saddr) => Matched(rule)
    BY <1>2, <2>4, LpmFinds
  <2>6. Info(c)' = Info(c)
    BY <2>1 DEF Info
  <2>7. xdp[c].probe = 1
    BY <2>1 DEF Looked, Unprobed
  <2>8. \A i \in Probes : ~ i < 1
    BY DEF Probes
  <2> HIDE DEF rule
  <2> QED
    BY <2>1, <2>2, <2>3, <2>4, <2>5, <2>6, <2>7, <2>8 DEF Looked
<1>8. CASE LookupDestination(c)
  <2> DEFINE rule == LpmLookup(rules["IP"], Info(c).daddr)
  <2>1. /\ xdp[c].pc = "dst" /\ UNCHANGED maps
        /\ xdp'[c].flags = xdp[c].flags /\ xdp'[c].probe = xdp[c].probe
        /\ xdp'[c].frame = xdp[c].frame /\ xdp'[c].ip = rule
        /\ xdp'[c].pc = AfterIp(xdp[c].flags)
    BY <1>1, <1>8 DEF LookupDestination, XdpRecord
  <2>2. AfterIp(xdp[c].flags) = IF "PORT" \in xdp[c].flags THEN "probe" ELSE "config"
    BY DEF AfterIp
  <2>3. live'[c] = live[c] /\ UNCHANGED rules
    BY <1>4, <2>1, <2>2 DEF Undecided
  <2>4. \A r \in live[c] : r[1] \in xdp[c].flags /\ Matched(rules[r[1]][r[2]])
    BY <2>1 DEF Looked
  <2>5. \A r \in live[c] : r[1] = "IP" /\ CoversPacket("IP", r[2], c) => Matched(rule)
    <3>1. \A r \in live[c] : r[1] = "IP" => ~ Covers(r[2], Info(c).saddr)
      BY <2>1 DEF Looked
    <3> QED
      BY <1>2, <2>4, <3>1, LpmFinds DEF CoversPacket
  <2>6. Info(c)' = Info(c)
    BY <2>1 DEF Info
  <2>7. xdp[c].probe = 1
    BY <2>1 DEF Looked, Unprobed
  <2>8. \A i \in Probes : ~ i < 1
    BY DEF Probes
  <2>9. \A k : CoversPacket("IP", k, c)' = CoversPacket("IP", k, c)
    BY <2>6 DEF CoversPacket
  <2> HIDE DEF rule
  <2> QED
    BY <2>1, <2>2, <2>3, <2>4, <2>5, <2>6, <2>7, <2>8, <2>9 DEF Looked
<1>9. CASE ProbePort(c)
  <2> DEFINE n == xdp[c].probe
             elem == HashLookup(rules["PORT"], ProbeKey(n, Info(c)))
             best == TRY_LOOKUP(xdp[c].port, elem)
  <2>1. /\ xdp[c].pc = "probe" /\ UNCHANGED maps
        /\ xdp'[c].flags = xdp[c].flags /\ xdp'[c].probe = IF n = 4 THEN 1 ELSE n + 1
        /\ xdp'[c].frame = xdp[c].frame /\ xdp'[c].ip = xdp[c].ip /\ xdp'[c].port = best
        /\ xdp'[c].pc = IF n = 4 THEN "config" ELSE "probe"
    BY <1>1, <1>9 DEF ProbePort, XdpRecord
  <2>2. live'[c] = live[c] /\ UNCHANGED rules
    BY <1>4, <2>1 DEF Undecided
  <2>3. \A r \in live[c] : r[1] \in xdp[c].flags /\ Matched(rules[r[1]][r[2]])
    BY <2>1 DEF Looked
  <2>4. Info(c)' = Info(c)
    BY <2>1 DEF Info
  <2>5. \A k : CoversPacket("IP", k, c)' = CoversPacket("IP", k, c)
    BY <2>4 DEF CoversPacket
  <2>6. \A r \in live[c] : r[1] = "IP" /\ CoversPacket("IP", r[2], c) => Matched(xdp[c].ip)
    BY <2>1 DEF Looked
  <2>7. n \in 1 .. 4
    BY <1>1 DEF XdpRecord, Probes
  <2>8. /\ Matched(xdp[c].port) => xdp[c].port.priority \in Nat
        /\ Matched(elem) => elem.priority \in Nat
    BY <1>1, <1>2, LookupTypes, RuleFields DEF XdpRecord, Matched, Tables
  <2>9. ASSUME NEW r \in live[c], r[1] = "PORT", NEW i \in 1 .. n,
               r[2] = ProbeKey(i, Info(c))
        PROVE  Matched(best) /\ best.priority >= rules["PORT"][r[2]].priority
    <3>1. CASE i = n
      <4>1. r[2] \in Keys("PORT")
        BY <1>2, <2>9
      <4>2. elem = rules["PORT"][r[2]] /\ Matched(elem)
        BY <1>2, <2>3, <2>9, <3>1, <4>1, HashFinds
      <4> HIDE DEF elem
      <4> QED
        BY <2>8, <4>2 DEF TRY_LOOKUP
    <3>2. CASE i # n
      <4>1. i \in Probes /\ i < n
        BY <2>7, <3>2 DEF Probes
      <4>2. /\ Matched(xdp[c].port)
            /\ xdp[c].port.priority >= rules["PORT"][r[2]].priority
        BY <2>1, <2>9, <4>1 DEF Looked
      <4>3. rules["PORT"][r[2]].priority \in Nat
        <5>1. r[2] \in Keys("PORT") /\ Matched(rules["PORT"][r[2]])
          BY <1>2, <2>3, <2>9
        <5>2. rules["PORT"][r[2]] \in RuleValues("PORT")
          BY <1>2, <5>1 DEF MapsTypeOK, Tables, Matched
        <5> QED
          BY <5>2, RuleFields DEF Tables
      <4> HIDE DEF elem
      <4> QED
        BY <2>8, <4>2, <4>3 DEF TRY_LOOKUP
    <3> QED
      BY <3>1, <3>2
  <2> HIDE DEF best
  <2>10. /\ n = 4 => \A i \in Probes : i \in 1 .. n
         /\ n # 4 => \A i \in Probes : i < n + 1 => i \in 1 .. n
    BY <2>7 DEF Probes
  <2> HIDE DEF n
  <2>11. ~ (xdp'[c].pc \in Unprobed) /\ xdp'[c].pc # "dst"
    BY <2>1 DEF Unprobed
  <2>12. \A r \in live[c] : r[1] = "PORT" => \A i \in Probes :
            xdp'[c].pc = "config" \/ (xdp'[c].pc = "probe" /\ i < xdp'[c].probe)
                => (r[2] = ProbeKey(i, Info(c))
                        => Matched(best) /\ best.priority >= rules["PORT"][r[2]].priority)
    BY <2>1, <2>9, <2>10
  <2> QED
    BY <2>1, <2>2, <2>3, <2>4, <2>5, <2>6, <2>11, <2>12 DEF Looked
<1>10. CASE /\ ~ (\E f \in Frames : Receive(c, f)) /\ ~ ReadPresence(c)
            /\ ~ LookupSource(c) /\ ~ LookupDestination(c) /\ ~ ProbePort(c)
  <2>1. xdp'[c].pc \notin Undecided /\ (xdp'[c].pc \in Unprobed => xdp'[c].probe = 1)
    BY <1>10, Decided DEF TypeOK
  <2> QED
    BY <1>3, <2>1
<1> QED
  BY <1>5, <1>6, <1>7, <1>8, <1>9, <1>10

LEMMA LookedInit == Init => LookedInv
<1> SUFFICES ASSUME Init PROVE LookedInv
  OBVIOUS
<1>1. \A c \in Cpus : xdp[c].probe = 1 /\ live[c] = {}
  BY DEF Init, DatapathInit, NoPacket
<1> QED
  BY <1>1, PresenceInit DEF LookedInv, Looked

LEMMA LookedNext == LookedInv /\ [Next]_vars => LookedInv'
<1> SUFFICES ASSUME LookedInv, [Next]_vars PROVE LookedInv'
  OBVIOUS
<1>1. PresenceInv' /\ TypeOK /\ TypeOK' /\ PresenceConservative
  BY PresenceNext DEF LookedInv, PresenceInv
<1>2. \A c \in Cpus : Looked(c)
  BY DEF LookedInv
<1> SUFFICES ASSUME NEW d \in Cpus PROVE Looked(d)'
  BY <1>1 DEF LookedInv
<1>3. CASE UNCHANGED xdp /\ History
  BY <1>2, <1>3, LookedStays DEF History
<1>4. CASE DatapathNext /\ History
  <2>1. PICK c \in Cpus : (\E f \in Frames : Receive(c, f)) \/ ProgramStep(c)
    BY <1>4 DEF DatapathNext
  <2>2. CASE d = c
    BY <1>1, <1>2, <1>4, <2>1, <2>2, LookedStep DEF History
  <2>3. CASE d # c
    <3>1. xdp'[d] = xdp[d]
      BY <1>1, <2>1, <2>3, OwnLocals DEF TypeOK
    <3> QED
      BY <1>2, <1>4, <3>1, LookedStays DEF History
  <2> QED
    BY <2>2, <2>3
<1>5. CASE UNCHANGED vars
  BY <1>2, <1>5 DEF vars, maps, Looked, AtX, CoversPacket, Info
<1> QED
  BY <1>3, <1>4, <1>5 DEF Next, TimedNext, Tick

\* A rule that covers a packet, and was stored all the while the packet was
\* looked up, has been consulted when the decision is made: whatever else the
\* daemon stores, deletes and advertises between the lookups, and whatever the
\* other CPUs do.
THEOREM LiveRulesConsulted == Spec => []LiveRuleConsulted
<1>1. LookedInv => LiveRuleConsulted
  <2> SUFFICES ASSUME LookedInv, NEW c \in Cpus, AtX(c, "config"),
                      NEW r \in live[c], CoversPacket(r[1], r[2], c)
               PROVE  IF r[1] = "IP" THEN Matched(xdp[c].ip)
                      ELSE /\ Matched(xdp[c].port)
                           /\ xdp[c].port.priority >= rules["PORT"][r[2]].priority
    BY DEF LiveRuleConsulted
  <2>1. Looked(c) /\ TypeOK
    BY DEF LookedInv, PresenceInv
  <2>2. r[1] = "IP" \/ r[1] = "PORT"
    BY <2>1 DEF TypeOK, Tables
  <2>3. CASE r[1] = "IP"
    BY <2>1, <2>3 DEF Looked, AtX
  <2>4. CASE r[1] = "PORT"
    <3>1. PICK i \in Probes : r[2] = ProbeKey(i, Info(c))
      BY <2>4 DEF CoversPacket
    <3> QED
      BY <2>1, <2>4, <3>1 DEF Looked
  <2> QED
    BY <2>2, <2>3, <2>4
<1> QED
  BY <1>1, LookedInit, LookedNext, PTL DEF Spec

(***************************************************************************)
(* Exactness, when no map operation fails.                                 *)
(***************************************************************************)
\* Between the write that sets a flag and the rule it is set for, and between
\* the first deletion and the flag's update, a table may be advertised empty.
Tidying == {"put", "wipe", "has", "syncRead", "syncWrite"}
Tidies(a, t) == op[a].pc \in Tidying /\ Table(a) = t

FlagsExplained ==
    \A t \in rule_presence : Stored(t) # {} \/ \E a \in Actors : Tidies(a, t)

ExactInv == PresenceInv /\ FlagsExplained

LEMMA Explained ==
    ASSUME FlagsExplained, UNCHANGED ruleVars,
           \A b \in Actors : op'[b] = op[b] \/ op[b].pc \notin Tidying
    PROVE  FlagsExplained'
<1>1. \A t : \A a \in Actors : Tidies(a, t) => Tidies(a, t)'
  BY DEF Tidies, Table
<1>2. \A t : Stored(t)' = Stored(t)
  BY DEF Stored, ruleVars
<1> QED
  BY <1>1, <1>2 DEF FlagsExplained, ruleVars

\* A writer answers for the flag of its own table only.
LEMMA ExplainedOwn ==
    ASSUME FlagsExplained, NEW a \in Actors, NEW u,
           \A b \in Actors \ {a} : op'[b] = op[b],
           op[a].pc \in Tidying => Table(a) = u,
           \A t \in rule_presence' \ {u} : t \in rule_presence /\ Stored(t)' = Stored(t),
           u \in rule_presence' => Stored(u)' # {} \/ Tidies(a, u)'
    PROVE  FlagsExplained'
<1> SUFFICES ASSUME NEW t \in rule_presence'
             PROVE  Stored(t)' # {} \/ \E b \in Actors : Tidies(b, t)'
  BY DEF FlagsExplained
<1>1. CASE t = u
  BY <1>1
<1>2. CASE t # u
  <2>1. Stored(t) # {} \/ \E b \in Actors : Tidies(b, t)
    BY <1>2 DEF FlagsExplained
  <2>2. \A b \in Actors : Tidies(b, t) => b # a
    BY <1>2 DEF Tidies
  <2>3. \A b \in Actors \ {a} : Tidies(b, t) => Tidies(b, t)'
    BY DEF Tidies, Table
  <2> QED
    BY <1>2, <2>1, <2>2, <2>3
<1> QED
  BY <1>1, <1>2

LEMMA ExactStep ==
    ASSUME PresenceInv, FlagsExplained, ~ SyscallsFail, NEW a \in Actors, ManagerStep(a)
    PROVE  FlagsExplained'
<1> USE DEF At
<1>1. MapsTypeOK /\ ControlTypeOK /\ WriterKnows(a)
  BY DEF PresenceInv, TypeOK, SoleWriterKnows
<1>2. op \in [Actors -> Op] /\ op[a] \in Op
  BY <1>1 DEF ControlTypeOK
<1>3. \A b \in Actors \ {a} : op'[b] = op[b]
  BY <1>1, <1>2, ManagerMove
<1>0. PICK u : u = Table(a)
  OBVIOUS
<1>4. UNCHANGED <<maps, now>> => UNCHANGED ruleVars
  BY DEF maps, ruleVars
<1>5. ASSUME UNCHANGED ruleVars, op[a].pc \notin Tidying
      PROVE  FlagsExplained'
  BY <1>3, <1>5, Explained
<1>6. ASSUME UNCHANGED ruleVars, op'[a].call = op[a].call, op'[a].pc \in Tidying
      PROVE  FlagsExplained'
  <2>1. \A t : Stored(t)' = Stored(t)
    BY <1>6 DEF Stored, ruleVars
  <2>2. \A b \in Actors : \A t : Tidies(b, t) => Tidies(b, t)'
    BY <1>3, <1>6 DEF Tidies, Table
  <2> QED
    BY <1>6, <2>1, <2>2 DEF FlagsExplained, ruleVars
<1>7. ASSUME NEW k \in Keys(u), u \in Tables, UNCHANGED rule_presence,
             rules' = [rules EXCEPT ![u][k] = NoRule],
             op'[a].call = op[a].call, op'[a].pc \in Tidying
      PROVE  FlagsExplained'
  <2>1. \A t \in Tables \ {u} : Stored(t)' = Stored(t)
    BY <1>1, <1>7, RuleWrite DEF Stored
  <2>2. Tidies(a, u)'
    BY <1>0, <1>7 DEF Tidies, Table
  <2>3. rule_presence \subseteq Tables
    BY <1>1 DEF MapsTypeOK
  <2> QED
    BY <1>0, <1>3, <1>7, <2>1, <2>2, <2>3, ExplainedOwn
<1>8. CASE SetPresenceRead(a)
  BY <1>4, <1>5, <1>8 DEF SetPresenceRead, Tidying
<1>9. CASE SetPresenceWrite(a)
  <2>1. op[a].flags = rule_presence
    BY <1>1, <1>9 DEF SetPresenceWrite, WriterKnows
  <2>2. /\ rule_presence' = rule_presence \cup {u} /\ UNCHANGED rules
        /\ op[a].pc = "setWrite"
    BY <1>0, <1>9, <2>1 DEF SetPresenceWrite
  <2>3. op'[a].pc = "put" /\ op'[a].call = op[a].call
    BY <1>2, <1>9 DEF SetPresenceWrite, Op
  <2>4. Tidies(a, u)'
    BY <1>0, <2>3 DEF Tidies, Table, Tidying
  <2>5. \A t : Stored(t)' = Stored(t)
    BY <2>2 DEF Stored
  <2> QED
    BY <1>0, <1>3, <2>2, <2>4, <2>5, ExplainedOwn DEF Tidying
<1>10. CASE PutRule(a)
  <2>1. u \in Tables /\ Key(a) \in Keys(u) /\ op[a].call.val \in RuleValues(u)
    BY <1>0, <1>1, <1>10, CallAt DEF PutRule, Syscalls
  <2>2. UNCHANGED rule_presence
    BY <1>10 DEF PutRule
  <2>3. CASE IsFull(u) /\ UNCHANGED rules
    <3>1. Stored(u) # {}
      BY <2>3, FS_EmptySet, LimitAssumption DEF IsFull
    <3>2. \A t : Stored(t)' = Stored(t)
      BY <2>3 DEF Stored
    <3> QED
      BY <1>0, <1>3, <2>2, <3>1, <3>2, ExplainedOwn
  <2>4. CASE rules' = [rules EXCEPT ![u][Key(a)] = op[a].call.val]
    <3>1. \A t \in Tables \ {u} : Stored(t)' = Stored(t)
      BY <1>1, <2>1, <2>4, RuleWrite DEF Stored
    <3>2. rules'[u][Key(a)] = op[a].call.val
      BY <1>1, <2>1, <2>4, RuleWrite
    <3>3. op[a].call.val # NoRule
      BY <2>1, RuleAssumption
    <3>4. Stored(u)' # {}
      BY <2>1, <3>2, <3>3 DEF Stored, Matched
    <3>5. rule_presence \subseteq Tables
      BY <1>1 DEF MapsTypeOK
    <3> QED
      BY <1>0, <1>3, <2>2, <3>1, <3>4, <3>5, ExplainedOwn
  <2> QED
    BY <1>0, <1>10, <2>3, <2>4 DEF PutRule
<1>11. CASE DeleteRule(a)
  <2>1. u \in Tables /\ Key(a) \in Keys(u)
    BY <1>0, <1>1, <1>11, CallAt DEF DeleteRule, Syscalls
  <2>2. Goto(a, "has") => op'[a].call = op[a].call /\ op'[a].pc = "has"
    BY <1>2 DEF Goto, Op
  <2> QED
    BY <1>0, <1>5, <1>7, <1>11, <2>1, <2>2 DEF DeleteRule, Tidying, ruleVars
<1>12. CASE WipeRule(a)
  <2>1. u \in Tables /\ Stored(u) \subseteq Keys(u)
    BY <1>0, <1>1, <1>12, CallAt DEF WipeRule, Syscalls, Stored
  <2>2. Goto(a, "has") => op'[a].call = op[a].call /\ op'[a].pc = "has"
    BY <1>2 DEF Goto, Op
  <2>3. UNCHANGED op => op'[a].call = op[a].call /\ op'[a].pc = "wipe"
    BY <1>12 DEF WipeRule
  <2> QED
    BY <1>0, <1>6, <1>7, <1>12, <2>1, <2>2, <2>3 DEF WipeRule, Tidying, ruleVars
<1>13. CASE MapHasEntries(a)
  <2>1. op'[a].pc = "syncRead" /\ op'[a].call = op[a].call
    BY <1>2, <1>13 DEF MapHasEntries, Op
  <2> QED
    BY <1>4, <1>6, <1>13, <2>1 DEF MapHasEntries, Tidying
<1>14. CASE SyncPresenceRead(a)
  <2>1. op'[a].pc = "syncWrite" /\ op'[a].call = op[a].call
    BY <1>2, <1>14 DEF SyncPresenceRead, Op
  <2> QED
    BY <1>4, <1>6, <1>14, <2>1 DEF SyncPresenceRead, Tidying
<1>15. CASE SyncPresenceWrite(a)
  <2>1. op[a].flags = rule_presence /\ op[a].has = (Stored(u) # {})
    BY <1>0, <1>1, <1>15 DEF SyncPresenceWrite, WriterKnows
  <2>2. /\ UNCHANGED rules
        /\ rule_presence' = IF Stored(u) # {} THEN rule_presence \cup {u}
                                               ELSE rule_presence \ {u}
    BY <1>0, <1>15, <2>1 DEF SyncPresenceWrite
  <2>3. \A t : Stored(t)' = Stored(t)
    BY <2>2 DEF Stored
  <2> QED
    BY <1>0, <1>3, <2>2, <2>3, ExplainedOwn
<1>16. CASE SetDefaultPolicy(a)
  BY <1>5, <1>16 DEF SetDefaultPolicy, Tidying
<1>17. CASE ConntrackKeys(a)
  BY <1>4, <1>5, <1>17 DEF ConntrackKeys, Tidying
<1>18. CASE ConntrackDelete(a)
  BY <1>5, <1>18 DEF ConntrackDelete, Tidying
<1>19. CASE SyscallError(a)
  BY <1>19 DEF SyscallError
<1> QED
  BY <1>8, <1>9, <1>10, <1>11, <1>12, <1>13, <1>14, <1>15, <1>16, <1>17, <1>18, <1>19
     DEF ManagerStep

LEMMA ExactInit == Init => ExactInv
<1> SUFFICES ASSUME Init PROVE ExactInv
  OBVIOUS
<1>1. rule_presence = {}
  BY DEF Init, MapsInit
<1> QED
  BY <1>1, PresenceInit DEF ExactInv, FlagsExplained

LEMMA ExactNext ==
    ASSUME ~ SyscallsFail
    PROVE  ExactInv /\ [Next]_vars => ExactInv'
<1> SUFFICES ASSUME ExactInv, [Next]_vars PROVE ExactInv'
  OBVIOUS
<1> USE DEF At
<1>1. PresenceInv' /\ PresenceInv /\ FlagsExplained
  BY PresenceNext DEF ExactInv
<1> SUFFICES FlagsExplained'
  BY <1>1 DEF ExactInv
<1>2. op \in [Actors -> Op] /\ Main \in Actors /\ Handlers \subseteq Actors
  BY <1>1 DEF PresenceInv, TypeOK, ControlTypeOK, Actors
<1>3. UNCHANGED <<maps, now>> => UNCHANGED ruleVars
  BY DEF maps, ruleVars
<1>4. UNCHANGED <<ruleVars, op>> => FlagsExplained'
  BY <1>1, Explained
<1>5. ASSUME NEW a \in Actors, NEW x, op' = [op EXCEPT ![a] = x],
             op[a].pc \notin Tidying, UNCHANGED ruleVars
      PROVE  FlagsExplained'
  <2>1. \A b \in Actors \ {a} : op'[b] = op[b]
    BY <1>2, <1>5
  <2> QED
    BY <1>1, <1>5, <2>1, Explained
<1>6. ASSUME NEW h \in Handlers,
             (\E req \in Requests : Accept(h, req)) \/ Lock(h) \/ Unlock(h) \/ Reply(h)
      PROVE  FlagsExplained'
  <2>1. op[h].pc \in {"idle", "lock", "return", "reply"} /\ UNCHANGED <<maps, now>>
    BY <1>6 DEF Accept, Lock, Unlock, Reply
  <2>2. \E x : op' = [op EXCEPT ![h] = x]
    BY <1>6 DEF Accept, Lock, Unlock, Reply, Goto
  <2> QED
    BY <1>2, <1>3, <1>5, <2>1, <2>2 DEF Tidying
<1>7. CASE StartupBlock \/ StartupNext
  <2>1. op[Main].pc \in {"idle", "return"} /\ UNCHANGED <<maps, now>>
    BY <1>7 DEF StartupBlock, StartupNext
  <2>2. \E x : op' = [op EXCEPT ![Main] = x]
    BY <1>7 DEF StartupBlock, StartupNext
  <2> QED
    BY <1>2, <1>3, <1>5, <2>1, <2>2 DEF Tidying
<1>8. CASE ControlNext
  BY <1>1, <1>6, <1>7, <1>8, ExactStep DEF ControlNext
<1>9. ASSUME NEW c \in Cpus, (\E f \in Frames : Receive(c, f)) \/ ProgramStep(c)
      PROVE  UNCHANGED ruleVars
  BY <1>3, <1>9
     DEF ruleVars, ProgramStep, Receive, RawVerdict, ReadPresence, LookupSource,
         LookupDestination, ProbePort, Decide, EstablishedLookup, EstablishedState,
         CtLookup, CtTouch, CtUpdateState, CtEstablish, CtInsertNew, CountTotal,
         CountTotalBytes, CountVerdict, CountVerdictBytes
<1>10. CASE DatapathNext /\ UNCHANGED <<controlVars, reap>>
  BY <1>4, <1>9, <1>10 DEF DatapathNext, controlVars
<1>11. CASE ReaperNext /\ UNCHANGED <<controlVars, xdp>>
  BY <1>4, <1>11
     DEF ReaperNext, ReapStart, ReapScan, ReapDelete, ReapEnd, maps, ruleVars, controlVars
<1>12. CASE Tick
  BY <1>4, <1>12 DEF Tick, maps, ruleVars, controlVars
<1>13. CASE UNCHANGED vars
  BY <1>4, <1>13 DEF vars, maps, ruleVars, controlVars
<1> QED
  BY <1>8, <1>10, <1>11, <1>12, <1>13 DEF Next, TimedNext

\* When no map operation fails, whenever no call is in progress the flags are
\* exact: syncPresence leaves no emptied table advertised, and no refused put
\* leaves the flag of an empty one.
THEOREM FlagsExact ==
    ASSUME ~ SyscallsFail
    PROVE  Spec => []PresenceExact
<1>1. ExactInv => PresenceExact
  <2> SUFFICES ASSUME ExactInv, Quiet
               PROVE  rule_presence = {t \in Tables : Stored(t) # {}}
    BY DEF PresenceExact
  <2>1. MutexHeld /\ PresenceConservative /\ FlagsExplained /\ rule_presence \subseteq Tables
    BY DEF ExactInv, PresenceInv, SoleWriterKnows, TypeOK, MapsTypeOK
  <2>2. \A h \in Handlers : op[h].pc \notin Locked
    BY <2>1, ActorAssumption DEF MutexHeld, Quiet
  <2>3. \A a \in Actors : op[a].pc \notin Tidying
    BY <2>2 DEF Quiet, Started, At, Actors, Tidying, Locked, Syscalls
  <2>4. \A t \in rule_presence : Stored(t) # {}
    BY <2>1, <2>3 DEF FlagsExplained, Tidies
  <2> QED
    BY <2>1, <2>4 DEF PresenceConservative
<1>2. ExactInv /\ [Next]_vars => ExactInv'
  BY ExactNext
<1> QED
  BY <1>1, <1>2, ExactInit, PTL DEF Spec
===============================================================================
