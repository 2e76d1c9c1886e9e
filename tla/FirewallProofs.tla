---------------------------- MODULE FirewallProofs ----------------------------
(***************************************************************************)
(* Proofs about Firewall, for any number of handlers, CPUs, rules, flows   *)
(* and frames.                                                             *)
(***************************************************************************)
EXTENDS Firewall, TLAPS, WellFoundedInduction

(***************************************************************************)
(* Least and greatest elements, which make the CHOOSEs of the maps defined.*)
(***************************************************************************)
\* A non-empty set of naturals has a least element (NextKey's bucket order).
LEMMA NatMin ==
    ASSUME NEW T, T \subseteq Nat, T # {}
    PROVE  \E x \in T : \A y \in T : x <= y
<1>1. IsWellFoundedOn(OpToRel(<, Nat), Nat)
  BY NatLessThanWellFounded
<1>2. PICK x \in T : \A y \in T : ~ (<<y, x>> \in OpToRel(<, Nat))
  BY <1>1, WFMin
<1>3. \A y \in T : ~ (y < x)
  BY <1>2 DEF OpToRel
<1> QED
  BY <1>3

\* NextKey yields an entry of the table.
LEMMA NextKeyTracked ==
    ASSUME NEW it, Ahead(it) # {}
    PROVE  NextKey(it) \in Tracked
<1> DEFINE T == {Bucket[f] : f \in Ahead(it)}
<1>1. Ahead(it) \subseteq Tracked /\ Tracked \subseteq Flows
  BY DEF Ahead, Tracked
<1>2. T \subseteq Nat /\ T # {}
  BY <1>1, BucketAssumption
<1>3. \E x \in T : \A y \in T : x <= y
  BY <1>2, NatMin
<1>4. \E f \in Ahead(it) : \A g \in Ahead(it) : Bucket[f] <= Bucket[g]
  BY <1>3
<1> QED
  BY <1>4, <1>1 DEF NextKey

\* The iterator stays within its type as it advances.
LEMMA IterType ==
    /\ NoIter \in Iter
    /\ \A it \in Iter : IterHasNext(it) => NextKey(it) \in Tracked /\ Advance(it) \in Iter
<1>1. NoIter \in Iter
  BY LimitAssumption DEF NoIter, Iter
<1>2. ASSUME NEW it \in Iter, IterHasNext(it)
      PROVE  NextKey(it) \in Tracked /\ Advance(it) \in Iter
  <2>1. NextKey(it) \in Tracked
    BY <1>2, NextKeyTracked DEF IterHasNext
  <2>2. NextKey(it) \in Flows
    BY <2>1 DEF Tracked
  <2>3. it.count + 1 \in 0 .. MaxFlows + 1
    BY <1>2, LimitAssumption DEF IterHasNext, IterAborted, Iter
  <2> QED
    BY <2>1, <2>2, <2>3 DEF Advance, Iter
<1> QED
  BY <1>1, <1>2

(***************************************************************************)
(* Types of the control plane.                                             *)
(***************************************************************************)
LEMMA IdleType == Idle \in Op
<1>1. <<>> \in Seq(Flows)
  OBVIOUS
<1> QED
  BY <1>1, IterType DEF Idle, Op, Steps, NoCall

LEMMA EnterType ==
    ASSUME NEW call \in Calls \cup {NoCall}
    PROVE  /\ Enter(call) \in Op
           /\ Enter(call).call = call
           /\ Enter(call).pc \in Locked
           /\ Enter(call).pc \in Syscalls => Enter(call).pc \in StepsOf(call)
           /\ Enter(call).pc \in {"return", "setRead", "del", "wipe", "ctKeys", "config"}
           /\ Enter(call).flags = {}
<1> DEFINE p == FirstStep(call)
<1>1. /\ p \in {"return", "setRead", "del", "wipe", "ctKeys", "config"}
      /\ p \in Syscalls => p \in StepsOf(call)
  BY DEF FirstStep, Syscalls, StepsOf
<1>2. /\ Enter(call).pc = p
      /\ Enter(call).call = call
      /\ Enter(call).flags = {}
  BY DEF Enter, Idle
<1>3. Enter(call) \in Op
  BY <1>1, IdleType DEF Enter, Op, Steps, Locked, Syscalls
<1> QED
  BY <1>1, <1>2, <1>3 DEF Locked, Syscalls

LEMMA OutcomeType ==
    ASSUME NEW call \in Calls \cup {NoCall}, NEW ok \in BOOLEAN
    PROVE  /\ Outcome(call, ok) \in Op
           /\ Outcome(call, ok).pc = "return"
           /\ Outcome(call, ok).call = call
BY IdleType DEF Outcome, Op, Steps, Locked, Idle

LEMMA KnownCalls ==
    /\ ClearPorts \in Calls
    /\ ClearConntrack \in Calls
    /\ \A r \in Requests : handle(r) \in Calls
    /\ \A i \in 1 .. Len(Startup) : BlockIP(Startup[i]) \in Calls
BY DEF Calls

\* What a manager's error or success does to its actor.
LEMMA FailStep ==
    ASSUME ControlTypeOK, NEW a \in Actors, Fail(a)
    PROVE  /\ op' = [op EXCEPT ![a] = op'[a]]
           /\ op'[a] \in Op
           /\ op'[a].pc = "return"
<1>1. op[a] \in Op /\ op[a].call \in Calls \cup {NoCall}
  BY DEF ControlTypeOK, Op
<1>2. op'[a] = Outcome(op[a].call, FALSE)
  BY DEF Fail, ControlTypeOK
<1> QED
  BY <1>1, <1>2, OutcomeType DEF Fail, ControlTypeOK

LEMMA SucceedStep ==
    ASSUME ControlTypeOK, NEW a \in Actors, Succeed(a)
    PROVE  /\ op' = [op EXCEPT ![a] = op'[a]]
           /\ op'[a] \in Op
           /\ op'[a].pc \in Locked
           /\ op'[a].pc \in Syscalls => op'[a].pc \in StepsOf(op'[a].call)
           /\ op'[a].pc \in {"return", "wipe", "ctKeys"}
<1>1. op[a] \in Op /\ op[a].call \in Calls \cup {NoCall}
  BY DEF ControlTypeOK, Op
<1>2. op'[a] = IF op[a].call = ClearIP THEN Enter(ClearPorts)
               ELSE IF op[a].call = ClearPorts THEN Enter(ClearConntrack)
               ELSE Outcome(op[a].call, TRUE)
  BY DEF Succeed, ControlTypeOK
<1>3. op' = [op EXCEPT ![a] = op'[a]]
  BY DEF Succeed, ControlTypeOK
<1>4. /\ FirstStep(ClearPorts) = "wipe"
      /\ FirstStep(ClearConntrack) = "ctKeys"
  BY DEF FirstStep, ClearPorts, ClearConntrack
<1>5. Enter(ClearPorts).pc = "wipe" /\ Enter(ClearConntrack).pc = "ctKeys"
  BY <1>4 DEF Enter, Idle
<1>6. "return" \notin Syscalls /\ "return" \in Locked
  BY DEF Locked, Syscalls
<1>7. CASE op[a].call = ClearIP
  BY <1>2, <1>3, <1>5, <1>6, <1>7, EnterType, KnownCalls
<1>8. CASE op[a].call # ClearIP /\ op[a].call = ClearPorts
  BY <1>2, <1>3, <1>5, <1>6, <1>8, EnterType, KnownCalls
<1>9. CASE op[a].call # ClearIP /\ op[a].call # ClearPorts
  <2>1. op'[a] = Outcome(op[a].call, TRUE)
    BY <1>2, <1>9
  <2> QED
    BY <1>1, <2>1, <1>3, <1>6, OutcomeType
<1> QED
  BY <1>7, <1>8, <1>9

\* A call that touches a table names one, and its key is one of that table's.
LEMMA CallFields ==
    ASSUME NEW call \in Calls
    PROVE  /\ call.kind \in {"put", "del", "clear"} => call.table \in Tables
           /\ call.kind = "setdefault" => call.policy \in {"ALLOW", "DENY"}
           /\ call.kind \in {"put", "del"} => call.key \in Keys(call.table)
           /\ call.kind = "put" => call.val \in RuleValues(call.table)
<1> DEFINE Good(c) == /\ c.kind \in {"put", "del", "clear"} => c.table \in Tables
                      /\ c.kind = "setdefault" => c.policy \in {"ALLOW", "DENY"}
<1>1. ASSUME NEW r PROVE Good(Block(r)) /\ Good(Unblock(r))
  BY DEF Block, Unblock, Refused, Tables
<1>2. ASSUME NEW r PROVE Good(SetDefault(r))
  BY DEF SetDefault, Refused, ParseDefaultPolicy
<1>3. Good(ClearIP) /\ Good(ClearPorts) /\ Good(ClearConntrack) /\ Good(Refused)
      /\ Good([kind |-> "read"])
  BY DEF ClearIP, ClearPorts, ClearConntrack, Refused, Tables
<1>4. ASSUME NEW r PROVE Good(handle(r))
  <2>1. \/ handle(r) \in {Block(r), Unblock(r), SetDefault(r), ClearIP, Refused}
        \/ handle(r) = [kind |-> "read"]
    BY DEF handle
  <2> QED
    BY <2>1, <1>1, <1>2, <1>3
<1>5. ASSUME NEW v PROVE Good(BlockIP(v))
  BY <1>1 DEF BlockIP
<1>6. Good(call)
  BY <1>3, <1>4, <1>5 DEF Calls
<1>7. call.kind = "put" => call \in Puts(call.table)
  BY DEF Puts
<1>8. call.kind = "del" => call \in Dels(call.table)
  BY DEF Dels
<1> QED
  BY <1>6, <1>7, <1>8 DEF Keys, KeysOf, RuleValues

\* What a table stores is an action and a priority.
LEMMA RuleFields ==
    ASSUME NEW t \in Tables, NEW v \in RuleValues(t)
    PROVE  v.action \in {"PASS", "DROP"} /\ v.priority \in Nat
<1> DEFINE Good(c) == c.kind = "put" => /\ c.val.action \in {"PASS", "DROP"}
                                        /\ c.val.priority \in Nat
<1>1. ASSUME NEW r, r.priority \in Nat PROVE Good(Block(r))
  BY <1>1 DEF Block, Refused, RequestedRule, ParseAction
<1>2. ASSUME NEW r \in Requests PROVE Good(handle(r))
  <2>1. handle(r) = Block(r) \/ handle(r).kind # "put"
    BY DEF handle, Unblock, SetDefault, ClearIP, Refused
  <2> QED
    BY <1>1, <2>1, RequestAssumption
<1>3. ASSUME NEW w PROVE Good(BlockIP(w))
  BY <1>1 DEF BlockIP
<1>4. ClearPorts.kind # "put" /\ ClearConntrack.kind # "put"
  BY DEF ClearPorts, ClearConntrack
<1>5. PICK c \in Calls : c.kind = "put" /\ v = c.val
  BY DEF RuleValues, Puts
<1> QED
  BY <1>2, <1>3, <1>4, <1>5 DEF Calls

\* The call of an actor at a manager's step.
LEMMA CallAt ==
    ASSUME ControlTypeOK, NEW a \in Actors, op[a].pc \in Syscalls
    PROVE  /\ op[a].call \in Calls
           /\ op[a].pc \in {"setRead", "setWrite", "put", "del", "wipe", "has",
                            "syncRead", "syncWrite"} => Table(a) \in Tables
           /\ op[a].pc \in {"put", "del"} => Key(a) \in Keys(Table(a))
           /\ op[a].pc = "put" => op[a].call.val \in RuleValues(Table(a))
           /\ op[a].pc = "config" => op[a].call.policy \in {"ALLOW", "DENY"}
<1>1. op[a] \in Op /\ op[a].pc \in StepsOf(op[a].call)
  BY DEF ControlTypeOK
<1>2. NoCall.kind = "refused"
  BY DEF NoCall, Refused
<1>3. op[a].call.kind # "refused"
  BY <1>1 DEF StepsOf
<1>4. op[a].call \in Calls
  BY <1>1, <1>2, <1>3 DEF Op
<1>5. /\ op[a].pc \in {"setRead", "setWrite", "put"} => op[a].call.kind = "put"
      /\ op[a].pc = "del" => op[a].call.kind = "del"
      /\ op[a].pc \in {"wipe", "has", "syncRead", "syncWrite"}
            => op[a].call.kind \in {"del", "clear"}
      /\ op[a].pc = "config" => op[a].call.kind = "setdefault"
  BY <1>1 DEF StepsOf
<1> QED
  BY <1>4, <1>5, CallFields DEF Table, Key

\* An action that replaces one actor's call by a well-typed one.
LEMMA OneOp ==
    ASSUME ControlTypeOK, NEW a \in Actors, NEW x \in Op,
           op' = [op EXCEPT ![a] = x],
           x.pc \in Syscalls => x.pc \in StepsOf(x.call),
           mu' \in Handlers \cup {Free}, boot' \in 0 .. Len(Startup)
    PROVE  ControlTypeOK'
<1>1. op' \in [Actors -> Op]
  BY DEF ControlTypeOK
<1>2. \A b \in Actors : op'[b] = IF b = a THEN x ELSE op[b]
  BY DEF ControlTypeOK
<1> QED
  BY <1>1, <1>2 DEF ControlTypeOK

\* A write to one rule, and a write to no rule.
LEMMA RuleWrite ==
    ASSUME MapsTypeOK, NEW t \in Tables, NEW k \in Keys(t),
           NEW v \in RuleValues(t) \cup {NoRule},
           rules' = [rules EXCEPT ![t][k] = v]
    PROVE  /\ rules' = [s \in Tables |-> rules'[s]]
           /\ \A s \in Tables : rules'[s] \in [Keys(s) -> RuleValues(s) \cup {NoRule}]
           /\ \A s \in Tables : \A j \in Keys(s) :
                rules'[s][j] = IF s = t /\ j = k THEN v ELSE rules[s][j]
<1>1. rules = [s \in Tables |-> rules[s]]
  BY DEF MapsTypeOK
<1>2. rules' = [s \in Tables |-> IF s = t THEN [rules[t] EXCEPT ![k] = v] ELSE rules[s]]
  BY <1>1
<1>3. \A s \in Tables : rules'[s] = IF s = t THEN [rules[t] EXCEPT ![k] = v] ELSE rules[s]
  BY <1>2
<1>4. \A s \in Tables : rules[s] \in [Keys(s) -> RuleValues(s) \cup {NoRule}]
  BY DEF MapsTypeOK
<1>5. [rules[t] EXCEPT ![k] = v] \in [Keys(t) -> RuleValues(t) \cup {NoRule}]
  BY <1>4
<1> QED
  BY <1>2, <1>3, <1>4, <1>5

\* Every step of a manager keeps the types of the maps and of the calls.
LEMMA ManagerType ==
    ASSUME MapsTypeOK, ControlTypeOK, NEW a \in Actors, ManagerStep(a)
    PROVE  MapsTypeOK' /\ ControlTypeOK'
<1> USE DEF At
<1>1. op \in [Actors -> Op] /\ op[a] \in Op
  BY DEF ControlTypeOK
<1>2. ASSUME UNCHANGED <<mu, boot>>,
             NEW x \in Op, op' = [op EXCEPT ![a] = x],
             x.pc \in Syscalls => x.pc \in StepsOf(x.call)
      PROVE  ControlTypeOK'
  BY <1>2, OneOp DEF ControlTypeOK
<1>3. ASSUME UNCHANGED <<mu, boot>>, Fail(a)
      PROVE  ControlTypeOK'
  <2>1. op'[a].pc \notin Syscalls
    BY <1>3, FailStep DEF Syscalls
  <2> QED
    BY <1>2, <1>3, <2>1, FailStep
<1>4. ASSUME UNCHANGED <<mu, boot>>, Succeed(a)
      PROVE  ControlTypeOK'
  BY <1>2, <1>4, SucceedStep
<1>5. ASSUME UNCHANGED <<rule_presence, firewall_config, ctVars, counters, now>>,
             rules' = [t \in Tables |-> rules'[t]],
             \A t \in Tables : rules'[t] \in [Keys(t) -> RuleValues(t) \cup {NoRule}]
      PROVE  MapsTypeOK'
  BY <1>5 DEF MapsTypeOK, ctVars
<1>6. ASSUME UNCHANGED <<maps, now>>
      PROVE  MapsTypeOK'
  BY <1>6 DEF MapsTypeOK, maps
<1>7. op[a].pc \in Syscalls => op[a].pc \in StepsOf(op[a].call)
  BY DEF ControlTypeOK
<1>8. CASE SetPresenceRead(a)
  <2> DEFINE x == [op[a] EXCEPT !.pc = "setWrite", !.flags = rule_presence]
  <2>1. op' = [op EXCEPT ![a] = x]
    BY <1>1, <1>8 DEF SetPresenceRead
  <2>2. x \in Op
    BY <1>1 DEF Op, Steps, Locked, Syscalls, MapsTypeOK
  <2>3. x.pc \in StepsOf(x.call)
    BY <1>1, <1>7, <1>8 DEF SetPresenceRead, Syscalls, StepsOf, Op
  <2> QED
    BY <1>2, <1>6, <1>8, <2>1, <2>2, <2>3 DEF SetPresenceRead
<1>9. CASE SetPresenceWrite(a)
  <2> DEFINE x == [op[a] EXCEPT !.pc = "put", !.flags = {}]
  <2>1. op' = [op EXCEPT ![a] = x]
    BY <1>1, <1>9 DEF SetPresenceWrite
  <2>2. x \in Op
    BY <1>1 DEF Op, Steps, Locked, Syscalls
  <2>3. x.pc \in StepsOf(x.call)
    BY <1>1, <1>7, <1>9 DEF SetPresenceWrite, Syscalls, StepsOf, Op
  <2>4. ControlTypeOK'
    BY <1>2, <1>9, <2>1, <2>2, <2>3 DEF SetPresenceWrite
  <2>5. Table(a) \in Tables
    BY <1>9, CallAt DEF SetPresenceWrite, Syscalls
  <2>6. rule_presence' \in SUBSET Tables
    BY <1>1, <1>9, <2>5 DEF SetPresenceWrite, Op
  <2>7. MapsTypeOK'
    BY <1>9, <2>6 DEF SetPresenceWrite, MapsTypeOK, ctVars
  <2> QED
    BY <2>4, <2>7
<1>10. CASE PutRule(a)
  <2>1. /\ Table(a) \in Tables
        /\ Key(a) \in Keys(Table(a))
        /\ op[a].call.val \in RuleValues(Table(a))
    BY <1>10, CallAt DEF PutRule, Syscalls
  <2>2. CASE IsFull(Table(a)) /\ Key(a) \notin Stored(Table(a))
    <3>1. MapsTypeOK'
      BY <1>10, <2>2 DEF PutRule, MapsTypeOK, ctVars
    <3> QED
      BY <1>3, <1>10, <2>2, <3>1 DEF PutRule
  <2>3. CASE ~ (IsFull(Table(a)) /\ Key(a) \notin Stored(Table(a)))
    <3>1. rules' = [rules EXCEPT ![Table(a)][Key(a)] = op[a].call.val]
      BY <1>10, <2>3 DEF PutRule
    <3>2. MapsTypeOK'
      BY <1>5, <1>10, <2>1, <3>1, RuleWrite DEF PutRule
    <3> QED
      BY <1>4, <1>10, <2>3, <3>2 DEF PutRule
  <2> QED
    BY <2>2, <2>3
<1>11. CASE DeleteRule(a)
  <2>1. Table(a) \in Tables /\ Key(a) \in Keys(Table(a))
    BY <1>11, CallAt DEF DeleteRule, Syscalls
  <2>2. CASE Key(a) \in Stored(Table(a))
    <3> DEFINE x == [op[a] EXCEPT !.pc = "has"]
    <3>1. op' = [op EXCEPT ![a] = x]
      BY <1>1, <1>11, <2>2 DEF DeleteRule, Goto
    <3>2. x \in Op /\ x.pc \in StepsOf(x.call)
      BY <1>1, <1>7, <1>11 DEF DeleteRule, Op, Steps, Locked, Syscalls, StepsOf
    <3>3. ControlTypeOK'
      BY <1>2, <1>11, <3>1, <3>2 DEF DeleteRule
    <3>4. rules' = [rules EXCEPT ![Table(a)][Key(a)] = NoRule]
      BY <1>11, <2>2 DEF DeleteRule
    <3>5. MapsTypeOK'
      BY <1>5, <1>11, <2>1, <3>4, RuleWrite DEF DeleteRule
    <3> QED
      BY <3>3, <3>5
  <2>3. CASE Key(a) \notin Stored(Table(a))
    <3>1. MapsTypeOK'
      BY <1>11, <2>3 DEF DeleteRule, MapsTypeOK, ctVars
    <3> QED
      BY <1>3, <1>11, <2>3, <3>1 DEF DeleteRule
  <2> QED
    BY <2>2, <2>3
<1>12. CASE WipeRule(a)
  <2>1. Table(a) \in Tables
    BY <1>12, CallAt DEF WipeRule, Syscalls
  <2>2. CASE Stored(Table(a)) = {}
    <3> DEFINE x == [op[a] EXCEPT !.pc = "has"]
    <3>1. op' = [op EXCEPT ![a] = x]
      BY <1>1, <1>12, <2>2 DEF WipeRule, Goto
    <3>2. x \in Op /\ x.pc \in StepsOf(x.call)
      BY <1>1, <1>7, <1>12 DEF WipeRule, Op, Steps, Locked, Syscalls, StepsOf
    <3>3. ControlTypeOK'
      BY <1>2, <1>12, <3>1, <3>2 DEF WipeRule
    <3> QED
      BY <1>12, <2>2, <3>3 DEF WipeRule, MapsTypeOK, ctVars
  <2>3. CASE Stored(Table(a)) # {}
    <3>1. PICK k \in Stored(Table(a)) : rules' = [rules EXCEPT ![Table(a)][k] = NoRule]
      BY <1>12, <2>3 DEF WipeRule
    <3>2. k \in Keys(Table(a))
      BY DEF Stored
    <3>3. MapsTypeOK'
      BY <1>5, <1>12, <2>1, <3>1, <3>2, RuleWrite DEF WipeRule
    <3> QED
      BY <1>12, <2>3, <3>3 DEF WipeRule, ControlTypeOK
  <2> QED
    BY <2>2, <2>3
<1>13. CASE MapHasEntries(a)
  <2> DEFINE x == [op[a] EXCEPT !.pc = "syncRead", !.has = (Stored(Table(a)) # {})]
  <2>1. op' = [op EXCEPT ![a] = x]
    BY <1>1, <1>13 DEF MapHasEntries
  <2>2. x \in Op
    BY <1>1 DEF Op, Steps, Locked, Syscalls
  <2>3. x.pc \in StepsOf(x.call)
    BY <1>1, <1>7, <1>13 DEF MapHasEntries, Syscalls, StepsOf, Op
  <2> QED
    BY <1>2, <1>6, <1>13, <2>1, <2>2, <2>3 DEF MapHasEntries
<1>14. CASE SyncPresenceRead(a)
  <2> DEFINE x == [op[a] EXCEPT !.pc = "syncWrite", !.flags = rule_presence]
  <2>1. op' = [op EXCEPT ![a] = x]
    BY <1>1, <1>14 DEF SyncPresenceRead
  <2>2. x \in Op
    BY <1>1 DEF Op, Steps, Locked, Syscalls, MapsTypeOK
  <2>3. x.pc \in StepsOf(x.call)
    BY <1>1, <1>7, <1>14 DEF SyncPresenceRead, Syscalls, StepsOf, Op
  <2> QED
    BY <1>2, <1>6, <1>14, <2>1, <2>2, <2>3 DEF SyncPresenceRead
<1>15. CASE SyncPresenceWrite(a)
  <2>1. Table(a) \in Tables
    BY <1>15, CallAt DEF SyncPresenceWrite, Syscalls
  <2>2. rule_presence' \in SUBSET Tables
    BY <1>1, <1>15, <2>1 DEF SyncPresenceWrite, Op
  <2>3. MapsTypeOK'
    BY <1>15, <2>2 DEF SyncPresenceWrite, MapsTypeOK, ctVars
  <2> QED
    BY <1>4, <1>15, <2>3 DEF SyncPresenceWrite
<1>16. CASE SetDefaultPolicy(a)
  <2>1. firewall_config' \in {"ALLOW", "DENY"}
    BY <1>16, CallAt DEF SetDefaultPolicy, Syscalls
  <2>2. MapsTypeOK'
    BY <1>16, <2>1 DEF SetDefaultPolicy, MapsTypeOK, ctVars, ruleVars
  <2> QED
    BY <1>4, <1>16, <2>2 DEF SetDefaultPolicy
<1>17. CASE ConntrackKeys(a)
  <2> DEFINE it == op[a].iter
  <2>1. it \in Iter /\ op[a].keys \in Seq(Flows)
    BY <1>1 DEF Op
  <2>2. CASE IterHasNext(it) /\ op' = [op EXCEPT ![a].iter = Advance(it),
                                                ![a].keys = Append(@, NextKey(it))]
    <3> DEFINE x == [op[a] EXCEPT !.iter = Advance(it), !.keys = Append(@, NextKey(it))]
    <3>1. op' = [op EXCEPT ![a] = x]
      BY <1>1, <2>2
    <3>2. Advance(it) \in Iter /\ NextKey(it) \in Flows
      BY <2>1, <2>2, IterType DEF Tracked
    <3>3. Append(op[a].keys, NextKey(it)) \in Seq(Flows)
      BY <2>1, <3>2
    <3>4. x \in Op /\ x.pc = op[a].pc /\ x.call = op[a].call
      BY <1>1, <3>2, <3>3 DEF Op
    <3> QED
      BY <1>2, <1>6, <1>7, <1>17, <3>1, <3>4 DEF ConntrackKeys
  <2>3. CASE op' = [op EXCEPT ![a].pc = "ctDel", ![a].iter = NoIter]
    <3> DEFINE x == [op[a] EXCEPT !.pc = "ctDel", !.iter = NoIter]
    <3>1. op' = [op EXCEPT ![a] = x]
      BY <1>1, <2>3
    <3>2. x \in Op
      BY <1>1, IterType DEF Op, Steps, Locked, Syscalls
    <3>3. x.pc \in StepsOf(x.call)
      BY <1>1, <1>7, <1>17 DEF ConntrackKeys, Syscalls, StepsOf, Op
    <3> QED
      BY <1>2, <1>6, <1>17, <3>1, <3>2, <3>3 DEF ConntrackKeys
  <2>4. CASE Fail(a)
    BY <1>3, <1>6, <1>17, <2>4 DEF ConntrackKeys
  <2> QED
    BY <1>17, <2>2, <2>3, <2>4 DEF ConntrackKeys
<1>18. CASE ConntrackDelete(a)
  <2> DEFINE keys == op[a].keys
  <2>1. keys \in Seq(Flows)
    BY <1>1 DEF Op
  <2>2. CASE keys # <<>> /\ CtDelete(Head(keys)) /\ op' = [op EXCEPT ![a].keys = Tail(@)]
    <3> DEFINE x == [op[a] EXCEPT !.keys = Tail(@)]
    <3>1. op' = [op EXCEPT ![a] = x]
      BY <1>1, <2>2
    <3>2. Tail(keys) \in Seq(Flows)
      BY <2>1, <2>2
    <3>3. x \in Op /\ x.pc = op[a].pc /\ x.call = op[a].call
      BY <1>1, <3>2 DEF Op
    <3>4. ControlTypeOK'
      BY <1>2, <1>7, <1>18, <3>1, <3>3 DEF ConntrackDelete
    <3>5. MapsTypeOK'
      BY <1>18, <2>2 DEF ConntrackDelete, CtDelete, MapsTypeOK, ruleVars
    <3> QED
      BY <3>4, <3>5
  <2>3. CASE (Succeed(a) \/ Fail(a)) /\ UNCHANGED ctVars
    <3>1. MapsTypeOK'
      BY <1>18, <2>3 DEF ConntrackDelete, MapsTypeOK, ruleVars, ctVars
    <3> QED
      BY <1>3, <1>4, <1>18, <2>3, <3>1 DEF ConntrackDelete
  <2> QED
    BY <1>18, <2>2, <2>3 DEF ConntrackDelete
<1>19. CASE SyscallError(a)
  BY <1>3, <1>6, <1>19 DEF SyscallError
<1> QED
  BY <1>8, <1>9, <1>10, <1>11, <1>12, <1>13, <1>14, <1>15, <1>16, <1>17, <1>18, <1>19
     DEF ManagerStep

LEMMA ControlType ==
    ASSUME MapsTypeOK, ControlTypeOK, ControlNext
    PROVE  MapsTypeOK' /\ ControlTypeOK'
<1>1. op \in [Actors -> Op]
  BY DEF ControlTypeOK
<1>2. UNCHANGED <<maps, now>> => MapsTypeOK'
  BY DEF maps, MapsTypeOK
<1>3. ASSUME NEW h \in Handlers, NEW req \in Requests, Accept(h, req)
      PROVE  MapsTypeOK' /\ ControlTypeOK'
  <2> DEFINE x == [Idle EXCEPT !.pc = "lock", !.call = handle(req)]
  <2>1. x \in Op /\ x.pc \notin Syscalls
    BY IdleType, KnownCalls DEF Op, Steps, Syscalls
  <2> QED
    BY <1>2, <1>3, <2>1, OneOp DEF Accept, Actors, ControlTypeOK
<1>4. ASSUME NEW h \in Handlers, Lock(h)
      PROVE  MapsTypeOK' /\ ControlTypeOK'
  <2>1. op[h].call \in Calls \cup {NoCall}
    BY <1>1 DEF Actors, Op
  <2>2. op' = [op EXCEPT ![h] = Enter(op[h].call)]
    BY <1>1, <1>4 DEF Lock
  <2> QED
    BY <1>2, <1>4, <2>1, <2>2, EnterType, OneOp DEF Lock, Actors, ControlTypeOK
<1>5. ASSUME NEW h \in Handlers, Unlock(h)
      PROVE  MapsTypeOK' /\ ControlTypeOK'
  <2> DEFINE x == [op[h] EXCEPT !.pc = "reply"]
  <2>1. x \in Op /\ x.pc \notin Syscalls
    BY <1>1 DEF Actors, Op, Steps, Syscalls
  <2>2. op' = [op EXCEPT ![h] = x]
    BY <1>1, <1>5 DEF Unlock, Goto
  <2> QED
    BY <1>2, <1>5, <2>1, <2>2, OneOp DEF Unlock, Actors, ControlTypeOK
<1>6. ASSUME NEW h \in Handlers, Reply(h)
      PROVE  MapsTypeOK' /\ ControlTypeOK'
  <2>1. Idle.pc \notin Syscalls
    BY DEF Idle, Syscalls
  <2> QED
    BY <1>2, <1>6, <2>1, IdleType, OneOp DEF Reply, Actors, ControlTypeOK
<1>7. CASE StartupBlock
  <2>1. boot + 1 \in 1 .. Len(Startup) /\ boot' \in 0 .. Len(Startup)
    BY <1>7, LimitAssumption DEF StartupBlock, ControlTypeOK
  <2>2. BlockIP(Startup[boot + 1]) \in Calls
    BY <2>1, KnownCalls
  <2> QED
    BY <1>2, <1>7, <2>1, <2>2, EnterType, OneOp DEF StartupBlock, Actors, ControlTypeOK
<1>8. CASE StartupNext
  <2>1. Idle.pc \notin Syscalls
    BY DEF Idle, Syscalls
  <2> QED
    BY <1>2, <1>8, <2>1, IdleType, OneOp DEF StartupNext, Actors, ControlTypeOK
<1> QED
  BY <1>3, <1>4, <1>5, <1>6, <1>7, <1>8, ManagerType DEF ControlNext

(***************************************************************************)
(* Types of the XDP program and of the reaper.                             *)
(***************************************************************************)
\* A set of prefixes has a longest one (LpmLookup's match).
LEMMA LongestExists ==
    ASSUME NEW S, S # {}, S \subseteq Keys("IP")
    PROVE  Longest(S) \in S
<1> DEFINE T == {AddrBits - p.prefixlen : p \in S}
<1>1. \A p \in S : p.prefixlen \in 0 .. AddrBits
  BY PrefixAssumption
<1>2. T \subseteq Nat /\ T # {}
  BY <1>1, AddrBitsAssumption
<1>3. \E x \in T : \A y \in T : x <= y
  BY <1>2, NatMin
<1>4. PICK p \in S : \A q \in S : AddrBits - p.prefixlen <= AddrBits - q.prefixlen
  BY <1>3
<1>5. \A q \in S : q.prefixlen <= p.prefixlen
  BY <1>1, <1>4, AddrBitsAssumption
<1> QED
  BY <1>5 DEF Longest

\* The trie's lookup matches exactly when a stored prefix covers the address.
LEMMA LpmMatch ==
    ASSUME NEW table, DOMAIN table = Keys("IP"), NEW addr
    PROVE  \/ /\ LpmHits(table, addr) = {}
              /\ LpmLookup(table, addr) = NoRule
           \/ \E p \in LpmHits(table, addr) : LpmLookup(table, addr) = table[p]
BY LongestExists DEF LpmHits, LpmLookup

LEMMA LookupTypes ==
    ASSUME MapsTypeOK
    PROVE  /\ \A addr : LpmLookup(rules["IP"], addr) \in RuleValues("IP") \cup {NoRule}
           /\ \A key : HashLookup(rules["PORT"], key) \in RuleValues("PORT") \cup {NoRule}
<1>1. /\ rules["IP"] \in [Keys("IP") -> RuleValues("IP") \cup {NoRule}]
      /\ rules["PORT"] \in [Keys("PORT") -> RuleValues("PORT") \cup {NoRule}]
  BY DEF MapsTypeOK, Tables
<1>2. ASSUME NEW addr
      PROVE  LpmLookup(rules["IP"], addr) \in RuleValues("IP") \cup {NoRule}
  BY <1>1, LpmMatch DEF LpmHits
<1> QED
  BY <1>1, <1>2 DEF HashLookup

\* A step of a program moves only its CPU's locals.
LEMMA OwnLocals ==
    ASSUME XdpTypeOK, NEW c \in Cpus, NEW d \in Cpus, d # c,
           (\E f \in Frames : Receive(c, f)) \/ ProgramStep(c)
    PROVE  xdp'[d] = xdp[d]
<1> USE DEF XdpTypeOK
<1>1. CASE \E f \in Frames : Receive(c, f)
  BY <1>1 DEF Receive
<1>2. CASE RawVerdict(c) \/ ReadPresence(c) \/ LookupSource(c) \/ LookupDestination(c)
           \/ ProbePort(c)
  BY <1>2 DEF RawVerdict, ReadPresence, LookupSource, LookupDestination, ProbePort, Settle
<1>3. CASE Decide(c)
  BY <1>3 DEF Decide, Settle
<1>4. CASE EstablishedLookup(c) \/ EstablishedState(c) \/ CtLookup(c) \/ CtTouch(c)
  BY <1>4 DEF EstablishedLookup, EstablishedState, CtLookup, CtTouch, Settle
<1>5. CASE CtUpdateState(c) \/ CtEstablish(c) \/ CtInsertNew(c)
  BY <1>5 DEF CtUpdateState, CtEstablish, CtInsertNew, Settle, GotoX
<1>6. CASE CountTotal(c) \/ CountTotalBytes(c) \/ CountVerdict(c) \/ CountVerdictBytes(c)
  BY <1>6 DEF CountTotal, CountTotalBytes, CountVerdict, CountVerdictBytes, Settle, GotoX
<1> QED
  BY <1>1, <1>2, <1>3, <1>4, <1>5, <1>6 DEF ProgramStep

\* Up to its verdict a program only reads; where its steps lead.
LEMMA Deciding ==
    ASSUME XdpTypeOK, NEW c \in Cpus,
           \/ \E f \in Frames : Receive(c, f)
           \/ RawVerdict(c) \/ ReadPresence(c) \/ LookupSource(c) \/ LookupDestination(c)
           \/ ProbePort(c) \/ Decide(c) \/ EstablishedLookup(c) \/ EstablishedState(c)
    PROVE  /\ UNCHANGED maps
           /\ xdp[c].pc \in Undecided \cup {"idle", "established", "estState"}
           /\ xdp'[c].pc \in Undecided \cup {"established", "estState", "ctLookup", "total"}
<1> USE DEF AtX, Undecided
<1>1. xdp \in [Cpus -> XdpRecord] /\ xdp[c] \in XdpRecord
  BY DEF XdpTypeOK
<1>2. ASSUME NEW v, NEW p, Settle(c, v, p)
      PROVE  xdp'[c].pc = p
  BY <1>1, <1>2 DEF Settle, NoPacket
<1>3. CASE \E f \in Frames : Receive(c, f)
  <2>1. PICK f \in Frames : Receive(c, f)
    BY <1>3
  <2>2. xdp'[c].pc \in {"raw", "presence"}
    <3>1. xdp'[c] = [xdp[c] EXCEPT !.frame = f,
                                   !.pc = IF HasIpHeader(f) THEN "presence" ELSE "raw"]
      BY ONLY <1>1, <2>1, c \in Cpus DEF Receive
    <3> QED
      BY ONLY <1>1, <3>1 DEF XdpRecord
  <2> QED
    BY <2>1, <2>2 DEF Receive
<1>4. CASE RawVerdict(c)
  BY <1>2, <1>4 DEF RawVerdict
<1>5. CASE ReadPresence(c)
  <2>1. xdp'[c].pc \in {"src", "probe", "config"}
    BY <1>1, <1>5 DEF ReadPresence, AfterIp, XdpRecord
  <2> QED
    BY <1>5, <2>1 DEF ReadPresence
<1>6. CASE LookupSource(c)
  <2>1. xdp'[c].pc \in {"dst", "probe", "config"}
    BY <1>1, <1>6 DEF LookupSource, AfterIp, XdpRecord
  <2> QED
    BY <1>6, <2>1 DEF LookupSource
<1>7. CASE LookupDestination(c)
  <2>1. xdp'[c].pc \in {"probe", "config"}
    BY <1>1, <1>7 DEF LookupDestination, AfterIp, XdpRecord
  <2> QED
    BY <1>7, <2>1 DEF LookupDestination
<1>8. CASE ProbePort(c)
  <2>1. xdp'[c].pc \in {"probe", "config"}
    BY <1>1, <1>8 DEF ProbePort, XdpRecord
  <2> QED
    BY <1>8, <2>1 DEF ProbePort
<1>9. CASE Decide(c)
  <2>1. xdp'[c].pc \in {"ctLookup", "established", "total"}
    BY <1>2, <1>9 DEF Decide
  <2> QED
    BY <1>9, <2>1 DEF Decide
<1>10. CASE EstablishedLookup(c)
  <2>1. xdp'[c].pc \in {"total", "estState"}
    BY <1>1, <1>10 DEF EstablishedLookup, XdpRecord
  <2> QED
    BY <1>10, <2>1 DEF EstablishedLookup
<1>11. CASE EstablishedState(c)
  <2>1. xdp'[c].pc \in {"total", "ctLookup"}
    BY <1>2, <1>11 DEF EstablishedState
  <2> QED
    BY <1>11, <2>1 DEF EstablishedState
<1> QED
  BY <1>3, <1>4, <1>5, <1>6, <1>7, <1>8, <1>9, <1>10, <1>11

\* Every step of the program keeps the types of the maps and of its locals.
LEMMA DatapathType ==
    ASSUME MapsTypeOK, XdpTypeOK, NEW c \in Cpus,
           (\E f \in Frames : Receive(c, f)) \/ ProgramStep(c)
    PROVE  MapsTypeOK' /\ XdpTypeOK'
<1> USE DEF AtX
<1>1. xdp \in [Cpus -> XdpRecord] /\ xdp[c] \in XdpRecord
  BY DEF XdpTypeOK
<1>2. UNCHANGED <<maps, now>> => MapsTypeOK'
  BY DEF maps, MapsTypeOK
<1>3. ASSUME NEW x \in XdpRecord, xdp' = [xdp EXCEPT ![c] = x],
             x.pc # "idle" => x.frame \in Frames,
             x.pc \in Lookups => HasIpHeader(x.frame),
             x.pc \in CtSteps => x.frame \in TcpFrames,
             x.pc \in Derefs => x.elem \in Slots
      PROVE  XdpTypeOK'
  <2>1. \A d \in Cpus : xdp'[d] = IF d = c THEN x ELSE xdp[d]
    BY <1>1, <1>3
  <2>2. xdp' \in [Cpus -> XdpRecord]
    BY <1>1, <1>3
  <2> QED
    BY <1>3, <2>1, <2>2 DEF XdpTypeOK
<1>4. /\ xdp[c].pc # "idle" => xdp[c].frame \in Frames
      /\ xdp[c].pc \in Lookups => HasIpHeader(xdp[c].frame)
      /\ xdp[c].pc \in CtSteps => xdp[c].frame \in TcpFrames
      /\ xdp[c].pc \in Derefs => xdp[c].elem \in Slots
  BY DEF XdpTypeOK
<1>5. NoPacket \in XdpRecord
  BY DEF NoPacket, XdpRecord, XdpSteps, Probes, Verdicts
<1>6. ASSUME NEW v \in Verdicts, NEW p \in XdpSteps \ {"idle"}, Settle(c, v, p),
             xdp[c].pc # "idle",
             p \notin Lookups, p \notin Derefs,
             p \in CtSteps => xdp[c].frame \in TcpFrames
      PROVE  XdpTypeOK'
  <2> DEFINE x == [NoPacket EXCEPT !.pc = p, !.frame = xdp[c].frame, !.verdict = v]
  <2>1. x \in XdpRecord
    BY <1>4, <1>5, <1>6 DEF XdpRecord
  <2>2. x.pc = p /\ x.frame = xdp[c].frame
    BY DEF NoPacket
  <2> QED
    BY <1>3, <1>4, <1>6, <2>1, <2>2 DEF Settle
<1>7. \A def : ByDefault(def) \in Verdicts
  BY DEF ByDefault, Verdicts
<1>8. CASE \E f \in Frames : Receive(c, f)
  <2>1. PICK f \in Frames : Receive(c, f)
    BY <1>8
  <2> DEFINE p == IF HasIpHeader(f) THEN "presence" ELSE "raw"
             x == [xdp[c] EXCEPT !.frame = f, !.pc = p]
  <2>2. xdp' = [xdp EXCEPT ![c] = x]
    BY <1>1, <2>1 DEF Receive
  <2>3. x \in XdpRecord /\ x.pc = p /\ x.frame = f
    BY <1>1 DEF XdpRecord, XdpSteps
  <2>4. /\ p \in Lookups => HasIpHeader(f)
        /\ p \notin CtSteps /\ p \notin Derefs
    BY DEF Lookups, CtSteps, Derefs
  <2> HIDE DEF p, x
  <2>5. XdpTypeOK'
    BY <1>3, <2>2, <2>3, <2>4
  <2> QED
    BY <1>2, <2>1, <2>5 DEF Receive
<1>9. CASE RawVerdict(c)
  BY <1>2, <1>6, <1>7, <1>9 DEF RawVerdict, XdpSteps, Lookups, CtSteps, Derefs
<1>10. CASE ReadPresence(c)
  <2> DEFINE p == IF "IP" \in rule_presence THEN "src" ELSE AfterIp(rule_presence)
             x == [xdp[c] EXCEPT !.flags = rule_presence, !.pc = p]
  <2>1. xdp' = [xdp EXCEPT ![c] = x]
    BY <1>1, <1>10 DEF ReadPresence
  <2>2. p \in {"src", "probe", "config"}
    BY DEF AfterIp
  <2>3. x \in XdpRecord /\ x.pc = p /\ x.frame = xdp[c].frame
    BY <1>1, <2>2 DEF XdpRecord, XdpSteps, MapsTypeOK
  <2> QED
    BY <1>2, <1>3, <1>4, <1>10, <2>1, <2>2, <2>3
       DEF ReadPresence, Lookups, CtSteps, Derefs
<1>11. CASE LookupSource(c)
  <2> DEFINE rule == LpmLookup(rules["IP"], Info(c).saddr)
             p == IF Matched(rule) THEN AfterIp(xdp[c].flags) ELSE "dst"
             x == [xdp[c] EXCEPT !.ip = rule, !.pc = p]
  <2>1. xdp' = [xdp EXCEPT ![c] = x]
    BY <1>1, <1>11 DEF LookupSource
  <2>2. p \in {"dst", "probe", "config"}
    BY DEF AfterIp
  <2>3. rule \in RuleValues("IP") \cup {NoRule}
    BY LookupTypes
  <2>4. x \in XdpRecord /\ x.pc = p /\ x.frame = xdp[c].frame
    BY <1>1, <2>2, <2>3 DEF XdpRecord, XdpSteps
  <2> QED
    BY <1>2, <1>3, <1>4, <1>11, <2>1, <2>2, <2>4
       DEF LookupSource, Lookups, CtSteps, Derefs
<1>12. CASE LookupDestination(c)
  <2> DEFINE rule == LpmLookup(rules["IP"], Info(c).daddr)
             p == AfterIp(xdp[c].flags)
             x == [xdp[c] EXCEPT !.ip = rule, !.pc = p]
  <2>1. xdp' = [xdp EXCEPT ![c] = x]
    BY <1>1, <1>12 DEF LookupDestination
  <2>2. p \in {"probe", "config"}
    BY DEF AfterIp
  <2>3. rule \in RuleValues("IP") \cup {NoRule}
    BY LookupTypes
  <2>4. x \in XdpRecord /\ x.pc = p /\ x.frame = xdp[c].frame
    BY <1>1, <2>2, <2>3 DEF XdpRecord, XdpSteps
  <2> QED
    BY <1>2, <1>3, <1>4, <1>12, <2>1, <2>2, <2>4
       DEF LookupDestination, Lookups, CtSteps, Derefs
<1>13. CASE ProbePort(c)
  <2> DEFINE i == xdp[c].probe
             elem == HashLookup(rules["PORT"], ProbeKey(i, Info(c)))
             p == IF i = 4 THEN "config" ELSE "probe"
             j == IF i = 4 THEN 1 ELSE i + 1
             best == TRY_LOOKUP(xdp[c].port, elem)
             x == [xdp[c] EXCEPT !.port = best, !.probe = j, !.pc = p]
  <2>1. xdp' = [xdp EXCEPT ![c] = x]
    BY <1>1, <1>13 DEF ProbePort
  <2>2. elem \in RuleValues("PORT") \cup {NoRule}
    BY LookupTypes
  <2>3. best \in RuleValues("PORT") \cup {NoRule}
    BY <1>1, <2>2 DEF TRY_LOOKUP, XdpRecord
  <2>4. j \in Probes
    BY <1>1 DEF Probes, XdpRecord
  <2>5. x \in XdpRecord /\ x.pc = p /\ x.frame = xdp[c].frame
    BY <1>1, <2>3, <2>4 DEF XdpRecord, XdpSteps
  <2>6. /\ HasIpHeader(xdp[c].frame) /\ xdp[c].frame \in Frames
        /\ p \notin CtSteps /\ p \notin Derefs
    BY <1>4, <1>13 DEF ProbePort, Lookups, CtSteps, Derefs
  <2> HIDE DEF p, x
  <2>7. XdpTypeOK'
    BY <1>3, <2>1, <2>5, <2>6
  <2> QED
    BY <1>2, <1>13, <2>7 DEF ProbePort
<1>14. CASE Decide(c)
  <2> DEFINE ip == xdp[c].ip
             port == xdp[c].port
  <2>1. Stateful(c) => xdp[c].frame \in TcpFrames
    BY <1>4, <1>14 DEF Decide, Stateful, TcpFrames, Info, parse_packet, Lookups
  <2>2. CASE RuleMatched(c)
    <3>1. ip \in RuleValues("IP") \cup {NoRule} /\ port \in RuleValues("PORT") \cup {NoRule}
      BY <1>1 DEF XdpRecord
    <3>2. /\ Matched(ip) => ip.action \in {"PASS", "DROP"}
          /\ Matched(port) => port.action \in {"PASS", "DROP"}
      BY <3>1, RuleFields DEF Matched, Tables
    <3>3. decide(ip, port, firewall_config) \in Verdicts
      BY <1>7, <3>2 DEF decide, Verdicts
    <3> QED
      BY <1>2, <1>6, <1>14, <2>1, <2>2, <3>3
         DEF Decide, XdpSteps, Lookups, CtSteps, Derefs
  <2>3. CASE ~ RuleMatched(c)
    BY <1>2, <1>6, <1>7, <1>14, <2>1, <2>3
       DEF Decide, XdpSteps, Lookups, CtSteps, Derefs
  <2> QED
    BY <2>2, <2>3
<1>15. xdp[c].frame \in TcpFrames => conntrack[Flow(c)] \in Slots \cup {None}
  BY DEF MapsTypeOK, Flows, FlowOf, Flow, Info
<1>16. CASE EstablishedLookup(c)
  <2> DEFINE slot == conntrack[Flow(c)]
             p == IF slot = None THEN "total" ELSE "estState"
             x == [xdp[c] EXCEPT !.elem = slot, !.pc = p]
  <2>1. xdp' = [xdp EXCEPT ![c] = x]
    BY <1>1, <1>16 DEF EstablishedLookup
  <2>2. slot \in Slots \cup {None} /\ xdp[c].frame \in TcpFrames
    BY <1>4, <1>15, <1>16 DEF EstablishedLookup, CtSteps
  <2>3. x \in XdpRecord /\ x.pc = p /\ x.frame = xdp[c].frame /\ x.elem = slot
    BY <1>1, <2>2 DEF XdpRecord, XdpSteps
  <2>4. /\ xdp[c].frame \in Frames
        /\ p \notin Lookups
        /\ p \in Derefs => slot \in Slots
    BY <1>4, <1>16, <2>2 DEF EstablishedLookup, Lookups, CtSteps, Derefs
  <2> HIDE DEF p, x, slot
  <2>5. XdpTypeOK'
    BY <1>3, <2>1, <2>2, <2>3, <2>4
  <2> QED
    BY <1>2, <1>16, <2>5 DEF EstablishedLookup
<1>17. CASE EstablishedState(c)
  BY <1>2, <1>4, <1>6, <1>17
     DEF EstablishedState, Verdicts, XdpSteps, Lookups, CtSteps, Derefs
<1>18. CASE CtLookup(c)
  <2> DEFINE slot == conntrack[Flow(c)]
             p == IF slot = None THEN "ctInsert" ELSE "ctTouch"
             x == [xdp[c] EXCEPT !.elem = slot, !.stamp = now, !.pc = p]
  <2>1. xdp' = [xdp EXCEPT ![c] = x]
    BY <1>1, <1>18 DEF CtLookup
  <2>2. slot \in Slots \cup {None} /\ xdp[c].frame \in TcpFrames
    BY <1>4, <1>15, <1>18 DEF CtLookup, CtSteps
  <2>3. x \in XdpRecord /\ x.pc = p /\ x.frame = xdp[c].frame /\ x.elem = slot
    BY <1>1, <2>2 DEF XdpRecord, XdpSteps, MapsTypeOK
  <2>4. /\ xdp[c].frame \in Frames
        /\ p \notin Lookups
        /\ p \in Derefs => slot \in Slots
    BY <1>4, <1>18, <2>2 DEF CtLookup, Lookups, CtSteps, Derefs
  <2> HIDE DEF p, x, slot
  <2>5. XdpTypeOK'
    BY <1>3, <2>1, <2>2, <2>3, <2>4
  <2> QED
    BY <1>2, <1>18, <2>5 DEF CtLookup
<1>19. ASSUME NEW s \in Slots, NEW st \in CtState, NEW n \in Nat,
              \/ elems' = [elems EXCEPT ![s].state = st]
              \/ elems' = [elems EXCEPT ![s].last_seen = n]
              \/ elems' = [elems EXCEPT ![s] = [last_seen |-> n, state |-> st]]
       PROVE  elems' \in [Slots -> [last_seen : Nat, state : CtState]]
  BY <1>19 DEF MapsTypeOK
<1>20. CASE CtTouch(c)
  <2> DEFINE x == [xdp[c] EXCEPT !.pc = "ctState", !.stamp = 0]
  <2>1. xdp' = [xdp EXCEPT ![c] = x]
    BY <1>1, <1>20 DEF CtTouch
  <2>2. x \in XdpRecord /\ x.pc = "ctState" /\ x.frame = xdp[c].frame
        /\ x.elem = xdp[c].elem
    BY <1>1 DEF XdpRecord, XdpSteps
  <2>3. XdpTypeOK'
    BY <1>3, <1>4, <1>20, <2>1, <2>2 DEF CtTouch, Lookups, CtSteps, Derefs
  <2>4. xdp[c].elem \in Slots /\ xdp[c].stamp \in Nat
    BY <1>1, <1>4, <1>20 DEF CtTouch, Derefs, XdpRecord
  <2>5. elems' \in [Slots -> [last_seen : Nat, state : CtState]]
    BY <1>19, <1>20, <2>4 DEF CtTouch, CtState
  <2> QED
    BY <1>20, <2>3, <2>5 DEF CtTouch, MapsTypeOK
<1>21. CASE CtUpdateState(c)
  <2>1. xdp[c].elem \in Slots /\ xdp[c].frame \in TcpFrames /\ xdp[c].frame \in Frames
    BY <1>4, <1>21 DEF CtUpdateState, Derefs, CtSteps
  <2>2. elems' \in [Slots -> [last_seen : Nat, state : CtState]]
    <3>1. \/ elems' = [elems EXCEPT ![xdp[c].elem].state = "CLOSED"]
          \/ UNCHANGED elems
      BY <1>21 DEF CtUpdateState
    <3> QED
      BY <1>19, <2>1, <3>1 DEF MapsTypeOK, CtState
  <2>3. \/ Settle(c, "PASS", "total")
        \/ GotoX(c, "ctEstablish")
    BY <1>21 DEF CtUpdateState
  <2>4. ASSUME Settle(c, "PASS", "total") PROVE XdpTypeOK'
    <3>1. /\ "PASS" \in Verdicts /\ "total" \in XdpSteps \ {"idle"}
          /\ "total" \notin Lookups /\ "total" \notin Derefs /\ "total" \notin CtSteps
      BY DEF Verdicts, XdpSteps, Lookups, CtSteps, Derefs
    <3>2. xdp[c].pc # "idle"
      BY <1>21 DEF CtUpdateState
    <3> QED
      BY <1>6, <2>4, <3>1, <3>2
  <2>5. ASSUME GotoX(c, "ctEstablish") PROVE XdpTypeOK'
    <3> DEFINE x == [xdp[c] EXCEPT !.pc = "ctEstablish"]
    <3>1. xdp' = [xdp EXCEPT ![c] = x]
      BY <1>1, <2>5 DEF GotoX
    <3>2. x \in XdpRecord /\ x.pc = "ctEstablish" /\ x.frame = xdp[c].frame
          /\ x.elem = xdp[c].elem
      BY <1>1 DEF XdpRecord, XdpSteps
    <3>3. "ctEstablish" \notin Lookups
      BY DEF Lookups
    <3> HIDE DEF x
    <3> QED
      BY <1>3, <2>1, <3>1, <3>2, <3>3
  <2> QED
    BY <1>21, <2>2, <2>3, <2>4, <2>5 DEF CtUpdateState, MapsTypeOK
<1>22. CASE CtEstablish(c)
  <2>1. xdp[c].elem \in Slots
    BY <1>4, <1>22 DEF CtEstablish, Derefs
  <2>2. elems' \in [Slots -> [last_seen : Nat, state : CtState]]
    BY <1>19, <1>22, <2>1 DEF CtEstablish, CtState
  <2>3. XdpTypeOK'
    BY <1>6, <1>22 DEF CtEstablish, Verdicts, XdpSteps, Lookups, CtSteps, Derefs
  <2> QED
    BY <1>22, <2>2, <2>3 DEF CtEstablish, MapsTypeOK
<1>23. CASE CtInsertNew(c)
  <2>1. Flow(c) \in Flows
    BY <1>4, <1>23 DEF CtInsertNew, CtSteps, Flows, FlowOf, Flow, Info
  <2>2. FirstState(c) \in CtState /\ xdp[c].stamp \in Nat
    BY <1>1 DEF FirstState, CtState, XdpRecord
  <2>3. /\ elems' \in [Slots -> [last_seen : Nat, state : CtState]]
        /\ conntrack' \in [Flows -> Slots \cup {None}]
    <3> DEFINE value == [last_seen |-> xdp[c].stamp, state |-> FirstState(c)]
    <3>1. CASE UNCHANGED ctVars
      BY <3>1 DEF ctVars, MapsTypeOK
    <3>2. CASE \E s \in FreeSlots :
                  /\ conntrack' = [conntrack EXCEPT ![Flow(c)] = s]
                  /\ elems' = [elems EXCEPT ![s] = value]
      <4>1. PICK s \in FreeSlots : /\ conntrack' = [conntrack EXCEPT ![Flow(c)] = s]
                                   /\ elems' = [elems EXCEPT ![s] = value]
        BY <3>2
      <4>2. s \in Slots
        BY DEF FreeSlots
      <4> QED
        BY <1>19, <2>1, <2>2, <4>1, <4>2 DEF MapsTypeOK
    <3> QED
      BY <1>23, <3>1, <3>2 DEF CtInsertNew, CtInsert
  <2>4. XdpTypeOK'
    BY <1>6, <1>23 DEF CtInsertNew, Verdicts, XdpSteps, Lookups, CtSteps, Derefs
  <2> QED
    BY <1>23, <2>3, <2>4 DEF CtInsertNew, MapsTypeOK
<1>24. ASSUME NEW i \in CounterIndex, NEW n \in Nat,
              AddTo(i, "packets", n) \/ AddTo(i, "bytes", n),
              UNCHANGED <<ruleVars, firewall_config, ctVars, now>>
       PROVE  MapsTypeOK'
  <2>1. counters[i].packets \in Nat /\ counters[i].bytes \in Nat
    BY DEF MapsTypeOK
  <2>2. \A m \in Nat : (m + n) % CounterMod \in Nat
    BY LimitAssumption
  <2>3. counters' \in [CounterIndex -> [packets : Nat, bytes : Nat]]
    BY <1>24, <2>1, <2>2 DEF AddTo, MapsTypeOK
  <2> QED
    BY <1>24, <2>3 DEF MapsTypeOK, ruleVars, ctVars
<1>25. /\ Verdicts \subseteq CounterIndex /\ "TOTAL" \in CounterIndex
       /\ xdp[c].verdict \in Verdicts
       /\ xdp[c].pc # "idle" => xdp[c].frame.len \in Nat
  BY <1>1, <1>4, FrameAssumption DEF Verdicts, CounterIndex, XdpRecord
<1>26. ASSUME NEW p \in {"verdict", "verdictBytes"}, GotoX(c, p), xdp[c].pc # "idle"
       PROVE  XdpTypeOK'
  <2> DEFINE x == [xdp[c] EXCEPT !.pc = p]
  <2>1. xdp' = [xdp EXCEPT ![c] = x]
    BY <1>1, <1>26 DEF GotoX
  <2>2. x \in XdpRecord /\ x.pc = p /\ x.frame = xdp[c].frame
    BY <1>1, <1>26 DEF XdpRecord, XdpSteps
  <2> QED
    BY <1>3, <1>4, <1>26, <2>1, <2>2 DEF Lookups, CtSteps, Derefs
<1>27. CASE CountTotal(c)
  BY <1>6, <1>24, <1>25, <1>27
     DEF CountTotal, Verdicts, XdpSteps, Lookups, CtSteps, Derefs
<1>28. CASE CountTotalBytes(c)
  BY <1>24, <1>25, <1>26, <1>28 DEF CountTotalBytes
<1>29. CASE CountVerdict(c)
  BY <1>24, <1>25, <1>26, <1>29 DEF CountVerdict
<1>30. CASE CountVerdictBytes(c)
  <2>1. NoPacket.pc = "idle"
    BY DEF NoPacket
  <2>2. XdpTypeOK'
    BY <1>3, <1>5, <1>30, <2>1 DEF CountVerdictBytes, Lookups, CtSteps, Derefs
  <2> QED
    BY <1>24, <1>25, <1>30, <2>2 DEF CountVerdictBytes
<1> QED
  BY <1>8, <1>9, <1>10, <1>11, <1>12, <1>13, <1>14, <1>16, <1>17, <1>18, <1>20, <1>21,
     <1>22, <1>23, <1>27, <1>28, <1>29, <1>30 DEF ProgramStep

(***************************************************************************)
(* Types of the reaper and of the histories.                               *)
(***************************************************************************)
LEMMA ReaperType ==
    ASSUME MapsTypeOK, ReaperTypeOK, ReaperNext
    PROVE  MapsTypeOK' /\ ReaperTypeOK'
<1>1. /\ reap.cutoff \in Nat /\ reap.iter \in Iter /\ reap.stale \in Seq(Flows)
      /\ reap = [pc |-> reap.pc, cutoff |-> reap.cutoff, iter |-> reap.iter,
                 stale |-> reap.stale]
  BY DEF ReaperTypeOK
<1>2. UNCHANGED <<maps, now>> => MapsTypeOK'
  BY DEF maps, MapsTypeOK
<1>3. /\ NoIter \in Iter /\ <<>> \in Seq(Flows)
      /\ Resting \in [pc : {"rest", "scan", "delete"}, cutoff : Nat, iter : Iter,
                      stale : Seq(Flows)]
  BY IterType DEF Resting
<1>4. CASE ReapStart
  <2>1. (IF CtTimeout < now THEN now - CtTimeout ELSE 0) \in Nat
    BY TimeoutAssumption DEF MapsTypeOK
  <2>2. ReaperTypeOK'
    BY <1>3, <1>4, <2>1 DEF ReapStart, ReaperTypeOK, Resting
  <2> QED
    BY <1>2, <1>4, <2>2 DEF ReapStart
<1>5. CASE ReapScan
  <2>1. ASSUME IterHasNext(reap.iter),
               reap' = [reap EXCEPT !.iter = Advance(reap.iter),
                          !.stale = IF IsStale(NextKey(reap.iter))
                                    THEN Append(@, NextKey(reap.iter)) ELSE @]
        PROVE  ReaperTypeOK'
    <3>1. Advance(reap.iter) \in Iter /\ NextKey(reap.iter) \in Flows
      BY <1>1, <2>1, IterType DEF Tracked
    <3>2. Append(reap.stale, NextKey(reap.iter)) \in Seq(Flows)
      BY <1>1, <3>1
    <3> QED
      BY <1>1, <2>1, <3>1, <3>2 DEF ReaperTypeOK
  <2>2. reap' = [reap EXCEPT !.pc = "delete", !.iter = NoIter] => ReaperTypeOK'
    BY <1>1, <1>3 DEF ReaperTypeOK
  <2>3. reap' = Resting => ReaperTypeOK'
    BY <1>3 DEF ReaperTypeOK
  <2> QED
    BY <1>2, <1>5, <2>1, <2>2, <2>3 DEF ReapScan
<1>6. CASE ReapDelete
  <2>1. Tail(reap.stale) \in Seq(Flows)
    BY <1>1, <1>6 DEF ReapDelete
  <2>2. ReaperTypeOK'
    BY <1>1, <1>6, <2>1 DEF ReapDelete, ReaperTypeOK
  <2>3. conntrack' \in [Flows -> Slots \cup {None}]
    BY <1>6 DEF ReapDelete, CtDelete, MapsTypeOK
  <2> QED
    BY <1>6, <2>2, <2>3 DEF ReapDelete, CtDelete, MapsTypeOK, ruleVars
<1>7. CASE ReapEnd
  BY <1>2, <1>3, <1>7 DEF ReapEnd, ReaperTypeOK
<1> QED
  BY <1>4, <1>5, <1>6, <1>7 DEF ReaperNext

\* A tracked rule is a stored one, an admitted flow that of a TCP frame.
HistoryTypeOK ==
    /\ live \in [Cpus -> SUBSET (UNION {{t} \X Keys(t) : t \in Tables})]
    /\ admitted \in SUBSET Flows

LEMMA HistoryType ==
    ASSUME HistoryTypeOK, History
    PROVE  HistoryTypeOK'
<1> DEFINE R == UNION {{t} \X Keys(t) : t \in Tables}
<1>1. Kept(StoredRules) \subseteq R
  BY DEF Kept, StoredRules, Stored
<1>2. live' \in [Cpus -> SUBSET R]
  BY <1>1 DEF Kept, History, TrackLive, HistoryTypeOK
<1>3. ASSUME NEW c \in Cpus, AdmitsNow(c)
      PROVE  Flow(c) \in Flows
  BY <1>3 DEF AdmitsNow, Flow, Flows, FlowOf, Info
<1>4. admitted' \in SUBSET Flows
  BY <1>3 DEF History, TrackAdmitted, HistoryTypeOK
<1> QED
  BY <1>2, <1>4 DEF HistoryTypeOK

(***************************************************************************)
(* Type correctness.                                                       *)
(***************************************************************************)
LEMMA InitType == Init => TypeOK
<1> SUFFICES ASSUME Init PROVE TypeOK
  OBVIOUS
<1>1. MapsTypeOK
  BY LimitAssumption DEF Init, MapsInit, MapsTypeOK, CtState, Tables
<1>2. ControlTypeOK
  <2>1. 0 \in 0 .. Len(Startup)
    BY LimitAssumption
  <2> QED
    BY <2>1, IdleType DEF Init, ControlInit, ControlTypeOK, Idle, Syscalls
<1>3. XdpTypeOK
  BY DEF Init, DatapathInit, XdpTypeOK, NoPacket, XdpRecord, XdpSteps, Probes, Verdicts,
         AtX, Lookups, CtSteps, Derefs
<1>4. ReaperTypeOK
  BY IterType DEF Init, ReaperInit, ReaperTypeOK, Resting
<1>5. HistoryTypeOK
  BY DEF Init, HistoryTypeOK
<1> QED
  BY <1>1, <1>2, <1>3, <1>4, <1>5 DEF TypeOK, HistoryTypeOK

LEMMA NextType == TypeOK /\ [Next]_vars => TypeOK'
<1> SUFFICES ASSUME TypeOK, [Next]_vars PROVE TypeOK'
  OBVIOUS
<1>1. MapsTypeOK /\ ControlTypeOK /\ XdpTypeOK /\ ReaperTypeOK /\ HistoryTypeOK
  BY DEF TypeOK, HistoryTypeOK
<1>2. UNCHANGED controlVars => ControlTypeOK'
  BY <1>1 DEF controlVars, ControlTypeOK, At
<1>3. UNCHANGED xdp => XdpTypeOK'
  BY <1>1 DEF XdpTypeOK, AtX
<1>4. UNCHANGED reap => ReaperTypeOK'
  BY <1>1 DEF ReaperTypeOK
<1>5. History => HistoryTypeOK'
  BY <1>1, HistoryType
<1>6. CASE ControlNext /\ UNCHANGED <<xdp, reap>> /\ History
  BY <1>1, <1>3, <1>4, <1>5, <1>6, ControlType DEF TypeOK, HistoryTypeOK
<1>7. CASE DatapathNext /\ UNCHANGED <<controlVars, reap>> /\ History
  <2>1. PICK c \in Cpus : (\E f \in Frames : Receive(c, f)) \/ ProgramStep(c)
    BY <1>7 DEF DatapathNext
  <2>2. MapsTypeOK' /\ XdpTypeOK'
    BY <1>1, <2>1, DatapathType
  <2> QED
    BY <1>2, <1>4, <1>5, <1>7, <2>2 DEF TypeOK, HistoryTypeOK
<1>8. CASE Started /\ ReaperNext /\ UNCHANGED <<controlVars, xdp>> /\ History
  BY <1>1, <1>2, <1>3, <1>5, <1>8, ReaperType DEF TypeOK, HistoryTypeOK
<1>9. CASE Tick /\ History
  <2>1. MapsTypeOK'
    BY <1>1, <1>9 DEF Tick, maps, MapsTypeOK
  <2>2. UNCHANGED <<controlVars, xdp, reap>>
    BY <1>9 DEF Tick
  <2> QED
    BY <1>2, <1>3, <1>4, <1>5, <1>9, <2>1, <2>2 DEF TypeOK, HistoryTypeOK
<1>10. CASE UNCHANGED vars
  <2>1. MapsTypeOK' /\ HistoryTypeOK'
    BY <1>1, <1>10 DEF vars, maps, MapsTypeOK, HistoryTypeOK
  <2>2. UNCHANGED <<controlVars, xdp, reap>>
    BY <1>10 DEF vars
  <2> QED
    BY <1>2, <1>3, <1>4, <2>1, <2>2 DEF TypeOK, HistoryTypeOK
<1> QED
  BY <1>6, <1>7, <1>8, <1>9, <1>10 DEF Next, TimedNext

\* The maps, every actor's locals and the histories keep their types; with
\* them, a lookup or an update of the connection table is made with a TCP
\* packet only, and no null element is dereferenced.
THEOREM TypeCorrect == Spec => []TypeOK
BY InitType, NextType, PTL DEF Spec
===============================================================================
