---------------------------- MODULE ServiceProofs ----------------------------
(***************************************************************************)
(* The firewall implements RuleService (FirewallService!KeepsContract),    *)
(* for any number of handlers and rules and whatever map operation fails:  *)
(* the initial states map to initial states, and every step of Firewall    *)
(* is, of rules, policy and requests, one step of the contract or none.    *)
(*                                                                         *)
(* Only a clear needs more than its own step: it has taken effect when the *)
(* port table is found empty, and the address table, emptied by an earlier *)
(* call of the same request, must be empty still.  It is, because its      *)
(* writer is alone inside a call from there on (PresenceProofs!OneInside). *)
(***************************************************************************)
EXTENDS FirewallService, PresenceProofs

\* A request is for one of the calls that clients make; only a clear goes on to
\* the other two.
AsksKnown == \A a \in Actors : At(a, "lock") => op[a].call \notin {ClearPorts, ClearConntrack}

\* The call that empties the address table has found it empty, or an earlier
\* call of the same clear has.
AddressesGone(a) ==
    \/ op[a].pc \in Syncing /\ op[a].call = ClearIP
    \/ op[a].pc \in Syscalls /\ op[a].call = ClearPorts
StaysEmpty == \A a \in Actors : AddressesGone(a) => Stored("IP") = {}

ContractInv == PresenceInv /\ AsksKnown /\ StaysEmpty

(***************************************************************************)
(* Calls and requests.                                                     *)
(***************************************************************************)
\* What clients and the -block list ask for is never the second or third call
\* of a clear.
LEMMA AskedCalls ==
    /\ \A r \in Requests : handle(r) \in Calls \ {ClearPorts, ClearConntrack}
    /\ \A i \in 1 .. Len(Startup) :
        /\ BlockIP(Startup[i]) \in Calls
        /\ BlockIP(Startup[i]).kind \in {"put", "refused"}
<1>1. \A req : /\ Block(req) \notin {ClearPorts, ClearConntrack}
               /\ Block(req).kind \in {"put", "refused"}
  BY DEF Block, Refused, ClearPorts, ClearConntrack
<1>2. \A req : Unblock(req) \notin {ClearPorts, ClearConntrack}
  BY DEF Unblock, Refused, ClearPorts, ClearConntrack
<1>3. \A req : SetDefault(req) \notin {ClearPorts, ClearConntrack}
  BY DEF SetDefault, Refused, ClearPorts, ClearConntrack
<1>4. ClearIP \notin {ClearPorts, ClearConntrack}
  BY DEF ClearIP, ClearPorts, ClearConntrack
<1>5. [kind |-> "read"] \notin {ClearPorts, ClearConntrack}
      /\ Refused \notin {ClearPorts, ClearConntrack}
  BY DEF Refused, ClearPorts, ClearConntrack
<1>6. \A req : handle(req) \notin {ClearPorts, ClearConntrack}
  BY <1>1, <1>2, <1>3, <1>4, <1>5 DEF handle
<1> QED
  BY <1>1, <1>6, KnownCalls DEF BlockIP

\* The kinds of call there are.
LEMMA Kinds ==
    \A call \in Calls :
        \/ call.kind \in {"put", "del", "setdefault", "read", "refused"}
        \/ call \in {ClearIP, ClearPorts, ClearConntrack}
<1>1. \A req : Block(req).kind \in {"put", "refused"}
  BY DEF Block, Refused
<1>2. \A req : Unblock(req).kind \in {"del", "refused"}
  BY DEF Unblock, Refused
<1>3. \A req : SetDefault(req).kind \in {"setdefault", "refused"}
  BY DEF SetDefault, Refused
<1>4. \A req : \/ handle(req).kind \in {"put", "del", "setdefault", "read", "refused"}
               \/ handle(req) = ClearIP
  BY <1>1, <1>2, <1>3 DEF handle, Refused
<1> QED
  BY <1>1, <1>4 DEF Calls, BlockIP

\* The call of an actor inside one, and the request it belongs to.
LEMMA CallInside ==
    ASSUME ControlTypeOK, NEW a \in Actors, op[a].pc \in Syscalls
    PROVE  LET call == op[a].call
           IN  \/ op[a].pc \in {"setRead", "setWrite", "put"}
                    /\ call.kind = "put" /\ RequestOf(call) = call
               \/ op[a].pc \in {"del"} \cup Syncing
                    /\ call.kind = "del" /\ RequestOf(call) = call /\ call # ClearIP
               \/ op[a].pc \in {"wipe"} \cup Syncing
                    /\ call \in {ClearIP, ClearPorts} /\ RequestOf(call) = ClearIP
               \/ op[a].pc = "config" /\ call.kind = "setdefault" /\ RequestOf(call) = call
               \/ op[a].pc \in {"ctKeys", "ctDel"}
                    /\ call = ClearConntrack /\ RequestOf(call) = ClearIP
<1> DEFINE call == op[a].call
<1>1. op[a].pc \in StepsOf(call) /\ call \in Calls
  BY CallAt DEF ControlTypeOK
<1>2. ClearIP.kind = "clear" /\ ClearPorts.kind = "clear" /\ ClearConntrack.kind = "clearct"
  BY DEF ClearIP, ClearPorts, ClearConntrack
<1> HIDE DEF call
<1>3. \/ call.kind \in {"put", "del", "setdefault", "read", "refused"}
      \/ call \in {ClearIP, ClearPorts, ClearConntrack}
  BY <1>1, Kinds
<1>4. call.kind \in {"put", "del", "setdefault"} => RequestOf(call) = call /\ call # ClearIP
  BY <1>2 DEF RequestOf
<1>5. call \in {ClearIP, ClearPorts, ClearConntrack} => RequestOf(call) = ClearIP
  BY DEF RequestOf
<1> QED
  BY <1>1, <1>2, <1>3, <1>4, <1>5 DEF StepsOf, Syncing, call

(***************************************************************************)
(* What the contract sees of a call.                                       *)
(***************************************************************************)
AskOf(o) ==
    [call  |-> IF o.pc = "idle" THEN NoRule ELSE RequestOf(o.call),
     phase |-> IF o.pc = "idle" THEN "idle"
               ELSE IF o.pc \in Asking \/ (o.pc \in Syncing /\ o.call = ClearIP) THEN "asked"
               ELSE IF o.pc \in {"return", "reply"} /\ ~ o.ok THEN "failed"
               ELSE "done"]

LEMMA AskIs ==
    /\ ask = [a \in Actors |-> AskOf(op[a])]
    /\ ask' = [a \in Actors |-> AskOf(op'[a])]
BY DEF ask, AskOf, PhaseOf, At, Asking, Syncing

\* One actor's call moves, and with it one client's request ...
LEMMA AskMoves ==
    ASSUME ControlTypeOK, NEW a \in Actors, NEW x, op' = [op EXCEPT ![a] = x]
    PROVE  ask[a] = AskOf(op[a]) /\ ask' = [ask EXCEPT ![a] = AskOf(x)]
<1>1. \A b \in Actors : op'[b] = IF b = a THEN x ELSE op[b]
  BY DEF ControlTypeOK
<1> HIDE DEF AskOf
<1> QED
  BY <1>1, AskIs

\* ... which turns to another phase, or stays as it is.
LEMMA AskTurns ==
    ASSUME ControlTypeOK, NEW a \in Actors, NEW x, op' = [op EXCEPT ![a] = x],
           op[a].pc # "idle", x.pc # "idle", RequestOf(x.call) = RequestOf(op[a].call)
    PROVE  /\ ask[a].call = RequestOf(op[a].call)
           /\ ask[a].phase = AskOf(op[a]).phase
           /\ Service!Turn(a, AskOf(x).phase)
           /\ AskOf(x).phase = AskOf(op[a]).phase => UNCHANGED ask
<1>1. ask[a] = AskOf(op[a]) /\ ask' = [ask EXCEPT ![a] = AskOf(x)]
  BY AskMoves
<1>2. /\ ask[a] = [call |-> RequestOf(op[a].call), phase |-> AskOf(op[a]).phase]
      /\ AskOf(x) = [call |-> RequestOf(op[a].call), phase |-> AskOf(x).phase]
  BY <1>1 DEF AskOf
<1>3. ask = [b \in Actors |-> ask[b]]
  BY AskIs
<1>4. \A p : [ask[a] EXCEPT !.phase = p] = [call |-> RequestOf(op[a].call), phase |-> p]
  BY <1>2
<1> HIDE DEF AskOf, ask
<1>5. [ask EXCEPT ![a] = AskOf(x)] = [ask EXCEPT ![a].phase = AskOf(x).phase]
  BY <1>2, <1>4
<1>6. AskOf(x).phase = AskOf(op[a]).phase => UNCHANGED ask
  BY <1>1, <1>2, <1>3
<1>7. ask[a].call = RequestOf(op[a].call) /\ ask[a].phase = AskOf(op[a]).phase
  BY <1>2
<1> QED
  BY <1>1, <1>5, <1>6, <1>7 DEF Service!Turn

\* How a call begins and ends.
LEMMA CallEnds ==
    ASSUME NEW call, NEW ok \in BOOLEAN
    PROVE  /\ Enter(call).pc = FirstStep(call) /\ Enter(call).call = call
           /\ Enter(call).ok = (call.kind = "read")
           /\ Outcome(call, ok).pc = "return" /\ Outcome(call, ok).call = call
           /\ Outcome(call, ok).ok = ok
BY DEF Enter, Outcome, Idle

(***************************************************************************)
(* Steps inside a call.                                                    *)
(***************************************************************************)
ServiceStep == Service!SNext \/ UNCHANGED <<rules, firewall_config, ask>>

\* A call that fails, before it took effect or after, is a request that fails.
LEMMA FailImplements ==
    ASSUME ControlTypeOK, NEW a \in Actors, op[a].pc \in Syscalls, Fail(a),
           UNCHANGED <<rules, firewall_config>>
    PROVE  ServiceStep
<1> DEFINE x == Outcome(op[a].call, FALSE)
<1>1. op' = [op EXCEPT ![a] = x]
  BY DEF Fail, ControlTypeOK
<1>2. x.pc = "return" /\ x.call = op[a].call /\ x.ok = FALSE
  BY CallEnds
<1> HIDE DEF x
<1>3. AskOf(x).phase = "failed" /\ AskOf(op[a]).phase \in {"asked", "done"}
  BY <1>2 DEF AskOf, Syscalls, Asking, Syncing
<1>4. Service!Turn(a, "failed") /\ ask[a].phase \in {"asked", "done"}
  BY <1>1, <1>2, <1>3, AskTurns DEF Syscalls
<1>5. Service!Fail(a)
  BY <1>4 DEF Service!Fail
<1> QED
  BY <1>5 DEF ServiceStep, Service!SNext

\* A step that neither shows in rules and policy nor moves the request on.
LEMMA SilentStep ==
    ASSUME ControlTypeOK, NEW a \in Actors, NEW x, op' = [op EXCEPT ![a] = x],
           op[a].pc # "idle", x.pc # "idle", RequestOf(x.call) = RequestOf(op[a].call),
           AskOf(x).phase = AskOf(op[a]).phase,
           UNCHANGED <<rules, firewall_config>>
    PROVE  ServiceStep
BY AskTurns DEF ServiceStep

LEMMA PutImplements ==
    ASSUME ControlTypeOK, NEW a \in Actors,
           SetPresenceRead(a) \/ SetPresenceWrite(a) \/ PutRule(a)
    PROVE  ServiceStep
<1> USE DEF At
<1>1. op[a].pc \in Syscalls /\ op[a] \in Op /\ op \in [Actors -> Op]
  BY DEF SetPresenceRead, SetPresenceWrite, PutRule, Syscalls, ControlTypeOK
<1>2. op[a].call.kind = "put" /\ RequestOf(op[a].call) = op[a].call
  BY <1>1, CallInside DEF SetPresenceRead, SetPresenceWrite, PutRule, Syncing
<1>3. AskOf(op[a]).phase = "asked"
  BY DEF SetPresenceRead, SetPresenceWrite, PutRule, AskOf, Asking
<1>4. CASE SetPresenceRead(a) \/ SetPresenceWrite(a)
  <2> DEFINE x == op'[a]
  <2>1. /\ op' = [op EXCEPT ![a] = x]
        /\ x.pc \in {"setWrite", "put"} /\ x.call = op[a].call
    BY <1>1, <1>4 DEF SetPresenceRead, SetPresenceWrite, Op
  <2>2. UNCHANGED <<rules, firewall_config>>
    BY <1>4 DEF SetPresenceRead, SetPresenceWrite, maps
  <2> HIDE DEF x
  <2>3. AskOf(x).phase = "asked"
    BY <2>1 DEF AskOf, Asking
  <2> QED
    BY <1>1, <1>3, <2>1, <2>2, <2>3, SilentStep DEF Syscalls
<1>5. CASE PutRule(a) /\ Fail(a) /\ UNCHANGED rules
  BY <1>1, <1>5, FailImplements DEF PutRule
<1>6. CASE /\ PutRule(a) /\ Succeed(a)
           /\ rules' = [rules EXCEPT ![Table(a)][Key(a)] = op[a].call.val]
  <2> DEFINE x == Outcome(op[a].call, TRUE)
  <2>1. op[a].call \notin {ClearIP, ClearPorts}
    BY <1>2 DEF ClearIP, ClearPorts
  <2>2. op' = [op EXCEPT ![a] = x]
    BY <1>1, <1>6, <2>1 DEF Succeed
  <2>3. x.pc = "return" /\ x.call = op[a].call /\ x.ok = TRUE
    BY CallEnds
  <2> HIDE DEF x
  <2>4. AskOf(x).phase = "done"
    BY <2>3 DEF AskOf, Asking, Syncing
  <2>5. /\ ask[a].call = op[a].call /\ ask[a].phase = "asked"
        /\ Service!Turn(a, "done")
    BY <1>1, <1>2, <1>3, <2>2, <2>3, <2>4, AskTurns DEF Syscalls
  <2>6. Service!Put(a)
    BY <1>2, <1>6, <2>5 DEF Service!Put, Service!Asked, PutRule, Table, Key
  <2> QED
    BY <2>6 DEF ServiceStep, Service!SNext
<1> QED
  BY <1>4, <1>5, <1>6 DEF PutRule

LEMMA DeleteImplements ==
    ASSUME ControlTypeOK, NEW a \in Actors, DeleteRule(a)
    PROVE  ServiceStep
<1> USE DEF At
<1>1. op[a].pc = "del" /\ op[a].pc \in Syscalls /\ op[a] \in Op /\ op \in [Actors -> Op]
  BY DEF DeleteRule, Syscalls, ControlTypeOK
<1>2. op[a].call.kind = "del" /\ RequestOf(op[a].call) = op[a].call /\ op[a].call # ClearIP
  BY <1>1, CallInside DEF Syncing
<1>3. CASE Fail(a) /\ UNCHANGED rules
  BY <1>1, <1>3, FailImplements DEF DeleteRule
<1>4. CASE /\ Goto(a, "has") /\ Key(a) \in Stored(Table(a))
           /\ rules' = [rules EXCEPT ![Table(a)][Key(a)] = NoRule]
  <2> DEFINE x == [op[a] EXCEPT !.pc = "has"]
  <2>1. op' = [op EXCEPT ![a] = x] /\ x.pc = "has" /\ x.call = op[a].call
    BY <1>1, <1>4 DEF Goto, Op
  <2> HIDE DEF x
  <2>2. AskOf(x).phase = "done" /\ AskOf(op[a]).phase = "asked"
    BY <1>1, <1>2, <2>1 DEF AskOf, Asking, Syncing
  <2>3. /\ ask[a].call = op[a].call /\ ask[a].phase = "asked"
        /\ Service!Turn(a, "done")
    BY <1>1, <1>2, <2>1, <2>2, AskTurns
  <2>4. rules[Table(a)][Key(a)] # NoRule
    BY <1>4 DEF Stored, Matched
  <2>5. Service!Delete(a)
    BY <1>2, <1>4, <2>3, <2>4 DEF Service!Delete, Service!Asked, DeleteRule, Table, Key
  <2> QED
    BY <2>5 DEF ServiceStep, Service!SNext
<1> QED
  BY <1>3, <1>4 DEF DeleteRule

\* A table that stores nothing has no rule under any of its keys.
LEMMA EmptyTable ==
    ASSUME MapsTypeOK, NEW t \in Tables, Stored(t) = {}
    PROVE  \A k \in DOMAIN rules[t] : rules[t][k] = NoRule
BY DEF MapsTypeOK, Stored, Matched

\* A clear sweeps while it finds rules; it has swept when it finds no port rule.
LEMMA WipeImplements ==
    ASSUME MapsTypeOK, ControlTypeOK, StaysEmpty, NEW a \in Actors, WipeRule(a)
    PROVE  ServiceStep
<1> USE DEF At
<1>1. op[a].pc = "wipe" /\ op[a].pc \in Syscalls /\ op[a] \in Op /\ op \in [Actors -> Op]
  BY DEF WipeRule, Syscalls, ControlTypeOK
<1>2. op[a].call \in {ClearIP, ClearPorts} /\ RequestOf(op[a].call) = ClearIP
  BY <1>1, CallInside, Zenon DEF Syncing
<1>3. Table(a) \in Tables
  BY <1>1, CallAt
<1>4. ask[a].call = ClearIP /\ ask[a].phase = "asked" /\ ClearIP.kind = "clear"
  BY <1>1, <1>2, AskIs DEF AskOf, Asking, ClearIP
<1>5. CASE Stored(Table(a)) = {}
  <2> DEFINE x == [op[a] EXCEPT !.pc = "has"]
  <2>1. op' = [op EXCEPT ![a] = x] /\ x.pc = "has" /\ x.call = op[a].call
        /\ UNCHANGED <<rules, firewall_config>>
    BY <1>1, <1>5 DEF WipeRule, Goto, Op
  <2> HIDE DEF x
  <2>2. AskOf(op[a]).phase = "asked"
    BY <1>1 DEF AskOf, Asking
  <2>3. CASE op[a].call = ClearIP
    <3>1. AskOf(x).phase = "asked"
      BY <2>1, <2>3 DEF AskOf, Asking, Syncing
    <3> QED
      BY <1>1, <2>1, <2>2, <3>1, SilentStep
  <2>4. CASE op[a].call = ClearPorts
    <3>1. Table(a) = "PORT" /\ op[a].call # ClearIP
      BY <2>4 DEF Table, ClearPorts, ClearIP
    <3>2. AskOf(x).phase = "done"
      BY <2>1, <3>1 DEF AskOf, Asking, Syncing
    <3>3. Service!Turn(a, "done")
      BY <1>1, <2>1, <3>2, AskTurns
    <3>4. \A t \in Tables : Stored(t) = {}
      BY <1>1, <1>5, <2>4, <3>1 DEF StaysEmpty, AddressesGone, Tables
    <3>5. Service!Swept(a)
      BY <1>4, <2>1, <3>3, <3>4, EmptyTable DEF Service!Swept, Service!Asked
    <3> QED
      BY <3>5 DEF ServiceStep, Service!SNext
  <2> QED
    BY <1>2, <2>3, <2>4
<1>6. CASE Stored(Table(a)) # {}
  <2>1. PICK k \in Stored(Table(a)) : rules' = [rules EXCEPT ![Table(a)][k] = NoRule]
    BY <1>6 DEF WipeRule
  <2>2. k \in DOMAIN rules[Table(a)]
    BY <1>3, <2>1 DEF Stored, MapsTypeOK
  <2>3. UNCHANGED ask /\ UNCHANGED firewall_config
    BY <1>6, AskIs DEF WipeRule
  <2>4. Service!Sweep(a)
    BY <1>3, <1>4, <2>1, <2>2, <2>3 DEF Service!Sweep, Service!Asked
  <2> QED
    BY <2>4 DEF ServiceStep, Service!SNext
<1> QED
  BY <1>5, <1>6

\* The flags are nothing the contract sees, and a clear that goes on to its
\* next call is still the same request.
LEMMA SyncImplements ==
    ASSUME ControlTypeOK, NEW a \in Actors,
           MapHasEntries(a) \/ SyncPresenceRead(a) \/ SyncPresenceWrite(a)
    PROVE  ServiceStep
<1> USE DEF At
<1>1. /\ op[a].pc \in Syncing /\ op[a].pc \in Syscalls
      /\ op[a] \in Op /\ op \in [Actors -> Op]
  BY DEF MapHasEntries, SyncPresenceRead, SyncPresenceWrite, Syncing, Syscalls, ControlTypeOK
<1>2. UNCHANGED <<rules, firewall_config>>
  BY DEF MapHasEntries, SyncPresenceRead, SyncPresenceWrite, maps
<1>3. AskOf(op[a]).phase = IF op[a].call = ClearIP THEN "asked" ELSE "done"
  BY <1>1 DEF AskOf, Asking, Syncing
<1>4. CASE MapHasEntries(a) \/ SyncPresenceRead(a)
  <2> DEFINE x == op'[a]
  <2>1. op' = [op EXCEPT ![a] = x] /\ x.pc \in Syncing /\ x.call = op[a].call
    BY <1>1, <1>4 DEF MapHasEntries, SyncPresenceRead, Op, Syncing
  <2> HIDE DEF x
  <2>2. AskOf(x).phase = IF x.call = ClearIP THEN "asked" ELSE "done"
    BY <2>1 DEF AskOf, Asking, Syncing
  <2>3. op[a].pc # "idle" /\ x.pc # "idle"
    BY <1>1, <2>1 DEF Syncing
  <2> QED
    BY <1>2, <1>3, <2>1, <2>2, <2>3, SilentStep
<1>5. CASE SyncPresenceWrite(a)
  <2>0. FirstStep(ClearPorts) = "wipe" /\ FirstStep(ClearConntrack) = "ctKeys"
    BY DEF FirstStep, ClearPorts, ClearConntrack
  <2>1. ClearIP # ClearPorts /\ ClearConntrack \notin {ClearIP, ClearPorts}
    BY DEF ClearIP, ClearPorts, ClearConntrack
  <2>2. \/ op[a].call = ClearIP
        \/ op[a].call = ClearPorts
        \/ op[a].call \notin {ClearIP, ClearPorts}
    OBVIOUS
  <2>3. Succeed(a)
    BY <1>5 DEF SyncPresenceWrite
  <2>4. op[a].pc # "idle"
    BY <1>1 DEF Syncing
  <2>5. CASE op[a].call = ClearIP
    <3> DEFINE x == Enter(ClearPorts)
    <3>1. op' = [op EXCEPT ![a] = x]
      BY <1>1, <2>3, <2>5 DEF Succeed
    <3>2. x.pc = "wipe" /\ x.call = ClearPorts
      BY <2>0, CallEnds
    <3> HIDE DEF x
    <3>3. AskOf(x).phase = "asked" /\ RequestOf(x.call) = RequestOf(op[a].call)
      BY <2>1, <2>5, <3>2, Zenon DEF AskOf, Asking, RequestOf
    <3> QED
      BY <1>2, <1>3, <2>4, <2>5, <3>1, <3>2, <3>3, SilentStep
  <2>6. CASE op[a].call = ClearPorts
    <3> DEFINE x == Enter(ClearConntrack)
    <3>1. op' = [op EXCEPT ![a] = x]
      BY <1>1, <2>1, <2>3, <2>6 DEF Succeed
    <3>2. x.pc = "ctKeys" /\ x.call = ClearConntrack
      BY <2>0, CallEnds
    <3> HIDE DEF x
    <3>3. AskOf(x).phase = "done"
      BY <3>2 DEF AskOf, Asking, Syncing
    <3>4. RequestOf(x.call) = RequestOf(op[a].call)
      BY <2>6, <3>2 DEF RequestOf
    <3> QED
      BY <1>2, <1>3, <2>1, <2>4, <2>6, <3>1, <3>2, <3>3, <3>4, SilentStep
  <2>7. CASE op[a].call \notin {ClearIP, ClearPorts}
    <3> DEFINE x == Outcome(op[a].call, TRUE)
    <3>1. op' = [op EXCEPT ![a] = x]
      BY <1>1, <2>3, <2>7 DEF Succeed
    <3>2. x.pc = "return" /\ x.call = op[a].call /\ x.ok = TRUE
      BY CallEnds
    <3> HIDE DEF x
    <3>3. AskOf(x).phase = "done"
      BY <3>2 DEF AskOf, Asking, Syncing
    <3> QED
      BY <1>2, <1>3, <2>4, <2>7, <3>1, <3>2, <3>3, SilentStep
  <2> QED
    BY <2>2, <2>5, <2>6, <2>7
<1> QED
  BY <1>4, <1>5

LEMMA SetDefaultImplements ==
    ASSUME ControlTypeOK, NEW a \in Actors, SetDefaultPolicy(a)
    PROVE  ServiceStep
<1>1. op[a].pc = "config" /\ op[a].pc \in Syscalls /\ op \in [Actors -> Op]
  BY DEF SetDefaultPolicy, At, Syscalls, ControlTypeOK
<1>2. op[a].call.kind = "setdefault" /\ RequestOf(op[a].call) = op[a].call
  BY <1>1, CallInside DEF Syncing
<1> DEFINE x == Outcome(op[a].call, TRUE)
<1>3. op' = [op EXCEPT ![a] = x]
  <2>1. op[a].call \notin {ClearIP, ClearPorts}
    BY <1>2 DEF ClearIP, ClearPorts
  <2> QED
    BY <1>1, <2>1 DEF SetDefaultPolicy, Succeed
<1>4. x.pc = "return" /\ x.call = op[a].call /\ x.ok = TRUE
  BY CallEnds
<1> HIDE DEF x
<1>5. AskOf(x).phase = "done" /\ AskOf(op[a]).phase = "asked"
  BY <1>1, <1>4 DEF AskOf, Asking, Syncing
<1>6. /\ ask[a].call = op[a].call /\ ask[a].phase = "asked"
      /\ Service!Turn(a, "done")
  BY <1>1, <1>2, <1>3, <1>4, <1>5, AskTurns
<1>7. Service!SetPolicy(a)
  BY <1>2, <1>6 DEF Service!SetPolicy, Service!Asked, SetDefaultPolicy, ruleVars
<1> QED
  BY <1>7 DEF ServiceStep, Service!SNext

\* The last call of a clear: what was asked of the rules is done.
LEMMA ConntrackImplements ==
    ASSUME ControlTypeOK, NEW a \in Actors, ConntrackKeys(a) \/ ConntrackDelete(a)
    PROVE  ServiceStep
<1>1. /\ op[a].pc \in {"ctKeys", "ctDel"} /\ op[a].pc \in Syscalls
      /\ op[a] \in Op /\ op \in [Actors -> Op]
  BY DEF ConntrackKeys, ConntrackDelete, At, Syscalls, ControlTypeOK
<1>2. op[a].call = ClearConntrack
  BY <1>1, CallInside DEF Syncing
<1>3. UNCHANGED <<rules, firewall_config>>
  BY DEF ConntrackKeys, ConntrackDelete, maps, ruleVars
<1>4. CASE Fail(a)
  BY <1>1, <1>3, <1>4, FailImplements
<1>5. AskOf(op[a]).phase = "done"
  BY <1>1 DEF AskOf, Asking, Syncing
<1>6. ASSUME NEW x, op' = [op EXCEPT ![a] = x], x.call = op[a].call,
             x.pc \in {"ctKeys", "ctDel"} \/ (x.pc = "return" /\ x.ok)
      PROVE  ServiceStep
  <2>1. AskOf(x).phase = "done"
    BY <1>6 DEF AskOf, Asking, Syncing
  <2> QED
    BY <1>1, <1>3, <1>5, <1>6, <2>1, SilentStep
<1>7. CASE Succeed(a)
  <2>1. op[a].call \notin {ClearIP, ClearPorts}
    BY <1>2 DEF ClearIP, ClearPorts, ClearConntrack
  <2>2. op' = [op EXCEPT ![a] = Outcome(op[a].call, TRUE)]
    BY <1>1, <1>7, <2>1 DEF Succeed
  <2> QED
    BY <1>6, <2>2, CallEnds
<1>8. CASE ~ Fail(a) /\ ~ Succeed(a)
  <2>1. /\ op' = [op EXCEPT ![a] = op'[a]] /\ op'[a].call = op[a].call
        /\ op'[a].pc \in {"ctKeys", "ctDel"}
    BY <1>1, <1>8 DEF ConntrackKeys, ConntrackDelete, At, Op
  <2> QED
    BY <1>6, <2>1
<1> QED
  BY <1>4, <1>7, <1>8

LEMMA ManagerImplements ==
    ASSUME MapsTypeOK, ControlTypeOK, StaysEmpty, NEW a \in Actors, ManagerStep(a)
    PROVE  ServiceStep
<1>1. SyscallError(a) => ServiceStep
  BY FailImplements DEF SyscallError, maps
<1> QED
  BY <1>1, PutImplements, DeleteImplements, WipeImplements, SyncImplements,
     SetDefaultImplements, ConntrackImplements DEF ManagerStep

(***************************************************************************)
(* The request's way in and out, and main's list.                          *)
(***************************************************************************)
LEMMA AcceptImplements ==
    ASSUME ControlTypeOK, NEW h \in Handlers, NEW req \in Requests, Accept(h, req)
    PROVE  ServiceStep
<1> DEFINE x == [Idle EXCEPT !.pc = "lock", !.call = handle(req)]
<1>1. h \in Actors /\ handle(req) \in Calls \ {ClearPorts, ClearConntrack}
  BY AskedCalls DEF Actors
<1>2. /\ op' = [op EXCEPT ![h] = x] /\ op[h].pc = "idle"
      /\ UNCHANGED <<rules, firewall_config>>
  BY DEF Accept, At, maps
<1>3. x.pc = "lock" /\ x.call = handle(req)
  BY DEF Idle
<1> HIDE DEF x
<1>4. ask[h] = AskOf(op[h]) /\ ask' = [ask EXCEPT ![h] = AskOf(x)]
  BY <1>1, <1>2, AskMoves
<1>5. RequestOf(handle(req)) = handle(req)
  BY <1>1 DEF RequestOf
<1>6. AskOf(x) = [call |-> handle(req), phase |-> "asked"] /\ AskOf(op[h]).phase = "idle"
  BY <1>2, <1>3, <1>5 DEF AskOf, Asking
<1>7. Service!Ask(h)
  BY <1>1, <1>2, <1>4, <1>6 DEF Service!Ask
<1> QED
  BY <1>1, <1>7 DEF ServiceStep, Service!SNext

\* Behind the mutex a request that reads is done, one that was refused fails,
\* and any other is still to be carried out.
LEMMA LockImplements ==
    ASSUME ControlTypeOK, AsksKnown, NEW h \in Handlers, Lock(h)
    PROVE  ServiceStep
<1> DEFINE call == op[h].call
           x == Enter(call)
<1>1. /\ h \in Actors /\ op[h].pc = "lock" /\ call \in Calls \cup {NoCall}
      /\ call \notin {ClearPorts, ClearConntrack}
  BY DEF ControlTypeOK, Actors, AsksKnown, Lock, At, Op
<1>2. op' = [op EXCEPT ![h] = x] /\ UNCHANGED <<rules, firewall_config>>
  BY DEF Lock, maps
<1>3. x.pc = FirstStep(call) /\ x.call = call /\ x.ok = (call.kind = "read")
  BY CallEnds
<1> HIDE DEF x, call
<1>4. \/ call.kind \in {"put", "del", "setdefault", "read", "refused"}
      \/ call = ClearIP /\ call.kind = "clear"
  BY <1>1, Kinds DEF NoCall, Refused, ClearIP
<1>5. RequestOf(call) = call
  BY <1>1 DEF RequestOf
<1>6. FirstStep(call) # "idle"
  BY DEF FirstStep
<1>7. AskOf(op[h]).phase = "asked"
  BY <1>1 DEF AskOf, Asking
<1>8. /\ ask[h].call = call /\ ask[h].phase = "asked"
      /\ Service!Turn(h, AskOf(x).phase)
      /\ AskOf(x).phase = "asked" => UNCHANGED ask
  BY <1>1, <1>2, <1>3, <1>5, <1>6, <1>7, AskTurns DEF call
<1>9. CASE call.kind = "read"
  <2>1. AskOf(x).phase = "done"
    BY <1>3, <1>9 DEF AskOf, FirstStep, Asking, Syncing
  <2>2. Service!Look(h)
    BY <1>2, <1>8, <1>9, <2>1 DEF Service!Look, Service!Asked
  <2> QED
    BY <1>1, <2>2 DEF ServiceStep, Service!SNext
<1>10. CASE call.kind = "refused"
  <2>1. AskOf(x).phase = "failed"
    BY <1>3, <1>10 DEF AskOf, FirstStep, Asking, Syncing
  <2>2. Service!Fail(h)
    BY <1>2, <1>8, <2>1 DEF Service!Fail
  <2> QED
    BY <1>1, <2>2 DEF ServiceStep, Service!SNext
<1>11. CASE call.kind \in {"put", "del", "setdefault", "clear"}
  <2>1. AskOf(x).phase = "asked"
    BY <1>3, <1>11 DEF AskOf, FirstStep, Asking
  <2> QED
    BY <1>2, <1>8, <2>1 DEF ServiceStep
<1> QED
  BY <1>4, <1>9, <1>10, <1>11

\* The deferred Unlock shows nothing, and the answer is the outcome.
LEMMA AnswerImplements ==
    ASSUME ControlTypeOK, NEW a \in Actors, op[a].pc \in {"return", "reply"},
           \/ Goto(a, "reply")
           \/ op' = [op EXCEPT ![a] = Idle],
           UNCHANGED maps
    PROVE  ServiceStep
<1>1. op[a] \in Op /\ op \in [Actors -> Op] /\ UNCHANGED <<rules, firewall_config>>
  BY DEF ControlTypeOK, maps
<1>2. AskOf(op[a]).phase = IF op[a].ok THEN "done" ELSE "failed"
  BY DEF AskOf, Asking, Syncing
<1>3. CASE Goto(a, "reply")
  <2> DEFINE x == [op[a] EXCEPT !.pc = "reply"]
  <2>1. /\ op' = [op EXCEPT ![a] = x]
        /\ x.pc = "reply" /\ x.call = op[a].call /\ x.ok = op[a].ok
    BY <1>1, <1>3 DEF Goto, Op
  <2> HIDE DEF x
  <2>2. AskOf(x).phase = IF op[a].ok THEN "done" ELSE "failed"
    BY <2>1 DEF AskOf, Asking, Syncing
  <2> QED
    BY <1>1, <1>2, <2>1, <2>2, SilentStep
<1>4. CASE op' = [op EXCEPT ![a] = Idle]
  <2>1. ask[a] = AskOf(op[a]) /\ ask' = [ask EXCEPT ![a] = AskOf(Idle)]
    BY <1>4, AskMoves
  <2>2. AskOf(Idle) = [call |-> NoRule, phase |-> "idle"]
    BY DEF AskOf, Idle
  <2>3. Service!Answer(a)
    BY <1>1, <1>2, <2>1, <2>2 DEF Service!Answer, Service!Nothing
  <2> QED
    BY <2>3 DEF ServiceStep, Service!SNext
<1> QED
  BY <1>3, <1>4

\* main asks the list's entries of itself, one at a time; a bad one fails.
LEMMA StartupImplements ==
    ASSUME ControlTypeOK, StartupBlock
    PROVE  ServiceStep
<1> DEFINE call == BlockIP(Startup[boot + 1])
           x == Enter(call)
<1>1. boot + 1 \in 1 .. Len(Startup)
  BY LimitAssumption DEF StartupBlock, ControlTypeOK
<1>2. call \in Calls /\ call.kind \in {"put", "refused"}
  BY <1>1, AskedCalls
<1>3. /\ Main \in Actors /\ op[Main].pc = "idle"
      /\ op' = [op EXCEPT ![Main] = x] /\ UNCHANGED <<rules, firewall_config>>
  BY DEF StartupBlock, At, Actors, maps
<1>4. x.pc = FirstStep(call) /\ x.call = call /\ x.ok = (call.kind = "read")
  BY CallEnds
<1> HIDE DEF x, call
<1>5. ask[Main] = AskOf(op[Main]) /\ ask' = [ask EXCEPT ![Main] = AskOf(x)]
  BY <1>3, AskMoves
<1>6. RequestOf(call) = call
  BY <1>2 DEF RequestOf, ClearPorts, ClearConntrack
<1>7. \E phase \in {"asked", "failed"} : AskOf(x) = [call |-> call, phase |-> phase]
  BY <1>2, <1>4, <1>6 DEF AskOf, FirstStep, Asking, Syncing
<1>8. AskOf(op[Main]).phase = "idle"
  BY <1>3 DEF AskOf
<1>9. Service!Ask(Main)
  BY <1>2, <1>3, <1>5, <1>7, <1>8 DEF Service!Ask
<1> QED
  BY <1>3, <1>9 DEF ServiceStep, Service!SNext

LEMMA ControlImplements ==
    ASSUME ContractInv, ControlNext
    PROVE  ServiceStep
<1>1. MapsTypeOK /\ ControlTypeOK /\ AsksKnown /\ StaysEmpty
  BY DEF ContractInv, PresenceInv, TypeOK
<1>2. Handlers \subseteq Actors /\ Main \in Actors
  BY DEF Actors
<1>3. ASSUME NEW h \in Handlers, Unlock(h) \/ Reply(h) PROVE ServiceStep
  BY <1>1, <1>2, <1>3, AnswerImplements DEF Unlock, Reply, At
<1>4. StartupNext => ServiceStep
  BY <1>1, <1>2, AnswerImplements DEF StartupNext, At
<1> QED
  BY <1>1, <1>3, <1>4, AcceptImplements, LockImplements, StartupImplements, ManagerImplements
     DEF ControlNext

(***************************************************************************)
(* The invariant and its induction.                                        *)
(***************************************************************************)
LEMMA ContractInit == Init => ContractInv
<1> SUFFICES ASSUME Init PROVE ContractInv
  OBVIOUS
<1>1. \A a \in Actors : op[a].pc = "idle"
  BY DEF Init, ControlInit, Idle
<1> QED
  BY <1>1, PresenceInit DEF ContractInv, AsksKnown, StaysEmpty, AddressesGone, At, Syncing,
                            Syscalls

\* An actor that is not at a manager's step says nothing of the address table.
LEMMA GoneInside ==
    ASSUME NEW a \in Actors, AddressesGone(a)
    PROVE  op[a].pc \in Syscalls
BY DEF AddressesGone, Syncing, Syscalls

\* Where a clear stands after a step of its writer, and what the step did.
LEMMA StillGone ==
    ASSUME MapsTypeOK, ControlTypeOK, NEW a \in Actors, ManagerStep(a),
           AddressesGone(a) => Stored("IP") = {}, AddressesGone(a)'
    PROVE  Stored("IP")' = {}
<1> USE DEF At
<1>1. op[a] \in Op /\ op \in [Actors -> Op]
  BY DEF ControlTypeOK
<1>2. op[a].pc \in Syscalls
  BY ManagerMove
<1>3. /\ ClearIP # ClearPorts /\ ClearConntrack \notin {ClearIP, ClearPorts}
      /\ ClearIP.kind = "clear" /\ ClearPorts.kind = "clear"
      /\ ClearPorts.table = "PORT" /\ ClearIP.table = "IP"
  BY DEF ClearIP, ClearPorts, ClearConntrack
<1>4. op'[a].pc \in Syscalls /\ op'[a].call \in {ClearIP, ClearPorts}
  BY DEF AddressesGone, Syncing, Syscalls
<1>5. UNCHANGED rules /\ Stored("IP") = {} => Stored("IP")' = {}
  BY DEF Stored
<1>6. ~ Fail(a)
  BY <1>4, FailStep DEF Syscalls
<1>7. CASE SetPresenceRead(a) \/ SetPresenceWrite(a)
  <2>1. op[a].call.kind = "put"
    BY <1>2, <1>7, CallInside DEF SetPresenceRead, SetPresenceWrite, Syncing
  <2>2. op'[a].call = op[a].call
    BY <1>1, <1>7 DEF SetPresenceRead, SetPresenceWrite, Op
  <2> QED
    BY <1>3, <1>4, <2>1, <2>2
<1>8. CASE PutRule(a) \/ SetDefaultPolicy(a) \/ (ConntrackDelete(a) /\ Succeed(a))
  <2>1. op[a].call \notin {ClearIP, ClearPorts} /\ Succeed(a)
    BY <1>2, <1>3, <1>6, <1>8, CallInside DEF PutRule, SetDefaultPolicy, ConntrackDelete, Syncing
  <2>2. op'[a] = Outcome(op[a].call, TRUE)
    BY <1>1, <2>1 DEF Succeed
  <2>3. Outcome(op[a].call, TRUE).pc = "return"
    BY CallEnds
  <2> QED
    BY <1>4, <2>2, <2>3 DEF Syscalls
<1>9. CASE DeleteRule(a)
  <2>1. op[a].call.kind = "del" /\ Goto(a, "has")
    BY <1>2, <1>6, <1>9, CallInside DEF DeleteRule, Syncing
  <2>2. op'[a].call = op[a].call
    BY <1>1, <2>1 DEF Goto, Op
  <2> QED
    BY <1>3, <1>4, <2>1, <2>2
<1>10. CASE WipeRule(a)
  <2>1. op[a].call \in {ClearIP, ClearPorts}
    BY <1>2, <1>10, CallInside, Zenon DEF WipeRule, Syncing
  <2>2. CASE Stored(Table(a)) = {}
    <3>1. UNCHANGED rules
      BY <1>10, <2>2 DEF WipeRule
    <3>2. op[a].call = ClearPorts => AddressesGone(a)
      BY <1>2 DEF AddressesGone
    <3> QED
      BY <1>3, <1>5, <2>1, <2>2, <3>1, <3>2 DEF Table
  <2>3. CASE Stored(Table(a)) # {}
    <3>1. UNCHANGED op
      BY <1>10, <2>3 DEF WipeRule
    <3>2. op[a].call = ClearPorts
      BY <1>3, <1>10, <3>1 DEF AddressesGone, WipeRule, Syncing
    <3>3. Stored("IP") = {}
      BY <1>2, <3>2 DEF AddressesGone
    <3>4. PICK k \in Stored("PORT") : rules' = [rules EXCEPT !["PORT"][k] = NoRule]
      BY <1>3, <1>10, <2>3, <3>2 DEF WipeRule, Table
    <3>5. rules'["IP"] = rules["IP"]
      BY <3>4 DEF MapsTypeOK, Tables
    <3> QED
      BY <3>3, <3>5 DEF Stored
  <2> QED
    BY <2>2, <2>3
<1>11. CASE MapHasEntries(a) \/ SyncPresenceRead(a)
  <2>1. op'[a].call = op[a].call /\ UNCHANGED rules
    BY <1>1, <1>11 DEF MapHasEntries, SyncPresenceRead, Op, maps
  <2>2. op[a].pc \in Syncing
    BY <1>11 DEF MapHasEntries, SyncPresenceRead, Syncing
  <2>3. AddressesGone(a)
    BY <1>2, <1>4, <2>1, <2>2 DEF AddressesGone
  <2> QED
    BY <1>5, <2>1, <2>3
<1>12. CASE SyncPresenceWrite(a)
  <2>1. op[a].pc \in Syncing /\ Succeed(a) /\ UNCHANGED rules
    BY <1>12 DEF SyncPresenceWrite, Syncing
  <2>2. op[a].call \notin {ClearIP, ClearPorts} => op'[a] = Outcome(op[a].call, TRUE)
    BY <1>1, <2>1 DEF Succeed
  <2>3. op[a].call \in {ClearIP, ClearPorts}
    BY <1>4, <2>2, CallEnds DEF Syscalls
  <2>4. AddressesGone(a)
    BY <1>2, <2>1, <2>3 DEF AddressesGone
  <2> QED
    BY <1>5, <2>1, <2>4
<1>13. CASE ConntrackKeys(a) \/ (ConntrackDelete(a) /\ ~ Succeed(a))
  <2>1. op'[a].call = op[a].call
    BY <1>1, <1>6, <1>13 DEF ConntrackKeys, ConntrackDelete, Op
  <2>2. op[a].call = ClearConntrack
    BY <1>2, <1>13, CallInside DEF ConntrackKeys, ConntrackDelete, Syncing
  <2> QED
    BY <1>3, <1>4, <2>1, <2>2
<1>14. ~ SyscallError(a)
  BY <1>6 DEF SyscallError
<1> QED
  BY <1>7, <1>8, <1>9, <1>10, <1>11, <1>12, <1>13, <1>14 DEF ManagerStep

LEMMA ControlContract ==
    ASSUME ContractInv, ControlNext
    PROVE  AsksKnown' /\ StaysEmpty'
<1> USE DEF At
<1>1. /\ MapsTypeOK /\ ControlTypeOK /\ MutexHeld /\ StartupAlone
      /\ op \in [Actors -> Op] /\ Handlers \subseteq Actors /\ Main \in Actors
  BY DEF ContractInv, PresenceInv, TypeOK, SoleWriterKnows, ControlTypeOK, Actors
<1>2. ASSUME NEW a \in Actors, ManagerStep(a)
      PROVE  AsksKnown' /\ StaysEmpty'
  <2>1. /\ op[a].pc \in Locked /\ op'[a].pc \in Locked
        /\ \A b \in Actors \ {a} : op'[b] = op[b]
    BY <1>1, <1>2, ManagerMove DEF Locked
  <2>2. AsksKnown'
    BY <2>1 DEF ContractInv, AsksKnown, Locked, Syscalls
  <2>3. ASSUME NEW b \in Actors, AddressesGone(b)' PROVE Stored("IP")' = {}
    <3>1. CASE b = a
      BY <1>1, <1>2, <2>3, <3>1, StillGone DEF ContractInv, StaysEmpty
    <3>2. CASE b # a
      <4>1. op[b].pc \notin Locked
        BY <1>1, <2>1, <3>2, OneInside
      <4> QED
        BY <2>1, <2>3, <3>2, <4>1 DEF AddressesGone, Syncing, Syscalls, Locked
    <3> QED
      BY <3>1, <3>2
  <2> QED
    BY <2>2, <2>3 DEF StaysEmpty
<1>3. ASSUME NEW a \in Actors, NEW x, op' = [op EXCEPT ![a] = x], UNCHANGED maps,
             x.pc \in {"idle", "lock", "return", "reply", "setRead", "del", "wipe", "ctKeys",
                       "config"},
             x.pc \in {"lock"} \cup Syscalls => x.call \notin {ClearPorts, ClearConntrack}
      PROVE  AsksKnown' /\ StaysEmpty'
  <2>1. \A b \in Actors : op'[b] = IF b = a THEN x ELSE op[b]
    BY <1>1, <1>3
  <2>2. AsksKnown'
    BY <1>3, <2>1 DEF ContractInv, AsksKnown
  <2>3. UNCHANGED rules
    BY <1>3 DEF maps
  <2>4. \A b \in Actors : AddressesGone(b)' => AddressesGone(b)
    BY <1>3, <2>1 DEF AddressesGone, Syncing, Syscalls
  <2> QED
    BY <2>2, <2>3, <2>4 DEF ContractInv, StaysEmpty, Stored
<1>4. ASSUME NEW call \in Calls \cup {NoCall}, call \notin {ClearPorts, ClearConntrack},
             NEW a \in Actors, op' = [op EXCEPT ![a] = Enter(call)], UNCHANGED maps
      PROVE  AsksKnown' /\ StaysEmpty'
  <2> DEFINE x == Enter(call)
  <2>1. x.pc \in {"return", "setRead", "del", "wipe", "ctKeys", "config"} /\ x.call = call
    BY EnterType
  <2> HIDE DEF x
  <2> QED
    BY <1>3, <1>4, <2>1 DEF x
<1>5. ASSUME NEW h \in Handlers, NEW req \in Requests, Accept(h, req)
      PROVE  AsksKnown' /\ StaysEmpty'
  <2> DEFINE x == [Idle EXCEPT !.pc = "lock", !.call = handle(req)]
  <2>1. x.pc = "lock" /\ x.call = handle(req)
    BY DEF Idle
  <2> HIDE DEF x
  <2>2. op' = [op EXCEPT ![h] = x] /\ UNCHANGED maps
    BY <1>5 DEF Accept, x
  <2>3. x.call \notin {ClearPorts, ClearConntrack}
    BY <2>1, AskedCalls
  <2> QED
    BY <1>1, <1>3, <2>1, <2>2, <2>3
<1>6. ASSUME NEW h \in Handlers, Lock(h)
      PROVE  AsksKnown' /\ StaysEmpty'
  <2>1. op[h].call \in Calls \cup {NoCall} /\ op[h].call \notin {ClearPorts, ClearConntrack}
    BY <1>1, <1>6 DEF Lock, ContractInv, AsksKnown, Op
  <2> QED
    BY <1>1, <1>4, <1>6, <2>1 DEF Lock
<1>7. ASSUME NEW h \in Handlers, Unlock(h)
      PROVE  AsksKnown' /\ StaysEmpty'
  <2> DEFINE x == [op[h] EXCEPT !.pc = "reply"]
  <2>1. x.pc = "reply"
    BY <1>1 DEF Op
  <2>2. op' = [op EXCEPT ![h] = x] /\ UNCHANGED maps
    BY <1>1, <1>7 DEF Unlock, Goto
  <2> HIDE DEF x
  <2> QED
    BY <1>1, <1>3, <2>1, <2>2 DEF Syscalls
<1>8. ASSUME NEW a \in Actors, op' = [op EXCEPT ![a] = Idle], UNCHANGED maps
      PROVE  AsksKnown' /\ StaysEmpty'
  BY <1>1, <1>3, <1>8 DEF Idle, Syscalls
<1>9. CASE StartupBlock
  <2>1. boot + 1 \in 1 .. Len(Startup)
    BY <1>1, <1>9, LimitAssumption DEF StartupBlock, ControlTypeOK
  <2>2. /\ BlockIP(Startup[boot + 1]) \in Calls
        /\ BlockIP(Startup[boot + 1]) \notin {ClearPorts, ClearConntrack}
    BY <2>1, AskedCalls DEF ClearPorts, ClearConntrack
  <2> QED
    BY <1>1, <1>4, <1>9, <2>2 DEF StartupBlock
<1> QED
  BY <1>1, <1>2, <1>5, <1>6, <1>7, <1>8, <1>9 DEF ControlNext, Reply, StartupNext

\* Only main and the handlers touch rules, policy and calls.
LEMMA OthersLeave ==
    ASSUME [Next]_vars
    PROVE  ControlNext \/ UNCHANGED <<rules, firewall_config, op>>
<1>1. UNCHANGED <<maps, now>> => UNCHANGED <<rules, firewall_config>>
  BY DEF maps
<1>2. ASSUME NEW c \in Cpus, (\E f \in Frames : Receive(c, f)) \/ ProgramStep(c)
      PROVE  UNCHANGED <<rules, firewall_config>>
  BY <1>1, <1>2
     DEF ruleVars, ProgramStep, Receive, RawVerdict, ReadPresence, LookupSource,
         LookupDestination, ProbePort, Decide, EstablishedLookup, EstablishedState, CtLookup,
         CtTouch, CtUpdateState, CtEstablish, CtInsertNew, CountTotal, CountTotalBytes,
         CountVerdict, CountVerdictBytes
<1>3. DatapathNext /\ UNCHANGED controlVars => UNCHANGED <<rules, firewall_config, op>>
  BY <1>2 DEF DatapathNext, controlVars
<1>4. ReaperNext /\ UNCHANGED controlVars => UNCHANGED <<rules, firewall_config, op>>
  BY DEF ReaperNext, ReapStart, ReapScan, ReapDelete, ReapEnd, maps, ruleVars, controlVars
<1>5. Tick \/ UNCHANGED vars => UNCHANGED <<rules, firewall_config, op>>
  BY DEF Tick, vars, maps, controlVars
<1> QED
  BY <1>3, <1>4, <1>5 DEF Next, TimedNext

LEMMA ContractNext == ContractInv /\ [Next]_vars => ContractInv'
<1> SUFFICES ASSUME ContractInv, [Next]_vars PROVE ContractInv'
  OBVIOUS
<1>1. PresenceInv'
  BY PresenceNext DEF ContractInv
<1>2. CASE ControlNext
  BY <1>1, <1>2, ControlContract DEF ContractInv
<1>3. CASE UNCHANGED <<rules, op>>
  BY <1>1, <1>3 DEF ContractInv, AsksKnown, StaysEmpty, AddressesGone, At, Stored
<1> QED
  BY <1>2, <1>3, OthersLeave

(***************************************************************************)
(* The refinement.                                                         *)
(***************************************************************************)
LEMMA ServiceInit == Init => Service!SInit
<1> SUFFICES ASSUME Init PROVE Service!SInit
  OBVIOUS
<1>1. rules = [t \in Tables |-> [k \in DOMAIN rules[t] |-> NoRule]] /\ firewall_config = "ALLOW"
  BY DEF Init, MapsInit
<1>2. ask = [a \in Actors |-> Service!Nothing]
  BY AskIs DEF Init, ControlInit, Idle, AskOf, Service!Nothing
<1> QED
  BY <1>1, <1>2 DEF Service!SInit

LEMMA ServiceNext ==
    ContractInv /\ [Next]_vars =>
        [Service!service' # Service!service /\ Service!SNext]_(Service!service)
<1> SUFFICES ASSUME ContractInv, [Next]_vars
             PROVE  Service!SNext \/ UNCHANGED <<rules, firewall_config, ask>>
  BY DEF Service!service
<1>1. CASE ControlNext
  BY <1>1, ControlImplements DEF ServiceStep
<1>2. CASE UNCHANGED <<rules, firewall_config, op>>
  BY <1>2, AskIs
<1> QED
  BY <1>1, <1>2, OthersLeave

\* server.go:171-274 and the managers under control/ebpf: a request that is
\* answered OK is carried out once, at one moment between question and answer; a
\* failed one at most once; a clear ends at a moment when no rule is left in
\* either table; and the datapath, the reaper and the flags' upkeep change
\* nothing that was asked for.
THEOREM ContractKept == Spec => KeepsContract
BY ContractInit, ContractNext, ServiceInit, ServiceNext, PTL DEF Spec, KeepsContract, Service!SSpec
===============================================================================
