----------------------------- MODULE ControlPlane -----------------------------
(***************************************************************************)
(* The daemon's writers of policy: the connection handlers of the control  *)
(* server, each of which applies one request at a time under Server.mu,    *)
(* and main, which applies the -block list before the server starts and    *)
(* takes no lock.  Both run the same manager code (control/ebpf), one map  *)
(* operation per step; the XDP program is attached all along.              *)
(*                                                                         *)
(* op[a] is the call an actor is executing: the step it is at, the flags   *)
(* and the emptiness it has read, its walk over conntrack and the outcome. *)
(***************************************************************************)
EXTENDS KernelMaps

CONSTANTS
    Handlers,       \* goroutines running handleConn
    Main,           \* the goroutine of main
    Free,           \* the mutex is not held
    SyscallsFail    \* may a map operation fail for the kernel's own reasons?

ASSUME ActorAssumption ==
    /\ Main \notin Handlers
    /\ Free \notin Handlers
    /\ SyscallsFail \in BOOLEAN

VARIABLES
    mu,     \* Server.mu: its holder, or Free
    op,     \* [Actors -> the call in progress]
    boot    \* entries of the -block list main has taken up

Actors == Handlers \cup {Main}
controlVars == <<mu, op, boot>>

\* Steps that perform a map operation, and those with the mutex held.
Syscalls == {"setRead", "setWrite", "put", "del", "wipe", "has", "syncRead",
             "syncWrite", "config", "ctKeys", "ctDel"}
Locked == Syscalls \cup {"return"}
Steps == Locked \cup {"idle", "lock", "reply"}

NoCall == Refused

Idle == [pc |-> "idle", call |-> NoCall, flags |-> {}, has |-> FALSE,
         iter |-> NoIter, keys |-> <<>>, ok |-> FALSE]

Op == [pc : Steps, call : Calls \cup {NoCall}, flags : SUBSET Tables,
       has : BOOLEAN, iter : Iter, keys : Seq(Flows), ok : BOOLEAN]

\* Types of the mutex and of the calls in progress; a call is at a step of its
\* own kind.
StepsOf(call) ==
    CASE call.kind = "put"   -> {"setRead", "setWrite", "put"}
      [] call.kind = "del"   -> {"del", "has", "syncRead", "syncWrite"}
      [] call.kind = "clear" -> {"wipe", "has", "syncRead", "syncWrite"}
      [] call.kind = "clearct"    -> {"ctKeys", "ctDel"}
      [] call.kind = "setdefault" -> {"config"}
      [] OTHER -> {}
ControlTypeOK ==
    /\ mu \in Handlers \cup {Free}
    /\ op \in [Actors -> Op]
    /\ boot \in 0 .. Len(Startup)
    /\ \A a \in Actors : op[a].pc \in Syscalls => op[a].pc \in StepsOf(op[a].call)

ControlInit ==
    /\ mu = Free
    /\ op = [a \in Actors |-> Idle]
    /\ boot = 0

\* main has applied the whole list; srv.Start follows.
Started == boot = Len(Startup) /\ op[Main].pc = "idle"

(***************************************************************************)
(* Moves of one actor's program counter.                                   *)
(***************************************************************************)
FirstStep(call) ==
    CASE call.kind = "put"        -> "setRead"
      [] call.kind = "del"        -> "del"
      [] call.kind = "clear"      -> "wipe"
      [] call.kind = "clearct"    -> "ctKeys"
      [] call.kind = "setdefault" -> "config"
      [] OTHER                    -> "return"

\* A call that reads, and one that was refused, change nothing.
Enter(call) ==
    [Idle EXCEPT !.pc = FirstStep(call), !.call = call, !.ok = (call.kind = "read")]

Goto(a, step) == op' = [op EXCEPT ![a].pc = step]

\* The manager returns an error, and with it the facade and handle.
Outcome(call, ok) == [Idle EXCEPT !.pc = "return", !.call = call, !.ok = ok]

Fail(a) == op' = [op EXCEPT ![a] = Outcome(@.call, FALSE)]

\* The manager returns nil.  clear goes on to the next table, then conntrack.
Succeed(a) ==
    op' = [op EXCEPT ![a] =
             IF @.call = ClearIP THEN Enter(ClearPorts)
             ELSE IF @.call = ClearPorts THEN Enter(ClearConntrack)
             ELSE Outcome(@.call, TRUE)]

At(a, step) == op[a].pc = step
Table(a) == op[a].call.table
Key(a) == op[a].call.key

(***************************************************************************)
(* The request's way in and out: Scan and Unmarshal, Lock, the deferred    *)
(* Unlock, the response.  A malformed request is answered without the lock *)
(* and is not shown.                                                       *)
(***************************************************************************)
Accept(h, req) ==
    /\ Started
    /\ At(h, "idle")
    /\ op' = [op EXCEPT ![h] = [Idle EXCEPT !.pc = "lock", !.call = handle(req)]]
    /\ UNCHANGED <<mu, boot, maps, now>>

\* Mutant: handle without the mutex.
Lock_Unguarded(h) ==
    /\ At(h, "lock")
    /\ mu' = h
    /\ op' = [op EXCEPT ![h] = Enter(@.call)]
    /\ UNCHANGED <<boot, maps, now>>

Lock(h) ==
    /\ At(h, "lock")
    /\ mu = Free
    /\ mu' = h
    /\ op' = [op EXCEPT ![h] = Enter(@.call)]
    /\ UNCHANGED <<boot, maps, now>>

\* Mutant: the deferred Unlock is missing.
Unlock_Forgotten(h) ==
    /\ At(h, "return")
    /\ Goto(h, "reply")
    /\ UNCHANGED <<mu, boot, maps, now>>

Unlock(h) ==
    /\ At(h, "return")
    /\ mu' = Free
    /\ Goto(h, "reply")
    /\ UNCHANGED <<boot, maps, now>>

Reply(h) ==
    /\ At(h, "reply")
    /\ op' = [op EXCEPT ![h] = Idle]
    /\ UNCHANGED <<mu, boot, maps, now>>

(***************************************************************************)
(* main's list.  A failed entry is logged and the next one taken up.       *)
(***************************************************************************)
StartupBlock ==
    /\ At(Main, "idle")
    /\ boot < Len(Startup)
    /\ boot' = boot + 1
    /\ op' = [op EXCEPT ![Main] = Enter(BlockIP(Startup[boot + 1]))]
    /\ UNCHANGED <<mu, maps, now>>

StartupNext ==
    /\ At(Main, "return")
    /\ op' = [op EXCEPT ![Main] = Idle]
    /\ UNCHANGED <<mu, boot, maps, now>>

(***************************************************************************)
(* BlockIPWithActionPriority, BlockWithActionPriority: setPresenceBit      *)
(* (lookup, then put), then the rule.                                      *)
(***************************************************************************)
SetPresenceRead(a) ==
    /\ At(a, "setRead")
    /\ op' = [op EXCEPT ![a].pc = "setWrite", ![a].flags = rule_presence]
    /\ UNCHANGED <<mu, boot, maps, now>>

\* Mutant: the flag is stored, not merged.
SetPresenceWrite_Overwrites(a) ==
    /\ At(a, "setWrite")
    /\ rule_presence' = {Table(a)}
    /\ op' = [op EXCEPT ![a].pc = "put", ![a].flags = {}]
    /\ UNCHANGED <<mu, boot, rules, firewall_config, ctVars, counters, now>>

SetPresenceWrite(a) ==
    /\ At(a, "setWrite")
    /\ rule_presence' = op[a].flags \cup {Table(a)}
    /\ op' = [op EXCEPT ![a].pc = "put", ![a].flags = {}]
    /\ UNCHANGED <<mu, boot, rules, firewall_config, ctVars, counters, now>>

PutRule(a) ==
    /\ At(a, "put")
    /\ IF IsFull(Table(a)) /\ Key(a) \notin Stored(Table(a))
       THEN Fail(a) /\ UNCHANGED rules
       ELSE /\ rules' = [rules EXCEPT ![Table(a)][Key(a)] = op[a].call.val]
            /\ Succeed(a)
    /\ UNCHANGED <<mu, boot, rule_presence, firewall_config, ctVars, counters, now>>

(***************************************************************************)
(* UnblockIP, UnblockWithAction: delete (an absent key is an error), then  *)
(* syncPresence.                                                           *)
(***************************************************************************)
DeleteRule(a) ==
    /\ At(a, "del")
    /\ IF Key(a) \in Stored(Table(a))
       THEN /\ rules' = [rules EXCEPT ![Table(a)][Key(a)] = NoRule]
            /\ Goto(a, "has")
       ELSE Fail(a) /\ UNCHANGED rules
    /\ UNCHANGED <<mu, boot, rule_presence, firewall_config, ctVars, counters, now>>

\* Clear: the iterator starts over after each deletion of the key it is at,
\* so it ends when the table is empty.
WipeRule(a) ==
    /\ At(a, "wipe")
    /\ IF Stored(Table(a)) = {}
       THEN Goto(a, "has") /\ UNCHANGED rules
       ELSE /\ \E k \in Stored(Table(a)) :
                    rules' = [rules EXCEPT ![Table(a)][k] = NoRule]
            /\ UNCHANGED op
    /\ UNCHANGED <<mu, boot, rule_presence, firewall_config, ctVars, counters, now>>

\* syncPresence: mapHasEntries, then the lookup and the put of
\* setPresenceBit or clearPresenceBit.
MapHasEntries(a) ==
    /\ At(a, "has")
    /\ op' = [op EXCEPT ![a].pc = "syncRead", ![a].has = (Stored(Table(a)) # {})]
    /\ UNCHANGED <<mu, boot, maps, now>>

SyncPresenceRead(a) ==
    /\ At(a, "syncRead")
    /\ op' = [op EXCEPT ![a].pc = "syncWrite", ![a].flags = rule_presence]
    /\ UNCHANGED <<mu, boot, maps, now>>

\* Mutant: the flag of an emptied table is not cleared.
SyncPresenceWrite_NeverClears(a) ==
    /\ At(a, "syncWrite")
    /\ rule_presence' = IF op[a].has THEN op[a].flags \cup {Table(a)}
                                     ELSE op[a].flags
    /\ Succeed(a)
    /\ UNCHANGED <<mu, boot, rules, firewall_config, ctVars, counters, now>>

SyncPresenceWrite(a) ==
    /\ At(a, "syncWrite")
    /\ rule_presence' = IF op[a].has THEN op[a].flags \cup {Table(a)}
                                     ELSE op[a].flags \ {Table(a)}
    /\ Succeed(a)
    /\ UNCHANGED <<mu, boot, rules, firewall_config, ctVars, counters, now>>

(***************************************************************************)
(* SetDefaultPolicy.                                                       *)
(***************************************************************************)
SetDefaultPolicy(a) ==
    /\ At(a, "config")
    /\ firewall_config' = op[a].call.policy
    /\ Succeed(a)
    /\ UNCHANGED <<mu, boot, ruleVars, ctVars, counters, now>>

(***************************************************************************)
(* ConntrackManager.Clear: collect the keys, then delete each; a key that  *)
(* is gone by then ends it with an error.                                  *)
(***************************************************************************)
ConntrackKeys(a) ==
    /\ At(a, "ctKeys")
    /\ LET it == op[a].iter
       IN  \/ /\ IterHasNext(it)
              /\ op' = [op EXCEPT ![a].iter = Advance(it),
                                  ![a].keys = Append(@, NextKey(it))]
           \/ /\ IterDone(it)
              /\ op' = [op EXCEPT ![a].pc = "ctDel", ![a].iter = NoIter]
           \/ IterAborted(it) /\ Fail(a)
    /\ UNCHANGED <<mu, boot, maps, now>>

ConntrackDelete(a) ==
    /\ At(a, "ctDel")
    /\ LET keys == op[a].keys
       IN  \/ keys = <<>> /\ Succeed(a) /\ UNCHANGED ctVars
           \/ /\ keys # <<>>
              /\ Head(keys) \in Tracked
              /\ CtDelete(Head(keys))
              /\ op' = [op EXCEPT ![a].keys = Tail(@)]
           \/ /\ keys # <<>>
              /\ Head(keys) \notin Tracked
              /\ Fail(a)
              /\ UNCHANGED ctVars
    /\ UNCHANGED <<mu, boot, ruleVars, firewall_config, counters, now>>

\* Any map operation may be refused by the kernel: every caller returns the
\* error at once, leaving what earlier operations did.
SyscallError(a) ==
    /\ SyscallsFail
    /\ op[a].pc \in Syscalls
    /\ Fail(a)
    /\ UNCHANGED <<mu, boot, maps, now>>

(***************************************************************************)
(* Next.                                                                   *)
(***************************************************************************)
ManagerStep(a) ==
    \/ SetPresenceRead(a)
    \/ SetPresenceWrite(a)
    \/ PutRule(a)
    \/ DeleteRule(a)
    \/ WipeRule(a)
    \/ MapHasEntries(a)
    \/ SyncPresenceRead(a)
    \/ SyncPresenceWrite(a)
    \/ SetDefaultPolicy(a)
    \/ ConntrackKeys(a)
    \/ ConntrackDelete(a)
    \/ SyscallError(a)

ControlNext ==
    \/ \E h \in Handlers :
            (\E req \in Requests : Accept(h, req)) \/ Lock(h) \/ Unlock(h) \/ Reply(h)
    \/ StartupBlock
    \/ StartupNext
    \/ \E a \in Actors : ManagerStep(a)
===============================================================================
