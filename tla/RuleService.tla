------------------------------ MODULE RuleService ------------------------------
(***************************************************************************)
(* What the firewall promises whoever asks it to change the rules: a       *)
(* request that is answered OK has been carried out, once, at one moment   *)
(* between the question and the answer; one that is answered with an error *)
(* has been carried out at most once, or for a clear in part; and nothing  *)
(* else changes rules or policy.  There are no steps inside a request      *)
(* here, no mutex, no flags, no datapath.                                  *)
(***************************************************************************)
CONSTANTS
    Clients,    \* who asks
    Calls,      \* what may be asked
    Tables,     \* the rule tables
    NoRule      \* no rule under a key

VARIABLES
    rules,      \* [Tables -> [keys -> rule or NoRule]]
    policy,     \* the default policy
    ask         \* [Clients -> the request and how far it is]

service == <<rules, policy, ask>>

Nothing == [call |-> NoRule, phase |-> "idle"]

SInit ==
    /\ rules = [t \in Tables |-> [k \in DOMAIN rules[t] |-> NoRule]]
    /\ policy = "ALLOW"
    /\ ask = [c \in Clients |-> Nothing]

Asked(c, kind) == ask[c].phase = "asked" /\ ask[c].call.kind = kind
Turn(c, phase) == ask' = [ask EXCEPT ![c].phase = phase]

\* A request that makes no sense is turned down at once.
Ask(c) ==
    /\ ask[c].phase = "idle"
    /\ \E call \in Calls, phase \in {"asked", "failed"} :
        ask' = [ask EXCEPT ![c] = [call |-> call, phase |-> phase]]
    /\ UNCHANGED <<rules, policy>>

Put(c) ==
    /\ Asked(c, "put")
    /\ LET call == ask[c].call
       IN  rules' = [rules EXCEPT ![call.table][call.key] = call.val]
    /\ Turn(c, "done")
    /\ UNCHANGED policy

\* Only a rule that is there can be deleted.
Delete(c) ==
    /\ Asked(c, "del")
    /\ LET call == ask[c].call
       IN  /\ rules[call.table][call.key] # NoRule
           /\ rules' = [rules EXCEPT ![call.table][call.key] = NoRule]
    /\ Turn(c, "done")
    /\ UNCHANGED policy

SetPolicy(c) ==
    /\ Asked(c, "setdefault")
    /\ policy' = ask[c].call.policy
    /\ Turn(c, "done")
    /\ UNCHANGED rules

\* A clear takes the rules away one by one ...
Sweep(c) ==
    /\ Asked(c, "clear")
    /\ \E t \in Tables : \E k \in DOMAIN rules[t] :
        rules' = [rules EXCEPT ![t][k] = NoRule]
    /\ UNCHANGED <<policy, ask>>

\* ... and is done at a moment when there is none in any table.
Swept(c) ==
    /\ Asked(c, "clear")
    /\ \A t \in Tables : \A k \in DOMAIN rules[t] : rules[t][k] = NoRule
    /\ Turn(c, "done")
    /\ UNCHANGED <<rules, policy>>

\* A request that only reads.
Look(c) ==
    /\ Asked(c, "read")
    /\ Turn(c, "done")
    /\ UNCHANGED <<rules, policy>>

\* Any request may fail, before it took effect or after.
Fail(c) ==
    /\ ask[c].phase \in {"asked", "done"}
    /\ Turn(c, "failed")
    /\ UNCHANGED <<rules, policy>>

\* OK if it is done, an error if it failed.
Answer(c) ==
    /\ ask[c].phase \in {"done", "failed"}
    /\ ask' = [ask EXCEPT ![c] = Nothing]
    /\ UNCHANGED <<rules, policy>>

SNext ==
    \E c \in Clients :
        \/ Ask(c) \/ Put(c) \/ Delete(c) \/ SetPolicy(c) \/ Sweep(c) \/ Swept(c)
        \/ Look(c) \/ Fail(c) \/ Answer(c)

\* A step that changes nothing is nobody's action.
SSpec == SInit /\ [][service' # service /\ SNext]_service
===============================================================================
