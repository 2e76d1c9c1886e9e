---------------------------- MODULE FirewallService ----------------------------
(***************************************************************************)
(* The firewall keeps the contract of RuleService.  A request takes effect *)
(* at the map operation on the rule table or on the default policy, and a  *)
(* clear at the moment the port table is found empty while, under the      *)
(* mutex, the address table still is; flags and connection table come      *)
(* after that and change nothing a client asked for.                       *)
(***************************************************************************)
EXTENDS Firewall

\* The request a manager call belongs to: clear is three calls.
RequestOf(call) == IF call \in {ClearPorts, ClearConntrack} THEN ClearIP ELSE call

Asking == {"lock", "setRead", "setWrite", "put", "del", "wipe", "config"}
Syncing == {"has", "syncRead", "syncWrite"}

\* How far the request of an actor is, in the contract's words.
PhaseOf(a) ==
    CASE At(a, "idle") -> "idle"
      [] op[a].pc \in Asking \/ (op[a].pc \in Syncing /\ op[a].call = ClearIP) -> "asked"
      [] op[a].pc \in {"return", "reply"} /\ ~ op[a].ok -> "failed"
      [] OTHER -> "done"

ask == [a \in Actors |->
          [call |-> IF At(a, "idle") THEN NoRule ELSE RequestOf(op[a].call),
           phase |-> PhaseOf(a)]]

Service ==
    INSTANCE RuleService WITH Clients <- Actors, policy <- firewall_config

\* server.go:171-274 and the managers, with the daemon's list and everything that
\* runs beside them: a request that is answered OK was carried out once between
\* question and answer, one that failed at most once, and nobody else touches
\* rules or policy.
KeepsContract == Service!SSpec
===============================================================================
