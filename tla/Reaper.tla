-------------------------------- MODULE Reaper --------------------------------
(***************************************************************************)
(* The daemon's conntrack reaper: a goroutine of main that, on a timer and *)
(* without Server.mu, runs ConntrackManager.Reap (control/ebpf/conntrack.go*)
(* ).  It scans the table for entries last seen at or before a cutoff, and *)
(* deletes them after the scan.  A pass may start whenever the last one is *)
(* over; Aging has the timer.                                              *)
(***************************************************************************)
EXTENDS KernelMaps

CONSTANT CtTimeout      \* -ct-timeout; 0 disables the reaper

ASSUME TimeoutAssumption == CtTimeout \in Nat

VARIABLE reap

Resting == [pc |-> "rest", cutoff |-> 0, iter |-> NoIter, stale |-> <<>>]

\* Types of the reaper's locals.
ReaperTypeOK ==
    reap \in [pc : {"rest", "scan", "delete"}, cutoff : Nat, iter : Iter,
              stale : Seq(Flows)]

ReaperInit == reap = Resting

\* Reap's clock reading and the cutoff, 0 on a machine up for less than the
\* timeout.
ReapStart ==
    /\ CtTimeout > 0
    /\ reap.pc = "rest"
    /\ reap' = [Resting EXCEPT !.pc = "scan",
                    !.cutoff = IF CtTimeout < now THEN now - CtTimeout ELSE 0]
    /\ UNCHANGED <<maps, now>>

\* One key and its value; an iterator that gives up ends the pass with nothing
\* deleted.
IsStale(flow) == elems[conntrack[flow]].last_seen <= reap.cutoff

ReapScan ==
    /\ reap.pc = "scan"
    /\ LET it == reap.iter
       IN  \/ /\ IterHasNext(it)
              /\ reap' = [reap EXCEPT !.iter = Advance(it),
                            !.stale = IF IsStale(NextKey(it))
                                      THEN Append(@, NextKey(it)) ELSE @]
           \/ /\ IterDone(it)
              /\ reap' = [reap EXCEPT !.pc = "delete", !.iter = NoIter]
           \/ IterAborted(it) /\ reap' = Resting
    /\ UNCHANGED <<maps, now>>

\* The next deletion; a key that is gone ends the pass with an error.
ReapDelete ==
    /\ reap.pc = "delete"
    /\ reap.stale # <<>>
    /\ Head(reap.stale) \in Tracked
    /\ CtDelete(Head(reap.stale))
    /\ reap' = [reap EXCEPT !.stale = Tail(@)]
    /\ UNCHANGED <<ruleVars, firewall_config, counters, now>>

ReapEnd ==
    /\ reap.pc = "delete"
    /\ reap.stale # <<>> => Head(reap.stale) \notin Tracked
    /\ reap' = Resting
    /\ UNCHANGED <<maps, now>>

ReaperNext == ReapStart \/ ReapScan \/ ReapDelete \/ ReapEnd
===============================================================================
