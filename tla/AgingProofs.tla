------------------------------ MODULE AgingProofs ------------------------------
(***************************************************************************)
(* Idle flows go in time (Aging!EvictedInTime), for any timeout and any    *)
(* number of flows, CPUs and handlers, as long as no map operation fails.  *)
(*                                                                         *)
(* A pass of the reaper deletes what was idle when it began, unless a      *)
(* clear that runs beside it gets in its way: a key it stands on goes and  *)
(* its walk starts over or gives up, or a key it wants to delete is gone   *)
(* and it ends with an error.  The reaper does the same to a clear.  The   *)
(* invariant says that they never stop one another: both walk in the order *)
(* of the buckets, so whatever one of them has deleted lies before all     *)
(* idle flows that are left, and the one that is ahead goes on.            *)
(***************************************************************************)
EXTENDS Aging, PresenceProofs, DatapathProofs

(***************************************************************************)
(* Lists of keys, in the order of the buckets.                             *)
(***************************************************************************)
Elements(q) == {q[i] : i \in 1 .. Len(q)}

Ordered(q) ==
    \A i, j \in 1 .. Len(q) : i < j => Bucket[q[i]] < Bucket[q[j]]

\* From flow f on, a list is ordered and all its keys are in T.
Tidy(q, f, T) ==
    \A i \in 1 .. Len(q) : Bucket[q[i]] >= Bucket[f] =>
        /\ q[i] \in T
        /\ \A j \in 1 .. Len(q) : i < j => Bucket[q[i]] < Bucket[q[j]]

(***************************************************************************)
(* The invariant.                                                          *)
(***************************************************************************)
Old(n) == {f \in Tracked : Age(f) >= n}
Stale == Old(CtTimeout)

\* A walk has given every idle flow, or has it ahead.
Complete(it, seen) ==
    \A f \in Stale : \/ f \in Elements(seen)
                     \/ it.cursor = None
                     \/ Bucket[f] > Bucket[it.cursor]

\* What a clear has collected.
Walks(a) == op[a].pc \in {"ctKeys", "ctDel"}
ClearKnows(a) ==
    /\ At(a, "ctKeys") =>
        /\ Complete(op[a].iter, op[a].keys)
        /\ op[a].iter.cursor = IF op[a].keys = <<>> THEN None
                               ELSE op[a].keys[Len(op[a].keys)]
    /\ At(a, "ctDel") => Stale \subseteq Elements(op[a].keys)

\* A clear that no deletion of the reaper has disturbed ...
Undisturbed(a) == Ordered(op[a].keys) /\ Elements(op[a].keys) \subseteq Tracked
\* ... deletes, and will delete every idle flow.
Sweeps(a) == At(a, "ctDel") /\ Undisturbed(a)
Covered == Stale = {} \/ \E a \in Actors : Sweeps(a)

Beyond(a, f) == \A k \in Elements(op[a].keys) : Bucket[k] > Bucket[f]

\* The reaper's walk: as long as no key was deleted under it, it has not given
\* more keys than there are.
Unbroken(it) ==
    \/ it.cursor = None /\ it.count = 0
    \/ /\ it.cursor \in Tracked
       /\ it.count <= Cardinality({f \in Tracked : Bucket[f] <= Bucket[it.cursor]})

ScanKnows ==
    /\ reap.cutoff = now - CtTimeout
    /\ Complete(reap.iter, reap.stale)
    /\ \A s \in Elements(reap.stale) :
        /\ reap.iter.cursor # None
        /\ \/ Bucket[s] <= Bucket[reap.iter.cursor]
           \/ \A f \in Stale : Bucket[f] > Bucket[s]
    /\ reap.iter.cursor \notin Tracked \cup {None} =>
            \A f \in Stale : Bucket[f] > Bucket[reap.iter.cursor]
    /\ Unbroken(reap.iter) \/ Covered

ReapKnows ==
    /\ Ordered(reap.stale)
    /\ reap.pc = "rest" => reap = Resting
    /\ reap.pc = "scan" => ScanKnows
    /\ reap.pc = "delete" => Stale \subseteq Elements(reap.stale)
    \* Where the reaper would end with an error, a clear goes on.
    /\ \A s \in Elements(reap.stale) \ Tracked :
            Stale = {} \/ \E a \in Actors : Sweeps(a) /\ Beyond(a, s)

\* What the reaper has deleted does not stop a clear that is ahead of it.
Apart(a) ==
    Walks(a) =>
        /\ due \/ reap.pc = "scan" => Undisturbed(a)
        /\ reap.pc = "delete" /\ reap.stale # <<>> =>
                Tidy(op[a].keys, Head(reap.stale), Tracked)

InTime ==
    /\ now = Boot
    /\ wait \in 1 .. Interval
    /\ due \in BOOLEAN
    /\ due \/ reap.pc # "rest" => wait = Interval
    /\ reap.pc # "rest" => ~ due
    /\ Old(CtTimeout + Interval) = {}
    /\ reap.pc = "rest" /\ ~ due =>
            \/ Old(CtTimeout + Interval - wait) = {}
            \/ wait = Interval /\ Covered

Fits == IsFiniteSet(Tracked) /\ Cardinality(Tracked) <= MaxFlows
StampsFresh ==
    \A c \in Cpus : xdp[c].pc \in {"ctTouch", "ctInsert"} => xdp[c].stamp = now

AgingInv ==
    /\ PresenceInv
    /\ InTime /\ Fits /\ StampsFresh
    /\ ReapKnows
    /\ \A a \in Actors : ClearKnows(a) /\ Apart(a)

(***************************************************************************)
(* Lists and walks.                                                        *)
(***************************************************************************)
LEMMA Buckets ==
    /\ \A f \in Flows : Bucket[f] \in Nat
    /\ \A f, g \in Flows : Bucket[f] = Bucket[g] => f = g
    /\ None \notin Flows /\ Tracked \subseteq Flows
BY BucketAssumption, SlotAssumption DEF Tracked

LEMMA TailOf ==
    ASSUME NEW q \in Seq(Flows), q # <<>>
    PROVE  /\ Tail(q) \in Seq(Flows) /\ Head(q) = q[1] /\ Len(q) >= 1
           /\ Len(Tail(q)) = Len(q) - 1
           /\ \A i \in 1 .. Len(Tail(q)) : i + 1 \in 1 .. Len(q) /\ Tail(q)[i] = q[i + 1]
           /\ Head(q) \in Flows
           /\ Elements(q) = {Head(q)} \cup Elements(Tail(q))
<1>1. /\ Tail(q) \in Seq(Flows) /\ Head(q) = q[1] /\ Len(q) \in Nat /\ Len(q) >= 1
      /\ Len(Tail(q)) = Len(q) - 1 /\ Head(q) \in Flows
      /\ \A i \in 1 .. Len(Tail(q)) : i + 1 \in 1 .. Len(q) /\ Tail(q)[i] = q[i + 1]
  OBVIOUS
<1>2. \A j \in 1 .. Len(q) : j = 1 \/ (j - 1 \in 1 .. Len(Tail(q)) /\ q[j] = Tail(q)[j - 1])
  BY <1>1
<1>3. ASSUME NEW x \in Elements(q)
      PROVE  x \in {Head(q)} \cup Elements(Tail(q))
  <2>1. PICK j \in 1 .. Len(q) : x = q[j]
    BY <1>3 DEF Elements
  <2> QED
    BY <1>1, <1>2, <2>1 DEF Elements
<1>4. {Head(q)} \cup Elements(Tail(q)) \subseteq Elements(q)
  BY <1>1 DEF Elements
<1> QED
  BY <1>1, <1>3, <1>4

LEMMA TailOrdered ==
    ASSUME NEW q \in Seq(Flows), q # <<>>, Ordered(q)
    PROVE  /\ Ordered(Tail(q))
           /\ \A k \in Elements(Tail(q)) : Bucket[k] > Bucket[Head(q)]
<1>1. \A i \in 1 .. Len(Tail(q)) : i + 1 \in 1 .. Len(q) /\ Tail(q)[i] = q[i + 1]
  BY TailOf
<1>2. Head(q) = q[1] /\ 1 \in 1 .. Len(q)
  BY TailOf
<1>3. \A i \in 1 .. Len(q) : Bucket[q[i]] \in Nat
  BY Buckets
<1> QED
  BY <1>1, <1>2, <1>3 DEF Ordered, Elements

LEMMA AppendOf ==
    ASSUME NEW q \in Seq(Flows), NEW k \in Flows
    PROVE  /\ Append(q, k) \in Seq(Flows) /\ Append(q, k) # <<>>
           /\ Append(q, k)[Len(Append(q, k))] = k
           /\ Len(Append(q, k)) = Len(q) + 1
           /\ \A i \in 1 .. Len(q) : Append(q, k)[i] = q[i]
           /\ Elements(Append(q, k)) = Elements(q) \cup {k}
<1>1. /\ Append(q, k) \in Seq(Flows) /\ Append(q, k) # <<>> /\ Len(q) \in Nat
      /\ Append(q, k)[Len(Append(q, k))] = k
      /\ Len(Append(q, k)) = Len(q) + 1
      /\ Append(q, k)[Len(q) + 1] = k
      /\ \A i \in 1 .. Len(q) : Append(q, k)[i] = q[i]
  OBVIOUS
<1>2. \A i \in 1 .. Len(Append(q, k)) : i \in 1 .. Len(q) \/ i = Len(q) + 1
  BY <1>1
<1>3. \A i \in 1 .. Len(q) : i \in 1 .. Len(Append(q, k))
  BY <1>1
<1>4. Len(q) + 1 \in 1 .. Len(Append(q, k))
  BY <1>1
<1> QED
  BY <1>1, <1>2, <1>3, <1>4 DEF Elements

LEMMA AppendOrdered ==
    ASSUME NEW q \in Seq(Flows), NEW k \in Flows, Ordered(q),
           \A j \in Elements(q) : Bucket[j] < Bucket[k]
    PROVE  Ordered(Append(q, k))
<1>1. /\ Len(Append(q, k)) = Len(q) + 1 /\ Len(q) \in Nat
      /\ \A i \in 1 .. Len(q) : Append(q, k)[i] = q[i] /\ q[i] \in Elements(q)
      /\ Append(q, k)[Len(q) + 1] = k
  BY AppendOf DEF Elements
<1>2. ASSUME NEW i \in 1 .. Len(q) + 1, NEW j \in 1 .. Len(q) + 1, i < j
      PROVE  Bucket[Append(q, k)[i]] < Bucket[Append(q, k)[j]]
  <2>1. CASE j = Len(q) + 1
    BY <1>1, <1>2, <2>1
  <2>2. CASE j # Len(q) + 1
    BY <1>1, <1>2, <2>2 DEF Ordered
  <2> QED
    BY <2>1, <2>2
<1> QED
  BY <1>1, <1>2 DEF Ordered

\* In an ordered list the last key is the greatest.
LEMMA LastOrdered ==
    ASSUME NEW q \in Seq(Flows), q # <<>>, Ordered(q)
    PROVE  /\ q[Len(q)] \in Elements(q)
           /\ \A k \in Elements(q) : Bucket[k] <= Bucket[q[Len(q)]]
<1>1. Len(q) \in 1 .. Len(q) /\ \A i \in 1 .. Len(q) : Bucket[q[i]] \in Nat
  BY Buckets
<1> QED
  BY <1>1 DEF Elements, Ordered

(***************************************************************************)
(* A list from a flow on: what the deletions and the walk do to it.        *)
(***************************************************************************)
LEMMA TidyOrdered ==
    ASSUME NEW q \in Seq(Flows), NEW f, NEW T, Ordered(q), Elements(q) \subseteq T
    PROVE  Tidy(q, f, T)
BY DEF Tidy, Ordered, Elements

LEMMA TidyLater ==
    ASSUME NEW q \in Seq(Flows), NEW f \in Flows, NEW g \in Flows, NEW T, Tidy(q, f, T),
           Bucket[f] < Bucket[g]
    PROVE  Tidy(q, g, T \ {f})
<1>1. \A i \in 1 .. Len(q) : Bucket[q[i]] \in Nat
  BY Buckets
<1> QED
  BY <1>1, Buckets DEF Tidy

LEMMA TidyTail ==
    ASSUME NEW q \in Seq(Flows), q # <<>>, NEW f \in Flows, NEW T, Tidy(q, f, T)
    PROVE  Tidy(Tail(q), f, T \ {Head(q)})
<1>1. /\ \A i \in 1 .. Len(Tail(q)) : i + 1 \in 1 .. Len(q) /\ Tail(q)[i] = q[i + 1]
      /\ Len(q) \in Nat /\ Len(Tail(q)) = Len(q) - 1
      /\ Head(q) = q[1] /\ 1 \in 1 .. Len(q)
  BY TailOf
<1>2. \A i \in 1 .. Len(q) : Bucket[q[i]] \in Nat /\ Bucket[f] \in Nat
  BY Buckets
<1>3. ASSUME NEW i \in 1 .. Len(Tail(q)), Bucket[Tail(q)[i]] >= Bucket[f]
      PROVE  /\ Tail(q)[i] \in T \ {Head(q)}
             /\ \A j \in 1 .. Len(Tail(q)) :
                    i < j => Bucket[Tail(q)[i]] < Bucket[Tail(q)[j]]
  <2>1. /\ Bucket[q[i + 1]] >= Bucket[f] /\ i + 1 \in 1 .. Len(q) /\ Tail(q)[i] = q[i + 1]
        /\ 1 < i + 1
    BY <1>1, <1>3
  <2>2. q[i + 1] \in T /\ \A j \in 1 .. Len(q) : i + 1 < j => Bucket[q[i + 1]] < Bucket[q[j]]
    BY <2>1 DEF Tidy
  <2>3. q[i + 1] # q[1]
    BY <1>1, <1>2, <2>1 DEF Tidy
  <2>4. \A j \in 1 .. Len(Tail(q)) : i < j => i + 1 < j + 1
    OBVIOUS
  <2> QED
    BY <1>1, <2>1, <2>2, <2>3, <2>4
<1> QED
  BY <1>3 DEF Tidy

LEMMA TidySweeps ==
    ASSUME NEW q \in Seq(Flows), q # <<>>, NEW f \in Flows, NEW T, Tidy(q, f, T),
           Bucket[Head(q)] >= Bucket[f]
    PROVE  /\ Ordered(Tail(q)) /\ Elements(Tail(q)) \subseteq T \ {Head(q)}
           /\ \A k \in Elements(Tail(q)) : Bucket[k] > Bucket[Head(q)]
<1>1. /\ \A i \in 1 .. Len(Tail(q)) : i + 1 \in 1 .. Len(q) /\ Tail(q)[i] = q[i + 1]
      /\ Len(q) \in Nat /\ Len(Tail(q)) = Len(q) - 1
      /\ Head(q) = q[1] /\ 1 \in 1 .. Len(q)
  BY TailOf
<1>2. \A i \in 1 .. Len(q) : Bucket[q[i]] \in Nat /\ Bucket[f] \in Nat
  BY Buckets
<1>3. \A i \in 1 .. Len(q) : i > 1 => Bucket[q[i]] > Bucket[q[1]]
  BY <1>1 DEF Tidy
<1>4. \A i \in 1 .. Len(q) : i > 1 =>
        q[i] \in T /\ \A j \in 1 .. Len(q) : i < j => Bucket[q[i]] < Bucket[q[j]]
  <2>1. \A i \in 1 .. Len(q) : i > 1 => Bucket[q[i]] >= Bucket[f]
    BY <1>1, <1>2, <1>3
  <2> QED
    BY <2>1 DEF Tidy
<1>5. \A i \in 1 .. Len(Tail(q)) : Bucket[Tail(q)[i]] > Bucket[q[1]] /\ Tail(q)[i] \in T
  BY <1>1, <1>3, <1>4
<1>6. \A i, j \in 1 .. Len(Tail(q)) : i < j => Bucket[Tail(q)[i]] < Bucket[Tail(q)[j]]
  BY <1>1, <1>4
<1> QED
  BY <1>1, <1>2, <1>5, <1>6 DEF Ordered, Elements

LEMMA TidyAppend ==
    ASSUME NEW q \in Seq(Flows), NEW f \in Flows, NEW T, Tidy(q, f, T),
           NEW k \in Flows, k \in T,
           \/ q = <<>>
           \/ q[Len(q)] \notin T
           \/ Bucket[q[Len(q)]] < Bucket[k]
    PROVE  Tidy(Append(q, k), f, T)
<1>1. /\ Len(Append(q, k)) = Len(q) + 1 /\ Len(q) \in Nat
      /\ \A i \in 1 .. Len(q) : Append(q, k)[i] = q[i]
      /\ Append(q, k)[Len(q) + 1] = k
  BY AppendOf
<1>2. \A i \in 1 .. Len(q) : Bucket[q[i]] \in Nat /\ Bucket[f] \in Nat /\ Bucket[k] \in Nat
  BY Buckets
<1>3. ASSUME NEW i \in 1 .. Len(q), Bucket[q[i]] >= Bucket[f]
      PROVE  Bucket[q[i]] < Bucket[k]
  <2>1. Len(q) \in 1 .. Len(q) /\ q # <<>>
    BY <1>1
  <2>2. \A j \in 1 .. Len(q) : i < j => Bucket[q[i]] < Bucket[q[j]]
    BY <1>3 DEF Tidy
  <2>3. Bucket[q[Len(q)]] >= Bucket[f] /\ Bucket[q[i]] <= Bucket[q[Len(q)]]
    BY <1>1, <1>2, <1>3, <2>1, <2>2
  <2>4. q[Len(q)] \in T
    BY <2>1, <2>3 DEF Tidy
  <2> QED
    BY <1>2, <2>1, <2>3, <2>4
<1>4. ASSUME NEW i \in 1 .. Len(q) + 1, Bucket[Append(q, k)[i]] >= Bucket[f]
      PROVE  /\ Append(q, k)[i] \in T
             /\ \A j \in 1 .. Len(q) + 1 :
                    i < j => Bucket[Append(q, k)[i]] < Bucket[Append(q, k)[j]]
  <2>1. CASE i = Len(q) + 1
    BY <1>1, <2>1
  <2>2. CASE i # Len(q) + 1
    <3>1. i \in 1 .. Len(q) /\ Append(q, k)[i] = q[i]
      BY <1>1, <2>2
    <3>2. \A j \in 1 .. Len(q) + 1 : j \in 1 .. Len(q) \/ j = Len(q) + 1
      BY <1>1
    <3> QED
      BY <1>1, <1>3, <1>4, <3>1, <3>2 DEF Tidy
  <2> QED
    BY <2>1, <2>2
<1> QED
  BY <1>1, <1>4 DEF Tidy

(***************************************************************************)
(* Walks.                                                                  *)
(***************************************************************************)
\* NextKey gives the nearest key ahead.
LEMMA NextKeyLeast ==
    ASSUME NEW it, Ahead(it) # {}
    PROVE  /\ NextKey(it) \in Tracked /\ NextKey(it) \in Flows
           /\ \A g \in Ahead(it) : Bucket[NextKey(it)] <= Bucket[g]
           /\ it.cursor \in Tracked => Bucket[NextKey(it)] > Bucket[it.cursor]
<1> DEFINE T == {Bucket[f] : f \in Ahead(it)}
<1>1. Ahead(it) \subseteq Tracked /\ Tracked \subseteq Flows
  BY Buckets DEF Ahead
<1>2. T \subseteq Nat /\ T # {}
  BY <1>1, Buckets
<1>3. \E x \in T : \A y \in T : x <= y
  BY <1>2, NatMin
<1>4. \E f \in Ahead(it) : \A g \in Ahead(it) : Bucket[f] <= Bucket[g]
  BY <1>3
<1>5. NextKey(it) \in Ahead(it) /\ \A g \in Ahead(it) : Bucket[NextKey(it)] <= Bucket[g]
  BY <1>4 DEF NextKey
<1> QED
  BY <1>1, <1>5 DEF Ahead

\* An idle flow that was ahead is the next key or still ahead.
LEMMA CompleteNext ==
    ASSUME NEW it, NEW seen, Complete(it, seen), Ahead(it) # {}
    PROVE  \A f \in Stale : \/ f \in Elements(seen)
                            \/ f = NextKey(it)
                            \/ Bucket[f] > Bucket[NextKey(it)]
<1> SUFFICES ASSUME NEW f \in Stale, f \notin Elements(seen), f # NextKey(it)
             PROVE  Bucket[f] > Bucket[NextKey(it)]
  OBVIOUS
<1>1. f \in Tracked /\ it.cursor \in Tracked => it.cursor # None
  BY Buckets DEF Stale, Old
<1>2. f \in Ahead(it)
  BY <1>1 DEF Ahead, Complete, Stale, Old
<1>3. Bucket[NextKey(it)] <= Bucket[f]
  BY <1>2, NextKeyLeast
<1> QED
  BY <1>1, <1>3, NextKeyLeast, Buckets DEF Stale, Old

LEMMA CompleteDone ==
    ASSUME NEW it, NEW seen, Complete(it, seen), Ahead(it) = {}
    PROVE  Stale \subseteq Elements(seen)
BY Buckets DEF Complete, Ahead, Stale, Old

(***************************************************************************)
(* What the steps of the firewall do to the connection table.              *)
(***************************************************************************)
LEMMA ClockStands ==
    ASSUME now = Boot, [Next]_vars
    PROVE  now' = now
<1>1. CASE ControlNext
  BY <1>1 DEF ControlNext, Accept, Lock, Unlock, Reply, StartupBlock, StartupNext,
        ManagerStep, SetPresenceRead, SetPresenceWrite, PutRule, DeleteRule, WipeRule,
        MapHasEntries, SyncPresenceRead, SyncPresenceWrite, SetDefaultPolicy,
        ConntrackKeys, ConntrackDelete, SyscallError
<1>2. CASE DatapathNext
  BY <1>2 DEF DatapathNext, ProgramStep, Receive, RawVerdict, ReadPresence,
        LookupSource, LookupDestination, ProbePort, Decide, EstablishedLookup,
        EstablishedState, CtLookup, CtTouch, CtUpdateState, CtEstablish, CtInsertNew,
        CountTotal, CountTotalBytes, CountVerdict, CountVerdictBytes
<1>3. CASE ReaperNext
  BY <1>3 DEF ReaperNext, ReapStart, ReapScan, ReapDelete, ReapEnd
<1>4. ~ Tick
  BY AgingAssumption, LimitAssumption DEF Tick
<1>5. CASE UNCHANGED vars
  BY <1>5 DEF vars
<1> QED
  BY <1>1, <1>2, <1>3, <1>4, <1>5 DEF Next, TimedNext

Seen(f) == elems[conntrack[f]].last_seen

\* A flow that was tracked before has been seen since, or is as it was.
Younger ==
    \A f \in Tracked' : \/ f \in Tracked /\ Seen(f)' = Seen(f)
                        \/ Seen(f)' = now

\* A packet refreshes flows or has one tracked, if there is room.
LEMMA TableFed ==
    ASSUME TypeOK, StampsFresh, Fits, now' = now, DatapathNext
    PROVE  StampsFresh' /\ Fits' /\ Tracked \subseteq Tracked' /\ Younger
<1> USE DEF AtX
<1>1. /\ MapsTypeOK /\ XdpTypeOK
      /\ xdp \in [Cpus -> XdpRecord] /\ conntrack \in [Flows -> Slots \cup {None}]
      /\ elems \in [Slots -> [last_seen : Nat, state : CtState]]
      /\ now \in Nat
  BY DEF TypeOK, MapsTypeOK, XdpTypeOK
<1>2. PICK c \in Cpus : (\E f \in Frames : Receive(c, f)) \/ ProgramStep(c)
  BY DEF DatapathNext
<1>3. \A d \in Cpus \ {c} : xdp'[d] = xdp[d]
  BY <1>1, <1>2, OwnLocals
<1>4. xdp[c] \in XdpRecord
  BY <1>1
<1> DEFINE G == StampsFresh' /\ Fits' /\ Tracked \subseteq Tracked' /\ Younger
<1>5. (xdp'[c].pc \in {"ctTouch", "ctInsert"} => xdp'[c].stamp = now) => StampsFresh'
  BY <1>3 DEF StampsFresh
<1>6. UNCHANGED conntrack => Fits' /\ Tracked \subseteq Tracked' /\ Tracked' = Tracked
  BY DEF Fits, Tracked
<1>7. ASSUME UNCHANGED conntrack,
             \A s \in Slots : elems'[s].last_seen \in {elems[s].last_seen, now}
      PROVE  Younger
  <2>1. \A f \in Tracked' : f \in Tracked /\ conntrack'[f] = conntrack[f]
                              /\ conntrack[f] \in Slots
    BY <1>1, <1>7 DEF Tracked
  <2> QED
    BY <1>7, <2>1 DEF Younger, Seen
<1>8. ASSUME NEW v, NEW p, Settle(c, v, p)
      PROVE  xdp'[c].pc = p
  BY <1>1, <1>8 DEF Settle, NoPacket
<1>9. CASE CtLookup(c)
  <2>1. xdp'[c].stamp = now
    BY <1>1, <1>9 DEF CtLookup, XdpRecord
  <2> QED
    BY <1>5, <1>6, <1>7, <1>9, <2>1 DEF CtLookup, maps
<1>10. CASE CtTouch(c)
  <2>1. xdp[c].stamp = now /\ xdp[c].elem \in Slots
    BY <1>1, <1>10 DEF CtTouch, StampsFresh, XdpTypeOK, Derefs
  <2>2. xdp'[c].pc = "ctState" /\ UNCHANGED conntrack
    BY <1>1, <1>10 DEF CtTouch, XdpRecord
  <2>3. \A s \in Slots : elems'[s].last_seen \in {elems[s].last_seen, now}
    BY <1>1, <1>10, <2>1 DEF CtTouch
  <2> QED
    BY <1>5, <1>6, <1>7, <2>2, <2>3
<1>11. ASSUME NEW st \in CtState, NEW e \in Slots,
              elems' = [elems EXCEPT ![e].state = st] \/ UNCHANGED elems
       PROVE  \A s \in Slots : elems'[s].last_seen \in {elems[s].last_seen, now}
  BY <1>1, <1>11
<1>12. xdp[c].pc \in {"ctState", "ctEstablish"} => xdp[c].elem \in Slots
  BY <1>1 DEF XdpTypeOK, Derefs
<1>13. CASE CtUpdateState(c)
  <2>1. xdp'[c].pc \in {"total", "ctEstablish"} /\ UNCHANGED conntrack
    BY <1>1, <1>8, <1>13 DEF CtUpdateState, GotoX, XdpRecord
  <2>2. \A s \in Slots : elems'[s].last_seen \in {elems[s].last_seen, now}
    BY <1>11, <1>12, <1>13 DEF CtUpdateState, CtState
  <2> QED
    BY <1>5, <1>6, <1>7, <2>1, <2>2
<1>14. CASE CtEstablish(c)
  <2>1. xdp'[c].pc = "total" /\ UNCHANGED conntrack
    BY <1>8, <1>14 DEF CtEstablish
  <2>2. \A s \in Slots : elems'[s].last_seen \in {elems[s].last_seen, now}
    BY <1>11, <1>12, <1>14 DEF CtEstablish, CtState
  <2> QED
    BY <1>5, <1>6, <1>7, <2>1, <2>2
<1>15. CASE CtInsertNew(c)
  <2>1. xdp'[c].pc = "total" /\ xdp[c].stamp = now
    BY <1>8, <1>15 DEF CtInsertNew, StampsFresh
  <2>2. StampsFresh'
    BY <1>5, <2>1
  <2>3. CASE UNCHANGED ctVars
    BY <1>6, <1>7, <2>2, <2>3 DEF ctVars
  <2>4. CASE ~ UNCHANGED ctVars
    <3> DEFINE v == [last_seen |-> xdp[c].stamp, state |-> FirstState(c)]
    <3>1. CtInsert(Flow(c), v)
      BY <1>15 DEF CtInsertNew
    <3>2. PICK s \in FreeSlots : /\ conntrack' = [conntrack EXCEPT ![Flow(c)] = s]
                                 /\ elems' = [elems EXCEPT ![s] = v]
      BY <2>4, <3>1 DEF CtInsert
    <3>3. Cardinality(Tracked) < MaxFlows \/ Flow(c) \in Tracked
      BY <2>4, <3>1 DEF CtInsert
    <3>4. s \in Slots /\ s # None /\ \A f \in Tracked : conntrack[f] # s /\ conntrack[f] \in Slots
      BY <1>1, SlotAssumption DEF FreeSlots, Tracked
    <3>5. elems'[s].last_seen = now /\ \A e \in Slots \ {s} : elems'[e] = elems[e]
      BY <1>1, <2>1, <3>2, <3>4
    <3>6. \A f \in Flows : conntrack'[f] = IF f = Flow(c) THEN s ELSE conntrack[f]
      BY <1>1, <3>2
    <3>7. Tracked \subseteq Tracked' /\ Tracked' \subseteq Tracked \cup {Flow(c)}
      BY <3>4, <3>6 DEF Tracked
    <3>8. \A f \in Tracked' : conntrack'[f] = s \/ (f \in Tracked /\ conntrack'[f] = conntrack[f])
      BY <3>6 DEF Tracked
    <3>9. Younger
      BY <3>4, <3>5, <3>8 DEF Younger, Seen
    <3>10. Fits'
      <4>1. Tracked' = Tracked \/ (Tracked' = Tracked \cup {Flow(c)} /\ Flow(c) \notin Tracked)
        BY <3>7
      <4>2. IsFiniteSet(Tracked) /\ Cardinality(Tracked) <= MaxFlows
            /\ Cardinality(Tracked) \in Nat
        BY FS_CardinalityType DEF Fits
      <4>3. ASSUME Flow(c) \notin Tracked, Cardinality(Tracked) < MaxFlows,
                   Tracked' = Tracked \cup {Flow(c)}
            PROVE  IsFiniteSet(Tracked') /\ Cardinality(Tracked') <= MaxFlows
        <5>1. /\ IsFiniteSet(Tracked \cup {Flow(c)})
              /\ Cardinality(Tracked \cup {Flow(c)}) = Cardinality(Tracked) + 1
          BY <4>2, <4>3, FS_AddElement
        <5> QED
          BY <4>2, <4>3, <5>1, LimitAssumption
      <4> QED
        BY <3>3, <4>1, <4>2, <4>3 DEF Fits
    <3> QED
      BY <2>2, <3>7, <3>9, <3>10
  <2> QED
    BY <2>3, <2>4
<1>16. CASE /\ ~ CtLookup(c) /\ ~ CtTouch(c) /\ ~ CtUpdateState(c)
            /\ ~ CtEstablish(c) /\ ~ CtInsertNew(c)
  <2>1. UNCHANGED <<conntrack, elems>> /\ xdp'[c].pc \notin {"ctTouch", "ctInsert"}
    BY <1>1, <1>2, <1>16, PointerRead
  <2> QED
    BY <1>5, <1>6, <1>7, <2>1
<1> QED
  BY <1>9, <1>10, <1>13, <1>14, <1>15, <1>16

\* No flow gets older by it.
LEMMA NoneOlder ==
    ASSUME MapsTypeOK, now' = now, Younger, NEW n \in Nat, n > 0
    PROVE  Old(n)' \subseteq Old(n)
<1> SUFFICES ASSUME NEW f \in Tracked', Age(f)' >= n
             PROVE  f \in Tracked /\ Age(f) >= n
  BY DEF Old
<1>1. Age(f)' = now - Seen(f)' /\ Age(f) = now - Seen(f) /\ now \in Nat
  BY DEF Age, Seen, MapsTypeOK
<1>2. Seen(f)' # now
  BY <1>1
<1> QED
  BY <1>1, <1>2 DEF Younger

\* A deletion leaves the others as they were.
LEMMA TableDeletes ==
    ASSUME MapsTypeOK, Fits, NEW flow \in Flows, CtDelete(flow)
    PROVE  Tracked' = Tracked \ {flow} /\ Younger /\ Fits'
<1>1. conntrack \in [Flows -> Slots \cup {None}]
  BY DEF MapsTypeOK
<1>2. \A f \in Flows : conntrack'[f] = IF f = flow THEN None ELSE conntrack[f]
  BY <1>1 DEF CtDelete
<1>3. Tracked' = Tracked \ {flow}
  BY <1>2 DEF Tracked
<1>4. Younger
  BY <1>2, <1>3 DEF Younger, Seen, CtDelete, Tracked
<1>5. IsFiniteSet(Tracked \ {flow}) /\ Cardinality(Tracked \ {flow}) <= Cardinality(Tracked)
  BY FS_Subset DEF Fits
<1>6. Cardinality(Tracked) \in Nat /\ Cardinality(Tracked \ {flow}) \in Nat /\ MaxFlows \in Nat
  BY <1>5, FS_CardinalityType, LimitAssumption DEF Fits
<1> QED
  BY <1>3, <1>4, <1>5, <1>6 DEF Fits

(***************************************************************************)
(* The clock's part of the invariant.                                      *)
(***************************************************************************)
LEMMA Times ==
    /\ CtTimeout \in Nat /\ CtTimeout > 0 /\ CtTimeout < Boot /\ Boot \in Nat
    /\ Interval \in Nat /\ Interval >= 1
    /\ CtTimeout + Interval <= Boot
    /\ CtTimeout >= 2 => 2 * (CtTimeout + Interval) <= 3 * CtTimeout
<1>1. /\ CtTimeout \in Nat /\ CtTimeout > 0 /\ Boot \in Nat
      /\ Boot > CtTimeout + 1 /\ 2 * Boot > 3 * CtTimeout
  BY AgingAssumption, TimeoutAssumption, LimitAssumption
<1>2. CtTimeout \div 2 \in Nat /\ 2 * (CtTimeout \div 2) <= CtTimeout
      /\ (CtTimeout >= 2 => CtTimeout \div 2 >= 1)
  BY <1>1
<1>3. CASE CtTimeout \div 2 < 1
  BY <1>1, <1>2, <1>3 DEF Interval
<1>4. CASE ~ (CtTimeout \div 2 < 1)
  BY <1>1, <1>2, <1>4 DEF Interval
<1> QED
  BY <1>3, <1>4

\* Within a second: flows do not age, a pass takes up the tick, and at its end
\* the idle flows are gone or a clear goes on.
LEMMA TimeKept ==
    ASSUME InTime, MapsTypeOK, now' = now, Younger, UNCHANGED wait, due' \in BOOLEAN,
           due' => due,
           reap'.pc # "rest" => ~ due',
           reap.pc = "rest" /\ reap'.pc # "rest" => due,
           reap'.pc = "rest" /\ ~ due' =>
                \/ reap.pc = "rest" /\ ~ due /\ (Covered => Covered')
                \/ (due \/ reap.pc # "rest") /\ Covered'
    PROVE  InTime' /\ Stale' \subseteq Stale
<1>1. \A n \in Nat : n > 0 => Old(n)' \subseteq Old(n)
  BY NoneOlder
<1>2. PICK w : w = wait
  OBVIOUS
<1>3. w \in 1 .. Interval /\ wait' = w
  BY <1>2 DEF InTime
<1>4. CtTimeout + Interval \in Nat /\ CtTimeout + Interval - w \in Nat
      /\ CtTimeout + Interval > 0 /\ CtTimeout + Interval - w > 0
  BY <1>3, Times
<1>5. Stale' \subseteq Stale
  BY <1>1, Times DEF Stale
<1>6. Old(CtTimeout + Interval)' = {}
  BY <1>1, <1>4 DEF InTime
<1>7. Old(CtTimeout + Interval - w) = {} => Old(CtTimeout + Interval - w)' = {}
  BY <1>1, <1>4
<1>8. wait' = Interval \/ ~ (due \/ reap.pc # "rest")
  BY DEF InTime
<1>9. reap'.pc = "rest" /\ ~ due' =>
        Old(CtTimeout + Interval - w)' = {} \/ (wait' = Interval /\ Covered')
  BY <1>2, <1>3, <1>7, <1>8 DEF InTime
<1> QED
  BY <1>3, <1>5, <1>6, <1>8, <1>9 DEF InTime

(***************************************************************************)
(* Steps that leave the lists alone.                                       *)
(***************************************************************************)
LEMMA ActorKept ==
    ASSUME NEW a \in Actors, ClearKnows(a), op'[a] = op[a], Stale' \subseteq Stale
    PROVE  ClearKnows(a)'
BY DEF ClearKnows, Complete, At

\* Packets come in, or nothing happens.
LEMMA GrowKeeps ==
    ASSUME AgingInv, PresenceInv', UNCHANGED <<op, reap, wait, due, now>>,
           StampsFresh', Fits', Tracked \subseteq Tracked', Younger
    PROVE  AgingInv'
<1>1. MapsTypeOK /\ InTime /\ ReapKnows /\ \A a \in Actors : ClearKnows(a) /\ Apart(a)
  BY DEF AgingInv, PresenceInv, TypeOK
<1>2. \A a : /\ Undisturbed(a) => Undisturbed(a)'
             /\ Sweeps(a) => Sweeps(a)'
             /\ \A f : Sweeps(a) /\ Beyond(a, f) => Sweeps(a)' /\ Beyond(a, f)'
  BY DEF Undisturbed, Sweeps, At, Beyond
<1>3. InTime' /\ Stale' \subseteq Stale
  <2>1. \A n \in Nat : n > 0 => Old(n)' \subseteq Old(n)
    BY <1>1, NoneOlder
  <2>2. Covered => Covered'
    BY <1>2, <2>1, Times DEF Covered, Stale
  <2> QED
    BY <1>1, <2>2, TimeKept DEF InTime
<1>4. Covered => Covered'
  BY <1>2, <1>3 DEF Covered
<1>5. \A a \in Actors : ClearKnows(a)'
  BY <1>1, <1>3, ActorKept
<1>6. \A a \in Actors : Apart(a)'
  BY <1>1, <1>2 DEF Apart, Walks, Tidy
<1>7. Unbroken(reap.iter) => Unbroken(reap.iter)'
  <2> DEFINE S == {f \in Tracked : Bucket[f] <= Bucket[reap.iter.cursor]}
             T == {f \in Tracked' : Bucket[f] <= Bucket[reap.iter.cursor]}
  <2>1. S \subseteq T /\ T \subseteq Tracked' /\ IsFiniteSet(Tracked')
    BY DEF Fits
  <2>2. Cardinality(S) <= Cardinality(T) /\ Cardinality(S) \in Nat /\ Cardinality(T) \in Nat
    BY <2>1, FS_Subset, FS_CardinalityType
  <2>3. reap.pc = reap'.pc /\ reap.iter = reap'.iter /\ reap.iter \in Iter
    BY DEF AgingInv, PresenceInv, TypeOK, ReaperTypeOK
  <2>4. reap.iter.count \in Nat
    BY <2>3, LimitAssumption DEF Iter
  <2> QED
    BY <2>2, <2>3, <2>4 DEF Unbroken
<1>8. ScanKnows => ScanKnows'
  BY <1>3, <1>4, <1>7 DEF ScanKnows, Complete
<1>9. ReapKnows'
  BY <1>1, <1>2, <1>3, <1>8 DEF ReapKnows
<1> QED
  BY <1>3, <1>5, <1>6, <1>9 DEF AgingInv

(***************************************************************************)
(* Steps of the control plane, as far as the connection table goes.        *)
(***************************************************************************)
NoTableWrite == UNCHANGED <<conntrack, elems>>

\* An actor is not at a clear of the table, or about to begin one; if it was at
\* its deletions there are none left, or the next key was gone.
Elsewhere(a) ==
    /\ NoTableWrite
    /\ At(a, "ctDel") => op[a].keys = <<>> \/ Head(op[a].keys) \notin Tracked
    /\ \/ op'[a].pc \notin {"ctKeys", "ctDel"}
       \/ op'[a].pc = "ctKeys" /\ op'[a].iter = NoIter /\ op'[a].keys = <<>>
Collects(a) ==
    /\ NoTableWrite
    /\ At(a, "ctKeys") /\ Ahead(op[a].iter) # {}
    /\ op'[a].pc = "ctKeys"
    /\ op'[a].iter = Advance(op[a].iter)
    /\ op'[a].keys = Append(op[a].keys, NextKey(op[a].iter))
HasCollected(a) ==
    /\ NoTableWrite
    /\ At(a, "ctKeys") /\ Ahead(op[a].iter) = {}
    /\ op'[a].pc = "ctDel" /\ op'[a].keys = op[a].keys
Deletes(a) ==
    /\ At(a, "ctDel") /\ op[a].keys # <<>>
    /\ CtDelete(Head(op[a].keys))
    /\ op'[a].pc = "ctDel" /\ op'[a].keys = Tail(op[a].keys)

LEMMA Entered ==
    \A call : /\ Enter(call).pc # "ctDel"
              /\ Enter(call).iter = NoIter /\ Enter(call).keys = <<>>
<1> SUFFICES ASSUME NEW call
             PROVE  /\ Enter(call).pc # "ctDel"
                    /\ Enter(call).iter = NoIter /\ Enter(call).keys = <<>>
  OBVIOUS
<1>1. FirstStep(call) # "ctDel"
  BY DEF FirstStep
<1> QED
  BY <1>1 DEF Enter, Idle

LEMMA ManagerTable ==
    ASSUME ControlTypeOK, ~ SyscallsFail, NEW a \in Actors, ManagerStep(a)
    PROVE  Elsewhere(a) \/ Collects(a) \/ HasCollected(a) \/ Deletes(a)
<1> USE DEF At
<1>1. op \in [Actors -> Op] /\ op[a] \in Op
  BY DEF ControlTypeOK
<1>2. ASSUME Fail(a)
      PROVE  op'[a].pc = "return"
  BY <1>2, FailStep
<1>3. ASSUME Succeed(a)
      PROVE  /\ op'[a].pc # "ctDel"
             /\ op'[a].pc = "ctKeys" => op'[a].iter = NoIter /\ op'[a].keys = <<>>
  <2>1. \/ \E call : op'[a] = Enter(call)
        \/ op'[a] = Outcome(op[a].call, TRUE)
    BY <1>1, <1>3 DEF Succeed
  <2>2. Outcome(op[a].call, TRUE).pc = "return"
    BY DEF Outcome, Idle
  <2> QED
    BY <2>1, <2>2, Entered
<1>4. \A p : Goto(a, p) => op'[a].pc = p
  BY <1>1 DEF Goto, Op
<1>5. CASE ConntrackKeys(a)
  <2>1. NoTableWrite /\ At(a, "ctKeys")
    BY <1>5 DEF ConntrackKeys, NoTableWrite, maps
  <2>2. CASE Fail(a)
    BY <1>2, <2>1, <2>2 DEF Elsewhere
  <2>3. CASE /\ IterHasNext(op[a].iter)
             /\ op' = [op EXCEPT ![a].iter = Advance(op[a].iter),
                                 ![a].keys = Append(@, NextKey(op[a].iter))]
    BY <1>1, <2>1, <2>3 DEF Collects, IterHasNext, Op
  <2>4. CASE /\ IterDone(op[a].iter)
             /\ op' = [op EXCEPT ![a].pc = "ctDel", ![a].iter = NoIter]
    BY <1>1, <2>1, <2>4 DEF HasCollected, IterDone, Op
  <2> QED
    BY <1>5, <2>2, <2>3, <2>4 DEF ConntrackKeys
<1>6. CASE ConntrackDelete(a)
  <2>1. CASE op[a].keys = <<>>
    BY <1>3, <1>6, <2>1 DEF ConntrackDelete, Elsewhere, NoTableWrite, ctVars
  <2>2. CASE op[a].keys # <<>> /\ Head(op[a].keys) \in Tracked
    BY <1>1, <1>6, <2>2 DEF ConntrackDelete, Deletes, Op
  <2>3. CASE op[a].keys # <<>> /\ Head(op[a].keys) \notin Tracked
    BY <1>2, <1>6, <2>3 DEF ConntrackDelete, Elsewhere, NoTableWrite, ctVars
  <2> QED
    BY <2>1, <2>2, <2>3
<1>7. ASSUME NoTableWrite, op[a].pc # "ctDel",
             \/ Fail(a) \/ Succeed(a)
             \/ op'[a].pc \notin {"ctKeys", "ctDel"}
      PROVE  Elsewhere(a)
  BY <1>2, <1>3, <1>7 DEF Elsewhere
<1>8. /\ UNCHANGED <<maps, now>> => NoTableWrite
      /\ UNCHANGED ctVars => NoTableWrite
  BY DEF maps, ctVars, NoTableWrite
<1>9. CASE SetPresenceRead(a)
  BY <1>1, <1>7, <1>8, <1>9 DEF SetPresenceRead, Op
<1>10. CASE SetPresenceWrite(a)
  BY <1>1, <1>7, <1>8, <1>10 DEF SetPresenceWrite, Op
<1>11. CASE PutRule(a)
  BY <1>7, <1>8, <1>11 DEF PutRule
<1>12. CASE DeleteRule(a)
  BY <1>4, <1>7, <1>8, <1>12 DEF DeleteRule
<1>13. CASE WipeRule(a)
  BY <1>4, <1>7, <1>8, <1>13 DEF WipeRule
<1>14. CASE MapHasEntries(a)
  BY <1>1, <1>7, <1>8, <1>14 DEF MapHasEntries, Op
<1>15. CASE SyncPresenceRead(a)
  BY <1>1, <1>7, <1>8, <1>15 DEF SyncPresenceRead, Op
<1>16. CASE SyncPresenceWrite(a)
  BY <1>7, <1>8, <1>16 DEF SyncPresenceWrite
<1>17. CASE SetDefaultPolicy(a)
  BY <1>7, <1>8, <1>17 DEF SetDefaultPolicy
<1> QED
  BY <1>5, <1>6, <1>9, <1>10, <1>11, <1>12, <1>13, <1>14, <1>15, <1>16, <1>17
     DEF ManagerStep, SyscallError

LEMMA ControlTable ==
    ASSUME ControlTypeOK, ~ SyscallsFail, ControlNext
    PROVE  \E a \in Actors :
                /\ \A b \in Actors \ {a} : op'[b] = op[b]
                /\ Elsewhere(a) \/ Collects(a) \/ HasCollected(a) \/ Deletes(a)
<1> USE DEF At
<1>1. op \in [Actors -> Op] /\ Main \in Actors /\ Handlers \subseteq Actors
  BY DEF ControlTypeOK, Actors
<1>2. CASE \E a \in Actors : ManagerStep(a)
  <2>1. PICK a \in Actors : ManagerStep(a)
    BY <1>2
  <2>2. \A b \in Actors \ {a} : op'[b] = op[b]
    <3>1. op' = [op EXCEPT ![a] = op'[a]]
      BY <2>1, ManagerMove
    <3> QED
      BY <1>1, <3>1
  <2> QED
    BY <2>1, <2>2, ManagerTable
<1>3. ASSUME NEW a \in Actors, NEW x, op' = [op EXCEPT ![a] = x],
             UNCHANGED <<maps, now>>, op[a].pc # "ctDel",
             x.pc # "ctDel", x.pc = "ctKeys" => x.iter = NoIter /\ x.keys = <<>>
      PROVE  \E b \in Actors :
                /\ \A d \in Actors \ {b} : op'[d] = op[d]
                /\ Elsewhere(b)
  BY <1>1, <1>3 DEF Elsewhere, NoTableWrite, maps
<1>4. Idle.pc = "idle"
  BY DEF Idle
<1>5. ASSUME NEW h \in Handlers, NEW req \in Requests, Accept(h, req)
      PROVE  \E b \in Actors : /\ \A d \in Actors \ {b} : op'[d] = op[d]
                               /\ Elsewhere(b)
  <2> DEFINE x == [Idle EXCEPT !.pc = "lock", !.call = handle(req)]
  <2>1. x.pc = "lock"
    BY DEF Idle
  <2>2. op' = [op EXCEPT ![h] = x] /\ UNCHANGED <<maps, now>> /\ op[h].pc = "idle"
    BY <1>5 DEF Accept
  <2> HIDE DEF x
  <2> QED
    BY <1>1, <1>3, <2>1, <2>2
<1>6. ASSUME NEW h \in Handlers, Lock(h)
      PROVE  \E b \in Actors : /\ \A d \in Actors \ {b} : op'[d] = op[d]
                               /\ Elsewhere(b)
  <2>1. op' = [op EXCEPT ![h] = Enter(op[h].call)] /\ UNCHANGED <<maps, now>>
        /\ op[h].pc = "lock"
    BY <1>6 DEF Lock
  <2> QED
    BY <1>1, <1>3, <2>1, Entered
<1>7. ASSUME NEW h \in Handlers, Unlock(h)
      PROVE  \E b \in Actors : /\ \A d \in Actors \ {b} : op'[d] = op[d]
                               /\ Elsewhere(b)
  <2> DEFINE x == [op[h] EXCEPT !.pc = "reply"]
  <2>1. x.pc = "reply"
    BY <1>1 DEF Op
  <2>2. op' = [op EXCEPT ![h] = x] /\ UNCHANGED <<maps, now>> /\ op[h].pc = "return"
    BY <1>1, <1>7 DEF Unlock, Goto
  <2> HIDE DEF x
  <2> QED
    BY <1>1, <1>3, <2>1, <2>2
<1>8. ASSUME NEW h \in Handlers, Reply(h)
      PROVE  \E b \in Actors : /\ \A d \in Actors \ {b} : op'[d] = op[d]
                               /\ Elsewhere(b)
  BY <1>1, <1>3, <1>4, <1>8 DEF Reply
<1>9. ASSUME StartupBlock
      PROVE  \E b \in Actors : /\ \A d \in Actors \ {b} : op'[d] = op[d]
                               /\ Elsewhere(b)
  BY <1>1, <1>3, <1>9, Entered DEF StartupBlock
<1>10. ASSUME StartupNext
       PROVE  \E b \in Actors : /\ \A d \in Actors \ {b} : op'[d] = op[d]
                                /\ Elsewhere(b)
  BY <1>1, <1>3, <1>4, <1>10 DEF StartupNext
<1> QED
  BY <1>2, <1>5, <1>6, <1>7, <1>8, <1>9, <1>10 DEF ControlNext


\* The sequences of the invariant are sequences of flows.
LEMMA ListTypes ==
    ASSUME TypeOK
    PROVE  /\ \A a \in Actors : op[a].keys \in Seq(Flows) /\ op[a].iter \in Iter
           /\ reap.stale \in Seq(Flows) /\ reap.iter \in Iter
           /\ MapsTypeOK /\ ControlTypeOK /\ op \in [Actors -> Op]
<1>1. op \in [Actors -> Op]
  BY DEF TypeOK, ControlTypeOK
<1> QED
  BY <1>1 DEF TypeOK, ReaperTypeOK, Op

\* What is left to show of a control step, whatever it does.
LEMMA StepOfOne ==
    ASSUME AgingInv, PresenceInv', UNCHANGED <<xdp, reap, wait, due, now>>,
           Fits', Younger, Tracked' \subseteq Tracked,
           NEW a \in Actors, \A b \in Actors \ {a} : op'[b] = op[b],
           Stale' \subseteq Stale => ClearKnows(a)',
           \A b \in Actors : Apart(b)',
           Stale' \subseteq Stale => (Covered => Covered'),
           Stale' \subseteq Stale =>
               \A s \in Elements(reap.stale) \ Tracked' :
                   Stale' = {} \/ \E b \in Actors : Sweeps(b)' /\ Beyond(b, s)',
           reap.pc = "scan" /\ Stale' \subseteq Stale =>
               /\ Unbroken(reap.iter)' \/ Covered'
               /\ reap.iter.cursor \notin Tracked' \cup {None} =>
                       \A f \in Stale' : Bucket[f] > Bucket[reap.iter.cursor]
    PROVE  AgingInv'
<1>1. MapsTypeOK /\ InTime /\ ReapKnows /\ \A b \in Actors : ClearKnows(b)
  BY DEF AgingInv, PresenceInv, TypeOK
<1>2. Stale' \subseteq Stale
  <2>1. \A n \in Nat : n > 0 => Old(n)' \subseteq Old(n)
    BY <1>1, NoneOlder
  <2> QED
    BY <2>1, Times DEF Stale
<1>3. InTime'
  BY <1>1, <1>2, TimeKept DEF InTime
<1>4. \A b \in Actors : ClearKnows(b)'
  BY <1>1, <1>2, ActorKept
<1>5. StampsFresh'
  BY DEF AgingInv, StampsFresh
<1>6. reap.pc = "scan" => ScanKnows'
  BY <1>1, <1>2 DEF ReapKnows, ScanKnows, Complete
<1>7. ReapKnows'
  BY <1>1, <1>2, <1>6 DEF ReapKnows
<1> QED
  BY <1>3, <1>4, <1>5, <1>7 DEF AgingInv

\* A step that leaves the table alone, of an actor that was not sweeping it.
LEMMA StepAside ==
    ASSUME AgingInv, PresenceInv', UNCHANGED <<conntrack, elems, xdp, reap, wait, due, now>>,
           NEW a \in Actors, \A b \in Actors \ {a} : op'[b] = op[b],
           ClearKnows(a)', Apart(a)', Sweeps(a) => Stale = {}
    PROVE  AgingInv'
<1>1. Tracked' = Tracked /\ Stale' = Stale /\ Younger /\ Fits'
  BY DEF AgingInv, Fits, Tracked, Stale, Old, Age, Younger, Seen
<1>2. ASSUME NEW b \in Actors, Sweeps(b), Stale # {}
      PROVE  Sweeps(b)' /\ \A f : Beyond(b, f) => Beyond(b, f)'
  BY <1>1, <1>2 DEF Sweeps, Undisturbed, At, Beyond
<1>3. \A b \in Actors : Apart(b)'
  BY <1>1 DEF AgingInv, Apart, Walks, Undisturbed
<1>4. Covered => Covered'
  BY <1>1, <1>2 DEF Covered
<1>5. \A s \in Elements(reap.stale) \ Tracked' :
            Stale' = {} \/ \E b \in Actors : Sweeps(b)' /\ Beyond(b, s)'
  BY <1>1, <1>2 DEF AgingInv, ReapKnows
<1>6. reap.pc = "scan" =>
        /\ Unbroken(reap.iter)' \/ Covered'
        /\ reap.iter.cursor \notin Tracked' \cup {None} =>
                \A f \in Stale' : Bucket[f] > Bucket[reap.iter.cursor]
  BY <1>1, <1>4 DEF AgingInv, ReapKnows, ScanKnows, Unbroken
<1> QED
  BY <1>1, <1>3, <1>4, <1>5, <1>6, StepOfOne

LEMMA ElsewhereKeeps ==
    ASSUME AgingInv, PresenceInv', UNCHANGED <<xdp, reap, wait, due, now>>,
           NEW a \in Actors, \A b \in Actors \ {a} : op'[b] = op[b], Elsewhere(a)
    PROVE  AgingInv'
<1>1. /\ op[a].keys \in Seq(Flows)
      /\ ClearKnows(a) /\ UNCHANGED <<conntrack, elems>>
  BY ListTypes DEF AgingInv, PresenceInv, Elsewhere, NoTableWrite
<1>2. Elements(<<>>) = {} /\ Ordered(<<>>)
  BY DEF Elements, Ordered
<1>3. ASSUME Sweeps(a)
      PROVE  Stale = {}
  <2>1. op[a].keys = <<>> \/ Head(op[a].keys) \notin Tracked
    BY <1>3 DEF Elsewhere, Sweeps
  <2>2. CASE op[a].keys = <<>>
    BY <1>1, <1>2, <1>3, <2>2 DEF Sweeps, ClearKnows
  <2>3. CASE op[a].keys # <<>>
    <3>1. Head(op[a].keys) \in Elements(op[a].keys)
      BY <1>1, <2>3, TailOf
    <3> QED
      BY <1>3, <2>1, <2>3, <3>1 DEF Sweeps, Undisturbed
  <2> QED
    BY <2>2, <2>3
<1>4. \/ op'[a].pc \notin {"ctKeys", "ctDel"}
      \/ op'[a].pc = "ctKeys" /\ op'[a].iter = NoIter /\ op'[a].keys = <<>>
  BY DEF Elsewhere
<1>5. ClearKnows(a)'
  BY <1>4 DEF ClearKnows, At, Complete, NoIter
<1>6. Apart(a)'
  BY <1>2, <1>4 DEF Apart, Walks, Undisturbed, Tidy
<1> QED
  BY <1>1, <1>3, <1>5, <1>6, StepAside

LEMMA HasCollectedKeeps ==
    ASSUME AgingInv, PresenceInv', UNCHANGED <<xdp, reap, wait, due, now>>,
           NEW a \in Actors, \A b \in Actors \ {a} : op'[b] = op[b], HasCollected(a)
    PROVE  AgingInv'
<1>1. ClearKnows(a) /\ Apart(a) /\ UNCHANGED <<conntrack, elems>>
  BY DEF AgingInv, HasCollected, NoTableWrite
<1>2. Tracked' = Tracked /\ Stale' = Stale
  BY <1>1 DEF Tracked, Stale, Old, Age
<1>3. op[a].pc = "ctKeys" /\ op'[a].pc = "ctDel" /\ op'[a].keys = op[a].keys
  BY DEF HasCollected, At
<1>4. Stale \subseteq Elements(op[a].keys)
  BY <1>1, CompleteDone DEF ClearKnows, HasCollected
<1>5. ClearKnows(a)'
  BY <1>2, <1>3, <1>4 DEF ClearKnows, At
<1>6. Apart(a)'
  BY <1>1, <1>2, <1>3 DEF Apart, Walks, Undisturbed
<1>7. ~ Sweeps(a)
  BY <1>3 DEF Sweeps, At
<1> QED
  BY <1>1, <1>5, <1>6, <1>7, StepAside

LEMMA CollectsKeeps ==
    ASSUME AgingInv, PresenceInv', UNCHANGED <<xdp, reap, wait, due, now>>,
           NEW a \in Actors, \A b \in Actors \ {a} : op'[b] = op[b], Collects(a)
    PROVE  AgingInv'
<1> DEFINE it == op[a].iter
           q == op[a].keys
           k == NextKey(it)
<1>1. /\ q \in Seq(Flows) /\ ClearKnows(a) /\ Apart(a) /\ Fits
      /\ UNCHANGED <<conntrack, elems>> /\ reap.stale \in Seq(Flows)
  BY ListTypes DEF AgingInv, PresenceInv, Collects, NoTableWrite
<1>2. Tracked' = Tracked /\ Stale' = Stale
  BY <1>1 DEF Tracked, Stale, Old, Age
<1>3. /\ op[a].pc = "ctKeys" /\ op'[a].pc = "ctKeys" /\ Ahead(it) # {}
      /\ op'[a].keys = Append(q, k) /\ op'[a].iter.cursor = k
  BY DEF Collects, At, Advance
<1>4. /\ k \in Tracked /\ k \in Flows
      /\ it.cursor \in Tracked => Bucket[k] > Bucket[it.cursor]
  BY <1>3, NextKeyLeast
<1>5. Complete(it, q) /\ it.cursor = IF q = <<>> THEN None ELSE q[Len(q)]
  BY <1>1, <1>3 DEF ClearKnows, At
<1>6. \A f \in Stale : f \in Elements(q) \/ f = k \/ Bucket[f] > Bucket[k]
  BY <1>3, <1>5, CompleteNext
<1>7. /\ Append(q, k) # <<>> /\ Append(q, k)[Len(Append(q, k))] = k
      /\ Elements(Append(q, k)) = Elements(q) \cup {k}
  BY <1>1, <1>4, AppendOf
<1> HIDE DEF k, it, q
<1>8. ClearKnows(a)'
  BY <1>2, <1>3, <1>6, <1>7 DEF ClearKnows, At, Complete
<1>9. ASSUME due \/ reap.pc = "scan"
      PROVE  Ordered(Append(q, k)) /\ Elements(Append(q, k)) \subseteq Tracked
  <2>1. Ordered(q) /\ Elements(q) \subseteq Tracked
    BY <1>1, <1>3, <1>9 DEF Apart, Walks, Undisturbed, q
  <2>2. ASSUME NEW j \in Elements(q)
        PROVE  Bucket[j] < Bucket[k]
    <3>1. q # <<>>
      BY <2>2 DEF Elements
    <3>2. q[Len(q)] \in Elements(q) /\ Bucket[j] <= Bucket[q[Len(q)]]
      BY <1>1, <2>1, <3>1, LastOrdered
    <3>3. Bucket[q[Len(q)]] < Bucket[k]
      BY <1>4, <1>5, <2>1, <3>1, <3>2
    <3>4. j \in Flows /\ q[Len(q)] \in Flows
      BY <2>1, <3>2, Buckets
    <3> QED
      BY <1>4, <3>2, <3>3, <3>4, Buckets
  <2> QED
    BY <1>1, <1>4, <1>7, <2>1, <2>2, AppendOrdered
<1>10. ASSUME reap.pc = "delete", reap.stale # <<>>
       PROVE  Tidy(Append(q, k), Head(reap.stale), Tracked)
  <2>1. Head(reap.stale) \in Flows
    BY <1>1, <1>10, TailOf
  <2>2. Tidy(q, Head(reap.stale), Tracked)
    BY <1>1, <1>3, <1>10 DEF Apart, Walks, q
  <2>3. q = <<>> \/ q[Len(q)] \notin Tracked \/ Bucket[q[Len(q)]] < Bucket[k]
    BY <1>4, <1>5
  <2> QED
    BY <1>1, <1>4, <2>1, <2>2, <2>3, TidyAppend
<1>11. Apart(a)'
  BY <1>2, <1>3, <1>9, <1>10 DEF Apart, Walks, Undisturbed
<1>12. ~ Sweeps(a)
  BY <1>3 DEF Sweeps, At
<1> QED
  BY <1>1, <1>8, <1>11, <1>12, StepAside

LEMMA DeletesKeeps ==
    ASSUME AgingInv, PresenceInv', UNCHANGED <<xdp, reap, wait, due, now>>,
           NEW a \in Actors, \A b \in Actors \ {a} : op'[b] = op[b], Deletes(a)
    PROVE  AgingInv'
<1> DEFINE q == op[a].keys
           t == Tail(op[a].keys)
           z == Head(op[a].keys)
<1>1. /\ q \in Seq(Flows) /\ ClearKnows(a) /\ Apart(a) /\ Fits /\ ReapKnows
      /\ MapsTypeOK /\ ControlTypeOK /\ reap.stale \in Seq(Flows)
      /\ MutexHeld /\ StartupAlone
  BY ListTypes DEF AgingInv, PresenceInv, SoleWriterKnows
<1>2. /\ op[a].pc = "ctDel" /\ op'[a].pc = "ctDel" /\ op'[a].keys = t
      /\ q # <<>> /\ CtDelete(z)
  BY DEF Deletes, At
<1>3. ASSUME NEW b \in Actors \ {a}
      PROVE  ~ Walks(b) /\ ~ Walks(b)'
  <2>1. op[a].pc \in Locked /\ op'[b] = op[b]
    BY <1>2 DEF Locked, Syscalls
  <2>2. op[b].pc \notin Locked
    BY <1>1, <2>1, OneInside
  <2> QED
    BY <2>1, <2>2 DEF Walks, Locked, Syscalls
<1>4. z \in Flows /\ Elements(q) = {z} \cup Elements(t)
  BY <1>1, <1>2, TailOf
<1>5. Tracked' = Tracked \ {z} /\ Younger /\ Fits'
  BY <1>1, <1>2, <1>4, TableDeletes
<1> HIDE DEF q, t, z
<1>6. Stale' \subseteq Stale => Stale' \subseteq Elements(t)
  BY <1>1, <1>2, <1>4, <1>5 DEF ClearKnows, At, Stale, Old, q
<1>7. Stale' \subseteq Stale => ClearKnows(a)'
  BY <1>2, <1>6 DEF ClearKnows, At
<1>8. ASSUME Undisturbed(a)
      PROVE  Sweeps(a)' /\ \A k \in Elements(t) : Bucket[k] > Bucket[z]
  <2>1. Ordered(t) /\ \A k \in Elements(t) : Bucket[k] > Bucket[z]
    BY <1>1, <1>2, <1>8, TailOrdered DEF Undisturbed, q, t, z
  <2>2. Elements(t) \subseteq Tracked
    BY <1>4, <1>8 DEF Undisturbed, q
  <2>3. z \notin Elements(t)
    BY <1>4, <2>1, Buckets
  <2> QED
    BY <1>2, <1>5, <2>1, <2>2, <2>3 DEF Sweeps, At, Undisturbed
<1>9. \A b \in Actors : Sweeps(b) => b = a
  BY <1>3 DEF Sweeps, At, Walks
<1>10. Stale' \subseteq Stale => (Covered => Covered')
  BY <1>8, <1>9 DEF Covered, Sweeps
<1>11. ASSUME reap.pc = "delete", reap.stale # <<>>
       PROVE  Head(reap.stale) \in Flows /\ Tidy(q, Head(reap.stale), Tracked)
  BY <1>1, <1>2, <1>11, TailOf DEF Apart, Walks, q
<1>12. ASSUME NEW b \in Actors
       PROVE  Apart(b)'
  <2>1. CASE b # a
    BY <1>3, <2>1 DEF Apart
  <2>2. CASE b = a
    <3>1. due \/ reap.pc = "scan" => Undisturbed(a)'
      BY <1>1, <1>2, <1>8 DEF Apart, Walks, Sweeps
    <3>2. reap.pc = "delete" /\ reap.stale # <<>> => Tidy(t, Head(reap.stale), Tracked')
      BY <1>1, <1>2, <1>5, <1>11, TidyTail DEF q, t, z
    <3> QED
      BY <1>2, <2>2, <3>1, <3>2 DEF Apart
  <2> QED
    BY <2>1, <2>2
<1>13. ASSUME Stale' \subseteq Stale, NEW s \in Elements(reap.stale), s \notin Tracked'
       PROVE  Stale' = {} \/ \E b \in Actors : Sweeps(b)' /\ Beyond(b, s)'
  <2>1. CASE s \notin Tracked
    <3>1. Stale = {} \/ (Sweeps(a) /\ Beyond(a, s))
      BY <1>1, <1>9, <2>1 DEF ReapKnows
    <3>2. Beyond(a, s) => Beyond(a, s)'
      BY <1>2, <1>4 DEF Beyond, q
    <3> QED
      BY <1>8, <1>13, <3>1, <3>2 DEF Sweeps
  <2>2. CASE s \in Tracked
    <3>1. s = z
      BY <1>5, <2>2, <1>13
    <3>2. reap.pc \in {"scan", "delete"} /\ reap.stale # <<>>
      <4>1. Elements(<<>>) = {}
        BY DEF Elements
      <4>2. reap.pc # "rest"
        BY <1>1, <1>13, <4>1 DEF ReapKnows, Resting
      <4> QED
        BY <1>13, <4>1, <4>2 DEF AgingInv, PresenceInv, TypeOK, ReaperTypeOK
    <3>3. CASE reap.pc = "scan"
      <4>1. Undisturbed(a)
        BY <1>1, <1>2, <3>3 DEF Apart, Walks
      <4> QED
        BY <1>2, <1>8, <3>1, <4>1 DEF Beyond
    <3>4. CASE reap.pc = "delete"
      <4>1. PICK i \in 1 .. Len(reap.stale) : reap.stale[i] = z
        BY <1>13, <3>1 DEF Elements
      <4>2. 1 \in 1 .. Len(reap.stale) /\ Head(reap.stale) = reap.stale[1]
            /\ Bucket[z] \in Nat /\ Bucket[reap.stale[1]] \in Nat
        BY <1>1, <1>4, <3>2, TailOf, Buckets
      <4>3. i = 1 \/ 1 < i
        BY <4>1
      <4>4. Bucket[z] >= Bucket[Head(reap.stale)]
        BY <1>1, <4>1, <4>2, <4>3 DEF ReapKnows, Ordered
      <4>5. /\ Ordered(t) /\ Elements(t) \subseteq Tracked \ {z}
            /\ \A k \in Elements(t) : Bucket[k] > Bucket[z]
        BY <1>1, <1>2, <1>11, <3>2, <3>4, <4>4, TidySweeps DEF q, t, z
      <4> QED
        BY <1>2, <1>5, <3>1, <4>5 DEF Sweeps, At, Undisturbed, Beyond
    <3> QED
      BY <3>2, <3>3, <3>4
  <2> QED
    BY <2>1, <2>2
<1>14. ASSUME reap.pc = "scan", Stale' \subseteq Stale
       PROVE  /\ Unbroken(reap.iter)' \/ Covered'
              /\ reap.iter.cursor \notin Tracked' \cup {None} =>
                      \A f \in Stale' : Bucket[f] > Bucket[reap.iter.cursor]
  <2>1. Undisturbed(a) /\ ScanKnows
    BY <1>1, <1>2, <1>14 DEF Apart, Walks, ReapKnows
  <2> QED
    BY <1>5, <1>6, <1>8, <1>14, <2>1 DEF Covered, ScanKnows
<1> QED
  BY <1>5, <1>7, <1>10, <1>12, <1>13, <1>14, StepOfOne

LEMMA ControlKeeps ==
    ASSUME AgingInv, PresenceInv', ~ SyscallsFail, ControlNext,
           UNCHANGED <<xdp, reap, wait, due, now>>
    PROVE  AgingInv'
<1>1. PICK a \in Actors :
        /\ \A b \in Actors \ {a} : op'[b] = op[b]
        /\ Elsewhere(a) \/ Collects(a) \/ HasCollected(a) \/ Deletes(a)
  BY ControlTable DEF AgingInv, PresenceInv, TypeOK
<1> QED
  BY <1>1, ElsewhereKeeps, CollectsKeeps, HasCollectedKeeps, DeletesKeeps

(***************************************************************************)
(* Steps of the reaper.                                                    *)
(***************************************************************************)
ReaperMoves ==
    /\ UNCHANGED <<op, xdp, wait, now>>
    /\ PassBegins => due
    /\ due' = (due /\ ~ PassBegins)

\* What is left to show of a reaper's step, whatever it does.
LEMMA StepOfReaper ==
    ASSUME AgingInv, PresenceInv', ReaperMoves, Fits', Younger,
           reap.pc = "rest" => reap'.pc # "rest",
           Stale' \subseteq Stale =>
               ReapKnows' /\ (reap'.pc = "rest" => Covered'),
           \A b \in Actors : Apart(b)'
    PROVE  AgingInv'
<1>1. MapsTypeOK /\ InTime /\ \A b \in Actors : ClearKnows(b)
  BY DEF AgingInv, PresenceInv, TypeOK
<1>2. Stale' \subseteq Stale
  <2>1. \A n \in Nat : n > 0 => Old(n)' \subseteq Old(n)
    BY <1>1, NoneOlder DEF ReaperMoves
  <2> QED
    BY <2>1, Times DEF Stale
<1>3. due' \in BOOLEAN /\ (due' => due) /\ (reap'.pc # "rest" => ~ due')
  BY <1>1 DEF ReaperMoves, PassBegins, InTime
<1>4. InTime'
  BY <1>1, <1>2, <1>3, TimeKept DEF ReaperMoves, PassBegins
<1>5. \A b \in Actors : ClearKnows(b)'
  BY <1>1, <1>2, ActorKept DEF ReaperMoves
<1>6. StampsFresh'
  BY DEF AgingInv, StampsFresh, ReaperMoves
<1> QED
  BY <1>2, <1>4, <1>5, <1>6 DEF AgingInv

\* A step that leaves the table alone leaves the clears alone.
LEMMA TableRests ==
    ASSUME Fits, ReaperMoves, UNCHANGED maps
    PROVE  /\ Tracked' = Tracked /\ Stale' = Stale /\ Younger /\ Fits'
           /\ \A b : Undisturbed(b)' = Undisturbed(b) /\ Sweeps(b)' = Sweeps(b)
           /\ \A b, f : Beyond(b, f)' = Beyond(b, f)
           /\ Covered' = Covered
<1>1. UNCHANGED <<conntrack, elems, op, now>>
  BY DEF ReaperMoves, maps
<1>2. Tracked' = Tracked
  BY <1>1 DEF Tracked
<1>3. Stale' = Stale /\ Younger /\ Fits'
  BY <1>1, <1>2 DEF Fits, Stale, Old, Age, Younger, Seen
<1>4. /\ \A b : Undisturbed(b)' = Undisturbed(b) /\ Sweeps(b)' = Sweeps(b)
      /\ \A b, f : Beyond(b, f)' = Beyond(b, f)
  BY <1>1, <1>2 DEF Undisturbed, Sweeps, At, Beyond
<1> QED
  BY <1>2, <1>3, <1>4 DEF Covered

LEMMA NoList == Ordered(<<>>) /\ Elements(<<>>) = {}
BY DEF Ordered, Elements

LEMMA ReapStartKeeps ==
    ASSUME AgingInv, PresenceInv', ReaperMoves, ReapStart
    PROVE  AgingInv'
<1>1. /\ InTime /\ ReapKnows /\ Fits /\ UNCHANGED maps
      /\ \A b \in Actors : Apart(b)
  BY DEF AgingInv, ReapStart
<1>2. /\ reap.pc = "rest" /\ reap'.pc = "scan" /\ reap'.stale = <<>>
      /\ reap'.iter.cursor = None /\ reap'.iter.count = 0
      /\ reap'.cutoff = now - CtTimeout
  BY <1>1, Times DEF ReapStart, Resting, NoIter, InTime
<1>3. due /\ ~ due' /\ now' = now
  BY <1>2 DEF ReaperMoves, PassBegins
<1>4. Tracked' = Tracked /\ Younger /\ Fits' /\ \A b : Undisturbed(b)' = Undisturbed(b)
  BY <1>1, TableRests
<1>5. ReapKnows'
  BY <1>2, <1>3, NoList DEF ReapKnows, ScanKnows, Complete, Unbroken
<1>6. \A b \in Actors : Apart(b)'
  <2>1. op' = op
    BY DEF ReaperMoves
  <2> QED
    BY <1>1, <1>2, <1>3, <1>4, <2>1 DEF Apart, Walks
<1> QED
  BY <1>2, <1>4, <1>5, <1>6, StepOfReaper

LEMMA ReapEndKeeps ==
    ASSUME AgingInv, PresenceInv', ReaperMoves, ReapEnd
    PROVE  AgingInv'
<1>1. /\ InTime /\ ReapKnows /\ Fits /\ UNCHANGED maps /\ reap.stale \in Seq(Flows)
  BY ListTypes DEF AgingInv, PresenceInv, ReapEnd
<1>2. reap.pc = "delete" /\ reap' = Resting /\ reap'.pc = "rest" /\ reap'.stale = <<>>
  BY DEF ReapEnd, Resting
<1>3. ~ due'
  BY <1>1, <1>2 DEF ReaperMoves, InTime
<1>4. Younger /\ Fits' /\ Covered' = Covered
  BY <1>1, TableRests
<1>5. Covered
  <2>1. CASE reap.stale = <<>>
    BY <1>1, <1>2, <2>1, NoList DEF ReapKnows, Covered
  <2>2. CASE reap.stale # <<>>
    <3>1. Head(reap.stale) \in Elements(reap.stale) \ Tracked
      BY <1>1, <2>2, TailOf DEF ReapEnd
    <3> QED
      BY <1>1, <3>1 DEF ReapKnows, Covered
  <2> QED
    BY <2>1, <2>2
<1>6. ReapKnows'
  BY <1>2, NoList DEF ReapKnows
<1>7. \A b \in Actors : Apart(b)'
  BY <1>2, <1>3 DEF Apart
<1> QED
  BY <1>2, <1>4, <1>5, <1>6, <1>7, StepOfReaper

LEMMA ReapDeleteKeeps ==
    ASSUME AgingInv, PresenceInv', ReaperMoves, ReapDelete
    PROVE  AgingInv'
<1> DEFINE x == Head(reap.stale)
           t == Tail(reap.stale)
<1>1. /\ InTime /\ ReapKnows /\ Fits /\ MapsTypeOK
      /\ reap.stale \in Seq(Flows) /\ \A b \in Actors : Apart(b) /\ op[b].keys \in Seq(Flows)
  BY ListTypes DEF AgingInv, PresenceInv
<1>2. /\ reap.pc = "delete" /\ reap.stale # <<>> /\ CtDelete(x)
      /\ reap'.pc = "delete" /\ reap'.stale = t
  BY DEF ReapDelete, AgingInv, PresenceInv, TypeOK, ReaperTypeOK
<1>3. ~ due' /\ op' = op /\ now' = now
  BY <1>1, <1>2 DEF ReaperMoves, InTime
<1>4. x \in Flows /\ t \in Seq(Flows) /\ Elements(reap.stale) = {x} \cup Elements(t)
  BY <1>1, <1>2, TailOf
<1>5. Tracked' = Tracked \ {x} /\ Younger /\ Fits'
  BY <1>1, <1>2, <1>4, TableDeletes
<1>6. Ordered(t) /\ \A s \in Elements(t) : Bucket[s] > Bucket[x]
  BY <1>1, <1>2, TailOrdered DEF ReapKnows
<1> HIDE DEF x, t
<1>7. ASSUME Stale' \subseteq Stale
      PROVE  ReapKnows'
  <2>1. Stale' \subseteq Elements(t)
    BY <1>1, <1>2, <1>4, <1>5, <1>7 DEF ReapKnows, Stale, Old
  <2>2. ASSUME NEW s \in Elements(t), s \notin Tracked'
        PROVE  Stale' = {} \/ \E b \in Actors : Sweeps(b)' /\ Beyond(b, s)'
    <3>1. Bucket[s] > Bucket[x]
      BY <1>6, <2>2
    <3>2. s # x /\ Bucket[s] \in Nat /\ Bucket[x] \in Nat
      <4>1. s \in Flows
        BY <1>4, <2>2 DEF Elements
      <4> QED
        BY <1>4, <3>1, <4>1, Buckets
    <3>3. s \in Elements(reap.stale) \ Tracked
      BY <1>4, <1>5, <2>2, <3>2
    <3>4. CASE Stale = {}
      BY <1>7, <3>4
    <3>5. ASSUME NEW b \in Actors, Sweeps(b), Beyond(b, s)
          PROVE  Sweeps(b)' /\ Beyond(b, s)'
      <4>1. x \notin Elements(op[b].keys)
        BY <3>1, <3>2, <3>5 DEF Beyond
      <4> QED
        BY <1>3, <1>5, <3>5, <4>1 DEF Sweeps, At, Undisturbed, Beyond
    <3> QED
      BY <1>1, <3>3, <3>4, <3>5 DEF ReapKnows
  <2> QED
    BY <1>2, <1>6, <2>1, <2>2 DEF ReapKnows
<1>8. ASSUME NEW b \in Actors
      PROVE  Apart(b)'
  <2>1. ASSUME Walks(b), t # <<>>
        PROVE  Tidy(op[b].keys, Head(t), Tracked \ {x})
    <3>1. Tidy(op[b].keys, x, Tracked)
      BY <1>1, <1>2, <2>1 DEF Apart, x
    <3>2. Head(t) \in Elements(t) /\ Head(t) \in Flows
      BY <1>4, <2>1, TailOf
    <3>3. Bucket[x] < Bucket[Head(t)]
      BY <1>4, <1>6, <3>2, Buckets
    <3> QED
      BY <1>1, <1>4, <3>1, <3>2, <3>3, TidyLater
  <2> QED
    BY <1>2, <1>3, <1>5, <2>1 DEF Apart, Walks
<1> QED
  BY <1>2, <1>5, <1>7, <1>8, StepOfReaper

\* The walk gives one more key.
LEMMA WalkKeeps ==
    ASSUME AgingInv, PresenceInv', ReaperMoves, reap.pc = "scan", UNCHANGED maps,
           IterHasNext(reap.iter),
           reap' = [reap EXCEPT !.iter = Advance(reap.iter),
                        !.stale = IF IsStale(NextKey(reap.iter))
                                  THEN Append(@, NextKey(reap.iter)) ELSE @]
    PROVE  AgingInv'
<1> DEFINE it == reap.iter
           k == NextKey(it)
           q == reap.stale
           r == IF k \in Stale THEN Append(q, k) ELSE q
<1>1. /\ InTime /\ ReapKnows /\ Fits /\ MapsTypeOK /\ ScanKnows
      /\ q \in Seq(Flows) /\ it \in Iter /\ \A b \in Actors : Apart(b)
  BY ListTypes DEF AgingInv, PresenceInv, ReapKnows
<1>2. /\ k \in Tracked /\ k \in Flows
      /\ it.cursor \in Tracked => Bucket[k] > Bucket[it.cursor]
  BY NextKeyLeast DEF IterHasNext
<1>3. IsStale(k) <=> k \in Stale
  <2>1. elems[conntrack[k]].last_seen \in Nat /\ now \in Nat /\ CtTimeout \in Nat
    <3>1. conntrack[k] \in Slots
      BY <1>1, <1>2 DEF MapsTypeOK, Tracked
    <3> QED
      BY <1>1, <3>1, Times DEF MapsTypeOK
  <2>2. reap.cutoff = now - CtTimeout
    BY <1>1 DEF ScanKnows
  <2> QED
    BY <1>2, <2>1, <2>2 DEF IsStale, Stale, Old, Age
<1>4. /\ reap'.pc = "scan" /\ reap'.cutoff = reap.cutoff /\ reap'.stale = r
      /\ reap'.iter.cursor = k /\ reap'.iter.count = it.count + 1
  BY <1>3 DEF AgingInv, PresenceInv, TypeOK, ReaperTypeOK, Advance
<1>5. ~ due' /\ op' = op /\ now' = now
  BY <1>1, <1>4 DEF ReaperMoves, InTime
<1>6. /\ Tracked' = Tracked /\ Stale' = Stale /\ Younger /\ Fits' /\ Covered' = Covered
      /\ \A b : Undisturbed(b)' = Undisturbed(b) /\ Sweeps(b)' = Sweeps(b)
      /\ \A b, f : Beyond(b, f)' = Beyond(b, f)
  BY <1>1, TableRests
<1>7. \A f \in Stale : f \in Elements(q) \/ f = k \/ Bucket[f] > Bucket[k]
  BY <1>1, CompleteNext DEF ScanKnows, IterHasNext
<1>8. Elements(r) = IF k \in Stale THEN Elements(q) \cup {k} ELSE Elements(q)
  BY <1>1, <1>2, AppendOf
<1>9. /\ \A s \in Elements(q) : it.cursor # None /\ s \in Flows
      /\ it.cursor # None => it.cursor \in Flows
  <2>1. \A s \in Elements(q) : it.cursor # None
    BY <1>1 DEF ScanKnows
  <2>2. \A s \in Elements(q) : s \in Flows
    BY <1>1 DEF Elements
  <2> QED
    BY <1>1, <2>1, <2>2 DEF Iter
<1> HIDE DEF it, k, q
\* All keys but the idle ones are ahead of what has been given.
<1>10. ASSUME NEW s \in Elements(q)
       PROVE  \/ Bucket[s] < Bucket[k]
              \/ \A f \in Stale : Bucket[f] > Bucket[s]
  <2>1. \/ Bucket[s] <= Bucket[it.cursor]
        \/ \A f \in Stale : Bucket[f] > Bucket[s]
    BY <1>1, <1>10 DEF ScanKnows, it, q
  <2>2. CASE it.cursor \in Tracked
    BY <1>2, <1>9, <1>10, <2>1, <2>2, Buckets
  <2>3. CASE it.cursor \notin Tracked
    <3>1. \A f \in Stale : f \in Flows /\ Bucket[f] > Bucket[it.cursor]
      BY <1>1, <1>9, <1>10, <2>3, Buckets DEF ScanKnows, it, Stale, Old
    <3> QED
      BY <1>9, <1>10, <2>1, <3>1, Buckets
  <2> QED
    BY <2>2, <2>3
<1>11. Ordered(r)
  <2>1. CASE k \in Stale
    <3>1. \A s \in Elements(q) : Bucket[s] < Bucket[k]
      BY <1>2, <1>9, <1>10, <2>1, Buckets
    <3> QED
      BY <1>1, <1>2, <2>1, <3>1, AppendOrdered DEF ReapKnows, q
  <2>2. CASE k \notin Stale
    BY <1>1, <2>2 DEF ReapKnows, q
  <2> QED
    BY <2>1, <2>2
<1>12. Unbroken(reap.iter)' \/ Covered'
  <2>1. ASSUME Unbroken(it)
        PROVE  Unbroken(reap.iter)'
    <3> DEFINE T == {f \in Tracked : Bucket[f] <= Bucket[k]}
               S == {f \in Tracked : Bucket[f] <= Bucket[it.cursor]}
    <3>1. IsFiniteSet(T) /\ IsFiniteSet(S) /\ IsFiniteSet({k})
      BY <1>1, FS_Subset, FS_Singleton DEF Fits
    <3>2. k \in T
      BY <1>2, Buckets
    <3>3. Cardinality(T) \in Nat /\ Cardinality(S) \in Nat
      BY <3>1, FS_CardinalityType
    <3>4. CASE it.cursor = None /\ it.count = 0
      <4>1. {k} \subseteq T
        BY <3>2
      <4>2. Cardinality({k}) <= Cardinality(T) /\ Cardinality({k}) = 1
        BY <3>1, <4>1, FS_Subset, FS_Singleton
      <4> QED
        BY <1>2, <1>4, <1>6, <3>3, <3>4, <4>2 DEF Unbroken
    <3>5. CASE it.cursor \in Tracked /\ it.count <= Cardinality(S)
      <4>1. k \notin S /\ S \cup {k} \subseteq T
        BY <1>2, <3>2, <3>5, Buckets
      <4>2. Cardinality(S \cup {k}) = Cardinality(S) + 1
        BY <3>1, <4>1, FS_AddElement
      <4>3. Cardinality(S \cup {k}) <= Cardinality(T)
        BY <3>1, <4>1, FS_Subset
      <4>4. it.count \in Nat
        BY <1>1, LimitAssumption DEF Iter
      <4>5. it.count + 1 <= Cardinality(T)
        BY <3>3, <3>5, <4>2, <4>3, <4>4
      <4> QED
        BY <1>2, <1>4, <1>6, <4>5 DEF Unbroken
    <3> QED
      BY <2>1, <3>4, <3>5 DEF Unbroken
  <2> QED
    BY <1>1, <1>6, <2>1 DEF ScanKnows, it
<1>13. ScanKnows'
  <2>1. Complete(reap'.iter, r)
    BY <1>4, <1>7, <1>8 DEF Complete
  <2>2. Complete(reap.iter, reap.stale)'
    BY <1>4, <1>6, <2>1 DEF Complete
  <2>3. \A s \in Elements(r) :
            /\ k # None
            /\ Bucket[s] <= Bucket[k] \/ \A f \in Stale : Bucket[f] > Bucket[s]
    <3>1. \A s \in Elements(r) : s \in Elements(q) \/ s = k
      BY <1>8
    <3> QED
      BY <1>2, <1>9, <1>10, <3>1, Buckets
  <2> QED
    BY <1>1, <1>2, <1>4, <1>5, <1>6, <1>12, <2>2, <2>3 DEF ScanKnows
<1>14. ReapKnows'
  <2>1. \A s \in Elements(r) \ Tracked : s \in Elements(q) \ Tracked
    BY <1>2, <1>8
  <2>2. \A s \in Elements(q) \ Tracked :
            Stale = {} \/ \E b \in Actors : Sweeps(b) /\ Beyond(b, s)
    BY <1>1 DEF ReapKnows, q
  <2> QED
    BY <1>4, <1>6, <1>11, <1>13, <2>1, <2>2 DEF ReapKnows
<1>15. \A b \in Actors : Apart(b)'
  BY <1>1, <1>4, <1>5, <1>6 DEF Apart, Walks
<1> QED
  BY <1>4, <1>6, <1>14, <1>15, StepOfReaper

LEMMA ReapScanKeeps ==
    ASSUME AgingInv, PresenceInv', ReaperMoves, ReapScan
    PROVE  AgingInv'
<1> DEFINE it == reap.iter
<1>1. /\ InTime /\ ReapKnows /\ Fits /\ MapsTypeOK /\ ScanKnows /\ UNCHANGED maps
      /\ reap.pc = "scan" /\ ~ due
      /\ reap.stale \in Seq(Flows) /\ it \in Iter
      /\ \A b \in Actors : Apart(b) /\ op[b].keys \in Seq(Flows)
  BY ListTypes DEF AgingInv, PresenceInv, ReapKnows, ReapScan, InTime
<1>2. ~ due' /\ op' = op
  BY <1>1 DEF ReaperMoves
<1>3. /\ Tracked' = Tracked /\ Stale' = Stale /\ Younger /\ Fits' /\ Covered' = Covered
      /\ \A b : Undisturbed(b)' = Undisturbed(b) /\ Sweeps(b)' = Sweeps(b)
      /\ \A b, f : Beyond(b, f)' = Beyond(b, f)
  BY <1>1, TableRests
<1>4. CASE /\ IterDone(it)
           /\ reap' = [reap EXCEPT !.pc = "delete", !.iter = NoIter]
  <2>1. reap'.pc = "delete" /\ reap'.stale = reap.stale
    BY <1>4 DEF AgingInv, PresenceInv, TypeOK, ReaperTypeOK
  <2>2. Stale \subseteq Elements(reap.stale)
    BY <1>1, <1>4, CompleteDone DEF ScanKnows, IterDone
  <2>3. ReapKnows'
    BY <1>1, <1>3, <2>1, <2>2 DEF ReapKnows
  <2>4. \A b \in Actors : Walks(b) => Tidy(op[b].keys, Head(reap.stale), Tracked)
    BY <1>1, TidyOrdered DEF Apart, Undisturbed
  <2>5. \A b \in Actors : Apart(b)'
    BY <1>2, <1>3, <2>1, <2>4 DEF Apart, Walks
  <2> QED
    BY <1>1, <1>3, <2>1, <2>3, <2>5, StepOfReaper
<1>5. CASE IterAborted(it) /\ reap' = Resting
  <2>1. reap'.pc = "rest" /\ reap'.stale = <<>>
    BY <1>5 DEF Resting
  <2>2. ~ Unbroken(it)
    <3> DEFINE S == {f \in Tracked : Bucket[f] <= Bucket[it.cursor]}
    <3>1. Cardinality(S) <= Cardinality(Tracked) /\ IsFiniteSet(S) /\ IsFiniteSet(Tracked)
      BY <1>1, FS_Subset DEF Fits
    <3>2. Cardinality(S) \in Nat /\ Cardinality(Tracked) \in Nat
      BY <3>1, FS_CardinalityType
    <3>3. it.count \in Nat /\ it.count > MaxFlows /\ MaxFlows \in Nat
          /\ Cardinality(Tracked) <= MaxFlows
      BY <1>1, <1>5, LimitAssumption DEF Iter, IterAborted, Fits
    <3>4. ~ (it.count <= Cardinality(S)) /\ it.count # 0
      BY <3>1, <3>2, <3>3
    <3> QED
      BY <3>4 DEF Unbroken
  <2>3. Covered
    BY <1>1, <2>2 DEF ScanKnows
  <2>4. ReapKnows'
    BY <1>5, <2>1, NoList DEF ReapKnows
  <2>5. \A b \in Actors : Apart(b)'
    BY <1>2, <2>1 DEF Apart
  <2> QED
    BY <1>1, <1>3, <2>3, <2>4, <2>5, StepOfReaper
<1> QED
  BY <1>1, <1>4, <1>5, WalkKeeps DEF ReapScan

LEMMA ReaperKeeps ==
    ASSUME AgingInv, PresenceInv', ReaperMoves, ReaperNext
    PROVE  AgingInv'
<1>1. CASE ReapScan
  BY <1>1, ReapScanKeeps
<1> QED
  BY <1>1, ReapStartKeeps, ReapDeleteKeeps, ReapEndKeeps DEF ReaperNext

(***************************************************************************)
(* A second passes.                                                        *)
(***************************************************************************)
\* Every tracked flow is a second older, and none too old: the reaper rests, and
\* no clear is under way for its last pass to have left flows to.
LEMMA ElapseAges ==
    ASSUME AgingInv, Elapse
    PROVE  /\ Tracked' = Tracked
           /\ Old(CtTimeout + Interval - wait) = {}
           /\ \A n \in Nat : Old(n) = {} => Old(n + 1)' = {}
<1>1. /\ InTime /\ MapsTypeOK /\ conntrack' = conntrack /\ now' = now
      /\ elems' = [s \in Slots |-> [elems[s] EXCEPT !.last_seen = Older(@)]]
      /\ reap.pc = "rest" /\ ~ due /\ \A a \in Actors : op[a].pc = "idle"
  BY DEF AgingInv, PresenceInv, TypeOK, Elapse, AtRest, At
<1>2. Tracked' = Tracked
  BY <1>1 DEF Tracked
<1>3. Old(CtTimeout + Interval - wait) = {}
  <2>1. CASE wait = Interval /\ Covered
    <3>1. Stale = {}
      BY <1>1, <2>1 DEF Covered, Sweeps, At
    <3>2. CtTimeout + Interval - wait = CtTimeout
      BY <2>1, Times
    <3> QED
      BY <3>1, <3>2 DEF Stale
  <2> QED
    BY <1>1, <2>1 DEF InTime
<1>4. ASSUME NEW n \in Nat, Old(n) = {}, NEW f \in Tracked', Age(f)' >= n + 1
      PROVE  FALSE
  <2> DEFINE seen == elems[conntrack[f]].last_seen
  <2>1. f \in Tracked /\ conntrack[f] \in Slots
    BY <1>1, <1>2, <1>4 DEF MapsTypeOK, Tracked
  <2>2. seen \in Nat /\ now \in Nat /\ now = Boot
    BY <1>1, <2>1 DEF MapsTypeOK, InTime
  <2>3. Age(f) = now - seen /\ ~ (Age(f) >= n)
    BY <1>4, <2>1 DEF Old, Age
  <2>4. Age(f)' = now - Older(seen)
    <3>1. elems[conntrack[f]] \in [last_seen : Nat, state : CtState]
      BY <1>1, <2>1 DEF MapsTypeOK
    <3> QED
      BY <1>1, <2>1, <3>1 DEF Age
  <2>5. seen > 0
    <3>1. ~ (Age(f) >= CtTimeout + Interval)
      BY <1>1, <2>1 DEF InTime, Old
    <3> QED
      BY <2>2, <2>3, <3>1, Times
  <2> HIDE DEF seen
  <2>6. Older(seen) = seen - 1
    BY <2>5 DEF Older
  <2> QED
    BY <1>4, <2>2, <2>3, <2>4, <2>6
<1>5. \A n \in Nat : Old(n) = {} => Old(n + 1)' = {}
  BY <1>4 DEF Old
<1> QED
  BY <1>2, <1>3, <1>5

LEMMA ElapsePresence ==
    ASSUME PresenceInv, Elapse
    PROVE  PresenceInv'
<1>1. UNCHANGED <<rules, rule_presence, firewall_config, conntrack, counters, now,
                  controlVars, xdp, reap, live, admitted>>
  BY DEF Elapse
<1>2. MapsTypeOK'
  <2>1. MapsTypeOK
    BY DEF PresenceInv, TypeOK
  <2>2. \A s \in Slots : elems[s] \in [last_seen : Nat, state : CtState]
    BY <2>1 DEF MapsTypeOK
  <2>3. \A n \in Nat : Older(n) \in Nat
    BY DEF Older
  <2>4. \A s \in Slots : [elems[s] EXCEPT !.last_seen = Older(@)]
                            \in [last_seen : Nat, state : CtState]
    BY <2>2, <2>3
  <2>5. elems' \in [Slots -> [last_seen : Nat, state : CtState]]
    BY <2>4 DEF Elapse
  <2> QED
    BY <1>1, <2>1, <2>5 DEF MapsTypeOK
<1>3. ControlTypeOK' /\ XdpTypeOK' /\ ReaperTypeOK'
  <2>1. ControlTypeOK'
    BY <1>1 DEF PresenceInv, TypeOK, ControlTypeOK, controlVars
  <2>2. XdpTypeOK'
    BY <1>1 DEF PresenceInv, TypeOK, XdpTypeOK, Derefs, AtX
  <2>3. ReaperTypeOK'
    BY <1>1 DEF PresenceInv, TypeOK, ReaperTypeOK
  <2> QED
    BY <2>1, <2>2, <2>3
<1>4. TypeOK'
  BY <1>1, <1>2, <1>3 DEF PresenceInv, TypeOK
<1>5. PresenceConservative' /\ SoleWriterKnows'
  BY <1>1 DEF PresenceInv, PresenceConservative, Stored, SoleWriterKnows, MutexHeld,
        StartupAlone, Started, WriterKnows, At, Table, controlVars
<1> QED
  BY <1>4, <1>5 DEF PresenceInv

LEMMA ElapseKeeps == AgingInv /\ Elapse => AgingInv'
<1> SUFFICES ASSUME AgingInv, Elapse PROVE AgingInv'
  OBVIOUS
<1>1. /\ InTime /\ Fits /\ ReapKnows /\ reap.pc = "rest" /\ ~ due
      /\ \A c \in Cpus : xdp[c].pc = "idle"
      /\ \A a \in Actors : op[a].pc = "idle"
      /\ op' = op /\ xdp' = xdp /\ reap' = reap /\ now' = now
  BY DEF AgingInv, Elapse, AtRest, At, AtX, controlVars
<1>2. /\ Tracked' = Tracked
      /\ Old(CtTimeout + Interval - wait) = {}
      /\ \A n \in Nat : Old(n) = {} => Old(n + 1)' = {}
  BY ElapseAges
<1>3. PresenceInv'
  BY ElapsePresence DEF AgingInv
<1>4. PICK w : w = wait
  OBVIOUS
<1>5. /\ w \in 1 .. Interval /\ CtTimeout + Interval - w \in Nat
      /\ wait' = (IF w > 1 THEN w - 1 ELSE Interval) /\ due' = (w = 1)
  BY <1>1, <1>4, Times DEF InTime, Elapse
<1>6. Old((CtTimeout + Interval - w) + 1)' = {}
  BY <1>2, <1>4, <1>5
<1>7. Old(CtTimeout + Interval)' = {}
  <2>1. MapsTypeOK'
    BY <1>3 DEF PresenceInv, TypeOK
  <2>2. ASSUME NEW f \in Tracked'
        PROVE  Age(f)' \in Int
    <3>1. conntrack'[f] \in Slots
      BY <2>1, <2>2 DEF MapsTypeOK, Tracked
    <3> QED
      BY <2>1, <3>1 DEF MapsTypeOK, Age
  <2>3. \A f \in Tracked' : ~ (Age(f)' >= (CtTimeout + Interval - w) + 1)
    BY <1>6 DEF Old
  <2>4. \A f \in Tracked' : ~ (Age(f)' >= CtTimeout + Interval)
    BY <1>5, <2>2, <2>3, Times
  <2> QED
    BY <2>4 DEF Old
<1>8. InTime'
  <2>1. ~ due' => CtTimeout + Interval - wait' = (CtTimeout + Interval - w) + 1
    <3>1. CASE w = 1
      BY <1>5, <3>1
    <3>2. CASE w # 1
      <4>1. wait' = w - 1 /\ w \in Nat
        BY <1>5, <3>2, Times
      <4> QED
        BY <4>1, Times
    <3> QED
      BY <3>1, <3>2
  <2>2. wait' \in 1 .. Interval /\ due' \in BOOLEAN /\ (due' => wait' = Interval)
    <3>1. due' \in BOOLEAN /\ (due' => w = 1) /\ w \in 1 .. Interval
      BY <1>5
    <3>2. CASE w = 1
      BY <1>5, <3>1, <3>2, Times
    <3>3. CASE w # 1
      <4>1. wait' = w - 1 /\ w > 1
        BY <1>5, <3>1, <3>3, Times
      <4> QED
        BY <3>1, <3>3, <4>1, Times
    <3> QED
      BY <3>2, <3>3
  <2>3. PICK v : v = wait'
    OBVIOUS
  <2>4. ~ due' => Old(CtTimeout + Interval - v)' = {}
    BY <1>6, <2>1, <2>3
  <2> QED
    BY <1>1, <1>7, <2>2, <2>3, <2>4 DEF InTime
<1>9. Fits' /\ StampsFresh'
  BY <1>1, <1>2 DEF Fits, StampsFresh
<1>10. ReapKnows'
  BY <1>1, NoList DEF ReapKnows, Resting
<1>11. \A a \in Actors : ClearKnows(a)' /\ Apart(a)'
  BY <1>1 DEF ClearKnows, Apart, Walks, At
<1> QED
  BY <1>3, <1>8, <1>9, <1>10, <1>11 DEF AgingInv

(***************************************************************************)
(* The invariant holds, and gives EvictedInTime.                           *)
(***************************************************************************)
LEMMA AgingStart == AInit => AgingInv
<1> SUFFICES ASSUME AInit PROVE AgingInv
  OBVIOUS
<1>1. /\ MapsInit /\ ControlInit /\ DatapathInit /\ reap = Resting
      /\ wait = Interval /\ due = FALSE /\ PresenceInv
  BY PresenceInit DEF AInit, Init, ReaperInit
<1>2. Tracked = {} /\ now = Boot
  BY <1>1 DEF MapsInit, Tracked
<1>3. /\ Old(CtTimeout + Interval) = {} /\ Old(CtTimeout + Interval - wait) = {}
      /\ Stale = {}
  BY <1>2 DEF Old, Stale
<1>4. InTime
  <2>1. Interval \in 1 .. Interval
    BY Times
  <2>2. wait = Interval /\ wait \in 1 .. Interval
    BY <1>1, <2>1
  <2>3. due \in BOOLEAN /\ ~ due
    BY <1>1
  <2>4. reap.pc = "rest"
    BY <1>1 DEF Resting
  <2> QED
    BY <1>2, <1>3, <2>2, <2>3, <2>4 DEF InTime
<1>5. Fits
  BY <1>2, FS_EmptySet, LimitAssumption DEF Fits
<1>6. StampsFresh
  BY <1>1 DEF StampsFresh, DatapathInit, NoPacket
<1>7. ReapKnows
  BY <1>1, NoList DEF ReapKnows, Resting
<1>8. \A a \in Actors : ClearKnows(a) /\ Apart(a)
  BY <1>1 DEF ClearKnows, Apart, Walks, At, ControlInit, Idle
<1> QED
  BY <1>1, <1>4, <1>5, <1>6, <1>7, <1>8 DEF AgingInv

LEMMA AgingStep == ~ SyscallsFail /\ AgingInv /\ [ANext]_avars => AgingInv'
<1> SUFFICES ASSUME ~ SyscallsFail, AgingInv, [ANext]_avars
             PROVE  AgingInv'
  OBVIOUS
<1>1. /\ PresenceInv /\ TypeOK /\ StampsFresh /\ Fits /\ now = Boot
  BY DEF AgingInv, PresenceInv, InTime
<1>2. CASE Elapse
  BY <1>2, ElapseKeeps
<1>3. CASE UNCHANGED avars
  <2>1. PresenceInv' /\ UNCHANGED <<op, xdp, reap, wait, due, now, conntrack, elems>>
    BY <1>1, <1>3, PresenceNext DEF avars, vars, maps, controlVars
  <2>2. StampsFresh' /\ Fits' /\ Tracked \subseteq Tracked' /\ Younger
    BY <1>1, <2>1 DEF StampsFresh, Fits, Tracked, Younger, Seen
  <2> QED
    BY <2>1, <2>2, GrowKeeps
<1>4. CASE Act
  <2>1. Next /\ PresenceInv' /\ now' = now
    BY <1>1, <1>4, PresenceNext, ClockStands DEF Act
  <2>2. /\ PassBegins => due
        /\ due' = (due /\ ~ PassBegins) /\ wait' = wait
    BY <1>4 DEF Act
  <2>3. reap' = reap => due' = due
    BY <2>2 DEF PassBegins, AgingInv, InTime
  <2>4. CASE ControlNext /\ UNCHANGED <<xdp, reap>>
    BY <2>1, <2>2, <2>3, <2>4, ControlKeeps
  <2>5. CASE DatapathNext /\ UNCHANGED <<controlVars, reap>>
    <3>1. StampsFresh' /\ Fits' /\ Tracked \subseteq Tracked' /\ Younger
      BY <1>1, <2>1, <2>5, TableFed
    <3> QED
      BY <2>1, <2>2, <2>3, <2>5, <3>1, GrowKeeps DEF controlVars
  <2>6. CASE ReaperNext /\ UNCHANGED <<controlVars, xdp>>
    BY <2>1, <2>2, <2>6, ReaperKeeps DEF ReaperMoves, controlVars
  <2>7. ~ Tick
    BY <1>1, AgingAssumption, LimitAssumption DEF Tick
  <2> QED
    BY <2>1, <2>4, <2>5, <2>6, <2>7 DEF Next, TimedNext
<1> QED
  BY <1>2, <1>3, <1>4 DEF ANext

LEMMA AgingImplies == AgingInv => EvictedInTime
<1> SUFFICES ASSUME AgingInv, CtTimeout >= 2, NEW f \in Tracked
             PROVE  2 * Age(f) < 3 * CtTimeout
  BY DEF EvictedInTime
<1>1. ~ (Age(f) >= CtTimeout + Interval)
  BY DEF AgingInv, InTime, Old
<1>2. Age(f) \in Int
  <2>1. MapsTypeOK /\ conntrack[f] \in Slots
    BY DEF AgingInv, PresenceInv, TypeOK, MapsTypeOK, Tracked
  <2> QED
    BY <2>1 DEF MapsTypeOK, Age
<1> QED
  BY <1>1, <1>2, Times

\* main.go: a flow that has been idle for one and a half timeouts is gone,
\* whatever the packets, the clears and the restarts of the reaper's walk do to
\* its passes, as long as no map operation fails.
THEOREM IdleFlowsGo ==
    ASSUME ~ SyscallsFail
    PROVE  ASpec => []EvictedInTime
<1>1. AInit => AgingInv
  BY AgingStart
<1>2. AgingInv /\ [ANext]_avars => AgingInv'
  BY AgingStep
<1>3. AgingInv => EvictedInTime
  BY AgingImplies
<1> QED
  BY <1>1, <1>2, <1>3, PTL DEF ASpec
===============================================================================
