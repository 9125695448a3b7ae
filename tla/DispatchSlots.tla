---------------------------- MODULE DispatchSlots ---------------------------
(***************************************************************************)
(* Slots, reservations, refusals, the order of the queue and its wake-ups, *)
(* for any requests, backends, peers, slots, pins and preferences.         *)
(*                                                                         *)
(* DispatchInv is inductive.  Its parts build on one another: what a       *)
(* request holds goes with where it is (SlotInv), a scan is at one place   *)
(* of the queue (ScanInOrder), reports count the forwards they are to      *)
(* count (CountsInv), a refusal makes every report from before it useless  *)
(* (KnownInv), and while no wake is on its way no waiter has a slot        *)
(* (WaitersBlocked).                                                       *)
(***************************************************************************)
EXTENDS RequestDispatch, TLAPS

-----------------------------------------------------------------------------
(* The inductive invariant.                                                *)

\* The facts about sets of requests and candidates that the counts rest on.
\* They hold because requests, backends and peers are finitely many
\* (CountingHolds, in RequestDispatchProofs).
Counting ==
    /\ \A S \in SUBSET Requests : Cardinality(S) \in Nat
    /\ \A S, T \in SUBSET Requests : T \subseteq S => Cardinality(T) <= Cardinality(S)
    /\ \A S \in SUBSET Requests, r \in Requests : r \notin S => Cardinality(S \cup {r}) = Cardinality(S) + 1
    /\ \A S, T \in SUBSET Requests : Cardinality(S \cup T) <= Cardinality(S) + Cardinality(T)
    /\ \A D \in (SUBSET Backends) \cup (SUBSET Peers) : D # {} =>
          \A free \in [D -> Int] : MostFree(free) # {}

\* Where a request is goes with what it holds.
MatchAt(r) ==
    /\ req[r].at \in {"new", "wake", "next", "final", "done"} => lease[r] = "none"
    /\ req[r].at = "run" => lease[r] \in Backends
    /\ req[r].at \in {"going", "there", "refused"} => lease[r] \in Peers
    /\ req[r].at = "release" => lease[r] \in Targets
LeaseMatches == \A r \in Requests : MatchAt(r)

\* A waiter holds nothing; who has left the queue is not in it.
WaitersQueued ==
    \A i \in 1..Len(queue) : req[queue[i]].at = "queued" /\ lease[queue[i]] = "none"

SlotsCounted ==
    \A b \in Backends : inFlight[b] = Cardinality(Held(b)) /\ inFlight[b] <= Slots[b]

SlotInv == Counting /\ TypeOK /\ LeaseMatches /\ WaitersQueued /\ SlotsCounted

\* What a report says of this node's forwards: those older than its poll are
\* still held, and all but the missed ones are among its busy slots.
CountedIn(p, rep, lost) ==
    /\ rep.before \subseteq Held(p)
    /\ Cardinality(rep.before \ lost) <= rep.busy

PollsCounted ==
    \A p \in Peers :
        /\ poll[p].at = "sent" => poll[p].before \subseteq Held(p)
        /\ poll[p].at = "built" => CountedIn(p, poll[p], poll[p].missed)
ReportsCounted == \A p \in Peers : report[p].lists => CountedIn(p, report[p], missed)
ScanCounted == scan.on => \A p \in Peers : scan.reps[p].lists => CountedIn(p, scan.reps[p], missed)

CountsInv == PollsCounted /\ ReportsCounted /\ ScanCounted

\* A refusal the report does not know of has made the report useless, or is
\* about to.
RefusalKnown(p, rep) ==
    \A r \in rep.unaware : ~rep.sentAfter \/ (req[r].at = "refused" /\ lease[r] = p)

ReportsKnown == \A p \in Peers : report[p].lists => RefusalKnown(p, report[p])
PollsKnown == \A p \in Peers : poll[p].at = "built" => RefusalKnown(p, poll[p])
ScanKnown == \A p \in Peers : scan.on /\ scan.reps[p].lists => RefusalKnown(p, scan.reps[p])

KnownInv == ReportsKnown /\ PollsKnown /\ ScanKnown

\* A scan goes through the queue from front to back; an unpinned waiter it has
\* passed was refused, and so are those behind it that could use no more.
Passed == Len(queue) - Len(scan.todo)

ScanInOrder ==
    scan.on => /\ Passed >= 0
               /\ \A i \in 1..Len(scan.todo) : scan.todo[i] = queue[Passed + i]
               /\ \A i \in 1..Passed : Host[queue[i]] = "any" =>
                     scan.unpinnedFull \/ (queue[i] \in Images /\ scan.imagesFull)

\* No slot for r in the reports reps.
Blocked(r, reps) == LocalCandidates(r, {}, reps) = {} /\ PeerCandidates(r, {}, reps) = {}

\* A change was not announced yet.
Stirred == silent \/ (\E r \in Requests : req[r].at = "wake") \/ (\E p \in Peers : poll[p].at = "wake")

\* Two reports that a pick cannot tell apart.
SameReport(rep, old) ==
    /\ rep.lists = old.lists
    /\ rep.lists => /\ rep.fresh = old.fresh /\ rep.sentAfter = old.sentAfter
                    /\ rep.before = old.before /\ rep.busy = old.busy
                    /\ rep.images = old.images /\ rep.up = old.up

\* Outside a scan nobody who waits has a slot.  A scan goes by reports that a
\* pick cannot tell from the last ones, the waiters it has passed have no slot,
\* and once it skips the unpinned none of them has.
WaitersBlocked ==
    /\ ~scan.on => \A i \in 1..Len(queue) : Blocked(queue[i], report)
    /\ scan.on => /\ \A p \in Peers : SameReport(report[p], scan.reps[p])
                  /\ \A i \in 1..Passed : Blocked(queue[i], report)
                  /\ scan.unpinnedFull =>
                        \A r \in Requests \ Forwarded :
                            Host[r] = "any" => Blocked(r, report)
                  /\ scan.imagesFull =>
                        \A r \in Images \ Forwarded :
                            Host[r] = "any" => Blocked(r, report)

\* Whoever waits was not forwarded.
WaitersLocal == \A i \in 1..Len(queue) : queue[i] \notin Forwarded

DispatchInv ==
    /\ SlotInv /\ WaitersLocal /\ ScanInOrder
    /\ CountsInv /\ OverbookedOnlyByMissed
    /\ KnownInv
    /\ ~Stirred => WaitersBlocked

-----------------------------------------------------------------------------
(* What a pick gives, and when it gives nothing (router.go).               *)

\* A slot that a pick gives was free.
LEMMA PickTarget ==
    ASSUME NEW r, NEW ex, NEW reps, NEW t \in Targets, t \in Pick(r, ex, reps)
    PROVE  t \in LocalCandidates(r, ex, reps) \cup PeerCandidates(r, ex, reps)
  <1> DEFINE local == LocalCandidates(r, ex, reps)
             peers == PeerCandidates(r, ex, reps)
             liked == PreferredOf(r, LocalPicks(r, local), peers)
  <1>1. t \in FreeSlots(r, ex, reps)
    BY Zenon, RouterAssumption DEF Pick, Targets, NoSlot
  <1>2. LocalPicks(r, local) \subseteq local
    BY Zenon DEF LocalPicks, MostFree
  <1>3. MostFree([p \in peers |-> PeerFree(reps, p)]) \subseteq peers
    BY Zenon DEF MostFree
  <1>4. liked \subseteq LocalPicks(r, local) \cup peers
    BY Zenon DEF PreferredOf
  <1> HIDE DEF local, peers, liked
  <1>5. FreeSlots(r, ex, reps) \subseteq local \cup peers
    BY Zenon, <1>2, <1>3, <1>4 DEF FreeSlots, local, peers, liked
  <1> QED
    BY Zenon, <1>1, <1>5 DEF local, peers

\* A request that nothing is free for takes nothing.
LEMMA BlockedPick ==
    ASSUME NEW r, NEW reps, Blocked(r, reps)
    PROVE  Pick(r, {}, reps) \cap Targets = {}
  BY Zenon, PickTarget DEF Blocked

\* A pick that finds no free slot has no candidate.
LEMMA PickNothing ==
    ASSUME Counting, NEW r, NEW ex, NEW reps, "noFreeSlot" \in Pick(r, ex, reps),
           healthy \subseteq Backends, inFlight \in [Backends -> Nat],
           \A p \in PeerCandidates(r, ex, reps) : PeerFree(reps, p) \in Int
    PROVE  LocalCandidates(r, ex, reps) = {} /\ PeerCandidates(r, ex, reps) = {}
  <1> DEFINE local == LocalCandidates(r, ex, reps)
             peers == PeerCandidates(r, ex, reps)
             liked == PreferredOf(r, LocalPicks(r, local), peers)
  <1>1. local \subseteq Backends /\ peers \subseteq Peers
    BY Zenon DEF LocalCandidates, PeerCandidates
  <1>3. \A b \in local : LocalFree(b) \in Int
    BY <1>1, RouterAssumption DEF LocalFree
  <1>4. local # {} => MostFree([b \in local |-> LocalFree(b)]) # {}
    <2>1. [b \in local |-> LocalFree(b)] \in [local -> Int]
      BY Zenon, <1>3
    <2> QED
      BY Zenon, <1>1, <2>1 DEF Counting
  <1>5. peers # {} => MostFree([p \in peers |-> PeerFree(reps, p)]) # {}
    <2>1. [p \in peers |-> PeerFree(reps, p)] \in [peers -> Int]
      BY Zenon
    <2> QED
      BY Zenon, <1>1, <2>1 DEF Counting
  <1>6. local # {} => LocalPicks(r, local) # {}
    BY Zenon, <1>4 DEF LocalPicks
  <1>7. FreeSlots(r, ex, reps) = {}
    <2>1. FreeSlots(r, ex, reps) \cap Targets = FreeSlots(r, ex, reps)
      <3>1. LocalPicks(r, local) \subseteq local
        BY Zenon DEF LocalPicks, MostFree
      <3>2. MostFree([p \in peers |-> PeerFree(reps, p)]) \subseteq peers
        BY Zenon DEF MostFree
      <3>3. liked \subseteq LocalPicks(r, local) \cup peers
        BY Zenon DEF PreferredOf
      <3> HIDE DEF local, peers, liked
      <3>4. FreeSlots(r, ex, reps) \subseteq local \cup peers
        BY Zenon, <3>1, <3>2, <3>3 DEF FreeSlots, local, peers, liked
      <3> QED
        BY Zenon, <1>1, <3>4 DEF Targets
    <2>2. "noFreeSlot" \notin Targets
      BY Zenon, RouterAssumption DEF Targets, NoSlot
    <2> QED
      BY Zenon, <2>1, <2>2 DEF Pick
  <1> HIDE DEF local, peers, liked
  <1>8. local = {} /\ peers = {}
    BY ZenonT(40), <1>5, <1>6, <1>7 DEF FreeSlots, local, peers, liked
  <1> QED
    BY Zenon, <1>8 DEF local, peers

-----------------------------------------------------------------------------
(* The queue without a waiter, and the slots in use.                       *)

\* The elements of two sequences put together.
LEMMA ConcatFacts ==
    ASSUME NEW a \in Seq(Requests), NEW b \in Seq(Requests)
    PROVE  /\ a \o b \in Seq(Requests) /\ Len(a \o b) = Len(a) + Len(b)
           /\ \A i \in 1..Len(a) : (a \o b)[i] = a[i]
           /\ \A i \in 1..Len(b) : (a \o b)[Len(a) + i] = b[i]
  OBVIOUS

\* removeWaiterLocked cuts one waiter out of the queue.
LEMMA WaiterRemoved ==
    ASSUME queue \in Seq(Requests), IsInjective(queue), NEW k \in 1..Len(queue),
           RemoveWaiter(queue[k])
    PROVE  /\ queue' \in Seq(Requests) /\ Len(queue') = Len(queue) - 1 /\ Len(queue) \in Nat
           /\ \A j \in 1..Len(queue') : queue'[j] = IF j < k THEN queue[j] ELSE queue[j + 1]
           /\ IsInjective(queue')
           /\ \A j \in 1..Len(queue') : queue'[j] # queue[k]
  <1> DEFINE n == CHOOSE i \in 1..Len(queue) : queue[i] = queue[k]
  <1>1. n = k
    BY DEF IsInjective
  <1>2. queue' = SubSeq(queue, 1, k - 1) \o SubSeq(queue, k + 1, Len(queue))
    BY ZenonT(40), <1>1 DEF RemoveWaiter
  <1>3. /\ Len(queue) \in Nat /\ k \in Nat /\ k >= 1 /\ k <= Len(queue)
        /\ \A j \in 1..Len(queue) : queue[j] \in Requests
    OBVIOUS
  <1> DEFINE q1 == SubSeq(queue, 1, k - 1)
             q2 == SubSeq(queue, k + 1, Len(queue))
  <1>4. q1 \in Seq(Requests) /\ Len(q1) = k - 1 /\ \A j \in 1..(k - 1) : q1[j] = queue[j]
    BY <1>3
  <1>5. q2 \in Seq(Requests) /\ Len(q2) = Len(queue) - k
        /\ \A j \in 1..(Len(queue) - k) : q2[j] = queue[k + j]
    BY <1>3
  <1>6. queue' = q1 \o q2
    BY Zenon, <1>2
  <1> HIDE DEF q1, q2
  <1>a. /\ queue' \in Seq(Requests) /\ Len(queue') = Len(q1) + Len(q2)
        /\ \A i \in 1..Len(q1) : queue'[i] = q1[i]
        /\ \A i \in 1..Len(q2) : queue'[Len(q1) + i] = q2[i]
    BY Zenon, <1>4, <1>5, <1>6, ConcatFacts
  <1>7. queue' \in Seq(Requests) /\ Len(queue') = Len(queue) - 1
    BY <1>3, <1>4, <1>5, <1>a
  <1>8. ASSUME NEW j \in 1..Len(queue')
        PROVE  queue'[j] = IF j < k THEN queue[j] ELSE queue[j + 1]
    <2>1. CASE j < k
      <3>1. j \in 1..(k - 1)
        BY ONLY <1>3, <1>7, <1>8, <2>1
      <3> QED
        BY Zenon, <1>4, <1>a, <2>1, <3>1
    <2>2. CASE ~(j < k)
      <3>1. /\ j - (k - 1) \in 1..(Len(queue) - k) /\ (k - 1) + (j - (k - 1)) = j
            /\ k + (j - (k - 1)) = j + 1
        BY ONLY <1>3, <1>7, <1>8, <2>2
      <3>2. queue'[j] = q2[j - (k - 1)]
        BY ONLY <1>4, <1>5, <1>a, <3>1
      <3>3. q2[j - (k - 1)] = queue[j + 1]
        BY Zenon, <1>5, <3>1
      <3> QED
        BY Zenon, <2>2, <3>2, <3>3
    <2> QED
      BY Zenon, <2>1, <2>2
  <1>9. \A i, j \in 1..Len(queue) : queue[i] = queue[j] => i = j
    BY DEF IsInjective
  <1>10. DOMAIN queue' = 1..Len(queue')
    BY <1>7
  <1>11. \A j \in 1..Len(queue') : queue'[j] # queue[k]
    <2> SUFFICES ASSUME NEW j \in 1..Len(queue') PROVE queue'[j] # queue[k]
      BY Zenon
    <2> DEFINE m == IF j < k THEN j ELSE j + 1
    <2>1. m \in 1..Len(queue) /\ m # k
      BY ONLY <1>3, <1>7, j \in 1..Len(queue')
    <2>2. queue'[j] = queue[m]
      BY Zenon, <1>8
    <2> HIDE DEF m
    <2> QED
      BY Zenon, <1>9, <2>1, <2>2
  <1>12. IsInjective(queue')
    <2> SUFFICES ASSUME NEW i \in 1..Len(queue'), NEW j \in 1..Len(queue'), queue'[i] = queue'[j]
                 PROVE  i = j
      BY Zenon, <1>10 DEF IsInjective
    <2> DEFINE at(m) == IF m < k THEN m ELSE m + 1
    <2>1. at(i) \in 1..Len(queue) /\ at(j) \in 1..Len(queue) /\ (at(i) = at(j) => i = j)
      BY <1>3, <1>7
    <2>2. queue[at(i)] = queue[at(j)]
      BY Zenon, <1>8
    <2> HIDE DEF at
    <2> QED
      BY Zenon, <1>9, <2>1, <2>2
  <1> QED
    BY Zenon, <1>3, <1>7, <1>8, <1>11, <1>12

\* Who is in the queue has a place in it.
LEMMA WaiterAt ==
    ASSUME queue \in Seq(Requests), NEW r
    PROVE  r \in Range(queue) <=> \E i \in 1..Len(queue) : queue[i] = r
  BY DEF Range

\* The holders of a slot are finitely many.
LEMMA HeldFinite ==
    ASSUME Counting, NEW t
    PROVE  Held(t) \in SUBSET Requests /\ Cardinality(Held(t)) \in Nat
  <1>1. Held(t) \in SUBSET Requests
    BY Zenon DEF Held
  <1> QED
    BY Zenon, <1>1 DEF Counting

\* A request takes a free slot.
LEMMA TakenSlot ==
    ASSUME Counting, TypeOK, SlotsCounted, NEW r \in Requests, lease[r] = "none", NEW ex, NEW reps,
           NEW t \in Targets, t \in Pick(r, ex, reps), Take(r, t)
    PROVE  /\ lease' \in [Requests -> Targets \cup {"none"}] /\ inFlight' \in [Backends -> Nat]
           /\ lease'[r] = t /\ \A c \in Requests : c # r => lease'[c] = lease[c]
           /\ \A u : Held(u)' = IF u = t THEN Held(u) \cup {r} ELSE Held(u) \ {r}
           /\ SlotsCounted'
  <1>1. t # "none"
    BY Zenon, RouterAssumption DEF Targets
  <1>2. lease' = [lease EXCEPT ![r] = t]
    BY Zenon DEF Take
  <1>3. /\ lease' \in [Requests -> Targets \cup {"none"}]
        /\ lease'[r] = t /\ \A c \in Requests : c # r => lease'[c] = lease[c]
    BY Zenon, <1>2 DEF TypeOK
  <1>4. \A u : Held(u)' = IF u = t THEN Held(u) \cup {r} ELSE Held(u) \ {r}
    BY Zenon, <1>3 DEF Held
  <1>5. \A u : u # "none" => r \notin Held(u)
    BY Zenon DEF Held
  <1>6. ASSUME NEW b \in Backends, b # t PROVE inFlight'[b] = inFlight[b] /\ Held(b)' = Held(b)
    <2>1. b # "none"
      BY Zenon, RouterAssumption
    <2> QED
      BY ZenonT(40), <1>4, <1>5, <1>6, <2>1 DEF Take, TypeOK
  <1>7. CASE t \in Backends
    <2>1. t \in LocalCandidates(r, ex, reps)
      BY <1>7, PickTarget, RouterAssumption DEF PeerCandidates
    <2>2. Slots[t] - inFlight[t] > 0 /\ Slots[t] \in Nat
      BY Zenon, <1>7, <2>1, RouterAssumption DEF LocalCandidates, LocalFree
    <2>3. inFlight'[t] = inFlight[t] + 1 /\ inFlight' \in [Backends -> Nat] /\ inFlight[t] \in Nat
      BY <1>7 DEF Take, TypeOK
    <2>4. Cardinality(Held(t) \cup {r}) = Cardinality(Held(t)) + 1
      BY ZenonT(40), <1>1, <1>5, HeldFinite DEF Counting
    <2>5. Held(t)' = Held(t) \cup {r} /\ inFlight[t] = Cardinality(Held(t))
      BY Zenon, <1>4, <1>7 DEF SlotsCounted
    <2>6. inFlight'[t] = Cardinality(Held(t)') /\ inFlight'[t] <= Slots[t]
      BY <2>2, <2>3, <2>4, <2>5
    <2>7. SlotsCounted'
      BY Zenon, <1>6, <2>6 DEF SlotsCounted
    <2> QED
      BY Zenon, <1>3, <1>4, <2>3, <2>7
  <1>8. CASE t \notin Backends
    <2>1. inFlight' = inFlight
      BY Zenon, <1>8 DEF Take
    <2> QED
      BY Zenon, <1>3, <1>4, <1>6, <1>8, <2>1 DEF SlotsCounted, TypeOK
  <1> QED
    BY Zenon, <1>7, <1>8

\* A request gives its slot back.
LEMMA FreedSlot ==
    ASSUME Counting, TypeOK, SlotsCounted, NEW r \in Requests,
           lease' = [lease EXCEPT ![r] = "none"],
           inFlight' = IF lease[r] \in Backends
                       THEN [inFlight EXCEPT ![lease[r]] = @ - 1] ELSE inFlight
    PROVE  /\ lease' \in [Requests -> Targets \cup {"none"}] /\ inFlight' \in [Backends -> Nat]
           /\ lease'[r] = "none" /\ \A c \in Requests : c # r => lease'[c] = lease[c]
           /\ \A u : u # "none" => Held(u)' = Held(u) \ {r}
           /\ SlotsCounted'
  <1>1. /\ lease' \in [Requests -> Targets \cup {"none"}]
        /\ lease'[r] = "none" /\ \A c \in Requests : c # r => lease'[c] = lease[c]
    BY Zenon DEF TypeOK
  <1>2. \A u : u # "none" => Held(u)' = Held(u) \ {r}
    BY Zenon, <1>1 DEF Held
  <1>3. \A b \in Backends : b # "none"
    BY Zenon, RouterAssumption
  <1>4. ASSUME NEW b \in Backends, b # lease[r] PROVE inFlight'[b] = inFlight[b] /\ Held(b)' = Held(b)
    <2>1. r \notin Held(b) /\ Held(b)' = Held(b) \ {r}
      BY Zenon, <1>2, <1>3, <1>4 DEF Held
    <2>2. inFlight'[b] = inFlight[b]
      BY Zenon, <1>4 DEF TypeOK
    <2> QED
      BY Zenon, <2>1, <2>2
  <1>5. CASE lease[r] \in Backends
    <2>1. PICK t \in Backends : t = lease[r]
      BY Zenon, <1>5
    <2>2. r \in Held(t) /\ Held(t)' = Held(t) \ {r}
      BY <1>2, <1>3, <2>1 DEF Held
    <2>3. Cardinality(Held(t)') = Cardinality(Held(t)) - 1 /\ Cardinality(Held(t)') \in Nat
      <3>1. PICK S \in SUBSET Requests : S = Held(t) \ {r}
        BY ZenonT(40), HeldFinite
      <3>2. Cardinality(S) \in Nat /\ Cardinality(S \cup {r}) = Cardinality(S) + 1
        BY ZenonT(40), <3>1 DEF Counting
      <3>3. S \cup {r} = Held(t)
        BY Zenon, <2>2, <3>1
      <3>4. Cardinality(Held(t)) = Cardinality(S) + 1
        BY ZenonT(40), <3>2, <3>3
      <3> QED
        BY <2>2, <3>1, <3>2, <3>4
    <2>4. inFlight' = [inFlight EXCEPT ![t] = @ - 1]
      BY Zenon, <2>1
    <2>5. inFlight[t] = Cardinality(Held(t)) /\ inFlight[t] <= Slots[t] /\ Slots[t] \in Nat
      BY Zenon, RouterAssumption DEF SlotsCounted
    <2>6. inFlight'[t] = Cardinality(Held(t)') /\ inFlight'[t] <= Slots[t] /\ inFlight'[t] \in Nat
      BY <2>3, <2>4, <2>5 DEF TypeOK
    <2>7. inFlight' \in [Backends -> Nat]
      BY Zenon, <2>4, <2>6 DEF TypeOK
    <2>8. SlotsCounted'
      BY Zenon, <1>4, <2>1, <2>6 DEF SlotsCounted
    <2> QED
      BY Zenon, <1>1, <1>2, <2>7, <2>8
  <1>6. CASE lease[r] \notin Backends
    <2>1. inFlight' = inFlight
      BY Zenon, <1>6
    <2> QED
      BY Zenon, <1>1, <1>2, <1>4, <1>6, <2>1 DEF SlotsCounted, TypeOK
  <1> QED
    BY Zenon, <1>5, <1>6

-----------------------------------------------------------------------------
(* What each handler does to its request.                                  *)

\* Request r goes to control state a; the others stay where they are.
Moved(r, a) ==
    /\ req' \in [Requests -> Dispatches]
    /\ req'[r].at = a
    /\ \A c \in Requests : c # r => req'[c] = req[c]

\* One request's record is replaced.
LEMMA MovedTo ==
    ASSUME req \in [Requests -> Dispatches], NEW r \in Requests, NEW d \in Dispatches,
           req' = [req EXCEPT ![r] = d]
    PROVE  Moved(r, d.at)
  BY Zenon DEF Moved

\* What acquire does to a request: a slot, an error, or the queue.
LEMMA AcquireMoves ==
    ASSUME TypeOK, NEW r \in Requests, Acquire(r)
    PROVE  \E pick \in Pick(r, {}, report) :
              \/ pick \in Targets /\ Take(r, pick) /\ queue' = queue /\ Moved(r, Started(pick))
              \/ /\ pick = "noFreeSlot" /\ pick \notin Targets /\ MayWait(r)
                 /\ UNCHANGED <<lease, inFlight>>
                 /\ queue' = Append(queue, r) /\ Moved(r, "queued")
              \/ /\ pick \notin Targets /\ UNCHANGED <<lease, inFlight>>
                 /\ queue' = queue /\ Moved(r, "done")
  <1>1. PICK pick \in Pick(r, {}, report) :
            /\ IF pick \in Targets THEN Take(r, pick) ELSE UNCHANGED <<lease, inFlight>>
            /\ queue' = IF pick = "noFreeSlot" /\ MayWait(r) THEN Append(queue, r) ELSE queue
            /\ req' = [req EXCEPT ![r].at = IF pick \in Targets THEN Started(pick)
                                            ELSE IF pick = "noFreeSlot" /\ MayWait(r)
                                                 THEN "queued" ELSE "done",
                                  ![r].final = (req[r].at = "final")]
    BY ZenonT(40) DEF Acquire
  <1>2. "noFreeSlot" \notin Targets
    BY Zenon, RouterAssumption DEF Targets, NoSlot
  <1>3. req \in [Requests -> Dispatches]
    BY Zenon DEF TypeOK
  <1>4. ASSUME NEW a \in {"run", "going", "queued", "done"}, NEW f \in BOOLEAN,
               req' = [req EXCEPT ![r].at = a, ![r].final = f]
        PROVE  Moved(r, a)
    <2> DEFINE d == [req[r] EXCEPT !.at = a, !.final = f]
    <2>a. d \in Dispatches /\ d.at = a
      BY ZenonT(40), <1>3 DEF Dispatches
    <2>b. req' = [req EXCEPT ![r] = d]
      BY ZenonT(40), <1>3, <1>4
    <2> HIDE DEF d
    <2> QED
      BY Zenon, <2>a, <2>b, <1>3, MovedTo
  <1>5. PICK f \in BOOLEAN : f = (req[r].at = "final")
    BY ZenonT(40)
  <1>6. CASE pick \in Targets
    <2>1. req' = [req EXCEPT ![r].at = Started(pick), ![r].final = f]
      BY Zenon, <1>1, <1>5, <1>6
    <2>2. Started(pick) \in {"run", "going"}
      BY Zenon DEF Started
    <2>3. Moved(r, Started(pick))
      BY Zenon, <1>4, <2>1, <2>2
    <2>4. Take(r, pick) /\ queue' = queue
      BY Zenon, <1>1, <1>2, <1>6
    <2> QED
      BY Zenon, <1>6, <2>3, <2>4
  <1>7. CASE pick \notin Targets /\ pick = "noFreeSlot" /\ MayWait(r)
    <2>1. req' = [req EXCEPT ![r].at = "queued", ![r].final = f]
      BY Zenon, <1>1, <1>5, <1>7
    <2> QED
      BY ZenonT(40), <1>1, <1>4, <1>7, <2>1
  <1>8. CASE pick \notin Targets /\ ~(pick = "noFreeSlot" /\ MayWait(r))
    <2>1. req' = [req EXCEPT ![r].at = "done", ![r].final = f]
      BY ZenonT(40), <1>1, <1>5, <1>8
    <2> QED
      BY ZenonT(40), <1>1, <1>4, <1>8, <2>1
  <1> QED
    BY Zenon, <1>6, <1>7, <1>8

\* A request's next control state.
LEMMA GoesMoves ==
    ASSUME TypeOK, NEW r \in Requests,
           NEW a \in {"there", "refused", "release", "wake", "next", "final", "done"}, Goes(r, a)
    PROVE  Moved(r, a)
  <1>1. req \in [Requests -> Dispatches]
    BY Zenon DEF TypeOK
  <1>2. req' = [req EXCEPT ![r].at = a]
    BY Zenon DEF Goes
  <1> QED
    BY <1>1, <1>2 DEF Dispatches, Moved

\* What a waiter receives.
LEMMA ReceiveMoves ==
    ASSUME TypeOK, NEW r \in Requests, Receive(r)
    PROVE  Moved(r, IF lease[r] = "none" THEN "done" ELSE Started(lease[r]))
  <1>1. PICK spent \in BOOLEAN :
            req' = [req EXCEPT ![r].at = IF lease[r] = "none" THEN "done" ELSE Started(lease[r]),
                               ![r].spent = spent]
    BY ZenonT(40) DEF Receive
  <1>2. req \in [Requests -> Dispatches]
    BY Zenon DEF TypeOK
  <1>3. PICK a \in {"run", "going", "done"} :
            a = IF lease[r] = "none" THEN "done" ELSE Started(lease[r])
    BY Zenon DEF Started
  <1>4. req' = [req EXCEPT ![r].at = a, ![r].spent = spent]
    BY Zenon, <1>1, <1>3
  <1>5. Moved(r, a)
    <2> DEFINE d == [req[r] EXCEPT !.at = a, !.spent = spent]
    <2>a. d \in Dispatches /\ d.at = a
      BY ZenonT(40), <1>2 DEF Dispatches
    <2>b. req' = [req EXCEPT ![r] = d]
      BY ZenonT(40), <1>2, <1>4
    <2> HIDE DEF d
    <2> QED
      BY Zenon, <2>a, <2>b, <1>2, MovedTo
  <1> QED
    BY Zenon, <1>3, <1>5

\* A client that leaves, and a peer that has answered.
LEMMA LeavingMoves ==
    ASSUME TypeOK, NEW r \in Requests,
           NEW a \in {"done", "release"}, req' = [req EXCEPT ![r].at = a, ![r].served = TRUE]
    PROVE  Moved(r, a)
  <1>1. req \in [Requests -> Dispatches]
    BY Zenon DEF TypeOK
  <1> QED
    BY ZenonT(40), <1>1 DEF Dispatches, Moved

\* A local attempt ends.
LEMMA EndLocalMoves ==
    ASSUME TypeOK, LeaseMatches, NEW r \in Requests, EndLocal(r)
    PROVE  Moved(r, "wake")
  <1>1. req \in [Requests -> Dispatches] /\ lease[r] \in Targets
    BY Zenon DEF TypeOK, EndLocal, LeaseMatches, MatchAt, Targets
  <1>2. PICK served \in BOOLEAN :
           req' = [req EXCEPT ![r].at = "wake", ![r].served = served,
                           ![r].tried = IF served THEN @ ELSE @ \cup {lease[r]}]
    BY ZenonT(40) DEF EndLocal
  <1>3. PICK tr \in SUBSET Targets : tr = IF served THEN req[r].tried ELSE req[r].tried \cup {lease[r]}
    BY ZenonT(40), <1>1 DEF Dispatches
  <1>4. req' = [req EXCEPT ![r].at = "wake", ![r].served = served, ![r].tried = tr]
    BY Zenon, <1>1, <1>2, <1>3 DEF Dispatches
  <1> DEFINE d == [req[r] EXCEPT !.at = "wake", !.served = served, !.tried = tr]
  <1>5. d \in Dispatches /\ d.at = "wake"
    BY ZenonT(40), <1>1 DEF Dispatches
  <1>6. req' = [req EXCEPT ![r] = d]
    BY ZenonT(40), <1>1, <1>4
  <1> HIDE DEF d
  <1> QED
    BY Zenon, <1>1, <1>5, <1>6, MovedTo

\* A forward fails.
LEMMA FailPeerMoves ==
    ASSUME TypeOK, LeaseMatches, NEW r \in Requests, FailPeer(r)
    PROVE  Moved(r, "refused")
  <1>1. req \in [Requests -> Dispatches] /\ lease[r] \in Targets
    BY Zenon DEF TypeOK, FailPeer, LeaseMatches, MatchAt, Targets
  <1>2. req' = [req EXCEPT ![r].at = "refused", ![r].tried = @ \cup {lease[r]}]
    BY Zenon DEF FailPeer
  <1>3. PICK tr \in SUBSET Targets : tr = req[r].tried \cup {lease[r]}
    BY ZenonT(40), <1>1 DEF Dispatches
  <1>4. req' = [req EXCEPT ![r].at = "refused", ![r].tried = tr]
    BY Zenon, <1>1, <1>2, <1>3 DEF Dispatches
  <1> DEFINE d == [req[r] EXCEPT !.at = "refused", !.tried = tr]
  <1>a. d \in Dispatches /\ d.at = "refused"
    BY ZenonT(40), <1>1 DEF Dispatches
  <1>b. req' = [req EXCEPT ![r] = d]
    BY ZenonT(40), <1>1, <1>4
  <1> HIDE DEF d
  <1> QED
    BY Zenon, <1>a, <1>b, <1>1, MovedTo

\* After an attempt that wrote nothing.
LEMMA RetryMoves ==
    ASSUME TypeOK, NEW r \in Requests, Retry(r)
    PROVE  \/ /\ \E pick \in Pick(r, req[r].tried, report) :
                    pick \in Targets /\ Take(r, pick) /\ Moved(r, Started(pick))
           \/ /\ \E a \in {"done", "final"} : Moved(r, a)
              /\ UNCHANGED <<lease, inFlight>>
  <1>1. req \in [Requests -> Dispatches]
    BY Zenon DEF TypeOK
  <1>2. CASE \E a \in {"done", "final"} : Goes(r, a) /\ UNCHANGED <<lease, inFlight>>
    BY Zenon, <1>2, GoesMoves
  <1>3. CASE /\ req[r].retries < ForwardRetry
             /\ \E pick \in Pick(r, req[r].tried, report) :
                  /\ IF pick \in Targets THEN Take(r, pick) ELSE UNCHANGED <<lease, inFlight>>
                  /\ req' = [req EXCEPT ![r].at = IF pick \in Targets THEN Started(pick) ELSE "final",
                                        ![r].retries = @ + 1]
    <2>1. PICK pick \in Pick(r, req[r].tried, report) :
             /\ IF pick \in Targets THEN Take(r, pick) ELSE UNCHANGED <<lease, inFlight>>
             /\ req' = [req EXCEPT ![r].at = IF pick \in Targets THEN Started(pick) ELSE "final",
                                   ![r].retries = @ + 1]
      BY ZenonT(40), <1>3
    <2>2. PICK n \in 0..ForwardRetry : n = req[r].retries + 1
      BY <1>1, <1>3, DispatchAssumption DEF Dispatches
    <2>3. PICK a \in {"run", "going", "final"} : a = IF pick \in Targets THEN Started(pick) ELSE "final"
      BY Zenon DEF Started
    <2>4. req' = [req EXCEPT ![r].at = a, ![r].retries = n]
      BY Zenon, <1>1, <2>1, <2>2, <2>3 DEF Dispatches
    <2>5. Moved(r, a)
      <3> DEFINE d == [req[r] EXCEPT !.at = a, !.retries = n]
      <3>a. d \in Dispatches /\ d.at = a
        BY ZenonT(40), <1>1 DEF Dispatches
      <3>b. req' = [req EXCEPT ![r] = d]
        BY ZenonT(40), <1>1, <2>4
      <3> HIDE DEF d
      <3> QED
        BY Zenon, <3>a, <3>b, <1>1, MovedTo
    <2> QED
      BY Zenon, <2>1, <2>3, <2>5
  <1> QED
    BY Zenon, <1>2, <1>3 DEF Retry

-----------------------------------------------------------------------------
(* Reports and polls, and what a step does to them.                        *)

\* A poll, under way or not, and a report or none.
PollStates == {NoPoll, [at |-> "wake"]} \cup SentPolls \cup BuiltPolls
ReportStates == {NoReport} \cup Reports

\* A report or none, told apart by lists; a poll, by where it is.
LEMMA ReportKinds ==
    ASSUME NEW rep \in ReportStates
    PROVE  /\ rep.lists \in BOOLEAN
           /\ rep.lists => rep \in Reports
           /\ ~rep.lists => rep = NoReport
  <1>1. CASE rep = NoReport
    <2>1. rep.lists = FALSE
      BY Zenon, <1>1 DEF NoReport
    <2> QED
      BY ZenonT(40), <1>1, <2>1
  <1>2. CASE rep \in Reports
    <2>1. rep.lists = TRUE
      BY ZenonT(40), <1>2 DEF Reports
    <2> QED
      BY ZenonT(40), <1>2, <2>1
  <1> QED
    BY Zenon, <1>1, <1>2 DEF ReportStates

\* Where a poll is tells which of them it is.
LEMMA PollKinds ==
    ASSUME NEW s \in PollStates
    PROVE  /\ s.at \in {"idle", "wake", "sent", "built"}
           /\ s.at = "sent" => s \in SentPolls
           /\ s.at = "built" => s \in BuiltPolls
           /\ s.at = "wake" => s = [at |-> "wake"]
           /\ s.at = "idle" => s = NoPoll
  BY DEF PollStates, SentPolls, BuiltPolls, NoPoll

\* A scan is on or off, and goes by reports of the same kinds.
LEMMA ScanKinds ==
    ASSUME TypeOK
    PROVE  /\ scan.on \in BOOLEAN
           /\ scan.on => scan \in Scans
           /\ ~scan.on => scan = NoScan
           /\ report \in [Peers -> ReportStates]
           /\ poll \in [Peers -> PollStates]
           /\ scan.on => scan.reps \in [Peers -> ReportStates]
  <1>1. scan \in {NoScan} \cup Scans
    BY Zenon DEF TypeOK
  <1>2. CASE scan = NoScan
    <2>1. scan.on = FALSE
      BY Zenon, <1>2 DEF NoScan
    <2> QED
      BY ZenonT(40), <1>2, <2>1 DEF TypeOK, ReportStates, PollStates
  <1>3. CASE scan \in Scans
    <2>1. scan.on = TRUE /\ scan.reps \in [Peers -> ReportStates]
      BY ZenonT(40), <1>3 DEF Scans, ReportStates
    <2> QED
      BY ZenonT(40), <1>3, <2>1 DEF TypeOK, ReportStates, PollStates
  <1> QED
    BY Zenon, <1>1, <1>2, <1>3

\* A failed forward enters the unaware of a report that lists the peer, and
\* nothing else changes.
LEMMA FailPeerReport ==
    ASSUME NEW p \in Peers, NEW f \in [Peers -> ReportStates], NEW r \in Requests, NEW g,
           f[p].lists => g = [f EXCEPT ![p].unaware = @ \cup {r}], ~f[p].lists => g = f
    PROVE  /\ g \in [Peers -> ReportStates]
           /\ \A q \in Peers : /\ g[q].lists = f[q].lists /\ SameReport(g[q], f[q])
                               /\ q # p => g[q] = f[q]
           /\ f[p].lists => g[p].unaware = f[p].unaware \cup {r}
  <1>1. CASE ~f[p].lists
    BY Zenon, <1>1 DEF SameReport
  <1>2. CASE f[p].lists
    <2>1. f[p] \in Reports
      BY Zenon, <1>2, ReportKinds
    <2> DEFINE d == [f[p] EXCEPT !.unaware = @ \cup {r}]
    <2>2. d \in Reports /\ d.unaware = f[p].unaware \cup {r} /\ SameReport(d, f[p])
      BY ZenonT(40), <2>1 DEF Reports, SameReport
    <2>3. g = [f EXCEPT ![p] = d]
      BY Zenon, <1>2
    <2>4. \A rep : SameReport(rep, rep)
      BY Zenon DEF SameReport
    <2>5. d.lists = f[p].lists
      BY Zenon, <2>2 DEF SameReport
    <2> HIDE DEF d
    <2> QED
      BY ZenonT(40), <1>2, <2>2, <2>3, <2>4, <2>5 DEF ReportStates
  <1> QED
    BY Zenon, <1>1, <1>2

\* A refusal takes sentAfter from a report that lists the peer, and nothing else.
LEMMA RefusedReport ==
    ASSUME NEW p \in Peers, NEW f \in [Peers -> ReportStates], NEW g,
           f[p].lists => g = [f EXCEPT ![p].sentAfter = FALSE], ~f[p].lists => g = f
    PROVE  /\ g \in [Peers -> ReportStates]
           /\ \A q \in Peers : q # p => g[q] = f[q]
           /\ g[p].lists = f[p].lists
           /\ f[p].lists => /\ g[p].sentAfter = FALSE /\ g[p].unaware = f[p].unaware
                            /\ g[p].before = f[p].before /\ g[p].busy = f[p].busy
                            /\ g[p].fresh = f[p].fresh /\ g[p].up = f[p].up
                            /\ g[p].images = f[p].images
  <1>1. CASE ~f[p].lists
    BY Zenon, <1>1
  <1>2. CASE f[p].lists
    <2>1. f[p] \in Reports
      BY Zenon, <1>2, ReportKinds
    <2> DEFINE d == [f[p] EXCEPT !.sentAfter = FALSE]
    <2>2. /\ d \in Reports /\ d.unaware = f[p].unaware /\ d.before = f[p].before
          /\ d.busy = f[p].busy /\ d.sentAfter = FALSE /\ d.lists = f[p].lists
          /\ d.fresh = f[p].fresh /\ d.up = f[p].up /\ d.images = f[p].images
      BY ZenonT(40), <2>1 DEF Reports
    <2>3. g = [f EXCEPT ![p] = d]
      BY Zenon, <1>2
    <2> HIDE DEF d
    <2> QED
      BY ZenonT(40), <1>2, <2>2, <2>3 DEF ReportStates
  <1> QED
    BY ZenonT(40), <1>1, <1>2

\* A release takes its request out of the before of every report.
LEMMA WithoutReport ==
    ASSUME NEW f \in [Peers -> ReportStates], NEW r \in Requests
    PROVE  /\ Without(f, r) \in [Peers -> ReportStates]
           /\ \A q \in Peers :
                 /\ Without(f, r)[q].lists = f[q].lists
                 /\ f[q].lists => /\ Without(f, r)[q].before = f[q].before \ {r}
                                  /\ Without(f, r)[q].unaware = f[q].unaware
                                  /\ Without(f, r)[q].busy = f[q].busy
                                  /\ Without(f, r)[q].sentAfter = f[q].sentAfter
                                  /\ Without(f, r)[q].fresh = f[q].fresh
                                  /\ Without(f, r)[q].up = f[q].up
                                  /\ Without(f, r)[q].images = f[q].images
  <1>1. ASSUME NEW q \in Peers, ~f[q].lists
        PROVE  Without(f, r)[q] = f[q]
    <2>1. f[q] = NoReport
      BY Zenon, <1>1, ReportKinds
    <2>2. "before" \notin DOMAIN f[q]
      BY Zenon, <2>1 DEF NoReport
    <2> QED
      BY Zenon, <2>2 DEF Without
  <1>2. ASSUME NEW q \in Peers, f[q].lists
        PROVE  Without(f, r)[q] = [f[q] EXCEPT !.before = @ \ {r}]
    <2>1. f[q] \in Reports
      BY Zenon, <1>2, ReportKinds
    <2>2. "before" \in DOMAIN f[q]
      BY Zenon, <2>1 DEF Reports
    <2> QED
      BY Zenon, <2>2 DEF Without
  <1>3. ASSUME NEW q \in Peers, f[q].lists
        PROVE  /\ Without(f, r)[q] \in Reports
               /\ Without(f, r)[q].lists = f[q].lists
               /\ Without(f, r)[q].before = f[q].before \ {r}
               /\ Without(f, r)[q].unaware = f[q].unaware
               /\ Without(f, r)[q].busy = f[q].busy
               /\ Without(f, r)[q].sentAfter = f[q].sentAfter
               /\ Without(f, r)[q].fresh = f[q].fresh
               /\ Without(f, r)[q].up = f[q].up
               /\ Without(f, r)[q].images = f[q].images
    <2>1. f[q] \in Reports
      BY Zenon, <1>3, ReportKinds
    <2> DEFINE d == [f[q] EXCEPT !.before = @ \ {r}]
    <2>2. /\ d \in Reports /\ d.lists = f[q].lists /\ d.before = f[q].before \ {r}
          /\ d.unaware = f[q].unaware /\ d.busy = f[q].busy /\ d.sentAfter = f[q].sentAfter
          /\ d.fresh = f[q].fresh /\ d.up = f[q].up /\ d.images = f[q].images
      BY ZenonT(40), <2>1 DEF Reports
    <2>3. Without(f, r)[q] = d
      BY Zenon, <1>2, <1>3
    <2> HIDE DEF d
    <2> QED
      BY Zenon, <2>2, <2>3
  <1>4. Without(f, r) \in [Peers -> ReportStates]
    <2>1. \A q \in Peers : Without(f, r)[q] \in ReportStates
      BY Zenon, <1>1, <1>3 DEF ReportStates
    <2>2. Without(f, r) = [q \in Peers |-> Without(f, r)[q]]
      BY Zenon DEF Without
    <2> QED
      BY Zenon, <2>1, <2>2
  <1> QED
    BY Zenon, <1>1, <1>3, <1>4

\* A failed forward enters the unaware of a poll that was answered.
LEMMA FailPeerPoll ==
    ASSUME NEW p \in Peers, NEW f \in [Peers -> PollStates], NEW r \in Requests, NEW g,
           g = IF f[p].at = "built" THEN [f EXCEPT ![p].unaware = @ \cup {r}] ELSE f
    PROVE  /\ g \in [Peers -> PollStates]
           /\ \A q \in Peers : g[q].at = f[q].at /\ (q # p => g[q] = f[q])
           /\ f[p].at # "built" => g[p] = f[p]
           /\ f[p].at = "built" => /\ g[p].unaware = f[p].unaware \cup {r}
                                   /\ g[p].before = f[p].before /\ g[p].busy = f[p].busy
                                   /\ g[p].missed = f[p].missed /\ g[p].sentAfter = f[p].sentAfter
  <1>1. CASE f[p].at # "built"
    BY Zenon, <1>1
  <1>2. CASE f[p].at = "built"
    <2>1. f[p] \in BuiltPolls
      BY Zenon, <1>2, PollKinds
    <2> DEFINE d == [f[p] EXCEPT !.unaware = @ \cup {r}]
    <2>2. /\ d \in BuiltPolls /\ d.at = "built" /\ d.unaware = f[p].unaware \cup {r}
          /\ d.before = f[p].before /\ d.busy = f[p].busy
          /\ d.missed = f[p].missed /\ d.sentAfter = f[p].sentAfter
      BY Zenon, <2>1 DEF BuiltPolls
    <2>3. g = [f EXCEPT ![p] = d]
      BY Zenon, <1>2
    <2> HIDE DEF d
    <2> QED
      BY Zenon, <1>2, <2>2, <2>3 DEF PollStates
  <1> QED
    BY Zenon, <1>1, <1>2

\* A refusal takes sentAfter from a poll that is under way.
LEMMA RefusedPoll ==
    ASSUME NEW p \in Peers, NEW f \in [Peers -> PollStates], NEW g,
           g = IF f[p].at \in {"sent", "built"} THEN [f EXCEPT ![p].sentAfter = FALSE] ELSE f
    PROVE  /\ g \in [Peers -> PollStates]
           /\ \A q \in Peers : g[q].at = f[q].at /\ (q # p => g[q] = f[q])
           /\ f[p].at \in {"sent", "built"} => g[p].sentAfter = FALSE /\ g[p].before = f[p].before
           /\ f[p].at = "built" => /\ g[p].unaware = f[p].unaware /\ g[p].busy = f[p].busy
                                   /\ g[p].missed = f[p].missed
  <1>1. CASE f[p].at \notin {"sent", "built"}
    BY Zenon, <1>1
  <1>2. CASE f[p].at = "built"
    <2>1. f[p] \in BuiltPolls
      BY Zenon, <1>2, PollKinds
    <2> DEFINE d == [f[p] EXCEPT !.sentAfter = FALSE]
    <2>2. /\ d \in BuiltPolls /\ d.at = "built" /\ d.unaware = f[p].unaware
          /\ d.before = f[p].before /\ d.busy = f[p].busy
          /\ d.missed = f[p].missed /\ d.sentAfter = FALSE
      BY ZenonT(40), <2>1 DEF BuiltPolls
    <2>3. g = [f EXCEPT ![p] = d]
      BY Zenon, <1>2
    <2> HIDE DEF d
    <2> QED
      BY ZenonT(40), <1>2, <2>2, <2>3 DEF PollStates
  <1>3. CASE f[p].at = "sent"
    <2>1. f[p] \in SentPolls
      BY Zenon, <1>3, PollKinds
    <2> DEFINE d == [f[p] EXCEPT !.sentAfter = FALSE]
    <2>2. d \in SentPolls /\ d.at = "sent" /\ d.before = f[p].before /\ d.sentAfter = FALSE
      BY ZenonT(40), <2>1 DEF SentPolls
    <2>3. g = [f EXCEPT ![p] = d]
      BY Zenon, <1>3
    <2> HIDE DEF d
    <2> QED
      BY ZenonT(40), <1>3, <2>2, <2>3 DEF PollStates
  <1> QED
    BY ZenonT(40), <1>1, <1>2, <1>3

\* A release takes its request out of the before of every poll.
LEMMA WithoutPoll ==
    ASSUME NEW f \in [Peers -> PollStates], NEW r \in Requests
    PROVE  /\ Without(f, r) \in [Peers -> PollStates]
           /\ \A q \in Peers :
                 /\ Without(f, r)[q].at = f[q].at
                 /\ f[q].at \in {"sent", "built"} =>
                       Without(f, r)[q].before = f[q].before \ {r}
                 /\ f[q].at = "built" => /\ Without(f, r)[q].unaware = f[q].unaware
                                         /\ Without(f, r)[q].busy = f[q].busy
                                         /\ Without(f, r)[q].missed = f[q].missed
                                         /\ Without(f, r)[q].sentAfter = f[q].sentAfter
  <1>1. ASSUME NEW q \in Peers, f[q].at \notin {"sent", "built"}
        PROVE  Without(f, r)[q] = f[q]
    <2>1. f[q] = NoPoll \/ f[q] = [at |-> "wake"]
      BY Zenon, <1>1, PollKinds
    <2>2. "before" \notin DOMAIN f[q]
      BY <2>1 DEF NoPoll
    <2> QED
      BY Zenon, <2>2 DEF Without
  <1>2. ASSUME NEW q \in Peers, f[q].at \in {"sent", "built"}
        PROVE  Without(f, r)[q] = [f[q] EXCEPT !.before = @ \ {r}]
    <2>1. f[q] \in SentPolls \cup BuiltPolls
      BY Zenon, <1>2, PollKinds
    <2>2. "before" \in DOMAIN f[q]
      BY Zenon, <2>1 DEF SentPolls, BuiltPolls
    <2> QED
      BY Zenon, <2>2 DEF Without
  <1>3. ASSUME NEW q \in Peers, f[q].at = "sent"
        PROVE  /\ Without(f, r)[q] \in SentPolls /\ Without(f, r)[q].at = "sent"
               /\ Without(f, r)[q].before = f[q].before \ {r}
    <2>1. f[q] \in SentPolls
      BY Zenon, <1>3, PollKinds
    <2> DEFINE d == [f[q] EXCEPT !.before = @ \ {r}]
    <2>2. d \in SentPolls /\ d.at = "sent" /\ d.before = f[q].before \ {r}
      BY Zenon, <2>1 DEF SentPolls
    <2>3. Without(f, r)[q] = d
      BY Zenon, <1>2, <1>3
    <2> HIDE DEF d
    <2> QED
      BY Zenon, <2>2, <2>3
  <1>4. ASSUME NEW q \in Peers, f[q].at = "built"
        PROVE  /\ Without(f, r)[q] \in BuiltPolls /\ Without(f, r)[q].at = "built"
               /\ Without(f, r)[q].before = f[q].before \ {r}
               /\ Without(f, r)[q].unaware = f[q].unaware
               /\ Without(f, r)[q].busy = f[q].busy
               /\ Without(f, r)[q].missed = f[q].missed
               /\ Without(f, r)[q].sentAfter = f[q].sentAfter
    <2>1. f[q] \in BuiltPolls
      BY Zenon, <1>4, PollKinds
    <2> DEFINE d == [f[q] EXCEPT !.before = @ \ {r}]
    <2>2. /\ d \in BuiltPolls /\ d.at = "built" /\ d.before = f[q].before \ {r}
          /\ d.unaware = f[q].unaware /\ d.busy = f[q].busy /\ d.missed = f[q].missed
          /\ d.sentAfter = f[q].sentAfter
      BY Zenon, <2>1 DEF BuiltPolls
    <2>3. Without(f, r)[q] = d
      BY Zenon, <1>2, <1>4
    <2> HIDE DEF d
    <2> QED
      BY Zenon, <2>2, <2>3
  <1>5. Without(f, r) \in [Peers -> PollStates]
    <2>1. \A q \in Peers : Without(f, r)[q] \in PollStates
      BY Zenon, <1>1, <1>3, <1>4 DEF PollStates
    <2>2. Without(f, r) = [q \in Peers |-> Without(f, r)[q]]
      BY Zenon DEF Without
    <2> QED
      BY Zenon, <2>1, <2>2
  <1> QED
    BY Zenon, <1>1, <1>3, <1>4, <1>5

\* The forwards on a peer are finitely many.
LEMMA ThereFinite ==
    ASSUME Counting, NEW p
    PROVE  There(p) \in SUBSET Requests /\ Cardinality(There(p)) \in Nat
  <1>1. There(p) \in SUBSET Requests
    BY Zenon DEF There
  <1> QED
    BY Zenon, <1>1 DEF Counting

\* The peer builds its report.
LEMMA BuildReportPoll ==
    ASSUME Counting, TypeOK, NEW p \in Peers, BuildReport(p)
    PROVE  /\ poll' \in [Peers -> PollStates]
           /\ \A q \in Peers : q # p => poll'[q] = poll[q]
           /\ poll'[p].at = "built" /\ poll'[p].unaware = {}
           /\ poll'[p].before = poll[p].before /\ poll'[p].busy \in Nat
           /\ poll'[p].busy >= Cardinality(There(p))
           /\ poll'[p].missed = {r \in poll[p].before : lease[r] = p} \ There(p)
  <1>1. poll \in [Peers -> PollStates] /\ poll[p] \in SentPolls
    BY Zenon, ScanKinds, PollKinds DEF BuildReport
  <1>2. PICK busy \in Cardinality(There(p))..Slots[p], images \in PeerImages, up \in BOOLEAN :
          poll' = [poll EXCEPT ![p] = [at |-> "built", sentAfter |-> @.sentAfter, before |-> @.before,
                    busy |-> busy, images |-> images, up |-> up, unaware |-> {},
                    missed |-> {r \in @.before : lease[r] = p} \ There(p)]]
    BY ZenonT(40) DEF BuildReport
  <1>3. busy \in Nat /\ busy >= Cardinality(There(p))
    BY ThereFinite, RouterAssumption
  <1> DEFINE d == [at |-> "built", sentAfter |-> poll[p].sentAfter, before |-> poll[p].before,
                   busy |-> busy, images |-> images, up |-> up, unaware |-> {},
                   missed |-> {r \in poll[p].before : lease[r] = p} \ There(p)]
  <1>4. d \in BuiltPolls
    BY Zenon, <1>1, <1>3 DEF SentPolls, BuiltPolls
  <1>5. /\ d.at = "built" /\ d.unaware = {} /\ d.before = poll[p].before /\ d.busy = busy
        /\ d.missed = {r \in poll[p].before : lease[r] = p} \ There(p)
    BY Zenon
  <1>6. poll' = [poll EXCEPT ![p] = d]
    BY Zenon, <1>1, <1>2
  <1> HIDE DEF d
  <1> QED
    BY Zenon, <1>1, <1>3, <1>4, <1>5, <1>6 DEF PollStates

\* A poll is sent.
LEMMA SendPollPoll ==
    ASSUME TypeOK, NEW p \in Peers, SendPoll(p)
    PROVE  /\ poll' \in [Peers -> PollStates]
           /\ \A q \in Peers : q # p => poll'[q] = poll[q]
           /\ poll'[p].at = "sent" /\ poll'[p].before = Held(p)
  <1>1. poll \in [Peers -> PollStates]
    BY Zenon, ScanKinds
  <1> DEFINE d == [at |-> "sent", sentAfter |-> TRUE, before |-> {r \in Requests : lease[r] = p}]
  <1>2. d \in SentPolls /\ d.at = "sent" /\ d.before = Held(p)
    BY Zenon DEF SentPolls, Held
  <1>3. poll' = [poll EXCEPT ![p] = d]
    BY Zenon DEF SendPoll
  <1> HIDE DEF d
  <1> QED
    BY Zenon, <1>1, <1>2, <1>3 DEF PollStates

\* An answer that is kept.
LEMMA AcceptReportReport ==
    ASSUME TypeOK, NEW p \in wanted, AcceptReport(p)
    PROVE  /\ report' \in [Peers -> ReportStates]
           /\ \A q \in Peers : q # p => report'[q] = report[q]
           /\ report'[p].lists /\ report'[p].before = poll[p].before
           /\ report'[p].busy = poll[p].busy /\ report'[p].unaware = poll[p].unaware
           /\ report'[p].sentAfter = poll[p].sentAfter
           /\ poll' = [poll EXCEPT ![p] = [at |-> "wake"]]
           /\ missed' = missed \cup {r \in poll[p].missed : lease[r] = p}
  <1>1. poll \in [Peers -> PollStates] /\ poll[p] \in BuiltPolls /\ report \in [Peers -> ReportStates]
        /\ p \in Peers
    BY Zenon, ScanKinds, PollKinds DEF AcceptReport, TypeOK
  <1> DEFINE d == [lists |-> TRUE, fresh |-> TRUE,
                    sentAfter |-> poll[p].sentAfter, before |-> poll[p].before,
                    busy |-> poll[p].busy, images |-> poll[p].images,
                    up |-> poll[p].up, unaware |-> poll[p].unaware]
  <1>2. d \in Reports
    BY Zenon, <1>1 DEF BuiltPolls, Reports
  <1>3. /\ d.lists = TRUE /\ d.before = poll[p].before /\ d.busy = poll[p].busy
        /\ d.unaware = poll[p].unaware /\ d.sentAfter = poll[p].sentAfter
    BY Zenon
  <1>4. report' = [report EXCEPT ![p] = d]
    BY Zenon DEF AcceptReport
  <1>5. /\ poll' = [poll EXCEPT ![p] = [at |-> "wake"]]
        /\ missed' = missed \cup {r \in poll[p].missed : lease[r] = p}
    BY Zenon DEF AcceptReport
  <1> HIDE DEF d
  <1> QED
    BY Zenon, <1>1, <1>2, <1>3, <1>4, <1>5 DEF ReportStates

\* A report grows old.
LEMMA AgedReport ==
    ASSUME NEW p \in Peers, NEW f \in [Peers -> ReportStates], f[p].lists, NEW g,
           g = [f EXCEPT ![p].fresh = FALSE]
    PROVE  /\ g \in [Peers -> ReportStates]
           /\ \A q \in Peers : q # p => g[q] = f[q]
           /\ g[p].lists = f[p].lists /\ g[p].unaware = f[p].unaware
           /\ g[p].sentAfter = f[p].sentAfter
           /\ g[p].before = f[p].before /\ g[p].busy = f[p].busy
  <1>1. f[p] \in Reports
    BY Zenon, ReportKinds
  <1> DEFINE d == [f[p] EXCEPT !.fresh = FALSE]
  <1>2. /\ d \in Reports /\ d.lists = f[p].lists /\ d.unaware = f[p].unaware
        /\ d.sentAfter = f[p].sentAfter
        /\ d.before = f[p].before /\ d.busy = f[p].busy
    BY ZenonT(40), <1>1 DEF Reports
  <1>3. g = [f EXCEPT ![p] = d]
    BY Zenon
  <1> HIDE DEF d
  <1> QED
    BY ZenonT(40), <1>2, <1>3 DEF ReportStates

-----------------------------------------------------------------------------
(* The scan of dispatchLocked.                                             *)

\* The fields of a scan that is on.
LEMMA ScanFields ==
    ASSUME TypeOK, scan.on
    PROVE  /\ scan \in Scans /\ scan.todo \in Seq(Requests) /\ scan.reps \in [Peers -> ReportStates]
           /\ scan.unpinnedFull \in BOOLEAN /\ scan.imagesFull \in BOOLEAN
           /\ scan.progressed \in BOOLEAN
  <1>1. scan \in Scans
    BY Zenon, ScanKinds
  <1> QED
    BY ZenonT(40), <1>1 DEF Scans, ReportStates

\* dispatchLocked begins.
LEMMA ScanBegins ==
    ASSUME TypeOK, BeginScan
    PROVE  \/ queue = <<>> /\ scan' = scan /\ silent' = silent
           \/ /\ queue # <<>> /\ silent' = FALSE /\ scan' \in Scans /\ scan'.on
              /\ scan'.todo = queue /\ scan'.reps = report
              /\ ~scan'.unpinnedFull /\ ~scan'.imagesFull
  <1>1. CASE queue = <<>>
    <2>1. silent' = silent
      BY Zenon, <1>1 DEF BeginScan, TypeOK
    <2> QED
      BY Zenon, <1>1, <2>1 DEF BeginScan
  <1>2. CASE queue # <<>>
    <2> DEFINE s == [on |-> TRUE, todo |-> queue, unpinnedFull |-> FALSE,
                     imagesFull |-> FALSE, progressed |-> FALSE, reps |-> report]
    <2>1. scan' = s /\ silent' = FALSE
      BY ZenonT(40), <1>2 DEF BeginScan
    <2>2. s \in Scans
      BY Zenon DEF Scans, TypeOK
    <2>3. s.on = TRUE /\ s.todo = queue /\ s.reps = report /\ s.unpinnedFull = FALSE
          /\ s.imagesFull = FALSE
      BY Zenon
    <2> HIDE DEF s
    <2> QED
      BY Zenon, <1>2, <2>1, <2>2, <2>3
  <1> QED
    BY ZenonT(40), <1>1, <1>2

\* The scan after one waiter: what is left to do, and the flags it sets.
ScanGoesOn(pass) ==
    /\ scan' \in Scans /\ scan'.on
    /\ scan'.todo = Tail(scan.todo) /\ scan'.reps = scan.reps
    /\ scan'.imagesFull
         = (scan.imagesFull \/ (pass /\ Host[Head(scan.todo)] = "any" /\ Head(scan.todo) \in Images))
    /\ scan'.unpinnedFull
         = (scan.unpinnedFull \/ (pass /\ Host[Head(scan.todo)] = "any" /\ Head(scan.todo) \notin Images))

\* One waiter of a scan: passed over, refused, or taken out of the queue.
LEMMA ScanWaiterMoves ==
    ASSUME TypeOK, ScanWaiter
    PROVE  \/ /\ Skipped(Head(scan.todo)) /\ ScanGoesOn(FALSE)
              /\ UNCHANGED <<queue, lease, inFlight>>
           \/ /\ ~Skipped(Head(scan.todo)) /\ ScanGoesOn(TRUE)
              /\ "noFreeSlot" \in Pick(Head(scan.todo), {}, scan.reps)
              /\ UNCHANGED <<queue, lease, inFlight>>
           \/ /\ ~Skipped(Head(scan.todo)) /\ ScanGoesOn(FALSE)
              /\ RemoveWaiter(Head(scan.todo))
              /\ \E pick \in Pick(Head(scan.todo), {}, scan.reps) :
                    \/ pick \in Targets /\ Take(Head(scan.todo), pick)
                    \/ pick \notin Targets /\ UNCHANGED <<lease, inFlight>>
  <1> DEFINE w == Head(scan.todo)
             rest == [scan EXCEPT !.todo = Tail(@)]
  <1>1. scan.on /\ scan.todo # <<>>
    BY Zenon DEF ScanWaiter
  <1>2. scan \in Scans /\ scan.todo \in Seq(Requests)
    BY Zenon, <1>1, ScanFields
  <1>3. Tail(scan.todo) \in Seq(Requests)
    BY <1>1, <1>2
  <1>4. scan.on = TRUE /\ scan.unpinnedFull \in BOOLEAN /\ scan.imagesFull \in BOOLEAN
    BY ZenonT(40), <1>2 DEF Scans
  <1>5. rest \in Scans /\ rest.on = TRUE /\ rest.todo = Tail(scan.todo) /\ rest.reps = scan.reps
        /\ rest.unpinnedFull = scan.unpinnedFull /\ rest.imagesFull = scan.imagesFull
    BY ZenonT(40), <1>2, <1>3 DEF Scans
  <1> HIDE DEF rest
  <1>6. CASE Skipped(w) /\ scan' = rest /\ UNCHANGED <<queue, lease, inFlight>>
    BY Zenon, <1>4, <1>5, <1>6 DEF ScanGoesOn
  <1>7. CASE ~Skipped(w) /\ \E pick \in Pick(w, {}, scan.reps) :
                 IF pick = "noFreeSlot"
                 THEN /\ scan' = [rest EXCEPT
                            !.imagesFull = @ \/ (Host[w] = "any" /\ w \in Images),
                            !.unpinnedFull = @ \/ (Host[w] = "any" /\ w \notin Images)]
                      /\ UNCHANGED <<queue, lease, inFlight>>
                 ELSE /\ scan' = [rest EXCEPT !.progressed = TRUE]
                      /\ RemoveWaiter(w)
                      /\ IF pick \in Targets THEN Take(w, pick) ELSE UNCHANGED <<lease, inFlight>>
    <2>1. PICK pick \in Pick(w, {}, scan.reps) :
                 IF pick = "noFreeSlot"
                 THEN /\ scan' = [rest EXCEPT
                            !.imagesFull = @ \/ (Host[w] = "any" /\ w \in Images),
                            !.unpinnedFull = @ \/ (Host[w] = "any" /\ w \notin Images)]
                      /\ UNCHANGED <<queue, lease, inFlight>>
                 ELSE /\ scan' = [rest EXCEPT !.progressed = TRUE]
                      /\ RemoveWaiter(w)
                      /\ IF pick \in Targets THEN Take(w, pick) ELSE UNCHANGED <<lease, inFlight>>
      BY Zenon, <1>7
    <2>2. CASE pick = "noFreeSlot"
      <3>1. PICK im \in BOOLEAN : im = (scan.imagesFull \/ (Host[w] = "any" /\ w \in Images))
        BY ZenonT(40)
      <3>2. PICK un \in BOOLEAN : un = (scan.unpinnedFull \/ (Host[w] = "any" /\ w \notin Images))
        BY ZenonT(40)
      <3>3. scan' = [rest EXCEPT !.imagesFull = im, !.unpinnedFull = un]
        BY Zenon, <1>5, <2>1, <2>2, <3>1, <3>2 DEF Scans
      <3>4. /\ scan' \in Scans /\ scan'.on = TRUE /\ scan'.todo = rest.todo /\ scan'.reps = rest.reps
            /\ scan'.imagesFull = im /\ scan'.unpinnedFull = un
        BY ZenonT(40), <1>5, <3>3 DEF Scans
      <3>5. ScanGoesOn(TRUE)
        BY Zenon, <1>5, <3>1, <3>2, <3>4 DEF ScanGoesOn
      <3> QED
        BY ZenonT(40), <1>7, <2>1, <2>2, <3>5
    <2>3. CASE pick # "noFreeSlot"
      <3>1. scan' = [rest EXCEPT !.progressed = TRUE]
        BY Zenon, <2>1, <2>3
      <3>2. /\ scan' \in Scans /\ scan'.on = TRUE /\ scan'.todo = rest.todo /\ scan'.reps = rest.reps
            /\ scan'.imagesFull = rest.imagesFull /\ scan'.unpinnedFull = rest.unpinnedFull
        BY ZenonT(40), <1>5, <3>1 DEF Scans
      <3>3. ScanGoesOn(FALSE)
        BY Zenon, <1>4, <1>5, <3>2 DEF ScanGoesOn
      <3> QED
        BY ZenonT(40), <1>7, <2>1, <2>3, <3>3
    <2> QED
      BY ZenonT(40), <2>2, <2>3
  <1> QED
    BY ZenonT(40), <1>6, <1>7 DEF ScanWaiter, rest

\* The end of a scan.
LEMMA ScanEnds ==
    ASSUME TypeOK, ScanEnd
    PROVE  \/ /\ scan' \in Scans /\ scan'.on /\ scan'.todo = queue /\ scan'.reps = scan.reps
              /\ ~scan'.unpinnedFull /\ ~scan'.imagesFull
           \/ scan' = NoScan /\ ~scan'.on
  <1>1. scan \in Scans /\ queue \in Seq(Requests)
    BY Zenon, ScanFields DEF ScanEnd, TypeOK
  <1>2. CASE scan.progressed
    <2>1. scan' = [scan EXCEPT !.todo = queue, !.unpinnedFull = FALSE,
                               !.imagesFull = FALSE, !.progressed = FALSE]
      BY Zenon, <1>2 DEF ScanEnd
    <2>2. scan' \in Scans /\ scan'.on = TRUE /\ scan'.todo = queue /\ scan'.reps = scan.reps
          /\ scan'.unpinnedFull = FALSE /\ scan'.imagesFull = FALSE
      BY ZenonT(40), <1>1, <2>1 DEF Scans
    <2> QED
      BY Zenon, <2>2
  <1>3. CASE ~scan.progressed
    BY Zenon, <1>3 DEF ScanEnd, NoScan
  <1> QED
    BY Zenon, <1>2, <1>3

\* A report grows old, in a scan's copy as well.
LEMMA ScanAges ==
    ASSUME TypeOK, NEW p \in Peers, AgeReport(p)
    PROVE  /\ scan'.on = scan.on /\ scan' \in {NoScan} \cup Scans
           /\ scan.on => /\ scan'.todo = scan.todo /\ scan'.unpinnedFull = scan.unpinnedFull
                         /\ scan'.imagesFull = scan.imagesFull
                         /\ scan'.reps = IF scan.reps[p].lists
                                         THEN [scan.reps EXCEPT ![p].fresh = FALSE] ELSE scan.reps
  <1>1. CASE scan.on /\ scan.reps[p].lists
    <2>1. scan \in Scans /\ scan.reps \in [Peers -> ReportStates]
      BY Zenon, <1>1, ScanFields
    <2> DEFINE new == [scan.reps EXCEPT ![p].fresh = FALSE]
    <2>2. new \in [Peers -> ReportStates]
      BY ZenonT(40), <1>1, <2>1, AgedReport
    <2>3. scan' = [scan EXCEPT !.reps = new]
      BY Zenon, <1>1, <2>1 DEF AgeReport, Scans
    <2> HIDE DEF new
    <2>4. scan' \in Scans /\ scan'.on = scan.on /\ scan'.todo = scan.todo
          /\ scan'.unpinnedFull = scan.unpinnedFull /\ scan'.imagesFull = scan.imagesFull
          /\ scan'.reps = new
      BY ZenonT(40), <2>1, <2>2, <2>3 DEF Scans, ReportStates
    <2> QED
      BY Zenon, <1>1, <2>4 DEF new
  <1>2. CASE ~(scan.on /\ scan.reps[p].lists)
    BY Zenon, <1>2 DEF AgeReport, TypeOK
  <1> QED
    BY Zenon, <1>1, <1>2

-----------------------------------------------------------------------------
(* Slots: every lease is counted once, and waiters hold none.              *)

\* The queue, the requests and their leases.
CoreInv ==
    /\ req \in [Requests -> Dispatches]
    /\ lease \in [Requests -> Targets \cup {"none"}] /\ inFlight \in [Backends -> Nat]
    /\ queue \in Seq(Requests) /\ Len(queue) <= QueueMax /\ IsInjective(queue)
    /\ LeaseMatches /\ WaitersQueued /\ SlotsCounted /\ WaitersLocal

\* A request that is not queued is not in the queue.
LEMMA NotWaiting ==
    ASSUME SlotInv, NEW r \in Requests, req[r].at # "queued"
    PROVE  \A i \in 1..Len(queue) : queue[i] # r
  BY Zenon DEF SlotInv, WaitersQueued

\* A step of one request that leaves the queue as it is.
LEMMA CoreMoves ==
    ASSUME SlotInv, WaitersLocal, NEW r \in Requests, NEW a, Moved(r, a), queue' = queue,
           \A i \in 1..Len(queue) : queue[i] # r,
           \A c \in Requests : c # r => lease'[c] = lease[c],
           lease' \in [Requests -> Targets \cup {"none"}], inFlight' \in [Backends -> Nat],
           SlotsCounted', MatchAt(r)'
    PROVE  CoreInv'
  <1>1. \A c \in Requests : c # r => req'[c] = req[c]
    BY Zenon DEF Moved
  <1>2. LeaseMatches'
    BY Zenon, <1>1 DEF SlotInv, LeaseMatches, MatchAt
  <1>3. WaitersQueued'
    <2> SUFFICES ASSUME NEW i \in 1..Len(queue)
                 PROVE  req'[queue[i]].at = "queued" /\ lease'[queue[i]] = "none"
      BY Zenon DEF WaitersQueued
    <2>1. queue[i] \in Requests /\ queue[i] # r
      BY DEF SlotInv, TypeOK
    <2> QED
      BY Zenon, <1>1, <2>1 DEF SlotInv, WaitersQueued
  <1>4. queue' \in Seq(Requests) /\ Len(queue') <= QueueMax /\ IsInjective(queue') /\ WaitersLocal'
    BY Zenon DEF SlotInv, TypeOK, WaitersLocal
  <1> QED
    BY Zenon, <1>2, <1>3, <1>4 DEF CoreInv, Moved

\* A step of one request that keeps its lease and the queue.
LEMMA CoreStays ==
    ASSUME SlotInv, WaitersLocal, NEW r \in Requests, NEW a, Moved(r, a),
           UNCHANGED <<queue, lease, inFlight>>,
           \A i \in 1..Len(queue) : queue[i] # r, MatchAt(r)'
    PROVE  CoreInv'
  <1>1. /\ lease' = lease /\ inFlight' = inFlight /\ queue' = queue
        /\ lease' \in [Requests -> Targets \cup {"none"}] /\ inFlight' \in [Backends -> Nat]
    BY Zenon DEF SlotInv, TypeOK
  <1>2. SlotsCounted'
    BY Zenon, <1>1 DEF SlotInv, SlotsCounted, Held
  <1> QED
    BY Zenon, <1>1, <1>2, CoreMoves

\* Who starts on a slot is where the slot is.
LEMMA StartedMatches ==
    ASSUME NEW r \in Requests, NEW t \in Targets, lease'[r] = t, Moved(r, Started(t))
    PROVE  MatchAt(r)'
  BY Zenon, RouterAssumption DEF MatchAt, Moved, Started, Targets

\* A request takes a slot that a pick gave.
LEMMA CoreTakes ==
    ASSUME SlotInv, WaitersLocal, NEW r \in Requests, lease[r] = "none", NEW ex, NEW reps,
           NEW t \in Targets, t \in Pick(r, ex, reps), Take(r, t), Moved(r, Started(t)),
           queue' = queue, \A i \in 1..Len(queue) : queue[i] # r
    PROVE  CoreInv'
  <1>1. /\ lease' \in [Requests -> Targets \cup {"none"}] /\ inFlight' \in [Backends -> Nat]
        /\ lease'[r] = t /\ \A c \in Requests : c # r => lease'[c] = lease[c]
        /\ SlotsCounted'
    BY TakenSlot DEF SlotInv
  <1>2. MatchAt(r)'
    BY Zenon, <1>1, StartedMatches
  <1> QED
    BY Zenon, <1>1, <1>2, CoreMoves

\* A waiter leaves the queue.
LEMMA CoreLeaves ==
    ASSUME SlotInv, WaitersLocal, NEW r \in Requests, r \in Range(queue), RemoveWaiter(r),
           req' \in [Requests -> Dispatches], \A c \in Requests : c # r => req'[c] = req[c],
           \A c \in Requests : c # r => lease'[c] = lease[c],
           lease' \in [Requests -> Targets \cup {"none"}], inFlight' \in [Backends -> Nat],
           SlotsCounted', MatchAt(r)'
    PROVE  CoreInv'
  <1>1. queue \in Seq(Requests) /\ IsInjective(queue) /\ Len(queue) <= QueueMax
    BY Zenon DEF SlotInv, TypeOK
  <1>2. PICK k \in 1..Len(queue) : queue[k] = r
    BY Zenon, <1>1, WaiterAt
  <1>3. /\ queue' \in Seq(Requests) /\ Len(queue') = Len(queue) - 1 /\ Len(queue) \in Nat
        /\ \A j \in 1..Len(queue') : queue'[j] = IF j < k THEN queue[j] ELSE queue[j + 1]
        /\ IsInjective(queue')
        /\ \A j \in 1..Len(queue') : queue'[j] # r
    BY Zenon, <1>1, <1>2, WaiterRemoved
  <1>4. ASSUME NEW j \in 1..Len(queue')
        PROVE  \E i \in 1..Len(queue) : queue'[j] = queue[i]
    <2>1. CASE j < k
      BY <1>3, <2>1
    <2>2. CASE ~(j < k)
      <3>1. j + 1 \in 1..Len(queue)
        BY SMTT(30), <1>3
      <3> QED
        BY Zenon, <1>3, <2>2, <3>1
    <2> QED
      BY Zenon, <2>1, <2>2
  <1>5. LeaseMatches'
    BY Zenon DEF SlotInv, LeaseMatches, MatchAt
  <1>6. WaitersQueued' /\ WaitersLocal'
    <2> SUFFICES ASSUME NEW j \in 1..Len(queue')
                 PROVE  /\ req'[queue'[j]].at = "queued" /\ lease'[queue'[j]] = "none"
                        /\ queue'[j] \notin Forwarded
      BY Zenon DEF WaitersQueued, WaitersLocal
    <2>1. PICK i \in 1..Len(queue) : queue'[j] = queue[i]
      BY Zenon, <1>4
    <2>2. queue[i] \in Requests /\ queue[i] # r
      BY <1>1, <1>3, <2>1
    <2> QED
      BY SMTT(30), <2>1, <2>2 DEF SlotInv, WaitersQueued, WaitersLocal
  <1>7. Len(queue') <= QueueMax
    BY <1>1, <1>3, DispatchAssumption
  <1> QED
    BY Zenon, <1>3, <1>5, <1>6, <1>7 DEF CoreInv

\* The waiter a scan looks at is where the scan is in the queue.
LEMMA ScanAt ==
    ASSUME TypeOK, ScanInOrder, scan.on, scan.todo # <<>>
    PROVE  /\ Passed \in Nat /\ Passed + 1 \in 1..Len(queue)
           /\ Head(scan.todo) = queue[Passed + 1] /\ Head(scan.todo) \in Requests
           /\ Head(scan.todo) \in Range(queue)
           /\ Len(scan.todo) \in Nat /\ Len(scan.todo) > 0 /\ Len(queue) \in Nat
           /\ Tail(scan.todo) \in Seq(Requests) /\ Len(Tail(scan.todo)) = Len(scan.todo) - 1
           /\ \A i \in 1..(Len(scan.todo) - 1) : Tail(scan.todo)[i] = scan.todo[i + 1]
  <1>1. scan.todo \in Seq(Requests) /\ queue \in Seq(Requests)
    BY ZenonT(40), ScanFields DEF TypeOK
  <1>2. /\ Len(scan.todo) \in Nat /\ Len(scan.todo) > 0 /\ Len(queue) \in Nat
        /\ Head(scan.todo) = scan.todo[1] /\ Head(scan.todo) \in Requests
        /\ Tail(scan.todo) \in Seq(Requests) /\ Len(Tail(scan.todo)) = Len(scan.todo) - 1
        /\ \A i \in 1..(Len(scan.todo) - 1) : Tail(scan.todo)[i] = scan.todo[i + 1]
    BY <1>1
  <1>3. Passed >= 0 /\ \A i \in 1..Len(scan.todo) : scan.todo[i] = queue[Passed + i]
    BY Zenon DEF ScanInOrder
  <1>4. Passed \in Nat /\ Passed + 1 \in 1..Len(queue) /\ scan.todo[1] = queue[Passed + 1]
    <2>1. Passed = Len(queue) - Len(scan.todo) /\ Passed \in Int
      BY <1>2 DEF Passed
    <2>2. 1 \in 1..Len(scan.todo)
      BY <1>2
    <2>3. scan.todo[1] = queue[Passed + 1]
      BY Zenon, <1>3, <2>2
    <2>4. Passed \in Nat /\ Passed + 1 \in 1..Len(queue)
      BY SMTT(30), <1>2, <1>3, <2>1
    <2> QED
      BY Zenon, <2>3, <2>4
  <1>5. Head(scan.todo) \in Range(queue)
    BY Zenon, <1>1, <1>2, <1>4, WaiterAt
  <1> QED
    BY Zenon, <1>2, <1>4, <1>5

\* Nothing of the core changes.
LEMMA CoreSame ==
    ASSUME SlotInv, WaitersLocal, UNCHANGED <<req, lease, inFlight, queue>>
    PROVE  CoreInv'
  BY ZenonT(40) DEF SlotInv, TypeOK, CoreInv, LeaseMatches, MatchAt, WaitersQueued, SlotsCounted, WaitersLocal,
         Held

\* The queue with one more waiter.
LEMMA WaiterAdded ==
    ASSUME NEW s \in Seq(Requests), NEW r \in Requests, NEW q, q = Append(s, r)
    PROVE  /\ q \in Seq(Requests) /\ Len(q) = Len(s) + 1 /\ Len(s) \in Nat
           /\ q[Len(s) + 1] = r /\ \A i \in 1..Len(s) : q[i] = s[i]
           /\ DOMAIN q = 1..Len(q)
  <1>1. q \in Seq(Requests) /\ Len(s) \in Nat
    OBVIOUS
  <1>2. Len(q) = Len(s) + 1
    OBVIOUS
  <1>3. DOMAIN q = 1..Len(q)
    BY <1>1
  <1>4. q[Len(s) + 1] = r /\ \A i \in 1..Len(s) : q[i] = s[i]
    OBVIOUS
  <1> QED
    BY Zenon, <1>1, <1>2, <1>3, <1>4

\* acquire.
LEMMA CoreAcquire ==
    ASSUME SlotInv, WaitersLocal, NEW r \in Requests, Acquire(r)
    PROVE  CoreInv'
  <1>1. req[r].at \in {"new", "final"} /\ lease[r] = "none"
    BY Zenon DEF Acquire, SlotInv, LeaseMatches, MatchAt
  <1>2. \A i \in 1..Len(queue) : queue[i] # r
    BY Zenon, <1>1, NotWaiting
  <1>3. PICK pick \in Pick(r, {}, report) :
              \/ pick \in Targets /\ Take(r, pick) /\ queue' = queue /\ Moved(r, Started(pick))
              \/ /\ pick = "noFreeSlot" /\ pick \notin Targets /\ MayWait(r)
                 /\ UNCHANGED <<lease, inFlight>>
                 /\ queue' = Append(queue, r) /\ Moved(r, "queued")
              \/ /\ pick \notin Targets /\ UNCHANGED <<lease, inFlight>>
                 /\ queue' = queue /\ Moved(r, "done")
    BY Zenon, AcquireMoves DEF SlotInv
  <1>4. CASE pick \in Targets /\ Take(r, pick) /\ queue' = queue /\ Moved(r, Started(pick))
    BY Zenon, <1>1, <1>2, <1>4, CoreTakes
  <1>5. CASE UNCHANGED <<lease, inFlight>> /\ queue' = queue /\ Moved(r, "done")
    <2>1. MatchAt(r)'
      BY Zenon, <1>1, <1>5 DEF MatchAt, Moved
    <2> QED
      BY <1>2, <1>5, <2>1, CoreStays
  <1>6. CASE /\ MayWait(r) /\ UNCHANGED <<lease, inFlight>>
             /\ queue' = Append(queue, r) /\ Moved(r, "queued")
    <2>1. queue \in Seq(Requests) /\ Len(queue) <= QueueMax /\ IsInjective(queue)
      BY Zenon DEF SlotInv, TypeOK
    <2>2. /\ queue' \in Seq(Requests) /\ Len(queue') = Len(queue) + 1 /\ Len(queue) \in Nat
          /\ queue'[Len(queue) + 1] = r /\ \A i \in 1..Len(queue) : queue'[i] = queue[i]
          /\ DOMAIN queue' = 1..Len(queue')
      <3>1. PICK s, q : s = queue /\ q = queue'
        BY Zenon
      <3>2. s \in Seq(Requests) /\ q = Append(s, r)
        BY Zenon, <1>6, <2>1, <3>1
      <3>3. /\ q \in Seq(Requests) /\ Len(q) = Len(s) + 1 /\ Len(s) \in Nat
            /\ q[Len(s) + 1] = r /\ \A i \in 1..Len(s) : q[i] = s[i]
            /\ DOMAIN q = 1..Len(q)
        BY <3>2, WaiterAdded
      <3> QED
        BY Zenon, <3>1, <3>3
    <2>3. Len(queue') <= QueueMax
      BY <1>6, <2>2, DispatchAssumption DEF MayWait
    <2>4. IsInjective(queue')
      <3>1. \A i, j \in 1..Len(queue) : queue[i] = queue[j] => i = j
        BY <2>1 DEF IsInjective
      <3> SUFFICES ASSUME NEW i \in 1..Len(queue'), NEW j \in 1..Len(queue'), queue'[i] = queue'[j]
                   PROVE  i = j
        BY Zenon, <2>2 DEF IsInjective
      <3> QED
        BY <1>2, <2>2, <3>1
    <2>5. \A c \in Requests : c # r => req'[c] = req[c]
      BY Zenon, <1>6 DEF Moved
    <2>6. LeaseMatches'
      BY Zenon, <1>1, <1>6, <2>5 DEF SlotInv, LeaseMatches, MatchAt, Moved
    <2>7. WaitersQueued' /\ WaitersLocal'
      <3> SUFFICES ASSUME NEW j \in 1..Len(queue')
                   PROVE  /\ req'[queue'[j]].at = "queued" /\ lease'[queue'[j]] = "none"
                          /\ queue'[j] \notin Forwarded
        BY Zenon DEF WaitersQueued, WaitersLocal
      <3>1. CASE j = Len(queue) + 1
        BY Zenon, <1>1, <1>6, <2>2, <3>1 DEF Moved, MayWait
      <3>2. CASE j \in 1..Len(queue)
        <4>1. queue'[j] = queue[j] /\ queue[j] \in Requests /\ queue[j] # r
          BY <1>2, <2>1, <2>2, <3>2
        <4> QED
          BY Zenon, <1>6, <2>5, <3>2, <4>1 DEF SlotInv, WaitersQueued, WaitersLocal
      <3> QED
        BY <2>2, <3>1, <3>2
    <2>8. SlotsCounted' /\ lease' \in [Requests -> Targets \cup {"none"}] /\ inFlight' \in [Backends -> Nat]
      BY Zenon, <1>6 DEF SlotInv, TypeOK, SlotsCounted, Held
    <2> QED
      BY Zenon, <1>6, <2>2, <2>3, <2>4, <2>6, <2>7, <2>8 DEF CoreInv, Moved
  <1> QED
    BY Zenon, <1>3, <1>4, <1>5, <1>6

\* A waiter is served, times out or leaves.
LEMMA CoreWaits ==
    ASSUME SlotInv, WaitersLocal, NEW r \in Requests, Receive(r) \/ Timeout(r) \/ Cancel(r)
    PROVE  CoreInv'
  <1>0. queue \in Seq(Requests) /\ lease[r] \in Targets \cup {"none"} /\ TypeOK
        /\ lease \in [Requests -> Targets \cup {"none"}] /\ inFlight \in [Backends -> Nat]
    BY Zenon DEF SlotInv, TypeOK
  <1>q. ASSUME UNCHANGED <<lease, inFlight>> PROVE SlotsCounted'
    BY ZenonT(40), <1>q DEF SlotInv, SlotsCounted, Held
  <1>1. CASE Receive(r)
    <2>1. \A i \in 1..Len(queue) : queue[i] # r
      BY Zenon, <1>0, <1>1, WaiterAt DEF Receive
    <2>2. Moved(r, IF lease[r] = "none" THEN "done" ELSE Started(lease[r]))
      BY Zenon, <1>0, <1>1, ReceiveMoves
    <2>3. UNCHANGED <<queue, lease, inFlight>>
      BY Zenon, <1>1 DEF Receive, routerVars
    <2>4. MatchAt(r)'
      <3>1. CASE lease[r] = "none"
        BY Zenon, <2>2, <2>3, <3>1 DEF MatchAt, Moved
      <3>2. CASE lease[r] # "none"
        BY Zenon, <1>0, <2>2, <2>3, <3>2, StartedMatches
      <3> QED
        BY <3>1, <3>2
    <2> QED
      BY Zenon, <2>1, <2>2, <2>3, <2>4, CoreStays
  <1>2. CASE Timeout(r)
    <2>1. r \in Range(queue) /\ RemoveWaiter(r) /\ UNCHANGED <<lease, inFlight>> /\ Goes(r, "done")
      BY ZenonT(40), <1>2 DEF Timeout, routerVars
    <2>2. Moved(r, "done")
      BY Zenon, <1>0, <2>1, GoesMoves
    <2>3. lease[r] = "none"
      BY SMTT(30), <1>0, <2>1, WaiterAt DEF SlotInv, WaitersQueued
    <2>4. MatchAt(r)' /\ req' \in [Requests -> Dispatches] /\ \A c \in Requests : c # r => req'[c] = req[c]
      BY Zenon, <2>1, <2>2, <2>3 DEF MatchAt, Moved
    <2> QED
      BY SMTT(30), <1>0, <1>q, <2>1, <2>4, CoreLeaves
  <1>3. CASE Cancel(r)
    <2>1. UNCHANGED <<lease, inFlight>>
      BY Zenon, <1>3 DEF Cancel, routerVars
    <2>2. PICK a \in {"done", "release"} : a = IF lease[r] = "none" THEN "done" ELSE "release"
      BY Zenon
    <2>3. req' = [req EXCEPT ![r].at = a, ![r].served = TRUE]
      BY Zenon, <1>3, <2>2 DEF Cancel
    <2>4. Moved(r, a)
      BY ZenonT(40), <1>0, <2>3, LeavingMoves
    <2>5. MatchAt(r)'
      BY Zenon, <1>0, <2>1, <2>2, <2>4 DEF MatchAt, Moved
    <2>6. CASE r \in Range(queue)
      <3>1. RemoveWaiter(r)
        BY Zenon, <1>3, <2>6 DEF Cancel
      <3>2. req' \in [Requests -> Dispatches] /\ \A c \in Requests : c # r => req'[c] = req[c]
        BY Zenon, <2>4 DEF Moved
      <3> QED
        BY <1>0, <1>q, <2>1, <2>5, <2>6, <3>1, <3>2, CoreLeaves
    <2>7. CASE r \notin Range(queue)
      <3>1. UNCHANGED queue
        BY Zenon, <1>3, <2>7 DEF Cancel
      <3>2. \A i \in 1..Len(queue) : queue[i] # r
        BY Zenon, <1>0, <2>7, WaiterAt
      <3> QED
        BY <2>1, <2>4, <2>5, <3>1, <3>2, CoreStays
    <2> QED
      BY Zenon, <2>6, <2>7
  <1> QED
    BY Zenon, <1>1, <1>2, <1>3

\* Attempts, releases and retries.
LEMMA CoreAttempts ==
    ASSUME SlotInv, WaitersLocal, NEW r \in Requests,
           \/ EndLocal(r) \/ Arrive(r) \/ EndPeer(r) \/ FailPeer(r) \/ Refused(r)
           \/ Release(r) \/ Wake(r) \/ Retry(r)
    PROVE  CoreInv'
  <1>0. Counting /\ TypeOK /\ LeaseMatches /\ SlotsCounted /\ MatchAt(r)
    BY Zenon DEF SlotInv, LeaseMatches
  <1>q. req[r].at # "queued"
    BY ZenonT(40) DEF EndLocal, Arrive, EndPeer, FailPeer, Refused, Release, Wake, Retry
  <1>w. \A i \in 1..Len(queue) : queue[i] # r
    BY SMTT(30), <1>q, NotWaiting
  <1>1. CASE EndLocal(r)
    <2>1. Moved(r, "wake") /\ queue' = queue
      BY ZenonT(40), <1>0, <1>1, EndLocalMoves DEF EndLocal
    <2>2. lease[r] \in Backends
      BY ZenonT(40), <1>0, <1>1 DEF MatchAt, EndLocal
    <2>3. /\ lease' = [lease EXCEPT ![r] = "none"]
          /\ inFlight' = IF lease[r] \in Backends
                         THEN [inFlight EXCEPT ![lease[r]] = @ - 1] ELSE inFlight
      BY ZenonT(40), <1>1, <2>2 DEF EndLocal
    <2>4. /\ lease' \in [Requests -> Targets \cup {"none"}] /\ inFlight' \in [Backends -> Nat]
          /\ lease'[r] = "none" /\ \A c \in Requests : c # r => lease'[c] = lease[c]
          /\ SlotsCounted'
      BY ZenonT(40), <1>0, <2>3, FreedSlot
    <2>5. MatchAt(r)'
      BY <2>1, <2>4 DEF MatchAt, Moved
    <2> QED
      BY ZenonT(40), <1>w, <2>1, <2>4, <2>5, CoreMoves
  <1>2. CASE Arrive(r)
    <2>1. Moved(r, "there") /\ UNCHANGED <<queue, lease, inFlight>> /\ req[r].at = "going"
      <3>1. Goes(r, "there") /\ UNCHANGED <<queue, lease, inFlight>> /\ req[r].at = "going"
        BY ZenonT(40), <1>2 DEF Arrive, routerVars
      <3>2. Moved(r, "there")
        BY ZenonT(40), <1>0, <3>1, GoesMoves
      <3> QED
        BY Zenon, <3>1, <3>2
    <2>2. MatchAt(r)'
      BY ZenonT(40), <1>0, <2>1, RouterAssumption DEF MatchAt, Moved
    <2> QED
      BY Zenon, <1>w, <2>1, <2>2, CoreStays
  <1>3. CASE EndPeer(r)
    <2>1. req' = [req EXCEPT ![r].at = "release", ![r].served = TRUE]
      BY Zenon, <1>3 DEF EndPeer
    <2>2. Moved(r, "release") /\ UNCHANGED <<queue, lease, inFlight>> /\ req[r].at \in {"going", "there"}
      BY ZenonT(40), <1>0, <1>3, <2>1, LeavingMoves DEF EndPeer, routerVars
    <2>3. MatchAt(r)'
      BY <1>0, <2>2 DEF MatchAt, Moved, Targets
    <2> QED
      BY ZenonT(40), <1>w, <2>2, <2>3, CoreStays
  <1>4. CASE FailPeer(r)
    <2>1. Moved(r, "refused") /\ UNCHANGED <<queue, lease, inFlight>> /\ req[r].at \in {"going", "there"}
      BY ZenonT(40), <1>0, <1>4, FailPeerMoves DEF FailPeer
    <2>2. MatchAt(r)'
      BY <1>0, <2>1 DEF MatchAt, Moved
    <2> QED
      BY ZenonT(40), <1>w, <2>1, <2>2, CoreStays
  <1>5. CASE Refused(r)
    <2>1. Moved(r, "release") /\ UNCHANGED <<queue, lease, inFlight>> /\ req[r].at = "refused"
      BY Zenon, <1>0, <1>5, GoesMoves DEF Refused
    <2>2. MatchAt(r)'
      BY SMTT(30), <1>0, <2>1 DEF MatchAt, Moved, Targets
    <2> QED
      BY ZenonT(40), <1>w, <2>1, <2>2, CoreStays
  <1>6. CASE Release(r)
    <2>1. Moved(r, "wake") /\ queue' = queue
      BY ZenonT(40), <1>0, <1>6, GoesMoves DEF Release
    <2>2. /\ lease' = [lease EXCEPT ![r] = "none"]
          /\ inFlight' = IF lease[r] \in Backends
                         THEN [inFlight EXCEPT ![lease[r]] = @ - 1] ELSE inFlight
      BY ZenonT(40), <1>6 DEF Release
    <2>3. /\ lease' \in [Requests -> Targets \cup {"none"}] /\ inFlight' \in [Backends -> Nat]
          /\ lease'[r] = "none" /\ \A c \in Requests : c # r => lease'[c] = lease[c]
          /\ SlotsCounted'
      BY ZenonT(40), <1>0, <2>2, FreedSlot
    <2>4. MatchAt(r)'
      BY Zenon, <2>1, <2>3 DEF MatchAt, Moved
    <2> QED
      BY Zenon, <1>w, <2>1, <2>3, <2>4, CoreMoves
  <1>7. CASE Wake(r)
    <2>1. PICK a \in {"done", "next"} : a = IF req[r].served THEN "done" ELSE "next"
      BY Zenon
    <2>2. Moved(r, a) /\ UNCHANGED <<queue, lease, inFlight>> /\ req[r].at = "wake"
      BY ZenonT(40), <1>0, <1>7, <2>1, GoesMoves DEF Wake, routerVars
    <2>3. MatchAt(r)'
      BY ZenonT(40), <1>0, <2>2 DEF MatchAt, Moved
    <2> QED
      BY ZenonT(40), <1>w, <2>2, <2>3, CoreStays
  <1>8. CASE Retry(r)
    <2>1. queue' = queue /\ lease[r] = "none"
      BY Zenon, <1>0, <1>8 DEF Retry, MatchAt
    <2>2. CASE \E pick \in Pick(r, req[r].tried, report) :
                    pick \in Targets /\ Take(r, pick) /\ Moved(r, Started(pick))
      BY ZenonT(40), <1>w, <2>1, <2>2, CoreTakes
    <2>3. CASE /\ \E a \in {"done", "final"} : Moved(r, a)
               /\ UNCHANGED <<lease, inFlight>>
      <3>1. PICK a \in {"done", "final"} : Moved(r, a)
        BY Zenon, <2>3
      <3>2. MatchAt(r)'
        BY Zenon, <2>1, <2>3, <3>1 DEF MatchAt, Moved
      <3> QED
        BY Zenon, <1>w, <2>1, <2>3, <3>1, <3>2, CoreStays
    <2> QED
      BY Zenon, <1>0, <1>8, <2>2, <2>3, RetryMoves
  <1> QED
    BY <1>1, <1>2, <1>3, <1>4, <1>5, <1>6, <1>7, <1>8

\* One waiter of a scan.
LEMMA CoreScan ==
    ASSUME SlotInv, WaitersLocal, ScanInOrder, ScanWaiter
    PROVE  CoreInv'
  <1>0. Counting /\ TypeOK /\ LeaseMatches /\ SlotsCounted /\ scan.on /\ scan.todo # <<>>
    BY Zenon DEF SlotInv, ScanWaiter
  <1>w. PICK w : w = Head(scan.todo)
    BY Zenon
  <1>1. w \in Requests /\ w \in Range(queue) /\ queue \in Seq(Requests)
    BY Zenon, <1>0, <1>w, ScanAt DEF TypeOK
  <1>2. req[w].at = "queued" /\ lease[w] = "none"
    BY <1>1, WaiterAt DEF SlotInv, WaitersQueued
  <1>3. req' = req /\ req' \in [Requests -> Dispatches]
    BY Zenon, <1>0 DEF ScanWaiter, TypeOK
  <1>4. \/ UNCHANGED <<queue, lease, inFlight>>
        \/ /\ RemoveWaiter(w)
           /\ \E pick \in Pick(w, {}, scan.reps) :
                    \/ pick \in Targets /\ Take(w, pick)
                    \/ pick \notin Targets /\ UNCHANGED <<lease, inFlight>>
    BY ZenonT(40), <1>0, <1>w, ScanWaiterMoves
  <1>5. CASE UNCHANGED <<queue, lease, inFlight>>
    BY Zenon, <1>3, <1>5, CoreSame
  <1>6. CASE RemoveWaiter(w) /\ UNCHANGED <<lease, inFlight>>
    <2>1. MatchAt(w)'
      BY Zenon, <1>2, <1>3, <1>6 DEF MatchAt
    <2>2. SlotsCounted' /\ lease' \in [Requests -> Targets \cup {"none"}] /\ inFlight' \in [Backends -> Nat]
      BY Zenon, <1>6 DEF SlotInv, TypeOK, SlotsCounted, Held
    <2> QED
      BY Zenon, <1>1, <1>3, <1>6, <2>1, <2>2, CoreLeaves
  <1>7. CASE RemoveWaiter(w) /\ \E pick \in Pick(w, {}, scan.reps) : pick \in Targets /\ Take(w, pick)
    <2>1. PICK pick \in Pick(w, {}, scan.reps) : pick \in Targets /\ Take(w, pick)
      BY Zenon, <1>7
    <2>2. /\ lease' \in [Requests -> Targets \cup {"none"}] /\ inFlight' \in [Backends -> Nat]
          /\ \A c \in Requests : c # w => lease'[c] = lease[c]
          /\ SlotsCounted'
      BY Zenon, <1>0, <1>1, <1>2, <2>1, TakenSlot
    <2>3. MatchAt(w)'
      BY Zenon, <1>2, <1>3 DEF MatchAt
    <2> QED
      BY Zenon, <1>1, <1>3, <1>7, <2>2, <2>3, CoreLeaves
  <1> QED
    BY Zenon, <1>4, <1>5, <1>6, <1>7

\* Every step.
LEMMA CoreStep ==
    ASSUME SlotInv, WaitersLocal, ScanInOrder, Next
    PROVE  CoreInv'
  <1>1. CASE \E r \in Requests : Acquire(r)
    BY Zenon, <1>1, CoreAcquire
  <1>2. CASE \E r \in Requests : Receive(r) \/ Timeout(r) \/ Cancel(r)
    BY Zenon, <1>2, CoreWaits
  <1>3. CASE \E r \in Requests : \/ EndLocal(r) \/ Arrive(r) \/ EndPeer(r) \/ FailPeer(r) \/ Refused(r)
                                 \/ Release(r) \/ Wake(r) \/ Retry(r)
    BY Zenon, <1>3, CoreAttempts
  <1>4. CASE ScanWaiter
    BY Zenon, <1>4, CoreScan
  <1>5. CASE ScanEnd \/ Tick \/ ChangeLocal
             \/ \E p \in Peers : \/ SendPoll(p) \/ BuildReport(p) \/ AcceptReport(p) \/ WakeReport(p)
                                 \/ FailPoll(p) \/ AgeReport(p) \/ Forget(p) \/ Join(p)
    <2>1. UNCHANGED <<req, lease, inFlight, queue>>
      BY Zenon, <1>5 DEF ScanEnd, Tick, ChangeLocal, SendPoll, BuildReport, AcceptReport, WakeReport,
                  FailPoll, AgeReport, Forget, Join, routerVars
    <2> QED
      BY Zenon, <2>1, CoreSame
  <1> QED
    BY Zenon, <1>1, <1>2, <1>3, <1>4, <1>5 DEF Next

-----------------------------------------------------------------------------
(* Reports and polls keep their types.                                     *)

\* A poll ends, or waits only for its wake.
LEMMA PollEnds ==
    ASSUME TypeOK, NEW p \in Peers, NEW s \in {NoPoll, [at |-> "wake"]},
           poll' = [poll EXCEPT ![p] = s]
    PROVE  /\ poll' \in [Peers -> PollStates]
           /\ poll'[p].at \in {"idle", "wake"} /\ \A q \in Peers : q # p => poll'[q] = poll[q]
  <1>1. poll \in [Peers -> PollStates]
    BY Zenon, ScanKinds
  <1>2. s \in PollStates /\ s.at \in {"idle", "wake"}
    BY SMTT(30) DEF PollStates, NoPoll
  <1> QED
    BY Zenon, <1>1, <1>2

\* The actions that leave the reports, the polls and the missed ones alone.
BooksKept ==
    \/ \E r \in Requests : \/ Acquire(r) \/ Receive(r) \/ Timeout(r) \/ Cancel(r) \/ EndLocal(r)
                           \/ Arrive(r) \/ EndPeer(r) \/ Wake(r) \/ Retry(r)
    \/ ScanWaiter \/ ScanEnd \/ Tick \/ ChangeLocal
    \/ \E p \in Peers : Join(p)

\* They do leave them alone.
LEMMA BooksKeptSame ==
    ASSUME BooksKept
    PROVE  report' = report /\ poll' = poll /\ missed' = missed
  BY ZenonT(40) DEF BooksKept, Acquire, Receive, Timeout, Cancel, EndLocal, Arrive, EndPeer, Wake, Retry,
         ScanWaiter, ScanEnd, Tick, ChangeLocal, Join, routerVars

\* Reports, polls and the missed ones keep their types.
LEMMA BooksTyped ==
    ASSUME SlotInv, Next
    PROVE  /\ report' \in [Peers -> ReportStates] /\ poll' \in [Peers -> PollStates]
           /\ missed' \subseteq Requests
  <1>0. /\ Counting /\ TypeOK /\ report \in [Peers -> ReportStates] /\ poll \in [Peers -> PollStates]
        /\ missed \subseteq Requests
    BY Zenon, ScanKinds DEF SlotInv, TypeOK
  <1>1. CASE BooksKept
    BY Zenon, <1>0, <1>1, BooksKeptSame
  <1>2. ASSUME NEW r \in Requests, FailPeer(r) \/ Refused(r) PROVE lease[r] \in Peers
    BY Zenon, <1>2 DEF SlotInv, LeaseMatches, MatchAt, FailPeer, Refused
  <1>3. ASSUME NEW r \in Requests, FailPeer(r)
        PROVE  report' \in [Peers -> ReportStates] /\ poll' \in [Peers -> PollStates] /\ missed' = missed
    <2>1. PICK p \in Peers : p = lease[r]
      BY Zenon, <1>2, <1>3
    <2>2. /\ report[p].lists => report' = [report EXCEPT ![p].unaware = @ \cup {r}]
          /\ ~report[p].lists => report' = report
      BY Zenon, <1>3, <2>1 DEF FailPeer
    <2>3. poll' = IF poll[p].at = "built" THEN [poll EXCEPT ![p].unaware = @ \cup {r}] ELSE poll
      BY Zenon, <1>3, <2>1 DEF FailPeer
    <2>4. missed' = missed
      BY Zenon, <1>3, <2>1 DEF FailPeer
    <2>5. report' \in [Peers -> ReportStates]
      BY <1>0, <2>2, FailPeerReport
    <2>6. poll' \in [Peers -> PollStates]
      BY ZenonT(40), <1>0, <2>3, FailPeerPoll
    <2> QED
      BY Zenon, <2>4, <2>5, <2>6
  <1>4. ASSUME NEW r \in Requests, Refused(r)
        PROVE  report' \in [Peers -> ReportStates] /\ poll' \in [Peers -> PollStates] /\ missed' = missed
    <2>1. PICK p \in Peers : p = lease[r]
      BY Zenon, <1>2, <1>4
    <2>2. /\ report[p].lists => report' = [report EXCEPT ![p].sentAfter = FALSE]
          /\ ~report[p].lists => report' = report
      BY Zenon, <1>4, <2>1 DEF Refused
    <2>3. poll' = IF poll[p].at \in {"sent", "built"} THEN [poll EXCEPT ![p].sentAfter = FALSE] ELSE poll
      BY Zenon, <1>4, <2>1 DEF Refused
    <2>4. missed' = missed
      BY Zenon, <1>4, <2>1 DEF Refused
    <2>5. report' \in [Peers -> ReportStates]
      BY ZenonT(40), <1>0, <2>2, RefusedReport
    <2>6. poll' \in [Peers -> PollStates]
      BY ZenonT(40), <1>0, <2>3, RefusedPoll
    <2> QED
      BY Zenon, <2>4, <2>5, <2>6
  <1>5. ASSUME NEW r \in Requests, Release(r)
        PROVE  /\ report' \in [Peers -> ReportStates] /\ poll' \in [Peers -> PollStates]
               /\ missed' \subseteq Requests
    <2>1. report' = Without(report, r) /\ poll' = Without(poll, r) /\ missed' = missed \ {r}
      BY ZenonT(40), <1>5 DEF Release
    <2> QED
      BY Zenon, <1>0, <2>1, WithoutReport, WithoutPoll
  <1>6. ASSUME NEW p \in Peers, SendPoll(p) \/ BuildReport(p)
        PROVE  report' \in [Peers -> ReportStates] /\ poll' \in [Peers -> PollStates] /\ missed' = missed
    <2>1. report' = report /\ missed' = missed
      BY Zenon, <1>6 DEF SendPoll, BuildReport, routerVars
    <2> QED
      BY Zenon, <1>0, <1>6, <2>1, SendPollPoll, BuildReportPoll
  <1>7. ASSUME NEW p \in Peers, WakeReport(p) \/ FailPoll(p)
        PROVE  report' \in [Peers -> ReportStates] /\ poll' \in [Peers -> PollStates] /\ missed' = missed
    <2>1. report' = report /\ missed' = missed /\ poll' = [poll EXCEPT ![p] = NoPoll]
      BY Zenon, <1>7 DEF WakeReport, FailPoll, routerVars
    <2> QED
      BY ZenonT(40), <1>0, <2>1, PollEnds
  <1>8. ASSUME NEW p \in Peers, AcceptReport(p)
        PROVE  /\ report' \in [Peers -> ReportStates] /\ poll' \in [Peers -> PollStates]
               /\ missed' \subseteq Requests
    <2>1. CASE p \in wanted
      <3>1. /\ report' \in [Peers -> ReportStates] /\ poll' = [poll EXCEPT ![p] = [at |-> "wake"]]
            /\ missed' = missed \cup {r \in poll[p].missed : lease[r] = p}
        BY Zenon, <1>0, <1>8, <2>1, AcceptReportReport
      <3>2. poll[p].missed \subseteq Requests
        BY SMTT(30), <1>0, <1>8, PollKinds DEF AcceptReport, BuiltPolls
      <3> QED
        BY ZenonT(40), <1>0, <3>1, <3>2, PollEnds
    <2>2. CASE p \notin wanted
      <3>1. report' = report /\ missed' = missed /\ poll' = [poll EXCEPT ![p] = NoPoll]
        BY ZenonT(40), <1>8, <2>2 DEF AcceptReport
      <3> QED
        BY ZenonT(40), <1>0, <3>1, PollEnds
    <2> QED
      BY Zenon, <2>1, <2>2
  <1>9. ASSUME NEW p \in Peers, AgeReport(p)
        PROVE  report' \in [Peers -> ReportStates] /\ poll' \in [Peers -> PollStates] /\ missed' = missed
    <2>1. /\ report' = [report EXCEPT ![p].fresh = FALSE] /\ report[p].lists
          /\ poll' = poll /\ missed' = missed
      BY Zenon, <1>9 DEF AgeReport
    <2> QED
      BY ZenonT(40), <1>0, <2>1, AgedReport
  <1>10. ASSUME NEW p \in Peers, Forget(p)
         PROVE  report' \in [Peers -> ReportStates] /\ poll' \in [Peers -> PollStates] /\ missed' = missed
    <2>1. report' = [report EXCEPT ![p] = NoReport] /\ poll' = poll /\ missed' = missed
      BY Zenon, <1>10 DEF Forget
    <2> QED
      BY Zenon, <1>0, <2>1 DEF ReportStates
  <1> QED
    BY Zenon, <1>0, <1>1, <1>3, <1>4, <1>5, <1>6, <1>7, <1>8, <1>9, <1>10 DEF Next, BooksKept

\* The node's own state and the set of wanted peers keep their types.
LEMMA PlainTyped ==
    ASSUME TypeOK, Next
    PROVE  /\ localOK' \in BOOLEAN /\ admitting' \in BOOLEAN /\ silent' \in BOOLEAN
           /\ healthy' \subseteq Backends /\ wanted' \subseteq Peers
  <1>1. silent' \in BOOLEAN
    <2>1. ASSUME BeginScan PROVE silent' \in BOOLEAN
      BY <2>1 DEF BeginScan
    <2>2. CASE silent' = silent \/ silent' = TRUE
      BY ZenonT(40), <2>2 DEF TypeOK
    <2> QED
      BY ZenonT(40), <2>1, <2>2 DEF Next, Acquire, Receive, Timeout, Cancel, EndLocal, Arrive, EndPeer, FailPeer, Refused,
         Release, Wake, Retry, ScanWaiter, ScanEnd, Tick, ChangeLocal, SendPoll, BuildReport, AcceptReport,
         WakeReport, FailPoll, AgeReport, Forget, Join
  <1>2. CASE UNCHANGED <<localOK, admitting, healthy>>
    <2>1. wanted' \subseteq Peers
      BY ZenonT(40) DEF TypeOK, Next, Acquire, Receive, Timeout, Cancel, EndLocal, Arrive, EndPeer, FailPeer, Refused,
         Release, Wake, Retry, ScanWaiter, ScanEnd, Tick, ChangeLocal, SendPoll, BuildReport, AcceptReport,
         WakeReport, FailPoll, AgeReport, Forget, Join
    <2> QED
      BY Zenon, <1>1, <1>2, <2>1 DEF TypeOK
  <1>3. CASE ChangeLocal
    BY ZenonT(40), <1>1, <1>3 DEF ChangeLocal, TypeOK
  <1>4. UNCHANGED <<localOK, admitting, healthy>> \/ ChangeLocal
    BY ZenonT(40) DEF Next, Acquire, Receive, Timeout, Cancel, EndLocal, Arrive, EndPeer, FailPeer, Refused,
         Release, Wake, Retry, ScanWaiter, ScanEnd, Tick, SendPoll, BuildReport, AcceptReport,
         WakeReport, FailPoll, AgeReport, Forget, Join, routerVars
  <1> QED
    BY Zenon, <1>2, <1>3, <1>4

-----------------------------------------------------------------------------
(* A scan goes through the queue from front to back.                       *)

\* The end of a sequence has no other elements.
LEMMA SuffixRange ==
    ASSUME NEW q \in Seq(Requests), NEW t \in Seq(Requests), Len(q) - Len(t) >= 0,
           \A i \in 1..Len(t) : t[i] = q[Len(q) - Len(t) + i]
    PROVE  Range(t) \subseteq Range(q)
  <1>1. Len(q) \in Nat /\ Len(t) \in Nat /\ DOMAIN q = 1..Len(q) /\ DOMAIN t = 1..Len(t)
    OBVIOUS
  <1>2. ASSUME NEW i \in 1..Len(t) PROVE t[i] \in Range(q)
    <2>1. Len(q) - Len(t) + i \in 1..Len(q)
      BY <1>1
    <2> QED
      BY Zenon, <1>1, <2>1 DEF Range
  <1> QED
    BY Zenon, <1>1, <1>2 DEF Range

\* A new pass starts at the front.
LEMMA PassStarts ==
    ASSUME TypeOK, queue' = queue, scan'.on, scan'.todo = queue
    PROVE  ScanInOrder'
  <1>1. queue \in Seq(Requests)
    BY Zenon DEF TypeOK
  <1>2. Passed' = 0 /\ Len(queue) \in Nat
    BY <1>1 DEF Passed
  <1> QED
    BY SMTT(30), <1>1, <1>2 DEF ScanInOrder

\* A scan passes a waiter that it leaves in the queue.
LEMMA ScanPasses ==
    ASSUME TypeOK, ScanInOrder, scan.on, scan.todo # <<>>, queue' = queue, NEW pass \in BOOLEAN,
           ScanGoesOn(pass), ~pass => Skipped(Head(scan.todo))
    PROVE  ScanInOrder' /\ Passed' = Passed + 1
  <1>1. PICK w : w = Head(scan.todo)
    BY Zenon
  <1>2. PICK n \in Nat : n = Passed
    BY Zenon, ScanAt
  <1>3. /\ n + 1 \in 1..Len(queue) /\ w = queue[n + 1]
        /\ Len(scan.todo) \in Nat /\ Len(scan.todo) > 0 /\ Len(queue) \in Nat
        /\ Len(Tail(scan.todo)) = Len(scan.todo) - 1
        /\ \A i \in 1..(Len(scan.todo) - 1) : Tail(scan.todo)[i] = scan.todo[i + 1]
    BY Zenon, <1>1, <1>2, ScanAt
  <1>4. scan'.todo = Tail(scan.todo) /\ scan'.on
    BY Zenon DEF ScanGoesOn
  <1>5. n = Len(queue) - Len(scan.todo)
    BY Zenon, <1>2 DEF Passed
  <1>6. Passed' = n + 1
    <2>1. Passed' = Len(queue) - (Len(scan.todo) - 1)
      BY ZenonT(40), <1>3, <1>4 DEF Passed
    <2> QED
      BY <1>3, <1>5, <2>1
  <1>7. /\ \A i \in 1..Len(scan.todo) : scan.todo[i] = queue[n + i]
        /\ \A i \in 1..n : Host[queue[i]] = "any" =>
              scan.unpinnedFull \/ (queue[i] \in Images /\ scan.imagesFull)
    BY Zenon, <1>2 DEF ScanInOrder
  <1>8. ASSUME NEW i \in 1..Len(Tail(scan.todo)) PROVE Tail(scan.todo)[i] = queue[n + 1 + i]
    <2>1. i \in 1..(Len(scan.todo) - 1) /\ i + 1 \in 1..Len(scan.todo) /\ n + (i + 1) = n + 1 + i
      BY <1>3
    <2> QED
      BY Zenon, <1>3, <1>7, <2>1
  <1>9. /\ scan.unpinnedFull => scan'.unpinnedFull
        /\ scan.imagesFull => scan'.imagesFull
    BY ZenonT(40) DEF ScanGoesOn
  <1>10. Host[w] = "any" => scan'.unpinnedFull \/ (w \in Images /\ scan'.imagesFull)
    <2>1. CASE pass
      BY ZenonT(40), <1>1, <2>1 DEF ScanGoesOn
    <2>2. CASE ~pass
      BY Zenon, <1>1, <1>9, <2>2 DEF Skipped
    <2> QED
      BY Zenon, <2>1, <2>2
  <1>11. ASSUME NEW i \in 1..(n + 1), Host[queue[i]] = "any"
         PROVE  scan'.unpinnedFull \/ (queue[i] \in Images /\ scan'.imagesFull)
    <2>1. CASE i = n + 1
      BY Zenon, <1>3, <1>10, <1>11, <2>1
    <2>2. CASE i # n + 1
      <3>1. i \in 1..n
        BY <2>2
      <3> QED
        BY Zenon, <1>7, <1>9, <1>11, <3>1
    <2> QED
      BY Zenon, <2>1, <2>2
  <1>12. Passed' >= 0
    BY <1>6
  <1> QED
    BY Zenon, <1>2, <1>4, <1>6, <1>8, <1>11, <1>12 DEF ScanInOrder

\* A scan takes the waiter it looks at out of the queue.
LEMMA ScanServes ==
    ASSUME TypeOK, ScanInOrder, scan.on, scan.todo # <<>>, RemoveWaiter(Head(scan.todo)),
           ScanGoesOn(FALSE)
    PROVE  /\ ScanInOrder' /\ Passed' = Passed /\ queue' \in Seq(Requests)
           /\ \A i \in 1..Passed : queue'[i] = queue[i]
  <1>2. PICK n \in Nat : n = Passed
    BY Zenon, ScanAt
  <1>3. /\ n + 1 \in 1..Len(queue) /\ Head(scan.todo) = queue[n + 1]
        /\ Len(scan.todo) \in Nat /\ Len(scan.todo) > 0 /\ Len(queue) \in Nat
        /\ Len(Tail(scan.todo)) = Len(scan.todo) - 1
        /\ \A i \in 1..(Len(scan.todo) - 1) : Tail(scan.todo)[i] = scan.todo[i + 1]
    BY Zenon, <1>2, ScanAt
  <1>4. /\ queue' \in Seq(Requests) /\ Len(queue') = Len(queue) - 1
        /\ \A j \in 1..Len(queue') : queue'[j] = IF j < n + 1 THEN queue[j] ELSE queue[j + 1]
    BY ZenonT(40), <1>3, WaiterRemoved DEF TypeOK
  <1>5. n = Len(queue) - Len(scan.todo)
    BY Zenon, <1>2 DEF Passed
  <1>6. scan'.todo = Tail(scan.todo) /\ scan'.on
    BY Zenon DEF ScanGoesOn
  <1>7. Passed' = n
    BY <1>3, <1>4, <1>5, <1>6 DEF Passed
  <1>8. /\ \A i \in 1..Len(scan.todo) : scan.todo[i] = queue[n + i]
        /\ \A i \in 1..n : Host[queue[i]] = "any" =>
              scan.unpinnedFull \/ (queue[i] \in Images /\ scan.imagesFull)
    BY Zenon, <1>2 DEF ScanInOrder
  <1>9. ASSUME NEW i \in 1..Len(Tail(scan.todo)) PROVE Tail(scan.todo)[i] = queue'[n + i]
    <2>1. i \in 1..(Len(scan.todo) - 1) /\ i + 1 \in 1..Len(scan.todo) /\ n + (i + 1) = (n + i) + 1
      BY <1>3
    <2>2. n + i \in 1..Len(queue') /\ ~(n + i < n + 1)
      <3>1. i \in Nat /\ i >= 1 /\ i + 1 <= Len(scan.todo)
        BY <2>1
      <3>2. Len(queue') = Len(queue) - 1 /\ Len(queue) \in Nat /\ Len(scan.todo) \in Nat
        BY Zenon, <1>3, <1>4
      <3>3. PICK a \in Nat, b \in Nat : a = Len(queue) /\ b = Len(scan.todo)
        BY Zenon, <3>2
      <3>4. i \in Nat /\ n = a - b /\ i >= 1 /\ i + 1 <= b /\ Len(queue') = a - 1
        BY Zenon, <1>5, <3>1, <3>2, <3>3
      <3> QED
        BY <3>4
    <2> QED
      BY Zenon, <1>3, <1>4, <1>8, <2>1, <2>2
  <1>10. ASSUME NEW i \in 1..n PROVE queue'[i] = queue[i]
    <2>1. i \in 1..Len(queue') /\ i < n + 1
      <3>1. n <= Len(queue) - 1 /\ Len(queue') \in Int
        BY <1>3, <1>4
      <3> QED
        BY <1>4, <3>1
    <2> QED
      BY Zenon, <1>4, <2>1
  <1>11. /\ scan.unpinnedFull => scan'.unpinnedFull
         /\ scan.imagesFull => scan'.imagesFull
    BY ZenonT(40) DEF ScanGoesOn
  <1>12. ASSUME NEW i \in 1..n, Host[queue'[i]] = "any"
         PROVE  scan'.unpinnedFull \/ (queue'[i] \in Images /\ scan'.imagesFull)
    BY Zenon, <1>8, <1>10, <1>11, <1>12
  <1>13. Passed' >= 0
    BY <1>7
  <1>14. ScanInOrder'
    BY Zenon, <1>6, <1>7, <1>9, <1>12, <1>13 DEF ScanInOrder
  <1> QED
    BY Zenon, <1>2, <1>4, <1>7, <1>10, <1>14

\* What a step does to the scan in progress.
ScanKept == scan' = scan /\ (~scan.on \/ queue' = queue)
ScanStarts ==
    /\ queue' = queue /\ scan' \in Scans /\ scan'.on /\ scan'.todo = queue
    /\ ~scan'.unpinnedFull /\ ~scan'.imagesFull

\* The actions that leave the scan alone.
LEMMA ScanKeptBy ==
    ASSUME \/ \E r \in Requests : \/ Acquire(r) \/ Receive(r) \/ Timeout(r) \/ Cancel(r) \/ EndLocal(r)
                                  \/ Arrive(r) \/ EndPeer(r) \/ FailPeer(r) \/ Refused(r)
                                  \/ Release(r) \/ Retry(r)
           \/ ChangeLocal
           \/ \E p \in Peers : \/ SendPoll(p) \/ BuildReport(p) \/ AcceptReport(p) \/ FailPoll(p)
                               \/ Forget(p) \/ Join(p)
    PROVE  ScanKept
  BY ZenonT(40) DEF ScanKept, Acquire, Receive, Timeout, Cancel, EndLocal, Arrive, EndPeer, FailPeer, Refused,
         Release, Retry, ChangeLocal, SendPoll, BuildReport, AcceptReport, FailPoll, Forget, Join

\* The actions that begin a scan, if somebody waits.
LEMMA ScanStartsBy ==
    ASSUME TypeOK, Tick \/ (\E r \in Requests : Wake(r)) \/ (\E p \in Peers : WakeReport(p))
    PROVE  /\ ~scan.on /\ BeginScan
           /\ \/ ScanKept /\ queue = <<>> /\ silent' = silent
              \/ ScanStarts /\ queue # <<>> /\ scan'.reps = report /\ silent' = FALSE
  <1>1. ~scan.on /\ BeginScan /\ queue' = queue
    BY Zenon DEF Tick, Wake, WakeReport
  <1> QED
    BY ZenonT(40), <1>1, ScanBegins DEF ScanKept, ScanStarts

\* A scan goes through the queue from front to back.
LEMMA ScanStep ==
    ASSUME SlotInv, ScanInOrder, Next, queue' \in Seq(Requests)
    PROVE  /\ scan' \in {NoScan} \cup Scans /\ ScanInOrder'
           /\ scan'.on => Range(scan'.todo) \subseteq Range(queue')
  <1>0. TypeOK /\ scan \in {NoScan} \cup Scans
    BY Zenon DEF SlotInv, TypeOK
  <1>1. ASSUME ScanKept PROVE scan' \in {NoScan} \cup Scans /\ ScanInOrder'
    BY ZenonT(40), <1>0, <1>1 DEF ScanKept, ScanInOrder, Passed
  <1>2. ASSUME ScanStarts PROVE scan' \in {NoScan} \cup Scans /\ ScanInOrder'
    BY Zenon, <1>0, <1>2, PassStarts DEF ScanStarts
  <1>3. ASSUME Tick \/ (\E r \in Requests : Wake(r)) \/ (\E p \in Peers : WakeReport(p))
        PROVE scan' \in {NoScan} \cup Scans /\ ScanInOrder'
    <2>1. ScanKept \/ ScanStarts
      BY ZenonT(40), <1>0, <1>3, ScanStartsBy
    <2> QED
      BY Zenon, <1>1, <1>2, <2>1
  <1>4. ASSUME ScanWaiter PROVE scan' \in {NoScan} \cup Scans /\ ScanInOrder'
    <2>1. scan.on /\ scan.todo # <<>>
      BY Zenon, <1>4 DEF ScanWaiter
    <2>2. \/ \E pass \in BOOLEAN : /\ queue' = queue /\ ScanGoesOn(pass)
                                   /\ ~pass => Skipped(Head(scan.todo))
          \/ RemoveWaiter(Head(scan.todo)) /\ ScanGoesOn(FALSE)
      BY ZenonT(40), <1>0, <1>4, ScanWaiterMoves
    <2>5. ASSUME NEW pass, ScanGoesOn(pass) PROVE scan' \in Scans
      BY <2>5 DEF ScanGoesOn
    <2>3. CASE \E pass \in BOOLEAN : /\ queue' = queue /\ ScanGoesOn(pass)
                                     /\ ~pass => Skipped(Head(scan.todo))
      <3>1. ScanInOrder'
        BY Zenon, <1>0, <2>1, <2>3, ScanPasses
      <3> QED
        BY Zenon, <2>3, <2>5, <3>1
    <2>4. CASE RemoveWaiter(Head(scan.todo)) /\ ScanGoesOn(FALSE)
      <3>1. ScanInOrder'
        BY <1>0, <2>1, <2>4, ScanServes
      <3> QED
        BY ZenonT(40), <2>4, <2>5, <3>1
    <2> QED
      BY ZenonT(40), <2>2, <2>3, <2>4
  <1>5. ASSUME ScanEnd PROVE scan' \in {NoScan} \cup Scans /\ ScanInOrder'
    <2>1. queue' = queue
      BY Zenon, <1>5 DEF ScanEnd
    <2>2. CASE scan' \in Scans /\ scan'.on /\ scan'.todo = queue
      BY Zenon, <1>0, <2>1, <2>2, PassStarts
    <2>3. CASE scan' = NoScan /\ ~scan'.on
      BY Zenon, <2>3 DEF ScanInOrder
    <2> QED
      BY Zenon, <1>0, <1>5, <2>2, <2>3, ScanEnds
  <1>6. ASSUME NEW p \in Peers, AgeReport(p) PROVE scan' \in {NoScan} \cup Scans /\ ScanInOrder'
    <2>1. queue' = queue
      BY Zenon, <1>6 DEF AgeReport
    <2>2. /\ scan'.on = scan.on /\ scan' \in {NoScan} \cup Scans
          /\ scan.on => /\ scan'.todo = scan.todo /\ scan'.unpinnedFull = scan.unpinnedFull
                        /\ scan'.imagesFull = scan.imagesFull
      BY ZenonT(40), <1>0, <1>6, ScanAges
    <2>3. scan.on => Passed' = Passed
      BY <2>1, <2>2 DEF Passed
    <2> QED
      BY <2>1, <2>2, <2>3 DEF ScanInOrder
  <1>7. scan' \in {NoScan} \cup Scans /\ ScanInOrder'
    BY <1>1, <1>3, <1>4, <1>5, <1>6, ScanKeptBy DEF Next
  <1>8. ASSUME scan'.on PROVE Range(scan'.todo) \subseteq Range(queue')
    <2>1. scan'.todo \in Seq(Requests)
      <3>1. CASE scan' = NoScan
        <4>1. scan'.on = FALSE
          BY Zenon, <3>1 DEF NoScan
        <4> QED
          BY Zenon, <1>8, <4>1
      <3>2. CASE scan' \in Scans
        BY <3>2 DEF Scans
      <3> QED
        BY <1>7, <3>1, <3>2
    <2>2. /\ Len(queue') - Len(scan'.todo) >= 0
          /\ \A i \in 1..Len(scan'.todo) :
                scan'.todo[i] = queue'[Len(queue') - Len(scan'.todo) + i]
      BY ZenonT(40), <1>7, <1>8 DEF ScanInOrder, Passed
    <2> QED
      BY ZenonT(40), <2>1, <2>2, SuffixRange
  <1> QED
    BY Zenon, <1>7, <1>8

\* Slots, types, and the order of the scan.
LEMMA SlotStep ==
    ASSUME SlotInv, WaitersLocal, ScanInOrder, Next
    PROVE  SlotInv' /\ WaitersLocal' /\ ScanInOrder'
  <1>1. CoreInv'
    BY Zenon, CoreStep
  <1>2. /\ scan' \in {NoScan} \cup Scans /\ ScanInOrder'
        /\ scan'.on => Range(scan'.todo) \subseteq Range(queue')
    BY Zenon, <1>1, ScanStep DEF CoreInv
  <1>3. /\ report' \in [Peers -> ReportStates] /\ poll' \in [Peers -> PollStates]
        /\ missed' \subseteq Requests
    BY Zenon, BooksTyped
  <1>4. /\ localOK' \in BOOLEAN /\ admitting' \in BOOLEAN /\ silent' \in BOOLEAN
        /\ healthy' \subseteq Backends /\ wanted' \subseteq Peers
    BY Zenon, PlainTyped DEF SlotInv
  <1>5. TypeOK'
    BY Zenon, <1>1, <1>2, <1>3, <1>4 DEF CoreInv, TypeOK, ReportStates, PollStates
  <1> QED
    BY Zenon, <1>1, <1>2, <1>5 DEF CoreInv, SlotInv
=============================================================================
