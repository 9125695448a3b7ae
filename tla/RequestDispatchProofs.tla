----------------------- MODULE RequestDispatchProofs ------------------------
(***************************************************************************)
(* The theorems on the dispatch of requests, for any requests, backends,   *)
(* peers, slots, pins and preferences: DispatchInv holds at the start, every *)
(* step keeps it, and the properties of RequestDispatch follow.            *)
(***************************************************************************)
EXTENDS DispatchReports, FiniteSetTheorems, WellFoundedInduction

-----------------------------------------------------------------------------
(* The invariant and the theorems.                                         *)

\* Of finitely many candidates one has the most free slots.
LEMMA SomeMostFree ==
    ASSUME NEW D, IsFiniteSet(D), D # {}, NEW free \in [D -> Int]
    PROVE  MostFree(free) # {}
  <1> DEFINE above(t) == {u \in D : free[u] > free[t]}
             tops == {above(t) : t \in D}
  <1>1. tops \subseteq FiniteSubsetsOf(D) /\ tops # {}
    <2>1. \A t \in D : above(t) \in SUBSET D /\ IsFiniteSet(above(t))
      BY Zenon, FS_Subset
    <2>2. \A t \in D : above(t) \in FiniteSubsetsOf(D)
      BY <2>1 DEF FiniteSubsetsOf
    <2> HIDE DEF above
    <2> QED
      BY <2>2
  <1>2. PICK x \in tops : \A y \in tops : ~(<<y, x>> \in StrictSubsetOrdering(D))
    BY ZenonT(40), <1>1, FS_StrictSubsetOrderingWellFounded, WFMin
  <1>3. PICK t \in D : x = above(t)
    OBVIOUS
  <1>4. ASSUME NEW u \in D, free[u] > free[t] PROVE FALSE
    <2>1. above(u) \subseteq above(t) /\ u \in above(t) /\ u \notin above(u)
      BY <1>4
    <2>2. <<above(u), above(t)>> \in StrictSubsetOrdering(D)
      BY <2>1 DEF StrictSubsetOrdering
    <2> QED
      BY SMTT(30), <1>2, <1>3, <2>2
  <1>5. \A u \in D : free[u] <= free[t]
    BY <1>4
  <1> QED
    BY <1>5 DEF MostFree

\* What is used of finite sets holds.
LEMMA CountingHolds == Counting
  <1>1. \A S \in SUBSET Requests : IsFiniteSet(S) /\ Cardinality(S) \in Nat
    BY SMTT(30), RouterAssumption, FS_Subset, FS_CardinalityType
  <1>2. \A S, T \in SUBSET Requests : T \subseteq S => Cardinality(T) <= Cardinality(S)
    BY Zenon, <1>1, FS_Subset
  <1>3. \A S \in SUBSET Requests, r \in Requests : r \notin S => Cardinality(S \cup {r}) = Cardinality(S) + 1
    BY SMTT(30), <1>1, FS_AddElement
  <1>4. ASSUME NEW S \in SUBSET Requests, NEW T \in SUBSET Requests
        PROVE  Cardinality(S \cup T) <= Cardinality(S) + Cardinality(T)
    <2>1. IsFiniteSet(S) /\ IsFiniteSet(T) /\ Cardinality(S) \in Nat /\ Cardinality(T) \in Nat
      BY Zenon, <1>1
    <2>2. Cardinality(S \cup T) = Cardinality(S) + Cardinality(T) - Cardinality(S \cap T)
      BY <2>1, FS_Union
    <2>3. S \cap T \in SUBSET Requests
      BY Zenon
    <2>4. Cardinality(S \cap T) \in Nat
      BY Zenon, <1>1, <2>3
    <2> QED
      BY SMTT(30), <2>1, <2>2, <2>4
  <1>5. ASSUME NEW D \in (SUBSET Backends) \cup (SUBSET Peers), D # {}, NEW free \in [D -> Int]
        PROVE  MostFree(free) # {}
    <2>1. IsFiniteSet(D)
      BY Zenon, RouterAssumption, FS_Subset
    <2> QED
      BY SMTT(30), <1>5, <2>1, SomeMostFree
  <1> QED
    BY Zenon, <1>1, <1>2, <1>3, <1>4, <1>5 DEF Counting

\* A router that has just started.
LEMMA DispatchInvInit ==
    ASSUME Init
    PROVE  DispatchInv
  <1>0. /\ queue = <<>> /\ scan.on = FALSE /\ Len(queue) = 0
        /\ \A r \in Requests : lease[r] = "none" /\ req[r].at = "new"
        /\ \A p \in Peers : report[p].lists = FALSE /\ poll[p].at = "idle"
    BY DEF Init, NoScan, NoReport, NoPoll
  <1>1. TypeOK
    <2>1. queue \in Seq(Requests) /\ Len(queue) <= QueueMax /\ IsInjective(queue)
      BY SMTT(30), <1>0, DispatchAssumption DEF IsInjective
    <2>2. req \in [Requests -> Dispatches]
      BY DispatchAssumption DEF Init, Dispatches
    <2>3. /\ inFlight \in [Backends -> Nat] /\ lease \in [Requests -> Targets \cup {"none"}]
          /\ report \in [Peers -> {NoReport} \cup Reports]
          /\ poll \in [Peers -> {NoPoll, [at |-> "wake"]} \cup SentPolls \cup BuiltPolls]
          /\ scan \in {NoScan} \cup Scans
      BY Zenon DEF Init
    <2>4. /\ localOK \in BOOLEAN /\ admitting \in BOOLEAN /\ silent \in BOOLEAN
          /\ healthy \subseteq Backends /\ wanted \subseteq Peers /\ missed \subseteq Requests
      BY ZenonT(40) DEF Init
    <2> QED
      BY SMTT(30), <1>0, <2>1, <2>2, <2>3, <2>4 DEF TypeOK
  <1>2. LeaseMatches /\ WaitersQueued /\ WaitersLocal /\ ScanInOrder /\ (~Stirred => WaitersBlocked)
    BY <1>0 DEF LeaseMatches, MatchAt, WaitersQueued, WaitersLocal, ScanInOrder, WaitersBlocked
  <1>3. \A t \in Targets : Held(t) = {}
    BY Zenon, <1>0, RouterAssumption DEF Held, Targets
  <1>4. Cardinality({}) = 0 /\ \A t \in Targets : Slots[t] \in Nat
    BY Zenon, FS_EmptySet, RouterAssumption DEF Targets
  <1>5. SlotsCounted
    <2>1. ASSUME NEW b \in Backends
          PROVE  inFlight[b] = 0 /\ Cardinality(Held(b)) = 0 /\ Slots[b] \in Nat
      BY ZenonT(40), <1>3, <1>4 DEF Init, Targets
    <2> QED
      BY SMTT(30), <2>1 DEF SlotsCounted
  <1>6. OverbookedOnlyByMissed
    <2>1. \A p \in Peers : Held(p) \ missed = {}
      BY Zenon, <1>3 DEF Targets
    <2> QED
      BY <1>4, <2>1 DEF OverbookedOnlyByMissed, Targets
  <1>7. CountsInv /\ KnownInv
    BY <1>0 DEF CountsInv, PollsCounted, ReportsCounted, ScanCounted, KnownInv, ReportsKnown,
                PollsKnown, ScanKnown
  <1> QED
    BY SMTT(30), <1>1, <1>2, <1>5, <1>6, <1>7, CountingHolds DEF DispatchInv, SlotInv

\* A step that changes nothing.
LEMMA DispatchInvSame ==
    ASSUME DispatchInv, UNCHANGED vars
    PROVE  DispatchInv'
  <1>0. /\ UNCHANGED <<localOK, admitting, healthy, inFlight, report, lease, queue, req, scan, poll,
                       wanted, silent, missed>>
    BY DEF vars, routerVars
  <1>1. SlotInv' /\ WaitersLocal' /\ ScanInOrder'
    <2>1. TypeOK'
      BY SMTT(30), <1>0 DEF DispatchInv, SlotInv, TypeOK
    <2>2. LeaseMatches' /\ WaitersQueued' /\ WaitersLocal' /\ ScanInOrder'
      BY ZenonT(40), <1>0 DEF DispatchInv, SlotInv, LeaseMatches, MatchAt, WaitersQueued, WaitersLocal, ScanInOrder, Passed
    <2>3. SlotsCounted'
      BY <1>0 DEF DispatchInv, SlotInv, SlotsCounted, Held
    <2> QED
      BY SMTT(30), <2>1, <2>2, <2>3, CountingHolds DEF SlotInv
  <1>2. CountsInv' /\ OverbookedOnlyByMissed'
    BY <1>0 DEF DispatchInv, CountsInv, PollsCounted, ReportsCounted, ScanCounted, CountedIn, Held,
                OverbookedOnlyByMissed
  <1>3. KnownInv'
    BY <1>0 DEF DispatchInv, KnownInv, ReportsKnown, PollsKnown, ScanKnown, RefusalKnown
  <1>4. (~Stirred => WaitersBlocked)'
    <2>1. Stirred' = Stirred
      BY SMTT(30), <1>0 DEF Stirred
    <2>2. \A c : Blocked(c, report)' = Blocked(c, report)
      BY SMTT(30), <1>0 DEF Blocked, LocalCandidates, PeerCandidates, LocalFree, PeerFree, ReservedLocked,
                  ImageClass, ImageAnswers, Serves
    <2>3. WaitersBlocked' = WaitersBlocked
      BY ZenonT(40), <1>0, <2>2 DEF WaitersBlocked, SameReport, Passed
    <2> QED
      BY Zenon, <2>1, <2>3 DEF DispatchInv
  <1> QED
    BY Zenon, <1>1, <1>2, <1>3, <1>4 DEF DispatchInv

\* Every step keeps the invariant.
LEMMA DispatchInvNext ==
    ASSUME DispatchInv, [Next]_vars
    PROVE  DispatchInv'
  <1>1. CASE Next
    <2>1. SlotInv' /\ WaitersLocal' /\ ScanInOrder'
      BY Zenon, <1>1, SlotStep DEF DispatchInv
    <2>2. CountsInv'
      BY SMTT(30), <1>1, CountsStep DEF DispatchInv
    <2>3. OverbookedOnlyByMissed'
      BY Zenon, <1>1, OverbookedStep DEF DispatchInv
    <2>4. KnownInv'
      BY <1>1, KnownStep DEF DispatchInv
    <2>5. (~Stirred => WaitersBlocked)'
      BY Zenon, <1>1, <2>1, WakeStep DEF DispatchInv, SlotInv
    <2> QED
      BY SMTT(30), <2>1, <2>2, <2>3, <2>4, <2>5 DEF DispatchInv
  <1>2. CASE UNCHANGED vars
    BY <1>2, DispatchInvSame
  <1> QED
    BY Zenon, <1>1, <1>2

\* The router, its queue and the requests keep DispatchInv in every step of
\* handlers, scans, polls and members.
THEOREM DispatchInvariant == Spec => []DispatchInv
  <1>1. Init => DispatchInv
    BY DispatchInvInit
  <1>2. DispatchInv /\ [Next]_vars => DispatchInv'
    BY Zenon, DispatchInvNext
  <1> QED
    BY <1>1, <1>2, PTL DEF Spec

\* Lease, Release and the queue: types hold, every slot in flight is held by
\* one request, no backend runs more than its slots, and neither a waiter nor an
\* answered request holds one, however timeout, cancellation and dispatch meet.
THEOREM SlotsSafe == Spec => []SlotsTyped
  <1>1. DispatchInv => SlotsTyped
    <2> SUFFICES ASSUME DispatchInv PROVE SlotsTyped
      BY Zenon
    <2>1. ASSUME NEW r \in Requests, r \in Range(queue) PROVE lease[r] = "none"
      BY SMTT(30), <2>1, WaiterAt DEF DispatchInv, SlotInv, TypeOK, WaitersQueued
    <2> QED
      BY <2>1 DEF DispatchInv, SlotInv, SlotsTyped, SlotsAccounted, SlotsCounted, LeaseMatches, MatchAt
  <1> QED
    BY <1>1, DispatchInvariant, PTL

\* reservedLocked: a peer has more forwards of this node than slots only by
\* forwards that were still on their way when it built a report.
THEOREM OverbookingSafe == Spec => []OverbookedOnlyByMissed
  <1>1. DispatchInv => OverbookedOnlyByMissed
    BY SMTT(30) DEF DispatchInv
  <1> QED
    BY <1>1, DispatchInvariant, PTL

\* Wake: while no wake is on its way and no change was silent, no waiter could
\* be given a slot.
THEOREM WakeupsSafe == Spec => []NoLostWakeup
  <1>1. DispatchInv => NoLostWakeup
    <2> SUFFICES ASSUME DispatchInv, Quiet, NEW w \in Range(queue) PROVE Pick(w, {}, report) \cap Targets = {}
      BY DEF NoLostWakeup
    <2>1. WaitersBlocked /\ ~scan.on
      BY DEF DispatchInv, Quiet, Stirred
    <2>2. PICK i \in 1..Len(queue) : queue[i] = w
      BY Zenon, WaiterAt DEF DispatchInv, SlotInv, TypeOK
    <2>3. Blocked(w, report)
      BY SMTT(30), <2>1, <2>2 DEF WaitersBlocked
    <2> QED
      BY Zenon, <2>3, BlockedPick
  <1> QED
    BY <1>1, DispatchInvariant, PTL

\* Refused: no request goes back to a peer on the strength of a report the
\* peer built before it refused the request.
THEOREM RefusalsRespected == Spec => NotSentBack
  <1>1. ASSUME DispatchInv, [Next]_vars
        PROVE  [\A r \in Requests, p \in Peers :
                    lease[r] # p /\ lease'[r] = p
                    => r \notin (IF scan.on THEN scan.reps[p] ELSE report[p]).unaware]_vars
    <2>1. CASE Next
      BY SMTT(30), <1>1, <2>1, SentBackStep DEF DispatchInv
    <2> QED
      BY Zenon, <1>1, <2>1
  <1> QED
    BY <1>1, DispatchInvariant, PTL DEF Spec, NotSentBack

\* dispatchLocked: no waiter is given a slot while an earlier one that could
\* use it waits, both unpinned.
THEOREM ScanIsFifo == Spec => DispatchFifo
  <1>1. ASSUME DispatchInv, [Next]_vars
        PROVE  [\A i, j \in 1..Len(queue) :
                    LET e == queue[i]
                        l == queue[j]
                    IN  /\ i < j /\ Host[e] = "any" /\ Host[l] = "any"
                        /\ e \in Images => l \in Images
                        /\ lease[l] = "none" /\ lease'[l] # "none"
                        => e \notin Range(queue')]_vars
    <2>1. CASE Next
      BY Zenon, <1>1, <2>1, FifoStep DEF DispatchInv
    <2> QED
      BY Zenon, <1>1, <2>1
  <1> QED
    BY <1>1, DispatchInvariant, PTL DEF Spec, DispatchFifo
=============================================================================
