--------------------------- MODULE LoadGateProofs ---------------------------
(* Proofs about the load gate, for any set of tickets.                     *)
EXTENDS LoadGate, TLAPS

-----------------------------------------------------------------------------
(* What cutting one entry out of the queue does to it.                     *)

\* Removing a ticket that is not queued changes nothing.
LEMMA WithoutAbsent ==
    ASSUME NEW q, NEW t, \A i \in 1..Len(q) : q[i] # t
    PROVE  Without(q, t) = q
  BY Zenon DEF Without

\* The queue q with its i-th entry cut out.
Cut(q, i) == [j \in 1..(Len(q) - 1) |-> IF j < i THEN q[j] ELSE q[j + 1]]

\* Removing a queued ticket closes the gap it leaves.
LEMMA WithoutShape ==
    ASSUME NEW S, NEW q \in Seq(S), NEW t, \E p \in 1..Len(q) : q[p] = t
    PROVE  \E i \in 1..Len(q) : q[i] = t /\ Without(q, t) = Cut(q, i)
  <1> DEFINE i == CHOOSE j \in 1..Len(q) : q[j] = t
  <1>1. i \in 1..Len(q) /\ q[i] = t
    BY Zenon
  <1>2. Without(q, t) = Cut(q, i)
    BY Zenon DEF Without, Cut
  <1> QED
    BY ZenonT(40), <1>1, <1>2

\* The queue without t is a queue; its entries keep their order; an entry
\* other than t stays; and t is gone when the entries were distinct.
LEMMA WithoutProps ==
    ASSUME NEW S, NEW q \in Seq(S), NEW t,
           \A i, j \in 1..Len(q) : i < j => q[i] # q[j]
    PROVE  /\ Without(q, t) \in Seq(S)
           /\ \A i \in 1..Len(Without(q, t)) :
                 \E k \in 1..Len(q) : Without(q, t)[i] = q[k] /\ q[k] # t
           /\ \A k \in 1..Len(q) : q[k] # t =>
                 \E i \in 1..Len(Without(q, t)) : Without(q, t)[i] = q[k]
           /\ \A i, j \in 1..Len(Without(q, t)) : i < j =>
                 \E k, l \in 1..Len(q) :
                    k < l /\ Without(q, t)[i] = q[k] /\ Without(q, t)[j] = q[l]
  <1>1. CASE \A i \in 1..Len(q) : q[i] # t
    BY Zenon, <1>1, WithoutAbsent
  <1>2. CASE \E i \in 1..Len(q) : q[i] = t
    <2> DEFINE w == Without(q, t)
    <2>1. PICK i \in 1..Len(q) : q[i] = t /\ w = Cut(q, i)
      BY Zenon, <1>2, WithoutShape
    <2> HIDE DEF w
    <2>2. Len(q) \in Nat /\ Len(q) - 1 \in Nat /\ \A j \in 1..Len(q) : q[j] \in S
      OBVIOUS
    <2>3. w \in Seq(S) /\ Len(w) = Len(q) - 1
      <3>1. w \in [1..(Len(q) - 1) -> S]
        BY <2>1, <2>2 DEF Cut
      <3> QED
        BY <3>1, <2>2
    <2>4. \A j \in 1..Len(w) : w[j] = IF j < i THEN q[j] ELSE q[j + 1]
      BY Zenon, <2>1, <2>3 DEF Cut
    <2>5. \A j \in 1..Len(w) : \E k \in 1..Len(q) : w[j] = q[k] /\ q[k] # t
      <3> TAKE j \in 1..Len(w)
      <3>1. CASE j < i
        BY SMTT(30), <3>1, <2>1, <2>2, <2>3, <2>4
      <3>2. CASE ~(j < i)
        <4>1. j + 1 \in 1..Len(q) /\ i < j + 1
          BY <3>2, <2>2, <2>3
        <4>2. w[j] = q[j + 1] /\ q[j + 1] # t
          BY Zenon, <4>1, <3>2, <2>1, <2>4
        <4> QED
          BY Zenon, <4>1, <4>2
      <3> QED
        BY Zenon, <3>1, <3>2
    <2>6. \A k \in 1..Len(q) : q[k] # t => \E j \in 1..Len(w) : w[j] = q[k]
      <3> SUFFICES ASSUME NEW k \in 1..Len(q), q[k] # t
                   PROVE  \E j \in 1..Len(w) : w[j] = q[k]
        BY Zenon
      <3>1. CASE k < i
        <4>1. k \in 1..Len(w)
          BY <3>1, <2>2, <2>3
        <4> QED
          BY Zenon, <4>1, <3>1, <2>4
      <3>2. CASE ~(k < i)
        <4>1. k > i /\ k - 1 \in 1..Len(w) /\ ~(k - 1 < i) /\ (k - 1) + 1 = k
          BY <3>2, <2>1, <2>2, <2>3
        <4> QED
          BY ZenonT(40), <4>1, <2>4
      <3> QED
        BY Zenon, <3>1, <3>2
    <2>7. \A j, m \in 1..Len(w) : j < m =>
            \E k, l \in 1..Len(q) : k < l /\ w[j] = q[k] /\ w[m] = q[l]
      <3> SUFFICES ASSUME NEW j \in 1..Len(w), NEW m \in 1..Len(w), j < m
                   PROVE  \E k, l \in 1..Len(q) : k < l /\ w[j] = q[k] /\ w[m] = q[l]
        BY Zenon
      <3> DEFINE at(n) == IF n < i THEN n ELSE n + 1
      <3>1. at(j) \in 1..Len(q) /\ at(m) \in 1..Len(q) /\ at(j) < at(m)
        BY <2>2, <2>3
      <3>2. w[j] = q[at(j)] /\ w[m] = q[at(m)]
        BY Zenon, <2>4
      <3> QED
        BY Zenon, <3>1, <3>2
    <2> QED
      BY ZenonT(40), <2>3, <2>5, <2>6, <2>7 DEF w
  <1> QED
    BY Zenon, <1>1, <1>2

\* Two entries of the queue without t stand in the order they had with t in it.
LEMMA WithoutOrder ==
    ASSUME NEW S, NEW q \in Seq(S), NEW t,
           \A i, j \in 1..Len(q) : i < j => q[i] # q[j],
           NEW a \in 1..Len(Without(q, t)), NEW b \in 1..Len(Without(q, t)), a < b
    PROVE  \E k, l \in 1..Len(q) :
              k < l /\ Without(q, t)[a] = q[k] /\ Without(q, t)[b] = q[l]
  BY WithoutProps

\* Removing a ticket keeps the entries of the queue distinct.
LEMMA WithoutDistinct ==
    ASSUME NEW S, NEW q \in Seq(S), NEW t,
           \A i, j \in 1..Len(q) : i < j => q[i] # q[j]
    PROVE  \A i, j \in 1..Len(Without(q, t)) : i < j => Without(q, t)[i] # Without(q, t)[j]
  <1> DEFINE w == Without(q, t)
  <1>1. \A i, j \in 1..Len(w) : i < j =>
           \E k, l \in 1..Len(q) : k < l /\ w[i] = q[k] /\ w[j] = q[l]
    BY WithoutProps
  <1> HIDE DEF w
  <1>2. \A i, j \in 1..Len(w) : i < j => w[i] # w[j]
    BY <1>1
  <1> QED
    BY Zenon, <1>2 DEF w

-----------------------------------------------------------------------------
(* The inductive invariant.  Mutual exclusion of the loading owners rests  *)
(* on the gate's fields agreeing with the owners' control states.          *)

GateInv ==
    /\ TypeOK
    /\ holder = NoTicket => queue = <<>>
    /\ holder \in Tickets => /\ holder \in granted
                             /\ owner[holder] \in {"waiting", "loading"}
    /\ \A i \in 1..Len(queue) : /\ owner[queue[i]] = "waiting"
                                /\ queue[i] \notin granted
    /\ \A i, j \in 1..Len(queue) : i < j => queue[i] # queue[j]
    /\ \A t \in Tickets : owner[t] = "loading" => holder = t
    /\ \A t \in Tickets : owner[t] = "waiting" =>
          holder = t \/ \E i \in 1..Len(queue) : queue[i] = t
    /\ \A t \in Tickets : owner[t] = "new" => t \notin granted
    /\ \A t \in Tickets : t \in done <=> owner[t] = "gone"

\* A new gate, free and with no queue, satisfies the invariant.
LEMMA GateInit == Init => GateInv
  BY NoTicketAssumption DEF Init, GateInv, TypeOK

\* What the two shapes of grantLocked leave, spelled out for the provers.
LEMMA TailFacts ==
    ASSUME NEW S, NEW q \in Seq(S), q # <<>>
    PROVE  /\ Head(q) \in S /\ Head(q) = q[1] /\ 1 \in 1..Len(q)
           /\ Tail(q) \in Seq(S) /\ Len(Tail(q)) = Len(q) - 1
           /\ \A i \in 1..Len(Tail(q)) : i + 1 \in 1..Len(q) /\ Tail(q)[i] = q[i + 1]
           /\ \A i \in 1..Len(q) : i = 1 \/ (i - 1 \in 1..Len(Tail(q)) /\ Tail(q)[i - 1] = q[i])
  OBVIOUS

\* What appending one ticket does to a sequence of tickets.
LEMMA AppendFacts ==
    ASSUME NEW S, NEW q \in Seq(S), NEW t \in S
    PROVE  /\ Append(q, t) \in Seq(S) /\ Len(Append(q, t)) = Len(q) + 1
           /\ Append(q, t) # <<>>
           /\ Append(q, t)[Len(q) + 1] = t
           /\ \A i \in 1..Len(q) : i \in 1..(Len(q) + 1) /\ Append(q, t)[i] = q[i]
           /\ \A i \in 1..Len(Append(q, t)) : i \in 1..Len(q) \/ i = Len(q) + 1
  OBVIOUS

\* enqueue keeps the invariant.
LEMMA JoinStep == ASSUME GateInv, NEW t \in Tickets, Join(t) PROVE GateInv'
  <1> USE DEF GateInv, TypeOK
  <1>0. owner' = [owner EXCEPT ![t] = "waiting"] /\ owner[t] = "new" /\ done' = done
        /\ arrivals' \in Seq(Tickets)
    BY DEF Join, Enqueue
  <1>1. CASE holder = NoTicket
    <2>1. Append(queue, t) = <<t>>
      BY <1>1
    <2>2. holder' = t /\ queue' = <<>> /\ granted' = granted \cup {t}
      BY <1>1, <2>1 DEF Join, Enqueue, GrantLocked
    <2> QED
      BY <1>0, <1>1, <2>2, NoTicketAssumption
  <1>2. CASE holder # NoTicket
    <2>1. holder' = holder /\ queue' = Append(queue, t) /\ granted' = granted
      BY Zenon, <1>2 DEF Join, Enqueue, GrantLocked
    <2>2. holder # t /\ \A i \in 1..Len(queue) : queue[i] # t
      BY Zenon, <1>0, <1>2
    <2>3. \A i \in 1..Len(queue') : owner'[queue'[i]] = "waiting" /\ queue'[i] \notin granted'
      BY <1>0, <2>1, <2>2, AppendFacts
    <2>4. \A i, j \in 1..Len(queue') : i < j => queue'[i] # queue'[j]
      BY <1>0, <2>1, <2>2, AppendFacts
    <2>5. \A u \in Tickets : owner'[u] = "waiting" =>
             holder' = u \/ \E i \in 1..Len(queue') : queue'[i] = u
      <3> SUFFICES ASSUME NEW u \in Tickets, owner'[u] = "waiting", holder # u
                   PROVE  \E i \in 1..Len(queue') : queue'[i] = u
        BY Zenon, <2>1
      <3>1. CASE u = t
        <4>1. Len(queue) + 1 \in 1..Len(queue') /\ queue'[Len(queue) + 1] = t
          BY <2>1, AppendFacts
        <4> QED BY Zenon, <3>1, <4>1
      <3>2. CASE u # t
        <4>1. PICK i \in 1..Len(queue) : queue[i] = u
          BY Zenon, <1>0, <3>2
        <4> QED BY <4>1, <2>1, AppendFacts
      <3> QED BY Zenon, <3>1, <3>2
    <2>6. queue' \in Seq(Tickets)
      BY Zenon, <2>1, AppendFacts
    <2> QED
      BY <1>0, <1>2, <2>1, <2>2, <2>3, <2>4, <2>5, <2>6
  <1> QED
    BY Zenon, <1>1, <1>2

\* A release of an owned ticket, whether it holds the gate or waits for it.
LEMMA ReleaseStep ==
    ASSUME GateInv, NEW t \in Tickets, owner[t] \in {"waiting", "loading"}, Release(t),
           owner' = [owner EXCEPT ![t] = "gone"], arrivals' = arrivals
    PROVE  GateInv'
  <1> USE DEF GateInv, TypeOK
  <1>0. t \notin done /\ done' = done \cup {t}
    BY Zenon DEF Release
  <1>1. CASE holder = t /\ queue = <<>>
    <2>1. holder' = NoTicket /\ queue' = <<>> /\ granted' = granted
      BY Zenon, <1>0, <1>1 DEF Release, GrantLocked
    <2> QED
      BY <1>0, <1>1, <2>1, NoTicketAssumption
  <1>2. CASE holder = t /\ queue # <<>>
    <2>1. holder' = Head(queue) /\ queue' = Tail(queue) /\ granted' = granted \cup {Head(queue)}
      BY Zenon, <1>0, <1>2 DEF Release, GrantLocked
    <2>2. Head(queue) = queue[1] /\ 1 \in 1..Len(queue) /\ Head(queue) \in Tickets
          /\ queue' \in Seq(Tickets)
      BY Zenon, <1>2, <2>1, TailFacts
    <2>3. \A i \in 1..Len(queue) : queue[i] # t
      BY <1>2, NoTicketAssumption
    <2>4. \A i \in 1..Len(queue') : owner'[queue'[i]] = "waiting" /\ queue'[i] \notin granted'
      <3> TAKE i \in 1..Len(queue')
      <3>1. i + 1 \in 1..Len(queue) /\ queue'[i] = queue[i + 1] /\ 1 < i + 1
        BY <1>2, <2>1, TailFacts
      <3> QED BY <3>1, <2>1, <2>2, <2>3
    <2>5. \A i, j \in 1..Len(queue') : i < j => queue'[i] # queue'[j]
      <3> SUFFICES ASSUME NEW i \in 1..Len(queue'), NEW j \in 1..Len(queue'), i < j
                   PROVE  queue'[i] # queue'[j]
        BY Zenon
      <3>1. /\ i + 1 \in 1..Len(queue) /\ queue'[i] = queue[i + 1]
            /\ j + 1 \in 1..Len(queue) /\ queue'[j] = queue[j + 1]
            /\ i + 1 < j + 1
        BY <1>2, <2>1, TailFacts
      <3> QED BY <3>1
    <2>6. \A u \in Tickets : owner'[u] = "waiting" =>
             holder' = u \/ \E i \in 1..Len(queue') : queue'[i] = u
      <3> SUFFICES ASSUME NEW u \in Tickets, owner'[u] = "waiting", holder' # u
                   PROVE  \E i \in 1..Len(queue') : queue'[i] = u
        BY Zenon
      <3>1. PICK i \in 1..Len(queue) : queue[i] = u
        BY Zenon, <1>2
      <3>2. i # 1
        BY Zenon, <3>1, <2>1, <2>2
      <3>3. i - 1 \in 1..Len(Tail(queue)) /\ Tail(queue)[i - 1] = queue[i]
        BY <1>2, <3>2, TailFacts
      <3> QED BY ZenonT(40), <3>1, <3>3, <2>1
    <2>7. \A u \in Tickets : owner'[u] # "loading"
      BY Zenon, <1>2
    <2>8. owner[Head(queue)] = "waiting" /\ Head(queue) # t
      BY <2>2, <2>3
    <2> QED
      BY <1>0, <1>2, <2>1, <2>2, <2>4, <2>5, <2>6, <2>7, <2>8, NoTicketAssumption
  <1>3. CASE holder # t
    <2>1. holder' = holder /\ granted' = granted /\ queue' = Without(queue, t)
      BY Zenon, <1>0, <1>3 DEF Release
    <2>2. queue' \in Seq(Tickets)
      BY Zenon, <2>1, WithoutProps
    <2>3. \A i \in 1..Len(queue') : owner'[queue'[i]] = "waiting" /\ queue'[i] \notin granted'
      <3> TAKE i \in 1..Len(queue')
      <3>1. PICK k \in 1..Len(queue) : queue'[i] = queue[k] /\ queue[k] # t
        BY <2>1, WithoutProps
      <3> QED BY <3>1, <2>1
    <2>4. \A i, j \in 1..Len(queue') : i < j => queue'[i] # queue'[j]
      BY <2>1, WithoutDistinct
    <2>5. \A u \in Tickets : owner'[u] = "waiting" =>
             holder' = u \/ \E i \in 1..Len(queue') : queue'[i] = u
      <3> SUFFICES ASSUME NEW u \in Tickets, owner'[u] = "waiting", holder # u
                   PROVE  \E i \in 1..Len(queue') : queue'[i] = u
        BY Zenon, <2>1
      <3>1. PICK k \in 1..Len(queue) : queue[k] = u
        BY Zenon
      <3>2. u # t
        OBVIOUS
      <3>3. queue \in Seq(Tickets) /\ \A i, j \in 1..Len(queue) : i < j => queue[i] # queue[j]
        BY Zenon
      <3>4. \E i \in 1..Len(Without(queue, t)) : Without(queue, t)[i] = queue[k]
        BY ONLY SMTT(30), <3>1, <3>2, <3>3, WithoutProps
      <3> QED
        BY Zenon, <3>1, <3>4, <2>1
    <2>6. holder = NoTicket => queue' = <<>>
      <3> SUFFICES ASSUME holder = NoTicket PROVE queue' = <<>>
        BY Zenon
      <3>1. \A i \in 1..Len(queue) : queue[i] # t
        OBVIOUS
      <3> QED BY <2>1, <3>1, WithoutAbsent
    <2> QED
      BY <1>0, <1>3, <2>1, <2>2, <2>3, <2>4, <2>5, <2>6
  <1> QED
    BY Zenon, <1>1, <1>2, <1>3

\* Every step keeps the invariant.
LEMMA GateStep == GateInv /\ [Next]_vars => GateInv'
  <1> SUFFICES ASSUME GateInv, [Next]_vars PROVE GateInv'
    BY Zenon
  <1>1. ASSUME NEW t \in Tickets, Join(t) PROVE GateInv'
    BY Zenon, <1>1, JoinStep
  <1>2. ASSUME NEW t \in Tickets, WaitGranted(t) PROVE GateInv'
    BY <1>2 DEF WaitGranted, GateInv, TypeOK, gateVars
  <1>3. ASSUME NEW t \in Tickets, WaitCancelled(t) PROVE GateInv'
    BY ZenonT(40), <1>3, ReleaseStep DEF WaitCancelled
  <1>4. ASSUME NEW t \in Tickets, Finish(t) PROVE GateInv'
    BY ZenonT(40), <1>4, ReleaseStep DEF Finish
  <1>5. ASSUME NEW t \in Tickets, ReleaseAgain(t) PROVE GateInv'
    BY <1>5 DEF ReleaseAgain, Release, GateInv, TypeOK, gateVars
  <1>6. CASE UNCHANGED vars
    BY <1>6 DEF GateInv, TypeOK, vars
  <1> QED
    BY Zenon, <1>1, <1>2, <1>3, <1>4, <1>5, <1>6 DEF Next

\* The gate's fields agree with the owners in every reachable state.
THEOREM GateCorrect == Spec => []GateInv
  BY GateInit, GateStep, PTL DEF Spec

\* loadgate.go keeps its fields well typed.
THEOREM TypeCorrect == Spec => []TypeOK
  <1>1. GateInv => TypeOK
    BY Zenon DEF GateInv
  <1> QED
    BY <1>1, GateCorrect, PTL

\* One backend loads at a time, however many tickets are enqueued, granted,
\* cancelled and released in whatever order.
THEOREM MutualExclusion == Spec => []OneLoadAtATime
  <1>1. GateInv => OneLoadAtATime
    BY Zenon DEF GateInv, OneLoadAtATime
  <1> QED
    BY <1>1, GateCorrect, PTL

\* release always passes the gate on: it is never left free, or with a dead
\* holder, while tickets wait.
THEOREM NoLostGrant == Spec => []NeverStuck
  <1>1. GateInv => NeverStuck
    BY Zenon DEF GateInv, TypeOK, NeverStuck
  <1> QED
    BY <1>1, GateCorrect, PTL

-----------------------------------------------------------------------------
(* Service in the order of arrival.  The queue holds the arrivals that are *)
(* still to be served, in the order they came.                             *)

OrderInv ==
    /\ \A i \in 1..Len(arrivals) : owner[arrivals[i]] # "new"
    /\ \A i, j \in 1..Len(arrivals) : i < j => arrivals[i] # arrivals[j]
    /\ \A p, r \in 1..Len(queue) : \A i, j \in 1..Len(arrivals) :
          p < r /\ queue[p] = arrivals[i] /\ queue[r] = arrivals[j] => i < j
    /\ FirstComeFirstServed

\* A gate nobody has come to serves in order.
LEMMA OrderInit == Init => OrderInv
  BY DEF Init, OrderInv, FirstComeFirstServed

\* An arrival that is neither granted nor done is in the queue.
LEMMA UnservedQueued ==
    ASSUME GateInv, OrderInv, NEW i \in 1..Len(arrivals), arrivals[i] \notin granted \cup done
    PROVE  \E p \in 1..Len(queue) : queue[p] = arrivals[i]
  <1>1. arrivals[i] \in Tickets
    BY DEF GateInv, TypeOK
  <1>2. owner[arrivals[i]] = "waiting" /\ holder # arrivals[i]
    BY <1>1, NoTicketAssumption DEF GateInv, TypeOK, OrderInv
  <1> QED
    BY Zenon, <1>1, <1>2 DEF GateInv

\* enqueue puts the newest arrival behind the others.
LEMMA OrderJoin == ASSUME GateInv, OrderInv, NEW t \in Tickets, Join(t) PROVE OrderInv'
  <1>0. /\ arrivals \in Seq(Tickets) /\ queue \in Seq(Tickets)
        /\ owner[t] = "new" /\ owner' = [owner EXCEPT ![t] = "waiting"]
        /\ arrivals' = Append(arrivals, t) /\ done' = done
        /\ owner \in [Tickets -> {"new", "waiting", "loading", "gone"}]
    BY Zenon DEF GateInv, TypeOK, Join, Enqueue
  <1>1. /\ Len(arrivals') = Len(arrivals) + 1 /\ arrivals'[Len(arrivals) + 1] = t
        /\ \A i \in 1..Len(arrivals) : arrivals'[i] = arrivals[i] /\ arrivals[i] # t /\ arrivals[i] \in Tickets
        /\ \A i \in 1..Len(arrivals') : i \in 1..Len(arrivals) \/ i = Len(arrivals) + 1
        /\ Len(arrivals) \in Nat
    BY <1>0, AppendFacts DEF OrderInv
  <1>2. \A i \in 1..Len(queue) : queue[i] # t /\ queue[i] \in Tickets
    BY <1>0 DEF GateInv
  <1>3. \A i \in 1..Len(arrivals') : owner'[arrivals'[i]] # "new"
    BY <1>0, <1>1 DEF OrderInv
  <1>4. \A i, j \in 1..Len(arrivals') : i < j => arrivals'[i] # arrivals'[j]
    BY <1>1 DEF OrderInv
  <1>5. CASE holder = NoTicket
    <2>1. queue = <<>> /\ Append(queue, t) = <<t>>
      BY <1>5 DEF GateInv
    <2>2. queue' = <<>> /\ granted' = granted \cup {t}
      BY <1>5, <2>1 DEF Join, Enqueue, GrantLocked
    <2>3. \A i \in 1..Len(arrivals) : arrivals[i] \in granted \cup done
      BY <2>1, UnservedQueued
    <2>4. FirstComeFirstServed'
      BY Zenon, <1>0, <1>1, <2>2, <2>3 DEF FirstComeFirstServed
    <2> QED
      BY <1>3, <1>4, <2>2, <2>4 DEF OrderInv
  <1>6. CASE holder # NoTicket
    <2>1. queue' = Append(queue, t) /\ granted' = granted
      BY Zenon, <1>6 DEF Join, Enqueue, GrantLocked
    <2>2. t \notin granted
      BY Zenon, <1>0 DEF GateInv
    <2>3. FirstComeFirstServed'
      BY <1>0, <1>1, <2>1, <2>2 DEF FirstComeFirstServed, OrderInv
    <2>4. ASSUME NEW p \in 1..Len(queue'), NEW r \in 1..Len(queue'),
                 NEW i \in 1..Len(arrivals'), NEW j \in 1..Len(arrivals'),
                 p < r, queue'[p] = arrivals'[i], queue'[r] = arrivals'[j]
          PROVE  i < j
      <3>1. /\ Len(queue') = Len(queue) + 1 /\ queue'[Len(queue) + 1] = t
            /\ \A k \in 1..Len(queue) : queue'[k] = queue[k]
            /\ p \in 1..Len(queue) /\ (r \in 1..Len(queue) \/ r = Len(queue) + 1)
        BY <1>0, <2>1, <2>4, AppendFacts
      <3>2. i \in 1..Len(arrivals)
        BY Zenon, <3>1, <1>1, <1>2, <2>4
      <3>3. CASE r \in 1..Len(queue)
        <4>1. j \in 1..Len(arrivals)
          BY Zenon, <3>1, <3>3, <1>1, <1>2, <2>4
        <4>2. queue[p] = arrivals[i] /\ queue[r] = arrivals[j]
          BY <3>1, <3>2, <3>3, <4>1, <1>1, <2>4
        <4> QED
          BY Zenon, <3>1, <3>2, <3>3, <4>1, <4>2, <2>4 DEF OrderInv
      <3>4. CASE r = Len(queue) + 1
        BY <3>1, <3>2, <3>4, <1>1, <2>4
      <3> QED BY Zenon, <3>1, <3>3, <3>4
    <2> QED
      BY Zenon, <1>3, <1>4, <2>3, <2>4 DEF OrderInv
  <1> QED
    BY Zenon, <1>5, <1>6

\* release grants the first of the queue, and leaves the others in order.
LEMMA OrderRelease ==
    ASSUME GateInv, OrderInv, NEW t \in Tickets, owner[t] \in {"waiting", "loading"},
           Release(t), owner' = [owner EXCEPT ![t] = "gone"], arrivals' = arrivals
    PROVE  OrderInv'
  <1>0. /\ arrivals \in Seq(Tickets) /\ queue \in Seq(Tickets)
        /\ owner \in [Tickets -> {"new", "waiting", "loading", "gone"}]
        /\ done' = done \cup {t}
        /\ \A i \in 1..Len(arrivals) : arrivals[i] \in Tickets
    BY DEF GateInv, TypeOK, Release
  <1>1. \A i \in 1..Len(arrivals') : owner'[arrivals'[i]] # "new"
    BY Zenon, <1>0 DEF OrderInv
  <1>2. CASE holder = t /\ queue = <<>>
    <2>1. queue' = <<>> /\ granted' = granted
      BY Zenon, <1>0, <1>2 DEF GateInv, Release, GrantLocked
    <2> QED
      BY <1>0, <1>1, <2>1 DEF OrderInv, FirstComeFirstServed
  <1>3. CASE holder = t /\ queue # <<>>
    <2>1. queue' = Tail(queue) /\ granted' = granted \cup {queue[1]} /\ 1 \in 1..Len(queue)
      <3>1. t \notin done
        BY Zenon DEF GateInv
      <3> QED BY Zenon, <1>0, <1>3, <3>1, TailFacts DEF Release, GrantLocked
    <2>2. ASSUME NEW i \in 1..Len(arrivals), NEW j \in 1..Len(arrivals), i < j,
                 arrivals[j] = queue[1]
          PROVE  arrivals[i] \in granted \cup done
      <3>1. SUFFICES ASSUME arrivals[i] \notin granted \cup done PROVE FALSE
        BY Zenon
      <3>2. PICK p \in 1..Len(queue) : queue[p] = arrivals[i]
        BY Zenon, <3>1, UnservedQueued
      <3>3. p # 1
        BY Zenon, <2>2, <3>2 DEF OrderInv
      <3>4. 1 < p
        BY <3>3, <1>0
      <3>5. j < i
        BY Zenon, <2>1, <2>2, <3>2, <3>4 DEF OrderInv
      <3> QED BY <2>2, <3>5, <1>0
    <2>3. FirstComeFirstServed'
      BY Zenon, <1>0, <2>1, <2>2 DEF OrderInv, FirstComeFirstServed
    <2>4. ASSUME NEW p \in 1..Len(queue'), NEW r \in 1..Len(queue'),
                 NEW i \in 1..Len(arrivals), NEW j \in 1..Len(arrivals),
                 p < r, queue'[p] = arrivals[i], queue'[r] = arrivals[j]
          PROVE  i < j
      <3>1. /\ p + 1 \in 1..Len(queue) /\ r + 1 \in 1..Len(queue) /\ p + 1 < r + 1
            /\ queue'[p] = queue[p + 1] /\ queue'[r] = queue[r + 1]
        BY <1>0, <1>3, <2>1, <2>4, TailFacts
      <3> QED BY ZenonT(40), <3>1, <2>4 DEF OrderInv
    <2> QED
      BY <1>1, <2>3, <2>4 DEF OrderInv
  <1>4. CASE holder # t
    <2>1. queue' = Without(queue, t) /\ granted' = granted
      <3>1. t \notin done
        BY Zenon DEF GateInv
      <3> QED BY Zenon, <1>4, <3>1 DEF Release
    <2>2. FirstComeFirstServed'
      BY Zenon, <1>0, <2>1 DEF OrderInv, FirstComeFirstServed
    <2>3. ASSUME NEW p \in 1..Len(queue'), NEW r \in 1..Len(queue'),
                 NEW i \in 1..Len(arrivals), NEW j \in 1..Len(arrivals),
                 p < r, queue'[p] = arrivals[i], queue'[r] = arrivals[j]
          PROVE  i < j
      <3>0. \A a, b \in 1..Len(queue) : a < b => queue[a] # queue[b]
        BY Zenon DEF GateInv
      <3>1. PICK k, l \in 1..Len(queue) : k < l /\ queue'[p] = queue[k] /\ queue'[r] = queue[l]
        <4>1. p \in 1..Len(Without(queue, t)) /\ r \in 1..Len(Without(queue, t)) /\ queue \in Seq(Tickets)
          BY Zenon, <1>0, <2>1, <2>3
        <4>2. \E k, l \in 1..Len(queue) :
                 k < l /\ Without(queue, t)[p] = queue[k] /\ Without(queue, t)[r] = queue[l]
          BY ONLY SMTT(30), <2>3, <3>0, <4>1, WithoutOrder
        <4> QED
          BY Zenon, <2>1, <4>2
      <3> QED BY ZenonT(40), <3>1, <2>3 DEF OrderInv
    <2> QED
      BY <1>1, <2>2, <2>3 DEF OrderInv
  <1> QED
    BY Zenon, <1>2, <1>3, <1>4

\* Every step keeps the order of service.
LEMMA OrderStep == GateInv /\ OrderInv /\ [Next]_vars => OrderInv'
  <1> SUFFICES ASSUME GateInv, OrderInv, [Next]_vars PROVE OrderInv'
    BY Zenon
  <1>1. ASSUME NEW t \in Tickets, Join(t) PROVE OrderInv'
    BY Zenon, <1>1, OrderJoin
  <1>2. ASSUME NEW t \in Tickets, WaitGranted(t) PROVE OrderInv'
    BY <1>2 DEF WaitGranted, GateInv, TypeOK, OrderInv, FirstComeFirstServed, gateVars
  <1>3. ASSUME NEW t \in Tickets, WaitCancelled(t) PROVE OrderInv'
    BY ZenonT(40), <1>3, OrderRelease DEF WaitCancelled
  <1>4. ASSUME NEW t \in Tickets, Finish(t) PROVE OrderInv'
    BY ZenonT(40), <1>4, OrderRelease DEF Finish
  <1>5. ASSUME NEW t \in Tickets, ReleaseAgain(t) PROVE OrderInv'
    BY <1>5 DEF ReleaseAgain, Release, GateInv, OrderInv, FirstComeFirstServed, gateVars
  <1>6. CASE UNCHANGED vars
    BY <1>6 DEF OrderInv, FirstComeFirstServed, vars
  <1> QED
    BY Zenon, <1>1, <1>2, <1>3, <1>4, <1>5, <1>6 DEF Next

\* The gate is first come, first served, cancellations included.
THEOREM FifoService == Spec => []FirstComeFirstServed
  <1>1. OrderInv => FirstComeFirstServed
    BY Zenon DEF OrderInv
  <1> QED
    BY <1>1, OrderInit, OrderStep, GateCorrect, PTL DEF Spec
=============================================================================
