----------------------------- MODULE PartsProofs ----------------------------
(***************************************************************************)
(* Proofs about four parts of a node that do not meet: what it bills and   *)
(* switches (PowerCost), which models it runs (NodeModels), the images its *)
(* host helper keeps (ManagedUpdate) and the conversations other members   *)
(* leave with it (SessionShare).  For any models, images, senders, cards   *)
(* and machines, any number of edits, requests, swaps, saves and faults.   *)
(***************************************************************************)
EXTENDS NodeModels, SessionShare, PowerCost, ManagedUpdate, TLAPS

-----------------------------------------------------------------------------
(* What is billed.  The time that counts begins at the last Update, if that *)
(* one billed.                                                             *)

PowerTyped ==
    /\ wall \in Nat /\ billedFrom \in Nat
    /\ tracker \in [available : BOOLEAN, today : Nat, lastUpdate : Nat, lastDate : Nat,
                    lastCall : Nat, minGap : Nat]
    /\ update \in [on : BOOLEAN, now : Nat, before : Nat]

\* The Update before the one in progress, or the last one.
LastDone == IF update.on THEN update.before ELSE tracker.lastCall

CallsInOrder ==
    /\ tracker.lastCall <= wall
    /\ update.on => update.now = tracker.lastCall /\ update.before < update.now

\* The tracker has a time to bill from only when the last Update was available.
BilledByLast == tracker.lastUpdate # Never => tracker.available /\ tracker.lastUpdate = LastDone

\* What is billed today is no more than the time from billedFrom to that Update.
TodayCovered ==
    /\ tracker.lastDate = 0 => tracker.today = 0 /\ tracker.lastUpdate = Never
    /\ tracker.lastDate # 0 => tracker.today + billedFrom <= LastDone

PowerInv == PowerTyped /\ CallsInOrder /\ BilledByLast /\ TodayCovered

\* A tracker that has billed nothing.
LEMMA PowerInvInit == PowerInit => PowerInv
  BY DEF PowerInit, PowerInv, PowerTyped, CallsInOrder, BilledByLast, TodayCovered, LastDone, Never

\* What UpdateBills adds, if it adds anything.
Bill ==
    IF tracker.lastUpdate = Never \/ update.now - tracker.lastUpdate <= 0 THEN 0
    ELSE Billable(update.now - tracker.lastUpdate)
Kept == IF tracker.lastDate \notin {0, DateOf(update.now)} THEN 0 ELSE tracker.today

\* A bill is no more than the time since the last Update, which was available.
LEMMA BillResult ==
    ASSUME PowerInv, update.on
    PROVE  /\ Bill \in Nat /\ Kept \in Nat /\ Kept <= tracker.today
           /\ Bill > 0 => tracker.available /\ tracker.lastUpdate = update.before
           /\ Bill <= update.now - update.before
           /\ Bill <= maxBilledPeriods * Bigger(tracker.minGap, minUpdatePeriod)
           /\ tracker.lastUpdate = Never => Bill = 0
  <1>1. /\ tracker.lastUpdate \in Nat /\ tracker.minGap \in Nat /\ tracker.today \in Nat
        /\ update.now \in Nat /\ update.before \in Nat /\ update.before < update.now
    BY Zenon DEF PowerInv, PowerTyped, CallsInOrder
  <1>2. tracker.lastUpdate # Never => tracker.available /\ tracker.lastUpdate = update.before
    BY Zenon DEF PowerInv, BilledByLast, LastDone
  <1> DEFINE cap == maxBilledPeriods * Bigger(tracker.minGap, minUpdatePeriod)
  <1>0. cap \in Nat /\ 0 <= cap
    BY <1>1 DEF Bigger, maxBilledPeriods, minUpdatePeriod
  <1>3. ASSUME NEW e \in Nat PROVE Billable(e) \in Nat /\ Billable(e) <= e /\ Billable(e) <= cap
    BY <1>1 DEF Billable, Lesser, Bigger, maxBilledPeriods, minUpdatePeriod
  <1>4. Kept \in Nat /\ Kept <= tracker.today
    BY <1>1 DEF Kept
  <1>5. CASE tracker.lastUpdate = Never \/ update.now - tracker.lastUpdate <= 0
    <2>1. Bill = 0
      BY Zenon, <1>5 DEF Bill
    <2> HIDE DEF cap
    <2>2. Bill \in Nat /\ Bill <= update.now - update.before /\ Bill <= cap /\ ~(Bill > 0)
      BY <1>0, <1>1, <2>1
    <2> QED
      BY Zenon, <1>4, <2>1, <2>2 DEF cap
  <1>6. CASE ~(tracker.lastUpdate = Never \/ update.now - tracker.lastUpdate <= 0)
    <2>1. update.now - tracker.lastUpdate \in Nat /\ update.now - tracker.lastUpdate = update.now - update.before
      BY <1>1, <1>2, <1>6
    <2>2. Bill = Billable(update.now - tracker.lastUpdate)
      BY Zenon, <1>6 DEF Bill
    <2> QED
      BY Zenon, <1>1, <1>2, <1>3, <1>4, <1>6, <2>1, <2>2
  <1> QED
    BY Zenon, <1>5, <1>6

\* UpdateBills, in terms of what it keeps and what it adds.
LEMMA BillsResult ==
    ASSUME PowerInv, UpdateBills
    PROVE  /\ tracker' = [tracker EXCEPT !.available = TRUE, !.today = Kept + Bill,
                              !.lastUpdate = update.now, !.lastDate = DateOf(update.now)]
           /\ DateOf(update.now) \in Nat \ {0}
           /\ tracker' \in [available : BOOLEAN, today : Nat, lastUpdate : Nat, lastDate : Nat,
                            lastCall : Nat, minGap : Nat]
           /\ tracker'.available /\ tracker'.today = Kept + Bill /\ tracker'.lastUpdate = update.now
           /\ tracker'.lastDate = DateOf(update.now) /\ tracker'.lastCall = tracker.lastCall
  <1>1. /\ tracker' = [tracker EXCEPT !.available = TRUE, !.today = Kept + Bill,
                           !.lastUpdate = update.now, !.lastDate = DateOf(update.now)]
        /\ update.on
    BY Zenon DEF UpdateBills, Kept, Bill
  <1>2. update.now \in Nat
    BY Zenon DEF PowerInv, PowerTyped
  <1>3. update.now \div DayLength \in Nat
    BY <1>2, DayAssumption
  <1>4. DateOf(update.now) \in Nat \ {0}
    BY <1>3 DEF DateOf
  <1>5. Kept + Bill \in Nat
    BY <1>1, BillResult
  <1> DEFINE date == DateOf(update.now)
             today == Kept + Bill
  <1>6. tracker' = [tracker EXCEPT !.available = TRUE, !.today = today, !.lastUpdate = update.now,
                        !.lastDate = date] /\ date \in Nat /\ today \in Nat
    BY Zenon, <1>1, <1>4, <1>5
  <1> HIDE DEF date, today
  <1>7. /\ tracker' \in [available : BOOLEAN, today : Nat, lastUpdate : Nat, lastDate : Nat,
                         lastCall : Nat, minGap : Nat]
        /\ tracker'.available /\ tracker'.today = today /\ tracker'.lastUpdate = update.now
        /\ tracker'.lastDate = date /\ tracker'.lastCall = tracker.lastCall
    BY Zenon, <1>2, <1>6 DEF PowerInv, PowerTyped
  <1> QED
    BY Zenon, <1>1, <1>4, <1>7 DEF date, today

\* Every step keeps the invariant.
LEMMA PowerInvNext == PowerInv /\ [PowerNext]_powerVars => PowerInv'
  <1> SUFFICES ASSUME PowerInv, [PowerNext]_powerVars PROVE PowerInv'
    BY Zenon
  <1>1. CASE UNCHANGED <<tracker, update, billedFrom>> /\ wall' \in {wall, wall + 1}
    BY <1>1 DEF PowerInv, PowerTyped, CallsInOrder, BilledByLast, TodayCovered, LastDone
  <1>2. CASE UpdateBegins
    <2>1. /\ tracker' \in [available : BOOLEAN, today : Nat, lastUpdate : Nat, lastDate : Nat,
                           lastCall : Nat, minGap : Nat]
          /\ tracker'.lastCall = wall /\ tracker'.lastUpdate = tracker.lastUpdate
          /\ tracker'.today = tracker.today /\ tracker'.lastDate = tracker.lastDate
          /\ tracker'.available = tracker.available
      <3>1. PICK gap \in Nat : tracker' = [tracker EXCEPT !.lastCall = wall, !.minGap = gap]
        <4>1. wall - tracker.lastCall \in Nat /\ tracker.minGap \in Nat
          BY <1>2 DEF UpdateBegins, PowerInv, PowerTyped, CallsInOrder
        <4> QED
          BY Zenon, <1>2, <4>1 DEF UpdateBegins
      <3> QED
        BY Zenon, <3>1 DEF PowerInv, PowerTyped
    <2>2. update' = [on |-> TRUE, now |-> wall, before |-> tracker.lastCall] /\ ~update.on /\ tracker.lastCall < wall
      BY Zenon, <1>2 DEF UpdateBegins, PowerInv, PowerTyped
    <2> QED
      BY <1>2, <2>1, <2>2
      DEF UpdateBegins, PowerInv, PowerTyped, CallsInOrder, BilledByLast, TodayCovered, LastDone
  <1>3. CASE UpdateUnavailable
    <2>1. /\ tracker' \in [available : BOOLEAN, today : Nat, lastUpdate : Nat, lastDate : Nat,
                           lastCall : Nat, minGap : Nat]
          /\ tracker'.lastCall = tracker.lastCall /\ tracker'.lastUpdate = Never
          /\ tracker'.today = tracker.today /\ tracker'.lastDate = tracker.lastDate
      BY Zenon, <1>3 DEF UpdateUnavailable, PowerInv, PowerTyped, Never
    <2>2. /\ update' \in [on : BOOLEAN, now : Nat, before : Nat] /\ ~update'.on
          /\ update.on /\ billedFrom' = billedFrom /\ wall' = wall
      BY Zenon, <1>3 DEF UpdateUnavailable, PowerInv, PowerTyped
    <2> QED
      BY <2>1, <2>2 DEF PowerInv, PowerTyped, CallsInOrder, BilledByLast, TodayCovered, LastDone
  <1>4. CASE UpdateBills
    <2>1. /\ update' \in [on : BOOLEAN, now : Nat, before : Nat] /\ ~update'.on /\ update.on /\ wall' = wall
      BY Zenon, <1>4 DEF UpdateBills, PowerInv, PowerTyped
    <2>2. billedFrom' = IF tracker.lastDate = DateOf(update.now) THEN billedFrom
                        ELSE IF tracker.lastUpdate = Never THEN update.now ELSE tracker.lastUpdate
      BY Zenon, <1>4 DEF UpdateBills
    <2>3. /\ Bill \in Nat /\ Kept \in Nat /\ Kept <= tracker.today
          /\ Bill <= update.now - update.before
          /\ tracker.lastUpdate = Never => Bill = 0
      BY Zenon, <2>1, BillResult
    <2>4. /\ tracker.lastUpdate \in Nat /\ tracker.today \in Nat /\ billedFrom \in Nat
          /\ update.now \in Nat /\ update.before \in Nat /\ update.before < update.now
          /\ update.now = tracker.lastCall
          /\ tracker.lastUpdate # Never => tracker.lastUpdate = update.before
          /\ tracker.lastDate = 0 => tracker.today = 0
          /\ tracker.lastDate # 0 => tracker.today + billedFrom <= update.before
      BY Zenon, <2>1 DEF PowerInv, PowerTyped, CallsInOrder, BilledByLast, TodayCovered, LastDone
    <2>5. Kept + Bill + billedFrom' <= update.now /\ billedFrom' \in Nat
      <3>1. CASE tracker.lastDate = DateOf(update.now)
        BY <1>4, <2>2, <2>3, <2>4, <3>1, BillsResult
      <3>2. CASE tracker.lastDate # DateOf(update.now)
        <4>1. Kept = 0
          BY Zenon, <2>4, <3>2 DEF Kept
        <4> QED
          BY <2>2, <2>3, <2>4, <3>2, <4>1
      <3> QED
        BY Zenon, <3>1, <3>2
    <2> QED
      BY Zenon, <1>4, <2>1, <2>4, <2>5, BillsResult
      DEF PowerInv, PowerTyped, CallsInOrder, BilledByLast, TodayCovered, LastDone
  <1> QED
    BY Zenon, <1>1, <1>2, <1>3, <1>4
    DEF PowerNext, powerVars, TimePasses, BmcFlips, CardChanges, SampleBegins, SampleEnds, Fetch

\* The tracker's total of today is time that was measured since billedFrom:
\* an outage, a stall, a second Update and midnight included (tracker.go).
THEOREM TodayIsMeasured == PowerSpec => []TodayWasMeasured
  <1>1. PowerInv => TodayWasMeasured
    BY DEF PowerInv, PowerTyped, CallsInOrder, BilledByLast, TodayCovered, LastDone, TodayWasMeasured
  <1> QED
    BY <1>1, PowerInvInit, PowerInvNext, PTL DEF PowerSpec

\* Update bills at most the time since the Update before it, only when that
\* one had a price and a reading, and after a stall no more than two of the
\* shortest intervals between Updates (tracker.go).
THEOREM OutagesNotBilled == PowerSpec => OutageNotBilled
  <1>1. ASSUME PowerInv, [PowerNext]_powerVars, tracker'.today > tracker.today
        PROVE  /\ tracker.available
               /\ tracker'.today - tracker.today <= update.now - update.before
               /\ tracker'.today - tracker.today <= maxBilledPeriods * Bigger(tracker.minGap, minUpdatePeriod)
    <2>1. tracker.today \in Nat
      BY Zenon, <1>1 DEF PowerInv, PowerTyped
    <2>2. CASE UpdateBills
      <3>1. tracker'.today = Kept + Bill /\ update.on
        BY Zenon, <1>1, <2>2, BillsResult DEF UpdateBills
      <3>2. /\ Bill \in Nat /\ Kept \in Nat /\ Kept <= tracker.today
            /\ Bill > 0 => tracker.available
            /\ Bill <= update.now - update.before
            /\ Bill <= maxBilledPeriods * Bigger(tracker.minGap, minUpdatePeriod)
        BY Zenon, <1>1, <3>1, BillResult
      <3>3. update.now \in Nat /\ update.before \in Nat /\ tracker.minGap \in Nat
        BY Zenon, <1>1 DEF PowerInv, PowerTyped
      <3>4. maxBilledPeriods * Bigger(tracker.minGap, minUpdatePeriod) \in Nat
        BY <3>3 DEF Bigger, maxBilledPeriods, minUpdatePeriod
      <3> QED
        BY <1>1, <2>1, <3>1, <3>2, <3>3, <3>4
    <2>3. CASE ~UpdateBills
      <3>1. tracker'.today = tracker.today
        BY Zenon, <1>1, <2>3
        DEF PowerNext, powerVars, TimePasses, BmcFlips, CardChanges, SampleBegins, SampleEnds, Fetch,
            UpdateBegins, UpdateUnavailable, PowerInv, PowerTyped
      <3> QED
        BY <1>1, <2>1, <3>1
    <2> QED
      BY Zenon, <2>2, <2>3
  <1>2. PowerInv /\ [PowerNext]_powerVars
        => [tracker'.today > tracker.today =>
               /\ tracker.available
               /\ tracker'.today - tracker.today <= update.now - update.before
               /\ tracker'.today - tracker.today <= maxBilledPeriods * Bigger(tracker.minGap, minUpdatePeriod)]_powerVars
    BY Zenon, <1>1
  <1> QED
    BY <1>2, PowerInvInit, PowerInvNext, PTL DEF PowerSpec, OutageNotBilled

-----------------------------------------------------------------------------
(* Switching machines.                                                     *)

ChassisTyped ==
    power \in [st : {"none", "local", "forwarded", "remote", "done"}, entry : Machines \cup {NoMachine},
               host : Machines \cup {NoMachine}, action : Actions, cmds : Nat, ok : BOOLEAN]

\* The entry node acts on itself only to read its status, and only on a
\* machine it lists.
EntrySpared ==
    power.st # "none" => /\ power.entry \in on /\ Allowed(power.entry, power.host)
                         /\ power.host = power.entry => power.action = "status"

\* No command before the first way, one at most before the second.
CommandsCounted ==
    /\ power.st \in {"local", "forwarded"} => power.cmds = 0
    /\ power.st = "remote" => power.cmds <= 1
    /\ power.st = "done" => power.cmds <= 2

\* Only a request that is done was answered, after a command of its own.
AnswerHolds ==
    power.ok => /\ power.st = "done" /\ power.cmds > 0
                /\ power.action = "on" => power.host \in on
                /\ power.action = "off" => power.host \notin on

ChassisInv == ChassisTyped /\ EntrySpared /\ CommandsCounted /\ AnswerHolds

\* A command leaves every other machine as it is, and reading the status all.
LEMMA ExecResult ==
    ASSUME NEW h, NEW a \in Actions, NEW m \in on, m = h => a = "status"
    PROVE  m \in Exec(h, a)
  <1>1. CASE a = "on"
    BY Zenon, <1>1 DEF Exec
  <1>2. CASE a = "off"
    BY Zenon, <1>2 DEF Exec
  <1>3. CASE a \in {"status", "cycle"}
    BY Zenon, <1>3 DEF Exec
  <1> QED
    BY Zenon, <1>1, <1>2, <1>3 DEF Actions

\* A machine switched on is on, a machine switched off is off.
LEMMA ExecDoes ==
    ASSUME NEW h, NEW a \in Actions
    PROVE  (a = "on" => h \in Exec(h, a)) /\ (a = "off" => h \notin Exec(h, a))
  BY Zenon DEF Exec

\* A request that goes on keeps all but its state, commands and answer.
PowerMoves(s, n, b) ==
    power' = [st |-> s, entry |-> power.entry, host |-> power.host, action |-> power.action,
              cmds |-> n, ok |-> b]

\* Every step keeps the invariant.
LEMMA ChassisInvNext == ChassisInv /\ [ChassisNext]_chassisVars => ChassisInv'
  <1> SUFFICES ASSUME ChassisInv, [ChassisNext]_chassisVars PROVE ChassisInv'
    BY Zenon
  <1> USE DEF ChassisInv
  <1>0. hosts' = hosts
    BY Zenon DEF ChassisNext, chassisVars, MeshPower, Gossip, ForwardFails, PowerAnswered, PeerPower,
                 LocalPower, RemotePower
  <1>1. CASE power' = power /\ on' = on
    BY Zenon, <1>0, <1>1 DEF ChassisTyped, EntrySpared, CommandsCounted, AnswerHolds, Allowed
  <1>2. CASE power' = NoPowerRequest
    BY Zenon, <1>2 DEF ChassisTyped, EntrySpared, CommandsCounted, AnswerHolds, NoPowerRequest, Actions
  <1>3. ASSUME NEW m \in Machines, NEW h \in Machines, NEW a \in Actions, MeshPower(m, h, a)
        PROVE  ChassisInv'
    <2>1. CASE ~Enabled(m) \/ ~Allowed(m, h) \/ (h = m /\ a # "status")
      BY Zenon, <1>2, <1>3, <2>1 DEF MeshPower
    <2>2. CASE ~(~Enabled(m) \/ ~Allowed(m, h) \/ (h = m /\ a # "status"))
      <3>1. PICK s \in {"local", "forwarded", "remote"} :
               power' = [st |-> s, entry |-> m, host |-> h, action |-> a, cmds |-> 0, ok |-> FALSE]
        BY Zenon, <1>3, <2>2 DEF MeshPower
      <3>2. m \in on /\ on' = on
        BY Zenon, <1>3 DEF MeshPower
      <3>3. 0 \in Nat /\ 0 <= 1
        OBVIOUS
      <3> QED
        BY Zenon, <1>0, <2>2, <3>1, <3>2, <3>3
        DEF ChassisTyped, EntrySpared, CommandsCounted, AnswerHolds, Allowed
    <2> QED
      BY Zenon, <2>1, <2>2
  <1>4. ASSUME power.st # "none",
               NEW s \in {"remote", "done"}, NEW n \in Nat, NEW b \in BOOLEAN,
               PowerMoves(s, n, b),
               on' \in {on, Exec(power.host, power.action)},
               n <= 2, s = "remote" => n <= 1,
               b => s = "done" /\ n > 0 /\ on' = Exec(power.host, power.action)
        PROVE  ChassisInv'
    <2>1. /\ power' \in [st : {"none", "local", "forwarded", "remote", "done"},
                         entry : Machines \cup {NoMachine}, host : Machines \cup {NoMachine},
                         action : Actions, cmds : Nat, ok : BOOLEAN]
          /\ power'.st = s /\ power'.cmds = n /\ power'.entry = power.entry
          /\ power'.host = power.host /\ power'.action = power.action /\ power'.ok = b
      BY Zenon, <1>4 DEF ChassisTyped, PowerMoves
    <2>2. power.entry \in on'
      BY <1>4, ExecResult DEF ChassisTyped, EntrySpared
    <2>3. /\ ChassisTyped' /\ EntrySpared' /\ CommandsCounted'
      BY Zenon, <1>0, <1>4, <2>1, <2>2 DEF ChassisTyped, EntrySpared, CommandsCounted, Allowed
    <2>4. power.action \in Actions
      BY Zenon DEF ChassisTyped
    <2>5. AnswerHolds'
      <3>1. /\ power.action = "on" => power.host \in Exec(power.host, power.action)
            /\ power.action = "off" => power.host \notin Exec(power.host, power.action)
        BY <2>4, ExecDoes
      <3>2. b => s = "done" /\ n > 0 /\ on' = Exec(power.host, power.action)
        BY Zenon, <1>4
      <3>3. ASSUME power'.ok
            PROVE  /\ power'.st = "done" /\ power'.cmds > 0
                   /\ power'.action = "on" => power'.host \in on'
                   /\ power'.action = "off" => power'.host \notin on'
        <4>1. s = "done" /\ n > 0 /\ on' = Exec(power.host, power.action)
          BY Zenon, <2>1, <3>2, <3>3
        <4>2. power'.st = "done" /\ power'.cmds > 0
          BY Zenon, <2>1, <4>1
        <4>3. power'.action = power.action /\ power'.host = power.host
          BY Zenon, <2>1
        <4> QED
          BY <3>1, <4>1, <4>2, <4>3
      <3> QED
        BY Zenon, <3>3 DEF AnswerHolds
    <2> QED
      BY Zenon, <2>3, <2>5
  <1>5. power \in [st : {"none", "local", "forwarded", "remote", "done"},
                   entry : Machines \cup {NoMachine}, host : Machines \cup {NoMachine},
                   action : Actions, cmds : Nat, ok : BOOLEAN]
    BY Zenon DEF ChassisTyped
  <1>6. ASSUME NEW b \in BOOLEAN, PeerPower(b) PROVE ChassisInv'
    <2>1. power.st = "forwarded" /\ power.cmds = 0
      BY Zenon, <1>6 DEF PeerPower, CommandsCounted
    <2>2. 1 \in Nat /\ 1 <= 2 /\ 1 <= 1 /\ 1 > 0 /\ power.cmds + 1 = 1
      BY <2>1
    <2> DEFINE s == IF b THEN "done" ELSE "remote"
    <2>3. /\ power' = [power EXCEPT !.cmds = 1, !.ok = b, !.st = s]
          /\ on' = Exec(power.host, power.action)
      BY <1>6, <2>2, Zenon DEF PeerPower
    <2>4. s \in {"remote", "done"} /\ (b => s = "done")
      BY Zenon
    <2> HIDE DEF s
    <2>5. PowerMoves(s, 1, b)
      BY Zenon, <1>5, <2>3 DEF PowerMoves
    <2> QED
      BY <1>4, <1>6, <2>1, <2>2, <2>3, <2>4, <2>5, Zenon
  <1>7. CASE ForwardFails
    <2>1. power.st = "forwarded" /\ power.cmds = 0 /\ on' = on
      BY Zenon, <1>7 DEF ForwardFails, CommandsCounted
    <2>2. ~power.ok /\ power.ok \in BOOLEAN
      BY Zenon, <1>5, <2>1 DEF AnswerHolds
    <2>3. PowerMoves("remote", 0, power.ok)
      BY Zenon, <1>5, <1>7, <2>1 DEF ForwardFails, PowerMoves
    <2>4. 0 \in Nat /\ 0 <= 2 /\ 0 <= 1
      OBVIOUS
    <2> QED
      BY Zenon, <1>4, <2>1, <2>2, <2>3, <2>4
  <1>8. ASSUME NEW b \in BOOLEAN, LocalPower(b) PROVE ChassisInv'
    <2>1. power.st = "local" /\ power.cmds = 0
      BY Zenon, <1>8 DEF LocalPower, CommandsCounted
    <2>2. 1 \in Nat /\ 1 <= 2 /\ 1 > 0 /\ power.cmds + 1 = 1
      BY <2>1
    <2>3. /\ power' = [power EXCEPT !.st = "done", !.cmds = 1, !.ok = b]
          /\ on' = Exec(power.host, power.action)
      BY <1>8, <2>2, Zenon DEF LocalPower
    <2>4. PowerMoves("done", 1, b)
      BY Zenon, <1>5, <2>3 DEF PowerMoves
    <2> QED
      BY <1>4, <1>8, <2>1, <2>2, <2>3, <2>4, Zenon
  <1>9. ASSUME NEW runs \in BOOLEAN, NEW b \in BOOLEAN, RemotePower(runs, b) PROVE ChassisInv'
    <2> DEFINE n == IF runs THEN power.cmds + 1 ELSE power.cmds
    <2>1. power.st = "remote" /\ power.cmds <= 1 /\ (b => runs)
      BY Zenon, <1>9 DEF RemotePower, CommandsCounted
    <2>2. PowerMoves("done", n, b) /\ on' = IF runs THEN Exec(power.host, power.action) ELSE on
      BY Zenon, <1>5, <1>9 DEF RemotePower, PowerMoves
    <2>3. power.cmds \in Nat
      BY Zenon, <1>5
    <2>4. n \in Nat /\ n <= 2 /\ (runs => n > 0)
      BY <2>1, <2>3
    <2> HIDE DEF n
    <2> QED
      BY Zenon, <1>4, <1>9, <2>1, <2>2, <2>4
  <1>10. CASE PowerAnswered
    BY Zenon, <1>2, <1>10 DEF PowerAnswered
  <1>11. CASE \E m \in Machines, p \in Machines : Gossip(m, p)
    BY Zenon, <1>1, <1>11 DEF Gossip
  <1>12. CASE UNCHANGED chassisVars
    BY Zenon, <1>1, <1>12 DEF chassisVars
  <1> QED
    BY Zenon, <1>3, <1>6, <1>7, <1>8, <1>9, <1>10, <1>11, <1>12 DEF ChassisNext

\* A power request never takes down the node that serves it, gets no more than
\* two commands, in-band and then out-of-band, and is answered with success
\* only when the machine is as it was asked to be (power.go, control.go).
THEOREM PowerSparesEntry == ChassisSpec => []PowerKeepsEntry
  <1>1. ChassisInit => ChassisInv
    BY DEF ChassisInit, ChassisInv, ChassisTyped, EntrySpared, CommandsCounted, AnswerHolds, NoPowerRequest,
           Actions
  <1>2. ChassisInv => PowerKeepsEntry
    BY DEF ChassisInv, ChassisTyped, EntrySpared, CommandsCounted, AnswerHolds, PowerKeepsEntry
  <1> QED
    BY <1>1, <1>2, ChassisInvNext, PTL DEF ChassisSpec

-----------------------------------------------------------------------------
(* Which models a node runs.  The supervisor was given what is configured  *)
(* and not parked: by the reload or the park request that holds applyMu,   *)
(* or else by the last one that held it.                                   *)

NodeTyped ==
    /\ file \in [models : Versions, clients : 1..2, reloads : BOOLEAN, valid : BOOLEAN]
    /\ config \in [models : Versions, clients : 1..2]
    /\ parked \subseteq Models
    /\ next # Nothing => next \in [models : Versions, current : Versions]
    /\ requests \in Nat

Supplied(models, down) == IF applied /\ ~closed THEN Unparked(models, down) ELSE None

UnderLock ==
    /\ lock \in {"free", "reload", "park"}
    /\ view = parked /\ parked \subseteq Configured(config.models)
    /\ lock = "free" => modelsRun = Supplied(config.models, parked)
    /\ lock = "reload" => next # Nothing /\ modelsRun = Supplied(next.models, parked)
    /\ lock = "park" => /\ park.before \subseteq Configured(config.models)
                        /\ modelsRun = Supplied(config.models, park.before)

NodeInv == NodeTyped /\ UnderLock /\ BackendsStopLast

\* Before the first apply nothing is parked and nothing runs.
LEMMA NodeInvInit == NodeInit => NodeInv
  <1> SUFFICES ASSUME NodeInit PROVE NodeInv
    BY Zenon
  <1> DEFINE first == [m \in Models |-> 1]
  <1>1. first \in Versions
    BY VersionAssumption DEF Versions
  <1> HIDE DEF first
  <1>2. file = [models |-> first, clients |-> 1, reloads |-> FALSE, valid |-> TRUE]
    BY Zenon DEF NodeInit, first
  <1>3. NodeTyped
    BY <1>1, <1>2 DEF NodeInit, NodeTyped
  <1>4. UnderLock /\ BackendsStopLast
    BY Zenon DEF NodeInit, UnderLock, BackendsStopLast, Supplied
  <1> QED
    BY Zenon, <1>3, <1>4 DEF NodeInv

\* Edits, requests and the phases of Run leave the configuration alone.
LEMMA NodeRuns ==
    ASSUME NodeInv,
           Begin \/ End \/ Stop \/ (\E ok \in BOOLEAN : MeshStart(ok)) \/ ApplyRunning \/ Leave
           \/ StopListening \/ GraceOver \/ StopBackends \/ Exit
    PROVE  NodeInv'
  <1> USE DEF NodeInv, NodeTyped, UnderLock, BackendsStopLast, Supplied, reloadVars, runVars
  <1>1. CASE Begin
    <2>1. requests + 1 \in Nat
      BY DEF NodeInv, NodeTyped
    <2>2. phase \notin {"closing", "exited"}
      BY Zenon, <1>1 DEF Begin
    <2> QED
      BY Zenon, <1>1, <2>1, <2>2 DEF Begin
  <1>2. CASE End
    <2>1. requests > 0 /\ requests \in Nat
      BY Zenon, <1>2 DEF End
    <2>2. requests # 0 /\ requests - 1 \in Nat
      BY <2>1, Z3
    <2> QED
      BY Zenon, <1>2, <2>2 DEF End
  <1>3. CASE Stop
    BY Zenon, <1>3 DEF Stop
  <1>4. CASE \E ok \in BOOLEAN : MeshStart(ok)
    <2>1. phase \notin {"closing", "exited"}
      BY Zenon, <1>4 DEF MeshStart
    <2>2. UNCHANGED <<file, config, next, parked, view, applied, modelsRun, closed, lock, park, requests, grace>>
      BY Zenon, <1>4 DEF MeshStart
    <2> QED
      BY Zenon, <2>1, <2>2
  <1>5. CASE ApplyRunning
    BY Zenon, <1>5 DEF ApplyRunning
  <1>6. CASE Leave
    BY Zenon, <1>6 DEF Leave
  <1>7. CASE StopListening
    BY Zenon, <1>7 DEF StopListening
  <1>8. CASE GraceOver
    BY Zenon, <1>8 DEF GraceOver
  <1>9. CASE StopBackends
    BY Zenon, <1>9 DEF StopBackends
  <1>10. CASE Exit
    BY Zenon, <1>10 DEF Exit
  <1> QED
    BY Zenon, <1>1, <1>2, <1>3, <1>4, <1>5, <1>6, <1>7, <1>8, <1>9, <1>10

\* What is parked and no longer configured makes no difference.
LEMMA UnparkedPruned ==
    ASSUME NEW models \in Versions, NEW down \in SUBSET Models
    PROVE  Unparked(models, down \cap Configured(models)) = Unparked(models, down)
  BY Zenon DEF Unparked, Configured, Versions

\* Reloads: the file is read without applyMu, applied and stored under it.
LEMMA NodeReloads ==
    ASSUME NodeInv, ReloadRead \/ ReloadApply \/ ReloadStore
    PROVE  NodeInv'
  <1>1. CASE ReloadRead
    <2>1. config' \in [models : Versions, clients : 1..2] /\ config'.models = config.models
      BY Zenon, <1>1 DEF NodeInv, NodeTyped, ReloadRead, ApplyClients
    <2>2. next' # Nothing => next' \in [models : Versions, current : Versions]
      <3>1. file.models \in Versions /\ config.models \in Versions
        BY Zenon DEF NodeInv, NodeTyped
      <3>2. [models |-> file.models, current |-> config.models] \in [models : Versions, current : Versions]
        BY Zenon, <3>1
      <3> QED
        BY Zenon, <1>1, <3>2 DEF NodeInv, NodeTyped, ReloadRead
    <2>3. lock # "reload"
      BY Zenon, <1>1 DEF NodeInv, UnderLock, ReloadRead
    <2> QED
      BY Zenon, <1>1, <2>1, <2>2, <2>3
      DEF NodeInv, NodeTyped, UnderLock, BackendsStopLast, Supplied, ReloadRead, runVars
  <1>2. CASE ReloadApply
    BY Zenon, <1>2 DEF NodeInv, NodeTyped, UnderLock, BackendsStopLast, Supplied, ReloadApply, runVars
  <1>3. CASE ReloadStore
    <2>1. /\ next \in [models : Versions, current : Versions]
          /\ modelsRun = Supplied(next.models, parked) /\ parked \in SUBSET Models
      BY Zenon, <1>3 DEF NodeInv, NodeTyped, UnderLock, ReloadStore
    <2>2. config' \in [models : Versions, clients : 1..2] /\ config'.models = next.models
      BY Zenon, <1>3, <2>1 DEF NodeInv, NodeTyped, ReloadStore
    <2>3. /\ parked' = parked \cap Configured(next.models) /\ view' = parked'
      BY Zenon, <1>3 DEF NodeInv, UnderLock, ReloadStore, PruneParked
    <2>4. modelsRun' = Supplied(config.models, parked)'
      BY Zenon, <1>3, <2>1, <2>2, <2>3, UnparkedPruned DEF ReloadStore, Supplied
    <2> QED
      BY Zenon, <1>3, <2>1, <2>2, <2>3, <2>4
      DEF NodeInv, NodeTyped, UnderLock, BackendsStopLast, ReloadStore, runVars
  <1> QED
    BY Zenon, <1>1, <1>2, <1>3

\* Park requests: the set is published before the supervisor hears of it, and
\* put back when it refuses.
LEMMA NodeParks ==
    ASSUME NodeInv,
           (\E names \in SUBSET Models, down \in BOOLEAN : ParkPublish(names, down)) \/ ParkApply
    PROVE  NodeInv'
  <1>1. ASSUME NEW names \in SUBSET Models, NEW down \in BOOLEAN, ParkPublish(names, down)
        PROVE  NodeInv'
    <2> DEFINE conf == Configured(config.models)
               want == IF names = {} THEN conf ELSE names
               then == IF down THEN parked \cup want ELSE parked \ want
    <2>1. /\ lock = "free" /\ UNCHANGED <<file, config, next, applied, modelsRun, closed, phase, requests, grace>>
          /\ phase \in {"joining", "starting", "serving", "leaving"}
          /\ IF want \subseteq conf /\ then # parked
             THEN /\ parked' = then /\ view' = then /\ lock' = "park"
                  /\ park' = [before |-> parked, down |-> down]
             ELSE UNCHANGED <<parked, view, park, lock>>
      BY Zenon, <1>1 DEF ParkPublish, reloadVars, runVars
    <2>2. conf \subseteq Models
      BY Zenon DEF Configured
    <2>3. want \subseteq conf => then \subseteq conf
      BY Zenon DEF NodeInv, UnderLock
    <2> HIDE DEF conf, want, then
    <2>4. CASE want \subseteq conf /\ then # parked
      <3>1. phase \notin {"closing", "exited"} /\ then \subseteq Models /\ then \subseteq conf
        BY Zenon, <2>1, <2>2, <2>3, <2>4
      <3>2. park' = [before |-> parked, down |-> down] /\ lock' = "park"
        BY Zenon, <2>1, <2>4
      <3>3. park'.before = parked
        BY Zenon, <3>2
      <3> QED
        BY Zenon, <2>1, <2>4, <3>1, <3>2, <3>3
        DEF conf, NodeInv, NodeTyped, UnderLock, BackendsStopLast, Supplied
    <2>5. CASE ~(want \subseteq conf /\ then # parked)
      BY Zenon, <2>1, <2>5 DEF NodeInv, NodeTyped, UnderLock, BackendsStopLast, Supplied
    <2> QED
      BY Zenon, <2>4, <2>5
  <1>2. CASE ParkApply
    <2>1. /\ lock = "park" /\ lock' = "free"
          /\ UNCHANGED <<file, config, next, applied, closed, phase, requests, grace>>
      BY Zenon, <1>2 DEF ParkApply, reloadVars, runVars
    <2>2. Configured(config.models) \subseteq Models /\ park.before \subseteq Configured(config.models)
      BY Zenon, <2>1 DEF NodeInv, UnderLock, Configured
    <2>3. CASE applied /\ closed
      <3>1. parked' = park.before /\ view' = park.before /\ modelsRun' = modelsRun
        BY Zenon, <1>2, <2>3 DEF ParkApply
      <3> QED
        BY Zenon, <2>1, <2>2, <2>3, <3>1 DEF NodeInv, NodeTyped, UnderLock, BackendsStopLast, Supplied
    <2>4. CASE ~(applied /\ closed)
      <3>1. /\ parked' = parked /\ view' = view
            /\ modelsRun' = IF applied THEN Unparked(config.models, parked) ELSE modelsRun
        BY Zenon, <1>2, <2>4 DEF ParkApply
      <3>2. modelsRun' = Supplied(config.models, parked)'
        BY Zenon, <2>1, <2>4, <3>1 DEF NodeInv, UnderLock, Supplied
      <3> QED
        BY Zenon, <2>1, <2>4, <3>1, <3>2 DEF NodeInv, NodeTyped, UnderLock, BackendsStopLast, Supplied
    <2> QED
      BY Zenon, <2>3, <2>4
  <1> QED
    BY Zenon, <1>1, <1>2

\* Every step keeps the invariant.
LEMMA NodeInvNext == NodeInv /\ [NodeNext]_nodeVars => NodeInv'
  <1> SUFFICES ASSUME NodeInv, [NodeNext]_nodeVars PROVE NodeInv'
    BY Zenon
  <1>1. ASSUME NEW models \in Versions, NEW c \in 1..2, NEW reloads \in BOOLEAN, NEW valid \in BOOLEAN,
               NEW signal \in BOOLEAN,
               Edit([models |-> models, clients |-> c, reloads |-> reloads, valid |-> valid], signal)
        PROVE  NodeInv'
    BY Zenon, <1>1 DEF Edit, NodeInv, NodeTyped, UnderLock, BackendsStopLast, Supplied, runVars
  <1>2. CASE UNCHANGED nodeVars
    BY Zenon, <1>2 DEF nodeVars, reloadVars, runVars, NodeInv, NodeTyped, UnderLock, BackendsStopLast, Supplied
  <1> QED
    BY Zenon, <1>1, <1>2, NodeReloads, NodeParks, NodeRuns DEF NodeNext

\* Reload, Park and applyRunning, in any order and however they meet a
\* shutdown, leave the supervisor with the configured models that are not
\* parked; and shutdown stops the backends after the requests or at the end of
\* the grace, and nothing starts one again (park.go, reload.go, node.go).
THEOREM NodeIsSafe == NodeSpec => []NodeSafe
  <1>1. NodeInv => NodeSafe
    BY Zenon DEF NodeInv, UnderLock, Supplied, NodeSafe, RunsWhatIsConfigured
  <1> QED
    BY <1>1, NodeInvInit, NodeInvNext, PTL DEF NodeSpec

-----------------------------------------------------------------------------
(* The images of a managed host.  A run of the helper works on its copy of *)
(* the record, which names the image the one on disk does as prepared or,  *)
(* once the run has answered a stage, the one it answered for.             *)

RecordFields == {"history", "pulled", "prepared"}

HelperTrue ==
    helper # Idle =>
        /\ {"at", "st", "req", "rec", "round"} \subseteq DOMAIN helper
        /\ DOMAIN helper.rec = RecordFields
        /\ PreparedKept(helper.rec)
        /\ \/ helper.rec.prepared = record.prepared
           \/ result.ok /\ helper.rec.prepared = result.version /\ helper.at # "answer"
        /\ helper.at = "up" => helper.was \in images

ImagesInv ==
    /\ image \in images /\ container \in images
    /\ DOMAIN record = RecordFields /\ PreparedKept(record)
    /\ HelperTrue

\* Nothing of the host moves but the container it has, and the helper stays,
\* ends or goes on.
LEMMA ImagesStay ==
    ASSUME ImagesInv, images \subseteq images', image' \in images', container' \in images',
           record' = record, result' = result, helper' = helper \/ helper' = Idle
    PROVE  ImagesInv'
  BY Zenon DEF ImagesInv, HelperTrue, PreparedKept

\* The helper goes on to another step of its run.
LEMMA HelperGoesOn ==
    ASSUME ImagesInv, helper # Idle, NEW a, a \notin {"up", "answer"},
           images \subseteq images', image' \in images', container' \in images',
           record' = record, result' = result, helper' = [helper EXCEPT !.at = a]
    PROVE  ImagesInv'
  <1>1. /\ DOMAIN helper' = DOMAIN helper /\ helper'.at = a /\ helper'.rec = helper.rec
    BY Zenon DEF ImagesInv, HelperTrue
  <1> QED
    BY <1>1, Zenon DEF ImagesInv, HelperTrue, PreparedKept

\* prepare only adds an image.
LEMMA PreparedAdds ==
    ASSUME NEW v, NEW ok, Prepared(v, ok)
    PROVE  images \subseteq images' /\ (ok => v \in images')
  BY Zenon DEF Prepared

\* The helper's answer to a request of the node.
LEMMA ImagesAnswer ==
    ASSUME ImagesInv, NEW ok \in BOOLEAN, Answer(ok)
    PROVE  ImagesInv'
  <1>1. helper # Idle /\ helper.at = "answer" /\ UNCHANGED <<container, image, record>>
    BY Zenon DEF Answer
  <1>2. CASE request.id = 0 \/ result.id = request.id
    <2>1. helper' = [helper EXCEPT !.at = "follow"] /\ images' = images /\ result' = result
      BY <1>2, Zenon DEF Answer
    <2>2. "follow" \notin {"up", "answer"}
      BY Zenon
    <2> QED
      BY <1>1, <2>1, <2>2, HelperGoesOn, Zenon DEF ImagesInv
  <1>3. CASE ~(request.id = 0 \/ result.id = request.id)
    <2> DEFINE v == request.version
               may == MayMoveTo(helper.rec, image, v)
    <2>1. /\ IF may THEN Prepared(v, ok) ELSE ok /\ UNCHANGED <<images, faults>>
          /\ result' = [version |-> v, id |-> request.id, ok |-> ok /\ may]
          /\ helper' = [helper EXCEPT !.at = "follow",
                          !.rec.pulled = IF ok /\ may THEN PulledWith(helper.rec, v) ELSE @,
                          !.rec.prepared = IF ok /\ may THEN v ELSE @]
      BY <1>3, Zenon DEF Answer
    <2>2. images \subseteq images' /\ (ok /\ may => v \in images')
      BY <2>1, PreparedAdds, Zenon
    <2>3. /\ {"at", "st", "req", "rec", "round"} \subseteq DOMAIN helper
          /\ DOMAIN helper.rec = {"history", "pulled", "prepared"}
          /\ helper.rec.prepared = record.prepared
      BY <1>1, Zenon DEF ImagesInv, HelperTrue, RecordFields
    <2> HIDE DEF may, v
    <2>4. PICK q : helper' = [helper EXCEPT !.at = "follow", !.rec.pulled = q,
                                            !.rec.prepared = IF ok /\ may THEN v ELSE helper.rec.prepared]
      BY Zenon, <2>1, <2>3
    <2>5. /\ {"at", "st", "req", "rec", "round"} \subseteq DOMAIN helper'
          /\ DOMAIN helper'.rec = {"history", "pulled", "prepared"}
          /\ helper'.at = "follow" /\ helper'.rec.prepared = IF ok /\ may THEN v ELSE helper.rec.prepared
      BY Zenon, <2>3, <2>4
    <2>6. result'.version = v /\ (result'.ok <=> ok /\ may) /\ helper'.at \notin {"up", "answer"}
      BY Zenon, <2>1, <2>5
    <2>7. PreparedKept(helper.rec)' /\ PreparedKept(record)'
      BY Zenon, <1>1, <2>2, <2>5, <2>6 DEF PreparedKept
    <2>8. \/ helper'.rec.prepared = record'.prepared
          \/ result'.ok /\ helper'.rec.prepared = result'.version
      BY Zenon, <1>1, <2>3, <2>5, <2>6
    <2> QED
      BY <1>1, <2>2, <2>5, <2>6, <2>7, <2>8, Zenon DEF ImagesInv, HelperTrue, RecordFields
  <1> QED
    BY <1>2, <1>3, Zenon

\* Every step keeps the images that may be needed.
LEMMA ImagesInvNext == ImagesInv /\ [ManNext]_manVars => ImagesInv'
  <1> SUFFICES ASSUME ImagesInv, [ManNext]_manVars PROVE ImagesInv'
    BY Zenon
  <1>1. CASE UNCHANGED <<image, images, container, record, result>> /\ (helper' = helper \/ helper' = Idle)
    BY <1>1, ImagesStay, Zenon DEF ImagesInv
  <1>2. ASSUME \/ \E v \in Release : Stage(v) \/ Activate(v)
               \/ StageAnswered \/ StageTimeout \/ Rollback \/ (\E w \in waits : AwaitHelper(w))
               \/ Confirm \/ ConfirmFails \/ Start \/ NodeCrash \/ HostCrash \/ UNCHANGED manVars
        PROVE  ImagesInv'
    BY <1>1, <1>2, Zenon DEF Stage, Activate, StageAnswered, StageTimeout, Rollback, AwaitHelper, Confirm, ConfirmFails,
                             Start, NodeCrash, HostCrash, Down, manVars, hostVs
  <1>3. CASE SyncStart
    <2>1. /\ helper' = [at |-> "answer", st |-> st, req |-> request, rec |-> record, round |-> 1]
          /\ UNCHANGED <<image, images, container, record, result>>
      BY <1>3, Zenon DEF SyncStart
    <2>2. /\ {"at", "st", "req", "rec", "round"} \subseteq DOMAIN helper'
          /\ helper'.rec = record /\ helper'.at # "up"
      BY Zenon, <2>1
    <2> QED
      BY <2>1, <2>2, Zenon DEF ImagesInv, HelperTrue, PreparedKept
  <1>4. CASE FollowNothing \/ FollowRefused \/ SelfUpdate
    <2>1. /\ helper # Idle /\ UNCHANGED <<image, images, container, record, result>>
          /\ \E a \in {"cli", "gc"} : helper' = [helper EXCEPT !.at = a]
      BY <1>4, Zenon DEF FollowNothing, FollowRefused, SelfUpdate
    <2>2. {"cli", "gc"} \cap {"up", "answer"} = {}
      BY Zenon
    <2> QED
      BY <2>1, <2>2, HelperGoesOn, Zenon DEF ImagesInv
  <1>5. ASSUME NEW ok \in BOOLEAN, FollowSwap(ok) PROVE ImagesInv'
    <2>1. helper # Idle /\ helper.at # "answer" /\ UNCHANGED <<container, record, result>> /\ Prepared(Target, ok)
      BY <1>5, Zenon DEF FollowSwap
    <2>2. images \subseteq images' /\ (ok => Target \in images')
      BY <2>1, PreparedAdds, Zenon
    <2>3. CASE ok
      <3> DEFINE r == [helper.rec EXCEPT !.pulled = PulledWith(helper.rec, Target)]
      <3>1. /\ image' = Target
            /\ helper' = [at |-> "up", st |-> helper.st, req |-> helper.req, round |-> helper.round, was |-> image, rec |-> r]
        BY Zenon, <1>5, <2>3 DEF FollowSwap
      <3>2. DOMAIN r = RecordFields /\ r.prepared = helper.rec.prepared
        BY Zenon, <2>1 DEF ImagesInv, HelperTrue, RecordFields
      <3> HIDE DEF r
      <3>3. /\ {"at", "st", "req", "rec", "round"} \subseteq DOMAIN helper' /\ helper'.rec = r /\ helper'.was = image
            /\ helper'.at # "answer"
        BY Zenon, <3>1
      <3>4. PreparedKept(helper.rec)' /\ PreparedKept(record)'
        BY Zenon, <2>1, <2>2, <3>2, <3>3 DEF PreparedKept, ImagesInv, HelperTrue
      <3> QED
        BY <2>1, <2>2, <2>3, <3>1, <3>2, <3>3, <3>4, Zenon DEF ImagesInv, HelperTrue
    <2>4. CASE ~ok
      <3>1. helper' = [helper EXCEPT !.at = "gc"] /\ image' = image
        BY <1>5, <2>4, Zenon DEF FollowSwap
      <3>2. "gc" \notin {"up", "answer"}
        BY Zenon
      <3> QED
        BY <2>1, <2>2, <3>1, <3>2, HelperGoesOn, Zenon DEF ImagesInv
    <2> QED
      BY <2>3, <2>4, Zenon
  <1>6. ASSUME NEW ok \in BOOLEAN, ComposeUp(ok) PROVE ImagesInv'
    <2>1. helper # Idle /\ helper.at = "up" /\ UNCHANGED <<images, record, result>>
      BY <1>6, Zenon DEF ComposeUp
    <2>2. "record" \notin {"up", "answer"} /\ "gc" \notin {"up", "answer"}
      BY Zenon
    <2>3. CASE ok
      <3>1. container' = image /\ image' = image /\ helper' = [helper EXCEPT !.at = "record"]
        BY <1>6, <2>3, Zenon DEF ComposeUp
      <3> QED
        BY <2>1, <2>2, <3>1, HelperGoesOn, Zenon DEF ImagesInv
    <2>4. CASE ~ok
      <3>1. image' = helper.was /\ container' = container /\ helper' = [helper EXCEPT !.at = "gc"]
        BY <1>6, <2>4, Zenon DEF ComposeUp
      <3>2. helper.was \in images
        BY <2>1, Zenon DEF ImagesInv, HelperTrue
      <3> QED
        BY <2>1, <2>2, <3>1, <3>2, HelperGoesOn, Zenon DEF ImagesInv
    <2> QED
      BY <2>3, <2>4, Zenon
  <1>7. CASE SaveSwap
    <2>1. helper # Idle /\ UNCHANGED <<image, images, container, result>>
      BY <1>7, Zenon DEF SaveSwap
    <2> DEFINE p == IF helper.rec.prepared = image THEN 0 ELSE helper.rec.prepared
    <2>2. PICK h : LET r == [helper.rec EXCEPT !.history = h, !.prepared = p]
                   IN record' = r /\ helper' = [helper EXCEPT !.at = "cli", !.rec = r]
      BY Zenon, <1>7 DEF SaveSwap
    <2> DEFINE r == [helper.rec EXCEPT !.history = h, !.prepared = p]
    <2>3. /\ {"at", "st", "req", "rec", "round"} \subseteq DOMAIN helper
          /\ DOMAIN helper.rec = {"history", "pulled", "prepared"}
          /\ result.ok /\ p = result.version => p \in images \cup {0}
      BY Zenon, <2>1 DEF ImagesInv, HelperTrue, RecordFields, PreparedKept
    <2>4. DOMAIN r = {"history", "pulled", "prepared"} /\ r.prepared = p
      BY Zenon, <2>3
    <2> HIDE DEF r
    <2>5. record' = r /\ helper' = [helper EXCEPT !.at = "cli", !.rec = r]
      BY Zenon, <2>2 DEF r
    <2>6. {"at", "st", "req", "rec", "round"} \subseteq DOMAIN helper' /\ helper'.at # "up" /\ helper'.rec = r
      BY Zenon, <2>3, <2>5
    <2> HIDE DEF p
    <2>7. PreparedKept(helper.rec)' /\ PreparedKept(record)'
      BY Zenon, <2>1, <2>3, <2>4, <2>5, <2>6 DEF PreparedKept
    <2> QED
      BY <2>1, <2>3, <2>4, <2>5, <2>6, <2>7, Zenon DEF ImagesInv, HelperTrue, RecordFields
  <1>8. CASE Gc
    <2> DEFINE r == [helper.rec EXCEPT !.pulled = helper.rec.pulled \ Removed(helper.rec)]
    <2>1. /\ helper # Idle /\ UNCHANGED <<image, container, record, result>>
          /\ images' = images \ Removed(helper.rec)
          /\ helper' = [helper EXCEPT !.at = "save", !.rec.pulled = helper.rec.pulled \ Removed(helper.rec)]
      BY <1>8, Zenon DEF Gc
    <2>2. /\ {"at", "st", "req", "rec", "round"} \subseteq DOMAIN helper
          /\ DOMAIN helper.rec = {"history", "pulled", "prepared"}
      BY Zenon, <2>1 DEF ImagesInv, HelperTrue, RecordFields
    <2>3. /\ {"at", "st", "req", "rec", "round"} \subseteq DOMAIN helper'
          /\ helper'.at \notin {"up", "answer"}
          /\ DOMAIN helper'.rec = RecordFields /\ helper'.rec.prepared = helper.rec.prepared
      BY Zenon, <2>1, <2>2 DEF RecordFields
    <2>4. image \notin Removed(helper.rec) /\ container \notin Removed(helper.rec)
          /\ helper.rec.prepared \notin Removed(helper.rec)
      BY Zenon DEF Removed, Keep
    <2>5. PreparedKept(helper.rec)'
      <3>1. result.ok /\ helper.rec.prepared = result.version => helper.rec.prepared \in images \cup {0}
        BY <2>1, Zenon DEF ImagesInv, HelperTrue, PreparedKept
      <3>2. result.ok /\ helper.rec.prepared = result.version => helper.rec.prepared \in images' \cup {0}
        BY <2>1, <2>4, <3>1, Zenon
      <3> QED
        BY <2>1, <2>3, <3>2, Zenon DEF PreparedKept
    <2>6. ASSUME result.ok, record.prepared = result.version PROVE record.prepared \in images' \cup {0}
      <3>1. record.prepared = helper.rec.prepared
        BY <2>1, <2>6, Zenon DEF ImagesInv, HelperTrue
      <3>2. record.prepared \in images \cup {0}
        BY <2>6, Zenon DEF ImagesInv, PreparedKept
      <3> QED
        BY <2>1, <2>4, <3>1, <3>2, Zenon
    <2>7. PreparedKept(record)'
      BY <2>1, <2>6, Zenon DEF PreparedKept
    <2> QED
      BY <2>1, <2>3, <2>4, <2>5, <2>7, Zenon DEF ImagesInv, HelperTrue
  <1>9. CASE SaveRecord
    <2>1. /\ helper # Idle /\ UNCHANGED <<image, images, container, result>> /\ record' = helper.rec
          /\ \/ helper' = Idle
             \/ helper' = [at |-> "answer", st |-> st, req |-> request, rec |-> helper.rec,
                           round |-> helper.round + 1]
      BY <1>9, Zenon DEF SaveRecord
    <2>2. helper' # Idle => /\ {"at", "st", "req", "rec", "round"} \subseteq DOMAIN helper'
                            /\ helper'.at # "up" /\ helper'.rec = helper.rec
      BY <2>1
    <2>3. DOMAIN record' = RecordFields /\ PreparedKept(record)' /\ (helper' # Idle => PreparedKept(helper.rec)')
      BY <2>1, <2>2, Zenon DEF ImagesInv, HelperTrue, PreparedKept
    <2> QED
      BY <2>1, <2>2, <2>3, Zenon DEF ImagesInv, HelperTrue
  <1> QED
    BY <1>2, <1>3, <1>4, <1>5, <1>6, <1>7, <1>8, <1>9, ImagesAnswer, Zenon DEF ManNext

\* ... so it always does.
LEMMA ImagesInvAlways == ManSpec => []ImagesInv
  <1>1. ASSUME ManInit PROVE ImagesInv
    <2>1. record = [history |-> <<>>, pulled |-> staged, prepared |-> request.version]
      BY Zenon, <1>1 DEF ManInit
    <2>2. DOMAIN record = RecordFields /\ record.prepared = request.version
      BY Zenon, <2>1 DEF RecordFields
    <2>3. request.version \in staged
      BY Zenon, <1>1 DEF ManInit
    <2> QED
      BY Zenon, <1>1, <2>2, <2>3 DEF ManInit, ImagesInv, HelperTrue, PreparedKept
  <1> QED
    BY <1>1, ImagesInvNext, PTL DEF ManSpec

\* The image of the compose file, the one it replaced while the swap can still
\* be taken back, the container's and, while the record names it, the one
\* prepared for the node's last stage are never removed, wherever a run of the
\* helper fails or ends, also between its removals and its save (enginesync.go).
THEOREM ImagesAreKept == ManSpec => []ImagesKept
  <1>1. ImagesInv => ImagesKept
    BY Zenon DEF ImagesInv, HelperTrue, ImagesKept
  <1> QED
    BY <1>1, ImagesInvAlways, PTL

\* selfUpdate moves the host's CLI forward only, to a release that is on the
\* host and that the node had confirmed when the run read its state.
THEOREM CliIsConfirmed == ManSpec => CliConfirmed
  <1>1. ASSUME ImagesInv, ManNext, cli' # cli
        PROVE  cli' > cli /\ helper.st.pending = 0 /\ helper.st.lastGood = cli' /\ cli' \in images
    <2>1. SelfUpdate
      BY <1>1, Zenon DEF ManNext, Stage, StageAnswered, StageTimeout, Activate, Rollback, AwaitHelper, Confirm, ConfirmFails,
                         Start, NodeCrash, SyncStart, Answer, FollowNothing, FollowRefused, FollowSwap, ComposeUp, SaveSwap,
                         Gc, SaveRecord, HostCrash, hostVs
    <2>2. /\ helper.st.pending = 0 /\ helper.st.lastGood = helper.st.current /\ image = helper.st.current
          /\ cli < helper.st.current /\ cli' = helper.st.current
      BY <1>1, <2>1, Zenon DEF SelfUpdate
    <2>3. cli' > cli
      BY Zenon, <2>2
    <2> QED
      BY <1>1, <2>2, <2>3, Zenon DEF ImagesInv
  <1>2. ImagesInv /\ [ManNext]_manVars =>
          [cli' # cli => /\ cli' > cli
                         /\ helper.st.pending = 0 /\ helper.st.lastGood = cli'
                         /\ cli' \in images]_manVars
    BY <1>1, Zenon
  <1> QED
    BY <1>2, ImagesInvAlways, PTL DEF ManSpec, CliConfirmed

-----------------------------------------------------------------------------
(* Sharing a session's K/V.                                                *)

ReplicaFields == {"complete", "kv", "rest", "digest", "save", "chunks", "trailer", "no"}
AtSaved == {"saved", "begun", "rest", "kv"}

PushShape(p) ==
    /\ p.at \in {"idle", "asked"} \cup AtSaved
    /\ p.at = "idle" => p = NoPush
    /\ p.at \in AtSaved => DOMAIN p = {"at", "n", "base", "keep"}

PushShaped == push = [s \in Senders |-> push[s]] /\ \A s \in Senders : PushShape(push[s])

SavedFiles == [kv : Seq(Nat), rest : Nat, by : Senders]
FilesTyped == files \in Seq(SavedFiles)

\* A put holds the key's lock, and only while the receiver runs.
PutsLocked ==
    /\ keyLock \in Senders \cup {Absent}
    /\ \A s \in Senders : Putting(s) => keyLock = s /\ receiving

\* What a put is about was saved; the replica it patches is marked, and has
\* the save's rest as soon as that section is patched.
PutsPatch ==
    \A s \in Senders :
        /\ push[s].at \in AtSaved => push[s].n \in Keys
        /\ Putting(s) => DOMAIN replica = ReplicaFields /\ replica.complete = FALSE
        /\ push[s].at \in {"rest", "kv"} => replica.rest = files[push[s].n].rest

\* A complete replica names a save: its digest, or its chunks and its rest.
ReplicaNames ==
    IF replica.trailer
    THEN replica.save \in Keys /\ replica.chunks = files[replica.save].kv /\ replica.rest = files[replica.save].rest
    ELSE replica.digest \in Keys

ReplicaTrue ==
    keyLock # Absent \/ Complete =>
        /\ DOMAIN replica = ReplicaFields
        /\ replica.complete => ReplicaNames /\ replica.no \in Nat /\ replica.no <= puts

StoreInv == PushShaped /\ FilesTyped /\ PutsLocked /\ PutsPatch /\ ReplicaTrue /\ puts \in Nat

\* Nothing of the store moves, and no push goes on.
LEMMA StoreStays ==
    ASSUME StoreInv, PushShaped', UNCHANGED <<replica, files, puts>>,
           \A s \in Senders : push'[s] = push[s] \/ push'[s].at \in {"idle", "asked"},
           \/ keyLock' = keyLock /\ receiving' = receiving
           \/ keyLock' = Absent /\ \A s \in Senders : push'[s].at \notin {"begun", "rest", "kv"}
    PROVE  StoreInv'
  <1>1. FilesTyped' /\ puts' \in Nat
    BY Zenon DEF StoreInv, FilesTyped
  <1>2. PutsLocked'
    <2>1. keyLock' \in Senders \cup {Absent}
      BY Zenon DEF StoreInv, PutsLocked
    <2>2. ASSUME NEW s \in Senders, push'[s].at \in {"begun", "rest", "kv"} PROVE keyLock' = s /\ receiving'
      <3>1. keyLock' = keyLock /\ receiving' = receiving
        BY <2>2, Zenon
      <3>2. push'[s] = push[s]
        BY Zenon, <2>2
      <3> QED
        BY <2>2, <3>1, <3>2, Zenon DEF StoreInv, PutsLocked, Putting
    <2> QED
      BY <2>1, <2>2, Zenon DEF PutsLocked, Putting
  <1>3. PutsPatch'
    <2> SUFFICES ASSUME NEW s \in Senders
                 PROVE  /\ push'[s].at \in AtSaved => push'[s].n \in Keys'
                        /\ Putting(s)' => DOMAIN replica' = ReplicaFields /\ replica'.complete = FALSE
                        /\ push'[s].at \in {"rest", "kv"} => replica'.rest = files'[push'[s].n].rest
      BY Zenon DEF PutsPatch
    <2>1. CASE push'[s] = push[s]
      BY <2>1, Zenon DEF StoreInv, PutsPatch, Putting, Keys
    <2>2. CASE push'[s].at \in {"idle", "asked"}
      BY <2>2, Zenon DEF AtSaved, Putting
    <2> QED
      BY <2>1, <2>2, Zenon
  <1>4. ReplicaTrue'
    BY Zenon DEF StoreInv, ReplicaTrue, Complete, ReplicaNames, Keys
  <1> QED
    BY <1>1, <1>2, <1>3, <1>4, Zenon DEF StoreInv

\* The replica is removed, by whoever holds the lock or with the lock free.
LEMMA StoreDropped ==
    ASSUME StoreInv, PushShaped', UNCHANGED <<files, puts>>, DropReplica,
           \A s \in Senders : push'[s] = push[s] \/ push'[s] = NoPush,
           \A s \in Senders : ~Putting(s)'
    PROVE  StoreInv'
  <1>1. FilesTyped' /\ puts' \in Nat /\ PutsLocked'
    BY Zenon DEF StoreInv, FilesTyped, PutsLocked, DropReplica
  <1>2. PutsPatch'
    <2> SUFFICES ASSUME NEW s \in Senders
                 PROVE  /\ push'[s].at \in AtSaved => push'[s].n \in Keys'
                        /\ Putting(s)' => DOMAIN replica' = ReplicaFields /\ replica'.complete = FALSE
                        /\ push'[s].at \in {"rest", "kv"} => replica'.rest = files'[push'[s].n].rest
      BY Zenon DEF PutsPatch
    <2>1. ~Putting(s)' /\ push'[s].at \notin {"rest", "kv"}
      BY Zenon DEF Putting
    <2>2. CASE push'[s] = push[s]
      BY <2>1, <2>2, Zenon DEF StoreInv, PutsPatch, Keys
    <2>3. CASE push'[s] = NoPush
      BY <2>1, <2>3 DEF AtSaved, NoPush
    <2> QED
      BY <2>2, <2>3, Zenon
  <1>3. ReplicaTrue'
    BY Zenon DEF ReplicaTrue, Complete, DropReplica
  <1> QED
    BY <1>1, <1>2, <1>3, Zenon DEF StoreInv

\* One push moves.
LEMMA PushMoves ==
    ASSUME PushShaped, NEW s \in Senders, NEW p, PushShape(p), push' = [push EXCEPT ![s] = p]
    PROVE  PushShaped' /\ push'[s] = p /\ \A t \in Senders \ {s} : push'[t] = push[t]
  <1>1. push'[s] = p /\ \A t \in Senders \ {s} : push'[t] = push[t]
    BY Zenon DEF PushShaped
  <1>2. push' = [t \in Senders |-> push'[t]]
    BY Zenon DEF PushShaped
  <1> QED
    BY <1>1, <1>2, Zenon DEF PushShaped

\* A put goes on to its next section.
LEMMA PushGoesOn ==
    ASSUME PushShaped, NEW s \in Senders, NEW a \in AtSaved, push[s].at \in AtSaved,
           push' = [push EXCEPT ![s].at = a]
    PROVE  /\ PushShaped' /\ \A t \in Senders \ {s} : push'[t] = push[t]
           /\ push'[s].at = a /\ push'[s].n = push[s].n
  <1> DEFINE p == [push[s] EXCEPT !.at = a]
  <1>1. DOMAIN push[s] = {"at", "n", "base", "keep"}
    BY Zenon DEF PushShaped, PushShape
  <1>2. p.at = a /\ p.n = push[s].n /\ DOMAIN p = {"at", "n", "base", "keep"}
    BY Zenon, <1>1
  <1>3. push' = [push EXCEPT ![s] = p]
    BY Zenon
  <1>4. PushShape(p)
    BY <1>2, Zenon DEF PushShape, AtSaved
  <1> HIDE DEF p
  <1> QED
    BY <1>2, <1>3, <1>4, PushMoves, Zenon

\* A push that ends, or has only asked.
LEMMA PushEnds ==
    ASSUME PushShaped, NEW s \in Senders, NEW p, p.at = "asked" \/ p = NoPush, push' = [push EXCEPT ![s] = p]
    PROVE  PushShaped' /\ push'[s] = p /\ \A t \in Senders \ {s} : push'[t] = push[t]
  <1>1. PushShape(p)
    BY DEF PushShape, NoPush, AtSaved
  <1> QED
    BY <1>1, PushMoves, Zenon

\* A save adds a file and leaves the others as they are.
LEMMA SaveAdds ==
    ASSUME FilesTyped, NEW s \in Senders, NEW from \in 0..MaxFiles, NEW delta \in BOOLEAN,
           from <= Len(files), Save(s, from, delta)
    PROVE  /\ FilesTyped' /\ Len(files) + 1 \in Keys'
           /\ \A k \in Keys : k \in Keys' /\ files'[k] = files[k]
  <1> DEFINE n == Len(files) + 1
             kv == IF from = 0 THEN <<n>> ELSE Append(files[from].kv, n)
  <1>1. n \in Nat /\ kv \in Seq(Nat)
    <2>1. n \in Nat
      BY DEF FilesTyped
    <2>2. CASE from = 0
      BY <2>1, <2>2
    <2>3. CASE from # 0
      <3>1. files[from] \in SavedFiles
        BY <2>3, BoundAssumption DEF FilesTyped
      <3>2. files[from].kv \in Seq(Nat)
        BY <3>1, Zenon DEF SavedFiles
      <3> QED
        BY <2>1, <2>3, <3>2
    <2> QED
      BY <2>2, <2>3, Zenon
  <1>2. files' = Append(files, [kv |-> kv, rest |-> n, by |-> s])
    BY Zenon DEF Save
  <1> HIDE DEF kv
  <1>3. [kv |-> kv, rest |-> n, by |-> s] \in SavedFiles
    BY Zenon, <1>1 DEF SavedFiles
  <1>4. FilesTyped' /\ Len(files') = n
    BY <1>2, <1>3 DEF FilesTyped
  <1>5. \A k \in Keys : files'[k] = files[k]
    BY <1>2, <1>3 DEF FilesTyped, Keys
  <1> QED
    BY <1>4, <1>5 DEF FilesTyped, Keys

\* The engine saves.
LEMMA StoreSaves ==
    ASSUME StoreInv, NEW s \in Senders, NEW from \in 0..MaxFiles, NEW delta \in BOOLEAN,
           from <= Len(files), Save(s, from, delta)
    PROVE  StoreInv'
  <1>1. /\ FilesTyped' /\ Len(files) + 1 \in Keys'
        /\ \A k \in Keys : k \in Keys' /\ files'[k] = files[k]
    BY SaveAdds, Zenon DEF StoreInv
  <1>2. UNCHANGED <<replica, keyLock, receiving, puts>>
    BY Zenon DEF Save, storeVars
  <1>3. PICK b, k : push' = [push EXCEPT ![s] = [at |-> "saved", n |-> Len(files) + 1, base |-> b, keep |-> k]]
    BY Zenon DEF Save
  <1> DEFINE p == [at |-> "saved", n |-> Len(files) + 1, base |-> b, keep |-> k]
  <1>4. p.at = "saved" /\ p.n = Len(files) + 1 /\ PushShape(p)
    BY Zenon DEF PushShape, AtSaved
  <1> HIDE DEF p
  <1>5. PushShaped' /\ push'[s] = p /\ \A t \in Senders \ {s} : push'[t] = push[t]
    BY <1>3, <1>4, PushMoves, Zenon DEF StoreInv, p
  <1>6. ~Putting(s)' /\ push'[s].at \notin {"rest", "kv"}
    BY Zenon, <1>4, <1>5 DEF Putting
  <1>7. PutsLocked'
    BY <1>2, <1>5, <1>6, Zenon DEF StoreInv, PutsLocked, Putting
  <1>8. PutsPatch'
    <2> SUFFICES ASSUME NEW t \in Senders
                 PROVE  /\ push'[t].at \in AtSaved => push'[t].n \in Keys'
                        /\ Putting(t)' => DOMAIN replica' = ReplicaFields /\ replica'.complete = FALSE
                        /\ push'[t].at \in {"rest", "kv"} => replica'.rest = files'[push'[t].n].rest
      BY Zenon DEF PutsPatch
    <2>1. CASE t = s
      BY <1>1, <1>4, <1>5, <1>6, <2>1, Zenon
    <2>2. CASE t # s
      <3>1. push'[t] = push[t]
        BY <1>5, <2>2, Zenon
      <3>2. push[t].at \in {"rest", "kv"} => push[t].at \in AtSaved
        BY Zenon DEF AtSaved
      <3> QED
        BY <1>1, <1>2, <3>1, <3>2, Zenon DEF StoreInv, PutsPatch, Putting
    <2> QED
      BY <2>1, <2>2, Zenon
  <1>9. ReplicaTrue'
    BY <1>1, <1>2, Zenon DEF StoreInv, ReplicaTrue, Complete, ReplicaNames
  <1> QED
    BY <1>1, <1>2, <1>5, <1>7, <1>8, <1>9, Zenon DEF StoreInv

\* A put takes the lock and marks the replica.
LEMMA StoreBegins ==
    ASSUME StoreInv, NEW s \in Senders, PutBegins(s)
    PROVE  StoreInv'
  <1>1. /\ push[s].at = "saved" /\ receiving /\ keyLock = Absent /\ keyLock' = s
        /\ UNCHANGED <<files, receiving, puts>>
    BY Zenon DEF PutBegins, BeginDelta, BeginPut
  <1>2. push' = [push EXCEPT ![s].at = "begun"]
    BY Zenon DEF PutBegins
  <1>3. /\ PushShaped' /\ \A t \in Senders \ {s} : push'[t] = push[t]
        /\ push'[s].at = "begun" /\ push'[s].n = push[s].n
    BY <1>1, <1>2, PushGoesOn, Zenon DEF StoreInv, AtSaved
  <1>4. DOMAIN replica' = ReplicaFields /\ replica'.complete = FALSE
    <2>1. CASE replica' = EmptyReplica
      BY Zenon, <2>1 DEF EmptyReplica, ReplicaFields
    <2>2. CASE Complete /\ replica' = [replica EXCEPT !.complete = FALSE]
      BY <2>2, Zenon DEF StoreInv, ReplicaTrue, ReplicaFields
    <2> QED
      BY <2>1, <2>2, Zenon DEF PutBegins, BeginDelta, BeginPut, BaseHeld
  <1>5. \A t \in Senders \ {s} : ~Putting(t) /\ ~Putting(t)'
    BY <1>1, <1>3, AbsentAssumption, Zenon DEF StoreInv, PutsLocked, Putting
  <1>6. PutsLocked'
    BY <1>1, <1>5, Zenon DEF PutsLocked
  <1>7. PutsPatch'
    <2> SUFFICES ASSUME NEW t \in Senders
                 PROVE  /\ push'[t].at \in AtSaved => push'[t].n \in Keys'
                        /\ Putting(t)' => DOMAIN replica' = ReplicaFields /\ replica'.complete = FALSE
                        /\ push'[t].at \in {"rest", "kv"} => replica'.rest = files'[push'[t].n].rest
      BY Zenon DEF PutsPatch
    <2>1. CASE t = s
      BY <1>1, <1>3, <1>4, <2>1, Zenon DEF StoreInv, PutsPatch, AtSaved, Keys
    <2>2. CASE t # s
      <3>1. push'[t] = push[t] /\ ~Putting(t)' /\ push'[t].at \notin {"rest", "kv"}
        BY <1>3, <1>5, <2>2, Zenon DEF Putting
      <3> QED
        BY <1>1, <3>1, Zenon DEF StoreInv, PutsPatch, Keys
    <2> QED
      BY <2>1, <2>2, Zenon
  <1>8. ReplicaTrue'
    BY <1>4, Zenon DEF ReplicaTrue, Complete
  <1>9. FilesTyped' /\ puts' \in Nat
    BY <1>1, Zenon DEF StoreInv, FilesTyped
  <1> QED
    BY <1>3, <1>6, <1>7, <1>8, <1>9, Zenon DEF StoreInv

\* While one sender holds the lock no other is putting.
LEMMA OthersWait ==
    ASSUME StoreInv, NEW s \in Senders, keyLock = s
    PROVE  \A t \in Senders \ {s} : ~Putting(t) /\ push[t].at \notin {"rest", "kv"}
  BY Zenon DEF StoreInv, PutsLocked, Putting

\* A section is patched: the replica stays marked.
LEMMA StorePatched ==
    ASSUME StoreInv, NEW s \in Senders, Putting(s), NEW a \in {"rest", "kv"},
           push' = [push EXCEPT ![s].at = a], UNCHANGED <<files, keyLock, receiving, puts>>,
           DOMAIN replica' = ReplicaFields, replica'.complete = FALSE,
           replica'.rest = files[push[s].n].rest
    PROVE  StoreInv'
  <1>1. push[s].at \in AtSaved /\ a \in AtSaved /\ keyLock = s /\ receiving
    BY Zenon DEF StoreInv, PutsLocked, Putting, AtSaved
  <1>2. /\ PushShaped' /\ \A t \in Senders \ {s} : push'[t] = push[t]
        /\ push'[s].at = a /\ push'[s].n = push[s].n
    BY <1>1, PushGoesOn, Zenon DEF StoreInv
  <1>3. \A t \in Senders \ {s} : ~Putting(t)' /\ push'[t].at \notin {"rest", "kv"}
    BY <1>1, <1>2, OthersWait, Zenon DEF Putting
  <1>4. PutsLocked'
    BY <1>1, <1>3, Zenon DEF StoreInv, PutsLocked
  <1>5. PutsPatch'
    <2> SUFFICES ASSUME NEW t \in Senders
                 PROVE  /\ push'[t].at \in AtSaved => push'[t].n \in Keys'
                        /\ Putting(t)' => DOMAIN replica' = ReplicaFields /\ replica'.complete = FALSE
                        /\ push'[t].at \in {"rest", "kv"} => replica'.rest = files'[push'[t].n].rest
      BY Zenon DEF PutsPatch
    <2>1. CASE t = s
      BY <1>1, <1>2, <2>1, Zenon DEF StoreInv, PutsPatch, Keys
    <2>2. CASE t # s
      <3>1. push'[t] = push[t] /\ ~Putting(t)' /\ push'[t].at \notin {"rest", "kv"}
        BY <1>2, <1>3, <2>2, Zenon
      <3> QED
        BY <3>1, Zenon DEF StoreInv, PutsPatch, Keys
    <2> QED
      BY <2>1, <2>2, Zenon
  <1>6. ReplicaTrue'
    BY Zenon DEF ReplicaTrue, Complete
  <1>7. FilesTyped' /\ puts' \in Nat
    BY Zenon DEF StoreInv, FilesTyped
  <1> QED
    BY <1>2, <1>4, <1>5, <1>6, <1>7, Zenon DEF StoreInv

\* The put is over: the replica names the save whose rest it has.
LEMMA StoreCompletes ==
    ASSUME StoreInv, NEW s \in Senders, PutCompletes(s)
    PROVE  StoreInv'
  <1>1. /\ push[s].at = "kv" /\ puts' = puts + 1 /\ push' = [push EXCEPT ![s] = NoPush]
        /\ UNCHANGED <<files, keyLock, receiving>>
    BY Zenon DEF PutCompletes
  <1>2. /\ Putting(s) /\ push[s].n \in Keys /\ keyLock = s
        /\ DOMAIN replica = ReplicaFields /\ replica.rest = files[push[s].n].rest
    BY <1>1, Zenon DEF StoreInv, PutsPatch, PutsLocked, Putting, AtSaved
  <1>3. PushShaped' /\ push'[s] = NoPush /\ \A t \in Senders \ {s} : push'[t] = push[t]
    BY <1>1, PushEnds, Zenon DEF StoreInv
  <1>4. \A t \in Senders : ~Putting(t)' /\ push'[t].at \notin {"rest", "kv"}
    <2>1. NoPush.at \notin {"begun", "rest", "kv"}
      BY Zenon DEF NoPush
    <2> QED
      BY <1>2, <1>3, <2>1, OthersWait, Zenon DEF Putting
  <1>5. PutsLocked'
    BY <1>1, <1>4, Zenon DEF StoreInv, PutsLocked
  <1>6. PutsPatch'
    <2> SUFFICES ASSUME NEW t \in Senders
                 PROVE  push'[t].at \in AtSaved => push'[t].n \in Keys'
      BY <1>4, Zenon DEF PutsPatch
    <2>1. NoPush.at \notin AtSaved
      BY Zenon DEF NoPush, AtSaved
    <2> QED
      BY <1>1, <1>3, <2>1, Zenon DEF StoreInv, PutsPatch, Keys
  <1>7. puts' \in Nat /\ FilesTyped'
    BY <1>1 DEF StoreInv, FilesTyped
  <1>8. ReplicaTrue'
    <2>1. CASE CompletePut(push[s].n, puts + 1)
      <3>1. /\ DOMAIN replica' = ReplicaFields /\ replica'.trailer = FALSE
            /\ replica'.digest = push[s].n /\ replica'.no = puts + 1
        BY Zenon, <1>2, <2>1 DEF CompletePut, ReplicaFields
      <3>2. replica'.no \in Nat /\ replica'.no <= puts'
        BY <1>1, <1>7, <3>1
      <3> QED
        BY <1>1, <1>2, <3>1, <3>2, Zenon DEF ReplicaTrue, ReplicaNames, Keys
    <2>2. CASE CompleteDelta(push[s].n, puts + 1)
      <3>1. /\ DOMAIN replica' = ReplicaFields /\ replica'.trailer = TRUE
            /\ replica'.save = push[s].n /\ replica'.no = puts + 1
            /\ replica'.chunks = files[push[s].n].kv /\ replica'.rest = replica.rest
        BY Zenon, <1>2, <2>2 DEF CompleteDelta, ReplicaFields
      <3>2. replica'.no \in Nat /\ replica'.no <= puts'
        BY <1>1, <1>7, <3>1
      <3> QED
        BY <1>1, <1>2, <3>1, <3>2, Zenon DEF ReplicaTrue, ReplicaNames, Keys
    <2> QED
      BY <2>1, <2>2, Zenon DEF PutCompletes
  <1> QED
    BY <1>3, <1>5, <1>6, <1>7, <1>8, Zenon DEF StoreInv

\* finish: the chunk hashes of a plain put, and the lock.
LEMMA StoreFinished ==
    ASSUME StoreInv, FinishPut
    PROVE  StoreInv'
  <1>1. /\ keyLock # Absent /\ ~Putting(keyLock) /\ keyLock' = Absent
        /\ UNCHANGED <<files, push, receiving, puts>>
        /\ replica' = IF replica.chunks = Absent THEN [replica EXCEPT !.chunks = replica.kv] ELSE replica
    BY Zenon DEF FinishPut, FinishReplica, sendVars
  <1>2. \A t \in Senders : ~Putting(t)
    BY <1>1, Zenon DEF StoreInv, PutsLocked
  <1>3. CASE replica.chunks # Absent
    <2>1. replica' = replica
      BY <1>1, <1>3, Zenon
    <2>2. PushShaped' /\ \A t \in Senders : push'[t].at \notin {"begun", "rest", "kv"}
      BY <1>1, <1>2, Zenon DEF StoreInv, PushShaped, Putting
    <2> QED
      BY <1>1, <2>1, <2>2, StoreStays, Zenon
  <1>4. CASE replica.chunks = Absent
    <2>1. DOMAIN replica = ReplicaFields
      BY <1>1, Zenon DEF StoreInv, ReplicaTrue
    <2>2. /\ DOMAIN replica' = ReplicaFields /\ replica'.complete = replica.complete
          /\ replica'.trailer = replica.trailer /\ replica'.digest = replica.digest /\ replica'.no = replica.no
      BY Zenon, <1>1, <1>4, <2>1 DEF ReplicaFields
    <2>3. PushShaped' /\ FilesTyped' /\ puts' \in Nat /\ PutsLocked'
      BY <1>1, <1>2, Zenon DEF StoreInv, PushShaped, FilesTyped, PutsLocked, Putting
    <2>4. PutsPatch'
      BY <1>1, <1>2, Zenon DEF StoreInv, PutsPatch, Putting, Keys
    <2>5. ReplicaTrue'
      <3> SUFFICES ASSUME replica'.complete PROVE ReplicaNames' /\ replica'.no \in Nat /\ replica'.no <= puts'
        BY <2>2, Zenon DEF ReplicaTrue
      <3>1. ReplicaNames /\ replica.no \in Nat /\ replica.no <= puts
        BY <1>1, <2>2, Zenon DEF StoreInv, ReplicaTrue
      <3>2. replica.trailer => FALSE
        <4> SUFFICES ASSUME replica.trailer PROVE FALSE
          BY Zenon
        <4>1. replica.save \in Keys /\ replica.chunks = files[replica.save].kv
          BY <3>1, Zenon DEF ReplicaNames
        <4>2. files[replica.save] \in SavedFiles
          BY <4>1 DEF StoreInv, FilesTyped, Keys
        <4>3. files[replica.save].kv \in Seq(Nat)
          BY <4>2, Zenon DEF SavedFiles
        <4> QED
          BY <1>4, <4>1, <4>3, AbsentAssumption, Zenon
      <3> QED
        BY <1>1, <2>2, <3>1, <3>2, Zenon DEF ReplicaNames, Keys
    <2> QED
      BY <2>3, <2>4, <2>5, Zenon DEF StoreInv
  <1> QED
    BY <1>3, <1>4, Zenon

\* Every step keeps what the store promises.
LEMMA StoreInvNext == StoreInv /\ [ShareNext]_shareVars => StoreInv'
  <1> SUFFICES ASSUME StoreInv, [ShareNext]_shareVars PROVE StoreInv'
    BY Zenon
  <1>0. NoPush.at = "idle"
    BY Zenon DEF NoPush
  <1>1. CASE UNCHANGED <<replica, keyLock, files, push, receiving, puts>>
    <2>1. PushShaped' /\ \A s \in Senders : push'[s] = push[s]
      BY <1>1, Zenon DEF StoreInv, PushShaped
    <2> QED
      BY <1>1, <2>1, StoreStays, Zenon
  <1>2. ASSUME NEW s \in Senders, NEW p, p.at = "asked" \/ p = NoPush, push' = [push EXCEPT ![s] = p],
               UNCHANGED <<replica, keyLock, files, receiving, puts>>
        PROVE  StoreInv'
    <2>1. PushShaped' /\ push'[s] = p /\ \A t \in Senders \ {s} : push'[t] = push[t]
      BY <1>2, PushEnds, Zenon DEF StoreInv
    <2>2. \A t \in Senders : push'[t] = push[t] \/ push'[t].at \in {"idle", "asked"}
      BY <1>0, <1>2, <2>1, Zenon
    <2> QED
      BY <1>2, <2>1, <2>2, StoreStays, Zenon
  <1>3. ASSUME NEW s \in Senders, Putting(s), DropReplica, push' = [push EXCEPT ![s] = NoPush],
               UNCHANGED <<files, puts>>
        PROVE  StoreInv'
    <2>1. PushShaped' /\ push'[s] = NoPush /\ \A t \in Senders \ {s} : push'[t] = push[t]
      BY <1>3, PushEnds, Zenon DEF StoreInv
    <2>2. \A t \in Senders \ {s} : ~Putting(t)
      BY <1>3, OthersWait, Zenon DEF StoreInv, PutsLocked
    <2>3. NoPush.at \notin {"begun", "rest", "kv"}
      BY Zenon, <1>0
    <2>4. \A t \in Senders : ~Putting(t)'
      BY <2>1, <2>2, <2>3, Zenon DEF Putting
    <2> QED
      BY <1>3, <2>1, <2>4, StoreDropped, Zenon
  <1>4. ASSUME NEW s \in Senders, TurnStarts(s) \/ AfterLocal(s) \/ Close(s) \/ CloseReturns(s) \/ PushNowhere(s)
        PROVE  StoreInv'
    BY <1>1, <1>4, Zenon DEF TurnStarts, AfterLocal, Close, CloseReturns, PushNowhere, storeVars
  <1>5. ASSUME NEW s \in Senders, PushAsk(s) PROVE StoreInv'
    <2> DEFINE p == IF receiving THEN [at |-> "asked", man |-> ReadManifest] ELSE NoPush
    <2>1. p.at = "asked" \/ p = NoPush
      BY Zenon
    <2>2. push' = [push EXCEPT ![s] = p] /\ UNCHANGED <<replica, keyLock, files, receiving, puts>>
      BY <1>5, Zenon DEF PushAsk
    <2> HIDE DEF p
    <2> QED
      BY <1>2, <2>1, <2>2, Zenon
  <1>6. ASSUME NEW s \in Senders, SaveFails(s) \/ PutRefused(s) PROVE StoreInv'
    <2>1. push' = [push EXCEPT ![s] = NoPush] /\ UNCHANGED <<replica, keyLock, files, receiving, puts>>
      BY <1>6, Zenon DEF SaveFails, PutRefused, storeVars
    <2> QED
      BY <1>2, <2>1, Zenon
  <1>7. ASSUME NEW s \in Senders, PutRest(s) PROVE StoreInv'
    <2>1. /\ Putting(s) /\ push' = [push EXCEPT ![s].at = "rest"] /\ UNCHANGED <<files, keyLock, receiving, puts>>
          /\ replica' = [replica EXCEPT !.rest = files[push[s].n].rest]
      BY <1>7, Zenon DEF PutRest, Putting, PatchRest
    <2>2. DOMAIN replica = ReplicaFields /\ replica.complete = FALSE
      BY <2>1, Zenon DEF StoreInv, PutsPatch
    <2>3. DOMAIN replica' = ReplicaFields /\ replica'.complete = FALSE /\ replica'.rest = files[push[s].n].rest
      BY Zenon, <2>1, <2>2 DEF ReplicaFields
    <2> QED
      BY <2>1, <2>3, StorePatched, Zenon
  <1>8. ASSUME NEW s \in Senders, PutKV(s) PROVE StoreInv'
    <2>1. Putting(s) /\ push[s].at = "rest" /\ UNCHANGED <<files, receiving, puts>>
      BY <1>8, Zenon DEF PutKV, Putting
    <2>2. CASE MayKeep(s)
      <3>1. PatchKV(push[s].n, push[s].keep) /\ UNCHANGED keyLock /\ push' = [push EXCEPT ![s].at = "kv"]
        BY <1>8, <2>2, Zenon DEF PutKV
      <3>2. /\ DOMAIN replica = ReplicaFields /\ replica.complete = FALSE
            /\ replica.rest = files[push[s].n].rest
        BY <2>1, Zenon DEF StoreInv, PutsPatch
      <3>3. PICK v : replica' = [replica EXCEPT !.kv = v]
        BY <3>1, Zenon DEF PatchKV
      <3>4. DOMAIN replica' = ReplicaFields /\ replica'.complete = FALSE /\ replica'.rest = replica.rest
        BY Zenon, <3>2, <3>3 DEF ReplicaFields
      <3> QED
        BY <2>1, <3>1, <3>2, <3>4, StorePatched, Zenon
    <2>3. CASE ~MayKeep(s)
      BY <1>3, <1>8, <2>1, <2>3, Zenon DEF PutKV
    <2> QED
      BY <2>2, <2>3, Zenon
  <1>9. ASSUME NEW s \in Senders, PutFails(s) PROVE StoreInv'
    BY <1>3, <1>9, Zenon DEF PutFails
  <1>10. CASE EvictRemove
    <2>1. PushShaped' /\ \A s \in Senders : push'[s] = push[s] /\ ~Putting(s)'
      BY <1>10, AbsentAssumption, Zenon
         DEF EvictRemove, RemoveReplica, sendVars, StoreInv, PushShaped, PutsLocked, Putting
    <2>2. DropReplica /\ UNCHANGED <<files, puts>>
      BY <1>10, Zenon DEF EvictRemove, RemoveReplica
    <2> QED
      BY <2>1, <2>2, StoreDropped, Zenon
  <1>11. CASE Crash
    <2>1. /\ keyLock' = Absent /\ UNCHANGED <<replica, files, puts>>
          /\ push' = [s \in Senders |-> IF Putting(s) THEN NoPush ELSE push[s]]
      BY <1>11, Zenon DEF Crash
    <2>2. \A s \in Senders : push'[s] = NoPush \/ (~Putting(s) /\ push'[s] = push[s])
      BY <2>1, Zenon
    <2>3. PushShape(NoPush) /\ NoPush.at \notin {"begun", "rest", "kv"}
      BY Zenon DEF PushShape, NoPush, AtSaved
    <2>4. push' = [s \in Senders |-> push'[s]]
      BY <2>1, Zenon
    <2>5. PushShaped'
      BY <2>2, <2>3, <2>4, Zenon DEF StoreInv, PushShaped
    <2>6. \A s \in Senders : /\ push'[s] = push[s] \/ push'[s].at \in {"idle", "asked"}
                             /\ push'[s].at \notin {"begun", "rest", "kv"}
      BY <1>0, <2>2, <2>3, Zenon DEF Putting
    <2> QED
      BY <2>1, <2>5, <2>6, StoreStays, Zenon
  <1>12. CASE Restart
    <2>1. PushShaped' /\ \A s \in Senders : push'[s] = push[s] /\ ~Putting(s)'
      BY <1>12, Zenon DEF Restart, sendVars, StoreInv, PushShaped, PutsLocked, Putting
    <2>2. UNCHANGED <<files, puts>> /\ Clean
      BY <1>12, Zenon DEF Restart
    <2>3. CASE Complete
      <3>1. replica' = replica /\ keyLock' = Absent /\ \A s \in Senders : push'[s].at \notin {"begun", "rest", "kv"}
        BY <2>1, <2>2, <2>3, Zenon DEF Clean, Putting
      <3> QED
        BY <2>1, <2>2, <3>1, StoreStays, Zenon
    <2>4. CASE ~Complete
      BY <2>1, <2>2, <2>4, StoreDropped, Zenon DEF Clean, DropReplica
    <2> QED
      BY <2>3, <2>4, Zenon
  <1>13. ASSUME \/ EvictScan \/ ImportAssemble \/ EngineForgets \/ Relaunch
                \/ \E says \in BOOLEAN : ImportInfo(says)
                \/ \E ok \in BOOLEAN : ImportDone(ok)
         PROVE  StoreInv'
    BY <1>1, <1>13, Zenon
       DEF EvictScan, ImportAssemble, EngineForgets, Relaunch, ImportInfo, ImportDone, storeVars, sendVars
  <1>14. CASE UNCHANGED shareVars
    BY <1>1, <1>14, Zenon DEF shareVars, storeVars, sendVars
  <1> QED
    BY <1>4, <1>5, <1>6, <1>7, <1>8, <1>9, <1>10, <1>11, <1>12, <1>13, <1>14,
       StoreSaves, StoreBegins, StoreCompletes, StoreFinished, Zenon DEF ShareNext

\* The replica has been put and not been marked since.
Usable == (keyLock # Absent \/ Complete) /\ replica.complete

\* Saves are never changed, and a replica that can be used is the one it was
\* or the put that just completed.
LEMMA StoreMoves ==
    ASSUME StoreInv, [ShareNext]_shareVars
    PROVE  /\ \A k \in Keys : k \in Keys' /\ files'[k] = files[k]
           /\ puts <= puts'
           /\ Usable' => (Usable /\ replica'.no = replica.no) \/ replica'.no = puts'
  <1>0. puts \in Nat
    BY Zenon DEF StoreInv
  <1>1. puts <= puts
    BY <1>0
  <1>2. CASE UNCHANGED <<files, puts, replica>> /\ (keyLock' = keyLock \/ keyLock' = Absent)
    BY <1>1, <1>2, Zenon DEF Usable, Complete, Keys
  <1>3. CASE UNCHANGED <<files, puts>> /\ (DropReplica \/ replica'.complete = FALSE)
    BY <1>1, <1>3, Zenon DEF Usable, Complete, Keys, DropReplica
  <1>4. ASSUME NEW s \in Senders, NEW from \in 0..MaxFiles, NEW delta \in BOOLEAN,
               from <= Len(files), Save(s, from, delta)
        PROVE  /\ \A k \in Keys : k \in Keys' /\ files'[k] = files[k]
               /\ puts <= puts'
               /\ Usable' => (Usable /\ replica'.no = replica.no) \/ replica'.no = puts'
    <2>1. \A k \in Keys : k \in Keys' /\ files'[k] = files[k]
      BY <1>4, SaveAdds, Zenon DEF StoreInv
    <2>2. UNCHANGED <<replica, keyLock, puts>>
      BY <1>4, Zenon DEF Save, storeVars
    <2> QED
      BY <1>1, <2>1, <2>2, Zenon DEF Usable, Complete
  <1>5. ASSUME NEW s \in Senders, PutBegins(s) PROVE replica'.complete = FALSE /\ UNCHANGED <<files, puts>>
    <2>1. CASE replica' = EmptyReplica
      BY Zenon, <1>5, <2>1 DEF PutBegins, EmptyReplica
    <2>2. CASE Complete /\ replica' = [replica EXCEPT !.complete = FALSE]
      BY <1>5, <2>2, Zenon DEF StoreInv, ReplicaTrue, ReplicaFields, PutBegins
    <2> QED
      BY <1>5, <2>1, <2>2, Zenon DEF PutBegins, BeginDelta, BeginPut, BaseHeld
  <1>6. ASSUME NEW s \in Senders, PutRest(s) \/ PutKV(s)
        PROVE  UNCHANGED <<files, puts>> /\ (DropReplica \/ replica'.complete = FALSE)
    <2>1. Putting(s) /\ UNCHANGED <<files, puts>>
      BY <1>6, Zenon DEF PutRest, PutKV, Putting
    <2>2. DOMAIN replica = ReplicaFields /\ replica.complete = FALSE
      BY <2>1, Zenon DEF StoreInv, PutsPatch
    <2>3. ASSUME NEW v, replica' = [replica EXCEPT !.rest = v] \/ replica' = [replica EXCEPT !.kv = v]
          PROVE  replica'.complete = FALSE
      BY Zenon, <2>2, <2>3 DEF ReplicaFields
    <2> QED
      BY <1>6, <2>1, <2>3, Zenon DEF PutRest, PutKV, PatchRest, PatchKV
  <1>7. ASSUME NEW s \in Senders, PutCompletes(s)
        PROVE  /\ \A k \in Keys : k \in Keys' /\ files'[k] = files[k]
               /\ puts <= puts' /\ replica'.no = puts'
    <2>1. push[s].at = "kv" /\ puts' = puts + 1 /\ UNCHANGED files
      BY <1>7, Zenon DEF PutCompletes
    <2>2. DOMAIN replica = ReplicaFields
      BY <2>1, Zenon DEF StoreInv, PutsPatch, Putting
    <2>3. replica'.no = puts + 1
      BY Zenon, <1>7, <2>2 DEF PutCompletes, CompletePut, CompleteDelta, ReplicaFields
    <2>4. puts <= puts'
      BY <1>0, <2>1
    <2> QED
      BY <2>1, <2>3, <2>4, Zenon DEF Keys
  <1>8. ASSUME FinishPut
        PROVE  /\ UNCHANGED <<files, puts>> /\ keyLock # Absent
               /\ replica'.complete = replica.complete /\ replica'.no = replica.no
    <2>1. DOMAIN replica = ReplicaFields
      BY <1>8, Zenon DEF FinishPut, StoreInv, ReplicaTrue
    <2>2. replica' = replica \/ replica' = [replica EXCEPT !.chunks = replica.kv]
      BY <1>8, Zenon DEF FinishPut, FinishReplica
    <2>3. replica'.complete = replica.complete /\ replica'.no = replica.no
      BY Zenon, <2>1, <2>2 DEF ReplicaFields
    <2> QED
      BY <1>8, <2>3, Zenon DEF FinishPut
  <1>9. CASE FinishPut
    BY <1>1, <1>8, <1>9, Zenon DEF Usable, Keys
  <1>10. ASSUME NEW s \in Senders, \/ TurnStarts(s) \/ AfterLocal(s) \/ Close(s) \/ CloseReturns(s) \/ PushAsk(s)
                                   \/ PushNowhere(s) \/ SaveFails(s) \/ PutRefused(s)
         PROVE  UNCHANGED <<files, puts, replica, keyLock>>
    BY <1>10, Zenon DEF TurnStarts, AfterLocal, Close, CloseReturns, PushAsk, PushNowhere, SaveFails, PutRefused, storeVars
  <1>11. ASSUME NEW s \in Senders, PutFails(s) PROVE UNCHANGED <<files, puts>> /\ DropReplica
    BY <1>11, Zenon DEF PutFails
  <1>12. CASE EvictRemove
    BY <1>3, <1>12, Zenon DEF EvictRemove, RemoveReplica
  <1>13. CASE Crash
    BY <1>2, <1>13, Zenon DEF Crash
  <1>14. CASE Restart
    BY <1>2, <1>3, <1>14, Zenon DEF Restart, Clean, DropReplica
  <1>15. ASSUME \/ EvictScan \/ ImportAssemble \/ EngineForgets \/ Relaunch \/ UNCHANGED shareVars
                \/ \E says \in BOOLEAN : ImportInfo(says)
                \/ \E ok \in BOOLEAN : ImportDone(ok)
         PROVE  UNCHANGED <<files, puts, replica, keyLock>>
    BY <1>15, Zenon
       DEF EvictScan, ImportAssemble, EngineForgets, Relaunch, ImportInfo, ImportDone, shareVars, storeVars
  <1> QED
    BY <1>2, <1>3, <1>4, <1>5, <1>6, <1>7, <1>9, <1>10, <1>11, <1>12, <1>13, <1>14, <1>15, Zenon DEF ShareNext

InfoFields == {"at", "version", "no", "same"}
FileFields == {"at", "version", "no", "same", "file", "fileNo"}

\* The numbers of puts that an import and its record carry.
ImportInv ==
    /\ import.at \in {"idle", "info", "file"}
    /\ import.at = "idle" => import = NoImport
    /\ import.at = "info" => DOMAIN import = InfoFields
    /\ import.at = "file" => DOMAIN import = FileFields /\ import.fileNo \in Nat /\ import.fileNo >= import.no
    /\ import.at # "idle" => import.no \in Nat /\ import.no <= puts
    /\ import.at = "info" /\ Usable => replica.no >= import.no
    /\ WholeFile
    /\ given \in Nat
    /\ imported # Absent => imported.no \in Nat /\ given >= imported.no

\* A file that was whole stays the save it is.
LEMMA WholeStays ==
    ASSUME WholeFile, \A k \in Keys : k \in Keys' /\ files'[k] = files[k],
           import'.at = "file" => import.at = "file" /\ import'.file = import.file
    PROVE  WholeFile'
  <1> SUFFICES ASSUME import'.at = "file" PROVE \E n \in Keys' : import'.file = FileOf(n)'
    BY Zenon DEF WholeFile
  <1>1. PICK n \in Keys : import.file = FileOf(n)
    BY Zenon DEF WholeFile
  <1>2. n \in Keys' /\ FileOf(n)' = FileOf(n)
    BY Zenon DEF FileOf
  <1> QED
    BY <1>1, <1>2, Zenon

\* What the store gives out is one save.
LEMMA MaterializesWhole ==
    ASSUME StoreInv, Materializes
    PROVE  \E n \in Keys : Assembled = FileOf(n)
  <1>1. ReplicaNames
    BY Zenon DEF StoreInv, ReplicaTrue, Materializes, Complete
  <1>2. CASE replica.trailer
    <2>1. replica.kv = files[replica.save].kv /\ replica.rest = files[replica.save].rest /\ replica.save \in Keys
      BY <1>1, <1>2, Zenon DEF ReplicaNames, Materializes, SealTrailer
    <2> QED
      BY <2>1, Zenon DEF Assembled, FileOf
  <1>3. CASE ~replica.trailer
    BY <1>1, <1>3, Zenon DEF ReplicaNames, Materializes
  <1> QED
    BY <1>2, <1>3, Zenon

\* Every step keeps what imports rely on.
LEMMA ImportInvNext == StoreInv /\ ImportInv /\ [ShareNext]_shareVars => ImportInv'
  <1> SUFFICES ASSUME StoreInv, ImportInv, [ShareNext]_shareVars PROVE ImportInv'
    BY Zenon
  <1>0. puts \in Nat /\ puts' \in Nat
    BY StoreInvNext, Zenon DEF StoreInv
  <1>1. /\ \A k \in Keys : k \in Keys' /\ files'[k] = files[k]
        /\ puts <= puts'
        /\ Usable' => (Usable /\ replica'.no = replica.no) \/ replica'.no = puts'
    BY StoreMoves, Zenon
  <1>2. CASE UNCHANGED <<import, imported, given>>
    <2>1. import'.at # "idle" => import'.no \in Nat /\ import'.no <= puts'
      BY <1>0, <1>1, <1>2 DEF ImportInv
    <2>2. import'.at = "info" /\ Usable' => replica'.no >= import'.no
      <3> SUFFICES ASSUME import.at = "info", Usable' PROVE replica'.no >= import.no
        BY <1>2, Zenon
      <3>1. import.no \in Nat /\ import.no <= puts' /\ (Usable => replica.no >= import.no)
        BY <1>0, <1>1 DEF ImportInv
      <3>2. CASE Usable /\ replica'.no = replica.no
        BY <3>1, <3>2, Zenon
      <3>3. CASE replica'.no = puts'
        BY Zenon, <1>0, <3>1, <3>3
      <3> QED
        BY <1>1, <3>2, <3>3, Zenon
    <2>3. WholeFile'
      BY <1>1, <1>2, WholeStays, Zenon DEF ImportInv
    <2> QED
      BY <1>2, <2>1, <2>2, <2>3, Zenon DEF ImportInv
  <1>3. ASSUME import' = NoImport, given' \in Nat, imported' # Absent => imported'.no \in Nat /\ given' >= imported'.no
        PROVE  ImportInv'
    <2>1. import'.at = "idle"
      BY Zenon, <1>3 DEF NoImport
    <2>2. "idle" # "info" /\ "idle" # "file"
      BY Zenon
    <2> QED
      BY <1>3, <2>1, <2>2, Zenon DEF ImportInv, WholeFile
  <1>4. CASE Crash
    <2>1. import' = NoImport /\ given' = 0 /\ imported' = Absent
      BY <1>4, Zenon DEF Crash
    <2>2. 0 \in Nat
      BY Zenon
    <2> QED
      BY <1>3, <2>1, <2>2, Zenon
  <1>5. ASSUME NEW says \in BOOLEAN, ImportInfo(says) PROVE ImportInv'
    <2>1. /\ import' = [at |-> "info", version |-> Version, no |-> replica.no, same |-> TRUE]
          /\ Complete /\ UNCHANGED <<replica, puts, imported, given>>
      BY <1>5, Zenon DEF ImportInfo, storeVars
    <2>2. DOMAIN import' = InfoFields /\ import'.at = "info" /\ import'.no = replica.no
      BY Zenon, <2>1 DEF InfoFields
    <2>3. replica.no \in Nat /\ replica.no <= puts /\ replica.no >= replica.no
      <3>1. replica.no \in Nat /\ replica.no <= puts
        BY <2>1, Zenon DEF StoreInv, ReplicaTrue, Complete
      <3> QED
        BY <3>1
    <2>4. "info" # "file" /\ "info" # "idle"
      BY Zenon
    <2> QED
      BY <2>1, <2>2, <2>3, <2>4, Zenon DEF ImportInv, WholeFile
  <1>6. CASE ImportAssemble
    <2>1. import.at = "info" /\ UNCHANGED <<replica, puts, files, imported, given>>
      BY <1>6, Zenon DEF ImportAssemble, storeVars
    <2>2. CASE ~Materializes
      BY <1>3, <1>6, <2>1, <2>2, Zenon DEF ImportAssemble, ImportInv
    <2>3. CASE Materializes
      <3>1. import' = [at |-> "file", version |-> import.version, no |-> import.no, same |-> import.same,
                       file |-> Assembled, fileNo |-> replica.no]
        BY <1>6, <2>3, Zenon DEF ImportAssemble
      <3>2. /\ DOMAIN import' = FileFields /\ import'.at = "file" /\ import'.no = import.no
            /\ import'.file = Assembled /\ import'.fileNo = replica.no
        BY Zenon, <3>1 DEF FileFields
      <3>3. Usable /\ replica.no \in Nat
        BY <2>3, Zenon DEF StoreInv, ReplicaTrue, Materializes, Usable, Complete
      <3>4. replica.no >= import.no /\ import.no \in Nat /\ import.no <= puts
        BY Zenon, <2>1, <3>3 DEF ImportInv
      <3>5. WholeFile'
        <4>1. PICK n \in Keys : Assembled = FileOf(n)
          BY <2>3, MaterializesWhole, Zenon
        <4>2. n \in Keys' /\ FileOf(n)' = FileOf(n)
          BY <1>1, Zenon DEF FileOf
        <4> QED
          BY <3>2, <4>1, <4>2, Zenon DEF WholeFile
      <3>6. "file" # "info" /\ "file" # "idle"
        BY Zenon
      <3> QED
        BY <2>1, <3>2, <3>3, <3>4, <3>5, <3>6, Zenon DEF ImportInv
    <2> QED
      BY <2>2, <2>3, Zenon
  <1>7. ASSUME NEW ok \in BOOLEAN, ImportDone(ok) PROVE ImportInv'
    <2>1. import.at = "file" /\ import' = NoImport
      BY <1>7, Zenon DEF ImportDone
    <2>2. CASE ok /\ import.same
      <3>1. given' = import.fileNo /\ imported' = [version |-> import.version, no |-> import.no]
        BY <1>7, <2>2, Zenon DEF ImportDone, RecordImport
      <3>2. imported'.no = import.no
        BY Zenon, <3>1
      <3>3. import.fileNo \in Nat /\ import.fileNo >= import.no /\ import.no \in Nat
        BY Zenon, <2>1 DEF ImportInv
      <3> QED
        BY <1>3, <2>1, <3>1, <3>2, <3>3, Zenon
    <2>3. CASE ~(ok /\ import.same)
      <3>1. given' = given /\ imported' = imported
        BY <1>7, <2>3, Zenon DEF ImportDone, RecordImport
      <3> QED
        BY <1>3, <2>1, <3>1, Zenon DEF ImportInv
    <2> QED
      BY <2>2, <2>3, Zenon
  <1>8. CASE Relaunch
    <2>1. given' = 0 /\ imported' = Absent /\ 0 \in Nat /\ UNCHANGED <<replica, keyLock, files, puts>>
      BY Zenon, <1>8 DEF Relaunch, storeVars
    <2>2. CASE import = NoImport
      BY <1>3, <1>8, <2>1, <2>2, Zenon DEF Relaunch
    <2>3. CASE import # NoImport
      <3>1. import' = [import EXCEPT !.same = FALSE]
        BY <1>8, <2>3, Zenon DEF Relaunch
      <3>2. CASE import.at = "info"
        <4>1. DOMAIN import' = InfoFields /\ import'.at = "info" /\ import'.no = import.no
          BY Zenon, <3>1, <3>2 DEF ImportInv, InfoFields
        <4>2. "info" # "file" /\ "info" # "idle"
          BY Zenon
        <4> QED
          BY <2>1, <3>2, <4>1, <4>2, Zenon DEF ImportInv, Usable, Complete, WholeFile
      <3>3. CASE import.at = "file"
        <4>1. /\ DOMAIN import' = FileFields /\ import'.at = "file" /\ import'.no = import.no
              /\ import'.file = import.file /\ import'.fileNo = import.fileNo
          BY Zenon, <3>1, <3>3 DEF ImportInv, FileFields
        <4>2. WholeFile'
          BY <1>1, <3>3, <4>1, WholeStays, Zenon DEF ImportInv
        <4>3. "info" # "file" /\ "file" # "idle"
          BY Zenon
        <4> QED
          BY <2>1, <3>3, <4>1, <4>2, <4>3, Zenon DEF ImportInv
      <3>4. import.at # "idle"
        BY <2>3, Zenon DEF ImportInv
      <3> QED
        BY <3>2, <3>3, <3>4, Zenon DEF ImportInv
    <2> QED
      BY <2>2, <2>3, Zenon
  <1>9. ASSUME NEW s \in Senders,
               \/ TurnStarts(s) \/ AfterLocal(s) \/ Close(s) \/ CloseReturns(s) \/ PushAsk(s)
               \/ PushNowhere(s) \/ SaveFails(s) \/ PutBegins(s) \/ PutRefused(s) \/ PutRest(s) \/ PutKV(s)
               \/ PutFails(s) \/ PutCompletes(s) \/ \E from \in 0..MaxFiles, delta \in BOOLEAN : Save(s, from, delta)
        PROVE  UNCHANGED <<import, imported, given>>
    BY <1>9, Zenon
       DEF TurnStarts, AfterLocal, Close, CloseReturns, PushAsk, PushNowhere, SaveFails, PutBegins, PutRefused,
           PutRest, PutKV, PutFails, PutCompletes, Save, importVars
  <1>10. ASSUME FinishPut \/ EvictScan \/ EvictRemove \/ Restart \/ EngineForgets \/ UNCHANGED shareVars
         PROVE  UNCHANGED <<import, imported, given>>
    BY <1>10, Zenon DEF FinishPut, EvictScan, EvictRemove, Restart, EngineForgets, shareVars, importVars
  <1> QED
    BY <1>2, <1>4, <1>5, <1>6, <1>7, <1>8, <1>9, <1>10, Zenon DEF ShareNext

\* A node that has closed pushes nothing.
ClosingInv == closing \in [Senders -> {"no", "waiting", "returned"}] /\ ClosedIsQuiet

\* Every step keeps a closed node quiet.
LEMMA ClosingInvNext == StoreInv /\ ClosingInv /\ [ShareNext]_shareVars => ClosingInv'
  <1> SUFFICES ASSUME StoreInv, ClosingInv, [ShareNext]_shareVars PROVE ClosingInv'
    BY Zenon
  <1>0. NoPush.at = "idle"
    BY Zenon DEF NoPush
  <1>1. CASE closing' = closing /\ \A s \in Senders : push'[s] = push[s] \/ push'[s] = NoPush
    BY <1>1, Zenon DEF ClosingInv, ClosedIsQuiet
  <1>2. ASSUME NEW s \in Senders, NEW p, push' = [push EXCEPT ![s] = p], closing' = closing,
               p = NoPush \/ push[s] # NoPush \/ closing[s] = "no"
        PROVE  ClosingInv'
    <2>1. push'[s] = p /\ \A t \in Senders \ {s} : push'[t] = push[t]
      BY <1>2, Zenon DEF StoreInv, PushShaped
    <2>2. "no" # "returned"
      BY Zenon
    <2> QED
      BY <1>2, <2>1, <2>2, Zenon DEF ClosingInv, ClosedIsQuiet
  <1>3. ASSUME NEW s \in Senders, Close(s) PROVE ClosingInv'
    <2>1. closing' = [closing EXCEPT ![s] = "waiting"] /\ push' = push
      BY <1>3, Zenon DEF Close
    <2> QED
      BY Zenon, <2>1 DEF ClosingInv, ClosedIsQuiet
  <1>4. ASSUME NEW s \in Senders, CloseReturns(s) PROVE ClosingInv'
    <2>1. closing' = [closing EXCEPT ![s] = "returned"] /\ push' = push /\ push[s] = NoPush
      BY <1>4, Zenon DEF CloseReturns
    <2> QED
      BY Zenon, <2>1 DEF ClosingInv, ClosedIsQuiet
  <1>5. ASSUME NEW s \in Senders, PushAsk(s) PROVE ClosingInv'
    <2>1. /\ closing[s] = "no" /\ closing' = closing
          /\ \E p : push' = [push EXCEPT ![s] = p]
      BY <1>5, Zenon DEF PushAsk
    <2> QED
      BY <1>2, <2>1, Zenon
  <1>6. ASSUME NEW s \in Senders,
               \/ SaveFails(s) \/ PutBegins(s) \/ PutRefused(s) \/ PutRest(s) \/ PutKV(s)
               \/ PutFails(s) \/ PutCompletes(s) \/ \E from \in 0..MaxFiles, delta \in BOOLEAN : Save(s, from, delta)
        PROVE  ClosingInv'
    <2>1. push[s].at # "idle"
      BY Zenon, <1>6 DEF SaveFails, PutBegins, PutRefused, PutRest, PutKV, PutFails, PutCompletes, Save, Putting
    <2>2. push[s] # NoPush
      BY <1>0, <2>1, Zenon
    <2>3. closing' = closing
      BY <1>6, Zenon DEF SaveFails, PutBegins, PutRefused, PutRest, PutKV, PutFails, PutCompletes, Save
    <2>4. \E p : push' = [push EXCEPT ![s] = p]
      BY <1>6, Zenon DEF SaveFails, PutBegins, PutRefused, PutRest, PutKV, PutFails, PutCompletes, Save
    <2> QED
      BY <1>2, <2>2, <2>3, <2>4, Zenon
  <1>7. CASE Crash
    BY <1>1, <1>7, Zenon DEF Crash
  <1>8. ASSUME NEW s \in Senders, TurnStarts(s) \/ AfterLocal(s) \/ PushNowhere(s) PROVE ClosingInv'
    BY <1>1, <1>8, Zenon DEF TurnStarts, AfterLocal, PushNowhere
  <1>9. ASSUME \/ FinishPut \/ EvictScan \/ EvictRemove \/ Restart \/ EngineForgets \/ UNCHANGED shareVars
               \/ ImportAssemble \/ Relaunch
               \/ \E says \in BOOLEAN : ImportInfo(says)
               \/ \E ok \in BOOLEAN : ImportDone(ok)
        PROVE  ClosingInv'
    <2>1. closing' = closing /\ push' = push
      BY <1>9, Zenon
         DEF FinishPut, EvictScan, EvictRemove, Restart, EngineForgets, ImportAssemble, Relaunch, ImportInfo,
             ImportDone, shareVars, sendVars
    <2> QED
      BY <1>1, <2>1, Zenon
  <1> QED
    BY <1>3, <1>4, <1>5, <1>6, <1>7, <1>8, <1>9, Zenon DEF ShareNext

ShareInv == StoreInv /\ ImportInv /\ ClosingInv

\* The store is empty, and nobody pushes, imports or closes.
LEMMA ShareInvInit == ShareInit => ShareInv
  <1> SUFFICES ASSUME ShareInit PROVE ShareInv
    BY Zenon
  <1>1. NoPush.at = "idle" /\ PushShape(NoPush)
    BY Zenon DEF NoPush, PushShape, AtSaved
  <1>2. \A s \in Senders : push[s] = NoPush /\ ~Putting(s) /\ push[s].at \notin AtSaved
    BY Zenon, <1>1 DEF ShareInit, Putting, AtSaved
  <1>3. PushShaped
    BY <1>1, <1>2, Zenon DEF ShareInit, PushShaped
  <1>4. FilesTyped /\ puts \in Nat /\ given \in Nat
    BY DEF ShareInit, FilesTyped
  <1>5. PutsLocked /\ ReplicaTrue
    BY <1>2, Zenon DEF ShareInit, StoreInit, PutsLocked, ReplicaTrue, Complete
  <1>6. PutsPatch
    BY Zenon, <1>2 DEF PutsPatch, Putting, AtSaved
  <1>7. import.at = "idle" /\ import = NoImport
    BY Zenon DEF ShareInit, NoImport
  <1>8. ImportInv
    <2>1. "idle" # "info" /\ "idle" # "file"
      BY Zenon
    <2> QED
      BY <1>4, <1>7, <2>1, Zenon DEF ShareInit, ImportInv, WholeFile
  <1>9. ClosingInv
    BY Zenon, <1>2 DEF ShareInit, ClosingInv, ClosedIsQuiet
  <1> QED
    BY <1>3, <1>4, <1>5, <1>6, <1>8, <1>9, Zenon DEF ShareInv, StoreInv

\* Whatever manifests the senders planned on, however their puts ended and
\* wherever the receiver stopped, Materialize gives the engine one whole save;
\* the record of an import names no replica newer than what this launch of the
\* backend was given; and once Manager.Close has returned no push is under way
\* (kvshare/store.go, sessionshare/worker.go).
THEOREM ShareIsSafe == ShareSpec => []ShareSafe
  <1>1. ShareInv /\ [ShareNext]_shareVars => ShareInv'
    BY StoreInvNext, ImportInvNext, ClosingInvNext, Zenon DEF ShareInv
  <1>2. ShareInv => ShareSafe
    BY Zenon DEF ShareInv, ImportInv, ClosingInv, ShareSafe, ImportedWasGiven
  <1> QED
    BY <1>1, <1>2, ShareInvInit, PTL DEF ShareSpec

=============================================================================
