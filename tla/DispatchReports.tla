-------------------------- MODULE DispatchReports ---------------------------
(***************************************************************************)
(* What reports count and know, and who is woken: a report counts the      *)
(* forwards it is to count, a peer is overbooked only by forwards a report *)
(* could not count, a refusal makes older reports useless, and a waiter gets *)
(* a slot only by a step that announces it.                                *)
(***************************************************************************)
EXTENDS DispatchSlots

-----------------------------------------------------------------------------
(* What reports count of the forwards of this node.                        *)

\* Fewer forwards are no more than the busy slots either.
LEMMA FewerCounted ==
    ASSUME Counting, NEW X, X \subseteq Requests, NEW Y, Y \subseteq X, NEW n \in Nat, Cardinality(X) <= n
    PROVE  Cardinality(Y) <= n
  <1>1. Cardinality(Y) <= Cardinality(X) /\ Cardinality(Y) \in Nat /\ Cardinality(X) \in Nat
    BY Zenon DEF Counting
  <1> QED
    BY <1>1

\* Nobody gives up a forward; reports and polls count what they did.
HoldersStay == \A p \in Peers : Held(p) \subseteq Held(p)'
ReportsStay ==
    \A p \in Peers : report'[p].lists =>
        report[p].lists /\ report'[p].before = report[p].before /\ report'[p].busy = report[p].busy
PollsStay ==
    \A p \in Peers :
        /\ poll'[p].at = "sent" => poll[p].at = "sent" /\ poll'[p].before = poll[p].before
        /\ poll'[p].at = "built" =>
              /\ poll[p].at = "built" /\ poll'[p].before = poll[p].before
              /\ poll'[p].busy = poll[p].busy /\ poll'[p].missed = poll[p].missed
\* The reports a scan goes by are the ones it had, or the last ones.
SameBook(rep, old) ==
    /\ old.lists /\ rep.before = old.before /\ rep.busy = old.busy
    /\ rep.unaware = old.unaware /\ rep.sentAfter = old.sentAfter
ScanStays ==
    \A p \in Peers : scan'.on /\ scan'.reps[p].lists =>
        (scan.on /\ SameBook(scan'.reps[p], scan.reps[p])) \/ SameBook(scan'.reps[p], report[p])

\* Only a release gives up a forward.
LEMMA HoldersStayBy ==
    ASSUME SlotInv, ScanInOrder, Next, ~\E r \in Requests : Release(r)
    PROVE  HoldersStay
  <1>0. TypeOK /\ SlotsCounted
    BY Zenon DEF SlotInv
  <1>1. ASSUME UNCHANGED lease PROVE HoldersStay
    BY Zenon, <1>1 DEF HoldersStay, Held
  <1>2. ASSUME NEW r \in Requests, lease[r] = "none", NEW t, Take(r, t) PROVE HoldersStay
    <2>1. \A c \in Requests : c # r => lease'[c] = lease[c]
      BY Zenon, <1>0, <1>2 DEF Take, TypeOK
    <2>2. \A p \in Peers : p # "none"
      BY Zenon, RouterAssumption
    <2> QED
      BY <1>2, <2>1, <2>2 DEF HoldersStay, Held
  <1>3. ASSUME NEW r \in Requests, Acquire(r) \/ Retry(r) PROVE HoldersStay
    <2>1. lease[r] = "none"
      BY Zenon, <1>3 DEF SlotInv, LeaseMatches, MatchAt, Acquire, Retry
    <2>2. UNCHANGED lease \/ \E t : Take(r, t)
      BY ZenonT(40), <1>3 DEF Acquire, Retry
    <2> QED
      BY <1>1, <1>2, <2>1, <2>2
  <1>4. ASSUME NEW r \in Requests, EndLocal(r) PROVE HoldersStay
    <2>1. lease[r] \in Backends
      BY Zenon, <1>4 DEF SlotInv, LeaseMatches, MatchAt, EndLocal
    <2>2. \A c \in Requests : c # r => lease'[c] = lease[c]
      BY Zenon, <1>0, <1>4 DEF EndLocal, TypeOK
    <2>3. \A p \in Peers : lease[r] # p
      BY <2>1, RouterAssumption
    <2> QED
      BY <2>2, <2>3 DEF HoldersStay, Held
  <1>5. ASSUME ScanWaiter PROVE HoldersStay
    <2>1. scan.on /\ scan.todo # <<>>
      BY Zenon, <1>5 DEF ScanWaiter
    <2>2. Head(scan.todo) \in Requests /\ lease[Head(scan.todo)] = "none"
      BY <1>0, <2>1, ScanAt DEF SlotInv, WaitersQueued
    <2>3. UNCHANGED lease \/ \E t : Take(Head(scan.todo), t)
      BY ZenonT(40), <1>0, <1>5, ScanWaiterMoves
    <2> QED
      BY Zenon, <1>1, <1>2, <2>2, <2>3
  <1>6. CASE \/ \E r \in Requests : \/ Receive(r) \/ Timeout(r) \/ Cancel(r) \/ Arrive(r) \/ EndPeer(r)
                                    \/ FailPeer(r) \/ Refused(r) \/ Wake(r)
             \/ ScanEnd \/ Tick \/ ChangeLocal
             \/ \E p \in Peers : \/ SendPoll(p) \/ BuildReport(p) \/ AcceptReport(p) \/ WakeReport(p)
                                 \/ FailPoll(p) \/ AgeReport(p) \/ Forget(p) \/ Join(p)
    <2>1. UNCHANGED lease
      BY ZenonT(40), <1>6 DEF Receive, Timeout, Cancel, Arrive, EndPeer, FailPeer, Refused, Wake, ScanEnd, Tick,
                  ChangeLocal, SendPoll, BuildReport, AcceptReport, WakeReport, FailPoll, AgeReport,
                  Forget, Join, routerVars
    <2> QED
      BY Zenon, <1>1, <2>1
  <1> QED
    BY Zenon, <1>3, <1>4, <1>5, <1>6 DEF Next

\* A report that counts what it did still counts the forwards it is to count.
LEMMA ReportsCountedStay ==
    ASSUME Counting, TypeOK, ReportsCounted, HoldersStay, ReportsStay, missed \subseteq missed'
    PROVE  ReportsCounted'
  <1> SUFFICES ASSUME NEW p \in Peers, report'[p].lists
               PROVE  /\ report'[p].before \subseteq Held(p)'
                      /\ Cardinality(report'[p].before \ missed') <= report'[p].busy
    BY ZenonT(40) DEF ReportsCounted, CountedIn
  <1>1. report[p].lists /\ report'[p].before = report[p].before /\ report'[p].busy = report[p].busy
    BY DEF ReportsStay
  <1>2. report[p].before \subseteq Held(p) /\ Cardinality(report[p].before \ missed) <= report[p].busy
    BY ZenonT(40), <1>1 DEF ReportsCounted, CountedIn
  <1>3. report[p].before \in SUBSET Requests /\ report[p].busy \in Nat
    BY ZenonT(40), <1>1, ScanKinds, ReportKinds DEF Reports
  <1>4. Cardinality(report[p].before \ missed') <= report[p].busy
    <2>1. report[p].before \ missed' \subseteq report[p].before \ missed
      BY Zenon
    <2>2. PICK B \in SUBSET Requests, n \in Nat : B = report[p].before /\ n = report[p].busy
      BY Zenon, <1>2, <1>3
    <2>3. Cardinality(B \ missed) <= n /\ B \ missed' \subseteq B \ missed
      BY <1>2, <1>3, <2>1, <2>2
    <2>4. Cardinality(B \ missed') <= n
      <3>x. PICK X, Y : X = B \ missed /\ Y = B \ missed'
        BY ZenonT(40)
      <3>y. X \subseteq Requests /\ Y \subseteq X /\ Cardinality(X) <= n
        BY Zenon, <2>3, <3>x
      <3>z. Cardinality(Y) <= n
        BY Zenon, <3>y, FewerCounted
      <3> QED
        BY Zenon, <3>x, <3>z
    <2> QED
      BY <2>2, <2>4
  <1> QED
    BY Zenon, <1>1, <1>2, <1>4 DEF HoldersStay

\* So does a poll.
LEMMA PollsCountedStay ==
    ASSUME PollsCounted, HoldersStay, PollsStay
    PROVE  PollsCounted'
  BY ZenonT(40) DEF PollsCounted, CountedIn, HoldersStay, PollsStay

\* So does a scan's copy of the reports.
LEMMA ScanCountedStay ==
    ASSUME Counting, TypeOK, ReportsCounted, ScanCounted, HoldersStay, ScanStays, missed \subseteq missed'
    PROVE  ScanCounted'
  <1> SUFFICES ASSUME NEW p \in Peers, scan'.on, scan'.reps[p].lists
               PROVE  /\ scan'.reps[p].before \subseteq Held(p)'
                      /\ Cardinality(scan'.reps[p].before \ missed') <= scan'.reps[p].busy
    BY Zenon DEF ScanCounted, CountedIn
  <1>1. PICK rep : /\ SameBook(scan'.reps[p], rep)
                   /\ (scan.on /\ rep = scan.reps[p]) \/ rep = report[p]
    BY Zenon DEF ScanStays
  <1>2. rep.lists /\ rep.before = scan'.reps[p].before /\ rep.busy = scan'.reps[p].busy
    BY <1>1 DEF SameBook
  <1>3. rep \in ReportStates
    BY Zenon, <1>1, ScanKinds
  <1>4. rep.before \subseteq Held(p) /\ Cardinality(rep.before \ missed) <= rep.busy
    BY ZenonT(40), <1>1, <1>2 DEF ScanCounted, ReportsCounted, CountedIn
  <1>5. rep.before \in SUBSET Requests /\ rep.busy \in Nat
    BY ZenonT(40), <1>2, <1>3, ReportKinds DEF Reports
  <1>6. Cardinality(rep.before \ missed') <= rep.busy
    <2>1. PICK B \in SUBSET Requests, n \in Nat : B = rep.before /\ n = rep.busy
      BY Zenon, <1>5
    <2>2. Cardinality(B \ missed) <= n /\ B \ missed' \subseteq B \ missed
      BY Zenon, <1>4, <2>1
    <2>3. Cardinality(B \ missed') <= n
      <3>x. PICK X, Y : X = B \ missed /\ Y = B \ missed'
        BY ZenonT(40)
      <3>y. X \subseteq Requests /\ Y \subseteq X /\ Cardinality(X) <= n
        BY <2>2, <3>x
      <3>z. Cardinality(Y) <= n
        BY <3>y, FewerCounted
      <3> QED
        BY Zenon, <3>x, <3>z
    <2> QED
      BY Zenon, <2>1, <2>3
  <1> QED
    BY Zenon, <1>2, <1>4, <1>6 DEF HoldersStay

\* The scan's reports, in every step.
LEMMA ScanStaysBy ==
    ASSUME SlotInv, Next
    PROVE  ScanStays
  <1>0. TypeOK
    BY DEF SlotInv
  <1>1. ASSUME scan'.on, scan.on, scan'.reps = scan.reps PROVE ScanStays
    BY Zenon, <1>1 DEF ScanStays, SameBook
  <1>2. ASSUME scan'.reps = report PROVE ScanStays
    BY Zenon, <1>2 DEF ScanStays, SameBook
  <1>3. ASSUME ~scan'.on PROVE ScanStays
    BY <1>3 DEF ScanStays
  <1>4. ASSUME ScanKept PROVE ScanStays
    <2>1. scan' = scan
      BY Zenon, <1>4 DEF ScanKept
    <2> QED
      BY Zenon, <1>1, <1>3, <2>1
  <1>5. ASSUME Tick \/ (\E r \in Requests : Wake(r)) \/ (\E p \in Peers : WakeReport(p))
        PROVE  ScanStays
    <2>1. ScanKept \/ scan'.reps = report
      BY ZenonT(40), <1>0, <1>5, ScanStartsBy
    <2> QED
      BY <1>2, <1>4, <2>1
  <1>6. ASSUME ScanWaiter PROVE ScanStays
    <2>1. scan.on /\ \E pass \in BOOLEAN : ScanGoesOn(pass)
      BY ZenonT(40), <1>0, <1>6, ScanWaiterMoves DEF ScanWaiter
    <2>2. scan'.on /\ scan'.reps = scan.reps
      BY Zenon, <2>1 DEF ScanGoesOn
    <2> QED
      BY Zenon, <1>1, <2>1, <2>2
  <1>7. ASSUME ScanEnd PROVE ScanStays
    <2>1. scan.on /\ (~scan'.on \/ (scan'.on /\ scan'.reps = scan.reps))
      BY <1>0, <1>7, ScanEnds DEF ScanEnd
    <2> QED
      BY Zenon, <1>1, <1>3, <2>1
  <1>8. ASSUME NEW p \in Peers, AgeReport(p) PROVE ScanStays
    <2>1. CASE ~scan.on
      BY ZenonT(40), <1>0, <1>3, <1>8, <2>1, ScanAges
    <2>2. CASE scan.on
      <3>1. scan.reps \in [Peers -> ReportStates] /\ scan'.on
        BY ZenonT(40), <1>0, <1>8, <2>2, ScanKinds, ScanAges
      <3>2. CASE ~scan.reps[p].lists
        BY ZenonT(40), <1>0, <1>1, <1>8, <2>2, <3>1, <3>2, ScanAges
      <3>3. CASE scan.reps[p].lists
        <4>1. scan'.reps = [scan.reps EXCEPT ![p].fresh = FALSE]
          BY ZenonT(40), <1>0, <1>8, <2>2, <3>3, ScanAges
        <4>f. PICK f \in [Peers -> ReportStates] : f = scan.reps
          BY Zenon, <3>1
        <4>2. PICK g : f = scan.reps /\ g = scan'.reps /\ f[p].lists /\ g = [f EXCEPT ![p].fresh = FALSE]
          BY <3>3, <4>1, <4>f
        <4>3. /\ \A q \in Peers : q # p => g[q] = f[q]
              /\ g[p].unaware = f[p].unaware /\ g[p].sentAfter = f[p].sentAfter
              /\ g[p].before = f[p].before /\ g[p].busy = f[p].busy
          BY <4>2, AgedReport
        <4> QED
          BY <2>2, <3>3, <4>2, <4>3 DEF ScanStays, SameBook
      <3> QED
        BY <3>2, <3>3
    <2> QED
      BY Zenon, <2>1, <2>2
  <1> QED
    BY Zenon, <1>4, <1>5, <1>6, <1>7, <1>8, ScanKeptBy DEF Next

\* The steps that neither send, build nor accept a report nor release a forward.
LEMMA BooksStayBy ==
    ASSUME SlotInv, Next, ~\E r \in Requests : Release(r),
           ~\E p \in Peers : SendPoll(p) \/ BuildReport(p) \/ AcceptReport(p)
    PROVE  ReportsStay /\ PollsStay /\ missed' = missed
  <1>0. TypeOK /\ report \in [Peers -> ReportStates] /\ poll \in [Peers -> PollStates]
    BY Zenon, ScanKinds DEF SlotInv
  <1>1. CASE BooksKept
    BY Zenon, <1>1, BooksKeptSame DEF ReportsStay, PollsStay
  <1>2. ASSUME NEW r \in Requests, FailPeer(r) \/ Refused(r) PROVE lease[r] \in Peers
    BY Zenon, <1>2 DEF SlotInv, LeaseMatches, MatchAt, FailPeer, Refused
  <1>3. ASSUME NEW r \in Requests, FailPeer(r) PROVE ReportsStay /\ PollsStay /\ missed' = missed
    <2>1. PICK p \in Peers : p = lease[r]
      BY <1>2, <1>3
    <2>2. /\ report[p].lists => report' = [report EXCEPT ![p].unaware = @ \cup {r}]
          /\ ~report[p].lists => report' = report
      BY Zenon, <1>3, <2>1 DEF FailPeer
    <2>3. poll' = IF poll[p].at = "built" THEN [poll EXCEPT ![p].unaware = @ \cup {r}] ELSE poll
      BY Zenon, <1>3, <2>1 DEF FailPeer
    <2>4. missed' = missed
      BY <1>3 DEF FailPeer
    <2>5. \A q \in Peers : report'[q].lists = report[q].lists /\ SameReport(report'[q], report[q])
      BY <1>0, <2>2, FailPeerReport
    <2>6. ReportsStay
      BY Zenon, <2>5 DEF SameReport, ReportsStay
    <2>7. PollsStay
      BY <1>0, <2>3, FailPeerPoll DEF PollsStay
    <2> QED
      BY Zenon, <2>4, <2>6, <2>7
  <1>4. ASSUME NEW r \in Requests, Refused(r) PROVE ReportsStay /\ PollsStay /\ missed' = missed
    <2>1. PICK p \in Peers : p = lease[r]
      BY Zenon, <1>2, <1>4
    <2>2. /\ report[p].lists => report' = [report EXCEPT ![p].sentAfter = FALSE]
          /\ ~report[p].lists => report' = report
      BY Zenon, <1>4, <2>1 DEF Refused
    <2>3. poll' = IF poll[p].at \in {"sent", "built"} THEN [poll EXCEPT ![p].sentAfter = FALSE] ELSE poll
      BY Zenon, <1>4, <2>1 DEF Refused
    <2>4. missed' = missed
      BY Zenon, <1>4 DEF Refused
    <2>5. /\ \A q \in Peers : q # p => report'[q] = report[q]
          /\ report'[p].lists = report[p].lists
          /\ report[p].lists => report'[p].before = report[p].before /\ report'[p].busy = report[p].busy
      BY ZenonT(40), <1>0, <2>2, RefusedReport
    <2>6. ReportsStay
      BY Zenon, <2>5 DEF ReportsStay
    <2>7. PollsStay
      BY <1>0, <2>3, RefusedPoll DEF PollsStay
    <2> QED
      BY Zenon, <2>4, <2>6, <2>7
  <1>7. ASSUME NEW p \in Peers, WakeReport(p) \/ FailPoll(p)
        PROVE  ReportsStay /\ PollsStay /\ missed' = missed
    <2>1. report' = report /\ missed' = missed /\ poll' = [poll EXCEPT ![p] = NoPoll]
      BY Zenon, <1>7 DEF WakeReport, FailPoll, routerVars
    <2>2. poll'[p].at \in {"idle", "wake"} /\ \A q \in Peers : q # p => poll'[q] = poll[q]
      BY ZenonT(40), <1>0, <2>1, PollEnds
    <2> QED
      BY Zenon, <2>1, <2>2 DEF ReportsStay, PollsStay
  <1>9. ASSUME NEW p \in Peers, AgeReport(p)
        PROVE  ReportsStay /\ PollsStay /\ missed' = missed
    <2>1. /\ report' = [report EXCEPT ![p].fresh = FALSE] /\ report[p].lists
          /\ poll' = poll /\ missed' = missed
      BY Zenon, <1>9 DEF AgeReport
    <2>2. /\ \A q \in Peers : q # p => report'[q] = report[q]
          /\ report'[p].before = report[p].before /\ report'[p].busy = report[p].busy
      BY <1>0, <2>1, AgedReport
    <2> QED
      BY Zenon, <2>1, <2>2 DEF ReportsStay, PollsStay
  <1>10. ASSUME NEW p \in Peers, Forget(p)
         PROVE  ReportsStay /\ PollsStay /\ missed' = missed
    <2>1. report' = [report EXCEPT ![p] = NoReport] /\ poll' = poll /\ missed' = missed
      BY Zenon, <1>10 DEF Forget
    <2>2. /\ \A q \in Peers : q # p => report'[q] = report[q]
          /\ report'[p].lists = FALSE
      BY Zenon, <1>0, <2>1 DEF NoReport
    <2> QED
      BY Zenon, <2>1, <2>2 DEF ReportsStay, PollsStay
  <1> QED
    BY Zenon, <1>1, <1>3, <1>4, <1>7, <1>9, <1>10 DEF Next, BooksKept

\* The peer builds its report: what it does not count is missed.
LEMMA CountsBuild ==
    ASSUME SlotInv, CountsInv, HoldersStay, ScanStays, NEW p \in Peers, BuildReport(p)
    PROVE  CountsInv'
  <1>0. Counting /\ TypeOK
    BY Zenon DEF SlotInv
  <1>1. /\ \A q \in Peers : q # p => poll'[q] = poll[q]
        /\ poll'[p].at = "built" /\ poll'[p].before = poll[p].before /\ poll'[p].busy \in Nat
        /\ poll'[p].busy >= Cardinality(There(p))
        /\ poll'[p].missed = {r \in poll[p].before : lease[r] = p} \ There(p)
    BY Zenon, <1>0, BuildReportPoll
  <1>2. poll[p].before \subseteq Held(p)
    BY Zenon DEF CountsInv, PollsCounted, BuildReport
  <1>3. poll[p].before \ poll'[p].missed \subseteq There(p)
    BY Zenon, <1>1, <1>2 DEF Held
  <1>6. Cardinality(poll[p].before \ poll'[p].missed) <= poll'[p].busy
    <2>n. PICK n \in Nat : n = poll'[p].busy
      BY Zenon, <1>1
    <2>1. PICK X, Y : X = There(p) /\ Y = poll[p].before \ poll'[p].missed /\ n = poll'[p].busy
      BY ZenonT(40), <2>n
    <2>2. X \subseteq Requests /\ Y \subseteq X /\ Cardinality(X) <= n
      BY <1>0, <1>1, <1>3, <2>1, ThereFinite
    <2>3. Cardinality(Y) <= n
      BY Zenon, <1>0, <2>2, FewerCounted
    <2> QED
      BY Zenon, <2>1, <2>3
  <1>7. report' = report /\ missed' = missed
    BY Zenon DEF BuildReport, routerVars
  <1>8. ReportsCounted' /\ ScanCounted'
    BY Zenon, <1>0, <1>7, ReportsCountedStay, ScanCountedStay DEF CountsInv, ReportsStay
  <1>9. PollsCounted'
    <2>1. ASSUME NEW q \in Peers
          PROVE  /\ poll'[q].at = "sent" => poll'[q].before \subseteq Held(q)'
                 /\ poll'[q].at = "built" => /\ poll'[q].before \subseteq Held(q)'
                                             /\ Cardinality(poll'[q].before \ poll'[q].missed) <= poll'[q].busy
      <3>1. CASE q = p
        BY <1>1, <1>2, <1>6, <3>1 DEF HoldersStay
      <3>2. CASE q # p
        BY ZenonT(40), <1>1, <3>2 DEF HoldersStay, CountsInv, PollsCounted, CountedIn
      <3> QED
        BY Zenon, <3>1, <3>2
    <2> QED
      BY Zenon, <2>1 DEF PollsCounted, CountedIn
  <1> QED
    BY Zenon, <1>8, <1>9 DEF CountsInv

\* A poll is sent: what is held now is older.
LEMMA CountsSend ==
    ASSUME SlotInv, CountsInv, HoldersStay, ScanStays, NEW p \in Peers, SendPoll(p)
    PROVE  CountsInv'
  <1>0. Counting /\ TypeOK
    BY Zenon DEF SlotInv
  <1>1. /\ \A q \in Peers : q # p => poll'[q] = poll[q]
        /\ poll'[p].at = "sent" /\ poll'[p].before = Held(p)
    BY Zenon, <1>0, SendPollPoll
  <1>2. report' = report /\ missed' = missed
    BY SMTT(30) DEF SendPoll, routerVars
  <1>3. ReportsCounted' /\ ScanCounted'
    BY Zenon, <1>0, <1>2, ReportsCountedStay, ScanCountedStay DEF CountsInv, ReportsStay
  <1>4. PollsCounted'
    <2>1. ASSUME NEW q \in Peers
          PROVE  /\ poll'[q].at = "sent" => poll'[q].before \subseteq Held(q)'
                 /\ poll'[q].at = "built" => /\ poll'[q].before \subseteq Held(q)'
                                             /\ Cardinality(poll'[q].before \ poll'[q].missed) <= poll'[q].busy
      <3>1. CASE q = p
        BY Zenon, <1>1, <3>1 DEF HoldersStay
      <3>2. CASE q # p
        BY Zenon, <1>1, <3>2 DEF HoldersStay, CountsInv, PollsCounted, CountedIn
      <3> QED
        BY Zenon, <3>1, <3>2
    <2> QED
      BY Zenon, <2>1 DEF PollsCounted, CountedIn
  <1> QED
    BY Zenon, <1>3, <1>4 DEF CountsInv

\* A report is accepted: the forwards it missed are missed.
LEMMA CountsAccept ==
    ASSUME SlotInv, CountsInv, HoldersStay, ScanStays, NEW p \in Peers, AcceptReport(p)
    PROVE  CountsInv'
  <1>0. Counting /\ TypeOK /\ poll \in [Peers -> PollStates] /\ poll[p].at = "built"
    BY Zenon, ScanKinds DEF SlotInv, AcceptReport
  <1>1. CASE p \in wanted
    <2>1. /\ \A q \in Peers : q # p => report'[q] = report[q]
          /\ report'[p].before = poll[p].before
          /\ report'[p].busy = poll[p].busy
          /\ poll' = [poll EXCEPT ![p] = [at |-> "wake"]]
          /\ missed' = missed \cup {r \in poll[p].missed : lease[r] = p}
      BY <1>0, <1>1, AcceptReportReport
    <2>2. poll'[p].at \in {"idle", "wake"} /\ \A q \in Peers : q # p => poll'[q] = poll[q]
      BY Zenon, <1>0, <2>1, PollEnds
    <2>3. PollsCounted'
      BY Zenon, <2>2, PollsCountedStay DEF CountsInv, PollsStay
    <2>4. ScanCounted'
      BY Zenon, <1>0, <2>1, ScanCountedStay DEF CountsInv
    <2>5. poll[p].before \subseteq Held(p) /\ Cardinality(poll[p].before \ poll[p].missed) <= poll[p].busy
      BY Zenon, <1>0 DEF CountsInv, PollsCounted, CountedIn
    <2>6. Cardinality(poll[p].before \ missed') <= poll[p].busy
      <3>1. PICK B \in SUBSET Requests, n \in Nat : B = poll[p].before /\ n = poll[p].busy
        BY <1>0, PollKinds DEF BuiltPolls
      <3>2. B \ missed' \subseteq B \ poll[p].missed
        BY <2>1, <2>5, <3>1 DEF Held
      <3>3. Cardinality(B \ missed') <= n
        <4>x. PICK X, Y : X = B \ poll[p].missed /\ Y = B \ missed'
          BY ZenonT(40)
        <4>y. X \subseteq Requests /\ Y \subseteq X /\ Cardinality(X) <= n
          BY Zenon, <2>5, <3>1, <3>2, <4>x
        <4>z. Cardinality(Y) <= n
          BY Zenon, <1>0, <4>y, FewerCounted
        <4> QED
          BY Zenon, <4>x, <4>z
      <3> QED
        BY Zenon, <3>1, <3>3
    <2>7. ASSUME NEW q \in Peers, report'[q].lists
          PROVE  /\ report'[q].before \subseteq Held(q)'
                 /\ Cardinality(report'[q].before \ missed') <= report'[q].busy
      <3>1. CASE q = p
        BY ZenonT(40), <2>1, <2>5, <2>6, <3>1 DEF HoldersStay
      <3>2. CASE q # p
        <4>1. report'[q] = report[q] /\ report[q].lists
          BY <2>1, <2>7, <3>2
        <4>2. report[q].before \subseteq Held(q) /\ Cardinality(report[q].before \ missed) <= report[q].busy
          BY ZenonT(40), <4>1 DEF CountsInv, ReportsCounted, CountedIn
        <4>3. PICK B \in SUBSET Requests, n \in Nat : B = report[q].before /\ n = report[q].busy
          BY ZenonT(40), <1>0, <4>1, ScanKinds, ReportKinds DEF Reports
        <4>4. B \ missed' \subseteq B \ missed
          BY Zenon, <2>1
        <4>5. Cardinality(B \ missed') <= n
          <5>x. PICK X, Y : X = B \ missed /\ Y = B \ missed'
            BY ZenonT(40)
          <5>y. X \subseteq Requests /\ Y \subseteq X /\ Cardinality(X) <= n
            BY <4>2, <4>3, <4>4, <5>x
          <5>z. Cardinality(Y) <= n
            BY Zenon, <1>0, <5>y, FewerCounted
          <5> QED
            BY Zenon, <5>x, <5>z
        <4> QED
          BY Zenon, <4>1, <4>2, <4>3, <4>5 DEF HoldersStay
      <3> QED
        BY <3>1, <3>2
    <2>8. ReportsCounted'
      BY Zenon, <2>7 DEF ReportsCounted, CountedIn
    <2> QED
      BY Zenon, <2>3, <2>4, <2>8 DEF CountsInv
  <1>2. CASE p \notin wanted
    <2>1. report' = report /\ missed' = missed /\ poll' = [poll EXCEPT ![p] = NoPoll]
      BY Zenon, <1>2 DEF AcceptReport
    <2>2. poll'[p].at \in {"idle", "wake"} /\ \A q \in Peers : q # p => poll'[q] = poll[q]
      BY ZenonT(40), <1>0, <2>1, PollEnds
    <2>3. PollsCounted'
      BY Zenon, <2>2, PollsCountedStay DEF CountsInv, PollsStay
    <2>4. ReportsCounted' /\ ScanCounted'
      BY <1>0, <2>1, ReportsCountedStay, ScanCountedStay DEF CountsInv, ReportsStay
    <2> QED
      BY <2>3, <2>4 DEF CountsInv
  <1> QED
    BY Zenon, <1>1, <1>2

\* A lease is released: it is struck out everywhere.
LEMMA CountsRelease ==
    ASSUME SlotInv, CountsInv, NEW r \in Requests, Release(r)
    PROVE  CountsInv'
  <1>0. /\ Counting /\ TypeOK /\ SlotsCounted
        /\ report \in [Peers -> ReportStates] /\ poll \in [Peers -> PollStates]
        /\ missed' = missed \ {r} /\ report' = Without(report, r) /\ poll' = Without(poll, r)
    BY Zenon, ScanKinds DEF SlotInv, Release
  <1>1. \A p \in Peers : p # "none"
    BY Zenon, RouterAssumption
  <1>2. ASSUME NEW p \in Peers PROVE Held(p)' = Held(p) \ {r}
    <2>1. /\ lease' = [lease EXCEPT ![r] = "none"]
          /\ inFlight' = IF lease[r] \in Backends
                         THEN [inFlight EXCEPT ![lease[r]] = @ - 1] ELSE inFlight
      BY Zenon DEF Release
    <2> QED
      BY ZenonT(40), <1>0, <1>1, <2>1, FreedSlot
  <1>3. \A q \in Peers :
           /\ report'[q].lists = report[q].lists
           /\ report[q].lists => /\ report'[q].before = report[q].before \ {r}
                                 /\ report'[q].busy = report[q].busy
    BY <1>0, WithoutReport
  <1>4. \A q \in Peers :
           /\ poll'[q].at = poll[q].at
           /\ poll[q].at \in {"sent", "built"} => poll'[q].before = poll[q].before \ {r}
           /\ poll[q].at = "built" => /\ poll'[q].busy = poll[q].busy
                                      /\ poll'[q].missed = poll[q].missed
    BY <1>0, WithoutPoll
  <1>5. ReportsCounted'
    <2> SUFFICES ASSUME NEW p \in Peers, report'[p].lists
                 PROVE  /\ report'[p].before \subseteq Held(p)'
                        /\ Cardinality(report'[p].before \ missed') <= report'[p].busy
      BY Zenon DEF ReportsCounted, CountedIn
    <2>1. report[p].lists /\ report'[p].before = report[p].before \ {r} /\ report'[p].busy = report[p].busy
      BY Zenon, <1>3
    <2>2. report[p].before \subseteq Held(p) /\ Cardinality(report[p].before \ missed) <= report[p].busy
      BY Zenon, <2>1 DEF CountsInv, ReportsCounted, CountedIn
    <2>3. PICK B \in SUBSET Requests, n \in Nat : B = report[p].before /\ n = report[p].busy
      BY ZenonT(40), <1>0, <2>1, ReportKinds DEF Reports
    <2>4. Cardinality(B \ missed) <= n /\ (B \ {r}) \ missed' \subseteq B \ missed
      BY Zenon, <1>0, <2>2, <2>3
    <2>5. Cardinality((B \ {r}) \ missed') <= n
      <3>x. PICK X, Y : X = B \ missed /\ Y = (B \ {r}) \ missed'
        BY ZenonT(40)
      <3>y. X \subseteq Requests /\ Y \subseteq X /\ Cardinality(X) <= n
        BY Zenon, <2>4, <3>x
      <3>z. Cardinality(Y) <= n
        BY Zenon, <1>0, <3>y, FewerCounted
      <3> QED
        BY Zenon, <3>x, <3>z
    <2> QED
      BY Zenon, <1>2, <2>1, <2>2, <2>3, <2>5
  <1>6. PollsCounted'
    <2> SUFFICES ASSUME NEW p \in Peers
                 PROVE  /\ poll'[p].at = "sent" => poll'[p].before \subseteq Held(p)'
                        /\ poll'[p].at = "built" =>
                              /\ poll'[p].before \subseteq Held(p)'
                              /\ Cardinality(poll'[p].before \ poll'[p].missed) <= poll'[p].busy
      BY Zenon DEF PollsCounted, CountedIn
    <2>1. ASSUME poll[p].at \in {"sent", "built"} PROVE poll'[p].before \subseteq Held(p)'
      <3>1. poll[p].before \subseteq Held(p)
        BY ZenonT(40), <2>1 DEF CountsInv, PollsCounted, CountedIn
      <3> QED
        BY Zenon, <1>2, <1>4, <2>1, <3>1
    <2>2. ASSUME poll[p].at = "built"
          PROVE  Cardinality(poll'[p].before \ poll'[p].missed) <= poll'[p].busy
      <3>1. /\ poll'[p].before = poll[p].before \ {r} /\ poll'[p].busy = poll[p].busy
            /\ poll'[p].missed = poll[p].missed
        BY Zenon, <1>4, <2>2
      <3>m. PICK M : M = poll[p].missed
        BY Zenon
      <3>2. PICK B \in SUBSET Requests, n \in Nat :
               B = poll[p].before /\ n = poll[p].busy /\ M = poll[p].missed
        BY SMTT(30), <1>0, <2>2, <3>m, PollKinds DEF BuiltPolls
      <3>3. Cardinality(B \ M) <= n /\ (B \ {r}) \ M \subseteq B \ M
        BY Zenon, <2>2, <3>2 DEF CountsInv, PollsCounted, CountedIn
      <3>4. Cardinality((B \ {r}) \ M) <= n
        <4>x. PICK X, Y : X = B \ M /\ Y = (B \ {r}) \ M
          BY ZenonT(40)
        <4>y. X \subseteq Requests /\ Y \subseteq X /\ Cardinality(X) <= n
          BY Zenon, <3>3, <4>x
        <4>z. Cardinality(Y) <= n
          BY Zenon, <1>0, <4>y, FewerCounted
        <4> QED
          BY Zenon, <4>x, <4>z
      <3> QED
        BY Zenon, <3>1, <3>2, <3>4
    <2> QED
      BY <1>4, <2>1, <2>2
  <1>7. ScanCounted'
    <2> SUFFICES ASSUME NEW p \in Peers, scan'.on, scan'.reps[p].lists
                 PROVE  /\ scan'.reps[p].before \subseteq Held(p)'
                        /\ Cardinality(scan'.reps[p].before \ missed') <= scan'.reps[p].busy
      BY Zenon DEF ScanCounted, CountedIn
    <2>1. scan' = scan /\ scan.on /\ scan.reps[p].lists
      BY Zenon DEF Release
    <2>2. r \notin Held(p)
      BY Zenon, <2>1 DEF Release, Held
    <2>3. /\ scan.reps[p].before \subseteq Held(p)
          /\ Cardinality(scan.reps[p].before \ missed) <= scan.reps[p].busy
      BY ZenonT(40), <2>1 DEF CountsInv, ScanCounted, CountedIn
    <2>4. scan.reps[p].before \ missed' = scan.reps[p].before \ missed
      BY Zenon, <1>0, <2>2, <2>3
    <2> QED
      BY Zenon, <1>2, <2>1, <2>2, <2>3, <2>4
  <1> QED
    BY Zenon, <1>5, <1>6, <1>7 DEF CountsInv

\* Every step keeps the counts of the reports.
LEMMA CountsStep ==
    ASSUME SlotInv, ScanInOrder, CountsInv, Next
    PROVE  CountsInv'
  <1>0. Counting /\ TypeOK /\ ScanStays
    BY Zenon, ScanStaysBy DEF SlotInv
  <1>1. CASE \E r \in Requests : Release(r)
    BY <1>1, CountsRelease
  <1>2. CASE ~\E r \in Requests : Release(r)
    <2>1. HoldersStay
      BY Zenon, <1>2, HoldersStayBy
    <2>2. CASE \E p \in Peers : SendPoll(p) \/ BuildReport(p) \/ AcceptReport(p)
      BY <1>0, <2>1, <2>2, CountsBuild, CountsSend, CountsAccept
    <2>3. CASE ~\E p \in Peers : SendPoll(p) \/ BuildReport(p) \/ AcceptReport(p)
      <3>1. ReportsStay /\ PollsStay /\ missed' = missed
        BY Zenon, <1>2, <2>3, BooksStayBy
      <3> QED
        BY Zenon, <1>0, <2>1, <3>1, ReportsCountedStay, PollsCountedStay, ScanCountedStay DEF CountsInv
    <2> QED
      BY Zenon, <2>2, <2>3
  <1> QED
    BY Zenon, <1>1, <1>2

\* A forward is sent to a peer only while the peer's slots are not all taken.
LEMMA ForwardFits ==
    ASSUME SlotInv, NEW r \in Requests, lease[r] = "none", NEW ex, NEW reps \in [Peers -> ReportStates],
           NEW p \in Peers, p \in Pick(r, ex, reps), CountedIn(p, reps[p], missed)
    PROVE  /\ Cardinality(Held(p) \ missed) < Slots[p] /\ Cardinality(Held(p) \ missed) \in Nat
           /\ p \in PeerCandidates(r, ex, reps) /\ reps[p].lists /\ reps[p].sentAfter
  <1>0. Counting /\ TypeOK
    BY Zenon DEF SlotInv
  <1>1. p \in PeerCandidates(r, ex, reps)
    <2>1. p \in Targets /\ p \notin Backends
      BY Zenon, RouterAssumption DEF Targets
    <2> QED
      BY Zenon, <1>0, <2>1, PickTarget DEF LocalCandidates, TypeOK
  <1>2. reps[p].lists /\ reps[p].sentAfter /\ PeerFree(reps, p) > 0
    BY Zenon, <1>1 DEF PeerCandidates, Serves
  <1>3. PICK B \in SUBSET Requests, n \in Nat, s \in Nat :
            B = reps[p].before /\ n = reps[p].busy /\ s = Slots[p]
    BY ZenonT(40), <1>2, ReportKinds, RouterAssumption DEF Reports
  <1> DEFINE R == ReservedLocked(reps, p)
  <1>4. B \subseteq Held(p) /\ Cardinality(B \ missed) <= n
    BY Zenon, <1>3 DEF CountedIn
  <1>5. R = Held(p) \ B
    BY Zenon, <1>3 DEF ReservedLocked, Held
  <1>6. s - n - Cardinality(R) > 0
    BY Zenon, <1>2, <1>3 DEF PeerFree
  <1> HIDE DEF R
  <1>7. Held(p) \in SUBSET Requests
    BY Zenon DEF Held
  <1>8. PICK X, Y \in SUBSET Requests : X = B \ missed /\ Y = Held(p) \ missed
    BY ZenonT(40), <1>7
  <1>9. R \in SUBSET Requests /\ X \cup R \in SUBSET Requests /\ Y \subseteq X \cup R
    BY Zenon, <1>5, <1>7, <1>8
  <1>10. /\ Cardinality(X \cup R) <= Cardinality(X) + Cardinality(R) /\ Cardinality(Y) <= Cardinality(X \cup R)
         /\ Cardinality(X) \in Nat /\ Cardinality(R) \in Nat /\ Cardinality(X \cup R) \in Nat
         /\ Cardinality(Y) \in Nat
    BY ZenonT(40), <1>0, <1>8, <1>9 DEF Counting
  <1>11. Cardinality(X) <= n
    BY Zenon, <1>4, <1>8
  <1>12. Cardinality(Y) < s
    BY <1>6, <1>10, <1>11
  <1> QED
    BY SMTT(30), <1>1, <1>2, <1>3, <1>8, <1>10, <1>12

-----------------------------------------------------------------------------
(* Forwards beyond the slots of a peer.                                    *)

\* Request r takes slot t, which a pick gave it from the reports reps.
Takes(r, t, ex, reps) ==
    /\ r \in Requests /\ t \in Targets
    /\ lease[r] = "none" /\ t \in Pick(r, ex, reps) /\ Take(r, t) /\ missed' = missed
    /\ req[r].at # "refused"
    /\ reps = IF scan.on THEN scan.reps ELSE report

\* A step gives no slot.
Frees ==
    /\ \A c \in Requests : lease'[c] \in {lease[c], "none"}
    /\ \A c \in missed : c \in missed' \/ lease'[c] = "none"

\* A lease changes by a pick, or is given up.
LEMMA LeaseMoves ==
    ASSUME SlotInv, ScanInOrder, Next
    PROVE  Frees \/ \E r, t, ex, reps : Takes(r, t, ex, reps)
  <1>0. TypeOK /\ missed \subseteq Requests /\ lease \in [Requests -> Targets \cup {"none"}]
    BY Zenon DEF SlotInv, TypeOK
  <1>1. ASSUME lease' = lease, missed \subseteq missed' PROVE Frees
    BY Zenon, <1>0, <1>1 DEF Frees
  <1>2. ASSUME NEW r \in Requests, Acquire(r)
        PROVE  Frees \/ \E t, ex, reps : Takes(r, t, ex, reps)
    <2>1. lease[r] = "none" /\ ~scan.on /\ missed' = missed /\ req[r].at # "refused"
      BY Zenon, <1>2 DEF SlotInv, LeaseMatches, MatchAt, Acquire
    <2>2. lease' = lease \/ \E t \in Targets : t \in Pick(r, {}, report) /\ Take(r, t)
      BY Zenon, <1>2 DEF Acquire
    <2>3. CASE lease' = lease
      BY Zenon, <1>1, <2>1, <2>3
    <2>4. CASE \E t \in Targets : t \in Pick(r, {}, report) /\ Take(r, t)
      <3>1. PICK t \in Targets : t \in Pick(r, {}, report) /\ Take(r, t)
        BY Zenon, <2>4
      <3>2. Takes(r, t, {}, report)
        BY Zenon, <2>1, <3>1 DEF Takes
      <3> QED
        BY Zenon, <3>2
    <2> QED
      BY Zenon, <2>2, <2>3, <2>4
  <1>3. ASSUME NEW r \in Requests, Retry(r)
        PROVE  Frees \/ \E t, ex, reps : Takes(r, t, ex, reps)
    <2>1. lease[r] = "none" /\ ~scan.on /\ missed' = missed /\ req[r].at # "refused"
      BY <1>3 DEF SlotInv, LeaseMatches, MatchAt, Retry
    <2>2. lease' = lease \/ \E t \in Targets : t \in Pick(r, req[r].tried, report) /\ Take(r, t)
      BY ZenonT(40), <1>3 DEF Retry
    <2>3. CASE lease' = lease
      BY Zenon, <1>1, <2>1, <2>3
    <2>4. CASE \E t \in Targets : t \in Pick(r, req[r].tried, report) /\ Take(r, t)
      <3>1. PICK t \in Targets : t \in Pick(r, req[r].tried, report) /\ Take(r, t)
        BY Zenon, <2>4
      <3>2. Takes(r, t, req[r].tried, report)
        BY Zenon, <2>1, <3>1 DEF Takes
      <3> QED
        BY Zenon, <3>2
    <2> QED
      BY Zenon, <2>2, <2>3, <2>4
  <1>4. ASSUME ScanWaiter
        PROVE  Frees \/ \E r, t, ex, reps : Takes(r, t, ex, reps)
    <2>1. scan.on /\ scan.todo # <<>> /\ missed' = missed
      BY <1>4 DEF ScanWaiter
    <2>2. PICK w \in Requests : w = Head(scan.todo)
      BY Zenon, <1>0, <2>1, ScanAt
    <2>3. lease[w] = "none" /\ req[w].at = "queued"
      BY Zenon, <1>0, <2>1, <2>2, ScanAt DEF SlotInv, WaitersQueued
    <2>4. lease' = lease \/ \E t \in Targets : t \in Pick(w, {}, scan.reps) /\ Take(w, t)
      BY ZenonT(40), <1>0, <1>4, <2>2, ScanWaiterMoves
    <2>5. CASE lease' = lease
      BY Zenon, <1>1, <2>1, <2>5
    <2>6. CASE \E t \in Targets : t \in Pick(w, {}, scan.reps) /\ Take(w, t)
      <3>1. PICK t \in Targets : t \in Pick(w, {}, scan.reps) /\ Take(w, t)
        BY Zenon, <2>6
      <3>2. Takes(w, t, {}, scan.reps)
        BY Zenon, <2>1, <2>3, <3>1 DEF Takes
      <3> QED
        BY Zenon, <3>2
    <2> QED
      BY Zenon, <2>4, <2>5, <2>6
  <1>5. ASSUME NEW r \in Requests, EndLocal(r) \/ Release(r) PROVE Frees
    <2>1. lease' = [lease EXCEPT ![r] = "none"] /\ missed \ {r} \subseteq missed'
      BY ZenonT(40), <1>5 DEF EndLocal, Release
    <2> QED
      BY Zenon, <1>0, <2>1 DEF Frees
  <1>6. ASSUME \/ \E r \in Requests : \/ Receive(r) \/ Timeout(r) \/ Cancel(r) \/ Arrive(r) \/ EndPeer(r)
                                      \/ FailPeer(r) \/ Refused(r) \/ Wake(r)
               \/ ScanEnd \/ Tick \/ ChangeLocal
               \/ \E p \in Peers : \/ SendPoll(p) \/ BuildReport(p) \/ AcceptReport(p) \/ WakeReport(p)
                                   \/ FailPoll(p) \/ AgeReport(p) \/ Forget(p) \/ Join(p)
        PROVE  Frees
    <2>1. lease' = lease
      BY ZenonT(40), <1>6 DEF Receive, Timeout, Cancel, Arrive, EndPeer, FailPeer, Refused, Wake, ScanEnd, Tick,
                  ChangeLocal, SendPoll, BuildReport, AcceptReport, WakeReport, FailPoll, AgeReport,
                  Forget, Join, routerVars
    <2>2. missed \subseteq missed'
      BY ZenonT(40), <1>6 DEF Receive, Timeout, Cancel, Arrive, EndPeer, FailPeer, Refused, Wake, ScanEnd, Tick,
                  ChangeLocal, SendPoll, BuildReport, AcceptReport, WakeReport, FailPoll, AgeReport,
                  Forget, Join
    <2> QED
      BY Zenon, <1>1, <2>1, <2>2
  <1> QED
    BY Zenon, <1>2, <1>3, <1>4, <1>5, <1>6 DEF Next

\* A peer is not overbooked but by missed forwards.
LEMMA OverbookedStep ==
    ASSUME SlotInv, ScanInOrder, CountsInv, OverbookedOnlyByMissed, Next
    PROVE  OverbookedOnlyByMissed'
  <1>0. Counting /\ TypeOK /\ SlotsCounted /\ lease \in [Requests -> Targets \cup {"none"}]
    BY Zenon DEF SlotInv, TypeOK
  <1>n. \A p \in Peers : p # "none" /\ Slots[p] \in Nat
    BY Zenon, RouterAssumption
  <1> SUFFICES ASSUME NEW p \in Peers PROVE Cardinality(Held(p)' \ missed') <= Slots[p]
    BY Zenon DEF OverbookedOnlyByMissed
  <1>s. PICK n \in Nat : n = Slots[p]
    BY Zenon, <1>n
  <1>1. PICK X, Y : X = Held(p) \ missed /\ Y = Held(p)' \ missed' /\ n = Slots[p]
    BY ZenonT(40), <1>s
  <1>2. X \subseteq Requests /\ Cardinality(X) <= n
    BY Zenon, <1>1 DEF OverbookedOnlyByMissed, Held
  <1>3. CASE Frees
    <2>1. Y \subseteq X
      BY Zenon, <1>n, <1>1, <1>3 DEF Frees, Held
    <2>2. Cardinality(Y) <= n
      BY Zenon, <1>0, <1>2, <2>1, FewerCounted
    <2> QED
      BY Zenon, <1>1, <2>2
  <1>4. ASSUME NEW r \in Requests, NEW t \in Targets, NEW ex, NEW reps, Takes(r, t, ex, reps)
        PROVE  Cardinality(Held(p)' \ missed') <= Slots[p]
    <2>1. /\ lease[r] = "none" /\ t \in Pick(r, ex, reps) /\ Take(r, t) /\ missed' = missed
          /\ reps = IF scan.on THEN scan.reps ELSE report
      BY Zenon, <1>4 DEF Takes
    <2>2. Held(p)' = IF p = t THEN Held(p) \cup {r} ELSE Held(p) \ {r}
      BY <1>0, <2>1, TakenSlot
    <2>3. CASE p # t
      <3>1. Y \subseteq X
        BY Zenon, <1>1, <2>1, <2>2, <2>3
      <3>2. Cardinality(Y) <= n
        BY Zenon, <1>0, <1>2, <3>1, FewerCounted
      <3> QED
        BY Zenon, <1>1, <3>2
    <2>4. CASE p = t
      <3>1. reps \in [Peers -> ReportStates]
        BY Zenon, <1>0, <2>1, ScanKinds
      <3>2. p \in PeerCandidates(r, ex, reps)
        <4>1. p \notin Backends
          BY RouterAssumption
        <4> QED
          BY ZenonT(40), <1>0, <2>1, <2>4, <4>1, PickTarget DEF LocalCandidates, TypeOK
      <3>3. reps[p].lists
        BY Zenon, <3>2 DEF PeerCandidates, Serves
      <3>4. CountedIn(p, reps[p], missed)
        BY Zenon, <2>1, <3>3 DEF CountsInv, ReportsCounted, ScanCounted
      <3>5. Cardinality(X) < n /\ Cardinality(X) \in Nat
        BY <1>1, <2>1, <2>4, <3>1, <3>4, ForwardFits
      <3>6. Y \subseteq X \cup {r}
        BY Zenon, <1>1, <2>1, <2>2
      <3>8. Cardinality(X \cup {r}) <= Cardinality(X) + 1 /\ Cardinality(X \cup {r}) \in Nat
        <4>1. CASE r \in X
          <5>1. X \cup {r} = X
            BY Zenon, <4>1
          <5>2. Cardinality(X \cup {r}) = Cardinality(X)
            BY ZenonT(40), <5>1
          <5> QED
            BY <3>5, <5>2
        <4>2. CASE r \notin X
          <5>1. Cardinality(X \cup {r}) = Cardinality(X) + 1
            BY Zenon, <1>0, <1>2, <4>2 DEF Counting
          <5> QED
            BY <3>5, <5>1
        <4> QED
          BY Zenon, <4>1, <4>2
      <3>9. X \cup {r} \subseteq Requests /\ Cardinality(X \cup {r}) <= n
        BY <1>2, <3>5, <3>8
      <3>10. Cardinality(Y) <= n
        BY Zenon, <1>0, <3>6, <3>9, FewerCounted
      <3> QED
        BY Zenon, <1>1, <3>10
    <2> QED
      BY Zenon, <2>3, <2>4
  <1> QED
    BY Zenon, <1>3, <1>4, LeaseMoves DEF Takes

-----------------------------------------------------------------------------
(* Refusals that a report does not know of.                                *)

\* A refusal that is not yet recorded.
RefusalsStay ==
    \A c \in Requests : req[c].at = "refused" => req'[c].at = "refused" /\ lease'[c] = lease[c]

\* Only the refused request itself goes on.
LEMMA RefusalsStayBy ==
    ASSUME SlotInv, ScanInOrder, Next, ~\E r \in Requests : Refused(r)
    PROVE  RefusalsStay
  <1>0. TypeOK /\ LeaseMatches /\ req \in [Requests -> Dispatches]
        /\ lease \in [Requests -> Targets \cup {"none"}]
    BY Zenon DEF SlotInv, TypeOK
  <1>1. ASSUME NEW r \in Requests, req[r].at # "refused",
               \A c \in Requests : c # r => req'[c] = req[c],
               \A c \in Requests : c # r => lease'[c] = lease[c]
        PROVE  RefusalsStay
    BY Zenon, <1>1 DEF RefusalsStay
  <1>t. ASSUME NEW r \in Requests, UNCHANGED lease \/ \E t : Take(r, t)
        PROVE  \A c \in Requests : c # r => lease'[c] = lease[c]
    BY Zenon, <1>0, <1>t DEF Take
  <1>2. ASSUME NEW r \in Requests, Acquire(r) \/ Retry(r) PROVE RefusalsStay
    <2>1. req[r].at # "refused" /\ (UNCHANGED lease \/ \E t : Take(r, t))
      BY ZenonT(40), <1>2 DEF Acquire, Retry
    <2>2. \E a : Moved(r, a)
      BY Zenon, <1>0, <1>2, AcquireMoves, RetryMoves
    <2>3. \A c \in Requests : c # r => req'[c] = req[c]
      BY <2>2 DEF Moved
    <2> QED
      BY <1>1, <1>t, <2>1, <2>3
  <1>3. ASSUME NEW r \in Requests, \/ Receive(r) \/ Timeout(r) \/ Cancel(r) \/ EndLocal(r)
                                   \/ Arrive(r) \/ EndPeer(r) \/ FailPeer(r) \/ Release(r) \/ Wake(r)
        PROVE  RefusalsStay
    <2>1. req[r].at # "refused"
      BY ZenonT(40), <1>3 DEF Receive, Timeout, Cancel, EndLocal, Arrive, EndPeer, FailPeer, Release, Wake
    <2>2. \A c \in Requests : c # r => req'[c] = req[c]
      BY ZenonT(40), <1>0, <1>3 DEF Receive, Timeout, Cancel, EndLocal, Arrive, EndPeer, FailPeer, Release, Wake, Goes
    <2>3. \A c \in Requests : c # r => lease'[c] = lease[c]
      BY ZenonT(40), <1>0, <1>3 DEF Receive, Timeout, Cancel, EndLocal, Arrive, EndPeer, FailPeer, Release, Wake,
                        routerVars
    <2> QED
      BY Zenon, <1>1, <2>1, <2>2, <2>3
  <1>4. ASSUME ScanWaiter PROVE RefusalsStay
    <2>1. scan.on /\ scan.todo # <<>> /\ req' = req
      BY <1>4 DEF ScanWaiter
    <2>2. PICK w \in Requests : w = Head(scan.todo)
      BY Zenon, <1>0, <2>1, ScanAt
    <2>3. req[w].at = "queued"
      BY Zenon, <1>0, <2>1, <2>2, ScanAt DEF SlotInv, WaitersQueued
    <2>4. UNCHANGED lease \/ \E t : Take(w, t)
      BY ZenonT(40), <1>0, <1>4, <2>2, ScanWaiterMoves
    <2> QED
      BY Zenon, <1>1, <1>t, <2>1, <2>3, <2>4
  <1>5. ASSUME \/ ScanEnd \/ Tick \/ ChangeLocal
               \/ \E p \in Peers : \/ SendPoll(p) \/ BuildReport(p) \/ AcceptReport(p) \/ WakeReport(p)
                                   \/ FailPoll(p) \/ AgeReport(p) \/ Forget(p) \/ Join(p)
        PROVE  RefusalsStay
    <2>1. UNCHANGED <<req, lease>>
      BY Zenon, <1>5 DEF ScanEnd, Tick, ChangeLocal, SendPoll, BuildReport, AcceptReport, WakeReport, FailPoll,
                  AgeReport, Forget, Join, routerVars
    <2> QED
      BY Zenon, <2>1 DEF RefusalsStay
  <1> QED
    BY Zenon, <1>2, <1>3, <1>4, <1>5 DEF Next

\* The reports and polls know of the refusals they knew of.
ReportsKnow ==
    \A q \in Peers : report'[q].lists =>
        /\ report[q].lists /\ report'[q].unaware = report[q].unaware
        /\ report'[q].sentAfter = report[q].sentAfter
PollsKnow ==
    \A q \in Peers : poll'[q].at = "built" =>
        /\ poll[q].at = "built" /\ poll'[q].unaware = poll[q].unaware
        /\ poll'[q].sentAfter = poll[q].sentAfter

\* The unaware of a report or poll are requests.
LEMMA UnawareRequests ==
    ASSUME TypeOK, NEW p \in Peers
    PROVE  /\ report[p].lists => report[p].unaware \subseteq Requests
           /\ poll[p].at = "built" => poll[p].unaware \subseteq Requests
           /\ scan.on /\ scan.reps[p].lists => scan.reps[p].unaware \subseteq Requests
  <1>1. /\ report[p] \in ReportStates /\ poll[p] \in PollStates
        /\ scan.on => scan.reps[p] \in ReportStates
    BY Zenon, ScanKinds
  <1>2. ASSUME NEW rep \in ReportStates, rep.lists PROVE rep.unaware \subseteq Requests
    BY ZenonT(40), <1>2, ReportKinds DEF Reports
  <1>3. poll[p].at = "built" => poll[p].unaware \subseteq Requests
    BY <1>1, PollKinds DEF BuiltPolls
  <1> QED
    BY <1>1, <1>2, <1>3

\* What a report does not know stays without effect.
LEMMA ReportsKnownStay ==
    ASSUME TypeOK, ReportsKnown, RefusalsStay, ReportsKnow
    PROVE  ReportsKnown'
  <1> SUFFICES ASSUME NEW p \in Peers, report'[p].lists, NEW r \in report'[p].unaware
               PROVE  ~report'[p].sentAfter \/ (req'[r].at = "refused" /\ lease'[r] = p)
    BY Zenon DEF ReportsKnown, RefusalKnown
  <1>1. /\ report[p].lists /\ r \in report[p].unaware
        /\ report'[p].sentAfter = report[p].sentAfter
    BY DEF ReportsKnow
  <1>2. r \in Requests
    BY Zenon, <1>1, UnawareRequests
  <1> QED
    BY Zenon, <1>1, <1>2 DEF ReportsKnown, RefusalKnown, RefusalsStay

\* So does what a poll does not know.
LEMMA PollsKnownStay ==
    ASSUME TypeOK, PollsKnown, RefusalsStay, PollsKnow
    PROVE  PollsKnown'
  <1> SUFFICES ASSUME NEW p \in Peers, poll'[p].at = "built", NEW r \in poll'[p].unaware
               PROVE  ~poll'[p].sentAfter \/ (req'[r].at = "refused" /\ lease'[r] = p)
    BY Zenon DEF PollsKnown, RefusalKnown
  <1>1. /\ poll[p].at = "built" /\ r \in poll[p].unaware
        /\ poll'[p].sentAfter = poll[p].sentAfter
    BY Zenon DEF PollsKnow
  <1>2. r \in Requests
    BY Zenon, <1>1, UnawareRequests
  <1> QED
    BY Zenon, <1>1, <1>2 DEF PollsKnown, RefusalKnown, RefusalsStay

\* So does what a scan's copy does not know.
LEMMA ScanKnownStay ==
    ASSUME TypeOK, ReportsKnown, ScanKnown, RefusalsStay, ScanStays
    PROVE  ScanKnown'
  <1> SUFFICES ASSUME NEW p \in Peers, scan'.on, scan'.reps[p].lists, NEW r \in scan'.reps[p].unaware
               PROVE  ~scan'.reps[p].sentAfter \/ (req'[r].at = "refused" /\ lease'[r] = p)
    BY Zenon DEF ScanKnown, RefusalKnown
  <1>1. PICK rep : /\ SameBook(scan'.reps[p], rep)
                   /\ (scan.on /\ rep = scan.reps[p]) \/ rep = report[p]
    BY Zenon DEF ScanStays
  <1>2. rep.lists /\ r \in rep.unaware /\ scan'.reps[p].sentAfter = rep.sentAfter
    BY Zenon, <1>1 DEF SameBook
  <1>3. r \in Requests
    BY Zenon, <1>1, <1>2, UnawareRequests
  <1>4. ~rep.sentAfter \/ (req[r].at = "refused" /\ lease[r] = p)
    BY <1>1, <1>2 DEF ReportsKnown, ScanKnown, RefusalKnown
  <1> QED
    BY Zenon, <1>2, <1>3, <1>4 DEF RefusalsStay

\* A refusal is recorded: no report or poll of the peer from before is used.
LEMMA KnownRefused ==
    ASSUME SlotInv, KnownInv, NEW r \in Requests, Refused(r)
    PROVE  KnownInv'
  <1>0. /\ TypeOK /\ report \in [Peers -> ReportStates] /\ poll \in [Peers -> PollStates]
        /\ req \in [Requests -> Dispatches]
    BY Zenon, ScanKinds DEF SlotInv, TypeOK
  <1>1. PICK p \in Peers : p = lease[r]
    BY Zenon DEF SlotInv, LeaseMatches, MatchAt, Refused
  <1>2. /\ report[p].lists => report' = [report EXCEPT ![p].sentAfter = FALSE]
        /\ ~report[p].lists => report' = report
    BY Zenon, <1>1 DEF Refused
  <1>3. poll' = IF poll[p].at \in {"sent", "built"} THEN [poll EXCEPT ![p].sentAfter = FALSE] ELSE poll
    BY Zenon, <1>1 DEF Refused
  <1>4. /\ \A q \in Peers : q # p => report'[q] = report[q]
        /\ report'[p].lists = report[p].lists
        /\ report[p].lists => report'[p].sentAfter = FALSE
    BY ZenonT(40), <1>0, <1>2, RefusedReport
  <1>5. /\ \A q \in Peers : poll'[q].at = poll[q].at /\ (q # p => poll'[q] = poll[q])
        /\ poll[p].at \in {"sent", "built"} => poll'[p].sentAfter = FALSE
    BY <1>0, <1>3, RefusedPoll
  <1>6. lease' = lease /\ ~scan.on /\ scan' = scan /\ \A c \in Requests : c # r => req'[c] = req[c]
    BY Zenon, <1>0 DEF Refused, Goes
  <1>7. ScanKnown'
    BY Zenon, <1>6 DEF ScanKnown
  <1>8. ASSUME NEW q \in Peers, report'[q].lists, NEW c \in report'[q].unaware
        PROVE  ~report'[q].sentAfter \/ (req'[c].at = "refused" /\ lease'[c] = q)
    <2>1. CASE q = p
      BY Zenon, <1>4, <1>8, <2>1
    <2>2. CASE q # p
      <3>1. report'[q] = report[q]
        BY <1>4, <2>2
      <3>2. ~report[q].sentAfter \/ (req[c].at = "refused" /\ lease[c] = q)
        BY Zenon, <1>8, <3>1 DEF KnownInv, ReportsKnown, RefusalKnown
      <3>3. c \in Requests
        BY Zenon, <1>0, <1>8, <3>1, UnawareRequests
      <3> QED
        BY Zenon, <1>1, <1>6, <2>2, <3>1, <3>2, <3>3
    <2> QED
      BY Zenon, <2>1, <2>2
  <1>9. ASSUME NEW q \in Peers, poll'[q].at = "built", NEW c \in poll'[q].unaware
        PROVE  ~poll'[q].sentAfter \/ (req'[c].at = "refused" /\ lease'[c] = q)
    <2>1. CASE q = p
      BY SMTT(30), <1>5, <1>9, <2>1
    <2>2. CASE q # p
      <3>1. poll'[q] = poll[q]
        BY Zenon, <1>5, <2>2
      <3>2. ~poll[q].sentAfter \/ (req[c].at = "refused" /\ lease[c] = q)
        BY <1>9, <3>1 DEF KnownInv, PollsKnown, RefusalKnown
      <3>3. c \in Requests
        BY SMTT(30), <1>0, <1>9, <3>1, UnawareRequests
      <3> QED
        BY Zenon, <1>1, <1>6, <2>2, <3>1, <3>2, <3>3
    <2> QED
      BY Zenon, <2>1, <2>2
  <1>10. ReportsKnown' /\ PollsKnown'
    BY Zenon, <1>8, <1>9 DEF ReportsKnown, PollsKnown, RefusalKnown
  <1> QED
    BY Zenon, <1>7, <1>10 DEF KnownInv

\* A forward fails: the peer's report and the poll it has answered do not know.
LEMMA KnownFails ==
    ASSUME SlotInv, KnownInv, RefusalsStay, ScanStays, NEW r \in Requests, FailPeer(r)
    PROVE  KnownInv'
  <1>0. /\ TypeOK /\ LeaseMatches /\ report \in [Peers -> ReportStates] /\ poll \in [Peers -> PollStates]
    BY Zenon, ScanKinds DEF SlotInv
  <1>1. PICK p \in Peers : p = lease[r]
    BY Zenon DEF SlotInv, LeaseMatches, MatchAt, FailPeer
  <1>2. /\ report[p].lists => report' = [report EXCEPT ![p].unaware = @ \cup {r}]
        /\ ~report[p].lists => report' = report
    BY <1>1 DEF FailPeer
  <1>3. poll' = IF poll[p].at = "built" THEN [poll EXCEPT ![p].unaware = @ \cup {r}] ELSE poll
    BY Zenon, <1>1 DEF FailPeer
  <1>4. /\ \A q \in Peers : /\ report'[q].lists = report[q].lists /\ SameReport(report'[q], report[q])
                            /\ q # p => report'[q] = report[q]
        /\ report[p].lists => report'[p].unaware = report[p].unaware \cup {r}
    BY <1>0, <1>2, FailPeerReport
  <1>5. /\ \A q \in Peers : poll'[q].at = poll[q].at /\ (q # p => poll'[q] = poll[q])
        /\ poll[p].at = "built" => /\ poll'[p].unaware = poll[p].unaware \cup {r}
                                   /\ poll'[p].sentAfter = poll[p].sentAfter
    BY <1>0, <1>3, FailPeerPoll
  <1>6. req'[r].at = "refused" /\ lease'[r] = p
    <2>1. Moved(r, "refused") /\ lease' = lease
      BY ZenonT(40), <1>0, FailPeerMoves DEF FailPeer
    <2> QED
      BY Zenon, <1>1, <2>1 DEF Moved
  <1>7. ScanKnown'
    BY Zenon, <1>0, ScanKnownStay DEF KnownInv
  <1>8. ASSUME NEW q \in Peers, report'[q].lists, NEW c \in report'[q].unaware
        PROVE  ~report'[q].sentAfter \/ (req'[c].at = "refused" /\ lease'[c] = q)
    <2>1. report[q].lists /\ report'[q].sentAfter = report[q].sentAfter
      BY Zenon, <1>4, <1>8 DEF SameReport
    <2>2. c \in report[q].unaware \/ (c = r /\ q = p)
      BY <1>4, <1>8, <2>1
    <2>3. CASE c \in report[q].unaware
      <3>1. c \in Requests /\ (~report[q].sentAfter \/ (req[c].at = "refused" /\ lease[c] = q))
        BY Zenon, <1>0, <2>1, <2>3, UnawareRequests DEF KnownInv, ReportsKnown, RefusalKnown
      <3> QED
        BY SMTT(30), <2>1, <3>1 DEF RefusalsStay
    <2> QED
      BY Zenon, <1>6, <2>2, <2>3
  <1>9. ASSUME NEW q \in Peers, poll'[q].at = "built", NEW c \in poll'[q].unaware
        PROVE  ~poll'[q].sentAfter \/ (req'[c].at = "refused" /\ lease'[c] = q)
    <2>1. poll[q].at = "built" /\ poll'[q].sentAfter = poll[q].sentAfter
      BY Zenon, <1>5, <1>9
    <2>2. c \in poll[q].unaware \/ (c = r /\ q = p)
      BY Zenon, <1>5, <1>9, <2>1
    <2>3. CASE c \in poll[q].unaware
      <3>1. c \in Requests /\ (~poll[q].sentAfter \/ (req[c].at = "refused" /\ lease[c] = q))
        BY <1>0, <2>1, <2>3, UnawareRequests DEF KnownInv, PollsKnown, RefusalKnown
      <3> QED
        BY <2>1, <3>1 DEF RefusalsStay
    <2> QED
      BY Zenon, <1>6, <2>2, <2>3
  <1>10. ReportsKnown' /\ PollsKnown'
    BY Zenon, <1>8, <1>9 DEF ReportsKnown, PollsKnown, RefusalKnown
  <1> QED
    BY Zenon, <1>7, <1>10 DEF KnownInv

\* The steps that leave what is known of refusals as it is.
LEMMA BooksKnowBy ==
    ASSUME SlotInv, Next, ~\E r \in Requests : FailPeer(r) \/ Refused(r),
           ~\E p \in Peers : BuildReport(p) \/ AcceptReport(p)
    PROVE  ReportsKnow /\ PollsKnow
  <1>0. TypeOK /\ report \in [Peers -> ReportStates] /\ poll \in [Peers -> PollStates]
    BY Zenon, ScanKinds DEF SlotInv
  <1>1. CASE BooksKept
    BY Zenon, <1>1, BooksKeptSame DEF ReportsKnow, PollsKnow
  <1>2. ASSUME NEW r \in Requests, Release(r) PROVE ReportsKnow /\ PollsKnow
    <2>1. report' = Without(report, r) /\ poll' = Without(poll, r)
      BY Zenon, <1>2 DEF Release
    <2>2. ReportsKnow
      <3>1. \A q \in Peers :
              /\ Without(report, r)[q].lists = report[q].lists
              /\ report[q].lists => /\ Without(report, r)[q].unaware = report[q].unaware
                                    /\ Without(report, r)[q].sentAfter = report[q].sentAfter
        BY <1>0, WithoutReport
      <3> QED
        BY Zenon, <2>1, <3>1 DEF ReportsKnow
    <2>3. PollsKnow
      BY <1>0, <2>1, WithoutPoll DEF PollsKnow
    <2> QED
      BY SMTT(30), <2>2, <2>3
  <1>3. ASSUME NEW p \in Peers, SendPoll(p) PROVE ReportsKnow /\ PollsKnow
    <2>1. report' = report
      BY Zenon, <1>3 DEF SendPoll, routerVars
    <2>2. (\A q \in Peers : q # p => poll'[q] = poll[q]) /\ poll'[p].at = "sent"
      BY Zenon, <1>0, <1>3, SendPollPoll
    <2> QED
      BY Zenon, <2>1, <2>2 DEF ReportsKnow, PollsKnow
  <1>4. ASSUME NEW p \in Peers, WakeReport(p) \/ FailPoll(p) PROVE ReportsKnow /\ PollsKnow
    <2>1. report' = report /\ poll' = [poll EXCEPT ![p] = NoPoll]
      BY Zenon, <1>4 DEF WakeReport, FailPoll, routerVars
    <2>2. poll'[p].at \in {"idle", "wake"} /\ \A q \in Peers : q # p => poll'[q] = poll[q]
      BY ZenonT(40), <1>0, <2>1, PollEnds
    <2> QED
      BY Zenon, <2>1, <2>2 DEF ReportsKnow, PollsKnow
  <1>5. ASSUME NEW p \in Peers, AgeReport(p) PROVE ReportsKnow /\ PollsKnow
    <2>1. report' = [report EXCEPT ![p].fresh = FALSE] /\ report[p].lists /\ poll' = poll
      BY Zenon, <1>5 DEF AgeReport
    <2>2. /\ \A q \in Peers : q # p => report'[q] = report[q]
          /\ report'[p].unaware = report[p].unaware /\ report'[p].sentAfter = report[p].sentAfter
      BY <1>0, <2>1, AgedReport
    <2> QED
      BY Zenon, <2>1, <2>2 DEF ReportsKnow, PollsKnow
  <1>6. ASSUME NEW p \in Peers, Forget(p) PROVE ReportsKnow /\ PollsKnow
    <2>1. report' = [report EXCEPT ![p] = NoReport] /\ poll' = poll
      BY Zenon, <1>6 DEF Forget
    <2>2. (\A q \in Peers : q # p => report'[q] = report[q]) /\ report'[p].lists = FALSE
      BY Zenon, <1>0, <2>1 DEF NoReport
    <2> QED
      BY Zenon, <2>1, <2>2 DEF ReportsKnow, PollsKnow
  <1> QED
    BY SMTT(30), <1>1, <1>2, <1>3, <1>4, <1>5, <1>6 DEF Next, BooksKept

\* A report is built, and accepted with what it does not know.
LEMMA KnownBuilds ==
    ASSUME SlotInv, KnownInv, RefusalsStay, ScanStays, NEW p \in Peers, BuildReport(p) \/ AcceptReport(p)
    PROVE  KnownInv'
  <1>0. Counting /\ TypeOK /\ report \in [Peers -> ReportStates] /\ poll \in [Peers -> PollStates]
    BY Zenon, ScanKinds DEF SlotInv
  <1>1. ScanKnown'
    BY Zenon, <1>0, ScanKnownStay DEF KnownInv
  <1>2. CASE BuildReport(p)
    <2>1. /\ \A q \in Peers : q # p => poll'[q] = poll[q]
          /\ poll'[p].unaware = {}
      BY <1>0, <1>2, BuildReportPoll
    <2>2. ReportsKnown'
      <3>1. report' = report
        BY Zenon, <1>2 DEF BuildReport, routerVars
      <3> QED
        BY Zenon, <1>0, <3>1, ReportsKnownStay DEF KnownInv, ReportsKnow
    <2>3. ASSUME NEW q \in Peers, poll'[q].at = "built", NEW c \in poll'[q].unaware
          PROVE  ~poll'[q].sentAfter \/ (req'[c].at = "refused" /\ lease'[c] = q)
      <3>1. q # p /\ poll'[q] = poll[q]
        BY SMTT(30), <2>1, <2>3
      <3>2. c \in Requests /\ (~poll[q].sentAfter \/ (req[c].at = "refused" /\ lease[c] = q))
        BY Zenon, <1>0, <2>3, <3>1, UnawareRequests DEF KnownInv, PollsKnown, RefusalKnown
      <3> QED
        BY Zenon, <3>1, <3>2 DEF RefusalsStay
    <2>4. PollsKnown'
      BY <2>3 DEF PollsKnown, RefusalKnown
    <2> QED
      BY Zenon, <1>1, <2>2, <2>4 DEF KnownInv
  <1>3. CASE AcceptReport(p) /\ p \in wanted
    <2>1. /\ \A q \in Peers : q # p => report'[q] = report[q]
          /\ report'[p].unaware = poll[p].unaware /\ report'[p].sentAfter = poll[p].sentAfter
          /\ poll' = [poll EXCEPT ![p] = [at |-> "wake"]] /\ poll[p].at = "built"
      BY ZenonT(40), <1>0, <1>3, AcceptReportReport DEF AcceptReport
    <2>2. poll'[p].at \in {"idle", "wake"} /\ \A q \in Peers : q # p => poll'[q] = poll[q]
      BY ZenonT(40), <1>0, <2>1, PollEnds
    <2>3. PollsKnown'
      BY Zenon, <1>0, <2>2, PollsKnownStay DEF KnownInv, PollsKnow
    <2>4. ASSUME NEW q \in Peers, report'[q].lists, NEW c \in report'[q].unaware
          PROVE  ~report'[q].sentAfter \/ (req'[c].at = "refused" /\ lease'[c] = q)
      <3>r. PICK rep : rep = IF q = p THEN poll[p] ELSE report[q]
        OBVIOUS
      <3>1. /\ (rep = poll[p] /\ q = p) \/ (rep = report[q] /\ q # p)
            /\ report'[q].unaware = rep.unaware /\ report'[q].sentAfter = rep.sentAfter
        BY Zenon, <2>1, <3>r
      <3>2. c \in Requests /\ (~rep.sentAfter \/ (req[c].at = "refused" /\ lease[c] = q))
        <4>1. CASE rep = poll[p] /\ q = p
          BY SMTT(30), <1>0, <2>1, <2>4, <3>1, <4>1, UnawareRequests DEF KnownInv, PollsKnown, RefusalKnown
        <4>2. CASE rep = report[q] /\ q # p
          <5>1. report[q].lists
            BY ZenonT(40), <2>1, <2>4, <4>2
          <5> QED
            BY ZenonT(40), <1>0, <2>4, <3>1, <4>2, <5>1, UnawareRequests DEF KnownInv, ReportsKnown, RefusalKnown
        <4> QED
          BY Zenon, <3>1, <4>1, <4>2
      <3> QED
        BY Zenon, <3>1, <3>2 DEF RefusalsStay
    <2>5. ReportsKnown'
      BY Zenon, <2>4 DEF ReportsKnown, RefusalKnown
    <2> QED
      BY Zenon, <1>1, <2>3, <2>5 DEF KnownInv
  <1>4. CASE AcceptReport(p) /\ p \notin wanted
    <2>1. report' = report /\ poll' = [poll EXCEPT ![p] = NoPoll]
      BY <1>4 DEF AcceptReport
    <2>2. poll'[p].at \in {"idle", "wake"} /\ \A q \in Peers : q # p => poll'[q] = poll[q]
      BY ZenonT(40), <1>0, <2>1, PollEnds
    <2>3. PollsKnown' /\ ReportsKnown'
      BY SMTT(30), <1>0, <2>1, <2>2, PollsKnownStay, ReportsKnownStay DEF KnownInv, PollsKnow, ReportsKnow
    <2> QED
      BY SMTT(30), <1>1, <2>3 DEF KnownInv
  <1> QED
    BY Zenon, <1>2, <1>3, <1>4

\* Every step.
LEMMA KnownStep ==
    ASSUME SlotInv, ScanInOrder, KnownInv, Next
    PROVE  KnownInv'
  <1>0. TypeOK /\ ScanStays
    BY Zenon, ScanStaysBy DEF SlotInv
  <1>1. CASE \E r \in Requests : Refused(r)
    BY Zenon, <1>1, KnownRefused
  <1>2. CASE ~\E r \in Requests : Refused(r)
    <2>1. RefusalsStay
      BY Zenon, <1>2, RefusalsStayBy
    <2>2. CASE \E r \in Requests : FailPeer(r)
      BY Zenon, <1>0, <2>1, <2>2, KnownFails
    <2>3. CASE \E p \in Peers : BuildReport(p) \/ AcceptReport(p)
      BY <1>0, <2>1, <2>3, KnownBuilds
    <2>4. CASE /\ ~\E r \in Requests : FailPeer(r)
               /\ ~\E p \in Peers : BuildReport(p) \/ AcceptReport(p)
      <3>1. ReportsKnow /\ PollsKnow
        BY SMTT(30), <1>2, <2>4, BooksKnowBy
      <3> QED
        BY Zenon, <1>0, <2>1, <3>1, ReportsKnownStay, PollsKnownStay, ScanKnownStay DEF KnownInv
    <2> QED
      BY <2>2, <2>3, <2>4
  <1> QED
    BY Zenon, <1>1, <1>2

-----------------------------------------------------------------------------
(* Nobody is sent back or passed over.                                     *)

\* Who is given a slot was not refused on it since the report was built.
LEMMA SentBackStep ==
    ASSUME SlotInv, ScanInOrder, KnownInv, Next, NEW r \in Requests, NEW p \in Peers,
           lease[r] # p, lease'[r] = p
    PROVE  r \notin (IF scan.on THEN scan.reps[p] ELSE report[p]).unaware
  <1>0. TypeOK /\ lease \in [Requests -> Targets \cup {"none"}]
    BY Zenon DEF SlotInv, TypeOK
  <1>1. ~Frees
    <2>1. p # "none"
      BY Zenon, RouterAssumption
    <2> QED
      BY <2>1 DEF Frees
  <1>2. PICK c, t, ex, reps : Takes(c, t, ex, reps)
    BY Zenon, <1>1, LeaseMoves
  <1>3. /\ c \in Requests /\ t \in Targets /\ t \in Pick(c, ex, reps) /\ Take(c, t)
        /\ req[c].at # "refused" /\ reps = IF scan.on THEN scan.reps ELSE report
    BY <1>2 DEF Takes
  <1>4. c = r /\ t = p
    BY SMTT(30), <1>0, <1>3 DEF Take
  <1>5. p \in PeerCandidates(r, ex, reps)
    <2>1. p \notin Backends
      BY RouterAssumption
    <2> QED
      BY ZenonT(40), <1>0, <1>3, <1>4, <2>1, PickTarget DEF LocalCandidates, TypeOK
  <1>6. reps[p].lists /\ reps[p].sentAfter
    BY Zenon, <1>5 DEF PeerCandidates, Serves
  <1>7. RefusalKnown(p, reps[p])
    BY ZenonT(40), <1>3, <1>6 DEF KnownInv, ReportsKnown, ScanKnown
  <1>8. r \notin reps[p].unaware
    BY SMTT(30), <1>3, <1>4, <1>6, <1>7 DEF RefusalKnown
  <1> QED
    BY SMTT(30), <1>3, <1>8

\* A waiter is given a slot only by a scan that has come to it.
LEMMA ServedByScan ==
    ASSUME SlotInv, ScanInOrder, Next, NEW l \in Requests, req[l].at = "queued",
           lease[l] = "none", lease'[l] # "none"
    PROVE  ScanWaiter /\ scan.on /\ scan.todo # <<>> /\ l = Head(scan.todo) /\ ~Skipped(l)
  <1>0. TypeOK /\ lease \in [Requests -> Targets \cup {"none"}]
    BY DEF SlotInv, TypeOK
  <1>1. ASSUME NEW r \in Requests, Acquire(r) \/ Retry(r) PROVE FALSE
    <2>1. r # l
      BY Zenon, <1>1 DEF Acquire, Retry
    <2>2. UNCHANGED lease \/ \E t : Take(r, t)
      BY ZenonT(40), <1>1 DEF Acquire, Retry
    <2> QED
      BY <1>0, <2>1, <2>2 DEF Take
  <1>2. ASSUME NEW r \in Requests, EndLocal(r) \/ Release(r) PROVE FALSE
    <2>1. lease' = [lease EXCEPT ![r] = "none"]
      BY ZenonT(40), <1>2 DEF EndLocal, Release
    <2> QED
      BY Zenon, <1>0, <2>1
  <1>3. ASSUME \/ \E r \in Requests : \/ Receive(r) \/ Timeout(r) \/ Cancel(r) \/ Arrive(r) \/ EndPeer(r)
                                      \/ FailPeer(r) \/ Refused(r) \/ Wake(r)
               \/ ScanEnd \/ Tick \/ ChangeLocal
               \/ \E p \in Peers : \/ SendPoll(p) \/ BuildReport(p) \/ AcceptReport(p) \/ WakeReport(p)
                                   \/ FailPoll(p) \/ AgeReport(p) \/ Forget(p) \/ Join(p)
        PROVE  FALSE
    <2>1. lease' = lease
      BY ZenonT(40), <1>3 DEF Receive, Timeout, Cancel, Arrive, EndPeer, FailPeer, Refused, Wake, ScanEnd, Tick,
                  ChangeLocal, SendPoll, BuildReport, AcceptReport, WakeReport, FailPoll, AgeReport,
                  Forget, Join, routerVars
    <2> QED
      BY SMTT(30), <2>1
  <1>4. ScanWaiter
    BY ZenonT(40), <1>1, <1>2, <1>3 DEF Next
  <1>5. scan.on /\ scan.todo # <<>>
    BY SMTT(30), <1>4 DEF ScanWaiter
  <1>6. ~Skipped(Head(scan.todo)) /\ \E t : Take(Head(scan.todo), t)
    BY ZenonT(40), <1>0, <1>4, ScanWaiterMoves
  <1>7. l = Head(scan.todo)
    BY ZenonT(40), <1>0, <1>6 DEF Take
  <1> QED
    BY Zenon, <1>4, <1>5, <1>6, <1>7

\* No earlier waiter that could use the slot is passed over.
LEMMA FifoStep ==
    ASSUME SlotInv, ScanInOrder, Next, NEW i \in 1..Len(queue), NEW j \in 1..Len(queue), i < j,
           Host[queue[i]] = "any", Host[queue[j]] = "any",
           queue[i] \in Images => queue[j] \in Images,
           lease[queue[j]] = "none", lease'[queue[j]] # "none"
    PROVE  FALSE
  <1>0. TypeOK /\ queue \in Seq(Requests) /\ IsInjective(queue)
    BY Zenon DEF SlotInv, TypeOK
  <1>1. queue[j] \in Requests /\ req[queue[j]].at = "queued"
    BY <1>0 DEF SlotInv, WaitersQueued
  <1>2. /\ ScanWaiter /\ scan.on /\ scan.todo # <<>> /\ queue[j] = Head(scan.todo)
        /\ ~Skipped(queue[j])
    BY Zenon, <1>1, ServedByScan
  <1>3. /\ Passed \in Nat /\ Passed + 1 \in 1..Len(queue) /\ queue[j] = queue[Passed + 1]
        /\ Len(queue) \in Nat
    BY Zenon, <1>0, <1>2, ScanAt
  <1>4. j = Passed + 1
    BY <1>0, <1>3 DEF IsInjective
  <1>5. i \in 1..Passed
    BY <1>3, <1>4
  <1>6. scan.unpinnedFull \/ (queue[i] \in Images /\ scan.imagesFull)
    BY Zenon, <1>2, <1>5 DEF ScanInOrder
  <1> QED
    BY SMTT(30), <1>2, <1>6 DEF Skipped

-----------------------------------------------------------------------------
(* Wake-ups: who has no slot gets one only by a step that announces it.    *)

\* The forwards a report does not count are finitely many.
LEMMA ReservedFinite ==
    ASSUME Counting, NEW reps, NEW p
    PROVE  Cardinality(ReservedLocked(reps, p)) \in Nat
  <1>1. ReservedLocked(reps, p) \in SUBSET Requests
    BY Zenon DEF ReservedLocked
  <1> QED
    BY Zenon, <1>1 DEF Counting

\* Reports a pick cannot tell apart give the same candidates.
LEMMA BlockedSame ==
    ASSUME NEW r, NEW reps, NEW old, \A p \in Peers : SameReport(reps[p], old[p]), Blocked(r, old)
    PROVE  Blocked(r, reps)
  <1>1. \A p \in Peers : Serves(reps, p) <=> Serves(old, p)
    BY Zenon DEF Serves, SameReport
  <1>2. \A p \in Peers : Serves(reps, p) => /\ reps[p].images = old[p].images
                                            /\ reps[p].sentAfter = old[p].sentAfter
                                            /\ reps[p].before = old[p].before
                                            /\ reps[p].busy = old[p].busy
    BY Zenon DEF Serves, SameReport
  <1>3. ImageAnswers(r, reps) = ImageAnswers(r, old)
    <2>1. {q \in Peers : Serves(reps, q) /\ PinAllows(r, q)} = {q \in Peers : Serves(old, q) /\ PinAllows(r, q)}
      BY <1>1
    <2>2. \A q \in {q \in Peers : Serves(reps, q) /\ PinAllows(r, q)} : reps[q].images = old[q].images
      BY Zenon, <1>2
    <2>3. {reps[p].images : p \in {q \in Peers : Serves(reps, q) /\ PinAllows(r, q)}}
          = {old[p].images : p \in {q \in Peers : Serves(old, q) /\ PinAllows(r, q)}}
      BY Zenon, <2>1, <2>2
    <2> QED
      BY ZenonT(40), <2>3 DEF ImageAnswers
  <1>4. ImageClass(r, reps) = ImageClass(r, old)
    BY <1>3 DEF ImageClass
  <1>5. LocalCandidates(r, {}, reps) = LocalCandidates(r, {}, old)
    BY Zenon, <1>4 DEF LocalCandidates
  <1>6. ASSUME NEW p \in Peers, Serves(reps, p) PROVE PeerFree(reps, p) = PeerFree(old, p)
    BY ZenonT(40), <1>2, <1>6 DEF PeerFree, ReservedLocked
  <1>7. PeerCandidates(r, {}, reps) \subseteq PeerCandidates(r, {}, old)
    BY <1>1, <1>2, <1>4, <1>6 DEF PeerCandidates
  <1> QED
    BY Zenon, <1>5, <1>7 DEF Blocked

\* A report gives a pick no more than it did.
NoMore(rep, old) ==
    /\ rep.lists = old.lists
    /\ rep.lists => /\ rep.fresh = old.fresh /\ (rep.sentAfter => old.sentAfter)
                    /\ rep.before = old.before /\ rep.busy = old.busy
                    /\ rep.images = old.images /\ rep.up = old.up

\* A step that frees nothing.
NothingFreed ==
    /\ UNCHANGED <<localOK, admitting, healthy>>
    /\ HoldersStay
    /\ \A b \in Backends : inFlight'[b] >= inFlight[b]
    /\ \A p \in Peers : NoMore(report'[p], report[p])

\* Who has no slot gets none by such a step.
LEMMA BlockedStays ==
    ASSUME Counting, TypeOK, TypeOK', NothingFreed, NEW r, Blocked(r, report)
    PROVE  Blocked(r, report)'
  <1>0. UNCHANGED <<localOK, admitting, healthy>> /\ healthy \subseteq Backends
    BY Zenon DEF NothingFreed, TypeOK
  <1>1. \A p \in Peers : Serves(report, p)' <=> Serves(report, p)
    BY ZenonT(40) DEF NothingFreed, NoMore, Serves
  <1>2. \A p \in Peers : Serves(report, p)' => /\ report'[p].images = report[p].images
                                               /\ report'[p].sentAfter => report[p].sentAfter
                                               /\ report'[p].before = report[p].before
                                               /\ report'[p].busy = report[p].busy
    BY Zenon DEF NothingFreed, NoMore, Serves
  <1>3. ImageAnswers(r, report)' = ImageAnswers(r, report)
    <2>1. {q \in Peers : Serves(report, q)' /\ PinAllows(r, q)}
          = {q \in Peers : Serves(report, q) /\ PinAllows(r, q)}
      BY SMTT(30), <1>1
    <2>2. \A q \in {q \in Peers : Serves(report, q)' /\ PinAllows(r, q)} : report'[q].images = report[q].images
      BY Zenon, <1>2
    <2>3. {report'[p].images : p \in {q \in Peers : Serves(report, q)' /\ PinAllows(r, q)}}
          = {report[p].images : p \in {q \in Peers : Serves(report, q) /\ PinAllows(r, q)}}
      BY Zenon, <2>1, <2>2
    <2> QED
      BY Zenon, <1>0, <2>3 DEF ImageAnswers, PinAllows
  <1>4. ImageClass(r, report)' = ImageClass(r, report)
    BY <1>3 DEF ImageClass
  <1>5. LocalCandidates(r, {}, report)' \subseteq LocalCandidates(r, {}, report)
    <2>1. \A b \in healthy : LocalFree(b)' > 0 => LocalFree(b) > 0
      <3> SUFFICES ASSUME NEW b \in healthy, Slots[b] - inFlight'[b] > 0
                   PROVE  Slots[b] - inFlight[b] > 0
        BY Zenon DEF LocalFree
      <3>1. /\ b \in Backends /\ inFlight[b] \in Nat /\ inFlight'[b] \in Nat /\ Slots[b] \in Nat
            /\ inFlight'[b] >= inFlight[b]
        BY Zenon, <1>0, RouterAssumption DEF TypeOK, NothingFreed
      <3> QED
        BY <3>1
    <2> QED
      BY Zenon, <1>0, <1>4, <2>1 DEF LocalCandidates
  <1>6. ASSUME NEW p \in Peers, Serves(report, p)', PeerFree(report, p)' > 0
        PROVE  PeerFree(report, p) > 0
    <2>1. ReservedLocked(report, p) \subseteq ReservedLocked(report, p)'
      BY ZenonT(40), <1>2, <1>6 DEF ReservedLocked, NothingFreed, HoldersStay, Held
    <2>2. PICK X, Y : X = ReservedLocked(report, p) /\ Y = ReservedLocked(report, p)'
      BY Zenon
    <2>3. Y \in SUBSET Requests /\ X \in SUBSET Y
      BY Zenon, <2>1, <2>2 DEF ReservedLocked
    <2>4. Cardinality(X) <= Cardinality(Y) /\ Cardinality(X) \in Nat /\ Cardinality(Y) \in Nat
      BY Zenon, <2>3 DEF Counting
    <2>5. report[p].busy \in Nat /\ Slots[p] \in Nat
      <3>1. report[p].lists /\ report[p] \in ReportStates
        BY Zenon, <1>1, <1>6, ScanKinds DEF Serves
      <3> QED
        BY ZenonT(40), <3>1, ReportKinds, RouterAssumption DEF Reports
    <2>6. Slots[p] - report[p].busy - Cardinality(Y) > 0
      BY Zenon, <1>2, <1>6, <2>2 DEF PeerFree
    <2> QED
      BY SMTT(30), <2>2, <2>4, <2>5, <2>6 DEF PeerFree
  <1>7. PeerCandidates(r, {}, report)' \subseteq PeerCandidates(r, {}, report)
    BY <1>1, <1>2, <1>4, <1>6 DEF PeerCandidates
  <1> QED
    BY Zenon, <1>5, <1>7 DEF Blocked

\* An unpinned waiter without an image that has no slot: nor has any other
\* unpinned request.
LEMMA BlockedCovers ==
    ASSUME NEW w, w \notin Forwarded, w \notin Images, Host[w] = "any", NEW reps, Blocked(w, reps),
           NEW r, Host[r] = "any"
    PROVE  Blocked(r, reps)
  <1>1. ImageClass(w, reps) = "any"
    BY Zenon DEF ImageClass
  <1>2. LocalCandidates(r, {}, reps) \subseteq LocalCandidates(w, {}, reps)
    BY <1>1 DEF LocalCandidates, PinAllows, ClassAllows
  <1>3. PeerCandidates(r, {}, reps) \subseteq PeerCandidates(w, {}, reps)
    BY Zenon, <1>1 DEF PeerCandidates, PinAllows, ClassAllows
  <1> QED
    BY Zenon, <1>2, <1>3 DEF Blocked

\* The same of two unpinned requests with an image.
LEMMA BlockedCoversImages ==
    ASSUME NEW w \in Images \ Forwarded, Host[w] = "any", NEW reps, Blocked(w, reps),
           NEW r \in Images \ Forwarded, Host[r] = "any"
    PROVE  Blocked(r, reps)
  <1>1. ImageAnswers(r, reps) = ImageAnswers(w, reps)
    BY Zenon DEF ImageAnswers, PinAllows
  <1>2. ImageClass(r, reps) = ImageClass(w, reps)
    BY Zenon, <1>1 DEF ImageClass
  <1>3. LocalCandidates(r, {}, reps) \subseteq LocalCandidates(w, {}, reps)
    BY Zenon, <1>2 DEF LocalCandidates, PinAllows
  <1>4. PeerCandidates(r, {}, reps) \subseteq PeerCandidates(w, {}, reps)
    BY <1>2 DEF PeerCandidates, PinAllows
  <1> QED
    BY Zenon, <1>3, <1>4 DEF Blocked

\* The steps that begin a scan.
Begins == Tick \/ (\E r \in Requests : Wake(r)) \/ (\E p \in Peers : WakeReport(p))

\* The steps that free something announce it, or are silent.
Stirs ==
    \/ \E r \in Requests : EndLocal(r) \/ Release(r)
    \/ \E p \in Peers : \/ AcceptReport(p) /\ p \in wanted
                        \/ AgeReport(p) \/ Forget(p)
    \/ ChangeLocal

\* They do: a wake is on its way, or the change is noted as silent.
LEMMA StirsBy ==
    ASSUME SlotInv, Stirs
    PROVE  Stirred'
  <1>0. TypeOK /\ LeaseMatches /\ poll \in [Peers -> PollStates]
    BY Zenon, ScanKinds DEF SlotInv
  <1>1. ASSUME NEW r \in Requests, EndLocal(r) \/ Release(r) PROVE Stirred'
    <2>1. Moved(r, "wake")
      BY <1>0, <1>1, EndLocalMoves, GoesMoves DEF Release
    <2> QED
      BY SMTT(30), <2>1 DEF Moved, Stirred
  <1>2. ASSUME NEW p \in Peers, AcceptReport(p), p \in wanted PROVE Stirred'
    <2>1. poll' = [poll EXCEPT ![p] = [at |-> "wake"]]
      BY <1>0, <1>2, AcceptReportReport
    <2>2. poll'[p].at = "wake"
      BY Zenon, <1>0, <2>1
    <2> QED
      BY Zenon, <2>2 DEF Stirred
  <1>3. ASSUME ChangeLocal \/ \E p \in Peers : AgeReport(p) \/ Forget(p) PROVE Stirred'
    <2>1. silent' = TRUE
      BY <1>3 DEF ChangeLocal, AgeReport, Forget
    <2> QED
      BY Zenon, <2>1 DEF Stirred
  <1> QED
    BY Zenon, <1>1, <1>2, <1>3 DEF Stirs

\* Only a wake or a tick settles what was stirred.
LEMMA StirredStays ==
    ASSUME SlotInv, Next, ~Begins, Stirred
    PROVE  Stirred'
  <1>0. /\ TypeOK /\ LeaseMatches /\ poll \in [Peers -> PollStates]
        /\ req \in [Requests -> Dispatches] /\ report \in [Peers -> ReportStates]
    BY Zenon, ScanKinds DEF SlotInv, TypeOK
  <1>1. CASE silent
    <2>1. silent' = silent \/ silent' = TRUE
      BY ZenonT(40) DEF Next, Begins, Acquire, Receive, Timeout, Cancel, EndLocal, Arrive, EndPeer, FailPeer,
             Refused, Release, Retry, ScanWaiter, ScanEnd, ChangeLocal, SendPoll, BuildReport,
             AcceptReport, FailPoll, AgeReport, Forget, Join
    <2> QED
      BY ZenonT(40), <1>1, <2>1 DEF Stirred
  <1>2. CASE \E r \in Requests : req[r].at = "wake"
    <2>1. PICK c \in Requests : req[c].at = "wake"
      BY Zenon, <1>2
    <2>2. ASSUME NEW r \in Requests, req[r].at # "wake", \A d \in Requests : d # r => req'[d] = req[d]
          PROVE  req'[c].at = "wake"
      BY Zenon, <2>1, <2>2
    <2>3. ASSUME NEW r \in Requests, Acquire(r) \/ Retry(r) PROVE req'[c].at = "wake"
      <3>1. req[r].at # "wake" /\ \E a : Moved(r, a)
        BY Zenon, <1>0, <2>3, AcquireMoves, RetryMoves DEF Acquire, Retry
      <3> QED
        BY <2>2, <3>1 DEF Moved
    <2>4. ASSUME NEW r \in Requests, \/ Receive(r) \/ Timeout(r) \/ Cancel(r) \/ EndLocal(r)
                                     \/ Arrive(r) \/ EndPeer(r) \/ FailPeer(r) \/ Refused(r) \/ Release(r)
          PROVE  req'[c].at = "wake"
      <3>1. req[r].at # "wake"
        BY ZenonT(40), <2>4 DEF Receive, Timeout, Cancel, EndLocal, Arrive, EndPeer, FailPeer, Refused, Release
      <3>2. \A d \in Requests : d # r => req'[d] = req[d]
        BY ZenonT(40), <1>0, <2>4 DEF Receive, Timeout, Cancel, EndLocal, Arrive, EndPeer, FailPeer, Refused,
                          Release, Goes
      <3> QED
        BY SMTT(30), <2>2, <3>1, <3>2
    <2>5. ASSUME \/ ScanWaiter \/ ScanEnd \/ ChangeLocal
                 \/ \E p \in Peers : \/ SendPoll(p) \/ BuildReport(p) \/ AcceptReport(p)
                                     \/ FailPoll(p) \/ AgeReport(p) \/ Forget(p) \/ Join(p)
          PROVE  req'[c].at = "wake"
      <3>1. req' = req
        BY Zenon, <2>5 DEF ScanWaiter, ScanEnd, ChangeLocal, SendPoll, BuildReport, AcceptReport, FailPoll,
                    AgeReport, Forget, Join
      <3> QED
        BY SMTT(30), <2>1, <3>1
    <2>6. req'[c].at = "wake"
      BY ZenonT(40), <2>3, <2>4, <2>5 DEF Next, Begins
    <2> QED
      BY <2>6 DEF Stirred
  <1>3. CASE \E p \in Peers : poll[p].at = "wake"
    <2>1. PICK q \in Peers : poll[q].at = "wake"
      BY Zenon, <1>3
    <2>2. ASSUME BooksKept PROVE poll'[q].at = "wake"
      BY Zenon, <2>1, <2>2, BooksKeptSame
    <2>3. ASSUME NEW r \in Requests, FailPeer(r) \/ Refused(r) PROVE poll'[q].at = "wake"
      <3>1. PICK p \in Peers : p = lease[r]
        BY <2>3 DEF SlotInv, LeaseMatches, MatchAt, FailPeer, Refused
      <3>2. CASE FailPeer(r)
        <4>1. poll' = IF poll[p].at = "built" THEN [poll EXCEPT ![p].unaware = @ \cup {r}] ELSE poll
          BY Zenon, <3>1, <3>2 DEF FailPeer
        <4> QED
          BY <1>0, <2>1, <4>1, FailPeerPoll
      <3>3. CASE Refused(r)
        <4>1. poll' = IF poll[p].at \in {"sent", "built"} THEN [poll EXCEPT ![p].sentAfter = FALSE] ELSE poll
          BY Zenon, <3>1, <3>3 DEF Refused
        <4> QED
          BY <1>0, <2>1, <4>1, RefusedPoll
      <3> QED
        BY Zenon, <2>3, <3>2, <3>3
    <2>4. ASSUME NEW r \in Requests, Release(r) PROVE poll'[q].at = "wake"
      <3>1. poll' = Without(poll, r)
        BY ZenonT(40), <2>4 DEF Release
      <3> QED
        BY SMTT(30), <1>0, <2>1, <3>1, WithoutPoll
    <2>5. ASSUME NEW p \in Peers, \/ SendPoll(p) \/ BuildReport(p) \/ AcceptReport(p)
                                  \/ FailPoll(p) \/ AgeReport(p) \/ Forget(p)
          PROVE  poll'[q].at = "wake"
      <3>1. poll' = poll \/ (poll[p].at # "wake" /\ \E s : poll' = [poll EXCEPT ![p] = s])
        BY Zenon, <2>5 DEF SendPoll, BuildReport, AcceptReport, FailPoll, AgeReport, Forget
      <3> QED
        BY Zenon, <1>0, <2>1, <3>1
    <2>6. poll'[q].at = "wake"
      BY ZenonT(40), <2>2, <2>3, <2>4, <2>5 DEF Next, BooksKept, Begins
    <2> QED
      BY <2>6 DEF Stirred
  <1> QED
    BY SMTT(30), <1>1, <1>2, <1>3 DEF Stirred

\* The rest frees nothing; reports change only by a refusal.
LEMMA NothingFreedBy ==
    ASSUME SlotInv, ScanInOrder, Next, ~Begins, ~Stirs
    PROVE  /\ NothingFreed
           /\ scan.on => \A p \in Peers : SameReport(report'[p], report[p])
  <1>0. /\ TypeOK /\ LeaseMatches /\ report \in [Peers -> ReportStates]
        /\ inFlight \in [Backends -> Nat] /\ lease \in [Requests -> Targets \cup {"none"}]
    <2>1. TypeOK /\ LeaseMatches
      BY Zenon DEF SlotInv
    <2> QED
      BY <2>1, ScanKinds DEF TypeOK
  <1>1. UNCHANGED <<localOK, admitting, healthy>>
    BY ZenonT(40) DEF Next, Begins, Stirs, Acquire, Receive, Timeout, Cancel, Arrive, EndPeer, FailPeer,
           Refused, Retry, ScanWaiter, ScanEnd, SendPoll, BuildReport, AcceptReport, FailPoll, Join,
           routerVars
  <1>2. HoldersStay
    BY Zenon, HoldersStayBy DEF Stirs
  <1>3. \A b \in Backends : inFlight'[b] >= inFlight[b]
    <2>1. ASSUME inFlight' = inFlight \/ \E r, t : Take(r, t)
          PROVE  \A b \in Backends : inFlight'[b] >= inFlight[b]
      <3>1. CASE inFlight' = inFlight
        BY <1>0, <3>1
      <3>2. ASSUME NEW r, NEW t, Take(r, t) PROVE \A b \in Backends : inFlight'[b] >= inFlight[b]
        BY <1>0, <3>2 DEF Take
      <3> QED
        BY <2>1, <3>1, <3>2
    <2>2. ASSUME NEW r \in Requests, Acquire(r) \/ Retry(r) PROVE inFlight' = inFlight \/ \E t : Take(r, t)
      BY ZenonT(40), <2>2 DEF Acquire, Retry
    <2>3. ASSUME ScanWaiter PROVE inFlight' = inFlight \/ \E r, t : Take(r, t)
      BY ZenonT(40), <1>0, <2>3, ScanWaiterMoves
    <2>4. ASSUME \/ \E r \in Requests : \/ Receive(r) \/ Timeout(r) \/ Cancel(r) \/ Arrive(r) \/ EndPeer(r)
                                        \/ FailPeer(r) \/ Refused(r)
                 \/ ScanEnd
                 \/ \E p \in Peers : \/ SendPoll(p) \/ BuildReport(p) \/ AcceptReport(p)
                                     \/ FailPoll(p) \/ Join(p)
          PROVE  inFlight' = inFlight
      BY ZenonT(40), <2>4 DEF Receive, Timeout, Cancel, Arrive, EndPeer, FailPeer, Refused, ScanEnd, SendPoll,
                  BuildReport, AcceptReport, FailPoll, Join, routerVars
    <2>5. inFlight' = inFlight \/ \E r, t : Take(r, t)
      BY Zenon, <2>2, <2>3, <2>4 DEF Next, Begins, Stirs
    <2> QED
      BY Zenon, <2>1, <2>5
  <1>s. \A rep : SameReport(rep, rep) /\ NoMore(rep, rep)
    BY Zenon DEF SameReport, NoMore
  <1>n. \A rep, old : SameReport(rep, old) => NoMore(rep, old)
    BY Zenon DEF SameReport, NoMore
  <1>4. ASSUME report' = report
        PROVE  \A p \in Peers : SameReport(report'[p], report[p]) /\ NoMore(report'[p], report[p])
    BY Zenon, <1>4, <1>s
  <1>5. ASSUME NEW r \in Requests, FailPeer(r)
        PROVE  \A p \in Peers : SameReport(report'[p], report[p]) /\ NoMore(report'[p], report[p])
    <2>1. PICK p \in Peers : p = lease[r]
      BY <1>5 DEF SlotInv, LeaseMatches, MatchAt, FailPeer
    <2>2. /\ report[p].lists => report' = [report EXCEPT ![p].unaware = @ \cup {r}]
          /\ ~report[p].lists => report' = report
      BY Zenon, <1>5, <2>1 DEF FailPeer
    <2>3. \A q \in Peers : SameReport(report'[q], report[q])
      BY <1>0, <2>2, FailPeerReport
    <2> QED
      BY <1>n, <2>3
  <1>6. ASSUME NEW r \in Requests, Refused(r)
        PROVE  ~scan.on /\ \A p \in Peers : NoMore(report'[p], report[p])
    <2>1. PICK p \in Peers : p = lease[r]
      BY Zenon, <1>6 DEF SlotInv, LeaseMatches, MatchAt, Refused
    <2>2. /\ report[p].lists => report' = [report EXCEPT ![p].sentAfter = FALSE]
          /\ ~report[p].lists => report' = report
      BY Zenon, <1>6, <2>1 DEF Refused
    <2>3. PICK f \in [Peers -> ReportStates] : f = report
      BY <1>0
    <2>4. PICK g : g = report'
      BY Zenon
    <2>5. (f[p].lists => g = [f EXCEPT ![p].sentAfter = FALSE]) /\ (~f[p].lists => g = f)
      BY Zenon, <2>2, <2>3, <2>4
    <2>6. /\ \A q \in Peers : q # p => g[q] = f[q]
          /\ g[p].lists = f[p].lists
          /\ f[p].lists => /\ g[p].sentAfter = FALSE
                           /\ g[p].before = f[p].before /\ g[p].busy = f[p].busy
                           /\ g[p].fresh = f[p].fresh /\ g[p].up = f[p].up
                           /\ g[p].images = f[p].images
      BY ZenonT(40), <2>5, RefusedReport
    <2>7. NoMore(g[p], f[p])
      BY <2>6 DEF NoMore
    <2> QED
      BY ZenonT(40), <1>6, <1>s, <2>3, <2>4, <2>6, <2>7 DEF Refused
  <1>7. ASSUME \/ \E r \in Requests : \/ Acquire(r) \/ Receive(r) \/ Timeout(r) \/ Cancel(r) \/ Arrive(r)
                                      \/ EndPeer(r) \/ Retry(r)
               \/ ScanWaiter \/ ScanEnd
               \/ \E p \in Peers : \/ SendPoll(p) \/ BuildReport(p) \/ (AcceptReport(p) /\ p \notin wanted)
                                   \/ FailPoll(p) \/ Join(p)
        PROVE  report' = report
    BY ZenonT(40), <1>7 DEF Acquire, Receive, Timeout, Cancel, Arrive, EndPeer, Retry, ScanWaiter, ScanEnd, SendPoll,
                BuildReport, AcceptReport, FailPoll, Join, routerVars
  <1>8. /\ \A p \in Peers : NoMore(report'[p], report[p])
        /\ scan.on => \A p \in Peers : SameReport(report'[p], report[p])
    BY Zenon, <1>4, <1>5, <1>6, <1>7 DEF Next, Begins, Stirs
  <1> QED
    BY Zenon, <1>1, <1>2, <1>3, <1>8 DEF NothingFreed

\* Outside a scan: whoever waits was waiting or has just found no slot.
LEMMA WakeQueue ==
    ASSUME Counting, TypeOK, TypeOK', NothingFreed, WaitersBlocked, ~scan.on, scan' = scan,
           \A j \in 1..Len(queue') : (\E i \in 1..Len(queue) : queue'[j] = queue[i])
                                     \/ Blocked(queue'[j], report)
    PROVE  WaitersBlocked'
  <1> SUFFICES ASSUME NEW j \in 1..Len(queue') PROVE Blocked(queue[j], report)'
    BY ZenonT(40) DEF WaitersBlocked
  <1>1. PICK c : c = queue'[j]
    BY Zenon
  <1>2. Blocked(c, report)
    BY Zenon, <1>1 DEF WaitersBlocked
  <1>3. Blocked(c, report)'
    BY SMTT(30), <1>2, BlockedStays
  <1> QED
    BY ZenonT(40), <1>1, <1>3 DEF Blocked, LocalCandidates, PeerCandidates

\* In a scan that does not move.
LEMMA WakeScan ==
    ASSUME Counting, TypeOK, TypeOK', NothingFreed, WaitersBlocked, scan.on, scan' = scan, queue' = queue,
           \A p \in Peers : SameReport(report'[p], report[p])
    PROVE  WaitersBlocked'
  <1>1. \A p \in Peers : SameReport(report'[p], scan'.reps[p])
    BY DEF WaitersBlocked, SameReport
  <1>2. Passed' = Passed
    BY Zenon DEF Passed
  <1>3. \A c : Blocked(c, report) => Blocked(c, report)'
    BY Zenon, BlockedStays
  <1>4. \A i \in 1..Passed : Blocked(queue[i], report)'
    <2> SUFFICES ASSUME NEW i \in 1..Passed PROVE Blocked(queue[i], report)'
      BY Zenon
    <2>1. PICK c : c = queue[i]
      BY Zenon
    <2>2. Blocked(c, report)'
      BY Zenon, <1>3, <2>1 DEF WaitersBlocked
    <2> QED
      BY Zenon, <2>1, <2>2
  <1> QED
    BY ZenonT(40), <1>1, <1>2, <1>3, <1>4 DEF WaitersBlocked

\* A pick without a slot, of reports that are typed.
LEMMA PickBlocks ==
    ASSUME Counting, TypeOK, NEW r, NEW reps \in [Peers -> ReportStates], "noFreeSlot" \in Pick(r, {}, reps)
    PROVE  Blocked(r, reps)
  <1>1. healthy \subseteq Backends /\ inFlight \in [Backends -> Nat]
    BY Zenon DEF TypeOK
  <1>2. ASSUME NEW p \in PeerCandidates(r, {}, reps) PROVE PeerFree(reps, p) \in Int
    <2>1. p \in Peers /\ reps[p].lists
      BY Zenon DEF PeerCandidates, Serves
    <2>2. reps[p].busy \in Nat /\ Slots[p] \in Nat
      BY ZenonT(40), <2>1, ReportKinds, RouterAssumption DEF Reports
    <2>3. Cardinality(ReservedLocked(reps, p)) \in Nat
      BY ReservedFinite
    <2> QED
      BY <2>2, <2>3 DEF PeerFree
  <1> QED
    BY <1>1, <1>2, PickNothing DEF Blocked

\* One waiter of a scan.
LEMMA WakeScanWaiter ==
    ASSUME SlotInv, WaitersLocal, TypeOK', ScanInOrder, NothingFreed, WaitersBlocked, ScanWaiter
    PROVE  WaitersBlocked'
  <1>0. Counting /\ TypeOK /\ scan.on /\ scan.todo # <<>> /\ report' = report
    BY DEF SlotInv, ScanWaiter
  <1>r. scan.reps \in [Peers -> ReportStates]
    BY <1>0, ScanKinds
  <1>1. PICK w \in Requests : w = Head(scan.todo)
    BY Zenon, <1>0, ScanAt
  <1>2. PICK n \in Nat : n = Passed
    BY <1>0, ScanAt
  <1>3. w = queue[n + 1] /\ n + 1 \in 1..Len(queue) /\ w \notin Forwarded
    BY Zenon, <1>0, <1>1, <1>2, ScanAt DEF WaitersLocal
  <1>4. \A c : Blocked(c, report) => Blocked(c, report)'
    BY Zenon, BlockedStays, <1>0
  <1>5. /\ \A p \in Peers : SameReport(report[p], scan.reps[p])
        /\ \A i \in 1..n : Blocked(queue[i], report)
        /\ scan.unpinnedFull => \A r \in Requests \ Forwarded : Host[r] = "any" => Blocked(r, report)
        /\ scan.imagesFull => \A r \in Images \ Forwarded : Host[r] = "any" => Blocked(r, report)
    BY SMTT(30), <1>0, <1>2 DEF WaitersBlocked
  <1>6. ASSUME NEW pass \in BOOLEAN, queue' = queue, ScanGoesOn(pass), ~pass => Skipped(w),
               Blocked(w, report)
        PROVE  WaitersBlocked'
    <2>1. Passed' = n + 1 /\ scan'.on /\ scan'.reps = scan.reps
      <3>1. Passed' = Passed + 1
        BY Zenon, <1>0, <1>1, <1>6, ScanPasses
      <3> QED
        BY <1>2, <1>6, <3>1 DEF ScanGoesOn
    <2>2. ASSUME NEW i \in 1..(n + 1) PROVE Blocked(queue[i], report)
      <3>1. CASE i = n + 1
        BY Zenon, <1>3, <1>6, <3>1
      <3>2. CASE i # n + 1
        <4>1. i \in 1..n
          BY <3>2
        <4> QED
          BY Zenon, <1>5, <4>1
      <3> QED
        BY <3>1, <3>2
    <2>3. ASSUME NEW i \in 1..(n + 1) PROVE Blocked(queue[i], report)'
      <3>1. PICK c : c = queue[i]
        BY Zenon
      <3>2. Blocked(c, report)'
        BY Zenon, <1>4, <2>2, <3>1
      <3>3. c = queue'[i]
        BY <1>6, <3>1
      <3> QED
        BY Zenon, <3>2, <3>3 DEF Blocked, LocalCandidates, PeerCandidates
    <2>4. ASSUME scan'.unpinnedFull, NEW r \in Requests \ Forwarded, Host[r] = "any"
          PROVE  Blocked(r, report)'
      <3>1. CASE scan.unpinnedFull
        BY Zenon, <1>4, <1>5, <2>4, <3>1
      <3>2. CASE ~scan.unpinnedFull
        <4>1. Host[w] = "any" /\ w \notin Images
          BY ZenonT(40), <1>1, <1>6, <2>4, <3>2 DEF ScanGoesOn
        <4>2. Blocked(r, report)
          BY Zenon, <1>3, <1>6, <2>4, <4>1, BlockedCovers
        <4> QED
          BY SMTT(30), <1>4, <4>2
      <3> QED
        BY SMTT(30), <3>1, <3>2
    <2>5. ASSUME scan'.imagesFull, NEW r \in Images \ Forwarded, Host[r] = "any"
          PROVE  Blocked(r, report)'
      <3>1. CASE scan.imagesFull
        BY <1>4, <1>5, <2>5, <3>1
      <3>2. CASE ~scan.imagesFull
        <4>1. Host[w] = "any" /\ w \in Images \ Forwarded
          BY ZenonT(40), <1>1, <1>3, <1>6, <2>5, <3>2 DEF ScanGoesOn
        <4>2. Blocked(r, report)
          BY Zenon, <1>6, <2>5, <4>1, BlockedCoversImages
        <4> QED
          BY Zenon, <1>4, <4>2
      <3> QED
        BY SMTT(30), <3>1, <3>2
    <2>6. \A p \in Peers : SameReport(report'[p], scan'.reps[p])
      BY ZenonT(40), <1>0, <1>5, <2>1
    <2> QED
      BY Zenon, <2>1, <2>3, <2>4, <2>5, <2>6 DEF WaitersBlocked
  <1>7. CASE Skipped(w) /\ ScanGoesOn(FALSE) /\ UNCHANGED <<queue, lease, inFlight>>
    <2>1. Blocked(w, report)
      BY Zenon, <1>3, <1>5, <1>7 DEF Skipped
    <2> QED
      BY ZenonT(40), <1>6, <1>7, <2>1
  <1>8. CASE /\ ScanGoesOn(TRUE) /\ "noFreeSlot" \in Pick(w, {}, scan.reps)
             /\ UNCHANGED <<queue, lease, inFlight>>
    <2>1. Blocked(w, scan.reps)
      BY <1>0, <1>r, <1>8, PickBlocks
    <2>2. Blocked(w, report)
      BY Zenon, <1>5, <2>1, BlockedSame
    <2> QED
      BY ZenonT(40), <1>6, <1>8, <2>2
  <1>9. CASE ScanGoesOn(FALSE) /\ RemoveWaiter(Head(scan.todo))
    <2>1. Passed' = n /\ \A i \in 1..n : queue'[i] = queue[i]
      BY Zenon, <1>0, <1>2, <1>9, ScanServes
    <2>2. /\ scan'.on /\ scan'.reps = scan.reps
          /\ scan'.unpinnedFull => scan.unpinnedFull
          /\ scan'.imagesFull => scan.imagesFull
      BY ZenonT(40), <1>9 DEF ScanGoesOn
    <2>3. ASSUME NEW i \in 1..n PROVE Blocked(queue[i], report)'
      <3>1. PICK c : c = queue[i]
        BY Zenon
      <3>2. Blocked(c, report)' /\ c = queue'[i]
        BY <1>4, <1>5, <2>1, <3>1
      <3> QED
        BY Zenon, <3>2 DEF Blocked, LocalCandidates, PeerCandidates
    <2>4. /\ scan'.unpinnedFull => \A r \in Requests \ Forwarded : Host[r] = "any" => Blocked(r, report)'
          /\ scan'.imagesFull => \A r \in Images \ Forwarded : Host[r] = "any" => Blocked(r, report)'
      BY Zenon, <1>4, <1>5, <2>2
    <2>5. \A p \in Peers : SameReport(report'[p], scan'.reps[p])
      BY Zenon, <1>0, <1>5, <2>2
    <2> QED
      BY ZenonT(40), <2>1, <2>2, <2>3, <2>4, <2>5 DEF WaitersBlocked
  <1> QED
    BY ZenonT(40), <1>0, <1>1, <1>7, <1>8, <1>9, ScanWaiterMoves

\* The end of a pass: everybody was looked at.
LEMMA WakeScanEnd ==
    ASSUME SlotInv, TypeOK', ScanInOrder, NothingFreed, WaitersBlocked, ScanEnd
    PROVE  WaitersBlocked'
  <1>0. /\ Counting /\ TypeOK /\ scan.on /\ scan.todo = <<>> /\ report' = report /\ queue' = queue
        /\ queue \in Seq(Requests)
    BY Zenon DEF SlotInv, ScanEnd, TypeOK, routerVars
  <1>1. Len(queue) \in Nat /\ Passed = Len(queue)
    BY SMTT(30), <1>0 DEF Passed
  <1>2. /\ \A p \in Peers : SameReport(report[p], scan.reps[p])
        /\ \A i \in 1..Len(queue) : Blocked(queue[i], report)
    BY Zenon, <1>0, <1>1 DEF WaitersBlocked
  <1>3. CASE /\ scan'.on /\ scan'.todo = queue /\ scan'.reps = scan.reps
             /\ ~scan'.unpinnedFull /\ ~scan'.imagesFull
    <2>1. Passed' = 0
      BY SMTT(30), <1>0, <1>1, <1>3 DEF Passed
    <2>2. \A p \in Peers : SameReport(report'[p], scan'.reps[p])
      BY Zenon, <1>0, <1>2, <1>3
    <2>3. 1..Passed' = {}
      BY <2>1
    <2> QED
      BY Zenon, <1>3, <2>2, <2>3 DEF WaitersBlocked
  <1>4. CASE ~scan'.on
    <2>1. ASSUME NEW i \in 1..Len(queue) PROVE Blocked(queue[i], report)'
      <3>1. PICK c : c = queue[i]
        OBVIOUS
      <3>2. Blocked(c, report)' /\ c = queue'[i]
        BY Zenon, <1>0, <1>2, <3>1, BlockedStays
      <3> QED
        BY <3>2 DEF Blocked, LocalCandidates, PeerCandidates
    <2> QED
      BY Zenon, <1>0, <1>4, <2>1 DEF WaitersBlocked
  <1> QED
    BY SMTT(30), <1>0, <1>3, <1>4, ScanEnds

\* A request that joins the queue has just found no slot.
LEMMA WakeAcquire ==
    ASSUME SlotInv, TypeOK', NothingFreed, WaitersBlocked, NEW r \in Requests, Acquire(r)
    PROVE  WaitersBlocked'
  <1>0. /\ Counting /\ TypeOK /\ ~scan.on /\ scan' = scan /\ queue \in Seq(Requests)
        /\ report \in [Peers -> ReportStates]
    BY Zenon, ScanKinds DEF SlotInv, Acquire, TypeOK
  <1>1. Len(queue) \in Nat
    BY <1>0
  <1>2. CASE queue' = queue
    BY <1>0, <1>2, WakeQueue
  <1>3. CASE queue' = Append(queue, r) /\ "noFreeSlot" \in Pick(r, {}, report)
    <2>1. Blocked(r, report)
      BY Zenon, <1>0, <1>3, PickBlocks
    <2>2. /\ Len(queue') = Len(queue) + 1 /\ queue'[Len(queue) + 1] = r
          /\ \A j \in 1..Len(queue) : queue'[j] = queue[j]
      BY <1>0, <1>3
    <2>3. ASSUME NEW j \in 1..Len(queue')
          PROVE  (\E i \in 1..Len(queue) : queue'[j] = queue[i]) \/ Blocked(queue'[j], report)
      <3>1. j \in 1..Len(queue) \/ j = Len(queue) + 1
        BY <1>1, <2>2
      <3> QED
        BY Zenon, <2>1, <2>2, <3>1
    <2> QED
      BY Zenon, <1>0, <2>3, WakeQueue
  <1> QED
    BY <1>0, <1>2, <1>3, AcquireMoves

\* A waiter that gives up leaves the others where they were.
LEMMA WakeLeaves ==
    ASSUME SlotInv, TypeOK', NothingFreed, WaitersBlocked, NEW r \in Requests, Timeout(r) \/ Cancel(r)
    PROVE  WaitersBlocked'
  <1>0. /\ Counting /\ TypeOK /\ ~scan.on /\ scan' = scan /\ queue \in Seq(Requests) /\ IsInjective(queue)
    BY DEF SlotInv, Timeout, Cancel, TypeOK
  <1>2. CASE queue' = queue
    BY Zenon, <1>0, <1>2, WakeQueue
  <1>3. CASE r \in Range(queue) /\ RemoveWaiter(r)
    <2>1. PICK k \in 1..Len(queue) : queue[k] = r
      BY <1>0, <1>3, WaiterAt
    <2>2. /\ Len(queue') = Len(queue) - 1 /\ Len(queue) \in Nat
          /\ \A j \in 1..Len(queue') : queue'[j] = IF j < k THEN queue[j] ELSE queue[j + 1]
      BY Zenon, <1>0, <1>3, <2>1, WaiterRemoved
    <2>3. ASSUME NEW j \in 1..Len(queue')
          PROVE  \E i \in 1..Len(queue) : queue'[j] = queue[i]
      <3>1. j \in 1..Len(queue) /\ j + 1 \in 1..Len(queue)
        BY <2>2
      <3> QED
        BY Zenon, <2>2, <3>1
    <2> QED
      BY Zenon, <1>0, <2>3, WakeQueue
  <1> QED
    BY Zenon, <1>2, <1>3 DEF Timeout, Cancel

\* Every other step that frees nothing and begins no scan.
LEMMA WakeRest ==
    ASSUME SlotInv, TypeOK', NothingFreed, WaitersBlocked, queue' = queue, scan' = scan,
           scan.on => \A p \in Peers : SameReport(report'[p], report[p])
    PROVE  WaitersBlocked'
  <1>0. Counting /\ TypeOK
    BY Zenon DEF SlotInv
  <1>1. CASE scan.on
    BY Zenon, <1>0, <1>1, WakeScan
  <1>2. CASE ~scan.on
    BY Zenon, <1>0, <1>2, WakeQueue
  <1> QED
    BY Zenon, <1>1, <1>2

\* A scan that begins knows of nobody.
LEMMA WakeBegins ==
    ASSUME TypeOK, Begins
    PROVE  WaitersBlocked'
  <1>0. queue' = queue /\ report' = report /\ queue \in Seq(Requests)
    BY ZenonT(40) DEF Begins, Tick, Wake, WakeReport, routerVars, TypeOK
  <1>1. CASE ScanKept /\ queue = <<>> /\ ~scan.on
    <2>1. Len(queue') = 0 /\ ~scan'.on
      BY Zenon, <1>0, <1>1 DEF ScanKept
    <2> QED
      BY <2>1 DEF WaitersBlocked
  <1>2. CASE ScanStarts /\ scan'.reps = report
    <2>1. /\ Passed' = 0 /\ scan'.on /\ ~scan'.unpinnedFull /\ ~scan'.imagesFull
      BY <1>0, <1>2 DEF ScanStarts, Passed
    <2>2. \A p \in Peers : SameReport(report'[p], scan'.reps[p])
      BY Zenon, <1>0, <1>2 DEF SameReport
    <2>3. 1..Passed' = {}
      BY <2>1
    <2> QED
      BY Zenon, <2>1, <2>2, <2>3 DEF WaitersBlocked
  <1> QED
    BY ZenonT(40), <1>1, <1>2, ScanStartsBy DEF Begins

\* A waiter without a slot stays without one until something announces it.
LEMMA WakeStep ==
    ASSUME SlotInv, TypeOK', WaitersLocal, ScanInOrder, ~Stirred => WaitersBlocked, Next
    PROVE  (~Stirred => WaitersBlocked)'
  <1>0. Counting /\ TypeOK
    BY DEF SlotInv
  <1>1. CASE Begins
    <2>1. WaitersBlocked'
      BY Zenon, <1>0, <1>1, WakeBegins
    <2> QED
      BY Zenon, <2>1
  <1>2. CASE Stirs
    <2>1. Stirred'
      BY Zenon, <1>2, StirsBy
    <2> QED
      BY <2>1
  <1>3. CASE ~Begins /\ ~Stirs /\ Stirred
    <2>1. Stirred'
      BY <1>3, StirredStays
    <2> QED
      BY Zenon, <2>1
  <1>4. CASE ~Begins /\ ~Stirs /\ ~Stirred
    <2>1. NothingFreed /\ (scan.on => \A p \in Peers : SameReport(report'[p], report[p]))
      BY Zenon, <1>4, NothingFreedBy
    <2>2. WaitersBlocked
      BY Zenon, <1>4
    <2>3. ASSUME queue' = queue, scan' = scan PROVE WaitersBlocked'
      BY SMTT(30), <2>1, <2>2, <2>3, WakeRest
    <2>4. ASSUME NEW r \in Requests, Acquire(r) PROVE WaitersBlocked'
      BY Zenon, <2>1, <2>2, <2>4, WakeAcquire
    <2>5. ASSUME NEW r \in Requests, Timeout(r) \/ Cancel(r) PROVE WaitersBlocked'
      BY <2>1, <2>2, <2>5, WakeLeaves
    <2>6. ASSUME ScanWaiter PROVE WaitersBlocked'
      BY Zenon, <2>1, <2>2, <2>6, WakeScanWaiter
    <2>7. ASSUME ScanEnd PROVE WaitersBlocked'
      BY Zenon, <2>1, <2>2, <2>7, WakeScanEnd
    <2>8. ASSUME \/ \E r \in Requests : \/ Receive(r) \/ Arrive(r) \/ EndPeer(r) \/ FailPeer(r)
                                        \/ Refused(r) \/ Retry(r)
                 \/ \E p \in Peers : \/ SendPoll(p) \/ BuildReport(p) \/ AcceptReport(p) \/ FailPoll(p)
                                     \/ Join(p)
          PROVE  queue' = queue /\ scan' = scan
      BY ZenonT(40), <2>8 DEF Receive, Arrive, EndPeer, FailPeer, Refused, Retry, SendPoll, BuildReport,
                  AcceptReport, FailPoll, Join
    <2>9. WaitersBlocked'
      BY Zenon, <1>4, <2>3, <2>4, <2>5, <2>6, <2>7, <2>8 DEF Next, Begins, Stirs
    <2> QED
      BY Zenon, <2>9
  <1> QED
    BY Zenon, <1>1, <1>2, <1>3, <1>4
=============================================================================
