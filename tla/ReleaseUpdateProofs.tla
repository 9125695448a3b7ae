------------------------ MODULE ReleaseUpdateProofs ------------------------
(***************************************************************************)
(* Proofs about ReleaseUpdate, for every set of releases, either kind of   *)
(* install and any number of faults and of upgrades out of band: the way   *)
(* back is safe (WaysBackSafe), and a release that was rolled back stays   *)
(* out (RejectedStaysOut).                                                 *)
(***************************************************************************)
EXTENDS ReleaseUpdate, TLAPS

Launchers == Versions \cup Upgrades \cup {Floor}

Disks ==
    [current : Names, lastGood : Names, pending : Versions \cup {None},
     attempts : 0..MaxAttempts - 1, launcher : Launchers \cup {None},
     version : Names \cup {None}, before : Names \cup {None}]

States ==
    [current : Names, lastGood : Names, pending : Versions \cup {None},
     attempts : 0..MaxAttempts - 1, launcher : Launchers \cup {None},
     previous : Names \cup {None}]

\* A pending release is the current one, and what has no trial to pass is
\* last good or the builtin binary.
PendingIsCurrent(s) ==
    /\ s.pending # None => s.pending = s.current
    /\ s.pending = None => s.current \in {s.lastGood, Builtin}

\* Every start of a pending release that reached it was counted first.
TrialCounted ==
    disk.pending # None => trial = disk.pending /\ handovers <= disk.attempts

\* What Prune works from still names every way back, however the state moved
\* since it was confirmed.
SnapshotCovers ==
    confirm = "pruning" =>
        {disk.lastGood, LoadPrevious(disk)} \subseteq {snapshot.lastGood, snapshot.previous, None}

\* The release FollowCLI installs is a staged one.
FollowsRelease == confirm = "install" => snapshot.current \in Versions

\* Neither what is current nor what the node falls back to was rolled back.
NotRejected == disk.current \notin rejected /\ disk.lastGood \notin rejected

ReleaseInv ==
    /\ TypeOK /\ handovers \in Nat
    /\ WayBackTrue /\ FallbackProven /\ FallbackStaged /\ TrialBounded
    /\ PendingIsCurrent(disk) /\ TrialCounted /\ SnapshotCovers /\ FollowsRelease /\ NotRejected

-----------------------------------------------------------------------------
(* What is read from disk, and what a save or half of one leaves there.    *)

\* None and Builtin are no release.
LEMMA Names2 == None \notin Names /\ Builtin \notin Versions /\ None # Builtin
  BY ConstantsAssumption DEF Names, None, Builtin

\* LoadState: the fields of state.json, and the way back if it counts.
LEMMA LoadResult ==
    ASSUME NEW d \in Disks, NEW s, s = LoadState(d)
    PROVE  /\ s \in States /\ LoadPrevious(d) \in Names \cup {None}
           /\ LoadPrevious(d) # d.lastGood
           /\ s.current = d.current /\ s.lastGood = d.lastGood /\ s.pending = d.pending
           /\ s.attempts = d.attempts /\ s.launcher = d.launcher /\ s.previous = LoadPrevious(d)
  <1>1. LoadPrevious(d) \in Names \cup {None} /\ LoadPrevious(d) # d.lastGood
    BY Zenon, Names2 DEF LoadPrevious, Disks
  <1> QED
    BY Zenon, <1>1 DEF LoadState, Disks, States

\* SaveState: the state given, and its way back unless that is last good.
LEMMA SaveResult ==
    ASSUME NEW d \in Disks, NEW s \in States, NEW e, e = SaveState(d, s)
    PROVE  /\ e \in Disks
           /\ e.current = s.current /\ e.lastGood = s.lastGood /\ e.pending = s.pending
           /\ e.attempts = s.attempts
           /\ LoadPrevious(e) \in {None, s.previous}
  <1> DEFINE w == WritePrevious(d, s)
  <1>1. /\ w \in Disks /\ w.version = s.previous
    BY ZenonT(40) DEF WritePrevious, Disks, States
  <1>2. e = WriteState(w, s)
    BY Zenon DEF SaveState
  <1> HIDE DEF w
  <1>3. /\ e \in Disks
        /\ e.current = s.current /\ e.lastGood = s.lastGood /\ e.pending = s.pending
        /\ e.attempts = s.attempts /\ e.version = s.previous
    BY ZenonT(40), <1>1, <1>2 DEF WriteState, Disks, States
  <1> QED
    BY Zenon, <1>3 DEF LoadPrevious

\* A save that stops before state.json: what is read is the old state, with
\* its way back or none, as long as the new state has no other way back to
\* the same last good.
LEMMA PartlyResult ==
    ASSUME NEW d \in Disks, NEW s \in States, NEW e \in PartlySaved(d, s),
           s.lastGood = d.lastGood => s.previous \in {None, LoadPrevious(d)}
    PROVE  /\ e \in Disks
           /\ e.current = d.current /\ e.lastGood = d.lastGood /\ e.pending = d.pending
           /\ e.attempts = d.attempts
           /\ LoadPrevious(e) \in {None, LoadPrevious(d)}
  <1> DEFINE w == WritePrevious(d, s)
  <1>1. /\ w \in Disks /\ w.version = s.previous
        /\ w.before = IF s.previous = None THEN None ELSE s.lastGood
        /\ w.current = d.current /\ w.lastGood = d.lastGood /\ w.pending = d.pending
        /\ w.attempts = d.attempts
    BY ZenonT(40) DEF WritePrevious, Disks, States
  <1>2. e = d \/ e = w
    BY Zenon DEF PartlySaved
  <1> HIDE DEF w
  <1>3. LoadPrevious(w) \in {None, LoadPrevious(d)}
    <2>1. CASE s.previous = None
      BY Zenon, <1>1, <2>1, Names2 DEF LoadPrevious, Disks
    <2>2. CASE s.previous # None /\ s.lastGood # d.lastGood
      BY Zenon, <1>1, <2>2 DEF LoadPrevious
    <2>3. CASE s.previous # None /\ s.lastGood = d.lastGood
      BY Zenon, <1>1, <2>3 DEF LoadPrevious
    <2> QED
      BY Zenon, <2>1, <2>2, <2>3
  <1> QED
    BY Zenon, <1>1, <1>2, <1>3

\* BackToLastGood: last good is current, and nothing is pending.
LEMMA BackResult ==
    ASSUME NEW s \in States, NEW t, t = BackToLastGood(s)
    PROVE  /\ t \in States
           /\ t.current = s.lastGood /\ t.lastGood = s.lastGood /\ t.pending = None
           /\ t.attempts = 0 /\ t.launcher = s.launcher /\ t.previous = s.previous
  <1>1. 0 \in 0..MaxAttempts - 1
    BY DEF MaxAttempts
  <1> QED
    BY ZenonT(40), <1>1 DEF BackToLastGood, States

\* Activated: the new release is current and pending, the way back is as before.
LEMMA ActivatedResult ==
    ASSUME NEW s \in States, NEW v \in Versions, NEW t, t = Activated(s, v)
    PROVE  /\ t \in States
           /\ t.current = v /\ t.lastGood = s.lastGood /\ t.pending = v
           /\ t.attempts = 0 /\ t.previous = s.previous
  <1>1. 0 \in 0..MaxAttempts - 1
    BY DEF MaxAttempts
  <1> QED
    BY ZenonT(40), <1>1 DEF Activated, States, Names

\* Confirmed: what was last good becomes previous, unless it is the current one.
LEMMA ConfirmedResult ==
    ASSUME NEW s \in States, NEW t, t = Confirmed(s)
    PROVE  /\ t \in States
           /\ t.current = s.current /\ t.lastGood = s.current /\ t.pending = None
           /\ t.attempts = 0
           /\ t.previous = IF s.lastGood # s.current THEN s.lastGood ELSE s.previous
  <1>1. 0 \in 0..MaxAttempts - 1
    BY DEF MaxAttempts
  <1> QED
    BY ZenonT(40), <1>1 DEF Confirmed, States

\* RolledBack: back to last good, or from last good to the one before it.
LEMMA RolledBackResult ==
    ASSUME NEW s \in States, s.previous # None \/ s.pending # None \/ s.current # s.lastGood,
           NEW t, t = RolledBack(s)
    PROVE  /\ t \in States
           /\ t.current = t.lastGood
           /\ \/ t.lastGood = s.lastGood /\ t.previous = s.previous
              \/ t.lastGood = s.previous /\ t.previous = None
           /\ t.pending = None
  <1>1. CASE s.pending # None \/ s.current # s.lastGood
    <2>1. t = BackToLastGood(s)
      BY Zenon, <1>1 DEF RolledBack
    <2> QED
      BY Zenon, <2>1, BackResult
  <1>2. CASE ~(s.pending # None \/ s.current # s.lastGood)
    <2>1. t = [s EXCEPT !.current = s.previous, !.lastGood = s.previous, !.previous = None]
      BY Zenon, <1>2 DEF RolledBack
    <2>2. s.previous \in Names
      BY Zenon, <1>2 DEF States
    <2> QED
      BY ZenonT(40), <1>2, <2>1, <2>2 DEF States
  <1> QED
    BY Zenon, <1>1, <1>2

-----------------------------------------------------------------------------
(* handover.go: what a start decides.                                      *)

\* The decision d that a start takes from the state s.
Decides(s, d) ==
    /\ d.state \in States /\ PendingIsCurrent(d.state)
    /\ d.state.lastGood \in {s.lastGood, Builtin}
    /\ d.state.previous \in {s.previous, None}
    /\ d.state.current \in {s.current, s.lastGood, Builtin}
    /\ d.exec # None => d.exec = d.state.current /\ d.exec \in dir /\ d.state.lastGood = s.lastGood
    /\ d.state.pending # None =>
          /\ d.state.pending = s.pending /\ d.state.current = s.current
          /\ d.state.attempts = s.attempts + 1
    /\ d.state.current # s.current => d.state.lastGood # s.current

\* Handover: the state as it is, run by the staged release or by the
\* launcher, or the launcher without the release that is missing.
LEMMA HandoverResult ==
    ASSUME NEW s \in States, NEW d, d = Handover(s)
    PROVE  \/ d.state = s /\ d.exec = None /\ s.current = Builtin
           \/ d.state = s /\ d.exec = s.current /\ s.current \in dir
           \/ /\ d.state \in States /\ d.exec = None
              /\ d.state.current = Builtin /\ d.state.pending = None
              /\ d.state.lastGood = IF s.lastGood = s.current THEN Builtin ELSE s.lastGood
              /\ d.state.previous = s.previous
  <1> DEFINE t == [s EXCEPT !.current = Builtin, !.pending = None, !.attempts = 0,
                            !.lastGood = IF @ = s.current THEN Builtin ELSE @]
  <1>1. CASE s.current = Builtin \/ s.current \in dir
    BY Zenon, <1>1 DEF Handover, Decision
  <1>2. CASE ~(s.current = Builtin \/ s.current \in dir)
    <2>1. d = Decision(t, None)
      BY Zenon, <1>2 DEF Handover
    <2>2. 0 \in 0..MaxAttempts - 1 /\ Builtin \in Names
      BY DEF MaxAttempts, Names
    <2>3. /\ t \in States
          /\ t.current = Builtin /\ t.pending = None
          /\ t.lastGood = IF s.lastGood = s.current THEN Builtin ELSE s.lastGood
          /\ t.previous = s.previous
      BY ZenonT(40), <2>2 DEF States
    <2> HIDE DEF t
    <2> QED
      BY <2>1, <2>3 DEF Decision
  <1> QED
    BY Zenon, <1>1, <1>2

\* CountStart: one more attempt while there is one, or back to last good.
LEMMA CountStartResult ==
    ASSUME NEW s \in States, NEW t, t = CountStart(s)
    PROVE  /\ t \in States /\ t.lastGood = s.lastGood /\ t.previous = s.previous
           /\ \/ /\ t.current = s.current /\ t.pending = s.pending
                 /\ t.attempts = s.attempts + 1
              \/ t.current = s.lastGood /\ t.pending = None
  <1>1. CASE s.attempts + 1 < MaxAttempts
    <2>1. t = [s EXCEPT !.attempts = s.attempts + 1]
      BY Zenon, <1>1 DEF CountStart, States
    <2>2. s.attempts + 1 \in 0..MaxAttempts - 1
      BY <1>1 DEF States, MaxAttempts
    <2> QED
      BY Zenon, <2>1, <2>2 DEF States
  <1>2. CASE ~(s.attempts + 1 < MaxAttempts)
    <2>1. t = BackToLastGood(s)
      BY Zenon, <1>2 DEF CountStart
    <2> QED
      BY Zenon, <2>1, BackResult
  <1> QED
    BY Zenon, <1>1, <1>2

\* The state a newer launcher starts from, whatever came before.
LEMMA FreshResult ==
    ASSUME NEW s \in States, NEW t, t = [NewState EXCEPT !.launcher = s.launcher]
    PROVE  /\ t \in States
           /\ t.current = Builtin /\ t.lastGood = Builtin /\ t.pending = None
           /\ t.previous = None
  <1>1. 0 \in 0..MaxAttempts - 1 /\ Builtin \in Names
    BY DEF MaxAttempts, Names
  <1> QED
    BY Zenon, <1>1 DEF NewState, States

\* DecideStaged, from a state whose pending release is its current one.
LEMMA DecideStagedResult ==
    ASSUME NEW s \in States, PendingIsCurrent(s), NEW followed, NEW d, d = DecideStaged(s, followed)
    PROVE  Decides(s, d)
  <1>1. CASE s.current = Builtin
    <2>1. d.state = s /\ d.exec = None
      BY Zenon, <1>1 DEF DecideStaged, Decision
    <2>2. s.pending = None
      BY Zenon, <1>1, Names2 DEF PendingIsCurrent, States
    <2> QED
      BY Zenon, <2>1, <2>2 DEF Decides
  <1>2. CASE s.current # Builtin /\ launcher >= s.current /\ ~followed
    <2>1. d.state = [NewState EXCEPT !.launcher = s.launcher] /\ d.exec = None
      BY Zenon, <1>2 DEF DecideStaged, Decision
    <2>2. s.pending # Builtin
      BY Zenon, Names2 DEF States
    <2> QED
      BY ZenonT(40), <1>2, <2>1, <2>2, FreshResult DEF Decides, PendingIsCurrent
  <1>3. CASE s.current # Builtin /\ ~(launcher >= s.current /\ ~followed) /\ s.pending = s.current
    <2>1. PICK t : t = CountStart(s)
      BY Zenon
    <2>2. d = Handover(t)
      BY Zenon, <1>3, <2>1 DEF DecideStaged
    <2>3. /\ t \in States /\ t.lastGood = s.lastGood /\ t.previous = s.previous
          /\ \/ /\ t.current = s.current /\ t.pending = s.pending
                /\ t.attempts = s.attempts + 1
             \/ t.current = s.lastGood /\ t.pending = None
      BY Zenon, <2>1, CountStartResult
    <2>4. \/ d.state = t /\ d.exec = None /\ t.current = Builtin
          \/ d.state = t /\ d.exec = t.current /\ t.current \in dir
          \/ /\ d.state \in States /\ d.exec = None
             /\ d.state.current = Builtin /\ d.state.pending = None
             /\ d.state.lastGood = IF t.lastGood = t.current THEN Builtin ELSE t.lastGood
             /\ d.state.previous = t.previous
      BY Zenon, <2>2, <2>3, HandoverResult
    <2>5. s.pending # Builtin /\ s.pending # None
      BY Zenon, <1>3, Names2 DEF States
    <2>6. CASE d.state = t
      BY Zenon, <1>3, <2>3, <2>4, <2>5, <2>6 DEF Decides, PendingIsCurrent
    <2>7. CASE d.state # t
      BY Zenon, <1>3, <2>3, <2>4, <2>5, <2>7 DEF Decides, PendingIsCurrent
    <2> QED
      BY Zenon, <2>6, <2>7
  <1>4. CASE s.current # Builtin /\ ~(launcher >= s.current /\ ~followed) /\ s.pending # s.current
    <2>1. d = Handover(s)
      BY Zenon, <1>4 DEF DecideStaged
    <2>2. s.pending = None
      BY Zenon, <1>4 DEF PendingIsCurrent
    <2>3. \/ d.state = s /\ d.exec = None /\ s.current = Builtin
          \/ d.state = s /\ d.exec = s.current /\ s.current \in dir
          \/ /\ d.state \in States /\ d.exec = None
             /\ d.state.current = Builtin /\ d.state.pending = None
             /\ d.state.lastGood = IF s.lastGood = s.current THEN Builtin ELSE s.lastGood
             /\ d.state.previous = s.previous
      BY Zenon, <2>1, HandoverResult
    <2> QED
      BY Zenon, <2>2, <2>3 DEF Decides, PendingIsCurrent
  <1> QED
    BY Zenon, <1>1, <1>2, <1>3, <1>4

\* Decide: the launcher that is the pending release counts its own start.
LEMMA DecideResult ==
    ASSUME NEW s \in States, PendingIsCurrent(s), NEW followed, NEW d, d = Decide(s, followed)
    PROVE  Decides(s, d)
  <1>1. CASE s.current = Builtin \/ (followed /\ s.current = launcher /\ s.pending = None)
    <2>1. d.state = s /\ d.exec = None
      BY Zenon, <1>1 DEF Decide, Decision
    <2>2. s.pending = None
      BY Zenon, <1>1, Names2 DEF PendingIsCurrent, States
    <2> QED
      BY Zenon, <2>1, <2>2 DEF Decides
  <1> DEFINE plain == ~(s.current = Builtin \/ (followed /\ s.current = launcher /\ s.pending = None))
  <1>2. CASE plain /\ s.pending = s.current /\ launcher = s.current /\ s.attempts + 1 < MaxAttempts
    <2>1. d.state = CountStart(s) /\ d.exec = None
      BY Zenon, <1>2 DEF Decide, Decision
    <2>2. CountStart(s) = [s EXCEPT !.attempts = s.attempts + 1]
      BY Zenon, <1>2 DEF CountStart, States
    <2>3. s.attempts + 1 \in 0..MaxAttempts - 1
      BY <1>2 DEF States, MaxAttempts
    <2>4. /\ d.state \in States /\ d.state.lastGood = s.lastGood
          /\ d.state.previous = s.previous /\ d.state.current = s.current
          /\ d.state.pending = s.pending /\ d.state.attempts = s.attempts + 1
      BY <2>1, <2>2, <2>3 DEF States
    <2> QED
      BY Zenon, <1>2, <2>1, <2>4 DEF Decides, PendingIsCurrent
  <1>3. CASE plain /\ s.pending = s.current /\ launcher = s.current /\ ~(s.attempts + 1 < MaxAttempts)
    <2>1. PICK t : t = BackToLastGood(s)
      BY Zenon
    <2>2. d = DecideStaged(t, followed)
      BY Zenon, <1>3, <2>1 DEF Decide
    <2>3. /\ t \in States
          /\ t.current = s.lastGood /\ t.lastGood = s.lastGood /\ t.pending = None
          /\ t.previous = s.previous
      BY Zenon, <2>1, BackResult
    <2>4. PendingIsCurrent(t)
      BY Zenon, <2>3 DEF PendingIsCurrent
    <2>5. Decides(t, d)
      BY Zenon, <2>2, <2>3, <2>4, DecideStagedResult
    <2>6. s.pending \in Versions /\ s.pending # Builtin
      BY Zenon, <1>3, Names2 DEF States
    <2>7. d.state.pending = None
      BY Zenon, <2>3, <2>5 DEF Decides
    <2>8. d.state.current \in {d.state.lastGood, Builtin}
      BY Zenon, <2>5, <2>7 DEF Decides, PendingIsCurrent
    <2>9. d.state.current # s.current => d.state.lastGood # s.current
      BY Zenon, <1>3, <2>3, <2>5, <2>6, <2>8 DEF Decides
    <2> QED
      BY Zenon, <2>3, <2>5, <2>7, <2>9 DEF Decides
  <1>4. CASE plain /\ ~(s.pending = s.current /\ launcher = s.current)
    <2>1. d = DecideStaged(s, followed)
      BY Zenon, <1>4 DEF Decide
    <2> QED
      BY Zenon, <2>1, DecideStagedResult
  <1> QED
    BY Zenon, <1>1, <1>2, <1>3, <1>4

-----------------------------------------------------------------------------
(* The inductive invariant, action by action.                              *)

\* What the invariant says of the state that a handler reads.
LEMMA StateRead ==
    ASSUME ReleaseInv
    PROVE  /\ disk \in Disks /\ State \in States /\ PendingIsCurrent(State)
           /\ LoadPrevious(disk) \in Names \cup {None} /\ LoadPrevious(disk) # disk.lastGood
           /\ State.current = disk.current /\ State.lastGood = disk.lastGood
           /\ State.pending = disk.pending /\ State.attempts = disk.attempts
           /\ State.previous = LoadPrevious(disk)
  <1>1. disk \in Disks
    BY Zenon DEF ReleaseInv, TypeOK, Disks, Launchers
  <1>2. PICK s : s = LoadState(disk)
    BY Zenon
  <1>3. /\ s \in States /\ LoadPrevious(disk) \in Names \cup {None}
        /\ LoadPrevious(disk) # disk.lastGood
        /\ s.current = disk.current /\ s.lastGood = disk.lastGood /\ s.pending = disk.pending
        /\ s.attempts = disk.attempts /\ s.previous = LoadPrevious(disk)
    BY Zenon, <1>1, <1>2, LoadResult
  <1>4. PendingIsCurrent(s)
    BY Zenon, <1>3 DEF ReleaseInv, PendingIsCurrent
  <1> QED
    BY Zenon, <1>1, <1>2, <1>3, <1>4 DEF State

\* A save that stops early changes nothing the handlers read, but for a way
\* back that is lost.
LEMMA FailedSave ==
    ASSUME ReleaseInv, NEW t \in States, SaveFails(t),
           t.lastGood = disk.lastGood => t.previous \in {None, LoadPrevious(disk)}
    PROVE  /\ disk' \in Disks /\ faults' \in 0..MaxFaults
           /\ disk'.current = disk.current /\ disk'.lastGood = disk.lastGood
           /\ disk'.pending = disk.pending /\ disk'.attempts = disk.attempts
           /\ LoadPrevious(disk') \in {None, LoadPrevious(disk)}
  <1>1. disk \in Disks
    BY Zenon, StateRead
  <1>2. faults' \in 0..MaxFaults
    BY ConstantsAssumption DEF SaveFails, ReleaseInv, TypeOK
  <1>3. PICK e \in PartlySaved(disk, t) : e = disk'
    BY Zenon DEF SaveFails
  <1> QED
    BY Zenon, <1>1, <1>2, <1>3, PartlyResult

\* A save that succeeds.
LEMMA SaveDone ==
    ASSUME ReleaseInv, NEW t \in States, Saved(t)
    PROVE  /\ disk' \in Disks /\ faults' = faults
           /\ disk'.current = t.current /\ disk'.lastGood = t.lastGood
           /\ disk'.pending = t.pending /\ disk'.attempts = t.attempts
           /\ LoadPrevious(disk') \in {None, t.previous}
  <1>1. disk \in Disks
    BY Zenon, StateRead
  <1>2. PICK e : e = SaveState(disk, t)
    BY Zenon
  <1>3. disk' = e /\ faults' = faults
    BY Zenon, <1>2 DEF Saved
  <1> QED
    BY <1>1, <1>2, <1>3, SaveResult

\* A step that keeps what is read from disk, or loses the way back, that
\* lets no release go and starts no pruning, keeps the invariant.
LEMMA KeptInv ==
    ASSUME ReleaseInv, TypeOK',
           disk'.current = disk.current, disk'.lastGood = disk.lastGood,
           disk'.pending = disk.pending, disk'.attempts = disk.attempts,
           LoadPrevious(disk') \in {None, LoadPrevious(disk)},
           dir \cup unstaged \subseteq dir' \cup unstaged',
           wayBack' = wayBack, proven' = proven, rejected' = rejected,
           trial' = trial, handovers' = handovers,
           confirm' = "pruning" => confirm = "pruning" /\ snapshot' = snapshot,
           confirm' = "install" => snapshot'.current \in Versions
    PROVE  ReleaseInv'
  <1>1. PendingIsCurrent(disk')
    BY Zenon DEF ReleaseInv, PendingIsCurrent
  <1>2. WayBackTrue' /\ FallbackProven' /\ FallbackStaged'
    BY Zenon DEF ReleaseInv, WayBackTrue, FallbackProven, FallbackStaged
  <1>3. TrialBounded' /\ TrialCounted' /\ NotRejected'
    BY Zenon DEF ReleaseInv, TrialBounded, TrialCounted, NotRejected
  <1>4. SnapshotCovers' /\ FollowsRelease'
    BY Zenon DEF ReleaseInv, SnapshotCovers, FollowsRelease
  <1> QED
    BY Zenon, <1>1, <1>2, <1>3, <1>4 DEF ReleaseInv

\* The types of a step that writes the state: those of the disk, the fault
\* count and the flag it may set.
LEMMA TypeKept ==
    ASSUME ReleaseInv, disk' \in Disks, faults' \in 0..MaxFaults,
           dir' = dir, launcher' = launcher, record' = record, follows' = follows,
           up' = up, running' = running, restarting' \in BOOLEAN, upgraded' = upgraded,
           activating' \in {activating, None}, trial' \in Versions \cup {None},
           confirm' \in {confirm, "pruning", "done"},
           {snapshot'.current, snapshot'.lastGood} \subseteq Names, snapshot'.pending = None,
           wayBack' \in Names \cup {None},
           proven' \subseteq Versions, rejected' \subseteq Versions, unstaged' \subseteq Versions
    PROVE  TypeOK'
  <1>1. {follows', up', restarting', upgraded'} \subseteq BOOLEAN
    BY Zenon DEF ReleaseInv, TypeOK
  <1>2. activating' \in Versions \cup {None}
    BY Zenon DEF ReleaseInv, TypeOK
  <1>3. confirm' \in Undecided \cup {"confirming", "rolling", "pruning", "record", "install",
                                     "launcher", "done"}
    BY Zenon DEF ReleaseInv, TypeOK
  <1> QED
    BY Zenon, <1>1, <1>2, <1>3 DEF ReleaseInv, TypeOK, Disks, Launchers

\* A node as it is installed.
LEMMA ReleaseInvInit == Init => ReleaseInv
  <1> SUFFICES ASSUME Init PROVE ReleaseInv
    BY Zenon
  <1>1. disk \in Disks
    BY DEF Init, EmptyDisk, Disks, Names, MaxAttempts, Launchers
  <1>2. follows \in BOOLEAN
    BY Zenon, ConstantsAssumption DEF Init
  <1>3. {follows, up, restarting, upgraded} \subseteq BOOLEAN
    BY ZenonT(40), <1>2 DEF Init
  <1>4. TypeOK
    BY <1>1, <1>3, ConstantsAssumption DEF Init, TypeOK, Disks, Launchers, NewState, Names
  <1>5. disk.lastGood = Builtin /\ disk.current = Builtin /\ disk.pending = None
        /\ LoadPrevious(disk) = None
    BY Zenon DEF Init, EmptyDisk, LoadPrevious, None, Builtin
  <1> QED
    BY <1>4, <1>5 DEF Init, ReleaseInv, WayBackTrue, FallbackProven, FallbackStaged, TrialBounded,
       PendingIsCurrent, TrialCounted, SnapshotCovers, FollowsRelease, NotRejected, MaxAttempts

\* Startup: a pending release is counted before it is run, one that is given
\* up is replaced by last good, and nothing is handed to what was rolled back.
LEMMA StartupInv ==
    ASSUME ReleaseInv, Startup
    PROVE  /\ ReleaseInv'
           /\ up' /\ running' # launcher => running' \notin rejected'
  <1>1. PICK s : s = [State EXCEPT !.launcher = launcher]
    BY ZenonT(40)
  <1>2. /\ disk \in Disks /\ s \in States /\ PendingIsCurrent(s)
        /\ s.current = disk.current /\ s.lastGood = disk.lastGood /\ s.pending = disk.pending
        /\ s.attempts = disk.attempts /\ s.previous = LoadPrevious(disk)
    <2>1. launcher \in Launchers
      BY Zenon DEF ReleaseInv, TypeOK, Launchers
    <2>2. /\ s \in States
          /\ s.current = State.current /\ s.lastGood = State.lastGood /\ s.pending = State.pending
          /\ s.attempts = State.attempts /\ s.previous = State.previous
      BY Zenon, <1>1, <2>1, StateRead DEF States
    <2>3. PendingIsCurrent(s)
      BY Zenon, <2>2, StateRead DEF PendingIsCurrent
    <2> QED
      BY Zenon, <2>2, <2>3, StateRead
  <1>3. PICK d : d = Decide(s, record = launcher)
    BY Zenon
  <1>4. Decides(s, d)
    <2>1. PICK followed \in BOOLEAN : followed = (record = launcher)
      BY ZenonT(40)
    <2>2. d = Decide(s, followed)
      BY Zenon, <1>3, <2>1
    <2> QED
      BY Zenon, <1>2, <2>2, DecideResult
  <1>5. PICK t \in States : t = d.state
    BY Zenon, <1>4 DEF Decides
  <1>6. /\ t.lastGood \in {disk.lastGood, Builtin}
        /\ t.previous \in {LoadPrevious(disk), None}
        /\ t.current \in {disk.current, disk.lastGood, Builtin}
        /\ d.exec # None => d.exec = t.current /\ d.exec \in dir /\ t.lastGood = disk.lastGood
        /\ t.pending # None => /\ t.pending = disk.pending /\ t.current = disk.current
                               /\ t.attempts = disk.attempts + 1
        /\ t.current # disk.current => t.lastGood # disk.current
    BY Zenon, <1>2, <1>4, <1>5 DEF Decides
  <1>7. PendingIsCurrent(t)
    BY Zenon, <1>4, <1>5 DEF Decides
  <1>8. Builtin \notin rejected
    BY Zenon, Names2 DEF ReleaseInv, TypeOK
  <1>9. CASE t # State /\ SaveFails(t) /\ UNCHANGED <<procVars, histVars>>
    <2>1. /\ disk' \in Disks /\ faults' \in 0..MaxFaults
          /\ disk'.current = disk.current /\ disk'.lastGood = disk.lastGood
          /\ disk'.pending = disk.pending /\ disk'.attempts = disk.attempts
          /\ LoadPrevious(disk') \in {None, LoadPrevious(disk)}
      BY Zenon, <1>6, <1>9, FailedSave
    <2>2. /\ UNCHANGED <<follows, dir, launcher, record>> /\ UNCHANGED procVars
          /\ UNCHANGED histVars /\ ~up
      BY Zenon, <1>9 DEF Startup
    <2>3. TypeOK'
      BY <2>1, <2>2 DEF ReleaseInv, TypeOK, procVars, histVars, Disks, Launchers
    <2>4. ReleaseInv'
      BY Zenon, <2>1, <2>2, <2>3, KeptInv DEF procVars, histVars, ReleaseInv, FollowsRelease
    <2> QED
      BY Zenon, <2>2, <2>4 DEF procVars
  <1>10. CASE /\ IF t # State THEN Saved(t) ELSE UNCHANGED <<disk, faults>>
              /\ up' = TRUE
              /\ running' = IF d.exec = None THEN launcher ELSE d.exec
              /\ restarting' = FALSE /\ activating' = None
              /\ confirm' = "watching" /\ snapshot' = NewState
              /\ StartHistory(s, d)
    <2>1. /\ disk' \in Disks /\ faults' = faults
          /\ disk'.current = t.current /\ disk'.lastGood = t.lastGood
          /\ disk'.pending = t.pending /\ disk'.attempts = t.attempts
          /\ LoadPrevious(disk') \in {None, t.previous}
      BY Zenon, <1>10, SaveDone, StateRead
    <2>2. UNCHANGED <<follows, dir, launcher, record>>
      BY Zenon DEF Startup
    <2>3. /\ wayBack' = IF t.lastGood # disk.lastGood /\ t.previous = None THEN None ELSE wayBack
          /\ rejected' = IF disk.pending # None /\ t.pending = None /\ t.current # disk.pending
                         THEN rejected \cup {disk.pending} ELSE rejected
          /\ handovers' = IF d.exec # None /\ d.exec = trial /\ d.exec # disk.lastGood
                          THEN handovers + 1 ELSE handovers
          /\ UNCHANGED <<proven, trial, upgraded, unstaged>>
      BY Zenon, <1>2, <1>5, <1>10 DEF StartHistory
    <2>4. rejected' \subseteq Versions /\ wayBack' \in Names \cup {None}
      BY Zenon, <1>2, <2>3 DEF ReleaseInv, TypeOK, Disks
    <2>5. running' \in Versions \cup Upgrades \cup {Floor, None}
      BY Zenon, <1>6, <1>10 DEF ReleaseInv, TypeOK
    <2>6. {follows', up', restarting', upgraded'} \subseteq BOOLEAN
      BY ZenonT(40), <1>10, <2>2, <2>3 DEF ReleaseInv, TypeOK
    <2>7. /\ {snapshot'.current, snapshot'.lastGood} \subseteq Names /\ snapshot'.pending = None
          /\ confirm' \in Undecided
      BY Zenon, <1>10 DEF NewState, Names, Undecided
    <2>8. TypeOK'
      BY Zenon, <1>10, <2>1, <2>2, <2>3, <2>4, <2>5, <2>6, <2>7 DEF ReleaseInv, TypeOK, Disks, Launchers
    <2>9. PendingIsCurrent(disk')
      BY Zenon, <1>7, <2>1 DEF PendingIsCurrent
    <2>10. WayBackTrue' /\ FallbackProven' /\ FallbackStaged'
      BY Zenon, <1>6, <2>1, <2>2, <2>3 DEF ReleaseInv, WayBackTrue, FallbackProven, FallbackStaged
    <2>11. handovers' \in Nat /\ TrialBounded' /\ TrialCounted'
      <3>1. CASE t.pending = None
        <4>1. handovers' = handovers
          BY Zenon, <1>6, <1>7, <2>3, <3>1, Names2 DEF PendingIsCurrent, ReleaseInv, TypeOK
        <4> QED
          BY Zenon, <2>1, <3>1, <4>1 DEF ReleaseInv, TrialBounded, TrialCounted
      <3>2. CASE t.pending # None
        <4>1. /\ trial = disk.pending /\ handovers <= disk.attempts /\ handovers \in Nat
          BY Zenon, <1>6, <3>2 DEF ReleaseInv, TrialCounted
        <4>2. t.attempts = disk.attempts + 1 /\ t.attempts \in 0..MaxAttempts - 1
          BY Zenon, <1>6, <3>2 DEF States
        <4>3. disk.attempts \in Nat
          BY <1>2 DEF Disks
        <4>4. handovers' \in Nat /\ handovers' <= t.attempts
          BY <2>3, <4>1, <4>2, <4>3
        <4>5. handovers' <= MaxAttempts - 1
          BY <4>2, <4>4 DEF MaxAttempts
        <4> QED
          BY Zenon, <1>6, <2>1, <2>3, <3>2, <4>1, <4>4, <4>5 DEF TrialBounded, TrialCounted
      <3> QED
        BY Zenon, <3>1, <3>2
    <2>12. t.current \notin rejected' /\ t.lastGood \notin rejected'
      <3>1. disk.pending # None => disk.pending = disk.current
        BY Zenon, <1>2 DEF PendingIsCurrent
      <3> QED
        BY Zenon, <1>6, <1>8, <2>3, <3>1 DEF ReleaseInv, NotRejected
    <2>13. NotRejected' /\ SnapshotCovers' /\ FollowsRelease'
      BY Zenon, <1>10, <2>1, <2>12 DEF NotRejected, SnapshotCovers, FollowsRelease
    <2>14. running' # launcher => running' \notin rejected'
      BY Zenon, <1>6, <1>10, <2>12
    <2> QED
      BY Zenon, <2>8, <2>9, <2>10, <2>11, <2>13, <2>14 DEF ReleaseInv
  <1> QED
    BY ZenonT(40), <1>1, <1>3, <1>5, <1>9, <1>10 DEF Startup

\* The process ends, and the host: a release is staged, checked, lost, or the
\* launcher is upgraded.
LEMMA HostStepInv ==
    ASSUME ReleaseInv,
           \/ Restart \/ Crash
           \/ \E v \in Versions : Stage(v) \/ Activate(v) \/ Damage(v)
           \/ \E v \in Upgrades : Upgrade(v)
    PROVE  ReleaseInv'
  <1>1. CASE Restart \/ Crash
    <2>1. Ends
      BY Zenon, <1>1 DEF Restart, Crash
    <2>2. {follows', up', restarting', upgraded'} \subseteq BOOLEAN
      BY ZenonT(40), <2>1 DEF Ends, ReleaseInv, TypeOK, histVars
    <2>3. {snapshot'.current, snapshot'.lastGood} \subseteq Names /\ snapshot'.pending = None
      BY Zenon, <2>1 DEF Ends, NewState, Names
    <2>4. TypeOK'
      BY <2>1, <2>2, <2>3 DEF Ends, ReleaseInv, TypeOK, histVars
    <2> QED
      BY Zenon, <2>1, <2>4, KeptInv DEF Ends, histVars
  <1>2. ASSUME NEW v \in Versions, Stage(v) PROVE ReleaseInv'
    <2>1. TypeOK'
      BY <1>2 DEF Stage, ReleaseInv, TypeOK, procVars
    <2> QED
      BY Zenon, <1>2, <2>1, KeptInv DEF Stage, procVars, ReleaseInv, FollowsRelease
  <1>3. ASSUME NEW v \in Versions, Activate(v) PROVE ReleaseInv'
    <2>1. TypeOK'
      BY <1>3 DEF Activate, ReleaseInv, TypeOK, histVars
    <2> QED
      BY Zenon, <1>3, <2>1, KeptInv DEF Activate, histVars, ReleaseInv, FollowsRelease
  <1>4. ASSUME NEW v \in Versions, Damage(v) PROVE ReleaseInv'
    <2>1. faults' \in 0..MaxFaults
      BY SMTT(30), <1>4, ConstantsAssumption DEF Damage, ReleaseInv, TypeOK
    <2>2. TypeOK'
      BY <1>4, <2>1 DEF Damage, ReleaseInv, TypeOK, procVars
    <2> QED
      BY Zenon, <1>4, <2>2, KeptInv DEF Damage, procVars, ReleaseInv, FollowsRelease
  <1>5. ASSUME NEW v \in Upgrades, Upgrade(v) PROVE ReleaseInv'
    <2>1. TypeOK'
      BY <1>5 DEF Upgrade, ReleaseInv, TypeOK, procVars
    <2> QED
      BY Zenon, <1>5, <2>1, KeptInv DEF Upgrade, procVars, ReleaseInv, FollowsRelease
  <1> QED
    BY Zenon, <1>1, <1>2, <1>3, <1>4, <1>5

\* ActivateSave: a new trial, from zero starts; the ways back stay.
LEMMA ActivateSaveInv ==
    ASSUME ReleaseInv, ActivateSave
    PROVE  ReleaseInv'
  <1>1. activating \in Versions
    BY Zenon DEF ActivateSave, ReleaseInv, TypeOK
  <1>2. PICK t : t = Activated(State, activating)
    BY Zenon
  <1>3. /\ t \in States
        /\ t.current = activating /\ t.lastGood = disk.lastGood /\ t.pending = activating
        /\ t.attempts = 0 /\ t.previous = LoadPrevious(disk)
    BY <1>1, <1>2, ActivatedResult, StateRead
  <1>4. /\ UNCHANGED <<follows, dir, launcher, record, up, running, confirm, snapshot>>
        /\ activating' = None
    BY Zenon DEF ActivateSave
  <1>5. /\ {snapshot'.current, snapshot'.lastGood} \subseteq Names /\ snapshot'.pending = None
    BY Zenon, <1>4 DEF ReleaseInv, TypeOK
  <1>6. CASE UNCHANGED <<disk, restarting, faults, histVars>>
    <2>1. TypeOK'
      BY SMTT(30), <1>4, <1>5, <1>6, TypeKept, StateRead DEF ReleaseInv, TypeOK, histVars
    <2> QED
      BY Zenon, <1>4, <1>6, <2>1, KeptInv DEF histVars, ReleaseInv, FollowsRelease
  <1>7. CASE SaveFails(t) /\ UNCHANGED <<restarting, histVars>>
    <2>1. /\ disk' \in Disks /\ faults' \in 0..MaxFaults
          /\ disk'.current = disk.current /\ disk'.lastGood = disk.lastGood
          /\ disk'.pending = disk.pending /\ disk'.attempts = disk.attempts
          /\ LoadPrevious(disk') \in {None, LoadPrevious(disk)}
      BY Zenon, <1>3, <1>7, FailedSave
    <2>2. TypeOK'
      BY ZenonT(40), <1>4, <1>5, <1>7, <2>1, TypeKept DEF ReleaseInv, TypeOK, histVars
    <2> QED
      BY Zenon, <1>4, <1>7, <2>1, <2>2, KeptInv DEF histVars, ReleaseInv, FollowsRelease
  <1>8. CASE /\ Saved(t) /\ restarting' = TRUE
             /\ rejected' = rejected \ {activating}
             /\ trial' = activating /\ handovers' = 0
             /\ UNCHANGED <<wayBack, proven, upgraded, unstaged>>
    <2>1. /\ disk' \in Disks /\ faults' = faults
          /\ disk'.current = activating /\ disk'.lastGood = disk.lastGood
          /\ disk'.pending = activating /\ disk'.attempts = 0
          /\ LoadPrevious(disk') \in {None, LoadPrevious(disk)}
      BY ZenonT(40), <1>3, <1>8, SaveDone
    <2>2. TypeOK'
      BY Zenon, <1>1, <1>4, <1>5, <1>8, <2>1, TypeKept DEF ReleaseInv, TypeOK
    <2>3. PendingIsCurrent(disk') /\ TrialCounted' /\ TrialBounded'
      BY SMTT(30), <1>1, <1>8, <2>1, Names2 DEF PendingIsCurrent, TrialCounted, TrialBounded, MaxAttempts, Names
    <2>4. WayBackTrue' /\ FallbackProven' /\ FallbackStaged' /\ NotRejected'
      BY ZenonT(40), <1>4, <1>8, <2>1 DEF ReleaseInv, WayBackTrue, FallbackProven, FallbackStaged, NotRejected
    <2>5. SnapshotCovers' /\ FollowsRelease'
      BY Zenon, <1>4, <2>1 DEF ReleaseInv, SnapshotCovers, FollowsRelease
    <2> QED
      BY Zenon, <1>8, <2>2, <2>3, <2>4, <2>5 DEF ReleaseInv
  <1> QED
    BY ZenonT(40), <1>2, <1>6, <1>7, <1>8 DEF ActivateSave

\* Rollback and the confirmer's rollback: the node goes back to last good, or
\* from there to the way back, which is then used up.
LEMMA GoBackInv ==
    ASSUME ReleaseInv, NEW t \in States, t.pending = None, t.current = t.lastGood,
           \/ t.lastGood = disk.lastGood /\ t.previous = LoadPrevious(disk)
           \/ t.lastGood = LoadPrevious(disk) /\ t.previous = None,
           Saved(t),
           TypeOK', rejected' \subseteq (rejected \cup {disk.current}) \ {t.current},
           wayBack' = IF t.lastGood # disk.lastGood THEN None ELSE wayBack,
           UNCHANGED <<dir, snapshot, proven, trial, handovers, unstaged>>,
           confirm' \in {confirm, "done"}
    PROVE  ReleaseInv'
  <1>1. /\ disk' \in Disks
        /\ disk'.current = t.lastGood /\ disk'.lastGood = t.lastGood
        /\ disk'.pending = None
        /\ LoadPrevious(disk') \in {None, t.previous}
    BY Zenon, SaveDone
  <1>2. PendingIsCurrent(disk') /\ TrialCounted' /\ TrialBounded' /\ NotRejected'
    BY Zenon, <1>1 DEF PendingIsCurrent, TrialCounted, ReleaseInv, TrialBounded, NotRejected
  <1>3. WayBackTrue' /\ FallbackProven' /\ FallbackStaged'
    BY SMTT(30), <1>1, StateRead DEF ReleaseInv, WayBackTrue, FallbackProven, FallbackStaged
  <1>4. SnapshotCovers' /\ FollowsRelease'
    BY Zenon, <1>1 DEF ReleaseInv, SnapshotCovers, FollowsRelease
  <1> QED
    BY Zenon, <1>2, <1>3, <1>4 DEF ReleaseInv

\* The operator's rollback, when it is not refused.
LEMMA RollbackInv ==
    ASSUME ReleaseInv, Rollback
    PROVE  ReleaseInv'
  <1>1. PICK t : t = RolledBack(State)
    BY Zenon
  <1>2. /\ t \in States /\ t.current = t.lastGood /\ t.pending = None
        /\ \/ t.lastGood = disk.lastGood /\ t.previous = LoadPrevious(disk)
           \/ t.lastGood = LoadPrevious(disk) /\ t.previous = None
    <2>1. State.previous # None \/ State.pending # None \/ State.current # State.lastGood
      BY ZenonT(40) DEF Rollback, RollbackRefused
    <2> QED
      BY Zenon, <1>1, <2>1, RolledBackResult, StateRead
  <1>3. /\ UNCHANGED <<follows, dir, launcher, record, up, running, activating, confirm, snapshot>>
    BY Zenon DEF Rollback
  <1>4. /\ {snapshot'.current, snapshot'.lastGood} \subseteq Names /\ snapshot'.pending = None
    BY Zenon, <1>3 DEF ReleaseInv, TypeOK
  <1>5. CASE SaveFails(t) /\ UNCHANGED <<restarting, histVars>>
    <2>1. t.lastGood = disk.lastGood => t.previous \in {None, LoadPrevious(disk)}
      BY Zenon, <1>2
    <2>2. /\ disk' \in Disks /\ faults' \in 0..MaxFaults
          /\ disk'.current = disk.current /\ disk'.lastGood = disk.lastGood
          /\ disk'.pending = disk.pending /\ disk'.attempts = disk.attempts
          /\ LoadPrevious(disk') \in {None, LoadPrevious(disk)}
      BY Zenon, <1>2, <1>5, <2>1, FailedSave
    <2>3. TypeOK'
      BY Zenon, <1>3, <1>4, <1>5, <2>2, TypeKept DEF ReleaseInv, TypeOK, histVars
    <2> QED
      BY Zenon, <1>3, <1>5, <2>2, <2>3, KeptInv DEF histVars, ReleaseInv, FollowsRelease
  <1>6. CASE /\ Saved(t) /\ restarting' = TRUE
             /\ rejected' = (rejected \cup {State.current}) \ {t.current, Builtin}
             /\ wayBack' = IF t.lastGood # State.lastGood THEN None ELSE wayBack
             /\ UNCHANGED <<proven, trial, handovers, upgraded, unstaged>>
    <2>1. /\ rejected' = (rejected \cup {disk.current}) \ {t.current, Builtin}
          /\ wayBack' = IF t.lastGood # disk.lastGood THEN None ELSE wayBack
      BY Zenon, <1>6, StateRead
    <2>2. rejected' \subseteq Versions /\ wayBack' \in Names \cup {None}
      BY Zenon, <2>1, StateRead DEF ReleaseInv, TypeOK, Disks, Names
    <2>3. disk' \in Disks /\ faults' \in 0..MaxFaults
      BY Zenon, <1>2, <1>6, SaveDone DEF ReleaseInv, TypeOK
    <2>4. TypeOK'
      BY Zenon, <1>3, <1>4, <1>6, <2>2, <2>3, TypeKept DEF ReleaseInv, TypeOK
    <2> QED
      BY Zenon, <1>2, <1>3, <1>6, <2>1, <2>4, GoBackInv
  <1> QED
    BY ZenonT(40), <1>1, <1>5, <1>6 DEF Rollback

\* The confirmer looks at what it runs and decides later.
LEMMA ConfirmLookInv ==
    ASSUME ReleaseInv, ConfirmLook
    PROVE  ReleaseInv'
  <1>1. confirm' \in {"watching", "fetching", "confirming", "rolling", "done"}
    BY Zenon DEF ConfirmLook, Undecided
  <1>2. TypeOK'
    BY <1>1 DEF ConfirmLook, Undecided, confirmFrame, histVars, ReleaseInv, TypeOK
  <1> QED
    BY Zenon, <1>1, <1>2, KeptInv DEF ConfirmLook, confirmFrame, histVars

\* A release the confirmer owns is the pending one, and what runs.
LEMMA OwnedResult ==
    ASSUME ReleaseInv, ~Overtaken
    PROVE  running \in Versions /\ running = disk.current /\ running = disk.pending
  BY Zenon, StateRead DEF Overtaken, Owns, Disks

\* ConfirmSave: what was last good becomes the way back.
LEMMA ConfirmSaveInv ==
    ASSUME ReleaseInv, ConfirmSave
    PROVE  ReleaseInv'
  <1>1. PICK t : t = Confirmed(State)
    BY Zenon
  <1>2. /\ t \in States
        /\ t.current = disk.current /\ t.lastGood = disk.current /\ t.pending = None
        /\ t.previous = IF disk.lastGood # disk.current THEN disk.lastGood ELSE LoadPrevious(disk)
    BY Zenon, <1>1, ConfirmedResult, StateRead
  <1>3. UNCHANGED <<dir, restarting>> /\ UNCHANGED confirmFrame
    BY Zenon DEF ConfirmSave
  <1>4. CASE confirm' = "done" /\ UNCHANGED <<disk, faults, snapshot, histVars>>
    <2>1. TypeOK'
      BY <1>3, <1>4, TypeKept, StateRead DEF ReleaseInv, TypeOK, histVars, confirmFrame
    <2> QED
      BY Zenon, <1>3, <1>4, <2>1, KeptInv DEF histVars
  <1>5. CASE SaveFails(t) /\ confirm' = "done" /\ UNCHANGED <<snapshot, histVars>>
    <2>1. t.lastGood = disk.lastGood => t.previous \in {None, LoadPrevious(disk)}
      BY Zenon, <1>2
    <2>2. /\ disk' \in Disks /\ faults' \in 0..MaxFaults
          /\ disk'.current = disk.current /\ disk'.lastGood = disk.lastGood
          /\ disk'.pending = disk.pending /\ disk'.attempts = disk.attempts
          /\ LoadPrevious(disk') \in {None, LoadPrevious(disk)}
      BY Zenon, <1>2, <1>5, <2>1, FailedSave
    <2>3. TypeOK'
      BY Zenon, <1>3, <1>5, <2>2, TypeKept DEF ReleaseInv, TypeOK, histVars, confirmFrame
    <2> QED
      BY Zenon, <1>3, <1>5, <2>2, <2>3, KeptInv DEF histVars
  <1>6. CASE /\ ~Overtaken /\ Saved(t)
             /\ confirm' = "pruning" /\ snapshot' = t
             /\ wayBack' = IF disk.lastGood = disk.current THEN wayBack ELSE disk.lastGood
             /\ proven' = proven \cup {running}
             /\ trial' = None
             /\ unstaged' = unstaged \cup ({running} \ dir)
             /\ UNCHANGED <<rejected, handovers, upgraded>>
    <2>1. running \in Versions /\ running = disk.current
      BY Zenon, <1>6, OwnedResult
    <2>2. /\ disk' \in Disks /\ faults' = faults
          /\ disk'.current = running /\ disk'.lastGood = running /\ disk'.pending = None
          /\ LoadPrevious(disk') \in {None, t.previous}
      BY Zenon, <1>2, <1>6, <2>1, SaveDone
    <2>3. /\ {snapshot'.current, snapshot'.lastGood} \subseteq Names /\ snapshot'.pending = None
      BY Zenon, <1>2, <1>6 DEF States
    <2>4. wayBack' \in Names \cup {None}
      BY Zenon, <1>6, StateRead DEF ReleaseInv, TypeOK, Disks
    <2>5. TypeOK'
      BY Zenon, <1>3, <1>6, <2>1, <2>2, <2>3, <2>4, TypeKept DEF ReleaseInv, TypeOK, confirmFrame
    <2>6. PendingIsCurrent(disk') /\ TrialCounted' /\ TrialBounded' /\ NotRejected'
      BY Zenon, <1>6, <2>1, <2>2 DEF PendingIsCurrent, TrialCounted, ReleaseInv, TrialBounded, NotRejected
    <2>7. WayBackTrue' /\ FallbackProven' /\ FallbackStaged'
      BY Zenon, <1>2, <1>3, <1>6, <2>1, <2>2 DEF ReleaseInv, WayBackTrue, FallbackProven, FallbackStaged
    <2>8. SnapshotCovers' /\ FollowsRelease'
      BY Zenon, <1>2, <1>6, <2>1, <2>2 DEF SnapshotCovers, FollowsRelease
    <2> QED
      BY Zenon, <1>6, <2>5, <2>6, <2>7, <2>8 DEF ReleaseInv
  <1> QED
    BY Zenon, <1>1, <1>4, <1>5, <1>6 DEF ConfirmSave

\* ConfirmRollback: back to last good, unless it was overtaken.
LEMMA ConfirmRollbackInv ==
    ASSUME ReleaseInv, ConfirmRollback
    PROVE  ReleaseInv'
  <1>1. PICK t : t = BackToLastGood(State)
    BY Zenon
  <1>2. /\ t \in States
        /\ t.current = disk.lastGood /\ t.lastGood = disk.lastGood /\ t.pending = None
        /\ t.previous = LoadPrevious(disk)
    BY Zenon, <1>1, BackResult, StateRead
  <1>3. UNCHANGED <<dir, snapshot>> /\ UNCHANGED confirmFrame /\ confirm' = "done"
    BY Zenon DEF ConfirmRollback
  <1>4. CASE UNCHANGED <<disk, restarting, faults, histVars>>
    <2>1. TypeOK'
      BY SMTT(30), <1>3, <1>4, TypeKept, StateRead DEF ReleaseInv, TypeOK, histVars, confirmFrame
    <2> QED
      BY Zenon, <1>3, <1>4, <2>1, KeptInv DEF histVars
  <1>5. CASE SaveFails(t) /\ UNCHANGED <<restarting, histVars>>
    <2>1. /\ disk' \in Disks /\ faults' \in 0..MaxFaults
          /\ disk'.current = disk.current /\ disk'.lastGood = disk.lastGood
          /\ disk'.pending = disk.pending /\ disk'.attempts = disk.attempts
          /\ LoadPrevious(disk') \in {None, LoadPrevious(disk)}
      BY Zenon, <1>2, <1>5, FailedSave
    <2>2. TypeOK'
      BY ZenonT(40), <1>3, <1>5, <2>1, TypeKept DEF ReleaseInv, TypeOK, histVars, confirmFrame
    <2> QED
      BY Zenon, <1>3, <1>5, <2>1, <2>2, KeptInv DEF histVars
  <1>6. CASE /\ ~Overtaken /\ Saved(t) /\ restarting' = TRUE
             /\ rejected' = (rejected \cup {running}) \ {t.current}
             /\ UNCHANGED <<wayBack, proven, trial, handovers, upgraded, unstaged>>
    <2>1. running \in Versions /\ running = disk.current
      BY Zenon, <1>6, OwnedResult
    <2>2. disk' \in Disks /\ faults' = faults
      BY Zenon, <1>2, <1>6, SaveDone
    <2>3. TypeOK'
      BY Zenon, <1>3, <1>6, <2>1, <2>2, TypeKept DEF ReleaseInv, TypeOK, confirmFrame
    <2> QED
      BY Zenon, <1>2, <1>3, <1>6, <2>1, <2>3, GoBackInv
  <1> QED
    BY ZenonT(40), <1>1, <1>4, <1>5, <1>6 DEF ConfirmRollback

\* PruneReleases: what it keeps covers every way back there still is.
LEMMA PruneInv ==
    ASSUME ReleaseInv, PruneReleases
    PROVE  ReleaseInv'
  <1>1. /\ UNCHANGED <<disk, restarting, snapshot>> /\ UNCHANGED histVars
        /\ UNCHANGED confirmFrame
        /\ confirm = "pruning" /\ confirm' \in {"record", "done"}
    BY Zenon DEF PruneReleases
  <1>2. /\ dir' \subseteq dir /\ faults' \in 0..MaxFaults
        /\ dir \cap {snapshot.lastGood, snapshot.previous} \subseteq dir'
    BY SMTT(30), ConstantsAssumption DEF PruneReleases, Prune, ReleaseInv, TypeOK
  <1>3. TypeOK'
    BY <1>1, <1>2 DEF ReleaseInv, TypeOK, confirmFrame, histVars
  <1>4. FallbackStaged'
    <2>1. {disk.lastGood, LoadPrevious(disk)} \subseteq {snapshot.lastGood, snapshot.previous, None}
      BY Zenon, <1>1 DEF ReleaseInv, SnapshotCovers
    <2> QED
      BY Zenon, <1>1, <1>2, <2>1 DEF ReleaseInv, FallbackStaged, histVars
  <1>5. /\ WayBackTrue' /\ FallbackProven' /\ TrialBounded' /\ PendingIsCurrent(disk')
        /\ TrialCounted' /\ NotRejected' /\ handovers' \in Nat
    BY Zenon, <1>1 DEF ReleaseInv, WayBackTrue, FallbackProven, TrialBounded, PendingIsCurrent,
       TrialCounted, NotRejected, histVars
  <1>6. SnapshotCovers' /\ FollowsRelease'
    BY Zenon, <1>1 DEF SnapshotCovers, FollowsRelease
  <1> QED
    BY Zenon, <1>3, <1>4, <1>5, <1>6 DEF ReleaseInv

\* FollowCLI: the record, the launcher file and its sum; the releases stay.
LEMMA FollowInv ==
    ASSUME ReleaseInv, FollowStep
    PROVE  ReleaseInv'
  <1>1. CASE FollowRecord
    <2>1. /\ record' \in Versions \cup {None} /\ faults' \in 0..MaxFaults
          /\ confirm' \in {"install", "done"}
          /\ confirm' = "install" => snapshot.current \in Versions
      BY SMTT(30), <1>1, ConstantsAssumption DEF FollowRecord, ReleaseInv, TypeOK
    <2>2. TypeOK'
      BY <1>1, <2>1 DEF FollowRecord, ReleaseInv, TypeOK, histVars
    <2> QED
      BY Zenon, <1>1, <2>1, <2>2, KeptInv DEF FollowRecord, histVars
  <1>2. CASE FollowInstall
    <2>1. /\ launcher' \in Versions \cup Upgrades \cup {Floor} /\ faults' \in 0..MaxFaults
          /\ confirm' \in {"launcher", "done"}
      BY SMTT(30), <1>2, ConstantsAssumption DEF FollowInstall, ReleaseInv, TypeOK, FollowsRelease
    <2>2. TypeOK'
      BY <1>2, <2>1 DEF FollowInstall, ReleaseInv, TypeOK, histVars
    <2> QED
      BY Zenon, <1>2, <2>1, <2>2, KeptInv DEF FollowInstall, histVars
  <1>3. CASE FollowLauncher
    <2>1. PICK t : t = [State EXCEPT !.launcher = launcher]
      BY ZenonT(40)
    <2>2. /\ t \in States
          /\ t.current = disk.current /\ t.lastGood = disk.lastGood /\ t.pending = disk.pending
          /\ t.attempts = disk.attempts /\ t.previous = LoadPrevious(disk)
      <3>1. launcher \in Launchers
        BY Zenon DEF ReleaseInv, TypeOK, Launchers
      <3>2. /\ t \in States
            /\ t.current = State.current /\ t.lastGood = State.lastGood
            /\ t.pending = State.pending
            /\ t.attempts = State.attempts /\ t.previous = State.previous
        BY Zenon, <2>1, <3>1, StateRead DEF States
      <3> QED
        BY Zenon, <3>2, StateRead
    <2>3. /\ UNCHANGED <<dir, restarting, snapshot>> /\ UNCHANGED histVars
          /\ UNCHANGED confirmFrame /\ confirm' = "done"
          /\ \/ UNCHANGED <<disk, faults>> \/ Saved(t) \/ SaveFails(t)
      BY Zenon, <1>3, <2>1 DEF FollowLauncher
    <2>4. /\ disk' \in Disks /\ faults' \in 0..MaxFaults
          /\ disk'.current = disk.current /\ disk'.lastGood = disk.lastGood
          /\ disk'.pending = disk.pending /\ disk'.attempts = disk.attempts
          /\ LoadPrevious(disk') \in {None, LoadPrevious(disk)}
      <3>1. CASE UNCHANGED <<disk, faults>>
        BY Zenon, <3>1, StateRead DEF ReleaseInv, TypeOK
      <3>2. CASE Saved(t)
        BY Zenon, <2>2, <3>2, SaveDone DEF ReleaseInv, TypeOK
      <3>3. CASE SaveFails(t)
        BY Zenon, <2>2, <3>3, FailedSave
      <3> QED
        BY Zenon, <2>3, <3>1, <3>2, <3>3
    <2>5. TypeOK'
      BY ZenonT(40), <2>3, <2>4, TypeKept DEF ReleaseInv, TypeOK, histVars, confirmFrame
    <2> QED
      BY Zenon, <2>3, <2>4, <2>5, KeptInv DEF histVars
  <1> QED
    BY Zenon, <1>1, <1>2, <1>3 DEF FollowStep

-----------------------------------------------------------------------------
(* The theorems.                                                           *)

\* Every step of the node and of its host keeps the invariant.
LEMMA ReleaseInvNext == ReleaseInv /\ [Next]_vars => ReleaseInv'
  <1> SUFFICES ASSUME ReleaseInv, [Next]_vars PROVE ReleaseInv'
    BY Zenon
  <1>1. CASE Startup
    BY Zenon, <1>1, StartupInv
  <1>2. CASE \/ Restart \/ Crash
             \/ \E v \in Versions : Stage(v) \/ Activate(v) \/ Damage(v)
             \/ \E v \in Upgrades : Upgrade(v)
    BY Zenon, <1>2, HostStepInv
  <1>3. CASE ActivateSave \/ Rollback
    BY Zenon, <1>3, ActivateSaveInv, RollbackInv
  <1>4. CASE ConfirmStep
    BY Zenon, <1>4, ConfirmLookInv, ConfirmSaveInv, ConfirmRollbackInv, PruneInv DEF ConfirmStep
  <1>5. CASE FollowStep
    BY Zenon, <1>5, FollowInv
  <1>6. CASE UNCHANGED vars
    <2>1. UNCHANGED procVars /\ UNCHANGED histVars
          /\ UNCHANGED <<follows, disk, dir, launcher, record, faults>>
      BY Zenon, <1>6 DEF vars
    <2>2. TypeOK'
      BY <2>1 DEF ReleaseInv, TypeOK, procVars, histVars
    <2> QED
      BY Zenon, <2>1, <2>2, KeptInv DEF procVars, histVars, ReleaseInv, FollowsRelease
  <1> QED
    BY Zenon, <1>1, <1>2, <1>3, <1>4, <1>5, <1>6 DEF Next

\* The inductive invariant holds always.
THEOREM ReleaseInvariant == Spec => []ReleaseInv
  BY ReleaseInvInit, ReleaseInvNext, PTL DEF Spec

\* The way back is safe on every host, whatever is staged, activated, rolled
\* back, lost or upgraded, and wherever a save or the process stops: what
\* LoadState gives as the release before last good is that release or none,
\* last good and that release confirmed here and are still staged, and a
\* pending release is started at most twice.
THEOREM WaysBackAreSafe == Spec => []WaysBackSafe
  <1>1. ReleaseInv => WaysBackSafe
    BY Zenon DEF ReleaseInv, WaysBackSafe
  <1> QED
    BY <1>1, ReleaseInvariant, PTL

\* No start hands over to a release that was rolled back and not activated
\* since: neither current nor last good, between which decide chooses, is one.
THEOREM RejectedReleaseStaysOut == Spec => RejectedStaysOut
  <1>1. ReleaseInv /\ [Next]_vars
        => [~up /\ up' /\ running' # launcher => running' \notin rejected']_vars
    <2> SUFFICES ASSUME ReleaseInv, [Next]_vars, ~up, up', running' # launcher
                 PROVE  running' \notin rejected'
      BY Zenon
    <2>1. Startup
      <3>1. ~UNCHANGED vars
        BY ZenonT(40) DEF vars, procVars
      <3>2. ~(Restart \/ Crash \/ ActivateSave \/ Rollback \/ ConfirmStep \/ FollowStep)
        BY ZenonT(40) DEF Restart, Crash, ActivateSave, Rollback, ConfirmStep, ConfirmLook, ConfirmSave,
           ConfirmRollback, PruneReleases, FollowStep, FollowRecord, FollowInstall, FollowLauncher
      <3>3. \A v \in Versions : ~(Stage(v) \/ Activate(v) \/ Damage(v))
        BY ZenonT(40) DEF Stage, Activate, Damage, procVars
      <3>4. \A v \in Upgrades : ~Upgrade(v)
        BY ZenonT(40) DEF Upgrade, procVars
      <3> QED
        BY Zenon, <3>1, <3>2, <3>3, <3>4 DEF Next
    <2> QED
      BY Zenon, <2>1, StartupInv
  <1> QED
    BY <1>1, ReleaseInvariant, PTL DEF Spec, RejectedStaysOut
=============================================================================
