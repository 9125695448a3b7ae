---------------------------- MODULE ReleaseUpdate ----------------------------
(***************************************************************************)
(* internal/update on a node that restarts itself: its state on disk       *)
(* (state.go), stage, activate, rollback (api.go), the confirmer           *)
(* (confirm.go), the launcher's handover (handover.go) and, where follows, *)
(* the launcher that follows the release (cli.go), with the process ending *)
(* at any point.                                                           *)
(*                                                                         *)
(* Store.Update holds the store's lock from the read to the second write,  *)
(* so it is one step whose save succeeds or stops early; everything the    *)
(* code does outside that lock is a step of its own.  The health of the    *)
(* baseline, what its backends fetch and the end of the confirm window are *)
(* the confirmer's free choice.                                            *)
(***************************************************************************)
EXTENDS Integers

CONSTANTS
    Versions,   \* release versions that can be staged
    Floor,      \* the version of the launcher the node was installed with
    Upgrades,   \* versions an operator may install over it out of band
    Follows,    \* {TRUE}: a Mac install, {FALSE}: any other, BOOLEAN: either
    MaxFaults   \* bound: failed writes and staged releases lost

ASSUME ConstantsAssumption ==
    /\ Versions \cup Upgrades \cup {Floor} \subseteq Nat \ {0}
    /\ Follows \subseteq BOOLEAN /\ MaxFaults \in Nat

VARIABLES
    follows,    \* the launcher follows confirmed releases
    disk,       \* state.json and the previous file
    dir,        \* releases staged under the releases directory
    launcher,   \* the version of the launcher file
    record,     \* cli.json
    up,         \* the node process runs
    running,    \* the release it runs
    restarting, \* Store.restarting
    activating, \* an activate that has checked the binary, not yet saved
    confirm,    \* where the confirmer is
    snapshot,   \* the state it confirmed, which Prune works from
    faults,
    \* history: what was last good before last good; the releases that ever
    \* confirmed; those rolled back since they were last activated; the last
    \* activated release until it confirms, and how often it was handed over
    \* to while not last good; whether the launcher was ever upgraded out of
    \* band; the releases that are not staged and not because of Prune: lost,
    \* or not staged when the launcher confirmed them
    wayBack, proven, rejected, trial, handovers, upgraded, unstaged

procVars == <<up, running, restarting, activating, confirm, snapshot>>
histVars == <<wayBack, proven, rejected, trial, handovers, upgraded, unstaged>>
vars == <<follows, disk, dir, launcher, record, procVars, faults, histVars>>

-----------------------------------------------------------------------------
(* state.go: what a node keeps on disk about its releases, in state.json   *)
(* and in the previous file, and how the two are read and written.         *)
(* Versions are positive numbers, compared as Compare does; Builtin is the *)
(* floor binary, None an absent version.                                   *)

Builtin == 0
None == -1

\* maxAttempts of handover.go.
MaxAttempts == 3

\* A State as the code holds it: pending is None or the activated version,
\* attempts its start count, previous the way back ("" is None).
NewState ==
    [current |-> Builtin, lastGood |-> Builtin, pending |-> None, attempts |-> 0,
     launcher |-> None, previous |-> None]

\* The two files: state.json without previous, and the previous record.
EmptyDisk ==
    [current |-> Builtin, lastGood |-> Builtin, pending |-> None, attempts |-> 0,
     launcher |-> None, version |-> None, before |-> None]

\* Mutant: the previous file is taken as it is.
LoadPreviousAsIs(d) == d.version

\* loadPrevious: it counts only while its last good is still the last good.
LoadPrevious(d) ==
    IF d.before = d.lastGood /\ d.version # d.lastGood THEN d.version ELSE None

LoadState(d) ==
    [current |-> d.current, lastGood |-> d.lastGood, pending |-> d.pending,
     attempts |-> d.attempts, launcher |-> d.launcher, previous |-> LoadPrevious(d)]

WritePrevious(d, s) ==
    [d EXCEPT !.version = s.previous, !.before = IF s.previous = None THEN None ELSE s.lastGood]

WriteState(d, s) ==
    [d EXCEPT !.current = s.current, !.lastGood = s.lastGood, !.pending = s.pending,
              !.attempts = s.attempts, !.launcher = s.launcher]

\* SaveState: the previous file, then state.json.  An error, or the end of
\* the process, may stop it before the first write or between the two.
SaveState(d, s) == WriteState(WritePrevious(d, s), s)
PartlySaved(d, s) == {d, WritePrevious(d, s)}

\* Prune keeps current, last good, previous and the newest other release.
Prune(staged, s) ==
    LET others == staged \ {s.current, s.lastGood, s.previous}
    IN  {v \in staged : v \in others => \A w \in others : w <= v}

\* The confirmer still owns a pending release it runs.
Owns(s, v) == s.pending # None /\ s.pending = s.current /\ s.pending = v

\* What a confirmed release makes of the state, and what a rollback does.
Confirmed(s) ==
    [s EXCEPT !.previous = IF s.lastGood # s.current THEN s.lastGood ELSE @,
              !.lastGood = s.current, !.pending = None, !.attempts = 0]

BackToLastGood(s) == [s EXCEPT !.current = s.lastGood, !.pending = None, !.attempts = 0]

Activated(s, v) == [s EXCEPT !.current = v, !.pending = v, !.attempts = 0]

\* Service.rollback, when it is not refused: from a release that is not last
\* good to last good, else to the one before it.
RollbackRefused(s, staged) ==
    /\ s.pending = None /\ s.current = s.lastGood
    /\ s.previous = None \/ (s.previous # Builtin /\ s.previous \notin staged)

RolledBack(s) ==
    IF s.pending # None \/ s.current # s.lastGood
    THEN BackToLastGood(s)
    ELSE [s EXCEPT !.current = s.previous, !.lastGood = s.previous, !.previous = None]

-----------------------------------------------------------------------------
State == LoadState(disk)

\* Store.Update's save: all of it, or a failure that changes nothing else.
Saved(s) == disk' = SaveState(disk, s) /\ UNCHANGED faults
SaveFails(s) ==
    /\ faults < MaxFaults /\ faults' = faults + 1
    /\ disk' \in PartlySaved(disk, s)

-----------------------------------------------------------------------------
Init ==
    /\ follows \in Follows
    /\ disk = EmptyDisk /\ dir = {} /\ launcher = Floor /\ record = None
    /\ up = FALSE /\ running = None /\ restarting = FALSE /\ activating = None
    /\ confirm = "done" /\ snapshot = NewState
    /\ faults = 0
    /\ wayBack = None /\ proven = {} /\ rejected = {}
    /\ trial = None /\ handovers = 0 /\ upgraded = FALSE /\ unstaged = {}

-----------------------------------------------------------------------------
(* handover.go.  exec is the staged release to run, None this launcher.    *)

Decision(s, v) == [state |-> s, exec |-> v]

\* Mutant: a start of a pending release is counted only when it is missing.
CountStartNot(s) == s

\* One more start of a pending release; the last one goes back.
CountStart(s) ==
    IF s.attempts + 1 < MaxAttempts
    THEN [s EXCEPT !.attempts = @ + 1] ELSE BackToLastGood(s)

\* The staged release, or the launcher when it does not verify.
Handover(s) ==
    IF s.current = Builtin THEN Decision(s, None)
    ELSE IF s.current \in dir THEN Decision(s, s.current)
    ELSE Decision([s EXCEPT !.current = Builtin, !.pending = None, !.attempts = 0,
                            !.lastGood = IF @ = s.current THEN Builtin ELSE @], None)

\* decide, from where the launcher is not the pending release: a newer
\* launcher wins unless the node installed it itself.
DecideStaged(s, followed) ==
    IF s.current = Builtin THEN Decision(s, None)
    ELSE IF launcher >= s.current /\ ~followed
    THEN Decision([NewState EXCEPT !.launcher = s.launcher], None)
    ELSE Handover(IF s.pending = s.current THEN CountStart(s) ELSE s)

Decide(s, followed) ==
    IF s.current = Builtin \/ (followed /\ s.current = launcher /\ s.pending = None)
    THEN Decision(s, None)
    ELSE IF s.pending = s.current /\ launcher = s.current
    THEN IF s.attempts + 1 < MaxAttempts
         THEN Decision(CountStart(s), None) ELSE DecideStaged(BackToLastGood(s), followed)
    ELSE DecideStaged(s, followed)

\* What the history makes of a state t that replaces s at a start.
StartHistory(s, d) ==
    LET t == d.state
    IN  /\ wayBack' = IF t.lastGood # s.lastGood /\ t.previous = None THEN None ELSE wayBack
        /\ rejected' = IF s.pending # None /\ t.pending = None /\ t.current # s.pending
                       THEN rejected \cup {s.pending} ELSE rejected
        /\ handovers' = IF d.exec # None /\ d.exec = trial /\ d.exec # s.lastGood
                        THEN handovers + 1 ELSE handovers
        /\ UNCHANGED <<proven, trial, upgraded, unstaged>>

\* Startup, and the node it ends in.  A failed save ends the process.
Startup ==
    LET s == [State EXCEPT !.launcher = launcher]
        d == Decide(s, record = launcher)
    IN  /\ ~up
        /\ \/ /\ IF d.state # State THEN Saved(d.state) ELSE UNCHANGED <<disk, faults>>
              /\ up' = TRUE
              /\ running' = IF d.exec = None THEN launcher ELSE d.exec
              /\ restarting' = FALSE /\ activating' = None
              /\ confirm' = "watching" /\ snapshot' = NewState
              /\ StartHistory(s, d)
           \/ /\ d.state # State /\ SaveFails(d.state)
              /\ UNCHANGED <<procVars, histVars>>
        /\ UNCHANGED <<follows, dir, launcher, record>>

\* The process ends: after the ordered shutdown a transition asked for, or
\* at any time by a crash, a kill or a power cut.
Ends ==
    /\ up' = FALSE
    /\ running' = None /\ restarting' = FALSE /\ activating' = None
    /\ confirm' = "done" /\ snapshot' = NewState
    /\ UNCHANGED <<follows, disk, dir, launcher, record, faults, histVars>>

Restart == up /\ restarting /\ Ends
Crash == up /\ Ends

-----------------------------------------------------------------------------
(* api.go.  Nothing is accepted once a transition has asked for a restart. *)

Stage(v) ==
    /\ up /\ ~restarting /\ v \notin dir
    /\ dir' = dir \cup {v} /\ unstaged' = unstaged \ {v}
    /\ UNCHANGED <<follows, disk, launcher, record, procVars, faults,
                   wayBack, proven, rejected, trial, handovers, upgraded>>

\* activate verifies the binary first, and saves later; a downgrade may be
\* allowed by the request.
Activate(v) ==
    /\ up /\ ~restarting /\ activating = None
    /\ v \in dir /\ v # running
    /\ activating' = v
    /\ UNCHANGED <<follows, disk, dir, launcher, record, up, running, restarting, confirm, snapshot,
                   faults, histVars>>

ActivateSave ==
    LET s == Activated(State, activating)
    IN  /\ up /\ activating # None
        /\ activating' = None
        /\ \/ restarting /\ UNCHANGED <<disk, restarting, faults, histVars>>
           \/ /\ ~restarting /\ Saved(s)
              /\ restarting' = TRUE
              /\ rejected' = rejected \ {activating}
              /\ trial' = activating /\ handovers' = 0
              /\ UNCHANGED <<wayBack, proven, upgraded, unstaged>>
           \/ ~restarting /\ SaveFails(s) /\ UNCHANGED <<restarting, histVars>>
        /\ UNCHANGED <<follows, dir, launcher, record, up, running, confirm, snapshot>>

Rollback ==
    LET s == State
        t == RolledBack(s)
    IN  /\ up /\ ~restarting /\ ~RollbackRefused(s, dir)
        /\ \/ /\ Saved(t)
              /\ restarting' = TRUE
              /\ rejected' = (rejected \cup {s.current}) \ {t.current, Builtin}
              /\ wayBack' = IF t.lastGood # s.lastGood THEN None ELSE wayBack
              /\ UNCHANGED <<proven, trial, handovers, upgraded, unstaged>>
           \/ SaveFails(t) /\ UNCHANGED <<restarting, histVars>>
        /\ UNCHANGED <<follows, dir, launcher, record, up, running, activating, confirm, snapshot>>

-----------------------------------------------------------------------------
(* confirm.go: Step reads the state and the backends, then decides under   *)
(* the store's lock, where it looks again whether the release is its own.  *)

confirmFrame == <<follows, launcher, record, up, running, activating>>

\* One look: every baseline backend healthy, one dead or the window passed, or
\* neither yet.  A look that finds a backend fetching its weights moves the
\* deadline on by the time since the look before, so no window ends then.
Undecided == {"watching", "fetching"}

ConfirmLook ==
    /\ up /\ confirm \in Undecided
    /\ confirm' \in IF Owns(State, running) THEN Undecided \cup {"confirming", "rolling"} ELSE {"done"}
    /\ UNCHANGED <<disk, dir, restarting, snapshot, faults, histVars, confirmFrame>>

\* The look at which the window ends at the latest.
WindowEnds == ConfirmLook /\ confirm = "watching" /\ confirm' \notin Undecided

Overtaken == restarting \/ ~Owns(State, running)

\* Mutant: it confirms the release it runs without looking again.
ConfirmSaveUnowned ==
    LET s == Confirmed([State EXCEPT !.current = running])
    IN  /\ up /\ confirm = "confirming"
        /\ Saved(s)
        /\ confirm' = "pruning" /\ snapshot' = s
        /\ wayBack' = s.previous /\ proven' = proven \cup {running} /\ trial' = None
        /\ UNCHANGED <<dir, restarting, rejected, handovers, upgraded, unstaged, confirmFrame>>

ConfirmSave ==
    LET s == Confirmed(State)
    IN  /\ up /\ confirm = "confirming"
        /\ \/ /\ Overtaken
              /\ confirm' = "done" /\ UNCHANGED <<disk, faults, snapshot, histVars>>
           \/ /\ ~Overtaken /\ SaveFails(s)
              /\ confirm' = "done" /\ UNCHANGED <<snapshot, histVars>>
           \/ /\ ~Overtaken /\ Saved(s)
              /\ confirm' = "pruning" /\ snapshot' = s
              /\ wayBack' = IF disk.lastGood = disk.current THEN wayBack ELSE disk.lastGood
              /\ proven' = proven \cup {running}
              /\ trial' = None
              /\ unstaged' = unstaged \cup ({running} \ dir)
              /\ UNCHANGED <<rejected, handovers, upgraded>>
        /\ UNCHANGED <<dir, restarting, confirmFrame>>

ConfirmRollback ==
    LET s == BackToLastGood(State)
    IN  /\ up /\ confirm = "rolling"
        /\ confirm' = "done"
        /\ \/ Overtaken /\ UNCHANGED <<disk, restarting, faults, histVars>>
           \/ /\ ~Overtaken /\ Saved(s)
              /\ restarting' = TRUE
              /\ rejected' = (rejected \cup {running}) \ {s.current}
              /\ UNCHANGED <<wayBack, proven, trial, handovers, upgraded, unstaged>>
           \/ ~Overtaken /\ SaveFails(s) /\ UNCHANGED <<restarting, histVars>>
        /\ UNCHANGED <<dir, snapshot, confirmFrame>>

\* Outside the lock, from the state that was confirmed.  A removal that
\* fails leaves the rest, and Step goes on.
PruneReleases ==
    LET kept == Prune(dir, snapshot)
    IN  /\ up /\ confirm = "pruning"
        /\ \/ dir' = kept /\ UNCHANGED faults
           \/ /\ faults < MaxFaults /\ faults' = faults + 1
              /\ \E v \in dir \ kept : dir' = kept \cup {w \in dir : w <= v}
        /\ confirm' = IF follows THEN "record" ELSE "done"
        /\ UNCHANGED <<disk, restarting, snapshot, histVars, confirmFrame>>

\* FollowCLI: the record, the launcher file, then the launcher's sha256 in
\* state.json; each may fail, the second before or after the rename.
FollowRecord ==
    /\ up /\ confirm = "record"
    /\ \/ /\ snapshot.current \in dir /\ launcher < snapshot.current
          /\ record' = snapshot.current /\ confirm' = "install" /\ UNCHANGED faults
       \/ /\ snapshot.current \in dir /\ launcher < snapshot.current
          /\ faults < MaxFaults /\ faults' = faults + 1
          /\ confirm' = "done" /\ UNCHANGED record
       \/ /\ snapshot.current \in dir => launcher >= snapshot.current
          /\ confirm' = "done" /\ UNCHANGED <<record, faults>>
    /\ UNCHANGED <<follows, disk, dir, launcher, up, running, restarting, activating, snapshot,
                   histVars>>

FollowInstall ==
    /\ up /\ confirm = "install"
    /\ \/ launcher' = snapshot.current /\ confirm' = "launcher" /\ UNCHANGED faults
       \/ /\ faults < MaxFaults /\ faults' = faults + 1
          /\ launcher' \in {launcher, snapshot.current} /\ confirm' = "done"
    /\ UNCHANGED <<follows, disk, dir, record, up, running, restarting, activating, snapshot,
                   histVars>>

FollowLauncher ==
    LET s == [State EXCEPT !.launcher = launcher]
    IN  /\ up /\ confirm = "launcher"
        /\ confirm' = "done"
        /\ \/ restarting /\ UNCHANGED <<disk, faults>>
           \/ ~restarting /\ (Saved(s) \/ SaveFails(s))
        /\ UNCHANGED <<dir, restarting, snapshot, histVars, confirmFrame>>

-----------------------------------------------------------------------------
(* The host.                                                               *)

\* A staged release is lost: its binary or its recorded sha256 is gone.
Damage(v) ==
    /\ v \in dir /\ faults < MaxFaults /\ faults' = faults + 1
    /\ dir' = dir \ {v} /\ unstaged' = unstaged \cup {v}
    /\ UNCHANGED <<follows, disk, launcher, record, procVars,
                   wayBack, proven, rejected, trial, handovers, upgraded>>

Upgrade(v) ==
    /\ v > launcher
    /\ launcher' = v /\ upgraded' = TRUE
    /\ UNCHANGED <<follows, disk, dir, record, procVars, faults,
                   wayBack, proven, rejected, trial, handovers, unstaged>>

ConfirmStep == ConfirmLook \/ ConfirmSave \/ ConfirmRollback \/ PruneReleases
FollowStep == FollowRecord \/ FollowInstall \/ FollowLauncher

Next ==
    \/ Startup \/ Restart \/ Crash
    \/ \E v \in Versions : Stage(v) \/ Activate(v) \/ Damage(v)
    \/ ActivateSave \/ Rollback
    \/ ConfirmStep \/ FollowStep
    \/ \E v \in Upgrades : Upgrade(v)

Spec == Init /\ [][Next]_vars

\* The service manager starts the node again, a restart that was asked for
\* happens, and the confirmer runs.  The time between looks that find nothing
\* fetching adds up to the window, however often something fetches in between.
Fairness ==
    /\ WF_vars(Startup) /\ WF_vars(Restart)
    /\ SF_vars(WindowEnds) /\ WF_vars(ConfirmSave) /\ WF_vars(ConfirmRollback)

FairSpec == Spec /\ Fairness

-----------------------------------------------------------------------------
(* Properties.                                                             *)

Names == Versions \cup {Builtin}

TypeOK ==
    /\ disk \in [current : Names, lastGood : Names, pending : Versions \cup {None},
                 attempts : 0..MaxAttempts - 1,
                 launcher : Versions \cup Upgrades \cup {Floor, None},
                 version : Names \cup {None}, before : Names \cup {None}]
    /\ dir \subseteq Versions
    /\ launcher \in Versions \cup Upgrades \cup {Floor}
    /\ record \in Versions \cup {None}
    /\ {follows, up, restarting, upgraded} \subseteq BOOLEAN
    /\ running \in Versions \cup Upgrades \cup {Floor, None}
    /\ activating \in Versions \cup {None} /\ trial \in Versions \cup {None}
    /\ confirm \in Undecided \cup {"confirming", "rolling", "pruning", "record", "install",
                                   "launcher", "done"}
    /\ {snapshot.current, snapshot.lastGood} \subseteq Names /\ snapshot.pending = None
    /\ faults \in 0..MaxFaults
    /\ wayBack \in Names \cup {None}
    /\ proven \subseteq Versions /\ rejected \subseteq Versions /\ unstaged \subseteq Versions

\* previousRecord: whatever the point at which a save stopped, what is read
\* as the release before last good is that release, or nothing.
WayBackTrue == LoadPrevious(disk) \in {None, wayBack}

\* The node falls back only to what has confirmed on this host: last good,
\* and the release before it, confirmed here once or are the builtin binary.
FallbackProven ==
    {disk.lastGood, LoadPrevious(disk)} \subseteq proven \cup {Builtin, None}

\* Prune never takes away what a rollback needs, whatever is staged and
\* activated while it works from the state it confirmed.  (A launcher whose
\* version is activated runs that release itself, staged or not.)
FallbackStaged ==
    {disk.lastGood, LoadPrevious(disk)} \subseteq dir \cup unstaged \cup {Builtin, None}

\* docs/releases.md: a release that does not confirm is started twice; the
\* third start runs last good.  No crash, failed save or restart adds a start.
TrialBounded == handovers <= MaxAttempts - 1

\* The way back is safe: true to what was last good, proven here, still on
\* disk, and a trial on top of it bounded, whatever stopped half way.
WaysBackSafe == TypeOK /\ WayBackTrue /\ FallbackProven /\ FallbackStaged /\ TrialBounded

\* A release that was rolled back, by the operator, the confirmer or the
\* start count, does not come back by itself: a later start runs something
\* else until it is activated again, or it is the launcher itself.
RejectedStaysOut ==
    [][~up /\ up' /\ running' # launcher => running' \notin rejected']_vars

\* While every save succeeds, a pending release is decided, however often the
\* node crashes and however often its backends fetch: it confirms, is rolled
\* back or is replaced.  Only a fetch the confirmer sees at every look for
\* ever keeps it pending.
PendingDecided ==
    []<>(confirm # "fetching") =>
      \A v \in Versions : disk.pending = v ~> (disk.pending # v \/ faults > 0)

\* state.go, Prune: it "keeps the current" release.
PruneKeepsCurrent ==
    [][confirm = "pruning" /\ confirm' \in {"record", "done"} /\ up' /\ disk.current \in dir
       => disk.current \in dir']_vars

-----------------------------------------------------------------------------
\* Bound of a run: two releases on either kind of install, with a fault or an
\* upgrade out of band; and a third one on a host that has had neither.
OneMishap ==
    /\ upgraded => faults = 0
    /\ 4 \in dir => ~follows /\ ~upgraded /\ faults = 0
=============================================================================
