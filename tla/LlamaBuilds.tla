----------------------------- MODULE LlamaBuilds -----------------------------
(***************************************************************************)
(* The llama.cpp builds of a Mac install (internal/node/llama.go and       *)
(* internal/setup/install): one build per tag under the llama root.  A     *)
(* release is pinned to a tag; staging it fetches that build, the node     *)
(* runs the build of the release it is, and a confirm removes the builds   *)
(* no kept release is pinned to.  Staging (a request) and the confirmer (a *)
(* goroutine) run side by side, and the process may die at any step.       *)
(***************************************************************************)
EXTENDS Naturals, FiniteSets

CONSTANTS LlRelease,    \* releases; 0 is the launcher's own build, the floor
          PinOf,        \* the tag each release is pinned to, NoPin before releases carried one
          NoPin,
          Configured,   \* the tag the config names
          Attempts      \* tries of a download

VARIABLES llState,    \* state.json: current, lastGood, pending, and previous as a set of at most one
          llRunning,  \* this process: the release it is, the tag its backends run, whether it is restarting
          staged,     \* the releases in the releases directory
          builds,     \* the tags with a complete build under the root
          stage,      \* the stage request being served: [release, at, try]
          confirm,    \* the confirmer: [at, state it saved]
          ranOn       \* history: the tag each release was confirmed on

llamaVars == <<llState, llRunning, staged, builds, stage, confirm, ranOn>>

NotStaging == [release |-> 0, at |-> "none", try |-> 0]
Untouched == [current |-> 0, lastGood |-> 0, previous |-> {}, pending |-> 0]
NotConfirming == [at |-> "none", state |-> Untouched]

LlamaInit ==
  /\ llState = Untouched
  /\ staged = {0} /\ builds = {Configured, PinOf[0]} \ {NoPin}
  /\ llRunning = [release |-> 0, tag |-> IF PinOf[0] = NoPin THEN Configured ELSE PinOf[0], restarting |-> FALSE]
  /\ stage = NotStaging /\ confirm = NotConfirming
  /\ ranOn = [r \in LlRelease |-> IF r = 0 THEN PinOf[0] ELSE NoPin]

\* The build a release runs: its pin's when that build is here, else the one
\* the config names.
FollowPin(r) == IF PinOf[r] # NoPin /\ PinOf[r] \in builds THEN PinOf[r] ELSE Configured

-----------------------------------------------------------------------------
(* Staging                                                                 *)

StageRequest(r) ==
  /\ stage = NotStaging /\ r \notin staged    \* an intact stage is left as it is
  /\ stage' = [release |-> r, at |-> "prepare", try |-> 1]
  /\ UNCHANGED <<llState, llRunning, staged, builds, confirm, ranOn>>

\* prepareLlama: nothing to fetch before the pin, or when the build is here.
PrepareNothing ==
  /\ stage.at = "prepare" /\ (PinOf[stage.release] = NoPin \/ PinOf[stage.release] \in builds)
  /\ stage' = [stage EXCEPT !.at = "check"]
  /\ UNCHANGED <<llState, llRunning, staged, builds, confirm, ranOn>>

\* A download that verifies, unpacked beside the others and renamed in place.
FetchBuild ==
  /\ stage.at = "prepare" /\ PinOf[stage.release] \notin builds \cup {NoPin}
  /\ builds' = builds \cup {PinOf[stage.release]}
  /\ stage' = [stage EXCEPT !.at = "check"]
  /\ UNCHANGED <<llState, llRunning, staged, confirm, ranOn>>

\* A download that fails is tried again, unless a retry cannot help or the
\* tries are used up; then the stage fails and nothing of it is left.
FetchFails ==
  /\ stage.at = "prepare" /\ PinOf[stage.release] \notin builds \cup {NoPin}
  /\ \/ stage' = NotStaging
     \/ stage.try < Attempts /\ stage' = [stage EXCEPT !.try = @ + 1]
  /\ UNCHANGED <<llState, llRunning, staged, builds, confirm, ranOn>>

\* The engine requirements are judged, and the release renamed into place.
StageChecked ==
  /\ stage.at = "check"
  /\ \/ staged' = staged \cup {stage.release}
     \/ UNCHANGED staged
  /\ stage' = NotStaging
  /\ UNCHANGED <<llState, llRunning, builds, confirm, ranOn>>

-----------------------------------------------------------------------------
(* The process.  Activation and rollback save state.json and restart; until *)
(* the restart no other transition is accepted.                            *)

Transition(s) ==
  /\ ~llRunning.restarting
  /\ llState' = s
  /\ llRunning' = [llRunning EXCEPT !.restarting = TRUE]
  /\ UNCHANGED <<staged, builds, stage, confirm, ranOn>>

ActivateRelease(r) ==
  /\ r \in staged /\ r # llRunning.release
  /\ Transition([llState EXCEPT !.current = r, !.pending = r])

\* An unconfirmed release goes back to the last good one, a confirmed one to
\* the release before it, once.  The confirmer's own rollback is the first.
RollBack ==
  \/ /\ llState.pending # 0 \/ llState.current # llState.lastGood
     /\ Transition([llState EXCEPT !.current = llState.lastGood, !.pending = 0])
  \/ /\ llState.pending = 0 /\ llState.current = llState.lastGood
     /\ \E p \in llState.previous \cap staged :
          Transition([current |-> p, lastGood |-> p, previous |-> {}, pending |-> 0])

\* The launcher: a pending release out of starts gives way to the last good
\* one, and a release that is not staged whole to the launcher itself.
Decided(s) ==
  IF s.current \in staged THEN s
  ELSE [s EXCEPT !.current = 0, !.pending = 0, !.lastGood = IF @ = s.current THEN 0 ELSE @]

\* The restart, or a crash at any step: the release the launcher decides on
\* starts, on the build it finds.
StartRelease ==
  /\ \/ llState' = Decided(llState)
     \/ /\ llState.pending # 0
        /\ llState' = Decided([llState EXCEPT !.current = llState.lastGood, !.pending = 0])
  /\ llRunning' = [release |-> llState'.current, tag |-> FollowPin(llState'.current), restarting |-> FALSE]
  /\ stage' = NotStaging /\ confirm' = NotConfirming
  /\ UNCHANGED <<staged, builds, ranOn>>

-----------------------------------------------------------------------------
(* Confirmation                                                            *)

ConfirmRelease ==
  /\ confirm.at = "none" /\ ~llRunning.restarting
  /\ llState.pending # 0 /\ llState.pending = llState.current /\ llState.pending = llRunning.release
  /\ llState' = [llState EXCEPT !.previous = IF llState.lastGood # llState.current THEN {llState.lastGood} ELSE @,
                                !.lastGood = llState.current, !.pending = 0]
  /\ ranOn' = [ranOn EXCEPT ![llRunning.release] = llRunning.tag]
  /\ confirm' = [at |-> "releases", state |-> llState']
  /\ UNCHANGED <<llRunning, staged, builds, stage>>

Kept(s) == {0, s.current, s.lastGood} \cup s.previous

\* The kept releases and the newest other one stay.
PruneStaged ==
  /\ confirm.at = "releases"
  /\ LET other == staged \ Kept(confirm.state)
     IN staged' = staged \ {r \in other : \E newer \in other : newer > r}
  /\ confirm' = [confirm EXCEPT !.at = "builds"]
  /\ UNCHANGED <<llState, llRunning, builds, stage, ranOn>>

\* A mutant: the release before the last good one is forgotten.
KeptLlamaNoPrevious(s) == {PinOf[r] : r \in {llRunning.release, 0, s.current, s.lastGood}} \cup {Configured}

\* Every build a rollback or a restart could run, and every configured one.
KeptLlama(s) == {PinOf[r] : r \in {llRunning.release} \cup Kept(s)} \cup {Configured}

RemoveBuilds(keep) == builds' = builds \cap keep

\* With a release whose pin cannot be read, nothing is removed.
PruneLlama ==
  /\ confirm.at = "builds"
  /\ IF Kept(confirm.state) \subseteq staged THEN RemoveBuilds(KeptLlama(confirm.state)) ELSE UNCHANGED builds
  /\ confirm' = NotConfirming
  /\ UNCHANGED <<llState, llRunning, staged, stage, ranOn>>

LlamaNext ==
  \/ \E r \in LlRelease \ {0} : StageRequest(r) \/ ActivateRelease(r)
  \/ PrepareNothing \/ FetchBuild \/ FetchFails \/ StageChecked
  \/ RollBack \/ StartRelease
  \/ ConfirmRelease \/ PruneStaged \/ PruneLlama

-----------------------------------------------------------------------------
\* The engine is there for every way on: the build this process runs, which a
\* backend restart executes again, and the builds the last good and the
\* previous release were confirmed on are still under the root, whatever was
\* staged, activated, rolled back or pruned since.
WayBackEngine ==
  /\ {Configured, llRunning.tag} \subseteq builds
  /\ \A r \in {llState.lastGood} \cup llState.previous : ranOn[r] \in builds \cup {NoPin}
=============================================================================
