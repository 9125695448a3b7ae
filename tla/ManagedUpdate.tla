--------------------------- MODULE ManagedUpdate ---------------------------
(***************************************************************************)
(* A release update on a Docker install (internal/update/api.go,           *)
(* handover.go, confirm.go, image.go; internal/enginesync/enginesync.go).  *)
(*                                                                         *)
(* The node saves what it wants in state.json and asks the host's helper   *)
(* for an image; the helper, another process, makes the compose file's     *)
(* image follow the state and restarts the node on it.  They share two     *)
(* directories and no lock.  A node that is still running HelperWait after *)
(* it saved a transition takes it back (waits: one goroutine each).  The   *)
(* helper keeps its own record, saved after the swap it is about.          *)
(* Versions are numbers; 0 is "builtin", which for the helper is Original. *)
(***************************************************************************)
EXTENDS Naturals, Sequences

CONSTANTS Original,     \* the image tag the install started with
          Newest,       \* releases are Original..Newest
          MaxActs,      \* bound on stages, activations and rollbacks
          MaxFaults,    \* bound on failures of pulls, of docker compose and of the node
          MaxCrashes,   \* bound on crashes of the host
          HistoryMax, MaxAttempts, Rounds, Idle

VARIABLES st,        \* state.json: current, lastGood, previous, pending, attempts
          staged,    \* releases staged in the node's directory
          request, result,   \* engine-request.json and engine-result.json
          staging,   \* the stage in progress on the node
          container, \* the release the container's image carries
          up, waits, confirming,
          image,     \* the tag in the compose file
          images,    \* images on the host
          record,    \* sync.json
          cli,       \* the host's CLI
          helper,    \* a run of engine-sync: where it is, and what it has read
          acts, faults, crashes

nodeVs == <<st, staged, request, staging, waits, confirming>>
hostVs == <<result, image, images, record, cli, helper>>
manVars == <<nodeVs, hostVs, container, up, acts, faults, crashes>>

Release == Original..Newest
NoRequest == [version |-> 0, id |-> 0]

\* A fresh install whose node has just staged the next release.
ManInit ==
  /\ st = [current |-> 0, lastGood |-> 0, previous |-> 0, hasPrevious |-> FALSE, pending |-> 0, attempts |-> 0]
  /\ staged = {Original + 1}
  /\ request = [version |-> Original + 1, id |-> 1]
  /\ result = [version |-> request.version, id |-> request.id, ok |-> TRUE]
  /\ staging = NoRequest
  /\ container = Original /\ up = TRUE /\ waits = {} /\ confirming = FALSE
  /\ image = Original /\ images = {Original} \cup staged
  /\ record = [history |-> <<>>, pulled |-> staged, prepared |-> request.version]
  /\ cli = Original /\ helper = Idle
  /\ acts = 0 /\ faults = 0 /\ crashes = 0

-----------------------------------------------------------------------------
\* The node.

\* stage and ImageHelper.Prepare: one at a time; every request has a new id.
Stage(v) ==
  /\ up /\ staging = NoRequest /\ acts < MaxActs /\ acts' = acts + 1
  /\ request' = [version |-> v, id |-> request.id + 1] /\ staging' = request'
  /\ UNCHANGED <<st, staged, waits, confirming, hostVs, container, up, faults, crashes>>

\* Only an answer to this very request counts.
StageAnswered ==
  /\ up /\ staging # NoRequest
  /\ result.id = staging.id /\ result.version = staging.version
  /\ staged' = IF result.ok THEN staged \cup {staging.version} ELSE staged
  /\ staging' = NoRequest
  /\ UNCHANGED <<st, request, waits, confirming, hostVs, container, up, acts, faults, crashes>>

StageTimeout ==
  /\ up /\ staging # NoRequest /\ faults < MaxFaults /\ faults' = faults + 1
  /\ staging' = NoRequest
  /\ UNCHANGED <<st, staged, request, waits, confirming, hostVs, container, up, acts, crashes>>

\* restart on a managed install: a goroutine remembers the state before and
\* the one saved.
Await(prior, saved) == waits' = waits \cup {[prior |-> prior, saved |-> saved]}

\* activate: staged, prepared by the helper's last answer, and not what runs.
Activate(v) ==
  /\ up /\ acts < MaxActs /\ acts' = acts + 1
  /\ v \in staged /\ result.ok /\ result.version = v /\ v # container
  /\ st' = [st EXCEPT !.current = v, !.pending = v, !.attempts = 0]
  /\ Await(st, st')
  /\ UNCHANGED <<staged, request, staging, confirming, hostVs, container, up, faults, crashes>>

\* rollback: leave what is not confirmed, else the release before last good.
Rollback ==
  /\ up /\ acts < MaxActs /\ acts' = acts + 1
  /\ \/ /\ st.pending # 0 \/ st.current # st.lastGood
        /\ st' = [st EXCEPT !.current = st.lastGood, !.pending = 0, !.attempts = 0]
     \/ /\ st.pending = 0 /\ st.current = st.lastGood /\ st.hasPrevious
        /\ st.previous \in staged \cup {0}
        /\ st' = [st EXCEPT !.current = st.previous, !.lastGood = st.previous, !.hasPrevious = FALSE, !.previous = 0]
  /\ Await(st, st')
  /\ UNCHANGED <<staged, request, staging, confirming, hostVs, container, up, faults, crashes>>

SameTransition(s, saved) ==
  s.current = saved.current /\ s.lastGood = saved.lastGood /\ s.pending = saved.pending

\* awaitHelper, when HelperWait is over and this process still runs.
AwaitHelper(w) ==
  /\ up /\ w \in waits /\ waits' = waits \ {w}
  /\ st' = IF SameTransition(st, w.saved) THEN w.prior ELSE st
  /\ UNCHANGED <<staged, request, staging, confirming, hostVs, container, up, acts, faults, crashes>>

\* The confirmer of a pending release that runs.
Owns == st.pending # 0 /\ st.pending = st.current /\ st.pending = container

Confirm ==
  /\ up /\ confirming /\ confirming' = FALSE
  /\ st' = IF Owns
           THEN [st EXCEPT !.previous = IF st.lastGood # st.current THEN st.lastGood ELSE @,
                           !.hasPrevious = @ \/ st.lastGood # st.current,
                           !.lastGood = st.current, !.pending = 0, !.attempts = 0]
           ELSE st
  /\ UNCHANGED <<staged, request, staging, waits, hostVs, container, up, acts, faults, crashes>>

\* A baseline backend is dead, or the window is over: back to last good, and
\* the restart is the helper's.
ConfirmFails ==
  /\ up /\ confirming /\ confirming' = FALSE /\ faults < MaxFaults /\ faults' = faults + 1
  /\ st' = IF Owns THEN [st EXCEPT !.current = st.lastGood, !.pending = 0, !.attempts = 0] ELSE st
  /\ UNCHANGED <<staged, request, staging, waits, hostVs, container, up, acts, crashes>>

\* DecideManaged counts the starts of a pending release that runs.
DecideManaged(s, running) ==
  IF s.current = 0 \/ s.pending # s.current \/ running # s.current THEN s
  ELSE IF s.attempts + 1 < MaxAttempts THEN [s EXCEPT !.attempts = @ + 1]
  ELSE [s EXCEPT !.current = s.lastGood, !.pending = 0, !.attempts = 0]

\* Startup, and WatchPending for a pending release that is not the one running.
Start ==
  /\ ~up /\ up' = TRUE
  /\ LET s == DecideManaged(st, container)
     IN /\ st' = s
        /\ waits' = IF s.pending # 0 /\ s.pending # container
                    THEN {[prior |-> [s EXCEPT !.current = s.lastGood, !.pending = 0, !.attempts = 0], saved |-> s]}
                    ELSE {}
        /\ confirming' = (s.pending # 0 /\ s.pending = s.current /\ s.pending = container)
  /\ UNCHANGED <<staged, request, staging, hostVs, container, acts, faults, crashes>>

\* What ends with the process.
Down == up' = FALSE /\ waits' = {} /\ confirming' = FALSE /\ staging' = NoRequest

NodeCrash ==
  /\ up /\ faults < MaxFaults /\ faults' = faults + 1
  /\ Down
  /\ UNCHANGED <<st, staged, request, hostVs, container, acts, crashes>>

-----------------------------------------------------------------------------
\* The helper.

Ran(r) == {Original} \cup {r.history[i] : i \in DOMAIN r.history}
MayMoveTo(r, from, to) == to >= from \/ to \in Ran(r)
Tag(v) == IF v = 0 THEN Original ELSE v
\* Mutant: never back to a release that ran before.
TargetForward == IF Tag(helper.st.current) < image THEN image ELSE Tag(helper.st.current)
Target == Tag(helper.st.current)

\* Sync: a run reads the state, the request and its own record.
SyncStart ==
  /\ helper = Idle
  /\ helper' = [at |-> "answer", st |-> st, req |-> request, rec |-> record, round |-> 1]
  /\ UNCHANGED <<nodeVs, container, up, result, image, images, record, cli, acts, faults, crashes>>

\* prepare: an image on the host is used as it is, another is pulled.
Prepared(v, ok) ==
  /\ ok \/ faults < MaxFaults
  /\ faults' = IF ok THEN faults ELSE faults + 1
  /\ images' = IF ok THEN images \cup {v} ELSE images

PulledWith(r, v) == IF v \in images THEN r.pulled ELSE r.pulled \cup {v}

\* answer: the request there is now, once, whatever the outcome.
Answer(ok) ==
  /\ helper # Idle /\ helper.at = "answer"
  /\ IF request.id = 0 \/ result.id = request.id
     THEN ok /\ helper' = [helper EXCEPT !.at = "follow"] /\ UNCHANGED <<result, images, faults>>
     ELSE LET may == MayMoveTo(helper.rec, image, request.version)
              v   == request.version
          IN /\ IF may THEN Prepared(v, ok) ELSE ok /\ UNCHANGED <<images, faults>>
             /\ result' = [version |-> v, id |-> request.id, ok |-> ok /\ may]
             /\ helper' = [helper EXCEPT !.at = "follow",
                             !.rec.pulled = IF ok /\ may THEN PulledWith(helper.rec, v) ELSE @,
                             !.rec.prepared = IF ok /\ may THEN v ELSE @]
  /\ UNCHANGED <<nodeVs, container, up, image, record, cli, acts, crashes>>

\* follow: the image is the state's, if the helper may go there and has it.
FollowNothing ==
  /\ helper # Idle /\ helper.at = "follow"
  /\ Target = image
  /\ helper' = [helper EXCEPT !.at = "cli"]
  /\ UNCHANGED <<nodeVs, container, up, result, image, images, record, cli, acts, faults, crashes>>

FollowRefused ==
  /\ helper # Idle /\ helper.at = "follow"
  /\ Target # image /\ ~MayMoveTo(helper.rec, image, Target)
  /\ helper' = [helper EXCEPT !.at = "gc"]
  /\ UNCHANGED <<nodeVs, container, up, result, image, images, record, cli, acts, faults, crashes>>

\* prepare, and the compose file rewritten with a backup.
FollowSwap(ok) ==
  /\ helper # Idle /\ helper.at = "follow"
  /\ Target # image /\ MayMoveTo(helper.rec, image, Target)
  /\ Prepared(Target, ok)
  /\ IF ok
     THEN /\ image' = Target
          /\ helper' = [at |-> "up", st |-> helper.st, req |-> helper.req, round |-> helper.round, was |-> image,
                        rec |-> [helper.rec EXCEPT !.pulled = PulledWith(helper.rec, Target)]]
     ELSE helper' = [helper EXCEPT !.at = "gc"] /\ UNCHANGED image
  /\ UNCHANGED <<nodeVs, container, up, result, record, cli, acts, crashes>>

\* docker compose up: the node restarts on the image, or the file is put back.
ComposeUp(ok) ==
  /\ helper # Idle /\ helper.at = "up"
  /\ IF ok
     THEN /\ container' = image /\ Down
          /\ helper' = [helper EXCEPT !.at = "record"]
          /\ UNCHANGED <<image, faults>>
     ELSE /\ faults < MaxFaults /\ faults' = faults + 1
          /\ image' = helper.was
          /\ helper' = [helper EXCEPT !.at = "gc"]
          /\ UNCHANGED <<container, up, waits, confirming, staging>>
  /\ UNCHANGED <<st, staged, request, result, images, record, cli, acts, crashes>>

\* addHistory: newest last, at most historyMax.
AddHistory(h, v) ==
  LET without == SelectSeq(h, LAMBDA x : x # v)
      all     == Append(without, v)
  IN IF Len(all) > HistoryMax THEN SubSeq(all, Len(all) - HistoryMax + 1, Len(all)) ELSE all

SaveSwap ==
  /\ helper # Idle /\ helper.at = "record"
  /\ LET r == [helper.rec EXCEPT !.history = AddHistory(@, image), !.prepared = IF @ = image THEN 0 ELSE @]
     IN record' = r /\ helper' = [helper EXCEPT !.at = "cli", !.rec = r]
  /\ UNCHANGED <<nodeVs, container, up, result, image, images, cli, acts, faults, crashes>>

\* selfUpdate: the host's CLI follows a release the node confirmed, forward only.
SelfUpdate ==
  /\ helper # Idle /\ helper.at = "cli"
  /\ cli' = IF /\ helper.st.current # 0 /\ helper.st.pending = 0
               /\ helper.st.lastGood = helper.st.current /\ image = helper.st.current
               /\ cli < helper.st.current
            THEN helper.st.current ELSE cli
  /\ helper' = [helper EXCEPT !.at = "gc"]
  /\ UNCHANGED <<nodeVs, container, up, result, image, images, record, acts, faults, crashes>>

LastTwo(h) == {h[i] : i \in {j \in DOMAIN h : j > Len(h) - 2}}

GcKeepsOne(r) == {image} \cup LastTwo(r.history)

\* gc: images the helper pulled that nothing needs.
Keep(r) == {image, Original, r.prepared} \cup LastTwo(r.history)

\* docker image rm: refused for the image of a container, which stays pulled.
Removed(r) == r.pulled \ (Keep(r) \cup {container})

Gc ==
  /\ helper # Idle /\ helper.at = "gc"
  /\ images' = images \ Removed(helper.rec)
  /\ helper' = [helper EXCEPT !.at = "save", !.rec.pulled = @ \ Removed(helper.rec)]
  /\ UNCHANGED <<nodeVs, container, up, result, image, record, cli, acts, faults, crashes>>

\* The record is saved after the removals, which a crash may have left it
\* without; and the run starts over while the node changed something meanwhile.
SaveRecord ==
  /\ helper # Idle /\ helper.at = "save"
  /\ record' = helper.rec
  /\ helper' = IF helper.round < Rounds /\ (st # helper.st \/ request # helper.req)
               THEN [at |-> "answer", st |-> st, req |-> request, rec |-> helper.rec,
                     round |-> helper.round + 1]
               ELSE Idle
  /\ UNCHANGED <<nodeVs, container, up, result, image, images, cli, acts, faults, crashes>>

\* The host goes down: the node and the helper with it, the files stay, and
\* docker starts the container it had.
HostCrash ==
  /\ crashes < MaxCrashes /\ crashes' = crashes + 1
  /\ Down /\ helper' = Idle
  /\ UNCHANGED <<st, staged, request, container, result, image, images, record, cli, acts, faults>>

ManNext ==
  \/ \E v \in Release : Stage(v)
  \/ StageAnswered
  \/ StageTimeout
  \/ \E v \in Release : Activate(v)
  \/ Rollback
  \/ \E w \in waits : AwaitHelper(w)
  \/ Confirm
  \/ ConfirmFails
  \/ Start
  \/ NodeCrash
  \/ SyncStart
  \/ \E ok \in BOOLEAN : Answer(ok)
  \/ FollowNothing
  \/ FollowRefused
  \/ \E ok \in BOOLEAN : FollowSwap(ok)
  \/ \E ok \in BOOLEAN : ComposeUp(ok)
  \/ SaveSwap
  \/ SelfUpdate
  \/ Gc
  \/ SaveRecord
  \/ HostCrash

\* The node is restarted by docker, its goroutines and timers run; the helper
\* is run by a timer and ends each run.  Operators and faults are free.
ManFairness ==
  /\ WF_manVars(StageAnswered) /\ WF_manVars(Start)
  /\ WF_manVars(\E w \in waits : AwaitHelper(w))
  /\ SF_manVars(SyncStart) /\ WF_manVars(Answer(TRUE)) /\ WF_manVars(FollowNothing \/ FollowRefused)
  /\ WF_manVars(FollowSwap(TRUE)) /\ WF_manVars(ComposeUp(TRUE))
  /\ WF_manVars(SaveSwap) /\ WF_manVars(SelfUpdate) /\ WF_manVars(Gc) /\ WF_manVars(SaveRecord)

ManSpec == ManInit /\ [][ManNext]_manVars /\ ManFairness
-----------------------------------------------------------------------------
ManTypeOK ==
  /\ st.current \in 0..Newest /\ st.lastGood \in 0..Newest /\ st.pending \in {0, st.current}
  /\ st.attempts < MaxAttempts
  /\ {container, image, cli} \cup images \cup record.pulled \cup staged \subseteq Release
  /\ Len(record.history) <= HistoryMax

\* In the end the compose file names what state.json does, however the waits
\* of the node, the runs of the helper, their faults and crashes fall
\* together, unless that is an older release the helper has no record of; and
\* the container runs it, unless the host went down in the middle of a swap.
ImageFollows ==
  <>[](\/ /\ image = Tag(st.current)
          /\ crashes = 0 => container = image
       \/ ~MayMoveTo(record, image, Tag(st.current)))

\* The image a record names as prepared is on the host, if it is for the node's
\* last stage.
PreparedKept(r) == result.ok /\ r.prepared = result.version => r.prepared \in images \cup {0}

\* Wherever a run of the helper ended, the image of the compose file is on the
\* host, and so are the one it replaced while a swap to it can still be taken
\* back, and the one prepared for the node's last stage as long as the record
\* names it, on disk and in the run.  (After a crash between the removals of gc
\* and the save, the record may still name the image of an earlier stage, gone.)
ImagesKept ==
  /\ image \in images /\ container \in images
  /\ helper # Idle /\ helper.at = "up" => helper.was \in images
  /\ PreparedKept(record)
  /\ helper # Idle => PreparedKept(helper.rec)

\* The last two releases the host ran can be gone back to without a pull.
RanKept == LastTwo(record.history) \subseteq images

\* The host's CLI, which is the helper too, only moves to a release the node
\* had confirmed when the run read its state.
CliConfirmed ==
  [][cli' # cli => /\ cli' > cli
                   /\ helper.st.pending = 0 /\ helper.st.lastGood = cli'
                   /\ cli' \in images]_manVars

=============================================================================
