------------------------------ MODULE HostSetup ------------------------------
(***************************************************************************)
(* What `viiwork init`, `viiwork uninstall`, `viiwork stop` and `viiwork   *)
(* start` do to one host: the wizard's questions, the manifest-first       *)
(* write, the engine helper and the node being started, and the way back.  *)
(* A command may be killed between any two of its steps; the host may      *)
(* boot, or its user log in, at any time; the engine helper acts by        *)
(* itself; and the operator may put files of their own at these paths.     *)
(*                                                                         *)
(* A path is one of the names below: "unit" stands for the helper's three  *)
(* units, "bak" for the backups it keeps.  Of a file only its owner is     *)
(* kept: the operator, the install, or, of the binary, an operator's that  *)
(* a copy replaced and one the added helper put there that no manifest     *)
(* claims.  The config directory, which also holds the manifest, is left   *)
(* out: uninstall removes it only when it is empty.                        *)
(***************************************************************************)
EXTENDS Naturals, Sequences, FiniteSets, SequencesExt

CONSTANTS Weight,        \* the models found in the models directory
          Card,          \* the host's GPUs
          OperatorPath,  \* paths where the operator may have something already
          MaxStuck       \* paths one uninstall cannot remove

VARIABLES platform,   \* "linux" or "darwin"
          disk,       \* who owns what is at each path
          engine,     \* a llama-server of the pin is under the llama root
          manifest,   \* install.json, or NoManifest
          conf,       \* what the config on disk says
          node,       \* the node's container or launch agent
          helper,     \* the engine helper's units: "off", "enabled" or "on"
          cmd,        \* the command that is running, and where it is
          asked,      \* what the wizard's answers decided so far
          todo,       \* paths the running command has yet to write or remove
          got,        \* paths it wrote (init), or could not remove (uninstall)
          cancelled,  \* Ctrl-C during the write
          theirs,     \* the operator's files an install must leave alone
          stopped,    \* `viiwork stop` succeeded, and nothing was to start it since
          cut,        \* a command on this install was killed or stopped half-way
          unrecorded  \* a killed or failed init left the helper running and not recorded

setupVars == <<platform, disk, engine, manifest, conf, node, helper, cmd, asked, todo, got,
               cancelled, theirs, stopped, cut, unrecorded>>
hostState == <<disk, engine, manifest, conf, node, helper>>

Path == {"config", "env", "compose", "unit", "plist", "stateDir", "engDir", "llama", "binary", "bak"}
NoManifest == [paths |-> {}, runs |-> FALSE, helper |-> FALSE, written |-> FALSE]
NoAnswers == [step |-> "hardware", image |-> FALSE, placed |-> <<>>, shared |-> FALSE,
              secured |-> FALSE]
Questions == {"hardware", "models", "layout", "mesh", "updates", "naming", "confirm"}
NoConfig == [secured |-> FALSE, shared |-> FALSE]
Exists(p) == disk[p] # "absent"

\* The manifest of a Docker install made before the engine helper existed.  It
\* claims the binary unless there was one already, or the copy was not reached.
OldManifest(claimed) == [paths |-> {"config", "compose", "stateDir"} \cup claimed, runs |-> TRUE,
                         helper |-> FALSE, written |-> TRUE]

SetupInit ==
  /\ \E operators \in SUBSET OperatorPath, old \in BOOLEAN, claimed \in SUBSET {"binary"} :
       /\ manifest = IF old THEN OldManifest(claimed) ELSE NoManifest
       /\ disk = [p \in Path |-> IF p \in manifest.paths THEN "install"
                                 ELSE IF p \notin operators THEN "absent"
                                 ELSE IF old /\ p = "binary" THEN "replaced" ELSE "operator"]
       /\ theirs = {p \in Path : disk[p] \in {"operator", "replaced"}}
       /\ platform \in IF old THEN {"linux"} ELSE {"linux", "darwin"}
       /\ node = IF old THEN "up" ELSE "none"
  /\ engine = (disk["llama"] = "operator")
  /\ conf = NoConfig
  /\ helper = "off" /\ cmd = "none" /\ asked = NoAnswers /\ todo = <<>> /\ got = {}
  /\ cancelled = FALSE /\ stopped = FALSE /\ cut = FALSE /\ unrecorded = FALSE

-----------------------------------------------------------------------------
(* The end of a command: with nothing left half-done, or early.            *)
Return == /\ cmd' = "none" /\ asked' = NoAnswers /\ todo' = <<>> /\ got' = {} /\ cancelled' = FALSE
Done == Return /\ UNCHANGED <<platform, theirs, stopped, cut, unrecorded>>
Stop1 == Return /\ cut' = TRUE /\ UNCHANGED <<platform, theirs, stopped, unrecorded>>

GoTo(step) == cmd' = step /\ UNCHANGED <<platform, asked, todo, got, cancelled, theirs, stopped, cut, unrecorded>>

\* The same, for a step that is there to start something.
Starting(step) == cmd' = step /\ stopped' = FALSE /\ UNCHANGED <<platform, asked, todo, got, cancelled, theirs, cut, unrecorded>>

-----------------------------------------------------------------------------
(* `viiwork init`                                                          *)

\* Nothing of an install, nor of a node, may be here.
Preflight == \A f \in {"config", "env", "compose"} : ~Exists(f)
PreflightMac == \A f \in {"config", "plist"} : ~Exists(f)

StartInit ==
  /\ cmd = "none" /\ ~manifest.written /\ node = "none"
  /\ IF platform = "darwin" THEN PreflightMac ELSE Preflight
  /\ cmd' = "ask"
  /\ UNCHANGED <<hostState, platform, asked, todo, got, cancelled, theirs, stopped, cut, unrecorded>>

\* The next question, with what the last one decided.
Answer(step, answers) ==
  /\ asked' = [answers EXCEPT !.step = step]
  /\ UNCHANGED <<hostState, platform, cmd, todo, got, cancelled, theirs, stopped, cut, unrecorded>>

\* A development build or a card without a published image installs the
\* config alone; a Mac always fetches its engine.
Hardware == \E image \in (IF platform = "linux" THEN BOOLEAN ELSE {TRUE}) :
              Answer("models", [asked EXCEPT !.image = image])

\* Chosen models, on the cards the planner gave them: no card is given twice
\* on Linux, and a Mac's models share its one GPU.
ChooseModels == \E placed \in UNION {[ms -> SUBSET Card] : ms \in SUBSET Weight \ {{}}} :
  /\ \A m \in DOMAIN placed : placed[m] # {}
  /\ \A m, o \in DOMAIN placed : m # o /\ platform = "linux" => placed[m] \cap placed[o] = {}
  /\ Answer("layout", [asked EXCEPT !.placed = placed])

\* Two models of a layout share a card, or one has none.
Shared(placed) == \/ \E m \in DOMAIN placed : placed[m] = {}
                  \/ \E m, o \in DOMAIN placed : m # o /\ placed[m] \cap placed[o] # {}

\* render.Config loads the text it wrote, so the node's own validation
\* refuses the layout; a Mac's models are all on GPU 0, as the node allows.
NodeAccepts(placed) == platform = "darwin" \/ ~Shared(placed)

\* One model moved to other cards, or left out while another stays.
EditLayout ==
  \/ \E m \in DOMAIN asked.placed, gpus \in SUBSET Card :
       /\ platform = "linux"
       /\ Answer("layout", [asked EXCEPT !.placed[m] = gpus])
  \/ \E m \in DOMAIN asked.placed :
       /\ DOMAIN asked.placed # {m}
       /\ Answer("layout", [asked EXCEPT !.placed = [o \in DOMAIN asked.placed \ {m} |-> asked.placed[o]]])

Layout == EditLayout \/ (NodeAccepts(asked.placed) /\ Answer("mesh", asked))

MeshStep == \E secured \in BOOLEAN : Answer("updates", [asked EXCEPT !.secured = secured])
\* Whether the mesh may update the node changes nothing but the config's text.
Updates == Answer("naming", asked)
Naming == Answer("confirm", asked)

\* The files in the order they are written, and the directories made first.
Dirs == IF platform = "darwin" THEN <<"stateDir", "llama">>
        ELSE IF asked.image THEN <<"stateDir", "engDir">> ELSE <<"stateDir">>
Files == IF platform = "darwin" THEN <<"config", "plist">>
         ELSE <<"config">> \o (IF asked.secured THEN <<"env">> ELSE <<>>)
                           \o (IF asked.image THEN <<"compose", "unit">> ELSE <<>>)
NewDirs == SelectSeq(Dirs, LAMBDA d : ~Exists(d))

Claims == ToSet(NewDirs) \cup ToSet(Files) \cup (IF Exists("binary") THEN {} ELSE {"binary"})
\* The confirmed write: the manifest first, with every path about to be made.
WritePlanned ==
  /\ manifest' = [paths |-> Claims, runs |-> asked.image, helper |-> asked.image /\ platform = "linux", written |-> TRUE]
  /\ todo' = NewDirs \o Files \o <<"binary">>
  /\ got' = {}
  /\ cmd' = "write"
  /\ asked' = [asked EXCEPT !.placed = <<>>, !.shared = ~NodeAccepts(asked.placed)]
  /\ UNCHANGED <<platform, disk, engine, conf, node, helper, cancelled, theirs, stopped, cut, unrecorded>>

Confirm == WritePlanned \/ (Done /\ UNCHANGED hostState)

\* An error or an abandoned question: nothing has been written.
Abandon == Done /\ UNCHANGED hostState

Ask ==
  /\ cmd = "ask"
  /\ \/ asked.step = "hardware" /\ Hardware
     \/ asked.step = "models" /\ ChooseModels
     \/ asked.step = "layout" /\ Layout
     \/ asked.step = "mesh" /\ MeshStep
     \/ asked.step = "updates" /\ Updates
     \/ asked.step = "naming" /\ Naming
     \/ asked.step = "confirm" /\ Confirm
     \/ Abandon

CtrlC ==
  /\ cmd \in {"write", "fetch", "start"} /\ ~cancelled
  /\ cancelled' = TRUE
  /\ UNCHANGED <<hostState, platform, cmd, asked, todo, got, theirs, stopped, cut, unrecorded>>

\* What a write leaves at a path.  copyBinary replaces a binary in place, which
\* does not make it the install's; where the manifest claims none it adds one.
Written(p) ==
  CASE p \in manifest.paths -> "install"
    [] p = "binary" /\ disk[p] = "absent" -> "added"
    [] p = "binary" /\ disk[p] = "operator" -> "replaced"
    [] OTHER -> disk[p]

\* One directory or file, or the copy of the binary.
WriteOne ==
  /\ cmd = "write" /\ todo # <<>> /\ (cancelled => Head(todo) \in ToSet(Dirs))
  /\ disk' = [disk EXCEPT ![Head(todo)] = Written(Head(todo))]
  /\ conf' = IF Head(todo) = "config" THEN [secured |-> asked.secured, shared |-> asked.shared] ELSE conf
  /\ todo' = Tail(todo)
  /\ got' = got \cup ({Head(todo)} \cap manifest.paths)
  /\ UNCHANGED <<platform, engine, manifest, node, helper, cmd, asked, cancelled, theirs, stopped, cut, unrecorded>>

\* The second manifest lists what exists; it is written after a failure or a
\* Ctrl-C too, and if that write fails the first one stays.
FinishWrite ==
  /\ cmd = "write"
  /\ \E ok \in BOOLEAN :
       /\ manifest' = IF ok THEN [manifest EXCEPT !.paths = got] ELSE manifest
       /\ IF ok /\ todo = <<>>
          THEN CASE platform = "darwin" -> GoTo("fetch")
                 [] asked.image -> GoTo("helper")
                 [] OTHER -> Done
          ELSE Stop1
  /\ UNCHANGED <<disk, engine, conf, node, helper>>

\* `systemctl enable --now` of two units that fails may leave one of them
\* enabled, or watching.
EnableFails == helper' \in {helper, "enabled", "on"} /\ (helper = "on" => helper' = "on")

EnableEngineHelper ==
  /\ cmd = "helper"
  /\ \/ helper' = "on" /\ Starting("start")
     \/ EnableFails /\ Stop1
  /\ UNCHANGED <<disk, engine, manifest, conf, node>>

\* `docker pull` and `docker compose up -d`.  A failure keeps the files.
StartNode ==
  /\ cmd = "start"
  /\ \/ ~cancelled /\ node' = "up" /\ Starting("wait") /\ UNCHANGED <<disk, engine, manifest, conf, helper>>
     \/ Stop1 /\ UNCHANGED hostState

\* WaitUp, WaitModels and the acceptance checks only look; whatever they
\* find, the files and the started node are left as they are.
Wait == cmd = "wait" /\ Done /\ UNCHANGED hostState

\* A Mac: a failure before the agent is loaded takes the plist away again, or
\* the next login would start a node without its engine.
NotStarted ==
  /\ disk' = [disk EXCEPT !["plist"] = "absent"]
  /\ Done /\ UNCHANGED <<engine, manifest, conf, node, helper>>
\* A build already there is reused; a fetched one is renamed into place.
FetchLlama ==
  /\ cmd = "fetch"
  /\ \/ engine' = TRUE /\ ~cancelled /\ GoTo("start-agent") /\ UNCHANGED <<disk, manifest, conf, node, helper>>
     \/ NotStarted

Bootstrap ==
  /\ cmd = "start-agent"
  /\ \/ node' = "up" /\ Starting("wait") /\ UNCHANGED <<disk, engine, manifest, conf, helper>>
     \/ NotStarted

-----------------------------------------------------------------------------
(* `viiwork init` on a Docker install made before the engine helper.       *)

StartAddHelper ==
  /\ cmd = "none" /\ platform = "linux" /\ manifest.written /\ manifest.runs /\ ~manifest.helper
  /\ manifest' = [manifest EXCEPT !.paths = @ \cup {"unit"} \cup (IF Exists("engDir") THEN {} ELSE {"engDir"})]
  /\ cmd' = "add" /\ todo' = <<"unit", "binary", "engDir">>
  /\ UNCHANGED <<platform, disk, engine, conf, node, helper, asked, got, cancelled, theirs, stopped, cut, unrecorded>>

\* A unit and the helper's directory, recorded before they are written, and
\* the binary, which is not.
AddOne ==
  /\ cmd = "add" /\ todo # <<>>
  /\ \/ /\ disk' = [disk EXCEPT ![Head(todo)] = Written(Head(todo))]
        /\ todo' = Tail(todo)
        /\ UNCHANGED <<platform, cmd, asked, got, cancelled, theirs, stopped, cut, unrecorded>>
     \/ Stop1 /\ UNCHANGED disk
  /\ UNCHANGED <<engine, manifest, conf, node, helper>>

AddEnable ==
  /\ cmd = "add" /\ todo = <<>>
  /\ \/ helper' = "on" /\ Starting("add-record")
     \/ /\ EnableFails /\ Return
        /\ cut' = TRUE /\ unrecorded' = (unrecorded \/ helper' # "off")
        /\ UNCHANGED <<platform, theirs, stopped>>
  /\ UNCHANGED <<disk, engine, manifest, conf, node>>

AddRecord ==
  /\ cmd = "add-record"
  /\ \/ manifest' = [manifest EXCEPT !.helper = TRUE] /\ Done
     \/ UNCHANGED <<manifest, platform, theirs, stopped, cut>> /\ unrecorded' = TRUE /\ Return
  /\ UNCHANGED <<disk, engine, conf, node, helper>>

-----------------------------------------------------------------------------
(* `viiwork uninstall`                                                     *)

\* Everything is worked out before any of it: the manifest's files, the
\* helper's backups, the directories and the binary, in the order of removal.
RemovalPlan ==
  SelectSeq(<<"config", "env", "compose", "unit", "plist", "bak", "stateDir", "engDir", "llama", "binary">>,
            LAMBDA p : p \in manifest.paths \/ (p = "bak" /\ manifest.helper /\ Exists("bak")))

StartUninstall ==
  /\ cmd = "none" /\ manifest.written
  /\ todo' = RemovalPlan /\ cmd' = "un-helper"
  /\ UNCHANGED <<hostState, platform, asked, got, cancelled, theirs, stopped, cut, unrecorded>>

\* The helper before the node; a failure to stop either removes nothing.
UninstallHelper ==
  /\ cmd = "un-helper"
  /\ \/ /\ helper' = IF manifest.helper /\ Exists("unit") THEN "off" ELSE helper
        /\ GoTo("un-node")
     \/ manifest.helper /\ Exists("unit") /\ Done /\ UNCHANGED helper
  /\ UNCHANGED <<disk, engine, manifest, conf, node>>

\* A Mac's agent is booted out when it is loaded; a compose project is
\* stopped, then taken down, when its file is there.
Stoppable == manifest.runs /\ (platform = "linux" => Exists("compose"))
UninstallNode ==
  /\ cmd = "un-node"
  /\ \/ /\ node' = IF Stoppable THEN "none" ELSE node
        /\ GoTo("un-files")
     \/ Stoppable /\ node = "up" /\ node' \in (IF platform = "linux" THEN {"up", "stopped"} ELSE {"up"}) /\ Done
  /\ UNCHANGED <<disk, engine, manifest, conf, helper>>

RemoveOne ==
  /\ cmd = "un-files" /\ todo # <<>>
  /\ \/ disk' = [disk EXCEPT ![Head(todo)] = "absent"] /\ got' = got
     \/ disk' = disk /\ Exists(Head(todo)) /\ Cardinality(got) < MaxStuck /\ got' = got \cup {Head(todo)}
  /\ engine' = (engine /\ (Head(todo) = "llama" => disk'["llama"] # "absent"))
  /\ conf' = IF disk'["config"] = "absent" THEN NoConfig ELSE conf
  /\ todo' = Tail(todo)
  /\ UNCHANGED <<platform, manifest, node, helper, cmd, asked, cancelled, theirs, stopped, cut, unrecorded>>

\* A mutant: the manifest goes with the files that could be removed.
FinishUninstallAnyway ==
  /\ cmd = "un-files" /\ todo = <<>>
  /\ manifest' = NoManifest /\ Done
  /\ UNCHANGED <<disk, engine, conf, node, helper>>

\* The manifest goes last, and only when everything else went.
FinishUninstall ==
  /\ cmd = "un-files" /\ todo = <<>>
  /\ IF got # {} THEN UNCHANGED manifest /\ Stop1
     ELSE manifest' = NoManifest /\ Return /\ cut' = FALSE /\ stopped' = FALSE /\ UNCHANGED <<platform, theirs, unrecorded>>
  /\ UNCHANGED <<disk, engine, conf, node, helper>>
-----------------------------------------------------------------------------
(* `viiwork stop` and `viiwork start`                                      *)

ControlsHelper == platform = "linux" /\ manifest.helper /\ Exists("unit")

StartStop ==
  /\ cmd = "none" /\ manifest.written /\ manifest.runs
  /\ cmd' = "stop-helper"
  /\ UNCHANGED <<hostState, platform, asked, todo, got, cancelled, theirs, stopped, cut, unrecorded>>

\* The helper first: it runs `docker compose up`, and could undo the stop.
StopHelper ==
  /\ cmd = "stop-helper"
  /\ \/ helper' = (IF ControlsHelper /\ helper = "on" THEN "enabled" ELSE helper) /\ GoTo("stop-node")
     \/ ControlsHelper /\ Done /\ UNCHANGED helper
  /\ UNCHANGED <<disk, engine, manifest, conf, node>>

\* The node is down, or the wait for it to go down ran out, or nothing was done.
NodeDown == IF node # "up" THEN node ELSE IF platform = "linux" THEN "stopped" ELSE "none"
StopNode ==
  /\ cmd = "stop-node"
  /\ \/ /\ Stoppable
        /\ node' = NodeDown
        /\ stopped' = TRUE
        /\ Return /\ UNCHANGED <<platform, theirs, cut, unrecorded>>
     \/ Done /\ node' \in {node} \cup (IF Stoppable THEN {NodeDown} ELSE {})
  /\ UNCHANGED <<disk, engine, manifest, conf, helper>>

StartCommand ==
  /\ cmd = "none" /\ manifest.written /\ manifest.runs
  /\ Exists(IF platform = "linux" THEN "compose" ELSE "plist")
  /\ node' = "up" /\ stopped' = FALSE
  /\ helper' \in (IF ControlsHelper THEN {"on", helper} ELSE {helper})
  /\ UNCHANGED <<platform, disk, engine, manifest, conf, cmd, asked, todo, got, cancelled, theirs, cut, unrecorded>>

-----------------------------------------------------------------------------
(* What happens by itself.                                                 *)

\* The helper's run: it keeps the old compose file and brings the node up.
HelperRuns ==
  /\ helper = "on" /\ Exists("compose")
  /\ disk' = [disk EXCEPT !["bak"] = "install"]
  /\ node' = "up"
  /\ UNCHANGED <<platform, engine, manifest, conf, helper, cmd, asked, todo, got, cancelled, theirs, stopped, cut, unrecorded>>

\* A boot starts the container that exists and the units that are enabled; a
\* login loads the agent whose plist is there.
Boot ==
  /\ cmd = "none" /\ stopped' = FALSE
  /\ IF platform = "linux"
     THEN /\ node' = IF node = "none" THEN "none" ELSE "up"
          /\ helper' = IF helper = "off" \/ ~Exists("unit") THEN "off" ELSE "on"
     ELSE /\ node' = IF Exists("plist") THEN "up" ELSE "none"
          /\ UNCHANGED helper
  /\ UNCHANGED <<platform, disk, engine, manifest, conf, cmd, asked, todo, got, cancelled, theirs, cut, unrecorded>>

\* The command is killed; Ctrl-C at a question ends it too.
Killed ==
  /\ cmd # "none"
  /\ Return
  /\ cut' = (cut \/ cmd # "ask")
  /\ unrecorded' = (unrecorded \/ cmd = "add-record")
  /\ UNCHANGED <<hostState, platform, theirs, stopped>>

\* The operator's own config.  It is theirs to keep unless a running init has
\* already looked at the path, or the manifest lists it.
OperatorWrites ==
  /\ ~Exists("config")
  /\ disk' = [disk EXCEPT !["config"] = "operator"]
  /\ theirs' = IF cmd = "none" /\ "config" \notin manifest.paths THEN theirs \cup {"config"} ELSE theirs
  /\ UNCHANGED <<platform, engine, manifest, conf, node, helper, cmd, asked, todo, got, cancelled, stopped, cut, unrecorded>>

SetupNext ==
  \/ StartInit \/ Ask \/ CtrlC \/ WriteOne \/ FinishWrite \/ EnableEngineHelper \/ StartNode \/ Wait
  \/ FetchLlama \/ Bootstrap
  \/ StartAddHelper \/ AddOne \/ AddEnable \/ AddRecord
  \/ StartUninstall \/ UninstallHelper \/ UninstallNode \/ RemoveOne \/ FinishUninstall
  \/ StartStop \/ StopHelper \/ StopNode \/ StartCommand
  \/ HelperRuns \/ Boot \/ Killed \/ OperatorWrites

SetupSpec == SetupInit /\ [][SetupNext]_setupVars

-----------------------------------------------------------------------------
(* The host's state stays within its types.                                *)
SetupTypeOK ==
  /\ disk \in [Path -> {"absent", "operator", "install", "replaced", "added"}] /\ manifest.paths \subseteq Path
  /\ node \in {"none", "stopped", "up"} /\ helper \in {"off", "enabled", "on"}
  /\ asked.step \in Questions /\ theirs \subseteq Path /\ got \subseteq Path

\* Whatever was interrupted, everything an install put on the host is on the
\* manifest on its disk, so an uninstall finds it (writer.write, AddEngineHelper,
\* execute): after an uninstall that removed the manifest nothing of it is left.
\* The helper's backups are not the install's: uninstall takes those it sees.
\* One file stays: a binary that adding the helper put where the manifest
\* claims none, for AddEngineHelper records everything but that.
Undoable ==
  \A p \in Path \ {"bak"} : /\ disk[p] = "install" => p \in manifest.paths
                           /\ disk[p] = "added" => p = "binary"

\* An install and an uninstall never take away or claim what the operator had
\* at a path before init looked at it.  Their viiwork binary is the one thing
\* that is overwritten, and it is still not removed.
OperatorKept == \A p \in theirs : disk[p] = "operator" \/ (p = "binary" /\ disk[p] = "replaced")

\* A node that runs has the files it reads, unless some command was killed
\* half-way: init starts it only after the whole write, and a Mac's failed fetch
\* takes the plist away before the next login can load it (notStarted).
NodeHasFiles ==
  node = "up" /\ ~cut /\ ~unrecorded =>
    /\ Exists("config") /\ (platform = "linux" /\ conf.secured => Exists("env"))
    /\ platform = "darwin" => Exists("plist") /\ Exists("binary") /\ engine

\* No file goes while the node runs: the helper, which brings the node up by
\* itself, is stopped before it (execute).
RemovedStopped == cmd = "un-files" /\ ~unrecorded => node # "up"

\* A node that runs, and a helper that watches, can be stopped by what the
\* manifest says.
Controllable ==
  /\ node # "none" /\ platform = "linux" /\ ~unrecorded => manifest.runs /\ Exists("compose")
  /\ helper # "off" => manifest.helper \/ unrecorded \/ cmd = "add-record"

\* After `viiwork stop` nothing but a start, a login or a boot brings the node
\* back: the helper is stopped before it.
StaysStopped == stopped /\ ~unrecorded => node # "up"

\* No edit of the layout reaches the disk with a card given to two models.
LayoutServable == ~conf.shared

SetupSafe == SetupTypeOK /\ Undoable /\ OperatorKept /\ NodeHasFiles /\ RemovedStopped /\ Controllable /\ StaysStopped /\ LayoutServable
=============================================================================
