--------------------------- MODULE UpdateRollout ---------------------------
(***************************************************************************)
(* A release rolled across the fleet (internal/updatecli/cli.go): the plan *)
(* from one reading of the mesh, staging everywhere, then waves of         *)
(* activations, each followed until every host of it has confirmed and is  *)
(* back in the mesh.  Nothing is locked: hosts restart, fail, roll back or *)
(* are updated by someone else meanwhile, and a write's reply may be lost. *)
(*                                                                         *)
(* A host is what its GET /v1/update and the entry node's view of it say;  *)
(* ReleaseUpdate has its inside.  Hosts are numbered in the order of their *)
(* names.                                                                  *)
(***************************************************************************)
EXTENDS Naturals, FiniteSets, SequencesExt

CONSTANTS Hosts,        \* 1..n
          Fleets,       \* the fleets and command lines considered
          MaxPolls,     \* polls within ComeBack, LoadWait or a confirmation deadline
          MaxTroubles   \* bound on hosts that fail, lost replies and other operators

VARIABLES fleet,        \* mesh, flags and what each host serves and said at the time of the plan
          rollout,      \* the command: its phase, wave and position in it, and exit
          waves,
          stageOf,      \* each target: none, staged or failed
          follow,       \* each host: none, confirm, mesh, done or failed
          polls,        \* unsuccessful polls of a host so far
          host,         \* the hosts as they are now
          troubles

rolloutVars == <<fleet, rollout, waves, stageOf, follow, polls, host, troubles>>

\* canWrite: a secured mesh takes signed writes only.
CanWrite == fleet.secured => fleet.signer

\* A host answers GET /v1/update and writes while its process runs.
Answers(h) == host[h].up

Waiting(phase) == rollout.phase = phase
ExitCode(code) == rollout' = [rollout EXCEPT !.phase = "done", !.exit = code]

\* skipReason, for a host as the plan saw it.
Skipped(h) ==
  LET says == fleet.says[h]
  IN \/ fleet.selected # {} /\ h \notin fleet.selected
     \/ says \in {"dead", "mute", "off", "current", "floor"}
     \/ ~fleet.secured /\ h # fleet.entry
     \/ says = "newer" /\ ~fleet.downgrade

Targets == SelectSeq(SetToSortSeq(Hosts, <), LAMBDA h : ~Skipped(h))

\* Hosts that serve a model, as members counts them: alive, healthy or not.
HostsOf(m) == {h \in Hosts : m \in fleet.serves[h]}

\* Mutant: a wave is only as large as --parallel lets it be.
TakesLastNever(wave, h) == FALSE

\* takesLast: with h, the wave would hold every host of one of its models.
TakesLast(wave, h) ==
  \E m \in fleet.serves[h] :
    /\ Cardinality(HostsOf(m)) > 1
    /\ Cardinality(HostsOf(m) \cap ToSet(wave)) + 1 = Cardinality(HostsOf(m))

BuildWaves(targets, entry, parallel) ==
  LET Join(acc, h) ==
        IF h = entry THEN acc
        ELSE IF acc.cur # <<>> /\ (Len(acc.cur) = parallel \/ TakesLast(acc.cur, h))
        THEN [waves |-> Append(acc.waves, acc.cur), cur |-> <<h>>]
        ELSE [acc EXCEPT !.cur = Append(@, h)]
      built == FoldLeft(Join, [waves |-> <<>>, cur |-> <<>>], targets)
  IN built.waves \o (IF built.cur = <<>> THEN <<>> ELSE <<built.cur>>)
                 \o (IF entry \in ToSet(targets) THEN <<<<entry>>>> ELSE <<>>)

RolloutInit ==
  /\ fleet \in Fleets
  /\ rollout = [phase |-> "plan", wave |-> 1, pos |-> 1, exit |-> "none"]
  /\ waves = <<>> /\ stageOf = [h \in Hosts |-> "none"]
  /\ follow = [h \in Hosts |-> "none"] /\ polls = [h \in Hosts |-> 0]
  /\ host = [h \in Hosts |->
       [running |-> IF fleet.says[h] = "current" THEN "to" ELSE "old",
        target |-> IF fleet.says[h] = "current" THEN "to" ELSE "old",
        pending |-> FALSE, up |-> fleet.says[h] # "dead", fetching |-> FALSE,
        loading |-> h \in fleet.loading, joined |-> fleet.says[h] = "current"]]
  /\ troubles = 0

-----------------------------------------------------------------------------
\* rollout, up to the phrase: no mesh, a missing secret, an unknown host name
\* or nothing to do end the command here.
PlanRollout(meshRead) ==
  /\ Waiting("plan")
  /\ IF ~meshRead \/ ~CanWrite \/ ~(fleet.selected \subseteq Hosts)
     THEN ExitCode("failed") /\ UNCHANGED waves
     ELSE IF Targets = <<>>
     THEN ExitCode("ok") /\ UNCHANGED waves
     ELSE /\ waves' = BuildWaves(Targets, fleet.entry, fleet.parallel)
          /\ rollout' = [rollout EXCEPT !.phase = "phrase"]
  /\ UNCHANGED <<fleet, stageOf, follow, polls, host, troubles>>

Confirmed(right) ==
  /\ Waiting("phrase")
  /\ IF right THEN rollout' = [rollout EXCEPT !.phase = "stage"] ELSE ExitCode("failed")
  /\ UNCHANGED <<fleet, waves, stageOf, follow, polls, host, troubles>>

\* The hosts stage at once; one may fail, or its answer be lost.
StageHost(h, ok) ==
  /\ Waiting("stage") /\ h \in ToSet(Targets) /\ stageOf[h] = "none"
  /\ ok \/ troubles < MaxTroubles
  /\ stageOf' = [stageOf EXCEPT ![h] = IF ok THEN "staged" ELSE "failed"]
  /\ troubles' = IF ok THEN troubles ELSE troubles + 1
  /\ UNCHANGED <<fleet, rollout, waves, follow, polls, host>>

StagingDoneAnyway ==
  /\ Waiting("stage") /\ \A h \in ToSet(Targets) : stageOf[h] # "none"
  /\ rollout' = [rollout EXCEPT !.phase = "activate"]
  /\ UNCHANGED <<fleet, waves, stageOf, follow, polls, host, troubles>>

StagingDone ==
  /\ Waiting("stage") /\ \A h \in ToSet(Targets) : stageOf[h] # "none"
  /\ IF \E h \in ToSet(Targets) : stageOf[h] = "failed"
     THEN ExitCode("failed")
     ELSE rollout' = [rollout EXCEPT !.phase = "activate"]
  /\ UNCHANGED <<fleet, waves, stageOf, follow, polls, host, troubles>>

-----------------------------------------------------------------------------
\* runWave's first loop, one host at a time; a refusal ends it.
Wave == waves[rollout.wave]

Activated(h, ok) ==
  /\ follow' = [follow EXCEPT ![h] = IF ok THEN "confirm" ELSE "failed"]
  /\ polls' = [polls EXCEPT ![h] = 0]
  /\ rollout' = IF ok /\ rollout.pos < Len(Wave)
                THEN [rollout EXCEPT !.pos = @ + 1]
                ELSE [rollout EXCEPT !.phase = "follow"]

\* activate: a host already on the release is followed like any other, one
\* with a model loading is asked again until LoadWait, and the rest of the
\* refusals, or no answer, are failures.  The answer may be lost.
ActivateHost(replied) ==
  /\ Waiting("activate")
  /\ LET h == Wave[rollout.pos]
         accepted == Answers(h) /\ host[h].running # "to" /\ ~host[h].loading
     IN /\ replied \/ (troubles < MaxTroubles /\ accepted)
        /\ troubles' = IF replied THEN troubles ELSE troubles + 1
        /\ host' = IF accepted THEN [host EXCEPT ![h].target = "to", ![h].pending = TRUE] ELSE host
        /\ IF Answers(h) /\ host[h].running # "to" /\ host[h].loading /\ polls[h] < MaxPolls
           THEN polls' = [polls EXCEPT ![h] = @ + 1] /\ UNCHANGED <<follow, rollout>>
           ELSE Activated(h, replied /\ Answers(h) /\ (host[h].running = "to" \/ ~host[h].loading))
  /\ UNCHANGED <<fleet, waves, stageOf>>

Settle(h, to) ==
  /\ follow' = [follow EXCEPT ![h] = to]
  /\ polls' = [polls EXCEPT ![h] = 0]

PollAgain(h) ==
  IF polls[h] < MaxPolls
  THEN polls' = [polls EXCEPT ![h] = @ + 1] /\ UNCHANGED follow
  ELSE Settle(h, "failed")

\* waitConfirmed, one poll: confirmed, rolled back, or not decided yet.  Until
\* a deadline is known the wait ends at ComeBack, then at the deadline, which
\* is read anew at every poll: the host moves it on while a backend of it
\* fetches its weights, and the poll then brings the end no nearer.
WaitConfirmed(h) ==
  /\ Waiting("follow") /\ follow[h] = "confirm"
  /\ LET s == host[h]
     IN IF Answers(h) /\ s.running = "to" /\ ~s.pending /\ s.target = "to" THEN Settle(h, "mesh")
        ELSE IF Answers(h) /\ s.target # "to" /\ ~s.pending THEN Settle(h, "failed")
        ELSE IF Answers(h) /\ s.pending /\ s.fetching THEN UNCHANGED <<follow, polls>>
        ELSE PollAgain(h)
  /\ UNCHANGED <<fleet, rollout, waves, stageOf, host, troubles>>

\* waitInMesh, one poll of the entry node: it sees the host alive on the
\* release; when the host is the entry node, it sees another node if it had one.
WaitInMesh(h) ==
  /\ Waiting("follow") /\ follow[h] = "mesh"
  /\ IF Answers(fleet.entry) /\ host[h].joined THEN Settle(h, "done") ELSE PollAgain(h)
  /\ UNCHANGED <<fleet, rollout, waves, stageOf, host, troubles>>

\* The end of runWave: every host followed; a failure ends the rollout.
WaveDone ==
  /\ Waiting("follow")
  /\ \A h \in ToSet(Wave) : follow[h] \notin {"confirm", "mesh"}
  /\ IF \E h \in ToSet(Wave) : follow[h] # "done" THEN ExitCode("failed")
     ELSE IF rollout.wave = Len(waves) THEN ExitCode("ok")
     ELSE rollout' = [rollout EXCEPT !.phase = "activate", !.wave = @ + 1, !.pos = 1]
  /\ UNCHANGED <<fleet, waves, stageOf, follow, polls, host, troubles>>

-----------------------------------------------------------------------------
\* The hosts: a pending release is restarted into, comes up, fetches weights it
\* lacks, loads, confirms, and the entry node hears of it; or it fails and the
\* host goes back, or stays away.
Step(h, s) == host' = [host EXCEPT ![h] = s] /\ UNCHANGED <<fleet, rollout, waves, stageOf, follow, polls>>

HostRestarts(h) ==
  /\ host[h].up /\ host[h].running # host[h].target
  /\ Step(h, [host[h] EXCEPT !.up = FALSE, !.joined = FALSE, !.fetching = FALSE])
  /\ UNCHANGED troubles

HostComesUp(h) ==
  /\ ~host[h].up /\ fleet.says[h] # "dead"
  /\ \E fetching \in BOOLEAN :
       Step(h, [host[h] EXCEPT !.up = TRUE, !.loading = TRUE, !.fetching = fetching,
                               !.running = host[h].target])
  /\ UNCHANGED troubles

HostFetched(h) ==
  /\ host[h].fetching
  /\ Step(h, [host[h] EXCEPT !.fetching = FALSE])
  /\ UNCHANGED troubles

HostLoads(h) ==
  /\ host[h].up /\ host[h].loading /\ ~host[h].fetching
  /\ Step(h, [host[h] EXCEPT !.loading = FALSE, !.pending = @ /\ host[h].running # "to"])
  /\ UNCHANGED troubles

HostSeen(h) ==
  /\ host[h].up /\ host[h].running = "to" /\ ~host[h].joined
  /\ Step(h, [host[h] EXCEPT !.joined = TRUE])
  /\ UNCHANGED troubles

HostRollsBack(h) ==
  /\ host[h].pending /\ host[h].running = "to" /\ troubles < MaxTroubles
  /\ Step(h, [host[h] EXCEPT !.target = "old", !.pending = FALSE])
  /\ troubles' = troubles + 1

\* Another operator's rollout gets a host done between the plan and the waves.
OtherRollout(h) ==
  /\ rollout.phase \in {"phrase", "stage"} /\ troubles < MaxTroubles
  /\ host[h].up /\ host[h].running # "to" /\ ~host[h].loading
  /\ Step(h, [host[h] EXCEPT !.running = "to", !.target = "to", !.joined = TRUE])
  /\ troubles' = troubles + 1

RolloutNext ==
  \/ \E ok \in BOOLEAN : PlanRollout(ok)
  \/ \E ok \in BOOLEAN : Confirmed(ok)
  \/ \E h \in Hosts, ok \in BOOLEAN : StageHost(h, ok)
  \/ StagingDone
  \/ \E replied \in BOOLEAN : ActivateHost(replied)
  \/ \E h \in Hosts : WaitConfirmed(h)
  \/ \E h \in Hosts : WaitInMesh(h)
  \/ WaveDone
  \/ \E h \in Hosts : HostRestarts(h)
  \/ \E h \in Hosts : HostComesUp(h)
  \/ \E h \in Hosts : HostFetched(h)
  \/ \E h \in Hosts : HostLoads(h)
  \/ \E h \in Hosts : HostSeen(h)
  \/ \E h \in Hosts : HostRollsBack(h)
  \/ \E h \in Hosts : OtherRollout(h)

\* Only the command runs on: no host is assumed to come back.
RolloutFairness ==
  /\ WF_rolloutVars(\E ok \in BOOLEAN : PlanRollout(ok) \/ Confirmed(ok))
  /\ \A h \in Hosts : WF_rolloutVars(\E ok \in BOOLEAN : StageHost(h, ok))
  /\ \A h \in Hosts : WF_rolloutVars(WaitConfirmed(h) \/ WaitInMesh(h))
  /\ WF_rolloutVars(StagingDone \/ WaveDone \/ \E replied \in BOOLEAN : ActivateHost(replied))

RolloutSpec == RolloutInit /\ [][RolloutNext]_rolloutVars /\ RolloutFairness
-----------------------------------------------------------------------------
RolloutTypeOK ==
  /\ rollout.phase \in {"plan", "phrase", "stage", "activate", "follow", "done"}
  /\ rollout.wave \in 1..Len(waves) \cup {1} /\ rollout.exit \in {"none", "ok", "failed"}
  /\ polls \in [Hosts -> 0..MaxPolls]
  /\ \A h \in Hosts : host[h].running \in {"old", "to"} /\ host[h].pending \in BOOLEAN

\* A host the rollout has not taken down: it runs with no restart ahead and its
\* models loaded, or loading as they were when the plan was made.
LeftServing(h) ==
  /\ host[h].up /\ host[h].running = host[h].target
  /\ host[h].loading => h \in fleet.loading /\ follow[h] = "none"

\* Of the alive hosts that list a model, when there are two or more, the
\* rollout leaves one serving it whatever fails, comes back late or is lost:
\* loaded when all of them were at the plan, or else perhaps the one that was
\* still loading, which members counts like the others.  And when the command
\* says a rollout is complete, every target runs the release, confirmed and
\* seen by the entry node.
FleetKeptUp ==
  /\ \A m \in UNION {fleet.serves[h] : h \in Hosts} :
       Cardinality(HostsOf(m)) > 1 => \E h \in HostsOf(m) : LeftServing(h)
  /\ rollout.exit = "ok" /\ waves # <<>> =>
       \A h \in ToSet(Targets) : host[h].running = "to" /\ ~host[h].pending /\ host[h].joined

\* The fleet is kept up at every step of the command and of its hosts.
StaysKeptUp == FleetKeptUp /\ [][FleetKeptUp']_rolloutVars

\* No host is asked to switch before every target has staged, nor after a host
\* of the same or an earlier wave failed: those later in the order stay as
\* they were.
OneWaveAtATime ==
  [][\A h \in Hosts :
       host'[h].pending /\ ~host[h].pending =>
         /\ \A t \in ToSet(Targets) : stageOf[t] = "staged"
         /\ \A x \in Hosts : follow[x] # "failed"
         /\ \A i \in 1..(rollout.wave - 1) : \A x \in ToSet(waves[i]) : follow[x] = "done"]_rolloutVars

\* The command ends, though no host is assumed to come back, confirm or
\* answer: every wait has its limit, unless a host goes on fetching for ever.
RolloutEnds ==
  (\A h \in Hosts : []<>(~host[h].fetching)) => <>(rollout.phase = "done")
=============================================================================
