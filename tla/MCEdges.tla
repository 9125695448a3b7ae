---------------------------- MODULE MCEdges ----------------------------------
(* The parts around the serving core, side by side: what the proxy makes   *)
(* of requests, replies and the fleet, a host's engines and what they       *)
(* report, the mesh as it forms and is shown, and the operator's tools.  A  *)
(* behaviour is one of one part, the one active names; the others keep      *)
(* their first state.                                                       *)
EXTENDS ReplyStream, RequestBody, FleetView, Pipelines, WarmSessions,
        EngineReports, GpuTelemetry, ParrotFetch,
        MeshJoin, TopView, AcceptChecks, AliasCommand, TLC

MCLocaleAlias == "br" :> "pt-br" @@ "xx" :> "zz"
MCStepModels ==
  {[pipe |-> "none", suffix |-> "m", published |-> TRUE],
   [pipe |-> "loc", suffix |-> "br", published |-> TRUE],
   [pipe |-> "loc", suffix |-> "pt-br", published |-> FALSE],
   [pipe |-> "loc", suffix |-> "zz", published |-> TRUE]}
MCStepSeqs == UNION {[1..n -> [model : MCStepModels, json : BOOLEAN]] : n \in 1..2}

MCNameOf == 1 :> "a" @@ 2 :> "b" @@ 3 :> "b"
MCMode(k, pr, e) == [open |-> k = 0, key |-> k, prev |-> pr, enforce |-> e]
MCRoll ==
  <<MCMode(0, 0, "full"), MCMode(1, 0, "none"), MCMode(1, 0, "outgoing"),
    MCMode(1, 0, "full"), MCMode(2, 1, "full"), MCMode(2, 0, "full")>>

MCBuild ==
  {[slots |-> 2, ctx |-> 1, reads |-> FALSE, says |-> TRUE, gauge |-> TRUE],
   [slots |-> 1, ctx |-> 2, reads |-> TRUE, says |-> FALSE, gauge |-> FALSE]}
MCView(s, c, i) ==
  [state |-> s, fresh |-> TRUE, load |-> [slots |-> 2, busy |-> 0, ctx |-> c, prog |-> {}],
   images |-> i, inflight |-> 0]
MCOtherViews ==
  {[view |-> MCView("healthy", 2, "yes"), reads |-> TRUE],
   [view |-> MCView("unhealthy", 1, "no"), reads |-> FALSE]}

MCRankOf == 1 :> <<"b", "a", "c">> @@ 2 :> <<"a", "c", "b">> @@ 3 :> <<"c", "b", "a">>
MCGroupsOf ==
  {"a" :> g[1] @@ "b" :> g[2] @@ "c" :> g[3] :
     g \in {<<"g", "g", "g">>, <<"", "g", "g">>, <<"", "", "">>, <<"g", "f", "g">>}}

MCExported == "x" :> "live" @@ "y" :> "deleted" @@ "z" :> "live"

VARIABLE active

On(part) == active = part /\ UNCHANGED active

\* An idle part starts in the one first state that first picks.
Idle(part, first) == active # part => first

CleanIdle == content = <<>> /\ reasoning = NoReasoning /\ calls = FALSE /\ answered = NoReply
WriterIdle ==
  /\ reply = <<>> /\ strip = FALSE
  /\ written = 0 /\ carry = <<>> /\ edge = <<>> /\ firstAt = 0 /\ stripped = 0
  /\ client = <<>> /\ buf = <<>> /\ tail = <<>> /\ overflow = FALSE /\ tailCap = 0
  /\ finished = FALSE
BodyIdle == body = <<>> /\ forwarded = FALSE /\ pin = "" /\ names = <<>> /\ answer = NoAnswer
FleetIdle == local = NoCapacity /\ reports = <<>> /\ view = NoView
PipelineIdle == frames = <<>> /\ pipeReply = NoPipeReply /\ open = 0 /\ pipeSteps = <<>>

EdgesInit ==
  /\ active \in {"think", "clean", "writers", "body", "fleet", "pipelines", "warm",
                 "engine", "gpu", "split", "parrot",
                 "join", "top", "accept", "alias"}
  /\ ThinkInit /\ GpuInit /\ SplitInit /\ MeshJoinInit /\ TopInit
  /\ WarmInit /\ Idle("warm", \A h \in Hosts : groups[h] = "g")
  /\ EngineInit /\ Idle("engine", kind = "vllm" /\ other.reads)
  /\ ParrotInit /\ Idle("parrot", use = "weights" /\ parrot.mode = "absent" /\ parrot.there)
  /\ AcceptInit /\ Idle("accept", check = "join" /\ world.member = "absent")
  /\ AliasCmdInit /\ Idle("alias", command.kind = "set")
  /\ IF active = "clean" THEN CleanInit ELSE CleanIdle
  /\ IF active = "writers" THEN WriterInit ELSE WriterIdle
  /\ IF active = "body" THEN BodyInit ELSE BodyIdle
  /\ IF active = "fleet" THEN FleetInit ELSE FleetIdle
  /\ IF active = "pipelines" THEN PipelineInit ELSE PipelineIdle

proxyParts == <<thinkVars, cleanVars, writerVars, bodyVars, fleetVars, pipelineVars, warmVars>>
engineParts == <<engineVars, gpuVars, splitVars, parrotVars>>
meshParts == <<meshJoinVars, topVars, acceptVars, aliasCmdVars>>

ProxyNext ==
  \/ /\ UNCHANGED <<fleetVars, pipelineVars, warmVars>>
     /\ \/ On("think") /\ ThinkNext /\ UNCHANGED <<cleanVars, writerVars, bodyVars>>
        \/ On("clean") /\ CleanNext /\ UNCHANGED <<thinkVars, writerVars, bodyVars>>
        \/ On("writers") /\ WriterNext /\ UNCHANGED <<thinkVars, cleanVars, bodyVars>>
        \/ On("body") /\ BodyNext /\ UNCHANGED <<thinkVars, cleanVars, writerVars>>
  \/ /\ UNCHANGED <<thinkVars, cleanVars, writerVars, bodyVars>>
     /\ \/ On("fleet") /\ FleetNext /\ UNCHANGED <<pipelineVars, warmVars>>
        \/ On("pipelines") /\ PipelineNext /\ UNCHANGED <<fleetVars, warmVars>>
        \/ On("warm") /\ WarmNext /\ UNCHANGED <<fleetVars, pipelineVars>>

EnginesNext ==
  \/ On("engine") /\ EngineNext /\ UNCHANGED <<gpuVars, splitVars, parrotVars>>
  \/ On("gpu") /\ GpuNext /\ UNCHANGED <<engineVars, splitVars, parrotVars>>
  \/ On("split") /\ SplitNext /\ UNCHANGED <<engineVars, gpuVars, parrotVars>>
  \/ On("parrot") /\ ParrotNext /\ UNCHANGED <<engineVars, gpuVars, splitVars>>

FleetToolsNext ==
  \/ On("join") /\ MeshJoinNext /\ UNCHANGED <<topVars, acceptVars, aliasCmdVars>>
  \/ On("top") /\ TopNext /\ UNCHANGED <<meshJoinVars, acceptVars, aliasCmdVars>>
  \/ On("accept") /\ AcceptNext /\ UNCHANGED <<meshJoinVars, topVars, aliasCmdVars>>
  \/ On("alias") /\ AliasCmdNext /\ UNCHANGED <<meshJoinVars, topVars, acceptVars>>

EdgesNext ==
  \/ ProxyNext /\ UNCHANGED <<engineParts, meshParts>>
  \/ EnginesNext /\ UNCHANGED <<proxyParts, meshParts>>
  \/ FleetToolsNext /\ UNCHANGED <<proxyParts, engineParts>>

EdgesSpec == EdgesInit /\ [][EdgesNext]_<<active, proxyParts, engineParts, meshParts>>
-----------------------------------------------------------------------------
\* Between the client and the engine nothing is lost or invented: a client that
\* turned thinking off gets its answer and no thinking, streamed or whole, and
\* the writers lose nothing and see the first token however the reply is cut
\* (ReplyStream); the engine receives what was asked
\* (RequestBody); clients are told what the router can use (FleetView); a
\* pipeline ends and accounts for its steps (Pipelines); and a conversation
\* stays where its cache is (WarmSessions).
ProxySafe ==
  /\ active = "think" => FastIsSlow /\ AnswerKept
  /\ active = "clean" => CleanSafe
  /\ active = "writers" => NothingLost /\ FirstTokenSeen /\ CaptureHolds
  /\ active = "body" => BodySafe
  /\ active = "fleet" => FleetSafe
  /\ active = "pipelines" => PipelinesSafe
  /\ active = "warm" => SessionsWarm

\* What a node says of its engines, cards and downloads is true of the ones
\* running now: probes, slots and images (EngineReports), samples and their age
\* (GpuTelemetry), the energy of each card and of the rest (GpuTelemetry), and
\* the waits for a download (ParrotFetch).
EnginesTrue ==
  /\ active = "engine" => ReportsTrue
  /\ active = "gpu" => TelemetryTrue
  /\ active = "split" => SplitSound
  /\ active = "parrot" => WaitsHonest

\* The fleet is what it is shown to be: processes that roll a secret over stay
\* one mesh and share no name (MeshJoin), the operator's screen shows no work
\* nobody does (TopView), and the commands that wait for the fleet report what
\* they saw (AcceptChecks, AliasCommand).
FleetTrue ==
  /\ active = "join" => MeshJoinSafe
  /\ active = "top" => NoInventedWork
  /\ active = "accept" => ChecksHonest
  /\ active = "alias" => CommandTrue
=============================================================================
