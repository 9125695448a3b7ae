------------------------------ MODULE MCRecords ------------------------------
(* What a host is given and what it records, side by side: its setup, the   *)
(* layout of its models and its engine builds; energy, speed, power and     *)
(* cost, the fleet's activity, and the chassis it may switch.  A behaviour  *)
(* is one of one part, the one active names.                                *)
EXTENDS EnergyStore, PerfTracker, PowerCost, MeshStream,
        HostSetup, LayoutPlan, LlamaBuilds, TLC

\* A BMC with a DCMI command that fails, and a host without one.
MCSetups == {[spec |-> "auto", works |-> {"sdr", "sensor"}], [spec |-> "none", works |-> {}]}

MCPlanSteps == <<2, 4, 6>>
MCChosen == [size : {3, 9}, kv : {-1, 1}, trained : {0, 1, 5}]

MCPinOf == 0 :> "b1" @@ 1 :> "b2" @@ 2 :> "b3" @@ 3 :> "none"

VARIABLE active

On(part) == active = part /\ UNCHANGED active

\* Nobody asks for anything: the chassis of a behaviour about another part.
ChassisIdle ==
  /\ on = Machines /\ hosts = [m \in Machines |-> {}] /\ bmcs = [m \in Machines |-> {}]
  /\ peerAlive = [m \in Machines |-> Machines \ {m}]
  /\ power = NoPowerRequest /\ requestsMade = 0

PlanIdle == host = [apple |-> FALSE, budget |-> 0, cards |-> <<>>, models |-> <<>>] /\ layout = <<>>

RecordsInit ==
  /\ active \in {"energy", "perf", "cost", "stream", "power", "setup", "plan", "llama"}
  /\ EnergyInit /\ PerfInit /\ PowerInit /\ StreamInit /\ SetupInit /\ LlamaInit
  /\ active # "perf" => keyOf = [m \in PerfModels |-> "k1"]
  /\ active # "cost" => sampler.source = Probe("none", {})
  /\ IF active = "power" THEN ChassisInit ELSE ChassisIdle
  /\ active # "setup" => platform = "linux" /\ theirs = {} /\ manifest = NoManifest
  /\ IF active = "plan" THEN PlanInit ELSE PlanIdle

recordVars == <<energyVars, perfVars, powerVars, streamVars, chassisVars>>
hostVars == <<setupVars, planVars, llamaVars>>

RecordsNext ==
  \/ /\ UNCHANGED hostVars
     /\ \/ On("energy") /\ EnergyNext /\ UNCHANGED <<perfVars, powerVars, streamVars, chassisVars>>
        \/ On("perf") /\ PerfNext /\ UNCHANGED <<energyVars, powerVars, streamVars, chassisVars>>
        \/ On("cost") /\ PowerNext /\ UNCHANGED <<energyVars, perfVars, streamVars, chassisVars>>
        \/ On("stream") /\ StreamNext /\ UNCHANGED <<energyVars, perfVars, powerVars, chassisVars>>
        \/ On("power") /\ ChassisNext /\ UNCHANGED <<energyVars, perfVars, powerVars, streamVars>>
  \/ /\ UNCHANGED recordVars
     /\ \/ On("setup") /\ SetupNext /\ UNCHANGED <<planVars, llamaVars>>
        \/ On("plan") /\ MakePlan /\ UNCHANGED <<setupVars, llamaVars>>
        \/ On("llama") /\ LlamaNext /\ UNCHANGED <<setupVars, planVars>>

RecordsSpec ==
  RecordsInit /\ [][RecordsNext]_<<active, recordVars, hostVars>>
-----------------------------------------------------------------------------
\* What is read back was measured: energy (EnergyStore), speed (PerfTracker)
\* and cost (PowerCost); the energy totals never go down; and a power request
\* never takes down the node that has to answer it (PowerCost).
RecordsTrue ==
  [](EnergySafe /\ PerfSafe /\ PowerTypeOK /\ TodayWasMeasured /\ PowerKeepsEntry) /\ TotalsOnlyGrow

\* A host is installed, laid out and kept so that it can be taken apart again:
\* setup and uninstall touch only what they own, through failures and kills
\* (HostSetup); the models planned fit the cards (LayoutPlan); and the engine
\* build of every release one can go back to stays (LlamaBuilds).
HostSafe ==
  /\ active = "setup" => SetupSafe
  /\ active = "plan" => PlanSound
  /\ active = "llama" => WayBackEngine
=============================================================================
