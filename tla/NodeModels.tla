----------------------------- MODULE NodeModels -----------------------------
(***************************************************************************)
(* Which models a node runs (internal/node/node.go, park.go, reload.go,    *)
(* server.go; the HUP loop of cmd/viiwork/main.go).                        *)
(*                                                                         *)
(* Three parties decide it: Run, which applies the configuration once the  *)
(* mesh is up and shuts everything down in order; a reload on SIGHUP; and  *)
(* park requests (viiwork down and up), which arrive as soon as the API    *)
(* listens, before the models are applied and while the node shuts down.   *)
(* They hand the supervisor the configured models minus the parked ones    *)
(* under applyMu; the router reads the supervisor and the published parked *)
(* set without it.  A model is its configuration's version, 0 for absent.  *)
(***************************************************************************)
EXTENDS Naturals, FiniteSets

CONSTANTS Models,       \* model names
          MaxVersion,   \* versions of a model's configuration
          MaxEdits,     \* bound on edits of the file, each a SIGHUP or not
          MaxParks,     \* bound on park requests
          MaxRequests,  \* bound on inference requests in flight
          Nothing       \* no reload, or no park request, in progress

ASSUME VersionAssumption == MaxVersion \in Nat \ {0}

VARIABLES file,        \* the configuration file: models, clients, reloads, valid
          hup,         \* a SIGHUP is waiting (the channel holds one)
          stale,       \* the file was edited after the last SIGHUP
          config,      \* n.cfg: models and clients
          clients,     \* the client table in use
          keys,        \* what the performance table and session sharing know
          parked, view,
          applied, modelsRun, closed,
          lock,        \* applyMu: free, reload or park
          next,        \* the file a reload has read, and the models it read before
          park,        \* the park request that holds the lock
          phase, stop, requests, grace,
          edits, parks

reloadVars == <<file, hup, stale, next, edits>>
runVars == <<phase, stop, requests, grace>>
nodeVars == <<reloadVars, config, clients, keys, parked, view, applied, modelsRun, closed,
              lock, park, runVars, parks>>

Versions == [Models -> 0..MaxVersion]
None == [m \in Models |-> 0]
Configured(models) == {m \in Models : models[m] # 0}

NodeInit ==
  /\ file = [models |-> [m \in Models |-> 1], clients |-> 1, reloads |-> FALSE, valid |-> TRUE]
  /\ hup = FALSE /\ stale = FALSE
  /\ config = [models |-> file.models, clients |-> 1]
  /\ clients = 1 /\ keys = file.models
  /\ parked = {} /\ view = {}
  /\ applied = FALSE /\ modelsRun = None /\ closed = FALSE
  /\ lock = "free" /\ next = Nothing /\ park = Nothing
  /\ phase = "joining" /\ stop = FALSE /\ requests = 0 /\ grace = TRUE
  /\ edits = 0 /\ parks = 0

\* Unparked: what the supervisor is given.  Its Apply refuses once shut down.
Unparked(models, down) == [m \in Models |-> IF m \in down THEN 0 ELSE models[m]]

-----------------------------------------------------------------------------
\* The operator edits the file, and signals the node now or later; a signal
\* that finds one waiting adds nothing.
Edit(f, signal) ==
  /\ edits < MaxEdits /\ edits' = edits + 1
  /\ file' = f
  /\ hup' = (hup \/ signal) /\ stale' = ~signal
  /\ UNCHANGED <<config, clients, keys, parked, view, applied, modelsRun, closed, lock, next, park, runVars, parks>>

ReloadReadBusy ==
  /\ hup /\ phase # "exited" /\ hup' = FALSE
  /\ next' = IF next = Nothing /\ file.valid THEN [models |-> file.models, current |-> config.models] ELSE next
  /\ UNCHANGED <<file, stale, config, clients, keys, parked, view, applied, modelsRun, closed, lock, park, runVars, edits, parks>>

\* applyClients swaps the client table whole.
ApplyClients(table) == clients' = table /\ config' = [config EXCEPT !.clients = table]

\* Reload, up to the lock: a file that does not load changes nothing; the
\* clients are swapped only when the file asks for it.
ReloadRead ==
  /\ hup /\ next = Nothing /\ phase # "exited"
  /\ hup' = FALSE
  /\ IF file.valid
     THEN /\ next' = [models |-> file.models, current |-> config.models]
          /\ IF file.clients # config.clients /\ file.reloads
             THEN ApplyClients(file.clients)
             ELSE UNCHANGED <<clients, config>>
     ELSE UNCHANGED <<next, clients, config>>
  /\ UNCHANGED <<file, stale, keys, parked, view, applied, modelsRun, closed, lock, park, runVars, edits, parks>>

\* Reload, from the lock to the supervisor's answer.  A shut down supervisor
\* refuses, and nothing changes.
ReloadApply ==
  /\ next # Nothing /\ lock = "free"
  /\ IF next.models = next.current
     THEN keys' = next.models /\ next' = Nothing /\ UNCHANGED <<modelsRun, lock>>
     ELSE IF applied /\ closed
     THEN next' = Nothing /\ UNCHANGED <<keys, modelsRun, lock>>
     ELSE /\ lock' = "reload"
          /\ modelsRun' = IF applied THEN Unparked(next.models, parked) ELSE modelsRun
          /\ UNCHANGED <<keys, next>>
  /\ UNCHANGED <<file, hup, stale, config, clients, parked, view, applied, closed, park, runVars, edits, parks>>

PruneUnpublished(models) == parked' = parked \cap Configured(models) /\ view' = view

\* pruneParkedLocked forgets parked names that are no longer configured.
PruneParked(models) ==
  /\ parked' = parked \cap Configured(models)
  /\ view' = IF parked \subseteq Configured(models) THEN view ELSE parked \cap Configured(models)

\* Reload, the rest: the new configuration is in force and the lock free.
ReloadStore ==
  /\ lock = "reload"
  /\ PruneParked(next.models)
  /\ keys' = next.models
  /\ config' = [config EXCEPT !.models = next.models]
  /\ next' = Nothing /\ lock' = "free"
  /\ UNCHANGED <<file, hup, stale, clients, applied, modelsRun, closed, park, runVars, edits, parks>>

-----------------------------------------------------------------------------
\* Park, up to the published set: an unknown name refuses the whole request,
\* no name means every configured model, and a request that changes nothing
\* ends here.
ParkPublish(names, down) ==
  /\ lock = "free" /\ parks < MaxParks /\ phase \in {"joining", "starting", "serving", "leaving"}
  /\ parks' = parks + 1
  /\ LET conf == Configured(config.models)
         want == IF names = {} THEN conf ELSE names
         then == IF down THEN parked \cup want ELSE parked \ want
     IN IF want \subseteq conf /\ then # parked
        THEN /\ parked' = then /\ view' = then
             /\ park' = [before |-> parked, down |-> down]
             /\ lock' = "park"
        ELSE UNCHANGED <<parked, view, park, lock>>
  /\ UNCHANGED <<reloadVars, config, clients, keys, applied, modelsRun, closed, runVars>>

\* Park, the supervisor's part: refused by a shut down supervisor, the parked
\* set is put back.  Unparking reads the performance keys again.
ParkApply ==
  /\ lock = "park" /\ lock' = "free" /\ park' = Nothing
  /\ IF applied /\ closed
     THEN parked' = park.before /\ view' = park.before /\ UNCHANGED <<modelsRun, keys>>
     ELSE /\ modelsRun' = IF applied THEN Unparked(config.models, parked) ELSE modelsRun
          /\ keys' = IF park.down THEN keys ELSE config.models
          /\ UNCHANGED <<parked, view>>
  /\ UNCHANGED <<reloadVars, config, clients, applied, closed, runVars, parks>>

-----------------------------------------------------------------------------
\* Inference requests, while the API accepts them.
Begin ==
  /\ phase \in {"joining", "starting", "serving", "leaving"} /\ requests < MaxRequests
  /\ requests' = requests + 1
  /\ UNCHANGED <<reloadVars, config, clients, keys, parked, view, applied, modelsRun, closed, lock, park, phase, stop, grace, parks>>

End ==
  /\ requests > 0 /\ requests' = requests - 1
  /\ UNCHANGED <<reloadVars, config, clients, keys, parked, view, applied, modelsRun, closed, lock, park, phase, stop, grace, parks>>

\* SIGTERM, a duplicate name in the mesh, or an update's restart.
Stop ==
  /\ ~stop /\ stop' = TRUE
  /\ UNCHANGED <<reloadVars, config, clients, keys, parked, view, applied, modelsRun, closed, lock, park, phase, requests, grace, parks>>

\* Run listens and serves at once; then the mesh starts, or the node ends.
MeshStart(ok) ==
  /\ phase = "joining"
  /\ phase' = IF ok THEN "starting" ELSE "exited"
  /\ UNCHANGED <<reloadVars, config, clients, keys, parked, view, applied, modelsRun, closed, lock, park, stop, requests, grace, parks>>

\* applyRunning: the first apply, of whatever is configured and not parked by now.
ApplyRunning ==
  /\ phase = "starting" /\ lock = "free"
  /\ applied' = TRUE /\ modelsRun' = Unparked(config.models, parked)
  /\ phase' = "serving"
  /\ UNCHANGED <<reloadVars, config, clients, keys, parked, view, closed, lock, park, stop, requests, grace, parks>>

\* shutdown: leave the mesh, end the streams and stop listening,
Leave ==
  /\ phase = "serving" /\ stop /\ phase' = "leaving"
  /\ UNCHANGED <<reloadVars, config, clients, keys, parked, view, applied, modelsRun, closed, lock, park, stop, requests, grace, parks>>

StopListening ==
  /\ phase = "leaving" /\ phase' = "draining"
  /\ UNCHANGED <<reloadVars, config, clients, keys, parked, view, applied, modelsRun, closed, lock, park, stop, requests, grace, parks>>

\* the grace for requests in progress ends,
GraceOver ==
  /\ phase = "draining" /\ grace /\ grace' = FALSE
  /\ UNCHANGED <<reloadVars, config, clients, keys, parked, view, applied, modelsRun, closed, lock, park, phase, stop, requests, parks>>

\* and the backends stop once no request is left or the grace is over.
StopBackends ==
  /\ phase = "draining" /\ phase' = "closing"
  /\ (requests = 0 /\ lock # "park") \/ ~grace
  /\ closed' = TRUE /\ modelsRun' = None
  /\ UNCHANGED <<reloadVars, config, clients, keys, parked, view, applied, lock, park, stop, requests, grace, parks>>

\* The mesh closes and the loops end, the energy store flushed.
Exit ==
  /\ phase = "closing" /\ phase' = "exited"
  /\ UNCHANGED <<reloadVars, config, clients, keys, parked, view, applied, modelsRun, closed, lock, park, stop, requests, grace, parks>>

NodeNext ==
  \/ \E models \in Versions, c \in 1..2, reloads, valid, signal \in BOOLEAN :
       Edit([models |-> models, clients |-> c, reloads |-> reloads, valid |-> valid], signal)
  \/ ReloadRead
  \/ ReloadApply
  \/ ReloadStore
  \/ \E names \in SUBSET Models, down \in BOOLEAN : ParkPublish(names, down)
  \/ ParkApply
  \/ Begin
  \/ End
  \/ Stop
  \/ \E ok \in BOOLEAN : MeshStart(ok)
  \/ ApplyRunning
  \/ Leave
  \/ StopListening
  \/ GraceOver
  \/ StopBackends
  \/ Exit

\* The node's goroutines run; requests, signals and edits come when they come.
NodeFairness ==
  /\ WF_nodeVars(ReloadRead) /\ WF_nodeVars(ReloadStore) /\ WF_nodeVars(ParkApply)
  /\ WF_nodeVars(ReloadApply) /\ WF_nodeVars(ApplyRunning)
  /\ WF_nodeVars(Leave \/ StopListening \/ GraceOver \/ StopBackends \/ Exit)

NodeSpec == NodeInit /\ [][NodeNext]_nodeVars /\ NodeFairness
-----------------------------------------------------------------------------
NodeTypeOK ==
  /\ file.models \in Versions /\ config.models \in Versions /\ keys \in Versions /\ modelsRun \in Versions
  /\ parked \cup view \subseteq Models
  /\ lock \in {"free", "reload", "park"}
  /\ (lock = "park") = (park # Nothing) /\ (lock = "reload" => next # Nothing)
  /\ requests \in 0..MaxRequests

\* Whenever applyMu is free the supervisor runs exactly the configured models
\* that are not parked, the readers' parked set is the real one, and every
\* parked model is configured, whatever reloads, park requests and the first
\* apply came in between; once shut down nothing runs, however late a request.
RunsWhatIsConfigured ==
  lock = "free" =>
    /\ view = parked /\ parked \subseteq Configured(config.models)
    /\ modelsRun = IF applied /\ ~closed THEN Unparked(config.models, parked) ELSE None

\* The backends stop only when no request is in progress or the grace is over,
\* and a park request that outlives the listener starts nothing any more.
BackendsStopLast ==
  closed => /\ modelsRun = None
            /\ phase \in {"closing", "exited"}
            /\ grace => requests = 0 /\ lock # "park"

\* What reloads, park requests and the shutdown may never leave behind.
NodeSafe == RunsWhatIsConfigured /\ BackendsStopLast

\* A signal sent after the last edit is never lost, though the channel holds
\* one and a reload may just have read the file: a valid file is in force in
\* the end, in the supervisor too, unless the node is shutting down.
LastEditApplied ==
  <>[](\/ stale \/ ~file.valid \/ stop
       \/ phase \in {"joining", "exited"}
       \/ config.models = file.models /\ keys = file.models)

=============================================================================
