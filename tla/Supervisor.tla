----------------------------- MODULE Supervisor -----------------------------
(***************************************************************************)
(* internal/supervisor: Apply, the start and drain goroutines, Shutdown    *)
(* and every backend's supervision loop, composed with the load gate.      *)
(*                                                                         *)
(* Each newModel is an instance <<n, p>>: the n-th Apply made it for the   *)
(* p-th entry of its list.  Its backends are the triples <<n, p, k>>.  A   *)
(* model's loop context is cancelled exactly when the model is closed      *)
(* (stopLoops does both, and Shutdown's cancelBase is followed by it under *)
(* the same lock), so one set, closed, stands for both.  The health ladder *)
(* is abstracted to the choices it can make; BackendLoop models it in      *)
(* full.  Requests in flight only delay a drain, for at most the grace     *)
(* period, so they are left out here.                                      *)
(***************************************************************************)
EXTENDS Naturals, Sequences

CONSTANTS
    Confs,          \* configured models (config.Model values)
    ModelName,      \* [Confs -> names]
    Gpus,           \* [Confs -> sequences of sets of GPUs]: one set per backend
    Sourced,        \* the Confs whose path comes from a fetch
    Lists,          \* the model lists Apply may be called with
    MaxApplies,     \* bound: how often Apply may be called
    MaxModels,      \* the most entries a list has
    MaxWidth,       \* the most backends a model has
    MaxRespawns,
    NoConf, NoTicket

Instances == (1..MaxApplies) \X (1..MaxModels)
Backends == (1..MaxApplies) \X (1..MaxModels) \X (1..MaxWidth)

\* The model of a backend.
ModelOf(b) == <<b[1], b[2]>>

\* config/validate.go: a list names a model once and a GPU once.
ValidList(l) ==
    /\ \A p, q \in 1..Len(l) : p # q => ModelName[l[p]] # ModelName[l[q]]
    /\ \A p, q \in 1..Len(l) : \A k \in 1..Len(Gpus[l[p]]), m \in 1..Len(Gpus[l[q]]) :
          <<p, k>> # <<q, m>> => Gpus[l[p]][k] \cap Gpus[l[q]][m] = {}

ASSUME ConstantsAssumption ==
    /\ MaxApplies \in Nat /\ MaxModels \in Nat /\ MaxWidth \in Nat /\ MaxRespawns \in Nat
    /\ NoConf \notin Confs
    /\ NoTicket \notin Backends
    /\ Sourced \subseteq Confs
    /\ \A c \in Confs : Len(Gpus[c]) \in 0..MaxWidth
    /\ \A l \in Lists : l \in Seq(Confs) /\ Len(l) <= MaxModels /\ ValidList(l)

VARIABLES
    models,     \* s.models: the current instances, in list order
    conf,       \* the Conf each instance was created with
    applies,    \* how often Apply was called
    waits,      \* the drains its start goroutine waits for
    closed,     \* models whose loops are cancelled and may not start
    draining,   \* the keys of s.draining
    drain,      \* control state of each drain goroutine
    shutdown,   \* control state of Shutdown
    shutWaits,  \* the drains Shutdown waits for
    fetch,      \* the outcome of each model's one fetch
    pc,         \* control state of each backend's start and loop
    proc,       \* "up" while the process group can hold its GPUs
    respawns,   \* the ladder's count
    quick,      \* backends that used their free quick-exit retry
    served,     \* backends that were healthy once (history)
    holder, queue, granted, done, arrivals   \* the load gate

supVars == <<models, conf, applies, waits, closed, draining, drain, shutdown, shutWaits>>
loopVars == <<fetch, pc, proc, respawns, quick, served>>
gateVars == <<holder, queue, granted, done, arrivals>>
vars == <<supVars, loopVars, gateVars>>

InGate(b) == b = holder \/ b \in granted \/ \E p \in 1..Len(queue) : queue[p] = b

\* What each backend's ticket is to the load gate.
GateOwner ==
    [b \in Backends |->
        IF b \in done THEN "gone"
        ELSE IF ~InGate(b) THEN "new"
        ELSE IF pc[b] \in {"ticketed", "queued"} THEN "waiting" ELSE "loading"]

Gate == INSTANCE LoadGate WITH Tickets <- Backends, owner <- GateOwner

Enqueue(b) == Gate!Enqueue(b) /\ arrivals' = Append(arrivals, b)

\* releaseTicket: a loop that holds no ticket releases nothing.
ReleaseTicket(b) ==
    /\ IF InGate(b) THEN Gate!Release(b) ELSE UNCHANGED <<holder, queue, granted, done>>
    /\ UNCHANGED arrivals

Width(i) == IF conf[i] = NoConf THEN 0 ELSE Len(Gpus[conf[i]])
Of(i) == {b \in Backends : ModelOf(b) = i /\ b[3] <= Width(i)}
Current == {models[p] : p \in 1..Len(models)}
IsSourced(b) == conf[ModelOf(b)] \in Sourced

-----------------------------------------------------------------------------
Init ==
    /\ models = <<>>
    /\ conf = [i \in Instances |-> NoConf]
    /\ applies = 0
    /\ waits = [i \in Instances |-> {}]
    /\ closed = {}
    /\ draining = {}
    /\ drain = [i \in Instances |-> "none"]
    /\ shutdown = "no"
    /\ shutWaits = {}
    /\ fetch = [i \in Instances |-> "no"]
    /\ pc = [b \in Backends |-> "none"]
    /\ proc = [b \in Backends |-> "none"]
    /\ respawns = [b \in Backends |-> 0]
    /\ quick = {}
    /\ served = {}
    /\ holder = NoTicket /\ queue = <<>> /\ granted = {} /\ done = {} /\ arrivals = <<>>

(* Apply: unchanged entries keep their instance, the others get new ones;  *)
(* instances no longer listed drain.  A list with a duplicate name, or a   *)
(* call after Shutdown, is refused and changes nothing.                    *)

\* The instance of entry p of list l: the current one made from an equal
\* entry, or a new one.
IsKept(c) == \E i \in Current : conf[i] = c
InstanceAt(l, p) ==
    IF IsKept(l[p]) THEN CHOOSE i \in Current : conf[i] = l[p] ELSE <<applies + 1, p>>

\* Mutant: a start waits only for the models its own Apply removed.
OwnDrains(removed) == removed

\* The drains the start goroutine waits for: a removed model of an earlier
\* Apply may still hold its GPUs.
AwaitedDrains(removed) == draining \cup removed

Apply(l) ==
    LET next    == [p \in 1..Len(l) |-> InstanceAt(l, p)]
        started == {<<applies + 1, p>> : p \in {q \in 1..Len(l) : ~IsKept(l[q])}}
        removed == Current \ {next[p] : p \in 1..Len(l)}
    IN  /\ shutdown = "no"
        /\ applies < MaxApplies
        /\ applies' = applies + 1
        /\ models' = next
        /\ conf' = [i \in Instances |-> IF i \in started THEN l[i[2]] ELSE conf[i]]
        /\ closed' = closed \cup removed
        /\ draining' = draining \cup removed
        /\ drain' = [i \in Instances |-> IF i \in removed THEN "draining" ELSE drain[i]]
        /\ waits' = [i \in Instances |->
                       IF i \in started THEN AwaitedDrains(removed) ELSE waits[i]]
        /\ pc' = [b \in Backends |->
                    IF ModelOf(b) \in started /\ b[3] <= Len(Gpus[l[b[2]]])
                    THEN "pending" ELSE pc[b]]
        /\ UNCHANGED <<shutdown, shutWaits, fetch, proc, respawns, quick, served, gateVars>>

-----------------------------------------------------------------------------
(* The start goroutine of one Apply.  Its backends are taken round-robin:  *)
(* the first of every new model, then the second of every one, and so on.  *)

Batch(b) == {c \in Backends : c[1] = b[1] /\ pc[c] # "none"}
Before(b, c) == b[3] < c[3] \/ (b[3] = c[3] /\ b[2] < c[2])

\* Mutant: tickets are taken model by model.
StartEnqueueByModel(b) ==
    /\ pc[b] = "pending"
    /\ \A i \in waits[ModelOf(b)] : drain[i] = "done"
    /\ \A c \in Batch(b) : c[2] < b[2] \/ (c[2] = b[2] /\ c[3] < b[3]) => pc[c] # "pending"
    /\ pc' = [pc EXCEPT ![b] = "ticketed"]
    /\ IF IsSourced(b) THEN UNCHANGED gateVars ELSE Enqueue(b)
    /\ UNCHANGED <<supVars, fetch, proc, respawns, quick, served>>

StartEnqueue(b) ==
    /\ pc[b] = "pending"
    /\ \A i \in waits[ModelOf(b)] : drain[i] = "done"
    /\ \A c \in Batch(b) : Before(c, b) => pc[c] # "pending"
    /\ pc' = [pc EXCEPT ![b] = "ticketed"]
    /\ IF IsSourced(b) THEN UNCHANGED gateVars ELSE Enqueue(b)
    /\ UNCHANGED <<supVars, fetch, proc, respawns, quick, served>>

StartLoop(b) ==
    /\ pc[b] = "ticketed"
    /\ \A c \in Batch(b) : pc[c] # "pending" /\ (Before(c, b) => pc[c] # "ticketed")
    /\ IF ModelOf(b) \in closed
       THEN pc' = [pc EXCEPT ![b] = "exited"] /\ ReleaseTicket(b)
       ELSE /\ pc' = [pc EXCEPT ![b] = IF IsSourced(b) THEN "fetching" ELSE "queued"]
            /\ UNCHANGED gateVars
    /\ UNCHANGED <<supVars, fetch, proc, respawns, quick, served>>

-----------------------------------------------------------------------------
(* A backend's loop.  Every return releases the ticket (the defer of run). *)

Exit(b) == pc' = [pc EXCEPT ![b] = "exited"] /\ ReleaseTicket(b)

\* fetch.wait runs the resolver once for all the backends of a model.
FetchEnds(i) ==
    /\ fetch[i] = "no"
    /\ \E b \in Of(i) : pc[b] = "fetching"
    /\ \E r \in {"path", "refused"} : fetch' = [fetch EXCEPT ![i] = r]
    /\ UNCHANGED <<supVars, pc, proc, respawns, quick, served, gateVars>>

ResolveSource(b) ==
    LET i == ModelOf(b)
    IN  /\ pc[b] = "fetching"
        /\ \/ /\ fetch[i] = "path"
              /\ pc' = [pc EXCEPT ![b] = "queued"]
              /\ Enqueue(b)
           \/ /\ fetch[i] = "refused" /\ i \notin closed
              /\ pc' = [pc EXCEPT ![b] = "dead"]
              /\ UNCHANGED gateVars
           \/ /\ fetch[i] # "path" /\ i \in closed
              /\ Exit(b)
        /\ UNCHANGED <<supVars, fetch, proc, respawns, quick, served>>

\* Mutant: the loop does not wait for its grant.
TicketWaitNot(b) ==
    /\ pc[b] = "queued"
    /\ pc' = [pc EXCEPT ![b] = "launch"]
    /\ UNCHANGED <<gateVars, supVars, fetch, proc, respawns, quick, served>>

\* ticket.wait: select may take either case when both are ready.
TicketWait(b) ==
    /\ pc[b] = "queued"
    /\ \/ /\ b \in granted
          /\ pc' = [pc EXCEPT ![b] = "launch"]
          /\ UNCHANGED gateVars
       \/ /\ ModelOf(b) \in closed
          /\ Exit(b)
    /\ UNCHANGED <<supVars, fetch, proc, respawns, quick, served>>

\* launch does not look at the context: a cancelled loop still starts it.
LaunchStarts(b) ==
    /\ pc[b] = "launch"
    /\ proc' = [proc EXCEPT ![b] = "up"]
    /\ pc' = [pc EXCEPT ![b] = "starting"]
    /\ UNCHANGED <<supVars, fetch, respawns, quick, served, gateVars>>

\* Mutant: a backend without a command dies with its ticket.
LaunchNoCommandKeepsTicket(b) ==
    /\ pc[b] = "launch"
    /\ pc' = [pc EXCEPT ![b] = "dead"]
    /\ UNCHANGED <<gateVars, supVars, fetch, proc, respawns, quick, served>>

\* The engine cannot build a command: dead, and the gate is passed on.
LaunchNoCommand(b) ==
    /\ pc[b] = "launch"
    /\ pc' = [pc EXCEPT ![b] = "dead"]
    /\ ReleaseTicket(b)
    /\ UNCHANGED <<supVars, fetch, proc, respawns, quick, served>>

\* The process cannot be started: one probe interval later this is a give-up.
LaunchFails(b) ==
    /\ pc[b] = "launch"
    /\ pc' = [pc EXCEPT ![b] = "retry"]
    /\ UNCHANGED <<supVars, fetch, proc, respawns, quick, served, gateVars>>

\* The ladder gives up: a respawn while the budget lasts, then dead.  act
\* stops the process first, in a step of its own.
GiveUp(b) ==
    /\ pc[b] \in {"retry", "starting", "running"}
    /\ IF respawns[b] < MaxRespawns
       THEN /\ respawns' = [respawns EXCEPT ![b] = @ + 1]
            /\ pc' = [pc EXCEPT ![b] = "respawning"]
       ELSE /\ pc' = [pc EXCEPT ![b] = "dying"]
            /\ UNCHANGED respawns
    /\ UNCHANGED <<supVars, fetch, proc, quick, served, gateVars>>

\* act, ActionRespawn: a ticket still held is kept, none is waited for.
Respawn(b) ==
    /\ pc[b] = "respawning"
    /\ proc' = [proc EXCEPT ![b] = "none"]
    /\ pc' = [pc EXCEPT ![b] = "launch"]
    /\ UNCHANGED <<supVars, fetch, respawns, quick, served, gateVars>>

MarkDead(b) ==
    /\ pc[b] = "dying"
    /\ proc' = [proc EXCEPT ![b] = "none"]
    /\ pc' = [pc EXCEPT ![b] = "dead"]
    /\ ReleaseTicket(b)
    /\ UNCHANGED <<supVars, fetch, respawns, quick, served>>

\* Decision 4: one free retry for a process that exits right after launch.
QuickRetry(b) ==
    /\ pc[b] = "starting" /\ proc[b] = "exited" /\ b \notin quick
    /\ quick' = quick \cup {b}
    /\ pc' = [pc EXCEPT ![b] = "launch"]
    /\ UNCHANGED <<supVars, fetch, proc, respawns, served, gateVars>>

Ready(b) ==
    /\ pc[b] = "starting" /\ proc[b] = "up"
    /\ pc' = [pc EXCEPT ![b] = "running"]
    /\ quick' = quick \ {b}
    /\ served' = served \cup {b}
    /\ ReleaseTicket(b)
    /\ UNCHANGED <<supVars, fetch, proc, respawns>>

\* Ten minutes of unbroken health.
Refill(b) ==
    /\ pc[b] = "running" /\ respawns[b] > 0
    /\ respawns' = [respawns EXCEPT ![b] = 0]
    /\ UNCHANGED <<supVars, fetch, pc, proc, quick, served, gateVars>>

\* Mutant: the loop of a dead backend never returns.
CancelledUnlessDead(b) ==
    /\ pc[b] \in {"retry", "starting", "running"}
    /\ ModelOf(b) \in closed
    /\ Exit(b)
    /\ UNCHANGED <<supVars, fetch, proc, respawns, quick, served>>

Cancelled(b) ==
    /\ pc[b] \in {"retry", "starting", "running", "dead"}
    /\ ModelOf(b) \in closed
    /\ Exit(b)
    /\ UNCHANGED <<supVars, fetch, proc, respawns, quick, served>>

ProcExits(b) ==
    /\ proc[b] = "up"
    /\ proc' = [proc EXCEPT ![b] = "exited"]
    /\ UNCHANGED <<supVars, fetch, pc, respawns, quick, served, gateVars>>

-----------------------------------------------------------------------------
(* The drain goroutine of a model.                                         *)

\* The control states in which run has been entered and has not returned.
LoopStates == {"fetching", "queued", "launch", "retry", "starting", "running",
               "respawning", "dying", "dead"}

\* Mutant: the drain does not wait for the loops.
DrainLoopsNot(i) ==
    /\ drain[i] = "draining"
    /\ drain' = [drain EXCEPT ![i] = "stopping"]
    /\ UNCHANGED <<models, conf, applies, waits, closed, draining, shutdown, shutWaits,
                   loopVars, gateVars>>

\* Nothing in flight, or the grace has passed; then loops.Wait.
DrainLoops(i) ==
    /\ drain[i] = "draining"
    /\ \A b \in Of(i) : pc[b] \notin LoopStates
    /\ drain' = [drain EXCEPT ![i] = "stopping"]
    /\ UNCHANGED <<models, conf, applies, waits, closed, draining, shutdown, shutWaits,
                   loopVars, gateVars>>

DrainStop(b) ==
    /\ drain[ModelOf(b)] = "stopping" /\ proc[b] # "none"
    /\ proc' = [proc EXCEPT ![b] = "none"]
    /\ UNCHANGED <<supVars, fetch, pc, respawns, quick, served, gateVars>>

\* Mutant: the model leaves s.draining before its processes are stopped.
DrainDeleteFirst(i) ==
    /\ drain[i] = "stopping"
    /\ draining' = draining \ {i}
    /\ drain' = [drain EXCEPT ![i] = "deleted"]
    /\ UNCHANGED <<models, conf, applies, waits, closed, shutdown, shutWaits,
                   loopVars, gateVars>>

DrainDelete(i) ==
    /\ drain[i] = "stopping"
    /\ \A b \in Of(i) : proc[b] = "none"
    /\ draining' = draining \ {i}
    /\ drain' = [drain EXCEPT ![i] = "deleted"]
    /\ UNCHANGED <<models, conf, applies, waits, closed, shutdown, shutWaits,
                   loopVars, gateVars>>

DrainClose(i) ==
    /\ drain[i] = "deleted"
    /\ drain' = [drain EXCEPT ![i] = "done"]
    /\ UNCHANGED <<models, conf, applies, waits, closed, draining, shutdown, shutWaits,
                   loopVars, gateVars>>

\* Mutant: Shutdown waits for the models it removes itself.
ShutdownDrainsOwn == Current

\* The drains Shutdown waits for, those of earlier Applies included.
ShutdownDrains == draining \cup Current

Shutdown ==
    /\ shutdown = "no"
    /\ shutdown' = "waiting"
    /\ closed' = closed \cup Current
    /\ draining' = draining \cup Current
    /\ drain' = [i \in Instances |-> IF i \in Current THEN "draining" ELSE drain[i]]
    /\ models' = <<>>
    /\ shutWaits' = ShutdownDrains
    /\ UNCHANGED <<conf, applies, waits, loopVars, gateVars>>

ShutdownReturns ==
    /\ shutdown = "waiting"
    /\ \A i \in shutWaits : drain[i] = "done"
    /\ shutdown' = "returned"
    /\ UNCHANGED <<models, conf, applies, waits, closed, draining, drain, shutWaits,
                   loopVars, gateVars>>

-----------------------------------------------------------------------------
StartStep(b) == StartEnqueue(b) \/ StartLoop(b)

LoopStep(b) ==
    \/ ResolveSource(b) \/ TicketWait(b)
    \/ LaunchStarts(b) \/ LaunchNoCommand(b) \/ LaunchFails(b)
    \/ GiveUp(b) \/ Respawn(b) \/ MarkDead(b) \/ QuickRetry(b) \/ Ready(b)
    \/ Cancelled(b)

DrainStep(i) ==
    \/ DrainLoops(i) \/ DrainDelete(i) \/ DrainClose(i)
    \/ \E b \in Of(i) : DrainStop(b)

Next ==
    \/ \E l \in Lists : Apply(l)
    \/ \E b \in Backends : StartStep(b) \/ LoopStep(b) \/ Refill(b) \/ ProcExits(b)
    \/ \E i \in Instances : FetchEnds(i) \/ DrainStep(i)
    \/ Shutdown
    \/ ShutdownReturns

Spec == Init /\ [][Next]_vars

\* Goroutines run on.  A starting backend becomes ready or is given up when
\* StartupTimeout passes.  A loop that comes back to its select with an ended
\* context takes that case in the end.  A fetch is polled without a limit, so
\* nothing is assumed about its end.
Fairness ==
    /\ \A b \in Backends :
          /\ WF_vars(StartStep(b))
          /\ WF_vars(TicketWait(b) \/ ResolveSource(b))
          /\ WF_vars(LaunchStarts(b) \/ LaunchNoCommand(b) \/ LaunchFails(b))
          /\ WF_vars(pc[b] \in {"retry", "starting"} /\ (GiveUp(b) \/ QuickRetry(b) \/ Ready(b)))
          /\ WF_vars(Respawn(b) \/ MarkDead(b))
          /\ SF_vars(Cancelled(b))
    /\ \A i \in Instances : WF_vars(DrainStep(i))
    /\ WF_vars(ShutdownReturns)

FairSpec == Spec /\ Fairness

-----------------------------------------------------------------------------
(* Properties.                                                             *)

TypeOK ==
    /\ models \in Seq(Instances)
    /\ conf \in [Instances -> Confs \cup {NoConf}]
    /\ applies \in 0..MaxApplies
    /\ waits \in [Instances -> SUBSET Instances]
    /\ closed \subseteq Instances
    /\ draining \subseteq Instances
    /\ drain \in [Instances -> {"none", "draining", "stopping", "deleted", "done"}]
    /\ shutdown \in {"no", "waiting", "returned"}
    /\ shutWaits \subseteq Instances
    /\ fetch \in [Instances -> {"no", "path", "refused"}]
    /\ pc \in [Backends -> {"none", "pending", "ticketed", "exited"} \cup LoopStates]
    /\ proc \in [Backends -> {"none", "up", "exited"}]
    /\ respawns \in [Backends -> 0..MaxRespawns]
    /\ quick \subseteq Backends
    /\ served \subseteq Backends

GpusOf(b) == Gpus[conf[ModelOf(b)]][b[3]]

\* Apply's promise: a process never loads onto a GPU that another process of
\* this node still holds, whatever Applies, drains, starts, respawns and
\* crashes overlap.
GpuExclusive ==
    \A b, c \in Backends :
        b # c /\ proc[b] = "up" /\ proc[c] = "up" => GpusOf(b) \cap GpusOf(c) = {}

\* PIDs() covers every process that runs: its model is current or draining.
ProcessesTracked ==
    \A b \in Backends : proc[b] = "up" => ModelOf(b) \in Current \cup draining

\* When a drain ends (its waiters go on to start other models) the model has
\* neither a process nor a loop that could start one.
DrainedForGood ==
    \A b \in Backends :
        drain[ModelOf(b)] \in {"deleted", "done"} => proc[b] # "up" /\ pc[b] \notin LoopStates

\* Once Shutdown has returned no process runs and no loop is left to start one.
ShutdownLeavesNothing ==
    shutdown = "returned" =>
        \A b \in Backends : proc[b] # "up" /\ pc[b] \notin LoopStates

\* start enqueues the tickets of one Apply round-robin by backend index; a
\* sourced model's backends come when their fetch is done.
RoundRobin ==
    \A p, q \in 1..Len(arrivals) :
        p < q /\ arrivals[p][1] = arrivals[q][1]
              /\ ~IsSourced(arrivals[p]) /\ ~IsSourced(arrivals[q])
        => Before(arrivals[p], arrivals[q])

\* The supervisor uses the gate as LoadGate's specification allows, so the
\* gate's theorems hold of it.
GateRefined == Gate!Spec

\* A started backend is served, is found dead, or is told to stop; only a
\* fetch may keep it waiting for ever.
EveryBackendSettles ==
    \A b \in Backends :
        pc[b] = "pending" ~> pc[b] \in {"fetching", "running", "dead", "exited"}

\* Shutdown returns: no drain waits for ever on a loop, a gate or a process.
ShutdownCompletes == shutdown = "waiting" ~> shutdown = "returned"
=============================================================================
