# Verification of viiwork

viiwork is the software of one node in a fleet of inference hosts.  A node
starts and watches model servers (one process per set of GPUs), routes requests
to its own servers or to other nodes, exchanges capacity reports and model
aliases with them, shares conversations with them, records what it uses, and
updates itself.  This directory holds TLA+ models of it, the configurations that
check them with TLC, and proofs checked by TLAPS.  The code is the reference:
each definition that models code is listed in `PROJECT.json` ("map") with the
lines it stands for.

## 1. Parts and modules

| part | source | module | checked by |
|---|---|---|---|
| load gate | `internal/supervisor/loadgate.go` | `LoadGate` | `node_live`, proofs |
| node supervisor | `internal/supervisor/{supervisor,model,fetch}.go` | `Supervisor` | `supervisor`, `supervisor_wide`, proofs |
| backend loop and health ladder | `internal/supervisor/{loop,ladder,backend,process}.go` | `BackendLoop` | `backend_loop`, proofs |
| engines and what is published of them | `internal/engine/*`, `internal/supervisor/{snapshot,images}.go` | `EngineReports` | `edges` |
| release state, self-update | `internal/update` | `ReleaseUpdate` | `release_update`, `release_prune_race`, proofs |
| managed install and engine helper | `internal/enginesync`, `internal/update/image.go` | `ManagedUpdate` | `upkeep`, proofs |
| llama.cpp builds of the releases | `internal/node/llama.go`, `internal/setup/install/llama*.go` | `LlamaBuilds` | `records` |
| rolling update of the fleet | `internal/updatecli` | `UpdateRollout` | `node_live` |
| router, queue, proxy loop, polls | `internal/route`, `internal/proxy`, `mesh/capacity` | `Router`, `RequestDispatch` | `dispatch_*`, proofs |
| session memory and warm pairs | `internal/route/warm.go` | `WarmSessions` | `edges` |
| request bodies | `internal/proxy/{body,handler}.go` | `RequestBody` | `edges` |
| replies: pieces, capture, thinking | `internal/proxy/{measure,capture,thinking}.go` | `ReplyStream` | `edges` |
| fleet capacity and model list | `internal/proxy/fleet.go`, `internal/discovery` | `FleetView` | `edges` |
| pipelines | `internal/pipeline`, `internal/proxy/pipeline.go` | `Pipelines` | `edges` |
| park, reload, shutdown | `internal/node/{park,reload,node}.go` | `NodeModels` | `node_live`, proofs |
| membership and the poller's tick | `mesh/{mesh,members,delegate}.go`, `mesh/capacity/member.go` | `Membership` | `node_live` |
| mesh keys, name conflicts, joining | `mesh/{mlconfig,delegate,mesh}.go` | `MeshJoin` | `edges` |
| alias table | `internal/alias`, `meshapi/aliases.go` | `AliasTable` | `upkeep` |
| alias command | `internal/aliascli` | `AliasCommand` | `edges` |
| kv replicas, session sharing | `internal/{kvshare,sessionshare}` | `SessionShare` | `node_live`, proofs |
| energy records, client use | `energy`, `internal/clientuse` | `EnergyStore` | `records` |
| power sampling and cost, chassis power | `internal/power`, `internal/cost`, `internal/node/power.go` | `PowerCost` | `records`, proofs |
| performance tracker | `internal/perf` | `PerfTracker` | `records` |
| activity log and stream hub | `internal/activity`, `internal/node/meshstream.go` | `MeshStream` | `records` |
| terminal view | `internal/top` | `TopView` | `edges` |
| GPU telemetry, energy per card | `internal/gpu`, `energy/attribute.go` | `GpuTelemetry` | `edges` |
| download waits | `internal/parrot`, `internal/supervisor/fetch.go` | `ParrotFetch` | `edges` |
| setup, install, uninstall | `internal/setup` | `HostSetup`, `LayoutPlan` | `records` |
| acceptance checks | `internal/accept` | `AcceptChecks` | `edges` |

`PROJECT.json` ("components") says of each part whether all or some of its
operations are modelled.

### How they interact

`Supervisor.Apply` gives each new model a start goroutine, which waits for the
drains of removed models, takes a load ticket for each backend and starts its
loop.  A loop waits for its ticket, launches the process, releases the ticket
when the backend leaves "starting", and from then on asks the ladder what each
probe means.  A drain cancels the loops, waits for them, stops the processes and
tells its waiters.  Reloads and park requests decide the list Apply is called
with.  The router admits requests to a backend whose ladder says "healthy", and
the requests in flight hold back the ladder's decision to stop a process.  What
the engines report becomes the node's capacity; members learn it by polls, which
the membership starts and ends.

The update API changes state.json and asks for a restart; the next process reads
it, decides which binary runs, and a confirmer later makes the release last good
or goes back.  On a managed install a helper on the host follows state.json with
the container.  The rollout command does this for many hosts in waves.

### What is hard to test here

The main entries are in `PROJECT.json` ("hazards"), each at its line with the
properties that would catch it.  The same properties are also about these:

- the order of shutdown, a signal during a reload, a host that never confirms
  (`NodeSafe`, `PartsSettle`);
- a queue at its limit, a request that queues twice (`SlotsTyped`);
- half of a put left by a stopped receiver, a save queued during a push
  (`ShareSafe`, `PartsSettle`);
- laps of the energy ring, a clock set back, a score saved while it changes, the
  answer of a machine that powers itself off (`RecordsTrue`);
- replies cut anywhere, duplicate keys of a body, hosts without slots in a sum,
  pipelines that name pipelines, the session memory at its limit (`ProxySafe`);
- plans that fit on paper only, builds and files a host still needs (`HostSafe`);
- a secret added machine by machine, replays of two processes of one member, an
  alias written again while members are asked (`FleetTrue`);
- loads read before a respawn, stale samples, stalled downloads (`EnginesTrue`);
- a replaced follower that still delivers (`StreamSafe`).

## 2. The models

### LoadGate

One ticket per backend.  `holder` and `queue` are the gate's fields, `granted`
the closed channels, `done` the done flags, `owner` the control state of the
goroutine that owns the ticket, `arrivals` the order of enqueue (history).
`Enqueue`, `Release` and `GrantLocked` are the functions of the same names, each
one step because each holds the gate's mutex.  `WaitCancelled` is enabled also
when the grant is ready, as Go's `select` may choose either.

### Supervisor

A model instance is `<<n, p>>` (n-th Apply, p-th entry), a backend `<<n, p, k>>`.
Everything a critical section of the supervisor does is one action; each
goroutine (start, loop, drain, Shutdown) has a control state and takes one step
per blocking call.  `Gate == INSTANCE LoadGate` supplies the gate's operations,
and `GateRefined` states that the gate is used as `LoadGate` specifies.  A
model's loop context and its closed flag are one set, since `stopLoops` changes
both under one lock.  The ladder is reduced to the choices it can make.
Requests in flight are left out: they only delay a drain, for a bounded time.

### BackendLoop

One backend with its ladder in full.  `ladder` is the Ladder record; each of its
methods is an operator that returns the changed ladder and the action it asks
for.  Times are ages that stop growing at the threshold they are compared with,
so time is unbounded and the state space finite.  Probe results, GPU verdicts,
launch failures, process exits, requests and hard failures are free choices.
`MCBackendLoop` maps it onto `Supervisor` (one backend, one Apply); the property
`SupervisorRefined` shows that the reduced ladder there allows all that this one
does.

### ReleaseUpdate, ManagedUpdate, LlamaBuilds, UpdateRollout

`ReleaseUpdate` begins with the pure part: the two files, what reading them
yields, what a save leaves when it stops early, prune, and the transitions of a
state.  The processes follow: operator requests, confirmer, launcher and host.  A transition under the store's lock is one step whose save succeeds or
stops before either write; what the code does outside that lock (the check
before an activate, prune, the three writes of a follow) is a step of its own,
and the process can end between any two.  A release is a number compared as the
code compares versions; download and signature checks give a staged release or
nothing.  `proven`, `rejected`, `trial`, `handovers`, `wayBack` and `unstaged` are
history and guard nothing; `unstaged` has the releases that were never a
directory because the launcher itself was of that version.

`ManagedUpdate` is the Docker install: the node's transitions and its timer
(`awaitHelper`), and the helper's run (`Sync`) with the compose file, the
container, the record, the host's command and the images as separate steps;
docker refuses to remove the image of a container, as the code expects.
`LlamaBuilds` follows the engine builds that releases pin, `UpdateRollout` the
command that moves a fleet in waves, with hosts that refuse, die, come back late
or whose answer is lost.

### Router, RequestDispatch, WarmSessions

`Router` has what the router knows (the model's local backends and their
requests in flight, the last report of each peer, the lease of each request) and
`Pick`, the slots a request may be given or the error it gets:
`pickWithReportsLocked` with image classes, pins, preferences and local-first or
scored choice.  Scores choose among the hosts that have room by measurements, so
this model allows any of those hosts; `WarmSessions` has the memory of sessions
and the choice it leads to.

The code orders moments: the start of a forward, a refusal, the sending of a
poll.  The model keeps only that order.  A report has the forwards older than its
poll (`before`) and says whether its poll is younger than every refusal
(`sentAfter`).  `unaware`, `missed` and `silent` are history and guard nothing.

`RequestDispatch` adds the queue, the handler's loop of attempts, and the polls.
The router's mutex is one action long, except in `dispatchLocked`: backends and
reports change while it scans, so `scan` goes on one waiter at a time with its
own copy of the reports, and whatever needs the mutex waits for it.  The release
of a local slot does not need it.  A release (`EndLocal`, `Release`) and its
`Wake` are two steps, as in the code, so another request can take the slot in
between.  A peer is external: it builds reports that count the forwards it is
running and others, and admits or refuses a forward.

A new request may take a slot ahead of the queue; the code promises order among
waiters only, and `DispatchFifo` says no more.

### Between client and engine

`RequestBody` decodes bodies of a few fields, repeated and oddly spelled ones
included, with both of the code's readers and compares what an engine gets with
what the client sent.  `ReplyStream` cuts a reply into every sequence of pieces
and follows the writers that watch it; it runs the streamed removal of thinking
twice, with and without its fast paths, and has the repair of a whole reply.
`FleetView` computes the published totals from any reports, `Pipelines`
runs the steps of a pipeline, which may name models, pipelines or nothing.

### The mesh

In `Membership` a member joins, leaves with or without notice and returns;
events go through a buffer that may be full; the poller's tick reads the members
in one step and acts on them in the next.  `MeshJoin` has processes restarting
one by one under an operator's sequence of key settings, and two that claim a
name.  `AliasTable` is the replicated table: writes, merges of broadcasts and of
whole tables, deletions and their purge, the file, failures.  memberlist is
external: broadcasts are lost or reordered at will.

`SessionShare` holds one node's replicas of conversations (chunks with an
origin) and the senders, puts, imports and launches around them.
`MeshStream` is the hub that serves viewers from the local log and from mirrors
of the members, `TopView` the screen at the end of such a stream, `AcceptChecks`
and `AliasCommand` the commands that wait for the fleet to show something.

### Records and hosts

`EnergyStore` counts samples through three tiers of rings of a few slots and the
clients' minutes, hours and totals; every disk write is a step that may fail or
be the last.  `PowerCost` bills the time between updates, and
switches machines on and off; `PerfTracker` scores speed against a baseline;
`GpuTelemetry` keeps samples and divides a minute's energy between the cards.
`EngineReports` has the four engines' probes and figures.  `ParrotFetch` waits
for downloads.  `HostSetup` writes and removes an install one file at a time,
with the command killed, the machine rebooted and the operator's own files in the
way; `LayoutPlan` gives cards to models and is compared with every other layout.

### Composition

    LoadGate  <-- INSTANCE, GateRefined --       Supervisor
    Supervisor <-- INSTANCE, SupervisorRefined -- MCBackendLoop (BackendLoop)
    Router <-- EXTENDS --                        RequestDispatch

LoadGate is the abstract specification of what the supervisor's use of the gate
promises, and Supervisor that of a backend's loop.

`MCNodeLive`, `MCUpkeep`, `MCRecords` and `MCEdges` put parts that do not
interact side by side: `active` names the one part a behaviour is about, the
others keep one initial state.  The state space is the sum of the parts', not
their product.  Properties of these runs are conjunctions of the parts' own,
which are defined and explained in the parts' modules.

## 3. Runs

| run | module | shows |
|---|---|---|
| `supervisor` | `MCSupervisor` | no two processes on one GPU, processes tracked, drains and Shutdown final |
| `supervisor_wide` | `MCSupervisor` | round-robin tickets, refinement of LoadGate, every backend settles, Shutdown returns |
| `backend_loop` | `MCBackendLoop` | respawn budget, bounded launches and outages, grace kept, admission, refinement of Supervisor, no limbo |
| `release_update` | `ReleaseUpdate` | true, proven and staged way back, two starts per trial, a rejected release stays out, a pending one is decided |
| `dispatch_peer` | `MCRequestDispatch` | slots accounted for, overbooking only by forwards no report could count, no return to a peer on evidence older than its refusal |
| `dispatch_queue` | `MCRequestDispatch` | order of the queue, no lost wake, every request answered |
| `node_live` | `MCNodeLive` | the load gate; members tracked; the configured models run and the last edit is applied; no model taken away by a rollout, which goes wave by wave and ends; conversations restored whole, saves that settle |
| `upkeep` | `MCUpkeep` | the container follows the node's release, needed images kept, the host's command only moves to a confirmed release; aliases never go back and converge |
| `records` | `MCRecords` | energy, speed and cost read back were measured, totals only grow, outages are not billed; power requests never take down the node that answers; viewers' streams are complete; hosts installed, planned and taken apart safely |
| `edges` | `MCEdges` | requests and replies unchanged but for what was asked; engine reports true; the fleet is what it is shown to be |
| `dispatch_images` | `MCRequestDispatch` | a disagreement between code and text, see section 6 |
| `release_prune_race` | `ReleaseUpdate` | a disagreement between code and text, see section 6 |

### Bounds

* Load gate: four tickets give a holder, a head, a middle and a tail of the
  queue; a cancelled waiter can be each of them.  The proof has no bound.
* Supervisor: two GPUs and three Applies let a GPU change hands twice, so that a
  start can meet the drain of an Apply before the last.  `MCLists` contains a
  list that needs both GPUs; `SwapOrChain` bounds the run to two Applies with the
  fetched model, or three without it.  The proof of the same invariants has no
  bound.  `supervisor_wide` has one Apply and no respawns: what it asks (order of
  first loads, progress) is decided before one.  Its second list begins with two
  backends of one model and has one that is fetched, so that Shutdown can meet a
  start that waits for a fetch.
* Ladder: the thresholds are the smallest at which strikes, grace, startup,
  refill and budget are all different in effect; time is not bounded.  One
  request in flight holds back a respawn; the ladder only asks whether there is one.
* Releases: last good, the one before it and a newer one.  `OneMishap` keeps the
  third to installs without faults, upgrades or following, and a fault and an
  upgrade apart.  One fault is one failed write, one interrupted prune or one lost
  release, anywhere.  The proofs of the same safety properties have no bound.
* Dispatch: one local slot and one peer slot make every pick contended.
  `MaxChanges` counts polls sent, reports that age, members that leave or return
  and changes of the node: three allow two polls around a refusal and one more
  event.  A queue of one, with two requests, is full while one runs or waits.
  The proofs of the safety properties have no bound.
* `node_live`: two members and an event buffer of one, so that an event of one
  is dropped for the other's; one model edited twice and parked twice around one
  request; three hosts, enough for two of one model in different waves and an
  entry node, two polls per wait and two troubles; two senders of one
  conversation, three saves, two chunks, one fault.
* `upkeep`: three releases, three operator acts, one fault and one crash (two
  acts when both happened, `ActsOrTrouble`), three attempts, two rounds of the
  node's wait; two nodes, one alias, three
  writes, versions up to two, one purge, one failed save and one crash.
* `records`: rings of two minutes, one hour and one day, lapped several times in
  nine clock steps, with one fault, and the seconds a bucket covers counted up to
  `MaxCovered`; two configurations and two speeds of one
  model; one card, two days; one viewer, one request per node, two generations
  of followers; two machines, two power requests; three cards and two models; four
  releases, one without a pin, over three builds; an install with a binary or an
  engine directory of the operator's in its way and one step that gets stuck.
* `edges`: streams of four chunks, some twice as long as others, against a
  buffer of two, and texts of six lines; replies of three events
  in pieces of up to four letters against a window of two; bodies of three
  fields, keys in another case among them; two peers; three hosts and three sessions with a memory of two; a
  ring of three samples over six clock steps; three processes, two of one name, and six settings of
  the secret; two processes of a member seen by the screen; three members of the
  alias command.  Each is the smallest at which the limits in the code (full,
  wrapped, stale, evicted, stalled) are met and passed.

Deadlock is checked in `backend_loop` and in `release_update`.  Elsewhere the
system may stop: all tickets released, Shutdown returned, all requests answered,
a command finished, or the bounds used up.

### Fairness

Goroutines that can run do run (weak fairness per goroutine).  A load ends
because `StartupTimeout` bounds it.  A loop with an ended context takes that case
of its `select` in the end, though other cases are ready again and again (strong
fairness: Go's `select` chooses at random among ready cases).  Time passes.  The
service manager starts the node again and a requested restart happens.  The
confirmer's window ends if a look finds no fetch again and again (strong
fairness: a look that finds one extends the window); that a look finds the node
fit to confirm is not assumed.  Nothing is assumed of a fetch, which is polled
without a limit, of crashes, of operators or of requests.  In `dispatch_queue` an attempt ends, the tick ticks, and a
goroutine that waits for the router's mutex gets it though scans come again and
again (strong fairness: Go's mutex does not starve a waiter); nothing is assumed
of queue timeouts, cancellations or polls.

In `node_live` and `upkeep` the fairness of a part is the antecedent of its
property (`active = "models" /\ NodeFairness => ...`), as the parts' fairness
differs: `MeshFairness` (memberlist's failure detector, the ticker, the
dispatcher; no leave notice is assumed to arrive), `NodeFairness` (the node's
goroutines), `ShareFairness` (workers and handlers; saves and puts end at their
timeouts), `RolloutFairness` (the command alone, no host is assumed to come back
or answer), `ManFairness` (docker restarts the node, the helper's timer runs it),
`AliasFairness` (the periodic exchange of whole tables; nothing of broadcasts).

## 4. Proofs

Proved with TLAPS for every value of the constants that satisfies the named
assumptions (`NoTicketAssumption`, `ConstantsAssumption`, `RouterAssumption`,
`DispatchAssumption`, `VersionAssumption`, `DayAssumption`, `AbsentAssumption`,
`BoundAssumption`; TLC evaluates each of them on a run).  Requests, backends
and peers are assumed finite; nothing else is bounded in number.

| theorem | module | property |
|---|---|---|
| `MutualExclusion` | `LoadGateProofs` | `OneLoadAtATime` |
| `NoLostGrant` | `LoadGateProofs` | `NeverStuck` |
| `FifoService` | `LoadGateProofs` | `FirstComeFirstServed` |
| `GpuExclusion` | `SupervisorProofs` | `GpuExclusive` |
| `PidsComplete` | `SupervisorProofs` | `ProcessesTracked` |
| `DrainFinal` | `SupervisorProofs` | `DrainedForGood` |
| `ShutdownFinal` | `SupervisorProofs` | `ShutdownLeavesNothing` |
| `StartIsRoundRobin` | `SupervisorProofs` | `RoundRobin` |
| `GateImplemented` | `SupervisorProofs` | `GateRefined` (refinement of `LoadGate`) |
| `NodeLoadsOneAtATime` | `SupervisorProofs` | `OneFirstLoad` |
| `BudgetsAreKept` | `BackendLoopProofs` | `BudgetsKept` |
| `AdmittedBackendIsWatched` | `BackendLoopProofs` | `AdmittedIsWatched` |
| `GraceIsKept` | `BackendLoopProofs` | `GraceKept` |
| `WaysBackAreSafe` | `ReleaseUpdateProofs` | `WaysBackSafe` |
| `RejectedReleaseStaysOut` | `ReleaseUpdateProofs` | `RejectedStaysOut` |
| `SlotsSafe` | `RequestDispatchProofs` | `SlotsTyped` |
| `OverbookingSafe` | `RequestDispatchProofs` | `OverbookedOnlyByMissed` |
| `WakeupsSafe` | `RequestDispatchProofs` | `NoLostWakeup` |
| `RefusalsRespected` | `RequestDispatchProofs` | `NotSentBack` |
| `ScanIsFifo` | `RequestDispatchProofs` | `DispatchFifo` |
| `NodeIsSafe` | `PartsProofs` | `NodeSafe` |
| `ShareIsSafe` | `PartsProofs` | `ShareSafe` |
| `ImagesAreKept` | `PartsProofs` | `ImagesKept` |
| `CliIsConfirmed` | `PartsProofs` | `CliConfirmed` (part of `HelperFollows`) |
| `OutagesNotBilled` | `PartsProofs` | `OutageNotBilled` |
| `TodayIsMeasured` | `PartsProofs` | `TodayWasMeasured` (part of `RecordsTrue`) |
| `PowerSparesEntry` | `PartsProofs` | `PowerKeepsEntry` (part of `RecordsTrue`) |

Each rests on an inductive invariant.  The larger ones are theorems of their own
(`InvCorrect`, `LoopInvariant`, `ReleaseInvariant`, `DispatchInvariant`), those of
`PartsProofs` lemmas.

**LoadGate.**  `GateInv` ties the gate's fields to the owners: a holder is
granted and alive, queued tickets are distinct, wait and are not granted, a
loading owner is the holder, and a waiting owner is the holder or queued.
Mutual exclusion alone is not inductive: a grant could meet a loading owner that
is not the holder.  `OrderInv` adds that the queue is in the order of arrival.

**Supervisor.**  `GpuInv` has one named conjunct per idea.  Its heart is `Apart`:
of two instances that could meet on a GPU, one is gone, or the start of one
waits for the drain of the other.  With `StartedLate` (past "pending", all the
awaited drains are done), `StoppedLoops` and `GoneStopped` (what a drain has
established when it moves on) exclusion follows.  The assumption that a list
names each GPU once is `ValidList`, the rule of `config/validate.go`.
`ShutdownInv` says that whatever was started is waited for or gone, `RoundsInv`
that no backend is ahead of one before it in its rounds.  For the refinement,
`TicketsMatch` says what the control state of each loop means for its ticket;
then every step of the supervisor is one step of `LoadGate` or none, and the
gate's own theorems hold of the node (`NodeLoadsOneAtATime`).

**BackendLoop.**  A lemma per method of the ladder says what it returns.
`LoopInv` relates the ladder to the loop (`StateMatchesLoop`), the launches made
to what was spent for them (`SpendingPaid`), health to observations
(`HealthIsObserved`), and the age of an outage to strikes and deferral
(`OutageCounted`): without it a respawn could be put off again and again.

**ReleaseUpdate.**  `ReleaseInv` adds to the property that a pending release is
the current one, that a start was counted before it was made (`TrialCounted`),
that what prune works from still names every way back, however the state has
moved since (`SnapshotCovers`), and that neither the current release nor last
good was rolled back (`NotRejected`).  Half of a save is the reason for the
lemmas about `LoadPrevious`: a `previous` that belongs to another last good is
not read.

**RequestDispatch.**  `DispatchInv` (in `DispatchSlots`, with the lemmas on
slots, queue and scan) has five layers.  `SlotInv`: where a request is goes with
what it holds, and a backend's count is the number of its holders.
`ScanInOrder`: a scan is at one place of the queue, and an unpinned waiter it
passed was refused for what closes it to those behind.  `CountsInv`
(`DispatchReports`): a report counts every forward older than its poll, except the
missed ones, so a peer that has room by its report has room but for those.
`KnownInv`: a refusal that a report does not know of has made it useless or is
about to.  `WaitersBlocked`: while no wake is on its way, nobody who waits has a
slot.  The last one needs all the others: a slot may get free by a release, a
refusal, an accepted report or a change of the node, and each of these
announces itself.  That a scan holding reports of its own leaves nobody behind
is because a pick cannot tell them from the last ones unless something is still
to be announced (`SameReport`, `Stirred`).  `Counting` collects the facts on
finite sets; it is proved in `RequestDispatchProofs`, with the theorems.

**The parts of `PartsProofs`.**  Four specifications that share no state, each with
its own invariant.

`NodeModels`: `NodeSafe` speaks of the moments when applyMu is free.  `UnderLock`
says what holds while a reload or a park request has it: the supervisor already
runs the new list, or still runs what the parked set was before.  Pruning the
parked set is harmless because a parked model that is no longer configured makes
no difference to what runs (`UnparkedPruned`).

`ManagedUpdate`: `ImagesInv` adds what a run of the helper carries from step to
step (`HelperTrue`: its copy of the record, and the image to go back to while the
new container is started).  Without it a crash and a new run could collect what
the last run's record names.

`SessionShare`: `StoreInv` ties the replica to the one put that may be changing it.
Whoever writes holds the key's lock (`PutsLocked`), the replica is marked
incomplete while sections of it change (`PutsPatch`), and a complete one either
is one save of one sender or carries the digest of one, which the assembly
compares (`ReplicaTrue`).  `ImportInv` carries this to the file an engine is about
to be given, and numbers the puts, so that no import is recorded with a later
one than the launch was given; `ClosingInv` says that a closed node has no push.

`PowerCost`: `PowerInv` says that the tracker has a time to bill from only when the
last Update was available, and that what is billed fits between `billedFrom` and
that Update; `ChassisInv` counts the commands a request has made by the stage it
is in, and keeps the entry node on.

Only model-checked:

- liveness, as fairness is beyond the prover (`EveryBackendSettles`,
  `ShutdownCompletes`, `NeverLimbo`, `PendingDecided`, `EveryoneAnswered`,
  `MembersTracked`, `PartsSettle`, `HelperFollows`, `AliasesAgree`);
- `SupervisorRefined`, whose abstract side is an instance of the whole supervisor
  and whose mapping is defined in `MCBackendLoop`;
- `RolloutOrderly`, `RanKept` (part of `HelperFollows`) and the order of the alias
  entries: the waves are a fold, the history of a host is filtered and the table
  is sorted, and what a fold, a filter or a sort returns needs induction over
  data, which is out of the prover's reach;
- `StreamSafe`, and the other parts of `records` and `edges`.  What the recursive
  definitions of the pure ones compute (plans, bodies, texts, sums) is compared
  with reference definitions over bounded inputs, for the same reason.

## 5. Not modelled

* Release signing and archive formats, mesh authentication and the signing of
  forwards: what matters there is cryptography, which a model would assume.  A
  stage yields a verified release or nothing; a forward that does not verify is a
  failed attempt.
* The model catalog, gguf headers, join codes, configuration checks other than
  those named above, tariffs, the parsing of tool and sensor output, engines'
  command lines: functions without state that changes, and of no shared
  resource.  Their results are inputs of the models.
* Finding interfaces, tailnet peers and mDNS answers: input from the host.
* The web pages, drawing and keys of the terminal view, the MCP bridge, the
  release and kvsync programs: presentation or wiring of the parts above.
* The adoption of another power source by the energy store, the saturation test
  and port echoes of the acceptance checks, prompts of the pipelines.
* In the modelled parts: logging, wording, HTTP headers, and the contents of
  commands and requests beyond what is named in the modules.

## 6. Disagreements found

Each of these is a run that TLC ends with a counterexample; `PROJECT.json`
("findings") quotes the texts.

1. `release_prune_race`: the confirmer prunes after the store's lock is released,
   from the state it confirmed.  A release activated in between is not among the
   kept ones and may be deleted.
2. `dispatch_images`: a waiter with an image is skipped behind one without that
   found no slot, and is not told that no host reads images.

## 7. What the code also does

Met while modelling, and allowed by the models: the properties above are stated
so that they hold with these.  A maintainer may want to know them.

*Updates.*  Once the launcher has followed the first confirmed release, "builtin"
is that release, and a rollback to it runs what was rolled back.  A follow that
stops after writing cli.json orphans the launcher of an earlier follow.  One
failed save ends the confirmer with its release pending, and so does a fetch that
never ends, which extends its window at every look (`PendingDecided` excludes
both).  On a managed install a
crash between the compose file and the container leaves the old container until
the next change; one between the swap and the record loses the release from the
history; an image prepared for a staged release may be collected while another is
followed.  A crash between the removals of gc and the save of the record leaves
the name of a removed image in it (`ImagesKept` asks only for the last stage's).
That the last two releases stay on the host is checked for record writes that
succeed (`RanKept`).  A stage that ends between a confirm's two prunes loses its llama.cpp
build.  Two rollouts at once can take down all hosts of a model, and a model
parked after the plan is made counts as served.  So does one that a host is still
loading or fetching: a wave may take the only host that serves a model while the
other one that lists it does not serve yet, though `docs/releases.md:339-342`
says that "a model served by two or more machines never goes offline" (served by
two it does not; listed by two it may).  `RolloutOrderly` asks that one
of the hosts that list a model is left as it was: serving, or still loading.  A host that fetches without
end keeps the command waiting (`PartsSettle` excludes it).

*Requests.*  The comment that nothing changes the reports while the router's
mutex is held (`internal/route/queue.go:167-168`) is not true of polls; nothing
depends on it.  The fast path of the thinking rewriter differs from the slow one
for a second opening tag inside a block: the slow path starts its buffer anew, so
what a later finish_reason salvages depends on the path.  A chunk inside a block
that has both reasoning and a finish_reason is buffered whole, the client gets
neither that finish_reason nor what was buffered, though the comment of
`streamThinkDisabled` (`internal/proxy/thinking.go:277-279`) promises the
salvage; `AnswerKept` is about a finish_reason in a chunk without reasoning.  A
salvage is what `extractCleanContent` picks, not all that was buffered.  A key of
a body in another case ("Model") is the field to the full decode and not to the
fast scan: which one routes the request depends on the rest of the body, and when
such a model resolves, the exact key is added beside it.  `stream_options: null` overrides the injected member.
A pipeline step that spells a pipeline's name in another case is not recognised
as one when the pipelines are loaded.

*Mesh.*  Replacing a secret host by host splits the mesh while it lasts.  Two
processes of one name, both older than the conflict window, keep it; two young
ones may both end, and the entry a dead predecessor left ends a young one that
comes from another address.  Expired
alias tombstones may travel back and forth between nodes that purge at different
times; versions start again after a purge, so a set made then may lose to the old
delete another node still holds; a revert does not count against the limit of
aliases.  `alias rm`
counts a member that never had the alias, and a write whose answer is lost exits
1 though it was stored.  A FreeToken engine's load is read from any JSON document
at `/v1/stats`: a stranger on the port reads as idle (its probe refuses it).

*Sharing.*  A put planned on a stale manifest leaves a mixture that is recorded
as complete; the digest check refuses it when it is assembled.  The record of an
import may name an older version than the engine was given.

*Records and views.*  Published client totals may fall if a save of the totals
failed and the minute was then rewritten.  A crash between the minute and the
hour leaves that hour low.  A sampler that stalled calls an old value fresh for
one interval.  With two samples only, an outage becomes a card's recording
period.  A request in flight across a reconfiguration is recorded under the new
one.  A subscriber whose buffer is full misses events, and a gap longer than the
replay is not repaired.  A forwarded power action whose answer is lost is repeated
out-of-band, whatever the action, and an error may follow a command that ran;
two nodes that switch each other off at once both get their way (the model has
one request at a time).  The seconds a day's bucket covers (16 bits) stop
at 65535.  A request shown without a process number can outlive its process
on the screen, and one whose end was told under another number than it is shown
under stays there until a reconnect, though `internal/top/state.go:262-264` says
the view "can under-report but never invent work".  The streams are followed for one viewer: viewers share only the log and the
mirrors, which no viewer changes.

*Hosts.*  A file the operator creates after init's preflight is overwritten.  So
is their own viiwork binary, when the helper is added to an install that did not
write one; the binary put there is on no manifest and an uninstall
leaves it, though the comment of `AddEngineHelper`
(`internal/setup/install/engine.go:64-68`) says "uninstall can undo".  An enable that fails
half-way leaves a helper that no manifest names.  A
manifest left by a killed init names paths that were not created, and an
uninstall then removes what the operator put there.  An engine helper added and
not yet recorded when the command is killed stays.  On a Mac an interrupted write
leaves the launch agent for the next login.

## 8. Next

Proofs: the merge of alias entries as a join (commutative, associative,
idempotent), `SupervisorRefined`, `StreamSafe`.
