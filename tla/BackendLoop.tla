----------------------------- MODULE BackendLoop -----------------------------
(***************************************************************************)
(* internal/supervisor: one backend's supervision loop (loop.go) with its  *)
(* health ladder (ladder.go) in full, its process, and the requests that   *)
(* are in flight on it.  The load gate is reduced to the backend's ticket; *)
(* MCBackendLoop shows that this loop does only what Supervisor's does.    *)
(*                                                                         *)
(* Time passes in probe intervals.  The times the code stores are kept as  *)
(* ages, each stopping at the threshold it is compared with, so that time  *)
(* itself is unbounded.  due says that the ticker (or the sleep) of this   *)
(* interval has fired and the loop has not taken it yet.                   *)
(***************************************************************************)
EXTENDS Integers

CONSTANTS
    MaxFailures, RespawnGrace, MaxRespawns, StartupTimeout, RespawnRefill,
    QuickExitWindow, WarmUp,
    MaxInFlight     \* bound: requests in flight on the backend

ASSUME ConstantsAssumption ==
    /\ MaxFailures \in Nat \ {0} /\ RespawnGrace \in Nat /\ MaxRespawns \in Nat
    /\ StartupTimeout \in Nat \ {0} /\ RespawnRefill \in Nat \ {0}
    /\ QuickExitWindow \in Nat /\ WarmUp \in Nat /\ MaxInFlight \in Nat

Never == -1     \* an unset time.Time

VARIABLES
    pc,         \* where the start goroutine, then the loop is
    proc,       \* the backend's process
    ladder,     \* its Ladder
    quickRetryUsed, launchAge, readyAge, gpuDecided,
    ticket,     \* the loop's load ticket: none, held, released
    kick,       \* the kick channel holds a token
    inFlight,
    ctxDone,    \* the loop's context has ended
    due,
    \* history: respawns since the budget could last refill, age of the
    \* unbroken run of ready observations, age of the outage, launches since
    \* the backend was last healthy, whether it ever was
    spree, readyRun, downAge, launches, served

loopVars == <<pc, proc, ladder, quickRetryUsed, launchAge, readyAge, gpuDecided, ticket>>
histVars == <<spree, readyRun, downAge, launches, served>>
vars == <<loopVars, kick, inFlight, ctxDone, due, histVars>>

-----------------------------------------------------------------------------
(* ladder.go: each method takes the ladder and returns it changed, with    *)
(* the action it calls for.                                                *)

NewLadder ==
    [state |-> "starting", startAge |-> 0, healthyAge |-> Never, strikes |-> 0,
     respawns |-> 0, hardFailure |-> FALSE, condemned |-> FALSE, deferredAge |-> Never]

\* No ladder exists before the first launch; State() then says starting.
NoLadder == [NewLadder EXCEPT !.startAge = Never]

ClearTransient(l) == [l EXCEPT !.strikes = 0, !.hardFailure = FALSE, !.deferredAge = Never]

Result(l, a) == [ladder |-> l, action |-> a]

\* Mutant: requests in flight do not delay the end of the process.
GiveUpAtOnce(l, alive, n) ==
    LET ended == [l EXCEPT !.deferredAge = Never, !.strikes = 0]
    IN  IF l.respawns >= MaxRespawns
        THEN Result([ended EXCEPT !.state = "dead"], "markDead")
        ELSE Result([ended EXCEPT !.respawns = @ + 1], "respawn")

GiveUp(l, alive, n) ==
    LET draining == alive /\ n > 0 /\ RespawnGrace > 0
        deferred == IF draining /\ l.deferredAge = Never THEN 0 ELSE l.deferredAge
        ended    == [l EXCEPT !.deferredAge = Never, !.strikes = 0]
    IN  IF draining /\ deferred < RespawnGrace
        THEN Result([l EXCEPT !.deferredAge = deferred], "none")
        ELSE IF l.respawns >= MaxRespawns
        THEN Result([ended EXCEPT !.state = "dead"], "markDead")
        ELSE Result([ended EXCEPT !.respawns = @ + 1], "respawn")

\* Mutant: a live process may load for ever.
ObserveStartingPatient(l, ready, alive) ==
    IF ready
    THEN Result(ClearTransient([l EXCEPT !.state = "healthy", !.healthyAge = 0]), "none")
    ELSE IF alive THEN Result(l, "none") ELSE GiveUp(l, alive, 0)

ObserveStarting(l, ready, alive) ==
    IF ready
    THEN Result(ClearTransient([l EXCEPT !.state = "healthy", !.healthyAge = 0]), "none")
    ELSE IF alive /\ l.startAge < StartupTimeout
    THEN Result(l, "none")
    ELSE GiveUp(l, alive, 0)

\* Mutant: the budget refills on every recovery, as v1 did.
ObserveReadyRefills(l) ==
    Result(ClearTransient([l EXCEPT !.state = "healthy", !.healthyAge = 0, !.respawns = 0]), "none")

ObserveReady(l) ==
    LET age == IF l.state = "unhealthy" THEN 0 ELSE l.healthyAge
        up  == ClearTransient([l EXCEPT !.state = "healthy", !.healthyAge = age])
    IN  Result(IF age >= RespawnRefill THEN [up EXCEPT !.respawns = 0] ELSE up, "none")

\* Strikes beyond MaxFailures make no difference and are not counted.
ObserveFailed(l, alive, n) ==
    LET strikes == IF l.hardFailure \/ ~alive \/ l.strikes >= MaxFailures
                   THEN MaxFailures ELSE l.strikes + 1
        down    == [l EXCEPT !.state = "unhealthy", !.strikes = strikes, !.hardFailure = FALSE]
    IN  IF strikes < MaxFailures THEN Result(down, "none") ELSE GiveUp(down, alive, n)

\* Mutant: a condemned backend keeps the state it has.
ObserveCondemnedAsIs(l, ready, alive, n) ==
    IF l.state = "dead" THEN Result(l, "none")
    ELSE IF l.condemned THEN GiveUp(l, alive, n)
    ELSE IF l.state = "starting" THEN ObserveStarting(l, ready, alive)
    ELSE IF ready THEN ObserveReady(l)
    ELSE ObserveFailed(l, alive, n)

Observe(l, ready, alive, n) ==
    IF l.state = "dead" THEN Result(l, "none")
    ELSE IF l.condemned THEN GiveUp([l EXCEPT !.state = "unhealthy"], alive, n)
    ELSE IF l.state = "starting" THEN ObserveStarting(l, ready, alive)
    ELSE IF ready THEN ObserveReady(l)
    ELSE ObserveFailed(l, alive, n)

Condemn(l) == IF l.state = "dead" THEN l ELSE [l EXCEPT !.condemned = TRUE]

MarkDead(l) == [l EXCEPT !.state = "dead"]

Restarted(l) ==
    IF l.state = "dead" THEN l
    ELSE ClearTransient([l EXCEPT !.state = "starting", !.startAge = 0, !.condemned = FALSE])
-----------------------------------------------------------------------------
Init ==
    /\ pc = "none" /\ proc = "none" /\ ladder = NoLadder
    /\ quickRetryUsed = FALSE /\ launchAge = Never /\ readyAge = Never
    /\ gpuDecided = FALSE /\ ticket = "none"
    /\ kick = FALSE /\ inFlight = 0 /\ ctxDone = FALSE /\ due = FALSE
    /\ spree = 0 /\ readyRun = Never /\ downAge = Never /\ launches = 0 /\ served = FALSE

\* Apply, then the start goroutine: enqueue the ticket, start the loop unless
\* the model has been closed; the loop waits for its ticket.
Start ==
    /\ \/ pc = "none" /\ ~ctxDone /\ pc' = "pending" /\ UNCHANGED ticket
       \/ pc = "pending" /\ pc' = "ticketed" /\ ticket' = "held"
       \/ pc = "ticketed" /\ ~ctxDone /\ pc' = "queued" /\ UNCHANGED ticket
       \/ pc = "queued" /\ pc' = "launch" /\ UNCHANGED ticket
    /\ UNCHANGED <<proc, ladder, quickRetryUsed, launchAge, readyAge, gpuDecided,
                   kick, inFlight, ctxDone, due, histVars>>

LaunchStarts ==
    /\ pc = "launch"
    /\ proc' = "up" /\ pc' = "starting"
    /\ ladder' = IF ladder = NoLadder THEN NewLadder ELSE Restarted(ladder)
    /\ launchAge' = 0 /\ readyAge' = Never /\ gpuDecided' = FALSE
    /\ due' = FALSE
    /\ readyRun' = Never /\ downAge' = Never /\ launches' = launches + 1
    /\ UNCHANGED <<quickRetryUsed, ticket, kick, inFlight, ctxDone, spree, served>>

LaunchNoCommand ==
    /\ pc = "launch"
    /\ pc' = "dead" /\ ticket' = "released"
    /\ ladder' = MarkDead(IF ladder = NoLadder THEN NewLadder ELSE ladder)
    /\ UNCHANGED <<proc, quickRetryUsed, launchAge, readyAge, gpuDecided,
                   kick, inFlight, ctxDone, due, histVars>>

LaunchFails ==
    /\ pc = "launch"
    /\ pc' = "retry"
    /\ ladder' = IF ladder = NoLadder THEN NewLadder ELSE ladder
    /\ due' = FALSE
    /\ readyRun' = Never /\ downAge' = Never /\ launches' = launches + 1
    /\ UNCHANGED <<proc, quickRetryUsed, launchAge, readyAge, gpuDecided, ticket,
                   kick, inFlight, ctxDone, spree, served>>

\* The history an observation leaves: r is the ladder's answer.
Observed(r) ==
    LET up == r.ladder.state = "healthy"
    IN  /\ readyRun' = IF ~up THEN Never ELSE IF readyRun = Never THEN 0 ELSE readyRun
        /\ downAge' = IF r.ladder.state # "unhealthy" THEN Never
                      ELSE IF downAge = Never THEN 0 ELSE downAge
        /\ spree' = IF r.action = "respawn" THEN spree + 1
                    ELSE IF up /\ readyRun >= RespawnRefill THEN 0 ELSE spree
        /\ launches' = IF up THEN 0 ELSE launches
        /\ served' = (served \/ up)

\* act: the process is stopped in a step of its own (Respawn, Die).
Act(action, stay) ==
    pc' = CASE action = "respawn" -> "respawning" [] action = "markDead" -> "dying"
            [] OTHER -> stay

\* A start that failed outright is observed after one interval.
StartFailed ==
    /\ pc = "retry" /\ due
    /\ LET r == Observe(ladder, FALSE, FALSE, 0)
       IN  ladder' = r.ladder /\ Observed(r) /\ Act(r.action, "launch")
    /\ due' = FALSE
    /\ UNCHANGED <<proc, quickRetryUsed, launchAge, readyAge, gpuDecided, ticket,
                   kick, inFlight, ctxDone>>

\* The tick of starting(), or its process has exited.
StartingWakes == pc = "starting" /\ (due \/ proc = "exited")

QuickExit == proc = "exited" /\ ~quickRetryUsed /\ launchAge < QuickExitWindow

QuickRetry ==
    /\ StartingWakes /\ QuickExit
    /\ quickRetryUsed' = TRUE
    /\ pc' = "launch" /\ due' = FALSE
    /\ UNCHANGED <<proc, ladder, launchAge, readyAge, gpuDecided, ticket,
                   kick, inFlight, ctxDone, histVars>>

\* warmedUp: the age of the unbroken ready run after this probe.
WarmedUpAge(ready) == IF ~ready THEN Never ELSE IF readyAge = Never THEN 0 ELSE readyAge

\* checkGPU: no verdict yet, a good or unknown one, or a wrong one.
CheckGPU(l) ==
    IF gpuDecided THEN {[ladder |-> l, decided |-> TRUE]}
    ELSE {[ladder |-> l, decided |-> FALSE], [ladder |-> l, decided |-> TRUE],
          [ladder |-> Condemn(l), decided |-> TRUE]}

StartingProbe ==
    /\ StartingWakes /\ ~QuickExit
    /\ due' = FALSE
    /\ \E answer \in {FALSE, proc = "up"} :
          LET ready == answer /\ WarmedUpAge(answer) >= WarmUp
              r     == Observe(ladder, ready, proc = "up", 0)
          IN  /\ readyAge' = WarmedUpAge(answer)
              /\ Observed(r)
              /\ IF r.ladder.state = "healthy"
                 THEN /\ pc' = "running" /\ quickRetryUsed' = FALSE /\ ticket' = "released"
                      /\ \E c \in CheckGPU(r.ladder) : ladder' = c.ladder /\ gpuDecided' = c.decided
                 ELSE /\ Act(r.action, "starting") /\ ladder' = r.ladder
                      /\ UNCHANGED <<quickRetryUsed, ticket, gpuDecided>>
    /\ UNCHANGED <<proc, launchAge, kick, inFlight, ctxDone>>

\* probeTick: checkGPU, probe, observe, act.
ProbeTick ==
    /\ pc = "running"
    /\ \E c \in CheckGPU(ladder), ready \in {FALSE, proc = "up"} :
          LET r == Observe(c.ladder, ready, proc = "up", inFlight)
          IN  /\ gpuDecided' = c.decided
              /\ ladder' = r.ladder /\ Observed(r) /\ Act(r.action, "running")
    /\ UNCHANGED <<proc, quickRetryUsed, launchAge, readyAge, ticket, inFlight, ctxDone>>

TickerProbe == due /\ due' = FALSE /\ UNCHANGED kick /\ ProbeTick
KickProbe == kick /\ kick' = FALSE /\ UNCHANGED due /\ ProbeTick

\* The process's Done channel is closed: it is acted on at once.
ProcDone ==
    /\ pc = "running" /\ proc = "exited"
    /\ LET r == Observe(ladder, FALSE, FALSE, inFlight)
       IN  ladder' = r.ladder /\ Observed(r) /\ Act(r.action, "running")
    /\ UNCHANGED <<proc, quickRetryUsed, launchAge, readyAge, gpuDecided, ticket,
                   kick, inFlight, ctxDone, due>>

\* Mutant: the old process is left running.
RespawnNoStop ==
    /\ pc = "respawning"
    /\ pc' = "launch"
    /\ UNCHANGED <<proc, ladder, quickRetryUsed, launchAge, readyAge, gpuDecided, ticket,
                   kick, inFlight, ctxDone, due, histVars>>

\* act stops the process; a respawn keeps a ticket it still holds.
Respawn ==
    /\ pc = "respawning"
    /\ proc' = "none" /\ pc' = "launch"
    /\ UNCHANGED <<ladder, quickRetryUsed, launchAge, readyAge, gpuDecided, ticket,
                   kick, inFlight, ctxDone, due, histVars>>

Die ==
    /\ pc = "dying"
    /\ proc' = "none" /\ pc' = "dead" /\ ticket' = "released"
    /\ UNCHANGED <<ladder, quickRetryUsed, launchAge, readyAge, gpuDecided,
                   kick, inFlight, ctxDone, due, histVars>>

\* The context ends while the loop waits, sleeps or is dead, or before it
\* starts.  run's defer releases the ticket; the process is left alone.
Cancelled ==
    /\ ctxDone
    /\ pc \in {"ticketed", "queued", "retry", "starting", "running", "dead"}
    /\ pc' = "exited" /\ ticket' = "released"
    /\ UNCHANGED <<proc, ladder, quickRetryUsed, launchAge, readyAge, gpuDecided,
                   kick, inFlight, ctxDone, due, histVars>>

-----------------------------------------------------------------------------
(* The process, the requests the router sends, the owner, and time.        *)

ProcExits ==
    /\ proc = "up"
    /\ proc' = "exited"
    /\ UNCHANGED <<pc, ladder, quickRetryUsed, launchAge, readyAge, gpuDecided, ticket,
                   kick, inFlight, ctxDone, due, histVars>>

Acquire ==
    /\ ladder.state = "healthy" /\ inFlight < MaxInFlight
    /\ inFlight' = inFlight + 1
    /\ UNCHANGED <<loopVars, kick, ctxDone, due, histVars>>

Release ==
    /\ inFlight > 0
    /\ inFlight' = inFlight - 1
    /\ UNCHANGED <<loopVars, kick, ctxDone, due, histVars>>

\* A request met a transport failure; it still holds its slot.  The failure
\* may be that of a process that has been replaced since.
NoteHardFailure ==
    /\ inFlight > 0
    /\ ladder' = [ladder EXCEPT !.hardFailure = TRUE]
    /\ kick' = TRUE
    /\ UNCHANGED <<pc, proc, quickRetryUsed, launchAge, readyAge, gpuDecided, ticket,
                   inFlight, ctxDone, due, histVars>>

Cancel ==
    /\ pc # "none" /\ ~ctxDone
    /\ ctxDone' = TRUE
    /\ UNCHANGED <<loopVars, kick, inFlight, due, histVars>>

Waiting == {"retry", "starting", "running"}
AgeUpTo(age, limit) == IF age = Never \/ age >= limit THEN age ELSE age + 1
OutageLimit == MaxFailures - 1 + RespawnGrace

\* One probe interval passes.  A loop that waits takes every tick.
Tick ==
    /\ pc \in Waiting => ~due
    /\ due' = (pc \in Waiting)
    /\ launchAge' = AgeUpTo(launchAge, StartupTimeout + QuickExitWindow)
    /\ readyAge' = AgeUpTo(readyAge, WarmUp)
    /\ ladder' = [ladder EXCEPT !.startAge = AgeUpTo(@, StartupTimeout),
                                !.healthyAge = AgeUpTo(@, RespawnRefill),
                                !.deferredAge = AgeUpTo(@, RespawnGrace)]
    /\ readyRun' = AgeUpTo(readyRun, RespawnRefill)
    /\ downAge' = AgeUpTo(downAge, OutageLimit + 1)
    /\ UNCHANGED <<pc, proc, quickRetryUsed, gpuDecided, ticket,
                   kick, inFlight, ctxDone, spree, launches, served>>

-----------------------------------------------------------------------------
LoopStep ==
    \/ Start \/ LaunchStarts \/ LaunchNoCommand \/ LaunchFails
    \/ StartFailed \/ QuickRetry \/ StartingProbe
    \/ TickerProbe \/ KickProbe \/ ProcDone \/ Respawn \/ Die \/ Cancelled

Next ==
    \/ LoopStep
    \/ ProcExits \/ Acquire \/ Release \/ NoteHardFailure \/ Cancel \/ Tick

Spec == Init /\ [][Next]_vars

\* The goroutine runs, time passes, and select takes the ticker in the end
\* however many kicks there are.
Fairness == WF_vars(LoopStep) /\ WF_vars(TickerProbe) /\ WF_vars(Tick)

FairSpec == Spec /\ Fairness

-----------------------------------------------------------------------------
(* Properties.                                                             *)

Ages(limit) == Never..limit

TypeOK ==
    /\ pc \in {"none", "pending", "ticketed", "queued", "launch", "retry", "starting",
               "running", "respawning", "dying", "dead", "exited"}
    /\ proc \in {"none", "up", "exited"}
    /\ ladder \in [state : {"starting", "healthy", "unhealthy", "dead"},
                   startAge : Ages(StartupTimeout), healthyAge : Ages(RespawnRefill),
                   strikes : 0..MaxFailures, respawns : 0..MaxRespawns,
                   hardFailure : BOOLEAN, condemned : BOOLEAN,
                   deferredAge : Ages(RespawnGrace)]
    /\ launchAge \in Ages(StartupTimeout + QuickExitWindow)
    /\ readyAge \in Ages(WarmUp)
    /\ ticket \in {"none", "held", "released"}
    /\ inFlight \in 0..MaxInFlight
    /\ {quickRetryUsed, gpuDecided, kick, ctxDone, due, served} \subseteq BOOLEAN
    /\ spree \in Nat /\ launches \in Nat
    /\ readyRun \in Ages(RespawnRefill) /\ downAge \in Ages(OutageLimit + 1)

\* Decision 1 of ladder.go: the budget refills only after a whole refill
\* period of unbroken health, so between two such periods there are at most
\* MaxRespawns respawns, whatever the crashes, failed starts and recoveries.
RespawnBudget == spree <= MaxRespawns

\* Decision 4 of loop.go: one free retry.  A backend that never gets healthy
\* is launched at most once for each respawn, once at first, and once more.
LaunchesBounded == launches <= MaxRespawns + 2

\* A backend that stops answering is answered for within MaxFailures probes
\* and the grace period: by then it is healthy again or being stopped, and
\* neither requests in flight nor flapping causes prolong the outage.
OutageBounded == pc = "running" => downAge <= OutageLimit

\* A live process with requests in flight is stopped only when the backend
\* has been unhealthy for the whole grace period.
GraceKept ==
    [][pc = "running" /\ pc' \in {"respawning", "dying"} /\ proc = "up" /\ inFlight > 0
       => RespawnGrace <= IF downAge = Never THEN 0 ELSE downAge]_vars

\* The router admits requests (state healthy) only to a backend whose loop
\* watches its process, or has left that to its owner.
AdmittedIsWatched == ladder.state = "healthy" => pc \in {"running", "exited"}

\* The load gate is not kept closed by a backend that is up, dead or gone.
GateGivenBack == pc \in {"running", "dead", "exited"} => ticket # "held"

\* What a backend may spend, taken together: respawns, launches, time without
\* an answer and the load gate, each bounded whatever fails and recovers.
BudgetsKept == TypeOK /\ RespawnBudget /\ LaunchesBounded /\ OutageBounded /\ GateGivenBack

\* A backend is never in limbo: again and again it is found healthy with a
\* live process, or it has been given up for good, or its loop has ended.
NeverLimbo ==
    pc # "none" ~> \/ ladder.state = "healthy" /\ proc = "up"
                   \/ pc \in {"dead", "exited"}
=============================================================================
