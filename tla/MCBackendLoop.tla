---------------------------- MODULE MCBackendLoop ----------------------------
(***************************************************************************)
(* BackendLoop for TLC, and its refinement of Supervisor: one backend of   *)
(* one model of one Apply, whose context ends by Shutdown.                 *)
(***************************************************************************)
EXTENDS BackendLoop, Sequences

CONSTANTS m, gpu, none

B == <<1, 1, 1>>
I == <<1, 1>>

If(cond, set) == IF cond THEN set ELSE {}
AtI(x) == [i \in {I} |-> x]
AtB(x) == [b \in {B} |-> x]

Sup ==
    INSTANCE Supervisor WITH
        Confs <- {m}, ModelName <- [c \in {m} |-> m], Gpus <- [c \in {m} |-> <<{gpu}>>],
        Sourced <- {}, Lists <- {<<m>>},
        MaxApplies <- 1, MaxModels <- 1, MaxWidth <- 1, NoConf <- none, NoTicket <- none,
        models <- IF pc = "none" \/ ctxDone THEN <<>> ELSE <<I>>,
        conf <- AtI(IF pc = "none" THEN none ELSE m),
        applies <- IF pc = "none" THEN 0 ELSE 1,
        waits <- AtI({}),
        closed <- If(ctxDone, {I}), draining <- If(ctxDone, {I}),
        drain <- AtI(IF ctxDone THEN "draining" ELSE "none"),
        shutdown <- IF ctxDone THEN "waiting" ELSE "no",
        shutWaits <- If(ctxDone, {I}),
        fetch <- AtI("no"),
        pc <- AtB(pc), proc <- AtB(proc), respawns <- AtB(ladder.respawns),
        quick <- If(quickRetryUsed, {B}), served <- If(served, {B}),
        holder <- IF ticket = "held" THEN B ELSE none,
        queue <- <<>>, granted <- If(ticket # "none", {B}),
        done <- If(ticket = "released", {B}),
        arrivals <- IF ticket = "none" THEN <<>> ELSE <<B>>

\* Every step of the loop with its ladder is a step, or none, of the loop
\* that Supervisor composes, so what holds of Supervisor's holds of this one.
SupervisorRefined == Sup!Spec
=============================================================================
