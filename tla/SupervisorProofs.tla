-------------------------- MODULE SupervisorProofs --------------------------
(* The supervisor, for any lists of models, any number of Applies and any  *)
(* interleaving: a process never starts on a GPU that another one holds, a *)
(* drain and a Shutdown are final, a start takes its backends in rounds,   *)
(* and the load gate is used as its own specification allows.              *)
EXTENDS Supervisor, TLAPS

Gone(i) == drain[i] \in {"deleted", "done"}

\* No backend of i shares a GPU with one of j.
Separate(i, j) ==
    \A k \in 1..Len(Gpus[conf[i]]), m \in 1..Len(Gpus[conf[j]]) :
        Gpus[conf[i]][k] \cap Gpus[conf[j]][m] = {}

(* The inductive invariant, conjunct by conjunct.  Its heart is Apart: of  *)
(* two models that could meet on a GPU, one is gone, or the other's start  *)
(* waits for its drain.                                                    *)
FutureFree == \A i \in Instances : i[1] > applies => conf[i] = NoConf
PcConfigured ==
    \A b \in Backends : pc[b] # "none" =>
       conf[ModelOf(b)] # NoConf /\ b[3] <= Len(Gpus[conf[ModelOf(b)]])
ProcLaunched ==
    \A b \in Backends : proc[b] # "none" => pc[b] \notin {"none", "pending", "ticketed"}
StartedLate ==
    \A b \in Backends : pc[b] \notin {"none", "pending"} =>
       \A i \in waits[ModelOf(b)] : drain[i] = "done"
CurrentUndrained ==
    \A p \in 1..Len(models) : conf[models[p]] # NoConf /\ drain[models[p]] = "none"
DrainClosed == \A i \in Instances : drain[i] # "none" => i \in closed /\ conf[i] # NoConf
DrainingMarks ==
    \A i \in Instances : i \in draining <=> drain[i] \in {"draining", "stopping"}
ConfTracked == \A i \in Instances : conf[i] # NoConf => i \in Current \/ drain[i] # "none"
StoppedLoops ==
    \A b \in Backends : drain[ModelOf(b)] \in {"stopping", "deleted", "done"} =>
       pc[b] \notin LoopStates
GoneStopped == \A b \in Backends : Gone(ModelOf(b)) => proc[b] = "none"
OwnGpus ==
    \A i \in Instances : conf[i] # NoConf =>
       \A k, m \in 1..Len(Gpus[conf[i]]) :
          k # m => Gpus[conf[i]][k] \cap Gpus[conf[i]][m] = {}
Apart ==
    \A i, j \in Instances : conf[i] # NoConf /\ conf[j] # NoConf /\ i # j =>
       Separate(i, j) \/ Gone(i) \/ Gone(j) \/ i \in waits[j] \/ j \in waits[i]

GpuInv ==
    /\ TypeOK /\ FutureFree /\ PcConfigured /\ ProcLaunched /\ StartedLate
    /\ CurrentUndrained /\ DrainClosed /\ DrainingMarks /\ ConfTracked
    /\ StoppedLoops /\ GoneStopped /\ OwnGpus /\ Apart

-----------------------------------------------------------------------------
\* A backend belongs to one model instance and has a number in it.
LEMMA ModelOfType ==
    ASSUME NEW b \in Backends
    PROVE  ModelOf(b) \in Instances /\ ModelOf(b)[1] = b[1] /\ ModelOf(b)[2] = b[2]
           /\ b[3] \in 1..MaxWidth
  BY Zenon DEF Backends, Instances, ModelOf

\* Backends of one instance with the same number are the same backend.
LEMMA BackendEq ==
    ASSUME NEW b \in Backends, NEW c \in Backends, ModelOf(b) = ModelOf(c), b[3] = c[3]
    PROVE  b = c
  BY DEF Backends, ModelOf

\* The supervisor of the first configured list satisfies the invariant.
LEMMA InitInv == Init => GpuInv
  <1> SUFFICES ASSUME Init PROVE GpuInv
    BY Zenon
  <1>1. TypeOK
    BY ConstantsAssumption DEF Init, TypeOK, LoopStates
  <1>2. \A b \in Backends : ModelOf(b) \in Instances
    BY Zenon, ModelOfType
  <1> QED
    BY <1>1, <1>2 DEF Init, GpuInv, Gone, Current, FutureFree, PcConfigured, ProcLaunched,
       StartedLate, CurrentUndrained, DrainClosed, DrainingMarks, ConfTracked, StoppedLoops,
       GoneStopped, OwnGpus, Apart

\* A step of a start goroutine or of a loop changes the pc of one backend
\* that start has reached, and may start or stop its process.
LEMMA LoopChange ==
    ASSUME GpuInv, TypeOK', UNCHANGED supVars,
           NEW b \in Backends, NEW x, x \notin {"none", "pending"},
           pc' = [pc EXCEPT ![b] = x],
           pc[b] # "none",
           \A i \in waits[ModelOf(b)] : drain[i] = "done",
           x \in LoopStates => drain[ModelOf(b)] \notin {"stopping", "deleted", "done"},
           x = "ticketed" => pc[b] = "pending",
           \/ proc' = proc
           \/ \E y : /\ proc' = [proc EXCEPT ![b] = y]
                     /\ y # "none" => x \in LoopStates \/ proc[b] # "none"
    PROVE  GpuInv'
  <1>1. /\ models' = models /\ conf' = conf /\ applies' = applies /\ waits' = waits
        /\ closed' = closed /\ draining' = draining /\ drain' = drain
    BY Zenon DEF supVars
  <1>2. \A c \in Backends : ModelOf(c) \in Instances
    BY Zenon, ModelOfType
  <1>3. \A c \in Backends : pc'[c] = IF c = b THEN x ELSE pc[c]
    BY Zenon DEF GpuInv, TypeOK
  <1>4. \A c \in Backends : c # b => proc'[c] = proc[c]
    BY DEF GpuInv, TypeOK
  <1>5. proc'[b] # "none" => x \in LoopStates \/ proc[b] # "none"
    BY DEF GpuInv, TypeOK
  <1>6. Current' = Current /\ \A i \in Instances : Gone(i)' = Gone(i)
    BY Zenon, <1>1 DEF Current, Gone
  <1>7. \A i, j \in Instances : Separate(i, j)' = Separate(i, j)
    BY Zenon, <1>1 DEF Separate
  <1>8. \A c \in Backends : proc'[c] # "none" => pc'[c] \notin {"none", "pending", "ticketed"}
    BY Zenon, <1>3, <1>4, <1>5 DEF GpuInv, LoopStates, ProcLaunched
  <1>9. \A c \in Backends : pc'[c] \notin {"none", "pending"} =>
          \A i \in waits[ModelOf(c)] : drain[i] = "done"
    BY Zenon, <1>3 DEF GpuInv, StartedLate
  <1>10. \A c \in Backends : drain[ModelOf(c)] \in {"stopping", "deleted", "done"} =>
          pc'[c] \notin LoopStates
    BY Zenon, <1>3 DEF GpuInv, StoppedLoops
  <1>11. \A c \in Backends : Gone(ModelOf(c)) => proc'[c] = "none"
    <2> SUFFICES ASSUME NEW c \in Backends, Gone(ModelOf(c)) PROVE proc'[c] = "none"
      BY Zenon
    <2>1. CASE c # b
      BY Zenon, <2>1, <1>4 DEF GpuInv, GoneStopped
    <2>2. CASE c = b
      BY Zenon, <2>2, <1>5 DEF GpuInv, Gone, GoneStopped, StoppedLoops
    <2> QED BY Zenon, <2>1, <2>2
  <1>12. \A c \in Backends : pc'[c] # "none" =>
          conf[ModelOf(c)] # NoConf /\ c[3] <= Len(Gpus[conf[ModelOf(c)]])
    BY Zenon, <1>3 DEF GpuInv, PcConfigured
  <1>13. FutureFree' /\ CurrentUndrained' /\ DrainClosed' /\ DrainingMarks' /\ ConfTracked'
    BY Zenon, <1>1, <1>6 DEF GpuInv, FutureFree, CurrentUndrained, DrainClosed, DrainingMarks, ConfTracked
  <1>14. PcConfigured' /\ ProcLaunched' /\ StartedLate'
    BY Zenon, <1>1, <1>8, <1>9, <1>12 DEF PcConfigured, ProcLaunched, StartedLate
  <1>15. StoppedLoops' /\ GoneStopped'
    BY Zenon, <1>1, <1>2, <1>6, <1>10, <1>11 DEF StoppedLoops, GoneStopped
  <1>16. OwnGpus' /\ Apart'
    BY Zenon, <1>1, <1>6, <1>7 DEF GpuInv, OwnGpus, Apart
  <1> QED
    BY Zenon, <1>13, <1>14, <1>15, <1>16 DEF GpuInv

-----------------------------------------------------------------------------
(* Type correctness, action by action.                                     *)

\* The instances a new list runs, kept and fresh, are all instances.
LEMMA ApplyNext ==
    ASSUME TypeOK, NEW l \in Lists, applies < MaxApplies
    PROVE  /\ \A p \in 1..Len(l) : InstanceAt(l, p) \in Instances
           /\ [p \in 1..Len(l) |-> InstanceAt(l, p)] \in Seq(Instances)
           /\ l \in Seq(Confs)
           /\ \A p \in 1..Len(l) : <<applies + 1, p>> \in Instances
  <1>1. l \in Seq(Confs) /\ Len(l) <= MaxModels /\ Len(l) \in Nat /\ MaxModels \in Nat
        /\ MaxApplies \in Nat /\ applies \in 0..MaxApplies
    BY ConstantsAssumption DEF TypeOK
  <1>2. \A p \in 1..Len(l) : <<applies + 1, p>> \in Instances
    BY <1>1 DEF Instances
  <1>3. Current \subseteq Instances
    BY DEF Current, TypeOK
  <1>4. ASSUME NEW p \in 1..Len(l) PROVE InstanceAt(l, p) \in Instances
    <2>1. CASE IsKept(l[p])
      BY Zenon, <2>1, <1>3 DEF IsKept, InstanceAt
    <2>2. CASE ~IsKept(l[p])
      BY Zenon, <2>2, <1>2 DEF InstanceAt
    <2> QED BY Zenon, <2>1, <2>2
  <1>5. [p \in 1..Len(l) |-> InstanceAt(l, p)] \in [1..Len(l) -> Instances]
    BY Zenon, <1>4
  <1> QED
    BY <1>1, <1>2, <1>4, <1>5

\* Supervisor.Apply keeps every variable in its type.
LEMMA TypeApply == ASSUME TypeOK, NEW l \in Lists, Apply(l) PROVE TypeOK'
  <1> DEFINE next == [p \in 1..Len(l) |-> InstanceAt(l, p)]
             started == {<<applies + 1, p>> : p \in {q \in 1..Len(l) : ~IsKept(l[q])}}
             removed == Current \ {next[p] : p \in 1..Len(l)}
  <1>1. applies < MaxApplies /\ applies' = applies + 1
    BY Zenon DEF Apply, AwaitedDrains
  <1>2. applies' \in 0..MaxApplies
    BY <1>1, ConstantsAssumption DEF TypeOK
  <1>3. next \in Seq(Instances) /\ l \in Seq(Confs) /\ started \subseteq Instances
    BY Zenon, <1>1, ApplyNext
  <1>4. removed \subseteq Instances
    BY DEF Current, TypeOK
  <1> HIDE DEF removed, started, next
  <1>5. models' \in Seq(Instances)
    BY Zenon, <1>3 DEF Apply, AwaitedDrains, next
  <1>6. conf' \in [Instances -> Confs \cup {NoConf}]
    <2>1. \A i \in started : l[i[2]] \in Confs
      BY <1>3 DEF started
    <2>2. conf' = [i \in Instances |-> IF i \in started THEN l[i[2]] ELSE conf[i]]
      BY Zenon DEF Apply, AwaitedDrains, started
    <2> QED BY Zenon, <2>1, <2>2 DEF TypeOK
  <1>7. closed' \subseteq Instances /\ draining' \subseteq Instances
    BY Zenon, <1>4 DEF Apply, AwaitedDrains, TypeOK, removed, next
  <1>8. drain' \in [Instances -> {"none", "draining", "stopping", "deleted", "done"}]
    BY Zenon DEF Apply, AwaitedDrains, TypeOK
  <1>9. waits' \in [Instances -> SUBSET Instances]
    <2>1. waits' = [i \in Instances |->
                       IF i \in started THEN draining \cup removed ELSE waits[i]]
      BY Zenon DEF Apply, AwaitedDrains, started, removed, next
    <2> QED BY Zenon, <2>1, <1>4 DEF TypeOK
  <1>10. pc' \in [Backends -> {"none", "pending", "ticketed", "exited"} \cup LoopStates]
    BY Zenon DEF Apply, AwaitedDrains, TypeOK
  <1> QED
    BY Zenon, <1>2, <1>5, <1>6, <1>7, <1>8, <1>9, <1>10 DEF Apply, AwaitedDrains, TypeOK

\* Every step keeps every variable in its type.
LEMMA TypeStep == TypeOK /\ [Next]_vars => TypeOK'
  <1> SUFFICES ASSUME TypeOK, [Next]_vars PROVE TypeOK'
    BY Zenon
  <1>0. MaxRespawns \in Nat
    BY Zenon, ConstantsAssumption
  <1> USE DEF TypeOK, LoopStates, supVars, loopVars, gateVars
  <1>1. ASSUME NEW l \in Lists, Apply(l) PROVE TypeOK'
    BY Zenon, <1>1, TypeApply
  <1>2. ASSUME NEW b \in Backends, StartStep(b) PROVE TypeOK'
    BY SMTT(30), <1>2 DEF StartStep, StartEnqueue, StartLoop
  <1>3. ASSUME NEW b \in Backends, LoopStep(b) PROVE TypeOK'
    <2>1. CASE ResolveSource(b) \/ TicketWait(b) \/ Cancelled(b)
      BY ZenonT(40), <2>1 DEF ResolveSource, TicketWait, Cancelled, Exit
    <2>2. CASE LaunchStarts(b) \/ LaunchNoCommand(b) \/ LaunchFails(b)
      BY ZenonT(40), <2>2 DEF LaunchStarts, LaunchNoCommand, LaunchFails
    <2>3. CASE GiveUp(b)
      <3>1. respawns' \in [Backends -> 0..MaxRespawns]
        BY <2>3, <1>0 DEF GiveUp
      <3> QED BY ZenonT(40), <2>3, <3>1 DEF GiveUp
    <2>4. CASE Respawn(b) \/ MarkDead(b) \/ QuickRetry(b) \/ Ready(b)
      BY ZenonT(40), <2>4 DEF Respawn, MarkDead, QuickRetry, Ready
    <2> QED BY Zenon, <1>3, <2>1, <2>2, <2>3, <2>4 DEF LoopStep
  <1>4. ASSUME NEW b \in Backends, Refill(b) \/ ProcExits(b) PROVE TypeOK'
    <2>1. CASE Refill(b)
      <3>1. respawns' \in [Backends -> 0..MaxRespawns]
        BY <2>1, <1>0 DEF Refill
      <3> QED BY Zenon, <2>1, <3>1 DEF Refill
    <2>2. CASE ProcExits(b)
      BY Zenon, <2>2 DEF ProcExits
    <2> QED BY Zenon, <1>4, <2>1, <2>2
  <1>5. ASSUME NEW i \in Instances, FetchEnds(i) PROVE TypeOK'
    BY SMTT(30), <1>5 DEF FetchEnds
  <1>6. ASSUME NEW i \in Instances, DrainStep(i) PROVE TypeOK'
    <2>1. CASE DrainLoops(i)
      BY Zenon, <2>1 DEF DrainLoops
    <2>3. CASE DrainDelete(i)
      BY Zenon, <2>3 DEF DrainDelete
    <2>4. CASE DrainClose(i)
      BY Zenon, <2>4 DEF DrainClose
    <2>2. CASE \E b \in Of(i) : DrainStop(b)
      BY <2>2 DEF DrainStop, Of
    <2> QED BY Zenon, <1>6, <2>1, <2>2, <2>3, <2>4 DEF DrainStep
  <1>7. CASE Shutdown
    BY <1>7 DEF Shutdown, ShutdownDrains, Current
  <1>8. CASE ShutdownReturns
    BY Zenon, <1>8 DEF ShutdownReturns
  <1>9. CASE UNCHANGED vars
    BY Zenon, <1>9 DEF vars
  <1> QED
    BY Zenon, <1>1, <1>2, <1>3, <1>4, <1>5, <1>6, <1>7, <1>8, <1>9 DEF Next

-----------------------------------------------------------------------------
(* The steps that keep the invariant.                                      *)

\* The start goroutine, a backend loop and an exiting process keep the invariant: a
\* process is launched only by a loop whose predecessors on its GPUs are gone.
LEMMA StartLoopSteps ==
    ASSUME GpuInv, TypeOK', NEW b \in Backends, StartStep(b) \/ LoopStep(b) \/ ProcExits(b)
    PROVE  GpuInv'
  <1> DEFINE i == ModelOf(b)
  <1>0. i \in Instances /\ TypeOK
    BY Zenon, ModelOfType DEF GpuInv
  <1> USE DEF LoopStates
  <1>a. pc[b] \in LoopStates => pc[b] # "none" /\ drain[i] \notin {"stopping", "deleted", "done"}
          /\ \A j \in waits[i] : drain[j] = "done"
    BY Zenon DEF GpuInv, StoppedLoops, StartedLate
  <1>1. CASE StartEnqueue(b)
    BY ZenonT(40), <1>1, <1>0, LoopChange DEF StartEnqueue
  <1>2. CASE StartLoop(b)
    <2>1. pc[b] = "ticketed" /\ \A j \in waits[i] : drain[j] = "done"
      BY Zenon, <1>2 DEF StartLoop, GpuInv, StartedLate
    <2>2. i \notin closed => drain[i] = "none"
      BY Zenon, <1>0 DEF GpuInv, TypeOK, DrainClosed
    <2> QED BY Zenon, <1>2, <2>1, <2>2, LoopChange DEF StartLoop
  <1>3. CASE ResolveSource(b)
    BY ZenonT(40), <1>3, <1>a, LoopChange DEF ResolveSource, Exit
  <1>4. CASE TicketWait(b)
    BY Zenon, <1>4, <1>a, LoopChange DEF TicketWait, Exit
  <1>5. CASE LaunchStarts(b)
    <2>1. proc' = [proc EXCEPT ![b] = "up"] /\ pc' = [pc EXCEPT ![b] = "starting"]
          /\ UNCHANGED supVars /\ pc[b] = "launch"
      BY Zenon, <1>5 DEF LaunchStarts
    <2> QED BY ZenonT(40), <2>1, <1>a, LoopChange
  <1>6. CASE LaunchNoCommand(b)
    BY ZenonT(40), <1>6, <1>a, LoopChange DEF LaunchNoCommand
  <1>7. CASE LaunchFails(b)
    BY ZenonT(40), <1>7, <1>a, LoopChange DEF LaunchFails
  <1>8. CASE GiveUp(b)
    BY Zenon, <1>8, <1>a, LoopChange DEF GiveUp
  <1>9. CASE Respawn(b)
    <2>1. proc' = [proc EXCEPT ![b] = "none"] /\ pc' = [pc EXCEPT ![b] = "launch"]
          /\ UNCHANGED supVars /\ pc[b] = "respawning"
      BY Zenon, <1>9 DEF Respawn
    <2> QED BY ZenonT(40), <2>1, <1>a, LoopChange
  <1>10. CASE MarkDead(b)
    <2>1. proc' = [proc EXCEPT ![b] = "none"] /\ pc' = [pc EXCEPT ![b] = "dead"]
          /\ UNCHANGED supVars /\ pc[b] = "dying"
      BY Zenon, <1>10 DEF MarkDead
    <2> QED BY ZenonT(40), <2>1, <1>a, LoopChange
  <1>11. CASE QuickRetry(b)
    BY ZenonT(40), <1>11, <1>a, LoopChange DEF QuickRetry
  <1>12. CASE Ready(b)
    BY ZenonT(40), <1>12, <1>a, LoopChange DEF Ready
  <1>13. CASE Cancelled(b)
    BY ZenonT(40), <1>13, <1>a, LoopChange DEF Cancelled, Exit
  <1>14. CASE ProcExits(b)
    <2>1. proc' = [proc EXCEPT ![b] = "exited"] /\ pc' = [pc EXCEPT ![b] = pc[b]]
          /\ UNCHANGED supVars /\ proc[b] = "up"
      BY <1>14, <1>0 DEF ProcExits, TypeOK
    <2>2. /\ pc[b] \notin {"none", "pending", "ticketed"}
          /\ \A j \in waits[i] : drain[j] = "done"
      BY Zenon, <2>1 DEF GpuInv, ProcLaunched, StartedLate
    <2> QED BY ZenonT(40), <2>1, <2>2, <1>a, LoopChange
  <1> QED
    BY Zenon, <1>1, <1>2, <1>3, <1>4, <1>5, <1>6, <1>7, <1>8, <1>9, <1>10, <1>11, <1>12,
       <1>13, <1>14 DEF StartStep, LoopStep

\* A drain goroutine moves on: its loops have ended, and where it leaves
\* s.draining its processes are gone.
LEMMA DrainChange ==
    ASSUME GpuInv, TypeOK', NEW i \in Instances, NEW x \in {"stopping", "deleted", "done"},
           drain' = [drain EXCEPT ![i] = x], drain[i] \notin {"none", "done"},
           x = "stopping" => drain[i] = "draining",
           draining' = IF x = "stopping" THEN draining ELSE draining \ {i},
           UNCHANGED <<models, conf, applies, waits, closed, pc, proc>>,
           \A b \in Backends : ModelOf(b) = i => pc[b] \notin LoopStates,
           x # "stopping" => \A b \in Backends : ModelOf(b) = i => proc[b] = "none"
    PROVE  GpuInv'
  <1>1. \A j \in Instances : drain'[j] = IF j = i THEN x ELSE drain[j]
    BY DEF GpuInv, TypeOK
  <1>2. \A b \in Backends : ModelOf(b) \in Instances
    BY Zenon, ModelOfType
  <1>3. \A j \in Instances : Gone(j)' <=> Gone(j) \/ (j = i /\ x # "stopping")
    BY Zenon, <1>1 DEF Gone
  <1>4. Current' = Current /\ \A j, k \in Instances : Separate(j, k)' = Separate(j, k)
    BY Zenon DEF Current, Separate
  <1>5. waits \in [Instances -> SUBSET Instances] /\ models \in Seq(Instances)
    BY Zenon DEF GpuInv, TypeOK
  <1>6. FutureFree' /\ PcConfigured' /\ ProcLaunched' /\ OwnGpus'
    BY Zenon DEF GpuInv, FutureFree, PcConfigured, ProcLaunched, OwnGpus
  <1>7. StartedLate'
    <2> SUFFICES ASSUME NEW b \in Backends, pc[b] \notin {"none", "pending"},
                        NEW j \in waits[ModelOf(b)]
                 PROVE  drain'[j] = "done"
      BY Zenon DEF StartedLate
    <2>1. drain[j] = "done" /\ j \in Instances
      BY Zenon, <1>2, <1>5 DEF GpuInv, StartedLate
    <2> QED BY Zenon, <2>1, <1>1
  <1>8. CurrentUndrained'
    <2> SUFFICES ASSUME NEW p \in 1..Len(models)
                 PROVE  conf[models[p]] # NoConf /\ drain'[models[p]] = "none"
      BY Zenon DEF CurrentUndrained
    <2>1. models[p] \in Instances
      BY SMTT(30), <1>5
    <2> QED BY Zenon, <2>1, <1>1 DEF GpuInv, CurrentUndrained
  <1>9. DrainClosed' /\ DrainingMarks' /\ ConfTracked'
    BY SMTT(30), <1>1, <1>4 DEF GpuInv, DrainClosed, DrainingMarks, ConfTracked
  <1>10. StoppedLoops'
    BY Zenon, <1>1, <1>2 DEF GpuInv, StoppedLoops
  <1>11. GoneStopped'
    BY Zenon, <1>2, <1>3 DEF GpuInv, GoneStopped
  <1>12. Apart'
    BY Zenon, <1>3, <1>4 DEF GpuInv, Apart
  <1> QED
    BY Zenon, <1>6, <1>7, <1>8, <1>9, <1>10, <1>11, <1>12 DEF GpuInv

\* A drain keeps the invariant: it reports done only once the loops of its
\* instance are stopped.
LEMMA DrainSteps ==
    ASSUME GpuInv, TypeOK', NEW i \in Instances, DrainStep(i)
    PROVE  GpuInv'
  <1>0. TypeOK /\ \A c \in Backends : ModelOf(c) \in Instances
    BY Zenon, ModelOfType DEF GpuInv
  <1>a. \A b \in Backends : ModelOf(b) = i /\ pc[b] # "none" => b \in Of(i)
    BY Zenon DEF GpuInv, PcConfigured, Of, Width
  <1>1. CASE DrainLoops(i)
    <2>1. /\ drain[i] = "draining" /\ drain' = [drain EXCEPT ![i] = "stopping"]
          /\ \A b \in Of(i) : pc[b] \notin LoopStates
          /\ UNCHANGED <<models, conf, applies, waits, closed, draining, pc, proc>>
      BY Zenon, <1>1 DEF DrainLoops, loopVars
    <2>2. \A b \in Backends : ModelOf(b) = i => pc[b] \notin LoopStates
      BY Zenon, <1>a, <2>1 DEF LoopStates
    <2> QED
      BY ZenonT(40), <2>1, <2>2, DrainChange
  <1>2. CASE DrainDelete(i)
    <2>1. /\ drain[i] = "stopping" /\ drain' = [drain EXCEPT ![i] = "deleted"]
          /\ draining' = draining \ {i}
          /\ \A b \in Of(i) : proc[b] = "none"
          /\ UNCHANGED <<models, conf, applies, waits, closed, pc, proc>>
      BY Zenon, <1>2 DEF DrainDelete, loopVars
    <2>2. \A b \in Backends : ModelOf(b) = i => proc[b] = "none" /\ pc[b] \notin LoopStates
      BY Zenon, <1>a, <2>1 DEF GpuInv, ProcLaunched, StoppedLoops
    <2> QED
      BY ZenonT(40), <2>1, <2>2, DrainChange
  <1>3. CASE DrainClose(i)
    <2>1. /\ drain[i] = "deleted" /\ drain' = [drain EXCEPT ![i] = "done"]
          /\ UNCHANGED <<models, conf, applies, waits, closed, draining, pc, proc>>
      BY Zenon, <1>3 DEF DrainClose, loopVars
    <2>2. draining' = draining \ {i}
      BY Zenon, <2>1 DEF GpuInv, DrainingMarks
    <2>3. \A b \in Backends : ModelOf(b) = i => proc[b] = "none" /\ pc[b] \notin LoopStates
      BY Zenon, <2>1 DEF GpuInv, GoneStopped, StoppedLoops, Gone
    <2> QED
      BY ZenonT(40), <2>1, <2>2, <2>3, DrainChange
  <1>4. ASSUME NEW b \in Of(i), DrainStop(b) PROVE GpuInv'
    <2>1. b \in Backends /\ proc' = [proc EXCEPT ![b] = "none"] /\ pc' = [pc EXCEPT ![b] = pc[b]]
          /\ UNCHANGED supVars /\ proc[b] # "none"
      BY Zenon, <1>4, <1>0 DEF DrainStop, TypeOK, Of
    <2>2. /\ pc[b] \notin {"none", "pending", "ticketed"}
          /\ \A j \in waits[ModelOf(b)] : drain[j] = "done"
          /\ pc[b] \in LoopStates => drain[ModelOf(b)] \notin {"stopping", "deleted", "done"}
      BY Zenon, <2>1 DEF GpuInv, ProcLaunched, StartedLate, StoppedLoops
    <2> QED BY ZenonT(40), <2>1, <2>2, LoopChange
  <1> QED
    BY Zenon, <1>1, <1>2, <1>3, <1>4 DEF DrainStep

\* Two entries of a valid list share no GPU, nor do two backends of one entry.
LEMMA ListSeparate ==
    ASSUME NEW l \in Lists, NEW p \in 1..Len(l), NEW q \in 1..Len(l),
           NEW k \in 1..Len(Gpus[l[p]]), NEW m \in 1..Len(Gpus[l[q]]),
           p # q \/ k # m
    PROVE  Gpus[l[p]][k] \cap Gpus[l[q]][m] = {}
  <1>1. ValidList(l)
    BY Zenon, ConstantsAssumption
  <1>2. <<p, k>> # <<q, m>>
    BY Zenon
  <1> QED
    BY ZenonT(40), <1>1, <1>2 DEF ValidList

\* Supervisor.Apply keeps the invariant: a fresh instance that takes GPUs
\* over waits for the drains of the instances that had them.
LEMMA ApplyStep == ASSUME GpuInv, TypeOK', NEW l \in Lists, Apply(l) PROVE GpuInv'
  <1> DEFINE next == [p \in 1..Len(l) |-> InstanceAt(l, p)]
             started == {<<applies + 1, p>> : p \in {q \in 1..Len(l) : ~IsKept(l[q])}}
             removed == Current \ {next[p] : p \in 1..Len(l)}
  <1>1. /\ applies < MaxApplies /\ applies' = applies + 1 /\ models' = next
        /\ conf' = [i \in Instances |-> IF i \in started THEN l[i[2]] ELSE conf[i]]
        /\ closed' = closed \cup removed
        /\ draining' = draining \cup removed
        /\ drain' = [i \in Instances |-> IF i \in removed THEN "draining" ELSE drain[i]]
        /\ waits' = [i \in Instances |->
                       IF i \in started THEN draining \cup removed ELSE waits[i]]
        /\ pc' = [b \in Backends |->
                    IF ModelOf(b) \in started /\ b[3] <= Len(Gpus[l[b[2]]])
                    THEN "pending" ELSE pc[b]]
        /\ proc' = proc
    BY Zenon DEF Apply, AwaitedDrains
  <1>2. TypeOK /\ applies \in Nat /\ Current \subseteq Instances
        /\ \A b \in Backends : ModelOf(b) \in Instances /\ ModelOf(b)[2] = b[2]
    BY SMTT(30), ModelOfType, ConstantsAssumption DEF GpuInv, TypeOK, Current
  <1>3. /\ \A p \in 1..Len(l) : next[p] \in Instances /\ l[p] \in Confs
        /\ l \in Seq(Confs) /\ Len(l) \in Nat
    <2>1. l \in Seq(Confs) /\ \A p \in 1..Len(l) : InstanceAt(l, p) \in Instances
      BY ZenonT(40), <1>1, <1>2, ApplyNext
    <2>2. Len(l) \in Nat /\ \A p \in 1..Len(l) : l[p] \in Confs
      BY ONLY SMTT(30), <2>1
    <2> QED BY Zenon, <2>1, <2>2
  \* A started instance is new; it carries its list entry.
  <1>4. \A i \in started :
          /\ i \in Instances /\ conf[i] = NoConf /\ i[2] \in 1..Len(l) /\ ~IsKept(l[i[2]])
          /\ next[i[2]] = i /\ conf'[i] = l[i[2]] /\ l[i[2]] # NoConf
          /\ i \notin Current
    <2> SUFFICES ASSUME NEW p \in 1..Len(l), ~IsKept(l[p])
                 PROVE  LET i == <<applies + 1, p>>
                        IN  /\ i \in Instances /\ conf[i] = NoConf /\ i[2] \in 1..Len(l)
                            /\ ~IsKept(l[i[2]])
                            /\ next[i[2]] = i /\ conf'[i] = l[i[2]] /\ l[i[2]] # NoConf
                            /\ i \notin Current
      BY SMTT(30)
    <2> DEFINE i == <<applies + 1, p>>
    <2>1. i \in Instances /\ i[1] = applies + 1 /\ i[2] = p
      BY Zenon, <1>1, <1>2, ApplyNext
    <2>2. conf[i] = NoConf
      BY SMTT(30), <2>1, <1>2 DEF GpuInv, FutureFree
    <2>3. i \notin Current
      BY Zenon, <2>2 DEF GpuInv, Current, CurrentUndrained
    <2>4. next[p] = i
      BY Zenon DEF InstanceAt
    <2>5. conf'[i] = l[p] /\ l[p] # NoConf
      BY ZenonT(40), <1>1, <1>3, <2>1, ConstantsAssumption
    <2> QED BY Zenon, <2>1, <2>2, <2>3, <2>4, <2>5
  \* Entry p is kept by a current instance made from the same entry, or new.
  <1>5. \A p \in 1..Len(l) :
          \/ next[p] \in started /\ next[p][2] = p
          \/ next[p] \in Current /\ conf[next[p]] = l[p] /\ next[p] \notin removed
             /\ next[p] \notin started
    <2> SUFFICES ASSUME NEW p \in 1..Len(l), IsKept(l[p])
                 PROVE  next[p] \in Current /\ conf[next[p]] = l[p] /\ next[p] \notin removed
                        /\ next[p] \notin started
      BY ZenonT(40) DEF InstanceAt
    <2>1. next[p] \in Current /\ conf[next[p]] = l[p]
      BY ZenonT(40) DEF InstanceAt, IsKept
    <2> QED BY ZenonT(40), <2>1, <1>4
  <1>6. \A i \in Current : conf[i] # NoConf /\ drain[i] = "none" /\ i \in Instances
    <2> SUFFICES ASSUME NEW p \in 1..Len(models)
                 PROVE  conf[models[p]] # NoConf /\ drain[models[p]] = "none"
                        /\ models[p] \in Instances
      BY Zenon DEF Current
    <2>1. CurrentUndrained /\ models \in Seq(Instances)
      BY Zenon DEF GpuInv, TypeOK
    <2>2. p \in 1..Len(models)
      BY Zenon
    <2> QED BY ONLY SMTT(30), <2>1, <2>2 DEF CurrentUndrained
  <1>7. models' = next /\ Len(next) = Len(l)
    BY ONLY <1>1, <1>3
  <1> HIDE DEF next, started, removed
  <1>8. Current' = {next[p] : p \in 1..Len(l)}
    BY ONLY Zenon, <1>7 DEF Current
  <1>9. \A i \in Instances : conf'[i] = IF i \in started THEN l[i[2]] ELSE conf[i]
    BY Zenon, <1>1
  <1>10. \A i \in Instances : drain'[i] = IF i \in removed THEN "draining" ELSE drain[i]
    BY Zenon, <1>1
  <1>11. \A i \in Instances : waits'[i] = IF i \in started THEN draining \cup removed ELSE waits[i]
    BY Zenon, <1>1
  <1>12. \A b \in Backends : pc'[b] = IF ModelOf(b) \in started /\ b[3] <= Len(Gpus[l[b[2]]])
                                      THEN "pending" ELSE pc[b]
    BY Zenon, <1>1
  <1>13. removed \subseteq Current
    BY Zenon DEF removed
  <1>29. \A i \in Instances : Gone(i)' = Gone(i)
    BY SMTT(30), <1>6, <1>10, <1>13 DEF Gone
  <1>14. \A i \in Instances : i[1] > applies' => conf'[i] = NoConf
    <2>1. \A i \in started : i[1] = applies + 1
      BY SMTT(30) DEF started
    <2> QED BY <1>1, <1>2, <1>9, <2>1, ConstantsAssumption DEF GpuInv, Instances, FutureFree
  <1>15. \A b \in Backends : pc[b] # "none" => ModelOf(b) \notin started
    BY Zenon, <1>4 DEF GpuInv, PcConfigured
  <1>16. \A b \in Backends : pc'[b] # "none" =>
            conf'[ModelOf(b)] # NoConf /\ b[3] <= Len(Gpus[conf'[ModelOf(b)]])
    BY SMTT(30), <1>2, <1>4, <1>9, <1>12, <1>15 DEF GpuInv, PcConfigured
  <1>17. \A b \in Backends : proc'[b] # "none" => pc'[b] \notin {"none", "pending", "ticketed"}
    BY Zenon, <1>1, <1>12, <1>15 DEF GpuInv, ProcLaunched
  <1>18. \A b \in Backends : pc'[b] \notin {"none", "pending"} =>
            \A i \in waits'[ModelOf(b)] : drain'[i] = "done"
    <2> SUFFICES ASSUME NEW b \in Backends, pc'[b] \notin {"none", "pending"},
                        NEW i \in waits'[ModelOf(b)]
                 PROVE  drain'[i] = "done"
      BY Zenon
    <2>1. pc[b] = pc'[b] /\ ModelOf(b) \notin started
      BY Zenon, <1>12, <1>15
    <2>2. i \in waits[ModelOf(b)] /\ i \in Instances
      BY Zenon, <2>1, <1>2, <1>11 DEF TypeOK
    <2>3. drain[i] = "done"
      BY Zenon, <2>1, <2>2 DEF GpuInv, StartedLate
    <2> QED BY Zenon, <2>2, <2>3, <1>6, <1>10, <1>13
  <1>19. \A p \in 1..Len(models') : conf'[models'[p]] # NoConf /\ drain'[models'[p]] = "none"
    <2> SUFFICES ASSUME NEW p \in 1..Len(l)
                 PROVE  conf'[next[p]] # NoConf /\ drain'[next[p]] = "none"
      BY Zenon, <1>7 DEF CurrentUndrained
    <2>1. next[p] \in Instances
      BY Zenon, <1>3
    <2>2. CASE next[p] \in started
      <3>1. next[p] \notin Current /\ conf[next[p]] = NoConf
        BY Zenon, <2>2, <1>4
      <3>2. drain[next[p]] = "none"
        BY Zenon, <3>1, <2>1 DEF GpuInv, DrainClosed
      <3> QED BY Zenon, <2>1, <2>2, <3>1, <3>2, <1>4, <1>10, <1>13
    <2>3. CASE next[p] \in Current /\ next[p] \notin removed /\ next[p] \notin started
      BY Zenon, <2>1, <2>3, <1>6, <1>9, <1>10
    <2> QED BY ZenonT(40), <2>2, <2>3, <1>5
  <1>20. \A i \in Instances : drain'[i] # "none" => i \in closed' /\ conf'[i] # NoConf
    BY ZenonT(40), <1>1, <1>4, <1>6, <1>9, <1>10, <1>13 DEF GpuInv, DrainClosed
  <1>21. \A i \in Instances : i \in draining' <=> drain'[i] \in {"draining", "stopping"}
    BY Zenon, <1>1, <1>10, <1>6, <1>13 DEF GpuInv, DrainingMarks
  <1>22. \A i \in Instances : conf'[i] # NoConf => i \in Current' \/ drain'[i] # "none"
    <2> SUFFICES ASSUME NEW i \in Instances, conf'[i] # NoConf, i \notin Current'
                 PROVE  drain'[i] # "none"
      BY Zenon
    <2>1. i \notin started
      BY ONLY SMTT(30), <1>4, <1>8, i \notin Current'
    <2>2. CASE i \in Current
      BY Zenon, <2>2, <1>8, <1>10 DEF removed
    <2>3. CASE i \notin Current
      BY Zenon, <2>1, <2>3, <1>9, <1>10 DEF GpuInv, ConfTracked
    <2> QED BY Zenon, <2>2, <2>3
  <1>23. \A b \in Backends : drain'[ModelOf(b)] \in {"stopping", "deleted", "done"} =>
            pc'[b] \notin LoopStates
    BY ZenonT(40), <1>2, <1>10, <1>12 DEF GpuInv, LoopStates, StoppedLoops
  <1>24. \A b \in Backends : Gone(ModelOf(b))' => proc'[b] = "none"
    BY ZenonT(40), <1>1, <1>2, <1>29 DEF GpuInv, GoneStopped
  <1>25. \A i \in Instances : conf'[i] # NoConf =>
            \A k, m \in 1..Len(Gpus[conf'[i]]) :
               k # m => Gpus[conf'[i]][k] \cap Gpus[conf'[i]][m] = {}
    <2> SUFFICES ASSUME NEW i \in Instances, conf'[i] # NoConf,
                        NEW k \in 1..Len(Gpus[conf'[i]]), NEW m \in 1..Len(Gpus[conf'[i]]), k # m
                 PROVE  Gpus[conf'[i]][k] \cap Gpus[conf'[i]][m] = {}
      BY Zenon
    <2>1. CASE i \in started
      <3>1. conf'[i] = l[i[2]] /\ i[2] \in 1..Len(l)
        BY Zenon, <2>1, <1>4
      <3> QED BY ZenonT(40), <3>1, ListSeparate
    <2>2. CASE i \notin started
      <3>1. conf'[i] = conf[i]
        BY Zenon, <2>2, <1>9
      <3>2. \A x, y \in 1..Len(Gpus[conf[i]]) :
              x # y => Gpus[conf[i]][x] \cap Gpus[conf[i]][y] = {}
        BY Zenon, <3>1 DEF GpuInv, OwnGpus
      <3> QED BY ONLY Zenon, <3>1, <3>2, k # m, k \in 1..Len(Gpus[conf'[i]]), m \in 1..Len(Gpus[conf'[i]])
    <2> QED BY ZenonT(40), <2>1, <2>2
  <1>26. \A i, j \in Instances : i \notin started /\ j \notin started =>
            Separate(i, j)' = Separate(i, j)
    BY Zenon, <1>9 DEF Separate
  \* A new instance j beside any other instance i that exists.
  <1>27. ASSUME NEW j \in started, NEW i \in Instances, conf'[i] # NoConf, i # j
         PROVE  (Separate(i, j)' /\ Separate(j, i)') \/ Gone(i)' \/ i \in waits'[j]
    <2>0. j \in Instances /\ conf'[j] = l[j[2]] /\ j[2] \in 1..Len(l) /\ next[j[2]] = j
      BY Zenon, <1>4
    <2>1. CASE i \in Current'
      <3>1. PICK p \in 1..Len(l) : i = next[p]
        BY Zenon, <2>1, <1>8
      <3>2. conf'[i] = l[p]
        <4>1. CASE i \in started
          <5>1. i[2] = p
            BY Zenon, <4>1, <3>1, <1>5
          <5> QED BY Zenon, <4>1, <5>1, <1>4
        <4>2. CASE i \notin started
          BY Zenon, <4>2, <3>1, <1>5, <1>9
        <4> QED BY Zenon, <4>1, <4>2
      <3>3. p # j[2]
        BY Zenon, <3>1, <1>27, <2>0
      <3>4. ASSUME NEW k \in 1..Len(Gpus[l[p]]), NEW m \in 1..Len(Gpus[l[j[2]]])
            PROVE  Gpus[l[p]][k] \cap Gpus[l[j[2]]][m] = {}
        BY ZenonT(40), <2>0, <3>3, ListSeparate
      <3>5. Separate(i, j)'
        BY ONLY Zenon, <2>0, <3>2, <3>4 DEF Separate
      <3>6. Separate(j, i)'
        BY ONLY Zenon, <2>0, <3>2, <3>4 DEF Separate
      <3> QED BY Zenon, <3>5, <3>6
    <2>2. CASE i \notin Current'
      <3>1. i \notin started
        BY SMTT(30), <2>2, <1>4, <1>8
      <3>2. CASE i \in Current
        BY ZenonT(40), <3>2, <2>0, <2>2, <1>8, <1>11 DEF removed
      <3>3. CASE i \notin Current
        <4>1. drain[i] # "none"
          BY Zenon, <3>1, <3>3, <1>9, <1>27 DEF GpuInv, ConfTracked
        <4>2. drain[i] \in {"draining", "stopping"} \/ Gone(i)
          BY <4>1, <1>2 DEF TypeOK, Gone
        <4>3. i \in draining \/ Gone(i)'
          BY Zenon, <4>2, <1>29 DEF GpuInv, DrainingMarks
        <4> QED BY Zenon, <4>3, <2>0, <1>11
      <3> QED BY Zenon, <3>2, <3>3
    <2> QED BY Zenon, <2>1, <2>2
  <1>28. \A i, j \in Instances : conf'[i] # NoConf /\ conf'[j] # NoConf /\ i # j =>
            Separate(i, j)' \/ Gone(i)' \/ Gone(j)' \/ i \in waits'[j] \/ j \in waits'[i]
    <2> SUFFICES ASSUME NEW i \in Instances, NEW j \in Instances,
                        conf'[i] # NoConf, conf'[j] # NoConf, i # j
                 PROVE  Separate(i, j)' \/ Gone(i)' \/ Gone(j)' \/ i \in waits'[j] \/ j \in waits'[i]
      BY Zenon
    <2>1. CASE j \in started
      BY Zenon, <2>1, <1>27
    <2>2. CASE i \in started
      BY Zenon, <2>2, <1>27
    <2>3. CASE i \notin started /\ j \notin started
      BY Zenon, <2>3, <1>29, <1>9, <1>11, <1>26 DEF GpuInv, Apart
    <2> QED BY Zenon, <2>1, <2>2, <2>3
  <1> QED
    BY ONLY ZenonT(40), TypeOK', <1>14, <1>16, <1>17, <1>18, <1>19, <1>20, <1>21, <1>22, <1>23, <1>24,
            <1>25, <1>28 DEF GpuInv, FutureFree, PcConfigured, ProcLaunched, StartedLate,
               CurrentUndrained, DrainClosed, DrainingMarks, ConfTracked, StoppedLoops,
               GoneStopped, OwnGpus, Apart

\* Shutdown keeps the invariant.
LEMMA ShutdownStep == ASSUME GpuInv, TypeOK', Shutdown PROVE GpuInv'
  <1>1. /\ closed' = closed \cup Current /\ draining' = draining \cup Current
        /\ drain' = [i \in Instances |-> IF i \in Current THEN "draining" ELSE drain[i]]
        /\ models' = <<>>
        /\ UNCHANGED <<conf, applies, waits, pc, proc>>
    BY Zenon DEF Shutdown, ShutdownDrains, loopVars
  <1>2. TypeOK /\ \A b \in Backends : ModelOf(b) \in Instances
    BY Zenon, ModelOfType DEF GpuInv
  <1>3. \A i \in Current : conf[i] # NoConf /\ drain[i] = "none" /\ i \in Instances
    <2> SUFFICES ASSUME NEW p \in 1..Len(models)
                 PROVE  conf[models[p]] # NoConf /\ drain[models[p]] = "none"
                        /\ models[p] \in Instances
      BY Zenon DEF Current
    <2>1. CurrentUndrained /\ models \in Seq(Instances)
      BY Zenon DEF GpuInv, TypeOK
    <2>2. p \in 1..Len(models)
      BY Zenon
    <2> QED BY ONLY SMTT(30), <2>1, <2>2 DEF CurrentUndrained
  <1>4. \A i \in Instances : drain'[i] = IF i \in Current THEN "draining" ELSE drain[i]
    BY Zenon, <1>1
  <1>5. \A i \in Instances : Gone(i)' = Gone(i)
    BY SMTT(30), <1>3, <1>4 DEF Gone
  <1>6. \A i, j \in Instances : Separate(i, j)' = Separate(i, j)
    BY Zenon, <1>1 DEF Separate
  <1>7. \A b \in Backends : pc[b] \notin {"none", "pending"} =>
            \A i \in waits[ModelOf(b)] : drain'[i] = "done"
    BY Zenon, <1>2, <1>3, <1>4 DEF GpuInv, TypeOK, StartedLate
  <1>8. \A i \in Instances :
          /\ drain'[i] # "none" => i \in closed' /\ conf[i] # NoConf
          /\ i \in draining' <=> drain'[i] \in {"draining", "stopping"}
          /\ conf[i] # NoConf => drain'[i] # "none"
    BY Zenon, <1>1, <1>3, <1>4 DEF GpuInv, DrainClosed, DrainingMarks, ConfTracked
  <1>9. \A b \in Backends :
          /\ drain'[ModelOf(b)] \in {"stopping", "deleted", "done"} => pc[b] \notin LoopStates
          /\ Gone(ModelOf(b))' => proc[b] = "none"
    BY ZenonT(40), <1>2, <1>4, <1>5 DEF GpuInv, StoppedLoops, GoneStopped
  <1>10. /\ \A j \in Instances : j[1] > applies => conf[j] = NoConf
         /\ \A b \in Backends : pc[b] # "none" =>
              conf[ModelOf(b)] # NoConf /\ b[3] <= Len(Gpus[conf[ModelOf(b)]])
         /\ \A b \in Backends : proc[b] # "none" => pc[b] \notin {"none", "pending", "ticketed"}
         /\ \A j \in Instances : conf[j] # NoConf =>
              \A k, m \in 1..Len(Gpus[conf[j]]) :
                 k # m => Gpus[conf[j]][k] \cap Gpus[conf[j]][m] = {}
    BY ZenonT(40) DEF GpuInv, FutureFree, PcConfigured, ProcLaunched, OwnGpus
  <1>11. \A i, j \in Instances : conf[i] # NoConf /\ conf[j] # NoConf /\ i # j =>
            Separate(i, j)' \/ Gone(i)' \/ Gone(j)' \/ i \in waits[j] \/ j \in waits[i]
    BY ZenonT(40), <1>5, <1>6 DEF GpuInv, Apart
  <1>12. \A p \in 1..Len(models') : FALSE
    BY <1>1
  <1> QED
    BY ONLY ZenonT(40), TypeOK', <1>1, <1>7, <1>8, <1>9, <1>10, <1>11, <1>12 DEF GpuInv, FutureFree,
       PcConfigured, ProcLaunched, StartedLate, CurrentUndrained, DrainClosed, DrainingMarks,
       ConfTracked, StoppedLoops, GoneStopped, OwnGpus, Apart

\* Every step keeps the invariant.
LEMMA GpuStep == GpuInv /\ [Next]_vars => GpuInv'
  <1> SUFFICES ASSUME GpuInv, [Next]_vars PROVE GpuInv'
    BY Zenon
  <1>0. TypeOK'
    BY Zenon, TypeStep DEF GpuInv
  <1>1. ASSUME NEW l \in Lists, Apply(l) PROVE GpuInv'
    BY Zenon, <1>0, <1>1, ApplyStep
  <1>2. ASSUME NEW b \in Backends, StartStep(b) \/ LoopStep(b) \/ ProcExits(b) PROVE GpuInv'
    BY Zenon, <1>0, <1>2, StartLoopSteps
  <1>3. ASSUME NEW i \in Instances, DrainStep(i) PROVE GpuInv'
    BY Zenon, <1>0, <1>3, DrainSteps
  <1>4. CASE Shutdown
    BY Zenon, <1>0, <1>4, ShutdownStep
  <1>5. CASE UNCHANGED <<models, conf, applies, waits, closed, draining, drain, pc, proc>>
    <2>1. Current' = Current /\ \A i \in Instances : Gone(i)' = Gone(i)
      BY Zenon, <1>5 DEF Current, Gone
    <2>2. \A i, j \in Instances : Separate(i, j)' = Separate(i, j)
      BY ZenonT(40), <1>5 DEF Separate
    <2>3. \A b \in Backends : ModelOf(b) \in Instances
      BY Zenon, ModelOfType
    <2> QED BY ZenonT(40), <1>0, <1>5, <2>1, <2>2, <2>3 DEF GpuInv, FutureFree, PcConfigured, ProcLaunched,
       StartedLate, CurrentUndrained, DrainClosed, DrainingMarks, ConfTracked, StoppedLoops,
       GoneStopped, OwnGpus, Apart
  <1>6. ASSUME NEW b \in Backends, Refill(b) PROVE GpuInv'
    BY Zenon, <1>5, <1>6 DEF Refill, supVars
  <1>7. ASSUME NEW i \in Instances, FetchEnds(i) PROVE GpuInv'
    BY Zenon, <1>5, <1>7 DEF FetchEnds, supVars
  <1>8. CASE ShutdownReturns
    BY Zenon, <1>5, <1>8 DEF ShutdownReturns, loopVars
  <1>9. CASE UNCHANGED vars
    BY Zenon, <1>5, <1>9 DEF vars, supVars, loopVars
  <1> QED
    BY Zenon, <1>1, <1>2, <1>3, <1>4, <1>6, <1>7, <1>8, <1>9 DEF Next

-----------------------------------------------------------------------------
\* The supervisor's state stays well typed.
THEOREM TypeCorrect == Spec => []TypeOK
  <1>1. Init => TypeOK
    BY Zenon, InitInv DEF GpuInv
  <1> QED
    BY <1>1, TypeStep, PTL DEF Spec

\* The strengthened invariant that GPU exclusion rests on holds in every
\* reachable state of the supervisor.
THEOREM InvCorrect == Spec => []GpuInv
  BY InitInv, GpuStep, PTL DEF Spec

\* Apply's promise holds for every set of valid model lists: no process ever
\* loads onto a GPU another process of the node holds.
THEOREM GpuExclusion == Spec => []GpuExclusive
  <1>1. GpuInv => GpuExclusive
    <2> SUFFICES ASSUME GpuInv, NEW b \in Backends, NEW c \in Backends, b # c,
                        proc[b] = "up", proc[c] = "up"
                 PROVE  GpusOf(b) \cap GpusOf(c) = {}
      BY Zenon DEF GpuExclusive
    <2> DEFINE i == ModelOf(b)
               j == ModelOf(c)
    <2>1. i \in Instances /\ j \in Instances /\ b[3] \in 1..MaxWidth /\ c[3] \in 1..MaxWidth
      BY Zenon, ModelOfType
    <2>2. /\ pc[b] \notin {"none", "pending"} /\ pc[c] \notin {"none", "pending"}
          /\ conf[i] # NoConf /\ b[3] <= Len(Gpus[conf[i]])
          /\ conf[j] # NoConf /\ c[3] <= Len(Gpus[conf[j]])
          /\ ~Gone(i) /\ ~Gone(j)
      BY Zenon DEF GpuInv, ProcLaunched, PcConfigured, GoneStopped
    <2>3. Len(Gpus[conf[i]]) \in Nat /\ Len(Gpus[conf[j]]) \in Nat
      <3>1. conf[i] \in Confs /\ conf[j] \in Confs
        BY Zenon, <2>1, <2>2 DEF GpuInv, TypeOK
      <3>2. \A k \in Confs : Len(Gpus[k]) \in 0..MaxWidth /\ MaxWidth \in Nat
        BY Zenon, ConstantsAssumption
      <3> QED BY ONLY SMTT(30), <3>1, <3>2
    <2>4. b[3] \in 1..Len(Gpus[conf[i]]) /\ c[3] \in 1..Len(Gpus[conf[j]])
      BY SMTT(30), <2>1, <2>2, <2>3
    <2>5. CASE i = j
      <3>1. b[3] # c[3]
        BY Zenon, <2>5, BackendEq
      <3> QED BY ZenonT(40), <2>1, <2>2, <2>4, <2>5, <3>1 DEF GpuInv, GpusOf, OwnGpus
    <2>6. CASE i # j
      <3>1. i \notin waits[j] /\ j \notin waits[i]
        BY Zenon, <2>1, <2>2 DEF GpuInv, Gone, StartedLate
      <3>2. Separate(i, j)
        BY ZenonT(40), <2>1, <2>2, <2>6, <3>1 DEF GpuInv, Apart
      <3> QED BY Zenon, <3>2, <2>4 DEF Separate, GpusOf
    <2> QED BY Zenon, <2>5, <2>6
  <1> QED
    BY <1>1, InvCorrect, PTL

\* PIDs() sees every process the node runs.
THEOREM PidsComplete == Spec => []ProcessesTracked
  <1>1. GpuInv => ProcessesTracked
    <2> SUFFICES ASSUME GpuInv, NEW b \in Backends, proc[b] = "up"
                 PROVE  ModelOf(b) \in Current \cup draining
      BY Zenon DEF ProcessesTracked
    <2>1. ModelOf(b) \in Instances /\ conf[ModelOf(b)] # NoConf /\ ~Gone(ModelOf(b))
      BY Zenon, ModelOfType DEF GpuInv, ProcLaunched, PcConfigured, GoneStopped
    <2> QED BY Zenon, <2>1 DEF GpuInv, TypeOK, Gone, ConfTracked, DrainingMarks
  <1> QED
    BY <1>1, InvCorrect, PTL

\* The end of a drain is final.
THEOREM DrainFinal == Spec => []DrainedForGood
  <1>1. GpuInv => DrainedForGood
    BY Zenon DEF GpuInv, DrainedForGood, Gone, StoppedLoops, GoneStopped
  <1> QED
    BY <1>1, InvCorrect, PTL

-----------------------------------------------------------------------------
(* Shutdown.  Every model that was ever started is waited for or gone.     *)

ShutdownCovers ==
    shutdown # "no" =>
        \A i \in Instances : conf[i] # NoConf => i \in shutWaits \/ Gone(i)
ShutdownWaited == shutdown = "returned" => \A i \in shutWaits : drain[i] = "done"

ShutdownInv == ShutdownCovers /\ ShutdownWaited

\* A step that is no Apply, no drain's and not Shutdown's leaves what
\* Shutdown waits for alone.
LEMMA ShutdownKept ==
    ASSUME ShutdownInv, conf' = conf, drain' = drain, shutdown' = shutdown, shutWaits' = shutWaits
    PROVE  ShutdownInv'
  BY Zenon DEF ShutdownInv, ShutdownCovers, ShutdownWaited, Gone

\* A drain that moves on stays on the way to its end.
LEMMA ShutdownDrainMoves ==
    ASSUME GpuInv, ShutdownInv, NEW i \in Instances, NEW x,
           drain' = [drain EXCEPT ![i] = x],
           drain[i] # "done", Gone(i) => x = "done",
           conf' = conf, shutdown' = shutdown, shutWaits' = shutWaits
    PROVE  ShutdownInv'
  <1>1. \A j \in Instances : drain'[j] = IF j = i THEN x ELSE drain[j]
    BY Zenon DEF GpuInv, TypeOK
  <1>2. \A j \in Instances : Gone(j) => Gone(j)'
    BY Zenon, <1>1 DEF Gone
  <1>3. \A j \in Instances : drain[j] = "done" => drain'[j] = "done"
    BY Zenon, <1>1
  <1>4. shutWaits \subseteq Instances
    BY Zenon DEF GpuInv, TypeOK
  <1> QED
    BY Zenon, <1>2, <1>3, <1>4 DEF ShutdownInv, ShutdownCovers, ShutdownWaited

\* Shutdown finds every model current, draining or gone.
LEMMA ShutdownBegins == ASSUME GpuInv, ShutdownInv, Shutdown PROVE ShutdownInv'
  <1>1. /\ shutdown' = "waiting" /\ shutWaits' = draining \cup Current /\ conf' = conf
        /\ drain' = [i \in Instances |-> IF i \in Current THEN "draining" ELSE drain[i]]
    BY Zenon DEF Shutdown, ShutdownDrains
  <1>2. ASSUME NEW i \in Instances, conf[i] # NoConf, i \notin draining \cup Current
        PROVE  Gone(i)'
    <2>1. drain[i] # "none" /\ drain[i] \notin {"draining", "stopping"}
      BY Zenon, <1>2 DEF GpuInv, ConfTracked, DrainingMarks
    <2>2. drain'[i] = drain[i]
      BY Zenon, <1>1, <1>2
    <2> QED
      BY Zenon, <2>1, <2>2 DEF GpuInv, TypeOK, Gone
  <1> QED
    BY Zenon, <1>1, <1>2 DEF ShutdownInv, ShutdownCovers, ShutdownWaited

\* Every step keeps what Shutdown rests on.
LEMMA ShutdownInvStep == GpuInv /\ ShutdownInv /\ [Next]_vars => ShutdownInv'
  <1> SUFFICES ASSUME GpuInv, ShutdownInv, [Next]_vars PROVE ShutdownInv'
    BY Zenon
  <1>1. ASSUME NEW l \in Lists, Apply(l) PROVE ShutdownInv'
    BY ZenonT(40), <1>1 DEF Apply, ShutdownInv, ShutdownCovers, ShutdownWaited
  <1>2. CASE UNCHANGED supVars
    BY Zenon, <1>2, ShutdownKept DEF supVars
  <1>3. ASSUME NEW b \in Backends, StartStep(b) \/ LoopStep(b) \/ Refill(b) \/ ProcExits(b)
        PROVE  ShutdownInv'
    <2>1. UNCHANGED supVars
      BY ZenonT(40), <1>3 DEF StartStep, StartEnqueue, StartLoop, LoopStep, ResolveSource, TicketWait,
         LaunchStarts, LaunchNoCommand, LaunchFails, GiveUp, Respawn, MarkDead, QuickRetry, Ready,
         Cancelled, Refill, ProcExits
    <2> QED
      BY Zenon, <1>2, <2>1
  <1>4. ASSUME NEW i \in Instances, FetchEnds(i) PROVE ShutdownInv'
    BY Zenon, <1>2, <1>4 DEF FetchEnds
  <1>5. ASSUME NEW i \in Instances, DrainStep(i) PROVE ShutdownInv'
    <2>1. CASE DrainLoops(i)
      BY ZenonT(40), <2>1, ShutdownDrainMoves DEF DrainLoops, Gone
    <2>2. CASE DrainDelete(i)
      BY ZenonT(40), <2>2, ShutdownDrainMoves DEF DrainDelete, Gone
    <2>3. CASE DrainClose(i)
      BY ZenonT(40), <2>3, ShutdownDrainMoves DEF DrainClose, Gone
    <2>4. CASE \E b \in Of(i) : DrainStop(b)
      BY Zenon, <1>2, <2>4 DEF DrainStop
    <2> QED
      BY Zenon, <1>5, <2>1, <2>2, <2>3, <2>4 DEF DrainStep
  <1>6. CASE Shutdown
    BY Zenon, <1>6, ShutdownBegins
  <1>7. CASE ShutdownReturns
    BY Zenon, <1>7 DEF ShutdownReturns, ShutdownInv, ShutdownCovers, ShutdownWaited, Gone
  <1>8. CASE UNCHANGED vars
    BY Zenon, <1>2, <1>8 DEF vars
  <1> QED
    BY Zenon, <1>1, <1>3, <1>4, <1>5, <1>6, <1>7, <1>8 DEF Next

\* Once Shutdown has returned nothing runs and nothing can start, whatever
\* Applies and drains it found under way.
THEOREM ShutdownFinal == Spec => []ShutdownLeavesNothing
  <1>1. Init => ShutdownInv
    BY Zenon DEF Init, ShutdownInv, ShutdownCovers, ShutdownWaited
  <1>2. GpuInv /\ ShutdownInv => ShutdownLeavesNothing
    <2> SUFFICES ASSUME GpuInv, ShutdownInv, shutdown = "returned", NEW b \in Backends
                 PROVE  proc[b] # "up" /\ pc[b] \notin LoopStates
      BY Zenon DEF ShutdownLeavesNothing
    <2>1. ModelOf(b) \in Instances
      BY Zenon, ModelOfType
    <2>2. conf[ModelOf(b)] # NoConf => Gone(ModelOf(b))
      BY Zenon, <2>1 DEF ShutdownInv, ShutdownCovers, ShutdownWaited, Gone
    <2>3. pc[b] # "none" => Gone(ModelOf(b))
      BY Zenon, <2>2 DEF GpuInv, PcConfigured
    <2> QED
      BY Zenon, <2>3 DEF GpuInv, ProcLaunched, GoneStopped, StoppedLoops, Gone, LoopStates
  <1> QED
    BY <1>1, <1>2, ShutdownInvStep, InvCorrect, PTL DEF Spec

-----------------------------------------------------------------------------
(* The rounds of a start goroutine.  A backend that is still pending has   *)
(* nobody behind it in its rounds that is further on.                      *)

RoundsInOrder ==
    \A b, c \in Backends :
        b[1] = c[1] /\ Before(b, c) /\ pc[b] = "pending" => pc[c] \in {"none", "pending"}
FetchSourced == \A b \in Backends : pc[b] = "fetching" => IsSourced(b)
ArrivedStarted ==
    /\ arrivals \in Seq(Backends)
    /\ \A p \in 1..Len(arrivals) : pc[arrivals[p]] \notin {"none", "pending"}

RoundsInv == RoundsInOrder /\ FetchSourced /\ ArrivedStarted /\ RoundRobin

\* Two backends of one Apply are in rounds, one before the other.
LEMMA RoundsTotal ==
    ASSUME NEW b \in Backends, NEW c \in Backends, b[1] = c[1], b # c
    PROVE  Before(b, c) \/ Before(c, b)
  <1>1. b[2] \in Nat /\ b[3] \in Nat /\ c[2] \in Nat /\ c[3] \in Nat
    BY DEF Backends
  <1>2. b[2] # c[2] \/ b[3] # c[3]
    BY DEF Backends
  <1> QED
    BY <1>1, <1>2 DEF Before

\* A backend that start has reached moves on, and nobody arrives at the gate.
LEMMA RoundsMove ==
    ASSUME GpuInv, RoundsInv, NEW b \in Backends, NEW x,
           pc' = [pc EXCEPT ![b] = x], pc[b] \notin {"none", "pending"},
           x \notin {"none", "pending"}, x = "fetching" => IsSourced(b),
           conf' = conf, arrivals' = arrivals
    PROVE  RoundsInv'
  <1>1. \A c \in Backends : pc'[c] = IF c = b THEN x ELSE pc[c]
    BY Zenon DEF GpuInv, TypeOK
  <1>2. RoundsInOrder'
    BY <1>1 DEF RoundsInv, RoundsInOrder
  <1>3. FetchSourced'
    BY Zenon, <1>1 DEF RoundsInv, FetchSourced, IsSourced
  <1>4. ArrivedStarted'
    BY SMTT(30), <1>1 DEF RoundsInv, ArrivedStarted
  <1>5. RoundRobin'
    BY Zenon DEF RoundsInv, RoundRobin, IsSourced
  <1> QED
    BY Zenon, <1>2, <1>3, <1>4, <1>5 DEF RoundsInv

\* A backend arrives at the gate: from start in its turn, or from its fetch.
LEMMA RoundsArrive ==
    ASSUME GpuInv, RoundsInv, NEW b \in Backends, NEW x,
           pc' = [pc EXCEPT ![b] = x], x \notin {"none", "pending", "fetching"},
           \/ /\ pc[b] = "pending"
              /\ \A c \in Batch(b) : Before(c, b) => pc[c] # "pending"
           \/ pc[b] = "fetching",
           conf' = conf, arrivals' \in {arrivals, Append(arrivals, b)}
    PROVE  RoundsInv'
  <1>1. \A c \in Backends : pc'[c] = IF c = b THEN x ELSE pc[c]
    BY Zenon DEF GpuInv, TypeOK
  <1>2. RoundsInOrder'
    <2> SUFFICES ASSUME NEW a \in Backends, NEW c \in Backends, a[1] = c[1], Before(a, c),
                        pc'[a] = "pending"
                 PROVE  pc'[c] \in {"none", "pending"}
      BY Zenon DEF RoundsInOrder
    <2>1. pc[a] = "pending" /\ a # b
      BY Zenon, <1>1
    <2>2. pc[c] \in {"none", "pending"}
      BY Zenon, <2>1 DEF RoundsInv, RoundsInOrder
    <2>3. CASE c = b
      BY Zenon, <2>1, <2>2, <2>3 DEF Batch
    <2> QED
      BY Zenon, <1>1, <2>2, <2>3
  <1>3. FetchSourced'
    BY Zenon, <1>1 DEF RoundsInv, FetchSourced, IsSourced
  <1>4. CASE arrivals' = arrivals
    <2>1. ArrivedStarted'
      BY SMTT(30), <1>1, <1>4 DEF RoundsInv, ArrivedStarted
    <2>2. RoundRobin'
      BY Zenon, <1>4 DEF RoundsInv, RoundRobin, IsSourced
    <2> QED
      BY Zenon, <1>2, <1>3, <2>1, <2>2 DEF RoundsInv
  <1>5. CASE arrivals' = Append(arrivals, b)
    <2>1. /\ arrivals' \in Seq(Backends) /\ Len(arrivals) \in Nat
          /\ Len(arrivals') = Len(arrivals) + 1 /\ arrivals'[Len(arrivals) + 1] = b
          /\ \A p \in 1..Len(arrivals) : arrivals'[p] = arrivals[p] /\ arrivals[p] \in Backends
      BY SMTT(30), <1>5 DEF RoundsInv, ArrivedStarted
    <2>2. \A p \in 1..Len(arrivals') : p \in 1..Len(arrivals) \/ p = Len(arrivals) + 1
      BY SMTT(30), <2>1
    <2>3. ArrivedStarted'
      BY SMTT(30), <1>1, <2>1, <2>2 DEF RoundsInv, ArrivedStarted
    <2>4. ASSUME NEW p \in 1..Len(arrivals), arrivals[p][1] = b[1], ~IsSourced(b)
          PROVE  Before(arrivals[p], b)
      <3>1. pc[b] = "pending"
        BY Zenon, <2>4 DEF RoundsInv, FetchSourced
      <3>2. arrivals[p] \in Backends /\ pc[arrivals[p]] \notin {"none", "pending"}
        BY Zenon, <2>1 DEF RoundsInv, ArrivedStarted
      <3>3. ~Before(b, arrivals[p])
        BY Zenon, <2>4, <3>1, <3>2 DEF RoundsInv, RoundsInOrder
      <3> QED
        BY Zenon, <2>4, <3>1, <3>2, <3>3, RoundsTotal
    <2>5. RoundRobin'
      <3> SUFFICES ASSUME NEW p \in 1..Len(arrivals'), NEW q \in 1..Len(arrivals'), p < q,
                          arrivals'[p][1] = arrivals'[q][1],
                          ~IsSourced(arrivals'[p]), ~IsSourced(arrivals'[q])
                   PROVE  Before(arrivals'[p], arrivals'[q])
        BY Zenon DEF RoundRobin, IsSourced
      <3>1. p \in 1..Len(arrivals)
        BY SMTT(30), <2>1, <2>2
      <3>2. CASE q \in 1..Len(arrivals)
        BY Zenon, <2>1, <3>1, <3>2 DEF RoundsInv, RoundRobin
      <3>3. CASE q = Len(arrivals) + 1
        BY Zenon, <2>1, <2>4, <3>1, <3>3
      <3> QED
        BY Zenon, <2>2, <3>2, <3>3
    <2> QED
      BY Zenon, <1>2, <1>3, <2>3, <2>5 DEF RoundsInv
  <1> QED
    BY Zenon, <1>4, <1>5

\* Apply adds backends of new models, which all become pending at once, and
\* leaves the gate and the other backends alone.
LEMMA ApplyAdds ==
    ASSUME GpuInv, NEW l \in Lists, Apply(l)
    PROVE  /\ UNCHANGED gateVars
           /\ \A b \in Backends : b[1] = applies + 1 =>
                 pc[b] = "none" /\ pc'[b] \in {"none", "pending"}
           /\ \A b \in Backends : b[1] # applies + 1 =>
                 pc'[b] = pc[b] /\ conf'[ModelOf(b)] = conf[ModelOf(b)]
  <1> DEFINE started == {<<applies + 1, p>> : p \in {q \in 1..Len(l) : ~IsKept(l[q])}}
  <1>1. /\ UNCHANGED gateVars
        /\ conf' = [i \in Instances |-> IF i \in started THEN l[i[2]] ELSE conf[i]]
        /\ pc' = [b \in Backends |->
                    IF ModelOf(b) \in started /\ b[3] <= Len(Gpus[l[b[2]]])
                    THEN "pending" ELSE pc[b]]
    BY ZenonT(40) DEF Apply
  <1>2. \A i \in started : i[1] = applies + 1
    BY SMTT(30)
  <1>3. \A b \in Backends : b[1] = applies + 1 => pc[b] = "none"
    <2> SUFFICES ASSUME NEW b \in Backends, b[1] = applies + 1 PROVE pc[b] = "none"
      BY Zenon
    <2>1. ModelOf(b) \in Instances /\ ModelOf(b)[1] = applies + 1
      BY Zenon, ModelOfType
    <2>2. ModelOf(b)[1] > applies
      BY <2>1, ConstantsAssumption DEF GpuInv, TypeOK
    <2> QED
      BY ZenonT(40), <2>1, <2>2 DEF GpuInv, FutureFree, PcConfigured
  <1> HIDE DEF started
  <1>4. \A b \in Backends : ModelOf(b) \in Instances /\ (ModelOf(b) \in started => b[1] = applies + 1)
    BY Zenon, <1>2, ModelOfType
  <1>5. \A b \in Backends : b[1] = applies + 1 => pc'[b] \in {"none", "pending"}
    BY Zenon, <1>1, <1>3
  <1>6. \A b \in Backends : b[1] # applies + 1 => pc'[b] = pc[b] /\ conf'[ModelOf(b)] = conf[ModelOf(b)]
    BY Zenon, <1>1, <1>4
  <1> QED
    BY Zenon, <1>1, <1>3, <1>5, <1>6

\* Apply adds backends to a new batch: the rounds of the others stay.
LEMMA RoundsApply == ASSUME GpuInv, RoundsInv, NEW l \in Lists, Apply(l) PROVE RoundsInv'
  <1>1. arrivals' = arrivals
    BY Zenon, ApplyAdds DEF gateVars
  <1>2. \A b \in Backends : b[1] = applies + 1 => pc[b] = "none"
    BY Zenon, ApplyAdds
  <1>3. \A b \in Backends : b[1] = applies + 1 => pc'[b] \in {"none", "pending"}
    BY Zenon, ApplyAdds
  <1>4. \A b \in Backends : b[1] # applies + 1 => pc'[b] = pc[b] /\ conf'[ModelOf(b)] = conf[ModelOf(b)]
    BY Zenon, ApplyAdds
  <1>5. RoundsInOrder'
    BY Zenon, <1>3, <1>4 DEF RoundsInv, RoundsInOrder
  <1>6. \A b \in Backends : pc[b] # "none" => b[1] # applies + 1 /\ IsSourced(b)' = IsSourced(b)
    BY Zenon, <1>2, <1>4 DEF IsSourced
  <1>7. FetchSourced'
    BY Zenon, <1>3, <1>4, <1>6 DEF RoundsInv, FetchSourced
  <1>8. ArrivedStarted'
    <2>1. ASSUME NEW p \in 1..Len(arrivals) PROVE pc'[arrivals[p]] \notin {"none", "pending"}
      <3>1. arrivals[p] \in Backends /\ pc[arrivals[p]] \notin {"none", "pending"}
        BY DEF RoundsInv, ArrivedStarted
      <3> QED
        BY Zenon, <1>4, <1>6, <3>1
    <2> QED
      BY Zenon, <1>1, <2>1 DEF RoundsInv, ArrivedStarted
  <1>9. \A p \in 1..Len(arrivals) : IsSourced(arrivals[p])' = IsSourced(arrivals[p])
    <2> TAKE p \in 1..Len(arrivals)
    <2>1. arrivals[p] \in Backends /\ pc[arrivals[p]] # "none"
      BY SMTT(30) DEF RoundsInv, ArrivedStarted
    <2> QED
      BY Zenon, <1>1, <1>6, <2>1
  <1>10. RoundRobin'
    BY Zenon, <1>1, <1>9 DEF RoundsInv, RoundRobin
  <1> QED
    BY Zenon, <1>5, <1>7, <1>8, <1>10 DEF RoundsInv

\* Every step keeps the rounds.
LEMMA RoundsStep == GpuInv /\ RoundsInv /\ [Next]_vars => RoundsInv'
  <1> SUFFICES ASSUME GpuInv, RoundsInv, [Next]_vars PROVE RoundsInv'
    BY Zenon
  <1>1. ASSUME NEW l \in Lists, Apply(l) PROVE RoundsInv'
    BY Zenon, <1>1, RoundsApply
  <1>2. CASE UNCHANGED <<conf, pc, arrivals>>
    BY Zenon, <1>2 DEF RoundsInv, RoundsInOrder, FetchSourced, ArrivedStarted, RoundRobin, IsSourced
  <1>3. ASSUME NEW b \in Backends, StartEnqueue(b) PROVE RoundsInv'
    <2>1. /\ pc' = [pc EXCEPT ![b] = "ticketed"] /\ pc[b] = "pending" /\ conf' = conf
          /\ \A c \in Batch(b) : Before(c, b) => pc[c] # "pending"
          /\ arrivals' \in {arrivals, Append(arrivals, b)}
      BY Zenon, <1>3 DEF StartEnqueue, Enqueue, gateVars, supVars
    <2> QED
      BY ZenonT(40), <2>1, RoundsArrive
  <1>4. ASSUME NEW b \in Backends, StartLoop(b) PROVE RoundsInv'
    BY <1>4, RoundsMove DEF StartLoop, ReleaseTicket, gateVars, supVars
  <1>5. ASSUME NEW b \in Backends, LoopStep(b) PROVE RoundsInv'
    <2>1. CASE ResolveSource(b) /\ arrivals' # arrivals
      <3>1. /\ pc' = [pc EXCEPT ![b] = "queued"] /\ pc[b] = "fetching" /\ conf' = conf
            /\ arrivals' = Append(arrivals, b)
        BY Zenon, <2>1 DEF ResolveSource, Enqueue, Exit, ReleaseTicket, gateVars, supVars
      <3> QED
        BY ZenonT(40), <3>1, RoundsArrive
    <2>2. CASE ~(ResolveSource(b) /\ arrivals' # arrivals)
      <3>1. conf' = conf /\ arrivals' = arrivals
        BY ZenonT(40), <1>5, <2>2 DEF LoopStep, ResolveSource, TicketWait, LaunchStarts, LaunchNoCommand,
           LaunchFails, GiveUp, Respawn, MarkDead, QuickRetry, Ready, Cancelled, Exit,
           ReleaseTicket, gateVars, supVars
      <3>2. pc[b] \notin {"none", "pending"}
        BY Zenon, <1>5 DEF LoopStep, ResolveSource, TicketWait, LaunchStarts, LaunchNoCommand,
           LaunchFails, GiveUp, Respawn, MarkDead, QuickRetry, Ready, Cancelled
      <3>3. \E x \in LoopStates \cup {"exited"} : x # "fetching" /\ pc' = [pc EXCEPT ![b] = x]
        BY ZenonT(40), <1>5 DEF LoopStep, ResolveSource, TicketWait, LaunchStarts, LaunchNoCommand,
           LaunchFails, GiveUp, Respawn, MarkDead, QuickRetry, Ready, Cancelled, Exit, LoopStates
      <3>4. PICK x \in LoopStates \cup {"exited"} : x # "fetching" /\ pc' = [pc EXCEPT ![b] = x]
        BY ZenonT(40), <3>3
      <3>5. x \notin {"none", "pending"}
        BY Zenon DEF LoopStates
      <3> QED
        BY ZenonT(40), <3>1, <3>2, <3>4, <3>5, RoundsMove
    <2> QED
      BY Zenon, <2>1, <2>2
  <1>6. ASSUME NEW b \in Backends, Refill(b) \/ ProcExits(b) PROVE RoundsInv'
    BY Zenon, <1>2, <1>6 DEF Refill, ProcExits, supVars, gateVars
  <1>7. ASSUME NEW i \in Instances, FetchEnds(i) PROVE RoundsInv'
    BY Zenon, <1>2, <1>7 DEF FetchEnds, supVars, gateVars
  <1>8. ASSUME NEW i \in Instances, DrainStep(i) PROVE RoundsInv'
    <2>1. UNCHANGED <<conf, pc, arrivals>>
      BY Zenon, <1>8 DEF DrainStep, DrainLoops, DrainDelete, DrainClose, DrainStop, supVars, loopVars, gateVars
    <2> QED
      BY Zenon, <1>2, <2>1
  <1>9. CASE Shutdown \/ ShutdownReturns
    BY Zenon, <1>2, <1>9 DEF Shutdown, ShutdownReturns, loopVars, gateVars
  <1>10. CASE UNCHANGED vars
    BY Zenon, <1>2, <1>10 DEF vars, supVars, loopVars, gateVars
  <1> QED
    BY Zenon, <1>1, <1>3, <1>4, <1>5, <1>6, <1>7, <1>8, <1>9, <1>10 DEF Next, StartStep

\* start enqueues round-robin for any lists and any number of Applies.
THEOREM StartIsRoundRobin == Spec => []RoundRobin
  <1>1. Init => RoundsInv
    BY DEF Init, RoundsInv, RoundsInOrder, FetchSourced, ArrivedStarted, RoundRobin
  <1>2. RoundsInv => RoundRobin
    BY Zenon DEF RoundsInv
  <1> QED
    BY <1>1, <1>2, RoundsStep, InvCorrect, PTL DEF Spec

-----------------------------------------------------------------------------
(* The load gate.  What a loop has of the gate goes with where it is.      *)

NotJoined(b) == ~InGate(b) /\ b \notin done
Joined(b) == InGate(b) /\ b \notin done
TicketAt(b) ==
    /\ pc[b] \in {"none", "pending", "fetching"} => NotJoined(b)
    /\ pc[b] = "ticketed" => IF IsSourced(b) THEN NotJoined(b) ELSE Joined(b)
    /\ pc[b] = "queued" => Joined(b)
    /\ pc[b] \in {"launch", "retry", "starting", "respawning", "dying"} => b \in done \/ Joined(b)
    /\ pc[b] = "running" => b \in done
    /\ pc[b] \in {"dead", "exited"} => b \in done \/ NotJoined(b)
TicketsMatch == \A b \in Backends : TicketAt(b)

\* The gate's own proofs, read for the supervisor's backends.
GateProof == INSTANCE LoadGateProofs WITH Tickets <- Backends, owner <- GateOwner

\* A step of the gate in its proofs is one in its specification.
LEMMA GateNextSame == [Gate!Next]_(Gate!vars) <=> [GateProof!Next]_(GateProof!vars)
  <1>1. Gate!vars = GateProof!vars
    BY Zenon DEF Gate!vars, GateProof!vars
  <1>2. Gate!Next <=> GateProof!Next
    BY ZenonT(40) DEF Gate!Next, GateProof!Next, Gate!Join, GateProof!Join, Gate!WaitGranted,
       GateProof!WaitGranted, Gate!WaitCancelled, GateProof!WaitCancelled, Gate!Finish,
       GateProof!Finish, Gate!ReleaseAgain, GateProof!ReleaseAgain, Gate!Release,
       GateProof!Release, Gate!Enqueue, GateProof!Enqueue, Gate!GrantLocked,
       GateProof!GrantLocked, Gate!Without, GateProof!Without, Gate!gateVars, GateProof!gateVars
  <1> QED
    BY Zenon, <1>1, <1>2 DEF Gate!vars, GateProof!vars

\* The fields of the gate as its invariant has them.
LEMMA GateFields ==
    ASSUME GateProof!GateInv
    PROVE  /\ holder \in Backends \cup {NoTicket} /\ queue \in Seq(Backends)
           /\ granted \subseteq Backends /\ done \subseteq Backends
           /\ holder = NoTicket => queue = <<>>
           /\ \A i, j \in 1..Len(queue) : i < j => queue[i] # queue[j]
  BY Zenon DEF GateProof!GateInv, GateProof!TypeOK

\* Whom the gate's step leaves alone.
Others(b) ==
    \A c \in Backends : c # b =>
        (InGate(c)' <=> InGate(c)) /\ (c \in done' <=> c \in done)

\* enqueue: b is in the gate now, and nobody else comes or goes.
LEMMA EnqueueLink ==
    ASSUME GateProof!GateInv, NEW b \in Backends, b \notin done, Gate!Enqueue(b)
    PROVE  InGate(b)' /\ b \notin done' /\ Others(b)
  <1>1. CASE holder = NoTicket
    <2>1. queue = <<>>
      BY Zenon, <1>1, GateFields
    <2>2. Append(queue, b) = <<b>>
      BY <2>1
    <2>3. holder' = b /\ queue' = <<>> /\ granted' = granted \cup {b} /\ done' = done
      BY <1>1, <2>2 DEF Gate!Enqueue, Gate!GrantLocked
    <2> QED
      BY Zenon, <1>1, <2>1, <2>3, ConstantsAssumption DEF InGate, Others
  <1>2. CASE holder # NoTicket
    <2>1. holder' = holder /\ queue' = Append(queue, b) /\ granted' = granted /\ done' = done
      BY Zenon, <1>2 DEF Gate!Enqueue, Gate!GrantLocked
    <2>2. /\ Len(queue') = Len(queue) + 1 /\ Len(queue) \in Nat /\ queue'[Len(queue) + 1] = b
          /\ \A p \in 1..Len(queue) : queue'[p] = queue[p]
      BY SMTT(30), <2>1, GateFields
    <2>3. InGate(b)'
      <3>1. Len(queue) + 1 \in 1..Len(queue')
        BY SMTT(30), <2>2
      <3> QED
        BY Zenon, <2>2, <3>1 DEF InGate
    <2>4. ASSUME NEW c \in Backends, c # b PROVE InGate(c)' <=> InGate(c)
      <3>1. (\E p \in 1..Len(queue') : queue'[p] = c) <=> (\E p \in 1..Len(queue) : queue[p] = c)
        BY <2>2, <2>4
      <3> QED
        BY Zenon, <2>1, <3>1 DEF InGate
    <2> QED
      BY Zenon, <2>1, <2>3, <2>4 DEF Others
  <1> QED
    BY Zenon, <1>1, <1>2

\* release: b is done, and the others stay where they are or move up.
LEMMA ReleaseLink ==
    ASSUME GateProof!GateInv, NEW b \in Backends, b \notin done, Gate!Release(b)
    PROVE  b \in done' /\ Others(b)
  <1>0. done' = done \cup {b}
    BY Zenon DEF Gate!Release
  <1>1. CASE holder = b /\ queue = <<>>
    <2>1. holder' = NoTicket /\ queue' = <<>> /\ granted' = granted
      BY Zenon, <1>1 DEF Gate!Release, Gate!GrantLocked
    <2> QED
      BY Zenon, <1>0, <1>1, <2>1, ConstantsAssumption DEF InGate, Others
  <1>2. CASE holder = b /\ queue # <<>>
    <2>1. holder' = Head(queue) /\ queue' = Tail(queue) /\ granted' = granted \cup {Head(queue)}
      BY Zenon, <1>2 DEF Gate!Release, Gate!GrantLocked
    <2>2. queue \in Seq(Backends)
      BY Zenon, GateFields
    <2>3. /\ Head(queue) = queue[1] /\ 1 \in 1..Len(queue)
          /\ \A i \in 1..Len(queue') : i + 1 \in 1..Len(queue) /\ queue'[i] = queue[i + 1]
          /\ \A i \in 1..Len(queue) :
                i = 1 \/ (i - 1 \in 1..Len(queue') /\ queue'[i - 1] = queue[i])
      BY <1>2, <2>1, <2>2
    <2>4. ASSUME NEW c \in Backends, c # b PROVE InGate(c)' <=> InGate(c)
      <3>1. (c = Head(queue) \/ \E p \in 1..Len(queue') : queue'[p] = c)
            <=> (\E p \in 1..Len(queue) : queue[p] = c)
        <4>1. ASSUME NEW p \in 1..Len(queue'), queue'[p] = c PROVE \E i \in 1..Len(queue) : queue[i] = c
          BY Zenon, <2>3, <4>1
        <4>2. ASSUME NEW p \in 1..Len(queue), queue[p] = c
              PROVE  c = Head(queue) \/ \E i \in 1..Len(queue') : queue'[i] = c
          BY Zenon, <2>3, <4>2
        <4> QED
          BY Zenon, <2>3, <4>1, <4>2
      <3> QED
        BY Zenon, <1>2, <2>1, <2>4, <3>1 DEF InGate
    <2> QED
      BY Zenon, <1>0, <2>4 DEF Others
  <1>3. CASE holder # b
    <2>1. holder' = holder /\ granted' = granted /\ queue' = GateProof!Without(queue, b)
      BY Zenon, <1>3 DEF Gate!Release, Gate!Without, GateProof!Without
    <2>2. /\ \A i \in 1..Len(queue') : \E k \in 1..Len(queue) : queue'[i] = queue[k] /\ queue[k] # b
          /\ \A k \in 1..Len(queue) : queue[k] # b => \E i \in 1..Len(queue') : queue'[i] = queue[k]
      <3> DEFINE w == GateProof!Without(queue, b)
      <3>1. queue \in Seq(Backends) /\ \A i, j \in 1..Len(queue) : i < j => queue[i] # queue[j]
        BY Zenon, GateFields
      <3>2. /\ \A i \in 1..Len(w) : \E k \in 1..Len(queue) : w[i] = queue[k] /\ queue[k] # b
            /\ \A k \in 1..Len(queue) : queue[k] # b => \E i \in 1..Len(w) : w[i] = queue[k]
        BY <3>1, GateProof!WithoutProps, ConstantsAssumption
      <3> HIDE DEF w
      <3>3. queue' = w
        BY Zenon, <2>1 DEF w
      <3> QED
        BY Zenon, <3>2, <3>3
    <2>3. ASSUME NEW c \in Backends, c # b PROVE InGate(c)' <=> InGate(c)
      <3>1. (\E p \in 1..Len(queue') : queue'[p] = c) <=> (\E p \in 1..Len(queue) : queue[p] = c)
        BY ZenonT(40), <2>2, <2>3
      <3> QED
        BY Zenon, <2>1, <3>1 DEF InGate
    <2> QED
      BY Zenon, <1>0, <2>3 DEF Others
  <1> QED
    BY Zenon, <1>1, <1>2, <1>3

\* What the gate sees of one backend.
LEMMA OwnerOf ==
    ASSUME NEW b \in Backends
    PROVE  /\ b \in done => GateOwner[b] = "gone"
           /\ NotJoined(b) => GateOwner[b] = "new"
           /\ Joined(b) /\ pc[b] \in {"ticketed", "queued"} => GateOwner[b] = "waiting"
           /\ Joined(b) /\ pc[b] \notin {"ticketed", "queued"} => GateOwner[b] = "loading"
  BY Zenon DEF GateOwner, NotJoined, Joined

\* A step of one backend changes what the gate sees of that backend alone.
LEMMA OneMoves ==
    ASSUME TypeOK, TicketsMatch, NEW b \in Backends, NEW x, pc' = [pc EXCEPT ![b] = x],
           conf' = conf, Others(b), TicketAt(b)', NEW y, (GateOwner[b])' = y
    PROVE  TicketsMatch' /\ GateOwner' = [GateOwner EXCEPT ![b] = y]
  <1>1. ASSUME NEW c \in Backends, c # b
        PROVE  /\ pc'[c] = pc[c] /\ (InGate(c)' <=> InGate(c)) /\ (c \in done' <=> c \in done)
               /\ (IsSourced(c)' <=> IsSourced(c))
    BY Zenon, <1>1 DEF Others, TypeOK, IsSourced
  <1>2. ASSUME NEW c \in Backends PROVE TicketAt(c)'
    <2>1. CASE c = b
      BY Zenon, <2>1
    <2>2. CASE c # b
      BY ZenonT(40), <1>1, <2>2 DEF TicketsMatch, TicketAt, NotJoined, Joined
    <2> QED
      BY Zenon, <2>1, <2>2
  <1>3. ASSUME NEW c \in Backends, c # b PROVE GateOwner'[c] = GateOwner[c]
    BY Zenon, <1>1, <1>3 DEF GateOwner
  <1>4. GateOwner'[b] = y
    BY Zenon
  <1>5. DOMAIN GateOwner' = Backends /\ DOMAIN GateOwner = Backends
        /\ GateOwner' = [c \in Backends |-> GateOwner'[c]]
    BY Zenon DEF GateOwner
  <1>6. GateOwner' = [c \in Backends |-> IF c = b THEN y ELSE GateOwner[c]]
    BY Zenon, <1>3, <1>4, <1>5
  <1> QED
    BY ZenonT(40), <1>2, <1>5, <1>6 DEF TicketsMatch

\* A step of a loop that leaves the gate alone and does not change what the
\* gate sees of the loop.
LEMMA LoopLeavesGate ==
    ASSUME TypeOK, TicketsMatch, NEW b \in Backends, NEW x, pc' = [pc EXCEPT ![b] = x],
           conf' = conf, UNCHANGED gateVars,
           \/ /\ x \in {"ticketed", "fetching"} /\ IsSourced(b) /\ NotJoined(b)
           \/ /\ x \in {"dead", "exited"} /\ NotJoined(b)
           \/ /\ x = "queued" /\ pc[b] = "ticketed" /\ Joined(b)
           \/ /\ x \in {"launch", "retry", "starting", "respawning", "dying"}
              /\ pc[b] \in {"launch", "retry", "starting", "respawning", "dying", "running"}
           \/ /\ x \in {"running", "dead", "exited"} /\ b \in done
    PROVE  TicketsMatch' /\ UNCHANGED Gate!vars
  <1>1. /\ \A c \in Backends : InGate(c)' <=> InGate(c)
        /\ holder' = holder /\ queue' = queue /\ granted' = granted /\ done' = done
        /\ arrivals' = arrivals /\ pc'[b] = x
    BY Zenon DEF gateVars, InGate, TypeOK
  <1>2. Others(b) /\ (NotJoined(b)' <=> NotJoined(b)) /\ (Joined(b)' <=> Joined(b))
        /\ (IsSourced(b)' <=> IsSourced(b))
    BY Zenon, <1>1 DEF Others, NotJoined, Joined, IsSourced
  <1>3. TicketAt(b)
    BY Zenon DEF TicketsMatch
  <1>4. TicketAt(b)'
    BY SMTT(30), <1>1, <1>2, <1>3 DEF TicketAt
  <1>5. (GateOwner[b])' = GateOwner[b]
    BY Zenon, <1>1, <1>2, <1>3 DEF GateOwner, TicketAt, NotJoined, Joined
  <1>6. TicketsMatch' /\ GateOwner' = [GateOwner EXCEPT ![b] = GateOwner[b]]
    BY ZenonT(40), <1>2, <1>4, <1>5, OneMoves
  <1>7. [GateOwner EXCEPT ![b] = GateOwner[b]] = GateOwner
    BY Zenon DEF GateOwner
  <1> QED
    BY Zenon, <1>1, <1>6, <1>7 DEF Gate!vars

\* A loop takes a ticket: Join.
LEMMA LoopJoins ==
    ASSUME GateProof!GateInv, TypeOK, TicketsMatch, NEW b \in Backends, NotJoined(b),
           NEW x \in {"ticketed", "queued"}, x = "ticketed" => ~IsSourced(b),
           pc' = [pc EXCEPT ![b] = x], conf' = conf, Enqueue(b)
    PROVE  TicketsMatch' /\ Gate!Next
  <1>1. Gate!Enqueue(b) /\ arrivals' = Append(arrivals, b) /\ b \notin done
    BY Zenon DEF Enqueue, NotJoined
  <1>2. InGate(b)' /\ b \notin done' /\ Others(b)
    BY <1>1, EnqueueLink
  <1>3. pc'[b] = x /\ (IsSourced(b)' <=> IsSourced(b))
    BY Zenon DEF TypeOK, IsSourced
  <1>4. TicketAt(b)' /\ (GateOwner[b])' = "waiting"
    BY Zenon, <1>2, <1>3 DEF TicketAt, GateOwner, NotJoined, Joined
  <1>5. TicketsMatch' /\ GateOwner' = [GateOwner EXCEPT ![b] = "waiting"]
    BY ZenonT(40), <1>2, <1>4, OneMoves
  <1>6. GateOwner[b] = "new"
    BY Zenon, OwnerOf
  <1>7. Gate!Join(b)
    BY Zenon, <1>1, <1>5, <1>6 DEF Gate!Join
  <1> QED
    BY Zenon, <1>5, <1>7 DEF Gate!Next

\* A loop gives its ticket back: WaitCancelled while it waits, Finish later.
LEMMA LoopReleases ==
    ASSUME GateProof!GateInv, TypeOK, TicketsMatch, NEW b \in Backends, Joined(b),
           NEW x \in {"running", "dead", "exited"}, pc' = [pc EXCEPT ![b] = x], conf' = conf,
           ReleaseTicket(b)
    PROVE  TicketsMatch' /\ Gate!Next
  <1>1. Gate!Release(b) /\ arrivals' = arrivals /\ b \notin done
    BY Zenon DEF ReleaseTicket, Joined
  <1>2. b \in done' /\ Others(b)
    BY Zenon, <1>1, ReleaseLink
  <1>3. pc'[b] = x
    BY SMTT(30) DEF TypeOK
  <1>4. TicketAt(b)' /\ (GateOwner[b])' = "gone"
    BY Zenon, <1>2, <1>3 DEF TicketAt, GateOwner, NotJoined, Joined
  <1>5. TicketsMatch' /\ GateOwner' = [GateOwner EXCEPT ![b] = "gone"]
    BY ZenonT(40), <1>2, <1>4, OneMoves
  <1>6. GateOwner[b] \in {"waiting", "loading"}
    BY OwnerOf
  <1>7. Gate!WaitCancelled(b) \/ Gate!Finish(b)
    BY Zenon, <1>1, <1>5, <1>6 DEF Gate!WaitCancelled, Gate!Finish
  <1> QED
    BY Zenon, <1>5, <1>7 DEF Gate!Next

\* ticket.wait returns nil: the loop goes from waiting to loading.
LEMMA LoopGranted ==
    ASSUME TypeOK, TicketsMatch, NEW b \in Backends, pc[b] = "queued", b \in granted,
           pc' = [pc EXCEPT ![b] = "launch"], conf' = conf, UNCHANGED gateVars
    PROVE  TicketsMatch' /\ Gate!Next
  <1>1. Joined(b) /\ pc'[b] = "launch"
    BY Zenon DEF TicketsMatch, TicketAt, TypeOK
  <1>2. /\ \A c \in Backends : InGate(c)' <=> InGate(c)
        /\ holder' = holder /\ queue' = queue /\ granted' = granted /\ done' = done
        /\ arrivals' = arrivals
    BY Zenon DEF gateVars, InGate
  <1>3. Others(b) /\ Joined(b)'
    BY Zenon, <1>1, <1>2 DEF Others, Joined
  <1>4. TicketAt(b)' /\ (GateOwner[b])' = "loading"
    BY SMTT(30), <1>1, <1>3 DEF TicketAt, GateOwner, Joined
  <1>5. TicketsMatch' /\ GateOwner' = [GateOwner EXCEPT ![b] = "loading"]
    BY ZenonT(40), <1>3, <1>4, OneMoves
  <1>6. Gate!WaitGranted(b)
    BY Zenon, <1>1, <1>2, <1>5, OwnerOf DEF Gate!WaitGranted, Gate!gateVars
  <1> QED
    BY Zenon, <1>5, <1>6 DEF Gate!Next

\* releaseTicket: a ticket that is held is given back, else nothing happens.
LEMMA LoopLetsGo ==
    ASSUME GateProof!GateInv, TypeOK, TicketsMatch, NEW b \in Backends,
           NEW x \in {"running", "dead", "exited"}, x = "running" => ~NotJoined(b),
           pc' = [pc EXCEPT ![b] = x], conf' = conf, ReleaseTicket(b)
    PROVE  TicketsMatch' /\ [Gate!Next]_(Gate!vars)
  <1>1. CASE Joined(b)
    BY ZenonT(40), <1>1, LoopReleases
  <1>2. CASE b \in done
    <2>1. UNCHANGED gateVars
      BY Zenon, <1>2 DEF ReleaseTicket, Gate!Release, Gate!gateVars, gateVars
    <2> QED
      BY ZenonT(40), <1>2, <2>1, LoopLeavesGate
  <1>3. CASE NotJoined(b)
    <2>1. UNCHANGED gateVars
      BY Zenon, <1>3 DEF ReleaseTicket, gateVars, NotJoined
    <2> QED
      BY ZenonT(40), <1>3, <2>1, LoopLeavesGate
  <1> QED
    BY <1>1, <1>2, <1>3 DEF Joined, NotJoined

\* The start goroutine's two steps for a backend.
LEMMA GateStart ==
    ASSUME GateProof!GateInv, TypeOK, TicketsMatch, NEW b \in Backends, StartStep(b)
    PROVE  TicketsMatch' /\ [Gate!Next]_(Gate!vars)
  <1>0. conf' = conf /\ TicketAt(b)
    BY ZenonT(40) DEF StartStep, StartEnqueue, StartLoop, supVars, TicketsMatch
  <1>1. CASE StartEnqueue(b)
    <2>1. NotJoined(b) /\ pc' = [pc EXCEPT ![b] = "ticketed"]
      BY ZenonT(40), <1>0, <1>1 DEF StartEnqueue, TicketAt
    <2>2. CASE IsSourced(b)
      <3>1. UNCHANGED gateVars
        BY Zenon, <1>1, <2>2 DEF StartEnqueue
      <3> QED
        BY ZenonT(40), <1>0, <2>1, <2>2, <3>1, LoopLeavesGate
    <2>3. CASE ~IsSourced(b)
      <3>1. Enqueue(b)
        BY Zenon, <1>1, <2>3 DEF StartEnqueue
      <3> QED
        BY ZenonT(40), <1>0, <2>1, <2>3, <3>1, LoopJoins
    <2> QED
      BY Zenon, <2>2, <2>3
  <1>2. CASE StartLoop(b) /\ ModelOf(b) \in closed
    <2>1. pc' = [pc EXCEPT ![b] = "exited"] /\ ReleaseTicket(b)
      BY <1>2 DEF StartLoop
    <2> QED
      BY ZenonT(40), <1>0, <2>1, LoopLetsGo
  <1>3. CASE StartLoop(b) /\ ModelOf(b) \notin closed
    <2>1. /\ pc' = [pc EXCEPT ![b] = IF IsSourced(b) THEN "fetching" ELSE "queued"]
          /\ UNCHANGED gateVars /\ pc[b] = "ticketed"
      BY Zenon, <1>3 DEF StartLoop
    <2>2. CASE IsSourced(b)
      BY ZenonT(40), <1>0, <2>1, <2>2, LoopLeavesGate DEF TicketAt
    <2>3. CASE ~IsSourced(b)
      BY ZenonT(40), <1>0, <2>1, <2>3, LoopLeavesGate DEF TicketAt
    <2> QED
      BY Zenon, <2>2, <2>3
  <1> QED
    BY Zenon, <1>1, <1>2, <1>3 DEF StartStep

\* The steps of a backend's loop.
LEMMA GateLoop ==
    ASSUME GateProof!GateInv, TypeOK, TicketsMatch, NEW b \in Backends, LoopStep(b)
    PROVE  TicketsMatch' /\ [Gate!Next]_(Gate!vars)
  <1>0. conf' = conf /\ TicketAt(b)
    BY ZenonT(40) DEF LoopStep, ResolveSource, TicketWait, LaunchStarts, LaunchNoCommand, LaunchFails,
       GiveUp, Respawn, MarkDead, QuickRetry, Ready, Cancelled, supVars, TicketsMatch
  <1>1. CASE ResolveSource(b)
    <2>1. NotJoined(b)
      BY Zenon, <1>0, <1>1 DEF ResolveSource, TicketAt
    <2>2. CASE pc' = [pc EXCEPT ![b] = "queued"] /\ Enqueue(b)
      BY ZenonT(40), <1>0, <2>1, <2>2, LoopJoins
    <2>3. CASE pc' = [pc EXCEPT ![b] = "dead"] /\ UNCHANGED gateVars
      BY ZenonT(40), <1>0, <2>1, <2>3, LoopLeavesGate
    <2>4. CASE Exit(b)
      BY ZenonT(40), <1>0, <2>4, LoopLetsGo DEF Exit
    <2> QED
      BY SMTT(30), <1>1, <2>2, <2>3, <2>4 DEF ResolveSource
  <1>2. CASE TicketWait(b)
    <2>1. CASE b \in granted /\ pc' = [pc EXCEPT ![b] = "launch"] /\ UNCHANGED gateVars
      BY ZenonT(40), <1>0, <1>2, <2>1, LoopGranted DEF TicketWait
    <2>2. CASE Exit(b)
      BY ZenonT(40), <1>0, <2>2, LoopLetsGo DEF Exit
    <2> QED
      BY Zenon, <1>2, <2>1, <2>2 DEF TicketWait
  <1>3. CASE LaunchStarts(b) \/ LaunchFails(b) \/ GiveUp(b) \/ Respawn(b) \/ QuickRetry(b)
    <2>1. /\ UNCHANGED gateVars
          /\ pc[b] \in {"launch", "retry", "starting", "respawning", "dying", "running"}
      BY Zenon, <1>3 DEF LaunchStarts, LaunchFails, GiveUp, Respawn, QuickRetry
    <2>2. PICK x \in {"launch", "retry", "starting", "respawning", "dying"} :
             pc' = [pc EXCEPT ![b] = x]
      BY Zenon, <1>3 DEF LaunchStarts, LaunchFails, GiveUp, Respawn, QuickRetry
    <2> QED
      BY ZenonT(40), <1>0, <2>1, <2>2, LoopLeavesGate
  <1>4. CASE LaunchNoCommand(b) \/ MarkDead(b)
    <2>1. pc' = [pc EXCEPT ![b] = "dead"] /\ ReleaseTicket(b)
      BY Zenon, <1>4 DEF LaunchNoCommand, MarkDead
    <2> QED
      BY ZenonT(40), <1>0, <2>1, LoopLetsGo
  <1>5. CASE Ready(b)
    <2>1. pc' = [pc EXCEPT ![b] = "running"] /\ ReleaseTicket(b) /\ ~NotJoined(b)
      BY Zenon, <1>0, <1>5 DEF Ready, TicketAt, NotJoined, Joined
    <2> QED
      BY ZenonT(40), <1>0, <2>1, LoopLetsGo
  <1>6. CASE Cancelled(b)
    BY ZenonT(40), <1>0, <1>6, LoopLetsGo DEF Cancelled, Exit
  <1> QED
    BY Zenon, <1>1, <1>2, <1>3, <1>4, <1>5, <1>6 DEF LoopStep

\* Every step of the supervisor is a step of the gate or leaves it alone.
LEMMA GateSimulates ==
    GateProof!GateInv /\ GpuInv /\ TicketsMatch /\ [Next]_vars
        => TicketsMatch' /\ [Gate!Next]_(Gate!vars)
  <1> SUFFICES ASSUME GateProof!GateInv, GpuInv, TicketsMatch, [Next]_vars
               PROVE  TicketsMatch' /\ [Gate!Next]_(Gate!vars)
    BY Zenon
  <1>0. TypeOK
    BY Zenon DEF GpuInv
  <1>1. CASE UNCHANGED <<conf, pc, gateVars>>
    <2>1. /\ conf' = conf /\ pc' = pc /\ holder' = holder /\ queue' = queue
          /\ granted' = granted /\ done' = done /\ arrivals' = arrivals
      BY Zenon, <1>1 DEF gateVars
    <2>2. GateOwner' = GateOwner
      BY Zenon, <2>1 DEF GateOwner, InGate
    <2> QED
      BY ZenonT(40), <2>1, <2>2 DEF Gate!vars, TicketsMatch, TicketAt, Joined, NotJoined, InGate, IsSourced
  <1>2. ASSUME NEW l \in Lists, Apply(l) PROVE TicketsMatch' /\ UNCHANGED Gate!vars
    <2>1. /\ holder' = holder /\ queue' = queue /\ granted' = granted /\ done' = done
          /\ arrivals' = arrivals
      BY Zenon, <1>2, ApplyAdds DEF gateVars
    <2>2. ASSUME NEW b \in Backends
          PROVE  (NotJoined(b)' <=> NotJoined(b)) /\ (Joined(b)' <=> Joined(b))
      BY Zenon, <2>1 DEF NotJoined, Joined, InGate
    <2>3. ASSUME NEW b \in Backends PROVE TicketAt(b)' /\ GateOwner'[b] = GateOwner[b]
      <3>1. TicketAt(b)
        BY Zenon DEF TicketsMatch
      <3>2. CASE b[1] = applies + 1
        <4>1. pc[b] = "none" /\ pc'[b] \in {"none", "pending"}
          BY SMTT(30), <1>2, <3>2, ApplyAdds
        <4>2. NotJoined(b) /\ NotJoined(b)'
          BY Zenon, <2>2, <3>1, <4>1 DEF TicketAt
        <4> QED
          BY Zenon, <4>1, <4>2 DEF TicketAt, GateOwner, NotJoined
      <3>3. CASE b[1] # applies + 1
        <4>1. pc'[b] = pc[b] /\ (IsSourced(b)' <=> IsSourced(b))
          BY SMTT(30), <1>2, <3>3, ApplyAdds DEF IsSourced
        <4>2. TicketAt(b)'
          BY ZenonT(40), <2>2, <3>1, <4>1, <2>1 DEF TicketAt
        <4>3. (InGate(b)' <=> InGate(b)) /\ done' = done
          BY Zenon, <2>1 DEF InGate
        <4> QED
          BY Zenon, <4>1, <4>2, <4>3 DEF GateOwner
      <3> QED
        BY Zenon, <3>2, <3>3
    <2>4. GateOwner' = GateOwner
      <3>1. GateOwner' = [b \in Backends |-> GateOwner'[b]]
            /\ GateOwner = [b \in Backends |-> GateOwner[b]]
        BY Zenon DEF GateOwner
      <3> QED
        BY Zenon, <2>3, <3>1
    <2> QED
      BY Zenon, <2>1, <2>3, <2>4 DEF TicketsMatch, Gate!vars
  <1>3. ASSUME NEW b \in Backends, StartStep(b) PROVE TicketsMatch' /\ [Gate!Next]_(Gate!vars)
    BY Zenon, <1>0, <1>3, GateStart
  <1>4. ASSUME NEW b \in Backends, LoopStep(b) PROVE TicketsMatch' /\ [Gate!Next]_(Gate!vars)
    BY Zenon, <1>0, <1>4, GateLoop
  <1>5. ASSUME NEW b \in Backends, Refill(b) \/ ProcExits(b) PROVE UNCHANGED <<conf, pc, gateVars>>
    BY Zenon, <1>5 DEF Refill, ProcExits, supVars
  <1>6. ASSUME NEW i \in Instances, FetchEnds(i) PROVE UNCHANGED <<conf, pc, gateVars>>
    BY Zenon, <1>6 DEF FetchEnds, supVars
  <1>7. ASSUME NEW i \in Instances, DrainStep(i) PROVE UNCHANGED <<conf, pc, gateVars>>
    BY Zenon, <1>7 DEF DrainStep, DrainLoops, DrainDelete, DrainClose, DrainStop, supVars, loopVars
  <1>8. CASE Shutdown \/ ShutdownReturns
    <2>1. UNCHANGED <<conf, pc, gateVars>>
      BY Zenon, <1>8 DEF Shutdown, ShutdownReturns, loopVars
    <2> QED
      BY Zenon, <1>1, <2>1
  <1>9. CASE UNCHANGED vars
    <2>1. UNCHANGED <<conf, pc, gateVars>>
      BY Zenon, <1>9 DEF vars, supVars, loopVars
    <2> QED
      BY <1>1, <2>1
  <1> QED
    BY SMTT(30), <1>1, <1>2, <1>3, <1>4, <1>5, <1>6, <1>7, <1>8, <1>9 DEF Next

\* The gate's invariant holds for the supervisor's use of it.
LEMMA GateInvStep ==
    GateProof!GateInv /\ GpuInv /\ TicketsMatch /\ [Next]_vars => GateProof!GateInv'
  <1> SUFFICES ASSUME GateProof!GateInv, GpuInv, TicketsMatch, [Next]_vars
               PROVE  GateProof!GateInv'
    BY Zenon
  <1>1. [GateProof!Next]_(GateProof!vars)
    BY Zenon, GateSimulates, GateNextSame
  <1> QED
    BY Zenon, <1>1, GateProof!GateStep, ConstantsAssumption

\* The first state has an empty gate and no ticket.
LEMMA GateBegins == Init => GateProof!GateInv /\ TicketsMatch /\ Gate!Init
  <1> SUFFICES ASSUME Init PROVE GateProof!GateInv /\ TicketsMatch /\ Gate!Init
    BY Zenon
  <1>1. /\ holder = NoTicket /\ queue = <<>> /\ granted = {} /\ done = {} /\ arrivals = <<>>
        /\ \A b \in Backends : pc[b] = "none"
    BY Zenon DEF Init
  <1>2. \A b \in Backends : NotJoined(b)
    BY <1>1, ConstantsAssumption DEF NotJoined, InGate
  <1>3. GateOwner = [b \in Backends |-> "new"]
    BY Zenon, <1>2 DEF GateOwner, NotJoined
  <1>4. Gate!Init /\ GateProof!Init
    BY Zenon, <1>1, <1>3 DEF Gate!Init, GateProof!Init
  <1>5. TicketsMatch
    BY Zenon, <1>1, <1>2 DEF TicketsMatch, TicketAt
  <1> QED
    BY Zenon, <1>4, <1>5, GateProof!GateInit, ConstantsAssumption

\* The supervisor uses the load gate as its specification allows: whatever
\* the lists, Applies and failures, its tickets are the gate's behaviour.
THEOREM GateImplemented == Spec => GateRefined
  <1>1. Spec => [](GateProof!GateInv /\ TicketsMatch)
    BY GateBegins, GateSimulates, GateInvStep, InvCorrect, PTL DEF Spec
  <1> QED
    BY <1>1, GateBegins, GateSimulates, InvCorrect, PTL DEF Spec, GateRefined, Gate!Spec

\* A backend that was granted its first load and has not ended it.
FirstLoad(b) ==
    pc[b] \in {"launch", "retry", "starting", "respawning", "dying"} /\ b \notin done

OneFirstLoad == \A b, c \in Backends : FirstLoad(b) /\ FirstLoad(c) => b = c

\* The node reads one model's weights at a time: from the grant to the first
\* ready, or to death, one backend's launches and respawns are alone.
THEOREM NodeLoadsOneAtATime == Spec => []OneFirstLoad
  <1>1. Spec => [](GateProof!GateInv /\ TicketsMatch)
    BY GateBegins, GateSimulates, GateInvStep, InvCorrect, PTL DEF Spec
  <1>2. ASSUME GateProof!GateInv, TicketsMatch PROVE OneFirstLoad
    <2>1. ASSUME NEW b \in Backends, FirstLoad(b) PROVE holder = b
      <3>1. GateOwner[b] = "loading"
        BY ZenonT(40), <1>2, <2>1, OwnerOf DEF TicketsMatch, TicketAt, FirstLoad
      <3> QED
        BY Zenon, <1>2, <3>1 DEF GateProof!GateInv
    <2> QED
      BY Zenon, <2>1 DEF OneFirstLoad
  <1> QED
    BY <1>1, <1>2, PTL
=============================================================================
