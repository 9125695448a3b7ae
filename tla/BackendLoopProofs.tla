------------------------- MODULE BackendLoopProofs -------------------------
(***************************************************************************)
(* Proofs about BackendLoop, for every value of the ladder's limits: what  *)
(* a backend may spend (BudgetsKept), that requests go only to a backend   *)
(* that is watched (AdmittedIsWatched), and that requests in flight get    *)
(* their grace (GraceKept).                                                *)
(***************************************************************************)
EXTENDS BackendLoop, TLAPS

Ladders ==
    [state : {"starting", "healthy", "unhealthy", "dead"},
     startAge : Ages(StartupTimeout), healthyAge : Ages(RespawnRefill),
     strikes : 0..MaxFailures, respawns : 0..MaxRespawns,
     hardFailure : BOOLEAN, condemned : BOOLEAN,
     deferredAge : Ages(RespawnGrace)]

\* The age of a deferral that begins now unless it has begun before.
Deferral(l) == IF l.deferredAge = Never THEN 0 ELSE l.deferredAge

-----------------------------------------------------------------------------
(* What the ladder's methods return, one lemma per method.                 *)

\* giveUp: the end is put off for requests in flight on a live process, and
\* not beyond the grace; else it is a respawn within the budget, or the end.
LEMMA GiveUpResult ==
    ASSUME NEW l \in Ladders, NEW alive \in BOOLEAN, NEW n \in Nat,
           NEW r, r = GiveUp(l, alive, n)
    PROVE  /\ r.ladder \in Ladders
           /\ \/ /\ r.action = "none" /\ alive /\ n > 0
                 /\ r.ladder.state = l.state /\ r.ladder.strikes = l.strikes
                 /\ r.ladder.respawns = l.respawns /\ r.ladder.condemned = l.condemned
                 /\ r.ladder.deferredAge = Deferral(l)
                 /\ Deferral(l) < RespawnGrace
              \/ /\ r.action = "respawn"
                 /\ r.ladder.state = l.state
                 /\ r.ladder.respawns = l.respawns + 1
                 /\ alive /\ n > 0 => RespawnGrace <= Deferral(l)
              \/ /\ r.action = "markDead"
                 /\ r.ladder.state = "dead"
                 /\ r.ladder.respawns = l.respawns
                 /\ alive /\ n > 0 => RespawnGrace <= Deferral(l)
  <1> DEFINE draining == alive /\ n > 0 /\ RespawnGrace > 0
             deferred == IF draining /\ l.deferredAge = Never THEN 0 ELSE l.deferredAge
             kept     == [l EXCEPT !.deferredAge = deferred]
             ended    == [l EXCEPT !.deferredAge = Never, !.strikes = 0]
             last     == [ended EXCEPT !.state = "dead"]
             again    == [ended EXCEPT !.respawns = @ + 1]
  <1>1. r = IF draining /\ deferred < RespawnGrace THEN Result(kept, "none")
            ELSE IF l.respawns >= MaxRespawns THEN Result(last, "markDead")
            ELSE Result(again, "respawn")
    BY Zenon DEF GiveUp
  <1>2. /\ l.respawns \in 0..MaxRespawns /\ l.deferredAge \in Never..RespawnGrace
        /\ MaxRespawns \in Nat /\ RespawnGrace \in Nat /\ MaxFailures \in Nat
    BY Zenon, ConstantsAssumption DEF Ladders, Ages
  <1>3. CASE draining /\ deferred < RespawnGrace
    <2>1. deferred = Deferral(l) /\ deferred \in Ages(RespawnGrace)
      BY <1>2, <1>3 DEF Deferral, Ages, Never
    <2>2. r.ladder = kept /\ r.action = "none"
      BY <1>1, <1>3 DEF Result
    <2>3. /\ kept \in Ladders
          /\ kept.state = l.state /\ kept.strikes = l.strikes /\ kept.respawns = l.respawns
          /\ kept.condemned = l.condemned /\ kept.deferredAge = deferred
      BY Zenon, <2>1 DEF Ladders
    <2> QED
      BY ZenonT(40), <1>3, <2>1, <2>2, <2>3
  <1>4. CASE ~(draining /\ deferred < RespawnGrace)
    <2>1. alive /\ n > 0 => RespawnGrace <= Deferral(l)
      BY <1>2, <1>4 DEF Deferral, Never
    <2>a. Never \in Ages(RespawnGrace) /\ 0 \in 0..MaxFailures
      BY <1>2 DEF Ages, Never
    <2>2. ended \in Ladders /\ ended.state = l.state /\ ended.respawns = l.respawns
      BY ZenonT(40), <2>a DEF Ladders
    <2> HIDE DEF ended
    <2>3. CASE l.respawns >= MaxRespawns
      <3>1. r.ladder = last /\ r.action = "markDead"
        BY <1>1, <1>4, <2>3 DEF Result
      <3>2. last \in Ladders /\ last.state = "dead" /\ last.respawns = l.respawns
        BY Zenon, <2>2 DEF Ladders
      <3> QED
        BY Zenon, <2>1, <3>1, <3>2
    <2>4. CASE ~(l.respawns >= MaxRespawns)
      <3>1. r.ladder = again /\ r.action = "respawn"
        BY <1>1, <1>4, <2>4 DEF Result
      <3>2. l.respawns + 1 \in 0..MaxRespawns
        BY <1>2, <2>4
      <3>3. again \in Ladders /\ again.state = l.state /\ again.respawns = l.respawns + 1
        BY Zenon, <2>2, <3>2 DEF Ladders
      <3> QED
        BY Zenon, <2>1, <3>1, <3>3
    <2> QED
      BY Zenon, <2>3, <2>4
  <1> QED
    BY Zenon, <1>3, <1>4

\* clearTransient touches the three fields it names.
LEMMA ClearTransientResult ==
    ASSUME NEW l \in Ladders, NEW c, c = ClearTransient(l)
    PROVE  /\ c \in Ladders
           /\ c.state = l.state /\ c.healthyAge = l.healthyAge /\ c.respawns = l.respawns
           /\ c.condemned = l.condemned /\ c.strikes = 0 /\ c.deferredAge = Never
  <1>1. 0 \in 0..MaxFailures /\ Never \in Ages(RespawnGrace)
    BY ConstantsAssumption DEF Ages, Never
  <1>2. c = [l EXCEPT !.strikes = 0, !.hardFailure = FALSE, !.deferredAge = Never]
    BY Zenon DEF ClearTransient
  <1> QED
    BY ZenonT(40), <1>1, <1>2 DEF Ladders

\* The same of an observation of a backend that is not dead.
LEMMA ObserveResult ==
    ASSUME NEW l \in Ladders, NEW ready \in BOOLEAN, NEW alive \in BOOLEAN, NEW n \in Nat,
           NEW r, r = Observe(l, ready, alive, n),
           l.state # "dead"
    PROVE  /\ r.ladder \in Ladders
           /\ \/ /\ r.action = "none" /\ r.ladder.state = "healthy"
                 /\ ready /\ ~l.condemned
                 /\ r.ladder.strikes = 0 /\ r.ladder.deferredAge = Never
                 /\ r.ladder.healthyAge = IF l.state = "healthy" THEN l.healthyAge ELSE 0
                 /\ r.ladder.respawns \in {0, l.respawns}
                 /\ r.ladder.respawns # l.respawns
                      => l.state = "healthy" /\ l.healthyAge >= RespawnRefill
              \/ r.action = "none" /\ l.state = "starting" /\ alive /\ r.ladder = l
              \/ /\ r.action = "none" /\ r.ladder.state = "unhealthy"
                 /\ alive /\ l.state # "starting" /\ ~l.condemned /\ ~r.ladder.condemned
                 /\ r.ladder.strikes = l.strikes + 1 /\ r.ladder.strikes < MaxFailures
                 /\ r.ladder.respawns = l.respawns
                 /\ r.ladder.deferredAge = l.deferredAge
              \/ /\ r.action = "none" /\ r.ladder.state = "unhealthy"
                 /\ alive /\ n > 0
                 /\ r.ladder.condemned = l.condemned
                 /\ l.condemned \/ r.ladder.strikes = MaxFailures
                 /\ r.ladder.respawns = l.respawns
                 /\ r.ladder.deferredAge = Deferral(l)
                 /\ Deferral(l) < RespawnGrace
              \/ /\ r.action = "respawn"
                 /\ r.ladder.state \in {"starting", "unhealthy"}
                 /\ r.ladder.respawns = l.respawns + 1
                 /\ alive /\ n > 0 /\ l.state # "starting" => RespawnGrace <= Deferral(l)
              \/ /\ r.action = "markDead"
                 /\ r.ladder.state = "dead"
                 /\ r.ladder.respawns = l.respawns
                 /\ alive /\ n > 0 /\ l.state # "starting" => RespawnGrace <= Deferral(l)
  <1>1. CASE l.condemned
    <2> DEFINE k == [l EXCEPT !.state = "unhealthy"]
    <2>1. k \in Ladders /\ k.state = "unhealthy" /\ k.respawns = l.respawns /\ k.condemned = l.condemned
            /\ k.deferredAge = l.deferredAge /\ k.strikes = l.strikes
      BY Zenon DEF Ladders
    <2>2. r = GiveUp(k, alive, n)
      BY Zenon, <1>1 DEF Observe
    <2>3. Deferral(k) = Deferral(l)
      BY Zenon, <2>1 DEF Deferral
    <2> HIDE DEF k
    <2>4. \/ /\ r.action = "none" /\ alive /\ n > 0
             /\ r.ladder.state = "unhealthy" /\ r.ladder.respawns = l.respawns
             /\ r.ladder.condemned = l.condemned
             /\ r.ladder.deferredAge = Deferral(l) /\ Deferral(l) < RespawnGrace
          \/ /\ r.action = "respawn" /\ r.ladder.state = "unhealthy"
             /\ r.ladder.respawns = l.respawns + 1
             /\ alive /\ n > 0 => RespawnGrace <= Deferral(l)
          \/ /\ r.action = "markDead" /\ r.ladder.state = "dead"
             /\ r.ladder.respawns = l.respawns
             /\ alive /\ n > 0 => RespawnGrace <= Deferral(l)
      BY <2>1, <2>2, <2>3, GiveUpResult
    <2>5. r.ladder \in Ladders
      BY Zenon, <2>1, <2>2, GiveUpResult
    <2> QED
      BY ZenonT(40), <1>1, <2>4, <2>5
  <1>2. CASE ~l.condemned /\ l.state = "starting"
    <2>1. r = ObserveStarting(l, ready, alive)
      BY Zenon, <1>2 DEF Observe
    <2>2. CASE ready
      <3> DEFINE up == [l EXCEPT !.state = "healthy", !.healthyAge = 0]
      <3>1. r.ladder = ClearTransient(up) /\ r.action = "none"
        BY <2>1, <2>2 DEF ObserveStarting, Result
      <3>2. 0 \in Ages(RespawnRefill)
        BY ConstantsAssumption DEF Ages, Never
      <3>3. up \in Ladders /\ up.state = "healthy" /\ up.healthyAge = 0 /\ up.respawns = l.respawns
        BY ZenonT(40), <3>2 DEF Ladders
      <3> HIDE DEF up
      <3> QED
        BY ZenonT(40), <1>2, <2>2, <3>1, <3>3, ClearTransientResult
    <2>3. CASE ~ready /\ alive /\ l.startAge < StartupTimeout
      BY <1>2, <2>1, <2>3 DEF ObserveStarting, Result
    <2>4. CASE ~ready /\ ~(alive /\ l.startAge < StartupTimeout)
      <3>1. r = GiveUp(l, alive, 0)
        BY Zenon, <2>1, <2>4 DEF ObserveStarting
      <3> QED
        BY <1>2, <3>1, GiveUpResult
    <2> QED
      BY Zenon, <2>2, <2>3, <2>4
  <1>3. CASE ~l.condemned /\ l.state # "starting" /\ ready
    <2>1. r = ObserveReady(l)
      BY Zenon, <1>3 DEF Observe
    <2>2. l.state \in {"healthy", "unhealthy"}
      BY Zenon, <1>3 DEF Ladders
    <2> DEFINE age == IF l.state = "unhealthy" THEN 0 ELSE l.healthyAge
               up  == [l EXCEPT !.state = "healthy", !.healthyAge = age]
               c   == ClearTransient(up)
               full == [c EXCEPT !.respawns = 0]
    <2>3. r.action = "none" /\ r.ladder = IF age >= RespawnRefill THEN full ELSE c
      BY <2>1 DEF ObserveReady, Result
    <2>4. /\ age \in Ages(RespawnRefill) /\ 0 \in 0..MaxRespawns
          /\ age = IF l.state = "healthy" THEN l.healthyAge ELSE 0
          /\ age >= RespawnRefill => l.state = "healthy" /\ l.healthyAge >= RespawnRefill
      BY <2>2, ConstantsAssumption DEF Ladders, Ages, Never
    <2>5. up \in Ladders /\ up.state = "healthy" /\ up.healthyAge = age /\ up.respawns = l.respawns
      BY ZenonT(40), <2>4 DEF Ladders
    <2> HIDE DEF age, up
    <2>6. /\ c \in Ladders /\ c.state = "healthy" /\ c.healthyAge = age /\ c.respawns = l.respawns
          /\ c.strikes = 0 /\ c.deferredAge = Never
      BY Zenon, <2>5, ClearTransientResult
    <2> HIDE DEF c
    <2>7. /\ full \in Ladders /\ full.state = "healthy" /\ full.healthyAge = age
          /\ full.respawns = 0 /\ full.strikes = 0 /\ full.deferredAge = Never
      BY Zenon, <2>4, <2>6 DEF Ladders
    <2> HIDE DEF full
    <2> QED
      BY ZenonT(40), <1>3, <2>3, <2>4, <2>6, <2>7
  <1>4. CASE ~l.condemned /\ l.state # "starting" /\ ~ready
    <2> DEFINE strikes == IF l.hardFailure \/ ~alive \/ l.strikes >= MaxFailures
                          THEN MaxFailures ELSE l.strikes + 1
               down == [l EXCEPT !.state = "unhealthy", !.strikes = strikes, !.hardFailure = FALSE]
    <2>1. r = IF strikes < MaxFailures THEN Result(down, "none") ELSE GiveUp(down, alive, n)
      BY Zenon, <1>4 DEF Observe, ObserveFailed
    <2>2. strikes \in 0..MaxFailures /\ (strikes < MaxFailures => alive /\ strikes = l.strikes + 1)
      BY ConstantsAssumption DEF Ladders
    <2>3. /\ down \in Ladders /\ down.state = "unhealthy" /\ down.strikes = strikes
          /\ down.respawns = l.respawns /\ down.condemned = l.condemned
          /\ down.deferredAge = l.deferredAge
      BY ZenonT(40), <2>2 DEF Ladders
    <2>4. Deferral(down) = Deferral(l)
      BY Zenon, <2>3 DEF Deferral
    <2> HIDE DEF strikes, down
    <2>5. CASE strikes < MaxFailures
      <3>1. r.ladder = down /\ r.action = "none"
        BY <2>1, <2>5 DEF Result
      <3> QED
        BY Zenon, <1>4, <2>2, <2>3, <2>5, <3>1
    <2>6. CASE ~(strikes < MaxFailures)
      <3>1. r = GiveUp(down, alive, n) /\ strikes = MaxFailures
        BY <2>1, <2>2, <2>6, ConstantsAssumption
      <3> QED
        BY <1>4, <2>3, <2>4, <3>1, GiveUpResult
    <2> QED
      BY Zenon, <2>5, <2>6
  <1> QED
    BY Zenon, <1>1, <1>2, <1>3, <1>4 DEF Ladders

\* checkGPU may condemn the backend and changes nothing else of its ladder.
LEMMA CheckGPUResult ==
    ASSUME NEW l \in Ladders, NEW c \in CheckGPU(l)
    PROVE  /\ c.ladder \in Ladders /\ c.decided \in BOOLEAN
           /\ c.ladder.state = l.state /\ c.ladder.respawns = l.respawns
           /\ c.ladder.strikes = l.strikes
           /\ c.ladder.healthyAge = l.healthyAge /\ c.ladder.deferredAge = l.deferredAge
           /\ l.condemned => c.ladder.condemned
  <1>1. c.decided \in BOOLEAN /\ c.ladder \in {l, Condemn(l)}
    <2>1. \/ c = [ladder |-> l, decided |-> FALSE] \/ c = [ladder |-> l, decided |-> TRUE]
          \/ c = [ladder |-> Condemn(l), decided |-> TRUE]
      BY Zenon DEF CheckGPU
    <2>2. CASE c = [ladder |-> l, decided |-> FALSE]
      BY Zenon, <2>2
    <2>3. CASE c = [ladder |-> l, decided |-> TRUE]
      BY Zenon, <2>3
    <2>4. CASE c = [ladder |-> Condemn(l), decided |-> TRUE]
      BY Zenon, <2>4
    <2> QED
      BY Zenon, <2>1, <2>2, <2>3, <2>4
  <1>2. CASE c.ladder = l
    BY Zenon, <1>1, <1>2
  <1>3. CASE c.ladder = [l EXCEPT !.condemned = TRUE]
    BY ZenonT(40), <1>1, <1>3 DEF Ladders
  <1> QED
    BY ZenonT(40), <1>1, <1>2, <1>3 DEF Condemn

-----------------------------------------------------------------------------
(* The inductive invariant.                                                *)

\* Where the loop is, and what its ladder says then.
StateMatchesLoop ==
    /\ ladder.state = "healthy" => pc \in {"running", "exited"}
    /\ ladder.state = "dead" => pc \in {"dying", "dead", "exited"}
    /\ pc = "running" => ladder.state \in {"healthy", "unhealthy"}
    /\ pc \in {"running", "dead", "exited"} => ticket # "held"

\* The respawns and launches of a spree are paid for by the ladder's count,
\* the free retry and the launch that is under way.
Unlaunched == {"none", "pending", "ticketed", "queued", "launch", "respawning"}

SpendingPaid ==
    /\ spree <= ladder.respawns
    /\ launches <= ladder.respawns + (IF quickRetryUsed THEN 1 ELSE 0)
                     + (IF pc \in Unlaunched THEN 0 ELSE 1)

\* The ladder's health is no older than the run of ready observations.
HealthIsObserved ==
    ladder.state = "healthy" =>
        /\ 0 <= ladder.healthyAge /\ ladder.healthyAge <= readyRun
        /\ ladder.deferredAge = Never /\ downAge = Never

\* How old an outage can be: one interval per strike, then the deferral.
OutageCounted ==
    pc = "running" /\ ladder.state = "unhealthy" =>
        /\ 0 <= downAge
        /\ ladder.deferredAge = Never =>
              /\ ~ladder.condemned
              /\ 0 < ladder.strikes /\ ladder.strikes < MaxFailures
              /\ downAge <= ladder.strikes - 1 + (IF due THEN 1 ELSE 0)
        /\ ladder.deferredAge # Never =>
              /\ ladder.condemned \/ ladder.strikes = MaxFailures
              /\ ladder.deferredAge <= downAge
              /\ downAge <= MaxFailures - 1 + ladder.deferredAge
              /\ due \/ ladder.deferredAge < RespawnGrace

LoopInv == TypeOK /\ StateMatchesLoop /\ SpendingPaid /\ HealthIsObserved /\ OutageCounted

\* One interval: an age that has begun grows up to its limit.
LEMMA AgeUpToResult ==
    ASSUME NEW limit \in Nat, NEW age \in Ages(limit)
    PROVE  /\ AgeUpTo(age, limit) \in Ages(limit)
           /\ age = Never => AgeUpTo(age, limit) = Never
           /\ age # Never => AgeUpTo(age, limit) = IF age >= limit THEN age ELSE age + 1
  BY DEF AgeUpTo, Ages, Never

\* What an observation leaves of the history, whatever the ladder answers.
LEMMA ObservedResult ==
    ASSUME LoopInv,
           NEW l \in Ladders, NEW ready \in BOOLEAN, NEW alive \in BOOLEAN, NEW n \in Nat,
           NEW r, r = Observe(l, ready, alive, n), l.state # "dead",
           l.state = ladder.state, l.healthyAge = ladder.healthyAge,
           l.respawns = ladder.respawns, l.deferredAge = ladder.deferredAge,
           Observed(r)
    PROVE  /\ readyRun' \in Ages(RespawnRefill) /\ downAge' \in Ages(OutageLimit + 1)
           /\ spree' \in Nat /\ launches' \in Nat /\ served' \in BOOLEAN
           /\ spree' <= r.ladder.respawns
           /\ r.ladder.state = "healthy" =>
                 /\ launches' = 0
                 /\ 0 <= r.ladder.healthyAge /\ r.ladder.healthyAge <= readyRun'
                 /\ r.ladder.deferredAge = Never /\ downAge' = Never
           /\ r.ladder.state # "healthy" => launches' = launches
           /\ r.ladder.state = "unhealthy" => downAge' = IF downAge = Never THEN 0 ELSE downAge
  <1>1. /\ ladder \in Ladders /\ readyRun \in Ages(RespawnRefill) /\ downAge \in Ages(OutageLimit + 1)
        /\ spree \in Nat /\ launches \in Nat /\ served \in BOOLEAN
        /\ spree <= ladder.respawns
    BY Zenon DEF LoopInv, TypeOK, Ladders, SpendingPaid
  <1>2. RespawnRefill \in Nat \ {0} /\ OutageLimit \in Nat /\ RespawnGrace \in Nat
    BY ConstantsAssumption DEF OutageLimit
  <1>3. r.ladder \in Ladders
    BY Zenon, ObserveResult
  <1>4. ladder.state = "healthy" => 0 <= ladder.healthyAge /\ ladder.healthyAge <= readyRun
    BY Zenon DEF LoopInv, HealthIsObserved
  <1>5. r.ladder.state = "healthy" =>
            /\ r.action = "none" /\ r.ladder.deferredAge = Never
            /\ r.ladder.healthyAge = IF ladder.state = "healthy" THEN ladder.healthyAge ELSE 0
            /\ r.ladder.respawns \in {0, ladder.respawns}
            /\ r.ladder.respawns # ladder.respawns
                 => ladder.state = "healthy" /\ ladder.healthyAge >= RespawnRefill
    BY ObserveResult
  <1>6. r.ladder.state # "healthy" =>
            r.ladder.respawns = IF r.action = "respawn" THEN ladder.respawns + 1 ELSE ladder.respawns
    BY ObserveResult
  <1>7. /\ readyRun' \in Ages(RespawnRefill) /\ downAge' \in Ages(OutageLimit + 1)
        /\ spree' \in Nat /\ launches' \in Nat /\ served' \in BOOLEAN
    BY <1>1, <1>2 DEF Observed, Ages, Never
  <1>8. spree' <= r.ladder.respawns
    <2>1. CASE r.ladder.state = "healthy"
      <3>1. spree' = IF readyRun >= RespawnRefill THEN 0 ELSE spree
        BY Zenon, <1>5, <2>1 DEF Observed
      <3>2. r.ladder.respawns \in Nat /\ readyRun \in Int /\ ladder.healthyAge \in Int
        BY <1>1, <1>3, <1>2, ConstantsAssumption DEF Ladders, Ages, Never
      <3> QED
        BY <1>1, <1>2, <1>4, <1>5, <2>1, <3>1, <3>2
    <2>2. CASE r.ladder.state # "healthy"
      <3>1. spree' = IF r.action = "respawn" THEN spree + 1 ELSE spree
        BY Zenon, <2>2 DEF Observed
      <3> QED
        BY <1>1, <1>6, <2>2, <3>1, ConstantsAssumption DEF Ladders
    <2> QED
      BY Zenon, <2>1, <2>2
  <1>9. r.ladder.state = "healthy" =>
            /\ launches' = 0
            /\ 0 <= r.ladder.healthyAge /\ r.ladder.healthyAge <= readyRun'
            /\ r.ladder.deferredAge = Never /\ downAge' = Never
    <2> HAVE r.ladder.state = "healthy"
    <2>1. launches' = 0 /\ downAge' = Never /\ readyRun' = IF readyRun = Never THEN 0 ELSE readyRun
      BY Zenon DEF Observed
    <2>2. readyRun \in Int /\ ladder.healthyAge \in Int /\ readyRun >= -1
      BY <1>1, <1>2 DEF Ladders, Ages, Never
    <2> QED
      BY <1>4, <1>5, <2>1, <2>2 DEF Never
  <1>10. /\ r.ladder.state # "healthy" => launches' = launches
         /\ r.ladder.state = "unhealthy" => downAge' = IF downAge = Never THEN 0 ELSE downAge
    BY Zenon DEF Observed
  <1> QED
    BY Zenon, <1>7, <1>8, <1>9, <1>10

-----------------------------------------------------------------------------
\* A ladder before its first observation.
LEMMA FirstLadders ==
    /\ NewLadder \in Ladders /\ NewLadder.state = "starting" /\ NewLadder.respawns = 0
    /\ NoLadder \in Ladders /\ NoLadder.state = "starting" /\ NoLadder.respawns = 0
  <1>1. /\ 0 \in Ages(StartupTimeout) /\ Never \in Ages(StartupTimeout) /\ Never \in Ages(RespawnRefill)
        /\ 0 \in 0..MaxFailures /\ 0 \in 0..MaxRespawns /\ Never \in Ages(RespawnGrace)
    BY ConstantsAssumption DEF Ages, Never
  <1>2. NewLadder \in Ladders /\ NewLadder.state = "starting" /\ NewLadder.respawns = 0
    BY Zenon, <1>1 DEF NewLadder, Ladders
  <1>3. NoLadder \in Ladders /\ NoLadder.state = "starting" /\ NoLadder.respawns = 0
    BY Zenon, <1>1, <1>2 DEF NoLadder, Ladders
  <1> QED
    BY Zenon, <1>2, <1>3

\* A loop that has just been created.
LEMMA LoopInvInit == Init => LoopInv
  <1> SUFFICES ASSUME Init PROVE LoopInv
    BY Zenon
  <1>1. ladder \in Ladders /\ ladder.state = "starting" /\ ladder.respawns = 0
    BY Zenon, FirstLadders DEF Init
  <1>a. /\ Never \in Ages(StartupTimeout + QuickExitWindow) /\ Never \in Ages(WarmUp)
        /\ Never \in Ages(RespawnRefill) /\ Never \in Ages(OutageLimit + 1) /\ 0 \in 0..MaxInFlight
    BY ConstantsAssumption DEF Ages, Never, OutageLimit
  <1>2. TypeOK
    BY ZenonT(40), <1>1, <1>a DEF Init, TypeOK, Ladders
  <1> QED
    BY <1>1, <1>2
    DEF Init, LoopInv, StateMatchesLoop, SpendingPaid, HealthIsObserved, OutageCounted, Unlaunched

\* The steps that observe nothing, each with the conjuncts it can disturb.
LEMMA QuietStepInv ==
    ASSUME LoopInv,
           \/ Start \/ LaunchNoCommand \/ QuickRetry \/ Respawn \/ Die \/ Cancelled
           \/ ProcExits \/ Acquire \/ Release \/ NoteHardFailure \/ Cancel
    PROVE  LoopInv'
  <1> USE ConstantsAssumption DEF LoopInv, histVars, loopVars
  <1>1. CASE Start
    BY <1>1 DEF Start, TypeOK, StateMatchesLoop, SpendingPaid, HealthIsObserved, OutageCounted, Unlaunched
  <1>2. CASE LaunchNoCommand
    <2>1. ladder \in Ladders
      BY Zenon DEF TypeOK, Ladders
    <2>2. /\ ladder' \in Ladders /\ ladder'.state = "dead" /\ ladder'.respawns = ladder.respawns
      <3>1. PICK l \in Ladders : l.respawns = ladder.respawns /\ ladder' = MarkDead(l)
        BY Zenon, <1>2, <2>1, FirstLadders DEF LaunchNoCommand
      <3> QED
        BY Zenon, <3>1 DEF MarkDead, Ladders
    <2>3. TypeOK'
      BY Zenon, <1>2, <2>2 DEF LaunchNoCommand, TypeOK, Ladders
    <2> QED
      BY <1>2, <2>2, <2>3
      DEF LaunchNoCommand, TypeOK, StateMatchesLoop, SpendingPaid, HealthIsObserved, OutageCounted, Unlaunched
  <1>3. CASE QuickRetry
    <2>1. TypeOK'
      BY ZenonT(40), <1>3 DEF QuickRetry, TypeOK
    <2>2. SpendingPaid'
      BY <1>3 DEF QuickRetry, QuickExit, StartingWakes, TypeOK, SpendingPaid, Unlaunched
    <2> QED
      BY Zenon, <1>3, <2>1, <2>2 DEF QuickRetry, StartingWakes, StateMatchesLoop, HealthIsObserved, OutageCounted
  <1>4. CASE Respawn
    BY Zenon, <1>4 DEF Respawn, TypeOK, StateMatchesLoop, SpendingPaid, HealthIsObserved, OutageCounted, Unlaunched
  <1>5. CASE Die
    BY Zenon, <1>5 DEF Die, TypeOK, StateMatchesLoop, SpendingPaid, HealthIsObserved, OutageCounted, Unlaunched
  <1>6. CASE Cancelled
    BY <1>6 DEF Cancelled, TypeOK, StateMatchesLoop, SpendingPaid, HealthIsObserved, OutageCounted, Unlaunched
  <1>7. CASE ProcExits
    BY <1>7 DEF ProcExits, TypeOK, StateMatchesLoop, SpendingPaid, HealthIsObserved, OutageCounted, Unlaunched
  <1>8. CASE Acquire
    BY <1>8 DEF Acquire, TypeOK, StateMatchesLoop, SpendingPaid, HealthIsObserved, OutageCounted, Unlaunched
  <1>9. CASE Release
    BY <1>9 DEF Release, TypeOK, StateMatchesLoop, SpendingPaid, HealthIsObserved, OutageCounted, Unlaunched
  <1>10. CASE NoteHardFailure
    <2>1. /\ ladder' \in Ladders /\ ladder'.state = ladder.state /\ ladder'.strikes = ladder.strikes
          /\ ladder'.respawns = ladder.respawns /\ ladder'.healthyAge = ladder.healthyAge
          /\ ladder'.condemned = ladder.condemned /\ ladder'.deferredAge = ladder.deferredAge
      BY ZenonT(40), <1>10 DEF NoteHardFailure, TypeOK, Ladders
    <2>2. TypeOK'
      BY Zenon, <1>10, <2>1 DEF NoteHardFailure, TypeOK, Ladders
    <2> QED
      BY Zenon, <1>10, <2>1, <2>2
      DEF NoteHardFailure, StateMatchesLoop, SpendingPaid, HealthIsObserved, OutageCounted
  <1>11. CASE Cancel
    BY <1>11 DEF Cancel, TypeOK, StateMatchesLoop, SpendingPaid, HealthIsObserved, OutageCounted, Unlaunched
  <1> QED
    BY Zenon, <1>1, <1>2, <1>3, <1>4, <1>5, <1>6, <1>7, <1>8, <1>9, <1>10, <1>11

\* launch, whether the engine comes up or not, spends no more than its budget.
LEMMA LaunchStepInv ==
    ASSUME LoopInv, LaunchStarts \/ LaunchFails
    PROVE  LoopInv'
  <1>1. ladder \in Ladders /\ ladder.state \notin {"healthy", "dead"} /\ pc = "launch"
    BY Zenon DEF LoopInv, TypeOK, Ladders, StateMatchesLoop, LaunchStarts, LaunchFails
  <1>2. /\ ladder' \in Ladders /\ ladder'.respawns = ladder.respawns
        /\ ladder'.state \notin {"healthy", "dead"}
    <2>1. CASE LaunchStarts
      <3> DEFINE up == [ladder EXCEPT !.state = "starting", !.startAge = 0, !.condemned = FALSE]
      <3>1. ladder' = IF ladder = NoLadder THEN NewLadder ELSE ClearTransient(up)
        BY Zenon, <1>1, <2>1 DEF LaunchStarts, Restarted
      <3>2. 0 \in Ages(StartupTimeout)
        BY ConstantsAssumption DEF Ages, Never
      <3>3. up \in Ladders /\ up.state = "starting" /\ up.respawns = ladder.respawns
        BY ZenonT(40), <1>1, <3>2 DEF Ladders
      <3> HIDE DEF up
      <3> QED
        BY Zenon, <3>1, <3>3, ClearTransientResult, FirstLadders
    <2>2. CASE LaunchFails
      BY Zenon, <1>1, <2>2, FirstLadders DEF LaunchFails
    <2> QED
      BY Zenon, <2>1, <2>2
  <1>3. 0 \in Ages(StartupTimeout + QuickExitWindow) /\ Never \in Ages(WarmUp)
        /\ Never \in Ages(RespawnRefill) /\ Never \in Ages(OutageLimit + 1)
    BY ConstantsAssumption DEF Ages, Never, OutageLimit
  <1>4. TypeOK'
    <2>1. ({quickRetryUsed, gpuDecided, kick, ctxDone, due, served} \subseteq BOOLEAN)'
      BY ZenonT(40) DEF LoopInv, TypeOK, LaunchStarts, LaunchFails
    <2>2. (spree \in Nat /\ launches \in Nat /\ inFlight \in 0..MaxInFlight)'
      BY DEF LoopInv, TypeOK, LaunchStarts, LaunchFails
    <2>3. (/\ launchAge \in Ages(StartupTimeout + QuickExitWindow) /\ readyAge \in Ages(WarmUp)
           /\ readyRun \in Ages(RespawnRefill) /\ downAge \in Ages(OutageLimit + 1))'
      BY Zenon, <1>3 DEF LoopInv, TypeOK, LaunchStarts, LaunchFails
    <2> QED
      BY Zenon, <1>2, <2>1, <2>2, <2>3 DEF LoopInv, TypeOK, Ladders, LaunchStarts, LaunchFails
  <1>5. SpendingPaid'
    BY <1>1, <1>2, ConstantsAssumption
    DEF LoopInv, TypeOK, Ladders, SpendingPaid, LaunchStarts, LaunchFails, Unlaunched
  <1> QED
    BY Zenon, <1>2, <1>4, <1>5
    DEF LoopInv, StateMatchesLoop, HealthIsObserved, OutageCounted, LaunchStarts, LaunchFails

\* An observation before the backend is ready: after a failed start, or of a
\* process that loads.
StartingObservation(ready, alive, r) ==
    /\ r = Observe(ladder, ready, alive, 0) /\ Observed(r)
    /\ \/ /\ pc = "retry" /\ ~ready /\ ~alive
          /\ ladder' = r.ladder /\ Act(r.action, "launch")
          /\ UNCHANGED <<quickRetryUsed, gpuDecided, readyAge, ticket>>
       \/ /\ pc = "starting" /\ r.ladder.state = "healthy"
          /\ pc' = "running" /\ quickRetryUsed' = FALSE /\ ticket' = "released"
          /\ \E c \in CheckGPU(r.ladder) : ladder' = c.ladder /\ gpuDecided' = c.decided
          /\ readyAge' \in {Never, 0, readyAge}
       \/ /\ pc = "starting" /\ r.ladder.state # "healthy"
          /\ ladder' = r.ladder /\ Act(r.action, "starting")
          /\ UNCHANGED <<quickRetryUsed, ticket, gpuDecided>>
          /\ readyAge' \in {Never, 0, readyAge}

\* Waiting for the first ready, and a start that failed: a retry or a respawn
\* is counted where it is spent.
LEMMA StartingStepInv ==
    ASSUME LoopInv, StartFailed \/ StartingProbe
    PROVE  LoopInv'
  <1>1. /\ ladder \in Ladders /\ ladder.state \notin {"healthy", "dead"} /\ pc \in {"retry", "starting"}
        /\ launches \in Nat /\ launches <= ladder.respawns + (IF quickRetryUsed THEN 1 ELSE 0) + 1
    BY ZenonT(40) DEF LoopInv, TypeOK, Ladders, StateMatchesLoop, StartFailed, StartingProbe, StartingWakes,
           SpendingPaid, Unlaunched
  <1>a. PICK ready \in BOOLEAN, alive \in BOOLEAN : \E r : StartingObservation(ready, alive, r)
    <2>1. CASE StartFailed
      BY ZenonT(40), <2>1 DEF StartFailed, StartingObservation
    <2>2. CASE StartingProbe
      BY ZenonT(40), <2>2 DEF StartingProbe, StartingWakes, WarmedUpAge, StartingObservation
    <2> QED
      BY Zenon, <2>1, <2>2
  <1>2. PICK r : StartingObservation(ready, alive, r)
    BY Zenon, <1>a
  <1>3. /\ r.ladder \in Ladders
        /\ r.action \in {"none", "respawn", "markDead"}
        /\ r.ladder.state = "dead" <=> r.action = "markDead"
        /\ r.action = "respawn" => r.ladder.respawns = ladder.respawns + 1 /\ r.ladder.state # "healthy"
        /\ r.action # "respawn" /\ r.ladder.state # "healthy" => r.ladder.respawns = ladder.respawns
        /\ ~alive /\ ~ready => r.action # "none"
    BY <1>1, <1>2, ObserveResult DEF StartingObservation
  <1>4. /\ readyRun' \in Ages(RespawnRefill) /\ downAge' \in Ages(OutageLimit + 1)
        /\ spree' \in Nat /\ launches' \in Nat /\ served' \in BOOLEAN
        /\ spree' <= r.ladder.respawns
        /\ r.ladder.state = "healthy" =>
              /\ launches' = 0
              /\ 0 <= r.ladder.healthyAge /\ r.ladder.healthyAge <= readyRun'
              /\ r.ladder.deferredAge = Never /\ downAge' = Never
        /\ r.ladder.state # "healthy" => launches' = launches
    BY <1>1, <1>2, ObservedResult DEF StartingObservation
  <1>5. readyAge' \in Ages(WarmUp)
    BY <1>2, ConstantsAssumption DEF StartingObservation, LoopInv, TypeOK, Ages, Never
  <1>6. /\ ladder' \in Ladders /\ ladder'.state = r.ladder.state /\ ladder'.respawns = r.ladder.respawns
        /\ ladder'.healthyAge = r.ladder.healthyAge /\ ladder'.deferredAge = r.ladder.deferredAge
        /\ gpuDecided' \in BOOLEAN
    <2>1. gpuDecided \in BOOLEAN
      BY Zenon DEF LoopInv, TypeOK
    <2> QED
      BY <1>2, <1>3, <2>1, CheckGPUResult DEF StartingObservation
  <1>7. /\ pc' \in {"running", "starting", "respawning", "dying"}
        /\ pc' = "running" <=> r.ladder.state = "healthy"
        /\ pc' = "dying" <=> r.ladder.state = "dead"
        /\ pc' = "respawning" <=> r.action = "respawn"
        /\ pc' = "running" => ticket' = "released" /\ quickRetryUsed' = FALSE
        /\ pc' # "running" => ticket' = ticket /\ quickRetryUsed' = quickRetryUsed
    BY Zenon, <1>1, <1>2, <1>3 DEF Act, StartingObservation
  <1>8. UNCHANGED <<proc, launchAge, kick, inFlight, ctxDone>> /\ due' = FALSE
    BY ZenonT(40) DEF StartFailed, StartingProbe
  <1>9. TypeOK'
    BY ZenonT(40), <1>4, <1>5, <1>6, <1>7, <1>8 DEF LoopInv, TypeOK, Ladders
  <1>10. SpendingPaid'
    BY <1>1, <1>3, <1>4, <1>6, <1>7, ConstantsAssumption DEF SpendingPaid, Unlaunched, Ladders, LoopInv, TypeOK
  <1> QED
    BY Zenon, <1>4, <1>6, <1>7, <1>9, <1>10
    DEF LoopInv, StateMatchesLoop, HealthIsObserved, OutageCounted

\* An observation of a running backend: the ticker, a kick, or its exit.
RunningObservation(l, ready, alive, r) ==
    /\ pc = "running"
    /\ r = Observe(l, ready, alive, inFlight) /\ Observed(r)
    /\ ladder' = r.ladder /\ Act(r.action, "running")
    /\ alive => proc = "up"
    /\ due' \in {FALSE, due} /\ kick' \in {FALSE, kick} /\ gpuDecided' \in BOOLEAN
    /\ UNCHANGED <<proc, quickRetryUsed, launchAge, readyAge, ticket, inFlight, ctxDone>>

\* The ladder that is observed is the backend's, condemned or not.
ObservesLadder(l) ==
    /\ l \in Ladders /\ l.state = ladder.state /\ l.respawns = ladder.respawns
    /\ l.strikes = ladder.strikes
    /\ l.healthyAge = ladder.healthyAge /\ l.deferredAge = ladder.deferredAge
    /\ ladder.condemned => l.condemned

\* A probe and the death of the process are one observation of the ladder.
LEMMA RunningObserved ==
    ASSUME LoopInv, TickerProbe \/ KickProbe \/ ProcDone
    PROVE  \E l, r : \E ready \in BOOLEAN, alive \in BOOLEAN :
              ObservesLadder(l) /\ RunningObservation(l, ready, alive, r)
  <1>1. ladder \in Ladders /\ gpuDecided \in BOOLEAN /\ due \in BOOLEAN
    BY Zenon DEF LoopInv, TypeOK, Ladders
  <1>2. CASE ProcDone
    <2>1. RunningObservation(ladder, FALSE, FALSE, Observe(ladder, FALSE, FALSE, inFlight))
      BY ZenonT(40), <1>1, <1>2 DEF ProcDone, RunningObservation
    <2>2. ObservesLadder(ladder)
      BY Zenon, <1>1 DEF ObservesLadder
    <2> QED
      BY ZenonT(40), <2>1, <2>2
  <1>3. CASE TickerProbe \/ KickProbe
    <2>1. ProbeTick /\ due' \in {FALSE, due} /\ kick' \in {FALSE, kick}
      BY ZenonT(40), <1>3 DEF TickerProbe, KickProbe
    <2>2. PICK c \in CheckGPU(ladder), ready \in {FALSE, proc = "up"} :
              LET r == Observe(c.ladder, ready, proc = "up", inFlight)
              IN  /\ gpuDecided' = c.decided
                  /\ ladder' = r.ladder /\ Observed(r) /\ Act(r.action, "running")
      BY ZenonT(40), <2>1 DEF ProbeTick
    <2>3. ObservesLadder(c.ladder) /\ c.decided \in BOOLEAN
      BY Zenon, <1>1, CheckGPUResult DEF ObservesLadder
    <2>4. PICK alive \in BOOLEAN : alive = (proc = "up")
      BY ZenonT(40)
    <2>5. PICK r : r = Observe(c.ladder, ready, alive, inFlight)
      BY Zenon
    <2>6. RunningObservation(c.ladder, ready, alive, r)
      BY ZenonT(40), <2>1, <2>2, <2>3, <2>4, <2>5 DEF ProbeTick, RunningObservation
    <2>7. ready \in BOOLEAN
      BY ZenonT(40)
    <2> QED
      BY <2>3, <2>6, <2>7
  <1> QED
    BY Zenon, <1>2, <1>3

\* Every observation of a running backend keeps the invariant.
LEMMA RunningStepInv ==
    ASSUME LoopInv, TickerProbe \/ KickProbe \/ ProcDone
    PROVE  LoopInv'
  <1>1. PICK l, r : \E ready \in BOOLEAN, alive \in BOOLEAN :
              ObservesLadder(l) /\ RunningObservation(l, ready, alive, r)
    BY Zenon, RunningObserved
  <1>2. PICK ready \in BOOLEAN, alive \in BOOLEAN : RunningObservation(l, ready, alive, r)
    BY Zenon, <1>1
  <1>3. /\ ladder \in Ladders /\ pc = "running" /\ ladder.state \in {"healthy", "unhealthy"}
        /\ ticket # "held" /\ inFlight \in Nat
        /\ downAge \in Ages(OutageLimit + 1)
        /\ launches \in Nat /\ launches <= ladder.respawns + (IF quickRetryUsed THEN 1 ELSE 0) + 1
    BY <1>2, ConstantsAssumption
    DEF RunningObservation, LoopInv, TypeOK, Ladders, StateMatchesLoop, SpendingPaid, Unlaunched
  <1>4. /\ l \in Ladders /\ l.state # "dead" /\ l.state # "starting" /\ l.respawns = ladder.respawns
        /\ r = Observe(l, ready, alive, inFlight)
    BY Zenon, <1>1, <1>2, <1>3 DEF RunningObservation, ObservesLadder
  <1>5. /\ r.ladder \in Ladders
        /\ r.action \in {"none", "respawn", "markDead"}
        /\ r.ladder.state = "dead" <=> r.action = "markDead"
        /\ r.action = "none" => r.ladder.state \in {"healthy", "unhealthy"}
        /\ r.ladder.state = "healthy" => r.action = "none"
        /\ r.action = "respawn" => r.ladder.respawns = ladder.respawns + 1
        /\ r.action # "respawn" /\ r.ladder.state # "healthy" => r.ladder.respawns = ladder.respawns
    BY SMTT(30), <1>3, <1>4, ObserveResult
  <1>6. /\ readyRun' \in Ages(RespawnRefill) /\ downAge' \in Ages(OutageLimit + 1)
        /\ spree' \in Nat /\ launches' \in Nat /\ served' \in BOOLEAN
        /\ spree' <= r.ladder.respawns
        /\ r.ladder.state = "healthy" =>
              /\ launches' = 0
              /\ 0 <= r.ladder.healthyAge /\ r.ladder.healthyAge <= readyRun'
              /\ r.ladder.deferredAge = Never /\ downAge' = Never
        /\ r.ladder.state # "healthy" => launches' = launches
        /\ r.ladder.state = "unhealthy" => downAge' = IF downAge = Never THEN 0 ELSE downAge
    BY <1>1, <1>2, <1>3, ObservedResult DEF RunningObservation, ObservesLadder
  <1>7. /\ pc' \in {"running", "respawning", "dying"}
        /\ pc' = "running" <=> r.action = "none"
        /\ pc' = "dying" <=> r.action = "markDead"
    BY Zenon, <1>2, <1>5 DEF RunningObservation, Act
  <1>8. TypeOK'
    <2>1. ({quickRetryUsed, gpuDecided, kick, ctxDone, due, served} \subseteq BOOLEAN)'
      BY ZenonT(40), <1>2, <1>6 DEF RunningObservation, LoopInv, TypeOK
    <2>2. (/\ proc \in {"none", "up", "exited"} /\ ticket \in {"none", "held", "released"}
           /\ inFlight \in 0..MaxInFlight
           /\ launchAge \in Ages(StartupTimeout + QuickExitWindow) /\ readyAge \in Ages(WarmUp))'
      BY Zenon, <1>2 DEF RunningObservation, LoopInv, TypeOK
    <2>3. ladder' \in Ladders
      BY Zenon, <1>2, <1>5 DEF RunningObservation
    <2> QED
      BY Zenon, <1>6, <1>7, <2>1, <2>2, <2>3 DEF TypeOK, Ladders
  <1>9. StateMatchesLoop'
    BY Zenon, <1>2, <1>3, <1>5, <1>7 DEF RunningObservation, StateMatchesLoop
  <1>10. SpendingPaid'
    BY <1>2, <1>3, <1>5, <1>6, <1>7, ConstantsAssumption
    DEF RunningObservation, SpendingPaid, Unlaunched, Ladders, LoopInv, TypeOK
  <1>11. HealthIsObserved'
    BY Zenon, <1>2, <1>6 DEF RunningObservation, HealthIsObserved
  <1>12. OutageCounted'
    <2> SUFFICES ASSUME pc' = "running", ladder'.state = "unhealthy"
                 PROVE  OutageCounted'
      BY Zenon DEF OutageCounted
    <2>1. r.action = "none" /\ ladder' = r.ladder /\ r.ladder.state = "unhealthy" /\ due' \in {FALSE, due}
      BY ZenonT(40), <1>2, <1>7 DEF RunningObservation
    <2>2. downAge' = IF downAge = Never THEN 0 ELSE downAge
      BY Zenon, <1>6, <2>1
    <2>3. /\ ladder.strikes \in Nat /\ MaxFailures \in Nat \ {0} /\ RespawnGrace \in Nat
          /\ ladder.deferredAge \in Int /\ downAge \in Int
          /\ ladder.deferredAge # Never => ladder.deferredAge >= 0
          /\ r.ladder.strikes \in Nat
          /\ due \in BOOLEAN /\ l.strikes = ladder.strikes /\ l.deferredAge = ladder.deferredAge
          /\ (ladder.condemned => l.condemned) /\ Deferral(l) = Deferral(ladder) /\ l.state = ladder.state
      BY <1>1, <1>3, <1>5, ConstantsAssumption DEF LoopInv, TypeOK, Ladders, Ages, Never, Deferral, ObservesLadder
    <2>4. ladder.state = "healthy" => ladder.deferredAge = Never /\ downAge = Never
      BY Zenon DEF LoopInv, HealthIsObserved
    <2>5. \/ /\ ~l.condemned /\ ~r.ladder.condemned
             /\ r.ladder.strikes = l.strikes + 1 /\ r.ladder.strikes < MaxFailures
             /\ r.ladder.deferredAge = l.deferredAge
          \/ /\ r.ladder.condemned = l.condemned
             /\ l.condemned \/ r.ladder.strikes = MaxFailures
             /\ r.ladder.deferredAge = Deferral(l)
             /\ Deferral(l) < RespawnGrace
      BY <1>3, <1>4, <2>1, ObserveResult
    <2>6. CASE ladder.state = "healthy"
      BY <2>1, <2>2, <2>3, <2>4, <2>5, <2>6 DEF OutageCounted, Deferral, Never
    <2>7. CASE ladder.state = "unhealthy" /\ ladder.deferredAge = Never
      BY <1>3, <2>1, <2>2, <2>3, <2>5, <2>7 DEF LoopInv, OutageCounted, Deferral, Never
    <2>8. CASE ladder.state = "unhealthy" /\ ladder.deferredAge # Never
      BY <1>3, <2>1, <2>2, <2>3, <2>5, <2>8 DEF LoopInv, OutageCounted, Deferral, Never
    <2> QED
      BY Zenon, <1>3, <2>6, <2>7, <2>8
  <1> QED
    BY Zenon, <1>8, <1>9, <1>10, <1>11, <1>12 DEF LoopInv

\* An interval: a running loop has taken the last tick, so an outage grows by
\* one only while the strike or the deferral that pays for it is due.
LEMMA TickStepInv ==
    ASSUME LoopInv, Tick
    PROVE  LoopInv'
  <1>1. /\ ladder \in Ladders
        /\ StartupTimeout \in Nat /\ RespawnRefill \in Nat /\ RespawnGrace \in Nat
        /\ WarmUp \in Nat /\ StartupTimeout + QuickExitWindow \in Nat /\ OutageLimit + 1 \in Nat
        /\ MaxFailures \in Nat \ {0} /\ MaxRespawns \in Nat
    BY ConstantsAssumption DEF LoopInv, TypeOK, Ladders, OutageLimit
  <1>2. /\ ladder' \in Ladders /\ ladder'.state = ladder.state /\ ladder'.strikes = ladder.strikes
        /\ ladder'.respawns = ladder.respawns /\ ladder'.condemned = ladder.condemned
        /\ ladder'.healthyAge = AgeUpTo(ladder.healthyAge, RespawnRefill)
        /\ ladder'.deferredAge = AgeUpTo(ladder.deferredAge, RespawnGrace)
    <2>1. /\ AgeUpTo(ladder.startAge, StartupTimeout) \in Ages(StartupTimeout)
          /\ AgeUpTo(ladder.healthyAge, RespawnRefill) \in Ages(RespawnRefill)
          /\ AgeUpTo(ladder.deferredAge, RespawnGrace) \in Ages(RespawnGrace)
      BY Zenon, <1>1, AgeUpToResult DEF Ladders
    <2> QED
      BY ZenonT(40), <1>1, <2>1 DEF Tick, Ladders
  <1>3. /\ launchAge' \in Ages(StartupTimeout + QuickExitWindow) /\ readyAge' \in Ages(WarmUp)
        /\ readyRun' \in Ages(RespawnRefill) /\ downAge' \in Ages(OutageLimit + 1)
    BY Zenon, <1>1, AgeUpToResult DEF Tick, LoopInv, TypeOK
  <1>4. TypeOK'
    <2>1. ({quickRetryUsed, gpuDecided, kick, ctxDone, due, served} \subseteq BOOLEAN)'
      BY DEF Tick, LoopInv, TypeOK
    <2> QED
      BY Zenon, <1>2, <1>3, <2>1 DEF Tick, LoopInv, TypeOK, Ladders
  <1>5. StateMatchesLoop' /\ SpendingPaid'
    BY Zenon, <1>2 DEF Tick, LoopInv, StateMatchesLoop, SpendingPaid
  <1>6. /\ ladder.healthyAge \in Ages(RespawnRefill) /\ ladder.deferredAge \in Ages(RespawnGrace)
        /\ readyRun \in Ages(RespawnRefill) /\ downAge \in Ages(OutageLimit + 1)
        /\ ladder.strikes \in 0..MaxFailures
    BY Zenon, <1>1 DEF Ladders, LoopInv, TypeOK
  <1>7. HealthIsObserved'
    BY <1>1, <1>2, <1>6 DEF Tick, LoopInv, HealthIsObserved, AgeUpTo, Ages, Never
  <1>8. OutageCounted'
    <2> SUFFICES ASSUME pc = "running", ladder.state = "unhealthy"
                 PROVE  OutageCounted'
      BY Zenon, <1>2 DEF Tick, OutageCounted
    <2>1. ~due /\ due'
      BY ZenonT(40) DEF Tick, Waiting
    <2>2. 0 <= downAge /\ downAge' = IF downAge >= OutageLimit + 1 THEN downAge ELSE downAge + 1
      BY <1>1, <1>6 DEF Tick, LoopInv, OutageCounted, AgeUpTo, Never
    <2>3. CASE ladder.deferredAge = Never
      BY <1>1, <1>2, <1>6, <2>1, <2>2, <2>3 DEF LoopInv, OutageCounted, AgeUpTo, Ages, Never
    <2>4. CASE ladder.deferredAge # Never
      BY <1>1, <1>2, <1>6, <2>1, <2>2, <2>4 DEF LoopInv, OutageCounted, AgeUpTo, Ages, Never, OutageLimit
    <2> QED
      BY Zenon, <2>3, <2>4
  <1> QED
    BY Zenon, <1>4, <1>5, <1>7, <1>8 DEF LoopInv

-----------------------------------------------------------------------------
\* The invariant holds throughout: what the ladder, the loop and the history
\* of a backend say of each other, whatever fails, recovers or is cancelled.
THEOREM LoopInvariant == Spec => []LoopInv
  <1>1. LoopInv /\ [Next]_vars => LoopInv'
    <2> SUFFICES ASSUME LoopInv, [Next]_vars PROVE LoopInv'
      BY Zenon
    <2>1. CASE \/ Start \/ LaunchNoCommand \/ QuickRetry \/ Respawn \/ Die \/ Cancelled
               \/ ProcExits \/ Acquire \/ Release \/ NoteHardFailure \/ Cancel
      BY Zenon, <2>1, QuietStepInv
    <2>2. CASE LaunchStarts \/ LaunchFails
      BY Zenon, <2>2, LaunchStepInv
    <2>3. CASE StartFailed \/ StartingProbe
      BY Zenon, <2>3, StartingStepInv
    <2>4. CASE TickerProbe \/ KickProbe \/ ProcDone
      BY Zenon, <2>4, RunningStepInv
    <2>5. CASE Tick
      BY Zenon, <2>5, TickStepInv
    <2>6. CASE UNCHANGED vars
      BY <2>6 DEF vars, loopVars, histVars, LoopInv, TypeOK, StateMatchesLoop, SpendingPaid,
                  HealthIsObserved, OutageCounted
    <2> QED
      BY Zenon, <2>1, <2>2, <2>3, <2>4, <2>5, <2>6 DEF Next, LoopStep
  <1> QED
    BY LoopInvInit, <1>1, PTL DEF Spec

\* What a backend may spend is bounded for all limits: respawns between two
\* refills, launches without health, the outage of a running backend and the
\* time it keeps the load gate (ladder.go decision 1, loop.go decision 4).
THEOREM BudgetsAreKept == Spec => []BudgetsKept
  <1>1. LoopInv => BudgetsKept
    <2> SUFFICES ASSUME LoopInv PROVE BudgetsKept
      BY Zenon
    <2>1. /\ TypeOK /\ ladder.respawns \in 0..MaxRespawns /\ ladder.strikes \in 0..MaxFailures
          /\ ladder.deferredAge \in Ages(RespawnGrace)
          /\ ladder.state \in {"starting", "healthy", "unhealthy", "dead"}
      BY Zenon DEF LoopInv, TypeOK
    <2>2. RespawnBudget /\ LaunchesBounded
      BY <2>1, ConstantsAssumption DEF LoopInv, TypeOK, SpendingPaid, RespawnBudget, LaunchesBounded
    <2>3. OutageBounded
      <3> SUFFICES ASSUME pc = "running" PROVE downAge <= OutageLimit
        BY Zenon DEF OutageBounded
      <3>1. CASE ladder.state = "healthy"
        BY <3>1, ConstantsAssumption DEF LoopInv, HealthIsObserved, OutageLimit, Never
      <3>2. CASE ladder.state = "unhealthy"
        BY <2>1, <3>2, ConstantsAssumption DEF LoopInv, TypeOK, OutageCounted, OutageLimit, Ages, Never
      <3> QED
        BY Zenon, <2>1, <3>1, <3>2 DEF LoopInv, StateMatchesLoop
    <2>4. GateGivenBack
      BY Zenon DEF LoopInv, StateMatchesLoop, GateGivenBack
    <2> QED
      BY Zenon, <2>1, <2>2, <2>3, <2>4 DEF BudgetsKept
  <1> QED
    BY LoopInvariant, <1>1, PTL

\* The router sends requests only to a backend whose loop watches its process
\* or has left that to its owner.
THEOREM AdmittedBackendIsWatched == Spec => []AdmittedIsWatched
  <1>1. LoopInv => AdmittedIsWatched
    BY Zenon DEF LoopInv, StateMatchesLoop, AdmittedIsWatched
  <1> QED
    BY LoopInvariant, <1>1, PTL

\* A live process with requests in flight is stopped only when the backend has
\* been unhealthy for the whole grace period: the deferral giveUp starts is
\* never older than the outage, and no other path of the loop stops it.
THEOREM GraceIsKept == Spec => GraceKept
  <1> DEFINE Kept == pc = "running" /\ pc' \in {"respawning", "dying"} /\ proc = "up" /\ inFlight > 0
                       => RespawnGrace <= IF downAge = Never THEN 0 ELSE downAge
  <1>1. LoopInv /\ [Next]_vars => [Kept]_vars
    <2> SUFFICES ASSUME LoopInv, Next, pc = "running", pc' \in {"respawning", "dying"},
                        proc = "up", inFlight > 0
                 PROVE  RespawnGrace <= IF downAge = Never THEN 0 ELSE downAge
      BY Zenon
    <2>1. TickerProbe \/ KickProbe
      BY Zenon DEF Next, LoopStep, Start, LaunchStarts, LaunchNoCommand, LaunchFails, StartFailed, QuickRetry,
             StartingProbe, StartingWakes, ProcDone, Respawn, Die, Cancelled, ProcExits, Acquire, Release,
             NoteHardFailure, Cancel, Tick, loopVars
    <2>2. ladder \in Ladders /\ ladder.state \in {"healthy", "unhealthy"} /\ inFlight \in Nat
      BY ConstantsAssumption DEF LoopInv, TypeOK, Ladders, StateMatchesLoop
    <2>3. PICK c \in CheckGPU(ladder), ready \in {FALSE, proc = "up"} :
              Act(Observe(c.ladder, ready, proc = "up", inFlight).action, "running")
      BY ZenonT(40), <2>1 DEF TickerProbe, KickProbe, ProbeTick
    <2>a. PICK alive \in BOOLEAN : alive = (proc = "up")
      BY ZenonT(40)
    <2>4. PICK r : r = Observe(c.ladder, ready, alive, inFlight)
      BY Zenon
    <2>5. r.action # "none"
      BY Zenon, <2>3, <2>a, <2>4 DEF Act
    <2>6. c.ladder \in Ladders /\ c.ladder.state = ladder.state /\ Deferral(c.ladder) = Deferral(ladder)
      BY Zenon, <2>2, CheckGPUResult DEF Deferral
    <2>7. RespawnGrace <= Deferral(ladder)
      <3>1. alive /\ ready \in BOOLEAN /\ c.ladder.state # "dead" /\ c.ladder.state # "starting"
        BY ZenonT(40), <2>2, <2>a, <2>6
      <3>2. PICK l \in Ladders : l = c.ladder
        BY Zenon, <2>6
      <3>3. l.state # "dead" /\ l.state # "starting" /\ r = Observe(l, ready, alive, inFlight)
        BY Zenon, <2>4, <3>1, <3>2
      <3>a. PICK answer \in BOOLEAN : answer = ready
        BY Zenon, <3>1
      <3>b. r = Observe(l, answer, alive, inFlight) /\ inFlight \in Nat
        BY Zenon, <2>2, <3>3, <3>a
      <3>c. r.action \in {"none", "respawn", "markDead"}
            /\ (r.action # "none" /\ alive /\ inFlight > 0 /\ l.state # "starting" => RespawnGrace <= Deferral(l))
        BY <3>3, <3>b, ObserveResult
      <3>4. RespawnGrace <= Deferral(l)
        BY Zenon, <2>5, <3>1, <3>3, <3>c
      <3> QED
        BY Zenon, <2>6, <3>2, <3>4
    <2>8. /\ RespawnGrace \in Nat /\ ladder.deferredAge \in Ages(RespawnGrace)
          /\ downAge \in Ages(OutageLimit + 1) /\ OutageLimit + 1 \in Nat
      BY <2>2, ConstantsAssumption DEF LoopInv, TypeOK, OutageLimit
    <2>9. CASE ladder.state = "healthy"
      BY Zenon, <2>7, <2>8, <2>9 DEF LoopInv, HealthIsObserved, Deferral, Ages, Never
    <2>10. CASE ladder.state = "unhealthy"
      BY <2>7, <2>8, <2>10 DEF LoopInv, OutageCounted, Deferral, Ages, Never
    <2> QED
      BY Zenon, <2>2, <2>9, <2>10
  <1> QED
    BY LoopInvariant, <1>1, PTL DEF Spec, GraceKept
=============================================================================
