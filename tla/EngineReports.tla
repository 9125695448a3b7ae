---------------------------- MODULE EngineReports ----------------------------
(***************************************************************************)
(* What a node says about a backend: the readiness probe, the load poll    *)
(* and the image answer of each engine (internal/engine/*/health.go), what *)
(* the supervisor keeps of them for one launch (internal/supervisor        *)
(* loop.go, images.go) and what it publishes for the model (snapshot.go).  *)
(* The engine process is external: it loads, serves, goes out of service   *)
(* and back, stalls and exits in its own time, and something else may be   *)
(* listening on its port.  `eng' evolves; `other' is a second backend of   *)
(* the same model, in any of the states it can be published in.            *)
(***************************************************************************)
EXTENDS Naturals, FiniteSets, FiniteSetsExt

CONSTANTS
    Kind,          \* the engines: a subset of {"llamacpp","vllm","freetoken","strata"}
    SlotsAsked,    \* the model's configured parallel
    ConfiguredCtx, \* and its configured context
    Build,         \* what a launch may turn out to be: [slots, ctx, reads, says, gauge]
    Work,          \* requests
    StaleTicks,    \* load polls after which a load is not used (LoadStaleAfter)
    OtherViews     \* views of the second backend: [state, fresh, load, images, inflight, truth]

VARIABLES
    kind,     \* the model's engine
    eng,      \* the process: [st, build, run, last]
    ladder,   \* "starting", "healthy", "unhealthy": the ladder's state
    admitted, \* what the process was doing when the backend last turned healthy
    imagesAsked, \* whether this launch has been asked about images
    images,   \* its answer: "unknown", "yes", "no"
    load,     \* the last load kept, [slots, busy, ctx, prog], or NoLoad
    worked,   \* the requests the engine worked on when it was read
    age,      \* clock ticks since it was read
    flying,   \* requests the node has in flight on the backend
    peaks,    \* the largest number the engine worked on in each recent tick
    other

engineVars == <<kind, eng, ladder, admitted, imagesAsked, images, load, worked, age, flying, peaks, other>>

NoLoad == [slots |-> 0, busy |-> 0, ctx |-> 0, prog |-> {}]

------------------------------------------------------------------------------
(* The engine's own answers (external). *)

\* States in which a request to the process gets no answer.
Silent == {"down", "closed", "stalled"}

\* GET /health of each engine, and of a stranger on its port.
HealthDoc ==
    CASE eng.st = "serving"     -> [code |-> 200, service |-> kind, status |-> "ok", maintenance |-> "serving", loaded |-> TRUE]
      [] eng.st = "loading"     -> [code |-> IF kind = "llamacpp" THEN 503 ELSE 200, service |-> kind, status |-> "loading", maintenance |-> "", loaded |-> FALSE]
      [] eng.st = "maintenance" -> [code |-> 200, service |-> kind, status |-> "ok", maintenance |-> "rebuild", loaded |-> TRUE]
      [] eng.st = "unloaded"    -> [code |-> 200, service |-> kind, status |-> "ok", maintenance |-> "", loaded |-> FALSE]
      [] eng.st = "foreign"     -> [code |-> 200, service |-> "other", status |-> "", maintenance |-> "", loaded |-> FALSE]

\* Lifecycle steps of the process: vLLM and Strata open their port once loaded,
\* only FreeToken rebuilds in place and only Strata unloads when idle.
Lifecycle ==
    {<<"stalled", "serving">>, <<"serving", "stalled">>}
    \cup (IF kind \in {"llamacpp", "freetoken"}
          THEN {<<"closed", "loading">>, <<"loading", "serving">>}
          ELSE {<<"closed", "serving">>})
    \cup (IF kind = "freetoken" THEN {<<"serving", "maintenance">>, <<"maintenance", "serving">>} ELSE {})
    \cup (IF kind = "strata" THEN {<<"serving", "unloaded">>, <<"unloaded", "serving">>} ELSE {})

------------------------------------------------------------------------------
(* The engines' probes: "error" is a transport failure. *)

ProbeLlamacpp == IF HealthDoc.code = 200 THEN "ready" ELSE "not ready"

ProbeVllm == IF HealthDoc.code = 200 THEN "ready" ELSE "not ready"

\* health.ready and parseHealth: a document with a status, "ok", and serving.
FreetokenReady(h) == h.status = "ok" /\ h.maintenance \in {"", "serving"}

ProbeFreetoken ==
    IF HealthDoc.status # "" /\ FreetokenReady(HealthDoc) THEN "ready" ELSE "not ready"

ProbeStrata ==
    IF /\ HealthDoc.code = 200 /\ HealthDoc.service = "strata"
       /\ HealthDoc.status = "ok" /\ HealthDoc.loaded
    THEN "ready" ELSE "not ready"

EngineProbe ==
    CASE eng.st \in Silent   -> "error"
      [] kind = "llamacpp"   -> ProbeLlamacpp
      [] kind = "vllm"       -> ProbeVllm
      [] kind = "freetoken"  -> ProbeFreetoken
      [] kind = "strata"     -> ProbeStrata

------------------------------------------------------------------------------
(* The engines' loads: a set, empty where the engine returns an error. *)

Answers == eng.st \notin Silent \cup {"foreign"}

\* Slots and context as asked; without the running gauge an error, never a zero.
VllmLoad ==
    IF Answers /\ eng.build.gauge
    THEN {[slots |-> SlotsAsked, busy |-> Cardinality(eng.run), ctx |-> ConfiguredCtx, prog |-> {}]}
    ELSE {}

\* parseStats takes any JSON document: a stranger's reads as an idle engine.
FreetokenLoad ==
    IF eng.st \notin Silent
    THEN {[slots |-> SlotsAsked, busy |-> Cardinality(eng.run), ctx |-> ConfiguredCtx, prog |-> {}]}
    ELSE {}

\* /slots: progress over processing slots only, an idle one may carry its last request.
LlamacppLoadProgress ==
    IF Answers /\ eng.st # "loading" /\ eng.build.gauge
    THEN {[slots |-> eng.build.slots, busy |-> Cardinality(eng.run), ctx |-> eng.build.ctx, prog |-> eng.run]}
    ELSE {}

\* A request alone is decoded outside the batch slots, which all read idle.
StrataSlots == IF Cardinality(eng.run) = 1 THEN 0 ELSE Cardinality(eng.run)

\* /status describes a running request, and once idle keeps the last one's counts.
StrataStatus == [busy |-> eng.run # {}, about |-> IF eng.run # {} THEN {CHOOSE r \in eng.run : TRUE} ELSE eng.last]

StrataLoadProgress ==
    IF ~Answers THEN {} ELSE
    LET slots == [slots |-> eng.build.slots, busy |-> StrataSlots, ctx |-> eng.build.ctx, prog |-> {}]
    IN  {slots,     \* /status did not answer in time
         IF StrataSlots <= 1 /\ StrataStatus.busy
         THEN [slots EXCEPT !.prog = StrataStatus.about] ELSE slots}

EngineLoads ==
    CASE kind = "llamacpp"  -> LlamacppLoadProgress
      [] kind = "vllm"      -> VllmLoad
      [] kind = "freetoken" -> FreetokenLoad
      [] kind = "strata"    -> StrataLoadProgress

------------------------------------------------------------------------------
(* The image answers: Strata's /health, llama.cpp's launch arguments. *)

\* /health's own "images"; an older server does not say, a stranger is not asked.
StrataReadsImages ==
    IF eng.st \notin Silent \cup {"foreign"} /\ eng.build.says
    THEN IF eng.build.reads THEN "yes" ELSE "no"
    ELSE "unknown"

\* From the arguments the backend was started with: no request is made, and
\* a model fetched by name (hub flags) may bring a projector of its own.
LlamacppReadsImages ==
    IF ~eng.build.says THEN "unknown" ELSE IF eng.build.reads THEN "yes" ELSE "no"

ImagesOf ==
    CASE kind = "strata"   -> StrataReadsImages
      [] kind = "llamacpp" -> LlamacppReadsImages
      [] OTHER             -> "unknown"

------------------------------------------------------------------------------
(* The loop. *)

EngineInit ==
    /\ kind \in Kind
    /\ other \in OtherViews
    /\ eng = [st |-> "down", build |-> CHOOSE b \in Build : TRUE, run |-> {}, last |-> {}]
    /\ ladder = "starting" /\ admitted = "serving"
    /\ imagesAsked = FALSE /\ images = "unknown"
    /\ load = NoLoad /\ worked = {} /\ age = StaleTicks
    /\ flying = {}
    /\ peaks = [i \in 1..StaleTicks |-> 0]

\* launch: a new process, and nothing known about it.
LaunchEngineKeepsLoad(b, st) ==
    /\ eng.st = "down"
    /\ eng' = [st |-> st, build |-> b, run |-> {}, last |-> {}]
    /\ ladder' = "starting" /\ imagesAsked' = FALSE /\ images' = "unknown"
    /\ UNCHANGED <<kind, admitted, load, worked, age, flying, peaks, other>>

LaunchEngine(b, st) ==
    /\ eng.st = "down"
    /\ eng' = [st |-> st, build |-> b, run |-> {}, last |-> {}]
    /\ ladder' = "starting" /\ imagesAsked' = FALSE /\ images' = "unknown"
    /\ load' = NoLoad /\ worked' = {} /\ age' = StaleTicks
    /\ UNCHANGED <<kind, admitted, flying, peaks, other>>

\* The process goes on in its own time (external).
EngineMoves(to) ==
    /\ <<eng.st, to>> \in Lifecycle
    /\ to = "unloaded" => eng.run = {}
    /\ eng' = [eng EXCEPT !.st = to]
    /\ UNCHANGED <<kind, ladder, admitted, imagesAsked, images, load, worked, age, flying, peaks, other>>

\* The process exits; the loop sees it at its next probe and will launch again.
EngineExits ==
    /\ eng.st # "down"
    /\ eng' = [eng EXCEPT !.st = "down", !.run = {}, !.last = {}]
    /\ flying' = {}
    /\ UNCHANGED <<kind, ladder, admitted, imagesAsked, images, load, worked, age, peaks, other>>

\* probeTick: a ready probe makes the backend healthy, one that is not may take
\* it out (how many it takes is the ladder's, see BackendLoop).
ProbeEngine ==
    /\ eng.st # "down"
    /\ \/ /\ EngineProbe = "ready"
          /\ ladder' = "healthy"
          /\ admitted' = IF ladder = "healthy" THEN admitted ELSE eng.st
       \/ /\ EngineProbe # "ready"
          /\ ladder' \in IF ladder = "healthy" THEN {"healthy", "unhealthy"} ELSE {ladder}
          /\ UNCHANGED admitted
    /\ UNCHANGED <<kind, eng, imagesAsked, images, load, worked, age, flying, peaks, other>>

\* checkImages, once per launch, on the transition to healthy.
CheckImages ==
    /\ ladder = "healthy" /\ ~imagesAsked /\ eng.st # "down"
    /\ imagesAsked' = TRUE
    /\ images' = ImagesOf
    /\ UNCHANGED <<kind, eng, ladder, admitted, load, worked, age, flying, peaks, other>>

\* loadTick: a load that failed leaves the last one to grow old.
LoadTick ==
    /\ eng.st # "down"
    /\ \E l \in EngineLoads : load' = l
    /\ age' = 0 /\ worked' = eng.run
    /\ UNCHANGED <<kind, eng, ladder, admitted, imagesAsked, images, flying, peaks, other>>

\* Time: a kept load ages, the record of the engine's work moves on.
EngineClock ==
    /\ age' = IF age < StaleTicks THEN age + 1 ELSE age
    /\ peaks' = [i \in 1..StaleTicks |-> IF i = 1 THEN Cardinality(eng.run) ELSE peaks[i - 1]]
    /\ UNCHANGED <<kind, eng, ladder, admitted, imagesAsked, images, load, worked, flying, other>>

\* The node sends a request to a healthy backend; the client may leave it.
SendWork(r) ==
    /\ ladder = "healthy" /\ r \notin flying /\ Cardinality(flying) < SlotsAsked
    /\ flying' = flying \cup {r}
    /\ UNCHANGED <<kind, eng, ladder, admitted, imagesAsked, images, load, worked, age, peaks, other>>

LeaveWork(r) ==
    /\ r \in flying
    /\ flying' = flying \ {r}
    /\ UNCHANGED <<kind, eng, ladder, admitted, imagesAsked, images, load, worked, age, peaks, other>>

\* The engine takes a request up, and finishes it, maybe after the node lost it.
TakeUp(r) ==
    /\ eng.st = "serving" /\ r \in flying \ eng.run
    /\ Cardinality(eng.run) < eng.build.slots
    /\ eng' = [eng EXCEPT !.run = @ \cup {r}]
    /\ peaks' = [peaks EXCEPT ![1] = IF @ > Cardinality(eng'.run) THEN @ ELSE Cardinality(eng'.run)]
    /\ UNCHANGED <<kind, ladder, admitted, imagesAsked, images, load, worked, age, flying, other>>

FinishWork(r) ==
    /\ eng.st \in {"serving", "maintenance"} /\ r \in eng.run
    /\ eng' = [eng EXCEPT !.run = @ \ {r}, !.last = {r}]
    /\ flying' = flying \ {r}
    /\ UNCHANGED <<kind, ladder, admitted, imagesAsked, images, load, worked, age, peaks, other>>

EngineNext ==
    \/ \E b \in Build, st \in {"closed", "foreign"} : LaunchEngine(b, st)
    \/ \E to \in {"loading", "serving", "maintenance", "unloaded", "stalled"} : EngineMoves(to)
    \/ EngineExits
    \/ ProbeEngine
    \/ CheckImages
    \/ LoadTick
    \/ EngineClock
    \/ \E r \in Work : SendWork(r) \/ LeaveWork(r) \/ TakeUp(r) \/ FinishWork(r)

EngineSpec == EngineInit /\ [][EngineNext]_engineVars

------------------------------------------------------------------------------
(* What the node publishes. *)

\* view: the backend as the snapshot sees it.
BackendView ==
    [state |-> ladder, fresh |-> age < StaleTicks, load |-> load, images |-> images,
     inflight |-> Cardinality(flying)]

ViewSlots(v) == IF v.fresh THEN v.load.slots ELSE SlotsAsked

LargerOf(a, b) == IF a > b THEN a ELSE b

ViewBusy(v) == LargerOf(IF v.fresh THEN v.load.busy ELSE 0, v.inflight)

HealthyViews == {v \in {BackendView} \cup {other.view} : v.state = "healthy"}

\* totals: the context every backend the router may choose can honour.
TotalCtx ==
    LET said == {v.load.ctx : v \in {w \in HealthyViews : w.fresh}}
    IN  IF said = {} THEN ConfiguredCtx ELSE Min(said)

\* modelImages: what the healthy backends agree on, else unknown.
ModelImages ==
    LET said == {v.images : v \in HealthyViews}
    IN  IF Cardinality(said) = 1 /\ said # {"unknown"} THEN CHOOSE a \in said : TRUE ELSE "unknown"

\* status: token counts only from a fresh load.
PublishedProgress == IF age < StaleTicks THEN load.prog ELSE {}

------------------------------------------------------------------------------
(* Properties. *)

EngineTypeOK ==
    /\ kind \in Kind /\ other \in OtherViews
    /\ eng.st \in {"down", "closed", "loading", "serving", "maintenance", "unloaded", "stalled", "foreign"}
    /\ eng.build \in Build /\ eng.run \subseteq Work /\ eng.last \subseteq Work
    /\ ladder \in {"starting", "healthy", "unhealthy"} /\ imagesAsked \in BOOLEAN
    /\ images \in {"unknown", "yes", "no"} /\ age \in 0..StaleTicks /\ flying \subseteq Work

\* A backend turns healthy only while its process would serve a request: not
\* while FreeToken loads or rebuilds behind a 200, not while Strata is unloaded
\* behind one.  (llama.cpp and vLLM are judged by the status code alone, so
\* there a stranger's 200 is taken for the engine's.)
HealthyServed ==
    admitted \in {"serving"} \cup (IF kind \in {"llamacpp", "vllm"} THEN {"foreign"} ELSE {})

\* The slots and context published for a backend with a fresh load are those of
\* the process that runs now, never of the launch before a respawn.
CountsOfThisLaunch ==
    eng.st # "down" =>
        /\ ViewSlots(BackendView) \in {SlotsAsked, eng.build.slots}
        /\ age < StaleTicks /\ kind \in {"llamacpp", "strata"} => load.slots = eng.build.slots /\ load.ctx = eng.build.ctx

\* No more busy slots are published than the node has requests in flight or the
\* engine worked on within the stale window: a count never freezes.
BusyNotFrozen ==
    ViewBusy(BackendView) <= Max({Cardinality(flying), Cardinality(eng.run)} \cup {peaks[i] : i \in 1..StaleTicks})

\* The published context is one every healthy backend with a fresh load honours.
CtxHonoured ==
    \A v \in HealthyViews : v.fresh => TotalCtx <= v.load.ctx

\* A published "reads images", yes or no, is true of every healthy backend.
ImagesTrue ==
    /\ ModelImages # "unknown" /\ ladder = "healthy" /\ eng.st # "down" =>
           eng.build.reads = (ModelImages = "yes")
    /\ ModelImages # "unknown" /\ other.view.state = "healthy" =>
           other.reads = (ModelImages = "yes")

\* Published token counts are of requests that ran when they were read, not of
\* the last request of an idle slot or of an idle Strata.
ProgressOfWork ==
    PublishedProgress \subseteq worked

\* What the node publishes about a backend is what its engine said of itself,
\* in this launch and not long ago.
ReportsTrue ==
    EngineTypeOK /\ HealthyServed /\ CountsOfThisLaunch /\ BusyNotFrozen /\ CtxHonoured /\ ImagesTrue
    /\ ProgressOfWork
==============================================================================
