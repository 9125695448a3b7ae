----------------------------- MODULE ParrotFetch -----------------------------
(***************************************************************************)
(* Weights and releases from viiwork-parrot: the client's classification   *)
(* of an answer (internal/parrot/parrot.go), AwaitRelease's bounded wait   *)
(* (release.go) and a model's fetch, shared by its backends                *)
(* (internal/supervisor/fetch.go).  viiwork-parrot is external: it may be  *)
(* absent, have no catalog yet, queue, download, verify, provide, refuse,  *)
(* and answer something that is not its document.                          *)
(***************************************************************************)
EXTENDS Naturals, FiniteSets, Integers

CONSTANTS
    AwaitStall, AwaitPoll, AwaitMax, \* Await's bounds, in clock ticks
    AskLimit,                        \* the longest one request takes
    FetchPoll, FetchRetryMax,        \* the fetch's poll and its longest backoff
    Waiters,                         \* the backends that wait for the model
    Percents,                        \* download percents, from 0
    MaxTicks                         \* bound: clock

VARIABLES
    use,       \* "release" (AwaitRelease) or "weights" (fetch)
    parrot,    \* [mode, percent, there]: what it would answer, and whether the path exists here
    ticks,     \* the clock
    askAt,     \* when the next request goes out
    seen,      \* AwaitRelease: [state, percent, progress]
    backoff,   \* fetch: the next wait after an unavailable answer
    unpaused,  \* when an answer last differed from every one before it
    outcome,   \* "asking", or how the wait ended: [end, mode, path]
    told       \* backend -> the outcome it was given, or "waiting"

parrotVars == <<use, parrot, ticks, askAt, seen, backoff, unpaused, outcome, told>>

Asking == [end |-> "asking", mode |-> "", path |-> FALSE]

------------------------------------------------------------------------------
(* The answers. *)

Modes == {"absent", "nofeed", "queued", "downloading", "ready", "nopath", "garbled", "refused"}

StatusCode ==
    CASE parrot.mode = "absent" -> 0
      [] parrot.mode = "nofeed" -> 503
      [] parrot.mode \in {"queued", "downloading"} -> 202
      [] parrot.mode \in {"ready", "nopath", "garbled"} -> 200
      [] parrot.mode = "refused" -> 409

\* post: the transport, then the code, then the document and its path.
Classify ==
    CASE StatusCode = 0   -> "unavailable"
      [] StatusCode = 200 -> IF parrot.mode = "garbled" THEN "unavailable"
                             ELSE IF parrot.mode = "nopath" THEN "refused" ELSE "ready"
      [] StatusCode = 202 -> "pending"
      [] StatusCode = 503 -> "unavailable"
      [] OTHER            -> "refused"

\* The state word and percent of the answer; an answer without a status has none.
StateWord == IF parrot.mode \in {"queued", "downloading"} THEN parrot.mode ELSE ""

PercentSaid == IF parrot.mode = "downloading" THEN parrot.percent ELSE 0

End(end) == [end |-> end, mode |-> parrot.mode, path |-> parrot.there]

------------------------------------------------------------------------------
ParrotInit ==
    /\ use \in {"release", "weights"}
    /\ parrot \in [mode : Modes, percent : {0}, there : BOOLEAN]
    /\ ticks = 0 /\ askAt = 0
    /\ seen = [state |-> "", percent |-> -1, progress |-> 0]
    /\ backoff = FetchPoll /\ unpaused = 0
    /\ outcome = Asking
    /\ told = [w \in Waiters |-> "waiting"]

\* viiwork-parrot moves in its own time (external).
ParrotMoves(mode) ==
    /\ outcome = Asking /\ mode # parrot.mode
    /\ parrot' = [parrot EXCEPT !.mode = mode]
    /\ UNCHANGED <<use, ticks, askAt, seen, backoff, unpaused, outcome, told>>

Downloads ==
    /\ outcome = Asking /\ parrot.mode = "downloading" /\ parrot.percent + 1 \in Percents
    /\ parrot' = [parrot EXCEPT !.percent = @ + 1]
    /\ UNCHANGED <<use, ticks, askAt, seen, backoff, unpaused, outcome, told>>

ParrotClock ==
    /\ outcome = Asking /\ ticks < askAt /\ ticks < MaxTicks
    /\ ticks' = ticks + 1
    /\ UNCHANGED <<use, parrot, askAt, seen, backoff, unpaused, outcome, told>>

AskDue == outcome = Asking /\ ticks = askAt

ReleaseSeenPercent(now) ==
    IF PercentSaid > seen.percent
    THEN [state |-> StateWord, percent |-> PercentSaid, progress |-> now] ELSE seen

\* The release's loop after an answer at `now': progress is a new state word or
\* a higher percent.
ReleaseSeen(now) ==
    IF StateWord # seen.state \/ PercentSaid > seen.percent
    THEN [state |-> StateWord, percent |-> PercentSaid, progress |-> now] ELSE seen

ReleaseEnds(now) ==
    CASE Classify = "ready" -> End("ready")
      [] Classify = "refused" -> End("refused")
      [] Classify = "unavailable" /\ StatusCode # 503 -> End("no answer")
      [] OTHER -> IF now - ReleaseSeen(now).progress >= AwaitStall THEN End("stalled")
                  ELSE IF now > AwaitMax THEN End("gave up") ELSE Asking

\* AwaitRelease: one request and what follows from it.
AskRelease(took) ==
    /\ use = "release" /\ AskDue /\ ticks + took <= MaxTicks
    /\ LET now == ticks + took
           waits == Classify = "pending" \/ (Classify = "unavailable" /\ StatusCode = 503)
       IN  /\ ticks' = now
           /\ seen' = IF waits THEN ReleaseSeen(now) ELSE seen
           /\ unpaused' = IF waits /\ (StateWord # seen.state \/ PercentSaid > seen.percent) THEN now ELSE unpaused
           /\ outcome' = ReleaseEnds(now)
           /\ askAt' = IF outcome' = Asking THEN now + AwaitPoll ELSE askAt
    /\ UNCHANGED <<use, parrot, backoff, told>>

\* fetch.resolve: a path that is not here ends it, and so does a refusal; an
\* unavailable viiwork-parrot is asked again, less and less often.
AskWeights ==
    /\ use = "weights" /\ AskDue
    /\ outcome' = CASE Classify = "ready" -> End(IF parrot.there THEN "ready" ELSE "missing")
                    [] Classify = "refused" -> End("refused")
                    [] OTHER -> Asking
    /\ backoff' = CASE Classify = "pending" -> FetchPoll
                    [] Classify = "unavailable" -> IF backoff * 2 < FetchRetryMax THEN backoff * 2 ELSE FetchRetryMax
                    [] OTHER -> backoff
    /\ askAt' = IF outcome' # Asking THEN askAt
                ELSE ticks + IF Classify = "unavailable" THEN backoff ELSE FetchPoll
    /\ UNCHANGED <<use, parrot, ticks, seen, unpaused, told>>

\* The context ends while a request or a sleep is under way: a stop, not a refusal.
Stopped ==
    /\ outcome = Asking
    /\ outcome' = End("stopped")
    /\ UNCHANGED <<use, parrot, ticks, askAt, seen, backoff, unpaused, told>>

\* fetch.wait: the first backend resolves, the later ones get what it got.
TellWaiter(w) ==
    /\ use = "weights" /\ outcome # Asking /\ told[w] = "waiting"
    /\ told' = [told EXCEPT ![w] = outcome.end]
    /\ UNCHANGED <<use, parrot, ticks, askAt, seen, backoff, unpaused, outcome>>

ParrotNext ==
    \/ \E mode \in Modes : ParrotMoves(mode)
    \/ Downloads
    \/ ParrotClock
    \/ \E took \in 0..AskLimit : AskRelease(took)
    \/ AskWeights
    \/ Stopped
    \/ \E w \in Waiters : TellWaiter(w)

ParrotSpec == ParrotInit /\ [][ParrotNext]_parrotVars

------------------------------------------------------------------------------
(* Properties. *)

ParrotTypeOK ==
    /\ use \in {"release", "weights"} /\ parrot.mode \in Modes /\ parrot.percent \in Percents
    /\ ticks \in 0..MaxTicks /\ backoff \in FetchPoll..FetchRetryMax
    /\ told \in [Waiters -> {"waiting", "ready", "missing", "refused", "stopped"}]

\* AwaitRelease ends within Max, one more poll and one request, whatever
\* viiwork-parrot answers, so the stage keeps time for another source.
AwaitBounded ==
    use = "release" =>
        /\ ticks <= AwaitMax + AwaitPoll + AskLimit
        /\ outcome = Asking => askAt <= AwaitMax + AwaitPoll

\* It calls a download stalled only when no answer showed a new state or a
\* higher percent for Stall.
StallTrue ==
    use = "release" /\ outcome.end = "stalled" => ticks - unpaused >= AwaitStall

\* A release's or a model's wait ends with a path only if viiwork-parrot was
\* ready, and a model's only if the path exists here.
ReadyTrue ==
    outcome.end = "ready" => outcome.mode = "ready" /\ (use = "weights" => outcome.path)

\* A model's fetch is never given up because viiwork-parrot is away or its
\* answer unreadable; only an answer that asking again will not change ends it.
FetchPatient ==
    use = "weights" /\ outcome.end \in {"refused", "missing"} =>
        outcome.mode \in {"ready", "nopath", "refused"}

\* Every backend of the model is given the one outcome.
OneOutcome == \A w \in Waiters : told[w] \in {"waiting", outcome.end}

\* The fetch asks at least every FetchRetryMax.
FetchAsks == use = "weights" /\ outcome = Asking => askAt - ticks <= FetchRetryMax

\* A wait on viiwork-parrot ends when it should and for the reason it gives.
WaitsHonest ==
    ParrotTypeOK /\ AwaitBounded /\ StallTrue /\ ReadyTrue /\ FetchPatient /\ OneOutcome /\ FetchAsks
==============================================================================
