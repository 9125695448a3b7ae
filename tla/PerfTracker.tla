---------------------------- MODULE PerfTracker ----------------------------
(***************************************************************************)
(* internal/perf: the measured speed of each model, a window of recent     *)
(* samples blended with a baseline that survives quiet spells and          *)
(* restarts.  A computed score is cached until the window, the keys or the *)
(* minute change; baselines are saved when one changed.                    *)
(*                                                                         *)
(* A sample is the rate it measured; the overhead, which is fitted beside  *)
(* the rate and kept with it, is left out.  A score is a fraction.         *)
(***************************************************************************)
EXTENDS Naturals, FiniteSets

CONSTANTS
    PerfModels, PerfKeys,
    Rates,              \* the rates a sample can measure
    Buckets, K,         \* minutes in the window, samples that make a baseline
    maxPerBucket,
    saveAge,
    MaxMinute,          \* bound: the last minute
    MaxSetKeys,         \* bound: reloads
    MaxPerfFaults       \* bound: restarts and failed saves

VARIABLES
    minute,
    window,             \* model -> its samples: minute, rate, and a number to
                        \* tell equal ones apart
    base,               \* model -> baseline, NoBase when there is none
    keyOf,              \* model -> key, NoKey when it is not configured
    cache,              \* model -> the cached score
    mark,               \* model -> baseNew and markAt
    dirty,
    saving,             \* the baselines a Save in progress writes
    perfFile,           \* perf.json
    setKeys, perfFaults

perfVars == <<minute, window, base, keyOf, cache, mark, dirty, saving, perfFile, setKeys, perfFaults>>

NoBase == [rate |-> 0, key |-> "none"]
NoKey == "none"
NotCached == [on |-> FALSE, min |-> 0, rebase |-> FALSE, num |-> 0, den |-> 0]
NoMark == [new |-> FALSE, at |-> 0]
NotSaving == [m \in {} |-> NoBase]
PerfMinutes == 0..MaxMinute
EmptyWindow == {}

PerfInit ==
    /\ minute = 0
    /\ window = [m \in PerfModels |-> EmptyWindow]
    /\ base = [m \in PerfModels |-> NoBase]
    /\ \E k \in PerfKeys : keyOf = [m \in PerfModels |-> k]
    /\ cache = [m \in PerfModels |-> NotCached]
    /\ mark = [m \in PerfModels |-> NoMark]
    /\ dirty = FALSE
    /\ saving = NotSaving
    /\ perfFile = [m \in PerfModels |-> NoBase]
    /\ setKeys = 0
    /\ perfFaults = 0

MinutePasses ==
    /\ minute < MaxMinute
    /\ minute' = minute + 1
    /\ UNCHANGED <<window, base, keyOf, cache, mark, dirty, saving, perfFile, setKeys, perfFaults>>

InBucket(w, t) == {x \in w : x.t = t}
Filed(w, t, r) == w \cup {[t |-> t, r |-> r, n |-> Cardinality({x \in w : x.t = t /\ x.r = r})]}
\* expire drops the buckets of Buckets minutes ago and before.
Expire(w, now) == {x \in w : x.t + Buckets > now}

\* Record files a sample under the minute it was measured in, which a long
\* generation reports late.  A sample of a model no longer configured only
\* makes an entry the next SetKeys deletes, and is left out.
Record(m, t, r) ==
    /\ keyOf[m] # NoKey
    /\ window' = [window EXCEPT ![m] = Expire(
           IF Cardinality(InBucket(@, t)) < maxPerBucket THEN Filed(@, t, r) ELSE @, t)]
    /\ cache' = [cache EXCEPT ![m].on = FALSE]
    /\ UNCHANGED <<minute, base, keyOf, mark, dirty, saving, perfFile, setKeys, perfFaults>>

Samples(w) == Cardinality(w)
CountUpTo(w, r) == Cardinality({x \in w : x.r <= r})
\* window's rate: the median of its samples.
Median(w) == CHOOSE r \in Rates : CountUpTo(w, r) > Samples(w) \div 2
                 /\ \A s \in Rates : s < r => CountUpTo(w, s) <= Samples(w) \div 2

\* compute: K samples make the window the baseline; the score blends the two.
Rebased(m, w) ==
    IF Samples(w) >= K THEN [rate |-> Median(w), key |-> keyOf[m]] ELSE base[m]
ScoreOf(w, b) ==
    LET n == Samples(w) IN
    IF b = NoBase THEN (IF n = 0 THEN [num |-> 0, den |-> 0] ELSE [num |-> Median(w), den |-> 1])
    ELSE IF n = 0 THEN [num |-> b.rate, den |-> 1]
    ELSE [num |-> n * Median(w) + K * b.rate, den |-> n + K]
Computed(m, w, b) ==
    [on |-> TRUE, min |-> minute, rebase |-> Samples(w) >= K,
     num |-> ScoreOf(w, b).num, den |-> ScoreOf(w, b).den]

\* Score: recompute unless the cached score is of this minute; a window that
\* is the baseline refreshes its time, and is marked for saving when its value
\* changed or its saved time fell saveAge behind.
Score(m) ==
    LET hit == cache[m].on /\ cache[m].min = minute
        w == IF hit THEN window[m] ELSE Expire(window[m], minute)
        b == IF hit THEN base[m] ELSE Rebased(m, w)
        c == IF hit THEN cache[m] ELSE Computed(m, w, b)
        new == mark[m].new \/ (~hit /\ c.rebase /\ (base[m].rate # b.rate \/ base[m].key # b.key))
        due == c.rebase /\ (new \/ minute >= mark[m].at + saveAge)
    IN  /\ keyOf[m] # NoKey
        /\ window' = [window EXCEPT ![m] = w]
        /\ base' = [base EXCEPT ![m] = b]
        /\ cache' = [cache EXCEPT ![m] = c]
        /\ mark' = [mark EXCEPT ![m] = IF due THEN [new |-> FALSE, at |-> minute] ELSE [@ EXCEPT !.new = new]]
        /\ dirty' = (dirty \/ due)
        /\ UNCHANGED <<minute, keyOf, saving, perfFile, setKeys, perfFaults>>

\* SetKeys: a model whose key changed loses its window and its baseline; one
\* that is not listed is forgotten.
Forgotten(m, keys) == keyOf[m] # NoKey /\ keys[m] = NoKey
LosesBase(m, keys) == keys[m] # NoKey /\ base[m] # NoBase /\ base[m].key # keys[m]
SetKeysKeepsBase(keys) ==
    /\ window' = [m \in PerfModels |-> IF keys[m] # keyOf[m] THEN EmptyWindow ELSE window[m]]
    /\ base' = [m \in PerfModels |-> IF Forgotten(m, keys) THEN NoBase ELSE base[m]]
    /\ keyOf' = keys
    /\ cache' = [m \in PerfModels |-> NotCached]
    /\ mark' = [m \in PerfModels |-> IF Forgotten(m, keys) THEN NoMark ELSE mark[m]]
    /\ dirty' = (dirty \/ \E m \in PerfModels : Forgotten(m, keys))
SetKeys(keys) ==
    /\ window' = [m \in PerfModels |-> IF keys[m] # keyOf[m] THEN EmptyWindow ELSE window[m]]
    /\ base' = [m \in PerfModels |->
           IF Forgotten(m, keys) \/ LosesBase(m, keys) THEN NoBase ELSE base[m]]
    /\ keyOf' = keys
    /\ cache' = [m \in PerfModels |-> NotCached]
    /\ mark' = [m \in PerfModels |-> IF Forgotten(m, keys) THEN NoMark ELSE mark[m]]
    /\ dirty' = (dirty \/ \E m \in PerfModels : Forgotten(m, keys) \/ LosesBase(m, keys))
Reload(keys) ==
    /\ setKeys < MaxSetKeys
    /\ setKeys' = setKeys + 1
    /\ SetKeys(keys)
    /\ UNCHANGED <<minute, saving, perfFile, perfFaults>>

\* Save takes the baselines and clears dirty under the lock, and writes the
\* file outside it; a failed write marks them dirty again.
SaveBegins ==
    /\ dirty /\ saving = NotSaving
    /\ saving' = base
    /\ dirty' = FALSE
    /\ UNCHANGED <<minute, window, base, keyOf, cache, mark, perfFile, setKeys, perfFaults>>
SaveWrites ==
    /\ saving # NotSaving
    /\ perfFile' = saving
    /\ saving' = NotSaving
    /\ UNCHANGED <<minute, window, base, keyOf, cache, mark, dirty, setKeys, perfFaults>>
SaveFailsWrite ==
    /\ saving # NotSaving /\ perfFaults < MaxPerfFaults
    /\ perfFaults' = perfFaults + 1
    /\ dirty' = TRUE
    /\ saving' = NotSaving
    /\ UNCHANGED <<minute, window, base, keyOf, cache, mark, perfFile, setKeys>>

\* A restart: Load reads the saved baselines, then SetKeys names the models of
\* the configuration, which may have changed meanwhile.
PerfRestart(keys) ==
    /\ perfFaults < MaxPerfFaults
    /\ perfFaults' = perfFaults + 1
    /\ base' = [m \in PerfModels |-> IF perfFile[m].key = keys[m] THEN perfFile[m] ELSE NoBase]
    /\ window' = [m \in PerfModels |-> EmptyWindow]
    /\ keyOf' = keys
    /\ cache' = [m \in PerfModels |-> NotCached]
    /\ mark' = [m \in PerfModels |-> NoMark]
    /\ dirty' = (\E m \in PerfModels : perfFile[m] # NoBase /\ perfFile[m].key # keys[m])
    /\ saving' = NotSaving
    /\ UNCHANGED <<minute, perfFile, setKeys>>

KeyMaps == [PerfModels -> PerfKeys \cup {NoKey}]
PerfNext ==
    \/ MinutePasses
    \/ \E m \in PerfModels, r \in Rates, t \in PerfMinutes :
           t <= minute /\ t + 1 >= minute /\ Record(m, t, r)
    \/ \E m \in PerfModels : Score(m)
    \/ \E keys \in KeyMaps : Reload(keys)
    \/ SaveBegins \/ SaveWrites \/ SaveFailsWrite
    \/ \E keys \in KeyMaps : PerfRestart(keys)

PerfSpec == PerfInit /\ [][PerfNext]_perfVars

PerfTypeOK ==
    /\ minute \in PerfMinutes
    /\ \A m \in PerfModels : base[m] = NoBase \/ base[m].rate \in Rates
    /\ \A m \in PerfModels, t \in PerfMinutes : Cardinality(InBucket(window[m], t)) <= maxPerBucket

\* A cached score that would be served is what computing it now would give:
\* every change of the window, the keys and the minute drops it.
CacheCoherent ==
    \A m \in PerfModels :
        cache[m].on /\ cache[m].min = minute =>
            LET w == Expire(window[m], minute) IN
            /\ cache[m].num = ScoreOf(w, base[m]).num
            /\ cache[m].den = ScoreOf(w, base[m]).den

\* No baseline is kept, in memory or across a restart, for a model whose key
\* is not the one it was measured under.
BaselineOfKey == \A m \in PerfModels : base[m] # NoBase => base[m].key = keyOf[m]

\* When nothing is marked for saving, perf.json holds the baselines, a Score
\* that ran beside a Save included.
SavedWhenClean ==
    ~dirty /\ saving = NotSaving =>
        \A m \in PerfModels : base[m].rate = perfFile[m].rate /\ base[m].key = perfFile[m].key

PerfSafe == PerfTypeOK /\ CacheCoherent /\ BaselineOfKey /\ SavedWhenClean
=============================================================================
