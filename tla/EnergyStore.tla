---------------------------- MODULE EnergyStore ----------------------------
(***************************************************************************)
(* The energy recorder (energy/recorder.go), the rings it writes           *)
(* (energy/store.go, ring.go), the client totals beside them               *)
(* (energy/client.go, clienttotals.go) and the ledger that measures how    *)
(* long each client held a slot (internal/clientuse/ledger.go).            *)
(*                                                                         *)
(* One recorder goroutine samples and finalises minutes; requests begin    *)
(* and end beside it; the process may stop, crash between two disk writes  *)
(* and start again, and the wall clock may be set back.                    *)
(*                                                                         *)
(* Time is counted in sampling intervals.  A card draws one unit of power  *)
(* for one model; energy is counted in Unit-ths of a unit so that the      *)
(* split of a minute between clients is exact.                             *)
(***************************************************************************)
EXTENDS Naturals, Integers, FiniteSets, FiniteSetsExt, Functions

CONSTANTS
    Labels,             \* the clients that label their requests
    Other,              \* the client of a request without a label
    Nobody,             \* the share of a minute nobody used
    SamplesPerMinute,
    MinutesPerHour,
    HoursPerDay,
    MaxCovered,         \* what CoveredS, a uint16, holds: more than an hour, less than a day
    MinuteSlots, HourSlots, DaySlots,
    MaxClock,           \* bound: the last instant
    MaxUses,            \* bound: requests ever begun
    MaxEnergyFaults           \* bound: stops, crashes, failed writes, unreadable
                        \* files and times the wall clock is set back

Clients == Labels \cup {Other}
Holders == Clients \cup {Nobody}
Unit == 12

VARIABLES
    clock, backs,       \* the wall clock, times it was set back
    recording,                 \* the process runs
    acc,                \* Recorder.acc: the minute being accumulated
    rec,                \* the finalisation in progress
    nodeRing,           \* node-minute, node-hour, node-day rings
    clientRing,         \* client-minute and client-hour rings
    named,              \* clients.txt exists
    file,               \* client-totals on disk
    totals,             \* clientStore.totals in memory, NoTotals when off
    ledger,             \* clientuse.Ledger
    energyFaults,
    drawn,              \* history: samples taken per minute
    holding, charged,      \* history: slot time held, slot time handed out
    shown,              \* history: the last published totals
    doubt               \* history: 1 after a stop, a crash, a failed write or a
                        \* clock set back; 2 once the totals file failed

recVars == <<acc, rec>>
diskVars == <<nodeRing, clientRing, named, file>>
energyVars == <<clock, backs, recording, acc, rec, nodeRing, clientRing, named, file,
                totals, ledger, energyFaults, drawn, holding, charged, shown, doubt>>

Larger(a, b) == IF a > b THEN a ELSE b
Smaller(a, b) == IF a < b THEN a ELSE b
MinuteOf(t) == t \div SamplesPerMinute
HourOf(m) == m \div MinutesPerHour
DayOf(h) == h \div HoursPerDay
FirstInstant == SamplesPerMinute * MinutesPerHour * HoursPerDay
Minutes == 0..MinuteOf(MaxClock)

NoAcc == [minute |-> 0, n |-> 0]
Idle == [at |-> "idle", minute |-> 0, covered |-> 0, then |-> 0, uses |-> [c \in {} |-> 0]]
NoTotals == [on |-> FALSE, since |-> 0, through |-> 0, keep |-> FALSE,
             rows |-> [c \in Holders |-> 0]]
NoFile == [found |-> FALSE, since |-> 0, through |-> 0, rows |-> [c \in Holders |-> 0]]
NoUse == [busy |-> 0, tokens |-> 0]
NoUses == [c \in Clients |-> NoUse]
NewLedger == [active |-> FALSE, open |-> {}, next |-> 1,
              done |-> [m \in Minutes |-> NoUses], taken |-> -1]

(***************************************************************************)
(* Rings: the slot of a bucket is the bucket modulo the ring length, and a *)
(* read keeps the records whose timestamp is in the window asked for.      *)
(***************************************************************************)
EmptyRing(slots, what) == [s \in 0..slots - 1 |-> [ts |-> 0, val |-> what]]
RingPut(ring, slots, bucket, val) == [ring EXCEPT ![bucket % slots] = [ts |-> bucket, val |-> val]]
RingWindow(ring, lo, hi) == {r \in {ring[s] : s \in DOMAIN ring} : r.ts # 0 /\ lo <= r.ts /\ r.ts < hi}

NoShares == [c \in Holders |-> 0]

EnergyInit ==
    /\ clock = FirstInstant
    /\ backs = 0
    /\ recording = TRUE
    /\ acc = NoAcc
    /\ rec = Idle
    /\ nodeRing = [minute |-> EmptyRing(MinuteSlots, 0), hour |-> EmptyRing(HourSlots, 0),
                   day |-> EmptyRing(DaySlots, 0)]
    /\ clientRing = [minute |-> EmptyRing(MinuteSlots, NoShares), hour |-> EmptyRing(HourSlots, NoShares)]
    /\ named = FALSE
    /\ file = NoFile
    /\ totals = NoTotals
    /\ ledger = NewLedger
    /\ energyFaults = 0
    /\ drawn = [m \in Minutes |-> 0]
    /\ holding = [c \in Clients |-> 0]
    /\ charged = [c \in Clients |-> 0]
    /\ shown = NoFile
    /\ doubt = 0

(***************************************************************************)
(* The clock.                                                              *)
(***************************************************************************)
\* A sampling interval passes; the disk writes of a minute take less than one.
Tick ==
    /\ clock < MaxClock /\ rec = Idle
    /\ clock' = clock + 1
    /\ holding' = [c \in Clients |-> holding[c] + IF recording THEN Cardinality({u \in ledger.open : u.client = c}) ELSE 0]
    /\ UNCHANGED <<backs, recording, recVars, diskVars, totals, ledger, energyFaults, drawn, charged, shown, doubt>>

SetClockBack ==
    /\ energyFaults < MaxEnergyFaults /\ rec = Idle
    /\ clock > FirstInstant
    /\ clock' = clock - 1
    /\ backs' = backs + 1
    /\ energyFaults' = energyFaults + 1
    /\ doubt' = Larger(doubt, 1)
    /\ UNCHANGED <<recording, recVars, diskVars, totals, ledger, drawn, holding, charged, shown>>

(***************************************************************************)
(* The ledger.                                                             *)
(***************************************************************************)
\* overlap: how much of [start, end) lies in the minute; never negative.
OverlapNoEnd(start, end, m) == Larger(0, end - Larger(start, m * SamplesPerMinute))
Overlap(start, end, m) ==
    Larger(0, Smaller(end, (m + 1) * SamplesPerMinute) - Larger(start, m * SamplesPerMinute))

\* Begin: an idle ledger counts nothing until a labelled request arrives;
\* from then on a request without a label is counted as Other.
Begin(label) ==
    /\ recording
    /\ ledger.next <= MaxUses
    /\ label # Other \/ ledger.active
    /\ ledger' = [ledger EXCEPT !.active = TRUE, !.next = @ + 1,
                      !.open = @ \cup {[id |-> ledger.next, client |-> label, start |-> clock]}]
    /\ UNCHANGED <<clock, backs, recording, recVars, diskVars, totals, energyFaults, drawn, holding, charged, shown, doubt>>

keepMinutes == 3
\* End: each minute of the use that Take has not handed out is charged, its
\* tokens go to the last one, and minutes nobody took are dropped.
End(u) ==
    LET first == Larger(MinuteOf(u.start), ledger.taken + 1)
        last == MinuteOf(clock)
        Charged(m, c) ==
            IF c # u.client \/ m < first \/ m > last THEN ledger.done[m][c]
            ELSE [busy |-> ledger.done[m][c].busy + Overlap(u.start, clock, m),
                  tokens |-> ledger.done[m][c].tokens + IF m = last THEN 1 ELSE 0]
    IN  /\ recording
        /\ ledger' = [ledger EXCEPT !.open = @ \ {u},
                          !.done = [m \in Minutes |-> [c \in Clients |->
                              IF m <= last - keepMinutes THEN NoUse ELSE Charged(m, c)]]]
        /\ UNCHANGED <<clock, backs, recording, recVars, diskVars, totals, energyFaults, drawn, holding, charged, shown, doubt>>

\* Take: one finished minute, with the open uses' part of it; once.
TakeUse(m) ==
    [c \in Clients |->
        IF m <= ledger.taken THEN NoUse
        ELSE [busy |-> ledger.done[m][c].busy
                  + MapThenSumSet(LAMBDA u : Overlap(u.start, clock, m), {u \in ledger.open : u.client = c}),
              tokens |-> ledger.done[m][c].tokens]]
AfterTake(m) ==
    IF m <= ledger.taken THEN ledger
    ELSE [ledger EXCEPT !.taken = m,
              !.done = [k \in Minutes |-> IF k <= m THEN NoUses ELSE ledger.done[k]]]

(***************************************************************************)
(* The recorder.                                                           *)
(***************************************************************************)
\* Sample folds one reading into the current minute; a reading of another
\* minute finalises the one in progress first, under the recorder's lock.
Sample ==
    /\ recording /\ rec = Idle
    /\ drawn' = [drawn EXCEPT ![MinuteOf(clock)] = @ + 1]
    /\ drawn[MinuteOf(clock)] <= (clock % SamplesPerMinute) + backs
    /\ \/ /\ acc.minute \in {0, MinuteOf(clock)}
          /\ acc' = [minute |-> MinuteOf(clock), n |-> acc.n + 1]
          /\ UNCHANGED rec
       \/ /\ acc.minute \notin {0, MinuteOf(clock)}
          /\ rec' = [Idle EXCEPT !.at = "minute", !.minute = acc.minute,
                         !.covered = Smaller(acc.n, SamplesPerMinute), !.then = MinuteOf(clock)]
          /\ UNCHANGED acc
    /\ UNCHANGED <<clock, backs, recording, diskVars, totals, ledger, energyFaults, holding, charged, shown, doubt>>

\* Flush finalises the minute in progress when the node stops.
Flush ==
    /\ recording /\ rec = Idle /\ acc # NoAcc /\ energyFaults < MaxEnergyFaults
    /\ energyFaults' = energyFaults + 1
    /\ rec' = [Idle EXCEPT !.at = "minute", !.minute = acc.minute,
                   !.covered = Smaller(acc.n, SamplesPerMinute)]
    /\ doubt' = Larger(doubt, 1)
    /\ UNCHANGED <<clock, backs, recording, acc, diskVars, totals, ledger, drawn, holding, charged, shown>>

At(step) == recording /\ rec.at = step
To(step) == rec' = [rec EXCEPT !.at = step] /\ UNCHANGED acc
\* The end of finalise: the sample that caused it opens the next minute, or
\* the process stops after a Flush.
Finalised ==
    /\ rec' = Idle
    /\ acc' = IF rec.then = 0 THEN NoAcc ELSE [minute |-> rec.then, n |-> 1]
    /\ recording' = (rec.then # 0)

\* aggregateNode: the covered time of the finer buckets, which saturates.
Covered(recs) == Smaller(MapThenSumSet(LAMBDA r : r.val, recs), MaxCovered)
HourStart(m) == HourOf(m) * MinutesPerHour
DayStart(h) == DayOf(h) * HoursPerDay

\* WriteMinute, one ring at a time: the minute, then its hour and its day,
\* each recomputed from the finer ring.
PutMinute ==
    /\ At("minute")
    /\ nodeRing' = [nodeRing EXCEPT !.minute = RingPut(@, MinuteSlots, rec.minute, rec.covered)]
    /\ To("hour")
    /\ UNCHANGED <<clock, backs, recording, clientRing, named, file, totals, ledger, energyFaults, drawn, holding, charged, shown, doubt>>
PutHour ==
    /\ At("hour")
    /\ nodeRing' = [nodeRing EXCEPT !.hour = RingPut(@, HourSlots, HourOf(rec.minute),
           Covered(RingWindow(nodeRing.minute, HourStart(rec.minute), HourStart(rec.minute) + MinutesPerHour)))]
    /\ To("day")
    /\ UNCHANGED <<clock, backs, recording, clientRing, named, file, totals, ledger, energyFaults, drawn, holding, charged, shown, doubt>>
PutDay ==
    /\ At("day")
    /\ LET h == HourOf(rec.minute) IN
       nodeRing' = [nodeRing EXCEPT !.day = RingPut(@, DaySlots, DayOf(h),
           Covered(RingWindow(nodeRing.hour, DayStart(h), DayStart(h) + HoursPerDay)))]
    /\ To("take")
    /\ UNCHANGED <<clock, backs, recording, clientRing, named, file, totals, ledger, energyFaults, drawn, holding, charged, shown, doubt>>

\* SplitClients: the minute's energy by busy time, or Nobody's.
Busy(uses) == MapThenSumSet(LAMBDA c : uses[c].busy, Clients)
Shares(uses, covered) ==
    [c \in Holders |->
        IF Busy(uses) = 0 THEN (IF c = Nobody THEN covered * Unit ELSE 0)
        ELSE IF c = Nobody THEN 0 ELSE (covered * Unit * uses[c].busy) \div Busy(uses)]
Used(uses) == {c \in Clients : uses[c] # NoUse}

\* writeClients asks the ledger for the minute's use.  Nothing is created
\* while no client has ever been named.
TakeMinute ==
    /\ At("take")
    /\ LET uses == TakeUse(rec.minute) IN
       /\ ledger' = AfterTake(rec.minute)
       /\ charged' = [c \in Clients |-> charged[c] + uses[c].busy]
       /\ IF Used(uses) = {} /\ ~totals.on
          THEN Finalised
          ELSE /\ rec' = [rec EXCEPT !.at = IF totals.on THEN "ring" ELSE "open", !.uses = uses]
               /\ UNCHANGED <<acc, recording>>
    /\ UNCHANGED <<clock, backs, diskVars, totals, energyFaults, drawn, holding, shown, doubt>>

(***************************************************************************)
(* The client totals.                                                      *)
(***************************************************************************)
AddRows(rows, shares) == [c \in Holders |-> rows[c] + shares[c]]
Saved(t) == [found |-> TRUE, since |-> t.since, through |-> t.through, rows |-> t.rows]
Published(t) == [found |-> TRUE, since |-> t.since, through |-> t.through, rows |-> t.rows]

\* loadTotals: the file, or counting from since; then every minute the ring
\* holds that the file has not counted.
FileOrNewEmpty(f, since) ==
    [on |-> TRUE, keep |-> FALSE,
     since |-> IF f.found THEN f.since ELSE since,
     through |-> IF f.found THEN f.through ELSE since - 1,
     rows |-> NoShares]
FileOrNew(f, since) ==
    [on |-> TRUE, keep |-> FALSE,
     since |-> IF f.found THEN f.since ELSE since,
     through |-> IF f.found THEN f.through ELSE since - 1,
     rows |-> f.rows]
Pending(t) == RingWindow(clientRing.minute, t.through + 1, MinuteOf(MaxClock) + 1)
CatchUp(t) ==
    [t EXCEPT !.rows = [c \in Holders |-> t.rows[c] + MapThenSumSet(LAMBDA r : r.val[c], Pending(t))],
              !.through = Max({r.ts : r \in Pending(t)} \cup {t.through})]

\* openClientStore for the minute that first names a client.
OpenClients ==
    /\ At("open")
    /\ totals' = CatchUp(FileOrNew(file, rec.minute))
    /\ file' = Saved(totals')
    /\ shown' = Published(totals')
    /\ To("ring")
    /\ UNCHANGED <<clock, backs, recording, nodeRing, clientRing, named, ledger, energyFaults, drawn, holding, charged, doubt>>

\* writeMinute: the names, the minute's slot, the totals, the hour's slot.
PutClientMinute ==
    /\ At("ring")
    /\ named' = TRUE
    /\ clientRing' = [clientRing EXCEPT
           !.minute = RingPut(@, MinuteSlots, rec.minute, Shares(rec.uses, rec.covered))]
    /\ To("count")
    /\ UNCHANGED <<clock, backs, recording, nodeRing, file, totals, ledger, energyFaults, drawn, holding, charged, shown, doubt>>

\* count adds a written minute once: one at or before through is refused.
Count(t, m, shares) ==
    IF m <= t.through THEN t ELSE [t EXCEPT !.rows = AddRows(@, shares), !.through = m]
CountMinute(saves) ==
    /\ At("count")
    /\ totals' = Count(totals, rec.minute, Shares(rec.uses, rec.covered))
    /\ file' = IF saves /\ ~totals.keep THEN Saved(totals') ELSE file
    /\ saves \/ (totals' # totals /\ ~totals.keep /\ energyFaults < MaxEnergyFaults)
    /\ energyFaults' = energyFaults + (IF saves THEN 0 ELSE 1)
    /\ doubt' = IF saves THEN doubt ELSE 2
    /\ To("roll")
    /\ UNCHANGED <<clock, backs, recording, nodeRing, clientRing, named, ledger, drawn, holding, charged, shown>>
RollClientHour ==
    /\ At("roll")
    /\ LET m == rec.minute
           recs == RingWindow(clientRing.minute, HourStart(m), HourStart(m) + MinutesPerHour)
       IN  clientRing' = [clientRing EXCEPT !.hour = RingPut(@, HourSlots, HourOf(m),
               [c \in Holders |-> MapThenSumSet(LAMBDA r : r.val[c], recs)])]
    /\ shown' = Published(totals)
    /\ Finalised
    /\ UNCHANGED <<clock, backs, nodeRing, named, file, totals, ledger, energyFaults, drawn, holding, charged, doubt>>

\* A disk write of the minute fails: the error is logged and finalise ends.
WriteFails ==
    /\ recording /\ rec.at \in {"minute", "hour", "day", "ring"}
    /\ energyFaults < MaxEnergyFaults
    /\ energyFaults' = energyFaults + 1
    /\ doubt' = Larger(doubt, 1)
    /\ Finalised
    /\ UNCHANGED <<clock, backs, diskVars, totals, ledger, drawn, holding, charged, shown>>

(***************************************************************************)
(* The process ends and starts again; memory is lost, the files stay.      *)
(***************************************************************************)
NodeDies ==
    /\ recording /\ energyFaults < MaxEnergyFaults
    /\ energyFaults' = energyFaults + 1
    /\ doubt' = Larger(doubt, 1)
    /\ recording' = FALSE /\ rec' = Idle /\ acc' = NoAcc
    /\ UNCHANGED <<clock, backs, diskVars, totals, ledger, drawn, holding, charged, shown>>

\* Open.  A totals file that cannot be read is moved aside and counting starts
\* again; one that cannot be moved either is left alone and never written over.
Open(readable, movable) ==
    /\ ~recording
    /\ recording' = TRUE
    /\ readable \/ (file.found /\ named /\ energyFaults < MaxEnergyFaults)
    /\ movable \/ ~readable
    /\ energyFaults' = energyFaults + (IF readable THEN 0 ELSE 1)
    /\ doubt' = IF readable THEN doubt ELSE 2
    /\ LET start == CatchUp(FileOrNew(IF readable THEN file ELSE NoFile, MinuteOf(clock)))
           kept == [start EXCEPT !.keep = ~readable /\ ~movable]
       IN  /\ totals' = IF named THEN kept ELSE NoTotals
           /\ file' = IF named /\ ~kept.keep THEN Saved(kept) ELSE file
           /\ shown' = IF named THEN Published(kept) ELSE shown
    /\ ledger' = NewLedger
    /\ UNCHANGED <<clock, backs, recVars, nodeRing, clientRing, named, drawn, holding, charged>>

EnergyNext ==
    \/ Tick \/ SetClockBack
    \/ \E c \in Clients : Begin(c)
    \/ \E u \in ledger.open : End(u)
    \/ Sample \/ Flush
    \/ PutMinute \/ PutHour \/ PutDay \/ TakeMinute
    \/ OpenClients \/ PutClientMinute
    \/ \E saves \in BOOLEAN : CountMinute(saves)
    \/ RollClientHour \/ WriteFails \/ NodeDies
    \/ \E readable, movable \in BOOLEAN : Open(readable, movable)

EnergySpec == EnergyInit /\ [][EnergyNext]_energyVars

(***************************************************************************)
(* Properties.                                                             *)
(***************************************************************************)
EnergyTypeOK ==
    /\ clock \in FirstInstant..MaxClock
    /\ acc.n \in 0..SamplesPerMinute + MaxEnergyFaults
    /\ rec.at \in {"idle", "minute", "hour", "day", "take", "open", "ring", "count", "roll"}
    /\ \A u \in ledger.open : u.client \in Clients /\ u.start \in FirstInstant..MaxClock
    /\ totals.on => named \/ file.found

Drawn(lo, hi) == MapThenSumSet(LAMBDA m : drawn[m], {m \in Minutes : lo <= m /\ m < hi})
TotalOf(t) == MapThenSumSet(LAMBDA c : t.rows[c], Holders)

\* No tier and no counter ever shows energy that was not measured: a restart
\* inside a minute, a repeated minute, a lapped ring or a crash between two
\* writes makes the figures low and never high, and no client is charged for
\* longer than it held a slot.
NeverInvented ==
    /\ \A r \in RingWindow(nodeRing.hour, 1, MaxClock) :
           r.val <= Drawn(r.ts * MinutesPerHour, (r.ts + 1) * MinutesPerHour)
    /\ \A r \in RingWindow(nodeRing.day, 1, MaxClock) :
           r.val <= Drawn(r.ts * MinutesPerHour * HoursPerDay, (r.ts + 1) * MinutesPerHour * HoursPerDay)
    /\ TotalOf(totals) <= Unit * Drawn(totals.since, totals.through + 1)
    /\ TotalOf(file) <= Unit * Drawn(file.since, file.through + 1)
    /\ \A c \in Clients : charged[c] <= holding[c]

\* While nothing fails the hours and the totals are exact, whatever the rings
\* still hold from earlier laps, and a day is exact up to what its CoveredS
\* holds, where it stays (docs/energy-store-format.md: it "saturates").
ExactWhenUndisturbed ==
    doubt = 0 /\ rec = Idle =>
        /\ \A r \in RingWindow(nodeRing.hour, 1, MaxClock) :
               r.val = Drawn(r.ts * MinutesPerHour, Smaller((r.ts + 1) * MinutesPerHour, acc.minute))
        /\ \A r \in RingWindow(nodeRing.day, 1, MaxClock) :
               r.val = Smaller(MaxCovered,
                               Drawn(r.ts * MinutesPerHour * HoursPerDay,
                                     Smaller((r.ts + 1) * MinutesPerHour * HoursPerDay, acc.minute)))
        /\ totals.on => TotalOf(totals) = Unit * Drawn(totals.since, acc.minute)

\* A minute in the client ring has been counted, crash or not, once the
\* recorder is idle.
NoneUncounted ==
    recording /\ totals.on /\ rec = Idle =>
        \A r \in RingWindow(clientRing.minute, totals.since, MaxClock) : r.ts <= totals.through

\* The ledger holds a bounded number of minutes for a recorder that never
\* takes them.
LedgerBounded == Cardinality({m \in Minutes : ledger.done[m] # NoUses}) <= keepMinutes + backs

EnergySafe ==
    /\ EnergyTypeOK /\ NeverInvented /\ ExactWhenUndisturbed /\ NoneUncounted /\ LedgerBounded

\* The published totals of every client only grow while Since stays the same,
\* across crashes, restarts inside a minute and a clock set back, as long as
\* the totals file can be read and written.
TotalsOnlyGrow ==
    [][shown.found /\ shown'.since = shown.since /\ doubt' < 2 =>
           \A c \in Clients : shown'.rows[c] >= shown.rows[c]]_energyVars
=============================================================================
