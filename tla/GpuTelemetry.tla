---------------------------- MODULE GpuTelemetry ----------------------------
(***************************************************************************)
(* GPU telemetry (internal/gpu): a collector that runs the vendor's tool   *)
(* every health interval, the ring buffer of samples it keeps per card,    *)
(* the newest sample of each card as the status and the energy recorder    *)
(* read it, and the broadcaster of the dashboards' live streams.  The tool *)
(* may fail, or stop listing a card, at any time.                          *)
(*                                                                         *)
(* And what the readings are for (energy/attribute.go): a minute's         *)
(* measured node power is divided between the cards.  Every card is        *)
(* charged in proportion to what it draws above its idle floor, the rest   *)
(* is the baseline, and the floors are the lowest readings of the minutes  *)
(* kept.  Watts are small integers, and a charge is a fraction with the    *)
(* denominator total marginal draw, so the split is exact.                 *)
(***************************************************************************)
EXTENDS Integers, Sequences, FiniteSetsExt, SequencesExt

CONSTANTS GpuCard,         \* the cards of the host
          RingSize,        \* samples kept of a card
          StaleIntervals,  \* periods for which a sample is current
          PeriodWindow,    \* newest samples consulted for the period
          MinPeriod, DefaultPeriod,
          Client,          \* dashboards
          MaxSubscribers, ChannelSize,
          MaxClock, MaxSamples,  \* bounds of the exploration
          Gpu, GpuWatts, NodeWatts, \* the cards of the split, and the readings possible
          Window                    \* minutes the floors look back (24 h)

VARIABLES collector,  \* [vendor, available, power]
          gpuNow,
          rings,      \* each card's buffer: [slots, head, count]
          recorded,   \* history: the times recorded of each card
          clients,    \* the broadcaster's channels, the oldest first
          channel,    \* what each dashboard has not read
          closed,     \* dashboards whose channel was closed under them
          kept,       \* the minute records of the window, oldest first
          charge      \* the last split, with what it was made from

gpuVars == <<collector, gpuNow, rings, recorded, clients, channel, closed>>

NewRing == [slots |-> [i \in 0..(RingSize - 1) |-> 0], head |-> 0, count |-> 0]

RingAdd(rb, t) ==
  [slots |-> [rb.slots EXCEPT ![rb.head] = t],
   head  |-> (rb.head + 1) % RingSize,
   count |-> IF rb.count < RingSize THEN rb.count + 1 ELSE rb.count]

\* The samples, the oldest first.
RingSlice(rb) ==
  LET start == IF rb.count < RingSize THEN 0 ELSE rb.head
  IN [i \in 1..rb.count |-> rb.slots[(start + i - 1) % RingSize]]

\* The i-th newest sample, from 0.
RingAt(rb, i) == rb.slots[(rb.head + RingSize - 1 - i) % RingSize]

Gaps(rb) ==
  {RingAt(rb, i) - RingAt(rb, i + 1) : i \in {j \in 0..(PeriodWindow - 2) : j + 1 < rb.count}} \ {0}

\* A mutant: the period is the largest gap.
PeriodLargest(rb) == Max({MinPeriod, IF Gaps(rb) = {} THEN DefaultPeriod ELSE Max(Gaps(rb))})

\* The recording period the newest samples imply.
Period(rb) == Max({MinPeriod, IF Gaps(rb) = {} THEN DefaultPeriod ELSE Min(Gaps(rb))})

\* The cards with a current newest sample.
Latest == {g \in GpuCard : /\ rings[g].count > 0
                           /\ gpuNow - RingAt(rings[g], 0) <= StaleIntervals * Period(rings[g])}

-----------------------------------------------------------------------------
(* The collector                                                           *)

Record(seen) ==
  /\ \A g \in seen : Len(recorded[g]) < MaxSamples
  /\ rings' = [g \in GpuCard |-> IF g \in seen THEN RingAdd(rings[g], gpuNow) ELSE rings[g]]
  /\ recorded' = [g \in GpuCard |-> IF g \in seen THEN Append(recorded[g], gpuNow) ELSE recorded[g]]

\* An event goes to every channel with room.
Broadcast ==
  channel' = [c \in Client |-> IF Contains(clients, c) /\ Len(channel[c]) < ChannelSize
                               THEN Append(channel[c], gpuNow) ELSE channel[c]]

NoCollector == [vendor |-> "none", available |-> FALSE, power |-> FALSE]

\* Startup probes the tool with the wattage first and without it next, and
\* takes the first form that answers, then samples once.  NVIDIA and Apple
\* must also list a card, and Apple reports no wattage.
NewCollector(v) ==
  /\ collector = NoCollector
  /\ \/ collector' = [NoCollector EXCEPT !.vendor = v] /\ UNCHANGED <<rings, recorded, channel>>
     \/ \E seen \in SUBSET GpuCard, watts \in BOOLEAN :
          /\ v # "amd" => seen # {}
          /\ watts => seen # {} /\ v # "apple"
          /\ collector' = [vendor |-> v, available |-> TRUE, power |-> watts]
          /\ Record(seen) /\ Broadcast
  /\ UNCHANGED <<gpuNow, clients, closed>>

\* A tick of the sample loop: the tool fails, or lists some of the cards.
Sample ==
  /\ collector.available
  /\ \E seen \in SUBSET GpuCard :
       /\ Record(seen)
       /\ IF collector.vendor = "apple" /\ seen = {} THEN UNCHANGED channel ELSE Broadcast
  /\ UNCHANGED <<collector, gpuNow, clients, closed>>

GpuClock ==
  /\ gpuNow < MaxClock /\ gpuNow' = gpuNow + 1
  /\ UNCHANGED <<collector, rings, recorded, clients, channel, closed>>

-----------------------------------------------------------------------------
(* The broadcaster                                                         *)

\* A new channel; at the limit the oldest is closed and dropped.
Subscribe(c) ==
  /\ ~Contains(clients, c) /\ c \notin closed
  /\ LET full == Len(clients) >= MaxSubscribers
     IN /\ closed' = IF full THEN closed \cup {Head(clients)} ELSE closed
        /\ clients' = Append(IF full THEN Tail(clients) ELSE clients, c)
  /\ channel' = [channel EXCEPT ![c] = <<>>]
  /\ UNCHANGED <<collector, gpuNow, rings, recorded>>

Receive(c) ==
  /\ channel[c] # <<>>
  /\ channel' = [channel EXCEPT ![c] = Tail(@)]
  /\ UNCHANGED <<collector, gpuNow, rings, recorded, clients, closed>>

\* The handler returns: the client left, the node stops, or its drained
\* channel is closed.
Unsubscribe(c) ==
  /\ Contains(clients, c) \/ (c \in closed /\ channel[c] = <<>>)
  /\ clients' = SelectSeq(clients, LAMBDA d : d # c)
  /\ closed' = closed \ {c}
  /\ channel' = [channel EXCEPT ![c] = <<>>]
  /\ UNCHANGED <<collector, gpuNow, rings, recorded>>

GpuInit ==
  /\ collector = NoCollector /\ gpuNow = 1
  /\ rings = [g \in GpuCard |-> NewRing] /\ recorded = [g \in GpuCard |-> <<>>]
  /\ clients = <<>> /\ channel = [c \in Client |-> <<>>] /\ closed = {}

GpuNext ==
  \/ \E v \in {"nvidia", "amd", "apple"} : NewCollector(v)
  \/ Sample \/ GpuClock
  \/ \E c \in Client : Subscribe(c) \/ Receive(c) \/ Unsubscribe(c)

-----------------------------------------------------------------------------
\* The ring holds exactly the newest samples in order, wrapped or not.
RingTrue ==
  \A g \in GpuCard :
    LET n == Len(recorded[g]) IN
    RingSlice(rings[g]) = SubSeq(recorded[g], IF n > RingSize THEN n - RingSize + 1 ELSE 1, n)

\* A card whose two newest samples are a tick apart is dropped from the latest
\* readings StaleIntervals periods after the tool stopped listing it, whatever
\* outage came before, and is shown until then.
OutageEnds ==
  \A g \in GpuCard :
    LET n == Len(recorded[g]) IN
    n > 1 /\ recorded[g][n] = recorded[g][n - 1] + 1 =>
      (g \in Latest <=> gpuNow - recorded[g][n] <= StaleIntervals * MinPeriod)

\* A closed channel is never sent to, and a dashboard reads samples in order.
StreamsOrdered ==
  /\ \A c \in closed : ~Contains(clients, c)
  /\ \A c \in Client : \A i \in 1..(Len(channel[c]) - 1) : channel[c][i] <= channel[c][i + 1]
  /\ Len(clients) <= MaxSubscribers

TelemetryTrue == RingTrue /\ OutageEnds /\ StreamsOrdered

-----------------------------------------------------------------------------
(* The split of a minute                                                   *)

splitVars == <<kept, charge>>

SumOver(f) == FoldFunction(LAMBDA x, y : x + y, 0, f)

\* The lowest reading seen: of the node from this minute and the records, of a
\* card from this minute's lowest card and its own records. A record that covers
\* no time and a reading of zero say nothing.
Floors(node, raw) ==
  LET seen == {r \in Range(kept) : r.covered > 0}
      lit == {raw[g] : g \in Gpu} \ {0}
  IN [node |-> Min({node} \cup ({r.node : r \in seen} \ {0})),
      gpu |-> [g \in Gpu |->
        Min({raw[g]} \cup {w \in lit : w < raw[g]} \cup ({r.raw[g] : r \in seen} \ {0}))]]

\* The node's baseline: its floor, or what this minute's visible GPU work leaves,
\* whichever is lower.
BaselineFloor(node, floor, total) == Max({floor, 0})
Baseline(node, floor, total) == Max({Min({floor, node - total}), 0})

\* Attribute: marginal draw, the work to divide, and the shares.
Attribute(node, raw, floors) ==
  LET marginal == [g \in Gpu |-> Max({raw[g] - floors.gpu[g], 0})]
      total == SumOver(marginal)
      work == Max({node - Baseline(node, floors.node, total), 0})
  IN [node |-> node, raw |-> raw, floors |-> floors, total |-> total,
      work |-> IF total > 0 THEN work ELSE 0,
      share |-> [g \in Gpu |-> work * marginal[g]]]

SplitInit == kept = <<>> /\ charge = Attribute(0, [g \in Gpu |-> 0], Floors(0, [g \in Gpu |-> 0]))

\* A minute is finalised: divided with the floors of the records before it, then
\* recorded with its covered seconds.
FinishMinute ==
  \E node \in NodeWatts, raw \in [Gpu -> GpuWatts], covered \in {0, 1} :
    /\ charge' = Attribute(node, raw, Floors(node, raw))
    /\ kept' = LET all == Append(kept, [node |-> node, raw |-> raw, covered |-> covered])
               IN SubSeq(all, Max({1, Len(all) - Window + 1}), Len(all))

SplitNext == FinishMinute
SplitSpec == SplitInit /\ [][SplitNext]_splitVars

\* "The result always reconciles" (Attribute): the shares are never negative and
\* come to the work divided, which is at most the node's power, so the baseline
\* is never negative.
Reconciles ==
  /\ \A g \in Gpu : charge.share[g] >= 0
  /\ charge.total > 0 => SumOver(charge.share) = charge.work * charge.total
  /\ charge.work \in 0..charge.node

\* A node that is never idle still charges its cards: they are charged at least
\* what they visibly draw above idle, or all the power there is. And a card
\* at its idle floor is charged nothing.
BusyIsCharged ==
  /\ charge.work >= Min({charge.total, charge.node})
  /\ \A g \in Gpu : charge.raw[g] <= charge.floors.gpu[g] => charge.share[g] = 0

SplitSound == Reconciles /\ BusyIsCharged
=============================================================================
