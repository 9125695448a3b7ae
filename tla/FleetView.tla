------------------------------ MODULE FleetView ------------------------------
(***************************************************************************)
(* What a node tells clients the fleet can serve: aggregateFleet, the sum  *)
(* behind /v1/fleet/capacity (internal/proxy/fleet.go), ModelEntries, the  *)
(* list behind /v1/models (internal/proxy/handler.go), and                 *)
(* discovery.Models, which joins the two.  One model "m"; "al" is an alias *)
(* of it and "gone" an alias of a model nobody serves.                     *)
(***************************************************************************)
EXTENDS Naturals, Sequences, FiniteSets, SequencesExt, FiniteSetsExt

CONSTANTS
    Peers,          \* the other members
    SlotCounts, BusyCounts, Windows,   \* the numbers a host may report
    staleAfter, MaxAge

Self == "self"
Unsaid == "unsaid"
Wanted == {"", "m", "al", "gone"}     \* the ?model= a client may ask for

VARIABLES local, reports, view    \* the inputs of one request; its answer

fleetVars == <<local, reports, view>>

Capacities == [slots : SlotCounts, busy : BusyCounts, ctx : Windows, images : {Unsaid, "yes", "no"}]
NoCapacity == [slots |-> 0, busy |-> 0, ctx |-> 0, images |-> "absent"]
Lists(c) == c # NoCapacity
NoView == [at |-> "none"]

Free(c) == IF c.busy > c.slots THEN 0 ELSE c.slots - c.busy
FreshReport(rep) == rep.age <= staleAfter

\* One host's contribution.  A host without slots keeps its own numbers and
\* says nothing of the window or of images.
NoModelYet == [slots |-> 0, busy |-> 0, free |-> 0, ctx |-> 0, seen |-> FALSE,
               yes |-> FALSE, unknown |-> FALSE, hosts |-> {}]
AddHostAnySlots(a, node, c, fresh, age) ==
    IF ~fresh THEN [a EXCEPT !.hosts = @ \cup {[node |-> node, age |-> age, stale |-> TRUE, slots |-> 0]}]
    ELSE [slots |-> a.slots + c.slots, busy |-> a.busy + c.busy, free |-> a.free + Free(c),
          ctx |-> IF ~a.seen \/ c.ctx < a.ctx THEN c.ctx ELSE a.ctx,
          seen |-> TRUE,
          yes |-> a.yes \/ c.images = "yes", unknown |-> a.unknown \/ c.images = Unsaid,
          hosts |-> a.hosts \cup {[node |-> node, age |-> age, stale |-> FALSE, slots |-> c.slots]}]
AddHost(a, node, c, fresh, age) ==
    IF ~fresh THEN [a EXCEPT !.hosts = @ \cup {[node |-> node, age |-> age, stale |-> TRUE, slots |-> 0]}]
    ELSE [slots |-> a.slots + c.slots, busy |-> a.busy + c.busy, free |-> a.free + Free(c),
          ctx |-> IF c.slots > 0 /\ (~a.seen \/ c.ctx < a.ctx) THEN c.ctx ELSE a.ctx,
          seen |-> a.seen \/ c.slots > 0,
          yes |-> a.yes \/ (c.slots > 0 /\ c.images = "yes"),
          unknown |-> a.unknown \/ (c.slots > 0 /\ c.images = Unsaid),
          hosts |-> a.hosts \cup {[node |-> node, age |-> age, stale |-> FALSE, slots |-> c.slots]}]

\* aggregateFleet: this node, then the reports in the order they are held;
\* a report from this node itself is dropped.
AggregateFleet ==
    LET here == IF Lists(local) THEN AddHost(NoModelYet, Self, local, TRUE, 0) ELSE NoModelYet
        a == FoldLeft(LAMBDA acc, rep :
                        IF rep.node = Self \/ ~Lists(rep.capacity) THEN acc
                        ELSE AddHost(acc, rep.node, rep.capacity, FreshReport(rep), rep.age),
                      here, reports)
    IN  [slots |-> a.slots, busy |-> a.busy, free |-> a.free, ctx |-> a.ctx, hosts |-> a.hosts,
         images |-> IF a.yes \/ (a.seen /\ ~a.unknown) THEN (IF a.yes THEN "yes" ELSE "no") ELSE Unsaid]

\* ModelEntries: local models, then the members' whatever the age of their
\* reports, then aliases; the first entry of a name stands.
ModelEntries ==
    LET listed == {i \in DOMAIN reports : reports[i].node # Self /\ Lists(reports[i].capacity)}
    IN  (IF Lists(local) THEN {[name |-> "m", kind |-> "local", target |-> ""]}
         ELSE IF listed # {} THEN {[name |-> "m", kind |-> "peer", target |-> ""]} ELSE {})
        \cup {[name |-> "al", kind |-> "alias", target |-> "m"],
              [name |-> "gone", kind |-> "alias", target |-> "x"]}

\* filterModel: an alias with a served target stands for it, a dead one and an
\* unknown name match nothing.
Filtered(w) == (IF w = "al" /\ AggregateFleet.hosts # {} THEN "m" ELSE w) \in {"", "m"}

\* provenance: the hosts the window is a minimum over.
Provenance(hosts) == {h \in hosts : ~h.stale /\ h.slots > 0}

\* discovery.Models: every listed name, an alias with its target's numbers.
DiscoveredModel(e) ==
    LET name == IF e.target # "" THEN e.target ELSE e.name
        fleet == AggregateFleet
        known == name = "m" /\ fleet.hosts # {}
        behind == Provenance(fleet.hosts)
    IN  [name |-> e.name, kind |-> e.kind,
         ctx |-> IF known THEN fleet.ctx ELSE 0,
         images |-> known /\ fleet.images = "yes",
         hosts |-> IF known THEN Cardinality(behind) ELSE 0,
         oldest |-> IF known /\ behind # {} THEN Max({h.age : h \in behind}) ELSE 0]

HandleFleetCapacity ==
    /\ view = NoView
    /\ view' = [at |-> "answered", fleet |-> AggregateFleet, shown |-> {w \in Wanted : Filtered(w)},
                models |-> {DiscoveredModel(e) : e \in ModelEntries}]
    /\ UNCHANGED <<local, reports>>

ReportsOf(S) == [node : S, age : 0..MaxAge, capacity : Capacities \cup {NoCapacity}]
FleetInit ==
    /\ local \in {NoCapacity} \cup {c \in Capacities : c.images = Unsaid}
    /\ reports \in {<<>>} \cup {<<r>> : r \in ReportsOf(Peers \cup {Self})}
                   \cup {<<r, q>> : r, q \in ReportsOf(Peers \cup {Self})}
    /\ \A i, j \in DOMAIN reports : reports[i].node = reports[j].node => i = j
    /\ view = NoView
FleetNext == HandleFleetCapacity
FleetSpec == FleetInit /\ [][FleetNext]_fleetVars

-----------------------------------------------------------------------------
\* The hosts the router would send to: this node and the fresh reports.
Usable == (IF Lists(local) THEN {[node |-> Self, c |-> local]} ELSE {})
          \cup {[node |-> reports[i].node, c |-> reports[i].capacity] :
                  i \in {j \in DOMAIN reports : reports[j].node # Self /\ FreshReport(reports[j])
                                                /\ Lists(reports[j].capacity)}}
Serving == {u \in Usable : u.c.slots > 0}

\* The published totals are those of the hosts the router may use, whatever
\* order the reports come in: an oversubscribed host lends nothing and takes
\* nothing away, a stale one has no numbers, a report of this node about
\* itself is not counted twice.
FleetTotals ==
    view # NoView =>
      /\ view.fleet.slots = MapThenSumSet(LAMBDA u : u.c.slots, Usable)
      /\ view.fleet.busy = MapThenSumSet(LAMBDA u : u.c.busy, Usable)
      /\ view.fleet.free = MapThenSumSet(LAMBDA u : Free(u.c), Usable)
      /\ "al" \in view.shown <=> \E e \in ModelEntries : e.name = "m"

\* A prompt sized by the advertised window fits every host it may land on, the
\* window is advertised whenever there is such a host, and images are promised
\* only when a usable host reads them and denied only when none can.
WindowHonoured ==
    view # NoView =>
      \A m \in view.models :
        LET real == m.name = "m" \/ m.name = "al" IN
        /\ real => m.hosts = Cardinality(Serving)
        /\ real /\ Serving # {} => m.ctx = Min({u.c.ctx : u \in Serving})
        /\ real /\ Serving = {} => m.ctx = 0
        /\ ~real => m.ctx = 0 /\ m.hosts = 0 /\ ~m.images
        /\ real => (m.images <=> \E u \in Serving : u.c.images = "yes")
        /\ real /\ view.fleet.images = "no" => Serving # {} /\ \A u \in Serving : u.c.images = "no"

FleetSafe == FleetTotals /\ WindowHonoured
=============================================================================
