----------------------------- MODULE PowerCost -----------------------------
(***************************************************************************)
(* The node's power reading and what is billed from it: the IPMI sampler   *)
(* (internal/power/sampler.go), the choice between it and the sum of the   *)
(* cards (internal/node/nodepower.go) and the cost tracker with its spot   *)
(* prices (internal/cost).  At the end, switching machines on and off: the *)
(* executor and the entry point of internal/node/power.go and the          *)
(* controller of internal/power/control.go.                                *)
(*                                                                         *)
(* Time is counted in units of minSamplePeriod.  A wattage is its origin;  *)
(* the hourly rate is one per unit of time.                                *)
(***************************************************************************)
EXTENDS Naturals, Sequences, FiniteSets

CONSTANTS
    Cards,
    Setups,             \* power.ipmi and the ipmitool readings that work
    DayLength,          \* units from one local midnight to the next
    PriceLength,        \* how far ahead a fetch of prices reaches
    minRefetchInterval,
    MaxTime,            \* bound: the last instant
    MaxFlips,           \* bound: times the BMC or a card stops or resumes
    Machines,
    MaxPowerRequests    \* bound: requests to switch a machine

ASSUME DayAssumption == DayLength \in Nat \ {0}

staleIntervals == 3
minSamplePeriod == 1
defaultSamplePeriod == 2
maxBilledPeriods == 2
minUpdatePeriod == 1
Never == 0              \* the zero time; the clock starts after it

VARIABLES
    wall,
    bmc, card, flips,   \* the BMC answers; each card's sample; changes so far
    sampler, sampling,  \* power.Sampler; a Sample call waits for ipmitool
    seen, reported,     \* nodePower.seen; history: cards that reported power
    tracker, update,    \* cost.Tracker; the Update call in progress
    billedFrom,         \* history: where the time billed today begins
    prices,             \* cost.SpotFetcher
    on,             \* machines that are powered, and so run their node
    hosts,          \* per node: power.control.hosts, empty when disabled
    bmcs,           \* per node: hosts with a usable power.control.bmc entry
    peerAlive,      \* per node: the members it lists as alive
    power,          \* the request being served
    requestsMade

powerVars == <<wall, bmc, card, flips, sampler, sampling, seen, reported, tracker, update, billedFrom, prices>>

Bigger(a, b) == IF a > b THEN a ELSE b
Lesser(a, b) == IF a < b THEN a ELSE b

(***************************************************************************)
(* The sampler.                                                            *)
(***************************************************************************)
\* probe adopts the first source of the list that answers with a wattage;
\* a sampler that adopts none is unavailable for good.
SourcesOf(spec) == IF spec = "auto" THEN <<"dcmi", "sdr", "sensor">>
                   ELSE IF spec = "none" THEN <<>> ELSE <<spec>>
Probe(spec, works) ==
    LET usable == {i \in DOMAIN SourcesOf(spec) : SourcesOf(spec)[i] \in works} IN
    IF usable = {} THEN "none" ELSE SourcesOf(spec)[CHOOSE i \in usable : \A j \in usable : i <= j]

PowerInit ==
    /\ wall = 1
    /\ \E s \in Setups :
           sampler = [source |-> Probe(s.spec, s.works), lastOK |-> 1, lastAttempt |-> Never, period |-> 0]
    /\ bmc = TRUE
    /\ card = [c \in Cards |-> "ok"]
    /\ flips = 0
    /\ sampling = FALSE
    /\ seen = {} /\ reported = Cards
    /\ tracker = [available |-> FALSE, today |-> 0, lastUpdate |-> Never, lastDate |-> 0,
                  lastCall |-> Never, minGap |-> 0]
    /\ update = [on |-> FALSE, now |-> 0, before |-> 0]
    /\ billedFrom = 1
    /\ prices = [until |-> 0, lastAttempt |-> Never]

TimePasses ==
    /\ wall < MaxTime
    /\ wall' = wall + 1
    /\ UNCHANGED <<bmc, card, flips, sampler, sampling, seen, reported, tracker, update, billedFrom, prices>>

BmcFlips ==
    /\ flips < MaxFlips
    /\ bmc' = ~bmc /\ flips' = flips + 1
    /\ UNCHANGED <<wall, card, sampler, sampling, seen, reported, tracker, update, billedFrom, prices>>

\* A card's sample goes stale ("absent"), comes without a wattage ("silent")
\* or is good.
CardChanges(c, to) ==
    /\ flips < MaxFlips /\ card[c] # to
    /\ card' = [card EXCEPT ![c] = to]
    /\ reported' = IF to = "ok" THEN reported \cup {c} ELSE reported
    /\ flips' = flips + 1
    /\ UNCHANGED <<wall, bmc, sampler, sampling, seen, tracker, update, billedFrom, prices>>

\* Sample, before and after the ipmitool call: the observed gap between calls
\* is the period, and only a good read moves lastOK.
SampleBegins ==
    /\ sampler.source # "none" /\ ~sampling
    /\ sampling' = TRUE
    /\ sampler' = [sampler EXCEPT !.lastAttempt = wall,
           !.period = IF sampler.lastAttempt # Never /\ wall > sampler.lastAttempt
                      THEN wall - sampler.lastAttempt ELSE @]
    /\ UNCHANGED <<wall, bmc, card, flips, seen, reported, tracker, update, billedFrom, prices>>
SampleEnds ==
    /\ sampling
    /\ sampling' = FALSE
    /\ sampler' = IF bmc THEN [sampler EXCEPT !.lastOK = wall] ELSE sampler
    /\ UNCHANGED <<wall, bmc, card, flips, seen, reported, tracker, update, billedFrom, prices>>

StaleAfter ==
    staleIntervals * Bigger(IF sampler.period = 0 THEN defaultSamplePeriod ELSE sampler.period, minSamplePeriod)
Fresh == sampler.source # "none" /\ wall - sampler.lastOK <= StaleAfter

(***************************************************************************)
(* The node's reading: IPMI while it is fresh, else the sum of the cards,  *)
(* which counts only when every card seen so far reports.                  *)
(***************************************************************************)
Reporting == {c \in Cards : card[c] = "ok"}
GpuSum == /\ Reporting # {}
          /\ \A c \in Cards : card[c] # "silent"
          /\ seen \subseteq Reporting
Available == Fresh \/ GpuSum
\* Asking for the reading updates seen unless IPMI answers it.
SeenAfter == IF Fresh THEN seen ELSE seen \cup Reporting
Watts == IF Fresh THEN "chassis" ELSE IF Reporting # {} THEN "cards" ELSE "none"

(***************************************************************************)
(* The cost tracker.                                                       *)
(***************************************************************************)
\* Update, first half: note the shortest interval between calls.
UpdateBegins ==
    /\ ~update.on /\ wall > tracker.lastCall
    /\ update' = [on |-> TRUE, now |-> wall, before |-> tracker.lastCall]
    /\ LET gap == wall - tracker.lastCall IN
       tracker' = [tracker EXCEPT !.lastCall = wall,
           !.minGap = IF tracker.lastCall # Never /\ (@ = 0 \/ gap < @) THEN gap ELSE @]
    /\ UNCHANGED <<wall, bmc, card, flips, sampler, sampling, seen, reported, billedFrom, prices>>

HasPrice(t) == t < prices.until
\* Fetch asks for today's and tomorrow's prices, at most every
\* minRefetchInterval; a failed one keeps what it had.
Fetch(ok) ==
    /\ update.on /\ ~HasPrice(update.now)
    /\ prices.lastAttempt = Never \/ wall - prices.lastAttempt >= minRefetchInterval
    /\ prices' = [until |-> IF ok THEN wall + PriceLength ELSE prices.until, lastAttempt |-> wall]
    /\ UNCHANGED <<wall, bmc, card, flips, sampler, sampling, seen, reported, tracker, update, billedFrom>>

BillableAll(elapsed) == elapsed
Billable(elapsed) == Lesser(elapsed, maxBilledPeriods * Bigger(tracker.minGap, minUpdatePeriod))
DateOf(t) == t \div DayLength + 1

\* Update, second half, without a price or a reading: nothing until the next
\* available update may be billed.
UpdateUnavailableKeepsTime ==
    /\ update.on
    /\ ~HasPrice(update.now) \/ ~Available
    /\ tracker' = [tracker EXCEPT !.available = FALSE]
    /\ update' = [update EXCEPT !.on = FALSE]
    /\ seen' = IF HasPrice(update.now) THEN SeenAfter ELSE seen
    /\ UNCHANGED <<wall, bmc, card, flips, sampler, sampling, reported, billedFrom, prices>>
UpdateUnavailable ==
    /\ update.on
    /\ ~HasPrice(update.now) \/ ~Available
    /\ tracker' = [tracker EXCEPT !.available = FALSE, !.lastUpdate = Never]
    /\ update' = [update EXCEPT !.on = FALSE]
    /\ seen' = IF HasPrice(update.now) THEN SeenAfter ELSE seen
    /\ UNCHANGED <<wall, bmc, card, flips, sampler, sampling, reported, billedFrom, prices>>

\* With both: reset at local midnight, then bill the time since the last
\* billed update, capped.
UpdateBills ==
    /\ update.on /\ HasPrice(update.now) /\ Available
    /\ LET date == DateOf(update.now)
           kept == IF tracker.lastDate \notin {0, date} THEN 0 ELSE tracker.today
           elapsed == update.now - tracker.lastUpdate
           bill == IF tracker.lastUpdate = Never \/ elapsed <= 0 THEN 0 ELSE Billable(elapsed)
       IN  /\ tracker' = [tracker EXCEPT !.available = TRUE, !.today = kept + bill,
                           !.lastUpdate = update.now, !.lastDate = date]
           /\ billedFrom' = IF tracker.lastDate = date THEN billedFrom
                            ELSE IF tracker.lastUpdate = Never THEN update.now ELSE tracker.lastUpdate
    /\ update' = [update EXCEPT !.on = FALSE]
    /\ seen' = SeenAfter
    /\ UNCHANGED <<wall, bmc, card, flips, sampler, sampling, reported, prices>>

PowerNext ==
    \/ TimePasses \/ BmcFlips
    \/ \E c \in Cards, to \in {"ok", "silent", "absent"} : CardChanges(c, to)
    \/ SampleBegins \/ SampleEnds
    \/ UpdateBegins \/ (\E ok \in BOOLEAN : Fetch(ok))
    \/ UpdateUnavailable \/ UpdateBills

PowerSpec == PowerInit /\ [][PowerNext]_powerVars

PowerTypeOK ==
    /\ wall \in 1..MaxTime
    /\ sampler.source \in {"none", "dcmi", "sdr", "sensor"} /\ sampler.lastOK <= wall
    /\ seen \subseteq reported /\ reported \subseteq Cards
    /\ tracker.lastUpdate <= tracker.lastCall /\ tracker.lastCall <= wall

\* What is billed today was measured today: no outage, stall, second update or
\* midnight makes it more than the time since the last update of the day before.
TodayWasMeasured == tracker.lastUpdate # Never => tracker.today <= tracker.lastUpdate - billedFrom

\* An update bills at most the time since the update just before it, and only
\* when that one was available: an outage is never billed.  Nor is a stall: the
\* time of two of the shortest intervals between updates is the most.
OutageNotBilled ==
    [][tracker'.today > tracker.today =>
           /\ tracker.available
           /\ tracker'.today - tracker.today <= update.now - update.before
           /\ tracker'.today - tracker.today <= maxBilledPeriods * Bigger(tracker.minGap, minUpdatePeriod)]_powerVars

(***************************************************************************)
(* Switching machines.  An entry node forwards an action to the node on    *)
(* the target host, which acts in-band; when no good answer comes back it  *)
(* acts on the host's BMC over the network.  One request is served at a    *)
(* time: two nodes that switch each other off at once both get their way.  *)
(***************************************************************************)
Actions == {"status", "on", "off", "cycle"}
NoMachine == "none"
NoPowerRequest == [st |-> "none", entry |-> NoMachine, host |-> NoMachine, action |-> "status", cmds |-> 0, ok |-> FALSE]

chassisVars == <<on, hosts, bmcs, peerAlive, power, requestsMade>>

ChassisInit ==
    /\ on = Machines
    /\ hosts \in [Machines -> SUBSET Machines]
    /\ bmcs \in [Machines -> {{}, Machines}]
    /\ peerAlive = [m \in Machines |-> Machines \ {m}]
    /\ power = NoPowerRequest
    /\ requestsMade = 0

\* The member list follows the machines with a delay.
Gossip(m, p) ==
    /\ p # m /\ m \in on
    /\ (p \in on) # (p \in peerAlive[m])
    /\ peerAlive' = [peerAlive EXCEPT ![m] = IF p \in on THEN @ \cup {p} ELSE @ \ {p}]
    /\ UNCHANGED <<on, hosts, bmcs, power, requestsMade>>

Enabled(m) == hosts[m] # {}
Allowed(m, h) == h \in hosts[m]

\* ipmitool's chassis command against machine h: what is powered afterwards.
Exec(h, action) == CASE action = "on" -> on \cup {h}
                     [] action = "off" -> on \ {h}
                     [] OTHER -> on

\* handleMeshPower: refusals, the entry's own status, a forward to the node on
\* the host, or straight to the BMC.
MeshPowerUnguarded(m, h, action) ==
    /\ power.st = "none" /\ m \in on /\ requestsMade < MaxPowerRequests
    /\ requestsMade' = requestsMade + 1
    /\ Enabled(m) /\ Allowed(m, h)
    /\ power' = [st |-> IF h = m THEN "local" ELSE IF h \in peerAlive[m] THEN "forwarded" ELSE "remote",
                 entry |-> m, host |-> h, action |-> action, cmds |-> 0, ok |-> FALSE]
    /\ UNCHANGED <<on, hosts, bmcs, peerAlive>>
MeshPower(m, h, action) ==
    /\ power.st = "none" /\ m \in on /\ requestsMade < MaxPowerRequests
    /\ requestsMade' = requestsMade + 1
    /\ power' = IF ~Enabled(m) \/ ~Allowed(m, h) \/ (h = m /\ action # "status") THEN NoPowerRequest
                ELSE [st |-> IF h = m THEN "local" ELSE IF h \in peerAlive[m] THEN "forwarded" ELSE "remote",
                      entry |-> m, host |-> h, action |-> action, cmds |-> 0, ok |-> FALSE]
    /\ UNCHANGED <<on, hosts, bmcs, peerAlive>>

\* handlePower on the target: Local acts when its own list names it.  The
\* answer may not arrive, whatever the action.
PeerPower(answered) ==
    /\ power.st = "forwarded" /\ power.host \in on /\ Allowed(power.host, power.host)
    /\ on' = Exec(power.host, power.action)
    /\ power' = [power EXCEPT !.cmds = @ + 1, !.ok = answered, !.st = IF answered THEN "done" ELSE "remote"]
    /\ UNCHANGED <<hosts, bmcs, peerAlive, requestsMade>>
\* forwardPower fails and nothing was done: nobody there, a refusal, an error.
ForwardFails ==
    /\ power.st = "forwarded"
    /\ power' = [power EXCEPT !.st = "remote"]
    /\ UNCHANGED <<on, hosts, bmcs, peerAlive, requestsMade>>
LocalPower(ok) ==
    /\ power.st = "local"
    /\ power' = [power EXCEPT !.st = "done", !.cmds = @ + 1, !.ok = ok]
    /\ on' = Exec(power.host, power.action)
    /\ UNCHANGED <<hosts, bmcs, peerAlive, requestsMade>>
\* Remote: out-of-band, when a BMC is configured; an error says nothing of
\* whether the BMC acted.
RemotePower(acts, ok) ==
    /\ power.st = "remote" /\ power.entry \in on
    /\ ok => acts
    /\ acts => Allowed(power.entry, power.host) /\ power.host \in bmcs[power.entry]
    /\ on' = IF acts THEN Exec(power.host, power.action) ELSE on
    /\ power' = [power EXCEPT !.st = "done", !.ok = ok, !.cmds = IF acts THEN @ + 1 ELSE @]
    /\ UNCHANGED <<hosts, bmcs, peerAlive, requestsMade>>
PowerAnswered ==
    /\ power.st = "done"
    /\ power' = NoPowerRequest
    /\ UNCHANGED <<on, hosts, bmcs, peerAlive, requestsMade>>

ChassisNext ==
    \/ \E m \in Machines, h \in Machines, a \in Actions : MeshPower(m, h, a)
    \/ \E m \in Machines, p \in Machines : Gossip(m, p)
    \/ ForwardFails \/ PowerAnswered
    \/ \E ok \in BOOLEAN : PeerPower(ok) \/ LocalPower(ok)
    \/ \E acts \in BOOLEAN, ok \in BOOLEAN : RemotePower(acts, ok)

ChassisSpec == ChassisInit /\ [][ChassisNext]_chassisVars

\* A request never takes down the node that has to answer it and concerns only
\* a machine that node lists.  It acts twice at most, in-band with the answer
\* lost, then out-of-band; and when it is answered with success the machine is
\* as it was asked to be, whichever of the two ways the answer came from.
PowerKeepsEntry ==
    power.st # "none" =>
        /\ power.entry \in on /\ Allowed(power.entry, power.host)
        /\ power.cmds <= 2
        /\ power.ok => power.cmds > 0
        /\ power.ok /\ power.action = "on" => power.host \in on
        /\ power.ok /\ power.action = "off" => power.host \notin on

=============================================================================
