------------------------------- MODULE Router -------------------------------
(***************************************************************************)
(* internal/route: what a router knows, and which slot a pick takes.       *)
(*                                                                         *)
(* One model; a request's slot is a local backend or a peer.  The code     *)
(* compares three moments of a peer: when a forward started, when a        *)
(* refusal came, and when the poll of its report was sent.  Only their     *)
(* order matters, so a report keeps the forwards that are older than its   *)
(* poll (before) and whether its poll is younger than every refusal        *)
(* (sentAfter).  unaware is history: the requests the peer refused since   *)
(* it built the report.                                                    *)
(***************************************************************************)
EXTENDS Integers, Sequences, FiniteSets

CONSTANTS
    Requests, Backends, Peers, Self,
    Slots,          \* [Backends \cup Peers -> Nat]
    Host,           \* [Requests -> {"any", Self} \cup Peers]: the pin
    Prefer,         \* [Requests -> sequences of hosts]
    Images,         \* the requests that carry an image
    Sessions,       \* the requests that carry a session key
    Forwarded,      \* the requests another node forwarded to this one
    LocalImages,    \* what this node says of reading images
    Performance     \* routing.performance

\* Why a pick gives no slot.
NoSlot == {"modelNotFound", "hostNotServing", "noImages", "noFreeSlot"}

ASSUME RouterAssumption ==
    /\ IsFiniteSet(Requests) /\ IsFiniteSet(Backends) /\ IsFiniteSet(Peers)
    /\ Slots \in [Backends \cup Peers -> Nat \ {0}]
    /\ Self \notin Peers /\ "any" \notin Peers /\ Backends \cap Peers = {}
    /\ (NoSlot \cup {"none"}) \cap (Backends \cup Peers) = {}
    /\ Images \cup Sessions \cup Forwarded \subseteq Requests
    /\ LocalImages \in {"yes", "unknown", "no"} /\ Performance \in BOOLEAN

VARIABLES
    localOK,    \* the model is configured here
    admitting,  \* and admits requests
    healthy,    \* the healthy backends
    inFlight,   \* requests in flight on each backend
    report,     \* the last accepted report of each peer
    lease       \* the slot each request holds

routerVars == <<localOK, admitting, healthy, inFlight, report, lease>>

NoReport == [lists |-> FALSE]
Targets == Backends \cup Peers

\* A peer listed in the reports with a fresh report and a healthy backend.
Lists(reps, p) == reps[p].lists
Serves(reps, p) == reps[p].lists /\ reps[p].fresh /\ reps[p].up

PinAllows(r, host) == Host[r] \in {"any", host}

-----------------------------------------------------------------------------
(* images.go: the class of hosts that a request with an image may use.     *)

ImageAnswers(r, reps) ==
    {LocalImages : x \in {y \in {Self} : localOK /\ healthy # {} /\ PinAllows(r, y)}}
    \cup {reps[p].images : p \in {q \in Peers : Serves(reps, q) /\ PinAllows(r, q)}}

ImageClass(r, reps) ==
    LET said == ImageAnswers(r, reps)
    IN  IF r \notin Images \ Forwarded THEN "any"
        ELSE IF "yes" \in said THEN "yes"
        ELSE IF "unknown" \in said \/ said = {} THEN "unknown"
        ELSE "noImages"

ClassAllows(class, answer) == class \in {"any", answer}

-----------------------------------------------------------------------------
(* router.go: the free slots a request may take.                           *)

LocalFree(b) == Slots[b] - inFlight[b]

LocalCandidates(r, exclude, reps) ==
    {b \in healthy \ exclude :
        /\ localOK /\ admitting /\ PinAllows(r, Self)
        /\ ClassAllows(ImageClass(r, reps), LocalImages)
        /\ LocalFree(b) > 0}

\* Forwards in flight that the report does not certainly count.
ReservedLocked(reps, p) == {r \in Requests : lease[r] = p /\ r \notin reps[p].before}

PeerFree(reps, p) == Slots[p] - reps[p].busy - Cardinality(ReservedLocked(reps, p))

PeerCandidates(r, exclude, reps) ==
    {p \in Peers \ exclude :
        /\ r \notin Forwarded /\ Serves(reps, p) /\ PinAllows(r, p)
        /\ ClassAllows(ImageClass(r, reps), reps[p].images)
        /\ reps[p].sentAfter
        /\ PeerFree(reps, p) > 0}

\* The most free, of the free slots of each candidate; round-robin and the
\* round trip time break ties.
MostFree(free) == {t \in DOMAIN free : \A u \in DOMAIN free : free[u] <= free[t]}

\* pickLocalLocked: a session keeps the backend its key ranks first, which
\* may be any of them.
LocalPicks(r, local) == IF r \in Sessions THEN local ELSE MostFree([b \in local |-> LocalFree(b)])

\* The candidates of the first preferred host that has one.
PreferredOf(r, local, peers) ==
    LET at(i) == IF Prefer[r][i] = Self THEN local ELSE peers \cap {Prefer[r][i]}
        hits  == {i \in 1..Len(Prefer[r]) : at(i) # {}}
    IN  IF hits = {} THEN {} ELSE at(CHOOSE i \in hits : \A j \in hits : i <= j)

\* The slots a pick may take.  Scores, sessions and warm caches choose a host
\* by measurements that are not modelled: any host with room.
FreeSlots(r, exclude, reps) ==
    LET local == LocalCandidates(r, exclude, reps)
        peers == PeerCandidates(r, exclude, reps)
        liked == PreferredOf(r, LocalPicks(r, local), peers)
        open  == Host[r] = "any" /\ r \notin Forwarded
    IN  IF open /\ liked # {} THEN liked
        ELSE IF open /\ Performance THEN LocalPicks(r, local) \cup peers
        ELSE IF local # {} THEN LocalPicks(r, local)
        ELSE MostFree([p \in peers |-> PeerFree(reps, p)])

\* pickWithReportsLocked: a slot, or the reason there is none.
Pick(r, exclude, reps) ==
    LET listed  == IF r \in Forwarded THEN {} ELSE {p \in Peers : Lists(reps, p)}
        slots == FreeSlots(r, exclude, reps)
    IN  IF ~localOK /\ listed = {} THEN {"modelNotFound"}
        ELSE IF (Host[r] = Self /\ ~localOK) \/ (Host[r] \in Peers \ listed)
        THEN {"hostNotServing"}
        ELSE IF ImageClass(r, reps) = "noImages" THEN {"noImages"}
        ELSE IF slots = {} THEN {"noFreeSlot"} ELSE slots

\* The lease of target t: a local slot is counted, a peer's is reserved.
Take(r, t) ==
    /\ lease' = [lease EXCEPT ![r] = t]
    /\ inFlight' = IF t \in Backends THEN [inFlight EXCEPT ![t] = @ + 1] ELSE inFlight
=============================================================================
