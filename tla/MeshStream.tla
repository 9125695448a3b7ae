----------------------------- MODULE MeshStream -----------------------------
(***************************************************************************)
(* What a dashboard shows as running.  Every node keeps a ring of activity *)
(* events (internal/activity/activity.go) and streams it with a replay     *)
(* first (handleActivityStream, internal/node/server.go).  The node a      *)
(* dashboard is connected to fans in its own log and one follower per      *)
(* member, and fans out to its viewers (internal/node/meshstream.go).      *)
(*                                                                         *)
(* A viewer shows a request whose start it got and whose done it did not.  *)
(* Two logs stand for the fleet: this node's, "self", and one member's,    *)
(* "peer".  AgeEvents stands for ReplayWindow passing.                     *)
(***************************************************************************)
EXTENDS Naturals, Sequences, SequencesExt, FiniteSets

CONSTANTS
    Viewers,
    Requests,           \* of each of the two nodes
    MaxStarts,          \* bound: requests of the two together
    maxEvents,          \* a log's ring
    subBuffer,          \* a subscription's channel
    viewerBuffer,
    mirrorCap,
    MaxFollowers,       \* bound: followers started for the member
    MaxBreaks,          \* bound: evictions, broken connections, viewers leaving
    MaxAges,            \* bound: replay windows that pass
    MaxSnapshots        \* bound: changes of the cluster

Nodes == {"self", "peer"}
NoFollower == 0
Followers == 1..MaxFollowers

VARIABLES
    request,            \* node -> request -> "new" | "running" | "over"
    ring,               \* node -> the events of its log, oldest first
    hub,                \* TRUE while the hub runs
    localSub,           \* the hub's subscription to the local log
    alive, addr,        \* the member, as this node's member list has it
    follower,           \* id -> one follow goroutine with its stream
    followed,           \* memberFollowers.running: id of the member's follower
    nextFollower,
    mirror,             \* meshHub.mirrors of the member
    viewer,
    cluster, pushed,    \* the cluster's state; the last snapshot pushed
    breaks, ages,
    skipped             \* history: events a full channel or a full ring cost

streamVars == <<request, ring, hub, localSub, alive, addr, follower, followed, nextFollower, mirror,
                viewer, cluster, pushed, breaks, ages, skipped>>

Event(n, r, kind) == [node |-> n, rid |-> r, kind |-> kind]
Stamped(e) == [ev |-> e, old |-> FALSE]
NoSub == [st |-> "none", q |-> <<>>]
NoStream == [st |-> "new", addr |-> 0, cancelled |-> FALSE, replay |-> <<>>, q |-> <<>>]
NoMirror == [owner |-> NoFollower, events |-> <<>>]
Away == [st |-> "away", frames |-> <<>>, got |-> {}, shown |-> 0]

StreamInit ==
    /\ request = [n \in Nodes |-> [r \in Requests |-> "new"]]
    /\ ring = [n \in Nodes |-> <<>>]
    /\ hub = FALSE /\ localSub = NoSub
    /\ alive = TRUE /\ addr = 1
    /\ follower = [f \in Followers |-> NoStream] /\ followed = NoFollower /\ nextFollower = 1
    /\ mirror = NoMirror
    /\ viewer = [v \in Viewers |-> Away]
    /\ cluster = 1 /\ pushed = 0
    /\ breaks = 0 /\ ages = 0
    /\ skipped = {}

(***************************************************************************)
(* The activity log.                                                       *)
(***************************************************************************)
\* The replay rule: the window's events, and older ones of requests without a
\* terminal event.
Ended(events) == {e.ev.rid : e \in {x \in ToSet(events) : x.ev.kind = "done"}}
Replayable(events) == SelectSeq(events, LAMBDA e : ~e.old \/ e.ev.rid \notin Ended(events))
EventsOf(events) == [i \in DOMAIN events |-> events[i].ev]
Backlog(n) == EventsOf(Replayable(ring[n]))

NewestOf(s, n) == IF Len(s) <= n THEN s ELSE SubSeq(s, Len(s) - n + 1, Len(s))

\* emit stores the event and hands it to the subscribers, skipping full ones.
Offer(q, e) == IF Len(q) < subBuffer THEN Append(q, e) ELSE q
Subscribed(f) == follower[f].st \in {"subscribed", "on"}
Overwritten(n) == IF Len(ring[n]) = maxEvents THEN {Head(ring[n]).ev} ELSE {}
Emit(n, e) ==
    /\ ring' = [ring EXCEPT ![n] = NewestOf(Append(@, Stamped(e)), maxEvents)]
    /\ IF n = "self"
       THEN /\ localSub' = IF localSub.st = "on" THEN [localSub EXCEPT !.q = Offer(@, e)] ELSE localSub
            /\ UNCHANGED follower
            /\ skipped' = skipped \cup Overwritten(n)
                             \cup (IF localSub.st = "on" /\ Len(localSub.q) = subBuffer THEN {e} ELSE {})
       ELSE /\ follower' = [f \in Followers |-> IF Subscribed(f) THEN [follower[f] EXCEPT !.q = Offer(@, e)]
                                                ELSE follower[f]]
            /\ UNCHANGED localSub
            /\ skipped' = skipped \cup Overwritten(n)
                             \cup (IF \E f \in Followers : Subscribed(f) /\ Len(follower[f].q) = subBuffer
                                   THEN {e} ELSE {})
RequestStarts(n, r) ==
    /\ request[n][r] = "new"
    /\ Cardinality({s \in Nodes \X Requests : request[s[1]][s[2]] # "new"}) < MaxStarts
    /\ request' = [request EXCEPT ![n][r] = "running"]
    /\ Emit(n, Event(n, r, "start"))
    /\ UNCHANGED <<hub, alive, addr, followed, nextFollower, mirror, viewer, cluster, pushed, breaks, ages>>
RequestEnds(n, r) ==
    /\ request[n][r] = "running"
    /\ request' = [request EXCEPT ![n][r] = "over"]
    /\ Emit(n, Event(n, r, "done"))
    /\ UNCHANGED <<hub, alive, addr, followed, nextFollower, mirror, viewer, cluster, pushed, breaks, ages>>

\* ReplayWindow passes.  The hub's own loop answers an eviction in far less.
Older(events) == [i \in DOMAIN events |-> [events[i] EXCEPT !.old = TRUE]]
AgeEvents ==
    /\ ages < MaxAges
    /\ localSub.st # "closed"
    /\ ages' = ages + 1
    /\ ring' = [n \in Nodes |-> Older(ring[n])]
    /\ mirror' = [mirror EXCEPT !.events = Older(@)]
    /\ UNCHANGED <<request, hub, localSub, alive, addr, follower, followed, nextFollower, viewer, cluster, pushed, breaks, skipped>>

\* Subscribe at the limit evicts an arbitrary subscriber: its channel closes,
\* and its reader still gets what is in it.
EvictLocal ==
    /\ breaks < MaxBreaks /\ localSub.st = "on"
    /\ localSub' = [localSub EXCEPT !.st = "closed"]
    /\ breaks' = breaks + 1
    /\ UNCHANGED <<request, ring, hub, alive, addr, follower, followed, nextFollower, mirror, viewer, cluster, pushed, ages, skipped>>
EvictFollower(f) ==
    /\ breaks < MaxBreaks /\ follower[f].st = "on"
    /\ follower' = [follower EXCEPT ![f].st = "closed"]
    /\ breaks' = breaks + 1
    /\ UNCHANGED <<request, ring, hub, localSub, alive, addr, followed, nextFollower, mirror, viewer, cluster, pushed, ages, skipped>>

(***************************************************************************)
(* The hub.                                                                *)
(***************************************************************************)
\* broadcast queues a frame on every viewer, and drops those that are full.
Connected(v) == viewer[v].st = "on"
Broadcast(fs) ==
    viewer' = [v \in Viewers |->
        IF ~Connected(v) THEN viewer[v]
        ELSE IF Len(viewer[v].frames) + Len(fs) <= viewerBuffer
        THEN [viewer[v] EXCEPT !.frames = @ \o fs]
        ELSE [viewer[v] EXCEPT !.frames = @ \o SubSeq(fs, 1, viewerBuffer - Len(@)), !.st = "dropped"]]
Activity(e) == [event |-> "activity", ev |-> e, snap |-> 0]
Snapshot(n) == [event |-> "cluster", ev |-> Event("self", 0, "none"), snap |-> n]
ActivityAll(es) == [i \in DOMAIN es |-> Activity(es[i])]

\* joinHub: the first viewer starts the hub, which subscribes to the local log
\* before the viewer's replay is read; add registers and replays in one hold
\* of the hub's lock.
Initial == ToSet(Backlog("self")) \cup
           (IF mirror.owner = NoFollower THEN {} ELSE ToSet(EventsOf(Replayable(mirror.events))))
JoinHub(v) ==
    /\ viewer[v].st = "away"
    /\ hub' = TRUE
    /\ localSub' = IF hub THEN localSub ELSE [st |-> "on", q |-> <<>>]
    /\ viewer' = [viewer EXCEPT ![v] = [st |-> "on", frames |-> <<>>, got |-> Initial, shown |-> pushed]]
    /\ UNCHANGED <<request, ring, alive, addr, follower, followed, nextFollower, mirror, cluster, pushed, breaks, ages, skipped>>

\* leaveHub, of a viewer that went away or was dropped: the last one stops the
\* hub, its loops and its followers.  A viewer dropped by a hub that has since
\* stopped leaves that hub, not the one that replaced it.
StopHub(v) ==
    /\ hub' = FALSE /\ localSub' = NoSub /\ followed' = NoFollower
    /\ follower' = [f \in Followers |->
           IF follower[f].st = "new" THEN follower[f] ELSE [NoStream EXCEPT !.st = "gone"]]
    /\ mirror' = NoMirror /\ pushed' = 0
    /\ viewer' = [w \in Viewers |-> IF w = v THEN Away
                      ELSE IF viewer[w].st = "dropped" THEN [Away EXCEPT !.st = "orphan"] ELSE viewer[w]]
LeaveHub(v) ==
    IF \E w \in Viewers \ {v} : Connected(w)
    THEN viewer' = [viewer EXCEPT ![v] = Away] /\ UNCHANGED <<hub, localSub, follower, followed, mirror, pushed>>
    ELSE StopHub(v)
LeaveStream(v) ==
    /\ viewer[v].st # "away"
    /\ viewer[v].st = "on" => breaks < MaxBreaks
    /\ breaks' = IF viewer[v].st = "on" THEN breaks + 1 ELSE breaks
    /\ IF viewer[v].st = "orphan"
       THEN viewer' = [viewer EXCEPT ![v] = Away] /\ UNCHANGED <<hub, localSub, follower, followed, mirror, pushed>>
       ELSE LeaveHub(v)
    /\ UNCHANGED <<request, ring, alive, addr, nextFollower, cluster, ages, skipped>>

\* The viewer's handler writes one frame.
Write(v) ==
    /\ Connected(v) /\ viewer[v].frames # <<>>
    /\ LET f == Head(viewer[v].frames) IN
       viewer' = [viewer EXCEPT ![v].frames = Tail(@),
                      ![v].got = IF f.event = "activity" THEN @ \cup {f.ev} ELSE @,
                      ![v].shown = IF f.event = "cluster" THEN f.snap ELSE @]
    /\ UNCHANGED <<request, ring, hub, localSub, alive, addr, follower, followed, nextFollower, mirror, cluster, pushed, breaks, ages, skipped>>

\* localLoop fans out one event, or, evicted, subscribes again and replays.
LocalEvent ==
    /\ hub /\ localSub.q # <<>>
    /\ Broadcast(<<Activity(Head(localSub.q))>>)
    /\ localSub' = [localSub EXCEPT !.q = Tail(@)]
    /\ UNCHANGED <<request, ring, hub, alive, addr, follower, followed, nextFollower, mirror, cluster, pushed, breaks, ages, skipped>>
ResubscribeOnly ==
    /\ hub /\ localSub.st = "closed" /\ localSub.q = <<>>
    /\ localSub' = [st |-> "on", q |-> <<>>]
    /\ UNCHANGED <<request, ring, hub, alive, addr, follower, followed, nextFollower, mirror, viewer, cluster, pushed, breaks, ages, skipped>>
Resubscribe ==
    /\ hub /\ localSub.st = "closed" /\ localSub.q = <<>>
    /\ localSub' = [st |-> "on", q |-> <<>>]
    /\ Broadcast(ActivityAll(Backlog("self")))
    /\ UNCHANGED <<request, ring, hub, alive, addr, follower, followed, nextFollower, mirror, cluster, pushed, breaks, ages, skipped>>

\* One round of snapshotLoop: stop a follower whose member is gone or moved,
\* start the one that is wanted, push the snapshot if it changed.
WantedFollowers == alive /\ (followed = NoFollower \/ follower[followed].addr # addr)
StreamTick ==
    /\ hub
    /\ LET stops == followed # NoFollower /\ (~alive \/ follower[followed].addr # addr)
           starts == WantedFollowers /\ nextFollower <= MaxFollowers
       IN  /\ follower' = [f \in Followers |->
                  CASE stops /\ f = followed -> [follower[f] EXCEPT !.cancelled = TRUE]
                    [] starts /\ f = nextFollower -> [NoStream EXCEPT !.st = "idle", !.addr = addr]
                    [] OTHER -> follower[f]]
           /\ followed' = IF starts THEN nextFollower ELSE IF stops THEN NoFollower ELSE followed
           /\ nextFollower' = IF starts THEN nextFollower + 1 ELSE nextFollower
    /\ pushed' = cluster
    /\ IF cluster = pushed THEN UNCHANGED viewer ELSE Broadcast(<<Snapshot(cluster)>>)
    /\ UNCHANGED <<request, ring, hub, localSub, alive, addr, mirror, cluster, breaks, ages, skipped>>

ClusterChanges ==
    /\ cluster < MaxSnapshots
    /\ cluster' = cluster + 1
    /\ UNCHANGED <<request, ring, hub, localSub, alive, addr, follower, followed, nextFollower, mirror, viewer, pushed, breaks, ages, skipped>>
MemberChanges ==
    /\ breaks < MaxBreaks
    /\ \/ alive' = ~alive /\ UNCHANGED addr
       \/ addr' = 3 - addr /\ UNCHANGED alive
    /\ breaks' = breaks + 1
    /\ UNCHANGED <<request, ring, hub, localSub, follower, followed, nextFollower, mirror, viewer, cluster, pushed, ages, skipped>>

(***************************************************************************)
(* A follower: streamOnce in a loop, until it is cancelled.                *)
(***************************************************************************)
\* The member's handler subscribes; its answer starts a fresh mirror.
Connect(f) ==
    /\ hub /\ follower[f].st = "idle" /\ ~follower[f].cancelled
    /\ follower' = [follower EXCEPT ![f].st = "subscribed", ![f].q = <<>>]
    /\ UNCHANGED <<request, ring, hub, localSub, alive, addr, followed, nextFollower, mirror, viewer, cluster, pushed, breaks, ages, skipped>>
\* The handler then reads its backlog, which goes out before the feed.
Accepted(f) ==
    /\ hub /\ follower[f].st = "subscribed"
    /\ follower' = [follower EXCEPT ![f].st = "on", ![f].replay = Backlog("peer")]
    /\ mirror' = [owner |-> f, events |-> <<>>]
    /\ UNCHANGED <<request, ring, hub, localSub, alive, addr, followed, nextFollower, viewer, cluster, pushed, breaks, ages, skipped>>

\* memberMirror.add keeps mirrorCap events, after the replay rule.
Unread(f) == follower[f].replay \o follower[f].q
MirrorAdd(events, e) ==
    LET all == Append(events, Stamped(e)) IN
    IF Len(all) <= mirrorCap THEN all ELSE NewestOf(Replayable(all), mirrorCap)
MemberEvent(f) ==
    /\ hub /\ follower[f].st \in {"on", "closed"} /\ Unread(f) # <<>>
    /\ LET e == Head(Unread(f)) IN
       /\ Broadcast(<<Activity(e)>>)
       /\ mirror' = IF mirror.owner = f THEN [mirror EXCEPT !.events = MirrorAdd(@, e)] ELSE mirror
    /\ follower' = IF follower[f].replay # <<>> THEN [follower EXCEPT ![f].replay = Tail(@)]
                   ELSE [follower EXCEPT ![f].q = Tail(@)]
    /\ UNCHANGED <<request, ring, hub, localSub, alive, addr, followed, nextFollower, cluster, pushed, breaks, ages, skipped>>

\* The connection breaks, with what was on it.
Break(f) ==
    /\ breaks < MaxBreaks /\ Subscribed(f)
    /\ follower' = [follower EXCEPT ![f].st = "closed", ![f].replay = <<>>, ![f].q = <<>>]
    /\ breaks' = breaks + 1
    /\ UNCHANGED <<request, ring, hub, localSub, alive, addr, followed, nextFollower, mirror, viewer, cluster, pushed, ages, skipped>>
\* The stream ended, or its context did: drop the mirror if it is still this
\* follower's, then end or wait to reconnect.
Disconnected(f) ==
    /\ hub /\ \/ follower[f].st = "closed" /\ Unread(f) = <<>>
              \/ follower[f].cancelled /\ follower[f].st \in {"idle", "subscribed", "on", "closed"}
    /\ mirror' = IF mirror.owner = f THEN NoMirror ELSE mirror
    /\ follower' = [follower EXCEPT ![f].st = IF follower[f].cancelled THEN "gone" ELSE "idle",
                                       ![f].replay = <<>>, ![f].q = <<>>]
    /\ UNCHANGED <<request, ring, hub, localSub, alive, addr, followed, nextFollower, viewer, cluster, pushed, breaks, ages, skipped>>

StreamNext ==
    \/ \E n \in Nodes, r \in Requests : RequestStarts(n, r) \/ RequestEnds(n, r)
    \/ AgeEvents \/ EvictLocal \/ ClusterChanges \/ MemberChanges
    \/ \E v \in Viewers : JoinHub(v) \/ LeaveStream(v) \/ Write(v)
    \/ LocalEvent \/ Resubscribe \/ StreamTick
    \/ \E f \in Followers : EvictFollower(f) \/ Connect(f) \/ Accepted(f) \/ MemberEvent(f)
                               \/ Break(f) \/ Disconnected(f)

StreamSpec == StreamInit /\ [][StreamNext]_streamVars

StreamTypeOK ==
    /\ \A n \in Nodes : Len(ring[n]) <= maxEvents
    /\ \A v \in Viewers : viewer[v].st \in {"away", "on", "dropped", "orphan"} /\ Len(viewer[v].frames) <= viewerBuffer
    /\ Len(mirror.events) <= mirrorCap
    /\ followed \in 0..MaxFollowers /\ nextFollower \in 1..MaxFollowers + 1

\* Everything a connected viewer has or will be handed from its own channel.
Frames(v) == {f \in ToSet(viewer[v].frames) : f.event = "activity"}
Comes(v) == viewer[v].got \cup {f.ev : f \in Frames(v)}

\* A local request that is over does not stay in a connected viewer's view:
\* its done is there, on its way, or covered by the replay an eviction causes.
LocalRowsEnd ==
    \A v \in Viewers, r \in Requests :
        Connected(v) /\ request["self"][r] = "over" /\ Event("self", r, "start") \in Comes(v) =>
            LET d == Event("self", r, "done") IN
            d \in Comes(v) \cup ToSet(localSub.q) \cup skipped \/ localSub.st = "closed"

\* A member's replay never shows a request whose done fell in a gap: the
\* mirror is rebuilt when the member is followed again.
NoGhostReplay ==
    mirror.owner # NoFollower =>
        \A r \in Requests :
            request["peer"][r] = "over" /\ Event("peer", r, "start") \in {e.ev : e \in ToSet(mirror.events)} =>
                \/ Event("peer", r, "done") \in {e.ev : e \in ToSet(mirror.events)} \cup ToSet(Unread(mirror.owner)) \cup skipped
                \/ follower[mirror.owner].st = "closed"

\* A connected viewer's last snapshot, shown or queued, is the one pushed.
SnapshotFrames(v) == SelectSeq(viewer[v].frames, LAMBDA f : f.event = "cluster")
SnapshotCurrent ==
    \A v \in Viewers : Connected(v) =>
        pushed = IF SnapshotFrames(v) = <<>> THEN viewer[v].shown ELSE Last(SnapshotFrames(v)).snap

\* The hub, with its followers, runs while a viewer is connected and stops
\* with the last one.
HubWatched ==
    /\ (\E v \in Viewers : Connected(v)) => hub
    /\ hub => \E v \in Viewers : viewer[v].st \in {"on", "dropped"}
    /\ ~hub => mirror = NoMirror /\ \A f \in Followers : follower[f].st \in {"new", "gone"}

StreamSafe == StreamTypeOK /\ LocalRowsEnd /\ NoGhostReplay /\ SnapshotCurrent /\ HubWatched

=============================================================================
