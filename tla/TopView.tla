------------------------------ MODULE TopView ------------------------------
\* `viiwork top` (internal/top): the requests in flight, rebuilt from the events
\* and the cluster snapshots of one entry node's mesh stream. The entry node
\* marks every event of a member with the node_id it last read in that member's
\* status (memberFollowers.nodeID), so an event and its process are matched
\* through a value that is stale or missing while the status is.
\*
\* One member; its processes are numbered and count their requests from 1.
\* "No id" is 0, the empty node_id. A stream is followed by one viewer.
EXTENDS Naturals, Sequences, FiniteSets, SequencesExt

CONSTANTS MaxProcess, \* processes of the member
          MaxRequest, \* request ids per process
          MaxUptime,  \* uptimes told apart
          ViewerBuffer \* frames a viewer may fall behind

VARIABLES
  member,   \* the member: its process (0: none), uptime, event log
  gossip,   \* the entry node lists the member alive
  status,   \* the member's last status as the entry node keeps it, or NoStatus
  tagged,   \* the node_id the followers put on the member's events
  mirror,   \* what the entry node's follower received, as marked; or NotFollowed
  pushed,   \* the last snapshot pushed
  wire,     \* frames on their way to the viewer
  topView,  \* the viewer: connected, flights, uptime seen, snapshot applied
  marks     \* of every request of this process: the ids its end was told under

topVars == <<member, gossip, status, tagged, mirror, pushed, wire, topView, marks>>

NoStatus == [proc |-> 0, up |-> 0]
NotFollowed == <<[rid |-> 0, ended |-> TRUE, id |-> 0]>>
NoSnapshot == [alive |-> FALSE, st |-> NoStatus]
Lost == [open |-> FALSE, flights |-> {}, up |-> 0, snap |-> NoSnapshot]

EventFrame(e) == [kind |-> "event", e |-> e]
SnapFrame(s) == [kind |-> "snapshot", s |-> s]
Unmarked == [r \in 1..MaxRequest |-> {}]

Started == {e.rid : e \in Range(member.log)}
Open == {r \in Started : ~\E e \in Range(member.log) : e.rid = r /\ e.ended}

TopInit ==
  /\ member = [proc |-> 1, up |-> 0, log |-> <<>>] /\ gossip = TRUE
  /\ status = NoStatus /\ tagged = 0 /\ mirror = NotFollowed
  /\ pushed = NoSnapshot /\ wire = <<>> /\ topView = Lost /\ marks = Unmarked

Frames(es) == [i \in DOMAIN es |-> EventFrame(es[i])]

\* Frames are queued for a connected viewer; one that falls behind by more than
\* the buffer is dropped and gets no more.
Cut == [kind |-> "cut"]
Sent(fs) ==
  IF ~topView.open \/ Cut \in Range(wire) THEN wire
  ELSE IF Len(wire) + Len(fs) <= ViewerBuffer THEN wire \o fs
  ELSE Append(wire, Cut)

\* An event of the member: logged, and when the follower is connected received,
\* marked with the id at hand, mirrored and passed on.
LogEvent(r, ended) ==
  LET e == [rid |-> r, ended |-> ended, id |-> tagged]
  IN /\ member' = [member EXCEPT !.log = Append(@, [rid |-> r, ended |-> ended])]
     /\ IF mirror = NotFollowed
        THEN UNCHANGED <<mirror, wire, marks>>
        ELSE /\ mirror' = Append(mirror, e)
             /\ wire' = Sent(Frames(<<e>>))
             /\ marks' = [marks EXCEPT ![r] = @ \cup {x \in {tagged} : ended}]

RequestStarts ==
  /\ member.proc # 0
  /\ \E r \in 1..MaxRequest :
       /\ r = Cardinality(Started) + 1
       /\ LogEvent(r, FALSE)
  /\ UNCHANGED <<gossip, status, tagged, pushed, topView>>

RequestEnds ==
  /\ member.proc # 0
  /\ \E r \in Open : LogEvent(r, TRUE)
  /\ UNCHANGED <<gossip, status, tagged, pushed, topView>>

\* The follower's stream is accepted: a fresh mirror, and the member replays its
\* log, every event marked with the id known now.
FollowerConnects ==
  /\ member.proc # 0 /\ gossip /\ mirror = NotFollowed
  /\ LET es == [i \in DOMAIN member.log |->
                  [rid |-> member.log[i].rid, ended |-> member.log[i].ended, id |-> tagged]]
     IN /\ mirror' = es /\ wire' = Sent(Frames(es))
  /\ marks' = [r \in 1..MaxRequest |->
                 IF r \in Started \ Open THEN marks[r] \cup {tagged} ELSE marks[r]]
  /\ UNCHANGED <<member, gossip, status, tagged, pushed, topView>>

FollowerDrops ==
  /\ mirror # NotFollowed /\ mirror' = NotFollowed
  /\ UNCHANGED <<member, gossip, status, tagged, pushed, wire, topView, marks>>

Crash ==
  /\ member.proc # 0
  /\ member' = [proc |-> 0, up |-> member.proc, log |-> <<>>]
  /\ mirror' = NotFollowed /\ marks' = Unmarked
  /\ UNCHANGED <<gossip, status, tagged, pushed, wire, topView>>

\* While the member is down its record keeps the number of its last process.
Restart ==
  /\ member.proc = 0 /\ member.up < MaxProcess
  /\ member' = [proc |-> member.up + 1, up |-> 0, log |-> <<>>] /\ gossip' = TRUE
  /\ UNCHANGED <<status, tagged, mirror, pushed, wire, topView, marks>>

GossipDead ==
  /\ member.proc = 0 /\ gossip /\ gossip' = FALSE
  /\ UNCHANGED <<member, status, tagged, mirror, pushed, wire, topView, marks>>

Uptime ==
  /\ member.proc # 0 /\ member.up < MaxUptime
  /\ member' = [member EXCEPT !.up = @ + 1]
  /\ UNCHANGED <<gossip, status, tagged, mirror, pushed, wire, topView, marks>>

\* The capacity poller reads the member's status, or has not for too long.
StatusRead ==
  /\ member.proc # 0 /\ status' = [proc |-> member.proc, up |-> member.up]
  /\ status' # status
  /\ UNCHANGED <<member, gossip, tagged, mirror, pushed, wire, topView, marks>>

StatusStale ==
  /\ status # NoStatus /\ status' = NoStatus
  /\ UNCHANGED <<member, gossip, tagged, mirror, pushed, wire, topView, marks>>

\* The member's line of the cluster view: its status only while it is alive.
BuildCluster == [alive |-> gossip, st |-> IF gossip THEN status ELSE NoStatus]

\* A tick of the entry node: the ids the followers use are the snapshot's, a
\* member that is not alive is no longer followed, and the snapshot is pushed
\* when it differs from the last.
SnapshotTick ==
  /\ tagged' = BuildCluster.st.proc
  /\ mirror' = IF gossip THEN mirror ELSE NotFollowed
  /\ pushed' = BuildCluster
  /\ wire' = IF pushed' = pushed THEN wire ELSE Sent(<<SnapFrame(pushed')>>)
  /\ <<tagged', pushed', mirror'>> # <<tagged, pushed, mirror>>
  /\ UNCHANGED <<member, gossip, status, topView, marks>>

\* The viewer connects: the mirror's replay, then the last snapshot, and from
\* then on every frame.
ViewerConnects ==
  /\ ~topView.open /\ topView' = [topView EXCEPT !.open = TRUE]
  /\ wire' = Frames(IF mirror = NotFollowed THEN <<>> ELSE mirror)
             \o (IF pushed = NoSnapshot THEN <<>> ELSE <<SnapFrame(pushed)>>)
  /\ UNCHANGED <<member, gossip, status, tagged, mirror, pushed, marks>>

\* The stream ends, after a drop at the latest when its frames are read, or says
\* nothing for the idle time: the viewer forgets the requests in flight and
\* tries again after a wait.
ViewerLost ==
  /\ topView.open /\ wire' = <<>>
  /\ topView' = [topView EXCEPT !.open = FALSE, !.flights = {}, !.snap = NoSnapshot]
  /\ UNCHANGED <<member, gossip, status, tagged, mirror, pushed, marks>>

\* State.ApplyEvent: a start adds the request, an end removes it, both under the
\* id the event carries.
ApplyEvent(e) ==
  topView' = [topView EXCEPT !.flights =
    IF e.ended THEN @ \ {[id |-> e.id, rid |-> e.rid]}
    ELSE @ \cup {[id |-> e.id, rid |-> e.rid]}]

\* State.Apply: the requests go of a member that is not alive, whose uptime went
\* back, or whose process is another one.
ReplacedIgnored(f, s) == ~s.alive \/ (s.st.proc # 0 /\ s.st.up < topView.up)
Replaced(f, s) ==
  \/ ~s.alive
  \/ s.st.proc # 0 /\ s.st.up < topView.up
  \/ s.st.proc # 0 /\ f.id # 0 /\ s.st.proc # f.id

Apply(s) ==
  topView' = [topView EXCEPT !.flights = {f \in @ : ~Replaced(f, s)},
                       !.up = IF s.st.proc # 0 THEN s.st.up ELSE @,
                       !.snap = s]

Deliver ==
  /\ topView.open /\ wire # <<>>
  /\ wire' = Tail(wire)
  /\ \/ Head(wire).kind = "event" /\ ApplyEvent(Head(wire).e)
     \/ Head(wire).kind = "snapshot" /\ Apply(Head(wire).s)
  /\ UNCHANGED <<member, gossip, status, tagged, mirror, pushed, marks>>

TopNext ==
  \/ RequestStarts \/ RequestEnds \/ FollowerConnects \/ FollowerDrops
  \/ Crash \/ Restart \/ GossipDead \/ Uptime
  \/ StatusRead \/ StatusStale \/ SnapshotTick
  \/ ViewerConnects \/ ViewerLost \/ Deliver

TopSpec == TopInit /\ [][TopNext]_topVars

\* How far the view invents no work: once the viewer has seen everything the
\* entry node had to say of a member that is up and followed, a request it
\* shows under a node_id is of that process, and in flight unless its end was
\* told under other ids only.  That happens when the member's status came or
\* went between the two, and the row then stays until the viewer reconnects or
\* the member restarts; a request shown without an id can outlive its process too.
\* Reset's "never invent work" is thus what the code does after a reconnect,
\* and not while the status of a member is missing.
NoInventedWork ==
  topView.open /\ wire = <<>> /\ mirror # NotFollowed /\ topView.snap.st.proc = member.proc
  => \A f \in topView.flights :
       f.id # 0 => f.id = member.proc /\ (f.rid \in Open \/ f.id \notin marks[f.rid])
=============================================================================
