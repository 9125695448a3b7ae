---------------------------- MODULE WarmSessions -----------------------------
(***************************************************************************)
(* Where a session's next turn goes before any score exists               *)
(* (internal/route/warm.go, pickSessionLocked in router.go): the host of   *)
(* its last turn, else that host's replica target, else the host that      *)
(* ranks first for the session, and how many sessions' last hosts the      *)
(* entry node remembers.  Hosts come, fill up and go in their own time.    *)
(***************************************************************************)
EXTENDS Naturals, Sequences, FiniteSets, SequencesExt

CONSTANTS
    EntryHost,     \* the node that routes: Self
    PeerHosts,     \* the other hosts of the model
    Session,       \* session keys
    RankOf,        \* Session -> the hosts, highest rendezvous score first (SessionRank)
    GroupsOf,      \* the possible kv_share groups of the hosts, "" for none
    SessionMemory  \* how many sessions are remembered

Hosts == {EntryHost} \cup PeerHosts

VARIABLES
    groups,    \* host -> the group it publishes for the model
    hosts,     \* host -> "gone" (stale, or no healthy backend), "full", "free"
    lastHosts, \* remembered <<session, host>>, most recent first
    routed     \* where every session's latest turn that entered here went, latest first

warmVars == <<groups, hosts, lastHosts, routed>>

NoHost == "none"

------------------------------------------------------------------------------
(* lastHosts. *)

Remembered(s) == {i \in 1..Len(lastHosts) : lastHosts[i][1] = s}

LastHost(s) == IF Remembered(s) = {} THEN NoHost ELSE lastHosts[CHOOSE i \in Remembered(s) : TRUE][2]

\* set: to the front, and beyond the bound the least recently routed goes.
RememberInPlace(s, h) ==
    IF Remembered(s) # {}
    THEN [i \in 1..Len(lastHosts) |-> IF lastHosts[i][1] = s THEN <<s, h>> ELSE lastHosts[i]]
    ELSE LET all == <<<<s, h>>>> \o lastHosts
         IN  IF Len(all) > SessionMemory THEN SubSeq(all, 1, SessionMemory) ELSE all

Remember(s, h) ==
    LET all == <<<<s, h>>>> \o SelectSeq(lastHosts, LAMBDA e : e[1] # s)
    IN  IF Len(all) > SessionMemory THEN SubSeq(all, 1, SessionMemory) ELSE all

\* sharedLocked: some host, fresh or not, publishes a group.
SharedModel == \E h \in Hosts : groups[h] # ""

\* noteSessionLocked.
NoteSession(s, h, forwarded) ==
    lastHosts' = IF forwarded \/ ~SharedModel THEN lastHosts ELSE Remember(s, h)

------------------------------------------------------------------------------
(* The pick. *)

\* The fresh hosts with a healthy backend that publish a group.
ShareMembers == {h \in Hosts : hosts[h] # "gone" /\ groups[h] # ""}

FirstOf(s, among) ==
    LET ranked == SelectSeq(RankOf[s], LAMBDA h : h \in among)
    IN  IF ranked = <<>> THEN NoHost ELSE Head(ranked)

\* warmLocked: the last host, and the first of its group after it in the rank.
WarmPair(s, forwarded) ==
    LET last == LastHost(s)
        group == {h \in ShareMembers : groups[h] = groups[last]}
    IN  IF forwarded \/ last \notin ShareMembers
        THEN [last |-> NoHost, replica |-> NoHost]
        ELSE [last |-> last, replica |-> FirstOf(s, group \ {last})]

FreeHost(h) == h \in Hosts /\ hosts[h] = "free"

\* pickSessionLocked.
PickSession(s, forwarded) ==
    LET w == WarmPair(s, forwarded)
    IN  IF FreeHost(w.last) THEN w.last
        ELSE IF FreeHost(w.replica) THEN w.replica
        ELSE FirstOf(s, {h \in Hosts : FreeHost(h)})

\* A receiver is strict: a forwarded turn is served here or refused.
PickTurn(s, forwarded) ==
    IF ~forwarded THEN PickSession(s, forwarded)
    ELSE IF FreeHost(EntryHost) THEN EntryHost ELSE NoHost

WarmInit ==
    /\ groups \in GroupsOf
    /\ hosts = [h \in Hosts |-> "free"]
    /\ lastHosts = <<>> /\ routed = <<>>

RouteTurn(s, forwarded) ==
    /\ LET h == PickTurn(s, forwarded)
       IN  /\ h # NoHost
           /\ routed' = IF forwarded THEN routed
                        ELSE <<<<s, h>>>> \o SelectSeq(routed, LAMBDA e : e[1] # s)
           /\ NoteSession(s, h, forwarded)
    /\ UNCHANGED <<groups, hosts>>

HostChanges(h, to) ==
    /\ hosts[h] # to
    /\ hosts' = [hosts EXCEPT ![h] = to]
    /\ UNCHANGED <<groups, lastHosts, routed>>

WarmNext ==
    \/ \E s \in Session, forwarded \in BOOLEAN : RouteTurn(s, forwarded)
    \/ \E h \in Hosts, to \in {"gone", "full", "free"} : HostChanges(h, to)

WarmSpec == WarmInit /\ [][WarmNext]_warmVars

------------------------------------------------------------------------------
(* Properties. *)

WarmTypeOK ==
    /\ groups \in GroupsOf /\ hosts \in [Hosts -> {"gone", "full", "free"}]
    /\ \A i \in 1..Len(lastHosts) : lastHosts[i] \in Session \X Hosts

\* What is remembered of a session is where its last turn routed here went, and
\* the sessions remembered are the ones routed most recently (lastHosts.set);
\* nothing is remembered of a model no host shares (noteSessionLocked).
MemoryTrue ==
    lastHosts = IF ~SharedModel THEN <<>>
                ELSE IF Len(routed) <= SessionMemory THEN routed ELSE SubSeq(routed, 1, SessionMemory)

\* A pair is two hosts of one group that can serve, and the replica is the one
\* the last host pushes to: no member of the group but the last ranks before it.
PairServes ==
    \A s \in Session :
        LET w == WarmPair(s, FALSE)
        IN  /\ w.last # NoHost => hosts[w.last] # "gone"
            /\ w.replica # NoHost =>
                   /\ w.replica # w.last /\ groups[w.replica] = groups[w.last] /\ hosts[w.replica] # "gone"
                   /\ \A h \in Hosts \ {w.last} :
                          h \in ShareMembers /\ groups[h] = groups[w.last] =>
                              \E i, j \in 1..Len(RankOf[s]) : i <= j /\ RankOf[s][i] = w.replica /\ RankOf[s][j] = h

\* A session stays put while it can: if the host of its latest turn shares and
\* has room and the session is remembered, the next turn goes there again.
SessionStays ==
    \A i \in 1..Len(routed) :
        LET s == routed[i][1]
            h == routed[i][2]
        IN  i <= SessionMemory /\ groups[h] # "" /\ FreeHost(h) => PickSession(s, FALSE) = h

\* The router's idea of where a session is warm is true, and is used.
SessionsWarm == WarmTypeOK /\ MemoryTrue /\ PairServes /\ SessionStays
==============================================================================
