----------------------------- MODULE Membership -----------------------------
(***************************************************************************)
(* A node's view of the mesh and what it polls (mesh/members.go,           *)
(* mesh/delegate.go, mesh/mesh.go, mesh/capacity/member.go).               *)
(*                                                                         *)
(* memberlist, a library, reports joins and departures, true and false     *)
(* ones; running is what the other processes really do.  The member table  *)
(* tells a member that left from one that failed by the notice a leaving   *)
(* node sends, which may come before the departure, after it, or not at    *)
(* all.  Every change is queued for one dispatcher, which drops it when    *)
(* the queue is full, and the poller acts on it.  The poller also reads    *)
(* the member list on every tick, before it takes its own lock: seen and   *)
(* joined are such a reading between the two.                              *)
(***************************************************************************)
EXTENDS Naturals, Sequences, FiniteSets

CONSTANTS Member,         \* the other members
          EventBuffer,    \* length of the event queue
          NoReading,      \* the poller is between two ticks
          MaxChanges      \* bound on starts, stops, updates and false or failed answers

VARIABLES running,   \* members whose process runs
          state,     \* member table: none, alive, dead or left
          notice,    \* member table: a leave was announced less than leaveNoticeTTL ago
          recent,    \* members recorded dead less than lateNoticeGrace ago
          notices,   \* leave notices under way
          late,      \* members whose late notice is recorded and not queued yet
          events,    \* the dispatcher's queue
          seen,      \* what a tick read from the member list
          joined,    \* what PollNow read from the member list
          wanted, values, inflight,
          changes

memVars == <<running, state, notice, recent, notices, late>>
pollVars == <<seen, joined, wanted, values, inflight>>
meshVars == <<memVars, events, pollVars, changes>>

Alive == {m \in Member : state[m] = "alive"}

MeshInit ==
  /\ running = {} /\ state = [m \in Member |-> "none"]
  /\ notice = {} /\ recent = {} /\ notices = {} /\ late = {}
  /\ events = <<>> /\ seen = NoReading /\ joined = {}
  /\ wanted = {} /\ values = {} /\ inflight = {}
  /\ changes = 0

\* send: a full queue drops the event, whoever the dispatcher is busy with.
Send(kind, m) ==
  events' = IF Len(events) < EventBuffer THEN Append(events, <<kind, m>>) ELSE events

-----------------------------------------------------------------------------
\* A process starts, or stops: with a notice to the others when it leaves in
\* order.
StartMember(m) ==
  /\ m \notin running /\ changes < MaxChanges
  /\ running' = running \cup {m} /\ changes' = changes + 1
  /\ UNCHANGED <<state, notice, recent, notices, late, events, pollVars>>

StopMember(m, inOrder) ==
  /\ m \in running /\ changes < MaxChanges
  /\ running' = running \ {m} /\ changes' = changes + 1
  /\ notices' = IF inOrder THEN notices \cup {m} ELSE notices
  /\ UNCHANGED <<state, notice, recent, late, events, pollVars>>

\* NotifyJoin: a join by the member itself, or by the rejoin loop here, which
\* dials the candidates that are not alive in the table.
NotifyJoin(m) ==
  /\ m \in running /\ state[m] # "alive"
  /\ state' = [state EXCEPT ![m] = "alive"]
  /\ notice' = notice \ {m} /\ recent' = recent \ {m}
  /\ Send("join", m)
  /\ UNCHANGED <<running, notices, late, pollVars, changes>>

\* NotifyUpdate: new metadata of a member that is alive; it voids a notice too.
NotifyUpdate(m) ==
  /\ m \in running /\ state[m] = "alive" /\ changes < MaxChanges
  /\ notice' = notice \ {m} /\ changes' = changes + 1
  /\ Send("join", m)
  /\ UNCHANGED <<running, state, recent, notices, late, pollVars>>

\* NotifyLeave and depart: left when a notice is at hand, else dead.
Depart(m) ==
  /\ state' = [state EXCEPT ![m] = IF m \in notice THEN "left" ELSE "dead"]
  /\ notice' = notice \ {m}
  /\ recent' = IF m \in notice THEN recent ELSE recent \cup {m}
  /\ Send(IF m \in notice THEN "leave" ELSE "fail", m)
  /\ UNCHANGED <<running, notices, late, pollVars>>

NotifyLeave(m) ==
  /\ state[m] = "alive" /\ m \notin running
  /\ Depart(m)
  /\ UNCHANGED changes

\* memberlist declares a running member dead.
FalseFailure(m) ==
  /\ state[m] = "alive" /\ m \in running /\ changes < MaxChanges
  /\ Depart(m)
  /\ changes' = changes + 1

\* leaveNotice: just after the member was recorded dead it becomes left.  The
\* event is queued once the table's lock is free again (SendLate).
LeaveNotice(m) ==
  /\ m \in notices
  /\ notices' = notices \ {m}
  /\ IF state[m] = "dead" /\ m \in recent
     THEN /\ state' = [state EXCEPT ![m] = "left"]
          /\ late' = late \cup {m}
          /\ UNCHANGED <<notice, recent>>
     ELSE notice' = notice \cup {m} /\ UNCHANGED <<state, recent, late>>
  /\ UNCHANGED <<running, events, pollVars, changes>>

SendLate(m) ==
  /\ m \in late /\ late' = late \ {m}
  /\ Send("leave", m)
  /\ UNCHANGED <<running, state, notice, recent, notices, pollVars, changes>>

LoseNotice(m) ==
  /\ m \in notices /\ notices' = notices \ {m}
  /\ UNCHANGED <<running, state, notice, recent, late, events, pollVars, changes>>

\* Notices and verdicts grow old, and a departed member is pruned after a day.
Age(m) ==
  /\ m \in notice \cup recent \/ state[m] \in {"dead", "left"}
  /\ notice' = notice \ {m} /\ recent' = recent \ {m}
  /\ state' = [state EXCEPT ![m] = IF m \in notice \cup recent \/ @ = "alive" THEN @ ELSE "none"]
  /\ UNCHANGED <<running, notices, late, events, pollVars, changes>>

-----------------------------------------------------------------------------
\* poll: polls to one member never overlap.
Poll(ms) == inflight' = inflight \cup ms

\* tick reads the members,
ReadMembers ==
  /\ seen = NoReading /\ seen' = Alive
  /\ UNCHANGED <<memVars, events, joined, wanted, values, inflight, changes>>

TickPollKeeps ==
  /\ seen # NoReading /\ seen' = NoReading
  /\ wanted' = wanted \cup seen
  /\ Poll(seen)
  /\ UNCHANGED <<memVars, events, joined, values, changes>>

\* and then, under its lock, polls those and forgets every other.
TickPoll ==
  /\ seen # NoReading /\ seen' = NoReading
  /\ wanted' = seen
  /\ values' = values \cap seen
  /\ Poll(seen)
  /\ UNCHANGED <<memVars, events, joined, changes>>

\* HandleMemberEvent: PollNow reads the member list as well before it locks.
Dispatch ==
  /\ events # <<>> /\ joined = {} /\ events' = Tail(events)
  /\ LET kind == Head(events)[1]
         m    == Head(events)[2]
     IN IF kind = "join"
        THEN /\ joined' = {m} \cap Alive
             /\ UNCHANGED <<wanted, values>>
        ELSE /\ wanted' = wanted \ {m} /\ values' = values \ {m}
             /\ UNCHANGED joined
  /\ UNCHANGED <<memVars, seen, inflight, changes>>

PollNow ==
  /\ joined # {} /\ joined' = {}
  /\ wanted' = wanted \cup joined
  /\ Poll(joined)
  /\ UNCHANGED <<memVars, events, seen, values, changes>>

\* An answer: taken if the member is still wanted when it lands.
Answer(m) ==
  /\ m \in inflight /\ m \in running
  /\ inflight' = inflight \ {m}
  /\ values' = values \cup ({m} \cap wanted)
  /\ UNCHANGED <<memVars, events, seen, joined, wanted, changes>>

\* No answer in time, or one that names another node: the old value stays.
FailPoll(m) ==
  /\ m \in inflight
  /\ inflight' = inflight \ {m}
  /\ IF m \in running THEN changes < MaxChanges /\ changes' = changes + 1 ELSE UNCHANGED changes
  /\ UNCHANGED <<memVars, events, seen, joined, wanted, values>>

MeshNext ==
  \/ \E m \in Member : StartMember(m)
  \/ \E m \in Member, inOrder \in BOOLEAN : StopMember(m, inOrder)
  \/ \E m \in Member : NotifyJoin(m)
  \/ \E m \in Member : NotifyUpdate(m)
  \/ \E m \in Member : NotifyLeave(m)
  \/ \E m \in Member : FalseFailure(m)
  \/ \E m \in Member : LeaveNotice(m)
  \/ \E m \in Member : SendLate(m)
  \/ \E m \in Member : LoseNotice(m)
  \/ \E m \in Member : Age(m)
  \/ ReadMembers
  \/ TickPoll
  \/ Dispatch
  \/ PollNow
  \/ \E m \in Member : Answer(m)
  \/ \E m \in Member : FailPoll(m)

\* The failure detector and the rejoin loop keep working, the ticker and the
\* dispatcher run, and a poll ends with an answer or at its timeout.  Nothing
\* is assumed of notices.
MeshFairness ==
  /\ \A m \in Member : WF_meshVars(NotifyJoin(m)) /\ WF_meshVars(NotifyLeave(m))
  /\ \A m \in Member : WF_meshVars(Answer(m)) /\ WF_meshVars(FailPoll(m)) /\ WF_meshVars(SendLate(m))
  /\ WF_meshVars(ReadMembers) /\ WF_meshVars(TickPoll)
  /\ WF_meshVars(Dispatch) /\ WF_meshVars(PollNow)

MeshSpec == MeshInit /\ [][MeshNext]_meshVars /\ MeshFairness
-----------------------------------------------------------------------------
MeshTypeOK ==
  /\ state \in [Member -> {"none", "alive", "dead", "left"}]
  /\ running \cup notice \cup recent \cup notices \cup late \subseteq Member
  /\ Len(events) <= EventBuffer
  /\ seen \in SUBSET Member \cup {NoReading}
  /\ joined \cup wanted \cup values \cup inflight \subseteq Member

\* A member that stays away is forgotten, whatever events were dropped or
\* came out of order and however late its last answer: the next tick drops
\* what an answer or an event left behind.
GoneForgotten ==
  \A m \in Member : []<>(m \in running) \/ <>[](m \notin values)

\* A member that stays is polled and its figures are known, even when the
\* event of a late leave notice is queued behind the join that followed it.
StayingKnown ==
  \A m \in Member : []<>(m \notin running) \/ <>[](m \in values)

\* A member becomes left only by a leave notice, recorded or just arriving, which
\* may be a late one; with the notice recorded it does not become dead, and when
\* it becomes alive the notice is void.
LeftWasAnnounced ==
  [][\A m \in Member :
       /\ state'[m] = "left" /\ state[m] # "left" => m \in notice \/ m \in notices
       /\ state'[m] = "dead" /\ state[m] = "alive" => m \notin notice
       /\ state'[m] = "alive" /\ state[m] # "alive" => m \notin notice']_meshVars

=============================================================================
