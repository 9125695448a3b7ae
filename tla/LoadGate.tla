------------------------------ MODULE LoadGate ------------------------------
(***************************************************************************)
(* internal/supervisor/loadgate.go: the node loads one backend at a time.  *)
(* A ticket is enqueued, granted in turn, and released by its owner (the   *)
(* backend's loop) when the backend has left "starting", or when the loop  *)
(* is cancelled while it still waits.                                      *)
(*                                                                         *)
(* holder and queue are the fields of loadGate; granted is the set of      *)
(* tickets whose channel has been closed (a closed channel stays closed);  *)
(* done is the set of tickets whose done flag is set.  owner is the        *)
(* control state of the goroutine that owns the ticket, and arrivals the   *)
(* order in which the tickets were enqueued (a history variable).          *)
(***************************************************************************)
EXTENDS Naturals, Sequences

CONSTANTS Tickets, NoTicket

ASSUME NoTicketAssumption == NoTicket \notin Tickets

VARIABLES holder, queue, granted, done, owner, arrivals

gateVars == <<holder, queue, granted, done>>
vars == <<holder, queue, granted, done, owner, arrivals>>

-----------------------------------------------------------------------------
(* The lock-protected operations.  h and q are the holder and the queue    *)
(* as the caller of grantLocked has left them.                             *)

\* Mutant: the newest ticket is served first.
GrantNewest(h, q) ==
    IF h = NoTicket /\ q # <<>>
    THEN /\ holder' = q[Len(q)]
         /\ queue' = SubSeq(q, 1, Len(q) - 1)
         /\ granted' = granted \cup {q[Len(q)]}
    ELSE /\ holder' = h
         /\ queue' = q
         /\ UNCHANGED granted

GrantLocked(h, q) ==
    IF h = NoTicket /\ q # <<>>
    THEN /\ holder' = Head(q)
         /\ queue' = Tail(q)
         /\ granted' = granted \cup {Head(q)}
    ELSE /\ holder' = h
         /\ queue' = q
         /\ UNCHANGED granted

Enqueue(t) ==
    /\ GrantLocked(holder, Append(queue, t))
    /\ UNCHANGED done

\* The first entry of q that is t is cut out of q.
Without(q, t) ==
    IF \E i \in 1..Len(q) : q[i] = t
    THEN LET i == CHOOSE j \in 1..Len(q) : q[j] = t
         IN  [j \in 1..(Len(q) - 1) |-> IF j < i THEN q[j] ELSE q[j + 1]]
    ELSE q

\* Mutant: any release frees the gate, also the release of a waiter.
ReleaseAlwaysFrees(t) ==
    /\ done' = done \cup {t}
    /\ GrantLocked(NoTicket, Without(queue, t))

\* Mutant: a waiter that leaves stays in the queue.
ReleaseStaysQueued(t) ==
    IF t \in done
    THEN UNCHANGED gateVars
    ELSE /\ done' = done \cup {t}
         /\ IF holder = t
            THEN GrantLocked(NoTicket, queue)
            ELSE UNCHANGED <<holder, queue, granted>>

Release(t) ==
    IF t \in done
    THEN UNCHANGED gateVars
    ELSE /\ done' = done \cup {t}
         /\ IF holder = t
            THEN GrantLocked(NoTicket, queue)
            ELSE /\ queue' = Without(queue, t)
                 /\ UNCHANGED <<holder, granted>>

-----------------------------------------------------------------------------
(* The owner of a ticket.                                                  *)

Init ==
    /\ holder = NoTicket
    /\ queue = <<>>
    /\ granted = {}
    /\ done = {}
    /\ owner = [t \in Tickets |-> "new"]
    /\ arrivals = <<>>

Join(t) ==
    /\ owner[t] = "new"
    /\ Enqueue(t)
    /\ owner' = [owner EXCEPT ![t] = "waiting"]
    /\ arrivals' = Append(arrivals, t)

\* wait returns nil: the ticket's channel is closed.
WaitGranted(t) ==
    /\ owner[t] = "waiting"
    /\ t \in granted
    /\ owner' = [owner EXCEPT ![t] = "loading"]
    /\ UNCHANGED <<gateVars, arrivals>>

\* wait returns the context's error.  When the grant is ready too, select
\* may still choose this case.
WaitCancelled(t) ==
    /\ owner[t] = "waiting"
    /\ Release(t)
    /\ owner' = [owner EXCEPT ![t] = "gone"]
    /\ UNCHANGED arrivals

\* The backend left "starting", or its loop ends.
Finish(t) ==
    /\ owner[t] = "loading"
    /\ Release(t)
    /\ owner' = [owner EXCEPT ![t] = "gone"]
    /\ UNCHANGED arrivals

\* The deferred release of a loop whose wait has released the ticket already.
ReleaseAgain(t) ==
    /\ owner[t] = "gone"
    /\ Release(t)
    /\ UNCHANGED <<owner, arrivals>>

Next ==
    \E t \in Tickets :
        Join(t) \/ WaitGranted(t) \/ WaitCancelled(t) \/ Finish(t) \/ ReleaseAgain(t)

\* A granted goroutine runs on, and a load ends: StartupTimeout bounds it.
Fairness ==
    \A t \in Tickets : WF_vars(WaitGranted(t)) /\ WF_vars(Finish(t))

Spec == Init /\ [][Next]_vars

FairSpec == Spec /\ Fairness

-----------------------------------------------------------------------------
(* Properties.                                                             *)

TypeOK ==
    /\ holder \in Tickets \cup {NoTicket}
    /\ queue \in Seq(Tickets)
    /\ granted \subseteq Tickets
    /\ done \subseteq Tickets
    /\ owner \in [Tickets -> {"new", "waiting", "loading", "gone"}]
    /\ arrivals \in Seq(Tickets)

\* loadGate admits one load at a time: two loops are never both past wait
\* and short of release.
OneLoadAtATime ==
    \A t, u \in Tickets : owner[t] = "loading" /\ owner[u] = "loading" => t = u

\* No wake-up is lost: the gate is never free while a ticket waits in it, and
\* it is never held by, or queued for, a ticket whose owner has let go of it.
NeverStuck ==
    /\ holder = NoTicket => queue = <<>>
    /\ holder \in Tickets => owner[holder] \in {"waiting", "loading"}
    /\ \A i \in 1..Len(queue) : owner[queue[i]] = "waiting"

\* grantLocked serves the queue in the order of enqueue: when a ticket has
\* been granted, every ticket enqueued before it was granted or has left.
FirstComeFirstServed ==
    \A i, j \in 1..Len(arrivals) :
        i < j /\ arrivals[j] \in granted => arrivals[i] \in granted \cup done

\* A ticket that waits is granted in the end, or its loop is cancelled.
EveryWaiterServed ==
    \A t \in Tickets : owner[t] = "waiting" ~> owner[t] \in {"loading", "gone"}
=============================================================================
