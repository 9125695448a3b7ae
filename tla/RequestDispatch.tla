-------------------------- MODULE RequestDispatch --------------------------
(***************************************************************************)
(* The life of a request: internal/proxy's dispatch and attempt over the   *)
(* queue of internal/route, and the capacity polls that feed the router.   *)
(*                                                                         *)
(* The router's mutex is held for one action, except by dispatchLocked,    *)
(* which looks at backends that change under it: its scan is one step per  *)
(* waiter, and every action that needs the mutex waits for ~scan.on.       *)
(***************************************************************************)
EXTENDS Router, Functions

CONSTANTS
    QueueMax,       \* routing.queue_max
    ForwardRetry,   \* routing.forward_retry
    PeerImages,     \* what peers say of reading images
    MaxChanges      \* bound: changes of the node, of members and polls

ASSUME DispatchAssumption ==
    /\ QueueMax \in Nat /\ ForwardRetry \in Nat /\ MaxChanges \in Nat
    /\ PeerImages \subseteq {"yes", "unknown", "no"}

VARIABLES
    queue,      \* the model's waiters
    req,        \* each request's dispatch
    scan,       \* dispatchLocked in progress
    poll,       \* the poll in flight of each peer
    wanted,     \* the peers being polled
    silent,     \* history: a change no wake announced since the last scan began
    missed,     \* history: forwards older than a report that did not count them
    changes     \* bound: changes so far

vars == <<routerVars, queue, req, scan, poll, wanted, silent, missed, changes>>

NoScan == [on |-> FALSE]
NoPoll == [at |-> "idle"]

Init ==
    /\ localOK = TRUE /\ admitting = TRUE /\ healthy \in {{}, Backends}
    /\ inFlight = [b \in Backends |-> 0]
    /\ report = [p \in Peers |-> NoReport]
    /\ lease = [r \in Requests |-> "none"]
    /\ queue = <<>>
    /\ req = [r \in Requests |-> [at |-> "new", tried |-> {}, retries |-> 0,
                                  final |-> FALSE, spent |-> FALSE, served |-> FALSE]]
    /\ scan = NoScan
    /\ poll = [p \in Peers |-> NoPoll]
    /\ wanted = Peers
    /\ silent = FALSE /\ missed = {} /\ changes = 0

\* Where a request is when its lease is of target t.
Started(t) == IF t \in Backends THEN "run" ELSE "going"

Goes(r, at) == req' = [req EXCEPT ![r].at = at]

-----------------------------------------------------------------------------
(* queue.go *)

\* dispatchLocked begins: the reports are fetched once.
BeginScan ==
    /\ scan' = IF queue = <<>> THEN scan
               ELSE [on |-> TRUE, todo |-> queue, unpinnedFull |-> FALSE,
                     imagesFull |-> FALSE, progressed |-> FALSE, reps |-> report]
    /\ silent' = (silent /\ queue = <<>>)

\* removeWaiterLocked, of a waiter that is in the queue.
RemoveWaiter(w) ==
    LET i == CHOOSE j \in 1..Len(queue) : queue[j] = w
    IN  queue' = SubSeq(queue, 1, i - 1) \o SubSeq(queue, i + 1, Len(queue))

\* A forward never queues, nor a request without budget, nor beyond QueueMax.
MayWait(r) == r \notin Forwarded /\ ~req[r].spent /\ Len(queue) < QueueMax

\* Acquire, the first (new) and the final one: a slot, an error, or the queue.
Acquire(r) ==
    /\ req[r].at \in {"new", "final"} /\ ~scan.on
    /\ \E pick \in Pick(r, {}, report) :
        LET waits == pick = "noFreeSlot" /\ MayWait(r)
        IN  /\ IF pick \in Targets THEN Take(r, pick) ELSE UNCHANGED <<lease, inFlight>>
            /\ queue' = IF waits THEN Append(queue, r) ELSE queue
            /\ req' = [req EXCEPT ![r].at = IF pick \in Targets THEN Started(pick)
                                            ELSE IF waits THEN "queued" ELSE "done",
                                  ![r].final = (req[r].at = "final")]
    /\ UNCHANGED <<localOK, admitting, healthy, report, scan, poll, wanted, silent, missed, changes>>

\* The waiter receives what dispatch put in its channel, before the timeout or
\* as it fires (then nothing of the budget is left).
Receive(r) ==
    /\ req[r].at = "queued" /\ r \notin Range(queue)
    /\ \E spent \in BOOLEAN :
        req' = [req EXCEPT ![r].at = IF lease[r] = "none" THEN "done" ELSE Started(lease[r]),
                           ![r].spent = spent]
    /\ UNCHANGED <<routerVars, queue, scan, poll, wanted, silent, missed, changes>>

\* The timeout of a waiter that dispatch has not completed.
Timeout(r) ==
    /\ req[r].at = "queued" /\ r \in Range(queue) /\ ~scan.on
    /\ RemoveWaiter(r)
    /\ Goes(r, "done")
    /\ UNCHANGED <<routerVars, scan, poll, wanted, silent, missed, changes>>

\* Mutant: a lease that came as the client left is not released.
CancelLeaks(r) ==
    /\ req[r].at = "queued" /\ ~scan.on
    /\ IF r \in Range(queue) THEN RemoveWaiter(r) ELSE UNCHANGED queue
    /\ Goes(r, "done")
    /\ UNCHANGED <<routerVars, scan, poll, wanted, silent, missed, changes>>

\* The client leaves while it waits; a lease that came first is released.
Cancel(r) ==
    /\ req[r].at = "queued" /\ ~scan.on
    /\ IF r \in Range(queue) THEN RemoveWaiter(r) ELSE UNCHANGED queue
    /\ req' = [req EXCEPT ![r].at = IF lease[r] = "none" THEN "done" ELSE "release",
                          ![r].served = TRUE]
    /\ UNCHANGED <<routerVars, scan, poll, wanted, silent, missed, changes>>

\* Mutant: a waiter behind a refused one is asked again.
SkippedNever(w) == FALSE

Skipped(w) == Host[w] = "any" /\ (scan.unpinnedFull \/ (scan.imagesFull /\ w \in Images))

\* One waiter of dispatchLocked's scan.
ScanWaiter ==
    /\ scan.on /\ scan.todo # <<>>
    /\ LET w == Head(scan.todo)
           rest == [scan EXCEPT !.todo = Tail(@)]
       IN  \/ /\ Skipped(w)
              /\ scan' = rest
              /\ UNCHANGED <<queue, lease, inFlight>>
           \/ /\ ~Skipped(w)
              /\ \E pick \in Pick(w, {}, scan.reps) :
                 IF pick = "noFreeSlot"
                 THEN /\ scan' = [rest EXCEPT
                            !.imagesFull = @ \/ (Host[w] = "any" /\ w \in Images),
                            !.unpinnedFull = @ \/ (Host[w] = "any" /\ w \notin Images)]
                      /\ UNCHANGED <<queue, lease, inFlight>>
                 ELSE /\ scan' = [rest EXCEPT !.progressed = TRUE]
                      /\ RemoveWaiter(w)
                      /\ IF pick \in Targets THEN Take(w, pick) ELSE UNCHANGED <<lease, inFlight>>
    /\ UNCHANGED <<localOK, admitting, healthy, report, req, poll, wanted, silent, missed, changes>>

\* The end of a scan: another one if it handed out anything.
ScanEnd ==
    /\ scan.on /\ scan.todo = <<>>
    /\ scan' = IF scan.progressed
               THEN [scan EXCEPT !.todo = queue, !.unpinnedFull = FALSE,
                                 !.imagesFull = FALSE, !.progressed = FALSE]
               ELSE NoScan
    /\ UNCHANGED <<routerVars, queue, req, poll, wanted, silent, missed, changes>>

\* Mutant: there is no tick.
TickNever == FALSE

\* Run's tick.
Tick ==
    /\ ~scan.on /\ queue # <<>>
    /\ BeginScan
    /\ UNCHANGED <<routerVars, queue, req, poll, wanted, missed, changes>>

-----------------------------------------------------------------------------
(* handler.go: attempts, releases and retries. *)

\* A local attempt ends, served or not; the lease is released without the
\* router's mutex, and its wake is still to come.
EndLocal(r) ==
    /\ req[r].at = "run"
    /\ \E served \in BOOLEAN :
        req' = [req EXCEPT ![r].at = "wake", ![r].served = served,
                           ![r].tried = IF served THEN @ ELSE @ \cup {lease[r]}]
    /\ inFlight' = [inFlight EXCEPT ![lease[r]] = @ - 1]
    /\ lease' = [lease EXCEPT ![r] = "none"]
    /\ UNCHANGED <<localOK, admitting, healthy, report, queue, scan, poll, wanted, silent, missed, changes>>

\* The forwards running on peer p.
There(p) == {r \in Requests : lease[r] = p /\ req[r].at = "there"}

\* The peer's own router admits a forward while it has a free slot.
Arrive(r) ==
    /\ req[r].at = "going" /\ Cardinality(There(lease[r])) < Slots[lease[r]]
    /\ Goes(r, "there")
    /\ UNCHANGED <<routerVars, queue, scan, poll, wanted, silent, missed, changes>>

\* The peer served the forward, or the client left, which ends a forward that
\* is still on its way too.
EndPeer(r) ==
    /\ req[r].at \in {"going", "there"}
    /\ req' = [req EXCEPT ![r].at = "release", ![r].served = TRUE]
    /\ UNCHANGED <<routerVars, queue, scan, poll, wanted, silent, missed, changes>>

\* The peer refused, could not be reached, or broke off before responding.
\* Nothing the peer has built so far reflects it.
FailPeer(r) ==
    /\ req[r].at \in {"going", "there"}
    /\ LET p == lease[r]
       IN  /\ req' = [req EXCEPT ![r].at = "refused", ![r].tried = @ \cup {p}]
           /\ report' = IF report[p].lists THEN [report EXCEPT ![p].unaware = @ \cup {r}] ELSE report
           /\ poll' = IF poll[p].at = "built" THEN [poll EXCEPT ![p].unaware = @ \cup {r}] ELSE poll
    /\ UNCHANGED <<localOK, admitting, healthy, inFlight, lease, queue, scan, wanted, silent, missed, changes>>

\* Mutant: the refusal is not recorded.
RefusedForgotten(r) ==
    /\ req[r].at = "refused" /\ ~scan.on
    /\ Goes(r, "release")
    /\ UNCHANGED <<routerVars, queue, scan, poll, wanted, silent, missed, changes>>

\* Refused: no report whose poll was sent before now gives the peer a slot.
Refused(r) ==
    /\ req[r].at = "refused" /\ ~scan.on
    /\ Goes(r, "release")
    /\ LET p == lease[r]
       IN  /\ report' = IF report[p].lists THEN [report EXCEPT ![p].sentAfter = FALSE] ELSE report
           /\ poll' = IF poll[p].at \in {"sent", "built"} THEN [poll EXCEPT ![p].sentAfter = FALSE] ELSE poll
    /\ UNCHANGED <<localOK, admitting, healthy, inFlight, lease, queue, scan, wanted, silent, missed, changes>>

\* Reports without a reservation that is gone.
Without(f, r) == [p \in Peers |-> IF "before" \in DOMAIN f[p] THEN [f[p] EXCEPT !.before = @ \ {r}] ELSE f[p]]

\* Release of a lease the request still holds; a peer's needs the mutex.
Release(r) ==
    /\ req[r].at = "release"
    /\ lease[r] \in Peers => ~scan.on
    /\ inFlight' = IF lease[r] \in Backends THEN [inFlight EXCEPT ![lease[r]] = @ - 1] ELSE inFlight
    /\ lease' = [lease EXCEPT ![r] = "none"]
    /\ missed' = missed \ {r}
    /\ report' = Without(report, r) /\ poll' = Without(poll, r)
    /\ Goes(r, "wake")
    /\ UNCHANGED <<localOK, admitting, healthy, queue, scan, wanted, silent, changes>>

\* Mutant: a release wakes nobody.
WakeSkipped(r) ==
    /\ req[r].at = "wake" /\ ~scan.on
    /\ Goes(r, IF req[r].served THEN "done" ELSE "next")
    /\ UNCHANGED <<routerVars, queue, scan, poll, wanted, silent, missed, changes>>

\* The wake of a release; its caller goes on with the answer or a retry.
Wake(r) ==
    /\ req[r].at = "wake" /\ ~scan.on
    /\ BeginScan
    /\ Goes(r, IF req[r].served THEN "done" ELSE "next")
    /\ UNCHANGED <<routerVars, queue, poll, wanted, missed, changes>>

\* After an attempt that wrote nothing: a forward and the final dispatch end
\* here, the others pick again, without the routes tried, or acquire again.
Retry(r) ==
    /\ req[r].at = "next" /\ ~scan.on
    /\ \/ /\ r \in Forwarded \/ req[r].final
          /\ Goes(r, "done")
          /\ UNCHANGED <<lease, inFlight>>
       \/ /\ r \notin Forwarded /\ ~req[r].final /\ req[r].retries < ForwardRetry
          /\ \E pick \in Pick(r, req[r].tried, report) :
              /\ IF pick \in Targets THEN Take(r, pick) ELSE UNCHANGED <<lease, inFlight>>
              /\ req' = [req EXCEPT ![r].at = IF pick \in Targets THEN Started(pick) ELSE "final",
                                    ![r].retries = @ + 1]
       \/ /\ r \notin Forwarded /\ ~req[r].final /\ req[r].retries >= ForwardRetry
          /\ Goes(r, "final")
          /\ UNCHANGED <<lease, inFlight>>
    /\ UNCHANGED <<localOK, admitting, healthy, report, queue, scan, poll, wanted, silent, missed, changes>>

-----------------------------------------------------------------------------
(* mesh/capacity: the polls of a wanted peer, never two at a time. *)

Change == changes < MaxChanges /\ changes' = changes + 1

\* A tick or a join polls p: what is held now is older than the poll.
SendPoll(p) ==
    /\ p \in wanted /\ poll[p].at = "idle" /\ Change
    /\ poll' = [poll EXCEPT ![p] = [at |-> "sent", sentAfter |-> TRUE,
                    before |-> {r \in Requests : lease[r] = p}]]
    /\ UNCHANGED <<routerVars, queue, req, scan, wanted, silent, missed>>

\* The peer builds its report: its busy slots are the forwards there and
\* requests of its own.
BuildReport(p) ==
    /\ poll[p].at = "sent"
    /\ \E busy \in Cardinality(There(p))..Slots[p], images \in PeerImages, up \in BOOLEAN :
        poll' = [poll EXCEPT ![p] = [at |-> "built", sentAfter |-> @.sentAfter, before |-> @.before,
                    busy |-> busy, images |-> images, up |-> up, unaware |-> {},
                    missed |-> {r \in @.before : lease[r] = p} \ There(p)]]
    /\ UNCHANGED <<routerVars, queue, req, scan, wanted, silent, missed, changes>>

\* Mutant: a report stands for the moment it was received.
AcceptAsReceived(p) ==
    /\ poll[p].at = "built"
    /\ report' = [report EXCEPT ![p] = [lists |-> TRUE, fresh |-> TRUE, sentAfter |-> TRUE,
            before |-> {r \in Requests : lease[r] = p}, busy |-> poll[p].busy,
            images |-> poll[p].images, up |-> poll[p].up, unaware |-> poll[p].unaware]]
    /\ missed' = missed \cup {r \in poll[p].missed : lease[r] = p}
    /\ poll' = [poll EXCEPT ![p] = [at |-> "wake"]]
    /\ UNCHANGED <<localOK, admitting, healthy, inFlight, lease, queue, req, scan, wanted, silent, changes>>

\* The answer of a peer still wanted is kept; a late one is dropped.
AcceptReport(p) ==
    /\ poll[p].at = "built"
    /\ IF p \in wanted
       THEN /\ report' = [report EXCEPT ![p] = [lists |-> TRUE, fresh |-> TRUE,
                    sentAfter |-> poll[p].sentAfter, before |-> poll[p].before,
                    busy |-> poll[p].busy, images |-> poll[p].images,
                    up |-> poll[p].up, unaware |-> poll[p].unaware]]
            /\ missed' = missed \cup {r \in poll[p].missed : lease[r] = p}
            /\ poll' = [poll EXCEPT ![p] = [at |-> "wake"]]
       ELSE /\ poll' = [poll EXCEPT ![p] = NoPoll]
            /\ UNCHANGED <<report, missed>>
    /\ UNCHANGED <<localOK, admitting, healthy, inFlight, lease, queue, req, scan, wanted, silent, changes>>

\* OnReport wakes the router.
WakeReport(p) ==
    /\ poll[p].at = "wake" /\ ~scan.on
    /\ BeginScan
    /\ poll' = [poll EXCEPT ![p] = NoPoll]
    /\ UNCHANGED <<routerVars, queue, req, wanted, missed, changes>>

\* A poll fails: the last report stays and ages.
FailPoll(p) ==
    /\ poll[p].at \in {"sent", "built"}
    /\ poll' = [poll EXCEPT ![p] = NoPoll]
    /\ UNCHANGED <<routerVars, queue, req, scan, wanted, silent, missed, changes>>

\* A report grows older than StaleAfter, in a scan's copy as well.
AgeReport(p) ==
    /\ report[p].lists /\ report[p].fresh /\ Change
    /\ report' = [report EXCEPT ![p].fresh = FALSE]
    /\ scan' = IF scan.on /\ scan.reps[p].lists THEN [scan EXCEPT !.reps[p].fresh = FALSE] ELSE scan
    /\ silent' = TRUE
    /\ UNCHANGED <<localOK, admitting, healthy, inFlight, lease, queue, req, poll, wanted, missed>>

\* Forget: the member left or failed.
Forget(p) ==
    /\ p \in wanted /\ Change
    /\ wanted' = wanted \ {p}
    /\ report' = [report EXCEPT ![p] = NoReport]
    /\ silent' = TRUE
    /\ UNCHANGED <<localOK, admitting, healthy, inFlight, lease, queue, req, scan, poll, missed>>

\* PollNow of a member that joined: wanted again, and polled by SendPoll.
Join(p) ==
    /\ p \notin wanted /\ Change
    /\ wanted' = wanted \cup {p}
    /\ UNCHANGED <<routerVars, queue, req, scan, poll, silent, missed>>

\* The supervisor changes a backend's health, a model's admission, or the set
\* of models: none of them wakes the router.
ChangeLocal ==
    /\ Change
    /\ \/ /\ \E b \in Backends : healthy' = (healthy \ {b}) \cup ({b} \ healthy)
          /\ UNCHANGED <<admitting, localOK>>
       \/ admitting' = ~admitting /\ UNCHANGED <<healthy, localOK>>
       \/ localOK' = ~localOK /\ UNCHANGED <<healthy, admitting>>
    /\ silent' = TRUE
    /\ UNCHANGED <<inFlight, report, lease, queue, req, scan, poll, wanted, missed>>

-----------------------------------------------------------------------------
Dispatch(r) == Acquire(r) \/ Refused(r) \/ Release(r) \/ Wake(r) \/ Retry(r)

Next ==
    \/ \E r \in Requests : Acquire(r)
    \/ \E r \in Requests : Receive(r)
    \/ \E r \in Requests : Timeout(r)
    \/ \E r \in Requests : Cancel(r)
    \/ \E r \in Requests : EndLocal(r)
    \/ \E r \in Requests : Arrive(r)
    \/ \E r \in Requests : EndPeer(r)
    \/ \E r \in Requests : FailPeer(r)
    \/ \E r \in Requests : Refused(r)
    \/ \E r \in Requests : Release(r)
    \/ \E r \in Requests : Wake(r)
    \/ \E r \in Requests : Retry(r)
    \/ ScanWaiter
    \/ ScanEnd
    \/ Tick
    \/ \E p \in Peers : SendPoll(p)
    \/ \E p \in Peers : BuildReport(p)
    \/ \E p \in Peers : AcceptReport(p)
    \/ \E p \in Peers : WakeReport(p)
    \/ \E p \in Peers : FailPoll(p)
    \/ \E p \in Peers : AgeReport(p)
    \/ \E p \in Peers : Forget(p)
    \/ \E p \in Peers : Join(p)
    \/ ChangeLocal

Spec == Init /\ [][Next]_vars

-----------------------------------------------------------------------------
\* A request's dispatch, a report, a poll that is under way, and a scan.
Dispatches == [at : {"new", "queued", "run", "going", "there", "refused", "release",
                     "wake", "next", "final", "done"},
               tried : SUBSET Targets, retries : 0..ForwardRetry,
               final : BOOLEAN, spent : BOOLEAN, served : BOOLEAN]
Reports == [lists : {TRUE}, fresh : BOOLEAN, sentAfter : BOOLEAN, before : SUBSET Requests,
            busy : Nat, images : PeerImages, up : BOOLEAN, unaware : SUBSET Requests]
SentPolls == [at : {"sent"}, sentAfter : BOOLEAN, before : SUBSET Requests]
BuiltPolls == [at : {"built"}, sentAfter : BOOLEAN, before : SUBSET Requests, busy : Nat,
               images : PeerImages, up : BOOLEAN, unaware : SUBSET Requests,
               missed : SUBSET Requests]
Scans == [on : {TRUE}, todo : Seq(Requests), unpinnedFull : BOOLEAN, imagesFull : BOOLEAN,
          progressed : BOOLEAN, reps : [Peers -> {NoReport} \cup Reports]]

\* The types of the router, the queue and the requests; the queue is bounded by
\* QueueMax and a scan looks only at waiters that are still queued.
TypeOK ==
    /\ localOK \in BOOLEAN /\ admitting \in BOOLEAN /\ silent \in BOOLEAN
    /\ healthy \subseteq Backends /\ wanted \subseteq Peers /\ missed \subseteq Requests
    /\ inFlight \in [Backends -> Nat]
    /\ lease \in [Requests -> Targets \cup {"none"}]
    /\ queue \in Seq(Requests) /\ Len(queue) <= QueueMax /\ IsInjective(queue)
    /\ req \in [Requests -> Dispatches]
    /\ report \in [Peers -> {NoReport} \cup Reports]
    /\ poll \in [Peers -> {NoPoll, [at |-> "wake"]} \cup SentPolls \cup BuiltPolls]
    /\ scan \in {NoScan} \cup Scans
    /\ scan.on => Range(scan.todo) \subseteq Range(queue)

Held(t) == {r \in Requests : lease[r] = t}

\* Router.mu and sync.Once of a Lease: every slot counted as in flight is held
\* by exactly one request, no backend runs more than its slots, and a request
\* that has ended or waits in the queue holds nothing, whichever of timeout,
\* cancellation and dispatch came first.
SlotsAccounted ==
    /\ \A b \in Backends : inFlight[b] = Cardinality(Held(b)) /\ inFlight[b] <= Slots[b]
    /\ \A r \in Requests :
        req[r].at \in {"new", "wake", "next", "final", "done"} \/ r \in Range(queue) => lease[r] = "none"

\* The types, and every slot counted as in flight is held by one request.
SlotsTyped == TypeOK /\ SlotsAccounted

\* No wake is on its way to the router.
Quiet ==
    /\ ~scan.on /\ ~silent
    /\ \A r \in Requests : req[r].at # "wake"
    /\ \A p \in Peers : poll[p].at # "wake"

\* Wake: a waiter that could be given a slot is about to be looked at, unless
\* the slot came by a change that only the tick finds.
NoLostWakeup ==
    Quiet => \A w \in Range(queue) : Pick(w, {}, report) \cap Targets = {}

\* dispatchLocked: "FIFO order is unchanged".  No waiter is given a slot while
\* an earlier one that could use it waits, both unpinned, even if a slot is
\* freed in the middle of a scan.
DispatchFifo ==
    [][\A i, j \in 1..Len(queue) :
        LET e == queue[i]
            l == queue[j]
        IN  /\ i < j /\ Host[e] = "any" /\ Host[l] = "any"
            /\ e \in Images => l \in Images
            /\ lease[l] = "none" /\ lease'[l] # "none"
            => e \notin Range(queue')]_vars

\* Refused (Decision 18): a request that a peer refused does not go back to it
\* on the strength of a report the peer built before it refused.
NotSentBack ==
    [][\A r \in Requests, p \in Peers :
        lease[r] # p /\ lease'[r] = p
        => r \notin (IF scan.on THEN scan.reps[p] ELSE report[p]).unaware]_vars

\* reservedLocked: this node has more forwards at a peer than it has slots only
\* by forwards still on their way when the peer built a report.
OverbookedOnlyByMissed ==
    \A p \in Peers : Cardinality(Held(p) \ missed) <= Slots[p]

\* dispatchLocked's comment: a waiter with an image completes with an error
\* "once every host says it reads none".
ImageWaiterAnswered ==
    Quiet => \A w \in Range(queue) : Pick(w, {}, report) # {"noImages"}

\* Run's tick and released: once the model is served and admitted for good,
\* every request is answered, though no queue timeout need ever fire.
EveryoneAnswered ==
    <>[](localOK /\ admitting /\ healthy = Backends)
        => <>(\A r \in Requests : req[r].at = "done")

=============================================================================
