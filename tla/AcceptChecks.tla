---------------------------- MODULE AcceptChecks -----------------------------
(***************************************************************************)
(* The acceptance checks an operator runs against a node or its mesh       *)
(* (internal/accept/membership.go): wait until a member has joined, until  *)
(* a node's models are ready, until a member is gone.  Each polls a moving *)
(* system through requests that may fail and reports pass or fail.  The    *)
(* member's state in the observer's view and the node's models are         *)
(* external.                                                               *)
(***************************************************************************)
EXTENDS Naturals, FiniteSets

CONSTANTS
    Expect,       \* model names
    WaitTimeout,  \* the check's timeout, in clock ticks
    PollEvery,    \* its poll period
    RequestLimit  \* and the longest one request may take

VARIABLES
    check,    \* the command: "join", "ready", or "gone" with the state expected
    world,    \* [member, models]: the observer's and the node's present truth
    elapsed,  \* since the check started
    resumeAt, \* when the next poll is due
    found,    \* what the polls found so far, see Nothing
    lastPoll, \* the world at the last answered poll, or NoPoll
    backed,   \* the models some answered poll showed a healthy backend of
    report    \* "running", or the checks that passed: [passed, failed]

acceptVars == <<check, world, elapsed, resumeAt, found, lastPoll, backed, report>>

Commands == {"join", "ready", "gone", "gone left", "gone dead"}

MemberStates == {"absent", "alive", "suspect", "dead", "left"}

\* A model in a node's status: not listed, or the health of its two backends.
ModelStates == {"unlisted", "starting", "mixed", "healthy"}

NoPoll == [member |-> "none", models |-> [m \in Expect |-> "unlisted"]]

Nothing == [listed |-> {}, first |-> FALSE, ready |-> {},
            started |-> FALSE, startState |-> "", gone |-> FALSE, settled |-> FALSE]

StillRunning == [passed |-> {}, failed |-> {"running"}]

AcceptInit ==
    /\ check \in Commands
    /\ world \in [member : {"alive"}, models : [Expect -> {"starting", "unlisted"}]]
                 \cup [member : {"absent"}, models : {[m \in Expect |-> "starting"]}]
    /\ elapsed = 0 /\ resumeAt = 0
    /\ found = Nothing /\ lastPoll = NoPoll /\ backed = {}
    /\ report = StillRunning

\* The member comes, is suspected, refutes it, dies or leaves (external).
MemberMoves(to) ==
    /\ report = StillRunning /\ check # "ready"
    /\ to # world.member /\ ~(world.member = "absent" /\ to # "alive")
    /\ world' = [world EXCEPT !.member = to]
    /\ UNCHANGED <<check, elapsed, resumeAt, found, lastPoll, backed, report>>

\* A model is listed, loads, loses a backend, is taken off (external).
ModelMoves(m, to) ==
    /\ report = StillRunning /\ check \in {"join", "ready"} /\ to # world.models[m]
    /\ world' = [world EXCEPT !.models[m] = to]
    /\ UNCHANGED <<check, elapsed, resumeAt, found, lastPoll, backed, report>>

\* Time passes up to the next poll.
AcceptClock ==
    /\ report = StillRunning /\ elapsed < resumeAt
    /\ elapsed' = elapsed + 1
    /\ UNCHANGED <<check, world, resumeAt, found, lastPoll, backed, report>>

------------------------------------------------------------------------------
(* The checks' polls: what one answer adds, and whether the wait is over. *)

ListedNow == {m \in Expect : world.models[m] # "unlisted"}

BackedNow == {m \in Expect : world.models[m] \in {"mixed", "healthy"}}

\* WaitJoin: alive, with a status that lists every expected model.
JoinDone == world.member = "alive" /\ ListedNow = Expect

\* WaitReady: the models of the first answer, each timed once.
ReadyFound ==
    LET listed == IF found.first THEN found.listed ELSE ListedNow
    IN  [found EXCEPT !.first = TRUE, !.listed = listed,
                      !.ready = @ \cup (listed \cap BackedNow)]

ReadyDone == ReadyFound.ready = ReadyFound.listed

WantState == check \in {"gone left", "gone dead"}

\* WaitGone: alive first, then gone, then (with an expected state) settled; a
\* member that is alive again was only suspected.
GoneFoundKept ==
    IF ~found.started
    THEN [found EXCEPT !.started = world.member = "alive", !.startState = world.member]
    ELSE IF world.member = "alive" THEN found
    ELSE [found EXCEPT !.gone = TRUE, !.settled = WantState /\ world.member # "suspect"]

GoneFound ==
    IF ~found.started
    THEN [found EXCEPT !.started = world.member = "alive", !.startState = world.member]
    ELSE IF world.member = "alive" THEN [found EXCEPT !.gone = FALSE]
    ELSE [found EXCEPT !.gone = TRUE, !.settled = WantState /\ world.member # "suspect"]

GoneDone ==
    IF ~found.started THEN world.member # "alive"
    ELSE world.member # "alive" /\ (WantState => world.member # "suspect")

------------------------------------------------------------------------------
(* The reports. *)

Verdict(pass, fail) == [passed |-> pass, failed |-> fail]

JoinReport(done) == IF done THEN Verdict({"joined"}, {}) ELSE Verdict({}, {"joined"})

\* One check per model of the first answer, and the last answer's backends.
ReadyReport(f, last) ==
    IF ~f.first THEN Verdict({}, {"status reachable"}) ELSE
    LET allHealthy == \A m \in Expect : last.models[m] \in {"unlisted", "healthy"}
    IN  Verdict(f.ready \cup IF allHealthy THEN {"all backends healthy"} ELSE {},
                (f.listed \ f.ready) \cup IF allHealthy THEN {} ELSE {"all backends healthy"})

GoneReport(f, last) ==
    LET want == CASE check = "gone left" -> "left" [] check = "gone dead" -> "dead" [] OTHER -> ""
        state == IF want = "" THEN {} ELSE {"state"}
        right == f.settled /\ last.member = want
    IN  IF ~f.started THEN Verdict({}, {"member at start"})
        ELSE Verdict((IF f.gone THEN {"gone"} ELSE {}) \cup (IF right THEN state ELSE {}),
                     (IF f.gone THEN {} ELSE {"gone"}) \cup (IF right THEN {} ELSE state))

Reported(done, f, last) ==
    CASE check = "join"  -> JoinReport(done)
      [] check = "ready" -> ReadyReport(f, last)
      [] OTHER           -> GoneReport(f, last)

------------------------------------------------------------------------------
(* pollUntil. *)

\* After a poll that took `took': over, timed out, or asleep until the next,
\* never past the timeout.
PollEnds(done, f, last, took) ==
    LET now == elapsed + took
    IN  /\ elapsed' = now
        /\ found' = f /\ lastPoll' = last
        /\ IF done \/ now >= WaitTimeout
           THEN report' = Reported(done, f, last) /\ UNCHANGED resumeAt
           ELSE /\ resumeAt' = now + IF PollEvery < WaitTimeout - now THEN PollEvery ELSE WaitTimeout - now
                /\ UNCHANGED report
    /\ UNCHANGED <<check, world>>

PollDue == report = StillRunning /\ elapsed = resumeAt

\* getJSON answered: the answer is the world at some instant of the request.
PollAnswered(took) ==
    /\ PollDue
    /\ LET f == CASE check = "join" -> found [] check = "ready" -> ReadyFound [] OTHER -> GoneFound
           done == CASE check = "join" -> JoinDone [] check = "ready" -> ReadyDone [] OTHER -> GoneDone
       IN  PollEnds(done, f, world, took)
    /\ backed' = backed \cup BackedNow

\* getJSON failed, by an error or its own deadline.
PollFailed(took) ==
    /\ PollDue
    /\ PollEnds(FALSE, found, lastPoll, took)
    /\ UNCHANGED backed

\* The operator interrupts: a wait that was not done fails, a model already
\* timed stays ready, a member already seen gone stays gone.
Interrupted ==
    /\ report = StillRunning
    /\ report' = Reported(FALSE, found, lastPoll)
    /\ UNCHANGED <<check, world, elapsed, resumeAt, found, lastPoll, backed>>

AcceptNext ==
    \/ \E to \in MemberStates : MemberMoves(to)
    \/ \E m \in Expect, to \in ModelStates : ModelMoves(m, to)
    \/ AcceptClock
    \/ \E took \in 0..RequestLimit : PollAnswered(took) \/ PollFailed(took)
    \/ Interrupted

AcceptSpec == AcceptInit /\ [][AcceptNext]_acceptVars

------------------------------------------------------------------------------
(* Properties. *)

AcceptTypeOK ==
    /\ check \in Commands /\ world.member \in MemberStates
    /\ world.models \in [Expect -> ModelStates]
    /\ resumeAt \in 0..WaitTimeout /\ elapsed \in 0..(WaitTimeout + RequestLimit)

Passes == report.failed = {}

\* A passing join was seen: alive, with every expected model, in the last
\* answer (WaitJoin).
JoinSeen ==
    check = "join" /\ Passes => lastPoll.member = "alive" /\ \A m \in Expect : lastPoll.models[m] # "unlisted"

\* A passing ready saw every model of the first answer with a healthy backend
\* once, and no unhealthy backend in the last answer (WaitReady).
ReadySeen ==
    check = "ready" /\ Passes => found.listed \subseteq backed /\ \A m \in Expect : lastPoll.models[m] \in {"unlisted", "healthy"}

\* "gone" passes only if the last answer showed the member not alive: a refuted
\* suspicion does not count, whatever failed after it (WaitGone).
GoneSeen ==
    check \in {"gone", "gone left", "gone dead"} /\ "gone" \in report.passed => lastPoll.member \notin {"alive", "none"}

\* An expected state passes only in that state, never in suspect.
StateSeen ==
    check \in {"gone left", "gone dead"} /\ "state" \in report.passed =>
        <<check, lastPoll.member>> \in {<<"gone left", "left">>, <<"gone dead", "dead">>} /\ "gone" \in report.passed

\* No poll starts after the timeout, so a check ends within it and one request.
WaitBounded == resumeAt <= WaitTimeout /\ elapsed <= WaitTimeout + RequestLimit

\* A check that passes was justified by what it saw, and every check ends.
ChecksHonest ==
    AcceptTypeOK /\ JoinSeen /\ ReadySeen /\ GoneSeen /\ StateSeen /\ WaitBounded
==============================================================================
