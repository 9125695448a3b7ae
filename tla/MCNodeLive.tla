----------------------------- MODULE MCNodeLive -----------------------------
(* Parts of a node that do not touch one another's state, side by side: a  *)
(* behaviour is one of one part, the one active names.  The parts here     *)
(* promise that something happens in the end.                              *)
EXTENDS LoadGate, Membership, NodeModels, UpdateRollout, SessionShare

\* Sender 1 answers two turns of the conversation, sender 2 one.
MCTurns == <<2, 1>>

\* The fleets an operator may update: host 2 is the entry node.  They differ in
\* who serves what, what the hosts answer, and what the operator asks for.
Fleet == [entry |-> 2, secured |-> TRUE, signer |-> TRUE, selected |-> {}, downgrade |-> FALSE, parallel |-> 2,
          says |-> [h \in Hosts |-> "ready"], serves |-> [h \in Hosts |-> {1}], loading |-> {}]
MCFleets ==
  {[Fleet EXCEPT !.serves = s] : s \in {<<{1}, {1}, {2}>>, <<{1}, {1, 2}, {1, 2}>>}} \cup
  {[Fleet EXCEPT !.serves = <<{1}, {2}, {1}>>, !.loading = {3}],
   [Fleet EXCEPT !.parallel = 1, !.loading = {1}],
   [Fleet EXCEPT !.parallel = 3, !.says = <<"ready", "off", "ready">>],
   [Fleet EXCEPT !.secured = FALSE],
   [Fleet EXCEPT !.signer = FALSE],
   [Fleet EXCEPT !.selected = {1}],
   [Fleet EXCEPT !.selected = {7}],
   [Fleet EXCEPT !.says = <<"current", "mute", "newer">>],
   [Fleet EXCEPT !.says = <<"dead", "ready", "newer">>, !.serves = <<{}, {1}, {1}>>, !.downgrade = TRUE],
   [Fleet EXCEPT !.says = <<"floor", "current", "ready">>]}

VARIABLE active

On(part) == active = part /\ UNCHANGED active

LiveInit ==
  /\ active \in {"gate", "mesh", "models", "rollout", "share"}
  /\ Init /\ MeshInit /\ NodeInit /\ RolloutInit /\ ShareInit
  /\ active # "rollout" => fleet = [Fleet EXCEPT !.secured = FALSE]

LiveNext ==
  \/ On("gate") /\ Next /\ UNCHANGED <<meshVars, nodeVars, rolloutVars, shareVars>>
  \/ On("mesh") /\ MeshNext /\ UNCHANGED <<vars, nodeVars, rolloutVars, shareVars>>
  \/ On("models") /\ NodeNext /\ UNCHANGED <<vars, meshVars, rolloutVars, shareVars>>
  \/ On("rollout") /\ RolloutNext /\ UNCHANGED <<vars, meshVars, nodeVars, shareVars>>
  \/ On("share") /\ ShareNext /\ UNCHANGED <<vars, meshVars, nodeVars, rolloutVars>>

LiveSpec ==
  LiveInit /\ [][LiveNext]_<<active, vars, meshVars, nodeVars, rolloutVars, shareVars>>
-----------------------------------------------------------------------------
\* The types of the parts; and an update of the fleet takes no model away and
\* goes on wave by wave (UpdateRollout).
RolloutOrderly ==
  /\ [](TypeOK /\ MeshTypeOK /\ NodeTypeOK /\ RolloutTypeOK /\ ShareTypeOK)
  /\ StaysKeptUp /\ OneWaveAtATime

\* What a node knows of the others follows them: who stays away is forgotten,
\* who stays is known, and "left" is said only of members that announced it
\* (Membership).
MembersTracked == LeftWasAnnounced /\ (active = "mesh" /\ MeshFairness => GoneForgotten /\ StayingKnown)

\* What the parts promise to bring about: a queued load is granted, the last
\* valid configuration is in force, a save of a conversation settles, and an
\* update of the fleet comes to its end.
PartsSettle ==
  /\ active = "gate" /\ Fairness => EveryWaiterServed
  /\ active = "models" /\ NodeFairness => LastEditApplied
  /\ active = "share" /\ ShareFairness => EverySaveSettles
  /\ active = "rollout" /\ RolloutFairness => RolloutEnds
=============================================================================
