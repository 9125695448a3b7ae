---------------------------- MODULE MCSupervisor ----------------------------
(* How a host's model list changes.  Swap: two models, one of them         *)
(* fetched, change places with one that needs both their GPUs.  Chain:     *)
(* three Applies hand one GPU from model to model.  Wide, a run of its     *)
(* own: a model with two backends beside another one.                      *)
EXTENDS Supervisor, TLC

CONSTANTS a1, a2, b1, c1, d1

MCModelName == a1 :> "A" @@ a2 :> "A" @@ b1 :> "B" @@ c1 :> "C" @@ d1 :> "D"
MCGpus == a1 :> <<{1}, {2}>> @@ a2 :> <<{1}>> @@ b1 :> <<{2}>> @@ c1 :> <<{1, 2}>>
          @@ d1 :> <<{3}>>
MCLists == {<<a2, b1>>, <<a2>>, <<c1>>}
WideLists == {<<a1, d1>>, <<a2, b1>>}

Swap == applies <= 2
Chain == \A i \in Instances : conf[i] # b1
SwapOrChain == Swap \/ Chain
=============================================================================
