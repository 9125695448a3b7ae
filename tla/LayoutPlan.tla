------------------------------ MODULE LayoutPlan -----------------------------
(***************************************************************************)
(* The layout the setup wizard proposes (internal/setup/plan): which cards *)
(* each chosen model gets, how many per backend, and the context per slot. *)
(* The planner is a pure function of the host and the chosen models; the   *)
(* module plans every small host once and compares the plan with what a    *)
(* plan must be.  Sizes are the code's, scaled down: Mib bytes make one    *)
(* unit of card memory.                                                    *)
(***************************************************************************)
EXTENDS Integers, Sequences, FiniteSets, FiniteSetsExt, SequencesExt, TLC

CONSTANTS Mib,           \* bytes in a unit of memory
          ContextSteps,  \* the contexts offered, smallest first
          OverheadMB,    \* reserved on every card of a backend
          Parallel,      \* slots of a backend
          MinHeadroom,   \* what a Mac always leaves free
          Vram,          \* the card sizes tried
          MaxCards, MaxModels,
          Chosen         \* the models tried: [size, kv, trained]; kv = -1 when the header does not say

VARIABLES host,    \* [apple, budget, cards] and the chosen models
          layout   \* the plan, or <<>> before it is made

planVars == <<host, layout>>

weightsMB(m) == (m.size + Mib - 1) \div Mib

\* The contexts m may be given, largest first, capped at its trained context.
steps(m) ==
  LET offered == SelectSeq(Reverse(ContextSteps), LAMBDA c : m.trained <= 0 \/ c <= m.trained)
  IN  IF offered = <<>> THEN <<m.trained>> ELSE offered
smallest(m) == Last(steps(m))

Certain(m) == m.kv >= 0
needMB(m, ctx, cards) ==
  LET kv == IF Certain(m) THEN m.kv ELSE 0
  IN  weightsMB(m) + ((kv * ctx * Parallel + Mib - 1) \div Mib) + cards * OverheadMB

\* A mutant: the cards' memory is added up.
capacityMBSum(cards) == FoldLeft(LAMBDA n, c : n + c.vram, 0, cards)

\* An even split: the smallest card bounds every share.
capacityMB(cards) == IF cards = <<>> THEN 0 ELSE Len(cards) * Min({c.vram : c \in ToSet(cards)})
\* Largest first, and in the given order among equals.
LargerModels(models) == SortSeq([i \in DOMAIN models |-> i],
                          LAMBDA i, j : LET a == weightsMB(models[i]) b == weightsMB(models[j])
                                        IN  a > b \/ (a = b /\ i < j))
LargerCards(cards) == SortSeq(cards, LAMBDA a, b : a.vram > b.vram \/ (a.vram = b.vram /\ a.index < b.index))

Fits(m, ctx, cards) == needMB(m, ctx, Len(cards)) <= capacityMB(cards)

-----------------------------------------------------------------------------
(* Separate cards                                                          *)

\* The fewest of the largest free cards that hold one backend of m.
Groups(m, free) == {k \in 1..Len(free) : Fits(m, smallest(m), SubSeq(free, 1, k))}

Place(acc, i) ==
  LET m == host.models[i]
      ks == Groups(m, acc.free)
  IN  IF ks = {} THEN [acc EXCEPT !.refused = @ \cup {i}]
      ELSE [acc EXCEPT !.placed = Append(@, [model |-> i, groups |-> <<SubSeq(acc.free, 1, Min(ks))>>]),
                       !.free = SubSeq(@, Min(ks) + 1, Len(@))]

\* One pass of the spare cards over the placed models: a whole group each.
Replicate(acc, p) ==
  LET g == acc.placed[p]
      k == Len(g.groups[1])
      next == SubSeq(acc.free, 1, k)
  IN  IF Len(acc.free) < k \/ ~Fits(host.models[g.model], smallest(host.models[g.model]), next) THEN acc
      ELSE [acc EXCEPT !.placed[p].groups = Append(@, next), !.free = SubSeq(@, k + 1, Len(@))]

\* Passes until one hands out nothing: a pass uses a card or is the last.
Replicas(acc) ==
  LET pass[n \in 0..MaxCards] ==
        IF n = 0 THEN acc
        ELSE FoldLeft(Replicate, pass[n - 1], [p \in DOMAIN acc.placed |-> p])
  IN  pass[MaxCards]

\* The largest context every group holds; the smallest when the estimate is
\* uncertain.
ContextOf(m, groups) ==
  LET fitting == SelectSeq(steps(m), LAMBDA c : \A g \in ToSet(groups) : Fits(m, c, g))
  IN  IF ~Certain(m) THEN smallest(m) ELSE IF fitting = <<>> THEN 0 ELSE Head(fitting)

Placement(g) ==
  [model |-> g.model, groups |-> g.groups, ctx |-> ContextOf(host.models[g.model], g.groups)]

Discrete ==
  LET order == LargerModels(host.models)
      first == FoldLeft(Place, [free |-> LargerCards(host.cards), placed |-> <<>>, refused |-> {}], order)
      all == Replicas(first)
  IN  [placed |-> [p \in DOMAIN all.placed |-> Placement(all.placed[p])], refused |-> all.refused, free |-> all.free]

-----------------------------------------------------------------------------
(* A Mac: one budget for every model                                       *)

Avail == host.budget - Max({MinHeadroom, (host.budget * 15) \div 100})

Admit(acc, i) ==
  LET m == host.models[i]
      need == needMB(m, smallest(m), 1)
  IN  IF acc.used + need > Avail THEN [acc EXCEPT !.refused = @ \cup {i}]
      ELSE [acc EXCEPT !.used = @ + need, !.placed = Append(@, [model |-> i, ctx |-> smallest(m)])]

\* The largest context the budget still allows, the model's own share given back.
Raise(acc, p) ==
  LET m == host.models[acc.placed[p].model]
      rest == acc.used - needMB(m, smallest(m), 1)
      larger == SelectSeq(steps(m), LAMBDA c : rest + needMB(m, c, 1) <= Avail)
  IN  IF ~Certain(m) \/ larger = <<>> THEN acc
      ELSE [acc EXCEPT !.placed[p].ctx = Head(larger), !.used = rest + needMB(m, Head(larger), 1)]

Unified ==
  LET admitted == FoldLeft(Admit, [used |-> 0, placed |-> <<>>, refused |-> {}], LargerModels(host.models))
  IN  FoldLeft(Raise, admitted, [p \in DOMAIN admitted.placed |-> p])

-----------------------------------------------------------------------------
PlanInit ==
  /\ host \in [apple : BOOLEAN, budget : {MinHeadroom + 1, MinHeadroom + 5, MinHeadroom * 9},
               cards : UNION {{[i \in 1..n |-> [index |-> i, vram |-> v[i]]] : v \in [1..n -> Vram]} : n \in 1..MaxCards},
               models : UNION {[1..n -> Chosen] : n \in 1..MaxModels}]
  /\ host.apple => Len(host.cards) = 1
  /\ ~host.apple => host.budget = MinHeadroom + 1
  /\ layout = <<>>

MakePlan ==
  /\ layout = <<>>
  /\ layout' = IF host.apple THEN Unified ELSE Discrete
  /\ UNCHANGED host

-----------------------------------------------------------------------------
\* A plan of separate cards gives no card away twice, and every backend of it
\* fits on its cards at the context it is given, which is the largest that does.
CardsPlanned ==
  layout # <<>> /\ ~host.apple =>
    LET given == FlattenSeq([p \in DOMAIN layout.placed |-> FlattenSeq(layout.placed[p].groups)])
    IN  /\ IsInjective(given \o layout.free)
        /\ ToSet(given \o layout.free) = ToSet(host.cards)
        /\ \A p \in DOMAIN layout.placed :
             LET g == layout.placed[p] m == host.models[g.model]
                 least == Min({c.vram : c \in ToSet(FlattenSeq(g.groups))})
             IN  /\ g.ctx \in ToSet(steps(m))
                 /\ \A grp \in ToSet(g.groups) : Len(grp) = Len(g.groups[1]) /\ needMB(m, g.ctx, Len(grp)) <= Len(grp) * least
                 /\ Certain(m) => \A c \in ToSet(steps(m)) :
                                    c > g.ctx => needMB(m, c, Len(g.groups[1])) > Len(g.groups[1]) * least

\* Nothing the planner leaves unused would have served: no choice of the spare
\* cards holds a refused model, or one more backend of a placed one.
SparesUseless ==
  layout # <<>> /\ ~host.apple =>
    \A spare \in SUBSET ToSet(layout.free) \ {{}} :
      LET holds(m) == needMB(m, smallest(m), Cardinality(spare)) <= Cardinality(spare) * Min({c.vram : c \in spare})
      IN  /\ \A i \in layout.refused : ~holds(host.models[i])
          /\ \A p \in DOMAIN layout.placed :
               Cardinality(spare) = Len(layout.placed[p].groups[1]) => ~holds(host.models[layout.placed[p].model])

\* A Mac's models stay together under the budget less its headroom, and one that
\* was refused would not have fitted beside the admitted ones at their smallest.
BudgetKept ==
  layout # <<>> /\ host.apple =>
    LET total(ctxOf(_)) == FoldLeft(LAMBDA n, p : n + needMB(host.models[p.model], ctxOf(p), 1), 0, layout.placed)
    IN  /\ layout.placed # <<>> => total(LAMBDA p : p.ctx) <= Avail
        /\ \A i \in layout.refused :
             total(LAMBDA p : smallest(host.models[p.model])) + needMB(host.models[i], smallest(host.models[i]), 1) > Avail

PlanSound == CardsPlanned /\ SparesUseless /\ BudgetKept
=============================================================================
