------------------------------ MODULE Selectors ------------------------------
(***************************************************************************)
(* The parent selectors (selector.rs) and the ensemble (ensemble.rs): what *)
(* each may choose from a ledger.  They read nodes() once and change       *)
(* nothing, so each is the set of the ids it may return, empty when it     *)
(* returns "no valid parent nodes in ledger".                              *)
(*                                                                         *)
(* Scores are integers, and weights are compared after multiplication by a *)
(* common denominator: the rounding of f64 is left out.  A 64-bit hash is  *)
(* any number from 0 to MaxHash.                                           *)
(***************************************************************************)
EXTENDS LineageStore, Integers, FiniteSetsExt

CONSTANTS
  MaxHash,     \* u64::MAX
  MaxChildren  \* bound: children of a node that weights tell apart

ASSUME SelectorAssumption == MaxHash \in Nat \ {0} /\ MaxChildren \in Nat

\* 0.0 for a node without a score: a root, a rollback, a NaN.
score_of(node) ==
  LET recorded == UNION node.eval_results
  IN IF recorded = {} THEN 0 ELSE CHOOSE score \in recorded : TRUE

\* Mutant: every node is a candidate.
AnyNode(all) == DOMAIN all

\* The positions of the nodes that may be a parent.
Valid(all) == {i \in DOMAIN all : all[i].valid_parent}

IdsAt(all, positions) == {all[i].agent_id : i \in positions}
Last(positions) == {i \in positions : \A j \in positions : j <= i}

-----------------------------------------------------------------------------
(* Deterministic strategies. *)

Latest(all) == Last(Valid(all))

\* Mutant: a later node replaces one of the same score.
BestKeepsLast(all) ==
  LET best[i \in 0 .. Len(all)] ==
        IF i = 0 THEN {}
        ELSE IF \/ i \notin Valid(all)
                \/ \E b \in best[i - 1] : score_of(all[b]) > score_of(all[i])
             THEN best[i - 1]
             ELSE {i}
  IN best[Len(all)]

\* One pass that replaces the best so far unless its score is at least as high.
Best(all) ==
  LET best[i \in 0 .. Len(all)] ==
        IF i = 0 THEN {}
        ELSE IF \/ i \notin Valid(all)
                \/ \E b \in best[i - 1] : score_of(all[b]) >= score_of(all[i])
             THEN best[i - 1]
             ELSE {i}
  IN best[Len(all)]

\* A stable sort by descending score: i comes before j.
Before(all, i, j) ==
  \/ score_of(all[i]) > score_of(all[j])
  \/ score_of(all[i]) = score_of(all[j]) /\ i < j

\* BestByMetric::top_k, the first k of the sorted valid nodes.
top_k(all, k) ==
  [rank \in 1 .. Min({k, Cardinality(Valid(all))}) |->
     CHOOSE i \in Valid(all) :
       Cardinality({j \in Valid(all) : Before(all, j, i)}) = rank - 1]

-----------------------------------------------------------------------------
(* Random strategies. *)

\* Any seed modulo the number of valid nodes.
Random(all) == Valid(all)

\* score.max(0.0)
Clamped(node) == Max({score_of(node), 0})

Children(all, i) == {j \in DOMAIN all : all[j].parent_id = Some(all[i].agent_id)}

\* A multiple of every 1 + children.
Denominator == ProductSet(1 .. MaxChildren + 1)

\* The weights of the valid nodes, by position.
ScoreWeights(all) == [i \in Valid(all) |-> Clamped(all[i])]

ScoreChildWeights(all) ==
  [i \in Valid(all) |->
     Clamped(all[i]) * (Denominator \div (1 + Cardinality(Children(all, i))))]

\* What the loop of weighted_choice has accumulated at position i.
Accumulated(weight, i) ==
  FoldFunctionOnSet(+, 0, weight, {j \in DOMAIN weight : j <= i})

Total(weight) == FoldFunction(+, 0, weight)

\* pseudo_unit(seed) * total, in units of 1 / MaxHash.
Draw(weight, hash) == hash * Total(weight)

\* Mutant: the bound of a node's interval belongs to the next node.
ReachesStrictly(weight, hash, i) ==
  Draw(weight, hash) < MaxHash * Accumulated(weight, i)

\* r <= acc.
Reaches(weight, hash, i) ==
  Draw(weight, hash) <= MaxHash * Accumulated(weight, i)

\* The last node when all weights are zero or the loop is exhausted.
weighted_choice(weight, hash) ==
  LET reached == {i \in DOMAIN weight : Reaches(weight, hash, i)}
  IN IF Total(weight) <= 0 \/ reached = {}
     THEN Last(DOMAIN weight)
     ELSE {Min(reached)}

Drawn(weight, hashes) == UNION {weighted_choice(weight, hash) : hash \in hashes}

ScoreProportional(all) == Drawn(ScoreWeights(all), 0 .. MaxHash)
ScoreChildProportional(all) == Drawn(ScoreChildWeights(all), 0 .. MaxHash)

-----------------------------------------------------------------------------
Strategies ==
  {"Latest", "Best", "Random", "ScoreProportional", "ScoreChildProportional"}

\* The positions a strategy may choose, and the ids it may return.
Chosen(strategy, all) ==
  CASE strategy = "Latest"                 -> Latest(all)
    [] strategy = "Best"                   -> Best(all)
    [] strategy = "Random"                 -> Random(all)
    [] strategy = "ScoreProportional"      -> ScoreProportional(all)
    [] strategy = "ScoreChildProportional" -> ScoreChildProportional(all)

select(strategy) == IdsAt(AllNodes, Chosen(strategy, AllNodes))

-----------------------------------------------------------------------------
(* Properties, of every ledger the runner can make. *)

\* "Implementations must only consider Promoted nodes": no strategy returns a
\* rejected one, and each fails only when there is none to return, although
\* the code asks for valid_parent and never for the status.
SelectsPromoted ==
  \A strategy \in Strategies :
    LET ids == select(strategy) IN
    /\ \A id \in ids : nodes[id].status = Promoted
    /\ ids = {} => \A id \in DOMAIN nodes : nodes[id].status = Rejected

\* The single pass of Best and the sort of BestByMetric agree on the winner,
\* ties included, and a larger ensemble extends a smaller one.
BestLeadsEnsemble ==
  LET all == AllNodes
      ranking == top_k(all, Len(all))
  IN /\ Best(all) = {ranking[rank] : rank \in DOMAIN ranking \cap {1}}
     /\ \A k \in 0 .. Len(all) : \A rank \in DOMAIN top_k(all, k) :
          top_k(all, k)[rank] = ranking[rank]

\* While any node has weight, every such node can be chosen and, but for the
\* hash 0, no other: the fallback to the last node does not show.
WeightsDecide ==
  \A weight \in {ScoreWeights(AllNodes), ScoreChildWeights(AllNodes)} :
    LET heavy == {i \in DOMAIN weight : weight[i] > 0}
    IN heavy # {} => Drawn(weight, 1 .. MaxHash) = heavy

=============================================================================
