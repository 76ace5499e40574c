---------------------------- MODULE DriverProofs ----------------------------
(***************************************************************************)
(* Theorems about the selectors and the evolution driver, for every        *)
(* strategy, every set of tasks and every choice the host makes.           *)
(***************************************************************************)
EXTENDS EvolutionDriver, VehProofs, NumberProofs

-----------------------------------------------------------------------------
(* A strategy chooses among the valid nodes, and chooses if there are any. *)

ChoosesFrom(chosen, valid) ==
  chosen \subseteq valid /\ (chosen = {} => valid = {})

LEMMA LastChooses ==
  ASSUME NEW n \in Nat, NEW positions \in SUBSET (1 .. n)
  PROVE  ChoosesFrom(Last(positions), positions)
<1>1. positions \in SUBSET (0 .. n)
  OBVIOUS
<1>2. positions # {} => \E i \in positions : \A j \in positions : j <= i
  BY <1>1, GreatestNumber
<1> QED
  BY <1>2 DEF Last, ChoosesFrom

\* What the pass of Best makes at position i of the best so far.
Beaten(all, i, best) ==
  i \notin Valid(all) \/ \E b \in best : score_of(all[b]) >= score_of(all[i])

After(all, i, best) == IF Beaten(all, i, best) THEN best ELSE {i}

\* The recursive definition has a solution, and Best is its last value.
LEMMA BestPasses ==
  ASSUME NEW all, Len(all) \in Nat
  PROVE  \E best :
           /\ best[0] = {}
           /\ \A i \in 0 .. Len(all) : i < Len(all) =>
                best[i + 1] = After(all, i + 1, best[i])
           /\ Best(all) = best[Len(all)]
<1> DEFINE n == Len(all)
           Pass(best) ==
             best = [i \in 0 .. n |-> IF i = 0 THEN {} ELSE After(all, i, best[i - 1])]
           best == CHOOSE best : Pass(best)
<1>1. Best(all) = best[n]
  BY Zenon DEF Best, After, Beaten
<1>2. Pass(best)
  <2> SUFFICES \E f : Pass(f)
    BY Zenon
  <2> DEFINE Sets == SUBSET (1 .. n)
             step == [p \in (1 .. n) \X Sets |-> After(all, p[1], p[2])]
  <2>1. \A i \in 1 .. n, b \in Sets : step[<<i, b>>] = After(all, i, b)
    OBVIOUS
  <2>2. {} \in Sets /\ IsBody(step, n, Sets)
    BY DEF IsBody, After
  <2> HIDE DEF step, Sets
  <2>3. PICK f : IsRun(f, step, n, Sets, {})
    BY <2>2, LoopTo
  <2>4. \A i \in 1 .. n : f[i] = After(all, i, f[i - 1])
    <3> TAKE i \in 1 .. n
    <3>1. f[i - 1] \in Sets
      BY <2>3 DEF IsRun
    <3> QED
      BY <2>1, <2>3, <3>1 DEF IsRun
  <2>5. f = [i \in 0 .. n |-> IF i = 0 THEN {} ELSE After(all, i, f[i - 1])]
    BY <2>3, <2>4 DEF IsRun
  <2> QED
    BY <2>5, Zenon
<1> HIDE DEF best
<1>3. /\ best[0] = {}
      /\ \A i \in 1 .. n : best[i] = After(all, i, best[i - 1])
  <2> DEFINE next == [i \in 0 .. n |-> IF i = 0 THEN {} ELSE After(all, i, best[i - 1])]
  <2>1. next[0] = {} /\ \A i \in 1 .. n : next[i] = After(all, i, best[i - 1])
    OBVIOUS
  <2> HIDE DEF next
  <2>2. best = next
    BY <1>2, Zenon DEF next
  <2> QED
    BY <2>1, <2>2
<1>4. ASSUME NEW i \in 0 .. n, i < n
      PROVE  best[i + 1] = After(all, i + 1, best[i])
  <2>1. i + 1 \in 1 .. n /\ (i + 1) - 1 = i
    BY <1>4
  <2> QED
    BY <1>3, <2>1
<1> QED
  BY <1>1, <1>3, <1>4

LEMMA BestChooses ==
  ASSUME NEW all, Len(all) \in Nat, DOMAIN all = 1 .. Len(all)
  PROVE  ChoosesFrom(Best(all), Valid(all))
<1> DEFINE n == Len(all)
           valid == Valid(all)
<1>1. PICK best :
        /\ best[0] = {}
        /\ \A i \in 0 .. n : i < n => best[i + 1] = After(all, i + 1, best[i])
        /\ Best(all) = best[n]
  BY BestPasses
<1> DEFINE upTo(i) == valid \cap (1 .. i)
           good == {i \in 0 .. n : ChoosesFrom(best[i], upTo(i))}
<1>2. 0 \in good
  BY <1>1 DEF ChoosesFrom
<1>3. ASSUME NEW i \in 0 .. n, i < n, i \in good
      PROVE  i + 1 \in good
  <2>1. ChoosesFrom(best[i], upTo(i)) /\ i + 1 \in 0 .. n
    BY <1>3
  <2>2. best[i + 1] = After(all, i + 1, best[i])
    BY <1>1, <1>3
  <2>3. CASE i + 1 \in valid
    <3>1. upTo(i) \subseteq upTo(i + 1) /\ i + 1 \in upTo(i + 1)
      BY <2>3
    <3> QED
      BY <2>1, <2>2, <2>3, <3>1 DEF ChoosesFrom, After, Beaten
  <2>4. CASE i + 1 \notin valid
    <3>1. upTo(i + 1) = upTo(i)
      BY <2>4
    <3> QED
      BY <2>1, <2>2, <2>4, <3>1 DEF After, Beaten
  <2> QED
    BY <2>3, <2>4
<1> HIDE DEF good
<1>4. \A i \in 0 .. n : i \in good
  BY <1>2, <1>3, InductionTo
<1>5. n \in good /\ upTo(n) = valid
  BY <1>4 DEF Valid
<1> QED
  BY <1>1, <1>5 DEF good

\* The nodes of a set that no other comes before in a descending sort.
Leaders(all, S) == {i \in S : \A j \in S : ~Before(all, j, i)}

LEMMA BestLeads ==
  ASSUME NEW all, Len(all) \in Nat, DOMAIN all = 1 .. Len(all),
         \A i \in 1 .. Len(all) : score_of(all[i]) \in Int
  PROVE  Best(all) = Leaders(all, Valid(all))
<1> DEFINE n == Len(all)
           valid == Valid(all)
<1>1. PICK best :
        /\ best[0] = {}
        /\ \A i \in 0 .. n : i < n => best[i + 1] = After(all, i + 1, best[i])
        /\ Best(all) = best[n]
  BY BestPasses
<1> DEFINE upTo(i) == valid \cap (1 .. i)
           good == {i \in 0 .. n : /\ best[i] = Leaders(all, upTo(i))
                                   /\ best[i] = {} => upTo(i) = {}}
<1>2. 0 \in good
  BY <1>1 DEF Leaders
<1>3. ASSUME NEW i \in 0 .. n, i < n, i \in good
      PROVE  i + 1 \in good
  <2>1. /\ best[i] = Leaders(all, upTo(i)) /\ (best[i] = {} => upTo(i) = {})
        /\ i + 1 \in 0 .. n
    BY <1>3
  <2>2. best[i + 1] = After(all, i + 1, best[i])
    BY <1>1, <1>3
  <2>3. CASE i + 1 \notin valid
    <3>1. upTo(i + 1) = upTo(i)
      BY <2>3
    <3> QED
      BY <2>1, <2>2, <2>3, <3>1 DEF After, Beaten
  <2>4. CASE i + 1 \in valid
    <3>1. /\ upTo(i + 1) = upTo(i) \cup {i + 1}
          /\ \A j \in upTo(i) : j \in Int /\ j < i + 1 /\ score_of(all[j]) \in Int
          /\ score_of(all[i + 1]) \in Int
      BY <2>1, <2>4
    <3> HIDE DEF upTo
    <3>2. CASE \E b \in best[i] : score_of(all[b]) >= score_of(all[i + 1])
      <4>1. PICK b \in upTo(i) : /\ \A j \in upTo(i) : ~Before(all, j, b)
                                 /\ score_of(all[b]) >= score_of(all[i + 1])
        BY <2>1, <3>2 DEF Leaders
      <4>2. Before(all, b, i + 1) /\ \A j \in best[i] : ~Before(all, i + 1, j)
        BY <2>1, <3>1, <4>1 DEF Before, Leaders
      <4>3. Leaders(all, upTo(i + 1)) = Leaders(all, upTo(i))
        BY <2>1, <3>1, <4>1, <4>2 DEF Leaders
      <4> QED
        BY <2>1, <2>2, <3>2, <4>1, <4>3 DEF After, Beaten
    <3>3. CASE ~\E b \in best[i] : score_of(all[b]) >= score_of(all[i + 1])
      <4>1. best[i + 1] = {i + 1}
        BY <2>2, <2>4, <3>3 DEF After, Beaten
      <4>2. \A j \in upTo(i) : Before(all, i + 1, j) /\ ~Before(all, j, i + 1)
        <5>1. ASSUME NEW b \in best[i]
              PROVE  \A j \in upTo(i) : score_of(all[j]) < score_of(all[i + 1])
          BY <2>1, <3>1, <3>3, <5>1 DEF Leaders, Before
        <5>2. \A j \in upTo(i) : score_of(all[j]) < score_of(all[i + 1])
          BY <2>1, <5>1
        <5> QED
          BY <3>1, <5>2 DEF Before
      <4>3. Leaders(all, upTo(i + 1)) = {i + 1}
        BY <3>1, <4>2 DEF Leaders, Before
      <4> QED
        BY <2>1, <4>1, <4>3
    <3> QED
      BY <3>2, <3>3
  <2> QED
    BY <2>3, <2>4
<1> HIDE DEF good
<1>4. \A i \in 0 .. n : i \in good
  BY <1>2, <1>3, InductionTo
<1>5. n \in good /\ upTo(n) = valid
  BY <1>4 DEF Valid
<1> QED
  BY <1>1, <1>5 DEF good

LEMMA MinOfTwo ==
  ASSUME NEW a \in Int, NEW b \in Int
  PROVE  Min({a, b}) = IF a <= b THEN a ELSE b
<1>1. \E x \in {a, b} : \A y \in {a, b} : x <= y
  OBVIOUS
<1>2. Min({a, b}) \in {a, b} /\ \A y \in {a, b} : Min({a, b}) <= y
  BY <1>1 DEF Min
<1> QED
  BY <1>2

\* Each rank of an ensemble is filled by the same choice, whatever its size,
\* and the first by the leader.
LEMMA EnsembleRanks ==
  ASSUME NEW all, Len(all) \in Nat, DOMAIN all = 1 .. Len(all),
         \A i \in 1 .. Len(all) : score_of(all[i]) \in Int
  PROVE  /\ Best(all) = {top_k(all, Len(all))[rank] :
                           rank \in DOMAIN top_k(all, Len(all)) \cap {1}}
         /\ \A k \in 0 .. Len(all) : \A rank \in DOMAIN top_k(all, k) :
              top_k(all, k)[rank] = top_k(all, Len(all))[rank]
<1> DEFINE n == Len(all)
           valid == Valid(all)
           c == Cardinality(valid)
           ahead(i) == {j \in valid : Before(all, j, i)}
           ranked(rank) == CHOOSE i \in valid : Cardinality(ahead(i)) = rank - 1
<1>1. \A k : top_k(all, k) = [rank \in 1 .. Min({k, c}) |-> ranked(rank)]
  BY Zenon DEF top_k
<1>2. IsFiniteSet(valid) /\ c \in Nat /\ c <= n
  <2>1. IsFiniteSet(1 .. n) /\ Cardinality(1 .. n) = n
    BY FS_Interval
  <2>2. valid \in SUBSET (1 .. n)
    BY DEF Valid
  <2> QED
    BY <2>1, <2>2, FS_Subset, FS_CardinalityType
<1>3. \A k \in 0 .. n : Min({k, c}) = IF k <= c THEN k ELSE c
  BY <1>2, MinOfTwo
<1>4. Min({n, c}) = c
  BY <1>2, <1>3
<1>5. ASSUME NEW k \in 0 .. n, NEW rank \in DOMAIN top_k(all, k)
      PROVE  top_k(all, k)[rank] = top_k(all, n)[rank]
  <2>1. rank \in 1 .. Min({k, c})
    BY <1>1
  <2>2. rank \in 1 .. c
    BY <1>2, <1>3, <2>1
  <2> HIDE DEF ranked, c
  <2> QED
    BY <1>1, <1>4, <2>1, <2>2
<1>6. Best(all) = Leaders(all, valid) /\ ChoosesFrom(Best(all), valid)
  BY BestLeads, BestChooses
<1>7. CASE valid = {}
  <2>1. c = 0 /\ Best(all) = {}
    BY <1>6, <1>7, FS_EmptySet DEF Leaders
  <2>2. DOMAIN top_k(all, n) = 1 .. 0
    BY <1>1, <1>4, <2>1
  <2> QED
    BY <1>5, <2>1, <2>2
<1>8. CASE valid # {}
  <2>1. c # 0
    BY <1>2, <1>8, FS_EmptySet
  <2>2. 1 \in DOMAIN top_k(all, n) /\ top_k(all, n)[1] = ranked(1)
    <3>1. 1 \in 1 .. c
      BY <1>2, <2>1
    <3> HIDE DEF ranked, c
    <3> QED
      BY <1>1, <1>4, <3>1
  <2>3. \A i \in valid : Cardinality(ahead(i)) = 0 <=> i \in Leaders(all, valid)
    <3> TAKE i \in valid
    <3>1. IsFiniteSet(ahead(i))
      BY <1>2, FS_Subset
    <3> QED
      BY <3>1, FS_EmptySet DEF Leaders
  <2>4. \A i, j \in Leaders(all, valid) : i = j
    BY DEF Leaders, Before, Valid
  <2>5. \E i \in Leaders(all, valid) : i \in valid
    BY <1>6, <1>8 DEF ChoosesFrom
  <2>6. ranked(1) \in Leaders(all, valid)
    BY <2>3, <2>5
  <2>7. Best(all) = {ranked(1)}
    BY <1>6, <2>4, <2>6
  <2> QED
    BY <1>5, <2>2, <2>7
<1> QED
  BY <1>7, <1>8

LEMMA WeightedChooses ==
  ASSUME NEW n \in Nat, NEW weight, DOMAIN weight \in SUBSET (1 .. n), NEW hash
  PROVE  ChoosesFrom(weighted_choice(weight, hash), DOMAIN weight)
<1> DEFINE reached == {i \in DOMAIN weight : Reaches(weight, hash, i)}
<1>1. CASE reached # {}
  <2>1. reached \in SUBSET Nat
    OBVIOUS
  <2>2. Min(reached) \in reached
    BY <1>1, <2>1, LeastNumber DEF Min
  <2> QED
    BY <1>1, <2>2, LastChooses DEF weighted_choice, ChoosesFrom
<1>2. CASE reached = {}
  BY <1>2, LastChooses DEF weighted_choice
<1> QED
  BY <1>1, <1>2

LEMMA DrawnChooses ==
  ASSUME NEW n \in Nat, NEW weight, DOMAIN weight \in SUBSET (1 .. n)
  PROVE  ChoosesFrom(Drawn(weight, 0 .. MaxHash), DOMAIN weight)
<1>1. 0 \in 0 .. MaxHash
  BY SelectorAssumption
<1>2. \A hash : ChoosesFrom(weighted_choice(weight, hash), DOMAIN weight)
  BY WeightedChooses
<1>3. Drawn(weight, 0 .. MaxHash) \subseteq DOMAIN weight
  BY <1>2 DEF Drawn, ChoosesFrom
<1>4. weighted_choice(weight, 0) \subseteq Drawn(weight, 0 .. MaxHash)
  BY <1>1 DEF Drawn
<1> QED
  BY <1>2, <1>3, <1>4 DEF ChoosesFrom

LEMMA StrategyChooses ==
  ASSUME NEW all, Len(all) \in Nat, DOMAIN all = 1 .. Len(all),
         NEW strategy \in Strategies
  PROVE  ChoosesFrom(Chosen(strategy, all), Valid(all))
<1>1. Valid(all) \in SUBSET (1 .. Len(all))
  BY DEF Valid
<1>2. DOMAIN ScoreWeights(all) = Valid(all) /\ DOMAIN ScoreChildWeights(all) = Valid(all)
  BY DEF ScoreWeights, ScoreChildWeights
<1>3. /\ ChoosesFrom(Latest(all), Valid(all))
      /\ ChoosesFrom(Best(all), Valid(all))
      /\ ChoosesFrom(Random(all), Valid(all))
      /\ ChoosesFrom(ScoreProportional(all), Valid(all))
      /\ ChoosesFrom(ScoreChildProportional(all), Valid(all))
  BY <1>1, <1>2, LastChooses, BestChooses, DrawnChooses
  DEF Latest, Random, ScoreProportional, ScoreChildProportional, ChoosesFrom
<1> QED
  BY <1>3 DEF Strategies, Chosen

\* The recorded score of a node is a number, 0 for a node without one.
LEMMA ScoreIsNumber ==
  ASSUME NEW node, IsAgentNode(node)
  PROVE  score_of(node) \in Int
<1>1. node.eval_results = {} \/ \E score \in Scores : node.eval_results = {score}
  BY DEF IsAgentNode, Option, Some, None
<1>2. UNION node.eval_results = {} \/ \E score \in Scores : UNION node.eval_results = score
  BY <1>1
<1>3. UNION node.eval_results = {} \/ \E n \in Int : UNION node.eval_results = {n}
  BY <1>2, NumbersAssumption DEF IsScore, Some, None
<1> QED
  BY <1>3 DEF score_of

\* A selected id is that of a promoted node of the ledger.
LEMMA SelectedPromoted ==
  ASSUME LedgerInv, NodesSealed, NEW strategy \in Strategies
  PROVE  /\ \A id \in select(strategy) : id \in Ledger /\ IsPromoted(id)
         /\ select(strategy) = {} => \A id \in Ledger : Node(id).status = Rejected
<1> DEFINE all == AllNodes
           n == Len(all)
<1>1. n \in Nat /\ DOMAIN insertion_order = 1 .. n
  BY AllNodesFacts
<1>2. /\ DOMAIN all = 1 .. n
      /\ \A i \in 1 .. n : Position(i) \in Ledger /\ all[i] = Node(Position(i))
  BY AllNodesFacts
<1>3. \A i \in 1 .. n : /\ all[i].agent_id = Position(i)
                        /\ i \in Valid(all) <=> IsPromoted(Position(i))
  <2> TAKE i \in 1 .. n
  <2> DEFINE id == Position(i)
  <2>1. id \in Ledger /\ all[i] = Node(id)
    BY <1>2
  <2>2. Node(id).agent_id = id
    BY <2>1, Zenon DEF LedgerInv, LedgerIndexed
  <2>3. Node(id).valid_parent <=> Node(id).status = Promoted
    BY <2>1, Zenon DEF NodesSealed, Sealed
  <2>4. i \in Valid(all) <=> all[i].valid_parent
    BY <1>2 DEF Valid
  <2> HIDE DEF id, all
  <2> QED
    BY <2>1, <2>2, <2>3, <2>4 DEF id, IsPromoted
<1> HIDE DEF all
<1>5. ChoosesFrom(Chosen(strategy, all), Valid(all))
  BY <1>1, <1>2, StrategyChooses
<1>6. select(strategy) = {all[i].agent_id : i \in Chosen(strategy, all)}
  BY DEF select, IdsAt, all
<1>7. \A id \in select(strategy) : id \in Ledger /\ IsPromoted(id)
  BY <1>2, <1>3, <1>5, <1>6 DEF ChoosesFrom, Valid
<1>8. ASSUME select(strategy) = {}, NEW id \in Ledger
      PROVE  Node(id).status = Rejected
  <2>1. Valid(all) = {}
    BY <1>5, <1>6, <1>8 DEF ChoosesFrom
  <2>2. PICK i \in 1 .. n : Position(i) = id
    BY <1>1 DEF LedgerInv, LedgerIndexed
  <2>3. ~IsPromoted(id) /\ Node(id).status \in NodeStatus
    BY <1>3, <2>1, <2>2 DEF LedgerInv, LedgerOK, IsAgentNode
  <2> QED
    BY <2>3 DEF IsPromoted, NodeStatus
<1> QED
  BY <1>7, <1>8

\* selector.rs: "Implementations must only consider Promoted nodes".  Every
\* strategy does, although each asks a node for valid_parent only, and fails
\* only when all nodes are rejected, for every hash and every score.
THEOREM SelectorsChoosePromoted == Spec => []SelectsPromoted
<1>1. Inv /\ NodesSealed => SelectsPromoted
  BY SelectedPromoted DEF Inv, SelectsPromoted, IsPromoted, Node, Ledger
<1> QED
  BY <1>1, Invariance, NodesStaySealed, PTL

\* ensemble.rs against selector.rs: the pass of Best and the sort of
\* BestByMetric name the same winner, ties and missing scores included, and
\* top_k of a larger k extends that of a smaller one.
THEOREM EnsembleIsLed == Spec => []BestLeadsEnsemble
<1>1. Inv => BestLeadsEnsemble
  <2> SUFFICES ASSUME Inv PROVE BestLeadsEnsemble
    OBVIOUS
  <2>1. \A i \in 1 .. Len(AllNodes) : score_of(AllNodes[i]) \in Int
    BY AllNodesFacts, ScoreIsNumber DEF Inv, LedgerInv, LedgerOK
  <2> QED
    BY <2>1, AllNodesFacts, EnsembleRanks DEF Inv, BestLeadsEnsemble
<1> QED
  BY <1>1, Invariance, PTL

-----------------------------------------------------------------------------
(* The weighted choice. *)

IsWeight(weight, n) ==
  /\ DOMAIN weight \in SUBSET (1 .. n)
  /\ \A i \in DOMAIN weight : weight[i] \in Nat

\* Accumulated and Total are the sums of the weights from the left.
LEMMA FoldSums ==
  ASSUME NEW n \in Nat, NEW weight, IsWeight(weight, n),
         NEW s \in SUBSET DOMAIN weight, NEW h, IsSum(h, weight, s, n)
  PROVE  FoldFunctionOnSet(+, 0, weight, s) = h[n]
<1> DEFINE step == [p \in s \X Nat |-> weight[p[1]] + p[2]]
           Fold(f) == f = [t \in SUBSET s |->
                             IF t = {} THEN 0
                             ELSE weight[Taken(t)] + f[t \ {Taken(t)}]]
           f == CHOOSE f : Fold(f)
<1>1. FoldFunctionOnSet(+, 0, weight, s) = f[s]
  BY Zenon DEF FoldFunctionOnSet, MapThenFoldSet, Taken
<1>2. s \in SUBSET (1 .. n) /\ IsFiniteSet(s) /\ \A i \in s : weight[i] \in Nat
  <2>1. s \in SUBSET (1 .. n) /\ \A i \in s : weight[i] \in Nat
    BY DEF IsWeight
  <2>2. IsFiniteSet(1 .. n)
    BY FS_Interval
  <2> QED
    BY <2>1, <2>2, FS_Subset
<1>3. /\ \A i \in s, v \in Nat : step[<<i, v>>] = weight[i] + v
      /\ IsStep(step, s, Nat)
  <2>1. \A i \in s, v \in Nat : step[<<i, v>>] = weight[i] + v
    OBVIOUS
  <2>2. \A i \in s, v \in Nat : weight[i] + v \in Nat
    BY <1>2
  <2> QED
    BY <2>1, <2>2 DEF IsStep
<1> HIDE DEF step
\* With values that are numbers, the equation is that of a fold.
<1>4. ASSUME NEW g, IsFold(g, step, 0, s) PROVE Fold(g)
  <2>1. \A t \in SUBSET s : g[t] \in Nat
    BY <1>2, <1>3, <1>4, FoldStays
  <2>2. \A t \in SUBSET s : t # {} =>
          step[<<Taken(t), g[t \ {Taken(t)}]>>] = weight[Taken(t)] + g[t \ {Taken(t)}]
    <3> TAKE t \in SUBSET s
    <3> HAVE t # {}
    <3>1. Taken(t) \in s /\ g[t \ {Taken(t)}] \in Nat
      BY <2>1 DEF Taken
    <3> QED
      BY <1>3, <3>1
  <2> QED
    BY <1>4, <2>2 DEF IsFold
<1>5. Fold(f)
  <2>1. \E g : IsFold(g, step, 0, s)
    BY <1>2, <1>3, FoldExists
  <2> QED
    BY <1>4, <2>1, Zenon
<1> HIDE DEF f
<1>6. \A t \in SUBSET s :
        f[t] = IF t = {} THEN 0 ELSE weight[Taken(t)] + f[t \ {Taken(t)}]
  BY <1>5, Zenon
<1>7. IsFold(f, step, 0, s)
  <2> DEFINE P == {t \in SUBSET s : f[t] \in Nat}
  <2>1. \A t \in SUBSET s : t # {} => Taken(t) \in t
    BY DEF Taken
  <2>2. {} \in P
    BY <1>6
  <2>3. ASSUME NEW t \in SUBSET s, t # {}, \A x \in t : t \ {x} \in P
        PROVE  t \in P
    <3>1. weight[Taken(t)] \in Nat /\ f[t \ {Taken(t)}] \in Nat
      BY <1>2, <2>1, <2>3
    <3> QED
      BY <1>6, <2>3, <3>1
  <2> HIDE DEF P
  <2>4. \A t \in SUBSET s : t \in P
    BY <1>2, <2>2, <2>3, SetInduction
  <2>5. \A t \in SUBSET s : t # {} =>
          weight[Taken(t)] + f[t \ {Taken(t)}] = step[<<Taken(t), f[t \ {Taken(t)}]>>]
    <3> TAKE t \in SUBSET s
    <3> HAVE t # {}
    <3>1. Taken(t) \in s /\ f[t \ {Taken(t)}] \in Nat
      BY <2>1, <2>4 DEF P
    <3> QED
      BY <1>3, <3>1
  <2> QED
    BY <1>5, <2>5 DEF IsFold
<1>8. f[s] = h[n]
  BY <1>2, <1>3, <1>7, FoldIsSum
<1> QED
  BY <1>1, <1>8

LEMMA WeightSums ==
  ASSUME NEW n \in Nat, NEW weight, IsWeight(weight, n)
  PROVE  \E h : /\ IsSum(h, weight, DOMAIN weight, n)
                /\ Total(weight) = h[n]
                /\ \A i \in DOMAIN weight : Accumulated(weight, i) = h[i]
<1>1. DOMAIN weight \in SUBSET (1 .. n) /\ \A i \in DOMAIN weight : weight[i] \in Nat
  BY DEF IsWeight
<1>2. PICK h : IsSum(h, weight, DOMAIN weight, n)
  BY <1>1, SumExists
<1>3. Total(weight) = h[n]
  BY <1>2, FoldSums DEF Total, FoldFunction
<1>4. ASSUME NEW i \in DOMAIN weight PROVE Accumulated(weight, i) = h[i]
  <2> DEFINE positions == DOMAIN weight
  <2>0. PICK before : before = {j \in positions : j <= i}
    OBVIOUS
  <2>1. \A j \in before \cap (1 .. n) : weight[j] \in Nat
    BY <1>1, <2>0
  <2>2. PICK g : IsSum(g, weight, before, n)
    BY <2>1, SumExists
  <2>3. i \in 0 .. n
    BY <1>1
  <2>4. g[n] = h[i]
    <3>1. /\ positions \in SUBSET (1 .. n) /\ \A j \in positions : weight[j] \in Nat
          /\ IsSum(h, weight, positions, n)
      BY <1>1, <1>2
    <3> HIDE DEF positions
    <3> QED
      BY <2>0, <2>2, <2>3, <3>1, SumUpTo
  <2> QED
    BY <2>0, <2>2, <2>4, FoldSums DEF Accumulated
<1> QED
  BY <1>2, <1>3, <1>4

\* Larger sums reach further.
LEMMA Times ==
  ASSUME NEW m \in Nat, NEW a \in Nat, NEW b \in Nat, a <= b
  PROVE  m * a \in Nat /\ m * b \in Nat /\ m * a <= m * b
OBVIOUS

\* A hash other than 0 falls into the interval of one node, which has weight.
LEMMA HashFalls ==
  ASSUME NEW n \in Nat, NEW weight, IsWeight(weight, n),
         NEW h, IsSum(h, weight, DOMAIN weight, n), h[n] > 0,
         Total(weight) = h[n],
         \A i \in DOMAIN weight : Accumulated(weight, i) = h[i],
         NEW hash \in 1 .. MaxHash
  PROVE  \E m \in DOMAIN weight :
           /\ weight[m] > 0
           /\ MaxHash * h[m - 1] < hash * h[n] /\ hash * h[n] <= MaxHash * h[m]
           /\ weighted_choice(weight, hash) = {m}
<1> DEFINE T == h[n]
           M == MaxHash
           past == {i \in 0 .. n : hash * T <= M * h[i]}
<1>1. M \in Nat /\ hash \in Nat /\ T \in Nat /\ \A i \in 0 .. n : h[i] \in Nat
  BY SelectorAssumption DEF IsSum
<1>2. hash * T <= M * T /\ hash * T > 0 /\ hash * T \in Nat /\ M * T \in Nat
  BY <1>1
<1>3. past \in SUBSET Nat /\ past # {}
  BY <1>2
<1>4. PICK m \in past : \A i \in past : m <= i
  BY <1>3, LeastNumber
<1>5. m # 0
  BY <1>1, <1>2, <1>4 DEF IsSum
<1>6. m \in 1 .. n /\ m - 1 \in 0 .. n /\ m - 1 \notin past
  BY <1>4, <1>5
<1>7. /\ hash * T <= M * h[m] /\ ~(hash * T <= M * h[m - 1])
      /\ h[m] \in Nat /\ h[m - 1] \in Nat
      /\ M * h[m] \in Nat /\ M * h[m - 1] \in Nat
  BY <1>1, <1>4, <1>6
<1>8. M * h[m - 1] < hash * T
  BY <1>2, <1>7
<1>9. m \in DOMAIN weight /\ weight[m] > 0
  <2>1. h[m] # h[m - 1]
    BY <1>7
  <2>2. h[m] = h[m - 1] + (IF m \in DOMAIN weight THEN weight[m] ELSE 0)
    BY <1>6 DEF IsSum
  <2>3. m \in DOMAIN weight
    BY <1>7, <2>1, <2>2
  <2>4. weight[m] \in Nat
    BY <2>3 DEF IsWeight
  <2> QED
    BY <1>7, <2>1, <2>2, <2>3, <2>4
<1> DEFINE reached == {i \in DOMAIN weight : Reaches(weight, hash, i)}
<1>10. \A i \in DOMAIN weight : i \in 0 .. n /\ (i \in reached <=> i \in past)
  BY DEF Reaches, Draw, IsWeight
<1>11. m \in reached /\ \A i \in reached : m <= i /\ i \in Nat
  BY <1>4, <1>9, <1>10
<1> HIDE DEF reached, past
<1>12. Min(reached) = m
  <2>1. Min(reached) \in reached /\ \A i \in reached : Min(reached) <= i
    BY <1>11, Zenon DEF Min
  <2> QED
    BY <1>11, <2>1
<1>13. weighted_choice(weight, hash) = {m}
  BY <1>1, <1>11, <1>12 DEF weighted_choice, reached
<1> QED
  BY <1>7, <1>8, <1>9, <1>13

\* The hashes draw nodes with weight only, and each whose share of the total is
\* that of one hash at least.
LEMMA WeightDecides ==
  ASSUME NEW n \in Nat, NEW weight, IsWeight(weight, n)
  PROVE  LET heavy == {i \in DOMAIN weight : weight[i] > 0} IN
         heavy # {} =>
           /\ Drawn(weight, 1 .. MaxHash) \subseteq heavy
           /\ \A i \in heavy : Total(weight) <= MaxHash * weight[i] =>
                               i \in Drawn(weight, 1 .. MaxHash)
<1> DEFINE heavy == {i \in DOMAIN weight : weight[i] > 0}
           M == MaxHash
<1> SUFFICES ASSUME heavy # {}
             PROVE  /\ Drawn(weight, 1 .. M) \subseteq heavy
                    /\ \A i \in heavy : Total(weight) <= M * weight[i] =>
                                        i \in Drawn(weight, 1 .. M)
  OBVIOUS
<1>1. PICK h : /\ IsSum(h, weight, DOMAIN weight, n)
               /\ Total(weight) = h[n]
               /\ \A i \in DOMAIN weight : Accumulated(weight, i) = h[i]
  BY WeightSums
<1> DEFINE T == h[n]
<1>2. DOMAIN weight \in SUBSET (1 .. n) /\ \A i \in DOMAIN weight : weight[i] \in Nat
  BY DEF IsWeight
<1>3. M \in Nat /\ T \in Nat /\ \A i \in 0 .. n : h[i] \in Nat
  BY <1>1, SelectorAssumption DEF IsSum
<1>4. \A m \in 0 .. n, i \in 0 .. n : m <= i => h[m] <= h[i]
  BY <1>1, <1>2, SumMonotonic
<1>5. ASSUME NEW i \in heavy
      PROVE  /\ i \in 1 .. n /\ i - 1 \in 0 .. n /\ weight[i] \in Nat \ {0}
             /\ h[i] = h[i - 1] + weight[i] /\ h[i] <= T
  <2>1. i \in 1 .. n /\ i - 1 \in 0 .. n /\ weight[i] \in Nat \ {0}
    BY <1>2
  <2>2. h[i] = h[i - 1] + weight[i]
    BY <1>1, <2>1 DEF IsSum
  <2> QED
    BY <1>4, <2>1, <2>2
<1>6. T > 0
  <2>1. PICK i \in heavy : TRUE
    OBVIOUS
  <2> QED
    BY <1>3, <1>5, <2>1
<1>7. \A hash \in 1 .. M : \E m \in heavy :
        /\ M * h[m - 1] < hash * T /\ hash * T <= M * h[m]
        /\ weighted_choice(weight, hash) = {m}
  BY <1>1, <1>6, HashFalls
<1>8. Drawn(weight, 1 .. M) \subseteq heavy
  BY <1>7 DEF Drawn
<1>9. ASSUME NEW i \in heavy, T <= M * weight[i] PROVE i \in Drawn(weight, 1 .. M)
  <2> DEFINE a == M * h[i - 1]
             b == M * h[i]
             hash == b \div T
  <2>1. h[i] \in Nat /\ h[i - 1] \in Nat
    BY <1>3, <1>5
  <2>2. a \in Nat /\ b \in Nat /\ a + T <= b /\ b <= M * T
    <3>1. b = a + M * weight[i] /\ M * weight[i] \in Nat
      BY <1>3, <1>5, <2>1
    <3>2. a \in Nat /\ b \in Nat /\ b <= M * T
      BY <1>3, <1>5, <2>1, Times
    <3> QED
      BY <1>3, <1>9, <3>1, <3>2
  <2>3. hash \in Nat /\ hash * T <= b /\ b < hash * T + T
    BY <1>3, <1>6, <2>2
  <2>4. a < hash * T
    BY <1>3, <2>2, <2>3
  <2> HIDE DEF hash
  <2>5. hash \in 1 .. M
    <3>1. hash # 0
      BY <1>3, <2>2, <2>4
    <3>2. ASSUME M < hash PROVE FALSE
      <4>1. T * (M + 1) <= T * hash
        BY <1>3, <2>3, <3>2, Times
      <4>2. T * (M + 1) = M * T + T /\ T * hash = hash * T /\ M * T \in Nat
        BY <1>3, <2>3
      <4> QED
        BY <1>3, <1>6, <2>2, <2>3, <4>1, <4>2
    <3> QED
      BY <1>3, <2>3, <3>1, <3>2
  <2>6. PICK m \in heavy :
          /\ M * h[m - 1] < hash * T /\ hash * T <= M * h[m]
          /\ weighted_choice(weight, hash) = {m}
    BY <1>7, <2>5
  <2>7. m = i
    <3>1. /\ m \in 1 .. n /\ i \in 1 .. n
          /\ h[m] \in Nat /\ h[m - 1] \in Nat
      BY <1>3, <1>5
    <3>2. ASSUME m < i PROVE FALSE
      <4>1. h[m] <= h[i - 1]
        BY <1>4, <3>1, <3>2
      <4>2. M * h[m] <= a
        BY <1>3, <2>1, <3>1, <4>1, Times
      <4> QED
        BY <1>3, <2>2, <2>3, <2>4, <2>6, <3>1, <4>2
    <3>3. ASSUME i < m PROVE FALSE
      <4>1. h[i] <= h[m - 1]
        BY <1>4, <3>1, <3>3
      <4>2. b <= M * h[m - 1]
        BY <1>3, <2>1, <3>1, <4>1, Times
      <4> QED
        BY <1>3, <2>2, <2>3, <2>6, <3>1, <4>2
    <3> QED
      BY <3>1, <3>2, <3>3
  <2> QED
    BY <2>5, <2>6, <2>7 DEF Drawn
<1> QED
  BY <1>1, <1>8, <1>9

LEMMA ProductIsNat ==
  ASSUME NEW S, S \in SUBSET Nat, IsFiniteSet(S)
  PROVE  ProductSet(S) \in Nat
<1> DEFINE step == [p \in S \X Nat |-> p[1] * p[2]]
           Fold(f) == f = [t \in SUBSET S |->
                             IF t = {} THEN 1 ELSE Taken(t) * f[t \ {Taken(t)}]]
           f == CHOOSE f : Fold(f)
<1>1. ProductSet(S) = f[S]
  BY Zenon DEF ProductSet, FoldSet, MapThenFoldSet, Taken
<1>2. \A t \in SUBSET S : t # {} => Taken(t) \in t
  BY DEF Taken
<1>3. /\ \A x \in S, v \in Nat : step[<<x, v>>] = x * v /\ x * v \in Nat
      /\ IsStep(step, S, Nat)
  <2>1. \A x \in S, v \in Nat : step[<<x, v>>] = x * v
    OBVIOUS
  <2>2. \A x \in S, v \in Nat : x * v \in Nat
    OBVIOUS
  <2> QED
    BY <2>1, <2>2 DEF IsStep
<1> HIDE DEF step
<1>4. Fold(f)
  <2>1. PICK g : IsFold(g, step, 1, S)
    BY <1>3, FoldExists
  <2>2. \A t \in SUBSET S : g[t] \in Nat
    BY <1>3, <2>1, FoldStays
  <2>3. \A t \in SUBSET S : t # {} =>
          step[<<Taken(t), g[t \ {Taken(t)}]>>] = Taken(t) * g[t \ {Taken(t)}]
    BY <1>2, <1>3, <2>2
  <2>4. Fold(g)
    BY <2>1, <2>3 DEF IsFold
  <2> QED
    BY <2>4, Zenon
<1> HIDE DEF f
<1>5. \A t \in SUBSET S : f[t] = IF t = {} THEN 1 ELSE Taken(t) * f[t \ {Taken(t)}]
  BY <1>4, Zenon
<1> DEFINE P == {t \in SUBSET S : f[t] \in Nat}
<1>6. {} \in P
  BY <1>5
<1>7. ASSUME NEW t \in SUBSET S, t # {}, \A x \in t : t \ {x} \in P
      PROVE  t \in P
  <2>1. Taken(t) \in Nat /\ f[t \ {Taken(t)}] \in Nat
    BY <1>2, <1>7
  <2>2. Taken(t) * f[t \ {Taken(t)}] \in Nat
    BY <2>1
  <2> QED
    BY <1>5, <1>7, <2>2
<1> HIDE DEF P
<1>8. \A t \in SUBSET S : t \in P
  BY <1>6, <1>7, SetInduction
<1> QED
  BY <1>1, <1>8 DEF P

LEMMA ClampedIsNat ==
  ASSUME NEW node, score_of(node) \in Int
  PROVE  Clamped(node) \in Nat
<1>1. \E m \in {score_of(node), 0} : \A y \in {score_of(node), 0} : m >= y
  OBVIOUS
<1>2. /\ Clamped(node) \in {score_of(node), 0}
      /\ \A y \in {score_of(node), 0} : Clamped(node) >= y
  BY <1>1, Zenon DEF Clamped, Max
<1> QED
  BY <1>2

\* The weights of both strategies are numbers.
LEMMA AreWeights ==
  ASSUME NEW all, Len(all) \in Nat, DOMAIN all = 1 .. Len(all),
         \A i \in 1 .. Len(all) : score_of(all[i]) \in Int
  PROVE  /\ IsWeight(ScoreWeights(all), Len(all))
         /\ IsWeight(ScoreChildWeights(all), Len(all))
<1> DEFINE n == Len(all)
<1>1. Valid(all) \in SUBSET (1 .. n) /\ IsFiniteSet(1 .. n)
  BY FS_Interval DEF Valid
<1>2. \A i \in Valid(all) : Clamped(all[i]) \in Nat
  BY <1>1, ClampedIsNat
<1>3. Denominator \in Nat
  <2>1. MaxChildren + 1 \in Nat
    BY SelectorAssumption
  <2>2. IsFiniteSet(1 .. MaxChildren + 1) /\ 1 .. MaxChildren + 1 \in SUBSET Nat
    BY <2>1, FS_Interval
  <2> QED
    BY <2>2, ProductIsNat DEF Denominator
<1>4. \A i \in Valid(all) :
        Clamped(all[i]) * (Denominator \div (1 + Cardinality(Children(all, i)))) \in Nat
  <2> TAKE i \in Valid(all)
  <2> DEFINE children == Cardinality(Children(all, i))
             share == Denominator \div (1 + children)
  <2>1. Children(all, i) \in SUBSET (1 .. n)
    BY DEF Children
  <2>2. children \in Nat
    BY <1>1, <2>1, FS_Subset, FS_CardinalityType
  <2> HIDE DEF children
  <2>3. share \in Nat
    BY <1>3, <2>2
  <2> HIDE DEF share
  <2>4. Clamped(all[i]) * share \in Nat
    BY <1>2, <2>3
  <2> QED
    BY <2>4 DEF share, children
<1> QED
  BY <1>1, <1>2, <1>4 DEF IsWeight, ScoreWeights, ScoreChildWeights

Weights == {ScoreWeights(AllNodes), ScoreChildWeights(AllNodes)}

\* No node without weight is drawn while another has some.
NoneWeightless ==
  \A weight \in Weights :
    LET heavy == {i \in DOMAIN weight : weight[i] > 0}
    IN heavy # {} => Drawn(weight, 1 .. MaxHash) \subseteq heavy

\* No node has so little of the total that it falls between two hashes.
NoneBetweenHashes ==
  \A weight \in Weights : \A i \in DOMAIN weight :
    weight[i] > 0 => Total(weight) <= MaxHash * weight[i]

LEMMA LedgerDecides ==
  ASSUME Inv
  PROVE  NoneWeightless /\ (NoneBetweenHashes => WeightsDecide)
<1> DEFINE n == Len(AllNodes)
<1>1. n \in Nat /\ \A weight \in Weights : IsWeight(weight, n)
  <2>1. \A i \in 1 .. n : score_of(AllNodes[i]) \in Int
    BY AllNodesFacts, ScoreIsNumber DEF Inv, LedgerInv, LedgerOK
  <2> QED
    BY <2>1, AllNodesFacts, AreWeights DEF Inv, Weights
<1>2. ASSUME NEW weight \in Weights
      PROVE  LET heavy == {i \in DOMAIN weight : weight[i] > 0} IN
             heavy # {} =>
               /\ Drawn(weight, 1 .. MaxHash) \subseteq heavy
               /\ \A i \in heavy : Total(weight) <= MaxHash * weight[i] =>
                                   i \in Drawn(weight, 1 .. MaxHash)
  BY <1>1, WeightDecides
<1>3. NoneWeightless
  BY <1>2 DEF NoneWeightless
<1>4. ASSUME NoneBetweenHashes, NEW weight \in Weights
      PROVE  LET heavy == {i \in DOMAIN weight : weight[i] > 0}
             IN heavy # {} => Drawn(weight, 1 .. MaxHash) = heavy
  BY <1>2, <1>4 DEF NoneBetweenHashes
<1> QED
  BY <1>3, <1>4 DEF WeightsDecide, Weights

\* weighted_choice does not skip nodes without weight, and falls back on the
\* last node of all: still no hash but 0 draws a node without weight while
\* another has some, whatever the largest hash is.
THEOREM WeightlessNotDrawn == Spec => []NoneWeightless
BY LedgerDecides, Invariance, PTL

\* And weighted_choice draws every node with weight for some hash, as long as
\* none has less than one hash's share of the total.
THEOREM WeightsDoDecide == Spec /\ []NoneBetweenHashes => []WeightsDecide
BY LedgerDecides, Invariance, PTL

-----------------------------------------------------------------------------
(* The invariant of the driver.                                            *)
(*                                                                         *)
(* Every promise it makes about a node of the ledger it must make of the   *)
(* node's inputs from the moment they are put together: across the await   *)
(* of the mutator, of the sandbox, of the evaluator and of the approval.   *)

\* What a generation holds: a promoted parent, and the arguments of run_cycle.
Prepared(g) ==
  /\ IsGeneration(g)
  /\ g.step = "proposing" => g.parent.status = Promoted
  /\ g.step = "enforcing" =>
       LET i == g.inputs IN
       /\ i.parent.status = Promoted
       /\ i = CycleInputs(i.parent, i.intent, i.candidate, i.allowed_scope,
                          i.created_at)

\* What a cycle holds: a promoted parent, and what the sandbox accepted.
Guarded(op) ==
  /\ op.step = "evaluating" =>
       /\ op.inputs.parent.agent_id \in Ledger
       /\ IsPromoted(op.inputs.parent.agent_id)
       /\ Enforced(op.inputs) \in admitted
  /\ op.step = "awaiting" =>
       /\ \A id \in op.pending.parent_id : id \in Ledger /\ IsPromoted(id)
       /\ <<op.pending.candidate, op.pending.allowed_scope>> \in admitted
  /\ op.step = "rolling back" => op.parent.status = Promoted

\* What a node keeps of it.
Driven(node) ==
  /\ \A id \in node.parent_id : id \in Ledger /\ IsPromoted(id)
  /\ IsCycleNode(node) => <<node.artifact, node.allowed_scope>> \in admitted

\* The operation of a task and its generation are in step.
InStep(op, g) ==
  /\ op.step = "evaluating" <=> g.step = "cycling"
  /\ g.step \in {"proposing", "enforcing"} => op.step = "idle"

GenerationsOK ==
  /\ generation = [t \in Tasks |-> generation[t]]
  /\ \A t \in Tasks : Prepared(generation[t]) /\ InStep(task[t], generation[t])

GuardsOK ==
  /\ \A t \in Tasks : Guarded(task[t])
  /\ \A id \in Ledger : Driven(Node(id))

Holders == {t \in Tasks : HoldsSandbox(t)}

SandboxesOK ==
  /\ IsFiniteSet(Holders)
  /\ leaked \in 0 .. MaxLeaks
  /\ SandboxBalanced

DriverInv == Inv /\ NodesSealed /\ GenerationsOK /\ GuardsOK /\ SandboxesOK

-----------------------------------------------------------------------------
(* The driver only does what the runner could be asked to do. *)

\* A generation that ends, with or without an operation under way.
LEMMA FinishIsDrop ==
  ASSUME Inv, NEW t \in Tasks, Finish(t), UNCHANGED ledger
  PROVE  Drop(t) \/ UNCHANGED vars
<1>1. CASE At(t, "idle")
  <2>1. task[t] = Idle /\ task = [u \in Tasks |-> task[u]]
    BY <1>1 DEF Inv, TasksOK, IsTask, At
  <2>2. task' = task
    BY <2>1 DEF Finish, Becomes
  <2> QED
    BY <2>2 DEF vars, ledger
<1>2. CASE ~At(t, "idle")
  BY <1>2 DEF Drop
<1> QED
  BY <1>1, <1>2

LEMMA EnforcesIsCycle ==
  ASSUME GenerationsOK, NEW t \in Tasks, SandboxEnforces(t)
  PROVE  run_cycle(t)
<1> DEFINE i == generation[t].inputs
<1>1. StartCycle(t, i)
  BY DEF SandboxEnforces
<1>2. Prepared(generation[t]) /\ generation[t].step = "enforcing"
  BY DEF GenerationsOK, SandboxEnforces, Driving
<1>3. IsCycleInputs(i)
  BY <1>2 DEF Prepared, IsGeneration, Idle
<1>4. i = CycleInputs(i.parent, i.intent, i.candidate, i.allowed_scope, i.created_at)
  BY <1>2, Zenon DEF Prepared
<1> HIDE DEF i
<1> QED
  BY <1>1, <1>3, <1>4, Zenon DEF run_cycle, IsCycleInputs

\* Every step of a generation is a step of its task, or none.
LEMMA DriverStepIsStep ==
  ASSUME Inv, GenerationsOK, NEW t \in Tasks, DriverStep(t)
  PROVE  Step(t) \/ UNCHANGED vars
<1>1. CASE \/ run_generation(t) \/ MutatorProposes(t) \/ MutatorFails(t)
           \/ SandboxRefuses(t) \/ TearDown(t)
  <2>1. UNCHANGED vars
    BY <1>1, Zenon DEF run_generation, MutatorProposes, MutatorFails, SandboxRefuses, TearDown
  <2> QED
    BY <2>1
<1>2. CASE SandboxEnforces(t)
  BY <1>2, EnforcesIsCycle DEF Step
<1>3. CASE CycleReturns(t)
  BY <1>3 DEF CycleReturns, Step
<1>4. CASE TeardownFails(t) \/ DropGeneration(t)
  BY <1>4, FinishIsDrop DEF TeardownFails, DropGeneration, Step
<1>5. CASE ThroughVeh(t)
  BY <1>5, Zenon DEF ThroughVeh, Step
<1> QED
  BY <1>1, <1>2, <1>3, <1>4, <1>5 DEF DriverStep

LEMMA DriverGrows ==
  ASSUME Inv, GenerationsOK, NEW t \in Tasks, DriverStep(t)
  PROVE  LedgerGrows
<1>1. CASE UNCHANGED nodes
  BY <1>1 DEF LedgerGrows, Ledger, Node
<1>2. Step(t) \/ UNCHANGED vars
  BY DriverStepIsStep
<1> QED
  BY <1>1, <1>2, StepOnLedger, AppendGrows DEF vars, ledger, set_head

-----------------------------------------------------------------------------
(* What a task and its generation hold stays true while the ledger grows. *)

LEMMA GuardOverGrowth ==
  ASSUME LedgerGrows, admitted \subseteq admitted', NEW op, Guarded(op)
  PROVE  Guarded(op)'
BY DEF Guarded, LedgerGrows, IsPromoted, Enforced

LEMMA PreparedOverGrowth ==
  ASSUME LedgerGrows, NEW g, Prepared(g)
  PROVE  Prepared(g)'
<1>1. IsGeneration(g)'
  BY ParentsGrow DEF Prepared, IsGeneration, IsCopy, IsCycleInputs, LedgerGrows
<1> QED
  BY <1>1, Zenon DEF Prepared

LEMMA DrivenOverGrowth ==
  ASSUME LedgerGrows, admitted \subseteq admitted', NEW node, Driven(node)
  PROVE  Driven(node)'
BY DEF Driven, LedgerGrows, IsPromoted

\* A task and its generation go on, to what is in step again.
Moves(t, op, g) ==
  /\ Becomes(t, op) /\ Drives(t, g)
  /\ Guarded(op)' /\ Prepared(g) /\ InStep(op, g)
  /\ admitted \subseteq admitted'

LEMMA MoveKeepsGenerations ==
  ASSUME Inv, GenerationsOK, LedgerGrows, NEW t \in Tasks, NEW op, NEW g,
         Moves(t, op, g)
  PROVE  GenerationsOK'
<1>1. /\ task' = [u \in Tasks |-> IF u = t THEN op ELSE task[u]]
      /\ generation' = [u \in Tasks |-> IF u = t THEN g ELSE generation[u]]
  BY DEF Moves, Becomes, Drives, Inv, TasksOK, GenerationsOK
<1>2. ASSUME NEW u \in Tasks
      PROVE  Prepared(generation[u])' /\ InStep(task'[u], generation'[u])
  <2>1. PICK new : new = generation'[u]
    OBVIOUS
  <2>2. Prepared(new) /\ InStep(task'[u], new)
    BY <1>1, <2>1 DEF GenerationsOK, Moves
  <2>3. Prepared(new)'
    BY <2>2, PreparedOverGrowth
  <2> QED
    BY <2>1, <2>2, <2>3
<1> QED
  BY <1>1, <1>2 DEF GenerationsOK, InStep

LEMMA MoveKeepsGuards ==
  ASSUME Inv, GuardsOK, LedgerGrows, NEW t \in Tasks, NEW op, NEW g,
         Moves(t, op, g)
  PROVE  \A u \in Tasks : Guarded(task[u])'
<1>1. task' = [u \in Tasks |-> IF u = t THEN op ELSE task[u]]
  BY DEF Moves, Becomes, Inv, TasksOK
<1> TAKE u \in Tasks
<1>2. PICK new : new = task'[u]
  OBVIOUS
<1>3. CASE u = t
  BY <1>1, <1>2, <1>3 DEF Moves
<1>4. CASE u # t
  <2>1. Guarded(new)
    BY <1>1, <1>2, <1>4 DEF GuardsOK
  <2>2. Guarded(new)'
    BY <2>1, GuardOverGrowth DEF Moves
  <2> QED
    BY <1>2, <2>2
<1> QED
  BY <1>3, <1>4

\* The ledger gains a driven node, if any.
Gains == UNCHANGED nodes \/ \E node : Driven(node) /\ append(node)

LEMMA GainKeepsDriven ==
  ASSUME GuardsOK, LedgerGrows, admitted \subseteq admitted', Gains
  PROVE  \A id \in Ledger' : Driven(Node(id))'
<1> TAKE id \in Ledger'
<1>1. PICK new : new = Node(id)'
  OBVIOUS
<1>2. Driven(new)
  <2>1. CASE UNCHANGED nodes
    BY <1>1, <2>1 DEF GuardsOK, Ledger, Node
  <2>2. ASSUME NEW node, Driven(node), append(node)
        PROVE  Driven(new)
    BY <1>1, <2>2 DEF append, Insert, GuardsOK, ledger, Ledger, Node
  <2> QED
    BY <2>1, <2>2 DEF Gains
<1>3. Driven(new)'
  BY <1>2, DrivenOverGrowth
<1> QED
  BY <1>1, <1>3

-----------------------------------------------------------------------------
(* Every action moves one task and its generation, and appends driven nodes. *)

\* A task that keeps its operation.
LEMMA TaskStays ==
  ASSUME DriverInv, LedgerGrows, NEW t \in Tasks, UNCHANGED <<task, admitted>>
  PROVE  Becomes(t, task[t]) /\ Guarded(task[t])'
<1>1. Becomes(t, task[t])
  BY DEF Becomes, DriverInv, Inv, TasksOK
<1>2. PICK op : op = task[t]
  OBVIOUS
<1>3. Guarded(op)'
  BY <1>2, GuardOverGrowth DEF DriverInv, GuardsOK
<1> QED
  BY <1>1, <1>2, <1>3

\* What the actions before the cycle do, and the teardown.
LEMMA OnlyGenerationMoves ==
  ASSUME DriverInv, LedgerGrows, NEW t \in Tasks, NEW g, Drives(t, g),
         UNCHANGED <<vars, admitted>>,
         Prepared(g), InStep(task[t], g)
  PROVE  Gains /\ \E op : Moves(t, op, g)
<1>1. Becomes(t, task[t]) /\ Guarded(task[t])'
  BY TaskStays DEF vars
<1>2. PICK op : op = task[t]
  OBVIOUS
<1>3. task' = task
  BY DEF vars
<1>4. Moves(t, op, g)
  BY <1>1, <1>2, <1>3 DEF Moves
<1> QED
  BY <1>4 DEF Gains, vars

LEMMA IdleMoves ==
  /\ Prepared(Idle) /\ Guarded(Idle) /\ Guarded(Idle)' /\ InStep(Idle, Idle)
  /\ \A op : op.step # "evaluating" => InStep(op, Idle)
BY DEF Prepared, IsGeneration, Guarded, InStep, Idle

LEMMA RunGenerationMoves ==
  ASSUME DriverInv, LedgerGrows, NEW t \in Tasks, run_generation(t)
  PROVE  Gains /\ \E op, g : Moves(t, op, g)
<1>1. PICK id \in select(Strategy), intent \in Intents, scope \in Scopes,
           now \in Timestamps :
         Drives(t, [step |-> "proposing", parent |-> Node(id),
                    intent |-> intent, allowed_scope |-> scope, created_at |-> now])
  BY DEF run_generation
<1> DEFINE g == [step |-> "proposing", parent |-> Node(id), intent |-> intent,
                 allowed_scope |-> scope, created_at |-> now]
<1>2. id \in Ledger /\ IsPromoted(id) /\ Node(id).agent_id = id
  BY SelectedPromoted, DriverAssumption DEF DriverInv, Inv, LedgerInv, LedgerIndexed
<1>3. Prepared(g)
  BY <1>2 DEF Prepared, IsGeneration, IsCopy, IsPromoted
<1>4. InStep(task[t], g)
  BY DEF InStep, run_generation, At
<1> QED
  BY <1>1, <1>3, <1>4, OnlyGenerationMoves DEF run_generation

LEMMA MutatorMoves ==
  ASSUME DriverInv, LedgerGrows, NEW t \in Tasks, MutatorProposes(t)
  PROVE  Gains /\ \E op, g : Moves(t, op, g)
<1> DEFINE old == generation[t]
<1>1. PICK candidate \in Artifacts :
         Drives(t, [step |-> "enforcing",
                    inputs |-> CycleInputs(old.parent, old.intent, candidate,
                                           old.allowed_scope, old.created_at)])
  BY DEF MutatorProposes
<1> DEFINE inputs == CycleInputs(old.parent, old.intent, candidate,
                                 old.allowed_scope, old.created_at)
           g == [step |-> "enforcing", inputs |-> inputs]
<1>2. old.step = "proposing" /\ Prepared(old) /\ InStep(task[t], old)
  BY DEF MutatorProposes, Driving, DriverInv, GenerationsOK
<1>3. /\ IsCopy(inputs.parent) /\ IsCycleInputs(inputs)
      /\ inputs.parent.status = Promoted
  BY <1>2 DEF Prepared, IsGeneration, Idle, IsCopy, Parents, Ledger, IsCycleInputs,
              CycleInputs
<1>4. Prepared(g)
  BY <1>3 DEF Prepared, IsGeneration, CycleInputs
<1>5. InStep(task[t], g)
  BY <1>2 DEF InStep
<1> QED
  BY <1>1, <1>4, <1>5, OnlyGenerationMoves DEF MutatorProposes

LEMMA GenerationEnds ==
  ASSUME DriverInv, LedgerGrows, NEW t \in Tasks,
         \/ MutatorFails(t) \/ SandboxRefuses(t) \/ TearDown(t)
         \/ TeardownFails(t) \/ DropGeneration(t)
  PROVE  Gains /\ \E op, g : Moves(t, op, g)
<1>1. CASE MutatorFails(t) \/ SandboxRefuses(t) \/ TearDown(t)
  <2>1. Drives(t, Idle) /\ UNCHANGED <<vars, admitted>>
    BY <1>1 DEF MutatorFails, SandboxRefuses, TearDown
  <2>2. task[t].step # "evaluating"
    BY <1>1 DEF MutatorFails, SandboxRefuses, TearDown, Driving, DriverInv,
                GenerationsOK, InStep
  <2> QED
    BY <2>1, <2>2, IdleMoves, OnlyGenerationMoves
<1>2. CASE TeardownFails(t) \/ DropGeneration(t)
  <2>1. Becomes(t, Idle) /\ Drives(t, Idle) /\ UNCHANGED ledger /\ UNCHANGED admitted
    BY <1>2 DEF TeardownFails, DropGeneration, Finish
  <2>2. Moves(t, Idle, Idle)
    BY <2>1, IdleMoves DEF Moves
  <2> QED
    BY <2>1, <2>2 DEF Gains, ledger
<1> QED
  BY <1>1, <1>2

LEMMA SandboxMoves ==
  ASSUME DriverInv, LedgerGrows, NEW t \in Tasks, SandboxEnforces(t)
  PROVE  Gains /\ \E op, g : Moves(t, op, g)
<1> DEFINE i == generation[t].inputs
           op == [step |-> "evaluating", inputs |-> i]
           g == [step |-> "cycling"]
<1>1. /\ Becomes(t, op) /\ UNCHANGED ledger
      /\ admitted' = admitted \cup {Enforced(i)} /\ Drives(t, g)
  BY DEF SandboxEnforces, StartCycle
<1>2. i.parent.agent_id \in Ledger /\ IsPromoted(i.parent.agent_id)
  <2>1. Prepared(generation[t]) /\ generation[t].step = "enforcing"
    BY DEF SandboxEnforces, Driving, DriverInv, GenerationsOK
  <2>2. IsCopy(i.parent) /\ i.parent.status = Promoted
    BY <2>1 DEF Prepared, IsGeneration, Idle
  <2> QED
    BY <2>2 DEF IsCopy, IsPromoted
<1>3. Prepared(g) /\ InStep(op, g)
  BY DEF Prepared, IsGeneration, InStep
<1>4. PICK new : new = op
  OBVIOUS
<1>5. Guarded(new)'
  BY <1>1, <1>2, <1>4 DEF Guarded, Enforced, IsPromoted, Ledger, Node, ledger
<1>6. Moves(t, new, g)
  BY <1>1, <1>3, <1>4, <1>5 DEF Moves
<1> QED
  BY <1>1, <1>6 DEF Gains, ledger

-----------------------------------------------------------------------------
(* The operations of the runner append driven nodes. *)

LEMMA CycleDriven ==
  ASSUME NEW op, Guarded(op), op.step = "evaluating", NEW score, NEW status
  PROVE  Driven(CycleNode(op.inputs, score, status))
<1> DEFINE i == op.inputs
           node == CycleNode(i, score, status)
<1>1. /\ node.parent_id = Some(i.parent.agent_id)
      /\ node.artifact = i.candidate /\ node.allowed_scope = i.allowed_scope
  BY DEF CycleNode, sign_node, CommitInputs
<1>2. i.parent.agent_id \in Ledger /\ IsPromoted(i.parent.agent_id)
  BY DEF Guarded
<1>3. <<i.candidate, i.allowed_scope>> \in admitted
  BY DEF Guarded, Enforced
<1> QED
  BY <1>1, <1>2, <1>3 DEF Driven, Some

LEMMA ApprovedDriven ==
  ASSUME NEW op, Guarded(op), op.step = "awaiting", NEW key
  PROVE  Driven(ApprovedNode(op.pending, key))
<1> DEFINE node == ApprovedNode(op.pending, key)
<1>1. /\ node.parent_id = op.pending.parent_id
      /\ node.artifact = op.pending.candidate
      /\ node.allowed_scope = op.pending.allowed_scope
  BY DEF ApprovedNode, sign_node, CommitInputs
<1> QED
  BY <1>1 DEF Driven, Guarded

LEMMA RollbackDriven ==
  ASSUME NEW op, Guarded(op), op.step = "rolling back", IsRollback(op)
  PROVE  Driven(RollbackNode(op))
<1> DEFINE node == RollbackNode(op)
<1>1. /\ node.parent_id = Some(op.parent.agent_id)
      /\ node.mutation_intent = rollback(op.target_id)
  BY DEF RollbackNode, sign_node, CommitInputs
<1>2. op.parent.agent_id \in Ledger /\ IsPromoted(op.parent.agent_id)
  BY DEF Guarded, IsRollback, IsCopy, IsPromoted
<1>3. rollback_target(rollback(op.target_id)) = {op.target_id}
  BY DEF rollback_target, rollback, Some
<1>4. ~IsCycleNode(node)
  BY <1>1, <1>3 DEF IsCycleNode, None
<1> QED
  BY <1>1, <1>2, <1>4 DEF Driven, Some

LEMMA RootDriven ==
  ASSUME NEW artifact, NEW scope, NEW now
  PROVE  Driven(sign_node(RootInputs(artifact, scope, now), SigningKey))
<1>1. sign_node(RootInputs(artifact, scope, now), SigningKey).parent_id = None
  BY DEF RootInputs, sign_node, CommitInputs
<1> QED
  BY <1>1 DEF Driven, IsCycleNode, None

\* A cycle that ends: with an error, a node, or a pause that keeps what the
\* sandbox accepted.
LEMMA CycleMoves ==
  ASSUME DriverInv, LedgerGrows, NEW t \in Tasks, CycleReturns(t)
  PROVE  Gains /\ \E op, g : Moves(t, op, g)
<1> DEFINE g == [step |-> "tearing down"]
           i == task[t].inputs
<1>1. EvaluatorAnswers(t) /\ Drives(t, g) /\ UNCHANGED admitted
  BY DEF CycleReturns
<1>2. task[t].step = "evaluating" /\ Guarded(task[t])
  BY <1>1 DEF DriverInv, GuardsOK, EvaluatorAnswers, EvaluatorFails,
                      CycleDecides, At
<1>3. Prepared(g) /\ \A op : op.step # "evaluating" => InStep(op, g)
  BY DEF Prepared, IsGeneration, InStep
<1>4. ASSUME Finish(t) PROVE \E op : Moves(t, op, g)
  BY <1>1, <1>3, <1>4, IdleMoves DEF Finish, Moves, Idle
<1>5. CASE EvaluatorFails(t)
  BY <1>4, <1>5 DEF EvaluatorFails, Gains, ledger
<1>6. ASSUME NEW score \in Scores, CycleDecides(t, score)
      PROVE  Gains /\ \E op : Moves(t, op, g)
  <2>1. CASE GatePauses(t, score)
    <3> DEFINE op == [step |-> "awaiting", pending |-> PendingApproval(i, score)]
    <3>1. Becomes(t, op) /\ UNCHANGED ledger
      BY <2>1 DEF GatePauses
    <3>2. i.parent.agent_id \in Ledger /\ IsPromoted(i.parent.agent_id)
      BY <1>2 DEF Guarded
    <3>3. Guarded(op)
      BY <1>2, <3>2 DEF Guarded, PendingApproval, Enforced, Some
    <3>4. PICK new : new = op
      OBVIOUS
    <3>5. Guarded(new)'
      BY <1>1, <3>3, <3>4, GuardOverGrowth
    <3>6. Moves(t, new, g)
      BY <1>1, <1>3, <3>1, <3>4, <3>5 DEF Moves
    <3> QED
      BY <3>1, <3>6 DEF Gains, ledger
  <2>2. CASE RejectNotImproved(t, score) \/ GateApproves(t, score) \/ GateDenies(t, score)
    <3>1. (\E status : append(CycleNode(i, score, status))) /\ Finish(t)
      BY <2>2 DEF RejectNotImproved, GateApproves, GateDenies, commit_promoted,
                  commit_rejected
    <3>2. \A status : Driven(CycleNode(i, score, status))
      BY <1>2, CycleDriven
    <3> QED
      BY <1>4, <3>1, <3>2 DEF Gains
  <2> QED
    BY <1>6, <2>1, <2>2 DEF CycleDecides
<1> QED
  BY <1>1, <1>5, <1>6 DEF EvaluatorAnswers

\* What the host does through veh() while no generation is under way.
LEMMA ThroughVehMoves ==
  ASSUME DriverInv, LedgerGrows, NEW t \in Tasks, ThroughVeh(t)
  PROVE  Gains /\ \E op, g : Moves(t, op, g)
<1> DEFINE g == generation[t]
<1>1. /\ g = Idle /\ Drives(t, g) /\ UNCHANGED admitted
      /\ Prepared(g)
  BY IdleMoves DEF ThroughVeh, Driving, Drives, driving, DriverInv, GenerationsOK,
                   Prepared, IsGeneration
<1>2. ASSUME NEW op, Becomes(t, op), Guarded(op), op.step # "evaluating"
      PROVE  \E new, h : Moves(t, new, h)
  <2>1. Guarded(op)'
    BY <1>1, <1>2, GuardOverGrowth
  <2> QED
    BY <1>1, <1>2, <2>1, IdleMoves DEF Moves
<1>3. ASSUME Finish(t) PROVE \E new, h : Moves(t, new, h)
  BY <1>2, <1>3, IdleMoves DEF Finish, Idle
<1>4. CASE commit_root(t)
  <2>1. PICK artifact \in Artifacts, scope \in Scopes, now \in Timestamps :
           append(sign_node(RootInputs(artifact, scope, now), SigningKey))
    BY <1>4 DEF commit_root
  <2>2. Becomes(t, task[t]) /\ Guarded(task[t]) /\ task[t].step # "evaluating"
    BY <1>4, <1>1, TaskStays DEF commit_root, At, DriverInv, GuardsOK
  <2> QED
    BY <1>2, <2>1, <2>2, RootDriven DEF Gains
<1>5. CASE resume_with_approval(t)
  <2>1. PICK key \in ApprovalKeys : append(ApprovedNode(task[t].pending, key))
    BY <1>5 DEF resume_with_approval
  <2>2. Driven(ApprovedNode(task[t].pending, key))
    BY <1>5, ApprovedDriven DEF resume_with_approval, At, DriverInv, GuardsOK
  <2> QED
    BY <1>3, <1>5, <2>1, <2>2 DEF Gains, resume_with_approval
<1>6. CASE rollback_to(t)
  <2>1. PICK id : Becomes(t, [step |-> "reverting", target_id |-> id])
    BY <1>6 DEF rollback_to
  <2>2. Guarded([step |-> "reverting", target_id |-> id])
    BY DEF Guarded
  <2> QED
    BY <1>2, <1>6, <2>1, <2>2 DEF Gains, rollback_to, ledger
<1>7. CASE RollbackSetsHead(t) \/ Drop(t)
  BY <1>3, <1>7 DEF RollbackSetsHead, Drop, set_head, Gains, ledger
<1>8. CASE commit_rollback(t)
  <2>1. PICK id \in DOMAIN nodes, parent_id \in head, now \in Timestamps :
           Becomes(t, [step |-> "rolling back", target_id |-> id,
                       target |-> Node(id), parent |-> Node(parent_id),
                       created_at |-> now])
    BY <1>8, Zenon DEF commit_rollback
  <2> DEFINE op == [step |-> "rolling back", target_id |-> id, target |-> Node(id),
                    parent |-> Node(parent_id), created_at |-> now]
  <2>2. Guarded(op)
    BY DEF Guarded, DriverInv, Inv, LedgerInv, HeadPromoted, IsPromoted
  <2> QED
    BY <1>2, <1>8, <2>1, <2>2 DEF Gains, commit_rollback, ledger
<1>9. CASE RollbackAppends(t)
  <2>1. IsRollback(task[t]) /\ Guarded(task[t]) /\ task[t].step = "rolling back"
    BY <1>9, AtStep DEF RollbackAppends, At, DriverInv, GuardsOK
  <2> QED
    BY <1>3, <1>9, <2>1, RollbackDriven DEF Gains, RollbackAppends
<1> QED
  BY <1>4, <1>5, <1>6, <1>7, <1>8, <1>9, Zenon DEF ThroughVeh

LEMMA DriverMoves ==
  ASSUME DriverInv, NEW t \in Tasks, DriverStep(t)
  PROVE  LedgerGrows /\ Gains /\ \E op, g : Moves(t, op, g)
<1>1. LedgerGrows
  BY DriverGrows DEF DriverInv
<1> QED
  BY <1>1, RunGenerationMoves, MutatorMoves, GenerationEnds, SandboxMoves,
     CycleMoves, ThroughVehMoves DEF DriverStep

-----------------------------------------------------------------------------
(* The sandboxes. *)

\* The generation that moves takes a sandbox, keeps it or gives it up.
LEMMA HoldersAfter ==
  ASSUME GenerationsOK, NEW t \in Tasks, NEW g, Drives(t, g)
  PROVE  /\ g.step \in {"cycling", "tearing down"} => Holders' = Holders \cup {t}
         /\ g.step \notin {"cycling", "tearing down"} => Holders' = Holders \ {t}
<1>1. generation' = [u \in Tasks |-> IF u = t THEN g ELSE generation[u]]
  BY DEF GenerationsOK, Drives
<1>2. \A u \in Tasks : HoldsSandbox(u)' <=> generation'[u].step \in {"cycling", "tearing down"}
  BY DEF HoldsSandbox, Driving
<1>3. \A u \in Tasks : HoldsSandbox(u) <=> generation[u].step \in {"cycling", "tearing down"}
  BY DEF HoldsSandbox, Driving
<1> QED
  BY <1>1, <1>2, <1>3 DEF Holders

LEMMA SandboxStep ==
  ASSUME DriverInv, NEW t \in Tasks, DriverStep(t)
  PROVE  SandboxesOK'
<1> DEFINE held == Cardinality(Holders)
<1>1. /\ held \in Nat /\ leaked \in 0 .. MaxLeaks /\ MaxLeaks \in Nat
      /\ sandboxes = held + leaked
  BY FS_CardinalityType, DriverAssumption
  DEF DriverInv, SandboxesOK, SandboxBalanced, Holders
<1>2. /\ IsFiniteSet(Holders \cup {t}) /\ IsFiniteSet(Holders \ {t})
      /\ t \in Holders => /\ Holders \cup {t} = Holders
                          /\ Cardinality(Holders \ {t}) = held - 1
      /\ t \notin Holders => /\ Holders \ {t} = Holders
                             /\ Cardinality(Holders \cup {t}) = held + 1
  BY FS_AddElement, FS_RemoveElement DEF DriverInv, SandboxesOK
<1>3. SandboxesOK' <=> /\ IsFiniteSet(Holders') /\ leaked' \in 0 .. MaxLeaks
                       /\ sandboxes' = Cardinality(Holders') + leaked'
  BY DEF SandboxesOK, SandboxBalanced, Holders
<1>4. t \in Holders <=> generation[t].step \in {"cycling", "tearing down"}
  BY DEF Holders, HoldsSandbox, Driving
<1>5. ASSUME Holders' = Holders, UNCHANGED <<sandboxes, leaked>>
      PROVE  SandboxesOK'
  BY <1>1, <1>3, <1>5 DEF DriverInv, SandboxesOK
<1>6. ASSUME NEW g, Drives(t, g), UNCHANGED <<sandboxes, leaked>>,
             g.step \in {"cycling", "tearing down"}
               <=> generation[t].step \in {"cycling", "tearing down"}
      PROVE  SandboxesOK'
  BY <1>2, <1>4, <1>5, <1>6, HoldersAfter DEF DriverInv
<1>7. CASE \/ run_generation(t) \/ MutatorProposes(t) \/ MutatorFails(t)
           \/ SandboxRefuses(t) \/ CycleReturns(t)
  <2>1. UNCHANGED <<sandboxes, leaked>>
    BY <1>7 DEF run_generation, MutatorProposes, MutatorFails, SandboxRefuses,
                CycleReturns
  <2>2. CASE run_generation(t)
    <3>1. PICK id \in select(Strategy), intent \in Intents, scope \in Scopes,
               now \in Timestamps :
             Drives(t, [step |-> "proposing", parent |-> Node(id), intent |-> intent,
                        allowed_scope |-> scope, created_at |-> now])
      BY <2>2, Zenon DEF run_generation
    <3> QED
      BY <1>6, <2>1, <2>2, <3>1 DEF run_generation, Driving
  <2>3. CASE MutatorProposes(t)
    <3>1. PICK inputs : Drives(t, [step |-> "enforcing", inputs |-> inputs])
      BY <2>3, Zenon DEF MutatorProposes
    <3> QED
      BY <1>6, <2>1, <2>3, <3>1 DEF MutatorProposes, Driving
  <2>4. CASE MutatorFails(t) \/ SandboxRefuses(t)
    BY <1>6, <2>1, <2>4 DEF MutatorFails, SandboxRefuses, Driving, Idle
  <2>5. CASE CycleReturns(t)
    BY <1>6, <2>1, <2>5 DEF CycleReturns, Driving
  <2> QED
    BY <1>7, <2>2, <2>3, <2>4, <2>5
<1>8. CASE ThroughVeh(t)
  <2>1. UNCHANGED driving
    BY <1>8 DEF ThroughVeh
  <2> QED
    BY <1>5, <2>1 DEF driving, Holders, HoldsSandbox, Driving
<1>9. CASE SandboxEnforces(t)
  <2>1. /\ Holders' = Holders \cup {t} /\ t \notin Holders
        /\ sandboxes' = sandboxes + 1 /\ leaked' = leaked
    BY <1>4, <1>9, HoldersAfter DEF SandboxEnforces, Driving, DriverInv
  <2> QED
    BY <1>1, <1>2, <1>3, <2>1
<1>10. Drives(t, Idle) => Holders' = Holders \ {t}
  <2>1. Idle.step \notin {"cycling", "tearing down"}
    BY DEF Idle
  <2> QED
    BY <2>1, HoldersAfter DEF DriverInv
<1>11. CASE TearDown(t)
  <2>1. /\ Holders' = Holders \ {t} /\ t \in Holders
        /\ sandboxes' = sandboxes - 1 /\ leaked' = leaked
    BY <1>4, <1>10, <1>11 DEF TearDown, Driving
  <2> QED
    BY <1>1, <1>2, <1>3, <2>1
<1>12. CASE TeardownFails(t) \/ DropGeneration(t)
  <2>1. /\ Holders' = Holders \ {t} /\ sandboxes' = sandboxes
        /\ t \in Holders => leaked < MaxLeaks /\ leaked' = leaked + 1
        /\ t \notin Holders => leaked' = leaked
    BY <1>4, <1>10, <1>12 DEF TeardownFails, DropGeneration, Driving, HoldsSandbox
  <2> QED
    BY <1>1, <1>2, <1>3, <2>1
<1> QED
  BY <1>7, <1>8, <1>9, <1>11, <1>12 DEF DriverStep

-----------------------------------------------------------------------------
(* The invariant is inductive. *)

LEMMA DriverInitInv == DriverInit => DriverInv
<1> SUFFICES ASSUME DriverInit PROVE DriverInv
  OBVIOUS
<1>1. /\ Init /\ task = [t \in Tasks |-> Idle] /\ DOMAIN nodes = {}
      /\ generation = [t \in Tasks |-> Idle] /\ sandboxes = 0 /\ leaked = 0
  BY DEF DriverInit, Init, StoreInit
<1>2. Inv /\ NodesSealed
  BY <1>1, InitInv DEF NodesSealed, Ledger
<1>3. GenerationsOK /\ GuardsOK
  BY <1>1, IdleMoves DEF GenerationsOK, GuardsOK, Ledger
<1>4. Holders = {}
  BY <1>1 DEF Holders, HoldsSandbox, Driving, Idle
<1>5. SandboxesOK
  <2>1. IsFiniteSet(Holders) /\ Cardinality(Holders) = 0
    BY <1>4, FS_EmptySet
  <2>2. leaked \in 0 .. MaxLeaks /\ sandboxes = Cardinality(Holders) + leaked
    BY <1>1, <2>1, DriverAssumption
  <2> QED
    BY <2>1, <2>2 DEF SandboxesOK, SandboxBalanced, Holders
<1> QED
  BY <1>2, <1>3, <1>5 DEF DriverInv

LEMMA DriverNextIsNext == DriverInv /\ [DriverNext]_driverVars => [Next]_vars
BY DriverStepIsStep DEF DriverInv, DriverNext, driverVars, Next

LEMMA DriverNextInv == DriverInv /\ [DriverNext]_driverVars => DriverInv'
<1> SUFFICES ASSUME DriverInv, [DriverNext]_driverVars PROVE DriverInv'
  OBVIOUS
<1>1. Inv' /\ NodesSealed'
  BY DriverNextIsNext, NextInv, NextSealed DEF DriverInv
<1>2. CASE DriverNext
  <2>1. PICK t \in Tasks : DriverStep(t)
    BY <1>2 DEF DriverNext
  <2>2. PICK op, g : LedgerGrows /\ Gains /\ Moves(t, op, g)
    BY <2>1, DriverMoves
  <2>3. GenerationsOK'
    BY <2>2, MoveKeepsGenerations DEF DriverInv
  <2>4. GuardsOK'
    BY <2>2, MoveKeepsGuards, GainKeepsDriven DEF DriverInv, Moves, GuardsOK
  <2> QED
    BY <1>1, <2>1, <2>3, <2>4, SandboxStep DEF DriverInv
<1>3. CASE UNCHANGED driverVars
  <2>1. UNCHANGED vars /\ UNCHANGED driving
    BY <1>3 DEF driverVars
  <2>2. GenerationsOK'
    <3>1. generation' = generation /\ task' = task /\ Ledger' = Ledger /\ nodes' = nodes
      BY <2>1 DEF vars, driving, Ledger
    <3>2. ASSUME NEW t \in Tasks PROVE Prepared(generation[t])' /\ InStep(task[t], generation[t])'
      <4>1. Prepared(generation[t]) /\ InStep(task[t], generation[t])
        BY Zenon DEF DriverInv, GenerationsOK
      <4>2. IsGeneration(generation[t])'
        BY <3>1, <4>1 DEF Prepared, IsGeneration, IsCopy, IsCycleInputs, Parents, Node, vars
      <4> QED
        BY <3>1, <4>1, <4>2, Zenon DEF Prepared, InStep
    <3> QED
      BY <3>1, <3>2, Zenon DEF DriverInv, GenerationsOK
  <2>3. GuardsOK'
    BY <2>1 DEF DriverInv, GuardsOK, Guarded, Driven, IsPromoted, vars, driving,
                Ledger, Node
  <2>4. SandboxesOK'
    BY <2>1 DEF DriverInv, SandboxesOK, SandboxBalanced, Holders, HoldsSandbox,
                Driving, driving
  <2> QED
    BY <1>1, <2>2, <2>3, <2>4 DEF DriverInv
<1> QED
  BY <1>2, <1>3

-----------------------------------------------------------------------------
(* The theorems. *)

THEOREM DriverInvariance == DriverSpec => []DriverInv
<1> QED
  BY DriverInitInv, DriverNextInv, PTL DEF DriverSpec

\* run_generation drives the runner through its own operations and a ledger
\* of its own: whatever the runner guarantees, it guarantees when driven.
THEOREM DriverImplementsVeh == DriverSpec => Spec
<1>1. DriverInit => Init
  BY DEF DriverInit
<1> QED
  BY <1>1, DriverNextIsNext, DriverInvariance, PTL DEF DriverSpec, Spec

\* A generation holds at its awaits what run_cycle will be given, and its
\* cycle runs exactly while it waits for it.
THEOREM DriverTypeCorrect == DriverSpec => []DriverTypeOK
<1>1. DriverInv => DriverTypeOK
  <2> SUFFICES ASSUME DriverInv PROVE DriverTypeOK
    OBVIOUS
  <2>1. sandboxes \in Nat /\ leaked \in 0 .. MaxLeaks
    BY FS_CardinalityType DEF DriverInv, SandboxesOK, SandboxBalanced, Holders
  <2> QED
    BY <2>1 DEF DriverInv, GenerationsOK, Prepared, InStep, DriverTypeOK, At, Driving
<1> QED
  BY <1>1, DriverInvariance, PTL

\* run_generation tears down what it enforced, whatever becomes of the cycle;
\* only a dropped generation and a failed teardown leave a sandbox behind.
THEOREM SandboxesBalance == DriverSpec => []SandboxBalanced
<1>1. DriverInv => SandboxBalanced
  BY DEF DriverInv, SandboxesOK
<1> QED
  BY <1>1, DriverInvariance, PTL

\* Nothing is evaluated, and nothing a cycle made is in the ledger, that the
\* sandbox had not accepted under the scope it carries; an approval that
\* comes after the generation has ended included.
THEOREM EnforcedFirst == DriverSpec => []EnforcedBeforeEvaluated
<1>1. DriverInv => EnforcedBeforeEvaluated
  BY DEF DriverInv, GuardsOK, Guarded, Driven, EnforcedBeforeEvaluated, At
<1> QED
  BY <1>1, DriverInvariance, PTL

\* A driven lineage has no rejected parent: the selector returned a promoted
\* one, and no node's status ever changes until the child is appended.
THEOREM ParentsStayPromoted == DriverSpec => []ParentsPromoted
<1>1. DriverInv => ParentsPromoted
  BY DEF DriverInv, GuardsOK, Driven, ParentsPromoted
<1> QED
  BY <1>1, DriverInvariance, PTL

=============================================================================
