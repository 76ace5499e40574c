------------------------------ MODULE VehProofs ------------------------------
(***************************************************************************)
(* Theorems about the lifecycle runner, for every set of tasks, artifacts, *)
(* scopes, intents, scores and keys and every bound.                       *)
(*                                                                         *)
(* The inductive invariant is the conjunction of the type invariant, which *)
(* ties what an operation holds to the ledger, with the three invariants   *)
(* of the ledger: an append keeps them because of what the operation that  *)
(* appends holds, and what it holds stays true because the ledger grows.   *)
(***************************************************************************)
EXTENDS LineageExport, SequenceTheorems, TLAPS

LedgerInv == LedgerOK /\ LedgerIndexed /\ HeadPromoted /\ LineageAcyclic

Inv == LedgerInv /\ TasksOK

\* A node an operation may append: it is signed, and it is a root or the
\* child of a node that the host may pass.
Sound(node) ==
  /\ IsAgentNode(node)
  /\ verify_node(node)
  /\ \/ node.parent_id = None /\ node.generation = 0
     \/ \E parent \in ParentsOf(node) :
          node.generation = NextGeneration(parent.generation)

-----------------------------------------------------------------------------
(* Sequences. *)

\* Appending to a sequence keeps its elements in place.
LEMMA AppendFacts ==
  ASSUME NEW S, NEW T, S \subseteq T, NEW s \in Seq(S), NEW e \in T
  PROVE  /\ Len(s) \in Nat
         /\ DOMAIN s = 1 .. Len(s)
         /\ Append(s, e) \in Seq(T)
         /\ DOMAIN Append(s, e) = 1 .. Len(s) + 1
         /\ \A i \in 1 .. Len(s) : s[i] \in S /\ Append(s, e)[i] = s[i]
         /\ Append(s, e)[Len(s) + 1] = e
<1>1. Len(s) \in Nat /\ DOMAIN s = 1 .. Len(s)
  BY LenProperties
<1>2. \A i \in 1 .. Len(s) : s[i] \in S
  BY ElementOfSeq
<1>3. s \in Seq(T)
  BY <1>1, <1>2, SeqDef
<1> QED
  BY <1>1, <1>2, <1>3, AppendProperties

\* A function on 1 .. n is a sequence of that length.
LEMMA SequenceLength ==
  ASSUME NEW n \in Nat, NEW f, DOMAIN f = 1 .. n, f = [i \in 1 .. n |-> f[i]]
  PROVE  Len(f) = n
<1>1. f \in Seq({f[i] : i \in 1 .. n})
  BY SeqDef
<1>2. Len(f) \in Nat /\ 1 .. n = 1 .. Len(f)
  BY <1>1, LenProperties
<1> QED
  BY <1>2

-----------------------------------------------------------------------------
(* Signing. *)

\* A node that sign_node returns passes verify_node, and its fields are the
\* inputs it was made from.
LEMMA SignedVerifies ==
  ASSUME NEW parent_id, NEW generation, NEW created_at, NEW intent, NEW scope,
         NEW eval_results, NEW artifact, NEW status, NEW valid_parent, NEW key
  PROVE  LET node == sign_node(CommitInputs(parent_id, generation, created_at,
                                 intent, scope, eval_results, artifact, status,
                                 valid_parent), key)
         IN /\ verify_node(node)
            /\ node.parent_id = parent_id /\ node.generation = generation
            /\ node.created_at = created_at /\ node.mutation_intent = intent
            /\ node.allowed_scope = scope /\ node.eval_results = eval_results
            /\ node.artifact = artifact /\ node.status = status
            /\ node.valid_parent = valid_parent
            /\ node.capability_sbom = capability_sbom(artifact)
            /\ node.signer_public_key = key
BY DEF sign_node, CommitInputs, verify_node, signing_payload, compute_agent_id,
       Sign

\* u32 arithmetic stays in range.
LEMMA NextGenerationInRange ==
  ASSUME NEW g \in Generations
  PROVE  NextGeneration(g) \in Generations
BY GenerationAssumption DEF NextGeneration, Generations

LEMMA ZeroGeneration == 0 \in Generations
BY GenerationAssumption DEF Generations

-----------------------------------------------------------------------------
(* The ledger. *)

\* What Insert makes of a ledger that does not hold the node yet: the node
\* comes last, and whatever was there stays what and where it was.
LEMMA InsertFacts ==
  ASSUME LedgerInv, NEW node, ~Contains(node.agent_id), Insert(node)
  PROVE  /\ Ledger' = Ledger \cup {node.agent_id}
         /\ Node(node.agent_id)' = node
         /\ \A id \in Ledger : id # node.agent_id /\ Node(id)' = Node(id)
         /\ Len(insertion_order) \in Nat
         /\ DOMAIN insertion_order = 1 .. Len(insertion_order)
         /\ (DOMAIN insertion_order)' = 1 .. Len(insertion_order) + 1
         /\ insertion_order' \in Seq(Ledger')
         /\ \A i \in 1 .. Len(insertion_order) :
              Position(i) \in Ledger /\ Position(i)' = Position(i)
         /\ insertion_order'[Len(insertion_order) + 1] = node.agent_id
<1>1. Ledger' = Ledger \cup {node.agent_id}
  BY DEF Insert, Ledger
<1>2. /\ Node(node.agent_id)' = node
      /\ \A id \in Ledger : id # node.agent_id /\ Node(id)' = Node(id)
  BY DEF Insert, Node, Contains, Ledger
<1>3. /\ insertion_order \in Seq(Ledger)
      /\ insertion_order' = Append(insertion_order, node.agent_id)
      /\ Ledger \subseteq Ledger' /\ node.agent_id \in Ledger'
  BY <1>1 DEF LedgerInv, LedgerOK, Insert
<1> DEFINE order == insertion_order
           next  == Append(order, node.agent_id)
<1>4. /\ Len(order) \in Nat
      /\ DOMAIN order = 1 .. Len(order)
      /\ next \in Seq(Ledger')
      /\ DOMAIN next = 1 .. Len(order) + 1
      /\ \A i \in 1 .. Len(order) : order[i] \in Ledger /\ next[i] = order[i]
      /\ next[Len(order) + 1] = node.agent_id
  BY <1>3, AppendFacts
<1>5. insertion_order' = next
  BY <1>3
<1>6. /\ (DOMAIN insertion_order)' = 1 .. Len(order) + 1
      /\ insertion_order' \in Seq(Ledger')
  BY <1>4, <1>5
<1>7. \A i \in 1 .. Len(order) :
        Position(i) \in Ledger /\ Position(i)' = Position(i)
  BY <1>4, <1>5 DEF Position
<1> QED
  BY <1>1, <1>2, <1>4, <1>5, <1>6, <1>7

\* An append of a sound node keeps the invariant of the ledger.
LEMMA InsertKeepsLedger ==
  ASSUME LedgerInv, NEW node, Sound(node), ~Contains(node.agent_id), Insert(node)
  PROVE  LedgerInv'
<1> DEFINE id == node.agent_id
           n  == Len(insertion_order)
<1>0. /\ Ledger' = Ledger \cup {id}
      /\ Node(id)' = node
      /\ \A i \in Ledger : i # id /\ Node(i)' = Node(i)
      /\ n \in Nat
      /\ DOMAIN insertion_order = 1 .. n
      /\ (DOMAIN insertion_order)' = 1 .. n + 1
      /\ insertion_order' \in Seq(Ledger')
      /\ \A i \in 1 .. n : Position(i) \in Ledger /\ Position(i)' = Position(i)
      /\ insertion_order'[n + 1] = id
  BY InsertFacts
<1>1. LedgerOK'
  <2>1. \A i \in Ledger' : IsAgentNode(Node(i)')
    BY <1>0 DEF LedgerInv, LedgerOK, Sound
  <2>2. head' \in Option(Ledger')
    BY <1>0 DEF LedgerInv, LedgerOK, Insert, Option
  <2> QED
    BY <1>0, <2>1, <2>2 DEF LedgerOK, Option, IsAgentNode, capability_sbom
<1>2. LedgerIndexed'
  <2>1. \A i \in Ledger' : Node(i)'.agent_id = i /\ verify_node(Node(i)')
    BY <1>0 DEF LedgerInv, LedgerIndexed, Sound
  <2>2. \A i \in Ledger' : \E k \in 1 .. n + 1 : Position(k)' = i
    <3>1. \A i \in Ledger : \E k \in 1 .. n : Position(k)' = i
      BY <1>0 DEF LedgerInv, LedgerIndexed
    <3>2. n + 1 \in 1 .. n + 1 /\ 1 .. n \subseteq 1 .. n + 1
      BY <1>0
    <3> QED
      BY <1>0, <3>1, <3>2 DEF Position
  <2>3. \A k, l \in 1 .. n + 1 : Position(k)' = Position(l)' => k = l
    <3>1. \A k, l \in 1 .. n : Position(k)' = Position(l)' => k = l
      BY <1>0 DEF LedgerInv, LedgerIndexed
    <3>2. \A k \in 1 .. n : Position(k)' # insertion_order'[n + 1]
      BY <1>0
    <3> QED
      BY <1>0, <3>1, <3>2 DEF Position
  <2> QED
    BY <1>0, <2>1, <2>2, <2>3 DEF LedgerIndexed, verify_node
<1>3. HeadPromoted'
  <2>1. \A i \in Ledger' : IsPromoted(i)' <=> Node(i)'.status = Promoted
    BY DEF IsPromoted
  <2>2. CASE node.status = Promoted
    BY <1>0, <2>1, <2>2 DEF HeadPromoted, Insert, Some, None
  <2>3. CASE node.status # Promoted
    BY <1>0, <2>1, <2>3
    DEF LedgerInv, LedgerOK, Option, HeadPromoted, IsPromoted, Insert, Some, None
  <2> QED
    BY <2>2, <2>3
<1>4. LineageAcyclic'
  <2>1. SUFFICES ASSUME NEW k \in 1 .. n + 1
                 PROVE  \/ /\ Node(Position(k))'.parent_id = None
                           /\ Node(Position(k))'.generation = 0
                        \/ \E j \in 1 .. k - 1 :
                             /\ Node(Position(k))'.parent_id = Some(Position(j)')
                             /\ Node(Position(k))'.generation =
                                  NextGeneration(Node(Position(j))'.generation)
                        \/ \E parent \in Foreign :
                             /\ Node(Position(k))'.parent_id = Some(parent.agent_id)
                             /\ Node(Position(k))'.generation =
                                  NextGeneration(parent.generation)
    BY <1>0 DEF LineageAcyclic, NextGeneration
  <2>2. CASE k \in 1 .. n
    <3>1. \A j \in 1 .. k : /\ Position(j)' = Position(j)
                            /\ Node(Position(j))' = Node(Position(j))
      BY <1>0, <2>2 DEF Node
    <3> QED
      BY <1>0, <2>2, <3>1 DEF LedgerInv, LineageAcyclic
  <2>3. CASE k = n + 1
    <3>1. Node(Position(k))' = node
      BY <1>0, <2>3 DEF Node, Position
    <3>2. \A i \in Ledger : \E j \in 1 .. k - 1 :
             Position(j)' = i /\ Node(Position(j))' = Node(i)
      BY <1>0, <2>3 DEF LedgerInv, LedgerIndexed, Node
    <3>3. CASE node.parent_id = None /\ node.generation = 0
      BY <3>1, <3>3
    <3>4. ASSUME NEW parent \in Parents, node.parent_id = Some(parent.agent_id),
                 node.generation = NextGeneration(parent.generation)
          PROVE  \/ \E j \in 1 .. k - 1 :
                      /\ node.parent_id = Some(Position(j)')
                      /\ node.generation = NextGeneration(Node(Position(j))'.generation)
                 \/ parent \in Foreign
      <4>1. CASE parent \in Foreign
        BY <4>1
      <4>2. CASE \E i \in Ledger : parent = Node(i)
        BY <3>2, <3>4, <4>2 DEF LedgerInv, LedgerIndexed
      <4> QED
        BY <3>4, <4>1, <4>2 DEF Parents, Ledger
    <3> QED
      BY <3>1, <3>3, <3>4 DEF Sound, ParentsOf
  <2> QED
    BY <1>0, <2>2, <2>3
<1> QED
  BY <1>1, <1>2, <1>3, <1>4 DEF LedgerInv

\* What nodes() returns.
LEMMA AllNodesFacts ==
  ASSUME LedgerInv
  PROVE  /\ Len(AllNodes) \in Nat
         /\ DOMAIN AllNodes = 1 .. Len(AllNodes)
         /\ Len(AllNodes) = Len(insertion_order)
         /\ DOMAIN insertion_order = 1 .. Len(insertion_order)
         /\ \A i \in 1 .. Len(AllNodes) :
              Position(i) \in Ledger /\ AllNodes[i] = Node(Position(i))
<1> DEFINE all == AllNodes
           n == Len(insertion_order)
<1>1. n \in Nat /\ DOMAIN insertion_order = 1 .. n
  BY LenProperties DEF LedgerInv, LedgerOK
<1>2. /\ DOMAIN all = 1 .. n
      /\ \A i \in 1 .. n : Position(i) \in Ledger /\ all[i] = Node(Position(i))
      /\ all = [i \in 1 .. n |-> all[i]]
  BY <1>1, ElementOfSeq DEF AllNodes, Position, Node, LedgerInv, LedgerOK
<1> HIDE DEF all
<1>3. Len(all) = n
  BY <1>1, <1>2, SequenceLength
<1> QED
  BY <1>1, <1>2, <1>3 DEF all

LEMMA UnchangedKeepsLedger ==
  ASSUME LedgerInv, UNCHANGED ledger
  PROVE  LedgerInv'
BY DEF LedgerInv, LedgerOK, LedgerIndexed, HeadPromoted, LineageAcyclic, ledger,
       Ledger, Node, Position, IsPromoted

\* append keeps the invariant of the ledger, refused duplicates included.
LEMMA AppendKeepsLedger ==
  ASSUME LedgerInv, NEW node, Sound(node), append(node)
  PROVE  LedgerInv'
<1>1. CASE Contains(node.agent_id)
  <2>1. UNCHANGED ledger
    BY <1>1 DEF append
  <2> QED
    BY <2>1, UnchangedKeepsLedger
<1>2. CASE ~Contains(node.agent_id)
  <2>1. Insert(node)
    BY <1>2 DEF append
  <2> QED
    BY <1>2, <2>1, InsertKeepsLedger
<1> QED
  BY <1>1, <1>2

\* set_head to a promoted node of the ledger keeps it too.
LEMMA SetHeadKeepsLedger ==
  ASSUME LedgerInv, NEW id \in Ledger, IsPromoted(id), set_head(id)
  PROVE  LedgerInv'
<1>1. head' = {id} /\ nodes' = nodes /\ insertion_order' = insertion_order
  BY DEF set_head, Contains, Ledger, Some
<1>2. LedgerOK'
  BY <1>1 DEF LedgerInv, LedgerOK, Ledger, Node, IsAgentNode, Option, Some
<1>3. LedgerIndexed' /\ LineageAcyclic'
  BY <1>1 DEF LedgerInv, LedgerIndexed, LineageAcyclic, Ledger, Node, Position
<1>4. HeadPromoted'
  BY <1>1 DEF HeadPromoted, Ledger, Node, IsPromoted, None
<1> QED
  BY <1>2, <1>3, <1>4 DEF LedgerInv

-----------------------------------------------------------------------------
(* The operations under way. *)

\* No node is changed or removed.
LedgerGrows == \A id \in Ledger : id \in Ledger' /\ Node(id)' = Node(id)

LEMMA AppendGrows ==
  ASSUME NEW node, append(node)
  PROVE  LedgerGrows
BY DEF append, Insert, LedgerGrows, ledger, Ledger, Node, Contains

\* What the host may pass as a parent, it may pass from then on.
LEMMA ParentsGrow ==
  ASSUME LedgerGrows
  PROVE  \A parent \in Parents : parent \in Parents'
BY DEF Parents, LedgerGrows, Ledger

\* What an operation holds stays true while the ledger grows.
LEMMA TaskOverGrowth ==
  ASSUME LedgerGrows, NEW op, IsTask(op)
  PROVE  IsTask(op)'
<1>1. CASE op = Idle
  BY <1>1 DEF IsTask, Idle
<1>2. CASE op.step = "evaluating" /\ IsCycleInputs(op.inputs)
  BY <1>2, ParentsGrow DEF IsTask, IsCycleInputs
<1>3. CASE op.step = "awaiting" /\ IsPending(op.pending)
  BY <1>3, ParentsGrow DEF IsTask, IsPending
<1>4. CASE op.step = "reverting" /\ op.target_id \in Ledger /\ IsPromoted(op.target_id)
  BY <1>4 DEF IsTask, IsPromoted, LedgerGrows
<1>5. CASE op.step = "rolling back" /\ IsRollback(op)
  BY <1>5 DEF IsTask, IsRollback, IsCopy, LedgerGrows
<1> QED
  BY <1>1, <1>2, <1>3, <1>4, <1>5 DEF IsTask

LEMMA GrowthKeepsTasks ==
  ASSUME TasksOK, LedgerGrows, UNCHANGED task
  PROVE  TasksOK'
<1>1. \A t \in Tasks : IsTask(task[t])'
  <2> TAKE t \in Tasks
  <2>1. PICK op : op = task[t]
    OBVIOUS
  <2>2. IsTask(op)'
    BY <2>1, TaskOverGrowth DEF TasksOK
  <2> QED
    BY <2>1, <2>2
<1> QED
  BY <1>1 DEF TasksOK

\* One task goes on to something that holds of the ledger before the step.
LEMMA BecomesKeepsTasks ==
  ASSUME TasksOK, LedgerGrows, NEW t \in Tasks,
         \E op : IsTask(op) /\ Becomes(t, op)
  PROVE  TasksOK'
<1>1. PICK op : IsTask(op) /\ task' = [task EXCEPT ![t] = op]
  BY DEF Becomes
<1>2. task' = [u \in Tasks |-> IF u = t THEN op ELSE task[u]]
  BY <1>1 DEF TasksOK
<1>3. \A u \in Tasks : IsTask(task[u])'
  <2> TAKE u \in Tasks
  <2>1. PICK new : new = task'[u]
    OBVIOUS
  <2>2. IsTask(new)
    BY <1>1, <1>2, <2>1 DEF TasksOK
  <2>3. IsTask(new)'
    BY <2>2, TaskOverGrowth
  <2> QED
    BY <2>1, <2>3
<1> QED
  BY <1>2, <1>3 DEF TasksOK

-----------------------------------------------------------------------------
(* The nodes the operations append are sound. *)

\* The parent of a cycle, whoever made it: a node of the ledger is typed, and
\* a foreign one is assumed to be.
LEMMA ParentFacts ==
  ASSUME LedgerInv, NEW parent \in Parents
  PROVE  /\ parent.generation \in Generations
         /\ parent.allowed_scope.max_generation \subseteq Nat
         /\ parent_score(parent) \subseteq Int
<1>1. \A score : IsScore(score) => score \subseteq Int
  BY DEF IsScore, None, Some
<1>2. CASE parent \in Foreign
  <2>1. CASE parent.eval_results = {}
    BY <1>2, <2>1, ForeignAssumption DEF Generations, parent_score
  <2>2. CASE \E score : score \in parent.eval_results
    <3>1. PICK score \in parent.eval_results :
             parent.eval_results = Some(score) /\ IsScore(score)
      BY <1>2, <2>2, ForeignAssumption
    <3>2. parent_score(parent) = score
      BY <3>1 DEF parent_score, Some
    <3> QED
      BY <1>1, <1>2, <3>1, <3>2, ForeignAssumption DEF Generations
  <2> QED
    BY <2>1, <2>2
<1>3. CASE \E id \in Ledger : parent = Node(id)
  <2>1. IsAgentNode(parent)
    BY <1>3 DEF LedgerInv, LedgerOK
  <2>2. CASE parent.eval_results = None
    BY <2>1, <2>2, NumbersAssumption DEF IsAgentNode, parent_score, None
  <2>3. CASE \E score \in Scores : parent.eval_results = Some(score)
    <3>1. PICK score \in Scores : parent_score(parent) = score
      BY <2>3 DEF parent_score, Some
    <3> QED
      BY <1>1, <2>1, <3>1, NumbersAssumption DEF IsAgentNode
  <2> QED
    BY <2>1, <2>2, <2>3 DEF IsAgentNode, Option
<1> QED
  BY <1>2, <1>3 DEF Parents, Ledger

LEMMA SignedSound ==
  ASSUME NEW parent_id, NEW generation \in Generations,
         NEW created_at \in Timestamps, NEW intent, NEW scope \in Scopes,
         NEW eval_results \in Option(Scores), NEW artifact \in Artifacts,
         NEW status \in NodeStatus, NEW valid_parent \in BOOLEAN, NEW key,
         \/ parent_id = None /\ generation = 0
         \/ \E parent \in Parents : /\ parent_id = Some(parent.agent_id)
                                    /\ generation = NextGeneration(parent.generation)
  PROVE  Sound(sign_node(CommitInputs(parent_id, generation, created_at, intent,
                           scope, eval_results, artifact, status, valid_parent),
                         key))
BY SignedVerifies DEF Sound, IsAgentNode, ParentsOf

LEMMA RootSound ==
  ASSUME NEW artifact \in Artifacts, NEW scope \in Scopes, NEW now \in Timestamps
  PROVE  Sound(sign_node(RootInputs(artifact, scope, now), SigningKey))
<1>1. None \in Option(Scores) /\ Promoted \in NodeStatus
  BY DEF Option, NodeStatus
<1> QED
  BY <1>1, SignedSound, ZeroGeneration DEF RootInputs

LEMMA CycleSound ==
  ASSUME LedgerInv, NEW inputs, IsCycleInputs(inputs), NEW score \in Scores,
         NEW status \in NodeStatus
  PROVE  Sound(CycleNode(inputs, score, status))
<1>1. inputs.parent \in Parents
  BY DEF IsCycleInputs
<1>2. NextGeneration(inputs.parent.generation) \in Generations
  BY <1>1, ParentFacts, NextGenerationInRange
<1>3. Some(score) \in Option(Scores) /\ (status = Promoted) \in BOOLEAN
  BY DEF Option
<1> QED
  BY <1>1, <1>2, <1>3, SignedSound DEF CycleNode, IsCycleInputs

LEMMA ApprovedSound ==
  ASSUME LedgerInv, NEW pending, IsPending(pending), NEW key
  PROVE  Sound(ApprovedNode(pending, key))
<1>1. PICK parent \in Parents : /\ pending.parent_id = Some(parent.agent_id)
                                /\ pending.parent_generation = parent.generation
  BY DEF IsPending
<1>2. NextGeneration(pending.parent_generation) \in Generations
  BY <1>1, ParentFacts, NextGenerationInRange
<1>3. /\ Some(pending.eval_results) \in Option(Scores)
      /\ Promoted \in NodeStatus
  BY DEF IsPending, Option, NodeStatus
<1> QED
  BY <1>1, <1>2, <1>3, SignedSound DEF ApprovedNode, IsPending

LEMMA RollbackSound ==
  ASSUME LedgerInv, NEW op, IsRollback(op)
  PROVE  Sound(RollbackNode(op))
<1>1. op.parent \in Parents
  BY DEF IsRollback, IsCopy, Parents, Ledger
<1>2. NextGeneration(op.parent.generation) \in Generations
  BY <1>1, ParentFacts, NextGenerationInRange
<1>3. op.target.allowed_scope \in Scopes /\ op.target.artifact \in Artifacts
  BY DEF IsRollback, LedgerInv, LedgerOK, IsAgentNode
<1>4. None \in Option(Scores) /\ Promoted \in NodeStatus
  BY DEF Option, NodeStatus
<1> QED
  BY <1>1, <1>2, <1>3, <1>4, SignedSound DEF RollbackNode, IsRollback

-----------------------------------------------------------------------------
(* What a step does to the ledger. *)

\* A node as sign_node makes it: with all its fields, and a valid parent of
\* others exactly if it is promoted.
Sealed(node) ==
  /\ VerifiedFields \subseteq DOMAIN node
  /\ node.valid_parent = (node.status = Promoted)

LEMMA SignedSealed ==
  ASSUME NEW inputs, NEW key, inputs.valid_parent = (inputs.status = Promoted)
  PROVE  Sealed(sign_node(inputs, key))
BY DEF sign_node, Sealed, VerifiedFields

LEMMA AllSealed ==
  /\ \A artifact, scope, now, key : Sealed(sign_node(RootInputs(artifact, scope, now), key))
  /\ \A inputs, score, status : Sealed(CycleNode(inputs, score, status))
  /\ \A pending, key : Sealed(ApprovedNode(pending, key))
  /\ \A op : Sealed(RollbackNode(op))
BY SignedSealed
DEF RootInputs, CycleNode, ApprovedNode, RollbackNode, CommitInputs

-----------------------------------------------------------------------------
(* Every step keeps the invariant. *)

\* The shape of nearly every step: the ledger keeps its invariant and grows,
\* and one task goes on with something that holds.
LEMMA StepKeepsInv ==
  ASSUME Inv, LedgerInv', LedgerGrows, NEW t \in Tasks,
         \E op : IsTask(op) /\ Becomes(t, op)
  PROVE  Inv'
BY BecomesKeepsTasks DEF Inv

LEMMA AppendAndFinish ==
  ASSUME Inv, NEW t \in Tasks, NEW node, Sound(node), append(node), Finish(t)
  PROVE  Inv'
<1>1. LedgerInv' /\ LedgerGrows
  BY AppendKeepsLedger, AppendGrows DEF Inv
<1>2. IsTask(Idle) /\ Becomes(t, Idle)
  BY DEF IsTask, Finish
<1> QED
  BY <1>1, <1>2, StepKeepsInv

LEMMA BecomesOnly ==
  ASSUME Inv, NEW t \in Tasks, NEW op, IsTask(op), Becomes(t, op), UNCHANGED ledger
  PROVE  Inv'
<1>1. LedgerInv'
  BY UnchangedKeepsLedger DEF Inv
<1>2. LedgerGrows
  BY DEF LedgerGrows, ledger, Ledger, Node
<1> QED
  BY <1>1, <1>2, StepKeepsInv

\* A task at a step holds what that step's kind of operation holds.
LEMMA AtStep ==
  ASSUME Inv, NEW t \in Tasks
  PROVE  /\ At(t, "evaluating") => IsCycleInputs(task[t].inputs)
         /\ At(t, "awaiting") => IsPending(task[t].pending)
         /\ At(t, "reverting") => /\ task[t].target_id \in Ledger
                                  /\ IsPromoted(task[t].target_id)
         /\ At(t, "rolling back") => IsRollback(task[t])
<1>1. IsTask(task[t])
  BY DEF Inv, TasksOK
<1>2. task[t] = Idle => At(t, "idle")
  BY DEF At, Idle
<1> QED
  BY <1>1, <1>2 DEF At, IsTask

LEMMA RootStep ==
  ASSUME Inv, NEW t \in Tasks, commit_root(t)
  PROVE  Inv'
<1>1. PICK artifact \in Artifacts, scope \in Scopes, now \in Timestamps :
         append(sign_node(RootInputs(artifact, scope, now), SigningKey))
  BY DEF commit_root
<1>2. LedgerInv' /\ LedgerGrows
  BY <1>1, RootSound, AppendKeepsLedger, AppendGrows DEF Inv
<1> QED
  BY <1>2, GrowthKeepsTasks DEF Inv, commit_root

LEMMA RunCycleStep ==
  ASSUME Inv, NEW t \in Tasks, run_cycle(t)
  PROVE  Inv'
<1>1. PICK parent \in Parents, intent \in Intents, candidate \in Artifacts,
           scope \in Scopes, now \in Timestamps :
         StartCycle(t, CycleInputs(parent, intent, candidate, scope, now))
  BY DEF run_cycle
<1> DEFINE inputs == CycleInputs(parent, intent, candidate, scope, now)
<1>2. IsCycleInputs(inputs)
  BY DEF IsCycleInputs, CycleInputs
<1>3. IsTask([step |-> "evaluating", inputs |-> inputs])
  BY <1>2 DEF IsTask
<1> QED
  BY <1>1, <1>3, BecomesOnly DEF StartCycle

LEMMA EvaluatorStep ==
  ASSUME Inv, NEW t \in Tasks, EvaluatorAnswers(t)
  PROVE  Inv'
<1> DEFINE inputs == task[t].inputs
<1>0. IsCycleInputs(inputs)
  BY AtStep DEF EvaluatorAnswers, EvaluatorFails, CycleDecides
<1>1. CASE EvaluatorFails(t)
  <2>1. IsTask(Idle)
    BY DEF IsTask
  <2> QED
    BY <1>1, <2>1, BecomesOnly DEF EvaluatorFails, Finish
<1>2. ASSUME NEW score \in Scores, CycleDecides(t, score)
      PROVE  Inv'
  <2>1. CASE RejectNotImproved(t, score) \/ GateDenies(t, score)
    <3>1. Sound(CycleNode(inputs, score, Rejected))
      BY <1>0, CycleSound DEF Inv, NodeStatus
    <3> QED
      BY <2>1, <3>1, AppendAndFinish
      DEF RejectNotImproved, GateDenies, commit_rejected
  <2>2. CASE GateApproves(t, score)
    <3>1. Sound(CycleNode(inputs, score, Promoted))
      BY <1>0, CycleSound DEF Inv, NodeStatus
    <3> QED
      BY <2>2, <3>1, AppendAndFinish DEF GateApproves, commit_promoted
  <2>3. CASE GatePauses(t, score)
    <3>1. IsPending(PendingApproval(inputs, score))
      BY <1>0 DEF IsPending, PendingApproval, IsCycleInputs
    <3>2. IsTask([step |-> "awaiting", pending |-> PendingApproval(inputs, score)])
      BY <3>1 DEF IsTask
    <3> QED
      BY <2>3, <3>2, BecomesOnly DEF GatePauses
  <2> QED
    BY <1>2, <2>1, <2>2, <2>3 DEF CycleDecides
<1> QED
  BY <1>1, <1>2 DEF EvaluatorAnswers

LEMMA ResumeStep ==
  ASSUME Inv, NEW t \in Tasks, resume_with_approval(t)
  PROVE  Inv'
<1>1. PICK key \in ApprovalKeys : append(ApprovedNode(task[t].pending, key))
  BY DEF resume_with_approval
<1>2. Sound(ApprovedNode(task[t].pending, key))
  BY AtStep, ApprovedSound DEF resume_with_approval, Inv
<1> QED
  BY <1>1, <1>2, AppendAndFinish DEF resume_with_approval

LEMMA RevertStep ==
  ASSUME Inv, NEW t \in Tasks, rollback_to(t) \/ RollbackSetsHead(t)
  PROVE  Inv'
<1>1. CASE rollback_to(t)
  <2>1. PICK id \in Ledger :
           /\ MayRollBackTo(id)
           /\ Becomes(t, [step |-> "reverting", target_id |-> id])
    BY <1>1 DEF rollback_to, Ledger
  <2>2. IsTask([step |-> "reverting", target_id |-> id])
    BY <2>1 DEF IsTask, MayRollBackTo
  <2> QED
    BY <1>1, <2>1, <2>2, BecomesOnly DEF rollback_to
<1>2. CASE RollbackSetsHead(t)
  <2>1. task[t].target_id \in Ledger /\ IsPromoted(task[t].target_id)
    BY <1>2, AtStep DEF RollbackSetsHead
  <2>2. LedgerInv'
    BY <1>2, <2>1, SetHeadKeepsLedger DEF RollbackSetsHead, Inv
  <2>3. LedgerGrows
    BY <1>2 DEF RollbackSetsHead, set_head, LedgerGrows, Ledger, Node
  <2>4. IsTask(Idle) /\ Becomes(t, Idle)
    BY <1>2 DEF IsTask, RollbackSetsHead, Finish
  <2> QED
    BY <2>2, <2>3, <2>4, StepKeepsInv
<1> QED
  BY <1>1, <1>2

LEMMA RollbackStep ==
  ASSUME Inv, NEW t \in Tasks, commit_rollback(t) \/ RollbackAppends(t)
  PROVE  Inv'
<1>1. CASE commit_rollback(t)
  <2>1. PICK id \in Ledger, parent_id \in head, now \in Timestamps :
           /\ MayRollBackTo(id)
           /\ Contains(parent_id)
           /\ Becomes(t, [step |-> "rolling back", target_id |-> id,
                          target |-> Node(id), parent |-> Node(parent_id),
                          created_at |-> now])
    BY <1>1 DEF commit_rollback, Ledger
  <2> DEFINE op == [step |-> "rolling back", target_id |-> id,
                    target |-> Node(id), parent |-> Node(parent_id),
                    created_at |-> now]
  <2>2. IsRollback(op)
    BY <2>1 DEF IsRollback, IsCopy, MayRollBackTo, IsPromoted, Contains, Ledger,
                Inv, LedgerInv, LedgerIndexed
  <2>3. IsTask(op)
    BY <2>2 DEF IsTask
  <2> QED
    BY <1>1, <2>1, <2>3, BecomesOnly DEF commit_rollback
<1>2. CASE RollbackAppends(t)
  <2>1. Sound(RollbackNode(task[t]))
    BY <1>2, AtStep, RollbackSound DEF RollbackAppends, Inv
  <2> QED
    BY <1>2, <2>1, AppendAndFinish DEF RollbackAppends
<1> QED
  BY <1>1, <1>2

LEMMA DropStep ==
  ASSUME Inv, NEW t \in Tasks, Drop(t)
  PROVE  Inv'
<1>1. IsTask(Idle)
  BY DEF IsTask
<1> QED
  BY <1>1, BecomesOnly DEF Drop, Finish

\* Every step leaves the ledger alone, appends one sound node, or sets the
\* head to a promoted one.
LEMMA StepOnLedger ==
  ASSUME Inv, NEW t \in Tasks, Step(t)
  PROVE  \/ UNCHANGED ledger
         \/ \E node : Sound(node) /\ Sealed(node) /\ append(node)
         \/ \E id \in Ledger : IsPromoted(id) /\ set_head(id)
<1>1. CASE commit_root(t)
  <2>1. PICK artifact \in Artifacts, scope \in Scopes, now \in Timestamps :
           append(sign_node(RootInputs(artifact, scope, now), SigningKey))
    BY <1>1 DEF commit_root
  <2> QED
    BY <2>1, RootSound, AllSealed
<1>2. CASE EvaluatorAnswers(t)
  <2>1. CASE EvaluatorFails(t)
    BY <2>1 DEF EvaluatorFails
  <2>2. ASSUME NEW score \in Scores, CycleDecides(t, score)
        PROVE  UNCHANGED ledger \/ \E node : Sound(node) /\ Sealed(node) /\ append(node)
    <3>1. CASE GatePauses(t, score)
      BY <3>1 DEF GatePauses
    <3>2. CASE \/ RejectNotImproved(t, score)
               \/ GateApproves(t, score) \/ GateDenies(t, score)
      <4>1. PICK status \in NodeStatus : append(CycleNode(task[t].inputs, score, status))
        BY <3>2 DEF RejectNotImproved, GateApproves, GateDenies, commit_promoted,
                    commit_rejected, NodeStatus
      <4>2. IsCycleInputs(task[t].inputs)
        BY <2>2, AtStep DEF CycleDecides
      <4> QED
        BY <4>1, <4>2, CycleSound, AllSealed DEF Inv
    <3> QED
      BY <2>2, <3>1, <3>2 DEF CycleDecides
  <2> QED
    BY <1>2, <2>1, <2>2 DEF EvaluatorAnswers
<1>3. CASE resume_with_approval(t)
  <2>1. PICK key : append(ApprovedNode(task[t].pending, key))
    BY <1>3 DEF resume_with_approval
  <2>2. IsPending(task[t].pending)
    BY <1>3, AtStep DEF resume_with_approval
  <2> QED
    BY <2>1, <2>2, ApprovedSound, AllSealed DEF Inv
<1>4. CASE RollbackSetsHead(t)
  <2>1. task[t].target_id \in Ledger /\ IsPromoted(task[t].target_id)
    BY <1>4, AtStep DEF RollbackSetsHead
  <2> QED
    BY <1>4, <2>1 DEF RollbackSetsHead
<1>5. CASE RollbackAppends(t)
  <2>1. IsRollback(task[t])
    BY <1>5, AtStep DEF RollbackAppends
  <2> QED
    BY <1>5, <2>1, RollbackSound, AllSealed DEF RollbackAppends, Inv
<1>6. CASE run_cycle(t) \/ rollback_to(t) \/ commit_rollback(t) \/ Drop(t)
  BY <1>6 DEF run_cycle, StartCycle, rollback_to, commit_rollback, Drop
<1> QED
  BY <1>1, <1>2, <1>3, <1>4, <1>5, <1>6 DEF Step

LEMMA InitInv == Init => Inv
<1> SUFFICES ASSUME Init PROVE Inv
  OBVIOUS
<1>1. /\ DOMAIN nodes = {} /\ insertion_order = << >> /\ head = {}
      /\ task = [t \in Tasks |-> Idle]
  BY DEF Init, StoreInit, None
<1>2. insertion_order \in Seq(Ledger) /\ DOMAIN insertion_order = {}
  BY <1>1, EmptySeq DEF Ledger
<1>3. LedgerInv
  BY <1>1, <1>2 DEF LedgerInv, LedgerOK, LedgerIndexed, HeadPromoted,
                    LineageAcyclic, Ledger, Option, None
<1>4. TasksOK
  BY <1>1 DEF TasksOK, IsTask
<1> QED
  BY <1>3, <1>4 DEF Inv

LEMMA NextInv == Inv /\ [Next]_vars => Inv'
<1> SUFFICES ASSUME Inv, [Next]_vars PROVE Inv'
  OBVIOUS
<1>1. CASE UNCHANGED vars
  <2>1. UNCHANGED ledger /\ UNCHANGED task
    BY <1>1 DEF vars, ledger
  <2>2. LedgerInv' /\ LedgerGrows
    BY <2>1, UnchangedKeepsLedger DEF Inv, LedgerGrows, ledger, Ledger, Node
  <2> QED
    BY <2>1, <2>2, GrowthKeepsTasks DEF Inv
<1>2. CASE Next
  <2>1. PICK t \in Tasks : Step(t)
    BY <1>2 DEF Next
  <2> QED
    BY <2>1, RootStep, RunCycleStep, EvaluatorStep, ResumeStep, RevertStep,
       RollbackStep, DropStep DEF Step
<1> QED
  BY <1>1, <1>2

-----------------------------------------------------------------------------
(* The theorems. *)

\* The invariant the others rest on: the ledger is indexed and headed, and
\* descends from roots and from what the host passed; a rollback under way
\* holds copies of what is in it.
THEOREM Invariance == Spec => []Inv
<1> QED
  BY InitInv, NextInv, PTL DEF Spec

\* Nodes are well typed, generations included, whatever parents the host
\* passes; a PendingApproval keeps id and generation of one parent, and what
\* commit_rollback has read before an await is still what the ledger holds.
THEOREM TypeCorrect == Spec => []TypeOK
<1>1. Inv => TypeOK
  BY DEF Inv, LedgerInv, TypeOK
<1> QED
  BY <1>1, Invariance, PTL

\* Concurrent tasks never leave the map and the order of the ledger in
\* disagreement, and every node that was ever appended verifies.
THEOREM LedgerStaysIndexed == Spec => []LedgerIndexed
<1>1. Inv => LedgerIndexed
  BY DEF Inv, LedgerInv
<1> QED
  BY <1>1, Invariance, PTL

\* The head is a promoted node whenever there is one, although rollback_to
\* checks before an await what it sets after it.
THEOREM HeadStaysPromoted == Spec => []HeadPromoted
<1>1. Inv => HeadPromoted
  BY DEF Inv, LedgerInv
<1> QED
  BY <1>1, Invariance, PTL

\* Parents come before their children, so the lineage has no cycle, and only
\* a parent that the host passed and the ledger does not hold can be missing.
THEOREM LineageStaysAcyclic == Spec => []LineageAcyclic
<1>1. Inv => LineageAcyclic
  BY DEF Inv, LedgerInv
<1> QED
  BY <1>1, Invariance, PTL

-----------------------------------------------------------------------------
(* Nodes are sealed, and verification binds them together. *)

NodesSealed == \A id \in Ledger : Sealed(Node(id))

LEMMA AppendKeepsSealed ==
  ASSUME NodesSealed, NEW node, Sealed(node), append(node)
  PROVE  NodesSealed'
<1>1. CASE UNCHANGED ledger
  BY <1>1 DEF ledger, NodesSealed, Sealed, Ledger, Node
<1>2. CASE Insert(node)
  BY <1>2 DEF Insert, NodesSealed, Sealed, Ledger, Node
<1> QED
  BY <1>1, <1>2 DEF append

LEMMA NextSealed == Inv /\ NodesSealed /\ [Next]_vars => NodesSealed'
<1> SUFFICES ASSUME Inv, NodesSealed, [Next]_vars PROVE NodesSealed'
  OBVIOUS
<1>1. CASE UNCHANGED nodes
  BY <1>1 DEF NodesSealed, Sealed, Ledger, Node
<1>2. CASE Next
  <2>1. PICK t \in Tasks : Step(t)
    BY <1>2 DEF Next
  <2> QED
    BY <1>1, <2>1, StepOnLedger, AppendKeepsSealed DEF ledger, set_head
<1> QED
  BY <1>1, <1>2 DEF vars

\* Nothing that a task appends lacks a field, and a node is a valid parent
\* exactly if it is promoted: run_cycle, resume_with_approval, commit_root
\* and commit_rollback set the two independently.
THEOREM NodesStaySealed == Spec => []NodesSealed
<1>1. Init => NodesSealed
  BY DEF Init, StoreInit, NodesSealed, Ledger
<1> QED
  BY <1>1, NextSealed, Invariance, PTL DEF Spec

\* A node that verifies with one field replaced had that field before: the
\* id is that of all the others.
LEMMA ReplacedVerifies ==
  ASSUME NEW node, verify_node(node), VerifiedFields \subseteq DOMAIN node,
         NEW field \in VerifiedFields, NEW value,
         verify_node([node EXCEPT ![field] = value])
  PROVE  node[field] = value
<1> DEFINE new == [node EXCEPT ![field] = value]
<1>1. /\ new[field] = value
      /\ \A other \in VerifiedFields : other # field => new[other] = node[other]
  OBVIOUS
<1> HIDE DEF new
<1>2. /\ \A n : signing_payload(n) =
             [parent_id |-> n.parent_id, generation |-> n.generation,
              created_at |-> n.created_at, mutation_intent |-> n.mutation_intent,
              allowed_scope |-> n.allowed_scope, eval_results |-> n.eval_results,
              capability_sbom |-> capability_sbom(n.artifact),
              manifest |-> n.artifact, status |-> n.status,
              valid_parent |-> n.valid_parent]
      /\ verify_node(new)
  BY DEF signing_payload, new
<1>3. CASE field = "agent_id"
  <2>1. signing_payload(new) = signing_payload(node) /\ new.signature = node.signature
    BY <1>1, <1>2, <1>3 DEF VerifiedFields
  <2>2. /\ new.agent_id = compute_agent_id(signing_payload(new), new.signature)
        /\ node.agent_id = compute_agent_id(signing_payload(node), node.signature)
    BY <1>2 DEF verify_node
  <2> QED
    BY <1>1, <1>3, <2>1, <2>2
<1>4. CASE field # "agent_id"
  <2>1. compute_agent_id(signing_payload(new), new.signature)
          = compute_agent_id(signing_payload(node), node.signature)
    BY <1>1, <1>2, <1>4 DEF verify_node, VerifiedFields
  <2>2. signing_payload(new) = signing_payload(node) /\ new.signature = node.signature
    BY <2>1 DEF compute_agent_id
  <2>3. new.signer_public_key = node.signer_public_key
    BY <1>2, <2>2 DEF verify_node, Sign
  <2>4. /\ new.parent_id = node.parent_id /\ new.generation = node.generation
        /\ new.created_at = node.created_at /\ new.mutation_intent = node.mutation_intent
        /\ new.allowed_scope = node.allowed_scope /\ new.eval_results = node.eval_results
        /\ new.artifact = node.artifact /\ new.status = node.status
        /\ new.valid_parent = node.valid_parent
    BY <1>2, <2>2
  <2> QED
    BY <1>1, <1>4, <2>2, <2>3, <2>4 DEF VerifiedFields
<1> QED
  BY <1>3, <1>4

\* What is stored is tamper-evident: no mixture of two nodes of the ledger
\* verifies.
THEOREM NodesNeverMix == Spec => []NodesDoNotMix
<1>1. Inv /\ NodesSealed => NodesDoNotMix
  BY ReplacedVerifies DEF Inv, LedgerInv, LedgerIndexed, NodesSealed, Sealed, NodesDoNotMix
<1> QED
  BY <1>1, Invariance, NodesStaySealed, PTL

-----------------------------------------------------------------------------
(***************************************************************************)
(* Theorems about what the runner lets through: the gate, FR-5 and the     *)
(* rollbacks, along every edge of the lineage; and that its ledger is the  *)
(* audit log of LineageDag.                                                *)
(*                                                                         *)
(* A cycle that is decided at once has its evidence at hand.  One that is  *)
(* paused is committed later and nothing is decided again, so the          *)
(* invariant says that every PendingApproval passed the cap and FR-5       *)
(* against a parent that goes under the id and generation it holds.        *)
(***************************************************************************)

Guarantees ==
  /\ GateRespected
  /\ RequireStrictImprovement => StrictImprovement
  /\ RollbackFaithful

PendingPassed(pending) ==
  \E parent \in Parents :
    /\ pending.parent_id = Some(parent.agent_id)
    /\ pending.parent_generation = parent.generation
    /\ ~GenerationCapExceeded(parent)
    /\ ~NotImproved(parent, pending.eval_results)

PendingsPassed == \A t \in Tasks : At(t, "awaiting") => PendingPassed(task[t].pending)

SafetyInv == Inv /\ Guarantees /\ PendingsPassed

\* What an operation knows of the node it appends.
Justified(node) ==
  /\ PassedCycle(node) =>
       \E parent \in ParentsOf(node) :
         /\ WithinGate(parent, node)
         /\ RequireStrictImprovement => Improves(parent, node)
  /\ IsRollbackNode(node) => \E id \in Ledger : Restores(node, id)

-----------------------------------------------------------------------------
(* The gate and FR-5. *)

\* What the gate approves needs no approval, and it approves nothing past
\* the generation cap.
LEMMA ApprovedNeedsNone ==
  ASSUME NEW parent, NEW intent, NEW child, NEW candidate,
         child.artifact = candidate, child.mutation_intent = intent,
         evaluate(parent, intent, capability_sbom(candidate)) = Approve
  PROVE  ~GenerationCapExceeded(parent) /\ ~NeedsApproval(parent, child)
<1> DEFINE scope == parent.allowed_scope
<1>1. /\ ~GenerationCapExceeded(parent)
      /\ ~OutOfScope(parent, capability_sbom(candidate))
      /\ ~GatedCapabilityPresent(parent, intent, capability_sbom(candidate))
  BY DEF evaluate, Approve, Deny, RequireApproval
<1>2. ASSUME NEW capability \in capability_sbom(candidate),
             capability_in_scope(capability, scope)
      PROVE  capability \in Listed(scope)
  <2>1. PICK kind, name : /\ kind \in {"tool", "mcp", "delegate"}
                          /\ capability = <<kind, name>>
    BY DEF capability_sbom
  <2>2. name \in AllowList(kind, scope)
    BY <1>2, <2>1 DEF capability_in_scope
  <2> QED
    BY <2>1, <2>2 DEF AllowList, Listed
<1>3. capability_sbom(candidate)
        \subseteq parent.capability_sbom \cup Listed(scope)
  BY <1>1, <1>2 DEF OutOfScope, AddedCapabilities
<1>4. scope.gated_capabilities
        \cap (capability_sbom(candidate) \cup intent.constraints) = {}
  BY <1>1 DEF GatedCapabilityPresent
<1> QED
  BY <1>1, <1>3, <1>4 DEF NeedsApproval

\* Below the cap, the child is not past it.
LEMMA WithinCap ==
  ASSUME NEW parent, parent.generation \in Generations,
         parent.allowed_scope.max_generation \subseteq Nat,
         ~GenerationCapExceeded(parent)
  PROVE  \A max \in parent.allowed_scope.max_generation :
           NextGeneration(parent.generation) <= max
<1>1. NextGeneration(parent.generation) \in Nat
  BY NextGenerationInRange DEF Generations
<1> QED
  BY <1>1 DEF GenerationCapExceeded

\* FR-5 over numbers: what is not worse or equal is greater.
LEMMA NotRejectedImproves ==
  ASSUME RequireStrictImprovement, NEW parent, NEW child, NEW score \in Scores,
         parent_score(parent) \subseteq Int, child.eval_results = Some(score),
         ~NotImproved(parent, score)
  PROVE  Improves(parent, child)
<1>1. parent_score(child) = score
  BY DEF parent_score, Some
<1>2. score \subseteq Int
  BY NumbersAssumption DEF IsScore, Some, None
<1>3. ASSUME NEW old \in parent_score(parent), NEW new \in parent_score(child)
      PROVE  new > old
  <2>1. new \in score /\ new \in Int /\ old \in Int
    BY <1>1, <1>2
  <2>2. ~ (new <= old)
    BY <2>1 DEF NotImproved
  <2> QED
    BY <2>1, <2>2
<1> QED
  BY <1>3 DEF Improves

-----------------------------------------------------------------------------
(* The ledger. *)

\* The nodes that go under the parent_id of a node stay what they are.
LEMMA ParentsOfGrow ==
  ASSUME LedgerGrows, NEW node
  PROVE  \A parent \in ParentsOf(node) : parent \in ParentsOf(node)'
BY ParentsGrow DEF ParentsOf

\* An append of a justified node keeps the guarantees.
LEMMA InsertKeepsGuarantees ==
  ASSUME LedgerInv, Guarantees, NEW node, Sound(node), Justified(node),
         ~Contains(node.agent_id), Insert(node)
  PROVE  Guarantees'
<1> DEFINE n == Len(insertion_order)
<1>0. /\ Ledger' = Ledger \cup {node.agent_id}
      /\ Node(node.agent_id)' = node
      /\ \A id \in Ledger : id # node.agent_id /\ Node(id)' = Node(id)
      /\ n \in Nat
      /\ DOMAIN insertion_order = 1 .. n
      /\ (DOMAIN insertion_order)' = 1 .. n + 1
      /\ \A i \in 1 .. n : Position(i) \in Ledger /\ Position(i)' = Position(i)
      /\ insertion_order'[n + 1] = node.agent_id
  BY InsertFacts
<1>1. LedgerGrows
  BY <1>0 DEF LedgerGrows
<1>2. \A other : \A parent \in ParentsOf(other) : parent \in ParentsOf(other)'
  BY <1>1, ParentsOfGrow
<1>3. GateRespected'
  <2>1. ASSUME NEW id \in Ledger', NEW child, child = Node(id)', PassedCycle(child)
        PROVE  \E parent \in ParentsOf(child) : WithinGate(parent, child)
    BY <1>0, <2>1 DEF Guarantees, GateRespected, Justified
  <2>2. ASSUME NEW id \in Ledger', PassedCycle(Node(id)')
        PROVE  (\E parent \in ParentsOf(Node(id)) : WithinGate(parent, Node(id)))'
    <3>1. PICK child : child = Node(id)'
      OBVIOUS
    <3>2. PICK parent \in ParentsOf(child) : WithinGate(parent, child)
      BY <2>1, <2>2, <3>1
    <3> QED
      BY <1>2, <3>1, <3>2 DEF ParentsOf
  <2> QED
    BY <2>2 DEF GateRespected, PassedCycle, IsCycleNode, rollback_target
<1>4. RequireStrictImprovement => StrictImprovement'
  <2> SUFFICES ASSUME RequireStrictImprovement PROVE StrictImprovement'
    OBVIOUS
  <2>1. ASSUME NEW id \in Ledger', NEW child, child = Node(id)', PassedCycle(child)
        PROVE  \E parent \in ParentsOf(child) : Improves(parent, child)
    BY <1>0, <2>1 DEF Guarantees, StrictImprovement, Justified
  <2>2. ASSUME NEW id \in Ledger', PassedCycle(Node(id)')
        PROVE  (\E parent \in ParentsOf(Node(id)) : Improves(parent, Node(id)))'
    <3>1. PICK child : child = Node(id)'
      OBVIOUS
    <3>2. PICK parent \in ParentsOf(child) : Improves(parent, child)
      BY <2>1, <2>2, <3>1
    <3> QED
      BY <1>2, <3>1, <3>2 DEF ParentsOf
  <2> QED
    BY <2>2 DEF StrictImprovement, PassedCycle, IsCycleNode, rollback_target
<1>5. RollbackFaithful'
  <2> SUFFICES ASSUME NEW i \in 1 .. n + 1, IsRollbackNode(Node(Position(i)))'
               PROVE  (\E j \in 1 .. i - 1 : Restores(Node(Position(i)), Position(j)))'
    BY <1>0 DEF RollbackFaithful
  <2>1. CASE i \in 1 .. n
    <3>1. Node(Position(i))' = Node(Position(i))
      BY <1>0, <2>1 DEF Node
    <3>2. PICK j \in 1 .. i - 1 : Restores(Node(Position(i)), Position(j))
      BY <1>0, <2>1, <3>1 DEF Guarantees, RollbackFaithful, IsRollbackNode
    <3>3. Position(j)' = Position(j) /\ Position(j) \in Ledger
      BY <1>0, <2>1, <3>2
    <3>4. Node(Position(j))' = Node(Position(j))
      BY <1>0, <3>3 DEF Node
    <3>5. Restores(Node(Position(i)), Position(j))'
      BY <3>1, <3>2, <3>3, <3>4 DEF Restores, IsPromoted
    <3> QED
      BY <3>2, <3>5
  <2>2. CASE i = n + 1
    <3>1. Node(Position(i))' = node
      BY <1>0, <2>2 DEF Node, Position
    <3>2. PICK id \in Ledger : Restores(node, id)
      BY <3>1 DEF Justified, IsRollbackNode
    <3>3. PICK j \in 1 .. n : Position(j) = id
      BY <1>0, <3>2 DEF LedgerInv, LedgerIndexed
    <3>4. Position(j)' = id /\ Node(Position(j))' = Node(id)
      BY <1>0, <3>3 DEF Node
    <3>5. Restores(Node(Position(i)), Position(j))'
      BY <3>1, <3>2, <3>4 DEF Restores, IsPromoted
    <3> QED
      BY <1>0, <2>2, <3>5
  <2> QED
    BY <1>0, <2>1, <2>2
<1> QED
  BY <1>3, <1>4, <1>5 DEF Guarantees

\* The ledger may also stay as it is, or only get another head.
LEMMA SameNodesKeepGuarantees ==
  ASSUME Guarantees, UNCHANGED <<nodes, insertion_order>>
  PROVE  Guarantees'
<1>1. Ledger' = Ledger /\ \A id : Node(id)' = Node(id) /\ IsPromoted(id)' = IsPromoted(id)
  BY DEF Ledger, Node, IsPromoted
<1>2. (DOMAIN insertion_order)' = DOMAIN insertion_order
  OBVIOUS
<1>3. \A i : Position(i)' = Position(i)
  BY DEF Position
<1>4. \A i : Node(Position(i))' = Node(Position(i))
  BY DEF Node, Position
<1>5. RollbackFaithful'
  BY <1>2, <1>3, <1>4
  DEF Guarantees, RollbackFaithful, Restores, IsPromoted, Node, Position
<1>6. \A id \in Ledger : ParentsOf(Node(id))' = ParentsOf(Node(id))
  BY DEF ParentsOf, Parents, Node
<1> QED
  BY <1>1, <1>5, <1>6 DEF Guarantees, GateRespected, StrictImprovement

LEMMA AppendKeepsGuarantees ==
  ASSUME LedgerInv, Guarantees, NEW node, Sound(node), Justified(node), append(node)
  PROVE  Guarantees'
<1>1. CASE Contains(node.agent_id)
  BY <1>1, SameNodesKeepGuarantees DEF append, ledger
<1>2. CASE ~Contains(node.agent_id)
  BY <1>2, InsertKeepsGuarantees DEF append
<1> QED
  BY <1>1, <1>2

-----------------------------------------------------------------------------
(* The nodes the operations append are justified. *)

LEMMA RootJustified ==
  ASSUME NEW artifact, NEW scope, NEW now
  PROVE  Justified(sign_node(RootInputs(artifact, scope, now), SigningKey))
<1> DEFINE node == sign_node(RootInputs(artifact, scope, now), SigningKey)
<1>1. node.parent_id = None /\ node.mutation_intent = genesis
  BY DEF RootInputs, sign_node, CommitInputs
<1> QED
  BY <1>1 DEF Justified, PassedCycle, IsCycleNode, IsRollbackNode,
              rollback_target, genesis

LEMMA RejectedJustified ==
  ASSUME NEW inputs, IsCycleInputs(inputs), NEW score
  PROVE  Justified(CycleNode(inputs, score, Rejected))
<1> DEFINE node == CycleNode(inputs, score, Rejected)
<1>1. node.status = Rejected /\ node.mutation_intent \in Intents
  BY SignedVerifies DEF CycleNode, IsCycleInputs
<1>2. Rejected # Promoted
  BY DEF Rejected, Promoted
<1> QED
  BY <1>1, <1>2, VehAssumption DEF Justified, PassedCycle, IsRollbackNode

LEMMA PromotedJustified ==
  ASSUME LedgerInv, NEW inputs, IsCycleInputs(inputs), NEW score \in Scores,
         decision(inputs) = Approve, ~NotImproved(inputs.parent, score)
  PROVE  Justified(CycleNode(inputs, score, Promoted))
<1> DEFINE parent == inputs.parent
           node   == CycleNode(inputs, score, Promoted)
<1>1. /\ node.parent_id = Some(parent.agent_id)
      /\ node.generation = NextGeneration(parent.generation)
      /\ node.mutation_intent = inputs.intent
      /\ node.artifact = inputs.candidate
      /\ node.eval_results = Some(score)
  BY SignedVerifies DEF CycleNode
<1>0. parent \in ParentsOf(node)
  BY <1>1 DEF ParentsOf, IsCycleInputs
<1>2. ~GenerationCapExceeded(parent) /\ ~NeedsApproval(parent, node)
  BY <1>1, ApprovedNeedsNone DEF decision
<1>3. WithinGate(parent, node)
  BY <1>1, <1>2, ParentFacts, WithinCap DEF WithinGate, IsCycleInputs
<1>4. RequireStrictImprovement => Improves(parent, node)
  BY <1>1, ParentFacts, NotRejectedImproves DEF IsCycleInputs
<1>5. ~IsRollbackNode(node)
  BY <1>1, VehAssumption DEF IsRollbackNode, IsCycleInputs
<1> QED
  BY <1>0, <1>3, <1>4, <1>5 DEF Justified

LEMMA ApprovedJustified ==
  ASSUME LedgerInv, NEW pending, IsPending(pending), PendingPassed(pending),
         NEW key \in ApprovalKeys
  PROVE  Justified(ApprovedNode(pending, key))
<1> DEFINE node == ApprovedNode(pending, key)
<1>1. /\ node.parent_id = pending.parent_id
      /\ node.generation = NextGeneration(pending.parent_generation)
      /\ node.mutation_intent = pending.intent
      /\ node.eval_results = Some(pending.eval_results)
      /\ node.signer_public_key = key
  BY DEF ApprovedNode, sign_node, CommitInputs
<1>2. PICK parent \in Parents :
         /\ pending.parent_id = Some(parent.agent_id)
         /\ pending.parent_generation = parent.generation
         /\ ~GenerationCapExceeded(parent)
         /\ ~NotImproved(parent, pending.eval_results)
  BY DEF PendingPassed
<1>3. parent \in ParentsOf(node)
  BY <1>1, <1>2 DEF ParentsOf
<1>4. WithinGate(parent, node)
  BY <1>1, <1>2, ParentFacts, WithinCap DEF WithinGate
<1>5. RequireStrictImprovement => Improves(parent, node)
  BY <1>1, <1>2, ParentFacts, NotRejectedImproves DEF IsPending
<1>6. ~IsRollbackNode(node)
  BY <1>1, VehAssumption DEF IsRollbackNode, IsPending
<1> QED
  BY <1>3, <1>4, <1>5, <1>6 DEF Justified

LEMMA RollbackJustified ==
  ASSUME NEW op, IsRollback(op)
  PROVE  Justified(RollbackNode(op))
<1> DEFINE node == RollbackNode(op)
<1>1. /\ node.mutation_intent = rollback(op.target_id)
      /\ node.artifact = op.target.artifact
      /\ node.allowed_scope = op.target.allowed_scope
  BY DEF RollbackNode, sign_node, CommitInputs
<1>2. rollback_target(node.mutation_intent) = Some(op.target_id)
  BY <1>1 DEF rollback_target, rollback
<1>3. ~IsCycleNode(node)
  BY <1>2 DEF IsCycleNode, Some, None
<1>4. Restores(node, op.target_id)
  BY <1>1, <1>2 DEF Restores, IsRollback, IsPromoted
<1> QED
  BY <1>3, <1>4 DEF Justified, PassedCycle, IsRollback

-----------------------------------------------------------------------------
(* Every step keeps the invariant. *)

LEMMA GrowthKeepsPassed ==
  ASSUME LedgerGrows, NEW pending, PendingPassed(pending)
  PROVE  PendingPassed(pending)'
BY ParentsGrow DEF PendingPassed

\* One task goes on: whatever it pauses with has passed.
LEMMA StepKeepsPassed ==
  ASSUME Inv, PendingsPassed, LedgerGrows, NEW t \in Tasks, NEW op, Becomes(t, op),
         op.step = "awaiting" => PendingPassed(op.pending)
  PROVE  PendingsPassed'
<1>1. task' = [u \in Tasks |-> IF u = t THEN op ELSE task[u]]
  BY DEF Inv, TasksOK, Becomes
<1> SUFFICES ASSUME NEW u \in Tasks, task'[u].step = "awaiting"
             PROVE  PendingPassed(task[u].pending)'
  BY DEF PendingsPassed, At
<1>2. PICK pending : pending = task'[u].pending
  OBVIOUS
<1>3. PendingPassed(pending)
  <2>1. CASE u = t
    BY <1>1, <1>2, <2>1
  <2>2. CASE u # t
    BY <1>1, <1>2, <2>2 DEF PendingsPassed, At
  <2> QED
    BY <2>1, <2>2
<1>4. PendingPassed(pending)'
  BY <1>3, GrowthKeepsPassed
<1> QED
  BY <1>2, <1>4

\* A step that ends an operation, with or without an append.
LEMMA FinishKeepsPassed ==
  ASSUME Inv, PendingsPassed, LedgerGrows, NEW t \in Tasks, Finish(t)
  PROVE  PendingsPassed'
<1>1. Becomes(t, Idle) /\ Idle.step # "awaiting"
  BY DEF Finish, Idle
<1> QED
  BY <1>1, StepKeepsPassed

LEMMA AppendAndFinishKeepsSafety ==
  ASSUME SafetyInv, NEW t \in Tasks, NEW node, Sound(node), Justified(node),
         append(node), Finish(t)
  PROVE  Guarantees' /\ PendingsPassed'
BY AppendKeepsGuarantees, AppendGrows, FinishKeepsPassed DEF SafetyInv, Inv

\* A step that leaves the ledger alone, and pauses with what has passed.
LEMMA BecomesKeepsSafety ==
  ASSUME SafetyInv, NEW t \in Tasks, NEW op, Becomes(t, op), UNCHANGED ledger,
         op.step = "awaiting" => PendingPassed(op.pending)
  PROVE  Guarantees' /\ PendingsPassed'
<1>1. LedgerGrows
  BY DEF LedgerGrows, ledger, Ledger, Node
<1>2. Guarantees'
  BY SameNodesKeepGuarantees DEF SafetyInv, ledger
<1> QED
  BY <1>1, <1>2, StepKeepsPassed DEF SafetyInv

LEMMA EvaluatorKeepsSafety ==
  ASSUME SafetyInv, NEW t \in Tasks, EvaluatorAnswers(t)
  PROVE  Guarantees' /\ PendingsPassed'
<1> DEFINE inputs == task[t].inputs
<1>0. IsCycleInputs(inputs) /\ LedgerInv
  BY AtStep DEF EvaluatorAnswers, EvaluatorFails, CycleDecides, SafetyInv, Inv
<1>1. CASE EvaluatorFails(t)
  BY <1>1, BecomesKeepsSafety DEF EvaluatorFails, Finish, Idle
<1>2. ASSUME NEW score \in Scores, CycleDecides(t, score)
      PROVE  Guarantees' /\ PendingsPassed'
  <2>1. CASE RejectNotImproved(t, score) \/ GateDenies(t, score)
    <3>1. /\ Sound(CycleNode(inputs, score, Rejected))
          /\ Justified(CycleNode(inputs, score, Rejected))
      BY <1>0, CycleSound, RejectedJustified DEF NodeStatus
    <3> QED
      BY <2>1, <3>1, AppendAndFinishKeepsSafety
      DEF RejectNotImproved, GateDenies, commit_rejected
  <2>2. CASE GateApproves(t, score)
    <3>1. /\ Sound(CycleNode(inputs, score, Promoted))
          /\ Justified(CycleNode(inputs, score, Promoted))
      BY <1>0, <2>2, CycleSound, PromotedJustified DEF NodeStatus, GateApproves
    <3> QED
      BY <2>2, <3>1, AppendAndFinishKeepsSafety DEF GateApproves, commit_promoted
  <2>3. CASE GatePauses(t, score)
    <3> DEFINE pending == PendingApproval(inputs, score)
    <3>1. ~GenerationCapExceeded(inputs.parent) /\ ~NotImproved(inputs.parent, score)
      BY <2>3 DEF GatePauses, decision, evaluate, Deny, RequireApproval
    <3>2. PendingPassed(pending)
      BY <1>0, <3>1 DEF PendingPassed, PendingApproval, IsCycleInputs
    <3>3. Becomes(t, [step |-> "awaiting", pending |-> pending]) /\ UNCHANGED ledger
      BY <2>3 DEF GatePauses
    <3> HIDE DEF pending
    <3> QED
      BY <3>2, <3>3, BecomesKeepsSafety
  <2> QED
    BY <1>2, <2>1, <2>2, <2>3 DEF CycleDecides
<1> QED
  BY <1>1, <1>2 DEF EvaluatorAnswers

LEMMA StepKeepsSafety ==
  ASSUME SafetyInv, NEW t \in Tasks, Step(t)
  PROVE  Guarantees' /\ PendingsPassed'
<1>1. CASE commit_root(t)
  <2>1. PICK artifact \in Artifacts, scope \in Scopes, now \in Timestamps :
           append(sign_node(RootInputs(artifact, scope, now), SigningKey))
    BY <1>1 DEF commit_root
  <2>2. /\ Sound(sign_node(RootInputs(artifact, scope, now), SigningKey))
        /\ Justified(sign_node(RootInputs(artifact, scope, now), SigningKey))
    BY RootSound, RootJustified
  <2>3. Guarantees' /\ LedgerGrows
    BY <2>1, <2>2, AppendKeepsGuarantees, AppendGrows DEF SafetyInv, Inv
  <2>4. Becomes(t, task[t])
    BY <1>1 DEF commit_root, Becomes, SafetyInv, Inv, TasksOK
  <2>5. task[t].step = "awaiting" => PendingPassed(task[t].pending)
    BY DEF SafetyInv, PendingsPassed, At
  <2> QED
    BY <2>3, <2>4, <2>5, StepKeepsPassed DEF SafetyInv
<1>2. CASE run_cycle(t)
  BY <1>2, BecomesKeepsSafety DEF run_cycle, StartCycle
<1>3. CASE EvaluatorAnswers(t)
  BY <1>3, EvaluatorKeepsSafety
<1>4. CASE resume_with_approval(t)
  <2>1. PICK key \in ApprovalKeys : append(ApprovedNode(task[t].pending, key))
    BY <1>4 DEF resume_with_approval
  <2>2. IsPending(task[t].pending) /\ PendingPassed(task[t].pending)
    BY <1>4, AtStep DEF resume_with_approval, SafetyInv, PendingsPassed
  <2>3. /\ Sound(ApprovedNode(task[t].pending, key))
        /\ Justified(ApprovedNode(task[t].pending, key))
    BY <2>2, ApprovedSound, ApprovedJustified DEF SafetyInv, Inv
  <2> QED
    BY <1>4, <2>1, <2>3, AppendAndFinishKeepsSafety DEF resume_with_approval
<1>5. CASE rollback_to(t) \/ commit_rollback(t)
  BY <1>5, BecomesKeepsSafety DEF rollback_to, commit_rollback
<1>6. CASE RollbackSetsHead(t)
  <2>1. LedgerGrows
    BY <1>6 DEF RollbackSetsHead, set_head, LedgerGrows, Ledger, Node
  <2>2. Guarantees'
    BY <1>6, SameNodesKeepGuarantees DEF RollbackSetsHead, set_head, SafetyInv
  <2> QED
    BY <1>6, <2>1, <2>2, FinishKeepsPassed DEF RollbackSetsHead, SafetyInv
<1>7. CASE RollbackAppends(t)
  <2>1. IsRollback(task[t])
    BY <1>7, AtStep DEF RollbackAppends, SafetyInv
  <2>2. Sound(RollbackNode(task[t])) /\ Justified(RollbackNode(task[t]))
    BY <2>1, RollbackSound, RollbackJustified DEF SafetyInv, Inv
  <2> QED
    BY <1>7, <2>2, AppendAndFinishKeepsSafety DEF RollbackAppends
<1>8. CASE Drop(t)
  BY <1>8, BecomesKeepsSafety DEF Drop, Finish, Idle
<1> QED
  BY <1>1, <1>2, <1>3, <1>4, <1>5, <1>6, <1>7, <1>8 DEF Step

LEMMA InitSafety == Init => SafetyInv
<1> SUFFICES ASSUME Init PROVE SafetyInv
  OBVIOUS
<1>1. Ledger = {} /\ DOMAIN insertion_order = {}
  BY DEF Init, StoreInit, Ledger
<1>2. \A t \in Tasks : ~At(t, "awaiting")
  BY DEF Init, At, Idle
<1> QED
  BY <1>1, <1>2, InitInv DEF SafetyInv, Guarantees, GateRespected,
     StrictImprovement, RollbackFaithful, PendingsPassed

LEMMA NextSafety == SafetyInv /\ [Next]_vars => SafetyInv'
<1> SUFFICES ASSUME SafetyInv, [Next]_vars PROVE SafetyInv'
  OBVIOUS
<1>1. Inv'
  BY NextInv DEF SafetyInv
<1>2. CASE UNCHANGED vars
  <2>1. PendingsPassed'
    BY <1>2 DEF vars, SafetyInv, PendingsPassed, PendingPassed, At, Parents, Node
  <2> QED
    BY <1>1, <1>2, <2>1, SameNodesKeepGuarantees DEF SafetyInv, vars
<1>3. CASE Next
  BY <1>1, <1>3, StepKeepsSafety DEF Next, SafetyInv
<1> QED
  BY <1>2, <1>3

-----------------------------------------------------------------------------
(* The theorems. *)

\* The invariant behind the three that follow: what was let through respected
\* the gate and FR-5, and every paused cycle still would.
THEOREM SafetyInvariance == Spec => []SafetyInv
<1> QED
  BY InitSafety, NextSafety, PTL DEF Spec

\* No interleaving of cycles, approvals, rollbacks and drops promotes past the
\* generation cap, or promotes what the gate would have paused without the
\* signature of an approval key.
THEOREM GateStaysRespected == Spec => []GateRespected
<1>1. SafetyInv => GateRespected
  BY DEF SafetyInv, Guarantees
<1> QED
  BY <1>1, SafetyInvariance, PTL

\* With strict improvement required, a promoted node with a score beats the
\* score of its parent, approved ones included.
THEOREM ImprovementStaysStrict ==
  ASSUME RequireStrictImprovement
  PROVE  Spec => []StrictImprovement
<1>1. SafetyInv => StrictImprovement
  BY DEF SafetyInv, Guarantees
<1> QED
  BY <1>1, SafetyInvariance, PTL

\* Every rollback node restores a promoted node appended before it.
THEOREM RollbacksStayFaithful == Spec => []RollbackFaithful
<1>1. SafetyInv => RollbackFaithful
  BY DEF SafetyInv, Guarantees
<1> QED
  BY <1>1, SafetyInvariance, PTL

-----------------------------------------------------------------------------
(* The runner implements the audit log of LineageDag, and the drawing of   *)
(* the lineage is a forest, as long as no generation reaches the largest   *)
(* u32.  The log and the drawing count generations in the natural numbers, *)
(* the runner modulo 2^32, and that is the only difference.                *)

\* Every node that may be passed as a parent may still have children.
NoWrap == \A parent \in Parents : parent.generation + 1 < GenerationModulus

Log == [i \in DOMAIN insertion_order |-> LogEntry(Node(Position(i)))]

LEMMA OrderLength ==
  ASSUME LedgerInv
  PROVE  /\ Len(insertion_order) \in Nat
         /\ DOMAIN insertion_order = 1 .. Len(insertion_order)
         /\ Len(Log) = Len(insertion_order)
         /\ DOMAIN Log = 1 .. Len(insertion_order)
         /\ \A i \in 1 .. Len(insertion_order) :
              Position(i) \in Ledger /\ Log[i] = LogEntry(Node(Position(i)))
<1> DEFINE n == Len(insertion_order)
<1>1. n \in Nat /\ DOMAIN insertion_order = 1 .. n
  BY LenProperties DEF LedgerInv, LedgerOK
<1>2. Len(Log) = n
  BY <1>1, SequenceLength DEF Log
<1>3. \A i \in 1 .. n : Position(i) \in Ledger
  BY <1>1, ElementOfSeq DEF LedgerInv, LedgerOK, Position
<1> QED
  BY <1>1, <1>2, <1>3 DEF Log

LEMMA DagInit == Init => Dag!Init
<1> SUFFICES ASSUME Init PROVE Dag!Init
  OBVIOUS
<1>1. insertion_order = << >> /\ head = {}
  BY DEF Init, StoreInit, None
<1>2. DOMAIN insertion_order = {}
  BY <1>1
<1>3. [i \in DOMAIN insertion_order |-> LogEntry(Node(Position(i)))] = << >>
  BY <1>2
<1> QED
  BY <1>1, <1>3 DEF Dag!Init

\* Appending a sound node is a Grow.
LEMMA InsertGrows ==
  ASSUME LedgerInv, LedgerInv', NoWrap, NEW node, Sound(node),
         ~Contains(node.agent_id), Insert(node)
  PROVE  Dag!Grow
<1> DEFINE n == Len(insertion_order)
           entry == LogEntry(node)
<1>1. /\ Node(node.agent_id)' = node
      /\ \A id \in Ledger : id # node.agent_id /\ Node(id)' = Node(id)
      /\ n \in Nat
      /\ DOMAIN insertion_order = 1 .. n
      /\ (DOMAIN insertion_order)' = 1 .. n + 1
      /\ \A i \in 1 .. n : Position(i) \in Ledger /\ Position(i)' = Position(i)
      /\ insertion_order'[n + 1] = node.agent_id
  BY InsertFacts
<1>2. /\ Len(Log) = n /\ DOMAIN Log = 1 .. n
      /\ \A i \in 1 .. n : Log[i] = LogEntry(Node(Position(i)))
  BY OrderLength
<1>3. /\ DOMAIN Log' = 1 .. n + 1
      /\ Log' = [i \in 1 .. n + 1 |-> LogEntry(Node(Position(i))')]
  BY <1>1 DEF Log, LogEntry, Node, Position
<1>4. Len(Log') = n + 1
  BY <1>1, <1>3, SequenceLength
<1>5. \A i \in 1 .. n : Log'[i] = Log[i]
  BY <1>1, <1>2, <1>3 DEF Node
<1>6. Log'[n + 1] = entry
  <2>1. PICK k \in 1 .. n + 1 : k = n + 1
    BY <1>1
  <2>2. Log'[k] = LogEntry(nodes'[insertion_order'[k]])
    BY <1>3 DEF LogEntry, Node, Position
  <2>3. nodes'[insertion_order'[k]] = node
    BY <1>1, <2>1 DEF Node
  <2> QED
    BY <2>1, <2>2, <2>3
<1>7. entry.id \notin Dag!Ids(Log)
  <2>1. \A i \in 1 .. n : Log[i].id # node.agent_id
    BY <1>1, <1>2 DEF LogEntry, LedgerInv, LedgerIndexed
  <2> QED
    BY <1>2, <2>1 DEF Dag!Ids, Dag!Entries, LogEntry
<1>8. Dag!Descends(entry, Log)
  <2>1. CASE node.parent_id = None /\ node.generation = 0
    BY <2>1 DEF Dag!Descends, LogEntry, None
  <2>2. ASSUME NEW parent \in Parents, node.parent_id = Some(parent.agent_id),
               node.generation = NextGeneration(parent.generation)
        PROVE  Dag!Descends(entry, Log)
    <3>1. parent.generation \in Nat /\ parent.generation + 1 < GenerationModulus
      BY ParentFacts DEF NoWrap, Generations
    <3>2. node.generation = parent.generation + 1
      BY <2>2, <3>1, GenerationAssumption DEF NextGeneration
    <3>3. LogEntry(parent) \in Dag!Entries(Log) \cup Strangers
      <4>1. CASE parent \in Foreign
        BY <4>1 DEF Strangers
      <4>2. CASE \E id \in Ledger : parent = Node(id)
        <5>1. PICK id \in Ledger : parent = Node(id)
          BY <4>2
        <5>2. PICK j \in 1 .. n : Position(j) = id
          BY <1>1, <5>1 DEF LedgerInv, LedgerIndexed
        <5>3. Log[j] = LogEntry(parent)
          BY <1>2, <5>1, <5>2
        <5> QED
          BY <1>2, <5>2, <5>3 DEF Dag!Entries
      <4> QED
        BY <4>1, <4>2 DEF Parents, Ledger
    <3>4. /\ LogEntry(parent).id = parent.agent_id
          /\ LogEntry(parent).generation = parent.generation
      BY DEF LogEntry
    <3> QED
      BY <2>2, <3>2, <3>3, <3>4 DEF Dag!Descends, LogEntry, Some
  <2> QED
    BY <2>1, <2>2 DEF Sound, ParentsOf
<1>9. head' = IF entry.promoted THEN {entry.id} ELSE head
  BY DEF Insert, LogEntry, Some
<1> QED
  BY <1>2, <1>4, <1>5, <1>6, <1>7, <1>8, <1>9 DEF Dag!Grow, Log

\* Setting the head to a promoted node is a Revert.
LEMMA SetHeadReverts ==
  ASSUME LedgerInv, NEW id \in Ledger, IsPromoted(id), set_head(id)
  PROVE  Dag!Revert
<1>1. head' = {id} /\ nodes' = nodes /\ insertion_order' = insertion_order
  BY DEF set_head, Contains, Ledger, Some
<1>2. Log' = Log
  BY <1>1 DEF Log, LogEntry, Node, Position
<1>3. PICK i \in DOMAIN insertion_order : Position(i) = id
  BY DEF LedgerInv, LedgerIndexed
<1>4. /\ Log[i] \in Dag!Entries(Log)
      /\ Log[i].id = id /\ Log[i].promoted
  BY <1>3 DEF Log, Dag!Entries, LogEntry, LedgerInv, LedgerIndexed, IsPromoted
<1> QED
  BY <1>1, <1>2, <1>4 DEF Dag!Revert, Log

LEMMA SameLedgerStutters ==
  ASSUME UNCHANGED ledger
  PROVE  UNCHANGED Dag!dag
<1>1. Log' = Log /\ head' = head
  BY DEF ledger, Log, LogEntry, Node, Position
<1> QED
  BY <1>1 DEF Dag!dag, Log

LEMMA AppendRefines ==
  ASSUME LedgerInv, LedgerInv', NoWrap, NEW node, Sound(node), append(node)
  PROVE  [Dag!Next]_(Dag!dag)
<1>1. CASE Contains(node.agent_id)
  BY <1>1, SameLedgerStutters DEF append
<1>2. CASE ~Contains(node.agent_id)
  BY <1>2, InsertGrows DEF append, Dag!Next
<1> QED
  BY <1>1, <1>2

LEMMA StepRefines ==
  ASSUME Inv, Inv', NoWrap, NEW t \in Tasks, Step(t)
  PROVE  [Dag!Next]_(Dag!dag)
<1>1. CASE UNCHANGED ledger
  BY <1>1, SameLedgerStutters
<1>2. CASE \E node : Sound(node) /\ append(node)
  BY <1>2, AppendRefines DEF Inv
<1>3. CASE \E id \in Ledger : IsPromoted(id) /\ set_head(id)
  BY <1>3, SetHeadReverts DEF Inv, Dag!Next
<1> QED
  BY <1>1, <1>2, <1>3, StepOnLedger

LEMMA DagStep == Inv /\ Inv' /\ NoWrap /\ [Next]_vars => [Dag!Next]_(Dag!dag)
<1> SUFFICES ASSUME Inv, Inv', NoWrap, [Next]_vars PROVE [Dag!Next]_(Dag!dag)
  OBVIOUS
<1>1. CASE UNCHANGED vars
  BY <1>1, SameLedgerStutters DEF vars, ledger
<1>2. CASE Next
  BY <1>2, StepRefines DEF Next
<1> QED
  BY <1>1, <1>2

\* While no generation is the largest u32, every step of every task is a step
\* of the append-only audit log, or leaves it as it is.
THEOREM RunnerImplementsDag == Spec /\ []NoWrap => ImplementsDag
<1> QED
  BY DagInit, DagStep, Invariance, PTL DEF Spec, ImplementsDag, Dag!Spec

-----------------------------------------------------------------------------
(* The drawing. *)

LEMMA DotFacts ==
  ASSUME LedgerInv
  PROVE  /\ DOMAIN export_dot = DOMAIN insertion_order
         /\ \A i \in DOMAIN insertion_order :
              /\ Position(i) \in Ledger
              /\ export_dot[i] = Vertex(Node(Position(i)))
<1>1. \A i \in DOMAIN insertion_order : Position(i) \in Ledger
  BY OrderLength
<1>2. export_dot = [i \in DOMAIN insertion_order |-> Vertex(nodes[insertion_order[i]])]
  BY DEF export_dot, export_dag_json, AllNodes
<1> QED
  BY <1>1, <1>2 DEF Node, Position

LEMMA ForestDrawn == LedgerInv /\ NoWrap => DotIsForest
<1> SUFFICES ASSUME LedgerInv, NoWrap PROVE DotIsForest
  OBVIOUS
<1>0. /\ DOMAIN export_dot = DOMAIN insertion_order
      /\ \A i \in DOMAIN insertion_order :
           /\ Position(i) \in Ledger
           /\ export_dot[i] = Vertex(Node(Position(i)))
  BY DotFacts
<1>1. \A i, j \in DOMAIN export_dot : export_dot[i].id = export_dot[j].id => i = j
  BY <1>0 DEF Vertex, LedgerInv, LedgerIndexed
<1>2. ASSUME NEW i \in DOMAIN export_dot
      PROVE  \/ export_dot[i].edge = None /\ export_dot[i].generation = 0
             \/ \E j \in 1 .. i - 1 :
                  /\ export_dot[i].edge = Some(export_dot[j].id)
                  /\ export_dot[i].generation = export_dot[j].generation + 1
             \/ \E parent \in Foreign :
                  /\ export_dot[i].edge = Some(parent.agent_id)
                  /\ export_dot[i].generation = parent.generation + 1
  <2> DEFINE node == Node(Position(i))
  <2>1. CASE node.parent_id = None /\ node.generation = 0
    BY <1>0, <2>1 DEF Vertex
  <2>2. ASSUME NEW j \in 1 .. i - 1,
               node.parent_id = Some(Position(j)),
               node.generation = NextGeneration(Node(Position(j)).generation)
        PROVE  /\ export_dot[i].edge = Some(export_dot[j].id)
               /\ export_dot[i].generation = export_dot[j].generation + 1
    <3>1. j \in DOMAIN insertion_order
      BY <1>0, OrderLength
    <3>2. /\ Position(j) \in Ledger /\ Node(Position(j)).agent_id = Position(j)
          /\ Node(Position(j)).generation \in Nat
          /\ Node(Position(j)).generation + 1 < GenerationModulus
      BY <1>0, <3>1
      DEF NoWrap, Parents, Ledger, LedgerInv, LedgerOK, LedgerIndexed, IsAgentNode,
          Generations
    <3>3. NextGeneration(Node(Position(j)).generation) = Node(Position(j)).generation + 1
      BY <3>2, GenerationAssumption DEF NextGeneration
    <3> QED
      BY <1>0, <2>2, <3>1, <3>2, <3>3 DEF Vertex
  <2>3. ASSUME NEW parent \in Foreign, node.parent_id = Some(parent.agent_id),
               node.generation = NextGeneration(parent.generation)
        PROVE  /\ export_dot[i].edge = Some(parent.agent_id)
               /\ export_dot[i].generation = parent.generation + 1
    <3>1. parent.generation \in Nat /\ parent.generation + 1 < GenerationModulus
      BY ParentFacts DEF NoWrap, Parents, Generations
    <3>2. NextGeneration(parent.generation) = parent.generation + 1
      BY <3>1, GenerationAssumption DEF NextGeneration
    <3> QED
      BY <1>0, <2>3, <3>2 DEF Vertex
  <2> QED
    BY <1>0, <2>1, <2>2, <2>3 DEF LedgerInv, LineageAcyclic
<1> QED
  BY <1>1, <1>2 DEF DotIsForest

\* export_dot never draws an edge from a vertex that it draws later: the
\* parent is drawn already, or it is a foreign one and may not be drawn at all.
THEOREM DrawingIsForest == Spec /\ []NoWrap => []DotIsForest
<1>1. Inv /\ NoWrap => DotIsForest
  BY ForestDrawn DEF Inv
<1> QED
  BY <1>1, Invariance, PTL

=============================================================================
