---------------------------- MODULE LineageStore ----------------------------
(***************************************************************************)
(* The LineageStore trait as InMemoryLineage implements it (ledger.rs).    *)
(* Each method takes the lock once, so each is one atomic step; a call     *)
(* that returns an error leaves the ledger as it was.                      *)
(***************************************************************************)
EXTENDS AgentNodes, Sequences

VARIABLES
  nodes,            \* HashMap<AgentId, AgentNode>, a function on the ids
  insertion_order,  \* Vec<AgentId>
  head              \* Option<AgentId>

ledger == <<nodes, insertion_order, head>>

Contains(id) == id \in DOMAIN nodes

StoreInit ==
  /\ nodes = [id \in {} |-> id]
  /\ insertion_order = << >>
  /\ head = None

\* A new node; one that is promoted becomes the head.
Insert(node) ==
  /\ insertion_order' = Append(insertion_order, node.agent_id)
  /\ nodes' = [id \in DOMAIN nodes \cup {node.agent_id} |->
                 IF id = node.agent_id THEN node ELSE nodes[id]]
  /\ head' = IF node.status = Promoted THEN Some(node.agent_id) ELSE head

\* Mutant: a duplicate overwrites the node and is listed again.
AppendUnchecked(node) == Insert(node)

\* A duplicate agent_id is refused with Error::Ledger.
append(node) == IF Contains(node.agent_id) THEN UNCHANGED ledger
                                           ELSE Insert(node)

\* Mutant: reverting discards the nodes appended after the target.
TruncateTo(id) ==
  LET keep == {i \in DOMAIN insertion_order :
                 \E j \in DOMAIN insertion_order : i <= j /\ insertion_order[j] = id}
  IN /\ head' = Some(id)
     /\ insertion_order' = [i \in keep |-> insertion_order[i]]
     /\ nodes' = [i \in {insertion_order[k] : k \in keep} |-> nodes[i]]

\* Every node in insertion order.
AllNodes == [i \in DOMAIN insertion_order |-> nodes[insertion_order[i]]]

\* The head may be set to any node of the ledger, whatever its status.
set_head(id) ==
  /\ head' = IF Contains(id) THEN Some(id) ELSE head
  /\ UNCHANGED <<nodes, insertion_order>>

=============================================================================
