---------------------------- MODULE LineageExport ----------------------------
(***************************************************************************)
(* What leaves the ledger for others to read (ledger.rs): the JSON of the  *)
(* whole lineage, the nodes that a store without nodes() of its own makes  *)
(* of it, and the drawing for Graphviz.  Each reads the ledger in one call *)
(* under one lock.  Labels are left out but for what they tell of a node.  *)
(***************************************************************************)
EXTENDS VehProperties

export_dag_json == [head |-> head, nodes |-> AllNodes]

\* A vertex, and the edge from the parent that is drawn after it.
Vertex(node) ==
  [id |-> node.agent_id, generation |-> node.generation, status |-> node.status,
   edge |-> node.parent_id]

\* Mutant: rejected nodes are not drawn.
DrawsPromoted ==
  LET Shown(node) == node.status = Promoted
      all == SelectSeq(export_dag_json.nodes, Shown)
  IN [i \in DOMAIN all |-> Vertex(all[i])]

export_dot ==
  LET all == export_dag_json.nodes
  IN [i \in DOMAIN all |-> Vertex(all[i])]

\* The drawing is a forest and reads from top to bottom: every vertex is
\* drawn once, and its only edge comes from a vertex drawn before it, one
\* generation above; a vertex without an edge is of generation 0.  So no
\* vertex appears that only an edge names, although cycles may start from
\* rejected nodes and lineages may have several roots; but for the foreign
\* parents that the host passed, which export_dot does not look up either.
DotIsForest ==
  LET dot == export_dot IN
  /\ \A i, j \in DOMAIN dot : dot[i].id = dot[j].id => i = j
  /\ \A i \in DOMAIN dot :
       \/ dot[i].edge = None /\ dot[i].generation = 0
       \/ \E j \in 1 .. i - 1 : /\ dot[i].edge = Some(dot[j].id)
                                /\ dot[i].generation = dot[j].generation + 1
       \/ \E parent \in Foreign : /\ dot[i].edge = Some(parent.agent_id)
                                  /\ dot[i].generation = parent.generation + 1

=============================================================================
