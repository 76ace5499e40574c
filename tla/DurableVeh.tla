----------------------------- MODULE DurableVeh -----------------------------
(***************************************************************************)
(* The runner over the file-backed ledger (graph.rs, ledger.rs), in a      *)
(* process that may die and be started again.  The ledger of Veh is the    *)
(* memory of the one handle that the process opens; append writes the line *)
(* of a node to the file before it enters the node into that memory, under *)
(* a lock, so that other tasks see both or neither and only a failed write *)
(* or the death of the process comes between.                              *)
(*                                                                         *)
(* What survives is the file.  A power failure may take any suffix of it,  *)
(* because nothing is synced.  Operations under way are gone, paused ones  *)
(* too: a PendingApproval cannot be stored.  A node can: the host may pass *)
(* one as a parent, a foreign one, that is no longer in the file.  While   *)
(* the process is down the variables of its ledger keep their values as    *)
(* history.                                                                *)
(***************************************************************************)
EXTENDS VehProperties, JsonlFile

CONSTANT MaxFaults   \* bound: failed writes, deaths and power failures

ASSUME DurableAssumption == MaxFaults \in Nat

VARIABLES
  mode,    \* "up", "down", or "dark": down after a power failure
  faults,  \* how many failures there have been
  losses   \* history: restarts after a power failure

durableVars == <<vars, file, mode, faults, losses>>

Up == mode = "up"
Fault == faults < MaxFaults /\ faults' = faults + 1

-----------------------------------------------------------------------------
(* What the process does while it is up. *)

Grown == Len(insertion_order') > Len(insertion_order)
Newest(order) == order[Len(order)]

\* The body and the newline, both written.
WriteLine(node) ==
  file' = Append([file EXCEPT ![Len(file)] = Append(@, Chunk(node, TRUE))], << >>)

\* Mutant: only promoted nodes are written.
WritesPromotedOnly ==
  IF Grown /\ nodes'[Newest(insertion_order')].status = Promoted
  THEN WriteLine(nodes'[Newest(insertion_order')])
  ELSE UNCHANGED file

\* append writes the node that it enters, and nothing else writes.
WritesAppended ==
  IF Grown THEN WriteLine(nodes'[Newest(insertion_order')]) ELSE UNCHANGED file

Runs(t) ==
  /\ Up
  /\ Step(t)
  /\ WritesAppended
  /\ UNCHANGED <<mode, faults, losses>>

-----------------------------------------------------------------------------
(* What goes wrong in the middle of an append. *)

Outcome(inputs, score) ==
  IF NotImproved(inputs.parent, score) THEN Deny ELSE decision(inputs)

\* The nodes with which a cycle may end, and those that the next append of a
\* task may be called with.
CycleNodes(inputs) ==
  {CycleNode(inputs, score, Promoted) :
     score \in {s \in Scores : Outcome(inputs, s) = Approve}} \cup
  {CycleNode(inputs, score, Rejected) :
     score \in {s \in Scores : Outcome(inputs, s) = Deny}}

Roots ==
  {sign_node(RootInputs(artifact, scope, now), SigningKey) :
     artifact \in Artifacts, scope \in Scopes, now \in Timestamps}

NextNodes(t) ==
  CASE At(t, "idle")         -> IF HasRoom THEN Roots ELSE {}
    [] At(t, "evaluating")   -> CycleNodes(task[t].inputs)
    [] At(t, "awaiting")     -> {ApprovedNode(task[t].pending, key) : key \in ApprovalKeys}
    [] At(t, "rolling back") -> {RollbackNode(task[t])}
    [] At(t, "reverting")    -> {}

\* Those that are not refused as duplicates before anything is written.
Writes(t) == {node \in NextNodes(t) : ~Contains(node.agent_id)}

\* Mutant: the memory is updated first, and the write fails at once.
AppendFailsLate(t) ==
  /\ Up /\ Fault
  /\ \E node \in Writes(t) : Insert(node)
  /\ Finish(t)
  /\ UNCHANGED <<file, mode, losses>>

\* A write fails half way through the body or at the newline: append returns
\* the error, the operation ends with it (resume_with_approval has consumed
\* its PendingApproval), and what was written stays.  A write that fails
\* before its first byte leaves no trace, and is one of Veh's drops.
AppendFails(t) ==
  /\ Up /\ Fault
  /\ \E node \in Writes(t), whole \in BOOLEAN : WriteBody(node, whole)
  /\ Finish(t)
  /\ UNCHANGED <<ledger, mode, losses>>

\* What the file may hold when the process dies between two calls of append
\* or in one: after a part of the body, all of it, or the newline as well.
DyingWrites ==
  \/ UNCHANGED file
  \/ \E t \in Tasks : \E node \in Writes(t) :
       \/ \E whole \in BOOLEAN : WriteBody(node, whole)
       \/ WriteLine(node)

\* Every operation is gone with the process.
Gone == task' = [t \in Tasks |-> Idle]

Dies ==
  /\ Up /\ Fault
  /\ DyingWrites
  /\ mode' = "down"
  /\ Gone
  /\ UNCHANGED <<ledger, losses>>

\* The lines and chunks that begin the file, the last one possibly torn.
Remains ==
  LET UpTo(i, line) == [SubSeq(file, 1, i) EXCEPT ![i] = line]
      Torn(line, c) == [SubSeq(line, 1, c) EXCEPT ![c].whole = FALSE]
  IN UNION {{UpTo(i, SubSeq(file[i], 1, c)) : c \in 0 .. Len(file[i])}
              \cup {UpTo(i, Torn(file[i], c)) : c \in DOMAIN file[i]} : i \in DOMAIN file}

PowerFails ==
  /\ mode # "dark" /\ Fault
  /\ file' \in Remains
  /\ mode' = "dark"
  /\ Gone
  /\ UNCHANGED <<ledger, losses>>

-----------------------------------------------------------------------------
(* JsonlLineage::open by the new process. *)

\* HashMap::insert: of two lines with one id the later counts.
Replayed(id) ==
  LET i == CHOOSE i \in DOMAIN Replay :
             /\ Replay[i].agent_id = id
             /\ \A j \in DOMAIN Replay : Replay[j].agent_id = id => j <= i
  IN Replay[i]

\* Nodes are not verified, nor their parents looked up; open fails when a
\* line does not parse.
open ==
  /\ ~Up
  /\ IF Replayable
       THEN /\ insertion_order' = [i \in DOMAIN Replay |-> Replay[i].agent_id]
            /\ nodes' = [id \in {node.agent_id : node \in {Replay[i] : i \in DOMAIN Replay}}
                           |-> Replayed(id)]
            /\ head' = LastPromoted(Replay)
            /\ mode' = "up"
            /\ losses' = IF mode = "dark" THEN losses + 1 ELSE losses
       ELSE UNCHANGED <<ledger, mode, losses>>
  /\ UNCHANGED <<file, faults, task>>

DurableInit ==
  /\ Init
  /\ file = EmptyFile
  /\ mode = "up"
  /\ faults = 0 /\ losses = 0

DurableNext ==
  \/ \E t \in Tasks : Runs(t) \/ AppendFails(t)
  \/ Dies
  \/ PowerFails
  \/ open

DurableSpec == DurableInit /\ [][DurableNext]_durableVars

-----------------------------------------------------------------------------
(* Properties. *)

\* What can be replayed is a lineage, after whatever failed: every line is a
\* node that verifies, is written once and descends from an earlier line,
\* unless the host passed a parent that is foreign, such as a node that it
\* kept while a power failure took its line.
FileIsLineage ==
  Replayable =>
    \A i \in DOMAIN Replay :
      /\ verify_node(Replay[i])
      /\ \A j \in DOMAIN Replay : Replay[j].agent_id = Replay[i].agent_id => j = i
      /\ \A id \in Replay[i].parent_id :
           \/ \E j \in 1 .. i - 1 : Replay[j].agent_id = id
           \/ \E parent \in Foreign : parent.agent_id = id

\* A restart without a power failure never takes the head back: it may undo a
\* rollback_to, which is not in the file, but no promotion and no rollback
\* that commit_rollback recorded.
RestartNeverGoesBack ==
  [][~Up /\ Up' /\ losses' = losses =>
       \A i \in DOMAIN insertion_order : Position(i) \in head =>
         \E j \in i .. Len(insertion_order') : insertion_order'[j] \in head']_durableVars

\* The ledger, restarts included, is the durable log.
Disk == INSTANCE DurableLog
          WITH log <- [i \in DOMAIN insertion_order |-> LogEntry(Node(Position(i)))]

ImplementsDurableLog == Disk!DurableSpec

=============================================================================
