---------------------------- MODULE JsonlLineage ----------------------------
(***************************************************************************)
(* The handles of the file-backed ledger (ledger.rs): each has a copy of   *)
(* the file's contents in memory.  Nothing but append writes the file, and *)
(* only open reads it.                                                     *)
(*                                                                         *)
(* The handle's lock covers both writes of an append and the update of its *)
(* memory, but two handles on one path have two locks.  The process may    *)
(* die at any point.  A node is an id and a status here.                   *)
(***************************************************************************)
EXTENDS JsonlFile, FiniteSets

CONSTANTS
  Handles,    \* the JsonlLineage values opened on one path
  Nodes,      \* the nodes handed to append: [agent_id, status]
  MaxFaults   \* bound: failed writes and crashes

ASSUME JsonlAssumption ==
  /\ MaxFaults \in Nat
  /\ \A m, n \in Nodes : m.agent_id = n.agent_id => m = n

VARIABLES
  memory,  \* of each handle: whether it is open, its nodes in order, its head
  writing, \* of each handle: the node whose append holds the lock
  acked,   \* history: the nodes whose append returned Ok, in that order
  shared,  \* history: whether two handles have been open at once
  faults   \* how many failures there have been

history == <<acked, shared>>
vars == <<file, memory, writing, history, faults>>

Closed == [up |-> FALSE, order |-> << >>, head |-> None]

ListedIn(order) == {order[i] : i \in DOMAIN order}

-----------------------------------------------------------------------------
(* Handles. *)

Update(h, m) == memory' = [memory EXCEPT ![h] = m]

\* Mutant: the lock of an append that failed is not released.
LockLeaks(h) == UNCHANGED writing

Unlock(h) == writing' = [writing EXCEPT ![h] = None]
Ready(h) == memory[h].up /\ writing[h] = None

\* JsonlLineage::open, which gives up at the first line that does not parse.
open(h) ==
  /\ ~memory[h].up
  /\ IF Replayable
       THEN /\ Update(h, [up |-> TRUE, order |-> Replay, head |-> LastPromoted(Replay)])
            /\ shared' = (shared \/ \E g \in Handles \ {h} : memory[g].up)
       ELSE UNCHANGED <<memory, shared>>
  /\ UNCHANGED <<file, writing, acked, faults>>

\* Mutant: no duplicate check.
AppendBodyUnchecked(h) ==
  /\ Ready(h)
  /\ \E node \in Nodes :
       /\ WriteBody(node, TRUE)
       /\ writing' = [writing EXCEPT ![h] = Some(node)]
  /\ UNCHANGED <<memory, history, faults>>

\* append, up to the write of the body: the duplicate check reads only this
\* handle's memory.
AppendBody(h) ==
  /\ Ready(h)
  /\ \E node \in Nodes \ ListedIn(memory[h].order) :
       /\ WriteBody(node, TRUE)
       /\ writing' = [writing EXCEPT ![h] = Some(node)]
  /\ UNCHANGED <<memory, history, faults>>

\* The rest of append: the newline, then the memory, then Ok.
AppendNewline(h) ==
  /\ \E node \in writing[h] :
       /\ WriteNewline
       /\ Update(h, [memory[h] EXCEPT
                       !.order = Append(@, node),
                       !.head = IF node.status = Promoted THEN Some(node.agent_id)
                                                          ELSE @])
       /\ acked' = Append(acked, node)
  /\ Unlock(h)
  /\ UNCHANGED <<shared, faults>>

Fault == faults < MaxFaults /\ faults' = faults + 1

\* Mutant: the memory is updated before a write that fails.
BodyFailsMemoryFirst(h) ==
  /\ Ready(h)
  /\ Fault
  /\ \E node \in Nodes \ ListedIn(memory[h].order) :
       Update(h, [memory[h] EXCEPT !.order = Append(@, node)])
  /\ UNCHANGED <<file, writing, history>>

\* The write of the body fails half way (or before the first byte, which
\* changes nothing): append returns an error, or the process dies.
BodyFails(h) ==
  /\ Ready(h)
  /\ Fault
  /\ \E node \in Nodes \ ListedIn(memory[h].order) : WriteBody(node, FALSE)
  /\ memory' \in {memory, [memory EXCEPT ![h] = Closed]}
  /\ UNCHANGED <<writing, history>>

\* The write of the newline fails, or the process dies before it.
NewlineFails(h) ==
  /\ writing[h] # None
  /\ Fault
  /\ Unlock(h)
  /\ memory' \in {memory, [memory EXCEPT ![h] = Closed]}
  /\ UNCHANGED <<file, history>>

\* The process dies after the newline and before append returns.
DiesAfterNewline(h) ==
  /\ writing[h] # None
  /\ Fault
  /\ WriteNewline
  /\ Unlock(h)
  /\ Update(h, Closed)
  /\ UNCHANGED history

set_head(h) ==
  /\ Ready(h)
  /\ \E node \in ListedIn(memory[h].order) :
       Update(h, [memory[h] EXCEPT !.head = Some(node.agent_id)])
  /\ UNCHANGED <<file, writing, history, faults>>

\* The handle is dropped, or its process ends, between two calls.
Close(h) ==
  /\ Ready(h)
  /\ Update(h, Closed)
  /\ UNCHANGED <<file, writing, history, faults>>

Init ==
  /\ file = EmptyFile
  /\ memory = [h \in Handles |-> Closed]
  /\ writing = [h \in Handles |-> None]
  /\ acked = << >>
  /\ shared = FALSE
  /\ faults = 0

Next ==
  \E h \in Handles :
    \/ open(h)
    \/ AppendBody(h)
    \/ AppendNewline(h)
    \/ BodyFails(h)
    \/ NewlineFails(h)
    \/ DiesAfterNewline(h)
    \/ set_head(h)
    \/ Close(h)

Spec == Init /\ [][Next]_vars

-----------------------------------------------------------------------------
(* Properties. *)

\* s is t with some elements left out.
Subsequence(s, t) ==
  \E f \in [DOMAIN s -> DOMAIN t] :
    /\ \A i \in DOMAIN s : s[i] = t[f[i]]
    /\ \A i, j \in DOMAIN s : i < j => f[i] < f[j]

TypeOK ==
  /\ file \in Seq(Seq([node : Nodes, whole : BOOLEAN])) /\ file # << >>
  /\ DOMAIN memory = Handles /\ DOMAIN writing = Handles
  /\ \A h \in Handles :
       /\ memory[h].order \in Seq(Nodes)
       /\ memory[h].head \subseteq {node.agent_id : node \in ListedIn(memory[h].order)}
       /\ writing[h] \subseteq Nodes /\ Cardinality(writing[h]) <= 1
       /\ writing[h] # None => memory[h].up
  /\ acked \in Seq(Nodes)
  /\ shared \in BOOLEAN
  /\ faults \in 0 .. MaxFaults

\* What append acknowledged is found again, in the order it was acknowledged
\* in, whenever the file can be opened at all, whatever failed before.
AckedRecovered == Replayable => Subsequence(acked, Replay)

\* A retry after a failed or interrupted append never repeats a line:
\* reopening sees what the failed append left behind, or cannot open.  Only
\* a handle that was open beside another may not know a node and repeat it.
NoLineTwice ==
  Replayable /\ ~shared =>
    \A i, j \in DOMAIN Replay : Replay[i].agent_id = Replay[j].agent_id => i = j

\* While nothing failed and a handle was alone, closing and reopening it
\* between two calls gives back the nodes and their order.
ReopenIsIdentity ==
  faults = 0 /\ ~shared =>
    \A h \in Handles : Ready(h) => Replayable /\ Replay = memory[h].order

\* A node that a handle serves from memory is in the file: after a failure
\* the memory may lack what the file has, never the other way around.
MemoryBackedByFile ==
  Replayable =>
    \A h \in Handles : Subsequence(memory[h].order, Replay)

\* "Existing lines are replayed into memory" by open (ledger.rs): what was
\* acknowledged can be read again.
AckedReopens == acked # << >> => Replayable

=============================================================================
