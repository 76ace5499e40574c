----------------------------- MODULE JsonlProofs -----------------------------
(***************************************************************************)
(* Theorems about the file-backed ledger, for every set of handles and of  *)
(* nodes and every number of failures.                                     *)
(*                                                                         *)
(* Everything promised of the file is promised while it can be read.  What *)
(* makes it true is the last line: it is empty whenever the next append    *)
(* may leave a file that can be read, and while an append that will return *)
(* holds a lock it is that append's node, which no other append can touch  *)
(* without making the file unreadable for good.                            *)
(***************************************************************************)
EXTENDS JsonlLineage, FileProofs, FiniteSetTheorems

-----------------------------------------------------------------------------
(* Subsequences. *)

LEMMA EmptySubsequence ==
  ASSUME NEW t
  PROVE  Subsequence(<< >>, t)
<1> DEFINE f == [i \in {} |-> i]
<1>1. DOMAIN << >> = {}
  OBVIOUS
<1>2. f \in [DOMAIN << >> -> DOMAIN t]
  BY <1>1
<1> QED
  BY <1>1, <1>2, Zenon DEF Subsequence

LEMMA SameSubsequence ==
  ASSUME NEW N, NEW s \in Seq(N)
  PROVE  Subsequence(s, s)
<1> DEFINE f == [i \in DOMAIN s |-> i]
<1>1. /\ f \in [DOMAIN s -> DOMAIN s]
      /\ \A i \in DOMAIN s : f[i] = i
  OBVIOUS
<1> HIDE DEF f
<1> QED
  BY <1>1 DEF Subsequence

\* The longer sequence may grow, and both may by the same element.
LEMMA SubsequenceGrows ==
  ASSUME NEW N, NEW s \in Seq(N), NEW t \in Seq(N), NEW e \in N, Subsequence(s, t)
  PROVE  /\ Subsequence(s, Append(t, e))
         /\ Subsequence(Append(s, e), Append(t, e))
<1>1. PICK f \in [DOMAIN s -> DOMAIN t] :
        /\ \A i \in DOMAIN s : s[i] = t[f[i]]
        /\ \A i, j \in DOMAIN s : i < j => f[i] < f[j]
  BY DEF Subsequence
<1> DEFINE m == Len(s)
           n == Len(t)
           sx == Append(s, e)
           tx == Append(t, e)
<1>2. /\ m \in Nat /\ DOMAIN s = 1 .. m /\ DOMAIN sx = 1 .. m + 1
      /\ (\A i \in 1 .. m : sx[i] = s[i]) /\ sx[m + 1] = e
      /\ n \in Nat /\ DOMAIN t = 1 .. n /\ DOMAIN tx = 1 .. n + 1
      /\ (\A i \in 1 .. n : tx[i] = t[i]) /\ tx[n + 1] = e
  BY AppendProperties, LenProperties
<1> HIDE DEF m, n, sx, tx
<1>3. \A i \in 1 .. m : f[i] \in 1 .. n
  BY <1>1, <1>2
<1>4. Subsequence(s, tx)
  <2>1. f \in [DOMAIN s -> DOMAIN tx] /\ \A i \in DOMAIN s : s[i] = tx[f[i]]
    BY <1>1, <1>2, <1>3
  <2> QED
    BY <1>1, <2>1 DEF Subsequence
<1>5. Subsequence(sx, tx)
  <2> DEFINE g == [i \in 1 .. m + 1 |-> IF i = m + 1 THEN n + 1 ELSE f[i]]
  <2>1. /\ \A i \in 1 .. m : g[i] = f[i] /\ g[i] \in 1 .. n
        /\ g[m + 1] = n + 1
    BY <1>2, <1>3
  <2>2. g \in [1 .. m + 1 -> 1 .. n + 1]
    BY <1>2, <1>3
  <2> HIDE DEF g
  <2>3. \A i \in 1 .. m + 1 : i \in 1 .. m \/ i = m + 1
    BY <1>2
  <2>4. \A i \in 1 .. m + 1 : sx[i] = tx[g[i]]
    <3> TAKE i \in 1 .. m + 1
    <3>1. CASE i \in 1 .. m
      <4>1. s[i] = t[f[i]] /\ f[i] \in 1 .. n
        BY <1>1, <1>2, <1>3, <3>1, Zenon
      <4> QED
        BY <1>2, <2>1, <3>1, <4>1, Zenon
    <3>2. CASE i = m + 1
      BY <1>2, <2>1, <3>2, Zenon
    <3> QED
      BY <2>3, <3>1, <3>2, Zenon
  <2>5. ASSUME NEW i \in 1 .. m + 1, NEW j \in 1 .. m + 1, i < j
        PROVE  g[i] < g[j]
    <3>1. i \in 1 .. m
      BY <1>2, <2>5
    <3>2. CASE j = m + 1
      BY <1>2, <2>1, <3>1, <3>2
    <3>3. CASE j \in 1 .. m
      BY <1>1, <1>2, <2>1, <2>5, <3>1, <3>3
    <3> QED
      BY <2>3, <3>2, <3>3
  <2> QED
    BY <1>2, <2>2, <2>4, <2>5 DEF Subsequence
<1> QED
  BY <1>4, <1>5 DEF sx, tx

-----------------------------------------------------------------------------
(* The invariant. *)

Ids(order) == {node.agent_id : node \in ListedIn(order)}

IsMemory(m) ==
  /\ m = [up |-> m.up, order |-> m.order, head |-> m.head]
  /\ m.up \in BOOLEAN /\ m.order \in Seq(Nodes) /\ m.head \subseteq Ids(m.order)

IsWriting(h) ==
  \/ writing[h] = None
  \/ memory[h].up /\ \E node \in Nodes : writing[h] = Some(node)

Types ==
  /\ file \in LinesOf(Nodes) /\ file # << >>
  /\ memory = [h \in Handles |-> memory[h]]
  /\ writing = [h \in Handles |-> writing[h]]
  /\ \A h \in Handles : IsMemory(memory[h]) /\ IsWriting(h)
  /\ acked \in Seq(Nodes)
  /\ shared \in BOOLEAN
  /\ faults \in 0 .. MaxFaults

Settled == Blank(LastLine(file))

\* What is in memory, and what was acknowledged, is in the file.
Backed ==
  Replayable =>
    /\ Subsequence(acked, Replay)
    /\ \A h \in Handles : Subsequence(memory[h].order, Replay)

\* The node of an append under way is the last one, on a line of its own,
\* and comes after all that the handle knows and all that was acknowledged.
InLastLine(h) ==
  /\ ~Settled
  /\ \A g \in Handles : writing[g] # None => g = h
  /\ \E prior \in Seq(Nodes), node \in writing[h] :
       /\ Replay = Append(prior, node)
       /\ Subsequence(memory[h].order, prior)
       /\ Subsequence(acked, prior)
       /\ ~shared => prior = memory[h].order

WritersAlone ==
  Replayable => \A h \in Handles : writing[h] # None => InLastLine(h)

\* A handle that was never beside another is the only one, and knows all
\* that is in the file before the next append can add to it.
HandleAlone ==
  ~shared => \A g, h \in Handles : memory[g].up /\ memory[h].up => g = h

HandleCurrent ==
  Replayable /\ ~shared =>
    \A h \in Handles : Ready(h) /\ Settled => Replay = memory[h].order

\* Without a failure and a second handle the file can be read, and its last
\* line is empty between two appends.
CleanFile ==
  faults = 0 /\ ~shared =>
    Replayable /\ ((\A h \in Handles : writing[h] = None) => Settled)

JsonlInv ==
  /\ Types /\ Backed /\ WritersAlone /\ HandleAlone /\ HandleCurrent
  /\ NoLineTwice /\ CleanFile

-----------------------------------------------------------------------------
(* Types. *)

LEMMA ReplayFacts ==
  /\ Replayable <=> AllParse(file)
  /\ Replayable' <=> AllParse(file')
  /\ Replay = NodesIn(file) /\ Replay' = NodesIn(file')
BY DEF Replayable, Replay, AllParse

LEMMA ClosedMemory == IsMemory(Closed)
BY EmptySeq DEF IsMemory, Closed, Ids, ListedIn, None

\* One handle goes on to another memory and another append, or none.
LEMMA HandleKeepsTypes ==
  ASSUME Types, NEW h \in Handles, NEW m, IsMemory(m), NEW w,
         w = None \/ (m.up /\ \E node \in Nodes : w = Some(node)),
         memory' = [memory EXCEPT ![h] = m], writing' = [writing EXCEPT ![h] = w],
         file' \in LinesOf(Nodes), file' # << >>, acked' \in Seq(Nodes),
         shared' \in BOOLEAN, faults' \in 0 .. MaxFaults
  PROVE  /\ Types'
         /\ memory' = [g \in Handles |-> IF g = h THEN m ELSE memory[g]]
         /\ writing' = [g \in Handles |-> IF g = h THEN w ELSE writing[g]]
<1>1. /\ memory' = [g \in Handles |-> IF g = h THEN m ELSE memory[g]]
      /\ writing' = [g \in Handles |-> IF g = h THEN w ELSE writing[g]]
  BY DEF Types
<1>2. \A g \in Handles : IsMemory(memory'[g]) /\ IsWriting(g)'
  <2> TAKE g \in Handles
  <2>1. CASE g = h
    <3>1. memory'[g] = m /\ writing'[g] = w
      BY <1>1, <2>1
    <3> QED
      BY <3>1, Zenon DEF IsWriting
  <2>2. CASE g # h
    <3>1. memory'[g] = memory[g] /\ writing'[g] = writing[g]
      BY <1>1, <2>2
    <3>2. IsMemory(memory[g]) /\ IsWriting(g)
      BY Zenon DEF Types
    <3> QED
      BY <3>1, <3>2, Zenon DEF IsWriting
  <2> QED
    BY <2>1, <2>2, Zenon
<1> QED
  BY <1>1, <1>2 DEF Types

\* What stays the same is a case of that.
LEMMA SameHandle ==
  ASSUME Types, NEW h \in Handles
  PROVE  /\ memory = [memory EXCEPT ![h] = memory[h]]
         /\ writing = [writing EXCEPT ![h] = writing[h]]
         /\ IsMemory(memory[h])
         /\ writing[h] = None \/ (memory[h].up /\ \E node \in Nodes : writing[h] = Some(node))
BY DEF Types, IsWriting

-----------------------------------------------------------------------------
(* The actions that leave the file alone. *)

LEMMA OpenStep ==
  ASSUME JsonlInv, NEW h \in Handles, open(h)
  PROVE  JsonlInv'
<1>0. /\ UNCHANGED <<file, writing, acked, faults>> /\ ~memory[h].up /\ writing[h] = None
      /\ Replayable' = Replayable /\ Replay' = Replay /\ Settled' = Settled
  BY DEF open, JsonlInv, Types, IsWriting, Replayable, Replay, Settled
<1>1. CASE ~Replayable
  <2>1. UNCHANGED vars
    BY <1>0, <1>1 DEF open, vars, history
  <2> QED
    BY <2>1 DEF vars, history, JsonlInv, Types, IsWriting, Backed, WritersAlone,
      InLastLine, HandleAlone, HandleCurrent, NoLineTwice, CleanFile, Settled,
      Replayable, Replay, Ready
<1>2. CASE Replayable
  <2> DEFINE m == [up |-> TRUE, order |-> Replay, head |-> LastPromoted(Replay)]
  <2>1. /\ memory' = [memory EXCEPT ![h] = m]
        /\ shared' = (shared \/ \E g \in Handles \ {h} : memory[g].up)
    BY <1>2 DEF open, Update
  <2>2. Replay \in Seq(Nodes)
    BY NodesInFacts DEF Replay, JsonlInv, Types
  <2>3. IsMemory(m)
    BY <2>2 DEF IsMemory, LastPromoted, Ids, ListedIn
  <2>4. /\ Types'
        /\ memory' = [g \in Handles |-> IF g = h THEN m ELSE memory[g]]
    <3>1. writing' = [writing EXCEPT ![h] = None]
      BY <1>0, SameHandle DEF JsonlInv
    <3> HIDE DEF m
    <3> QED
      BY <1>0, <2>1, <2>3, <3>1, HandleKeepsTypes DEF JsonlInv, Types
  <2>5. /\ memory'[h] = m /\ \A g \in Handles : g # h => memory'[g] = memory[g]
        /\ m.up /\ m.order = Replay
    BY <2>4
  <2> HIDE DEF m
  <2>6. Backed'
    <3>1. Subsequence(Replay, Replay)
      BY <2>2, SameSubsequence
    <3> QED
      BY <1>0, <2>5, <3>1 DEF JsonlInv, Backed
  <2>7. WritersAlone'
    <3> SUFFICES ASSUME Replayable', NEW g \in Handles, writing'[g] # None
                 PROVE  InLastLine(g)'
      BY Zenon DEF WritersAlone
    <3>1. g # h /\ memory'[g] = memory[g] /\ writing' = writing /\ acked' = acked
      BY <1>0, <2>5
    <3>2. InLastLine(g)
      BY <1>0, <3>1, Zenon DEF JsonlInv, WritersAlone
    <3>3. ~shared' => ~shared
      BY <2>1
    <3> QED
      BY <1>0, <3>1, <3>2, <3>3, Zenon DEF InLastLine
  <2>8. HandleAlone' /\ HandleCurrent'
    BY <1>0, <2>1, <2>5 DEF JsonlInv, HandleAlone, HandleCurrent, Ready
  <2>9. NoLineTwice' /\ CleanFile'
    BY <1>0, <2>1 DEF JsonlInv, NoLineTwice, CleanFile
  <2> QED
    BY <2>4, <2>6, <2>7, <2>8, <2>9 DEF JsonlInv
<1> QED
  BY <1>1, <1>2

\* set_head, a handle that is dropped, and a newline that is not written: the
\* handle knows what it knew, or nothing.
LEMMA QuietStep ==
  ASSUME JsonlInv, NEW h \in Handles, set_head(h) \/ Close(h) \/ NewlineFails(h)
  PROVE  JsonlInv'
<1>1. PICK m : /\ memory' = [memory EXCEPT ![h] = m] /\ IsMemory(m)
               /\ m.order = memory[h].order \/ m.order = << >>
               /\ m.up => memory[h].up /\ m.order = memory[h].order
  <2>1. IsMemory(memory[h]) /\ memory = [memory EXCEPT ![h] = memory[h]]
    BY SameHandle DEF JsonlInv
  <2>2. IsMemory(Closed) /\ Closed.order = << >> /\ ~Closed.up
    BY ClosedMemory DEF Closed
  <2>3. CASE set_head(h)
    <3>1. PICK node \in ListedIn(memory[h].order) :
             memory' = [memory EXCEPT ![h] = [memory[h] EXCEPT !.head = Some(node.agent_id)]]
      BY <2>3 DEF set_head, Update
    <3> DEFINE m == [memory[h] EXCEPT !.head = Some(node.agent_id)]
    <3>2. m = [up |-> memory[h].up, order |-> memory[h].order, head |-> {node.agent_id}]
      <4>1. PICK old : old = memory[h]
        OBVIOUS
      <4>2. old = [up |-> old.up, order |-> old.order, head |-> old.head]
        BY <2>1, <4>1, Zenon DEF IsMemory
      <4>3. [old EXCEPT !.head = {node.agent_id}]
              = [up |-> old.up, order |-> old.order, head |-> {node.agent_id}]
        BY <4>2
      <4> QED
        BY <4>1, <4>3 DEF Some
    <3>3. IsMemory(m) /\ m.order = memory[h].order /\ (m.up = memory[h].up)
      BY <2>1, <3>2 DEF IsMemory, Ids
    <3> HIDE DEF m
    <3>4. memory' = [memory EXCEPT ![h] = m]
      BY <3>1 DEF m
    <3> QED
      BY <3>3, <3>4
  <2>4. CASE Close(h)
    BY <2>2, <2>4 DEF Close, Update
  <2>5. CASE NewlineFails(h)
    <3>1. memory' = memory \/ memory' = [memory EXCEPT ![h] = Closed]
      BY <2>5 DEF NewlineFails
    <3> QED
      BY <2>1, <2>2, <3>1
  <2> QED
    BY <2>3, <2>4, <2>5
<1>2. /\ UNCHANGED <<file, acked, shared>>
      /\ Replayable' = Replayable /\ Replay' = Replay /\ Settled' = Settled
      /\ writing' = [writing EXCEPT ![h] = None]
      /\ faults' \in 0 .. MaxFaults /\ (faults' = 0 => faults = 0 /\ UNCHANGED writing)
      /\ writing[h] = None \/ NewlineFails(h)
  <2>1. UNCHANGED <<file, acked, shared>>
    BY DEF set_head, Close, NewlineFails, history
  <2>2. Replayable' = Replayable /\ Replay' = Replay /\ Settled' = Settled
    BY <2>1 DEF Replayable, Replay, Settled
  <2>3. writing' = [writing EXCEPT ![h] = None] /\ (writing[h] = None \/ NewlineFails(h))
    BY SameHandle DEF set_head, Close, NewlineFails, Unlock, Ready, JsonlInv
  <2>4. faults' \in 0 .. MaxFaults /\ (faults' = 0 => faults = 0 /\ UNCHANGED writing)
    BY JsonlAssumption DEF set_head, Close, NewlineFails, Fault, JsonlInv, Types
  <2> QED
    BY <2>1, <2>2, <2>3, <2>4
<1>3. /\ Types'
      /\ memory' = [g \in Handles |-> IF g = h THEN m ELSE memory[g]]
      /\ writing' = [g \in Handles |-> IF g = h THEN None ELSE writing[g]]
  BY <1>1, <1>2, HandleKeepsTypes DEF JsonlInv, Types
<1>4. Backed'
  BY <1>1, <1>2, <1>3, EmptySubsequence DEF JsonlInv, Backed
<1>5. WritersAlone'
  <2>1. ASSUME Replayable, NEW g \in Handles, writing'[g] # None PROVE InLastLine(g)'
    <3>1. g # h /\ writing[g] # None
      BY <1>3, <2>1
    <3>2. InLastLine(g)
      BY <2>1, <3>1 DEF JsonlInv, WritersAlone
    <3>3. memory'[g] = memory[g] /\ writing'[g] = writing[g]
      BY <1>3, <3>1
    <3>4. \A f \in Handles : writing'[f] # None => writing[f] # None
      BY <1>3
    <3> QED
      BY <1>2, <3>2, <3>3, <3>4 DEF InLastLine
  <2> QED
    BY <1>2, <2>1 DEF WritersAlone
<1>6. HandleAlone'
  BY <1>1, <1>2, <1>3 DEF JsonlInv, HandleAlone
<1>7. HandleCurrent'
  <2>1. ASSUME Replayable, ~shared, Settled, NEW g \in Handles, memory'[g].up
        PROVE  Replay = memory'[g].order
    <3>1. memory[g].up /\ memory'[g].order = memory[g].order
      BY <1>1, <1>3, <2>1
    <3>2. writing[g] = None
      BY <2>1 DEF JsonlInv, WritersAlone, InLastLine
    <3> QED
      BY <2>1, <3>1, <3>2 DEF JsonlInv, HandleCurrent, Ready
  <2> QED
    BY <1>2, <2>1 DEF HandleCurrent, Ready
<1>8. NoLineTwice' /\ CleanFile'
  BY <1>2 DEF JsonlInv, NoLineTwice, CleanFile
<1> QED
  BY <1>3, <1>4, <1>5, <1>6, <1>7, <1>8 DEF JsonlInv

-----------------------------------------------------------------------------
(* The actions that write the file. *)

\* A node that is not listed has an id of its own.
LEMMA OtherIds ==
  ASSUME NEW order \in Seq(Nodes), NEW node \in Nodes \ ListedIn(order),
         \A i, j \in DOMAIN order : order[i].agent_id = order[j].agent_id => i = j,
         NEW longer, longer = Append(order, node)
  PROVE  \A i, j \in DOMAIN longer : longer[i].agent_id = longer[j].agent_id => i = j
<1> DEFINE n == Len(order)
<1>1. /\ n \in Nat /\ DOMAIN order = 1 .. n /\ DOMAIN longer = 1 .. n + 1
      /\ longer[n + 1] = node /\ \A i \in 1 .. n : longer[i] = order[i]
  BY AppendProperties, LenProperties
<1>2. \A i \in 1 .. n : order[i] \in Nodes /\ order[i] # node
  BY <1>1, ElementOfSeq DEF ListedIn
<1>3. \A i \in 1 .. n : order[i].agent_id # node.agent_id
  BY <1>2, JsonlAssumption
<1> HIDE DEF n
<1>4. \A i \in 1 .. n + 1 : i \in 1 .. n \/ i = n + 1
  BY <1>1
<1> QED
  BY <1>1, <1>3, <1>4

LEMMA BodyStep ==
  ASSUME JsonlInv, NEW h \in Handles, AppendBody(h)
  PROVE  JsonlInv'
<1>1. PICK node \in Nodes : /\ node \notin ListedIn(memory[h].order)
                            /\ WriteBody(node, TRUE)
                            /\ writing' = [writing EXCEPT ![h] = Some(node)]
  BY DEF AppendBody
<1>2. /\ UNCHANGED <<memory, acked, shared, faults>>
      /\ memory[h].up /\ writing[h] = None
  BY DEF AppendBody, history, Ready
<1>3. /\ file \in LinesOf(Nodes) /\ file # << >>
      /\ file' \in LinesOf(Nodes) /\ file' # << >> /\ ~Settled'
      /\ Settled => Replay' = Append(Replay, node)
      /\ Replayable' <=> Replayable /\ Settled
  <2>1. file \in LinesOf(Nodes) /\ file # << >>
    BY DEF JsonlInv, Types
  <2>2. file' = WithBody(file, Chunk(node, TRUE))
    BY <1>1 DEF WriteBody, WithBody
  <2>3. /\ file' \in LinesOf(Nodes) /\ file' # << >>
        /\ Blank(LastLine(file)) => NodesIn(file') = Append(NodesIn(file), node)
        /\ ~Blank(LastLine(file'))
        /\ AllParse(file') <=> AllParse(file) /\ Blank(LastLine(file))
    BY <2>1, <2>2, BodyWrittenWhole, Zenon
  <2> QED
    BY <2>1, <2>3, ReplayFacts DEF Settled
<1>4. /\ Types'
      /\ writing' = [g \in Handles |-> IF g = h THEN Some(node) ELSE writing[g]]
  <2>1. Types
    BY Zenon DEF JsonlInv
  <2>2. acked' \in Seq(Nodes) /\ shared' \in BOOLEAN /\ faults' \in 0 .. MaxFaults
    BY <1>2, <2>1 DEF Types
  <2>3. memory' = [memory EXCEPT ![h] = memory[h]] /\ IsMemory(memory[h])
    BY <1>2, <2>1, SameHandle
  <2> DEFINE w == Some(node)
  <2>4. writing' = [writing EXCEPT ![h] = w] /\ \E other \in Nodes : w = Some(other)
    BY <1>1
  <2> HIDE DEF w
  <2>5. Types' /\ writing' = [g \in Handles |-> IF g = h THEN w ELSE writing[g]]
    BY <1>2, <1>3, <2>1, <2>2, <2>3, <2>4, HandleKeepsTypes
  <2> QED
    BY <2>5 DEF w
<1>5. HandleAlone'
  BY <1>2 DEF JsonlInv, HandleAlone
<1>6. Some(node) # None /\ node \in Some(node)
  BY DEF Some, None
<1>7. CASE ~(Replayable /\ Settled)
  <2>1. ~(faults = 0 /\ ~shared)
    <3>1. SUFFICES ASSUME faults = 0, ~shared PROVE FALSE
      OBVIOUS
    <3>2. \A g \in Handles : writing[g] = None
      BY <1>2, <3>1 DEF JsonlInv, HandleAlone, Types, IsWriting
    <3> QED
      BY <1>7, <3>1, <3>2 DEF JsonlInv, CleanFile
  <2>2. CleanFile'
    BY <1>2, <2>1 DEF CleanFile
  <2> QED
    BY <1>3, <1>4, <1>5, <1>7, <2>2
    DEF JsonlInv, Backed, WritersAlone, HandleCurrent, NoLineTwice
<1>8. CASE Replayable /\ Settled
  <2>1. /\ Replay \in Seq(Nodes) /\ Replay' = Append(Replay, node) /\ acked \in Seq(Nodes)
        /\ \A g \in Handles : memory[g].order \in Seq(Nodes)
    BY <1>3, <1>8, NodesInFacts DEF Replay, JsonlInv, Types, IsMemory
  <2>2. /\ Subsequence(acked, Replay)
        /\ \A g \in Handles : Subsequence(memory[g].order, Replay)
    BY <1>8 DEF JsonlInv, Backed
  <2>3. Backed'
    BY <1>2, <2>1, <2>2, SubsequenceGrows DEF Backed
  <2>4. ~shared => Replay = memory[h].order
    BY <1>2, <1>8 DEF JsonlInv, HandleCurrent, Ready
  <2>5. \A g \in Handles : writing'[g] # None => g = h
    BY <1>4, <1>8 DEF JsonlInv, WritersAlone, InLastLine
  <2>6. InLastLine(h)'
    <3>1. writing'[h] = Some(node) /\ node \in writing'[h]
      BY <1>4, <1>6
    <3>2. \E prior \in Seq(Nodes), added \in writing'[h] :
             /\ Replay' = Append(prior, added)
             /\ Subsequence(memory'[h].order, prior)
             /\ Subsequence(acked', prior)
             /\ ~shared' => prior = memory'[h].order
      BY <1>2, <2>1, <2>2, <2>4, <3>1, Zenon
    <3> QED
      BY <1>3, <2>5, <3>2 DEF InLastLine
  <2>7. WritersAlone'
    BY <2>5, <2>6 DEF WritersAlone
  <2>8. NoLineTwice'
    <3>1. SUFFICES ASSUME ~shared
                   PROVE  \A i, j \in DOMAIN Replay' :
                            Replay'[i].agent_id = Replay'[j].agent_id => i = j
      BY <1>2 DEF NoLineTwice
    <3>2. \A i, j \in DOMAIN Replay : Replay[i].agent_id = Replay[j].agent_id => i = j
      BY <1>8, <3>1 DEF JsonlInv, NoLineTwice
    <3>3. node \in Nodes \ ListedIn(Replay)
      BY <1>1, <2>4, <3>1
    <3> QED
      BY <2>1, <3>2, <3>3, OtherIds
  <2>9. HandleCurrent' /\ CleanFile'
    BY <1>3, <1>4, <1>6, <1>8 DEF HandleCurrent, CleanFile
  <2> QED
    BY <1>4, <1>5, <2>3, <2>7, <2>8, <2>9 DEF JsonlInv
<1> QED
  BY <1>7, <1>8

\* Half a body makes the file unreadable.
LEMMA BodyFailsStep ==
  ASSUME JsonlInv, NEW h \in Handles, BodyFails(h)
  PROVE  JsonlInv'
<1>1. PICK node \in Nodes : WriteBody(node, FALSE)
  BY DEF BodyFails
<1>2. /\ UNCHANGED <<writing, acked, shared>>
      /\ memory' = memory \/ memory' = [memory EXCEPT ![h] = Closed]
      /\ writing[h] = None
      /\ faults' \in 0 .. MaxFaults /\ faults' # 0
  BY JsonlAssumption DEF BodyFails, Fault, history, Ready, JsonlInv, Types
<1>3. file' \in LinesOf(Nodes) /\ file' # << >> /\ ~Replayable'
  <2>1. file \in LinesOf(Nodes) /\ file # << >>
    BY DEF JsonlInv, Types
  <2>2. file' = WithBody(file, Chunk(node, FALSE))
    BY <1>1 DEF WriteBody, WithBody
  <2>3. file' \in LinesOf(Nodes) /\ file' # << >> /\ ~AllParse(file')
    BY <2>1, <2>2, BodyCutShort, Zenon
  <2> QED
    BY <2>3, ReplayFacts
<1>4. PICK m : memory' = [memory EXCEPT ![h] = m] /\ IsMemory(m) /\ (m.up => memory[h].up)
  <2>1. memory = [memory EXCEPT ![h] = memory[h]] /\ IsMemory(memory[h])
    BY SameHandle DEF JsonlInv
  <2>2. IsMemory(Closed) /\ ~Closed.up
    BY ClosedMemory DEF Closed
  <2> QED
    BY <1>2, <2>1, <2>2
<1>5. /\ Types'
      /\ memory' = [g \in Handles |-> IF g = h THEN m ELSE memory[g]]
  <2>1. writing' = [writing EXCEPT ![h] = None]
    BY <1>2, SameHandle DEF JsonlInv
  <2> QED
    BY <1>2, <1>3, <1>4, <2>1, HandleKeepsTypes DEF JsonlInv, Types
<1>6. HandleAlone'
  BY <1>2, <1>4, <1>5 DEF JsonlInv, HandleAlone
<1> QED
  BY <1>2, <1>3, <1>5, <1>6
  DEF JsonlInv, Backed, WritersAlone, HandleCurrent, NoLineTwice, CleanFile

\* What a newline makes of the file, whether append returns or not.
LEMMA Newline ==
  ASSUME JsonlInv, WriteNewline
  PROVE  /\ file' \in LinesOf(Nodes) /\ file' # << >> /\ Settled'
         /\ Replay' = Replay /\ (Replayable' <=> Replayable)
<1>1. file \in LinesOf(Nodes) /\ file' = Append(file, << >>)
  BY DEF JsonlInv, Types, WriteNewline
<1>2. /\ file' \in LinesOf(Nodes) /\ file' # << >> /\ Blank(LastLine(file'))
      /\ NodesIn(file') = NodesIn(file) /\ (AllParse(file') <=> AllParse(file))
  BY <1>1, NewlineWritten
<1> QED
  BY <1>2, ReplayFacts DEF Settled

LEMMA NewlineStep ==
  ASSUME JsonlInv, NEW h \in Handles, AppendNewline(h)
  PROVE  JsonlInv'
<1>1. PICK node \in writing[h] :
        /\ WriteNewline
        /\ Update(h, [memory[h] EXCEPT
                        !.order = Append(@, node),
                        !.head = IF node.status = Promoted THEN Some(node.agent_id)
                                                           ELSE @])
        /\ acked' = Append(acked, node)
  BY DEF AppendNewline
<1>2. /\ writing' = [writing EXCEPT ![h] = None] /\ UNCHANGED <<shared, faults>>
  BY DEF AppendNewline, Unlock
<1>3. /\ node \in Nodes /\ writing[h] = Some(node) /\ memory[h].up
      /\ IsMemory(memory[h]) /\ memory[h].order \in Seq(Nodes) /\ acked \in Seq(Nodes)
  BY <1>1 DEF JsonlInv, Types, IsWriting, IsMemory, Some, None
<1>4. PICK m : /\ memory' = [memory EXCEPT ![h] = m] /\ IsMemory(m)
               /\ m.up /\ m.order = Append(memory[h].order, node)
  <2>1. PICK old : old = memory[h]
    OBVIOUS
  <2>2. old = [up |-> old.up, order |-> old.order, head |-> old.head]
        /\ old.up /\ old.order \in Seq(Nodes) /\ old.head \subseteq Ids(old.order)
    BY <1>3, <2>1, Zenon DEF IsMemory
  <2> DEFINE head == IF node.status = Promoted THEN Some(node.agent_id) ELSE old.head
             m == [up |-> TRUE, order |-> Append(old.order, node), head |-> head]
  <2>3. memory' = [memory EXCEPT ![h] = m]
    <3>1. [old EXCEPT !.order = Append(old.order, node), !.head = head] = m
      <4> DEFINE order == Append(old.order, node)
                 listed == [up |-> old.up, order |-> order, head |-> old.head]
      <4> HIDE DEF head, order
      <4>0. old = [up |-> old.up, order |-> old.order, head |-> old.head]
        BY <2>2
      <4>1. [old EXCEPT !.order = order] = listed
        BY <4>0
      <4>2. [listed EXCEPT !.head = head] = [up |-> old.up, order |-> order, head |-> head]
        OBVIOUS
      <4>3. [old EXCEPT !.order = order, !.head = head]
              = [[old EXCEPT !.order = order] EXCEPT !.head = head]
        BY <4>0
      <4> HIDE DEF listed
      <4>4. [old EXCEPT !.order = order, !.head = head]
              = [up |-> old.up, order |-> order, head |-> head]
        BY <4>1, <4>2, <4>3
      <4>5. old.up = TRUE
        BY <2>2, <1>3, <2>1 DEF IsMemory
      <4> QED
        BY <4>4, <4>5 DEF order
    <3> QED
      BY <1>1, <2>1, <3>1 DEF Update
  <2>4. Append(old.order, node) \in Seq(Nodes) /\ head \subseteq Ids(Append(old.order, node))
    <3> DEFINE n == Len(old.order)
               longer == Append(old.order, node)
    <3>1. /\ n \in Nat /\ DOMAIN old.order = 1 .. n /\ longer \in Seq(Nodes)
          /\ DOMAIN longer = 1 .. n + 1
          /\ longer[n + 1] = node /\ \A i \in 1 .. n : longer[i] = old.order[i]
      BY <1>3, <2>2, AppendProperties, LenProperties
    <3> HIDE DEF n, longer
    <3>2. ListedIn(old.order) \subseteq ListedIn(longer) /\ node \in ListedIn(longer)
      BY <3>1 DEF ListedIn
    <3>3. Ids(old.order) \subseteq Ids(longer) /\ node.agent_id \in Ids(longer)
      BY <3>2 DEF Ids
    <3> QED
      BY <2>2, <3>1, <3>3 DEF Some, longer
  <2> HIDE DEF head
  <2>5. IsMemory(m) /\ m.up /\ m.order = Append(old.order, node)
    BY <2>4 DEF IsMemory
  <2> HIDE DEF m
  <2> QED
    BY <2>1, <2>3, <2>5
<1>5. /\ file' \in LinesOf(Nodes) /\ file' # << >> /\ Settled'
      /\ Replay' = Replay /\ (Replayable' <=> Replayable)
  BY <1>1, Newline
<1>6. acked' \in Seq(Nodes)
  BY <1>1, <1>3, AppendProperties
<1>7. /\ Types'
      /\ memory' = [g \in Handles |-> IF g = h THEN m ELSE memory[g]]
      /\ writing' = [g \in Handles |-> IF g = h THEN None ELSE writing[g]]
  BY <1>2, <1>4, <1>5, <1>6, HandleKeepsTypes DEF JsonlInv, Types
<1>8. HandleAlone'
  BY <1>2, <1>3, <1>4, <1>7 DEF JsonlInv, HandleAlone
<1>9. NoLineTwice' /\ CleanFile'
  BY <1>2, <1>5 DEF JsonlInv, NoLineTwice, CleanFile
<1>10. CASE ~Replayable
  BY <1>5, <1>7, <1>8, <1>9, <1>10 DEF JsonlInv, Backed, WritersAlone, HandleCurrent
<1>11. CASE Replayable
  <2>1. InLastLine(h)
    BY <1>3, <1>11 DEF JsonlInv, WritersAlone, Some, None
  <2>2. PICK prior \in Seq(Nodes) : /\ Replay = Append(prior, node)
                                    /\ Subsequence(memory[h].order, prior)
                                    /\ Subsequence(acked, prior)
                                    /\ ~shared => prior = memory[h].order
    BY <1>3, <2>1 DEF InLastLine, Some
  <2>3. /\ Subsequence(acked', Replay)
        /\ Subsequence(Append(memory[h].order, node), Replay)
    BY <1>1, <1>3, <2>2, SubsequenceGrows
  <2>4. Backed'
    BY <1>4, <1>5, <1>7, <1>11, <2>3 DEF JsonlInv, Backed
  <2>5. WritersAlone'
    BY <1>7, <2>1 DEF WritersAlone, InLastLine
  <2>6. HandleCurrent'
    <3>1. ASSUME ~shared, NEW g \in Handles, memory'[g].up PROVE Replay = memory'[g].order
      <4>1. g = h
        BY <1>2, <1>4, <1>7, <1>8, <3>1 DEF HandleAlone
      <4> QED
        BY <1>4, <1>7, <2>2, <3>1, <4>1
    <3> QED
      BY <1>2, <1>5, <3>1 DEF HandleCurrent, Ready
  <2> QED
    BY <1>7, <1>8, <1>9, <2>4, <2>5, <2>6 DEF JsonlInv
<1> QED
  BY <1>10, <1>11

LEMMA DiesAfterNewlineStep ==
  ASSUME JsonlInv, NEW h \in Handles, DiesAfterNewline(h)
  PROVE  JsonlInv'
<1>1. /\ WriteNewline /\ UNCHANGED <<acked, shared>>
      /\ memory' = [memory EXCEPT ![h] = Closed]
      /\ writing' = [writing EXCEPT ![h] = None] /\ writing[h] # None
      /\ faults' \in 0 .. MaxFaults /\ faults' # 0
  BY JsonlAssumption
  DEF DiesAfterNewline, Fault, history, Update, Unlock, JsonlInv, Types
<1>2. /\ file' \in LinesOf(Nodes) /\ file' # << >> /\ Settled'
      /\ Replay' = Replay /\ (Replayable' <=> Replayable)
  BY <1>1, Newline
<1>3. IsMemory(Closed) /\ ~Closed.up /\ Closed.order = << >>
  BY ClosedMemory DEF Closed
<1>4. /\ Types'
      /\ memory' = [g \in Handles |-> IF g = h THEN Closed ELSE memory[g]]
      /\ writing' = [g \in Handles |-> IF g = h THEN None ELSE writing[g]]
  BY <1>1, <1>2, <1>3, HandleKeepsTypes DEF JsonlInv, Types
<1>5. Backed'
  BY <1>1, <1>2, <1>3, <1>4, EmptySubsequence DEF JsonlInv, Backed
<1>6. WritersAlone'
  BY <1>1, <1>2, <1>4 DEF JsonlInv, WritersAlone, InLastLine
<1>7. HandleAlone'
  BY <1>1, <1>3, <1>4 DEF JsonlInv, HandleAlone
<1>8. HandleCurrent'
  <2>1. memory[h].up
    BY <1>1 DEF JsonlInv, Types, IsWriting
  <2>2. ~shared => \A g \in Handles : ~memory'[g].up
    BY <1>3, <1>4, <2>1 DEF JsonlInv, HandleAlone
  <2> QED
    BY <1>1, <2>2 DEF HandleCurrent, Ready
<1>9. NoLineTwice' /\ CleanFile'
  BY <1>1, <1>2 DEF JsonlInv, NoLineTwice, CleanFile
<1> QED
  BY <1>4, <1>5, <1>6, <1>7, <1>8, <1>9 DEF JsonlInv

-----------------------------------------------------------------------------
(* Theorems. *)

LEMMA JsonlInitInv ==
  ASSUME Init
  PROVE  JsonlInv
<1>1. /\ file = EmptyFile /\ acked = << >> /\ shared = FALSE /\ faults = 0
      /\ memory = [h \in Handles |-> Closed] /\ writing = [h \in Handles |-> None]
  BY DEF Init
<1>2. /\ file \in LinesOf(Nodes) /\ file # << >> /\ Settled
      /\ Replay = << >> /\ Replayable
  BY <1>1, NodesInFacts, ReplayFacts DEF Settled
<1>3. \A h \in Handles : memory[h] = Closed /\ writing[h] = None
  BY <1>1
<1>4. Types
  <2>1. << >> \in Seq(Nodes)
    BY EmptySeq
  <2>2. \A h \in Handles : IsMemory(memory[h]) /\ IsWriting(h)
    BY <1>3, ClosedMemory DEF IsWriting
  <2>3. memory = [h \in Handles |-> memory[h]] /\ writing = [h \in Handles |-> writing[h]]
    BY <1>1
  <2>4. faults \in 0 .. MaxFaults /\ acked \in Seq(Nodes) /\ shared \in BOOLEAN
    <3>1. 0 \in 0 .. MaxFaults
      BY JsonlAssumption
    <3> QED
      BY <1>1, <2>1, <3>1
  <2> QED
    BY <1>2, <2>2, <2>3, <2>4, Zenon DEF Types
<1>5. \A h \in Handles : memory[h].order = << >> /\ ~memory[h].up
  BY <1>3 DEF Closed
<1>6. Backed
  BY <1>1, <1>2, <1>5, EmptySubsequence DEF Backed
<1>7. WritersAlone /\ HandleAlone /\ HandleCurrent
  BY <1>3, <1>5 DEF WritersAlone, HandleAlone, HandleCurrent, Ready
<1>8. NoLineTwice
  BY <1>2 DEF NoLineTwice
<1>9. CleanFile
  BY <1>2 DEF CleanFile
<1> QED
  BY <1>4, <1>6, <1>7, <1>8, <1>9 DEF JsonlInv

LEMMA JsonlNextInv ==
  ASSUME JsonlInv, [Next]_vars
  PROVE  JsonlInv'
<1>1. CASE UNCHANGED vars
  BY <1>1 DEF vars, history, JsonlInv, Types, IsWriting, Backed, WritersAlone,
    InLastLine, HandleAlone, HandleCurrent, NoLineTwice, CleanFile, Settled,
    Replayable, Replay, Ready
<1>2. CASE Next
  <2>1. PICK h \in Handles :
          \/ open(h) \/ AppendBody(h) \/ AppendNewline(h) \/ BodyFails(h)
          \/ NewlineFails(h) \/ DiesAfterNewline(h) \/ set_head(h) \/ Close(h)
    BY <1>2, Zenon DEF Next
  <2> QED
    BY <2>1, OpenStep, BodyStep, NewlineStep, BodyFailsStep, QuietStep,
      DiesAfterNewlineStep
<1> QED
  BY <1>1, <1>2

\* The last line of the file tells what an append may make of it, in every
\* behaviour of the handles.
THEOREM JsonlInvariance == Spec => []JsonlInv
<1>1. Init => JsonlInv
  BY JsonlInitInv
<1>2. JsonlInv /\ [Next]_vars => JsonlInv'
  BY JsonlNextInv
<1> QED
  BY <1>1, <1>2, PTL DEF Spec

\* Every handle has nodes in order, a head among them, and at most one append
\* under way, which only an open handle has.
THEOREM JsonlTypeCorrect == Spec => []TypeOK
<1>1. JsonlInv => TypeOK
  <2> SUFFICES ASSUME JsonlInv PROVE TypeOK
    OBVIOUS
  <2>1. file \in Seq(Seq([node : Nodes, whole : BOOLEAN])) /\ file # << >>
    BY DEF JsonlInv, Types, LinesOf, Chunks
  <2>2. DOMAIN memory = Handles /\ DOMAIN writing = Handles
    BY DEF JsonlInv, Types
  <2>3. ASSUME NEW h \in Handles
        PROVE  /\ memory[h].order \in Seq(Nodes)
               /\ memory[h].head
                    \subseteq {node.agent_id : node \in ListedIn(memory[h].order)}
               /\ writing[h] \subseteq Nodes /\ Cardinality(writing[h]) <= 1
               /\ writing[h] # None => memory[h].up
    <3>1. IsMemory(memory[h]) /\ IsWriting(h)
      BY DEF JsonlInv, Types
    <3>2. /\ memory[h].order \in Seq(Nodes)
          /\ memory[h].head \subseteq {node.agent_id : node \in ListedIn(memory[h].order)}
      BY <3>1 DEF IsMemory, Ids
    <3>3. CASE writing[h] = None
      <4>1. writing[h] = {}
        BY <3>3 DEF None
      <4>2. Cardinality(writing[h]) = 0
        BY <4>1, FS_EmptySet
      <4> QED
        BY <3>2, <3>3, <4>1, <4>2
    <3>4. CASE memory[h].up /\ \E node \in Nodes : writing[h] = Some(node)
      <4>1. PICK node \in Nodes : writing[h] = {node}
        BY <3>4 DEF Some
      <4>2. Cardinality(writing[h]) = 1
        BY <4>1, FS_Singleton
      <4> QED
        BY <3>2, <3>4, <4>1, <4>2
    <3> QED
      BY <3>1, <3>2, <3>3, <3>4 DEF IsWriting
  <2> QED
    BY <2>1, <2>2, <2>3 DEF TypeOK, JsonlInv, Types
<1> QED
  BY <1>1, JsonlInvariance, PTL

\* Whatever append acknowledged is in the file in that order, whenever the
\* file can be opened, whatever failed before and whoever else had it open.
THEOREM AckedStays == Spec => []AckedRecovered
<1>1. JsonlInv => AckedRecovered
  BY DEF JsonlInv, Backed, AckedRecovered
<1> QED
  BY <1>1, JsonlInvariance, PTL

\* append does not repeat a line after a failed append of the same node, as
\* long as two handles were never open at once.
THEOREM NoRetryRepeats == Spec => []NoLineTwice
<1>1. JsonlInv => NoLineTwice
  BY DEF JsonlInv
<1> QED
  BY <1>1, JsonlInvariance, PTL

\* open gives a handle that was alone back what it knew.
THEOREM ReopeningIsIdentity == Spec => []ReopenIsIdentity
<1>1. JsonlInv => ReopenIsIdentity
  <2> SUFFICES ASSUME JsonlInv, faults = 0, ~shared, NEW h \in Handles, Ready(h)
               PROVE  Replayable /\ Replay = memory[h].order
    BY DEF ReopenIsIdentity
  <2>1. \A g \in Handles : writing[g] = None
    BY DEF JsonlInv, Types, IsWriting, HandleAlone, Ready
  <2>2. Replayable /\ Settled
    BY <2>1 DEF JsonlInv, CleanFile
  <2> QED
    BY <2>2 DEF JsonlInv, HandleCurrent
<1> QED
  BY <1>1, JsonlInvariance, PTL

\* A handle never serves a node that is not in the file: append writes before
\* it updates its memory, and no failure comes between the two.
THEOREM MemoryIsBacked == Spec => []MemoryBackedByFile
<1>1. JsonlInv => MemoryBackedByFile
  BY DEF JsonlInv, Backed, MemoryBackedByFile
<1> QED
  BY <1>1, JsonlInvariance, PTL

=============================================================================
