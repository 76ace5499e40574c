---------------------------- MODULE DurableProofs ----------------------------
(***************************************************************************)
(* Theorems about the runner over a file, for every number of tasks,       *)
(* nodes, failures and restarts.                                           *)
(*                                                                         *)
(* A power failure may make a file readable that was not, by taking away   *)
(* what made it unreadable.  So the invariant speaks of every cut of the   *)
(* file that can be read, and not of the file alone: its nodes are a       *)
(* lineage, they begin like the ledger in memory, and at most one is not   *)
(* in it, whose append did not return.  While the process is up and the    *)
(* last line is empty the file, if it can be read, is that ledger; only    *)
(* then can an append add to what can be read.                             *)
(***************************************************************************)
EXTENDS DurableVeh, VehProofs, FileProofs

\* The child of a foreign node.
Adopted(node) ==
  \E parent \in Foreign : /\ node.parent_id = Some(parent.agent_id)
                          /\ node.generation = NextGeneration(parent.generation)

\* Nodes in the order in which their parents come first, unless foreign.
IsLineage(order) ==
  \A i \in DOMAIN order :
    /\ IsAgentNode(order[i]) /\ verify_node(order[i])
    /\ \A j \in DOMAIN order : order[j].agent_id = order[i].agent_id => j = i
    /\ \/ order[i].parent_id = None /\ order[i].generation = 0
       \/ \E j \in 1 .. i - 1 :
            /\ order[i].parent_id = Some(order[j].agent_id)
            /\ order[i].generation = NextGeneration(order[j].generation)
       \/ Adopted(order[i])

\* The first n nodes of the ledger, or one more.
Follows(order, n) ==
  /\ n \in 0 .. Len(insertion_order)
  /\ Len(order) = n \/ Len(order) = n + 1
  /\ \A i \in 1 .. n : order[i] = AllNodes[i]

Readable(order) == IsLineage(order) /\ \E n \in Nat : Follows(order, n)

\* Whatever is left of the file, if it can be read.
HoldsLineages(lines) ==
  \E N :
    /\ lines \in LinesOf(N) /\ lines # << >>
    /\ \A part \in LinesOf(N) :
         IsCut(part, lines) /\ AllParse(part) => Readable(NodesIn(part))

Settled == Blank(LastLine(file))

FileFollows ==
  Replayable =>
    /\ mode # "dark" => Follows(Replay, Len(insertion_order))
    /\ Up /\ Settled => Len(Replay) = Len(insertion_order)

\* A process that is down runs nothing, and each power failure is one of the
\* failures.
ModeOK ==
  /\ mode \in {"up", "down", "dark"}
  /\ faults \in 0 .. MaxFaults /\ losses \in 0 .. faults
  /\ mode = "dark" => losses # faults
  /\ ~Up => task = [t \in Tasks |-> Idle]

DurableInv == Inv /\ HoldsLineages(file) /\ FileFollows /\ ModeOK

-----------------------------------------------------------------------------
(* The ledger is a lineage, and may grow by a sound node. *)

LEMMA LedgerIsLineage == LedgerInv => IsLineage(AllNodes)
<1> SUFFICES ASSUME LedgerInv, NEW i \in DOMAIN AllNodes
             PROVE  /\ IsAgentNode(AllNodes[i]) /\ verify_node(AllNodes[i])
                    /\ \A j \in DOMAIN AllNodes :
                         AllNodes[j].agent_id = AllNodes[i].agent_id => j = i
                    /\ \/ AllNodes[i].parent_id = None /\ AllNodes[i].generation = 0
                       \/ \E j \in 1 .. i - 1 :
                            /\ AllNodes[i].parent_id = Some(AllNodes[j].agent_id)
                            /\ AllNodes[i].generation = NextGeneration(AllNodes[j].generation)
                       \/ Adopted(AllNodes[i])
  BY DEF IsLineage
<1> DEFINE n == Len(insertion_order)
<1>1. /\ n \in Nat /\ DOMAIN AllNodes = 1 .. n /\ DOMAIN insertion_order = 1 .. n
      /\ \A j \in 1 .. n : Position(j) \in Ledger /\ AllNodes[j] = Node(Position(j))
  BY AllNodesFacts
<1>2. \A j \in 1 .. n : AllNodes[j].agent_id = Position(j)
  BY <1>1 DEF LedgerInv, LedgerIndexed
<1>3. IsAgentNode(AllNodes[i]) /\ verify_node(AllNodes[i])
  BY <1>1 DEF LedgerInv, LedgerOK, LedgerIndexed
<1>4. \A j \in DOMAIN AllNodes : AllNodes[j].agent_id = AllNodes[i].agent_id => j = i
  BY <1>1, <1>2 DEF LedgerInv, LedgerIndexed
<1>5. \A j \in 1 .. i - 1 : j \in 1 .. n
  BY <1>1
<1>6. \/ AllNodes[i].parent_id = None /\ AllNodes[i].generation = 0
      \/ \E j \in 1 .. i - 1 :
           /\ AllNodes[i].parent_id = Some(Position(j))
           /\ AllNodes[i].generation = NextGeneration(Node(Position(j)).generation)
      \/ Adopted(AllNodes[i])
  BY <1>1 DEF LedgerInv, LineageAcyclic, Adopted
<1> QED
  BY <1>1, <1>2, <1>3, <1>4, <1>5, <1>6

LEMMA LineageGrows ==
  ASSUME LedgerInv, NEW node, Sound(node), ~Contains(node.agent_id),
         NEW order, order = Append(AllNodes, node)
  PROVE  /\ IsLineage(order) /\ Follows(order, Len(insertion_order))
         /\ Len(order) = Len(insertion_order) + 1
<1> DEFINE n == Len(insertion_order)
           all == AllNodes
<1>1. /\ n \in Nat /\ DOMAIN all = 1 .. n /\ DOMAIN insertion_order = 1 .. n /\ Len(all) = n
      /\ \A j \in 1 .. n : Position(j) \in Ledger /\ all[j] = Node(Position(j))
  BY AllNodesFacts
<1>2. IsLineage(all)
  BY LedgerIsLineage
<1>3. /\ Len(order) = n + 1 /\ DOMAIN order = 1 .. n + 1 /\ order[n + 1] = node
      /\ \A j \in 1 .. n : order[j] = all[j]
  <2> DEFINE S == {all[j] : j \in 1 .. n} \cup {node}
  <2>1. all = [j \in 1 .. n |-> all[j]]
    BY <1>1 DEF AllNodes
  <2> HIDE DEF all
  <2>2. all \in [1 .. n -> S]
    BY <2>1
  <2>3. all \in Seq(S) /\ node \in S
    BY <1>1, <2>2, SeqDef
  <2> HIDE DEF S
  <2>4. order = Append(all, node)
    BY DEF all
  <2> QED
    BY <1>1, <2>3, <2>4, AppendProperties, LenProperties
<1>4. \A j \in 1 .. n : all[j].agent_id \in Ledger /\ all[j].agent_id # node.agent_id
  BY <1>1 DEF LedgerInv, LedgerIndexed, Contains, Ledger
<1>5. \A id \in Ledger : \E j \in 1 .. n : all[j].agent_id = id /\ all[j] = Node(id)
  BY <1>1 DEF LedgerInv, LedgerIndexed
<1> HIDE DEF all, n
<1>6. ASSUME NEW i \in 1 .. n + 1
      PROVE  /\ IsAgentNode(order[i]) /\ verify_node(order[i])
             /\ \A j \in 1 .. n + 1 : order[j].agent_id = order[i].agent_id => j = i
             /\ \/ order[i].parent_id = None /\ order[i].generation = 0
                \/ \E j \in 1 .. i - 1 :
                     /\ order[i].parent_id = Some(order[j].agent_id)
                     /\ order[i].generation = NextGeneration(order[j].generation)
                \/ Adopted(order[i])
  <2>0. \A j \in 1 .. n + 1 : j \in 1 .. n \/ j = n + 1
    BY <1>1
  <2>1. CASE i = n + 1
    <3>1. IsAgentNode(order[i]) /\ verify_node(order[i])
      BY <1>3, <2>1 DEF Sound
    <3>2. \A j \in 1 .. n + 1 : order[j].agent_id = order[i].agent_id => j = i
      BY <1>3, <1>4, <2>0, <2>1
    <3>3. i - 1 = n
      BY <1>1, <2>1
    <3>4. \/ node.parent_id = None /\ node.generation = 0
          \/ \E j \in 1 .. n : /\ node.parent_id = Some(all[j].agent_id)
                               /\ node.generation = NextGeneration(all[j].generation)
          \/ Adopted(node)
      <4>1. CASE node.parent_id = None /\ node.generation = 0
        BY <4>1
      <4>2. ASSUME NEW parent \in Parents, node.parent_id = Some(parent.agent_id),
                   node.generation = NextGeneration(parent.generation)
            PROVE  \/ \E j \in 1 .. n : /\ node.parent_id = Some(all[j].agent_id)
                                       /\ node.generation = NextGeneration(all[j].generation)
                   \/ Adopted(node)
        <5>1. CASE parent \in Foreign
          BY <4>2, <5>1 DEF Adopted
        <5>2. CASE \E id \in Ledger : parent = Node(id)
          BY <1>5, <4>2, <5>2
        <5> QED
          BY <5>1, <5>2 DEF Parents, Ledger
      <4> QED
        BY <4>1, <4>2 DEF Sound, ParentsOf
    <3> QED
      BY <1>3, <2>1, <3>1, <3>2, <3>3, <3>4
  <2>2. CASE i \in 1 .. n
    <3>1. order[i] = all[i] /\ i \in DOMAIN all
      BY <1>1, <1>3, <2>2
    <3>2. IsAgentNode(order[i]) /\ verify_node(order[i])
      BY <1>2, <3>1 DEF IsLineage
    <3>3. \A j \in 1 .. n + 1 : order[j].agent_id = order[i].agent_id => j = i
      <4>1. \A j \in 1 .. n : all[j].agent_id = all[i].agent_id => j = i
        BY <1>1, <1>2, <3>1 DEF IsLineage
      <4> QED
        BY <1>3, <1>4, <2>0, <2>2, <3>1, <4>1
    <3>4. \A j \in 1 .. i - 1 : order[j] = all[j]
      <4>1. \A j \in 1 .. i - 1 : j \in 1 .. n
        BY <1>1, <2>2
      <4> QED
        BY <1>3, <4>1
    <3>5. \/ all[i].parent_id = None /\ all[i].generation = 0
          \/ \E j \in 1 .. i - 1 :
               /\ all[i].parent_id = Some(all[j].agent_id)
               /\ all[i].generation = NextGeneration(all[j].generation)
          \/ Adopted(all[i])
      BY <1>2, <3>1 DEF IsLineage
    <3> QED
      BY <3>1, <3>2, <3>3, <3>4, <3>5
  <2> QED
    BY <2>0, <2>1, <2>2
<1>7. IsLineage(order)
  BY <1>3, <1>6 DEF IsLineage
<1>8. Follows(order, n)
  BY <1>1, <1>3 DEF Follows, n, all
<1> QED
  BY <1>3, <1>7, <1>8 DEF n

-----------------------------------------------------------------------------
(* What becomes of the file. *)

LEMMA ReplayFacts ==
  /\ Replayable <=> AllParse(file)
  /\ Replayable' <=> AllParse(file')
  /\ Replay = NodesIn(file) /\ Replay' = NodesIn(file')
BY DEF Replayable, Replay, AllParse

LEMMA WholeIsReadable ==
  ASSUME NEW lines, HoldsLineages(lines), AllParse(lines)
  PROVE  Readable(NodesIn(lines))
<1>1. PICK N : /\ lines \in LinesOf(N) /\ lines # << >>
               /\ \A part \in LinesOf(N) :
                    IsCut(part, lines) /\ AllParse(part) => Readable(NodesIn(part))
  BY Zenon DEF HoldsLineages
<1>2. IsCut(lines, lines)
  BY <1>1, WholeIsCut
<1> QED
  BY <1>1, <1>2

\* Two sequences of one length that agree.
LEMMA Agree ==
  ASSUME NEW N, NEW order \in Seq(N), LedgerInv,
         Follows(order, Len(insertion_order)), Len(order) = Len(insertion_order)
  PROVE  order = AllNodes
<1> DEFINE n == Len(insertion_order)
           all == AllNodes
<1>1. n \in Nat /\ DOMAIN all = 1 .. n /\ all = [i \in 1 .. n |-> all[i]]
  BY AllNodesFacts DEF AllNodes
<1>2. order = [i \in 1 .. n |-> order[i]]
  BY LenProperties
<1>3. \A i \in 1 .. n : order[i] = all[i]
  BY DEF Follows
<1> HIDE DEF all, n
<1> QED
  BY <1>1, <1>2, <1>3 DEF all

LEMMA SameReplay ==
  ASSUME LedgerInv, HoldsLineages(file), FileFollows, Up, Replayable, Settled
  PROVE  Replay = AllNodes
<1>1. PICK N : file \in LinesOf(N)
  BY Zenon DEF HoldsLineages
<1>2. Replay \in Seq(N)
  BY <1>1, NodesInFacts, ReplayFacts
<1>3. Follows(Replay, Len(insertion_order)) /\ Len(Replay) = Len(insertion_order)
  BY DEF FileFollows, Up
<1> QED
  BY <1>2, <1>3, Agree

\* A body adds one cut, which can be read only if it follows the ledger.
LEMMA BodyHolds ==
  ASSUME LedgerInv, HoldsLineages(file), FileFollows, Up,
         NEW node, Sound(node), ~Contains(node.agent_id), NEW chunk \in Chunks({node}),
         NEW after, after = WithBody(file, chunk)
  PROVE  /\ HoldsLineages(after) /\ ~Blank(LastLine(after))
         /\ AllParse(after) => NodesIn(after) = Append(AllNodes, node)
<1>1. PICK N : /\ file \in LinesOf(N) /\ file # << >>
               /\ \A part \in LinesOf(N) :
                    IsCut(part, file) /\ AllParse(part) => Readable(NodesIn(part))
  BY Zenon DEF HoldsLineages
<1> DEFINE M == N \cup {node}
<1>2. /\ file \in LinesOf(M) /\ chunk \in Chunks(M) /\ chunk.node = node
      /\ after = WithBody(file, chunk)
  <2>1. LinesOf(N) \subseteq LinesOf(M)
    BY LinesMonotonic
  <2>2. chunk \in Chunks(M) /\ chunk.node = node
    BY DEF Chunks
  <2> QED
    BY <1>1, <2>1, <2>2
<1> HIDE DEF M
<1>3. /\ after \in LinesOf(M) /\ after # << >>
      /\ Blank(LastLine(file)) =>
           /\ LastLine(after) = << chunk >>
           /\ NodesIn(after) = Append(NodesIn(file), chunk.node)
      /\ ~Blank(LastLine(after))
      /\ AllParse(after) <=> AllParse(file) /\ Blank(LastLine(file)) /\ chunk.whole
  BY <1>1, <1>2, BodyWritten
<1>4. AllParse(after) => NodesIn(after) = Append(AllNodes, node)
  BY <1>2, <1>3, SameReplay, ReplayFacts DEF Settled
<1>5. AllParse(after) => Readable(NodesIn(after))
  <2>1. Len(insertion_order) \in Nat
    BY AllNodesFacts
  <2> QED
    BY <1>4, <2>1, LineageGrows DEF Readable
<1>6. ASSUME NEW part \in LinesOf(M), IsCut(part, after), AllParse(part)
      PROVE  Readable(NodesIn(part))
  <2>1. part = after \/ IsCut(part, file)
    BY <1>1, <1>2, <1>6, CutOfBody
  <2>2. IsCut(part, file) => part \in LinesOf(N)
    BY <1>1, CutChunks
  <2> QED
    BY <1>1, <1>5, <1>6, <2>1, <2>2
<1>7. HoldsLineages(after)
  BY <1>3, <1>6, Zenon DEF HoldsLineages
<1> QED
  BY <1>3, <1>4, <1>7

LEMMA NewlineHolds ==
  ASSUME NEW lines, HoldsLineages(lines), NEW after, after = Append(lines, << >>)
  PROVE  /\ HoldsLineages(after) /\ Blank(LastLine(after))
         /\ NodesIn(after) = NodesIn(lines) /\ (AllParse(after) <=> AllParse(lines))
<1>1. PICK N : /\ lines \in LinesOf(N) /\ lines # << >>
               /\ \A part \in LinesOf(N) :
                    IsCut(part, lines) /\ AllParse(part) => Readable(NodesIn(part))
  BY Zenon DEF HoldsLineages
<1>2. /\ after \in LinesOf(N) /\ after # << >> /\ Blank(LastLine(after))
      /\ NodesIn(after) = NodesIn(lines) /\ (AllParse(after) <=> AllParse(lines))
  BY <1>1, NewlineWritten
<1>3. ASSUME NEW part \in LinesOf(N), IsCut(part, after), AllParse(part)
      PROVE  Readable(NodesIn(part))
  <2>1. part = after \/ IsCut(part, lines)
    BY <1>1, <1>3, CutOfNewline
  <2>2. AllParse(after) => Readable(NodesIn(after))
    BY <1>2, WholeIsReadable
  <2> QED
    BY <1>1, <1>3, <2>1, <2>2
<1> QED
  BY <1>2, <1>3, Zenon DEF HoldsLineages

\* A power failure leaves nothing that could not have been left before.
LEMMA RemainsHold ==
  ASSUME HoldsLineages(file), NEW left \in Remains
  PROVE  HoldsLineages(left)
<1>1. PICK N : /\ file \in LinesOf(N) /\ file # << >>
               /\ \A part \in LinesOf(N) :
                    IsCut(part, file) /\ AllParse(part) => Readable(NodesIn(part))
  BY Zenon DEF HoldsLineages
<1>2. /\ DOMAIN file = 1 .. Len(file)
      /\ \A i \in 1 .. Len(file) : /\ file[i] \in Seq(Chunks(N)) /\ Len(file[i]) \in Nat
                                   /\ DOMAIN file[i] = 1 .. Len(file[i])
  BY <1>1, LinesFacts, LenProperties
<1>3. PICK i, line :
        /\ i \in 1 .. Len(file) /\ left = Kept(file, i, line)
        /\ \/ \E c \in 0 .. Len(file[i]) : line = SubSeq(file[i], 1, c)
           \/ \E c \in 1 .. Len(file[i]) : line = TornLine(file[i], c)
  <2>1. \/ \E i \in DOMAIN file : \E c \in 0 .. Len(file[i]) :
             left = [SubSeq(file, 1, i) EXCEPT ![i] = SubSeq(file[i], 1, c)]
        \/ \E i \in DOMAIN file : \E c \in DOMAIN file[i] :
             left = [SubSeq(file, 1, i) EXCEPT ![i] =
                       [SubSeq(file[i], 1, c) EXCEPT ![c].whole = FALSE]]
    BY DEF Remains
  <2>2. \/ \E i \in DOMAIN file : \E c \in 0 .. Len(file[i]) :
             left = Kept(file, i, SubSeq(file[i], 1, c))
        \/ \E i \in DOMAIN file : \E c \in DOMAIN file[i] :
             left = Kept(file, i, TornLine(file[i], c))
    BY <2>1, Zenon DEF Kept, TornLine
  <2> QED
    BY <1>2, <2>2, Zenon
<1>4. /\ line \in Seq(Chunks(N))
      /\ \/ Begins(line, file[i])
         \/ \E c \in 1 .. Len(file[i]) : line = TornLine(file[i], c)
  <2>1. ASSUME NEW c \in 0 .. Len(file[i]), line = SubSeq(file[i], 1, c)
        PROVE  line \in Seq(Chunks(N)) /\ Begins(line, file[i])
    <3>1. /\ line \in Seq(Chunks(N)) /\ Len(line) = c
          /\ \A k \in 1 .. c : line[k] = file[i][k]
      BY <1>2, <1>3, <2>1, CutLine
    <3>2. c <= Len(file[i])
      BY <1>2, <1>3
    <3> QED
      BY <3>1, <3>2 DEF Begins
  <2>2. ASSUME NEW c \in 1 .. Len(file[i]), line = TornLine(file[i], c)
        PROVE  line \in Seq(Chunks(N))
    BY <1>2, <1>3, <2>2, TornLineFacts
  <2> QED
    BY <1>3, <2>1, <2>2
<1>5. /\ left \in LinesOf(N) /\ left # << >>
      /\ \A part \in LinesOf(N) : IsCut(part, left) /\ AllParse(part) => IsCut(part, file)
  BY <1>1, <1>3, <1>4, CutOfKept
<1> QED
  BY <1>1, <1>5, Zenon DEF HoldsLineages

-----------------------------------------------------------------------------
(* What becomes of the ledger. *)

\* The nodes that were listed are listed first.
OrderGrows ==
  /\ Len(insertion_order) <= Len(insertion_order')
  /\ \A i \in 1 .. Len(insertion_order) : AllNodes'[i] = AllNodes[i]

\* What followed the ledger still follows it when it has grown.
LEMMA HoldsOverGrowth ==
  ASSUME LedgerInv, Len(insertion_order') \in Nat, OrderGrows, NEW lines, HoldsLineages(lines)
  PROVE  HoldsLineages(lines)'
<1>1. PICK N : /\ lines \in LinesOf(N) /\ lines # << >>
               /\ \A part \in LinesOf(N) :
                    IsCut(part, lines) /\ AllParse(part) => Readable(NodesIn(part))
  BY Zenon DEF HoldsLineages
<1>2. ASSUME NEW order, Readable(order) PROVE Readable(order)'
  <2>1. PICK n \in Nat : Follows(order, n)
    BY <1>2 DEF Readable
  <2>2. Len(insertion_order) \in Nat
    BY AllNodesFacts
  <2>3. \A i \in 1 .. n : i \in 1 .. Len(insertion_order)
    BY <2>1, <2>2 DEF Follows
  <2>4. Follows(order, n)'
    BY <2>1, <2>2, <2>3 DEF Follows, OrderGrows
  <2> QED
    BY <1>2, <2>4 DEF Readable
<1>3. \A part \in LinesOf(N) :
        IsCut(part, lines) /\ AllParse(part) => Readable(NodesIn(part))'
  BY <1>1, <1>2
<1> QED
  BY <1>1, <1>3, Zenon DEF HoldsLineages

\* A step that leaves the nodes and their order alone.
LEMMA SameNodes ==
  ASSUME LedgerInv, UNCHANGED <<nodes, insertion_order>>
  PROVE  /\ OrderGrows /\ AllNodes' = AllNodes /\ Len(insertion_order') \in Nat
         /\ ~Grown /\ \A order, n : Follows(order, n) => Follows(order, n)'
<1>1. AllNodes' = AllNodes /\ insertion_order' = insertion_order
  BY DEF AllNodes
<1>2. Len(insertion_order) \in Nat
  BY AllNodesFacts
<1> QED
  BY <1>1, <1>2 DEF OrderGrows, Grown, Follows

\* What Append makes of a function on 1 .. n.
OnFirst(n, s) == s = [i \in 1 .. n |-> s[i]]

LEMMA AppendIs ==
  ASSUME NEW n \in Nat, NEW s, OnFirst(n, s), NEW t, OnFirst(n + 1, t),
         \A i \in 1 .. n : t[i] = s[i]
  PROVE  t = Append(s, t[n + 1])
<1>0. PICK e : e = t[n + 1]
  OBVIOUS
<1> DEFINE S == {s[i] : i \in 1 .. n} \cup {e}
<1>1. s \in [1 .. n -> S] /\ e \in S
  BY DEF OnFirst
<1>2. n + 1 \in Nat /\ \A i \in 1 .. n + 1 : i \in 1 .. n \/ i = n + 1
  OBVIOUS
<1>3. \A i \in 1 .. n + 1 : t[i] \in S
  BY <1>0, <1>2
<1> HIDE DEF S
<1>4. DOMAIN s = 1 .. n /\ DOMAIN t = 1 .. n + 1 /\ t \in [1 .. n + 1 -> S]
  BY <1>1, <1>3 DEF OnFirst
<1>5. s \in Seq(S) /\ t \in Seq(S)
  <2>1. \A m \in Nat : \A f \in [1 .. m -> S] : f \in Seq(S)
    BY SeqDef, Zenon
  <2> QED
    BY <1>1, <1>2, <1>4, <2>1, Zenon
<1>6. Len(s) = n /\ Len(t) = n + 1
  BY <1>4, SequenceLength
<1>7. /\ Append(s, e) \in Seq(S) /\ Len(Append(s, e)) = n + 1
      /\ \A i \in 1 .. n : Append(s, e)[i] = s[i]
      /\ Append(s, e)[n + 1] = e
  BY <1>1, <1>5, <1>6, AppendProperties
<1>8. \A i \in 1 .. n + 1 : t[i] = Append(s, e)[i]
  <2>1. \A i \in 1 .. n + 1 : i \in 1 .. n \/ i = n + 1
    OBVIOUS
  <2> QED
    BY <1>0, <1>7, <2>1
<1> QED
  BY <1>0, <1>5, <1>6, <1>7, <1>8, SeqEqual

\* An insertion adds the node at the end.
LEMMA InsertGrowsOrder ==
  ASSUME LedgerInv, NEW node, ~Contains(node.agent_id), Insert(node)
  PROVE  /\ OrderGrows /\ Grown /\ Len(insertion_order') = Len(insertion_order) + 1
         /\ Len(insertion_order) \in Nat
         /\ nodes'[Newest(insertion_order')] = node
         /\ AllNodes' = Append(AllNodes, node)
<1> DEFINE n == Len(insertion_order)
<1>1. /\ Node(node.agent_id)' = node
      /\ \A id \in Ledger : Node(id)' = Node(id)
      /\ n \in Nat
      /\ (DOMAIN insertion_order)' = 1 .. n + 1
      /\ insertion_order' \in Seq(Ledger')
      /\ \A i \in 1 .. n : Position(i) \in Ledger /\ Position(i)' = Position(i)
      /\ insertion_order'[n + 1] = node.agent_id
  BY InsertFacts
<1>2. Len(insertion_order') = n + 1
  <2>1. Len(insertion_order') \in Nat /\ 1 .. Len(insertion_order') = 1 .. n + 1
    BY <1>1, LenProperties
  <2> QED
    BY <1>1, <2>1
<1>3. nodes'[Newest(insertion_order')] = node
  BY <1>1, <1>2 DEF Newest, Node
<1>4. /\ DOMAIN AllNodes = 1 .. n /\ Len(AllNodes) = n
      /\ \A i \in 1 .. n : AllNodes[i] = Node(Position(i))
  BY AllNodesFacts
<1>5. \A i \in 1 .. n : i \in 1 .. n + 1 /\ i # n + 1
  BY <1>1
<1>6. /\ AllNodes' = [i \in 1 .. n + 1 |-> nodes'[insertion_order'[i]]]
      /\ \A i \in 1 .. n : AllNodes'[i] = AllNodes[i]
      /\ AllNodes'[n + 1] = node
  <2>1. AllNodes' = [i \in 1 .. n + 1 |-> nodes'[insertion_order'[i]]]
    BY <1>1 DEF AllNodes
  <2>2. n + 1 \in 1 .. n + 1
    BY <1>1
  <2>3. \A i \in 1 .. n : nodes'[insertion_order'[i]] = AllNodes[i]
    BY <1>1, <1>4 DEF Node, Position
  <2> QED
    BY <1>1, <1>5, <2>1, <2>2, <2>3 DEF Node
<1>7. AllNodes' = Append(AllNodes, node)
  <2>1. PICK s : s = AllNodes
    OBVIOUS
  <2>2. PICK t : t = AllNodes'
    OBVIOUS
  <2>3. PICK m : m = n
    OBVIOUS
  <2>4. m \in Nat
    BY <1>1, <2>3
  <2>5. OnFirst(m, s)
    BY <1>4, <2>1, <2>3 DEF AllNodes, OnFirst
  <2>6. OnFirst(m + 1, t)
    BY <1>6, <2>2, <2>3 DEF OnFirst
  <2>7. \A i \in 1 .. m : t[i] = s[i]
    BY <1>6, <2>1, <2>2, <2>3
  <2>8. t = Append(s, t[m + 1])
    BY <2>4, <2>5, <2>6, <2>7, AppendIs
  <2> QED
    BY <1>6, <2>1, <2>2, <2>3, <2>8
<1>8. OrderGrows
  <2>1. Len(insertion_order) <= Len(insertion_order')
    BY <1>1, <1>2
  <2> QED
    BY <1>6, <2>1 DEF OrderGrows
<1>9. Grown
  BY <1>1, <1>2 DEF Grown
<1> QED
  BY <1>1, <1>2, <1>3, <1>7, <1>8, <1>9

-----------------------------------------------------------------------------
(* Appends that return, and those that do not. *)

\* The nodes a task may be about to write.
LEMMA WritesSound ==
  ASSUME Inv, NEW t \in Tasks, NEW node \in Writes(t)
  PROVE  Sound(node) /\ ~Contains(node.agent_id)
<1>1. node \in NextNodes(t) /\ ~Contains(node.agent_id)
  BY DEF Writes
<1>2. IsTask(task[t])
  BY DEF Inv, TasksOK
<1>3. CASE At(t, "idle")
  <2>1. node \in Roots
    BY <1>1, <1>3 DEF NextNodes, At
  <2> QED
    BY <1>1, <2>1, RootSound DEF Roots
<1>4. CASE At(t, "evaluating")
  <2>1. node \in CycleNodes(task[t].inputs)
    BY <1>1, <1>4 DEF NextNodes, At
  <2>2. \E score \in Scores, status \in NodeStatus :
          node = CycleNode(task[t].inputs, score, status)
    BY <2>1 DEF CycleNodes, NodeStatus
  <2>3. IsCycleInputs(task[t].inputs)
    BY <1>4, AtStep
  <2> QED
    BY <1>1, <2>2, <2>3, CycleSound DEF Inv
<1>5. CASE At(t, "awaiting")
  <2>1. \E key \in ApprovalKeys : node = ApprovedNode(task[t].pending, key)
    BY <1>1, <1>5 DEF NextNodes, At
  <2>2. IsPending(task[t].pending)
    BY <1>5, AtStep
  <2> QED
    BY <1>1, <2>1, <2>2, ApprovedSound DEF Inv
<1>6. CASE At(t, "rolling back")
  <2>1. node = RollbackNode(task[t])
    BY <1>1, <1>6 DEF NextNodes, At
  <2>2. IsRollback(task[t])
    BY <1>6, AtStep
  <2> QED
    BY <1>1, <2>1, <2>2, RollbackSound DEF Inv
<1>7. CASE At(t, "reverting")
  BY <1>1, <1>7 DEF NextNodes, At
<1>8. task[t] = Idle => At(t, "idle")
  BY DEF At, Idle
<1> QED
  BY <1>2, <1>3, <1>4, <1>5, <1>6, <1>7, <1>8 DEF IsTask, At

\* A line that is written adds one node to what can be read.
LEMMA LineHolds ==
  ASSUME LedgerInv, HoldsLineages(file), FileFollows, Up,
         NEW node, Sound(node), ~Contains(node.agent_id),
         NEW after, after = Append(WithBody(file, Chunk(node, TRUE)), << >>)
  PROVE  /\ HoldsLineages(after)
         /\ AllParse(after) => NodesIn(after) = Append(AllNodes, node)
<1>1. Chunk(node, TRUE) \in Chunks({node})
  BY DEF Chunk, Chunks
<1>2. PICK body : body = WithBody(file, Chunk(node, TRUE))
  OBVIOUS
<1>3. /\ HoldsLineages(body)
      /\ AllParse(body) => NodesIn(body) = Append(AllNodes, node)
  BY <1>1, <1>2, BodyHolds
<1> QED
  BY <1>2, <1>3, NewlineHolds

\* What is left by an append that did not return follows the ledger.
LEMMA UnreturnedHolds ==
  ASSUME LedgerInv, NEW node, Sound(node), ~Contains(node.agent_id),
         UNCHANGED ledger, NEW after, after = file', HoldsLineages(after),
         AllParse(after) => NodesIn(after) = Append(AllNodes, node)
  PROVE  HoldsLineages(file)' /\ (Replayable' => Follows(Replay, Len(insertion_order))')
<1>1. /\ OrderGrows /\ Len(insertion_order') \in Nat
      /\ \A order, n : Follows(order, n) => Follows(order, n)'
      /\ insertion_order' = insertion_order
  BY SameNodes DEF ledger
<1>2. HoldsLineages(after)'
  BY <1>1, HoldsOverGrowth
<1>3. Replayable' => Follows(Replay', Len(insertion_order))
  BY LineageGrows, ReplayFacts
<1> QED
  BY <1>1, <1>2, <1>3

-----------------------------------------------------------------------------
(* The steps of a process that is up. *)

\* The step of a task, with what it writes.
LEMMA RunsKeepsInv ==
  ASSUME DurableInv, NEW t \in Tasks, Runs(t)
  PROVE  DurableInv'
<1>1. Step(t) /\ Up /\ WritesAppended /\ UNCHANGED <<mode, faults, losses>>
  BY DEF Runs
<1>2. Inv /\ LedgerInv /\ HoldsLineages(file) /\ FileFollows /\ ModeOK
  BY DEF DurableInv, Inv
<1>3. Inv'
  BY <1>1, <1>2, NextInv DEF Next
<1>4. ModeOK'
  BY <1>1, <1>2 DEF ModeOK, Up
<1>5. ASSUME UNCHANGED <<nodes, insertion_order>>
      PROVE  HoldsLineages(file)' /\ FileFollows'
  <2>1. /\ OrderGrows /\ Len(insertion_order') \in Nat /\ ~Grown
        /\ \A order, n : Follows(order, n) => Follows(order, n)'
        /\ insertion_order' = insertion_order
    BY <1>2, <1>5, SameNodes
  <2>2. file' = file
    BY <1>1, <2>1 DEF WritesAppended
  <2>3. PICK after : after = file
    OBVIOUS
  <2>4. HoldsLineages(after)'
    BY <1>2, <2>1, <2>3, HoldsOverGrowth
  <2>5. FileFollows'
    <3>1. Replay' = Replay /\ (Replayable' <=> Replayable) /\ (Settled' <=> Settled)
      BY <2>2 DEF Replay, Replayable, Settled
    <3> QED
      BY <1>1, <1>2, <2>1, <3>1 DEF FileFollows, Up
  <2> QED
    BY <2>2, <2>3, <2>4, <2>5
<1>6. ASSUME NEW node, Sound(node), ~Contains(node.agent_id), Insert(node)
      PROVE  HoldsLineages(file)' /\ FileFollows'
  <2>1. /\ OrderGrows /\ Grown /\ Len(insertion_order') = Len(insertion_order) + 1
        /\ Len(insertion_order) \in Nat
        /\ nodes'[Newest(insertion_order')] = node
        /\ AllNodes' = Append(AllNodes, node)
    BY <1>2, <1>6, InsertGrowsOrder
  <2>2. PICK after : after = file'
    OBVIOUS
  <2>3. after = Append(WithBody(file, Chunk(node, TRUE)), << >>)
    BY <1>1, <2>1, <2>2 DEF WritesAppended, WriteLine, WithBody
  <2>4. /\ HoldsLineages(after)
        /\ AllParse(after) => NodesIn(after) = Append(AllNodes, node)
    BY <1>1, <1>2, <1>6, <2>3, LineHolds
  <2>5. HoldsLineages(after)'
    BY <1>2, <2>1, <2>4, HoldsOverGrowth
  <2>6. Replayable' => Replay' = AllNodes'
    BY <2>1, <2>2, <2>4, ReplayFacts
  <2>7. PICK order : order = AllNodes'
    OBVIOUS
  <2>8. Len(order) = Len(insertion_order')
    BY <1>2, <1>6, <2>1, <2>7, LineageGrows
  <2>9. \A i \in 1 .. Len(insertion_order') : order[i] = AllNodes'[i]
    BY <2>7
  <2>10. Follows(order, Len(insertion_order))'
    <3>1. Len(insertion_order') \in 0 .. Len(insertion_order')
      BY <2>1
    <3> QED
      BY <2>8, <2>9, <3>1, Zenon DEF Follows
  <2>11. FileFollows'
    BY <2>6, <2>7, <2>8, <2>10 DEF FileFollows
  <2> QED
    BY <2>2, <2>5, <2>11
<1>7. HoldsLineages(file)' /\ FileFollows'
  <2>1. CASE UNCHANGED ledger
    BY <1>5, <2>1 DEF ledger
  <2>2. ASSUME NEW node, Sound(node), append(node)
        PROVE  HoldsLineages(file)' /\ FileFollows'
    BY <1>5, <1>6, <2>2 DEF append, ledger
  <2>3. CASE \E id \in Ledger : IsPromoted(id) /\ set_head(id)
    BY <1>5, <2>3 DEF set_head
  <2> QED
    BY <1>1, <1>2, <2>1, <2>2, <2>3, StepOnLedger
<1> QED
  BY <1>3, <1>4, <1>7 DEF DurableInv

\* A write that fails: the operation ends with it.
LEMMA AppendFailsKeepsInv ==
  ASSUME DurableInv, NEW t \in Tasks, AppendFails(t)
  PROVE  DurableInv'
<1>1. PICK node \in Writes(t), whole \in BOOLEAN : WriteBody(node, whole)
  BY DEF AppendFails
<1>2. /\ Up /\ Finish(t) /\ UNCHANGED <<ledger, mode, losses>>
      /\ faults < MaxFaults /\ faults' = faults + 1
  BY DEF AppendFails, Fault
<1>3. Inv /\ LedgerInv /\ HoldsLineages(file) /\ FileFollows /\ ModeOK
  BY DEF DurableInv, Inv
<1>4. Sound(node) /\ ~Contains(node.agent_id)
  BY <1>1, <1>3, WritesSound
<1>5. PICK after : after = file'
  OBVIOUS
<1>6. Chunk(node, whole) \in Chunks({node}) /\ after = WithBody(file, Chunk(node, whole))
  BY <1>1, <1>5 DEF Chunk, Chunks, WriteBody, WithBody
<1>7. /\ HoldsLineages(after) /\ ~Blank(LastLine(after))
      /\ AllParse(after) => NodesIn(after) = Append(AllNodes, node)
  BY <1>2, <1>3, <1>4, <1>6, BodyHolds
<1>8. HoldsLineages(file)' /\ (Replayable' => Follows(Replay, Len(insertion_order))')
  BY <1>2, <1>3, <1>4, <1>5, <1>7, UnreturnedHolds
<1>9. ~Settled'
  BY <1>5, <1>7 DEF Settled
<1>10. FileFollows'
  BY <1>8, <1>9 DEF FileFollows
<1>11. Inv'
  <2>1. IsTask(Idle)
    BY DEF IsTask
  <2> QED
    BY <1>2, <1>3, <2>1, BecomesOnly DEF Finish
<1>12. ModeOK'
  BY <1>2, <1>3, DurableAssumption DEF ModeOK, Up
<1> QED
  BY <1>8, <1>10, <1>11, <1>12 DEF DurableInv

-----------------------------------------------------------------------------
(* The ends of a process. *)

LEMMA GoneKeepsInv ==
  ASSUME Inv, UNCHANGED ledger, Gone
  PROVE  Inv' /\ task' = [t \in Tasks |-> Idle]
<1>1. LedgerInv'
  BY UnchangedKeepsLedger DEF Inv
<1>2. task' = [t \in Tasks |-> Idle]
  BY DEF Gone
<1>3. TasksOK'
  <2>1. \A t \in Tasks : task'[t] = Idle
    BY <1>2
  <2>2. task' = [t \in Tasks |-> task'[t]]
    BY <1>2
  <2> QED
    BY <2>1, <2>2 DEF TasksOK, IsTask
<1> QED
  BY <1>1, <1>2, <1>3 DEF Inv

\* The file as a dying process leaves it.
LEMMA DyingHolds ==
  ASSUME DurableInv, Up, DyingWrites, UNCHANGED ledger
  PROVE  HoldsLineages(file)' /\ (Replayable' => Follows(Replay, Len(insertion_order))')
<1>1. Inv /\ LedgerInv /\ HoldsLineages(file) /\ FileFollows
  BY DEF DurableInv, Inv
<1>2. CASE UNCHANGED file
  <2>1. /\ OrderGrows /\ Len(insertion_order') \in Nat
        /\ \A order, n : Follows(order, n) => Follows(order, n)'
        /\ insertion_order' = insertion_order
    BY <1>1, SameNodes DEF ledger
  <2>2. PICK after : after = file
    OBVIOUS
  <2>3. HoldsLineages(after)'
    BY <1>1, <2>1, <2>2, HoldsOverGrowth
  <2>4. Replay' = Replay /\ (Replayable' <=> Replayable)
    BY <1>2 DEF Replay, Replayable
  <2>5. Replayable' => Follows(Replay, Len(insertion_order))
    BY <1>1, <2>4 DEF FileFollows, Up
  <2> QED
    BY <1>2, <2>1, <2>2, <2>3, <2>4, <2>5
<1>3. ASSUME NEW t \in Tasks, NEW node \in Writes(t),
             (\E whole \in BOOLEAN : WriteBody(node, whole)) \/ WriteLine(node)
      PROVE  HoldsLineages(file)' /\ (Replayable' => Follows(Replay, Len(insertion_order))')
  <2>1. Sound(node) /\ ~Contains(node.agent_id)
    BY <1>1, WritesSound
  <2>2. PICK after : after = file'
    OBVIOUS
  <2>3. ASSUME NEW whole \in BOOLEAN, WriteBody(node, whole)
        PROVE  /\ HoldsLineages(after)
               /\ AllParse(after) => NodesIn(after) = Append(AllNodes, node)
    <3>1. Chunk(node, whole) \in Chunks({node}) /\ after = WithBody(file, Chunk(node, whole))
      BY <2>2, <2>3 DEF Chunk, Chunks, WriteBody, WithBody
    <3> QED
      BY <1>1, <2>1, <3>1, BodyHolds
  <2>4. ASSUME WriteLine(node)
        PROVE  /\ HoldsLineages(after)
               /\ AllParse(after) => NodesIn(after) = Append(AllNodes, node)
    <3>1. after = Append(WithBody(file, Chunk(node, TRUE)), << >>)
      BY <2>2, <2>4 DEF WriteLine, WithBody
    <3> QED
      BY <1>1, <2>1, <3>1, LineHolds
  <2>5. /\ HoldsLineages(after)
        /\ AllParse(after) => NodesIn(after) = Append(AllNodes, node)
    BY <1>3, <2>3, <2>4
  <2> QED
    BY <1>1, <2>1, <2>2, <2>5, UnreturnedHolds
<1> QED
  BY <1>2, <1>3, Zenon DEF DyingWrites

LEMMA DiesKeepsInv ==
  ASSUME DurableInv, Dies
  PROVE  DurableInv'
<1>1. /\ Up /\ DyingWrites /\ mode' = "down" /\ Gone /\ UNCHANGED <<ledger, losses>>
      /\ faults < MaxFaults /\ faults' = faults + 1
  BY DEF Dies, Fault
<1>2. Inv /\ ModeOK
  BY DEF DurableInv
<1>3. Inv' /\ task' = [t \in Tasks |-> Idle]
  BY <1>1, <1>2, GoneKeepsInv
<1>4. HoldsLineages(file)' /\ (Replayable' => Follows(Replay, Len(insertion_order))')
  BY <1>1, DyingHolds
<1>5. FileFollows'
  BY <1>1, <1>4 DEF FileFollows, Up
<1>6. ModeOK'
  BY <1>1, <1>2, <1>3, DurableAssumption DEF ModeOK
<1> QED
  BY <1>3, <1>4, <1>5, <1>6 DEF DurableInv

LEMMA PowerFailsKeepsInv ==
  ASSUME DurableInv, PowerFails
  PROVE  DurableInv'
<1>1. /\ file' \in Remains /\ mode' = "dark" /\ Gone /\ UNCHANGED <<ledger, losses>>
      /\ faults < MaxFaults /\ faults' = faults + 1
  BY DEF PowerFails, Fault
<1>2. Inv /\ LedgerInv /\ HoldsLineages(file) /\ ModeOK
  BY DEF DurableInv, Inv
<1>3. Inv' /\ task' = [t \in Tasks |-> Idle]
  BY <1>1, <1>2, GoneKeepsInv
<1>4. PICK after : after = file'
  OBVIOUS
<1>5. HoldsLineages(after)
  BY <1>1, <1>2, <1>4, RemainsHold
<1>6. HoldsLineages(after)'
  <2>1. OrderGrows /\ Len(insertion_order') \in Nat
    BY <1>1, <1>2, SameNodes DEF ledger
  <2> QED
    BY <1>2, <1>5, <2>1, HoldsOverGrowth
<1>7. FileFollows'
  BY <1>1 DEF FileFollows, Up
<1>8. ModeOK'
  BY <1>1, <1>2, <1>3, DurableAssumption DEF ModeOK
<1> QED
  BY <1>3, <1>4, <1>6, <1>7, <1>8 DEF DurableInv

-----------------------------------------------------------------------------
(* A new process. *)

LEMMA LastPromotedFacts ==
  ASSUME NEW order, NEW n \in Nat, DOMAIN order = 1 .. n
  PROVE  \/ /\ LastPromoted(order) = {}
            /\ \A i \in 1 .. n : order[i].status # Promoted
         \/ \E k \in 1 .. n :
              /\ LastPromoted(order) = {order[k].agent_id}
              /\ order[k].status = Promoted
              /\ \A i \in 1 .. n : order[i].status = Promoted => i <= k
<1> DEFINE promoted == {i \in 1 .. n : order[i].status = Promoted}
           last == {j \in DOMAIN order : /\ order[j].status = Promoted
                                         /\ \A k \in DOMAIN order :
                                              j < k => order[k].status # Promoted}
<1>1. LastPromoted(order) = {order[i].agent_id : i \in last}
  BY DEF LastPromoted
<1>2. CASE promoted = {}
  BY <1>1, <1>2
<1>3. CASE promoted # {}
  <2>1. promoted \in SUBSET (0 .. n)
    OBVIOUS
  <2>2. PICK k \in promoted : \A i \in promoted : i <= k
    BY <1>3, <2>1, GreatestNumber
  <2>3. last = {k}
    BY <2>2
  <2>4. LastPromoted(order) = {order[k].agent_id}
    BY <1>1, <2>3
  <2> QED
    BY <2>2, <2>4
<1> QED
  BY <1>2, <1>3

\* What the new process has read.
Opened(order, n) ==
  /\ n \in Nat /\ DOMAIN order = 1 .. n /\ IsLineage(order)
  /\ insertion_order' = [i \in 1 .. n |-> order[i].agent_id]
  /\ Ledger' = {order[i].agent_id : i \in 1 .. n}
  /\ \A i \in 1 .. n : nodes'[order[i].agent_id] = order[i]
  /\ head' = LastPromoted(order)

LEMMA OpenReads ==
  ASSUME HoldsLineages(file), open, Replayable, NEW order, order = Replay
  PROVE  Opened(order, Len(order))
<1> DEFINE n == Len(order)
<1>1. PICK N : file \in LinesOf(N)
  BY Zenon DEF HoldsLineages
<1>2. n \in Nat /\ DOMAIN order = 1 .. n
  BY <1>1, NodesInFacts, ReplayFacts, LenProperties
<1>3. IsLineage(order)
  BY WholeIsReadable, ReplayFacts DEF Readable
<1>4. /\ insertion_order' = [i \in 1 .. n |-> order[i].agent_id]
      /\ nodes' = [id \in {node.agent_id : node \in {order[i] : i \in 1 .. n}} |-> Replayed(id)]
      /\ head' = LastPromoted(order)
  BY <1>2 DEF open
<1>5. Ledger' = {order[i].agent_id : i \in 1 .. n}
  BY <1>4 DEF Ledger
<1>6. ASSUME NEW i \in 1 .. n PROVE Replayed(order[i].agent_id) = order[i]
  <2> DEFINE id == order[i].agent_id
             Latest(j) == /\ order[j].agent_id = id
                          /\ \A k \in 1 .. n : order[k].agent_id = id => k <= j
  <2>1. \A j \in 1 .. n : order[j].agent_id = id => j = i
    BY <1>2, <1>3 DEF IsLineage
  <2>2. Latest(i) /\ \A j \in 1 .. n : Latest(j) => j = i
    BY <2>1
  <2>3. (CHOOSE j \in 1 .. n : Latest(j)) = i
    <3> HIDE DEF Latest
    <3> QED
      BY <2>2
  <2>4. Replayed(id) = order[CHOOSE j \in 1 .. n : Latest(j)]
    BY <1>2 DEF Replayed
  <2> QED
    BY <2>3, <2>4
<1>7. \A i \in 1 .. n : nodes'[order[i].agent_id] = order[i]
  BY <1>4, <1>6
<1> QED
  BY <1>2, <1>3, <1>4, <1>5, <1>7 DEF Opened

\* A lineage that is read makes a ledger.
LEMMA OpenedLedger ==
  ASSUME NEW order, NEW n, Opened(order, n)
  PROVE  /\ LedgerInv'
         /\ Len(insertion_order') = n
         /\ \A i \in 1 .. n : AllNodes'[i] = order[i]
<1>1. /\ n \in Nat /\ DOMAIN order = 1 .. n /\ IsLineage(order)
      /\ insertion_order' = [i \in 1 .. n |-> order[i].agent_id]
      /\ Ledger' = {order[i].agent_id : i \in 1 .. n}
      /\ \A i \in 1 .. n : nodes'[order[i].agent_id] = order[i]
      /\ head' = LastPromoted(order)
  BY DEF Opened
<1>2. /\ DOMAIN insertion_order' = 1 .. n
      /\ \A i \in 1 .. n : /\ insertion_order'[i] = order[i].agent_id
                            /\ nodes'[insertion_order'[i]] = order[i]
  BY <1>1
<1>3. \A i \in 1 .. n :
        /\ IsAgentNode(order[i]) /\ verify_node(order[i])
        /\ \A j \in 1 .. n : order[j].agent_id = order[i].agent_id => j = i
        /\ \/ order[i].parent_id = None /\ order[i].generation = 0
           \/ \E j \in 1 .. i - 1 :
                /\ order[i].parent_id = Some(order[j].agent_id)
                /\ order[i].generation = NextGeneration(order[j].generation)
           \/ Adopted(order[i])
  BY <1>1 DEF IsLineage
<1>4. insertion_order' \in Seq(Ledger') /\ Len(insertion_order') = n
  <2>1. PICK ids : ids = insertion_order'
    OBVIOUS
  <2>2. PICK S : S = Ledger'
    OBVIOUS
  <2>3. ids \in [1 .. n -> S]
    BY <1>1, <2>1, <2>2
  <2>4. ids \in Seq(S)
    BY <1>1, <2>3, SeqDef
  <2>5. Len(ids) \in Nat /\ 1 .. Len(ids) = 1 .. n
    BY <2>3, <2>4, LenProperties
  <2>6. Len(ids) = n
    BY <1>1, <2>5
  <2> QED
    BY <2>1, <2>2, <2>4, <2>6
<1>5. \/ head' = {} /\ \A i \in 1 .. n : order[i].status # Promoted
      \/ \E k \in 1 .. n : head' = {order[k].agent_id} /\ order[k].status = Promoted
  BY <1>1, LastPromotedFacts
<1>6. LedgerOK'
  <2>1. \A id \in Ledger' : IsAgentNode(nodes'[id])
    BY <1>1, <1>3
  <2>2. head' \in {{}} \cup {{x} : x \in Ledger'}
    BY <1>1, <1>5
  <2> QED
    BY <1>4, <2>1, <2>2 DEF LedgerOK, Node, Option, None, Some, IsAgentNode, capability_sbom
<1>7. LedgerIndexed'
  <2>1. \A id \in Ledger' : nodes'[id].agent_id = id /\ verify_node(nodes'[id])
    BY <1>1, <1>3
  <2>2. \A id \in Ledger' : \E i \in DOMAIN insertion_order' : insertion_order'[i] = id
    BY <1>1, <1>2
  <2>3. \A i, j \in DOMAIN insertion_order' : insertion_order'[i] = insertion_order'[j] => i = j
    BY <1>2, <1>3
  <2> QED
    BY <2>1, <2>2, <2>3 DEF LedgerIndexed, Node, Position, verify_node
<1>8. HeadPromoted'
  <2>1. head' = {} => \A id \in Ledger' : nodes'[id].status # Promoted
    BY <1>1, <1>5
  <2>2. \A id \in head' : id \in Ledger' /\ nodes'[id].status = Promoted
    BY <1>1, <1>5
  <2> QED
    BY <2>1, <2>2 DEF HeadPromoted, IsPromoted, Node, None
<1>9. LineageAcyclic'
  <2>1. ASSUME NEW i \in 1 .. n
        PROVE  \/ /\ nodes'[insertion_order'[i]].parent_id = None
                  /\ nodes'[insertion_order'[i]].generation = 0
               \/ \E j \in 1 .. i - 1 :
                    /\ nodes'[insertion_order'[i]].parent_id = Some(insertion_order'[j])
                    /\ nodes'[insertion_order'[i]].generation =
                         NextGeneration(nodes'[insertion_order'[j]].generation)
               \/ Adopted(nodes'[insertion_order'[i]])
    <3>1. \A j \in 1 .. i - 1 : j \in 1 .. n
      BY <1>1
    <3>2. nodes'[insertion_order'[i]] = order[i]
      BY <1>2
    <3>3. \A j \in 1 .. i - 1 : /\ insertion_order'[j] = order[j].agent_id
                                /\ nodes'[insertion_order'[j]] = order[j]
      BY <1>2, <3>1
    <3>4. \/ order[i].parent_id = None /\ order[i].generation = 0
          \/ \E j \in 1 .. i - 1 :
                /\ order[i].parent_id = Some(order[j].agent_id)
                /\ order[i].generation = NextGeneration(order[j].generation)
          \/ Adopted(order[i])
      BY <1>3
    <3> QED
      BY <3>2, <3>3, <3>4, Zenon
  <2> QED
    BY <1>2, <2>1 DEF LineageAcyclic, Node, Position, NextGeneration, Adopted
<1>10. \A i \in 1 .. n : AllNodes'[i] = order[i]
  BY <1>1, <1>2 DEF AllNodes
<1> QED
  BY <1>4, <1>6, <1>7, <1>8, <1>9, <1>10 DEF LedgerInv

LEMMA OpenKeepsInv ==
  ASSUME DurableInv, open
  PROVE  DurableInv'
<1>1. Inv /\ TasksOK /\ HoldsLineages(file) /\ FileFollows /\ ModeOK
  BY DEF DurableInv, Inv
<1>2. ~Up /\ UNCHANGED <<file, faults, task>>
  BY DEF open
<1>3. CASE ~Replayable
  <2>1. UNCHANGED <<ledger, mode, losses>> /\ UNCHANGED vars
    BY <1>2, <1>3 DEF open, ledger, vars
  <2>2. Inv'
    BY <1>1, <2>1, NextInv
  <2>3. ModeOK'
    BY <1>1, <1>2, <2>1 DEF ModeOK, Up
  <2>4. FileFollows'
    BY <1>2, <1>3 DEF FileFollows, Replayable
  <2>5. HoldsLineages(file)'
    <3>1. OrderGrows /\ Len(insertion_order') \in Nat
      BY <1>1, <2>1, SameNodes DEF ledger, Inv
    <3>2. PICK after : after = file
      OBVIOUS
    <3>3. HoldsLineages(after)'
      BY <1>1, <3>1, <3>2, HoldsOverGrowth DEF Inv
    <3> QED
      BY <1>2, <3>2, <3>3
  <2> QED
    BY <2>2, <2>3, <2>4, <2>5 DEF DurableInv
<1>4. CASE Replayable
  <2>1. PICK order : order = Replay
    OBVIOUS
  <2> DEFINE n == Len(order)
  <2>2. Opened(order, n)
    BY <1>1, <1>4, <2>1, OpenReads
  <2>3. /\ LedgerInv' /\ Len(insertion_order') = n
        /\ \A i \in 1 .. n : AllNodes'[i] = order[i]
    BY <2>2, OpenedLedger
  <2>4. n \in Nat /\ IsLineage(order)
    BY <2>2 DEF Opened
  <2>5. TasksOK'
    <3>1. task' = [t \in Tasks |-> Idle]
      BY <1>1, <1>2 DEF ModeOK
    <3>2. \A t \in Tasks : task'[t] = Idle
      BY <3>1
    <3>3. task' = [t \in Tasks |-> task'[t]]
      BY <3>1
    <3> QED
      BY <3>2, <3>3 DEF TasksOK, IsTask
  <2>6. ModeOK'
    <3>1. /\ mode' = "up" /\ losses' = IF mode = "dark" THEN losses + 1 ELSE losses
      BY <1>4 DEF open
    <3> QED
      BY <1>1, <1>2, <3>1, DurableAssumption DEF ModeOK, Up
  <2>7. FileFollows'
    <3>1. Replay' = order
      BY <1>2, <2>1 DEF Replay
    <3>2. Follows(order, Len(insertion_order))'
      <4>1. n \in 0 .. n
        BY <2>4
      <4> QED
        BY <2>3, <4>1 DEF Follows
    <3> QED
      BY <2>3, <3>1, <3>2 DEF FileFollows
  <2>8. ASSUME NEW part, IsLineage(part), Begins(part, order), Len(part) \in Nat
        PROVE  Readable(part)'
    <3>1. Len(part) \in 0 .. n /\ \A i \in 1 .. Len(part) : i \in 1 .. n /\ part[i] = order[i]
      BY <2>4, <2>8 DEF Begins
    <3>2. Follows(part, Len(part))'
      BY <2>3, <3>1 DEF Follows
    <3> QED
      BY <2>8, <3>2 DEF Readable
  <2>9. PICK N : /\ file \in LinesOf(N) /\ file # << >>
                 /\ \A part \in LinesOf(N) :
                      IsCut(part, file) /\ AllParse(part) => Readable(NodesIn(part))
    BY <1>1, Zenon DEF HoldsLineages
  <2>10. ASSUME NEW part \in LinesOf(N), IsCut(part, file), AllParse(part)
         PROVE  Readable(NodesIn(part))'
    <3>1. IsLineage(NodesIn(part))
      BY <2>9, <2>10 DEF Readable
    <3>2. Begins(NodesIn(part), order)
      BY <1>4, <2>1, <2>9, <2>10, CutReads, ReplayFacts
    <3>3. Len(NodesIn(part)) \in Nat
      BY <2>10, NodesInFacts, LenProperties
    <3> QED
      BY <2>8, <3>1, <3>2, <3>3
  <2>11. HoldsLineages(file)'
    <3>1. PICK after : after = file
      OBVIOUS
    <3>2. /\ after \in LinesOf(N) /\ after # << >>
          /\ \A part \in LinesOf(N) :
               IsCut(part, after) /\ AllParse(part) => Readable(NodesIn(part))'
      BY <2>9, <2>10, <3>1
    <3>3. HoldsLineages(after)'
      BY <3>2, Zenon DEF HoldsLineages
    <3> QED
      BY <1>2, <3>1, <3>3
  <2> QED
    BY <2>3, <2>5, <2>6, <2>7, <2>11 DEF DurableInv, Inv
<1> QED
  BY <1>3, <1>4

-----------------------------------------------------------------------------
(* The invariant. *)

LEMMA DurableInitInv == DurableInit => DurableInv
<1> SUFFICES ASSUME DurableInit PROVE DurableInv
  OBVIOUS
<1>1. /\ Init /\ file = EmptyFile /\ mode = "up" /\ faults = 0 /\ losses = 0
      /\ insertion_order = << >>
  BY DEF DurableInit, Init, StoreInit
<1>2. Inv
  BY <1>1, InitInv
<1>3. Len(insertion_order) = 0 /\ Len(<< >>) = 0
  BY <1>1, EmptySeq
<1> DEFINE N == {}
<1>4. /\ file \in LinesOf(N) /\ file # << >>
      /\ NodesIn(file) = << >> /\ AllParse(file) /\ Blank(LastLine(file))
  BY <1>1, NodesInFacts
<1>5. \A order \in Seq(N) : Readable(order)
  <2> TAKE order \in Seq(N)
  <2>1. Len(order) \in Nat /\ DOMAIN order = 1 .. Len(order)
    BY LenProperties
  <2>2. \A i \in 1 .. Len(order) : order[i] \in N
    BY ElementOfSeq
  <2>3. Len(order) = 0
    BY <2>1, <2>2
  <2>4. IsLineage(order)
    BY <2>1, <2>3 DEF IsLineage
  <2>5. Follows(order, 0)
    BY <1>3, <2>3 DEF Follows
  <2> QED
    BY <2>4, <2>5 DEF Readable
<1> HIDE DEF N
<1>6. \A part \in LinesOf(N) : IsCut(part, file) /\ AllParse(part) => Readable(NodesIn(part))
  BY <1>5, NodesInFacts
<1>7. HoldsLineages(file)
  BY <1>4, <1>6, Zenon DEF HoldsLineages
<1>8. FileFollows
  <2>1. Len(Replay) = Len(insertion_order)
    BY <1>3, <1>4, ReplayFacts
  <2>2. Follows(Replay, Len(insertion_order))
    BY <1>3, <2>1 DEF Follows
  <2> QED
    BY <2>1, <2>2 DEF FileFollows
<1>9. ModeOK
  BY <1>1, DurableAssumption DEF ModeOK, Up
<1> QED
  BY <1>2, <1>7, <1>8, <1>9 DEF DurableInv

LEMMA DurableNextInv == DurableInv /\ [DurableNext]_durableVars => DurableInv'
<1> SUFFICES ASSUME DurableInv, [DurableNext]_durableVars PROVE DurableInv'
  OBVIOUS
<1>1. CASE UNCHANGED durableVars
  <2>1. UNCHANGED vars /\ UNCHANGED ledger /\ UNCHANGED <<file, mode, faults, losses, task>>
    BY <1>1 DEF durableVars, vars, ledger
  <2>2. Inv /\ LedgerInv /\ HoldsLineages(file) /\ FileFollows /\ ModeOK
    BY DEF DurableInv, Inv
  <2>3. Inv'
    BY <2>1, <2>2, NextInv
  <2>4. /\ OrderGrows /\ Len(insertion_order') \in Nat
        /\ \A order, n : Follows(order, n) => Follows(order, n)'
        /\ insertion_order' = insertion_order
    BY <2>1, <2>2, SameNodes DEF ledger
  <2>5. HoldsLineages(file)'
    <3>1. PICK after : after = file
      OBVIOUS
    <3>2. HoldsLineages(after)'
      BY <2>2, <2>4, <3>1, HoldsOverGrowth
    <3> QED
      BY <2>1, <3>1, <3>2
  <2>6. FileFollows'
    <3>1. Replay' = Replay /\ (Replayable' <=> Replayable) /\ (Settled' <=> Settled)
      BY <2>1 DEF Replay, Replayable, Settled
    <3> QED
      BY <2>1, <2>2, <2>4, <3>1 DEF FileFollows, Up
  <2>7. ModeOK'
    BY <2>1, <2>2 DEF ModeOK, Up
  <2> QED
    BY <2>3, <2>5, <2>6, <2>7 DEF DurableInv
<1>2. CASE DurableNext
  BY <1>2, RunsKeepsInv, AppendFailsKeepsInv, DiesKeepsInv, PowerFailsKeepsInv, OpenKeepsInv
  DEF DurableNext
<1> QED
  BY <1>1, <1>2

\* Whatever can be read of the file, also after a power failure that is yet
\* to come, is a lineage that begins like the ledger in memory.
THEOREM DurableInvariance == DurableSpec => []DurableInv
<1> QED
  BY DurableInitInv, DurableNextInv, PTL DEF DurableSpec

\* What open reads is a lineage, although it checks neither signatures nor
\* parents: whatever append failed, whenever the process died, and whatever
\* a power failure took from the file.  Only the children of nodes that the
\* host kept or altered may lack their parent.
THEOREM FileStaysLineage == DurableSpec => []FileIsLineage
<1>1. DurableInv => FileIsLineage
  <2> SUFFICES ASSUME DurableInv, Replayable PROVE FileIsLineage
    BY DEF FileIsLineage
  <2>1. IsLineage(Replay)
    BY WholeIsReadable, ReplayFacts DEF DurableInv, Readable
  <2>2. \A i \in DOMAIN Replay :
          /\ verify_node(Replay[i])
          /\ \A j \in DOMAIN Replay : Replay[j].agent_id = Replay[i].agent_id => j = i
    BY <2>1 DEF IsLineage
  <2>3. \A i \in DOMAIN Replay : \A id \in Replay[i].parent_id :
          \/ \E j \in 1 .. i - 1 : Replay[j].agent_id = id
          \/ \E parent \in Foreign : parent.agent_id = id
    <3>1. \A i \in DOMAIN Replay :
            \/ Replay[i].parent_id = {}
            \/ \E j \in 1 .. i - 1 : Replay[i].parent_id = {Replay[j].agent_id}
            \/ \E parent \in Foreign : Replay[i].parent_id = {parent.agent_id}
      BY <2>1 DEF IsLineage, Adopted, None, Some
    <3> QED
      BY <3>1
  <2> QED
    BY <2>2, <2>3 DEF FileIsLineage
<1> QED
  BY <1>1, DurableInvariance, PTL

\* A restart after a process died, but not the machine, keeps every promoted
\* node that the head has named at or before the head that open finds.
THEOREM RestartsNeverGoBack == DurableSpec => RestartNeverGoesBack
<1>1. ASSUME DurableInv, DurableNext, ~Up, Up', losses' = losses,
             NEW i \in DOMAIN insertion_order, Position(i) \in head
      PROVE  \E j \in i .. Len(insertion_order') : insertion_order'[j] \in head'
  <2>1. open /\ Replayable /\ mode # "dark"
    <3>1. open
      BY <1>1 DEF DurableNext, Runs, AppendFails, Dies, PowerFails, Up
    <3>2. Replayable
      BY <1>1, <3>1 DEF open, Up
    <3>3. losses \in Int
      BY <1>1 DEF DurableInv, ModeOK
    <3> QED
      BY <1>1, <3>1, <3>2, <3>3 DEF open
  <2>2. PICK order : order = Replay
    OBVIOUS
  <2> DEFINE n == Len(order)
  <2>3. Opened(order, n) /\ Len(insertion_order') = n
    BY <1>1, <2>1, <2>2, OpenReads, OpenedLedger DEF DurableInv
  <2>4. /\ n \in Nat /\ DOMAIN order = 1 .. n /\ head' = LastPromoted(order)
        /\ insertion_order' = [k \in 1 .. n |-> order[k].agent_id]
    BY <2>3 DEF Opened
  <2>5. i \in 1 .. n /\ order[i].status = Promoted
    <3>1. Follows(order, Len(insertion_order))
      BY <1>1, <2>1, <2>2 DEF DurableInv, FileFollows
    <3>2. /\ DOMAIN insertion_order = 1 .. Len(insertion_order) /\ Len(insertion_order) \in Nat
          /\ AllNodes[i] = Node(Position(i))
      BY <1>1, AllNodesFacts DEF DurableInv, Inv
    <3>3. Node(Position(i)).status = Promoted
      BY <1>1 DEF DurableInv, Inv, LedgerInv, HeadPromoted, IsPromoted
    <3>4. i \in 1 .. Len(insertion_order)
      BY <1>1, <3>2
    <3>5. order[i] = AllNodes[i]
      BY <3>1, <3>4 DEF Follows
    <3>6. n = Len(insertion_order) \/ n = Len(insertion_order) + 1
      BY <3>1 DEF Follows
    <3>7. i \in 1 .. n
      BY <3>2, <3>4, <3>6
    <3> QED
      BY <3>2, <3>3, <3>5, <3>7
  <2>6. PICK k \in 1 .. n : /\ head' = {order[k].agent_id}
                            /\ \A j \in 1 .. n : order[j].status = Promoted => j <= k
    BY <2>4, <2>5, LastPromotedFacts
  <2>7. k \in i .. n /\ insertion_order'[k] \in head'
    BY <2>4, <2>5, <2>6
  <2> QED
    BY <2>3, <2>7
<1>2. DurableInv /\ [DurableNext]_durableVars =>
        [~Up /\ Up' /\ losses' = losses =>
           \A i \in DOMAIN insertion_order : Position(i) \in head =>
             \E j \in i .. Len(insertion_order') : insertion_order'[j] \in head']_durableVars
  BY <1>1, Zenon
<1> QED
  BY <1>2, DurableInvariance, PTL DEF DurableSpec, RestartNeverGoesBack

-----------------------------------------------------------------------------
(* The runner over a file implements the durable log, as long as no        *)
(* generation reaches the largest u32.                                     *)

LEMMA DiskHoldsDag ==
  /\ Dag!Init => Disk!Init
  /\ Dag!Next => Disk!Next
  /\ UNCHANGED Dag!dag => UNCHANGED Disk!dag
BY DEF Dag!Init, Dag!Next, Dag!Grow, Dag!Revert, Dag!Entries, Dag!Ids, Dag!Descends, Dag!dag,
       Disk!Init, Disk!Next, Disk!Grow, Disk!Revert, Disk!Entries, Disk!Ids, Disk!Descends,
       Disk!dag

\* The log of the new process.
LEMMA OpenedLog ==
  ASSUME NEW order, NEW n, Opened(order, n)
  PROVE  /\ DOMAIN Log' = 1 .. n /\ Len(Log') = n
         /\ \A i \in 1 .. n : Log'[i] = LogEntry(order[i])
         /\ head' = Disk!LastPromotedId(Log')
<1>1. /\ n \in Nat /\ DOMAIN order = 1 .. n
      /\ insertion_order' = [i \in 1 .. n |-> order[i].agent_id]
      /\ \A i \in 1 .. n : nodes'[order[i].agent_id] = order[i]
      /\ head' = LastPromoted(order)
  BY DEF Opened
<1>2. PICK log : log = Log'
  OBVIOUS
<1>3. log = [i \in 1 .. n |-> LogEntry(order[i])]
  <2>1. log = [i \in 1 .. n |-> LogEntry(nodes'[insertion_order'[i]])]
    BY <1>1, <1>2 DEF Log, Node, Position, LogEntry
  <2>2. \A i \in 1 .. n : nodes'[insertion_order'[i]] = order[i]
    BY <1>1
  <2> QED
    BY <2>1, <2>2
<1>4. DOMAIN log = 1 .. n /\ \A i \in 1 .. n : log[i] = LogEntry(order[i])
  BY <1>3
<1>5. log = [i \in 1 .. n |-> log[i]]
  BY <1>3
<1>6. Len(log) = n
  BY <1>1, <1>4, <1>5, SequenceLength
<1>7. head' = Disk!LastPromotedId(log)
  <2> DEFINE last == {j \in 1 .. n : /\ log[j].promoted
                                     /\ \A k \in 1 .. n : log[k].promoted => k <= j}
  <2>1. Disk!LastPromotedId(log) = {log[i].id : i \in last}
    BY <1>4 DEF Disk!LastPromotedId
  <2>2. \A i \in 1 .. n : /\ log[i].id = order[i].agent_id
                          /\ log[i].promoted <=> order[i].status = Promoted
    <3>1. \A node : /\ LogEntry(node).id = node.agent_id
                    /\ LogEntry(node).promoted = (node.status = Promoted)
      BY DEF LogEntry
    <3> QED
      BY <1>4, <3>1, Zenon
  <2>3. CASE /\ LastPromoted(order) = {}
             /\ \A i \in 1 .. n : order[i].status # Promoted
    <3>1. last = {}
      BY <2>2, <2>3
    <3> QED
      BY <1>1, <2>1, <2>3, <3>1
  <2>4. ASSUME NEW k \in 1 .. n, LastPromoted(order) = {order[k].agent_id},
               order[k].status = Promoted,
               \A i \in 1 .. n : order[i].status = Promoted => i <= k
        PROVE  head' = Disk!LastPromotedId(log)
    <3>1. last = {k}
      BY <1>1, <2>2, <2>4
    <3>2. Disk!LastPromotedId(log) = {order[k].agent_id}
      BY <2>1, <2>2, <3>1
    <3> QED
      BY <1>1, <2>4, <3>2
  <2> QED
    BY <1>1, <2>3, <2>4, LastPromotedFacts
<1> QED
  BY <1>2, <1>4, <1>6, <1>7

\* The new process has kept a number of nodes, and has at most one more.
LEMMA OpenedFrom ==
  ASSUME LedgerInv, NoWrap, NEW order, Opened(order, Len(order)), NEW m, Follows(order, m)
  PROVE  m \in 0 .. Len(Log) /\ Disk!RestartAt(m)
<1> DEFINE n == Len(order)
<1>1. /\ DOMAIN Log' = 1 .. n /\ Len(Log') = n
      /\ \A i \in 1 .. n : Log'[i] = LogEntry(order[i])
      /\ head' = Disk!LastPromotedId(Log')
  BY OpenedLog
<1>2. /\ Len(Log) = Len(insertion_order) /\ Len(insertion_order) \in Nat
      /\ \A i \in 1 .. Len(insertion_order) :
           Position(i) \in Ledger /\ Log[i] = LogEntry(Node(Position(i)))
  BY OrderLength
<1>3. \A i \in 1 .. Len(insertion_order) : AllNodes[i] = Node(Position(i))
  BY AllNodesFacts
<1>4. /\ m \in 0 .. Len(insertion_order) /\ (n = m \/ n = m + 1)
      /\ \A i \in 1 .. m : order[i] = AllNodes[i]
  BY DEF Follows
<1>5. n \in Nat /\ IsLineage(order) /\ DOMAIN order = 1 .. n
  BY DEF Opened
<1>6. \A i \in 1 .. m : i \in 1 .. Len(insertion_order) /\ i \in 1 .. n
  BY <1>2, <1>4
<1>7. Disk!KeepsFirst(m)
  <2>1. Len(Log') >= m
    <3>1. n >= m
      BY <1>2, <1>4
    <3> QED
      BY <1>1, <3>1
  <2>2. \A i \in 1 .. m : Log'[i] = Log[i]
    BY <1>1, <1>2, <1>3, <1>4, <1>6
  <2> QED
    BY <2>1, <2>2 DEF Disk!KeepsFirst, Log
<1>8. ASSUME n = m + 1 PROVE Disk!Joins(m + 1, Log')
  <2>1. PICK log : log = Log'
    OBVIOUS
  <2> DEFINE before == SubSeq(log, 1, m)
             entry == log[m + 1]
  <2>2. DOMAIN before = 1 .. m /\ \A i \in 1 .. m : before[i] = LogEntry(order[i])
    <3>1. /\ m \in Nat
          /\ \A i \in 1 .. m : 1 + i - 1 = i /\ i \in 1 .. m - 1 + 1
          /\ m - 1 + 1 = m
      BY <1>2, <1>4
    <3> DEFINE S == {LogEntry(order[i]) : i \in 1 .. m}
    <3>2. \A i \in 1 .. m : log[i] \in S /\ log[i] = LogEntry(order[i])
      BY <1>1, <1>6, <2>1
    <3> HIDE DEF S
    <3>3. /\ SubSeq(log, 1, m) \in Seq(S)
          /\ Len(SubSeq(log, 1, m)) = IF 1 <= m THEN m - 1 + 1 ELSE 0
          /\ \A i \in 1 .. m - 1 + 1 : SubSeq(log, 1, m)[i] = log[1 + i - 1]
      BY <3>1, <3>2, SubSeqProperties
    <3>4. Len(SubSeq(log, 1, m)) = m
      BY <3>1, <3>3
    <3>5. DOMAIN SubSeq(log, 1, m) = 1 .. m
      BY <3>3, <3>4, LenProperties
    <3>6. \A i \in 1 .. m : SubSeq(log, 1, m)[i] = LogEntry(order[i])
      BY <3>1, <3>2, <3>3
    <3> QED
      BY <3>5, <3>6
  <2>3. entry = LogEntry(order[m + 1]) /\ m + 1 \in 1 .. n
    BY <1>1, <1>4, <1>5, <1>8, <2>1
  <2> HIDE DEF before, entry
  <2>4. entry.id \notin Disk!Ids(before)
    <3>1. \A i \in 1 .. m : order[i].agent_id # order[m + 1].agent_id
      <4>1. \A i \in 1 .. m : i # m + 1
        BY <1>4
      <4> QED
        BY <1>5, <1>6, <2>3, <4>1 DEF IsLineage
    <3> QED
      BY <2>2, <2>3, <3>1 DEF Disk!Ids, Disk!Entries, LogEntry
  <2>5. Disk!Descends(entry, before)
    <3>1. \/ order[m + 1].parent_id = None /\ order[m + 1].generation = 0
          \/ \E j \in 1 .. m :
               /\ order[m + 1].parent_id = Some(order[j].agent_id)
               /\ order[m + 1].generation = NextGeneration(order[j].generation)
          \/ Adopted(order[m + 1])
      <4>1. m + 1 - 1 = m
        BY <1>4
      <4>2. PICK k \in DOMAIN order : k = m + 1
        BY <1>5, <2>3
      <4>3. \/ order[k].parent_id = None /\ order[k].generation = 0
            \/ \E j \in 1 .. k - 1 :
                 /\ order[k].parent_id = Some(order[j].agent_id)
                 /\ order[k].generation = NextGeneration(order[j].generation)
            \/ Adopted(order[k])
        BY <1>5, Zenon DEF IsLineage
      <4>4. k - 1 = m
        BY <1>2, <1>4, <4>2
      <4> QED
        BY <4>2, <4>3, <4>4, Zenon
    <3>2. CASE order[m + 1].parent_id = None /\ order[m + 1].generation = 0
      BY <2>3, <3>2 DEF Disk!Descends, LogEntry, None
    <3>3. ASSUME NEW j \in 1 .. m,
                 order[m + 1].parent_id = Some(order[j].agent_id),
                 order[m + 1].generation = NextGeneration(order[j].generation)
          PROVE  Disk!Descends(entry, before)
      <4>1. order[j] = Node(Position(j)) /\ Position(j) \in Ledger
        BY <1>2, <1>3, <1>4, <1>6
      <4>2. order[j].generation \in Nat /\ order[j].generation + 1 < GenerationModulus
        BY <4>1, ParentFacts DEF NoWrap, Parents, Ledger, Generations
      <4>3. NextGeneration(order[j].generation) = order[j].generation + 1
        BY <4>2, GenerationAssumption DEF NextGeneration
      <4>4. /\ before[j] \in Disk!Entries(before) /\ before[j].id = order[j].agent_id
            /\ before[j].generation = order[j].generation
        BY <2>2 DEF Disk!Entries, LogEntry
      <4>5. entry.parent = {order[j].agent_id} /\ entry.generation = order[j].generation + 1
        BY <2>3, <3>3, <4>3 DEF LogEntry, Some
      <4> QED
        BY <4>4, <4>5 DEF Disk!Descends
    <3>4. ASSUME NEW parent \in Foreign,
                 order[m + 1].parent_id = Some(parent.agent_id),
                 order[m + 1].generation = NextGeneration(parent.generation)
          PROVE  Disk!Descends(entry, before)
      <4>1. parent.generation \in Nat /\ parent.generation + 1 < GenerationModulus
        BY ParentFacts DEF NoWrap, Parents, Generations
      <4>2. NextGeneration(parent.generation) = parent.generation + 1
        BY <4>1, GenerationAssumption DEF NextGeneration
      <4>3. /\ LogEntry(parent) \in Strangers /\ LogEntry(parent).id = parent.agent_id
            /\ LogEntry(parent).generation = parent.generation
        BY DEF Strangers, LogEntry
      <4>4. entry.parent = {parent.agent_id} /\ entry.generation = parent.generation + 1
        BY <2>3, <3>4, <4>2 DEF LogEntry, Some
      <4> QED
        BY <4>3, <4>4 DEF Disk!Descends
    <3> QED
      BY <3>1, <3>2, <3>3, <3>4 DEF Adopted
  <2>6. PICK k : k = m + 1
    OBVIOUS
  <2>7. k - 1 = m
    BY <1>2, <1>4, <2>6
  <2>8. before = SubSeq(log, 1, k - 1) /\ entry = log[k]
    BY <2>6, <2>7 DEF before, entry
  <2>9. Disk!Joins(k, log)
    BY <2>4, <2>5, <2>8 DEF Disk!Joins
  <2> QED
    BY <2>1, <2>6, <2>9
<1>9. m \in 0 .. Len(Log)
  BY <1>2, <1>4
<1> QED
  BY <1>1, <1>4, <1>7, <1>8, <1>9, Zenon DEF Disk!RestartAt, Log

LEMMA OpenRefines ==
  ASSUME DurableInv, NoWrap, open
  PROVE  [Disk!DurableNext]_(Disk!durable)
<1>1. CASE ~Replayable
  <2>1. UNCHANGED Dag!dag /\ UNCHANGED losses
    BY <1>1, SameLedgerStutters DEF open
  <2> QED
    BY <2>1, DiskHoldsDag DEF Disk!durable
<1>2. CASE Replayable
  <2>1. PICK order : order = Replay
    OBVIOUS
  <2>2. LedgerInv /\ HoldsLineages(file) /\ FileFollows
    BY DEF DurableInv, Inv
  <2>3. Opened(order, Len(order))
    BY <1>2, <2>1, <2>2, OpenReads
  <2>4. CASE mode = "dark"
    <3>1. PICK m \in Nat : Follows(order, m)
      BY <1>2, <2>1, <2>2, WholeIsReadable, ReplayFacts DEF Readable
    <3>2. m \in 0 .. Len(Log) /\ Disk!RestartAt(m)
      BY <2>2, <2>3, <3>1, OpenedFrom
    <3>3. losses' = losses + 1
      BY <1>2, <2>4 DEF open
    <3>4. Disk!PowerLoss
      BY <3>2, <3>3 DEF Disk!PowerLoss, Log
    <3> QED
      BY <3>4 DEF Disk!DurableNext
  <2>5. CASE mode # "dark"
    <3>1. Follows(order, Len(insertion_order))
      BY <1>2, <2>1, <2>2, <2>5 DEF FileFollows
    <3>2. Disk!RestartAt(Len(insertion_order))
      BY <2>2, <2>3, <3>1, OpenedFrom
    <3>3. Len(Log) = Len(insertion_order)
      BY <2>2, OrderLength
    <3>4. UNCHANGED losses
      BY <1>2, <2>5 DEF open
    <3>5. Disk!RestartAt(Len(Log))
      BY <3>2, <3>3
    <3>6. Disk!Restart
      BY <3>4, <3>5 DEF Disk!Restart, Log
    <3> QED
      BY <3>6 DEF Disk!DurableNext
  <2> QED
    BY <2>4, <2>5
<1> QED
  BY <1>1, <1>2

LEMMA DiskInit == DurableInit => Disk!DurableInit
BY DagInit, DiskHoldsDag DEF DurableInit, Disk!DurableInit

LEMMA DiskStep ==
  DurableInv /\ DurableInv' /\ NoWrap /\ [DurableNext]_durableVars =>
    [Disk!DurableNext]_(Disk!durable)
<1> SUFFICES ASSUME DurableInv, DurableInv', NoWrap, [DurableNext]_durableVars
             PROVE  [Disk!DurableNext]_(Disk!durable)
  OBVIOUS
<1>1. CASE UNCHANGED ledger /\ UNCHANGED losses
  <2>1. UNCHANGED Dag!dag
    BY <1>1, SameLedgerStutters
  <2> QED
    BY <1>1, <2>1, DiskHoldsDag DEF Disk!durable
<1>2. ASSUME NEW t \in Tasks, Runs(t) PROVE [Disk!DurableNext]_(Disk!durable)
  <2>1. [Dag!Next]_(Dag!dag)
    BY <1>2, StepRefines DEF Runs, DurableInv
  <2>2. UNCHANGED losses
    BY <1>2 DEF Runs
  <2>3. CASE Dag!Next
    BY <2>2, <2>3, DiskHoldsDag DEF Disk!DurableNext
  <2>4. CASE UNCHANGED Dag!dag
    BY <2>2, <2>4, DiskHoldsDag DEF Disk!durable
  <2> QED
    BY <2>1, <2>3, <2>4
<1>3. CASE open
  BY <1>3, OpenRefines
<1>4. CASE (\E t \in Tasks : AppendFails(t)) \/ Dies \/ PowerFails \/ UNCHANGED durableVars
  <2>1. UNCHANGED ledger /\ UNCHANGED losses
    BY <1>4 DEF AppendFails, Dies, PowerFails, durableVars, vars, ledger
  <2> QED
    BY <1>1, <2>1
<1> QED
  BY <1>2, <1>3, <1>4 DEF DurableNext

\* While no generation is the largest u32, the ledger is an audit log that
\* outlives its process: a restart keeps every entry and gains at most one
\* whose append did not return, and only a power failure takes entries, from
\* the end.
THEOREM DurableImplementsLog == DurableSpec /\ []NoWrap => ImplementsDurableLog
<1> QED
  BY DiskInit, DiskStep, DurableInvariance, PTL
  DEF DurableSpec, ImplementsDurableLog, Disk!DurableSpec

=============================================================================
