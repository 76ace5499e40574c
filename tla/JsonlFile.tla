------------------------------ MODULE JsonlFile ------------------------------
(***************************************************************************)
(* The file of the file-backed ledger (ledger.rs): append-only lines of    *)
(* JSON, each of which is a node.                                          *)
(*                                                                         *)
(* `writeln!` on an unbuffered file is two writes, the body and the        *)
(* newline; either may fail after writing a part.  The file is the         *)
(* sequence of its lines, the last one being what follows the last         *)
(* newline; a line is a sequence of chunks, each the body of a node or     *)
(* only a part of it.                                                      *)
(***************************************************************************)
EXTENDS AgentNodes, Sequences

VARIABLE file    \* the lines on disk

EmptyFile == << << >> >>

Chunk(node, whole) == [node |-> node, whole |-> whole]

\* Empty lines are skipped; any other line has to be the JSON of one node.
Blank(line) == line = << >>
Parses(line) == Len(line) = 1 /\ line[1].whole
Replayable == \A i \in DOMAIN file : Blank(file[i]) \/ Parses(file[i])

\* What the loop of open has read after each line.
NodesIn(lines) ==
  LET upTo[i \in 0 .. Len(lines)] ==
        IF i = 0 THEN << >>
        ELSE IF Blank(lines[i]) THEN upTo[i - 1]
        ELSE Append(upTo[i - 1], lines[i][1].node)
  IN upTo[Len(lines)]

\* The nodes of the lines in order; open succeeds if all lines parse.
Replay == NodesIn(file)

\* Mutant: the file is not opened for appending.
WriteAtStart(node, whole) == file' = [file EXCEPT ![1] = <<Chunk(node, whole)>>]

WriteBody(node, whole) ==
  file' = [file EXCEPT ![Len(file)] = Append(@, Chunk(node, whole))]

\* Mutant: write! for writeln!.
WriteNoNewline == UNCHANGED file

WriteNewline == file' = Append(file, << >>)

\* Mutant: the loop keeps the first promoted node it meets.
FirstPromoted(order) ==
  {order[i].agent_id :
     i \in {j \in DOMAIN order : /\ order[j].status = Promoted
                                 /\ \A k \in DOMAIN order :
                                      k < j => order[k].status # Promoted}}

\* The last promoted node listed, if any.
LastPromoted(order) ==
  {order[i].agent_id :
     i \in {j \in DOMAIN order : /\ order[j].status = Promoted
                                 /\ \A k \in DOMAIN order :
                                      j < k => order[k].status # Promoted}}

=============================================================================
