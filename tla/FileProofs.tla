------------------------------ MODULE FileProofs ------------------------------
(***************************************************************************)
(* What open reads from the lines of a file, and how an append changes it. *)
(***************************************************************************)
EXTENDS JsonlFile, NumberProofs, SequenceTheorems

Chunks(N) == [node : N, whole : BOOLEAN]
LinesOf(N) == Seq(Seq(Chunks(N)))

\* One turn of the loop of open.
AddLine(order, line) == IF Blank(line) THEN order ELSE Append(order, line[1].node)

LEMMA LineFacts ==
  ASSUME NEW N, NEW line \in Seq(Chunks(N))
  PROVE  /\ Len(line) \in Nat
         /\ Blank(line) <=> Len(line) = 0
         /\ ~Blank(line) => line[1] \in Chunks(N) /\ line[1].node \in N
         /\ \A order \in Seq(N) : AddLine(order, line) \in Seq(N)
<1>1. Len(line) \in Nat /\ (Blank(line) <=> Len(line) = 0)
  BY LenProperties, EmptySeq DEF Blank
<1>2. ~Blank(line) => line[1] \in Chunks(N)
  <2>1. ~Blank(line) => 1 \in 1 .. Len(line)
    BY <1>1
  <2> QED
    BY <2>1, ElementOfSeq
<1>3. ~Blank(line) => line[1].node \in N
  BY <1>2 DEF Chunks
<1> QED
  BY <1>1, <1>2, <1>3, AppendProperties DEF AddLine

\* The loop of open has a run, and NodesIn is its result.
LEMMA ReadingRuns ==
  ASSUME NEW N, NEW lines \in LinesOf(N)
  PROVE  \E upTo \in [0 .. Len(lines) -> Seq(N)] :
           /\ upTo[0] = << >>
           /\ \A i \in 0 .. Len(lines) : i < Len(lines) =>
                upTo[i + 1] = AddLine(upTo[i], lines[i + 1])
           /\ NodesIn(lines) = upTo[Len(lines)]
<1> DEFINE n == Len(lines)
           Reads(f) == f = [i \in 0 .. n |-> IF i = 0 THEN << >>
                                             ELSE AddLine(f[i - 1], lines[i])]
           upTo == CHOOSE upTo : Reads(upTo)
           step == [p \in (1 .. n) \X Seq(N) |-> AddLine(p[2], lines[p[1]])]
<1>0. n \in Nat /\ \A i \in 1 .. n : lines[i] \in Seq(Chunks(N))
  BY LenProperties, ElementOfSeq DEF LinesOf
<1>1. NodesIn(lines) = upTo[n]
  BY Zenon DEF NodesIn, AddLine
<1>2. \A i \in 1 .. n, order \in Seq(N) :
        step[<<i, order>>] = AddLine(order, lines[i])
  OBVIOUS
<1>3. << >> \in Seq(N) /\ IsBody(step, n, Seq(N))
  <2>1. \A i \in 1 .. n, order \in Seq(N) : AddLine(order, lines[i]) \in Seq(N)
    BY <1>0, LineFacts
  <2> HIDE DEF step
  <2> QED
    BY <1>2, <2>1, EmptySeq DEF IsBody
<1> HIDE DEF step
<1>4. PICK f : IsRun(f, step, n, Seq(N), << >>)
  BY <1>0, <1>3, LoopTo
<1>5. f \in [0 .. n -> Seq(N)] /\ f[0] = << >>
  BY <1>4 DEF IsRun
<1>6. \A i \in 1 .. n : f[i] = AddLine(f[i - 1], lines[i])
  <2> TAKE i \in 1 .. n
  <2>1. f[i - 1] \in Seq(N)
    BY <1>0, <1>5
  <2> QED
    BY <1>2, <1>4, <2>1 DEF IsRun
<1>7. Reads(f)
  <2> DEFINE g == [i \in 0 .. n |-> IF i = 0 THEN << >> ELSE AddLine(f[i - 1], lines[i])]
  <2>1. g[0] = << >> /\ \A i \in 1 .. n : g[i] = AddLine(f[i - 1], lines[i])
    BY <1>0
  <2>2. \A i \in 0 .. n : i = 0 \/ i \in 1 .. n
    BY <1>0
  <2> HIDE DEF g
  <2>3. \A i \in 0 .. n : g[i] = f[i]
    BY <1>5, <1>6, <2>1, <2>2
  <2>4. g = [i \in 0 .. n |-> g[i]]
    BY Zenon DEF g
  <2>5. f = g
    BY <1>5, <2>3, <2>4
  <2> QED
    BY <2>5, Zenon DEF g
<1>8. Reads(upTo)
  BY <1>7, Zenon
<1> HIDE DEF upTo
<1>9. upTo = f
  <2> DEFINE same == {i \in 0 .. n : upTo[i] = f[i]}
             g == [i \in 0 .. n |-> IF i = 0 THEN << >> ELSE AddLine(upTo[i - 1], lines[i])]
  <2>1. g[0] = << >> /\ \A i \in 1 .. n : g[i] = AddLine(upTo[i - 1], lines[i])
    BY <1>0
  <2>2. g = [i \in 0 .. n |-> g[i]]
    OBVIOUS
  <2> HIDE DEF g
  <2>3. upTo = g
    BY <1>8, Zenon DEF g
  <2>4. 0 \in same
    BY <1>0, <1>5, <2>1, <2>3
  <2>5. ASSUME NEW i \in 0 .. n, i < n, i \in same PROVE i + 1 \in same
    <3>1. i + 1 \in 1 .. n /\ (i + 1) - 1 = i /\ i + 1 \in 0 .. n
      BY <1>0, <2>5
    <3>2. upTo[i + 1] = AddLine(upTo[i], lines[i + 1])
      BY <2>1, <2>3, <3>1
    <3>3. f[i + 1] = AddLine(f[i], lines[i + 1])
      BY <1>6, <3>1
    <3> QED
      BY <2>5, <3>1, <3>2, <3>3
  <2> HIDE DEF same
  <2>6. \A i \in 0 .. n : i \in same
    BY <1>0, <2>4, <2>5, InductionTo
  <2>7. \A i \in 0 .. n : upTo[i] = f[i]
    BY <2>6 DEF same
  <2> QED
    BY <1>5, <2>2, <2>3, <2>7
<1>10. ASSUME NEW i \in 0 .. n, i < n PROVE f[i + 1] = AddLine(f[i], lines[i + 1])
  <2>1. i + 1 \in 1 .. n /\ (i + 1) - 1 = i
    BY <1>0, <1>10
  <2> QED
    BY <1>6, <2>1
<1>11. NodesIn(lines) = f[n]
  BY <1>1, <1>9
<1> HIDE DEF n
<1> QED
  BY <1>5, <1>10, <1>11, Zenon DEF n

\* One more line is one more turn.
LEMMA OneMoreLine ==
  ASSUME NEW N, NEW lines \in LinesOf(N), NEW more \in LinesOf(N),
         Len(more) = Len(lines) + 1,
         \A i \in 1 .. Len(lines) : more[i] = lines[i]
  PROVE  NodesIn(more) = AddLine(NodesIn(lines), more[Len(more)])
<1> DEFINE n == Len(lines)
<1>0. n \in Nat
  BY LenProperties DEF LinesOf
<1>1. PICK f \in [0 .. n -> Seq(N)] :
        /\ f[0] = << >>
        /\ \A i \in 0 .. n : i < n => f[i + 1] = AddLine(f[i], lines[i + 1])
        /\ NodesIn(lines) = f[n]
  BY ReadingRuns
<1>2. PICK g \in [0 .. Len(more) -> Seq(N)] :
        /\ g[0] = << >>
        /\ \A i \in 0 .. Len(more) : i < Len(more) =>
             g[i + 1] = AddLine(g[i], more[i + 1])
        /\ NodesIn(more) = g[Len(more)]
  BY ReadingRuns
<1> DEFINE same == {i \in 0 .. n : g[i] = f[i]}
<1>3. 0 \in same
  BY <1>0, <1>1, <1>2
<1>4. ASSUME NEW i \in 0 .. n, i < n, i \in same PROVE i + 1 \in same
  <2>1. i + 1 \in 0 .. n /\ i + 1 \in 1 .. n /\ i \in 0 .. Len(more) /\ i < Len(more)
    BY <1>0, <1>4
  <2>2. g[i + 1] = AddLine(g[i], more[i + 1]) /\ f[i + 1] = AddLine(f[i], lines[i + 1])
    BY <1>1, <1>2, <1>4, <2>1
  <2> QED
    BY <1>4, <2>1, <2>2
<1> HIDE DEF same
<1>5. \A i \in 0 .. n : i \in same
  BY <1>0, <1>3, <1>4, InductionTo
<1>6. g[n] = f[n] /\ n \in 0 .. Len(more) /\ n < Len(more)
  BY <1>0, <1>5 DEF same
<1> QED
  BY <1>1, <1>2, <1>6

-----------------------------------------------------------------------------
(* Appends. *)

AllParse(lines) == \A i \in DOMAIN lines : Blank(lines[i]) \/ Parses(lines[i])

LastLine(lines) == lines[Len(lines)]

\* A file that is not empty, without its last line.
LEMMA AllButLast ==
  ASSUME NEW N, NEW lines \in LinesOf(N), lines # << >>
  PROVE  \E before \in LinesOf(N) :
           /\ Len(lines) = Len(before) + 1
           /\ \A i \in 1 .. Len(before) : lines[i] = before[i]
<1>1. PICK m \in Nat : Len(lines) = m + 1
  <2>1. Len(lines) \in Nat \ {0}
    BY EmptySeq DEF LinesOf
  <2>2. Len(lines) - 1 \in Nat /\ Len(lines) = Len(lines) - 1 + 1
    BY <2>1
  <2> QED
    BY <2>2
<1>2. \A i \in 1 .. m : lines[i] \in Seq(Chunks(N))
  BY <1>1, ElementOfSeq DEF LinesOf
<1> DEFINE before == SubSeq(lines, 1, m)
<1>3. /\ before \in Seq(Seq(Chunks(N)))
      /\ Len(before) = IF 1 <= m THEN m - 1 + 1 ELSE 0
      /\ \A i \in 1 .. m - 1 + 1 : before[i] = lines[1 + i - 1]
  <2>1. 1 \in Int /\ m \in Int
    OBVIOUS
  <2> QED
    BY <1>2, <2>1, SubSeqProperties
<1> HIDE DEF before
<1>4. Len(before) = m /\ m - 1 + 1 = m /\ \A i \in 1 .. m : 1 + i - 1 = i
  BY <1>3
<1>5. Len(lines) = Len(before) + 1 /\ \A i \in 1 .. Len(before) : lines[i] = before[i]
  BY <1>1, <1>3, <1>4
<1> QED
  BY <1>3, <1>5, Zenon DEF LinesOf

\* What write! of a body makes of the file, whole or cut short.
WithBody(lines, chunk) ==
  [lines EXCEPT ![Len(lines)] = Append(@, chunk)]

LEMMA BodyWritten ==
  ASSUME NEW N, NEW lines \in LinesOf(N), lines # << >>, NEW chunk \in Chunks(N),
         NEW after, after = WithBody(lines, chunk)
  PROVE  /\ after \in LinesOf(N) /\ after # << >>
         /\ Blank(LastLine(lines)) =>
              /\ LastLine(after) = << chunk >>
              /\ NodesIn(after) = Append(NodesIn(lines), chunk.node)
         /\ ~Blank(LastLine(after))
         /\ AllParse(after) <=> AllParse(lines) /\ Blank(LastLine(lines)) /\ chunk.whole
<1> DEFINE n == Len(lines)
           line == Append(lines[n], chunk)
<1>1. /\ n \in Nat \ {0} /\ DOMAIN lines = 1 .. n
      /\ \A i \in 1 .. n : lines[i] \in Seq(Chunks(N))
  BY EmptySeq, ElementOfSeq, LenProperties DEF LinesOf
<1>2. chunk.node \in N /\ chunk.whole \in BOOLEAN
  BY DEF Chunks
<1>3. /\ line \in Seq(Chunks(N)) /\ Len(line) = Len(lines[n]) + 1 /\ Len(lines[n]) \in Nat
      /\ line[Len(lines[n]) + 1] = chunk
  BY <1>1, <1>2, AppendProperties, LenProperties
<1>4. /\ after \in LinesOf(N) /\ Len(after) = n /\ after[n] = line
      /\ \A i \in 1 .. n : i # n => after[i] = lines[i]
  <2>1. after = [lines EXCEPT ![n] = line]
    BY DEF WithBody
  <2>2. n \in 1 .. Len(lines)
    BY <1>1
  <2> HIDE DEF line
  <2>3. /\ [lines EXCEPT ![n] = line] \in Seq(Seq(Chunks(N)))
        /\ Len([lines EXCEPT ![n] = line]) = Len(lines)
        /\ \A j \in 1 .. Len(lines) :
             [lines EXCEPT ![n] = line][j] = IF j = n THEN line ELSE lines[j]
    BY <1>3, <2>2, ExceptSeq DEF LinesOf
  <2> QED
    BY <2>1, <2>2, <2>3 DEF LinesOf
<1>5. after # << >> /\ DOMAIN after = 1 .. n
  BY <1>1, <1>4, EmptySeq, LenProperties DEF LinesOf
<1>6. ~Blank(line) /\ (Parses(line) <=> Blank(lines[n]) /\ chunk.whole)
  <2> HIDE DEF line
  <2>1. ~Blank(line) /\ (Blank(lines[n]) <=> Len(lines[n]) = 0)
    <3>1. lines[n] \in Seq(Chunks(N)) /\ line \in Seq(Chunks(N)) /\ Len(line) # 0
      BY <1>1, <1>3
    <3> QED
      BY <3>1, LineFacts
  <2>2. Len(line) = 1 <=> Len(lines[n]) = 0
    BY <1>3
  <2> QED
    BY <1>2, <1>3, <2>1, <2>2 DEF Parses
<1>7. AllParse(after) <=> AllParse(lines) /\ Blank(lines[n]) /\ chunk.whole
  <2> HIDE DEF line
  <2>1. AllParse(after) <=> /\ Parses(line)
                            /\ \A i \in 1 .. n : i # n => Blank(lines[i]) \/ Parses(lines[i])
    <3>1. after[n] = line /\ \A i \in 1 .. n : i # n => after[i] = lines[i]
      BY <1>4
    <3>2. n \in 1 .. n
      BY <1>1
    <3> HIDE DEF n
    <3> QED
      BY <1>5, <1>6, <3>1, <3>2 DEF AllParse
  <2>2. AllParse(lines) /\ Blank(lines[n])
          <=> /\ Blank(lines[n])
              /\ \A i \in 1 .. n : i # n => Blank(lines[i]) \/ Parses(lines[i])
    BY <1>1 DEF AllParse
  <2> QED
    BY <1>6, <2>1, <2>2
<1>8. ASSUME Blank(lines[n])
      PROVE  line = << chunk >> /\ NodesIn(after) = Append(NodesIn(lines), chunk.node)
  <2>1. line = << chunk >>
    BY <1>2, <1>8, AppendProperties DEF Blank
  <2>2. PICK before \in LinesOf(N) :
           Len(lines) = Len(before) + 1 /\ \A i \in 1 .. Len(before) : lines[i] = before[i]
    BY AllButLast
  <2>3. Len(before) \in Nat
    BY <2>2, LenProperties DEF LinesOf
  <2>4. NodesIn(lines) = AddLine(NodesIn(before), lines[n])
    BY <2>2, OneMoreLine
  <2>5. \A i \in 1 .. Len(before) : after[i] = before[i]
    BY <1>4, <2>2, <2>3
  <2>6. NodesIn(after) = AddLine(NodesIn(before), after[n])
    <3>1. Len(after) = Len(before) + 1
      BY <1>4, <2>2
    <3>2. NodesIn(after) = AddLine(NodesIn(before), after[Len(after)])
      BY <1>4, <2>5, <3>1, OneMoreLine
    <3> QED
      BY <1>4, <3>2
  <2>7. NodesIn(lines) = NodesIn(before)
    BY <1>8, <2>4 DEF AddLine
  <2>8. line[1].node = chunk.node
    BY <1>2, <2>1
  <2> HIDE DEF line
  <2>9. NodesIn(after) = Append(NodesIn(before), chunk.node)
    BY <1>4, <1>6, <2>6, <2>8 DEF AddLine
  <2> QED
    BY <2>1, <2>7, <2>9
<1> HIDE DEF line
<1> QED
  BY <1>4, <1>5, <1>6, <1>7, <1>8 DEF LastLine

\* A body that is written whole can be read if it has the line to itself, and
\* the file before it could be read.
LEMMA BodyWrittenWhole ==
  ASSUME NEW N, NEW lines \in LinesOf(N), lines # << >>, NEW node \in N,
         NEW after, after = WithBody(lines, Chunk(node, TRUE))
  PROVE  /\ after \in LinesOf(N) /\ after # << >> /\ ~Blank(LastLine(after))
         /\ Blank(LastLine(lines)) => NodesIn(after) = Append(NodesIn(lines), node)
         /\ AllParse(after) <=> AllParse(lines) /\ Blank(LastLine(lines))
<1> DEFINE chunk == Chunk(node, TRUE)
<1>1. chunk \in Chunks(N) /\ chunk.node = node /\ chunk.whole = TRUE
  BY DEF Chunk, Chunks
<1>2. after = WithBody(lines, chunk)
  OBVIOUS
<1> HIDE DEF chunk
<1>3. /\ after \in LinesOf(N) /\ after # << >>
      /\ Blank(LastLine(lines)) =>
           /\ LastLine(after) = << chunk >>
           /\ NodesIn(after) = Append(NodesIn(lines), chunk.node)
      /\ ~Blank(LastLine(after))
      /\ AllParse(after) <=> AllParse(lines) /\ Blank(LastLine(lines)) /\ chunk.whole
  BY <1>1, <1>2, BodyWritten
<1> QED
  BY <1>1, <1>3

\* A body that is cut short cannot.
LEMMA BodyCutShort ==
  ASSUME NEW N, NEW lines \in LinesOf(N), lines # << >>, NEW node \in N,
         NEW after, after = WithBody(lines, Chunk(node, FALSE))
  PROVE  after \in LinesOf(N) /\ after # << >> /\ ~AllParse(after)
<1> DEFINE chunk == Chunk(node, FALSE)
<1>1. chunk \in Chunks(N) /\ chunk.whole = FALSE
  BY DEF Chunk, Chunks
<1>2. after = WithBody(lines, chunk)
  OBVIOUS
<1> HIDE DEF chunk
<1> QED
  BY <1>1, <1>2, BodyWritten

\* What the newline makes of it.
LEMMA NewlineWritten ==
  ASSUME NEW N, NEW lines \in LinesOf(N), NEW after, after = Append(lines, << >>)
  PROVE  /\ after \in LinesOf(N) /\ after # << >>
         /\ Blank(LastLine(after))
         /\ NodesIn(after) = NodesIn(lines)
         /\ AllParse(after) <=> AllParse(lines)
<1> DEFINE n == Len(lines)
<1>1. << >> \in Seq(Chunks(N))
  BY EmptySeq
<1>2. /\ n \in Nat /\ DOMAIN lines = 1 .. n
      /\ after \in LinesOf(N) /\ Len(after) = n + 1 /\ after[n + 1] = << >>
      /\ \A i \in 1 .. n : after[i] = lines[i]
  BY <1>1, AppendProperties, LenProperties DEF LinesOf
<1>3. after # << >> /\ DOMAIN after = 1 .. n + 1
  BY <1>2, EmptySeq, LenProperties DEF LinesOf
<1>4. NodesIn(after) = AddLine(NodesIn(lines), after[n + 1])
  BY <1>2, OneMoreLine
<1> QED
  BY <1>2, <1>3, <1>4 DEF AddLine, Blank, LastLine, AllParse

\* What is read are nodes, and nothing is read from an empty file.
LEMMA NodesInFacts ==
  ASSUME NEW N
  PROVE  /\ \A lines \in LinesOf(N) : NodesIn(lines) \in Seq(N)
         /\ EmptyFile \in LinesOf(N) /\ EmptyFile # << >>
         /\ NodesIn(EmptyFile) = << >> /\ AllParse(EmptyFile)
         /\ Blank(LastLine(EmptyFile))
<1>1. \A lines \in LinesOf(N) : NodesIn(lines) \in Seq(N)
  <2> TAKE lines \in LinesOf(N)
  <2>1. PICK upTo \in [0 .. Len(lines) -> Seq(N)] : NodesIn(lines) = upTo[Len(lines)]
    BY ReadingRuns
  <2>2. Len(lines) \in 0 .. Len(lines)
    BY LenProperties DEF LinesOf
  <2> QED
    BY <2>1, <2>2
<1>2. << >> \in LinesOf(N) /\ Len(<< >>) = 0
  BY EmptySeq DEF LinesOf
<1>3. NodesIn(<< >>) = << >>
  BY <1>2, ReadingRuns
<1>4. EmptyFile = Append(<< >>, << >>)
  BY DEF EmptyFile
<1>5. AllParse(<< >>)
  BY <1>2 DEF AllParse
<1> QED
  BY <1>1, <1>2, <1>3, <1>4, <1>5, NewlineWritten

-----------------------------------------------------------------------------
(* What a power failure leaves: the lines that begin the file, the last of *)
(* them possibly cut between two chunks.                                   *)

Begins(s, t) == Len(s) <= Len(t) /\ \A i \in 1 .. Len(s) : s[i] = t[i]

IsCut(part, lines) ==
  /\ Len(part) \in 1 .. Len(lines)
  /\ \A i \in 1 .. Len(part) : i < Len(part) => part[i] = lines[i]
  /\ Begins(part[Len(part)], lines[Len(part)])

LEMMA LinesFacts ==
  ASSUME NEW N, NEW lines \in LinesOf(N)
  PROVE  /\ Len(lines) \in Nat /\ DOMAIN lines = 1 .. Len(lines)
         /\ lines # << >> => Len(lines) \in 1 .. Len(lines)
         /\ \A i \in 1 .. Len(lines) : lines[i] \in Seq(Chunks(N)) /\ Len(lines[i]) \in Nat
<1>1. Len(lines) \in Nat /\ DOMAIN lines = 1 .. Len(lines)
  BY LenProperties DEF LinesOf
<1>2. lines # << >> => Len(lines) \in 1 .. Len(lines)
  <2>1. lines # << >> => Len(lines) \in Nat \ {0}
    BY EmptySeq DEF LinesOf
  <2> QED
    BY <2>1
<1>3. \A i \in 1 .. Len(lines) : lines[i] \in Seq(Chunks(N))
  BY ElementOfSeq DEF LinesOf
<1>4. \A i \in 1 .. Len(lines) : Len(lines[i]) \in Nat
  BY <1>3, LenProperties
<1> QED
  BY <1>1, <1>2, <1>3, <1>4

LEMMA LinesMonotonic ==
  ASSUME NEW N, NEW M, N \subseteq M
  PROVE  LinesOf(N) \subseteq LinesOf(M)
<1>1. Chunks(N) \subseteq Chunks(M)
  BY DEF Chunks
<1>2. Seq(Chunks(N)) \subseteq Seq(Chunks(M))
  BY <1>1, SeqMonotonic, Zenon
<1> QED
  BY <1>2, SeqMonotonic, Zenon DEF LinesOf

LEMMA SameLength ==
  ASSUME NEW S, NEW s \in Seq(S), NEW t \in Seq(S), Begins(s, t), Len(s) = Len(t)
  PROVE  s = t
BY SeqEqual DEF Begins

\* A cut has the chunks of the file only.
LEMMA CutChunks ==
  ASSUME NEW N, NEW M, NEW lines \in LinesOf(N), NEW part \in LinesOf(M), IsCut(part, lines)
  PROVE  part \in LinesOf(N) /\ part # << >>
<1> DEFINE m == Len(part)
<1>1. /\ m \in Nat /\ m \in 1 .. Len(lines) /\ m \in 1 .. m
      /\ \A i \in 1 .. m : i \in 1 .. Len(lines)
      /\ DOMAIN part = 1 .. m /\ part[m] \in Seq(Chunks(M))
  <2>1. m \in Nat /\ Len(lines) \in Nat /\ m \in 1 .. Len(lines) /\ DOMAIN part = 1 .. m
        /\ \A i \in 1 .. m : part[i] \in Seq(Chunks(M))
    BY LinesFacts DEF IsCut
  <2> HIDE DEF m
  <2>2. m \in 1 .. m /\ \A i \in 1 .. m : i \in 1 .. Len(lines)
    BY <2>1
  <2> QED
    BY <2>1, <2>2
<1>2. \A i \in 1 .. Len(lines) : lines[i] \in Seq(Chunks(N)) /\ Len(lines[i]) \in Nat
  BY LinesFacts
<1>3. part[m] \in Seq(Chunks(N))
  <2> DEFINE line == part[m]
             whole == lines[m]
  <2>1. /\ Len(line) \in Nat /\ line = [c \in 1 .. Len(line) |-> line[c]]
        /\ Len(line) <= Len(whole) /\ \A c \in 1 .. Len(line) : line[c] = whole[c]
    BY <1>1, LenProperties DEF IsCut, Begins
  <2>2. \A c \in 1 .. Len(whole) : whole[c] \in Chunks(N)
    BY <1>1, <1>2, ElementOfSeq
  <2>3. Len(whole) \in Nat
    BY <1>1, <1>2
  <2> HIDE DEF line, whole
  <2>4. \A c \in 1 .. Len(line) : c \in 1 .. Len(whole)
    BY <2>1, <2>3
  <2>5. line \in [1 .. Len(line) -> Chunks(N)]
    BY <2>1, <2>2, <2>4
  <2>6. line \in Seq(Chunks(N))
    BY <2>1, <2>5, SeqDef
  <2> QED
    BY <2>6 DEF line
<1>4. \A i \in 1 .. m : part[i] \in Seq(Chunks(N))
  <2> TAKE i \in 1 .. m
  <2>1. CASE i = m
    BY <1>3, <2>1
  <2>2. CASE i < m
    BY <1>1, <1>2, <2>2 DEF IsCut
  <2> HIDE DEF m
  <2>3. i = m \/ i < m
    BY <1>1
  <2> QED
    BY <2>1, <2>2, <2>3
<1>5. part = [i \in 1 .. m |-> part[i]]
  BY LenProperties DEF LinesOf
<1> HIDE DEF m
<1>6. part \in [1 .. m -> Seq(Chunks(N))]
  BY <1>4, <1>5
<1>7. part \in LinesOf(N)
  BY <1>1, <1>6, SeqDef DEF LinesOf
<1>8. part # << >>
  <2>1. 1 \in DOMAIN part
    BY <1>1
  <2>2. DOMAIN << >> = {}
    OBVIOUS
  <2> QED
    BY <2>1, <2>2
<1> QED
  BY <1>7, <1>8

LEMMA WholeIsCut ==
  ASSUME NEW N, NEW lines \in LinesOf(N), lines # << >>
  PROVE  IsCut(lines, lines)
<1>1. Len(lines) \in 1 .. Len(lines) /\ Len(lines[Len(lines)]) \in Nat
  BY LinesFacts
<1>2. Begins(lines[Len(lines)], lines[Len(lines)])
  BY <1>1 DEF Begins
<1> QED
  BY <1>1, <1>2, Zenon DEF IsCut

LEMMA CutOfCut ==
  ASSUME NEW N, NEW lines \in LinesOf(N), NEW part \in LinesOf(N), IsCut(part, lines),
         NEW less \in LinesOf(N), IsCut(less, part)
  PROVE  IsCut(less, lines)
<1> DEFINE n == Len(lines)
           m == Len(part)
           k == Len(less)
<1>1. /\ n \in Nat /\ m \in 1 .. n /\ k \in 1 .. m
      /\ \A i \in 1 .. m : i < m => part[i] = lines[i]
      /\ \A i \in 1 .. k : i < k => less[i] = part[i]
      /\ Begins(part[m], lines[m]) /\ Begins(less[k], part[k])
  BY LinesFacts DEF IsCut
<1>2. Len(lines[k]) \in Nat /\ Len(part[k]) \in Nat /\ Len(less[k]) \in Nat
  <2>1. k \in 1 .. n /\ k \in 1 .. m /\ k \in 1 .. k
    BY <1>1
  <2> QED
    BY <2>1, LinesFacts
<1> HIDE DEF n, m, k
<1>3. k \in 1 .. n /\ \A i \in 1 .. k : i < k => less[i] = lines[i]
  BY <1>1
<1>4. Begins(less[k], lines[k])
  <2>1. CASE k = m
    <3>1. \A c \in 1 .. Len(less[k]) : c \in 1 .. Len(part[k])
      BY <1>1, <1>2 DEF Begins
    <3> QED
      BY <1>1, <1>2, <2>1, <3>1 DEF Begins
  <2>2. CASE k # m
    <3>1. part[k] = lines[k]
      BY <1>1, <2>2
    <3> QED
      BY <1>1, <3>1
  <2> QED
    BY <2>1, <2>2
<1> QED
  BY <1>3, <1>4, Zenon DEF IsCut, n, k

\* An append adds one cut for each write.
LEMMA CutOfBody ==
  ASSUME NEW N, NEW lines \in LinesOf(N), lines # << >>, NEW chunk \in Chunks(N),
         NEW after, after = WithBody(lines, chunk),
         NEW part \in LinesOf(N), IsCut(part, after)
  PROVE  part = after \/ IsCut(part, lines)
<1> DEFINE n == Len(lines)
           m == Len(part)
           line == Append(lines[n], chunk)
<1>1. /\ n \in Nat /\ n \in 1 .. n /\ lines[n] \in Seq(Chunks(N)) /\ Len(lines[n]) \in Nat
  BY LinesFacts
<1>2. /\ line \in Seq(Chunks(N)) /\ Len(line) = Len(lines[n]) + 1
      /\ \A c \in 1 .. Len(lines[n]) : line[c] = lines[n][c]
  BY <1>1, AppendProperties
<1>3. /\ after \in LinesOf(N) /\ Len(after) = n
      /\ after[n] = line /\ \A i \in 1 .. n : i # n => after[i] = lines[i]
  <2>1. after = [lines EXCEPT ![n] = line]
    BY DEF WithBody
  <2> HIDE DEF line
  <2> QED
    BY <1>1, <1>2, <2>1, ExceptSeq DEF LinesOf
<1>4. /\ m \in 1 .. n /\ Begins(part[m], after[m])
      /\ \A i \in 1 .. m : i < m => part[i] = after[i]
      /\ part[m] \in Seq(Chunks(N)) /\ Len(part[m]) \in Nat
  <2>1. m \in 1 .. n /\ m \in 1 .. m
    BY <1>3, LinesFacts DEF IsCut
  <2> QED
    BY <1>3, <2>1, LinesFacts DEF IsCut
<1> HIDE DEF n, m, line
<1>5. \A i \in 1 .. m : i < m => part[i] = lines[i]
  BY <1>1, <1>3, <1>4
<1>6. CASE m # n
  <2>1. Begins(part[m], lines[m])
    BY <1>3, <1>4, <1>6
  <2> QED
    BY <1>4, <1>5, <2>1, Zenon DEF IsCut, n, m
<1>7. CASE m = n /\ Len(part[m]) <= Len(lines[n])
  <2>1. \A c \in 1 .. Len(part[m]) : c \in 1 .. Len(lines[n])
    BY <1>1, <1>4, <1>7
  <2>2. Begins(part[m], lines[m])
    BY <1>2, <1>3, <1>4, <1>7, <2>1 DEF Begins
  <2> QED
    BY <1>4, <1>5, <2>2, Zenon DEF IsCut, n, m
<1>8. CASE m = n /\ Len(part[m]) = Len(line)
  <2>1. part[m] = line
    BY <1>2, <1>3, <1>4, <1>8, SameLength
  <2>2. \A i \in 1 .. n : part[i] = after[i]
    BY <1>1, <1>3, <1>4, <1>8, <2>1
  <2>3. Len(part) = Len(after) /\ \A i \in 1 .. Len(part) : part[i] = after[i]
    BY <1>3, <1>8, <2>2 DEF m
  <2> QED
    BY <1>3, <2>3, SeqEqual DEF LinesOf
<1>9. m = n => Len(part[m]) <= Len(lines[n]) \/ Len(part[m]) = Len(line)
  BY <1>1, <1>2, <1>3, <1>4 DEF Begins
<1> QED
  BY <1>6, <1>7, <1>8, <1>9

LEMMA CutOfNewline ==
  ASSUME NEW N, NEW lines \in LinesOf(N), NEW after, after = Append(lines, << >>),
         NEW part \in LinesOf(N), IsCut(part, after)
  PROVE  part = after \/ IsCut(part, lines)
<1> DEFINE n == Len(lines)
           m == Len(part)
<1>1. << >> \in Seq(Chunks(N)) /\ Len(<< >>) = 0
  BY EmptySeq
<1>2. /\ n \in Nat /\ after \in LinesOf(N) /\ Len(after) = n + 1 /\ after[n + 1] = << >>
      /\ \A i \in 1 .. n : after[i] = lines[i]
  BY <1>1, AppendProperties, LenProperties DEF LinesOf
<1>3. /\ m \in 1 .. n + 1 /\ Begins(part[m], after[m])
      /\ \A i \in 1 .. m : i < m => part[i] = after[i]
      /\ part[m] \in Seq(Chunks(N)) /\ Len(part[m]) \in Nat
  <2>1. m \in 1 .. n + 1 /\ m \in 1 .. m
    BY <1>2, LinesFacts DEF IsCut
  <2> QED
    BY <1>2, <2>1, LinesFacts DEF IsCut
<1> HIDE DEF n, m
<1>4. CASE m <= n
  <2>1. m \in 1 .. n /\ \A i \in 1 .. m : i < m => part[i] = lines[i]
    BY <1>2, <1>3, <1>4
  <2>2. Begins(part[m], lines[m])
    BY <1>2, <1>3, <2>1
  <2> QED
    BY <2>1, <2>2, Zenon DEF IsCut, n, m
<1>5. CASE m = n + 1
  <2>1. part[m] = << >>
    <3>1. Len(part[m]) = 0
      BY <1>1, <1>2, <1>3, <1>5 DEF Begins
    <3> QED
      BY <1>3, <3>1, EmptySeq
  <2>2. \A i \in 1 .. n + 1 : part[i] = after[i]
    BY <1>2, <1>3, <1>5, <2>1
  <2>3. Len(part) = Len(after) /\ \A i \in 1 .. Len(part) : part[i] = after[i]
    BY <1>2, <1>5, <2>2 DEF m
  <2> QED
    BY <1>2, <2>3, SeqEqual DEF LinesOf
<1> QED
  BY <1>2, <1>3, <1>4, <1>5

\* open reads from a cut of a file that can be read the first nodes of it.
LEMMA CutReads ==
  ASSUME NEW N, NEW lines \in LinesOf(N), AllParse(lines),
         NEW part \in LinesOf(N), IsCut(part, lines)
  PROVE  Begins(NodesIn(part), NodesIn(lines))
<1> DEFINE n == Len(lines)
           m == Len(part)
<1>1. PICK f \in [0 .. n -> Seq(N)] :
        /\ f[0] = << >>
        /\ \A i \in 0 .. n : i < n => f[i + 1] = AddLine(f[i], lines[i + 1])
        /\ NodesIn(lines) = f[n]
  BY ReadingRuns
<1>2. PICK g \in [0 .. m -> Seq(N)] :
        /\ g[0] = << >>
        /\ \A i \in 0 .. m : i < m => g[i + 1] = AddLine(g[i], part[i + 1])
        /\ NodesIn(part) = g[m]
  BY ReadingRuns
<1>3. /\ n \in Nat /\ m \in 1 .. n
      /\ \A i \in 1 .. m : i < m => part[i] = lines[i]
      /\ \A i \in 1 .. n : lines[i] \in Seq(Chunks(N)) /\ Len(lines[i]) \in Nat
      /\ Begins(part[m], lines[m])
      /\ \A i \in 1 .. n : Blank(lines[i]) \/ Parses(lines[i])
  BY LinesFacts DEF IsCut, AllParse
<1>4. PICK k \in 0 .. n : m = k + 1
  <2> HIDE DEF n, m
  <2>1. m - 1 \in 0 .. n /\ m = (m - 1) + 1
    BY <1>3
  <2> QED
    BY <2>1
<1>5. part[m] \in Seq(Chunks(N)) /\ Len(part[m]) \in Nat
  <2>1. m \in 1 .. m
    BY <1>3
  <2> QED
    BY <2>1, LinesFacts
<1> HIDE DEF n, m
<1>6. k \in Nat /\ k \in 0 .. n /\ k < n /\ k \in 0 .. m /\ k < m
  BY <1>3, <1>4
<1>7. \A i \in 0 .. k : g[i] = f[i]
  <2> DEFINE same == {i \in 0 .. k : g[i] = f[i]}
  <2>1. 0 \in same
    BY <1>1, <1>2, <1>6
  <2>2. ASSUME NEW i \in 0 .. k, i < k, i \in same PROVE i + 1 \in same
    <3>1. /\ i \in 0 .. n /\ i < n /\ i \in 0 .. m /\ i < m
          /\ i + 1 \in 1 .. m /\ i + 1 < m /\ i + 1 \in 0 .. k
      BY <1>3, <1>4, <1>6, <2>2
    <3>2. part[i + 1] = lines[i + 1]
      BY <1>3, <3>1
    <3> QED
      BY <1>1, <1>2, <2>2, <3>1, <3>2
  <2> HIDE DEF same
  <2>3. \A i \in 0 .. k : i \in same
    BY <1>6, <2>1, <2>2, InductionTo
  <2> QED
    BY <2>3 DEF same
<1>8. \A i \in 0 .. n : f[i] \in Seq(N) /\ Len(f[i]) \in Nat
  BY <1>1, LenProperties
<1>9. ASSUME NEW j \in 0 .. n PROVE \A i \in 0 .. n : j <= i => Begins(f[j], f[i])
  <2> DEFINE after == {i \in 0 .. n : j <= i => Begins(f[j], f[i])}
  <2>1. Begins(f[j], f[j])
    BY <1>8 DEF Begins
  <2>2. 0 \in after
    <3>1. j <= 0 => j = 0
      BY <1>3
    <3> QED
      BY <1>3, <2>1, <3>1
  <2>3. ASSUME NEW i \in 0 .. n, i < n, i \in after PROVE i + 1 \in after
    <3>1. i + 1 \in 0 .. n /\ i + 1 \in 1 .. n
      BY <1>3, <2>3
    <3>2. CASE j <= i
      <4>1. Begins(f[j], f[i])
        BY <2>3, <3>2
      <4>2. f[i + 1] = f[i] \/ \E node \in N : f[i + 1] = Append(f[i], node)
        <5>1. lines[i + 1] \in Seq(Chunks(N))
          BY <1>3, <3>1
        <5>2. ~Blank(lines[i + 1]) => lines[i + 1][1].node \in N
          BY <5>1, LineFacts
        <5> QED
          BY <1>1, <2>3, <5>2 DEF AddLine
      <4>3. Begins(f[i], f[i + 1])
        <5>1. f[i] \in Seq(N) /\ Len(f[i]) \in Nat
          BY <1>8
        <5>2. CASE f[i + 1] = f[i]
          BY <5>1, <5>2 DEF Begins
        <5>3. CASE \E node \in N : f[i + 1] = Append(f[i], node)
          <6>1. PICK node \in N : f[i + 1] = Append(f[i], node)
            BY <5>3
          <6>2. Len(f[i + 1]) = Len(f[i]) + 1
                /\ \A c \in 1 .. Len(f[i]) : f[i + 1][c] = f[i][c]
            BY <5>1, <6>1, AppendProperties
          <6> QED
            BY <5>1, <6>2 DEF Begins
        <5> QED
          BY <4>2, <5>2, <5>3
      <4>4. /\ Len(f[j]) \in Nat /\ Len(f[i]) \in Nat /\ Len(f[i + 1]) \in Nat
        BY <1>8, <3>1
      <4>5. \A c \in 1 .. Len(f[j]) : c \in 1 .. Len(f[i])
        BY <4>1, <4>4 DEF Begins
      <4>6. Begins(f[j], f[i + 1])
        BY <4>1, <4>3, <4>4, <4>5 DEF Begins
      <4> QED
        BY <3>1, <4>6
    <3>3. CASE j = i + 1
      BY <2>1, <3>1, <3>3
    <3>4. CASE j > i + 1
      BY <1>3, <3>1, <3>4
    <3> QED
      BY <1>3, <3>1, <3>2, <3>3, <3>4
  <2> HIDE DEF after
  <2>4. \A i \in 0 .. n : i \in after
    BY <1>3, <2>2, <2>3, InductionTo
  <2> QED
    BY <2>4 DEF after
<1>10. g[m] = AddLine(f[k], part[m])
  BY <1>2, <1>4, <1>6, <1>7
<1>11. f[m] = AddLine(f[k], lines[m])
  BY <1>1, <1>4, <1>6
<1>12. Blank(part[m]) \/ part[m] = lines[m]
  <2>1. lines[m] \in Seq(Chunks(N)) /\ Len(lines[m]) \in Nat
    BY <1>3
  <2>2. Len(lines[m]) = 0 \/ Len(lines[m]) = 1
    BY <1>3, <2>1, LineFacts DEF Parses
  <2>3. Len(part[m]) = 0 \/ Len(part[m]) = Len(lines[m])
    <3>1. Len(part[m]) <= Len(lines[m])
      BY <1>3 DEF Begins
    <3>2. \A a, b \in Nat : a <= b /\ (b = 0 \/ b = 1) => a = 0 \/ a = b
      OBVIOUS
    <3> QED
      BY <1>5, <2>1, <2>2, <3>1, <3>2, Zenon
  <2> QED
    BY <1>3, <1>5, <2>1, <2>3, LineFacts, SameLength
<1>13. g[m] = f[k] \/ g[m] = f[m]
  BY <1>10, <1>11, <1>12 DEF AddLine
<1>14. k \in 0 .. n /\ k <= n /\ m \in 0 .. n /\ m <= n /\ n \in 0 .. n
  BY <1>3, <1>6
<1> QED
  BY <1>1, <1>2, <1>9, <1>13, <1>14 DEF n

\* The first i lines, the last of them replaced.
Kept(lines, i, line) == [SubSeq(lines, 1, i) EXCEPT ![i] = line]

\* The first c chunks, the last of them torn.
TornLine(line, c) == [SubSeq(line, 1, c) EXCEPT ![c].whole = FALSE]

LEMMA KeptFacts ==
  ASSUME NEW N, NEW lines \in LinesOf(N), NEW i \in 1 .. Len(lines), NEW line \in Seq(Chunks(N))
  PROVE  /\ Kept(lines, i, line) \in LinesOf(N) /\ Len(Kept(lines, i, line)) = i
         /\ Kept(lines, i, line)[i] = line
         /\ \A k \in 1 .. i : k < i => Kept(lines, i, line)[k] = lines[k]
<1> DEFINE first == SubSeq(lines, 1, i)
<1>1. Len(lines) \in Nat /\ \A k \in 1 .. Len(lines) : lines[k] \in Seq(Chunks(N))
  BY LinesFacts
<1>2. 1 \in Int /\ i \in Int /\ 1 <= i /\ i - 1 + 1 = i
      /\ \A k \in 1 .. i : lines[k] \in Seq(Chunks(N)) /\ 1 + k - 1 = k
  BY <1>1
<1>3. /\ first \in Seq(Seq(Chunks(N))) /\ Len(first) = IF 1 <= i THEN i - 1 + 1 ELSE 0
      /\ \A k \in 1 .. i - 1 + 1 : first[k] = lines[1 + k - 1]
  BY <1>2, SubSeqProperties
<1>4. Len(first) = i /\ \A k \in 1 .. i : first[k] = lines[k]
  BY <1>2, <1>3
<1>5. i \in 1 .. Len(first)
  BY <1>2, <1>4
<1> HIDE DEF first
<1>6. /\ [first EXCEPT ![i] = line] \in Seq(Seq(Chunks(N)))
      /\ Len([first EXCEPT ![i] = line]) = Len(first)
      /\ \A k \in 1 .. Len(first) :
           [first EXCEPT ![i] = line][k] = IF k = i THEN line ELSE first[k]
  BY <1>3, <1>5, ExceptSeq
<1>7. Kept(lines, i, line) = [first EXCEPT ![i] = line]
  BY DEF Kept, first
<1> QED
  BY <1>4, <1>5, <1>6, <1>7 DEF LinesOf

LEMMA CutLine ==
  ASSUME NEW N, NEW line \in Seq(Chunks(N)), NEW c \in 0 .. Len(line)
  PROVE  /\ SubSeq(line, 1, c) \in Seq(Chunks(N)) /\ Len(SubSeq(line, 1, c)) = c
         /\ \A k \in 1 .. c : SubSeq(line, 1, c)[k] = line[k]
<1>1. Len(line) \in Nat /\ \A k \in 1 .. Len(line) : line[k] \in Chunks(N)
  BY LenProperties, ElementOfSeq
<1>2. 1 \in Int /\ c \in Int /\ c >= 0 /\ c - 1 + 1 = c
      /\ \A k \in 1 .. c : line[k] \in Chunks(N) /\ 1 + k - 1 = k
  BY <1>1
<1>3. /\ SubSeq(line, 1, c) \in Seq(Chunks(N))
      /\ Len(SubSeq(line, 1, c)) = IF 1 <= c THEN c - 1 + 1 ELSE 0
      /\ \A k \in 1 .. c - 1 + 1 : SubSeq(line, 1, c)[k] = line[1 + k - 1]
  BY <1>2, SubSeqProperties
<1>4. Len(SubSeq(line, 1, c)) = c
  BY <1>2, <1>3
<1> QED
  BY <1>2, <1>3, <1>4

LEMMA TornLineFacts ==
  ASSUME NEW N, NEW line \in Seq(Chunks(N)), NEW c \in 1 .. Len(line)
  PROVE  /\ TornLine(line, c) \in Seq(Chunks(N)) /\ Len(TornLine(line, c)) = c
         /\ \A k \in 1 .. c : k < c => TornLine(line, c)[k] = line[k]
         /\ ~Blank(TornLine(line, c)) /\ ~Parses(TornLine(line, c))
<1> DEFINE first == SubSeq(line, 1, c)
           torn == [first[c] EXCEPT !.whole = FALSE]
<1>1. Len(line) \in Nat /\ c \in 0 .. Len(line) /\ c \in 1 .. c /\ c # 0
  BY LenProperties
<1>2. first \in Seq(Chunks(N)) /\ Len(first) = c /\ \A k \in 1 .. c : first[k] = line[k]
  BY <1>1, CutLine
<1> HIDE DEF first
<1>3. torn \in Chunks(N) /\ torn.whole = FALSE
  <2>1. first[c] \in Chunks(N)
    BY <1>1, <1>2, ElementOfSeq
  <2> QED
    BY <2>1 DEF Chunks
<1> HIDE DEF torn
<1>4. TornLine(line, c) = [first EXCEPT ![c] = torn]
  BY DEF TornLine, first, torn
<1>5. /\ [first EXCEPT ![c] = torn] \in Seq(Chunks(N))
      /\ Len([first EXCEPT ![c] = torn]) = Len(first)
      /\ \A k \in 1 .. Len(first) : [first EXCEPT ![c] = torn][k] = IF k = c THEN torn ELSE first[k]
  BY <1>1, <1>2, <1>3, ExceptSeq
<1>6. /\ TornLine(line, c) \in Seq(Chunks(N)) /\ Len(TornLine(line, c)) = c
      /\ \A k \in 1 .. c : k < c => TornLine(line, c)[k] = line[k]
      /\ TornLine(line, c)[c] = torn
  BY <1>1, <1>2, <1>4, <1>5
<1>7. ~Blank(TornLine(line, c))
  BY <1>1, <1>6, LineFacts
<1>8. ~Parses(TornLine(line, c))
  BY <1>3, <1>6 DEF Parses
<1> QED
  BY <1>6, <1>7, <1>8

\* What is cut from a file that was cut was cut from the file, or is torn.
LEMMA CutOfKept ==
  ASSUME NEW N, NEW lines \in LinesOf(N), NEW i \in 1 .. Len(lines),
         NEW line \in Seq(Chunks(N)), NEW kept, kept = Kept(lines, i, line),
         \/ Begins(line, lines[i])
         \/ \E c \in 1 .. Len(lines[i]) : line = TornLine(lines[i], c)
  PROVE  /\ kept \in LinesOf(N) /\ kept # << >>
         /\ \A part \in LinesOf(N) : IsCut(part, kept) /\ AllParse(part) => IsCut(part, lines)
<1>1. /\ kept \in LinesOf(N) /\ Len(kept) = i /\ kept[i] = line
      /\ \A k \in 1 .. i : k < i => kept[k] = lines[k]
  BY KeptFacts
<1>2. /\ Len(lines) \in Nat /\ lines[i] \in Seq(Chunks(N)) /\ Len(lines[i]) \in Nat
      /\ Len(line) \in Nat
  BY LinesFacts, LenProperties
<1>3. kept # << >>
  BY <1>1, <1>2, EmptySeq
<1>4. ASSUME Begins(line, lines[i]) PROVE IsCut(kept, lines)
  BY <1>1, <1>2, <1>4, Zenon DEF IsCut
<1>5. ASSUME NEW part \in LinesOf(N), IsCut(part, kept), AllParse(part),
             NEW c \in 1 .. Len(lines[i]), line = TornLine(lines[i], c)
      PROVE  IsCut(part, lines)
  <2> DEFINE m == Len(part)
  <2>1. /\ m \in Nat /\ DOMAIN part = 1 .. m /\ m \in 1 .. i
        /\ \A k \in 1 .. m : k < m => part[k] = kept[k]
        /\ Begins(part[m], kept[m])
    BY <1>1, <1>5, LinesFacts DEF IsCut
  <2>2. part[m] \in Seq(Chunks(N)) /\ Len(part[m]) \in Nat
    <3>1. m \in 1 .. m
      BY <2>1
    <3> QED
      BY <3>1, LinesFacts
  <2>3. Blank(part[m]) \/ Parses(part[m])
    BY <1>5, <2>1 DEF AllParse
  <2>4. /\ Len(line) = c /\ ~Blank(line) /\ ~Parses(line)
        /\ \A k \in 1 .. c : k < c => line[k] = lines[i][k]
    BY <1>2, <1>5, TornLineFacts
  <2> HIDE DEF m
  <2>5. m \in 1 .. Len(lines) /\ \A k \in 1 .. m : k < m => part[k] = lines[k]
    BY <1>1, <1>2, <2>1
  <2>6. Begins(part[m], lines[m])
    <3>1. CASE m # i
      BY <1>1, <2>1, <3>1
    <3>2. CASE m = i
      <4>1. Begins(part[m], line)
        BY <1>1, <2>1, <3>2
      <4>2. Len(part[m]) # c
        BY <2>2, <2>3, <2>4, <4>1, SameLength
      <4>3. Len(part[m]) < c
        <5>1. Len(part[m]) <= c
          BY <2>4, <4>1 DEF Begins
        <5> QED
          BY <1>2, <2>2, <4>2, <5>1
      <4>4. Len(part[m]) <= Len(lines[i])
            /\ \A k \in 1 .. Len(part[m]) : k \in 1 .. c /\ k < c
        BY <1>2, <2>2, <4>3
      <4> QED
        BY <2>4, <3>2, <4>1, <4>4 DEF Begins
    <3> QED
      BY <3>1, <3>2
  <2> QED
    BY <2>5, <2>6, Zenon DEF IsCut, m
<1>6. ASSUME NEW part \in LinesOf(N), IsCut(part, kept), AllParse(part)
      PROVE  IsCut(part, lines)
  BY <1>1, <1>4, <1>5, <1>6, CutOfCut
<1> QED
  BY <1>1, <1>3, <1>6

=============================================================================
