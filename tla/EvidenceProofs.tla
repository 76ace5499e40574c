--------------------------- MODULE EvidenceProofs ---------------------------
(***************************************************************************)
(* Theorems about canonical JSON and evidence bundles, for every set of    *)
(* strings, every depth, every value a host puts into a bundle and every   *)
(* order of its calls.                                                     *)
(*                                                                         *)
(* That the bytes tell values apart is proved of a text and whatever       *)
(* follows it: no text begins with what closes a list, and only a number   *)
(* could run on, which what follows it never lets it do.  That holds of    *)
(* the values of one depth if it holds of those one less deep, and so of   *)
(* all of them.  The JSON of a bundle is one of these values, by the types *)
(* of what the hosts put into it.                                          *)
(***************************************************************************)
EXTENDS EvidenceBuilder, NumberProofs, SequenceTheorems

-----------------------------------------------------------------------------
(* Sequences one after the other. *)

\* Appending all parts in order: from the right, whatever follows them.
IsTail(tail, parts, rest, S) ==
  /\ tail \in [1 .. Len(parts) + 1 -> Seq(S)]
  /\ tail[Len(parts) + 1] = rest
  /\ \A i \in 1 .. Len(parts) : tail[i] = parts[i] \o tail[i + 1]

\* There is such a function.
LEMMA TailExists ==
  ASSUME NEW S, NEW parts \in Seq(Seq(S)), NEW rest \in Seq(S)
  PROVE  \E tail : IsTail(tail, parts, rest, S)
<1> DEFINE n == Len(parts)
           step == [p \in (1 .. n) \X Seq(S) |-> parts[n + 1 - p[1]] \o p[2]]
<1>1. n \in Nat /\ \A k \in 1 .. n : parts[k] \in Seq(S)
  OBVIOUS
<1>2. \A k \in 1 .. n, value \in Seq(S) : step[<<k, value>>] = parts[n + 1 - k] \o value
  OBVIOUS
<1>3. IsBody(step, n, Seq(S))
  <2> SUFFICES ASSUME NEW k \in 1 .. n, NEW value \in Seq(S)
               PROVE  step[<<k, value>>] \in Seq(S)
    BY Zenon DEF IsBody
  <2>1. parts[n + 1 - k] \in Seq(S)
    BY <1>1
  <2> QED
    BY <1>2, <2>1
<1> HIDE DEF step, n
<1>4. PICK f : IsRun(f, step, n, Seq(S), rest)
  BY <1>1, <1>3, LoopTo
<1> DEFINE tail == [i \in 1 .. n + 1 |-> f[n + 1 - i]]
<1>5. \A i \in 1 .. n + 1 : n + 1 - i \in 0 .. n /\ f[n + 1 - i] \in Seq(S)
  BY <1>1, <1>4 DEF IsRun
<1>6. tail \in [1 .. n + 1 -> Seq(S)]
  BY <1>5
<1>7. tail[n + 1] = rest
  BY <1>1, <1>4 DEF IsRun
<1>8. ASSUME NEW i \in 1 .. n PROVE tail[i] = parts[i] \o tail[i + 1]
  <2>1. /\ n + 1 - i \in 1 .. n /\ (n + 1 - i) - 1 = n + 1 - (i + 1)
        /\ n + 1 - (n + 1 - i) = i /\ i + 1 \in 1 .. n + 1 /\ i \in 1 .. n + 1
    BY <1>1
  <2>2. f[n + 1 - i] = step[<<n + 1 - i, f[n + 1 - (i + 1)]>>]
    BY <1>4, <2>1 DEF IsRun
  <2>3. f[n + 1 - (i + 1)] \in Seq(S)
    BY <1>5, <2>1
  <2>4. f[n + 1 - i] = parts[i] \o f[n + 1 - (i + 1)]
    BY <1>2, <2>1, <2>2, <2>3
  <2> QED
    BY <2>1, <2>4
<1> HIDE DEF tail
<1>9. IsTail(tail, parts, rest, S)
  BY <1>6, <1>7, <1>8, Zenon DEF IsTail, n
<1> QED
  BY <1>9

\* FlattenSeq is the last of its prefixes.
IsFlat(flat, parts, S) ==
  /\ flat \in [0 .. Len(parts) -> Seq(S)]
  /\ flat[0] = << >>
  /\ \A i \in 1 .. Len(parts) : flat[i] = flat[i - 1] \o parts[i]
  /\ Seqs!FlattenSeq(parts) = flat[Len(parts)]

\* FlattenSeq appends its parts one by one.
LEMMA FlattenPrefixes ==
  ASSUME NEW S, NEW parts \in Seq(Seq(S))
  PROVE  \E flat : IsFlat(flat, parts, S)
<1> DEFINE n == Len(parts)
           step == [p \in (1 .. n) \X Seq(S) |-> p[2] \o parts[p[1]]]
           Pass(f) == f = [i \in 1 .. n |-> IF i = 1 THEN parts[i] ELSE f[i - 1] \o parts[i]]
           flatten == CHOOSE f : Pass(f)
<1>1. n \in Nat /\ \A k \in 1 .. n : parts[k] \in Seq(S)
  OBVIOUS
<1>2. \A k \in 1 .. n, value \in Seq(S) : step[<<k, value>>] = value \o parts[k]
  OBVIOUS
<1>3. IsBody(step, n, Seq(S))
  <2> SUFFICES ASSUME NEW k \in 1 .. n, NEW value \in Seq(S)
               PROVE  step[<<k, value>>] \in Seq(S)
    BY Zenon DEF IsBody
  <2>1. parts[k] \in Seq(S)
    BY <1>1
  <2> QED
    BY <1>2, <2>1
<1>4. Seqs!FlattenSeq(parts) = IF n = 0 THEN parts ELSE flatten[n]
  BY Zenon DEF Seqs!FlattenSeq
<1> HIDE DEF step, n
<1>5. PICK flat : IsRun(flat, step, n, Seq(S), << >>)
  <2>1. << >> \in Seq(S)
    OBVIOUS
  <2> QED
    BY <1>1, <1>3, <2>1, LoopTo
<1>6. /\ flat \in [0 .. n -> Seq(S)] /\ flat[0] = << >>
      /\ \A i \in 1 .. n : i - 1 \in 0 .. n /\ flat[i - 1] \in Seq(S)
  BY <1>1, <1>5 DEF IsRun
<1>7. \A i \in 1 .. n : flat[i] = flat[i - 1] \o parts[i]
  BY <1>2, <1>5, <1>6 DEF IsRun
<1>8. \E f : Pass(f)
  <2> DEFINE f == [i \in 1 .. n |-> flat[i]]
  <2>1. ASSUME NEW i \in 1 .. n
        PROVE  f[i] = IF i = 1 THEN parts[i] ELSE f[i - 1] \o parts[i]
    <3>1. CASE i = 1
      <4>1. flat[1] = << >> \o parts[1]
        <5>1. flat[1] = flat[1 - 1] \o parts[1]
          BY <1>7, <3>1
        <5>2. 1 - 1 = 0
          OBVIOUS
        <5> QED
          BY <1>6, <5>1, <5>2
      <4>2. << >> \o parts[1] = parts[1]
        BY <1>1, <3>1, ConcatEmptySeq
      <4> QED
        BY <3>1, <4>1, <4>2
    <3>2. CASE i # 1
      <4>1. i - 1 \in 1 .. n
        BY <1>1, <3>2
      <4> QED
        BY <1>7, <3>2, <4>1
    <3> QED
      BY <3>1, <3>2
  <2>2. f = [i \in 1 .. n |-> IF i = 1 THEN parts[i] ELSE f[i - 1] \o parts[i]]
    BY <2>1
  <2> HIDE DEF f
  <2> QED
    BY <2>2
<1>9. Pass(flatten)
  BY <1>8, Zenon
<1> HIDE DEF flatten
<1>10. \A i \in 1 .. n : flatten[i] = IF i = 1 THEN parts[i] ELSE flatten[i - 1] \o parts[i]
  BY <1>9, Zenon
<1> DEFINE P == {k \in 0 .. n : k = 0 \/ flatten[k] = flat[k]}
<1>11. 0 \in P
  BY <1>1
<1>12. ASSUME NEW k \in 0 .. n, k < n /\ k \in P PROVE k + 1 \in P
  <2>1. k + 1 \in 1 .. n /\ k + 1 \in 0 .. n /\ (k + 1) - 1 = k
    BY <1>1, <1>12
  <2>2. flat[k + 1] = flat[k] \o parts[k + 1]
    BY <1>7, <2>1
  <2>3. CASE k = 0
    <3>1. k + 1 = 1 /\ 1 \in 1 .. n
      BY <2>1, <2>3
    <3>2. << >> \o parts[1] = parts[1]
      BY <1>1, <3>1, ConcatEmptySeq
    <3>3. flatten[1] = parts[1] /\ flat[1] = << >> \o parts[1]
      BY <1>6, <1>10, <2>2, <2>3, <3>1
    <3> QED
      BY <2>1, <3>1, <3>2, <3>3
  <2>4. CASE k # 0
    <3>1. k + 1 # 1
      BY <1>12, <2>4
    <3>2. flatten[k + 1] = flatten[(k + 1) - 1] \o parts[k + 1]
      BY <1>10, <2>1, <3>1, Zenon
    <3>3. flatten[k] = flat[k]
      BY <1>12, <2>4
    <3> QED
      BY <2>1, <2>2, <3>2, <3>3
  <2> QED
    BY <2>3, <2>4
<1> HIDE DEF P
<1>13. n \in P
  <2>1. \A k \in 0 .. n : k \in P
    BY <1>1, <1>11, <1>12, InductionTo
  <2> QED
    BY <1>1, <2>1
<1>14. Seqs!FlattenSeq(parts) = flat[n]
  <2>1. CASE n = 0
    <3>1. parts = << >>
      BY <2>1 DEF n
    <3> QED
      BY <1>4, <1>6, <2>1, <3>1
  <2>2. CASE n # 0
    BY <1>4, <1>13, <2>2 DEF P
  <2> QED
    BY <2>1, <2>2
<1>15. IsFlat(flat, parts, S)
  BY <1>6, <1>7, <1>14, Zenon DEF IsFlat, n
<1> QED
  BY <1>15
\* A concatenation is a sequence.
LEMMA ConcatIsSeq ==
  \A S : \A s, t \in Seq(S) : s \o t \in Seq(S)
BY ConcatProperties

\* Three sequences, one after the other.
ThreeGroups(x, y, z) == (x \o y) \o z = x \o (y \o z)

\* How they are grouped does not count.
LEMMA ConcatRegroups ==
  ASSUME NEW S, NEW x \in Seq(S), NEW y \in Seq(S), NEW z \in Seq(S)
  PROVE  ThreeGroups(x, y, z)
BY ConcatAssociative DEF ThreeGroups

\* All parts, and what follows them.
LEMMA FlattenTail ==
  ASSUME NEW S, NEW parts \in Seq(Seq(S)), NEW rest \in Seq(S),
         NEW tail, IsTail(tail, parts, rest, S)
  PROVE  /\ Seqs!FlattenSeq(parts) \in Seq(S)
         /\ Seqs!FlattenSeq(parts) \o rest = tail[1]
<1> DEFINE n == Len(parts)
<1>1. n \in Nat /\ \A k \in 1 .. n : parts[k] \in Seq(S)
  OBVIOUS
<1>2. PICK flat : IsFlat(flat, parts, S)
  BY FlattenPrefixes
<1>3. /\ flat \in [0 .. n -> Seq(S)] /\ flat[0] = << >>
      /\ \A i \in 1 .. n : flat[i] = flat[i - 1] \o parts[i]
      /\ Seqs!FlattenSeq(parts) = flat[n]
  BY <1>2, Zenon DEF IsFlat
<1>4. /\ tail \in [1 .. n + 1 -> Seq(S)] /\ tail[n + 1] = rest
      /\ \A i \in 1 .. n : tail[i] = parts[i] \o tail[i + 1]
  BY Zenon DEF IsTail
<1> HIDE DEF n
<1> DEFINE P == {k \in 0 .. n : flat[k] \o tail[k + 1] = tail[1]}
<1>5. 0 \in P
  <2>1. tail[1] \in Seq(S) /\ 0 + 1 = 1 /\ 0 \in 0 .. n
    BY <1>1, <1>4
  <2>2. << >> \o tail[1] = tail[1]
    BY <2>1, ConcatEmptySeq
  <2> QED
    BY <1>3, <2>1, <2>2
<1>6. ASSUME NEW k \in 0 .. n, k < n /\ k \in P PROVE k + 1 \in P
  <2>1. /\ k + 1 \in 1 .. n /\ k + 1 \in 0 .. n /\ (k + 1) - 1 = k
        /\ k \in 0 .. n /\ (k + 1) + 1 \in 1 .. n + 1
    BY <1>1, <1>6
  <2>2. flat[k + 1] = flat[k] \o parts[k + 1] /\ tail[k + 1] = parts[k + 1] \o tail[(k + 1) + 1]
    BY <1>3, <1>4, <2>1
  <2>3. flat[k] \in Seq(S) /\ parts[k + 1] \in Seq(S) /\ tail[(k + 1) + 1] \in Seq(S)
    BY <1>1, <1>3, <1>4, <2>1
  <2>4. (flat[k] \o parts[k + 1]) \o tail[(k + 1) + 1] = flat[k] \o (parts[k + 1] \o tail[(k + 1) + 1])
    <3>1. ThreeGroups(flat[k], parts[k + 1], tail[(k + 1) + 1])
      BY <2>3, ConcatRegroups, Zenon
    <3> QED
      BY <3>1, Zenon DEF ThreeGroups
  <2> QED
    BY <1>6, <2>1, <2>2, <2>4
<1> HIDE DEF P
<1>7. n \in P
  <2>1. \A k \in 0 .. n : k \in P
    BY <1>1, <1>5, <1>6, InductionTo
  <2> QED
    BY <1>1, <2>1
<1> QED
  BY <1>1, <1>3, <1>4, <1>7 DEF P

\* What is in it is what is in some part.
LEMMA FlattenElements ==
  ASSUME NEW S, NEW parts \in Seq(Seq(S))
  PROVE  /\ Seqs!FlattenSeq(parts) \in Seq(S)
         /\ \A x : x \in Range(Seqs!FlattenSeq(parts)) <=>
                   \E i \in 1 .. Len(parts) : x \in Range(parts[i])
<1> DEFINE n == Len(parts)
<1>1. n \in Nat /\ \A k \in 1 .. n : parts[k] \in Seq(S)
  OBVIOUS
<1>2. PICK flat : IsFlat(flat, parts, S)
  BY FlattenPrefixes
<1>3. /\ flat \in [0 .. n -> Seq(S)] /\ flat[0] = << >>
      /\ \A i \in 1 .. n : flat[i] = flat[i - 1] \o parts[i]
      /\ Seqs!FlattenSeq(parts) = flat[n]
  BY <1>2, Zenon DEF IsFlat
<1> HIDE DEF n
<1> DEFINE P == {k \in 0 .. n : \A x : x \in Range(flat[k]) <=>
                                      \E i \in 1 .. k : x \in Range(parts[i])}
<1>4. 0 \in P
  <2>1. Range(<< >>) = {}
    BY DEF Range
  <2> QED
    BY <1>1, <1>3, <2>1
<1>5. ASSUME NEW k \in 0 .. n, k < n /\ k \in P PROVE k + 1 \in P
  <2>1. /\ k + 1 \in 1 .. n /\ k + 1 \in 0 .. n /\ (k + 1) - 1 = k
        /\ \A i : i \in 1 .. k + 1 <=> i \in 1 .. k \/ i = k + 1
    BY <1>1, <1>5
  <2>2. flat[k + 1] = flat[k] \o parts[k + 1] /\ flat[k] \in Seq(S) /\ parts[k + 1] \in Seq(S)
    BY <1>1, <1>3, <2>1
  <2>3. Range(flat[k + 1]) = Range(flat[k]) \cup Range(parts[k + 1])
    BY <2>2, RangeConcatenation
  <2>4. \A x : x \in Range(flat[k]) <=> \E i \in 1 .. k : x \in Range(parts[i])
    BY <1>5
  <2>5. \A x : x \in Range(flat[k + 1]) <=> \E i \in 1 .. k + 1 : x \in Range(parts[i])
    BY <2>1, <2>3, <2>4, Zenon
  <2> QED
    BY <2>1, <2>5
<1> HIDE DEF P
<1>6. n \in P
  <2>1. \A k \in 0 .. n : k \in P
    BY <1>1, <1>4, <1>5, InductionTo
  <2> QED
    BY <1>1, <2>1
<1>7. flat[n] \in Seq(S)
  BY <1>1, <1>3
<1>8. \A x : x \in Range(flat[n]) <=> \E i \in 1 .. n : x \in Range(parts[i])
  BY <1>6 DEF P
<1> QED
  BY <1>3, <1>7, <1>8, Zenon DEF n
\* What stands first in a concatenation, and what is left without it.
LEMMA FirstPiece ==
  ASSUME NEW S, NEW x \in S, NEW s \in Seq(S)
  PROVE  /\ <<x>> \o s \in Seq(S) /\ <<x>> \o s # << >>
         /\ (<<x>> \o s)[1] = x
<1>1. <<x>> \in Seq(S) /\ Len(<<x>>) = 1 /\ <<x>>[1] = x
  OBVIOUS
<1>2. /\ <<x>> \o s \in Seq(S) /\ Len(<<x>> \o s) = 1 + Len(s)
      /\ \A i \in 1 .. 1 + Len(s) : (<<x>> \o s)[i] = IF i <= 1 THEN <<x>>[i] ELSE s[i - 1]
  BY <1>1, ConcatProperties
<1>3. Len(s) \in Nat
  OBVIOUS
<1>4. 1 \in 1 .. 1 + Len(s) /\ Len(<<x>> \o s) # 0
  BY <1>2, <1>3
<1> QED
  BY <1>1, <1>2, <1>4

\* A concatenation begins as its first part does.
LEMMA FirstOfConcat ==
  ASSUME NEW S, NEW s \in Seq(S), s # << >>, NEW t \in Seq(S)
  PROVE  s \o t \in Seq(S) /\ s \o t # << >> /\ (s \o t)[1] = s[1] /\ s[1] \in S
<1>1. /\ s \o t \in Seq(S) /\ Len(s \o t) = Len(s) + Len(t)
      /\ \A i \in 1 .. Len(s) + Len(t) : (s \o t)[i] = IF i <= Len(s) THEN s[i] ELSE t[i - Len(s)]
  BY ConcatProperties
<1>2. Len(s) \in Nat \ {0} /\ Len(t) \in Nat
  BY EmptySeq, LenProperties
<1>3. 1 \in 1 .. Len(s) + Len(t) /\ 1 <= Len(s) /\ Len(s \o t) # 0
  BY <1>1, <1>2
<1> QED
  BY <1>1, <1>3

\* What stands first can be taken from both sides.
LEMMA CancelFirst ==
  ASSUME NEW S, NEW s \in Seq(S), NEW t \in Seq(S), NEW u \in Seq(S), s \o t = s \o u
  PROVE  t = u
BY ConcatSimplifications

\* No run of elements of D goes on in what follows.
Ends(s, D) == s = << >> \/ s[1] \notin D

\* Two runs, each followed by something else, are the same.
LEMMA RunsApart ==
  ASSUME NEW S, NEW D \in SUBSET S, NEW s \in Seq(D), NEW t \in Seq(D),
         NEW u \in Seq(S), NEW v \in Seq(S), Ends(u, D), Ends(v, D),
         s \o u = t \o v
  PROVE  s = t /\ u = v
<1>1. s \in Seq(S) /\ t \in Seq(S)
  BY SeqMonotonic
<1>2. /\ Len(s) \in Nat /\ Len(t) \in Nat /\ Len(u) \in Nat /\ Len(v) \in Nat
      /\ \A i \in 1 .. Len(s) : s[i] \in D
      /\ \A i \in 1 .. Len(t) : t[i] \in D
  OBVIOUS
<1>3. /\ Len(s) + Len(u) = Len(t) + Len(v)
      /\ \A i \in 1 .. Len(s) + Len(u) : (s \o u)[i] = IF i <= Len(s) THEN s[i] ELSE u[i - Len(s)]
      /\ \A i \in 1 .. Len(s) + Len(u) : (s \o u)[i] = IF i <= Len(t) THEN t[i] ELSE v[i - Len(t)]
  <2>1. /\ Len(s \o u) = Len(s) + Len(u)
        /\ \A i \in 1 .. Len(s) + Len(u) : (s \o u)[i] = IF i <= Len(s) THEN s[i] ELSE u[i - Len(s)]
    BY <1>1, ConcatProperties
  <2>2. /\ Len(t \o v) = Len(t) + Len(v)
        /\ \A i \in 1 .. Len(t) + Len(v) : (t \o v)[i] = IF i <= Len(t) THEN t[i] ELSE v[i - Len(t)]
    BY <1>1, ConcatProperties
  <2>3. Len(s) + Len(u) = Len(t) + Len(v)
    BY <2>1, <2>2
  <2> QED
    BY <2>1, <2>2, <2>3, Zenon
<1>4. ~(Len(s) < Len(t))
  <2> SUFFICES ASSUME Len(s) < Len(t) PROVE FALSE
    OBVIOUS
  <2> DEFINE i == Len(s) + 1
  <2>1. /\ i \in 1 .. Len(s) + Len(u) /\ i \in 1 .. Len(t) /\ i <= Len(t)
        /\ ~(i <= Len(s)) /\ i - Len(s) = 1 /\ Len(u) # 0
    BY <1>2, <1>3
  <2> HIDE DEF i
  <2>2. t[i] = u[1]
    <3>1. (s \o u)[i] = u[i - Len(s)]
      BY <1>3, <2>1, Zenon
    <3>2. (s \o u)[i] = t[i]
      BY <1>3, <2>1, Zenon
    <3> QED
      BY <2>1, <3>1, <3>2, Zenon
  <2>3. u # << >>
    BY <2>1
  <2> QED
    BY <1>2, <2>1, <2>2, <2>3 DEF Ends
<1>5. ~(Len(t) < Len(s))
  <2> SUFFICES ASSUME Len(t) < Len(s) PROVE FALSE
    OBVIOUS
  <2> DEFINE i == Len(t) + 1
  <2>1. /\ i \in 1 .. Len(s) + Len(u) /\ i \in 1 .. Len(s) /\ i <= Len(s)
        /\ ~(i <= Len(t)) /\ i - Len(t) = 1 /\ Len(v) # 0
    BY <1>2, <1>3
  <2> HIDE DEF i
  <2>2. s[i] = v[1]
    <3>1. (s \o u)[i] = v[i - Len(t)]
      BY <1>3, <2>1, Zenon
    <3>2. (s \o u)[i] = s[i]
      BY <1>3, <2>1, Zenon
    <3> QED
      BY <2>1, <3>1, <3>2, Zenon
  <2>3. v # << >>
    BY <2>1
  <2> QED
    BY <1>2, <2>1, <2>2, <2>3 DEF Ends
<1>6. Len(s) = Len(t)
  BY <1>2, <1>4, <1>5
<1>7. ASSUME NEW i \in 1 .. Len(s) PROVE s[i] = t[i]
  <2>1. i \in 1 .. Len(s) + Len(u) /\ i <= Len(s) /\ i <= Len(t)
    BY <1>2, <1>6
  <2> QED
    BY <1>3, <2>1
<1>8. s = t
  BY <1>1, <1>6, <1>7, SeqEqual
<1> QED
  BY <1>1, <1>8, CancelFirst
-----------------------------------------------------------------------------
(* Lists of texts with commas between them. *)

\* What is left of a list from each of its items on, up to what closes it.
IsRest(left, parts, closing, S) ==
  /\ left \in [1 .. Len(parts) + 1 -> Seq(S)]
  /\ left[Len(parts) + 1] = closing
  /\ \A i \in 1 .. Len(parts) :
       left[i] = IF i = 1 THEN parts[i] \o left[i + 1]
                 ELSE <<"comma">> \o (parts[i] \o left[i + 1])

\* What Joined writes before a rest is read part by part.
LEMMA JoinedRest ==
  ASSUME NEW S, "comma" \in S, NEW parts \in Seq(Seq(S)), NEW closing \in Seq(S)
  PROVE  /\ Joined(parts) \in Seq(S)
         /\ \E left : /\ IsRest(left, parts, closing, S)
                      /\ Joined(parts) \o closing = left[1]
<1> DEFINE n == Len(parts)
           with == [i \in DOMAIN parts |-> IF i > 1 THEN <<"comma">> \o parts[i] ELSE parts[i]]
<1>1. n \in Nat /\ DOMAIN parts = 1 .. n /\ \A i \in 1 .. n : parts[i] \in Seq(S)
  OBVIOUS
<1>2. <<"comma">> \in Seq(S)
  OBVIOUS
<1>3. \A i \in 1 .. n : with[i] = IF i > 1 THEN <<"comma">> \o parts[i] ELSE parts[i]
  BY <1>1
<1>4. \A i \in 1 .. n : <<"comma">> \o parts[i] \in Seq(S)
  BY <1>1, <1>2, ConcatProperties
<1>5. with \in Seq(Seq(S)) /\ Len(with) = n
  <2>1. with \in [1 .. n -> Seq(S)]
    BY <1>1, <1>4
  <2> HIDE DEF with, n
  <2> QED
    BY <1>1, <2>1
<1>6. Joined(parts) = Seqs!FlattenSeq(with)
  BY DEF Joined
<1> HIDE DEF with, n
<1>7. PICK left : IsTail(left, with, closing, S)
  BY <1>5, TailExists
<1>8. Joined(parts) \in Seq(S) /\ Joined(parts) \o closing = left[1]
  BY <1>5, <1>6, <1>7, FlattenTail
<1>9. /\ left \in [1 .. n + 1 -> Seq(S)] /\ left[n + 1] = closing
      /\ \A i \in 1 .. n : left[i] = with[i] \o left[i + 1]
  BY <1>5, <1>7 DEF IsTail
<1>10. ASSUME NEW i \in 1 .. n
       PROVE  left[i] = IF i = 1 THEN parts[i] \o left[i + 1]
                        ELSE <<"comma">> \o (parts[i] \o left[i + 1])
  <2>1. i + 1 \in 1 .. n + 1 /\ left[i + 1] \in Seq(S) /\ parts[i] \in Seq(S)
    BY <1>1, <1>9
  <2>2. CASE i = 1
    <3>1. with[i] = parts[i]
      BY <1>3, <2>2
    <3> QED
      BY <1>9, <2>2, <3>1
  <2>3. CASE i # 1
    <3>1. with[i] = <<"comma">> \o parts[i]
      <4>1. i > 1
        BY <1>1, <2>3
      <4> QED
        BY <1>3, <4>1, Zenon
    <3>2. (<<"comma">> \o parts[i]) \o left[i + 1] = <<"comma">> \o (parts[i] \o left[i + 1])
      <4>1. ThreeGroups(<<"comma">>, parts[i], left[i + 1])
        BY <1>2, <2>1, ConcatRegroups, Zenon
      <4> QED
        BY <4>1, Zenon DEF ThreeGroups
    <3> QED
      BY <1>9, <2>3, <3>1, <3>2
  <2> QED
    BY <2>2, <2>3
<1>11. IsRest(left, parts, closing, S)
  BY <1>9, <1>10, Zenon DEF IsRest, n
<1> QED
  BY <1>8, <1>11

\* No part is empty or begins with what closes the list.
Begin(parts, c) == \A i \in 1 .. Len(parts) : parts[i] # << >> /\ parts[i][1] # c

\* What is left to read begins with a part, a comma or the end, never a digit.
LEMMA RestBegins ==
  ASSUME NEW S, "comma" \in S, NEW c \in S, c # "comma", NEW D, "comma" \notin D, c \notin D,
         NEW parts \in Seq(Seq(S)), Begin(parts, c), NEW rest \in Seq(S),
         NEW left, IsRest(left, parts, <<c>> \o rest, S)
  PROVE  /\ left[Len(parts) + 1][1] = c
         /\ \A i \in 1 .. Len(parts) : left[i][1] # c
         /\ \A i \in 2 .. Len(parts) + 1 : Ends(left[i], D)
<1> DEFINE n == Len(parts)
<1>1. n \in Nat /\ \A i \in 1 .. n : parts[i] \in Seq(S) /\ parts[i] # << >> /\ parts[i][1] # c
  <2>1. n \in Nat /\ \A i \in 1 .. n : parts[i] \in Seq(S)
    OBVIOUS
  <2>2. \A i \in 1 .. n : parts[i] # << >> /\ parts[i][1] # c
    BY Zenon DEF Begin
  <2> QED
    BY <2>1, <2>2, Zenon
<1>2. /\ left \in [1 .. n + 1 -> Seq(S)] /\ left[n + 1] = <<c>> \o rest
      /\ \A i \in 1 .. n : left[i] = IF i = 1 THEN parts[i] \o left[i + 1]
                                    ELSE <<"comma">> \o (parts[i] \o left[i + 1])
  BY Zenon DEF IsRest
<1> HIDE DEF n
<1>3. left[n + 1][1] = c
  BY <1>2, FirstPiece
<1>4. ASSUME NEW i \in 1 .. n
      PROVE  left[i][1] = IF i = 1 THEN parts[i][1] ELSE "comma"
  <2>1. i + 1 \in 1 .. n + 1
    BY <1>1
  <2>2. left[i + 1] \in Seq(S) /\ parts[i] \in Seq(S) /\ parts[i] # << >>
    BY <1>1, <1>2, <2>1
  <2>3. parts[i] \o left[i + 1] \in Seq(S) /\ (parts[i] \o left[i + 1])[1] = parts[i][1]
    BY <2>2, FirstOfConcat
  <2>4. (<<"comma">> \o (parts[i] \o left[i + 1]))[1] = "comma"
    BY <2>3, FirstPiece
  <2> QED
    BY <1>2, <2>3, <2>4
<1>5. \A i \in 1 .. n : left[i][1] # c
  BY <1>1, <1>4
<1>6. \A i \in 2 .. n + 1 : Ends(left[i], D)
  <2> TAKE i \in 2 .. n + 1
  <2>1. i = n + 1 \/ (i \in 1 .. n /\ i # 1)
    BY <1>1
  <2> QED
    BY <1>3, <1>4, <2>1 DEF Ends
<1> QED
  BY <1>3, <1>5, <1>6 DEF n

\* Texts that tell their meanings and their ends apart.
TellApart(p, q, x, y, D, S) ==
  \A i \in 1 .. Len(p), j \in 1 .. Len(q), t, u \in Seq(S) :
    Ends(t, D) /\ Ends(u, D) /\ p[i] \o t = q[j] \o u => x[i] = y[j] /\ t = u

\* What makes lists of parts that a piece c closes be read in one way.
Separable(p, q, x, y, c, D, S) ==
  /\ "comma" \in S /\ c \in S /\ c # "comma" /\ "comma" \notin D /\ c \notin D
  /\ p \in Seq(Seq(S)) /\ Begin(p, c) /\ q \in Seq(Seq(S)) /\ Begin(q, c)
  /\ TellApart(p, q, x, y, D, S)

\* The lists and what follows them are the same when their texts are.
ReadAlike(p, q, x, y, c, r, s) ==
  Joined(p) \o (<<c>> \o r) = Joined(q) \o (<<c>> \o s) =>
    Len(p) = Len(q) /\ (\A i \in 1 .. Len(p) : x[i] = y[i]) /\ r = s

\* The parts of a list are told apart one by one, from its first to its end.
LEMMA JoinedApart ==
  ASSUME NEW S, NEW c, NEW D, NEW p, NEW q, NEW x, NEW y, Separable(p, q, x, y, c, D, S),
         NEW r \in Seq(S), NEW s \in Seq(S)
  PROVE  ReadAlike(p, q, x, y, c, r, s)
<1> /\ "comma" \in S /\ c \in S /\ c # "comma" /\ "comma" \notin D /\ c \notin D
    /\ p \in Seq(Seq(S)) /\ Begin(p, c) /\ q \in Seq(Seq(S)) /\ Begin(q, c)
    /\ TellApart(p, q, x, y, D, S)
  BY DEF Separable
<1> DEFINE n == Len(p)
           m == Len(q)
<1>1. n \in Nat /\ m \in Nat
  OBVIOUS
<1>2. <<c>> \o r \in Seq(S) /\ <<c>> \o s \in Seq(S)
  BY FirstPiece
<1>3. PICK f : IsRest(f, p, <<c>> \o r, S) /\ Joined(p) \o (<<c>> \o r) = f[1]
  BY <1>2, JoinedRest, Zenon
<1>4. PICK g : IsRest(g, q, <<c>> \o s, S) /\ Joined(q) \o (<<c>> \o s) = g[1]
  BY <1>2, JoinedRest, Zenon
<1> SUFFICES ASSUME Joined(p) \o (<<c>> \o r) = Joined(q) \o (<<c>> \o s)
             PROVE  Len(p) = Len(q) /\ (\A i \in 1 .. Len(p) : x[i] = y[i]) /\ r = s
  BY DEF ReadAlike
<1>5. /\ f \in [1 .. n + 1 -> Seq(S)] /\ f[n + 1] = <<c>> \o r
      /\ \A i \in 1 .. n : f[i] = IF i = 1 THEN p[i] \o f[i + 1] ELSE <<"comma">> \o (p[i] \o f[i + 1])
  BY <1>3, Zenon DEF IsRest
<1>6. /\ g \in [1 .. m + 1 -> Seq(S)] /\ g[m + 1] = <<c>> \o s
      /\ \A i \in 1 .. m : g[i] = IF i = 1 THEN q[i] \o g[i + 1] ELSE <<"comma">> \o (q[i] \o g[i + 1])
  BY <1>4, Zenon DEF IsRest
<1>7. f[n + 1][1] = c /\ (\A i \in 1 .. n : f[i][1] # c) /\ \A i \in 2 .. n + 1 : Ends(f[i], D)
  BY <1>3, RestBegins
<1>8. g[m + 1][1] = c /\ (\A i \in 1 .. m : g[i][1] # c) /\ \A i \in 2 .. m + 1 : Ends(g[i], D)
  BY <1>4, RestBegins
<1>9. \A i \in 1 .. n : p[i] \in Seq(S)
  OBVIOUS
<1>10. \A i \in 1 .. m : q[i] \in Seq(S)
  OBVIOUS
<1> DEFINE good == {k \in 0 .. n : /\ k <= m /\ f[k + 1] = g[k + 1]
                                    /\ \A i \in 1 .. k : x[i] = y[i]}
<1>11. \A i \in 1 .. n, j \in 1 .. m, t, u \in Seq(S) :
         Ends(t, D) /\ Ends(u, D) /\ p[i] \o t = q[j] \o u => x[i] = y[j] /\ t = u
  BY Zenon DEF TellApart
<1> HIDE DEF n, m
<1>12. 0 \in good
  <2>1. 0 \in 0 .. n /\ 0 <= m /\ 0 + 1 = 1 /\ 1 .. 0 = {}
    BY <1>1
  <2>2. f[1] = g[1]
    BY <1>3, <1>4, Zenon
  <2> QED
    BY <2>1, <2>2, Zenon
<1>13. ASSUME NEW k \in 0 .. n, k < n /\ k \in good PROVE k + 1 \in good
  <2>1. k <= m /\ f[k + 1] = g[k + 1] /\ \A i \in 1 .. k : x[i] = y[i]
    BY <1>13
  <2>2. k + 1 \in 1 .. n /\ (k + 1) + 1 \in 2 .. n + 1 /\ (k + 1) + 1 \in 1 .. n + 1
    BY <1>1, <1>13
  <2>3. k # m
    BY <1>7, <1>8, <2>1, <2>2
  <2>4. k + 1 \in 1 .. m /\ (k + 1) + 1 \in 2 .. m + 1 /\ (k + 1) + 1 \in 1 .. m + 1 /\ k + 1 <= m
    BY <1>1, <2>1, <2>3
  <2> DEFINE t == f[(k + 1) + 1]
             u == g[(k + 1) + 1]
             a == p[k + 1] \o t
             b == q[k + 1] \o u
  <2>5. t \in Seq(S) /\ u \in Seq(S) /\ Ends(t, D) /\ Ends(u, D)
    BY <1>5, <1>6, <1>7, <1>8, <2>2, <2>4
  <2>6. a \in Seq(S) /\ b \in Seq(S)
    BY <1>9, <1>10, <2>2, <2>4, <2>5, ConcatProperties
  <2>7. a = b
    <3>1. /\ f[k + 1] = IF k + 1 = 1 THEN a ELSE <<"comma">> \o a
          /\ g[k + 1] = IF k + 1 = 1 THEN b ELSE <<"comma">> \o b
      BY <1>5, <1>6, <2>2, <2>4
    <3> HIDE DEF a, b
    <3>2. CASE k + 1 = 1
      BY <2>1, <3>1, <3>2
    <3>3. CASE k + 1 # 1
      <4>1. <<"comma">> \o a = <<"comma">> \o b
        BY <2>1, <3>1, <3>3, Zenon
      <4>2. <<"comma">> \in Seq(S)
        OBVIOUS
      <4> QED
        BY <2>6, <4>1, <4>2, CancelFirst
    <3> QED
      BY <3>2, <3>3
  <2>8. x[k + 1] = y[k + 1] /\ t = u
    <3> HIDE DEF t, u
    <3>1. p[k + 1] \o t = q[k + 1] \o u
      BY <2>7
    <3>2. k + 1 \in 1 .. n /\ k + 1 \in 1 .. m
      BY <2>2, <2>4
    <3>3. \A v, w \in Seq(S) :
            Ends(v, D) /\ Ends(w, D) /\ p[k + 1] \o v = q[k + 1] \o w => x[k + 1] = y[k + 1] /\ v = w
      BY <1>11, <3>2, Zenon
    <3> QED
      BY <2>5, <3>1, <3>3, Zenon
  <2>9. \A i \in 1 .. k + 1 : x[i] = y[i]
    <3>1. \A i \in 1 .. k + 1 : i \in 1 .. k \/ i = k + 1
      BY <1>13
    <3> QED
      BY <2>1, <2>8, <3>1, Zenon
  <2>10. k + 1 \in 0 .. n
    BY <1>1, <2>2
  <2> QED
    BY <2>4, <2>8, <2>9, <2>10
<1> HIDE DEF good
<1>14. n \in good
  <2>1. \A k \in 0 .. n : k \in good
    BY <1>1, <1>12, <1>13, InductionTo
  <2> QED
    BY <1>1, <2>1
<1>15. n <= m /\ f[n + 1] = g[n + 1] /\ \A i \in 1 .. n : x[i] = y[i]
  BY <1>14 DEF good
<1>16. n = m
  <2>1. ~(n < m)
    <3> SUFFICES ASSUME n < m PROVE FALSE
      OBVIOUS
    <3>1. n + 1 \in 1 .. m
      BY <1>1
    <3> QED
      BY <1>7, <1>8, <1>15, <3>1
  <2> QED
    BY <1>1, <1>15, <2>1
<1>17. r = s
  <2>1. <<c>> \o r = <<c>> \o s
    BY <1>5, <1>6, <1>15, <1>16, Zenon
  <2>2. <<c>> \in Seq(S)
    OBVIOUS
  <2> QED
    BY <2>1, <2>2, CancelFirst
<1> QED
  BY <1>15, <1>16, <1>17 DEF n, m

-----------------------------------------------------------------------------
(* The values, their texts and their maps, by their depth. *)

\* Values is what its definition says, at every depth.
LEMMA ValuesByDepth ==
  \A depth \in 0 .. MaxDepth :
    Values[depth] = IF depth = 0 THEN Scalars ELSE Nested(Values[depth - 1])
<1> DEFINE Pass(f, m) ==
             f = [depth \in 0 .. m |-> IF depth = 0 THEN Scalars ELSE Nested(f[depth - 1])]
           good == {m \in 0 .. MaxDepth : \E f : Pass(f, m)}
           fixed == CHOOSE f : Pass(f, MaxDepth)
<1>1. MaxDepth \in Nat
  BY CanonicalAssumption
<1>2. Values = fixed
  BY Zenon DEF Values
<1>3. 0 \in good
  <2> DEFINE f == [depth \in 0 .. 0 |-> Scalars]
  <2>1. \A depth \in 0 .. 0 : f[depth] = IF depth = 0 THEN Scalars ELSE Nested(f[depth - 1])
    OBVIOUS
  <2>2. Pass(f, 0)
    <3> HIDE DEF Nested, Scalars
    <3> QED
      BY <2>1
  <2> HIDE DEF f, Pass
  <2> QED
    BY <1>1, <2>2
<1>4. ASSUME NEW m \in 0 .. MaxDepth, m < MaxDepth /\ m \in good PROVE m + 1 \in good
  <2>1. PICK f : Pass(f, m)
    BY <1>4
  <2> DEFINE g == [depth \in 0 .. m + 1 |-> IF depth = m + 1 THEN Nested(f[m]) ELSE f[depth]]
  <2>2. \A depth \in 0 .. m : f[depth] = IF depth = 0 THEN Scalars ELSE Nested(f[depth - 1])
    BY <2>1, Zenon
  <2>3. ASSUME NEW depth \in 0 .. m + 1
        PROVE  g[depth] = IF depth = 0 THEN Scalars ELSE Nested(g[depth - 1])
    <3>1. CASE depth = m + 1
      <4>1. depth # 0 /\ depth - 1 = m /\ m \in 0 .. m + 1 /\ m # m + 1
        BY <3>1
      <4> QED
        BY <3>1, <4>1
    <3>2. CASE depth # m + 1
      <4>1. depth \in 0 .. m
        BY <3>2
      <4>2. g[depth] = f[depth]
        BY <3>2
      <4>3. CASE depth # 0
        <5>1. depth - 1 \in 0 .. m + 1 /\ depth - 1 # m + 1
          BY <4>1, <4>3
        <5>2. g[depth - 1] = f[depth - 1]
          BY <5>1
        <5> QED
          BY <2>2, <4>1, <4>2, <4>3, <5>2
      <4> QED
        BY <2>2, <4>1, <4>2, <4>3
    <3> QED
      BY <3>1, <3>2
  <2>4. Pass(g, m + 1)
    <3>1. g = [depth \in 0 .. m + 1 |-> g[depth]]
      OBVIOUS
    <3> HIDE DEF g
    <3> QED
      BY <2>3, <3>1
  <2>5. m + 1 \in 0 .. MaxDepth
    BY <1>1, <1>4
  <2> QED
    BY <2>4, <2>5, Zenon
<1>5. \E f : Pass(f, MaxDepth)
  <2> HIDE DEF Pass
  <2>1. MaxDepth \in good
    <3> HIDE DEF good
    <3>1. \A m \in 0 .. MaxDepth : m \in good
      BY <1>1, <1>3, <1>4, InductionTo
    <3> QED
      BY <1>1, <3>1
  <2> QED
    BY <2>1
<1>6. Pass(fixed, MaxDepth)
  BY <1>5, Zenon
<1> HIDE DEF fixed
<1>7. \A depth \in 0 .. MaxDepth :
        fixed[depth] = IF depth = 0 THEN Scalars ELSE Nested(fixed[depth - 1])
  BY <1>6, Zenon
<1> QED
  BY <1>2, <1>7

\* What is written of a value without others in it is its own.
LEMMA ScalarsAlone ==
  ASSUME NEW f, NEW g, NEW value \in Scalars
  PROVE  Written(value, f) = Written(value, g) /\ Mapped(value, f) = Mapped(value, g)
<1>1. value.kind \in {"null", "number", "string"}
  BY DEF Scalars
<1> QED
  BY <1>1 DEF Written, Mapped

\* The text of a value is made of the texts of the values in it.
LEMMA TextByDepth ==
  \A depth \in 0 .. MaxDepth :
    write_canonical[depth] = [value \in Values[depth] |-> Written(value, write_canonical[depth - 1])]
<1> DEFINE At(depth, before) == [value \in Values[depth] |-> Written(value, before)]
           Pass(f, m) == f = [depth \in 0 .. m |-> At(depth, f[depth - 1])]
           good == {m \in 0 .. MaxDepth : \E f : Pass(f, m)}
           fixed == CHOOSE f : Pass(f, MaxDepth)
<1>1. MaxDepth \in Nat
  BY CanonicalAssumption
<1>2. write_canonical = fixed
  BY Zenon DEF write_canonical
<1>3. \A f, g : At(0, f) = At(0, g)
  <2> TAKE f, g
  <2>1. Values[0] = Scalars
    BY <1>1, ValuesByDepth
  <2>2. \A value \in Scalars : Written(value, f) = Written(value, g)
    BY ScalarsAlone
  <2> QED
    BY <2>1, <2>2
<1> HIDE DEF At
<1>4. 0 \in good
  <2> DEFINE f == [depth \in 0 .. 0 |-> At(0, << >>)]
  <2>1. \A depth \in 0 .. 0 : f[depth] = At(depth, f[depth - 1])
    BY <1>3
  <2>2. Pass(f, 0)
    BY <2>1
  <2> HIDE DEF f, Pass
  <2> QED
    BY <1>1, <2>2
<1>5. ASSUME NEW m \in 0 .. MaxDepth, m < MaxDepth /\ m \in good PROVE m + 1 \in good
  <2>1. PICK f : Pass(f, m)
    BY <1>5
  <2> DEFINE g == [depth \in 0 .. m + 1 |-> IF depth = m + 1 THEN At(m + 1, f[m]) ELSE f[depth]]
  <2>2. \A depth \in 0 .. m : f[depth] = At(depth, f[depth - 1])
    BY <2>1, Zenon
  <2>3. ASSUME NEW depth \in 0 .. m + 1
        PROVE  g[depth] = At(depth, g[depth - 1])
    <3>1. CASE depth = m + 1
      <4>1. depth - 1 = m /\ m \in 0 .. m + 1 /\ m # m + 1
        BY <3>1
      <4> QED
        BY <3>1, <4>1
    <3>2. CASE depth # m + 1
      <4>1. depth \in 0 .. m
        BY <3>2
      <4>2. g[depth] = f[depth]
        BY <3>2
      <4>3. CASE depth # 0
        <5>1. depth - 1 \in 0 .. m + 1 /\ depth - 1 # m + 1
          BY <4>1, <4>3
        <5>2. g[depth - 1] = f[depth - 1]
          BY <5>1
        <5> QED
          BY <2>2, <4>1, <4>2, <5>2
      <4>4. CASE depth = 0
        <5>1. f[depth] = At(0, f[depth - 1])
          BY <2>2, <4>1, <4>4
        <5> HIDE DEF g
        <5> QED
          BY <1>3, <4>2, <4>4, <5>1, Zenon
      <4> QED
        BY <4>3, <4>4
    <3> QED
      BY <3>1, <3>2
  <2>4. Pass(g, m + 1)
    <3>1. g = [depth \in 0 .. m + 1 |-> g[depth]]
      OBVIOUS
    <3> HIDE DEF g
    <3> QED
      BY <2>3, <3>1
  <2>5. m + 1 \in 0 .. MaxDepth
    BY <1>1, <1>5
  <2> QED
    BY <2>4, <2>5, Zenon
<1>6. \E f : Pass(f, MaxDepth)
  <2> HIDE DEF Pass
  <2>1. MaxDepth \in good
    <3> HIDE DEF good
    <3>1. \A m \in 0 .. MaxDepth : m \in good
      BY <1>1, <1>4, <1>5, InductionTo
    <3> QED
      BY <1>1, <3>1
  <2> QED
    BY <2>1
<1>7. Pass(fixed, MaxDepth)
  BY <1>6, Zenon
<1> HIDE DEF fixed
<1>8. \A depth \in 0 .. MaxDepth : fixed[depth] = At(depth, fixed[depth - 1])
  BY <1>7, Zenon
<1> QED
  BY <1>2, <1>8 DEF At

\* So is its map.
LEMMA FormByDepth ==
  \A depth \in 0 .. MaxDepth :
    Unordered[depth] = [value \in Values[depth] |-> Mapped(value, Unordered[depth - 1])]
<1> DEFINE At(depth, before) == [value \in Values[depth] |-> Mapped(value, before)]
           Pass(f, m) == f = [depth \in 0 .. m |-> At(depth, f[depth - 1])]
           good == {m \in 0 .. MaxDepth : \E f : Pass(f, m)}
           fixed == CHOOSE f : Pass(f, MaxDepth)
<1>1. MaxDepth \in Nat
  BY CanonicalAssumption
<1>2. Unordered = fixed
  BY Zenon DEF Unordered
<1>3. \A f, g : At(0, f) = At(0, g)
  <2> TAKE f, g
  <2>1. Values[0] = Scalars
    BY <1>1, ValuesByDepth
  <2>2. \A value \in Scalars : Mapped(value, f) = Mapped(value, g)
    BY ScalarsAlone
  <2> QED
    BY <2>1, <2>2
<1> HIDE DEF At
<1>4. 0 \in good
  <2> DEFINE f == [depth \in 0 .. 0 |-> At(0, << >>)]
  <2>1. \A depth \in 0 .. 0 : f[depth] = At(depth, f[depth - 1])
    BY <1>3
  <2>2. Pass(f, 0)
    BY <2>1
  <2> HIDE DEF f, Pass
  <2> QED
    BY <1>1, <2>2
<1>5. ASSUME NEW m \in 0 .. MaxDepth, m < MaxDepth /\ m \in good PROVE m + 1 \in good
  <2>1. PICK f : Pass(f, m)
    BY <1>5
  <2> DEFINE g == [depth \in 0 .. m + 1 |-> IF depth = m + 1 THEN At(m + 1, f[m]) ELSE f[depth]]
  <2>2. \A depth \in 0 .. m : f[depth] = At(depth, f[depth - 1])
    BY <2>1, Zenon
  <2>3. ASSUME NEW depth \in 0 .. m + 1
        PROVE  g[depth] = At(depth, g[depth - 1])
    <3>1. CASE depth = m + 1
      <4>1. depth - 1 = m /\ m \in 0 .. m + 1 /\ m # m + 1
        BY <3>1
      <4> QED
        BY <3>1, <4>1
    <3>2. CASE depth # m + 1
      <4>1. depth \in 0 .. m
        BY <3>2
      <4>2. g[depth] = f[depth]
        BY <3>2
      <4>3. CASE depth # 0
        <5>1. depth - 1 \in 0 .. m + 1 /\ depth - 1 # m + 1
          BY <4>1, <4>3
        <5>2. g[depth - 1] = f[depth - 1]
          BY <5>1
        <5> QED
          BY <2>2, <4>1, <4>2, <5>2
      <4>4. CASE depth = 0
        <5>1. f[depth] = At(0, f[depth - 1])
          BY <2>2, <4>1, <4>4
        <5> HIDE DEF g
        <5> QED
          BY <1>3, <4>2, <4>4, <5>1, Zenon
      <4> QED
        BY <4>3, <4>4
    <3> QED
      BY <3>1, <3>2
  <2>4. Pass(g, m + 1)
    <3>1. g = [depth \in 0 .. m + 1 |-> g[depth]]
      OBVIOUS
    <3> HIDE DEF g
    <3> QED
      BY <2>3, <3>1
  <2>5. m + 1 \in 0 .. MaxDepth
    BY <1>1, <1>5
  <2> QED
    BY <2>4, <2>5, Zenon
<1>6. \E f : Pass(f, MaxDepth)
  <2> HIDE DEF Pass
  <2>1. MaxDepth \in good
    <3> HIDE DEF good
    <3>1. \A m \in 0 .. MaxDepth : m \in good
      BY <1>1, <1>4, <1>5, InductionTo
    <3> QED
      BY <1>1, <3>1
  <2> QED
    BY <2>1
<1>7. Pass(fixed, MaxDepth)
  BY <1>6, Zenon
<1> HIDE DEF fixed
<1>8. \A depth \in 0 .. MaxDepth : fixed[depth] = At(depth, fixed[depth - 1])
  BY <1>7, Zenon
<1> QED
  BY <1>2, <1>8 DEF At

-----------------------------------------------------------------------------
(* Texts. *)

\* What the canonical text is made of.
Pieces == Digits \cup Strings \cup {"null", "quote", "comma", "colon", "array_start", "array_end",
                                    "object_start", "object_end"}

\* A value is of one of five kinds.
LEMMA FiveKinds ==
  ASSUME NEW V, NEW value \in Nested(V)
  PROVE  \/ value.kind = "null" /\ value.of = << >>
         \/ value.kind = "number" /\ value.of \in Seq(Digits) /\ value.of # << >>
         \/ value.kind = "string" /\ value.of \in Strings
         \/ value.kind = "array" /\ value.of \in Seq(V)
         \/ value.kind = "object" /\ value.of \in Maps(V)
BY Zenon DEF Nested, Scalars

\* What a key of an object finds.
LEMMA KeyFinds ==
  ASSUME NEW V, NEW value, value.kind = "object", value.of \in Maps(V), NEW key \in Keys(value.of)
  PROVE  The(Field(value, key)) \in V
<1>1. PICK i \in DOMAIN value.of : value.of[i].key = key
  BY DEF Keys
<1>2. value.of[i].value \in Field(value, key)
  BY <1>1 DEF Field
<1>3. The(Field(value, key)) \in Field(value, key)
  BY <1>2, Zenon DEF The
<1>4. PICK j \in DOMAIN value.of : The(Field(value, key)) = value.of[j].value
  BY <1>3 DEF Field
<1>5. value.of \in Seq([key : Strings, value : V])
  BY DEF Maps
<1>6. value.of[j] \in [key : Strings, value : V]
  <2> DEFINE pairs == value.of
  <2>1. pairs \in Seq([key : Strings, value : V]) /\ j \in DOMAIN pairs
    BY <1>5
  <2> HIDE DEF pairs
  <2>2. pairs[j] \in [key : Strings, value : V]
    <3>1. j \in 1 .. Len(pairs)
      BY <2>1, LenProperties, Zenon
    <3> QED
      BY <2>1, <3>1, ElementOfSeq, Zenon
  <2> QED
    BY <2>2 DEF pairs
<1> QED
  BY <1>4, <1>6

\* The sorted keys are the keys.
LEMMA SortedKeys ==
  ASSUME NEW pairs
  PROVE  /\ Sorted(pairs) \in Seq(Strings)
         /\ \A key : key \in Range(Sorted(pairs)) <=> key \in Keys(pairs) /\ key \in Strings
<1> DEFINE parts == [n \in DOMAIN ByteOrder |->
                       IF ByteOrder[n] \in Keys(pairs) THEN <<ByteOrder[n]>> ELSE << >>]
           length == Len(ByteOrder)
<1>1. /\ length \in Nat /\ DOMAIN ByteOrder = 1 .. length
      /\ \A n \in 1 .. length : ByteOrder[n] \in Strings
  BY CanonicalAssumption
<1>2. \A n \in 1 .. length :
        parts[n] = IF ByteOrder[n] \in Keys(pairs) THEN <<ByteOrder[n]>> ELSE << >>
  BY <1>1
<1>3. parts \in Seq(Seq(Strings)) /\ Len(parts) = length
  <2>1. parts \in [1 .. length -> Seq(Strings)]
    BY <1>1
  <2> HIDE DEF parts, length
  <2> QED
    BY <1>1, <2>1
<1>4. Sorted(pairs) = Seqs!FlattenSeq(parts)
  BY DEF Sorted
<1> HIDE DEF parts
<1>5. /\ Seqs!FlattenSeq(parts) \in Seq(Strings)
      /\ \A x : x \in Range(Seqs!FlattenSeq(parts)) <=> \E i \in 1 .. length : x \in Range(parts[i])
  BY <1>3, FlattenElements
<1> HIDE DEF length
<1>6. \A i \in 1 .. length : \A x : x \in Range(parts[i]) <=> x = ByteOrder[i] /\ x \in Keys(pairs)
  <2> TAKE i \in 1 .. length
  <2> TAKE x
  <2>1. CASE ByteOrder[i] \in Keys(pairs)
    <3>1. parts[i] = <<ByteOrder[i]>>
      BY <1>2, <2>1
    <3> QED
      BY <2>1, <3>1 DEF Range
  <2>2. CASE ByteOrder[i] \notin Keys(pairs)
    <3>1. parts[i] = << >>
      BY <1>2, <2>2
    <3> QED
      BY <2>2, <3>1 DEF Range
  <2> QED
    BY <2>1, <2>2
<1>7. \A x : x \in Strings <=> \E i \in 1 .. length : x = ByteOrder[i]
  BY <1>1 DEF Strings, Range
<1> QED
  BY <1>4, <1>5, <1>6, <1>7, Zenon

\* A string is read up to its closing quote.
LEMMA QuotedApart ==
  ASSUME NEW k \in Strings, NEW l \in Strings, NEW s \in Seq(Pieces), NEW t \in Seq(Pieces)
  PROVE  /\ Quoted(k) \in Seq(Pieces) /\ Quoted(k) # << >> /\ Quoted(k)[1] = "quote"
         /\ Quoted(k) \o s = Quoted(l) \o t => k = l /\ s = t
<1>1. /\ Quoted(k) \in Seq(Pieces) /\ Len(Quoted(k)) = 3 /\ Quoted(k)[1] = "quote"
      /\ Quoted(l) \in Seq(Pieces) /\ Len(Quoted(l)) = 3
      /\ Quoted(k)[2] = k /\ Quoted(l)[2] = l
  BY DEF Quoted, Pieces
<1>2. ASSUME Quoted(k) \o s = Quoted(l) \o t PROVE k = l /\ s = t
  <2>1. /\ \A i \in 1 .. 3 + Len(s) : (Quoted(k) \o s)[i] = IF i <= 3 THEN Quoted(k)[i] ELSE s[i - 3]
        /\ \A i \in 1 .. 3 + Len(t) : (Quoted(l) \o t)[i] = IF i <= 3 THEN Quoted(l)[i] ELSE t[i - 3]
    <3> DEFINE a == Quoted(k)
               b == Quoted(l)
    <3> HIDE DEF a, b
    <3>1. a \in Seq(Pieces) /\ Len(a) = 3 /\ b \in Seq(Pieces) /\ Len(b) = 3
      BY <1>1 DEF a, b
    <3>2. \A i \in 1 .. 3 + Len(s) : (a \o s)[i] = IF i <= 3 THEN a[i] ELSE s[i - 3]
      <4>1. \A i \in 1 .. Len(a) + Len(s) : (a \o s)[i] = IF i <= Len(a) THEN a[i] ELSE s[i - Len(a)]
        BY <3>1, ConcatProperties, Zenon
      <4> QED
        BY <3>1, <4>1, Zenon
    <3>3. \A i \in 1 .. 3 + Len(t) : (b \o t)[i] = IF i <= 3 THEN b[i] ELSE t[i - 3]
      <4>1. \A i \in 1 .. Len(b) + Len(t) : (b \o t)[i] = IF i <= Len(b) THEN b[i] ELSE t[i - Len(b)]
        BY <3>1, ConcatProperties, Zenon
      <4> QED
        BY <3>1, <4>1, Zenon
    <3> QED
      BY <3>2, <3>3 DEF a, b
  <2>2. 2 \in 1 .. 3 + Len(s) /\ 2 \in 1 .. 3 + Len(t)
    <3>1. Len(s) \in Nat /\ Len(t) \in Nat
      OBVIOUS
    <3> QED
      BY <3>1
  <2>3. k = l
    BY <1>1, <1>2, <2>1, <2>2
  <2> QED
    BY <1>1, <1>2, <2>3, CancelFirst
<1>3. Quoted(k) # << >>
  BY <1>1
<1> QED
  BY <1>1, <1>2, <1>3

\* The texts of the items of an array and of the entries of an object.
ItemTexts(items, text) == [i \in DOMAIN items |-> text[items[i]]]

PairText(value, key, text) == Quoted(key) \o (<<"colon">> \o text[The(Field(value, key))])

PairTexts(value, text) ==
  [i \in DOMAIN Sorted(value.of) |-> PairText(value, Sorted(value.of)[i], text)]

\* What write_canonical writes, kind by kind.
LEMMA WrittenByKind ==
  ASSUME NEW value, NEW text
  PROVE  /\ value.kind = "null" => Written(value, text) = <<"null">>
         /\ value.kind = "number" => Written(value, text) = value.of
         /\ value.kind = "string" => Written(value, text) = Quoted(value.of)
         /\ value.kind = "array" =>
              Written(value, text) =
                <<"array_start">> \o (Joined(ItemTexts(value.of, text)) \o <<"array_end">>)
         /\ value.kind = "object" =>
              Written(value, text) =
                <<"object_start">> \o (Joined(PairTexts(value, text)) \o <<"object_end">>)
BY DEF Written, ItemTexts, PairTexts, PairText

\* A text does not begin with what closes a list.
IsText(t) == t \in Seq(Pieces) /\ t # << >> /\ t[1] \notin {"array_end", "object_end"}

\* The values of V have texts.
Texts(V, text) == \A v \in V : IsText(text[v])

\* The items of an array are texts, none beginning with what closes it.
LEMMA ItemTextsType ==
  ASSUME NEW V, NEW text, Texts(V, text), NEW items \in Seq(V)
  PROVE  /\ ItemTexts(items, text) \in Seq(Seq(Pieces))
         /\ Len(ItemTexts(items, text)) = Len(items)
         /\ \A i \in 1 .. Len(items) : ItemTexts(items, text)[i] = text[items[i]]
         /\ Begin(ItemTexts(items, text), "array_end")
<1> DEFINE n == Len(items)
           texts == ItemTexts(items, text)
<1>1. n \in Nat /\ DOMAIN items = 1 .. n /\ \A i \in 1 .. n : items[i] \in V
  OBVIOUS
<1>2. texts = [i \in 1 .. n |-> text[items[i]]]
  BY <1>1 DEF ItemTexts
<1>3. \A i \in 1 .. n : /\ text[items[i]] \in Seq(Pieces) /\ text[items[i]] # << >>
                        /\ text[items[i]][1] \notin {"array_end", "object_end"}
  BY <1>1 DEF IsText, Texts
<1> HIDE DEF n, texts
<1>4. texts \in Seq(Seq(Pieces)) /\ Len(texts) = n /\ \A i \in 1 .. n : texts[i] = text[items[i]]
  BY <1>1, <1>2, <1>3
<1>5. Begin(texts, "array_end")
  BY <1>3, <1>4 DEF Begin
<1> QED
  BY <1>4, <1>5 DEF n, texts

\* So are the entries of an object.
LEMMA PairTextsType ==
  ASSUME NEW V, NEW text, Texts(V, text),
         NEW value, value.kind = "object", value.of \in Maps(V)
  PROVE  /\ PairTexts(value, text) \in Seq(Seq(Pieces))
         /\ Len(PairTexts(value, text)) = Len(Sorted(value.of))
         /\ \A i \in 1 .. Len(Sorted(value.of)) :
              /\ PairTexts(value, text)[i] = PairText(value, Sorted(value.of)[i], text)
              /\ Sorted(value.of)[i] \in Strings
              /\ The(Field(value, Sorted(value.of)[i])) \in V
         /\ Begin(PairTexts(value, text), "object_end")
<1> DEFINE keys == Sorted(value.of)
           n == Len(keys)
           texts == PairTexts(value, text)
<1>1. keys \in Seq(Strings) /\ \A key \in Range(keys) : key \in Keys(value.of)
  BY SortedKeys
<1>2. /\ n \in Nat /\ DOMAIN keys = 1 .. n
      /\ \A i \in 1 .. n : keys[i] \in Strings /\ keys[i] \in Range(keys)
  BY <1>1 DEF Range
<1>3. \A i \in 1 .. n : The(Field(value, keys[i])) \in V
  BY <1>1, <1>2, KeyFinds
<1>4. texts = [i \in 1 .. n |-> PairText(value, keys[i], text)]
  BY <1>2 DEF PairTexts
<1> HIDE DEF keys, n, texts
<1>5. ASSUME NEW i \in 1 .. n
      PROVE  /\ PairText(value, keys[i], text) \in Seq(Pieces)
             /\ PairText(value, keys[i], text) # << >>
             /\ PairText(value, keys[i], text)[1] = "quote"
  <2> DEFINE of == text[The(Field(value, keys[i]))]
             rest == <<"colon">> \o of
  <2>1. of \in Seq(Pieces)
    BY <1>3 DEF IsText, Texts
  <2> HIDE DEF of
  <2>2. rest \in Seq(Pieces)
    BY <2>1, FirstPiece DEF Pieces
  <2> HIDE DEF rest
  <2>3. Quoted(keys[i]) \in Seq(Pieces) /\ Quoted(keys[i]) # << >> /\ Quoted(keys[i])[1] = "quote"
    BY <1>2, <2>2, QuotedApart
  <2>4. PairText(value, keys[i], text) = Quoted(keys[i]) \o rest
    BY DEF PairText, rest, of
  <2> QED
    BY <2>2, <2>3, <2>4, FirstOfConcat
<1>6. /\ texts \in Seq(Seq(Pieces)) /\ Len(texts) = n
      /\ \A i \in 1 .. n : texts[i] = PairText(value, keys[i], text)
  BY <1>2, <1>4, <1>5
<1>7. Begin(texts, "object_end")
  BY <1>5, <1>6 DEF Begin
<1> QED
  BY <1>2, <1>3, <1>6, <1>7 DEF keys, n, texts

\* The first piece of a text tells the kind of its value.
Opens(value, x) ==
  /\ value.kind = "null" => x = "null"
  /\ value.kind = "number" => x \in Digits
  /\ value.kind = "string" => x = "quote"
  /\ value.kind = "array" => x = "array_start"
  /\ value.kind = "object" => x = "object_start"

\* What is written of a value is a text, which tells the kind of the value.
LEMMA WrittenOpens ==
  ASSUME NEW V, NEW text, Texts(V, text), NEW value \in Nested(V)
  PROVE  IsText(Written(value, text)) /\ Opens(value, Written(value, text)[1])
<1> DEFINE t == Written(value, text)
<1>1. SUFFICES t \in Seq(Pieces) /\ t # << >> /\ Opens(value, t[1])
  <2>1. ASSUME Opens(value, t[1]) PROVE t[1] \notin {"array_end", "object_end"}
    BY <2>1, FiveKinds DEF Opens, Digits
  <2> QED
    BY <2>1 DEF IsText
<1> HIDE DEF t
<1>2. CASE value.kind = "null"
  <2>1. t = <<"null">>
    BY <1>2, WrittenByKind DEF t
  <2> QED
    BY <1>2, <2>1 DEF Opens, Pieces
<1>3. CASE value.kind = "number"
  <2>1. t = value.of /\ value.of \in Seq(Digits) /\ value.of # << >>
    BY <1>3, WrittenByKind, FiveKinds DEF t
  <2>2. t \in Seq(Pieces) /\ t[1] \in Digits
    <3>1. t \in Seq(Digits) /\ t # << >> /\ Digits \subseteq Pieces
      BY <2>1 DEF Pieces
    <3> HIDE DEF Digits, Pieces
    <3> QED
      BY <3>1, SeqMonotonic
  <2> QED
    BY <1>3, <2>1, <2>2 DEF Opens
<1>4. CASE value.kind = "string"
  <2>1. t = Quoted(value.of) /\ value.of \in Strings
    BY <1>4, WrittenByKind, FiveKinds DEF t
  <2>2. << >> \in Seq(Pieces)
    OBVIOUS
  <2>3. t \in Seq(Pieces) /\ t # << >> /\ t[1] = "quote"
    BY <2>1, <2>2, QuotedApart
  <2> QED
    BY <1>4, <2>3 DEF Opens
<1>5. CASE value.kind = "array"
  <2> DEFINE list == Joined(ItemTexts(value.of, text))
  <2>1. t = <<"array_start">> \o (list \o <<"array_end">>) /\ value.of \in Seq(V)
    BY <1>5, WrittenByKind, FiveKinds DEF t
  <2>2. <<"array_end">> \in Seq(Pieces) /\ "array_start" \in Pieces /\ "comma" \in Pieces
    BY DEF Pieces
  <2>3. list \in Seq(Pieces)
    BY <2>1, <2>2, ItemTextsType, JoinedRest
  <2> HIDE DEF list
  <2>4. list \o <<"array_end">> \in Seq(Pieces)
    BY <2>2, <2>3, ConcatProperties
  <2>5. t \in Seq(Pieces) /\ t # << >> /\ t[1] = "array_start"
    BY <2>1, <2>2, <2>4, FirstPiece
  <2> QED
    BY <1>5, <2>5 DEF Opens
<1>6. CASE value.kind = "object"
  <2> DEFINE list == Joined(PairTexts(value, text))
  <2>1. t = <<"object_start">> \o (list \o <<"object_end">>) /\ value.of \in Maps(V)
    BY <1>6, WrittenByKind, FiveKinds DEF t
  <2>2. <<"object_end">> \in Seq(Pieces) /\ "object_start" \in Pieces /\ "comma" \in Pieces
    BY DEF Pieces
  <2>3. list \in Seq(Pieces)
    BY <1>6, <2>1, <2>2, PairTextsType, JoinedRest
  <2> HIDE DEF list
  <2>4. list \o <<"object_end">> \in Seq(Pieces)
    BY <2>2, <2>3, ConcatProperties
  <2>5. t \in Seq(Pieces) /\ t # << >> /\ t[1] = "object_start"
    BY <2>1, <2>2, <2>4, FirstPiece
  <2> QED
    BY <1>6, <2>5 DEF Opens
<1> QED
  BY <1>2, <1>3, <1>4, <1>5, <1>6, FiveKinds

\* The keys of an object are strings.
LEMMA KeysAreStrings ==
  ASSUME NEW V, NEW pairs \in Maps(V)
  PROVE  Keys(pairs) \subseteq Strings
<1>1. pairs \in Seq([key : Strings, value : V])
  BY DEF Maps
<1>2. ASSUME NEW i \in DOMAIN pairs PROVE pairs[i].key \in Strings
  <2>1. i \in 1 .. Len(pairs)
    BY <1>1, <1>2, LenProperties, Zenon
  <2>2. pairs[i] \in [key : Strings, value : V]
    BY <1>1, <2>1, ElementOfSeq, Zenon
  <2> QED
    BY <2>2
<1> QED
  BY <1>2 DEF Keys

\* Four sequences, one after the other.
SameGroups(x, y, z, w) == (x \o (y \o z)) \o w = x \o (y \o (z \o w))

\* Nor does it with four.
LEMMA Regrouped ==
  ASSUME NEW x \in Seq(Pieces), NEW y \in Seq(Pieces), NEW z \in Seq(Pieces), NEW w \in Seq(Pieces)
  PROVE  SameGroups(x, y, z, w)
<1> DEFINE c == y \o z
<1>1. c \in Seq(Pieces) /\ c \o w = y \o (z \o w)
  <2>1. c \in Seq(Pieces)
    BY ConcatIsSeq, Zenon
  <2>2. c \o w = y \o (z \o w)
    <3>1. ThreeGroups(y, z, w)
      BY ConcatRegroups, Zenon
    <3> QED
      BY <3>1, Zenon DEF ThreeGroups
  <2> QED
    BY <2>1, <2>2, Zenon
<1>2. (x \o c) \o w = x \o (c \o w)
  <2>1. c \in Seq(Pieces)
    BY <1>1, Zenon
  <2> HIDE DEF c
  <2>2. ThreeGroups(x, c, w)
    BY <2>1, ConcatRegroups, Zenon
  <2> QED
    BY <2>2, Zenon DEF ThreeGroups
<1>3. (x \o c) \o w = x \o (y \o (z \o w))
  <2> HIDE DEF c
  <2> QED
    BY <1>1, <1>2, Zenon
<1> QED
  BY <1>3, Zenon DEF SameGroups

\* An entry and what follows it.
LEMMA PairRegrouped ==
  ASSUME NEW x \in Strings, NEW y \in Seq(Pieces), NEW z \in Seq(Pieces)
  PROVE  (Quoted(x) \o (<<"colon">> \o y)) \o z = Quoted(x) \o (<<"colon">> \o (y \o z))
<1>1. Quoted(x) \in Seq(Pieces) /\ <<"colon">> \in Seq(Pieces)
  BY QuotedApart DEF Pieces
<1> DEFINE p == Quoted(x)
           c == <<"colon">>
<1> HIDE DEF p, c
<1>2. p \in Seq(Pieces) /\ c \in Seq(Pieces)
  BY <1>1 DEF p, c
<1>3. SameGroups(p, c, y, z)
  BY <1>2, Regrouped
<1> QED
  BY <1>3, Zenon DEF p, c, SameGroups

\* An entry is read in one way.
PairsAlike(k, a, t, l, b, u) ==
  (Quoted(k) \o (<<"colon">> \o a)) \o t = (Quoted(l) \o (<<"colon">> \o b)) \o u =>
    k = l /\ a \o t = b \o u

\* An entry is read in one way, if its value is.
LEMMA PairsApart ==
  ASSUME NEW k \in Strings, NEW l \in Strings, NEW a \in Seq(Pieces), NEW b \in Seq(Pieces),
         NEW t \in Seq(Pieces), NEW u \in Seq(Pieces)
  PROVE  PairsAlike(k, a, t, l, b, u)
<1>1. <<"colon">> \in Seq(Pieces) /\ Quoted(k) \in Seq(Pieces) /\ Quoted(l) \in Seq(Pieces)
  <2>1. "colon" \in Pieces
    BY Zenon DEF Pieces
  <2>2. <<"colon">> \in Seq(Pieces)
    BY <2>1
  <2>3. Quoted(k) \in Seq(Pieces) /\ Quoted(l) \in Seq(Pieces)
    BY QuotedApart, Zenon
  <2> QED
    BY <2>2, <2>3, Zenon
<1>2. /\ <<"colon">> \o a \in Seq(Pieces) /\ <<"colon">> \o b \in Seq(Pieces)
      /\ a \o t \in Seq(Pieces) /\ b \o u \in Seq(Pieces)
  BY <1>1, ConcatIsSeq, Zenon
<1>3. /\ <<"colon">> \o (a \o t) \in Seq(Pieces) /\ <<"colon">> \o (b \o u) \in Seq(Pieces)
  BY <1>1, <1>2, ConcatIsSeq, Zenon
<1>5. (Quoted(k) \o (<<"colon">> \o a)) \o t = Quoted(k) \o (<<"colon">> \o (a \o t))
  BY PairRegrouped
<1>6. (Quoted(l) \o (<<"colon">> \o b)) \o u = Quoted(l) \o (<<"colon">> \o (b \o u))
  BY PairRegrouped
<1> DEFINE s1 == <<"colon">> \o (a \o t)
           s2 == <<"colon">> \o (b \o u)
<1>7. Quoted(k) \o s1 = Quoted(l) \o s2 => k = l /\ s1 = s2
  <2>1. s1 \in Seq(Pieces) /\ s2 \in Seq(Pieces)
    BY <1>3
  <2> HIDE DEF s1, s2
  <2> QED
    BY <2>1, QuotedApart
<1>8. s1 = s2 => a \o t = b \o u
  BY <1>1, <1>2, CancelFirst
<1> QED
  BY <1>5, <1>6, <1>7, <1>8, Zenon DEF PairsAlike

\* Texts that tell apart the maps of their values, and their ends.
Told(text, form, v, w, s, t) == text[v] \o s = text[w] \o t => form[v] = form[w] /\ s = t

TextsApart(V, text, form) ==
  \A v, w \in V, s, t \in Seq(Pieces) :
    Ends(s, Digits) /\ Ends(t, Digits) => Told(text, form, v, w, s, t)

\* The items have one map each when the lists read the same.
ItemsAlike(p, q, text, form, r, s) ==
  Joined(ItemTexts(p, text)) \o (<<"array_end">> \o r) =
    Joined(ItemTexts(q, text)) \o (<<"array_end">> \o s) =>
      [i \in DOMAIN p |-> form[p[i]]] = [i \in DOMAIN q |-> form[q[i]]] /\ r = s

\* The items of an array are read in one way, and so is where it ends.
LEMMA ArraysApart ==
  ASSUME NEW V, NEW text, Texts(V, text), NEW form, TextsApart(V, text, form),
         NEW p \in Seq(V), NEW q \in Seq(V), NEW r \in Seq(Pieces), NEW s \in Seq(Pieces)
  PROVE  ItemsAlike(p, q, text, form, r, s)
<1> DEFINE a == ItemTexts(p, text)
           b == ItemTexts(q, text)
           x == [i \in DOMAIN p |-> form[p[i]]]
           y == [i \in DOMAIN q |-> form[q[i]]]
<1>1. /\ a \in Seq(Seq(Pieces)) /\ Len(a) = Len(p) /\ Begin(a, "array_end")
      /\ \A i \in 1 .. Len(p) : a[i] = text[p[i]]
  BY ItemTextsType
<1>2. /\ b \in Seq(Seq(Pieces)) /\ Len(b) = Len(q) /\ Begin(b, "array_end")
      /\ \A i \in 1 .. Len(q) : b[i] = text[q[i]]
  BY ItemTextsType
<1>4. /\ DOMAIN p = 1 .. Len(p) /\ DOMAIN q = 1 .. Len(q)
      /\ (\A i \in 1 .. Len(p) : p[i] \in V) /\ \A i \in 1 .. Len(q) : q[i] \in V
  OBVIOUS
<1> HIDE DEF a, b
<1>5. TellApart(a, b, x, y, Digits, Pieces)
  <2>1. SUFFICES ASSUME NEW i \in 1 .. Len(a), NEW j \in 1 .. Len(b),
                        NEW t \in Seq(Pieces), NEW u \in Seq(Pieces),
                        Ends(t, Digits) /\ Ends(u, Digits) /\ a[i] \o t = b[j] \o u
                 PROVE  x[i] = y[j] /\ t = u
    BY Zenon DEF TellApart
  <2> DEFINE v == p[i]
             w == q[j]
  <2>2. text[v] \o t = text[w] \o u /\ v \in V /\ w \in V
    BY <1>1, <1>2, <1>4, <2>1, Zenon
  <2>3. x[i] = form[v] /\ y[j] = form[w]
    BY <1>1, <1>2, <1>4
  <2> HIDE DEF v, w, x, y
  <2>4. Told(text, form, v, w, t, u)
    BY <2>1, <2>2, Zenon DEF TextsApart
  <2> QED
    BY <2>2, <2>3, <2>4, Zenon DEF Told
<1>6. /\ "comma" \in Pieces /\ "array_end" \in Pieces /\ "array_end" # "comma"
      /\ "comma" \notin Digits /\ "array_end" \notin Digits
  BY DEF Pieces, Digits
<1> HIDE DEF x, y
<1>7. Joined(a) \o (<<"array_end">> \o r) = Joined(b) \o (<<"array_end">> \o s) =>
        Len(a) = Len(b) /\ (\A i \in 1 .. Len(a) : x[i] = y[i]) /\ r = s
  <2>1. Separable(a, b, x, y, "array_end", Digits, Pieces)
    BY <1>1, <1>2, <1>5, <1>6 DEF Separable
  <2>2. ReadAlike(a, b, x, y, "array_end", r, s)
    BY <2>1, JoinedApart
  <2> QED
    BY <2>2, Zenon DEF ReadAlike
<1>8. Len(a) = Len(b) /\ (\A i \in 1 .. Len(a) : x[i] = y[i]) => x = y
  BY <1>1, <1>2, <1>4 DEF x, y
<1> QED
  BY <1>7, <1>8, Zenon DEF a, b, x, y, ItemsAlike

\* So do the entries, key by key.
EntriesAlike(p, q, text, form, r, s) ==
  Joined(PairTexts(p, text)) \o (<<"object_end">> \o r) =
    Joined(PairTexts(q, text)) \o (<<"object_end">> \o s) =>
      /\ [key \in Keys(p.of) |-> form[The(Field(p, key))]] =
           [key \in Keys(q.of) |-> form[The(Field(q, key))]]
      /\ r = s

\* So are the entries of an object, in the byte order of their keys.
LEMMA ObjectsApart ==
  ASSUME NEW V, NEW text, Texts(V, text), NEW form, TextsApart(V, text, form),
         NEW p, p.kind = "object", p.of \in Maps(V), NEW q, q.kind = "object", q.of \in Maps(V),
         NEW r \in Seq(Pieces), NEW s \in Seq(Pieces)
  PROVE  EntriesAlike(p, q, text, form, r, s)
<1> DEFINE a == PairTexts(p, text)
           b == PairTexts(q, text)
           k == Sorted(p.of)
           l == Sorted(q.of)
           x == [i \in 1 .. Len(k) |-> <<k[i], form[The(Field(p, k[i]))]>>]
           y == [i \in 1 .. Len(l) |-> <<l[i], form[The(Field(q, l[i]))]>>]
<1>1. /\ a \in Seq(Seq(Pieces)) /\ Len(a) = Len(k) /\ Begin(a, "object_end")
      /\ \A i \in 1 .. Len(k) : /\ a[i] = PairText(p, k[i], text) /\ k[i] \in Strings
                                /\ The(Field(p, k[i])) \in V
  BY PairTextsType
<1>2. /\ b \in Seq(Seq(Pieces)) /\ Len(b) = Len(l) /\ Begin(b, "object_end")
      /\ \A i \in 1 .. Len(l) : /\ b[i] = PairText(q, l[i], text) /\ l[i] \in Strings
                                /\ The(Field(q, l[i])) \in V
  BY PairTextsType
<1>4. /\ k \in Seq(Strings) /\ Range(k) = Keys(p.of) /\ l \in Seq(Strings) /\ Range(l) = Keys(q.of)
  <2>1. Keys(p.of) \subseteq Strings /\ Keys(q.of) \subseteq Strings
    BY KeysAreStrings
  <2>2. /\ k \in Seq(Strings) /\ \A key : key \in Range(k) <=> key \in Keys(p.of) /\ key \in Strings
        /\ l \in Seq(Strings) /\ \A key : key \in Range(l) <=> key \in Keys(q.of) /\ key \in Strings
    BY SortedKeys
  <2> HIDE DEF k, l
  <2> QED
    BY <2>1, <2>2, Zenon
<1> HIDE DEF a, b, k, l
<1>5. /\ \A i \in 1 .. Len(k) : x[i] = <<k[i], form[The(Field(p, k[i]))]>>
      /\ \A i \in 1 .. Len(l) : y[i] = <<l[i], form[The(Field(q, l[i]))]>>
  OBVIOUS
<1> HIDE DEF x, y
<1>6. TellApart(a, b, x, y, Digits, Pieces)
  <2>1. SUFFICES ASSUME NEW i \in 1 .. Len(a), NEW j \in 1 .. Len(b),
                        NEW t \in Seq(Pieces), NEW u \in Seq(Pieces),
                        Ends(t, Digits) /\ Ends(u, Digits) /\ a[i] \o t = b[j] \o u
                 PROVE  x[i] = y[j] /\ t = u
    BY Zenon DEF TellApart
  <2> DEFINE v == The(Field(p, k[i]))
             w == The(Field(q, l[j]))
  <2>2. v \in V /\ w \in V /\ k[i] \in Strings /\ l[j] \in Strings
    BY <1>1, <1>2
  <2>3. /\ a[i] = Quoted(k[i]) \o (<<"colon">> \o text[v])
        /\ b[j] = Quoted(l[j]) \o (<<"colon">> \o text[w])
    BY <1>1, <1>2, Zenon DEF PairText
  <2> HIDE DEF v, w
  <2>4. text[v] \in Seq(Pieces) /\ text[w] \in Seq(Pieces) /\ <<"colon">> \in Seq(Pieces)
    BY <2>2 DEF IsText, Texts, Pieces
  <2>5. PairsAlike(k[i], text[v], t, l[j], text[w], u)
    BY <2>2, <2>4, PairsApart
  <2>7. k[i] = l[j] /\ text[v] \o t = text[w] \o u
    BY <2>1, <2>3, <2>5, Zenon DEF PairsAlike
  <2>6. form[v] = form[w] /\ t = u
    <3>1. Told(text, form, v, w, t, u)
      BY <2>1, <2>2, Zenon DEF TextsApart
    <3> QED
      BY <2>7, <3>1, Zenon DEF Told
  <2> QED
    BY <1>1, <1>2, <1>5, <2>6, <2>7 DEF v, w
<1>7. /\ "comma" \in Pieces /\ "object_end" \in Pieces /\ "object_end" # "comma"
      /\ "comma" \notin Digits /\ "object_end" \notin Digits
  BY DEF Pieces, Digits
<1>12. Joined(a) \o (<<"object_end">> \o r) = Joined(b) \o (<<"object_end">> \o s) =>
         Len(a) = Len(b) /\ (\A i \in 1 .. Len(a) : x[i] = y[i]) /\ r = s
  <2>1. Separable(a, b, x, y, "object_end", Digits, Pieces)
    BY <1>1, <1>2, <1>6, <1>7 DEF Separable
  <2>2. ReadAlike(a, b, x, y, "object_end", r, s)
    BY <2>1, JoinedApart
  <2> QED
    BY <2>2, Zenon DEF ReadAlike
<1> SUFFICES ASSUME Joined(a) \o (<<"object_end">> \o r) = Joined(b) \o (<<"object_end">> \o s)
             PROVE  /\ [key \in Keys(p.of) |-> form[The(Field(p, key))]] =
                         [key \in Keys(q.of) |-> form[The(Field(q, key))]]
                    /\ r = s
  BY Zenon DEF a, b, EntriesAlike
<1>8. Len(k) = Len(l) /\ (\A i \in 1 .. Len(k) : x[i] = y[i]) /\ r = s
  BY <1>1, <1>2, <1>12, Zenon
<1>9. \A i \in 1 .. Len(k) : k[i] = l[i] /\ form[The(Field(p, k[i]))] = form[The(Field(q, l[i]))]
  <2> TAKE i \in 1 .. Len(k)
  <2>1. <<k[i], form[The(Field(p, k[i]))]>> = <<l[i], form[The(Field(q, l[i]))]>>
    BY <1>5, <1>8, Zenon
  <2> QED
    BY <2>1
<1>10. k = l
  BY <1>4, <1>8, <1>9, SeqEqual
<1>11. \A key \in Keys(p.of) : form[The(Field(p, key))] = form[The(Field(q, key))]
  <2> TAKE key \in Keys(p.of)
  <2>1. PICK i \in 1 .. Len(k) : k[i] = key
    BY <1>4 DEF Range
  <2> QED
    BY <1>9, <2>1, Zenon
<1> QED
  BY <1>4, <1>8, <1>10, <1>11

-----------------------------------------------------------------------------
(* One level of values. *)

\* The values have one map, and what follows them is the same, when their
\* texts are.
WrittenAlike(a, b, text, form, r, s) ==
  Written(a, text) \o r = Written(b, text) \o s => Mapped(a, form) = Mapped(b, form) /\ r = s

\* The map of a value, kind by kind.
LEMMA MappedByKind ==
  ASSUME NEW value, NEW form
  PROVE  /\ value.kind \in {"null", "number", "string"} =>
              Mapped(value, form) = <<value.kind, value.of>>
         /\ value.kind = "array" =>
              Mapped(value, form) = <<"array", [i \in DOMAIN value.of |-> form[value.of[i]]]>>
         /\ value.kind = "object" =>
              Mapped(value, form) =
                <<"object", [key \in Keys(value.of) |-> form[The(Field(value, key))]]>>
BY DEF Mapped

\* A list is read up to its end.
LEMMA ListRegrouped ==
  ASSUME NEW open \in Pieces, NEW close \in Pieces,
         NEW list \in Seq(Pieces), NEW rest \in Seq(Pieces)
  PROVE  /\ SameGroups(<<open>>, list, <<close>>, rest)
         /\ list \o (<<close>> \o rest) \in Seq(Pieces)
<1> DEFINE p == <<open>>
           c == <<close>>
<1>1. p \in Seq(Pieces) /\ c \in Seq(Pieces)
  OBVIOUS
<1> HIDE DEF p, c
<1>2. SameGroups(p, list, c, rest)
  BY <1>1, Regrouped
<1>3. c \o rest \in Seq(Pieces)
  BY <1>1, ConcatProperties
<1>4. list \o (c \o rest) \in Seq(Pieces)
  <2> DEFINE d == c \o rest
  <2> HIDE DEF d
  <2>1. d \in Seq(Pieces)
    BY <1>3 DEF d
  <2>2. list \o d \in Seq(Pieces)
    BY <2>1, ConcatProperties
  <2> QED
    BY <2>2 DEF d
<1> QED
  BY <1>2, <1>4, Zenon DEF p, c

\* Two nulls, and what follows them.
LEMMA NullsAlike ==
  ASSUME NEW V, NEW text, NEW form, NEW a \in Nested(V), NEW b \in Nested(V), 
         a.kind = "null", b.kind = "null", NEW r \in Seq(Pieces), NEW s \in Seq(Pieces)
  PROVE  WrittenAlike(a, b, text, form, r, s)
<1>1. Written(a, text) = <<"null">> /\ Written(b, text) = <<"null">>
  BY WrittenByKind
<1>2. Mapped(a, form) = Mapped(b, form)
  BY MappedByKind, FiveKinds
<1>3. <<"null">> \in Seq(Pieces)
  BY DEF Pieces
<1>4. <<"null">> \o r = <<"null">> \o s => r = s
  BY <1>3, CancelFirst
<1> QED
  BY <1>1, <1>2, <1>4, Zenon DEF WrittenAlike

\* Two numbers, which no digit follows.
LEMMA NumbersAlike ==
  ASSUME NEW V, NEW text, NEW form, NEW a \in Nested(V), NEW b \in Nested(V), 
         a.kind = "number", b.kind = "number", NEW r \in Seq(Pieces), NEW s \in Seq(Pieces),
         Ends(r, Digits), Ends(s, Digits)
  PROVE  WrittenAlike(a, b, text, form, r, s)
<1> DEFINE x == a.of
           y == b.of
<1>1. Written(a, text) = x /\ Written(b, text) = y
  BY WrittenByKind
<1>2. x \in Seq(Digits) /\ y \in Seq(Digits)
  BY FiveKinds
<1>3. Mapped(a, form) = <<"number", x>> /\ Mapped(b, form) = <<"number", y>>
  BY MappedByKind
<1>4. Digits \in SUBSET Pieces
  BY DEF Pieces
<1> HIDE DEF x, y
<1>5. x \o r = y \o s => x = y /\ r = s
  BY <1>2, <1>4, RunsApart
<1> QED
  BY <1>1, <1>3, <1>5, Zenon DEF WrittenAlike

\* Two strings.
LEMMA StringsAlike ==
  ASSUME NEW V, NEW text, NEW form, NEW a \in Nested(V), NEW b \in Nested(V), 
         a.kind = "string", b.kind = "string", NEW r \in Seq(Pieces), NEW s \in Seq(Pieces)
  PROVE  WrittenAlike(a, b, text, form, r, s)
<1> DEFINE x == a.of
           y == b.of
<1>1. Written(a, text) = Quoted(x) /\ Written(b, text) = Quoted(y)
  BY WrittenByKind
<1>2. x \in Strings /\ y \in Strings
  BY FiveKinds
<1>3. Mapped(a, form) = <<"string", x>> /\ Mapped(b, form) = <<"string", y>>
  BY MappedByKind
<1> HIDE DEF x, y
<1>5. Quoted(x) \o r = Quoted(y) \o s => x = y /\ r = s
  BY <1>2, QuotedApart
<1> QED
  BY <1>1, <1>3, <1>5, Zenon DEF WrittenAlike

\* Two arrays.
LEMMA ArraysAlike ==
  ASSUME NEW V, NEW text, Texts(V, text), NEW form, TextsApart(V, text, form),
         NEW a \in Nested(V), NEW b \in Nested(V), a.kind = "array", b.kind = "array",
         NEW r \in Seq(Pieces), NEW s \in Seq(Pieces)
  PROVE  WrittenAlike(a, b, text, form, r, s)
<1> DEFINE p == a.of
           q == b.of
           x == Joined(ItemTexts(p, text))
           y == Joined(ItemTexts(q, text))
           f == [i \in DOMAIN p |-> form[p[i]]]
           g == [i \in DOMAIN q |-> form[q[i]]]
           rest == x \o (<<"array_end">> \o r)
           other == y \o (<<"array_end">> \o s)
<1>1. /\ Written(a, text) = <<"array_start">> \o (x \o <<"array_end">>)
      /\ Written(b, text) = <<"array_start">> \o (y \o <<"array_end">>)
  BY WrittenByKind
<1>2. Mapped(a, form) = <<"array", f>> /\ Mapped(b, form) = <<"array", g>>
  BY MappedByKind
<1>3. p \in Seq(V) /\ q \in Seq(V)
  BY FiveKinds
<1>4. "comma" \in Pieces /\ "array_start" \in Pieces /\ "array_end" \in Pieces
  BY DEF Pieces
<1> HIDE DEF p, q
<1>5. x \in Seq(Pieces) /\ y \in Seq(Pieces)
  BY <1>3, <1>4, ItemTextsType, JoinedRest
<1>6. ItemsAlike(p, q, text, form, r, s)
  BY <1>3, ArraysApart
<1>7. rest = other => f = g /\ r = s
  BY <1>6, Zenon DEF ItemsAlike
<1> HIDE DEF x, y, f, g
<1>8. /\ Written(a, text) \o r = <<"array_start">> \o rest /\ rest \in Seq(Pieces)
      /\ Written(b, text) \o s = <<"array_start">> \o other /\ other \in Seq(Pieces)
  <2>1. /\ SameGroups(<<"array_start">>, x, <<"array_end">>, r) /\ rest \in Seq(Pieces)
        /\ SameGroups(<<"array_start">>, y, <<"array_end">>, s) /\ other \in Seq(Pieces)
    BY <1>4, <1>5, ListRegrouped
  <2> QED
    BY <1>1, <2>1, Zenon DEF SameGroups
<1> HIDE DEF rest, other
<1>9. <<"array_start">> \o rest = <<"array_start">> \o other => rest = other
  <2> DEFINE open == <<"array_start">>
  <2>1. open \in Seq(Pieces)
    BY <1>4
  <2> HIDE DEF open
  <2>2. open \o rest = open \o other => rest = other
    BY <1>8, <2>1, CancelFirst
  <2> QED
    BY <2>2 DEF open
<1> QED
  BY <1>2, <1>7, <1>8, <1>9, Zenon DEF WrittenAlike

\* Two objects.
LEMMA ObjectsAlike ==
  ASSUME NEW V, NEW text, Texts(V, text), NEW form, TextsApart(V, text, form),
         NEW a \in Nested(V), NEW b \in Nested(V), a.kind = "object", b.kind = "object",
         NEW r \in Seq(Pieces), NEW s \in Seq(Pieces)
  PROVE  WrittenAlike(a, b, text, form, r, s)
<1> DEFINE x == Joined(PairTexts(a, text))
           y == Joined(PairTexts(b, text))
           f == [key \in Keys(a.of) |-> form[The(Field(a, key))]]
           g == [key \in Keys(b.of) |-> form[The(Field(b, key))]]
           rest == x \o (<<"object_end">> \o r)
           other == y \o (<<"object_end">> \o s)
<1>1. /\ Written(a, text) = <<"object_start">> \o (x \o <<"object_end">>)
      /\ Written(b, text) = <<"object_start">> \o (y \o <<"object_end">>)
  BY WrittenByKind
<1>2. Mapped(a, form) = <<"object", f>> /\ Mapped(b, form) = <<"object", g>>
  BY MappedByKind
<1>3. a.of \in Maps(V) /\ b.of \in Maps(V)
  BY FiveKinds
<1>4. "comma" \in Pieces /\ "object_start" \in Pieces /\ "object_end" \in Pieces
  BY DEF Pieces
<1>5. x \in Seq(Pieces) /\ y \in Seq(Pieces)
  BY <1>3, <1>4, PairTextsType, JoinedRest
<1>6. EntriesAlike(a, b, text, form, r, s)
  BY <1>3, ObjectsApart
<1>7. rest = other => f = g /\ r = s
  BY <1>6, Zenon DEF EntriesAlike
<1> HIDE DEF x, y, f, g
<1>8. /\ Written(a, text) \o r = <<"object_start">> \o rest /\ rest \in Seq(Pieces)
      /\ Written(b, text) \o s = <<"object_start">> \o other /\ other \in Seq(Pieces)
  <2>1. /\ SameGroups(<<"object_start">>, x, <<"object_end">>, r) /\ rest \in Seq(Pieces)
        /\ SameGroups(<<"object_start">>, y, <<"object_end">>, s) /\ other \in Seq(Pieces)
    BY <1>4, <1>5, ListRegrouped
  <2> QED
    BY <1>1, <2>1, Zenon DEF SameGroups
<1> HIDE DEF rest, other
<1>9. <<"object_start">> \o rest = <<"object_start">> \o other => rest = other
  <2> DEFINE open == <<"object_start">>
  <2>1. open \in Seq(Pieces)
    BY <1>4
  <2> HIDE DEF open
  <2>2. open \o rest = open \o other => rest = other
    BY <1>8, <2>1, CancelFirst
  <2> QED
    BY <2>2 DEF open
<1> QED
  BY <1>2, <1>7, <1>8, <1>9, Zenon DEF WrittenAlike

\* A value is read in one way from what is written of it.
LEMMA WrittenApart ==
  ASSUME NEW V, NEW text, Texts(V, text), NEW form, TextsApart(V, text, form),
         NEW a \in Nested(V), NEW b \in Nested(V), NEW r \in Seq(Pieces), NEW s \in Seq(Pieces),
         Ends(r, Digits), Ends(s, Digits)
  PROVE  WrittenAlike(a, b, text, form, r, s)
<1> DEFINE x == Written(a, text)
           y == Written(b, text)
<1>1. /\ x \in Seq(Pieces) /\ x # << >> /\ Opens(a, x[1])
      /\ y \in Seq(Pieces) /\ y # << >> /\ Opens(b, y[1])
  BY WrittenOpens DEF IsText
<1>2. ASSUME x \o r = y \o s PROVE a.kind = b.kind
  <2> HIDE DEF x, y
  <2>1. (x \o r)[1] = x[1] /\ (y \o s)[1] = y[1]
    BY <1>1, FirstOfConcat
  <2>2. Opens(a, x[1]) /\ Opens(b, x[1])
    BY <1>1, <1>2, <2>1
  <2>3. /\ a.kind \in {"null", "number", "string", "array", "object"}
        /\ b.kind \in {"null", "number", "string", "array", "object"}
    BY FiveKinds
  <2> QED
    BY <2>2, <2>3 DEF Opens, Digits
<1>3. CASE a.kind # b.kind
  BY <1>2, <1>3, Zenon DEF WrittenAlike
<1>4. CASE a.kind = b.kind
  <2>1. CASE a.kind = "null"
    BY <1>4, <2>1, NullsAlike
  <2>2. CASE a.kind = "number"
    BY <1>4, <2>2, NumbersAlike
  <2>3. CASE a.kind = "string"
    BY <1>4, <2>3, StringsAlike
  <2>4. CASE a.kind = "array"
    BY <1>4, <2>4, ArraysAlike
  <2>5. CASE a.kind = "object"
    BY <1>4, <2>5, ObjectsAlike
  <2> QED
    BY <2>1, <2>2, <2>3, <2>4, <2>5, FiveKinds
<1> QED
  BY <1>3, <1>4

\* Values of one map have one text.
FormsTell(V, text, form) == \A v, w \in V : form[v] = form[w] => text[v] = text[w]

\* Arrays of one map are written alike.
LEMMA ArraysSame ==
  ASSUME NEW V, NEW text, NEW form, FormsTell(V, text, form), NEW p \in Seq(V), NEW q \in Seq(V),
         [i \in DOMAIN p |-> form[p[i]]] = [i \in DOMAIN q |-> form[q[i]]]
  PROVE  ItemTexts(p, text) = ItemTexts(q, text)
<1>1. DOMAIN p = DOMAIN q
  OBVIOUS
<1>2. \A i \in DOMAIN p : p[i] \in V /\ q[i] \in V /\ form[p[i]] = form[q[i]]
  <2> TAKE i \in DOMAIN p
  <2>1. [j \in DOMAIN p |-> form[p[j]]][i] = [j \in DOMAIN q |-> form[q[j]]][i]
    OBVIOUS
  <2>2. form[p[i]] = form[q[i]]
    BY <1>1, <2>1
  <2>3. DOMAIN p = 1 .. Len(p) /\ DOMAIN q = 1 .. Len(q)
    OBVIOUS
  <2>4. p[i] \in V /\ q[i] \in V
    BY <1>1, <2>3, ElementOfSeq
  <2> QED
    BY <2>2, <2>4
<1>3. \A i \in DOMAIN p : text[p[i]] = text[q[i]]
  BY <1>2, Zenon DEF FormsTell
<1> QED
  BY <1>1, <1>3 DEF ItemTexts

\* Two objects have one map.
SameEntries(a, b, form) ==
  [key \in Keys(a.of) |-> form[The(Field(a, key))]] =
    [key \in Keys(b.of) |-> form[The(Field(b, key))]]

\* So are objects, since their keys are sorted.
LEMMA ObjectsSame ==
  ASSUME NEW V, NEW text, NEW form, FormsTell(V, text, form),
         NEW a, a.kind = "object", a.of \in Maps(V), NEW b, b.kind = "object", b.of \in Maps(V),
         SameEntries(a, b, form)
  PROVE  PairTexts(a, text) = PairTexts(b, text)
<1> DEFINE f == [key \in Keys(a.of) |-> form[The(Field(a, key))]]
           g == [key \in Keys(b.of) |-> form[The(Field(b, key))]]
<1>1. /\ f = g /\ DOMAIN f = Keys(a.of) /\ DOMAIN g = Keys(b.of)
      /\ \A key \in Keys(a.of) : f[key] = form[The(Field(a, key))]
      /\ \A key \in Keys(b.of) : g[key] = form[The(Field(b, key))]
  BY DEF SameEntries
<1> HIDE DEF f, g
<1>2. Keys(a.of) = Keys(b.of)
  BY <1>1
<1>3. \A key \in Keys(a.of) : text[The(Field(a, key))] = text[The(Field(b, key))]
  <2> TAKE key \in Keys(a.of)
  <2>1. The(Field(a, key)) \in V /\ The(Field(b, key)) \in V
    BY <1>2, KeyFinds
  <2>2. form[The(Field(a, key))] = form[The(Field(b, key))]
    BY <1>1, <1>2
  <2> QED
    BY <2>1, <2>2, Zenon DEF FormsTell
<1>4. Sorted(a.of) = Sorted(b.of)
  BY <1>2 DEF Sorted
<1> DEFINE keys == Sorted(a.of)
<1>5. \A i \in DOMAIN keys : keys[i] \in Keys(a.of)
  <2>1. \A key \in Range(keys) : key \in Keys(a.of)
    BY SortedKeys
  <2> HIDE DEF keys
  <2> QED
    BY <2>1 DEF Range
<1>6. \A i \in DOMAIN keys : PairText(a, keys[i], text) = PairText(b, keys[i], text)
  <2> HIDE DEF keys
  <2> QED
    BY <1>3, <1>5, Zenon DEF PairText
<1>7. PairTexts(a, text) = [i \in DOMAIN keys |-> PairText(a, keys[i], text)]
  BY Zenon DEF PairTexts
<1>8. PairTexts(b, text) = [i \in DOMAIN keys |-> PairText(b, keys[i], text)]
  BY <1>4, Zenon DEF PairTexts
<1> HIDE DEF keys
<1> QED
  BY <1>6, <1>7, <1>8

\* Pairs that are equal have the same second.
LEMMA SecondOfPair ==
  \A x, y, v, w : <<x, v>> = <<y, w>> => v = w
BY Zenon

\* Values of one map are written alike.
LEMMA WrittenSame ==
  ASSUME NEW V, NEW text, NEW form, FormsTell(V, text, form),
         NEW a \in Nested(V), NEW b \in Nested(V), Mapped(a, form) = Mapped(b, form)
  PROVE  Written(a, text) = Written(b, text)
<1>1. Mapped(a, form)[1] = a.kind /\ Mapped(b, form)[1] = b.kind
  BY MappedByKind, FiveKinds
<1>2. a.kind = b.kind
  BY <1>1
<1>3. CASE a.kind \in {"null", "number", "string"}
  <2>1. Mapped(a, form) = <<a.kind, a.of>> /\ Mapped(b, form) = <<b.kind, b.of>>
    BY <1>2, <1>3, MappedByKind
  <2>2. a.of = b.of
    BY <2>1, SecondOfPair
  <2> QED
    BY <1>2, <1>3, <2>2, WrittenByKind
<1>4. CASE a.kind = "array"
  <2> DEFINE f == [i \in DOMAIN a.of |-> form[a.of[i]]]
             g == [i \in DOMAIN b.of |-> form[b.of[i]]]
  <2>1. Mapped(a, form) = <<"array", f>> /\ Mapped(b, form) = <<"array", g>>
    BY <1>2, <1>4, MappedByKind
  <2>2. f = g
    <3> HIDE DEF f, g
    <3> QED
      BY <2>1, SecondOfPair
  <2>3. a.of \in Seq(V) /\ b.of \in Seq(V)
    BY <1>2, <1>4, FiveKinds
  <2>4. ItemTexts(a.of, text) = ItemTexts(b.of, text)
    BY <2>2, <2>3, ArraysSame
  <2> QED
    BY <1>2, <1>4, <2>4, WrittenByKind
<1>5. CASE a.kind = "object"
  <2> DEFINE f == [key \in Keys(a.of) |-> form[The(Field(a, key))]]
             g == [key \in Keys(b.of) |-> form[The(Field(b, key))]]
  <2>1. Mapped(a, form) = <<"object", f>> /\ Mapped(b, form) = <<"object", g>>
    BY <1>2, <1>5, MappedByKind
  <2>2. f = g
    <3> HIDE DEF f, g
    <3> QED
      BY <2>1, SecondOfPair
  <2>3. a.of \in Maps(V) /\ b.of \in Maps(V)
    BY <1>2, <1>5, FiveKinds
  <2>4. PairTexts(a, text) = PairTexts(b, text)
    <3>1. SameEntries(a, b, form)
      BY <2>2, Zenon DEF SameEntries
    <3>2. a.kind = "object" /\ b.kind = "object"
      BY <1>2, <1>5, Zenon
    <3> HIDE DEF f, g
    <3> QED
      BY <2>3, <3>1, <3>2, ObjectsSame, Zenon
  <2> QED
    BY <1>2, <1>5, <2>4, WrittenByKind
<1> QED
  BY <1>3, <1>4, <1>5, FiveKinds

-----------------------------------------------------------------------------
(* Every depth. *)

\* What holds of the values V of one depth, of their texts and their maps.
Faithful(V, text, form) == Texts(V, text) /\ TextsApart(V, text, form) /\ FormsTell(V, text, form)

\* It holds one level up.
LEMMA NextLevel ==
  ASSUME NEW V, NEW text, NEW form, Faithful(V, text, form), NEW W \in SUBSET Nested(V),
         NEW other, other = [value \in W |-> Written(value, text)],
         NEW map, map = [value \in W |-> Mapped(value, form)]
  PROVE  Faithful(W, other, map)
<1>1. Texts(V, text) /\ TextsApart(V, text, form) /\ FormsTell(V, text, form)
  BY DEF Faithful
<1>2. \A v \in W : v \in Nested(V) /\ other[v] = Written(v, text) /\ map[v] = Mapped(v, form)
  OBVIOUS
<1>3. Texts(W, other)
  <2>1. \A v \in W : IsText(Written(v, text))
    BY <1>1, WrittenOpens
  <2> QED
    BY <1>2, <2>1, Zenon DEF Texts
<1>4. TextsApart(W, other, map)
  <2>1. SUFFICES ASSUME NEW v \in W, NEW w \in W, NEW s \in Seq(Pieces), NEW t \in Seq(Pieces),
                        Ends(s, Digits) /\ Ends(t, Digits)
                 PROVE  Told(other, map, v, w, s, t)
    BY Zenon DEF TextsApart
  <2>2. WrittenAlike(v, w, text, form, s, t)
    BY <1>1, <1>2, <2>1, WrittenApart
  <2> QED
    BY <1>2, <2>2, Zenon DEF WrittenAlike, Told
<1>5. FormsTell(W, other, map)
  <2>1. SUFFICES ASSUME NEW v \in W, NEW w \in W, map[v] = map[w]
                 PROVE  other[v] = other[w]
    BY Zenon DEF FormsTell
  <2>2. Mapped(v, form) = Mapped(w, form)
    BY <1>2, <2>1
  <2>3. Written(v, text) = Written(w, text)
    BY <1>1, <1>2, <2>2, WrittenSame
  <2> QED
    BY <1>2, <2>3
<1> QED
  BY <1>3, <1>4, <1>5 DEF Faithful

\* It holds at every depth.
LEMMA FaithfulByDepth ==
  \A depth \in 0 .. MaxDepth : Faithful(Values[depth], write_canonical[depth], Unordered[depth])
<1> DEFINE good == {depth \in 0 .. MaxDepth :
                      Faithful(Values[depth], write_canonical[depth], Unordered[depth])}
<1>1. MaxDepth \in Nat
  BY CanonicalAssumption
<1>2. 0 \in good
  <2>1. 0 \in 0 .. MaxDepth
    BY <1>1
  <2>2. Values[0] \in SUBSET Nested({})
    BY <2>1, ValuesByDepth DEF Nested
  <2>3. Faithful({}, write_canonical[0 - 1], Unordered[0 - 1])
    BY DEF Faithful, Texts, TextsApart, FormsTell
  <2>4. /\ write_canonical[0] = [value \in Values[0] |-> Written(value, write_canonical[0 - 1])]
        /\ Unordered[0] = [value \in Values[0] |-> Mapped(value, Unordered[0 - 1])]
    BY <2>1, TextByDepth, FormByDepth, Zenon
  <2>5. Faithful(Values[0], write_canonical[0], Unordered[0])
    BY <2>2, <2>3, <2>4, NextLevel
  <2> QED
    BY <2>1, <2>5
<1>3. ASSUME NEW m \in 0 .. MaxDepth, m < MaxDepth /\ m \in good PROVE m + 1 \in good
  <2>1. m + 1 \in 0 .. MaxDepth /\ m + 1 # 0 /\ (m + 1) - 1 = m
    BY <1>1, <1>3
  <2>2. Values[m + 1] \in SUBSET Nested(Values[m])
    BY <2>1, ValuesByDepth
  <2>3. /\ write_canonical[m + 1] = [value \in Values[m + 1] |-> Written(value, write_canonical[m])]
        /\ Unordered[m + 1] = [value \in Values[m + 1] |-> Mapped(value, Unordered[m])]
    BY <2>1, TextByDepth, FormByDepth
  <2>4. Faithful(Values[m], write_canonical[m], Unordered[m])
    BY <1>3
  <2>5. Faithful(Values[m + 1], write_canonical[m + 1], Unordered[m + 1])
    BY <2>2, <2>3, <2>4, NextLevel
  <2> QED
    BY <2>1, <2>5
<1> HIDE DEF good
<1>4. \A m \in 0 .. MaxDepth : m \in good
  BY <1>1, <1>2, <1>3, InductionTo
<1> QED
  BY <1>4 DEF good

\* Two values have the same bytes exactly when they are the same JSON, in
\* whatever order the entries of their objects were inserted (canonical_json
\* and the keys.sort() of write_canonical).
THEOREM CanonicalFaithful ==
  \A a, b \in Values[MaxDepth] : canonical_json(a) = canonical_json(b) <=> SameJson(a, b)
<1> TAKE a, b \in Values[MaxDepth]
<1> DEFINE text == write_canonical[MaxDepth]
           form == Unordered[MaxDepth]
           V == Values[MaxDepth]
<1>1. Texts(V, text) /\ TextsApart(V, text, form) /\ FormsTell(V, text, form)
  BY CanonicalAssumption, FaithfulByDepth DEF Faithful
<1>2. a \in V /\ b \in V
  OBVIOUS
<1> HIDE DEF text, form, V
<1>3. text[a] \in Seq(Pieces) /\ text[b] \in Seq(Pieces)
  BY <1>1, <1>2 DEF Texts, IsText
<1>4. text[a] = text[b] => form[a] = form[b]
  <2>1. << >> \in Seq(Pieces) /\ Ends(<< >>, Digits)
    BY DEF Ends
  <2>2. Told(text, form, a, b, << >>, << >>)
    BY <1>1, <1>2, <2>1, Zenon DEF TextsApart
  <2> QED
    BY <2>2, Zenon DEF Told
<1>5. form[a] = form[b] => text[a] = text[b]
  BY <1>1, <1>2, Zenon DEF FormsTell
<1> QED
  BY <1>4, <1>5 DEF text, form, canonical_json, SameJson

-----------------------------------------------------------------------------
(* Entries. *)

\* What Field finds under a key.
Lookup(pairs, key) == {pairs[i].value : i \in {j \in DOMAIN pairs : pairs[j].key = key}}

\* No key twice.
Distinct(pairs) == \A i, j \in DOMAIN pairs : pairs[i].key = pairs[j].key => i = j

\* What is found under a key is the value of an entry.
LEMMA LookupFinds ==
  ASSUME NEW pairs, NEW key, NEW x
  PROVE  x \in Lookup(pairs, key) <=> \E i \in DOMAIN pairs : pairs[i].key = key /\ pairs[i].value = x
BY DEF Lookup

\* Field of an object is Lookup in its entries.
LEMMA FieldOfObject ==
  ASSUME NEW pairs, NEW key
  PROVE  Field(Object(pairs), key) = Lookup(pairs, key)
BY DEF Field, Object, Lookup

\* An entry is its key and its value.
LEMMA EntryParts ==
  \A key, value : Entry(key, value).key = key /\ Entry(key, value).value = value
BY DEF Entry

\* The entries of two lists, one after the other.
Combines(pairs, E, p, q) ==
  /\ pairs \in Seq(E) /\ Keys(pairs) = Keys(p) \cup Keys(q)
  /\ \A key : Lookup(pairs, key) = Lookup(p, key) \cup Lookup(q, key)
  /\ Distinct(p) /\ Distinct(q) /\ Keys(p) \cap Keys(q) = {} => Distinct(pairs)

\* Field finds in two lists what it finds in each.
LEMMA LookupConcat ==
  ASSUME NEW E, NEW p \in Seq(E), NEW q \in Seq(E)
  PROVE  Combines(p \o q, E, p, q)
<1> DEFINE m == Len(p)
           n == Len(q)
           pq == p \o q
<1>1. m \in Nat /\ n \in Nat /\ DOMAIN p = 1 .. m /\ DOMAIN q = 1 .. n
  OBVIOUS
<1>2. /\ pq \in Seq(E) /\ DOMAIN pq = 1 .. m + n
      /\ \A i \in 1 .. m + n : pq[i] = IF i <= m THEN p[i] ELSE q[i - m]
  <2>1. /\ pq \in Seq(E) /\ Len(pq) = m + n
        /\ \A i \in 1 .. m + n : pq[i] = IF i <= m THEN p[i] ELSE q[i - m]
    BY ConcatProperties
  <2> HIDE DEF pq, m, n
  <2> QED
    BY <2>1
<1> HIDE DEF m, n, pq
<1>3. \A i \in 1 .. m : i \in 1 .. m + n /\ pq[i] = p[i]
  BY <1>1, <1>2
<1>4. \A i \in 1 .. n : m + i \in 1 .. m + n /\ pq[m + i] = q[i]
  <2> TAKE i \in 1 .. n
  <2>1. m + i \in 1 .. m + n /\ ~(m + i <= m) /\ (m + i) - m = i
    BY <1>1
  <2> QED
    BY <1>2, <2>1
<1>5. \A i \in 1 .. m + n : i \in 1 .. m \/ \E j \in 1 .. n : i = m + j
  <2> TAKE i \in 1 .. m + n
  <2>1. CASE ~(i <= m)
    <3>1. i - m \in 1 .. n /\ i = m + (i - m)
      BY <1>1, <2>1
    <3> QED
      BY <3>1
  <2> QED
    BY <1>1, <2>1
<1>6. \A key : Lookup(pq, key) = Lookup(p, key) \cup Lookup(q, key)
  <2> TAKE key
  <2>1. \A x : x \in Lookup(pq, key) <=> \E i \in 1 .. m + n : pq[i].key = key /\ pq[i].value = x
    <3>1. DOMAIN pq = 1 .. m + n
      BY <1>2
    <3> QED
      BY <3>1 DEF Lookup
  <2>2. \A x : x \in Lookup(p, key) <=> \E i \in 1 .. m : p[i].key = key /\ p[i].value = x
    BY <1>1, LookupFinds
  <2>3. \A x : x \in Lookup(q, key) <=> \E i \in 1 .. n : q[i].key = key /\ q[i].value = x
    BY <1>1, LookupFinds
  <2>4. \A x : (\E i \in 1 .. m : p[i].key = key /\ p[i].value = x) =>
                \E i \in 1 .. m + n : pq[i].key = key /\ pq[i].value = x
    BY <1>3
  <2>5. \A x : (\E i \in 1 .. n : q[i].key = key /\ q[i].value = x) =>
                \E i \in 1 .. m + n : pq[i].key = key /\ pq[i].value = x
    BY <1>4
  <2>6. \A x : (\E i \in 1 .. m + n : pq[i].key = key /\ pq[i].value = x) =>
                \/ \E i \in 1 .. m : p[i].key = key /\ p[i].value = x
                \/ \E i \in 1 .. n : q[i].key = key /\ q[i].value = x
    <3> TAKE x
    <3> SUFFICES ASSUME NEW i \in 1 .. m + n, pq[i].key = key /\ pq[i].value = x
                 PROVE  \/ \E j \in 1 .. m : p[j].key = key /\ p[j].value = x
                        \/ \E j \in 1 .. n : q[j].key = key /\ q[j].value = x
      OBVIOUS
    <3>1. CASE i \in 1 .. m
      BY <1>3, <3>1
    <3>2. CASE \E j \in 1 .. n : i = m + j
      BY <1>4, <3>2
    <3> QED
      BY <1>5, <3>1, <3>2
  <2> QED
    BY <2>1, <2>2, <2>3, <2>4, <2>5, <2>6, Zenon
<1>7. Keys(pq) = Keys(p) \cup Keys(q)
  <2>1. Keys(pq) = {pq[i].key : i \in 1 .. m + n}
    BY <1>2 DEF Keys
  <2>2. Keys(p) = {p[i].key : i \in 1 .. m} /\ Keys(q) = {q[i].key : i \in 1 .. n}
    BY <1>1 DEF Keys
  <2>3. \A i \in 1 .. m + n : \/ \E j \in 1 .. m : pq[i].key = p[j].key
                              \/ \E j \in 1 .. n : pq[i].key = q[j].key
    BY <1>3, <1>4, <1>5
  <2>4. /\ \A i \in 1 .. m : \E j \in 1 .. m + n : pq[j].key = p[i].key
        /\ \A i \in 1 .. n : \E j \in 1 .. m + n : pq[j].key = q[i].key
    BY <1>3, <1>4
  <2>5. ASSUME NEW key PROVE key \in Keys(pq) <=> key \in Keys(p) \/ key \in Keys(q)
    <3>1. key \in Keys(pq) <=> \E i \in 1 .. m + n : key = pq[i].key
      BY <2>1, Zenon
    <3>2. key \in Keys(p) <=> \E i \in 1 .. m : key = p[i].key
      BY <2>2, Zenon
    <3>3. key \in Keys(q) <=> \E i \in 1 .. n : key = q[i].key
      BY <2>2, Zenon
    <3>4. key \in Keys(pq) => key \in Keys(p) \/ key \in Keys(q)
      BY <2>3, <3>1, <3>2, <3>3, Zenon
    <3>5. key \in Keys(p) \/ key \in Keys(q) => key \in Keys(pq)
      BY <2>4, <3>1, <3>2, <3>3, Zenon
    <3> QED
      BY <3>4, <3>5, Zenon
  <2> HIDE DEF pq
  <2> QED
    BY <2>5
<1>8. ASSUME Distinct(p), Distinct(q), Keys(p) \cap Keys(q) = {} PROVE Distinct(pq)
  <2> SUFFICES ASSUME NEW i \in 1 .. m + n, NEW j \in 1 .. m + n, pq[i].key = pq[j].key
               PROVE  i = j
    BY <1>2 DEF Distinct
  <2>1. \A k \in 1 .. m, l \in 1 .. n : p[k].key # q[l].key
    BY <1>1, <1>8 DEF Keys
  <2>2. CASE i \in 1 .. m
    <3>1. \A k \in 1 .. m, l \in 1 .. m : p[k].key = p[l].key => k = l
      BY <1>1, <1>8 DEF Distinct
    <3>2. CASE j \in 1 .. m
      BY <1>3, <2>2, <3>1, <3>2
    <3>3. CASE \E l \in 1 .. n : j = m + l
      <4>1. PICK l \in 1 .. n : j = m + l
        BY <3>3
      <4>2. pq[i].key = p[i].key /\ pq[j].key = q[l].key
        BY <1>3, <1>4, <2>2, <4>1, Zenon
      <4> QED
        BY <2>1, <2>2, <4>2, Zenon
    <3> QED
      BY <1>5, <3>2, <3>3
  <2>3. CASE \E k \in 1 .. n : i = m + k
    <3>1. PICK k \in 1 .. n : i = m + k
      BY <2>3
    <3>2. CASE j \in 1 .. m
      BY <1>3, <1>4, <2>1, <3>1, <3>2
    <3>3. CASE \E l \in 1 .. n : j = m + l
      <4>1. PICK l \in 1 .. n : j = m + l
        BY <3>3
      <4>2. \A x, y \in 1 .. n : q[x].key = q[y].key => x = y
        BY <1>1, <1>8, Zenon DEF Distinct
      <4>3. pq[i].key = q[k].key /\ pq[j].key = q[l].key
        BY <1>4, <3>1, <4>1, Zenon
      <4>4. k = l
        BY <4>2, <4>3, Zenon
      <4> QED
        BY <3>1, <4>1, <4>4, Zenon
    <3> QED
      BY <1>5, <3>2, <3>3
  <2> QED
    BY <1>5, <2>2, <2>3
<1> QED
  BY <1>2, <1>6, <1>7, <1>8 DEF pq, Combines

\* The entry, or nothing.
HoldsUnless(pairs, E, empty, key, value) ==
  /\ pairs \in Seq(E) /\ Keys(pairs) = (IF empty THEN {} ELSE {key}) /\ Distinct(pairs)
  /\ \A other : Lookup(pairs, other) = IF ~empty /\ other = key THEN {value} ELSE {}

\* An entry that may be left out.
LEMMA UnlessAdds ==
  ASSUME NEW E, NEW empty \in BOOLEAN, NEW key, NEW value, ~empty => Entry(key, value) \in E
  PROVE  HoldsUnless(Unless(empty, Entry(key, value)), E, empty, key, value)
<1> DEFINE entry == Entry(key, value)
<1>1. entry.key = key /\ entry.value = value
  BY EntryParts
<1> HIDE DEF entry
<1>2. CASE empty
  <2>1. Unless(empty, entry) = << >>
    BY <1>2 DEF Unless
  <2> QED
    <3>1. << >> \in Seq(E) /\ Keys(<< >>) = {} /\ Distinct(<< >>)
      BY DEF Keys, Distinct
    <3>2. \A other : Lookup(<< >>, other) = {}
      BY DEF Lookup
    <3> QED
      BY <1>2, <2>1, <3>1, <3>2 DEF entry, HoldsUnless
<1>3. CASE ~empty
  <2>1. Unless(empty, entry) = <<entry>>
    BY <1>3 DEF Unless
  <2>2. entry \in E
    BY <1>3 DEF entry
  <2>3. DOMAIN <<entry>> = {1} /\ <<entry>>[1] = entry
    OBVIOUS
  <2>4. <<entry>> \in Seq(E)
    BY <2>2
  <2> DEFINE list == <<entry>>
  <2> HIDE DEF list
  <2>5. DOMAIN list = {1} /\ list[1] = entry
    BY <2>3 DEF list
  <2>6. Keys(list) = {key} /\ Distinct(list)
    BY <1>1, <2>5 DEF Keys, Distinct
  <2>7. \A other : Lookup(list, other) = IF other = key THEN {value} ELSE {}
    BY <1>1, <2>5 DEF Lookup
  <2> QED
    BY <1>3, <2>1, <2>4, <2>6, <2>7 DEF list, entry, HoldsUnless
<1> QED
  BY <1>2, <1>3

\* Two entries of an object.
HoldsTwo(pairs, E, k, v, l, w) ==
  /\ pairs \in Seq(E) /\ Keys(pairs) = {k, l} /\ Distinct(pairs)
  /\ \A key : Lookup(pairs, key) = (IF key = k THEN {v} ELSE {}) \cup (IF key = l THEN {w} ELSE {})

\* Two entries.
LEMMA TwoEntries ==
  ASSUME NEW E, NEW k, NEW l, k # l, NEW v, NEW w, Entry(k, v) \in E, Entry(l, w) \in E
  PROVE  HoldsTwo(<<Entry(k, v), Entry(l, w)>>, E, k, v, l, w)
<1> DEFINE first == Entry(k, v)
           second == Entry(l, w)
           list == <<first, second>>
<1>1. first.key = k /\ first.value = v /\ second.key = l /\ second.value = w
  BY EntryParts
<1>2. first \in E /\ second \in E
  OBVIOUS
<1> HIDE DEF first, second
<1>3. DOMAIN list = {1, 2} /\ list[1] = first /\ list[2] = second /\ list \in Seq(E)
  BY <1>2
<1> HIDE DEF list
<1>4. Keys(list) = {k, l} /\ Distinct(list)
  BY <1>1, <1>3 DEF Keys, Distinct
<1>5. \A key : Lookup(list, key) = (IF key = k THEN {v} ELSE {}) \cup (IF key = l THEN {w} ELSE {})
  BY <1>1, <1>3 DEF Lookup
<1> QED
  BY <1>3, <1>4, <1>5 DEF list, first, second, HoldsTwo

-----------------------------------------------------------------------------
(* The JSON of a bundle is a value. *)

\* An object of values is a value one level up.
LEMMA NestedObject ==
  ASSUME NEW V, NEW pairs \in Seq([key : Strings, value : V]), Distinct(pairs)
  PROVE  Object(pairs) \in Nested(V)
<1>1. pairs \in Maps(V)
  BY DEF Maps, Distinct
<1> QED
  BY <1>1 DEF Object, Nested

\* So is an array.
LEMMA NestedArray ==
  ASSUME NEW V, NEW items \in Seq(V)
  PROVE  Array(items) \in Nested(V)
BY DEF Array, Nested

\* A string is a value of any depth.
LEMMA NestedString ==
  ASSUME NEW s \in Strings, NEW depth \in 0 .. MaxDepth
  PROVE  String(s) \in Values[depth]
<1>1. String(s) \in Scalars
  BY DEF String, Scalars
<1> QED
  BY <1>1, ValuesByDepth DEF Nested

\* Nested is monotonic.
LEMMA NestedGrows ==
  ASSUME NEW V, NEW W, V \subseteq W
  PROVE  Nested(V) \subseteq Nested(W)
<1>1. Seq(V) \subseteq Seq(W)
  BY SeqMonotonic
<1>2. Maps(V) \subseteq Maps(W)
  <2>1. [key : Strings, value : V] \subseteq [key : Strings, value : W]
    OBVIOUS
  <2>2. Seq([key : Strings, value : V]) \subseteq Seq([key : Strings, value : W])
    BY <2>1, SeqMonotonic
  <2> QED
    BY <2>2, Zenon DEF Maps
<1> QED
  BY <1>1, <1>2 DEF Nested

\* A value of one depth is one of the next.
LEMMA ValuesGrow ==
  \A depth \in 0 .. MaxDepth - 1 : Values[depth] \subseteq Values[depth + 1]
<1> DEFINE good == {depth \in 0 .. MaxDepth :
                      depth < MaxDepth => Values[depth] \subseteq Values[depth + 1]}
<1>1. MaxDepth \in Nat
  BY CanonicalAssumption
<1>2. 0 \in good
  <2>1. CASE MaxDepth = 0
    BY <2>1
  <2>2. CASE MaxDepth # 0
    <3>1. 0 \in 0 .. MaxDepth /\ 1 \in 0 .. MaxDepth /\ 1 - 1 = 0
      BY <1>1, <2>2
    <3>2. Values[0] = Scalars /\ Values[1] = Nested(Values[0])
      BY <3>1, ValuesByDepth
    <3>3. Values[0] \subseteq Values[0 + 1]
      BY <3>2 DEF Nested
    <3> QED
      BY <3>1, <3>3
  <2> QED
    BY <2>1, <2>2
<1>3. ASSUME NEW m \in 0 .. MaxDepth, m < MaxDepth /\ m \in good PROVE m + 1 \in good
  <2>1. m + 1 \in 0 .. MaxDepth
    BY <1>1, <1>3
  <2>2. ASSUME m + 1 < MaxDepth PROVE Values[m + 1] \subseteq Values[(m + 1) + 1]
    <3>1. /\ (m + 1) + 1 \in 0 .. MaxDepth /\ (m + 1) + 1 # 0 /\ ((m + 1) + 1) - 1 = m + 1
          /\ m + 1 # 0 /\ (m + 1) - 1 = m
      BY <1>1, <2>2
    <3>2. Values[m + 1] = Nested(Values[m]) /\ Values[(m + 1) + 1] = Nested(Values[m + 1])
      BY <2>1, <3>1, ValuesByDepth
    <3>3. Values[m] \subseteq Values[m + 1]
      BY <1>3
    <3>4. Nested(Values[m]) \subseteq Nested(Values[m + 1])
      BY <3>3, NestedGrows
    <3> QED
      BY <3>2, <3>4
  <2> QED
    BY <2>1, <2>2
<1> HIDE DEF good
<1>4. \A m \in 0 .. MaxDepth : m \in good
  BY <1>1, <1>2, <1>3, InductionTo
<1> QED
  BY <1>1, <1>4 DEF good

\* An object of two strings.
LEMMA TwoStrings ==
  ASSUME NEW k \in Strings, NEW l \in Strings, k # l, NEW v \in Strings, NEW w \in Strings,
         NEW depth \in 1 .. MaxDepth
  PROVE  /\ Object(<<Entry(k, String(v)), Entry(l, String(w))>>) \in Values[depth]
         /\ Text(Object(<<Entry(k, String(v)), Entry(l, String(w))>>), k) = {v}
         /\ Text(Object(<<Entry(k, String(v)), Entry(l, String(w))>>), l) = {w}
<1> DEFINE V == Values[depth - 1]
           x == String(v)
           y == String(w)
           pairs == <<Entry(k, x), Entry(l, y)>>
<1>1. depth - 1 \in 0 .. MaxDepth /\ depth \in 0 .. MaxDepth /\ depth # 0
  BY CanonicalAssumption
<1>2. Values[depth] = Nested(V)
  BY <1>1, ValuesByDepth
<1>3. x \in V /\ y \in V
  BY <1>1, NestedString
<1>4. x.kind = "string" /\ x.of = v /\ y.kind = "string" /\ y.of = w
  BY DEF String
<1> HIDE DEF V, x, y
<1>5. Entry(k, x) \in [key : Strings, value : V] /\ Entry(l, y) \in [key : Strings, value : V]
  BY <1>3 DEF Entry
<1>6. /\ pairs \in Seq([key : Strings, value : V]) /\ Distinct(pairs)
      /\ \A key : Lookup(pairs, key) = (IF key = k THEN {x} ELSE {}) \cup (IF key = l THEN {y} ELSE {})
  <2> DEFINE E == [key : Strings, value : V]
  <2> HIDE DEF E
  <2>1. Entry(k, x) \in E /\ Entry(l, y) \in E
    BY <1>5 DEF E
  <2>2. HoldsTwo(pairs, E, k, x, l, y)
    BY <2>1, TwoEntries
  <2> QED
    BY <2>2, Zenon DEF HoldsTwo, E
<1> HIDE DEF pairs
<1>7. Object(pairs) \in Nested(V)
  BY <1>6, NestedObject
<1>8. Field(Object(pairs), k) = {x} /\ Field(Object(pairs), l) = {y}
  BY <1>6, FieldOfObject
<1>9. Text(Object(pairs), k) = {v} /\ Text(Object(pairs), l) = {w}
  BY <1>4, <1>8 DEF Text
<1> QED
  BY <1>2, <1>7, <1>9 DEF pairs, x, y

-----------------------------------------------------------------------------
(* Bundles. *)

\* What a host puts into the lists of a bundle.
Items == Values[MaxDepth - 2]

\* The bundles that the calls of a host can make.
Bundles ==
  [version : {EVIDENCE_BUNDLE_VERSION}, policy : [outcome : Outcomes, reason : Strings],
   evaluator_report : {r \in SUBSET Items : \A x, y \in r : x = y},
   context_items : Seq(Items), operator_approvals : Seq([operator : Strings, note : Strings])]

\* What to_value makes of the approvals.
ApprovalValues(approvals) == [i \in DOMAIN approvals |-> ApprovalValue(approvals[i])]

\* The fields of a bundle that its JSON shows.
Shows(pairs, b) ==
  /\ Lookup(pairs, "version") = {Number(b.version)}
  /\ Lookup(pairs, "policy") = {PolicyValue(b.policy)}
  /\ Lookup(pairs, "evaluator_report") = b.evaluator_report
  /\ Lookup(pairs, "context_items") =
       IF b.context_items = << >> THEN {} ELSE {Array(b.context_items)}
  /\ Lookup(pairs, "operator_approvals") =
       IF b.operator_approvals = << >> THEN {} ELSE {Array(ApprovalValues(b.operator_approvals))}

\* The depths of what a bundle holds.
LEMMA DepthsOfBundle ==
  /\ MaxDepth \in Nat /\ MaxDepth >= 3
  /\ Values[MaxDepth] = Nested(Values[MaxDepth - 1])
  /\ Values[MaxDepth - 1] = Nested(Items) /\ Items \subseteq Values[MaxDepth - 1]
  /\ \A s \in Strings : String(s) \in Items
<1>1. /\ MaxDepth \in Nat /\ MaxDepth >= 3
  BY CanonicalAssumption, EvidenceAssumption
<1>2. /\ MaxDepth \in 0 .. MaxDepth /\ MaxDepth - 1 \in 0 .. MaxDepth /\ MaxDepth - 2 \in 0 .. MaxDepth
      /\ MaxDepth # 0 /\ MaxDepth - 1 # 0 /\ (MaxDepth - 1) - 1 = MaxDepth - 2
      /\ MaxDepth - 2 \in 0 .. MaxDepth - 1 /\ (MaxDepth - 2) + 1 = MaxDepth - 1
  BY <1>1
<1>3. Values[MaxDepth] = Nested(Values[MaxDepth - 1])
  BY <1>2, ValuesByDepth
<1>4. Values[MaxDepth - 1] = Nested(Items)
  BY <1>2, ValuesByDepth DEF Items
<1>5. Items \subseteq Values[MaxDepth - 1]
  BY <1>2, ValuesGrow DEF Items
<1>6. \A s \in Strings : String(s) \in Items
  BY <1>2, NestedString DEF Items
<1> QED
  BY <1>1, <1>3, <1>4, <1>5, <1>6

\* The names of the fields and the outcomes are strings.
LEMMA FieldStrings ==
  /\ {"version", "policy", "evaluator_report", "context_items", "operator_approvals",
      "outcome", "reason", "operator", "note"} \subseteq Strings
  /\ Outcomes \subseteq Strings
BY EvidenceAssumption DEF FieldNames

\* The JSON of a verdict is a value, and is read back as the verdict.
LEMMA PolicyIsValue ==
  ASSUME NEW policy \in [outcome : Outcomes, reason : Strings]
  PROVE  PolicyValue(policy) \in Values[MaxDepth - 1] /\ PolicyOf(PolicyValue(policy)) = {policy}
<1> DEFINE value == PolicyValue(policy)
           v == policy.outcome
           w == policy.reason
<1>1. v \in Strings /\ w \in Strings /\ v \in Outcomes
  BY FieldStrings
<1>2. "outcome" \in Strings /\ "reason" \in Strings /\ "outcome" # "reason"
  BY FieldStrings
<1>3. MaxDepth - 1 \in 1 .. MaxDepth
  BY DepthsOfBundle
<1>4. value = Object(<<Entry("outcome", String(v)), Entry("reason", String(w))>>)
  BY DEF PolicyValue
<1>5. policy = PolicyVerdict(v, w)
  BY DEF PolicyVerdict
<1> HIDE DEF value, v, w
<1>6. value \in Values[MaxDepth - 1] /\ Text(value, "outcome") = {v} /\ Text(value, "reason") = {w}
  BY <1>1, <1>2, <1>3, <1>4, TwoStrings
<1>7. PolicyOf(value) = {PolicyVerdict(v, w)}
  <2>1. Text(value, "outcome") \cap Outcomes = {v}
    BY <1>1, <1>6
  <2> QED
    BY <1>6, <2>1 DEF PolicyOf
<1> QED
  BY <1>5, <1>6, <1>7 DEF value

\* So is the JSON of an approval.
LEMMA ApprovalIsValue ==
  ASSUME NEW approval \in [operator : Strings, note : Strings]
  PROVE  ApprovalValue(approval) \in Items /\ ApprovalOf(ApprovalValue(approval)) = {approval}
<1> DEFINE value == ApprovalValue(approval)
           v == approval.operator
           w == approval.note
<1>1. v \in Strings /\ w \in Strings
  OBVIOUS
<1>2. "operator" \in Strings /\ "note" \in Strings /\ "operator" # "note"
  BY FieldStrings
<1>3. MaxDepth - 2 \in 1 .. MaxDepth
  BY DepthsOfBundle
<1>4. value = Object(<<Entry("operator", String(v)), Entry("note", String(w))>>)
  BY DEF ApprovalValue
<1>5. approval = OperatorApproval(v, w)
  BY DEF OperatorApproval
<1> HIDE DEF value, v, w
<1>6. value \in Values[MaxDepth - 2] /\ Text(value, "operator") = {v} /\ Text(value, "note") = {w}
  BY <1>1, <1>2, <1>3, <1>4, TwoStrings
<1>7. ApprovalOf(value) = {OperatorApproval(v, w)}
  BY <1>6 DEF ApprovalOf
<1> QED
  BY <1>5, <1>6, <1>7 DEF value, Items

\* So is that of the approvals.
LEMMA ApprovalsAreValues ==
  ASSUME NEW approvals \in Seq([operator : Strings, note : Strings])
  PROVE  ApprovalValues(approvals) \in Seq(Items)
<1>1. DOMAIN approvals = 1 .. Len(approvals) /\ Len(approvals) \in Nat
  OBVIOUS
<1>2. \A i \in 1 .. Len(approvals) : ApprovalValue(approvals[i]) \in Items
  <2> TAKE i \in 1 .. Len(approvals)
  <2>1. approvals[i] \in [operator : Strings, note : Strings]
    BY ElementOfSeq
  <2> QED
    BY <2>1, ApprovalIsValue
<1>3. ApprovalValues(approvals) = [i \in 1 .. Len(approvals) |-> ApprovalValue(approvals[i])]
  BY <1>1 DEF ApprovalValues
<1> QED
  BY <1>1, <1>2, <1>3

\* The JSON of a bundle is a value that shows its fields.
LEMMA BundleShown ==
  ASSUME NEW b \in Bundles
  PROVE  \E pairs : /\ to_value(b) = Object(pairs) /\ Shows(pairs, b)
                    /\ Object(pairs) \in Values[MaxDepth]
<1> DEFINE V == Values[MaxDepth - 1]
           E == [key : Strings, value : V]
           report == b.evaluator_report
           items == b.context_items
           approvals == b.operator_approvals
           version == Number(b.version)
           policy == PolicyValue(b.policy)
           values == ApprovalValues(approvals)
           p1 == <<Entry("version", version), Entry("policy", policy)>>
           p2 == Unless(report = {}, Entry("evaluator_report", The(report)))
           p3 == Unless(items = << >>, Entry("context_items", Array(items)))
           p4 == Unless(approvals = << >>, Entry("operator_approvals", Array(values)))
           q2 == p1 \o p2
           q3 == q2 \o p3
           q4 == q3 \o p4
<1>1. to_value(b) = Object(q4)
  BY Zenon DEF to_value, ApprovalValues
<1>2. /\ b.version = EVIDENCE_BUNDLE_VERSION /\ b.policy \in [outcome : Outcomes, reason : Strings]
      /\ report \in SUBSET Items /\ \A x, y \in report : x = y
  BY DEF Bundles
<1>3. items \in Seq(Items) /\ approvals \in Seq([operator : Strings, note : Strings])
  BY DEF Bundles
<1>4. /\ "version" \in Strings /\ "policy" \in Strings /\ "evaluator_report" \in Strings
      /\ "context_items" \in Strings /\ "operator_approvals" \in Strings
  BY FieldStrings
<1>5. version \in V
  <2>1. <<"1">> \in Seq(Digits) /\ <<"1">> # << >>
    BY DEF Digits
  <2>2. version \in Scalars
    BY <1>2, <2>1, Zenon DEF Number, Scalars, EVIDENCE_BUNDLE_VERSION
  <2> QED
    BY <2>2, DepthsOfBundle DEF Nested
<1>6. policy \in V
  BY <1>2, PolicyIsValue
<1>7. Array(items) \in V
  BY <1>3, NestedArray, DepthsOfBundle
<1>8. Array(values) \in V
  BY <1>3, ApprovalsAreValues, NestedArray, DepthsOfBundle
<1>9. report # {} => The(report) \in V /\ report = {The(report)}
  <2> SUFFICES ASSUME report # {} PROVE The(report) \in V /\ report = {The(report)}
    OBVIOUS
  <2>1. The(report) \in report
    BY Zenon DEF The
  <2> QED
    BY <1>2, <2>1, DepthsOfBundle
<1> HIDE DEF V, E, report, items, approvals, version, policy, values, p1, p2, p3, p4, q2, q3, q4
<1>10. \A key \in Strings, value \in V : Entry(key, value) \in E
  BY DEF Entry, E
<1>11. HoldsTwo(p1, E, "version", version, "policy", policy)
  <2>1. Entry("version", version) \in E /\ Entry("policy", policy) \in E /\ "version" # "policy"
    BY <1>4, <1>5, <1>6, <1>10
  <2> QED
    BY <2>1, TwoEntries DEF p1
<1>12. HoldsUnless(p2, E, report = {}, "evaluator_report", The(report))
  <2>1. report # {} => Entry("evaluator_report", The(report)) \in E
    BY <1>4, <1>9, <1>10
  <2> QED
    BY <2>1, UnlessAdds DEF p2
<1>13. HoldsUnless(p3, E, items = << >>, "context_items", Array(items))
  <2>1. Entry("context_items", Array(items)) \in E
    BY <1>4, <1>7, <1>10
  <2> QED
    BY <2>1, UnlessAdds DEF p3
<1>14. HoldsUnless(p4, E, approvals = << >>, "operator_approvals", Array(values))
  <2>1. Entry("operator_approvals", Array(values)) \in E
    BY <1>4, <1>8, <1>10
  <2> QED
    BY <2>1, UnlessAdds DEF p4
<1>15. /\ p1 \in Seq(E) /\ Distinct(p1) /\ Keys(p1) = {"version", "policy"}
       /\ p2 \in Seq(E) /\ Distinct(p2) /\ Keys(p2) \subseteq {"evaluator_report"}
       /\ p3 \in Seq(E) /\ Distinct(p3) /\ Keys(p3) \subseteq {"context_items"}
       /\ p4 \in Seq(E) /\ Distinct(p4) /\ Keys(p4) \subseteq {"operator_approvals"}
  BY <1>11, <1>12, <1>13, <1>14 DEF HoldsTwo, HoldsUnless
<1>16. Combines(q2, E, p1, p2)
  BY <1>15, LookupConcat DEF q2
<1>17. q2 \in Seq(E) /\ Distinct(q2) /\ Keys(q2) \subseteq {"version", "policy", "evaluator_report"}
  BY <1>15, <1>16 DEF Combines
<1>18. Combines(q3, E, q2, p3)
  BY <1>15, <1>17, LookupConcat DEF q3
<1>19. /\ q3 \in Seq(E) /\ Distinct(q3)
       /\ Keys(q3) \subseteq {"version", "policy", "evaluator_report", "context_items"}
  BY <1>15, <1>17, <1>18 DEF Combines
<1>20. Combines(q4, E, q3, p4)
  BY <1>15, <1>19, LookupConcat DEF q4
<1>21. q4 \in Seq(E) /\ Distinct(q4)
  BY <1>15, <1>19, <1>20 DEF Combines
<1>22. Object(q4) \in Values[MaxDepth]
  BY <1>21, NestedObject, DepthsOfBundle DEF E, V
<1>23. \A key :
         Lookup(q4, key) =
           ((Lookup(p1, key) \cup Lookup(p2, key)) \cup Lookup(p3, key)) \cup Lookup(p4, key)
  BY <1>16, <1>18, <1>20, Zenon DEF Combines
<1>24. /\ \A key : Lookup(p1, key) = (IF key = "version" THEN {version} ELSE {})
                                       \cup (IF key = "policy" THEN {policy} ELSE {})
       /\ \A key : Lookup(p2, key) = IF report # {} /\ key = "evaluator_report" THEN {The(report)} ELSE {}
       /\ \A key : Lookup(p3, key) = IF items # << >> /\ key = "context_items" THEN {Array(items)} ELSE {}
       /\ \A key : Lookup(p4, key) =
            IF approvals # << >> /\ key = "operator_approvals" THEN {Array(values)} ELSE {}
  BY <1>11, <1>12, <1>13, <1>14 DEF HoldsTwo, HoldsUnless
<1>25. Lookup(q4, "version") = {version} /\ Lookup(q4, "policy") = {policy}
  BY <1>23, <1>24
<1>26. Lookup(q4, "evaluator_report") = report
  BY <1>9, <1>23, <1>24
<1>27. Lookup(q4, "context_items") = IF items = << >> THEN {} ELSE {Array(items)}
  BY <1>23, <1>24
<1>28. Lookup(q4, "operator_approvals") = IF approvals = << >> THEN {} ELSE {Array(values)}
  BY <1>23, <1>24
<1>29. Shows(q4, b)
  BY <1>25, <1>26, <1>27, <1>28, Zenon DEF Shows, version, policy, report, items, approvals, values
<1> QED
  BY <1>1, <1>22, <1>29

\* A list that is left out when empty is read back as it was.
LEMMA ListingShown ==
  ASSUME NEW pairs, NEW key, NEW items,
         Lookup(pairs, key) = IF items = << >> THEN {} ELSE {Array(items)}
  PROVE  Listing(Object(pairs), key) = {items}
<1>1. Field(Object(pairs), key) = IF items = << >> THEN {} ELSE {Array(items)}
  BY FieldOfObject
<1>2. Array(items).kind = "array" /\ Array(items).of = items
  BY DEF Array
<1> QED
  BY <1>1, <1>2 DEF Listing

\* The approvals that are read are those that were written.
LEMMA ApprovalsRead ==
  ASSUME NEW approvals \in Seq([operator : Strings, note : Strings])
  PROVE  LET values == ApprovalValues(approvals)
         IN /\ \A i \in DOMAIN values : ApprovalOf(values[i]) # {}
            /\ [i \in DOMAIN values |-> CHOOSE a \in ApprovalOf(values[i]) : TRUE] = approvals
            /\ approvals = << >> => values = << >>
<1> DEFINE values == ApprovalValues(approvals)
<1>1. /\ DOMAIN values = DOMAIN approvals
      /\ DOMAIN approvals = 1 .. Len(approvals) /\ Len(approvals) \in Nat
  BY DEF ApprovalValues
<1>2. \A i \in DOMAIN approvals : values[i] = ApprovalValue(approvals[i])
  BY DEF ApprovalValues
<1>3. \A i \in DOMAIN approvals : ApprovalOf(values[i]) = {approvals[i]}
  <2> TAKE i \in DOMAIN approvals
  <2>1. approvals[i] \in [operator : Strings, note : Strings]
    BY <1>1, ElementOfSeq
  <2> QED
    BY <1>2, <2>1, ApprovalIsValue
<1>4. approvals = << >> => values = << >>
  BY DEF ApprovalValues
<1> HIDE DEF values
<1>5. \A i \in DOMAIN values : ApprovalOf(values[i]) # {}
  BY <1>1, <1>3
<1>6. \A i \in DOMAIN values : (CHOOSE a \in ApprovalOf(values[i]) : TRUE) = approvals[i]
  <2> TAKE i \in DOMAIN values
  <2>1. ApprovalOf(values[i]) = {approvals[i]}
    BY <1>1, <1>3
  <2> QED
    BY <2>1
<1>7. approvals = [i \in DOMAIN approvals |-> approvals[i]]
  OBVIOUS
<1>8. [i \in DOMAIN values |-> CHOOSE a \in ApprovalOf(values[i]) : TRUE] = approvals
  <2>1. [i \in DOMAIN values |-> CHOOSE a \in ApprovalOf(values[i]) : TRUE] =
          [i \in DOMAIN approvals |-> approvals[i]]
    BY <1>1, <1>6, Zenon
  <2> QED
    BY <1>7, <2>1
<1> QED
  BY <1>4, <1>5, <1>8 DEF values

\* A bundle is read back from its JSON.
LEMMA BundleRead ==
  ASSUME NEW b \in Bundles
  PROVE  from_value(to_value(b)) = {Normal(b)}
<1>1. PICK pairs : to_value(b) = Object(pairs) /\ Shows(pairs, b)
  BY BundleShown
<1> DEFINE value == Object(pairs)
           approvals == b.operator_approvals
           values == ApprovalValues(approvals)
           kept == {list \in Listing(value, "operator_approvals") :
                      \A i \in DOMAIN list : ApprovalOf(list[i]) # {}}
           Read(list) == [i \in DOMAIN list |-> CHOOSE a \in ApprovalOf(list[i]) : TRUE]
           Whole(version, policy, items, list) ==
             [version |-> version.of, policy |-> policy,
              evaluator_report |-> Report(value), context_items |-> items,
              operator_approvals |-> Read(list)]
<1>2. /\ b.policy \in [outcome : Outcomes, reason : Strings]
      /\ approvals \in Seq([operator : Strings, note : Strings])
  BY DEF Bundles
<1>3. value.kind = "object"
  BY DEF Object
<1>4. {v \in Field(value, "version") : v.kind = "number"} = {Number(b.version)}
  BY <1>1, FieldOfObject DEF Shows, Number
<1>5. UNION {PolicyOf(v) : v \in Field(value, "policy")} = {b.policy}
  <2>1. Field(value, "policy") = {PolicyValue(b.policy)}
    BY <1>1, FieldOfObject DEF Shows
  <2>2. PolicyOf(PolicyValue(b.policy)) = {b.policy}
    BY <1>2, PolicyIsValue
  <2> QED
    BY <2>1, <2>2
<1>6. Report(value) = {r \in b.evaluator_report : r.kind # "null"}
  BY <1>1, FieldOfObject DEF Shows, Report
<1>7. Listing(value, "context_items") = {b.context_items}
  <2> DEFINE items == b.context_items
  <2>1. Lookup(pairs, "context_items") = IF items = << >> THEN {} ELSE {Array(items)}
    BY <1>1 DEF Shows
  <2> HIDE DEF items
  <2>2. Listing(value, "context_items") = {items}
    BY <2>1, ListingShown
  <2> QED
    BY <2>2 DEF items
<1>8. Listing(value, "operator_approvals") = {values}
  <2>1. approvals = << >> => values = << >>
    BY <1>2, ApprovalsRead
  <2>2. values = << >> => approvals = << >>
    BY <1>2 DEF ApprovalValues
  <2>3. Lookup(pairs, "operator_approvals") = IF values = << >> THEN {} ELSE {Array(values)}
    BY <1>1, <2>1, <2>2 DEF Shows
  <2> QED
    BY <2>3, ListingShown
<1>9. kept = {values} /\ Read(values) = approvals
  BY <1>2, <1>8, ApprovalsRead
<1>10. Number(b.version).of = b.version
  BY DEF Number
<1>11. from_value(value) =
         {Whole(version, policy, items, list) :
            version \in {v \in Field(value, "version") : v.kind = "number"},
            policy \in UNION {PolicyOf(v) : v \in Field(value, "policy")},
            items \in Listing(value, "context_items"), list \in kept}
  BY <1>3 DEF from_value
<1> HIDE DEF Whole, kept
<1>12. from_value(value) = {Whole(Number(b.version), b.policy, b.context_items, values)}
  <2>1. from_value(value) =
          {Whole(version, policy, items, list) :
             version \in {Number(b.version)}, policy \in {b.policy},
             items \in {b.context_items}, list \in {values}}
    BY <1>4, <1>5, <1>7, <1>9, <1>11
  <2> QED
    BY <2>1
<1>13. Whole(Number(b.version), b.policy, b.context_items, values) = Normal(b)
  <2> DEFINE report == Report(value)
             list == Read(values)
             read == {r \in b.evaluator_report : r.kind # "null"}
  <2>1. Whole(Number(b.version), b.policy, b.context_items, values) =
          [version |-> b.version, policy |-> b.policy, evaluator_report |-> report,
           context_items |-> b.context_items, operator_approvals |-> list]
    BY <1>10 DEF Whole
  <2>2. list = approvals /\ report = read
    BY <1>6, <1>9
  <2>3. Normal(b) = [b EXCEPT !.evaluator_report = read]
    BY DEF Normal
  <2> HIDE DEF list, report, read
  <2>4. [b EXCEPT !.evaluator_report = read] =
          [version |-> b.version, policy |-> b.policy, evaluator_report |-> read,
           context_items |-> b.context_items, operator_approvals |-> b.operator_approvals]
    BY DEF Bundles
  <2> QED
    BY <2>1, <2>2, <2>3, <2>4
<1> QED
  BY <1>1, <1>12, <1>13

-----------------------------------------------------------------------------
(* Theorems. *)

\* Every host has a bundle of the types of EvidenceBundle, with at most one
\* report.
TypeOK == bundle \in [Hosts -> Bundles]

\* What hosts put into bundles are items.
LEMMA JsonAreItems ==
  \A i \in DOMAIN Json : Json[i] \in Items
<1>1. Json \in Seq(Items)
  BY EvidenceAssumption DEF Items
<1> QED
  BY <1>1

\* The first bundles are of these types.
LEMMA TypeInit ==
  ASSUME Init
  PROVE  TypeOK
<1>1. ASSUME NEW policy \in Policies PROVE new(policy) \in Bundles
  <2>1. policy \in [outcome : Outcomes, reason : Strings]
    BY EvidenceAssumption
  <2>2. {} \in {r \in SUBSET Items : \A x, y \in r : x = y}
    OBVIOUS
  <2>3. << >> \in Seq(Items) /\ << >> \in Seq([operator : Strings, note : Strings])
    OBVIOUS
  <2> QED
    BY <2>1, <2>2, <2>3 DEF new, Bundles
<1> QED
  BY <1>1 DEF Init, TypeOK

\* Each with_* call keeps them.
LEMMA TypeStep ==
  ASSUME TypeOK, [Next]_bundle
  PROVE  TypeOK'
<1> SUFFICES ASSUME NEW h \in Hosts,
                    with_evaluator_report(h) \/ with_context_items(h) \/ with_operator_approval(h)
             PROVE  TypeOK'
  BY DEF Next, TypeOK
<1>1. ASSUME NEW b \in Bundles, Becomes(h, b) PROVE TypeOK'
  BY <1>1 DEF Becomes, TypeOK
<1> DEFINE b == bundle[h]
<1>2. b \in Bundles
  BY DEF TypeOK
<1> HIDE DEF b
<1>3. CASE with_evaluator_report(h)
  <2>1. PICK i \in DOMAIN Json : Becomes(h, [b EXCEPT !.evaluator_report = {Json[i]}])
    BY <1>3 DEF with_evaluator_report, b
  <2>2. {Json[i]} \in {r \in SUBSET Items : \A x, y \in r : x = y}
    BY JsonAreItems
  <2>3. [b EXCEPT !.evaluator_report = {Json[i]}] \in Bundles
    BY <1>2, <2>2 DEF Bundles
  <2> QED
    BY <1>1, <2>1, <2>3
<1>4. CASE with_context_items(h)
  <2>1. PICK n \in 0 .. MaxItems :
          \E at \in [1 .. n -> DOMAIN Json] :
            Becomes(h, [b EXCEPT !.context_items = [i \in 1 .. n |-> Json[at[i]]]])
    BY <1>4 DEF with_context_items, b
  <2>2. PICK at \in [1 .. n -> DOMAIN Json] :
          Becomes(h, [b EXCEPT !.context_items = [i \in 1 .. n |-> Json[at[i]]]])
    BY <2>1
  <2> DEFINE items == [i \in 1 .. n |-> Json[at[i]]]
  <2>3. n \in Nat
    BY EvidenceAssumption
  <2>4. items \in Seq(Items)
    <3>1. \A i \in 1 .. n : Json[at[i]] \in Items
      BY JsonAreItems
    <3> QED
      BY <2>3, <3>1
  <2> HIDE DEF items
  <2>5. [b EXCEPT !.context_items = items] \in Bundles
    BY <1>2, <2>4 DEF Bundles
  <2> QED
    BY <1>1, <2>2, <2>5 DEF items
<1>5. CASE with_operator_approval(h)
  <2>1. PICK approval \in Approvals :
          Becomes(h, [b EXCEPT !.operator_approvals = Append(@, approval)])
    BY <1>5 DEF with_operator_approval, b
  <2>2. approval \in [operator : Strings, note : Strings]
    BY EvidenceAssumption
  <2>3. b.operator_approvals \in Seq([operator : Strings, note : Strings])
    BY <1>2 DEF Bundles
  <2>4. Append(b.operator_approvals, approval) \in Seq([operator : Strings, note : Strings])
    BY <2>2, <2>3
  <2>5. [b EXCEPT !.operator_approvals = Append(@, approval)] \in Bundles
    BY <1>2, <2>4 DEF Bundles
  <2> QED
    BY <1>1, <2>1, <2>5
<1> QED
  BY <1>3, <1>4, <1>5

\* Whatever a host calls, its bundle keeps its types (the with_* calls).
THEOREM EvidenceTypeCorrect ==
  Spec => []TypeOK
<1>1. Init => TypeOK
  BY TypeInit
<1>2. TypeOK /\ [Next]_bundle => TypeOK'
  BY TypeStep
<1> QED
  BY <1>1, <1>2, PTL DEF Spec

\* The JSON of the bundles of two hosts are values.
LEMMA BundlesAreValues ==
  ASSUME TypeOK, NEW g \in Hosts, NEW h \in Hosts
  PROVE  /\ bundle[g] \in Bundles /\ bundle[h] \in Bundles
         /\ to_value(bundle[g]) \in Values[MaxDepth] /\ to_value(bundle[h]) \in Values[MaxDepth]
<1>1. bundle[g] \in Bundles /\ bundle[h] \in Bundles
  BY DEF TypeOK
<1> QED
  BY <1>1, BundleShown

\* The same evidence has the same bytes, in whatever order it was put
\* together (canonical_json of a bundle).
THEOREM OrderNeverShowsHolds ==
  Spec => []OrderNeverShows
<1>1. TypeOK => OrderNeverShows
  BY BundlesAreValues, CanonicalFaithful DEF OrderNeverShows
<1> QED
  BY <1>1, EvidenceTypeCorrect, PTL

\* Different evidence has different bytes: no two bundles are written alike
\* (canonical_json of a bundle).
THEOREM BytesTellApartHolds ==
  Spec => []BytesTellApart
<1>1. TypeOK => BytesTellApart
  BY BundlesAreValues, CanonicalFaithful DEF BytesTellApart
<1> QED
  BY <1>1, EvidenceTypeCorrect, PTL

\* A bundle comes back from its JSON as it was, but for a null report
\* (to_value and from_value).
THEOREM ReadsBackHolds ==
  Spec => []ReadsBack
<1>1. TypeOK => ReadsBack
  BY BundlesAreValues, BundleRead DEF ReadsBack
<1> QED
  BY <1>1, EvidenceTypeCorrect, PTL

=============================================================================
