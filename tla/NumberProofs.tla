---------------------------- MODULE NumberProofs ----------------------------
(***************************************************************************)
(* Induction on numbers and on finite sets, stated for sets: a property of *)
(* numbers is the set of those that have it.  From it, that recursive      *)
(* functions over a loop or a set are what their equations say, and that a *)
(* fold that adds up weights is their sum, in whatever order it goes.      *)
(***************************************************************************)
EXTENDS Integers, WellFoundedInduction, FiniteSetTheorems, TLAPS

\* A set of natural numbers that is not empty has a least element.
LEMMA LeastNumber ==
  ASSUME NEW S \in SUBSET Nat, S # {}
  PROVE  \E least \in S : \A n \in S : least <= n
<1> DEFINE less == {p \in Nat \X Nat : p[1] < p[2]}
<1>1. IsWellFoundedOn(less, Nat)
  BY NatLessThanWellFounded, Zenon DEF OpToRel
<1>2. PICK least \in S : \A n \in S : <<n, least>> \notin less
  BY <1>1, WFMin
<1>3. \A n \in S : ~(n < least)
  BY <1>2
<1> QED
  BY <1>3

\* One that is bounded has a greatest.
LEMMA GreatestNumber ==
  ASSUME NEW bound \in Nat, NEW S \in SUBSET (0 .. bound), S # {}
  PROVE  \E greatest \in S : \A n \in S : n <= greatest
<1> DEFINE gaps == {bound - n : n \in S}
<1>1. gaps \in SUBSET Nat /\ gaps # {}
  <2>1. \A n \in S : bound - n \in Nat
    OBVIOUS
  <2> QED
    BY <2>1, Zenon
<1> HIDE DEF gaps
<1>2. PICK least \in gaps : \A gap \in gaps : least <= gap
  BY <1>1, LeastNumber
<1>3. PICK greatest \in S : least = bound - greatest
  BY DEF gaps
<1>4. ASSUME NEW n \in S PROVE n <= greatest
  <2>1. least <= bound - n
    BY <1>2 DEF gaps
  <2> QED
    BY <1>3, <2>1
<1> QED
  BY <1>4

\* Induction up to a bound.
LEMMA InductionTo ==
  ASSUME NEW bound \in Nat, NEW S, 0 \in S,
         \A n \in 0 .. bound : n < bound /\ n \in S => n + 1 \in S
  PROVE  \A n \in 0 .. bound : n \in S
<1> DEFINE outside == {n \in 0 .. bound : n \notin S}
<1> SUFFICES ASSUME outside # {} PROVE FALSE
  OBVIOUS
<1>1. outside \in SUBSET Nat
  OBVIOUS
<1>2. PICK least \in outside : \A n \in outside : least <= n
  BY <1>1, LeastNumber
<1>3. least - 1 \in 0 .. bound /\ least - 1 < bound /\ least - 1 \in S
  BY <1>2
<1>4. (least - 1) + 1 \in S
  BY <1>3
<1> QED
  BY <1>2, <1>4

\* A loop over 1 .. bound that goes from value to value.
IsBody(step, bound, Values) ==
  \A n \in 1 .. bound, value \in Values : step[<<n, value>>] \in Values

IsRun(f, step, bound, Values, first) ==
  /\ f \in [0 .. bound -> Values]
  /\ f[0] = first
  /\ \A n \in 1 .. bound : f[n] = step[<<n, f[n - 1]>>]

\* It has a run: what a recursive function on 0 .. bound stands for.
LEMMA LoopTo ==
  ASSUME NEW bound \in Nat, NEW Values, NEW first \in Values, NEW step,
         IsBody(step, bound, Values)
  PROVE  \E f : IsRun(f, step, bound, Values, first)
<1> DEFINE reached == {m \in 0 .. bound : \E f : IsRun(f, step, m, Values, first)}
<1>1. 0 \in reached
  <2>1. IsRun([n \in 0 .. 0 |-> first], step, 0, Values, first)
    BY DEF IsRun
  <2>2. 0 \in 0 .. bound
    OBVIOUS
  <2> QED
    BY <2>1, <2>2, Zenon
<1>2. ASSUME NEW m \in 0 .. bound, m < bound, m \in reached
      PROVE  m + 1 \in reached
  <2>1. PICK f : IsRun(f, step, m, Values, first)
    BY <1>2, Zenon
  <2> DEFINE g == [n \in 0 .. m + 1 |-> IF n = m + 1 THEN step[<<m + 1, f[m]>>] ELSE f[n]]
  <2>2. m + 1 \in 1 .. bound /\ m + 1 \in 0 .. bound /\ f[m] \in Values
    BY <1>2, <2>1 DEF IsRun
  <2>3. step[<<m + 1, f[m]>>] \in Values
    BY <2>2 DEF IsBody
  <2>4. g \in [0 .. m + 1 -> Values] /\ g[0] = first
    BY <2>1, <2>3 DEF IsRun
  <2>5. ASSUME NEW n \in 1 .. m + 1 PROVE g[n] = step[<<n, g[n - 1]>>]
    <3>1. n - 1 \in 0 .. m /\ n \in 0 .. m + 1
      OBVIOUS
    <3>2. g[n - 1] = f[n - 1]
      BY <3>1
    <3>3. CASE n = m + 1
      <4>1. n - 1 = m /\ g[n] = step[<<m + 1, f[m]>>]
        BY <3>1, <3>3
      <4> QED
        BY <3>2, <3>3, <4>1
    <3>4. CASE n # m + 1
      <4>1. n \in 1 .. m
        BY <3>4
      <4> QED
        BY <2>1, <3>1, <3>2, <3>4, <4>1 DEF IsRun
    <3> QED
      BY <3>3, <3>4
  <2>6. IsRun(g, step, m + 1, Values, first)
    BY <2>4, <2>5 DEF IsRun
  <2> QED
    BY <2>2, <2>6, Zenon
<1> HIDE DEF reached
<1>3. \A n \in 0 .. bound : n \in reached
  BY <1>1, <1>2, InductionTo
<1> QED
  BY <1>3 DEF reached

-----------------------------------------------------------------------------
(* Folds over finite sets. *)

\* Induction on the subsets of a finite set.
LEMMA SetInduction ==
  ASSUME NEW S, IsFiniteSet(S), NEW P, {} \in P,
         \A s \in SUBSET S : s # {} /\ (\A x \in s : s \ {x} \in P) => s \in P
  PROVE  \A s \in SUBSET S : s \in P
<1> DEFINE n == Cardinality(S)
           good == {k \in 0 .. n : \A s \in SUBSET S : Cardinality(s) = k => s \in P}
<1>1. /\ n \in Nat
      /\ \A s \in SUBSET S : IsFiniteSet(s) /\ Cardinality(s) \in 0 .. n
  BY FS_Subset, FS_CardinalityType
<1>2. 0 \in good
  BY <1>1, FS_EmptySet
<1>3. ASSUME NEW k \in 0 .. n, k < n, k \in good
      PROVE  k + 1 \in good
  <2>1. ASSUME NEW s \in SUBSET S, Cardinality(s) = k + 1
        PROVE  s \in P
    <3>1. s # {}
      BY <2>1, FS_EmptySet
    <3>2. ASSUME NEW x \in s PROVE s \ {x} \in P
      <4>1. Cardinality(s \ {x}) = k /\ s \ {x} \in SUBSET S
        <5>1. IsFiniteSet(s) /\ s \ {x} \in SUBSET S
          BY <1>1
        <5>2. Cardinality(s \ {x}) = Cardinality(s) - 1
          BY <3>2, <5>1, FS_RemoveElement, Zenon
        <5> QED
          BY <2>1, <5>1, <5>2
      <4> QED
        BY <1>3, <4>1
    <3> QED
      BY <3>1, <3>2
  <2> QED
    BY <1>1, <1>3, <2>1
<1> HIDE DEF good
<1>4. \A k \in 0 .. n : k \in good
  BY <1>1, <1>2, <1>3, InductionTo
<1> QED
  BY <1>1, <1>4 DEF good

\* A fold over a set, as the community modules define it: it takes whichever
\* element CHOOSE does.
Taken(s) == CHOOSE x \in s : TRUE

IsFold(f, step, first, S) ==
  f = [s \in SUBSET S |-> IF s = {} THEN first ELSE step[<<Taken(s), f[s \ {Taken(s)}]>>]]

IsStep(step, S, Values) ==
  \A x \in S, value \in Values : step[<<x, value>>] \in Values

LEMMA FoldStays ==
  ASSUME NEW S, IsFiniteSet(S), NEW Values, NEW first \in Values, NEW step,
         IsStep(step, S, Values), NEW f, IsFold(f, step, first, S)
  PROVE  \A s \in SUBSET S : f[s] \in Values
<1> DEFINE P == {s \in SUBSET S : f[s] \in Values}
<1>1. \A s \in SUBSET S :
        f[s] = IF s = {} THEN first ELSE step[<<Taken(s), f[s \ {Taken(s)}]>>]
  BY Zenon DEF IsFold
<1>2. {} \in P
  BY <1>1
<1>3. ASSUME NEW s \in SUBSET S, s # {}, \A x \in s : s \ {x} \in P
      PROVE  s \in P
  <2>1. Taken(s) \in s
    BY <1>3 DEF Taken
  <2>2. f[s \ {Taken(s)}] \in Values
    BY <1>3, <2>1
  <2> QED
    BY <1>1, <1>3, <2>1, <2>2 DEF IsStep
<1> HIDE DEF P
<1>4. \A s \in SUBSET S : s \in P
  BY <1>2, <1>3, SetInduction
<1> QED
  BY <1>4 DEF P

\* It exists: apply the definition as often as the set has elements.
LEMMA FoldExists ==
  ASSUME NEW S, IsFiniteSet(S), NEW Values, NEW first \in Values, NEW step,
         IsStep(step, S, Values)
  PROVE  \E f : IsFold(f, step, first, S)
<1> DEFINE n == Cardinality(S)
           Tables == [SUBSET S -> Values]
           Next(f) == [s \in SUBSET S |->
                         IF s = {} THEN first ELSE step[<<Taken(s), f[s \ {Taken(s)}]>>]]
           body == [p \in (1 .. n + 1) \X Tables |-> Next(p[2])]
           start == [s \in SUBSET S |-> first]
<1>1. /\ n \in Nat
      /\ \A s \in SUBSET S : IsFiniteSet(s) /\ Cardinality(s) \in 0 .. n
  BY FS_Subset, FS_CardinalityType
<1>2. \A s \in SUBSET S : s # {} => Taken(s) \in s
  BY DEF Taken
<1>3. start \in Tables
  OBVIOUS
<1>4. ASSUME NEW f \in Tables PROVE Next(f) \in Tables
  <2>1. ASSUME NEW s \in SUBSET S, s # {}
        PROVE  step[<<Taken(s), f[s \ {Taken(s)}]>>] \in Values
    <3>1. Taken(s) \in S /\ f[s \ {Taken(s)}] \in Values
      BY <1>2, <2>1
    <3> QED
      BY <3>1 DEF IsStep
  <2> QED
    BY <2>1
<1>5. /\ IsBody(body, n + 1, Tables)
      /\ \A k \in 1 .. n + 1, f \in Tables : body[<<k, f>>] = Next(f)
  BY <1>4 DEF IsBody
<1> HIDE DEF Tables, body, start, Next
<1>6. PICK run : IsRun(run, body, n + 1, Tables, start)
  BY <1>1, <1>3, <1>5, LoopTo
<1>7. \A k \in 0 .. n : run[k] \in Tables /\ run[k + 1] = Next(run[k])
  <2> TAKE k \in 0 .. n
  <2>1. k + 1 \in 1 .. n + 1 /\ (k + 1) - 1 = k /\ k \in 0 .. n + 1
    BY <1>1
  <2>2. run[k] \in Tables /\ run[k + 1] = body[<<k + 1, run[k]>>]
    BY <1>6, <2>1 DEF IsRun
  <2> QED
    BY <1>5, <2>1, <2>2
<1> DEFINE good == {k \in 0 .. n : \A s \in SUBSET S :
                      Cardinality(s) <= k => run[k + 1][s] = run[k][s]}
<1>8. \A k \in 0 .. n, s \in SUBSET S :
        run[k + 1][s] = IF s = {} THEN first
                        ELSE step[<<Taken(s), run[k][s \ {Taken(s)}]>>]
  BY <1>7 DEF Next
<1>9. 0 \in good
  <2>1. run[0] = start
    BY <1>6 DEF IsRun
  <2>2. ASSUME NEW s \in SUBSET S, Cardinality(s) <= 0 PROVE run[0 + 1][s] = run[0][s]
    <3>1. s = {} /\ 0 \in 0 .. n
      BY <1>1, <2>2, FS_EmptySet
    <3> QED
      BY <1>8, <2>1, <3>1 DEF start
  <2> QED
    BY <1>1, <2>2
<1>10. ASSUME NEW k \in 0 .. n, k < n, k \in good
       PROVE  k + 1 \in good
  <2>1. k + 1 \in 0 .. n
    BY <1>1, <1>10
  <2>2. ASSUME NEW s \in SUBSET S, Cardinality(s) <= k + 1
        PROVE  run[(k + 1) + 1][s] = run[k + 1][s]
    <3>1. CASE s = {}
      BY <1>8, <2>1, <3>1
    <3>2. CASE s # {}
      <4>1. s \ {Taken(s)} \in SUBSET S /\ Cardinality(s \ {Taken(s)}) <= k
        BY <1>1, <1>2, <2>2, <3>2, FS_RemoveElement
      <4>2. run[k + 1][s \ {Taken(s)}] = run[k][s \ {Taken(s)}]
        BY <1>10, <4>1
      <4>3. /\ run[(k + 1) + 1][s] = step[<<Taken(s), run[k + 1][s \ {Taken(s)}]>>]
            /\ run[k + 1][s] = step[<<Taken(s), run[k][s \ {Taken(s)}]>>]
        BY <1>8, <2>1, <3>2, Zenon
      <4> QED
        BY <4>2, <4>3
    <3> QED
      BY <3>1, <3>2
  <2> QED
    BY <2>1, <2>2
<1> HIDE DEF good
<1>11. \A k \in 0 .. n : k \in good
  BY <1>1, <1>9, <1>10, InductionTo
<1>12. n \in 0 .. n /\ \A s \in SUBSET S : run[n + 1][s] = run[n][s]
  BY <1>1, <1>11 DEF good
<1>13. run[n] \in Tables /\ run[n + 1] \in Tables
  BY <1>1, <1>6, <1>12 DEF IsRun
<1>14. run[n] = run[n + 1]
  BY <1>12, <1>13 DEF Tables
<1>15. run[n] = Next(run[n])
  BY <1>7, <1>12, <1>14
<1> QED
  BY <1>15, Zenon DEF IsFold, Next

-----------------------------------------------------------------------------
(* Sums over sets of positions. *)

\* The sum of the weights of positions, from the left.
IsSum(h, weight, positions, n) ==
  /\ h \in [0 .. n -> Nat]
  /\ h[0] = 0
  /\ \A i \in 1 .. n :
       h[i] = h[i - 1] + (IF i \in positions THEN weight[i] ELSE 0)

LEMMA SumExists ==
  ASSUME NEW n \in Nat, NEW weight, NEW positions,
         \A i \in positions \cap (1 .. n) : weight[i] \in Nat
  PROVE  \E h : IsSum(h, weight, positions, n)
<1> DEFINE added(i) == IF i \in positions THEN weight[i] ELSE 0
           step == [p \in (1 .. n) \X Nat |-> p[2] + added(p[1])]
<1>1. \A i \in 1 .. n : added(i) \in Nat
  OBVIOUS
<1>2. \A i \in 1 .. n, v \in Nat : step[<<i, v>>] = v + added(i)
  OBVIOUS
<1> HIDE DEF step, added
<1>3. IsBody(step, n, Nat)
  <2>1. ASSUME NEW i \in 1 .. n, NEW v \in Nat PROVE step[<<i, v>>] \in Nat
    <3>1. added(i) \in Nat /\ step[<<i, v>>] = v + added(i)
      BY <1>1, <1>2
    <3> QED
      BY <3>1
  <2> QED
    BY <2>1 DEF IsBody
<1>4. PICK h : IsRun(h, step, n, Nat, 0)
  BY <1>3, LoopTo
<1>5. \A i \in 1 .. n : h[i] = h[i - 1] + added(i)
  <2> TAKE i \in 1 .. n
  <2>1. h[i - 1] \in Nat
    BY <1>4 DEF IsRun
  <2> QED
    BY <1>2, <1>4, <2>1 DEF IsRun
<1> QED
  BY <1>4, <1>5 DEF IsRun, IsSum, added

\* Whichever element is taken away, its weight is.
LEMMA SumWithout ==
  ASSUME NEW n \in Nat, NEW weight, NEW positions \in SUBSET (1 .. n),
         \A i \in positions : weight[i] \in Nat, NEW x \in positions,
         NEW h, IsSum(h, weight, positions, n),
         NEW g, IsSum(g, weight, positions \ {x}, n)
  PROVE  h[n] = weight[x] + g[n]
<1> DEFINE good == {i \in 0 .. n : h[i] = g[i] + (IF x <= i THEN weight[x] ELSE 0)}
<1>1. x \in 1 .. n /\ weight[x] \in Nat
  OBVIOUS
<1>2. 0 \in good
  BY <1>1 DEF IsSum
<1>3. ASSUME NEW i \in 0 .. n, i < n, i \in good
      PROVE  i + 1 \in good
  <2>1. i + 1 \in 1 .. n /\ (i + 1) - 1 = i /\ i + 1 \in 0 .. n
    BY <1>3
  <2>2. /\ h[i] \in Nat /\ g[i] \in Nat
        /\ h[i + 1] = h[i] + (IF i + 1 \in positions THEN weight[i + 1] ELSE 0)
        /\ g[i + 1] = g[i] + (IF i + 1 \in positions \ {x} THEN weight[i + 1] ELSE 0)
    BY <2>1 DEF IsSum
  <2>3. h[i] = g[i] + (IF x <= i THEN weight[x] ELSE 0)
    BY <1>3
  <2>4. h[i + 1] = g[i + 1] + (IF x <= i + 1 THEN weight[x] ELSE 0)
    <3>1. CASE i + 1 = x
      BY <1>1, <2>2, <2>3, <3>1
    <3>2. CASE i + 1 # x /\ i + 1 \in positions
      <4>1. weight[i + 1] \in Nat /\ (x <= i + 1 <=> x <= i)
        BY <1>1, <3>2
      <4> QED
        BY <1>1, <2>2, <2>3, <3>2, <4>1
    <3>3. CASE i + 1 \notin positions
      <4>1. i + 1 # x /\ (x <= i + 1 <=> x <= i)
        BY <1>1, <3>3
      <4> QED
        BY <1>1, <2>2, <2>3, <3>3, <4>1
    <3> QED
      BY <3>1, <3>2, <3>3
  <2> QED
    BY <2>1, <2>4
<1> HIDE DEF good
<1>4. \A i \in 0 .. n : i \in good
  BY <1>2, <1>3, InductionTo
<1>5. n \in good /\ g[n] \in Nat
  BY <1>4 DEF IsSum
<1> QED
  BY <1>1, <1>5 DEF good

\* A fold that adds up weights is their sum, whatever order it takes.
LEMMA FoldIsSum ==
  ASSUME NEW n \in Nat, NEW weight, NEW S \in SUBSET (1 .. n),
         \A i \in S : weight[i] \in Nat,
         NEW step, \A i \in S, v \in Nat : step[<<i, v>>] = weight[i] + v,
         NEW f, IsFold(f, step, 0, S)
  PROVE  \A s \in SUBSET S : \A h : IsSum(h, weight, s, n) => f[s] = h[n]
<1> DEFINE P == {s \in SUBSET S : \A h : IsSum(h, weight, s, n) => f[s] = h[n]}
<1>1. \A s \in SUBSET S :
        f[s] = IF s = {} THEN 0 ELSE step[<<Taken(s), f[s \ {Taken(s)}]>>]
  BY Zenon DEF IsFold
<1>2. {} \in P
  <2>1. ASSUME NEW h, IsSum(h, weight, {}, n) PROVE h[n] = 0
    <3> DEFINE zero == {i \in 0 .. n : h[i] = 0}
    <3>1. 0 \in zero
      BY <2>1 DEF IsSum
    <3>2. ASSUME NEW i \in 0 .. n, i < n, i \in zero PROVE i + 1 \in zero
      <4>1. i + 1 \in 1 .. n /\ (i + 1) - 1 = i
        BY <3>2
      <4> QED
        BY <2>1, <3>2, <4>1 DEF IsSum
    <3> HIDE DEF zero
    <3>3. \A i \in 0 .. n : i \in zero
      BY <3>1, <3>2, InductionTo
    <3> QED
      BY <3>3 DEF zero
  <2> QED
    BY <1>1, <2>1
<1>3. ASSUME NEW s \in SUBSET S, s # {}, \A x \in s : s \ {x} \in P
      PROVE  s \in P
  <2> DEFINE x == Taken(s)
  <2>1. x \in s
    BY <1>3 DEF Taken
  <2> HIDE DEF x
  <2>2. \A i \in (s \ {x}) \cap (1 .. n) : weight[i] \in Nat
    OBVIOUS
  <2>3. PICK g : IsSum(g, weight, s \ {x}, n)
    BY <2>2, SumExists
  <2>4. f[s \ {x}] = g[n] /\ g[n] \in Nat
    <3>1. s \ {x} \in P
      BY <1>3, <2>1
    <3>2. f[s \ {x}] = g[n]
      BY <2>3, <3>1
    <3> QED
      BY <2>3, <3>2 DEF IsSum
  <2>5. f[s] = step[<<x, f[s \ {x}]>>]
    BY <1>1, <1>3 DEF x
  <2>6. f[s] = weight[x] + g[n]
    BY <2>1, <2>4, <2>5
  <2>7. \A h : IsSum(h, weight, s, n) => h[n] = weight[x] + g[n]
    <3>1. s \in SUBSET (1 .. n) /\ \A i \in s : weight[i] \in Nat
      OBVIOUS
    <3> QED
      BY <2>1, <2>3, <3>1, SumWithout
  <2> QED
    BY <2>6, <2>7
<1>4. IsFiniteSet(S)
  <2>1. IsFiniteSet(1 .. n)
    BY FS_Interval
  <2> QED
    BY <2>1, FS_Subset
<1> HIDE DEF P
<1>5. \A s \in SUBSET S : s \in P
  BY <1>2, <1>3, <1>4, SetInduction
<1> QED
  BY <1>5 DEF P

\* The sum up to a position is where the sum of all has got there.
LEMMA SumUpTo ==
  ASSUME NEW n \in Nat, NEW weight, NEW positions \in SUBSET (1 .. n),
         \A i \in positions : weight[i] \in Nat,
         NEW h, IsSum(h, weight, positions, n), NEW m \in 0 .. n,
         NEW first, first = {j \in positions : j <= m},
         NEW g, IsSum(g, weight, first, n)
  PROVE  g[n] = h[m]
<1> DEFINE good == {i \in 0 .. n : g[i] = IF i <= m THEN h[i] ELSE h[m]}
<1>1. 0 \in good
  BY DEF IsSum
<1>2. ASSUME NEW i \in 0 .. n, i < n, i \in good
      PROVE  i + 1 \in good
  <2>1. i + 1 \in 1 .. n /\ (i + 1) - 1 = i /\ i + 1 \in 0 .. n
    BY <1>2
  <2>2. /\ h[i] \in Nat /\ g[i] \in Nat /\ h[m] \in Nat
        /\ h[i + 1] = h[i] + (IF i + 1 \in positions THEN weight[i + 1] ELSE 0)
        /\ g[i + 1] = g[i] + (IF i + 1 \in first THEN weight[i + 1] ELSE 0)
    BY <2>1 DEF IsSum
  <2>3. CASE i + 1 <= m
    BY <1>2, <2>1, <2>2, <2>3
  <2>4. CASE ~(i + 1 <= m)
    <3>1. g[i + 1] = g[i]
      BY <2>2, <2>4
    <3>2. g[i] = h[m]
      BY <1>2, <2>4
    <3> QED
      BY <2>1, <2>4, <3>1, <3>2
  <2> QED
    BY <2>3, <2>4
<1> HIDE DEF good
<1>3. \A i \in 0 .. n : i \in good
  BY <1>1, <1>2, InductionTo
<1>4. n \in good
  BY <1>3
<1> QED
  BY <1>4 DEF good

LEMMA SumMonotonic ==
  ASSUME NEW n \in Nat, NEW weight, NEW positions \in SUBSET (1 .. n),
         \A i \in positions : weight[i] \in Nat,
         NEW h, IsSum(h, weight, positions, n), NEW m \in 0 .. n
  PROVE  \A i \in 0 .. n : m <= i => h[m] <= h[i]
<1> DEFINE good == {i \in 0 .. n : m <= i => h[m] <= h[i]}
<1>1. 0 \in good
  BY DEF IsSum
<1>2. ASSUME NEW i \in 0 .. n, i < n, i \in good
      PROVE  i + 1 \in good
  <2>1. i + 1 \in 1 .. n /\ (i + 1) - 1 = i /\ i + 1 \in 0 .. n
    BY <1>2
  <2>2. /\ h[i] \in Nat /\ h[m] \in Nat /\ h[i + 1] \in Nat
        /\ h[i + 1] = h[i] + (IF i + 1 \in positions THEN weight[i + 1] ELSE 0)
    BY <2>1 DEF IsSum
  <2>3. h[i] <= h[i + 1]
    BY <2>2
  <2> QED
    BY <1>2, <2>1, <2>2, <2>3
<1> HIDE DEF good
<1>3. \A i \in 0 .. n : i \in good
  BY <1>1, <1>2, InductionTo
<1> QED
  BY <1>3 DEF good

=============================================================================
