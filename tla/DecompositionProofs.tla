------------------------ MODULE DecompositionProofs ------------------------
(***************************************************************************)
(* Proof that the boustrophedon decomposition shares out its region, for   *)
(* every region of every grid: each of its cells can be swept from one     *)
(* side to the other, and its neighbour lists are those of the runs that   *)
(* overlap.  The invariant of the sweep says all of that of the cells made *)
(* from the rows gone through so far, and where the runs of the last row   *)
(* went.                                                                   *)
(***************************************************************************)
EXTENDS CoverageProofs

-----------------------------------------------------------------------------
(* Runs *)

BelowIn(T, i) == {s \in T : s < i}

\* The elements of a finite set of numbers can be counted off in their order.
LEMMA RankExists ==
    ASSUME NEW T, T \subseteq Nat, IsFiniteSet(T), NEW k \in 1 .. Cardinality(T)
    PROVE  \E i \in T : Cardinality(BelowIn(T, i)) = k - 1
<1> DEFINE Below(i) == BelowIn(T, i)
           Bad == {m \in Nat : m \in 1 .. Cardinality(T)
                                  /\ ~ \E i \in T : Cardinality(Below(i)) = m - 1}
<1>1. Cardinality(T) \in Nat
  BY FS_CardinalityType
<1>2. Bad = {}
  <2> SUFFICES ASSUME Bad # {} PROVE FALSE
    OBVIOUS
  <2>1. PICK m \in Bad : \A y \in Bad : m <= y
    <3>1. Bad \subseteq Nat
      OBVIOUS
    <3> HIDE DEF Bad
    <3> QED
      BY <3>1, LeastIs
  <2>2. m \in Nat /\ m \in 1 .. Cardinality(T)
    BY <2>1
  <2>3. CASE m = 1
    <3>1. T # {}
      BY <2>2, FS_EmptySet
    <3>2. PICK i \in T : \A y \in T : i <= y
      BY <3>1, LeastIs
    <3>3. i \in Nat /\ \A y \in T : y \in Nat /\ ~ (y < i)
      BY <3>2
    <3>4. Below(i) = {}
      BY <3>3 DEF BelowIn
    <3>5. Cardinality(Below(i)) = 0
      BY <3>4, FS_EmptySet
    <3>6. Cardinality(Below(i)) = m - 1
      BY <2>3, <3>5
    <3> QED
      BY <2>1, <3>6
  <2>4. CASE m > 1
    <3>1. m - 1 \in Nat /\ m - 1 \in 1 .. Cardinality(T) /\ m - 1 \notin Bad
      BY <1>1, <2>1, <2>2, <2>4
    <3>2. PICK i \in T : Cardinality(Below(i)) = (m - 1) - 1
      BY <3>1
    <3> DEFINE L == Below(i) \cup {i}
    <3>3. IsFiniteSet(Below(i)) /\ i \notin Below(i)
      BY FS_Subset DEF BelowIn
    <3>4. IsFiniteSet(L) /\ Cardinality(L) = m - 1
      <4> HIDE DEF Below, Bad
      <4>1. IsFiniteSet(L) /\ Cardinality(L) = Cardinality(Below(i)) + 1
        BY <3>3, FS_AddElement
      <4> QED
        BY <2>2, <3>2, <4>1
    <3>5. L # T
      <4> HIDE DEF L, Bad
      <4> QED
        BY <1>1, <2>2, <3>4
    <3>6. T \ L # {} /\ T \ L \subseteq Nat
      BY <3>5 DEF BelowIn
    <3>7. PICK j \in T \ L : \A y \in T \ L : j <= y
      BY <3>6, LeastIs
    <3>8. i < j
      <4>1. i \in Nat /\ j \in Nat /\ j \in T /\ j # i /\ ~ (j < i)
        BY <3>7 DEF BelowIn
      <4> QED
        BY <4>1
    <3>9. Below(j) = L
      <4>1. \A s \in T : s \in Nat /\ j \in Nat /\ i \in Nat
        BY <3>7
      <4>2. \A s \in T : s \notin L => ~ (s < j)
        BY <3>7, <4>1
      <4>3. \A s \in L : s \in T /\ s < j
        BY <3>8, <4>1 DEF BelowIn
      <4> HIDE DEF L, Bad
      <4> QED
        BY <4>2, <4>3 DEF BelowIn
    <3>10. Cardinality(Below(j)) = m - 1
      BY <3>4, <3>9
    <3> QED
      BY <2>1, <3>7, <3>10
  <2> QED
    BY <2>2, <2>3, <2>4
<1> QED
  BY <1>1, <1>2

\* No two elements of a finite set of numbers have as many below them.
LEMMA RankIsOnce ==
    ASSUME NEW T, T \subseteq Nat, IsFiniteSet(T), NEW i \in T, NEW j \in T,
           Cardinality(BelowIn(T, i)) = Cardinality(BelowIn(T, j))
    PROVE  i = j
<1> DEFINE Below(x) == BelowIn(T, x)
<1>1. ASSUME NEW a \in T, NEW b \in T, a < b PROVE Cardinality(Below(a)) # Cardinality(Below(b))
  <2>1. IsFiniteSet(Below(a)) /\ IsFiniteSet(Below(b)) /\ a \notin Below(a)
    BY FS_Subset DEF BelowIn
  <2>2. Cardinality(Below(a) \cup {a}) = Cardinality(Below(a)) + 1
    BY <2>1, FS_AddElement
  <2>3. Below(a) \cup {a} \subseteq Below(b)
    <3>1. \A s \in T : s < a => s < b
      <4>1. \A s \in T : s \in Nat /\ a \in Nat /\ b \in Nat
        OBVIOUS
      <4> QED
        BY <1>1, <4>1
    <3> QED
      BY <1>1, <3>1 DEF BelowIn
  <2>4. Cardinality(Below(a) \cup {a}) <= Cardinality(Below(b))
    BY <2>1, <2>3, FS_Subset
  <2>5. Cardinality(Below(a)) \in Nat /\ Cardinality(Below(b)) \in Nat
    BY <2>1, FS_CardinalityType
  <2> QED
    BY <2>2, <2>4, <2>5
<1> HIDE DEF Below
<1>2. Cardinality(Below(i)) = Cardinality(Below(j))
  BY DEF Below
<1>3. ~ (i < j) /\ ~ (j < i)
  BY <1>1, <1>2
<1>4. i \in Nat /\ j \in Nat
  OBVIOUS
<1> QED
  BY <1>3, <1>4

\* The maximal runs of a set of numbers.
RunsIn(on) ==
    {r \in on \X on : /\ r[1] <= r[2] /\ r[1] .. r[2] \subseteq on
                      /\ r[1] - 1 \notin on /\ r[2] + 1 \notin on}

\* From every number that is on, the numbers that are on go on to a last one.
LEMMA RunEnds ==
    ASSUME NEW n \in Nat, NEW on, on \subseteq 0 .. n, NEW i \in on
    PROVE  \E j \in on : i <= j /\ i .. j \subseteq on /\ j + 1 \notin on
<1> DEFINE Gaps == {j \in Nat : i <= j /\ j + 1 \notin on}
<1>1. n \in Gaps /\ Gaps \subseteq Nat
  OBVIOUS
<1>2. PICK j \in Gaps : \A y \in Gaps : j <= y
  <2> HIDE DEF Gaps
  <2> QED
    BY <1>1, LeastIs
<1>3. ASSUME NEW x \in i .. j PROVE x \in on
  <2>1. CASE x = i
    BY <2>1
  <2>2. CASE x # i
    <3>1. x - 1 \in Nat /\ i <= x - 1 /\ ~ (j <= x - 1) /\ (x - 1) + 1 = x
      BY <1>2, <1>3, <2>2
    <3>2. x - 1 \notin Gaps
      BY <1>2, <3>1
    <3> QED
      BY <3>1, <3>2
  <2> QED
    BY <2>1, <2>2
<1>4. i <= j /\ j \in i .. j
  BY <1>2
<1> QED
  BY <1>2, <1>3, <1>4

\* The runs are the maximal ones, each once, and they cover the set.
LEMMA RunsAre ==
    ASSUME NEW n \in Nat, NEW on, on \subseteq 0 .. n
    PROVE  /\ RunsOf(on) \in Seq(RunsIn(on))
           /\ \A k, l \in DOMAIN RunsOf(on) : RunsOf(on)[k][1] = RunsOf(on)[l][1] => k = l
           /\ \A c \in on : \E k \in DOMAIN RunsOf(on) :
                  c \in RunsOf(on)[k][1] .. RunsOf(on)[k][2]
<1> DEFINE starts == {i \in on : i - 1 \notin on}
           Rank(i) == Cardinality(BelowIn(starts, i))
           Start(k) == CHOOSE i \in starts : Rank(i) = k - 1
           EndOf(i) == CHOOSE j \in on : i <= j /\ i .. j \subseteq on /\ j + 1 \notin on
           N == Cardinality(starts)
           runs == RunsOf(on)
<1>0. on \subseteq Nat
  OBVIOUS
<1>1. IsFiniteSet(starts) /\ starts \subseteq Nat /\ N \in Nat
  <2>1. IsFiniteSet(0 .. n) /\ starts \subseteq 0 .. n
    <3>1. IsFiniteSet(0 .. n)
      BY FS_Interval
    <3> QED
      BY <3>1
  <2> QED
    BY <2>1, FS_Subset, FS_CardinalityType
<1>2. runs = [k \in 1 .. N |-> <<Start(k), EndOf(Start(k))>>]
  BY DEF RunsOf, BelowIn
<1>3. ASSUME NEW k \in 1 .. N PROVE Start(k) \in starts /\ Rank(Start(k)) = k - 1
  <2> HIDE DEF starts
  <2>1. \E i \in starts : Rank(i) = k - 1
    BY <1>1, RankExists
  <2> QED
    BY <2>1
<1>4. ASSUME NEW i \in on
      PROVE  EndOf(i) \in on /\ i <= EndOf(i) /\ i .. EndOf(i) \subseteq on /\ EndOf(i) + 1 \notin on
  <2>1. \E j \in on : i <= j /\ i .. j \subseteq on /\ j + 1 \notin on
    BY RunEnds
  <2> QED
    BY <2>1
<1>5. ASSUME NEW k \in 1 .. N PROVE <<Start(k), EndOf(Start(k))>> \in RunsIn(on)
  <2>1. Start(k) \in on /\ Start(k) - 1 \notin on
    BY <1>3
  <2> HIDE DEF Start, EndOf
  <2> QED
    BY <1>4, <2>1 DEF RunsIn
<1>6. runs \in Seq(RunsIn(on)) /\ DOMAIN runs = 1 .. N
  <2> HIDE DEF Start, EndOf, runs, N
  <2>1. runs \in [1 .. N -> RunsIn(on)]
    BY <1>2, <1>5
  <2> QED
    BY <1>1, <2>1
<1>7. ASSUME NEW k \in 1 .. N, NEW l \in 1 .. N, runs[k][1] = runs[l][1] PROVE k = l
  <2>1. Start(k) = Start(l)
    <3> HIDE DEF Start, EndOf, runs, N
    <3> QED
      BY <1>2, <1>7
  <2>2. k - 1 = l - 1
    <3> HIDE DEF Start, Rank
    <3> QED
      BY <1>3, <2>1
  <2> QED
    BY <1>1, <2>2
<1>8. ASSUME NEW c \in on PROVE \E k \in 1 .. N : c \in runs[k][1] .. runs[k][2]
  <2> DEFINE S == {x \in Nat : x <= c /\ x .. c \subseteq on}
  <2>1. c \in S /\ S \subseteq Nat
    OBVIOUS
  <2>2. PICK i \in S : \A y \in S : i <= y
    <3> HIDE DEF S
    <3> QED
      BY <2>1, LeastIs
  <2>3. i \in on
    BY <2>2
  <2>4. i - 1 \notin on
    <3> SUFFICES ASSUME i - 1 \in on PROVE FALSE
      OBVIOUS
    <3>1. i - 1 \in Nat /\ i - 1 <= c
      BY <2>2
    <3>2. (i - 1) .. c \subseteq on
      BY <2>2
    <3> QED
      BY <2>2, <3>1, <3>2
  <2>5. i \in starts
    BY <2>3, <2>4
  <2>6. PICK k \in 1 .. N : k - 1 = Rank(i)
    <3> DEFINE B == BelowIn(starts, i)
    <3> HIDE DEF starts
    <3>1. B \subseteq starts \ {i} /\ IsFiniteSet(B)
      BY <1>1, FS_Subset DEF BelowIn
    <3>2. Cardinality(starts \ {i}) = N - 1 /\ IsFiniteSet(starts \ {i})
      BY <1>1, <2>5, FS_RemoveElement
    <3>3. Cardinality(B) \in Nat /\ Cardinality(B) <= N - 1
      BY <3>1, <3>2, FS_Subset, FS_CardinalityType
    <3>4. Cardinality(B) + 1 \in 1 .. N /\ (Cardinality(B) + 1) - 1 = Rank(i)
      BY <1>1, <3>3
    <3> QED
      BY <3>4
  <2>7. Start(k) = i
    <3>1. Start(k) \in starts /\ Rank(Start(k)) = Rank(i)
      BY <1>3, <2>6
    <3> DEFINE a == Start(k)
    <3>2. a \in starts /\ Cardinality(BelowIn(starts, a)) = Cardinality(BelowIn(starts, i))
      BY <3>1
    <3> HIDE DEF a, starts
    <3>3. a = i
      BY <1>1, <2>5, <3>2, RankIsOnce
    <3> QED
      BY <3>3 DEF a
  <2>8. runs[k][1] = i /\ runs[k][2] = EndOf(i)
    <3> HIDE DEF Start, EndOf, runs, N
    <3> QED
      BY <1>2, <2>7
  <2>9. c <= EndOf(i)
    <3> HIDE DEF EndOf
    <3>1. EndOf(i) \in Nat /\ i <= EndOf(i) /\ EndOf(i) + 1 \notin on
      BY <1>0, <1>4, <2>3
    <3>2. ASSUME EndOf(i) < c PROVE FALSE
      <4>1. EndOf(i) + 1 \in i .. c
        BY <2>2, <3>1, <3>2
      <4> QED
        BY <2>2, <3>1, <4>1
    <3> QED
      BY <3>1, <3>2
  <2>10. c \in i .. EndOf(i)
    <3> HIDE DEF EndOf
    <3>1. EndOf(i) \in Nat
      BY <1>0, <1>4, <2>3
    <3> QED
      BY <2>2, <2>9, <3>1
  <2> QED
    BY <2>8, <2>10
<1> HIDE DEF runs
<1> QED
  BY <1>6, <1>7, <1>8 DEF runs

-----------------------------------------------------------------------------
(* Recursion over an interval *)

\* What holds of the first of an interval, and of each next one, holds of all.
LEMMA Climb ==
    ASSUME NEW a \in Nat, NEW n \in Nat, NEW Q, a \in Q,
           \A i \in a + 1 .. n : i - 1 \in Q => i \in Q
    PROVE  a .. n \subseteq Q
<1> DEFINE Bad == {i \in a .. n : i \notin Q}
<1> SUFFICES ASSUME Bad # {} PROVE FALSE
  OBVIOUS
<1>1. PICK m \in Bad : \A y \in Bad : m <= y
  <2>1. Bad \subseteq Nat
    OBVIOUS
  <2> HIDE DEF Bad
  <2> QED
    BY <2>1, LeastIs
<1>2. m \in a .. n /\ m \notin Q /\ m # a
  BY <1>1
<1>3. m \in a + 1 .. n /\ m - 1 \in a .. n /\ ~ (m <= m - 1)
  BY <1>2
<1>4. m - 1 \in Q
  BY <1>1, <1>3
<1> QED
  BY <1>2, <1>3, <1>4

\* g begins with first, and each of its values follows from the one before.
Follows(g, a, n, first, step) ==
    g[a] = first /\ \A i \in a + 1 .. n : g[i] = step[<<i, g[i - 1]>>]

\* A function can be defined step by step.
LEMMA RecursionExists ==
    ASSUME NEW a \in Nat, NEW n \in Nat, a <= n, NEW V, NEW first \in V,
           NEW step \in [(a + 1 .. n) \X V -> V]
    PROVE  \E g \in [a .. n -> V] : Follows(g, a, n, first, step)
<1> DEFINE Good(m, g) == g[a] = first /\ \A i \in a + 1 .. m : g[i] = step[<<i, g[i - 1]>>]
           Q == {m \in a .. n : \E g \in [a .. m -> V] : Good(m, g)}
<1>1. a \in Q
  <2> DEFINE g == [i \in a .. a |-> first]
  <2>1. g \in [a .. a -> V] /\ g[a] = first /\ a + 1 .. a = {}
    OBVIOUS
  <2> HIDE DEF g
  <2>2. Good(a, g)
    BY <2>1
  <2> QED
    BY <2>1, <2>2
<1>2. ASSUME NEW m \in a + 1 .. n, m - 1 \in Q PROVE m \in Q
  <2>1. PICK h \in [a .. m - 1 -> V] : Good(m - 1, h)
    BY <1>2
  <2>2. m - 1 \in a .. m - 1 /\ a \in a .. m - 1 /\ a # m
    OBVIOUS
  <2> DEFINE next == step[<<m, h[m - 1]>>]
             g == [i \in a .. m |-> IF i = m THEN next ELSE h[i]]
  <2>3. h[m - 1] \in V /\ <<m, h[m - 1]>> \in (a + 1 .. n) \X V
    BY <2>2
  <2>4. next \in V
    BY <2>3
  <2> HIDE DEF next
  <2>5. g \in [a .. m -> V]
    BY <2>4
  <2>6. g[m] = next /\ g[a] = h[a] /\ g[m - 1] = h[m - 1]
    BY <2>2
  <2>7. ASSUME NEW i \in a + 1 .. m - 1 PROVE g[i] = h[i] /\ g[i - 1] = h[i - 1]
    OBVIOUS
  <2> HIDE DEF g
  <2>8. ASSUME NEW i \in a + 1 .. m PROVE g[i] = step[<<i, g[i - 1]>>]
    <3>1. CASE i = m
      BY <2>6, <3>1 DEF next
    <3>2. CASE i # m
      <4>1. i \in a + 1 .. m - 1
        BY <3>2
      <4>2. h[i] = step[<<i, h[i - 1]>>]
        BY <2>1, <4>1
      <4> QED
        BY <2>7, <4>1, <4>2
    <3> QED
      BY <3>1, <3>2
  <2>9. Good(m, g)
    BY <2>1, <2>6, <2>8
  <2>10. m \in a .. n
    OBVIOUS
  <2> QED
    BY <2>5, <2>9, <2>10
<1>3. a .. n \subseteq Q
  <2> HIDE DEF Q
  <2> QED
    BY <1>1, <1>2, Climb
<1>4. n \in Q
  <2>1. n \in a .. n
    OBVIOUS
  <2> HIDE DEF Q
  <2> QED
    BY <1>3, <2>1
<1> QED
  BY <1>4 DEF Follows

-----------------------------------------------------------------------------
(* Sequences put one after the other *)

\* Flattening goes from left to right.
LEMMA FlattenSteps ==
    ASSUME NEW S, NEW ss \in Seq(Seq(S)), Len(ss) # 0
    PROVE  \E f \in [1 .. Len(ss) -> Seq(S)] :
               /\ FlattenSeq(ss) = f[Len(ss)] /\ f[1] = ss[1]
               /\ \A i \in 2 .. Len(ss) : f[i] = f[i - 1] \o ss[i]
<1> DEFINE n == Len(ss)
           V == Seq(S)
           one == 1
           step == [p \in (one + 1 .. n) \X V |-> p[2] \o ss[p[1]]]
           F == CHOOSE f : f = [i \in 1 .. n |-> IF i = 1 THEN ss[i] ELSE f[i - 1] \o ss[i]]
<1>1. n \in Nat /\ n >= 1 /\ \A i \in 1 .. n : ss[i] \in Seq(S)
  OBVIOUS
<1>2. FlattenSeq(ss) = F[n]
  BY <1>1 DEF FlattenSeq
<1> HIDE DEF n
<1>3. step \in [(one + 1 .. n) \X V -> V]
  <2>1. ASSUME NEW p \in (one + 1 .. n) \X V PROVE p[2] \o ss[p[1]] \in V
    BY <1>1
  <2> QED
    BY <2>1
<1>4. PICK g \in [one .. n -> V] : Follows(g, one, n, ss[1], step)
  <2>1. one \in Nat /\ one <= n /\ ss[1] \in V /\ n \in Nat
    BY <1>1
  <2> HIDE DEF step, V, one
  <2> QED
    BY <1>3, <2>1, RecursionExists
<1>5. ASSUME NEW i \in 2 .. n PROVE g[i] = g[i - 1] \o ss[i]
  <2>1. i - 1 \in one .. n /\ i \in one + 1 .. n /\ g[i - 1] \in V
    BY <1>1
  <2>2. step[<<i, g[i - 1]>>] = g[i - 1] \o ss[i]
    <3>1. <<i, g[i - 1]>> \in (one + 1 .. n) \X V
      BY <2>1
    <3> HIDE DEF one, V
    <3> QED
      BY <3>1
  <2>3. \A j \in one + 1 .. n : g[j] = step[<<j, g[j - 1]>>]
    BY <1>4 DEF Follows
  <2> HIDE DEF one, V, step
  <2> QED
    BY <2>1, <2>2, <2>3
<1>6. g = [i \in 1 .. n |-> IF i = 1 THEN ss[i] ELSE g[i - 1] \o ss[i]]
  <2>1. ASSUME NEW i \in 1 .. n PROVE g[i] = IF i = 1 THEN ss[i] ELSE g[i - 1] \o ss[i]
    <3>1. i # 1 => i \in 2 .. n
      BY <1>1
    <3> QED
      BY <1>4, <1>5, <3>1 DEF Follows
  <2> QED
    BY <2>1
<1>7. F = [i \in 1 .. n |-> IF i = 1 THEN ss[i] ELSE F[i - 1] \o ss[i]]
  BY <1>6
<1> HIDE DEF F
<1> DEFINE Q == {i \in 1 .. n : F[i] = g[i]}
<1>8. 1 \in Q
  <2>1. 1 \in 1 .. n
    BY <1>1
  <2>2. F[1] = ss[1]
    BY <1>7, <2>1
  <2> QED
    BY <1>4, <2>1, <2>2 DEF Follows
<1>9. ASSUME NEW i \in 1 + 1 .. n, i - 1 \in Q PROVE i \in Q
  <2>1. i \in 2 .. n /\ i \in 1 .. n /\ i # 1
    BY <1>1
  <2>2. F[i] = F[i - 1] \o ss[i]
    BY <1>7, <2>1
  <2>3. g[i] = g[i - 1] \o ss[i]
    BY <1>5, <2>1
  <2>4. F[i - 1] = g[i - 1]
    BY <1>9
  <2> QED
    BY <2>1, <2>2, <2>3, <2>4
<1>10. n \in Q
  <2> HIDE DEF Q
  <2>1. 1 .. n \subseteq Q
    BY <1>1, <1>8, <1>9, Climb
  <2> QED
    BY <1>1, <2>1
<1>11. FlattenSeq(ss) = g[n]
  BY <1>2, <1>10
<1> QED
  BY <1>4, <1>5, <1>11 DEF n, Follows

\* When P holds of the first sequence, and stays true as the next one is appended, it
\* holds of the whole.
LEMMA FlattenInduction ==
    ASSUME NEW S, NEW ss \in Seq(Seq(S)), NEW P, Len(ss) # 0,
           <<1, ss[1]>> \in P,
           \A i \in 2 .. Len(ss), x \in Seq(S) : <<i - 1, x>> \in P => <<i, x \o ss[i]>> \in P
    PROVE  <<Len(ss), FlattenSeq(ss)>> \in P
<1> DEFINE n == Len(ss)
<1>1. n \in Nat /\ n >= 1
  OBVIOUS
<1>2. PICK f \in [1 .. n -> Seq(S)] :
          /\ FlattenSeq(ss) = f[n] /\ f[1] = ss[1]
          /\ \A i \in 2 .. n : f[i] = f[i - 1] \o ss[i]
  BY FlattenSteps
<1>3. \A i \in 2 .. n, x \in Seq(S) : <<i - 1, x>> \in P => <<i, x \o ss[i]>> \in P
  OBVIOUS
<1> HIDE DEF n
<1> DEFINE Q == {i \in 1 .. n : <<i, f[i]>> \in P}
<1>4. 1 \in Q
  <2>1. <<1, ss[1]>> \in P /\ 1 \in 1 .. n
    BY <1>1
  <2>2. f[1] = ss[1]
    BY <1>2
  <2> QED
    BY <2>1, <2>2
<1>5. ASSUME NEW i \in 1 + 1 .. n, i - 1 \in Q PROVE i \in Q
  <2>1. i \in 2 .. n /\ i \in 1 .. n /\ i - 1 \in 1 .. n
    BY <1>1
  <2>2. f[i - 1] \in Seq(S) /\ <<i - 1, f[i - 1]>> \in P
    BY <1>5, <2>1
  <2>3. <<i, f[i - 1] \o ss[i]>> \in P
    BY <1>3, <2>1, <2>2
  <2> QED
    BY <1>2, <2>1, <2>3
<1>6. n \in Q
  <2> HIDE DEF Q
  <2>1. 1 .. n \subseteq Q
    BY <1>1, <1>4, <1>5, Climb
  <2> QED
    BY <1>1, <2>1
<1> QED
  BY <1>2, <1>6 DEF n

\* What is in the flattened sequence was in one of the sequences.
LEMMA FlattenTyped ==
    ASSUME NEW S, NEW ss \in Seq(Seq(S))
    PROVE  FlattenSeq(ss) \in Seq(S)
<1>1. CASE Len(ss) = 0
  <2>1. FlattenSeq(ss) = ss /\ ss = << >>
    BY <1>1 DEF FlattenSeq
  <2> QED
    BY <2>1
<1>2. CASE Len(ss) # 0
  <2>1. PICK f \in [1 .. Len(ss) -> Seq(S)] : FlattenSeq(ss) = f[Len(ss)]
    BY <1>2, FlattenSteps
  <2>2. Len(ss) \in 1 .. Len(ss)
    BY <1>2
  <2> QED
    BY <2>1, <2>2
<1> QED
  BY <1>1, <1>2

-----------------------------------------------------------------------------
(* The decomposition *)

\* The cells of a run of a row.
StripOf(row, run) == {<<row, col>> : col \in run[1] .. run[2]}

\* The runs of a row of a mask are disjoint and hold the cells of the row.
LEMMA RowRunsAre ==
    ASSUME NEW mask, mask \subseteq Cells, NEW row \in Nat
    PROVE  /\ rowRuns(mask, row) \in Seq(Nat \X Nat)
           /\ \A i \in DOMAIN rowRuns(mask, row) :
                 /\ rowRuns(mask, row)[i][1] <= rowRuns(mask, row)[i][2]
                 /\ StripOf(row, rowRuns(mask, row)[i]) \subseteq mask
           /\ \A i, k \in DOMAIN rowRuns(mask, row) : \A col \in Nat :
                 /\ col \in rowRuns(mask, row)[i][1] .. rowRuns(mask, row)[i][2]
                 /\ col \in rowRuns(mask, row)[k][1] .. rowRuns(mask, row)[k][2]
                 => i = k
           /\ \A col \in Nat : <<row, col>> \in mask =>
                 \E i \in DOMAIN rowRuns(mask, row) :
                     col \in rowRuns(mask, row)[i][1] .. rowRuns(mask, row)[i][2]
<1> DEFINE on == {col \in 0 .. Cols - 1 : <<row, col>> \in mask}
           runs == RunsOf(on)
<1>1. rowRuns(mask, row) = runs
  BY DEF rowRuns
<1>2. Cols \in Nat /\ Cols - 1 \in Nat /\ on \subseteq 0 .. Cols - 1 /\ on \subseteq Nat
  BY GridAssumption
<1>3. \A col \in Nat : <<row, col>> \in mask => col \in on
  BY DEF Cells
<1>4. /\ runs \in Seq(RunsIn(on))
      /\ \A k, l \in DOMAIN runs : runs[k][1] = runs[l][1] => k = l
      /\ \A c \in on : \E k \in DOMAIN runs : c \in runs[k][1] .. runs[k][2]
  <2> HIDE DEF on
  <2> QED
    BY <1>2, RunsAre
<1>5. \A col \in on : <<row, col>> \in mask
  OBVIOUS
<1> HIDE DEF runs, on
<1>6. \A i \in DOMAIN runs : runs[i] \in RunsIn(on)
  BY <1>4
<1>7. \A i \in DOMAIN runs : /\ runs[i] \in Nat \X Nat /\ runs[i][1] <= runs[i][2]
                            /\ runs[i][1] \in on /\ runs[i][2] \in on
                            /\ runs[i][1] .. runs[i][2] \subseteq on
                            /\ runs[i][1] - 1 \notin on /\ runs[i][2] + 1 \notin on
  BY <1>2, <1>6 DEF RunsIn
<1>8. runs \in Seq(Nat \X Nat)
  BY <1>4, <1>7
<1>9. \A i \in DOMAIN runs : StripOf(row, runs[i]) \subseteq mask
  BY <1>5, <1>7 DEF StripOf
<1>10. ASSUME NEW i \in DOMAIN runs, NEW k \in DOMAIN runs, NEW col \in Nat,
              col \in runs[i][1] .. runs[i][2], col \in runs[k][1] .. runs[k][2],
              runs[i][1] < runs[k][1]
       PROVE  FALSE
  <2>1. runs[k][1] - 1 \in runs[i][1] .. runs[i][2]
    BY <1>7, <1>10
  <2> QED
    BY <1>7, <2>1
<1>11. ASSUME NEW i \in DOMAIN runs, NEW k \in DOMAIN runs, NEW col \in Nat,
              col \in runs[i][1] .. runs[i][2], col \in runs[k][1] .. runs[k][2]
       PROVE  i = k
  <2>1. ~ (runs[i][1] < runs[k][1]) /\ ~ (runs[k][1] < runs[i][1])
    BY <1>10, <1>11
  <2>2. runs[i][1] = runs[k][1]
    BY <1>7, <2>1
  <2> QED
    BY <1>4, <2>2
<1> QED
  BY <1>1, <1>3, <1>4, <1>7, <1>8, <1>9, <1>11

\* A region that can be swept stays one when a run is put under its last row, over a
\* cell of it.
LEMMA SweepableGrows ==
    ASSUME NEW m, m \subseteq Nat \X Nat, NEW row \in Nat, NEW run \in Nat \X Nat,
           run[1] <= run[2], Sweepable(m), \A c \in m : c[1] < row,
           m # {} => \E col \in run[1] .. run[2] : <<row - 1, col>> \in m
    PROVE  Sweepable(m \cup StripOf(row, run))
<1> DEFINE w == m \cup StripOf(row, run)
           Rs(k) == {c[1] : c \in k}
<1>1. \A c \in m : c[1] \in Nat /\ c[2] \in Nat /\ c = <<c[1], c[2]>>
  OBVIOUS
<1>2. \A c \in StripOf(row, run) : c[1] = row /\ c[2] \in run[1] .. run[2]
  BY DEF StripOf
<1>3. \A col \in run[1] .. run[2] : <<row, col>> \in StripOf(row, run)
  BY DEF StripOf
<1>4. row \in Rs(w) /\ row \notin Rs(m) /\ Rs(w) = Rs(m) \cup {row} /\ Rs(m) \subseteq Nat
  <2>1. run[1] \in run[1] .. run[2]
    OBVIOUS
  <2>2. <<row, run[1]>> \in w /\ <<row, run[1]>>[1] = row
    BY <1>3, <2>1
  <2>3. \A c \in m : c[1] # row /\ c[1] \in Nat
    BY <1>1
  <2> QED
    BY <1>2, <2>2, <2>3
<1>5. RowOf(w, row) = run[1] .. run[2]
  <2>1. ASSUME NEW c \in w, c[1] = row PROVE c[2] \in run[1] .. run[2]
    BY <1>1, <1>2, <2>1
  <2>2. ASSUME NEW col \in run[1] .. run[2] PROVE col \in RowOf(w, row)
    <3>1. <<row, col>> \in w /\ <<row, col>>[1] = row /\ <<row, col>>[2] = col
      BY <1>3
    <3> QED
      BY <3>1 DEF RowOf
  <2> QED
    BY <2>1, <2>2 DEF RowOf
<1>6. \A s \in Rs(m) : RowOf(w, s) = RowOf(m, s)
  <2>1. \A s \in Rs(m) : s # row
    BY <1>4
  <2> QED
    BY <1>2, <2>1 DEF RowOf
<1>7. /\ OneRun(Rs(m))
      /\ \A s \in Rs(m) : OneRun(RowOf(m, s))
      /\ \A s \in Rs(m) : s + 1 \in Rs(m) => RowOf(m, s) \cap RowOf(m, s + 1) # {}
  BY DEF Sweepable
<1>8. \A s \in Rs(m) : s < row
  OBVIOUS
<1>9. m # {} => row - 1 \in Rs(m) /\ RowOf(m, row - 1) \cap (run[1] .. run[2]) # {}
  <2>1. ASSUME NEW col \in run[1] .. run[2], <<row - 1, col>> \in m
        PROVE  row - 1 \in Rs(m) /\ col \in RowOf(m, row - 1)
    <3>1. <<row - 1, col>>[1] = row - 1 /\ <<row - 1, col>>[2] = col
      OBVIOUS
    <3> QED
      BY <2>1, <3>1 DEF RowOf
  <2> QED
    BY <2>1
<1>10. m = {} => Rs(m) = {}
  OBVIOUS
<1>11. OneRun(Rs(w))
  <2> SUFFICES ASSUME NEW a \in Rs(w), NEW b \in Rs(w), NEW s \in a .. b PROVE s \in Rs(w)
    BY DEF OneRun
  <2> HIDE DEF Rs, w
  <2>1. a \in Nat /\ b \in Nat /\ s \in Nat
    BY <1>4
  <2>2. CASE s = row
    BY <1>4, <2>2
  <2>3. CASE s # row /\ b \in Rs(m)
    <3>1. a \in Rs(m)
      BY <1>4, <1>8, <2>1, <2>3
    <3> QED
      BY <1>4, <1>7, <2>3, <3>1 DEF OneRun
  <2>4. CASE s # row /\ b = row
    <3>1. a \in Rs(m) /\ s <= row - 1
      BY <1>4, <2>1, <2>4
    <3>2. row - 1 \in Rs(m)
      BY <1>9, <1>10, <3>1
    <3>3. s \in a .. row - 1
      BY <2>1, <3>1
    <3> QED
      BY <1>4, <1>7, <3>1, <3>2, <3>3 DEF OneRun
  <2> QED
    BY <1>4, <2>2, <2>3, <2>4
<1>12. ASSUME NEW s \in Rs(w) PROVE OneRun(RowOf(w, s))
  <2>1. CASE s = row
    <3>1. OneRun(run[1] .. run[2])
      BY DEF OneRun
    <3> QED
      BY <1>5, <2>1, <3>1
  <2>2. CASE s \in Rs(m)
    BY <1>6, <1>7, <2>2
  <2> HIDE DEF Rs
  <2> QED
    BY <1>4, <2>1, <2>2
<1>13. ASSUME NEW s \in Rs(w), s + 1 \in Rs(w) PROVE RowOf(w, s) \cap RowOf(w, s + 1) # {}
  <2> HIDE DEF Rs, w
  <2>1. s \in Nat
    BY <1>4
  <2>2. s # row
    BY <1>4, <1>8, <1>13, <2>1
  <2>3. s \in Rs(m)
    BY <1>4, <2>2
  <2>4. CASE s + 1 = row
    <3>1. s = row - 1 /\ m # {}
      BY <1>10, <2>1, <2>3, <2>4
    <3> QED
      BY <1>5, <1>6, <1>9, <2>3, <2>4, <3>1
  <2>5. CASE s + 1 \in Rs(m)
    BY <1>6, <1>7, <2>3, <2>5
  <2> QED
    BY <1>4, <1>13, <2>4, <2>5
<1> QED
  BY <1>11, <1>12, <1>13 DEF Sweepable

\* Runs overlap when they have a column in common.
LEMMA OverlapIs ==
    ASSUME NEW a \in Nat \X Nat, NEW b \in Nat \X Nat, a[1] <= a[2], b[1] <= b[2]
    PROVE  Overlap(a, b) <=> \E col \in Nat : col \in a[1] .. a[2] /\ col \in b[1] .. b[2]
<1>1. ASSUME Overlap(a, b)
      PROVE  \E col \in Nat : col \in a[1] .. a[2] /\ col \in b[1] .. b[2]
  <2>1. CASE a[1] <= b[1]
    <3>1. b[1] \in Nat /\ b[1] \in a[1] .. a[2] /\ b[1] \in b[1] .. b[2]
      BY <1>1, <2>1 DEF Overlap
    <3> QED
      BY <3>1
  <2>2. CASE b[1] <= a[1]
    <3>1. a[1] \in Nat /\ a[1] \in a[1] .. a[2] /\ a[1] \in b[1] .. b[2]
      BY <1>1, <2>2 DEF Overlap
    <3> QED
      BY <3>1
  <2> QED
    BY <2>1, <2>2
<1>2. ASSUME NEW col \in Nat, col \in a[1] .. a[2], col \in b[1] .. b[2]
      PROVE  Overlap(a, b)
  BY <1>2 DEF Overlap
<1> QED
  BY <1>1, <1>2

\* The numbers that the fresh runs get: one after the other, each of them.
LEMMA FreshNumbers ==
    ASSUME NEW T, T \subseteq Nat, IsFiniteSet(T)
    PROVE  /\ Cardinality(T) \in Nat
           /\ \A i \in T : Cardinality({s \in T : s <= i}) \in 1 .. Cardinality(T)
           /\ \A i, j \in T : Cardinality({s \in T : s <= i}) = Cardinality({s \in T : s <= j})
                                 => i = j
           /\ \A k \in 1 .. Cardinality(T) : \E i \in T : Cardinality({s \in T : s <= i}) = k
<1> DEFINE UpTo(i) == {s \in T : s <= i}
<1>1. Cardinality(T) \in Nat
  BY FS_CardinalityType
<1>2. ASSUME NEW i \in T
      PROVE  /\ Cardinality(UpTo(i)) = Cardinality(BelowIn(T, i)) + 1
             /\ Cardinality(UpTo(i)) \in 1 .. Cardinality(T)
             /\ Cardinality(BelowIn(T, i)) \in Nat
  <2>1. IsFiniteSet(BelowIn(T, i)) /\ i \notin BelowIn(T, i)
    BY FS_Subset DEF BelowIn
  <2>2. UpTo(i) = BelowIn(T, i) \cup {i}
    <3>1. \A s \in T : s <= i <=> s < i \/ s = i
      <4>1. \A s \in T : s \in Nat /\ i \in Nat
        OBVIOUS
      <4> QED
        BY <4>1
    <3> QED
      BY <3>1 DEF BelowIn
  <2>3. Cardinality(UpTo(i)) = Cardinality(BelowIn(T, i)) + 1 /\ IsFiniteSet(UpTo(i))
    <3> HIDE DEF UpTo
    <3> QED
      BY <2>1, <2>2, FS_AddElement
  <2>4. Cardinality(BelowIn(T, i)) \in Nat
    BY <2>1, FS_CardinalityType
  <2>5. UpTo(i) \subseteq T
    OBVIOUS
  <2>6. Cardinality(UpTo(i)) <= Cardinality(T)
    <3> HIDE DEF UpTo
    <3> QED
      BY <2>5, FS_Subset
  <2> HIDE DEF UpTo
  <2> QED
    BY <1>1, <2>3, <2>4, <2>6
<1>3. ASSUME NEW i \in T, NEW j \in T, Cardinality(UpTo(i)) = Cardinality(UpTo(j)) PROVE i = j
  <2> HIDE DEF UpTo
  <2>1. Cardinality(BelowIn(T, i)) = Cardinality(BelowIn(T, j))
    BY <1>2, <1>3
  <2> QED
    BY <2>1, RankIsOnce
<1>4. ASSUME NEW k \in 1 .. Cardinality(T) PROVE \E i \in T : Cardinality(UpTo(i)) = k
  <2> HIDE DEF UpTo
  <2>1. PICK i \in T : Cardinality(BelowIn(T, i)) = k - 1
    BY RankExists
  <2>2. Cardinality(UpTo(i)) = k
    BY <1>1, <1>2, <2>1
  <2> QED
    BY <2>2
<1> QED
  BY <1>1, <1>2, <1>3, <1>4

\* The cells and the runs of the last row, as the sweep keeps them.
CellRecs == [mask : SUBSET Cells, neighbors : SUBSET Nat]
RunRecs == [run : Nat \X Nat, label : Nat]

\* Once the rows before row are swept: the cells share out these rows, each of them can be
\* swept, they are neighbours where one lies over the other, and the runs of the last
\* row are those that the cells have in it.
SweepInv(mask, row, acc) ==
    /\ acc.cells \in Seq(CellRecs) /\ acc.prev \in Seq(RunRecs)
    /\ \A j \in DOMAIN acc.prev :
          /\ acc.prev[j].label \in DOMAIN acc.cells
          /\ acc.prev[j].run[1] <= acc.prev[j].run[2]
          /\ StripOf(row - 1, acc.prev[j].run) \subseteq acc.cells[acc.prev[j].label].mask
          /\ \A c \in acc.cells[acc.prev[j].label].mask :
                c[1] = row - 1 => c \in StripOf(row - 1, acc.prev[j].run)
          /\ \A k \in DOMAIN acc.prev : acc.prev[j].label = acc.prev[k].label => j = k
    /\ \A l \in DOMAIN acc.cells :
          /\ acc.cells[l].mask # {} /\ Sweepable(acc.cells[l].mask)
          /\ acc.cells[l].neighbors \subseteq DOMAIN acc.cells
          /\ \A c \in acc.cells[l].mask :
                c[1] = row - 1 => \E j \in DOMAIN acc.prev : acc.prev[j].label = l
          /\ \A k \in DOMAIN acc.cells \ {l} :
                /\ acc.cells[l].mask \cap acc.cells[k].mask = {}
                /\ k \in acc.cells[l].neighbors <=>
                      Over(acc.cells[l].mask, acc.cells[k].mask)
                         \/ Over(acc.cells[k].mask, acc.cells[l].mask)
    /\ \A c \in Cells : c \in mask /\ c[1] < row <=>
                           \E l \in DOMAIN acc.cells : c \in acc.cells[l].mask

\* What one more row adds: every run has a label of its own, that of the only cell it
\* continues or a new one, and the runs are added to the cells of their labels.
RowAdded(runs, acc, row, label, new) ==
    LET old == Len(acc.cells)
    IN  /\ Len(new.cells) \in Nat /\ old <= Len(new.cells)
        /\ DOMAIN new.cells = 1 .. Len(new.cells)
        /\ new.cells = [l \in 1 .. Len(new.cells) |-> new.cells[l]]
        /\ label \in [DOMAIN runs -> 1 .. Len(new.cells)]
        /\ new.prev = [i \in DOMAIN runs |-> [run |-> runs[i], label |-> label[i]]]
        /\ \A i, n \in DOMAIN runs : label[i] = label[n] => i = n
        /\ \A i \in DOMAIN runs : label[i] <= old =>
              \E j \in DOMAIN acc.prev :
                  Continues(runs, acc.prev, i, j) /\ label[i] = acc.prev[j].label
        /\ \A l \in old + 1 .. Len(new.cells) : \E i \in DOMAIN runs : label[i] = l
        /\ \A l \in 1 .. Len(new.cells) :
              /\ DOMAIN new.cells[l] = {"mask", "neighbors"}
              /\ new.cells[l] = [mask |-> new.cells[l].mask, neighbors |-> new.cells[l].neighbors]
              /\ \A c : c \in new.cells[l].mask <=>
                    \/ l <= old /\ c \in acc.cells[l].mask
                    \/ \E i \in DOMAIN runs : label[i] = l /\ c \in StripOf(row, runs[i])
              /\ \A k : k \in new.cells[l].neighbors <=>
                    \/ l <= old /\ k \in acc.cells[l].neighbors
                    \/ \E i \in DOMAIN runs, j \in DOMAIN acc.prev :
                          /\ label[i] > old /\ Overlap(runs[i], acc.prev[j].run)
                          /\ \/ label[i] = l /\ acc.prev[j].label = k
                             \/ label[i] = k /\ acc.prev[j].label = l

\* Sweeping a row adds that much (SweepRow).
LEMMA SweepRowAdds ==
    ASSUME NEW runs \in Seq(Nat \X Nat), NEW row \in Nat, NEW acc,
           acc.cells \in Seq(CellRecs), acc.prev \in Seq(RunRecs),
           \A j \in DOMAIN acc.prev : acc.prev[j].label \in DOMAIN acc.cells,
           \A j, k \in DOMAIN acc.prev : acc.prev[j].label = acc.prev[k].label => j = k
    PROVE  \E label : RowAdded(runs, acc, row, label, SweepRow(runs, acc, row))
<1> DEFINE old      == Len(acc.cells)
           Kept(i)  == {j \in DOMAIN acc.prev : Continues(runs, acc.prev, i, j)}
           fresh    == {i \in DOMAIN runs : Kept(i) = {}}
           Num(i)   == Cardinality({n \in fresh : n <= i})
           label    == [i \in DOMAIN runs |->
                           IF i \in fresh THEN old + Num(i)
                           ELSE acc.prev[CHOOSE j \in Kept(i) : TRUE].label]
           Above(i) == {acc.prev[j].label : j \in {n \in DOMAIN acc.prev :
                                                       Overlap(runs[i], acc.prev[n].run)}}
           Strip(l) == UNION {{<<row, col>> : col \in runs[i][1] .. runs[i][2]} :
                                 i \in {n \in DOMAIN runs : label[n] = l}}
           Before(l) == IF l <= old THEN acc.cells[l] ELSE [mask |-> {}, neighbors |-> {}]
           Met(l)   == (UNION {Above(i) : i \in {n \in fresh : label[n] = l}})
                         \cup {label[i] : i \in {n \in fresh : l \in Above(n)}}
           N        == old + Cardinality(fresh)
           cells    == [l \in 1 .. N |-> [mask      |-> Before(l).mask \cup Strip(l),
                                          neighbors |-> Before(l).neighbors \cup Met(l)]]
           prev     == [i \in DOMAIN runs |-> [run |-> runs[i], label |-> label[i]]]
           new      == SweepRow(runs, acc, row)
<1>1. new = [cells |-> cells, prev |-> prev]
  BY DEF SweepRow
<1>2. old \in Nat /\ DOMAIN acc.cells = 1 .. old
  OBVIOUS
<1>3. fresh \subseteq Nat /\ IsFiniteSet(fresh)
  <2>1. DOMAIN runs = 1 .. Len(runs) /\ Len(runs) \in Nat
    OBVIOUS
  <2>2. IsFiniteSet(DOMAIN runs) /\ fresh \subseteq DOMAIN runs /\ DOMAIN runs \subseteq Nat
    <3>1. IsFiniteSet(1 .. Len(runs))
      BY <2>1, FS_Interval
    <3> QED
      BY <2>1, <3>1
  <2> HIDE DEF fresh
  <2> QED
    BY <2>2, FS_Subset
<1> HIDE DEF Kept
<1>4. /\ Cardinality(fresh) \in Nat
      /\ \A i \in fresh : Num(i) \in 1 .. Cardinality(fresh)
      /\ \A i, j \in fresh : Num(i) = Num(j) => i = j
      /\ \A k \in 1 .. Cardinality(fresh) : \E i \in fresh : Num(i) = k
  <2> HIDE DEF fresh
  <2> QED
    BY <1>3, FreshNumbers
<1> DEFINE Of(i) == CHOOSE j \in Kept(i) : TRUE
<1>5. ASSUME NEW i \in DOMAIN runs, i \notin fresh
      PROVE  /\ Of(i) \in DOMAIN acc.prev /\ Continues(runs, acc.prev, i, Of(i))
             /\ label[i] = acc.prev[Of(i)].label /\ label[i] \in 1 .. old
  <2>1. Of(i) \in Kept(i)
    BY <1>5
  <2>2. Of(i) \in DOMAIN acc.prev /\ Continues(runs, acc.prev, i, Of(i))
    BY <2>1 DEF Kept
  <2>3. label[i] = acc.prev[Of(i)].label
    BY <1>5
  <2> HIDE DEF Of, label, fresh
  <2> QED
    BY <1>2, <2>2, <2>3
<1>6. ASSUME NEW i \in fresh PROVE i \in DOMAIN runs /\ label[i] = old + Num(i) /\ label[i] \in old + 1 .. N
  <2>1. i \in DOMAIN runs /\ label[i] = old + Num(i)
    OBVIOUS
  <2> HIDE DEF label, Num, fresh, old
  <2> QED
    BY <1>2, <1>4, <2>1
<1> HIDE DEF Of
<1>7. \A i \in DOMAIN runs : i \in fresh <=> label[i] > old
  <2> HIDE DEF label, fresh, old, Num, N
  <2>1. \A i \in fresh : label[i] > old
    BY <1>2, <1>6
  <2>2. \A i \in DOMAIN runs : i \notin fresh => ~(label[i] > old)
    BY <1>2, <1>5
  <2> QED
    BY <2>1, <2>2
<1>8. label \in [DOMAIN runs -> 1 .. N]
  <2>1. ASSUME NEW i \in DOMAIN runs PROVE label[i] \in 1 .. N
    <3> HIDE DEF label, fresh, old, Num
    <3>1. N \in Nat /\ old <= N
      BY <1>2, <1>4
    <3> HIDE DEF N
    <3>2. CASE i \in fresh
      BY <1>2, <1>6, <3>1, <3>2
    <3>3. CASE i \notin fresh
      BY <1>2, <1>5, <3>1, <3>3
    <3> QED
      BY <3>2, <3>3
  <2>2. label = [i \in DOMAIN runs |-> label[i]]
    OBVIOUS
  <2> HIDE DEF label, N
  <2> QED
    BY <2>1, <2>2
<1>9. ASSUME NEW i \in DOMAIN runs, NEW n \in DOMAIN runs, label[i] = label[n] PROVE i = n
  <2> HIDE DEF label, fresh, old, Num
  <2>1. CASE i \in fresh
    <3>1. n \in fresh
      BY <1>7, <1>9, <2>1
    <3>2. Num(i) = Num(n)
      BY <1>2, <1>4, <1>6, <1>9, <2>1, <3>1
    <3> QED
      BY <1>4, <2>1, <3>1, <3>2
  <2>2. CASE i \notin fresh
    <3>1. n \notin fresh
      BY <1>7, <1>9, <2>2
    <3>2. Of(i) = Of(n)
      BY <1>5, <1>9, <2>2, <3>1
    <3>3. {m \in DOMAIN runs : Overlap(runs[m], acc.prev[Of(i)].run)} = {i}
      BY <1>5, <2>2 DEF Continues
    <3>4. {m \in DOMAIN runs : Overlap(runs[m], acc.prev[Of(n)].run)} = {n}
      BY <1>5, <3>1 DEF Continues
    <3> QED
      BY <3>2, <3>3, <3>4
  <2> QED
    BY <2>1, <2>2
<1>10. ASSUME NEW i \in DOMAIN runs, label[i] <= old
       PROVE  \E j \in DOMAIN acc.prev :
                  Continues(runs, acc.prev, i, j) /\ label[i] = acc.prev[j].label
  <2> HIDE DEF label, fresh, old, N, Num
  <2>1. i \notin fresh
    BY <1>2, <1>7, <1>8, <1>10
  <2> QED
    BY <1>5, <2>1
<1>11. ASSUME NEW l \in old + 1 .. N PROVE \E i \in DOMAIN runs : label[i] = l
  <2> HIDE DEF label, fresh, old, Num
  <2>1. l - old \in 1 .. Cardinality(fresh)
    BY <1>2, <1>4
  <2>2. PICK i \in fresh : Num(i) = l - old
    BY <1>4, <2>1
  <2>3. label[i] = l
    BY <1>2, <1>6, <2>2
  <2> QED
    BY <1>6, <2>3
<1>12. ASSUME NEW l \in 1 .. N, NEW c
       PROVE  c \in cells[l].mask <=>
                  \/ l <= old /\ c \in acc.cells[l].mask
                  \/ \E i \in DOMAIN runs : label[i] = l /\ c \in StripOf(row, runs[i])
  <2>1. cells[l].mask = Before(l).mask \cup Strip(l)
    OBVIOUS
  <2>2. c \in Strip(l) <=> \E i \in DOMAIN runs : label[i] = l /\ c \in StripOf(row, runs[i])
    <3> HIDE DEF label
    <3> QED
      BY DEF StripOf
  <2>3. c \in Before(l).mask <=> l <= old /\ c \in acc.cells[l].mask
    OBVIOUS
  <2> HIDE DEF cells, Before, Strip, label
  <2> QED
    BY <2>1, <2>2, <2>3
<1>13. ASSUME NEW l \in 1 .. N, NEW k
       PROVE  k \in cells[l].neighbors <=>
                  \/ l <= old /\ k \in acc.cells[l].neighbors
                  \/ \E i \in DOMAIN runs, j \in DOMAIN acc.prev :
                        /\ label[i] > old /\ Overlap(runs[i], acc.prev[j].run)
                        /\ \/ label[i] = l /\ acc.prev[j].label = k
                           \/ label[i] = k /\ acc.prev[j].label = l
  <2>1. cells[l].neighbors = Before(l).neighbors \cup Met(l)
    OBVIOUS
  <2>2. \A i, m : m \in Above(i) <=>
            \E j \in DOMAIN acc.prev : Overlap(runs[i], acc.prev[j].run) /\ acc.prev[j].label = m
    OBVIOUS
  <2>3. k \in Met(l) <=> \/ \E i \in fresh : label[i] = l /\ k \in Above(i)
                         \/ \E i \in fresh : label[i] = k /\ l \in Above(i)
    <3> HIDE DEF Above, label, fresh
    <3> QED
      OBVIOUS
  <2>4. k \in Before(l).neighbors <=> l <= old /\ k \in acc.cells[l].neighbors
    OBVIOUS
  <2>5. \A i : i \in fresh <=> i \in DOMAIN runs /\ label[i] > old
    <3>1. \A i : i \in fresh => i \in DOMAIN runs
      OBVIOUS
    <3> HIDE DEF fresh, label, old
    <3> QED
      BY <1>7, <3>1
  <2>6. k \in Met(l) <=>
            \E i \in DOMAIN runs, j \in DOMAIN acc.prev :
                        /\ label[i] > old /\ Overlap(runs[i], acc.prev[j].run)
                        /\ \/ label[i] = l /\ acc.prev[j].label = k
                           \/ label[i] = k /\ acc.prev[j].label = l
    <3> HIDE DEF Above, label, fresh, old, Met
    <3>1. ASSUME NEW i \in fresh, NEW m, NEW n, label[i] = m, n \in Above(i)
          PROVE  /\ i \in DOMAIN runs /\ label[i] > old
                 /\ \E j \in DOMAIN acc.prev :
                        Overlap(runs[i], acc.prev[j].run) /\ acc.prev[j].label = n
      BY <2>2, <2>5, <3>1
    <3>2. ASSUME NEW i \in DOMAIN runs, NEW j \in DOMAIN acc.prev,
                 label[i] > old, Overlap(runs[i], acc.prev[j].run)
          PROVE  i \in fresh /\ acc.prev[j].label \in Above(i)
      BY <2>2, <2>5, <3>2
    <3>3. ASSUME NEW i \in fresh, label[i] = l, k \in Above(i)
          PROVE  \E j \in DOMAIN acc.prev :
                     /\ i \in DOMAIN runs /\ label[i] > old /\ Overlap(runs[i], acc.prev[j].run)
                     /\ acc.prev[j].label = k
      BY <3>1, <3>3
    <3>4. ASSUME NEW i \in fresh, label[i] = k, l \in Above(i)
          PROVE  \E j \in DOMAIN acc.prev :
                     /\ i \in DOMAIN runs /\ label[i] > old /\ Overlap(runs[i], acc.prev[j].run)
                     /\ acc.prev[j].label = l
      BY <3>1, <3>4
    <3>5. ASSUME k \in Met(l)
          PROVE  \E i \in DOMAIN runs, j \in DOMAIN acc.prev :
                     /\ label[i] > old /\ Overlap(runs[i], acc.prev[j].run)
                     /\ \/ label[i] = l /\ acc.prev[j].label = k
                        \/ label[i] = k /\ acc.prev[j].label = l
      <4>1. CASE \E i \in fresh : label[i] = l /\ k \in Above(i)
        BY <3>3, <4>1
      <4>2. CASE \E i \in fresh : label[i] = k /\ l \in Above(i)
        BY <3>4, <4>2
      <4> QED
        BY <2>3, <3>5, <4>1, <4>2
    <3>6. ASSUME NEW i \in DOMAIN runs, NEW j \in DOMAIN acc.prev,
                 label[i] > old, Overlap(runs[i], acc.prev[j].run),
                 \/ label[i] = l /\ acc.prev[j].label = k
                 \/ label[i] = k /\ acc.prev[j].label = l
          PROVE  k \in Met(l)
      <4>1. i \in fresh /\ acc.prev[j].label \in Above(i)
        BY <3>2, <3>6
      <4>2. CASE label[i] = l /\ acc.prev[j].label = k
        BY <2>3, <4>1, <4>2
      <4>3. CASE label[i] = k /\ acc.prev[j].label = l
        BY <2>3, <4>1, <4>3
      <4> QED
        BY <3>6, <4>2, <4>3
    <3> QED
      BY <3>5, <3>6
  <2> HIDE DEF cells, Before, Met, label, old
  <2> QED
    BY <2>1, <2>4, <2>6
<1>14. new.cells = cells /\ new.prev = prev
  <2> HIDE DEF new, cells, prev
  <2> QED
    BY <1>1
<1>15. N \in Nat /\ old <= N
  <2> HIDE DEF fresh, old
  <2> QED
    BY <1>2, <1>4
<1>16. Len(cells) = N /\ DOMAIN cells = 1 .. N /\ cells = [l \in 1 .. N |-> cells[l]]
  <2>0. cells = [l \in 1 .. N |-> cells[l]]
    OBVIOUS
  <2>1. DOMAIN cells = 1 .. N
    OBVIOUS
  <2> DEFINE C(l) == [mask |-> Before(l).mask \cup Strip(l),
                      neighbors |-> Before(l).neighbors \cup Met(l)]
  <2>2. cells = [l \in 1 .. N |-> C(l)]
    OBVIOUS
  <2> HIDE DEF C, N
  <2>3. Len([l \in 1 .. N |-> C(l)]) = N
    BY <1>15
  <2> HIDE DEF cells
  <2> QED
    BY <2>0, <2>1, <2>2, <2>3
<1>17. ASSUME NEW l \in 1 .. N
       PROVE  /\ DOMAIN cells[l] = {"mask", "neighbors"}
              /\ cells[l] = [mask |-> cells[l].mask, neighbors |-> cells[l].neighbors]
  <2> DEFINE a == Before(l).mask \cup Strip(l)
             b == Before(l).neighbors \cup Met(l)
  <2>1. cells[l] = [mask |-> a, neighbors |-> b]
    OBVIOUS
  <2> HIDE DEF a, b, cells
  <2> QED
    BY <2>1
<1> HIDE DEF label, cells, new, N, old, prev
<1>18. prev = [i \in DOMAIN runs |-> [run |-> runs[i], label |-> label[i]]]
  BY DEF prev
<1>19. /\ Len(new.cells) = N /\ Len(acc.cells) = old /\ DOMAIN new.cells = 1 .. N
       /\ \A l : new.cells[l] = cells[l]
       /\ new.cells = [l \in 1 .. N |-> new.cells[l]]
  BY <1>14, <1>16 DEF old
<1>20. RowAdded(runs, acc, row, label, new)
  <2>1. new.prev = [i \in DOMAIN runs |-> [run |-> runs[i], label |-> label[i]]]
    BY <1>14, <1>18
  <2>2. \A i \in DOMAIN runs : label[i] <= old =>
            \E j \in DOMAIN acc.prev :
                Continues(runs, acc.prev, i, j) /\ label[i] = acc.prev[j].label
    BY <1>10
  <2>3. \A i, n \in DOMAIN runs : label[i] = label[n] => i = n
    BY <1>9
  <2>4. \A l \in old + 1 .. N : \E i \in DOMAIN runs : label[i] = l
    BY <1>11
  <2>5. ASSUME NEW l \in 1 .. N
        PROVE  /\ DOMAIN new.cells[l] = {"mask", "neighbors"}
               /\ new.cells[l] = [mask |-> new.cells[l].mask, neighbors |-> new.cells[l].neighbors]
               /\ \A c : c \in new.cells[l].mask <=>
                     \/ l <= old /\ c \in acc.cells[l].mask
                     \/ \E i \in DOMAIN runs : label[i] = l /\ c \in StripOf(row, runs[i])
               /\ \A k : k \in new.cells[l].neighbors <=>
                     \/ l <= old /\ k \in acc.cells[l].neighbors
                     \/ \E i \in DOMAIN runs, j \in DOMAIN acc.prev :
                           /\ label[i] > old /\ Overlap(runs[i], acc.prev[j].run)
                           /\ \/ label[i] = l /\ acc.prev[j].label = k
                              \/ label[i] = k /\ acc.prev[j].label = l
    <3>1. new.cells[l] = cells[l]
      BY <1>19
    <3>2. /\ DOMAIN cells[l] = {"mask", "neighbors"}
          /\ cells[l] = [mask |-> cells[l].mask, neighbors |-> cells[l].neighbors]
      BY <1>17
    <3>3. \A c : c \in cells[l].mask <=>
              \/ l <= old /\ c \in acc.cells[l].mask
              \/ \E i \in DOMAIN runs : label[i] = l /\ c \in StripOf(row, runs[i])
      BY <1>12
    <3>4. \A k : k \in cells[l].neighbors <=>
              \/ l <= old /\ k \in acc.cells[l].neighbors
              \/ \E i \in DOMAIN runs, j \in DOMAIN acc.prev :
                    /\ label[i] > old /\ Overlap(runs[i], acc.prev[j].run)
                    /\ \/ label[i] = l /\ acc.prev[j].label = k
                       \/ label[i] = k /\ acc.prev[j].label = l
      BY <1>13
    <3> QED
      BY <3>1, <3>2, <3>3, <3>4, Zenon
  <2> DEFINE All(n, o) ==
               /\ n \in Nat /\ o <= n /\ DOMAIN new.cells = 1 .. n
               /\ new.cells = [l \in 1 .. n |-> new.cells[l]]
               /\ label \in [DOMAIN runs -> 1 .. n]
               /\ new.prev = [i \in DOMAIN runs |-> [run |-> runs[i], label |-> label[i]]]
               /\ \A i, m \in DOMAIN runs : label[i] = label[m] => i = m
               /\ \A i \in DOMAIN runs : label[i] <= o =>
                     \E j \in DOMAIN acc.prev :
                         Continues(runs, acc.prev, i, j) /\ label[i] = acc.prev[j].label
               /\ \A l \in o + 1 .. n : \E i \in DOMAIN runs : label[i] = l
               /\ \A l \in 1 .. n :
                    /\ DOMAIN new.cells[l] = {"mask", "neighbors"}
                    /\ new.cells[l] = [mask |-> new.cells[l].mask, neighbors |-> new.cells[l].neighbors]
                    /\ \A c : c \in new.cells[l].mask <=>
                          \/ l <= o /\ c \in acc.cells[l].mask
                          \/ \E i \in DOMAIN runs : label[i] = l /\ c \in StripOf(row, runs[i])
                    /\ \A k : k \in new.cells[l].neighbors <=>
                          \/ l <= o /\ k \in acc.cells[l].neighbors
                          \/ \E i \in DOMAIN runs, j \in DOMAIN acc.prev :
                                /\ label[i] > o /\ Overlap(runs[i], acc.prev[j].run)
                                /\ \/ label[i] = l /\ acc.prev[j].label = k
                                   \/ label[i] = k /\ acc.prev[j].label = l
  <2>6. All(N, old)
    BY <1>8, <1>15, <1>19, <2>1, <2>2, <2>3, <2>4, <2>5
  <2>7. All(Len(new.cells), Len(acc.cells))
    <3> HIDE DEF All
    <3> QED
      BY <1>19, <2>6
  <2> QED
    BY <2>7, Zenon DEF RowAdded
<1> QED
  BY <1>20 DEF new

\* The sweep of a row keeps the invariant.
LEMMA SweepRowHolds ==
    ASSUME NEW mask, mask \subseteq Cells, NEW row \in Nat, NEW acc, SweepInv(mask, row, acc)
    PROVE  SweepInv(mask, row + 1, SweepRow(rowRuns(mask, row), acc, row))
<1> DEFINE runs   == rowRuns(mask, row)
           new    == SweepRow(runs, acc, row)
           old    == Len(acc.cells)
           N      == Len(new.cells)
           O(l)   == acc.cells[l].mask
           M(l)   == new.cells[l].mask
           P(j)   == acc.prev[j].run
           L(j)   == acc.prev[j].label
           Cols1(r) == r[1] .. r[2]
<1>1. /\ runs \in Seq(Nat \X Nat)
      /\ \A i \in DOMAIN runs : runs[i][1] <= runs[i][2] /\ StripOf(row, runs[i]) \subseteq mask
      /\ \A i, k \in DOMAIN runs : \A col \in Nat : col \in Cols1(runs[i]) /\ col \in Cols1(runs[k]) => i = k
      /\ \A col \in Nat : <<row, col>> \in mask => \E i \in DOMAIN runs : col \in Cols1(runs[i])
  BY RowRunsAre
<1> HIDE DEF runs
<1>2. /\ acc.cells \in Seq(CellRecs) /\ acc.prev \in Seq(RunRecs)
      /\ old \in Nat /\ DOMAIN acc.cells = 1 .. old
      /\ \A j \in DOMAIN acc.prev :
            /\ L(j) \in 1 .. old /\ P(j) \in Nat \X Nat /\ P(j)[1] <= P(j)[2]
            /\ StripOf(row - 1, P(j)) \subseteq O(L(j))
            /\ \A c \in O(L(j)) : c[1] = row - 1 => c \in StripOf(row - 1, P(j))
            /\ \A k \in DOMAIN acc.prev : L(j) = L(k) => j = k
  <2>1. acc.cells \in Seq(CellRecs) /\ acc.prev \in Seq(RunRecs)
    BY DEF SweepInv
  <2>2. old \in Nat /\ DOMAIN acc.cells = 1 .. old
    BY <2>1
  <2>3. ASSUME NEW j \in DOMAIN acc.prev PROVE P(j) \in Nat \X Nat
    <3>1. acc.prev[j] \in RunRecs
      BY <2>1
    <3> QED
      BY <3>1 DEF RunRecs
  <2> QED
    BY <2>1, <2>2, <2>3 DEF SweepInv
<1>3. PICK label : RowAdded(runs, acc, row, label, new)
  <2>1. \A j \in DOMAIN acc.prev : L(j) \in DOMAIN acc.cells
    BY <1>2
  <2>2. \A j, k \in DOMAIN acc.prev : L(j) = L(k) => j = k
    BY <1>2
  <2> QED
    BY <1>1, <1>2, <2>1, <2>2, SweepRowAdds
<1> HIDE DEF new
<1>4. /\ N \in Nat /\ old <= N /\ DOMAIN new.cells = 1 .. N
      /\ new.cells = [l \in 1 .. N |-> new.cells[l]]
      /\ label \in [DOMAIN runs -> 1 .. N]
      /\ new.prev = [i \in DOMAIN runs |-> [run |-> runs[i], label |-> label[i]]]
      /\ \A i, n \in DOMAIN runs : label[i] = label[n] => i = n
  BY <1>3 DEF RowAdded
<1>5. ASSUME NEW i \in DOMAIN runs, label[i] <= old
      PROVE  \E j \in DOMAIN acc.prev : Continues(runs, acc.prev, i, j) /\ label[i] = L(j)
  BY <1>3, <1>5 DEF RowAdded
<1>6. \A l \in old + 1 .. N : \E i \in DOMAIN runs : label[i] = l
  BY <1>3 DEF RowAdded
<1>7. ASSUME NEW l \in 1 .. N, NEW c
      PROVE  c \in M(l) <=> \/ l <= old /\ c \in O(l)
                            \/ \E i \in DOMAIN runs : label[i] = l /\ c \in StripOf(row, runs[i])
  BY <1>3, Zenon DEF RowAdded
<1>7a. ASSUME NEW l \in 1 .. N
       PROVE  new.cells[l] = [mask |-> M(l), neighbors |-> new.cells[l].neighbors]
  BY <1>3, Zenon DEF RowAdded
<1>7b. ASSUME NEW l \in 1 .. N, NEW k
       PROVE  k \in new.cells[l].neighbors <=>
                   \/ l <= old /\ k \in acc.cells[l].neighbors
                   \/ \E i \in DOMAIN runs, j \in DOMAIN acc.prev :
                         /\ label[i] > old /\ Overlap(runs[i], P(j))
                         /\ \/ label[i] = l /\ L(j) = k
                            \/ label[i] = k /\ L(j) = l
  BY <1>3, Zenon DEF RowAdded
<1>8. ASSUME NEW l \in 1 .. old
      PROVE  /\ O(l) \subseteq Cells /\ acc.cells[l].neighbors \subseteq Nat /\ l \in 1 .. N
             /\ \A c \in O(l) : c \in mask /\ c[1] < row
             /\ O(l) # {} /\ Sweepable(O(l)) /\ acc.cells[l].neighbors \subseteq 1 .. old
             /\ \A c \in O(l) : c[1] = row - 1 => \E j \in DOMAIN acc.prev : L(j) = l
             /\ \A k \in (1 .. old) \ {l} :
                   /\ O(l) \cap O(k) = {}
                   /\ k \in acc.cells[l].neighbors <=> Over(O(l), O(k)) \/ Over(O(k), O(l))
  <2>1. acc.cells[l] \in CellRecs /\ l \in DOMAIN acc.cells
    BY <1>2
  <2>2. O(l) \subseteq Cells /\ acc.cells[l].neighbors \subseteq Nat
    BY <2>1 DEF CellRecs
  <2>3. l \in 1 .. N
    BY <1>2, <1>4
  <2>4. \A c \in O(l) : c \in mask /\ c[1] < row
    BY <2>1, <2>2 DEF SweepInv
  <2> QED
    BY <1>2, <2>1, <2>2, <2>3, <2>4 DEF SweepInv
<1>9. ASSUME NEW c \in Cells, c \in mask, c[1] < row PROVE \E l \in 1 .. old : c \in O(l)
  BY <1>2, <1>9 DEF SweepInv
<1>10. ASSUME NEW i \in DOMAIN runs
       PROVE  /\ runs[i] \in Nat \X Nat /\ runs[i][1] <= runs[i][2] /\ label[i] \in 1 .. N
              /\ \A c : c \in StripOf(row, runs[i]) =>
                    /\ c \in mask /\ c \in Cells /\ c[1] = row /\ c[2] \in Cols1(runs[i])
                    /\ c = <<row, c[2]>> /\ c[2] \in Nat
              /\ \A col \in Cols1(runs[i]) : <<row, col>> \in StripOf(row, runs[i])
              /\ \E col \in Nat : col \in Cols1(runs[i])
  <2>1. runs[i] \in Nat \X Nat /\ runs[i][1] <= runs[i][2] /\ label[i] \in 1 .. N
    BY <1>1, <1>4
  <2>2. runs[i][1] \in Nat /\ runs[i][1] \in Cols1(runs[i])
    BY <2>1
  <2>3. \A c : c \in StripOf(row, runs[i]) => c \in mask /\ c \in Cells
    BY <1>1
  <2> QED
    BY <2>1, <2>2, <2>3 DEF StripOf
<1>11. ASSUME NEW c \in Cells
       PROVE c[1] \in Nat /\ c[2] \in Nat /\ c = <<c[1], c[2]>>
  BY GridAssumption DEF Cells
<1> DEFINE S(i) == StripOf(row, runs[i])
<1> HIDE DEF old, N, M, P, L, S
<1>12. ASSUME NEW l \in 1 .. N, \A i \in DOMAIN runs : label[i] # l
       PROVE  l \in 1 .. old /\ M(l) = O(l)
  <2>1. l \in 1 .. old
    <3>1. l \notin old + 1 .. N
      BY <1>6, <1>12
    <3>2. old \in Nat /\ N \in Nat
      BY <1>2, <1>4
    <3> QED
      BY <3>1, <3>2
  <2>2. \A c : c \in M(l) <=> c \in O(l)
    BY <1>7, <1>12, <2>1
  <2> QED
    BY <2>1, <2>2
<1>13. ASSUME NEW i \in DOMAIN runs, label[i] > old
       PROVE  \A c : c \in M(label[i]) <=> c \in S(i)
  <2>1. label[i] \in 1 .. N /\ ~ (label[i] <= old)
    BY <1>2, <1>10, <1>13
  <2> QED
    BY <1>4, <1>7, <2>1 DEF S
<1>14. ASSUME NEW i \in DOMAIN runs, label[i] <= old
       PROVE  /\ label[i] \in 1 .. old
              /\ \A c : c \in M(label[i]) <=> c \in O(label[i]) \/ c \in S(i)
  <2>1. label[i] \in 1 .. N /\ label[i] \in 1 .. old
    BY <1>2, <1>10, <1>14
  <2> QED
    BY <1>4, <1>7, <1>14, <2>1 DEF S
<1>15. ASSUME NEW l \in 1 .. N, NEW c \in M(l)
       PROVE  /\ c \in mask /\ c \in Cells
              /\ \/ l \in 1 .. old /\ c \in O(l) /\ c[1] < row
                 \/ \E i \in DOMAIN runs : label[i] = l /\ c \in S(i) /\ c[1] = row
  <2>1. CASE l <= old /\ c \in O(l)
    <3>1. l \in 1 .. old
      BY <1>2, <1>4, <2>1
    <3> QED
      BY <1>8, <2>1, <3>1
  <2>2. CASE \E i \in DOMAIN runs : label[i] = l /\ c \in StripOf(row, runs[i])
    BY <1>10, <2>2 DEF S
  <2> QED
    BY <1>7, <2>1, <2>2
<1>16. new.cells \in Seq(CellRecs)
  <2>1. ASSUME NEW l \in 1 .. N PROVE new.cells[l] \in CellRecs
    <3>1. M(l) \subseteq Cells
      BY <1>15
    <3>2. ASSUME NEW k \in new.cells[l].neighbors PROVE k \in Nat
      <4>1. CASE l <= old /\ k \in acc.cells[l].neighbors
        <5>1. l \in 1 .. old
          BY <1>2, <1>4, <4>1
        <5> QED
          BY <1>8, <4>1, <5>1
      <4>2. CASE \E i \in DOMAIN runs, j \in DOMAIN acc.prev : label[i] = k \/ L(j) = k
        BY <1>2, <1>10, <4>2
      <4> QED
        BY <1>7b, <4>1, <4>2
    <3> QED
      <4> DEFINE a == M(l)
                 b == new.cells[l].neighbors
      <4>1. a \in SUBSET Cells /\ b \in SUBSET Nat
        BY <3>1, <3>2
      <4>2. new.cells[l] = [mask |-> a, neighbors |-> b]
        BY <1>7a
      <4> HIDE DEF a, b
      <4> QED
        BY <4>1, <4>2 DEF CellRecs
  <2>2. new.cells = [l \in 1 .. N |-> new.cells[l]]
    BY <1>4
  <2> QED
    BY <1>4, <2>1, <2>2
<1>17. new.prev \in Seq(RunRecs) /\ DOMAIN new.prev = DOMAIN runs
  <2>1. ASSUME NEW i \in DOMAIN runs
        PROVE  [run |-> runs[i], label |-> label[i]] \in RunRecs
    <3>1. runs[i] \in Nat \X Nat /\ label[i] \in Nat
      BY <1>10
    <3> QED
      BY <3>1 DEF RunRecs
  <2>2. DOMAIN runs = 1 .. Len(runs) /\ Len(runs) \in Nat
    BY <1>1
  <2>3. new.prev \in [1 .. Len(runs) -> RunRecs]
    BY <1>4, <2>1, <2>2
  <2> QED
    BY <2>2, <2>3
<1>18. \A i \in DOMAIN runs : new.prev[i].run = runs[i] /\ new.prev[i].label = label[i]
  BY <1>4
<1>19. ASSUME NEW i \in DOMAIN runs
       PROVE  S(i) \subseteq M(label[i]) /\ \A c \in M(label[i]) : c[1] = row => c \in S(i)
  <2>1. label[i] \in 1 .. N
    BY <1>10
  <2>2. ASSUME NEW c \in M(label[i]), c[1] = row PROVE c \in S(i)
    <3>1. ~ (c[1] < row)
      BY <2>2
    <3>2. \E n \in DOMAIN runs : label[n] = label[i] /\ c \in S(n)
      BY <1>15, <2>1, <3>1
    <3> QED
      BY <1>4, <3>2
  <2>3. ASSUME NEW c \in S(i) PROVE c \in M(label[i])
    BY <1>7, <2>1 DEF S
  <2> QED
    BY <2>2, <2>3
<1>20. ASSUME NEW j \in DOMAIN new.prev
       PROVE  /\ new.prev[j].label \in DOMAIN new.cells
              /\ new.prev[j].run[1] <= new.prev[j].run[2]
              /\ StripOf((row + 1) - 1, new.prev[j].run) \subseteq new.cells[new.prev[j].label].mask
              /\ \A c \in new.cells[new.prev[j].label].mask :
                    c[1] = (row + 1) - 1 => c \in StripOf((row + 1) - 1, new.prev[j].run)
              /\ \A k \in DOMAIN new.prev : new.prev[j].label = new.prev[k].label => j = k
  <2>1. j \in DOMAIN runs /\ new.prev[j].run = runs[j] /\ new.prev[j].label = label[j]
    BY <1>17, <1>18
  <2>2. (row + 1) - 1 = row
    OBVIOUS
  <2>3. \A k \in DOMAIN new.prev : new.prev[j].label = new.prev[k].label => j = k
    BY <1>4, <1>17, <1>18, <2>1
  <2> QED
    BY <1>4, <1>10, <1>19, <2>1, <2>2, <2>3 DEF M, S
<1>21. ASSUME NEW l \in 1 .. N PROVE M(l) # {} /\ Sweepable(M(l))
  <2>1. CASE \A i \in DOMAIN runs : label[i] # l
    <3>1. l \in 1 .. old /\ M(l) = O(l)
      BY <1>12, <2>1
    <3> QED
      BY <1>8, <3>1
  <2>2. CASE \E i \in DOMAIN runs : label[i] = l
    <3>1. PICK i \in DOMAIN runs : label[i] = l
      BY <2>2
    <3>2. S(i) # {}
      BY <1>10 DEF S
    <3>3. CASE l > old
      <4>1. M(l) = {} \cup S(i)
        BY <1>13, <3>1, <3>3
      <4>2. Sweepable({})
        BY DEF Sweepable, OneRun
      <4>3. Sweepable({} \cup S(i))
        BY <1>10, <4>2, SweepableGrows DEF S
      <4> QED
        BY <3>2, <4>1, <4>3
    <3>4. CASE l <= old
      <4>1. l \in 1 .. old /\ M(l) = O(l) \cup S(i)
        BY <1>14, <3>1, <3>4
      <4>2. PICK j \in DOMAIN acc.prev : Continues(runs, acc.prev, i, j) /\ l = L(j)
        BY <1>5, <3>1, <3>4
      <4>3. Overlap(runs[i], P(j))
        BY <4>2 DEF Continues, P
      <4>4. PICK col \in Nat : col \in Cols1(runs[i]) /\ col \in Cols1(P(j))
        BY <1>2, <1>10, <4>3, OverlapIs
      <4>5. <<row - 1, col>> \in O(l)
        <5>1. <<row - 1, col>> \in StripOf(row - 1, P(j))
          BY <4>4 DEF StripOf
        <5> QED
          BY <1>2, <4>2, <5>1
      <4>6. O(l) \subseteq Nat \X Nat
        BY <1>8, <1>11, <4>1
      <4>7. Sweepable(O(l) \cup S(i))
        <5>1. Sweepable(O(l)) /\ \A c \in O(l) : c[1] < row
          BY <1>8, <4>1
        <5> DEFINE m == O(l)
        <5>2. m \subseteq Nat \X Nat /\ Sweepable(m) /\ (\A c \in m : c[1] < row)
              /\ \E k \in runs[i][1] .. runs[i][2] : <<row - 1, k>> \in m
          BY <4>4, <4>5, <4>6, <5>1
        <5> HIDE DEF m
        <5>3. Sweepable(m \cup StripOf(row, runs[i]))
          BY <1>10, <5>2, SweepableGrows
        <5> QED
          BY <5>3 DEF m, S
      <4> QED
        BY <1>8, <4>1, <4>7
    <3>5. l > old \/ l <= old
      BY <1>2
    <3> QED
      BY <3>3, <3>4, <3>5
  <2> QED
    BY <2>1, <2>2
<1>22. ASSUME NEW l \in 1 .. N, NEW c \in M(l), c[1] = (row + 1) - 1
       PROVE  \E j \in DOMAIN new.prev : new.prev[j].label = l
  <2>1. ~ (c[1] < row)
    BY <1>22
  <2>2. \E i \in DOMAIN runs : label[i] = l
    BY <1>15, <2>1
  <2> QED
    BY <1>17, <1>18, <2>2
<1>23. ASSUME NEW l \in 1 .. N, NEW k \in 1 .. N, l # k PROVE M(l) \cap M(k) = {}
  <2> SUFFICES ASSUME NEW c \in M(l), c \in M(k) PROVE FALSE
    OBVIOUS
  <2>1. c \in Cells /\ c[1] \in Nat
    BY <1>11, <1>15
  <2>2. CASE c[1] < row
    <3>1. ~ (c[1] = row)
      BY <2>1, <2>2
    <3>2. l \in 1 .. old /\ k \in 1 .. old /\ c \in O(l) /\ c \in O(k)
      BY <1>15, <3>1
    <3> QED
      BY <1>8, <1>23, <3>2
  <2>3. CASE c[1] = row
    <3>1. ~ (c[1] < row)
      BY <2>1, <2>3
    <3>2. PICK i \in DOMAIN runs : label[i] = l /\ c \in S(i)
      BY <1>15, <3>1
    <3>3. PICK n \in DOMAIN runs : label[n] = k /\ c \in S(n)
      BY <1>15, <3>1
    <3>4. i = n
      BY <1>1, <1>10, <3>2, <3>3 DEF S
    <3> QED
      BY <1>23, <3>2, <3>3, <3>4
  <2> QED
    BY <1>15, <2>2, <2>3
<1> DEFINE Lies(l, k) == \E i \in DOMAIN runs, j \in DOMAIN acc.prev :
                             L(j) = l /\ label[i] = k /\ Overlap(runs[i], P(j))
<1>24. ASSUME NEW l \in 1 .. N, NEW k \in 1 .. N
       PROVE  Over(M(l), M(k)) <=>
                  \/ l \in 1 .. old /\ k \in 1 .. old /\ Over(O(l), O(k))
                  \/ Lies(l, k)
  <2>1. ASSUME NEW c \in M(l), NEW d \in M(k), d = <<c[1] + 1, c[2]>>
        PROVE  \/ l \in 1 .. old /\ k \in 1 .. old /\ Over(O(l), O(k))
               \/ Lies(l, k)
    <3>1. /\ c \in Cells /\ c[1] \in Nat /\ c[2] \in Nat /\ c = <<c[1], c[2]>>
          /\ d[1] = c[1] + 1 /\ d[2] = c[2]
      BY <1>11, <1>15, <2>1
    <3>2. c[1] < row
      <4>1. d[1] <= row /\ d[1] = c[1] + 1
        BY <1>15, <3>1
      <4> QED
        BY <3>1, <4>1
    <3>3. l \in 1 .. old /\ c \in O(l)
      <4>1. ~ (c[1] = row)
        BY <3>1, <3>2
      <4> QED
        BY <1>15, <4>1
    <3>4. CASE d[1] < row
      <4>1. ~ (d[1] = row)
        BY <3>1, <3>4
      <4>2. k \in 1 .. old /\ d \in O(k)
        BY <1>15, <4>1
      <4>3. Over(O(l), O(k))
        BY <2>1, <3>3, <4>2 DEF Over
      <4> QED
        BY <3>3, <4>2, <4>3
    <3>5. CASE d[1] = row
      <4>1. ~ (d[1] < row) /\ c[1] = row - 1
        BY <3>1, <3>5
      <4>2. PICK i \in DOMAIN runs : label[i] = k /\ d \in S(i)
        BY <1>15, <4>1
      <4>3. PICK j \in DOMAIN acc.prev : L(j) = l
        BY <1>8, <3>3, <4>1 DEF L
      <4>4. c \in StripOf(row - 1, P(j))
        BY <1>2, <3>3, <4>1, <4>3
      <4>5. c[2] \in Cols1(P(j))
        BY <4>4 DEF StripOf
      <4>6. c[2] \in Cols1(runs[i])
        BY <1>10, <3>1, <4>2 DEF S
      <4>7. Overlap(runs[i], P(j))
        BY <1>2, <1>10, <3>1, <4>5, <4>6, OverlapIs
      <4> QED
        BY <4>2, <4>3, <4>7
    <3> QED
      BY <1>15, <3>4, <3>5
  <2>2. ASSUME l \in 1 .. old, k \in 1 .. old, Over(O(l), O(k)) PROVE Over(M(l), M(k))
    <3>1. O(l) \subseteq M(l) /\ O(k) \subseteq M(k)
      BY <1>2, <1>7, <2>2
    <3> QED
      BY <2>2, <3>1 DEF Over
  <2>3. ASSUME NEW i \in DOMAIN runs, NEW j \in DOMAIN acc.prev,
               L(j) = l, label[i] = k, Overlap(runs[i], P(j))
        PROVE  Over(M(l), M(k))
    <3>1. PICK col \in Nat : col \in Cols1(runs[i]) /\ col \in Cols1(P(j))
      BY <1>2, <1>10, <2>3, OverlapIs
    <3> DEFINE c == <<row - 1, col>>
    <3>2. c \in StripOf(row - 1, P(j))
      BY <3>1 DEF StripOf
    <3>3. l \in 1 .. old /\ c \in O(l)
      BY <1>2, <2>3, <3>2
    <3>4. c \in M(l)
      BY <1>2, <1>7, <3>3
    <3>5. <<row, col>> \in M(k)
      <4>1. <<row, col>> \in S(i)
        BY <1>10, <3>1 DEF S
      <4> QED
        BY <1>19, <2>3, <4>1
    <3>6. <<c[1] + 1, c[2]>> = <<row, col>>
      OBVIOUS
    <3> QED
      BY <3>4, <3>5, <3>6 DEF Over
  <2> HIDE DEF O
  <2>4. Over(M(l), M(k)) =>
          \/ l \in 1 .. old /\ k \in 1 .. old /\ Over(O(l), O(k))
          \/ Lies(l, k)
    BY <2>1 DEF Over
  <2> QED
    BY <2>2, <2>3, <2>4
<1>25. ASSUME NEW i \in DOMAIN runs, NEW j \in DOMAIN acc.prev,
              Overlap(runs[i], P(j)), label[i] # L(j)
       PROVE  label[i] > old
  <2>1. CASE label[i] <= old
    <3>1. PICK n \in DOMAIN acc.prev : Continues(runs, acc.prev, i, n) /\ label[i] = L(n)
      BY <1>5, <2>1
    <3>2. {m \in DOMAIN acc.prev : Overlap(runs[i], P(m))} = {n}
      BY <3>1 DEF Continues, P
    <3> QED
      BY <1>25, <3>1, <3>2
  <2> QED
    BY <1>2, <1>10, <2>1
<1>26. ASSUME NEW l \in 1 .. N
       PROVE  /\ new.cells[l].neighbors \subseteq 1 .. N
              /\ \A k \in (1 .. N) \ {l} : k \in new.cells[l].neighbors <=>
                    Over(M(l), M(k)) \/ Over(M(k), M(l))
  <2>1. ASSUME NEW k \in new.cells[l].neighbors PROVE k \in 1 .. N
    <3>1. CASE l <= old /\ k \in acc.cells[l].neighbors
      <4>1. l \in 1 .. old
        BY <1>2, <1>4, <3>1
      <4>2. k \in 1 .. old
        BY <1>8, <3>1, <4>1
      <4> QED
        BY <1>8, <4>2
    <3>2. CASE \E i \in DOMAIN runs, j \in DOMAIN acc.prev : label[i] = k \/ L(j) = k
      BY <1>2, <1>8, <1>10, <3>2
    <3> QED
      BY <1>7b, <3>1, <3>2
  <2>2. ASSUME NEW k \in (1 .. N) \ {l}
        PROVE  k \in new.cells[l].neighbors <=> Over(M(l), M(k)) \/ Over(M(k), M(l))
    <3>1. k \in new.cells[l].neighbors =>
              \/ l \in 1 .. old /\ k \in 1 .. old /\ (Over(O(l), O(k)) \/ Over(O(k), O(l)))
              \/ Lies(l, k) \/ Lies(k, l)
      <4>1. CASE l <= old /\ k \in acc.cells[l].neighbors
        <5>1. l \in 1 .. old
          BY <1>2, <1>4, <4>1
        <5>2. k \in (1 .. old) \ {l}
          BY <1>8, <4>1, <5>1
        <5> QED
          BY <1>8, <4>1, <5>1, <5>2
      <4> QED
        BY <1>7b, <4>1
    <3>2. l \in 1 .. old /\ k \in 1 .. old /\ (Over(O(l), O(k)) \/ Over(O(k), O(l)))
            => k \in new.cells[l].neighbors
      <4>1. ASSUME l \in 1 .. old, k \in 1 .. old, Over(O(l), O(k)) \/ Over(O(k), O(l))
            PROVE  l <= old /\ k \in acc.cells[l].neighbors
        <5>1. k \in (1 .. old) \ {l}
          BY <4>1
        <5> QED
          BY <1>2, <1>8, <4>1, <5>1
      <4> QED
        BY <1>7b, <4>1
    <3>3. Lies(l, k) \/ Lies(k, l) => k \in new.cells[l].neighbors
      <4>1. ASSUME NEW i \in DOMAIN runs, NEW j \in DOMAIN acc.prev, Overlap(runs[i], P(j)),
                   (label[i] = l /\ L(j) = k) \/ (label[i] = k /\ L(j) = l)
            PROVE  k \in new.cells[l].neighbors
        <5>1. label[i] # L(j)
          BY <4>1
        <5>2. label[i] > old
          BY <1>25, <4>1, <5>1
        <5> QED
          BY <1>7b, <4>1, <5>2
      <4> QED
        BY <4>1
    <3> HIDE DEF Lies, O
    <3> QED
      BY <1>24, <3>1, <3>2, <3>3
  <2> QED
    BY <2>1, <2>2
<1>27. ASSUME NEW c \in Cells
       PROVE  c \in mask /\ c[1] < row + 1 <=> \E l \in 1 .. N : c \in M(l)
  <2>1. c[1] \in Nat /\ c[2] \in Nat /\ c = <<c[1], c[2]>>
    BY <1>11
  <2>2. ASSUME NEW l \in 1 .. N, c \in M(l) PROVE c \in mask /\ c[1] < row + 1
    BY <1>15, <2>1, <2>2
  <2>3. ASSUME c \in mask, c[1] < row PROVE \E l \in 1 .. N : c \in M(l)
    <3>1. PICK l \in 1 .. old : c \in O(l)
      BY <1>9, <2>3
    <3>2. l \in 1 .. N /\ l <= old
      BY <1>2, <1>8
    <3> QED
      BY <1>7, <3>1, <3>2
  <2>4. ASSUME c \in mask, c[1] = row PROVE \E l \in 1 .. N : c \in M(l)
    <3>1. PICK i \in DOMAIN runs : c[2] \in Cols1(runs[i])
      BY <1>1, <2>1, <2>4
    <3>2. c \in S(i)
      BY <1>10, <2>1, <2>4, <3>1 DEF S
    <3> QED
      BY <1>10, <1>19, <3>2
  <2> QED
    BY <2>1, <2>2, <2>3, <2>4
<1> HIDE DEF O
<1>28. \A l \in DOMAIN new.cells :
          /\ new.cells[l].mask # {} /\ Sweepable(new.cells[l].mask)
          /\ new.cells[l].neighbors \subseteq DOMAIN new.cells
          /\ \A c \in new.cells[l].mask :
                c[1] = (row + 1) - 1 => \E j \in DOMAIN new.prev : new.prev[j].label = l
          /\ \A k \in DOMAIN new.cells \ {l} :
                /\ new.cells[l].mask \cap new.cells[k].mask = {}
                /\ k \in new.cells[l].neighbors <=>
                      Over(new.cells[l].mask, new.cells[k].mask)
                         \/ Over(new.cells[k].mask, new.cells[l].mask)
  BY <1>4, <1>21, <1>22, <1>23, <1>26 DEF M
<1>29. \A c \in Cells : c \in mask /\ c[1] < row + 1 <=>
                            \E l \in DOMAIN new.cells : c \in new.cells[l].mask
  BY <1>4, <1>27 DEF M
<1>30. SweepInv(mask, row + 1, new)
  BY <1>16, <1>17, <1>20, <1>28, <1>29 DEF SweepInv
<1> QED
  BY <1>30 DEF new, runs

\* After the last row the invariant holds of the whole mask.
LEMMA DecomposeSweeps ==
    ASSUME NEW mask, mask \subseteq Cells
    PROVE  \E acc : decompose(mask) = acc.cells /\ SweepInv(mask, Rows, acc)
<1> DEFINE Empty == [cells |-> << >>, prev |-> << >>]
           Body(f, k) == IF k = 0 THEN Empty
                         ELSE SweepRow(rowRuns(mask, k - 1), f[k - 1], k - 1)
           F == CHOOSE f : f = [k \in 0 .. Rows |-> Body(f, k)]
           V == [cells : Seq(CellRecs), prev : Seq(RunRecs)]
           zero == 0
           step == [p \in (zero + 1 .. Rows) \X V |->
                       IF SweepInv(mask, p[1] - 1, p[2])
                       THEN SweepRow(rowRuns(mask, p[1] - 1), p[2], p[1] - 1) ELSE p[2]]
<1>1. decompose(mask) = F[Rows].cells
  BY DEF decompose
<1>2. Rows \in Nat
  BY GridAssumption
<1>3. Empty \in V /\ SweepInv(mask, 0, Empty)
  <2>1. Empty \in V
    OBVIOUS
  <2>2. \A c \in Cells : ~ (c[1] < 0)
    BY <1>2, GridAssumption DEF Cells
  <2> QED
    BY <2>1, <2>2 DEF SweepInv
<1>4. ASSUME NEW i \in 1 .. Rows, NEW x, SweepInv(mask, i - 1, x)
      PROVE  /\ SweepRow(rowRuns(mask, i - 1), x, i - 1) \in V
             /\ SweepInv(mask, i, SweepRow(rowRuns(mask, i - 1), x, i - 1))
  <2> DEFINE y == SweepRow(rowRuns(mask, i - 1), x, i - 1)
  <2>1. i - 1 \in Nat /\ (i - 1) + 1 = i
    BY <1>2
  <2>2. SweepInv(mask, i, y)
    <3> HIDE DEF y
    <3>1. SweepInv(mask, (i - 1) + 1, SweepRow(rowRuns(mask, i - 1), x, i - 1))
      BY <1>4, <2>1, SweepRowHolds
    <3> QED
      BY <2>1, <3>1 DEF y
  <2>3. y.cells \in Seq(CellRecs) /\ y.prev \in Seq(RunRecs)
    <3> HIDE DEF y
    <3> QED
      BY <2>2 DEF SweepInv
  <2>4. y = [cells |-> y.cells, prev |-> y.prev]
    BY DEF SweepRow
  <2> HIDE DEF y
  <2>5. y \in V
    BY <2>3, <2>4
  <2> QED
    BY <2>2, <2>5 DEF y
<1>5. PICK g \in [zero .. Rows -> V] : Follows(g, zero, Rows, Empty, step)
  <2>1. step \in [(zero + 1 .. Rows) \X V -> V]
    <3>1. ASSUME NEW p \in (zero + 1 .. Rows) \X V
          PROVE  (IF SweepInv(mask, p[1] - 1, p[2])
                  THEN SweepRow(rowRuns(mask, p[1] - 1), p[2], p[1] - 1) ELSE p[2]) \in V
      <4>1. p[1] \in 1 .. Rows /\ p[2] \in V
        OBVIOUS
      <4> HIDE DEF V
      <4> QED
        BY <1>4, <4>1
    <3> HIDE DEF V, zero
    <3> QED
      BY <3>1
  <2>2. zero \in Nat /\ zero <= Rows
    BY <1>2
  <2> HIDE DEF step, zero, Empty, V
  <2> QED
    BY <1>2, <1>3, <2>1, <2>2, RecursionExists
<1> HIDE DEF V
<1>6. ASSUME NEW i \in 1 .. Rows, SweepInv(mask, i - 1, g[i - 1])
      PROVE  /\ g[i] = SweepRow(rowRuns(mask, i - 1), g[i - 1], i - 1)
             /\ SweepInv(mask, i, g[i])
  <2>1. i \in zero + 1 .. Rows /\ i - 1 \in zero .. Rows
    BY <1>2
  <2>2. g[i] = step[<<i, g[i - 1]>>]
    BY <1>5, <2>1 DEF Follows
  <2>3. step[<<i, g[i - 1]>>] = SweepRow(rowRuns(mask, i - 1), g[i - 1], i - 1)
    <3> DEFINE h == g[i - 1]
    <3>1. <<i, h>> \in (zero + 1 .. Rows) \X V /\ SweepInv(mask, i - 1, h)
      BY <1>5, <1>6, <2>1
    <3> HIDE DEF h, zero
    <3>2. step[<<i, h>>] = SweepRow(rowRuns(mask, i - 1), h, i - 1)
      BY <3>1
    <3> QED
      BY <3>2 DEF h
  <2> QED
    BY <1>4, <1>6, <2>2, <2>3
<1>7. g[0] = Empty
  BY <1>5 DEF Follows
<1> HIDE DEF step, Empty
<1> DEFINE Q == {i \in 0 .. Rows : SweepInv(mask, i, g[i])}
<1>8. 0 .. Rows \subseteq Q
  <2>1. 0 \in Q
    BY <1>2, <1>3, <1>7
  <2>2. \A i \in 0 + 1 .. Rows : i - 1 \in Q => i \in Q
    BY <1>2, <1>6
  <2> HIDE DEF Q
  <2> QED
    BY <1>2, <2>1, <2>2, Climb
<1>9. g = [k \in 0 .. Rows |-> Body(g, k)]
  <2>1. ASSUME NEW k \in 0 .. Rows PROVE g[k] = Body(g, k)
    <3>1. CASE k = 0
      BY <1>7, <3>1
    <3>2. CASE k # 0
      <4>1. k \in 1 .. Rows /\ k - 1 \in 0 .. Rows
        BY <1>2, <3>2
      <4> QED
        BY <1>6, <1>8, <3>2, <4>1
    <3> QED
      BY <3>1, <3>2
  <2>2. g = [k \in 0 .. Rows |-> g[k]]
    BY <1>5
  <2> HIDE DEF Body
  <2> QED
    BY <2>1, <2>2
<1>10. F = [k \in 0 .. Rows |-> Body(F, k)]
  <2> HIDE DEF Body
  <2> QED
    BY <1>9
<1> HIDE DEF F
<1> DEFINE R == {i \in 0 .. Rows : SweepInv(mask, i, F[i])}
<1>11. 0 .. Rows \subseteq R
  <2>1. F[0] = Empty
    BY <1>2, <1>10
  <2>2. 0 \in R
    BY <1>2, <1>3, <2>1
  <2>3. ASSUME NEW i \in 0 + 1 .. Rows, i - 1 \in R PROVE i \in R
    <3>1. i \in 1 .. Rows /\ i \in 0 .. Rows /\ i # 0
      BY <1>2
    <3>2. F[i] = SweepRow(rowRuns(mask, i - 1), F[i - 1], i - 1)
      BY <1>10, <3>1
    <3>3. SweepInv(mask, i, F[i])
      BY <1>4, <2>3, <3>1, <3>2
    <3> QED
      BY <3>1, <3>3
  <2> HIDE DEF R
  <2> QED
    BY <1>2, <2>2, <2>3, Climb
<1>12. SweepInv(mask, Rows, F[Rows])
  BY <1>2, <1>11
<1> QED
  BY <1>1, <1>12

\* What the decomposition of a region promises, and the types of it.
THEOREM DecompositionIsSound ==
    ASSUME NEW region, region \subseteq Cells
    PROVE  /\ Decomposes(decompose(region), region)
           /\ decompose(region) \in Seq([mask : SUBSET Cells, neighbors : SUBSET Nat])
           /\ \A i \in DOMAIN decompose(region) : decompose(region)[i].mask # {}
<1>1. PICK acc : decompose(region) = acc.cells /\ SweepInv(region, Rows, acc)
  BY DecomposeSweeps
<1> DEFINE cells == acc.cells
<1>2. cells \in Seq(CellRecs)
  BY <1>1 DEF SweepInv
<1>3. \A c \in Cells : c[1] < Rows
  BY GridAssumption DEF Cells
<1>4. UNION {cells[i].mask : i \in DOMAIN cells} = region
  <2>1. \A i \in DOMAIN cells : cells[i].mask \subseteq Cells
    <3>1. \A i \in DOMAIN cells : cells[i] \in CellRecs
      BY <1>2
    <3> QED
      BY <3>1 DEF CellRecs
  <2>2. \A c \in Cells : c \in region <=> \E i \in DOMAIN cells : c \in cells[i].mask
    BY <1>1, <1>3 DEF SweepInv
  <2> QED
    BY <2>1, <2>2
<1>5. \A i \in DOMAIN cells :
          /\ Sweepable(cells[i].mask) /\ cells[i].mask # {}
          /\ \A j \in DOMAIN cells \ {i} :
                /\ cells[i].mask \cap cells[j].mask = {}
                /\ j \in cells[i].neighbors <=>
                      Over(cells[i].mask, cells[j].mask) \/ Over(cells[j].mask, cells[i].mask)
  BY <1>1 DEF SweepInv
<1> HIDE DEF cells
<1>6. Decomposes(cells, region)
  BY <1>4, <1>5 DEF Decomposes
<1> QED
  BY <1>1, <1>2, <1>5, <1>6 DEF cells, CellRecs

\* The region of every task is shared out by its cells of the decomposition, for every map.
THEOREM DecompositionStaysSound == MissionSpec => []DecompositionSound
<1>1. MasksInv => DecompositionSound
  <2> SUFFICES ASSUME MasksInv, Begun
               PROVE  Decomposes(decompose(masks_.reachable_cleanable), masks_.reachable_cleanable)
    BY DEF DecompositionSound
  <2>1. start_ \in Cells /\ masks_ = build(latest_map_, gridToWorld(start_))
    BY DEF MasksInv, Begun
  <2>2. masks_.reachable_cleanable \subseteq Cells
    BY <2>1 DEF build, classify
  <2> QED
    BY <2>2, DecompositionIsSound
<1> QED
  BY <1>1, MasksInvHolds, PTL
=============================================================================
