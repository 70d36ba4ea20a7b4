--------------------------- MODULE DetectorProofs ---------------------------
(***************************************************************************)
(* Proof that frontier detection gathers the frontier cells of every map   *)
(* into their connected components.  A turn of the breadth-first search    *)
(* leaves no neighbour of the cell it takes unfound, so that the search    *)
(* ends with what can be got to; as whole components are visited, the scan *)
(* starts the next search in another one.                                  *)
(***************************************************************************)
EXTENDS PlanProofs

-----------------------------------------------------------------------------
(* Sequences without repetition *)

\* Nothing is repeated in s.
Distinct(s) == \A i, j \in 1 .. Len(s) : s[i] = s[j] => i = j

\* t begins with s.
Begins(s, t) == Len(s) <= Len(t) /\ \A i \in 1 .. Len(s) : t[i] = s[i]

\* A new element at the end repeats nothing.
LEMMA AppendDistinct ==
    ASSUME NEW S, NEW s \in Seq(S), NEW x \in S, x \notin ToSet(s), Distinct(s)
    PROVE  /\ Append(s, x) \in Seq(S) /\ Distinct(Append(s, x)) /\ Begins(s, Append(s, x))
           /\ ToSet(Append(s, x)) = ToSet(s) \cup {x}
<1> DEFINE t == Append(s, x)
           n == Len(s)
<1>1. /\ t \in Seq(S) /\ Len(t) = n + 1 /\ t[n + 1] = x /\ \A i \in 1 .. n : t[i] = s[i]
      /\ n \in Nat
  OBVIOUS
<1>2. \A y : y \in ToSet(s) <=> \E i \in 1 .. n : y = s[i]
  BY DEF ToSet
<1>3. \A y : y \in ToSet(t) <=> \E i \in 1 .. n + 1 : y = t[i]
  <2>1. DOMAIN t = 1 .. n + 1
    BY <1>1
  <2> QED
    BY <2>1 DEF ToSet
<1> HIDE DEF t, n
<1>4. \A i \in 1 .. n + 1 : i \in 1 .. n \/ i = n + 1
  BY <1>1
<1>5. \A y : y \in ToSet(t) <=> y \in ToSet(s) \cup {x}
  <2>1. \A i \in 1 .. n : i \in 1 .. n + 1
    BY <1>1
  <2>2. n + 1 \in 1 .. n + 1
    BY <1>1
  <2> QED
    BY <1>1, <1>2, <1>3, <1>4, <2>1, <2>2
<1>6. Distinct(t)
  <2> SUFFICES ASSUME NEW i \in 1 .. n + 1, NEW j \in 1 .. n + 1, t[i] = t[j] PROVE i = j
    BY <1>1 DEF Distinct
  <2> QED
    BY <1>1, <1>2, <1>4 DEF Distinct, n
<1>7. Begins(s, t)
  BY <1>1 DEF Begins, n
<1> QED
  BY <1>1, <1>5, <1>6, <1>7 DEF t

\* A sequence without repetition has as many elements as places.
LEMMA DistinctCounts ==
    ASSUME NEW S, NEW s \in Seq(S), Distinct(s)
    PROVE  IsFiniteSet(ToSet(s)) /\ Cardinality(ToSet(s)) = Len(s)
<1>1. Len(s) \in Nat /\ s \in [1 .. Len(s) -> ToSet(s)]
  BY DEF ToSet
<1>2. \A y \in ToSet(s) : \E i \in 1 .. Len(s) : s[i] = y
  BY DEF ToSet
<1>3. s \in Bijection(1 .. Len(s), ToSet(s))
  BY <1>1, <1>2 DEF Bijection, Injection, Surjection, IsInjective, Distinct
<1>4. ExistsBijection(1 .. Len(s), ToSet(s))
  BY <1>3 DEF ExistsBijection
<1> QED
  BY <1>1, <1>4, FS_CountingElements, FS_NatBijection

\* What begins with a sequence begins with what that begins with.
LEMMA BeginsBegins ==
    ASSUME NEW S, NEW s \in Seq(S), NEW t \in Seq(S), NEW u \in Seq(S), Begins(s, t), Begins(t, u)
    PROVE  Begins(s, u)
  BY DEF Begins

-----------------------------------------------------------------------------
(* The search *)

\* new begins with found, repeats nothing, and adds the cells of more.
Adds(found, more, new) ==
    /\ new \in Seq(Cells) /\ Distinct(new) /\ Begins(found, new)
    /\ ToSet(new) = ToSet(found) \cup more

\* The neighbours of a cell that are on the grid.
LEMMA NearIs ==
    ASSUME NEW p
    PROVE  /\ Len(Near(p)) \in Nat
           /\ {Near(p)[i] : i \in 1 .. Len(Near(p))} \cap Cells = Around(p, ClusterConnectivity)
<1> DEFINE around == makeNeighbourhood(ClusterConnectivity)
<1>1. around \in Seq(Int \X Int)
  <2>1. CASE ClusterConnectivity = 4
    BY <2>1 DEF makeNeighbourhood
  <2>2. CASE ClusterConnectivity # 4
    BY <2>2 DEF makeNeighbourhood
  <2> QED
    BY <2>1, <2>2
<1>2. Near(p) = [i \in DOMAIN around |-> Shift(p, around[i])]
  BY DEF Near
<1>3. Around(p, ClusterConnectivity) = {Shift(p, d) : d \in ToSet(around)} \cap Cells
  BY DEF Around
<1> HIDE DEF around
<1>4. DOMAIN around = 1 .. Len(around) /\ Len(around) \in Nat
  BY <1>1
<1>5. Len(Near(p)) = Len(around) /\ \A i \in 1 .. Len(around) : Near(p)[i] = Shift(p, around[i])
  BY <1>2, <1>4
<1>6. ToSet(around) = {around[i] : i \in 1 .. Len(around)}
  BY <1>4 DEF ToSet
<1>7. {Near(p)[i] : i \in 1 .. Len(Near(p))} = {Shift(p, d) : d \in ToSet(around)}
  BY <1>5, <1>6
<1> QED
  BY <1>3, <1>4, <1>5, <1>7

\* Looking around a cell adds the cells next to it that are still to be found.
LEMMA LookAroundAdds ==
    ASSUME NEW frontier, frontier \subseteq Cells, NEW visited, NEW p,
           NEW found \in Seq(Cells), Distinct(found)
    PROVE  Adds(found, Around(p, ClusterConnectivity) \cap (frontier \ (visited \cup ToSet(found))),
                LookAround(frontier, visited, found, p))
<1> DEFINE near == Near(p)
           size == Len(near)
           WithNext(known, c) == IF c \in frontier \ (visited \cup ToSet(known))
                              THEN Append(known, c) ELSE known
           Body(f, i) == IF i = 0 THEN found ELSE WithNext(f[i - 1], near[i])
           F == CHOOSE f : f = [i \in 0 .. size |-> Body(f, i)]
           zero == 0
           V == Seq(Cells)
           step == [q \in (zero + 1 .. size) \X V |-> WithNext(q[2], near[q[1]])]
<1>1. LookAround(frontier, visited, found, p) = F[size]
  BY DEF LookAround
<1>2. /\ size \in Nat
      /\ {near[i] : i \in 1 .. size} \cap Cells = Around(p, ClusterConnectivity)
  BY NearIs
<1>3. ASSUME NEW known \in V, NEW c PROVE WithNext(known, c) \in V
  BY <1>3
<1> HIDE DEF near, size, WithNext
<1>4. zero \in Nat /\ zero <= size /\ zero = 0
  BY <1>2
<1>5. PICK g \in [zero .. size -> V] : Follows(g, zero, size, found, step)
  <2>1. step \in [(zero + 1 .. size) \X V -> V]
    BY <1>3
  <2> HIDE DEF step, zero, V
  <2> QED
    BY <1>2, <1>4, <2>1, RecursionExists DEF V
<1>6. g = [i \in 0 .. size |-> Body(g, i)]
  <2>1. g[0] = found /\ g \in [0 .. size -> V]
    BY <1>5 DEF Follows
  <2>2. ASSUME NEW i \in 1 .. size PROVE g[i] = WithNext(g[i - 1], near[i])
    <3> DEFINE v == g[i - 1]
    <3>1. i \in zero + 1 .. size /\ i - 1 \in 0 .. size /\ v \in V
      BY <1>2, <2>1
    <3>2. g[i] = step[<<i, v>>]
      BY <1>5, <3>1 DEF Follows
    <3> HIDE DEF v
    <3>3. step[<<i, v>>] = WithNext(v, near[i])
      BY <3>1
    <3> QED
      BY <3>2, <3>3 DEF v
  <2>3. ASSUME NEW i \in 0 .. size PROVE g[i] = Body(g, i)
    <3>1. i = 0 \/ i \in 1 .. size
      BY <1>2
    <3> QED
      BY <2>1, <2>2, <3>1
  <2>4. g = [i \in 0 .. size |-> g[i]]
    BY <2>1
  <2> HIDE DEF Body
  <2> QED
    BY <2>3, <2>4
<1>7. F = [i \in 0 .. size |-> Body(F, i)]
  <2> HIDE DEF Body
  <2> QED
    BY <1>6
<1> HIDE DEF F
<1> DEFINE open == frontier \ (visited \cup ToSet(found))
           Seen(i) == {near[j] : j \in 1 .. i} \cap open
           Q == {i \in 0 .. size : Adds(found, Seen(i), F[i])}
<1>8. 0 \in Q
  <2>1. F[0] = found /\ 0 \in 0 .. size
    BY <1>2, <1>7
  <2>2. Seen(0) = {}
    OBVIOUS
  <2>3. Begins(found, found)
    BY DEF Begins
  <2> HIDE DEF Seen
  <2> QED
    BY <2>1, <2>2, <2>3 DEF Adds
<1>9. ASSUME NEW i \in 0 + 1 .. size, i - 1 \in Q PROVE i \in Q
  <2> DEFINE known == F[i - 1]
             c == near[i]
  <2>1. i \in 1 .. size /\ i \in 0 .. size /\ i # 0 /\ i \in Nat
    BY <1>2
  <2>2. Adds(found, Seen(i - 1), known)
    BY <1>9
  <2>3. F[i] = WithNext(known, c)
    BY <1>7, <2>1
  <2>4. Seen(i) = Seen(i - 1) \cup ({c} \cap open)
    <3>1. 1 .. i = (1 .. i - 1) \cup {i}
      BY <2>1
    <3> QED
      BY <3>1
  <2> HIDE DEF known, c, Seen
  <2>5. known \in Seq(Cells) /\ Distinct(known) /\ Begins(found, known)
        /\ ToSet(known) = ToSet(found) \cup Seen(i - 1)
    BY <2>2 DEF Adds
  <2>6. CASE c \in frontier \ (visited \cup ToSet(known))
    <3>1. F[i] = Append(known, c) /\ c \in Cells /\ c \notin ToSet(known) /\ c \in open
      BY <2>3, <2>5, <2>6 DEF WithNext
    <3>2. /\ Append(known, c) \in Seq(Cells) /\ Distinct(Append(known, c))
          /\ Begins(known, Append(known, c)) /\ ToSet(Append(known, c)) = ToSet(known) \cup {c}
      BY <2>5, <3>1, AppendDistinct
    <3>3. Begins(found, F[i])
      BY <2>5, <3>1, <3>2, BeginsBegins
    <3> QED
      BY <2>1, <2>4, <2>5, <3>1, <3>2, <3>3 DEF Adds
  <2>7. CASE c \notin frontier \ (visited \cup ToSet(known))
    <3>1. F[i] = known
      BY <2>3, <2>7 DEF WithNext
    <3>2. c \in open => c \in Seen(i - 1)
      BY <2>5, <2>7
    <3>3. Seen(i) = Seen(i - 1)
      BY <2>4, <3>2
    <3> QED
      BY <2>1, <2>2, <3>1, <3>3 DEF known
  <2> QED
    BY <2>6, <2>7
<1>10. size \in Q
  <2>1. 0 .. size \subseteq Q
    <3> HIDE DEF Q
    <3> QED
      BY <1>2, <1>8, <1>9, Climb
  <2>2. size \in 0 .. size
    BY <1>2
  <2> HIDE DEF Q
  <2> QED
    BY <2>1, <2>2
<1>11. Seen(size) = Around(p, ClusterConnectivity) \cap open
  <2>1. {near[i] : i \in 1 .. size} \cap Cells = Around(p, ClusterConnectivity)
    BY <1>2
  <2>2. open \subseteq Cells
    OBVIOUS
  <2> QED
    BY <2>1, <2>2
<1> QED
  BY <1>1, <1>10, <1>11

\* The number of cells of the grid.
LEMMA GridSize == Rows * Cols \in Nat /\ Cardinality(Cells) = Rows * Cols
<1>1. Rows \in Nat /\ Cols \in Nat /\ Rows > 0 /\ Cols > 0
  BY GridAssumption
<1>2. /\ IsFiniteSet(0 .. Rows - 1) /\ IsFiniteSet(0 .. Cols - 1)
      /\ Cardinality(0 .. Rows - 1) = Rows /\ Cardinality(0 .. Cols - 1) = Cols
  BY <1>1, FS_Interval
<1>3. Cardinality(Cells) = Rows * Cols
  <2> DEFINE R == 0 .. Rows - 1  C == 0 .. Cols - 1
  <2> HIDE DEF R, C
  <2>1. Cardinality(R \X C) = Cardinality(R) * Cardinality(C)
    BY <1>2, FS_Product DEF R, C
  <2>2. Cardinality(R) = Rows /\ Cardinality(C) = Cols
    BY <1>2 DEF R, C
  <2>3. Cells = R \X C
    BY DEF Cells, R, C
  <2> QED
    BY <2>1, <2>2, <2>3
<1>4. Rows * Cols \in Nat
  BY <1>1
<1> QED
  BY <1>3, <1>4

\* The cells s found after n turns, of those of all that can be got to: the neighbours of
\* the first n of them have been found.
SearchInv(open, all, start, n, s) ==
    /\ s \in Seq(Cells) /\ Distinct(s) /\ start \in ToSet(s) /\ ToSet(s) \subseteq all
    /\ \A j \in 1 .. n : j <= Len(s) => Around(s[j], ClusterConnectivity) \cap open \subseteq ToSet(s)

\* The cells that have been found.
Lists == {s \in Seq(Cells) : Distinct(s)}

\* The n-th turn.
Turn(frontier, visited, s, n) ==
    IF n > Len(s) THEN s ELSE LookAround(frontier, visited, s, s[n])

\* A turn repeats nothing.
LEMMA TurnIs ==
    ASSUME NEW frontier, frontier \subseteq Cells, NEW visited, NEW s \in Lists, NEW n \in Nat \ {0}
    PROVE  Turn(frontier, visited, s, n) \in Lists
<1>1. s \in Seq(Cells) /\ Distinct(s)
  BY DEF Lists
<1>2. CASE n > Len(s)
  BY <1>2 DEF Turn
<1>3. CASE ~ (n > Len(s))
  BY <1>1, <1>3, LookAroundAdds DEF Turn, Adds, Lists
<1> QED
  BY <1>2, <1>3

\* A turn keeps the invariant of the search.
LEMMA TurnSearches ==
    ASSUME NEW frontier, frontier \subseteq Cells, NEW visited, NEW start, NEW all,
           all \subseteq frontier \ visited,
           Spread(frontier \ visited, ClusterConnectivity, all) = all,
           NEW n \in Nat \ {0}, NEW s, SearchInv(frontier \ visited, all, start, n - 1, s)
    PROVE  SearchInv(frontier \ visited, all, start, n, Turn(frontier, visited, s, n))
<1> DEFINE open == frontier \ visited
           k == ClusterConnectivity
           new == Turn(frontier, visited, s, n)
<1>1. /\ s \in Seq(Cells) /\ Distinct(s) /\ start \in ToSet(s) /\ ToSet(s) \subseteq all
      /\ \A j \in 1 .. n - 1 : j <= Len(s) => Around(s[j], k) \cap open \subseteq ToSet(s)
      /\ Len(s) \in Nat
  BY DEF SearchInv
<1>2. CASE n > Len(s)
  <2>1. new = s
    BY <1>2 DEF Turn
  <2>2. \A j \in 1 .. n : j <= Len(s) => j \in 1 .. n - 1
    BY <1>1, <1>2
  <2> HIDE DEF new, open
  <2> QED
    BY <1>1, <2>1, <2>2 DEF SearchInv, new, open
<1>3. CASE ~ (n > Len(s))
  <2> DEFINE more == Around(s[n], k) \cap (frontier \ (visited \cup ToSet(s)))
  <2>1. Adds(s, more, new)
    BY <1>1, <1>3, LookAroundAdds DEF Turn
  <2>2. n \in 1 .. Len(s) /\ s[n] \in ToSet(s)
    BY <1>1, <1>3 DEF ToSet
  <2> HIDE DEF new
  <2>3. /\ new \in Seq(Cells) /\ Distinct(new) /\ Len(s) <= Len(new) /\ Len(new) \in Nat
        /\ \A j \in 1 .. Len(s) : new[j] = s[j]
        /\ ToSet(new) = ToSet(s) \cup more
    BY <2>1 DEF Adds, Begins
  <2>4. more \subseteq all
    BY <1>1, <2>2 DEF Spread
  <2>5. Around(s[n], k) \cap open \subseteq ToSet(new)
    BY <2>3
  <2>6. ASSUME NEW j \in 1 .. n
        PROVE  Around(new[j], k) \cap open \subseteq ToSet(new)
    <3>1. j \in 1 .. Len(s) /\ new[j] = s[j] /\ (j = n \/ j \in 1 .. n - 1)
      BY <2>2, <2>3
    <3>2. CASE j = n
      BY <2>5, <3>1, <3>2
    <3>3. CASE j \in 1 .. n - 1
      <4>1. Around(s[j], k) \cap open \subseteq ToSet(s)
        BY <1>1, <3>1, <3>3
      <4> QED
        BY <2>3, <3>1, <4>1
    <3> QED
      BY <3>1, <3>2, <3>3
  <2>7. start \in ToSet(new) /\ ToSet(new) \subseteq all
    BY <1>1, <2>3, <2>4
  <2> HIDE DEF open, more
  <2> QED
    BY <2>3, <2>6, <2>7 DEF SearchInv, new, open
<1> QED
  BY <1>2, <1>3

\* The breadth-first search finds the cells that can be got to, each once (bfsCluster).
THEOREM SearchFindsReachable ==
    ASSUME NEW frontier, frontier \subseteq Cells, NEW visited, NEW start \in frontier \ visited
    PROVE  LET cells == bfsCluster(frontier, start, visited)
           IN  /\ cells \in Seq(Cells) /\ Distinct(cells)
               /\ ToSet(cells) = Reachable(frontier \ visited, ClusterConnectivity, {start})
<1> DEFINE open == frontier \ visited
           k == ClusterConnectivity
           all == Reachable(open, k, {start})
           size == Rows * Cols
           Body(f, n) == IF n = 0 THEN <<start>> ELSE Turn(frontier, visited, f[n - 1], n)
           F == CHOOSE f : f = [n \in 0 .. size |-> Body(f, n)]
           zero == 0
           step == [q \in (zero + 1 .. size) \X Lists |-> Turn(frontier, visited, q[2], q[1])]
           Inv(n, s) == SearchInv(open, all, start, n, s)
<1>1. bfsCluster(frontier, start, visited) = F[size]
  BY DEF bfsCluster, Turn
<1>2. size \in Nat /\ Cardinality(Cells) = size
  BY GridSize
<1>3. /\ start \in all /\ all \subseteq open /\ Spread(open, k, all) = all
      /\ \A T \in SUBSET open : start \in T /\ Spread(open, k, T) = T => all \subseteq T
  <2>1. open \in SUBSET Cells
    OBVIOUS
  <2> HIDE DEF open
  <2>2. start \in all /\ all \in SUBSET open /\ Spread(open, k, all) = all
    BY <2>1, ReachableIsClosed DEF open
  <2>3. \A T \in SUBSET open : start \in T /\ Spread(open, k, T) = T => all \subseteq T
    BY DEF Reachable
  <2> QED
    BY <2>2, <2>3
<1> HIDE DEF size, all
<1>4. zero \in Nat /\ zero <= size /\ zero = 0
  BY <1>2
<1>5. <<start>> \in Lists /\ Inv(0, <<start>>)
  <2>1. <<start>> \in Seq(Cells) /\ Len(<<start>>) = 1
    OBVIOUS
  <2>2. Distinct(<<start>>)
    BY <2>1 DEF Distinct
  <2>3. ToSet(<<start>>) = {start}
    BY DEF ToSet
  <2> QED
    BY <1>3, <2>1, <2>2, <2>3 DEF SearchInv, Lists
<1>6. PICK g \in [zero .. size -> Lists] : Follows(g, zero, size, <<start>>, step)
  <2>1. \A n \in zero + 1 .. size : n \in Nat \ {0}
    BY <1>2
  <2>2. step \in [(zero + 1 .. size) \X Lists -> Lists]
    BY <2>1, TurnIs
  <2> HIDE DEF step, zero
  <2> QED
    BY <1>2, <1>4, <1>5, <2>2, RecursionExists
<1>7. g = [n \in 0 .. size |-> Body(g, n)]
  <2>1. g[0] = <<start>> /\ g \in [0 .. size -> Lists]
    BY <1>6 DEF Follows
  <2>2. ASSUME NEW n \in 1 .. size PROVE g[n] = Turn(frontier, visited, g[n - 1], n)
    <3> DEFINE v == g[n - 1]
    <3>1. n \in zero + 1 .. size /\ n - 1 \in 0 .. size /\ v \in Lists
      BY <1>2, <2>1
    <3>2. g[n] = step[<<n, v>>]
      BY <1>6, <3>1 DEF Follows
    <3> HIDE DEF v
    <3>3. step[<<n, v>>] = Turn(frontier, visited, v, n)
      BY <3>1
    <3> QED
      BY <3>2, <3>3 DEF v
  <2>3. ASSUME NEW n \in 0 .. size PROVE g[n] = Body(g, n)
    <3>1. n = 0 \/ n \in 1 .. size
      BY <1>2
    <3> QED
      BY <2>1, <2>2, <3>1
  <2>4. g = [n \in 0 .. size |-> g[n]]
    BY <2>1
  <2> HIDE DEF Body
  <2> QED
    BY <2>3, <2>4
<1>8. F = [n \in 0 .. size |-> Body(F, n)]
  <2> HIDE DEF Body
  <2> QED
    BY <1>7
<1> HIDE DEF F
<1> DEFINE Q == {n \in 0 .. size : Inv(n, F[n])}
<1>9. 0 \in Q
  <2>1. F[0] = <<start>> /\ 0 \in 0 .. size
    BY <1>2, <1>8
  <2> HIDE DEF Inv
  <2> QED
    BY <1>5, <2>1
<1>10. ASSUME NEW n \in 0 + 1 .. size, n - 1 \in Q PROVE n \in Q
  <2>1. n \in 0 .. size /\ n # 0 /\ n \in Nat \ {0}
    BY <1>2
  <2>2. F[n] = Turn(frontier, visited, F[n - 1], n)
    BY <1>8, <2>1
  <2>3. Inv(n - 1, F[n - 1])
    BY <1>10
  <2>4. Inv(n, F[n])
    BY <1>3, <2>1, <2>2, <2>3, TurnSearches
  <2> HIDE DEF Inv
  <2> QED
    BY <2>1, <2>4
<1>11. Inv(size, F[size])
  <2>1. 0 .. size \subseteq Q
    <3> HIDE DEF Q
    <3> QED
      BY <1>2, <1>9, <1>10, Climb
  <2>2. size \in 0 .. size
    BY <1>2
  <2>3. size \in Q
    <3> HIDE DEF Q
    <3> QED
      BY <2>1, <2>2
  <2> HIDE DEF Inv
  <2> QED
    BY <2>3
<1> DEFINE cells == F[size]
<1>12. /\ cells \in Seq(Cells) /\ Distinct(cells) /\ start \in ToSet(cells)
       /\ ToSet(cells) \subseteq all
       /\ \A j \in 1 .. size : j <= Len(cells) => Around(cells[j], k) \cap open \subseteq ToSet(cells)
  BY <1>11 DEF SearchInv
<1> HIDE DEF cells
<1>13. Len(cells) \in Nat /\ Len(cells) <= size
  <2>1. ToSet(cells) \subseteq Cells
    BY <1>12 DEF ToSet
  <2>2. Cardinality(ToSet(cells)) = Len(cells)
    BY <1>12, DistinctCounts
  <2>3. Cardinality(ToSet(cells)) <= Cardinality(Cells)
    BY <2>1, CellsFinite, FS_Subset
  <2> QED
    BY <1>2, <1>12, <2>2, <2>3
<1>14. \A c \in ToSet(cells) : Around(c, k) \cap open \subseteq ToSet(cells)
  <2> SUFFICES ASSUME NEW c \in ToSet(cells) PROVE Around(c, k) \cap open \subseteq ToSet(cells)
    OBVIOUS
  <2>1. PICK j \in 1 .. Len(cells) : c = cells[j]
    BY <1>12 DEF ToSet
  <2>2. j \in 1 .. size /\ j <= Len(cells)
    BY <1>2, <1>13
  <2> QED
    BY <1>12, <2>1, <2>2
<1>15. Spread(open, k, ToSet(cells)) = ToSet(cells)
  BY <1>14 DEF Spread
<1>16. all \subseteq ToSet(cells)
  BY <1>3, <1>12, <1>15
<1> QED
  BY <1>1, <1>12, <1>16 DEF cells, all

-----------------------------------------------------------------------------
(* Clusters *)

\* The measure by which a representative is chosen is a natural number.
LEMMA CentroidDistIs ==
    ASSUME NEW cells \in Seq(Cells), NEW p \in Cells
    PROVE  SumOf(cells) \in Nat \X Nat /\ CentroidDist2(cells, p) \in Nat
<1>1. ToSet(cells) \subseteq Cells
  BY DEF ToSet
<1>2. SumOf(cells) \in Nat \X Nat
  BY <1>1, CellSumIs DEF SumOf
<1> DEFINE n == Len(cells)  s == SumOf(cells)
           dr == n * p[1] - s[1]  dc == n * p[2] - s[2]
<1>3. n \in Nat /\ s[1] \in Nat /\ s[2] \in Nat /\ p[1] \in Int /\ p[2] \in Int
  BY <1>2 DEF Cells
<1>4. CentroidDist2(cells, p) = dr * dr + dc * dc
  BY DEF CentroidDist2
<1>5. dr \in Int /\ dc \in Int
  <2> HIDE DEF n, s
  <2> QED
    BY <1>3
<1> HIDE DEF dr, dc
<1>6. \A x \in Int : x * x \in Nat
  <2> SUFFICES ASSUME NEW x \in Int PROVE x * x \in Nat
    OBVIOUS
  <2>1. CASE x >= 0
    BY <2>1
  <2>2. CASE x < 0
    <3>1. -x \in Nat /\ x * x = (-x) * (-x)
      BY <2>2
    <3> QED
      BY <3>1
  <2> QED
    BY <2>1, <2>2
<1>7. dr * dr \in Nat /\ dc * dc \in Nat
  BY <1>5, <1>6
<1> QED
  BY <1>2, <1>4, <1>7

\* A representative is a cell of the cluster, and none is nearer to the centroid.
LEMMA RepresentativeIs ==
    ASSUME NEW cells \in Seq(Cells), cells # << >>
    PROVE  /\ computeRepresentative(cells) \in ToSet(cells)
           /\ \A p \in ToSet(cells) : CentroidDist2(cells, computeRepresentative(cells))
                                        <= CentroidDist2(cells, p)
<1> DEFINE d(k) == CentroidDist2(cells, cells[k])
           I == DOMAIN cells
           D == {d(k) : k \in I}
           First(n) == \A k \in I : d(n) < d(k) \/ (d(n) = d(k) /\ n <= k)
           least == Least(D)
           S == {k \in I : d(k) = least}
<1>1. I \subseteq Nat /\ I # {} /\ \A k \in I : cells[k] \in Cells
  <2>1. I = 1 .. Len(cells) /\ Len(cells) \in Nat /\ Len(cells) # 0
    OBVIOUS
  <2>2. 1 \in I
    BY <2>1
  <2> QED
    BY <2>1, <2>2
<1>2. \A k \in I : d(k) \in Nat
  BY <1>1, CentroidDistIs
<1> HIDE DEF d, I
<1>3. least \in D /\ \A y \in D : least <= y
  <2>1. D \subseteq Nat /\ D # {}
    BY <1>1, <1>2
  <2> HIDE DEF D
  <2> QED
    BY <2>1, LeastIs
<1>4. \A k \in I : least <= d(k)
  <2>1. \A k \in I : d(k) \in D
    OBVIOUS
  <2> HIDE DEF D, least
  <2> QED
    BY <1>3, <2>1
<1> DEFINE n == Least(S)
<1>5. n \in S /\ \A y \in S : n <= y
  <2>1. S \subseteq Nat /\ S # {}
    BY <1>1, <1>3
  <2> HIDE DEF S
  <2> QED
    BY <2>1, LeastIs
<1>6. n \in I /\ d(n) = least
  BY <1>5
<1>7. First(n)
  <2> SUFFICES ASSUME NEW k \in I PROVE d(n) < d(k) \/ (d(n) = d(k) /\ n <= k)
    OBVIOUS
  <2>1. CASE d(k) = least
    <3>1. k \in S
      BY <2>1
    <3> HIDE DEF S, n, least
    <3> QED
      BY <1>5, <1>6, <2>1, <3>1
  <2>2. CASE d(k) # least
    <3>1. d(n) <= d(k) /\ d(n) # d(k) /\ d(n) \in Nat /\ d(k) \in Nat
      BY <1>2, <1>4, <1>6, <2>2
    <3> HIDE DEF n
    <3> QED
      BY <3>1
  <2> QED
    BY <2>1, <2>2
<1> DEFINE m == CHOOSE x \in I : First(x)
<1>8. m \in I /\ First(m)
  <2> HIDE DEF First, n
  <2> QED
    BY <1>6, <1>7
<1>9. computeRepresentative(cells) = cells[m]
  BY DEF computeRepresentative, d, I
<1> HIDE DEF m, n
<1>10. \A k \in I : d(m) <= d(k)
  BY <1>2, <1>8
<1>11. \A p : p \in ToSet(cells) <=> \E k \in I : p = cells[k]
  BY DEF ToSet, I
<1> QED
  BY <1>8, <1>9, <1>10, <1>11 DEF d

\* What detect makes of a list of cells.
ClusterRecs == [cells : Seq(Cells), sum : Nat \X Nat, rep : Cells]

\* A list that is too small makes no cluster, another makes one.
LEMMA ClusterIs ==
    ASSUME NEW cells \in Seq(Cells), cells # << >>
    PROVE  /\ Cluster(cells) \in Seq(ClusterRecs)
           /\ Len(cells) < MinClusterSize => Cluster(cells) = << >>
           /\ ~ (Len(cells) < MinClusterSize) =>
                 \E r \in ClusterRecs : /\ Cluster(cells) = <<r>> /\ r.cells = cells
                                        /\ r.rep = computeRepresentative(cells)
<1> DEFINE r == [cells |-> cells, sum |-> SumOf(cells), rep |-> computeRepresentative(cells)]
<1>1. computeRepresentative(cells) \in Cells
  <2>1. computeRepresentative(cells) \in ToSet(cells)
    BY RepresentativeIs
  <2> QED
    BY <2>1 DEF ToSet
<1>2. SumOf(cells) \in Nat \X Nat
  BY <1>1, CentroidDistIs
<1>3. r \in ClusterRecs
  BY <1>1, <1>2 DEF ClusterRecs
<1>4. r.cells = cells /\ r.rep = computeRepresentative(cells)
  OBVIOUS
<1>5. Cluster(cells) = IF Len(cells) < MinClusterSize THEN << >> ELSE <<r>>
  BY DEF Cluster
<1> HIDE DEF r
<1> QED
  BY <1>3, <1>4, <1>5

\* The scan goes over every cell of the grid.
LEMMA ScanIsComplete == \A c \in Cells : \E i \in 1 .. Rows * Cols : RowMajor[i] = c
<1> SUFFICES ASSUME NEW c \in Cells PROVE \E i \in 1 .. Rows * Cols : RowMajor[i] = c
  OBVIOUS
<1>0. PICK r \in 0 .. Rows - 1, q \in 0 .. Cols - 1 : c = <<r, q>>
  BY DEF Cells
<1> DEFINE n == r * Cols + q
<1>1. r \in Nat /\ q \in Nat /\ Rows \in Nat /\ Cols \in Nat \ {0} /\ q < Cols
  BY GridAssumption
<1>2. n \in Nat /\ n < Rows * Cols
  <2>1. r * Cols \in Nat /\ Rows * Cols \in Nat
    BY <1>1
  <2>2. r * Cols + Cols <= Rows * Cols
    <3>1. Rows - 1 - r \in Nat
      BY <1>1
    <3>2. (Rows - 1 - r) * Cols \in Nat
      BY <1>1, <3>1
    <3>3. Rows * Cols = (Rows - 1 - r) * Cols + r * Cols + Cols
      BY <1>1
    <3> QED
      BY <1>1, <2>1, <3>2, <3>3
  <2> QED
    BY <1>1, <2>1, <2>2
<1>3. n \div Cols = r /\ n % Cols = q
  <2> DEFINE d == n \div Cols  m == n % Cols
  <2>1. d \in Int /\ m \in 0 .. Cols - 1 /\ n = Cols * d + m
    <3> HIDE DEF n
    <3> QED
      BY <1>1, <1>2
  <2> HIDE DEF d, m
  <2>2. r * Cols + q = Cols * d + m /\ d \in Int /\ m \in Int /\ 0 <= m /\ m < Cols
    BY <1>1, <2>1
  <2>3. (d - r) * Cols = q - m
    BY <1>1, <2>2
  <2>4. ~ (d - r >= 1)
    <3> SUFFICES ASSUME d - r >= 1 PROVE FALSE
      OBVIOUS
    <3>1. d - r - 1 \in Nat
      BY <1>1, <2>2
    <3>2. (d - r - 1) * Cols \in Nat
      BY <1>1, <3>1
    <3>3. (d - r) * Cols = (d - r - 1) * Cols + Cols
      BY <1>1, <2>2
    <3> QED
      BY <1>1, <2>2, <2>3, <3>2, <3>3
  <2>5. ~ (d - r <= -1)
    <3> SUFFICES ASSUME d - r <= -1 PROVE FALSE
      OBVIOUS
    <3>1. r - d - 1 \in Nat
      BY <1>1, <2>2
    <3>2. (r - d - 1) * Cols \in Nat
      BY <1>1, <3>1
    <3>3. (d - r) * Cols = -((r - d - 1) * Cols) - Cols
      BY <1>1, <2>2
    <3> QED
      BY <1>1, <2>2, <2>3, <3>2, <3>3
  <2>6. d = r
    BY <1>1, <2>2, <2>4, <2>5
  <2>7. m = q
    BY <1>1, <2>2, <2>6
  <2> QED
    BY <2>6, <2>7 DEF d, m
<1> HIDE DEF n
<1>4. n + 1 \in 1 .. Rows * Cols /\ (n + 1) - 1 = n
  BY <1>1, <1>2, GridSize
<1>5. RowMajor[n + 1] = <<n \div Cols, n % Cols>>
  BY <1>4 DEF RowMajor
<1> QED
  BY <1>0, <1>3, <1>4, <1>5

\* What has been visited when the first n cells were scanned is some of the components, with
\* all their cells; the large ones are the clusters, each once.
ScanInv(frontier, n, acc) ==
    LET k == ClusterConnectivity
        list == acc.clusters
        Of(i) == ToSet(list[i].cells)
    IN  /\ acc.visited \subseteq frontier /\ Spread(frontier, k, acc.visited) = acc.visited
        /\ \A i \in 1 .. n : RowMajor[i] \in frontier => RowMajor[i] \in acc.visited
        /\ list \in Seq(ClusterRecs)
        /\ \A i \in 1 .. Len(list) :
              /\ Distinct(list[i].cells) /\ list[i].cells # << >>
              /\ Of(i) \in Regions(frontier, k) /\ Of(i) \subseteq acc.visited
              /\ MinClusterSize <= Len(list[i].cells)
              /\ list[i].rep = computeRepresentative(list[i].cells)
        /\ \A i, j \in 1 .. Len(list) : Of(i) = Of(j) => i = j
        /\ \A c \in acc.visited : LET all == Reachable(frontier, k, {c}) IN
              Cardinality(all) < MinClusterSize \/ \E i \in 1 .. Len(list) : Of(i) = all

\* The states of the scan.
Scans(frontier) == [visited : SUBSET frontier, clusters : Seq(ClusterRecs)]

\* One cell is scanned.
Visit(frontier, acc, cell) ==
    LET cells == bfsCluster(frontier, cell, acc.visited)
    IN  IF cell \in frontier \ acc.visited
        THEN [visited  |-> acc.visited \cup ToSet(cells),
              clusters |-> acc.clusters \o Cluster(cells)]
        ELSE acc

\* Nothing leaves what is left when nothing leaves a set.
LEMMA RestIsClosed ==
    ASSUME NEW src \in SUBSET Cells, NEW k, NEW S \in SUBSET src, Spread(src, k, S) = S
    PROVE  Spread(src, k, src \ S) = src \ S
<1>1. ASSUME NEW q \in src \ S, NEW x \in src, x \in Around(q, k) PROVE x \in src \ S
  <2>1. q \in Around(x, k)
    BY <1>1, AroundIsMutual
  <2> QED
    BY <1>1, <2>1 DEF Spread
<1> QED
  BY <1>1 DEF Spread

\* The cells are what is to be found from a cell that has not been visited.
Finds(frontier, visited, cell, cells) ==
    /\ cells \in Seq(Cells) /\ Distinct(cells) /\ cells # << >>
    /\ ToSet(cells) \subseteq frontier \ visited
    /\ Spread(frontier, ClusterConnectivity, visited) = visited =>
          ToSet(cells) = Reachable(frontier, ClusterConnectivity, {cell})

\* When nothing leaves what was visited, the search finds a component.
LEMMA SearchIs ==
    ASSUME NEW frontier, frontier \subseteq Cells, NEW visited, visited \subseteq frontier,
           NEW cell, cell \in frontier \ visited
    PROVE  Finds(frontier, visited, cell, bfsCluster(frontier, cell, visited))
<1> DEFINE cells == bfsCluster(frontier, cell, visited)
           open == frontier \ visited
           k == ClusterConnectivity
<1>1. cells \in Seq(Cells) /\ Distinct(cells) /\ ToSet(cells) = Reachable(open, k, {cell})
  BY SearchFindsReachable
<1>2. open \in SUBSET frontier /\ open \in SUBSET Cells /\ cell \in open
  OBVIOUS
<1>3. Spread(frontier, k, visited) = visited =>
         Reachable(open, k, {cell}) = Reachable(frontier, k, {cell})
  <2> SUFFICES ASSUME Spread(frontier, k, visited) = visited
               PROVE  Reachable(open, k, {cell}) = Reachable(frontier, k, {cell})
    OBVIOUS
  <2>1. Spread(frontier, k, open) = open
    BY RestIsClosed
  <2> HIDE DEF open
  <2> QED
    BY <1>2, <2>1, ReachableInPart
<1> HIDE DEF cells, open
<1>4. cell \in ToSet(cells) /\ ToSet(cells) \subseteq open
  <2>1. cell \in Reachable(open, k, {cell}) /\ Reachable(open, k, {cell}) \in SUBSET open
    BY <1>2, ReachableIsClosed
  <2> QED
    BY <1>1, <2>1
<1>5. cells # << >>
  BY <1>4 DEF ToSet
<1> QED
  BY <1>1, <1>3, <1>4, <1>5 DEF Finds, cells, open

\* Scanning a cell makes lists of clusters.
LEMMA VisitIs ==
    ASSUME NEW frontier \in SUBSET Cells, NEW acc \in Scans(frontier), NEW cell
    PROVE  Visit(frontier, acc, cell) \in Scans(frontier)
<1> DEFINE cells == bfsCluster(frontier, cell, acc.visited)
<1>1. acc.visited \in SUBSET frontier /\ acc.clusters \in Seq(ClusterRecs)
  BY DEF Scans
<1>2. CASE cell \in frontier \ acc.visited
  <2>1. cells \in Seq(Cells) /\ cells # << >> /\ ToSet(cells) \subseteq frontier
    <3>1. Finds(frontier, acc.visited, cell, cells)
      BY <1>1, <1>2, SearchIs
    <3> HIDE DEF cells
    <3> QED
      BY <1>1, <3>1 DEF Finds
  <2>2. Cluster(cells) \in Seq(ClusterRecs)
    BY <2>1, ClusterIs
  <2>3. Visit(frontier, acc, cell) = [visited |-> acc.visited \cup ToSet(cells),
                                      clusters |-> acc.clusters \o Cluster(cells)]
    BY <1>2 DEF Visit
  <2> HIDE DEF cells
  <2>4. acc.clusters \o Cluster(cells) \in Seq(ClusterRecs)
    BY <1>1, <2>2
  <2>5. acc.visited \cup ToSet(cells) \in SUBSET frontier
    BY <1>1, <2>1
  <2> QED
    BY <2>3, <2>4, <2>5 DEF Scans
<1>3. CASE cell \notin frontier \ acc.visited
  BY <1>3 DEF Visit
<1> QED
  BY <1>2, <1>3

\* Scanning a cell keeps the invariant.
LEMMA VisitScans ==
    ASSUME NEW frontier \in SUBSET Cells, NEW n \in Nat \ {0}, NEW acc,
           ScanInv(frontier, n - 1, acc)
    PROVE  ScanInv(frontier, n, Visit(frontier, acc, RowMajor[n]))
<1> DEFINE k == ClusterConnectivity
           cell == RowMajor[n]
           visited == acc.visited
           list == acc.clusters
           Of(i) == ToSet(list[i].cells)
           Comp(c) == Reachable(frontier, k, {c})
           cells == bfsCluster(frontier, cell, visited)
           new == Visit(frontier, acc, cell)
<1>1. /\ visited \subseteq frontier /\ Spread(frontier, k, visited) = visited
      /\ \A i \in 1 .. n - 1 : RowMajor[i] \in frontier => RowMajor[i] \in visited
      /\ list \in Seq(ClusterRecs)
      /\ \A i \in 1 .. Len(list) :
            /\ Distinct(list[i].cells) /\ list[i].cells # << >>
            /\ Of(i) \in Regions(frontier, k) /\ Of(i) \subseteq visited
            /\ MinClusterSize <= Len(list[i].cells)
            /\ list[i].rep = computeRepresentative(list[i].cells)
      /\ \A i, j \in 1 .. Len(list) : Of(i) = Of(j) => i = j
      /\ \A c \in visited : \/ Cardinality(Comp(c)) < MinClusterSize
                            \/ \E i \in 1 .. Len(list) : Of(i) = Comp(c)
  BY DEF ScanInv
<1>2. Len(list) \in Nat /\ \A i \in 1 .. n : i \in 1 .. n - 1 \/ i = n
  BY <1>1
<1>3. CASE cell \notin frontier \ visited
  <2>1. new = acc
    BY <1>3 DEF Visit
  <2>2. \A i \in 1 .. n : RowMajor[i] \in frontier => RowMajor[i] \in visited
    BY <1>1, <1>2, <1>3
  <2>3. ScanInv(frontier, n, acc)
    BY <2>2, ScanInv(frontier, n - 1, acc) DEF ScanInv
  <2> QED
    BY <2>1, <2>3
<1>4. CASE cell \in frontier \ visited
  <2>1. new = [visited |-> visited \cup ToSet(cells), clusters |-> list \o Cluster(cells)]
    BY <1>4 DEF Visit
  <2>2. /\ cells \in Seq(Cells) /\ Distinct(cells) /\ cells # << >>
        /\ ToSet(cells) \subseteq frontier \ visited /\ ToSet(cells) = Comp(cell)
    <3>1. Finds(frontier, visited, cell, cells)
      BY <1>1, <1>4, SearchIs
    <3> HIDE DEF cells
    <3> QED
      BY <1>1, <3>1 DEF Finds
  <2>3. cell \in Comp(cell) /\ Comp(cell) \subseteq frontier
        /\ Spread(frontier, k, Comp(cell)) = Comp(cell)
    BY <1>4, ReachableIsClosed
  <2>4. Comp(cell) \in Regions(frontier, k)
    BY <1>4 DEF Regions
  <2>5. \A c \in Comp(cell) : Comp(c) = Comp(cell)
    BY <1>4, ReachableIsShared
  <2>6. Cardinality(Comp(cell)) = Len(cells)
    BY <2>2, DistinctCounts
  <2>7. /\ Len(cells) < MinClusterSize => Cluster(cells) = << >>
        /\ ~ (Len(cells) < MinClusterSize) =>
              \E r \in ClusterRecs : /\ Cluster(cells) = <<r>> /\ r.cells = cells
                                     /\ r.rep = computeRepresentative(cells)
    BY <2>2, ClusterIs
  <2> DEFINE seen == visited \cup ToSet(cells)
             more == list \o Cluster(cells)
             With(i) == ToSet(more[i].cells)
  <2> HIDE DEF cells, Comp, visited, list, cell, new
  <2>8. new.visited = seen /\ new.clusters = more
    BY <2>1
  <2>9. seen \subseteq frontier /\ Spread(frontier, k, seen) = seen
    BY <1>1, <2>2, <2>3 DEF Spread
  <2>10. \A i \in 1 .. n : RowMajor[i] \in frontier => RowMajor[i] \in seen
    <3>1. RowMajor[n] \in seen
      BY <2>2, <2>3 DEF cell
    <3> QED
      BY <1>1, <1>2, <3>1
  <2>11. CASE Len(cells) < MinClusterSize
    <3>1. more = list
      BY <1>1, <1>2, <2>7, <2>11
    <3>2. \A c \in seen : \/ Cardinality(Comp(c)) < MinClusterSize
                          \/ \E i \in 1 .. Len(list) : Of(i) = Comp(c)
      BY <1>1, <2>2, <2>5, <2>6, <2>11
    <3>3. \A i \in 1 .. Len(list) : Of(i) \subseteq seen
      BY <1>1
    <3> HIDE DEF seen, more
    <3>4. ScanInv(frontier, n, new)
      BY <1>1, <2>8, <2>9, <2>10, <3>1, <3>2, <3>3 DEF ScanInv, Comp
    <3> QED
      BY <3>4 DEF new, cell
  <2>12. CASE ~ (Len(cells) < MinClusterSize)
    <3>1. PICK r \in ClusterRecs : /\ Cluster(cells) = <<r>> /\ r.cells = cells
                                   /\ r.rep = computeRepresentative(cells)
      BY <2>7, <2>12
    <3> DEFINE m == Len(list) + 1
    <3>2. /\ more \in Seq(ClusterRecs) /\ Len(more) = m /\ more[m] = r
          /\ \A i \in 1 .. Len(list) : more[i] = list[i]
      BY <1>1, <1>2, <3>1
    <3>3. \A i \in 1 .. m : i \in 1 .. Len(list) \/ i = m
      BY <1>1, <1>2
    <3>4. m \in 1 .. m /\ \A i \in 1 .. Len(list) : i \in 1 .. m
      BY <1>1, <1>2
    <3>5. With(m) = Comp(cell) /\ \A i \in 1 .. Len(list) : With(i) = Of(i)
      BY <2>2, <3>1, <3>2
    <3> HIDE DEF seen, more, m
    <3>6. MinClusterSize <= Len(cells)
      BY <2>2, <2>12, DetectorAssumption
    <3>7. ASSUME NEW i \in 1 .. m
          PROVE  /\ Distinct(more[i].cells) /\ more[i].cells # << >>
                 /\ With(i) \in Regions(frontier, k) /\ With(i) \subseteq seen
                 /\ MinClusterSize <= Len(more[i].cells)
                 /\ more[i].rep = computeRepresentative(more[i].cells)
      <4>1. CASE i \in 1 .. Len(list)
        BY <1>1, <3>2, <3>5, <4>1 DEF seen
      <4>2. CASE i = m
        BY <2>2, <2>4, <3>1, <3>2, <3>5, <3>6, <4>2 DEF seen
      <4> QED
        BY <3>3, <4>1, <4>2
    <3>8. \A i \in 1 .. Len(list) : With(i) # With(m)
      <4> SUFFICES ASSUME NEW i \in 1 .. Len(list), With(i) = With(m) PROVE FALSE
        OBVIOUS
      <4>1. cell \in Of(i) /\ Of(i) \subseteq visited
        BY <1>1, <2>3, <3>5
      <4> QED
        BY <1>4, <4>1 DEF cell, visited
    <3>9. ASSUME NEW i \in 1 .. m, NEW j \in 1 .. m, With(i) = With(j) PROVE i = j
      BY <1>1, <3>3, <3>5, <3>8, <3>9
    <3>10. ASSUME NEW c \in seen
           PROVE  \/ Cardinality(Comp(c)) < MinClusterSize
                  \/ \E i \in 1 .. m : With(i) = Comp(c)
      <4>1. CASE c \in visited
        BY <1>1, <3>4, <3>5, <4>1
      <4>2. CASE c \in ToSet(cells)
        BY <2>2, <2>5, <3>4, <3>5, <4>2
      <4> QED
        BY <4>1, <4>2 DEF seen
    <3>11. ScanInv(frontier, n, new)
      BY <2>8, <2>9, <2>10, <3>2, <3>7, <3>9, <3>10 DEF ScanInv, Comp
    <3> QED
      BY <3>11 DEF new, cell
  <2> QED
    BY <2>11, <2>12
<1> QED
  BY <1>3, <1>4

\* The scan of the whole grid.
LEMMA DetectScans ==
    ASSUME NEW grid
    PROVE  \E acc : /\ ScanInv(FrontierCells(grid), Rows * Cols, acc)
                    /\ detect(grid) = acc.clusters
<1> DEFINE frontier == FrontierCells(grid)
           size == Rows * Cols
           none == [visited |-> {}, clusters |-> << >>]
           Body(f, n) == IF n = 0 THEN none ELSE Visit(frontier, f[n - 1], RowMajor[n])
           F == CHOOSE f : f = [n \in 0 .. size |-> Body(f, n)]
           zero == 0
           V == Scans(frontier)
           step == [q \in (zero + 1 .. size) \X V |-> Visit(frontier, q[2], RowMajor[q[1]])]
<1>1. detect(grid) = F[size].clusters
  BY DEF detect, Visit
<1>2. size \in Nat /\ frontier \in SUBSET Cells
  BY GridSize DEF FrontierCells
<1> HIDE DEF size, frontier
<1>3. zero \in Nat /\ zero <= size /\ zero = 0
  BY <1>2
<1>4. none \in V /\ ScanInv(frontier, 0, none)
  <2>1. << >> \in Seq(ClusterRecs) /\ Len(<< >>) = 0
    OBVIOUS
  <2>2. none \in V
    BY <2>1 DEF Scans
  <2>3. none.visited = {} /\ none.clusters = << >>
    OBVIOUS
  <2>4. Spread(frontier, ClusterConnectivity, {}) = {}
    BY DEF Spread
  <2> HIDE DEF none
  <2>5. ScanInv(frontier, 0, none)
    BY <2>1, <2>3, <2>4 DEF ScanInv
  <2> QED
    BY <2>2, <2>5
<1> HIDE DEF none
<1>5. PICK g \in [zero .. size -> V] : Follows(g, zero, size, none, step)
  <2>1. step \in [(zero + 1 .. size) \X V -> V]
    BY <1>2, VisitIs
  <2> HIDE DEF step, zero, V
  <2> QED
    BY <1>2, <1>3, <1>4, <2>1, RecursionExists DEF V
<1>6. g = [n \in 0 .. size |-> Body(g, n)]
  <2>1. g[0] = none /\ g \in [0 .. size -> V]
    BY <1>5 DEF Follows
  <2>2. ASSUME NEW n \in 1 .. size PROVE g[n] = Visit(frontier, g[n - 1], RowMajor[n])
    <3> DEFINE v == g[n - 1]
    <3>1. n \in zero + 1 .. size /\ n - 1 \in 0 .. size /\ v \in V
      BY <1>2, <2>1
    <3>2. g[n] = step[<<n, v>>]
      BY <1>5, <3>1 DEF Follows
    <3> HIDE DEF v
    <3>3. step[<<n, v>>] = Visit(frontier, v, RowMajor[n])
      BY <3>1
    <3> QED
      BY <3>2, <3>3 DEF v
  <2>3. ASSUME NEW n \in 0 .. size PROVE g[n] = Body(g, n)
    <3>1. n = 0 \/ n \in 1 .. size
      BY <1>2
    <3> QED
      BY <2>1, <2>2, <3>1
  <2>4. g = [n \in 0 .. size |-> g[n]]
    BY <2>1
  <2> HIDE DEF Body
  <2> QED
    BY <2>3, <2>4
<1>7. F = [n \in 0 .. size |-> Body(F, n)]
  <2> HIDE DEF Body
  <2> QED
    BY <1>6
<1> HIDE DEF F
<1> DEFINE Q == {n \in 0 .. size : ScanInv(frontier, n, F[n])}
<1>8. 0 \in Q
  <2>1. F[0] = none /\ 0 \in 0 .. size
    BY <1>2, <1>7
  <2> QED
    BY <1>4, <2>1
<1>9. ASSUME NEW n \in 0 + 1 .. size, n - 1 \in Q PROVE n \in Q
  <2>1. n \in 0 .. size /\ n # 0 /\ n \in Nat \ {0}
    BY <1>2
  <2>2. F[n] = Visit(frontier, F[n - 1], RowMajor[n])
    BY <1>7, <2>1
  <2>3. ScanInv(frontier, n - 1, F[n - 1])
    BY <1>9
  <2>4. ScanInv(frontier, n, F[n])
    BY <1>2, <2>1, <2>2, <2>3, VisitScans
  <2> QED
    BY <2>1, <2>4
<1>10. ScanInv(frontier, size, F[size])
  <2>1. 0 .. size \subseteq Q
    <3> HIDE DEF Q
    <3> QED
      BY <1>2, <1>8, <1>9, Climb
  <2>2. size \in 0 .. size
    BY <1>2
  <2>3. size \in Q
    <3> HIDE DEF Q
    <3> QED
      BY <2>1, <2>2
  <2> QED
    BY <2>3
<1> QED
  BY <1>1, <1>10 DEF frontier, size

\* The clusters of a map are the connected components of its frontier cells that are large
\* enough, each once, and a representative is one of the cells nearest to the centroid (detect).
THEOREM DetectedAreComponents ==
    ASSUME NEW grid
    PROVE  Gathers(detect(grid),
                   {c \in Components(FrontierCells(grid), ClusterConnectivity) :
                       Cardinality(c) >= MinClusterSize})
<1> DEFINE frontier == FrontierCells(grid)
           k == ClusterConnectivity
           size == Rows * Cols
           large == {c \in Components(frontier, k) : Cardinality(c) >= MinClusterSize}
           list == detect(grid)
           Of(i) == ToSet(list[i].cells)
<1>1. PICK acc : ScanInv(frontier, size, acc) /\ list = acc.clusters
  BY DetectScans
<1>2. frontier \in SUBSET Cells /\ Components(frontier, k) = Regions(frontier, k)
  <2>1. frontier \in SUBSET Cells
    BY DEF FrontierCells
  <2>2. IsFiniteSet(frontier)
    BY <2>1, CellsFinite, FS_Subset
  <2> HIDE DEF frontier
  <2> QED
    BY <2>1, <2>2, ComponentsAreExact
<1> HIDE DEF frontier, list, size
<1>3. /\ list \in Seq(ClusterRecs)
      /\ \A i \in 1 .. Len(list) :
            /\ Distinct(list[i].cells) /\ list[i].cells # << >>
            /\ Of(i) \in Regions(frontier, k)
            /\ MinClusterSize <= Len(list[i].cells)
            /\ list[i].rep = computeRepresentative(list[i].cells)
      /\ \A i, j \in 1 .. Len(list) : Of(i) = Of(j) => i = j
  BY <1>1 DEF ScanInv
<1>4. \A c \in acc.visited : \/ Cardinality(Reachable(frontier, k, {c})) < MinClusterSize
                             \/ \E i \in 1 .. Len(list) : Of(i) = Reachable(frontier, k, {c})
  BY <1>1 DEF ScanInv
<1>5. \A i \in 1 .. size : RowMajor[i] \in frontier => RowMajor[i] \in acc.visited
  BY <1>1 DEF ScanInv
<1>6. frontier \subseteq acc.visited
  BY <1>2, <1>5, ScanIsComplete DEF size
<1>7. \A i \in 1 .. Len(list) : list[i].cells \in Seq(Cells)
  <2> SUFFICES ASSUME NEW i \in 1 .. Len(list) PROVE list[i].cells \in Seq(Cells)
    OBVIOUS
  <2>1. list[i] \in ClusterRecs
    BY <1>3
  <2> QED
    BY <2>1 DEF ClusterRecs
<1>8. Len(list) \in Nat /\ DOMAIN list = 1 .. Len(list)
  BY <1>3
<1>9. ASSUME NEW i \in 1 .. Len(list) PROVE Of(i) \in large
  <2>1. Cardinality(Of(i)) = Len(list[i].cells) /\ Len(list[i].cells) \in Nat
    BY <1>3, <1>7, DistinctCounts
  <2>2. Of(i) \in Components(frontier, k) /\ MinClusterSize <= Len(list[i].cells)
    BY <1>2, <1>3
  <2> HIDE DEF Of
  <2> QED
    BY <2>1, <2>2, DetectorAssumption
<1>10. ASSUME NEW c \in large PROVE \E i \in 1 .. Len(list) : Of(i) = c
  <2>1. c \in Regions(frontier, k) /\ Cardinality(c) >= MinClusterSize
    BY <1>2
  <2>2. PICK p \in frontier : c = Reachable(frontier, k, {p})
    BY <2>1 DEF Regions
  <2>3. ~ (Cardinality(c) < MinClusterSize)
    <3>1. IsFiniteSet(c)
      <4>1. c \subseteq Cells
        BY <1>2, <2>2 DEF Reachable
      <4> QED
        BY <4>1, CellsFinite, FS_Subset
    <3>2. Cardinality(c) \in Nat
      BY <3>1, FS_CardinalityType
    <3> QED
      BY <2>1, <3>2, DetectorAssumption
  <2> QED
    BY <1>4, <1>6, <2>2, <2>3
<1>11. {Of(i) : i \in DOMAIN list} = large
  <2> HIDE DEF Of, large
  <2> QED
    BY <1>8, <1>9, <1>10
<1>12. Len(list) = Cardinality(large)
  <2> DEFINE f == [i \in 1 .. Len(list) |-> Of(i)]
  <2>1. f \in [1 .. Len(list) -> large]
    BY <1>9
  <2>2. \A i, j \in 1 .. Len(list) : f[i] = f[j] => i = j
    BY <1>3
  <2>3. \A c \in large : \E i \in 1 .. Len(list) : f[i] = c
    BY <1>10
  <2> HIDE DEF f, large
  <2>4. f \in Bijection(1 .. Len(list), large)
    BY <2>1, <2>2, <2>3 DEF Bijection, Injection, Surjection, IsInjective
  <2>5. ExistsBijection(1 .. Len(list), large)
    BY <2>4 DEF ExistsBijection
  <2> QED
    BY <1>8, <2>5, FS_CountingElements
<1>13. ASSUME NEW i \in DOMAIN list, NEW p \in Of(i)
       PROVE  /\ list[i].rep \in Of(i)
              /\ CentroidDist2(list[i].cells, list[i].rep) <= CentroidDist2(list[i].cells, p)
  <2>1. list[i].cells \in Seq(Cells) /\ list[i].cells # << >>
        /\ list[i].rep = computeRepresentative(list[i].cells)
    BY <1>3, <1>7, <1>8
  <2> QED
    BY <2>1, RepresentativeIs
<1> HIDE DEF large
<1> QED
  BY <1>11, <1>12, <1>13 DEF Gathers, frontier, list, large

\* The clusters are the components of the map that is explored.
THEOREM ClustersStayComponents == MissionSpec => []ClustersAreComponents
<1>1. ClustersAreComponents
  BY DetectedAreComponents DEF ClustersAreComponents
<1> QED
  BY <1>1, PTL
=============================================================================
