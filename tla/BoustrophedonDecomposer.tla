----------------------- MODULE BoustrophedonDecomposer ----------------------
(***************************************************************************)
(* The decomposition of the cleanable region into bands of rows            *)
(* (boustrophedon_decomposer.cpp) and the order in which the cells are     *)
(* visited (segment_orderer.cpp).  Cells are numbered from 1.              *)
(***************************************************************************)
EXTENDS GridGeometry

\* The maximal runs <<first, last>> of a set of indices, in their order.
RunsOf(on) ==
    LET starts == {i \in on : i - 1 \notin on}
        Start(k) == CHOOSE i \in starts : Cardinality({s \in starts : s < i}) = k - 1
        Run(i) == <<i, CHOOSE j \in on : i <= j /\ i .. j \subseteq on /\ j + 1 \notin on>>
    IN  [k \in 1 .. Cardinality(starts) |-> Run(Start(k))]

rowRuns(mask, row) == RunsOf({col \in 0 .. Cols - 1 : <<row, col>> \in mask})

Overlap(a, b) == a[1] <= b[2] /\ b[1] <= a[2]

\* Variant of Continues: the split of the previous run is not looked for.
ContinuesOneWay(runs, prev, i, j) ==
    {n \in DOMAIN prev : Overlap(runs[i], prev[n].run)} = {j}

\* A run continues the cell of a previous run when they overlap each other alone.
Continues(runs, prev, i, j) ==
    /\ {n \in DOMAIN prev : Overlap(runs[i], prev[n].run)} = {j}
    /\ {n \in DOMAIN runs : Overlap(runs[n], prev[j].run)} = {i}

\* One row with its runs: acc.cells are the cells so far, acc.prev the runs of the row above
\* with the cells they belong to.
SweepRow(runs, acc, row) ==
    LET old      == Len(acc.cells)
        Kept(i)  == {j \in DOMAIN acc.prev : Continues(runs, acc.prev, i, j)}
        fresh    == {i \in DOMAIN runs : Kept(i) = {}}
        label    == [i \in DOMAIN runs |->
                        IF i \in fresh THEN old + Cardinality({n \in fresh : n <= i})
                        ELSE acc.prev[CHOOSE j \in Kept(i) : TRUE].label]
        Above(i) == {acc.prev[j].label : j \in {n \in DOMAIN acc.prev :
                                                    Overlap(runs[i], acc.prev[n].run)}}
        Strip(l) == UNION {{<<row, col>> : col \in runs[i][1] .. runs[i][2]} :
                              i \in {n \in DOMAIN runs : label[n] = l}}
        Before(l) == IF l <= old THEN acc.cells[l] ELSE [mask |-> {}, neighbors |-> {}]
        Met(l)   == (UNION {Above(i) : i \in {n \in fresh : label[n] = l}})
                      \cup {label[i] : i \in {n \in fresh : l \in Above(n)}}
    IN  [cells |-> [l \in 1 .. old + Cardinality(fresh) |->
                       [mask      |-> Before(l).mask \cup Strip(l),
                        neighbors |-> Before(l).neighbors \cup Met(l)]],
         prev  |-> [i \in DOMAIN runs |-> [run |-> runs[i], label |-> label[i]]]]

decompose(mask) ==
    LET rowsUpTo[k \in 0 .. Rows] ==
            IF k = 0 THEN [cells |-> << >>, prev |-> << >>]
            ELSE SweepRow(rowRuns(mask, k - 1), rowsUpTo[k - 1], k - 1)
    IN  rowsUpTo[Rows].cells

\* The squared distance of b's centroid from a's, as <<numerator, denominator>>, in a
\* unit that depends on a alone: distances from the same cell are compared only.
SquaredGap(a, b) ==
    LET m == Cardinality(a)  n == Cardinality(b)  s == CellSum(a)  t == CellSum(b)
    IN  <<Dist2(<<n * s[1], n * s[2]>>, <<m * t[1], m * t[2]>>), n * n>>

Less(x, y) ==
    \/ x[1] \div x[2] < y[1] \div y[2]
    \/ /\ x[1] \div x[2] = y[1] \div y[2]
       /\ (x[1] % x[2]) * y[2] < (y[1] % y[2]) * x[2]

\* SegmentOrderer::order: from the start always to the cheapest index not visited
\* yet, the smallest one of equals.  cost is a matrix of fractions.
Nearest(cost, cur, left) ==
    CHOOSE j \in left : \A k \in left \ {j} :
        \/ Less(cost[cur][j], cost[cur][k])
        \/ ~Less(cost[cur][k], cost[cur][j]) /\ j < k
order(cost, start) ==
    LET first[k \in DOMAIN cost] ==
            IF k = 1 THEN <<start>>
            ELSE LET done == first[k - 1]
                 IN  Append(done, Nearest(cost, done[k - 1], DOMAIN cost \ ToSet(done)))
    IN  first[Len(cost)]
=============================================================================
