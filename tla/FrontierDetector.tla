-------------------------- MODULE FrontierDetector --------------------------
(***************************************************************************)
(* Frontier detection (frontier_detector.cpp): the free cells of an        *)
(* occupancy grid that touch an unknown cell, gathered into connected      *)
(* clusters by a breadth-first search, each with the cell of it that is    *)
(* nearest to its centroid.  A grid is a function from cells <<row, col>>  *)
(* to occupancy values; a world point is the cell it is the centre of.     *)
(***************************************************************************)
EXTENDS GridGeometry

CONSTANTS FrontierConnectivity,   \* 4 or 8: which neighbours make a frontier
          ClusterConnectivity,    \* 4 or 8: which cells belong together
          MinClusterSize, FreeThreshold

ASSUME DetectorAssumption ==
    /\ {FrontierConnectivity, ClusterConnectivity} \subseteq {4, 8}
    /\ MinClusterSize \in Nat /\ FreeThreshold \in Nat

\* A neighbour outside the grid is not an unknown one.
isFrontierCell(grid, p) ==
    /\ grid[p] \in 0 .. FreeThreshold
    /\ \E q \in Around(p, FrontierConnectivity) : grid[q] = -1

FrontierCells(grid) == {p \in Cells : isFrontierCell(grid, p)}

\* Variant of Near: the neighbours that make a frontier.
NearAtFrontier(p) ==
    LET around == makeNeighbourhood(FrontierConnectivity)
    IN  [i \in DOMAIN around |-> Shift(p, around[i])]

\* The neighbours of a cell in the order they are looked at.
Near(p) ==
    LET around == makeNeighbourhood(ClusterConnectivity)
    IN  [i \in DOMAIN around |-> Shift(p, around[i])]

\* The cells found once the neighbours of p have been looked at, one after the other.
LookAround(frontier, visited, found, p) ==
    LET near == Near(p)
        look[i \in 0 .. Len(near)] ==
            IF i = 0 THEN found
            ELSE LET known == look[i - 1]
                 IN  IF near[i] \in frontier \ (visited \cup ToSet(known))
                     THEN Append(known, near[i]) ELSE known
    IN  look[Len(near)]

\* The k-th turn takes the k-th cell found out of the queue, while there is one.
bfsCluster(frontier, start, visited) ==
    LET turn[k \in 0 .. Rows * Cols] ==
            IF k = 0 THEN <<start>>
            ELSE LET found == turn[k - 1]
                 IN  IF k > Len(found) THEN found
                     ELSE LookAround(frontier, visited, found, found[k])
    IN  turn[Rows * Cols]

SumOf(cells) == CellSum(ToSet(cells))

\* The squared distance of p to the centroid of the cells, times the square of
\* their number: it orders the points as the code's distance does.
CentroidDist2(cells, p) ==
    LET n == Len(cells)  s == SumOf(cells)
        dr == n * p[1] - s[1]  dc == n * p[2] - s[2]
    IN  dr * dr + dc * dc

\* The comparison is strict, so the first of the nearest cells is kept.
computeRepresentative(cells) ==
    LET n == CHOOSE n \in DOMAIN cells : \A k \in DOMAIN cells :
                \/ CentroidDist2(cells, cells[n]) < CentroidDist2(cells, cells[k])
                \/ CentroidDist2(cells, cells[n]) = CentroidDist2(cells, cells[k]) /\ n <= k
    IN  cells[n]

\* A cluster that is too small is dropped.
Cluster(cells) ==
    IF Len(cells) < MinClusterSize THEN << >>
    ELSE <<[cells |-> cells, sum |-> SumOf(cells), rep |-> computeRepresentative(cells)]>>

\* The grid is scanned row by row for cells that are in no cluster yet.
detect(grid) ==
    LET frontier == FrontierCells(grid)
        scan[k \in 0 .. Rows * Cols] ==
            IF k = 0 THEN [visited |-> {}, clusters |-> << >>]
            ELSE LET before == scan[k - 1]
                     cells  == bfsCluster(frontier, RowMajor[k], before.visited)
                 IN  IF RowMajor[k] \in frontier \ before.visited
                     THEN [visited  |-> before.visited \cup ToSet(cells),
                           clusters |-> before.clusters \o Cluster(cells)]
                     ELSE before
    IN  scan[Rows * Cols].clusters
=============================================================================
