--------------------------- MODULE CoverageTracker --------------------------
(***************************************************************************)
(* The visit counts of the cells (coverage_tracker.cpp).  Points are in    *)
(* half cells, so that the interpolation step, half a cell, is one unit;   *)
(* the samples of a segment are fractions, and distances to them are       *)
(* compared after multiplying by their denominator, which is exact.        *)
(***************************************************************************)
EXTENDS ScanlinePlanner

NoCounts == [c \in Cells |-> 0]

\* Variant of Steps: the discs just touch.
StepsTooLong(a, b) ==
    LET d == 2 * ToolRadius
    IN  CHOOSE n \in 1 .. 2 * (Rows + Cols) :
            d * d * n * n >= Dist2(a, b) /\ d * d * (n - 1) * (n - 1) < Dist2(a, b)

\* n = ceil(length / max_step), the steps of the segment from a to b.
Steps(a, b) == CHOOSE n \in 1 .. 2 * (Rows + Cols) :
                   n * n >= Dist2(a, b) /\ (n - 1) * (n - 1) < Dist2(a, b)

\* n times the i-th of the n + 1 samples, and n times the centre of the cell.
Sample(a, b, n, i) == <<(n - i) * a[1] + i * b[1], (n - i) * a[2] + i * b[2]>>
Scaled(n, p) == <<n * p[1], n * p[2]>>

\* The cells a disc marks whose centre is the point p / n, of those in a square around
\* the cell of that point; none when the point is off the map.
stampDisc(p, n) ==
    LET k == (ToolRadius + 1) \div 2
        row == p[1] \div (2 * n)  col == p[2] \div (2 * n)
    IN  IF <<row, col>> \notin Cells THEN {}
        ELSE {c \in (row - k .. row + k) \X (col - k .. col + k) :
                 /\ c[1] \in 0 .. Rows - 1 /\ c[2] \in 0 .. Cols - 1
                 /\ Dist2(p, Scaled(n, gridToWorld(c))) <= n * n * ToolRadius * ToolRadius}

SweptCells(a, b) ==
    IF a = b THEN stampDisc(a, 1)
    ELSE LET n == Steps(a, b) IN UNION {stampDisc(Sample(a, b, n, i), n) : i \in 0 .. n}

\* addSweepSegment and addSweptPath: the cells marked in one pass.  A path of one
\* point marks nothing.
SegmentPass(a, b) == SweptCells(a, b)
PathPass(path) == UNION {SweptCells(path[k], path[k + 1]) : k \in 1 .. Len(path) - 1}

\* commitPass.
commitPass(counts, marked) == [c \in Cells |-> counts[c] + (IF c \in marked THEN 1 ELSE 0)]

\* metrics: the cells of T \ E, and those of them that were visited.
Effective(masks) == masks.intended_target \ masks.exempt
Visited(counts, cells) == {c \in cells : counts[c] > 0}
=============================================================================
