---------------------------- MODULE GridGeometry ----------------------------
(***************************************************************************)
(* The grid every component works on (grid_geometry.cpp).  A cell is a     *)
(* pair <<row, col>>.  World points are pairs <<y, x>> of integers in      *)
(* units of half a cell, so that cell borders are even and cell centres    *)
(* odd; the origin is the corner of cell <<0, 0>> and there is no          *)
(* rotation, as in the maps the executor builds.                           *)
(***************************************************************************)
EXTENDS Integers, Sequences, FiniteSets, SequencesExt

CONSTANTS Rows, Cols             \* the size of the grid

ASSUME GridAssumption == Rows \in Nat \ {0} /\ Cols \in Nat \ {0}

Cells == (0 .. Rows - 1) \X (0 .. Cols - 1)

\* The order of the vectors that hold one entry per cell.
RowMajor == [i \in 1 .. Rows * Cols |-> <<(i - 1) \div Cols, (i - 1) % Cols>>]

gridToWorld(cell) == <<2 * cell[1] + 1, 2 * cell[2] + 1>>

onMap(p) == p[1] \in 0 .. 2 * Rows - 1 /\ p[2] \in 0 .. 2 * Cols - 1

worldToGridCell(p) == <<p[1] \div 2, p[2] \div 2>>

Shift(p, d) == <<p[1] + d[1], p[2] + d[2]>>

Dist2(p, q) == (p[1] - q[1]) * (p[1] - q[1]) + (p[2] - q[2]) * (p[2] - q[2])

\* The sums of the rows and of the columns of a set of cells.
CellSum(cells) ==
    LET Total(k, size) ==
            LET upTo[n \in 0 .. size] ==
                    IF n = 0 THEN 0
                    ELSE upTo[n - 1] + (n - 1) * Cardinality({c \in cells : c[k] = n - 1})
            IN  upTo[size]
    IN  <<Total(1, Rows), Total(2, Cols)>>

makeNeighbourhood(connectivity) ==
    IF connectivity = 4
    THEN << <<-1, 0>>, <<1, 0>>, <<0, -1>>, <<0, 1>> >>
    ELSE << <<-1, -1>>, <<-1, 0>>, <<-1, 1>>, <<0, -1>>, <<0, 1>>,
            <<1, -1>>, <<1, 0>>, <<1, 1>> >>

Around(p, connectivity) ==
    {Shift(p, d) : d \in ToSet(makeNeighbourhood(connectivity))} \cap Cells

\* The cells of src that can be reached from the seed, layer by layer.
connectedComponentFrom(src, seed, connectivity) ==
    LET spread[found \in SUBSET src] ==
            LET next == found \cup (src \cap UNION {Around(p, connectivity) : p \in found})
            IN  IF next = found THEN found ELSE spread[next]
    IN  spread[{seed} \cap src]

\* All components of src.
Components(src, connectivity) ==
    LET split[rest \in SUBSET src] ==
            IF rest = {} THEN {}
            ELSE LET found == connectedComponentFrom(rest, CHOOSE p \in rest : TRUE, connectivity)
                 IN  {found} \cup split[rest \ found]
    IN  split[src]
=============================================================================
