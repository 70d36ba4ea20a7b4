--------------------------- MODULE ScanlinePlanner --------------------------
(***************************************************************************)
(* The rows that sweep a region (scanline_planner.cpp): lines along an     *)
(* axis, a WORK segment for each run of navigable cells on a line, and the *)
(* TRANSITION segments that join them; for a region of several cells of    *)
(* the decomposition, one such plan per cell, chained.                     *)
(***************************************************************************)
EXTENDS CleanableMap, BoustrophedonDecomposer

CONSTANTS Spacing,               \* spacingM, in half cells
          EndpointInset,         \* endpoint_inset_m, in half cells
          MinLength,             \* min_segment_length_m, in half cells
          MinLengthInCell        \* the bound of planMultiCell on it

ASSUME PlannerAssumption ==
    /\ Spacing \in 1 .. 2 * ToolRadius /\ EndpointInset \in Nat
    /\ MinLength \in Nat \ {0} /\ MinLengthInCell \in Nat \ {0}

\* The lines of a band lo .. hi, the last one anchored to the far edge.
rowOffsets(lo, hi) ==
    LET span  == hi - lo - 2 * ToolRadius
        lines == [k \in 1 .. span \div Spacing + 1 |-> lo + ToolRadius + (k - 1) * Spacing]
    IN  IF span < 0 THEN << >>
        ELSE IF span % Spacing = 0 THEN lines ELSE Append(lines, hi - ToolRadius)

\* A horizontal sweep moves along x, a vertical one along y.
Axes == {"horizontal", "vertical"}
OnAxis(axis, line, along) == IF axis = "horizontal" THEN <<line, along>> ELSE <<along, line>>
LineOf(axis, p) == IF axis = "horizontal" THEN p[1] ELSE p[2]

Segment(type, cell, start, end) == [type |-> type, cell |-> cell, start |-> start, end |-> end]

Transition(cell, start, end) == Segment("TRANSITION", cell, start, end)

\* Variant of RowEnds: the inset is added on both sides.
RowEndsOutside(run, forward) ==
    LET a == 2 * run[1] + 1 + EndpointInset  b == 2 * run[2] + 1 + EndpointInset
    IN  IF forward THEN <<a, b>> ELSE <<b, a>>

\* A run of navigable cells, from centre to centre less the inset.
RowEnds(run, forward) ==
    LET a == 2 * run[1] + 1 + EndpointInset  b == 2 * run[2] + 1 - EndpointInset
    IN  IF forward THEN <<a, b>> ELSE <<b, a>>

\* The runs of navigable cells on a line, in the direction of the sweep.
RunsOnLine(mask, axis, line, forward) ==
    LET runs == RunsOf({i \in 0 .. (IF axis = "horizontal" THEN Cols ELSE Rows) - 1 :
                           OnAxis(axis, line \div 2, i) \in mask})
    IN  IF forward THEN runs ELSE Reverse(runs)

RowAt(axis, line, ends) ==
    Segment("WORK", 1, OnAxis(axis, line, ends[1]), OnAxis(axis, line, ends[2]))

\* The rows on a line, less those that are too short.
RowsOnLine(masks, axis, line, forward, minLength) ==
    LET runs   == RunsOnLine(masks.navigable_center, axis, line, forward)
        Row(j) == RowAt(axis, line, RowEnds(runs[j], forward))
    IN  FlattenSeq([j \in DOMAIN runs |->
            IF Dist2(Row(j).start, Row(j).end) >= minLength * minLength THEN <<Row(j)>>
            ELSE << >>])

\* The rows one after the other, each reached by a transition from the one before.
emit(rows) ==
    FlattenSeq([n \in DOMAIN rows |->
        IF n = 1 THEN <<rows[n]>>
        ELSE <<Transition(rows[n].cell, rows[n - 1].end, rows[n].start), rows[n]>>])

\* The first and last of the lines that hold a cell of the mask.
FirstLine(mask, axis) ==
    LET c == CHOOSE c \in mask : \A d \in mask : LineOf(axis, c) <= LineOf(axis, d)
    IN  LineOf(axis, c)
LastLine(mask, axis) ==
    LET c == CHOOSE c \in mask : \A d \in mask : LineOf(axis, d) <= LineOf(axis, c)
    IN  LineOf(axis, c)

RowsAt(masks, axis, minLength, offsets) ==
    FlattenSeq([k \in DOMAIN offsets |->
                   RowsOnLine(masks, axis, offsets[k], k % 2 = 1, minLength)])

buildSweep(masks, axis, minLength) ==
    LET reach == masks.reachable_cleanable
    IN  IF reach = {} THEN << >>
        ELSE emit(RowsAt(masks, axis, minLength,
                         rowOffsets(2 * FirstLine(reach, axis), 2 * LastLine(reach, axis) + 2)))

\* Lengths in hundredths of half a cell, rounded down.
LengthOf == [d \in 0 .. 4 * (Rows * Rows + Cols * Cols) |->
                CHOOSE n \in 0 .. 200 * (Rows + Cols) :
                    n * n <= 10000 * d /\ 10000 * d < (n + 1) * (n + 1)]

PathLength(segments) ==
    FoldLeft(LAMBDA c, s : c + LengthOf[Dist2(s.start, s.end)], 0, segments)

WorkCount(segments) == Len(SelectSeq(segments, LAMBDA s : s.type = "WORK"))

\* The shorter sweep, then the one of fewer rows, then the horizontal one.
Preferred(h, v) ==
    IF v = << >> THEN h ELSE IF h = << >> THEN v
    ELSE IF PathLength(h) # PathLength(v)
         THEN IF PathLength(h) < PathLength(v) THEN h ELSE v
         ELSE IF WorkCount(h) <= WorkCount(v) THEN h ELSE v

plan(masks, minLength) ==
    Preferred(buildSweep(masks, "horizontal", minLength),
              buildSweep(masks, "vertical", minLength))

\* The masks of a plan for one cell of the decomposition.
CellMasks(masks, cell) == [m \in DOMAIN masks |-> masks[m] \cap cell]

\* The cell that holds the seed, itself given by its grid cell; else the first one.
EntryCell(cells, seed) ==
    LET holding == {i \in DOMAIN cells : seed \in cells[i].mask}
    IN  IF holding = {} THEN 1 ELSE CHOOSE i \in holding : TRUE

\* Variant of VisitOrder: in the order of their creation.
VisitInScanOrder(cells, seed) == [i \in DOMAIN cells |-> i]

VisitOrder(cells, seed) ==
    order([i \in DOMAIN cells |-> [j \in DOMAIN cells |->
              SquaredGap(cells[i].mask, cells[j].mask)]], EntryCell(cells, seed))

\* The segments one after the other, joined by a transition where there is a gap.
appendSegs(segments) ==
    FlattenSeq([n \in DOMAIN segments |->
        IF n = 1 \/ segments[n - 1].end = segments[n].start THEN <<segments[n]>>
        ELSE <<Transition(segments[n].cell, segments[n - 1].end, segments[n].start),
               segments[n]>>])

OfCell(i, segments) == [n \in DOMAIN segments |-> [segments[n] EXCEPT !.cell = i]]

\* The bound on the rows of a cell.
ShortInCell == IF MinLength < MinLengthInCell THEN MinLength ELSE MinLengthInCell

PlanCells(masks, cells, visits) ==
    appendSegs(FlattenSeq([n \in DOMAIN visits |->
        OfCell(visits[n], plan(CellMasks(masks, cells[visits[n]].mask), ShortInCell))]))

PlanRegion(masks, seed, cells) ==
    IF Len(cells) <= 1 THEN plan(masks, MinLength)
    ELSE PlanCells(masks, cells, VisitOrder(cells, seed))

planMultiCell(masks, seed) == PlanRegion(masks, seed, decompose(masks.reachable_cleanable))
=============================================================================
