----------------------------- MODULE PlanProofs -----------------------------
(***************************************************************************)
(* Proofs about the coverage plans, for every map and every place the      *)
(* robot may be in: a plan is a chain of segments, its rows go over        *)
(* navigable cells of their own cell of the decomposition, and it sweeps   *)
(* one of these cells after the other.  A row is a run of a line cut at    *)
(* both ends; a plan appends the rows of one line after the other, cell by *)
(* cell in the order of the visits.  From that follow what the goals of    *)
(* segments and the passes over the rows owe the task.                     *)
(***************************************************************************)
EXTENDS DecompositionProofs

-----------------------------------------------------------------------------
(* Rows *)

\* The half cells of a pair of numbers and between them.
LEMMA PairBounds ==
    ASSUME NEW a \in Int, NEW b \in Int
    PROVE  /\ a <= b => Least({a, b}) = a /\ Greatest({a, b}) = b
           /\ b <= a => Least({a, b}) = b /\ Greatest({a, b}) = a
<1>1. \A x \in {a, b} : x \in Int
  OBVIOUS
<1>2. ASSUME NEW x \in {a, b}, NEW y \in {a, b}, x <= y, {a, b} = {x, y}
      PROVE  Least({a, b}) = x /\ Greatest({a, b}) = y
  <2> DEFINE S == {a, b}
  <2>1. x \in S /\ \A z \in S : x <= z
    BY <1>1, <1>2
  <2>2. y \in S /\ \A z \in S : z <= y
    BY <1>1, <1>2
  <2>3. \A u \in S : (\A z \in S : u <= z) => u = x
    BY <1>1, <2>1
  <2>4. \A u \in S : (\A z \in S : z <= u) => u = y
    BY <1>1, <2>2
  <2> HIDE DEF S
  <2>5. Least(S) = x
    BY <2>1, <2>3 DEF Least
  <2>6. Greatest(S) = y
    BY <2>2, <2>4 DEF Greatest
  <2> QED
    BY <2>5, <2>6 DEF S
<1>3. {a, b} = {b, a}
  OBVIOUS
<1> QED
  BY <1>2, <1>3

\* A row that can be driven: straight, over navigable cells only, and the pose beside it
\* is on the map when the lines keep clear of its edge.
RowGood(nav, s) ==
    /\ Straight(s) /\ s.start # s.end
    /\ \A p \in Along(s) : worldToGridCell(p) \in nav
    /\ s.start # Round(s) /\ Round(s) # s.end /\ Round(s) \in Points
    /\ ToolRadius > 1 => onMap(Round(s))

\* The size of the grid along an axis and across it.
Size(axis) == IF axis = "horizontal" THEN Cols ELSE Rows

\* The number of lines along an axis.
Across(axis) == IF axis = "horizontal" THEN Rows ELSE Cols

\* The navigable cells under a line.
UnderLine(nav, axis, line) == {i \in 0 .. Size(axis) - 1 : OnAxis(axis, line \div 2, i) \in nav}

\* A line of the planner: inside the map, and further from its far edge the wider the tool.
LineOk(axis, line) == line \in Nat /\ line + ToolRadius <= 2 * Across(axis)

\* The numbers of a row: where it is not too short its ends are in the order of the sweep.
LEMMA RowNumbers ==
    ASSUME NEW r \in Nat, NEW t \in Nat, r <= t, NEW m \in Nat, NEW e \in Nat, 2 * e < m,
           NEW a, NEW b, a = 2 * r + 1 + e, b = 2 * t + 1 - e,
           (a - b) * (a - b) >= m * m
    PROVE  a \in Nat /\ b \in Nat /\ a < b /\ \A x \in a .. b : x \div 2 \in r .. t
<1>1. a \in Nat /\ b \in Int
  OBVIOUS
<1>2. a <= b
  <2> SUFFICES ASSUME b < a PROVE FALSE
    BY <1>1
  <2>1. a - b \in Nat /\ a - b <= 2 * e
    BY <1>1
  <2> DEFINE d == a - b
  <2>2. d \in Nat /\ d < m /\ d * d >= m * m
    BY <2>1
  <2> HIDE DEF d
  <2>3. m <= d
    BY <2>2, Squares
  <2> QED
    BY <2>2, <2>3
<1>3. a # b
  <2> SUFFICES ASSUME a = b PROVE FALSE
    OBVIOUS
  <2>1. (a - b) * (a - b) = 0
    BY <1>1
  <2>2. m > 0
    OBVIOUS
  <2>3. m * m > 0
    BY <2>2
  <2> QED
    BY <2>1, <2>3
<1>4. \A x \in a .. b : x \div 2 \in r .. t
  <2> SUFFICES ASSUME NEW x \in a .. b PROVE x \div 2 \in r .. t
    OBVIOUS
  <2>1. 2 * r + 1 <= x /\ x <= 2 * t + 1 /\ x \in Int
    BY <1>1
  <2> QED
    BY <2>1
<1>5. b \in Nat
  BY <1>1, <1>2
<1> QED
  BY <1>1, <1>2, <1>3, <1>4, <1>5

\* Where a row of a line from a to b goes.
RowGoes(axis, line, a, b, ends, s) ==
    /\ s.start = OnAxis(axis, line, ends[1]) /\ s.end = OnAxis(axis, line, ends[2])
    /\ Straight(s) /\ s.start # s.end
    /\ \A p \in Along(s) : \E x \in a .. b : p = OnAxis(axis, line, x)
    /\ \E x \in a + 1 .. b : Round(s) = OnAxis(axis, line + 1, x)

\* A row goes over the half cells between its ends, and the pose beside it is next to them.
LEMMA RowPlace ==
    ASSUME NEW axis \in Axes, NEW line \in Nat, NEW a \in Nat, NEW b \in Nat, a < b,
           NEW ends \in {<<a, b>>, <<b, a>>}
    PROVE  RowGoes(axis, line, a, b, ends, RowAt(axis, line, ends))
<1> DEFINE s == RowAt(axis, line, ends)
           x == ends[1]
           y == ends[2]
           mid == (x + y) \div 2 + 1
<1>1. /\ x \in Nat /\ y \in Nat /\ x # y
      /\ Least({x, y}) = a /\ Greatest({x, y}) = b
      /\ mid \in a + 1 .. b
  <2>1. CASE ends = <<a, b>>
    <3>1. x = a /\ y = b
      BY <2>1
    <3>2. (a + b) \div 2 + 1 \in a + 1 .. b
      OBVIOUS
    <3> HIDE DEF x, y
    <3> QED
      BY <3>1, <3>2, PairBounds
  <2>2. CASE ends = <<b, a>>
    <3>1. x = b /\ y = a
      BY <2>2
    <3>2. (b + a) \div 2 + 1 \in a + 1 .. b
      OBVIOUS
    <3> HIDE DEF x, y
    <3> QED
      BY <3>1, <3>2, PairBounds
  <2> QED
    BY <2>1, <2>2
<1>2. Least({line, line}) = line /\ Greatest({line, line}) = line
      /\ (line + line) \div 2 + 1 = line + 1
  BY PairBounds
<1>3. s.start = OnAxis(axis, line, x) /\ s.end = OnAxis(axis, line, y)
  BY DEF RowAt, Segment
<1> HIDE DEF s, x, y
<1>4. ASSUME axis = "horizontal" PROVE RowGoes(axis, line, a, b, ends, s)
  <2>1. s.start = <<line, x>> /\ s.end = <<line, y>>
    BY <1>3, <1>4 DEF OnAxis
  <2>2. /\ s.start[1] = line /\ s.start[2] = x /\ s.end[1] = line /\ s.end[2] = y
    BY <2>1
  <2>3. Straight(s) /\ s.start # s.end
    BY <1>1, <2>1, <2>2 DEF Straight
  <2>4. Along(s) = (line .. line) \X (a .. b)
    BY <1>1, <1>2, <2>2 DEF Along
  <2>5. ASSUME NEW p \in Along(s) PROVE \E u \in a .. b : p = OnAxis(axis, line, u)
    <3>1. p[2] \in a .. b /\ p = <<line, p[2]>>
      BY <2>4
    <3> QED
      BY <1>4, <3>1 DEF OnAxis
  <2>6. Round(s) = <<line + 1, mid>>
    BY <1>2, <2>2 DEF Round, Shift
  <2>7. Round(s) = OnAxis(axis, line + 1, mid)
    BY <1>4, <2>6 DEF OnAxis
  <2> HIDE DEF mid
  <2> QED
    BY <1>1, <1>3, <2>3, <2>5, <2>7 DEF x, y, RowGoes
<1>5. ASSUME axis = "vertical" PROVE RowGoes(axis, line, a, b, ends, s)
  <2>0. axis # "horizontal"
    BY <1>5
  <2>1. s.start = <<x, line>> /\ s.end = <<y, line>>
    BY <1>3, <2>0 DEF OnAxis
  <2>2. /\ s.start[1] = x /\ s.start[2] = line /\ s.end[1] = y /\ s.end[2] = line
    BY <2>1
  <2>3. Straight(s) /\ s.start # s.end
    BY <1>1, <2>1, <2>2 DEF Straight
  <2>4. Along(s) = (a .. b) \X (line .. line)
    BY <1>1, <1>2, <2>2 DEF Along
  <2>5. ASSUME NEW p \in Along(s) PROVE \E u \in a .. b : p = OnAxis(axis, line, u)
    <3>1. p[1] \in a .. b /\ p = <<p[1], line>>
      BY <2>4
    <3> QED
      BY <2>0, <3>1 DEF OnAxis
  <2>6. Round(s) = <<mid, line + 1>>
    BY <1>2, <2>2 DEF Round, Shift
  <2>7. Round(s) = OnAxis(axis, line + 1, mid)
    BY <2>0, <2>6 DEF OnAxis
  <2> HIDE DEF mid
  <2> QED
    BY <1>1, <1>3, <2>3, <2>5, <2>7 DEF x, y, RowGoes
<1>6. RowGoes(axis, line, a, b, ends, s)
  BY <1>4, <1>5 DEF Axes
<1> QED
  BY <1>6 DEF s

\* A row of the planner that is not too short can be driven.
LEMMA RowIsGood ==
    ASSUME NEW axis \in Axes, NEW nav, nav \subseteq Cells, NEW line, LineOk(axis, line),
           NEW run \in RunsIn(UnderLine(nav, axis, line)), NEW forward \in BOOLEAN,
           NEW m \in Nat, 2 * EndpointInset < m,
           LET s == RowAt(axis, line, RowEnds(run, forward)) IN Dist2(s.start, s.end) >= m * m
    PROVE  RowGood(nav, RowAt(axis, line, RowEnds(run, forward)))
<1> DEFINE ends == RowEnds(run, forward)
           s == RowAt(axis, line, ends)
           r == run[1]
           t == run[2]
           a == 2 * r + 1 + EndpointInset
           b == 2 * t + 1 - EndpointInset
<1>1. /\ line \in Nat /\ EndpointInset \in Nat /\ Size(axis) \in Nat /\ Across(axis) \in Nat
      /\ ToolRadius \in Nat
  BY GridAssumption, PlannerAssumption, RobotAssumption DEF LineOk, Size, Across
<1>2. UnderLine(nav, axis, line) \subseteq 0 .. Size(axis) - 1
  BY DEF UnderLine
<1>3. /\ r \in Nat /\ t \in Nat /\ r <= t /\ t <= Size(axis) - 1
      /\ r .. t \subseteq UnderLine(nav, axis, line)
  BY <1>1, <1>2 DEF RunsIn
<1>4. ends \in {<<a, b>>, <<b, a>>}
  BY DEF RowEnds
<1> HIDE DEF r, t
<1>5. a \in Int /\ b \in Int /\ ends[1] \in Int /\ ends[2] \in Int
      /\ (ends[1] - ends[2]) * (ends[1] - ends[2]) = (a - b) * (a - b)
  <2>1. a \in Int /\ b \in Int
    BY <1>1, <1>3
  <2> HIDE DEF a, b, ends
  <2>2. (a - b) * (a - b) = (b - a) * (b - a)
    BY <2>1
  <2>3. CASE ends = <<a, b>>
    BY <2>1, <2>3
  <2>4. CASE ends = <<b, a>>
    BY <2>1, <2>2, <2>4
  <2> QED
    BY <1>4, <2>1, <2>3, <2>4
<1>6. Dist2(s.start, s.end) = (a - b) * (a - b)
  <2> DEFINE x == ends[1]
             y == ends[2]
  <2>1. s.start = OnAxis(axis, line, x) /\ s.end = OnAxis(axis, line, y)
    BY DEF RowAt, Segment
  <2>2. x \in Int /\ y \in Int /\ (x - y) * (x - y) = (a - b) * (a - b)
    BY <1>5
  <2> HIDE DEF x, y, s, ends, a, b
  <2>3. line - line = 0 /\ x - y \in Int /\ (x - y) * (x - y) \in Int
    BY <1>1, <2>2
  <2>4. Dist2(s.start, s.end) = (x - y) * (x - y)
    <3>1. CASE axis = "horizontal"
      <4>1. s.start = <<line, x>> /\ s.end = <<line, y>>
        BY <2>1, <3>1 DEF OnAxis
      <4>2. Dist2(s.start, s.end) = (line - line) * (line - line) + (x - y) * (x - y)
        BY <4>1 DEF Dist2
      <4> QED
        BY <2>3, <4>2
    <3>2. CASE axis # "horizontal"
      <4>1. s.start = <<x, line>> /\ s.end = <<y, line>>
        BY <2>1, <3>2 DEF OnAxis
      <4>2. Dist2(s.start, s.end) = (x - y) * (x - y) + (line - line) * (line - line)
        BY <4>1 DEF Dist2
      <4> QED
        BY <2>3, <4>2
    <3> QED
      BY <3>1, <3>2
  <2> QED
    BY <2>2, <2>4
<1>7. a \in Nat /\ b \in Nat /\ a < b /\ \A x \in a .. b : x \div 2 \in r .. t
  <2>1. (a - b) * (a - b) >= m * m
    BY <1>6
  <2> QED
    BY <1>1, <1>3, <2>1, RowNumbers
<1>8. /\ Straight(s) /\ s.start # s.end
      /\ s.start = OnAxis(axis, line, ends[1]) /\ s.end = OnAxis(axis, line, ends[2])
      /\ \A p \in Along(s) : \E x \in a .. b : p = OnAxis(axis, line, x)
      /\ \E x \in a + 1 .. b : Round(s) = OnAxis(axis, line + 1, x)
  <2>1. RowGoes(axis, line, a, b, ends, s)
    <3> HIDE DEF a, b, ends
    <3> QED
      BY <1>1, <1>4, <1>7, RowPlace
  <2> HIDE DEF a, b, ends, s
  <2> QED
    BY <2>1 DEF RowGoes
<1>9. ASSUME NEW p \in Along(s) PROVE worldToGridCell(p) \in nav
  <2>1. PICK x \in a .. b : p = OnAxis(axis, line, x)
    BY <1>8
  <2>2. x \div 2 \in UnderLine(nav, axis, line)
    BY <1>3, <1>7, <2>1
  <2>3. OnAxis(axis, line \div 2, x \div 2) \in nav
    BY <2>2 DEF UnderLine
  <2>4. worldToGridCell(p) = OnAxis(axis, line \div 2, x \div 2)
    BY <2>1 DEF OnAxis, worldToGridCell
  <2> QED
    BY <2>3, <2>4
<1>10. PICK x \in a + 1 .. b : Round(s) = OnAxis(axis, line + 1, x)
  BY <1>8
<1>11. x \in Nat /\ x <= 2 * t + 1 /\ x <= 2 * Size(axis) - 1
  BY <1>1, <1>3, <1>7
<1>12. Round(s) \in Points
  BY <1>1, <1>10, <1>11 DEF OnAxis, Points
<1>13. s.start # Round(s) /\ Round(s) # s.end
  <2>1. line # line + 1
    BY <1>1
  <2> HIDE DEF s, ends
  <2> QED
    BY <1>8, <1>10, <2>1 DEF OnAxis
<1>14. ASSUME ToolRadius > 1 PROVE onMap(Round(s))
  <2>1. line + 1 <= 2 * Across(axis) - 1 /\ line + 1 \in Nat
    BY <1>1, <1>14 DEF LineOk
  <2>2. CASE axis = "horizontal"
    <3>1. Round(s) = <<line + 1, x>> /\ Size(axis) = Cols /\ Across(axis) = Rows
      BY <1>10, <2>2 DEF OnAxis, Size, Across
    <3> QED
      BY <1>1, <1>11, <2>1, <3>1 DEF onMap
  <2>3. CASE axis # "horizontal"
    <3>1. Round(s) = <<x, line + 1>> /\ Size(axis) = Rows /\ Across(axis) = Cols
      BY <1>10, <2>3 DEF OnAxis, Size, Across
    <3> QED
      BY <1>1, <1>11, <2>1, <3>1 DEF onMap
  <2> QED
    BY <2>2, <2>3
<1> HIDE DEF s
<1>15. RowGood(nav, s)
  BY <1>8, <1>9, <1>12, <1>13, <1>14 DEF RowGood
<1> QED
  BY <1>15 DEF s

\* The rows of a plan, and the ways between them.
GoodRows(nav) == {s \in Segments : s.type = "WORK" /\ (InsetIsSmall => RowGood(nav, s))}

\* The segments between rows.
Links == {s \in Segments : s.type = "TRANSITION"}

\* Lines in the map.
Lines(axis) == {line \in Nat : LineOk(axis, line)}

\* The rows on a line.
LEMMA RowsOnLineAre ==
    ASSUME NEW axis \in Axes, NEW masks, masks.navigable_center \subseteq Cells,
           NEW line \in Lines(axis), NEW forward \in BOOLEAN, NEW m \in Nat, ShortInCell <= m
    PROVE  RowsOnLine(masks, axis, line, forward, m) \in Seq(GoodRows(masks.navigable_center))
<1> DEFINE nav == masks.navigable_center
           on == UnderLine(nav, axis, line)
           runs == RunsOnLine(nav, axis, line, forward)
           Row(j) == RowAt(axis, line, RowEnds(runs[j], forward))
           Part(j) == IF Dist2(Row(j).start, Row(j).end) >= m * m THEN <<Row(j)>> ELSE << >>
           G == GoodRows(nav)
<1>1. LineOk(axis, line) /\ line \in Nat /\ EndpointInset \in Nat /\ Size(axis) \in Nat \ {0}
  BY GridAssumption, PlannerAssumption DEF Lines, Size
<1>2. runs \in Seq(RunsIn(on))
  <2>1. on \subseteq 0 .. Size(axis) - 1 /\ Size(axis) - 1 \in Nat
    BY <1>1 DEF UnderLine
  <2>2. RunsOf(on) \in Seq(RunsIn(on))
    <3> HIDE DEF on
    <3> QED
      BY <2>1, RunsAre
  <2>3. runs = IF forward THEN RunsOf(on) ELSE Reverse(RunsOf(on))
    BY DEF RunsOnLine, UnderLine, Size
  <2>4. ASSUME NEW T, NEW s \in Seq(T) PROVE Reverse(s) \in Seq(T)
    <3>1. \A i \in 1 .. Len(s) : (Len(s) - i) + 1 \in 1 .. Len(s)
      OBVIOUS
    <3>2. Reverse(s) \in [1 .. Len(s) -> T]
      BY <3>1 DEF Reverse
    <3> QED
      BY <3>2
  <2> HIDE DEF on, runs
  <2> QED
    BY <2>2, <2>3, <2>4
<1>3. on \subseteq Nat
  BY <1>1 DEF UnderLine
<1> HIDE DEF runs, on
<1>4. \A j \in DOMAIN runs : runs[j] \in RunsIn(on)
  BY <1>2
<1>5. ASSUME NEW j \in DOMAIN runs PROVE Row(j) \in Segments /\ Row(j).type = "WORK"
  <2> DEFINE ends == RowEnds(runs[j], forward)
  <2>1. runs[j][1] \in Nat /\ runs[j][2] \in Nat
    BY <1>3, <1>4 DEF RunsIn
  <2>2. ends[1] \in Int /\ ends[2] \in Int
    BY <1>1, <2>1 DEF RowEnds
  <2> HIDE DEF ends
  <2>3. OnAxis(axis, line, ends[1]) \in Points /\ OnAxis(axis, line, ends[2]) \in Points
    BY <1>1, <2>2 DEF OnAxis, Points
  <2> QED
    BY <2>3 DEF RowAt, Segment, Segments, ends
<1>6. ASSUME NEW j \in DOMAIN runs PROVE Part(j) \in Seq(G)
  <2>1. CASE Dist2(Row(j).start, Row(j).end) >= m * m
    <3> DEFINE run == runs[j]
    <3>1. ASSUME InsetIsSmall PROVE RowGood(nav, Row(j))
      <4>1. 2 * EndpointInset < m
        BY <1>1, <3>1, PlannerAssumption DEF InsetIsSmall, ShortInCell
      <4>2. run \in RunsIn(UnderLine(nav, axis, line))
        BY <1>4 DEF on
      <4>3. LET s == RowAt(axis, line, RowEnds(run, forward)) IN Dist2(s.start, s.end) >= m * m
        BY <2>1
      <4>4. nav \subseteq Cells
        OBVIOUS
      <4> HIDE DEF run, nav
      <4>5. RowGood(nav, RowAt(axis, line, RowEnds(run, forward)))
        BY <1>1, <4>1, <4>2, <4>3, <4>4, RowIsGood
      <4> QED
        BY <4>5 DEF run
    <3> HIDE DEF Row, nav, run
    <3>2. Row(j) \in G
      BY <1>5, <3>1 DEF GoodRows
    <3> QED
      BY <2>1, <3>2
  <2>2. CASE ~ (Dist2(Row(j).start, Row(j).end) >= m * m)
    <3> HIDE DEF Row, G
    <3> QED
      BY <2>2
  <2> QED
    BY <2>1, <2>2
<1>7. RowsOnLine(masks, axis, line, forward, m) = FlattenSeq([j \in DOMAIN runs |-> Part(j)])
  BY DEF RowsOnLine, runs
<1> HIDE DEF Part, G, nav
<1>8. [j \in DOMAIN runs |-> Part(j)] \in Seq(Seq(G))
  <2>1. DOMAIN runs = 1 .. Len(runs) /\ Len(runs) \in Nat
    BY <1>2
  <2>2. [j \in DOMAIN runs |-> Part(j)] \in [1 .. Len(runs) -> Seq(G)]
    BY <1>6, <2>1
  <2> QED
    BY <2>1, <2>2
<1>9. FlattenSeq([j \in DOMAIN runs |-> Part(j)]) \in Seq(G)
  BY <1>8, FlattenTyped
<1> QED
  BY <1>7, <1>9 DEF G, nav

\* The lines of a band that ends inside the map are lines in the map.
LEMMA OffsetsAre ==
    ASSUME NEW axis \in Axes, NEW lo \in Nat, NEW hi \in Nat, hi <= 2 * Across(axis)
    PROVE  rowOffsets(lo, hi) \in Seq(Lines(axis))
<1> DEFINE span == hi - lo - 2 * ToolRadius
           n == span \div Spacing + 1
           lines == [k \in 1 .. n |-> lo + ToolRadius + (k - 1) * Spacing]
           L == Lines(axis)
<1>1. ToolRadius \in Nat \ {0} /\ Spacing \in Nat \ {0} /\ Across(axis) \in Nat /\ span \in Int
  BY GridAssumption, RobotAssumption, PlannerAssumption DEF Across
<1>2. CASE span < 0
  <2>1. rowOffsets(lo, hi) = << >>
    BY <1>2 DEF rowOffsets
  <2> QED
    BY <2>1
<1>3. CASE ~ (span < 0)
  <2>1. span \in Nat
    BY <1>1, <1>3
  <2>2. span \div Spacing \in Nat /\ Spacing * (span \div Spacing) <= span
    <3> HIDE DEF span
    <3> QED
      BY <1>1, <2>1, Quotient
  <2>3. ASSUME NEW k \in 1 .. n PROVE lo + ToolRadius + (k - 1) * Spacing \in L
    <3> DEFINE q == span \div Spacing
    <3>1. q \in Nat /\ k \in Nat /\ k - 1 <= q /\ k - 1 \in Nat
      BY <2>2
    <3> HIDE DEF q
    <3>2. q - (k - 1) \in Nat /\ q = (k - 1) + (q - (k - 1))
      BY <3>1
    <3>3. \A u, v, w \in Nat : u * w <= (u + v) * w /\ u * w \in Nat
      <4>1. \A u, v, w \in Nat : (u + v) * w = u * w + v * w /\ u * w \in Nat /\ v * w \in Nat
        OBVIOUS
      <4> QED
        BY <4>1
    <3>4. (k - 1) * Spacing <= q * Spacing /\ (k - 1) * Spacing \in Nat
      BY <1>1, <3>1, <3>2, <3>3
    <3>5. q * Spacing = Spacing * q /\ q * Spacing \in Int
      BY <1>1, <3>1
    <3>6. (k - 1) * Spacing <= span
      BY <1>1, <2>2, <3>4, <3>5 DEF q
    <3> DEFINE d == (k - 1) * Spacing
    <3>7. d \in Nat /\ d <= hi - lo - 2 * ToolRadius
      BY <3>4, <3>6
    <3> HIDE DEF d
    <3>8. lo + ToolRadius + d \in L
      BY <1>1, <3>7 DEF Lines, LineOk
    <3> QED
      BY <3>8 DEF d
  <2>4. hi - ToolRadius \in L
    BY <1>1, <2>1 DEF Lines, LineOk
  <2>5. n \in Nat
    BY <2>2
  <2>6. lines \in Seq(L)
    <3> HIDE DEF n, L
    <3>1. lines \in [1 .. n -> L]
      BY <2>3
    <3> QED
      BY <2>5, <3>1
  <2>7. rowOffsets(lo, hi) \in {lines, Append(lines, hi - ToolRadius)}
    BY <1>3 DEF rowOffsets
  <2> HIDE DEF lines, L
  <2> QED
    BY <2>4, <2>6, <2>7 DEF L
<1> QED
  BY <1>2, <1>3

\* The rows on some lines.
LEMMA RowsAtAre ==
    ASSUME NEW axis \in Axes, NEW masks, masks.navigable_center \subseteq Cells,
           NEW offsets \in Seq(Lines(axis)), NEW m \in Nat, ShortInCell <= m
    PROVE  RowsAt(masks, axis, m, offsets) \in Seq(GoodRows(masks.navigable_center))
<1> DEFINE Part(k) == RowsOnLine(masks, axis, offsets[k], k % 2 = 1, m)
           G == GoodRows(masks.navigable_center)
<1>1. ASSUME NEW k \in DOMAIN offsets PROVE Part(k) \in Seq(G)
  <2> DEFINE line == offsets[k]
             forward == k % 2 = 1
  <2>1. line \in Lines(axis) /\ forward \in BOOLEAN
    OBVIOUS
  <2> HIDE DEF line, forward
  <2>2. RowsOnLine(masks, axis, line, forward, m) \in Seq(G)
    BY <2>1, RowsOnLineAre
  <2> QED
    BY <2>2 DEF line, forward
<1>2. RowsAt(masks, axis, m, offsets) = FlattenSeq([k \in DOMAIN offsets |-> Part(k)])
  BY DEF RowsAt
<1> HIDE DEF Part, G
<1>3. [k \in DOMAIN offsets |-> Part(k)] \in Seq(Seq(G))
  <2>1. DOMAIN offsets = 1 .. Len(offsets) /\ Len(offsets) \in Nat
    OBVIOUS
  <2>2. [k \in DOMAIN offsets |-> Part(k)] \in [1 .. Len(offsets) -> Seq(G)]
    BY <1>1, <2>1
  <2> QED
    BY <2>1, <2>2
<1>4. FlattenSeq([k \in DOMAIN offsets |-> Part(k)]) \in Seq(G)
  BY <1>3, FlattenTyped
<1> QED
  BY <1>2, <1>4 DEF G

-----------------------------------------------------------------------------
(* Sweeps *)

\* Each segment starts where the one before ends.
Joined(x) == \A i \in DOMAIN x \ {1} : x[i].start = x[i - 1].end

\* Joined sequences that meet are joined.
LEMMA JoinedOnward ==
    ASSUME NEW S, NEW x \in Seq(S), NEW z \in Seq(S), Len(x) > 0, Len(z) > 0,
           Joined(x), Joined(z), z[1].start = x[Len(x)].end
    PROVE  Joined(x \o z) /\ Len(x \o z) > 0 /\ (x \o z)[Len(x \o z)] = z[Len(z)]
<1> DEFINE y == x \o z
           n == Len(x)
           m == Len(z)
<1>1. n \in Nat /\ m \in Nat /\ n > 0 /\ m > 0 /\ Len(y) = n + m /\ DOMAIN y = 1 .. n + m
  OBVIOUS
<1>2. /\ \A i \in 1 .. n : y[i] = x[i]
      /\ \A i \in n + 1 .. n + m : y[i] = z[i - n]
  OBVIOUS
<1>3. DOMAIN x = 1 .. n /\ DOMAIN z = 1 .. m /\ z[1].start = x[n].end
  OBVIOUS
<1> HIDE DEF y, n, m
<1>4. ASSUME NEW i \in 2 .. n + m PROVE y[i].start = y[i - 1].end
  <2>1. CASE i \in 2 .. n
    <3>1. i \in 1 .. n /\ i - 1 \in 1 .. n /\ i \in DOMAIN x \ {1}
      BY <1>1, <1>3, <2>1
    <3> QED
      BY <1>2, <3>1 DEF Joined
  <2>2. CASE i = n + 1
    <3>1. i - 1 = n /\ i - n = 1 /\ n \in 1 .. n /\ i \in n + 1 .. n + m
      BY <1>1, <2>2
    <3> QED
      BY <1>2, <1>3, <3>1
  <2>3. CASE i \in n + 2 .. n + m
    <3>1. /\ i \in n + 1 .. n + m /\ i - 1 \in n + 1 .. n + m
          /\ i - n \in DOMAIN z \ {1} /\ (i - 1) - n = (i - n) - 1
      BY <1>1, <1>3, <2>3
    <3> QED
      BY <1>2, <3>1 DEF Joined
  <2> QED
    BY <1>1, <2>1, <2>2, <2>3
<1>5. Joined(y)
  BY <1>1, <1>4 DEF Joined
<1>6. Len(y) > 0 /\ y[Len(y)] = z[m]
  BY <1>1, <1>2
<1> QED
  BY <1>5, <1>6 DEF y, m

\* A way from one segment to another.
LEMMA LinkIs ==
    ASSUME NEW s \in Segments, NEW t \in Segments
    PROVE  /\ Transition(t.cell, s.end, t.start) \in Links
           /\ Transition(t.cell, s.end, t.start).start = s.end
           /\ Transition(t.cell, s.end, t.start).end = t.start
  BY DEF Transition, Segment, Segments, Links

\* Parts that are joined, each meeting the one before, make a joined whole.
LEMMA FlattenJoins ==
    ASSUME NEW S, NEW ss \in Seq(Seq(S)),
           \A i \in 1 .. Len(ss) : Len(ss[i]) > 0 /\ Joined(ss[i]),
           \A i \in 2 .. Len(ss) : ss[i][1].start = ss[i - 1][Len(ss[i - 1])].end
    PROVE  FlattenSeq(ss) \in Seq(S) /\ Joined(FlattenSeq(ss))
<1>1. FlattenSeq(ss) \in Seq(S)
  BY FlattenTyped
<1>2. CASE Len(ss) = 0
  <2>1. FlattenSeq(ss) = << >>
    BY <1>2 DEF FlattenSeq
  <2> QED
    BY <1>1, <2>1 DEF Joined
<1>3. CASE Len(ss) # 0
  <2> DEFINE P == {p \in Nat \X Seq(S) : /\ Len(p[2]) > 0 /\ Joined(p[2])
                                         /\ p[2][Len(p[2])] = ss[p[1]][Len(ss[p[1]])]}
  <2>0. Len(ss) \in Nat /\ \A i \in 1 .. Len(ss) : ss[i] \in Seq(S)
    OBVIOUS
  <2>1. <<1, ss[1]>> \in P
    <3> DEFINE x == ss[1]
               p == <<1, x>>
    <3>1. x \in Seq(S) /\ Len(x) > 0 /\ Joined(x)
      BY <1>3, <2>0
    <3>2. p[1] = 1 /\ p[2] = x
      OBVIOUS
    <3>3. p[2][Len(p[2])] = ss[p[1]][Len(ss[p[1]])]
      BY <3>2
    <3> HIDE DEF x
    <3>4. p \in Nat \X Seq(S) /\ Len(p[2]) > 0 /\ Joined(p[2])
      BY <3>1
    <3> QED
      BY <3>3, <3>4 DEF x
  <2>2. ASSUME NEW i \in 2 .. Len(ss), NEW x \in Seq(S), <<i - 1, x>> \in P
        PROVE  <<i, x \o ss[i]>> \in P
    <3> DEFINE z == ss[i]
    <3>1. i \in 1 .. Len(ss) /\ z \in Seq(S) /\ Len(z) > 0 /\ Joined(z)
      BY <2>0
    <3>2. Len(x) > 0 /\ Joined(x) /\ x[Len(x)] = ss[i - 1][Len(ss[i - 1])]
      BY <2>2
    <3>3. z[1].start = x[Len(x)].end
      BY <3>2
    <3> HIDE DEF z
    <3>4. Joined(x \o z) /\ Len(x \o z) > 0 /\ (x \o z)[Len(x \o z)] = z[Len(z)]
      BY <3>1, <3>2, <3>3, JoinedOnward
    <3>5. i \in Nat /\ x \o z \in Seq(S)
      BY <3>1
    <3>6. <<i, x \o z>> \in P
      BY <3>4, <3>5 DEF z
    <3> QED
      BY <3>6 DEF z
  <2>3. <<Len(ss), FlattenSeq(ss)>> \in P
    <3> HIDE DEF P
    <3> QED
      BY <1>3, <2>1, <2>2, FlattenInduction
  <2> QED
    BY <1>1, <2>3
<1> QED
  BY <1>2, <1>3

\* A row alone, or after a way to it.
LEMMA PartJoins ==
    ASSUME NEW S, NEW s \in S, NEW w \in S, w.end = s.start
    PROVE  /\ <<s>> \in Seq(S) /\ Len(<<s>>) = 1 /\ Joined(<<s>>) /\ <<s>>[1] = s
           /\ <<w, s>> \in Seq(S) /\ Len(<<w, s>>) = 2 /\ Joined(<<w, s>>)
           /\ <<w, s>>[1] = w /\ <<w, s>>[2] = s
<1>1. /\ <<s>> \in Seq(S) /\ Len(<<s>>) = 1 /\ <<s>>[1] = s /\ DOMAIN <<s>> = {1}
      /\ <<w, s>> \in Seq(S) /\ Len(<<w, s>>) = 2 /\ DOMAIN <<w, s>> = {1, 2}
      /\ <<w, s>>[1] = w /\ <<w, s>>[2] = s
  OBVIOUS
<1>2. Joined(<<s>>)
  BY <1>1 DEF Joined
<1>3. Joined(<<w, s>>)
  <2>1. \A i \in {1, 2} \ {1} : i = 2 /\ i - 1 = 1
    OBVIOUS
  <2> QED
    BY <1>1, <2>1 DEF Joined
<1> QED
  BY <1>1, <1>2, <1>3

\* Segments of which some are reached by a way from the one before, and the others start
\* where that one ends, are joined.
Reached(segments, alone) ==
    [n \in DOMAIN segments |->
        IF n = 1 \/ n \in alone THEN <<segments[n]>>
        ELSE <<Transition(segments[n].cell, segments[n - 1].end, segments[n].start),
               segments[n]>>]

\* The parts such a sequence is put together from.
LEMMA ReachedParts ==
    ASSUME NEW S, Links \subseteq S, S \subseteq Segments, NEW segments \in Seq(S), NEW alone,
           \A n \in alone \cap (2 .. Len(segments)) :
               segments[n].start = segments[n - 1].end
    PROVE  LET ss == Reached(segments, alone)
           IN  /\ ss \in Seq(Seq(S)) /\ Len(ss) = Len(segments)
               /\ \A n \in 1 .. Len(segments) :
                     /\ Len(ss[n]) > 0 /\ Joined(ss[n]) /\ ss[n][Len(ss[n])] = segments[n]
                     /\ n # 1 => ss[n][1].start = segments[n - 1].end
<1> DEFINE Way(n) == Transition(segments[n].cell, segments[n - 1].end, segments[n].start)
           ss == Reached(segments, alone)
           N == Len(segments)
<1>1. DOMAIN segments = 1 .. N /\ N \in Nat /\ \A n \in 1 .. N : segments[n] \in S
  OBVIOUS
<1>2. ASSUME NEW n \in 2 .. N
      PROVE  Way(n) \in S /\ Way(n).start = segments[n - 1].end /\ Way(n).end = segments[n].start
  <2>1. n \in 1 .. N /\ n - 1 \in 1 .. N
    BY <1>1
  <2>2. segments[n] \in Segments /\ segments[n - 1] \in Segments
    BY <1>1, <2>1
  <2> HIDE DEF N
  <2> QED
    BY <2>2, LinkIs
<1>3. DOMAIN ss = 1 .. N /\ \A n \in 1 .. N :
         ss[n] = IF n = 1 \/ n \in alone THEN <<segments[n]>> ELSE <<Way(n), segments[n]>>
  BY <1>1 DEF Reached
<1> HIDE DEF Way, ss, N
<1>4. ASSUME NEW n \in 1 .. N
      PROVE  /\ ss[n] \in Seq(S) /\ Len(ss[n]) > 0 /\ Joined(ss[n])
             /\ ss[n][Len(ss[n])] = segments[n]
             /\ n # 1 => ss[n][1].start = segments[n - 1].end
  <2>1. segments[n] \in S /\ segments[n] \in Segments
    BY <1>1
  <2>2. CASE n = 1 \/ n \in alone
    <3>1. ss[n] = <<segments[n]>>
      BY <1>3, <2>2
    <3> DEFINE t == segments[n]
               u == Transition(t.cell, t.end, t.start)
    <3>2. u \in S /\ u.end = t.start /\ t \in S
      BY <2>1, LinkIs
    <3> HIDE DEF t, u
    <3>3. <<t>> \in Seq(S) /\ Len(<<t>>) = 1 /\ Joined(<<t>>) /\ <<t>>[1] = t
      BY <3>2, PartJoins
    <3>4. n # 1 => n \in alone \cap (2 .. N)
      BY <1>1, <2>2
    <3>5. n # 1 => t.start = segments[n - 1].end
      BY <3>4 DEF N, t
    <3> QED
      BY <3>1, <3>3, <3>5 DEF t
  <2>3. CASE ~ (n = 1 \/ n \in alone)
    <3>1. ss[n] = <<Way(n), segments[n]>> /\ n \in 2 .. N
      BY <1>1, <1>3, <2>3
    <3> DEFINE t == segments[n]
               u == Way(n)
    <3>2. u \in S /\ u.end = t.start /\ u.start = segments[n - 1].end
      BY <1>2, <3>1
    <3> HIDE DEF t, u
    <3>3. /\ <<u, t>> \in Seq(S) /\ Len(<<u, t>>) = 2 /\ Joined(<<u, t>>)
          /\ <<u, t>>[1] = u /\ <<u, t>>[2] = t
      BY <2>1, <3>2, PartJoins DEF t
    <3> QED
      BY <3>1, <3>2, <3>3 DEF t, u
  <2> QED
    BY <2>2, <2>3
<1>5. ss \in Seq(Seq(S)) /\ Len(ss) = N
  <2>1. ss \in [1 .. N -> Seq(S)]
    <3>1. ss = [n \in 1 .. N |-> ss[n]]
      BY <1>1, <1>3 DEF ss, Reached
    <3> QED
      BY <1>4, <3>1
  <2> QED
    BY <1>1, <2>1
<1> QED
  BY <1>4, <1>5 DEF ss, N

\* So they are joined.
LEMMA ReachedJoins ==
    ASSUME NEW S, Links \subseteq S, S \subseteq Segments, NEW segments \in Seq(S), NEW alone,
           \A n \in alone \cap (2 .. Len(segments)) :
               segments[n].start = segments[n - 1].end
    PROVE  /\ FlattenSeq(Reached(segments, alone)) \in Seq(S)
           /\ Joined(FlattenSeq(Reached(segments, alone)))
<1> DEFINE ss == Reached(segments, alone)
           N == Len(segments)
<1>1. /\ ss \in Seq(Seq(S)) /\ Len(ss) = N
      /\ \A n \in 1 .. N :
            /\ Len(ss[n]) > 0 /\ Joined(ss[n]) /\ ss[n][Len(ss[n])] = segments[n]
            /\ n # 1 => ss[n][1].start = segments[n - 1].end
  BY ReachedParts
<1>2. N \in Nat
  OBVIOUS
<1> HIDE DEF ss, N
<1>3. ASSUME NEW i \in 2 .. N PROVE ss[i][1].start = ss[i - 1][Len(ss[i - 1])].end
  <2>1. i \in 1 .. N /\ i # 1 /\ i - 1 \in 1 .. N
    BY <1>2
  <2> QED
    BY <1>1, <2>1
<1>4. FlattenSeq(ss) \in Seq(S) /\ Joined(FlattenSeq(ss))
  BY <1>1, <1>3, FlattenJoins
<1> QED
  BY <1>4 DEF ss

\* Rows, each reached by a way from the one before, are joined.
LEMMA EmitJoins ==
    ASSUME NEW G, G \subseteq Segments, NEW rows \in Seq(G)
    PROVE  emit(rows) \in Seq(G \cup Links) /\ Joined(emit(rows))
<1> DEFINE S == G \cup Links
<1>1. Links \subseteq S /\ S \subseteq Segments /\ rows \in Seq(S)
  BY DEF Links, Segments
<1>2. emit(rows) = FlattenSeq(Reached(rows, {}))
  BY DEF emit, Reached
<1> HIDE DEF S
<1>3. /\ FlattenSeq(Reached(rows, {})) \in Seq(S)
      /\ Joined(FlattenSeq(Reached(rows, {})))
  BY <1>1, ReachedJoins
<1> QED
  BY <1>2, <1>3 DEF S

\* Segments put one after the other, with a way where there is a gap, are joined.
LEMMA AppendJoins ==
    ASSUME NEW S, Links \subseteq S, S \subseteq Segments, NEW segments \in Seq(S)
    PROVE  appendSegs(segments) \in Seq(S) /\ Joined(appendSegs(segments))
<1> DEFINE near == {n \in DOMAIN segments : segments[n - 1].end = segments[n].start}
<1>1. \A n \in near \cap (2 .. Len(segments)) : segments[n].start = segments[n - 1].end
  OBVIOUS
<1>2. \A n \in DOMAIN segments : n \in near <=> segments[n - 1].end = segments[n].start
  OBVIOUS
<1> HIDE DEF near
<1>3. appendSegs(segments) = FlattenSeq(Reached(segments, near))
  BY <1>2 DEF appendSegs, Reached
<1>4. /\ FlattenSeq(Reached(segments, near)) \in Seq(S)
      /\ Joined(FlattenSeq(Reached(segments, near)))
  BY <1>1, ReachedJoins
<1> QED
  BY <1>3, <1>4

\* The first and the last line of a mask are lines of the grid.
LEMMA LinesOf ==
    ASSUME NEW axis \in Axes, NEW mask, mask \subseteq Cells, mask # {}
    PROVE  /\ FirstLine(mask, axis) \in Nat /\ LastLine(mask, axis) \in Nat
           /\ LastLine(mask, axis) < Across(axis)
<1> DEFINE L == {LineOf(axis, c) : c \in mask}
<1>1. \A c \in mask : LineOf(axis, c) \in 0 .. Across(axis) - 1
  <2>1. ASSUME NEW c \in mask PROVE c[1] \in 0 .. Rows - 1 /\ c[2] \in 0 .. Cols - 1
    BY DEF Cells
  <2> QED
    BY <2>1 DEF LineOf, Across, Axes
<1>2. Across(axis) \in Nat \ {0} /\ Across(axis) - 1 \in Nat
  BY GridAssumption DEF Across
<1>3. L \subseteq 0 .. Across(axis) - 1 /\ L \subseteq Nat /\ L # {}
  BY <1>1
<1>4. PICK c \in mask : \A d \in mask : LineOf(axis, c) <= LineOf(axis, d)
  <2>1. Least(L) \in L /\ \A y \in L : Least(L) <= y
    <3> HIDE DEF L
    <3> QED
      BY <1>3, LeastIs
  <2> QED
    BY <2>1
<1>5. PICK e \in mask : \A d \in mask : LineOf(axis, d) <= LineOf(axis, e)
  <2>1. Greatest(L) \in L /\ \A y \in L : y <= Greatest(L)
    <3> HIDE DEF L
    <3> QED
      BY <1>2, <1>3, GreatestIs
  <2> QED
    BY <2>1
<1> HIDE DEF L
<1>6. \E x \in mask : FirstLine(mask, axis) = LineOf(axis, x)
  BY <1>4, Zenon DEF FirstLine
<1>7. \E x \in mask : LastLine(mask, axis) = LineOf(axis, x)
  BY <1>5, Zenon DEF LastLine
<1> QED
  BY <1>1, <1>2, <1>6, <1>7

\* The sweep of a region: rows, and ways between them.
LEMMA SweepIs ==
    ASSUME NEW axis \in Axes, NEW masks, masks.navigable_center \subseteq Cells,
           masks.reachable_cleanable \subseteq Cells, NEW m \in Nat, ShortInCell <= m
    PROVE  /\ buildSweep(masks, axis, m) \in Seq(GoodRows(masks.navigable_center) \cup Links)
           /\ Joined(buildSweep(masks, axis, m))
<1> DEFINE reach == masks.reachable_cleanable
           lo == 2 * FirstLine(reach, axis)
           hi == 2 * LastLine(reach, axis) + 2
           rows == RowsAt(masks, axis, m, rowOffsets(lo, hi))
           G == GoodRows(masks.navigable_center)
<1>1. CASE reach = {}
  <2>1. buildSweep(masks, axis, m) = << >>
    BY <1>1 DEF buildSweep
  <2> QED
    BY <2>1 DEF Joined
<1>2. CASE reach # {}
  <2>1. buildSweep(masks, axis, m) = emit(rows)
    BY <1>2 DEF buildSweep
  <2>2. lo \in Nat /\ hi \in Nat /\ hi <= 2 * Across(axis)
    <3>1. /\ FirstLine(reach, axis) \in Nat /\ LastLine(reach, axis) \in Nat
          /\ LastLine(reach, axis) < Across(axis)
      BY <1>2, LinesOf
    <3>2. Across(axis) \in Nat
      BY GridAssumption DEF Across
    <3> QED
      BY <3>1, <3>2
  <2> HIDE DEF lo, hi
  <2>3. rowOffsets(lo, hi) \in Seq(Lines(axis))
    BY <2>2, OffsetsAre
  <2>4. rows \in Seq(G)
    BY <2>3, RowsAtAre
  <2>5. G \subseteq Segments
    BY DEF GoodRows
  <2> HIDE DEF rows, G
  <2>6. emit(rows) \in Seq(G \cup Links) /\ Joined(emit(rows))
    BY <2>4, <2>5, EmitJoins
  <2> QED
    BY <2>1, <2>6 DEF G
<1> QED
  BY <1>1, <1>2

\* A plan of one region: good rows and links between them, joined.
LEMMA PlanIs ==
    ASSUME NEW masks, masks.navigable_center \subseteq Cells,
           masks.reachable_cleanable \subseteq Cells, NEW m \in Nat, ShortInCell <= m
    PROVE  /\ plan(masks, m) \in Seq(GoodRows(masks.navigable_center) \cup Links)
           /\ Joined(plan(masks, m))
<1> DEFINE h == buildSweep(masks, "horizontal", m)
           v == buildSweep(masks, "vertical", m)
<1>1. plan(masks, m) = h \/ plan(masks, m) = v
  <2> HIDE DEF h, v
  <2>1. Preferred(h, v) = h \/ Preferred(h, v) = v
    BY DEF Preferred
  <2> QED
    BY <2>1 DEF plan, h, v
<1>2. \A axis \in Axes :
        /\ buildSweep(masks, axis, m) \in Seq(GoodRows(masks.navigable_center) \cup Links)
        /\ Joined(buildSweep(masks, axis, m))
  BY SweepIs
<1> QED
  BY <1>1, <1>2 DEF Axes

-----------------------------------------------------------------------------
(* The order of the cells *)

\* Pairs that stand for fractions.
Fractions == Nat \X (Nat \ {0})

\* Fractions that are not more than each other in turn: first at most last.
LEMMA CrossProducts ==
    ASSUME NEW a \in Int, NEW b \in Int, NEW c \in Int,
           NEW p \in Nat \ {0}, NEW q \in Nat \ {0}, NEW r \in Nat \ {0},
           a * q <= b * p, b * r <= c * q
    PROVE  a * r <= c * p
<1>1. \A x, y \in Int, n \in Nat \ {0} : x <= y => n * x <= n * y
  <2> SUFFICES ASSUME NEW x \in Int, NEW y \in Int, NEW n \in Nat \ {0}, x <= y
               PROVE  n * x <= n * y
    OBVIOUS
  <2>1. PICK k \in Nat : y = x + k
    <3>1. y - x \in Nat /\ y = x + (y - x)
      OBVIOUS
    <3> QED
      BY <3>1
  <2>2. n * (x + k) = n * x + n * k /\ n * k \in Nat /\ n * x \in Int
    OBVIOUS
  <2> QED
    BY <2>1, <2>2
<1>2. a * q \in Int /\ b * p \in Int /\ b * r \in Int /\ c * q \in Int /\ a * r \in Int /\ c * p \in Int
  OBVIOUS
<1>3. r * (a * q) <= r * (b * p)
  BY <1>1, <1>2
<1>4. p * (b * r) <= p * (c * q)
  BY <1>1, <1>2
<1>5. r * (a * q) = q * (a * r) /\ r * (b * p) = p * (b * r) /\ p * (c * q) = q * (c * p)
  OBVIOUS
<1>6. r * (a * q) \in Int /\ r * (b * p) \in Int /\ p * (c * q) \in Int
  BY <1>2
<1>7. q * (a * r) <= q * (c * p)
  BY <1>3, <1>4, <1>5, <1>6
<1> QED
  BY <1>2, <1>7, Cancel

\* Less is a strict order of fractions in which what is not less can be chained.
LEMMA LessOrders ==
    /\ \A x, y \in Fractions : Less(x, y) => ~ Less(y, x)
    /\ \A x, y, z \in Fractions : ~ Less(y, x) /\ ~ Less(z, y) => ~ Less(z, x)
<1> DEFINE Q(x) == x[1] \div x[2]
           R(x) == x[1] % x[2]
           D(x) == x[2]
<1>1. \A x \in Fractions : Q(x) \in Int /\ R(x) \in Int /\ D(x) \in Nat \ {0}
  <2> SUFFICES ASSUME NEW x \in Fractions PROVE Q(x) \in Int /\ R(x) \in Int /\ D(x) \in Nat \ {0}
    OBVIOUS
  <2> DEFINE n == x[1]
             d == x[2]
  <2>1. n \in Nat /\ d \in Nat \ {0}
    BY DEF Fractions
  <2> HIDE DEF n, d
  <2>2. n \div d \in Int /\ n % d \in Int
    BY <2>1
  <2> QED
    BY <2>1, <2>2 DEF n, d
<1>2. \A x, y : Less(x, y) <=> Q(x) < Q(y) \/ (Q(x) = Q(y) /\ R(x) * D(y) < R(y) * D(x))
  BY DEF Less
<1> HIDE DEF Q, R, D
<1>3. ASSUME NEW x \in Fractions, NEW y \in Fractions, Less(x, y), Less(y, x) PROVE FALSE
  <2>1. R(x) * D(y) \in Int /\ R(y) * D(x) \in Int
    BY <1>1
  <2> QED
    BY <1>1, <1>2, <1>3, <2>1
<1>4. ASSUME NEW x \in Fractions, NEW y \in Fractions, NEW z \in Fractions,
             ~ Less(y, x), ~ Less(z, y), Less(z, x)
      PROVE  FALSE
  <2>1. /\ R(x) * D(y) \in Int /\ R(y) * D(x) \in Int /\ R(y) * D(z) \in Int
        /\ R(z) * D(y) \in Int /\ R(x) * D(z) \in Int /\ R(z) * D(x) \in Int
    BY <1>1
  <2>2. /\ Q(x) = Q(y) /\ Q(y) = Q(z)
        /\ R(x) * D(y) <= R(y) * D(x) /\ R(y) * D(z) <= R(z) * D(y)
        /\ R(z) * D(x) < R(x) * D(z)
    <3> DEFINE yx == R(y) * D(x)
               xy == R(x) * D(y)
               zy == R(z) * D(y)
               yz == R(y) * D(z)
               zx == R(z) * D(x)
               xz == R(x) * D(z)
    <3>1. /\ Less(y, x) <=> Q(y) < Q(x) \/ (Q(y) = Q(x) /\ yx < xy)
          /\ Less(z, y) <=> Q(z) < Q(y) \/ (Q(z) = Q(y) /\ zy < yz)
          /\ Less(z, x) <=> Q(z) < Q(x) \/ (Q(z) = Q(x) /\ zx < xz)
      BY <1>2
    <3>2. /\ yx \in Int /\ xy \in Int /\ zy \in Int /\ yz \in Int /\ zx \in Int /\ xz \in Int
          /\ Q(x) \in Int /\ Q(y) \in Int /\ Q(z) \in Int
      BY <1>1, <2>1
    <3> HIDE DEF yx, xy, zy, yz, zx, xz
    <3>3. Q(x) = Q(y) /\ Q(y) = Q(z) /\ xy <= yx /\ yz <= zy /\ zx < xz
      BY <1>4, <3>1, <3>2
    <3> QED
      BY <3>3 DEF yx, xy, zy, yz, zx, xz
  <2>3. R(x) * D(z) <= R(z) * D(x)
    <3> DEFINE a == R(x)
               b == R(y)
               c == R(z)
               p == D(x)
               q == D(y)
               r == D(z)
    <3>1. /\ a \in Int /\ b \in Int /\ c \in Int
          /\ p \in Nat \ {0} /\ q \in Nat \ {0} /\ r \in Nat \ {0}
      BY <1>1
    <3>2. a * q <= b * p /\ b * r <= c * q
      BY <2>2
    <3> HIDE DEF a, b, c, p, q, r
    <3>3. a * r <= c * p
      BY <3>1, <3>2, CrossProducts
    <3> QED
      BY <3>3 DEF a, c, p, r
  <2> QED
    BY <2>1, <2>2, <2>3
<1> QED
  BY <1>3, <1>4

\* Some index comes before all the others.
LEMMA NearestIsOneOf ==
    ASSUME NEW n \in Nat, NEW cost, NEW cur, \A k \in 1 .. n : cost[cur][k] \in Fractions,
           NEW left, left \subseteq 1 .. n, left # {}
    PROVE  Nearest(cost, cur, left) \in left
<1> DEFINE C(k) == cost[cur][k]
           Before(j, k) == Less(C(j), C(k)) \/ (~ Less(C(k), C(j)) /\ j < k)
           Part(m) == left \cap (1 .. m)
           First(m, j) == j \in Part(m) /\ \A k \in Part(m) \ {j} : Before(j, k)
           Q == {m \in 0 .. n : Part(m) = {} \/ \E j \in Part(m) : First(m, j)}
<1>0. \A k \in 1 .. n : C(k) \in Fractions
  OBVIOUS
<1> HIDE DEF C
<1>1. ASSUME NEW j \in 1 .. n, NEW k \in 1 .. n, j # k PROVE Before(j, k) \/ Before(k, j)
  BY <1>1
<1>2. ASSUME NEW i \in 1 .. n, NEW j \in 1 .. n, NEW k \in 1 .. n, Before(i, j), Before(j, k)
      PROVE  Before(i, k)
  <2>1. C(i) \in Fractions /\ C(j) \in Fractions /\ C(k) \in Fractions
    BY <1>0
  <2>2. ~ Less(C(j), C(i)) /\ ~ Less(C(k), C(j))
    BY <1>2, <2>1, LessOrders
  <2>3. ~ Less(C(k), C(i))
    BY <2>1, <2>2, LessOrders
  <2>4. CASE Less(C(i), C(j))
    <3>1. ~ ~ Less(C(i), C(k))
      BY <2>1, <2>2, <2>4, LessOrders
    <3> QED
      BY <3>1
  <2>5. CASE Less(C(j), C(k))
    <3>1. ~ ~ Less(C(i), C(k))
      BY <2>1, <2>2, <2>5, LessOrders
    <3> QED
      BY <3>1
  <2>6. CASE ~ Less(C(i), C(j)) /\ ~ Less(C(j), C(k))
    <3>1. i < j /\ j < k
      BY <1>2, <2>6
    <3> QED
      BY <2>3, <3>1
  <2> QED
    BY <2>4, <2>5, <2>6
<1> HIDE DEF Before
<1>3. 0 \in Q
  OBVIOUS
<1>4. ASSUME NEW m \in 0 + 1 .. n, m - 1 \in Q PROVE m \in Q
  <2>1. m \in Nat /\ m \in 1 .. n /\ m - 1 \in 0 .. n /\ m \notin 1 .. m - 1
    OBVIOUS
  <2>2. Part(m) = IF m \in left THEN Part(m - 1) \cup {m} ELSE Part(m - 1)
    <3>1. 1 .. m = (1 .. m - 1) \cup {m}
      BY <2>1
    <3> QED
      BY <3>1
  <2>3. m \notin Part(m - 1) /\ Part(m - 1) \subseteq 1 .. n
    BY <2>1
  <2>4. CASE m \notin left
    BY <1>4, <2>1, <2>2, <2>4
  <2>5. CASE m \in left /\ Part(m - 1) = {}
    <3>1. Part(m) = {m}
      BY <2>2, <2>5
    <3>2. First(m, m)
      BY <3>1
    <3> QED
      BY <2>1, <3>2
  <2>6. CASE m \in left /\ Part(m - 1) # {}
    <3>1. PICK j \in Part(m - 1) : First(m - 1, j)
      BY <1>4, <2>6
    <3>2. j \in 1 .. n /\ j # m /\ Part(m) = Part(m - 1) \cup {m}
      BY <2>2, <2>3, <2>6
    <3>3. CASE Before(j, m)
      <4>1. First(m, j)
        BY <3>1, <3>2, <3>3
      <4> QED
        BY <2>1, <4>1
    <3>4. CASE Before(m, j)
      <4>1. \A k \in Part(m) \ {m} : Before(m, k)
        BY <1>2, <2>1, <2>3, <3>1, <3>2, <3>4
      <4>2. m \in Part(m)
        BY <3>2
      <4> HIDE DEF Part
      <4>3. First(m, m)
        BY <4>1, <4>2
      <4> QED
        BY <2>1, <4>2, <4>3
    <3> QED
      BY <1>1, <2>1, <3>2, <3>3, <3>4
  <2> QED
    BY <2>4, <2>5, <2>6
<1>5. n \in Q
  <2>1. 0 .. n \subseteq Q
    <3> HIDE DEF Q
    <3> QED
      BY <1>3, <1>4, Climb
  <2> QED
    BY <2>1
<1>6. Part(n) = left
  OBVIOUS
<1>7. \E j \in left : \A k \in left \ {j} : Before(j, k)
  BY <1>5, <1>6
<1>8. \E j \in left : \A k \in left \ {j} :
          \/ Less(cost[cur][j], cost[cur][k])
          \/ ~ Less(cost[cur][k], cost[cur][j]) /\ j < k
  BY <1>7 DEF Before, C
<1> QED
  BY <1>8, Zenon DEF Nearest

\* One coordinate of CellSum.
SumUpTo(cells, k, size) ==
    LET upTo[n \in 0 .. size] ==
            IF n = 0 THEN 0
            ELSE upTo[n - 1] + (n - 1) * Cardinality({c \in cells : c[k] = n - 1})
    IN  upTo[size]

\* It is a natural number.
LEMMA SumIs ==
    ASSUME NEW cells, cells \subseteq Cells, NEW k, NEW size \in Nat
    PROVE  SumUpTo(cells, k, size) \in Nat
<1> DEFINE Count(n) == Cardinality({c \in cells : c[k] = n - 1})
           Body(f, n) == IF n = 0 THEN 0 ELSE f[n - 1] + (n - 1) * Count(n)
           F == CHOOSE f : f = [n \in 0 .. size |-> Body(f, n)]
           zero == 0
           step == [p \in (zero + 1 .. size) \X Nat |-> p[2] + (p[1] - 1) * Count(p[1])]
<1>1. SumUpTo(cells, k, size) = F[size]
  BY DEF SumUpTo
<1>2. \A n : Count(n) \in Nat
  <2> SUFFICES ASSUME NEW n PROVE Count(n) \in Nat
    OBVIOUS
  <2>1. IsFiniteSet({c \in cells : c[k] = n - 1})
    <3>1. {c \in cells : c[k] = n - 1} \subseteq Cells
      OBVIOUS
    <3> QED
      BY <3>1, CellsFinite, FS_Subset
  <2> QED
    BY <2>1, FS_CardinalityType
<1> HIDE DEF Count
<1>3. ASSUME NEW n \in 1 .. size, NEW v \in Nat PROVE v + (n - 1) * Count(n) \in Nat
  <2> DEFINE a == n - 1
             b == Count(n)
  <2>1. a \in Nat /\ b \in Nat
    BY <1>2
  <2> HIDE DEF a, b
  <2>2. v + a * b \in Nat
    BY <2>1
  <2> QED
    BY <2>2 DEF a, b
<1>4. zero \in Nat /\ zero <= size /\ zero = 0
  OBVIOUS
<1>5. PICK g \in [zero .. size -> Nat] : Follows(g, zero, size, zero, step)
  <2>1. step \in [(zero + 1 .. size) \X Nat -> Nat]
    BY <1>3
  <2> HIDE DEF step, zero
  <2> QED
    BY <1>4, <2>1, RecursionExists
<1>6. g = [n \in 0 .. size |-> Body(g, n)]
  <2>1. g[0] = 0 /\ g \in [0 .. size -> Nat]
    BY <1>5 DEF Follows
  <2>2. ASSUME NEW n \in 1 .. size PROVE g[n] = g[n - 1] + (n - 1) * Count(n)
    <3> DEFINE v == g[n - 1]
    <3>1. n \in zero + 1 .. size /\ n - 1 \in 0 .. size /\ v \in Nat
      BY <2>1
    <3>2. g[n] = step[<<n, v>>]
      BY <1>5, <3>1 DEF Follows
    <3> HIDE DEF v
    <3>3. step[<<n, v>>] = v + (n - 1) * Count(n)
      BY <3>1
    <3> QED
      BY <3>2, <3>3 DEF v
  <2>3. ASSUME NEW n \in 0 .. size PROVE g[n] = Body(g, n)
    <3>1. n = 0 \/ n \in 1 .. size
      OBVIOUS
    <3> QED
      BY <2>1, <2>2, <3>1
  <2>4. g = [n \in 0 .. size |-> g[n]]
    BY <2>1
  <2> HIDE DEF Body
  <2> QED
    BY <2>3, <2>4
<1>7. F = [n \in 0 .. size |-> Body(F, n)]
  <2> HIDE DEF Body
  <2> QED
    BY <1>6
<1> HIDE DEF F
<1> DEFINE Q == {n \in 0 .. size : F[n] \in Nat}
<1>8. 0 .. size \subseteq Q
  <2>1. 0 \in Q
    BY <1>7
  <2>2. ASSUME NEW n \in 0 + 1 .. size, n - 1 \in Q PROVE n \in Q
    <3> DEFINE v == F[n - 1]
    <3>1. n \in 1 .. size /\ n \in 0 .. size /\ n # 0 /\ v \in Nat
      BY <2>2
    <3>2. F[n] = v + (n - 1) * Count(n)
      BY <1>7, <3>1
    <3> HIDE DEF v
    <3> QED
      BY <1>3, <3>1, <3>2
  <2> HIDE DEF Q
  <2> QED
    BY <2>1, <2>2, Climb
<1> QED
  BY <1>1, <1>8

\* So the sums of a set of cells are.
LEMMA CellSumIs ==
    ASSUME NEW cells, cells \subseteq Cells
    PROVE  CellSum(cells) \in Nat \X Nat
<1>1. CellSum(cells) = <<SumUpTo(cells, 1, Rows), SumUpTo(cells, 2, Cols)>>
  BY DEF CellSum, SumUpTo
<1>2. SumUpTo(cells, 1, Rows) \in Nat /\ SumUpTo(cells, 2, Cols) \in Nat
  BY SumIs, GridAssumption
<1> QED
  BY <1>1, <1>2

\* The gaps between cells of the decomposition are fractions.
LEMMA GapIs ==
    ASSUME NEW a, NEW b, a \subseteq Cells, b \subseteq Cells, b # {}
    PROVE  SquaredGap(a, b) \in Fractions
<1> DEFINE m == Cardinality(a)
           n == Cardinality(b)
           s == CellSum(a)
           t == CellSum(b)
<1>1. m \in Nat /\ n \in Nat /\ n # 0
  <2>1. IsFiniteSet(a) /\ IsFiniteSet(b)
    BY CellsFinite, FS_Subset
  <2> QED
    BY <2>1, FS_CardinalityType, FS_EmptySet
<1>2. s[1] \in Nat /\ s[2] \in Nat /\ t[1] \in Nat /\ t[2] \in Nat
  <2>1. s \in Nat \X Nat /\ t \in Nat \X Nat
    BY CellSumIs
  <2> HIDE DEF s, t
  <2> QED
    BY <2>1
<1>3. SquaredGap(a, b)
        = <<Dist2(<<n * s[1], n * s[2]>>, <<m * t[1], m * t[2]>>), n * n>>
  BY DEF SquaredGap
<1> HIDE DEF m, n, s, t
<1> DEFINE x == n * s[1] - m * t[1]
           y == n * s[2] - m * t[2]
<1>4. x \in Int /\ y \in Int
  BY <1>1, <1>2
<1>5. Dist2(<<n * s[1], n * s[2]>>, <<m * t[1], m * t[2]>>) = x * x + y * y
  BY DEF Dist2
<1> HIDE DEF x, y
<1>6. x * x + y * y \in Nat
  <2>1. x * x \in Nat /\ y * y \in Nat
    BY <1>4, Squares
  <2> QED
    BY <2>1
<1>7. n * n \in Nat \ {0}
  <2>1. \A u \in Nat \ {0} : u * u \in Nat \ {0}
    OBVIOUS
  <2> QED
    BY <1>1, <2>1
<1> QED
  BY <1>3, <1>5, <1>6, <1>7 DEF Fractions

\* The first k visits: k different cells, from the start on.
VisitsSome(n, start, k, v) ==
    /\ v \in Seq(1 .. n) /\ Len(v) = k /\ v[1] = start
    /\ \A i, j \in 1 .. k : v[i] = v[j] => i = j

\* As long as not all cells are visited some cell is left.
LEMMA SomeLeft ==
    ASSUME NEW n \in Nat, NEW k \in Nat, k < n, NEW v \in Seq(1 .. n), Len(v) = k
    PROVE  (1 .. n) \ ToSet(v) # {}
<1> SUFFICES ASSUME 1 .. n \subseteq ToSet(v) PROVE FALSE
  OBVIOUS
<1> DEFINE w == [x \in 1 .. n |-> CHOOSE i \in 1 .. k : v[i] = x]
<1>1. \A x \in 1 .. n : \E i \in 1 .. k : v[i] = x
  <2>1. DOMAIN v = 1 .. k
    OBVIOUS
  <2>2. \A x \in ToSet(v) : \E i \in 1 .. k : v[i] = x
    BY <2>1 DEF ToSet
  <2> QED
    BY <2>2
<1>2. w \in [1 .. n -> 1 .. k] /\ \A x \in 1 .. n : v[w[x]] = x
  BY <1>1
<1> HIDE DEF w
<1>3. /\ IsFiniteSet(1 .. n) /\ Cardinality(1 .. n) = n
      /\ IsFiniteSet(1 .. k) /\ Cardinality(1 .. k) = k
  <2>1. 1 \in Int /\ n \in Int /\ k \in Int
    OBVIOUS
  <2>2. IsFiniteSet(1 .. n) /\ IsFiniteSet(1 .. k)
    BY <2>1, FS_Interval
  <2>3. /\ Cardinality(1 .. n) = (IF 1 > n THEN 0 ELSE n - 1 + 1)
        /\ Cardinality(1 .. k) = (IF 1 > k THEN 0 ELSE k - 1 + 1)
    BY <2>1, FS_Interval
  <2> QED
    BY <2>2, <2>3
<1>4. \E x, y \in 1 .. n : x # y /\ w[x] = w[y]
  <2>1. Cardinality(1 .. n) > Cardinality(1 .. k)
    BY <1>3
  <2>2. w \in [1 .. n -> 1 .. k]
    BY <1>2
  <2> QED
    BY <1>3, <2>1, <2>2, FS_PigeonHole
<1> QED
  BY <1>2, <1>4

\* One more visit.
LEMMA VisitsOneMore ==
    ASSUME NEW n \in Nat, NEW start \in 1 .. n, NEW k \in 1 .. n - 1, NEW v,
           VisitsSome(n, start, k, v), NEW x \in (1 .. n) \ ToSet(v)
    PROVE  VisitsSome(n, start, k + 1, Append(v, x))
<1>1. /\ v \in Seq(1 .. n) /\ Len(v) = k /\ DOMAIN v = 1 .. k /\ k \in Nat /\ x \in 1 .. n
      /\ v[1] = start /\ \A i, j \in 1 .. k : v[i] = v[j] => i = j
  BY DEF VisitsSome
<1> DEFINE y == Append(v, x)
<1>2. y \in Seq(1 .. n) /\ Len(y) = k + 1 /\ y[k + 1] = x /\ \A i \in 1 .. k : y[i] = v[i]
  BY <1>1
<1>3. \A i \in 1 .. k : v[i] # x
  BY <1>1 DEF ToSet
<1> HIDE DEF y
<1>4. \A i \in 1 .. k + 1 : i \in 1 .. k \/ i = k + 1
  BY <1>1
<1>5. \A i, j \in 1 .. k + 1 : y[i] = y[j] => i = j
  BY <1>1, <1>2, <1>3, <1>4
<1>6. y[1] = start
  BY <1>1, <1>2
<1> QED
  BY <1>2, <1>5, <1>6 DEF VisitsSome, y

\* All cells are visited, each once.
LEMMA OrderIs ==
    ASSUME NEW n \in Nat \ {0}, NEW S, NEW cost \in Seq(S), Len(cost) = n, NEW start \in 1 .. n,
           \A i, j \in 1 .. n : cost[i][j] \in Fractions
    PROVE  VisitsSome(n, start, n, order(cost, start))
<1> DEFINE More(v, k) == Append(v, Nearest(cost, v[k - 1], DOMAIN cost \ ToSet(v)))
           Body(f, k) == IF k = 1 THEN <<start>> ELSE More(f[k - 1], k)
           F == CHOOSE f : f = [k \in DOMAIN cost |-> Body(f, k)]
           V == Seq(1 .. n)
           one == 1
           step == [p \in (one + 1 .. n) \X V |->
                       IF VisitsSome(n, start, p[1] - 1, p[2]) THEN More(p[2], p[1]) ELSE p[2]]
<1>1. order(cost, start) = F[n]
  BY DEF order
<1>2. one \in Nat /\ one <= n /\ one = 1 /\ n \in Nat /\ DOMAIN cost = 1 .. n
  OBVIOUS
<1>3. ASSUME NEW k \in 2 .. n, NEW v, VisitsSome(n, start, k - 1, v)
      PROVE  VisitsSome(n, start, k, More(v, k)) /\ More(v, k) \in V
  <2> DEFINE cur == v[k - 1]
             left == (1 .. n) \ ToSet(v)
             x == Nearest(cost, cur, left)
  <2>1. v \in Seq(1 .. n) /\ Len(v) = k - 1 /\ k - 1 \in 1 .. n - 1
    BY <1>3 DEF VisitsSome
  <2>2. cur \in 1 .. n
    BY <2>1
  <2>3. left # {} /\ left \subseteq 1 .. n
    <3>1. k - 1 < n /\ k - 1 \in Nat
      OBVIOUS
    <3> QED
      BY <2>1, <3>1, SomeLeft
  <2>4. More(v, k) = Append(v, x)
    BY <1>2
  <2> HIDE DEF cur, left
  <2>5. \A j \in 1 .. n : cost[cur][j] \in Fractions
    BY <2>2
  <2>6. x \in left
    BY <2>3, <2>5, NearestIsOneOf
  <2> HIDE DEF x
  <2>7. VisitsSome(n, start, (k - 1) + 1, Append(v, x))
    BY <1>3, <2>1, <2>6, VisitsOneMore DEF left
  <2>8. (k - 1) + 1 = k
    OBVIOUS
  <2> HIDE DEF More
  <2> QED
    BY <2>4, <2>7, <2>8 DEF VisitsSome
<1> HIDE DEF More
<1>4. VisitsSome(n, start, 1, <<start>>)
  BY DEF VisitsSome
<1>5. PICK g \in [one .. n -> V] : Follows(g, one, n, <<start>>, step)
  <2>1. step \in [(one + 1 .. n) \X V -> V]
    <3> SUFFICES ASSUME NEW k \in one + 1 .. n, NEW v \in V
                 PROVE  (IF VisitsSome(n, start, k - 1, v) THEN More(v, k) ELSE v) \in V
      OBVIOUS
    <3>1. k \in 2 .. n
      BY <1>2
    <3> HIDE DEF V
    <3> QED
      BY <1>3, <3>1
  <2>2. <<start>> \in V
    OBVIOUS
  <2> HIDE DEF step, one, V
  <2> QED
    BY <1>2, <2>1, <2>2, RecursionExists
<1> HIDE DEF V
<1>6. ASSUME NEW k \in 2 .. n, VisitsSome(n, start, k - 1, g[k - 1])
      PROVE  g[k] = More(g[k - 1], k) /\ VisitsSome(n, start, k, g[k])
  <2> DEFINE h == g[k - 1]
  <2>1. k \in one + 1 .. n /\ k - 1 \in one .. n /\ h \in V
    BY <1>2
  <2>2. g[k] = step[<<k, h>>]
    BY <1>5, <2>1 DEF Follows
  <2>3. VisitsSome(n, start, k - 1, h)
    BY <1>6
  <2> HIDE DEF h, one
  <2>4. step[<<k, h>>] = More(h, k)
    BY <2>1, <2>3
  <2>5. VisitsSome(n, start, k, More(h, k))
    BY <1>3, <2>3
  <2> QED
    BY <2>2, <2>4, <2>5 DEF h
<1>7. g[1] = <<start>>
  BY <1>5 DEF Follows
<1> HIDE DEF step
<1> DEFINE Q == {k \in 1 .. n : VisitsSome(n, start, k, g[k])}
<1>8. 1 .. n \subseteq Q
  <2>1. 1 \in Q
    BY <1>2, <1>4, <1>7
  <2>2. \A k \in 1 + 1 .. n : k - 1 \in Q => k \in Q
    BY <1>2, <1>6
  <2> HIDE DEF Q
  <2> QED
    BY <1>2, <2>1, <2>2, Climb
<1>9. g = [k \in DOMAIN cost |-> Body(g, k)]
  <2>1. ASSUME NEW k \in 1 .. n PROVE g[k] = Body(g, k)
    <3>1. CASE k = 1
      BY <1>7, <3>1
    <3>2. CASE k # 1
      <4>1. k \in 2 .. n /\ k - 1 \in 1 .. n
        BY <1>2, <3>2
      <4> QED
        BY <1>6, <1>8, <3>2, <4>1
    <3> QED
      BY <3>1, <3>2
  <2>2. g = [k \in 1 .. n |-> g[k]]
    BY <1>5
  <2> HIDE DEF Body
  <2> QED
    BY <1>2, <2>1, <2>2
<1>10. F = [k \in 1 .. n |-> Body(F, k)]
  <2> HIDE DEF Body
  <2> QED
    BY <1>2, <1>9
<1> HIDE DEF F
<1> DEFINE R == {k \in 1 .. n : VisitsSome(n, start, k, F[k])}
<1>11. 1 .. n \subseteq R
  <2>1. 1 \in R
    BY <1>2, <1>4, <1>10
  <2>2. ASSUME NEW k \in 1 + 1 .. n, k - 1 \in R PROVE k \in R
    <3>1. k \in 2 .. n /\ k \in 1 .. n /\ k # 1
      BY <1>2
    <3>2. F[k] = More(F[k - 1], k)
      BY <1>10, <3>1
    <3>3. VisitsSome(n, start, k, F[k])
      BY <1>3, <2>2, <3>1, <3>2
    <3> QED
      BY <3>1, <3>3
  <2> HIDE DEF R
  <2> QED
    BY <1>2, <2>1, <2>2, Climb
<1> QED
  BY <1>1, <1>2, <1>11

-----------------------------------------------------------------------------
(* The plan of a region *)

\* The cells of a decomposition are visited each once, from the entry cell on.
LEMMA VisitOrderIs ==
    ASSUME NEW n \in Nat \ {0}, NEW cells \in Seq(CellRecs), Len(cells) = n,
           \A i \in 1 .. n : cells[i].mask # {}, NEW seed
    PROVE  /\ EntryCell(cells, seed) \in 1 .. n
           /\ VisitsSome(n, EntryCell(cells, seed), n, VisitOrder(cells, seed))
<1> DEFINE start == EntryCell(cells, seed)
           cost == [i \in DOMAIN cells |-> [j \in DOMAIN cells |->
                        SquaredGap(cells[i].mask, cells[j].mask)]]
           S == [1 .. n -> Fractions]
<1>1. DOMAIN cells = 1 .. n
  OBVIOUS
<1>2. start \in 1 .. n
  BY <1>1 DEF EntryCell
<1>3. ASSUME NEW i \in 1 .. n, NEW j \in 1 .. n
      PROVE  SquaredGap(cells[i].mask, cells[j].mask) \in Fractions
  <2>1. cells[i] \in CellRecs /\ cells[j] \in CellRecs
    BY <1>1
  <2>2. cells[i].mask \subseteq Cells /\ cells[j].mask \subseteq Cells /\ cells[j].mask # {}
    BY <2>1 DEF CellRecs
  <2> QED
    BY <2>2, GapIs
<1>4. cost \in Seq(S) /\ Len(cost) = n /\ \A i, j \in 1 .. n : cost[i][j] \in Fractions
  <2>1. cost \in [1 .. n -> S]
    BY <1>1, <1>3
  <2>2. \A i, j \in 1 .. n : cost[i][j] \in Fractions
    BY <1>1, <1>3
  <2> HIDE DEF cost, S
  <2> QED
    BY <2>1, <2>2
<1> HIDE DEF cost, start, S
<1>5. VisitsSome(n, start, n, order(cost, start))
  BY <1>2, <1>4, OrderIs
<1> QED
  BY <1>2, <1>5 DEF VisitOrder, cost, start

\* The cells of a sequence of segments come in the order of the first m entries of w.
InOrder(w, m, x) ==
    \A i, j \in DOMAIN x : i <= j =>
        \E a, b \in 1 .. m : a <= b /\ x[i].cell = w[a] /\ x[j].cell = w[b]

\* Each part is of one cell.
OneCell(x, i) == \A k \in DOMAIN x : x[k].cell = i

\* The n-th of the parts is of the cell w[n].
OneCellEach(ss, w) == \A n \in 1 .. Len(ss) : OneCell(ss[n], w[n])

\* Parts that are each of one cell, one after the other, come in the order of these cells.
LEMMA FlattenInOrder ==
    ASSUME NEW S, NEW ss \in Seq(Seq(S)), NEW w, OneCellEach(ss, w)
    PROVE  InOrder(w, Len(ss), FlattenSeq(ss))
<1>1. CASE Len(ss) = 0
  <2>1. FlattenSeq(ss) = << >>
    BY <1>1 DEF FlattenSeq
  <2> QED
    BY <2>1 DEF InOrder
<1>2. CASE Len(ss) # 0
  <2> DEFINE P == {p \in Nat \X Seq(S) : InOrder(w, p[1], p[2])}
  <2>0. Len(ss) \in Nat /\ \A i \in 1 .. Len(ss) : ss[i] \in Seq(S)
    OBVIOUS
  <2>1. <<1, ss[1]>> \in P
    <3>1. 1 \in 1 .. Len(ss) /\ ss[1] \in Seq(S)
      BY <1>2, <2>0
    <3>2. InOrder(w, 1, ss[1])
      BY <3>1 DEF InOrder, OneCellEach, OneCell
    <3> QED
      BY <3>1, <3>2
  <2>2. ASSUME NEW i \in 2 .. Len(ss), NEW x \in Seq(S), <<i - 1, x>> \in P
        PROVE  <<i, x \o ss[i]>> \in P
    <3> DEFINE z == ss[i]
               y == x \o z
               n == Len(x)
               m == Len(z)
    <3>1. i \in 1 .. Len(ss) /\ i \in Nat /\ z \in Seq(S) /\ InOrder(w, i - 1, x)
      BY <2>0, <2>2
    <3>2. \A k \in DOMAIN z : z[k].cell = w[i]
      BY <3>1 DEF OneCellEach, OneCell
    <3> HIDE DEF z
    <3>3. /\ n \in Nat /\ m \in Nat /\ DOMAIN x = 1 .. n /\ DOMAIN z = 1 .. m
          /\ DOMAIN y = 1 .. n + m /\ y \in Seq(S)
          /\ \A k \in 1 .. n : y[k] = x[k]
          /\ \A k \in n + 1 .. n + m : y[k] = z[k - n]
      BY <3>1
    <3> HIDE DEF y, n, m
    <3>4. ASSUME NEW k \in n + 1 .. n + m PROVE y[k].cell = w[i]
      <4>1. k - n \in DOMAIN z /\ y[k] = z[k - n]
        BY <3>3
      <4> QED
        BY <3>2, <4>1
    <3>5. ASSUME NEW j \in 1 .. n, NEW k \in 1 .. n, j <= k
          PROVE  \E a, b \in 1 .. i - 1 : a <= b /\ y[j].cell = w[a] /\ y[k].cell = w[b]
      <4>1. j \in DOMAIN x /\ k \in DOMAIN x /\ y[j] = x[j] /\ y[k] = x[k]
        BY <3>3
      <4>2. PICK a \in 1 .. i - 1, b \in 1 .. i - 1 :
                a <= b /\ x[j].cell = w[a] /\ x[k].cell = w[b]
        BY <3>1, <3>5, <4>1 DEF InOrder
      <4> QED
        BY <4>1, <4>2
    <3>6. \A a \in 1 .. i - 1 : a \in 1 .. i /\ a <= i
      BY <3>1
    <3>7. i \in 1 .. i /\ i <= i
      BY <3>1
    <3>8. ASSUME NEW j \in 1 .. n + m, NEW k \in 1 .. n + m, j <= k
          PROVE  \E a, b \in 1 .. i : a <= b /\ y[j].cell = w[a] /\ y[k].cell = w[b]
      <4>1. CASE j \in 1 .. n /\ k \in 1 .. n
        <5>1. PICK a \in 1 .. i - 1, b \in 1 .. i - 1 :
                  a <= b /\ y[j].cell = w[a] /\ y[k].cell = w[b]
          BY <3>5, <3>8, <4>1
        <5> QED
          BY <3>6, <5>1
      <4>2. CASE j \in 1 .. n /\ k \in n + 1 .. n + m
        <5>1. j <= j
          BY <3>3
        <5>2. PICK a \in 1 .. i - 1, b \in 1 .. i - 1 :
                  a <= b /\ y[j].cell = w[a] /\ y[j].cell = w[b]
          BY <3>5, <4>2, <5>1
        <5>3. y[k].cell = w[i]
          BY <3>4, <4>2
        <5> QED
          BY <3>6, <3>7, <5>2, <5>3
      <4>3. CASE j \in n + 1 .. n + m
        <5>1. k \in n + 1 .. n + m
          BY <3>3, <3>8, <4>3
        <5>2. y[j].cell = w[i] /\ y[k].cell = w[i]
          BY <3>4, <4>3, <5>1
        <5> QED
          BY <3>7, <5>2
      <4>4. (j \in 1 .. n \/ j \in n + 1 .. n + m) /\ (k \in 1 .. n \/ k \in n + 1 .. n + m)
        BY <3>3
      <4> QED
        BY <4>1, <4>2, <4>3, <4>4
    <3>9. InOrder(w, i, y)
      <4> SUFFICES ASSUME NEW j \in DOMAIN y, NEW k \in DOMAIN y, j <= k
                   PROVE  \E a, b \in 1 .. i : a <= b /\ y[j].cell = w[a] /\ y[k].cell = w[b]
        BY DEF InOrder
      <4>1. j \in 1 .. n + m /\ k \in 1 .. n + m
        BY <3>3
      <4> QED
        BY <3>8, <4>1
    <3>10. <<i, y>> \in P
      BY <3>1, <3>3, <3>9
    <3> QED
      BY <3>10 DEF y, z
  <2>3. <<Len(ss), FlattenSeq(ss)>> \in P
    <3> HIDE DEF P
    <3> QED
      BY <1>2, <2>1, <2>2, FlattenInduction
  <2> QED
    BY <2>3
<1> QED
  BY <1>1, <1>2

\* The ways belong to the cell they lead to: they do not disturb the order.
LEMMA AppendInOrder ==
    ASSUME NEW S, Links \subseteq S, S \subseteq Segments, NEW segments \in Seq(S),
           NEW w, NEW m \in Nat, InOrder(w, m, segments)
    PROVE  InOrder(w, m, appendSegs(segments))
<1> DEFINE near == {n \in DOMAIN segments : segments[n - 1].end = segments[n].start}
           ss == Reached(segments, near)
           v == [n \in DOMAIN segments |-> segments[n].cell]
           N == Len(segments)
           y == FlattenSeq(ss)
<1>1. appendSegs(segments) = y
  BY DEF appendSegs, Reached
<1>2. DOMAIN segments = 1 .. N /\ N \in Nat /\ \A n \in 1 .. N : segments[n] \in S
  OBVIOUS
<1>3. ss \in Seq(Seq(S)) /\ Len(ss) = N
  <2>1. \A n \in near \cap (2 .. N) : segments[n].start = segments[n - 1].end
    OBVIOUS
  <2> HIDE DEF near
  <2> QED
    BY <2>1, ReachedParts
<1>4. ASSUME NEW n \in 1 .. N, NEW i \in DOMAIN ss[n] PROVE ss[n][i].cell = v[n]
  <2> DEFINE t == segments[n]
             u == Transition(t.cell, segments[n - 1].end, t.start)
  <2>1. v[n] = t.cell
    BY <1>2
  <2>2. ss[n] = <<t>> \/ ss[n] = <<u, t>>
    BY <1>2 DEF Reached
  <2>3. u.cell = t.cell
    BY DEF Transition, Segment
  <2> HIDE DEF ss, t, u, v
  <2> QED
    BY <2>1, <2>2, <2>3
<1> HIDE DEF ss
<1>5. InOrder(v, N, y)
  <2>1. OneCellEach(ss, v)
    BY <1>3, <1>4 DEF OneCellEach, OneCell
  <2> HIDE DEF v, N
  <2> QED
    BY <1>3, <2>1, FlattenInOrder
<1>6. \A a \in 1 .. N : v[a] = segments[a].cell
  BY <1>2
<1> HIDE DEF v, y
<1>7. InOrder(w, m, y)
  <2> SUFFICES ASSUME NEW i \in DOMAIN y, NEW j \in DOMAIN y, i <= j
               PROVE  \E a, b \in 1 .. m : a <= b /\ y[i].cell = w[a] /\ y[j].cell = w[b]
    BY DEF InOrder
  <2>1. PICK a \in 1 .. N, b \in 1 .. N : a <= b /\ y[i].cell = v[a] /\ y[j].cell = v[b]
    BY <1>5 DEF InOrder
  <2> HIDE DEF N
  <2>2. a \in DOMAIN segments /\ b \in DOMAIN segments
    BY <1>2
  <2>3. PICK c \in 1 .. m, d \in 1 .. m :
            c <= d /\ segments[a].cell = w[c] /\ segments[b].cell = w[d]
    BY <2>1, <2>2 DEF InOrder
  <2> QED
    BY <1>6, <2>1, <2>3
<1> QED
  BY <1>1, <1>7

\* The rows of a plan of several cells.
CellRows(nav, cells) ==
    {s \in Segments : s.type = "WORK" /\ (InsetIsSmall =>
        s.cell \in DOMAIN cells /\ RowGood(nav \cap cells[s.cell].mask, s))}

\* The plan of one cell, with the number of the cell.
LEMMA OfCellIs ==
    ASSUME NEW nav, NEW cells \in Seq(CellRecs), NEW i \in DOMAIN cells,
           NEW x \in Seq(GoodRows(nav \cap cells[i].mask) \cup Links)
    PROVE  /\ OfCell(i, x) \in Seq(CellRows(nav, cells) \cup Links)
           /\ OneCell(OfCell(i, x), i)
<1> DEFINE G == GoodRows(nav \cap cells[i].mask)
           R == CellRows(nav, cells)
<1>1. i \in Nat
  OBVIOUS
<1>2. ASSUME NEW s \in G \cup Links
      PROVE  [s EXCEPT !.cell = i] \in R \cup Links /\ [s EXCEPT !.cell = i].cell = i
  <2> DEFINE t == [s EXCEPT !.cell = i]
  <2>1. s \in Segments
    BY DEF GoodRows, Links
  <2>2. t \in Segments /\ t.type = s.type /\ t.cell = i /\ t.start = s.start /\ t.end = s.end
    <3>1. \A q \in Segments : [q EXCEPT !.cell = i].type = q.type
      BY DEF Segments
    <3>2. \A q \in Segments : [q EXCEPT !.cell = i].cell = i
      BY DEF Segments
    <3>3. \A q \in Segments : [q EXCEPT !.cell = i].start = q.start
      BY DEF Segments
    <3>4. \A q \in Segments : [q EXCEPT !.cell = i].end = q.end
      BY DEF Segments
    <3>5. \A q \in Segments : [q EXCEPT !.cell = i] \in Segments
      BY <1>1 DEF Segments
    <3> QED
      BY <2>1, <3>1, <3>2, <3>3, <3>4, <3>5
  <2> SUFFICES t \in R \cup Links
    BY <2>2
  <2> HIDE DEF t
  <2>3. CASE s \in Links
    BY <2>2, <2>3 DEF Links
  <2>4. CASE s \in G
    <3> DEFINE own == nav \cap cells[i].mask
    <3>1. s.type = "WORK" /\ (InsetIsSmall => RowGood(own, s))
      BY <2>4 DEF GoodRows
    <3> HIDE DEF own
    <3>2. Straight(t) <=> Straight(s)
      BY <2>2 DEF Straight
    <3>3. Along(t) = Along(s)
      BY <2>2 DEF Along
    <3>4. Round(t) = Round(s)
      BY <2>2 DEF Round
    <3>5. RowGood(own, s) => RowGood(own, t)
      BY <2>2, <3>2, <3>3, <3>4 DEF RowGood
    <3>6. InsetIsSmall => RowGood(nav \cap cells[t.cell].mask, t)
      BY <2>2, <3>1, <3>5 DEF own
    <3> QED
      BY <2>2, <3>1, <3>6 DEF CellRows
  <2> QED
    BY <2>3, <2>4
<1> HIDE DEF R
<1>3. DOMAIN x = 1 .. Len(x) /\ Len(x) \in Nat /\ \A k \in 1 .. Len(x) : x[k] \in G \cup Links
  <2> DEFINE T == G \cup Links
  <2>1. x \in Seq(T)
    OBVIOUS
  <2> HIDE DEF T
  <2>2. DOMAIN x = 1 .. Len(x) /\ Len(x) \in Nat /\ \A k \in 1 .. Len(x) : x[k] \in T
    BY <2>1
  <2> QED
    BY <2>2 DEF T
<1> HIDE DEF G
<1>4. OfCell(i, x) \in [1 .. Len(x) -> R \cup Links]
  BY <1>2, <1>3 DEF OfCell
<1>5. OneCell(OfCell(i, x), i)
  BY <1>2, <1>3 DEF OfCell, OneCell
<1> QED
  BY <1>3, <1>4, <1>5 DEF R

\* The plans of the cells, in the order of the visits.
Parts(masks, cells, visits) ==
    [n \in DOMAIN visits |->
        OfCell(visits[n], plan(CellMasks(masks, cells[visits[n]].mask), ShortInCell))]

\* Each part has the rows and links of its own cell.
LEMMA PartsAre ==
    ASSUME NEW masks, {"navigable_center", "reachable_cleanable"} \subseteq DOMAIN masks,
           masks.navigable_center \subseteq Cells, masks.reachable_cleanable \subseteq Cells,
           NEW cells \in Seq(CellRecs), NEW visits \in Seq(DOMAIN cells)
    PROVE  /\ Parts(masks, cells, visits)
                  \in Seq(Seq(CellRows(masks.navigable_center, cells) \cup Links))
           /\ Len(Parts(masks, cells, visits)) = Len(visits)
           /\ OneCellEach(Parts(masks, cells, visits), visits)
<1> DEFINE nav == masks.navigable_center
           S == CellRows(nav, cells) \cup Links
           PartOf(i) == OfCell(i, plan(CellMasks(masks, cells[i].mask), ShortInCell))
           parts == [n \in DOMAIN visits |-> PartOf(visits[n])]
<1>1. ASSUME NEW i \in DOMAIN cells
      PROVE  PartOf(i) \in Seq(S) /\ OneCell(PartOf(i), i)
  <2> DEFINE own == CellMasks(masks, cells[i].mask)
             x == plan(own, ShortInCell)
  <2>1. /\ own.navigable_center = nav \cap cells[i].mask
        /\ own.reachable_cleanable = masks.reachable_cleanable \cap cells[i].mask
    BY DEF CellMasks
  <2>2. own.navigable_center \subseteq Cells /\ own.reachable_cleanable \subseteq Cells
    BY <2>1
  <2>3. ShortInCell \in Nat /\ ShortInCell <= ShortInCell
    BY PlannerAssumption DEF ShortInCell
  <2> HIDE DEF own
  <2>4. x \in Seq(GoodRows(own.navigable_center) \cup Links)
    BY <2>2, <2>3, PlanIs
  <2> HIDE DEF nav, x
  <2>5. x \in Seq(GoodRows(nav \cap cells[i].mask) \cup Links)
    BY <2>1, <2>4
  <2>6. OfCell(i, x) \in Seq(CellRows(nav, cells) \cup Links)
    BY <2>5, OfCellIs
  <2>7. OneCell(OfCell(i, x), i)
    BY <2>5, OfCellIs
  <2> QED
    BY <2>6, <2>7 DEF own, x
<1>2. DOMAIN visits = 1 .. Len(visits) /\ Len(visits) \in Nat
      /\ \A n \in 1 .. Len(visits) : visits[n] \in DOMAIN cells
  OBVIOUS
<1>3. parts \in Seq(Seq(S)) /\ Len(parts) = Len(visits)
  <2>1. \A n \in 1 .. Len(visits) : PartOf(visits[n]) \in Seq(S)
    BY <1>1, <1>2
  <2> HIDE DEF PartOf
  <2>2. parts \in [1 .. Len(visits) -> Seq(S)]
    BY <1>2, <2>1
  <2> DEFINE k == Len(visits)
             T == Seq(S)
  <2>3. k \in Nat /\ parts \in [1 .. k -> T]
    BY <1>2, <2>2
  <2> HIDE DEF parts, T, k
  <2>4. parts \in Seq(T) /\ Len(parts) = k
    BY <2>3
  <2> QED
    BY <2>4 DEF T, k
<1>4. OneCellEach(parts, visits)
  <2> HIDE DEF PartOf
  <2>1. \A n \in 1 .. Len(visits) : parts[n] = PartOf(visits[n])
    BY <1>2
  <2> HIDE DEF parts
  <2> QED
    BY <1>1, <1>2, <1>3, <2>1 DEF OneCellEach
<1>5. Parts(masks, cells, visits) = parts
  BY DEF Parts
<1> HIDE DEF parts
<1> QED
  BY <1>3, <1>4, <1>5

\* The plan of several cells, chained.
LEMMA PlanCellsIs ==
    ASSUME NEW masks, {"navigable_center", "reachable_cleanable"} \subseteq DOMAIN masks,
           masks.navigable_center \subseteq Cells, masks.reachable_cleanable \subseteq Cells,
           NEW cells \in Seq(CellRecs), NEW visits \in Seq(DOMAIN cells)
    PROVE  /\ PlanCells(masks, cells, visits)
                  \in Seq(CellRows(masks.navigable_center, cells) \cup Links)
           /\ Joined(PlanCells(masks, cells, visits))
           /\ InOrder(visits, Len(visits), PlanCells(masks, cells, visits))
<1> DEFINE nav == masks.navigable_center
           S == CellRows(nav, cells) \cup Links
           parts == Parts(masks, cells, visits)
<1>1. Len(visits) \in Nat
  OBVIOUS
<1>2. /\ parts \in Seq(Seq(S)) /\ Len(parts) = Len(visits)
      /\ OneCellEach(parts, visits)
  BY PartsAre
<1>3. Links \subseteq S /\ S \subseteq Segments
  <2>1. CellRows(nav, cells) \subseteq Segments
    BY DEF CellRows
  <2>2. Links \subseteq Segments
    BY DEF Links
  <2> QED
    BY <2>1, <2>2
<1>4. PlanCells(masks, cells, visits) = appendSegs(FlattenSeq(parts))
  BY DEF PlanCells, Parts
<1> HIDE DEF parts, S
<1>5. FlattenSeq(parts) \in Seq(S)
  BY <1>2, FlattenTyped
<1>6. InOrder(visits, Len(visits), FlattenSeq(parts))
  BY <1>2, FlattenInOrder
<1>7. /\ appendSegs(FlattenSeq(parts)) \in Seq(S)
      /\ Joined(appendSegs(FlattenSeq(parts)))
      /\ InOrder(visits, Len(visits), appendSegs(FlattenSeq(parts)))
  BY <1>1, <1>3, <1>5, <1>6, AppendJoins, AppendInOrder
<1> QED
  BY <1>4, <1>7 DEF S

\* The rows of a plan of a region.
PlanRows(nav, cells) == IF Len(cells) <= 1 THEN GoodRows(nav) ELSE CellRows(nav, cells)

\* The plan of a region is made of rows that can be driven, and of ways between them.
LEMMA RegionPlanIs ==
    ASSUME NEW masks, {"navigable_center", "reachable_cleanable"} \subseteq DOMAIN masks,
           masks.navigable_center \subseteq Cells, masks.reachable_cleanable \subseteq Cells,
           NEW seed
    PROVE  LET cells == decompose(masks.reachable_cleanable)
           IN  /\ planMultiCell(masks, seed)
                      \in Seq(PlanRows(masks.navigable_center, cells) \cup Links)
               /\ Joined(planMultiCell(masks, seed))
               /\ Len(cells) > 1 => \E visits :
                     /\ VisitsSome(Len(cells), EntryCell(cells, seed), Len(cells), visits)
                     /\ InOrder(visits, Len(cells), planMultiCell(masks, seed))
<1> DEFINE cells == decompose(masks.reachable_cleanable)
           nav == masks.navigable_center
<1>1. /\ cells \in Seq(CellRecs) /\ \A i \in DOMAIN cells : cells[i].mask # {}
      /\ Len(cells) \in Nat /\ DOMAIN cells = 1 .. Len(cells)
  <2>1. cells \in Seq(CellRecs) /\ \A i \in DOMAIN cells : cells[i].mask # {}
    BY DecompositionIsSound DEF CellRecs
  <2> HIDE DEF cells
  <2> QED
    BY <2>1
<1>2. planMultiCell(masks, seed) = PlanRegion(masks, seed, cells)
  BY DEF planMultiCell
<1> HIDE DEF cells
<1>3. CASE Len(cells) <= 1
  <2>1. PlanRegion(masks, seed, cells) = plan(masks, MinLength)
    BY <1>3 DEF PlanRegion
  <2>2. MinLength \in Nat /\ ShortInCell <= MinLength
    BY PlannerAssumption DEF ShortInCell
  <2>3. plan(masks, MinLength) \in Seq(GoodRows(nav) \cup Links) /\ Joined(plan(masks, MinLength))
    BY <2>2, PlanIs
  <2> QED
    BY <1>1, <1>2, <1>3, <2>1, <2>3 DEF PlanRows, cells
<1>4. CASE ~ (Len(cells) <= 1)
  <2> DEFINE visits == VisitOrder(cells, seed)
             n == Len(cells)
  <2>1. PlanRegion(masks, seed, cells) = PlanCells(masks, cells, visits)
    BY <1>4 DEF PlanRegion
  <2>2. n \in Nat \ {0} /\ \A i \in 1 .. n : cells[i].mask # {}
    BY <1>1, <1>4
  <2> HIDE DEF n
  <2>3. VisitsSome(n, EntryCell(cells, seed), n, visits)
    BY <1>1, <2>2, VisitOrderIs DEF n
  <2>4. visits \in Seq(DOMAIN cells)
    BY <1>1, <2>3 DEF VisitsSome, n
  <2> HIDE DEF visits
  <2>5. /\ PlanCells(masks, cells, visits) \in Seq(CellRows(nav, cells) \cup Links)
        /\ Joined(PlanCells(masks, cells, visits))
        /\ InOrder(visits, Len(visits), PlanCells(masks, cells, visits))
    BY <1>1, <2>4, PlanCellsIs
  <2>6. Len(visits) = Len(cells)
    BY <2>3 DEF VisitsSome, n
  <2>7. \E v : /\ VisitsSome(Len(cells), EntryCell(cells, seed), Len(cells), v)
               /\ InOrder(v, Len(cells), planMultiCell(masks, seed))
    BY <1>2, <2>1, <2>3, <2>5, <2>6 DEF n
  <2> QED
    BY <1>2, <1>4, <2>1, <2>5, <2>7 DEF PlanRows, cells
<1> QED
  BY <1>3, <1>4, <1>1

\* The masks of build are masks of the grid.
LEMMA MasksAre ==
    ASSUME NEW m, NEW s
    PROVE  LET b == build(m, s)
           IN  /\ {"navigable_center", "reachable_cleanable"} \subseteq DOMAIN b
               /\ b.navigable_center \subseteq Cells /\ b.reachable_cleanable \subseteq Cells
<1> DEFINE b == build(m, s)
<1>1. /\ {"navigable_center", "reachable_cleanable"} \subseteq DOMAIN b
      /\ b.navigable_center = erodeByDisc(classify(m), ClearanceRadius)
      /\ b.reachable_cleanable \subseteq classify(m)
  BY DEF build
<1>2. classify(m) \subseteq Cells
  BY DEF classify
<1>3. erodeByDisc(classify(m), ClearanceRadius) \subseteq Cells
  BY <1>2 DEF erodeByDisc
<1> QED
  BY <1>1, <1>2, <1>3

\* What the planner makes of any map is a sequence of segments, joined and made of rows
\* and ways.
LEMMA PlannedIs ==
    ASSUME NEW masks, NEW seed,
           {"navigable_center", "reachable_cleanable"} \subseteq DOMAIN masks,
           masks.navigable_center \subseteq Cells, masks.reachable_cleanable \subseteq Cells
    PROVE  LET p == planMultiCell(masks, seed)
               cells == decompose(masks.reachable_cleanable)
           IN  /\ p \in Seq(Segments) /\ Joined(p)
               /\ \A s \in WorkOf(p) : s \in PlanRows(masks.navigable_center, cells)
<1> DEFINE p == planMultiCell(masks, seed)
           cells == decompose(masks.reachable_cleanable)
           R == PlanRows(masks.navigable_center, cells)
           T == R \cup Links
<1>1. p \in Seq(T) /\ Joined(p)
  BY RegionPlanIs
<1>2. R \subseteq Segments
  <2> HIDE DEF cells
  <2>1. GoodRows(masks.navigable_center) \subseteq Segments
    BY DEF GoodRows
  <2>2. CellRows(masks.navigable_center, cells) \subseteq Segments
    BY DEF CellRows
  <2> QED
    BY <2>1, <2>2 DEF PlanRows
<1>3. Links \subseteq Segments /\ \A s \in Links : s.type = "TRANSITION"
  BY DEF Links
<1> HIDE DEF p, R, cells
<1>4. T \subseteq Segments
  BY <1>2, <1>3
<1> HIDE DEF T
<1>5. p \in Seq(Segments) /\ \A i \in DOMAIN p : p[i] \in T
  BY <1>1, <1>4
<1>6. \A s \in WorkOf(p) : s \in T /\ s.type = "WORK"
  BY <1>5 DEF WorkOf
<1>7. \A s \in WorkOf(p) : s \in R
  BY <1>3, <1>6 DEF T
<1> QED
  BY <1>1, <1>5, <1>7 DEF p, R, cells

\* The planner makes a sequence of segments of every map.
THEOREM PlansAreTyped == PlansAreSegments
<1> SUFFICES ASSUME NEW b \in Planned PROVE b.plan \in Seq(Segments)
  BY DEF PlansAreSegments
<1>1. PICK m, s : b = Brief(m, s, build(m, gridToWorld(s)))
  BY DEF Planned
<1> DEFINE masks == build(m, gridToWorld(s))
<1>2. b.plan = planMultiCell(masks, s)
  BY <1>1 DEF Brief
<1>3. /\ {"navigable_center", "reachable_cleanable"} \subseteq DOMAIN masks
      /\ masks.navigable_center \subseteq Cells /\ masks.reachable_cleanable \subseteq Cells
  BY MasksAre
<1> HIDE DEF masks
<1>4. planMultiCell(masks, s) \in Seq(Segments)
  BY <1>3, PlannedIs
<1> QED
  BY <1>2, <1>4

\* The ends of a segment are on it.
LEMMA EndsAlong ==
    ASSUME NEW s \in Segments
    PROVE  s.start \in Along(s) /\ s.end \in Along(s)
<1>1. s.start \in Points /\ s.end \in Points
  BY DEF Segments
<1> DEFINE lo(k) == Least({s.start[k], s.end[k]})
           hi(k) == Greatest({s.start[k], s.end[k]})
<1>2. ASSUME NEW k \in 1 .. 2 PROVE s.start[k] \in lo(k) .. hi(k) /\ s.end[k] \in lo(k) .. hi(k)
  <2> DEFINE a == s.start[k]
             b == s.end[k]
  <2>1. a \in Int /\ b \in Int
    BY <1>1 DEF Points
  <2> HIDE DEF a, b
  <2>2. /\ a <= b => Least({a, b}) = a /\ Greatest({a, b}) = b
        /\ b <= a => Least({a, b}) = b /\ Greatest({a, b}) = a
    BY <2>1, PairBounds
  <2>3. a \in Least({a, b}) .. Greatest({a, b}) /\ b \in Least({a, b}) .. Greatest({a, b})
    BY <2>1, <2>2
  <2> QED
    BY <2>3 DEF a, b
<1>3. Along(s) = (lo(1) .. hi(1)) \X (lo(2) .. hi(2))
  BY DEF Along
<1> HIDE DEF lo, hi
<1> QED
  BY <1>1, <1>2, <1>3 DEF Points

\* A point over a cell is on the map.
LEMMA OverCell ==
    ASSUME NEW p \in Points, worldToGridCell(p) \in Cells
    PROVE  onMap(p)
<1>1. p[1] \in Int /\ p[2] \in Int
  BY DEF Points
<1>2. p[1] \div 2 \in 0 .. Rows - 1 /\ p[2] \div 2 \in 0 .. Cols - 1
  BY DEF worldToGridCell, Cells
<1>3. \A x \in Int : x \div 2 \in Int /\ 2 * (x \div 2) <= x /\ x <= 2 * (x \div 2) + 1
  OBVIOUS
<1>4. p[1] \in 0 .. 2 * Rows - 1 /\ p[2] \in 0 .. 2 * Cols - 1
  BY <1>1, <1>2, <1>3, GridAssumption
<1> QED
  BY <1>4 DEF onMap

\* When twice the inset is less than the shortest row, the rows of every plan are rows in
\* the sense of RowGood, over the cells of their own where there are several.
LEMMA RowsAreGood ==
    ASSUME InsetIsSmall, NEW nav, NEW cells, NEW s \in PlanRows(nav, cells), Len(cells) \in Nat
    PROVE  /\ s \in Segments /\ RowGood(nav, s)
           /\ Len(cells) > 1 => \A p \in Along(s) : worldToGridCell(p) \in cells[s.cell].mask
<1>1. CASE Len(cells) <= 1
  <2>1. s \in GoodRows(nav)
    BY <1>1 DEF PlanRows
  <2>2. s \in Segments /\ RowGood(nav, s)
    BY <2>1 DEF GoodRows
  <2> QED
    BY <1>1, <2>2
<1>2. CASE ~ (Len(cells) <= 1)
  <2> DEFINE own == nav \cap cells[s.cell].mask
  <2>1. s \in CellRows(nav, cells)
    BY <1>2 DEF PlanRows
  <2>2. s \in Segments /\ RowGood(own, s)
    BY <2>1 DEF CellRows
  <2>3. \A p \in Along(s) : worldToGridCell(p) \in own
    <3> HIDE DEF own
    <3> QED
      BY <2>2 DEF RowGood
  <2>4. RowGood(nav, s)
    <3>1. \A p \in Along(s) : worldToGridCell(p) \in nav
      BY <2>3
    <3> HIDE DEF own
    <3> QED
      BY <2>2, <3>1 DEF RowGood
  <2> QED
    BY <2>2, <2>3, <2>4
<1> QED
  BY <1>1, <1>2

\* Then the ends of the rows and the poses beside them are different points of the map, when
\* the tool is wider than a cell.
THEOREM RowsAreOnMap ==
    ASSUME InsetIsSmall, ToolRadius > 1 PROVE RowsOnMap
<1> SUFFICES ASSUME NEW b \in Planned, NEW s \in WorkOf(b.plan)
             PROVE  /\ \A p \in {s.start, Round(s), s.end} : p \in Points /\ onMap(p)
                    /\ s.start # s.end /\ s.start # Round(s) /\ Round(s) # s.end
  BY DEF RowsOnMap
<1>1. PICK m, w : b = Brief(m, w, build(m, gridToWorld(w)))
  BY DEF Planned
<1> DEFINE masks == build(m, gridToWorld(w))
           nav == masks.navigable_center
           cells == decompose(masks.reachable_cleanable)
<1>2. b.plan = planMultiCell(masks, w)
  BY <1>1 DEF Brief
<1>3. /\ {"navigable_center", "reachable_cleanable"} \subseteq DOMAIN masks
      /\ nav \subseteq Cells /\ masks.reachable_cleanable \subseteq Cells
  BY MasksAre
<1> HIDE DEF masks
<1>4. s \in PlanRows(nav, cells)
  BY <1>2, <1>3, PlannedIs
<1>5. Len(cells) \in Nat
  <2>1. cells \in Seq([mask : SUBSET Cells, neighbors : SUBSET Nat])
    BY <1>3, DecompositionIsSound
  <2> HIDE DEF cells
  <2> QED
    BY <2>1
<1> HIDE DEF nav, cells
<1>6. s \in Segments /\ RowGood(nav, s)
  BY <1>4, <1>5, RowsAreGood
<1>7. /\ s.start # s.end /\ s.start # Round(s) /\ Round(s) # s.end
      /\ Round(s) \in Points /\ onMap(Round(s))
      /\ \A p \in Along(s) : worldToGridCell(p) \in nav
  BY <1>6 DEF RowGood
<1>8. s.start \in Points /\ s.end \in Points
  BY <1>6 DEF Segments
<1>9. onMap(s.start) /\ onMap(s.end)
  BY <1>3, <1>6, <1>7, <1>8, EndsAlong, OverCell
<1> QED
  BY <1>7, <1>8, <1>9

-----------------------------------------------------------------------------
(* The plan in a task *)

\* The plan that the names of a task stand for is the planner's.
PlanInv == phase # "IDLE" => named[plan_id_][2] = planMultiCell(masks_, start_)

\* A task that begins takes the plan the planner makes for it.
LEMMA PlanInvBegins ==
    ASSUME NEW s \in Starts, NEW resume, MissionInv, PlanInv, BeginTask(s, resume)
    PROVE  PlanInv'
<1>1. CASE \E why : Refuse(why)
  BY <1>1 DEF PlanInv, Refuse, taskVars
<1>2. ASSUME NEW b \in Planned, b.start = s, NEW d, NEW c,
             StartTask(s, b.masks, b.plan, d, c)
      PROVE  PlanInv'
  <2> DEFINE id == <<latest_map_, b.plan>>
  <2>1. b.plan = planMultiCell(b.masks, s)
    <3>1. PICK m, w : b = Brief(m, w, build(m, gridToWorld(w)))
      BY DEF Planned
    <3> DEFINE k == build(m, gridToWorld(w))
    <3> HIDE DEF k
    <3>2. b.plan = planMultiCell(k, w) /\ b.masks = k /\ b.start = w
      BY <3>1 DEF Brief, k
    <3> QED
      BY <1>2, <3>2
  <2>2. /\ plan_id_' = NameOf(id) /\ masks_' = b.masks /\ start_' = s
        /\ named' = IF NameOf(id) \in DOMAIN named THEN named ELSE Append(named, id)
    BY <1>2 DEF StartTask
  <2>3. id \in Surveys \X Plans /\ named \in Seq(Surveys \X Plans)
    <3>1. latest_map_ \in Surveys /\ named \in Seq(Surveys \X Plans)
      BY DEF MissionInv, NamesInv
    <3>2. b.plan \in Plans
      BY DEF Plans
    <3> QED
      BY <3>1, <3>2
  <2>0. id[2] = b.plan
    OBVIOUS
  <2> HIDE DEF id
  <2>4. named'[NameOf(id)] = id
    BY <2>2, <2>3, NamesGrow
  <2>5. named'[plan_id_'][2] = b.plan
    BY <2>0, <2>2, <2>4
  <2> QED
    BY <2>1, <2>2, <2>5 DEF PlanInv
<1>3. ASSUME NEW b \in Planned, b.start = s, StartPlan(s, b.masks, b.plan, resume)
      PROVE  PlanInv'
  BY <1>1, <1>2, <1>3 DEF StartPlan
<1> QED
  BY <1>1, <1>3 DEF BeginTask

\* The names keep that plan until the task ends.
LEMMA PlanInvHolds == MissionSpec => []PlanInv
<1>1. MissionInit => PlanInv
  BY DEF MissionInit, PlanInv
<1>2. MissionInv /\ PlanInv /\ [MissionNext]_missionVars => PlanInv'
  <2> SUFFICES ASSUME MissionInv, PlanInv, [MissionNext]_missionVars PROVE PlanInv'
    OBVIOUS
  <2>1. ASSUME NEW s \in Starts, NEW p \in Paths, BeginTask(s, file[p])
        PROVE  PlanInv'
    BY <2>1, PlanInvBegins
  <2>2. CASE sendNextSegment
    <3>1. phase # "IDLE" /\ UNCHANGED <<start_, masks_, plan_id_, named>>
      BY <2>2 DEF sendNextSegment, SegmentDone, SegmentFails, Dispatch, Executing
    <3> QED
      BY <3>1 DEF PlanInv
  <2>3. CASE Finish \/ Stop \/ Saving
    <3>1. UNCHANGED <<taskVars, named>> /\ phase # "IDLE"
      BY <2>3 DEF Finish, Stop, Saving, Executing
    <3> QED
      BY <3>1 DEF PlanInv, taskVars
  <2>4. CASE FinishTask \/ Death
    <3>1. phase' = "IDLE"
      BY <2>4 DEF FinishTask, Death, DropTask
    <3> QED
      BY <3>1 DEF PlanInv
  <2>5. CASE UNCHANGED missionVars
    BY <2>5 DEF PlanInv, missionVars
  <2> QED
    BY <2>1, <2>2, <2>3, <2>4, <2>5 DEF MissionNext
<1> QED
  BY <1>1, <1>2, MissionInvHolds, PTL DEF MissionSpec

\* In every task the rows go over navigable cells of their own cell of the decomposition,
\* and the segments are joined, when twice the inset is less than the shortest row.
THEOREM PlansAreDrivable ==
    ASSUME InsetIsSmall PROVE MissionSpec => []PlanIsDrivable
<1>1. ASSUME MasksInv, PlanInv PROVE PlanIsDrivable
  <2> SUFFICES ASSUME Begun
               PROVE  /\ RowsInCells(decompose(masks_.reachable_cleanable))
                      /\ \A s \in WorkOf(plan_) :
                            /\ Straight(s) /\ s.start # s.end
                            /\ \A p \in Along(s) : worldToGridCell(p) \in masks_.navigable_center
                      /\ Joined(plan_)
    BY DEF PlanIsDrivable, Joined
  <2> DEFINE nav == masks_.navigable_center
             cells == decompose(masks_.reachable_cleanable)
  <2>1. /\ masks_ = build(latest_map_, gridToWorld(start_))
        /\ plan_ = planMultiCell(masks_, start_)
    BY <1>1 DEF MasksInv, PlanInv, Begun
  <2>2. /\ {"navigable_center", "reachable_cleanable"} \subseteq DOMAIN masks_
        /\ nav \subseteq Cells /\ masks_.reachable_cleanable \subseteq Cells
    BY <2>1, MasksAre
  <2>3. Joined(plan_) /\ \A s \in WorkOf(plan_) : s \in PlanRows(nav, cells)
    BY <2>1, <2>2, PlannedIs
  <2>4. Len(cells) \in Nat
    <3>1. cells \in Seq([mask : SUBSET Cells, neighbors : SUBSET Nat])
      BY <2>2, DecompositionIsSound
    <3> HIDE DEF cells
    <3> QED
      BY <3>1
  <2> HIDE DEF nav, cells
  <2>5. \A s \in WorkOf(plan_) :
           /\ RowGood(nav, s)
           /\ Len(cells) > 1 => \A p \in Along(s) : worldToGridCell(p) \in cells[s.cell].mask
    BY <2>3, <2>4, RowsAreGood
  <2>6. RowsInCells(cells)
    BY <2>5 DEF RowsInCells
  <2>7. \A s \in WorkOf(plan_) :
           /\ Straight(s) /\ s.start # s.end
           /\ \A p \in Along(s) : worldToGridCell(p) \in nav
    BY <2>5 DEF RowGood
  <2> QED
    BY <2>3, <2>6, <2>7 DEF nav, cells
<1> QED
  BY <1>1, MasksInvHolds, PlanInvHolds, PTL

\* In every task the plan sweeps one cell after the other, comes back to none, and begins in
\* the cell the robot is in when that one has rows.
THEOREM PlansVisitCells == MissionSpec => []PlanVisitsCells
<1>1. ASSUME MasksInv, PlanInv PROVE PlanVisitsCells
  <2> DEFINE cells == decompose(masks_.reachable_cleanable)
             n == Len(cells)
             p == plan_
             rows == {i \in DOMAIN p : p[i].type = "WORK"}
  <2> SUFFICES ASSUME Begun, n > 1
               PROVE  /\ \A i, j, k \in rows :
                            i < j /\ j < k /\ p[i].cell = p[k].cell => p[j].cell = p[i].cell
                      /\ \A h \in DOMAIN cells : start_ \in cells[h].mask =>
                            \A i, k \in rows : i < k /\ p[k].cell = h => p[i].cell = h
    BY DEF PlanVisitsCells, Visits
  <2>1. /\ masks_ = build(latest_map_, gridToWorld(start_))
        /\ p = planMultiCell(masks_, start_)
    BY <1>1 DEF MasksInv, PlanInv, Begun
  <2>2. /\ {"navigable_center", "reachable_cleanable"} \subseteq DOMAIN masks_
        /\ masks_.navigable_center \subseteq Cells /\ masks_.reachable_cleanable \subseteq Cells
    BY <2>1, MasksAre
  <2>3. p \in Seq(Segments) /\ DOMAIN p \subseteq Nat
    <3>1. p \in Seq(Segments)
      BY <2>1, <2>2, PlannedIs
    <3> QED
      BY <3>1
  <2>4. PICK v : VisitsSome(n, EntryCell(cells, start_), n, v) /\ InOrder(v, n, p)
    BY <2>1, <2>2, RegionPlanIs
  <2>5. /\ n \in Nat /\ DOMAIN cells = 1 .. n
        /\ \A i, j \in DOMAIN cells : i # j => cells[i].mask \cap cells[j].mask = {}
    <3>1. cells \in Seq([mask : SUBSET Cells, neighbors : SUBSET Nat])
      BY <2>2, DecompositionIsSound
    <3>2. Decomposes(cells, masks_.reachable_cleanable)
      BY <2>2, DecompositionIsSound
    <3> HIDE DEF cells
    <3> QED
      BY <3>1, <3>2 DEF Decomposes
  <2> HIDE DEF cells, n, p
  <2>6. /\ v[1] = EntryCell(cells, start_)
        /\ \A a, b \in 1 .. n : v[a] = v[b] => a = b
    BY <2>4 DEF VisitsSome
  <2>7. ASSUME NEW i \in rows, NEW j \in rows, NEW k \in rows,
               i < j, j < k, p[i].cell = p[k].cell
        PROVE  p[j].cell = p[i].cell
    <3>1. i \in DOMAIN p /\ j \in DOMAIN p /\ k \in DOMAIN p /\ i <= j /\ j <= k
      BY <2>3, <2>7
    <3>2. PICK a \in 1 .. n, b \in 1 .. n : a <= b /\ p[i].cell = v[a] /\ p[j].cell = v[b]
      BY <2>4, <3>1 DEF InOrder
    <3>3. PICK c \in 1 .. n, d \in 1 .. n : c <= d /\ p[j].cell = v[c] /\ p[k].cell = v[d]
      BY <2>4, <3>1 DEF InOrder
    <3>4. b = c /\ a = d
      BY <2>6, <2>7, <3>2, <3>3
    <3>5. a = b
      BY <2>5, <3>2, <3>3, <3>4
    <3> QED
      BY <3>2, <3>5
  <2>8. ASSUME NEW h \in DOMAIN cells, start_ \in cells[h].mask,
               NEW i \in rows, NEW k \in rows, i < k, p[k].cell = h
        PROVE  p[i].cell = h
    <3>1. EntryCell(cells, start_) = h
      <4>1. {g \in DOMAIN cells : start_ \in cells[g].mask} = {h}
        BY <2>5, <2>8
      <4> QED
        BY <4>1 DEF EntryCell
    <3>2. i \in DOMAIN p /\ k \in DOMAIN p /\ i <= k
      BY <2>3, <2>8
    <3>3. PICK a \in 1 .. n, b \in 1 .. n : a <= b /\ p[i].cell = v[a] /\ p[k].cell = v[b]
      BY <2>4, <3>2 DEF InOrder
    <3>4. 1 \in 1 .. n /\ b = 1
      BY <2>5, <2>6, <2>8, <3>1, <3>3
    <3>5. a = 1
      BY <2>5, <3>3, <3>4
    <3> QED
      BY <2>6, <3>1, <3>3, <3>5
  <2> QED
    BY <2>7, <2>8
<1> QED
  BY <1>1, MasksInvHolds, PlanInvHolds, PTL

-----------------------------------------------------------------------------
(* The goals of segments and the passes *)

\* During a task there is a navigable cell, the robot's own, and the plan is a sequence
\* of segments.
GoalsInv ==
    phase # "IDLE" =>
        /\ masks_.navigable_center \in SUBSET Cells /\ masks_.navigable_center # {}
        /\ plan_ \in Seq(Segments)

\* A map that was planned on has a navigable cell (build throws without one).
LEMMA PlannedHasRoom ==
    \A b \in Planned : b.masks.navigable_center \in SUBSET Cells /\ b.masks.navigable_center # {}
<1> SUFFICES ASSUME NEW m, NEW s, canBuild(m, gridToWorld(s))
             PROVE  LET nav == build(m, gridToWorld(s)).navigable_center
                    IN  nav \in SUBSET Cells /\ nav # {}
  BY DEF Planned, Brief
<1>1. build(m, gridToWorld(s)).navigable_center = erodeByDisc(classify(m), ClearanceRadius)
  BY DEF build
<1>2. erodeByDisc(classify(m), ClearanceRadius) \in SUBSET Cells
  BY DEF erodeByDisc, classify
<1>3. worldToGridCell(gridToWorld(s)) \in erodeByDisc(classify(m), ClearanceRadius)
  BY DEF canBuild
<1> QED
  BY <1>1, <1>2, <1>3

\* A task that begins has segments to drive, and cells to drive on.
LEMMA GoalsInvBegins ==
    ASSUME NEW s \in Starts, NEW resume, GoalsInv, BeginTask(s, resume)
    PROVE  GoalsInv'
<1>1. CASE \E why : Refuse(why)
  BY <1>1 DEF GoalsInv, Refuse, taskVars
<1>2. ASSUME NEW b \in Planned, NEW d, NEW c, StartTask(b.start, b.masks, b.plan, d, c)
      PROVE  GoalsInv'
  BY <1>2, PlannedHasRoom, PlansAreTyped DEF GoalsInv, StartTask, PlansAreSegments
<1>3. ASSUME NEW b \in Planned, StartPlan(b.start, b.masks, b.plan, resume)
      PROVE  GoalsInv'
  BY <1>1, <1>2, <1>3 DEF StartPlan
<1> QED
  BY <1>1, <1>3 DEF BeginTask

\* A segment that is sent, clamped in the plan, stays a segment (sendNextSegment).
LEMMA GoalsInvDispatched ==
    ASSUME GoalsInv, sendNextSegment
    PROVE  GoalsInv'
<1> DEFINE i == InHand  seg == Clamped(i)
<1>1. Dispatch(i, seg) /\ i # 0
  BY DEF sendNextSegment, SegmentDone, SegmentFails, Dispatch
<1>2. phase = "EXECUTING_SEGMENT" /\ UNCHANGED <<phase, masks_>>
      /\ plan_' = [plan_ EXCEPT ![i] = seg]
  BY <1>1 DEF Dispatch, Executing
<1>3. seg = clampSegmentGoals(masks_.navigable_center, plan_[i])
  BY <1>1 DEF Clamped
<1> HIDE DEF i, seg
<1>4. CASE i \in DOMAIN plan_
  <2>1. plan_[i] \in Segments
    BY <1>2, <1>4 DEF GoalsInv
  <2>2. seg \in Segments
    BY <1>2, <1>3, <2>1, ClampedSegment DEF GoalsInv
  <2> QED
    BY <1>2, <1>4, <2>2 DEF GoalsInv
<1>5. CASE i \notin DOMAIN plan_
  <2>1. plan_' = plan_
    BY <1>2, <1>5 DEF GoalsInv
  <2> QED
    BY <1>2, <2>1 DEF GoalsInv
<1> QED
  BY <1>4, <1>5

\* So it is throughout the task.
LEMMA GoalsInvHolds == MissionSpec => []GoalsInv
<1>1. MissionInit => GoalsInv
  BY DEF MissionInit, GoalsInv
<1>2. GoalsInv /\ [MissionNext]_missionVars => GoalsInv'
  <2> SUFFICES ASSUME GoalsInv, [MissionNext]_missionVars PROVE GoalsInv'
    OBVIOUS
  <2>1. ASSUME NEW s \in Starts, NEW p \in Paths, BeginTask(s, file[p])
        PROVE  GoalsInv'
    BY <2>1, GoalsInvBegins
  <2>2. CASE sendNextSegment
    BY <2>2, GoalsInvDispatched
  <2>3. CASE Finish \/ Stop \/ Saving
    <3>1. UNCHANGED taskVars
      BY <2>3 DEF Finish, Stop, Saving
    <3>2. phase # "IDLE"
      BY <2>3 DEF Finish, Stop, Saving, Executing
    <3> QED
      BY <3>1, <3>2 DEF GoalsInv, taskVars
  <2>4. CASE FinishTask \/ Death
    <3>1. phase' = "IDLE"
      BY <2>4 DEF FinishTask, Death, DropTask
    <3> QED
      BY <3>1 DEF GoalsInv
  <2>5. CASE UNCHANGED missionVars
    BY <2>5 DEF GoalsInv, missionVars
  <2> QED
    BY <2>1, <2>2, <2>3, <2>4, <2>5 DEF MissionNext
<1> QED
  BY <1>1, <1>2, PTL DEF MissionSpec

\* In every task the goals a segment is sent with are on navigable cells, and settle
\* where there is room to keep the inset, whatever was clamped before.
THEOREM GoalsSettle == MissionSpec => []ClampSettles
<1>1. GoalsInv => ClampSettles
  <2> SUFFICES ASSUME GoalsInv, phase # "IDLE", NEW s \in ToSet(plan_)
               PROVE  LET nav == masks_.navigable_center
                          goal == clampSegmentGoals(nav, s)
                      IN  /\ onValidCell(nav, goal.start) /\ onValidCell(nav, goal.end)
                          /\ (\E c \in nav : KeepsInset(nav, gridToWorld(c)))
                               => /\ KeepsInset(nav, goal.start) /\ KeepsInset(nav, goal.end)
                                  /\ clampSegmentGoals(nav, goal) = goal
    BY DEF ClampSettles, Begun
  <2> DEFINE nav == masks_.navigable_center
             goal == clampSegmentGoals(nav, s)
             again == clampSegmentGoals(nav, goal)
             room == \E c \in nav : KeepsInset(nav, gridToWorld(c))
  <2>1. nav \in SUBSET Cells /\ nav # {} /\ s \in Segments
    BY DEF GoalsInv, ToSet
  <2>2. s.start \in Points /\ s.end \in Points
    BY <2>1 DEF Segments
  <2> HIDE DEF nav
  <2>3. /\ goal \in Segments
        /\ goal.start = clampGoalEndpoint(nav, s.start)
        /\ goal.end = clampGoalEndpoint(nav, s.end)
    BY <2>1, ClampedSegment
  <2>4. /\ onValidCell(nav, goal.start) /\ onValidCell(nav, goal.end)
        /\ room => KeepsInset(nav, goal.start) /\ KeepsInset(nav, goal.end)
        /\ room => /\ clampGoalEndpoint(nav, goal.start) = goal.start
                   /\ clampGoalEndpoint(nav, goal.end) = goal.end
    BY <2>1, <2>2, <2>3, ClampedGoalsSettle
  <2>5. room => again = goal
    BY <2>3, <2>4 DEF clampSegmentGoals, Segments
  <2> QED
    BY <2>4, <2>5 DEF nav
<1> QED
  BY <1>1, GoalsInvHolds, PTL

\* The plan of a task that has begun is one of those the planner makes.
LEMMA BegunPlan ==
    ASSUME MissionInv, Begun
    PROVE  \E b \in Planned : plan_ = b.plan
<1>1. plan_id_ \in DOMAIN named
  BY DEF MissionInv, TaskInv, Vouches, checkpoint, Begun
<1>2. named[plan_id_] \in Surveys \X Plans
  BY <1>1 DEF MissionInv, NamesInv
<1>3. named[plan_id_][2] \in Plans
  BY <1>2
<1> QED
  BY <1>3 DEF Begun, Plans

\* The pass of a row leaves no hole, in every task, when twice the inset is less than the
\* shortest row and the tool is wider than a cell.
THEOREM PassesLeaveNoHoles ==
    ASSUME InsetIsSmall, ToolRadius > 1 PROVE MissionSpec => []SweepLeavesNoHoles
<1>1. ASSUME MissionInv PROVE SweepLeavesNoHoles
  <2> SUFFICES ASSUME Begun, NEW s \in WorkOf(plan_)
               PROVE  /\ Beside(s.start, s.end) \subseteq SegmentPass(s.start, s.end)
                      /\ Beside(s.start, Round(s)) \cup Beside(Round(s), s.end)
                            \subseteq PathPass(<<s.start, Round(s), s.end>>)
    BY DEF SweepLeavesNoHoles
  <2>1. PICK b \in Planned : plan_ = b.plan
    BY <1>1, BegunPlan
  <2>2. /\ s.start \in Points /\ s.end \in Points /\ Round(s) \in Points
        /\ onMap(s.start) /\ onMap(s.end) /\ onMap(Round(s))
        /\ s.start # s.end /\ s.start # Round(s) /\ Round(s) # s.end
    BY <2>1, RowsAreOnMap DEF RowsOnMap
  <2>3. Beside(s.start, s.end) \subseteq SegmentPass(s.start, s.end)
    BY <2>2, PassMarksBeside DEF SegmentPass
  <2> QED
    BY <2>2, <2>3, PathMarksBeside
<1> QED
  BY <1>1, MissionInvHolds, PTL
=============================================================================
