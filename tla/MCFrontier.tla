----------------------------- MODULE MCFrontier -----------------------------
(***************************************************************************)
(* Instances of FrontierExplorer for TLC: maps of two rows of cells, whose *)
(* clusters are what FrontierDetector detects.                             *)
(***************************************************************************)
EXTENDS FrontierExplorer, TLC

CONSTANTS Columns, wide, ends, done

D == INSTANCE FrontierDetector WITH
        Rows <- 2, Cols <- Columns, FrontierConnectivity <- 4, ClusterConnectivity <- 8,
        MinClusterSize <- 1, FreeThreshold <- 0

\* The free row: frontier cells and probes are found nowhere else.
MCPoints == {<<0, 0>>, <<0, 1>>, <<0, 2>>, <<0, 3>>}

\* wide: a free strip below unknown space, one cluster as long as the map; ends: the
\* strip is bounded except at its two ends; done: nothing unknown.
Unknown == [m \in {wide, ends, done} |->
              CASE m = wide -> {p \in D!Cells : p[1] = 1}
                [] m = ends -> {<<1, 0>>, <<1, Columns - 1>>}
                [] m = done -> {}]
Grid(m) == [p \in D!Cells |-> IF p \in Unknown[m] THEN -1 ELSE IF p[1] = 1 THEN 100 ELSE 0]

Clusters(m) == {D!detect(Grid(m))[i] : i \in DOMAIN D!detect(Grid(m))}
FreeCells(m) == {p \in D!Cells : Grid(m)[p] = 0}

\* Written out, because TLC would detect them again at every use.
MCDetected ==
    wide :> {[cells |-> << <<0, 0>>, <<0, 1>>, <<0, 2>>, <<0, 3>> >>,
              sum |-> <<0, 6>>, rep |-> <<0, 1>>]} @@
    ends :> {[cells |-> << <<0, 0>> >>, sum |-> <<0, 0>>, rep |-> <<0, 0>>],
             [cells |-> << <<0, 3>> >>, sum |-> <<0, 3>>, rep |-> <<0, 3>>]} @@
    done :> {}

MCFree == wide :> MCPoints @@ ends :> MCPoints @@ done :> MCPoints

ASSUME DetectedAssumption ==
    \A m \in Maps : MCDetected[m] = Clusters(m) /\ MCFree[m] = FreeCells(m)

MCRobots == {<<0, 0>>, <<0, 2>>}
\* Along the strip, far then near; and off it, where no probe is free.
MCHeadings == {<< <<0, 2>>, <<0, 1>> >>, << <<1, 0>> >>}
\* Bins of three cells.
MCBinOf == <<0, 0>> :> 0 @@ <<0, 1>> :> 0 @@ <<0, 2>> :> 0 @@ <<0, 3>> :> 1
=============================================================================
