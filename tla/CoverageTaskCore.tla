-------------------------- MODULE CoverageTaskCore --------------------------
(***************************************************************************)
(* Per-segment dispositions of a coverage plan and the terminal result     *)
(* they add up to (coverage_task_core.cpp).  A plan has NumSegs segments,  *)
(* counted from 1; 0 stands for the -1 of the code.  The class is passive: *)
(* its state is the function d from segments to dispositions.              *)
(***************************************************************************)
EXTENDS Naturals, FiniteSets, FiniteSetsExt

CONSTANT NumSegs    \* number of segments of every plan

ASSUME NumSegsAssumption == NumSegs \in Nat \ {0}

Segs == 1..NumSegs

Dispositions == {"PENDING", "COVERED", "BLOCKED_TEMP", "EXEMPT", "FAILED"}

SuccessResults == {"SUCCEEDED_FULL", "SUCCEEDED_WITH_EXEMPTIONS"}
CancelResults == {"CANCELLED", "MAP_CHANGED", "STOP_FAILED"}
TerminalResults == SuccessResults \cup CancelResults \cup {"PARTIAL_FAILED"}

\* A freshly constructed core.
FreshCore == [i \in Segs |-> "PENDING"]

WithDisposition(d, x) == {i \in Segs : d[i] = x}

Count(d, x) == Cardinality(WithDisposition(d, x))

\* First PENDING segment, else first BLOCKED_TEMP one, else none.
NextPendingIndex(d) ==
    LET Pending == WithDisposition(d, "PENDING")
        Blocked == WithDisposition(d, "BLOCKED_TEMP")
    IN  IF Pending # {} THEN Min(Pending)
        ELSE IF Blocked # {} THEN Min(Blocked)
        ELSE 0

MarkCovered(d, i) == [d EXCEPT ![i] = "COVERED"]

MarkFailed(d, i) == [d EXCEPT ![i] = "FAILED"]

\* Variant of TerminalResult: FAILED segments are overlooked.
TerminalResultOfOpen(d) ==
    IF \E i \in Segs : d[i] \in {"PENDING", "BLOCKED_TEMP"} THEN "PARTIAL_FAILED"
    ELSE "SUCCEEDED_FULL"

TerminalResult(d) ==
    IF \E i \in Segs : d[i] \in {"FAILED", "PENDING", "BLOCKED_TEMP"} THEN "PARTIAL_FAILED"
    ELSE IF \E i \in Segs : d[i] = "EXEMPT" THEN "SUCCEEDED_WITH_EXEMPTIONS"
    ELSE "SUCCEEDED_FULL"

\* enough: effective coverage reaches min_effective_coverage.
ResolveCoverageGate(result, enough) ==
    IF result \in SuccessResults /\ ~enough THEN "PARTIAL_FAILED" ELSE result

\* Variant of ApplyCheckpointDispositions: only EXEMPT is inherited.
ApplyCheckpointExemptions(d, saved) ==
    [i \in Segs |-> IF saved[i] = "EXEMPT" THEN "EXEMPT" ELSE d[i]]

\* What a new core takes over from a checkpoint of the same plan: COVERED and
\* EXEMPT are inherited, FAILED may be tried again, the rest stays pending.
ApplyCheckpointDispositions(d, saved) ==
    [i \in Segs |-> IF saved[i] \in {"COVERED", "EXEMPT"} THEN saved[i]
                    ELSE IF saved[i] = "FAILED" THEN "PENDING"
                    ELSE d[i]]
=============================================================================
