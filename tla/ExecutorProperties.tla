------------------------- MODULE ExecutorProperties -------------------------
(***************************************************************************)
(* What the coverage executor is meant to guarantee, stated over the       *)
(* module CoverageExecutor.                                                *)
(***************************************************************************)
EXTENDS CoverageExecutor

(* State: the values the variables of the node can have. *)
TypeOK ==
    /\ proc \in {"up", "killed", "threw"}
    /\ phase \in Phases
    /\ active \in BOOLEAN
    /\ goalSt \in {"none", "executing", "canceling"}
    /\ reply \in SUBSET Replies
    /\ mapChanged \in BOOLEAN
    /\ frozen \in SUBSET Maps
    /\ plan \in SUBSET PlanIds
    /\ disp \in [Segs -> Dispositions]
    /\ failure \in FailureClasses
    /\ resumed \in BOOLEAN
    /\ trk \in Tracker
    /\ navGh \in Nat /\ followGh \in Nat
    /\ pending \in SUBSET Outcomes
    /\ mode \in 0..4
    /\ age \in Nat
    /\ execIndex \in Segs \cup {0}
    /\ execAttempt \in 0..MaxAttempts
    /\ workNav \in BOOLEAN
    /\ rowStart \in BOOLEAN
    /\ rowPath \in [n : 0..2, from : SUBSET (Nat \X (Segs \cup {0}))]
    /\ cancelStarted \in BOOLEAN
    /\ elapsed \in Nat
    /\ quiet \in 0..StopSamples
    /\ lastSample \in BOOLEAN
    /\ tasks \in Nat
    /\ disk \in [PlanIds -> SUBSET [Segs -> Dispositions]]
    /\ goals \in SUBSET ChildGoals
    /\ restarts \in Nat

Current(g) == g.gen = trk.gen

-----------------------------------------------------------------------------
(* Results *)

\* A success tells the client that nothing failed or was left, and a
\* PARTIAL_FAILED always says why (finishTask, resolveCoverageGate and every
\* markFailed with its failure_class_).
ReplyTruthful ==
    \A r \in reply :
        /\ r.code \in SuccessResults => r.failed = 0 /\ r.left = 0
        /\ r.code = "PARTIAL_FAILED" => r.class # ""

\* A task that is answered with anything but STOP_FAILED leaves no child goal
\* behind that the tracker would still take for the current one (finishTask after
\* !sent(), from tickCancelling or sendNextSegment).
AnsweredTaskLeavesNoChild ==
    [][active /\ ~active' =>
          \A r \in reply' : r.code # "STOP_FAILED" => \A g \in goals : ~Current(g)]_vars

-----------------------------------------------------------------------------
(* Child goals *)

\* Once the stop request of a cancelled task has been made, the current child
\* goal is asked to cancel as soon as its handle is known, in whichever order
\* goal response, watchdog and cancel arrive (kStoreAndCancel).
StopReachesChild ==
    Cancelling /\ cancelStarted =>
        \A g \in goals : Current(g) /\ g.st = "running" => g.cancel

\* A goal whose handle is known is never left behind by a newer generation
\* without having been asked to cancel (watchdog: cancel first, then abandon).
LeftGoalsWereCancelled ==
    [][\A g \in goals :
          Current(g) /\ g.st = "running" /\ proc' = "up" /\ trk'.gen # trk.gen => g.cancel]_vars

\* An outcome is queued only when no goal is being waited for: the callbacks queue
\* it as they clear the tracker, and a newer goal is sent only once it is consumed.
OutcomeOnlyWhenIdle == pending # {} => ~trk.sent

\* While the task executes, a queued outcome is of the segment in hand, and that
\* is still open: an outcome of another segment, or of one already settled, would
\* corrupt its disposition.
OutcomeIsOfSegmentInHand ==
    Executing => \A o \in pending : o.idx = execIndex /\ disp[o.idx] = "PENDING"

\* What the node attempts before it marks a segment FAILED: the first attempt and
\* max_attempts_per_segment retries.  That is one more than the task core's option
\* of this name says ("Attempts granted to one segment before it is marked FAILED").
AttemptsPerSegment == MaxAttempts + 1

\* What the attempts of all segments of a plan allow: an attempt of a WORK segment
\* sends an approach and a row drive, one of a TRANSITION segment a drive, and the
\* last of them may be given up, which takes a generation as well.
GoalsPerTask ==
    AttemptsPerSegment * (3 * Cardinality(WorkSegs) + 2 * Cardinality(Segs \ WorkSegs))

\* Retries are bounded over approach, row and fallback together, whatever outcomes,
\* watchdog and stop do to the attempt count they share: the tasks of a process never
\* send or give up more goals than their segments' attempts allow.
DispatchesBounded == trk.gen <= tasks * GoalsPerTask

-----------------------------------------------------------------------------
(* Segments and rows *)

\* A segment settles once: within a task COVERED, FAILED and EXEMPT are final.
SegmentSettlesOnce ==
    [][active /\ active' =>
          \A i \in Segs : disp[i] \in {"COVERED", "FAILED", "EXEMPT"} => disp'[i] = disp[i]]_vars

\* Whenever the executor waits for, or is about to process, the end of a row
\* drive there is a row start pose, so that the driven pass can be committed.
DrivenRowHasStart ==
    Executing /\ mode \in {3, 4} /\ (trk.sent \/ pending # {}) => rowStart

\* A task that took over a checkpoint never goes back behind it: what the file
\* holds as COVERED or EXEMPT stays so until the task saves again.
ResumeKeepsCoverage ==
    resumed => \A p \in plan : \A d \in disk[p] : \A i \in Segs :
                  d[i] \in {"COVERED", "EXEMPT"} => disp[i] = d[i]

-----------------------------------------------------------------------------
(* Progress *)

\* Every task ends, even if no server ever answers and no pose can be read; a
\* cancelled one by the timeout of its stop.
TaskEnds == active ~> ~active

-----------------------------------------------------------------------------
(* Refinement *)

Service == INSTANCE CoverageService WITH
    SuccessResults <- SuccessResults,
    PartialResult <- "PARTIAL_FAILED",
    svc <- IF ~active THEN "idle" ELSE IF phase = "CANCELLING" THEN "stopping" ELSE "running",
    asked <- goalSt = "canceling",
    moved <- active /\ mapChanged,
    answer <- {r.code : r \in reply}

\* The node implements the service its clients see, progress included.
ServiceImplemented == Service!ServiceSpec

\* Its safety part, over map changes and over several tasks as well.
ServiceKept == Service!ServiceSafety

-----------------------------------------------------------------------------
(* Statements of the repository that the code does not keep *)

\* child_goal_tracker.hpp: "The generation is kept monotonic so stale callbacks
\* from a previous task stay stale."
OldTaskGoalsAreStale ==
    active => \A g \in goals : g.task < tasks => ~Current(g)

\* coverage_executor_node.hpp: "Child-goal handles (single active child
\* invariant)": no two child goals run at the servers at once, unless the older
\* one has been asked to cancel.
SingleActiveChild ==
    \A g, h \in goals :
        g.st = "running" /\ h.st = "running" /\ ~g.cancel /\ ~h.cancel => g = h

\* coverage_executor_node.hpp: child_mode_ "1 = repositioning to a work-line
\* start (approach)"; processOutcome: "failure retries the approach".
ApproachGoesToStart ==
    Executing /\ mode = 1 => \A g \in goals : Current(g) => g.to = "start"

\* coverage_executor_node.hpp: work_row_path_ holds the "actual driven poses
\* sampled during a work row; committed as a polyline sweep on row completion".
CommitsOwnRow ==
    [][\A i \in Segs :
          disp[i] = "PENDING" /\ disp'[i] = "COVERED" /\ mode \in {3, 4} /\ rowPath.n = 2
              => rowPath.from = {<<tasks, i>>}]_vars

\* mapCallback: "Content change during a task: safe stop (R23 -> MAP_CHANGED)":
\* the node survives it and the client gets its result.
NeverThrows == proc # "threw"
=============================================================================
