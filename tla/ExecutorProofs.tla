--------------------------- MODULE ExecutorProofs ---------------------------
(***************************************************************************)
(* Proofs about the coverage executor: type correctness, truthful results  *)
(* and the queue of outcomes, for every plan, every bound and every number *)
(* of tasks and restarts.                                                  *)
(***************************************************************************)
EXTENDS ExecutorProperties, FiniteSetTheorems, TLAPS

-----------------------------------------------------------------------------
(* The tracker *)

\* Every method of the tracker leaves a tracker (ChildGoalTracker).
LEMMA TrackerTyped ==
    ASSUME NEW t \in Tracker
    PROVE  /\ Clear(t) \in Tracker /\ ~Clear(t).sent
           /\ Dispatch(t) \in Tracker /\ Dispatch(t).sent
           /\ Abandon(t) \in Tracker /\ ~Abandon(t).sent
           /\ RequestCancel(t) \in Tracker /\ RequestCancel(t).sent = t.sent
           /\ NoteCancelSent(t) \in Tracker /\ NoteCancelSent(t).sent = t.sent
<1>1. Clear(t) \in Tracker /\ ~Clear(t).sent
  BY DEF Tracker, Clear, Quiescent
<1>2. Dispatch(t) \in Tracker /\ Dispatch(t).sent
  <2>1. Quiescent(t.gen + 1) \in Tracker
    BY DEF Tracker, Quiescent
  <2>2. Dispatch(t) = [Quiescent(t.gen + 1) EXCEPT !.sent = TRUE]
    BY DEF Dispatch
  <2> QED
    BY <2>1, <2>2 DEF Tracker
<1>3. Abandon(t) \in Tracker /\ ~Abandon(t).sent
  BY DEF Tracker, Abandon, Quiescent
<1>4. RequestCancel(t) \in Tracker /\ RequestCancel(t).sent = t.sent
  <2> DEFINE wanted == t.cancelWanted \/ t.sent
  <2>1. wanted \in BOOLEAN
    OBVIOUS
  <2>2. RequestCancel(t) = [t EXCEPT !.cancelWanted = wanted]
    BY DEF RequestCancel
  <2> HIDE DEF wanted
  <2> QED
    BY <2>1, <2>2 DEF Tracker
<1>5. NoteCancelSent(t) \in Tracker /\ NoteCancelSent(t).sent = t.sent
  BY DEF Tracker, NoteCancelSent
<1> QED
  BY <1>1, <1>2, <1>3, <1>4, <1>5

\* What a goal response or a result makes of the tracker; only a callback of the
\* current generation ends the wait (onGoalResponse, onResult).
LEMMA CallbackTyped ==
    ASSUME NEW t \in Tracker, NEW g, NEW accepted \in BOOLEAN
    PROVE  /\ AfterGoalResponse(t, g, accepted) \in Tracker
           /\ AfterGoalResponse(t, g, accepted).sent => t.sent
           /\ g = t.gen /\ ~accepted => ~AfterGoalResponse(t, g, accepted).sent
           /\ AfterResult(t, g) \in Tracker
           /\ AfterResult(t, g).sent => t.sent
           /\ g = t.gen => ~AfterResult(t, g).sent
  BY DEF Tracker, AfterGoalResponse, AfterResult, Clear, Quiescent

-----------------------------------------------------------------------------
(* The dispositions *)

Core == [Segs -> Dispositions]

\* Marking a segment leaves dispositions (markCovered, markFailed).
LEMMA CoreTyped ==
    ASSUME NEW d \in Core, NEW i \in Segs
    PROVE  MarkCovered(d, i) \in Core /\ MarkFailed(d, i) \in Core
  BY DEF Core, Dispositions, MarkCovered, MarkFailed

\* What is taken over from a checkpoint is well formed whatever the file held
\* (applyCheckpointDispositions).
LEMMA ApplyTyped ==
    ASSUME NEW d \in Core, NEW saved
    PROVE  ApplyCheckpointDispositions(d, saved) \in Core
  BY DEF Core, Dispositions, ApplyCheckpointDispositions

\* The segments of a plan and those with one disposition are finite sets, so
\* that they can be counted.
LEMMA CountTyped ==
    ASSUME NEW d, NEW x
    PROVE  /\ IsFiniteSet(WithDisposition(d, x))
           /\ Count(d, x) \in Nat
           /\ (\A i \in Segs : d[i] # x) => Count(d, x) = 0
<1>1. IsFiniteSet(Segs)
  BY FS_Interval, NumSegsAssumption DEF Segs
<1>2. IsFiniteSet(WithDisposition(d, x))
  BY <1>1, FS_Subset DEF WithDisposition
<1>3. Count(d, x) \in Nat
  BY <1>2, FS_CardinalityType DEF Count
<1>4. ASSUME \A i \in Segs : d[i] # x
      PROVE  Count(d, x) = 0
  <2>1. WithDisposition(d, x) = {}
    BY <1>4 DEF WithDisposition
  <2> QED
    BY <2>1, FS_EmptySet DEF Count
<1> QED
  BY <1>2, <1>3, <1>4

\* The terminal result and the coverage gate: a success means that no segment is
\* FAILED or PENDING, and PARTIAL_FAILED is returned only for a plan with such a
\* segment or for too little coverage (terminalResult, resolveCoverageGate).
LEMMA GateTruthful ==
    ASSUME NEW d \in Core, NEW enough \in BOOLEAN
    PROVE  LET r == ResolveCoverageGate(TerminalResult(d), enough)
           IN  /\ r \in TerminalResults
               /\ r \in SuccessResults => Count(d, "FAILED") = 0 /\ Count(d, "PENDING") = 0
               /\ r = "PARTIAL_FAILED" =>
                     ~enough \/ \E i \in Segs : d[i] \in {"FAILED", "PENDING", "BLOCKED_TEMP"}
<1>1. TerminalResult(d) \in SuccessResults =>
          \A i \in Segs : d[i] # "FAILED" /\ d[i] # "PENDING"
  BY DEF TerminalResult, SuccessResults
<1>2. TerminalResult(d) \in SuccessResults => Count(d, "FAILED") = 0 /\ Count(d, "PENDING") = 0
  BY <1>1, CountTyped
<1>3. TerminalResult(d) = "PARTIAL_FAILED" =>
          \E i \in Segs : d[i] \in {"FAILED", "PENDING", "BLOCKED_TEMP"}
  BY DEF TerminalResult
<1>4. TerminalResult(d) \in TerminalResults
  BY DEF TerminalResult, TerminalResults, SuccessResults
<1> QED
  BY <1>2, <1>3, <1>4 DEF ResolveCoverageGate, SuccessResults, TerminalResults

-----------------------------------------------------------------------------
(* Type correctness *)

\* The child goal that is sent, and the outcome of an abandoned one, take their
\* segment from exec_index_: it is one of the plan by then.
TypeInv ==
    /\ TypeOK
    /\ execIndex = 0 => ~trk.sent /\ mode = 0

\* The values a process starts with are well typed (the member initialisers).
LEMMA FreshTyped ==
    /\ FreshCore \in [Segs -> Dispositions]
    /\ NewTracker \in Tracker /\ ~NewTracker.sent
    /\ EmptyPath \in [n : 0..2, from : SUBSET (Nat \X (Segs \cup {0}))]
    /\ 0 \in 0..MaxAttempts /\ 0 \in 0..StopSamples /\ 0 \in 0..4
    /\ "BOOTSTRAP" \in Phases /\ "READY_IDLE" \in Phases /\ "" \in FailureClasses
<1>1. FreshCore \in [Segs -> Dispositions]
  BY DEF FreshCore, Dispositions
<1>2. NewTracker \in Tracker /\ ~NewTracker.sent
  BY DEF NewTracker, Quiescent, Tracker
<1>3. EmptyPath \in [n : 0..2, from : SUBSET (Nat \X (Segs \cup {0}))]
  <2> DEFINE poses == {}
             two == 0..2
             all == Nat \X (Segs \cup {0})
  <2>1. poses \in SUBSET all /\ 0 \in two
    OBVIOUS
  <2>2. EmptyPath = [n |-> 0, from |-> poses]
    BY DEF EmptyPath
  <2> HIDE DEF poses, two, all
  <2>3. EmptyPath \in [n : two, from : SUBSET all]
    BY <2>1, <2>2
  <2> QED
    BY <2>3 DEF two, all
<1>4. 0 \in 0..MaxAttempts /\ 0 \in 0..StopSamples /\ 0 \in 0..4
  BY ExecutorAssumption
<1>5. "BOOTSTRAP" \in Phases /\ "READY_IDLE" \in Phases /\ "" \in FailureClasses
  BY DEF Phases, FailureClasses
<1> QED
  BY <1>1, <1>2, <1>3, <1>4, <1>5

\* The process starts well typed (the constructor).
LEMMA TypeInit == Init => TypeInv
<1> SUFFICES ASSUME Init PROVE TypeInv
  OBVIOUS
<1>1. disk \in [PlanIds -> SUBSET [Segs -> Dispositions]]
  <2> DEFINE files == SUBSET [Segs -> Dispositions]
             none == {}
  <2>1. none \in files
    OBVIOUS
  <2>2. disk = [p \in PlanIds |-> none]
    BY DEF Init
  <2> HIDE DEF files, none
  <2>3. disk \in [PlanIds -> files]
    BY <2>1, <2>2
  <2> QED
    BY <2>3 DEF files
<1> QED
  BY <1>1, FreshTyped DEF Init, TypeInv, TypeOK

\* A process that dies, with its memory lost, is as well typed as a new one.
LEMMA DiesTyped ==
    ASSUME NEW reason \in {"killed", "threw"}, Dies(reason), restarts' \in Nat,
           disk' \in [PlanIds -> SUBSET [Segs -> Dispositions]]
    PROVE  TypeInv'
  BY FreshTyped DEF Dies, TypeInv, TypeOK

\* finishTask leaves the task state well typed.
LEMMA FinishTyped ==
    ASSUME NEW code \in TerminalResults, NEW class \in FailureClasses,
           NEW failed \in Nat, NEW left \in Nat,
           FinishTask(code, class, failed, left)
    PROVE  /\ reply' \in SUBSET Replies /\ active' \in BOOLEAN
           /\ goalSt' \in {"none", "executing", "canceling"}
           /\ phase' \in Phases /\ plan' \in SUBSET PlanIds
           /\ disp' \in [Segs -> Dispositions] /\ resumed' \in BOOLEAN
           /\ failure' \in FailureClasses /\ cancelStarted' \in BOOLEAN
           /\ lastSample' \in BOOLEAN /\ rowStart' \in BOOLEAN
<1>1. [code |-> code, class |-> class, failed |-> failed, left |-> left] \in Replies
  BY DEF Replies
<1>2. reply' \in SUBSET Replies
  BY <1>1 DEF FinishTask
<1> QED
  BY <1>2, FreshTyped DEF FinishTask

\* saveCheckpoint writes the dispositions of the task, or nothing.
LEMMA SaveTyped ==
    ASSUME TypeOK, SaveCheckpoint
    PROVE  disk' \in [PlanIds -> SUBSET [Segs -> Dispositions]]
<1>1. CASE UNCHANGED disk
  BY <1>1 DEF TypeOK
<1>2. CASE \E q \in plan : disk' = [disk EXCEPT ![q] = {disp}]
  BY <1>2 DEF TypeOK
<1> QED
  BY <1>1, <1>2 DEF SaveCheckpoint

\* sendNavigate and sendFollow for a segment of the plan.
LEMMA SendTyped ==
    ASSUME TypeOK, NEW idx \in Segs, NEW kind \in {"nav", "follow"},
           NEW to \in {"start", "end"}, NEW t \in Tracker,
           NEW nav \in Nat, NEW fol \in Nat,
           Send(kind, to, idx, t, nav, fol)
    PROVE  /\ pending' \in SUBSET Outcomes /\ trk' \in Tracker
           /\ navGh' \in Nat /\ followGh' \in Nat
           /\ goals' \in SUBSET ChildGoals /\ age' \in Nat
<1>1. CASE /\ pending' = {[idx |-> idx, ok |-> FALSE]}
           /\ trk' = t /\ navGh' = nav /\ followGh' = fol
           /\ UNCHANGED <<goals, age>>
  BY <1>1 DEF TypeOK, Outcomes
<1>2. CASE /\ pending' = {}
           /\ trk' = Dispatch(t)
           /\ goals' = goals \cup
                 {[gen |-> t.gen + 1, task |-> tasks, idx |-> idx, kind |-> kind,
                   to |-> to, st |-> "sent", cancel |-> FALSE]}
           /\ navGh' = IF kind = "nav" THEN 0 ELSE nav
           /\ followGh' = IF kind = "follow" THEN 0 ELSE fol
           /\ age' = 0
  <2>1. trk' \in Tracker
    BY <1>2, TrackerTyped
  <2>2. t.gen + 1 \in Nat /\ tasks \in Nat
    BY DEF Tracker, TypeOK
  <2>3. [gen |-> t.gen + 1, task |-> tasks, idx |-> idx, kind |-> kind,
         to |-> to, st |-> "sent", cancel |-> FALSE] \in ChildGoals
    BY <2>2 DEF ChildGoals, GoalStates
  <2> QED
    BY <1>2, <2>1, <2>3 DEF TypeOK
<1> QED
  BY <1>1, <1>2 DEF Send
\* The prefix every accepted goal goes through.
LEMMA BeginTyped ==
    ASSUME TypeInv, BeginTaskResets
    PROVE  /\ tasks' \in Nat /\ mapChanged' \in BOOLEAN
           /\ trk' \in Tracker /\ ~trk'.sent /\ pending' \in SUBSET Outcomes
<1>1. trk \in Tracker /\ tasks \in Nat
  BY DEF TypeInv, TypeOK
<1>2. tasks' = tasks + 1 /\ mapChanged' = FALSE /\ trk' = Clear(trk) /\ pending' = {}
  BY DEF BeginTaskResets
<1>3. tasks' \in Nat
  BY <1>1, <1>2
<1>4. Clear(trk) \in Tracker /\ ~Clear(trk).sent
  BY <1>1, TrackerTyped
<1>5. pending' \in SUBSET Outcomes
  BY <1>2
<1> QED
  BY <1>2, <1>3, <1>4, <1>5

\* Processing an outcome of a segment of the plan: each way it can go.
LEMMA ProcessTyped ==
    ASSUME TypeInv, NEW o \in Outcomes, NEW reached \in BOOLEAN,
           NEW t \in Tracker, NEW nav \in Nat, NEW fol \in Nat, ~t.sent,
           ProcessOutcome(o, reached, t, nav, fol), proc' \in {"up", "killed", "threw"},
           restarts' \in Nat
    PROVE  TypeInv'
<1> USE DEF TypeInv, TypeOK
<1>1. /\ phase' = phase /\ active' = active /\ goalSt' = goalSt /\ reply' = reply
      /\ tasks' = tasks /\ plan' = plan /\ resumed' = resumed /\ frozen' = frozen
      /\ mapChanged' = mapChanged /\ execIndex' = execIndex
      /\ cancelStarted' = cancelStarted /\ elapsed' = elapsed /\ quiet' = quiet
      /\ lastSample' = lastSample /\ disk' = disk
  BY DEF ProcessOutcome, taskVars, mapVars, stopVars
<1>2. o.idx \in Segs
  BY DEF Outcomes
<1>3. /\ MarkCovered(disp, o.idx) \in [Segs -> Dispositions]
      /\ MarkFailed(disp, o.idx) \in [Segs -> Dispositions]
  <2>1. disp \in Core
    BY DEF Core
  <2>2. MarkCovered(disp, o.idx) \in Core /\ MarkFailed(disp, o.idx) \in Core
    BY <1>2, <2>1, CoreTyped
  <2> QED
    BY <2>2 DEF Core
<1>4. mode = 1 => execIndex \in Segs
  OBVIOUS
<1>5. \A class \in FailureClasses : FirstFailure(class) \in FailureClasses
  BY DEF FirstFailure
<1>6. AttemptsLeft => execAttempt + 1 \in 0..MaxAttempts
  BY ExecutorAssumption DEF AttemptsLeft
<1>7. CASE ApproachSucceeded(o, t, nav, fol)
  <2>1. Send("follow", "end", execIndex, t, nav, fol) /\ execIndex \in Segs
    BY <1>4, <1>7 DEF ApproachSucceeded
  <2>2. /\ pending' \in SUBSET Outcomes /\ trk' \in Tracker /\ navGh' \in Nat
        /\ followGh' \in Nat /\ goals' \in SUBSET ChildGoals /\ age' \in Nat
    BY <2>1, SendTyped
  <2> QED
    BY <1>1, <1>7, <2>1, <2>2, NumSegsAssumption DEF ApproachSucceeded, RowStarts, Segs
<1>8. CASE ApproachRetried(o, t, nav, fol)
  <2>1. Send("nav", "end", execIndex, t, nav, fol) /\ execIndex \in Segs
    BY <1>4, <1>8 DEF ApproachRetried
  <2>2. /\ pending' \in SUBSET Outcomes /\ trk' \in Tracker /\ navGh' \in Nat
        /\ followGh' \in Nat /\ goals' \in SUBSET ChildGoals /\ age' \in Nat
    BY <2>1, SendTyped
  <2> QED
    BY <1>1, <1>6, <1>8, <2>1, <2>2, NumSegsAssumption DEF ApproachRetried, rowVars, Segs
<1>9. ASSUME SendsNothing(t, nav, fol)
      PROVE  /\ pending' \in SUBSET Outcomes /\ trk' \in Tracker /\ ~trk'.sent
             /\ navGh' \in Nat /\ followGh' \in Nat
             /\ goals' \in SUBSET ChildGoals /\ age' \in Nat
  BY <1>9 DEF SendsNothing
<1>10. CASE ApproachExhausted(o, t, nav, fol)
  <2>1. failure' \in FailureClasses /\ disp' \in [Segs -> Dispositions]
    BY <1>3, <1>5, <1>10 DEF ApproachExhausted, FailureClasses
  <2> QED
    BY <1>1, <1>9, <1>10, <2>1 DEF ApproachExhausted, rowVars
<1>11. CASE DriveSucceeded(o, reached, t, nav, fol)
  <2>1. disp' \in [Segs -> Dispositions]
    BY <1>3, <1>11 DEF DriveSucceeded
  <2>2. /\ mode' = 0 /\ rowStart' = FALSE /\ rowPath' = EmptyPath
        /\ failure' = failure /\ execAttempt' = execAttempt /\ workNav' = workNav
    BY <1>11 DEF DriveSucceeded
  <2>3. SendsNothing(t, nav, fol)
    BY <1>11 DEF DriveSucceeded
  <2>4. rowPath' \in [n : 0..2, from : SUBSET (Nat \X (Segs \cup {0}))]
    BY <2>2, FreshTyped
  <2>5. mode' \in 0..4 /\ rowStart' \in BOOLEAN
    <3>1. mode' \in 0..4
      BY <2>2, FreshTyped
    <3>2. rowStart' \in BOOLEAN
      BY <2>2, Zenon
    <3> QED
      BY <3>1, <3>2
  <2>6. failure' \in FailureClasses /\ execAttempt' \in 0..MaxAttempts /\ workNav' \in BOOLEAN
    BY <2>2
  <2>7. /\ pending' \in SUBSET Outcomes /\ trk' \in Tracker /\ ~trk'.sent
        /\ navGh' \in Nat /\ followGh' \in Nat
        /\ goals' \in SUBSET ChildGoals /\ age' \in Nat
    BY <1>9, <2>3
  <2> QED
    BY <1>1, <2>1, <2>2, <2>4, <2>5, <2>6, <2>7
<1>12. CASE DriveFailed(o, reached, t, nav, fol)
  <2>1. failure' \in FailureClasses /\ disp' \in [Segs -> Dispositions]
    BY <1>3, <1>5, <1>12 DEF DriveFailed, FailureClasses
  <2>2. execAttempt' \in 0..MaxAttempts /\ workNav' \in BOOLEAN
    BY <1>6, <1>12 DEF DriveFailed
  <2>3. mode' = 0 /\ rowStart' = FALSE /\ rowPath' = rowPath
    BY <1>12 DEF DriveFailed
  <2>4. SendsNothing(t, nav, fol)
    BY <1>12 DEF DriveFailed
  <2> QED
    BY <1>1, <1>9, <2>1, <2>2, <2>3, <2>4, FreshTyped
<1> QED
  BY <1>7, <1>8, <1>10, <1>11, <1>12 DEF ProcessOutcome
\* The readiness gates, a map message and the cancel callback.
LEMMA FrontTyped ==
    ASSUME TypeInv,
           \/ TickReadiness \/ ClientCancel \/ Restart \/ TfSampler
           \/ \E m \in Maps : MapCallback(m)
    PROVE  TypeInv'
<1> USE DEF TypeInv, TypeOK
<1>1. CASE TickReadiness
  BY <1>1 DEF TickReadiness, Phases, worldVars, taskVars, planVars, mapVars, childVars,
              segVars, rowVars, stopVars
<1>2. CASE \E m \in Maps : MapCallback(m)
  <2> PICK m \in Maps : MapCallback(m)
    BY <1>2
  <2>1. frozen' \in SUBSET Maps /\ phase' \in Phases /\ mapChanged' \in BOOLEAN
    BY DEF MapCallback, Phases
  <2> QED
    BY <2>1 DEF MapCallback, worldVars, taskVars, planVars, childVars, segVars, rowVars,
                stopVars
<1>3. CASE ClientCancel
  BY <1>3 DEF ClientCancel, Phases, worldVars, planVars, mapVars, childVars, segVars,
              rowVars, stopVars
<1>4. CASE Restart
  BY <1>4 DEF Restart, taskVars, planVars, mapVars, childVars, segVars, rowVars, stopVars
<1>5. CASE TfSampler
  <2>1. rowPath' \in [n : 0..2, from : SUBSET (Nat \X (Segs \cup {0}))]
    <3>1. Capped(rowPath.n + 1, 2) \in 0..2
      BY DEF Capped
    <3>2. rowPath.from \cup {<<tasks, execIndex>>} \in SUBSET (Nat \X (Segs \cup {0}))
      BY NumSegsAssumption DEF Segs
    <3> QED
      BY <1>5, <3>1, <3>2 DEF TfSampler
  <2> QED
    BY <1>5, <2>1 DEF TfSampler, worldVars, taskVars, planVars, mapVars, childVars,
                      segVars, stopVars
<1> QED
  BY <1>1, <1>2, <1>3, <1>4, <1>5

\* Accepting a goal: it is answered at once, or the task starts.
LEMMA BeginTaskTyped ==
    ASSUME TypeInv,
           \/ \E class \in {"LOCALIZATION_FAILED", "EMPTY_PLAN", "PLANNING_FAILED"} :
                 BeginTaskFails(class)
           \/ \E resume \in ResumeRequests, seed \in Seeds :
                 BeginTaskStarts(resume, seed) \/ BeginTaskMismatch(resume, seed)
    PROVE  TypeInv'
<1> USE DEF TypeInv, TypeOK
<1>0. ASSUME BeginTaskResets
      PROVE  /\ proc' = proc /\ restarts' = restarts /\ frozen' = frozen /\ navGh' = navGh
             /\ followGh' = followGh /\ goals' = goals /\ mode' = mode /\ age' = age
             /\ execIndex' = execIndex /\ execAttempt' = execAttempt /\ workNav' = workNav
             /\ rowPath' = rowPath /\ elapsed' = elapsed /\ quiet' = quiet /\ disk' = disk
  BY <1>0 DEF BeginTaskResets, worldVars, segVars
<1>1. ASSUME NEW class \in FailureClasses, BeginTaskResets, NEW left \in Nat,
             FinishTask("PARTIAL_FAILED", class, 0, left)
      PROVE  TypeInv'
  <2>1. "PARTIAL_FAILED" \in TerminalResults /\ 0 \in Nat
    BY DEF TerminalResults
  <2> HIDE DEF TypeInv
  <2>2. /\ reply' \in SUBSET Replies /\ active' \in BOOLEAN
        /\ goalSt' \in {"none", "executing", "canceling"}
        /\ phase' \in Phases /\ plan' \in SUBSET PlanIds
        /\ disp' \in [Segs -> Dispositions] /\ resumed' \in BOOLEAN
        /\ failure' \in FailureClasses /\ cancelStarted' \in BOOLEAN
        /\ lastSample' \in BOOLEAN /\ rowStart' \in BOOLEAN
    BY <1>1, <2>1, FinishTyped
  <2>3. /\ tasks' \in Nat /\ mapChanged' \in BOOLEAN
        /\ trk' \in Tracker /\ ~trk'.sent /\ pending' \in SUBSET Outcomes
    BY <1>1, BeginTyped
  <2> QED
    BY <1>0, <1>1, <2>2, <2>3 DEF TypeInv
<1>2. CASE \E class \in {"LOCALIZATION_FAILED", "EMPTY_PLAN", "PLANNING_FAILED"} :
              BeginTaskFails(class)
  BY <1>1, <1>2 DEF BeginTaskFails, FailureClasses
<1>3. ASSUME NEW resume \in ResumeRequests, NEW seed \in Seeds,
             BeginTaskMismatch(resume, seed)
      PROVE  TypeInv'
  BY <1>1, <1>3, NumSegsAssumption DEF BeginTaskMismatch, FailureClasses
<1>4. ASSUME NEW resume \in ResumeRequests, NEW seed \in Seeds,
             BeginTaskStarts(resume, seed)
      PROVE  TypeInv'
  <2>1. BeginTaskResets
    BY <1>4 DEF BeginTaskStarts
  <2>2. /\ tasks' \in Nat /\ mapChanged' \in BOOLEAN
        /\ trk' \in Tracker /\ ~trk'.sent /\ pending' \in SUBSET Outcomes
    <3> HIDE DEF TypeInv
    <3> QED
      BY <2>1, BeginTyped
  <2>3. disp' \in [Segs -> Dispositions]
    <3>1. FreshCore \in Core
      BY FreshTyped DEF Core
    <3>2. \A saved : ApplyCheckpointDispositions(FreshCore, saved) \in Core
      BY <3>1, ApplyTyped
    <3> QED
      BY <1>4, <3>1, <3>2 DEF BeginTaskStarts, Core
  <2>4. plan' \in SUBSET PlanIds
    BY <1>4 DEF BeginTaskStarts, PlanIds
  <2>5. /\ active' = TRUE /\ goalSt' = "executing" /\ reply' = {} /\ failure' = ""
        /\ phase' = "EXECUTING_SEGMENT" /\ rowStart' = FALSE /\ cancelStarted' = FALSE
        /\ lastSample' = lastSample
    BY <1>4, Zenon DEF BeginTaskStarts
  <2>9. resumed' \in BOOLEAN
    <3>1. resumed' = (resume \in PlanIds)
      BY <1>4, Zenon DEF BeginTaskStarts
    <3>2. CASE resume \in PlanIds
      BY <3>1, <3>2
    <3>3. CASE resume \notin PlanIds
      BY <3>1, <3>3
    <3> QED
      BY <3>2, <3>3
  <2>6. phase' \in Phases /\ failure' \in FailureClasses /\ reply' \in SUBSET Replies
    BY <2>5 DEF Phases, FailureClasses
  <2>7. TypeOK'
    BY <1>0, <2>1, <2>2, <2>3, <2>4, <2>5, <2>6, <2>9
  <2>8. execIndex' = 0 => ~trk'.sent /\ mode' = 0
    BY <1>0, <2>1, <2>2
  <2> QED
    BY <2>7, <2>8
<1> QED
  BY <1>2, <1>3, <1>4
\* A child goal that changes its state or is asked to cancel is still one.
LEMMA GoalsTyped ==
    ASSUME TypeOK, NEW g \in goals
    PROVE  /\ g \in ChildGoals
           /\ \A st \in GoalStates : [g EXCEPT !.st = st] \in ChildGoals
           /\ [g EXCEPT !.cancel = TRUE] \in ChildGoals
           /\ \A h \in ChildGoals : Replaced(g, h) \in SUBSET ChildGoals
           /\ goals \ {g} \in SUBSET ChildGoals
           /\ [idx |-> g.idx, ok |-> FALSE] \in Outcomes
           /\ [idx |-> g.idx, ok |-> (g.st = "ok")] \in Outcomes
<1>1. g \in ChildGoals /\ goals \in SUBSET ChildGoals
  BY DEF TypeOK
<1>2. \A st \in GoalStates : [g EXCEPT !.st = st] \in ChildGoals
  BY <1>1 DEF ChildGoals
<1>3. [g EXCEPT !.cancel = TRUE] \in ChildGoals
  BY <1>1 DEF ChildGoals
<1>4. \A h \in ChildGoals : Replaced(g, h) \in SUBSET ChildGoals
  BY <1>1 DEF Replaced
<1>5. g.idx \in Segs
  BY <1>1 DEF ChildGoals
<1>6. \A b \in BOOLEAN : [idx |-> g.idx, ok |-> b] \in Outcomes
  BY <1>5 DEF Outcomes
<1> QED
  BY <1>1, <1>2, <1>3, <1>4, <1>6

\* The callbacks of the two action clients.
LEMMA CallbacksTyped ==
    ASSUME TypeInv, NEW g \in goals, Callbacks(g)
    PROVE  TypeInv'
<1> USE DEF TypeInv, TypeOK
<1>1. g \in ChildGoals /\ g.gen \in Nat /\ g.kind \in {"nav", "follow"}
  BY DEF ChildGoals
<1>2. /\ goals \ {g} \in SUBSET ChildGoals
      /\ [idx |-> g.idx, ok |-> FALSE] \in Outcomes
      /\ [idx |-> g.idx, ok |-> (g.st = "ok")] \in Outcomes
  BY GoalsTyped
<1>3. StoreHandle(g) => navGh' \in Nat /\ followGh' \in Nat
  BY <1>1 DEF StoreHandle
<1>4. DropHandle(g) => navGh' \in Nat /\ followGh' \in Nat
  BY DEF DropHandle
<1>5. CASE GoalResponseCallback(g)
  <2> DEFINE accepted == g.st = "accepted"
             known    == [g EXCEPT !.st = "running"]
             after    == AfterGoalResponse(trk, g.gen, accepted)
  <2>1. after \in Tracker /\ (after.sent => trk.sent)
    BY CallbackTyped
  <2>2. NoteCancelSent(after) \in Tracker /\ (NoteCancelSent(after).sent => trk.sent)
    BY <2>1, TrackerTyped
  <2>3. known \in ChildGoals /\ Replaced(g, known) \in SUBSET ChildGoals
    <3>1. "running" \in GoalStates
      BY DEF GoalStates
    <3> QED
      BY <3>1, GoalsTyped
  <2>4. Replaced(g, [known EXCEPT !.cancel = TRUE]) \in SUBSET ChildGoals
    <3>1. [known EXCEPT !.cancel = TRUE] \in ChildGoals
      BY <2>3 DEF ChildGoals
    <3> QED
      BY <3>1, GoalsTyped
  <2>5. /\ goals' \in SUBSET ChildGoals /\ trk' \in Tracker /\ (trk'.sent => trk.sent)
        /\ navGh' \in Nat /\ followGh' \in Nat /\ pending' \in SUBSET Outcomes
    <3> HIDE DEF accepted, known, after
    <3>1. CASE /\ goals' = IF accepted THEN Replaced(g, known) ELSE goals \ {g}
               /\ UNCHANGED <<trk, navGh, followGh, pending>>
      BY <3>1, <1>2, <2>3
    <3>2. CASE /\ goals' = goals \ {g}
               /\ trk' = after
               /\ DropHandle(g)
               /\ pending' = IF phase # "CANCELLING" THEN {[idx |-> g.idx, ok |-> FALSE]}
                             ELSE pending
      BY <3>2, <1>2, <1>4, <2>1
    <3>3. CASE /\ goals' = Replaced(g, [known EXCEPT !.cancel = TRUE])
               /\ trk' = NoteCancelSent(after)
               /\ UNCHANGED <<navGh, followGh, pending>>
      BY <3>3, <2>2, <2>4
    <3>4. CASE /\ goals' = Replaced(g, known)
               /\ trk' = after
               /\ StoreHandle(g)
               /\ UNCHANGED pending
      BY <3>4, <1>3, <2>1, <2>3
    <3> QED
      BY <1>5, <3>1, <3>2, <3>3, <3>4 DEF GoalResponseCallback, accepted, known, after
  <2> QED
    BY <1>5, <2>5 DEF GoalResponseCallback, worldVars, taskVars, planVars, mapVars,
                      segVars, rowVars, stopVars
<1>6. CASE GoalResultCallback(g)
  <2>1. trk' \in Tracker /\ (trk'.sent => trk.sent)
    BY <1>6, CallbackTyped DEF GoalResultCallback
  <2>2. goals' \in SUBSET ChildGoals /\ pending' \in SUBSET Outcomes
    BY <1>2, <1>6 DEF GoalResultCallback
  <2>3. navGh' \in Nat /\ followGh' \in Nat
    BY <1>4, <1>6 DEF GoalResultCallback
  <2> QED
    BY <1>6, <2>1, <2>2, <2>3 DEF GoalResultCallback, worldVars, taskVars, planVars,
                                  mapVars, segVars, rowVars, stopVars
<1> QED
  BY <1>5, <1>6 DEF Callbacks

\* A step of a Nav2 server.
LEMMA Nav2Typed ==
    ASSUME TypeInv, NEW g \in goals, Nav2(g)
    PROVE  TypeInv'
<1>1. goals' \in SUBSET ChildGoals
  <2>1. PICK st \in GoalStates : goals' = Replaced(g, [g EXCEPT !.st = st])
    BY DEF Nav2, ServerAnswers, ServerEnds, GoalStates
  <2> QED
    BY <2>1, GoalsTyped DEF TypeInv
<1> QED
  BY <1>1 DEF Nav2, TypeInv, TypeOK, worldVars, taskVars, planVars, mapVars, segVars,
              rowVars, stopVars
\* sendNextSegment: the plan is finished, or the next segment is started.
LEMMA NextSegmentTyped ==
    ASSUME TypeInv, TickNextSegment
    PROVE  TypeInv'
<1> USE DEF TypeInv, TypeOK
<1>1. CASE \E enough \in BOOLEAN : FinishPlan(enough)
  <2> PICK enough \in BOOLEAN : FinishPlan(enough)
    BY <1>1
  <2> DEFINE code  == ResolveCoverageGate(TerminalResult(disp), enough)
             class == IF enough THEN failure ELSE FirstFailure("COVERAGE_BELOW_THRESHOLD")
  <2>1. disp \in Core
    BY DEF Core
  <2>2. code \in TerminalResults
    BY <2>1, GateTruthful
  <2>3. class \in FailureClasses
    BY DEF FirstFailure, FailureClasses
  <2>4. Count(disp, "FAILED") \in Nat /\ Count(disp, "PENDING") \in Nat
    BY CountTyped
  <2>5. FinishTask(code, class, Count(disp, "FAILED"), Count(disp, "PENDING"))
    BY DEF FinishPlan
  <2>6. SaveCheckpoint
    BY DEF FinishPlan
  <2> HIDE DEF code, class, TypeInv
  <2>7. /\ reply' \in SUBSET Replies /\ active' \in BOOLEAN
        /\ goalSt' \in {"none", "executing", "canceling"}
        /\ phase' \in Phases /\ plan' \in SUBSET PlanIds
        /\ disp' \in [Segs -> Dispositions] /\ resumed' \in BOOLEAN
        /\ failure' \in FailureClasses /\ cancelStarted' \in BOOLEAN
        /\ lastSample' \in BOOLEAN /\ rowStart' \in BOOLEAN
    BY <2>2, <2>3, <2>4, <2>5, FinishTyped
  <2>8. disk' \in [PlanIds -> SUBSET [Segs -> Dispositions]]
    BY <2>6, SaveTyped DEF TypeInv
  <2>9. /\ UNCHANGED <<mapVars, tasks, childVars, pending, mode, age, segVars, rowPath,
                       elapsed, quiet>>
        /\ UNCHANGED worldVars
    BY DEF FinishPlan, TickNextSegment
  <2> QED
    BY <2>7, <2>8, <2>9 DEF TypeInv, mapVars, childVars, segVars, worldVars
<1>2. ASSUME NEW idx \in Segs, NEW near \in BOOLEAN, StartSegment(idx, near)
      PROVE  TypeInv'
  <2>1. execIndex' = idx /\ idx # 0
    BY <1>2 DEF StartSegment
  <2>2. execAttempt' \in 0..MaxAttempts /\ workNav' \in BOOLEAN
    BY <1>2, FreshTyped DEF StartSegment
  <2>3. phase' \in Phases
    BY <1>2 DEF StartSegment, Phases
  <2>4. \E m \in 1..4, kind \in {"nav", "follow"}, to \in {"start", "end"} :
            mode' = m /\ Send(kind, to, idx, trk, navGh, followGh)
    BY <1>2 DEF StartSegment
  <2>5. /\ pending' \in SUBSET Outcomes /\ trk' \in Tracker /\ navGh' \in Nat
        /\ followGh' \in Nat /\ goals' \in SUBSET ChildGoals /\ age' \in Nat
    <3> HIDE DEF TypeInv
    <3> QED
      BY <2>4, SendTyped DEF TypeInv
  <2>6. mode' \in 0..4
    BY <2>4
  <2>7. rowStart' \in BOOLEAN
        /\ rowPath' \in [n : 0..2, from : SUBSET (Nat \X (Segs \cup {0}))]
    <3>1. [n |-> 1, from |-> {<<tasks, idx>>}] \in
              [n : 0..2, from : SUBSET (Nat \X (Segs \cup {0}))]
      OBVIOUS
    <3> QED
      BY <1>2, <3>1 DEF StartSegment, RowStarts, rowVars
  <2>8. /\ UNCHANGED <<taskVars, planVars, mapVars, stopVars, disk>>
        /\ UNCHANGED worldVars
    BY <1>2 DEF StartSegment, TickNextSegment
  <2> QED
    BY <2>1, <2>2, <2>3, <2>5, <2>6, <2>7, <2>8
       DEF taskVars, planVars, mapVars, stopVars, worldVars
<1> QED
  BY <1>1, <1>2 DEF TickNextSegment

\* The watchdog and the wait of the tick for a child goal.
LEMMA WatchdogTyped ==
    ASSUME TypeInv, NEW dt \in {0, 1},
           \/ TickAbandon(dt) \/ TickCancelChild(dt) \/ TickWait(dt)
           \/ \E o \in pending, reached \in BOOLEAN : TickOutcome(o, reached)
    PROVE  TypeInv'
<1>1. AgeAt(dt) \in Nat
  BY ExecutorAssumption DEF TypeInv, TypeOK, AgeAt, Capped
<1>2. CASE TickAbandon(dt)
  <2>1. Abandon(trk) \in Tracker /\ ~Abandon(trk).sent
    BY TrackerTyped DEF TypeInv, TypeOK
  <2>2. trk.sent /\ execIndex \in Segs
    BY <1>2 DEF TickAbandon, Watched, Watch, TypeInv, TypeOK
  <2>3. [idx |-> execIndex, ok |-> FALSE] \in Outcomes
    BY <2>2 DEF Outcomes
  <2>4. UNCHANGED worldVars
        /\ ProcessOutcome([idx |-> execIndex, ok |-> FALSE], FALSE, Abandon(trk), 0, 0)
    BY <1>2 DEF TickAbandon
  <2>5. proc' \in {"up", "killed", "threw"} /\ restarts' \in Nat
    BY <2>4 DEF worldVars, TypeInv, TypeOK
  <2> QED
    BY <2>1, <2>3, <2>4, <2>5, ProcessTyped
<1>3. CASE TickCancelChild(dt)
  <2>1. CancelAsked(KnownHandles) \in SUBSET ChildGoals
    <3>1. \A g \in goals : g \in ChildGoals /\ [g EXCEPT !.cancel = TRUE] \in ChildGoals
      BY GoalsTyped DEF TypeInv
    <3> QED
      BY <3>1 DEF CancelAsked
  <2>2. trk' \in Tracker /\ trk'.sent = trk.sent
    BY <1>3, TrackerTyped DEF TickCancelChild, TypeInv, TypeOK
  <2>3. goals' \in SUBSET ChildGoals
    BY <1>3, <2>1 DEF TickCancelChild, TypeInv, TypeOK
  <2> QED
    BY <1>1, <1>3, <2>2, <2>3 DEF TickCancelChild, TypeInv, TypeOK, worldVars, taskVars,
       planVars, mapVars, segVars, rowVars, stopVars
<1>4. CASE TickWait(dt)
  BY <1>1, <1>4 DEF TickWait, TypeInv, TypeOK, worldVars, taskVars, planVars, mapVars,
     childVars, segVars, rowVars, stopVars
<1>5. ASSUME NEW o \in pending, NEW reached \in BOOLEAN, TickOutcome(o, reached)
      PROVE  TypeInv'
  <2>1. o \in Outcomes /\ trk \in Tracker /\ ~trk.sent /\ navGh \in Nat /\ followGh \in Nat
    BY <1>5 DEF TickOutcome, TypeInv, TypeOK
  <2>2. ProcessOutcome(o, reached, trk, navGh, followGh) /\ UNCHANGED worldVars
    BY <1>5 DEF TickOutcome
  <2>3. proc' \in {"up", "killed", "threw"} /\ restarts' \in Nat
    BY <2>2 DEF worldVars, TypeInv, TypeOK
  <2> QED
    BY <2>1, <2>2, <2>3, ProcessTyped
<1> QED
  BY <1>2, <1>3, <1>4, <1>5
\* The result of a stop and its class.
LEMMA StopTyped ==
    ASSUME TypeOK, NEW dt \in {0, 1}, NEW s
    PROVE  /\ StopResult(dt, s) \in TerminalResults \ {"PARTIAL_FAILED"}
           /\ StopResult(dt, s) \notin SuccessResults
           /\ StopClass(dt, s) \in FailureClasses
           /\ QuietAfter(s) \in 0..StopSamples
           /\ ElapsedAt(dt) \in Nat
<1>1. QuietAfter(s) \in 0..StopSamples
  BY ExecutorAssumption DEF TypeOK, QuietAfter, Capped
<1>2. ElapsedAt(dt) \in Nat
  BY ExecutorAssumption DEF TypeOK, ElapsedAt, Capped
<1>3. StopClass(dt, s) \in FailureClasses
  BY DEF TypeOK, StopClass, FailureClasses
<1>4. /\ StopResult(dt, s) \in TerminalResults \ {"PARTIAL_FAILED"}
      /\ StopResult(dt, s) \notin SuccessResults
  BY DEF StopResult, TerminalResults, SuccessResults, CancelResults
<1> QED
  BY <1>1, <1>2, <1>3, <1>4

\* The tick while the task is being stopped.
LEMMA StoppingTyped ==
    ASSUME TypeInv, NEW dt \in {0, 1},
           \/ TickStopRequest
           \/ \E s \in Samples : TickStopWait(dt, s) \/ TickStopped(dt, s)
    PROVE  TypeInv'
<1>1. CASE TickStopRequest
  <2>1. CancelAsked(KnownHandles) \in SUBSET ChildGoals
    <3>1. \A g \in goals : g \in ChildGoals /\ [g EXCEPT !.cancel = TRUE] \in ChildGoals
      BY GoalsTyped DEF TypeInv
    <3> QED
      BY <3>1 DEF CancelAsked
  <2>2. trk' \in Tracker /\ trk'.sent = trk.sent
    BY <1>1, TrackerTyped DEF TickStopRequest, TypeInv, TypeOK
  <2> QED
    BY <1>1, <2>1, <2>2 DEF TickStopRequest, TypeInv, TypeOK, worldVars, taskVars,
       planVars, mapVars, segVars, rowVars
<1>2. ASSUME NEW s \in Samples, TickStopWait(dt, s)
      PROVE  TypeInv'
  <2>1. quiet' \in 0..StopSamples /\ elapsed' \in Nat
    BY <1>2, StopTyped DEF TickStopWait, TypeInv
  <2>2. lastSample' \in BOOLEAN
    <3>1. lastSample' = (s # "none")
      BY <1>2, Zenon DEF TickStopWait
    <3>2. CASE s # "none"
      BY <3>1, <3>2
    <3>3. CASE s = "none"
      BY <3>1, <3>3
    <3> QED
      BY <3>2, <3>3
  <2>3. UNCHANGED <<worldVars, phase, taskVars, planVars, mapVars, childVars, pending,
                    mode, age, segVars, rowVars, cancelStarted, disk>>
    BY <1>2 DEF TickStopWait
  <2> QED
    BY <2>1, <2>2, <2>3 DEF TypeInv, TypeOK, worldVars, taskVars, planVars, mapVars,
       childVars, segVars, rowVars
<1>3. ASSUME NEW s \in Samples, TickStopped(dt, s)
      PROVE  TypeInv'
  <2>1. /\ StopResult(dt, s) \in TerminalResults /\ StopClass(dt, s) \in FailureClasses
        /\ quiet' \in 0..StopSamples /\ elapsed' \in Nat
    BY <1>3, StopTyped DEF TickStopped, TypeInv
  <2>2. Count(disp, "FAILED") \in Nat /\ Count(disp, "PENDING") \in Nat
    BY CountTyped
  <2>3. FinishTask(StopResult(dt, s), StopClass(dt, s), Count(disp, "FAILED"),
                   Count(disp, "PENDING"))
    BY <1>3 DEF TickStopped
  <2>4. /\ reply' \in SUBSET Replies /\ active' \in BOOLEAN
        /\ goalSt' \in {"none", "executing", "canceling"}
        /\ phase' \in Phases /\ plan' \in SUBSET PlanIds
        /\ disp' \in [Segs -> Dispositions] /\ resumed' \in BOOLEAN
        /\ failure' \in FailureClasses /\ cancelStarted' \in BOOLEAN
        /\ lastSample' \in BOOLEAN /\ rowStart' \in BOOLEAN
    BY <2>1, <2>2, <2>3, FinishTyped
  <2>5. disk' \in [PlanIds -> SUBSET [Segs -> Dispositions]]
    BY <1>3, SaveTyped DEF TickStopped, TypeInv
  <2>6. UNCHANGED <<worldVars, tasks, mapVars, childVars, pending, mode, age, segVars,
                    rowPath>>
    BY <1>3 DEF TickStopped
  <2> QED
    BY <2>1, <2>4, <2>5, <2>6 DEF TypeInv, TypeOK, worldVars, mapVars, childVars, segVars
<1> QED
  BY <1>1, <1>2, <1>3

\* The ends of the process.
LEMMA DeathTyped ==
    ASSUME TypeInv, NEW dt \in {0, 1},
           \/ Crash \/ TickCancelThrows(dt) \/ \E s \in Samples : TickResultThrows(dt, s)
    PROVE  TypeInv'
<1>1. CASE Crash \/ TickCancelThrows(dt)
  <2>1. \E reason \in {"killed", "threw"} : Dies(reason)
    BY <1>1 DEF Crash, TickCancelThrows
  <2>2. restarts' \in Nat /\ disk' \in [PlanIds -> SUBSET [Segs -> Dispositions]]
    BY <1>1 DEF Crash, TickCancelThrows, TypeInv, TypeOK
  <2> QED
    BY <2>1, <2>2, DiesTyped
<1>2. ASSUME NEW s \in Samples, TickResultThrows(dt, s)
      PROVE  TypeInv'
  <2>1. Dies("threw") /\ SaveCheckpoint /\ UNCHANGED restarts
    BY <1>2 DEF TickResultThrows
  <2>2. restarts' \in Nat /\ disk' \in [PlanIds -> SUBSET [Segs -> Dispositions]]
    BY <2>1, SaveTyped DEF TypeInv, TypeOK
  <2> QED
    BY <2>1, <2>2, DiesTyped
<1> QED
  BY <1>1, <1>2

\* Every step keeps the types.
LEMMA TypeStep == TypeInv /\ [Next]_vars => TypeInv'
<1> SUFFICES ASSUME TypeInv, [Next]_vars PROVE TypeInv'
  OBVIOUS
<1>1. ASSUME NEW dt \in {0, 1}, Tick(dt) PROVE TypeInv'
  BY <1>1, FrontTyped, WatchdogTyped, NextSegmentTyped, StoppingTyped, DeathTyped DEF Tick
<1>2. CASE Idle \/ UNCHANGED vars
  BY <1>2 DEF Idle, vars, TypeInv, TypeOK
<1>3. CASE TfSampler \/ (\E m \in Maps : MapCallback(m)) \/ Restart
  BY <1>3, FrontTyped
<1>4. CASE Client
  BY <1>4, FrontTyped, BeginTaskTyped DEF Client
<1>5. ASSUME NEW g \in goals, Callbacks(g) \/ Nav2(g) PROVE TypeInv'
  BY <1>5, CallbacksTyped, Nav2Typed
<1>6. CASE Crash
  BY <1>6, DeathTyped
<1> QED
  BY <1>1, <1>2, <1>3, <1>4, <1>5, <1>6 DEF Next

\* The variables of the node keep their types, whatever the plan, the bounds and
\* the order of ticks and callbacks.
THEOREM TypeCorrect == Spec => [](TypeOK)
<1>1. TypeInv => TypeOK
  BY DEF TypeInv
<1> QED
  BY <1>1, TypeInit, TypeStep, PTL DEF Spec

-----------------------------------------------------------------------------
(* The next pending segment *)

\* A non-empty set of naturals has a least element, and Min is it.
LEMMA MinOfNaturals ==
    ASSUME NEW S, S \subseteq Nat, S # {}
    PROVE  Min(S) \in S /\ \A y \in S : Min(S) <= y
<1>1. \E x \in S : \A y \in S : ~ (<<y, x>> \in OpToRel(<, Nat))
  BY WFMin, NatLessThanWellFounded, Zenon
<1>2. \E x \in S : \A y \in S : ~ (y < x)
  BY <1>1, Zenon DEF OpToRel
<1>3. \E x \in S : \A y \in S : x <= y
  BY <1>2
<1> QED
  BY <1>3 DEF Min

\* nextPendingIndex() finds a segment as long as one is open.
LEMMA NextPendingFinds ==
    ASSUME NEW d, NextPendingIndex(d) = 0
    PROVE  \A i \in Segs : d[i] # "PENDING" /\ d[i] # "BLOCKED_TEMP"
<1>1. \A x : WithDisposition(d, x) \subseteq Nat /\ 0 \notin WithDisposition(d, x)
  BY NumSegsAssumption DEF WithDisposition, Segs
<1>2. \A x : WithDisposition(d, x) # {} => Min(WithDisposition(d, x)) # 0
  BY <1>1, MinOfNaturals
<1>3. WithDisposition(d, "PENDING") = {} /\ WithDisposition(d, "BLOCKED_TEMP") = {}
  BY <1>2 DEF NextPendingIndex
<1> QED
  BY <1>3 DEF WithDisposition

-----------------------------------------------------------------------------
(* Truthful results *)

\* failure_class_ is set whenever a segment is marked FAILED and is reset only
\* with the dispositions: this is what makes the reason of a PARTIAL_FAILED known.
FailureNamed == active /\ (\E i \in Segs : disp[i] = "FAILED") => failure # ""

TruthInv == FailureNamed /\ ReplyTruthful

truthVars == <<active, reply, disp, failure>>

\* Marking a segment FAILED always comes with a failure class.
LEMMA ProcessNamesFailure ==
    ASSUME TypeInv, TruthInv, NEW o \in Outcomes, NEW reached \in BOOLEAN,
           NEW t, NEW nav, NEW fol, ProcessOutcome(o, reached, t, nav, fol)
    PROVE  TruthInv'
<1>1. active' = active /\ reply' = reply
  BY DEF ProcessOutcome, taskVars
<1>2. o.idx \in Segs /\ disp \in [Segs -> Dispositions]
  BY DEF Outcomes, TypeInv, TypeOK
<1>3. \A class : class # "" => FirstFailure(class) # ""
  BY DEF FirstFailure
<1>4. CASE UNCHANGED <<disp, failure>>
  BY <1>1, <1>4 DEF TruthInv, FailureNamed, ReplyTruthful
<1>5. CASE failure' # ""
  BY <1>1, <1>5 DEF TruthInv, FailureNamed, ReplyTruthful
<1>6. CASE disp' = MarkCovered(disp, o.idx) /\ UNCHANGED failure
  <2>1. \A i \in Segs : disp'[i] = "FAILED" => disp[i] = "FAILED"
    BY <1>2, <1>6 DEF MarkCovered
  <2> QED
    BY <1>1, <1>6, <2>1 DEF TruthInv, FailureNamed, ReplyTruthful
<1>7. \/ UNCHANGED <<disp, failure>>
      \/ failure' # ""
      \/ disp' = MarkCovered(disp, o.idx) /\ UNCHANGED failure
  BY <1>3 DEF ProcessOutcome, ApproachSucceeded, ApproachRetried, ApproachExhausted,
              DriveSucceeded, DriveFailed
<1> QED
  BY <1>4, <1>5, <1>6, <1>7

\* The result of a finished plan.
LEMMA FinishPlanTruthful ==
    ASSUME TypeInv, TruthInv, active, NEW enough \in BOOLEAN, FinishPlan(enough)
    PROVE  TruthInv'
<1> DEFINE code  == ResolveCoverageGate(TerminalResult(disp), enough)
           class == IF enough THEN failure ELSE FirstFailure("COVERAGE_BELOW_THRESHOLD")
           lost  == Count(disp, "FAILED")
           left  == Count(disp, "PENDING")
<1>1. active' = FALSE
      /\ reply' = {[code |-> code, class |-> class, failed |-> lost, left |-> left]}
  BY DEF FinishPlan, FinishTask
<1>2. disp \in Core
  BY DEF Core, TypeInv, TypeOK
<1>3. code \in SuccessResults => lost = 0 /\ left = 0
  BY <1>2, GateTruthful
<1>4. ASSUME code = "PARTIAL_FAILED" PROVE class # ""
  <2>1. CASE ~enough
    BY <2>1 DEF FirstFailure
  <2>2. CASE enough
    <3>1. \E i \in Segs : disp[i] \in {"FAILED", "PENDING", "BLOCKED_TEMP"}
      BY <1>2, <1>4, <2>2, GateTruthful
    <3>2. \E i \in Segs : disp[i] = "FAILED"
      BY <3>1, NextPendingFinds DEF FinishPlan
    <3> QED
      BY <2>2, <3>2 DEF TruthInv, FailureNamed
  <2> QED
    BY <2>1, <2>2
<1> HIDE DEF code, class, lost, left
<1>5. \A r \in reply' : r.code = code /\ r.class = class /\ r.failed = lost /\ r.left = left
  BY <1>1
<1>6. ReplyTruthful'
  BY <1>3, <1>4, <1>5 DEF ReplyTruthful
<1> QED
  BY <1>1, <1>6 DEF TruthInv, FailureNamed

\* The result of a task that is answered at once or stopped.
LEMMA OtherResultsTruthful ==
    ASSUME NEW c, NEW why, NEW m, NEW n, FinishTask(c, why, m, n),
           c \notin SuccessResults, c = "PARTIAL_FAILED" => why # ""
    PROVE  TruthInv'
<1>1. active' = FALSE
      /\ reply' = {[code |-> c, class |-> why, failed |-> m, left |-> n]}
  BY DEF FinishTask
<1>2. ASSUME NEW r \in reply' PROVE r.code = c /\ r.class = why
  <2>1. r = [code |-> c, class |-> why, failed |-> m, left |-> n]
    BY <1>1
  <2> QED
    BY ONLY <2>1
<1>3. ReplyTruthful'
  BY <1>2 DEF ReplyTruthful
<1> QED
  BY <1>1, <1>3 DEF TruthInv, FailureNamed

\* Every step keeps results truthful.
LEMMA TruthStep == TypeInv /\ TruthInv /\ [Next]_vars => TruthInv'
<1> SUFFICES ASSUME TypeInv, TruthInv, [Next]_vars PROVE TruthInv'
  OBVIOUS
<1>1. CASE UNCHANGED truthVars
  BY <1>1 DEF truthVars, TruthInv, FailureNamed, ReplyTruthful
<1>2. ASSUME NEW reason, Dies(reason) PROVE TruthInv'
  BY <1>2 DEF Dies, TruthInv, FailureNamed, ReplyTruthful
<1>3. "PARTIAL_FAILED" \notin SuccessResults
  BY DEF SuccessResults
<1>4. ASSUME NEW dt \in {0, 1}, Tick(dt) PROVE TruthInv'
  <2>1. CASE TickReadiness \/ TickCancelChild(dt) \/ TickWait(dt) \/ TickStopRequest
    BY <1>1, <2>1 DEF TickReadiness, TickCancelChild, TickWait, TickStopRequest, truthVars,
                      taskVars, planVars
  <2>2. CASE TickAbandon(dt)
    <3>1. trk.sent /\ execIndex \in Segs
      BY <2>2 DEF TickAbandon, Watched, Watch, TypeInv, TypeOK
    <3>2. [idx |-> execIndex, ok |-> FALSE] \in Outcomes
      BY <3>1 DEF Outcomes
    <3> QED
      BY <2>2, <3>2, ProcessNamesFailure DEF TickAbandon
  <2>3. ASSUME NEW o \in pending, NEW reached \in BOOLEAN, TickOutcome(o, reached)
        PROVE  TruthInv'
    <3>1. o \in Outcomes
      BY DEF TypeInv, TypeOK
    <3> QED
      BY <2>3, <3>1, ProcessNamesFailure DEF TickOutcome
  <2>4. CASE TickNextSegment
    <3>1. ASSUME NEW enough \in BOOLEAN, FinishPlan(enough) PROVE TruthInv'
      BY <2>4, <3>1, FinishPlanTruthful DEF TickNextSegment, Executing
    <3>2. ASSUME NEW idx \in Segs, NEW near \in BOOLEAN, StartSegment(idx, near)
          PROVE  TruthInv'
      BY <1>1, <3>2 DEF StartSegment, truthVars, taskVars, planVars
    <3> QED
      BY <2>4, <3>1, <3>2 DEF TickNextSegment
  <2>5. ASSUME NEW s \in Samples, TickStopWait(dt, s) PROVE TruthInv'
    BY <1>1, <2>5 DEF TickStopWait, truthVars, taskVars, planVars
  <2>6. ASSUME NEW s \in Samples, TickStopped(dt, s) PROVE TruthInv'
    <3>1. StopResult(dt, s) \notin SuccessResults /\ StopResult(dt, s) # "PARTIAL_FAILED"
      BY StopTyped DEF TypeInv
    <3> QED
      BY <2>6, <3>1, OtherResultsTruthful DEF TickStopped
  <2>7. ASSUME NEW s \in Samples, TickResultThrows(dt, s) PROVE TruthInv'
    BY <1>2, <2>7 DEF TickResultThrows
  <2>8. CASE TickCancelThrows(dt)
    BY <1>2, <2>8 DEF TickCancelThrows
  <2> QED
    BY <1>4, <2>1, <2>2, <2>3, <2>4, <2>5, <2>6, <2>7, <2>8 DEF Tick
<1>5. CASE Client
  <2>1. CASE ClientCancel
    BY <1>1, <2>1 DEF ClientCancel, truthVars, planVars
  <2>2. ASSUME NEW class \in {"LOCALIZATION_FAILED", "EMPTY_PLAN", "PLANNING_FAILED"},
               BeginTaskFails(class)
        PROVE  TruthInv'
    BY <1>3, <2>2, OtherResultsTruthful DEF BeginTaskFails
  <2>3. ASSUME NEW resume \in ResumeRequests, NEW seed \in Seeds,
               BeginTaskMismatch(resume, seed)
        PROVE  TruthInv'
    BY <1>3, <2>3, OtherResultsTruthful DEF BeginTaskMismatch
  <2>4. ASSUME NEW resume \in ResumeRequests, NEW seed \in Seeds,
               BeginTaskStarts(resume, seed)
        PROVE  TruthInv'
    <3>1. \A i \in Segs : disp'[i] # "FAILED"
      BY <2>4 DEF BeginTaskStarts, ApplyCheckpointDispositions, FreshCore
    <3>2. reply' = {}
      BY <2>4 DEF BeginTaskStarts
    <3> QED
      BY <3>1, <3>2 DEF TruthInv, FailureNamed, ReplyTruthful
  <2> QED
    BY <1>5, <2>1, <2>2, <2>3, <2>4 DEF Client
<1>6. CASE TfSampler \/ (\E m \in Maps : MapCallback(m)) \/ Restart
  BY <1>1, <1>6 DEF TfSampler, MapCallback, Restart, truthVars, taskVars, planVars
<1>7. ASSUME NEW g \in goals, Callbacks(g) \/ Nav2(g) PROVE TruthInv'
  BY <1>1, <1>7 DEF Callbacks, GoalResponseCallback, GoalResultCallback, Nav2, truthVars,
                    taskVars, planVars
<1>8. CASE Crash
  BY <1>2, <1>8 DEF Crash
<1>9. CASE Idle \/ UNCHANGED vars
  BY <1>1, <1>9 DEF Idle, vars, truthVars
<1> QED
  BY <1>4, <1>5, <1>6, <1>7, <1>8, <1>9 DEF Next

\* No client is ever told of a success while a segment failed or was left open,
\* and every partial failure has a reason (finishTask, resolveCoverageGate).
THEOREM RepliesAreTruthful == Spec => [](ReplyTruthful)
<1>1. Init => TruthInv
  BY DEF Init, TruthInv, FailureNamed, ReplyTruthful
<1>2. TruthInv => ReplyTruthful
  BY DEF TruthInv
<1> QED
  BY <1>1, <1>2, TypeInit, TypeStep, TruthStep, PTL DEF Spec

-----------------------------------------------------------------------------
(* The queue of outcomes *)

\* Sending a goal consumes the outcome in hand, and a send that fails queues its
\* outcome without starting to wait.
LEMMA SendKeepsQueue ==
    ASSUME NEW kind, NEW to, NEW idx, NEW t, NEW nav, NEW fol, ~t.sent,
           Send(kind, to, idx, t, nav, fol)
    PROVE  OutcomeOnlyWhenIdle'
  BY DEF Send, OutcomeOnlyWhenIdle

\* So does the processing of an outcome, whichever way it goes.
LEMMA ProcessKeepsQueue ==
    ASSUME NEW o, NEW reached, NEW t, NEW nav, NEW fol, ~t.sent,
           ProcessOutcome(o, reached, t, nav, fol)
    PROVE  OutcomeOnlyWhenIdle'
<1>1. ASSUME SendsNothing(t, nav, fol) PROVE OutcomeOnlyWhenIdle'
  BY <1>1 DEF SendsNothing, OutcomeOnlyWhenIdle
<1> QED
  BY <1>1, SendKeepsQueue
     DEF ProcessOutcome, ApproachSucceeded, ApproachRetried, ApproachExhausted,
         DriveSucceeded, DriveFailed

\* The callbacks of a stale generation leave the queue alone; those of the current
\* one clear the tracker before they queue an outcome.
LEMMA CallbacksKeepQueue ==
    ASSUME TypeInv, OutcomeOnlyWhenIdle, NEW g \in goals, Callbacks(g)
    PROVE  OutcomeOnlyWhenIdle'
<1>1. trk \in Tracker
  BY DEF TypeInv, TypeOK
<1>2. CASE GoalResponseCallback(g)
  <2> DEFINE accepted == g.st = "accepted"
             answer   == OnGoalResponse(trk, g.gen, accepted)
             after    == AfterGoalResponse(trk, g.gen, accepted)
  <2>1. /\ after \in Tracker
        /\ after.sent => trk.sent
        /\ g.gen = trk.gen /\ ~accepted => ~after.sent
    BY <1>1, CallbackTyped
  <2>2. answer = "rejected_current" => g.gen = trk.gen /\ ~accepted
    BY DEF OnGoalResponse
  <2>3. NoteCancelSent(after).sent = after.sent
    BY <2>1, TrackerTyped
  <2> HIDE DEF answer, after, accepted
  <2>4. CASE answer = "rejected_current" /\ trk' = after
    BY <2>1, <2>2, <2>4 DEF OutcomeOnlyWhenIdle
  <2>5. CASE UNCHANGED pending /\ trk' \in {trk, after, NoteCancelSent(after)}
    BY <2>1, <2>3, <2>5 DEF OutcomeOnlyWhenIdle
  <2> QED
    BY <1>2, <2>4, <2>5 DEF GoalResponseCallback, answer, after, accepted
<1>3. CASE GoalResultCallback(g)
  <2>1. /\ AfterResult(trk, g.gen).sent => trk.sent
        /\ g.gen = trk.gen => ~AfterResult(trk, g.gen).sent
    BY <1>1, CallbackTyped
  <2>2. trk' = AfterResult(trk, g.gen)
    BY <1>3 DEF GoalResultCallback
  <2>3. UNCHANGED pending \/ g.gen = trk.gen
    BY <1>3 DEF GoalResultCallback, OnResult
  <2> QED
    BY <2>1, <2>2, <2>3 DEF OutcomeOnlyWhenIdle
<1> QED
  BY <1>2, <1>3 DEF Callbacks

\* Every step keeps the queue and the wait apart.
LEMMA QueueStep == TypeInv /\ OutcomeOnlyWhenIdle /\ [Next]_vars => OutcomeOnlyWhenIdle'
<1> SUFFICES ASSUME TypeInv, OutcomeOnlyWhenIdle, [Next]_vars PROVE OutcomeOnlyWhenIdle'
  OBVIOUS
<1>0. trk \in Tracker
  BY DEF TypeInv, TypeOK
<1>1. CASE UNCHANGED pending /\ trk'.sent = trk.sent
  BY <1>1 DEF OutcomeOnlyWhenIdle
<1>2. CASE pending' = {}
  BY <1>2 DEF OutcomeOnlyWhenIdle
<1>3. ASSUME NEW dt \in {0, 1}, Tick(dt) PROVE OutcomeOnlyWhenIdle'
  <2>1. CASE TickReadiness \/ TickWait(dt) \/ \E s \in Samples : TickStopWait(dt, s)
                                                       \/ TickStopped(dt, s)
    BY <1>1, <2>1 DEF TickReadiness, TickWait, TickStopWait, TickStopped, childVars
  <2>2. CASE TickCancelChild(dt) \/ TickStopRequest
    <3>1. RequestCancel(trk) \in Tracker /\ RequestCancel(trk).sent = trk.sent
      BY <1>0, TrackerTyped
    <3>2. NoteCancelSent(trk).sent = trk.sent
      BY <1>0, TrackerTyped
    <3>3. NoteCancelSent(RequestCancel(trk)).sent = trk.sent
      BY <3>1, TrackerTyped
    <3> QED
      BY <1>1, <2>2, <3>1, <3>2, <3>3 DEF TickCancelChild, TickStopRequest
  <2>3. CASE TickAbandon(dt)
    <3>1. ~Abandon(trk).sent
      BY <1>0, TrackerTyped
    <3> QED
      BY <2>3, <3>1, ProcessKeepsQueue DEF TickAbandon
  <2>4. ASSUME NEW o \in pending, NEW reached \in BOOLEAN, TickOutcome(o, reached)
        PROVE  OutcomeOnlyWhenIdle'
    BY <2>4, ProcessKeepsQueue DEF TickOutcome
  <2>5. CASE TickNextSegment
    <3>1. ASSUME NEW enough \in BOOLEAN, FinishPlan(enough) PROVE OutcomeOnlyWhenIdle'
      BY <1>1, <3>1 DEF FinishPlan, childVars
    <3>2. ASSUME NEW idx \in Segs, NEW near \in BOOLEAN, StartSegment(idx, near)
          PROVE  OutcomeOnlyWhenIdle'
      <4>1. ~trk.sent
        BY <2>5 DEF TickNextSegment
      <4>2. \E kind, to : Send(kind, to, idx, trk, navGh, followGh)
        BY <3>2 DEF StartSegment
      <4> QED
        BY <4>1, <4>2, SendKeepsQueue
    <3> QED
      BY <2>5, <3>1, <3>2 DEF TickNextSegment
  <2>6. CASE TickCancelThrows(dt) \/ \E s \in Samples : TickResultThrows(dt, s)
    BY <1>2, <2>6 DEF TickCancelThrows, TickResultThrows, Dies
  <2> QED
    BY <1>3, <2>1, <2>2, <2>3, <2>4, <2>5, <2>6 DEF Tick
<1>4. CASE Client
  BY <1>1, <1>2, <1>4 DEF Client, ClientCancel, BeginTaskFails, BeginTaskMismatch,
                          BeginTaskStarts, BeginTaskResets, childVars
<1>5. CASE TfSampler \/ (\E m \in Maps : MapCallback(m)) \/ Restart
  BY <1>1, <1>5 DEF TfSampler, MapCallback, Restart, childVars
<1>6. ASSUME NEW g \in goals, Callbacks(g) \/ Nav2(g) PROVE OutcomeOnlyWhenIdle'
  BY <1>1, <1>6, CallbacksKeepQueue DEF Nav2
<1>7. CASE Crash
  BY <1>2, <1>7 DEF Crash, Dies
<1>8. CASE Idle \/ UNCHANGED vars
  BY <1>1, <1>8 DEF Idle, vars
<1> QED
  BY <1>3, <1>4, <1>5, <1>6, <1>7, <1>8 DEF Next

\* An outcome is never queued while another child goal is being waited for, in any
\* order of results, rejections, timeouts and tasks (pending_outcome_, sent()).
THEOREM OutcomesComeAlone == Spec => [](OutcomeOnlyWhenIdle)
<1>1. Init => OutcomeOnlyWhenIdle
  BY DEF Init, OutcomeOnlyWhenIdle
<1> QED
  BY <1>1, TypeInit, TypeStep, QueueStep, PTL DEF Spec

-----------------------------------------------------------------------------
(* The service *)

\* What links the node to the service: a task has a goal handle, a frozen map and
\* no answer yet, and it is being stopped iff the client or the map asked for it.
LinkInv ==
    /\ active => proc = "up" /\ reply = {} /\ frozen # {}
    /\ active => goalSt \in {"executing", "canceling"}
    /\ ~active => goalSt = "none"
    /\ active => phase \in {"TRANSITING", "EXECUTING_SEGMENT", "CANCELLING"}
    /\ active => (phase = "CANCELLING" <=> goalSt = "canceling" \/ mapChanged)

linkVars == <<active, proc, reply, frozen, goalSt, phase, mapChanged>>

\* The link holds when the process starts.
LEMMA LinkInit == Init => LinkInv
  BY DEF Init, LinkInv

\* Every step keeps the link.
LEMMA LinkStep == TypeInv /\ LinkInv /\ [Next]_vars => LinkInv'
<1> SUFFICES ASSUME TypeInv, LinkInv, [Next]_vars PROVE LinkInv'
  OBVIOUS
<1>1. CASE UNCHANGED linkVars
  BY <1>1 DEF linkVars, LinkInv
<1>2. ASSUME NEW reason, Dies(reason) PROVE LinkInv'
  BY <1>2 DEF Dies, LinkInv
<1>3. ASSUME NEW c, NEW why, NEW m, NEW n, FinishTask(c, why, m, n) PROVE LinkInv'
  BY <1>3 DEF FinishTask, LinkInv
<1>4. ASSUME NEW o, NEW reached, NEW t, NEW nav, NEW fol,
             ProcessOutcome(o, reached, t, nav, fol), UNCHANGED worldVars
      PROVE  LinkInv'
  BY <1>1, <1>4 DEF ProcessOutcome, linkVars, taskVars, mapVars, worldVars
<1>5. ASSUME NEW dt \in {0, 1}, Tick(dt) PROVE LinkInv'
  <2>1. CASE TickReadiness
    BY <2>1 DEF TickReadiness, LinkInv, taskVars
  <2>2. CASE TickAbandon(dt) \/ \E o \in pending, reached \in BOOLEAN : TickOutcome(o, reached)
    BY <1>4, <2>2 DEF TickAbandon, TickOutcome
  <2>3. CASE TickCancelChild(dt) \/ TickWait(dt) \/ TickStopRequest
    BY <1>1, <2>3 DEF TickCancelChild, TickWait, TickStopRequest, linkVars, taskVars,
                      mapVars, worldVars
  <2>4. CASE TickNextSegment
    <3>1. ASSUME NEW enough \in BOOLEAN, FinishPlan(enough) PROVE LinkInv'
      BY <1>3, <3>1 DEF FinishPlan
    <3>2. ASSUME NEW idx \in Segs, NEW near \in BOOLEAN, StartSegment(idx, near)
          PROVE  LinkInv'
      BY <2>4, <3>2 DEF TickNextSegment, StartSegment, Executing, LinkInv, taskVars,
                        mapVars, worldVars
    <3> QED
      BY <2>4, <3>1, <3>2 DEF TickNextSegment
  <2>5. ASSUME NEW s \in Samples, TickStopWait(dt, s) \/ TickStopped(dt, s)
        PROVE  LinkInv'
    BY <1>1, <1>3, <2>5 DEF TickStopWait, TickStopped, linkVars, taskVars, mapVars,
                            worldVars
  <2>6. CASE TickCancelThrows(dt) \/ \E s \in Samples : TickResultThrows(dt, s)
    BY <1>2, <2>6 DEF TickCancelThrows, TickResultThrows
  <2> QED
    BY <1>5, <2>1, <2>2, <2>3, <2>4, <2>5, <2>6 DEF Tick
<1>6. CASE Client
  <2>1. CASE ClientCancel
    BY <2>1 DEF ClientCancel, LinkInv, worldVars, mapVars
  <2>2. ASSUME NEW class, BeginTaskFails(class) PROVE LinkInv'
    BY <1>3, <2>2 DEF BeginTaskFails
  <2>3. ASSUME NEW resume, NEW seed, BeginTaskMismatch(resume, seed) PROVE LinkInv'
    BY <1>3, <2>3 DEF BeginTaskMismatch
  <2>4. ASSUME NEW resume, NEW seed, BeginTaskStarts(resume, seed) PROVE LinkInv'
    BY <2>4 DEF BeginTaskStarts, BeginTaskResets, CanBegin, LinkInv, worldVars
  <2> QED
    BY <1>6, <2>1, <2>2, <2>3, <2>4 DEF Client
<1>7. CASE TfSampler \/ Restart
  BY <1>1, <1>7 DEF TfSampler, Restart, LinkInv, linkVars, taskVars, mapVars, worldVars
<1>8. ASSUME NEW m \in Maps, MapCallback(m) PROVE LinkInv'
  BY <1>8 DEF MapCallback, LinkInv, worldVars, taskVars
<1>9. ASSUME NEW g \in goals, Callbacks(g) \/ Nav2(g) PROVE LinkInv'
  BY <1>1, <1>9 DEF Callbacks, GoalResponseCallback, GoalResultCallback, Nav2, linkVars,
                    taskVars, mapVars, worldVars
<1>10. CASE Crash
  BY <1>2, <1>10 DEF Crash
<1>11. CASE Idle \/ UNCHANGED vars
  BY <1>1, <1>11 DEF Idle, vars, linkVars
<1> QED
  BY <1>5, <1>6, <1>7, <1>8, <1>9, <1>10, <1>11 DEF Next

-----------------------------------------------------------------------------
(* The step simulation *)

\* What the service sees is a function of these variables.
seenVars == <<active, phase, goalSt, mapChanged, reply>>

\* A step that keeps them is a stutter of the service.
LEMMA SeenStutters == UNCHANGED seenVars => UNCHANGED Service!svcVars
  BY DEF seenVars, Service!svcVars

\* The initial state of the node is one of the service.
LEMMA ServiceStarts == Init => Service!ServiceInit
<1> SUFFICES ASSUME Init PROVE Service!ServiceInit
  OBVIOUS
<1>1. ~active /\ goalSt # "canceling" /\ reply = {}
  BY DEF Init
<1> QED
  BY <1>1 DEF Service!ServiceInit

\* The code of the one result sent to the client.
LEMMA AnswerCode ==
    ASSUME NEW c, NEW why, NEW m, NEW n,
           reply' = {[code |-> c, class |-> why, failed |-> m, left |-> n]}
    PROVE  {r.code : r \in reply'} = {c}
<1>1. [code |-> c, class |-> why, failed |-> m, left |-> n].code = c
  OBVIOUS
<1> QED
  BY <1>1

\* A task that is answered, seen from the service.
LEMMA AnswerSeen ==
    ASSUME NEW c, NEW why, NEW m, NEW n, FinishTask(c, why, m, n)
    PROVE  Service!Ends({c})
<1>1. active' = FALSE /\ goalSt' = "none"
  BY DEF FinishTask
<1>2. {r.code : r \in reply'} = {c}
  BY AnswerCode DEF FinishTask
<1> QED
  BY <1>1, <1>2 DEF Service!Ends

\* The end of the process, seen from the service.
LEMMA DeathSeen ==
    ASSUME NEW reason, Dies(reason)
    PROVE  Service!Vanish
<1>1. active' = FALSE /\ goalSt' = "none" /\ reply' = {}
  BY DEF Dies
<1> QED
  BY <1>1 DEF Service!Vanish, Service!Ends
\* Ticks, callbacks and servers that change nothing the service sees.
LEMMA QuietSteps ==
    ASSUME NEW dt \in {0, 1}, NEW g, NEW o, NEW reached,
           \/ TickCancelChild(dt) \/ TickWait(dt) \/ TickStopRequest
           \/ \E s \in Samples : TickStopWait(dt, s)
           \/ TickAbandon(dt) \/ TickOutcome(o, reached)
           \/ Callbacks(g) \/ Nav2(g) \/ TfSampler \/ Idle \/ UNCHANGED vars
    PROVE  UNCHANGED seenVars
  BY DEF TickCancelChild, TickWait, TickStopRequest, TickStopWait, TickAbandon,
     TickOutcome, ProcessOutcome, Callbacks, GoalResponseCallback, GoalResultCallback,
     Nav2, TfSampler, Idle, vars, seenVars, taskVars, mapVars

\* The phase of a node without a task, and the segment in hand, are not seen.
LEMMA UnseenPhases ==
    ASSUME LinkInv, LinkInv', UNCHANGED <<active, goalSt, mapChanged, reply>>
    PROVE  UNCHANGED Service!svcVars
<1>1. CASE ~active
  BY <1>1 DEF Service!svcVars
<1>2. CASE active
  <2>1. (phase' = "CANCELLING") <=> (phase = "CANCELLING")
    BY <1>2 DEF LinkInv
  <2> QED
    BY <1>2, <2>1 DEF Service!svcVars
<1> QED
  BY <1>1, <1>2

\* A finished plan completes the task.
LEMMA FinishSeen ==
    ASSUME TypeInv, LinkInv, Executing, NEW enough \in BOOLEAN, FinishPlan(enough)
    PROVE  Service!Complete
<1> DEFINE code == ResolveCoverageGate(TerminalResult(disp), enough)
<1>1. code \in SuccessResults \cup {"PARTIAL_FAILED"}
  BY DEF ResolveCoverageGate, TerminalResult, SuccessResults
<1>2. /\ active' = FALSE /\ goalSt' = "none"
      /\ \E why, m, n : reply' = {[code |-> code, class |-> why, failed |-> m, left |-> n]}
  BY DEF FinishPlan, FinishTask
<1>3. active /\ phase # "CANCELLING"
  BY DEF Executing
<1> HIDE DEF code
<1>4. {r.code : r \in reply'} = {code}
  BY <1>2, AnswerCode
<1> QED
  BY <1>1, <1>2, <1>3, <1>4 DEF Service!Complete, Service!Ends

\* A stopped task is answered with the cause of the stop, or with STOP_FAILED.
LEMMA StoppedSeen ==
    ASSUME LinkInv, NEW dt, NEW s, TickStopped(dt, s)
    PROVE  Service!Stopped
<1>1. active /\ phase = "CANCELLING" /\ goalSt = "canceling"
  BY DEF TickStopped, Cancelling
<1> DEFINE result == StopResult(dt, s)
<1>2. /\ active' = FALSE /\ goalSt' = "none"
      /\ \E why, m, n : reply' = {[code |-> result, class |-> why, failed |-> m, left |-> n]}
  BY DEF TickStopped, FinishTask
<1>3. {r.code : r \in reply'} = {result}
  <2> HIDE DEF result
  <2> QED
    BY <1>2, AnswerCode
<1>4. StopResult(dt, s) \in
          {"STOP_FAILED", IF active /\ mapChanged THEN "MAP_CHANGED" ELSE "CANCELLED"}
  BY <1>1 DEF StopResult
<1> QED
  BY <1>1, <1>2, <1>3, <1>4 DEF Service!Stopped, Service!Ends

\* The client's requests.
LEMMA ClientSeen ==
    ASSUME LinkInv, LinkInv', Client
    PROVE  Service!ServiceNext
<1>1. CASE ClientCancel
  <2>1. /\ active /\ active' = active /\ goalSt # "canceling" /\ goalSt' = "canceling"
        /\ phase' = "CANCELLING" /\ mapChanged' = mapChanged /\ reply' = reply
    BY <1>1 DEF ClientCancel, mapVars
  <2> QED
    BY <2>1 DEF Service!ServiceNext, Service!RequestStop, Service!Busy
<1>2. ASSUME CanBegin, NEW why, NEW m, NEW n, FinishTask("PARTIAL_FAILED", why, m, n)
      PROVE  Service!ServiceNext
  <2>1. Service!Ends({"PARTIAL_FAILED"})
    BY <1>2, AnswerSeen
  <2>2. ~active
    BY <1>2 DEF CanBegin
  <2> QED
    BY <2>1, <2>2 DEF Service!ServiceNext, Service!AnswerAtOnce, Service!Busy
<1>3. ASSUME NEW class, BeginTaskFails(class) PROVE Service!ServiceNext
  BY <1>2, <1>3 DEF BeginTaskFails
<1>4. ASSUME NEW resume, NEW seed, BeginTaskMismatch(resume, seed)
      PROVE  Service!ServiceNext
  BY <1>2, <1>4 DEF BeginTaskMismatch
<1>5. ASSUME NEW resume, NEW seed, BeginTaskStarts(resume, seed)
      PROVE  Service!ServiceNext
  <2>1. /\ ~active /\ active' = TRUE /\ goalSt # "canceling" /\ goalSt' = "executing"
        /\ phase' = "EXECUTING_SEGMENT" /\ mapChanged' = FALSE /\ reply' = {}
    BY <1>5 DEF BeginTaskStarts, BeginTaskResets, CanBegin, LinkInv
  <2>2. {r.code : r \in reply'} = {}
    BY <2>1
  <2> QED
    BY <2>1, <2>2 DEF Service!ServiceNext, Service!Accept, Service!Busy
<1> QED
  BY <1>1, <1>3, <1>4, <1>5 DEF Client

\* A map with another content.
LEMMA MapSeen ==
    ASSUME LinkInv, LinkInv', NEW m \in Maps, MapCallback(m)
    PROVE  Service!ServiceNext \/ UNCHANGED Service!svcVars
<1>1. active' = active /\ goalSt' = goalSt /\ reply' = reply
  BY DEF MapCallback, taskVars
<1>2. CASE ~active
  BY <1>1, <1>2 DEF MapCallback, Service!svcVars
<1>3. CASE active
  <2>1. mapChanged' = TRUE /\ phase' = "CANCELLING"
    BY <1>3 DEF MapCallback, LinkInv
  <2> QED
    BY <1>1, <1>3, <2>1 DEF Service!ServiceNext, Service!MapMoves, Service!Busy
<1> QED
  BY <1>2, <1>3

\* Every step of the node is a step of the service, or one that it does not see.
LEMMA ServiceStep ==
    TypeInv /\ LinkInv /\ LinkInv' /\ [Next]_vars
        => [Service!ServiceNext]_Service!svcVars
<1> SUFFICES ASSUME TypeInv, LinkInv, LinkInv', [Next]_vars
             PROVE  Service!ServiceNext \/ UNCHANGED Service!svcVars
  OBVIOUS
<1>1. ASSUME NEW reason, Dies(reason) PROVE Service!ServiceNext
  BY <1>1, DeathSeen DEF Service!ServiceNext
<1>2. ASSUME NEW dt \in {0, 1}, Tick(dt)
      PROVE  Service!ServiceNext \/ UNCHANGED Service!svcVars
  <2>1. CASE TickReadiness
    BY <2>1, UnseenPhases DEF TickReadiness, taskVars, mapVars
  <2>2. CASE \/ TickCancelChild(dt) \/ TickWait(dt) \/ TickStopRequest
             \/ \E s \in Samples : TickStopWait(dt, s)
             \/ TickAbandon(dt)
             \/ \E o \in pending, reached \in BOOLEAN : TickOutcome(o, reached)
    BY <2>2, QuietSteps, SeenStutters
  <2>3. CASE TickNextSegment
    <3>1. ASSUME NEW enough \in BOOLEAN, FinishPlan(enough) PROVE Service!ServiceNext
      BY <2>3, <3>1, FinishSeen DEF TickNextSegment, Service!ServiceNext
    <3>2. ASSUME NEW idx \in Segs, NEW near \in BOOLEAN, StartSegment(idx, near)
          PROVE  UNCHANGED Service!svcVars
      BY <3>2, UnseenPhases DEF StartSegment, taskVars, mapVars
    <3> QED
      BY <2>3, <3>1, <3>2 DEF TickNextSegment
  <2>4. ASSUME NEW s \in Samples, TickStopped(dt, s) PROVE Service!ServiceNext
    BY <2>4, StoppedSeen DEF Service!ServiceNext
  <2>5. CASE TickCancelThrows(dt) \/ \E s \in Samples : TickResultThrows(dt, s)
    BY <1>1, <2>5 DEF TickCancelThrows, TickResultThrows
  <2> QED
    BY <1>2, <2>1, <2>2, <2>3, <2>4, <2>5 DEF Tick
<1>3. CASE Client
  BY <1>3, ClientSeen
<1>4. CASE Restart
  BY <1>4, UnseenPhases DEF Restart, taskVars, mapVars
<1>5. ASSUME NEW m \in Maps, MapCallback(m)
      PROVE  Service!ServiceNext \/ UNCHANGED Service!svcVars
  BY <1>5, MapSeen
<1>6. ASSUME NEW g \in goals, Callbacks(g) \/ Nav2(g) PROVE UNCHANGED Service!svcVars
  BY <1>6, QuietSteps, SeenStutters
<1>7. CASE TfSampler \/ Idle \/ UNCHANGED vars
  BY <1>7, QuietSteps, SeenStutters
<1>8. CASE Crash
  BY <1>1, <1>8 DEF Crash
<1> QED
  BY <1>2, <1>3, <1>4, <1>5, <1>6, <1>7, <1>8 DEF Next

\* The node keeps the service's promise: one answer to each task that ends, of the
\* class its course allows, and no cancel result for a goal nobody cancelled
\* (goal and cancel callbacks, mapCallback, tickCancelling, finishTask).
THEOREM NodeKeepsService == Spec => (ServiceKept)
<1>1. Init /\ [][Next]_vars => [](TypeInv /\ LinkInv)
  BY TypeInit, TypeStep, LinkInit, LinkStep, PTL
<1> QED
  BY <1>1, ServiceStarts, ServiceStep, PTL DEF Spec, ServiceKept, Service!ServiceSafety
=============================================================================
