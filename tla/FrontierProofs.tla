--------------------------- MODULE FrontierProofs ---------------------------
(***************************************************************************)
(* Proofs about the frontier explorer: type correctness, the goal and the  *)
(* handle it keeps, the points it heads for, and that it does not declare  *)
(* the exploration complete while frontiers are only in a cooldown, for    *)
(* every map, every set of points and all durations.                       *)
(***************************************************************************)
EXTENDS FrontierExplorer, TLAPS

-----------------------------------------------------------------------------
(* The parts of an action *)

\* A goal point of a cluster is one of its cells or its representative, so what a
\* strategy settles on is a point (frontier_goal_selector.cpp).
LEMMA ChosenIsPoint ==
    ASSUME map \in Maps, NEW robot
    PROVE  Choosable(robot) \subseteq Points
<1>1. ASSUME NEW c \in Detected[map]
      PROVE  GoalPoints(c, robot) \subseteq Points
  <2>1. c.rep \in Points /\ c.cells \in Seq(Points)
    BY PointsAssumption
  <2>2. \A i \in DOMAIN c.cells : c.cells[i] \in Points
    BY <2>1
  <2> QED
    BY <2>1, <2>2 DEF GoalPoints, Alternatives
<1>2. Valid \subseteq Detected[map]
  BY DEF Valid
<1>3. selectAll(Valid, robot) \subseteq Points
  BY <1>1, <1>2 DEF selectAll
<1> QED
  BY <1>3 DEF Choosable, select

\* A probe is sent to a free point of the map (generateRecoveryProbe).
LEMMA ProbeIsPoint ==
    ASSUME map \in Maps, NEW robot, NEW offsets
    PROVE  generateRecoveryProbe(robot, offsets) \subseteq Points
  BY PointsAssumption DEF generateRecoveryProbe

\* A recorded goal keeps the window typed and within its size (recordGoalBin).
LEMMA WindowTyped ==
    ASSUME TypeOK, goal \in Points, NEW ok \in BOOLEAN, recordGoalBin(ok)
    PROVE  /\ window' \in Seq([bin : {BinOf[p] : p \in Points}, succeeded : BOOLEAN])
           /\ Len(window') <= LoopWindow
<1> DEFINE Bin == [bin : {BinOf[p] : p \in Points}, succeeded : BOOLEAN]
           r == [bin |-> BinOf[goal], succeeded |-> ok]
           w == Append(window, r)
<1>1. r \in Bin
  OBVIOUS
<1>2. window \in Seq(Bin) /\ Len(window) <= LoopWindow
  BY DEF TypeOK
<1> HIDE DEF Bin, r
<1>3. w \in Seq(Bin) /\ Len(w) = Len(window) + 1
  BY <1>1, <1>2
<1>4. window' = IF Len(w) > LoopWindow THEN Tail(w) ELSE w
  BY DEF recordGoalBin, r
<1> HIDE DEF w
<1>5. LoopWindow \in Nat /\ Len(window) \in Nat
  BY <1>2, NumbersAssumption
<1>6. window' \in Seq(Bin) /\ Len(window') <= LoopWindow
  <2>1. CASE Len(w) > LoopWindow
    <3>1. w # << >>
      BY <2>1, <1>5, <1>3
    <3>2. Tail(w) \in Seq(Bin) /\ Len(Tail(w)) = Len(w) - 1
      BY <3>1, <1>3
    <3> QED
      BY <2>1, <3>2, <1>2, <1>3, <1>4, <1>5
  <2>2. CASE ~(Len(w) > LoopWindow)
    BY <2>2, <1>3, <1>4, <1>5, <1>2
  <2> QED
    BY <2>1, <2>2
<1> QED
  BY <1>6 DEF Bin

\* The durations are natural numbers, and bound the entries (the parameters).
LEMMA Durations ==
    /\ LongestEntry \in Nat /\ BlacklistTimeout \in 0 .. LongestEntry
    /\ SuccessCooldown \in 0 .. LongestEntry
    /\ GoalTimeout \in Nat \ {0} /\ LeftAtTimeout \in Nat \ {0}
    /\ Cooldown \in Nat /\ ProbeCooldown \in Nat /\ HysteresisCooldown \in Nat
    /\ MaxEmptyCycles \in Nat \ {0} /\ MaxSuppressedCycles \in Nat \ {0}
    /\ MaxAttempts \in Nat \ {0}
  BY NumbersAssumption, SuppressionAssumption DEF LongestEntry, LeftAtTimeout, Larger

\* An entry is added within the bounds (FrontierBlacklist::add).
LEMMA BlacklistTyped ==
    ASSUME TypeOK, goal \in Points, NEW kind \in {"failed", "reached"},
           NEW timeout \in 0 .. LongestEntry, blacklistGoal(kind, timeout)
    PROVE  blacklist' \in [Entries -> 0 .. LongestEntry]
  BY DEF TypeOK, blacklistGoal, add, Entries

\* Entering the cooldown leaves typed timers (transitionTo).
LEMMA CooldownTyped ==
    ASSUME TypeOK, EnterCooldown
    PROVE  state' \in States /\ left' \in [Timers -> Nat]
  BY Durations DEF TypeOK, EnterCooldown, States, Timers

\* Counting up to a limit stays within it; counting down stays natural.
LEMMA Counting ==
    /\ \A limit \in Nat, n \in Nat : UpTo(limit, n) \in 0 .. limit
    /\ \A n \in Nat, d \in Nat : Minus(n, d) \in 0 .. n
  BY DEF UpTo, Minus

-----------------------------------------------------------------------------
(* Types, the goal and the handle *)

\* Before the first map there is no goal.
MapKnown == map = NoMap => state = "WAITING_FOR_MAP" /\ \A s \in Slots : inFlight[s].st = "free"

BaseInv == TypeOK /\ MapKnown /\ NavigatingHasGoal /\ HandleIsLive

\* What every cycle that looks for a goal leaves of the counters.
LEMMA CycleTyped ==
    ASSUME TypeOK, NothingValid \/ ResetCycles
    PROVE  emptyCount' \in 0 .. MaxEmptyCycles /\ suppressedCount' \in 0 .. MaxSuppressedCycles
<1>1. emptyCount + 1 \in Nat /\ suppressedCount + 1 \in Nat
  BY Durations DEF TypeOK
<1>2. /\ UpTo(MaxEmptyCycles, emptyCount + 1) \in 0 .. MaxEmptyCycles
      /\ UpTo(MaxSuppressedCycles, suppressedCount + 1) \in 0 .. MaxSuppressedCycles
      /\ 0 \in 0 .. MaxEmptyCycles /\ 0 \in 0 .. MaxSuppressedCycles
  BY <1>1, Durations DEF UpTo
<1>3. CASE ResetCycles
  BY <1>2, <1>3 DEF ResetCycles
<1>4. CASE NothingValid
  <2>1. CycleWithoutGoal
    BY <1>4 DEF NothingValid
  <2> QED
    BY <2>1, <1>2 DEF CycleWithoutGoal
<1> QED
  BY <1>3, <1>4

\* The initial state is typed, with no goal and no handle (the member initialisers).
LEMMA BaseInit == Init => BaseInv
<1> SUFFICES ASSUME Init PROVE BaseInv
  OBVIOUS
<1>1. TypeOK
  <2>1. window \in Seq([bin : {BinOf[p] : p \in Points}, succeeded : BOOLEAN])
        /\ Len(window) <= LoopWindow
    BY NumbersAssumption DEF Init
  <2>2. /\ state \in States /\ goal = NoGoal /\ isRecovery \in BOOLEAN
        /\ due \in BOOLEAN /\ hysteresis = NoGoal /\ handle = NoHandle /\ map = NoMap
    BY DEF Init, States
  <2>3. /\ emptyCount \in 0 .. MaxEmptyCycles /\ attempts \in 0 .. MaxAttempts
        /\ suppressedCount \in 0 .. MaxSuppressedCycles
    BY Durations DEF Init
  <2>4. blacklist \in [Entries -> 0 .. LongestEntry] /\ left \in [Timers -> Nat]
    BY Durations DEF Init
  <2>5. inFlight \in [Slots -> [st : {"free", "sent", "running"},
                                at : Points \cup {NoGoal}, cancel : BOOLEAN]]
    BY DEF Init, FreeSlot
  <2> QED
    BY <2>1, <2>2, <2>3, <2>4, <2>5 DEF TypeOK
<1>2. MapKnown /\ NavigatingHasGoal /\ HandleIsLive
  BY DEF Init, MapKnown, NavigatingHasGoal, HandleIsLive, FreeSlot
<1> QED
  BY <1>1, <1>2 DEF BaseInv

\* A dispatched goal or probe takes a slot other than the live handle's (Send).
LEMMA SendKeeps ==
    ASSUME BaseInv, NEW s \in Slots, NEW at \in Points \cup {NoGoal}, Send(s, at)
    PROVE  /\ state' = "NAVIGATING"
           /\ inFlight' \in [Slots -> [st : {"free", "sent", "running"},
                                       at : Points \cup {NoGoal}, cancel : BOOLEAN]]
           /\ handle # NoHandle => inFlight'[handle].st = "running"
<1> DEFINE new == [st |-> "sent", at |-> at, cancel |-> FALSE]
<1>1. inFlight' = [inFlight EXCEPT ![s] = new] /\ state' = "NAVIGATING"
  BY DEF Send
<1>2. s # handle \/ handle = NoHandle
  BY PointsAssumption DEF Send, SlotFor, BaseInv, HandleIsLive
<1>3. handle \in Slots \cup {NoHandle}
      /\ inFlight \in [Slots -> [st : {"free", "sent", "running"},
                                 at : Points \cup {NoGoal}, cancel : BOOLEAN]]
  BY DEF BaseInv, TypeOK
<1> QED
  BY <1>1, <1>2, <1>3 DEF BaseInv, HandleIsLive

\* A step of the timer callback that only takes the tick and moves between states.
LEMMA QuietTick ==
    ASSUME BaseInv, NothingToDo \/ CooldownOver \/ Nav2Found
    PROVE  BaseInv'
<1>1. /\ UNCHANGED <<map, goal, isRecovery, handle, emptyCount, suppressedCount, attempts,
                     window, blacklist, hysteresis, left, inFlight>>
      /\ due' = FALSE
  BY DEF NothingToDo, CooldownOver, Nav2Found, Tick, counters, memory
<1>2. state' = state \/ (state' = "IDLE" /\ state # "WAITING_FOR_MAP")
  BY DEF NothingToDo, CooldownOver, Nav2Found, Tick
<1>3. TypeOK'
  BY <1>1, <1>2 DEF BaseInv, TypeOK, States
<1>4. MapKnown' /\ NavigatingHasGoal' /\ HandleIsLive'
  BY <1>1, <1>2 DEF BaseInv, MapKnown, NavigatingHasGoal, HandleIsLive
<1> QED
  BY <1>3, <1>4 DEF BaseInv

\* In a cycle that looks for a goal the map is known.
LEMMA LocatedMap ==
    ASSUME BaseInv, Tick("IDLE")
    PROVE  map \in Maps
  BY DEF BaseInv, TypeOK, MapKnown, Tick

\* A cycle without a goal keeps the invariant.
LEMMA IdleCycle ==
    ASSUME BaseInv, NEW robot, NEW offsets,
           \/ NothingValid \/ ProbeCoolingDown \/ NoCandidate(robot)
           \/ NoProbe(robot, offsets)
    PROVE  BaseInv'
<1>1. /\ UNCHANGED <<map, goal, handle, window, blacklist, hysteresis, inFlight>>
      /\ state = "IDLE" /\ state' \in {"IDLE", "COMPLETED"} /\ due' = FALSE
      /\ isRecovery' \in {isRecovery, FALSE}
  BY DEF NothingValid, ProbeCoolingDown, NoCandidate, NoProbe, Tick, memory,
         resetRecoveryState
<1>2. emptyCount' \in 0 .. MaxEmptyCycles /\ suppressedCount' \in 0 .. MaxSuppressedCycles
  <2>1. NothingValid \/ ResetCycles
    BY DEF ProbeCoolingDown, NoCandidate, NoProbe
  <2> QED
    BY <2>1, CycleTyped DEF BaseInv
<1>3. attempts' \in 0 .. MaxAttempts
  <2>1. attempts' = attempts \/ attempts' = 0 \/ attempts' = UpTo(MaxAttempts, attempts + 1)
    BY DEF NothingValid, ProbeCoolingDown, NoCandidate, NoProbe, resetRecoveryState
  <2> QED
    BY <2>1, Durations DEF BaseInv, TypeOK, UpTo
<1>4. left' \in [Timers -> Nat]
  <2>1. left' = left \/ left' = [left EXCEPT !["probe"] = ProbeCooldown]
    BY DEF NothingValid, ProbeCoolingDown, NoCandidate, NoProbe
  <2> QED
    BY <2>1, Durations DEF BaseInv, TypeOK, Timers
<1>5. TypeOK'
  BY <1>1, <1>2, <1>3, <1>4 DEF BaseInv, TypeOK, States
<1>6. MapKnown' /\ NavigatingHasGoal' /\ HandleIsLive'
  BY <1>1 DEF BaseInv, MapKnown, NavigatingHasGoal, HandleIsLive
<1> QED
  BY <1>5, <1>6 DEF BaseInv

\* A dispatch of a goal or of a probe keeps the invariant.
LEMMA SendingCycle ==
    ASSUME BaseInv, NEW robot, NEW offsets, NEW s \in Slots,
           Dispatch(robot, s) \/ Probe(robot, offsets, s)
    PROVE  BaseInv' /\ state = "IDLE" /\ state' = "NAVIGATING"
<1>1. map \in Maps /\ state = "IDLE"
  BY LocatedMap DEF Dispatch, Probe, Tick
<1>2. goal' \in Points
  <2>1. CASE Dispatch(robot, s)
    BY <1>1, <2>1, ChosenIsPoint DEF Dispatch
  <2>2. CASE Probe(robot, offsets, s)
    BY <1>1, <2>2, ProbeIsPoint DEF Probe
  <2> QED
    BY <2>1, <2>2
<1>3. PICK at \in Points \cup {NoGoal} : Send(s, at)
  BY <1>2 DEF Dispatch, Probe
<1>4. /\ UNCHANGED <<map, handle, window, blacklist>> /\ due' = FALSE
      /\ isRecovery' \in BOOLEAN /\ ResetCycles
      /\ hysteresis' \in {hysteresis, goal', NoGoal}
  BY DEF Dispatch, Probe, Tick, memory, resetRecoveryState
<1>5. /\ state' = "NAVIGATING"
      /\ inFlight' \in [Slots -> [st : {"free", "sent", "running"},
                                  at : Points \cup {NoGoal}, cancel : BOOLEAN]]
      /\ handle # NoHandle => inFlight'[handle].st = "running"
  BY <1>3, SendKeeps
<1>6. attempts' \in 0 .. MaxAttempts
  <2>1. attempts' = 0 \/ attempts' = UpTo(MaxAttempts, attempts + 1)
    BY DEF Dispatch, Probe, resetRecoveryState
  <2> QED
    BY <2>1, Durations DEF BaseInv, TypeOK, UpTo
<1>7. left' \in [Timers -> Nat]
  <2>1. \/ left' = [left EXCEPT !["navigating"] = GoalTimeout, !["probe"] = ProbeCooldown]
        \/ left' = [left EXCEPT !["navigating"] = GoalTimeout,
                                !["hysteresis"] = HysteresisCooldown]
    BY DEF Dispatch, Probe
  <2> QED
    BY <2>1, Durations DEF BaseInv, TypeOK, Timers
<1>8. emptyCount' \in 0 .. MaxEmptyCycles /\ suppressedCount' \in 0 .. MaxSuppressedCycles
  BY <1>4, CycleTyped DEF BaseInv
<1>9. TypeOK'
  BY <1>2, <1>4, <1>5, <1>6, <1>7, <1>8 DEF BaseInv, TypeOK, States
<1>10. MapKnown' /\ NavigatingHasGoal' /\ HandleIsLive'
  BY <1>1, <1>2, <1>4, <1>5, PointsAssumption
  DEF MapKnown, NavigatingHasGoal, HandleIsLive
<1> QED
  BY <1>1, <1>5, <1>9, <1>10 DEF BaseInv

\* A timeout keeps the invariant: the goal stays, for the result to come.
LEMMA TimeoutKeeps ==
    ASSUME BaseInv, TimedOut
    PROVE  BaseInv'
<1>1. /\ UNCHANGED <<map, goal, isRecovery, handle, emptyCount, suppressedCount, attempts,
                     hysteresis>>
      /\ due' = FALSE /\ state = "NAVIGATING" /\ goal # NoGoal
      /\ state' = "COOLDOWN"
  BY DEF TimedOut, Tick, counters, EnterCooldown
<1>2. goal \in Points
  BY <1>1 DEF BaseInv, TypeOK
<1>3. blacklist' \in [Entries -> 0 .. LongestEntry]
  BY <1>2, BlacklistTyped, Durations DEF TimedOut, BaseInv
<1>4. /\ window' \in Seq([bin : {BinOf[p] : p \in Points}, succeeded : BOOLEAN])
      /\ Len(window') <= LoopWindow
  BY <1>2, WindowTyped DEF TimedOut, BaseInv
<1>5. left' \in [Timers -> Nat]
  BY CooldownTyped DEF TimedOut, BaseInv
<1>6. /\ inFlight' \in [Slots -> [st : {"free", "sent", "running"},
                                  at : Points \cup {NoGoal}, cancel : BOOLEAN]]
      /\ \A s \in Slots : inFlight'[s].st = inFlight[s].st
  BY DEF TimedOut, BaseInv, TypeOK
<1>7. TypeOK'
  BY <1>1, <1>3, <1>4, <1>5, <1>6 DEF BaseInv, TypeOK, States
<1>8. MapKnown' /\ NavigatingHasGoal' /\ HandleIsLive'
  BY <1>1, <1>6, PointsAssumption
  DEF BaseInv, TypeOK, MapKnown, NavigatingHasGoal, HandleIsLive
<1> QED
  BY <1>7, <1>8 DEF BaseInv

\* A response or a result keeps the invariant, whichever goal it is for.
LEMMA AnswerKeeps ==
    ASSUME BaseInv, Response \/ Result
    PROVE  BaseInv'
<1>1. CASE \E s \in Slots : goalRejected(s)
  <2>1. PICK s \in Slots : goalRejected(s)
    BY <1>1
  <2>2. TypeOK'
    BY <2>1 DEF goalRejected, BaseInv, TypeOK, States, FreeSlot, counters, memory
  <2>3. map # NoMap /\ map' = map
    BY <2>1 DEF goalRejected, BaseInv, MapKnown
  <2>4. MapKnown' /\ NavigatingHasGoal' /\ HandleIsLive'
    BY <2>1, <2>3 DEF goalRejected, BaseInv, TypeOK, MapKnown, NavigatingHasGoal, HandleIsLive
  <2> QED
    BY <2>2, <2>4 DEF BaseInv
<1>2. CASE \E s \in Slots : goalAccepted(s)
  <2>1. PICK s \in Slots : goalAccepted(s)
    BY <1>2
  <2>2. TypeOK'
    BY <2>1 DEF goalAccepted, BaseInv, TypeOK, counters, memory
  <2>3. map # NoMap /\ map' = map
    BY <2>1 DEF goalAccepted, BaseInv, MapKnown
  <2>4. MapKnown' /\ NavigatingHasGoal' /\ HandleIsLive'
    BY <2>1, <2>3 DEF goalAccepted, BaseInv, TypeOK, MapKnown, NavigatingHasGoal, HandleIsLive
  <2> QED
    BY <2>2, <2>4 DEF BaseInv
<1>3. CASE Result
  <2>1. PICK s \in Slots : Succeeded(s) \/ Aborted(s) \/ Canceled(s)
    BY <1>3 DEF Result
  <2>2. ResultArrives(s)
    BY <2>1 DEF Succeeded, Aborted, Canceled
  <2>3. /\ inFlight[s].st = "running" /\ inFlight' = [inFlight EXCEPT ![s] = FreeSlot]
        /\ goal' = NoGoal /\ isRecovery' = FALSE /\ handle' = NoHandle
        /\ EnterCooldown /\ state' = "COOLDOWN"
        /\ UNCHANGED <<map, emptyCount, suppressedCount, attempts, hysteresis, due>>
    BY <2>2 DEF ResultArrives, ForgetGoal, counters, EnterCooldown
  <2>4. /\ window' \in Seq([bin : {BinOf[p] : p \in Points}, succeeded : BOOLEAN])
        /\ Len(window') <= LoopWindow
        /\ blacklist' \in [Entries -> 0 .. LongestEntry]
    <3>1. CASE goal \in Points /\ ~Canceled(s)
      <4>1. CASE Succeeded(s)
        <5>1. recordGoalBin(TRUE) /\ blacklistGoal("reached", SuccessCooldown)
          BY <3>1, <4>1, PointsAssumption DEF Succeeded
        <5> QED
          BY <5>1, <3>1, WindowTyped, BlacklistTyped, Durations DEF BaseInv
      <4>2. CASE Aborted(s)
        <5>1. recordGoalBin(FALSE) /\ blacklistGoal("failed", BlacklistTimeout)
          BY <3>1, <4>2, PointsAssumption DEF Aborted
        <5> QED
          BY <5>1, <3>1, WindowTyped, BlacklistTyped, Durations DEF BaseInv
      <4> QED
        BY <4>1, <4>2, <3>1, <2>1
    <3>2. CASE goal = NoGoal \/ Canceled(s)
      <4>1. UNCHANGED <<window, blacklist>>
        BY <3>2, <2>1 DEF Succeeded, Aborted, Canceled
      <4> QED
        BY <4>1 DEF BaseInv, TypeOK
    <3> QED
      BY <3>1, <3>2 DEF BaseInv, TypeOK
  <2>5. left' \in [Timers -> Nat]
    BY <2>3, CooldownTyped DEF BaseInv
  <2>6. inFlight' \in [Slots -> [st : {"free", "sent", "running"},
                                 at : Points \cup {NoGoal}, cancel : BOOLEAN]]
    BY <2>3 DEF BaseInv, TypeOK, FreeSlot
  <2>7. TypeOK'
    BY <2>3, <2>4, <2>5, <2>6 DEF BaseInv, TypeOK, States
  <2>8. MapKnown' /\ NavigatingHasGoal' /\ HandleIsLive'
    BY <2>3 DEF BaseInv, MapKnown, NavigatingHasGoal, HandleIsLive
  <2> QED
    BY <2>7, <2>8 DEF BaseInv
<1> QED
  BY <1>1, <1>2, <1>3 DEF Response

\* Every step keeps the invariant.
LEMMA BaseNext == BaseInv /\ [Next]_vars => BaseInv'
<1> SUFFICES ASSUME BaseInv, [Next]_vars PROVE BaseInv'
  OBVIOUS
<1>1. CASE \E d \in 1 .. MaxLag : Elapse(d)
  <2>1. PICK d \in 1 .. MaxLag : Elapse(d)
    BY <1>1
  <2>2. d \in Nat
    BY <2>1, NumbersAssumption
  <2>3. /\ UNCHANGED <<state, map, goal, isRecovery, handle, emptyCount, suppressedCount,
                       attempts, window, inFlight>>
        /\ due' = TRUE /\ hysteresis' \in {hysteresis, NoGoal}
    BY <2>1 DEF Elapse, counters
  <2>4. blacklist' \in [Entries -> 0 .. LongestEntry]
    BY <2>1, <2>2, Durations DEF Elapse, BaseInv, TypeOK, Minus
  <2>5. left' \in [Timers -> Nat]
    BY <2>1, <2>2 DEF Elapse, BaseInv, TypeOK, Minus
  <2>6. TypeOK'
    BY <2>3, <2>4, <2>5 DEF BaseInv, TypeOK
  <2> QED
    BY <2>3, <2>6 DEF BaseInv, MapKnown, NavigatingHasGoal, HandleIsLive
<1>2. CASE \E m \in Maps : mapCallback(m)
  <2>1. PICK m \in Maps : mapCallback(m)
    BY <1>2
  <2>2. /\ UNCHANGED <<goal, isRecovery, handle, suppressedCount, attempts, window,
                       blacklist, hysteresis, left, due, inFlight>>
        /\ map' = m /\ emptyCount' \in {0, emptyCount}
        /\ state' \in {state, "WAITING_FOR_NAV2", "IDLE"}
    BY <2>1 DEF mapCallback, memory
  <2>3. TypeOK'
    BY <2>2, Durations DEF BaseInv, TypeOK, States
  <2> QED
    BY <2>2, <2>3, PointsAssumption DEF BaseInv, MapKnown, NavigatingHasGoal, HandleIsLive
<1>3. CASE Timer
  <2>1. CASE Located
    <3>1. CASE NothingValid \/ ProbeCoolingDown
      BY <3>1, IdleCycle
    <3>2. ASSUME NEW r \in Robots, NoCandidate(r) PROVE BaseInv'
      BY <3>2, IdleCycle
    <3>3. ASSUME NEW r \in Robots, NEW h \in Headings, NoProbe(r, h) PROVE BaseInv'
      BY <3>3, IdleCycle
    <3>4. ASSUME NEW r \in Robots, NEW s \in Slots, Dispatch(r, s) PROVE BaseInv'
      BY <3>4, SendingCycle
    <3>5. ASSUME NEW r \in Robots, NEW h \in Headings, NEW s \in Slots, Probe(r, h, s)
          PROVE  BaseInv'
      BY <3>5, SendingCycle
    <3> QED
      BY <2>1, <3>1, <3>2, <3>3, <3>4, <3>5 DEF Located, Selecting
  <2> QED
    BY <1>3, <2>1, QuietTick, TimeoutKeeps DEF Timer
<1>4. CASE Response \/ Result
  BY <1>4, AnswerKeeps
<1>5. CASE UNCHANGED vars
  <2>1. UNCHANGED <<state, map, goal, isRecovery, handle, emptyCount, suppressedCount,
                    attempts, window, blacklist, hysteresis, left, due, inFlight>>
    BY <1>5 DEF vars, counters, memory
  <2> QED
    BY <2>1 DEF BaseInv, TypeOK, MapKnown, NavigatingHasGoal, HandleIsLive
<1> QED
  BY <1>1, <1>2, <1>3, <1>4, <1>5 DEF Next

\* The invariant holds in every reachable state.
LEMMA BaseInvariant == Spec => []BaseInv
  BY BaseInit, BaseNext, PTL DEF Spec

\* Every variable of the explorer keeps its type.
THEOREM TypeCorrect == Spec => []TypeOK
<1>1. BaseInv => TypeOK
  BY DEF BaseInv
<1> QED
  BY <1>1, BaseInvariant, PTL

\* A node that is NAVIGATING has a goal, so its timeout is looked at.
THEOREM GoalWhileNavigating == Spec => []NavigatingHasGoal
<1>1. BaseInv => NavigatingHasGoal
  BY DEF BaseInv
<1> QED
  BY <1>1, BaseInvariant, PTL

\* A cancel is only ever sent with the handle of a goal that Nav2 executes.
THEOREM HandleAlwaysLive == Spec => []HandleIsLive
<1>1. BaseInv => HandleIsLive
  BY DEF BaseInv
<1> QED
  BY <1>1, BaseInvariant, PTL

-----------------------------------------------------------------------------
(* Completion *)

\* 1 while the timer has fired and its cycle is not counted yet.
Pending == IF due THEN 1 ELSE 0

\* An entry, with the cycles already counted, lasts at most bound cycles in a row.
WithinBound(bound) ==
    /\ suppressedCount < bound
    /\ \A e \in Entries : blacklist[e] > 0
          => suppressedCount + blacklist[e] + Pending <= bound

\* Why the suppressed cycles never reach their limit: an entry is added when a goal
\* ends, when the count is at most what entries older than that goal's timeout allow,
\* and each counted cycle is a period that every entry has lost.
SuppressionInv ==
    /\ left["navigating"] <= GoalTimeout
    /\ WithinBound(LeftAtTimeout + LongestEntry)
    /\ goal # NoGoal /\ state # "NAVIGATING" => WithinBound(LeftAtTimeout)
    /\ state = "NAVIGATING" =>
          /\ suppressedCount = 0
          /\ \A e \in Entries : \/ blacklist[e] <= LeftAtTimeout
                                \/ blacklist[e] + GoalTimeout
                                      <= SuccessCooldown + left["navigating"]

\* Everything the bounds are compared with is a number.
LEMMA Numbers ==
    ASSUME BaseInv
    PROVE  /\ suppressedCount \in Nat /\ Pending \in {0, 1}
           /\ \A e \in Entries : blacklist[e] \in 0 .. LongestEntry
           /\ left["navigating"] \in Nat
           /\ GoalTimeout \in Nat \ {0} /\ LeftAtTimeout \in Nat \ {0}
           /\ LongestEntry \in Nat /\ SuccessCooldown \in 0 .. LongestEntry
           /\ BlacklistTimeout \in 0 .. LongestEntry
           /\ BlacklistTimeout <= LeftAtTimeout
           /\ SuccessCooldown <= LeftAtTimeout + GoalTimeout
           /\ LeftAtTimeout + LongestEntry <= MaxSuppressedCycles
           /\ MaxSuppressedCycles \in Nat
<1>1. /\ suppressedCount \in Nat /\ left["navigating"] \in Nat /\ due \in BOOLEAN
      /\ blacklist \in [Entries -> 0 .. LongestEntry]
  BY Durations DEF BaseInv, TypeOK, Timers
<1>2. BlacklistTimeout <= LeftAtTimeout /\ SuccessCooldown <= LeftAtTimeout + GoalTimeout
  BY NumbersAssumption, Durations DEF LeftAtTimeout, Larger
<1> QED
  BY <1>1, <1>2, Durations, SuppressionAssumption DEF Pending

\* Two ways to stay within a bound: when nothing grows, and when the time that has
\* passed makes up for the cycle that is now due.
LEMMA BoundKept ==
    ASSUME BaseInv, BaseInv', NEW bound \in Nat, WithinBound(bound),
           suppressedCount' <= suppressedCount, Pending' <= Pending,
           \A e \in Entries : blacklist'[e] <= blacklist[e]
    PROVE  WithinBound(bound)'
<1>1. /\ suppressedCount' \in Nat /\ Pending' \in {0, 1}
      /\ \A e \in Entries : blacklist'[e] \in Nat
  BY Durations DEF BaseInv, TypeOK, Pending
<1>2. suppressedCount' < bound
  BY <1>1, Numbers DEF WithinBound
<1>3. ASSUME NEW e \in Entries, blacklist'[e] > 0
      PROVE  suppressedCount' + blacklist'[e] + Pending' <= bound
  <2>1. blacklist[e] > 0 /\ blacklist'[e] <= blacklist[e]
    BY <1>1, <1>3, Numbers
  <2>2. suppressedCount + blacklist[e] + Pending <= bound
    BY <2>1 DEF WithinBound
  <2> QED
    BY <1>1, <2>1, <2>2, Numbers
<1> QED
  BY <1>2, <1>3 DEF WithinBound

\* Time that passes keeps the bound.
LEMMA BoundOverTime ==
    ASSUME BaseInv, NEW bound \in Nat, WithinBound(bound), NEW d \in Nat \ {0}, Elapse(d)
    PROVE  WithinBound(bound)'
<1>1. suppressedCount' = suppressedCount /\ Pending = 0 /\ Pending' = 1
  BY DEF Elapse, counters, Pending
<1>2. \A e \in Entries : blacklist'[e] = Minus(blacklist[e], d)
  BY DEF Elapse
<1>3. \A e \in Entries : blacklist'[e] > 0 => blacklist[e] > 0 /\ blacklist'[e] <= blacklist[e] - 1
  BY <1>2, Numbers DEF Minus
<1> QED
  BY <1>1, <1>2, <1>3, Numbers DEF WithinBound, Minus

\* The suppressed cycle that is counted was paid for when its period passed.
LEMMA BoundCounted ==
    ASSUME BaseInv, NEW bound \in Nat \ {0}, WithinBound(bound), NothingValid
    PROVE  WithinBound(bound)'
<1>1. due /\ ~due' /\ UNCHANGED blacklist /\ CycleWithoutGoal /\ Valid = {}
  BY DEF NothingValid, Tick, memory
<1>2. Pending = 1 /\ Pending' = 0
  BY <1>1 DEF Pending
<1>3. CASE Detected[map] = {}
  <2>1. suppressedCount' = 0
    BY <1>1, <1>3 DEF CycleWithoutGoal
  <2> QED
    BY <1>1, <1>2, <2>1, Numbers DEF WithinBound
<1>4. CASE Detected[map] # {}
  <2>1. PICK e \in Entries : blacklist[e] > 0
    <3>1. PICK c \in Detected[map] : contains(blacklist, c.rep)
      BY <1>1, <1>4 DEF Valid
    <3>2. DOMAIN blacklist = Entries
      BY DEF BaseInv, TypeOK
    <3> QED
      BY <3>1, <3>2 DEF contains
  <2>2. suppressedCount' <= suppressedCount + 1 /\ suppressedCount' \in Nat
    BY <1>1, <1>4, Numbers DEF CycleWithoutGoal, UpTo
  <2>3. suppressedCount + blacklist[e] + 1 <= bound
    BY <1>2, <2>1 DEF WithinBound
  <2>4. suppressedCount' < bound
    BY <2>1, <2>2, <2>3, Numbers
  <2> QED
    BY <1>1, <1>2, <2>2, <2>4, Numbers DEF WithinBound
<1> QED
  BY <1>3, <1>4

\* The bound that holds in any state still holds after an entry is added to a state
\* within the tighter one.
LEMMA BoundAfterAdd ==
    ASSUME BaseInv, BaseInv', WithinBound(LeftAtTimeout),
           suppressedCount' = suppressedCount, Pending' = Pending
    PROVE  WithinBound(LeftAtTimeout + LongestEntry)'
<1>1. suppressedCount < LeftAtTimeout
  BY DEF WithinBound
<1>2. \A e \in Entries : blacklist'[e] \in 0 .. LongestEntry
  BY DEF BaseInv, TypeOK
<1> QED
  BY <1>1, <1>2, Numbers DEF WithinBound

\* With no cycle counted every state is within the looser bound.
LEMMA BoundAtZero ==
    ASSUME BaseInv, suppressedCount = 0
    PROVE  WithinBound(LeftAtTimeout + LongestEntry)
  BY Numbers DEF WithinBound

\* The bound holds when nothing is suppressed yet.
LEMMA SuppressionInit == Init => SuppressionInv
<1> SUFFICES ASSUME Init PROVE SuppressionInv
  OBVIOUS
<1>1. /\ suppressedCount = 0 /\ goal = NoGoal /\ state = "WAITING_FOR_MAP"
      /\ left["navigating"] = 0
  BY DEF Init, Timers
<1> QED
  BY <1>1, BaseInit, BoundAtZero, Durations DEF SuppressionInv

\* The timer: time passes, a cycle is counted, or the counts start again.
LEMMA SuppressionTimer ==
    ASSUME BaseInv, BaseInv', SuppressionInv,
           (\E d \in 1 .. MaxLag : Elapse(d)) \/ Timer
    PROVE  SuppressionInv'
<1> DEFINE bounds == {LeftAtTimeout, LeftAtTimeout + LongestEntry}
<1>0. bounds \subseteq Nat \ {0}
  BY Numbers
<1>1. ASSUME NEW d \in 1 .. MaxLag, Elapse(d) PROVE SuppressionInv'
  <2>1. d \in Nat \ {0}
    BY <1>1, NumbersAssumption
  <2>2. \A b \in bounds : WithinBound(b) => WithinBound(b)'
    BY <1>0, <1>1, <2>1, BoundOverTime
  <2>3. /\ UNCHANGED <<state, goal, suppressedCount>>
        /\ left'["navigating"] = Minus(left["navigating"], d)
        /\ \A e \in Entries : blacklist'[e] = Minus(blacklist[e], d)
    BY <1>1 DEF Elapse, counters, Timers
  <2>4. left'["navigating"] <= GoalTimeout
    BY <2>1, <2>3, Numbers DEF SuppressionInv, Minus
  <2>5. ASSUME NEW e \in Entries, state = "NAVIGATING"
        PROVE  blacklist'[e] <= LeftAtTimeout
               \/ blacklist'[e] + GoalTimeout <= SuccessCooldown + left'["navigating"]
    BY <2>1, <2>3, <2>5, Numbers DEF SuppressionInv, Minus
  <2> QED
    BY <2>2, <2>3, <2>4, <2>5 DEF SuppressionInv
<1>2. CASE NothingToDo \/ CooldownOver \/ Nav2Found
  <2>1. /\ UNCHANGED <<goal, suppressedCount, blacklist, left>> /\ due' = FALSE
        /\ state' = "NAVIGATING" <=> state = "NAVIGATING"
    BY <1>2 DEF NothingToDo, CooldownOver, Nav2Found, Tick, counters, memory
  <2>2. \A b \in bounds : WithinBound(b) => WithinBound(b)'
    BY <1>0, <2>1, BoundKept, Numbers DEF Pending
  <2> QED
    BY <2>1, <2>2 DEF SuppressionInv
<1>3. CASE NothingValid
  <2>1. UNCHANGED <<goal, left>> /\ state = "IDLE" /\ state' # "NAVIGATING"
    BY <1>3 DEF NothingValid, Tick
  <2>2. \A b \in bounds : WithinBound(b) => WithinBound(b)'
    BY <1>0, <1>3, BoundCounted
  <2> QED
    BY <2>1, <2>2 DEF SuppressionInv
<1>4. ASSUME NEW r, NEW h, ProbeCoolingDown \/ NoCandidate(r) \/ NoProbe(r, h)
      PROVE  SuppressionInv'
  <2>1. /\ UNCHANGED <<goal, blacklist>> /\ state = "IDLE" /\ state' # "NAVIGATING"
        /\ suppressedCount' = 0 /\ due' = FALSE
        /\ left' = left \/ left' = [left EXCEPT !["probe"] = ProbeCooldown]
    BY <1>4 DEF ProbeCoolingDown, NoCandidate, NoProbe, Tick, ResetCycles, memory
  <2>2. left'["navigating"] = left["navigating"]
    BY <2>1 DEF BaseInv, TypeOK, Timers
  <2>3. \A b \in bounds : WithinBound(b) => WithinBound(b)'
    BY <1>0, <2>1, BoundKept, Numbers DEF Pending
  <2> QED
    BY <2>1, <2>2, <2>3 DEF SuppressionInv
<1>5. ASSUME NEW r, NEW h, NEW s \in Slots, Dispatch(r, s) \/ Probe(r, h, s)
      PROVE  SuppressionInv'
  <2>1. /\ suppressedCount' = 0 /\ UNCHANGED blacklist /\ state' = "NAVIGATING"
        /\ due' = FALSE
    BY <1>5 DEF Dispatch, Probe, Tick, ResetCycles, Send, memory
  <2>2. left'["navigating"] = GoalTimeout
    BY <1>5 DEF Dispatch, Probe, BaseInv, TypeOK, Timers
  <2>3. WithinBound(LeftAtTimeout + LongestEntry)'
    BY <1>0, <2>1, BoundKept, Numbers DEF Pending, SuppressionInv
  <2>4. ASSUME NEW e \in Entries
        PROVE  blacklist'[e] <= LeftAtTimeout
               \/ blacklist'[e] + GoalTimeout <= SuccessCooldown + left'["navigating"]
    <3>1. LongestEntry = BlacklistTimeout \/ LongestEntry = SuccessCooldown
      BY DEF LongestEntry, Larger
    <3> QED
      BY <2>1, <2>2, <3>1, Numbers
  <2> QED
    BY <2>1, <2>2, <2>3, <2>4, Numbers DEF SuppressionInv
<1>6. CASE TimedOut
  <2>1. /\ state = "NAVIGATING" /\ state' = "COOLDOWN" /\ left["navigating"] = 0
        /\ suppressedCount' = suppressedCount /\ due' = FALSE
    BY <1>6 DEF TimedOut, Tick, EnterCooldown, counters
  <2>2. left'["navigating"] = left["navigating"]
    BY <1>6 DEF TimedOut, EnterCooldown, BaseInv, TypeOK, Timers
  <2>3. suppressedCount = 0 /\ \A e \in Entries : blacklist[e] <= LeftAtTimeout
    BY <2>1, Numbers DEF SuppressionInv
  <2>4. \A e \in Entries : blacklist'[e] \in {blacklist[e], BlacklistTimeout}
    BY <1>6 DEF TimedOut, blacklistGoal, add, BaseInv, TypeOK
  <2>5. WithinBound(LeftAtTimeout)' /\ WithinBound(LeftAtTimeout + LongestEntry)'
    BY <2>1, <2>3, <2>4, Numbers DEF WithinBound, Pending
  <2> QED
    BY <2>1, <2>2, <2>5, Numbers DEF SuppressionInv
<1> QED
  BY <1>1, <1>2, <1>3, <1>4, <1>5, <1>6 DEF Timer, Located, Selecting

\* The other callbacks: a map, a response, a result.
LEMMA SuppressionCallback ==
    ASSUME BaseInv, BaseInv', SuppressionInv,
           (\E m \in Maps : mapCallback(m)) \/ Response \/ Result \/ UNCHANGED vars
    PROVE  SuppressionInv'
<1> DEFINE bounds == {LeftAtTimeout, LeftAtTimeout + LongestEntry}
<1>0. bounds \subseteq Nat \ {0}
  BY Numbers
<1>1. CASE (\E m \in Maps : mapCallback(m)) \/ (\E s \in Slots : goalAccepted(s))
           \/ UNCHANGED vars
  <2>1. /\ UNCHANGED <<goal, suppressedCount, blacklist, left, due>>
        /\ state' = "NAVIGATING" <=> state = "NAVIGATING"
    BY <1>1 DEF mapCallback, goalAccepted, vars, counters, memory
  <2>2. \A b \in bounds : WithinBound(b) => WithinBound(b)'
    BY <2>1 DEF WithinBound, Pending
  <2> QED
    BY <2>1, <2>2 DEF SuppressionInv
<1>2. CASE \E s \in Slots : goalRejected(s)
  <2>1. /\ UNCHANGED <<suppressedCount, blacklist, left, due>>
        /\ state' = "IDLE" /\ goal' = NoGoal
    BY <1>2 DEF goalRejected, counters, memory
  <2>2. \A b \in bounds : WithinBound(b) => WithinBound(b)'
    BY <2>1 DEF WithinBound, Pending
  <2> QED
    BY <2>1, <2>2 DEF SuppressionInv
<1>3. CASE Result
  <2>1. PICK s \in Slots : Succeeded(s) \/ Aborted(s) \/ Canceled(s)
    BY <1>3 DEF Result
  <2>2. ResultArrives(s)
    BY <2>1 DEF Succeeded, Aborted, Canceled
  <2>3. /\ UNCHANGED <<suppressedCount, due>> /\ goal' = NoGoal /\ state' = "COOLDOWN"
        /\ EnterCooldown
    BY <2>2 DEF ResultArrives, ForgetGoal, EnterCooldown, counters
  <2>4. left'["navigating"] = left["navigating"]
    BY <2>3 DEF EnterCooldown, BaseInv, TypeOK, Timers
  <2>5. WithinBound(LeftAtTimeout + LongestEntry)'
    <3>1. CASE goal = NoGoal
      <4>1. UNCHANGED blacklist
        BY <2>1, <3>1 DEF Succeeded, Aborted, Canceled
      <4> QED
        BY <2>3, <4>1 DEF SuppressionInv, WithinBound, Pending
    <3>2. CASE state = "NAVIGATING"
      <4>1. suppressedCount' = 0
        BY <2>3, <3>2 DEF SuppressionInv
      <4>2. \A e \in Entries : blacklist'[e] \in 0 .. LongestEntry
        BY DEF BaseInv, TypeOK
      <4> QED
        BY <4>1, <4>2, <2>3, Numbers DEF WithinBound, Pending
    <3>3. CASE goal # NoGoal /\ state # "NAVIGATING"
      BY <2>3, <3>3, BoundAfterAdd DEF SuppressionInv, Pending
    <3> QED
      BY <3>1, <3>2, <3>3
  <2> QED
    BY <2>3, <2>4, <2>5 DEF SuppressionInv
<1> QED
  BY <1>1, <1>2, <1>3 DEF Response

\* Every step keeps it.
LEMMA SuppressionNext == BaseInv /\ BaseInv' /\ SuppressionInv /\ [Next]_vars => SuppressionInv'
  BY SuppressionTimer, SuppressionCallback DEF Next

\* A cycle that completes the exploration has no frontier, or no probe left to try.
LEMMA CompletionJustified ==
    ASSUME BaseInv, SuppressionInv, [Next]_vars, state = "IDLE", state' = "COMPLETED"
    PROVE  Detected[map] = {} \/ attempts' >= MaxAttempts
<1>1. NothingValid \/ \E r \in Robots, h \in Headings : NoProbe(r, h)
  <2>1. ~\E d \in 1 .. MaxLag : Elapse(d)
    BY DEF Elapse
  <2>2. ~\E m \in Maps : mapCallback(m)
    BY DEF mapCallback
  <2>3. ~(Nav2Found \/ NothingToDo \/ CooldownOver \/ TimedOut \/ ProbeCoolingDown)
    BY DEF Nav2Found, NothingToDo, CooldownOver, TimedOut, Tick, ProbeCoolingDown
  <2>4. ~(Response \/ Result)
    BY DEF Response, Result, goalRejected, goalAccepted, Succeeded, Aborted, Canceled,
           ResultArrives, EnterCooldown
  <2>5. ASSUME NEW r \in Robots PROVE ~NoCandidate(r) /\ \A s \in Slots : ~Dispatch(r, s)
    BY DEF NoCandidate, Dispatch, Send
  <2>6. ASSUME NEW r \in Robots, NEW h \in Headings, NEW s \in Slots PROVE ~Probe(r, h, s)
    BY DEF Probe, Send
  <2>7. ~UNCHANGED vars
    BY DEF vars
  <2> QED
    BY <2>1, <2>2, <2>3, <2>4, <2>5, <2>6, <2>7 DEF Next, Timer, Located, Selecting
<1>2. CASE NothingValid
  <2>1. WithinBound(LeftAtTimeout + LongestEntry)'
    BY <1>2, BoundCounted, Numbers DEF SuppressionInv
  <2>2. suppressedCount' < MaxSuppressedCycles
    <3>1. suppressedCount' \in Nat
      BY <1>2, CycleTyped, Durations DEF BaseInv
    <3> QED
      BY <2>1, <3>1, Numbers DEF WithinBound
  <2>3. suppressedCount' \in Nat
    BY <1>2, CycleTyped, Durations DEF BaseInv
  <2> QED
    BY <1>2, <2>2, <2>3, Numbers DEF NothingValid
<1>3. ASSUME NEW r \in Robots, NEW h \in Headings, NoProbe(r, h)
      PROVE  attempts' >= MaxAttempts
  BY <1>3 DEF NoProbe
<1> QED
  BY <1>1, <1>2, <1>3

\* With a limit on the suppressed cycles that outlasts the entries, as the comment of
\* k_max_all_suppressed_cycles_ asks, the exploration is never declared complete
\* while frontiers are only in a cooldown.
THEOREM CompletionNeverFalse == Spec => NoFalseCompletion
<1> DEFINE Justified == state = "IDLE" /\ state' = "COMPLETED"
                           => Detected[map] = {} \/ attempts' >= MaxAttempts
<1>1. BaseInv /\ SuppressionInv /\ [Next]_vars => [Justified]_vars
  BY CompletionJustified
<1>2. Spec => []SuppressionInv
  BY SuppressionInit, SuppressionNext, BaseInvariant, PTL DEF Spec
<1> QED
  BY <1>1, <1>2, BaseInvariant, PTL DEF Spec, NoFalseCompletion

-----------------------------------------------------------------------------
(* Dispatch *)

\* What a strategy settles on is blacklisted only where `nearest` replaced the
\* representative of a cluster (the filter on clusters and the second check).
LEMMA ChosenUnlessReplaced ==
    ASSUME map \in Maps, NEW robot \in Robots, NEW p \in Choosable(robot),
           contains(blacklist, p)
    PROVE  /\ Strategy = "nearest"
           /\ \E c \in Detected[map], r \in Robots :
                 /\ ~FarEnough(c.rep, r) /\ ~contains(blacklist, c.rep)
                 /\ p \in Alternatives(c, r)
<1>1. Strategy # "information_gain_revisit" /\ p \in selectAll(Valid, robot)
  BY DEF Choosable, select
<1>2. PICK c \in Valid : p \in GoalPoints(c, robot)
  BY <1>1 DEF selectAll
<1>3. c \in Detected[map] /\ ~contains(blacklist, c.rep)
  BY <1>2 DEF Valid
<1>4. ~FarEnough(c.rep, robot) /\ p \in Alternatives(c, robot)
  BY <1>2, <1>3 DEF GoalPoints
<1>5. Strategy = "nearest"
  BY <1>1, StrategyAssumption
<1> QED
  BY <1>3, <1>4, <1>5

\* No step but a dispatch makes the node head for a blacklisted point: entries are
\* made only by a timeout and by results, which leave NAVIGATING, a rejection leaves
\* it, a probe is not a frontier goal, and time only lets entries expire.
LEMMA HeadsForBlockedByDispatch ==
    ASSUME BaseInv, [Next]_vars, ~HeadsForBlocked, HeadsForBlocked'
    PROVE  \E r \in Robots, s \in Slots : Dispatch(r, s)
<1>1. state' = "NAVIGATING" /\ ~isRecovery' /\ contains(blacklist', goal')
  BY DEF HeadsForBlocked
<1>2. ASSUME NEW d \in 1 .. MaxLag, Elapse(d) PROVE FALSE
  <2>1. UNCHANGED <<state, isRecovery, goal>>
    BY <1>2 DEF Elapse
  <2>2. blacklist' = [e \in Entries |-> Minus(blacklist[e], d)]
        /\ blacklist \in [Entries -> 0 .. LongestEntry]
    BY <1>2 DEF Elapse, BaseInv, TypeOK
  <2>3. \A e \in Entries : blacklist'[e] > 0 => blacklist[e] > 0
    BY <2>2, Durations, NumbersAssumption DEF Minus
  <2>4. contains(blacklist, goal)
    BY <1>1, <2>1, <2>2, <2>3 DEF contains
  <2> QED
    BY <1>1, <2>1, <2>4 DEF HeadsForBlocked
<1>3. ASSUME NEW s, NEW m,
             mapCallback(m) \/ goalAccepted(s) \/ NothingToDo \/ UNCHANGED vars
      PROVE  FALSE
  <2>1. UNCHANGED <<isRecovery, goal, blacklist>> /\ state = "NAVIGATING"
    BY <1>1, <1>3 DEF mapCallback, goalAccepted, NothingToDo, vars, memory, States
  <2> QED
    BY <1>1, <2>1 DEF HeadsForBlocked
<1>4. ASSUME NEW r, NEW h, NEW s,
             \/ Nav2Found \/ CooldownOver \/ NothingValid \/ ProbeCoolingDown
             \/ NoCandidate(r) \/ NoProbe(r, h) \/ TimedOut \/ goalRejected(s)
             \/ ResultArrives(s)
      PROVE  FALSE
  <2>1. state' # "NAVIGATING"
    BY <1>4 DEF Nav2Found, CooldownOver, NothingValid, ProbeCoolingDown, NoCandidate,
           NoProbe, TimedOut, goalRejected, ResultArrives, EnterCooldown, Tick
  <2> QED
    BY <1>1, <2>1
<1>5. ASSUME NEW r, NEW h, NEW s, Probe(r, h, s) PROVE FALSE
  BY <1>1, <1>5 DEF Probe
<1> QED
  BY <1>2, <1>3, <1>4, <1>5
  DEF Next, Timer, Located, Selecting, Response, Result, Succeeded, Aborted, Canceled

\* Under either strategy, the node comes to head for a blacklisted frontier point
\* only when `nearest` replaced a representative by another cell of its cluster.
THEOREM GoalSeldomBlacklisted == Spec => GoalNotBlacklisted
<1> DEFINE Replaced == ~HeadsForBlocked /\ HeadsForBlocked'
              => /\ Strategy = "nearest"
                 /\ \E c \in Detected[map], r \in Robots :
                       /\ ~FarEnough(c.rep, r) /\ ~contains(blacklist, c.rep)
                       /\ goal' \in Alternatives(c, r)
<1>1. BaseInv /\ [Next]_vars => [Replaced]_vars
  <2> SUFFICES ASSUME BaseInv, [Next]_vars, ~HeadsForBlocked, HeadsForBlocked'
               PROVE  Replaced
    OBVIOUS
  <2>1. PICK r \in Robots, s \in Slots : Dispatch(r, s)
    BY HeadsForBlockedByDispatch
  <2>2. goal' \in Choosable(r) /\ blacklist' = blacklist /\ map \in Maps
    BY <2>1, LocatedMap DEF Dispatch
  <2>3. contains(blacklist, goal')
    BY <2>2 DEF HeadsForBlocked
  <2> QED
    BY <2>2, <2>3, ChosenUnlessReplaced
<1> QED
  BY <1>1, BaseInvariant, PTL DEF Spec, GoalNotBlacklisted
=============================================================================
