-------------------------- MODULE ChildGoalTracker --------------------------
(***************************************************************************)
(* The child-goal lifecycle policy of the coverage executor               *)
(* (child_goal_tracker.hpp): a generation guard that tells the callbacks  *)
(* of the goal being waited for from late callbacks of earlier goals, and *)
(* the bookkeeping of the timeout watchdog and of cancel requests.        *)
(*                                                                         *)
(* The class is passive, so it is a record and one operator per method.    *)
(* A method that both answers and updates is a pair of operators, X (the   *)
(* answer) and AfterX (the tracker it leaves).                             *)
(***************************************************************************)
EXTENDS Naturals

Tracker == [gen : Nat, sent : BOOLEAN, handleKnown : BOOLEAN,
            cancelWanted : BOOLEAN, cancelAsked : BOOLEAN]

\* Nothing in flight under generation g: what the fields are in a new tracker
\* and what clear, abandon, a result and a rejection all leave behind.
Quiescent(g) == [gen |-> g, sent |-> FALSE, handleKnown |-> FALSE,
                 cancelWanted |-> FALSE, cancelAsked |-> FALSE]

NewTracker == Quiescent(0)

\* clear() keeps the generation and does not advance it.
Clear(t) == Quiescent(t.gen)

Dispatch(t) == [Quiescent(t.gen + 1) EXCEPT !.sent = TRUE]

\* Variant of Abandon: the generation of the abandoned goal stays current.
AbandonKeepsGeneration(t) == Quiescent(t.gen)

Abandon(t) == Quiescent(t.gen + 1)

\* Variant of RequestCancel: only a goal whose handle is known is remembered.
RequestCancelOfKnown(t) == [t EXCEPT !.cancelWanted = @ \/ t.handleKnown]

RequestCancel(t) == [t EXCEPT !.cancelWanted = @ \/ t.sent]

NoteCancelSent(t) ==
    IF t.sent THEN [t EXCEPT !.cancelAsked = TRUE, !.cancelWanted = FALSE] ELSE t

OnGoalResponse(t, g, accepted) ==
    IF g # t.gen THEN "stale"
    ELSE IF ~accepted THEN "rejected_current"
    ELSE IF t.cancelWanted /\ ~t.cancelAsked THEN "store_and_cancel"
    ELSE "store_only"

AfterGoalResponse(t, g, accepted) ==
    IF g # t.gen THEN t
    ELSE IF accepted THEN [t EXCEPT !.handleKnown = TRUE]
    ELSE Clear(t)

\* Variant of OnResult: no generation guard.
OnResultUnguarded(t, g, cancelling) == IF cancelling THEN "cleared_cancelling" ELSE "ready"

OnResult(t, g, cancelling) ==
    IF g # t.gen THEN "stale_ignored"
    ELSE IF cancelling THEN "cleared_cancelling"
    ELSE "ready"

AfterResult(t, g) == IF g # t.gen THEN t ELSE Clear(t)

\* Variants of Watch: abandon without a cancel first; never abandon.
WatchAbandonsAtOnce(t, run, timeout, grace) ==
    IF t.sent /\ run > timeout THEN "abandon" ELSE "none"
WatchOnlyCancels(t, run, timeout, grace) ==
    IF t.sent /\ run > timeout THEN "cancel" ELSE "none"

\* Both comparisons are strict, as in the code.
Watch(t, run, timeout, grace) ==
    IF ~t.sent THEN "none"
    ELSE IF run > timeout + grace THEN "abandon"
    ELSE IF run > timeout THEN "cancel"
    ELSE "none"
=============================================================================
