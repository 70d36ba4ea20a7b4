-------------------------- MODULE ExecutorChildGoals ------------------------
(***************************************************************************)
(* Proofs about the child goals of the coverage executor: none is lost, no *)
(* outcome goes astray, a stop reaches the child goal, a resume keeps its  *)
(* coverage, and over approach, row drive and NavigateToPose fallback      *)
(* together a process never sends or gives up more child goals than the    *)
(* attempts of the segments of its tasks allow.  They hold for every plan, *)
(* every limit and any number of tasks and restarts, as long as no task is *)
(* accepted after a STOP_FAILED: a goal that such a task leaves behind is  *)
(* current for the next one, as the counterexample of OldTaskGoalsAreStale *)
(* shows.                                                                  *)
(***************************************************************************)
EXTENDS ExecutorProofs

\* The tracker t, the child goals gs and the two stored handles fit together: a goal
\* that is current is the only one and is waited for; a handle is stored exactly for
\* a current goal that runs, unless it was asked to cancel as it was accepted.
Flight(t, gs, nav, fol) ==
    /\ \A g \in gs : g.gen # 0 /\ g.gen <= t.gen
    /\ \A g, h \in gs : g.gen = h.gen => g = h
    /\ \A g \in gs : g.gen = t.gen => t.sent
    /\ \A g \in gs : g.gen = t.gen /\ g.st = "running" /\ ~g.cancel =>
          (IF g.kind = "nav" THEN nav ELSE fol) = g.gen
    /\ \A g \in gs : g.gen = t.gen /\ g.st \in {"sent", "accepted", "rejected"} =>
          ~t.cancelAsked
    /\ nav # 0 => \E g \in gs : g.gen = t.gen /\ g.kind = "nav" /\ nav = g.gen
                                /\ g.st \in {"running", "ok", "bad"}
    /\ fol # 0 => \E g \in gs : g.gen = t.gen /\ g.kind = "follow" /\ fol = g.gen
                                /\ g.st \in {"running", "ok", "bad"}

\* The current goal was asked to cancel, or will be when its handle arrives.
Told(t, gs) ==
    \A g \in gs : g.gen = t.gen =>
        /\ g.st = "running" => g.cancel
        /\ g.st \in {"sent", "accepted"} => t.cancelWanted

\* The client accepts that a robot which could not be stopped takes no new task.
Patient == tasks' = tasks + 1 => \A r \in reply : r.code # "STOP_FAILED"

PatientClient == [][Patient]_vars

\* Between two tasks nothing is waited for, unless the last stop failed.
IdleInv == ~active => ~trk.sent \/ \E r \in reply : r.code = "STOP_FAILED"

FlightInv == Flight(trk, goals, navGh, followGh)

\* The current goal of a stop that was requested is told, and so is one that is late.
ToldInv ==
    /\ active /\ phase # "CANCELLING" => ~cancelStarted
    /\ Cancelling /\ cancelStarted => Told(trk, goals)
    /\ Executing /\ age > ChildTimeout => Told(trk, goals)

\* What is waited for, or waits to be processed, is of the segment in hand, which is
\* open; and a row that is driven has its start pose.
HandInv ==
    /\ \A i \in Segs : disp[i] # "BLOCKED_TEMP"
    /\ Executing /\ (trk.sent \/ pending # {}) =>
          execIndex \in Segs /\ disp[execIndex] = "PENDING"
    /\ Executing => \A o \in pending : o.idx = execIndex
    /\ Executing => \A g \in goals : g.gen = trk.gen => g.idx = execIndex
    /\ active => \A g \in goals : g.gen = trk.gen => g.task = tasks
    /\ DrivenRowHasStart

\* A checkpoint file holds one checkpoint.
DiskInv ==
    /\ \A p \in PlanIds : \A d, e \in disk[p] : d = e
    /\ ResumeKeepsCoverage

RunInv == IdleInv /\ FlightInv /\ ToldInv /\ HandInv /\ DiskInv

NodeInv == TypeInv /\ LinkInv /\ RunInv

-----------------------------------------------------------------------------
(* What the operations do to the goals in flight *)

\* When nothing is waited for no goal is current and no handle is stored.
LEMMA NothingCurrent ==
    ASSUME NEW t, NEW gs, NEW nav, NEW fol, Flight(t, gs, nav, fol), ~t.sent
    PROVE  nav = 0 /\ fol = 0 /\ \A g \in gs : g.gen # t.gen
  BY DEF Flight

\* An abandoned goal is not current any more.
LEMMA AbandonFlight ==
    ASSUME NEW t \in Tracker, NEW gs \in SUBSET ChildGoals, NEW nav, NEW fol,
           Flight(t, gs, nav, fol)
    PROVE  Flight(Abandon(t), gs, 0, 0) /\ \A g \in gs : g.gen # Abandon(t).gen
<1>1. Abandon(t).gen = t.gen + 1 /\ t.gen \in Nat
  BY DEF Abandon, Quiescent, Tracker
<1>2. \A g \in gs : g.gen \in Nat /\ g.gen # 0 /\ g.gen <= t.gen
  BY DEF Flight, ChildGoals
<1>3. \A g \in gs : g.gen # Abandon(t).gen /\ g.gen <= Abandon(t).gen
  BY <1>1, <1>2
<1>4. \A g, h \in gs : g.gen = h.gen => g = h
  BY DEF Flight
<1> QED
  BY <1>2, <1>3, <1>4 DEF Flight

\* A goal is sent, alone, or its sending fails and its outcome is queued.
LEMMA SendFlight ==
    ASSUME NEW t \in Tracker, goals \in SUBSET ChildGoals, NEW nav, NEW fol, ~t.sent,
           Flight(t, goals, nav, fol), NEW kind, NEW to, NEW idx,
           Send(kind, to, idx, t, nav, fol)
    PROVE  /\ Flight(trk', goals', navGh', followGh')
           /\ Told(trk', goals') \/ age' = 0
           /\ \A g \in goals' : g.gen = trk'.gen => g.idx = idx /\ g.task = tasks
           /\ \A o \in pending' : o.idx = idx
<1>1. CASE /\ pending' = {[idx |-> idx, ok |-> FALSE]}
           /\ trk' = t /\ navGh' = nav /\ followGh' = fol
           /\ UNCHANGED <<goals, age>>
  <2>1. \A g \in goals : g.gen # t.gen
    BY NothingCurrent
  <2> QED
    BY <1>1, <2>1 DEF Told
<1>2. CASE /\ pending' = {}
           /\ trk' = Dispatch(t)
           /\ goals' = goals \cup
                 {[gen |-> t.gen + 1, task |-> tasks, idx |-> idx, kind |-> kind,
                   to |-> to, st |-> "sent", cancel |-> FALSE]}
           /\ navGh' = IF kind = "nav" THEN 0 ELSE nav
           /\ followGh' = IF kind = "follow" THEN 0 ELSE fol
           /\ age' = 0
  <2> DEFINE new == [gen |-> t.gen + 1, task |-> tasks, idx |-> idx, kind |-> kind,
                     to |-> to, st |-> "sent", cancel |-> FALSE]
  <2>1. new.gen = t.gen + 1 /\ new.st = "sent" /\ new.idx = idx /\ new.task = tasks
    OBVIOUS
  <2>2. Dispatch(t).gen = t.gen + 1 /\ Dispatch(t).sent /\ ~Dispatch(t).cancelAsked
    BY DEF Dispatch, Quiescent
  <2>3. t.gen \in Nat /\ \A g \in goals : g.gen \in Nat /\ g.gen # 0 /\ g.gen <= t.gen
    BY DEF Flight, ChildGoals, Tracker
  <2>4. goals' = goals \cup {new} /\ trk' = Dispatch(t) /\ navGh' = 0 /\ followGh' = 0
    BY <1>2, NothingCurrent
  <2> HIDE DEF new
  <2>5. \A g \in goals' : g.gen = trk'.gen => g = new
    BY <2>2, <2>3, <2>4
  <2>6. \A g \in goals' : g.gen # 0 /\ g.gen <= trk'.gen
    BY <2>1, <2>2, <2>3, <2>4
  <2>7. \A g, h \in goals' : g.gen = h.gen => g = h
    <3>1. \A g, h \in goals : g.gen = h.gen => g = h
      BY DEF Flight
    <3>2. \A g \in goals : g.gen # new.gen
      BY <2>1, <2>3
    <3> QED
      BY <2>4, <3>1, <3>2
  <2>8. Flight(trk', goals', navGh', followGh')
    BY <2>1, <2>2, <2>4, <2>5, <2>6, <2>7 DEF Flight
  <2> QED
    BY <1>2, <2>1, <2>5, <2>8
<1> QED
  BY <1>1, <1>2 DEF Send

\* The goals after a server took a step of g.
LEMMA ServerFlight ==
    ASSUME NEW t \in Tracker, goals \in SUBSET ChildGoals, NEW nav, NEW fol,
           Flight(t, goals, nav, fol), NEW g \in goals, NEW st,
           \/ g.st = "sent" /\ st \in {"accepted", "rejected"}
           \/ g.st = "running" /\ st \in {"ok", "bad"}
    PROVE  LET gs == Replaced(g, [g EXCEPT !.st = st])
           IN  /\ Flight(t, gs, nav, fol)
               /\ Told(t, goals) => Told(t, gs)
               /\ \A h \in gs : \E k \in goals : h.gen = k.gen /\ h.idx = k.idx /\ h.task = k.task
<1> DEFINE new == [g EXCEPT !.st = st]
           gs == Replaced(g, new)
<1>1. /\ new.gen = g.gen /\ new.idx = g.idx /\ new.task = g.task /\ new.kind = g.kind
      /\ new.cancel = g.cancel /\ new.st = st
  BY DEF ChildGoals
<1>2. gs = (goals \ {g}) \cup {new}
  BY DEF Replaced
<1> HIDE DEF new, gs
<1>3. \A h \in gs : h \in goals \/ h = new
  BY <1>2
<1>4. \A h, k \in gs : h.gen = k.gen => h = k
  <2>1. \A h, k \in goals : h.gen = k.gen => h = k
    BY DEF Flight
  <2>2. \A h \in goals \ {g} : h.gen # new.gen
    BY <1>1, <2>1
  <2> QED
    BY <1>2, <2>1, <2>2
<1>5. /\ \A h \in gs : h.gen # 0 /\ h.gen <= t.gen
      /\ \A h \in gs : h.gen = t.gen => t.sent
  BY <1>1, <1>3 DEF Flight
<1>6. \A h \in gs : h.gen = t.gen /\ h.st = "running" /\ ~h.cancel =>
          (IF h.kind = "nav" THEN nav ELSE fol) = h.gen
  BY <1>1, <1>3 DEF Flight
<1>7. \A h \in gs : h.gen = t.gen /\ h.st \in {"sent", "accepted", "rejected"} =>
          ~t.cancelAsked
  BY <1>1, <1>3 DEF Flight
<1>8. nav # 0 => \E h \in gs : h.gen = t.gen /\ h.kind = "nav" /\ nav = h.gen
                               /\ h.st \in {"running", "ok", "bad"}
  <2> SUFFICES ASSUME nav # 0
               PROVE  \E h \in gs : h.gen = t.gen /\ h.kind = "nav" /\ nav = h.gen
                                    /\ h.st \in {"running", "ok", "bad"}
    OBVIOUS
  <2>1. PICK h \in goals : h.gen = t.gen /\ h.kind = "nav" /\ nav = h.gen
                           /\ h.st \in {"running", "ok", "bad"}
    BY DEF Flight
  <2>2. CASE h = g
    BY <1>1, <1>2, <2>1, <2>2
  <2>3. CASE h # g
    BY <1>2, <2>1, <2>3
  <2> QED
    BY <2>2, <2>3
<1>9. fol # 0 => \E h \in gs : h.gen = t.gen /\ h.kind = "follow" /\ fol = h.gen
                                /\ h.st \in {"running", "ok", "bad"}
  <2> SUFFICES ASSUME fol # 0
               PROVE  \E h \in gs : h.gen = t.gen /\ h.kind = "follow" /\ fol = h.gen
                                    /\ h.st \in {"running", "ok", "bad"}
    OBVIOUS
  <2>1. PICK h \in goals : h.gen = t.gen /\ h.kind = "follow" /\ fol = h.gen
                           /\ h.st \in {"running", "ok", "bad"}
    BY DEF Flight
  <2>2. CASE h = g
    BY <1>1, <1>2, <2>1, <2>2
  <2>3. CASE h # g
    BY <1>2, <2>1, <2>3
  <2> QED
    BY <2>2, <2>3
<1>10. Flight(t, gs, nav, fol)
  BY <1>4, <1>5, <1>6, <1>7, <1>8, <1>9 DEF Flight
<1>11. Told(t, goals) => Told(t, gs)
  BY <1>1, <1>3 DEF Told
<1>12. \A h \in gs : \E k \in goals : h.gen = k.gen /\ h.idx = k.idx /\ h.task = k.task
  BY <1>1, <1>3
<1> QED
  BY <1>10, <1>11, <1>12 DEF gs, new

\* Where no goal is current and no handle is stored, everything fits.
LEMMA IdleFlight ==
    ASSUME NEW t, NEW gs, \A g \in gs : g.gen # 0 /\ g.gen <= t.gen /\ g.gen # t.gen,
           \A g, h \in gs : g.gen = h.gen => g = h
    PROVE  Flight(t, gs, 0, 0) /\ Told(t, gs)
  BY DEF Flight, Told

\* Clearing a tracker that waits for nothing leaves everything as it is.
LEMMA ClearFlight ==
    ASSUME NEW t, NEW gs, NEW nav, NEW fol, Flight(t, gs, nav, fol), ~t.sent
    PROVE  /\ Flight(Clear(t), gs, nav, fol) /\ ~Clear(t).sent
           /\ \A g \in gs : g.gen # Clear(t).gen
<1>1. nav = 0 /\ fol = 0 /\ \A g \in gs : g.gen # t.gen
  BY NothingCurrent
<1>2. Clear(t).gen = t.gen /\ ~Clear(t).sent
  BY DEF Clear, Quiescent
<1>3. /\ \A g \in gs : g.gen # 0 /\ g.gen <= t.gen
      /\ \A g, h \in gs : g.gen = h.gen => g = h
  BY DEF Flight
<1> QED
  BY <1>1, <1>2, <1>3, IdleFlight

\* The wait for the current goal ends and the goal is over.
LEMMA OverFlight ==
    ASSUME NEW t \in Tracker, goals \in SUBSET ChildGoals, NEW g \in goals,
           Flight(t, goals, navGh, followGh), g.gen = t.gen, DropHandle(g)
    PROVE  /\ Flight(Clear(t), goals \ {g}, navGh', followGh')
           /\ Told(Clear(t), goals \ {g})
<1>1. Clear(t).gen = t.gen
  BY DEF Clear, Quiescent
<1>2. \A h \in goals \ {g} : h.gen # 0 /\ h.gen <= t.gen /\ h.gen # t.gen
  BY DEF Flight
<1>3. \A h, k \in goals \ {g} : h.gen = k.gen => h = k
  BY DEF Flight
<1>4. navGh' = 0
  <2>1. ASSUME navGh # 0 PROVE g.kind = "nav"
    BY <2>1 DEF Flight
  <2> QED
    BY <2>1 DEF DropHandle
<1>5. followGh' = 0
  <2>1. ASSUME followGh # 0 PROVE g.kind = "follow"
    BY <2>1 DEF Flight
  <2> QED
    BY <2>1 DEF DropHandle
<1> QED
  BY <1>1, <1>2, <1>3, <1>4, <1>5, IdleFlight

\* The end of a goal that is not current changes nothing.
LEMMA StaleFlight ==
    ASSUME NEW t, NEW gs, NEW nav, NEW fol, Flight(t, gs, nav, fol), NEW g \in gs,
           g.gen # t.gen
    PROVE  /\ Flight(t, gs \ {g}, nav, fol)
           /\ Told(t, gs) => Told(t, gs \ {g})
  BY DEF Flight, Told

\* A goal that is not current learns that it was accepted.
LEMMA StaleAccepted ==
    ASSUME NEW t, goals \in SUBSET ChildGoals, NEW nav, NEW fol,
           Flight(t, goals, nav, fol), NEW g \in goals, g.gen # t.gen
    PROVE  LET gs == Replaced(g, [g EXCEPT !.st = "running"])
           IN  Flight(t, gs, nav, fol) /\ (Told(t, goals) => Told(t, gs))
<1> DEFINE new == [g EXCEPT !.st = "running"]
           gs == Replaced(g, new)
<1>1. new.gen = g.gen
  BY DEF ChildGoals
<1>2. gs = (goals \ {g}) \cup {new}
  BY DEF Replaced
<1> HIDE DEF new, gs
<1>3. \A h \in gs : h.gen = t.gen => h \in goals
  BY <1>1, <1>2
<1>4. \A h \in goals : h.gen = t.gen => h \in gs
  BY <1>2
<1>5. \A h, k \in gs : h.gen = k.gen => h = k
  BY <1>1, <1>2 DEF Flight
<1>6. \A h \in gs : h.gen # 0 /\ h.gen <= t.gen
  BY <1>1, <1>2 DEF Flight
<1>7. Flight(t, gs, nav, fol)
  BY <1>3, <1>4, <1>5, <1>6 DEF Flight
<1>8. Told(t, goals) => Told(t, gs)
  BY <1>3 DEF Told
<1> QED
  BY <1>7, <1>8 DEF gs, new

\* The current goal is accepted; its handle is stored, or it is asked to cancel.
LEMMA AcceptedFlight ==
    ASSUME NEW t \in Tracker, NEW t2, goals \in SUBSET ChildGoals,
           Flight(t, goals, navGh, followGh), NEW g \in goals, g.gen = t.gen,
           g.st = "accepted", NEW new, new.gen = g.gen, new.kind = g.kind,
           g.kind \in {"nav", "follow"}, new.st = "running", t2.gen = t.gen, t2.sent,
           \/ new.cancel = TRUE /\ UNCHANGED <<navGh, followGh>>
           \/ StoreHandle(g)
    PROVE  /\ Flight(t2, Replaced(g, new), navGh', followGh')
           /\ new.cancel = TRUE => Told(t2, Replaced(g, new))
<1> DEFINE gs == Replaced(g, new)
<1>1. gs = (goals \ {g}) \cup {new}
  BY DEF Replaced
<1>2. navGh = 0 /\ followGh = 0
  BY DEF Flight
<1> HIDE DEF gs
<1>3. \A h \in gs : h.gen = t2.gen => h = new
  BY <1>1 DEF Flight
<1>4. \A h \in gs : h.gen # 0 /\ h.gen <= t2.gen
  BY <1>1 DEF Flight
<1>5. \A h, k \in gs : h.gen = k.gen => h = k
  BY <1>1 DEF Flight
<1>6. new \in gs
  BY <1>1
<1>7. CASE new.cancel = TRUE /\ UNCHANGED <<navGh, followGh>>
  <2>1. navGh' = 0 /\ followGh' = 0
    BY <1>2, <1>7
  <2> QED
    BY <1>3, <1>4, <1>5, <1>7, <2>1 DEF Flight, Told, gs
<1>8. CASE StoreHandle(g)
  <2>1. g.kind = "nav" => navGh' = g.gen /\ followGh' = 0
    BY <1>2, <1>8 DEF StoreHandle
  <2>2. g.kind = "follow" => navGh' = 0 /\ followGh' = g.gen
    BY <1>2, <1>8 DEF StoreHandle
  <2>3. Flight(t2, gs, navGh', followGh')
    BY <1>3, <1>4, <1>5, <1>6, <2>1, <2>2 DEF Flight
  <2>4. new.cancel = TRUE => Told(t2, gs)
    BY <1>3 DEF Told
  <2> QED
    BY <2>3, <2>4 DEF gs
<1> QED
  BY <1>7, <1>8

\* The goals after cancels were issued are those before, the asked ones marked.
LEMMA AskedGoals ==
    ASSUME goals \in SUBSET ChildGoals, NEW gens
    PROVE  /\ \A h \in CancelAsked(gens) : \E g \in goals :
                 /\ h.gen = g.gen /\ h.st = g.st /\ h.kind = g.kind /\ h.idx = g.idx
                 /\ h.task = g.task
                 /\ IF g.gen \in gens THEN h.cancel = TRUE /\ h = [g EXCEPT !.cancel = TRUE]
                    ELSE h = g
           /\ \A g \in goals : \E h \in CancelAsked(gens) :
                 h.gen = g.gen /\ h.st = g.st /\ h.kind = g.kind
           /\ gens = {} => CancelAsked(gens) = goals
<1>1. \A g \in goals : LET h == [g EXCEPT !.cancel = TRUE]
                       IN  h.gen = g.gen /\ h.st = g.st /\ h.kind = g.kind
                           /\ h.idx = g.idx /\ h.task = g.task /\ h.cancel = TRUE
  BY DEF ChildGoals
<1> QED
  BY <1>1 DEF CancelAsked

\* A stored handle is that of the current goal, which is no stranger to the client.
LEMMA HandleIsCurrent ==
    ASSUME FlightInv, goals \in SUBSET ChildGoals
    PROVE  /\ ~CancelThrows
           /\ KnownHandles # {} => \E g \in goals : /\ g.gen = trk.gen
                                                    /\ g.st \in {"running", "ok", "bad"}
  BY DEF FlightInv, Flight, CancelThrows, Dangling, KnownHandles

\* The stop request and the cancel of the watchdog: on the handle, or for later.
LEMMA CancelFlight ==
    ASSUME TypeInv, FlightInv, NEW t, NEW gs, t.gen = trk.gen, t.sent = trk.sent,
           \/ KnownHandles # {} /\ gs = CancelAsked(KnownHandles)
           \/ /\ KnownHandles = {} /\ gs = goals
              /\ t.cancelAsked = trk.cancelAsked /\ (trk.sent => t.cancelWanted)
    PROVE  /\ Flight(t, gs, navGh, followGh) /\ Told(t, gs)
           /\ \A h \in gs : \E k \in goals : h.gen = k.gen /\ h.idx = k.idx /\ h.task = k.task
<1>0. goals \in SUBSET ChildGoals
  BY DEF TypeInv, TypeOK
<1>1. \A g, h \in goals : g.gen = h.gen => g = h
  BY DEF FlightInv, Flight
<1>2. CASE KnownHandles # {} /\ gs = CancelAsked(KnownHandles)
  <2>1. PICK c \in goals : c.gen = trk.gen /\ c.st \in {"running", "ok", "bad"}
    BY <1>0, <1>2, HandleIsCurrent
  <2>2. \A h \in gs : \E g \in goals :
           /\ h.gen = g.gen /\ h.st = g.st /\ h.kind = g.kind /\ h.idx = g.idx
                 /\ h.task = g.task
           /\ IF g.gen \in KnownHandles
              THEN h.cancel = TRUE /\ h = [g EXCEPT !.cancel = TRUE] ELSE h = g
    BY <1>0, <1>2, AskedGoals
  <2>3. \A g \in goals : \E h \in gs : h.gen = g.gen /\ h.st = g.st /\ h.kind = g.kind
    <3>1. \A g \in goals : \E h \in CancelAsked(KnownHandles) :
             h.gen = g.gen /\ h.st = g.st /\ h.kind = g.kind
      BY <1>0, AskedGoals
    <3> QED
      BY <1>2, <3>1
  <2>4. \A h, k \in gs : h.gen = k.gen => h = k
    <3> SUFFICES ASSUME NEW h \in gs, NEW k \in gs, h.gen = k.gen
                 PROVE  h = k
      OBVIOUS
    <3>1. PICK g \in goals : /\ h.gen = g.gen
                             /\ IF g.gen \in KnownHandles
                                THEN h = [g EXCEPT !.cancel = TRUE] ELSE h = g
      BY <2>2
    <3>2. PICK f \in goals : /\ k.gen = f.gen
                             /\ IF f.gen \in KnownHandles
                                THEN k = [f EXCEPT !.cancel = TRUE] ELSE k = f
      BY <2>2
    <3>3. g = f
      BY <1>1, <3>1, <3>2
    <3> DEFINE asked == [g EXCEPT !.cancel = TRUE]
    <3>4. h = IF g.gen \in KnownHandles THEN asked ELSE g
      BY <3>1
    <3>5. k = IF g.gen \in KnownHandles THEN asked ELSE g
      BY <3>2, <3>3
    <3> HIDE DEF asked
    <3> QED
      BY <3>4, <3>5
  <2>5. \A h \in gs : h.gen = t.gen => h.st \in {"running", "ok", "bad"}
    BY <1>1, <2>1, <2>2
  <2>6. \A h \in gs : h.gen = t.gen /\ h.st = "running" => h.cancel
    <3> SUFFICES ASSUME NEW h \in gs, h.gen = t.gen, h.st = "running", ~h.cancel
                 PROVE  FALSE
      OBVIOUS
    <3>1. PICK g \in goals : h = g /\ g.gen \notin KnownHandles
      BY <2>2
    <3>2. (IF g.kind = "nav" THEN navGh ELSE followGh) = g.gen /\ g.gen # 0
      BY <3>1 DEF FlightInv, Flight
    <3> QED
      BY <3>1, <3>2 DEF KnownHandles
  <2>7. \A h \in gs : h.gen # 0 /\ h.gen <= t.gen
    BY <2>2 DEF FlightInv, Flight
  <2>8. \A h \in gs : h.gen = t.gen => t.sent
    BY <2>2 DEF FlightInv, Flight
  <2>9. navGh # 0 => \E h \in gs : h.gen = t.gen /\ h.kind = "nav" /\ navGh = h.gen
                                   /\ h.st \in {"running", "ok", "bad"}
    BY <2>3 DEF FlightInv, Flight
  <2>10. followGh # 0 => \E h \in gs : h.gen = t.gen /\ h.kind = "follow"
                            /\ followGh = h.gen /\ h.st \in {"running", "ok", "bad"}
    BY <2>3 DEF FlightInv, Flight
  <2>11. Flight(t, gs, navGh, followGh)
    BY <2>4, <2>5, <2>6, <2>7, <2>8, <2>9, <2>10 DEF Flight
  <2>12. Told(t, gs)
    BY <2>5, <2>6 DEF Told
  <2> QED
    BY <2>2, <2>11, <2>12
<1>3. CASE /\ KnownHandles = {} /\ gs = goals
           /\ t.cancelAsked = trk.cancelAsked /\ (trk.sent => t.cancelWanted)
  <2>1. navGh = 0 /\ followGh = 0
    BY <1>3 DEF KnownHandles
  <2>2. \A g \in goals : g.gen = trk.gen /\ g.st = "running" => g.cancel
    BY <2>1 DEF FlightInv, Flight
  <2>3. Flight(t, gs, navGh, followGh)
    BY <1>3 DEF FlightInv, Flight
  <2>4. Told(t, gs)
    BY <1>3, <2>2 DEF FlightInv, Flight, Told
  <2> QED
    BY <1>3, <2>3, <2>4
<1> QED
  BY <1>2, <1>3

-----------------------------------------------------------------------------
(* The steps of the node *)

\* What RunInv speaks of.
runVars == <<proc, phase, active, reply, plan, disp, resumed, trk, navGh, followGh, pending, mode,
             age, execIndex, rowStart, cancelStarted, tasks, disk, goals>>

\* A step that leaves them alone keeps it.
LEMMA RunStutters == RunInv /\ UNCHANGED runVars => RunInv'
  BY DEF runVars, RunInv, IdleInv, FlightInv, Flight, ToldInv, Told, HandInv, DiskInv,
         DrivenRowHasStart, ResumeKeepsCoverage, Executing, Cancelling

\* A process that dies leaves its checkpoint files only.
LEMMA DeathRuns ==
    ASSUME NEW reason, Dies(reason),
           \A p \in PlanIds : \A d, e \in disk'[p] : d = e
    PROVE  RunInv'
<1>1. goals' = {} /\ navGh' = 0 /\ followGh' = 0
      /\ active' = FALSE /\ resumed' = FALSE /\ disp' = FreshCore /\ ~trk'.sent
  BY DEF Dies, NewTracker, Quiescent
<1>2. IdleInv' /\ FlightInv' /\ ToldInv' /\ DiskInv'
  BY <1>1 DEF IdleInv, FlightInv, Flight, ToldInv, DiskInv, ResumeKeepsCoverage,
              Executing, Cancelling
<1>3. HandInv'
  BY <1>1 DEF HandInv, FreshCore, DrivenRowHasStart, Executing
<1> QED
  BY <1>2, <1>3 DEF RunInv

\* A save leaves one checkpoint in the file.
LEMMA SaveSingle ==
    ASSUME TypeOK, DiskInv, SaveCheckpoint \/ UNCHANGED disk
    PROVE  \A p \in PlanIds : \A d, e \in disk'[p] : d = e
<1>1. CASE UNCHANGED disk
  BY <1>1 DEF DiskInv
<1>2. ASSUME NEW q \in plan, disk' = [disk EXCEPT ![q] = {disp}]
      PROVE  \A p \in PlanIds : \A d, e \in disk'[p] : d = e
  <2>1. DOMAIN disk = PlanIds
    BY DEF TypeOK
  <2>2. \A p \in PlanIds : disk'[p] = IF p = q THEN {disp} ELSE disk[p]
    BY <1>2, <2>1
  <2> QED
    BY <2>2 DEF DiskInv
<1> QED
  BY <1>1, <1>2 DEF SaveCheckpoint

\* After the answer nothing is asked of the task any more; its goals may go on.
LEMMA FinishRuns ==
    ASSUME TypeInv, RunInv, NEW c, NEW why, NEW m, NEW n, FinishTask(c, why, m, n),
           SaveCheckpoint \/ UNCHANGED disk,
           \/ UNCHANGED childVars /\ (c = "STOP_FAILED" \/ ~trk.sent)
           \/ BeginTaskResets /\ ~trk.sent
    PROVE  RunInv'
<1>1. /\ active' = FALSE /\ resumed' = FALSE /\ disp' = FreshCore
      /\ reply' = {[code |-> c, class |-> why, failed |-> m, left |-> n]}
  BY DEF FinishTask
<1>2. FlightInv' /\ (trk'.sent => trk.sent)
  <2>1. CASE UNCHANGED childVars
    BY <2>1 DEF childVars, RunInv, FlightInv, Flight
  <2>2. CASE BeginTaskResets /\ ~trk.sent
    <3>1. trk' = Clear(trk) /\ UNCHANGED <<goals, navGh, followGh>>
      BY <2>2 DEF BeginTaskResets
    <3> QED
      BY <2>2, <3>1, ClearFlight DEF RunInv, FlightInv
  <2> QED
    BY <2>1, <2>2
<1>3. IdleInv'
  BY <1>1, <1>2 DEF IdleInv
<1>4. ToldInv' /\ HandInv'
  BY <1>1 DEF ToldInv, HandInv, FreshCore, DrivenRowHasStart, Executing, Cancelling
<1>5. DiskInv'
  BY <1>1, SaveSingle DEF DiskInv, ResumeKeepsCoverage, TypeInv, RunInv
<1> QED
  BY <1>2, <1>3, <1>4, <1>5 DEF RunInv

\* Marking the segment in hand, which was open, keeps what a checkpoint holds.
LEMMA MarkRuns ==
    ASSUME TypeInv, DiskInv, execIndex \in Segs, disp[execIndex] = "PENDING",
           UNCHANGED <<disk, resumed, plan>>,
           disp' \in {disp, MarkCovered(disp, execIndex), MarkFailed(disp, execIndex)}
    PROVE  DiskInv'
<1>1. disp \in [Segs -> Dispositions]
  BY DEF TypeInv, TypeOK
<1>2. \A i \in Segs : i # execIndex => disp'[i] = disp[i]
  BY <1>1 DEF MarkCovered, MarkFailed
<1> QED
  BY <1>2 DEF DiskInv, ResumeKeepsCoverage

\* Processing the outcome of the segment in hand.
LEMMA ProcessRuns ==
    ASSUME TypeInv, RunInv, Executing, UNCHANGED worldVars,
           NEW o \in Outcomes, o.idx = execIndex, execIndex \in Segs,
           disp[execIndex] = "PENDING", NEW reached,
           NEW t \in Tracker, ~t.sent, NEW nav, NEW fol, Flight(t, goals, nav, fol),
           ProcessOutcome(o, reached, t, nav, fol)
    PROVE  RunInv'
<1>1. /\ UNCHANGED <<phase, active, tasks, plan, resumed, execIndex, cancelStarted, disk>>
      /\ UNCHANGED proc
  BY DEF ProcessOutcome, taskVars, stopVars, worldVars
<1>2. /\ goals \in SUBSET ChildGoals /\ disp \in [Segs -> Dispositions]
      /\ active /\ phase # "CANCELLING" /\ ~cancelStarted
  BY DEF TypeInv, TypeOK, RunInv, ToldInv, Executing
<1>3. disp' \in {disp, MarkCovered(disp, execIndex), MarkFailed(disp, execIndex)}
  BY DEF ProcessOutcome, ApproachSucceeded, ApproachRetried, ApproachExhausted,
         DriveSucceeded, DriveFailed
<1>4. DiskInv' /\ \A i \in Segs : disp'[i] # "BLOCKED_TEMP"
  BY <1>1, <1>2, <1>3, MarkRuns DEF RunInv, HandInv, MarkCovered, MarkFailed
<1>5. IdleInv'
  BY <1>1, <1>2 DEF IdleInv
<1>6. ASSUME NEW kind, NEW to, Send(kind, to, execIndex, t, nav, fol), disp' = disp,
             (mode' = 3 /\ rowStart') \/ mode' = 1
      PROVE  RunInv'
  <2>1. /\ Flight(trk', goals', navGh', followGh')
        /\ Told(trk', goals') \/ age' = 0
        /\ \A g \in goals' : g.gen = trk'.gen => g.idx = execIndex /\ g.task = tasks
        /\ \A p \in pending' : p.idx = execIndex
    BY <1>2, <1>6, SendFlight
  <2>2. FlightInv'
    BY <2>1 DEF FlightInv
  <2>3. ToldInv'
    BY <1>1, <1>2, <2>1, ExecutorAssumption DEF ToldInv, Cancelling
  <2>4. HandInv'
    BY <1>1, <1>4, <1>6, <2>1 DEF HandInv, DrivenRowHasStart
  <2> QED
    BY <1>4, <1>5, <2>2, <2>3, <2>4 DEF RunInv
<1>7. ASSUME SendsNothing(t, nav, fol) PROVE RunInv'
  <2>1. /\ pending' = {} /\ trk' = t /\ navGh' = nav /\ followGh' = fol /\ goals' = goals
        /\ age' = age
    BY <1>7 DEF SendsNothing
  <2>2. FlightInv'
    BY <2>1 DEF FlightInv
  <2>3. \A g \in goals' : g.gen # trk'.gen
    BY <2>1, NothingCurrent
  <2>4. ToldInv'
    BY <1>1, <1>2, <2>3 DEF ToldInv, Told, Cancelling
  <2>5. HandInv'
    BY <1>4, <2>1, <2>3 DEF HandInv, DrivenRowHasStart
  <2> QED
    BY <1>4, <1>5, <2>2, <2>4, <2>5 DEF RunInv
<1>8. CASE ApproachSucceeded(o, t, nav, fol)
  BY <1>6, <1>8 DEF ApproachSucceeded, RowStarts
<1>9. CASE ApproachRetried(o, t, nav, fol)
  BY <1>6, <1>9 DEF ApproachRetried
<1>10. CASE ApproachExhausted(o, t, nav, fol) \/ DriveSucceeded(o, reached, t, nav, fol)
            \/ DriveFailed(o, reached, t, nav, fol)
  BY <1>7, <1>10 DEF ApproachExhausted, DriveSucceeded, DriveFailed
<1> QED
  BY <1>8, <1>9, <1>10 DEF ProcessOutcome

\* The watchdog gives the current goal up.
LEMMA AbandonRuns ==
    ASSUME NodeInv, NEW dt \in {0, 1}, TickAbandon(dt)
    PROVE  RunInv'
<1>1. trk \in Tracker /\ goals \in SUBSET ChildGoals
  BY DEF NodeInv, TypeInv, TypeOK
<1>2. trk.sent /\ Executing /\ UNCHANGED worldVars
  BY DEF TickAbandon, Watched, Watch
<1>3. execIndex \in Segs /\ disp[execIndex] = "PENDING"
  BY <1>2 DEF NodeInv, RunInv, HandInv
<1>4. Flight(Abandon(trk), goals, 0, 0)
  BY <1>1, AbandonFlight DEF NodeInv, RunInv, FlightInv
<1>5. Abandon(trk) \in Tracker /\ ~Abandon(trk).sent
  BY <1>1, TrackerTyped
<1>6. [idx |-> execIndex, ok |-> FALSE] \in Outcomes
      /\ [idx |-> execIndex, ok |-> FALSE].idx = execIndex
  BY <1>3 DEF Outcomes
<1>7. ProcessOutcome([idx |-> execIndex, ok |-> FALSE], FALSE, Abandon(trk), 0, 0)
  BY DEF TickAbandon
<1> QED
  BY <1>2, <1>3, <1>4, <1>5, <1>6, <1>7, ProcessRuns DEF NodeInv

\* The outcome of the segment in hand is processed.
LEMMA OutcomeRuns ==
    ASSUME NodeInv, NEW o \in pending, NEW reached \in BOOLEAN, TickOutcome(o, reached)
    PROVE  RunInv'
<1>1. trk \in Tracker /\ ~trk.sent /\ o \in Outcomes
  BY DEF NodeInv, TypeInv, TypeOK, TickOutcome
<1>2. /\ Executing /\ UNCHANGED worldVars
      /\ ProcessOutcome(o, reached, trk, navGh, followGh)
  BY DEF TickOutcome
<1>3. execIndex \in Segs /\ disp[execIndex] = "PENDING" /\ o.idx = execIndex
  BY <1>2 DEF NodeInv, RunInv, HandInv
<1>4. Flight(trk, goals, navGh, followGh)
  BY DEF NodeInv, RunInv, FlightInv
<1> QED
  BY <1>1, <1>2, <1>3, <1>4, ProcessRuns DEF NodeInv

\* nextPendingIndex() answers an open segment (none is ever BLOCKED_TEMP).
LEMMA NextIsOpen ==
    ASSUME NEW d, NEW i, i = NextPendingIndex(d), i # 0,
           \A j \in Segs : d[j] # "BLOCKED_TEMP"
    PROVE  i \in Segs /\ d[i] = "PENDING"
<1>1. WithDisposition(d, "BLOCKED_TEMP") = {}
  BY DEF WithDisposition
<1>2. WithDisposition(d, "PENDING") # {} /\ i = Min(WithDisposition(d, "PENDING"))
  BY <1>1 DEF NextPendingIndex
<1>3. WithDisposition(d, "PENDING") \subseteq Nat
  BY NumSegsAssumption DEF WithDisposition, Segs
<1>4. i \in WithDisposition(d, "PENDING")
  BY <1>2, <1>3, MinOfNaturals
<1> QED
  BY <1>4 DEF WithDisposition

\* sendNextSegment starts an open segment.
LEMMA StartRuns ==
    ASSUME NodeInv, Executing, ~trk.sent, UNCHANGED worldVars,
           NEW idx \in Segs, NEW near \in BOOLEAN, StartSegment(idx, near)
    PROVE  RunInv'
<1>1. /\ trk \in Tracker /\ goals \in SUBSET ChildGoals
      /\ Flight(trk, goals, navGh, followGh)
  BY DEF NodeInv, TypeInv, TypeOK, RunInv, FlightInv
<1>2. /\ execIndex' = idx /\ phase' \in {"TRANSITING", "EXECUTING_SEGMENT"}
      /\ UNCHANGED <<active, tasks, plan, resumed, disp, disk, cancelStarted, proc>>
  BY DEF StartSegment, taskVars, planVars, stopVars, worldVars
<1>3. disp[idx] = "PENDING"
  BY NextIsOpen DEF StartSegment, NodeInv, RunInv, HandInv
<1>4. PICK kind \in {"nav", "follow"}, to \in {"start", "end"} :
          Send(kind, to, idx, trk, navGh, followGh)
  BY DEF StartSegment
<1>5. /\ Flight(trk', goals', navGh', followGh')
      /\ Told(trk', goals') \/ age' = 0
      /\ \A g \in goals' : g.gen = trk'.gen => g.idx = idx /\ g.task = tasks
      /\ \A p \in pending' : p.idx = idx
  BY <1>1, <1>4, SendFlight
<1>6. mode' \in {3, 4} => rowStart'
  BY DEF StartSegment, RowStarts
<1>7. active /\ phase # "CANCELLING" /\ ~cancelStarted
  BY DEF Executing, NodeInv, RunInv, ToldInv
<1>8. IdleInv' /\ FlightInv' /\ DiskInv'
  BY <1>2, <1>5, <1>7 DEF NodeInv, RunInv, IdleInv, FlightInv, DiskInv,
                          ResumeKeepsCoverage
<1>9. ToldInv'
  BY <1>2, <1>5, <1>7, ExecutorAssumption DEF ToldInv, Cancelling
<1>10. HandInv'
  BY <1>2, <1>3, <1>5, <1>6 DEF NodeInv, RunInv, HandInv, DrivenRowHasStart
<1> QED
  BY <1>8, <1>9, <1>10 DEF RunInv

\* The answer of a finished plan, or of a stop that ended.
LEMMA AnswerRuns ==
    ASSUME NodeInv, NEW c, NEW why, NEW m, NEW n, FinishTask(c, why, m, n),
           SaveCheckpoint, UNCHANGED childVars, c = "STOP_FAILED" \/ ~trk.sent
    PROVE  RunInv'
  BY FinishRuns DEF NodeInv

\* A step that only moves child goals, their bookkeeping and the outcome.
LEMMA ChildRuns ==
    ASSUME NodeInv, FlightInv', ToldInv',
           UNCHANGED <<proc, phase, active, reply, plan, disp, resumed, execIndex, rowStart, mode,
                       tasks, disk>>,
           trk'.sent => trk.sent,
           pending' # {} => trk.sent \/ pending # {},
           Executing => \A o \in pending' : o.idx = execIndex,
           \A g \in goals' : g.gen = trk'.gen =>
              \E k \in goals : k.gen = trk.gen /\ k.idx = g.idx /\ k.task = g.task
    PROVE  RunInv'
<1>1. IdleInv' /\ DiskInv'
  BY DEF NodeInv, RunInv, IdleInv, DiskInv, ResumeKeepsCoverage
<1>2. HandInv'
  BY DEF NodeInv, RunInv, HandInv, Executing, DrivenRowHasStart
<1> QED
  BY <1>1, <1>2 DEF RunInv

\* What the two cancel methods leave alone in the tracker (requestCancel,
\* noteCancelSent).
LEMMA CancelFields ==
    ASSUME NEW t \in Tracker
    PROVE  /\ RequestCancel(t).gen = t.gen /\ RequestCancel(t).sent = t.sent
           /\ RequestCancel(t).cancelAsked = t.cancelAsked
           /\ t.sent => RequestCancel(t).cancelWanted
           /\ NoteCancelSent(t).gen = t.gen /\ NoteCancelSent(t).sent = t.sent
  BY DEF RequestCancel, NoteCancelSent, Tracker

\* The watchdog cancels the current goal, or the stop request does.
LEMMA CancelRuns ==
    ASSUME NodeInv,
           (\E dt \in {0, 1} : TickCancelChild(dt)) \/ TickStopRequest
    PROVE  RunInv'
<1>1. trk \in Tracker /\ RequestCancel(trk) \in Tracker
  BY TrackerTyped DEF NodeInv, TypeInv, TypeOK
<1>2. active
  BY DEF TickCancelChild, TickStopRequest, Executing, Cancelling
<1>3. /\ trk'.gen = trk.gen /\ trk'.sent = trk.sent
      /\ \/ KnownHandles # {} /\ goals' = CancelAsked(KnownHandles)
         \/ /\ KnownHandles = {} /\ goals' = goals
            /\ trk'.cancelAsked = trk.cancelAsked /\ (trk.sent => trk'.cancelWanted)
  <2>1. CASE \E dt \in {0, 1} : TickCancelChild(dt)
    BY <1>1, <2>1, CancelFields DEF TickCancelChild
  <2>2. CASE TickStopRequest
    <3>1. goals \in SUBSET ChildGoals
      BY DEF NodeInv, TypeInv, TypeOK
    <3>2. KnownHandles = {} => goals' = goals
      BY <2>2, <3>1, AskedGoals DEF TickStopRequest
    <3> QED
      BY <1>1, <2>2, <3>2, CancelFields DEF TickStopRequest
  <2> QED
    BY <2>1, <2>2
<1>4. /\ UNCHANGED <<proc, phase, active, reply, plan, disp, resumed, execIndex, rowStart, mode,
                     tasks, disk, navGh, followGh, pending>>
      /\ Cancelling \/ cancelStarted' = cancelStarted
  BY DEF TickCancelChild, TickStopRequest, worldVars, taskVars, planVars, segVars, rowVars,
         stopVars
<1>5. /\ Flight(trk', goals', navGh, followGh) /\ Told(trk', goals')
      /\ \A h \in goals' : \E k \in goals : h.gen = k.gen /\ h.idx = k.idx /\ h.task = k.task
  BY <1>3, CancelFlight DEF NodeInv, RunInv
<1>6. FlightInv' /\ ToldInv'
  BY <1>4, <1>5 DEF FlightInv, ToldInv, NodeInv, RunInv, Cancelling
<1>7. Executing => \A o \in pending' : o.idx = execIndex
  BY <1>4 DEF NodeInv, RunInv, HandInv
<1> QED
  BY <1>2, <1>3, <1>4, <1>5, <1>6, <1>7, ChildRuns

\* The tick of a child goal that is within its time.
LEMMA WaitRuns ==
    ASSUME NodeInv, NEW dt \in {0, 1}, TickWait(dt)
    PROVE  RunInv'
<1>1. /\ UNCHANGED <<proc, phase, active, reply, plan, disp, resumed, execIndex, rowStart, mode,
                     tasks, disk, trk, goals, navGh, followGh, pending, cancelStarted>>
      /\ Executing /\ trk.sent /\ age' = AgeAt(dt)
  BY DEF TickWait, worldVars, taskVars, planVars, segVars, rowVars, stopVars, childVars
<1>2. AgeAt(dt) \in Nat /\ ~(AgeAt(dt) > ChildTimeout)
  BY ExecutorAssumption DEF TickWait, Watched, Watch, NodeInv, TypeInv, TypeOK, AgeAt,
                            Capped
<1>3. FlightInv' /\ ToldInv'
  BY <1>1, <1>2 DEF FlightInv, ToldInv, NodeInv, RunInv, Cancelling, Executing
<1>4. Executing => \A o \in pending' : o.idx = execIndex
  BY <1>1 DEF NodeInv, RunInv, HandInv
<1> QED
  BY <1>1, <1>3, <1>4, ChildRuns

\* A server takes a step of one of its goals.
LEMMA Nav2Runs ==
    ASSUME NodeInv, NEW g \in goals, Nav2(g)
    PROVE  RunInv'
<1>1. goals \in SUBSET ChildGoals
  BY DEF NodeInv, TypeInv, TypeOK
<1>2. UNCHANGED <<proc, phase, active, reply, plan, disp, resumed, execIndex, rowStart, mode,
                   tasks, disk, trk, navGh, followGh, pending, cancelStarted, age>>
  BY DEF Nav2, worldVars, taskVars, planVars, segVars, rowVars, stopVars
<1>3. PICK st : /\ goals' = Replaced(g, [g EXCEPT !.st = st])
                /\ \/ g.st = "sent" /\ st \in {"accepted", "rejected"}
                   \/ g.st = "running" /\ st \in {"ok", "bad"}
  BY DEF Nav2, ServerAnswers, ServerEnds
<1>4. /\ Flight(trk, goals', navGh, followGh)
      /\ Told(trk, goals) => Told(trk, goals')
      /\ \A h \in goals' : \E k \in goals : h.gen = k.gen /\ h.idx = k.idx /\ h.task = k.task
  <2> DEFINE gs == Replaced(g, [g EXCEPT !.st = st])
  <2>1. Flight(trk, goals, navGh, followGh) /\ trk \in Tracker
    BY DEF NodeInv, RunInv, FlightInv, TypeInv, TypeOK
  <2>2. /\ Flight(trk, gs, navGh, followGh)
        /\ Told(trk, goals) => Told(trk, gs)
        /\ \A h \in gs : \E k \in goals : h.gen = k.gen /\ h.idx = k.idx /\ h.task = k.task
    BY <1>1, <1>3, <2>1, ServerFlight
  <2> QED
    BY <1>3, <2>2
<1>5. FlightInv' /\ ToldInv'
  BY <1>2, <1>4 DEF FlightInv, ToldInv, NodeInv, RunInv, Cancelling, Executing
<1>6. Executing => \A o \in pending' : o.idx = execIndex
  BY <1>2 DEF NodeInv, RunInv, HandInv
<1> QED
  BY <1>2, <1>4, <1>5, <1>6, ChildRuns

\* The current goal learns that it was accepted.
LEMMA AcceptedRuns ==
    ASSUME NodeInv, NEW g \in goals, GoalResponseCallback(g), g.gen = trk.gen,
           g.st = "accepted"
    PROVE  RunInv'
<1>1. /\ goals \in SUBSET ChildGoals /\ trk \in Tracker
      /\ Flight(trk, goals, navGh, followGh) /\ g \in ChildGoals
  BY DEF NodeInv, TypeInv, TypeOK, RunInv, FlightInv
<1>2. trk.sent /\ ~trk.cancelAsked /\ g.kind \in {"nav", "follow"}
  BY <1>1 DEF Flight, ChildGoals
<1>3. UNCHANGED <<proc, phase, active, reply, plan, disp, resumed, execIndex, rowStart, mode,
                   tasks, disk, pending, cancelStarted, age>>
  BY DEF GoalResponseCallback, OnGoalResponse, worldVars, taskVars, planVars,
                   segVars, rowVars, stopVars
<1> DEFINE after  == [trk EXCEPT !.handleKnown = TRUE]
           known  == [g EXCEPT !.st = "running"]
           killed == [known EXCEPT !.cancel = TRUE]
<1>4. /\ known.gen = g.gen /\ known.kind = g.kind /\ known.st = "running"
      /\ known.idx = g.idx /\ known.task = g.task
      /\ killed.gen = g.gen /\ killed.kind = g.kind /\ killed.st = "running"
      /\ killed.idx = g.idx /\ killed.task = g.task /\ killed.cancel = TRUE
  BY <1>1 DEF ChildGoals
<1>5. /\ after \in Tracker /\ after.gen = trk.gen /\ after.sent = trk.sent
      /\ NoteCancelSent(after).gen = trk.gen /\ NoteCancelSent(after).sent = trk.sent
  <2>1. after \in Tracker /\ after.gen = trk.gen /\ after.sent = trk.sent
    BY <1>1 DEF Tracker
  <2> HIDE DEF after
  <2> QED
    BY <2>1, CancelFields
<1>6. \/ /\ goals' = Replaced(g, killed) /\ trk' = NoteCancelSent(after)
         /\ UNCHANGED <<navGh, followGh>>
      \/ /\ goals' = Replaced(g, known) /\ trk' = after /\ StoreHandle(g)
         /\ ~trk.cancelWanted
  BY <1>2 DEF GoalResponseCallback, OnGoalResponse, AfterGoalResponse
<1> HIDE DEF after, known, killed
<1>7. CASE /\ goals' = Replaced(g, killed) /\ trk' = NoteCancelSent(after)
           /\ UNCHANGED <<navGh, followGh>>
  <2>1. /\ Flight(trk', Replaced(g, killed), navGh', followGh')
        /\ Told(trk', Replaced(g, killed))
    BY <1>1, <1>2, <1>4, <1>5, <1>7, AcceptedFlight
  <2>2. FlightInv' /\ ToldInv'
    BY <1>3, <1>7, <2>1 DEF FlightInv, ToldInv, NodeInv, RunInv, Cancelling
  <2>3. \A h \in goals' : h.gen = trk'.gen =>
           \E k \in goals : k.gen = trk.gen /\ k.idx = h.idx /\ k.task = h.task
    BY <1>4, <1>5, <1>7 DEF Replaced
  <2>4. Executing => \A o \in pending' : o.idx = execIndex
    BY <1>3 DEF NodeInv, RunInv, HandInv
  <2> QED
    BY <1>3, <1>5, <1>7, <2>2, <2>3, <2>4, ChildRuns
<1>8. CASE /\ goals' = Replaced(g, known) /\ trk' = after /\ StoreHandle(g)
           /\ ~trk.cancelWanted
  <2>1. Flight(trk', Replaced(g, known), navGh', followGh')
    BY <1>1, <1>2, <1>4, <1>5, <1>8, AcceptedFlight
  <2>2. ~Told(trk, goals)
    BY <1>8 DEF Told
  <2>3. FlightInv' /\ ToldInv'
    BY <1>3, <1>8, <2>1, <2>2 DEF FlightInv, ToldInv, NodeInv, RunInv, Cancelling,
                                  Executing
  <2>4. \A h \in goals' : h.gen = trk'.gen =>
           \E k \in goals : k.gen = trk.gen /\ k.idx = h.idx /\ k.task = h.task
    BY <1>4, <1>5, <1>8 DEF Replaced
  <2>5. Executing => \A o \in pending' : o.idx = execIndex
    BY <1>3 DEF NodeInv, RunInv, HandInv
  <2> QED
    BY <1>3, <1>5, <1>8, <2>3, <2>4, <2>5, ChildRuns
<1> QED
  BY <1>6, <1>7, <1>8

\* A goal that is not current is answered or ends.
LEMMA StaleRuns ==
    ASSUME NodeInv, NEW g \in goals, Callbacks(g), g.gen # trk.gen
    PROVE  RunInv'
<1>1. goals \in SUBSET ChildGoals /\ Flight(trk, goals, navGh, followGh) /\ g \in ChildGoals
  BY DEF NodeInv, TypeInv, TypeOK, RunInv, FlightInv
<1>2. UNCHANGED <<proc, phase, active, reply, plan, disp, resumed, execIndex, rowStart, mode,
                   tasks, disk, trk, navGh, followGh, pending, cancelStarted, age>>
  BY DEF Callbacks, GoalResponseCallback, GoalResultCallback, OnGoalResponse,
     OnResult, AfterResult, worldVars, taskVars, planVars, segVars, rowVars, stopVars
<1> DEFINE known == [g EXCEPT !.st = "running"]
<1>3. goals' = goals \ {g} \/ goals' = Replaced(g, known)
  BY DEF Callbacks, GoalResponseCallback, GoalResultCallback, OnGoalResponse
<1>4. known.gen = g.gen
  BY <1>1 DEF ChildGoals
<1>5. Flight(trk, goals', navGh, followGh) /\ (Told(trk, goals) => Told(trk, goals'))
  <2>1. /\ Flight(trk, Replaced(g, known), navGh, followGh)
        /\ Told(trk, goals) => Told(trk, Replaced(g, known))
    BY <1>1, StaleAccepted
  <2>2. /\ Flight(trk, goals \ {g}, navGh, followGh)
        /\ Told(trk, goals) => Told(trk, goals \ {g})
    BY <1>1, StaleFlight
  <2> HIDE DEF known
  <2> QED
    BY <1>3, <2>1, <2>2
<1> HIDE DEF known
<1>6. FlightInv' /\ ToldInv'
  BY <1>2, <1>5 DEF FlightInv, ToldInv, NodeInv, RunInv, Cancelling, Executing
<1>7. \A h \in goals' : h.gen = trk'.gen =>
         \E k \in goals : k.gen = trk.gen /\ k.idx = h.idx /\ k.task = h.task
  BY <1>2, <1>3, <1>4 DEF Replaced
<1>8. Executing => \A o \in pending' : o.idx = execIndex
  BY <1>2 DEF NodeInv, RunInv, HandInv
<1> QED
  BY <1>2, <1>6, <1>7, <1>8, ChildRuns

\* The current goal is rejected or has ended: the wait is over.
LEMMA OverRuns ==
    ASSUME NodeInv, NEW g \in goals, Callbacks(g), g.gen = trk.gen,
           g.st # "accepted"
    PROVE  RunInv'
<1>1. /\ goals \in SUBSET ChildGoals /\ trk \in Tracker
      /\ Flight(trk, goals, navGh, followGh)
  BY DEF NodeInv, TypeInv, TypeOK, RunInv, FlightInv
<1>2. UNCHANGED <<proc, phase, active, reply, plan, disp, resumed, execIndex, rowStart, mode,
                   tasks, disk, cancelStarted, age>>
  BY DEF Callbacks, GoalResponseCallback, GoalResultCallback, worldVars, taskVars,
                   planVars, segVars, rowVars, stopVars
<1>3. /\ goals' = goals \ {g} /\ trk' = Clear(trk) /\ DropHandle(g)
      /\ pending' = pending \/ \E b \in BOOLEAN : pending' = {[idx |-> g.idx, ok |-> b]}
  BY DEF Callbacks, GoalResponseCallback, GoalResultCallback, OnGoalResponse, OnResult,
         AfterResult, AfterGoalResponse
<1>4. Flight(trk', goals', navGh', followGh') /\ Told(trk', goals')
  BY <1>1, <1>3, OverFlight
<1>5. FlightInv' /\ ToldInv'
  BY <1>2, <1>4 DEF FlightInv, ToldInv, NodeInv, RunInv
<1>6. Clear(trk).gen = trk.gen /\ trk.sent
  BY <1>1 DEF Clear, Quiescent, Flight
<1>7. \A h \in goals' : h.gen = trk'.gen =>
         \E k \in goals : k.gen = trk.gen /\ k.idx = h.idx /\ k.task = h.task
  BY <1>3, <1>6
<1>8. Executing => \A o \in pending' : o.idx = execIndex
  BY <1>3 DEF NodeInv, RunInv, HandInv
<1> QED
  BY <1>2, <1>5, <1>6, <1>7, <1>8, ChildRuns

\* The callbacks of the two action clients.
LEMMA CallbacksRun ==
    ASSUME NodeInv, NEW g \in goals, Callbacks(g)
    PROVE  RunInv'
<1>1. g.st = "accepted" => GoalResponseCallback(g)
  BY DEF Callbacks, GoalResultCallback
<1> QED
  BY <1>1, AcceptedRuns, StaleRuns, OverRuns

\* A change of the phase: the cancel of a task, or a step without a task.
LEMMA PhaseRuns ==
    ASSUME RunInv,
           UNCHANGED <<active, reply, plan, disp, resumed, trk, navGh, followGh, pending,
                       mode, age, execIndex, rowStart, cancelStarted, tasks, disk, goals>>,
           (phase' = "CANCELLING" /\ UNCHANGED proc) \/ ~active
    PROVE  RunInv'
<1>1. IdleInv' /\ FlightInv' /\ DiskInv'
  BY DEF RunInv, IdleInv, FlightInv, DiskInv, ResumeKeepsCoverage
<1>2. ToldInv'
  BY DEF RunInv, ToldInv, Cancelling, Executing
<1>3. HandInv'
  BY DEF RunInv, HandInv, DrivenRowHasStart, Executing
<1> QED
  BY <1>1, <1>2, <1>3 DEF RunInv

\* Readiness, the map, the cancel of the client, and a restart.
LEMMA FrontRuns ==
    ASSUME NodeInv,
           \/ TickReadiness \/ ClientCancel \/ Restart
           \/ \E m \in Maps : MapCallback(m)
    PROVE  RunInv'
<1>1. UNCHANGED <<active, reply, plan, disp, resumed, trk, navGh, followGh, pending, mode,
                  age, execIndex, rowStart, cancelStarted, tasks, disk, goals>>
  BY DEF TickReadiness, ClientCancel, Restart, MapCallback, taskVars, planVars, childVars,
         segVars, rowVars, stopVars
<1>2. CASE TickReadiness \/ ClientCancel \/ Restart
  <2>1. (phase' = "CANCELLING" /\ UNCHANGED proc) \/ ~active
    BY <1>2 DEF TickReadiness, ClientCancel, Restart, worldVars, NodeInv, LinkInv
  <2> QED
    BY <1>1, <2>1, PhaseRuns DEF NodeInv
<1>3. ASSUME NEW m \in Maps, MapCallback(m) PROVE RunInv'
  <2>1. (phase' = "CANCELLING" /\ UNCHANGED proc) \/ ~active
    BY <1>3 DEF MapCallback, worldVars, NodeInv, LinkInv
  <2> QED
    BY <1>1, <2>1, PhaseRuns DEF NodeInv
<1> QED
  BY <1>2, <1>3

\* A patient client's goal is accepted when nothing is waited for.
LEMMA NothingWaited ==
    ASSUME NodeInv, Patient, CanBegin, BeginTaskResets
    PROVE  ~trk.sent
<1>1. tasks' = tasks + 1
  BY DEF BeginTaskResets
<1> QED
  BY <1>1 DEF Patient, CanBegin, NodeInv, RunInv, IdleInv

\* A goal of the client that is answered at once.
LEMMA RefusalRuns ==
    ASSUME NodeInv, Patient, CanBegin, BeginTaskResets,
           NEW c, NEW why, NEW m, NEW n, FinishTask(c, why, m, n)
    PROVE  RunInv'
<1>1. ~trk.sent /\ UNCHANGED disk
  BY NothingWaited DEF BeginTaskResets
<1> QED
  BY <1>1, FinishRuns DEF NodeInv

\* What a task takes over holds what its checkpoint file holds as done, and has no
\* segment that is blocked.
LEMMA TakenOver ==
    ASSUME NEW saved
    PROVE  LET d == ApplyCheckpointDispositions(FreshCore, saved)
           IN  \A i \in Segs : /\ d[i] # "BLOCKED_TEMP"
                               /\ saved[i] \in {"COVERED", "EXEMPT"} => d[i] = saved[i]
  BY DEF ApplyCheckpointDispositions, FreshCore

\* The task starts, fresh or from a checkpoint.
LEMMA BeginRuns ==
    ASSUME NodeInv, Patient, NEW resume, NEW seed,
           BeginTaskStarts(resume, seed)
    PROVE  RunInv'
<1>1. BeginTaskResets /\ active' = TRUE /\ cancelStarted' = FALSE
  BY DEF BeginTaskStarts
<1>2. /\ UNCHANGED <<goals, navGh, followGh, disk>>
      /\ trk' = Clear(trk) /\ pending' = {}
  BY <1>1 DEF BeginTaskResets
<1>3. ~trk.sent
  BY <1>1, NothingWaited DEF BeginTaskStarts
<1>4. /\ Flight(trk', goals', navGh', followGh') /\ ~trk'.sent
      /\ \A g \in goals' : g.gen # trk'.gen
  BY <1>2, <1>3, ClearFlight DEF NodeInv, RunInv, FlightInv
<1>5. IdleInv' /\ FlightInv' /\ ToldInv'
  BY <1>1, <1>4 DEF IdleInv, FlightInv, ToldInv, Told
<1>6. \A i \in Segs : disp'[i] # "BLOCKED_TEMP"
  <2>1. CASE resume \in PlanIds
    BY <2>1, TakenOver DEF BeginTaskStarts
  <2>2. CASE resume \notin PlanIds
    BY <2>2 DEF BeginTaskStarts, FreshCore
  <2> QED
    BY <2>1, <2>2
<1>7. HandInv'
  BY <1>2, <1>4, <1>6 DEF HandInv, DrivenRowHasStart
<1>8. ResumeKeepsCoverage'
  <2>1. CASE resume \in PlanIds
    <3> DEFINE saved == CHOOSE d \in disk[resume] : TRUE
    <3>1. plan' = {resume}
      BY <2>1 DEF BeginTaskStarts
    <3>2. \A d \in disk[resume] : d = saved
      BY <2>1 DEF NodeInv, RunInv, DiskInv
    <3>3. disp' = ApplyCheckpointDispositions(FreshCore, saved)
      BY <2>1 DEF BeginTaskStarts
    <3> HIDE DEF saved
    <3>4. \A i \in Segs : saved[i] \in {"COVERED", "EXEMPT"} => disp'[i] = saved[i]
      BY <3>3, TakenOver
    <3> QED
      BY <1>2, <3>1, <3>2, <3>4 DEF ResumeKeepsCoverage
  <2>2. CASE resume \notin PlanIds
    <3>1. ~resumed'
      BY <2>2, Zenon DEF BeginTaskStarts
    <3> QED
      BY <3>1 DEF ResumeKeepsCoverage
  <2> QED
    BY <2>1, <2>2
<1>9. DiskInv'
  BY <1>2, <1>8 DEF DiskInv, NodeInv, RunInv
<1> QED
  BY <1>5, <1>7, <1>9 DEF RunInv

\* What the clients of the action server do.
LEMMA ClientRuns ==
    ASSUME NodeInv, Patient, Client
    PROVE  RunInv'
<1>1. CASE ClientCancel
  BY <1>1, FrontRuns
<1>2. ASSUME NEW class, BeginTaskFails(class) PROVE RunInv'
  BY <1>2, RefusalRuns DEF BeginTaskFails
<1>3. ASSUME NEW resume, NEW seed, BeginTaskMismatch(resume, seed) PROVE RunInv'
  BY <1>3, RefusalRuns DEF BeginTaskMismatch
<1>4. ASSUME NEW resume, NEW seed, BeginTaskStarts(resume, seed) PROVE RunInv'
  BY <1>4, BeginRuns
<1> QED
  BY <1>1, <1>2, <1>3, <1>4 DEF Client

\* Every run of the tick.
LEMMA TickRuns ==
    ASSUME NodeInv, NEW dt \in {0, 1}, Tick(dt)
    PROVE  RunInv'
<1>1. CASE TickReadiness
  BY <1>1, FrontRuns
<1>2. CASE TickAbandon(dt) \/ \E o \in pending, reached \in BOOLEAN : TickOutcome(o, reached)
  BY <1>2, AbandonRuns, OutcomeRuns
<1>3. CASE TickCancelChild(dt) \/ TickStopRequest
  BY <1>3, CancelRuns
<1>4. CASE TickWait(dt)
  BY <1>4, WaitRuns
<1>5. CASE TickNextSegment
  <2>1. ASSUME NEW enough \in BOOLEAN, FinishPlan(enough) PROVE RunInv'
    BY <1>5, <2>1, AnswerRuns DEF TickNextSegment, FinishPlan, Executing
  <2>2. ASSUME NEW idx \in Segs, NEW near \in BOOLEAN, StartSegment(idx, near)
        PROVE  RunInv'
    BY <1>5, <2>2, StartRuns DEF TickNextSegment
  <2> QED
    BY <1>5, <2>1, <2>2 DEF TickNextSegment
<1>6. ASSUME NEW s \in Samples, TickStopWait(dt, s) PROVE RunInv'
  <2>1. UNCHANGED runVars
    BY <1>6 DEF TickStopWait, runVars, worldVars, taskVars, planVars, childVars, segVars,
                rowVars
  <2> QED
    BY <2>1, RunStutters DEF NodeInv
<1>7. ASSUME NEW s \in Samples, TickStopped(dt, s) PROVE RunInv'
  <2>1. StopResult(dt, s) = "STOP_FAILED" \/ ~trk.sent
    BY DEF StopResult, StopConfirmed
  <2> QED
    BY <1>7, <2>1, AnswerRuns DEF TickStopped
<1>8. CASE TickCancelThrows(dt) \/ \E s \in Samples : TickResultThrows(dt, s)
  <2>1. (SaveCheckpoint \/ UNCHANGED disk) /\ Dies("threw")
    BY <1>8 DEF TickCancelThrows, TickResultThrows
  <2> QED
    BY <2>1, SaveSingle, DeathRuns DEF NodeInv, TypeInv, RunInv
<1> QED
  BY <1>1, <1>2, <1>3, <1>4, <1>5, <1>6, <1>7, <1>8 DEF Tick

\* The process starts with nothing in flight and no checkpoint.
LEMMA RunInit == Init => RunInv
<1> SUFFICES ASSUME Init PROVE RunInv
  OBVIOUS
<1>1. goals = {} /\ navGh = 0 /\ followGh = 0 /\ ~trk.sent /\ active = FALSE
  BY DEF Init, NewTracker, Quiescent
<1>2. IdleInv /\ FlightInv /\ ToldInv
  BY <1>1 DEF IdleInv, FlightInv, Flight, ToldInv, Executing, Cancelling
<1>3. HandInv
  BY DEF Init, HandInv, FreshCore, DrivenRowHasStart, Executing
<1>4. DiskInv
  BY DEF Init, DiskInv, ResumeKeepsCoverage
<1> QED
  BY <1>2, <1>3, <1>4 DEF RunInv

\* Every step keeps the invariant, as long as the client is patient.
LEMMA RunStep == NodeInv /\ [Next]_vars /\ [Patient]_vars => RunInv'
<1> SUFFICES ASSUME NodeInv, [Next]_vars, [Patient]_vars PROVE RunInv'
  OBVIOUS
<1>1. CASE TfSampler \/ Idle \/ UNCHANGED vars
  <2>1. UNCHANGED runVars
    BY <1>1 DEF TfSampler, Idle, vars, runVars, worldVars, taskVars, planVars, childVars,
                segVars, stopVars
  <2> QED
    BY <2>1, RunStutters DEF NodeInv
<1>2. CASE Crash
  BY <1>2, DeathRuns DEF Crash, NodeInv, RunInv, DiskInv
<1>3. CASE Client /\ Patient
  BY <1>3, ClientRuns
<1> QED
  BY <1>1, <1>2, <1>3, TickRuns, CallbacksRun, Nav2Runs, FrontRuns DEF Next

\* The inductive invariant.
LEMMA NodeInvHolds == Spec /\ PatientClient => []NodeInv
<1>1. Init => NodeInv
  BY TypeInit, LinkInit, RunInit DEF NodeInv
<1>2. NodeInv /\ [Next]_vars /\ [Patient]_vars => NodeInv'
  BY TypeStep, LinkStep, RunStep DEF NodeInv
<1> QED
  BY <1>1, <1>2, PTL DEF Spec, PatientClient

-----------------------------------------------------------------------------
(* The theorems *)

\* Once the stop request was made, the current child goal is asked to cancel as
\* soon as its handle is known, in any order of response, watchdog and cancel.
THEOREM StopReaches == Spec /\ PatientClient => [](StopReachesChild)
<1>1. NodeInv => StopReachesChild
  BY DEF NodeInv, RunInv, ToldInv, Told, StopReachesChild, Current
<1> QED
  BY <1>1, NodeInvHolds, PTL

\* A queued outcome is of the segment in hand, which is open.
THEOREM OutcomesAreInHand == Spec /\ PatientClient => [](OutcomeIsOfSegmentInHand)
<1>1. NodeInv => OutcomeIsOfSegmentInHand
  BY DEF NodeInv, RunInv, HandInv, OutcomeIsOfSegmentInHand
<1> QED
  BY <1>1, NodeInvHolds, PTL

\* A row that is driven has its start pose, so that its pass can be committed.
THEOREM DrivenRowsHaveStart == Spec /\ PatientClient => [](DrivenRowHasStart)
<1>1. NodeInv => DrivenRowHasStart
  BY DEF NodeInv, RunInv, HandInv
<1> QED
  BY <1>1, NodeInvHolds, PTL

\* A resumed task never goes back behind the checkpoint in its file.
THEOREM ResumesKeepCoverage == Spec /\ PatientClient => [](ResumeKeepsCoverage)
<1>1. NodeInv => ResumeKeepsCoverage
  BY DEF NodeInv, RunInv, DiskInv
<1> QED
  BY <1>1, NodeInvHolds, PTL

\* What child_goal_tracker.hpp says of stale callbacks is true as long as no task
\* is accepted after a STOP_FAILED: no goal of an earlier task is current.
THEOREM OldGoalsAreStale == Spec /\ PatientClient => [](OldTaskGoalsAreStale)
<1>1. NodeInv => OldTaskGoalsAreStale
  <2> SUFFICES ASSUME NodeInv, active, NEW g \in goals, g.gen = trk.gen, g.task < tasks
               PROVE  FALSE
    BY DEF OldTaskGoalsAreStale, Current
  <2>1. g.task = tasks /\ tasks \in Nat
    BY DEF NodeInv, RunInv, HandInv, TypeInv, TypeOK
  <2> QED
    BY <2>1
<1> QED
  BY <1>1, NodeInvHolds, PTL

\* Within a task a segment settles once.
THEOREM SegmentsSettleOnce == Spec /\ PatientClient => SegmentSettlesOnce
<1> DEFINE Settled == active /\ active' =>
                 \A i \in Segs : disp[i] \in {"COVERED", "FAILED", "EXEMPT"} => disp'[i] = disp[i]
<1>1. ASSUME NodeInv, [Next]_vars PROVE Settled
  <2>1. CASE UNCHANGED disp \/ ~active \/ ~active'
    BY <2>1
  <2>2. ASSUME Executing, trk.sent \/ pending # {}, NEW o, o.idx = execIndex,
               NEW reached, NEW t, NEW nav, NEW fol, ProcessOutcome(o, reached, t, nav, fol)
        PROVE  Settled
    <3>1. disp' \in {disp, MarkCovered(disp, execIndex), MarkFailed(disp, execIndex)}
      BY <2>2 DEF ProcessOutcome, ApproachSucceeded, ApproachRetried, ApproachExhausted,
                  DriveSucceeded, DriveFailed
    <3>2. disp[execIndex] = "PENDING"
      BY <1>1, <2>2 DEF NodeInv, RunInv, HandInv
    <3>3. disp \in [Segs -> Dispositions]
      BY <1>1 DEF NodeInv, TypeInv, TypeOK
    <3> QED
      BY <3>1, <3>2, <3>3 DEF MarkCovered, MarkFailed
  <2>3. ASSUME NEW dt \in {0, 1}, TickAbandon(dt) PROVE Settled
    <3>1. /\ Executing /\ trk.sent
          /\ ProcessOutcome([idx |-> execIndex, ok |-> FALSE], FALSE, Abandon(trk), 0, 0)
      BY <2>3 DEF TickAbandon, Watched, Watch
    <3> QED
      BY <2>2, <3>1
  <2>4. ASSUME NEW o \in pending, NEW reached, TickOutcome(o, reached) PROVE Settled
    <3>1. Executing /\ pending # {}
      BY <2>4 DEF TickOutcome
    <3>2. o.idx = execIndex
      BY <1>1, <3>1 DEF NodeInv, RunInv, HandInv
    <3> QED
      BY <2>2, <2>4, <3>1, <3>2 DEF TickOutcome
  <2>5. ASSUME NEW dt \in {0, 1},
               \/ TickReadiness \/ TickCancelChild(dt) \/ TickWait(dt) \/ TickNextSegment
               \/ TickStopRequest \/ TickCancelThrows(dt)
               \/ \E s \in Samples : TickStopWait(dt, s) \/ TickStopped(dt, s)
                                     \/ TickResultThrows(dt, s)
        PROVE  UNCHANGED disp \/ ~active \/ ~active'
    BY <2>5 DEF TickReadiness, TickCancelChild, TickWait, TickNextSegment, FinishPlan,
                StartSegment, TickStopRequest, TickCancelThrows, TickStopWait, TickStopped,
                TickResultThrows, FinishTask, Dies, planVars
  <2>6. ASSUME \/ Idle \/ TfSampler \/ Client \/ Crash \/ Restart \/ UNCHANGED vars
               \/ \E m \in Maps : MapCallback(m)
               \/ \E g \in goals : Callbacks(g) \/ Nav2(g)
        PROVE  UNCHANGED disp \/ ~active \/ ~active'
    BY <2>6 DEF Idle, TfSampler, Client, ClientCancel, BeginTaskFails, BeginTaskStarts,
                BeginTaskMismatch, CanBegin, Crash, Dies, Restart, MapCallback, Callbacks,
                GoalResponseCallback, GoalResultCallback, Nav2, vars, planVars
  <2> HIDE DEF Settled
  <2>7. ASSUME NEW dt \in {0, 1}, Tick(dt) PROVE Settled
    BY <2>1, <2>3, <2>4, <2>5, <2>7 DEF Tick
  <2> QED
    BY <1>1, <2>1, <2>6, <2>7 DEF Next
<1>2. NodeInv /\ [Next]_vars => [Settled]_vars
  BY <1>1
<1> QED
  BY <1>2, NodeInvHolds, PTL DEF Spec, SegmentSettlesOnce

\* A task that is answered with anything but STOP_FAILED leaves no current goal.
THEOREM AnswersLeaveNoChild == Spec /\ PatientClient => AnsweredTaskLeavesNoChild
<1> DEFINE NoneLeft == active /\ ~active' =>
              \A r \in reply' : r.code # "STOP_FAILED" => \A g \in goals : ~Current(g)
<1>1. ASSUME NodeInv, [Next]_vars PROVE NoneLeft
  <2>1. CASE ~trk.sent
    <3>1. \A g \in goals : g.gen # trk.gen
      BY <1>1, <2>1 DEF NodeInv, RunInv, FlightInv, Flight
    <3> QED
      BY <3>1 DEF Current
  <2>2. ASSUME NEW why, NEW m, NEW n, FinishTask("STOP_FAILED", why, m, n) PROVE NoneLeft
    BY <2>2 DEF FinishTask
  <2>3. CASE reply' = {} \/ ~active \/ active'
    BY <2>3
  <2>4. ASSUME NEW dt \in {0, 1}, NEW s, TickStopped(dt, s) PROVE NoneLeft
    <3>1. StopResult(dt, s) = "STOP_FAILED" \/ ~trk.sent
      BY DEF StopResult, StopConfirmed
    <3> QED
      BY <2>1, <2>2, <2>4, <3>1 DEF TickStopped
  <2>5. ASSUME NEW dt \in {0, 1}, Tick(dt)
        PROVE  \/ ~trk.sent \/ reply' = {} \/ ~active \/ active'
               \/ \E s \in Samples : TickStopped(dt, s)
    BY <2>5 DEF Tick, TickReadiness, TickAbandon, TickCancelChild, TickWait, TickOutcome,
                TickNextSegment, TickStopRequest, TickCancelThrows, TickStopWait,
                TickResultThrows, Dies, ProcessOutcome, taskVars
  <2>6. ASSUME \/ Idle \/ TfSampler \/ Client \/ Crash \/ Restart \/ UNCHANGED vars
               \/ \E m \in Maps : MapCallback(m)
               \/ \E g \in goals : Callbacks(g) \/ Nav2(g)
        PROVE  reply' = {} \/ ~active \/ active'
    BY <2>6 DEF Idle, TfSampler, Client, ClientCancel, BeginTaskFails, BeginTaskStarts,
                BeginTaskMismatch, CanBegin, Crash, Dies, Restart, MapCallback, Callbacks,
                GoalResponseCallback, GoalResultCallback, Nav2, vars, taskVars
  <2> HIDE DEF NoneLeft
  <2>7. ASSUME NEW dt \in {0, 1}, Tick(dt) PROVE NoneLeft
    BY <2>1, <2>3, <2>4, <2>5, <2>7
  <2> QED
    BY <1>1, <2>3, <2>6, <2>7 DEF Next
<1>2. NodeInv /\ [Next]_vars => [NoneLeft]_vars
  BY <1>1
<1> QED
  BY <1>2, NodeInvHolds, PTL DEF Spec, AnsweredTaskLeavesNoChild

\* Only the watchdog gives up a goal that is waited for.
LEMMA GenerationMoves ==
    ASSUME TypeInv, [Next]_vars, trk.sent, proc' = "up", trk'.gen # trk.gen
    PROVE  \E dt \in {0, 1} : TickAbandon(dt)
<1>1. trk \in Tracker /\ RequestCancel(trk) \in Tracker
  BY TrackerTyped DEF TypeInv, TypeOK
<1>2. /\ NoteCancelSent(trk).gen = trk.gen /\ RequestCancel(trk).gen = trk.gen
      /\ NoteCancelSent(RequestCancel(trk)).gen = trk.gen
  BY <1>1, CancelFields
<1>3. ASSUME NEW g \in goals, GoalResponseCallback(g) PROVE FALSE
  <2> DEFINE after == AfterGoalResponse(trk, g.gen, g.st = "accepted")
  <2>1. after \in Tracker
    BY <1>1, CallbackTyped
  <2>2. after.gen = trk.gen
    BY <1>1 DEF AfterGoalResponse, Clear, Quiescent, Tracker
  <2>3. NoteCancelSent(after).gen = trk.gen
    BY <2>1, <2>2, CancelFields
  <2>4. trk' \in {trk, after, NoteCancelSent(after)}
    BY <1>3 DEF GoalResponseCallback
  <2> QED
    BY <2>2, <2>3, <2>4
<1>4. ASSUME NEW g \in goals, GoalResultCallback(g) PROVE FALSE
  BY <1>4 DEF GoalResultCallback, AfterResult, Clear, Quiescent
<1>5. ASSUME NEW dt \in {0, 1}, Tick(dt), ~TickAbandon(dt) PROVE FALSE
  BY <1>2, <1>5 DEF Tick, TickReadiness, TickCancelChild, TickWait, TickOutcome,
     TickNextSegment, TickStopRequest, TickCancelThrows, TickStopWait, TickStopped,
     TickResultThrows, Dies, childVars
<1>6. ASSUME BeginTaskResets PROVE FALSE
  BY <1>6 DEF BeginTaskResets, Clear, Quiescent
<1>7. ASSUME \/ Idle \/ TfSampler \/ Client \/ Crash \/ Restart \/ UNCHANGED vars
             \/ \E m \in Maps : MapCallback(m)
             \/ \E g \in goals : Nav2(g)
      PROVE  FALSE
  BY <1>6, <1>7 DEF Idle, TfSampler, Client, ClientCancel, BeginTaskFails, BeginTaskStarts,
     BeginTaskMismatch, Crash, Dies, Restart, MapCallback, Nav2, vars, childVars
<1> QED
  BY <1>3, <1>4, <1>5, <1>7 DEF Next, Callbacks

\* As long as a cancel is given any time at all (cancel_grace_s, in the units in
\* which the tick sees time), no goal whose handle is known is left behind without
\* having been asked to cancel.
THEOREM GoalsLeftWereCancelled ==
    ASSUME CancelGrace # 0
    PROVE  Spec /\ PatientClient => LeftGoalsWereCancelled
<1> DEFINE Asked == \A g \in goals :
              Current(g) /\ g.st = "running" /\ proc' = "up" /\ trk'.gen # trk.gen => g.cancel
<1>1. NodeInv /\ [Next]_vars => Asked
  <2> SUFFICES ASSUME NodeInv, [Next]_vars, NEW g \in goals, g.gen = trk.gen,
                      g.st = "running", proc' = "up", trk'.gen # trk.gen
               PROVE  g.cancel
    BY DEF Current
  <2>1. trk.sent
    BY DEF NodeInv, RunInv, FlightInv, Flight
  <2>2. PICK dt \in {0, 1} : TickAbandon(dt)
    BY <2>1, GenerationMoves DEF NodeInv
  <2>3. Executing /\ AgeAt(dt) > ChildTimeout + CancelGrace
    BY <2>2 DEF TickAbandon, Watched, Watch
  <2>4. age \in Nat
    BY DEF NodeInv, TypeInv, TypeOK
  <2>5. age > ChildTimeout
    BY <2>1, <2>3, <2>4, ExecutorAssumption DEF AgeAt, Capped
  <2>6. Told(trk, goals)
    BY <2>3, <2>5 DEF NodeInv, RunInv, ToldInv
  <2> QED
    BY <2>6 DEF Told
<1>2. NodeInv /\ [Next]_vars => [Asked]_vars
  BY <1>1
<1> QED
  BY <1>2, NodeInvHolds, PTL DEF Spec, LeftGoalsWereCancelled

\* A process that accepts one task, like those of the runs, has a patient client:
\* before the first task there is no answer.
THEOREM OneTaskIsPatient ==
    ASSUME MaxTasks \in {0, 1}
    PROVE  Spec => PatientClient
<1> DEFINE Unused == tasks \in Nat /\ (tasks = 0 => ~active /\ reply = {})
<1>1. Init => Unused
  <2>1. Init => tasks = 0 /\ active = FALSE /\ reply = {}
    BY DEF Init
  <2> QED
    BY <2>1
<1>2. ASSUME Unused, [Next]_vars PROVE Unused' /\ [Patient]_vars
  <2>1. ASSUME UNCHANGED <<active, reply, tasks>> PROVE Unused' /\ Patient
    BY <1>2, <2>1 DEF Patient
  <2>2. ASSUME NEW why, Dies(why) PROVE Unused' /\ Patient
    <3>1. tasks' = 0 /\ active' = FALSE /\ reply' = {}
      BY <2>2 DEF Dies
    <3> QED
      BY <1>2, <3>1 DEF Patient
  <2>3. ASSUME active, UNCHANGED tasks PROVE Unused' /\ Patient
    BY <1>2, <2>3 DEF Patient
  <2>4. ASSUME CanBegin, BeginTaskResets PROVE Unused' /\ Patient
    <3>1. tasks = 0 /\ tasks' = 1
      BY <1>2, <2>4 DEF CanBegin, BeginTaskResets
    <3> QED
      BY <1>2, <3>1 DEF Patient
  <2> HIDE DEF Unused
  <2>5. ASSUME NEW dt \in {0, 1}, Tick(dt) PROVE Unused' /\ Patient
    BY <2>1, <2>2, <2>3, <2>5 DEF Tick, TickReadiness, TickAbandon, TickCancelChild,
       TickWait, TickOutcome, TickNextSegment, FinishPlan, StartSegment, TickStopRequest,
       TickCancelThrows, TickStopWait, TickStopped, TickResultThrows, Executing, Cancelling,
       ProcessOutcome, taskVars
  <2>6. ASSUME Client PROVE Unused' /\ Patient
    BY <2>3, <2>4, <2>6 DEF Client, ClientCancel, BeginTaskFails, BeginTaskMismatch,
       BeginTaskStarts
  <2>7. ASSUME \/ Idle \/ TfSampler \/ Crash \/ Restart \/ UNCHANGED vars
               \/ \E m \in Maps : MapCallback(m)
               \/ \E g \in goals : Callbacks(g) \/ Nav2(g)
        PROVE  Unused' /\ Patient
    BY <2>1, <2>2, <2>7 DEF Idle, TfSampler, Crash, Restart, MapCallback, Callbacks,
       GoalResponseCallback, GoalResultCallback, Nav2, vars, taskVars
  <2> QED
    BY <1>2, <2>5, <2>6, <2>7 DEF Next
<1>3. Unused /\ [Next]_vars => Unused' /\ [Patient]_vars
  BY <1>2
<1> QED
  BY <1>1, <1>3, PTL DEF Spec, PatientClient

-----------------------------------------------------------------------------
(* The retries: the argument is an account.  A segment that is settled has *)
(* paid for all its attempts, the segment in hand for those it has used up.*)

\* The generations an attempt of segment i can take: of a WORK segment an approach
\* and a row drive, of a TRANSITION segment a drive, each given up at last.
GoalsPerAttempt(i) == IF i \in WorkSegs THEN 3 ELSE 2

\* The segments of S that d has a disposition for.
Settled(d, S) == {i \in S : d[i] # "PENDING"}

\* What the settled segments of d may have taken.
Spent(d) ==
    (MaxAttempts + 1) * (3 * Cardinality(Settled(d, WorkSegs))
                         + 2 * Cardinality(Settled(d, Segs \ WorkSegs)))

\* A goal is waited for, or its outcome waits to be processed.
Busy == trk.sent \/ pending # {}

\* What the attempt in hand has taken so far: mode 3 may follow an approach.
TakenInHand == IF ~Busy THEN 0 ELSE IF mode = 3 THEN 2 ELSE 1

\* Between two segments, only the settled ones have taken generations.
BetweenSegments ==
    ~Busy /\ trk.gen + GoalsPerTask <= tasks * GoalsPerTask + Spent(disp)

\* The segment in hand is the next open one, so that it is sent again as itself, and
\* its attempts are counted.
SegmentInHand ==
    /\ execIndex \in Segs /\ disp[execIndex] = "PENDING"
    /\ \A j \in Segs : j < execIndex => disp[j] # "PENDING"
    /\ Busy /\ mode \in {1, 3} => execIndex \in WorkSegs
    /\ trk.gen + GoalsPerTask <= tasks * GoalsPerTask + Spent(disp)
                                 + GoalsPerAttempt(execIndex) * execAttempt + TakenInHand

CountInv ==
    /\ DispatchesBounded
    /\ Executing => BetweenSegments \/ SegmentInHand

-----------------------------------------------------------------------------
(* The account *)

\* Segments are finitely many.
LEMMA SegsFinite ==
    ASSUME NEW S, S \subseteq Segs
    PROVE  IsFiniteSet(S) /\ Cardinality(S) \in Nat
<1>1. IsFiniteSet(Segs)
  BY FS_Interval, NumSegsAssumption DEF Segs
<1> QED
  BY <1>1, FS_Subset, FS_CardinalityType

\* The settled segments of a set are at most all of it.
LEMMA SettledWithin ==
    ASSUME NEW d, NEW S, S \subseteq Segs
    PROVE  /\ Cardinality(Settled(d, S)) \in Nat
           /\ Cardinality(S) \in Nat
           /\ Cardinality(Settled(d, S)) <= Cardinality(S)
<1>1. Settled(d, S) \subseteq S /\ Settled(d, S) \subseteq Segs
  BY DEF Settled
<1> QED
  BY <1>1, SegsFinite, FS_Subset

\* The products of the account are naturals and grow with their factors.
LEMMA Products ==
    ASSUME NEW k \in Nat, NEW a \in Nat, NEW b \in Nat, a <= b
    PROVE  k * a \in Nat /\ k * b \in Nat /\ k * a <= k * b
<1>1. k * a \in Nat /\ k * b \in Nat
  OBVIOUS
<1>2. b - a \in Nat /\ b = a + (b - a)
  OBVIOUS
<1>3. k * (a + (b - a)) = k * a + k * (b - a)
  BY <1>2
<1>4. k * (b - a) \in Nat
  BY <1>2
<1> QED
  BY <1>1, <1>2, <1>3, <1>4

\* No plan has spent more than a task may.
LEMMA SpentWithin ==
    ASSUME NEW d
    PROVE  Spent(d) \in Nat /\ GoalsPerTask \in Nat /\ Spent(d) <= GoalsPerTask
<1> DEFINE w  == Cardinality(Settled(d, WorkSegs))
           t  == Cardinality(Settled(d, Segs \ WorkSegs))
           ww == Cardinality(WorkSegs)
           tt == Cardinality(Segs \ WorkSegs)
<1>1. w \in Nat /\ t \in Nat /\ ww \in Nat /\ tt \in Nat /\ w <= ww /\ t <= tt
  BY SettledWithin, ExecutorAssumption
<1>2. MaxAttempts + 1 \in Nat
  BY ExecutorAssumption
<1>3. Spent(d) = (MaxAttempts + 1) * (3 * w + 2 * t)
      /\ GoalsPerTask = (MaxAttempts + 1) * (3 * ww + 2 * tt)
  BY DEF Spent, GoalsPerTask, AttemptsPerSegment
<1> HIDE DEF w, t, ww, tt
<1>4. 3 * w + 2 * t \in Nat /\ 3 * ww + 2 * tt \in Nat /\ 3 * w + 2 * t <= 3 * ww + 2 * tt
  BY <1>1
<1> QED
  BY <1>2, <1>3, <1>4, Products

\* Settling one more segment pays for all its attempts.
LEMMA SettlingPays ==
    ASSUME NEW d \in [Segs -> Dispositions], NEW i \in Segs, d[i] = "PENDING",
           NEW e, e \in {MarkCovered(d, i), MarkFailed(d, i)}
    PROVE  Spent(e) = Spent(d) + GoalsPerAttempt(i) * (MaxAttempts + 1)
<1>1. \A j \in Segs : (e[j] # "PENDING") <=> (d[j] # "PENDING" \/ j = i)
  BY DEF MarkCovered, MarkFailed
<1>2. ASSUME NEW S, S \subseteq Segs, i \in S
      PROVE  Cardinality(Settled(e, S)) = Cardinality(Settled(d, S)) + 1
  <2>1. Settled(e, S) = Settled(d, S) \cup {i} /\ i \notin Settled(d, S)
    BY <1>1, <1>2 DEF Settled
  <2>2. IsFiniteSet(Settled(d, S))
    BY <1>2, SegsFinite DEF Settled
  <2> QED
    BY <2>1, <2>2, FS_AddElement
<1>3. ASSUME NEW S, S \subseteq Segs, i \notin S
      PROVE  Settled(e, S) = Settled(d, S)
  BY <1>1, <1>3 DEF Settled
<1> DEFINE k  == MaxAttempts + 1
           wd == Cardinality(Settled(d, WorkSegs))
           td == Cardinality(Settled(d, Segs \ WorkSegs))
           we == Cardinality(Settled(e, WorkSegs))
           te == Cardinality(Settled(e, Segs \ WorkSegs))
<1>4. k \in Nat /\ wd \in Nat /\ td \in Nat
  BY SettledWithin, ExecutorAssumption
<1>5. Spent(d) = k * (3 * wd + 2 * td) /\ Spent(e) = k * (3 * we + 2 * te)
  BY DEF Spent
<1>6. CASE i \in WorkSegs
  <2>1. we = wd + 1 /\ te = td
    BY <1>2, <1>3, <1>6, ExecutorAssumption
  <2> HIDE DEF k, wd, td, we, te
  <2>2. k * (3 * (wd + 1) + 2 * td) = k * (3 * wd + 2 * td) + 3 * k
    BY <1>4
  <2> QED
    BY <1>5, <1>6, <2>1, <2>2 DEF GoalsPerAttempt, k
<1>7. CASE i \notin WorkSegs
  <2>1. we = wd /\ te = td + 1
    BY <1>2, <1>3, <1>7, ExecutorAssumption
  <2> HIDE DEF k, wd, td, we, te
  <2>2. k * (3 * wd + 2 * (td + 1)) = k * (3 * wd + 2 * td) + 2 * k
    BY <1>4
  <2> QED
    BY <1>5, <1>7, <2>1, <2>2 DEF GoalsPerAttempt, k
<1> QED
  BY <1>6, <1>7

\* The attempts of the segment in hand fit in what it will have paid.
LEMMA InHandWithin ==
    ASSUME TypeInv, execIndex \in Segs, disp[execIndex] = "PENDING"
    PROVE  /\ GoalsPerAttempt(execIndex) * execAttempt \in Nat
           /\ Spent(disp) + GoalsPerAttempt(execIndex) * execAttempt
                 + GoalsPerAttempt(execIndex) <= GoalsPerTask
<1>1. disp \in [Segs -> Dispositions] /\ execAttempt \in 0..MaxAttempts
  BY DEF TypeInv, TypeOK
<1> DEFINE after == MarkCovered(disp, execIndex)
           k == GoalsPerAttempt(execIndex)
<1>2. Spent(after) = Spent(disp) + k * (MaxAttempts + 1)
  BY <1>1, SettlingPays
<1>3. Spent(after) <= GoalsPerTask /\ Spent(disp) \in Nat /\ GoalsPerTask \in Nat
      /\ Spent(after) \in Nat
  BY SpentWithin
<1>4. k \in {2, 3}
  BY DEF GoalsPerAttempt
<1> HIDE DEF k, after
<1>5. MaxAttempts \in Nat /\ execAttempt \in Nat /\ execAttempt <= MaxAttempts
  BY <1>1, ExecutorAssumption
<1> DEFINE used == k * execAttempt
           all  == k * (MaxAttempts + 1)
<1>6. used \in Nat /\ all \in Nat /\ used + k <= all
  BY <1>4, <1>5
<1>7. Spent(after) = Spent(disp) + all
  BY <1>2
<1> HIDE DEF used, all
<1>8. Spent(disp) + used + k <= GoalsPerTask
  BY <1>3, <1>4, <1>6, <1>7
<1> QED
  BY <1>6, <1>8 DEF k, used

\* An account that is in order keeps the bound.
LEMMA AccountBounds == TypeInv /\ (BetweenSegments \/ SegmentInHand) => DispatchesBounded
<1> SUFFICES ASSUME TypeInv, BetweenSegments \/ SegmentInHand PROVE DispatchesBounded
  OBVIOUS
<1> DEFINE due == tasks * GoalsPerTask
<1>1. trk.gen \in Nat /\ tasks \in Nat
  BY DEF TypeInv, TypeOK, Tracker
<1>2. Spent(disp) \in Nat /\ GoalsPerTask \in Nat /\ Spent(disp) <= GoalsPerTask
  BY SpentWithin
<1>3. due \in Nat
  BY <1>1, <1>2
<1>4. DispatchesBounded <=> trk.gen <= due
  BY DEF DispatchesBounded
<1>5. CASE BetweenSegments
  <2>1. trk.gen + GoalsPerTask <= due + Spent(disp)
    BY <1>5 DEF BetweenSegments
  <2> HIDE DEF due
  <2> QED
    BY <1>1, <1>2, <1>3, <1>4, <2>1
<1>6. CASE SegmentInHand
  <2> DEFINE k == GoalsPerAttempt(execIndex)
             used == k * execAttempt
  <2>1. used \in Nat /\ Spent(disp) + used + k <= GoalsPerTask
    BY <1>6, InHandWithin DEF SegmentInHand
  <2>2. trk.gen + GoalsPerTask <= due + Spent(disp) + used + TakenInHand
    BY <1>6 DEF SegmentInHand
  <2>3. k \in {2, 3} /\ TakenInHand \in 0..k
    BY <1>6 DEF SegmentInHand, TakenInHand, GoalsPerAttempt
  <2> HIDE DEF due, used, k
  <2> QED
    BY <1>1, <1>2, <1>3, <1>4, <2>1, <2>2, <2>3
<1> QED
  BY <1>5, <1>6

-----------------------------------------------------------------------------
(* The steps *)

\* A step that sends and settles nothing.
LEMMA AccountKept ==
    ASSUME CountInv, trk'.gen = trk.gen,
           UNCHANGED <<mode, execIndex, execAttempt, disp, tasks>>,
           Executing' => Executing /\ (Busy' <=> Busy)
    PROVE  CountInv'
<1>1. DispatchesBounded'
  BY DEF CountInv, DispatchesBounded
<1>2. ASSUME Executing', BetweenSegments PROVE BetweenSegments'
  BY <1>2 DEF BetweenSegments
<1>3. ASSUME Executing', SegmentInHand PROVE SegmentInHand'
  <2>1. TakenInHand' = TakenInHand
    BY <1>3 DEF TakenInHand
  <2> QED
    BY <1>3, <2>1 DEF SegmentInHand
<1> QED
  BY <1>1, <1>2, <1>3 DEF CountInv

\* A step after which no task runs.
LEMMA AccountClosed ==
    ASSUME TypeInv, CountInv, ~active',
           \/ UNCHANGED <<trk, tasks>>
           \/ trk' = Clear(trk) /\ tasks' = tasks + 1
           \/ trk' = NewTracker /\ tasks' = 0
    PROVE  CountInv'
<1>1. GoalsPerTask \in Nat /\ trk.gen \in Nat /\ tasks \in Nat
  BY SpentWithin DEF TypeInv, TypeOK, Tracker
<1>2. trk.gen <= tasks * GoalsPerTask
  BY DEF CountInv, DispatchesBounded
<1>3. DispatchesBounded'
  <2>1. CASE UNCHANGED <<trk, tasks>>
    BY <1>2, <2>1 DEF DispatchesBounded
  <2>2. CASE trk' = Clear(trk) /\ tasks' = tasks + 1
    <3>1. trk'.gen = trk.gen
      BY <2>2 DEF Clear, Quiescent
    <3>2. (tasks + 1) * GoalsPerTask = tasks * GoalsPerTask + GoalsPerTask
      BY <1>1
    <3>3. tasks * GoalsPerTask \in Nat
      BY <1>1
    <3>4. trk'.gen <= tasks' * GoalsPerTask
      BY <1>1, <1>2, <2>2, <3>1, <3>2, <3>3
    <3> QED
      BY <3>4 DEF DispatchesBounded
  <2>3. CASE trk' = NewTracker /\ tasks' = 0
    <3>1. trk'.gen = 0
      BY <2>3 DEF NewTracker, Quiescent
    <3>2. trk'.gen <= tasks' * GoalsPerTask
      BY <1>1, <2>3, <3>1
    <3> QED
      BY <3>2 DEF DispatchesBounded
  <2> QED
    BY <2>1, <2>2, <2>3
<1> QED
  BY <1>3 DEF CountInv, Executing

\* A goal is sent, which takes a generation, or its outcome is queued at once.
LEMMA SendTakes ==
    ASSUME NEW kind, NEW to, NEW idx, NEW t, NEW nav, NEW fol,
           Send(kind, to, idx, t, nav, fol), t.gen \in Nat
    PROVE  Busy' /\ trk'.gen \in Nat /\ trk'.gen <= t.gen + 1
<1>1. Dispatch(t).sent /\ Dispatch(t).gen = t.gen + 1
  BY DEF Dispatch, Quiescent
<1>2. \/ trk' = t /\ pending' = {[idx |-> idx, ok |-> FALSE]}
      \/ trk' = Dispatch(t)
  BY DEF Send
<1>3. CASE trk' = t /\ pending' = {[idx |-> idx, ok |-> FALSE]}
  <2>1. pending' # {}
    BY <1>3
  <2> QED
    BY <1>3, <2>1 DEF Busy
<1>4. CASE trk' = Dispatch(t)
  BY <1>1, <1>4 DEF Busy
<1> QED
  BY <1>2, <1>3, <1>4

\* A task starts: with the attempt count of the last one, but no generation taken.
LEMMA BeginCounts ==
    ASSUME NodeInv, CountInv, NEW resume, NEW seed, BeginTaskStarts(resume, seed),
           TypeInv'
    PROVE  CountInv'
<1>1. trk' = Clear(trk) /\ tasks' = tasks + 1 /\ pending' = {}
  BY DEF BeginTaskStarts, BeginTaskResets
<1>2. trk'.gen = trk.gen /\ ~trk'.sent
  BY <1>1 DEF Clear, Quiescent
<1>3. GoalsPerTask \in Nat /\ trk.gen \in Nat /\ tasks \in Nat /\ Spent(disp') \in Nat
  BY SpentWithin DEF NodeInv, TypeInv, TypeOK, Tracker
<1>4. trk.gen <= tasks * GoalsPerTask
  BY DEF CountInv, DispatchesBounded
<1>5. (tasks + 1) * GoalsPerTask = tasks * GoalsPerTask + GoalsPerTask
  BY <1>3
<1>6. tasks * GoalsPerTask \in Nat
  BY <1>3
<1>7. trk'.gen + GoalsPerTask <= tasks' * GoalsPerTask + Spent(disp')
  BY <1>1, <1>2, <1>3, <1>4, <1>5, <1>6
<1>8. BetweenSegments'
  BY <1>1, <1>2, <1>7 DEF BetweenSegments, Busy
<1>9. DispatchesBounded'
  BY <1>8, AccountBounds, PTL
<1> QED
  BY <1>8, <1>9 DEF CountInv

\* The next open segment has no open one before it (nextPendingIndex).
LEMMA NextIsFirst ==
    ASSUME NEW d, NEW i, i = NextPendingIndex(d), i # 0,
           \A j \in Segs : d[j] # "BLOCKED_TEMP"
    PROVE  \A j \in Segs : j < i => d[j] # "PENDING"
<1>1. WithDisposition(d, "BLOCKED_TEMP") = {}
  BY DEF WithDisposition
<1>2. WithDisposition(d, "PENDING") # {} /\ i = Min(WithDisposition(d, "PENDING"))
  BY <1>1 DEF NextPendingIndex
<1>3. WithDisposition(d, "PENDING") \subseteq Nat
  BY NumSegsAssumption DEF WithDisposition, Segs
<1>4. i \in Nat /\ \A j \in WithDisposition(d, "PENDING") : i <= j
  BY <1>2, <1>3, MinOfNaturals
<1>5. ASSUME NEW j \in Segs, j < i, d[j] = "PENDING" PROVE FALSE
  <2>1. j \in WithDisposition(d, "PENDING")
    BY <1>5 DEF WithDisposition
  <2> QED
    BY <1>3, <1>4, <1>5, <2>1
<1> QED
  BY <1>5

\* A segment is sent, or its sending fails.
LEMMA StartCounts ==
    ASSUME NodeInv, CountInv, Executing, ~Busy, UNCHANGED worldVars,
           NEW idx \in Segs, NEW near \in BOOLEAN, StartSegment(idx, near), TypeInv'
    PROVE  CountInv'
<1>1. /\ execIndex' = idx /\ UNCHANGED <<disp, tasks>>
      /\ execAttempt' = IF idx # execIndex THEN 0 ELSE execAttempt
      /\ mode' \in {1, 3} => idx \in WorkSegs
  BY DEF StartSegment, planVars, taskVars
<1>2. PICK kind, to : Send(kind, to, idx, trk, navGh, followGh)
  BY DEF StartSegment
<1>3. trk.gen \in Nat /\ tasks \in Nat /\ execAttempt \in Nat /\ execIndex \in Nat
  BY ExecutorAssumption, NumSegsAssumption DEF NodeInv, TypeInv, TypeOK, Tracker, Segs
<1>4. Busy' /\ trk'.gen \in Nat /\ trk'.gen <= trk.gen + 1
  BY <1>2, <1>3, SendTakes
<1>5. /\ disp[idx] = "PENDING" /\ idx \in Nat
      /\ \A j \in Segs : j < idx => disp[j] # "PENDING"
  BY NextIsOpen, NextIsFirst, NumSegsAssumption DEF StartSegment, NodeInv, RunInv, HandInv, Segs
<1> DEFINE due    == tasks * GoalsPerTask
           used   == GoalsPerAttempt(execIndex) * execAttempt
           after  == GoalsPerAttempt(idx) * execAttempt'
<1>6. due \in Nat /\ GoalsPerTask \in Nat /\ Spent(disp) \in Nat
  BY <1>3, SpentWithin
<1>7. TakenInHand' \in {1, 2}
  BY <1>4 DEF TakenInHand
<1>8. after \in Nat
  BY <1>1, <1>3 DEF GoalsPerAttempt
<1>9. trk'.gen + GoalsPerTask <= due + Spent(disp) + after + TakenInHand'
  <2>1. CASE BetweenSegments
    <3>1. trk.gen + GoalsPerTask <= due + Spent(disp)
      BY <2>1 DEF BetweenSegments
    <3> HIDE DEF due, after
    <3> QED
      BY <1>3, <1>4, <1>6, <1>7, <1>8, <3>1
  <2>2. CASE SegmentInHand
    <3>1. ~(idx < execIndex) /\ ~(execIndex < idx)
      BY <1>5, <2>2 DEF SegmentInHand
    <3>2. execIndex = idx
      BY <1>3, <1>5, <3>1
    <3>3. after = used
      BY <1>1, <3>2
    <3>4. trk.gen + GoalsPerTask <= due + Spent(disp) + used
      <4>1. trk.gen + GoalsPerTask <= due + Spent(disp) + used + TakenInHand
        BY <2>2 DEF SegmentInHand
      <4>2. TakenInHand = 0 /\ used \in Nat
        BY <1>3 DEF TakenInHand, GoalsPerAttempt
      <4> HIDE DEF due, used
      <4> QED
        BY <1>3, <1>6, <4>1, <4>2
    <3> HIDE DEF due, used, after
    <3> QED
      BY <1>3, <1>4, <1>6, <1>7, <1>8, <3>3, <3>4
  <2> QED
    BY <2>1, <2>2 DEF CountInv
<1>10. SegmentInHand'
  <2>1. /\ execIndex' \in Segs /\ disp'[execIndex'] = "PENDING"
        /\ \A j \in Segs : j < execIndex' => disp'[j] # "PENDING"
        /\ mode' \in {1, 3} => execIndex' \in WorkSegs
    BY <1>1, <1>5
  <2>2. trk'.gen + GoalsPerTask <= tasks' * GoalsPerTask + Spent(disp')
                 + GoalsPerAttempt(execIndex') * execAttempt' + TakenInHand'
    BY <1>1, <1>9
  <2> QED
    BY <2>1, <2>2 DEF SegmentInHand
<1>11. DispatchesBounded'
  BY <1>10, AccountBounds, PTL
<1> QED
  BY <1>10, <1>11 DEF CountInv

\* The outcome of the segment in hand is processed; t: the tracker, which gave the
\* goal up if the watchdog made the outcome.
LEMMA ProcessCounts ==
    ASSUME TypeInv, CountInv, Executing, Busy, NEW o, o.idx = execIndex, NEW reached,
           NEW t, ~t.sent, t.gen \in {trk.gen, trk.gen + 1}, o.ok => t.gen = trk.gen,
           NEW nav, NEW fol, ProcessOutcome(o, reached, t, nav, fol), TypeInv'
    PROVE  CountInv'
<1>1. UNCHANGED <<execIndex, tasks>>
  BY DEF ProcessOutcome, taskVars
<1>2. /\ trk.gen \in Nat /\ t.gen \in Nat /\ t.gen <= trk.gen + 1
      /\ tasks \in Nat /\ execAttempt \in 0..MaxAttempts /\ MaxAttempts \in Nat
      /\ disp \in [Segs -> Dispositions]
  BY ExecutorAssumption DEF TypeInv, TypeOK, Tracker
<1>3. SegmentInHand
  BY DEF CountInv, BetweenSegments
<1> DEFINE due  == tasks * GoalsPerTask
           k    == GoalsPerAttempt(execIndex)
           used == k * execAttempt
           all  == k * (MaxAttempts + 1)
<1>4. /\ due \in Nat /\ GoalsPerTask \in Nat /\ Spent(disp) \in Nat
  <2>1. tasks \in Nat /\ GoalsPerTask \in Nat /\ Spent(disp) \in Nat
    BY <1>2, SpentWithin
  <2> QED
    BY ONLY <2>1
<1>5. /\ trk.gen + GoalsPerTask <= due + Spent(disp) + used + TakenInHand
      /\ execIndex \in Segs /\ disp[execIndex] = "PENDING"
      /\ \A j \in Segs : j < execIndex => disp[j] # "PENDING"
      /\ mode \in {1, 3} => k = 3
  BY <1>3 DEF SegmentInHand, GoalsPerAttempt
<1>6. k \in {2, 3} /\ used \in Nat /\ all \in Nat /\ used + k <= all
  <2>1. k \in {2, 3}
    BY DEF GoalsPerAttempt
  <2> HIDE DEF k
  <2> QED
    BY <1>2, <2>1
<1>7. TakenInHand = IF mode = 3 THEN 2 ELSE 1
  BY DEF TakenInHand
\* The segment is sent again, or stays open: its attempts are counted.
<1>8. ASSUME disp' = disp, NEW a \in Nat, GoalsPerAttempt(execIndex) * execAttempt' = a,
             Busy' /\ mode' \in {1, 3} => execIndex \in WorkSegs,
             trk'.gen + GoalsPerTask <= due + Spent(disp) + a + TakenInHand'
      PROVE  CountInv'
  <2>1. SegmentInHand'
    <3>1. trk'.gen + GoalsPerTask <= tasks' * GoalsPerTask + Spent(disp')
                   + GoalsPerAttempt(execIndex') * execAttempt' + TakenInHand'
      BY <1>1, <1>8
    <3> QED
      BY <1>1, <1>5, <1>8, <3>1 DEF SegmentInHand
  <2>2. DispatchesBounded'
    BY <2>1, AccountBounds, PTL
  <2> QED
    BY <2>1, <2>2 DEF CountInv
\* The segment is settled: it has paid for all its attempts.
<1>9. ASSUME disp' \in {MarkCovered(disp, execIndex), MarkFailed(disp, execIndex)},
             SendsNothing(t, nav, fol),
             t.gen + GoalsPerTask <= due + Spent(disp) + all
      PROVE  CountInv'
  <2>1. Spent(disp') = Spent(disp) + all
    BY <1>2, <1>5, <1>9, SettlingPays
  <2>2. trk' = t /\ ~Busy'
    BY <1>9 DEF SendsNothing, Busy
  <2>3. BetweenSegments'
    <3>1. t.gen + GoalsPerTask <= due + Spent(disp')
      <4> HIDE DEF due, all
      <4> QED
        BY <1>2, <1>4, <1>6, <1>9, <2>1
    <3> QED
      BY <1>1, <2>2, <3>1 DEF BetweenSegments
  <2>4. DispatchesBounded'
    BY <2>3, AccountBounds, PTL
  <2> QED
    BY <2>3, <2>4 DEF CountInv
<1>10. CASE ApproachSucceeded(o, t, nav, fol)
  <2>1. /\ mode = 1 /\ mode' = 3 /\ t.gen = trk.gen /\ UNCHANGED <<disp, execAttempt>>
        /\ Send("follow", "end", execIndex, t, nav, fol)
    BY <1>10 DEF ApproachSucceeded
  <2>2. Busy' /\ trk'.gen \in Nat /\ trk'.gen <= t.gen + 1
    BY <1>2, <2>1, SendTakes
  <2>3. TakenInHand' = 2 /\ TakenInHand = 1
    BY <1>7, <2>1, <2>2 DEF TakenInHand
  <2>4. trk'.gen + GoalsPerTask <= due + Spent(disp) + used + TakenInHand'
    <3> HIDE DEF due, used
    <3> QED
      BY <1>2, <1>4, <1>5, <1>6, <2>1, <2>2, <2>3
  <2>5. execIndex \in WorkSegs
    BY <1>3, <2>1 DEF SegmentInHand
  <2> QED
    BY <1>6, <1>8, <2>1, <2>4, <2>5
<1>11. CASE ApproachRetried(o, t, nav, fol)
  <2>1. /\ mode = 1 /\ mode' = 1 /\ disp' = disp /\ execAttempt' = execAttempt + 1
        /\ Send("nav", "end", execIndex, t, nav, fol)
    BY <1>11 DEF ApproachRetried
  <2>2. Busy' /\ trk'.gen \in Nat /\ trk'.gen <= t.gen + 1
    BY <1>2, <2>1, SendTakes
  <2>3. TakenInHand' = 1 /\ TakenInHand = 1
    BY <1>7, <2>1, <2>2 DEF TakenInHand
  <2>4. k * execAttempt' = used + k
    <3> HIDE DEF k
    <3> QED
      BY <1>2, <1>6, <2>1
  <2>5. trk'.gen + GoalsPerTask <= due + Spent(disp) + (used + k) + TakenInHand'
    <3> HIDE DEF due, used, k
    <3> QED
      BY <1>2, <1>4, <1>5, <1>6, <2>2, <2>3
  <2>6. execIndex \in WorkSegs /\ used + k \in Nat
    BY <1>3, <1>6, <2>1 DEF SegmentInHand
  <2> QED
    BY <1>8, <2>1, <2>4, <2>5, <2>6
<1>12. CASE ApproachExhausted(o, t, nav, fol)
  <2>1. /\ mode = 1 /\ disp' = MarkFailed(disp, execIndex) /\ SendsNothing(t, nav, fol)
    BY <1>12 DEF ApproachExhausted
  <2>2. TakenInHand = 1
    BY <1>7, <2>1
  <2>3. t.gen + GoalsPerTask <= due + Spent(disp) + all
    <3> HIDE DEF due, used, k, all
    <3> QED
      BY <1>2, <1>4, <1>5, <1>6, <2>2
  <2> QED
    BY <1>9, <2>1, <2>3
<1>13. CASE DriveSucceeded(o, reached, t, nav, fol)
  <2>1. disp' = MarkCovered(disp, execIndex) /\ SendsNothing(t, nav, fol) /\ t.gen = trk.gen
    BY <1>13 DEF DriveSucceeded, DriveOk
  <2>2. TakenInHand \in 1..k
    BY <1>5, <1>6, <1>7
  <2>3. t.gen + GoalsPerTask <= due + Spent(disp) + all
    <3> HIDE DEF due, used, k, all
    <3> QED
      BY <1>2, <1>4, <1>5, <1>6, <2>1, <2>2
  <2> QED
    BY <1>9, <2>1, <2>3
<1>14. CASE DriveFailed(o, reached, t, nav, fol)
  <2>1. SendsNothing(t, nav, fol) /\ TakenInHand \in {1, 2} /\ TakenInHand + 1 <= k
    BY <1>5, <1>6, <1>7, <1>14 DEF DriveFailed
  <2>2. t.gen + GoalsPerTask <= due + Spent(disp) + used + k
    <3> HIDE DEF due, used, k, all
    <3> QED
      BY <1>2, <1>4, <1>5, <1>6, <2>1
  <2>3. CASE execAttempt' = execAttempt + 1 /\ UNCHANGED disp
    <3>1. trk' = t /\ ~Busy' /\ TakenInHand' = 0
      BY <2>1 DEF SendsNothing, Busy, TakenInHand
    <3>2. k * execAttempt' = used + k
      <4> HIDE DEF k
      <4> QED
        BY <1>2, <1>6, <2>3
    <3>3. trk'.gen + GoalsPerTask <= due + Spent(disp) + (used + k) + TakenInHand'
      <4> HIDE DEF due, used, k
      <4> QED
        BY <1>2, <1>4, <1>6, <2>2, <3>1
    <3>4. used + k \in Nat
      BY <1>6
    <3> QED
      BY <1>8, <2>3, <3>1, <3>2, <3>3, <3>4
  <2>4. CASE disp' = MarkFailed(disp, execIndex)
    <3>1. t.gen + GoalsPerTask <= due + Spent(disp) + all
      <4> HIDE DEF due, used, k, all
      <4> QED
        BY <1>2, <1>4, <1>6, <2>2
    <3> QED
      BY <1>9, <2>1, <2>4, <3>1
  <2> QED
    BY <1>14, <2>3, <2>4 DEF DriveFailed
<1> QED
  BY <1>10, <1>11, <1>12, <1>13, <1>14 DEF ProcessOutcome

\* The watchdog gives a goal up, or an outcome is processed.
LEMMA OutcomesCount ==
    ASSUME NodeInv, CountInv, TypeInv',
           \/ \E dt \in {0, 1} : TickAbandon(dt)
           \/ \E o \in pending, reached \in BOOLEAN : TickOutcome(o, reached)
    PROVE  CountInv'
<1>1. trk \in Tracker
  BY DEF NodeInv, TypeInv, TypeOK
<1>2. ASSUME NEW dt \in {0, 1}, TickAbandon(dt) PROVE CountInv'
  <2> DEFINE o == [idx |-> execIndex, ok |-> FALSE]
  <2>1. Executing /\ Busy /\ ProcessOutcome(o, FALSE, Abandon(trk), 0, 0)
    BY <1>2 DEF TickAbandon, Watched, Watch, Busy
  <2>2. ~Abandon(trk).sent /\ Abandon(trk).gen = trk.gen + 1
    BY DEF Abandon, Quiescent
  <2>3. o.idx = execIndex /\ ~o.ok
    OBVIOUS
  <2> HIDE DEF o
  <2> QED
    BY <2>1, <2>2, <2>3, ProcessCounts DEF NodeInv
<1>3. ASSUME NEW o \in pending, NEW reached \in BOOLEAN, TickOutcome(o, reached)
      PROVE  CountInv'
  <2>1. /\ Executing /\ Busy /\ ~trk.sent
        /\ ProcessOutcome(o, reached, trk, navGh, followGh)
    BY <1>3 DEF TickOutcome, Busy
  <2>2. o.idx = execIndex
    BY <2>1 DEF NodeInv, RunInv, HandInv
  <2> QED
    BY <2>1, <2>2, ProcessCounts DEF NodeInv
<1> QED
  BY <1>2, <1>3

\* The watchdog, the stop request and the callbacks take no generation, and a goal that
\* is over while the task executes leaves its outcome.
LEMMA ChildrenCount ==
    ASSUME NodeInv, CountInv,
           \/ \E dt \in {0, 1} : TickCancelChild(dt) \/ TickWait(dt)
           \/ TickStopRequest
           \/ \E g \in goals : Callbacks(g) \/ Nav2(g)
    PROVE  CountInv'
<1>1. trk \in Tracker /\ RequestCancel(trk) \in Tracker
  BY TrackerTyped DEF NodeInv, TypeInv, TypeOK
<1>2. ASSUME UNCHANGED <<mode, execIndex, execAttempt, disp, tasks, pending, proc, active, phase>>,
             trk'.gen = trk.gen, trk'.sent = trk.sent
      PROVE  CountInv'
  BY <1>2, AccountKept DEF Busy, Executing
<1>3. CASE \E dt \in {0, 1} : TickCancelChild(dt) \/ TickWait(dt)
  <2>1. UNCHANGED <<mode, execIndex, execAttempt, disp, tasks, pending, proc, active, phase>>
    BY <1>3 DEF TickCancelChild, TickWait, worldVars, taskVars, planVars, segVars
  <2>2. trk' \in {trk, NoteCancelSent(trk), RequestCancel(trk)}
    BY <1>3 DEF TickCancelChild, TickWait, childVars
  <2> QED
    BY <1>1, <1>2, <2>1, <2>2, CancelFields
<1>4. CASE TickStopRequest
  <2>1. UNCHANGED <<mode, execIndex, execAttempt, disp, tasks, pending, proc, active, phase>>
    BY <1>4 DEF TickStopRequest, worldVars, taskVars, planVars, segVars
  <2>2. trk' \in {RequestCancel(trk), NoteCancelSent(RequestCancel(trk))}
    BY <1>4 DEF TickStopRequest
  <2> QED
    BY <1>1, <1>2, <2>1, <2>2, CancelFields
<1>5. ASSUME NEW g \in goals, Nav2(g) PROVE CountInv'
  <2>1. UNCHANGED <<mode, execIndex, execAttempt, disp, tasks, pending, proc, active, phase, trk>>
    BY <1>5 DEF Nav2, worldVars, taskVars, planVars, segVars
  <2> QED
    BY <1>2, <2>1
<1>6. ASSUME NEW g \in goals, Callbacks(g) PROVE CountInv'
  <2>1. UNCHANGED <<mode, execIndex, execAttempt, disp, tasks, proc, active, phase>>
    BY <1>6 DEF Callbacks, GoalResponseCallback, GoalResultCallback, worldVars, taskVars,
                planVars, segVars
  <2>2. CASE UNCHANGED <<trk, pending>>
    BY <1>2, <2>1, <2>2
  <2>3. CASE g.gen # trk.gen
    BY <1>6, <2>2, <2>3 DEF Callbacks, GoalResponseCallback, GoalResultCallback,
                OnGoalResponse, OnResult, AfterResult
  <2>4. CASE g.gen = trk.gen
    <3>1. trk.sent /\ Busy
      BY <2>4 DEF NodeInv, RunInv, FlightInv, Flight, Busy
    <3>2. CASE g.st = "accepted"
      <4> DEFINE after == AfterGoalResponse(trk, g.gen, TRUE)
      <4>1. after = [trk EXCEPT !.handleKnown = TRUE]
        BY <2>4 DEF AfterGoalResponse
      <4>2. after \in Tracker /\ after.gen = trk.gen /\ after.sent = trk.sent
        BY <1>1, <4>1 DEF Tracker
      <4>3. trk' \in {after, NoteCancelSent(after)} /\ UNCHANGED pending
        BY <1>6, <2>4, <3>2 DEF Callbacks, GoalResponseCallback, GoalResultCallback,
                               OnGoalResponse
      <4> HIDE DEF after
      <4> QED
        BY <1>2, <2>1, <4>2, <4>3, CancelFields
    <3>3. CASE g.st # "accepted"
      <4>1. trk' = Clear(trk) /\ (phase # "CANCELLING" => pending' # {})
        BY <1>6, <2>4, <3>3 DEF Callbacks, GoalResponseCallback, GoalResultCallback,
             OnGoalResponse, OnResult, AfterGoalResponse, AfterResult
      <4>2. trk'.gen = trk.gen
        BY <4>1 DEF Clear, Quiescent
      <4>3. Executing' => Executing /\ Busy'
        BY <2>1, <4>1 DEF Executing, Busy
      <4> QED
        BY <2>1, <3>1, <4>2, <4>3, AccountKept
    <3> QED
      BY <3>2, <3>3
  <2> QED
    BY <2>3, <2>4
<1> QED
  BY <1>3, <1>4, <1>5, <1>6

\* The end of a task or of the process, and the goals the server refuses.
LEMMA EndsCount ==
    ASSUME TypeInv, CountInv,
           \/ \E dt \in {0, 1}, s \in Samples : TickStopped(dt, s) \/ TickResultThrows(dt, s)
           \/ \E dt \in {0, 1} : TickCancelThrows(dt)
           \/ \E enough \in BOOLEAN : FinishPlan(enough)
           \/ \E class : BeginTaskFails(class)
           \/ \E resume, seed : BeginTaskMismatch(resume, seed)
           \/ Crash
    PROVE  CountInv'
<1>1. CASE \/ \E dt \in {0, 1}, s \in Samples : TickStopped(dt, s)
           \/ \E enough \in BOOLEAN : FinishPlan(enough)
  <2>1. ~active' /\ UNCHANGED <<trk, tasks>>
    BY <1>1 DEF TickStopped, FinishPlan, FinishTask, childVars
  <2> QED
    BY <2>1, AccountClosed
<1>2. CASE \/ \E class : BeginTaskFails(class)
           \/ \E resume, seed : BeginTaskMismatch(resume, seed)
  <2>1. ~active' /\ trk' = Clear(trk) /\ tasks' = tasks + 1
    BY <1>2 DEF BeginTaskFails, BeginTaskMismatch, BeginTaskResets, FinishTask
  <2> QED
    BY <2>1, AccountClosed
<1>3. CASE \/ \E dt \in {0, 1}, s \in Samples : TickResultThrows(dt, s)
           \/ \E dt \in {0, 1} : TickCancelThrows(dt)
           \/ Crash
  <2>1. \E why : Dies(why)
    BY <1>3 DEF TickResultThrows, TickCancelThrows, Crash
  <2>2. ~active' /\ trk' = NewTracker /\ tasks' = 0
    BY <2>1 DEF Dies
  <2> QED
    BY <2>2, AccountClosed
<1> QED
  BY <1>1, <1>2, <1>3

\* Everything else leaves the account alone.
LEMMA OthersCount ==
    ASSUME NodeInv, CountInv,
           \/ TickReadiness \/ Idle \/ TfSampler \/ ClientCancel \/ Restart \/ UNCHANGED vars
           \/ \E m \in Maps : MapCallback(m)
           \/ \E dt \in {0, 1}, s \in Samples : TickStopWait(dt, s)
    PROVE  CountInv'
<1>1. UNCHANGED <<trk, pending, mode, execIndex, execAttempt, disp, tasks>>
  BY DEF TickReadiness, Idle, TfSampler, ClientCancel, Restart, vars, MapCallback,
         TickStopWait, taskVars, planVars, childVars, segVars
<1>2. Executing' => Executing
  <2>1. Restart => ~active /\ UNCHANGED active
    BY DEF Restart, taskVars, NodeInv, LinkInv
  <2> QED
    BY <2>1 DEF TickReadiness, Idle, TfSampler, ClientCancel, vars, MapCallback,
         TickStopWait, taskVars, worldVars, Executing, Cancelling
<1> QED
  BY <1>1, <1>2, AccountKept DEF Busy

\* Every step keeps the account, as long as the outcomes are of the segment in hand.
LEMMA CountStep == NodeInv /\ CountInv /\ [Next]_vars => CountInv'
<1> SUFFICES ASSUME NodeInv, CountInv, [Next]_vars PROVE CountInv'
  OBVIOUS
<1>1. TypeInv /\ TypeInv'
  BY TypeStep DEF NodeInv
<1>2. CASE TickNextSegment
  <2>1. ASSUME NEW idx \in Segs, NEW near \in BOOLEAN, StartSegment(idx, near)
        PROVE  CountInv'
    <3>1. Executing /\ ~Busy /\ UNCHANGED worldVars
      BY <1>2 DEF TickNextSegment, Busy
    <3> QED
      BY <1>1, <2>1, <3>1, StartCounts
  <2> QED
    BY <1>1, <1>2, <2>1, EndsCount DEF TickNextSegment
<1>3. ASSUME NEW dt \in {0, 1}, Tick(dt) PROVE CountInv'
  BY <1>1, <1>2, <1>3, OutcomesCount, ChildrenCount, EndsCount, OthersCount DEF Tick
<1>4. CASE Client
  BY <1>1, <1>4, BeginCounts, EndsCount, OthersCount DEF Client
<1> QED
  BY <1>1, <1>3, <1>4, ChildrenCount, EndsCount, OthersCount DEF Next

-----------------------------------------------------------------------------
(* The theorem *)

\* Over approach, row drive and fallback together, a process sends or gives up no more
\* goals than its tasks' segments allow with max_attempts_per_segment + 1 attempts each,
\* one more than the task core's option grants.
THEOREM RetriesAreBounded == Spec /\ PatientClient => [](DispatchesBounded)
<1>1. Init => CountInv
  <2> SUFFICES ASSUME Init PROVE CountInv
    OBVIOUS
  <2>1. trk.gen = 0 /\ tasks = 0 /\ active = FALSE
    BY DEF Init, NewTracker, Quiescent
  <2>2. GoalsPerTask \in Nat
    BY SpentWithin
  <2>3. trk.gen <= tasks * GoalsPerTask
    BY <2>1, <2>2
  <2> QED
    BY <2>1, <2>3 DEF CountInv, DispatchesBounded, Executing
<1>2. CountInv => DispatchesBounded
  BY DEF CountInv
<1> QED
  BY <1>1, <1>2, CountStep, NodeInvHolds, PTL DEF Spec
=============================================================================
