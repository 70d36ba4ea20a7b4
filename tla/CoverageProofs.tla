--------------------------- MODULE CoverageProofs ---------------------------
(***************************************************************************)
(* Proofs about coverage tasks across restarts: that a segment counts as   *)
(* COVERED only where it was driven, and that a success has the coverage   *)
(* it claims behind it, for every map, plan, geometry and number of tasks  *)
(* and deaths.  Both follow from what every checkpoint vouches for, in the *)
(* files, in a running save and in the task in hand.  Then proofs about    *)
(* what the geometry computes: the goals the clamp sends the robot to, the *)
(* flood fill and the components, the masks made from them, and the cells  *)
(* that are marked along a way.                                            *)
(***************************************************************************)
EXTENDS CoverageProperties, FiniteSetTheorems, NaturalsInduction, WellFoundedInduction, TLAPS

Plans == {b.plan : b \in Planned}

\* What a checkpoint vouches for: it is of a named plan, what it calls COVERED was
\* driven in that plan, and what it counts as visited was swept on the plan's map.
Vouches(c, names, done, gone) ==
    /\ c.id \in DOMAIN names
    /\ DOMAIN c.disp = 1 .. Len(names[c.id][2])
    /\ c.counts \in [Cells -> Nat]
    /\ \A i \in DOMAIN c.disp : c.disp[i] = "COVERED" => <<c.id, i>> \in done
    /\ \A x \in Cells : c.counts[x] > 0 => <<names[c.id][1], x>> \in gone

Content(c) == c \in {NoFile, Torn} \/ Vouches(c, named, driven, swept)

NamesInv == latest_map_ \in Surveys /\ named \in Seq(Surveys \X Plans)

TaskInv ==
    /\ phase = "IDLE" => disp = << >>
    /\ phase # "IDLE" =>
          /\ Vouches(checkpoint, named, driven, swept)
          /\ named[plan_id_][1] = latest_map_
          /\ masks_.intended_target \subseteq Cells

StoreInvariant ==
    /\ DOMAIN file = Paths /\ \A p \in Paths : Content(file[p])
    /\ DOMAIN tmp = Paths /\ \A p \in Paths : Content(tmp[p])
    /\ stage # "idle" => Vouches(data, named, driven, swept)

\* A success was decided with enough coverage, which nothing changes until it is sent.
ResultInv ==
    phase = "TERMINAL" /\ result \in {"SUCCEEDED_FULL", "SUCCEEDED_WITH_EXEMPTIONS"} => Enough

MissionInv == NamesInv /\ TaskInv /\ StoreInvariant /\ ResultInv

-----------------------------------------------------------------------------
(* Lemmas *)

\* The fields of the checkpoint of the task in hand.
LEMMA CheckpointFields ==
    checkpoint.id = plan_id_ /\ checkpoint.disp = disp /\ checkpoint.counts = counts_
  BY DEF checkpoint

\* What a checkpoint vouches for stays true while names and ghosts only grow.
LEMMA VouchesStays ==
    ASSUME NEW c, NEW n, NEW d, NEW g, NEW n2, NEW d2, NEW g2, Vouches(c, n, d, g),
           DOMAIN n \subseteq DOMAIN n2, \A i \in DOMAIN n : n2[i] = n[i],
           d \subseteq d2, g \subseteq g2
    PROVE  Vouches(c, n2, d2, g2)
  BY DEF Vouches

\* The cells that are to be cleaned are cells of the map (build).
LEMMA TargetInCells == \A b \in Planned : b.masks.intended_target \subseteq Cells
<1>1. \A m, w : build(m, w).intended_target = classify(m)
  BY DEF build
<1>2. \A m : classify(m) \subseteq Cells
  BY DEF classify
<1>3. ASSUME NEW m, NEW s, NEW k
      PROVE  Brief(m, s, k).masks = k
  BY DEF Brief
<1> QED
  BY <1>1, <1>2, <1>3 DEF Planned

\* When the store and the ghosts are left alone or only grow, the store's invariant stays.
LEMMA StoreKept ==
    ASSUME StoreInvariant, UNCHANGED storeVars,
           DOMAIN named \subseteq DOMAIN named', \A i \in DOMAIN named : named'[i] = named[i],
           driven \subseteq driven', swept \subseteq swept'
    PROVE  StoreInvariant'
<1>1. \A c : Vouches(c, named, driven, swept) => Vouches(c, named', driven', swept')
  BY VouchesStays
<1> QED
  BY <1>1 DEF StoreInvariant, Content, storeVars

\* A save that is opened was given a checkpoint that vouches for what it says.
LEMMA SaveOpens ==
    ASSUME StoreInvariant, Vouches(checkpoint, named, driven, swept), Save,
           UNCHANGED <<named, driven, swept>>
    PROVE  StoreInvariant'
<1>1. data' = checkpoint /\ UNCHANGED file
  BY DEF Save, Open, OpenFails, Throw
<1>2. tmp' = [tmp EXCEPT ![plan_id_] = Torn] \/ tmp' = tmp
  BY DEF Save, Open, OpenFails
<1>3. DOMAIN tmp' = Paths /\ \A p \in Paths : Content(tmp[p]) /\ tmp'[p] \in {Torn, tmp[p]}
  BY <1>2 DEF StoreInvariant
<1>4. \A p \in Paths : Content(tmp'[p])
  BY <1>3 DEF Content
<1> QED
  BY <1>1, <1>3, <1>4 DEF StoreInvariant, Content

\* A running save moves only what vouches for what it says, or what is Torn.
LEMMA SaveMoves ==
    ASSUME StoreInvariant, SaveStep, UNCHANGED <<named, driven, swept>>
    PROVE  StoreInvariant'
<1>1. stage # "idle"
  BY DEF SaveStep, Write, WriteFails, Close, CloseLoses, Rename, RenameFails
<1>2. Vouches(data, named, driven, swept)
  BY <1>1 DEF StoreInvariant
<1>3. UNCHANGED data
  BY DEF SaveStep, Write, WriteFails, Close, CloseLoses, Rename, RenameFails
<1>4. CASE Close
  <2>1. DOMAIN tmp' = Paths /\ \A p \in Paths : tmp'[p] \in {data, tmp[p]}
    BY <1>4 DEF Close, StoreInvariant
  <2>2. \A p \in Paths : Content(tmp[p]) /\ Content(data)
    BY <1>2 DEF StoreInvariant, Content
  <2>3. \A p \in Paths : Content(tmp'[p])
    BY <2>1, <2>2
  <2> QED
    BY <1>2, <1>3, <1>4, <2>1, <2>3 DEF Close, StoreInvariant, Content
<1>5. CASE Rename
  <2>1. DOMAIN file' = Paths /\ \A p \in Paths : file'[p] \in {file[p], tmp[p]}
    BY <1>5 DEF Rename, StoreInvariant
  <2>2. DOMAIN tmp' = Paths /\ \A p \in Paths : tmp'[p] \in {NoFile, tmp[p]}
    BY <1>5 DEF Rename, StoreInvariant
  <2>3. \A p \in Paths : Content(file[p]) /\ Content(tmp[p]) /\ Content(NoFile)
    BY DEF StoreInvariant, Content
  <2>4. \A p \in Paths : Content(file'[p]) /\ Content(tmp'[p])
    BY <2>1, <2>2, <2>3
  <2> QED
    BY <1>2, <1>3, <1>5, <2>1, <2>2, <2>4 DEF StoreInvariant, Content
<1>6. CASE Write \/ WriteFails \/ CloseLoses \/ RenameFails
  BY <1>2, <1>3, <1>6
     DEF Write, WriteFails, CloseLoses, RenameFails, Throw, StoreInvariant, Content
<1> QED
  BY <1>4, <1>5, <1>6 DEF SaveStep

\* A save that ends or dies leaves the files as they are.
LEMMA SaveStops ==
    ASSUME StoreInvariant, SaveEnds \/ SaveDies, UNCHANGED <<named, driven, swept>>
    PROVE  StoreInvariant'
  BY DEF StoreInvariant, Content, SaveEnds, SaveDies

\* The name of an identity is its index among the names, with it appended when new.
LEMMA NamesGrow ==
    ASSUME named \in Seq(Surveys \X Plans), NEW id \in Surveys \X Plans,
           named' = IF NameOf(id) \in DOMAIN named THEN named ELSE Append(named, id)
    PROVE  /\ named' \in Seq(Surveys \X Plans)
           /\ NameOf(id) \in DOMAIN named' /\ named'[NameOf(id)] = id
           /\ DOMAIN named \subseteq DOMAIN named'
           /\ \A n \in DOMAIN named : named'[n] = named[n]
<1>1. CASE \E n \in DOMAIN named : named[n] = id
  <2>1. NameOf(id) \in DOMAIN named /\ named[NameOf(id)] = id
    BY <1>1 DEF NameOf
  <2> QED
    BY <2>1
<1>2. CASE ~\E n \in DOMAIN named : named[n] = id
  <2>1. NameOf(id) = Len(named) + 1
    BY <1>2 DEF NameOf
  <2>2. DOMAIN named = 1 .. Len(named) /\ Len(named) \in Nat
    OBVIOUS
  <2>3. NameOf(id) \notin DOMAIN named
    BY <2>1, <2>2
  <2>4. named' = Append(named, id)
    BY <2>3
  <2>5. /\ DOMAIN named' = 1 .. Len(named) + 1
        /\ named'[Len(named) + 1] = id /\ \A n \in 1 .. Len(named) : named'[n] = named[n]
    BY <2>2, <2>4
  <2> QED
    BY <2>1, <2>2, <2>4, <2>5
<1> QED
  BY <1>1, <1>2

\* A fresh core has nothing COVERED.
LEMMA FreshIsOpen ==
    ASSUME NEW p
    PROVE  /\ DOMAIN CoreOf(p)!FreshCore = 1 .. Len(p)
           /\ \A i \in 1 .. Len(p) : CoreOf(p)!FreshCore[i] = "PENDING"
  BY DEF CoreOf!FreshCore, CoreOf!Segs

\* What is COVERED after a checkpoint was taken over was COVERED in it.
LEMMA TakenOver ==
    ASSUME NEW p, NEW saved
    PROVE  LET d == CoreOf(p)!ApplyCheckpointDispositions(CoreOf(p)!FreshCore, saved)
           IN  /\ DOMAIN d = 1 .. Len(p)
               /\ \A i \in 1 .. Len(p) : d[i] = "COVERED" => saved[i] = "COVERED"
  BY DEF CoreOf!ApplyCheckpointDispositions, CoreOf!FreshCore, CoreOf!Segs

-----------------------------------------------------------------------------
(* The steps *)

\* The invariant holds when nothing has been planned yet.
LEMMA InitHolds == MissionInit => MissionInv
<1> SUFFICES ASSUME MissionInit PROVE MissionInv
  OBVIOUS
<1>1. NamesInv
  BY DEF MissionInit, NamesInv
<1>2. TaskInv
  BY DEF MissionInit, TaskInv, NoTask
<1>3. StoreInvariant
  BY DEF MissionInit, StoreInit, StoreInvariant, Content
<1>4. ResultInv
  BY DEF MissionInit, ResultInv
<1> QED
  BY <1>1, <1>2, <1>3, <1>4 DEF MissionInv

\* A task that starts: its plan has a name, and what it takes over from a checkpoint
\* of that name was vouched for.
LEMMA StartHolds ==
    ASSUME MissionInv, NEW s, NEW b \in Planned, b.map = latest_map_, NEW d, NEW c,
           StartTask(s, b.masks, b.plan, d, c),
           DOMAIN d = 1 .. Len(b.plan), c \in [Cells -> Nat],
           \A i \in DOMAIN d : d[i] = "COVERED" =>
               <<NameOf(<<latest_map_, b.plan>>), i>> \in driven,
           \A x \in Cells : c[x] > 0 => <<latest_map_, x>> \in swept
    PROVE  MissionInv'
<1> DEFINE id == <<latest_map_, b.plan>>
<1>1. id \in Surveys \X Plans /\ named \in Seq(Surveys \X Plans)
  BY DEF Plans, MissionInv, NamesInv
<1>2. /\ plan_id_' = NameOf(id) /\ disp' = d /\ counts_' = c /\ masks_' = b.masks
      /\ named' = IF NameOf(id) \in DOMAIN named THEN named ELSE Append(named, id)
      /\ phase' = "EXECUTING_SEGMENT"
      /\ UNCHANGED <<latest_map_, driven, swept, storeVars>>
  BY DEF StartTask
<1>3. /\ named' \in Seq(Surveys \X Plans)
      /\ NameOf(id) \in DOMAIN named' /\ named'[NameOf(id)] = id
      /\ DOMAIN named \subseteq DOMAIN named'
      /\ \A n \in DOMAIN named : named'[n] = named[n]
  BY <1>1, <1>2, NamesGrow
<1>4. NamesInv'
  BY <1>2, <1>3 DEF NamesInv, MissionInv
<1>5. checkpoint'.id = NameOf(id) /\ checkpoint'.disp = d /\ checkpoint'.counts = c
  BY <1>2 DEF checkpoint
<1>6. Vouches(checkpoint', named', driven', swept')
  <2>1. named'[checkpoint'.id] = id /\ id[1] = latest_map_ /\ id[2] = b.plan
    BY <1>3, <1>5
  <2>2. checkpoint'.id \in DOMAIN named'
    BY <1>3, <1>5
  <2>3. DOMAIN checkpoint'.disp = 1 .. Len(named'[checkpoint'.id][2])
    BY <1>5, <2>1
  <2>4. checkpoint'.counts \in [Cells -> Nat]
    BY <1>5
  <2>5. \A i \in DOMAIN checkpoint'.disp :
           checkpoint'.disp[i] = "COVERED" => <<checkpoint'.id, i>> \in driven'
    BY <1>2, <1>5
  <2>6. \A x \in Cells :
           checkpoint'.counts[x] > 0 => <<named'[checkpoint'.id][1], x>> \in swept'
    BY <1>2, <1>5, <2>1
  <2> QED
    BY <2>2, <2>3, <2>4, <2>5, <2>6 DEF Vouches
<1>7. TaskInv'
  BY <1>2, <1>3, <1>6, TargetInCells DEF TaskInv
<1>8. StoreInvariant'
  BY <1>2, <1>3, StoreKept DEF MissionInv
<1>9. ResultInv'
  BY <1>2 DEF ResultInv
<1> QED
  BY <1>4, <1>7, <1>8, <1>9 DEF MissionInv

\* A task that begins, from a checkpoint or afresh, keeps the invariant (beginTask).
LEMMA BeginHolds ==
    ASSUME MissionInv, NEW s \in Starts, NEW resume, Content(resume), BeginTask(s, resume)
    PROVE  MissionInv'
<1>1. ASSUME NEW why, Refuse(why) PROVE MissionInv'
  <2>1. UNCHANGED <<latest_map_, phase, named, driven, swept>> /\ UNCHANGED storeVars
        /\ UNCHANGED <<masks_, plan_id_, disp, counts_>>
    BY <1>1 DEF Refuse, taskVars
  <2>2. phase = "IDLE"
    BY DEF BeginTask
  <2>3. checkpoint' = checkpoint
    BY <2>1 DEF checkpoint
  <2>4. NamesInv' /\ TaskInv'
    BY <2>1, <2>3 DEF MissionInv, NamesInv, TaskInv
  <2>5. StoreInvariant'
    BY <2>1, StoreKept DEF MissionInv
  <2>6. ResultInv'
    BY <2>1, <2>2 DEF ResultInv
  <2> QED
    BY <2>4, <2>5, <2>6 DEF MissionInv
<1>2. ASSUME NEW b \in Planned, b.map = latest_map_, StartPlan(s, b.masks, b.plan, resume)
      PROVE  MissionInv'
  <2> DEFINE n == NameOf(<<latest_map_, b.plan>>)
             fresh == CoreOf(b.plan)!FreshCore
             kept == CoreOf(b.plan)!ApplyCheckpointDispositions(fresh, resume.disp)
             status == loadAndValidate(resume, n)
  <2>1. CASE (\E why : Refuse(why))
    BY <1>1, <2>1
  <2>2. CASE status = "OK" /\ StartTask(s, b.masks, b.plan, kept, resume.counts)
    <3>1. resume.id = n /\ resume \notin {NoFile, Torn}
      BY <2>2 DEF loadAndValidate
    <3>2. Vouches(resume, named, driven, swept)
      BY <3>1 DEF Content
    <3>3. n \in DOMAIN named
      BY <3>1, <3>2 DEF Vouches
    <3>4. named[n] = <<latest_map_, b.plan>>
      <4> DEFINE id == <<latest_map_, b.plan>>
      <4>1. CASE \E k \in DOMAIN named : named[k] = id
        BY <4>1 DEF NameOf
      <4>2. CASE ~\E k \in DOMAIN named : named[k] = id
        <5>1. n = Len(named) + 1
          BY <4>2 DEF NameOf
        <5>2. DOMAIN named = 1 .. Len(named) /\ Len(named) \in Nat
          BY DEF MissionInv, NamesInv
        <5> QED
          BY <3>3, <5>1, <5>2
      <4> QED
        BY <4>1, <4>2
    <3>5. DOMAIN kept = 1 .. Len(b.plan)
          /\ \A i \in 1 .. Len(b.plan) : kept[i] = "COVERED" => resume.disp[i] = "COVERED"
      BY TakenOver
    <3>6. DOMAIN resume.disp = 1 .. Len(b.plan)
      BY <3>1, <3>2, <3>4 DEF Vouches
    <3>7. \A i \in DOMAIN kept : kept[i] = "COVERED" => <<n, i>> \in driven
      BY <3>1, <3>2, <3>5, <3>6 DEF Vouches
    <3>8. resume.counts \in [Cells -> Nat]
          /\ \A x \in Cells : resume.counts[x] > 0 => <<latest_map_, x>> \in swept
      BY <3>1, <3>2, <3>4 DEF Vouches
    <3> HIDE DEF n, kept
    <3>9. n = NameOf(<<latest_map_, b.plan>>)
      BY DEF n
    <3> QED
      BY <1>2, <2>2, <3>5, <3>7, <3>8, <3>9, StartHolds
  <2>3. CASE StartTask(s, b.masks, b.plan, fresh, NoCounts)
    <3>1. DOMAIN fresh = 1 .. Len(b.plan) /\ \A i \in DOMAIN fresh : fresh[i] # "COVERED"
      BY FreshIsOpen
    <3>2. NoCounts \in [Cells -> Nat] /\ \A x \in Cells : ~(NoCounts[x] > 0)
      BY DEF NoCounts
    <3> HIDE DEF fresh
    <3> QED
      BY <1>2, <2>3, <3>1, <3>2, StartHolds
  <2>4. \/ \E why : Refuse(why)
        \/ status = "OK" /\ StartTask(s, b.masks, b.plan, kept, resume.counts)
        \/ StartTask(s, b.masks, b.plan, fresh, NoCounts)
    BY <1>2 DEF StartPlan
  <2> QED
    BY <2>1, <2>2, <2>3, <2>4
<1> QED
  BY <1>1, <1>2 DEF BeginTask

\* The checkpoint of the task in hand, after a step that leaves its name alone, still
\* vouches when what became COVERED was driven and what was counted was swept.
LEMMA TaskHolds ==
    ASSUME MissionInv, phase # "IDLE", phase' # "IDLE",
           UNCHANGED <<latest_map_, masks_, plan_id_, named>>,
           DOMAIN disp' = DOMAIN disp, counts_' \in [Cells -> Nat],
           driven \subseteq driven', swept \subseteq swept',
           \A i \in DOMAIN disp : disp'[i] = "COVERED" =>
               disp[i] = "COVERED" \/ <<plan_id_, i>> \in driven',
           \A x \in Cells : counts_'[x] > 0 =>
               counts_[x] > 0 \/ <<latest_map_, x>> \in swept'
    PROVE  NamesInv' /\ TaskInv'
<1>1. NamesInv'
  BY DEF NamesInv, MissionInv
<1>2. Vouches(checkpoint, named, driven, swept) /\ named[plan_id_][1] = latest_map_
      /\ masks_.intended_target \subseteq Cells
  BY DEF MissionInv, TaskInv
<1>3. /\ checkpoint.id = plan_id_ /\ checkpoint.disp = disp /\ checkpoint.counts = counts_
      /\ checkpoint'.id = plan_id_ /\ checkpoint'.disp = disp' /\ checkpoint'.counts = counts_'
  BY DEF checkpoint
<1>4. plan_id_ \in DOMAIN named /\ DOMAIN disp' = 1 .. Len(named[plan_id_][2])
  BY <1>2, <1>3 DEF Vouches
<1>5. \A i \in DOMAIN disp' : disp'[i] = "COVERED" => <<plan_id_, i>> \in driven'
  BY <1>2, <1>3 DEF Vouches
<1>6. \A x \in Cells : counts_'[x] > 0 => <<named[plan_id_][1], x>> \in swept'
  BY <1>2, <1>3 DEF Vouches
<1>7. Vouches(checkpoint', named', driven', swept')
  BY <1>3, <1>4, <1>5, <1>6 DEF Vouches
<1> QED
  BY <1>1, <1>2, <1>7 DEF TaskInv

\* So does a segment that ends (segmentDone, segmentFails).
LEMMA SegmentHolds ==
    ASSUME MissionInv, NEW i, NEW seg, SegmentDone(i, seg) \/ SegmentFails(i, seg)
    PROVE  MissionInv'
<1>1. /\ phase = "EXECUTING_SEGMENT" /\ phase' = phase
      /\ UNCHANGED <<latest_map_, masks_, plan_id_, named>> /\ UNCHANGED storeVars
  BY DEF SegmentDone, SegmentFails, Dispatch, Executing
<1>2. counts_ \in [Cells -> Nat]
  BY <1>1 DEF MissionInv, TaskInv, Vouches, checkpoint
<1>3. CASE SegmentDone(i, seg)
  <2>1. PICK marked : /\ counts_' = commitPass(counts_, marked)
                      /\ swept' = swept \cup {<<latest_map_, c>> : c \in marked}
    BY <1>3 DEF SegmentDone
  <2>2. counts_' \in [Cells -> Nat]
    BY <1>2, <2>1 DEF commitPass
  <2>3. \A x \in Cells : counts_'[x] > 0 => counts_[x] > 0 \/ <<latest_map_, x>> \in swept'
    BY <1>2, <2>1 DEF commitPass
  <2>4. disp' = [disp EXCEPT ![i] = "COVERED"] /\ driven' = driven \cup {<<plan_id_, i>>}
    BY <1>3 DEF SegmentDone, CoreOf!MarkCovered
  <2>5. swept \subseteq swept' /\ driven \subseteq driven'
    BY <2>1, <2>4
  <2>6. DOMAIN disp' = DOMAIN disp
    BY <2>4
  <2>7. \A k \in DOMAIN disp : disp'[k] = "COVERED" =>
            disp[k] = "COVERED" \/ <<plan_id_, k>> \in driven'
    BY <2>4
  <2>8. NamesInv' /\ TaskInv'
    BY <1>1, <2>2, <2>3, <2>5, <2>6, <2>7, TaskHolds
  <2>9. StoreInvariant'
    BY <1>1, <2>5, StoreKept DEF MissionInv
  <2> QED
    BY <1>1, <2>8, <2>9 DEF MissionInv, ResultInv
<1>4. CASE SegmentFails(i, seg)
  <2>1. /\ disp' = disp \/ disp' = [disp EXCEPT ![i] = "FAILED"]
        /\ UNCHANGED <<counts_, driven, swept>>
    BY <1>4 DEF SegmentFails, CoreOf!MarkFailed
  <2>2. DOMAIN disp' = DOMAIN disp
        /\ \A k \in DOMAIN disp : disp'[k] = "COVERED" => disp[k] = "COVERED"
    BY <2>1
  <2>3. NamesInv' /\ TaskInv'
    BY <1>1, <1>2, <2>1, <2>2, TaskHolds
  <2>4. StoreInvariant'
    BY <1>1, <2>1, StoreKept DEF MissionInv
  <2> QED
    BY <1>1, <2>3, <2>4 DEF MissionInv, ResultInv
<1> QED
  BY <1>3, <1>4

\* A success passes the gate with enough coverage only.
LEMMA SuccessIsEnough ==
    ASSUME MissionInv, Finish, result' \in {"SUCCEEDED_FULL", "SUCCEEDED_WITH_EXEMPTIONS"}
    PROVE  Enough
<1>1. PICK r : result' = CoreOf(plan_)!ResolveCoverageGate(r, Enough)
  BY DEF Finish
<1>2. CASE ~Enough
  <2>1. r \in {"SUCCEEDED_FULL", "SUCCEEDED_WITH_EXEMPTIONS"} => result' = "PARTIAL_FAILED"
    BY <1>1, <1>2, Zenon DEF CoreOf!ResolveCoverageGate, CoreOf!SuccessResults
  <2>2. r \notin {"SUCCEEDED_FULL", "SUCCEEDED_WITH_EXEMPTIONS"} => result' = r
    BY <1>1, Zenon DEF CoreOf!ResolveCoverageGate, CoreOf!SuccessResults
  <2> QED
    BY <2>1, <2>2
<1> QED
  BY <1>2

\* The end of a task, whichever: its checkpoint is given to the store as it stands.
LEMMA EndHolds ==
    ASSUME MissionInv, Finish \/ Stop
    PROVE  MissionInv'
<1>1. /\ phase = "EXECUTING_SEGMENT" /\ phase' = "TERMINAL" /\ Save
      /\ UNCHANGED <<latest_map_, named, driven, swept>>
      /\ UNCHANGED <<masks_, plan_id_, disp, counts_>>
  BY DEF Finish, Stop, Executing, taskVars
<1>2. counts_ \in [Cells -> Nat]
  BY <1>1 DEF MissionInv, TaskInv, Vouches, checkpoint
<1>3. NamesInv' /\ TaskInv'
  BY <1>1, <1>2, TaskHolds
<1>4. Vouches(checkpoint, named, driven, swept)
  BY <1>1 DEF MissionInv, TaskInv
<1>5. StoreInvariant'
  BY <1>1, <1>4, SaveOpens DEF MissionInv
<1>6. Enough' <=> Enough
  BY <1>1 DEF Enough, Visited, Effective
<1>7. Stop => result' = "CANCELLED"
  BY DEF Stop
<1>8. ResultInv'
  BY <1>6, <1>7, SuccessIsEnough DEF ResultInv
<1> QED
  BY <1>3, <1>5, <1>8 DEF MissionInv

\* So does a step of the save at the end of a task.
LEMMA SavingHolds ==
    ASSUME MissionInv, Saving
    PROVE  MissionInv'
<1>1. /\ phase = "TERMINAL" /\ UNCHANGED <<phase, result>> /\ SaveStep
      /\ UNCHANGED <<latest_map_, named, driven, swept>>
      /\ UNCHANGED <<masks_, plan_id_, disp, counts_>>
  BY DEF Saving, taskVars
<1>2. counts_ \in [Cells -> Nat]
  BY <1>1 DEF MissionInv, TaskInv, Vouches, checkpoint
<1>3. NamesInv' /\ TaskInv'
  BY <1>1, <1>2, TaskHolds
<1>4. StoreInvariant'
  BY <1>1, SaveMoves DEF MissionInv
<1>5. Enough' <=> Enough
  BY <1>1 DEF Enough, Visited, Effective
<1>6. ResultInv'
  BY <1>1, <1>5 DEF ResultInv, MissionInv
<1> QED
  BY <1>3, <1>4, <1>6 DEF MissionInv

\* After a task, or a death, nothing is left but the files and the names.
LEMMA DropHolds ==
    ASSUME MissionInv, DropTask, SaveEnds \/ SaveDies, latest_map_' \in Surveys,
           UNCHANGED <<named, driven, swept>>
    PROVE  MissionInv'
<1>1. NamesInv'
  BY DEF MissionInv, NamesInv
<1>2. TaskInv' /\ ResultInv'
  BY DEF DropTask, TaskInv, ResultInv
<1>3. StoreInvariant'
  BY SaveStops DEF MissionInv
<1> QED
  BY <1>1, <1>2, <1>3 DEF MissionInv

\* So does every step.
LEMMA NextHolds == MissionInv /\ [MissionNext]_missionVars => MissionInv'
<1> SUFFICES ASSUME MissionInv, [MissionNext]_missionVars PROVE MissionInv'
  OBVIOUS
<1>1. ASSUME NEW s \in Starts, NEW p \in Paths, BeginTask(s, file[p]) PROVE MissionInv'
  <2>1. Content(file[p])
    BY DEF MissionInv, StoreInvariant
  <2> QED
    BY <1>1, <2>1, BeginHolds
<1>2. CASE sendNextSegment
  BY <1>2, SegmentHolds DEF sendNextSegment
<1>3. CASE Finish \/ Stop
  BY <1>3, EndHolds
<1>4. CASE Saving
  BY <1>4, SavingHolds
<1>5. CASE FinishTask
  BY <1>5, DropHolds DEF FinishTask, MissionInv, NamesInv
<1>6. CASE Death
  BY <1>6, DropHolds, MissionAssumption DEF Death, MissionInv, NamesInv
<1>7. CASE UNCHANGED missionVars
  <2>1. /\ UNCHANGED <<latest_map_, phase, masks_, plan_id_, named, disp, counts_>>
        /\ UNCHANGED <<result, driven, swept>> /\ UNCHANGED storeVars
    BY <1>7 DEF missionVars
  <2>2. NamesInv'
    BY <2>1 DEF MissionInv, NamesInv
  <2>3. checkpoint' = checkpoint
    BY <2>1 DEF checkpoint
  <2>4. TaskInv'
    BY <2>1, <2>3 DEF MissionInv, TaskInv
  <2>5. StoreInvariant'
    BY <2>1, StoreKept DEF MissionInv
  <2>6. Enough' <=> Enough
    BY <2>1 DEF Enough, Visited, Effective
  <2>7. ResultInv'
    BY <2>1, <2>6 DEF MissionInv, ResultInv
  <2> QED
    BY <2>2, <2>4, <2>5, <2>7 DEF MissionInv
<1> QED
  BY <1>1, <1>2, <1>3, <1>4, <1>5, <1>6, <1>7 DEF MissionNext

\* MissionInv is an inductive invariant.
THEOREM MissionInvHolds == MissionSpec => []MissionInv
  BY InitHolds, NextHolds, PTL DEF MissionSpec

-----------------------------------------------------------------------------
(* What follows from it *)

\* In every life of the node a segment counts as COVERED only when it was driven to its
\* end in this very plan, whatever saves failed or were cut off in between.
THEOREM CoveredStaysTrue == MissionSpec => []CoveredWasDriven
<1>1. MissionInv => CoveredWasDriven
  BY DEF MissionInv, TaskInv, Vouches, checkpoint, CoveredWasDriven
<1> QED
  BY <1>1, MissionInvHolds, PTL

\* The grid is finite.
LEMMA CellsFinite == IsFiniteSet(Cells)
<1>1. IsFiniteSet(0 .. Rows - 1) /\ IsFiniteSet(0 .. Cols - 1)
  BY FS_Interval, GridAssumption
<1> QED
  BY <1>1, FS_Product DEF Cells

\* A reported success has min_effective_coverage really swept on this map.
THEOREM SuccessStaysTrue == MissionSpec => []SuccessIsSwept
<1>1. ASSUME MissionInv, phase = "TERMINAL",
             result \in {"SUCCEEDED_FULL", "SUCCEEDED_WITH_EXEMPTIONS"}
      PROVE  100 * Cardinality({c \in Effective(masks_) : <<latest_map_, c>> \in swept})
                 >= MinCoverage * Cardinality(Effective(masks_))
  <2> DEFINE eff == Effective(masks_)
             seen == Visited(counts_, eff)
             real == {c \in eff : <<latest_map_, c>> \in swept}
  <2>1. eff \subseteq Cells
    BY <1>1 DEF MissionInv, TaskInv, Effective
  <2>2. seen \subseteq real
    BY <1>1, <2>1 DEF MissionInv, TaskInv, Vouches, checkpoint, Visited
  <2>3. IsFiniteSet(eff)
    BY <2>1, CellsFinite, FS_Subset
  <2>4. IsFiniteSet(real)
    <3>1. real \subseteq eff
      OBVIOUS
    <3> QED
      BY <2>3, <3>1, FS_Subset
  <2>5. /\ IsFiniteSet(seen) /\ Cardinality(seen) <= Cardinality(real)
    BY <2>2, <2>4, FS_Subset
  <2>6. Cardinality(seen) \in Nat /\ Cardinality(real) \in Nat /\ Cardinality(eff) \in Nat
    BY <2>3, <2>4, <2>5, FS_CardinalityType
  <2>7. 100 * Cardinality(seen) >= MinCoverage * Cardinality(eff)
    BY <1>1 DEF MissionInv, ResultInv, Enough
  <2>8. MinCoverage * Cardinality(eff) \in Nat
    BY <2>6, MissionAssumption
  <2> HIDE DEF eff, seen, real
  <2>9. 100 * Cardinality(real) >= MinCoverage * Cardinality(eff)
    BY <2>5, <2>6, <2>7, <2>8
  <2> QED
    BY <2>9 DEF eff, real
<1>2. MissionInv => SuccessIsSwept
  BY <1>1 DEF SuccessIsSwept
<1> QED
  BY <1>2, MissionInvHolds, PTL

-----------------------------------------------------------------------------
(* The goal endpoint clamp *)

\* A set of naturals has a least element.
LEMMA LeastIs ==
    ASSUME NEW S, S \subseteq Nat, S # {}
    PROVE  Least(S) \in S /\ \A y \in S : Least(S) <= y
<1>1. \E x \in S : \A y \in S : ~ (<<y, x>> \in OpToRel(<, Nat))
  BY WFMin, NatLessThanWellFounded, Zenon
<1>2. \E x \in S : \A y \in S : ~ (y < x)
  BY <1>1, Zenon DEF OpToRel
<1>3. \E x \in S : \A y \in S : x <= y
  BY <1>2
<1> QED
  BY <1>3 DEF Least

\* A bounded set of naturals has a greatest one: the bound less the least distance to it.
LEMMA GreatestIs ==
    ASSUME NEW n \in Nat, NEW S, S \subseteq 0 .. n, S # {}
    PROVE  Greatest(S) \in S /\ \A y \in S : y <= Greatest(S)
<1> DEFINE below == {n - x : x \in S}
<1>1. below \subseteq Nat /\ below # {}
  <2>1. PICK y \in S : TRUE
    OBVIOUS
  <2>2. n - y \in below
    BY <2>1
  <2>3. \A x \in S : n - x \in Nat
    OBVIOUS
  <2> QED
    BY <2>2, <2>3
<1>2. PICK m \in below : \A y \in below : m <= y
  <2> HIDE DEF below
  <2> QED
    BY <1>1, LeastIs
<1>3. PICK x \in S : m = n - x
  BY <1>2
<1>4. \A y \in S : n - y \in below /\ m <= n - y
  BY <1>2
<1>5. \A y \in S : y <= x
  BY <1>3, <1>4
<1> QED
  BY <1>5 DEF Greatest

\* The centre of a cell is on it.
LEMMA CentreOnCell ==
    ASSUME NEW c \in Cells
    PROVE  /\ gridToWorld(c) \in Points
           /\ onMap(gridToWorld(c)) /\ worldToGridCell(gridToWorld(c)) = c
<1>1. PICK r \in 0 .. Rows - 1, k \in 0 .. Cols - 1 : c = <<r, k>>
  BY DEF Cells
<1>2. gridToWorld(c) = <<2 * r + 1, 2 * k + 1>>
  BY <1>1 DEF gridToWorld
<1>3. /\ 2 * r + 1 \in 0 .. 2 * Rows - 1 /\ 2 * k + 1 \in 0 .. 2 * Cols - 1
      /\ (2 * r + 1) \div 2 = r /\ (2 * k + 1) \div 2 = k
  BY GridAssumption
<1> QED
  BY <1>1, <1>2, <1>3 DEF Points, onMap, worldToGridCell

\* A squared distance is a natural number.
LEMMA Dist2Natural ==
    ASSUME NEW p \in Points, NEW q \in Points
    PROVE  Dist2(p, q) \in Nat
<1>1. \A x \in Int : x * x \in Nat
  <2> SUFFICES ASSUME NEW x \in Int PROVE x * x \in Nat
    OBVIOUS
  <2>1. CASE x >= 0
    BY <2>1
  <2>2. CASE x < 0
    <3>1. -x \in Nat /\ x * x = (-x) * (-x)
      BY <2>2
    <3> QED
      BY <3>1
  <2> QED
    BY <2>1, <2>2
<1>2. p[1] - q[1] \in Int /\ p[2] - q[2] \in Int
  BY DEF Points
<1>3. (p[1] - q[1]) * (p[1] - q[1]) \in Nat /\ (p[2] - q[2]) * (p[2] - q[2]) \in Nat
  BY <1>1, <1>2
<1> QED
  BY <1>3 DEF Dist2

\* The nearest centre is the centre of one of the cells, and none is nearer.
LEMMA NearestIs ==
    ASSUME NEW S \in SUBSET Cells, S # {}, NEW p \in Points
    PROVE  \E c \in S : /\ NearestCentre(S, p) = gridToWorld(c)
                        /\ \A e \in S : Dist2(gridToWorld(c), p) <= Dist2(gridToWorld(e), p)
<1> DEFINE gaps == {Dist2(gridToWorld(c), p) : c \in S}
           near == {c \in S : Dist2(gridToWorld(c), p) = Least(gaps)}
           row  == Least({c[1] : c \in near})
           here == {n \in near : n[1] = row}
           col  == Least({c[2] : c \in here})
<1>1. gaps \subseteq Nat /\ gaps # {}
  BY CentreOnCell, Dist2Natural
<1>2. Least(gaps) \in gaps /\ \A y \in gaps : Least(gaps) <= y
  <2> HIDE DEF gaps
  <2> QED
    BY <1>1, LeastIs
<1>3. near # {} /\ near \subseteq S
  BY <1>2
<1>4. \A c \in S : \E r, k \in Nat : c = <<r, k>>
  BY DEF Cells
<1>5. {c[1] : c \in near} \subseteq Nat /\ {c[1] : c \in near} # {}
  <2> HIDE DEF near
  <2> QED
    BY <1>3, <1>4
<1>6. row \in {c[1] : c \in near}
  <2> HIDE DEF near
  <2> QED
    BY <1>5, LeastIs
<1>7. here # {} /\ here \subseteq near
  <2> HIDE DEF near, row
  <2> QED
    BY <1>6
<1>8. {c[2] : c \in here} \subseteq Nat /\ {c[2] : c \in here} # {}
  <2> HIDE DEF here, near
  <2> QED
    BY <1>3, <1>4, <1>7
<1>9. col \in {c[2] : c \in here}
  <2> HIDE DEF here
  <2> QED
    BY <1>8, LeastIs
<1>10. PICK c \in here : c[2] = col
  <2> HIDE DEF here, col
  <2> QED
    BY <1>9
<1>11. c[1] = row /\ c \in S
  BY <1>3, <1>7, <1>10
<1>12. c = <<row, col>>
  <2> HIDE DEF here, near, row, col
  <2> QED
    BY <1>4, <1>10, <1>11
<1>13. NearestCentre(S, p) = gridToWorld(c)
  BY <1>12 DEF NearestCentre
<1>14. \A e \in S : Dist2(gridToWorld(c), p) <= Dist2(gridToWorld(e), p)
  <2>1. Dist2(gridToWorld(c), p) = Least(gaps)
    BY <1>7, <1>10
  <2>2. \A e \in S : Dist2(gridToWorld(e), p) \in gaps
    OBVIOUS
  <2> HIDE DEF gaps
  <2> QED
    BY <1>2, <2>1, <2>2
<1> QED
  BY <1>11, <1>13, <1>14

\* The rows (k = 1) or columns (k = 2) of a region are naturals, between the first and
\* the last of them.
LEMMA RegionLines ==
    ASSUME NEW mask \in SUBSET Cells, mask # {}, NEW k \in 1 .. 2
    PROVE  LET lines == {c[k] : c \in mask}
           IN  /\ Least(lines) \in Nat /\ Greatest(lines) \in Nat
               /\ \A c \in mask : c[k] \in Nat /\ Least(lines) <= c[k] /\ c[k] <= Greatest(lines)
<1> DEFINE lines == {c[k] : c \in mask}
           last == IF k = 1 THEN Rows - 1 ELSE Cols - 1
<1>1. last \in Nat
  BY GridAssumption
<1>2. \A c \in mask : c[k] \in 0 .. last
  BY DEF Cells
<1>3. lines \subseteq 0 .. last /\ lines # {} /\ \A c \in mask : c[k] \in lines
  BY <1>2
<1>4. /\ Least(lines) \in lines /\ \A y \in lines : Least(lines) <= y
      /\ Greatest(lines) \in lines /\ \A y \in lines : y <= Greatest(lines)
  <2> HIDE DEF lines, last
  <2>1. lines \subseteq Nat
    BY <1>1, <1>3
  <2> QED
    BY <1>1, <1>3, <2>1, LeastIs, GreatestIs
<1> HIDE DEF lines, last
<1>5. /\ Least(lines) \in Nat /\ Greatest(lines) \in Nat
      /\ \A c \in mask : c[k] \in Nat /\ Least(lines) <= c[k] /\ c[k] <= Greatest(lines)
  <2>1. lines \subseteq Nat
    BY <1>1, <1>3
  <2> QED
    BY <1>3, <1>4, <2>1
<1> QED
  BY <1>5 DEF lines

\* The window of a coordinate lies in the box, and the coordinate of a cell's centre,
\* which is never on the edge of the box, is moved exactly when it does not keep the inset.
LEMMA WindowKeepsInset ==
    ASSUME NEW mask \in SUBSET Cells, mask # {}, NEW k \in 1 .. 2
    PROVE  LET window == Window(mask, k)
               lo == 2 * Least({c[k] : c \in mask})
               hi == 2 * Greatest({c[k] : c \in mask}) + 2
               Kept(v) == hi - lo >= 2 * ClampInset => v - lo >= ClampInset /\ hi - v >= ClampInset
           IN  /\ window[1] \in Int /\ window[2] \in Int /\ window[1] <= window[2]
               /\ \A v \in Int : Into(v, window) = v => Kept(v)
               /\ \A c \in mask : Into(2 * c[k] + 1, window) = 2 * c[k] + 1
                                    <=> Kept(2 * c[k] + 1)
<1> DEFINE first == Least({c[k] : c \in mask})
           last == Greatest({c[k] : c \in mask})
           lo == 2 * first
           hi == 2 * last + 2
           window == Window(mask, k)
           Kept(v) == hi - lo >= 2 * ClampInset => v - lo >= ClampInset /\ hi - v >= ClampInset
<1>1. /\ first \in Nat /\ last \in Nat
      /\ \A c \in mask : c[k] \in Nat /\ first <= c[k] /\ c[k] <= last
  BY RegionLines
<1>2. window = IF hi - lo >= 2 * ClampInset THEN <<lo + ClampInset, hi - ClampInset>>
               ELSE <<lo, hi>>
  BY DEF Window
<1>3. PICK c \in mask : TRUE
  OBVIOUS
<1> HIDE DEF first, last, window
<1>4. first <= last
  BY <1>1, <1>3
<1>5. window[1] \in Int /\ window[2] \in Int /\ window[1] <= window[2]
  BY <1>1, <1>2, <1>4, ClampAssumption
<1>6. \A v \in Int : Into(v, window) = v <=> window[1] <= v /\ v <= window[2]
  BY <1>5 DEF Into
<1>7. \A v \in Int : Into(v, window) = v => Kept(v)
  BY <1>1, <1>2, <1>6, ClampAssumption
<1>8. \A e \in mask : Into(2 * e[k] + 1, window) = 2 * e[k] + 1 <=> Kept(2 * e[k] + 1)
  <2> SUFFICES ASSUME NEW e \in mask
               PROVE  Into(2 * e[k] + 1, window) = 2 * e[k] + 1 <=> Kept(2 * e[k] + 1)
    OBVIOUS
  <2>1. 2 * e[k] + 1 \in Int /\ lo <= 2 * e[k] + 1 /\ 2 * e[k] + 1 <= hi
    BY <1>1
  <2> QED
    BY <1>1, <1>2, <1>6, <2>1, ClampAssumption
<1> QED
  BY <1>5, <1>7, <1>8 DEF first, last, window

\* A point that is not moved into the box keeps the inset, and so does the centre of a
\* cell exactly when it is not moved.
LEMMA BoxKeepsInset ==
    ASSUME NEW mask \in SUBSET Cells, mask # {}
    PROVE  LET box == <<Window(mask, 1), Window(mask, 2)>>
           IN  /\ \A p \in Points : IntoBox(box, p) \in Points
               /\ \A p \in Points : IntoBox(box, p) = p => KeepsInset(mask, p)
               /\ \A c \in mask : IntoBox(box, gridToWorld(c)) = gridToWorld(c)
                                    <=> KeepsInset(mask, gridToWorld(c))
<1> DEFINE rows == Window(mask, 1)
           cols == Window(mask, 2)
           box  == <<rows, cols>>
           Kept(k, v) == LET lo == 2 * Least({c[k] : c \in mask})
                             hi == 2 * Greatest({c[k] : c \in mask}) + 2
                         IN  hi - lo >= 2 * ClampInset
                               => v - lo >= ClampInset /\ hi - v >= ClampInset
<1>1. \A p : KeepsInset(mask, p) <=> Kept(1, p[1]) /\ Kept(2, p[2])
  <2>1. 1 .. 2 = {1, 2}
    OBVIOUS
  <2> QED
    BY <2>1 DEF KeepsInset
<1>2. /\ rows[1] \in Int /\ rows[2] \in Int
      /\ \A v \in Int : Into(v, rows) = v => Kept(1, v)
      /\ \A c \in mask : Into(2 * c[1] + 1, rows) = 2 * c[1] + 1 <=> Kept(1, 2 * c[1] + 1)
  BY WindowKeepsInset
<1>3. /\ cols[1] \in Int /\ cols[2] \in Int
      /\ \A v \in Int : Into(v, cols) = v => Kept(2, v)
      /\ \A c \in mask : Into(2 * c[2] + 1, cols) = 2 * c[2] + 1 <=> Kept(2, 2 * c[2] + 1)
  BY WindowKeepsInset
<1> HIDE DEF rows, cols, Kept
<1>4. \A p : IntoBox(box, p) = <<Into(p[1], rows), Into(p[2], cols)>>
  BY DEF IntoBox
<1>5. \A v \in Int : Into(v, rows) \in Int /\ Into(v, cols) \in Int
  BY <1>2, <1>3 DEF Into
<1>6. \A p \in Points : p = <<p[1], p[2]>> /\ p[1] \in Int /\ p[2] \in Int
  BY DEF Points
<1>7. \A p \in Points : IntoBox(box, p) \in Points
  BY <1>4, <1>5, <1>6 DEF Points
<1>8. \A p \in Points : IntoBox(box, p) = p => KeepsInset(mask, p)
  BY <1>1, <1>2, <1>3, <1>4, <1>6
<1>9. \A c \in mask : IntoBox(box, gridToWorld(c)) = gridToWorld(c)
                        <=> KeepsInset(mask, gridToWorld(c))
  <2> SUFFICES ASSUME NEW c \in mask
               PROVE  IntoBox(box, gridToWorld(c)) = gridToWorld(c)
                        <=> KeepsInset(mask, gridToWorld(c))
    OBVIOUS
  <2> DEFINE y == 2 * c[1] + 1  x == 2 * c[2] + 1
  <2>1. gridToWorld(c) = <<y, x>>
    BY DEF gridToWorld
  <2>2. (Into(y, rows) = y <=> Kept(1, y)) /\ (Into(x, cols) = x <=> Kept(2, x))
    BY <1>2, <1>3
  <2> HIDE DEF y, x
  <2>3. IntoBox(box, <<y, x>>) = <<Into(y, rows), Into(x, cols)>>
    BY <1>4
  <2>4. KeepsInset(mask, <<y, x>>) <=> Kept(1, y) /\ Kept(2, x)
    BY <1>1
  <2> QED
    BY <2>1, <2>2, <2>3, <2>4
<1> QED
  BY <1>7, <1>8, <1>9 DEF rows, cols

\* The clamp, for every map and point: an endpoint is put on a cell of the region, and
\* where some cell of the region keeps the inset the endpoint keeps it too and is where a
\* second clamp, at the segment's next dispatch, leaves it (clampGoalEndpoint).
THEOREM ClampedGoalsSettle ==
    ASSUME NEW mask \in SUBSET Cells, mask # {}, NEW p \in Points
    PROVE  LET q == clampGoalEndpoint(mask, p)
           IN  /\ q \in Points /\ onValidCell(mask, q)
               /\ (\E c \in mask : KeepsInset(mask, gridToWorld(c)))
                     => KeepsInset(mask, q) /\ clampGoalEndpoint(mask, q) = q
<1> DEFINE box    == <<Window(mask, 1), Window(mask, 2)>>
           inside == Inside(mask, box)
           moved  == IntoBox(box, p)
           q      == clampGoalEndpoint(mask, p)
           room   == \E c \in mask : KeepsInset(mask, gridToWorld(c))
<1>1. \A r : clampGoalEndpoint(mask, r) =
                IF onValidCell(mask, r) /\ IntoBox(box, r) = r THEN r
                ELSE NearestCentre(IF inside # {} THEN inside ELSE mask, IntoBox(box, r))
  BY DEF clampGoalEndpoint
<1>2. /\ \A r \in Points : IntoBox(box, r) \in Points
      /\ \A r \in Points : IntoBox(box, r) = r => KeepsInset(mask, r)
      /\ \A c \in mask : IntoBox(box, gridToWorld(c)) = gridToWorld(c)
                           <=> KeepsInset(mask, gridToWorld(c))
  BY BoxKeepsInset
<1>3. inside = {c \in mask : IntoBox(box, gridToWorld(c)) = gridToWorld(c)}
  BY DEF Inside
<1>4. room <=> inside # {}
  BY <1>2, <1>3
<1> HIDE DEF box, inside, q, room
<1>5. CASE onValidCell(mask, p) /\ IntoBox(box, p) = p
  <2>1. q = p
    BY <1>1, <1>5 DEF q
  <2> QED
    BY <1>2, <1>5, <2>1 DEF q, room
<1>6. CASE ~ (onValidCell(mask, p) /\ IntoBox(box, p) = p)
  <2> DEFINE cells == IF inside # {} THEN inside ELSE mask
  <2>1. q = NearestCentre(cells, moved)
    BY <1>1, <1>6 DEF q
  <2>2. cells \in SUBSET Cells /\ cells # {} /\ cells \subseteq mask
    BY <1>3
  <2>3. moved \in Points
    BY <1>2
  <2>4. PICK c \in cells : q = gridToWorld(c)
    <3> HIDE DEF cells, moved
    <3> QED
      BY <2>1, <2>2, <2>3, NearestIs
  <2>5. c \in mask /\ q \in Points /\ onValidCell(mask, q)
    BY <2>2, <2>4, CentreOnCell DEF onValidCell
  <2>6. room => IntoBox(box, q) = q
    BY <1>3, <1>4, <2>4
  <2>7. room => KeepsInset(mask, q) /\ clampGoalEndpoint(mask, q) = q
    BY <1>1, <1>2, <2>5, <2>6
  <2> QED
    BY <2>5, <2>7 DEF q, room
<1> QED
  BY <1>5, <1>6

\* The clamp makes a segment of a segment.
LEMMA ClampedSegment ==
    ASSUME NEW mask \in SUBSET Cells, mask # {}, NEW seg \in Segments
    PROVE  /\ clampSegmentGoals(mask, seg) \in Segments
           /\ clampSegmentGoals(mask, seg).start = clampGoalEndpoint(mask, seg.start)
           /\ clampSegmentGoals(mask, seg).end = clampGoalEndpoint(mask, seg.end)
<1>1. seg.start \in Points /\ seg.end \in Points
  BY DEF Segments
<1>2. clampGoalEndpoint(mask, seg.start) \in Points /\ clampGoalEndpoint(mask, seg.end) \in Points
  BY <1>1, ClampedGoalsSettle
<1> QED
  BY <1>2 DEF Segments, clampSegmentGoals

-----------------------------------------------------------------------------
(* The flood fill *)

\* The set itself and the cells of src next to it.
Spread(src, k, set) == set \cup (src \cap UNION {Around(p, k) : p \in set})

\* What can be got to from a set: the least set around it that nothing leaves.
Reachable(src, k, from) ==
    {c \in src : \A T \in SUBSET src : from \subseteq T /\ Spread(src, k, T) = T => c \in T}

\* The sets of cells that can be got to from one another.
Regions(src, k) == {Reachable(src, k, {p}) : p \in src}

\* Spreading grows, and more from more.
LEMMA SpreadGrows ==
    ASSUME NEW src, NEW k, NEW S \in SUBSET src
    PROVE  /\ Spread(src, k, S) \in SUBSET src /\ S \subseteq Spread(src, k, S)
           /\ \A T \in SUBSET src : S \subseteq T => Spread(src, k, S) \subseteq Spread(src, k, T)
  BY DEF Spread

\* What can be got to is the set where it does not grow, and else what can be got to
\* from where it grows.
LEMMA ReachableStep ==
    ASSUME NEW src, NEW k, NEW S \in SUBSET src
    PROVE  Reachable(src, k, S) = IF Spread(src, k, S) = S THEN S
                                  ELSE Reachable(src, k, Spread(src, k, S))
<1>1. CASE Spread(src, k, S) = S
  BY <1>1 DEF Reachable
<1>2. \A T \in SUBSET src : Spread(src, k, T) = T =>
         (S \subseteq T <=> Spread(src, k, S) \subseteq T)
  BY SpreadGrows
<1>3. CASE Spread(src, k, S) # S
  BY <1>2, <1>3 DEF Reachable
<1> QED
  BY <1>1, <1>3

\* The flood fill finds exactly the cells that can be got to, whatever the grid, the
\* neighbourhood and the order in which it goes (connectedComponentFrom).
THEOREM FloodFillFindsReachable ==
    ASSUME NEW src, IsFiniteSet(src), NEW seed, NEW k
    PROVE  connectedComponentFrom(src, seed, k) = Reachable(src, k, {seed} \cap src)
<1> DEFINE spread[found \in SUBSET src] ==
               LET next == found \cup (src \cap UNION {Around(p, k) : p \in found})
               IN  IF next = found THEN found ELSE spread[next]
           Fill(f) == f = [found \in SUBSET src |->
                             IF Spread(src, k, found) = found THEN found
                             ELSE f[Spread(src, k, found)]]
           fill == [found \in SUBSET src |-> Reachable(src, k, found)]
<1>1. connectedComponentFrom(src, seed, k) = spread[{seed} \cap src]
  BY DEF connectedComponentFrom
<1>2. spread = CHOOSE f : Fill(f)
  BY DEF Spread
<1>3. Fill(fill)
  BY SpreadGrows, ReachableStep
<1>4. Fill(spread)
  <2> HIDE DEF Fill, fill, spread
  <2> QED
    BY <1>2, <1>3
<1>5. \A S \in SUBSET src : spread[S] = IF Spread(src, k, S) = S THEN S
                                          ELSE spread[Spread(src, k, S)]
  <2> HIDE DEF spread
  <2> QED
    BY <1>4
<1> HIDE DEF spread
<1> DEFINE bad == {S \in SUBSET src : spread[S] # Reachable(src, k, S)}
           sizes == {Cardinality(src \ S) : S \in bad}
<1>6. ASSUME bad # {} PROVE FALSE
  <2>1. sizes \subseteq Nat /\ sizes # {}
    <3>1. \A S \in SUBSET src : Cardinality(src \ S) \in Nat
      <4>1. \A S \in SUBSET src : src \ S \in SUBSET src
        OBVIOUS
      <4> QED
        BY <4>1, FS_Subset, FS_CardinalityType
    <3>2. PICK S \in bad : TRUE
      BY <1>6
    <3>3. Cardinality(src \ S) \in sizes
      OBVIOUS
    <3> QED
      BY <3>1, <3>3
  <2>2. PICK S \in bad : \A T \in bad : Cardinality(src \ S) <= Cardinality(src \ T)
    <3>1. Least(sizes) \in sizes /\ \A y \in sizes : Least(sizes) <= y
      BY <2>1, LeastIs
    <3> QED
      BY <3>1
  <2> DEFINE T == Spread(src, k, S)
  <2>3. S \in SUBSET src /\ T \in SUBSET src /\ S \subseteq T
    BY SpreadGrows
  <2>4. T # S
    BY <1>5, <2>3, ReachableStep
  <2>5. T \notin bad
    <3>1. IsFiniteSet(src \ S) /\ src \ T \subseteq src \ S /\ src \ T # src \ S
      BY <2>3, <2>4, FS_Subset
    <3>2. Cardinality(src \ T) < Cardinality(src \ S)
      BY <3>1, FS_Subset, FS_CardinalityType
    <3>3. Cardinality(src \ T) \in Nat /\ Cardinality(src \ S) \in Nat
      BY <3>1, FS_Subset, FS_CardinalityType
    <3> QED
      BY <2>2, <3>2, <3>3
  <2>6. spread[S] = spread[T] /\ Reachable(src, k, S) = Reachable(src, k, T)
    BY <1>5, <2>3, <2>4, ReachableStep
  <2> QED
    BY <2>3, <2>5, <2>6
<1>7. spread[{seed} \cap src] = Reachable(src, k, {seed} \cap src)
  BY <1>6
<1> QED
  BY <1>1, <1>7

\* Neighbourhoods are mutual.
LEMMA AroundIsMutual ==
    ASSUME NEW k, NEW p \in Cells, NEW q \in Around(p, k)
    PROVE  p \in Around(q, k)
<1> DEFINE steps == ToSet(makeNeighbourhood(k))
<1>1. steps = IF k = 4 THEN { <<-1, 0>>, <<1, 0>>, <<0, -1>>, <<0, 1>> }
              ELSE { <<-1, -1>>, <<-1, 0>>, <<-1, 1>>, <<0, -1>>, <<0, 1>>,
                     <<1, -1>>, <<1, 0>>, <<1, 1>> }
  <2>1. CASE k = 4
    BY <2>1 DEF makeNeighbourhood, ToSet
  <2>2. CASE k # 4
    BY <2>2 DEF makeNeighbourhood, ToSet
  <2> QED
    BY <2>1, <2>2
<1>2. \A d \in steps : d[1] \in Int /\ d[2] \in Int /\ <<-d[1], -d[2]>> \in steps
  <2> HIDE DEF steps
  <2>1. CASE k = 4
    BY <1>1, <2>1
  <2>2. CASE k # 4
    BY <1>1, <2>2
  <2> QED
    BY <2>1, <2>2
<1>3. \A x : Around(x, k) = {Shift(x, d) : d \in steps} \cap Cells
  BY DEF Around
<1>4. PICK d \in steps : q = Shift(p, d)
  BY <1>3
<1> HIDE DEF steps
<1>5. PICK r \in Int, c \in Int : p = <<r, c>>
  BY DEF Cells
<1>6. p = Shift(q, <<-d[1], -d[2]>>)
  <2>1. PICK a \in Int, b \in Int : a = d[1] /\ b = d[2]
    BY <1>2, <1>4
  <2>2. q = <<r + a, c + b>>
    BY <1>4, <1>5, <2>1 DEF Shift
  <2>3. Shift(q, <<-a, -b>>) = <<(r + a) + (-a), (c + b) + (-b)>>
    BY <2>2 DEF Shift
  <2>4. (r + a) + (-a) = r /\ (c + b) + (-b) = c
    OBVIOUS
  <2> QED
    BY <1>5, <2>1, <2>3, <2>4
<1>7. p \in {Shift(q, e) : e \in steps}
  BY <1>2, <1>6
<1> QED
  BY <1>3, <1>7

\* What can be got to from a cell holds the cell, is left by nothing, and so is the rest.
LEMMA ReachableIsClosed ==
    ASSUME NEW src \in SUBSET Cells, NEW k, NEW p \in src
    PROVE  LET all == Reachable(src, k, {p})
           IN  /\ p \in all /\ all \in SUBSET src
               /\ Spread(src, k, all) = all /\ Spread(src, k, src \ all) = src \ all
<1> DEFINE all == Reachable(src, k, {p})
<1>1. p \in all /\ all \in SUBSET src
  BY DEF Reachable
<1>2. ASSUME NEW q \in all, NEW x \in src, x \in Around(q, k) PROVE x \in all
  <2>1. ASSUME NEW T \in SUBSET src, {p} \subseteq T, Spread(src, k, T) = T PROVE x \in T
    BY <1>2, <2>1 DEF Reachable, Spread
  <2> QED
    BY <2>1 DEF Reachable
<1> HIDE DEF all
<1>3. Spread(src, k, all) = all
  BY <1>1, <1>2 DEF Spread
<1>4. ASSUME NEW q \in src \ all, NEW x \in src, x \in Around(q, k) PROVE x \in src \ all
  BY <1>2, <1>4, AroundIsMutual
<1>5. Spread(src, k, src \ all) = src \ all
  BY <1>4 DEF Spread
<1> QED
  BY <1>1, <1>3, <1>5 DEF all

\* The cells that can be got to from one another can be got to from the same cells.
LEMMA ReachableIsShared ==
    ASSUME NEW src \in SUBSET Cells, NEW k, NEW p \in src, NEW q \in Reachable(src, k, {p})
    PROVE  Reachable(src, k, {q}) = Reachable(src, k, {p})
<1> DEFINE of(x) == Reachable(src, k, {x})
<1>1. \A x \in src : /\ x \in of(x) /\ of(x) \in SUBSET src
                     /\ Spread(src, k, of(x)) = of(x) /\ Spread(src, k, src \ of(x)) = src \ of(x)
  BY ReachableIsClosed
<1>2. \A x \in src : \A T \in SUBSET src : x \in T /\ Spread(src, k, T) = T => of(x) \subseteq T
  BY DEF Reachable
<1> HIDE DEF of
<1>3. q \in src /\ q \in of(p)
  BY <1>1 DEF of
<1>4. of(q) \subseteq of(p)
  BY <1>1, <1>2, <1>3
<1>5. p \in of(q)
  <2>1. src \ of(q) \in SUBSET src
    OBVIOUS
  <2> QED
    BY <1>1, <1>2, <1>3, <2>1
<1>6. of(p) \subseteq of(q)
  BY <1>1, <1>2, <1>3, <1>5
<1> QED
  BY <1>4, <1>6 DEF of

\* Where nothing leaves a part of src, what can be got to is the same in it and in src.
LEMMA ReachableInPart ==
    ASSUME NEW src \in SUBSET Cells, NEW k, NEW part \in SUBSET src,
           Spread(src, k, part) = part, NEW p \in part
    PROVE  Reachable(part, k, {p}) = Reachable(src, k, {p})
<1>1. \A T \in SUBSET part : Spread(part, k, T) = Spread(src, k, T)
  BY DEF Spread
<1>2. \A T \in SUBSET src : Spread(src, k, T) = T => Spread(src, k, T \cap part) = T \cap part
  BY DEF Spread
<1>3. Reachable(src, k, {p}) \subseteq part
  BY DEF Reachable
<1>4. ASSUME NEW c \in Reachable(part, k, {p}), NEW T \in SUBSET src, {p} \subseteq T,
             Spread(src, k, T) = T
      PROVE  c \in T
  <2>1. T \cap part \in SUBSET part /\ {p} \subseteq T \cap part
    BY <1>4
  <2>2. Spread(part, k, T \cap part) = T \cap part
    BY <1>1, <1>2, <1>4, <2>1
  <2> QED
    BY <1>4, <2>1, <2>2 DEF Reachable
<1>5. ASSUME NEW c \in Reachable(src, k, {p}), NEW T \in SUBSET part, {p} \subseteq T,
             Spread(part, k, T) = T
      PROVE  c \in T
  BY <1>1, <1>5 DEF Reachable
<1> QED
  BY <1>3, <1>4, <1>5 DEF Reachable

\* The components of a region, without the one that was found first, are those of what
\* the first leaves.
LEMMA ComponentsStep ==
    ASSUME NEW src \in SUBSET Cells, NEW k, NEW p \in src
    PROVE  LET found == Reachable(src, k, {p})
           IN  Regions(src, k) = {found} \cup Regions(src \ found, k)
<1> DEFINE found == Reachable(src, k, {p})
<1>1. p \in found /\ found \in SUBSET src /\ Spread(src, k, src \ found) = src \ found
  BY ReachableIsClosed
<1>2. \A q \in found : Reachable(src, k, {q}) = found
  BY ReachableIsShared
<1>3. \A q \in src \ found : Reachable(src \ found, k, {q}) = Reachable(src, k, {q})
  <2> HIDE DEF found
  <2>1. src \ found \in SUBSET src
    OBVIOUS
  <2> QED
    BY <1>1, <2>1, ReachableInPart
<1> HIDE DEF found
<1> QED
  BY <1>1, <1>2, <1>3 DEF found, Regions

\* The components found one after the other are exactly the sets of cells that can be got
\* to from one another, whatever cell each search starts from.
THEOREM ComponentsAreExact ==
    ASSUME NEW src \in SUBSET Cells, IsFiniteSet(src), NEW k
    PROVE  Components(src, k) = Regions(src, k)
<1> DEFINE First(rest) == Reachable(rest, k, {CHOOSE p \in rest : TRUE})
           split[rest \in SUBSET src] ==
               IF rest = {} THEN {}
               ELSE LET found == connectedComponentFrom(rest, CHOOSE p \in rest : TRUE, k)
                    IN  {found} \cup split[rest \ found]
           Split(f) == f = [rest \in SUBSET src |->
                              IF rest = {} THEN {} ELSE {First(rest)} \cup f[rest \ First(rest)]]
           parts == [rest \in SUBSET src |-> Regions(rest, k)]
<1>1. Components(src, k) = split[src]
  BY DEF Components
<1>2. \A rest \in SUBSET src : rest # {} =>
         connectedComponentFrom(rest, CHOOSE p \in rest : TRUE, k) = First(rest)
  <2> SUFFICES ASSUME NEW rest \in SUBSET src, rest # {}
               PROVE  connectedComponentFrom(rest, CHOOSE p \in rest : TRUE, k) = First(rest)
    OBVIOUS
  <2>1. {CHOOSE p \in rest : TRUE} \cap rest = {CHOOSE p \in rest : TRUE}
    OBVIOUS
  <2>2. IsFiniteSet(rest)
    BY FS_Subset
  <2> QED
    BY <2>1, <2>2, FloodFillFindsReachable
<1>3. \A f : [rest \in SUBSET src |->
                IF rest = {} THEN {}
                ELSE LET found == connectedComponentFrom(rest, CHOOSE p \in rest : TRUE, k)
                     IN  {found} \cup f[rest \ found]]
             = [rest \in SUBSET src |->
                  IF rest = {} THEN {} ELSE {First(rest)} \cup f[rest \ First(rest)]]
  <2> HIDE DEF First
  <2> QED
    BY <1>2
<1>4. split = CHOOSE f : Split(f)
  <2> HIDE DEF First
  <2> QED
    BY <1>3
<1>5. \A rest \in SUBSET src : rest # {} =>
         /\ First(rest) \in SUBSET rest /\ First(rest) # {}
         /\ Regions(rest, k) = {First(rest)} \cup Regions(rest \ First(rest), k)
  <2> SUFFICES ASSUME NEW rest \in SUBSET src, rest # {}
               PROVE  /\ First(rest) \in SUBSET rest /\ First(rest) # {}
                      /\ Regions(rest, k) = {First(rest)} \cup Regions(rest \ First(rest), k)
    OBVIOUS
  <2>1. PICK x \in rest : x = CHOOSE p \in rest : TRUE
    OBVIOUS
  <2> DEFINE first == Reachable(rest, k, {x})
  <2>2. First(rest) = first
    BY <2>1
  <2>3. rest \in SUBSET Cells
    OBVIOUS
  <2>4. first \in SUBSET rest /\ x \in first
    BY <2>3, ReachableIsClosed
  <2>5. Regions(rest, k) = {first} \cup Regions(rest \ first, k)
    BY <2>3, ComponentsStep
  <2> HIDE DEF First, first
  <2> QED
    BY <2>2, <2>4, <2>5
<1> HIDE DEF split, First
<1>6. Split(parts)
  <2>1. Regions({}, k) = {}
    BY DEF Regions
  <2>2. \A rest \in SUBSET src : rest \ First(rest) \in SUBSET src
    OBVIOUS
  <2> QED
    BY <1>5, <2>1, <2>2
<1>7. Split(split)
  <2> HIDE DEF Split, parts
  <2> QED
    BY <1>4, <1>6
<1>8. \A rest \in SUBSET src :
         split[rest] = IF rest = {} THEN {} ELSE {First(rest)} \cup split[rest \ First(rest)]
  BY <1>7
<1> DEFINE bad == {S \in SUBSET src : split[S] # Regions(S, k)}
           sizes == {Cardinality(S) : S \in bad}
<1>9. ASSUME bad # {} PROVE FALSE
  <2>1. sizes \subseteq Nat /\ sizes # {}
    <3>1. \A S \in SUBSET src : Cardinality(S) \in Nat
      BY FS_Subset, FS_CardinalityType
    <3>2. PICK S \in bad : TRUE
      BY <1>9
    <3>3. Cardinality(S) \in sizes
      OBVIOUS
    <3> QED
      BY <3>1, <3>3
  <2>2. PICK S \in bad : \A T \in bad : Cardinality(S) <= Cardinality(T)
    <3>1. Least(sizes) \in sizes /\ \A y \in sizes : Least(sizes) <= y
      BY <2>1, LeastIs
    <3> QED
      BY <3>1
  <2>3. S # {}
    <3>1. split[S] # Regions(S, k)
      OBVIOUS
    <3>2. split[{}] = {}
      <4>1. {} \in SUBSET src
        OBVIOUS
      <4> HIDE DEF bad
      <4> QED
        BY <1>8, <4>1, Zenon
    <3>3. Regions({}, k) = {}
      BY DEF Regions
    <3> HIDE DEF bad
    <3> QED
      BY <3>1, <3>2, <3>3
  <2> DEFINE T == S \ First(S)
  <2>4. T \in SUBSET S /\ T # S
    BY <1>5, <2>3
  <2>5. T \notin bad
    <3>1. IsFiniteSet(S)
      BY FS_Subset
    <3>2. Cardinality(T) < Cardinality(S)
      BY <2>4, <3>1, FS_Subset, FS_CardinalityType
    <3>3. Cardinality(T) \in Nat /\ Cardinality(S) \in Nat
      BY <2>4, <3>1, FS_Subset, FS_CardinalityType
    <3> QED
      BY <2>2, <3>2, <3>3
  <2>6. split[T] = Regions(T, k)
    BY <2>4, <2>5
  <2> QED
    BY <1>5, <1>8, <2>3, <2>6
<1>10. split[src] = Regions(src, k)
  BY <1>9
<1> QED
  BY <1>1, <1>10

-----------------------------------------------------------------------------
(* The masks *)

\* What is to be cleaned and what is exempt share out the free cells, and what is to be
\* cleaned is within the tool's reach of a cell that can be got to (build).
LEMMA BuildIsSound ==
    ASSUME NEW map, NEW s \in Cells
    PROVE  LET b == build(map, gridToWorld(s))
               home == connectedComponentFrom(b.navigable_center, s, Connectivity)
           IN  /\ b.reachable_cleanable \cup b.exempt = classify(map)
               /\ b.reachable_cleanable \cap b.exempt = {}
               /\ \A c \in b.reachable_cleanable :
                     \E h \in home : 4 * Dist2(c, h) <= ToolRadius * ToolRadius
<1> DEFINE b == build(map, gridToWorld(s))
           nav == erodeByDisc(classify(map), ClearanceRadius)
           home == connectedComponentFrom(nav, s, Connectivity)
           reach == classify(map) \cap dilateByDisc(home, ToolRadius)
<1>1. Home(nav, gridToWorld(s)) = home
  BY CentreOnCell DEF Home
<1>2. /\ b.navigable_center = nav /\ b.reachable_cleanable \subseteq reach
      /\ b.exempt = classify(map) \ b.reachable_cleanable
  BY <1>1 DEF build
<1>3. nav \subseteq Cells
  BY DEF erodeByDisc, classify
<1>4. home \subseteq Cells
  <2>1. IsFiniteSet(nav)
    BY <1>3, CellsFinite, FS_Subset
  <2> HIDE DEF nav
  <2>2. home = Reachable(nav, Connectivity, {s} \cap nav)
    BY <2>1, FloodFillFindsReachable
  <2> QED
    BY <1>3, <2>2 DEF Reachable
<1> HIDE DEF home
<1>5. ASSUME NEW c \in reach
      PROVE  \E h \in home : 4 * Dist2(c, h) <= ToolRadius * ToolRadius
  <2>1. PICK h \in home, d \in Disc(ToolRadius) : c = Shift(h, d)
    BY DEF dilateByDisc
  <2>2. PICK x \in Int, y \in Int : d = <<x, y>> /\ 4 * Dist2(d, <<0, 0>>) <= ToolRadius * ToolRadius
    <3>1. (ToolRadius + 1) \div 2 \in Int
      BY RobotAssumption
    <3> QED
      BY <3>1 DEF Disc
  <2>3. PICK r \in Int, k \in Int : h = <<r, k>>
    BY <1>4 DEF Cells
  <2>4. Dist2(d, <<0, 0>>) = (x - 0) * (x - 0) + (y - 0) * (y - 0)
    BY <2>2 DEF Dist2
  <2>5. Dist2(c, h) = ((r + x) - r) * ((r + x) - r) + ((k + y) - k) * ((k + y) - k)
    BY <2>1, <2>2, <2>3 DEF Dist2, Shift
  <2>6. (r + x) - r = x - 0 /\ (k + y) - k = y - 0
    OBVIOUS
  <2>7. Dist2(c, h) = Dist2(d, <<0, 0>>)
    BY <2>4, <2>5, <2>6
  <2> QED
    BY <2>2, <2>7
<1>6. b.reachable_cleanable \subseteq classify(map)
  BY <1>2
<1> HIDE DEF b, nav, reach
<1> QED
  BY <1>2, <1>5, <1>6 DEF b, home

\* The masks of a task are those of its map and of the cell it began in.
MasksInv == phase # "IDLE" => start_ \in Cells /\ masks_ = build(latest_map_, gridToWorld(start_))

\* A task that begins takes the masks of its map.
LEMMA MasksInvBegins ==
    ASSUME NEW s \in Starts, NEW resume, MasksInv, BeginTask(s, resume)
    PROVE  MasksInv'
<1>1. CASE \E why : Refuse(why)
  BY <1>1 DEF MasksInv, Refuse, taskVars
<1>2. ASSUME NEW b \in Planned, b.map = latest_map_, b.start = s
      PROVE  b.masks = build(latest_map_, gridToWorld(s))
  BY <1>2 DEF Planned, Brief
<1>3. ASSUME NEW b \in Planned, b.map = latest_map_, b.start = s, NEW d, NEW c,
             StartTask(s, b.masks, b.plan, d, c)
      PROVE  MasksInv'
  <2>1. start_' = s /\ masks_' = b.masks /\ UNCHANGED latest_map_ /\ s \in Cells
    BY <1>3, MissionAssumption DEF StartTask
  <2> QED
    BY <1>2, <1>3, <2>1 DEF MasksInv
<1>4. ASSUME NEW b \in Planned, b.map = latest_map_, b.start = s,
             StartPlan(s, b.masks, b.plan, resume)
      PROVE  MasksInv'
  BY <1>1, <1>3, <1>4 DEF StartPlan
<1> QED
  BY <1>1, <1>4 DEF BeginTask

\* The masks stay those of the map until the task ends.
LEMMA MasksInvHolds == MissionSpec => []MasksInv
<1>1. MissionInit => MasksInv
  BY DEF MissionInit, MasksInv
<1>2. MasksInv /\ [MissionNext]_missionVars => MasksInv'
  <2> SUFFICES ASSUME MasksInv, [MissionNext]_missionVars PROVE MasksInv'
    OBVIOUS
  <2>1. ASSUME NEW s \in Starts, NEW p \in Paths, BeginTask(s, file[p])
        PROVE  MasksInv'
    BY <2>1, MasksInvBegins
  <2>2. CASE sendNextSegment
    <3>1. phase = "EXECUTING_SEGMENT" /\ UNCHANGED <<phase, start_, masks_, latest_map_>>
      BY <2>2 DEF sendNextSegment, SegmentDone, SegmentFails, Dispatch, Executing
    <3> QED
      BY <3>1 DEF MasksInv
  <2>3. CASE Finish \/ Stop \/ Saving
    <3>1. UNCHANGED <<taskVars, latest_map_>>
      BY <2>3 DEF Finish, Stop, Saving
    <3>2. phase # "IDLE"
      BY <2>3 DEF Finish, Stop, Saving, Executing
    <3> QED
      BY <3>1, <3>2 DEF MasksInv, taskVars
  <2>4. CASE FinishTask \/ Death
    <3>1. phase' = "IDLE"
      BY <2>4 DEF FinishTask, Death, DropTask
    <3> QED
      BY <3>1 DEF MasksInv
  <2>5. CASE UNCHANGED missionVars
    BY <2>5 DEF MasksInv, missionVars
  <2> QED
    BY <2>1, <2>2, <2>3, <2>4, <2>5 DEF MissionNext
<1> QED
  BY <1>1, <1>2, PTL DEF MissionSpec

\* In every task the cells to be cleaned are in the tool's reach of where the robot can get
\* to without leaving the navigable cells, and what else is free is exempt.
THEOREM MasksStaySound == MissionSpec => []MasksSound
<1>1. MasksInv => MasksSound
  <2> SUFFICES ASSUME MasksInv, Begun PROVE MasksSound
    BY DEF MasksSound
  <2>1. start_ \in Cells /\ masks_ = build(latest_map_, gridToWorld(start_))
    BY DEF MasksInv, Begun
  <2> QED
    BY <2>1, BuildIsSound DEF MasksSound
<1> QED
  BY <1>1, MasksInvHolds, PTL

-----------------------------------------------------------------------------
(* The swept strip *)

\* A quotient is the number of times the divisor fits.
LEMMA Quotient ==
    ASSUME NEW x \in Nat, NEW m \in Nat \ {0}
    PROVE  x \div m \in Nat /\ m * (x \div m) <= x /\ x < m * (x \div m) + m
  OBVIOUS

\* A square is a natural number, and squares of naturals are in the order of the numbers.
LEMMA Squares ==
    /\ \A x \in Int : x * x \in Nat
    /\ \A x, y \in Nat : x * x <= y * y => x <= y
<1>1. \A x \in Int : x * x \in Nat
  <2> SUFFICES ASSUME NEW x \in Int PROVE x * x \in Nat
    OBVIOUS
  <2>1. CASE x >= 0
    BY <2>1
  <2>2. CASE x < 0
    <3>1. -x \in Nat /\ x * x = (-x) * (-x)
      BY <2>2
    <3> QED
      BY <3>1
  <2> QED
    BY <2>1, <2>2
<1>2. ASSUME NEW x \in Nat, NEW y \in Nat, x > y PROVE x * x > y * y
  <2>1. PICK k \in Nat : x = y + k /\ k > 0
    <3>1. x - y \in Nat /\ x = y + (x - y) /\ x - y > 0
      BY <1>2
    <3> QED
      BY <3>1
  <2>2. x * x = y * y + (2 * (y * k) + k * k)
    BY <2>1
  <2>3. y * k \in Nat /\ k * k > 0
    BY <2>1
  <2> QED
    BY <2>2, <2>3
<1> QED
  BY <1>1, <1>2

\* A square that is at most another bounds the number by the root of the other.
LEMMA RootBounds ==
    ASSUME NEW v \in Int, NEW w \in Nat, v * v <= w * w
    PROVE  -w <= v /\ v <= w
<1>1. CASE v >= 0
  BY <1>1, Squares
<1>2. CASE v < 0
  <2>1. -v \in Nat /\ (-v) * (-v) <= w * w
    BY <1>2
  <2>2. -v <= w
    BY <2>1, Squares
  <2> QED
    BY <1>2, <2>2
<1> QED
  BY <1>1, <1>2

\* The multiple of a positive number nearest to another, not above the middle.
LEMMA NearestMultiple ==
    ASSUME NEW x \in Nat, NEW m \in Nat \ {0}
    PROVE  \E i \in Nat : m * i <= x /\ x < m * i + m
  BY Quotient
\* A positive factor cancels.
LEMMA Cancel ==
    ASSUME NEW n \in Nat \ {0}, NEW x \in Int, NEW y \in Int
    PROVE  /\ n * x <= n * y => x <= y
           /\ n * x < n * y => x < y
<1>1. ASSUME NEW u \in Int, NEW w \in Int, u > w PROVE n * u > n * w
  <2>1. PICK k \in Nat : u = w + k /\ k > 0
    <3>1. u - w \in Nat /\ u = w + (u - w) /\ u - w > 0
      BY <1>1
    <3> QED
      BY <3>1
  <2>2. n * u = n * w + n * k /\ n * k > 0
    BY <2>1
  <2>3. n * u \in Int /\ n * w \in Int /\ n * k \in Int
    BY <2>1
  <2> QED
    BY <2>2, <2>3
<1>2. n * x \in Int /\ n * y \in Int
  OBVIOUS
<1> QED
  BY <1>1, <1>2

\* The square around the cell of a sample holds the cells whose centres are within reach.
LEMMA SquareHolds ==
    ASSUME NEW n \in Nat \ {0}, NEW R \in Nat, NEW c \in Int, NEW p \in Nat,
           -(n * R) <= n * (2 * c + 1) - p, n * (2 * c + 1) - p <= n * R
    PROVE  c \in (p \div (2 * n)) - ((R + 1) \div 2) .. (p \div (2 * n)) + ((R + 1) \div 2)
<1> DEFINE row == p \div (2 * n)
           k == (R + 1) \div 2
           t == row - c
<1>1. row \in Nat /\ (2 * n) * row <= p /\ p < (2 * n) * row + 2 * n
  <2>1. 2 * n \in Nat \ {0}
    OBVIOUS
  <2> HIDE DEF row
  <2>2. p \div (2 * n) \in Nat /\ (2 * n) * (p \div (2 * n)) <= p
            /\ p < (2 * n) * (p \div (2 * n)) + 2 * n
    BY <2>1, Quotient
  <2> QED
    BY <2>2 DEF row
<1>2. k \in Nat /\ 2 * k <= R + 1 /\ R + 1 < 2 * k + 2
  BY Quotient
<1>3. t \in Int /\ row = t + c
  BY <1>1
<1> HIDE DEF row, k, t
<1>4. (2 * n) * row = n * (2 * t) + n * (2 * c)
  BY <1>1, <1>3
<1>5. n * (2 * c + 1) = n * (2 * c) + n
  OBVIOUS
<1>6. n * (2 * t) \in Int /\ n * (2 * c) \in Int /\ n * R \in Int
  BY <1>3
<1>7. n * (2 * t) <= n + n * R
  BY <1>1, <1>4, <1>5, <1>6
<1>8. n * (2 * t) <= n * (R + 1)
  <2>1. n * (R + 1) = n + n * R
    OBVIOUS
  <2> QED
    BY <1>7, <2>1
<1>9. 2 * t <= R + 1
  BY <1>3, <1>8, Cancel
<1>10. n - n * R < n * (2 * t) + 2 * n
  BY <1>1, <1>4, <1>5, <1>6
<1>11. n * (1 - R) < n * (2 * t + 2)
  <2>1. n * (1 - R) = n - n * R /\ n * (2 * t + 2) = n * (2 * t) + 2 * n
    BY <1>3
  <2> QED
    BY <1>10, <2>1
<1>12. 1 - R < 2 * t + 2
  BY <1>3, <1>11, Cancel
<1>13. t <= k /\ -k <= t
  BY <1>2, <1>3, <1>9, <1>12
<1>14. c \in row - k .. row + k
  BY <1>1, <1>2, <1>3, <1>13
<1> QED
  BY <1>14 DEF row, k

\* The samples of a way between two points of the map are on the map.
LEMMA SampleOnMap ==
    ASSUME NEW n \in Nat \ {0}, NEW i \in 0 .. n, NEW M \in Nat \ {0},
           NEW a \in 0 .. 2 * M - 1, NEW b \in 0 .. 2 * M - 1
    PROVE  LET p == (n - i) * a + i * b
           IN  p \in Nat /\ p \div (2 * n) \in 0 .. M - 1
<1> DEFINE p == (n - i) * a + i * b
           row == p \div (2 * n)
<1>1. PICK j \in Nat : n = i + j /\ j = n - i
  OBVIOUS
<1>2. PICK s \in Nat : a + s = 2 * M - 1
  <2>1. 2 * M - 1 - a \in Nat /\ a + (2 * M - 1 - a) = 2 * M - 1
    OBVIOUS
  <2> QED
    BY <2>1
<1>3. PICK u \in Nat : b + u = 2 * M - 1
  <2>1. 2 * M - 1 - b \in Nat /\ b + (2 * M - 1 - b) = 2 * M - 1
    OBVIOUS
  <2> QED
    BY <2>1
<1>4. i \in Nat /\ a \in Nat /\ b \in Nat
  OBVIOUS
<1>5. j * a \in Nat /\ i * b \in Nat /\ j * s \in Nat /\ i * u \in Nat
  BY <1>1, <1>2, <1>3, <1>4
<1>6. p = j * a + i * b
  BY <1>1
<1>7. p \in Nat
  BY <1>5, <1>6
<1>8. n * (2 * M - 1) = (j * a + i * b) + (j * s + i * u)
  <2>1. n * (2 * M - 1) = j * (2 * M - 1) + i * (2 * M - 1)
    BY <1>1, <1>4
  <2>2. j * (2 * M - 1) = j * a + j * s
    BY <1>1, <1>2, <1>4
  <2>3. i * (2 * M - 1) = i * b + i * u
    BY <1>3, <1>4
  <2> QED
    BY <1>5, <2>1, <2>2, <2>3
<1>9. p <= n * (2 * M - 1)
  <2>1. j * s + i * u <= n * (2 * M - 1)
    BY <1>5, <1>8
  <2> QED
    BY <1>6, <2>1
<1>10. row \in Nat /\ (2 * n) * row <= p
  BY <1>7, Quotient
<1> HIDE DEF p, row
<1>11. n * (2 * row) <= n * (2 * M - 1)
  <2>1. (2 * n) * row = n * (2 * row) /\ n * (2 * row) \in Int /\ n * (2 * M - 1) \in Int
    BY <1>10
  <2> QED
    BY <1>7, <1>9, <1>10, <2>1
<1>12. 2 * row <= 2 * M - 1
  BY <1>10, <1>11, Cancel
<1>13. row \in 0 .. M - 1
  BY <1>10, <1>12
<1> QED
  BY <1>7, <1>13 DEF p, row
\* Multiplying keeps the order.
LEMMA Scales ==
    ASSUME NEW k \in Nat, NEW x \in Int, NEW y \in Int, x <= y
    PROVE  k * x <= k * y
<1>1. PICK w \in Nat : y = x + w
  <2>1. y - x \in Nat /\ y = x + (y - x)
    OBVIOUS
  <2> QED
    BY <2>1
<1>2. k * y = k * x + k * w /\ k * w \in Nat /\ k * x \in Int
  BY <1>1
<1> QED
  BY <1>2

\* The square of the length times that of another vector is the sum of the squares of
\* their two products.
LEMMA TwoProducts ==
    \A d1, d2, v1, v2 \in Int :
        (d1 * d1 + d2 * d2) * (v1 * v1 + v2 * v2)
            = (d1 * v1 + d2 * v2) * (d1 * v1 + d2 * v2)
                  + (d1 * v2 - d2 * v1) * (d1 * v2 - d2 * v1)
  OBVIOUS

\* Of n + 1 samples on the way d, with n at least its length, one is within the reach R
\* of a point beside it at r, when all is multiplied by n.
LEMMA SomeSampleIsNear ==
    ASSUME NEW d1 \in Int, NEW d2 \in Int, NEW r1 \in Int, NEW r2 \in Int,
           NEW D \in Nat \ {0}, D = d1 * d1 + d2 * d2,
           NEW dot \in 0 .. D, dot = d1 * r1 + d2 * r2,
           NEW cross \in Int, cross = d1 * r2 - d2 * r1,
           NEW R \in Nat, 4 * cross * cross <= (4 * R * R - 1) * D,
           NEW n \in Nat \ {0}, n * n >= D
    PROVE  \E i \in 0 .. n :
               (n * r1 - i * d1) * (n * r1 - i * d1) + (n * r2 - i * d2) * (n * r2 - i * d2)
                   <= n * n * R * R
<1>1. PICK i \in Nat : (2 * D) * i <= 2 * (n * dot) + D /\ 2 * (n * dot) + D < (2 * D) * i + 2 * D
  <2>1. n * dot \in Nat /\ 2 * D \in Nat \ {0}
    OBVIOUS
  <2>2. 2 * (n * dot) + D \in Nat
    BY <2>1
  <2> QED
    BY <2>1, <2>2, NearestMultiple
<1> DEFINE e == n * dot - i * D
           v1 == n * r1 - i * d1
           v2 == n * r2 - i * d2
           Q == v1 * v1 + v2 * v2
<1>2. n * dot \in Nat /\ i * D \in Nat /\ (2 * D) * i = 2 * (i * D)
  BY <1>1
<1>3. e \in Int /\ -D <= 2 * e /\ 2 * e <= D
  BY <1>1, <1>2
<1>4. i \in 0 .. n
  <2>1. n * dot <= n * D
    BY Scales
  <2>2. D * (2 * i) = (2 * D) * i /\ D * (2 * n + 1) = 2 * (n * D) + D /\ n * D \in Nat
    BY <1>1
  <2>3. D * (2 * i) <= D * (2 * n + 1)
    BY <1>1, <1>2, <2>1, <2>2
  <2>4. 2 * i <= 2 * n + 1
    BY <1>1, <2>3, Cancel
  <2> QED
    BY <1>1, <2>4
<1>5. v1 \in Int /\ v2 \in Int /\ Q \in Int
  BY <1>1
<1>6. d1 * v1 + d2 * v2 = e /\ d1 * v2 - d2 * v1 = n * cross
  <2>1. d1 * v1 = n * (d1 * r1) - i * (d1 * d1) /\ d2 * v2 = n * (d2 * r2) - i * (d2 * d2)
    BY <1>1
  <2>2. n * dot = n * (d1 * r1) + n * (d2 * r2) /\ i * D = i * (d1 * d1) + i * (d2 * d2)
    BY <1>1
  <2>3. d1 * v2 = n * (d1 * r2) - i * (d1 * d2) /\ d2 * v1 = n * (d2 * r1) - i * (d1 * d2)
    BY <1>1
  <2>4. n * cross = n * (d1 * r2) - n * (d2 * r1)
    OBVIOUS
  <2>5. /\ n * (d1 * r1) \in Int /\ n * (d2 * r2) \in Int /\ n * (d1 * r2) \in Int
        /\ n * (d2 * r1) \in Int /\ i * (d1 * d1) \in Int /\ i * (d2 * d2) \in Int
        /\ i * (d1 * d2) \in Int
    BY <1>1
  <2> HIDE DEF v1, v2
  <2> QED
    BY <2>1, <2>2, <2>3, <2>4, <2>5
<1>7. D * Q = e * e + (n * cross) * (n * cross)
  <2>1. (d1 * d1 + d2 * d2) * (v1 * v1 + v2 * v2)
            = (d1 * v1 + d2 * v2) * (d1 * v1 + d2 * v2)
                  + (d1 * v2 - d2 * v1) * (d1 * v2 - d2 * v1)
    <3> HIDE DEF v1, v2
    <3> QED
      BY <1>5, TwoProducts
  <2> HIDE DEF v1, v2, e
  <2> QED
    BY <1>6, <2>1
<1> HIDE DEF v1, v2, e, Q
<1>8. 4 * (e * e) <= D * D
  <2>1. PICK a \in Nat : D = 2 * e + a
    <3>1. D - 2 * e \in Nat /\ D = 2 * e + (D - 2 * e)
      BY <1>3
    <3> QED
      BY <3>1
  <2>2. PICK b \in Nat : D = b - 2 * e
    <3>1. D + 2 * e \in Nat /\ D = (D + 2 * e) - 2 * e
      BY <1>3
    <3> QED
      BY <3>1
  <2>3. D * D - 4 * (e * e) = (D - 2 * e) * (D + 2 * e)
    BY <1>3
  <2>4. (D - 2 * e) = a /\ (D + 2 * e) = b /\ a * b \in Nat
    BY <1>3, <2>1, <2>2
  <2>5. D * D \in Int /\ e * e \in Int /\ D * D - 4 * (e * e) = a * b
    BY <1>3, <2>3, <2>4
  <2> QED
    BY <2>4, <2>5
<1>9. 4 * ((n * cross) * (n * cross)) <= (n * n) * ((4 * R * R - 1) * D)
  <2>1. 4 * ((n * cross) * (n * cross)) = (n * n) * (4 * cross * cross)
    OBVIOUS
  <2>2. n * n \in Nat /\ 4 * cross * cross \in Int /\ (4 * R * R - 1) * D \in Int
    OBVIOUS
  <2>3. (n * n) * (4 * cross * cross) <= (n * n) * ((4 * R * R - 1) * D)
    BY <2>2, Scales
  <2> QED
    BY <2>1, <2>3
<1>10. D * D <= D * (n * n)
  BY Scales
<1>11. (n * n) * ((4 * R * R - 1) * D) = D * (4 * (n * n * R * R)) - D * (n * n)
  <2>1. (n * n) * ((4 * R * R - 1) * D) = D * ((n * n) * (4 * R * R - 1))
    OBVIOUS
  <2>2. (n * n) * (4 * R * R - 1) = 4 * (n * n * R * R) - n * n
    OBVIOUS
  <2>3. D * (4 * (n * n * R * R) - n * n) = D * (4 * (n * n * R * R)) - D * (n * n)
    OBVIOUS
  <2> QED
    BY <2>1, <2>2, <2>3
<1>12. D * (4 * Q) <= D * (4 * (n * n * R * R))
  <2>1. D * (4 * Q) = 4 * (e * e) + 4 * ((n * cross) * (n * cross))
    <3>1. D * (4 * Q) = 4 * (D * Q)
      BY <1>5
    <3>2. e * e \in Int /\ (n * cross) * (n * cross) \in Int
      BY <1>3
    <3> QED
      BY <1>7, <3>1, <3>2
  <2>2. /\ e * e \in Int /\ (n * cross) * (n * cross) \in Int /\ D * D \in Int
        /\ D * (n * n) \in Int /\ D * (4 * (n * n * R * R)) \in Int
    BY <1>3
  <2>3. \A a, b, c, f, g \in Int :
            4 * a <= c /\ 4 * b <= f - g /\ c <= g => 4 * a + 4 * b <= f
    OBVIOUS
  <2>4. 4 * ((n * cross) * (n * cross)) <= D * (4 * (n * n * R * R)) - D * (n * n)
    BY <1>9, <1>11
  <2>5. 4 * (e * e) + 4 * ((n * cross) * (n * cross)) <= D * (4 * (n * n * R * R))
    BY <1>8, <1>10, <2>2, <2>3, <2>4, Zenon
  <2> QED
    BY <2>1, <2>5
<1>13. 4 * Q <= 4 * (n * n * R * R)
  <2>1. 4 * Q \in Int /\ 4 * (n * n * R * R) \in Int
    BY <1>5
  <2> QED
    BY <1>12, <2>1, Cancel
<1>14. Q <= n * n * R * R
  <2>1. n * n * R * R \in Int
    OBVIOUS
  <2> QED
    BY <1>5, <1>13, <2>1
<1> QED
  BY <1>4, <1>14 DEF Q, v1, v2
\* There are as many steps as it takes to make none of them longer than one unit.
LEMMA StepsAre ==
    ASSUME NEW a \in Points, NEW b \in Points, onMap(a), onMap(b), a # b
    PROVE  /\ Dist2(a, b) \in Nat \ {0}
           /\ Steps(a, b) \in Nat \ {0} /\ Steps(a, b) * Steps(a, b) >= Dist2(a, b)
<1>1. PICK a1 \in 0 .. 2 * Rows - 1, a2 \in 0 .. 2 * Cols - 1,
           b1 \in 0 .. 2 * Rows - 1, b2 \in 0 .. 2 * Cols - 1 : a = <<a1, a2>> /\ b = <<b1, b2>>
  BY GridAssumption DEF onMap, Points
<1> DEFINE x == a1 - b1
           y == a2 - b2
           D == Dist2(a, b)
           W == 2 * (Rows + Cols)
<1>2. D = x * x + y * y
  BY <1>1 DEF Dist2
<1>3. x \in Int /\ y \in Int /\ W \in Nat
  BY GridAssumption
<1>4. D \in Nat
  BY <1>2, <1>3, Squares
<1>5. D # 0
  <2> SUFFICES ASSUME D = 0 PROVE FALSE
    OBVIOUS
  <2> HIDE DEF x, y, D
  <2>1. x * x \in Nat /\ y * y \in Nat
    BY <1>3, Squares
  <2>2. x * x = 0 /\ y * y = 0
    BY <1>2, <2>1
  <2>3. x = 0 /\ y = 0
    BY <1>3, <2>2
  <2> QED
    BY <1>1, <2>3 DEF x, y
<1>6. W * W >= D
  <2>1. PICK h \in Nat : Rows + Rows = h /\ -h <= x /\ x <= h
    BY <1>1, GridAssumption
  <2>2. PICK w \in Nat : Cols + Cols = w /\ -w <= y /\ y <= w
    BY <1>1, GridAssumption
  <2>3. W = h + w
    BY <2>1, <2>2, GridAssumption
  <2> HIDE DEF x, y, D, W
  <2>4. x * x <= h * h
    <3>1. x * x + (h - x) * (h + x) = h * h
      BY <1>3, <2>1
    <3>2. h - x \in Nat /\ h + x \in Nat /\ x * x \in Int /\ h * h \in Int
      BY <1>3, <2>1
    <3>3. \A u, v \in Nat : u * v \in Nat
      OBVIOUS
    <3>4. (h - x) * (h + x) \in Nat
      BY <3>2, <3>3, Zenon
    <3> QED
      BY <3>1, <3>2, <3>4
  <2>5. y * y <= w * w
    <3>1. y * y + (w - y) * (w + y) = w * w
      BY <1>3, <2>2
    <3>2. w - y \in Nat /\ w + y \in Nat /\ y * y \in Int /\ w * w \in Int
      BY <1>3, <2>2
    <3>3. \A u, v \in Nat : u * v \in Nat
      OBVIOUS
    <3>4. (w - y) * (w + y) \in Nat
      BY <3>2, <3>3, Zenon
    <3> QED
      BY <3>1, <3>2, <3>4
  <2>6. W * W = h * h + w * w + 2 * (h * w) /\ h * w \in Nat
    BY <2>3
  <2>7. x * x \in Int /\ y * y \in Int /\ h * h \in Int /\ w * w \in Int
    BY <1>3
  <2> QED
    BY <1>2, <2>4, <2>5, <2>6, <2>7
<1> HIDE DEF D, W
<1> DEFINE S == {k \in Nat : k * k >= D}
<1>7. W \in S
  BY <1>3, <1>6
<1>8. Least(S) \in S /\ \A k \in S : Least(S) <= k
  <2>1. S \subseteq Nat /\ S # {}
    BY <1>7
  <2> HIDE DEF S
  <2> QED
    BY <2>1, LeastIs
<1>9. PICK n \in Nat : n = Least(S) /\ n * n >= D /\ n <= W
  BY <1>3, <1>7, <1>8
<1>10. n # 0
  BY <1>4, <1>5, <1>9
<1>11. (n - 1) * (n - 1) < D
  <2>1. n - 1 \in Nat /\ ~ (n <= n - 1)
    BY <1>10
  <2>2. n - 1 \notin S
    BY <1>8, <1>9, <2>1
  <2>3. (n - 1) * (n - 1) \in Nat /\ ~ ((n - 1) * (n - 1) >= D)
    BY <2>1, <2>2
  <2> QED
    BY <1>4, <2>3
<1>12. \E k \in 1 .. W : k * k >= D /\ (k - 1) * (k - 1) < D
  BY <1>3, <1>9, <1>10, <1>11
<1>13. Steps(a, b) \in 1 .. W /\ Steps(a, b) * Steps(a, b) >= D
  BY <1>12 DEF Steps, D, W
<1> QED
  BY <1>3, <1>4, <1>5, <1>13 DEF D

\* A pass between any two poses on the map leaves no hole, however far they are apart: it
\* marks every cell beside the way, on the map of any size, for a tool of any radius
\* (addSweepSegment's samples half a cell apart).
THEOREM PassMarksBeside ==
    ASSUME NEW a \in Points, NEW b \in Points, onMap(a), onMap(b), a # b
    PROVE  Beside(a, b) \subseteq SweptCells(a, b)
<1> SUFFICES ASSUME NEW c \in Beside(a, b) PROVE c \in SweptCells(a, b)
  OBVIOUS
<1>1. PICK a1 \in 0 .. 2 * Rows - 1, a2 \in 0 .. 2 * Cols - 1,
           b1 \in 0 .. 2 * Rows - 1, b2 \in 0 .. 2 * Cols - 1 : a = <<a1, a2>> /\ b = <<b1, b2>>
  BY GridAssumption DEF onMap, Points
<1>2. c \in Cells
  BY DEF Beside
<1>3. PICK c1 \in 0 .. Rows - 1, c2 \in 0 .. Cols - 1 : c = <<c1, c2>>
  BY <1>2 DEF Cells
<1> DEFINE d1 == b1 - a1
           d2 == b2 - a2
           r1 == (2 * c1 + 1) - a1
           r2 == (2 * c2 + 1) - a2
           dot == d1 * r1 + d2 * r2
           cross == d1 * r2 - d2 * r1
           D == Dist2(a, b)
           n == Steps(a, b)
           R == ToolRadius
<1>4. /\ d1 \in Int /\ d2 \in Int /\ r1 \in Int /\ r2 \in Int /\ dot \in Int /\ cross \in Int
      /\ R \in Nat
  BY GridAssumption, RobotAssumption
<1>5. /\ D \in Nat \ {0} /\ n \in Nat \ {0} /\ n * n >= D
  BY StepsAre
<1>6. D = d1 * d1 + d2 * d2
  <2>1. D = (a1 - b1) * (a1 - b1) + (a2 - b2) * (a2 - b2)
    BY <1>1 DEF Dist2
  <2> QED
    BY <2>1
<1>7. dot \in 0 .. D /\ 4 * cross * cross <= (4 * R * R - 1) * D
  BY <1>1, <1>3 DEF Beside, gridToWorld
<1> HIDE DEF d1, d2, r1, r2, dot, cross, D, n, R
<1>8. PICK i \in 0 .. n :
          (n * r1 - i * d1) * (n * r1 - i * d1) + (n * r2 - i * d2) * (n * r2 - i * d2)
              <= n * n * R * R
  BY <1>4, <1>5, <1>6, <1>7, SomeSampleIsNear DEF dot, cross
<1> DEFINE p1 == (n - i) * a1 + i * b1
           p2 == (n - i) * a2 + i * b2
           v1 == n * (2 * c1 + 1) - p1
           v2 == n * (2 * c2 + 1) - p2
<1>9. n \in Nat \ {0} /\ i \in 0 .. n /\ i \in Int
  BY <1>5
<1>10. p1 \in Nat /\ p1 \div (2 * n) \in 0 .. Rows - 1
  BY <1>9, SampleOnMap, GridAssumption
<1>11. p2 \in Nat /\ p2 \div (2 * n) \in 0 .. Cols - 1
  BY <1>9, SampleOnMap, GridAssumption
<1>12. n * r1 - i * d1 = v1
  BY <1>9 DEF r1, d1
<1>13. n * r2 - i * d2 = v2
  BY <1>9 DEF r2, d2
<1>14. v1 \in Int /\ v2 \in Int
  BY <1>9, <1>10, <1>11
<1> HIDE DEF p1, p2, v1, v2
<1>15. v1 * v1 + v2 * v2 <= n * n * R * R
  BY <1>8, <1>12, <1>13
<1>16. n * R \in Nat /\ n * n * R * R = (n * R) * (n * R)
  BY <1>4, <1>9
<1>17. v1 * v1 <= (n * R) * (n * R) /\ v2 * v2 <= (n * R) * (n * R)
  <2>1. v1 * v1 \in Nat /\ v2 * v2 \in Nat /\ (n * R) * (n * R) \in Int
    BY <1>14, <1>16, Squares
  <2> QED
    BY <1>15, <1>16, <2>1
<1>18. -(n * R) <= v1 /\ v1 <= n * R
  <2> HIDE <1>15
  <2> QED
    BY <1>14, <1>16, <1>17, RootBounds
<1>19. -(n * R) <= v2 /\ v2 <= n * R
  BY <1>14, <1>16, <1>17, RootBounds
<1> DEFINE row == p1 \div (2 * n)
           col == p2 \div (2 * n)
           k == (R + 1) \div 2
<1>20. c1 \in row - k .. row + k
  <2>1. c1 \in Int /\ -(n * R) <= n * (2 * c1 + 1) - p1 /\ n * (2 * c1 + 1) - p1 <= n * R
    BY <1>18, GridAssumption DEF v1
  <2> HIDE DEF row, col, k
  <2>2. c1 \in (p1 \div (2 * n)) - ((R + 1) \div 2) .. (p1 \div (2 * n)) + ((R + 1) \div 2)
    BY <1>4, <1>9, <1>10, <2>1, SquareHolds
  <2> QED
    BY <2>2 DEF row, k
<1>21. c2 \in col - k .. col + k
  <2>1. c2 \in Int /\ -(n * R) <= n * (2 * c2 + 1) - p2 /\ n * (2 * c2 + 1) - p2 <= n * R
    BY <1>19, GridAssumption DEF v2
  <2> HIDE DEF row, col, k
  <2>2. c2 \in (p2 \div (2 * n)) - ((R + 1) \div 2) .. (p2 \div (2 * n)) + ((R + 1) \div 2)
    BY <1>4, <1>9, <1>11, <2>1, SquareHolds
  <2> QED
    BY <2>2 DEF col, k
<1>22. <<row, col>> \in Cells
  BY <1>10, <1>11 DEF Cells
<1>23. Sample(a, b, n, i) = <<p1, p2>>
  BY <1>1 DEF Sample, p1, p2
<1>24. Dist2(<<p1, p2>>, Scaled(n, gridToWorld(c))) <= n * n * R * R
  <2>1. Scaled(n, gridToWorld(c)) = <<n * (2 * c1 + 1), n * (2 * c2 + 1)>>
    BY <1>3 DEF Scaled, gridToWorld
  <2>2. Dist2(<<p1, p2>>, Scaled(n, gridToWorld(c)))
            = (p1 - n * (2 * c1 + 1)) * (p1 - n * (2 * c1 + 1))
                  + (p2 - n * (2 * c2 + 1)) * (p2 - n * (2 * c2 + 1))
    BY <2>1 DEF Dist2
  <2>3. p1 - n * (2 * c1 + 1) = -v1 /\ p2 - n * (2 * c2 + 1) = -v2
    BY <1>9, <1>10, <1>11 DEF v1, v2
  <2>4. (-v1) * (-v1) = v1 * v1 /\ (-v2) * (-v2) = v2 * v2
    BY <1>14
  <2> QED
    BY <1>15, <2>2, <2>3, <2>4
<1> HIDE DEF row, col, k
<1>25. c \in (row - k .. row + k) \X (col - k .. col + k)
  BY <1>3, <1>20, <1>21
<1>26. c[1] \in 0 .. Rows - 1 /\ c[2] \in 0 .. Cols - 1
  BY <1>3
<1>27. c \in stampDisc(<<p1, p2>>, n)
  <2>1. stampDisc(<<p1, p2>>, n) =
            {d \in (row - k .. row + k) \X (col - k .. col + k) :
                /\ d[1] \in 0 .. Rows - 1 /\ d[2] \in 0 .. Cols - 1
                /\ Dist2(<<p1, p2>>, Scaled(n, gridToWorld(d))) <= n * n * R * R}
    BY <1>22 DEF stampDisc, row, col, k, R
  <2> QED
    BY <1>24, <1>25, <1>26, <2>1
<1> QED
  BY <1>9, <1>23, <1>27 DEF SweptCells, n

\* So does a pass along two ways, one after the other.
LEMMA PathMarksBeside ==
    ASSUME NEW a \in Points, NEW m \in Points, NEW b \in Points,
           onMap(a), onMap(m), onMap(b), a # m, m # b
    PROVE  Beside(a, m) \cup Beside(m, b) \subseteq PathPass(<<a, m, b>>)
<1>1. Beside(a, m) \subseteq SweptCells(a, m) /\ Beside(m, b) \subseteq SweptCells(m, b)
  BY PassMarksBeside
<1> DEFINE path == <<a, m, b>>
<1>2. Len(path) = 3 /\ path[1] = a /\ path[2] = m /\ path[3] = b
  OBVIOUS
<1> HIDE DEF path
<1>3. 1 \in 1 .. Len(path) - 1 /\ 2 \in 1 .. Len(path) - 1
  BY <1>2
<1>4. SweptCells(path[1], path[1 + 1]) = SweptCells(a, m)
      /\ SweptCells(path[2], path[2 + 1]) = SweptCells(m, b)
  BY <1>2
<1>5. SweptCells(a, m) \cup SweptCells(m, b) \subseteq PathPass(path)
  BY <1>3, <1>4 DEF PathPass
<1> QED
  BY <1>1, <1>5 DEF path
=============================================================================
