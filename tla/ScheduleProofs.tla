--------------------------- MODULE ScheduleProofs ---------------------------
(***************************************************************************)
(* What TLAPS proves of Schedule, for any workspaces, issues and schedules, *)
(* and any number of faults: types, records of runs that are true, markers  *)
(* that are true, and no run before its schedule is due.                    *)
(***************************************************************************)
EXTENDS Schedule, SubsequencesProofs, FiniteSetTheorems, TLAPS

LEMMA Bounds == /\ Epoch \in Nat /\ MaxNow \in Nat /\ MaxEvents \in Nat /\ Lookback \in Nat
                /\ Epoch <= MaxNow
BY ScheduleAssumption

(* The next fire is a time or none. *)
LEMMA NextRunType ==
  ASSUME NEW i \in Issue, NEW after \in Int
  PROVE  ComputeNextRun(When[i], after) \in Int \cup {Never}
<1>1. When[i] \in Schedules
  BY ScheduleAssumption
<1>2. CASE When[i].kind = "at"
  <2>1. When[i].at \in Nat
    BY <1>1, <1>2 DEF Schedules
  <2>2. ComputeNextRun(When[i], after) \in {When[i].at, Never}
    BY <1>2 DEF ComputeNextRun
  <2>3. QED
    BY <2>1, <2>2
<1>3. CASE When[i].kind = "every"
  <2>1. When[i].every \in Nat
    BY <1>1, <1>3 DEF Schedules
  <2>2. ComputeNextRun(When[i], after) = after + When[i].every
    BY <1>3 DEF ComputeNextRun
  <2>3. QED
    BY <2>1, <2>2
<1>4. CASE When[i].kind = "cron"
  <2>1. When[i].cron \in SUBSET Nat
    BY <1>1, <1>4 DEF Schedules
  <2> DEFINE later == {t \in When[i].cron : t > after}
  <2>2. ComputeNextRun(When[i], after) = IF \E t \in When[i].cron : t > after
                                         THEN Min(later) ELSE Never
    BY <1>4 DEF ComputeNextRun
  <2>3. later # {} => Min(later) \in later
    BY <2>1, SmallestIndex
  <2>4. QED
    BY <2>1, <2>2, <2>3
<1>5. QED
  BY <1>1, <1>2, <1>3, <1>4 DEF Schedules

-----------------------------------------------------------------------------
(* Counting: one run more is one slot more, and fewer runs have fewer slots. *)
LEMMA SlotsGrow ==
  ASSUME NEW count \in [Runner -> Nat], NEW r \in Runner
  PROVE  Slots([count EXCEPT ![r] = @ + 1]) = Slots(count) \cup {<<r, count[r] + 1>>}
<1> DEFINE more == [count EXCEPT ![r] = @ + 1]
<1>1. more[r] = count[r] + 1 /\ \A x \in Runner : x # r => more[x] = count[x]
  OBVIOUS
<1>2. 1..(count[r] + 1) = (1..count[r]) \cup {count[r] + 1}
  OBVIOUS
<1>3. \A x \in Runner : {x} \X (1..more[x]) =
        IF x = r THEN ({x} \X (1..count[x])) \cup {<<r, count[r] + 1>>}
                 ELSE {x} \X (1..count[x])
  <2> SUFFICES ASSUME NEW x \in Runner
               PROVE  {x} \X (1..more[x]) =
                        IF x = r THEN ({x} \X (1..count[x])) \cup {<<r, count[r] + 1>>}
                                 ELSE {x} \X (1..count[x])
    OBVIOUS
  <2>1. CASE x = r
    BY <1>1, <1>2, <2>1
  <2>2. CASE x # r
    BY <1>1, <2>2
  <2>3. QED
    BY <2>1, <2>2
<1>4. QED
  BY <1>3 DEF Slots

LEMMA SlotsShrink ==
  ASSUME NEW less \in [Runner -> Nat], NEW count \in [Runner -> Nat],
         \A r \in Runner : less[r] <= count[r]
  PROVE  Slots(less) \subseteq Slots(count)
<1>1. \A r \in Runner : 1..less[r] \subseteq 1..count[r]
  OBVIOUS
<1>2. QED
  BY <1>1 DEF Slots

(* The records never need more slots than there are. *)
RunsFit == IsFiniteSet(Slots(running)) /\ Total(running) <= MAX_CONCURRENT_HEADLESS

LEMMA FewerRunsHold ==
  ASSUME RunsFit, running \in [Runner -> Nat], running' \in [Runner -> Nat],
         \A r \in Runner : running'[r] <= running[r]
  PROVE  RunsFit'
<1>1. Slots(running') \subseteq Slots(running)
  BY SlotsShrink
<1>2. IsFiniteSet(Slots(running')) /\ Total(running') <= Total(running)
      /\ Total(running) \in Nat /\ Total(running') \in Nat
  BY <1>1, FS_Subset, FS_CardinalityType DEF RunsFit, Total
<1>3. QED
  BY <1>2, ScheduleAssumption DEF RunsFit

LEMMA OneMoreRun ==
  ASSUME RunsFit, running \in [Runner -> Nat], HasCapacity, NEW r \in Runner,
         running' = [running EXCEPT ![r] = @ + 1]
  PROVE  RunsFit'
<1>1. Slots(running') = Slots(running) \cup {<<r, running[r] + 1>>}
  BY SlotsGrow
<1>2. IsFiniteSet(Slots(running)) /\ Total(running) \in Nat
  BY FS_CardinalityType DEF RunsFit, Total
<1>3. /\ IsFiniteSet(Slots(running'))
      /\ Cardinality(Slots(running')) \in {Total(running), Total(running) + 1}
  <2> DEFINE slot == <<r, running[r] + 1>>
  <2> HIDE DEF slot
  <2>1. Slots(running') = Slots(running) \cup {slot}
    BY <1>1 DEF slot
  <2>2. IsFiniteSet(Slots(running) \cup {slot})
        /\ Cardinality(Slots(running) \cup {slot}) \in {Cardinality(Slots(running)),
                                                        Cardinality(Slots(running)) + 1}
    BY <1>2, FS_AddElement
  <2>3. QED
    BY <2>1, <2>2 DEF Total
<1>4. MAX_CONCURRENT_HEADLESS \in Nat /\ Total(running) < MAX_CONCURRENT_HEADLESS
  BY ScheduleAssumption DEF HasCapacity
<1>5. Total(running') <= MAX_CONCURRENT_HEADLESS
  BY <1>2, <1>3, <1>4 DEF Total
<1>6. QED
  BY <1>3, <1>5 DEF RunsFit

(* Each restart, an event, leaves at most the cap of processes behind. *)
OrphansFit == orphans <= events * MAX_CONCURRENT_HEADLESS

CapInv == RunsFit /\ OrphansFit

LEMMA OneMore ==
  ASSUME NEW n \in Nat, NEW m \in Nat
  PROVE  n * m \in Nat /\ (n + 1) * m = n * m + m
OBVIOUS

-----------------------------------------------------------------------------
Stage == {"idle", "unread", "issues", "dispatch", "create", "mark"}

(* The workspaces that have recorded a run and not started it. *)
Creating(r) == {w \in Workspace : stage[w] = "create" /\ cur[w] = r}

(* A workspace works in a scan only, and on its own issues. *)
ScanShape ==
  /\ ~scanning => \A w \in Workspace : stage[w] = "idle"
  /\ \A w \in Workspace : todo[w] \subseteq {i \in Issue : Home[i] = w}

(* What a workspace is about to start was due by the scan's time and the     *)
(* markers, and still is: no other workspace sets the marker of its issue.   *)
FiringIsDue ==
  \A w \in Workspace : stage[w] \in {"dispatch", "create"} =>
    Home[cur[w]] = w /\ DueAfter(cur[w], markers[cur[w]], scanAt)

ScanInv == ScheduleTypeOK /\ ScanShape /\ FiringIsDue /\ MarkersTrue

ScheduleInv == ScanInv /\ NoZombies

LEMMA CreatingIsFinite ==
  \A r : IsFiniteSet(Creating(r)) /\ Cardinality(Creating(r)) \in Nat
<1> SUFFICES ASSUME NEW r PROVE IsFiniteSet(Creating(r)) /\ Cardinality(Creating(r)) \in Nat
  OBVIOUS
<1>1. Creating(r) \subseteq Workspace /\ IsFiniteSet(Workspace)
  BY ScheduleAssumption DEF Creating
<1>2. QED
  BY <1>1, FS_Subset, FS_CardinalityType

LEMMA ZombieDef == NoZombies <=> \A r \in Runner : running[r] = live[r] + Cardinality(Creating(r))
BY DEF NoZombies, Runner, Creating

LEMMA ZombiePrime ==
  NoZombies' <=> \A r \in Runner : running'[r] = live'[r] + Cardinality(Creating(r)')
BY DEF NoZombies, Runner, Creating

LEMMA CreatingPrime ==
  \A r : Creating(r)' = {w \in Workspace : stage'[w] = "create" /\ cur'[w] = r}
BY DEF Creating

(* A step that creates and starts nothing keeps the records true. *)
LEMMA SameRecords ==
  ASSUME NoZombies, UNCHANGED <<running, live>>,
         \A w \in Workspace : (stage'[w] = "create") = (stage[w] = "create"),
         \A w \in Workspace : stage[w] = "create" => cur'[w] = cur[w]
  PROVE  NoZombies'
<1>1. \A r \in Runner : Creating(r)' = Creating(r)
  BY CreatingPrime DEF Creating
<1>2. QED
  BY <1>1, ZombieDef DEF NoZombies, Runner, Creating

LEMMA CreateKeepsRecords ==
  ASSUME ScheduleTypeOK, NoZombies, NEW w \in Workspace, NEW i, i = cur[w], CreateRecord(w)
  PROVE  NoZombies'
<1>1. stage \in [Workspace -> Stage] /\ i \in Runner /\ stage[w] = "dispatch"
      /\ running \in [Runner -> Nat] /\ live \in [Runner -> Nat]
  BY DEF ScheduleTypeOK, CreateRecord, Runner, Stage
<1>2. Creating(i)' = Creating(i) \cup {w} /\ w \notin Creating(i)
  BY <1>1, CreatingPrime DEF CreateRecord, Creating
<1>3. \A r \in Runner : r # i => Creating(r)' = Creating(r)
  BY <1>1, CreatingPrime DEF CreateRecord, Creating
<1>4. Cardinality(Creating(i)') = Cardinality(Creating(i)) + 1
  BY <1>2, CreatingIsFinite, FS_AddElement
<1>5. running'[i] = running[i] + 1 /\ live' = live
      /\ \A r \in Runner : r # i => running'[r] = running[r]
  BY <1>1 DEF CreateRecord
<1>6. \A r \in Runner : running'[r] = live'[r] + Cardinality(Creating(r)')
  <2> SUFFICES ASSUME NEW r \in Runner
               PROVE  running'[r] = live'[r] + Cardinality(Creating(r)')
    OBVIOUS
  <2>1. running[r] = live[r] + Cardinality(Creating(r)) /\ live[r] \in Nat
        /\ Cardinality(Creating(r)) \in Nat
    BY <1>1, ZombieDef, CreatingIsFinite
  <2>2. CASE r = i
    BY <1>4, <1>5, <2>1, <2>2
  <2>3. CASE r # i
    BY <1>3, <1>5, <2>1, <2>3
  <2>4. QED
    BY <2>2, <2>3
<1>7. QED
  BY <1>6, ZombiePrime

LEMMA LaunchKeepsRecords ==
  ASSUME ScheduleTypeOK, NoZombies, NEW w \in Workspace, NEW i, i = cur[w],
         NEW starts \in BOOLEAN, Launch(w, starts)
  PROVE  NoZombies' /\ running' \in [Runner -> Nat] /\ live' \in [Runner -> Nat]
<1>1. stage \in [Workspace -> Stage] /\ i \in Runner /\ stage[w] = "create"
      /\ running \in [Runner -> Nat] /\ live \in [Runner -> Nat]
  BY DEF ScheduleTypeOK, Launch, Runner, Stage
<1>2. Creating(i)' = Creating(i) \ {w} /\ w \in Creating(i)
  BY <1>1, CreatingPrime DEF Launch, Creating
<1>3. \A r \in Runner : r # i => Creating(r)' = Creating(r)
  BY <1>1, CreatingPrime DEF Launch, Creating
<1>4. Cardinality(Creating(i)') = Cardinality(Creating(i)) - 1
  BY <1>2, CreatingIsFinite, FS_RemoveElement
<1>5. /\ \/ live' = [live EXCEPT ![i] = @ + 1] /\ running' = running
         \/ live' = live /\ running' = [running EXCEPT ![i] = @ - 1]
  BY DEF Launch
<1>6. \A r \in Runner : running'[r] = live'[r] + Cardinality(Creating(r)')
  <2> SUFFICES ASSUME NEW r \in Runner
               PROVE  running'[r] = live'[r] + Cardinality(Creating(r)')
    OBVIOUS
  <2>1. running[r] = live[r] + Cardinality(Creating(r)) /\ live[r] \in Nat
        /\ Cardinality(Creating(r)) \in Nat
    BY <1>1, ZombieDef, CreatingIsFinite
  <2>2. CASE r = i
    BY <1>1, <1>4, <1>5, <2>1, <2>2
  <2>3. CASE r # i
    BY <1>1, <1>3, <1>5, <2>1, <2>3
  <2>4. QED
    BY <2>2, <2>3
<1>7. running[i] = live[i] + Cardinality(Creating(i)) /\ Cardinality(Creating(i)) # 0
  BY <1>1, <1>2, ZombieDef, CreatingIsFinite, FS_EmptySet
<1>8. running[i] - 1 \in Nat /\ live[i] + 1 \in Nat
  BY <1>1, <1>7, CreatingIsFinite
<1>9. running' \in [Runner -> Nat] /\ live' \in [Runner -> Nat]
  BY <1>1, <1>5, <1>8
<1>10. QED
  BY <1>6, <1>9, ZombiePrime

(* Runs that begin and end where nothing is being created. *)
LEMMA RunsKeepRecords ==
  ASSUME ScheduleTypeOK, NoZombies, UNCHANGED <<stage, cur>>, NEW r \in Runner,
         NEW d \in Int,
         running' = [running EXCEPT ![r] = @ + d], live' = [live EXCEPT ![r] = @ + d]
  PROVE  NoZombies'
<1>1. running \in [Runner -> Nat] /\ live \in [Runner -> Nat]
  BY DEF ScheduleTypeOK, Runner
<1>2. \A x \in Runner : Creating(x)' = Creating(x)
  BY CreatingPrime DEF Creating
<1>3. \A x \in Runner : running'[x] = live'[x] + Cardinality(Creating(x)')
  <2> SUFFICES ASSUME NEW x \in Runner
               PROVE  running'[x] = live'[x] + Cardinality(Creating(x)')
    OBVIOUS
  <2>1. running[x] = live[x] + Cardinality(Creating(x)) /\ live[x] \in Nat
        /\ Cardinality(Creating(x)) \in Nat
    BY <1>1, ZombieDef, CreatingIsFinite
  <2>2. QED
    BY <1>1, <1>2, <2>1
<1>4. QED
  BY <1>3, ZombiePrime

-----------------------------------------------------------------------------
LEMMA EventType == ScheduleTypeOK /\ Event => events' \in 0..MaxEvents
BY Bounds DEF ScheduleTypeOK, Event

LEMMA CurIsIssue ==
  ASSUME ScheduleTypeOK, NEW w \in Workspace, stage[w] \in {"dispatch", "create", "mark"}
  PROVE  cur[w] \in Issue /\ cur[w] # Manual
BY ScheduleAssumption DEF ScheduleTypeOK

LEMMA IdleType == \A x, S : x \in S => Idle(x) \in [Workspace -> S]
BY DEF Idle

LEMMA NoMarksType == NoMarks \in Marks
BY DEF NoMarks, Marks

LEMMA ScanInvInit == Init => ScanInv /\ NoZombies
<1> SUFFICES ASSUME Init PROVE ScanInv /\ NoZombies
  OBVIOUS
<1>1. now \in Epoch..MaxNow /\ scanAt \in Time /\ scanAt <= now /\ events \in 0..MaxEvents
  BY Bounds DEF Init, Time
<1>2. stage = Idle("idle") /\ todo = Idle({}) /\ cur = Idle(NoIssue) /\ captured = Idle(NoMarks)
  BY DEF Init
<1>3. /\ stage \in [Workspace -> Stage] /\ todo \in [Workspace -> SUBSET Issue]
      /\ cur \in [Workspace -> Issue \cup {NoIssue}] /\ captured \in [Workspace -> Marks]
      /\ \A w \in Workspace : stage[w] = "idle" /\ todo[w] = {} /\ cur[w] = NoIssue
  BY <1>2, NoMarksType DEF Stage, Idle
<1>4. /\ markers \in Marks /\ file \in Marks /\ fired \in Marks /\ markers = fired
      /\ open \in [Issue -> BOOLEAN] /\ forgot \in [Issue -> BOOLEAN]
      /\ running \in [Runner -> Nat] /\ live \in [Runner -> Nat]
      /\ \A r \in Runner : running[r] = 0 /\ live[r] = 0
  BY NoMarksType DEF Init, Runner
<1>5. scanning \in BOOLEAN /\ seen \subseteq Issue /\ orphans \in Nat
  BY DEF Init
<1>6. ScheduleTypeOK
  BY <1>1, <1>3, <1>4, <1>5 DEF ScheduleTypeOK, Stage, Runner
<1>7. ScanShape /\ FiringIsDue /\ MarkersTrue
  BY <1>3, <1>4 DEF ScanShape, FiringIsDue, MarkersTrue
<1>8. \A r \in Runner : Creating(r) = {}
  BY <1>3 DEF Creating
<1>9. NoZombies
  <2>1. \A r \in Runner : Cardinality(Creating(r)) = 0
    BY <1>8, FS_EmptySet
  <2>2. QED
    BY <1>4, <2>1, ZombieDef
<1>10. QED
  BY <1>6, <1>7, <1>9 DEF ScanInv

LEMMA StartScanHolds == ScheduleInv /\ StartScan => ScheduleInv'
<1> SUFFICES ASSUME ScheduleInv, StartScan PROVE ScheduleInv'
  OBVIOUS
<1> USE DEF ScheduleInv, ScanInv
<1>1. \A w \in Workspace : stage[w] = "idle" /\ stage'[w] = "unread"
  BY DEF StartScan, ScanShape, Idle
<1>2. stage' \in [Workspace -> Stage] /\ scanAt' \in Time /\ scanAt' <= now'
  BY Bounds DEF StartScan, Idle, Stage, ScheduleTypeOK, Time
<1>3. ScheduleTypeOK'
  BY <1>1, <1>2 DEF StartScan, ScheduleTypeOK, Stage
<1>4. ScanShape' /\ FiringIsDue' /\ MarkersTrue'
  BY <1>1 DEF StartScan, ScanShape, FiringIsDue, MarkersTrue
<1>5. NoZombies'
  BY <1>1, SameRecords DEF StartScan
<1>6. QED
  BY <1>3, <1>4, <1>5

(* A step of the scan of one workspace that neither records, starts nor      *)
(* marks a run: what is left to show is its own part.                        *)
LEMMA WorkspaceMoves ==
  ASSUME ScheduleInv, NEW w \in Workspace, NEW st \in {"issues", "dispatch"},
         stage[w] \in {"unread", "issues", "dispatch", "mark"},
         stage' = [stage EXCEPT ![w] = st], cur' \in [Workspace -> Issue \cup {NoIssue}],
         \A x \in Workspace : x # w => cur'[x] = cur[x],
         (st = "dispatch") = (cur'[w] # NoIssue),
         st = "dispatch" => Home[cur'[w]] = w /\ DueAfter(cur'[w], markers[cur'[w]], scanAt),
         todo' \in [Workspace -> SUBSET Issue],
         \A x \in Workspace : todo'[x] \subseteq {i \in Issue : Home[i] = x},
         captured' \in [Workspace -> Marks], file' \in Marks, seen' \subseteq Issue,
         events' \in 0..MaxEvents,
         UNCHANGED <<now, scanning, scanAt, markers, open, running, live, orphans, fired, forgot>>
  PROVE  ScheduleInv'
<1> USE DEF ScheduleInv, ScanInv
<1>1. stage \in [Workspace -> Stage] /\ stage' \in [Workspace -> Stage]
  BY DEF ScheduleTypeOK, Stage
<1>2. stage'[w] = st /\ \A x \in Workspace : x # w => stage'[x] = stage[x]
  BY <1>1
<1>3. \A x \in Workspace : (stage'[x] \in {"dispatch", "create", "mark"}) = (cur'[x] # NoIssue)
  BY <1>2 DEF ScheduleTypeOK
<1>4. ScheduleTypeOK'
  BY <1>1, <1>3 DEF ScheduleTypeOK, Stage
<1>5. scanning' = TRUE
  BY DEF ScheduleTypeOK, ScanShape
<1>6. ScanShape'
  BY <1>5 DEF ScanShape
<1>7. FiringIsDue'
  BY <1>2 DEF FiringIsDue
<1>8. MarkersTrue'
  BY DEF MarkersTrue
<1>9. NoZombies'
  BY <1>2, SameRecords
<1>10. QED
  BY <1>4, <1>6, <1>7, <1>8, <1>9

LEMMA ScanTyped ==
  ASSUME ScheduleInv
  PROVE  /\ stage \in [Workspace -> Stage] /\ cur \in [Workspace -> Issue \cup {NoIssue}]
         /\ todo \in [Workspace -> SUBSET Issue]
         /\ \A x \in Workspace : todo[x] \subseteq {i \in Issue : Home[i] = x}
         /\ captured \in [Workspace -> Marks] /\ file \in Marks /\ seen \subseteq Issue
         /\ events \in 0..MaxEvents
BY DEF ScheduleInv, ScanInv, ScheduleTypeOK, ScanShape, Stage

LEMMA ReadIssuesHolds ==
  ASSUME ScheduleInv, NEW w \in Workspace, NEW found \in SUBSET Issue, ReadIssues(w, found)
  PROVE  ScheduleInv'
<1>1. found \subseteq {i \in Issue : Home[i] = w} /\ stage[w] = "unread"
      /\ stage' = [stage EXCEPT ![w] = "issues"] /\ todo' = [todo EXCEPT ![w] = found]
      /\ seen' = seen \cup found /\ cur' = cur
  BY DEF ReadIssues
<1>2. events' \in 0..MaxEvents
  BY ScanTyped, EventType DEF ReadIssues, ScheduleInv, ScanInv
<1>3. cur'[w] = NoIssue
  BY <1>1 DEF ScheduleInv, ScanInv, ScheduleTypeOK
<1>4. todo' \in [Workspace -> SUBSET Issue]
      /\ \A x \in Workspace : todo'[x] \subseteq {i \in Issue : Home[i] = x}
  BY <1>1, ScanTyped
<1>5. UNCHANGED <<now, scanning, scanAt, captured, markers, file, open, running, live,
                  orphans, fired, forgot>>
  BY DEF ReadIssues
<1>6. QED
  BY <1>1, <1>2, <1>3, <1>4, <1>5, ScanTyped, WorkspaceMoves

LEMMA TakeHolds ==
  ASSUME ScheduleInv, NEW w \in Workspace, NEW i \in Issue, Take(w, i)
  PROVE  /\ stage[w] = "issues" /\ Home[i] = w /\ cur[w] = NoIssue
         /\ todo' \in [Workspace -> SUBSET Issue]
         /\ \A x \in Workspace : todo'[x] \subseteq {j \in Issue : Home[j] = x}
<1>1. stage[w] = "issues" /\ i \in todo[w] /\ todo' = [todo EXCEPT ![w] = @ \ {i}]
  BY DEF Take
<1>2. cur[w] = NoIssue
  BY <1>1 DEF ScheduleInv, ScanInv, ScheduleTypeOK
<1>3. QED
  BY <1>1, <1>2, ScanTyped

LEMMA PassByHolds ==
  ASSUME ScheduleInv, NEW w \in Workspace, NEW i \in Issue, PassBy(w, i)
  PROVE  ScheduleInv'
<1>1. Take(w, i) /\ UNCHANGED <<now, scanning, scanAt, seen, stage, cur, captured, markers,
                                file, open, running, live, orphans, events, fired, forgot>>
  BY DEF PassBy
<1>2. stage' = [stage EXCEPT ![w] = "issues"]
  BY <1>1, TakeHolds, ScanTyped
<1>3. QED
  BY <1>1, <1>2, TakeHolds, ScanTyped, WorkspaceMoves

LEMMA FireHolds ==
  ASSUME ScheduleInv, NEW w \in Workspace, NEW i \in Issue, Fire(w, i)
  PROVE  ScheduleInv'
<1>1. Take(w, i) /\ DueAfter(i, markers[i], scanAt)
      /\ stage' = [stage EXCEPT ![w] = "dispatch"] /\ cur' = [cur EXCEPT ![w] = i]
      /\ UNCHANGED <<now, scanning, scanAt, seen, captured, markers, file, open, running,
                     live, orphans, events, fired, forgot>>
  BY DEF Fire, IsDue
<1>2. cur' \in [Workspace -> Issue \cup {NoIssue}] /\ cur'[w] = i /\ i # NoIssue
      /\ \A x \in Workspace : x # w => cur'[x] = cur[x]
  BY <1>1, ScanTyped, ScheduleAssumption
<1>3. Home[cur'[w]] = w /\ DueAfter(cur'[w], markers[cur'[w]], scanAt)
  BY <1>1, <1>2, TakeHolds
<1>4. /\ stage[w] = "issues" /\ todo' \in [Workspace -> SUBSET Issue]
      /\ \A x \in Workspace : todo'[x] \subseteq {j \in Issue : Home[j] = x}
  BY <1>1, TakeHolds
<1>5. captured' \in [Workspace -> Marks] /\ file' \in Marks /\ seen' \subseteq Issue
      /\ events' \in 0..MaxEvents
  BY <1>1, ScanTyped
<1>6. ("dispatch" = "dispatch") = (cur'[w] # NoIssue)
  BY <1>2
<1>7. stage[w] \in {"unread", "issues", "dispatch", "mark"}
  BY <1>4
<1>8. QED
  BY <1>1, <1>2, <1>3, <1>4, <1>5, <1>6, <1>7, WorkspaceMoves

LEMMA LeaveHolds ==
  ASSUME ScheduleInv, NEW w \in Workspace, Leave(w)
  PROVE  /\ stage' = [stage EXCEPT ![w] = "issues"] /\ cur'[w] = NoIssue
         /\ cur' \in [Workspace -> Issue \cup {NoIssue}]
         /\ \A x \in Workspace : x # w => cur'[x] = cur[x]
BY ScanTyped DEF Leave

LEMMA NotFiredHolds ==
  ASSUME ScheduleInv, NEW w \in Workspace, DispatchFails(w) \/ DispatchRejected(w)
  PROVE  ScheduleInv'
<1>1. stage[w] = "dispatch" /\ NotFired(w)
  BY DEF DispatchFails, DispatchRejected, Rejected
<1>2. events' \in 0..MaxEvents
  BY ScanTyped, EventType DEF DispatchFails, DispatchRejected, ScheduleInv, ScanInv
<1>3. Leave(w) /\ UNCHANGED <<now, scanning, scanAt, seen, todo, captured, markers, file,
                              open, running, live, orphans, fired, forgot>>
  BY <1>1 DEF NotFired
<1>4. QED
  BY <1>1, <1>2, <1>3, LeaveHolds, ScanTyped, WorkspaceMoves

LEMMA MarkFlushedHolds ==
  ASSUME ScheduleInv, NEW w \in Workspace, NEW written \in BOOLEAN, MarkFlushed(w, written)
  PROVE  ScheduleInv'
<1>1. stage[w] = "mark" /\ Leave(w)
      /\ UNCHANGED <<now, scanning, scanAt, seen, todo, markers, open, running, live,
                     orphans, fired, forgot>>
  BY DEF MarkFlushed
<1>2. events' \in 0..MaxEvents
  BY ScanTyped, EventType DEF MarkFlushed, ScheduleInv, ScanInv
<1>3. file' \in Marks /\ captured' \in [Workspace -> Marks]
  BY ScanTyped, NoMarksType DEF MarkFlushed
<1>4. QED
  BY <1>1, <1>2, <1>3, LeaveHolds, ScanTyped, WorkspaceMoves

(* The record of a run that is about to start. *)
LEMMA CreateRecordHolds ==
  ASSUME ScheduleInv, NEW w \in Workspace, CreateRecord(w)
  PROVE  ScheduleInv'
<1> USE DEF ScheduleInv, ScanInv
<1>1. stage[w] = "dispatch" /\ stage' = [stage EXCEPT ![w] = "create"]
      /\ running' = [running EXCEPT ![cur[w]] = @ + 1]
      /\ UNCHANGED <<now, scanning, scanAt, seen, todo, cur, captured, markers, file, open,
                     live, orphans, events, fired, forgot>>
  BY DEF CreateRecord
<1>2. stage' \in [Workspace -> Stage] /\ stage'[w] = "create"
      /\ \A x \in Workspace : x # w => stage'[x] = stage[x]
  BY <1>1, ScanTyped DEF Stage
<1>3. running' \in [Runner -> Nat]
  BY <1>1 DEF ScheduleTypeOK, Runner
<1>4. ScheduleTypeOK'
  BY <1>1, <1>2, <1>3 DEF ScheduleTypeOK, Stage, Runner
<1>5. ScanShape'
  BY <1>1, <1>2 DEF ScanShape, ScheduleTypeOK
<1>6. FiringIsDue' /\ MarkersTrue'
  BY <1>1, <1>2 DEF FiringIsDue, MarkersTrue
<1>7. NoZombies'
  BY CreateKeepsRecords
<1>8. QED
  BY <1>4, <1>5, <1>6, <1>7

LEMMA LaunchHolds ==
  ASSUME ScheduleInv, NEW w \in Workspace, NEW starts \in BOOLEAN, Launch(w, starts)
  PROVE  ScheduleInv'
<1> USE DEF ScheduleInv, ScanInv
<1>1. /\ stage[w] = "create" /\ stage' = [stage EXCEPT ![w] = "mark"]
      /\ markers' = [markers EXCEPT ![cur[w]] = scanAt]
      /\ captured' = [captured EXCEPT ![w] = markers']
      /\ fired' = [fired EXCEPT ![cur[w]] = scanAt]
      /\ forgot' = [forgot EXCEPT ![cur[w]] = FALSE]
      /\ UNCHANGED <<now, scanning, scanAt, seen, todo, cur, file, open, orphans>>
  BY DEF Launch
<1>2. stage' \in [Workspace -> Stage] /\ stage'[w] = "mark"
      /\ \A x \in Workspace : x # w => stage'[x] = stage[x]
  BY <1>1, ScanTyped DEF Stage
<1>3. cur[w] \in Issue
  BY <1>1, CurIsIssue
<1>4. markers' \in Marks /\ fired' \in Marks /\ forgot' \in [Issue -> BOOLEAN]
  BY <1>1 DEF ScheduleTypeOK, Marks
<1>5. /\ live' \in [Runner -> Nat] /\ running' \in [Runner -> Nat]
      /\ captured' \in [Workspace -> Marks] /\ events' \in 0..MaxEvents
  <2>1. events' = events \/ Event
    BY DEF Launch
  <2>2. QED
    BY <1>1, <1>4, <2>1, EventType, LaunchKeepsRecords DEF ScheduleTypeOK
<1>6. ScheduleTypeOK'
  BY <1>1, <1>2, <1>4, <1>5 DEF ScheduleTypeOK, Stage, Runner
<1>7. ScanShape'
  BY <1>1, <1>2 DEF ScanShape, ScheduleTypeOK
<1>8. FiringIsDue'
  <2> SUFFICES ASSUME NEW x \in Workspace, stage'[x] \in {"dispatch", "create"}
               PROVE  Home[cur'[x]] = x /\ DueAfter(cur'[x], markers'[cur'[x]], scanAt')
    BY DEF FiringIsDue
  <2>1. x # w /\ stage[x] \in {"dispatch", "create"} /\ cur' = cur /\ scanAt' = scanAt
    BY <1>1, <1>2
  <2>2. Home[cur[x]] = x /\ Home[cur[w]] = w
    BY <1>1, <2>1 DEF FiringIsDue
  <2>3. cur[x] \in Issue /\ markers'[cur[x]] = markers[cur[x]]
    BY <1>1, <2>1, <2>2, CurIsIssue DEF ScheduleTypeOK, Marks
  <2>4. QED
    BY <2>1, <2>2, <2>3 DEF FiringIsDue
<1>9. MarkersTrue'
  BY <1>1, <1>3 DEF MarkersTrue, ScheduleTypeOK, Marks
<1>10. NoZombies'
  BY LaunchKeepsRecords
<1>11. QED
  BY <1>6, <1>7, <1>8, <1>9, <1>10

LEMMA EndScanHolds == ScheduleInv /\ EndScan => ScheduleInv'
<1> SUFFICES ASSUME ScheduleInv, EndScan PROVE ScheduleInv'
  OBVIOUS
<1> USE DEF ScheduleInv, ScanInv
<1> DEFINE lost == {i \in Issue \ seen : markers[i] # Never}
<1>1. /\ \A w \in Workspace : stage[w] = "issues"
      /\ markers' = [i \in Issue |-> IF i \in lost THEN Never ELSE markers[i]]
      /\ file' = IF lost = {} THEN file ELSE markers'
      /\ forgot' = [i \in Issue |-> forgot[i] \/ i \in lost]
      /\ scanning' = FALSE /\ stage' = Idle("idle") /\ seen' = {}
      /\ UNCHANGED <<now, scanAt, todo, cur, captured, open, running, live, orphans, events,
                     fired>>
  BY DEF EndScan
<1>2. stage' \in [Workspace -> Stage] /\ \A w \in Workspace : stage'[w] = "idle"
  BY <1>1 DEF Idle, Stage
<1>3. markers' \in Marks
  BY <1>1 DEF ScheduleTypeOK, Marks
<1>4. file' \in Marks /\ forgot' \in [Issue -> BOOLEAN]
  BY <1>1, <1>3 DEF ScheduleTypeOK
<1>5. \A w \in Workspace : cur'[w] = NoIssue
  BY <1>1 DEF ScheduleTypeOK
<1>6. ScheduleTypeOK'
  <2>1. \A w \in Workspace :
          (stage'[w] \in {"dispatch", "create", "mark"}) = (cur'[w] # NoIssue)
    BY <1>2, <1>5
  <2>2. scanning' \in BOOLEAN /\ seen' \subseteq Issue
    BY <1>1
  <2>3. QED
    BY <1>1, <1>2, <1>3, <1>4, <2>1, <2>2 DEF ScheduleTypeOK, Stage
<1>7. ScanShape' /\ FiringIsDue'
  BY <1>1, <1>2 DEF ScanShape, FiringIsDue
<1>8. MarkersTrue'
  BY <1>1 DEF MarkersTrue
<1>9. NoZombies'
  BY <1>1, <1>2, SameRecords
<1>10. QED
  BY <1>6, <1>7, <1>8, <1>9

(* Steps outside the scan. *)
LEMMA OutsideScan ==
  ASSUME ScheduleInv, UNCHANGED <<scanVars, markers, file, fired, forgot>>,
         now' \in Epoch..MaxNow, now <= now', open' \in [Issue -> BOOLEAN],
         events' \in 0..MaxEvents,
         running' \in [Runner -> Nat], live' \in [Runner -> Nat], orphans' \in Nat, NoZombies'
  PROVE  ScheduleInv'
<1> USE DEF ScheduleInv, ScanInv, scanVars
<1>1. scanAt' <= now'
  BY Bounds DEF ScheduleTypeOK, Time
<1>2. ScheduleTypeOK'
  BY <1>1 DEF ScheduleTypeOK, Runner
<1>3. ScanShape' /\ FiringIsDue' /\ MarkersTrue'
  BY DEF ScanShape, FiringIsDue, MarkersTrue
<1>4. QED
  BY <1>2, <1>3

LEMMA ManualRunHolds == ScheduleInv /\ ManualRun => ScheduleInv'
<1> SUFFICES ASSUME ScheduleInv, ManualRun PROVE ScheduleInv'
  OBVIOUS
<1>1. events' \in 0..MaxEvents /\ now' \in Epoch..MaxNow /\ now <= now'
      /\ open' \in [Issue -> BOOLEAN]
  BY EventType, Bounds DEF ManualRun, ScheduleInv, ScanInv, ScheduleTypeOK
<1>2. running' \in [Runner -> Nat] /\ live' \in [Runner -> Nat] /\ Manual \in Runner
      /\ orphans' \in Nat
  BY DEF ManualRun, ScheduleInv, ScanInv, ScheduleTypeOK, Runner
<1>3. NoZombies'
  <2>1. running' = [running EXCEPT ![Manual] = @ + 1] /\ live' = [live EXCEPT ![Manual] = @ + 1]
        /\ UNCHANGED <<stage, cur>> /\ 1 \in Int
    BY DEF ManualRun, scanVars
  <2>2. QED
    BY <1>2, <2>1, RunsKeepRecords DEF ScheduleInv, ScanInv
<1>4. QED
  BY <1>1, <1>2, <1>3, OutsideScan DEF ManualRun

LEMMA RunEndsHolds ==
  ASSUME ScheduleInv, NEW r \in Runner, NEW closes \in BOOLEAN, RunEnds(r, closes)
  PROVE  ScheduleInv'
<1>1. /\ live[r] > 0 /\ (closes => r \in Issue)
      /\ live' = [live EXCEPT ![r] = @ - 1] /\ running' = [running EXCEPT ![r] = @ - 1]
      /\ open' = IF closes THEN [open EXCEPT ![r] = FALSE] ELSE open
      /\ UNCHANGED <<now, scanVars, markers, file, orphans, events, fired, forgot>>
  BY DEF RunEnds
<1>2. live \in [Runner -> Nat] /\ running \in [Runner -> Nat]
      /\ running[r] = live[r] + Cardinality(Creating(r)) /\ Cardinality(Creating(r)) \in Nat
  BY ZombieDef, CreatingIsFinite DEF ScheduleInv, ScanInv, ScheduleTypeOK, Runner
<1>3. live' \in [Runner -> Nat] /\ running' \in [Runner -> Nat]
  BY <1>1, <1>2
<1>4. events' \in 0..MaxEvents /\ now' \in Epoch..MaxNow /\ now <= now'
      /\ open' \in [Issue -> BOOLEAN] /\ orphans' \in Nat
  BY <1>1, Bounds DEF ScheduleInv, ScanInv, ScheduleTypeOK
<1>5. live' = [live EXCEPT ![r] = @ + (-1)] /\ running' = [running EXCEPT ![r] = @ + (-1)]
  BY <1>1, <1>2
<1>6. NoZombies'
  <2>1. UNCHANGED <<stage, cur>> /\ -1 \in Int
    BY <1>1 DEF scanVars
  <2>2. QED
    BY <1>5, <2>1, RunsKeepRecords DEF ScheduleInv, ScanInv
<1>7. QED
  BY <1>1, <1>3, <1>4, <1>6, OutsideScan

LEMMA TickHolds == ScheduleInv /\ (Tick \/ OrphanEnds) => ScheduleInv'
<1> SUFFICES ASSUME ScheduleInv, Tick \/ OrphanEnds PROVE ScheduleInv'
  OBVIOUS
<1>1. events' \in 0..MaxEvents /\ now' \in Epoch..MaxNow /\ now <= now'
      /\ open' \in [Issue -> BOOLEAN] /\ running' \in [Runner -> Nat]
      /\ live' \in [Runner -> Nat] /\ orphans' \in Nat
  BY Bounds DEF Tick, OrphanEnds, ScheduleInv, ScanInv, ScheduleTypeOK, Runner
<1>2. NoZombies'
  BY SameRecords DEF Tick, OrphanEnds, scanVars, ScheduleInv
<1>3. QED
  BY <1>1, <1>2, OutsideScan DEF Tick, OrphanEnds

(* The processes of this Alice fit under the cap with their records. *)
LEMMA LiveFits ==
  ASSUME ScheduleInv, RunsFit
  PROVE  Total(live) \in Nat /\ Total(live) <= MAX_CONCURRENT_HEADLESS
<1>1. \A r \in Runner : live[r] <= running[r]
  <2> SUFFICES ASSUME NEW r \in Runner PROVE live[r] <= running[r]
    OBVIOUS
  <2>1. running[r] = live[r] + Cardinality(Creating(r)) /\ live[r] \in Nat
        /\ Cardinality(Creating(r)) \in Nat
    BY ZombieDef, CreatingIsFinite DEF ScheduleInv, ScanInv, ScheduleTypeOK
  <2>2. QED
    BY <2>1
<1>2. Slots(live) \subseteq Slots(running)
  BY <1>1, SlotsShrink DEF ScheduleInv, ScanInv, ScheduleTypeOK
<1>3. Total(live) <= Total(running) /\ Total(live) \in Nat /\ Total(running) \in Nat
  BY <1>2, FS_Subset, FS_CardinalityType DEF RunsFit, Total
<1>4. QED
  BY <1>3, ScheduleAssumption DEF RunsFit

LEMMA CrashRestartHolds == ScheduleInv /\ RunsFit /\ CrashRestart => ScheduleInv'
<1> SUFFICES ASSUME ScheduleInv, RunsFit, CrashRestart PROVE ScheduleInv'
  OBVIOUS
<1> USE DEF ScheduleInv, ScanInv
<1>1. /\ scanning' = FALSE /\ scanAt' = 0 /\ seen' = {} /\ markers' = file
      /\ stage' = Idle("idle") /\ todo' = Idle({}) /\ cur' = Idle(NoIssue)
      /\ captured' = Idle(NoMarks)
      /\ forgot' = [i \in Issue |-> forgot[i] \/ file[i] # fired[i]]
      /\ UNCHANGED <<now, file, open, fired>>
  BY DEF CrashRestart
<1>2. /\ stage' \in [Workspace -> Stage] /\ todo' \in [Workspace -> SUBSET Issue]
      /\ cur' \in [Workspace -> Issue \cup {NoIssue}] /\ captured' \in [Workspace -> Marks]
      /\ \A w \in Workspace : stage'[w] = "idle" /\ todo'[w] = {} /\ cur'[w] = NoIssue
  BY <1>1, NoMarksType DEF Stage, Idle
<1>3. /\ live' \in [Runner -> Nat] /\ running' \in [Runner -> Nat]
      /\ \A r \in Runner : live'[r] = 0 /\ running'[r] = 0
  BY DEF CrashRestart, Reconciled, ScheduleTypeOK, Runner
<1>4. events' \in 0..MaxEvents /\ scanAt' \in Time /\ scanAt' <= now' /\ orphans' \in Nat
  <2>1. Total(live) \in Nat
    BY LiveFits
  <2>2. QED
    BY <1>1, <2>1, EventType, Bounds DEF CrashRestart, ScheduleTypeOK, Time
<1>5. forgot' \in [Issue -> BOOLEAN]
  BY <1>1
<1>6. ScheduleTypeOK'
  <2>1. \A w \in Workspace :
          (stage'[w] \in {"dispatch", "create", "mark"}) = (cur'[w] # NoIssue)
    BY <1>2
  <2>2. scanning' \in BOOLEAN /\ seen' \subseteq Issue
    BY <1>1
  <2>3. now' \in Epoch..MaxNow /\ markers' \in Marks /\ file' \in Marks
        /\ fired' \in Marks /\ open' \in [Issue -> BOOLEAN]
    BY <1>1 DEF ScheduleTypeOK
  <2>4. QED
    BY <1>2, <1>3, <1>4, <1>5, <2>1, <2>2, <2>3 DEF ScheduleTypeOK, Stage, Runner
<1>7. ScanShape' /\ FiringIsDue'
  BY <1>2 DEF ScanShape, FiringIsDue
<1>8. MarkersTrue'
  BY <1>1 DEF MarkersTrue, ScheduleTypeOK
<1>9. NoZombies'
  <2>1. \A r \in Runner : Creating(r)' = {}
    BY <1>2, CreatingPrime
  <2>2. \A r \in Runner : Cardinality(Creating(r)') = 0
    BY <2>1, FS_EmptySet
  <2>3. QED
    BY <1>3, <2>2, ZombiePrime
<1>10. QED
  BY <1>6, <1>7, <1>8, <1>9

LEMMA ScheduleInvNext == ScheduleInv /\ CapInv /\ [Next]_vars => ScheduleInv'
<1> SUFFICES ASSUME ScheduleInv, RunsFit, [Next]_vars PROVE ScheduleInv'
  BY DEF CapInv
<1>1. ASSUME NEW w \in Workspace, WorkspaceStep(w) PROVE ScheduleInv'
  <2>1. {i \in Issue : Home[i] = w} \in SUBSET Issue /\ TRUE \in BOOLEAN
    OBVIOUS
  <2>2. QED
    BY <1>1, <2>1, ReadIssuesHolds, PassByHolds, FireHolds, NotFiredHolds,
       CreateRecordHolds, LaunchHolds, MarkFlushedHolds DEF WorkspaceStep
<1>2. ASSUME NEW w \in Workspace, NEW found \in SUBSET Issue, ReadIssues(w, found)
      PROVE  ScheduleInv'
  BY <1>2, ReadIssuesHolds
<1>3. ASSUME NEW w \in Workspace, DispatchFails(w) \/ Launch(w, FALSE) \/ MarkFlushed(w, FALSE)
      PROVE  ScheduleInv'
  BY <1>3, NotFiredHolds, LaunchHolds, MarkFlushedHolds
<1>4. ASSUME NEW r \in Runner, NEW closes \in BOOLEAN, RunEnds(r, closes)
      PROVE  ScheduleInv'
  BY <1>4, RunEndsHolds DEF Runner
<1>5. CASE UNCHANGED vars
  <2>1. NoZombies'
    BY <1>5, SameRecords DEF vars, scanVars, ScheduleInv
  <2>2. UNCHANGED <<scanVars, markers, file, fired, forgot>> /\ now' = now /\ open' = open
        /\ events' = events /\ running' = running /\ live' = live /\ orphans' = orphans
    BY <1>5 DEF vars
  <2>3. QED
    BY <2>1, <2>2, OutsideScan, Bounds DEF ScheduleInv, ScanInv, ScheduleTypeOK, Runner
<1>6. QED
  BY <1>1, <1>2, <1>3, <1>4, <1>5, StartScanHolds, EndScanHolds, ManualRunHolds, TickHolds,
     CrashRestartHolds DEF Next

-----------------------------------------------------------------------------
(* Only the launch of a run and the manual route add a process. *)
LEMMA OnlyLaunchStarts ==
  ASSUME ScheduleInv, [Next]_vars, NEW i \in Issue, live'[i] > live[i]
  PROVE  \E w \in Workspace : Launch(w, TRUE) /\ cur[w] = i
<1>1. live \in [Runner -> Nat] /\ i \in Runner /\ i # Manual
  BY ScheduleAssumption DEF ScheduleInv, ScanInv, ScheduleTypeOK, Runner
<1>2. live[i] \in Nat
  BY <1>1
<1>3. CASE live' = live
  BY <1>2, <1>3
<1>4. ASSUME NEW w \in Workspace, Launch(w, TRUE)
      PROVE  \E x \in Workspace : Launch(x, TRUE) /\ cur[x] = i
  <2>1. cur[w] # i => live'[i] = live[i]
    BY <1>1, <1>4 DEF Launch
  <2>2. cur[w] = i
    BY <1>2, <2>1
  <2>3. QED
    BY <1>4, <2>2, Zenon
<1>5. CASE ManualRun
  BY <1>1, <1>5 DEF ManualRun
<1>6. ASSUME NEW r \in Runner, NEW closes \in BOOLEAN, RunEnds(r, closes)
      PROVE  FALSE
  <2>1. live'[i] = live[i] \/ live'[i] = live[i] - 1
    BY <1>1, <1>6 DEF RunEnds
  <2>2. QED
    BY <1>2, <2>1
<1>7. CASE CrashRestart
  <2>1. live'[i] = 0
    BY <1>1, <1>7 DEF CrashRestart
  <2>2. QED
    BY <1>2, <2>1
<1>8. CASE StartScan \/ EndScan \/ Tick \/ OrphanEnds \/ UNCHANGED vars
  BY <1>3, <1>8 DEF StartScan, EndScan, Tick, OrphanEnds, vars
<1>9. ASSUME NEW w \in Workspace,
             \/ \E found \in SUBSET Issue : ReadIssues(w, found)
             \/ \E j \in Issue : PassBy(w, j) \/ Fire(w, j)
             \/ DispatchFails(w) \/ DispatchRejected(w) \/ CreateRecord(w)
             \/ Launch(w, FALSE) \/ MarkFlushed(w, TRUE) \/ MarkFlushed(w, FALSE)
      PROVE  live' = live
  BY <1>9 DEF ReadIssues, PassBy, Fire, DispatchFails, DispatchRejected, Rejected, NotFired,
     CreateRecord, Launch, MarkFlushed
<1>10. ASSUME NEW w \in Workspace, WorkspaceStep(w)
       PROVE  Launch(w, TRUE) \/ live' = live
  <2>1. {j \in Issue : Home[j] = w} \in SUBSET Issue
    OBVIOUS
  <2>2. QED
    BY <1>9, <1>10, <2>1 DEF WorkspaceStep
<1>11. QED
  BY <1>3, <1>4, <1>5, <1>6, <1>7, <1>8, <1>9, <1>10 DEF Next

-----------------------------------------------------------------------------
LEMMA CapInvInit == Init => CapInv
<1> SUFFICES ASSUME Init PROVE CapInv
  OBVIOUS
<1>1. \A r \in Runner : {r} \X (1..running[r]) = {}
  BY DEF Init
<1>2. Slots(running) = {}
  BY <1>1 DEF Slots
<1>3. RunsFit
  BY <1>2, FS_EmptySet, ScheduleAssumption DEF RunsFit, Total
<1>4. OrphansFit
  <2>1. orphans = 0 /\ 0 * MAX_CONCURRENT_HEADLESS = 0 /\ events = 0
    BY ScheduleAssumption DEF Init
  <2>2. QED
    BY <2>1 DEF OrphansFit
<1>5. QED
  BY <1>3, <1>4 DEF CapInv

LEMMA RunsFitNext == ScheduleInv /\ CapInv /\ [Next]_vars => RunsFit'
<1> SUFFICES ASSUME ScheduleInv, CapInv, [Next]_vars PROVE RunsFit'
  OBVIOUS
<1> USE DEF CapInv
<1>0. running \in [Runner -> Nat] /\ running' \in [Runner -> Nat]
  BY ScheduleInvNext DEF ScheduleInv, ScanInv, ScheduleTypeOK
<1>1. ASSUME running' = running PROVE RunsFit'
  BY <1>0, <1>1, FewerRunsHold
<1>2. ASSUME NEW w \in Workspace, CreateRecord(w) PROVE RunsFit'
  <2>1. cur[w] \in Runner
    BY <1>2, CurIsIssue DEF CreateRecord, ScheduleInv, ScanInv, Runner
  <2>2. QED
    BY <1>0, <1>2, <2>1, OneMoreRun DEF CreateRecord
<1>3. CASE ManualRun
  BY <1>0, <1>3, OneMoreRun DEF ManualRun, Runner
<1>4. ASSUME NEW r \in Runner, NEW closes \in BOOLEAN, RunEnds(r, closes) PROVE RunsFit'
  BY <1>0, <1>4, FewerRunsHold DEF RunEnds
<1>5. CASE CrashRestart
  BY <1>0, <1>5, FewerRunsHold DEF CrashRestart, Reconciled
<1>6. CASE StartScan \/ EndScan \/ Tick \/ OrphanEnds \/ UNCHANGED vars
  BY <1>1, <1>6 DEF StartScan, EndScan, Tick, OrphanEnds, vars
<1>7. ASSUME NEW w \in Workspace,
             \/ \E found \in SUBSET Issue : ReadIssues(w, found)
             \/ \E j \in Issue : PassBy(w, j) \/ Fire(w, j)
             \/ DispatchFails(w) \/ DispatchRejected(w) \/ Launch(w, TRUE)
             \/ MarkFlushed(w, TRUE) \/ MarkFlushed(w, FALSE)
      PROVE  RunsFit'
  BY <1>1, <1>7 DEF ReadIssues, PassBy, Fire, DispatchFails, DispatchRejected, Rejected,
     NotFired, Launch, MarkFlushed
<1>8. ASSUME NEW w \in Workspace, Launch(w, FALSE) PROVE RunsFit'
  <2>1. running' = [running EXCEPT ![cur[w]] = @ - 1]
    BY <1>8 DEF Launch
  <2>2. \A r \in Runner : running'[r] <= running[r]
    BY <1>0, <2>1
  <2>3. QED
    BY <1>0, <2>2, FewerRunsHold
<1>9. ASSUME NEW w \in Workspace, WorkspaceStep(w) PROVE RunsFit'
  <2>1. {j \in Issue : Home[j] = w} \in SUBSET Issue
    OBVIOUS
  <2>2. QED
    BY <1>2, <1>7, <1>9, <2>1 DEF WorkspaceStep
<1>10. QED
  BY <1>3, <1>4, <1>5, <1>6, <1>7, <1>9, <1>8 DEF Next

(* Only a restart leaves processes behind, and it is an event. *)
LEMMA OnlyRestartLeaves ==
  ASSUME ScheduleInv, [Next]_vars
  PROVE  /\ events' \in {events, events + 1}
         /\ CrashRestart \/ orphans' = orphans \/ orphans' = orphans - 1
<1>1. CASE \/ StartScan \/ EndScan \/ Tick \/ OrphanEnds \/ ManualRun \/ CrashRestart
           \/ UNCHANGED vars
  BY <1>1 DEF StartScan, EndScan, Tick, OrphanEnds, ManualRun, CrashRestart, vars, Event
<1>2. ASSUME NEW w \in Workspace,
             \/ \E found \in SUBSET Issue : ReadIssues(w, found)
             \/ \E j \in Issue : PassBy(w, j) \/ Fire(w, j)
             \/ DispatchFails(w) \/ DispatchRejected(w) \/ CreateRecord(w)
             \/ Launch(w, TRUE) \/ Launch(w, FALSE)
             \/ MarkFlushed(w, TRUE) \/ MarkFlushed(w, FALSE)
      PROVE  events' \in {events, events + 1} /\ orphans' = orphans
  BY <1>2 DEF ReadIssues, PassBy, Fire, DispatchFails, DispatchRejected, Rejected, NotFired,
     CreateRecord, Launch, MarkFlushed, Event
<1>3. ASSUME NEW w \in Workspace, WorkspaceStep(w)
      PROVE  events' \in {events, events + 1} /\ orphans' = orphans
  <2>1. {j \in Issue : Home[j] = w} \in SUBSET Issue
    OBVIOUS
  <2>2. QED
    BY <1>2, <1>3, <2>1 DEF WorkspaceStep
<1>4. ASSUME NEW r \in Runner, NEW closes \in BOOLEAN, RunEnds(r, closes)
      PROVE  events' = events /\ orphans' = orphans
  BY <1>4 DEF RunEnds
<1>5. QED
  BY <1>1, <1>2, <1>3, <1>4 DEF Next

LEMMA OrphansFitNext == ScheduleInv /\ CapInv /\ [Next]_vars => OrphansFit'
<1> SUFFICES ASSUME ScheduleInv, CapInv, [Next]_vars PROVE OrphansFit'
  OBVIOUS
<1> DEFINE cap == MAX_CONCURRENT_HEADLESS
<1>1. cap \in Nat /\ events \in Nat /\ orphans \in Nat /\ orphans <= events * cap
  BY ScheduleAssumption, Bounds DEF ScheduleInv, ScanInv, ScheduleTypeOK, CapInv, OrphansFit
<1>2. events * cap \in Nat /\ (events + 1) * cap = events * cap + cap
  BY <1>1, OneMore
<1>3. CASE CrashRestart
  <2>1. orphans' = orphans + Total(live) /\ events' = events + 1
    BY <1>3 DEF CrashRestart, Event
  <2>2. Total(live) \in Nat /\ Total(live) <= cap
    BY LiveFits DEF CapInv
  <2>3. orphans' <= (events + 1) * cap
    BY <1>1, <1>2, <2>1, <2>2
  <2>4. QED
    BY <2>1, <2>3 DEF OrphansFit
<1>4. CASE ~CrashRestart
  <2>1. orphans' = orphans \/ orphans' = orphans - 1
    BY <1>4, OnlyRestartLeaves
  <2>2. orphans' <= events * cap /\ orphans' <= (events + 1) * cap
    BY <1>1, <1>2, <2>1
  <2>3. QED
    BY <2>2, OnlyRestartLeaves DEF OrphansFit
<1>5. QED
  BY <1>3, <1>4

LEMMA CapInvNext == ScheduleInv /\ CapInv /\ [Next]_vars => CapInv'
BY RunsFitNext, OrphansFitNext DEF CapInv

LEMMA ScheduleInvAlways == Spec => [](ScheduleInv /\ CapInv)
<1>1. Init => ScheduleInv /\ CapInv
  BY ScanInvInit, CapInvInit DEF ScheduleInv
<1>2. QED
  BY <1>1, ScheduleInvNext, CapInvNext, PTL DEF Spec

-----------------------------------------------------------------------------
(* The state of scanner.ts, marker-store.ts and the task registry keeps its  *)
(* types, whatever fails or crashes.                                         *)
THEOREM ScheduleTypeCorrect == Spec => []ScheduleTypeOK
<1>1. ScheduleInv => ScheduleTypeOK
  BY DEF ScheduleInv, ScanInv
<1>2. QED
  BY <1>1, ScheduleInvAlways, PTL

(* A record says running exactly while a child of this Alice lives for it or *)
(* is about to be spawned, through scans that overlap with manual runs, runs *)
(* that fail to begin, and restarts, whose orphans have no record.           *)
THEOREM RecordsAreTrue == Spec => []NoZombies
<1>1. ScheduleInv => NoZombies
  BY DEF ScheduleInv
<1>2. QED
  BY <1>1, ScheduleInvAlways, PTL

(* The marker of an issue is the time of its last dispatch, unless it was lost to *)
(* a crash before its write or to a prune.                                   *)
THEOREM MarkersAreTrue == Spec => []MarkersTrue
<1>1. ScheduleInv => MarkersTrue
  BY DEF ScheduleInv, ScanInv
<1>2. QED
  BY <1>1, ScheduleInvAlways, PTL

(* No issue fires before its schedule is due, counted from its last run or,  *)
(* the first time, from the baseline of the scan: what awaits a credential   *)
(* and a record is still due when it starts.                                 *)
THEOREM SchedulesAreKept == Spec => NeverFiresEarly
<1> DEFINE Early == \A i \in Issue : live'[i] > live[i] =>
                      forgot[i] \/ \E at \in 0..now : DueAfter(i, fired[i], at)
<1>1. ScheduleInv /\ [Next]_vars => Early
  <2> SUFFICES ASSUME ScheduleInv, [Next]_vars, NEW i \in Issue, live'[i] > live[i],
                      ~forgot[i]
               PROVE  \E at \in 0..now : DueAfter(i, fired[i], at)
    OBVIOUS
  <2>1. PICK w \in Workspace : Launch(w, TRUE) /\ cur[w] = i
    BY OnlyLaunchStarts
  <2>2. DueAfter(i, markers[i], scanAt)
    BY <2>1 DEF Launch, ScheduleInv, ScanInv, FiringIsDue
  <2>3. markers[i] = fired[i]
    BY DEF ScheduleInv, ScanInv, MarkersTrue
  <2>4. scanAt \in 0..now
    BY Bounds DEF ScheduleInv, ScanInv, ScheduleTypeOK, Time
  <2>5. QED
    BY <2>2, <2>3, <2>4
<1>2. ScheduleInv /\ [Next]_vars => [Early]_vars
  BY <1>1
<1>3. QED
  BY <1>2, ScheduleInvAlways, PTL DEF Spec, NeverFiresEarly

(* The cap: however many workspaces fire side by side, and with the route,   *)
(* no more children of one Alice run than MAX_CONCURRENT_HEADLESS, and each  *)
(* restart leaves at most as many behind.                                    *)
THEOREM CapIsKept == Spec => []CapHolds
<1>1. ScheduleInv /\ CapInv => CapHolds
  BY LiveFits DEF CapInv, OrphansFit, CapHolds
<1>2. QED
  BY <1>1, ScheduleInvAlways, PTL

=============================================================================
