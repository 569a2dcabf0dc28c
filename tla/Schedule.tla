------------------------------ MODULE Schedule ------------------------------
(***************************************************************************)
(* Self-scheduled issues of workspaces: the scanner (schedule/scanner.ts),  *)
(* its last-fired markers and their file (schedule/marker-store.ts), and    *)
(* the headless runs it dispatches under the global cap (workspaces/        *)
(* service.ts:543, headless-task-registry.ts).  One scan reads all          *)
(* workspaces side by side and each one's issues in turn.                   *)
(*                                                                         *)
(* The scanner's own timer is not modelled: a scan begins whenever none is  *)
(* under way.  A flush of the markers is one write of what they were when   *)
(* it began.                                                                *)
(***************************************************************************)
EXTENDS Integers, FiniteSets, FiniteSetsExt

CONSTANTS
  Workspace, Issue,
  Home,            \* the workspace of each issue
  When,            \* the schedule of each issue
  Manual,          \* stands for runs of the "run task" route
  Never, NoIssue,
  Lookback,        \* the scan interval
  Epoch, MaxNow,   \* the clock runs from one to the other; 0 is long ago
  MAX_CONCURRENT_HEADLESS,
  MaxEvents        \* bound on failures, crashes and manual runs

Schedules == [kind : {"at"}, at : Nat] \cup [kind : {"every"}, every : Nat \ {0}]
               \cup [kind : {"cron"}, cron : SUBSET Nat]

ASSUME ScheduleAssumption ==
  /\ Home \in [Issue -> Workspace] /\ When \in [Issue -> Schedules]
  /\ Manual \notin Issue /\ NoIssue \notin Issue /\ Never \notin Int
  /\ IsFiniteSet(Workspace)
  /\ {Lookback, Epoch, MaxNow, MaxEvents} \subseteq Nat /\ Epoch <= MaxNow
  /\ MAX_CONCURRENT_HEADLESS \in Nat \ {0}
  /\ \A i \in Issue : When[i].kind = "every" => When[i].every <= Epoch

VARIABLES
  now,
  scanning, scanAt,   \* a scan is under way, and the time it goes by
  seen,               \* the issues it read
  stage, todo, cur,   \* per workspace: what its scan is at, issues left, the one it fires
  captured,           \* per workspace: what its flush of the markers writes
  markers, file,      \* last-fired times, in memory and on file
  open,               \* the issue is not done or cancelled
  running,            \* per issue, and for the route: records with status running
  live,               \* their processes, children of this Alice
  orphans,            \* processes of runs that outlived the Alice they were children of
  events,
  (* history *)
  fired,              \* when a run of the issue was last dispatched, by its scan's time
  forgot              \* the marker of that run was lost

scanVars == <<scanning, scanAt, seen, stage, todo, cur, captured>>
vars == <<now, scanVars, markers, file, open, running, live, orphans, events, fired, forgot>>

Runner == Issue \cup {Manual}   \* what runs belong to
Time  == 0..MaxNow
Marks == [Issue -> Time \cup {Never}]

ScheduleTypeOK ==
  /\ now \in Epoch..MaxNow /\ scanAt \in Time /\ scanAt <= now
  /\ scanning \in BOOLEAN /\ seen \subseteq Issue
  /\ stage \in [Workspace -> {"idle", "unread", "issues", "dispatch", "create", "mark"}]
  /\ todo \in [Workspace -> SUBSET Issue]
  /\ cur \in [Workspace -> Issue \cup {NoIssue}]
  /\ \A w \in Workspace : (stage[w] \in {"dispatch", "create", "mark"}) = (cur[w] # NoIssue)
  /\ captured \in [Workspace -> Marks]
  /\ markers \in Marks /\ file \in Marks /\ fired \in Marks
  /\ open \in [Issue -> BOOLEAN] /\ forgot \in [Issue -> BOOLEAN]
  /\ running \in [Runner -> Nat] /\ live \in [Runner -> Nat]
  /\ orphans \in Nat /\ events \in 0..MaxEvents

NoMarks == [i \in Issue |-> Never]
Idle(s) == [w \in Workspace |-> s]

Init ==
  /\ now = Epoch /\ scanning = FALSE /\ scanAt = 0 /\ seen = {}
  /\ stage = Idle("idle") /\ todo = Idle({}) /\ cur = Idle(NoIssue)
  /\ captured = Idle(NoMarks)
  /\ markers = NoMarks /\ file = NoMarks /\ fired = NoMarks
  /\ open = [i \in Issue |-> TRUE] /\ forgot = [i \in Issue |-> FALSE]
  /\ running = [r \in Runner |-> 0] /\ live = running
  /\ orphans = 0 /\ events = 0

Event == events < MaxEvents /\ events' = events + 1

-----------------------------------------------------------------------------
(* WHEN IS AN ISSUE DUE *)

(* The next fire strictly after a time (core/schedule-expr.ts). *)
ComputeNextRun(when, after) ==
  CASE when.kind = "at"    -> IF when.at > after THEN when.at ELSE Never
    [] when.kind = "every" -> after + when.every
    [] when.kind = "cron"  -> IF \E t \in when.cron : t > after
                              THEN Min({t \in when.cron : t > after}) ELSE Never

(* The last fire, or a baseline for an issue that never fired. *)
FireBase(when, last, at) ==
  IF last # Never THEN last ELSE IF when.kind = "cron" THEN at - Lookback ELSE 0

DueAfter(i, last, at) ==
  LET next == ComputeNextRun(When[i], FireBase(When[i], last, at)) IN
  next # Never /\ next <= at

(* Mutant of IsDue: the scanner goes by the file. *)
DueByFile(i) == DueAfter(i, file[i], scanAt)

IsDue(i) == DueAfter(i, markers[i], scanAt)

-----------------------------------------------------------------------------
(* A SCAN *)

StartScan ==
  /\ ~scanning
  /\ scanning' = TRUE /\ scanAt' = now /\ seen' = {}
  /\ stage' = Idle("unread")
  /\ UNCHANGED <<now, todo, cur, captured, markers, file, open, running, live, orphans,
                 events, fired, forgot>>

(* readWorkspaceIssues: an unreadable directory has no issues, and an issue   *)
(* whose file does not parse is not among them.                              *)
ReadIssues(w, found) ==
  LET mine == {i \in Issue : Home[i] = w} IN
  /\ stage[w] = "unread" /\ found \subseteq mine
  /\ IF found = mine THEN UNCHANGED events ELSE Event
  /\ stage' = [stage EXCEPT ![w] = "issues"]
  /\ todo' = [todo EXCEPT ![w] = found]
  /\ seen' = seen \cup found
  /\ UNCHANGED <<now, scanning, scanAt, cur, captured, markers, file, open, running, live,
                 orphans, fired, forgot>>

Take(w, i) == stage[w] = "issues" /\ i \in todo[w] /\ todo' = [todo EXCEPT ![w] = @ \ {i}]

PassBy(w, i) ==
  /\ Take(w, i) /\ ~(open[i] /\ IsDue(i))
  /\ UNCHANGED <<now, scanning, scanAt, seen, stage, cur, captured, markers, file, open,
                 running, live, orphans, events, fired, forgot>>

(* fire: the adapter and its credential are awaited first. *)
Fire(w, i) ==
  /\ Take(w, i) /\ open[i] /\ IsDue(i)
  /\ stage' = [stage EXCEPT ![w] = "dispatch"] /\ cur' = [cur EXCEPT ![w] = i]
  /\ UNCHANGED <<now, scanning, scanAt, seen, captured, markers, file, open, running,
                 live, orphans, events, fired, forgot>>

(* Mutant of Leave: the issue at hand stays. *)
LeaveHeld(w) == stage' = [stage EXCEPT ![w] = "issues"] /\ UNCHANGED cur

Leave(w) == stage' = [stage EXCEPT ![w] = "issues"] /\ cur' = [cur EXCEPT ![w] = NoIssue]

NotFired(w) ==
  /\ Leave(w)
  /\ UNCHANGED <<now, scanning, scanAt, seen, todo, captured, markers, file, open,
                 running, live, orphans, fired, forgot>>

(* A credential that is not ready, an adapter without a headless mode. *)
DispatchFails(w) == stage[w] = "dispatch" /\ Event /\ NotFired(w)

(* How many runs a count per issue makes. *)
Slots(count) == UNION {{r} \X (1..count[r]) : r \in Runner}
Total(count) == Cardinality(Slots(count))

(* Mutant of HasCapacity: what has been created and not yet spawned does not *)
(* count.                                                                    *)
CountProcesses == Total(live) < MAX_CONCURRENT_HEADLESS

(* runningCount. *)
HasCapacity == Total(running) < MAX_CONCURRENT_HEADLESS

(* Mutant of Rejected: the marker is set although nothing was dispatched. *)
MarkRejected(w) ==
  /\ Leave(w)
  /\ markers' = [markers EXCEPT ![cur[w]] = scanAt]
  /\ UNCHANGED <<now, scanning, scanAt, seen, todo, captured, file, open, running, live,
                 orphans, fired, forgot>>

(* HeadlessCapacityError: the issue stays due. *)
Rejected(w) == NotFired(w)

DispatchRejected(w) ==
  /\ stage[w] = "dispatch" /\ ~HasCapacity
  /\ Rejected(w)
  /\ UNCHANGED events

(* The check and the new record are one step; the record is on file before   *)
(* the process exists.                                                       *)
CreateRecord(w) ==
  /\ stage[w] = "dispatch" /\ HasCapacity
  /\ running' = [running EXCEPT ![cur[w]] = @ + 1]
  /\ stage' = [stage EXCEPT ![w] = "create"]
  /\ UNCHANGED <<now, scanning, scanAt, seen, todo, cur, captured, markers, file, open,
                 live, orphans, events, fired, forgot>>

(* The marker is set, and its flush follows; the run begins, or fails when    *)
(* its credential is awaited a second time.                                  *)
Launch(w, starts) ==
  LET i == cur[w] IN
  /\ stage[w] = "create"
  /\ \/ /\ starts
        /\ live' = [live EXCEPT ![i] = @ + 1]
        /\ UNCHANGED <<running, events>>
     \/ /\ ~starts /\ Event
        /\ running' = [running EXCEPT ![i] = @ - 1]
        /\ UNCHANGED live
  /\ markers' = [markers EXCEPT ![i] = scanAt]
  /\ captured' = [captured EXCEPT ![w] = markers']
  /\ stage' = [stage EXCEPT ![w] = "mark"]
  /\ fired' = [fired EXCEPT ![i] = scanAt] /\ forgot' = [forgot EXCEPT ![i] = FALSE]
  /\ UNCHANGED <<now, scanning, scanAt, seen, todo, cur, file, open, orphans>>

(* flush: written, or only warned of.  Flushes of two workspaces end in any  *)
(* order.                                                                    *)
MarkFlushed(w, written) ==
  /\ stage[w] = "mark"
  /\ IF written THEN UNCHANGED events ELSE Event
  /\ file' = IF written THEN captured[w] ELSE file
  /\ captured' = [captured EXCEPT ![w] = NoMarks]
  /\ Leave(w)
  /\ UNCHANGED <<now, scanning, scanAt, seen, todo, markers, open, running, live, orphans,
                 fired, forgot>>

(* prune: markers of issues the scan did not see are dropped. *)
EndScan ==
  LET lost == {i \in Issue \ seen : markers[i] # Never} IN
  /\ scanning /\ \A w \in Workspace : stage[w] = "issues" /\ todo[w] = {}
  /\ markers' = [i \in Issue |-> IF i \in lost THEN Never ELSE markers[i]]
  /\ file' = IF lost = {} THEN file ELSE markers'
  /\ forgot' = [i \in Issue |-> forgot[i] \/ i \in lost]
  /\ scanning' = FALSE /\ stage' = Idle("idle") /\ seen' = {}
  /\ UNCHANGED <<now, scanAt, todo, cur, captured, open, running, live, orphans, events,
                 fired>>

-----------------------------------------------------------------------------
(* RUNS *)

ManualRun ==
  /\ HasCapacity /\ Event
  /\ running' = [running EXCEPT ![Manual] = @ + 1]
  /\ live' = [live EXCEPT ![Manual] = @ + 1]
  /\ UNCHANGED <<now, scanVars, markers, file, open, orphans, fired, forgot>>

(* A run exits, or its timeout kills it.  A one-shot issue is closed after a  *)
(* clean exit, if its file can be changed.                                   *)
RunEnds(r, closes) ==
  /\ live[r] > 0
  /\ closes => r \in Issue /\ When[r].kind = "at"
  /\ live' = [live EXCEPT ![r] = @ - 1] /\ running' = [running EXCEPT ![r] = @ - 1]
  /\ open' = IF closes THEN [open EXCEPT ![r] = FALSE] ELSE open
  /\ UNCHANGED <<now, scanVars, markers, file, orphans, events, fired, forgot>>

(* A run of an earlier Alice exits; nothing waits for it or kills it. *)
OrphanEnds ==
  /\ orphans > 0 /\ orphans' = orphans - 1
  /\ UNCHANGED <<now, scanVars, markers, file, open, running, live, events, fired,
                 forgot>>

Tick ==
  /\ now < MaxNow /\ now' = now + 1
  /\ UNCHANGED <<scanVars, markers, file, open, running, live, orphans, events, fired,
                 forgot>>

(* Mutant of Reconciled: the records are taken as they are. *)
AsRecorded(count) == count

(* reconcile: what ran when the last process died is interrupted. *)
Reconciled(count) == 0

(* Alice dies and starts again.  The runs were spawned as plain children,     *)
(* which nobody ends: they go on, and their watchdogs died with Alice.       *)
CrashRestart ==
  /\ Event
  /\ scanning' = FALSE /\ scanAt' = 0 /\ seen' = {}
  /\ stage' = Idle("idle") /\ todo' = Idle({}) /\ cur' = Idle(NoIssue)
  /\ captured' = Idle(NoMarks)
  /\ markers' = file
  /\ forgot' = [i \in Issue |-> forgot[i] \/ file[i] # fired[i]]
  /\ orphans' = orphans + Total(live)
  /\ live' = [r \in DOMAIN live |-> 0]
  /\ running' = [r \in DOMAIN running |-> Reconciled(running[r])]
  /\ UNCHANGED <<now, file, open, fired>>

WorkspaceStep(w) ==
  \/ ReadIssues(w, {i \in Issue : Home[i] = w})
  \/ \E i \in Issue : PassBy(w, i)
  \/ \E i \in Issue : Fire(w, i)
  \/ DispatchRejected(w)
  \/ CreateRecord(w)
  \/ Launch(w, TRUE)
  \/ MarkFlushed(w, TRUE)

Next ==
  \/ StartScan
  \/ \E w \in Workspace : WorkspaceStep(w)
  \/ \E w \in Workspace, found \in SUBSET Issue : ReadIssues(w, found)
  \/ \E w \in Workspace : DispatchFails(w) \/ Launch(w, FALSE)
  \/ \E w \in Workspace : MarkFlushed(w, FALSE)
  \/ EndScan
  \/ ManualRun
  \/ \E r \in Runner, closes \in BOOLEAN : RunEnds(r, closes)
  \/ OrphanEnds
  \/ Tick
  \/ CrashRestart

Spec == Init /\ [][Next]_vars

(* The timer is armed again after each scan, what a scan awaits comes, and   *)
(* runs end or are killed after half an hour.                                *)
FairSpec ==
  /\ Spec /\ WF_vars(StartScan) /\ WF_vars(EndScan)
  /\ \A w \in Workspace : WF_vars(WorkspaceStep(w))
  /\ \A r \in Runner : WF_vars(RunEnds(r, FALSE) \/ RunEnds(r, TRUE))

-----------------------------------------------------------------------------
(* The cap holds for the runs of one Alice, though workspaces that fire side *)
(* by side and the route each await a credential before the check and a      *)
(* write after it.  Over restarts it does not: each of them, an event, leaves *)
(* up to as many processes again, and the next Alice counts none of those.   *)
CapHolds ==
  /\ Total(live) <= MAX_CONCURRENT_HEADLESS
  /\ orphans <= events * MAX_CONCURRENT_HEADLESS

(* No zombies (headless-task-registry.ts:10): a record says running exactly  *)
(* while a child of this Alice lives or is about to be spawned for it, also  *)
(* after a restart; a zombie would hold a slot of the cap for ever, and a    *)
(* run without a record would take one more than there are.                  *)
NoZombies ==
  \A r \in Runner :
    running[r] = live[r] + Cardinality({w \in Workspace : stage[w] = "create" /\ cur[w] = r})

(* "A restart never double-fires" (marker-store.ts:9-10), as far as it is true: *)
(* a run begins only when by then its schedule had come due, counted from    *)
(* the run before or, for the first, from the baseline; unless the marker of *)
(* the run before was lost: to a crash before its write, to a write that     *)
(* failed or was overtaken and a crash, or to a prune after a scan that      *)
(* could not read the issue.                                                 *)
NeverFiresEarly ==
  [][\A i \in Issue : live'[i] > live[i] =>
       forgot[i] \/ \E at \in 0..now : DueAfter(i, fired[i], at)]_vars

(* A marker says when the issue was last dispatched and nothing else, unless *)
(* it was lost in one of those ways: a dispatch that fails or is rejected    *)
(* leaves none (scanner.ts:223), and neither flushes that end out of order   *)
(* nor workspaces scanned side by side take one away.                        *)
MarkersTrue == \A i \in Issue : ~forgot[i] => markers[i] = fired[i]

(* An issue that is due is dispatched: full slots and failing credentials    *)
(* delay it, rejection leaves no mark, and a one-shot or repeating issue     *)
(* whose marker was lost is due at once.  A cron issue without a marker has  *)
(* no such promise, whether it never fired or its marker was lost: the scan  *)
(* looks back one interval (declaration.ts:82), and what it passes over is   *)
(* missed for good.                                                          *)
HistoryDue(i) ==
  open[i] /\ (markers[i] # Never \/ When[i].kind # "cron") /\ DueAfter(i, fired[i], now)
DueFires == \A i \in Issue : HistoryDue(i) ~> ~HistoryDue(i)

=============================================================================
