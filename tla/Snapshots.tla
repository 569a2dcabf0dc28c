------------------------------ MODULE Snapshots ------------------------------
(***************************************************************************)
(* The snapshots of one account: the pump that takes them on schedule       *)
(* (snapshot/scheduler.ts), the service with its one retry and the hooks    *)
(* after a push (snapshot/service.ts), and the chunked files with their     *)
(* index (snapshot/store.ts).  The store runs appends and deletes one after *)
(* the other; reads go past that chain.  A snapshot is its timestamp.       *)
(***************************************************************************)
EXTENDS Pump, Integers, Subsequences, SequencesExt

CONSTANTS
  Scheduled,      \* the snapshots the pump's tick takes
  Hook,           \* post-push and post-reject hooks in flight
  CHUNK_SIZE,
  NoDraft,
  MaxSnapshots, MaxDeletes, MaxFaults   \* bounds

ASSUME SnapshotAssumption ==
  /\ Scheduled \notin Hook /\ CHUNK_SIZE \in Nat \ {0}
  /\ MaxSnapshots \in Nat /\ MaxDeletes \in Nat /\ MaxFaults \in Nat
  /\ NoDraft \notin Seq([file : Nat, count : Nat, startTime : Nat, endTime : Nat])

VARIABLES
  index,      \* the chunks of index.json
  files,      \* the lines of chunk files; a file without lines does not exist
  chain,      \* the operations in writeChain, the running one first
  draft,      \* the index the running operation is going to save
  taker,      \* what each takeSnapshot is at
  clock,      \* the next timestamp
  reader,     \* a readRange: entries it has still to read, and which
              \* snapshots it has still to find
  deletes, faults,
  (* history *)
  acked,      \* snapshots whose append resolved
  doomed,     \* snapshots a delete was asked for
  gone,       \* those whose delete resolved
  leftover,   \* those whose chunk file a delete could not unlink
  emptied     \* a delete took the last line of a chunk that is not the newest

storeVars   == <<index, files, chain, draft>>
historyVars == <<acked, doomed, gone, leftover, emptied>>
vars == <<pumpVars, storeVars, taker, clock, reader, deletes, faults, historyVars>>

Taker     == {Scheduled} \cup Hook
Timestamp == 1..MaxSnapshots
Chunk     == [file : Nat, count : Nat, startTime : Timestamp, endTime : Timestamp]
Operation == [kind : {"append", "delete"}, time : Timestamp, by : Taker]

SnapshotsTypeOK ==
  /\ PumpTypeOK
  /\ index \in Seq(Chunk)
  /\ files \in [1..MaxSnapshots -> Seq(Timestamp)]
  /\ chain \in Seq(Operation)
  /\ draft = NoDraft \/ (draft \in Seq(Chunk) /\ chain # <<>>)
  /\ taker \in [Taker -> {"idle", "build", "append", "delay", "rebuild", "reappend", "done"}]
  /\ (taker[Scheduled] # "idle") = processing
  /\ clock \in 1..MaxSnapshots + 1
  /\ reader \in [on : BOOLEAN, rest : Seq(Chunk), due : SUBSET Timestamp]
  /\ deletes \in 0..MaxDeletes /\ faults \in 0..MaxFaults
  /\ gone \subseteq doomed /\ leftover \subseteq doomed /\ emptied \in BOOLEAN

NoRead == [on |-> FALSE, rest |-> <<>>, due |-> {}]

Init ==
  /\ PumpInit
  /\ index = <<>> /\ files = [n \in 1..MaxSnapshots |-> <<>>]
  /\ chain = <<>> /\ draft = NoDraft
  /\ taker = [t \in Taker |-> "idle"] /\ clock = 1
  /\ reader = NoRead /\ deletes = 0 /\ faults = 0
  /\ acked = {} /\ doomed = {} /\ gone = {}
  /\ leftover = {} /\ emptied = FALSE

Fault == faults < MaxFaults /\ faults' = faults + 1

-----------------------------------------------------------------------------
(* THE STORE *)

(* Mutant of NextChunk: the names count from the chunk before. *)
ReuseChunk == IF index = <<>> THEN 1 ELSE Len(index)

NextChunk == Len(index) + 1

(* doAppend: where a snapshot goes, and the index that says so. *)
Target == IF index = <<>> \/ Last(index).count >= CHUNK_SIZE
          THEN NextChunk ELSE Last(index).file
AfterAppend(time) ==
  IF index = <<>> \/ Last(index).count >= CHUNK_SIZE
  THEN Append(index, [file |-> NextChunk, count |-> 1, startTime |-> time, endTime |-> time])
  ELSE [index EXCEPT ![Len(index)].count = @ + 1, ![Len(index)].endTime = time]

(* doDelete: the chunks that may hold the timestamp, in order; reading a     *)
(* file that does not exist throws.                                          *)
Hit(time) ==
  SelectInSeq(index, LAMBDA c : /\ c.startTime <= time /\ time <= c.endTime
                                /\ files[c.file] = <<>> \/ time \in ToSet(files[c.file]))

Deletable(time) == Hit(time) # 0 /\ files[index[Hit(time)].file] # <<>>

Kept(lines, time) == Only(lines, Timestamp \ {time})

(* Mutant of AfterDelete: the end of a rewritten chunk is taken from the     *)
(* wrong line.                                                               *)
StaleRange(i, lines) ==
  IF lines = <<>> THEN RemoveAt(index, i)
  ELSE [index EXCEPT ![i].count = Len(lines), ![i].endTime = Head(lines)]

AfterDelete(i, lines) ==
  IF lines = <<>> THEN RemoveAt(index, i)
  ELSE [index EXCEPT ![i].count = Len(lines), ![i].startTime = Head(lines),
                     ![i].endTime = Last(lines)]

(* Mutant of Failed: the tick is over without the retry. *)
NoRetry(t) == "idle"

(* takeSnapshot answered null: takeAllSnapshots tries once more, later. *)
Failed(t) == IF t # Scheduled THEN "idle"
             ELSE IF taker[t] \in {"build", "append"} THEN "delay" ELSE "done"
Taken(t) == IF t = Scheduled THEN "done" ELSE "idle"

(* Mutant of NextOf: the chain keeps the rejection. *)
Stuck(ok) == IF ok THEN Tail(chain) ELSE chain

NextOf(ok) == Tail(chain)

(* Mutant of Settle: append answers with the chain, whose errors are caught. *)
SettleCaught(ok, logged) ==
  LET op == Head(chain) IN
  /\ chain' = NextOf(ok) /\ draft' = NoDraft
  /\ taker' = IF op.kind = "delete" THEN taker ELSE [taker EXCEPT ![op.by] = Taken(op.by)]
  /\ acked' = IF op.kind = "append" THEN acked \cup {op.time} ELSE acked
  /\ gone' = IF ok /\ op.kind = "delete" THEN gone \cup {op.time} ELSE gone

(* The running operation resolves or rejects, and the chain goes on.  A      *)
(* snapshot that is stored counts as taken once the event log has it: when   *)
(* that append fails, takeSnapshot answers null and leaves the snapshot.     *)
Settle(ok, logged) ==
  LET op == Head(chain) IN
  /\ chain' = NextOf(ok) /\ draft' = NoDraft
  /\ taker' = IF op.kind = "delete" THEN taker
              ELSE [taker EXCEPT ![op.by] = IF ok /\ logged THEN Taken(op.by) ELSE Failed(op.by)]
  /\ acked' = IF ok /\ op.kind = "append" THEN acked \cup {op.time} ELSE acked
  /\ gone' = IF ok /\ op.kind = "delete" THEN gone \cup {op.time} ELSE gone

(* A line is on file before the index knows of it. *)
AppendLine ==
  /\ chain # <<>> /\ draft = NoDraft /\ Head(chain).kind = "append"
  /\ files' = [files EXCEPT ![Target] = Append(@, Head(chain).time)]
  /\ draft' = AfterAppend(Head(chain).time)
  /\ UNCHANGED <<pumpVars, index, chain, taker, clock, reader, deletes, faults, historyVars>>

(* The chunk is rewritten, or unlinked when nothing is left.  The error of   *)
(* an unlink is swallowed: the file stays, and the index drops the chunk.    *)
DeleteLine ==
  LET time  == Head(chain).time
      i     == Hit(time)
      lines == Kept(files[index[i].file], time)
  IN
  /\ chain # <<>> /\ draft = NoDraft /\ Head(chain).kind = "delete"
  /\ Deletable(time)
  /\ \/ /\ files' = [files EXCEPT ![index[i].file] = lines]
        /\ UNCHANGED <<faults, leftover>>
     \/ /\ lines = <<>> /\ Fault
        /\ leftover' = leftover \cup {time}
        /\ UNCHANGED files
  /\ draft' = AfterDelete(i, lines)
  /\ emptied' = (emptied \/ (lines = <<>> /\ i # Len(index)))
  /\ UNCHANGED <<pumpVars, index, chain, taker, clock, reader, deletes, acked, doomed, gone>>

(* Nothing to delete: no chunk has it, or a file of the index is missing. *)
DeleteNothing ==
  /\ chain # <<>> /\ draft = NoDraft /\ Head(chain).kind = "delete"
  /\ ~Deletable(Head(chain).time)
  /\ Settle(FALSE, TRUE)
  /\ UNCHANGED <<pumpVars, index, files, clock, reader, deletes, faults,
                 doomed, leftover, emptied>>

SaveIndex ==
  /\ draft # NoDraft
  /\ index' = draft
  /\ \/ Settle(TRUE, TRUE) /\ UNCHANGED faults
     \/ Head(chain).kind = "append" /\ Fault /\ Settle(TRUE, FALSE)
  /\ UNCHANGED <<pumpVars, files, clock, reader, deletes, doomed, leftover, emptied>>

(* Reading or writing a chunk, mkdir or saving the index fails. *)
StoreFails ==
  /\ chain # <<>>
  /\ Fault
  /\ Settle(FALSE, TRUE)
  /\ UNCHANGED <<pumpVars, index, files, clock, reader, deletes, doomed, leftover, emptied>>

-----------------------------------------------------------------------------
(* THE SERVICE *)

(* buildSnapshot: nothing while the account is offline or its venue fails. *)
BuildNull(t) ==
  /\ taker[t] \in {"build", "rebuild"}
  /\ taker' = [taker EXCEPT ![t] = Failed(t)]
  /\ UNCHANGED <<pumpVars, storeVars, clock, reader, deletes, faults, historyVars>>

Build(t) ==
  /\ taker[t] \in {"build", "rebuild"} /\ clock <= MaxSnapshots
  /\ clock' = clock + 1
  /\ chain' = Append(chain, [kind |-> "append", time |-> clock, by |-> t])
  /\ taker' = [taker EXCEPT ![t] = IF @ = "build" THEN "append" ELSE "reappend"]
  /\ UNCHANGED <<pumpVars, index, files, draft, reader, deletes, faults, historyVars>>

RetryDelayEnds ==
  /\ taker[Scheduled] = "delay"
  /\ taker' = [taker EXCEPT ![Scheduled] = "rebuild"]
  /\ UNCHANGED <<pumpVars, storeVars, clock, reader, deletes, faults, historyVars>>

HookFires(t) ==
  /\ t \in Hook /\ taker[t] = "idle"
  /\ taker' = [taker EXCEPT ![t] = "build"]
  /\ UNCHANGED <<pumpVars, storeVars, clock, reader, deletes, faults, historyVars>>

DeleteSnapshot(time) ==
  /\ deletes < MaxDeletes /\ deletes' = deletes + 1
  /\ time < clock
  /\ chain' = Append(chain, [kind |-> "delete", time |-> time, by |-> Scheduled])
  /\ doomed' = doomed \cup {time}
  /\ UNCHANGED <<pumpVars, index, files, draft, taker, clock, reader, faults,
                 acked, gone, leftover, emptied>>

(* The pump, as far as the scheduler exposes it: the setting decides once    *)
(* whether it is enabled.  A tick is one takeAllSnapshots, which never throws. *)
PumpStep ==
  /\ \/ Start
     \/ Stop
     \/ TimerDropped
     \/ TimerTicks
     \/ \E c \in Caller : RunNow(c)
  /\ taker' = [taker EXCEPT ![Scheduled] = IF processing' /\ ~processing THEN "build" ELSE @]
  /\ UNCHANGED <<storeVars, clock, reader, deletes, faults, historyVars>>

AllTaken ==
  /\ taker[Scheduled] = "done"
  /\ TickEnds
  /\ taker' = [taker EXCEPT ![Scheduled] = "idle"]
  /\ UNCHANGED <<storeVars, clock, reader, deletes, faults, historyVars>>

-----------------------------------------------------------------------------
(* readRange without bounds, newest chunk first. *)
ReadIndex ==
  /\ ~reader.on
  /\ reader' = [on |-> TRUE, rest |-> index, due |-> acked \ doomed]
  /\ UNCHANGED <<pumpVars, storeVars, taker, clock, deletes, faults, historyVars>>

ReadChunk ==
  /\ reader.on /\ reader.rest # <<>>
  /\ LET lines == files[Last(reader.rest).file] IN
     reader' = IF lines = <<>> THEN NoRead   \* ENOENT: the route answers with nothing
               ELSE [reader EXCEPT !.rest = Front(@), !.due = @ \ ToSet(lines)]
  /\ UNCHANGED <<pumpVars, storeVars, taker, clock, deletes, faults, historyVars>>

ReadAnswers ==
  /\ reader.on /\ reader.rest = <<>>
  /\ reader' = NoRead
  /\ UNCHANGED <<pumpVars, storeVars, taker, clock, deletes, faults, historyVars>>

-----------------------------------------------------------------------------
(* The service dies and starts with a new pump on the same files. *)
CrashRestart ==
  /\ Fault
  /\ UNCHANGED enabled
  /\ stopped' = FALSE /\ started' = FALSE
  /\ timer' = FALSE /\ processing' = FALSE /\ waiting' = {}
  /\ chain' = <<>> /\ draft' = NoDraft
  /\ taker' = [t \in Taker |-> "idle"] /\ reader' = NoRead
  /\ UNCHANGED <<index, files, clock, deletes, historyVars>>

StoreStep == AppendLine \/ DeleteLine \/ DeleteNothing \/ SaveIndex
TakerStep(t) == BuildNull(t) \/ Build(t)

Next ==
  \/ StoreStep
  \/ StoreFails
  \/ \E t \in Taker : TakerStep(t)
  \/ RetryDelayEnds
  \/ \E t \in Hook : HookFires(t)
  \/ \E time \in Timestamp : DeleteSnapshot(time)
  \/ PumpStep
  \/ AllTaken
  \/ ReadIndex
  \/ ReadChunk
  \/ ReadAnswers
  \/ CrashRestart

Spec == Init /\ [][Next]_vars

(* Timers fire, file operations and venue calls end. *)
FairSpec ==
  /\ Spec
  /\ WF_vars(StoreStep) /\ WF_vars(TakerStep(Scheduled))
  /\ WF_vars(RetryDelayEnds) /\ WF_vars(AllTaken)
  /\ WF_vars(TimerTicks /\ PumpStep)

-----------------------------------------------------------------------------
(* Where the chunks that are listed have a snapshot: the chunk and the line. *)
Places(time) ==
  UNION {{<<i, j>> : j \in {k \in DOMAIN files[index[i].file] : files[index[i].file][k] = time}} :
         i \in DOMAIN index}

(* The history is what was taken and not deleted, each snapshot once: not    *)
(* touched by failed writes, by crashes between the line and the index, or   *)
(* by a delete that rewrites the chunk a new snapshot goes to.  Only a       *)
(* delete that empties a chunk before the newest breaks it: the next chunk   *)
(* takes a name that is in use, store.ts:69.  What was deleted stays         *)
(* deleted, except the line of a file that could not be unlinked: a later    *)
(* chunk takes the file over, store.ts:106.                                  *)
ListingIsTrue ==
  /\ ~emptied => \A time \in acked \ doomed : Cardinality(Places(time)) = 1
  /\ \A time \in gone \ leftover : Places(time) = {}

(* What is listed can be deleted: the range the index gives a chunk covers   *)
(* every acknowledged line of it, also while an operation is half done; the  *)
(* line of a file that was not unlinked is outside the range of the next     *)
(* chunk in that file.                                                       *)
Findable ==
  ~emptied =>
    \A i \in DOMAIN index : \A time \in (acked \ leftover) \cap ToSet(files[index[i].file]) :
      index[i].startTime <= time /\ time <= index[i].endTime

(* A read that meets all its files overlaps appends and deletes and still    *)
(* answers with every snapshot that was there when it began and that nobody  *)
(* asked to delete.                                                          *)
ReadIsComplete ==
  ~emptied /\ reader.on /\ reader.rest = <<>> => reader.due \subseteq doomed

(* A pump that stays on keeps beginning ticks and ending them: failed        *)
(* accounts, a failing disk and the single retry do not hold it up.          *)
TicksComeAndGo ==
  <>[](started /\ enabled /\ ~stopped) => []<>processing /\ []<>~processing

=============================================================================
