--------------------------- MODULE SnapshotsProofs ---------------------------
(***************************************************************************)
(* What TLAPS proves of the interval pump, alone and as the snapshot        *)
(* scheduler uses it, and of the snapshot store: for any number of callers  *)
(* of runNow, hooks, snapshots, deletes and failures, and any chunk size.   *)
(***************************************************************************)
EXTENDS Snapshots, SubsequencesProofs, FiniteSetTheorems, TLAPS

PumpInv == PumpTypeOK /\ PumpAlive /\ PumpQuiet

LEMMA PumpInvInit == PumpInit => PumpInv
  BY DEF PumpInit, PumpInv, PumpTypeOK, PumpAlive, PumpQuiet

LEMMA PumpInvNext == PumpInv /\ [PumpNext]_pumpVars => PumpInv'
<1> SUFFICES ASSUME PumpInv, [PumpNext]_pumpVars PROVE PumpInv'
  OBVIOUS
<1> USE DEF PumpInv, PumpTypeOK, PumpAlive, PumpQuiet
<1>1. CASE Start
  BY <1>1 DEF Start, Armed
<1>2. CASE Stop
  BY <1>2 DEF Stop
<1>3. ASSUME NEW on \in BOOLEAN, SetEnabled(on) PROVE PumpInv'
  BY <1>3 DEF SetEnabled, Armed
<1>4. CASE TimerTicks
  BY <1>4 DEF TimerTicks
<1>5. CASE TimerDropped
  BY <1>5 DEF TimerDropped
<1>6. ASSUME NEW c \in Caller, RunNow(c) PROVE PumpInv'
  BY <1>6 DEF RunNow
<1>7. CASE TickEnds
  BY <1>7 DEF TickEnds, Rearm, Armed
<1>8. CASE UNCHANGED pumpVars
  BY <1>8 DEF pumpVars
<1>9. QED
  BY <1>1, <1>2, <1>3, <1>4, <1>5, <1>6, <1>7, <1>8 DEF PumpNext

LEMMA PumpInvAlways == PumpSpec => []PumpInv
  BY PumpInvInit, PumpInvNext, PTL DEF PumpSpec

(* The flags of createPump (pump.ts) and the callers of runNow keep their    *)
(* types under every handler.                                                *)
THEOREM PumpTypeCorrect == PumpSpec => []PumpTypeOK
<1>1. PumpInv => PumpTypeOK
  BY DEF PumpInv
<1>2. QED
  BY <1>1, PumpInvAlways, PTL

(* A started and enabled pump always has a timer armed or a tick in flight,  *)
(* whatever runNow, setEnabled and dropped fires do in between.              *)
THEOREM PumpNeverDies == PumpSpec => []PumpAlive
<1>1. PumpInv => PumpAlive
  BY DEF PumpInv
<1>2. QED
  BY <1>1, PumpInvAlways, PTL

(* A stopped or disabled pump has no timer, also when the tick that was in   *)
(* flight at the time ends later.                                            *)
THEOREM PumpStaysQuiet == PumpSpec => []PumpQuiet
<1>1. PumpInv => PumpQuiet
  BY DEF PumpInv
<1>2. QED
  BY <1>1, PumpInvAlways, PTL

-----------------------------------------------------------------------------
(* A step of the snapshot service is a step of its pump, leaves it alone, or *)
(* is a crash, which starts a new one.                                       *)
LEMMA ServiceStep == Next => PumpNext \/ UNCHANGED pumpVars \/ CrashRestart
<1>1. ASSUME PumpStep PROVE PumpNext
  BY <1>1 DEF PumpStep, PumpNext
<1>2. ASSUME AllTaken PROVE PumpNext
  BY <1>2 DEF AllTaken, PumpNext
<1>3. StoreStep \/ StoreFails => UNCHANGED pumpVars
  BY DEF StoreStep, AppendLine, DeleteLine, DeleteNothing, SaveIndex, StoreFails
<1>4. \A t \in Taker : TakerStep(t) => UNCHANGED pumpVars
  BY DEF TakerStep, BuildNull, Build
<1>5. RetryDelayEnds \/ (\E t \in Hook : HookFires(t)) => UNCHANGED pumpVars
  BY DEF RetryDelayEnds, HookFires
<1>6. (\E time \in Timestamp : DeleteSnapshot(time)) => UNCHANGED pumpVars
  BY DEF DeleteSnapshot
<1>7. ReadIndex \/ ReadChunk \/ ReadAnswers => UNCHANGED pumpVars
  BY DEF ReadIndex, ReadChunk, ReadAnswers
<1>8. QED
  BY <1>1, <1>2, <1>3, <1>4, <1>5, <1>6, <1>7 DEF Next

LEMMA CrashKeepsPump == PumpInv /\ CrashRestart => PumpInv'
BY DEF PumpInv, PumpTypeOK, PumpAlive, PumpQuiet, CrashRestart

LEMMA ServiceInvNext == PumpInv /\ [Next]_vars => PumpInv'
<1> SUFFICES ASSUME PumpInv, [Next]_vars PROVE PumpInv'
  OBVIOUS
<1>1. CASE PumpNext \/ UNCHANGED pumpVars
  BY <1>1, PumpInvNext
<1>2. CASE CrashRestart
  BY <1>2, CrashKeepsPump
<1>3. CASE UNCHANGED vars
  BY <1>3, PumpInvNext DEF vars
<1>4. QED
  BY <1>1, <1>2, <1>3, ServiceStep

(* The snapshot pump lives: neither failed accounts, a failing disk, manual  *)
(* snapshots during a tick nor a crash leaves a started and enabled          *)
(* scheduler without a timer and without a tick whose end arms one.          *)
THEOREM SnapshotPumpNeverDies == Spec => []PumpAlive
<1>1. Init => PumpInv
  BY PumpInvInit DEF Init
<1>2. PumpInv => PumpAlive
  BY DEF PumpInv
<1>3. QED
  BY <1>1, <1>2, ServiceInvNext, PTL DEF Spec

-----------------------------------------------------------------------------
(* THE STORE *)

File       == 1..MaxSnapshots
On(n)      == ToSet(files[n])
Appends(k) == chain[k].kind = "append"

(* The write chain: an append is younger than all that was asked before it,  *)
(* and no taker has two.                                                     *)
ChainInv ==
  /\ \A k \in 1..Len(chain) : chain[k].time < clock
  /\ \A j, k \in 1..Len(chain) : j < k /\ Appends(k) => chain[j].time < chain[k].time
  /\ \A k \in 1..Len(chain) : Appends(k) => taker[chain[k].by] \in {"append", "reappend"}
  /\ \A j, k \in 1..Len(chain) : j # k /\ Appends(j) /\ Appends(k) => chain[j].by # chain[k].by
  /\ \A k \in 1..Len(chain) : ~Appends(k) => chain[k].time \in doomed
  /\ \A t \in doomed : t \in Timestamp /\ t < clock

(* What is settled is older than every append that is still to run. *)
SettledInv ==
  \A t \in acked \cup gone :
    /\ t \in Timestamp /\ t < clock
    /\ \A k \in 1..Len(chain) : Appends(k) => t < chain[k].time

(* The lines of a file rise, no two files have a line in common, no deleted  *)
(* line is left but that of a file that could not be unlinked, and only the  *)
(* running append has written its own.                                       *)
FilesInv ==
  /\ \A n \in File : Rises(files[n])
  /\ \A m, n \in File : m # n => On(m) \cap On(n) = {}
  /\ \A n \in File : \A t \in On(n) :
       /\ t < clock /\ t \notin gone \ leftover
       /\ \A k \in 1..Len(chain) : Appends(k) =>
            t < chain[k].time \/ (k = 1 /\ draft # NoDraft /\ t = chain[1].time)

(* There are fewer chunks than timestamps, hence a name for the next one. *)
IndexInv ==
  /\ \A i \in 1..Len(index) : index[i].file \in File
  /\ Len(index) < clock
  /\ \A i \in 1..Len(index) : index[i].startTime < clock
  /\ \A k \in 1..Len(chain) : Appends(k) =>
       Len(index) < chain[k].time /\ \A i \in 1..Len(index) : index[i].startTime < chain[k].time

(* What the draft was computed from still holds when it is saved. *)
AppendDraft == draft = AfterAppend(chain[1].time) /\ chain[1].time \in On(Target)
DeletesChunk(i, lines) ==
  /\ lines \in {<<>>, files[index[i].file]} /\ draft = AfterDelete(i, lines)
  /\ lines = <<>> => On(index[i].file) \subseteq leftover
  /\ ~emptied /\ lines = <<>> => i = Len(index)
  /\ \A n \in File : chain[1].time \notin On(n) \ leftover
DeleteDraft == \E i \in 1..Len(index) : \E lines \in {<<>>, files[index[i].file]} :
                 DeletesChunk(i, lines)
DraftInv == draft # NoDraft => (Appends(1) /\ AppendDraft) \/ (~Appends(1) /\ DeleteDraft)

(* The index lists what was taken, in ranges that cover it; files beyond it  *)
(* have only lines of appends that failed and of files not unlinked.         *)
TrueInv ==
  ~emptied =>
    /\ \A i \in 1..Len(index) : index[i].file = i
    /\ \A t \in acked \ doomed : \E i \in 1..Len(index) : t \in On(i)
    /\ \A n \in File : n > Len(index) => On(n) \cap acked \subseteq leftover
    /\ \A i \in 1..Len(index) : \A t \in On(i) \cap (acked \ leftover) :
         index[i].startTime <= t /\ t <= index[i].endTime

(* What a read has not met yet is in a file it has still to read. *)
ReaderInv ==
  /\ \A i \in 1..Len(reader.rest) : reader.rest[i].file \in File
  /\ ~emptied => \A t \in reader.due \ doomed :
       \E i \in 1..Len(reader.rest) : t \in On(reader.rest[i].file)

StoreInv == ChainInv /\ SettledInv /\ FilesInv /\ IndexInv /\ DraftInv /\ TrueInv /\ ReaderInv

ServiceInv == PumpInv /\ SnapshotsTypeOK /\ StoreInv

-----------------------------------------------------------------------------
(* What the operators of the store compute. *)

LEMMA HitOf ==
  ASSUME NEW time, index \in Seq(Chunk), Hit(time) # 0
  PROVE  /\ Hit(time) \in 1..Len(index)
         /\ files[index[Hit(time)].file] = <<>> \/ time \in ToSet(files[index[Hit(time)].file])
<1> DEFINE Test(c) == /\ c.startTime <= time /\ time <= c.endTime
                      /\ files[c.file] = <<>> \/ time \in ToSet(files[c.file])
           I == {i \in 1..Len(index) : Test(index[i])}
<1>1. Hit(time) = IF I # {} THEN Min(I) ELSE 0
  BY Zenon DEF Hit, SelectInSeq
<1>2. I \in SUBSET Nat /\ I # {}
  BY <1>1
<1>3. Min(I) \in I
  <2> HIDE DEF I
  <2>1. QED
    BY <1>2, SmallestIndex
<1>4. Hit(time) \in I
  BY <1>1, <1>2, <1>3
<1>5. QED
  BY <1>4

(* doAppend adds a chunk or extends the newest. *)
AppendShape(d, time) ==
  /\ d \in Seq(Chunk) /\ Len(d) \in Nat \ {0}
  /\ Len(index) <= Len(d) /\ Len(d) <= Len(index) + 1
  /\ d[Len(d)].file = Target /\ d[Len(d)].endTime = time
  /\ \A i \in 1..Len(d) - 1 : i \in 1..Len(index) /\ d[i] = index[i]
  /\ Len(d) = Len(index) => /\ d[Len(d)].startTime = index[Len(d)].startTime
                            /\ Target = index[Len(d)].file
  /\ Len(d) # Len(index) => d[Len(d)].startTime = time /\ Target = Len(d)

LEMMA AfterAppendShape ==
  ASSUME index \in Seq(Chunk), NEW time \in Timestamp
  PROVE  AppendShape(AfterAppend(time), time)
<1>1. Len(index) \in Nat
  OBVIOUS
<1>2. CASE index = <<>> \/ Last(index).count >= CHUNK_SIZE
  <2> DEFINE c == [file |-> NextChunk, count |-> 1, startTime |-> time, endTime |-> time]
             d == Append(index, c)
  <2>1. Target = Len(index) + 1 /\ AfterAppend(time) = d
    BY <1>2 DEF Target, AfterAppend, NextChunk
  <2>2. c \in Chunk /\ c.file = Len(index) + 1 /\ c.startTime = time /\ c.endTime = time
    BY <1>1 DEF Chunk, NextChunk
  <2> HIDE DEF c
  <2>3. /\ d \in Seq(Chunk) /\ Len(d) = Len(index) + 1 /\ d[Len(index) + 1] = c
        /\ \A i \in 1..Len(index) : d[i] = index[i]
    BY <2>2, AppendOf
  <2> HIDE DEF d
  <2>4. \A i \in 1..Len(d) - 1 : i \in 1..Len(index) /\ d[i] = index[i]
    BY <1>1, <2>3
  <2>5. AppendShape(d, time)
    BY <1>1, <2>1, <2>2, <2>3, <2>4 DEF AppendShape
  <2>6. QED
    BY <2>1, <2>5
<1>3. CASE index # <<>> /\ ~(Last(index).count >= CHUNK_SIZE)
  <2> DEFINE n == Len(index)
             c == [index[n] EXCEPT !.count = index[n].count + 1, !.endTime = time]
             d == [index EXCEPT ![n] = c]
  <2>1. n \in Nat \ {0} /\ n \in 1..n /\ index[n] \in Chunk
    BY <1>1, <1>3
  <2>1a. index[n].count + 1 \in Nat
    BY <2>1 DEF Chunk
  <2>2. /\ c \in Chunk /\ c.file = index[n].file /\ c.startTime = index[n].startTime
        /\ c.endTime = time
    BY <2>1, <2>1a DEF Chunk
  <2>3. Target = index[n].file
    BY <1>3 DEF Target, Last
  <2>4. AfterAppend(time) = d
    BY <1>3, <2>1 DEF AfterAppend, Chunk
  <2> HIDE DEF c
  <2>5. d \in Seq(Chunk) /\ Len(d) = n /\ d[n] = c /\ \A i \in 1..n : i # n => d[i] = index[i]
    BY <2>1, <2>2, ReplaceOf
  <2> HIDE DEF d
  <2>6. \A i \in 1..n - 1 : i \in 1..n /\ d[i] = index[i]
    BY <2>1, <2>5
  <2>7. AppendShape(d, time)
    BY <2>1, <2>2, <2>3, <2>5, <2>6 DEF AppendShape
  <2>8. QED
    BY <2>4, <2>7
<1>4. QED
  BY <1>2, <1>3

(* doDelete drops the chunk's entry, or takes its range from what is left. *)
DeleteShape(d, i, lines) ==
  /\ d \in Seq(Chunk) /\ Len(d) <= Len(index)
  /\ lines = <<>> =>
       /\ Len(d) = Len(index) - 1
       /\ \A j \in 1..Len(d) : d[j] = (IF j < i THEN index[j] ELSE index[j + 1])
  /\ lines # <<>> =>
       /\ Len(d) = Len(index) /\ d[i].file = index[i].file
       /\ d[i].startTime = lines[1] /\ d[i].endTime = lines[Len(lines)]
       /\ \A j \in 1..Len(d) : j # i => d[j] = index[j]

LEMMA AfterDeleteShape ==
  ASSUME index \in Seq(Chunk), NEW i \in 1..Len(index), NEW lines \in Seq(Timestamp)
  PROVE  DeleteShape(AfterDelete(i, lines), i, lines)
<1>1. Len(index) \in Nat
  OBVIOUS
<1>2. CASE lines = <<>>
  <2>1. AfterDelete(i, lines) = RemoveAt(index, i)
    BY <1>2 DEF AfterDelete
  <2> DEFINE d == RemoveAt(index, i)
  <2>2. /\ d \in Seq(Chunk) /\ Len(d) = Len(index) - 1
        /\ \A j \in 1..Len(index) - 1 : d[j] = (IF j < i THEN index[j] ELSE index[j + 1])
    BY RemoveAtOf
  <2> HIDE DEF d
  <2>3. DeleteShape(d, i, lines)
    BY <1>1, <1>2, <2>2 DEF DeleteShape
  <2>4. QED
    BY <2>1, <2>3 DEF d
<1>3. CASE lines # <<>>
  <2> DEFINE d == AfterDelete(i, lines)
             c == [index[i] EXCEPT !.count = Len(lines), !.startTime = lines[1],
                                   !.endTime = lines[Len(lines)]]
  <2>1. /\ Len(lines) \in Nat \ {0} /\ Head(lines) = lines[1] /\ Last(lines) = lines[Len(lines)]
        /\ lines[1] \in Timestamp /\ lines[Len(lines)] \in Timestamp
    BY <1>3 DEF Last
  <2>2. index[i] \in Chunk
    OBVIOUS
  <2>3. /\ c \in Chunk /\ c.file = index[i].file /\ c.startTime = lines[1]
        /\ c.endTime = lines[Len(lines)]
    BY <2>1, <2>2 DEF Chunk
  <2>4. d = [index EXCEPT ![i] = c]
    BY <1>3, <2>1, <2>2 DEF AfterDelete, Chunk
  <2> HIDE DEF c, d
  <2>5. /\ d \in Seq(Chunk) /\ Len(d) = Len(index) /\ d[i] = c
        /\ \A j \in 1..Len(index) : j # i => d[j] = index[j]
    BY <2>3, <2>4, ReplaceOf
  <2>6. DeleteShape(d, i, lines)
    BY <1>1, <1>3, <2>3, <2>5 DEF DeleteShape
  <2>7. QED
    BY <2>6 DEF d
<1>4. QED
  BY <1>2, <1>3

(* The rewritten file: the line is gone, and nothing else. *)
LEMMA KeptLines ==
  ASSUME NEW lines \in Seq(Timestamp), NEW time
  PROVE  /\ Kept(lines, time) \in Seq(Timestamp)
         /\ ToSet(Kept(lines, time)) = ToSet(lines) \ {time}
         /\ Rises(lines) => Rises(Kept(lines, time))
<1>1. ToSet(lines) \subseteq Timestamp
  BY ElementsTyped
<1>2. /\ Only(lines, Timestamp \ {time}) \in Seq(Timestamp)
      /\ ToSet(Only(lines, Timestamp \ {time})) = ToSet(lines) \cap (Timestamp \ {time})
  BY OnlyElements
<1>3. Rises(lines) => Rises(Only(lines, Timestamp \ {time}))
  BY OnlyRises
<1>4. QED
  BY <1>1, <1>2, <1>3 DEF Kept

LEMMA ChunksAreNoDraft ==
  ASSUME NEW d \in Seq(Chunk)
  PROVE  d # NoDraft
<1>1. Chunk \subseteq [file : Nat, count : Nat, startTime : Nat, endTime : Nat]
  BY SnapshotAssumption DEF Chunk, Timestamp
<1>2. d \in Seq([file : Nat, count : Nat, startTime : Nat, endTime : Nat])
  BY <1>1, SeqWidens
<1>3. QED
  BY <1>2, SnapshotAssumption, Zenon

-----------------------------------------------------------------------------
LEMMA StoreTypes ==
  ASSUME SnapshotsTypeOK
  PROVE  /\ index \in Seq(Chunk) /\ Len(index) \in Nat /\ chain \in Seq(Operation) /\ Len(chain) \in Nat
         /\ \A k \in 1..Len(chain) : /\ chain[k] \in Operation /\ chain[k].time \in Timestamp
                                     /\ chain[k].by \in Taker
         /\ \A i \in 1..Len(index) : /\ index[i] \in Chunk /\ index[i].startTime \in Timestamp
                                     /\ index[i].endTime \in Timestamp
         /\ \A n \in File : files[n] \in Seq(Timestamp) /\ On(n) \subseteq Timestamp
         /\ clock \in 1..MaxSnapshots + 1 /\ Timestamp \subseteq Nat /\ MaxSnapshots \in Nat
<1>1. /\ index \in Seq(Chunk) /\ chain \in Seq(Operation) /\ clock \in 1..MaxSnapshots + 1
      /\ files \in [1..MaxSnapshots -> Seq(Timestamp)]
  BY DEF SnapshotsTypeOK
<1>2. Timestamp \subseteq Nat /\ MaxSnapshots \in Nat
  BY SnapshotAssumption DEF Timestamp
<1>3. \A n \in File : files[n] \in Seq(Timestamp)
  BY <1>1 DEF File
<1>4. \A n \in File : On(n) \subseteq Timestamp
  BY <1>3, ElementsTyped DEF On
<1>5. \A k \in 1..Len(chain) : /\ chain[k] \in Operation /\ chain[k].time \in Timestamp
                              /\ chain[k].by \in Taker
  <2>1. ASSUME NEW k \in 1..Len(chain) PROVE chain[k] \in Operation
    BY <1>1
  <2>2. \A op \in Operation : op.time \in Timestamp /\ op.by \in Taker
    BY DEF Operation
  <2>3. QED
    BY <2>1, <2>2
<1>6. \A i \in 1..Len(index) : /\ index[i] \in Chunk /\ index[i].startTime \in Timestamp
                              /\ index[i].endTime \in Timestamp
  <2>1. ASSUME NEW i \in 1..Len(index) PROVE index[i] \in Chunk
    BY <1>1
  <2>2. \A c \in Chunk : c.startTime \in Timestamp /\ c.endTime \in Timestamp
    BY DEF Chunk
  <2>3. QED
    BY <2>1, <2>2
<1>7. Len(index) \in Nat /\ Len(chain) \in Nat
  BY <1>1
<1>8. QED
  BY <1>1, <1>2, <1>3, <1>4, <1>5, <1>6, <1>7

(* What a delete is about to save does not depend on what is queued. *)
LEMMA DeleteDraftStays ==
  ASSUME DeleteDraft, UNCHANGED <<index, draft, leftover, emptied, files>>,
         (chain[1].time)' = chain[1].time
  PROVE  DeleteDraft'
<1>1. PICK i \in 1..Len(index) : \E lines \in {<<>>, files[index[i].file]} : DeletesChunk(i, lines)
  BY DEF DeleteDraft
<1>2. PICK lines \in {<<>>, files[index[i].file]} : DeletesChunk(i, lines)
  BY <1>1
<1>3. AfterDelete(i, lines)' = AfterDelete(i, lines)
  BY DEF AfterDelete
<1>4. \A n : On(n)' = On(n)
  BY DEF On
<1>5. DeletesChunk(i, lines)'
  BY <1>2, <1>3, <1>4 DEF DeletesChunk
<1>6. i \in 1..Len(index)' /\ lines \in {<<>>, files'[index'[i].file]}
  BY <1>2
<1>7. QED
  BY <1>5, <1>6, Zenon DEF DeleteDraft

(* Steps that leave the store alone. *)

LEMMA QuietStore ==
  ASSUME SnapshotsTypeOK, StoreInv, UNCHANGED <<storeVars, clock, reader, historyVars>>,
         \A t \in Taker : taker[t] \in {"append", "reappend"} => taker'[t] = taker[t]
  PROVE  StoreInv'
<1> USE DEF StoreInv
<1>1. /\ index' = index /\ files' = files /\ chain' = chain /\ draft' = draft /\ clock' = clock
      /\ reader' = reader /\ acked' = acked /\ doomed' = doomed /\ gone' = gone
      /\ leftover' = leftover /\ emptied' = emptied
  BY DEF storeVars, historyVars
<1>2. ChainInv'
  <2>1. \A k \in 1..Len(chain) : chain[k].by \in Taker
    BY StoreTypes
  <2>2. QED
    BY <1>1, <2>1 DEF ChainInv, Appends
<1>3. SettledInv'
  BY <1>1 DEF SettledInv, Appends
<1>4. FilesInv'
  BY <1>1 DEF FilesInv, Appends, On
<1>5. IndexInv'
  BY <1>1 DEF IndexInv, Appends
<1>6. DraftInv'
  BY <1>1 DEF DraftInv, AppendDraft, DeleteDraft, DeletesChunk, Appends, On, Target, NextChunk, AfterAppend, AfterDelete
<1>7. TrueInv'
  BY <1>1 DEF TrueInv, On
<1>8. ReaderInv'
  BY <1>1 DEF ReaderInv, On
<1>9. QED
  BY <1>2, <1>3, <1>4, <1>5, <1>6, <1>7, <1>8

(* readRange copies the index and reads file by file. *)
LEMMA ReadingKeeps ==
  ASSUME SnapshotsTypeOK, StoreInv, ReadIndex \/ ReadChunk \/ ReadAnswers
  PROVE  SnapshotsTypeOK' /\ StoreInv'
<1>1. /\ index' = index /\ files' = files /\ chain' = chain /\ draft' = draft /\ clock' = clock
      /\ acked' = acked /\ doomed' = doomed /\ gone' = gone /\ leftover' = leftover
      /\ emptied' = emptied /\ taker' = taker /\ deletes' = deletes /\ faults' = faults /\ UNCHANGED pumpVars
  BY DEF ReadIndex, ReadChunk, ReadAnswers, storeVars, historyVars
<1>2. ASSUME reader' = NoRead
      PROVE  ReaderInv' /\ reader' \in [on : BOOLEAN, rest : Seq(Chunk), due : SUBSET Timestamp]
  <2>1. reader' \in [on : BOOLEAN, rest : Seq(Chunk), due : SUBSET Timestamp]
    BY <1>2 DEF NoRead
  <2>2. ReaderInv'
    BY <1>2 DEF NoRead, ReaderInv
  <2>3. QED
    BY <2>1, <2>2
<1>3. ASSUME ReadIndex
      PROVE  ReaderInv' /\ reader' \in [on : BOOLEAN, rest : Seq(Chunk), due : SUBSET Timestamp]
  <2>1. reader' = [on |-> TRUE, rest |-> index, due |-> acked \ doomed]
    BY <1>3 DEF ReadIndex
  <2>2. acked \subseteq Timestamp
    BY DEF StoreInv, SettledInv
  <2>3. reader' \in [on : BOOLEAN, rest : Seq(Chunk), due : SUBSET Timestamp]
    BY <2>1, <2>2 DEF SnapshotsTypeOK
  <2>4. ReaderInv'
    BY <1>1, <2>1 DEF StoreInv, IndexInv, TrueInv, ReaderInv, On
  <2>5. QED
    BY <2>3, <2>4
<1>4. ASSUME ReadChunk /\ files[Last(reader.rest).file] # <<>>
      PROVE  ReaderInv' /\ reader' \in [on : BOOLEAN, rest : Seq(Chunk), due : SUBSET Timestamp]
  <2> DEFINE r == reader.rest
             lines == files[Last(r).file]
  <2>1. /\ r \in Seq(Chunk) /\ r # <<>> /\ reader.on \in BOOLEAN /\ reader.due \in SUBSET Timestamp
        /\ reader' = [on |-> reader.on, rest |-> Front(r), due |-> reader.due \ ToSet(lines)]
    BY <1>4 DEF ReadChunk, SnapshotsTypeOK
  <2>2. /\ Front(r) \in Seq(Chunk) /\ Len(Front(r)) = Len(r) - 1
        /\ \A j \in 1..Len(r) - 1 : Front(r)[j] = r[j]
        /\ Last(r) = r[Len(r)] /\ Len(r) \in 1..Len(r)
    BY <2>1, FrontOf
  <2>3. reader' \in [on : BOOLEAN, rest : Seq(Chunk), due : SUBSET Timestamp]
    BY <2>1, <2>2
  <2>4. \A i \in 1..Len(r) - 1 : i \in 1..Len(r)
    BY <2>1
  <2>5. \A i \in 1..Len(reader'.rest) : reader'.rest[i].file \in File
    BY <2>1, <2>2, <2>4 DEF StoreInv, ReaderInv
  <2>6. ASSUME ~emptied, NEW t \in reader'.due \ doomed
        PROVE  \E i \in 1..Len(reader'.rest) : t \in On(reader'.rest[i].file)
    <3>1. t \in reader.due \ doomed /\ t \notin ToSet(lines)
      BY <2>1, <2>6
    <3>2. PICK i \in 1..Len(r) : t \in On(r[i].file)
      BY <2>6, <3>1 DEF StoreInv, ReaderInv
    <3>3. i # Len(r)
      BY <2>2, <3>1, <3>2 DEF On
    <3>4. i \in 1..Len(r) - 1
      BY <2>2, <3>3
    <3>5. QED
      BY <2>1, <2>2, <3>2, <3>4
  <2>7. ReaderInv'
    BY <1>1, <2>5, <2>6 DEF ReaderInv, On
  <2>8. QED
    BY <2>3, <2>7
<1>5. ReaderInv' /\ reader' \in [on : BOOLEAN, rest : Seq(Chunk), due : SUBSET Timestamp]
  <2>1. ReadChunk /\ files[Last(reader.rest).file] = <<>> => reader' = NoRead
    BY DEF ReadChunk
  <2>2. ReadAnswers => reader' = NoRead
    BY DEF ReadAnswers
  <2>3. QED
    BY <1>2, <1>3, <1>4, <2>1, <2>2
<1>6. SnapshotsTypeOK'
  <2>1. PumpTypeOK'
    BY <1>1 DEF SnapshotsTypeOK, PumpTypeOK, pumpVars
  <2>2. processing' = processing
    BY <1>1 DEF pumpVars
  <2>3. QED
    BY <1>1, <1>5, <2>1, <2>2 DEF SnapshotsTypeOK
<1>7. StoreInv'
  <2> USE DEF StoreInv
  <2>1. ChainInv' /\ SettledInv' /\ IndexInv'
    BY <1>1 DEF ChainInv, SettledInv, IndexInv, Appends
  <2>2. FilesInv'
    BY <1>1 DEF FilesInv, Appends, On
  <2>3. DraftInv'
    BY <1>1 DEF DraftInv, AppendDraft, DeleteDraft, DeletesChunk, Appends, On, Target, NextChunk, AfterAppend, AfterDelete
  <2>4. TrueInv'
    BY <1>1 DEF TrueInv, On
  <2>5. QED
    BY <1>5, <2>1, <2>2, <2>3, <2>4
<1>8. QED
  BY <1>6, <1>7

-----------------------------------------------------------------------------
(* The running operation leaves the chain. *)

LEMMA TailKeeps ==
  ASSUME SnapshotsTypeOK, ChainInv, chain # <<>>, chain' = Tail(chain),
         clock' = clock, doomed' = doomed,
         \A t \in Taker : taker'[t] = taker[t] \/ (Appends(1) /\ t = chain[1].by)
  PROVE  /\ ChainInv' /\ chain' \in Seq(Operation)
         /\ 1 \in 1..Len(chain) /\ Len(chain') = Len(chain) - 1 /\ Len(chain) \in Nat
         /\ \A k \in 1..Len(chain') : /\ k + 1 \in 2..Len(chain) /\ k + 1 \in 1..Len(chain)
                                      /\ chain'[k] = chain[k + 1]
                                      /\ Appends(k)' <=> Appends(k + 1)
<1>1. chain \in Seq(Operation) /\ \A k \in 1..Len(chain) : chain[k].by \in Taker
  BY StoreTypes
<1>2. /\ Len(chain) \in Nat \ {0} /\ Tail(chain) \in Seq(Operation)
      /\ Len(Tail(chain)) = Len(chain) - 1
      /\ \A k \in 1..Len(Tail(chain)) : Tail(chain)[k] = chain[k + 1] /\ k + 1 \in 2..Len(chain)
  BY <1>1, TailOf
<1>3. \A k \in 1..Len(chain') : /\ k + 1 \in 2..Len(chain) /\ k + 1 \in 1..Len(chain)
                                /\ chain'[k] = chain[k + 1]
                                /\ Appends(k)' <=> Appends(k + 1)
  BY <1>2 DEF Appends
<1>4. \A k \in 1..Len(chain') : Appends(k)' => taker'[chain'[k].by] = taker[chain'[k].by]
  <2> SUFFICES ASSUME NEW k \in 1..Len(chain'), Appends(k)'
               PROVE  taker'[chain'[k].by] = taker[chain'[k].by]
    OBVIOUS
  <2>1. k + 1 \in 1..Len(chain) /\ 1 \in 1..Len(chain) /\ k + 1 # 1 /\ Appends(k + 1)
    BY <1>2, <1>3
  <2>2. Appends(1) => chain[1].by # chain[k + 1].by
    BY <2>1 DEF ChainInv
  <2>3. QED
    BY <1>1, <1>3, <2>1, <2>2
<1>5. ChainInv'
  <2>1. \A k \in 1..Len(chain') : chain'[k].time < clock'
    BY <1>3 DEF ChainInv
  <2>2. ASSUME NEW j \in 1..Len(chain'), NEW k \in 1..Len(chain'), j < k, Appends(k)'
        PROVE  chain'[j].time < chain'[k].time
    <3>1. j + 1 < k + 1
      BY <1>2, <2>2
    <3>2. QED
      BY <1>3, <2>2, <3>1 DEF ChainInv
  <2>3. \A k \in 1..Len(chain') : Appends(k)' => taker'[chain'[k].by] \in {"append", "reappend"}
    BY <1>3, <1>4 DEF ChainInv
  <2>4. ASSUME NEW j \in 1..Len(chain'), NEW k \in 1..Len(chain'), j # k, Appends(j)', Appends(k)'
        PROVE  chain'[j].by # chain'[k].by
    <3>1. j + 1 # k + 1
      BY <1>2, <2>4
    <3>2. QED
      BY <1>3, <2>4, <3>1 DEF ChainInv
  <2>5. \A k \in 1..Len(chain') : ~(Appends(k)') => chain'[k].time \in doomed'
    BY <1>3 DEF ChainInv
  <2>6. \A t \in doomed' : t \in Timestamp /\ t < clock'
    BY DEF ChainInv
  <2>7. QED
    BY <2>1, <2>2, <2>3, <2>4, <2>5, <2>6 DEF ChainInv
<1>6. QED
  BY <1>2, <1>3, <1>5

LEMMA DropHead ==
  ASSUME SnapshotsTypeOK, StoreInv, chain # <<>>, chain' = Tail(chain), draft' = NoDraft,
         UNCHANGED <<index, files, clock, reader, acked, doomed, gone, leftover, emptied>>,
         \A t \in Taker : taker'[t] = taker[t] \/ (Appends(1) /\ t = chain[1].by)
  PROVE  StoreInv'
<1> USE DEF StoreInv
<1>1. /\ ChainInv' /\ Len(chain) \in Nat
      /\ \A k \in 1..Len(chain') : /\ k + 1 \in 2..Len(chain) /\ k + 1 \in 1..Len(chain)
                                   /\ chain'[k] = chain[k + 1]
                                   /\ Appends(k)' <=> Appends(k + 1)
  BY TailKeeps
<1>2. SettledInv'
  BY <1>1 DEF SettledInv
<1>3. FilesInv'
  <2>1. \A n \in File : \A t \in On(n) :
          /\ t < clock /\ t \notin gone \ leftover
          /\ \A k \in 1..Len(chain') : Appends(k)' => t < chain'[k].time
    <3> SUFFICES ASSUME NEW n \in File, NEW t \in On(n), NEW k \in 1..Len(chain'), Appends(k)'
                 PROVE  t < chain'[k].time
      BY DEF FilesInv
    <3>1. k + 1 \in 1..Len(chain) /\ Appends(k + 1) /\ k + 1 # 1
      BY <1>1
    <3>2. t < chain[k + 1].time
      BY <3>1 DEF FilesInv
    <3>3. QED
      BY <1>1, <3>2
  <2>2. QED
    BY <2>1 DEF FilesInv, On
<1>4. IndexInv'
  BY <1>1 DEF IndexInv
<1>5. DraftInv'
  BY DEF DraftInv
<1>6. TrueInv' /\ ReaderInv'
  BY DEF TrueInv, ReaderInv, On
<1>7. QED
  BY <1>1, <1>2, <1>3, <1>4, <1>5, <1>6

(* What the end of the running operation does to its taker. *)
LEMMA SettleShape ==
  ASSUME SnapshotsTypeOK, ChainInv, chain # <<>>, NEW ok \in BOOLEAN,
         NEW logged \in BOOLEAN, Settle(ok, logged)
  PROVE  /\ chain' = Tail(chain) /\ draft' = NoDraft
         /\ taker' \in [Taker -> {"idle", "build", "append", "delay", "rebuild", "reappend", "done"}]
         /\ (taker'[Scheduled] # "idle") = (taker[Scheduled] # "idle")
         /\ \A t \in Taker : taker'[t] = taker[t] \/ (Appends(1) /\ t = chain[1].by)
         /\ acked' = IF ok /\ Appends(1) THEN acked \cup {chain[1].time} ELSE acked
         /\ gone' = IF ok /\ ~Appends(1) THEN gone \cup {chain[1].time} ELSE gone
<1> DEFINE by == chain[1].by
           what == IF ok /\ logged THEN Taken(by) ELSE Failed(by)
<1>1. /\ Head(chain) = chain[1] /\ chain[1] \in Operation /\ 1 \in 1..Len(chain) /\ by \in Taker
      /\ chain[1].kind \in {"append", "delete"}
  <2>1. chain \in Seq(Operation)
    BY StoreTypes
  <2>2. Head(chain) = chain[1] /\ chain[1] \in Operation /\ 1 \in 1..Len(chain)
    BY <2>1, TailOf
  <2>3. QED
    BY <2>2 DEF Operation
<1>2. Appends(1) <=> ~(chain[1].kind = "delete")
  BY <1>1 DEF Appends
<1>3. taker \in [Taker -> {"idle", "build", "append", "delay", "rebuild", "reappend", "done"}]
  BY DEF SnapshotsTypeOK
<1>4. taker' = IF Appends(1) THEN [taker EXCEPT ![by] = what] ELSE taker
  BY <1>1, <1>2 DEF Settle
<1>5. Appends(1) => taker[by] \in {"append", "reappend"}
  BY <1>1 DEF ChainInv
<1>6. what \in {"idle", "delay", "done"} /\ (by = Scheduled => what # "idle")
  BY DEF Taken, Failed
<1> HIDE DEF what
<1>7. taker' \in [Taker -> {"idle", "build", "append", "delay", "rebuild", "reappend", "done"}]
  BY <1>3, <1>4, <1>6
<1>8. \A t \in Taker : taker'[t] = taker[t] \/ (Appends(1) /\ t = by)
  BY <1>3, <1>4
<1>9. (taker'[Scheduled] # "idle") = (taker[Scheduled] # "idle")
  <2>1. Scheduled \in Taker
    BY DEF Taker
  <2>2. CASE Appends(1) /\ by = Scheduled
    BY <1>1, <1>3, <1>4, <1>5, <1>6, <2>1, <2>2
  <2>3. CASE ~(Appends(1) /\ by = Scheduled)
    BY <1>8, <2>1, <2>3
  <2>4. QED
    BY <2>2, <2>3
<1>10. chain' = Tail(chain) /\ draft' = NoDraft
  BY DEF Settle, NextOf
<1>11. /\ acked' = IF ok /\ Appends(1) THEN acked \cup {chain[1].time} ELSE acked
       /\ gone' = IF ok /\ ~Appends(1) THEN gone \cup {chain[1].time} ELSE gone
  <2>1. /\ acked' = IF ok /\ chain[1].kind = "append" THEN acked \cup {chain[1].time} ELSE acked
        /\ gone' = IF ok /\ chain[1].kind = "delete" THEN gone \cup {chain[1].time} ELSE gone
    BY <1>1, Zenon DEF Settle
  <2>2. Appends(1) <=> chain[1].kind = "append"
    BY DEF Appends
  <2>3. ~Appends(1) <=> chain[1].kind = "delete"
    BY <1>2
  <2>4. QED
    BY <2>1, <2>2, <2>3, Zenon
<1>12. QED
  BY <1>7, <1>8, <1>9, <1>10, <1>11

(* An operation that fails, and a delete that finds nothing. *)
LEMMA FailingKeeps ==
  ASSUME SnapshotsTypeOK, StoreInv, DeleteNothing \/ StoreFails
  PROVE  SnapshotsTypeOK' /\ StoreInv'
<1>1. /\ chain # <<>> /\ Settle(FALSE, TRUE)
      /\ UNCHANGED <<pumpVars, index, files, clock, reader, deletes, doomed, leftover, emptied>>
      /\ faults' = faults \/ (faults < MaxFaults /\ faults' = faults + 1)
  BY DEF DeleteNothing, StoreFails, Fault
<1>2. ChainInv
  BY DEF StoreInv
<1>3. /\ chain' = Tail(chain) /\ draft' = NoDraft
      /\ taker' \in [Taker -> {"idle", "build", "append", "delay", "rebuild", "reappend", "done"}]
      /\ (taker'[Scheduled] # "idle") = (taker[Scheduled] # "idle")
      /\ \A t \in Taker : taker'[t] = taker[t] \/ (Appends(1) /\ t = chain[1].by)
      /\ acked' = acked /\ gone' = gone
  BY <1>1, <1>2, SettleShape
<1>4. StoreInv'
  BY <1>1, <1>3, DropHead
<1>5. SnapshotsTypeOK'
  <2>1. chain' \in Seq(Operation)
    BY <1>1, <1>3, StoreTypes, TailOf
  <2>2. PumpTypeOK' /\ processing' = processing
    BY <1>1 DEF SnapshotsTypeOK, PumpTypeOK, pumpVars
  <2>3. faults' \in 0..MaxFaults
    BY <1>1, SnapshotAssumption DEF SnapshotsTypeOK
  <2>4. QED
    BY <1>1, <1>3, <2>1, <2>2, <2>3 DEF SnapshotsTypeOK
<1>6. QED
  BY <1>4, <1>5

-----------------------------------------------------------------------------
(* The chunk file and then the index. *)

(* doAppend has written the line: it is younger than every line on file. *)
LEMMA AppendLineKeeps ==
  ASSUME SnapshotsTypeOK, StoreInv, AppendLine
  PROVE  SnapshotsTypeOK' /\ StoreInv'
<1>a. PICK time : time = chain[1].time
  OBVIOUS
<1>b. PICK f : f = Target
  OBVIOUS
<1>1. /\ chain # <<>> /\ draft = NoDraft /\ Appends(1) /\ Head(chain) = chain[1]
      /\ files' = [files EXCEPT ![f] = Append(@, time)] /\ draft' = AfterAppend(time)
      /\ index' = index /\ chain' = chain /\ taker' = taker /\ clock' = clock /\ reader' = reader
      /\ deletes' = deletes /\ faults' = faults /\ UNCHANGED pumpVars
      /\ acked' = acked /\ doomed' = doomed /\ gone' = gone
      /\ leftover' = leftover /\ emptied' = emptied
  BY <1>a, <1>b, StoreTypes, TailOf DEF AppendLine, Appends, historyVars
<1>2. /\ 1 \in 1..Len(chain) /\ time \in Timestamp /\ time \in Nat
      /\ index \in Seq(Chunk) /\ clock \in Nat
      /\ time <= MaxSnapshots /\ MaxSnapshots \in Nat /\ Timestamp \subseteq Nat
      /\ \A n \in File : files[n] \in Seq(Timestamp) /\ On(n) \subseteq Timestamp
  BY <1>1, <1>a, StoreTypes, TailOf DEF Timestamp
<1>3. AppendShape(draft', time)
  BY <1>1, <1>2, AfterAppendShape
<1>4. f \in File
  <2>1. Len(index) < time /\ \A i \in 1..Len(index) : index[i].file \in File
    BY <1>a, <1>1, <1>2 DEF StoreInv, IndexInv
  <2>2. CASE Len(draft') = Len(index)
    BY <1>b, <1>3, <2>1, <2>2 DEF AppendShape
  <2>3. CASE Len(draft') # Len(index)
    BY <1>b, <1>2, <1>3, <2>1, <2>3 DEF AppendShape, File
  <2>4. QED
    BY <2>2, <2>3
<1>5. \A n \in File : \A t \in On(n) : t < time
  BY <1>a, <1>1, <1>2 DEF StoreInv, FilesInv
<1>6. files \in [File -> Seq(Timestamp)]
  BY DEF SnapshotsTypeOK, File
<1>7. /\ files' \in [File -> Seq(Timestamp)]
      /\ files'[f] = Append(files[f], time) /\ \A n \in File : n # f => files'[n] = files[n]
  <2>1. Append(files[f], time) \in Seq(Timestamp)
    BY <1>2, <1>4
  <2>2. QED
    BY <1>1, <1>4, <1>6, <2>1
<1>8. \A n \in File : On(n)' = IF n = f THEN On(n) \cup {time} ELSE On(n)
  <2>1. ToSet(files'[f]) = ToSet(files[f]) \cup {time}
    BY <1>2, <1>4, <1>7, AppendElements
  <2>2. QED
    BY <1>7, <2>1 DEF On
<1>9. draft' # NoDraft
  BY <1>3, ChunksAreNoDraft DEF AppendShape
<1>10. Target' = f /\ AfterAppend(time)' = AfterAppend(time)
  BY <1>b, <1>1 DEF Target, NextChunk, AfterAppend
<1>11. ChainInv' /\ SettledInv' /\ IndexInv'
  BY <1>1 DEF StoreInv, ChainInv, SettledInv, IndexInv, Appends
<1>12. FilesInv'
  <2>1. \A n \in File : Rises(files'[n])
    <3>1. Rises(files'[f])
      BY <1>2, <1>4, <1>5, <1>7, AppendRises DEF StoreInv, FilesInv, On
    <3>2. QED
      BY <1>7, <3>1 DEF StoreInv, FilesInv
  <2>2. \A m, n \in File : m # n => On(m)' \cap On(n)' = {}
    <3>1. \A n \in File : time \notin On(n)
      BY <1>2, <1>5
    <3>2. QED
      BY <1>8, <3>1 DEF StoreInv, FilesInv
  <2>3. ASSUME NEW n \in File, NEW t \in On(n)'
        PROVE  /\ t < clock /\ t \notin gone \ leftover
               /\ \A k \in 1..Len(chain) : Appends(k) => t < chain[k].time \/ (k = 1 /\ t = time)
    <3>1. CASE t \in On(n)
      BY <1>1, <3>1 DEF StoreInv, FilesInv
    <3>2. CASE t = time
      <4>1. time < clock
        BY <1>a, <1>2 DEF StoreInv, ChainInv
      <4>2. time \notin gone
        BY <1>a, <1>1, <1>2 DEF StoreInv, SettledInv
      <4>3. \A k \in 1..Len(chain) : Appends(k) => k = 1 \/ time < chain[k].time
        BY <1>a, <1>2 DEF StoreInv, ChainInv
      <4>4. QED
        BY <3>2, <4>1, <4>2, <4>3
    <3>3. QED
      BY <1>8, <2>3, <3>1, <3>2
  <2>4. \A k \in 1..Len(chain) : Appends(k)' <=> Appends(k)
    BY <1>1 DEF Appends
  <2>5. QED
    BY <1>a, <1>1, <1>9, <2>1, <2>2, <2>3, <2>4 DEF FilesInv
<1>13. DraftInv'
  <2>1. Appends(1)'
    BY <1>1 DEF Appends
  <2>2. time \in On(f)'
    BY <1>4, <1>8
  <2>3. AppendDraft'
    BY <1>a, <1>1, <1>10, <2>2 DEF AppendDraft
  <2>4. QED
    BY <2>1, <2>3 DEF DraftInv
<1>14. \A n \in File : On(n) \subseteq On(n)' /\ On(n)' \cap acked = On(n) \cap acked
  <2>1. time \notin acked
    BY <1>a, <1>1, <1>2 DEF StoreInv, SettledInv
  <2>2. QED
    BY <1>8, <2>1
<1>15. TrueInv'
  BY <1>1, <1>14 DEF StoreInv, TrueInv, IndexInv
<1>16. ReaderInv'
  BY <1>1, <1>14 DEF StoreInv, ReaderInv
<1>17. SnapshotsTypeOK'
  <2>1. PumpTypeOK' /\ processing' = processing
    BY <1>1 DEF SnapshotsTypeOK, PumpTypeOK, pumpVars
  <2>2. draft' \in Seq(Chunk)
    BY <1>3 DEF AppendShape
  <2>3. QED
    BY <1>1, <1>7, <2>1, <2>2 DEF SnapshotsTypeOK, File
<1>18. QED
  BY <1>11, <1>12, <1>13, <1>15, <1>16, <1>17 DEF StoreInv

(* doDelete has rewritten or unlinked the chunk: the line was in that file   *)
(* and in no other.  When the unlink failed the line is the only one left.   *)
LEMMA DeleteLineKeeps ==
  ASSUME SnapshotsTypeOK, StoreInv, DeleteLine
  PROVE  SnapshotsTypeOK' /\ StoreInv'
<1>a. PICK time : time = chain[1].time
  OBVIOUS
<1>b. PICK i : i = Hit(time)
  OBVIOUS
<1>c. PICK f : f = index[i].file
  OBVIOUS
<1>d. PICK lines : lines = Kept(files[f], time)
  OBVIOUS
<1>1. chain # <<>> /\ Head(chain) = chain[1] /\ 1 \in 1..Len(chain)
  BY StoreTypes, TailOf DEF DeleteLine
<1>2. /\ draft = NoDraft /\ ~Appends(1) /\ i # 0 /\ files[f] # <<>>
      /\ \/ files' = [files EXCEPT ![f] = lines] /\ leftover' = leftover /\ faults' = faults
         \/ /\ lines = <<>> /\ files' = files /\ leftover' = leftover \cup {time}
            /\ faults < MaxFaults /\ faults' = faults + 1
      /\ draft' = AfterDelete(i, lines)
      /\ emptied' = (emptied \/ (lines = <<>> /\ i # Len(index)))
  BY <1>a, <1>b, <1>c, <1>d, <1>1 DEF DeleteLine, Deletable, Appends, Fault
<1>3. /\ index' = index /\ chain' = chain /\ taker' = taker /\ clock' = clock /\ reader' = reader
      /\ deletes' = deletes /\ UNCHANGED pumpVars
      /\ acked' = acked /\ doomed' = doomed /\ gone' = gone
  BY DEF DeleteLine
<1>4. /\ index \in Seq(Chunk) /\ time \in doomed
      /\ \A n \in File : files[n] \in Seq(Timestamp) /\ On(n) \subseteq Timestamp
  BY <1>a, <1>1, <1>2, StoreTypes DEF StoreInv, ChainInv
<1>5. i \in 1..Len(index) /\ time \in ToSet(files[f])
  BY <1>b, <1>c, <1>2, <1>4, HitOf
<1>6. f \in File
  BY <1>c, <1>5 DEF StoreInv, IndexInv
<1>7. /\ lines \in Seq(Timestamp) /\ ToSet(lines) = ToSet(files[f]) \ {time}
      /\ Rises(files[f]) => Rises(lines)
  BY <1>d, <1>4, <1>6, KeptLines
<1>8. files \in [File -> Seq(Timestamp)] /\ leftover \subseteq doomed
  BY DEF SnapshotsTypeOK, File
<1>9. /\ files' \in [File -> Seq(Timestamp)]
      /\ \A n \in File : n # f => files'[n] = files[n]
      /\ files'[f] = lines \/ (lines = <<>> /\ files'[f] = files[f] /\ time \in leftover')
  BY <1>2, <1>6, <1>7, <1>8
<1>10. leftover \subseteq leftover' /\ leftover' \subseteq leftover \cup {time}
       /\ leftover' \subseteq doomed'
  BY <1>2, <1>3, <1>4, <1>8
<1>11. \A n \in File : /\ time \notin On(n)' \ leftover' /\ On(n)' \subseteq On(n)
                       /\ On(n) \subseteq On(n)' \cup {time}
  <2>1. ASSUME NEW n \in File, n # f PROVE time \notin On(n)
    <3>1. On(n) \cap On(f) = {} /\ time \in On(f)
      BY <1>5, <1>6, <2>1 DEF StoreInv, FilesInv, On
    <3>2. QED
      BY <3>1
  <2>2. On(f)' = On(f) \ {time} \/ (On(f)' = On(f) /\ time \in leftover')
    BY <1>7, <1>9 DEF On
  <2>3. \A n \in File : n # f => On(n)' = On(n)
    BY <1>9 DEF On
  <2>4. QED
    BY <2>1, <2>2, <2>3
<1>12. lines = <<>> => On(f)' \subseteq leftover'
  <2> SUFFICES ASSUME lines = <<>> PROVE On(f)' \subseteq leftover'
    OBVIOUS
  <2>1. ToSet(lines) = {}
    BY DEF ToSet
  <2>2. CASE files'[f] = lines
    BY <2>1, <2>2 DEF On
  <2>3. CASE files'[f] = files[f] /\ time \in leftover'
    BY <1>7, <2>1, <2>3 DEF On
  <2>4. QED
    BY <1>9, <2>2, <2>3
<1>13. DeleteShape(draft', i, lines)
  BY <1>2, <1>4, <1>5, <1>7, AfterDeleteShape
<1>14. draft' # NoDraft
  BY <1>13, ChunksAreNoDraft DEF DeleteShape
<1>15. ChainInv' /\ SettledInv' /\ IndexInv'
  BY <1>3 DEF StoreInv, ChainInv, SettledInv, IndexInv, Appends
<1>16. FilesInv'
  <2>1. \A n \in File : Rises(files'[n])
    <3>1. \A n \in File : Rises(files[n])
      BY DEF StoreInv, FilesInv
    <3>2. Rises(files'[f])
      BY <1>6, <1>7, <1>9, <3>1
    <3>3. QED
      BY <1>9, <3>1, <3>2
  <2>2. \A m, n \in File : m # n => On(m)' \cap On(n)' = {}
    BY <1>11 DEF StoreInv, FilesInv
  <2>3. \A n \in File : \A t \in On(n)' :
          /\ t < clock /\ t \notin gone \ leftover'
          /\ \A k \in 1..Len(chain) : Appends(k) => t < chain[k].time
    BY <1>2, <1>10, <1>11 DEF StoreInv, FilesInv
  <2>4. \A k \in 1..Len(chain) : Appends(k)' <=> Appends(k)
    BY <1>3 DEF Appends
  <2>5. QED
    BY <1>3, <2>1, <2>2, <2>3, <2>4 DEF FilesInv
<1>17. DraftInv'
  <2>1. ~Appends(1)'
    BY <1>2, <1>3 DEF Appends
  <2>2. AfterDelete(i, lines)' = AfterDelete(i, lines)
    BY <1>3 DEF AfterDelete
  <2>3. index'[i].file = f /\ lines \in {<<>>, files'[index'[i].file]}
    BY <1>c, <1>3, <1>9
  <2>4. lines = <<>> => On(index[i].file)' \subseteq leftover'
    BY <1>12, <2>3 DEF On
  <2>5. ~emptied' /\ lines = <<>> => i = Len(index')
    BY <1>2, <1>3
  <2>6. \A n \in File : (chain[1].time)' \notin On(n)' \ leftover'
    BY <1>a, <1>3, <1>11
  <2>7. DeletesChunk(i, lines)'
    BY <1>2, <2>2, <2>3, <2>4, <2>5, <2>6 DEF DeletesChunk
  <2>8. i \in 1..Len(index)'
    BY <1>3, <1>5
  <2>9. DeleteDraft'
    BY <2>3, <2>7, <2>8, Zenon DEF DeleteDraft
  <2>10. QED
    BY <2>1, <2>9 DEF DraftInv
<1>18. \A n \in File : On(n)' \subseteq On(n) /\ \A t : t \in On(n) /\ t \notin doomed => t \in On(n)'
  BY <1>4, <1>11
<1>19. ~emptied' => ~emptied
  BY <1>2
<1>20. TrueInv'
  BY <1>3, <1>10, <1>18, <1>19 DEF StoreInv, TrueInv, IndexInv
<1>21. ReaderInv'
  BY <1>3, <1>18, <1>19 DEF StoreInv, ReaderInv
<1>22. SnapshotsTypeOK'
  <2>1. PumpTypeOK' /\ processing' = processing
    BY <1>3 DEF SnapshotsTypeOK, PumpTypeOK, pumpVars
  <2>2. draft' \in Seq(Chunk) /\ emptied' \in BOOLEAN
    BY <1>2, <1>13 DEF DeleteShape, SnapshotsTypeOK
  <2>3. faults' \in 0..MaxFaults
    BY <1>2, SnapshotAssumption DEF SnapshotsTypeOK
  <2>4. QED
    BY <1>1, <1>3, <1>9, <1>10, <2>1, <2>2, <2>3 DEF SnapshotsTypeOK, File
<1>23. QED
  BY <1>15, <1>16, <1>17, <1>20, <1>21, <1>22 DEF StoreInv

(* The index an append saves lists its line, and every other as before. *)
LEMMA SaveAppendKeeps ==
  ASSUME SnapshotsTypeOK, StoreInv, SaveIndex, Appends(1)
  PROVE  StoreInv'
<1>a. PICK time : time = chain[1].time
  OBVIOUS
<1>b. PICK d : d = draft
  OBVIOUS
<1>c. PICK last : last = Len(d)
  OBVIOUS
<1>1. /\ d # NoDraft /\ d \in Seq(Chunk) /\ chain # <<>> /\ index' = d
      /\ \E logged \in BOOLEAN : Settle(TRUE, logged)
      /\ files' = files /\ clock' = clock /\ reader' = reader /\ doomed' = doomed
      /\ leftover' = leftover /\ leftover \subseteq doomed /\ emptied' = emptied
  BY <1>b DEF SaveIndex, SnapshotsTypeOK
<1>2. /\ 1 \in 1..Len(chain) /\ time \in Timestamp /\ time \in Nat /\ time < clock
      /\ index \in Seq(Chunk) /\ Len(index) \in Nat /\ clock \in Nat /\ Timestamp \subseteq Nat
      /\ \A i \in 1..Len(index) : index[i].startTime \in Nat /\ index[i].endTime \in Nat
      /\ \A n \in File : On(n) \subseteq Nat
  BY <1>a, <1>1, StoreTypes, TailOf DEF StoreInv, ChainInv
<1>3. /\ chain' = Tail(chain) /\ draft' = NoDraft /\ acked' = acked \cup {time} /\ gone' = gone
      /\ \A t \in Taker : taker'[t] = taker[t] \/ (Appends(1) /\ t = chain[1].by)
  BY <1>a, <1>1, SettleShape DEF StoreInv
<1>4. /\ ChainInv' /\ Len(chain) \in Nat
      /\ \A k \in 1..Len(chain') : /\ k + 1 \in 2..Len(chain) /\ k + 1 \in 1..Len(chain)
                                   /\ chain'[k] = chain[k + 1]
                                   /\ Appends(k)' <=> Appends(k + 1)
  BY <1>1, <1>3, TailKeeps DEF StoreInv
<1>5. \A k \in 1..Len(chain') : Appends(k)' => time < chain'[k].time /\ chain'[k].time \in Nat
  <2> SUFFICES ASSUME NEW k \in 1..Len(chain'), Appends(k)'
               PROVE  time < chain'[k].time /\ chain'[k].time \in Nat
    OBVIOUS
  <2>1. k + 1 \in 1..Len(chain) /\ Appends(k + 1) /\ 1 < k + 1 /\ chain'[k] = chain[k + 1]
    BY <1>4
  <2>2. chain[1].time < chain[k + 1].time
    BY <1>2, <2>1 DEF StoreInv, ChainInv
  <2>3. chain[k + 1].time \in Nat
    BY <1>2, <2>1, StoreTypes
  <2>4. QED
    BY <1>a, <2>1, <2>2, <2>3
<1>6. d = AfterAppend(time) /\ time \in On(Target)
  BY <1>a, <1>b, <1>1 DEF StoreInv, DraftInv, AppendDraft
<1>7. /\ last \in Nat \ {0} /\ Len(index) <= last /\ last <= Len(index) + 1
      /\ d[last].file = Target /\ d[last].endTime = time
      /\ \A i \in 1..last - 1 : i \in 1..Len(index) /\ d[i] = index[i]
      /\ last = Len(index) => /\ d[last].startTime = index[last].startTime
                              /\ Target = index[last].file
      /\ last # Len(index) => d[last].startTime = time /\ Target = last
  BY <1>c, <1>2, <1>6, AfterAppendShape DEF AppendShape
<1>8. /\ Len(index) < time /\ \A i \in 1..Len(index) : index[i].startTime < time
      /\ \A i \in 1..Len(index) : index[i].file \in File
  BY <1>a, <1>2 DEF StoreInv, IndexInv
<1>9. Target \in File
  <2>1. time <= MaxSnapshots /\ MaxSnapshots \in Nat
    BY <1>2, StoreTypes DEF Timestamp
  <2>2. CASE last = Len(index)
    BY <1>7, <1>8, <2>2
  <2>3. CASE last # Len(index)
    <3>1. last = Len(index) + 1 /\ last \in 1..MaxSnapshots
      BY <1>2, <1>7, <1>8, <2>1, <2>3
    <3>2. QED
      BY <1>7, <2>3, <3>1 DEF File
  <2>4. QED
    BY <2>2, <2>3
<1>10. \A n \in File : On(n)' = On(n)
  BY <1>1 DEF On
<1>11. time \notin acked /\ time \notin gone /\ \A t \in acked : t < time
  BY <1>a, <1>2 DEF StoreInv, SettledInv
<1>12. SettledInv'
  <2>1. \A t \in acked \cup gone : \A k \in 1..Len(chain') : Appends(k)' => t < chain'[k].time
    BY <1>4 DEF StoreInv, SettledInv
  <2>2. QED
    BY <1>1, <1>2, <1>3, <1>5, <2>1 DEF StoreInv, SettledInv
<1>13. FilesInv'
  <2>1. \A n \in File : \A t \in On(n) :
          /\ t < clock /\ t \notin gone \ leftover
          /\ \A k \in 1..Len(chain') : Appends(k)' => t < chain'[k].time
    <3> SUFFICES ASSUME NEW n \in File, NEW t \in On(n), NEW k \in 1..Len(chain'), Appends(k)'
                 PROVE  t < chain'[k].time
      BY DEF StoreInv, FilesInv
    <3>1. k + 1 \in 1..Len(chain) /\ Appends(k + 1) /\ k + 1 # 1 /\ chain'[k] = chain[k + 1]
      BY <1>4
    <3>2. QED
      BY <3>1 DEF StoreInv, FilesInv
  <2>2. QED
    BY <1>1, <1>3, <1>10, <2>1 DEF StoreInv, FilesInv
<1>14. /\ \A i \in 1..last : d[i].file \in File
       /\ \A i \in 1..last : d[i].startTime <= time /\ d[i].startTime \in Nat
  <2>1. ASSUME NEW i \in 1..last, i # last
        PROVE  d[i].file \in File /\ d[i].startTime <= time /\ d[i].startTime \in Nat
    <3>1. i \in 1..Len(index) /\ d[i] = index[i]
      BY <1>7, <2>1
    <3>2. QED
      BY <1>2, <1>8, <3>1
  <2>2. d[last].file \in File /\ d[last].startTime <= time /\ d[last].startTime \in Nat
    <3>1. CASE last = Len(index)
      <4>1. last \in 1..Len(index) /\ d[last].startTime = index[last].startTime
        BY <1>7, <3>1
      <4>2. index[last].startTime \in Nat /\ index[last].startTime < time
        BY <1>2, <1>8, <4>1
      <4>3. QED
        BY <1>2, <1>7, <1>9, <4>1, <4>2
    <3>2. CASE last # Len(index)
      BY <1>2, <1>7, <1>9, <3>2
    <3>3. QED
      BY <3>1, <3>2
  <2>3. QED
    BY <2>1, <2>2
<1>15. IndexInv'
  <2>1. last <= time
    BY <1>2, <1>7, <1>8
  <2>2. last < clock /\ \A i \in 1..last : d[i].startTime < clock
    BY <1>2, <1>7, <1>14, <2>1
  <2>3. \A k \in 1..Len(chain') : Appends(k)' =>
          last < chain'[k].time /\ \A i \in 1..last : d[i].startTime < chain'[k].time
    BY <1>2, <1>5, <1>7, <1>14, <2>1
  <2>4. QED
    BY <1>c, <1>1, <1>14, <2>2, <2>3 DEF IndexInv
<1>16. DraftInv'
  BY <1>3 DEF DraftInv
<1>17. ReaderInv'
  BY <1>1, <1>10 DEF StoreInv, ReaderInv
<1>18. TrueInv'
  <2> SUFFICES ASSUME ~emptied PROVE TrueInv'
    BY <1>1 DEF TrueInv
  <2>1. /\ \A i \in 1..Len(index) : index[i].file = i
        /\ \A t \in acked \ doomed : \E i \in 1..Len(index) : t \in On(i)
        /\ \A n \in File : n > Len(index) => On(n) \cap acked \subseteq leftover
        /\ \A i \in 1..Len(index) : \A t \in On(i) \cap (acked \ leftover) :
             index[i].startTime <= t /\ t <= index[i].endTime
    BY DEF StoreInv, TrueInv
  <2>2. Target = last /\ last \in File
    <3>1. CASE last = Len(index)
      BY <1>7, <1>9, <2>1, <3>1
    <3>2. CASE last # Len(index)
      BY <1>7, <1>9, <3>2
    <3>3. QED
      BY <3>1, <3>2
  <2>3. \A i \in 1..last : d[i].file = i
    BY <1>7, <2>1, <2>2
  <2>4. \A i \in 1..Len(index) : i \in 1..last
    BY <1>2, <1>7
  <2>5. \A t \in (acked \cup {time}) \ doomed : \E i \in 1..last : t \in On(i)
    <3>1. time \in On(last) /\ last \in 1..last
      BY <1>6, <1>7, <2>2
    <3>2. QED
      BY <2>1, <2>4, <3>1
  <2>6. \A n \in File : n # last => time \notin On(n)
    BY <1>6, <2>2 DEF StoreInv, FilesInv
  <2>7. \A n \in File : n > last => On(n) \cap (acked \cup {time}) \subseteq leftover
    <3> SUFFICES ASSUME NEW n \in File, n > last PROVE On(n) \cap (acked \cup {time}) \subseteq leftover
      OBVIOUS
    <3>1. n > Len(index) /\ n # last
      BY <1>2, <1>7 DEF File
    <3>2. QED
      BY <2>1, <2>6, <3>1
  <2>8. ASSUME NEW i \in 1..last, NEW t \in On(i) \cap ((acked \cup {time}) \ leftover)
        PROVE  d[i].startTime <= t /\ t <= d[i].endTime
    <3>1. CASE i # last
      <4>1. i \in 1..Len(index) /\ d[i] = index[i]
        BY <1>7, <3>1
      <4>2. i \in File
        BY <1>8, <2>1, <4>1
      <4>3. t \in On(i) \cap (acked \ leftover)
        BY <2>6, <2>8, <3>1, <4>2
      <4>4. QED
        BY <2>1, <4>1, <4>3
    <3>2. CASE i = last
      <4>1. d[last].startTime <= time /\ d[last].endTime = time
        BY <1>7, <1>14
      <4>2. CASE t = time
        BY <1>2, <3>2, <4>1, <4>2
      <4>3. CASE t # time
        <5>1. t \in acked \ leftover /\ t \in On(last) /\ t < time
          BY <1>11, <2>8, <3>2, <4>3
        <5>2. last = Len(index)
          BY <1>2, <1>7, <2>1, <2>2, <5>1
        <5>3. index[last].startTime <= t /\ d[last].startTime = index[last].startTime
          BY <1>7, <2>1, <5>1, <5>2
        <5>4. t \in Nat
          BY <1>2, <2>2, <5>1
        <5>5. QED
          BY <1>2, <3>2, <4>1, <5>1, <5>3, <5>4
      <4>4. QED
        BY <4>2, <4>3
    <3>3. QED
      BY <3>1, <3>2
  <2>9. \A i \in 1..last : i \in File
    BY <1>14, <2>3
  <2>10. QED
    BY <1>c, <1>1, <1>3, <1>10, <2>3, <2>5, <2>7, <2>8, <2>9 DEF TrueInv
<1>19. QED
  BY <1>4, <1>12, <1>13, <1>15, <1>16, <1>17, <1>18 DEF StoreInv

(* The index a delete saves lists every other line as before. *)
LEMMA SaveDeleteKeeps ==
  ASSUME SnapshotsTypeOK, StoreInv, SaveIndex, ~Appends(1)
  PROVE  StoreInv'
<1>a. PICK time : time = chain[1].time
  OBVIOUS
<1>b. PICK d : d = draft
  OBVIOUS
<1>1. /\ d # NoDraft /\ d \in Seq(Chunk) /\ chain # <<>> /\ index' = d
      /\ \E logged \in BOOLEAN : Settle(TRUE, logged)
      /\ files' = files /\ clock' = clock /\ reader' = reader /\ doomed' = doomed
      /\ leftover' = leftover /\ leftover \subseteq doomed /\ emptied' = emptied
  BY <1>b DEF SaveIndex, SnapshotsTypeOK
<1>c. PICK i \in 1..Len(index) : \E lines \in {<<>>, files[index[i].file]} : DeletesChunk(i, lines)
  BY <1>b, <1>1 DEF StoreInv, DraftInv, DeleteDraft
<1>d. PICK f : f = index[i].file
  OBVIOUS
<1>e. PICK lines \in {<<>>, files[index[i].file]} : DeletesChunk(i, lines)
  BY <1>c
<1>2. /\ 1 \in 1..Len(chain) /\ time \in Timestamp /\ time \in Nat /\ time < clock
      /\ index \in Seq(Chunk) /\ Len(index) \in Nat /\ clock \in Nat /\ Timestamp \subseteq Nat
      /\ \A j \in 1..Len(index) : index[j].startTime \in Nat
      /\ \A n \in File : files[n] \in Seq(Timestamp) /\ On(n) \subseteq Nat
  BY <1>a, <1>1, StoreTypes, TailOf DEF StoreInv, ChainInv
<1>3. /\ chain' = Tail(chain) /\ draft' = NoDraft /\ acked' = acked /\ gone' = gone \cup {time}
      /\ \A t \in Taker : taker'[t] = taker[t] \/ (Appends(1) /\ t = chain[1].by)
  BY <1>a, <1>1, SettleShape DEF StoreInv
<1>4. /\ ChainInv' /\ Len(chain) \in Nat
      /\ \A k \in 1..Len(chain') : /\ k + 1 \in 2..Len(chain) /\ k + 1 \in 1..Len(chain)
                                   /\ chain'[k] = chain[k + 1]
                                   /\ Appends(k)' <=> Appends(k + 1)
  BY <1>1, <1>3, TailKeeps DEF StoreInv
<1>5. \A k \in 1..Len(chain') : Appends(k)' => time < chain'[k].time /\ chain'[k].time \in Nat
  <2> SUFFICES ASSUME NEW k \in 1..Len(chain'), Appends(k)'
               PROVE  time < chain'[k].time /\ chain'[k].time \in Nat
    OBVIOUS
  <2>1. k + 1 \in 1..Len(chain) /\ Appends(k + 1) /\ 1 < k + 1 /\ chain'[k] = chain[k + 1]
    BY <1>4
  <2>2. chain[1].time < chain[k + 1].time
    BY <1>2, <2>1 DEF StoreInv, ChainInv
  <2>3. chain[k + 1].time \in Nat
    BY <1>2, <2>1, StoreTypes
  <2>4. QED
    BY <1>a, <2>1, <2>2, <2>3
<1>6. /\ d = AfterDelete(i, lines) /\ (~emptied /\ lines = <<>> => i = Len(index))
      /\ \A n \in File : time \notin On(n) \ leftover
      /\ (lines = <<>> => On(f) \subseteq leftover) /\ (lines # <<>> => lines = files[f])
  BY <1>a, <1>b, <1>d, <1>e DEF DeletesChunk
<1>7. f \in File /\ lines \in Seq(Timestamp) /\ \A j \in 1..Len(index) : index[j].file \in File
  <2>1. f \in File /\ \A j \in 1..Len(index) : index[j].file \in File
    BY <1>d DEF StoreInv, IndexInv
  <2>2. files[f] \in Seq(Timestamp) /\ <<>> \in Seq(Timestamp)
    BY <1>2, <2>1
  <2>3. QED
    BY <1>6, <2>1, <2>2
<1>8. DeleteShape(d, i, lines)
  BY <1>2, <1>6, <1>7, AfterDeleteShape
<1>9. lines # <<>> =>
        /\ Len(lines) \in 1..Len(lines) /\ 1 \in 1..Len(lines)
        /\ lines[1] \in On(f) /\ lines[1] \in Nat /\ lines[Len(lines)] \in Nat
        /\ \A t \in On(f) : lines[1] <= t /\ t <= lines[Len(lines)]
  <2> SUFFICES ASSUME lines # <<>>
               PROVE  /\ Len(lines) \in 1..Len(lines) /\ 1 \in 1..Len(lines)
                      /\ lines[1] \in On(f) /\ lines[1] \in Nat /\ lines[Len(lines)] \in Nat
                      /\ \A t \in On(f) : lines[1] <= t /\ t <= lines[Len(lines)]
    OBVIOUS
  <2>1. Len(lines) \in Nat \ {0} /\ Len(lines) \in 1..Len(lines) /\ 1 \in 1..Len(lines)
    BY <1>7, TailOf
  <2>2. lines[1] \in Nat /\ lines[Len(lines)] \in Nat
    <3>1. lines[1] \in Timestamp /\ lines[Len(lines)] \in Timestamp
      BY <1>7, <2>1
    <3>2. QED
      BY <1>2, <3>1
  <2>3. \A t : t \in On(f) <=> \E k \in 1..Len(lines) : lines[k] = t
    BY <1>6, <1>7, ElementOf DEF On
  <2>4. \A j, k \in 1..Len(lines) : j < k => lines[j] < lines[k]
    BY <1>6, <1>7 DEF StoreInv, FilesInv, Rises
  <2>5. ASSUME NEW t \in On(f) PROVE lines[1] <= t /\ t <= lines[Len(lines)]
    <3>1. PICK k \in 1..Len(lines) : lines[k] = t
      BY <2>3
    <3>2. t \in Nat
      BY <1>2, <1>7
    <3>3. lines[1] <= t
      <4>1. CASE k = 1
        BY <3>1, <3>2, <4>1
      <4>2. CASE k # 1
        <5>1. lines[1] < t
          BY <2>1, <2>4, <3>1, <4>2
        <5>2. QED
          BY <2>2, <3>2, <5>1
      <4>3. QED
        BY <4>1, <4>2
    <3>4. t <= lines[Len(lines)]
      <4>1. CASE k = Len(lines)
        BY <3>1, <3>2, <4>1
      <4>2. CASE k # Len(lines)
        <5>1. t < lines[Len(lines)]
          BY <2>1, <2>4, <3>1, <4>2
        <5>2. QED
          BY <2>2, <3>2, <5>1
      <4>3. QED
        BY <4>1, <4>2
    <3>5. QED
      BY <3>3, <3>4
  <2>6. QED
    BY <1>2, <2>1, <2>2, <2>3, <2>5
<1>10. \A n \in File : On(n)' = On(n)
  BY <1>1 DEF On
<1>11. \A n \in File : \A t \in On(n) :
         /\ t < clock /\ t \notin gone \ leftover
         /\ \A k \in 1..Len(chain') : Appends(k)' => t < chain'[k].time
  <2> SUFFICES ASSUME NEW n \in File, NEW t \in On(n), NEW k \in 1..Len(chain'), Appends(k)'
               PROVE  t < chain'[k].time
    BY DEF StoreInv, FilesInv
  <2>1. k + 1 \in 1..Len(chain) /\ Appends(k + 1) /\ k + 1 # 1 /\ chain'[k] = chain[k + 1]
    BY <1>4
  <2>2. QED
    BY <2>1 DEF StoreInv, FilesInv
<1>12. SettledInv'
  <2>1. \A t \in acked \cup gone : \A k \in 1..Len(chain') : Appends(k)' => t < chain'[k].time
    BY <1>4 DEF StoreInv, SettledInv
  <2>2. QED
    BY <1>1, <1>2, <1>3, <1>5, <2>1 DEF StoreInv, SettledInv
<1>13. FilesInv'
  BY <1>1, <1>3, <1>6, <1>10, <1>11 DEF StoreInv, FilesInv
<1>14. /\ Len(d) \in Nat /\ Len(d) <= Len(index)
       /\ \A j \in 1..Len(d) :
            \/ lines # <<>> /\ j = i /\ d[j].file = f /\ d[j].startTime = lines[1]
            \/ \E k \in 1..Len(index) : d[j] = index[k]
  <2>1. Len(d) \in Nat /\ Len(d) <= Len(index)
    BY <1>1, <1>8 DEF DeleteShape
  <2>2. CASE lines = <<>>
    <3>1. \A j \in 1..Len(d) : j \in 1..Len(index) /\ j + 1 \in 1..Len(index)
      BY <1>2, <1>8, <2>1, <2>2 DEF DeleteShape
    <3>2. \A j \in 1..Len(d) : d[j] = index[j] \/ d[j] = index[j + 1]
      BY <1>8, <2>2 DEF DeleteShape
    <3>3. QED
      BY <2>1, <3>1, <3>2
  <2>3. CASE lines # <<>>
    BY <1>d, <1>8, <2>1, <2>3 DEF DeleteShape
  <2>4. QED
    BY <2>2, <2>3
<1>15. IndexInv'
  <2>1. \A j \in 1..Len(d) : d[j].file \in File
    BY <1>7, <1>14
  <2>2. \A j \in 1..Len(d) : d[j].startTime < clock
    BY <1>7, <1>9, <1>11, <1>14 DEF StoreInv, IndexInv
  <2>3. ASSUME NEW k \in 1..Len(chain'), Appends(k)'
        PROVE  Len(d) < chain'[k].time /\ \A j \in 1..Len(d) : d[j].startTime < chain'[k].time
    <3>1. k + 1 \in 1..Len(chain) /\ Appends(k + 1) /\ chain'[k] = chain[k + 1]
          /\ chain'[k].time \in Nat
      BY <1>4, <1>5, <2>3
    <3>2. Len(index) < chain'[k].time /\ \A j \in 1..Len(index) : index[j].startTime < chain'[k].time
      BY <3>1 DEF StoreInv, IndexInv
    <3>3. lines # <<>> => lines[1] < chain'[k].time
      BY <1>7, <1>9, <1>11, <2>3
    <3>4. Len(d) < chain'[k].time
      BY <1>2, <1>14, <3>1, <3>2
    <3>5. \A j \in 1..Len(d) : d[j].startTime < chain'[k].time
      BY <1>14, <3>2, <3>3
    <3>6. QED
      BY <3>4, <3>5
  <2>4. Len(d) < clock
    BY <1>2, <1>14 DEF StoreInv, IndexInv
  <2>5. QED
    BY <1>1, <2>1, <2>2, <2>3, <2>4 DEF IndexInv
<1>16. DraftInv'
  BY <1>3 DEF DraftInv
<1>17. ReaderInv'
  BY <1>1, <1>10 DEF StoreInv, ReaderInv
<1>18. TrueInv'
  <2> SUFFICES ASSUME ~emptied PROVE TrueInv'
    BY <1>1 DEF TrueInv
  <2>1. /\ \A j \in 1..Len(index) : index[j].file = j
        /\ \A t \in acked \ doomed : \E j \in 1..Len(index) : t \in On(j)
        /\ \A n \in File : n > Len(index) => On(n) \cap acked \subseteq leftover
        /\ \A j \in 1..Len(index) : \A t \in On(j) \cap (acked \ leftover) :
             index[j].startTime <= t /\ t <= index[j].endTime
    BY DEF StoreInv, TrueInv
  <2>2. f = i
    BY <1>d, <2>1
  <2>3. CASE lines = <<>>
    <3>1. i = Len(index) /\ On(i) \subseteq leftover
      BY <1>6, <2>2, <2>3
    <3>2. Len(d) = Len(index) - 1 /\ \A j \in 1..Len(d) : j \in 1..Len(index) /\ d[j] = index[j]
      BY <1>2, <1>8, <2>3, <3>1 DEF DeleteShape
    <3>3. \A t \in acked \ doomed : \E j \in 1..Len(d) : t \in On(j)
      <4> SUFFICES ASSUME NEW t \in acked \ doomed PROVE \E j \in 1..Len(d) : t \in On(j)
        OBVIOUS
      <4>1. PICK j \in 1..Len(index) : t \in On(j)
        BY <2>1
      <4>2. j \in 1..Len(d)
        BY <1>1, <1>2, <3>1, <3>2, <4>1
      <4>3. QED
        BY <4>1, <4>2
    <3>4. \A n \in File : n > Len(d) => On(n) \cap acked \subseteq leftover
      <4> SUFFICES ASSUME NEW n \in File, n > Len(d) PROVE On(n) \cap acked \subseteq leftover
        OBVIOUS
      <4>1. n = Len(index) \/ n > Len(index)
        BY <1>2, <3>2 DEF File
      <4>2. QED
        BY <2>1, <3>1, <4>1
    <3>5. \A j \in 1..Len(d) : d[j].file = j /\ j \in File
      BY <1>7, <2>1, <3>2
    <3>6. \A j \in 1..Len(d) : \A t \in On(j) \cap (acked \ leftover) :
            d[j].startTime <= t /\ t <= d[j].endTime
      BY <2>1, <3>2
    <3>7. QED
      BY <1>1, <1>3, <1>10, <3>3, <3>4, <3>5, <3>6 DEF TrueInv
  <2>4. CASE lines # <<>>
    <3>1. /\ Len(d) = Len(index) /\ d[i].file = i
          /\ d[i].startTime = lines[1] /\ d[i].endTime = lines[Len(lines)]
          /\ \A j \in 1..Len(d) : j # i => d[j] = index[j]
      BY <1>d, <1>8, <2>2, <2>4 DEF DeleteShape
    <3>2. \A t \in On(i) : d[i].startTime <= t /\ t <= d[i].endTime
      BY <1>9, <2>2, <2>4, <3>1
    <3>3. \A j \in 1..Len(d) : j \in File
      BY <1>7, <2>1, <3>1
    <3>4. \A j \in 1..Len(d) : d[j].file = j
      BY <2>1, <3>1
    <3>5. \A j \in 1..Len(d) : \A t \in On(j) \cap (acked \ leftover) : d[j].startTime <= t /\ t <= d[j].endTime
      BY <2>1, <3>1, <3>2
    <3>6. QED
      BY <1>1, <1>3, <1>10, <2>1, <3>1, <3>3, <3>4, <3>5 DEF TrueInv
  <2>5. QED
    BY <2>3, <2>4
<1>19. QED
  BY <1>4, <1>12, <1>13, <1>15, <1>16, <1>17, <1>18 DEF StoreInv

LEMMA SaveIndexKeeps ==
  ASSUME SnapshotsTypeOK, StoreInv, SaveIndex
  PROVE  SnapshotsTypeOK' /\ StoreInv'
<1>1. /\ draft # NoDraft /\ draft \in Seq(Chunk) /\ chain # <<>> /\ index' = draft
      /\ \E logged \in BOOLEAN : Settle(TRUE, logged)
      /\ faults' = faults \/ (faults < MaxFaults /\ faults' = faults + 1)
      /\ files' = files /\ clock' = clock /\ reader' = reader /\ doomed' = doomed
      /\ leftover' = leftover /\ emptied' = emptied /\ deletes' = deletes /\ UNCHANGED pumpVars
  BY DEF SaveIndex, SnapshotsTypeOK, Fault
<1>2. ChainInv
  BY DEF StoreInv
<1>3. /\ chain' = Tail(chain) /\ draft' = NoDraft
      /\ taker' \in [Taker -> {"idle", "build", "append", "delay", "rebuild", "reappend", "done"}]
      /\ (taker'[Scheduled] # "idle") = (taker[Scheduled] # "idle")
      /\ gone' = IF ~Appends(1) THEN gone \cup {chain[1].time} ELSE gone
  BY <1>1, <1>2, SettleShape
<1>4. chain' \in Seq(Operation) /\ 1 \in 1..Len(chain)
  BY <1>1, <1>3, StoreTypes, TailOf
<1>5. gone' \subseteq doomed
  BY <1>2, <1>3, <1>4 DEF SnapshotsTypeOK, ChainInv
<1>6. PumpTypeOK' /\ processing' = processing
  BY <1>1 DEF SnapshotsTypeOK, PumpTypeOK, pumpVars
<1>7. faults' \in 0..MaxFaults
  BY <1>1, SnapshotAssumption DEF SnapshotsTypeOK
<1>8. SnapshotsTypeOK'
  BY <1>1, <1>3, <1>4, <1>5, <1>6, <1>7 DEF SnapshotsTypeOK
<1>9. QED
  BY <1>8, SaveAppendKeeps, SaveDeleteKeeps

-----------------------------------------------------------------------------
(* What is asked of the store goes to the end of the chain. *)

LEMMA BuildKeeps ==
  ASSUME SnapshotsTypeOK, StoreInv, NEW t \in Taker, Build(t)
  PROVE  SnapshotsTypeOK' /\ StoreInv'
<1>a. PICK op : op = [kind |-> "append", time |-> clock, by |-> t]
  OBVIOUS
<1>b. PICK N : N = Len(chain)
  OBVIOUS
<1>1. /\ taker[t] \in {"build", "rebuild"} /\ clock <= MaxSnapshots /\ clock' = clock + 1
      /\ chain' = Append(chain, op) /\ UNCHANGED pumpVars
      /\ taker' = [taker EXCEPT ![t] = IF @ = "build" THEN "append" ELSE "reappend"]
      /\ index' = index /\ files' = files /\ draft' = draft /\ reader' = reader
      /\ deletes' = deletes /\ faults' = faults
      /\ acked' = acked /\ doomed' = doomed /\ gone' = gone
      /\ leftover' = leftover /\ emptied' = emptied
  BY <1>a DEF Build, historyVars
<1>2. /\ clock \in Nat /\ clock \in Timestamp /\ clock' \in Nat /\ clock < clock'
      /\ clock' \in 1..MaxSnapshots + 1
      /\ \A x \in Nat : x < clock => x < clock'
      /\ op \in Operation /\ op.time = clock /\ op.by = t /\ op.kind = "append"
  BY <1>a, <1>1, StoreTypes DEF Operation, Timestamp
<1>3. /\ chain' \in Seq(Operation) /\ N \in Nat /\ Len(chain') = N + 1 /\ chain'[N + 1] = op
      /\ \A k \in 1..N : chain'[k] = chain[k]
      /\ \A k \in 1..N : Appends(k)' <=> Appends(k)
      /\ Appends(N + 1)'
      /\ \A k \in 1..Len(chain') : k \in 1..N \/ k = N + 1
  <2>1. /\ chain' \in Seq(Operation) /\ N \in Nat /\ Len(chain') = N + 1 /\ chain'[N + 1] = op
        /\ \A k \in 1..N : chain'[k] = chain[k]
    BY <1>b, <1>1, <1>2, StoreTypes, AppendOf
  <2>2. QED
    BY <1>2, <2>1 DEF Appends
<1>4. /\ taker' \in [Taker -> {"idle", "build", "append", "delay", "rebuild", "reappend", "done"}]
      /\ taker'[t] \in {"append", "reappend"} /\ \A u \in Taker : u # t => taker'[u] = taker[u]
      /\ (taker'[Scheduled] # "idle") = (taker[Scheduled] # "idle")
  <2>1. taker \in [Taker -> {"idle", "build", "append", "delay", "rebuild", "reappend", "done"}]
        /\ Scheduled \in Taker
    BY DEF SnapshotsTypeOK, Taker
  <2>2. QED
    BY <1>1, <2>1
<1>5. \A k \in 1..N : /\ chain[k].by \in Taker /\ chain[k].time \in Nat /\ chain[k].time < clock
                      /\ Appends(k) => chain[k].by # t
  <2>1. \A k \in 1..N : Appends(k) => taker[chain[k].by] \in {"append", "reappend"}
    BY <1>b DEF StoreInv, ChainInv
  <2>2. \A k \in 1..N : chain[k].by \in Taker /\ chain[k].time \in Nat
    BY <1>b, StoreTypes
  <2>3. QED
    BY <1>b, <1>1, <2>1, <2>2 DEF StoreInv, ChainInv
<1>6. ChainInv'
  <2>1. \A k \in 1..Len(chain') : chain'[k].time < clock'
    BY <1>2, <1>3, <1>5
  <2>2. ASSUME NEW j \in 1..Len(chain'), NEW k \in 1..Len(chain'), j < k, Appends(k)'
        PROVE  chain'[j].time < chain'[k].time
    <3>1. j \in 1..N
      BY <1>3, <2>2
    <3>2. CASE k = N + 1
      BY <1>2, <1>3, <1>5, <3>1, <3>2
    <3>3. CASE k \in 1..N
      BY <1>b, <1>3, <2>2, <3>1, <3>3 DEF StoreInv, ChainInv
    <3>4. QED
      BY <1>3, <3>2, <3>3
  <2>3. \A k \in 1..Len(chain') : Appends(k)' => taker'[chain'[k].by] \in {"append", "reappend"}
    BY <1>b, <1>2, <1>3, <1>4, <1>5 DEF StoreInv, ChainInv
  <2>4. ASSUME NEW j \in 1..Len(chain'), NEW k \in 1..Len(chain'), j # k, Appends(j)', Appends(k)'
        PROVE  chain'[j].by # chain'[k].by
    <3>1. CASE j \in 1..N /\ k \in 1..N
      BY <1>b, <1>3, <2>4, <3>1 DEF StoreInv, ChainInv
    <3>2. CASE j = N + 1
      BY <1>2, <1>3, <1>5, <2>4, <3>2
    <3>3. CASE k = N + 1
      BY <1>2, <1>3, <1>5, <2>4, <3>3
    <3>4. QED
      BY <1>3, <3>1, <3>2, <3>3
  <2>5. \A k \in 1..Len(chain') : ~(Appends(k)') => chain'[k].time \in doomed'
    BY <1>b, <1>1, <1>3 DEF StoreInv, ChainInv
  <2>6. \A u \in doomed' : u \in Timestamp /\ u < clock'
    BY <1>1, <1>2, StoreTypes DEF StoreInv, ChainInv
  <2>7. QED
    BY <2>1, <2>2, <2>3, <2>4, <2>5, <2>6 DEF ChainInv
<1>7. SettledInv'
  <2>1. \A u \in acked \cup gone : u \in Timestamp /\ u \in Nat /\ u < clock /\ u < clock'
    BY <1>2, StoreTypes DEF StoreInv, SettledInv
  <2>2. \A u \in acked \cup gone : \A k \in 1..N : Appends(k) => u < chain[k].time
    BY <1>b DEF StoreInv, SettledInv
  <2>3. QED
    BY <1>1, <1>2, <1>3, <2>1, <2>2 DEF SettledInv
<1>8. \A n \in File : On(n)' = On(n) /\ \A u \in On(n) : u \in Nat /\ u < clock /\ u < clock'
  BY <1>1, <1>2, StoreTypes DEF StoreInv, FilesInv, On
<1>9. FilesInv'
  <2>1. ASSUME NEW n \in File, NEW u \in On(n), NEW k \in 1..Len(chain'), Appends(k)'
        PROVE  u < chain'[k].time \/ (k = 1 /\ draft' # NoDraft /\ u = chain'[1].time)
    <3>1. CASE k = N + 1
      BY <1>2, <1>3, <1>8, <3>1
    <3>2. CASE k \in 1..N
      <4>1. u < chain[k].time \/ (k = 1 /\ draft # NoDraft /\ u = chain[1].time)
        BY <1>b, <1>3, <2>1, <3>2 DEF StoreInv, FilesInv
      <4>2. QED
        BY <1>1, <1>3, <3>2, <4>1
    <3>3. QED
      BY <1>3, <3>1, <3>2
  <2>2. QED
    BY <1>1, <1>8, <2>1 DEF StoreInv, FilesInv
<1>10. IndexInv'
  <2>1. Len(index) \in Nat /\ \A i \in 1..Len(index) : index[i].startTime \in Nat
    BY StoreTypes
  <2>2. /\ Len(index) < clock /\ Len(index) < clock'
        /\ \A i \in 1..Len(index) : index[i].startTime < clock /\ index[i].startTime < clock'
    BY <1>2, <2>1 DEF StoreInv, IndexInv
  <2>3. \A k \in 1..Len(chain') : Appends(k)' =>
          Len(index) < chain'[k].time /\ \A i \in 1..Len(index) : index[i].startTime < chain'[k].time
    BY <1>b, <1>2, <1>3, <2>2 DEF StoreInv, IndexInv
  <2>4. QED
    BY <1>1, <2>2, <2>3 DEF StoreInv, IndexInv
<1>11. DraftInv'
  <2>1. CASE draft = NoDraft
    BY <1>1, <2>1 DEF DraftInv
  <2>2. CASE draft # NoDraft
    <3>1. chain \in Seq(Operation) /\ chain # <<>>
      BY <2>2 DEF SnapshotsTypeOK
    <3>2. 1 \in 1..N
      BY <1>b, <3>1, TailOf
    <3>3. chain'[1] = chain[1] /\ (Appends(1)' <=> Appends(1))
      BY <1>3, <3>2
    <3>4. AppendDraft => AppendDraft'
      BY <1>1, <1>8, <3>3 DEF AppendDraft, On, Target, NextChunk, AfterAppend
    <3>5. DeleteDraft => DeleteDraft'
      BY <1>1, <3>3, DeleteDraftStays
    <3>6. QED
      BY <2>2, <3>3, <3>4, <3>5 DEF StoreInv, DraftInv
  <2>3. QED
    BY <2>1, <2>2
<1>12. TrueInv' /\ ReaderInv'
  BY <1>1 DEF StoreInv, TrueInv, ReaderInv, On
<1>13. SnapshotsTypeOK'
  <2>1. PumpTypeOK' /\ processing' = processing
    BY <1>1 DEF SnapshotsTypeOK, PumpTypeOK, pumpVars
  <2>2. chain' # <<>>
    BY <1>3
  <2>3. QED
    BY <1>1, <1>2, <1>3, <1>4, <2>1, <2>2 DEF SnapshotsTypeOK
<1>14. QED
  BY <1>6, <1>7, <1>9, <1>10, <1>11, <1>12, <1>13 DEF StoreInv

LEMMA DeleteSnapshotKeeps ==
  ASSUME SnapshotsTypeOK, StoreInv, NEW time \in Timestamp, DeleteSnapshot(time)
  PROVE  SnapshotsTypeOK' /\ StoreInv'
<1>a. PICK op : op = [kind |-> "delete", time |-> time, by |-> Scheduled]
  OBVIOUS
<1>b. PICK N : N = Len(chain)
  OBVIOUS
<1>1. /\ deletes < MaxDeletes /\ deletes' = deletes + 1 /\ time < clock
      /\ chain' = Append(chain, op) /\ doomed' = doomed \cup {time} /\ UNCHANGED pumpVars
      /\ index' = index /\ files' = files /\ draft' = draft /\ taker' = taker /\ clock' = clock
      /\ reader' = reader /\ faults' = faults /\ acked' = acked /\ gone' = gone
      /\ leftover' = leftover /\ emptied' = emptied
  BY <1>a DEF DeleteSnapshot
<1>2. op \in Operation /\ op.time = time /\ op.kind = "delete"
  BY <1>a DEF Operation, Taker
<1>3. /\ chain' \in Seq(Operation) /\ N \in Nat /\ Len(chain') = N + 1 /\ chain'[N + 1] = op
      /\ \A k \in 1..N : chain'[k] = chain[k]
      /\ \A k \in 1..N : Appends(k)' <=> Appends(k)
      /\ ~Appends(N + 1)'
      /\ \A k \in 1..Len(chain') : k \in 1..N \/ k = N + 1
  <2>1. /\ chain' \in Seq(Operation) /\ N \in Nat /\ Len(chain') = N + 1 /\ chain'[N + 1] = op
        /\ \A k \in 1..N : chain'[k] = chain[k]
    BY <1>b, <1>1, <1>2, StoreTypes, AppendOf
  <2>2. QED
    BY <1>2, <2>1 DEF Appends
<1>4. \A k \in 1..Len(chain') : Appends(k)' => k \in 1..N
  BY <1>3
<1>5. ChainInv'
  <2>1. \A k \in 1..Len(chain') : chain'[k].time < clock'
    BY <1>b, <1>1, <1>2, <1>3 DEF StoreInv, ChainInv
  <2>2. ASSUME NEW j \in 1..Len(chain'), NEW k \in 1..Len(chain'), j < k, Appends(k)'
        PROVE  chain'[j].time < chain'[k].time
    <3>1. k \in 1..N /\ j \in 1..N
      BY <1>3, <1>4, <2>2
    <3>2. QED
      BY <1>b, <1>3, <2>2, <3>1 DEF StoreInv, ChainInv
  <2>3. \A k \in 1..Len(chain') : Appends(k)' => taker'[chain'[k].by] \in {"append", "reappend"}
    BY <1>b, <1>1, <1>3, <1>4 DEF StoreInv, ChainInv
  <2>4. \A j, k \in 1..Len(chain') : j # k /\ Appends(j)' /\ Appends(k)' => chain'[j].by # chain'[k].by
    BY <1>b, <1>3, <1>4 DEF StoreInv, ChainInv
  <2>5. \A k \in 1..Len(chain') : ~(Appends(k)') => chain'[k].time \in doomed'
    BY <1>b, <1>1, <1>2, <1>3 DEF StoreInv, ChainInv
  <2>6. \A u \in doomed' : u \in Timestamp /\ u < clock'
    BY <1>1 DEF StoreInv, ChainInv
  <2>7. QED
    BY <2>1, <2>2, <2>3, <2>4, <2>5, <2>6 DEF ChainInv
<1>6. SettledInv'
  BY <1>b, <1>1, <1>3, <1>4 DEF StoreInv, SettledInv
<1>7. FilesInv'
  <2>1. ASSUME NEW n \in File, NEW u \in On(n), NEW k \in 1..Len(chain'), Appends(k)'
        PROVE  u < chain'[k].time \/ (k = 1 /\ draft' # NoDraft /\ u = chain'[1].time)
    <3>1. k \in 1..N /\ Appends(k)
      BY <1>3, <1>4, <2>1
    <3>2. u < chain[k].time \/ (k = 1 /\ draft # NoDraft /\ u = chain[1].time)
      BY <1>b, <3>1 DEF StoreInv, FilesInv
    <3>3. QED
      BY <1>1, <1>3, <3>1, <3>2
  <2>2. \A n \in File : On(n)' = On(n)
    BY <1>1 DEF On
  <2>3. QED
    BY <1>1, <2>1, <2>2 DEF StoreInv, FilesInv
<1>8. IndexInv'
  BY <1>b, <1>1, <1>3, <1>4 DEF StoreInv, IndexInv
<1>9. DraftInv'
  <2>1. CASE draft = NoDraft
    BY <1>1, <2>1 DEF DraftInv
  <2>2. CASE draft # NoDraft
    <3>1. chain \in Seq(Operation) /\ chain # <<>>
      BY <2>2 DEF SnapshotsTypeOK
    <3>2. 1 \in 1..N
      BY <1>b, <3>1, TailOf
    <3>3. chain'[1] = chain[1] /\ (Appends(1)' <=> Appends(1))
      BY <1>3, <3>2
    <3>4. AppendDraft => AppendDraft'
      BY <1>1, <3>3 DEF AppendDraft, On, Target, NextChunk, AfterAppend
    <3>5. DeleteDraft => DeleteDraft'
      BY <1>1, <3>3, DeleteDraftStays
    <3>6. QED
      BY <2>2, <3>3, <3>4, <3>5 DEF StoreInv, DraftInv
  <2>3. QED
    BY <2>1, <2>2
<1>10. TrueInv' /\ ReaderInv'
  BY <1>1 DEF StoreInv, TrueInv, ReaderInv, On
<1>11. SnapshotsTypeOK'
  <2>1. PumpTypeOK' /\ processing' = processing
    BY <1>1 DEF SnapshotsTypeOK, PumpTypeOK, pumpVars
  <2>2. chain' # <<>>
    BY <1>3
  <2>3. deletes' \in 0..MaxDeletes
    BY <1>1, SnapshotAssumption DEF SnapshotsTypeOK
  <2>4. QED
    BY <1>1, <1>3, <2>1, <2>2, <2>3 DEF SnapshotsTypeOK
<1>12. QED
  BY <1>5, <1>6, <1>7, <1>8, <1>9, <1>10, <1>11 DEF StoreInv

-----------------------------------------------------------------------------
(* The pump, the takers and the crash. *)

LEMMA TakersKeep ==
  ASSUME SnapshotsTypeOK, StoreInv,
         \/ \E t \in Taker : BuildNull(t)
         \/ RetryDelayEnds
         \/ \E t \in Hook : HookFires(t)
  PROVE  SnapshotsTypeOK' /\ StoreInv'
<1> DEFINE Stage == {"idle", "build", "append", "delay", "rebuild", "reappend", "done"}
<1>1. /\ UNCHANGED <<storeVars, clock, reader, historyVars>> /\ UNCHANGED pumpVars
      /\ deletes' = deletes /\ faults' = faults
  BY DEF BuildNull, RetryDelayEnds, HookFires
<1>2. taker \in [Taker -> Stage] /\ Scheduled \in Taker /\ \A t \in Hook : t \in Taker /\ t # Scheduled
  BY SnapshotAssumption DEF SnapshotsTypeOK, Taker
<1>3. PICK t \in Taker, s \in Stage :
        /\ taker' = [taker EXCEPT ![t] = s] /\ taker[t] \notin {"append", "reappend"}
        /\ t = Scheduled => taker[t] # "idle" /\ s # "idle"
  <2>1. ASSUME NEW t \in Taker, BuildNull(t)
        PROVE  \E s \in Stage :
                 /\ taker' = [taker EXCEPT ![t] = s] /\ taker[t] \notin {"append", "reappend"}
                 /\ t = Scheduled => taker[t] # "idle" /\ s # "idle"
    <3>1. Failed(t) \in Stage /\ (t = Scheduled => Failed(t) # "idle")
      BY DEF Failed
    <3>2. taker[t] \in {"build", "rebuild"} /\ taker' = [taker EXCEPT ![t] = Failed(t)]
      BY <2>1 DEF BuildNull
    <3>3. taker[t] \notin {"append", "reappend"} /\ taker[t] # "idle"
      BY <3>2
    <3> HIDE DEF Stage
    <3>4. QED
      BY <3>1, <3>2, <3>3
  <2>2. CASE RetryDelayEnds
    <3>1. /\ taker[Scheduled] = "delay" /\ taker' = [taker EXCEPT ![Scheduled] = "rebuild"]
          /\ taker[Scheduled] \notin {"append", "reappend"} /\ "rebuild" \in Stage
          /\ taker[Scheduled] # "idle" /\ "rebuild" # "idle"
      BY <2>2 DEF RetryDelayEnds
    <3> HIDE DEF Stage
    <3>2. QED
      BY <1>2, <3>1
  <2>3. ASSUME NEW t \in Hook, HookFires(t)
        PROVE  \E s \in Stage :
                 /\ taker' = [taker EXCEPT ![t] = s] /\ taker[t] \notin {"append", "reappend"}
                 /\ t # Scheduled
    <3>1. /\ taker' = [taker EXCEPT ![t] = "build"] /\ taker[t] \notin {"append", "reappend"}
          /\ "build" \in Stage /\ t # Scheduled
      BY <1>2, <2>3 DEF HookFires
    <3> HIDE DEF Stage
    <3>2. QED
      BY <3>1
  <2> HIDE DEF Stage
  <2>4. QED
    BY <1>2, <2>1, <2>2, <2>3
<1>4. taker' \in [Taker -> Stage]
  <2> HIDE DEF Stage
  <2>1. QED
    BY <1>2, <1>3
<1>5. \A u \in Taker : taker[u] \in {"append", "reappend"} => taker'[u] = taker[u]
  <2> HIDE DEF Stage
  <2>1. QED
    BY <1>2, <1>3
<1>6. (taker'[Scheduled] # "idle") = (taker[Scheduled] # "idle")
  <2> HIDE DEF Stage
  <2>1. CASE t = Scheduled
    BY <1>2, <1>3, <2>1
  <2>2. CASE t # Scheduled
    BY <1>2, <1>3, <2>2
  <2>3. QED
    BY <2>1, <2>2
<1>7. StoreInv'
  BY <1>1, <1>5, QuietStore
<1>8. SnapshotsTypeOK'
  <2>1. PumpTypeOK' /\ processing' = processing
    BY <1>1 DEF SnapshotsTypeOK, PumpTypeOK, pumpVars
  <2>2. QED
    BY <1>1, <1>4, <1>6, <2>1 DEF SnapshotsTypeOK, storeVars, historyVars
<1>9. QED
  BY <1>7, <1>8

LEMMA TicksKeep ==
  ASSUME SnapshotsTypeOK, StoreInv, PumpTypeOK', PumpStep \/ AllTaken
  PROVE  SnapshotsTypeOK' /\ StoreInv'
<1>1. /\ UNCHANGED <<storeVars, clock, reader, historyVars>>
      /\ deletes' = deletes /\ faults' = faults
  BY DEF PumpStep, AllTaken
<1>2. /\ taker \in [Taker -> {"idle", "build", "append", "delay", "rebuild", "reappend", "done"}]
      /\ Scheduled \in Taker /\ (taker[Scheduled] # "idle") = processing
      /\ processing \in BOOLEAN /\ processing' \in BOOLEAN
  BY DEF SnapshotsTypeOK, PumpTypeOK, Taker
<1>3. /\ taker' \in [Taker -> {"idle", "build", "append", "delay", "rebuild", "reappend", "done"}]
      /\ \A u \in Taker : taker[u] \in {"append", "reappend"} => taker'[u] = taker[u]
      /\ (taker'[Scheduled] # "idle") = processing'
  <2>1. CASE PumpStep
    <3>1. processing => processing'
      BY <1>2, <2>1 DEF PumpStep, Start, Stop, TimerDropped, TimerTicks, RunNow
    <3>2. taker' = [taker EXCEPT ![Scheduled] = IF processing' /\ ~processing THEN "build" ELSE @]
      BY <2>1 DEF PumpStep
    <3>3. CASE processing' /\ ~processing
      BY <1>2, <3>2, <3>3
    <3>4. CASE ~(processing' /\ ~processing)
      <4>1. taker' = taker /\ processing' = processing
        BY <1>2, <3>1, <3>2, <3>4
      <4>2. QED
        BY <1>2, <4>1
    <3>5. QED
      BY <3>3, <3>4
  <2>2. CASE AllTaken
    <3>1. /\ taker[Scheduled] = "done" /\ processing' = FALSE
          /\ taker' = [taker EXCEPT ![Scheduled] = "idle"]
      BY <2>2 DEF AllTaken, TickEnds
    <3>2. QED
      BY <1>2, <3>1
  <2>3. QED
    BY <2>1, <2>2
<1>4. StoreInv'
  BY <1>1, <1>3, QuietStore
<1>5. SnapshotsTypeOK'
  BY <1>1, <1>3 DEF SnapshotsTypeOK, storeVars, historyVars
<1>6. QED
  BY <1>4, <1>5

LEMMA CrashKeeps ==
  ASSUME SnapshotsTypeOK, StoreInv, CrashRestart
  PROVE  SnapshotsTypeOK' /\ StoreInv'
<1>1. /\ chain' = <<>> /\ draft' = NoDraft /\ taker' = [t \in Taker |-> "idle"]
      /\ reader' = NoRead /\ index' = index /\ files' = files /\ clock' = clock
      /\ deletes' = deletes /\ acked' = acked /\ doomed' = doomed /\ gone' = gone
      /\ leftover' = leftover /\ emptied' = emptied /\ processing' = FALSE
      /\ faults < MaxFaults /\ faults' = faults + 1
  BY DEF CrashRestart, Fault, historyVars
<1>2. \A k \in 1..Len(chain') : FALSE
  BY <1>1
<1>3. ChainInv' /\ SettledInv'
  BY <1>1, <1>2 DEF StoreInv, ChainInv, SettledInv
<1>4. \A n \in File : On(n)' = On(n)
  BY <1>1 DEF On
<1>5. FilesInv' /\ IndexInv'
  BY <1>1, <1>2, <1>4 DEF StoreInv, FilesInv, IndexInv
<1>6. DraftInv' /\ TrueInv'
  BY <1>1, <1>4 DEF StoreInv, DraftInv, TrueInv, On
<1>7. ReaderInv' /\ reader' \in [on : BOOLEAN, rest : Seq(Chunk), due : SUBSET Timestamp]
  BY <1>1 DEF ReaderInv, NoRead
<1>8. PumpTypeOK'
  BY DEF CrashRestart, SnapshotsTypeOK, PumpTypeOK
<1>9. faults' \in 0..MaxFaults
  BY <1>1, SnapshotAssumption DEF SnapshotsTypeOK
<1>10. /\ taker' \in [Taker -> {"idle", "build", "append", "delay", "rebuild", "reappend", "done"}]
       /\ (taker'[Scheduled] # "idle") = processing' /\ chain' \in Seq(Operation)
  <2>1. Scheduled \in Taker
    BY DEF Taker
  <2>2. taker'[Scheduled] = "idle" /\ chain' \in Seq(Operation)
    BY <1>1, <2>1
  <2>3. (taker'[Scheduled] # "idle") = processing'
    BY <1>1, <2>2
  <2>4. taker' \in [Taker -> {"idle", "build", "append", "delay", "rebuild", "reappend", "done"}]
    BY <1>1
  <2>5. QED
    BY <2>2, <2>3, <2>4
<1>11. SnapshotsTypeOK'
  BY <1>1, <1>7, <1>8, <1>9, <1>10 DEF SnapshotsTypeOK
<1>12. QED
  BY <1>3, <1>5, <1>6, <1>7, <1>11 DEF StoreInv

-----------------------------------------------------------------------------
LEMMA ServiceInit == Init => ServiceInv
<1> SUFFICES ASSUME Init PROVE ServiceInv
  OBVIOUS
<1>1. PumpInv
  BY PumpInvInit DEF Init
<1>2. /\ index = <<>> /\ files = [n \in 1..MaxSnapshots |-> <<>>] /\ chain = <<>> /\ draft = NoDraft
      /\ taker = [t \in Taker |-> "idle"] /\ clock = 1 /\ reader = NoRead /\ deletes = 0
      /\ faults = 0 /\ acked = {} /\ doomed = {} /\ gone = {} /\ leftover = {}
      /\ emptied = FALSE
      /\ processing = FALSE /\ Len(chain) = 0 /\ Len(index) = 0
  BY DEF Init, PumpInit
<1>3. \A n \in File : files[n] = <<>> /\ On(n) = {}
  BY <1>2 DEF File, On, ToSet
<1>4. SnapshotsTypeOK
  <2>1. /\ deletes \in 0..MaxDeletes /\ faults \in 0..MaxFaults /\ clock \in 1..MaxSnapshots + 1
        /\ taker \in [Taker -> {"idle", "build", "append", "delay", "rebuild", "reappend", "done"}]
        /\ Scheduled \in Taker
    BY <1>2, SnapshotAssumption DEF Taker
  <2>2. taker[Scheduled] = "idle"
    BY <1>2, <2>1
  <2>3. (taker[Scheduled] # "idle") = processing
    BY <1>2, <2>2
  <2>4. files \in [1..MaxSnapshots -> Seq(Timestamp)]
    BY <1>2
  <2>5. reader \in [on : BOOLEAN, rest : Seq(Chunk), due : SUBSET Timestamp]
    BY <1>2 DEF NoRead
  <2>6. PumpTypeOK
    BY <1>1 DEF PumpInv
  <2>7. index \in Seq(Chunk) /\ chain \in Seq(Operation)
    BY <1>2
  <2>8. gone \subseteq doomed /\ leftover \subseteq doomed
    BY <1>2
  <2>9. QED
    BY <1>2, <2>1, <2>3, <2>4, <2>5, <2>6, <2>7, <2>8 DEF SnapshotsTypeOK
<1>5. StoreInv
  <2>1. ChainInv /\ SettledInv /\ DraftInv
    BY <1>2 DEF ChainInv, SettledInv, DraftInv
  <2>2. IndexInv
    BY <1>2 DEF IndexInv
  <2>3. \A n \in File : Rises(files[n])
    BY <1>3 DEF Rises
  <2>4. FilesInv
    BY <1>3, <2>3 DEF FilesInv
  <2>5. TrueInv
    BY <1>2, <1>3 DEF TrueInv
  <2>6. ReaderInv
    BY <1>2 DEF ReaderInv, NoRead
  <2>7. QED
    BY <2>1, <2>2, <2>4, <2>5, <2>6 DEF StoreInv
<1>6. QED
  BY <1>1, <1>4, <1>5 DEF ServiceInv

LEMMA ServiceNext == ServiceInv /\ [Next]_vars => ServiceInv'
<1> SUFFICES ASSUME ServiceInv, [Next]_vars PROVE ServiceInv'
  OBVIOUS
<1>1. PumpInv /\ SnapshotsTypeOK /\ StoreInv
  BY DEF ServiceInv
<1>2. PumpInv' /\ PumpTypeOK'
  BY <1>1, ServiceInvNext DEF PumpInv
<1>3. SnapshotsTypeOK' /\ StoreInv'
  <2>1. CASE StoreStep
    BY <1>1, <2>1, AppendLineKeeps, DeleteLineKeeps, FailingKeeps, SaveIndexKeeps DEF StoreStep
  <2>2. CASE StoreFails
    BY <1>1, <2>2, FailingKeeps
  <2>3. ASSUME NEW t \in Taker, TakerStep(t) PROVE SnapshotsTypeOK' /\ StoreInv'
    BY <1>1, <2>3, TakersKeep, BuildKeeps DEF TakerStep
  <2>4. CASE RetryDelayEnds
    BY <1>1, <2>4, TakersKeep
  <2>5. ASSUME NEW t \in Hook, HookFires(t) PROVE SnapshotsTypeOK' /\ StoreInv'
    BY <1>1, <2>5, TakersKeep
  <2>6. ASSUME NEW time \in Timestamp, DeleteSnapshot(time) PROVE SnapshotsTypeOK' /\ StoreInv'
    BY <1>1, <2>6, DeleteSnapshotKeeps
  <2>7. CASE PumpStep
    BY <1>1, <1>2, <2>7, TicksKeep
  <2>8. CASE AllTaken
    BY <1>1, <1>2, <2>8, TicksKeep
  <2>9. CASE ReadIndex \/ ReadChunk \/ ReadAnswers
    BY <1>1, <2>9, ReadingKeeps
  <2>10. CASE CrashRestart
    BY <1>1, <2>10, CrashKeeps
  <2>11. CASE UNCHANGED vars
    <3>1. /\ UNCHANGED <<storeVars, clock, reader, historyVars>> /\ taker' = taker
          /\ deletes' = deletes /\ faults' = faults /\ UNCHANGED pumpVars
      BY <2>11 DEF vars
    <3>2. StoreInv'
      BY <1>1, <3>1, QuietStore
    <3>3. processing' = processing
      BY <3>1 DEF pumpVars
    <3>4. SnapshotsTypeOK'
      BY <1>1, <1>2, <3>1, <3>3 DEF SnapshotsTypeOK, storeVars, historyVars
    <3>5. QED
      BY <3>2, <3>4
  <2>12. QED
    BY <2>1, <2>2, <2>3, <2>4, <2>5, <2>6, <2>7, <2>8, <2>9, <2>10, <2>11 DEF Next
<1>4. QED
  BY <1>2, <1>3 DEF ServiceInv

LEMMA ServiceAlways == Spec => []ServiceInv
  BY ServiceInit, ServiceNext, PTL DEF Spec

(* The files and the index of store.ts, its write chain and the takers of    *)
(* service.ts keep their types: every chunk the index names is a file, and   *)
(* the tick is in flight exactly while its snapshot is being taken.          *)
THEOREM SnapshotsTypeCorrect == Spec => []SnapshotsTypeOK
<1>1. ServiceInv => SnapshotsTypeOK
  BY DEF ServiceInv
<1>2. QED
  BY <1>1, ServiceAlways, PTL

(* Every snapshot whose append resolved (doAppend) and whose delete nobody   *)
(* asked for is listed once, unless a chunk before the newest was emptied,   *)
(* and a deleted one nowhere (doDelete), unless its file could not be        *)
(* unlinked: whatever writes fail and wherever the process dies.             *)
THEOREM ListingStaysTrue == Spec => []ListingIsTrue
<1>1. ServiceInv => ListingIsTrue
  <2> SUFFICES ASSUME ServiceInv PROVE ListingIsTrue
    OBVIOUS
  <2>1. SnapshotsTypeOK /\ StoreInv
    BY DEF ServiceInv
  <2>2. /\ index \in Seq(Chunk) /\ \A i \in 1..Len(index) : index[i].file \in File
        /\ \A n \in File : files[n] \in Seq(Timestamp)
    BY <2>1, StoreTypes DEF StoreInv, IndexInv
  <2>3. ASSUME NEW time, NEW p \in Places(time)
        PROVE  \E i \in 1..Len(index) : \E j \in 1..Len(files[index[i].file]) :
                 p = <<i, j>> /\ files[index[i].file][j] = time
    BY <2>2, <2>3 DEF Places
  <2>4. ASSUME NEW time \in gone \ leftover PROVE Places(time) = {}
    <3> SUFFICES ASSUME NEW p \in Places(time) PROVE FALSE
      OBVIOUS
    <3>1. PICK i \in 1..Len(index) :
            \E j \in 1..Len(files[index[i].file]) : files[index[i].file][j] = time
      BY <2>3
    <3>2. time \in On(index[i].file)
      BY <2>2, <3>1, ElementOf DEF On
    <3>3. QED
      BY <2>1, <2>2, <3>2 DEF StoreInv, FilesInv
  <2>5. ASSUME ~emptied, NEW time \in acked \ doomed PROVE Cardinality(Places(time)) = 1
    <3>1. PICK i \in 1..Len(index) : time \in On(i)
      BY <2>1, <2>5 DEF StoreInv, TrueInv
    <3>2. \A k \in 1..Len(index) : index[k].file = k /\ k \in File
      BY <2>1, <2>2, <2>5 DEF StoreInv, TrueInv
    <3>3. PICK j \in 1..Len(files[i]) : files[i][j] = time
      BY <2>2, <3>1, <3>2, ElementOf DEF On
    <3>4. <<i, j>> \in Places(time)
      BY <2>2, <3>2, <3>3 DEF Places
    <3>5. ASSUME NEW p \in Places(time) PROVE p = <<i, j>>
      <4>0. PICK k \in 1..Len(index) : \E l \in 1..Len(files[index[k].file]) :
              p = <<k, l>> /\ files[index[k].file][l] = time
        BY <2>3
      <4>1. PICK l \in 1..Len(files[index[k].file]) : p = <<k, l>> /\ files[index[k].file][l] = time
        BY <4>0
      <4>2. index[k].file = k /\ k \in File /\ i \in File
        BY <3>2
      <4>3. time \in On(k)
        BY <2>2, <4>1, <4>2, ElementOf DEF On
      <4>4. k = i
        BY <2>1, <3>1, <4>2, <4>3 DEF StoreInv, FilesInv
      <4>5. Rises(files[i]) /\ files[i] \in Seq(Timestamp) /\ Timestamp \subseteq Nat
        BY <2>1, <2>2, <4>2, StoreTypes DEF StoreInv, FilesInv
      <4>6. ~(l < j) /\ ~(j < l)
        <5>1. files[i][j] = files[i][l] /\ l \in 1..Len(files[i])
          BY <3>3, <4>1, <4>2, <4>4
        <5>2. files[i][j] \in Timestamp
          BY <3>3, <4>5
        <5>3. files[i][j] = files[i][l] /\ files[i][j] \in Nat /\ l \in 1..Len(files[i])
          BY <4>5, <5>1, <5>2
        <5>4. QED
          BY <3>3, <4>5, <5>3 DEF Rises
      <4>7. l = j
        BY <4>1, <4>2, <4>4, <4>5, <4>6
      <4>8. QED
        BY <4>1, <4>4, <4>7
    <3>6. Places(time) = {<<i, j>>}
      BY <3>4, <3>5
    <3>7. QED
      BY <3>6, FS_Singleton
  <2>6. QED
    BY <2>4, <2>5 DEF ListingIsTrue
<1>2. QED
  BY <1>1, ServiceAlways, PTL

(* The range a chunk's entry gives (doAppend extends it, doDelete takes it   *)
(* from what is left) covers every acknowledged line of its file but that of *)
(* a delete whose unlink failed.                                             *)
THEOREM ListedIsFindable == Spec => []Findable
<1>1. ServiceInv => Findable
  BY DEF ServiceInv, StoreInv, TrueInv, Findable, On
<1>2. QED
  BY <1>1, ServiceAlways, PTL

(* A read that met all its files has met every snapshot that was there when  *)
(* it copied the index (readRange) and that nobody asked to delete.          *)
THEOREM ReadsAreComplete == Spec => []ReadIsComplete
<1>1. ServiceInv => ReadIsComplete
  BY DEF ServiceInv, StoreInv, ReaderInv, ReadIsComplete
<1>2. QED
  BY <1>1, ServiceAlways, PTL

=============================================================================
