-------------------------- MODULE TradingGitProofs --------------------------
(***************************************************************************)
(* What TLAPS proves of TradingGit for any number of operations, calls,     *)
(* hashes and faults: first with every interleaving of push and reject      *)
(* calls, then for callers that wait (SerialSpec): nothing staged is lost,  *)
(* nothing is recorded twice, nothing is sent again without a fault, nothing *)
(* rejected was sent, and the engine implements ProposalLifecycle.          *)
(***************************************************************************)
EXTENDS TradingGit, TLAPS

(* commit.json always holds what memory holds: a restart loses nothing but   *)
(* the calls in flight.                                                      *)
DiskMirrorsMemory == disk = exportState

(* A call in flight was begun on a prepared commit.                          *)
CallHasHash == \A c \in Call : calls[c].kind # "idle" => calls[c].hash \in Hash

(* ChainIntegrity and PendingHasOperations are not inductive alone: a restart *)
(* replaces memory by the file, and a call appends the hash it began with.   *)
GitInv == /\ TypeOK /\ ChainIntegrity /\ PendingHasOperations
          /\ DiskMirrorsMemory /\ CallHasHash

-----------------------------------------------------------------------------
(* The shapes of the values the actions write. *)

LEMMA IdleType == Idle \in CallState
BY DEF Idle, Begun, CallState

LEMMA ExportType ==
  ASSUME TypeOK PROVE exportState \in GitExportState
BY DEF TypeOK, exportState, GitExportState

LEMMA HashType ==
  ASSUME nextHash \in Nat, NEW ops \in Seq(Op)
  PROVE  generateCommitHash(ops) \in Hash
BY DEF generateCommitHash, Hash

LEMMA CommitType ==
  ASSUME NEW h \in Hash, NEW k \in SyntheticKind \cup {"push", "reject"},
         NEW ops \in Seq(Op), NEW rs \in Seq(Status), head \in Hash \cup {NULL}
  PROVE  [hash |-> h, parentHash |-> head, kind |-> k,
          operations |-> ops, results |-> rs] \in GitCommit
BY DEF GitCommit

LEMMA RefusedType ==
  ASSUME NEW ops \in Seq(Op)
  PROVE  [i \in 1..Len(ops) |-> "user-rejected"] \in Seq(Status)
<1>1. Len(ops) \in Nat
  OBVIOUS
<1>2. [i \in 1..Len(ops) |-> "user-rejected"] \in [1..Len(ops) -> Status]
  BY DEF Status
<1> QED
  BY <1>1, <1>2

(* An append keeps the log a chain and extends it at the end.                *)
LEMMA AppendKeepsChain ==
  ASSUME TypeOK, ChainIntegrity,
         NEW h \in Hash, NEW k \in SyntheticKind \cup {"push", "reject"},
         NEW ops \in Seq(Op), NEW rs \in Seq(Status),
         AppendCommit(h, k, ops, rs)
  PROVE  /\ ChainIntegrity'
         /\ commits' \in Seq(GitCommit)
         /\ head' \in Hash
         /\ IsPrefix(commits, commits')
<1> DEFINE e == [hash |-> h, parentHash |-> head, kind |-> k,
                 operations |-> ops, results |-> rs]
<1>1. commits \in Seq(GitCommit) /\ head \in Hash \cup {NULL}
  BY DEF TypeOK
<1>2. e \in GitCommit
  BY <1>1, CommitType
<1>3. commits' = Append(commits, e) /\ head' = h
  BY DEF AppendCommit
<1> HIDE DEF e
<1>4. /\ commits' \in Seq(GitCommit) /\ Len(commits') = Len(commits) + 1
      /\ \A i \in 1..Len(commits) : commits'[i] = commits[i]
      /\ commits'[Len(commits) + 1] = e
      /\ Len(commits) \in Nat
  BY <1>1, <1>2, <1>3
<1>5. e.hash = h /\ e.parentHash = head
  BY DEF e
<1>6. ChainIntegrity'
  <2>1. head' = IF commits' = <<>> THEN NULL ELSE commits'[Len(commits')].hash
    BY <1>3, <1>4, <1>5
  <2>2. ASSUME NEW i \in 1..Len(commits')
        PROVE commits'[i].parentHash = IF i = 1 THEN NULL ELSE commits'[i - 1].hash
    <3>1. CASE i \in 1..Len(commits)
      <4>1. commits'[i] = commits[i]
        BY <3>1, <1>4
      <4>2. i # 1 => commits'[i - 1] = commits[i - 1]
        BY <3>1, <1>4
      <4> QED
        BY <3>1, <4>1, <4>2 DEF ChainIntegrity
    <3>2. CASE i = Len(commits) + 1
      <4>1. commits'[i].parentHash = head
        BY <3>2, <1>4, <1>5
      <4>2. CASE commits = <<>>
        BY <3>2, <4>1, <4>2 DEF ChainIntegrity
      <4>3. CASE commits # <<>>
        <5>1. Len(commits) \in 1..Len(commits)
          BY <4>3, <1>1, <1>4
        <5> QED
          BY <3>2, <4>1, <4>3, <5>1, <1>4 DEF ChainIntegrity
      <4> QED
        BY <4>2, <4>3
    <3> QED
      BY <3>1, <3>2, <1>4
  <2> QED
    BY <2>1, <2>2 DEF ChainIntegrity
<1>7. IsPrefix(commits, commits')
  BY <1>1, <1>4 DEF IsPrefix
<1> QED
  BY <1>3, <1>4, <1>6, <1>7

-----------------------------------------------------------------------------
LEMMA InitInv == Init => GitInv
<1> SUFFICES ASSUME Init PROVE GitInv
  OBVIOUS
<1>1. /\ <<>> \in Seq(Op) /\ <<>> \in Seq(GitCommit)
      /\ [c \in Call |-> Idle] \in [Call -> CallState]
      /\ [o \in Op |-> 0] \in [Op -> Nat]
  BY IdleType
<1>2. disk \in GitExportState
  BY <1>1 DEF Init, exportState, GitExportState
<1>3. TypeOK
  BY <1>1, <1>2, GitAssumption DEF Init, TypeOK
<1>4. ChainIntegrity
  BY DEF Init, ChainIntegrity
<1>5. PendingHasOperations /\ DiskMirrorsMemory
  BY DEF Init, PendingHasOperations, DiskMirrorsMemory
<1>6. CallHasHash
  BY DEF Init, CallHasHash, Idle, Begun
<1> QED
  BY <1>3, <1>4, <1>5, <1>6 DEF GitInv

(* An action that leaves the log alone, and writes the file when it changes  *)
(* what the file holds, keeps the chain.                                     *)
LEMMA LogUntouched ==
  ASSUME ChainIntegrity, UNCHANGED <<commits, head>> PROVE ChainIntegrity'
BY DEF ChainIntegrity

LEMMA PersistMirrors ==
  ASSUME persistState PROVE DiskMirrorsMemory'
BY DEF persistState, DiskMirrorsMemory

LEMMA PersistTyped ==
  ASSUME persistState, commits' \in Seq(GitCommit), head' \in Hash \cup {NULL},
         stagingArea' \in Seq(Op), pendingHash' \in Hash \cup {NULL}
  PROVE  disk' \in GitExportState
BY DEF persistState, exportState, GitExportState

LEMMA NothingExported ==
  ASSUME DiskMirrorsMemory, PendingHasOperations,
         UNCHANGED <<stagingArea, pendingHash, commits, head, disk>>
  PROVE  DiskMirrorsMemory' /\ PendingHasOperations'
BY DEF DiskMirrorsMemory, exportState, PendingHasOperations

(* The steps of a call between its first and its last segment touch only the *)
(* locals of that call and the history.                                      *)
LEMMA CallStepInv ==
  ASSUME GitInv,
         UNCHANGED <<stagingArea, pendingHash, commits, head, disk, nextHash, added>>,
         calls' \in [Call -> CallState], CallHasHash',
         sent' \in [Op -> Nat], faults' \in Nat
  PROVE  GitInv'
<1>1. TypeOK'
  BY DEF GitInv, TypeOK
<1>2. ChainIntegrity'
  BY LogUntouched DEF GitInv
<1>3. DiskMirrorsMemory' /\ PendingHasOperations'
  BY NothingExported DEF GitInv
<1> QED
  BY <1>1, <1>2, <1>3 DEF GitInv

LEMMA AddInv ==
  ASSUME GitInv, NEW op \in Op, Add(op) PROVE GitInv'
<1>1. stagingArea' \in Seq(Op) /\ stagingArea' # <<>>
  BY DEF GitInv, TypeOK, Add
<1>2. disk' \in GitExportState
  BY <1>1, PersistTyped DEF GitInv, TypeOK, Add
<1>3. TypeOK'
  BY <1>1, <1>2 DEF GitInv, TypeOK, Add
<1>4. ChainIntegrity'
  BY LogUntouched DEF GitInv, Add
<1>5. DiskMirrorsMemory'
  BY PersistMirrors DEF Add
<1>6. PendingHasOperations'
  BY <1>1 DEF PendingHasOperations
<1>7. CallHasHash'
  BY DEF GitInv, CallHasHash, Add
<1> QED
  BY <1>3, <1>4, <1>5, <1>6, <1>7 DEF GitInv

LEMMA CommitInv ==
  ASSUME GitInv, Commit PROVE GitInv'
<1>1. pendingHash' \in Hash /\ nextHash' \in Nat
  BY HashType DEF GitInv, TypeOK, Commit
<1>2. disk' \in GitExportState
  BY <1>1, PersistTyped DEF GitInv, TypeOK, Commit
<1>3. TypeOK'
  BY <1>1, <1>2 DEF GitInv, TypeOK, Commit
<1>4. ChainIntegrity'
  BY LogUntouched DEF GitInv, Commit
<1>5. DiskMirrorsMemory'
  BY PersistMirrors DEF Commit
<1>6. PendingHasOperations'
  BY DEF PendingHasOperations, Commit
<1>7. CallHasHash'
  BY DEF GitInv, CallHasHash, Commit
<1> QED
  BY <1>3, <1>4, <1>5, <1>6, <1>7 DEF GitInv

LEMMA BeginInv ==
  ASSUME GitInv, NEW c \in Call, NEW kind \in {"push", "reject"}, Begin(c, kind)
  PROVE  GitInv'
<1>1. Begun(kind, stagingArea, pendingHash) \in CallState
  BY DEF GitInv, TypeOK, Begun, CallState
<1>2. calls' \in [Call -> CallState]
  BY <1>1 DEF GitInv, TypeOK, Begin
<1>3. CallHasHash'
  BY DEF GitInv, TypeOK, CallHasHash, Begin, Begun
<1>4. /\ UNCHANGED <<stagingArea, pendingHash, commits, head, disk, nextHash, added>>
      /\ sent' \in [Op -> Nat] /\ faults' \in Nat
  BY DEF GitInv, TypeOK, Begin, histVars
<1> QED
  BY <1>2, <1>3, <1>4, CallStepInv

LEMMA PushResultCalls ==
  ASSUME TypeOK, CallHasHash, NEW c \in Call, NEW s \in Status, PushResult(c, s)
  PROVE  calls' \in [Call -> CallState] /\ CallHasHash'
<1>1. calls[c] \in CallState
  BY DEF TypeOK
<1>2. Append(calls[c].results, s) \in Seq(Status)
  BY <1>1 DEF CallState
<1>3. [calls[c] EXCEPT !.results = Append(calls[c].results, s)] \in CallState
  BY <1>1, <1>2 DEF CallState
<1>4. calls' \in [Call -> CallState]
  BY <1>3 DEF TypeOK, PushResult
<1>5. \A d \in Call : calls'[d].kind = calls[d].kind /\ calls'[d].hash = calls[d].hash
  BY DEF TypeOK, CallState, PushResult
<1> QED
  BY <1>4, <1>5 DEF CallHasHash

LEMMA NextOpType ==
  ASSUME TypeOK, NEW c \in Call, Executing(c) PROVE NextOp(c) \in Op
<1>1. calls[c].operations \in Seq(Op) /\ calls[c].results \in Seq(Status)
  BY DEF TypeOK, CallState
<1>2. Len(calls[c].results) + 1 \in 1..Len(calls[c].operations)
  BY <1>1 DEF Executing, Executed
<1> QED
  BY <1>1, <1>2 DEF NextOp, Executed

LEMMA PushDispatchInv ==
  ASSUME GitInv, NEW c \in Call, NEW s \in PushStatus, PushDispatch(c, s)
  PROVE  GitInv'
<1>1. s \in Status
  BY GitAssumption DEF Status
<1>2. calls' \in [Call -> CallState] /\ CallHasHash'
  BY <1>1, PushResultCalls DEF GitInv, PushDispatch
<1>3. sent' \in [Op -> Nat]
  <2>1. NextOp(c) \in Op
    BY NextOpType DEF GitInv, PushDispatch
  <2>2. sent \in [Op -> Nat]
    BY DEF GitInv, TypeOK
  <2> QED
    BY <2>1, <2>2 DEF PushDispatch
<1>4. /\ UNCHANGED <<stagingArea, pendingHash, commits, head, disk, nextHash, added>>
      /\ faults' \in Nat
  BY DEF GitInv, TypeOK, PushDispatch, PushResult
<1> QED
  BY <1>2, <1>3, <1>4, CallStepInv

LEMMA PushGuardedInv ==
  ASSUME GitInv, NEW c \in Call, PushGuarded(c)
  PROVE  GitInv'
<1>1. calls' \in [Call -> CallState] /\ CallHasHash'
  BY PushResultCalls DEF GitInv, PushGuarded, Status
<1>2. /\ UNCHANGED <<stagingArea, pendingHash, commits, head, disk, nextHash, added>>
      /\ sent' \in [Op -> Nat] /\ faults' \in Nat
  BY DEF GitInv, TypeOK, PushGuarded, PushResult
<1> QED
  BY <1>1, <1>2, CallStepInv

(* A call that ends leaves the others as they were. *)
LEMMA IdleCalls ==
  ASSUME TypeOK, CallHasHash, NEW c \in Call, calls' = [calls EXCEPT ![c] = Idle]
  PROVE  calls' \in [Call -> CallState] /\ CallHasHash'
BY IdleType DEF TypeOK, CallHasHash, Idle, Begun

LEMMA StateReadFailsInv ==
  ASSUME GitInv, NEW c \in Call, StateReadFails(c)
  PROVE  GitInv'
<1>1. calls' \in [Call -> CallState] /\ CallHasHash'
  BY IdleCalls DEF GitInv, StateReadFails
<1>2. /\ UNCHANGED <<stagingArea, pendingHash, commits, head, disk, nextHash, added>>
      /\ sent' \in [Op -> Nat] /\ faults' \in Nat
  BY DEF GitInv, TypeOK, StateReadFails
<1> QED
  BY <1>1, <1>2, CallStepInv

LEMMA SettleInv ==
  ASSUME GitInv, NEW c \in Call, calls[c].kind \in {"push", "reject"},
         NEW rs \in Seq(Status), Settle(c, rs)
  PROVE  GitInv' /\ IsPrefix(commits, commits')
<1>1. /\ calls[c].hash \in Hash /\ calls[c].operations \in Seq(Op)
      /\ calls[c].kind \in SyntheticKind \cup {"push", "reject"}
  BY DEF GitInv, TypeOK, CallState, CallHasHash
<1>2. /\ ChainIntegrity' /\ commits' \in Seq(GitCommit) /\ head' \in Hash
      /\ IsPrefix(commits, commits')
  <2>1. AppendCommit(calls[c].hash, calls[c].kind, calls[c].operations, rs)
    BY DEF Settle
  <2> QED
    BY <1>1, <2>1, AppendKeepsChain DEF GitInv
<1>3. calls' \in [Call -> CallState] /\ CallHasHash'
  BY IdleCalls DEF GitInv, Settle
<1>4. stagingArea' \in Seq(Op) /\ pendingHash' = NULL
  BY DEF Settle, ClearStaging
<1>5. disk' \in GitExportState /\ DiskMirrorsMemory'
  BY <1>2, <1>4, PersistTyped, PersistMirrors DEF Settle
<1>6. TypeOK'
  BY <1>2, <1>3, <1>4, <1>5 DEF GitInv, TypeOK, Settle, histVars
<1>7. PendingHasOperations'
  BY <1>4 DEF PendingHasOperations
<1> QED
  BY <1>2, <1>3, <1>5, <1>6, <1>7 DEF GitInv

LEMMA PushSettleInv ==
  ASSUME GitInv, NEW c \in Call, PushSettle(c)
  PROVE  GitInv' /\ IsPrefix(commits, commits')
<1>1. calls[c].results \in Seq(Status)
  BY DEF GitInv, TypeOK, CallState
<1> QED
  BY <1>1, SettleInv DEF PushSettle

LEMMA RejectSettleInv ==
  ASSUME GitInv, NEW c \in Call, RejectSettle(c)
  PROVE  GitInv' /\ IsPrefix(commits, commits')
<1>1. calls[c].operations \in Seq(Op)
  BY DEF GitInv, TypeOK, CallState
<1>2. [i \in 1..Len(calls[c].operations) |-> "user-rejected"] \in Seq(Status)
  BY <1>1, RefusedType
<1> QED
  BY <1>2, SettleInv DEF RejectSettle

LEMMA RecordSyntheticInv ==
  ASSUME GitInv, NEW k \in SyntheticKind, RecordSynthetic(k)
  PROVE  GitInv' /\ IsPrefix(commits, commits')
<1>0. <<>> \in Seq(Op) /\ <<>> \in Seq(Status)
  OBVIOUS
<1>1. generateCommitHash(<<>>) \in Hash
  BY <1>0, HashType DEF GitInv, TypeOK
<1>2. /\ ChainIntegrity' /\ commits' \in Seq(GitCommit) /\ head' \in Hash
      /\ IsPrefix(commits, commits')
  <2>1. AppendCommit(generateCommitHash(<<>>), k, <<>>, <<>>)
    BY DEF RecordSynthetic
  <2> QED
    BY <1>0, <1>1, <2>1, AppendKeepsChain DEF GitInv
<1>3. UNCHANGED <<stagingArea, pendingHash, calls, added, sent, faults>>
  BY DEF RecordSynthetic, histVars
<1>4. disk' \in GitExportState /\ DiskMirrorsMemory'
  BY <1>2, <1>3, PersistTyped, PersistMirrors DEF GitInv, TypeOK, RecordSynthetic
<1>5. TypeOK'
  BY <1>2, <1>3, <1>4 DEF GitInv, TypeOK, RecordSynthetic
<1>6. PendingHasOperations' /\ CallHasHash'
  BY <1>3 DEF GitInv, PendingHasOperations, CallHasHash
<1> QED
  BY <1>2, <1>4, <1>5, <1>6 DEF GitInv

(* What the new process restores is what the old one held. *)
LEMMA RestoreIsExact ==
  ASSUME GitInv, CrashRestart
  PROVE  UNCHANGED <<stagingArea, pendingHash, commits, head, disk>>
<1>1. /\ disk.commits = commits /\ disk.head = head
      /\ disk.stagingArea = stagingArea /\ disk.pendingHash = pendingHash
  BY DEF GitInv, DiskMirrorsMemory, exportState
<1>2. stagingArea = <<>> => pendingHash = NULL
  BY DEF GitInv, PendingHasOperations
<1> QED
  BY <1>1, <1>2 DEF CrashRestart

LEMMA CrashRestartInv ==
  ASSUME GitInv, CrashRestart
  PROVE  GitInv'
<1>1. UNCHANGED <<stagingArea, pendingHash, commits, head, disk, nextHash, added>>
  BY RestoreIsExact DEF CrashRestart
<1>2. calls' \in [Call -> CallState] /\ CallHasHash'
  BY IdleType DEF CrashRestart, CallHasHash, Idle, Begun
<1>3. sent' \in [Op -> Nat] /\ faults' \in Nat
  BY DEF GitInv, TypeOK, CrashRestart
<1> QED
  BY <1>1, <1>2, <1>3, CallStepInv

LEMMA PrefixOfItself ==
  ASSUME TypeOK, UNCHANGED commits PROVE IsPrefix(commits, commits')
<1>1. commits \in Seq(GitCommit) /\ commits' = commits
  BY DEF TypeOK
<1> QED
  BY <1>1 DEF IsPrefix

-----------------------------------------------------------------------------
(* Every step of the engine keeps the invariant and only extends the log.    *)
LEMMA StepInv ==
  ASSUME GitInv, [Next]_vars PROVE GitInv' /\ IsPrefix(commits, commits')
<1>1. ASSUME NEW op \in Op, Add(op) PROVE GitInv' /\ commits' = commits
  BY <1>1, AddInv DEF Add
<1>2. ASSUME Commit PROVE GitInv' /\ commits' = commits
  BY <1>2, CommitInv DEF Commit
<1>3. ASSUME NEW c \in Call, PushBegin(c) \/ RejectBegin(c)
      PROVE  GitInv' /\ commits' = commits
  <2>1. PICK kind \in {"push", "reject"} : Begin(c, kind)
    BY <1>3 DEF PushBegin, RejectBegin
  <2> QED
    BY <2>1, BeginInv DEF Begin
<1>4. ASSUME NEW c \in Call, NEW s \in PushStatus, PushDispatch(c, s)
      PROVE  GitInv' /\ commits' = commits
  BY <1>4, PushDispatchInv DEF PushDispatch, PushResult
<1>5. ASSUME NEW c \in Call, PushGuarded(c) PROVE GitInv' /\ commits' = commits
  BY <1>5, PushGuardedInv DEF PushGuarded, PushResult
<1>6. ASSUME NEW c \in Call, PushSettle(c)
      PROVE  GitInv' /\ IsPrefix(commits, commits')
  BY <1>6, PushSettleInv
<1>7. ASSUME NEW c \in Call, RejectSettle(c)
      PROVE  GitInv' /\ IsPrefix(commits, commits')
  BY <1>7, RejectSettleInv
<1>8. ASSUME NEW c \in Call, StateReadFails(c) PROVE GitInv' /\ commits' = commits
  BY <1>8, StateReadFailsInv DEF StateReadFails
<1>9. ASSUME NEW k \in SyntheticKind, RecordSynthetic(k)
      PROVE  GitInv' /\ IsPrefix(commits, commits')
  BY <1>9, RecordSyntheticInv
<1>10. ASSUME CrashRestart PROVE GitInv' /\ commits' = commits
  BY <1>10, CrashRestartInv, RestoreIsExact
<1>11. ASSUME UNCHANGED vars PROVE GitInv' /\ commits' = commits
  BY <1>11 DEF GitInv, TypeOK, ChainIntegrity, PendingHasOperations,
               DiskMirrorsMemory, exportState, CallHasHash, vars, gitVars, histVars
<1>12. commits' = commits => IsPrefix(commits, commits')
  BY PrefixOfItself DEF GitInv
<1> QED
  BY <1>1, <1>2, <1>3, <1>4, <1>5, <1>6, <1>7, <1>8, <1>9, <1>10, <1>11, <1>12
     DEF Next, Request, Progress

(* Type correctness, the hash chain and the approval invariant, in every     *)
(* reachable state, whatever overlaps with the awaits of push and reject.    *)
THEOREM GitInvariant == Spec => []GitInv
<1>1. GitInv /\ [Next]_vars => GitInv'
  BY StepInv
<1> QED
  BY InitInv, <1>1, PTL DEF Spec

(* The state variables of the engine keep their types. *)
THEOREM TypeCorrect == Spec => []TypeOK
<1>1. GitInv => TypeOK
  BY DEF GitInv
<1> QED
  BY GitInvariant, <1>1, PTL

(* The log stays a hash chain ending in head (TradingGit.push and the        *)
(* record* methods, which read head after their awaits).                     *)
THEOREM LogIsChain == Spec => []ChainIntegrity
<1>1. GitInv => ChainIntegrity
  BY DEF GitInv
<1> QED
  BY GitInvariant, <1>1, PTL

(* A prepared commit always has staged operations to approve. *)
THEOREM PendingIsApprovable == Spec => []PendingHasOperations
<1>1. GitInv => PendingHasOperations
  BY DEF GitInv
<1> QED
  BY GitInvariant, <1>1, PTL

(* commit.json mirrors memory in every state, so no crash loses a commit, a  *)
(* staged operation or the prepared commit.                                  *)
THEOREM NothingUnpersisted == Spec => []DiskMirrorsMemory
<1>1. GitInv => DiskMirrorsMemory
  BY DEF GitInv
<1> QED
  BY GitInvariant, <1>1, PTL

(* No step, a crash and restart included, rewrites or drops a commit. *)
THEOREM LogIsAppendOnly == Spec => LogOnlyGrows
<1>1. GitInv /\ [Next]_vars => [IsPrefix(commits, commits')]_commits
  BY StepInv
<1> QED
  BY GitInvariant, <1>1, PTL DEF Spec, LogOnlyGrows

-----------------------------------------------------------------------------
(* CALLERS THAT WAIT: what holds of SerialSpec only. *)

Busy(c) == calls[c].kind # "idle"

(* One call at a time, which copied the staging area nobody has changed since. *)
OneAtATime ==
  /\ \A c, d \in Call : Busy(c) /\ Busy(d) => c = d
  /\ \A c \in Call : Busy(c) => calls[c].operations = stagingArea /\ stagingArea # <<>>
  /\ \A c \in Call : calls[c].kind # "push" => calls[c].results = <<>>

StagedDistinct ==
  \A i, j \in 1..Len(stagingArea) : stagingArea[i] = stagingArea[j] => i = j

SyntheticIsEmpty ==
  \A i \in DOMAIN commits : commits[i].kind \in SyntheticKind => commits[i].operations = <<>>

(* What is staged and what is recorded. *)
Books == NoOperationLost /\ RecordedOnce /\ StagedDistinct /\ SyntheticIsEmpty

(* The push in flight has executed, or tried to execute, this operation. *)
Tried(op) == \E c \in Call : \E i \in 1..Len(calls[c].operations) :
               i <= Executed(c) /\ calls[c].operations[i] = op

(* What was sent: each fault accounts for one send, the log or the push in   *)
(* flight for one more.                                                      *)
SentBound ==
  \A op \in Op : /\ sent[op] <= 1 + faults
                 /\ op \notin Recorded /\ ~Tried(op) => sent[op] <= faults
SentWasStaged == \A op \in Op : sent[op] > 0 => op \in added
Sends == SentBound /\ SentWasStaged /\ RejectedNeverSent

SerialInv == GitInv /\ OneAtATime /\ Books /\ Sends

-----------------------------------------------------------------------------
(* Appending one commit records exactly its operations.                      *)
LEMMA AppendRecords ==
  ASSUME TypeOK, NEW h, NEW k, NEW ops \in Seq(Op), NEW rs,
         AppendCommit(h, k, ops, rs)
  PROVE  /\ Recorded' = Recorded \cup ToSet(ops)
         /\ DOMAIN commits' = DOMAIN commits \cup {Len(commits) + 1}
         /\ Len(commits) + 1 \notin DOMAIN commits
         /\ \A i \in DOMAIN commits : commits'[i] = commits[i]
         /\ commits'[Len(commits) + 1].operations = ops
         /\ commits'[Len(commits) + 1].kind = k
<1> DEFINE e == [hash |-> h, parentHash |-> head, kind |-> k,
                 operations |-> ops, results |-> rs]
<1>1. commits \in Seq(GitCommit) /\ commits' = Append(commits, e)
  BY DEF TypeOK, AppendCommit
<1>2. e.operations = ops /\ e.kind = k
  OBVIOUS
<1> HIDE DEF e
<1>3. /\ DOMAIN commits' = DOMAIN commits \cup {Len(commits) + 1}
      /\ Len(commits) + 1 \notin DOMAIN commits
      /\ \A i \in DOMAIN commits : commits'[i] = commits[i]
      /\ commits'[Len(commits) + 1] = e
  BY <1>1
<1>4. Recorded' = Recorded \cup ToSet(ops)
  BY <1>2, <1>3 DEF Recorded
<1> QED
  BY <1>2, <1>3, <1>4

(* What a step leaves of the books when it neither stages nor records. *)
LEMMA BooksKept ==
  ASSUME Books, UNCHANGED <<stagingArea, commits, added>>
  PROVE  Books' /\ Recorded' = Recorded /\ Staged' = Staged
<1>1. Recorded' = Recorded /\ Staged' = Staged
  BY DEF Recorded, Staged
<1>2. NoOperationLost' /\ StagedDistinct' /\ SyntheticIsEmpty'
  BY <1>1 DEF Books, NoOperationLost, StagedDistinct, SyntheticIsEmpty
<1>3. RecordedOnce'
  BY <1>1 DEF Books, RecordedOnce
<1> QED
  BY <1>1, <1>2, <1>3 DEF Books

(* And of the sends when nothing is sent.                                    *)
LEMMA SendsKept ==
  ASSUME TypeOK, Sends, UNCHANGED <<commits, sent>>, added \subseteq added',
         \/ faults' = faults + 1
         \/ faults' = faults /\ \A op \in Op : Tried(op) => Tried(op)'
  PROVE  Sends'
<1>1. faults \in Nat /\ sent \in [Op -> Nat] /\ Recorded' = Recorded
  BY DEF TypeOK, Recorded
<1>2. SentBound'
  BY <1>1 DEF Sends, SentBound
<1>3. SentWasStaged'
  BY DEF Sends, SentWasStaged
<1>4. RejectedNeverSent'
  BY <1>1 DEF Sends, RejectedNeverSent
<1> QED
  BY <1>2, <1>3, <1>4 DEF Sends

(* Operations staged before the step and after it. *)
LEMMA StagedIs ==
  ASSUME TypeOK
  PROVE  \A op : op \in Staged <=> \E i \in 1..Len(stagingArea) : stagingArea[i] = op
<1>1. stagingArea \in Seq(Op)
  BY DEF TypeOK
<1>2. DOMAIN stagingArea = 1..Len(stagingArea)
  BY <1>1
<1> QED
  BY <1>2 DEF Staged, ToSet

(* Only staged operations have been tried by the call in flight. *)
LEMMA TriedIsStaged ==
  ASSUME TypeOK, OneAtATime, NEW op, Tried(op)
  PROVE  op \in Staged /\ \E c \in Call : calls[c].kind = "push"
<1>1. PICK c \in Call : \E i \in 1..Len(calls[c].operations) :
               i <= Executed(c) /\ calls[c].operations[i] = op
  BY DEF Tried
<1>2. calls[c].kind = "push"
  BY <1>1 DEF OneAtATime, Executed
<1>3. calls[c].operations = stagingArea
  BY <1>2 DEF OneAtATime, Busy
<1> QED
  BY <1>1, <1>2, <1>3, StagedIs

-----------------------------------------------------------------------------
LEMMA InitSerial == Init => SerialInv
<1> SUFFICES ASSUME Init PROVE SerialInv
  OBVIOUS
<1>1. GitInv
  BY InitInv
<1>2. commits = <<>> /\ stagingArea = <<>> /\ added = {} /\ DOMAIN commits = {}
  BY DEF Init
<1>3. OneAtATime
  BY DEF Init, OneAtATime, Busy, Idle, Begun
<1>4. Recorded = {} /\ Staged = {}
  BY <1>2 DEF Recorded, Staged, ToSet
<1>5. Books
  BY <1>2, <1>4 DEF Books, NoOperationLost, RecordedOnce, StagedDistinct, SyntheticIsEmpty
<1>6. Sends
  BY <1>2 DEF Init, Sends, SentBound, SentWasStaged, RejectedNeverSent
<1> QED
  BY <1>1, <1>3, <1>5, <1>6 DEF SerialInv

LEMMA AddSerial ==
  ASSUME SerialInv, Quiet, NEW op \in Op, Add(op) PROVE SerialInv'
<1>1. TypeOK /\ GitInv'
  BY AddInv DEF SerialInv, GitInv
<1>2. /\ op \notin added /\ stagingArea' = Append(stagingArea, op)
      /\ added' = added \cup {op} /\ stagingArea \in Seq(Op)
      /\ UNCHANGED <<commits, calls, sent, faults>>
  BY <1>1 DEF Add, TypeOK
<1>3. OneAtATime'
  BY <1>2 DEF SerialInv, OneAtATime, Quiet, Busy
<1>4. /\ op \notin Staged /\ op \notin Recorded
      /\ Staged' = Staged \cup {op} /\ Recorded' = Recorded
  <2>1. op \notin Staged /\ op \notin Recorded
    BY <1>2 DEF SerialInv, Books, NoOperationLost
  <2>2. Staged' = Staged \cup {op}
    BY <1>2 DEF Staged, ToSet
  <2> QED
    BY <1>2, <2>1, <2>2 DEF Recorded
<1>5. StagedDistinct'
  <2>1. \A i \in 1..Len(stagingArea) : stagingArea[i] # op
    BY <1>1, <1>4, StagedIs
  <2> QED
    BY <1>2, <2>1 DEF SerialInv, Books, StagedDistinct
<1>6. Books'
  BY <1>2, <1>4, <1>5 DEF SerialInv, Books, NoOperationLost, RecordedOnce, SyntheticIsEmpty
<1>7. \A o \in Op : Tried(o) => Tried(o)'
  BY <1>2 DEF Tried, Executed
<1>8. Sends'
  BY <1>1, <1>2, <1>7, SendsKept DEF SerialInv
<1> QED
  BY <1>1, <1>3, <1>6, <1>8 DEF SerialInv

LEMMA CommitSerial ==
  ASSUME SerialInv, Commit PROVE SerialInv'
<1>1. TypeOK /\ GitInv'
  BY CommitInv DEF SerialInv, GitInv
<1>2. UNCHANGED <<stagingArea, commits, calls, added, sent, faults>>
  BY DEF Commit
<1>3. OneAtATime'
  BY <1>2 DEF SerialInv, OneAtATime, Busy
<1>4. \A o \in Op : Tried(o) => Tried(o)'
  BY <1>2 DEF Tried, Executed
<1> QED
  BY <1>1, <1>2, <1>3, <1>4, BooksKept, SendsKept DEF SerialInv

LEMMA BeginSerial ==
  ASSUME SerialInv, Quiet, NEW c \in Call, NEW kind \in {"push", "reject"}, Begin(c, kind)
  PROVE  SerialInv'
<1>1. TypeOK /\ GitInv' /\ calls \in [Call -> CallState]
  BY BeginInv DEF SerialInv, GitInv, TypeOK
<1>2. /\ UNCHANGED <<stagingArea, commits, added, sent, faults>> /\ stagingArea # <<>>
      /\ calls' = [calls EXCEPT ![c] = Begun(kind, stagingArea, pendingHash)]
  BY DEF Begin, histVars
<1>3. /\ calls'[c].operations = stagingArea /\ calls'[c].results = <<>>
      /\ \A d \in Call : d # c => calls'[d] = calls[d] /\ calls[d].kind = "idle"
  BY <1>1, <1>2 DEF Begun, Quiet
<1>4. OneAtATime'
  BY <1>2, <1>3 DEF SerialInv, OneAtATime, Busy
<1>5. \A o \in Op : ~Tried(o)
  BY <1>1, TriedIsStaged DEF SerialInv, Quiet
<1> QED
  BY <1>1, <1>2, <1>4, <1>5, BooksKept, SendsKept DEF SerialInv

-----------------------------------------------------------------------------
(* One result more: the operation at that place now counts as tried.         *)
LEMMA ResultTried ==
  ASSUME SerialInv, NEW c \in Call, NEW s \in Status, Executing(c), PushResult(c, s)
  PROVE  /\ OneAtATime' /\ Books'
         /\ Recorded' = Recorded
         /\ \A op \in Op : Tried(op)' <=> Tried(op) \/ op = NextOp(c)
         /\ NextOp(c) \in Staged /\ ~Tried(NextOp(c))
<1>1. TypeOK /\ calls \in [Call -> CallState] /\ calls[c].kind = "push"
  BY DEF SerialInv, GitInv, TypeOK, Executing
<1>2. /\ UNCHANGED <<stagingArea, commits, added, faults>>
      /\ calls' = [calls EXCEPT ![c].results = Append(@, s)]
  BY DEF PushResult
<1>3. /\ calls[c].operations = stagingArea
      /\ calls[c].operations \in Seq(Op) /\ calls[c].results \in Seq(Status)
      /\ Executed(c) \in Nat /\ Executed(c) + 1 \in 1..Len(stagingArea)
      /\ NextOp(c) = stagingArea[Executed(c) + 1]
  BY <1>1 DEF SerialInv, OneAtATime, Busy, CallState, Executing, Executed, NextOp
<1>4. /\ calls'[c].kind = "push" /\ calls'[c].operations = calls[c].operations
      /\ Executed(c)' = Executed(c) + 1
      /\ \A d \in Call : d # c => calls'[d] = calls[d]
  BY <1>1, <1>2, <1>3 DEF Executed, CallState
<1>5. OneAtATime'
  BY <1>1, <1>2, <1>4 DEF SerialInv, OneAtATime, Busy
<1>6. \A op \in Op : Tried(op) <=>
        \E i \in 1..Len(stagingArea) : i <= Executed(c) /\ stagingArea[i] = op
  <2>1. \A d \in Call : d # c => calls[d].results = <<>>
    BY <1>1 DEF SerialInv, OneAtATime, Busy
  <2>2. \A d \in Call : \A i \in 1..Len(calls[d].operations) : i <= Executed(d) => d = c
    BY <2>1 DEF Executed
  <2> QED
    BY <1>3, <2>2 DEF Tried
<1>7. \A op \in Op : Tried(op)' <=>
        \E i \in 1..Len(stagingArea) : i <= Executed(c) + 1 /\ stagingArea[i] = op
  <2>1. \A d \in Call : d # c => calls'[d].results = <<>>
    BY <1>1, <1>4 DEF SerialInv, OneAtATime, Busy
  <2>2. \A d \in Call : \A i \in 1..Len(calls'[d].operations) : i <= Executed(d)' => d = c
    BY <2>1 DEF Executed
  <2> QED
    BY <1>3, <1>4, <2>2 DEF Tried
<1>8. \A op \in Op : Tried(op)' <=> Tried(op) \/ op = NextOp(c)
  BY <1>3, <1>6, <1>7
<1>9. NextOp(c) \in Staged
  BY <1>1, <1>3, StagedIs
<1>10. NextOp(c) \in Op
  BY <1>1, NextOpType
<1>11. ~Tried(NextOp(c))
  BY <1>3, <1>6, <1>10 DEF SerialInv, Books, StagedDistinct
<1> QED
  BY <1>2, <1>5, <1>8, <1>9, <1>11, BooksKept DEF SerialInv

LEMMA DispatchSerial ==
  ASSUME SerialInv, NEW c \in Call, NEW s \in PushStatus, PushDispatch(c, s)
  PROVE  SerialInv'
<1> DEFINE o == NextOp(c)
<1>1. TypeOK /\ GitInv' /\ s \in Status
  BY PushDispatchInv, GitAssumption DEF SerialInv, GitInv, Status
<1>2. Executing(c) /\ PushResult(c, s) /\ sent' = [sent EXCEPT ![o] = @ + 1]
  BY DEF PushDispatch
<1>3. UNCHANGED <<commits, added, faults>> /\ o \in Op
  BY <1>1, <1>2, NextOpType DEF PushResult
<1>4. /\ OneAtATime' /\ Books' /\ Recorded' = Recorded
      /\ \A op \in Op : Tried(op)' <=> Tried(op) \/ op = o
      /\ o \in Staged /\ ~Tried(o)
  BY <1>1, <1>2, ResultTried
<1>5. o \notin Recorded /\ o \in added
  BY <1>4 DEF SerialInv, Books, RecordedOnce, NoOperationLost
<1>6. /\ sent \in [Op -> Nat] /\ faults \in Nat /\ sent'[o] = sent[o] + 1
      /\ \A op \in Op : op # o => sent'[op] = sent[op]
  BY <1>1, <1>2, <1>3 DEF TypeOK
<1> HIDE DEF o
<1>7. SentBound'
  BY <1>3, <1>4, <1>5, <1>6 DEF SerialInv, Sends, SentBound
<1>8. SentWasStaged'
  BY <1>3, <1>5, <1>6 DEF SerialInv, Sends, SentWasStaged
<1>9. RejectedNeverSent'
  <2>1. \A i \in DOMAIN commits : o \notin ToSet(commits[i].operations)
    BY <1>5 DEF Recorded
  <2>2. \A i \in DOMAIN commits : \A op \in ToSet(commits[i].operations) : op \in Op
    <3>1. \A i \in DOMAIN commits : commits[i] \in GitCommit
      BY <1>1 DEF TypeOK
    <3>2. \A i \in DOMAIN commits : commits[i].operations \in Seq(Op)
      BY <3>1 DEF GitCommit
    <3> QED
      BY <3>2 DEF ToSet
  <2> QED
    BY <1>3, <1>6, <2>1, <2>2 DEF SerialInv, Sends, RejectedNeverSent
<1> QED
  BY <1>1, <1>4, <1>7, <1>8, <1>9 DEF SerialInv, Sends

LEMMA GuardedSerial ==
  ASSUME SerialInv, NEW c \in Call, PushGuarded(c) PROVE SerialInv'
<1>1. TypeOK /\ GitInv' /\ "rejected" \in Status
  BY PushGuardedInv DEF SerialInv, GitInv, Status
<1>2. Executing(c) /\ PushResult(c, "rejected") /\ sent' = sent
  BY DEF PushGuarded
<1>3. UNCHANGED <<commits, added, faults>>
  BY <1>2 DEF PushResult
<1>4. OneAtATime' /\ Books' /\ \A op \in Op : Tried(op) => Tried(op)'
  BY <1>1, <1>2, ResultTried
<1>5. Sends'
  BY <1>1, <1>2, <1>3, <1>4, SendsKept DEF SerialInv
<1> QED
  BY <1>1, <1>4, <1>5 DEF SerialInv

LEMMA FailsSerial ==
  ASSUME SerialInv, NEW c \in Call, StateReadFails(c) PROVE SerialInv'
<1>1. TypeOK /\ GitInv' /\ calls \in [Call -> CallState]
  BY StateReadFailsInv DEF SerialInv, GitInv, TypeOK
<1>2. /\ UNCHANGED <<stagingArea, commits, added, sent>> /\ faults' = faults + 1
      /\ calls' = [calls EXCEPT ![c] = Idle]
  BY DEF StateReadFails
<1>3. OneAtATime'
  BY <1>1, <1>2 DEF SerialInv, OneAtATime, Busy, Idle, Begun
<1> QED
  BY <1>1, <1>2, <1>3, BooksKept, SendsKept DEF SerialInv

LEMMA RestartSerial ==
  ASSUME SerialInv, CrashRestart PROVE SerialInv'
<1>1. TypeOK /\ GitInv' /\ UNCHANGED <<stagingArea, commits>>
  BY CrashRestartInv, RestoreIsExact DEF SerialInv, GitInv
<1>2. /\ UNCHANGED <<added, sent>> /\ faults' = faults + 1
      /\ calls' = [d \in Call |-> Idle]
  BY DEF CrashRestart
<1>3. OneAtATime'
  BY <1>2 DEF OneAtATime, Busy, Idle, Begun
<1> QED
  BY <1>1, <1>2, <1>3, BooksKept, SendsKept DEF SerialInv

(* The account's own commits hold no operations. *)
LEMMA SyntheticSerial ==
  ASSUME SerialInv, NEW k \in SyntheticKind, RecordSynthetic(k) PROVE SerialInv'
<1>1. TypeOK /\ GitInv' /\ faults \in Nat
  BY RecordSyntheticInv DEF SerialInv, GitInv, TypeOK
<1>2. /\ UNCHANGED <<stagingArea, calls, added, sent, faults>>
      /\ AppendCommit(generateCommitHash(<<>>), k, <<>>, <<>>)
  BY DEF RecordSynthetic, histVars
<1>3. <<>> \in Seq(Op) /\ ToSet(<<>>) = {}
  BY DEF ToSet
<1>4. /\ Recorded' = Recorded
      /\ DOMAIN commits' = DOMAIN commits \cup {Len(commits) + 1}
      /\ Len(commits) + 1 \notin DOMAIN commits
      /\ \A i \in DOMAIN commits : commits'[i] = commits[i]
      /\ commits'[Len(commits) + 1].operations = <<>>
      /\ commits'[Len(commits) + 1].kind = k
  BY <1>1, <1>2, <1>3, AppendRecords
<1>5. OneAtATime'
  BY <1>2 DEF SerialInv, OneAtATime, Busy
<1>6. Staged' = Staged /\ \A op \in Op : Tried(op)' <=> Tried(op)
  BY <1>2 DEF Staged, Tried, Executed
<1>7. NoOperationLost' /\ StagedDistinct' /\ SyntheticIsEmpty'
  BY <1>2, <1>4, <1>6 DEF SerialInv, Books, NoOperationLost, StagedDistinct, SyntheticIsEmpty
<1>8. RecordedOnce'
  BY <1>3, <1>4, <1>6 DEF SerialInv, Books, RecordedOnce
<1>9. SentBound' /\ SentWasStaged'
  BY <1>2, <1>4, <1>6 DEF SerialInv, Sends, SentBound, SentWasStaged
<1>10. RejectedNeverSent'
  BY <1>2, <1>3, <1>4 DEF SerialInv, Sends, RejectedNeverSent
<1> QED
  BY <1>1, <1>5, <1>7, <1>8, <1>9, <1>10 DEF SerialInv, Books, Sends

(* The end of a call records exactly what was staged and clears it.          *)
LEMMA SettleSerial ==
  ASSUME SerialInv, NEW c \in Call, Busy(c), NEW rs, Settle(c, rs), GitInv',
         calls[c].kind = "push" => ~Executing(c)
  PROVE  /\ SerialInv' /\ Staged # {}
         /\ Recorded' = Recorded \cup Staged /\ Staged' = {}
         /\ DOMAIN commits' = DOMAIN commits \cup {Len(commits) + 1}
         /\ \A i \in DOMAIN commits : commits'[i] = commits[i]
         /\ ToSet(commits'[Len(commits) + 1].operations) = Staged
         /\ commits'[Len(commits) + 1].kind = calls[c].kind
<1>1. /\ TypeOK /\ faults \in Nat /\ calls \in [Call -> CallState]
      /\ stagingArea \in Seq(Op)
  BY DEF SerialInv, GitInv, TypeOK
<1>2. /\ UNCHANGED <<added, sent, faults>> /\ stagingArea' = <<>>
      /\ calls' = [calls EXCEPT ![c] = Idle]
      /\ AppendCommit(calls[c].hash, calls[c].kind, calls[c].operations, rs)
  BY DEF Settle, ClearStaging, histVars
<1>3. calls[c].operations = stagingArea /\ stagingArea # <<>>
  BY DEF SerialInv, OneAtATime
<1>4. /\ Recorded' = Recorded \cup Staged
      /\ DOMAIN commits' = DOMAIN commits \cup {Len(commits) + 1}
      /\ Len(commits) + 1 \notin DOMAIN commits
      /\ \A i \in DOMAIN commits : commits'[i] = commits[i]
      /\ commits'[Len(commits) + 1].operations = stagingArea
      /\ commits'[Len(commits) + 1].kind = calls[c].kind
  BY <1>1, <1>2, <1>3, AppendRecords DEF Staged
<1>5. Staged' = {} /\ ToSet(commits'[Len(commits) + 1].operations) = Staged
  <2>1. ToSet(<<>>) = {}
    BY DEF ToSet
  <2> QED
    BY <1>2, <1>4, <2>1 DEF Staged
<1>6. Staged # {}
  <2>1. 1 \in DOMAIN stagingArea
    BY <1>1, <1>3
  <2> QED
    BY <2>1 DEF Staged, ToSet
<1>7. OneAtATime'
  BY <1>1, <1>2 DEF SerialInv, OneAtATime, Busy, Idle, Begun
<1>8. \A op \in Op : Tried(op) => op \in Recorded'
  BY <1>1, <1>4, TriedIsStaged DEF SerialInv
<1>9. NoOperationLost' /\ StagedDistinct'
  BY <1>2, <1>4, <1>5 DEF SerialInv, Books, NoOperationLost, StagedDistinct
<1>10. SyntheticIsEmpty'
  <2>1. calls[c].kind \notin SyntheticKind
    BY <1>1, GitAssumption DEF CallState, Busy
  <2> QED
    BY <1>4, <2>1 DEF SerialInv, Books, SyntheticIsEmpty
<1>11. RecordedOnce'
  <2>1. \A i \in DOMAIN commits : ToSet(commits[i].operations) \cap Staged = {}
    BY DEF SerialInv, Books, RecordedOnce, Recorded
  <2> QED
    BY <1>4, <1>5, <2>1 DEF SerialInv, Books, RecordedOnce
<1>12. SentBound' /\ SentWasStaged'
  BY <1>2, <1>4, <1>8 DEF SerialInv, Sends, SentBound, SentWasStaged
<1>13. RejectedNeverSent'
  <2>1. ASSUME faults = 0, calls[c].kind = "reject", NEW op \in Staged
        PROVE  sent[op] = 0
    <3>1. op \in Op
      BY <1>1 DEF Staged, ToSet
    <3>2. op \notin Recorded
      BY DEF SerialInv, Books, RecordedOnce
    <3>3. \A d \in Call : calls[d].kind # "push"
      BY <2>1 DEF SerialInv, OneAtATime, Busy
    <3>4. ~Tried(op)
      BY <1>1, <3>3, TriedIsStaged DEF SerialInv
    <3>5. sent[op] <= 0 /\ sent[op] \in Nat
      BY <1>1, <2>1, <3>1, <3>2, <3>4 DEF SerialInv, Sends, SentBound, TypeOK
    <3> QED
      BY <3>5
  <2> QED
    BY <1>2, <1>4, <1>5, <2>1 DEF SerialInv, Sends, RejectedNeverSent
<1> QED
  BY <1>4, <1>5, <1>6, <1>7, <1>9, <1>10, <1>11, <1>12, <1>13 DEF SerialInv, Books, Sends

LEMMA EndSerial ==
  ASSUME SerialInv, NEW c \in Call, PushSettle(c) \/ RejectSettle(c)
  PROVE  /\ SerialInv' /\ Staged # {}
         /\ Recorded' = Recorded \cup Staged /\ Staged' = {}
         /\ DOMAIN commits' = DOMAIN commits \cup {Len(commits) + 1}
         /\ \A i \in DOMAIN commits : commits'[i] = commits[i]
         /\ ToSet(commits'[Len(commits) + 1].operations) = Staged
         /\ commits'[Len(commits) + 1].kind = calls[c].kind
<1>1. GitInv' /\ Busy(c) /\ (calls[c].kind = "push" => ~Executing(c))
  BY PushSettleInv, RejectSettleInv DEF SerialInv, PushSettle, RejectSettle, Busy
<1>2. PICK rs : Settle(c, rs)
  BY DEF PushSettle, RejectSettle
<1> QED
  BY <1>1, <1>2, SettleSerial

LEMMA StutterSerial ==
  ASSUME SerialInv, UNCHANGED vars PROVE SerialInv'
<1>1. UNCHANGED <<stagingArea, commits, calls, added, sent, faults>> /\ TypeOK
  BY DEF vars, gitVars, histVars, SerialInv, GitInv
<1>2. GitInv'
  BY StepInv DEF SerialInv
<1>3. OneAtATime' /\ \A op \in Op : Tried(op) => Tried(op)'
  BY <1>1 DEF SerialInv, OneAtATime, Busy, Tried, Executed
<1> QED
  BY <1>1, <1>2, <1>3, BooksKept, SendsKept DEF SerialInv

(* Every step that callers who wait can see keeps the books.                 *)
LEMMA StepSerial ==
  ASSUME SerialInv, [SerialNext]_vars PROVE SerialInv'
<1>1. CASE Quiet /\ \E op \in Op : Add(op)
  BY <1>1, AddSerial
<1>2. CASE Commit
  BY <1>2, CommitSerial
<1>3. CASE Quiet /\ \E c \in Call : PushBegin(c) \/ RejectBegin(c)
  BY <1>3, BeginSerial DEF PushBegin, RejectBegin
<1>4. CASE \E c \in Call, s \in PushStatus : PushDispatch(c, s)
  BY <1>4, DispatchSerial
<1>5. CASE \E c \in Call : PushGuarded(c)
  BY <1>5, GuardedSerial
<1>6. CASE \E c \in Call : PushSettle(c) \/ RejectSettle(c)
  BY <1>6, EndSerial
<1>7. CASE \E c \in Call : StateReadFails(c)
  BY <1>7, FailsSerial
<1>8. CASE \E k \in SyntheticKind : RecordSynthetic(k)
  BY <1>8, SyntheticSerial
<1>9. CASE CrashRestart
  BY <1>9, RestartSerial
<1>10. CASE UNCHANGED vars
  BY <1>10, StutterSerial
<1> QED
  BY <1>1, <1>2, <1>3, <1>4, <1>5, <1>6, <1>7, <1>8, <1>9, <1>10
     DEF SerialNext, Request, Progress

(* For callers that wait, the books of the engine are right in every         *)
(* reachable state, whatever crashes or fails.                               *)
THEOREM SerialInvariant == SerialSpec => []SerialInv
<1>1. SerialInv /\ [SerialNext]_vars => SerialInv'
  BY StepSerial
<1> QED
  BY InitSerial, <1>1, PTL DEF SerialSpec

(* push and reject clear the staging area after their awaits; what they clear*)
(* is what they have recorded.                                               *)
THEOREM NothingStagedIsLost == SerialSpec => []NoOperationLost
<1>1. SerialInv => NoOperationLost
  BY DEF SerialInv, Books
<1> QED
  BY SerialInvariant, <1>1, PTL

(* No operation is in two commits, nor both in the log and up for approval.  *)
THEOREM NothingRecordedTwice == SerialSpec => []RecordedOnce
<1>1. SerialInv => RecordedOnce
  BY DEF SerialInv, Books
<1> QED
  BY SerialInvariant, <1>1, PTL

(* Each crash or failed account read costs at most one repeated send.        *)
THEOREM NothingResentWithoutFault == SerialSpec => []ResentOnlyAfterFault
<1>1. SerialInv => ResentOnlyAfterFault
  BY DEF SerialInv, Sends, SentBound, ResentOnlyAfterFault
<1> QED
  BY SerialInvariant, <1>1, PTL

(* What the log shows as rejected by the user never reached the broker.      *)
THEOREM NothingRejectedWasSent == SerialSpec => []RejectedNeverSent
<1>1. SerialInv => RejectedNeverSent
  BY DEF SerialInv, Sends
<1> QED
  BY SerialInvariant, <1>1, PTL

-----------------------------------------------------------------------------
(* THE REFINEMENT.  For callers that wait, TradingGit implements             *)
(* ProposalLifecycle: every step of the engine is a step of the lifecycle,   *)
(* or a stutter, under the refinement mapping OpStatus.                      *)

RecordedAs(op, kind) ==
  \E i \in DOMAIN commits : commits[i].kind = kind /\ op \in ToSet(commits[i].operations)

(* What the refinement mapping says in a state that keeps its books.         *)
StatusMap ==
  \A op \in Op :
    /\ RecordedAs(op, "push")             => OpStatus[op] = "executed"
    /\ RecordedAs(op, "reject")           => OpStatus[op] = "refused"
    /\ op \notin Recorded /\ sent[op] > 0 => OpStatus[op] = "sent" /\ op \in Staged
    /\ op \in Staged /\ sent[op] = 0      => OpStatus[op] = "staged"
    /\ op \notin added                    => OpStatus[op] = "new"
    /\ \/ RecordedAs(op, "push") \/ RecordedAs(op, "reject")
       \/ op \notin Recorded /\ sent[op] > 0
       \/ op \in Staged /\ sent[op] = 0
       \/ op \notin added
    /\ op \in Staged => op \notin Recorded
    /\ sent[op] \in Nat

LEMMA StatusIs == SerialInv => StatusMap
<1> SUFFICES ASSUME SerialInv, NEW op \in Op
             PROVE  /\ RecordedAs(op, "push")             => OpStatus[op] = "executed"
                    /\ RecordedAs(op, "reject")           => OpStatus[op] = "refused"
                    /\ op \notin Recorded /\ sent[op] > 0 => OpStatus[op] = "sent" /\ op \in Staged
                    /\ op \in Staged /\ sent[op] = 0      => OpStatus[op] = "staged"
                    /\ op \notin added                    => OpStatus[op] = "new"
                    /\ \/ RecordedAs(op, "push") \/ RecordedAs(op, "reject")
                       \/ op \notin Recorded /\ sent[op] > 0
                       \/ op \in Staged /\ sent[op] = 0
                       \/ op \notin added
                    /\ op \in Staged => op \notin Recorded
                    /\ sent[op] \in Nat
  BY DEF StatusMap
<1>1. /\ sent[op] \in Nat
      /\ \A i \in DOMAIN commits : commits[i].kind \in SyntheticKind \cup {"push", "reject"}
  <2>1. commits \in Seq(GitCommit) /\ sent \in [Op -> Nat]
    BY DEF SerialInv, GitInv, TypeOK
  <2>2. \A i \in DOMAIN commits : commits[i] \in GitCommit
    BY <2>1
  <2> QED
    BY <2>1, <2>2 DEF GitCommit
<1>2. op \in Recorded <=> RecordedAs(op, "push") \/ RecordedAs(op, "reject")
  <2>1. \A i \in DOMAIN commits : op \in ToSet(commits[i].operations)
                                    => commits[i].kind \notin SyntheticKind
    BY DEF SerialInv, Books, SyntheticIsEmpty, ToSet
  <2> QED
    BY <1>1, <2>1 DEF Recorded, RecordedAs
<1>3. ~(RecordedAs(op, "push") /\ RecordedAs(op, "reject"))
  BY DEF RecordedAs, SerialInv, Books, RecordedOnce
<1>4. /\ op \in added <=> op \in Staged \/ op \in Recorded
      /\ op \in Staged => op \notin Recorded
      /\ sent[op] > 0 => op \in added
  BY DEF SerialInv, Books, NoOperationLost, RecordedOnce, Sends, SentWasStaged
<1>5. OpStatus[op] = CASE RecordedAs(op, "push") -> "executed"
                       [] RecordedAs(op, "reject") -> "refused"
                       [] OTHER -> IF sent[op] > 0 THEN "sent"
                                   ELSE IF op \in Staged THEN "staged" ELSE "new"
  BY DEF OpStatus, RecordedAs
<1> QED
  BY <1>1, <1>2, <1>3, <1>4, <1>5

LEMMA StatusIsNext == SerialInv' => StatusMap'
BY StatusIs, PTL

LEMMA StatusByCases ==
  /\ OpStatus = [op \in Op |-> OpStatus[op]]
  /\ OpStatus' = [op \in Op |-> OpStatus'[op]]
BY DEF OpStatus

LEMMA StatusKept ==
  ASSUME UNCHANGED <<commits, stagingArea, sent>> PROVE OpStatus' = OpStatus
BY DEF OpStatus, Staged

-----------------------------------------------------------------------------
LEMMA InitLifecycle == Init => Lifecycle!Init
<1> SUFFICES ASSUME Init PROVE Lifecycle!Init
  OBVIOUS
<1>1. StatusMap
  BY InitSerial, StatusIs
<1>2. \A op \in Op : OpStatus[op] = "new"
  BY <1>1 DEF StatusMap, Init
<1>3. OpStatus = [op \in Op |-> "new"]
  BY <1>2, StatusByCases
<1> QED
  BY <1>3 DEF Init, Lifecycle!Init

(* Staging proposes. *)
LEMMA AddProposes ==
  ASSUME SerialInv, SerialInv', NEW op \in Op, Add(op) PROVE Lifecycle!Propose(op)
<1>1. StatusMap /\ StatusMap'
  BY StatusIs, StatusIsNext
<1>2. /\ op \notin added /\ added' = added \cup {op}
      /\ UNCHANGED <<commits, sent, faults>> /\ stagingArea' = Append(stagingArea, op)
      /\ stagingArea \in Seq(Op)
  BY DEF Add, SerialInv, GitInv, TypeOK
<1>3. Staged' = Staged \cup {op}
  BY <1>2 DEF Staged, ToSet
<1>4. OpStatus[op] = "new"
  BY <1>1, <1>2 DEF StatusMap
<1>5. sent'[op] = 0
  BY <1>1, <1>2 DEF StatusMap, SerialInv, Sends, SentWasStaged
<1>6. OpStatus'[op] = "staged"
  BY <1>1, <1>3, <1>5 DEF StatusMap
<1>7. \A o \in Op : RecordedAs(o, "push")' = RecordedAs(o, "push") /\
                    RecordedAs(o, "reject")' = RecordedAs(o, "reject") /\
                    (o \in Recorded' <=> o \in Recorded)
  BY <1>2 DEF RecordedAs, Recorded
<1>8. \A o \in Op : o # op => OpStatus'[o] = OpStatus[o]
  BY <1>1, <1>2, <1>3, <1>7 DEF StatusMap
<1>9. OpStatus' = [OpStatus EXCEPT ![op] = "staged"]
  BY <1>6, <1>8, StatusByCases
<1> QED
  BY <1>2, <1>4, <1>9 DEF Lifecycle!Propose

(* The first broker call for an operation sends it. *)
LEMMA DispatchSends ==
  ASSUME SerialInv, SerialInv', NEW c \in Call, NEW s \in PushStatus, PushDispatch(c, s)
  PROVE  [\E op \in Op : Lifecycle!Send(op)]_<<OpStatus, faults > 0>>
<1> DEFINE o == NextOp(c)
<1>1. StatusMap /\ StatusMap' /\ s \in Status /\ TypeOK
  BY StatusIs, StatusIsNext, GitAssumption DEF Status, SerialInv, GitInv
<1>2. /\ Executing(c) /\ PushResult(c, s) /\ sent' = [sent EXCEPT ![o] = @ + 1]
      /\ UNCHANGED <<stagingArea, commits, added, faults>>
  BY DEF PushDispatch, PushResult
<1>3. o \in Op /\ o \in Staged
  BY <1>1, <1>2, NextOpType, ResultTried
<1>4. sent'[o] = sent[o] + 1 /\ \A op \in Op : op # o => sent'[op] = sent[op]
  BY <1>1, <1>2, <1>3 DEF TypeOK
<1>5. Staged' = Staged /\ Recorded' = Recorded
  BY <1>2 DEF Staged, Recorded
<1>6. \A op \in Op : RecordedAs(op, "push")' = RecordedAs(op, "push") /\
                     RecordedAs(op, "reject")' = RecordedAs(op, "reject")
  BY <1>2 DEF RecordedAs
<1> HIDE DEF o
<1>7. \A op \in Op : op # o => OpStatus'[op] = OpStatus[op]
  BY <1>1, <1>2, <1>4, <1>5, <1>6 DEF StatusMap
<1>8. OpStatus'[o] = "sent"
  BY <1>1, <1>3, <1>4, <1>5 DEF StatusMap
<1>9. CASE sent[o] = 0
  <2>1. OpStatus[o] = "staged"
    BY <1>1, <1>3, <1>9 DEF StatusMap
  <2>2. OpStatus' = [OpStatus EXCEPT ![o] = "sent"]
    BY <1>7, <1>8, StatusByCases
  <2> QED
    BY <1>2, <1>3, <2>1, <2>2 DEF Lifecycle!Send
<1>10. CASE sent[o] > 0
  <2>1. OpStatus[o] = "sent"
    BY <1>1, <1>3, <1>10 DEF StatusMap
  <2>2. OpStatus' = OpStatus
    BY <1>7, <1>8, <2>1, StatusByCases
  <2> QED
    BY <1>2, <2>2
<1> QED
  BY <1>1, <1>3, <1>9, <1>10 DEF StatusMap

(* The end of a push or reject closes the whole open batch.                  *)
LEMMA SettleCloses ==
  ASSUME SerialInv, SerialInv', NEW c \in Call, PushSettle(c) \/ RejectSettle(c)
  PROVE  Lifecycle!Execute \/ Lifecycle!Refuse
<1> DEFINE outcome == IF calls[c].kind = "push" THEN "executed" ELSE "refused"
<1>1. StatusMap /\ StatusMap'
  BY StatusIs, StatusIsNext
<1>2. calls[c].kind \in {"push", "reject"} /\ UNCHANGED <<added, sent, faults>>
  BY DEF PushSettle, RejectSettle, Settle, histVars
<1>3. /\ Staged # {} /\ Recorded' = Recorded \cup Staged /\ Staged' = {}
      /\ DOMAIN commits' = DOMAIN commits \cup {Len(commits) + 1}
      /\ \A i \in DOMAIN commits : commits'[i] = commits[i]
      /\ ToSet(commits'[Len(commits) + 1].operations) = Staged
      /\ commits'[Len(commits) + 1].kind = calls[c].kind
  BY EndSerial
<1>4. Staged \subseteq Op
  BY DEF SerialInv, GitInv, TypeOK, Staged, ToSet
<1>5. \A op \in Op : op \in Staged <=> OpStatus[op] \in {"staged", "sent"}
  BY <1>1 DEF StatusMap
<1>6. Lifecycle!Open = Staged
  BY <1>4, <1>5 DEF Lifecycle!Open
<1>7. \A op \in Op, k \in {"push", "reject"} :
        RecordedAs(op, k)' <=> RecordedAs(op, k) \/ (op \in Staged /\ k = calls[c].kind)
  BY <1>3 DEF RecordedAs
<1>8. \A op \in Staged : OpStatus'[op] = outcome
  BY <1>1, <1>2, <1>4, <1>7 DEF StatusMap
<1>9. \A op \in Op : op \notin Staged => OpStatus'[op] = OpStatus[op]
  BY <1>1, <1>2, <1>3, <1>7 DEF StatusMap
<1>10. OpStatus' = [op \in Op |-> IF op \in Staged THEN outcome ELSE OpStatus[op]]
  BY <1>4, <1>8, <1>9, StatusByCases
<1>11. Lifecycle!Close(outcome)
  BY <1>2, <1>3, <1>6, <1>10 DEF Lifecycle!Close
<1>12. CASE calls[c].kind = "push"
  BY <1>11, <1>12 DEF Lifecycle!Execute
<1>13. CASE calls[c].kind = "reject"
  <2>1. ASSUME ~(faults > 0), NEW op \in Staged PROVE OpStatus[op] = "staged"
    <3>1. TypeOK /\ faults = 0 /\ op \notin Recorded /\ op \in Op
      BY <1>4, <2>1 DEF SerialInv, GitInv, TypeOK, Books, RecordedOnce
    <3>2. \A d \in Call : calls[d].kind # "push"
      BY <1>13 DEF SerialInv, OneAtATime, Busy
    <3>3. ~Tried(op)
      BY <3>1, <3>2, TriedIsStaged DEF SerialInv
    <3>4. sent[op] = 0
      BY <3>1, <3>3 DEF SerialInv, Sends, SentBound, TypeOK
    <3> QED
      BY <1>1, <3>1, <3>4 DEF StatusMap
  <2> QED
    BY <1>6, <1>11, <1>13, <2>1 DEF Lifecycle!Refuse
<1> QED
  BY <1>2, <1>12, <1>13

LEMMA FaultInterrupts ==
  ASSUME TypeOK, UNCHANGED <<commits, stagingArea, sent>>, faults' = faults + 1
  PROVE  Lifecycle!Interrupt
<1>1. faults' > 0
  BY DEF TypeOK
<1> QED
  BY <1>1, StatusKept DEF Lifecycle!Interrupt

LEMMA StepLifecycle ==
  ASSUME SerialInv, [SerialNext]_vars
  PROVE  [Lifecycle!Next]_<<OpStatus, faults > 0>>
<1>1. SerialInv' /\ GitInv /\ TypeOK
  BY StepSerial DEF SerialInv, GitInv
<1>2. UNCHANGED <<commits, stagingArea, sent, faults>> => UNCHANGED <<OpStatus, faults > 0>>
  BY StatusKept
<1>3. CASE Quiet /\ \E op \in Op : Add(op)
  BY <1>1, <1>3, AddProposes DEF Lifecycle!Next
<1>4. CASE Commit
  BY <1>2, <1>4 DEF Commit
<1>5. CASE Quiet /\ \E c \in Call : PushBegin(c) \/ RejectBegin(c)
  BY <1>2, <1>5 DEF PushBegin, RejectBegin, Begin, histVars
<1>6. CASE \E c \in Call, s \in PushStatus : PushDispatch(c, s)
  BY <1>1, <1>6, DispatchSends DEF Lifecycle!Next
<1>7. CASE \E c \in Call : PushGuarded(c)
  BY <1>2, <1>7 DEF PushGuarded, PushResult
<1>8. CASE \E c \in Call : PushSettle(c) \/ RejectSettle(c)
  BY <1>1, <1>8, SettleCloses DEF Lifecycle!Next
<1>9. CASE \E c \in Call : StateReadFails(c)
  BY <1>1, <1>9, FaultInterrupts DEF StateReadFails, Lifecycle!Next
<1>10. CASE \E k \in SyntheticKind : RecordSynthetic(k)
  <2>1. PICK k \in SyntheticKind : RecordSynthetic(k)
    BY <1>10
  <2>2. /\ UNCHANGED <<stagingArea, sent, faults, added>>
        /\ AppendCommit(generateCommitHash(<<>>), k, <<>>, <<>>)
    BY <2>1 DEF RecordSynthetic, histVars
  <2>3. <<>> \in Seq(Op) /\ ToSet(<<>>) = {}
    BY DEF ToSet
  <2>4. /\ Recorded' = Recorded
        /\ DOMAIN commits' = DOMAIN commits \cup {Len(commits) + 1}
        /\ \A i \in DOMAIN commits : commits'[i] = commits[i]
        /\ commits'[Len(commits) + 1].operations = <<>>
    BY <1>1, <2>2, <2>3, AppendRecords
  <2>5. \A op \in Op : /\ RecordedAs(op, "push")' <=> RecordedAs(op, "push")
                       /\ RecordedAs(op, "reject")' <=> RecordedAs(op, "reject")
    BY <2>3, <2>4 DEF RecordedAs
  <2>6. Staged' = Staged /\ StatusMap /\ StatusMap'
    BY <1>1, <2>2, StatusIs, StatusIsNext DEF Staged
  <2>7. \A op \in Op : OpStatus'[op] = OpStatus[op]
    BY <2>2, <2>4, <2>5, <2>6 DEF StatusMap
  <2>8. OpStatus' = OpStatus
    BY <2>7, StatusByCases
  <2> QED
    BY <2>2, <2>8
<1>11. CASE CrashRestart
  BY <1>1, <1>11, RestoreIsExact, FaultInterrupts DEF CrashRestart, Lifecycle!Next
<1>12. CASE UNCHANGED vars
  BY <1>2, <1>12 DEF vars, gitVars, histVars
<1> QED
  BY <1>3, <1>4, <1>5, <1>6, <1>7, <1>8, <1>9, <1>10, <1>11, <1>12
     DEF SerialNext, Request, Progress

(* The approval pipeline keeps its promise: a batch ends together and once,  *)
(* and one that was sent is refused only after a fault.                      *)
THEOREM EngineImplementsLifecycle == SerialSpec => ImplementsLifecycle
<1>1. SerialInv /\ [SerialNext]_vars => [Lifecycle!Next]_<<OpStatus, faults > 0>>
  BY StepLifecycle
<1> QED
  BY InitLifecycle, SerialInvariant, <1>1, PTL
     DEF SerialSpec, ImplementsLifecycle, Lifecycle!Spec

=============================================================================
