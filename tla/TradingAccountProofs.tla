------------------------ MODULE TradingAccountProofs ------------------------
(***************************************************************************)
(* What TLAPS proves of TradingAccount: the guard of push() for any number  *)
(* of overlapping pushes, one-shot orders and automatic pushes, and what    *)
(* the engine guarantees on its own, kept by every action of the account.   *)
(***************************************************************************)
EXTENDS TradingAccount, TradingGitProofs

(* Hashes in use were generated before the next one: a new hash is fresh.    *)
HashesAreOld ==
  /\ pendingHash # NULL => pendingHash \in Hash /\ pendingHash.id < nextHash
  /\ \A c \in Call : calls[c].kind = "push" =>
       calls[c].hash \in Hash /\ calls[c].hash.id < nextHash

(* While the prepared commit is being pushed, the guard knows its hash: a    *)
(* later push of another hash takes the guard over only after a commit.      *)
PendingIsGuarded ==
  \A c \in Call :
    calls[c].kind = "push" /\ calls[c].hash = pendingHash => pushInFlightHash = pendingHash

GuardInv == HashesAreOld /\ PendingIsGuarded /\ PushIdempotent /\ GuardHeldByPush

(* The account's own variables keep their types. *)
AccountTyped == /\ pushInFlightHash \in Hash \cup {NULL}
                /\ riskState \in RiskState /\ approved \subseteq Op

AccountInv == GitInv /\ GuardInv /\ AccountTyped

-----------------------------------------------------------------------------
LEMMA NullIsNoHash == NULL \notin Hash
BY GitAssumption DEF Hash

LEMMA FreshHash ==
  ASSUME HashesAreOld, nextHash \in Nat, NEW ops
  PROVE  /\ \A c \in Call : calls[c].kind = "push" => calls[c].hash # generateCommitHash(ops)
         /\ generateCommitHash(ops).id = nextHash
BY DEF HashesAreOld, generateCommitHash, Hash

(* A step that neither starts nor ends a push keeps the guard's invariant;   *)
(* the prepared commit may be replaced by a fresh one or by none.            *)
LEMMA SamePushes ==
  ASSUME GuardInv, nextHash \in Nat,
         \A c \in Call : calls'[c].kind = calls[c].kind /\ calls'[c].hash = calls[c].hash,
         pushInFlightHash' = pushInFlightHash,
         \/ pendingHash' = pendingHash /\ nextHash' \in {nextHash, nextHash + 1}
         \/ pendingHash' = NULL /\ nextHash' = nextHash
         \/ /\ pendingHash' \in Hash /\ pendingHash'.id = nextHash
            /\ nextHash' = nextHash + 1
  PROVE  GuardInv'
<1>1. HashesAreOld'
  BY DEF GuardInv, HashesAreOld, Hash
<1>2. PendingIsGuarded'
  BY NullIsNoHash DEF GuardInv, HashesAreOld, PendingIsGuarded, Hash
<1>3. PushIdempotent' /\ GuardHeldByPush'
  BY DEF GuardInv, PushIdempotent, GuardHeldByPush
<1> QED
  BY <1>1, <1>2, <1>3 DEF GuardInv

(* A push that begins on a hash no push in flight has. *)
LEMMA PushStarts ==
  ASSUME GuardInv, TypeOK, NEW c \in Call, NEW hash \in Hash, NEW ops,
         calls[c].kind = "idle",
         calls' = [calls EXCEPT ![c] = Begun("push", ops, hash)],
         \A d \in Call : calls[d].kind = "push" => calls[d].hash # hash,
         pushInFlightHash' = hash, pendingHash' = hash,
         nextHash' \in {nextHash, nextHash + 1}, hash.id < nextHash'
  PROVE  GuardInv'
<1>1. calls \in [Call -> CallState] /\ nextHash \in Nat
  BY DEF TypeOK
<1>2. /\ calls'[c].kind = "push" /\ calls'[c].hash = hash
      /\ \A d \in Call : d # c => calls'[d] = calls[d]
  BY <1>1 DEF Begun
<1>3. HashesAreOld'
  BY <1>1, <1>2 DEF GuardInv, HashesAreOld, Hash
<1>4. PendingIsGuarded'
  BY DEF PendingIsGuarded
<1>5. PushIdempotent'
  BY <1>2 DEF GuardInv, PushIdempotent
<1>6. GuardHeldByPush'
  BY <1>2 DEF GuardHeldByPush
<1> QED
  BY <1>3, <1>4, <1>5, <1>6 DEF GuardInv

(* A call that ends releases the guard if it is the push that holds it.      *)
LEMMA CallEnds ==
  ASSUME GuardInv, TypeOK, NEW c \in Call,
         calls' = [calls EXCEPT ![c] = Idle],
         nextHash' = nextHash, pendingHash' \in {pendingHash, NULL},
         pushInFlightHash' = IF calls[c].kind = "push" /\ pushInFlightHash = calls[c].hash
                             THEN NULL ELSE pushInFlightHash
  PROVE  GuardInv'
<1>1. calls \in [Call -> CallState]
  BY DEF TypeOK
<1>2. /\ calls'[c].kind = "idle"
      /\ \A d \in Call : d # c => calls'[d] = calls[d]
  BY <1>1 DEF Idle, Begun
<1>3. HashesAreOld'
  BY <1>2 DEF GuardInv, HashesAreOld
<1>4. PushIdempotent'
  BY <1>2 DEF GuardInv, PushIdempotent
<1>5. PendingIsGuarded'
  <2> SUFFICES ASSUME NEW d \in Call, calls'[d].kind = "push", calls'[d].hash = pendingHash'
               PROVE  pushInFlightHash' = pendingHash'
    BY DEF PendingIsGuarded
  <2>1. d # c /\ calls[d].kind = "push" /\ calls[d].hash = pendingHash'
    BY <1>2
  <2>2. pendingHash' = pendingHash
    BY <2>1, NullIsNoHash DEF GuardInv, HashesAreOld
  <2>3. pushInFlightHash = pendingHash
    BY <2>1, <2>2 DEF GuardInv, PendingIsGuarded
  <2>4. calls[c].kind = "push" => calls[c].hash # pendingHash
    BY <2>1, <2>2 DEF GuardInv, PushIdempotent
  <2> QED
    BY <2>2, <2>3, <2>4
<1>6. GuardHeldByPush'
  <2> SUFFICES ASSUME pushInFlightHash' # NULL
               PROVE  \E d \in Call : calls'[d].kind = "push" /\ calls'[d].hash = pushInFlightHash'
    BY DEF GuardHeldByPush
  <2>1. /\ pushInFlightHash' = pushInFlightHash
        /\ ~(calls[c].kind = "push" /\ pushInFlightHash = calls[c].hash)
    OBVIOUS
  <2>2. PICK d \in Call : calls[d].kind = "push" /\ calls[d].hash = pushInFlightHash
    BY <2>1 DEF GuardInv, GuardHeldByPush
  <2> QED
    BY <1>2, <2>1, <2>2
<1> QED
  BY <1>3, <1>4, <1>5, <1>6 DEF GuardInv

-----------------------------------------------------------------------------
LEMMA AccountInitInv == AccountInit => AccountInv
<1> SUFFICES ASSUME AccountInit PROVE AccountInv
  OBVIOUS
<1>1. Init /\ calls = [c \in Call |-> Idle] /\ pushInFlightHash = NULL /\ pendingHash = NULL
  BY DEF AccountInit, Init
<1>2. GitInv
  BY <1>1, InitInv
<1>3. \A c \in Call : calls[c].kind = "idle"
  BY <1>1 DEF Idle, Begun
<1>4. GuardInv
  BY <1>1, <1>3 DEF GuardInv, HashesAreOld, PendingIsGuarded, PushIdempotent, GuardHeldByPush
<1>5. AccountTyped
  BY DEF AccountInit, AccountTyped, RiskState
<1> QED
  BY <1>2, <1>4, <1>5 DEF AccountInv

LEMMA EvaluateRiskTyped ==
  ASSUME AccountTyped, EvaluateRisk PROVE riskState' \in RiskState
BY DEF AccountTyped, EvaluateRisk, RiskState

LEMMA StageStep ==
  ASSUME AccountInv, NEW op \in Op, Stage(op) PROVE AccountInv' /\ commits' = commits
<1>1. Add(op) /\ UNCHANGED accountVars
  BY DEF Stage
<1>2. GitInv'
  BY <1>1, AddInv DEF AccountInv
<1>3. GuardInv'
  BY <1>1, SamePushes DEF AccountInv, GitInv, TypeOK, Add, accountVars
<1> QED
  BY <1>1, <1>2, <1>3 DEF AccountInv, AccountTyped, accountVars, Add

LEMMA CommitStep ==
  ASSUME AccountInv, CommitProposal PROVE AccountInv' /\ commits' = commits
<1>1. Commit /\ UNCHANGED accountVars
  BY DEF CommitProposal
<1>2. GitInv'
  BY <1>1, CommitInv DEF AccountInv
<1>3. /\ pendingHash' \in Hash /\ pendingHash'.id = nextHash
      /\ nextHash' = nextHash + 1 /\ calls' = calls /\ nextHash \in Nat
  BY <1>1, HashType DEF AccountInv, GitInv, TypeOK, Commit, generateCommitHash
<1>4. GuardInv'
  BY <1>1, <1>3, SamePushes DEF AccountInv, accountVars
<1> QED
  BY <1>1, <1>2, <1>4 DEF AccountInv, AccountTyped, accountVars, Commit

LEMMA PushStep ==
  ASSUME AccountInv, NEW c \in Call, Push(c) PROVE AccountInv' /\ commits' = commits
<1>1. /\ Begin(c, "push") /\ pushInFlightHash # pendingHash
      /\ pushInFlightHash' = pendingHash /\ approved' = approved \cup Staged
      /\ riskState' = riskState
  BY DEF Push, PushBegin, NotInFlight
<1>2. GitInv'
  BY <1>1, BeginInv DEF AccountInv
<1>3. /\ pendingHash \in Hash /\ pendingHash.id < nextHash
      /\ calls[c].kind = "idle"
      /\ calls' = [calls EXCEPT ![c] = Begun("push", stagingArea, pendingHash)]
      /\ pendingHash' = pendingHash /\ nextHash' = nextHash
  BY <1>1 DEF AccountInv, GuardInv, HashesAreOld, Begin
<1>4. \A d \in Call : calls[d].kind = "push" => calls[d].hash # pendingHash
  BY <1>1 DEF AccountInv, GuardInv, PendingIsGuarded
<1>5. GuardInv'
  BY <1>1, <1>3, <1>4, PushStarts DEF AccountInv, GitInv
<1>6. Staged \subseteq Op
  BY DEF AccountInv, GitInv, TypeOK, Staged, ToSet
<1> QED
  BY <1>1, <1>2, <1>3, <1>5, <1>6 DEF AccountInv, AccountTyped, Begin

LEMMA RejectStep ==
  ASSUME AccountInv, NEW c \in Call, Reject(c) PROVE AccountInv' /\ commits' = commits
<1>1. Begin(c, "reject") /\ UNCHANGED accountVars
  BY DEF Reject, RejectBegin
<1>2. GitInv'
  BY <1>1, BeginInv DEF AccountInv
<1>3. /\ calls \in [Call -> CallState] /\ calls[c].kind = "idle"
      /\ calls' = [calls EXCEPT ![c] = Begun("reject", stagingArea, pendingHash)]
      /\ pendingHash' = pendingHash /\ nextHash' = nextHash /\ nextHash \in Nat
      /\ pushInFlightHash' = pushInFlightHash
  BY <1>1 DEF AccountInv, GitInv, TypeOK, Begin, accountVars
<1>4. \A d \in Call : \/ calls'[d] = calls[d]
                      \/ calls'[d].kind = "reject" /\ calls[d].kind = "idle"
  BY <1>3 DEF Begun
<1>5. GuardInv'
  BY <1>3, <1>4 DEF AccountInv, GuardInv, HashesAreOld, PendingIsGuarded,
                    PushIdempotent, GuardHeldByPush
<1> QED
  BY <1>1, <1>2, <1>5 DEF AccountInv, AccountTyped, accountVars, Begin

(* The code's stage-commit-push in one segment. *)
LEMMA CommitAndPushStep ==
  ASSUME AccountInv, NEW c \in Call, NEW batch \in Seq(Op), batch # <<>>,
         NEW dispatch \in BOOLEAN, CommitAndPush(c, batch, dispatch),
         added' \subseteq Op, approved' \subseteq Op
  PROVE  AccountInv' /\ commits' = commits
<1> DEFINE hash == generateCommitHash(batch)
<1>1. hash \in Hash /\ hash.id = nextHash /\ nextHash \in Nat
  BY HashType DEF AccountInv, GitInv, TypeOK, generateCommitHash
<1>2. \A d \in Call : calls[d].kind = "push" => calls[d].hash # hash
  BY <1>1, FreshHash DEF AccountInv, GuardInv
<1>3. /\ calls[c].kind = "idle" /\ nextHash' = nextHash + 1
      /\ stagingArea' = batch /\ pendingHash' = hash
      /\ calls' = IF dispatch THEN [calls EXCEPT ![c] = Begun("push", batch, hash)] ELSE calls
      /\ pushInFlightHash' = IF dispatch THEN hash ELSE pushInFlightHash
      /\ UNCHANGED <<commits, head, sent, faults, riskState>>
      /\ persistState
  BY DEF CommitAndPush
<1> HIDE DEF hash
<1>4. Begun("push", batch, hash) \in CallState
  BY <1>1 DEF Begun, CallState
<1>5. calls' \in [Call -> CallState] /\ CallHasHash'
  <2>1. CASE dispatch
    BY <1>1, <1>3, <1>4, <2>1 DEF AccountInv, GitInv, TypeOK, CallHasHash, Begun
  <2>2. CASE ~dispatch
    BY <1>3, <2>2 DEF AccountInv, GitInv, TypeOK, CallHasHash
  <2> QED
    BY <2>1, <2>2
<1>6. disk' \in GitExportState /\ DiskMirrorsMemory'
  BY <1>1, <1>3, PersistTyped, PersistMirrors DEF AccountInv, GitInv, TypeOK
<1>7. TypeOK'
  BY <1>1, <1>3, <1>5, <1>6 DEF AccountInv, GitInv, TypeOK
<1>8. ChainIntegrity' /\ PendingHasOperations'
  BY <1>3, LogUntouched DEF AccountInv, GitInv, PendingHasOperations
<1>9. GitInv'
  BY <1>5, <1>6, <1>7, <1>8 DEF GitInv
<1>10. GuardInv'
  <2>1. CASE dispatch
    <3>1. GuardInv /\ TypeOK
      BY DEF AccountInv, GitInv
    <3>2. calls' = [calls EXCEPT ![c] = Begun("push", batch, hash)] /\ pushInFlightHash' = hash
      BY <1>3, <2>1
    <3>3. hash.id < nextHash' /\ nextHash' \in {nextHash, nextHash + 1}
      BY <1>1, <1>3
    <3> QED
      BY <1>1, <1>2, <1>3, <3>1, <3>2, <3>3, PushStarts
  <2>2. CASE ~dispatch
    BY <1>1, <1>3, <2>2, SamePushes DEF AccountInv
  <2> QED
    BY <2>1, <2>2
<1> QED
  BY <1>1, <1>3, <1>9, <1>10 DEF AccountInv, AccountTyped

LEMMA OneShotStep ==
  ASSUME AccountInv, NEW c \in Call, NEW op \in Op, NEW online \in BOOLEAN,
         OneShot(c, op, online)
  PROVE  AccountInv' /\ commits' = commits
<1>1. stagingArea \in Seq(Op)
  BY DEF AccountInv, GitInv, TypeOK
<1>2. Append(stagingArea, op) \in Seq(Op)
  BY <1>1
<1>3. Append(stagingArea, op) # <<>>
  BY <1>1
<1>4. added' \subseteq Op /\ approved' \subseteq Op
  BY DEF OneShot, AccountInv, AccountTyped, GitInv, TypeOK
<1> QED
  BY <1>2, <1>3, <1>4, CommitAndPushStep DEF OneShot

LEMMA AutoPushStep ==
  ASSUME AccountInv, NEW c \in Call, AutoPush(c)
  PROVE  AccountInv' /\ commits' = commits
<1>1. stagingArea \in Seq(Op) /\ stagingArea # <<>>
  BY DEF AccountInv, GitInv, TypeOK, AutoPush
<1>2. Staged \subseteq Op
  BY <1>1 DEF Staged, ToSet
<1>3. added' \subseteq Op /\ approved' \subseteq Op
  BY <1>2 DEF AutoPush, AccountInv, AccountTyped, GitInv, TypeOK
<1> QED
  BY <1>1, <1>3, CommitAndPushStep DEF AutoPush

(* One result more in a push does not change its hash. *)
LEMMA PushResultGuard ==
  ASSUME AccountInv, NEW c \in Call, NEW s \in Status, PushResult(c, s),
         pushInFlightHash' = pushInFlightHash
  PROVE  GuardInv'
<1>1. calls \in [Call -> CallState] /\ nextHash \in Nat
  BY DEF AccountInv, GitInv, TypeOK
<1>2. \A d \in Call : calls'[d].kind = calls[d].kind /\ calls'[d].hash = calls[d].hash
  BY <1>1 DEF PushResult, CallState
<1>3. pendingHash' = pendingHash /\ nextHash' = nextHash
  BY DEF PushResult
<1> QED
  BY <1>1, <1>2, <1>3, SamePushes DEF AccountInv

LEMMA DispatchStep ==
  ASSUME AccountInv, NEW c \in Call, NEW s \in PushStatus, Dispatch(c, s)
  PROVE  AccountInv' /\ commits' = commits
<1>1. PushDispatch(c, s) /\ UNCHANGED <<pushInFlightHash, approved>> /\ EvaluateRisk
  BY DEF Dispatch
<1>2. GitInv'
  BY <1>1, PushDispatchInv DEF AccountInv
<1>3. s \in Status /\ PushResult(c, s)
  BY <1>1, GitAssumption DEF Status, PushDispatch
<1>4. GuardInv'
  BY <1>1, <1>3, PushResultGuard
<1> QED
  BY <1>1, <1>2, <1>3, <1>4, EvaluateRiskTyped DEF AccountInv, AccountTyped, PushResult

LEMMA GuardRejectsStep ==
  ASSUME AccountInv, NEW c \in Call, GuardRejects(c)
  PROVE  AccountInv' /\ commits' = commits
<1>1. PushGuarded(c) /\ UNCHANGED <<pushInFlightHash, approved>> /\ EvaluateRisk
  BY DEF GuardRejects
<1>2. GitInv'
  BY <1>1, PushGuardedInv DEF AccountInv
<1>3. "rejected" \in Status /\ PushResult(c, "rejected")
  BY <1>1 DEF Status, PushGuarded
<1>4. GuardInv'
  BY <1>1, <1>3, PushResultGuard
<1> QED
  BY <1>1, <1>2, <1>3, <1>4, EvaluateRiskTyped DEF AccountInv, AccountTyped, PushResult

LEMMA ReleaseTyped ==
  ASSUME AccountTyped, NEW c \in Call, ReleasePush(c)
  PROVE  pushInFlightHash' \in Hash \cup {NULL} /\ approved' \subseteq Op
BY DEF AccountTyped, ReleasePush

LEMMA FinishPushStep ==
  ASSUME AccountInv, NEW c \in Call, FinishPush(c)
  PROVE  AccountInv' /\ IsPrefix(commits, commits')
<1>1. PushSettle(c) /\ ReleasePush(c) /\ EvaluateRisk
  BY DEF FinishPush
<1>2. GitInv' /\ IsPrefix(commits, commits')
  BY <1>1, PushSettleInv DEF AccountInv
<1>3. /\ calls' = [calls EXCEPT ![c] = Idle]
      /\ nextHash' = nextHash /\ pendingHash' = NULL
  BY <1>1 DEF PushSettle, Settle, ClearStaging
<1>4. GuardInv'
  BY <1>1, <1>3, CallEnds DEF AccountInv, GitInv, ReleasePush
<1> QED
  BY <1>1, <1>2, <1>4, EvaluateRiskTyped, ReleaseTyped DEF AccountInv, AccountTyped

LEMMA FinishRejectStep ==
  ASSUME AccountInv, NEW c \in Call, FinishReject(c)
  PROVE  AccountInv' /\ IsPrefix(commits, commits')
<1>1. RejectSettle(c) /\ UNCHANGED <<pushInFlightHash, approved>> /\ EvaluateRisk
  BY DEF FinishReject
<1>2. GitInv' /\ IsPrefix(commits, commits')
  BY <1>1, RejectSettleInv DEF AccountInv
<1>3. /\ calls[c].kind = "reject" /\ calls' = [calls EXCEPT ![c] = Idle]
      /\ nextHash' = nextHash /\ pendingHash' = NULL
  BY <1>1 DEF RejectSettle, Settle, ClearStaging
<1>4. GuardInv'
  BY <1>1, <1>3, CallEnds DEF AccountInv, GitInv
<1> QED
  BY <1>1, <1>2, <1>4, EvaluateRiskTyped DEF AccountInv, AccountTyped

LEMMA FailCallStep ==
  ASSUME AccountInv, NEW c \in Call, FailCall(c)
  PROVE  AccountInv' /\ commits' = commits
<1>1. StateReadFails(c) /\ ReleasePush(c) /\ riskState' = riskState
  BY DEF FailCall
<1>2. GitInv'
  BY <1>1, StateReadFailsInv DEF AccountInv
<1>3. /\ calls' = [calls EXCEPT ![c] = Idle] /\ commits' = commits
      /\ nextHash' = nextHash /\ pendingHash' = pendingHash
  BY <1>1 DEF StateReadFails
<1>4. GuardInv'
  BY <1>1, <1>3, CallEnds DEF AccountInv, GitInv, ReleasePush
<1> QED
  BY <1>1, <1>2, <1>3, <1>4, ReleaseTyped DEF AccountInv, AccountTyped

LEMMA RecordStep ==
  ASSUME AccountInv, NEW k \in SyntheticKind, Record(k)
  PROVE  AccountInv' /\ IsPrefix(commits, commits')
<1>1. RecordSynthetic(k) /\ UNCHANGED <<pushInFlightHash, approved>> /\ EvaluateRisk
  BY DEF Record
<1>2. GitInv' /\ IsPrefix(commits, commits')
  BY <1>1, RecordSyntheticInv DEF AccountInv
<1>3. /\ calls' = calls /\ pendingHash' = pendingHash
      /\ nextHash' = nextHash + 1 /\ nextHash \in Nat
  BY <1>1 DEF RecordSynthetic, AccountInv, GitInv, TypeOK
<1>4. GuardInv'
  BY <1>1, <1>3, SamePushes DEF AccountInv
<1> QED
  BY <1>1, <1>2, <1>4, EvaluateRiskTyped DEF AccountInv, AccountTyped

LEMMA RestartStep ==
  ASSUME AccountInv, Restart
  PROVE  AccountInv' /\ commits' = commits
<1>1. CrashRestart /\ pushInFlightHash' = NULL /\ UNCHANGED <<riskState, approved>>
  BY DEF Restart
<1>2. GitInv' /\ commits' = commits /\ pendingHash' = pendingHash
  BY <1>1, CrashRestartInv, RestoreIsExact DEF AccountInv
<1>3. nextHash' = nextHash /\ \A c \in Call : calls'[c].kind = "idle"
  BY <1>1 DEF CrashRestart, Idle, Begun
<1>4. GuardInv'
  BY <1>1, <1>2, <1>3 DEF AccountInv, GuardInv, HashesAreOld, PendingIsGuarded,
                          PushIdempotent, GuardHeldByPush
<1> QED
  BY <1>1, <1>2, <1>4 DEF AccountInv, AccountTyped

LEMMA UntouchedStep ==
  ASSUME AccountInv, UNCHANGED <<vars, pushInFlightHash, approved>>, riskState' \in RiskState
  PROVE  AccountInv' /\ commits' = commits
<1>1. /\ UNCHANGED vars /\ calls' = calls /\ pendingHash' = pendingHash
      /\ nextHash' = nextHash /\ nextHash \in Nat
  BY DEF vars, gitVars, AccountInv, GitInv, TypeOK
<1>2. GitInv' /\ commits' = commits
  BY <1>1, StepInv DEF AccountInv, vars, gitVars
<1>3. GuardInv'
  BY <1>1, SamePushes DEF AccountInv
<1> QED
  BY <1>2, <1>3 DEF AccountInv, AccountTyped

-----------------------------------------------------------------------------
(* Every step of the account keeps the invariant and only extends the log.   *)
LEMMA AccountStep ==
  ASSUME AccountInv, [AccountNext]_allVars
  PROVE  AccountInv' /\ IsPrefix(commits, commits')
<1>1. commits' = commits => IsPrefix(commits, commits')
  BY PrefixOfItself DEF AccountInv, GitInv
<1>2. CASE \E op \in Op : Stage(op)
  BY <1>1, <1>2, StageStep
<1>3. CASE CommitProposal
  BY <1>1, <1>3, CommitStep
<1>4. CASE \E c \in Call : Push(c)
  BY <1>1, <1>4, PushStep
<1>5. CASE \E c \in Call : Reject(c)
  BY <1>1, <1>5, RejectStep
<1>6. CASE \E c \in Call, op \in Op, online \in BOOLEAN : OneShot(c, op, online)
  BY <1>1, <1>6, OneShotStep
<1>7. CASE \E c \in Call : AutoPush(c)
  BY <1>1, <1>7, AutoPushStep
<1>8. CASE \E c \in Call, s \in PushStatus : Dispatch(c, s)
  BY <1>1, <1>8, DispatchStep
<1>9. CASE \E c \in Call : GuardRejects(c)
  BY <1>1, <1>9, GuardRejectsStep
<1>10. CASE \E c \in Call : FinishPush(c)
  BY <1>10, FinishPushStep
<1>11. CASE \E c \in Call : FinishReject(c)
  BY <1>11, FinishRejectStep
<1>12. CASE \E c \in Call : FailCall(c)
  BY <1>1, <1>12, FailCallStep
<1>13. CASE \E r \in RiskState : HumanSet(r)
  BY <1>1, <1>13, UntouchedStep DEF HumanSet
<1>14. CASE \E k \in SyntheticKind : Record(k)
  BY <1>14, RecordStep
<1>15. CASE Restart
  BY <1>1, <1>15, RestartStep
<1>16. CASE UNCHANGED allVars
  BY <1>1, <1>16, UntouchedStep DEF allVars, accountVars, AccountInv, AccountTyped
<1> QED
  BY <1>2, <1>3, <1>4, <1>5, <1>6, <1>7, <1>8, <1>9, <1>10, <1>11, <1>12, <1>13,
     <1>14, <1>15, <1>16 DEF AccountNext

(* The engine's invariant survives the account's short cuts, and the guard   *)
(* of push() is exact, in every reachable state of the account.              *)
THEOREM AccountInvariant == AccountSpec => []AccountInv
<1>1. AccountInv /\ [AccountNext]_allVars => AccountInv'
  BY AccountStep
<1> QED
  BY AccountInitInv, <1>1, PTL DEF AccountSpec

(* The account's variables keep their types. *)
THEOREM AccountTypeCorrect == AccountSpec => []AccountTypeOK
<1>1. AccountInv => AccountTypeOK
  BY DEF AccountInv, GitInv, AccountTyped, AccountTypeOK
<1> QED
  BY AccountInvariant, <1>1, PTL

(* Two pushes in flight never execute the same commit hash, however many     *)
(* callers press approve (UnifiedTradingAccount.ts:908).                     *)
THEOREM PushesAreIdempotent == AccountSpec => []PushIdempotent
<1>1. AccountInv => PushIdempotent
  BY DEF AccountInv, GuardInv
<1> QED
  BY AccountInvariant, <1>1, PTL

(* The guard never outlives the push that holds it (the finally clause of    *)
(* push()), so no commit is refused as in progress when nothing pushes it.   *)
THEOREM GuardNeverLeaks == AccountSpec => []GuardHeldByPush
<1>1. AccountInv => GuardHeldByPush
  BY DEF AccountInv, GuardInv
<1> QED
  BY AccountInvariant, <1>1, PTL

(* With one-shot orders and automatic pushes too, the log stays a hash chain *)
(* and a prepared commit stays approvable.                                   *)
THEOREM AccountLogIsChain == AccountSpec => [](ChainIntegrity /\ PendingHasOperations)
<1>1. AccountInv => ChainIntegrity /\ PendingHasOperations
  BY DEF AccountInv, GitInv
<1> QED
  BY AccountInvariant, <1>1, PTL

(* No step of the account rewrites or drops a commit. *)
THEOREM AccountLogOnlyGrows == AccountSpec => LogOnlyGrows
<1>1. AccountInv /\ [AccountNext]_allVars => [IsPrefix(commits, commits')]_commits
  BY AccountStep
<1> QED
  BY AccountInvariant, <1>1, PTL DEF AccountSpec, LogOnlyGrows

-----------------------------------------------------------------------------
NothingStarts ==
  /\ added' = added
  /\ \A c \in Call : calls'[c].kind = "push" => calls[c].kind = "push"

(* In a read-only state the actions that propose or begin a push are off,    *)
(* and every other action leaves calls as they are or ends or continues one. *)
LEMMA ReadOnlyStep ==
  ASSUME AccountInv, [AccountNext]_allVars, ReadOnly, ReadOnly'
  PROVE  NothingStarts
<1>1. calls \in [Call -> CallState]
  BY DEF AccountInv, GitInv, TypeOK
<1>2. calls' = calls /\ added' = added => NothingStarts
  BY DEF NothingStarts
<1>3. ASSUME NEW d \in Call, added' = added,
             calls' = [calls EXCEPT ![d] = Idle] \/
               \E h, ops : calls' = [calls EXCEPT ![d] = Begun("reject", ops, h)]
      PROVE  NothingStarts
  BY <1>1, <1>3 DEF NothingStarts, Idle, Begun
<1>4. ASSUME NEW d \in Call, NEW s, PushResult(d, s)
      PROVE  NothingStarts
  BY <1>1, <1>4 DEF NothingStarts, PushResult, CallState
<1>5. CASE \E op \in Op : Stage(op)
  BY <1>5 DEF Stage, MayStage, ReadOnly
<1>6. CASE CommitProposal
  BY <1>6 DEF CommitProposal, MayCommit
<1>7. CASE \E c \in Call : Push(c)
  BY <1>7 DEF Push, MayPush
<1>8. CASE \E c \in Call : Reject(c)
  BY <1>8, <1>3 DEF Reject, RejectBegin, Begin, histVars
<1>9. CASE \E c \in Call, op \in Op, online \in BOOLEAN : OneShot(c, op, online)
  BY <1>9 DEF OneShot, MayStage, ReadOnly
<1>10. CASE \E c \in Call : AutoPush(c)
  BY <1>10 DEF AutoPush, ReadOnly
<1>11. CASE \E c \in Call, s \in PushStatus : Dispatch(c, s)
  BY <1>11, <1>4 DEF Dispatch, PushDispatch
<1>12. CASE \E c \in Call : GuardRejects(c)
  BY <1>12, <1>4 DEF GuardRejects, PushGuarded
<1>13. CASE \E c \in Call : FinishPush(c)
  BY <1>13, <1>3 DEF FinishPush, PushSettle, Settle, histVars
<1>14. CASE \E c \in Call : FinishReject(c)
  BY <1>14, <1>3 DEF FinishReject, RejectSettle, Settle, histVars
<1>15. CASE \E c \in Call : FailCall(c)
  BY <1>15, <1>3 DEF FailCall, StateReadFails
<1>16. CASE \E r \in RiskState : HumanSet(r)
  BY <1>16, <1>2 DEF HumanSet, vars, gitVars, histVars
<1>17. CASE \E k \in SyntheticKind : Record(k)
  BY <1>17, <1>2 DEF Record, RecordSynthetic, histVars
<1>18. CASE Restart
  BY <1>18 DEF Restart, CrashRestart, NothingStarts, Idle, Begun
<1>19. CASE UNCHANGED allVars
  BY <1>19, <1>2 DEF allVars, vars, gitVars, histVars
<1> QED
  BY <1>5, <1>6, <1>7, <1>8, <1>9, <1>10, <1>11, <1>12, <1>13, <1>14, <1>15, <1>16,
     <1>17, <1>18, <1>19 DEF AccountNext

(* READ_ONLY and HALT drain: while either holds, no operation is staged and  *)
(* no push begins, so only pushes already executing can reach the broker.    *)
THEOREM ReadOnlyStatesDrain == AccountSpec => ReadOnlyDrains
<1>1. AccountInv /\ [AccountNext]_allVars =>
        [ReadOnly /\ ReadOnly' => NothingStarts]_allVars
  BY ReadOnlyStep
<1> QED
  BY AccountInvariant, <1>1, PTL DEF AccountSpec, ReadOnlyDrains, NothingStarts

=============================================================================
