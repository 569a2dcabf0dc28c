--------------------------- MODULE TradingAccount ---------------------------
(***************************************************************************)
(* The wallet side of UnifiedTradingAccount (UnifiedTradingAccount.ts,      *)
(* order-entry.ts, paper-auto-push.ts, guards/guard-pipeline.ts): who may   *)
(* stage, commit and push in which risk state, the guard against two pushes *)
(* of one hash, and the three ways a push starts: the approval screen, the  *)
(* one-shot order form, and the automatic push of paper accounts.           *)
(* Everything that reaches TradingGit is an action of module TradingGit.    *)
(***************************************************************************)
EXTENDS TradingGit

CONSTANTS
  Reducing,   \* operations isClearlyRiskReducing accepts
  PaperAuto   \* the account is mock or paper and its workspace may auto-push

ASSUME AccountAssumption == Reducing \subseteq Op /\ PaperAuto \in BOOLEAN

VARIABLES
  pushInFlightHash,  \* _pushInFlightHash
  riskState,         \* riskStateStore.current()
  approved           \* history: operations somebody with authority let through

accountVars == <<pushInFlightHash, riskState, approved>>
allVars == <<vars, accountVars>>

RiskState == {"NORMAL", "CAUTIOUS", "READ_ONLY", "HALT"}
RiskRank == [NORMAL |-> 0, CAUTIOUS |-> 1, READ_ONLY |-> 2, HALT |-> 3]
ReadOnly == riskState \in {"READ_ONLY", "HALT"}

AccountTypeOK ==
  /\ TypeOK
  /\ pushInFlightHash \in Hash \cup {NULL}
  /\ riskState \in RiskState
  /\ approved \subseteq Op

AccountInit ==
  /\ Init
  /\ pushInFlightHash = NULL /\ riskState = "NORMAL" /\ approved = {}

-----------------------------------------------------------------------------
(* _assertRiskStateAllowsWrite: CAUTIOUS restricts staging only. *)
MayStage(op) == riskState = "NORMAL" \/ (riskState = "CAUTIOUS" /\ op \in Reducing)
MayCommit == ~ReadOnly
AlwaysMayPush == TRUE  \* mutant: push() without the risk gate
MayPush   == ~ReadOnly

(* push() refuses a hash that a push already executes. *)
NeverInFlight == TRUE  \* mutant: no idempotency guard
NotInFlight == pushInFlightHash # pendingHash

(* The risk evaluator runs on every account read and tightens, never loosens.*)
(* A breach asks for CAUTIOUS or, when severe, READ_ONLY.                    *)
EvaluateRisk ==
  riskState' \in {riskState} \cup
                 {r \in {"CAUTIOUS", "READ_ONLY"} : RiskRank[r] > RiskRank[riskState]}

Stage(op) ==
  /\ MayStage(op)
  /\ Add(op)
  /\ UNCHANGED accountVars

CommitProposal ==
  /\ MayCommit
  /\ Commit
  /\ UNCHANGED accountVars

(* push(): a person approves what is staged.  An account that is read-only, *)
(* disabled or offline refuses, and nothing changes.                        *)
Push(c) ==
  /\ MayPush
  /\ NotInFlight
  /\ PushBegin(c)
  /\ pushInFlightHash' = pendingHash
  /\ approved' = approved \cup Staged
  /\ UNCHANGED riskState

Reject(c) == RejectBegin(c) /\ UNCHANGED accountVars

(* git.commit and UTA.push in one segment: the hash is fresh, so the guard   *)
(* lets it through; `dispatch` is false when the account refuses the push.   *)
CommitAndPush(c, batch, dispatch) ==
  LET hash == generateCommitHash(batch) IN
  /\ calls[c].kind = "idle"
  /\ nextHash <= MaxHashes
  /\ nextHash' = nextHash + 1
  /\ stagingArea' = batch /\ pendingHash' = hash
  /\ calls' = IF dispatch THEN [calls EXCEPT ![c] = Begun("push", batch, hash)] ELSE calls
  /\ pushInFlightHash' = IF dispatch THEN hash ELSE pushInFlightHash
  /\ UNCHANGED <<commits, head, sent, faults, riskState>>
  /\ persistState

(* executeOneShotOrder: stage, commit, push with no await in between.  When  *)
(* the push is refused (offline, disabled) the order stays staged.           *)
OneShot(c, op, online) ==
  /\ MayStage(op)
  /\ op \notin added
  /\ added' = added \cup {op}
  /\ approved' = approved \cup {op}
  /\ CommitAndPush(c, Append(stagingArea, op), online)

(* POST wallet/commit on a paper account: commit, then tryAutoPushPaper,     *)
(* which asks for NORMAL where push() itself also takes CAUTIOUS.            *)
AutoPush(c) ==
  /\ PaperAuto
  /\ riskState = "NORMAL"
  /\ stagingArea # <<>>
  /\ approved' = approved \cup Staged
  /\ UNCHANGED added
  /\ CommitAndPush(c, stagingArea, TRUE)

(* executeOperation through the guard pipeline: the account is read and the  *)
(* risk evaluated first, then a guard refuses or the broker is called.  The  *)
(* risk state found is not asked again.                                      *)
Dispatch(c, status) ==
  /\ EvaluateRisk
  /\ PushDispatch(c, status)
  /\ UNCHANGED <<pushInFlightHash, approved>>

GuardRejects(c) ==
  /\ EvaluateRisk
  /\ PushGuarded(c)
  /\ UNCHANGED <<pushInFlightHash, approved>>

(* Mutant of ReleasePush: released after a commit only, not in `finally`. *)
ReleaseOnSuccess(c) ==
  /\ pushInFlightHash' = IF pushInFlightHash = calls[c].hash /\ head' = calls[c].hash
                         THEN NULL ELSE pushInFlightHash
  /\ UNCHANGED approved

(* The finally clause of push(). *)
ReleasePush(c) ==
  /\ pushInFlightHash' = IF calls[c].kind = "push" /\ pushInFlightHash = calls[c].hash
                         THEN NULL ELSE pushInFlightHash
  /\ UNCHANGED approved

FinishPush(c)   == EvaluateRisk /\ PushSettle(c) /\ ReleasePush(c)
FinishReject(c) == EvaluateRisk /\ RejectSettle(c) /\ UNCHANGED <<pushInFlightHash, approved>>
FailCall(c)     == StateReadFails(c) /\ ReleasePush(c) /\ UNCHANGED riskState

(* setRiskState: a person moves to any state, up or down. *)
HumanSet(state) ==
  /\ riskState' = state
  /\ UNCHANGED <<vars, pushInFlightHash, approved>>

(* Syncs, reconciliations and emergency records read the account first. *)
Record(kind) ==
  /\ EvaluateRisk
  /\ RecordSynthetic(kind)
  /\ UNCHANGED <<pushInFlightHash, approved>>

(* The risk state is restored from its own file, the guard starts empty.    *)
Restart ==
  /\ CrashRestart
  /\ pushInFlightHash' = NULL
  /\ UNCHANGED <<riskState, approved>>

AccountNext ==
  \/ \E op \in Op : Stage(op)
  \/ CommitProposal
  \/ \E c \in Call : Push(c)
  \/ \E c \in Call : Reject(c)
  \/ \E c \in Call, op \in Op, online \in BOOLEAN : OneShot(c, op, online)
  \/ \E c \in Call : AutoPush(c)
  \/ \E c \in Call, s \in PushStatus : Dispatch(c, s)
  \/ \E c \in Call : GuardRejects(c)
  \/ \E c \in Call : FinishPush(c)
  \/ \E c \in Call : FinishReject(c)
  \/ \E c \in Call : FailCall(c)
  \/ \E r \in RiskState : HumanSet(r)
  \/ \E k \in SyntheticKind : Record(k)
  \/ Restart

AccountSpec == AccountInit /\ [][AccountNext]_allVars

-----------------------------------------------------------------------------
(* PROPERTIES *)

(* Two callers racing the same committed hash never both execute it          *)
(* (UnifiedTradingAccount.ts:908, "Idempotency guard").                      *)
PushIdempotent ==
  \A c, d \in Call :
    c # d /\ calls[c].kind = "push" /\ calls[d].kind = "push"
      => calls[c].hash # calls[d].hash

(* The guard is held only while a push of that hash is under way: however    *)
(* pushes overlap and fail, the wallet never ends up refusing every push.    *)
GuardHeldByPush ==
  pushInFlightHash # NULL =>
    \E c \in Call : calls[c].kind = "push" /\ calls[c].hash = pushInFlightHash

(* READ_ONLY and HALT drain: no push begins and nothing is proposed while    *)
(* either holds, so only calls already executing can still reach the broker. *)
ReadOnlyDrains ==
  [][ReadOnly /\ ReadOnly' =>
       /\ added' = added
       /\ \A c \in Call : calls'[c].kind = "push" => calls[c].kind = "push"]_allVars

(* UnifiedTradingAccount.ts:656, docs/steward-plan.zh.md:84: in CAUTIOUS only *)
(* risk-reducing operations are allowed.  So no push that begins in CAUTIOUS *)
(* carries another kind.                                                     *)
CautiousOnlyReduces ==
  [][\A c \in Call :
       calls[c].kind # "push" /\ calls'[c].kind = "push" /\ riskState = "CAUTIOUS"
         => ToSet(calls'[c].operations) \subseteq Reducing]_allVars

(* order-entry.ts:20: the one-shot form replaces the approval gate because   *)
(* the person supplied the full order.  So only operations somebody approved *)
(* or supplied are sent.                                                     *)
SentWasApproved == \A op \in Op : sent[op] > 0 => op \in approved

(* UnifiedTradingAccount.ts:908: the push guard exists because the staging   *)
(* area is cleared only after dispatch.  So no operation is in the hands of  *)
(* two pushes at once.                                                       *)
NoOverlappingPush ==
  \A c, d \in Call :
    c # d /\ calls[c].kind = "push" /\ calls[d].kind = "push"
      => ToSet(calls[c].operations) \cap ToSet(calls[d].operations) = {}

=============================================================================
