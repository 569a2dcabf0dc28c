----------------------------- MODULE TradingGit -----------------------------
(***************************************************************************)
(* The Trading-as-Git engine of one account                                *)
(* (services/uta/src/domain/trading/git/TradingGit.ts with                 *)
(* git-persistence.ts): stage, commit, push, reject, and the commits the   *)
(* account synthesises itself.                                             *)
(*                                                                         *)
(* push() and reject() are async functions.  Each runs in segments that no *)
(* other code interrupts, from one await to the next, so a call is a       *)
(* Begin action, one action per awaited operation, and a Settle or a Fail  *)
(* action; anything else may happen in between.  Every change is written   *)
(* to commit.json synchronously (emitStateChange, persistState), inside    *)
(* the segment that makes it.                                              *)
(***************************************************************************)
EXTENDS Integers, Sequences, SequencesExt

CONSTANTS
  Op,             \* operation objects; each object is staged once
  Call,           \* push() and reject() invocations that can be in flight
  SyntheticKind,  \* kinds of commits the account appends itself
  PushStatus,     \* statuses parseOperationResult gives a successful result
  NULL,
  MaxHashes,      \* bound: commit hashes generated
  MaxFaults       \* bound: crashes and failed account reads

ASSUME GitAssumption ==
  /\ MaxHashes \in Nat /\ MaxFaults \in Nat
  /\ SyntheticKind \cap {"push", "reject"} = {}
  /\ PushStatus \subseteq {"submitted", "filled", "cancelled", "rejected"}
  /\ NULL \notin [id : Nat, operations : Seq(Op)]

VARIABLES
  stagingArea,  \* operations staged and not yet in the log
  pendingHash,  \* hash of the prepared commit; pendingMessage goes with it
  commits,      \* the log
  head,         \* hash of the newest commit
  calls,        \* the local variables of the invocations in flight
  disk,         \* commit.json
  nextHash,     \* the next fresh hash (time makes each digest different)
  (* history variables *)
  added,        \* operations ever staged
  sent,         \* how often each operation was handed to the broker
  faults        \* crashes and failed account reads so far

gitVars  == <<stagingArea, pendingHash, commits, head, calls, disk, nextHash>>
histVars == <<added, sent, faults>>
vars     == <<gitVars, histVars>>

-----------------------------------------------------------------------------
(* A hash identifies the batch it was computed from: sha256 over message,   *)
(* operations, time and parent, where the time makes it unique.  Its first  *)
(* 8 digits are taken not to collide.                                       *)
Hash   == [id : Nat, operations : Seq(Op)]
Status == {"submitted", "filled", "cancelled", "rejected", "user-rejected"}
GitCommit == [hash : Hash, parentHash : Hash \cup {NULL},
              kind : SyntheticKind \cup {"push", "reject"},
              operations : Seq(Op), results : Seq(Status)]
CallState == [kind : {"idle", "push", "reject"}, operations : Seq(Op),
              hash : Hash \cup {NULL}, results : Seq(Status)]
GitExportState == [commits : Seq(GitCommit), head : Hash \cup {NULL},
                   stagingArea : Seq(Op), pendingHash : Hash \cup {NULL}]

TypeOK ==
  /\ stagingArea \in Seq(Op)
  /\ pendingHash \in Hash \cup {NULL}
  /\ commits \in Seq(GitCommit)
  /\ head \in Hash \cup {NULL}
  /\ calls \in [Call -> CallState]
  /\ disk \in GitExportState
  /\ nextHash \in Nat
  /\ added \subseteq Op
  /\ sent \in [Op -> Nat]
  /\ faults \in Nat

Begun(kind, operations, hash) ==
  [kind |-> kind, operations |-> operations, hash |-> hash, results |-> <<>>]
Idle == Begun("idle", <<>>, NULL)

generateCommitHash(operations) == [id |-> nextHash, operations |-> operations]

exportState == [commits |-> commits, head |-> head,
                stagingArea |-> stagingArea, pendingHash |-> pendingHash]

(* Mutants of persistState: a file without the staging area, without the log. *)
PersistLogOnly == disk' = [exportState' EXCEPT !.stagingArea = disk.stagingArea]
PersistStagingOnly == disk' = [exportState' EXCEPT !.commits = disk.commits]

(* emitStateChange and persistState: write what memory holds now. *)
persistState == disk' = exportState'

(* Mutants of AppendCommit: synthetic commits do not move head; the last      *)
(* operation of a batch is left out of the log.                              *)
AppendWithoutHead(hash, kind, operations, results) ==
  /\ commits' = Append(commits, [hash |-> hash, parentHash |-> head, kind |-> kind,
                                 operations |-> operations, results |-> results])
  /\ head' = IF kind \in SyntheticKind THEN head ELSE hash
AppendShortBatch(hash, kind, operations, results) ==
  /\ commits' = Append(commits, [hash |-> hash, parentHash |-> head, kind |-> kind,
                                 operations |-> SubSeq(operations, 1, Len(operations) - 1),
                                 results |-> results])
  /\ head' = hash

(* The tail that push, reject and every record* method share: the parent is *)
(* the head at the moment of the append.                                    *)
AppendCommit(hash, kind, operations, results) ==
  /\ commits' = Append(commits, [hash |-> hash, parentHash |-> head, kind |-> kind,
                                 operations |-> operations, results |-> results])
  /\ head' = hash

Init ==
  /\ stagingArea = <<>> /\ pendingHash = NULL
  /\ commits = <<>> /\ head = NULL
  /\ calls = [c \in Call |-> Idle]
  /\ disk = exportState
  /\ nextHash = 1
  /\ added = {} /\ sent = [o \in Op |-> 0] /\ faults = 0

-----------------------------------------------------------------------------
(* git add.  A prepared commit stays prepared. *)
Add(op) ==
  /\ op \notin added
  /\ stagingArea' = Append(stagingArea, op)
  /\ added' = added \cup {op}
  /\ UNCHANGED <<pendingHash, commits, head, calls, nextHash, sent, faults>>
  /\ persistState

(* git commit.  It may be repeated: the last hash replaces the one before. *)
Commit ==
  /\ stagingArea # <<>>
  /\ nextHash <= MaxHashes
  /\ pendingHash' = generateCommitHash(stagingArea)
  /\ nextHash' = nextHash + 1
  /\ UNCHANGED <<stagingArea, commits, head, calls, added, sent, faults>>
  /\ persistState

(* The guards of push and reject, and what both copy before the first await. *)
Begin(c, kind) ==
  /\ calls[c].kind = "idle"
  /\ stagingArea # <<>> /\ pendingHash # NULL
  /\ calls' = [calls EXCEPT ![c] = Begun(kind, stagingArea, pendingHash)]
  /\ UNCHANGED <<stagingArea, pendingHash, commits, head, disk, nextHash, histVars>>

PushBegin(c)   == Begin(c, "push")
RejectBegin(c) == Begin(c, "reject")

Executed(c) == Len(calls[c].results)
Executing(c) == calls[c].kind = "push" /\ Executed(c) < Len(calls[c].operations)
PreviousOp(c) ==  \* mutant of NextOp: off by one
  calls[c].operations[IF Executed(c) = 0 THEN 1 ELSE Executed(c)]
NextOp(c) == calls[c].operations[Executed(c) + 1]

(* Mutant of PushResult: the broker's own status recorded, not mapped. *)
RawResult(c, status) ==
  /\ calls' = [calls EXCEPT ![c].results = Append(@, "PreSubmitted")]
  /\ UNCHANGED <<stagingArea, pendingHash, commits, head, disk, nextHash, added, faults>>

PushResult(c, status) ==
  /\ calls' = [calls EXCEPT ![c].results = Append(@, status)]
  /\ UNCHANGED <<stagingArea, pendingHash, commits, head, disk, nextHash, added, faults>>

(* One executeOperation that reaches the broker.  A broker that refuses or   *)
(* whose answer is lost gives the status "rejected".                         *)
PushDispatch(c, status) ==
  /\ Executing(c)
  /\ sent' = [sent EXCEPT ![NextOp(c)] = @ + 1]
  /\ PushResult(c, status)

(* One executeOperation that a guard or the dispatcher refuses. *)
PushGuarded(c) ==
  /\ Executing(c)
  /\ UNCHANGED sent
  /\ PushResult(c, "rejected")

(* Mutants of ClearStaging: nothing, the operations, the hash is kept. *)
ClearNothing == UNCHANGED <<stagingArea, pendingHash>>
ClearHashOnly == pendingHash' = NULL /\ UNCHANGED stagingArea
ClearOperationsOnly == stagingArea' = <<>> /\ UNCHANGED pendingHash
ClearStaging == stagingArea' = <<>> /\ pendingHash' = NULL

(* What push and reject do once getGitState has answered: append, clear     *)
(* whatever is staged now, persist.                                         *)
Settle(c, results) ==
  /\ AppendCommit(calls[c].hash, calls[c].kind, calls[c].operations, results)
  /\ ClearStaging
  /\ calls' = [calls EXCEPT ![c] = Idle]
  /\ UNCHANGED <<nextHash, histVars>>
  /\ persistState

PushSettle(c) ==
  /\ calls[c].kind = "push" /\ ~Executing(c)
  /\ Settle(c, calls[c].results)

RejectSettle(c) ==
  /\ calls[c].kind = "reject"
  /\ Settle(c, [i \in 1..Len(calls[c].operations) |-> "user-rejected"])

(* getGitState throws: the call ends in an exception with nothing recorded. *)
StateReadFails(c) ==
  /\ calls[c].kind # "idle" /\ ~Executing(c)
  /\ faults < MaxFaults
  /\ calls' = [calls EXCEPT ![c] = Idle]
  /\ faults' = faults + 1
  /\ UNCHANGED <<stagingArea, pendingHash, commits, head, disk, nextHash, added, sent>>

(* recordReconcile, recordObservedOrders, recordEmergencyStop,              *)
(* recordFlatten, sync: append a commit of their own between any two        *)
(* segments of a call, and leave the staging area alone.                    *)
RecordSynthetic(kind) ==
  /\ nextHash <= MaxHashes
  /\ AppendCommit(generateCommitHash(<<>>), kind, <<>>, <<>>)
  /\ nextHash' = nextHash + 1
  /\ UNCHANGED <<stagingArea, pendingHash, calls, histVars>>
  /\ persistState

(* The process dies and a new one restores commit.json.  A prepared commit   *)
(* is dropped when the file holds no staged operation for it.               *)
CrashRestart ==
  /\ faults < MaxFaults
  /\ faults' = faults + 1
  /\ commits' = disk.commits /\ head' = disk.head
  /\ stagingArea' = disk.stagingArea
  /\ pendingHash' = IF disk.stagingArea = <<>> THEN NULL ELSE disk.pendingHash
  /\ calls' = [c \in Call |-> Idle]
  /\ UNCHANGED <<disk, nextHash, added, sent>>

-----------------------------------------------------------------------------
(* Requests start calls; everything else continues them or is the account's  *)
(* own doing.                                                                *)
Request ==
  \/ \E op \in Op : Add(op)
  \/ Commit
  \/ \E c \in Call : PushBegin(c)
  \/ \E c \in Call : RejectBegin(c)

Progress ==
  \/ \E c \in Call, s \in PushStatus : PushDispatch(c, s)
  \/ \E c \in Call : PushGuarded(c)
  \/ \E c \in Call : PushSettle(c)
  \/ \E c \in Call : RejectSettle(c)
  \/ \E c \in Call : StateReadFails(c)
  \/ \E k \in SyntheticKind : RecordSynthetic(k)
  \/ CrashRestart

Next == Request \/ Progress
Spec == Init /\ [][Next]_vars

(* Callers that wait for a push or a reject to return before they ask for    *)
(* anything else: one person at the approval screen, no agent at work.       *)
Quiet == \A c \in Call : calls[c].kind = "idle"
SerialNext == (Quiet /\ Request) \/ Progress
SerialSpec == Init /\ [][SerialNext]_vars

-----------------------------------------------------------------------------
(* PROPERTIES *)

Recorded == UNION {ToSet(commits[i].operations) : i \in DOMAIN commits}
Staged   == ToSet(stagingArea)

(* The log is a hash chain: whatever interleaves with the awaits of push and *)
(* reject, each commit names the one before it as its parent and head is the *)
(* hash of the last (TradingGit.ts reads this.head only after its awaits).   *)
ChainIntegrity ==
  /\ head = IF commits = <<>> THEN NULL ELSE commits[Len(commits)].hash
  /\ \A i \in 1..Len(commits) :
       commits[i].parentHash = IF i = 1 THEN NULL ELSE commits[i - 1].hash

(* A commit that awaits approval always has operations to approve, also when *)
(* calls overlap and after a restart: push() and reject() need both.         *)
PendingHasOperations == pendingHash # NULL => stagingArea # <<>>

(* Nothing rewrites the log, a restart included: it only grows at the end.   *)
LogOnlyGrows == [][IsPrefix(commits, commits')]_commits

(* Callers that wait: an operation once staged is never dropped.  Until it   *)
(* is recorded in the log it stays staged, across crashes and failed calls.  *)
NoOperationLost == added = Staged \cup Recorded

(* Callers that wait: an operation is recorded by one commit, and once       *)
(* recorded it is no longer up for approval.                                 *)
RecordedOnce ==
  /\ Staged \cap Recorded = {}
  /\ \A i, j \in DOMAIN commits : i # j =>
       ToSet(commits[i].operations) \cap ToSet(commits[j].operations) = {}

(* Callers that wait: only a crash or a failed account read after the        *)
(* broker calls lets an operation be sent again, once per such fault.        *)
ResentOnlyAfterFault == \A op \in Op : sent[op] <= 1 + faults

(* Callers that wait, no fault: what the log shows as rejected by the user   *)
(* never reached the broker.                                                 *)
RejectedNeverSent ==
  faults = 0 =>
    \A i \in DOMAIN commits : commits[i].kind = "reject" =>
      \A op \in ToSet(commits[i].operations) : sent[op] = 0

(* README.md: operations are staged, committed, reviewed and pushed.  Every  *)
(* operation a push handed to the broker is in the batch that `git commit`   *)
(* hashed for it.                                                            *)
PushedWasCommitted ==
  \A c \in Call : calls[c].kind = "push" =>
    \A i \in 1..Executed(c) :
      calls[c].operations[i] \in ToSet(calls[c].hash.operations)

(* Where an operation stands, read off the log, the staging area and the     *)
(* broker calls.                                                             *)
OpStatus == [op \in Op |->
  CASE \E i \in DOMAIN commits : commits[i].kind = "push" /\ op \in ToSet(commits[i].operations)
         -> "executed"
    [] \E i \in DOMAIN commits : commits[i].kind = "reject" /\ op \in ToSet(commits[i].operations)
         -> "refused"
    [] OTHER -> IF sent[op] > 0 THEN "sent" ELSE IF op \in Staged THEN "staged" ELSE "new"]

Lifecycle == INSTANCE ProposalLifecycle WITH status <- OpStatus, interrupted <- faults > 0

(* For callers that wait, the engine implements the lifecycle: a batch ends  *)
(* together and once, executed or refused, and a restart does not undo it.   *)
ImplementsLifecycle == Lifecycle!Spec

=============================================================================
