------------------------------ MODULE RiskStore ------------------------------
(***************************************************************************)
(* The risk posture of one account and its file (risk-state.ts).  A store   *)
(* keeps the posture in memory and writes it through a chain of writes:     *)
(* quarantine of an unreadable file, a temporary file, a rename.  After     *)
(* reconnectUTA (uta-manager.ts:96) a second store, built from the same     *)
(* file, serves the account, and calls that still hold the first go on      *)
(* using it.                                                                *)
(*                                                                         *)
(* writeFile is one step: a crash inside it leaves a temporary file no boot *)
(* reads.                                                                   *)
(***************************************************************************)
EXTENDS Naturals, Sequences

CONSTANTS
  Store,         \* the stores that can be built between two boots
  MaxRequests,   \* bound on transitions asked for
  MaxFaults      \* bound on failing writes and crashes

ASSUME RiskAssumption == Store # {} /\ {MaxRequests, MaxFaults} \subseteq Nat

RiskState == {"NORMAL", "CAUTIOUS", "READ_ONLY", "HALT"}
RISK_RANK == [NORMAL |-> 0, CAUTIOUS |-> 1, READ_ONLY |-> 2, HALT |-> 3]

VARIABLES
  file,       \* risk-state.json: absent, corrupt, or the state it holds
  tmp,        \* the temporary file; both stores use one name
  up,         \* the stores that exist in this process
  serving,    \* the one the registry answers with
  mem,        \* `state` of each store
  corrupt,    \* `pendingCorruptFilePath` of each store
  chain,      \* the transitions waiting in each store's writeChain
  step,       \* the file operation each store is at
  requests, faults,
  (* history *)
  acked,      \* the last transition that was acknowledged, or the boot's answer
  asked,      \* a human's transition took effect since and was not acknowledged
  bare,       \* a store moved the corrupt file away and no write ended since
  mixed       \* a store that no longer serves has written, or was about to

storeVars == <<up, serving, mem, corrupt, chain, step>>
vars == <<file, tmp, storeVars, requests, faults, acked, asked, bare, mixed>>

Request == [by : {"auto", "human"}, to : RiskState]

RiskTypeOK ==
  /\ file \in {"absent", "corrupt"} \cup RiskState
  /\ tmp \in {"absent"} \cup RiskState
  /\ up \subseteq Store /\ serving \in up
  /\ mem \in [Store -> RiskState]
  /\ corrupt \in [Store -> BOOLEAN]
  /\ chain \in [Store -> Seq(Request)]
  /\ step \in [Store -> {"idle", "quarantine", "write", "publish"}]
  /\ \A s \in Store : step[s] # "idle" => chain[s] # <<>>
  /\ requests \in 0..MaxRequests /\ faults \in 0..MaxFaults
  /\ acked \in RiskState
  /\ asked \in BOOLEAN /\ bare \in BOOLEAN /\ mixed \in BOOLEAN

(* Mutant of BootState: an unreadable file counts as none. *)
FailOpen(f) == IF f \in RiskState THEN f ELSE "NORMAL"

(* readInitialState. *)
BootState(f) == CASE f = "absent"  -> "NORMAL"
                  [] f = "corrupt" -> "READ_ONLY"
                  [] OTHER -> f

First == CHOOSE s \in Store : TRUE

Init ==
  /\ file \in {"absent", "corrupt"} \cup RiskState /\ tmp = "absent"
  /\ serving = First /\ up = {First}
  /\ mem = [s \in Store |-> BootState(file)]
  /\ corrupt = [s \in Store |-> file = "corrupt"]
  /\ chain = [s \in Store |-> <<>>] /\ step = [s \in Store |-> "idle"]
  /\ requests = 0 /\ faults = 0
  /\ acked = CASE file = "absent" -> "NORMAL" [] file = "corrupt" -> "READ_ONLY"
               [] OTHER -> file
  /\ asked = FALSE /\ bare = FALSE /\ mixed = FALSE

Fault == faults < MaxFaults /\ faults' = faults + 1
Idle(s) == step[s] = "idle" /\ chain[s] = <<>>

-----------------------------------------------------------------------------
Enqueue(s, by, to) ==
  /\ requests < MaxRequests /\ requests' = requests + 1
  /\ chain' = [chain EXCEPT ![s] = Append(@, [by |-> by, to |-> to])]
  /\ UNCHANGED <<file, tmp, up, serving, mem, corrupt, step, faults, acked, asked, bare, mixed>>

(* autoTighten: the risk evaluator found a breach.  A target that is not     *)
(* stricter than the posture of the moment is answered at once.              *)
AutoTighten(s, target) ==
  /\ s \in up /\ target # "NORMAL"
  /\ RISK_RANK[target] > RISK_RANK[mem[s]]
  /\ Enqueue(s, "auto", target)

(* humanSet: the risk-state route and, with HALT, the emergency stop. *)
HumanSet(s, to) == s \in up /\ Enqueue(s, "human", to)

(* Mutant of Applies: no second look when the transition's turn comes. *)
CheckedBefore(s, r) == TRUE

(* transition, when its turn comes: what waited before it may have tightened *)
(* the posture already.                                                      *)
Applies(s, r) == r.by = "human" \/ RISK_RANK[r.to] > RISK_RANK[mem[s]]

Drop(s) ==
  /\ step[s] = "idle" /\ chain[s] # <<>> /\ ~Applies(s, Head(chain[s]))
  /\ chain' = [chain EXCEPT ![s] = Tail(@)]
  /\ UNCHANGED <<file, tmp, up, serving, mem, corrupt, step, requests, faults,
                 acked, asked, bare, mixed>>

(* The posture is in force before it is on file. *)
Begin(s) ==
  /\ step[s] = "idle" /\ chain[s] # <<>> /\ Applies(s, Head(chain[s]))
  /\ mem' = [mem EXCEPT ![s] = Head(chain[s]).to]
  /\ step' = [step EXCEPT ![s] = IF corrupt[s] THEN "quarantine" ELSE "write"]
  /\ asked' = (asked \/ Head(chain[s]).by = "human")
  /\ mixed' = (mixed \/ s # serving)
  /\ UNCHANGED <<file, tmp, up, serving, corrupt, chain, requests, faults, acked, bare>>

(* writeState.  The name of the unreadable file is moved away, whatever it   *)
(* names by now.                                                             *)
Quarantine(s) ==
  /\ step[s] = "quarantine" /\ file # "absent"
  /\ file' = "absent" /\ bare' = TRUE
  /\ corrupt' = [corrupt EXCEPT ![s] = FALSE]
  /\ step' = [step EXCEPT ![s] = "write"]
  /\ UNCHANGED <<tmp, up, serving, mem, chain, requests, faults, acked, asked, mixed>>

WriteTmp(s) ==
  /\ step[s] = "write"
  /\ tmp' = mem[s]
  /\ step' = [step EXCEPT ![s] = "publish"]
  /\ UNCHANGED <<file, up, serving, mem, corrupt, chain, requests, faults,
                 acked, asked, bare, mixed>>

(* Mutant of Settle: a write that failed is logged and answered like one     *)
(* that succeeded.                                                           *)
SettleQuietly(s, ok) ==
  /\ step' = [step EXCEPT ![s] = "idle"]
  /\ chain' = [chain EXCEPT ![s] = Tail(@)]
  /\ acked' = Head(chain[s]).to /\ asked' = FALSE

(* Mutant of Settle: the chain keeps the rejection, and nothing runs again. *)
SettleOnce(s, ok) ==
  /\ step' = IF ok THEN [step EXCEPT ![s] = "idle"] ELSE step
  /\ chain' = IF ok THEN [chain EXCEPT ![s] = Tail(@)] ELSE chain
  /\ acked' = IF ok THEN Head(chain[s]).to ELSE acked
  /\ asked' = (asked /\ ~ok)

(* Mutant of Settle: the chain moves on before the file operation is over. *)
SettleEarly(s, ok) ==
  /\ UNCHANGED step
  /\ chain' = [chain EXCEPT ![s] = Tail(@)]
  /\ acked' = IF ok THEN Head(chain[s]).to ELSE acked
  /\ asked' = (asked /\ ~ok)

(* The transition resolves or rejects; the chain goes on either way. *)
Settle(s, ok) ==
  /\ step' = [step EXCEPT ![s] = "idle"]
  /\ chain' = [chain EXCEPT ![s] = Tail(@)]
  /\ acked' = IF ok THEN Head(chain[s]).to ELSE acked
  /\ asked' = (asked /\ ~ok)

Publish(s) ==
  /\ step[s] = "publish" /\ tmp # "absent"
  /\ file' = tmp /\ tmp' = "absent" /\ bare' = FALSE
  /\ Settle(s, TRUE)
  /\ UNCHANGED <<up, serving, mem, corrupt, requests, faults, mixed>>

(* A rename finds nothing: the other store was faster. *)
RenameMisses(s) ==
  /\ \/ step[s] = "quarantine" /\ file = "absent"
     \/ step[s] = "publish" /\ tmp = "absent"
  /\ Settle(s, FALSE)
  /\ UNCHANGED <<file, tmp, up, serving, mem, corrupt, requests, faults, bare, mixed>>

(* The disk refuses one of the three operations. *)
WriteFails(s) ==
  /\ step[s] # "idle"
  /\ Fault
  /\ Settle(s, FALSE)
  /\ UNCHANGED <<file, tmp, up, serving, mem, corrupt, requests, bare, mixed>>

-----------------------------------------------------------------------------
(* reconnectUTA: the new account reads the file; the old one's writes go on. *)
Reconnect(s) ==
  /\ s \in Store \ up
  /\ up' = up \cup {s} /\ serving' = s
  /\ mem' = [mem EXCEPT ![s] = BootState(file)]
  /\ corrupt' = [corrupt EXCEPT ![s] = file = "corrupt"]
  /\ mixed' = (mixed \/ \E o \in up : ~Idle(o)) /\ asked' = FALSE
  /\ UNCHANGED <<file, tmp, chain, step, requests, faults, acked, bare>>

(* The process dies and boots on what the file then holds. *)
Boot(f) ==
  /\ Fault
  /\ serving' = First /\ up' = {First}
  /\ mem' = [x \in Store |-> BootState(f)]
  /\ corrupt' = [x \in Store |-> f = "corrupt"]
  /\ chain' = [x \in Store |-> <<>>] /\ step' = [x \in Store |-> "idle"]
  /\ asked' = FALSE
  /\ UNCHANGED <<requests, mixed>>

CrashRestart == Boot(file) /\ UNCHANGED <<file, tmp, acked, bare>>

(* A crash after the rename and before its answer: the boot gives the answer. *)
CrashUnanswered(s) ==
  /\ step[s] = "publish" /\ tmp # "absent"
  /\ file' = tmp /\ tmp' = "absent" /\ bare' = FALSE
  /\ acked' = tmp
  /\ Boot(tmp)

StoreStep(s) ==
  \/ Drop(s)
  \/ Begin(s)
  \/ Quarantine(s)
  \/ WriteTmp(s)
  \/ Publish(s)
  \/ RenameMisses(s)

Next ==
  \/ \E s \in Store, t \in RiskState : AutoTighten(s, t)
  \/ \E s \in Store, t \in RiskState : HumanSet(s, t)
  \/ \E s \in Store : StoreStep(s)
  \/ \E s \in Store : WriteFails(s)
  \/ \E s \in Store : Reconnect(s)
  \/ CrashRestart
  \/ \E s \in Store : CrashUnanswered(s)

Spec == Init /\ [][Next]_vars

(* A file operation the runtime was asked for ends. *)
FairSpec == Spec /\ \A s \in Store : WF_vars(StoreStep(s))

-----------------------------------------------------------------------------
(* An automatic transition never loosens the posture of a store, also when   *)
(* a human or another breach came first in the chain (risk-state.ts:138).    *)
AutoNeverLoosens ==
  [][\A s \in up \cap up' :
       RISK_RANK[mem'[s]] < RISK_RANK[mem[s]] =>
         \/ chain[s] # <<>> /\ Head(chain[s]).by = "human"
         \/ faults' # faults]_vars

(* "Risk posture must survive restarts", and a file that cannot be read      *)
(* counts as READ_ONLY (risk-state.ts:7): a restart at any point finds the   *)
(* last acknowledged posture, whatever failed since, or the one whose        *)
(* acknowledgement a crash after its rename cut off.  Two states are         *)
(* outside: a quarantine whose write has not ended leaves no file, and a     *)
(* store that was replaced by a reconnect may still write.                   *)
AckedIsDurable == ~bare /\ ~mixed => BootState(file) = acked

(* A locked account does not open by itself: no crash, reconnect, failed     *)
(* write or breach leaves the gates of the serving store looser than the     *)
(* last acknowledged posture.  A human who loosens it does so before the     *)
(* file is written, and even when that fails.                                *)
GateHoldsAcked ==
  ~bare /\ ~mixed /\ ~asked => RISK_RANK[mem[serving]] >= RISK_RANK[acked]

(* A write that fails does not hold up those behind it. *)
RequestsSettle == \A s \in Store : chain[s] # <<>> ~> chain[s] = <<>>
=============================================================================
