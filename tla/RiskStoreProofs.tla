-------------------------- MODULE RiskStoreProofs --------------------------
(***************************************************************************)
(* What TLAPS proves of RiskStore, for any number of stores, requests and   *)
(* faults: types, automatic transitions that never loosen, and that the     *)
(* file and the gates hold the last acknowledged posture.                   *)
(***************************************************************************)
EXTENDS RiskStore, TLAPS

(* While a store is at a file operation, its posture is what the transition  *)
(* at the head of the chain asked for.                                       *)
AtWork == \A s \in Store : step[s] # "idle" => mem[s] = Head(chain[s]).to

(* Only the serving store works, until histories get mixed. *)
OneWriter == ~mixed => \A s \in Store : s # serving => step[s] = "idle"

(* What is about to be renamed is that posture. *)
TmpIsNew == ~mixed => \A s \in Store : step[s] = "publish" => tmp = mem[s]

(* A store that was not built yet has nothing to do. *)
UnbuiltIsIdle == \A s \in Store \ up : Idle(s)

(* A store still has something to write when it is replaced. *)
Unsettled == \E o \in up : ~Idle(o)

StoreInv == RiskTypeOK /\ AtWork /\ OneWriter /\ TmpIsNew /\ UnbuiltIsIdle

RiskInv == StoreInv /\ AckedIsDurable /\ GateHoldsAcked

-----------------------------------------------------------------------------
LEMMA FirstIsStore == First \in Store
BY RiskAssumption DEF First

LEMMA BoundsAreNat == MaxRequests \in Nat /\ MaxFaults \in Nat
BY RiskAssumption

LEMMA RankIsNat == \A r \in RiskState : RISK_RANK[r] \in Nat
BY DEF RiskState, RISK_RANK

LEMMA BootStateType ==
  ASSUME NEW f \in {"absent", "corrupt"} \cup RiskState
  PROVE  BootState(f) \in RiskState
BY DEF BootState, RiskState

LEMMA BootStateOfPosture ==
  ASSUME NEW r \in RiskState
  PROVE  BootState(r) = r
BY DEF BootState, RiskState

(* What a transition leaves in the chain. *)
LEMMA SettleTypes ==
  ASSUME RiskTypeOK, NEW s \in Store, step[s] # "idle", NEW ok \in BOOLEAN, Settle(s, ok)
  PROVE  /\ step' \in [Store -> {"idle", "quarantine", "write", "publish"}]
         /\ chain' \in [Store -> Seq(Request)]
         /\ \A x \in Store : step'[x] # "idle" =>
              x # s /\ step'[x] = step[x] /\ chain'[x] = chain[x]
         /\ acked' \in RiskState /\ asked' \in BOOLEAN
<1>1. chain[s] \in Seq(Request) /\ chain[s] # <<>>
  BY DEF RiskTypeOK
<1>2. Head(chain[s]) \in Request /\ Tail(chain[s]) \in Seq(Request)
  BY <1>1
<1>3. Head(chain[s]).to \in RiskState
  BY <1>2 DEF Request
<1>4. QED
  BY <1>2, <1>3 DEF Settle, RiskTypeOK

-----------------------------------------------------------------------------
LEMMA StoreInvInit == Init => StoreInv
<1> SUFFICES ASSUME Init PROVE StoreInv
  OBVIOUS
<1>1. BootState(file) \in RiskState
  BY BootStateType DEF Init
<1>2. acked \in RiskState
  BY DEF Init, RiskState
<1>3. <<>> \in Seq(Request)
  OBVIOUS
<1>4. /\ mem \in [Store -> RiskState] /\ corrupt \in [Store -> BOOLEAN]
      /\ chain \in [Store -> Seq(Request)]
      /\ step \in [Store -> {"idle", "quarantine", "write", "publish"}]
  BY <1>1, <1>3 DEF Init
<1>5. up \subseteq Store /\ serving \in up
  BY FirstIsStore DEF Init
<1>6. requests \in 0..MaxRequests /\ faults \in 0..MaxFaults
  BY BoundsAreNat DEF Init
<1>7. \A s \in Store : step[s] = "idle" /\ chain[s] = <<>>
  BY DEF Init
<1>8. RiskTypeOK
  BY <1>2, <1>4, <1>5, <1>6, <1>7 DEF Init, RiskTypeOK
<1>9. QED
  BY <1>7, <1>8 DEF StoreInv, AtWork, OneWriter, TmpIsNew, UnbuiltIsIdle, Idle

LEMMA EnqueueHolds ==
  ASSUME StoreInv, NEW s \in up, NEW by \in {"auto", "human"}, NEW to \in RiskState,
         Enqueue(s, by, to)
  PROVE  StoreInv'
<1>1. [by |-> by, to |-> to] \in Request
  BY DEF Request
<1>2. chain[s] \in Seq(Request)
  BY DEF StoreInv, RiskTypeOK
<1>3. \A q \in Seq(Request), r \in Request :
        /\ Append(q, r) \in Seq(Request) /\ Append(q, r) # <<>>
        /\ q # <<>> => Head(Append(q, r)) = Head(q)
  OBVIOUS
<1>4. requests' \in 0..MaxRequests
  BY BoundsAreNat DEF Enqueue, StoreInv, RiskTypeOK
<1>5. RiskTypeOK'
  BY <1>1, <1>2, <1>3, <1>4 DEF Enqueue, StoreInv, RiskTypeOK
<1>6. AtWork'
  BY <1>1, <1>2, <1>3 DEF Enqueue, StoreInv, RiskTypeOK, AtWork
<1>7. OneWriter' /\ TmpIsNew'
  BY DEF Enqueue, StoreInv, OneWriter, TmpIsNew
<1>8. UnbuiltIsIdle'
  BY DEF Enqueue, StoreInv, RiskTypeOK, UnbuiltIsIdle, Idle
<1>9. QED
  BY <1>5, <1>6, <1>7, <1>8 DEF StoreInv

LEMMA DropHolds == ASSUME StoreInv, NEW s \in Store, Drop(s) PROVE StoreInv'
<1>1. Tail(chain[s]) \in Seq(Request)
  BY DEF StoreInv, RiskTypeOK, Drop
<1>2. RiskTypeOK'
  BY <1>1 DEF Drop, StoreInv, RiskTypeOK
<1>3. AtWork'
  BY DEF Drop, StoreInv, RiskTypeOK, AtWork
<1>4. QED
  BY <1>2, <1>3 DEF Drop, StoreInv, RiskTypeOK, OneWriter, TmpIsNew, UnbuiltIsIdle, Idle

LEMMA BeginHolds == ASSUME StoreInv, NEW s \in Store, Begin(s) PROVE StoreInv'
<1>1. Head(chain[s]) \in Request
  BY DEF StoreInv, RiskTypeOK, Begin
<1>2. Head(chain[s]).to \in RiskState
  BY <1>1 DEF Request
<1>3. RiskTypeOK'
  BY <1>2 DEF Begin, StoreInv, RiskTypeOK
<1>4. AtWork'
  BY DEF Begin, StoreInv, RiskTypeOK, AtWork
<1>5. OneWriter'
  BY DEF Begin, StoreInv, RiskTypeOK, OneWriter
<1>6. TmpIsNew'
  BY DEF Begin, StoreInv, RiskTypeOK, TmpIsNew
<1>7. UnbuiltIsIdle'
  BY DEF Begin, StoreInv, RiskTypeOK, UnbuiltIsIdle, Idle
<1>8. QED
  BY <1>3, <1>4, <1>5, <1>6, <1>7 DEF StoreInv

LEMMA QuarantineHolds == ASSUME StoreInv, NEW s \in Store, Quarantine(s) PROVE StoreInv'
<1>1. RiskTypeOK'
  BY DEF Quarantine, StoreInv, RiskTypeOK
<1>2. AtWork' /\ OneWriter' /\ TmpIsNew'
  BY DEF Quarantine, StoreInv, RiskTypeOK, AtWork, OneWriter, TmpIsNew
<1>3. UnbuiltIsIdle'
  BY DEF Quarantine, StoreInv, RiskTypeOK, UnbuiltIsIdle, Idle
<1>4. QED
  BY <1>1, <1>2, <1>3 DEF StoreInv

(* A store that writes while histories are not mixed is the only one. *)
LEMMA WriteTmpHolds == ASSUME StoreInv, NEW s \in Store, WriteTmp(s) PROVE StoreInv'
<1>1. RiskTypeOK'
  BY DEF WriteTmp, StoreInv, RiskTypeOK
<1>2. AtWork' /\ OneWriter'
  BY DEF WriteTmp, StoreInv, RiskTypeOK, AtWork, OneWriter
<1>3. TmpIsNew'
  BY DEF WriteTmp, StoreInv, RiskTypeOK, OneWriter, TmpIsNew
<1>4. UnbuiltIsIdle'
  BY DEF WriteTmp, StoreInv, RiskTypeOK, UnbuiltIsIdle, Idle
<1>5. QED
  BY <1>1, <1>2, <1>3, <1>4 DEF StoreInv

LEMMA PublishHolds == ASSUME StoreInv, NEW s \in Store, Publish(s) PROVE StoreInv'
<1>1. /\ step' \in [Store -> {"idle", "quarantine", "write", "publish"}]
      /\ chain' \in [Store -> Seq(Request)]
      /\ \A x \in Store : step'[x] # "idle" =>
           x # s /\ step'[x] = step[x] /\ chain'[x] = chain[x]
      /\ acked' \in RiskState /\ asked' \in BOOLEAN
  BY SettleTypes DEF StoreInv, Publish
<1>2. RiskTypeOK'
  BY <1>1 DEF Publish, StoreInv, RiskTypeOK
<1>3. AtWork' /\ OneWriter'
  BY <1>1 DEF Publish, StoreInv, AtWork, OneWriter
<1>4. TmpIsNew'
  BY <1>1 DEF Publish, StoreInv, OneWriter, TmpIsNew
<1>5. UnbuiltIsIdle'
  <2>1. chain' = [chain EXCEPT ![s] = Tail(@)] /\ up' = up /\ s \in up
    BY DEF Publish, Settle, StoreInv, UnbuiltIsIdle, Idle
  <2>2. QED
    BY <1>1, <2>1 DEF StoreInv, RiskTypeOK, UnbuiltIsIdle, Idle
<1>6. QED
  BY <1>2, <1>3, <1>4, <1>5 DEF StoreInv

LEMMA GivesUpHolds ==
  ASSUME StoreInv, NEW s \in Store, RenameMisses(s) \/ WriteFails(s)
  PROVE  StoreInv'
<1>1. step[s] # "idle" /\ Settle(s, FALSE)
  BY DEF RenameMisses, WriteFails
<1>2. /\ step' \in [Store -> {"idle", "quarantine", "write", "publish"}]
      /\ chain' \in [Store -> Seq(Request)]
      /\ \A x \in Store : step'[x] # "idle" =>
           x # s /\ step'[x] = step[x] /\ chain'[x] = chain[x]
      /\ acked' \in RiskState /\ asked' \in BOOLEAN
  BY <1>1, SettleTypes DEF StoreInv
<1>3. UNCHANGED <<file, tmp, up, serving, mem, corrupt, requests, bare, mixed>>
  BY DEF RenameMisses, WriteFails
<1>4. faults' \in 0..MaxFaults
  <2>1. faults \in 0..MaxFaults
    BY DEF StoreInv, RiskTypeOK
  <2>2. faults' = faults \/ (faults < MaxFaults /\ faults' = faults + 1)
    BY DEF RenameMisses, WriteFails, Fault
  <2>3. QED
    BY <2>1, <2>2, BoundsAreNat
<1>5. RiskTypeOK'
  BY <1>2, <1>3, <1>4 DEF StoreInv, RiskTypeOK
<1>6. AtWork' /\ OneWriter' /\ TmpIsNew'
  BY <1>2, <1>3 DEF StoreInv, AtWork, OneWriter, TmpIsNew
<1>7. UnbuiltIsIdle'
  <2>1. chain' = [chain EXCEPT ![s] = Tail(@)] /\ up' = up /\ s \in up
    BY <1>1, <1>3 DEF Settle, StoreInv, UnbuiltIsIdle, Idle
  <2>2. QED
    BY <1>2, <2>1 DEF StoreInv, RiskTypeOK, UnbuiltIsIdle, Idle
<1>8. QED
  BY <1>5, <1>6, <1>7 DEF StoreInv

LEMMA ReconnectHolds == ASSUME StoreInv, NEW s \in Store, Reconnect(s) PROVE StoreInv'
<1>1. BootState(file) \in RiskState
  BY BootStateType DEF StoreInv, RiskTypeOK
<1>2. RiskTypeOK'
  BY <1>1 DEF Reconnect, StoreInv, RiskTypeOK
<1>3. ~Unsettled => \A x \in Store : step[x] = "idle"
  BY DEF StoreInv, UnbuiltIsIdle, Idle, Unsettled
<1>4. step[s] = "idle" /\ \A x \in Store : x # s => mem'[x] = mem[x]
  BY DEF Reconnect, StoreInv, RiskTypeOK, UnbuiltIsIdle, Idle
<1>5. AtWork' /\ TmpIsNew'
  BY <1>4 DEF Reconnect, StoreInv, AtWork, TmpIsNew
<1>6. OneWriter'
  BY <1>3 DEF Reconnect, OneWriter, Unsettled
<1>7. UnbuiltIsIdle'
  BY DEF Reconnect, StoreInv, UnbuiltIsIdle, Idle
<1>8. QED
  BY <1>2, <1>5, <1>6, <1>7 DEF StoreInv

LEMMA BootHolds ==
  ASSUME StoreInv, NEW f \in {"absent", "corrupt"} \cup RiskState, Boot(f),
         file' \in {"absent", "corrupt"} \cup RiskState, tmp' \in {"absent"} \cup RiskState,
         acked' \in RiskState, bare' \in BOOLEAN
  PROVE  StoreInv'
<1>1. BootState(f) \in RiskState
  BY BootStateType
<1>2. <<>> \in Seq(Request)
  OBVIOUS
<1>3. /\ mem' \in [Store -> RiskState] /\ corrupt' \in [Store -> BOOLEAN]
      /\ chain' \in [Store -> Seq(Request)]
      /\ step' \in [Store -> {"idle", "quarantine", "write", "publish"}]
  BY <1>1, <1>2 DEF Boot
<1>4. up' \subseteq Store /\ serving' \in up'
  BY FirstIsStore DEF Boot
<1>5. faults' \in 0..MaxFaults
  BY BoundsAreNat DEF Boot, Fault, StoreInv, RiskTypeOK
<1>6. \A s \in Store : step'[s] = "idle" /\ chain'[s] = <<>>
  BY DEF Boot
<1>7. UNCHANGED <<requests, mixed>> /\ asked' = FALSE
  BY DEF Boot
<1>8. RiskTypeOK'
  BY <1>3, <1>4, <1>5, <1>6, <1>7 DEF StoreInv, RiskTypeOK
<1>9. QED
  BY <1>6, <1>8 DEF StoreInv, AtWork, OneWriter, TmpIsNew, UnbuiltIsIdle, Idle

LEMMA CrashHolds == StoreInv /\ CrashRestart => StoreInv'
<1> SUFFICES ASSUME StoreInv, CrashRestart PROVE StoreInv'
  OBVIOUS
<1>1. /\ file \in {"absent", "corrupt"} \cup RiskState /\ tmp \in {"absent"} \cup RiskState
      /\ acked \in RiskState /\ bare \in BOOLEAN
  BY DEF StoreInv, RiskTypeOK
<1>2. QED
  BY <1>1, BootHolds DEF CrashRestart

LEMMA UnansweredHolds == ASSUME StoreInv, NEW s \in Store, CrashUnanswered(s) PROVE StoreInv'
<1>1. tmp \in RiskState
  BY DEF CrashUnanswered, StoreInv, RiskTypeOK
<1>2. QED
  BY <1>1, BootHolds DEF CrashUnanswered

(* What that boot answers is what it finds. *)
LEMMA UnansweredIsAck ==
  ASSUME StoreInv, NEW s \in Store, CrashUnanswered(s)
  PROVE  file' = acked' /\ mem'[serving'] = acked' /\ acked' \in RiskState
<1>1. tmp \in RiskState
  BY DEF CrashUnanswered, StoreInv, RiskTypeOK
<1>2. QED
  BY <1>1, FirstIsStore, BootStateOfPosture DEF CrashUnanswered, Boot

LEMMA StoreInvNext == StoreInv /\ [Next]_vars => StoreInv'
<1> SUFFICES ASSUME StoreInv, [Next]_vars PROVE StoreInv'
  OBVIOUS
<1>1. ASSUME NEW s \in Store, NEW t \in RiskState, AutoTighten(s, t) PROVE StoreInv'
  BY <1>1, EnqueueHolds DEF AutoTighten
<1>2. ASSUME NEW s \in Store, NEW t \in RiskState, HumanSet(s, t) PROVE StoreInv'
  BY <1>2, EnqueueHolds DEF HumanSet
<1>3. ASSUME NEW s \in Store, StoreStep(s) PROVE StoreInv'
  BY <1>3, DropHolds, BeginHolds, QuarantineHolds, WriteTmpHolds, PublishHolds,
     GivesUpHolds DEF StoreStep
<1>4. ASSUME NEW s \in Store, WriteFails(s) PROVE StoreInv'
  BY <1>4, GivesUpHolds
<1>5. ASSUME NEW s \in Store, Reconnect(s) PROVE StoreInv'
  BY <1>5, ReconnectHolds
<1>6. ASSUME NEW s \in Store, CrashUnanswered(s) PROVE StoreInv'
  BY <1>6, UnansweredHolds
<1>7. CASE UNCHANGED vars
  BY <1>7 DEF vars, storeVars, StoreInv, RiskTypeOK, AtWork, OneWriter, TmpIsNew,
     UnbuiltIsIdle, Idle
<1>8. QED
  BY <1>1, <1>2, <1>3, <1>4, <1>5, <1>6, <1>7, CrashHolds DEF Next


-----------------------------------------------------------------------------
(* The head of the chain of a store at work, in its types. *)
LEMMA HeadType ==
  ASSUME RiskTypeOK, NEW s \in Store, chain[s] # <<>>
  PROVE  Head(chain[s]) \in Request /\ Head(chain[s]).to \in RiskState
<1>1. chain[s] \in Seq(Request)
  BY DEF RiskTypeOK
<1>2. Head(chain[s]) \in Request
  BY <1>1
<1>3. QED
  BY <1>2 DEF Request

(* A rename acknowledges what it put on file. *)
LEMMA PublishIsAck ==
  ASSUME StoreInv, ~mixed, NEW s \in Store, Publish(s)
  PROVE  s = serving /\ file' = acked' /\ acked' = mem[s] /\ acked' \in RiskState
<1>1. s = serving /\ tmp = mem[s]
  BY DEF Publish, StoreInv, OneWriter, TmpIsNew
<1>2. acked' = Head(chain[s]).to /\ mem[s] = Head(chain[s]).to
  BY DEF Publish, Settle, StoreInv, AtWork
<1>3. mem[s] \in RiskState
  BY DEF StoreInv, RiskTypeOK
<1>4. QED
  BY <1>1, <1>2, <1>3 DEF Publish

(* The file and the acknowledged posture move together, or a quarantine      *)
(* takes the file away.                                                      *)
LEMMA DurableNext == StoreInv /\ AckedIsDurable /\ [Next]_vars => AckedIsDurable'
<1> SUFFICES ASSUME StoreInv, AckedIsDurable, [Next]_vars PROVE AckedIsDurable'
  OBVIOUS
<1>1. ASSUME UNCHANGED <<file, acked, bare>>, mixed => mixed' PROVE AckedIsDurable'
  BY <1>1 DEF AckedIsDurable, StoreInv, RiskTypeOK
<1>2. ASSUME NEW s \in Store, NEW t \in RiskState, AutoTighten(s, t) \/ HumanSet(s, t)
      PROVE  AckedIsDurable'
  BY <1>1, <1>2 DEF AutoTighten, HumanSet, Enqueue
<1>3. ASSUME NEW s \in Store, StoreStep(s) PROVE AckedIsDurable'
  <2>1. CASE Drop(s) \/ Begin(s) \/ WriteTmp(s)
    BY <1>1, <2>1 DEF Drop, Begin, WriteTmp
  <2>2. CASE Quarantine(s)
    BY <2>2 DEF Quarantine, AckedIsDurable
  <2>3. CASE Publish(s)
    <3>1. mixed' = mixed
      BY <2>3 DEF Publish
    <3>2. CASE ~mixed
      BY <2>3, <3>2, PublishIsAck, BootStateOfPosture DEF AckedIsDurable
    <3>3. QED
      BY <3>1, <3>2 DEF AckedIsDurable
  <2>4. CASE RenameMisses(s)
    BY <1>1, <2>4 DEF RenameMisses, Settle
  <2>5. QED
    BY <1>3, <2>1, <2>2, <2>3, <2>4 DEF StoreStep
<1>4. ASSUME NEW s \in Store, WriteFails(s) PROVE AckedIsDurable'
  BY <1>1, <1>4 DEF WriteFails, Settle
<1>5. ASSUME NEW s \in Store, Reconnect(s) PROVE AckedIsDurable'
  BY <1>1, <1>5 DEF Reconnect
<1>6. CASE CrashRestart
  BY <1>1, <1>6 DEF CrashRestart, Boot
<1>7. ASSUME NEW s \in Store, CrashUnanswered(s) PROVE AckedIsDurable'
  BY <1>7, UnansweredIsAck, BootStateOfPosture DEF AckedIsDurable
<1>8. CASE UNCHANGED vars
  BY <1>1, <1>8 DEF vars
<1>9. QED
  BY <1>2, <1>3, <1>4, <1>5, <1>6, <1>7, <1>8 DEF Next

(* The gates: a posture that begins to be in force is stricter or a human's, *)
(* and one read from the file is the acknowledged one.                       *)
LEMMA GateNext ==
  StoreInv /\ AckedIsDurable /\ GateHoldsAcked /\ [Next]_vars => GateHoldsAcked'
<1> SUFFICES ASSUME StoreInv, AckedIsDurable, GateHoldsAcked, [Next]_vars,
                    ~bare', ~mixed', ~asked'
             PROVE  RISK_RANK[mem'[serving']] >= RISK_RANK[acked']
  BY DEF GateHoldsAcked
<1>a. /\ serving \in Store /\ mem \in [Store -> RiskState] /\ acked \in RiskState
      /\ mem[serving] \in RiskState
  BY DEF StoreInv, RiskTypeOK
<1>b. RISK_RANK[mem[serving]] \in Nat /\ RISK_RANK[acked] \in Nat
  BY <1>a, RankIsNat
<1>1. ASSUME UNCHANGED <<mem, serving, acked, bare, mixed, asked>>
      PROVE  RISK_RANK[mem'[serving']] >= RISK_RANK[acked']
  BY <1>1 DEF GateHoldsAcked
<1>2. ASSUME NEW s \in Store, NEW t \in RiskState, AutoTighten(s, t) \/ HumanSet(s, t)
      PROVE  RISK_RANK[mem'[serving']] >= RISK_RANK[acked']
  BY <1>1, <1>2 DEF AutoTighten, HumanSet, Enqueue
<1>3. ASSUME NEW s \in Store, Begin(s)
      PROVE  RISK_RANK[mem'[serving']] >= RISK_RANK[acked']
  <2>1. s = serving /\ ~mixed /\ ~bare /\ ~asked /\ Head(chain[s]).by # "human"
    BY <1>3 DEF Begin, StoreInv, RiskTypeOK
  <2>2. Head(chain[s]) \in Request /\ Head(chain[s]).to \in RiskState
    BY <1>3, HeadType DEF Begin, StoreInv
  <2>3. RISK_RANK[Head(chain[s]).to] > RISK_RANK[mem[s]]
    BY <1>3, <2>1 DEF Begin, Applies
  <2>4. RISK_RANK[mem[serving]] >= RISK_RANK[acked]
    BY <2>1 DEF GateHoldsAcked
  <2>5. RISK_RANK[Head(chain[s]).to] \in Nat
    BY <2>2, RankIsNat
  <2>6. mem'[serving'] = Head(chain[s]).to /\ acked' = acked
    BY <1>3, <1>a, <2>1 DEF Begin
  <2>7. QED
    BY <1>b, <2>1, <2>3, <2>4, <2>5, <2>6
<1>4. ASSUME NEW s \in Store, Publish(s)
      PROVE  RISK_RANK[mem'[serving']] >= RISK_RANK[acked']
  <2>1. s = serving /\ acked' = mem[s] /\ mem' = mem /\ serving' = serving
    BY <1>4, PublishIsAck DEF Publish
  <2>2. QED
    BY <1>b, <2>1
<1>5. ASSUME NEW s \in Store, Drop(s) \/ WriteTmp(s)
      PROVE  RISK_RANK[mem'[serving']] >= RISK_RANK[acked']
  BY <1>1, <1>5 DEF Drop, WriteTmp
<1>6. ASSUME NEW s \in Store, RenameMisses(s) \/ WriteFails(s)
      PROVE  RISK_RANK[mem'[serving']] >= RISK_RANK[acked']
  <2>1. UNCHANGED <<mem, serving, acked, bare, mixed>> /\ asked' = asked
    BY <1>6 DEF RenameMisses, WriteFails, Settle, StoreInv, RiskTypeOK
  <2>2. QED
    BY <1>1, <2>1
<1>7. ASSUME NEW s \in Store, Reconnect(s)
      PROVE  RISK_RANK[mem'[serving']] >= RISK_RANK[acked']
  <2>1. ~mixed /\ ~bare
    BY <1>7 DEF Reconnect, StoreInv, RiskTypeOK
  <2>2. mem'[serving'] = acked /\ acked' = acked
    BY <1>7, <1>a, <2>1 DEF Reconnect, AckedIsDurable
  <2>3. QED
    BY <1>b, <2>2
<1>8. CASE CrashRestart
  <2>1. ~mixed /\ ~bare
    BY <1>8 DEF CrashRestart, Boot
  <2>2. mem'[serving'] = acked /\ acked' = acked
    BY <1>8, <2>1, FirstIsStore DEF CrashRestart, Boot, AckedIsDurable
  <2>3. QED
    BY <1>b, <2>2
<1>9. CASE UNCHANGED vars
  BY <1>1, <1>9 DEF vars, storeVars
<1>10. ASSUME NEW s \in Store, Quarantine(s) PROVE FALSE
  BY <1>10 DEF Quarantine
<1>11. ASSUME NEW s \in Store, CrashUnanswered(s)
       PROVE  RISK_RANK[mem'[serving']] >= RISK_RANK[acked']
  <2>1. mem'[serving'] = acked' /\ acked' \in RiskState
    BY <1>11, UnansweredIsAck
  <2>2. RISK_RANK[acked'] \in Nat
    BY <2>1, RankIsNat
  <2>3. QED
    BY <2>1, <2>2
<1>12. QED
  BY <1>2, <1>3, <1>4, <1>5, <1>6, <1>7, <1>8, <1>9, <1>10, <1>11 DEF Next, StoreStep

LEMMA RiskInvInit == Init => RiskInv
<1> SUFFICES ASSUME Init PROVE RiskInv
  OBVIOUS
<1>1. acked = BootState(file) /\ mem[serving] = acked
  BY FirstIsStore DEF Init, BootState
<1>2. acked \in RiskState
  BY StoreInvInit DEF StoreInv, RiskTypeOK
<1>3. RISK_RANK[acked] \in Nat
  BY <1>2, RankIsNat
<1>4. QED
  BY <1>1, <1>3, StoreInvInit DEF RiskInv, AckedIsDurable, GateHoldsAcked

LEMMA RiskInvAlways == Spec => []RiskInv
<1>1. RiskInv /\ [Next]_vars => RiskInv'
  BY StoreInvNext, DurableNext, GateNext DEF RiskInv
<1>2. QED
  BY <1>1, RiskInvInit, PTL DEF Spec

-----------------------------------------------------------------------------
(* The posture, the file and the chain of writes of risk-state.ts keep their *)
(* types, whatever fails, crashes or reconnects.                             *)
THEOREM RiskTypeCorrect == Spec => []RiskTypeOK
<1>1. RiskInv => RiskTypeOK
  BY DEF RiskInv, StoreInv
<1>2. QED
  BY <1>1, RiskInvAlways, PTL

(* A restart at any point finds the last acknowledged posture on file, or the *)
(* one a crash left unanswered after its rename, unless a quarantine is not  *)
(* over or a replaced store went on writing.                                 *)
THEOREM RiskPostureSurvives == Spec => []AckedIsDurable
<1>1. RiskInv => AckedIsDurable
  BY DEF RiskInv
<1>2. QED
  BY <1>1, RiskInvAlways, PTL

(* Under the same conditions the gates of the serving store are never looser *)
(* than that posture, unless a human asked for it.                           *)
THEOREM GatesHold == Spec => []GateHoldsAcked
<1>1. RiskInv => GateHoldsAcked
  BY DEF RiskInv
<1>2. QED
  BY <1>1, RiskInvAlways, PTL

(* No automatic transition lowers the rank of a store's posture: it is       *)
(* compared again when its turn in the chain comes.                          *)
THEOREM EvaluatorNeverLoosens == Spec => AutoNeverLoosens
<1> DEFINE Loosens(s) == RISK_RANK[mem'[s]] < RISK_RANK[mem[s]]
<1> DEFINE Allowed(s) == \/ chain[s] # <<>> /\ Head(chain[s]).by = "human"
                         \/ faults' # faults
<1>1. ASSUME RiskTypeOK, [Next]_vars, NEW s \in up \cap up', Loosens(s) PROVE Allowed(s)
  <2>1. s \in Store /\ mem[s] \in RiskState /\ RISK_RANK[mem[s]] \in Nat
    BY <1>1, RankIsNat DEF RiskTypeOK
  <2>2. mem'[s] # mem[s]
    BY <1>1, <2>1
  <2>3. CASE CrashRestart \/ \E o \in Store : CrashUnanswered(o)
    BY <1>1, <2>3 DEF CrashRestart, CrashUnanswered, Boot, Fault, RiskTypeOK
  <2>4. ASSUME NEW o \in Store, Reconnect(o) PROVE FALSE
    BY <1>1, <2>1, <2>2, <2>4 DEF Reconnect, RiskTypeOK
  <2>5. ASSUME NEW o \in Store, Begin(o) PROVE Allowed(s)
    <3>1. o = s /\ mem'[s] = Head(chain[s]).to /\ chain[s] # <<>>
      BY <1>1, <2>1, <2>2, <2>5 DEF Begin, RiskTypeOK
    <3>2. RISK_RANK[Head(chain[s]).to] \in Nat
      BY <1>1, <2>1, <3>1, HeadType, RankIsNat
    <3>3. QED
      BY <1>1, <2>1, <2>5, <3>1, <3>2 DEF Begin, Applies
  <2>6. CASE UNCHANGED mem
    BY <2>2, <2>6
  <2>7. CASE \E o \in Store, t \in RiskState : AutoTighten(o, t) \/ HumanSet(o, t)
    BY <2>6, <2>7 DEF AutoTighten, HumanSet, Enqueue
  <2>8. CASE \E o \in Store : Drop(o) \/ Quarantine(o) \/ WriteTmp(o) \/ Publish(o)
                              \/ RenameMisses(o) \/ WriteFails(o)
    BY <2>6, <2>8 DEF Drop, Quarantine, WriteTmp, Publish, RenameMisses, WriteFails
  <2>9. CASE UNCHANGED vars
    BY <2>6, <2>9 DEF vars, storeVars
  <2>10. QED
    BY <1>1, <2>3, <2>4, <2>5, <2>7, <2>8, <2>9 DEF Next, StoreStep
<1>2. RiskTypeOK /\ [Next]_vars =>
        [\A s \in up \cap up' : Loosens(s) => Allowed(s)]_vars
  BY <1>1
<1>3. QED
  BY <1>2, RiskTypeCorrect, PTL DEF Spec, AutoNeverLoosens

=============================================================================
