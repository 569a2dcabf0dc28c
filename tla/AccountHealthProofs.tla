------------------------ MODULE AccountHealthProofs ------------------------
(***************************************************************************)
(* What TLAPS proves of AccountHealth, for any thresholds and any number of *)
(* timers and calls: the types, and that a recovery that is on has a probe. *)
(***************************************************************************)
EXTENDS AccountHealth, TLAPS

(* The handle of a recovery that is on names a callback that exists: it was  *)
(* armed last, or it runs now.  Callbacks without a handle may exist too.    *)
HandleIsLive == recovering => handle # NULL /\ timers[handle] # "free"

HealthInv == TypeOK /\ HandleIsLive

LEMMA ProbeResultIsReach == ProbeResult \in Reach
BY DEF ProbeResult, Reach

LEMMA ProbeTypes == ASSUME TypeOK, Probe PROVE reach' \in Reach /\ disabled' \in BOOLEAN
BY ProbeResultIsReach DEF Probe, TypeOK

LEMMA ClearedType ==
  ASSUME NEW ts \in [Timer -> {"free", "armed", "running"}]
  PROVE  Cleared(ts) \in [Timer -> {"free", "armed", "running"}]
BY DEF Cleared

(* Schedule leaves a handle to an armed callback. *)
LEMMA ScheduleArms ==
  ASSUME NEW ts \in [Timer -> {"free", "armed", "running"}], Schedule(ts)
  PROVE  /\ timers' \in [Timer -> {"free", "armed", "running"}]
         /\ handle' \in Timer /\ handle' # NULL /\ timers'[handle'] = "armed"
<1>1. PICK t \in Timer : timers' = [ts EXCEPT ![t] = "armed"] /\ handle' = t
  BY DEF Schedule
<1>2. QED
  BY <1>1, HealthAssumption

(* StartRecovery arms a callback, or finds a recovery that has one. *)
LEMMA StartRecoveryHolds ==
  ASSUME HealthInv, StartRecovery(timers)
  PROVE  /\ timers' \in [Timer -> {"free", "armed", "running"}]
         /\ handle' \in Timer \cup {NULL} /\ recovering' \in BOOLEAN
         /\ HandleIsLive'
<1> USE DEF HealthInv, TypeOK, HandleIsLive, StartRecovery
<1>1. CASE recovering
  BY <1>1
<1>2. CASE ~recovering
  BY <1>2, ScheduleArms
<1>3. QED
  BY <1>1, <1>2

(* _onSuccess ends the recovery: what is left of it has no handle. *)
LEMMA OnSuccessHolds ==
  ASSUME HealthInv, NEW ts \in [Timer -> {"free", "armed", "running"}], OnSuccess(ts)
  PROVE  /\ timers' \in [Timer -> {"free", "armed", "running"}]
         /\ handle' \in Timer \cup {NULL} /\ failures' \in 0..OfflineThreshold
         /\ recovering' = FALSE
<1>1. timers' \in [Timer -> {"free", "armed", "running"}] /\ handle' \in Timer \cup {NULL}
  BY ClearedType DEF OnSuccess
<1>2. failures' \in 0..OfflineThreshold
  BY HealthAssumption DEF OnSuccess
<1>3. recovering' = FALSE
  BY DEF OnSuccess, HealthInv, HandleIsLive, TypeOK
<1>4. QED
  BY <1>1, <1>2, <1>3

-----------------------------------------------------------------------------
LEMMA HealthInvInit == Init => HealthInv
<1> SUFFICES ASSUME Init PROVE HealthInv
  OBVIOUS
<1>1. reach \in Reach
  BY DEF Init, targetReach, Reach
<1>2. failures \in 0..OfflineThreshold /\ liveCalls \in 0..MaxCalls
  BY HealthAssumption DEF Init
<1>3. QED
  BY <1>1, <1>2 DEF Init, HealthInv, TypeOK, HandleIsLive

LEMMA ConnectProbeHolds == HealthInv /\ ConnectProbe => HealthInv'
<1> SUFFICES ASSUME HealthInv, ConnectProbe PROVE HealthInv'
  OBVIOUS
<1>1. reach' \in Reach /\ disabled' \in BOOLEAN
  BY ProbeTypes DEF HealthInv, ConnectProbe
<1>2. connect' \in {"probing", "warming", "done"} /\ broker' = broker
      /\ liveCalls' = liveCalls /\ closed' = closed
  BY DEF ConnectProbe
<1>3. CASE UNCHANGED <<failures, recovering, handle, timers>>
  BY <1>1, <1>2, <1>3 DEF HealthInv, TypeOK, HandleIsLive
<1>4. CASE failures' = OfflineThreshold /\ StartRecovery(timers)
  <2>1. failures' \in 0..OfflineThreshold
    BY <1>4, HealthAssumption
  <2>2. QED
    BY <1>1, <1>2, <1>4, <2>1, StartRecoveryHolds DEF HealthInv, TypeOK
<1>5. QED
  BY <1>3, <1>4 DEF ConnectProbe

LEMMA ConnectWarmedHolds == HealthInv /\ ConnectWarmed => HealthInv'
<1> SUFFICES ASSUME HealthInv, ConnectWarmed PROVE HealthInv'
  OBVIOUS
<1>1. connect' \in {"probing", "warming", "done"} /\ reach' = reach
      /\ disabled' = disabled /\ broker' = broker
      /\ liveCalls' = liveCalls /\ closed' = closed
  BY DEF ConnectWarmed
<1>2. CASE UNCHANGED <<failures, recovering, handle, timers>>
  BY <1>1, <1>2 DEF HealthInv, TypeOK, HandleIsLive
<1>3. CASE OnSuccess(timers)
  <2>1. timers \in [Timer -> {"free", "armed", "running"}]
    BY DEF HealthInv, TypeOK
  <2>2. QED
    BY <1>1, <1>3, <2>1, OnSuccessHolds DEF HealthInv, TypeOK, HandleIsLive
<1>4. CASE /\ failures' = IF reach = "down" THEN OfflineThreshold ELSE failures
           /\ StartRecovery(timers)
  <2>1. failures' \in 0..OfflineThreshold
    BY <1>4, HealthAssumption DEF HealthInv, TypeOK
  <2>2. QED
    BY <1>1, <1>4, <2>1, StartRecoveryHolds DEF HealthInv, TypeOK
<1>5. QED
  BY <1>2, <1>3, <1>4 DEF ConnectWarmed

LEMMA ProbeEndsHolds == \A t \in Timer : HealthInv /\ ProbeEnds(t) => HealthInv'
<1> SUFFICES ASSUME NEW t \in Timer, HealthInv, ProbeEnds(t) PROVE HealthInv'
  OBVIOUS
<1>1. reach' \in Reach /\ disabled' \in BOOLEAN
  BY ProbeTypes DEF HealthInv, ProbeEnds
<1>2. broker' = broker /\ connect' = connect /\ liveCalls' = liveCalls /\ closed' = closed
  BY DEF ProbeEnds
<1>3. [timers EXCEPT ![t] = "free"] \in [Timer -> {"free", "armed", "running"}]
  BY DEF HealthInv, TypeOK
<1>4. CASE recovering' = FALSE /\ timers' = [timers EXCEPT ![t] = "free"]
           /\ UNCHANGED <<failures, handle>>
  BY <1>1, <1>2, <1>3, <1>4 DEF HealthInv, TypeOK, HandleIsLive
<1>5. CASE OnSuccess([timers EXCEPT ![t] = "free"])
  BY <1>1, <1>2, <1>3, <1>5, OnSuccessHolds DEF HealthInv, TypeOK, HandleIsLive
<1>6. CASE timers' = [timers EXCEPT ![t] = "armed"] /\ handle' = t
           /\ UNCHANGED <<failures, recovering>>
  BY <1>1, <1>2, <1>6, HealthAssumption DEF HealthInv, TypeOK, HandleIsLive
<1>7. QED
  BY <1>4, <1>5, <1>6 DEF ProbeEnds

LEMMA LiveEndsHolds == HealthInv /\ LiveEnds => HealthInv'
<1> SUFFICES ASSUME HealthInv, LiveEnds PROVE HealthInv'
  OBVIOUS
<1>1. broker' = broker /\ connect' = connect /\ closed' = closed /\ reach' = reach
      /\ disabled' = disabled /\ liveCalls' \in 0..MaxCalls
  BY HealthAssumption DEF HealthInv, TypeOK, LiveEnds, LiveSucceeds, LiveFails
<1>2. CASE LiveSucceeds
  <2>1. timers \in [Timer -> {"free", "armed", "running"}]
    BY DEF HealthInv, TypeOK
  <2>2. QED
    BY <1>1, <1>2, <2>1, OnSuccessHolds DEF HealthInv, TypeOK, HandleIsLive, LiveSucceeds
<1>3. CASE LiveFails
  <2>1. failures' \in 0..OfflineThreshold
    BY <1>3, HealthAssumption DEF LiveFails, HealthInv, TypeOK
  <2>2. CASE StartRecovery(timers)
    BY <1>1, <2>1, <2>2, StartRecoveryHolds DEF HealthInv, TypeOK
  <2>3. CASE UNCHANGED <<recovering, handle, timers>>
    BY <1>1, <2>1, <2>3 DEF HealthInv, TypeOK, HandleIsLive
  <2>4. QED
    BY <1>3, <2>2, <2>3 DEF LiveFails
<1>4. QED
  BY <1>2, <1>3 DEF LiveEnds

LEMMA NudgeHolds == HealthInv /\ Nudge => HealthInv'
<1> SUFFICES ASSUME HealthInv, Nudge PROVE HealthInv'
  OBVIOUS
<1>1. Cleared(timers) \in [Timer -> {"free", "armed", "running"}]
  BY ClearedType DEF HealthInv, TypeOK
<1>2. /\ timers' \in [Timer -> {"free", "armed", "running"}]
      /\ handle' \in Timer /\ handle' # NULL /\ timers'[handle'] = "armed"
  BY <1>1, ScheduleArms DEF Nudge
<1>3. QED
  BY <1>2 DEF Nudge, HealthInv, TypeOK, HandleIsLive

LEMMA CloseHolds == HealthInv /\ Close => HealthInv'
<1> SUFFICES ASSUME HealthInv, Close PROVE HealthInv'
  OBVIOUS
<1>1. timers' \in [Timer -> {"free", "armed", "running"}]
  BY ClearedType DEF HealthInv, TypeOK, Close
<1>2. recovering' = FALSE
  BY DEF HealthInv, TypeOK, HandleIsLive, Close
<1>3. QED
  BY <1>1, <1>2 DEF HealthInv, TypeOK, HandleIsLive, Close

LEMMA HealthInvNext == HealthInv /\ [Next]_vars => HealthInv'
<1> SUFFICES ASSUME HealthInv, [Next]_vars PROVE HealthInv'
  OBVIOUS
<1>1. CASE BrokerChanges
  BY <1>1 DEF BrokerChanges, HealthInv, TypeOK, HandleIsLive
<1>2. ASSUME NEW t \in Timer, TimerFires(t) PROVE HealthInv'
  BY <1>2 DEF TimerFires, HealthInv, TypeOK, HandleIsLive
<1>3. CASE LiveStart
  BY <1>3, HealthAssumption DEF LiveStart, HealthInv, TypeOK, HandleIsLive
<1>4. CASE UNCHANGED vars
  BY <1>4 DEF vars, HealthInv, TypeOK, HandleIsLive
<1>5. QED
  BY <1>1, <1>2, <1>3, <1>4, ConnectProbeHolds, ConnectWarmedHolds, ProbeEndsHolds,
     LiveEndsHolds, NudgeHolds, CloseHolds DEF Next, LiveEnds

LEMMA HealthInvAlways == Spec => []HealthInv
BY HealthInvInit, HealthInvNext, PTL DEF Spec

-----------------------------------------------------------------------------
(* The health fields of the account keep their types under every handler and *)
(* every interleaving of probes, calls, nudges and close().                  *)
THEOREM HealthTypeCorrect == Spec => []TypeOK
<1>1. HealthInv => TypeOK
  BY DEF HealthInv
<1>2. QED
  BY <1>1, HealthInvAlways, PTL

(* While the recovery flag turns calls away, a callback is armed or a probe  *)
(* is under way, whatever cleared or replaced the handle in between.         *)
THEOREM RecoveryAlwaysHasProbe == Spec => []RecoveringHasProbe
<1>1. HealthInv => RecoveringHasProbe
  BY DEF HealthInv, TypeOK, HandleIsLive, RecoveringHasProbe
<1>2. QED
  BY <1>1, HealthInvAlways, PTL

=============================================================================
