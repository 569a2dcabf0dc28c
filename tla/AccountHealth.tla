---------------------------- MODULE AccountHealth ----------------------------
(***************************************************************************)
(* Connection health of one UnifiedTradingAccount                           *)
(* (UnifiedTradingAccount.ts:341-588): the initial connect, the capability  *)
(* ladder down -> connected -> readable, the count of failed broker calls,  *)
(* and the recovery loop, a chain of setTimeout callbacks each of which     *)
(* probes the broker and arms the next.  The account's own calls to the     *)
(* broker, nudges and close() run while a probe is in flight.               *)
(***************************************************************************)
EXTENDS Integers, FiniteSets

CONSTANTS
  Timer,       \* bound: setTimeout callbacks that exist at once
  MaxCalls,    \* bound: live broker calls in flight at once
  Funded,      \* targetReach is "readable"; otherwise "connected"
  AppErrors,   \* a call may fail although the broker is up (a rejected request)
  DegradedThreshold, OfflineThreshold,
  NULL

ASSUME HealthAssumption ==
  /\ Timer # {} /\ NULL \notin Timer
  /\ MaxCalls \in Nat /\ {Funded, AppErrors} \subseteq BOOLEAN
  /\ DegradedThreshold \in Nat /\ OfflineThreshold \in Nat
  /\ 0 < DegradedThreshold /\ DegradedThreshold <= OfflineThreshold

VARIABLES
  broker,       \* the venue: "down", "public" (no private reads), "full"
  reach,        \* _currentReach
  failures,     \* _consecutiveFailures, counted up to OfflineThreshold
  connect,      \* _connect(): "probing", "warming" (_ensureSubAccounts), "done"
  disabled,     \* _disabled
  recovering,   \* _recovering
  handle,       \* _recoveryTimer
  timers,       \* the callbacks: "free", "armed", "running" (probe in flight)
  liveCalls,    \* _callBroker invocations in flight
  closed        \* close() was called

vars == <<broker, reach, failures, connect, disabled, recovering, handle,
          timers, liveCalls, closed>>

Reach == {"down", "connected", "readable"}
ReachRank == [down |-> 0, connected |-> 1, readable |-> 2]
targetReach == IF Funded THEN "readable" ELSE "connected"
BeyondTarget(r) == ReachRank[r] > ReachRank[targetReach]  \* mutant: > for >=
ReachedTarget(r) == ReachRank[r] >= ReachRank[targetReach]

TypeOK ==
  /\ broker \in {"down", "public", "full"}
  /\ reach \in Reach
  /\ failures \in 0..OfflineThreshold
  /\ connect \in {"probing", "warming", "done"}
  /\ handle \in Timer \cup {NULL}
  /\ timers \in [Timer -> {"free", "armed", "running"}]
  /\ liveCalls \in 0..MaxCalls
  /\ {disabled, recovering, closed} \subseteq BOOLEAN

HealthOf(d, r, n) ==
  CASE d \/ r = "down" \/ n >= OfflineThreshold     -> "offline"
    [] ~ReachedTarget(r) \/ n >= DegradedThreshold  -> "degraded"
    [] OTHER                                         -> "healthy"

health == HealthOf(disabled, reach, failures)

(* _callBroker refuses with CONNECTING in this state. *)
Refusing == health = "offline" /\ recovering /\ ~disabled

(* The account counts as having reached its target until a probe says else. *)
Init ==
  /\ broker \in {"down", "public", "full"}
  /\ reach = targetReach /\ failures = 0 /\ connect = "probing"
  /\ disabled = FALSE /\ recovering = FALSE /\ closed = FALSE
  /\ handle = NULL /\ timers = [t \in Timer |-> "free"]
  /\ liveCalls = 0

-----------------------------------------------------------------------------
VenueState == broker  \* mutant of ProbeResult: not a rung of the ladder

(* What _attemptReach answers when the venue is as it is now.               *)
ProbeResult ==
  CASE broker = "down" -> "down"
    [] broker = "full" /\ Funded -> "readable"
    [] OTHER -> "connected"

(* _attemptReach, at its end: a probe that fails may find a permanent error.*)
Probe ==
  /\ reach' = ProbeResult
  /\ \/ disabled' = disabled
     \/ ~ReachedTarget(ProbeResult) /\ disabled' = TRUE

(* clearTimeout stops a callback that has not fired; a running one goes on.  *)
Cleared(ts) == IF handle # NULL /\ ts[handle] = "armed"
               THEN [ts EXCEPT ![handle] = "free"] ELSE ts

(* _scheduleRecoveryAttempt: arm a callback and keep its handle.            *)
Schedule(ts) ==
  \E t \in {u \in Timer : ts[u] = "free"} :
     timers' = [ts EXCEPT ![t] = "armed"] /\ handle' = t

StartRecovery(ts) ==
  IF recovering
  THEN timers' = ts /\ UNCHANGED <<recovering, handle>>
  ELSE recovering' = TRUE /\ Schedule(ts)

(* Mutant of OnSuccess: the timer is cleared and _recovering left set. *)
SuccessKeepsRecovering(ts) ==
  /\ failures' = 0
  /\ timers' = Cleared(ts)
  /\ handle' = NULL
  /\ UNCHANGED recovering

(* _onSuccess: the failure count restarts, and a recovery that has a handle  *)
(* is called off.  The reach is left as the last probe set it.              *)
OnSuccess(ts) ==
  /\ failures' = 0
  /\ timers' = Cleared(ts)
  /\ handle' = NULL
  /\ recovering' = (recovering /\ handle = NULL)

-----------------------------------------------------------------------------
(* The venue comes and goes. *)
BrokerChanges ==
  /\ broker' \in {"down", "public", "full"}
  /\ UNCHANGED <<reach, failures, connect, disabled, recovering, handle, timers,
                 liveCalls, closed>>

(* _connect up to the end of the first probe.  An account that is down has   *)
(* nothing to warm up and goes straight to recovery.                         *)
ConnectProbe ==
  /\ connect = "probing"
  /\ Probe
  /\ \/ /\ disabled' \/ reach' # "down"
        /\ connect' = IF disabled' THEN "done" ELSE "warming"
        /\ UNCHANGED <<failures, recovering, handle, timers>>
     \/ /\ ~disabled' /\ reach' = "down"
        /\ connect' = "done"
        /\ failures' = OfflineThreshold
        /\ StartRecovery(timers)
  /\ UNCHANGED <<broker, liveCalls, closed>>

(* The rest of _connect, after the sub-accounts were fetched. *)
ConnectWarmed ==
  /\ connect = "warming"
  /\ connect' = "done"
  /\ \/ disabled /\ UNCHANGED <<failures, recovering, handle, timers>>
     \/ ~disabled /\ ReachedTarget(reach) /\ OnSuccess(timers)
     \/ /\ ~disabled /\ ~ReachedTarget(reach)
        /\ failures' = IF reach = "down" THEN OfflineThreshold ELSE failures
        /\ StartRecovery(timers)
  /\ UNCHANGED <<broker, reach, disabled, liveCalls, closed>>

TimerFires(t) ==
  /\ timers[t] = "armed"
  /\ timers' = [timers EXCEPT ![t] = "running"]
  /\ UNCHANGED <<broker, reach, failures, connect, disabled, recovering, handle,
                 liveCalls, closed>>

(* The rest of the callback: stop on a permanent error, stop on success, or  *)
(* arm the next attempt.                                                     *)
ProbeEnds(t) ==
  LET done == [timers EXCEPT ![t] = "free"] IN
  /\ timers[t] = "running"
  /\ Probe
  /\ \/ /\ disabled'
        /\ recovering' = FALSE /\ timers' = done
        /\ UNCHANGED <<failures, handle>>
     \/ /\ ~disabled' /\ ReachedTarget(reach')
        /\ OnSuccess(done)
     \/ /\ ~disabled' /\ ~ReachedTarget(reach')
        /\ timers' = [timers EXCEPT ![t] = "armed"] /\ handle' = t
        /\ UNCHANGED <<failures, recovering>>
  /\ UNCHANGED <<broker, connect, liveCalls, closed>>

(* _callBroker: its refusals come before the call. *)
LiveStart ==
  /\ liveCalls < MaxCalls
  /\ ~disabled /\ connect # "probing" /\ ~Refusing
  /\ liveCalls' = liveCalls + 1
  /\ UNCHANGED <<broker, reach, failures, connect, disabled, recovering, handle,
                 timers, closed>>

LiveSucceeds ==
  /\ liveCalls > 0
  /\ broker # "down"
  /\ liveCalls' = liveCalls - 1
  /\ OnSuccess(timers)
  /\ UNCHANGED <<broker, reach, connect, disabled, closed>>

(* Any error counts, a request the venue rejected included. *)
LiveFails ==
  /\ liveCalls > 0
  /\ broker # "full" \/ AppErrors
  /\ liveCalls' = liveCalls - 1
  /\ failures' = IF failures < OfflineThreshold THEN failures + 1 ELSE failures
  /\ IF HealthOf(disabled, reach, failures') = "offline"
     THEN StartRecovery(timers)
     ELSE UNCHANGED <<recovering, handle, timers>>
  /\ UNCHANGED <<broker, reach, connect, disabled, closed>>

(* nudgeRecovery: somebody wants the account now; do not wait for the delay. *)
Nudge ==
  /\ recovering /\ ~disabled
  /\ Schedule(Cleared(timers))
  /\ UNCHANGED <<broker, reach, failures, connect, disabled, recovering, liveCalls, closed>>

(* close() clears the timer it knows; a probe in flight goes on, and so do   *)
(* calls of a push that is not done.                                         *)
Close ==
  /\ ~closed /\ closed' = TRUE
  /\ timers' = Cleared(timers)
  /\ handle' = NULL
  /\ recovering' = (recovering /\ handle = NULL)
  /\ UNCHANGED <<broker, reach, failures, connect, disabled, liveCalls>>

LiveEnds == LiveSucceeds \/ LiveFails

Next ==
  \/ BrokerChanges
  \/ ConnectProbe
  \/ ConnectWarmed
  \/ \E t \in Timer : TimerFires(t)
  \/ \E t \in Timer : ProbeEnds(t)
  \/ LiveStart
  \/ LiveSucceeds
  \/ LiveFails
  \/ Nudge
  \/ Close

Spec == Init /\ [][Next]_vars

(* Calls to the venue settle, answered or timed out, and timers fire.  A      *)
(* nudge clears the timer and arms a new one of RECOVERY_BASE_MS, so nudges   *)
(* closer together than that would put the attempt off for ever; the strong   *)
(* fairness says that they come less often.                                   *)
Fairness ==
  /\ WF_vars(ConnectProbe) /\ WF_vars(ConnectWarmed) /\ WF_vars(LiveEnds)
  /\ SF_vars(\E t \in Timer : TimerFires(t))
  /\ \A t \in Timer : WF_vars(ProbeEnds(t))

FairSpec == Spec /\ Fairness

-----------------------------------------------------------------------------
(* PROPERTIES *)

(* While _recovering is set, an attempt is armed or under way: calls that    *)
(* the flag turns away (_callBroker) never wait for a probe nobody will make.*)
RecoveringHasProbe == recovering => \E t \in Timer : timers[t] # "free"

(* An account that is down, or was called off-line by its failures, and that *)
(* turns calls away, stops doing so once the venue stays up.                 *)
RefusalEnds == <>[](broker = "full") => []<>~Refusing

(* UnifiedTradingAccount.ts:476, "'connected' but funded wants 'readable' -  *)
(* partial; recovery pursues it."  Once the venue stays fully up and its     *)
(* calls succeed, the account returns to healthy unless it was disabled.      *)
BecomesHealthy ==
  <>[](broker = "full" /\ ~closed) => []<>(disabled \/ health = "healthy")

=============================================================================
