-------------------------------- MODULE Pump --------------------------------
(***************************************************************************)
(* The interval timer that drives periodic services (src/core/pump.ts), in  *)
(* its serial form, the only one in use.  A timer that fires starts a tick  *)
(* unless one is running, and the end of a tick arms the next timer: the    *)
(* pump lives as long as no path drops both.  How long a timer is set, and  *)
(* hence the backoff after errors, is left out.                             *)
(***************************************************************************)
CONSTANT Caller   \* concurrent callers of runNow

VARIABLES
  enabled, stopped, started,
  timer,        \* a timer is armed
  processing,   \* a tick is in flight
  waiting       \* callers of runNow awaiting that tick

pumpVars == <<enabled, stopped, started, timer, processing, waiting>>

PumpTypeOK ==
  /\ enabled \in BOOLEAN /\ stopped \in BOOLEAN /\ started \in BOOLEAN
  /\ timer \in BOOLEAN /\ processing \in BOOLEAN
  /\ waiting \subseteq Caller

PumpInit ==
  /\ enabled \in BOOLEAN
  /\ stopped = FALSE /\ started = FALSE
  /\ timer = FALSE /\ processing = FALSE /\ waiting = {}

(* armNext: whether a timer is armed afterwards. *)
Armed(on, dead) == timer \/ (on /\ ~dead)

Start ==
  /\ ~started /\ ~stopped
  /\ started' = TRUE
  /\ timer' = Armed(enabled, stopped)
  /\ UNCHANGED <<enabled, stopped, processing, waiting>>

(* Terminal: a tick in flight ends, and nothing is armed after it. *)
Stop ==
  /\ ~stopped
  /\ stopped' = TRUE /\ timer' = FALSE
  /\ UNCHANGED <<enabled, started, processing, waiting>>

SetEnabled(on) ==
  /\ ~stopped /\ enabled # on
  /\ enabled' = on
  /\ timer' = IF on THEN Armed(on, stopped) ELSE FALSE
  /\ UNCHANGED <<stopped, started, processing, waiting>>

(* The timer fires and a tick begins. *)
TimerTicks ==
  /\ timer /\ ~processing
  /\ timer' = FALSE /\ processing' = TRUE
  /\ UNCHANGED <<enabled, stopped, started, waiting>>

(* The timer fires while a tick that runNow began is in flight: this fire is *)
(* dropped and arms nothing.                                                 *)
TimerDropped ==
  /\ timer /\ processing
  /\ timer' = FALSE
  /\ UNCHANGED <<enabled, stopped, started, processing, waiting>>

(* runNow begins a tick, or awaits the one in flight. *)
RunNow(c) ==
  /\ ~stopped /\ c \notin waiting
  /\ processing' = TRUE
  /\ waiting' = waiting \cup {c}
  /\ UNCHANGED <<enabled, stopped, started, timer>>

(* Mutant of Rearm: a tick begun by hand is outside the schedule. *)
RearmUnlessManual == IF waiting = {} THEN Armed(enabled, stopped) ELSE timer

Rearm == Armed(enabled, stopped)

(* onTick returned or threw; either way the next timer is armed. *)
TickEnds ==
  /\ processing
  /\ processing' = FALSE /\ waiting' = {}
  /\ timer' = Rearm
  /\ UNCHANGED <<enabled, stopped, started>>

PumpNext ==
  \/ Start
  \/ Stop
  \/ \E on \in BOOLEAN : SetEnabled(on)
  \/ TimerTicks
  \/ TimerDropped
  \/ \E c \in Caller : RunNow(c)
  \/ TickEnds

PumpSpec == PumpInit /\ [][PumpNext]_pumpVars

(* The pump does not die: no order of fires, manual runs, errors and toggles *)
(* leaves a started and enabled pump without a timer and without a tick      *)
(* whose end arms one (a fire that arrives during a tick is dropped and arms *)
(* nothing, pump.ts:131).                                                    *)
PumpAlive == started /\ enabled /\ ~stopped => timer \/ processing

(* stop() and setEnabled(false) hold for a tick in flight too. *)
PumpQuiet == stopped \/ ~enabled => ~timer

=============================================================================
