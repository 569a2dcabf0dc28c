------------------------------ MODULE OrderSync ------------------------------
(***************************************************************************)
(* How the log of one account follows its venue after a push: the order     *)
(* sync poller (order-sync-poller.ts), sync(), observeExternalOrders(), the *)
(* emergency stop, flatten and the reconciliation of wallet positions       *)
(* (UnifiedTradingAccount.ts:1040-1430), on the order ids and statuses that *)
(* TradingGit reads off its commits (getPendingOrderIds, getKnownOrderIds)  *)
(* and the cost basis replayed from them (cost-basis.ts).                   *)
(*                                                                         *)
(* The account holds one asset; an order buys or sells one unit of it.  Any *)
(* number of activities may be between two of their awaits at once.         *)
(***************************************************************************)
EXTENDS Integers, Subsequences, SequencesExt

CONSTANTS
  Order,         \* ids the venue gives to orders
  Sell,          \* the orders that sell; the others buy
  Leg,           \* the ids that can be a bracket leg of another order
  Hidden,        \* orders that getOpenOrders does not list (conditional orders)
  Poller, Manual, Emergency,   \* activities: the poller, other callers of sync, the kill switch
  Reader,        \* getPositions invocations that can be in flight
  IdlessRow,     \* the venue's listing has a row without an order id
  Missing,       \* '<missing-order-id>'
  NoId,          \* a result without an order id
  NoRead,
  MaxEvents      \* bound on external transfers, edits, requests to sync or stop, and faults

ASSUME OrderAssumption ==
  /\ IsFiniteSet(Order)
  /\ Sell \subseteq Order /\ Leg \subseteq Sell /\ Hidden \subseteq Order
  /\ Missing # NoId /\ {Missing, NoId} \cap Order = {}
  /\ Poller # Emergency /\ {Poller, Emergency} \cap Manual = {}
  /\ IdlessRow \in BOOLEAN /\ NoRead \notin Nat
  /\ MaxEvents \in Nat

VARIABLES
  venue,      \* the venue's own state of every order
  position,   \* units of the asset the venue holds for the account
  listing,    \* the broker can list open orders
  (* what is read off the commits *)
  status,     \* the newest status of every order id, "unknown" without a row
  origins,    \* the ids of placeOrder and observeExternalOrder operations
  fills,      \* the rows with execution data, oldest first
  (* activities in flight *)
  pushing,    \* results of the push in flight, placed and not yet in the log
  task,       \* the activities and their local variables
  read,       \* the position each getPositions in flight was answered with
  events,     \* how many of the bounded events happened
  (* observability *)
  doubted     \* orders of which the venue said more than was so: a cancel that
              \* it only acknowledged, a status it gives to orders that still work

logVars == <<status, origins, fills>>
vars    == <<venue, position, listing, logVars, pushing, task, read, events, doubted>>

Syncer == {Poller} \cup Manual
Task   == Syncer \cup {Emergency}
Action == {"placeOrder", "leg", "modifyOrder", "cancelOrder", "syncOrders",
           "observeExternalOrder", "emergencyCancelOrder",
           "emergencyClosePosition", "reconcileBalance"}
(* qty is filledQty where filledPrice goes with it, negative when units go. *)
OperationResult ==
  [action : Action, orderId : Order \cup {Missing, NoId},
   status : {"submitted", "filled", "cancelled", "rejected"}, qty : Int]
TaskState ==
  [pc : {"idle", "observed", "confirm", "cancel", "record"},
   orders : SUBSET (Order \cup {Missing}), updates : Seq(OperationResult)]

OrdersTypeOK ==
  /\ venue \in [Order -> {"none", "live", "closing", "filled", "cancelled", "rejected"}]
  /\ position \in Nat /\ listing \in BOOLEAN
  /\ status \in [Order \cup {Missing} ->
                   {"unknown", "submitted", "filled", "cancelled", "rejected"}]
  /\ origins \subseteq Order
  /\ fills \in Seq(OperationResult)
  /\ pushing \in Seq(OperationResult)
  /\ task \in [Task -> TaskState]
  /\ read \in [Reader -> Nat \cup {NoRead}]
  /\ events \in 0..MaxEvents
  /\ doubted \subseteq Order

Row(action, id, st, qty) == [action |-> action, orderId |-> id, status |-> st, qty |-> qty]
At(pc, orders, updates)  == [pc |-> pc, orders |-> orders, updates |-> updates]
Idle == At("idle", {}, <<>>)

Live(o)     == venue[o] \in {"live", "closing"}
Terminal(o) == venue[o] \in {"filled", "cancelled", "rejected"}
Listed      == {o \in Order \ Hidden : Live(o)}

-----------------------------------------------------------------------------
(* THE LOG *)

Known   == {id \in Order \cup {Missing} : status[id] # "unknown"}
Pending == {id \in Order \cup {Missing} : status[id] = "submitted"}

(* getPendingOrderIds: the newest commit that names an order decides, and in *)
(* it the first result that does.                                            *)
StatusAfter(results) == [id \in DOMAIN status |->
  IF \E i \in DOMAIN results : results[i].orderId = id
  THEN results[SelectInSeq(results, LAMBDA r : r.orderId = id)].status
  ELSE status[id]]

(* One commit with these results.  What parseOperationResult keeps of a push *)
(* has no execution data, nor has a fill of a flatten for the cost basis.    *)
AppendCommit(results) ==
  /\ status' = StatusAfter(results)
  /\ origins' = origins \cup {r.orderId : r \in
       {q \in ToSet(results) : q.action \in {"placeOrder", "observeExternalOrder"}}}
  /\ fills' = fills \o Only(results, {r \in ToSet(results) : r.qty # 0})

Signed(o) == IF o \in Sell THEN -1 ELSE 1
Traded(qty, held) == IF held + qty < 0 THEN 0 ELSE held + qty

CountEverySync(known, acc, r) ==  \* mutant of ApplyFill: no `counted` set
  IF r.action = "reconcileBalance" \/ r.orderId \in known
  THEN [acc EXCEPT !.held = Traded(r.qty, @)] ELSE acc

(* recomputeCostBasisFromCommits, one row.  A sync row counts when the log   *)
(* says where the order came from (its pre-pass) and no row of it was        *)
(* counted before; selling more than is held leaves nothing.                 *)
ApplyFill(known, acc, r) ==
  IF r.action = "reconcileBalance"
  THEN [acc EXCEPT !.held = Traded(r.qty, @)]
  ELSE IF r.orderId \in known \ acc.counted
       THEN [held |-> Traded(r.qty, acc.held), counted |-> acc.counted \cup {r.orderId}]
       ELSE acc

Replay(rows, known) ==
  LET acc[n \in 0..Len(rows)] ==
        IF n = 0 THEN [held |-> 0, counted |-> {}] ELSE ApplyFill(known, acc[n - 1], rows[n])
  IN acc[Len(rows)].held
ProjectedQty == Replay(fills, origins)

Init ==
  /\ venue = [o \in Order |-> "none"] /\ position = 0
  /\ listing \in BOOLEAN
  /\ status = [id \in Order \cup {Missing} |-> "unknown"]
  /\ origins = {} /\ fills = <<>> /\ pushing = <<>>
  /\ task = [t \in Task |-> Idle]
  /\ read = [r \in Reader |-> NoRead]
  /\ events = 0 /\ doubted = {}

Goto(t, next) == task' = [task EXCEPT ![t] = next]
Event == events < MaxEvents /\ events' = events + 1

-----------------------------------------------------------------------------
(* THE VENUE *)

CanFill(o) == o \in Sell => position > 0 \/ venue[o] = "closing"
AfterFill(o) == IF venue[o] = "closing" THEN 0 ELSE position + Signed(o)

VenueFills(o) ==
  /\ Live(o) /\ CanFill(o)
  /\ venue' = [venue EXCEPT ![o] = "filled"]
  /\ position' = AfterFill(o)
  /\ UNCHANGED <<listing, logVars, pushing, task, read, events, doubted>>

(* It is cancelled, or expires, or the venue will not have it after all. *)
VenueDrops(o, end) ==
  /\ Live(o) /\ end \in {"cancelled", "rejected"}
  /\ venue' = [venue EXCEPT ![o] = end]
  /\ IF end = "rejected" THEN Event ELSE UNCHANGED events
  /\ UNCHANGED <<position, listing, logVars, pushing, task, read, doubted>>

(* The owner places an order at the exchange, or moves the asset. *)
ExternalOrder(o) ==
  /\ venue[o] = "none"
  /\ venue' = [venue EXCEPT ![o] = "live"]
  /\ UNCHANGED <<position, listing, logVars, pushing, task, read, events, doubted>>

ExternalTransfer ==
  /\ Event
  /\ position' \in {position + 1} \cup (IF position > 0 THEN {position - 1} ELSE {})
  /\ UNCHANGED <<venue, listing, logVars, pushing, task, read, doubted>>

-----------------------------------------------------------------------------
(* A PUSH: each operation reaches the venue, the log learns of them at the   *)
(* end.                                                                      *)

(* What becomes of an order the venue takes, and what mapOrderStatus makes   *)
(* of its answer: 'Inactive' is 'rejected', also for an order that is only   *)
(* suspended and works again later.                                          *)
Answer == {"submitted", "filled", "rejected", "inactive"}
Outcome(answer, working) == IF answer \in {"submitted", "inactive"} THEN working ELSE answer
MappedStatus(answer)     == IF answer = "inactive" THEN "rejected" ELSE answer
Doubt(o, more) == doubted' = doubted \cup (IF more THEN {o} ELSE {})

PushPlaces(o, answer) ==
  /\ venue[o] = "none"
  /\ answer = "filled" => CanFill(o)
  /\ venue' = [venue EXCEPT ![o] = Outcome(answer, "live")]
  /\ position' = IF answer = "filled" THEN AfterFill(o) ELSE position
  /\ pushing' = Append(pushing, Row("placeOrder", o, MappedStatus(answer), 0))
  /\ Doubt(o, answer = "inactive")
  /\ IF answer \in {"inactive","rejected"} THEN Event ELSE UNCHANGED events
  /\ UNCHANGED <<listing, logVars, task, read>>

(* Take-profit and stop-loss ride with their order and are born submitted. *)
PushPlacesBracket(o, leg) ==
  /\ o # leg /\ venue[o] = "none" /\ venue[leg] = "none"
  /\ venue' = [venue EXCEPT ![o] = "live", ![leg] = "live"]
  /\ pushing' = pushing \o <<Row("placeOrder", o, "submitted", 0),
                             Row("leg", leg, "submitted", 0)>>
  /\ UNCHANGED <<position, listing, logVars, task, read, events, doubted>>

PushModifies(o, answer) ==
  /\ Live(o) /\ o \in Known
  /\ Event
  /\ pushing' = Append(pushing, Row("modifyOrder", o, MappedStatus(answer), 0))
  /\ Doubt(o, answer = "inactive")
  /\ UNCHANGED <<venue, position, listing, logVars, task, read>>

(* The broker says 'Cancelled' of every cancel the venue takes; the order may *)
(* be gone, or still work and even fill before the cancel reaches it.        *)
PushCancels(o, gone) ==
  /\ Live(o) /\ o \in Known
  /\ Event
  /\ venue' = IF gone THEN [venue EXCEPT ![o] = "cancelled"] ELSE venue
  /\ Doubt(o, ~gone)
  /\ pushing' = Append(pushing, Row("cancelOrder", o, "cancelled", 0))
  /\ UNCHANGED <<position, listing, logVars, task, read>>

PushSettles ==
  /\ pushing # <<>>
  /\ AppendCommit(pushing)
  /\ pushing' = <<>>
  /\ UNCHANGED <<venue, position, listing, task, read, events, doubted>>

(* getGitState throws after the broker calls: nothing is recorded. *)
PushFails ==
  /\ pushing # <<>>
  /\ Event
  /\ pushing' = <<>>
  /\ UNCHANGED <<venue, position, listing, logVars, task, read, doubted>>

-----------------------------------------------------------------------------
(* THE POLLER, a pass at a time.  Every N-th pass observes external orders   *)
(* before it syncs: it lists what is open and drops what the log knows.  A   *)
(* pass that has nothing to observe, or has observed, or failed to, syncs.   *)

(* Mutant of Unknown: no observation while an order is pending. *)
WhenNothingPends == IF Pending = {} THEN Listed \ Known ELSE {}

Unknown == Listed \ Known

ObserveTick ==
  /\ task[Poller] = Idle /\ listing /\ Unknown # {}
  /\ Goto(Poller, At("observed", Unknown, <<>>))
  /\ UNCHANGED <<venue, position, listing, logVars, pushing, read, events, doubted>>

(* recordObservedOrders, after the account state was read.  What the log has *)
(* learnt since the listing is not asked.                                    *)
ObserveRecord ==
  /\ task[Poller].pc = "observed"
  /\ AppendCommit(SetToSeq({Row("observeExternalOrder", o, "submitted", 0) :
                              o \in task[Poller].orders}))
  /\ Goto(Poller, Idle)
  /\ UNCHANGED <<venue, position, listing, pushing, read, events, doubted>>

ObserveFails ==
  /\ task[Poller].pc = "observed"
  /\ Event
  /\ Goto(Poller, Idle)
  /\ UNCHANGED <<venue, position, listing, logVars, pushing, read, doubted>>

(* sync() up to the listing: of the pending orders those that are not listed *)
(* as open, or, without a listing, those whose polling backoff is due.       *)
SyncBegin(t, candidates) ==
  /\ task[t].pc = "idle"
  /\ candidates \subseteq Pending
  /\ listing => candidates = Pending \ Listed
  /\ IF t = Poller THEN UNCHANGED events ELSE Event
  /\ Goto(t, IF candidates = {} THEN Idle ELSE At("confirm", candidates, <<>>))
  /\ UNCHANGED <<venue, position, listing, logVars, pushing, read, doubted>>

(* Mutant of Updates: an order that left the listing is taken to be done. *)
AbsenceIsEnd(o, odd) ==
  IF o \notin Order THEN <<>>
  ELSE <<Row("syncOrders", o, IF Terminal(o) THEN venue[o] ELSE "cancelled",
             IF venue[o] = "filled" THEN Signed(o) ELSE 0)>>

(* Mutant of Updates: an answer is recorded whatever status it carries. *)
RawStatus(o, odd) ==
  IF o \notin Order THEN <<>> ELSE <<Row("syncOrders", o, venue[o], 0)>>

(* What one getOrder adds: nothing for an order the venue does not know or    *)
(* calls Submitted or PreSubmitted; any status but these, Filled and          *)
(* Cancelled is 'rejected', also the odd ones of an order that still works    *)
(* (done for the day, suspended, a cancel or a submission under way).         *)
Updates(o, odd) ==
  IF o \notin Order THEN <<>>
  ELSE CASE venue[o] = "filled" -> <<Row("syncOrders", o, "filled", Signed(o))>>
         [] venue[o] \in {"cancelled", "rejected"} -> <<Row("syncOrders", o, venue[o], 0)>>
         [] OTHER -> IF odd THEN <<Row("syncOrders", o, "rejected", 0)>> ELSE <<>>

SyncConfirm(t, o, odd) ==
  LET rest    == task[t].orders \ {o}
      updates == task[t].updates \o Updates(o, odd)
  IN
  /\ task[t].pc = "confirm" /\ o \in task[t].orders
  /\ odd => o \in Order /\ Live(o)
  /\ Goto(t, IF rest # {} THEN At("confirm", rest, updates)
             ELSE IF updates = <<>> THEN Idle ELSE At("record", {}, updates))
  /\ Doubt(o, odd)
  /\ IF odd THEN Event ELSE UNCHANGED events
  /\ UNCHANGED <<venue, position, listing, logVars, pushing, read>>

(* git.sync, after the account state was read. *)
SyncRecord(t) ==
  /\ t \in Syncer /\ task[t].pc = "record"
  /\ AppendCommit(task[t].updates)
  /\ Goto(t, Idle)
  /\ UNCHANGED <<venue, position, listing, pushing, read, events, doubted>>

(* Mutant of AfterFailure: `running` is not reset when a pass throws. *)
StaysRunning(t) == Goto(t, At("confirm", {}, <<>>))

(* The poller's finally clause frees the next pass. *)
AfterFailure(t) == Goto(t, Idle)

SyncFails(t) ==
  /\ t \in Syncer /\ task[t].pc \in {"confirm", "record"}
  /\ IF t = Poller THEN Event ELSE UNCHANGED events
  /\ AfterFailure(t)
  /\ UNCHANGED <<venue, position, listing, logVars, pushing, read, doubted>>

-----------------------------------------------------------------------------
(* THE KILL SWITCH *)

(* emergencyCancelAllOpenOrders, its listing; without cancelOrders only the  *)
(* account is read.                                                          *)
StopBegin(cancelOrders) ==
  LET rows == IF cancelOrders THEN Listed \cup (IF IdlessRow THEN {Missing} ELSE {}) ELSE {} IN
  /\ task[Emergency] = Idle
  /\ cancelOrders => listing
  /\ Event
  /\ Goto(Emergency, At(IF rows = {} THEN "record" ELSE "cancel", rows, <<>>))
  /\ UNCHANGED <<venue, position, listing, logVars, pushing, read, doubted>>

(* Mutant of FailedCancel: an order that could not be cancelled is given up. *)
GivenUp(o) == Row("emergencyCancelOrder", o, "rejected", 0)

FailedCancel(o) == Row("emergencyCancelOrder", o, "submitted", 0)

(* One cancelOrder: the venue cancels, or only takes the request, or refuses  *)
(* because it is too late or for reasons of its own.  A row without an id    *)
(* cannot be cancelled.                                                      *)
StopCancels(o, answer) ==
  LET rest   == task[Emergency].orders \ {o}
      result == IF answer = "refused" THEN FailedCancel(o)
                ELSE Row("emergencyCancelOrder", o, "cancelled", 0)
  IN
  /\ task[Emergency].pc = "cancel" /\ o \in task[Emergency].orders
  /\ answer # "refused" => o \in Order /\ Live(o)
  /\ venue' = IF answer = "gone" THEN [venue EXCEPT ![o] = "cancelled"] ELSE venue
  /\ Doubt(o, answer = "taken")
  /\ Goto(Emergency, At(IF rest = {} THEN "record" ELSE "cancel", rest,
                        Append(task[Emergency].updates, result)))
  /\ UNCHANGED <<position, listing, logVars, pushing, read, events>>

(* flattenAllOpenPositions: what is held is closed by an order of its own,   *)
(* which the venue takes, with one of the answers, or refuses.               *)
Flatten(o, answer) ==
  /\ task[Emergency] = Idle
  /\ position > 0 /\ o \in Sell /\ venue[o] = "none"
  /\ Event
  /\ venue' = IF answer = "refused" THEN venue
              ELSE [venue EXCEPT ![o] = Outcome(answer, "closing")]
  /\ position' = IF answer = "filled" THEN 0 ELSE position
  /\ Doubt(o, answer = "inactive")
  /\ Goto(Emergency, At("record", {},
       <<IF answer = "refused" THEN Row("emergencyClosePosition", NoId, "rejected", 0)
         ELSE Row("emergencyClosePosition", o, MappedStatus(answer), 0)>>))
  /\ UNCHANGED <<listing, logVars, pushing, read>>

(* recordEmergencyStop, recordFlatten. *)
StopRecord ==
  /\ task[Emergency].pc = "record"
  /\ AppendCommit(task[Emergency].updates)
  /\ Goto(Emergency, Idle)
  /\ UNCHANGED <<venue, position, listing, pushing, read, events, doubted>>

StopFails ==
  /\ task[Emergency].pc = "record"
  /\ Goto(Emergency, Idle)
  /\ UNCHANGED <<venue, position, listing, logVars, pushing, read, events, doubted>>

-----------------------------------------------------------------------------
(* READING POSITIONS *)

ReadPositions(r) ==
  /\ read[r] = NoRead
  /\ read' = [read EXCEPT ![r] = position]
  /\ UNCHANGED <<venue, position, listing, logVars, pushing, task, events, doubted>>

(* Mutant of DriftToBook: drift is only ever booked upwards. *)
GainsOnly(quantity) == quantity > ProjectedQty /\ Pending = {}

(* _reconcileWalletPositions: the drift is booked unless a pending order may *)
(* explain it.  An asset that is all gone is in no position list.            *)
DriftToBook(quantity) == quantity > 0 /\ quantity # ProjectedQty /\ Pending = {}

Reconcile(r) ==
  /\ read[r] # NoRead
  /\ IF DriftToBook(read[r])
     THEN AppendCommit(<<Row("reconcileBalance", NoId, "filled", read[r] - ProjectedQty)>>)
     ELSE UNCHANGED logVars
  /\ read' = [read EXCEPT ![r] = NoRead]
  /\ UNCHANGED <<venue, position, listing, pushing, task, events, doubted>>

-----------------------------------------------------------------------------
(* The process dies; the log was written with every commit. *)
CrashRestart ==
  /\ Event
  /\ pushing' = <<>>
  /\ task' = [t \in Task |-> Idle]
  /\ read' = [r \in Reader |-> NoRead]
  /\ UNCHANGED <<venue, position, listing, logVars, doubted>>

SyncStep(t) ==
  \/ \E c \in SUBSET Pending : SyncBegin(t, c)
  \/ \E o \in task[t].orders, odd \in BOOLEAN : SyncConfirm(t, o, odd)
  \/ SyncRecord(t)

Next ==
  \/ \E o \in Order : VenueFills(o)
  \/ \E o \in Order, e \in {"cancelled", "rejected"} : VenueDrops(o, e)
  \/ \E o \in Order : ExternalOrder(o)
  \/ ExternalTransfer
  \/ \E o \in Order, a \in Answer : PushPlaces(o, a)
  \/ \E o \in Order, l \in Leg : PushPlacesBracket(o, l)
  \/ \E o \in Order, a \in {"submitted", "inactive"} : PushModifies(o, a)
  \/ \E o \in Order, b \in BOOLEAN : PushCancels(o, b)
  \/ PushSettles
  \/ PushFails
  \/ ObserveTick
  \/ ObserveRecord
  \/ ObserveFails
  \/ \E t \in Syncer : SyncStep(t)
  \/ \E t \in Syncer : SyncFails(t)
  \/ \E b \in BOOLEAN : StopBegin(b)
  \/ \E o \in task[Emergency].orders, a \in {"gone", "taken", "refused"} : StopCancels(o, a)
  \/ \E o \in Order, a \in Answer \cup {"refused"} : Flatten(o, a)
  \/ StopRecord
  \/ StopFails
  \/ \E r \in Reader : ReadPositions(r)
  \/ \E r \in Reader : Reconcile(r)
  \/ CrashRestart

Spec == Init /\ [][Next]_vars

(* The interval timer ticks and every N-th tick observes; what was begun     *)
(* ends, the venue answering or not.  An order whose backoff is not due is   *)
(* due later.  Positions are read again and again (the snapshot pump, the    *)
(* account page).                                                            *)
Fairness ==
  /\ SF_vars(ObserveTick) /\ WF_vars(ObserveRecord)
  /\ WF_vars(SyncStep(Poller)) /\ SF_vars(SyncBegin(Poller, Pending))
  /\ SF_vars(SyncBegin(Poller, Pending \ Listed))
  /\ WF_vars(PushSettles) /\ WF_vars(StopRecord)
  /\ WF_vars(\E o \in task[Emergency].orders, a \in {"gone", "taken", "refused"} :
                                                                 StopCancels(o, a))
  /\ \A r \in Reader : SF_vars(ReadPositions(r)) /\ WF_vars(Reconcile(r))

FairSpec == Spec /\ Fairness

-----------------------------------------------------------------------------
(* PROPERTIES *)

(* Absence from a listing is never trusted (UnifiedTradingAccount.ts:1029):   *)
(* whatever syncs, observations, pushes and emergency stops overlap, the log *)
(* calls an order filled, cancelled or rejected only when the venue does, or *)
(* had taken a cancel for it or called it by an odd status; a fill on file is*)
(* always a fill.                                                            *)
TerminalIsConfirmed ==
  \A o \in Order : status[o] \in {"filled", "cancelled", "rejected"} =>
    venue[o] = status[o] \/ (o \in doubted /\ status[o] # "filled")

(* Nothing but the order's end, or such an answer of the venue, takes it off  *)
(* the list of those that are polled: not a cancellation that fails, not an  *)
(* older row recorded late.                                                  *)
LeavesPendingOnlyWhenDone ==
  [][\A o \in Pending \cap Order :
       (o \in Pending \/ Terminal(o) \/ (o \in doubted /\ status[o] # "filled"))']_vars

(* Overlapping syncs put the same fill on record more than once; the cost    *)
(* basis counts it once.  Without sales, what the replay holds besides       *)
(* reconciliations is the number of orders with a fill on record.            *)
Bought == Only(fills, {r \in ToSet(fills) : r.orderId \in Order \ Sell})
FillsCountedOnce ==
  Replay(Bought, origins) = Cardinality({r.orderId : r \in ToSet(Bought)} \cap origins)

(* The loop closes: an order on file whose end the venue has decided does    *)
(* not stay pending, though rows recorded late may make it pending again.    *)
PendingResolved == \A o \in Order : []<>(Terminal(o) => o \notin Pending)

(* An open order the log does not know, placed by the owner or by a push     *)
(* that was lost in a crash, is recorded while it is open.                   *)
ObservedEventually ==
  \A o \in Order \ Hidden : (listing /\ Live(o)) ~> (o \in Known \/ ~Live(o))

(* Once the venue is quiet, the cost basis holds what the venue holds, unless*)
(* an order is still pending or nothing is left: doubled and missed fills    *)
(* and reads that came back late are all corrected.                          *)
ResidualsReconciled ==
  <>[](position = 0 \/ Pending # {} \/ ProjectedQty = position)

=============================================================================
