--------------------------- MODULE OrderSyncProofs ---------------------------
(***************************************************************************)
(* What TLAPS proves of OrderSync, for any orders, callers of sync and     *)
(* readers, any bound on the events: the log calls an order filled or      *)
(* cancelled only when the venue does, an order leaves the list of those   *)
(* that are polled only when it is done, everything keeps its type, and the*)
(* cost basis counts every fill once.                                      *)
(*                                                                         *)
(* Two arguments.  What a push, a sync or an emergency stop has gathered   *)
(* and not yet recorded stays true while the venue moves on, because an    *)
(* order that ended stays ended (SyncInv).  And every row that waits or is *)
(* on file fits: execution data on a bought order is one unit and comes    *)
(* from a sync (WaitsFit, LogFits), so that the replay, row by row, holds  *)
(* as many units as it has counted orders; what a sync records again adds  *)
(* nothing to it, and a reconciliation brings it to what was read.         *)
(***************************************************************************)
EXTENDS OrderSync, SubsequencesProofs, FiniteSetTheorems, TLAPS

Id         == Order \cup {Missing}
VenueState == {"none", "live", "closing", "filled", "cancelled", "rejected"}
Ended      == {"filled", "cancelled", "rejected"}

(* The ends the log may give: those the venue decided or spoke of.            *)
Allowed == {end \in Order \X Ended :
              venue[end[1]] = end[2] \/ (end[1] \in doubted /\ end[2] # "filled")}

(* A result is true when it leaves its order open or gives an allowed end.   *)
RowIsTrue(allowed, r) ==
  r.orderId \in Order => r.status = "submitted" \/ <<r.orderId, r.status>> \in allowed
RowsAreTrue(allowed, rows) == \A i \in 1..Len(rows) : RowIsTrue(allowed, rows[i])

Shape ==
  /\ venue \in [Order -> VenueState]
  /\ DOMAIN status = Id
  /\ pushing \in Seq(OperationResult)
  /\ task \in [Task -> TaskState]

SyncInv ==
  /\ Shape
  /\ RowsAreTrue(Allowed, pushing)
  /\ \A t \in Task : RowsAreTrue(Allowed, task[t].updates)
  /\ TerminalIsConfirmed

(* No order that was pending is off the list, unless it is done, or the venue *)
(* spoke of it as if it were.                                                *)
LeavesWhenDone ==
  \A o \in Order : status[o] = "submitted" =>
    \/ status'[o] = "submitted"
    \/ venue'[o] \in Ended
    \/ o \in doubted' /\ status'[o] # "filled"

LEMMA Ids == /\ Missing \notin Order /\ NoId \notin Order /\ Missing # NoId
             /\ IsFiniteSet(Order)
BY OrderAssumption

-----------------------------------------------------------------------------
(* COMMITS *)

(* The result that decides for an id is one that names it. *)
LEMMA Decides ==
  ASSUME NEW results, Len(results) \in Nat, DOMAIN results = 1..Len(results),
         NEW id \in DOMAIN status
  PROVE  \/ StatusAfter(results)[id] = status[id]
         \/ \E i \in 1..Len(results) :
              results[i].orderId = id /\ StatusAfter(results)[id] = results[i].status
<1> DEFINE naming == {i \in 1..Len(results) : results[i].orderId = id}
<1>1. CASE naming = {}
  BY <1>1 DEF StatusAfter
<1>2. CASE naming # {}
  <2>1. Min(naming) \in naming
    <3>1. naming \in SUBSET Nat
      OBVIOUS
    <3>2. QED
      BY <1>2, <3>1, SmallestIndex
  <2>2. StatusAfter(results)[id] = results[Min(naming)].status
    BY <1>2, Zenon DEF StatusAfter, SelectInSeq
  <2>3. QED
    BY <2>1, <2>2
<1>3. QED
  BY <1>1, <1>2

(* What a commit of true rows does to one order. *)
LEMMA CommitIsTrue ==
  ASSUME SyncInv, NEW results, Len(results) \in Nat, DOMAIN results = 1..Len(results),
         RowsAreTrue(Allowed, results), AppendCommit(results), UNCHANGED <<venue, doubted>>
  PROVE  /\ DOMAIN status' = Id
         /\ TerminalIsConfirmed'
         /\ LeavesWhenDone
<1>1. status' = StatusAfter(results) /\ DOMAIN status = Id
  BY DEF AppendCommit, SyncInv, Shape
<1>2. DOMAIN StatusAfter(results) = DOMAIN status
  BY Zenon DEF StatusAfter
<1>3. ASSUME NEW o \in Order
      PROVE  \/ status'[o] = status[o]
             \/ status'[o] = "submitted"
             \/ <<o, status'[o]>> \in Allowed
  <2>1. o \in DOMAIN status
    BY <1>1 DEF Id
  <2>2. CASE StatusAfter(results)[o] = status[o]
    BY <1>1, <2>2
  <2>3. ASSUME NEW i \in 1..Len(results), results[i].orderId = o,
               StatusAfter(results)[o] = results[i].status
        PROVE  status'[o] = "submitted" \/ <<o, status'[o]>> \in Allowed
    BY <1>1, <2>3 DEF RowsAreTrue, RowIsTrue
  <2>4. QED
    BY <2>1, <2>2, <2>3, Decides
<1>4. ASSUME NEW o \in Order, <<o, status'[o]>> \in Allowed
      PROVE  /\ venue'[o] = status'[o] \/ (o \in doubted' /\ status'[o] # "filled")
             /\ status'[o] \in Ended
  BY <1>4 DEF Allowed
<1>5. TerminalIsConfirmed'
  BY <1>3, <1>4 DEF SyncInv, TerminalIsConfirmed
<1>6. LeavesWhenDone
  BY <1>3, <1>4 DEF LeavesWhenDone
<1>7. QED
  BY <1>1, <1>2, <1>5, <1>6

(* The rows of an observation. *)
LEMMA ListOfRows ==
  ASSUME NEW S, IsFiniteSet(S)
  PROVE  /\ Len(SetToSeq(S)) \in Nat /\ DOMAIN SetToSeq(S) = 1..Len(SetToSeq(S))
         /\ \A i \in 1..Len(SetToSeq(S)) : SetToSeq(S)[i] \in S
         /\ SetToSeq(S) \in Seq(S)
<1> DEFINE n == Cardinality(S)
           lists == [1..n -> S]
<1>1. n \in Nat /\ ExistsBijection(1..n, S)
  BY FS_CardinalityType
<1>2. \E f \in lists : IsInjective(f)
  BY <1>1, Zenon DEF ExistsBijection, Bijection, Injection
<1>3. SetToSeq(S) \in lists
  BY <1>2, Zenon DEF SetToSeq
<1> HIDE DEF n
<1>4. SetToSeq(S) \in Seq(S) /\ Len(SetToSeq(S)) = n
  BY <1>1, <1>3
<1>5. QED
  BY <1>1, <1>3, <1>4

-----------------------------------------------------------------------------
(* ROWS THAT WAIT *)

(* An order that ended stays ended, and what was said of it stays said. *)
EndsLast == Allowed \subseteq Allowed'

LEMMA RowsStayTrue ==
  ASSUME EndsLast, NEW rows, RowsAreTrue(Allowed, rows)
  PROVE  RowsAreTrue(Allowed', rows)
BY DEF EndsLast, RowsAreTrue, RowIsTrue

LEMMA JoinedRows ==
  ASSUME NEW v, NEW rows \in Seq(OperationResult), NEW more \in Seq(OperationResult),
         RowsAreTrue(v, rows), RowsAreTrue(v, more)
  PROVE  rows \o more \in Seq(OperationResult) /\ RowsAreTrue(v, rows \o more)
<1>1. rows \o more \in Seq(OperationResult) /\ Len(rows \o more) = Len(rows) + Len(more)
  OBVIOUS
<1>2. \A i \in 1..Len(rows \o more) : RowIsTrue(v, (rows \o more)[i])
  <2> SUFFICES ASSUME NEW i \in 1..Len(rows \o more) PROVE RowIsTrue(v, (rows \o more)[i])
    OBVIOUS
  <2>1. CASE i <= Len(rows)
    <3>1. (rows \o more)[i] = rows[i] /\ i \in 1..Len(rows)
      BY <1>1, <2>1
    <3>2. QED
      BY <3>1 DEF RowsAreTrue
  <2>2. CASE i > Len(rows)
    <3>1. (rows \o more)[i] = more[i - Len(rows)] /\ i - Len(rows) \in 1..Len(more)
      BY <1>1, <2>2
    <3>2. QED
      BY <3>1 DEF RowsAreTrue
  <2>3. QED
    BY <2>1, <2>2
<1>3. QED
  BY <1>1, <1>2 DEF RowsAreTrue

LEMMA OneRow ==
  ASSUME NEW v, NEW r \in OperationResult, RowIsTrue(v, r)
  PROVE  <<r>> \in Seq(OperationResult) /\ RowsAreTrue(v, <<r>>)
BY DEF RowsAreTrue

LEMMA NoRows ==
  <<>> \in Seq(OperationResult) /\ \A v : RowsAreTrue(v, <<>>)
BY DEF RowsAreTrue

LEMMA OneMoreRow ==
  ASSUME NEW v, NEW rows \in Seq(OperationResult), NEW r \in OperationResult,
         RowsAreTrue(v, rows), RowIsTrue(v, r)
  PROVE  Append(rows, r) \in Seq(OperationResult) /\ RowsAreTrue(v, Append(rows, r))
<1>1. Append(rows, r) \in Seq(OperationResult) /\ Len(Append(rows, r)) = Len(rows) + 1
  OBVIOUS
<1>2. \A i \in 1..Len(Append(rows, r)) :
        Append(rows, r)[i] = IF i <= Len(rows) THEN rows[i] ELSE r
  BY <1>1
<1>3. QED
  BY <1>1, <1>2 DEF RowsAreTrue

-----------------------------------------------------------------------------
(* STEPS *)

(* What waits to be recorded after a step. *)
WaitsTrue ==
  /\ pushing' \in Seq(OperationResult) /\ RowsAreTrue(Allowed', pushing')
  /\ task' \in [Task -> TaskState]
  /\ \A t \in Task : RowsAreTrue(Allowed', task'[t].updates)

LEMMA VenueStep ==
  ASSUME SyncInv, EndsLast, venue' \in [Order -> VenueState], status' = status, WaitsTrue
  PROVE  SyncInv' /\ LeavesWhenDone
<1>1. TerminalIsConfirmed'
  <2>1. \A o \in Order : status[o] \in Ended => <<o, status[o]>> \in Allowed
    BY DEF SyncInv, TerminalIsConfirmed, Allowed, Ended
  <2>2. \A o \in Order : status'[o] \in Ended => <<o, status'[o]>> \in Allowed'
    BY <2>1 DEF EndsLast
  <2>3. QED
    BY <2>2 DEF TerminalIsConfirmed, Allowed, Ended
<1>2. QED
  BY <1>1 DEF SyncInv, Shape, WaitsTrue, LeavesWhenDone

LEMMA CommitStep ==
  ASSUME SyncInv, UNCHANGED <<venue, doubted>>, NEW results, AppendCommit(results),
         Len(results) \in Nat, DOMAIN results = 1..Len(results), RowsAreTrue(Allowed, results), WaitsTrue
  PROVE  SyncInv' /\ LeavesWhenDone
<1>1. DOMAIN status' = Id /\ TerminalIsConfirmed' /\ LeavesWhenDone
  BY CommitIsTrue
<1>2. QED
  BY <1>1 DEF SyncInv, Shape, WaitsTrue

LEMMA SameVenue ==
  ASSUME SyncInv, venue' = venue, doubted \subseteq doubted'
  PROVE  EndsLast /\ venue' \in [Order -> VenueState]
BY DEF EndsLast, Allowed, SyncInv, Shape

(* An order that has not ended may come to any state. *)
LEMMA OneOrderMoves ==
  ASSUME SyncInv, NEW o \in Order, NEW state \in VenueState,
         venue[o] \notin Ended, venue' = [venue EXCEPT ![o] = state], doubted \subseteq doubted'
  PROVE  EndsLast /\ venue' \in [Order -> VenueState] /\ venue'[o] = state
<1>1. venue' \in [Order -> VenueState] /\ \A p \in Order : venue[p] \in Ended => venue'[p] = venue[p]
  BY DEF SyncInv, Shape
<1>2. \A p \in Order, end \in Ended : venue[p] = end => venue'[p] = end
  BY <1>1
<1>3. Allowed \subseteq Allowed'
  BY <1>2 DEF Allowed
<1>4. QED
  BY <1>1, <1>3 DEF EndsLast, SyncInv, Shape

LEMMA OthersKeep ==
  ASSUME SyncInv, EndsLast
  PROVE  /\ RowsAreTrue(Allowed', pushing)
         /\ \A t \in Task : RowsAreTrue(Allowed', task[t].updates)
         /\ pushing \in Seq(OperationResult) /\ task \in [Task -> TaskState]
BY RowsStayTrue DEF SyncInv, Shape

LEMMA GotoKeeps ==
  ASSUME SyncInv, EndsLast, NEW t \in Task, NEW next \in TaskState,
         RowsAreTrue(Allowed', next.updates), Goto(t, next)
  PROVE  /\ task' \in [Task -> TaskState]
         /\ \A u \in Task : RowsAreTrue(Allowed', task'[u].updates)
BY OthersKeep DEF Goto

LEMMA IdleIsState ==
  Idle \in TaskState /\ \A v : RowsAreTrue(v, Idle.updates)
BY NoRows DEF Idle, At, TaskState

LEMMA TaskShape ==
  ASSUME SyncInv, NEW t \in Task
  PROVE  /\ task[t] \in TaskState
         /\ task[t].orders \subseteq Id /\ task[t].updates \in Seq(OperationResult)
         /\ RowsAreTrue(Allowed, task[t].updates)
         /\ Len(task[t].updates) \in Nat
         /\ DOMAIN task[t].updates = 1..Len(task[t].updates)
<1>1. task[t] \in TaskState /\ RowsAreTrue(Allowed, task[t].updates)
  BY DEF SyncInv, Shape
<1>2. task[t].orders \subseteq Id /\ task[t].updates \in Seq(OperationResult)
  BY <1>1 DEF TaskState, Id
<1>3. QED
  BY <1>1, <1>2

LEMMA AtIsState ==
  ASSUME NEW pc \in {"idle", "observed", "confirm", "cancel", "record"},
         NEW orders \in SUBSET Id, NEW updates \in Seq(OperationResult)
  PROVE  At(pc, orders, updates) \in TaskState /\ At(pc, orders, updates).updates = updates
BY DEF At, TaskState, Id

LEMMA AtWithoutRows ==
  ASSUME NEW pc, pc \in {"idle", "observed", "confirm", "cancel", "record"},
         NEW orders \in SUBSET Id
  PROVE  At(pc, orders, <<>>) \in TaskState /\ At(pc, orders, <<>>).updates = <<>>
BY NoRows, AtIsState

LEMMA RowType ==
  ASSUME NEW action \in Action, NEW id \in Id \cup {NoId},
         NEW st \in {"submitted", "filled", "cancelled", "rejected"}, NEW qty \in Int
  PROVE  Row(action, id, st, qty) \in OperationResult
BY DEF Row, OperationResult, Id

-----------------------------------------------------------------------------
(* THE ACTIONS *)

Kept == SyncInv' /\ LeavesWhenDone

LEMMA StutterKeeps ==
  ASSUME SyncInv, UNCHANGED <<venue, status, pushing, task, doubted>>
  PROVE  Kept
<1>1. WaitsTrue
  BY SameVenue, OthersKeep DEF WaitsTrue
<1>2. QED
  BY <1>1, SameVenue, VenueStep DEF Kept

(* A step of the venue or its owner on one order. *)
LEMMA VenueMoves ==
  ASSUME SyncInv, NEW o \in Order, NEW state \in VenueState, venue[o] \notin Ended,
         venue' = [venue EXCEPT ![o] = state], UNCHANGED <<status, pushing, task, doubted>>
  PROVE  Kept
<1>1. EndsLast /\ venue' \in [Order -> VenueState]
  BY OneOrderMoves
<1>2. WaitsTrue
  BY <1>1, OthersKeep DEF WaitsTrue
<1>3. QED
  BY <1>1, <1>2, VenueStep DEF Kept

LEMMA VenueActions ==
  ASSUME SyncInv, NEW o \in Order,
         \/ VenueFills(o) \/ ExternalOrder(o)
         \/ \E e \in {"cancelled", "rejected"} : VenueDrops(o, e)
  PROVE  Kept
<1>1. venue[o] \notin Ended
  BY DEF VenueFills, VenueDrops, ExternalOrder, Live, Ended
<1>2. /\ UNCHANGED <<status, pushing, task, doubted>>
      /\ \E state \in VenueState : venue' = [venue EXCEPT ![o] = state]
  BY DEF VenueFills, VenueDrops, ExternalOrder, logVars, VenueState
<1>3. QED
  BY <1>1, <1>2, VenueMoves

(* A push that learnt of more results. *)
LEMMA PushLearns ==
  ASSUME SyncInv, EndsLast, venue' \in [Order -> VenueState], UNCHANGED <<status, task>>,
         NEW more \in Seq(OperationResult), RowsAreTrue(Allowed', more), pushing' = pushing \o more
  PROVE  Kept
<1>1. pushing \in Seq(OperationResult) /\ RowsAreTrue(Allowed', pushing)
  BY OthersKeep
<1>2. pushing' \in Seq(OperationResult) /\ RowsAreTrue(Allowed', pushing')
  BY <1>1, JoinedRows
<1>3. WaitsTrue
  BY <1>2, OthersKeep DEF WaitsTrue
<1>4. QED
  BY <1>3, VenueStep DEF Kept

LEMMA AppendIsJoin ==
  ASSUME NEW rows \in Seq(OperationResult), NEW r \in OperationResult
  PROVE  Append(rows, r) = rows \o <<r>>
OBVIOUS

LEMMA StatusIsMapped ==
  \A answer \in Answer : MappedStatus(answer) \in {"submitted", "filled", "cancelled", "rejected"}
BY DEF MappedStatus, Answer

(* What the venue answers of an order it takes is true of it from then on. *)
LEMMA AnswerIsTrue ==
  ASSUME SyncInv, NEW o \in Order, NEW answer \in Answer, NEW working \in {"live", "closing"},
         NEW action \in Action, venue[o] = "none",
         venue' = [venue EXCEPT ![o] = Outcome(answer, working)], Doubt(o, answer = "inactive")
  PROVE  /\ EndsLast /\ venue' \in [Order -> VenueState]
         /\ Row(action, o, MappedStatus(answer), 0) \in OperationResult
         /\ RowIsTrue(Allowed', Row(action, o, MappedStatus(answer), 0))
<1> DEFINE state == Outcome(answer, working)
<1>1. venue[o] \notin Ended /\ state \in VenueState /\ doubted \subseteq doubted'
  BY DEF Ended, VenueState, Outcome, Answer, Doubt
<1>2. EndsLast /\ venue' \in [Order -> VenueState] /\ venue'[o] = state
  BY <1>1, OneOrderMoves
<1>3. MappedStatus(answer) \in {"submitted", "filled", "cancelled", "rejected"}
  BY StatusIsMapped
<1>4. Row(action, o, MappedStatus(answer), 0) \in OperationResult
  BY <1>3, RowType DEF Id
<1>5. MappedStatus(answer) # "submitted" => <<o, MappedStatus(answer)>> \in Allowed'
  BY <1>2 DEF Allowed, Ended, Outcome, MappedStatus, Answer, Doubt
<1>6. QED
  BY <1>2, <1>4, <1>5 DEF RowIsTrue, Row

LEMMA PushPlacesKeeps ==
  ASSUME SyncInv, NEW o \in Order, NEW a \in Answer, PushPlaces(o, a)
  PROVE  Kept
<1> DEFINE r == Row("placeOrder", o, MappedStatus(a), 0)
<1>1. /\ venue[o] = "none" /\ venue' = [venue EXCEPT ![o] = Outcome(a, "live")]
      /\ Doubt(o, a = "inactive") /\ UNCHANGED <<status, task>>
      /\ "live" \in {"live", "closing"} /\ "placeOrder" \in Action
  BY DEF PushPlaces, logVars, Action
<1>2. /\ EndsLast /\ venue' \in [Order -> VenueState]
      /\ r \in OperationResult /\ RowIsTrue(Allowed', r)
  BY <1>1, AnswerIsTrue
<1>3. pushing' = pushing \o <<r>>
  BY <1>2, AppendIsJoin DEF PushPlaces, SyncInv, Shape
<1>4. QED
  BY <1>1, <1>2, <1>3, OneRow, PushLearns

LEMMA PushPlacesBracketKeeps ==
  ASSUME SyncInv, NEW o \in Order, NEW leg \in Leg, PushPlacesBracket(o, leg)
  PROVE  Kept
<1> DEFINE r == Row("placeOrder", o, "submitted", 0)
           q == Row("leg", leg, "submitted", 0)
<1>1. leg \in Order
  BY OrderAssumption
<1>2. EndsLast /\ venue' \in [Order -> VenueState]
  <2>1. /\ venue' \in [Order -> VenueState] /\ doubted' = doubted
        /\ \A p \in Order : venue[p] \in Ended => venue'[p] = venue[p]
    BY <1>1 DEF PushPlacesBracket, SyncInv, Shape, VenueState, Ended
  <2>2. \A p \in Order, end \in Ended : venue[p] = end => venue'[p] = end
    BY <2>1
  <2>3. QED
    BY <2>1, <2>2 DEF EndsLast, Allowed
<1>3. r \in OperationResult /\ q \in OperationResult
  BY <1>1, RowType DEF Action, Id
<1>4. <<r, q>> \in Seq(OperationResult)
  BY <1>3
<1>5. RowsAreTrue(Allowed', <<r, q>>)
  BY DEF RowsAreTrue, RowIsTrue, Row
<1>6. pushing' = pushing \o <<r, q>> /\ UNCHANGED <<status, task>>
  BY DEF PushPlacesBracket, logVars
<1>7. QED
  BY <1>2, <1>4, <1>5, <1>6, PushLearns

LEMMA PushModifiesKeeps ==
  ASSUME SyncInv, NEW o \in Order, NEW a \in {"submitted", "inactive"}, PushModifies(o, a)
  PROVE  Kept
<1> DEFINE r == Row("modifyOrder", o, MappedStatus(a), 0)
<1>1. EndsLast /\ venue' \in [Order -> VenueState]
  BY SameVenue DEF PushModifies, Doubt
<1>2. r \in OperationResult
  <2>1. MappedStatus(a) \in {"submitted", "filled", "cancelled", "rejected"}
    BY StatusIsMapped DEF Answer
  <2>2. QED
    BY <2>1, RowType DEF Action, Id
<1>3. RowIsTrue(Allowed', r)
  BY DEF RowIsTrue, Row, MappedStatus, PushModifies, Doubt, Allowed, Ended
<1>4. pushing' = pushing \o <<r>> /\ UNCHANGED <<status, task>>
  BY <1>2, AppendIsJoin DEF PushModifies, logVars, SyncInv, Shape
<1>5. QED
  BY <1>1, <1>2, <1>3, <1>4, OneRow, PushLearns

(* A cancel, whether the order is gone or the venue only took the request. *)
LEMMA CancelIsTrue ==
  ASSUME SyncInv, NEW o \in Order, NEW gone \in BOOLEAN, NEW r, Live(o), Doubt(o, ~gone),
         venue' = IF gone THEN [venue EXCEPT ![o] = "cancelled"] ELSE venue,
         r.orderId = o, r.status = "cancelled"
  PROVE  EndsLast /\ venue' \in [Order -> VenueState] /\ RowIsTrue(Allowed', r)
<1>1. venue[o] \notin Ended /\ "cancelled" \in VenueState /\ doubted \subseteq doubted'
  BY DEF Live, Ended, VenueState, Doubt
<1>2. CASE gone
  <2>1. EndsLast /\ venue' \in [Order -> VenueState] /\ venue'[o] = "cancelled"
    BY <1>1, <1>2, OneOrderMoves
  <2>2. QED
    BY <2>1 DEF RowIsTrue, Allowed, Ended
<1>3. CASE ~gone
  BY <1>1, <1>3, SameVenue DEF RowIsTrue, Allowed, Ended, Doubt
<1>4. QED
  BY <1>2, <1>3

LEMMA PushCancelsKeeps ==
  ASSUME SyncInv, NEW o \in Order, NEW gone \in BOOLEAN, PushCancels(o, gone)
  PROVE  Kept
<1> DEFINE r == Row("cancelOrder", o, "cancelled", 0)
<1>1. r \in OperationResult /\ r.orderId = o /\ r.status = "cancelled"
  BY RowType DEF Action, Id, Row
<1>2. EndsLast /\ venue' \in [Order -> VenueState] /\ RowIsTrue(Allowed', r)
  <2> HIDE DEF r
  <2>1. QED
    BY <1>1, CancelIsTrue DEF PushCancels
<1>3. pushing' = pushing \o <<r>> /\ UNCHANGED <<status, task>>
  BY <1>1, AppendIsJoin DEF PushCancels, logVars, SyncInv, Shape
<1>4. QED
  BY <1>1, <1>2, <1>3, OneRow, PushLearns

LEMMA PushSettlesKeeps ==
  ASSUME SyncInv, PushSettles
  PROVE  Kept
<1>1. /\ AppendCommit(pushing) /\ pushing' = <<>> /\ UNCHANGED <<venue, doubted, task>>
      /\ RowsAreTrue(Allowed, pushing)
      /\ Len(pushing) \in Nat /\ DOMAIN pushing = 1..Len(pushing)
  BY DEF PushSettles, SyncInv, Shape
<1>2. WaitsTrue
  BY <1>1, SameVenue, OthersKeep, NoRows DEF WaitsTrue
<1>3. QED
  BY <1>1, <1>2, CommitStep DEF Kept

LEMMA PushFailsKeeps ==
  ASSUME SyncInv, PushFails
  PROVE  Kept
<1>1. UNCHANGED <<venue, status, task, doubted>> /\ pushing' = <<>>
  BY DEF PushFails, logVars
<1>2. WaitsTrue
  BY <1>1, SameVenue, OthersKeep, NoRows DEF WaitsTrue
<1>3. QED
  BY <1>1, <1>2, SameVenue, VenueStep DEF Kept

-----------------------------------------------------------------------------
(* An activity goes on and leaves the log alone, or records what it has. *)
LEMMA TaskMoves ==
  ASSUME SyncInv, EndsLast, venue' \in [Order -> VenueState], UNCHANGED <<status, pushing>>,
         NEW t \in Task, NEW next \in TaskState, RowsAreTrue(Allowed', next.updates), Goto(t, next)
  PROVE  Kept
<1>1. WaitsTrue
  BY OthersKeep, GotoKeeps DEF WaitsTrue
<1>2. QED
  BY <1>1, VenueStep DEF Kept

LEMMA TaskRecords ==
  ASSUME SyncInv, NEW t \in Task, AppendCommit(task[t].updates), Goto(t, Idle),
         UNCHANGED <<venue, pushing, doubted>>
  PROVE  Kept
<1>1. EndsLast
  BY SameVenue
<1>2. WaitsTrue
  BY <1>1, OthersKeep, GotoKeeps, IdleIsState DEF WaitsTrue
<1>3. QED
  BY <1>2, TaskShape, CommitStep DEF Kept

LEMMA TaskIsDropped ==
  ASSUME SyncInv, NEW t \in Task, Goto(t, Idle), UNCHANGED <<venue, status, pushing, doubted>>
  PROVE  Kept
BY SameVenue, IdleIsState, TaskMoves

LEMMA Tasks == Poller \in Task /\ Emergency \in Task /\ Syncer \subseteq Task
BY DEF Task, Syncer

LEMMA ObserveTickKeeps ==
  ASSUME SyncInv, ObserveTick
  PROVE  Kept
<1>1. UNCHANGED <<venue, status, pushing, doubted>>
  BY DEF ObserveTick, logVars
<1>2. PICK orders \in SUBSET Id : Goto(Poller, At("observed", orders, <<>>))
  BY DEF ObserveTick, Unknown, Listed, Id
<1>3. At("observed", orders, <<>>) \in TaskState /\ At("observed", orders, <<>>).updates = <<>>
  BY AtWithoutRows
<1>4. QED
  BY <1>1, <1>2, <1>3, NoRows, SameVenue, Tasks, TaskMoves

LEMMA ObserveRecordKeeps ==
  ASSUME SyncInv, ObserveRecord
  PROVE  Kept
<1> DEFINE S == {Row("observeExternalOrder", o, "submitted", 0) : o \in task[Poller].orders}
           f == [o \in task[Poller].orders |-> Row("observeExternalOrder", o, "submitted", 0)]
<1>1. /\ AppendCommit(SetToSeq(S)) /\ Goto(Poller, Idle)
      /\ UNCHANGED <<venue, pushing, doubted>>
  BY DEF ObserveRecord
<1>2. IsFiniteSet(S)
  <2>1. IsFiniteSet(Id)
    BY Ids, FS_AddElement DEF Id
  <2>2. IsFiniteSet(task[Poller].orders)
    BY <2>1, TaskShape, Tasks, FS_Subset
  <2>3. f \in Surjection(task[Poller].orders, S)
    BY Zenon DEF Surjection
  <2>4. QED
    BY <2>2, <2>3, FS_Surjection
<1>3. RowsAreTrue(Allowed, SetToSeq(S))
  <2>1. \A r \in S : RowIsTrue(Allowed, r)
    BY DEF RowIsTrue, Row
  <2>2. QED
    BY <1>2, <2>1, ListOfRows DEF RowsAreTrue
<1>4. WaitsTrue
  BY <1>1, IdleIsState, SameVenue, OthersKeep, GotoKeeps, Tasks DEF WaitsTrue
<1> HIDE DEF S
<1>5. QED
  BY <1>1, <1>2, <1>3, <1>4, ListOfRows, CommitStep DEF Kept

LEMMA ObserveFailsKeeps ==
  ASSUME SyncInv, ObserveFails
  PROVE  Kept
<1>1. UNCHANGED <<venue, status, pushing, doubted>> /\ Goto(Poller, Idle)
  BY DEF ObserveFails, logVars
<1>2. QED
  BY <1>1, Tasks, TaskIsDropped

LEMMA SyncBeginKeeps ==
  ASSUME SyncInv, NEW t \in Syncer, NEW candidates \in SUBSET Pending, SyncBegin(t, candidates)
  PROVE  Kept
<1>1. UNCHANGED <<venue, status, pushing, doubted>>
  BY DEF SyncBegin, logVars
<1>2. candidates \in SUBSET Id
  BY DEF Pending, Id
<1>3. CASE Goto(t, Idle)
  BY <1>1, <1>3, Tasks, TaskIsDropped
<1>4. CASE Goto(t, At("confirm", candidates, <<>>))
  <2>1. /\ At("confirm", candidates, <<>>) \in TaskState
        /\ At("confirm", candidates, <<>>).updates = <<>>
    BY <1>2, AtIsState, NoRows
  <2>2. QED
    BY <1>1, <1>4, <2>1, NoRows, SameVenue, Tasks, TaskMoves
<1>5. QED
  BY <1>3, <1>4 DEF SyncBegin

(* What a syncer is answered is true of the venue from then on. *)
LEMMA UpdatesAreTrue ==
  ASSUME SyncInv, NEW o, NEW odd \in BOOLEAN, odd => o \in Order,
         venue' = venue, Doubt(o, odd)
  PROVE  Updates(o, odd) \in Seq(OperationResult) /\ RowsAreTrue(Allowed', Updates(o, odd))
<1>1. CASE o \notin Order
  BY <1>1, NoRows DEF Updates
<1>2. CASE o \in Order
  <2> DEFINE r(st, qty) == Row("syncOrders", o, st, qty)
  <2>1. /\ r("filled", Signed(o)) \in OperationResult
        /\ r("cancelled", 0) \in OperationResult /\ r("rejected", 0) \in OperationResult
    BY <1>2, RowType DEF Action, Id, Signed
  <2>2. CASE venue[o] = "filled"
    <3>1. RowIsTrue(Allowed', r("filled", Signed(o)))
      BY <2>2 DEF RowIsTrue, Row, Allowed, Ended
    <3>2. QED
      BY <1>2, <2>1, <2>2, <3>1, OneRow DEF Updates
  <2>3. CASE venue[o] = "cancelled"
    <3>1. RowIsTrue(Allowed', r("cancelled", 0))
      BY <2>3 DEF RowIsTrue, Row, Allowed, Ended
    <3>2. QED
      BY <1>2, <2>1, <2>3, <3>1, OneRow DEF Updates
  <2>4. CASE venue[o] = "rejected"
    <3>1. RowIsTrue(Allowed', r("rejected", 0))
      BY <2>4 DEF RowIsTrue, Row, Allowed, Ended
    <3>2. QED
      BY <1>2, <2>1, <2>4, <3>1, OneRow DEF Updates
  <2>5. CASE venue[o] \notin {"filled", "cancelled", "rejected"} /\ odd
    <3>1. RowIsTrue(Allowed', r("rejected", 0))
      BY <2>5 DEF RowIsTrue, Row, Allowed, Ended, Doubt
    <3>2. QED
      BY <1>2, <2>1, <2>5, <3>1, OneRow DEF Updates
  <2>6. CASE venue[o] \notin {"filled", "cancelled", "rejected"} /\ ~odd
    BY <1>2, <2>6, NoRows DEF Updates
  <2>7. QED
    BY <2>2, <2>3, <2>4, <2>5, <2>6
<1>3. QED
  BY <1>1, <1>2

LEMMA SyncConfirmKeeps ==
  ASSUME SyncInv, NEW t \in Syncer, NEW o, NEW odd \in BOOLEAN, SyncConfirm(t, o, odd)
  PROVE  Kept
<1> DEFINE rest == task[t].orders \ {o}
           updates == task[t].updates \o Updates(o, odd)
<1>1. /\ UNCHANGED <<venue, status, pushing>> /\ Doubt(o, odd)
      /\ odd => o \in Order
  BY DEF SyncConfirm, logVars
<1>2. rest \in SUBSET Id /\ t \in Task
  BY Tasks, TaskShape
<1>3. EndsLast /\ venue' \in [Order -> VenueState]
  BY <1>1, SameVenue DEF Doubt
<1>4. updates \in Seq(OperationResult) /\ RowsAreTrue(Allowed', updates)
  <2>1. task[t].updates \in Seq(OperationResult) /\ RowsAreTrue(Allowed', task[t].updates)
    BY <1>2, <1>3, TaskShape, OthersKeep
  <2>2. Updates(o, odd) \in Seq(OperationResult) /\ RowsAreTrue(Allowed', Updates(o, odd))
    BY <1>1, UpdatesAreTrue
  <2>3. QED
    BY <2>1, <2>2, JoinedRows
<1>5. \/ Goto(t, At("confirm", rest, updates)) \/ Goto(t, Idle)
      \/ Goto(t, At("record", {}, updates))
  BY Zenon DEF SyncConfirm
<1> HIDE DEF rest, updates
<1>6. /\ At("confirm", rest, updates) \in TaskState /\ At("confirm", rest, updates).updates = updates
      /\ At("record", {}, updates) \in TaskState /\ At("record", {}, updates).updates = updates
  BY <1>2, <1>4, AtIsState
<1>7. CASE Goto(t, At("confirm", rest, updates))
  BY <1>1, <1>2, <1>3, <1>4, <1>6, <1>7, TaskMoves
<1>8. CASE Goto(t, Idle)
  BY <1>1, <1>2, <1>3, <1>8, IdleIsState, TaskMoves
<1>9. CASE Goto(t, At("record", {}, updates))
  BY <1>1, <1>2, <1>3, <1>4, <1>6, <1>9, TaskMoves
<1>10. QED
  BY <1>5, <1>7, <1>8, <1>9

LEMMA SyncEnds ==
  ASSUME SyncInv, NEW t \in Syncer, SyncRecord(t) \/ SyncFails(t)
  PROVE  Kept
<1>1. CASE SyncRecord(t)
  BY <1>1, Tasks, TaskRecords DEF SyncRecord
<1>2. CASE SyncFails(t)
  <2>1. UNCHANGED <<venue, status, pushing, doubted>> /\ Goto(t, Idle)
    BY <1>2 DEF SyncFails, AfterFailure, logVars
  <2>2. QED
    BY <2>1, Tasks, TaskIsDropped
<1>3. QED
  BY <1>1, <1>2

-----------------------------------------------------------------------------
LEMMA StopBeginKeeps ==
  ASSUME SyncInv, NEW b \in BOOLEAN, StopBegin(b)
  PROVE  Kept
<1> DEFINE rows == IF b THEN Listed \cup (IF IdlessRow THEN {Missing} ELSE {}) ELSE {}
<1>1. UNCHANGED <<venue, status, pushing, doubted>>
  BY DEF StopBegin, logVars
<1>2. rows \in SUBSET Id
  BY DEF Listed, Id
<1>3. PICK pc \in {"record", "cancel"} : Goto(Emergency, At(pc, rows, <<>>))
  BY DEF StopBegin
<1>4. At(pc, rows, <<>>) \in TaskState /\ At(pc, rows, <<>>).updates = <<>>
  <2> HIDE DEF rows
  <2>1. pc \in {"idle", "observed", "confirm", "cancel", "record"}
    OBVIOUS
  <2>2. QED
    BY <1>2, <2>1, AtWithoutRows
<1>5. QED
  BY <1>1, <1>3, <1>4, NoRows, SameVenue, Tasks, TaskMoves

LEMMA StopCancelsKeeps ==
  ASSUME SyncInv, NEW o \in task[Emergency].orders, NEW a \in {"gone", "taken", "refused"},
         StopCancels(o, a)
  PROVE  Kept
<1> DEFINE result == IF a = "refused" THEN FailedCancel(o)
                     ELSE Row("emergencyCancelOrder", o, "cancelled", 0)
           rest == task[Emergency].orders \ {o}
           updates == Append(task[Emergency].updates, result)
<1>1. UNCHANGED <<status, pushing>>
  BY DEF StopCancels, logVars
<1>2. o \in Id /\ rest \in SUBSET Id /\ task[Emergency].updates \in Seq(OperationResult)
  BY Tasks, TaskShape
<1>3. result \in OperationResult
  BY <1>2, RowType DEF Action, FailedCancel
<1>4. EndsLast /\ venue' \in [Order -> VenueState] /\ RowIsTrue(Allowed', result)
  <2>1. CASE a = "refused"
    <3>1. venue' = venue /\ doubted \subseteq doubted'
      BY <2>1 DEF StopCancels, Doubt
    <3>2. QED
      BY <2>1, <3>1, SameVenue DEF RowIsTrue, Row, FailedCancel
  <2>2. CASE a # "refused"
    <3> DEFINE gone == a = "gone"
    <3>1. /\ o \in Order /\ Live(o) /\ gone \in BOOLEAN
          /\ venue' = IF gone THEN [venue EXCEPT ![o] = "cancelled"] ELSE venue
      BY <2>2 DEF StopCancels
    <3>2. Doubt(o, ~gone)
      BY <2>2 DEF StopCancels, Doubt
    <3>3. result.orderId = o /\ result.status = "cancelled"
      BY <2>2 DEF Row
    <3> HIDE DEF gone, result
    <3>4. QED
      BY <3>1, <3>2, <3>3, CancelIsTrue
  <2>3. QED
    BY <2>1, <2>2
<1>5. updates \in Seq(OperationResult) /\ RowsAreTrue(Allowed', updates)
  <2>1. RowsAreTrue(Allowed', task[Emergency].updates)
    BY <1>4, Tasks, OthersKeep
  <2> HIDE DEF result
  <2>2. QED
    BY <1>2, <1>3, <1>4, <2>1, OneMoreRow
<1>6. PICK pc \in {"record", "cancel"} : Goto(Emergency, At(pc, rest, updates))
  BY DEF StopCancels
<1> HIDE DEF rest, updates
<1>7. At(pc, rest, updates) \in TaskState /\ At(pc, rest, updates).updates = updates
  BY <1>2, <1>5, AtIsState
<1>8. QED
  BY <1>1, <1>4, <1>5, <1>6, <1>7, Tasks, TaskMoves

LEMMA FlattenKeeps ==
  ASSUME SyncInv, NEW o \in Order, NEW a \in Answer \cup {"refused"}, Flatten(o, a)
  PROVE  Kept
<1> DEFINE r == IF a = "refused" THEN Row("emergencyClosePosition", NoId, "rejected", 0)
                ELSE Row("emergencyClosePosition", o, MappedStatus(a), 0)
           next == At("record", {}, <<r>>)
<1>1. UNCHANGED <<status, pushing>> /\ Goto(Emergency, next)
  BY DEF Flatten, logVars
<1>2. /\ EndsLast /\ venue' \in [Order -> VenueState]
      /\ r \in OperationResult /\ RowIsTrue(Allowed', r)
  <2>1. CASE a = "refused"
    <3>1. venue' = venue /\ doubted \subseteq doubted'
      BY <2>1 DEF Flatten, Doubt
    <3>2. r \in OperationResult
      BY <2>1, RowType DEF Action
    <3>3. QED
      BY <2>1, <3>1, <3>2, SameVenue, Ids DEF RowIsTrue, Row
  <2>2. CASE a # "refused"
    <3>1. /\ a \in Answer /\ venue[o] = "none" /\ Doubt(o, a = "inactive")
          /\ venue' = [venue EXCEPT ![o] = Outcome(a, "closing")]
          /\ "closing" \in {"live", "closing"} /\ "emergencyClosePosition" \in Action
      BY <2>2 DEF Flatten, Action
    <3>2. QED
      BY <2>2, <3>1, AnswerIsTrue
  <2>3. QED
    BY <2>1, <2>2
<1> HIDE DEF r
<1>3. <<r>> \in Seq(OperationResult) /\ RowsAreTrue(Allowed', <<r>>)
  BY <1>2, OneRow
<1>4. next \in TaskState /\ next.updates = <<r>>
  BY <1>3, AtIsState
<1> HIDE DEF next
<1>5. QED
  BY <1>1, <1>2, <1>3, <1>4, Tasks, TaskMoves

LEMMA StopEnds ==
  ASSUME SyncInv, StopRecord \/ StopFails
  PROVE  Kept
<1>1. CASE StopRecord
  BY <1>1, Tasks, TaskRecords DEF StopRecord
<1>2. CASE StopFails
  BY <1>2, Tasks, TaskIsDropped DEF StopFails, logVars
<1>3. QED
  BY <1>1, <1>2

LEMMA ReconcileKeeps ==
  ASSUME SyncInv, NEW r \in Reader, Reconcile(r)
  PROVE  Kept
<1> DEFINE row == Row("reconcileBalance", NoId, "filled", read[r] - ProjectedQty)
<1>1. UNCHANGED <<venue, pushing, task, doubted>> /\ (AppendCommit(<<row>>) \/ UNCHANGED logVars)
  BY DEF Reconcile
<1>2. CASE AppendCommit(<<row>>)
  <2>1. RowsAreTrue(Allowed, <<row>>)
    BY Ids DEF RowsAreTrue, RowIsTrue, Row
  <2>2. WaitsTrue
    BY <1>1, SameVenue, OthersKeep DEF WaitsTrue
  <2> HIDE DEF row
  <2>3. Len(<<row>>) \in Nat /\ DOMAIN <<row>> = 1..Len(<<row>>)
    OBVIOUS
  <2>4. QED
    BY <1>1, <1>2, <2>1, <2>2, <2>3, CommitStep DEF Kept
<1>3. CASE UNCHANGED logVars
  BY <1>1, <1>3, StutterKeeps DEF logVars
<1>4. QED
  BY <1>1, <1>2, <1>3

LEMMA CrashKeeps ==
  ASSUME SyncInv, CrashRestart
  PROVE  Kept
<1>1. UNCHANGED <<venue, status, doubted>> /\ pushing' = <<>> /\ task' = [t \in Task |-> Idle]
  BY DEF CrashRestart, logVars
<1>2. WaitsTrue
  BY <1>1, NoRows, IdleIsState DEF WaitsTrue
<1>3. QED
  BY <1>1, <1>2, SameVenue, VenueStep DEF Kept

-----------------------------------------------------------------------------
LEMMA InitHolds == Init => SyncInv
<1> SUFFICES ASSUME Init PROVE SyncInv
  OBVIOUS
<1>1. Shape
  BY NoRows, IdleIsState DEF Init, Shape, Id, VenueState
<1>2. TerminalIsConfirmed
  BY DEF Init, TerminalIsConfirmed
<1>3. QED
  BY <1>1, <1>2, NoRows, IdleIsState DEF Init, SyncInv

LEMMA NextKeeps == SyncInv /\ [Next]_vars => Kept
<1> SUFFICES ASSUME SyncInv, [Next]_vars PROVE Kept
  OBVIOUS
<1>1. CASE UNCHANGED vars
  BY <1>1, StutterKeeps DEF vars, logVars
<1>2. CASE \E o \in Order : \/ VenueFills(o) \/ ExternalOrder(o)
                            \/ \E e \in {"cancelled", "rejected"} : VenueDrops(o, e)
  BY <1>2, VenueActions
<1>3. CASE ExternalTransfer \/ \E r \in Reader : ReadPositions(r)
  BY <1>3, StutterKeeps DEF ExternalTransfer, ReadPositions, logVars
<1>4. CASE \E o \in Order, a \in Answer : PushPlaces(o, a)
  BY <1>4, PushPlacesKeeps
<1>5. CASE \E o \in Order, l \in Leg : PushPlacesBracket(o, l)
  BY <1>5, PushPlacesBracketKeeps
<1>6. CASE \E o \in Order : \/ \E a \in {"submitted", "inactive"} : PushModifies(o, a)
                            \/ \E b \in BOOLEAN : PushCancels(o, b)
  BY <1>6, PushModifiesKeeps, PushCancelsKeeps
<1>7. CASE PushSettles \/ PushFails
  BY <1>7, PushSettlesKeeps, PushFailsKeeps
<1>8. CASE ObserveTick \/ ObserveRecord \/ ObserveFails
  BY <1>8, ObserveTickKeeps, ObserveRecordKeeps, ObserveFailsKeeps
<1>9. CASE \E t \in Syncer : SyncStep(t) \/ SyncFails(t)
  BY <1>9, SyncBeginKeeps, SyncConfirmKeeps, SyncEnds DEF SyncStep
<1>10. CASE \E b \in BOOLEAN : StopBegin(b)
  BY <1>10, StopBeginKeeps
<1>11. CASE \E o \in task[Emergency].orders, a \in {"gone", "taken", "refused"} : StopCancels(o, a)
  BY <1>11, StopCancelsKeeps
<1>12. CASE \E o \in Order, a \in Answer \cup {"refused"} : Flatten(o, a)
  BY <1>12, FlattenKeeps
<1>13. CASE StopRecord \/ StopFails \/ CrashRestart
  BY <1>13, StopEnds, CrashKeeps
<1>14. CASE \E r \in Reader : Reconcile(r)
  BY <1>14, ReconcileKeeps
<1>15. QED
  BY <1>1, <1>2, <1>3, <1>4, <1>5, <1>6, <1>7, <1>8, <1>9, <1>10, <1>11, <1>12, <1>13, <1>14
  DEF Next

(* What the log calls filled the venue calls filled, and what it calls       *)
(* cancelled or rejected the venue calls the same or has spoken of as such,  *)
(* with or without a listing and however syncs, pushes and stops overlap.    *)
THEOREM EndsAreConfirmed == Spec => []TerminalIsConfirmed
<1>1. SyncInv /\ [Next]_vars => SyncInv'
  BY NextKeeps DEF Kept
<1>2. SyncInv => TerminalIsConfirmed
  BY DEF SyncInv
<1>3. QED
  BY <1>1, <1>2, InitHolds, PTL DEF Spec

(* An order that is polled is polled until the venue says how it ended, or   *)
(* says more than is so: a cancel it only took, a status sync does not know. *)
THEOREM PolledUntilDone == Spec => LeavesPendingOnlyWhenDone
<1>1. SyncInv /\ [Next]_vars => SyncInv'
  BY NextKeeps DEF Kept
<1>2. SyncInv /\ [Next]_vars =>
        [\A o \in Pending \cap Order :
           (o \in Pending \/ Terminal(o) \/ (o \in doubted /\ status[o] # "filled"))']_vars
  <2> SUFFICES ASSUME SyncInv, [Next]_vars, NEW o \in Pending \cap Order
               PROVE  (o \in Pending \/ Terminal(o) \/ (o \in doubted /\ status[o] # "filled"))'
    OBVIOUS
  <2>1. status[o] = "submitted" /\ DOMAIN status' = Id /\ LeavesWhenDone
    BY NextKeeps DEF Kept, Pending, SyncInv, Shape
  <2>2. QED
    BY <2>1 DEF LeavesWhenDone, Pending, Terminal, Ended
<1>3. QED
  BY <1>1, <1>2, InitHolds, PTL DEF Spec, LeavesPendingOnlyWhenDone

-----------------------------------------------------------------------------
(* TYPES AND EXECUTION DATA *)

(* What is known of a row wherever it is: a placeOrder or an observation     *)
(* names an order of the venue, and only a sync puts execution data on an    *)
(* order that buys, the whole unit.                                          *)
RowFits(r) ==
  /\ r.action \in {"placeOrder", "observeExternalOrder"} => r.orderId \in Order
  /\ r.orderId \in Order \ Sell /\ r.qty # 0 => r.qty = 1 /\ r.action # "reconcileBalance"
Fitting == {r \in OperationResult : RowFits(r)}
Filling == {r \in Fitting : r.qty # 0}

LogFits ==
  /\ status \in [Id -> {"unknown", "submitted", "filled", "cancelled", "rejected"}]
  /\ origins \subseteq Order
  /\ fills \in Seq(Filling)

(* The rows that wait, and the listing an observation works on. *)
WaitsFit ==
  /\ pushing \in Seq(Fitting)
  /\ \A t \in Task : task[t].updates \in Seq(Fitting)
  /\ task[Poller].pc = "observed" => task[Poller].orders \subseteq Order

Scalars ==
  /\ position \in Nat /\ listing \in BOOLEAN
  /\ read \in [Reader -> Nat \cup {NoRead}]
  /\ events \in 0..MaxEvents
  /\ doubted \subseteq Order

OrdersInv == SyncInv /\ LogFits /\ WaitsFit /\ Scalars

LEMMA OrdersTypes == OrdersInv => OrdersTypeOK
<1> SUFFICES ASSUME OrdersInv PROVE OrdersTypeOK
  OBVIOUS
<1>1. fills \in Seq(OperationResult)
  <2>1. fills \in Seq(Filling) /\ Filling \subseteq OperationResult
    BY DEF OrdersInv, LogFits, Filling, Fitting
  <2>2. QED
    BY <2>1, SeqWidens
<1>2. status \in [Order \cup {Missing} -> {"unknown", "submitted", "filled", "cancelled", "rejected"}]
  BY DEF OrdersInv, LogFits, Id
<1>3. QED
  BY <1>1, <1>2 DEF OrdersTypeOK, OrdersInv, LogFits, Scalars, SyncInv, Shape, VenueState

(* A commit of rows that fit. *)
LEMMA StatusType ==
  ASSUME NEW S, status \in [Id -> S], NEW results \in Seq(OperationResult),
         {"submitted", "filled", "cancelled", "rejected"} \subseteq S
  PROVE  StatusAfter(results) \in [Id -> S]
<1>1. DOMAIN status = Id /\ Len(results) \in Nat /\ DOMAIN results = 1..Len(results)
  OBVIOUS
<1>2. ASSUME NEW id \in Id PROVE StatusAfter(results)[id] \in S
  <2>1. CASE StatusAfter(results)[id] = status[id]
    BY <2>1
  <2>2. ASSUME NEW i \in 1..Len(results), StatusAfter(results)[id] = results[i].status
        PROVE  StatusAfter(results)[id] \in S
    <3>1. results[i] \in OperationResult
      OBVIOUS
    <3>2. results[i].status \in {"submitted", "filled", "cancelled", "rejected"}
      BY <3>1 DEF OperationResult
    <3>3. QED
      BY <2>2, <3>2
  <2>3. QED
    BY <1>1, <2>1, <2>2, Decides
<1>3. StatusAfter(results) = [id \in Id |-> StatusAfter(results)[id]]
  BY <1>1, Zenon DEF StatusAfter
<1>4. QED
  BY <1>2, <1>3

LEMMA CommitFits ==
  ASSUME LogFits, NEW results \in Seq(Fitting), AppendCommit(results)
  PROVE  LogFits'
<1>1. results \in Seq(OperationResult)
  BY SeqWidens DEF Fitting
<1>2. status' \in [Id -> {"unknown", "submitted", "filled", "cancelled", "rejected"}]
  <2>1. status \in [Id -> {"unknown", "submitted", "filled", "cancelled", "rejected"}]
    BY DEF LogFits
  <2>2. StatusAfter(results) \in [Id -> {"unknown", "submitted", "filled", "cancelled", "rejected"}]
    BY <1>1, <2>1, StatusType
  <2>3. QED
    BY <2>2 DEF AppendCommit
<1>3. origins' \subseteq Order
  <2>1. ToSet(results) \subseteq Fitting
    BY ElementsTyped
  <2>2. \A r \in ToSet(results) :
          r.action \in {"placeOrder", "observeExternalOrder"} => r.orderId \in Order
    BY <2>1 DEF Fitting, RowFits
  <2>3. origins \subseteq Order
    BY DEF LogFits
  <2>4. QED
    BY <2>2, <2>3 DEF AppendCommit
<1>4. fills' \in Seq(Filling)
  <2> DEFINE new == Only(results, {r \in ToSet(results) : r.qty # 0})
  <2>1. new \in Seq(Fitting) /\ ToSet(new) = ToSet(results) \cap {r \in ToSet(results) : r.qty # 0}
    BY OnlyElements
  <2>2. ToSet(new) \subseteq Filling
    <3>1. ToSet(results) \subseteq Fitting
      BY ElementsTyped
    <3> HIDE DEF new
    <3>2. QED
      BY <2>1, <3>1 DEF Filling
  <2>3. fills' = fills \o new /\ fills \in Seq(Filling)
    BY DEF AppendCommit, LogFits
  <2> HIDE DEF new
  <2>4. new \in Seq(Filling)
    BY <2>1, <2>2, SeqNarrows
  <2>5. QED
    BY <2>3, <2>4, ConcatOf
<1>5. QED
  BY <1>2, <1>3, <1>4 DEF LogFits

-----------------------------------------------------------------------------
(* ONE ROW *)

LEMMA RowWithoutExecution ==
  ASSUME NEW action \in Action, NEW id \in Id \cup {NoId},
         NEW st \in {"submitted", "filled", "cancelled", "rejected"},
         action \in {"placeOrder", "observeExternalOrder"} => id \in Order
  PROVE  Row(action, id, st, 0) \in Fitting
<1>1. Row(action, id, st, 0) \in OperationResult
  BY RowType
<1>2. RowFits(Row(action, id, st, 0))
  BY DEF RowFits, Row
<1>3. QED
  BY <1>1, <1>2 DEF Fitting

LEMMA RowsOfUpdates ==
  ASSUME NEW o, NEW odd \in BOOLEAN
  PROVE  Updates(o, odd) \in Seq(Fitting)
<1>1. CASE o \notin Order
  BY <1>1 DEF Updates
<1>2. CASE o \in Order
  <2> DEFINE r == Row("syncOrders", o, "filled", Signed(o))
             q == Row("syncOrders", o, "cancelled", 0)
             x == Row("syncOrders", o, "rejected", 0)
  <2>1. q \in Fitting /\ x \in Fitting
    BY <1>2, RowWithoutExecution DEF Action, Id
  <2>2. r \in Fitting
    <3>1. r \in OperationResult
      BY <1>2, RowType DEF Action, Id, Signed
    <3>2. RowFits(r)
      BY DEF RowFits, Row, Signed
    <3>3. QED
      BY <3>1, <3>2 DEF Fitting
  <2>3. Updates(o, odd) \in {<<r>>, <<q>>, <<x>>, <<>>}
    BY <1>2 DEF Updates
  <2> HIDE DEF r, q, x
  <2>4. <<r>> \in Seq(Fitting) /\ <<q>> \in Seq(Fitting) /\ <<x>> \in Seq(Fitting)
        /\ <<>> \in Seq(Fitting)
    <3> HIDE DEF Fitting
    <3>1. QED
      BY <2>1, <2>2
  <2>5. QED
    BY <2>3, <2>4
<1>3. QED
  BY <1>1, <1>2

LEMMA RowOfReconciliation ==
  ASSUME NEW qty \in Int
  PROVE  Row("reconcileBalance", NoId, "filled", qty) \in Fitting
<1>1. Row("reconcileBalance", NoId, "filled", qty) \in OperationResult
  BY RowType DEF Action
<1>2. RowFits(Row("reconcileBalance", NoId, "filled", qty))
  BY Ids DEF RowFits, Row
<1>3. QED
  BY <1>1, <1>2 DEF Fitting

(* The rows of an observation are of orders, as its listing was. *)
LEMMA RowsOfObservation ==
  ASSUME SyncInv, WaitsFit, task[Poller].pc = "observed"
  PROVE  SetToSeq({Row("observeExternalOrder", o, "submitted", 0) : o \in task[Poller].orders})
           \in Seq(Fitting)
<1> DEFINE S == {Row("observeExternalOrder", o, "submitted", 0) : o \in task[Poller].orders}
           f == [o \in task[Poller].orders |-> Row("observeExternalOrder", o, "submitted", 0)]
<1>1. task[Poller].orders \subseteq Order
  BY DEF WaitsFit
<1>2. IsFiniteSet(S)
  <2>1. IsFiniteSet(task[Poller].orders)
    BY <1>1, Ids, FS_Subset
  <2>2. f \in Surjection(task[Poller].orders, S)
    BY Zenon DEF Surjection
  <2>3. QED
    BY <2>1, <2>2, FS_Surjection
<1>3. S \subseteq Fitting
  <2>1. ASSUME NEW o \in task[Poller].orders
        PROVE  Row("observeExternalOrder", o, "submitted", 0) \in Fitting
    <3>1. o \in Order
      BY <1>1
    <3>2. QED
      BY <3>1, RowWithoutExecution DEF Action, Id
  <2>2. QED
    BY <2>1
<1> HIDE DEF S
<1>4. SetToSeq(S) \in Seq(S)
  BY <1>2, ListOfRows
<1>5. SetToSeq(S) \in Seq(Fitting)
  BY <1>3, <1>4, SeqWidens
<1>6. QED
  BY <1>5 DEF S

-----------------------------------------------------------------------------
(* THE REPLAY *)

Basis == [held : Nat, counted : SUBSET Order]

Replays(rows, known, acc) ==
  acc = [n \in 0..Len(rows) |->
           IF n = 0 THEN [held |-> 0, counted |-> {}] ELSE ApplyFill(known, acc[n - 1], rows[n])]

LEMMA ApplyFillType ==
  ASSUME NEW known \in SUBSET Order, NEW acc \in Basis, NEW r \in OperationResult
  PROVE  ApplyFill(known, acc, r) \in Basis
<1>1. acc.held \in Nat /\ acc.counted \subseteq Order /\ r.qty \in Int
  BY DEF Basis, OperationResult
<1>2. Traded(r.qty, acc.held) \in Nat
  BY <1>1 DEF Traded
<1>3. [acc EXCEPT !.held = Traded(r.qty, @)] \in Basis
  BY <1>2 DEF Basis
<1>4. r.orderId \in known => acc.counted \cup {r.orderId} \in SUBSET Order
  BY <1>1
<1>5. r.orderId \in known =>
        [held |-> Traded(r.qty, acc.held), counted |-> acc.counted \cup {r.orderId}] \in Basis
  BY <1>2, <1>4 DEF Basis
<1>6. QED
  BY <1>3, <1>5, Zenon DEF ApplyFill

LEMMA ReplayExists ==
  ASSUME NEW known \in SUBSET Order, NEW rows \in Seq(OperationResult)
  PROVE  \E acc : Replays(rows, known, acc)
<1> DEFINE N == Len(rows)
           base == [held |-> 0, counted |-> {}]
           step == [n \in 1..N |-> [acc \in Basis |-> ApplyFill(known, acc, rows[n])]]
<1>1. N \in Nat /\ base \in Basis
  BY DEF Basis
<1>2. step \in [1..N -> [Basis -> Basis]]
  <2>1. \A n \in 1..N : \A acc \in Basis : ApplyFill(known, acc, rows[n]) \in Basis
    <3>1. \A n \in 1..N : rows[n] \in OperationResult
      OBVIOUS
    <3>2. QED
      BY <3>1, ApplyFillType
  <2>2. QED
    BY <2>1
<1>3. PICK f \in [0..N -> Basis] : f[0] = base /\ \A n \in 1..N : f[n] = step[n][f[n - 1]]
  <2> HIDE DEF step, N, base
  <2>1. \E f : Iterates(f, N, Basis, base, step)
    BY <1>1, <1>2, Iteration
  <2>2. QED
    BY <2>1 DEF Iterates
<1>4. \A n \in 1..N : f[n] = ApplyFill(known, f[n - 1], rows[n])
  <2> SUFFICES ASSUME NEW n \in 1..N PROVE f[n] = ApplyFill(known, f[n - 1], rows[n])
    OBVIOUS
  <2>1. f[n - 1] \in Basis
    <3>1. n - 1 \in 0..N
      BY <1>1
    <3>2. QED
      BY <3>1
  <2> HIDE DEF N, base
  <2>2. QED
    BY <1>3, <2>1
<1>5. \A n \in 0..N : f[n] = IF n = 0 THEN base ELSE ApplyFill(known, f[n - 1], rows[n])
  <2> SUFFICES ASSUME NEW n \in 0..N
               PROVE  f[n] = IF n = 0 THEN base ELSE ApplyFill(known, f[n - 1], rows[n])
    OBVIOUS
  <2>1. n = 0 \/ n \in 1..N
    BY <1>1
  <2> HIDE DEF step, N, base
  <2>2. QED
    BY <1>3, <1>4, <2>1
<1>6. Replays(rows, known, f)
  BY <1>3, <1>5 DEF Replays
<1>7. QED
  BY <1>6

(* The replay of rows: its start, its steps, its type and what it gives. *)
LEMMA ReplayRuns ==
  ASSUME NEW known \in SUBSET Order, NEW rows \in Seq(OperationResult)
  PROVE  \E acc :
           /\ acc[0] = [held |-> 0, counted |-> {}]
           /\ \A n \in 1..Len(rows) : acc[n] = ApplyFill(known, acc[n - 1], rows[n])
           /\ \A n \in 0..Len(rows) : acc[n] \in Basis
           /\ Replay(rows, known) = acc[Len(rows)].held
<1> DEFINE acc == CHOOSE f : Replays(rows, known, f)
           N == Len(rows)
           P == {n \in 0..N : acc[n] \in Basis}
<1>1. Replays(rows, known, acc)
  <2>1. PICK f : Replays(rows, known, f)
    BY ReplayExists
  <2>2. QED
    BY <2>1, Zenon
<1>2. Replay(rows, known) = acc[Len(rows)].held
  BY Zenon DEF Replay, Replays
<1> HIDE DEF acc
<1>3. N \in Nat
  OBVIOUS
<1>4. acc[0] = [held |-> 0, counted |-> {}]
  BY <1>1, <1>3 DEF Replays
<1>5. ASSUME NEW n \in 1..N PROVE acc[n] = ApplyFill(known, acc[n - 1], rows[n])
  <2>1. n \in 0..Len(rows) /\ n # 0
    BY <1>3
  <2> HIDE DEF N
  <2>2. QED
    BY <1>1, <2>1, Zenon DEF Replays
<1>6. 0..N \subseteq P
  <2>1. 0 \in P
    BY <1>3, <1>4 DEF Basis
  <2>2. ASSUME NEW n \in 1..N, n - 1 \in P PROVE n \in P
    <3>1. rows[n] \in OperationResult /\ acc[n - 1] \in Basis /\ n \in 0..N
      BY <1>3, <2>2
    <3>2. acc[n] \in Basis
      BY <1>5, <3>1, ApplyFillType
    <3>3. QED
      BY <3>1, <3>2
  <2> HIDE DEF P
  <2>3. QED
    BY <1>3, <2>1, <2>2, SegmentInduction
<1>7. QED
  BY <1>2, <1>4, <1>5, <1>6

LEMMA ReplayType ==
  ASSUME NEW known \in SUBSET Order, NEW rows \in Seq(OperationResult)
  PROVE  Replay(rows, known) \in Nat
<1>1. PICK acc : /\ \A n \in 0..Len(rows) : acc[n] \in Basis
                 /\ Replay(rows, known) = acc[Len(rows)].held
  BY ReplayRuns
<1>2. Len(rows) \in 0..Len(rows)
  OBVIOUS
<1>3. acc[Len(rows)] \in Basis
  BY <1>1, <1>2
<1>4. QED
  BY <1>1, <1>3 DEF Basis

(* Rows of whole units bought count once per order the log knows. *)
Buying == {r \in OperationResult :
             /\ r.orderId \in Order \ Sell
             /\ r.qty = 1 /\ r.action # "reconcileBalance"}

LEMMA ReplayCounts ==
  ASSUME NEW known \in SUBSET Order, NEW rows \in Seq(Buying)
  PROVE  Replay(rows, known) = Cardinality({r.orderId : r \in ToSet(rows)} \cap known)
<1>1. rows \in Seq(OperationResult)
  BY SeqWidens DEF Buying
<1>2. PICK acc :
        /\ acc[0] = [held |-> 0, counted |-> {}]
        /\ \A n \in 1..Len(rows) : acc[n] = ApplyFill(known, acc[n - 1], rows[n])
        /\ \A n \in 0..Len(rows) : acc[n] \in Basis
        /\ Replay(rows, known) = acc[Len(rows)].held
  BY <1>1, ReplayRuns
<1> DEFINE N == Len(rows)
           Upto(n) == {rows[i].orderId : i \in 1..n} \cap known
           P == {n \in 0..N : /\ acc[n].counted = Upto(n)
                              /\ acc[n].held = Cardinality(acc[n].counted)}
<1>3. N \in Nat
  OBVIOUS
<1>4. 0 \in P
  <2>1. acc[0].counted = {} /\ acc[0].held = 0
    BY <1>2
  <2>2. Upto(0) = {}
    OBVIOUS
  <2>3. Cardinality({}) = 0
    BY FS_EmptySet
  <2> HIDE DEF N, Upto
  <2>4. 0 \in 0..N
    BY <1>3
  <2>5. QED
    BY <2>1, <2>2, <2>3, <2>4
<1>5. ASSUME NEW n \in 1..N, n - 1 \in P PROVE n \in P
  <2>1. n \in 0..N /\ n - 1 \in 0..N
    BY <1>3
  <2> DEFINE id == rows[n].orderId
             before == acc[n - 1]
  <2>2. rows[n] \in Buying
    OBVIOUS
  <2>3. rows[n].qty = 1 /\ rows[n].action # "reconcileBalance"
    BY <2>2 DEF Buying
  <2>4. Upto(n) = Upto(n - 1) \cup ({id} \cap known)
    <3>1. 1..n = (1..n - 1) \cup {n}
      BY <1>3
    <3>2. {rows[i].orderId : i \in 1..n} = {rows[i].orderId : i \in 1..n - 1} \cup {id}
      BY <3>1
    <3>3. QED
      BY <3>2
  <2>5. before.counted = Upto(n - 1) /\ before.held = Cardinality(before.counted)
    BY <1>5
  <2>6. before.held \in Nat /\ IsFiniteSet(before.counted)
    <3>1. before \in Basis
      BY <1>2, <2>1
    <3>2. before.held \in Nat /\ before.counted \subseteq Order
      BY <3>1 DEF Basis
    <3>3. QED
      BY <3>2, Ids, FS_Subset
  <2>7. acc[n] = IF id \in known \ before.counted
                 THEN [held |-> Traded(1, before.held), counted |-> before.counted \cup {id}]
                 ELSE before
    BY <1>2, <2>3 DEF ApplyFill
  <2> HIDE DEF P, Upto, before, id, N
  <2>8. CASE id \in known \ before.counted
    <3>1. /\ acc[n].held = Traded(1, before.held)
          /\ acc[n].counted = before.counted \cup {id}
      BY <2>7, <2>8
    <3>2. Traded(1, before.held) = before.held + 1
      BY <2>6 DEF Traded
    <3>3. Cardinality(before.counted \cup {id}) = Cardinality(before.counted) + 1
      BY <2>6, <2>8, FS_AddElement
    <3>4. before.counted \cup {id} = Upto(n)
      BY <2>4, <2>5, <2>8
    <3>5. QED
      BY <2>1, <2>5, <3>1, <3>2, <3>3, <3>4 DEF P
  <2>9. CASE id \notin known \ before.counted
    <3>1. acc[n] = before
      BY <2>7, <2>9
    <3>2. Upto(n) = before.counted
      BY <2>4, <2>5, <2>9
    <3>3. QED
      BY <2>1, <2>5, <3>1, <3>2 DEF P
  <2>10. QED
    BY <2>8, <2>9
<1>6. N \in P
  <2> HIDE DEF P, N
  <2>1. 0..N \subseteq P
    BY <1>3, <1>4, <1>5, SegmentInduction
  <2>2. QED
    BY <1>3, <2>1
<1>7. {r.orderId : r \in ToSet(rows)} = {rows[i].orderId : i \in 1..N}
  BY DEF ToSet
<1>8. Upto(N) = {r.orderId : r \in ToSet(rows)} \cap known
  BY <1>7
<1>9. acc[N].held = Cardinality(Upto(N))
  BY <1>6
<1> HIDE DEF N, Upto
<1>10. QED
  BY <1>2, <1>8, <1>9 DEF N

LEMMA FillsAreCounted == LogFits => FillsCountedOnce
<1> SUFFICES ASSUME LogFits PROVE FillsCountedOnce
  OBVIOUS
<1>1. fills \in Seq(Filling) /\ origins \subseteq Order
  BY DEF LogFits
<1> DEFINE bought == {r \in ToSet(fills) : r.orderId \in Order \ Sell}
<1>2. Bought \in Seq(Filling) /\ ToSet(Bought) = ToSet(fills) \cap bought
  BY <1>1, OnlyElements DEF Bought
<1>3. ToSet(fills) \subseteq Filling
  BY <1>1, ElementsTyped
<1>4. ToSet(Bought) \subseteq Buying
  BY <1>2, <1>3 DEF Filling, Fitting, RowFits, Buying
<1>5. Bought \in Seq(Buying)
  BY <1>2, <1>4, SeqNarrows
<1>6. QED
  BY <1>1, <1>5, ReplayCounts DEF FillsCountedOnce

-----------------------------------------------------------------------------
(* STEPS, FOR THE TYPES AND THE EXECUTION DATA *)

(* The venue holds no less than nothing: a sale fills when there is          *)
(* something to sell, or closes what is held.                                *)
LEMMA FillIsCovered ==
  ASSUME position \in Nat, NEW o \in Order, CanFill(o)
  PROVE  AfterFill(o) \in Nat
BY DEF CanFill, AfterFill, Signed

LEMMA ScalarsNext ==
  ASSUME OrdersInv, [Next]_vars
  PROVE  Scalars'
<1>1. Scalars /\ MaxEvents \in Nat
  BY OrderAssumption DEF OrdersInv
<1> DEFINE Heard == UNCHANGED doubted \/ \E o \in Order : \E more : Doubt(o, more)
<1>2. CASE UNCHANGED <<position, listing, read>> /\ (Event \/ UNCHANGED events) /\ Heard
  BY <1>1, <1>2 DEF Scalars, Event, Doubt
<1>3. ASSUME NEW o \in Order, VenueFills(o) PROVE Scalars'
  <2>1. AfterFill(o) \in Nat
    BY <1>1, <1>3, FillIsCovered DEF VenueFills, Scalars
  <2>2. QED
    BY <1>1, <1>3, <2>1 DEF VenueFills, Scalars
<1>4. ASSUME NEW o \in Order, NEW a \in Answer, PushPlaces(o, a) PROVE Scalars'
  <2>1. a = "filled" => AfterFill(o) \in Nat
    BY <1>1, <1>4, FillIsCovered DEF PushPlaces, Scalars
  <2>2. QED
    BY <1>1, <1>4, <2>1 DEF PushPlaces, Scalars, Doubt, Event
<1>5. CASE ExternalTransfer
  BY <1>1, <1>5 DEF ExternalTransfer, Event, Scalars
<1>6. ASSUME NEW o \in Order, NEW a \in Answer \cup {"refused"}, Flatten(o, a)
      PROVE  Scalars'
  BY <1>1, <1>6 DEF Flatten, Event, Scalars, Doubt
<1>7. ASSUME NEW r \in Reader, ReadPositions(r) \/ Reconcile(r) PROVE Scalars'
  BY <1>1, <1>7 DEF ReadPositions, Reconcile, Scalars
<1>8. CASE CrashRestart
  BY <1>1, <1>8 DEF CrashRestart, Event, Scalars
<1>9. CASE UNCHANGED vars
  BY <1>2, <1>9 DEF vars
<1>10. ASSUME NEW o \in Order, NEW x,
              \/ VenueDrops(o, x) \/ ExternalOrder(o)
              \/ PushModifies(o, x) \/ PushCancels(o, x)
       PROVE  Scalars'
  BY <1>2, <1>10 DEF VenueDrops, ExternalOrder, PushModifies, PushCancels
<1>11. ASSUME NEW o \in Order, NEW l \in Leg, PushPlacesBracket(o, l) PROVE Scalars'
  BY <1>2, <1>11 DEF PushPlacesBracket
<1>12. CASE PushSettles \/ PushFails \/ ObserveTick \/ ObserveRecord \/ ObserveFails
  BY <1>2, <1>12 DEF PushSettles, PushFails, ObserveTick, ObserveRecord, ObserveFails
<1>13. ASSUME NEW t \in Syncer, SyncStep(t) \/ SyncFails(t) PROVE Scalars'
  <2>1. ASSUME NEW o, NEW odd, SyncConfirm(t, o, odd) PROVE Scalars'
    <3>1. Heard
      <4>1. odd => o \in Order
        BY <2>1 DEF SyncConfirm
      <4>2. ~odd => UNCHANGED doubted
        BY <2>1 DEF SyncConfirm, Doubt
      <4>3. QED
        BY <2>1, <4>1, <4>2 DEF SyncConfirm
    <3>2. QED
      BY <1>2, <2>1, <3>1 DEF SyncConfirm
  <2>2. QED
    BY <1>2, <1>13, <2>1 DEF SyncStep, SyncBegin, SyncRecord, SyncFails
<1>14. ASSUME NEW b \in BOOLEAN, StopBegin(b) PROVE Scalars'
  BY <1>2, <1>14 DEF StopBegin
<1>15. ASSUME NEW o, NEW a, StopCancels(o, a) PROVE Scalars'
  <2>1. Heard
    <3>1. a = "taken" => o \in Order
      BY <1>15 DEF StopCancels
    <3>2. a # "taken" => UNCHANGED doubted
      BY <1>15 DEF StopCancels, Doubt
    <3>3. QED
      BY <1>15, <3>1, <3>2 DEF StopCancels
  <2>2. QED
    BY <1>2, <1>15, <2>1 DEF StopCancels
<1>16. CASE StopRecord \/ StopFails
  BY <1>2, <1>16 DEF StopRecord, StopFails
<1>17. QED
  BY <1>3, <1>4, <1>5, <1>6, <1>7, <1>8, <1>9, <1>10, <1>11, <1>12, <1>13, <1>14, <1>15, <1>16
  DEF Next

(* Every step leaves the log alone or commits rows that fit. *)
LogMoves == UNCHANGED logVars \/ \E results \in Seq(Fitting) : AppendCommit(results)

LEMMA LogNext ==
  ASSUME OrdersInv, [Next]_vars
  PROVE  LogMoves
<1>1. WaitsFit /\ SyncInv /\ LogFits /\ Scalars
  BY DEF OrdersInv
<1>2. ASSUME NEW o \in Order, NEW x, \/ VenueFills(o) \/ VenueDrops(o, x) \/ ExternalOrder(o)
                                      \/ PushModifies(o, x) \/ PushCancels(o, x)
      PROVE  UNCHANGED logVars
  BY <1>2 DEF VenueFills, VenueDrops, ExternalOrder, PushModifies, PushCancels
<1>3. ASSUME NEW o \in Order, NEW a, PushPlaces(o, a) \/ Flatten(o, a) PROVE UNCHANGED logVars
  BY <1>3 DEF PushPlaces, Flatten
<1>4. ASSUME NEW o \in Order, NEW l \in Leg, PushPlacesBracket(o, l) PROVE UNCHANGED logVars
  BY <1>4 DEF PushPlacesBracket
<1>5. ExternalTransfer \/ PushFails \/ ObserveTick \/ ObserveFails \/ StopFails \/ CrashRestart
        => UNCHANGED logVars
  BY DEF ExternalTransfer, PushFails, ObserveTick, ObserveFails, StopFails, CrashRestart
<1>6. ASSUME NEW r \in Reader, ReadPositions(r) PROVE UNCHANGED logVars
  BY <1>6 DEF ReadPositions
<1>7. ASSUME NEW b \in BOOLEAN, StopBegin(b) PROVE UNCHANGED logVars
  BY <1>7 DEF StopBegin
<1>8. ASSUME NEW o, NEW b, StopCancels(o, b) PROVE UNCHANGED logVars
  BY <1>8 DEF StopCancels
<1>9. ASSUME NEW t \in Syncer, SyncStep(t) \/ SyncFails(t) PROVE LogMoves
  <2>1. ASSUME NEW c, SyncBegin(t, c) PROVE UNCHANGED logVars
    BY <2>1 DEF SyncBegin
  <2>2. ASSUME NEW o, NEW odd, SyncConfirm(t, o, odd) PROVE UNCHANGED logVars
    BY <2>2 DEF SyncConfirm
  <2>3. SyncFails(t) => UNCHANGED logVars
    BY DEF SyncFails
  <2>4. ASSUME SyncRecord(t) PROVE LogMoves
    <3>1. task[t].updates \in Seq(Fitting)
      BY <1>1, Tasks DEF WaitsFit
    <3>2. AppendCommit(task[t].updates)
      BY <2>4 DEF SyncRecord
    <3>3. QED
      BY <3>1, <3>2 DEF LogMoves
  <2>5. QED
    BY <1>9, <2>1, <2>2, <2>3, <2>4 DEF SyncStep, LogMoves
<1>10. ASSUME PushSettles PROVE LogMoves
  <2>1. pushing \in Seq(Fitting) /\ AppendCommit(pushing)
    BY <1>1, <1>10 DEF PushSettles, WaitsFit
  <2>2. QED
    BY <2>1 DEF LogMoves
<1>11. ASSUME ObserveRecord PROVE LogMoves
  <2>1. task[Poller].pc = "observed"
    BY <1>11 DEF ObserveRecord
  <2> DEFINE rows == SetToSeq({Row("observeExternalOrder", o, "submitted", 0) :
                                 o \in task[Poller].orders})
  <2>2. rows \in Seq(Fitting)
    BY <1>1, <2>1, RowsOfObservation
  <2>3. AppendCommit(rows)
    BY <1>11 DEF ObserveRecord
  <2> HIDE DEF rows
  <2>4. QED
    BY <2>2, <2>3 DEF LogMoves
<1>12. ASSUME StopRecord PROVE LogMoves
  <2>1. task[Emergency].updates \in Seq(Fitting) /\ AppendCommit(task[Emergency].updates)
    BY <1>1, <1>12, Tasks DEF StopRecord, WaitsFit
  <2>2. QED
    BY <2>1 DEF LogMoves
<1>13. ASSUME NEW r \in Reader, Reconcile(r) PROVE LogMoves
  <2> DEFINE row == Row("reconcileBalance", NoId, "filled", read[r] - ProjectedQty)
  <2>1. UNCHANGED logVars \/ AppendCommit(<<row>>)
    BY <1>13 DEF Reconcile
  <2>2. row \in Fitting
    <3>1. read[r] \in Nat
      BY <1>1, <1>13 DEF Scalars, Reconcile
    <3>2. fills \in Seq(OperationResult)
      <4>1. fills \in Seq(Filling) /\ Filling \subseteq OperationResult
        BY <1>1 DEF LogFits, Filling, Fitting
      <4>2. QED
        BY <4>1, SeqWidens
    <3>3. ProjectedQty \in Nat
      BY <1>1, <3>2, ReplayType DEF ProjectedQty, LogFits
    <3>4. read[r] - ProjectedQty \in Int
      BY <3>1, <3>3
    <3>5. QED
      BY <3>4, RowOfReconciliation
  <2> HIDE DEF row
  <2>3. <<row>> \in Seq(Fitting)
    <3> HIDE DEF Fitting
    <3>1. QED
      BY <2>2
  <2>4. QED
    BY <2>1, <2>3 DEF LogMoves
<1>14. CASE UNCHANGED vars
  BY <1>14 DEF vars, LogMoves
<1>15. QED
  BY <1>2, <1>3, <1>4, <1>5, <1>6, <1>7, <1>8, <1>9, <1>10, <1>11, <1>12, <1>13, <1>14
  DEF Next, LogMoves

LEMMA LogStaysFit ==
  ASSUME OrdersInv, [Next]_vars
  PROVE  LogFits'
<1>1. LogFits /\ LogMoves
  BY LogNext DEF OrdersInv
<1>2. CASE UNCHANGED logVars
  BY <1>1, <1>2 DEF logVars, LogFits
<1>3. ASSUME NEW results \in Seq(Fitting), AppendCommit(results) PROVE LogFits'
  BY <1>1, <1>3, CommitFits
<1>4. QED
  BY <1>1, <1>2, <1>3 DEF LogMoves

(* What waits after a step: a push learnt of more, an activity went on. *)
LEMMA PushFits ==
  ASSUME WaitsFit, UNCHANGED task, NEW more \in Seq(Fitting), pushing' = pushing \o more
  PROVE  WaitsFit'
<1>1. pushing' \in Seq(Fitting)
  BY ConcatOf DEF WaitsFit
<1>2. QED
  BY <1>1 DEF WaitsFit

LEMMA OneRowFits ==
  ASSUME WaitsFit, UNCHANGED task, NEW r \in Fitting, pushing' = Append(pushing, r)
  PROVE  WaitsFit'
<1>1. pushing' \in Seq(Fitting)
  BY AppendOf DEF WaitsFit
<1>2. QED
  BY <1>1 DEF WaitsFit

LEMMA GotoFits ==
  ASSUME SyncInv, WaitsFit, UNCHANGED pushing, NEW t \in Task, NEW next,
         next.updates \in Seq(Fitting),
         next.pc = "observed" => next.orders \subseteq Order, Goto(t, next)
  PROVE  WaitsFit'
<1>1. task' = [task EXCEPT ![t] = next] /\ DOMAIN task = Task
  BY DEF Goto, SyncInv, Shape
<1>2. \A u \in Task : task'[u] = IF u = t THEN next ELSE task[u]
  BY <1>1
<1>3. \A u \in Task : task'[u].updates \in Seq(Fitting)
  BY <1>2 DEF WaitsFit
<1>4. task'[Poller].pc = "observed" => task'[Poller].orders \subseteq Order
  BY <1>2, Tasks DEF WaitsFit
<1>5. QED
  BY <1>3, <1>4 DEF WaitsFit

LEMMA AtFits ==
  ASSUME SyncInv, WaitsFit, UNCHANGED pushing, NEW t \in Task,
         NEW pc, NEW orders, NEW updates \in Seq(Fitting),
         pc = "observed" => orders \subseteq Order, Goto(t, At(pc, orders, updates))
  PROVE  WaitsFit'
<1> DEFINE next == At(pc, orders, updates)
<1>1. next.pc = pc /\ next.orders = orders /\ next.updates = updates
  BY DEF At
<1> HIDE DEF next
<1>2. next.updates \in Seq(Fitting) /\ (next.pc = "observed" => next.orders \subseteq Order)
  BY <1>1
<1>3. Goto(t, next)
  BY DEF next
<1>4. QED
  BY <1>2, <1>3, GotoFits

LEMMA EmptyFits == <<>> \in Seq(Fitting)
OBVIOUS

LEMMA IdleFits ==
  ASSUME SyncInv, WaitsFit, UNCHANGED pushing, NEW t \in Task, Goto(t, Idle)
  PROVE  WaitsFit'
BY EmptyFits, AtFits DEF Idle

LEMMA WaitsNext ==
  ASSUME OrdersInv, [Next]_vars
  PROVE  WaitsFit'
<1>1. WaitsFit /\ SyncInv
  BY DEF OrdersInv
<1>2. CASE UNCHANGED <<pushing, task>>
  BY <1>1, <1>2 DEF WaitsFit
<1>3. ASSUME NEW o \in Order, NEW x, VenueFills(o) \/ VenueDrops(o, x) \/ ExternalOrder(o)
      PROVE  WaitsFit'
  BY <1>2, <1>3 DEF VenueFills, VenueDrops, ExternalOrder
<1>4. ASSUME ExternalTransfer \/ \E r \in Reader : ReadPositions(r) \/ Reconcile(r) PROVE WaitsFit'
  BY <1>2, <1>4 DEF ExternalTransfer, ReadPositions, Reconcile
<1>5. ASSUME NEW o \in Order, NEW a \in Answer, PushPlaces(o, a) PROVE WaitsFit'
  <2>1. Row("placeOrder", o, MappedStatus(a), 0) \in Fitting
    BY StatusIsMapped, RowWithoutExecution DEF Action, Id
  <2>2. UNCHANGED task /\ pushing' = Append(pushing, Row("placeOrder", o, MappedStatus(a), 0))
    BY <1>5 DEF PushPlaces
  <2>3. QED
    BY <1>1, <2>1, <2>2, OneRowFits
<1>6. ASSUME NEW o \in Order, NEW l \in Leg, PushPlacesBracket(o, l) PROVE WaitsFit'
  <2> DEFINE r == Row("placeOrder", o, "submitted", 0)
             q == Row("leg", l, "submitted", 0)
  <2>1. l \in Order
    BY OrderAssumption
  <2>2. r \in Fitting /\ q \in Fitting
    BY <2>1, RowWithoutExecution DEF Action, Id
  <2>3. UNCHANGED task /\ pushing' = pushing \o <<r, q>>
    BY <1>6 DEF PushPlacesBracket
  <2> HIDE DEF r, q
  <2>4. <<r, q>> \in Seq(Fitting)
    <3> HIDE DEF Fitting
    <3>1. QED
      BY <2>2
  <2>5. QED
    BY <1>1, <2>3, <2>4, PushFits
<1>7. ASSUME NEW o \in Order, NEW a \in {"submitted", "inactive"}, PushModifies(o, a)
      PROVE  WaitsFit'
  <2>1. Row("modifyOrder", o, MappedStatus(a), 0) \in Fitting
    BY StatusIsMapped, RowWithoutExecution DEF Action, Id, Answer
  <2>2. UNCHANGED task /\ pushing' = Append(pushing, Row("modifyOrder", o, MappedStatus(a), 0))
    BY <1>7 DEF PushModifies
  <2>3. QED
    BY <1>1, <2>1, <2>2, OneRowFits
<1>8. ASSUME NEW o \in Order, NEW b, PushCancels(o, b) PROVE WaitsFit'
  <2>1. Row("cancelOrder", o, "cancelled", 0) \in Fitting
    BY RowWithoutExecution DEF Action, Id
  <2>2. UNCHANGED task /\ pushing' = Append(pushing, Row("cancelOrder", o, "cancelled", 0))
    BY <1>8 DEF PushCancels
  <2>3. QED
    BY <1>1, <2>1, <2>2, OneRowFits
<1>9. ASSUME PushSettles \/ PushFails PROVE WaitsFit'
  BY <1>1, <1>9, EmptyFits DEF PushSettles, PushFails, WaitsFit
<1>10. ASSUME ObserveTick PROVE WaitsFit'
  <2>1. /\ UNCHANGED pushing
        /\ Goto(Poller, At("observed", Unknown, <<>>))
    BY <1>10 DEF ObserveTick
  <2>2. Unknown \subseteq Order
    BY DEF Unknown, Listed
  <2>3. QED
    BY <1>1, <2>1, <2>2, Tasks, EmptyFits, AtFits
<1>11. ASSUME ObserveRecord \/ ObserveFails PROVE WaitsFit'
  BY <1>1, <1>11, Tasks, IdleFits DEF ObserveRecord, ObserveFails
<1>12. ASSUME NEW t \in Syncer, SyncStep(t) PROVE WaitsFit'
  <2>1. t \in Task
    BY Tasks
  <2>2. ASSUME NEW c, SyncBegin(t, c) PROVE WaitsFit'
    <3>1. UNCHANGED pushing /\ (Goto(t, Idle) \/ Goto(t, At("confirm", c, <<>>)))
      BY <2>2 DEF SyncBegin
    <3>2. QED
      BY <1>1, <2>1, <3>1, EmptyFits, IdleFits, AtFits
  <2>3. ASSUME NEW o, NEW odd \in BOOLEAN, SyncConfirm(t, o, odd) PROVE WaitsFit'
    <3> DEFINE rest == task[t].orders \ {o}
               updates == task[t].updates \o Updates(o, odd)
    <3>1. updates \in Seq(Fitting)
      BY <1>1, <2>1, RowsOfUpdates, ConcatOf DEF WaitsFit
    <3>2. UNCHANGED pushing
      BY <2>3 DEF SyncConfirm
    <3>3. \/ Goto(t, At("confirm", rest, updates)) \/ Goto(t, Idle)
          \/ Goto(t, At("record", {}, updates))
      BY <2>3, Zenon DEF SyncConfirm
    <3> HIDE DEF rest, updates
    <3>4. QED
      BY <1>1, <2>1, <3>1, <3>2, <3>3, IdleFits, AtFits
  <2>4. ASSUME SyncRecord(t) PROVE WaitsFit'
    BY <1>1, <2>1, <2>4, IdleFits DEF SyncRecord
  <2>5. QED
    BY <1>12, <2>2, <2>3, <2>4 DEF SyncStep
<1>13. ASSUME NEW t \in Syncer, SyncFails(t) PROVE WaitsFit'
  BY <1>1, <1>13, Tasks, IdleFits DEF SyncFails, AfterFailure
<1>14. ASSUME NEW b \in BOOLEAN, StopBegin(b) PROVE WaitsFit'
  <2>1. UNCHANGED pushing
    BY <1>14 DEF StopBegin
  <2>2. PICK orders \in SUBSET Id, pc \in {"record", "cancel"} : Goto(Emergency, At(pc, orders, <<>>))
    BY <1>14 DEF StopBegin, Listed, Id
  <2>3. QED
    BY <1>1, <2>1, <2>2, Tasks, EmptyFits, AtFits
<1>15. ASSUME NEW o \in task[Emergency].orders, NEW a, StopCancels(o, a) PROVE WaitsFit'
  <2> DEFINE result == IF a = "refused" THEN FailedCancel(o)
                       ELSE Row("emergencyCancelOrder", o, "cancelled", 0)
             rest == task[Emergency].orders \ {o}
             updates == Append(task[Emergency].updates, result)
  <2>1. result \in Fitting
    <3>1. o \in Id
      BY <1>1, Tasks, TaskShape
    <3>2. /\ Row("emergencyCancelOrder", o, "cancelled", 0) \in Fitting
          /\ Row("emergencyCancelOrder", o, "submitted", 0) \in Fitting
      BY <3>1, RowWithoutExecution DEF Action
    <3>3. QED
      BY <3>2 DEF FailedCancel
  <2>2. UNCHANGED pushing
    BY <1>15 DEF StopCancels
  <2>3. PICK pc \in {"record", "cancel"} : Goto(Emergency, At(pc, rest, updates))
    BY <1>15 DEF StopCancels
  <2> HIDE DEF result, rest
  <2>4. updates \in Seq(Fitting)
    BY <1>1, <2>1, Tasks, AppendOf DEF WaitsFit
  <2> HIDE DEF updates
  <2>5. QED
    BY <1>1, <2>2, <2>3, <2>4, Tasks, AtFits
<1>16. ASSUME NEW o \in Order, NEW a \in Answer \cup {"refused"}, Flatten(o, a) PROVE WaitsFit'
  <2> DEFINE r == IF a = "refused" THEN Row("emergencyClosePosition", NoId, "rejected", 0)
                  ELSE Row("emergencyClosePosition", o, MappedStatus(a), 0)
  <2>1. UNCHANGED pushing /\ Goto(Emergency, At("record", {}, <<r>>))
    BY <1>16 DEF Flatten
  <2>2. r \in Fitting
    <3>1. CASE a = "refused"
      BY <3>1, RowWithoutExecution DEF Action
    <3>2. CASE a # "refused"
      BY <3>2, StatusIsMapped, RowWithoutExecution DEF Action, Id
    <3>3. QED
      BY <3>1, <3>2
  <2> HIDE DEF r
  <2>3. <<r>> \in Seq(Fitting)
    <3> HIDE DEF Fitting
    <3>1. QED
      BY <2>2
  <2>4. QED
    BY <1>1, <2>1, <2>3, Tasks, AtFits
<1>17. ASSUME StopRecord \/ StopFails PROVE WaitsFit'
  BY <1>1, <1>17, Tasks, IdleFits DEF StopRecord, StopFails
<1>18. ASSUME CrashRestart PROVE WaitsFit'
  <2>1. pushing' = <<>> /\ task' = [t \in Task |-> Idle]
    BY <1>18 DEF CrashRestart
  <2>2. Idle.updates = <<>> /\ Idle.pc = "idle"
    BY DEF Idle, At
  <2>3. QED
    BY <2>1, <2>2, Tasks, EmptyFits DEF WaitsFit
<1>19. ASSUME UNCHANGED vars PROVE WaitsFit'
  BY <1>2, <1>19 DEF vars
<1>20. QED
  BY <1>3, <1>4, <1>5, <1>6, <1>7, <1>8, <1>9, <1>10, <1>11, <1>12, <1>13, <1>14, <1>15, <1>16,
     <1>17, <1>18, <1>19
  DEF Next

LEMMA OrdersInit == Init => OrdersInv
<1> SUFFICES ASSUME Init PROVE OrdersInv
  OBVIOUS
<1>1. SyncInv
  BY InitHolds
<1>2. LogFits
  BY DEF Init, LogFits, Id
<1>3. WaitsFit
  BY Tasks, EmptyFits DEF Init, WaitsFit, Idle, At
<1>4. Scalars
  BY OrderAssumption DEF Init, Scalars
<1>5. QED
  BY <1>1, <1>2, <1>3, <1>4 DEF OrdersInv

LEMMA OrdersNext == OrdersInv /\ [Next]_vars => OrdersInv'
<1> SUFFICES ASSUME OrdersInv, [Next]_vars PROVE OrdersInv'
  OBVIOUS
<1>1. SyncInv'
  BY NextKeeps DEF Kept, OrdersInv
<1>2. LogFits' /\ WaitsFit' /\ Scalars'
  BY LogStaysFit, WaitsNext, ScalarsNext
<1>3. QED
  BY <1>1, <1>2 DEF OrdersInv

LEMMA OrdersAlways == Spec => []OrdersInv
BY OrdersInit, OrdersNext, PTL DEF Spec

(* The log, the rows that wait for it and the venue keep their types:        *)
(* whatever an observation recorded is an order of the venue                 *)
(* (recordObservedOrders), and no position goes below zero.                  *)
THEOREM OrdersTypeCorrect == Spec => []OrdersTypeOK
BY OrdersTypes, OrdersAlways, PTL

(* However many syncs record a fill, recomputeCostBasisFromCommits holds one *)
(* unit for every order bought whose origin is on file.                      *)
THEOREM FillsAreCountedOnce == Spec => []FillsCountedOnce
<1>1. OrdersInv => FillsCountedOnce
  BY FillsAreCounted DEF OrdersInv
<1>2. QED
  BY <1>1, OrdersAlways, PTL

-----------------------------------------------------------------------------
(* ROWS THAT ARE ADDED *)

(* The orders rows say something about, reconciliations aside. *)
Named(rows) == {r.orderId : r \in {q \in ToSet(rows) : q.action # "reconcileBalance"}}

(* A replay of more rows goes on from where the replay of the rows before    *)
(* them ended, and that one has counted every order named whose origin is    *)
(* known.                                                                    *)
GoesOn(rows, more, known, run) ==
  /\ run[0].held = Replay(rows, known) /\ run[0].counted = Named(rows) \cap known
  /\ \A n \in 1..Len(more) : run[n] = ApplyFill(known, run[n - 1], more[n])
  /\ \A n \in 0..Len(more) : run[n] \in Basis
  /\ Replay(rows \o more, known) = run[Len(more)].held

LEMMA RowApplied ==
  ASSUME NEW known \in SUBSET Order, NEW acc \in Basis, NEW r \in OperationResult
  PROVE  ApplyFill(known, acc, r).counted =
           acc.counted \cup ({q.orderId : q \in {x \in {r} : x.action # "reconcileBalance"}} \cap known)
<1>1. CASE r.action = "reconcileBalance"
  <2>1. ApplyFill(known, acc, r) = [acc EXCEPT !.held = Traded(r.qty, @)]
    BY <1>1 DEF ApplyFill
  <2>2. [acc EXCEPT !.held = Traded(r.qty, @)].counted = acc.counted
    BY DEF Basis
  <2>3. {q \in {r} : q.action # "reconcileBalance"} = {}
    BY <1>1
  <2>4. QED
    BY <2>1, <2>2, <2>3
<1>2. CASE r.action # "reconcileBalance" /\ r.orderId \in known \ acc.counted
  BY <1>2 DEF ApplyFill
<1>3. CASE r.action # "reconcileBalance" /\ r.orderId \notin known \ acc.counted
  BY <1>3 DEF ApplyFill
<1>4. QED
  BY <1>1, <1>2, <1>3

(* What a replay has counted at its end. *)
LEMMA CountedAre ==
  ASSUME NEW known \in SUBSET Order, NEW rows \in Seq(OperationResult), NEW acc,
         acc[0] = [held |-> 0, counted |-> {}],
         \A n \in 1..Len(rows) : acc[n] = ApplyFill(known, acc[n - 1], rows[n]),
         \A n \in 0..Len(rows) : acc[n] \in Basis
  PROVE  acc[Len(rows)].counted = Named(rows) \cap known
<1> DEFINE N == Len(rows)
           Upto(n) == {r.orderId : r \in {q \in {rows[i] : i \in 1..n} : q.action # "reconcileBalance"}}
                        \cap known
           P == {n \in 0..N : acc[n].counted = Upto(n)}
<1>1. N \in Nat
  OBVIOUS
<1>2. 0 \in P
  <2>1. Upto(0) = {} /\ acc[0].counted = {}
    OBVIOUS
  <2> HIDE DEF N, Upto
  <2>2. 0 \in 0..N
    BY <1>1
  <2>3. QED
    BY <2>1, <2>2
<1>3. ASSUME NEW n \in 1..N, n - 1 \in P PROVE n \in P
  <2>1. n \in 0..N /\ n - 1 \in 0..N
    BY <1>1
  <2>2. rows[n] \in OperationResult /\ acc[n - 1] \in Basis /\ acc[n - 1].counted = Upto(n - 1)
    BY <1>3, <2>1
  <2>3. {rows[i] : i \in 1..n} = {rows[i] : i \in 1..n - 1} \cup {rows[n]}
    <3>1. 1..n = (1..n - 1) \cup {n}
      BY <1>1
    <3>2. QED
      BY <3>1
  <2>4. Upto(n) = Upto(n - 1) \cup
          ({q.orderId : q \in {x \in {rows[n]} : x.action # "reconcileBalance"}} \cap known)
    BY <2>3
  <2>5. acc[n] = ApplyFill(known, acc[n - 1], rows[n])
    OBVIOUS
  <2> HIDE DEF Upto, N
  <2>6. acc[n].counted = Upto(n)
    BY <2>2, <2>4, <2>5, RowApplied
  <2>7. QED
    BY <2>1, <2>6
<1>4. N \in P
  <2> HIDE DEF P, N
  <2>1. 0..N \subseteq P
    BY <1>1, <1>2, <1>3, SegmentInduction
  <2>2. QED
    BY <1>1, <2>1
<1>5. ToSet(rows) = {rows[i] : i \in 1..N}
  BY DEF ToSet
<1>6. Upto(N) = Named(rows) \cap known
  BY <1>5 DEF Named
<1>7. QED
  BY <1>4, <1>6

LEMMA ReplayGoesOn ==
  ASSUME NEW known \in SUBSET Order,
         NEW rows \in Seq(OperationResult), NEW more \in Seq(OperationResult)
  PROVE  \E run : GoesOn(rows, more, known, run)
<1>1. PICK acc :
        /\ acc[0] = [held |-> 0, counted |-> {}]
        /\ \A n \in 1..Len(rows) : acc[n] = ApplyFill(known, acc[n - 1], rows[n])
        /\ \A n \in 0..Len(rows) : acc[n] \in Basis
        /\ Replay(rows, known) = acc[Len(rows)].held
  BY ReplayRuns
<1> DEFINE both == rows \o more
           M == Len(rows)
           N == Len(more)
<1>2. /\ both \in Seq(OperationResult) /\ Len(both) = M + N /\ M \in Nat /\ N \in Nat
      /\ \A j \in 1..M + N : both[j] = (IF j <= M THEN rows[j] ELSE more[j - M])
  BY ConcatOf
<1>3. PICK all :
        /\ all[0] = [held |-> 0, counted |-> {}]
        /\ \A n \in 1..Len(both) : all[n] = ApplyFill(known, all[n - 1], both[n])
        /\ \A n \in 0..Len(both) : all[n] \in Basis
        /\ Replay(both, known) = all[Len(both)].held
  <2> HIDE DEF both
  <2>1. QED
    BY <1>2, ReplayRuns
<1>4. all[M] = acc[M]
  <2> DEFINE P == {n \in 0..M : all[n] = acc[n]}
  <2>1. 0 \in P
    BY <1>1, <1>2, <1>3
  <2>2. ASSUME NEW n \in 1..M, n - 1 \in P PROVE n \in P
    <3>1. n \in 1..Len(both) /\ n \in 0..M /\ both[n] = rows[n] /\ all[n - 1] = acc[n - 1]
      BY <1>2, <2>2
    <3>2. all[n] = acc[n]
      BY <1>1, <1>3, <3>1
    <3>3. QED
      BY <3>1, <3>2
  <2> HIDE DEF P
  <2>3. 0..M \subseteq P
    BY <1>2, <2>1, <2>2, SegmentInduction
  <2>4. M \in P
    BY <1>2, <2>3
  <2>5. QED
    BY <2>4 DEF P
<1>5. acc[M].counted = Named(rows) \cap known
  BY <1>1, CountedAre
<1> DEFINE run == [n \in 0..N |-> all[M + n]]
<1> HIDE DEF both, M, N
<1>6. /\ run[0] = all[M] /\ run[N] = all[Len(both)]
      /\ \A n \in 0..N : run[n] = all[M + n] /\ M + n \in 0..Len(both)
  BY <1>2
<1>7. ASSUME NEW n \in 1..N PROVE run[n] = ApplyFill(known, run[n - 1], more[n])
  <2>1. /\ n \in 0..N /\ n - 1 \in 0..N /\ M + n \in 1..Len(both) /\ M + n \in 1..M + N
        /\ ~(M + n <= M) /\ (M + n) - M = n /\ M + (n - 1) = (M + n) - 1
    BY <1>2
  <2>2. both[M + n] = more[n]
    BY <1>2, <2>1
  <2>3. all[M + n] = ApplyFill(known, all[(M + n) - 1], both[M + n])
    BY <1>3, <2>1
  <2>4. run[n] = all[M + n] /\ run[n - 1] = all[(M + n) - 1]
    BY <2>1
  <2>5. QED
    BY <2>2, <2>3, <2>4
<1>8. \A n \in 0..N : run[n] \in Basis
  BY <1>3, <1>6
<1>9. run[0].held = Replay(rows, known) /\ run[0].counted = Named(rows) \cap known
  BY <1>1, <1>4, <1>5, <1>6 DEF M
<1>10. Replay(both, known) = run[N].held
  BY <1>3, <1>6
<1> HIDE DEF run
<1>11. GoesOn(rows, more, known, run)
  BY <1>7, <1>8, <1>9, <1>10 DEF GoesOn, N, both
<1>12. QED
  BY <1>11

(* A fill that is on file already, recorded again. *)
LEMMA RepeatsAddNothing ==
  ASSUME NEW known \in SUBSET Order,
         NEW rows \in Seq(OperationResult), NEW more \in Seq(OperationResult),
         \A r \in ToSet(more) : r.action # "reconcileBalance" /\ r.orderId \in Named(rows)
  PROVE  Replay(rows \o more, known) = Replay(rows, known)
<1>1. PICK run : GoesOn(rows, more, known, run)
  BY ReplayGoesOn
<1> DEFINE N == Len(more)
           P == {n \in 0..N : run[n] = run[0]}
<1>2. N \in Nat
  OBVIOUS
<1>3. 0 \in P
  BY <1>2
<1>4. ASSUME NEW n \in 1..N, n - 1 \in P PROVE n \in P
  <2>1. n \in 0..N /\ run[n - 1] = run[0]
    BY <1>2, <1>4
  <2>2. more[n] \in ToSet(more)
    BY ElementOf
  <2>3. more[n].action # "reconcileBalance" /\ more[n].orderId \in Named(rows)
    BY <2>2
  <2>4. run[n] = ApplyFill(known, run[0], more[n]) /\ run[0].counted = Named(rows) \cap known
    BY <1>1, <2>1 DEF GoesOn
  <2>5. run[n] = run[0]
    BY <2>3, <2>4 DEF ApplyFill
  <2>6. QED
    BY <2>1, <2>5
<1>5. N \in P
  <2> HIDE DEF P, N
  <2>1. 0..N \subseteq P
    BY <1>2, <1>3, <1>4, SegmentInduction
  <2>2. QED
    BY <1>2, <2>1
<1>6. QED
  BY <1>1, <1>5 DEF GoesOn

(* A reconciliation. *)
LEMMA ReconciliationAdds ==
  ASSUME NEW known \in SUBSET Order, NEW rows \in Seq(OperationResult),
         NEW r \in OperationResult, r.action = "reconcileBalance"
  PROVE  Replay(rows \o <<r>>, known) = Traded(r.qty, Replay(rows, known))
<1>1. <<r>> \in Seq(OperationResult) /\ Len(<<r>>) = 1 /\ <<r>>[1] = r
  OBVIOUS
<1>2. PICK run : GoesOn(rows, <<r>>, known, run)
  BY <1>1, ReplayGoesOn
<1>3. run[1] = ApplyFill(known, run[0], r) /\ run[0] \in Basis
  BY <1>1, <1>2 DEF GoesOn
<1>4. ApplyFill(known, run[0], r) = [run[0] EXCEPT !.held = Traded(r.qty, @)]
  BY DEF ApplyFill
<1>5. [run[0] EXCEPT !.held = Traded(r.qty, @)].held = Traded(r.qty, run[0].held)
  BY <1>3 DEF Basis
<1>6. QED
  BY <1>1, <1>2, <1>3, <1>4, <1>5 DEF GoesOn

(* What a syncer has gathered are rows of a sync. *)
Synced      == {r \in Fitting : r.action = "syncOrders"}
SyncersSync == \A t \in Syncer : task[t].updates \in Seq(Synced)

LEMMA EmptyIsSynced == <<>> \in Seq(Synced)
OBVIOUS

LEMMA UpdatesAreSynced ==
  ASSUME NEW o, NEW odd \in BOOLEAN
  PROVE  Updates(o, odd) \in Seq(Synced)
<1>1. Updates(o, odd) \in Seq(Fitting)
  BY RowsOfUpdates
<1>2. \A r \in ToSet(Updates(o, odd)) : r.action = "syncOrders"
  BY DEF Updates, Row, ToSet
<1>3. ToSet(Updates(o, odd)) \subseteq Synced
  BY <1>1, <1>2, ElementsTyped DEF Synced
<1>4. QED
  BY <1>1, <1>3, SeqNarrows

LEMMA SyncerGoes ==
  ASSUME SyncInv, SyncersSync, NEW t \in Task, NEW pc, NEW orders, NEW updates,
         t \in Syncer => updates \in Seq(Synced), Goto(t, At(pc, orders, updates))
  PROVE  SyncersSync'
<1> DEFINE next == At(pc, orders, updates)
<1>1. next.updates = updates
  BY DEF At
<1>2. task' = [task EXCEPT ![t] = next] /\ DOMAIN task = Task
  BY DEF Goto, SyncInv, Shape
<1> HIDE DEF next
<1>3. \A u \in Task : task'[u] = IF u = t THEN next ELSE task[u]
  BY <1>2
<1>4. ASSUME NEW u \in Syncer PROVE task'[u].updates \in Seq(Synced)
  BY <1>1, <1>3, Tasks DEF SyncersSync
<1>5. QED
  BY <1>4 DEF SyncersSync

LEMMA SyncerRests ==
  ASSUME SyncInv, SyncersSync, NEW t \in Task, Goto(t, Idle)
  PROVE  SyncersSync'
BY EmptyIsSynced, SyncerGoes DEF Idle

LEMMA SyncersNext ==
  ASSUME OrdersInv, SyncersSync, [Next]_vars
  PROVE  SyncersSync'
<1>1. SyncInv /\ Emergency \notin Syncer
  BY OrderAssumption DEF OrdersInv, Syncer
<1>2. CASE UNCHANGED task
  BY <1>2 DEF SyncersSync
<1>3. ASSUME NEW o \in Order, NEW x, \/ VenueFills(o) \/ VenueDrops(o, x) \/ ExternalOrder(o)
                                      \/ PushModifies(o, x) \/ PushCancels(o, x)
      PROVE  SyncersSync'
  BY <1>2, <1>3 DEF VenueFills, VenueDrops, ExternalOrder, PushModifies, PushCancels
<1>4. ASSUME ExternalTransfer \/ \E r \in Reader : ReadPositions(r) \/ Reconcile(r)
      PROVE  SyncersSync'
  BY <1>2, <1>4 DEF ExternalTransfer, ReadPositions, Reconcile
<1>5. ASSUME NEW o \in Order, NEW x, PushPlaces(o, x) \/ PushPlacesBracket(o, x)
      PROVE  SyncersSync'
  BY <1>2, <1>5 DEF PushPlaces, PushPlacesBracket
<1>6. ASSUME PushSettles \/ PushFails PROVE SyncersSync'
  BY <1>2, <1>6 DEF PushSettles, PushFails
<1>7. ASSUME ObserveTick \/ ObserveRecord \/ ObserveFails PROVE SyncersSync'
  <2>1. Goto(Poller, Idle) \/ Goto(Poller, At("observed", Unknown, <<>>))
    BY <1>7 DEF ObserveTick, ObserveRecord, ObserveFails
  <2>2. QED
    BY <1>1, <2>1, Tasks, EmptyIsSynced, SyncerRests, SyncerGoes
<1>8. ASSUME NEW t \in Syncer, SyncStep(t) PROVE SyncersSync'
  <2>1. t \in Task
    BY Tasks
  <2>2. ASSUME NEW c, SyncBegin(t, c) PROVE SyncersSync'
    <3>1. Goto(t, Idle) \/ Goto(t, At("confirm", c, <<>>))
      BY <2>2 DEF SyncBegin
    <3>2. QED
      BY <1>1, <2>1, <3>1, EmptyIsSynced, SyncerRests, SyncerGoes
  <2>3. ASSUME NEW o, NEW odd \in BOOLEAN, SyncConfirm(t, o, odd) PROVE SyncersSync'
    <3> DEFINE rest == task[t].orders \ {o}
               updates == task[t].updates \o Updates(o, odd)
    <3>1. updates \in Seq(Synced)
      BY UpdatesAreSynced, ConcatOf DEF SyncersSync
    <3>2. \/ Goto(t, At("confirm", rest, updates)) \/ Goto(t, Idle)
          \/ Goto(t, At("record", {}, updates))
      BY <2>3, Zenon DEF SyncConfirm
    <3> HIDE DEF rest, updates
    <3>3. QED
      BY <1>1, <2>1, <3>1, <3>2, SyncerRests, SyncerGoes
  <2>4. ASSUME SyncRecord(t) PROVE SyncersSync'
    BY <1>1, <2>1, <2>4, SyncerRests DEF SyncRecord
  <2>5. QED
    BY <1>8, <2>2, <2>3, <2>4 DEF SyncStep
<1>9. ASSUME NEW t \in Syncer, SyncFails(t) PROVE SyncersSync'
  BY <1>1, <1>9, Tasks, SyncerRests DEF SyncFails, AfterFailure
<1>10. ASSUME NEW next, Goto(Emergency, next) PROVE SyncersSync'
  <2>1. \A u \in Syncer : task'[u] = task[u]
    BY <1>1, <1>10, Tasks DEF Goto, SyncInv, Shape
  <2>2. QED
    BY <2>1 DEF SyncersSync
<1>11. ASSUME NEW b, StopBegin(b) PROVE SyncersSync'
  BY <1>10, <1>11 DEF StopBegin
<1>12. ASSUME NEW o, NEW b, StopCancels(o, b) \/ Flatten(o, b) PROVE SyncersSync'
  BY <1>10, <1>12 DEF StopCancels, Flatten
<1>13. ASSUME StopRecord \/ StopFails PROVE SyncersSync'
  BY <1>10, <1>13 DEF StopRecord, StopFails
<1>14. ASSUME CrashRestart PROVE SyncersSync'
  <2>1. task' = [t \in Task |-> Idle] /\ Idle.updates = <<>>
    BY <1>14 DEF CrashRestart, Idle, At
  <2>2. QED
    BY <2>1, Tasks, EmptyIsSynced DEF SyncersSync
<1>15. ASSUME UNCHANGED vars PROVE SyncersSync'
  BY <1>2, <1>15 DEF vars
<1>16. QED
  BY <1>3, <1>4, <1>5, <1>6, <1>7, <1>8, <1>9, <1>11, <1>12, <1>13, <1>14, <1>15 DEF Next

LEMMA SyncersAlways == Spec => [](OrdersInv /\ SyncersSync)
<1>1. Init => OrdersInv /\ SyncersSync
  BY OrdersInit, Tasks, EmptyIsSynced DEF Init, SyncersSync, Idle, At
<1>2. (OrdersInv /\ SyncersSync) /\ [Next]_vars => (OrdersInv /\ SyncersSync)'
  BY OrdersNext, SyncersNext
<1>3. QED
  BY <1>1, <1>2, PTL DEF Spec

LEMMA FillsTyped == OrdersInv => fills \in Seq(OperationResult) /\ origins \in SUBSET Order
<1> SUFFICES ASSUME OrdersInv PROVE fills \in Seq(OperationResult) /\ origins \in SUBSET Order
  OBVIOUS
<1>1. fills \in Seq(Filling) /\ origins \subseteq Order /\ Filling \subseteq OperationResult
  BY DEF OrdersInv, LogFits, Filling, Fitting
<1>2. QED
  BY <1>1, SeqWidens

(* Overlapping syncs: a sync whose fills are all on file leaves the cost     *)
(* basis as it is, sales and reconciliations before and after them included  *)
(* (`counted` in recomputeCostBasisFromCommits).                             *)
RepeatsChangeNothing ==
  [][\A t \in Syncer :
       SyncRecord(t) /\ (\A r \in ToSet(task[t].updates) : r.qty # 0 => r.orderId \in Named(fills))
         => ProjectedQty' = ProjectedQty]_vars

THEOREM RepeatedFillsCountOnce == Spec => RepeatsChangeNothing
<1>1. ASSUME OrdersInv, SyncersSync, NEW t \in Syncer, SyncRecord(t),
             \A r \in ToSet(task[t].updates) : r.qty # 0 => r.orderId \in Named(fills)
      PROVE  ProjectedQty' = ProjectedQty
  <2> DEFINE rows == task[t].updates
             new == Only(rows, {r \in ToSet(rows) : r.qty # 0})
  <2>1. fills \in Seq(OperationResult) /\ origins \in SUBSET Order
    BY <1>1, FillsTyped
  <2>2. rows \in Seq(Synced)
    BY <1>1 DEF SyncersSync
  <2>3. new \in Seq(Synced) /\ ToSet(new) = ToSet(rows) \cap {r \in ToSet(rows) : r.qty # 0}
    BY <2>2, OnlyElements
  <2>4. ToSet(rows) \subseteq Synced
    BY <2>2, ElementsTyped
  <2>5. origins' = origins
    BY <1>1, <2>4 DEF SyncRecord, AppendCommit, Synced
  <2>6. fills' = fills \o new
    BY <1>1 DEF SyncRecord, AppendCommit
  <2> HIDE DEF new
  <2>7. \A r \in ToSet(new) : r.action # "reconcileBalance" /\ r.orderId \in Named(fills)
    BY <1>1, <2>3, <2>4 DEF Synced
  <2>8. new \in Seq(OperationResult)
    BY <2>3, SeqWidens DEF Synced, Fitting
  <2>9. Replay(fills \o new, origins) = Replay(fills, origins)
    BY <2>1, <2>7, <2>8, RepeatsAddNothing
  <2>10. QED
    BY <2>5, <2>6, <2>9 DEF ProjectedQty
<1>2. (OrdersInv /\ SyncersSync) /\ [Next]_vars =>
        [\A t \in Syncer :
           SyncRecord(t) /\ (\A r \in ToSet(task[t].updates) : r.qty # 0 => r.orderId \in Named(fills))
             => ProjectedQty' = ProjectedQty]_vars
  BY <1>1
<1>3. QED
  BY <1>2, SyncersAlways, PTL DEF Spec, RepeatsChangeNothing

(* _reconcileWalletPositions books the drift exactly: after it the cost      *)
(* basis holds what the position read said, whatever was recorded since the  *)
(* read, and although what is oversold is cut off at nothing.                *)
ReconciliationIsExact ==
  [][\A r \in Reader : Reconcile(r) /\ DriftToBook(read[r]) => ProjectedQty' = read[r]]_vars

THEOREM ReconciliationsAreExact == Spec => ReconciliationIsExact
<1>1. ASSUME OrdersInv, NEW r \in Reader, Reconcile(r), DriftToBook(read[r])
      PROVE  ProjectedQty' = read[r]
  <2> DEFINE row == Row("reconcileBalance", NoId, "filled", read[r] - ProjectedQty)
  <2>1. fills \in Seq(OperationResult) /\ origins \in SUBSET Order
    BY <1>1, FillsTyped
  <2>2. ProjectedQty \in Nat /\ read[r] \in Nat
    BY <1>1, <2>1, ReplayType DEF ProjectedQty, OrdersInv, Scalars, Reconcile
  <2>3. row \in OperationResult
    <3>1. read[r] - ProjectedQty \in Int
      BY <2>2
    <3>2. QED
      BY <3>1, RowOfReconciliation DEF Fitting
  <2>4. row.qty = read[r] - ProjectedQty /\ row.action = "reconcileBalance" /\ row.qty # 0
    BY <1>1, <2>2 DEF Row, DriftToBook
  <2>5. AppendCommit(<<row>>)
    BY <1>1 DEF Reconcile
  <2> HIDE DEF row
  <2>6. ToSet(<<row>>) = {row}
    BY DEF ToSet
  <2>7. Only(<<row>>, {q \in ToSet(<<row>>) : q.qty # 0}) = <<row>>
    <3>1. row \in {q \in ToSet(<<row>>) : q.qty # 0}
      BY <2>4, <2>6
    <3>2. QED
      BY <2>3, <3>1, OnlyOfOne
  <2>8. fills' = fills \o <<row>>
    BY <2>5, <2>7 DEF AppendCommit
  <2>9. origins' = origins
    BY <2>4, <2>5, <2>6 DEF AppendCommit
  <2>10. Replay(fills \o <<row>>, origins) = Traded(row.qty, ProjectedQty)
    BY <2>1, <2>3, <2>4, ReconciliationAdds DEF ProjectedQty
  <2>11. Traded(row.qty, ProjectedQty) = read[r]
    BY <2>2, <2>4 DEF Traded
  <2>12. QED
    BY <2>8, <2>9, <2>10, <2>11 DEF ProjectedQty
<1>2. OrdersInv /\ [Next]_vars =>
        [\A r \in Reader : Reconcile(r) /\ DriftToBook(read[r]) => ProjectedQty' = read[r]]_vars
  BY <1>1
<1>3. QED
  BY <1>2, OrdersAlways, PTL DEF Spec, ReconciliationIsExact

=============================================================================
