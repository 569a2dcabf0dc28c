-------------------------- MODULE ProposalLifecycle --------------------------
(***************************************************************************)
(* What the approval pipeline promises for each proposed operation,         *)
(* whatever the staging area, hashes and log behind it look like: it is     *)
(* staged, it may be sent to the broker, and the batch it belongs to is     *)
(* either executed or refused as a whole, once.                             *)
(***************************************************************************)
CONSTANT Op

VARIABLES
  status,       \* where each operation stands
  interrupted   \* a call was cut short by a crash or a failed account read

Open == {op \in Op : status[op] \in {"staged", "sent"}}

Init == status = [op \in Op |-> "new"] /\ interrupted = FALSE

Propose(op) ==
  /\ status[op] = "new"
  /\ status' = [status EXCEPT ![op] = "staged"]
  /\ UNCHANGED interrupted

Send(op) ==
  /\ status[op] = "staged"
  /\ status' = [status EXCEPT ![op] = "sent"]
  /\ UNCHANGED interrupted

(* The whole open batch ends together. *)
Close(outcome) ==
  /\ Open # {}
  /\ status' = [op \in Op |-> IF op \in Open THEN outcome ELSE status[op]]
  /\ UNCHANGED interrupted

Execute == Close("executed")

(* A batch with an operation already sent is refused only if the call that  *)
(* sent it was cut short.                                                   *)
Refuse ==
  /\ interrupted \/ \A op \in Open : status[op] = "staged"
  /\ Close("refused")

Interrupt == interrupted' = TRUE /\ UNCHANGED status

Next ==
  \/ \E op \in Op : Propose(op) \/ Send(op)
  \/ Execute \/ Refuse \/ Interrupt

Spec == Init /\ [][Next]_<<status, interrupted>>
=============================================================================
