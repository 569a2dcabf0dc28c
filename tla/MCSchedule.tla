----------------------------- MODULE MCSchedule -----------------------------
(* A one-shot and a cron issue in one workspace, a repeating one in another. *)
EXTENDS Schedule, TLC

CONSTANTS w1, w2, once, daily, often

HomeDef == once :> w1 @@ daily :> w1 @@ often :> w2
WhenDef == once :> [kind |-> "at", at |-> 4] @@ often :> [kind |-> "every", every |-> 2]
             @@ daily :> [kind |-> "cron", cron |-> {2, 3}]
=============================================================================
