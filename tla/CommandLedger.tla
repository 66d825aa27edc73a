--------------------------- MODULE CommandLedger ---------------------------
(***************************************************************************)
(* What the daemon promises of the commands it derives, abstracted from     *)
(* tasks, memory, sessions and restarts: the life of a command is recorded  *)
(* durably and only moves forward,                                          *)
(*     new  ->  queued  ->  issued  ->  done                                *)
(* and a command reaches a follower's channel only once it is recorded as   *)
(* issued.  The promise says nothing of crashes because they are invisible  *)
(* to it, and it does not limit how often an issued command is handed over. *)
(***************************************************************************)
EXTENDS Naturals

CONSTANT Command

VARIABLES
    stage,      \* where the durable record of each command stands
    handed      \* how often it was put on a channel (2: twice or more)

ledgerVars == <<stage, handed>>

LedgerInit ==
    /\ stage = [c \in Command |-> "new"]
    /\ handed = [c \in Command |-> 0]

(* The commands of one event are recorded together.                         *)
Plan ==
    /\ stage' \in [Command -> {"new", "queued", "issued", "done"}]
    /\ \A c \in Command :
         stage'[c] # stage[c] => stage[c] = "new" /\ stage'[c] = "queued"
    /\ UNCHANGED handed

Move(c, from, to) ==
    /\ stage[c] = from
    /\ stage' = [stage EXCEPT ![c] = to]
    /\ UNCHANGED handed

Issue(c) == Move(c, "queued", "issued")
Settle(c) == Move(c, "issued", "done")

Hand(c) ==
    /\ stage[c] \in {"issued", "done"}
    /\ handed' = [handed EXCEPT ![c] = IF @ = 2 THEN 2 ELSE @ + 1]
    /\ UNCHANGED stage

LedgerNext ==
    \/ Plan
    \/ \E c \in Command : Issue(c) \/ Settle(c) \/ Hand(c)

LedgerSpec == LedgerInit /\ [][LedgerNext]_ledgerVars
=============================================================================
