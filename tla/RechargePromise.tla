--------------------------- MODULE RechargePromise ---------------------------
(***************************************************************************)
(* What the recharge task service promises its two clients, the shop that  *)
(* submits redemption codes and the worker that executes them, without     *)
(* processes, files, sessions, leases or clocks: a code is accepted once,  *)
(* is handed out for execution at most in the one step in which its task   *)
(* starts running, and a task that needs review or has an outcome stays    *)
(* so.  RechargeBridge implements it.                                      *)
(***************************************************************************)
CONSTANT Codes

VARIABLES ledger,   \* the recorded status of each code's task, "none" before
          handed    \* the codes whose execution code has left the service

pvars == <<ledger, handed>>

Settled == {"awaiting_review", "succeeded", "failed"}
LedgerStatus == {"none", "queued", "running"} \cup Settled

(* The status changes a single task may make.                              *)
Moves == {<<"none", "queued">>, <<"queued", "running">>,
          <<"queued", "awaiting_review">>}
           \cup ({"running"} \X Settled)

PromiseInit == ledger = [c \in Codes |-> "none"] /\ handed = {}

(* One recorded change may move several tasks (an expiry sweep, a claim     *)
(* that sets unusable tasks aside) but starts at most one, and only the one *)
(* it starts may be handed out; the reply may also be lost before it left.  *)
PromiseStep ==
  /\ ledger' \in [Codes -> LedgerStatus]
  /\ \A c \in Codes : ledger'[c] # ledger[c] => <<ledger[c], ledger'[c]>> \in Moves
  /\ \A c, d \in Codes : /\ ledger[c] = "queued" /\ ledger'[c] = "running"
                         /\ ledger[d] = "queued" /\ ledger'[d] = "running"
                         => c = d
  /\ handed \subseteq handed'
  /\ \A c \in handed' \ handed : ledger[c] = "queued" /\ ledger'[c] = "running"

PromiseSpec == PromiseInit /\ [][PromiseStep]_pvars
=============================================================================
