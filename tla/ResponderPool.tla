--------------------------- MODULE ResponderPool ----------------------------
(***************************************************************************)
(* What mctallyd's server promises of its Responders, without saying how.  *)
(* A connection from an allowed client is either rejected or served by a   *)
(* thread; what the server holds for it is given back only after the       *)
(* thread is finished, and what it holds for a rejected one only while it  *)
(* closes down.  The process ends in order only when it holds nothing.     *)
(***************************************************************************)
CONSTANTS
  Conns,    \* client connections
  Allowed   \* those that come from an allowed client

VARIABLES
  slot,     \* what the server holds for each connection
  process   \* the server's process

poolVars == <<slot, process>>

PoolInit ==
  /\ slot = [c \in Conns |-> "free"]
  /\ process = "up"

Goes(c, from, to) ==
  /\ slot[c] = from
  /\ slot' = [slot EXCEPT ![c] = to]
  /\ UNCHANGED process

Reject(c) == process = "up" /\ c \in Allowed /\ Goes(c, "free", "rejected")

Serve(c) == process = "up" /\ c \in Allowed /\ Goes(c, "free", "serving")

Finish(c) == process \in {"up", "closing"} /\ Goes(c, "serving", "finished")

Release(c) == process \in {"up", "closing"} /\ Goes(c, "finished", "free")

Drop(c) == process = "closing" /\ Goes(c, "rejected", "free")

CloseDown ==
  /\ process = "up"
  /\ process' = "closing"
  /\ UNCHANGED slot

Down ==
  /\ process = "closing"
  /\ \A c \in Conns : slot[c] = "free"
  /\ process' = "down"
  /\ UNCHANGED slot

Crash ==
  /\ process \in {"up", "closing"}
  /\ process' = "crashed"
  /\ UNCHANGED slot

PoolNext ==
  \/ \E c \in Conns : \/ Reject(c) \/ Serve(c) \/ Finish(c)
                      \/ Release(c) \/ Drop(c)
  \/ CloseDown \/ Down \/ Crash

PoolSpec == PoolInit /\ [][PoolNext]_poolVars

=============================================================================
