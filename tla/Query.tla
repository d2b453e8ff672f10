------------------------------- MODULE Query --------------------------------
(***************************************************************************)
(* What mctally promises about one host: it prints, at most once, either   *)
(* nothing or the answer to every one of its requests, in their order.     *)
(***************************************************************************)
CONSTANTS
  Requests,      \* the lists of requests that can be asked for
  AnswersTo(_)   \* the answers to such a list, in its order

VARIABLES
  asked,     \* the list of requests of this run
  outcome    \* "pending", "nothing" or what was printed

queryVars == <<asked, outcome>>

QueryInit == asked \in Requests /\ outcome = [state |-> "pending"]

Answered ==
  /\ outcome.state = "pending"
  /\ outcome' = [state |-> "printed", responses |-> AnswersTo(asked)]
  /\ UNCHANGED asked

Unanswered ==
  /\ outcome.state = "pending"
  /\ outcome' = [state |-> "nothing"]
  /\ UNCHANGED asked

QuerySpec == QueryInit /\ [][Answered \/ Unanswered]_queryVars

=============================================================================
