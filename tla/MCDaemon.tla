------------------------------ MODULE MCDaemon ------------------------------
(***************************************************************************)
(* Instances of Daemon for TLC.                                            *)
(***************************************************************************)
EXTENDS Daemon

CONSTANTS p1, p2, p3

\* The PIDs have wrapped: the one that may come later is shorter.
MCPidLen == [p \in Procs |-> IF p = p3 THEN 4 ELSE 5]

=============================================================================
