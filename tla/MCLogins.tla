------------------------------ MODULE MCLogins ------------------------------
(***************************************************************************)
(* Instances of Logins for TLC.                                            *)
(***************************************************************************)
EXTENDS Logins

CONSTANTS t1, t2

=============================================================================
