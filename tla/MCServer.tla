------------------------------ MODULE MCServer ------------------------------
(***************************************************************************)
(* Instances of Server for TLC.                                            *)
(***************************************************************************)
EXTENDS Server

CONSTANTS a1, a2, c1, c2, c3, h1, h2

\* Connection c3 comes from h2, the others from h1.
MCHostOf == [c \in Conns |-> IF c = c3 THEN h2 ELSE h1]

\* One prefix, which contains h1 only.
MCOnlyH1 == {{h1}}

=============================================================================
