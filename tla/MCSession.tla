----------------------------- MODULE MCSession ------------------------------
(***************************************************************************)
(* Instances of Session for TLC.                                           *)
(***************************************************************************)
EXTENDS Session

\* Two regular expressions make two requests with the same enumerator;
\* buhBye stands for an enumerator that mctallyd has no case for.
MCRequests ==
  {Request("installedPackages", "r1"), Request("installedPackages", "r2"),
   Request("uname", ""), Request("uptime", ""), Request("buhBye", "")}

\* main() makes no empty list.
MCRequestLists == UNION {[1 .. n -> MCRequests] : n \in 1 .. 3}

=============================================================================
