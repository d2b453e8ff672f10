------------------------------- MODULE Client -------------------------------
(***************************************************************************)
(* A run of mctally or of mctallycgi: main() starts one thread per host,   *)
(* each thread talks to its host (module Session) and prints its report on *)
(* the one standard output under a mutex, and main() joins the threads in  *)
(* the order it started them.                                              *)
(*                                                                         *)
(* apps/mctally/mctally.cc, apps/mctallycgi/mctallycgi.cc                  *)
(***************************************************************************)
EXTENDS Naturals, Sequences

CONSTANTS
  NumHosts,   \* how many hosts are queried; one may be named twice
  Requests,   \* what is asked of each of them
  Html,       \* mctallycgi, which writes a page; otherwise mctally
  Faults,     \* which of "unanswered", "silent", "spawn" may happen
  None        \* no thread

Peers == 1 .. NumHosts

ASSUME NumHostsAssumption == NumHosts \in Nat \ {0}
ASSUME RequestsAssumption ==
  /\ Requests \in Seq({"installedPackages", "uname", "loadAverages", "logins",
                       "uptime"})
  /\ Requests # <<>>
ASSUME HtmlAssumption == Html \in BOOLEAN
ASSUME ClientFaultsAssumption == Faults \subseteq {"unanswered", "silent", "spawn"}
ASSUME ClientNoneAssumption == None \notin Nat

VARIABLES
  main,      \* where the main thread is
  next,      \* main()'s place in hosts, then in peerThreads
  peer,      \* where each PeerThread is
  silent,    \* the hosts that have stopped answering without a sign
  responses, \* SendReceive's responses, once they are complete
  at,        \* PrintResponses' place in the report
  mtx,       \* who holds PrintResponses' mutex
  out        \* standard output

mainVars == <<main, next>>
vars == <<main, next, peer, silent, responses, at, mtx, out>>

-----------------------------------------------------------------------------
(* What is printed, as pieces: each says whose it is and which.           *)

Piece(p, what) == [peer |-> p, what |-> what]

\* The first and the last piece of a page and of a table; the pieces between
\* are numbered like the requests.
First == 0
Last == Len(Requests) + 1

\* What can be empty without being a failure.
MayBeEmpty == {i \in DOMAIN Requests : Requests[i] \in {"logins", "installedPackages"}}

\* Whether PrintResponses has a piece for place k of p's report: mctally has no
\* tables, and mctallycgi says nothing of a host without active logins.
Shows(p, k) ==
  IF k \in {First, Last} THEN Html
  ELSE ~(Html /\ Requests[k] = "logins" /\ responses[p][k] = "empty")

Header == IF Html THEN <<Piece(None, First)>> ELSE <<>>
Footer == IF Html THEN <<Piece(None, Last)>> ELSE <<>>

Pieces == [peer : Peers \cup {None}, what : Nat]

-----------------------------------------------------------------------------
Alive == main \notin {"exited", "aborted"}

Active(p) == peer[p] \notin {"none", "ended"}

TypeOK ==
  /\ main \in {"start", "spawn", "join", "exited", "aborted"}
  /\ next \in 1 .. NumHosts + 1
  /\ peer \in [Peers -> {"none", "connect", "query", "lock", "print", "hangup",
                         "ended"}]
  /\ silent \in SUBSET Peers
  /\ responses \in [Peers -> Seq({"some", "empty"})]
  /\ at \in [Peers -> First .. Last + 1]
  /\ mtx \in Peers \cup {None}
  /\ out \in Seq(Pieces)

Init ==
  /\ main = "start"
  /\ next = 1
  /\ peer = [p \in Peers |-> "none"]
  /\ silent = {}
  /\ responses = [p \in Peers |-> <<>>]
  /\ at = [p \in Peers |-> First]
  /\ mtx = None
  /\ out = <<>>

-----------------------------------------------------------------------------
(* main() *)

PrintHeader ==
  /\ main = "start"
  /\ main' = "spawn"
  /\ out' = out \o Header
  /\ UNCHANGED <<next, peer, silent, responses, at, mtx>>

\* Variant of SpawnThread that starts one thread too many.
SpawnThread_OneMore ==
  /\ main = "spawn"
  /\ next <= NumHosts + 1
  /\ next' = next + 1
  /\ peer' = [peer EXCEPT ![next] = "connect"]
  /\ UNCHANGED <<main, silent, responses, at, mtx, out>>

SpawnThread ==
  /\ main = "spawn"
  /\ next <= NumHosts
  /\ next' = next + 1
  /\ peer' = [peer EXCEPT ![next] = "connect"]
  /\ UNCHANGED <<main, silent, responses, at, mtx, out>>

\* std::thread's constructor throws; with no handler, or from the destructor
\* of the threads that were started, the process terminates.
SpawnThrows ==
  /\ main = "spawn"
  /\ "spawn" \in Faults
  /\ next <= NumHosts
  /\ main' = "aborted"
  /\ UNCHANGED <<next, peer, silent, responses, at, mtx, out>>

SpawnEnd ==
  /\ main = "spawn"
  /\ next > NumHosts
  /\ main' = "join"
  /\ next' = 1
  /\ UNCHANGED <<peer, silent, responses, at, mtx, out>>

\* Variant of Join that detaches.
Join_Detaches ==
  /\ main = "join"
  /\ next <= NumHosts
  /\ next' = next + 1
  /\ UNCHANGED <<main, peer, silent, responses, at, mtx, out>>

Join ==
  /\ main = "join"
  /\ next <= NumHosts
  /\ peer[next] = "ended"
  /\ next' = next + 1
  /\ UNCHANGED <<main, peer, silent, responses, at, mtx, out>>

\* mctallycgi closes the page; main() returns.
Exit ==
  /\ main = "join"
  /\ next > NumHosts
  /\ main' = "exited"
  /\ out' = out \o Footer
  /\ UNCHANGED <<next, peer, silent, responses, at, mtx>>

-----------------------------------------------------------------------------
(* PeerThread *)

PeerGoes(p, from, to) ==
  /\ Alive
  /\ peer[p] = from
  /\ peer' = [peer EXCEPT ![p] = to]

\* The host, or the network to it, goes away without closing the connection,
\* and whatever PeerThread waits for does not come.
GoSilent(p) ==
  /\ Alive
  /\ "silent" \in Faults
  /\ peer[p] \in {"connect", "query"}
  /\ silent' = silent \cup {p}
  /\ UNCHANGED <<mainVars, peer, responses, at, mtx, out>>

\* Variant of Connected that takes the mutex for the whole session.
Connected_Locks(p) ==
  /\ p \notin silent
  /\ mtx = None
  /\ PeerGoes(p, "connect", "query")
  /\ mtx' = p
  /\ UNCHANGED <<mainVars, silent, responses, at, out>>

\* GetPeer returns true.
Connected(p) ==
  /\ p \notin silent
  /\ PeerGoes(p, "connect", "query")
  /\ UNCHANGED <<mainVars, silent, responses, at, mtx, out>>

\* GetPeer returns false.
NotConnected(p) ==
  /\ p \notin silent
  /\ "unanswered" \in Faults
  /\ PeerGoes(p, "connect", "hangup")
  /\ UNCHANGED <<mainVars, silent, responses, at, mtx, out>>

\* SendReceive returns true: there is a response to each request.
Answered(p) ==
  /\ p \notin silent
  /\ PeerGoes(p, "query", "lock")
  /\ \E empty \in SUBSET MayBeEmpty :
       responses' = [responses EXCEPT ![p] =
         [i \in DOMAIN Requests |-> IF i \in empty THEN "empty" ELSE "some"]]
  /\ UNCHANGED <<mainVars, silent, at, mtx, out>>

\* SendReceive returns false.
NotAnswered(p) ==
  /\ p \notin silent
  /\ "unanswered" \in Faults
  /\ PeerGoes(p, "query", "hangup")
  /\ UNCHANGED <<mainVars, silent, responses, at, mtx, out>>

\* Variant of Lock without the mutex.
Lock_Nothing(p) ==
  /\ PeerGoes(p, "lock", "print")
  /\ UNCHANGED <<mainVars, silent, responses, at, mtx, out>>

Lock(p) ==
  /\ mtx = None
  /\ PeerGoes(p, "lock", "print")
  /\ mtx' = p
  /\ UNCHANGED <<mainVars, silent, responses, at, out>>

PrintPiece(p) ==
  /\ at[p] <= Last
  /\ PeerGoes(p, "print", "print")
  /\ at' = [at EXCEPT ![p] = @ + 1]
  /\ out' = IF Shows(p, at[p]) THEN Append(out, Piece(p, at[p])) ELSE out
  /\ UNCHANGED <<mainVars, silent, responses, mtx>>

\* Variant of Unlock that keeps the mutex.
Unlock_Keeps(p) ==
  /\ at[p] > Last
  /\ PeerGoes(p, "print", "hangup")
  /\ UNCHANGED <<mainVars, silent, responses, at, mtx, out>>

Unlock(p) ==
  /\ at[p] > Last
  /\ PeerGoes(p, "print", "hangup")
  /\ mtx' = None
  /\ UNCHANGED <<mainVars, silent, responses, at, out>>

\* Disconnect, and the thread's return.
Hangup(p) ==
  /\ PeerGoes(p, "hangup", "ended")
  /\ UNCHANGED <<mainVars, silent, responses, at, mtx, out>>

\* The process is gone; the model's stutter, not a step of the code.
Terminated ==
  /\ ~Alive
  /\ UNCHANGED vars

-----------------------------------------------------------------------------
Main ==
  PrintHeader \/ SpawnThread \/ SpawnThrows \/ SpawnEnd \/ Join \/ Exit

PeerThread(p) ==
  \/ Connected(p) \/ NotConnected(p) \/ Answered(p) \/ NotAnswered(p)
  \/ Lock(p) \/ PrintPiece(p) \/ Unlock(p) \/ Hangup(p)

Next ==
  \/ Main
  \/ \E p \in Peers : PeerThread(p) \/ GoSilent(p)
  \/ Terminated

Spec == Init /\ [][Next]_vars

\* Every thread goes on when it can; a mutex that is given back is taken by
\* one of those that wait for it.
FairSpec == Spec /\ WF_vars(Main) /\ \A p \in Peers : WF_vars(PeerThread(p))

-----------------------------------------------------------------------------
(***************************************************************************)
(* Properties                                                              *)
(***************************************************************************)
\* No report is interrupted by another, or by the page's own lines: between
\* two pieces of one thread's report there is nothing of anyone else, however
\* the threads are interleaved and even when the process aborts.
ReportsInOnePiece ==
  \A i, k \in DOMAIN out : \A j \in i .. k :
    out[i].peer = out[k].peer /\ out[i].peer # None => out[j].peer = out[i].peer

\* The places of p's pieces on the output.
PlacesOf(p) == {i \in DOMAIN out : out[i].peer = p}

\* They are the pieces of p's report from its first to before k, each of them
\* once and in order.
ReportedUpTo(p, k) ==
  /\ {out[i].what : i \in PlacesOf(p)} = {n \in First .. k - 1 : Shows(p, n)}
  /\ \A i, j \in PlacesOf(p) : i < j => out[i].what < out[j].what

\* When main() returns no thread is left that could still print or use the
\* requests it was lent; every host that answered has its whole report on the
\* output, once, and the others have nothing there; and mctallycgi's page
\* encloses all of them.
ExitsWithWholeReports ==
  main = "exited" =>
    /\ \A p \in Peers :
         /\ ~Active(p)
         /\ ReportedUpTo(p, IF responses[p] = <<>> THEN First ELSE Last + 1)
    /\ Html => /\ out[1] = Piece(None, First)
               /\ out[Len(out)] = Piece(None, Last)

\* A host that has answered is reported although another has gone silent:
\* nobody holds the mutex while waiting for a host.
OthersNotHeldUp ==
  \A p \in Peers : peer[p] = "query" /\ p \notin silent ~>
    peer[p] = "ended" \/ p \in silent \/ ~Alive

\* The run ends in main()'s return, whoever answers, unless a host goes silent
\* or a thread cannot be started.
EndsInOrder == <>(main = "exited" \/ silent # {} \/ ~Alive)

-----------------------------------------------------------------------------
(***************************************************************************)
(* What makes ReportsInOnePiece inductive.                                 *)
(***************************************************************************)
\* main() has started none yet, those before `next`, or all of them, and has
\* joined those before `next`, or all of them.
MainInTurn ==
  \A p \in Peers :
    /\ main = "start" => peer[p] = "none"
    /\ main = "spawn" /\ p >= next => peer[p] = "none"
    /\ main = "join" /\ p < next => peer[p] = "ended"
    /\ main = "exited" => peer[p] = "ended"

\* The thread that prints is the one that holds the mutex.
OnePrinter == \A p \in Peers : peer[p] = "print" <=> mtx = p

\* A thread that has not had the mutex has nothing on the output.
NotYetPrinted ==
  \A p \in Peers : peer[p] \in {"none", "connect", "query", "lock"} =>
    \A i \in DOMAIN out : out[i].peer # p

\* If the printer has something on the output, it is the last thing there.
LastIsPrinters ==
  \A p \in Peers, i \in DOMAIN out :
    peer[p] = "print" /\ out[i].peer = p => out[Len(out)].peer = p

IInv ==
  /\ TypeOK
  /\ MainInTurn
  /\ OnePrinter
  /\ NotYetPrinted
  /\ LastIsPrinters
  /\ ReportsInOnePiece

(***************************************************************************)
(* What makes ExitsWithWholeReports inductive, together with IInv.         *)
(***************************************************************************)
\* A thread has its responses once SendReceive has returned true, and begins
\* its report with the mutex and ends it before it gives it back.
AtInPlace ==
  \A p \in Peers :
    /\ peer[p] \in {"none", "connect", "query"} => responses[p] = <<>>
    /\ peer[p] \in {"lock", "print"} => responses[p] # <<>>
    /\ peer[p] \in {"none", "connect", "query", "lock"} => at[p] = First
    /\ peer[p] \in {"hangup", "ended"} =>
         at[p] = IF responses[p] = <<>> THEN First ELSE Last + 1

ReportedSoFar == \A p \in Peers : ReportedUpTo(p, at[p])

\* The page is begun before any thread is, with nothing before it, and ended when
\* main() returns.
PageAround ==
  /\ main = "start" => out = <<>>
  /\ Html => /\ main # "start" => out # <<>> /\ out[1] = Piece(None, First)
             /\ main = "exited" => out[Len(out)] = Piece(None, Last)

RInv == AtInPlace /\ ReportedSoFar /\ PageAround

=============================================================================
