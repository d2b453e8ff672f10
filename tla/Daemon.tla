------------------------------- MODULE Daemon -------------------------------
(***************************************************************************)
(* The life of mctallyd processes on one machine, from main() to the end:  *)
(* the signal handlers that follow one another, the PID file they share    *)
(* and the address they all want.  What the server does while it runs is   *)
(* module Server.                                                          *)
(*                                                                         *)
(* apps/mctallyd/mctallyd.cc.in, DwmMcTallyServer.hh                       *)
(***************************************************************************)
EXTENDS Naturals

CONSTANTS
  Procs,      \* processes, each named by its PID
  PidLen,     \* how many digits a PID has
  ExLock,     \* the system has O_EXLOCK
  MaxSigTerms, \* bound: how many SIGTERMs one process is sent
  Faults,     \* which of "config", "pidfile", "clients" may happen
  None        \* no PID

ASSUME PidLenAssumption == PidLen \in [Procs -> Nat]
ASSUME SystemAssumption == ExLock \in BOOLEAN
ASSUME MaxSigTermsAssumption == MaxSigTerms \in Nat
ASSUME DaemonFaultsAssumption == Faults \subseteq {"config", "pidfile", "clients"}
ASSUME PidNoneAssumption == None \notin Procs

VARIABLES
  proc,       \* where each process is
  sent,       \* how many SIGTERMs it was sent
  queued,     \* asio's signal_set holds a SIGTERM for it
  got,        \* g_gotSigTerm
  stopped,    \* g_serverContext is stopped
  listening,  \* it holds the service address
  pidFile,    \* the PID file: whose PID was written last, and its length
  linked      \* the PID file it has open is still the one at the path

vars == <<proc, sent, queued, got, stopped, listening, pidFile, linked>>

(***************************************************************************)
(* The places of main(), named for what comes next.  A process that has    *)
(* "exited" returned from main(), one that is "killed" was ended by a      *)
(* SIGTERM that it did not handle, one that is "aborted" by an exception   *)
(* or by std::terminate.                                                   *)
(***************************************************************************)
Ended == {"exited", "failed", "killed", "aborted"}
States == {"absent", "parse", "push", "open", "write", "watch", "bind", "run",
           "poll", "remove", "destroy"} \cup Ended

Running(p) == proc[p] \notin Ended \cup {"absent"}

\* No PID file, or an empty one; and one that holds p's PID and nothing else.
Blank == [last |-> None, len |-> 0]
Holds(p) == [last |-> p, len |-> PidLen[p]]

\* Variant of Disposition: SigTermHandler is not pushed before the PID is saved.
Disposition_Late(p) ==
  IF proc[p] \in {"parse", "push", "open", "write", "watch"} THEN "default"
                                                            ELSE "signal_set"

\* What SIGTERM does: PushHandler installs SigTermHandler, and the
\* signal_set's constructor replaces it with asio's handler.
Disposition(p) ==
  CASE proc[p] \in {"parse", "push"} -> "default"
    [] proc[p] \in {"open", "write", "watch"} -> "SigTermHandler"
    [] OTHER -> "signal_set"

TypeOK ==
  /\ proc \in [Procs -> States]
  /\ sent \in [Procs -> 0 .. MaxSigTerms]
  /\ queued \in [Procs -> BOOLEAN]
  /\ got \in [Procs -> BOOLEAN]
  /\ stopped \in [Procs -> BOOLEAN]
  /\ listening \in [Procs -> BOOLEAN]
  /\ pidFile \in [last : Procs \cup {None}, len : Nat]
  /\ linked \in [Procs -> BOOLEAN]

Init ==
  /\ proc = [p \in Procs |-> "absent"]
  /\ sent = [p \in Procs |-> 0]
  /\ queued = [p \in Procs |-> FALSE]
  /\ got = [p \in Procs |-> FALSE]
  /\ stopped = [p \in Procs |-> FALSE]
  /\ listening = [p \in Procs |-> FALSE]
  /\ pidFile = Blank
  /\ linked = [p \in Procs |-> FALSE]

Goes(p, from, to) ==
  /\ proc[p] = from
  /\ proc' = [proc EXCEPT ![p] = to]

\* The end of a process gives back what the kernel held for it.
Ends(p, from, how) ==
  /\ Goes(p, from, how)
  /\ listening' = [listening EXCEPT ![p] = FALSE]
  /\ linked' = [linked EXCEPT ![p] = FALSE]

-----------------------------------------------------------------------------
(* The operator.  Nothing keeps a second daemon from being started. *)

Start(p) ==
  /\ Goes(p, "absent", "parse")
  /\ UNCHANGED <<sent, queued, got, stopped, listening, pidFile, linked>>

\* Variant of Send without its bound.
Send_NoBound(p) ==
  /\ Running(p)
  /\ sent[p] <= MaxSigTerms
  /\ sent' = [sent EXCEPT ![p] = @ + 1]

\* One SIGTERM, within the bound.
Send(p) ==
  /\ Running(p)
  /\ sent[p] < MaxSigTerms
  /\ sent' = [sent EXCEPT ![p] = @ + 1]

SigTermKills(p) ==
  /\ Disposition(p) = "default"
  /\ Send(p)
  /\ Ends(p, proc[p], "killed")
  /\ UNCHANGED <<queued, got, stopped, pidFile>>

SigTermHandler(p) ==
  /\ Disposition(p) = "SigTermHandler"
  /\ Send(p)
  /\ got' = [got EXCEPT ![p] = TRUE]
  /\ stopped' = [stopped EXCEPT ![p] = TRUE]
  /\ UNCHANGED <<proc, queued, listening, pidFile, linked>>

\* asio's handler keeps the signal until someone waits for it.
SigTermQueued(p) ==
  /\ Disposition(p) = "signal_set"
  /\ Send(p)
  /\ queued' = [queued EXCEPT ![p] = TRUE]
  /\ UNCHANGED <<proc, got, stopped, listening, pidFile, linked>>

-----------------------------------------------------------------------------
(* main() *)

Parse(p) ==
  /\ \/ Goes(p, "parse", "push")
     \/ "config" \in Faults /\ Goes(p, "parse", "failed")
  /\ UNCHANGED <<sent, queued, got, stopped, listening, pidFile, linked>>

PushHandler(p) ==
  /\ Goes(p, "push", "open")
  /\ UNCHANGED <<sent, queued, got, stopped, listening, pidFile, linked>>

\* Variant of MayOpen for a lock that does not exclude.
MayOpen_Shared(p) == TRUE

\* open() waits for the lock of another process on the same file.
MayOpen(p) ==
  ExLock => \A q \in Procs \ {p} : ~(proc[q] = "write" /\ linked[q])

\* SavePID's open() truncates the file or makes it; that it fails is not told.
OpenPid(p) ==
  \/ /\ MayOpen(p)
     /\ Goes(p, "open", "write")
     /\ pidFile' = Blank
     /\ linked' = [linked EXCEPT ![p] = TRUE]
     /\ UNCHANGED <<sent, queued, got, stopped, listening>>
  \/ /\ "pidfile" \in Faults
     /\ Goes(p, "open", "watch")
     /\ UNCHANGED <<sent, queued, got, stopped, listening, pidFile, linked>>

\* What a write of p's PID at the start of the file leaves there: the end of a
\* longer one survives.
Overwrite(file, p) ==
  [last |-> p, len |-> IF file.len > PidLen[p] THEN file.len ELSE PidLen[p]]

\* SavePID's write() and close(); that the write fails is not told either.
WritePid(p) ==
  /\ Goes(p, "write", "watch")
  /\ \/ pidFile' = IF linked[p] THEN Overwrite(pidFile, p) ELSE pidFile
     \/ "pidfile" \in Faults /\ UNCHANGED pidFile
  /\ linked' = [linked EXCEPT ![p] = FALSE]
  /\ UNCHANGED <<sent, queued, got, stopped, listening>>

\* The signal_set's constructor and async_wait.
Watch(p) ==
  /\ Goes(p, "watch", "bind")
  /\ UNCHANGED <<sent, queued, got, stopped, listening, pidFile, linked>>

\* The Server's constructor listens on the address,
BindOk(p) ==
  /\ \A q \in Procs : ~listening[q]
  /\ Goes(p, "bind", "run")
  /\ listening' = [listening EXCEPT ![p] = TRUE]
  /\ UNCHANGED <<sent, queued, got, stopped, pidFile, linked>>

\* or bind() throws, for the address is in use; nothing catches it.
BindThrows(p) ==
  /\ \E q \in Procs : listening[q]
  /\ Ends(p, "bind", "aborted")
  /\ UNCHANGED <<sent, queued, got, stopped, pidFile>>

\* Variant of BoostSignalHandler that leaves the context alone.
BoostSignalHandler_NoStop(p) ==
  /\ proc[p] = "run"
  /\ queued[p] /\ ~stopped[p]
  /\ queued' = [queued EXCEPT ![p] = FALSE]
  /\ got' = [got EXCEPT ![p] = TRUE]
  /\ UNCHANGED <<proc, sent, stopped, listening, pidFile, linked>>

\* run() delivers the signal.
BoostSignalHandler(p) ==
  /\ proc[p] = "run"
  /\ queued[p] /\ ~stopped[p]
  /\ queued' = [queued EXCEPT ![p] = FALSE]
  /\ got' = [got EXCEPT ![p] = TRUE]
  /\ stopped' = [stopped EXCEPT ![p] = TRUE]
  /\ UNCHANGED <<proc, sent, listening, pidFile, linked>>

\* run() returns when the context is stopped, and at once when it was stopped
\* before; the wait for a signal keeps it from running out of work.
RunReturns(p) ==
  /\ stopped[p]
  /\ Goes(p, "run", "poll")
  /\ UNCHANGED <<sent, queued, got, stopped, listening, pidFile, linked>>

\* server.Stop(); otherwise the loop sleeps and looks again.
PollSigTerm(p) ==
  /\ got[p]
  /\ Goes(p, "poll", "remove")
  /\ UNCHANGED <<sent, queued, got, stopped, listening, pidFile, linked>>

\* remove() takes the file from the path, whoever wrote it.
RemovePID(p) ==
  /\ Goes(p, "remove", "destroy")
  /\ pidFile' = Blank
  /\ linked' = [q \in Procs |-> FALSE]
  /\ UNCHANGED <<sent, queued, got, stopped, listening>>

\* main() returns: ~Server closes the sockets, or ends in std::terminate when
\* a client is still connected (Server's DestroyTerminates).
Return(p) ==
  /\ \/ Ends(p, "destroy", "exited")
     \/ "clients" \in Faults /\ Ends(p, "destroy", "aborted")
  /\ UNCHANGED <<sent, queued, got, stopped, pidFile>>

\* Every process has come and gone.
Terminated ==
  /\ \A p \in Procs : proc[p] \in Ended
  /\ UNCHANGED vars

-----------------------------------------------------------------------------
Signal(p) == SigTermKills(p) \/ SigTermHandler(p) \/ SigTermQueued(p)

Main(p) ==
  \/ Parse(p) \/ PushHandler(p) \/ OpenPid(p) \/ WritePid(p) \/ Watch(p)
  \/ BindOk(p) \/ BindThrows(p) \/ BoostSignalHandler(p) \/ RunReturns(p)
  \/ PollSigTerm(p) \/ RemovePID(p) \/ Return(p)

Next ==
  \/ \E p \in Procs : Start(p) \/ Signal(p) \/ Main(p)
  \/ Terminated

Spec == Init /\ [][Next]_vars

\* A process goes on when it can: every step of main() is bounded, and run()
\* delivers a signal that is waiting.
FairSpec == Spec /\ \A p \in Procs : WF_vars(Main(p))

-----------------------------------------------------------------------------
(***************************************************************************)
(* Properties                                                              *)
(***************************************************************************)
\* A process that ended in order, or by a SIGTERM it did not handle, leaves no
\* PID file with its PID: there is no moment at which the file names it and
\* the default action still applies.
EndsWithoutPidFile ==
  \A p \in Procs :
    proc[p] \in {"exited", "failed", "killed"} => pidFile # Holds(p)

\* Where open() locks, the file never holds a mixture of two PIDs.
PidFileWhole == pidFile \in {Blank} \cup {Holds(p) : p \in Procs}

\* The PID file names the daemon that serves, from before it listens until it
\* is about to go: a stop through the file reaches it.
PidFileNamesDaemon ==
  \A p \in Procs : listening[p] /\ proc[p] \in {"run", "poll", "remove"} =>
    pidFile = Holds(p)

\* A SIGTERM ends the process, in whichever window between two handlers it
\* arrives.
SigTermEnds == \A p \in Procs : sent[p] > 0 ~> proc[p] \in Ended

(***************************************************************************)
(* What makes the PID file's properties inductive.                         *)
(***************************************************************************)
\* Only a process that handles SIGTERM and has yet to remove the file, or one
\* that an exception ended, can be the last that wrote it.
LastWriter ==
  \A p \in Procs : pidFile.last = p =>
    proc[p] \in {"watch", "bind", "run", "poll", "remove", "aborted"}

\* A process that has the file open is about to write it; where open() locks,
\* it is the only one and finds the file as it left it.
OpenFile ==
  \A p \in Procs : linked[p] =>
    /\ proc[p] = "write"
    /\ ExLock => pidFile = Blank /\ \A q \in Procs \ {p} : ~linked[q]

IInv == TypeOK /\ LastWriter /\ OpenFile /\ (ExLock => PidFileWhole)

=============================================================================
