----------------------------- MODULE DaemonProofs -----------------------------
(***************************************************************************)
(* Proofs about Daemon's PID file, for any processes, PIDs and faults.     *)
(***************************************************************************)
EXTENDS Daemon, TLAPS

LEMMA InitIInv == Init => IInv
<1> SUFFICES ASSUME Init PROVE IInv
  OBVIOUS
<1>1. TypeOK
  BY MaxSigTermsAssumption DEF Init, TypeOK, States, Blank
<1>2. LastWriter
  BY PidNoneAssumption DEF Init, LastWriter, Blank
<1>3. OpenFile /\ PidFileWhole
  BY DEF Init, OpenFile, PidFileWhole
<1> QED
  BY <1>1, <1>2, <1>3 DEF IInv

\* A step of process p that leaves the PID file alone: from where it may be the
\* last writer it goes on to where it may be, or it never was.
LEMMA NoFileIInv ==
  ASSUME IInv, NEW p \in Procs, TypeOK', UNCHANGED pidFile,
         \A q \in Procs : linked'[q] => linked[q],
         \A q \in Procs \ {p} : proc'[q] = proc[q],
         linked'[p] => proc'[p] = "write",
         pidFile.last = p =>
           proc'[p] \in {"watch", "bind", "run", "poll", "remove", "aborted"}
  PROVE  IInv'
<1>1. LastWriter'
  BY DEF IInv, LastWriter
<1>2. OpenFile'
  BY DEF IInv, OpenFile
<1>3. (ExLock => PidFileWhole)'
  BY DEF IInv, PidFileWhole
<1> QED
  BY <1>1, <1>2, <1>3 DEF IInv

LEMMA SignalIInv ==
  ASSUME IInv, NEW p \in Procs, Start(p) \/ Signal(p)
  PROVE  IInv'
<1>1. TypeOK'
  <2>1. sent' \in [Procs -> 0 .. MaxSigTerms]
    BY MaxSigTermsAssumption
    DEF Start, Signal, SigTermKills, SigTermHandler, SigTermQueued, Send,
        IInv, TypeOK
  <2>2. CASE Start(p)
    BY <2>1, <2>2 DEF Start, Goes, IInv, TypeOK, States
  <2>3. CASE SigTermKills(p)
    BY <2>1, <2>3 DEF SigTermKills, Ends, Goes, IInv, TypeOK, States, Ended
  <2>4. CASE SigTermHandler(p) \/ SigTermQueued(p)
    BY <2>1, <2>4 DEF SigTermHandler, SigTermQueued, IInv, TypeOK
  <2> QED
    BY <2>2, <2>3, <2>4 DEF Signal
<1>2. CASE Start(p) \/ SigTermKills(p)
  <2>1. proc[p] \in {"absent", "parse", "push"}
    BY <1>2 DEF Start, SigTermKills, Disposition, Goes, IInv, TypeOK, States, Ended
  <2>2. ~linked'[p]
    BY <1>2, <2>1 DEF Start, SigTermKills, Ends, Goes, IInv, TypeOK, OpenFile
  <2>3. /\ \A q \in Procs : linked'[q] => linked[q]
        /\ \A q \in Procs \ {p} : proc'[q] = proc[q]
        /\ UNCHANGED pidFile
    BY <1>2 DEF Start, SigTermKills, Ends, Goes, IInv, TypeOK
  <2>4. pidFile.last # p
    BY <2>1 DEF IInv, LastWriter
  <2> QED
    BY <1>1, <2>2, <2>3, <2>4, NoFileIInv
<1>3. CASE SigTermHandler(p) \/ SigTermQueued(p)
  <2>1. UNCHANGED <<proc, linked, pidFile>>
    BY <1>3 DEF SigTermHandler, SigTermQueued
  <2> QED
    BY <1>1, <2>1, NoFileIInv DEF IInv, LastWriter, OpenFile
<1> QED
  BY <1>2, <1>3 DEF Signal

\* The steps of main() that do not touch the PID file.
LEMMA PlainIInv ==
  ASSUME IInv, NEW p \in Procs,
         \/ Parse(p) \/ PushHandler(p) \/ Watch(p) \/ BindOk(p) \/ BindThrows(p)
         \/ BoostSignalHandler(p) \/ RunReturns(p) \/ PollSigTerm(p) \/ Return(p)
  PROVE  IInv'
<1> USE DEF Parse, PushHandler, Watch, BindOk, BindThrows, BoostSignalHandler,
            RunReturns, PollSigTerm, Return, Ends, Goes
<1>1. TypeOK'
  BY DEF IInv, TypeOK, States, Ended
<1>2. UNCHANGED pidFile
  OBVIOUS
<1>3. /\ \A q \in Procs : linked'[q] => linked[q]
      /\ \A q \in Procs \ {p} : proc'[q] = proc[q]
  BY DEF IInv, TypeOK
<1>4. ~linked'[p]
  BY DEF IInv, TypeOK, OpenFile
<1>5. pidFile.last = p =>
        proc'[p] \in {"watch", "bind", "run", "poll", "remove", "aborted"}
  BY DEF IInv, TypeOK, LastWriter
<1> QED
  BY <1>1, <1>2, <1>3, <1>4, <1>5, NoFileIInv

\* The steps of main() on the PID file.
LEMMA FileIInv ==
  ASSUME IInv, NEW p \in Procs, OpenPid(p) \/ WritePid(p) \/ RemovePID(p)
  PROVE  IInv'
<1> DEFINE Opens ==
      /\ Goes(p, "open", "write")
      /\ pidFile' = Blank
      /\ linked' = [linked EXCEPT ![p] = TRUE]
      /\ UNCHANGED <<sent, queued, got, stopped, listening>>
<1>1. CASE OpenPid(p) /\ ~(MayOpen(p) /\ Opens)
  <2>1. /\ proc[p] = "open" /\ proc' = [proc EXCEPT ![p] = "watch"]
        /\ UNCHANGED <<sent, queued, got, stopped, listening, pidFile, linked>>
    BY <1>1 DEF OpenPid, Goes
  <2>2. TypeOK'
    BY <2>1 DEF IInv, TypeOK, States
  <2>3. ~linked[p]
    BY <2>1 DEF IInv, OpenFile
  <2> QED
    BY <2>1, <2>2, <2>3, NoFileIInv DEF IInv, TypeOK
<1>2. CASE MayOpen(p) /\ Opens
  <2>1. TypeOK'
    BY <1>2 DEF Goes, IInv, TypeOK, States, Blank
  <2>2. LastWriter'
    BY <1>2, PidNoneAssumption DEF LastWriter, Blank
  <2>3. OpenFile'
    <3>1. ExLock => \A q \in Procs \ {p} : ~linked[q]
      BY <1>2 DEF MayOpen, IInv, OpenFile
    <3>2. \A q \in Procs : linked'[q] = (q = p \/ linked[q])
      BY <1>2 DEF IInv, TypeOK
    <3> QED
      BY <1>2, <3>1, <3>2 DEF Goes, IInv, TypeOK, OpenFile
  <2>4. PidFileWhole'
    BY <1>2 DEF PidFileWhole
  <2> QED
    BY <2>1, <2>2, <2>3, <2>4 DEF IInv
<1>3. CASE WritePid(p)
  <2>1. /\ proc[p] = "write" /\ proc' = [proc EXCEPT ![p] = "watch"]
        /\ linked' = [linked EXCEPT ![p] = FALSE]
        /\ UNCHANGED <<sent, queued, got, stopped, listening>>
        /\ pidFile' = pidFile \/ (linked[p] /\ pidFile' = Overwrite(pidFile, p))
    BY <1>3 DEF WritePid, Goes
  <2>2. /\ Overwrite(pidFile, p) \in [last : Procs \cup {None}, len : Nat]
        /\ Overwrite(pidFile, p).last = p
    BY PidLenAssumption DEF Overwrite, IInv, TypeOK
  <2>3. TypeOK'
    BY <2>1, <2>2 DEF IInv, TypeOK, States
  <2>4. LastWriter'
    BY <2>1, <2>2 DEF IInv, TypeOK, LastWriter
  <2>5. OpenFile'
    <3>1. CASE pidFile' = pidFile \/ ~ExLock
      BY <2>1, <3>1 DEF IInv, TypeOK, OpenFile
    <3>2. CASE linked[p] /\ ExLock
      BY <2>1, <3>2 DEF IInv, TypeOK, OpenFile
    <3> QED
      BY <2>1, <3>1, <3>2
  <2>6. (ExLock => PidFileWhole)'
    <3>1. CASE linked[p] /\ ExLock /\ pidFile' = Overwrite(pidFile, p)
      <4>1. pidFile = Blank
        BY <3>1 DEF IInv, OpenFile
      <4>2. ~(0 > PidLen[p])
        BY PidLenAssumption
      <4>3. Overwrite(pidFile, p) = Holds(p)
        BY <4>1, <4>2 DEF Overwrite, Blank, Holds
      <4> QED
        BY <3>1, <4>3 DEF PidFileWhole, Holds
    <3> QED
      BY <2>1, <3>1 DEF IInv, PidFileWhole
  <2> QED
    BY <2>3, <2>4, <2>5, <2>6 DEF IInv
<1>4. CASE RemovePID(p)
  <2>1. TypeOK'
    BY <1>4 DEF RemovePID, Goes, IInv, TypeOK, States, Blank
  <2>2. LastWriter'
    BY <1>4, PidNoneAssumption DEF RemovePID, LastWriter, Blank
  <2>3. OpenFile' /\ PidFileWhole'
    BY <1>4 DEF RemovePID, OpenFile, PidFileWhole
  <2> QED
    BY <2>1, <2>2, <2>3 DEF IInv
<1> QED
  BY <1>1, <1>2, <1>3, <1>4

LEMMA NextIInv == IInv /\ [Next]_vars => IInv'
<1> SUFFICES ASSUME IInv, [Next]_vars PROVE IInv'
  OBVIOUS
<1>1. ASSUME NEW p \in Procs, Main(p) PROVE IInv'
  BY <1>1, PlainIInv, FileIInv DEF Main
<1>2. CASE UNCHANGED vars
  BY <1>2 DEF vars, IInv, TypeOK, LastWriter, OpenFile, PidFileWhole
<1> QED
  BY <1>1, <1>2, SignalIInv DEF Next, Terminated

\* The invariant, of which the theorems below are parts.
THEOREM DaemonInvariant == Spec => []IInv
<1> QED
  BY InitIInv, NextIInv, PTL DEF Spec

\* Every variable keeps its type.
THEOREM DaemonTypeOK == Spec => []TypeOK
<1>1. IInv => TypeOK
  BY DEF IInv
<1> QED
  BY <1>1, DaemonInvariant, PTL

\* However many daemons are started and stopped at once, none that returned
\* from main(), or was ended by a SIGTERM's default action, is named by the
\* PID file.
THEOREM EndedAreNotNamed == Spec => []EndsWithoutPidFile
<1>1. IInv => EndsWithoutPidFile
  BY DEF IInv, LastWriter, EndsWithoutPidFile, Holds
<1> QED
  BY <1>1, DaemonInvariant, PTL

\* Where open() locks, no two PIDs are ever mixed in the file.
THEOREM LockedPidFileWhole == ExLock => (Spec => []PidFileWhole)
<1> SUFFICES ASSUME ExLock PROVE Spec => []PidFileWhole
  OBVIOUS
<1>1. IInv => PidFileWhole
  BY DEF IInv
<1> QED
  BY <1>1, DaemonInvariant, PTL

===============================================================================
