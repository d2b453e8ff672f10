------------------------------- MODULE Logins -------------------------------
(***************************************************************************)
(* Logins::SetFromUtmp, which several Responder threads call at once while *)
(* users log in and out.  getutxent() has one cursor and one buffer for    *)
(* the whole process, and a mutex is all that keeps two walks apart.       *)
(*                                                                         *)
(* classes/src/DwmMcTallyLogins.cc                                         *)
(***************************************************************************)
EXTENDS Integers, SequencesExt

CONSTANTS
  Threads,    \* the threads with an e_logins request; each calls it once
  NumLines,   \* how many records utmp has, one for each terminal line
  MaxTime,    \* bound: the last second of the clock
  MaxChanges, \* bound: how often users act and the clock is set back
  Modulus,    \* how many values a uint64_t has
  Faults,     \* which of "clock" (it is set back), "tty" (stat fails) may happen
  None        \* no login, no owner

ASSUME NumLinesAssumption == NumLines \in Nat
ASSUME TimeAssumption == MaxTime \in Nat /\ Modulus \in Nat /\ MaxTime < Modulus
ASSUME MaxChangesAssumption == MaxChanges \in Nat
ASSUME LoginsFaultsAssumption == Faults \subseteq {"clock", "tty"}
ASSUME LoginsNoneAssumption == None \notin Threads /\ None \notin Int

Lines == 1 .. NumLines
Times == 0 .. MaxTime

VARIABLES
  now,      \* the clock
  utmp,     \* the login time of each line that has a user, else None
  atime,    \* when each line was last used
  setBack,  \* the clock has been set back
  changes,  \* how many changes there have been
  cursor,   \* how many records the process has read
  buffer,   \* the record that was read last
  mtx,      \* the thread that holds SetFromUtmp's mutex, or None
  at,       \* where each thread is
  entries,  \* each thread's _entries
  ever,     \* history: the logins there have been during each thread's walk
  always    \* history: those of them that were there from its start

hostVars == <<now, utmp, atime, setBack, changes>>
walkVars == <<cursor, buffer, mtx, at, entries>>
vars == <<hostVars, walkVars, ever, always>>

Login(line, time) == [line |-> line, login |-> time]

AnyLogin == [line : Lines, login : Times]

LoginEntry == [line : Lines, login : Times, idle : 0 .. Modulus - 1]

\* Who is logged in.
Logged == {Login(line, utmp[line]) : line \in {k \in Lines : utmp[k] # None}}

TypeOK ==
  /\ now \in Times
  /\ utmp \in [Lines -> Times \cup {None}]
  /\ atime \in [Lines -> Times]
  /\ setBack \in BOOLEAN
  /\ changes \in 0 .. MaxChanges
  /\ cursor \in 0 .. NumLines
  /\ mtx \in Threads \cup {None}
  /\ at \in [Threads -> {"clear", "lock", "walk", "entry", "end", "done"}]
  /\ entries \in [Threads -> Seq(LoginEntry)]
  /\ \A t \in Threads :
       at[t] = "entry" => buffer \in [line : Lines, login : Times \cup {None}]
  /\ ever \in [Threads -> SUBSET AnyLogin]
  /\ always \in [Threads -> SUBSET AnyLogin]

Walking(t) == at[t] \in {"walk", "entry", "end"}

Init ==
  /\ now = 0
  /\ utmp \in [Lines -> {None, 0}]
  /\ atime = [line \in Lines |-> 0]
  /\ setBack = FALSE
  /\ changes = 0
  /\ cursor = 0
  /\ buffer = None
  /\ mtx = None
  /\ at = [t \in Threads |-> "clear"]
  /\ entries = [t \in Threads |-> <<>>]
  /\ ever = [t \in Threads |-> {}]
  /\ always = [t \in Threads |-> {}]

-----------------------------------------------------------------------------
(* The host: its clock and its users. *)

Changes == changes < MaxChanges /\ changes' = changes + 1

Tick ==
  /\ now < MaxTime
  /\ now' = now + 1
  /\ UNCHANGED <<utmp, atime, setBack, changes, walkVars, ever, always>>

SetBack ==
  /\ "clock" \in Faults
  /\ now > 0
  /\ now' = now - 1
  /\ setBack' = TRUE
  /\ Changes
  /\ UNCHANGED <<utmp, atime, walkVars, ever, always>>

\* Logging in need not touch the terminal.
LogIn(line) ==
  /\ utmp[line] = None
  /\ Changes
  /\ utmp' = [utmp EXCEPT ![line] = now]
  /\ ever' = [t \in Threads |->
       IF Walking(t) THEN ever[t] \cup {Login(line, now)} ELSE ever[t]]
  /\ UNCHANGED <<now, atime, setBack, walkVars, always>>

Type(line) ==
  /\ utmp[line] # None
  /\ Changes
  /\ atime' = [atime EXCEPT ![line] = now]
  /\ UNCHANGED <<now, utmp, setBack, walkVars, ever, always>>

LogOut(line) ==
  /\ utmp[line] # None
  /\ Changes
  /\ utmp' = [utmp EXCEPT ![line] = None]
  /\ always' = [t \in Threads |->
       IF Walking(t) THEN always[t] \ {Login(line, utmp[line])} ELSE always[t]]
  /\ UNCHANGED <<now, atime, setBack, walkVars, ever>>

-----------------------------------------------------------------------------
(* SetFromUtmp. *)

Goes(t, from, to) ==
  /\ at[t] = from
  /\ at' = [at EXCEPT ![t] = to]

\* _entries.clear(), before the mutex.
Clear(t) ==
  /\ Goes(t, "clear", "lock")
  /\ entries' = [entries EXCEPT ![t] = <<>>]
  /\ UNCHANGED <<hostVars, cursor, buffer, mtx, ever, always>>

\* What is there when t begins to walk.
BeginsWalk(t) ==
  /\ ever' = [ever EXCEPT ![t] = Logged]
  /\ always' = [always EXCEPT ![t] = Logged]

\* Variant of Lock without the mutex.
Lock_Nothing(t) ==
  /\ Goes(t, "lock", "walk")
  /\ BeginsWalk(t)
  /\ UNCHANGED <<hostVars, cursor, buffer, mtx, entries>>

Lock(t) ==
  /\ Goes(t, "lock", "walk")
  /\ mtx = None
  /\ mtx' = t
  /\ BeginsWalk(t)
  /\ UNCHANGED <<hostVars, cursor, buffer, entries>>

\* getutxent() reads the next record.
GetUtxEnt(t) ==
  /\ cursor < NumLines
  /\ Goes(t, "walk", "entry")
  /\ cursor' = cursor + 1
  /\ buffer' = Login(cursor', utmp[cursor'])
  /\ UNCHANGED <<hostVars, mtx, entries, ever, always>>

\* getutxent() returns nullptr.
GetUtxEntEnds(t) ==
  /\ cursor = NumLines
  /\ Goes(t, "walk", "end")
  /\ UNCHANGED <<hostVars, cursor, buffer, mtx, entries, ever, always>>

\* Variant of IdleTime in a signed integer.
IdleTime_Signed(u) ==
  IF atime[u.line] > u.login THEN now - atime[u.line]
  ELSE IF now >= u.login THEN now - u.login
  ELSE 0

\* Variant of IdleTime that goes by the terminal alone.
IdleTime_AnyAccess(u) == (now - atime[u.line]) % Modulus

\* GetIdleTime, in a uint64_t.
IdleTime(u) ==
  IF atime[u.line] > u.login THEN (now - atime[u.line]) % Modulus
  ELSE IF now >= u.login THEN now - u.login
  ELSE 0

\* A record of a USER_PROCESS becomes a LoginEntry.
Entry(t) ==
  /\ Goes(t, "entry", "walk")
  /\ IF buffer.login = None THEN UNCHANGED entries
     ELSE \E idle \in {IdleTime(buffer)} \cup IF "tty" \in Faults THEN {0} ELSE {} :
            entries' = [entries EXCEPT ![t] = Append(@,
              [line |-> buffer.line, login |-> buffer.login, idle |-> idle])]
  /\ UNCHANGED <<hostVars, cursor, buffer, mtx, ever, always>>

\* std::sort by idle time, which leaves open how equal ones are ordered.
Sorted(s) ==
  {q \in {[k \in DOMAIN s |-> s[p[k]]] : p \in Bijection(DOMAIN s, DOMAIN s)} :
     \A k \in 1 .. Len(s) - 1 : q[k].idle <= q[k + 1].idle}

\* Variant of End that keeps the mutex.
End_KeepsMutex(t) ==
  /\ Goes(t, "end", "done")
  /\ cursor' = 0
  /\ \E s \in Sorted(entries[t]) : entries' = [entries EXCEPT ![t] = s]
  /\ buffer' = None
  /\ UNCHANGED <<hostVars, mtx, ever, always>>

\* endutxent(), the sort, and the end of the mutex's scope.
End(t) ==
  /\ Goes(t, "end", "done")
  /\ cursor' = 0
  /\ \E s \in Sorted(entries[t]) : entries' = [entries EXCEPT ![t] = s]
  /\ buffer' = None
  /\ mtx' = None
  /\ UNCHANGED <<hostVars, ever, always>>

-----------------------------------------------------------------------------
Host == \/ Tick \/ SetBack
        \/ \E line \in Lines : LogIn(line) \/ Type(line) \/ LogOut(line)

SetFromUtmp(t) ==
  \/ Clear(t) \/ Lock(t) \/ GetUtxEnt(t) \/ GetUtxEntEnds(t) \/ Entry(t) \/ End(t)

\* Everyone is answered; the model's stutter, not a step of the code.
Terminated == (\A t \in Threads : at[t] = "done") /\ UNCHANGED vars

Next == Host \/ (\E t \in Threads : SetFromUtmp(t)) \/ Terminated

Spec == Init /\ [][Next]_vars

\* Every thread goes on when it can, whatever the users do.
FairSpec == Spec /\ \A t \in Threads : WF_vars(SetFromUtmp(t))

-----------------------------------------------------------------------------
(***************************************************************************)
(* Properties                                                              *)
(***************************************************************************)
LoginsOf(t) == {Login(e.line, e.login) : e \in ToSet(entries[t])}

\* Each thread gets a whole walk of its own: every login that lasted through
\* it, none that was not there during it, and no line twice, whatever the
\* other threads and the users do meanwhile.
WholeWalk ==
  \A t \in Threads : at[t] = "done" =>
    /\ always[t] \subseteq LoginsOf(t)
    /\ LoginsOf(t) \subseteq ever[t]
    /\ \A e, f \in DOMAIN entries[t] :
         entries[t][e].line = entries[t][f].line => e = f

\* Nobody has been idle for longer than they have been logged in, since what
\* the terminal was used for before does not count.  Only a clock that was set
\* back after the terminal was used makes the difference wrap around.
IdleWithinLogin ==
  ~setBack => \A t \in Threads : \A k \in DOMAIN entries[t] :
    entries[t][k].idle <= now - entries[t][k].login

\* Every request for the logins is answered.
EveryoneIsAnswered == \A t \in Threads : <>(at[t] = "done")

-----------------------------------------------------------------------------
(***************************************************************************)
(* What makes WholeWalk and IdleWithinLogin inductive.                     *)
(***************************************************************************)
\* The thread that walks is the one that holds the mutex; it starts from the
\* first record, with a list that is still empty, and ends after the last.
OneWalker ==
  /\ \A t \in Threads : Walking(t) <=> mtx = t
  /\ mtx = None => cursor = 0
  /\ \A t \in Threads : at[t] = "end" => cursor = NumLines
  /\ \A t \in Threads : at[t] \in {"clear", "lock"} => entries[t] = <<>>

\* The last line that t has dealt with.
Past(t) == IF at[t] = "entry" THEN cursor - 1 ELSE cursor

\* A list is right as far as the walk has come, and nobody who is still there
\* is among those who left.
RightSoFar ==
  \A t \in Threads : Walking(t) =>
    /\ always[t] \subseteq Logged
    /\ Logged \subseteq ever[t]
    /\ \A u \in always[t] : u.line <= Past(t) => u \in LoginsOf(t)
    /\ LoginsOf(t) \subseteq ever[t]
    /\ \A e \in DOMAIN entries[t] : entries[t][e].line <= Past(t)
    /\ \A e, f \in DOMAIN entries[t] : entries[t][e].line = entries[t][f].line => e = f

\* The buffer holds what the line had when it was read, whatever has become of
\* it since: it is the login that was there all along, if there is one.
BufferHolds ==
  \A t \in Threads : at[t] = "entry" =>
    /\ buffer.line = cursor
    /\ buffer.login # None => buffer \in ever[t]
    /\ \A u \in always[t] : u.line = cursor => u = buffer

\* While the clock runs on, nothing lies ahead of it.
NothingAhead ==
  ~setBack =>
    /\ \A line \in Lines : atime[line] <= now
    /\ \A u \in Logged : u.login <= now
    /\ \A t \in Threads : at[t] = "entry" /\ buffer.login # None => buffer.login <= now

IInv ==
  /\ TypeOK
  /\ OneWalker
  /\ RightSoFar
  /\ BufferHolds
  /\ NothingAhead
  /\ WholeWalk
  /\ IdleWithinLogin

=============================================================================
