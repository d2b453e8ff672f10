---------------------------- MODULE LoginsProofs ----------------------------
(***************************************************************************)
(* Proofs about Logins for any number of threads and of terminal lines,    *)
(* any clock and any users, with the inductive invariant IInv of that      *)
(* module.                                                                 *)
(***************************************************************************)
EXTENDS Logins, SequenceTheorems, TLAPS

\* An idle time that is less than 2^64 goes into a uint64_t as it is.
LEMMA NoWrap ==
  ASSUME NEW x \in Int, NEW m \in Nat, 0 <= x, x < m
  PROVE  x % m = x
  OBVIOUS

LEMMA IdleFits ==
  ASSUME TypeOK, NEW u \in AnyLogin
  PROVE  IdleTime(u) \in 0 .. Modulus - 1
<1>1. now \in Int /\ atime[u.line] \in Int /\ u.login \in Int /\ Modulus \in Nat \ {0}
  BY TimeAssumption DEF TypeOK, Times, AnyLogin
<1>2. (now - atime[u.line]) % Modulus \in 0 .. Modulus - 1
  BY <1>1
<1>3. now >= u.login => now - u.login \in 0 .. Modulus - 1
  BY TimeAssumption DEF TypeOK, Times, AnyLogin
<1> QED
  BY <1>1, <1>2, <1>3, TimeAssumption DEF IdleTime

\* While the clock runs on, an idle time is within the login.
LEMMA IdleWithin ==
  ASSUME TypeOK, NEW u \in AnyLogin,
         u.login <= now, atime[u.line] <= now
  PROVE  IdleTime(u) <= now - u.login
<1>1. now \in Times /\ atime[u.line] \in Times /\ u.login \in Times
  BY DEF TypeOK, AnyLogin
<1>2. atime[u.line] > u.login => (now - atime[u.line]) % Modulus = now - atime[u.line]
  BY <1>1, NoWrap, TimeAssumption DEF Times
<1> QED
  BY <1>1, <1>2 DEF IdleTime, Times

\* What std::sort leaves has the same entries, each where another was.
LEMMA SortedKeeps ==
  ASSUME NEW s \in Seq(LoginEntry), NEW q \in Sorted(s)
  PROVE  /\ q \in Seq(LoginEntry)
         /\ DOMAIN q = DOMAIN s
         /\ \E p \in [DOMAIN s -> DOMAIN s] :
              /\ \A k \in DOMAIN s : q[k] = s[p[k]]
              /\ \A j, k \in DOMAIN s : p[j] = p[k] => j = k
              /\ \A k \in DOMAIN s : \E j \in DOMAIN s : p[j] = k
<1>1. PICK p \in Bijection(DOMAIN s, DOMAIN s) : q = [k \in DOMAIN s |-> s[p[k]]]
  BY DEF Sorted
<1>2. /\ p \in [DOMAIN s -> DOMAIN s]
      /\ \A j, k \in DOMAIN s : p[j] = p[k] => j = k
      /\ \A k \in DOMAIN s : \E j \in DOMAIN s : p[j] = k
  BY DEF Bijection, Injection, Surjection, IsInjective
<1>3. DOMAIN s = 1 .. Len(s) /\ Len(s) \in Nat
  OBVIOUS
<1>4. q \in [1 .. Len(s) -> LoginEntry]
  BY <1>1, <1>2, <1>3
<1>5. q \in Seq(LoginEntry) /\ DOMAIN q = DOMAIN s
  BY <1>3, <1>4
<1>6. \A k \in DOMAIN s : q[k] = s[p[k]]
  BY <1>1
<1> QED
  BY <1>2, <1>5, <1>6

-------------------------------------------------------------------------------
LEMMA InitIInv == Init => IInv
<1> SUFFICES ASSUME Init PROVE IInv
  OBVIOUS
<1> USE DEF Init
<1>1. TypeOK
  <2>1. 0 \in Times /\ 0 \in 0 .. NumLines /\ 0 \in 0 .. MaxChanges
    BY TimeAssumption, NumLinesAssumption, MaxChangesAssumption DEF Times
  <2>2. <<>> \in Seq(LoginEntry)
    OBVIOUS
  <2> QED
    BY <2>1, <2>2 DEF TypeOK
<1>2. OneWalker
  BY LoginsNoneAssumption DEF OneWalker, Walking
<1>3. RightSoFar /\ BufferHolds /\ WholeWalk
  BY DEF RightSoFar, BufferHolds, WholeWalk, Walking
<1>4. NothingAhead
  <2>1. \A u \in Logged : u.login <= now
    BY DEF Logged, Login
  <2> QED
    BY <2>1 DEF NothingAhead
<1>5. IdleWithinLogin
  BY DEF IdleWithinLogin
<1> QED
  BY <1>1, <1>2, <1>3, <1>4, <1>5 DEF IInv

-------------------------------------------------------------------------------
(* The users and the clock. *)

LEMMA HostTypes ==
  ASSUME IInv, Host
  PROVE  /\ UNCHANGED <<cursor, buffer, mtx, at, entries>>
         /\ TypeOK'
         /\ \A t \in Threads : /\ always'[t] \subseteq always[t]
                               /\ ever[t] \subseteq ever'[t]
                               /\ Walking(t) => ever'[t] \subseteq ever[t] \cup Logged'
                               /\ Walking(t) => always'[t] \subseteq Logged'
                               /\ Walking(t) => Logged' \subseteq ever'[t]
<1>1. UNCHANGED <<cursor, buffer, mtx, at, entries>>
  BY DEF Host, Tick, SetBack, LogIn, Type, LogOut, walkVars
<1>2. /\ now \in 0 .. MaxTime /\ MaxTime \in Nat
      /\ utmp \in [Lines -> Times \cup {None}]
      /\ atime \in [Lines -> Times]
      /\ setBack \in BOOLEAN
      /\ changes \in 0 .. MaxChanges /\ MaxChanges \in Nat
      /\ ever \in [Threads -> SUBSET AnyLogin]
      /\ always \in [Threads -> SUBSET AnyLogin]
  BY TimeAssumption, MaxChangesAssumption DEF IInv, TypeOK, Times
<1> DEFINE Fits == /\ now' \in 0 .. MaxTime
                   /\ utmp' \in [Lines -> Times \cup {None}]
                   /\ atime' \in [Lines -> Times]
                   /\ setBack' \in BOOLEAN
                   /\ changes' \in 0 .. MaxChanges
                   /\ ever' \in [Threads -> SUBSET AnyLogin]
                   /\ always' \in [Threads -> SUBSET AnyLogin]
           Keeps == \A t \in Threads :
                      /\ always'[t] \subseteq always[t]
                      /\ ever[t] \subseteq ever'[t]
                      /\ Walking(t) => ever'[t] \subseteq ever[t] \cup Logged'
                      /\ Walking(t) => always'[t] \subseteq Logged'
                      /\ Walking(t) => Logged' \subseteq ever'[t]
<1>3. \A t \in Threads : Walking(t) => always[t] \subseteq Logged /\ Logged \subseteq ever[t]
  BY DEF IInv, RightSoFar
<1>4. ASSUME Tick \/ SetBack PROVE Fits /\ Keeps
  <2>0. UNCHANGED <<utmp, ever, always>>
    BY <1>4 DEF Tick, SetBack
  <2>1. Fits
    <3>1. CASE Tick
      BY <1>2, <3>1 DEF Tick
    <3>2. CASE SetBack
      BY <1>2, <3>2 DEF SetBack, Changes
    <3> QED
      BY <1>4, <3>1, <3>2
  <2>2. Logged' = Logged
    BY <2>0 DEF Logged
  <2> QED
    BY <2>0, <2>1, <2>2, <1>3
<1>5. ASSUME NEW line \in Lines, LogIn(line) PROVE Fits /\ Keeps
  <2>1. Fits
    <3>1. Login(line, now) \in AnyLogin
      BY <1>2 DEF Login, AnyLogin, Times
    <3> QED
      BY <3>1, <1>2, <1>5 DEF LogIn, Changes, Times
  <2>2. Logged' = Logged \cup {Login(line, now)}
    BY <1>2, <1>5, LoginsNoneAssumption DEF LogIn, Logged, Login, Times
  <2> QED
    BY <2>1, <2>2, <1>2, <1>3, <1>5 DEF LogIn
<1>6. ASSUME NEW line \in Lines, Type(line) PROVE Fits /\ Keeps
  <2>1. Fits
    BY <1>2, <1>6 DEF Type, Changes, Times
  <2>2. UNCHANGED <<utmp, ever, always>> /\ Logged' = Logged
    BY <1>6 DEF Type, Logged
  <2> QED
    BY <2>1, <2>2, <1>3
<1>7. ASSUME NEW line \in Lines, LogOut(line) PROVE Fits /\ Keeps
  <2>1. Fits
    BY <1>2, <1>7 DEF LogOut, Changes
  <2>2. Logged' = Logged \ {Login(line, utmp[line])}
    BY <1>2, <1>7, LoginsNoneAssumption DEF LogOut, Logged, Login, Times
  <2> QED
    BY <2>1, <2>2, <1>2, <1>3, <1>7 DEF LogOut
<1>8. Fits /\ Keeps
  BY <1>4, <1>5, <1>6, <1>7 DEF Host
<1>9. TypeOK'
  BY <1>1, <1>8 DEF IInv, TypeOK, Times
<1> QED
  BY <1>1, <1>8, <1>9

\* A user who comes is one that may be seen, a user who goes is none that must
\* be, and neither is in the way of the walk.
LEMMA HostRightSoFar ==
  ASSUME IInv, Host
  PROVE  RightSoFar' /\ BufferHolds'
<1>1. UNCHANGED <<cursor, buffer, at, entries>>
  BY HostTypes
<1>2. \A t \in Threads : /\ Walking(t)' = Walking(t)
                         /\ LoginsOf(t)' = LoginsOf(t)
                         /\ Past(t)' = Past(t)
  BY <1>1 DEF Walking, LoginsOf, Past
<1>3. RightSoFar'
  BY <1>1, <1>2, HostTypes DEF RightSoFar, IInv
<1>4. BufferHolds'
  BY <1>1, HostTypes DEF BufferHolds, IInv
<1> QED
  BY <1>3, <1>4

\* While the clock runs on, what was not ahead of it stays behind.
LEMMA HostNothingAhead ==
  ASSUME IInv, Host, ~setBack'
  PROVE  NothingAhead' /\ IdleWithinLogin'
<1>1. ~setBack /\ ~SetBack
  BY DEF Host, Tick, SetBack, LogIn, Type, LogOut
<1>2. UNCHANGED <<cursor, buffer, mtx, at, entries>>
  BY HostTypes
<1>3. /\ now \in Nat /\ now' \in Nat /\ now <= now'
      /\ utmp \in [Lines -> Times \cup {None}]
      /\ atime \in [Lines -> Nat]
  BY HostTypes, <1>1, TimeAssumption
  DEF Host, Tick, LogIn, Type, LogOut, IInv, TypeOK, Times
<1>4. \A line \in Lines : atime'[line] <= now'
  BY <1>1, <1>3 DEF Host, Tick, LogIn, Type, LogOut, IInv, NothingAhead
<1>5. \A u \in Logged' : u.login <= now'
  <2> SUFFICES ASSUME NEW u \in Logged' PROVE u.login <= now'
    OBVIOUS
  <2>1. u \in Logged \/ u.login = now
    BY <1>1, <1>3 DEF Host, Tick, LogIn, Type, LogOut, Logged, Login
  <2>2. u \in Logged => u.login \in Nat /\ u.login <= now
    BY <1>1, <1>3, TimeAssumption DEF IInv, NothingAhead, Logged, Login, Times
  <2> QED
    BY <1>3, <2>1, <2>2
<1>6. \A t \in Threads : at'[t] = "entry" /\ buffer'.login # None => buffer'.login <= now'
  BY <1>1, <1>2, <1>3, TimeAssumption DEF IInv, NothingAhead, TypeOK, Times
<1>7. NothingAhead'
  BY <1>4, <1>5, <1>6 DEF NothingAhead
<1>8. IdleWithinLogin'
  <2> SUFFICES ASSUME NEW t \in Threads, NEW k \in DOMAIN entries[t]
               PROVE  entries[t][k].idle <= now' - entries[t][k].login
    BY <1>2 DEF IdleWithinLogin
  <2>1. entries[t][k] \in LoginEntry
    BY DEF IInv, TypeOK
  <2>2. entries[t][k].idle \in Int /\ entries[t][k].login \in Int
    BY <2>1, TimeAssumption DEF LoginEntry, Times
  <2>3. entries[t][k].idle <= now - entries[t][k].login
    BY <1>1 DEF IInv, IdleWithinLogin
  <2> QED
    BY <1>3, <2>2, <2>3
<1> QED
  BY <1>7, <1>8

LEMMA HostIInv ==
  ASSUME IInv, Host
  PROVE  IInv'
<1>1. UNCHANGED <<cursor, buffer, mtx, at, entries>>
  BY HostTypes
<1>2. OneWalker'
  BY <1>1 DEF IInv, OneWalker, Walking
<1>3. WholeWalk'
  <2>1. \A t \in Threads : LoginsOf(t)' = LoginsOf(t)
    BY <1>1 DEF LoginsOf
  <2> QED
    BY <1>1, <2>1, HostTypes DEF IInv, WholeWalk
<1>4. setBack' => NothingAhead' /\ IdleWithinLogin'
  BY DEF NothingAhead, IdleWithinLogin
<1> QED
  BY <1>2, <1>3, <1>4, HostTypes, HostRightSoFar, HostNothingAhead DEF IInv

-------------------------------------------------------------------------------
(* SetFromUtmp. *)

\* Only one thread walks.
LEMMA OthersDoNot ==
  ASSUME IInv, NEW t \in Threads, NEW u \in Threads, Walking(t), u # t
  PROVE  ~Walking(u)
  BY DEF IInv, OneWalker

\* What a thread does leaves every other thread's list, and what has been seen
\* of it, as they are.
LEMMA OthersIInv ==
  ASSUME IInv, NEW t \in Threads, SetFromUtmp(t),
         NEW u \in Threads, u # t
  PROVE  /\ at'[u] = at[u]
         /\ entries'[u] = entries[u]
         /\ ever'[u] = ever[u]
         /\ always'[u] = always[u]
         /\ Walking(u)' = Walking(u)
         /\ LoginsOf(u)' = LoginsOf(u)
<1>1. /\ at'[u] = at[u]
      /\ entries'[u] = entries[u]
      /\ ever'[u] = ever[u]
      /\ always'[u] = always[u]
  BY DEF IInv, TypeOK, SetFromUtmp, Goes, Clear, Lock, BeginsWalk, GetUtxEnt, GetUtxEntEnds,
         Entry, End
<1> QED
  BY <1>1 DEF Walking, LoginsOf

\* SetFromUtmp leaves the users and the clock alone.
LEMMA HostStays ==
  ASSUME NEW t \in Threads, SetFromUtmp(t)
  PROVE  UNCHANGED <<now, utmp, atime, setBack, changes, Logged>>
  BY DEF SetFromUtmp, Clear, Lock, GetUtxEnt, GetUtxEntEnds, Entry, End, hostVars, Logged

\* The entry that a record becomes.
LEMMA EntryIs ==
  ASSUME IInv, NEW t \in Threads, Entry(t), buffer.login # None
  PROVE  \E e \in LoginEntry :
           /\ entries' = [entries EXCEPT ![t] = Append(@, e)]
           /\ e.line = buffer.line /\ e.login = buffer.login
           /\ ~setBack => e.idle <= now - e.login
<1>1. at[t] = "entry"
  BY DEF Entry, Goes
<1>2. buffer \in AnyLogin
  BY <1>1 DEF IInv, TypeOK, AnyLogin
<1>3. PICK idle \in {IdleTime(buffer)} \cup IF "tty" \in Faults THEN {0} ELSE {} :
        entries' = [entries EXCEPT ![t] = Append(@,
          [line |-> buffer.line, login |-> buffer.login, idle |-> idle])]
  BY DEF Entry
<1>4. idle = IdleTime(buffer) \/ idle = 0
  BY <1>3
<1>5. idle \in 0 .. Modulus - 1
  BY <1>2, <1>4, IdleFits, TimeAssumption DEF IInv
<1>6. ASSUME ~setBack PROVE idle <= now - buffer.login
  <2>1. buffer.login <= now /\ atime[buffer.line] <= now
    BY <1>1, <1>2, <1>6 DEF IInv, NothingAhead, AnyLogin
  <2>2. buffer.login \in Int /\ now \in Int
    BY <1>2, TimeAssumption DEF IInv, TypeOK, AnyLogin, Times
  <2>3. IdleTime(buffer) <= now - buffer.login
    BY <1>2, <2>1, IdleWithin DEF IInv
  <2> QED
    BY <1>4, <2>1, <2>2, <2>3
<1>7. [line |-> buffer.line, login |-> buffer.login, idle |-> idle] \in LoginEntry
  BY <1>2, <1>5 DEF AnyLogin, LoginEntry
<1> QED
  BY <1>3, <1>5, <1>6, <1>7

LEMMA WalkTypes ==
  ASSUME IInv, NEW t \in Threads, SetFromUtmp(t)
  PROVE  TypeOK'
<1> DEFINE A == {"clear", "lock", "walk", "entry", "end", "done"}
<1>1. UNCHANGED <<now, utmp, atime, setBack, changes>>
  BY HostStays
<1>2. /\ cursor \in 0 .. NumLines /\ NumLines \in Nat
      /\ mtx \in Threads \cup {None}
      /\ at \in [Threads -> A]
      /\ entries \in [Threads -> Seq(LoginEntry)]
      /\ ever \in [Threads -> SUBSET AnyLogin]
      /\ always \in [Threads -> SUBSET AnyLogin]
  BY NumLinesAssumption DEF IInv, TypeOK
<1>3. at' \in [Threads -> A]
  BY <1>2 DEF SetFromUtmp, Goes, Clear, Lock, GetUtxEnt, GetUtxEntEnds, Entry, End
<1>4. cursor' \in 0 .. NumLines /\ mtx' \in Threads \cup {None}
  BY <1>2 DEF SetFromUtmp, Clear, Lock, GetUtxEnt, GetUtxEntEnds, Entry, End
<1>5. entries' \in [Threads -> Seq(LoginEntry)]
  <2>1. CASE Clear(t)
    BY <1>2, <2>1 DEF Clear
  <2>2. CASE Entry(t)
    <3>1. CASE buffer.login = None
      BY <1>2, <2>2, <3>1 DEF Entry
    <3>2. CASE buffer.login # None
      <4>1. PICK e \in LoginEntry : entries' = [entries EXCEPT ![t] = Append(@, e)]
        BY <2>2, <3>2, EntryIs
      <4>2. Append(entries[t], e) \in Seq(LoginEntry)
        BY <1>2
      <4> QED
        BY <1>2, <4>1, <4>2
    <3> QED
      BY <3>1, <3>2
  <2>3. CASE End(t)
    BY <1>2, <2>3, SortedKeeps DEF End
  <2> QED
    BY <1>2, <2>1, <2>2, <2>3 DEF SetFromUtmp, Lock, GetUtxEnt, GetUtxEntEnds
<1>6. ever' \in [Threads -> SUBSET AnyLogin] /\ always' \in [Threads -> SUBSET AnyLogin]
  <2>1. Logged \subseteq AnyLogin
    BY DEF IInv, TypeOK, Logged, Login, AnyLogin
  <2> QED
    BY <1>2, <2>1
    DEF SetFromUtmp, Clear, Lock, BeginsWalk, GetUtxEnt, GetUtxEntEnds, Entry, End
<1>7. \A u \in Threads :
        at'[u] = "entry" => buffer' \in [line : Lines, login : Times \cup {None}]
  <2>1. CASE GetUtxEnt(t)
    <3>1. cursor' \in Lines /\ buffer' = Login(cursor', utmp[cursor'])
      BY <1>2, <2>1 DEF GetUtxEnt, Lines
    <3> QED
      BY <3>1 DEF IInv, TypeOK, Login
  <2>2. CASE End(t)
    <3>1. Walking(t)
      BY <2>2 DEF End, Goes, Walking
    <3>2. at'[t] = "done"
      BY <1>2, <2>2 DEF End, Goes
    <3> QED
      BY <3>1, <3>2, OthersDoNot, OthersIInv DEF Walking
  <2>3. CASE ~GetUtxEnt(t) /\ ~End(t)
    BY <1>2, <2>3
    DEF SetFromUtmp, Goes, Clear, Lock, GetUtxEntEnds, Entry, IInv, TypeOK
  <2> QED
    BY <2>1, <2>2, <2>3
<1> QED
  BY <1>1, <1>3, <1>4, <1>5, <1>6, <1>7 DEF IInv, TypeOK

LEMMA WalkOneWalker ==
  ASSUME IInv, NEW t \in Threads, SetFromUtmp(t)
  PROVE  OneWalker'
<1>1. \A u \in Threads : u # t =>
        at'[u] = at[u] /\ entries'[u] = entries[u] /\ Walking(u)' = Walking(u)
  BY OthersIInv
<1>2. at \in [Threads -> {"clear", "lock", "walk", "entry", "end", "done"}]
  BY DEF IInv, TypeOK
<1>3. \A u \in Threads : Walking(u)' <=> mtx' = u
  <2>1. Walking(t)' <=> mtx' = t
    BY <1>2, LoginsNoneAssumption
    DEF SetFromUtmp, Goes, Clear, Lock, GetUtxEnt, GetUtxEntEnds, Entry, End, IInv, OneWalker,
        Walking
  <2>2. \A u \in Threads : u # t => (mtx' = u <=> mtx = u)
    BY LoginsNoneAssumption
    DEF SetFromUtmp, Goes, Clear, Lock, GetUtxEnt, GetUtxEntEnds, Entry, End, IInv, OneWalker,
        Walking
  <2> QED
    BY <1>1, <2>1, <2>2 DEF IInv, OneWalker
<1>4. mtx' = None => cursor' = 0
  BY <1>2, LoginsNoneAssumption
  DEF SetFromUtmp, Goes, Clear, Lock, GetUtxEnt, GetUtxEntEnds, Entry, End, IInv, OneWalker,
      Walking
<1>5. \A u \in Threads : at'[u] = "end" => cursor' = NumLines
  <2>1. at'[t] = "end" => cursor' = NumLines
    BY <1>2
    DEF SetFromUtmp, Goes, Clear, Lock, GetUtxEnt, GetUtxEntEnds, Entry, End
  <2>2. ASSUME cursor' # cursor PROVE Walking(t)
    BY <2>2
    DEF SetFromUtmp, Goes, Clear, Lock, GetUtxEnt, GetUtxEntEnds, Entry, End, Walking
  <2>3. \A u \in Threads : u # t /\ at'[u] = "end" => cursor' = NumLines
    BY <1>1, <2>2, OthersDoNot DEF IInv, OneWalker, Walking
  <2> QED
    BY <2>1, <2>3
<1>6. \A u \in Threads : at'[u] \in {"clear", "lock"} => entries'[u] = <<>>
  <2>1. at'[t] \in {"clear", "lock"} => entries'[t] = <<>>
    BY <1>2
    DEF SetFromUtmp, Goes, Clear, Lock, GetUtxEnt, GetUtxEntEnds, Entry, End, IInv, TypeOK
  <2> QED
    BY <1>1, <2>1 DEF IInv, OneWalker
<1> QED
  BY <1>3, <1>4, <1>5, <1>6 DEF OneWalker

\* The thread that reads the next record goes on with the same list.
LEMMA WalkRightSoFar ==
  ASSUME IInv, NEW t \in Threads, SetFromUtmp(t)
  PROVE  RightSoFar'
<1>1. UNCHANGED Logged
  BY HostStays
<1>2. /\ at \in [Threads -> {"clear", "lock", "walk", "entry", "end", "done"}]
      /\ entries \in [Threads -> Seq(LoginEntry)]
      /\ ever \in [Threads -> SUBSET AnyLogin]
      /\ always \in [Threads -> SUBSET AnyLogin]
      /\ cursor \in Nat
      /\ \A u \in AnyLogin : u.line \in Nat \ {0}
  BY NumLinesAssumption DEF IInv, TypeOK, AnyLogin, Lines
<1> DEFINE Right(u) ==
      Walking(u) =>
        /\ always[u] \subseteq Logged
        /\ Logged \subseteq ever[u]
        /\ \A x \in always[u] : x.line <= Past(u) => x \in LoginsOf(u)
        /\ LoginsOf(u) \subseteq ever[u]
        /\ \A e \in DOMAIN entries[u] : entries[u][e].line <= Past(u)
        /\ \A e, f \in DOMAIN entries[u] : entries[u][e].line = entries[u][f].line => e = f
<1>3. Right(t)
  BY DEF IInv, RightSoFar
<1>4. \A k \in DOMAIN entries[t] : entries[t][k].line \in Nat
  <2>1. \A e \in LoginEntry : e.line \in Nat
    BY DEF LoginEntry, Lines
  <2>2. \A k \in DOMAIN entries[t] : entries[t][k] \in LoginEntry
    BY <1>2
  <2> QED
    BY <2>1, <2>2
<1>5. Right(t)'
  <2>1. CASE Clear(t) \/ End(t)
    <3>1. ~Walking(t)'
      BY <1>2, <2>1 DEF Clear, End, Goes, Walking
    <3> QED
      BY <3>1
  <2>2. CASE Lock(t)
    <3>1. cursor' = 0 /\ at'[t] = "walk"
      BY <1>2, <2>2 DEF Lock, Goes, IInv, OneWalker
    <3>2. entries'[t] = <<>>
      BY <2>2 DEF Lock, Goes, IInv, OneWalker
    <3>3. LoginsOf(t)' = {}
      BY <3>2 DEF LoginsOf, ToSet
    <3>4. Past(t)' = 0
      BY <3>1 DEF Past
    <3>5. always'[t] = Logged' /\ ever'[t] = Logged' /\ Logged' \subseteq AnyLogin
      BY <1>1, <1>2, <2>2 DEF Lock, BeginsWalk, IInv, TypeOK, Logged, Login, AnyLogin
    <3>6. \A x \in always'[t] : ~(x.line <= Past(t)')
      BY <1>2, <3>4, <3>5
    <3> QED
      BY <3>2, <3>3, <3>5, <3>6
  <2>3. CASE GetUtxEnt(t) \/ GetUtxEntEnds(t)
    <3>1. Past(t)' = Past(t)
      BY <1>2, <2>3 DEF GetUtxEnt, GetUtxEntEnds, Goes, Past
    <3>2. Walking(t) /\ UNCHANGED <<entries, ever, always>> /\ LoginsOf(t)' = LoginsOf(t)
      BY <2>3 DEF GetUtxEnt, GetUtxEntEnds, Goes, Walking, LoginsOf
    <3> QED
      BY <1>1, <1>3, <3>1, <3>2
  <2>4. CASE Entry(t)
    <3>1. /\ Walking(t) /\ at[t] = "entry"
          /\ Past(t) = cursor - 1 /\ Past(t)' = cursor
          /\ UNCHANGED <<ever, always>>
      BY <1>2, <2>4 DEF Entry, Goes, Walking, Past
    <3>2. /\ buffer.line = cursor
          /\ buffer.login # None => buffer \in ever[t] /\ buffer \in AnyLogin
          /\ \A x \in always[t] : x.line = cursor => x = buffer
      BY <3>1 DEF IInv, BufferHolds, TypeOK, AnyLogin
    <3>3. \A x \in always[t] : x.line <= cursor => x.line <= cursor - 1 \/ x = buffer
      BY <1>2, <3>2
    <3>4. CASE buffer.login = None
      <4>1. UNCHANGED entries /\ LoginsOf(t)' = LoginsOf(t)
        BY <2>4, <3>4 DEF Entry, LoginsOf
      <4>2. \A x \in always[t] : x # buffer
        BY <1>2, <3>4, LoginsNoneAssumption DEF AnyLogin, Times
      <4>3. \A e \in DOMAIN entries[t] : entries[t][e].line <= cursor
        BY <1>2, <1>3, <1>4, <3>1
      <4> QED
        BY <1>1, <1>3, <3>1, <3>3, <4>1, <4>2, <4>3
    <3>5. CASE buffer.login # None
      <4>1. PICK e \in LoginEntry :
              /\ entries' = [entries EXCEPT ![t] = Append(@, e)]
              /\ e.line = buffer.line /\ e.login = buffer.login
        BY <2>4, <3>5, EntryIs
      <4>2. /\ entries'[t] = Append(entries[t], e)
            /\ DOMAIN entries'[t] = DOMAIN entries[t] \cup {Len(entries[t]) + 1}
            /\ \A k \in DOMAIN entries[t] : entries'[t][k] = entries[t][k]
            /\ entries'[t][Len(entries[t]) + 1] = e
        BY <1>2, <4>1
      <4>3. Login(e.line, e.login) = buffer
        BY <3>2, <3>5, <4>1 DEF Login, AnyLogin
      <4>4. LoginsOf(t)' = LoginsOf(t) \cup {buffer}
        BY <4>2, <4>3 DEF LoginsOf, ToSet
      <4>5. \A k \in DOMAIN entries[t] : entries[t][k].line \in Nat
                                         /\ entries[t][k].line <= cursor - 1
        BY <1>2, <1>3, <1>4, <3>1
      <4>6. \A k \in DOMAIN entries'[t] : entries'[t][k].line <= cursor
        BY <1>2, <3>2, <4>1, <4>2, <4>5
      <4>7. \A j, k \in DOMAIN entries'[t] :
              entries'[t][j].line = entries'[t][k].line => j = k
        BY <1>2, <1>3, <3>1, <3>2, <4>1, <4>2, <4>5
      <4> QED
        BY <1>1, <1>3, <3>1, <3>2, <3>3, <3>5, <4>4, <4>6, <4>7
    <3> QED
      BY <3>4, <3>5
  <2> QED
    BY <2>1, <2>2, <2>3, <2>4 DEF SetFromUtmp
<1>6. ASSUME NEW u \in Threads, u # t PROVE Right(u)'
  <2>1. ASSUME Walking(u) PROVE Past(u)' = Past(u)
    <3>1. ~Walking(t)
      BY <1>6, <2>1, OthersDoNot
    <3>2. UNCHANGED cursor
      BY <3>1 DEF SetFromUtmp, Goes, Clear, Lock, GetUtxEnt, GetUtxEntEnds, Entry, End, Walking
    <3> QED
      BY <1>6, <3>2, OthersIInv DEF Past
  <2>2. Right(u)
    BY DEF IInv, RightSoFar
  <2> QED
    BY <1>1, <1>6, <2>1, <2>2, OthersIInv
<1> QED
  BY <1>5, <1>6 DEF RightSoFar

\* A record is in the buffer as it was when it was read.
LEMMA WalkBufferHolds ==
  ASSUME IInv, NEW t \in Threads, SetFromUtmp(t)
  PROVE  BufferHolds'
<1> SUFFICES ASSUME NEW u \in Threads, at'[u] = "entry"
             PROVE  /\ buffer'.line = cursor'
                    /\ buffer'.login # None => buffer' \in ever'[u]
                    /\ \A x \in always'[u] : x.line = cursor' => x = buffer'
  BY DEF BufferHolds
<1>1. at \in [Threads -> {"clear", "lock", "walk", "entry", "end", "done"}]
  BY DEF IInv, TypeOK
<1>2. CASE u = t
  <2>1. GetUtxEnt(t)
    BY <1>1, <1>2
    DEF SetFromUtmp, Goes, Clear, Lock, GetUtxEntEnds, Entry, End
  <2>2. /\ Walking(t) /\ UNCHANGED <<ever, always>>
        /\ buffer' = Login(cursor', utmp[cursor'])
        /\ cursor' \in Lines
    BY <2>1, NumLinesAssumption DEF GetUtxEnt, Goes, Walking, IInv, TypeOK, Lines
  <2>3. always[t] \subseteq Logged /\ Logged \subseteq ever[t]
    BY <2>2 DEF IInv, RightSoFar
  <2>4. buffer'.line = cursor' /\ buffer'.login = utmp[cursor']
    BY <2>2 DEF Login
  <2>5. utmp[cursor'] # None => buffer' \in Logged
    BY <2>2 DEF Logged
  <2>6. \A x \in Logged : x.line = cursor' => x = buffer'
    BY <2>2 DEF Logged, Login
  <2> QED
    BY <1>2, <2>2, <2>3, <2>4, <2>5, <2>6
<1>3. CASE u # t
  <2>1. at[u] = "entry" /\ ever'[u] = ever[u] /\ always'[u] = always[u]
    BY <1>3, OthersIInv
  <2>2. ~Walking(t)
    BY <1>3, <2>1, OthersDoNot DEF Walking
  <2>3. UNCHANGED <<cursor, buffer>>
    BY <2>2 DEF SetFromUtmp, Goes, Clear, Lock, GetUtxEnt, GetUtxEntEnds, Entry, End, Walking
  <2> QED
    BY <2>1, <2>3 DEF IInv, BufferHolds
<1> QED
  BY <1>2, <1>3

LEMMA WalkNothingAhead ==
  ASSUME IInv, NEW t \in Threads, SetFromUtmp(t)
  PROVE  NothingAhead'
<1>1. UNCHANGED <<now, atime, setBack, Logged>>
  BY HostStays
<1> SUFFICES ASSUME ~setBack, NEW u \in Threads, at'[u] = "entry", buffer'.login # None
             PROVE  buffer'.login <= now
  BY <1>1 DEF NothingAhead, IInv
<1>2. at \in [Threads -> {"clear", "lock", "walk", "entry", "end", "done"}]
  BY DEF IInv, TypeOK
<1>3. CASE u = t
  <2>1. GetUtxEnt(t)
    BY <1>2, <1>3
    DEF SetFromUtmp, Goes, Clear, Lock, GetUtxEntEnds, Entry, End
  <2>2. buffer' = Login(cursor', utmp[cursor']) /\ cursor' \in Lines
    BY <2>1, NumLinesAssumption DEF GetUtxEnt, IInv, TypeOK, Lines
  <2>3. buffer' \in Logged
    BY <2>2 DEF Logged, Login
  <2> QED
    BY <2>3 DEF IInv, NothingAhead
<1>4. CASE u # t
  <2>1. at[u] = "entry"
    BY <1>4, OthersIInv
  <2>2. ~Walking(t)
    BY <1>4, <2>1, OthersDoNot DEF Walking
  <2>3. UNCHANGED buffer
    BY <2>2 DEF SetFromUtmp, Goes, Clear, Lock, GetUtxEnt, GetUtxEntEnds, Entry, End, Walking
  <2> QED
    BY <2>1, <2>3 DEF IInv, NothingAhead
<1> QED
  BY <1>3, <1>4

\* The sort leaves the list as whole as the walk has made it.
LEMMA WalkWholeWalk ==
  ASSUME IInv, NEW t \in Threads, SetFromUtmp(t)
  PROVE  WholeWalk'
<1>1. /\ at \in [Threads -> {"clear", "lock", "walk", "entry", "end", "done"}]
      /\ entries \in [Threads -> Seq(LoginEntry)]
      /\ always \in [Threads -> SUBSET AnyLogin]
  BY DEF IInv, TypeOK
<1> DEFINE Whole(u) ==
      at[u] = "done" =>
        /\ always[u] \subseteq LoginsOf(u)
        /\ LoginsOf(u) \subseteq ever[u]
        /\ \A e, f \in DOMAIN entries[u] : entries[u][e].line = entries[u][f].line => e = f
<1>2. \A u \in Threads : Whole(u)
  BY DEF IInv, WholeWalk
<1>3. CASE End(t)
  <2>1. Walking(t) /\ at[t] = "end" /\ cursor = NumLines /\ Past(t) = NumLines
    BY <1>3 DEF End, Goes, Walking, IInv, OneWalker, Past
  <2>2. /\ \A x \in always[t] : x.line <= NumLines => x \in LoginsOf(t)
        /\ LoginsOf(t) \subseteq ever[t]
        /\ \A e, f \in DOMAIN entries[t] : entries[t][e].line = entries[t][f].line => e = f
    BY <2>1 DEF IInv, RightSoFar
  <2>3. always[t] \subseteq LoginsOf(t)
    BY <1>1, <2>2, NumLinesAssumption DEF AnyLogin, Lines
  <2>4. PICK q \in Sorted(entries[t]) : entries' = [entries EXCEPT ![t] = q]
    BY <1>3 DEF End
  <2>5. PICK p \in [DOMAIN entries[t] -> DOMAIN entries[t]] :
          /\ \A k \in DOMAIN entries[t] : q[k] = entries[t][p[k]]
          /\ \A j, k \in DOMAIN entries[t] : p[j] = p[k] => j = k
          /\ \A k \in DOMAIN entries[t] : \E j \in DOMAIN entries[t] : p[j] = k
    BY <1>1, <2>4, SortedKeeps
  <2>6. entries'[t] = q /\ DOMAIN q = DOMAIN entries[t]
    BY <1>1, <2>4, SortedKeeps
  <2>7. LoginsOf(t)' = LoginsOf(t)
    <3>1. ToSet(q) = ToSet(entries[t])
      BY <2>5, <2>6 DEF ToSet
    <3> QED
      BY <2>6, <3>1 DEF LoginsOf
  <2>8. \A e, f \in DOMAIN q : q[e].line = q[f].line => e = f
    BY <2>2, <2>5, <2>6
  <2>9. UNCHANGED <<ever, always>>
    BY <1>3 DEF End
  <2>10. Whole(t)'
    BY <2>2, <2>3, <2>6, <2>7, <2>8, <2>9
  <2> QED
    BY <1>2, <2>10, OthersIInv DEF WholeWalk
<1>4. CASE ~End(t)
  <2>1. at'[t] # "done"
    BY <1>1, <1>4 DEF SetFromUtmp, Goes, Clear, Lock, GetUtxEnt, GetUtxEntEnds, Entry
  <2> QED
    BY <1>2, <2>1, OthersIInv DEF WholeWalk
<1> QED
  BY <1>3, <1>4

LEMMA WalkIdle ==
  ASSUME IInv, NEW t \in Threads, SetFromUtmp(t)
  PROVE  IdleWithinLogin'
<1>1. UNCHANGED <<now, setBack>> /\ entries \in [Threads -> Seq(LoginEntry)]
  BY HostStays DEF IInv, TypeOK
<1> SUFFICES ASSUME ~setBack, NEW u \in Threads, NEW k \in DOMAIN entries'[u]
             PROVE  entries'[u][k].idle <= now - entries'[u][k].login
  BY <1>1 DEF IdleWithinLogin
<1> DEFINE Within(e) == e.idle <= now - e.login
<1>2. \A v \in Threads : \A j \in DOMAIN entries[v] : Within(entries[v][j])
  BY DEF IInv, IdleWithinLogin
<1>3. CASE u # t \/ UNCHANGED entries
  BY <1>2, <1>3, OthersIInv
<1>4. CASE u = t /\ Clear(t)
  BY <1>1, <1>4 DEF Clear
<1>5. CASE u = t /\ Entry(t) /\ buffer.login # None
  <2>1. PICK e \in LoginEntry :
          entries' = [entries EXCEPT ![t] = Append(@, e)] /\ Within(e)
    BY <1>5, EntryIs
  <2>2. \/ entries'[t][k] = e
        \/ k \in DOMAIN entries[t] /\ entries'[t][k] = entries[t][k]
    BY <1>1, <1>5, <2>1
  <2> QED
    BY <1>2, <1>5, <2>1, <2>2
<1>6. CASE u = t /\ End(t)
  <2>1. PICK q \in Sorted(entries[t]) : entries' = [entries EXCEPT ![t] = q]
    BY <1>6 DEF End
  <2>2. \E j \in DOMAIN entries[t] : q[k] = entries[t][j]
    BY <1>1, <1>6, <2>1, SortedKeeps
  <2> QED
    BY <1>1, <1>2, <1>6, <2>1, <2>2
<1> QED
  BY <1>3, <1>4, <1>5, <1>6 DEF SetFromUtmp, Lock, GetUtxEnt, GetUtxEntEnds, Entry

LEMMA NextIInv == IInv /\ [Next]_vars => IInv'
<1> SUFFICES ASSUME IInv, [Next]_vars PROVE IInv'
  OBVIOUS
<1>1. CASE Host
  BY <1>1, HostIInv
<1>2. ASSUME NEW t \in Threads, SetFromUtmp(t) PROVE IInv'
  BY <1>2, WalkTypes, WalkOneWalker, WalkRightSoFar, WalkBufferHolds, WalkNothingAhead,
     WalkWholeWalk, WalkIdle
  DEF IInv
<1>3. CASE UNCHANGED vars
  BY <1>3
  DEF vars, hostVars, walkVars, IInv, TypeOK, OneWalker, RightSoFar, BufferHolds, NothingAhead,
      WholeWalk, IdleWithinLogin, Walking, Past, LoginsOf, Logged
<1> QED
  BY <1>1, <1>2, <1>3 DEF Next, Terminated

THEOREM LoginsInvariant == Spec => []IInv
  BY InitIInv, NextIInv, PTL DEF Spec

\* Times and idle times keep their range, whatever the clock does.
THEOREM LoginsTypeOK == Spec => []TypeOK
<1>1. IInv => TypeOK
  BY DEF IInv
<1> QED
  BY <1>1, LoginsInvariant, PTL

\* However many threads ask for the logins at once, each gets a walk of its
\* own: everyone who stayed, nobody who was not there, no line twice.
THEOREM WalksAreWhole == Spec => []WholeWalk
<1>1. IInv => WholeWalk
  BY DEF IInv
<1> QED
  BY <1>1, LoginsInvariant, PTL

\* Unless the clock is set back, no idle time is longer than the login it is
\* listed with, and none has wrapped around.
THEOREM NobodyIdlesLonger == Spec => []IdleWithinLogin
<1>1. IInv => IdleWithinLogin
  BY DEF IInv
<1> QED
  BY <1>1, LoginsInvariant, PTL

=============================================================================
