----------------------------- MODULE ClientProofs -----------------------------
(***************************************************************************)
(* Proofs about Client, for any number of hosts and any requests: the      *)
(* reports of the threads never get mixed on the one standard output, and  *)
(* are whole when main() returns.                                          *)
(***************************************************************************)
EXTENDS Client, SequenceTheorems, TLAPS

\* What the properties say of the output, for any sequence of pieces.
InOnePiece(s) ==
  \A i, k \in DOMAIN s : \A j \in i .. k :
    s[i].peer = s[k].peer /\ s[i].peer # None => s[j].peer = s[i].peer

HasNothing(p, s) == \A i \in DOMAIN s : s[i].peer # p

EndsWith(p, s) == \A i \in DOMAIN s : s[i].peer = p => s[Len(s)].peer = p

\* A piece of the one whose pieces are the last keeps every report in one piece.
LEMMA AppendInOnePiece ==
  ASSUME NEW s \in Seq(Pieces), NEW x \in Pieces, InOnePiece(s),
         x.peer = None \/ EndsWith(x.peer, s)
  PROVE  /\ Append(s, x) \in Seq(Pieces)
         /\ InOnePiece(Append(s, x))
         /\ EndsWith(x.peer, Append(s, x))
         /\ \A p : HasNothing(p, s) /\ p # x.peer => HasNothing(p, Append(s, x))
<1> DEFINE n == Len(s)
           t == Append(s, x)
<1>1. /\ t \in Seq(Pieces) /\ n \in Nat /\ Len(t) = n + 1
      /\ DOMAIN s = 1 .. n /\ DOMAIN t = 1 .. n + 1
      /\ t[n + 1] = x
      /\ \A i \in 1 .. n : t[i] = s[i]
  OBVIOUS
<1> HIDE DEF t, n
<1>2. ASSUME NEW i \in 1 .. n + 1, NEW k \in 1 .. n + 1, NEW j \in i .. k,
             t[i].peer = t[k].peer, t[i].peer # None
      PROVE  t[j].peer = t[i].peer
  <2>1. CASE k \in 1 .. n
    <3>1. i \in 1 .. n /\ j \in 1 .. n  BY <1>1, <2>1
    <3>2. t[i] = s[i] /\ t[j] = s[j] /\ t[k] = s[k]  BY <1>1, <2>1, <3>1
    <3> QED  BY <1>1, <1>2, <2>1, <3>1, <3>2 DEF InOnePiece
  <2>2. CASE k = n + 1 /\ j = n + 1
    BY <1>2, <2>2
  <2>3. CASE k = n + 1 /\ j # n + 1
    <3>1. i \in 1 .. n /\ j \in 1 .. n /\ n \in 1 .. n /\ j \in i .. n
      BY <1>1, <2>3
    <3>2. t[i] = s[i] /\ t[j] = s[j] /\ t[k] = x  BY <1>1, <2>3, <3>1
    <3>3. s[n].peer = x.peer
      BY <1>1, <1>2, <3>1, <3>2 DEF EndsWith, n
    <3>4. s[i].peer = s[n].peer /\ s[i].peer # None
      BY <1>2, <3>2, <3>3
    <3>5. s[j].peer = s[i].peer
      BY <1>1, <3>1, <3>4 DEF InOnePiece
    <3> QED  BY <3>2, <3>5
  <2> QED  BY <1>1, <2>1, <2>2, <2>3
<1>3. InOnePiece(t)  BY <1>1, <1>2 DEF InOnePiece
<1>4. EndsWith(x.peer, t)  BY <1>1 DEF EndsWith
<1>5. ASSUME NEW p, HasNothing(p, s), p # x.peer PROVE HasNothing(p, t)
  BY <1>1, <1>5 DEF HasNothing
<1> QED  BY <1>1, <1>3, <1>4, <1>5 DEF t

\* What main() writes is nobody's.
LEMMA MarkIs ==
  ASSUME NEW s \in Seq(Pieces), NEW t \in {Header, Footer}
  PROVE  \/ s \o t = s
         \/ \E x \in Pieces : x.peer = None /\ s \o t = Append(s, x)
<1>1. CASE ~Html
  BY <1>1 DEF Header, Footer
<1>2. CASE Html
  <2>1. PICK x : t = <<x>> /\ x \in {Piece(None, First), Piece(None, Last)}
    BY <1>2 DEF Header, Footer
  <2>2. x \in Pieces /\ x.peer = None
    BY <2>1, RequestsAssumption DEF Piece, Pieces, First, Last
  <2>3. s \o <<x>> = Append(s, x)
    OBVIOUS
  <2> QED
    BY <2>1, <2>2, <2>3
<1> QED
  BY <1>1, <1>2, HtmlAssumption

-------------------------------------------------------------------------------
OutInv == NotYetPrinted /\ LastIsPrinters /\ ReportsInOnePiece

LEMMA InitIInv == Init => IInv
<1> SUFFICES ASSUME Init PROVE IInv
  OBVIOUS
<1>1. TypeOK
  BY NumHostsAssumption, RequestsAssumption DEF Init, TypeOK, Peers, First, Last
<1>2. MainInTurn /\ OnePrinter
  BY ClientNoneAssumption DEF Init, MainInTurn, OnePrinter, Peers
<1>3. NotYetPrinted /\ LastIsPrinters /\ ReportsInOnePiece
  BY DEF Init, NotYetPrinted, LastIsPrinters, ReportsInOnePiece
<1> QED
  BY <1>1, <1>2, <1>3 DEF IInv

\* What main() writes comes when no thread prints.
LEMMA MarkIInv ==
  ASSUME IInv, NEW t \in {Header, Footer}, out' = out \o t, UNCHANGED peer,
         \A p \in Peers : peer[p] # "print"
  PROVE  out' \in Seq(Pieces) /\ OutInv'
<1>1. /\ out \in Seq(Pieces)
      /\ InOnePiece(out)
      /\ \A p \in Peers : peer[p] \in {"none", "connect", "query", "lock"}
                            => HasNothing(p, out)
  BY DEF IInv, TypeOK, ReportsInOnePiece, InOnePiece, NotYetPrinted, HasNothing
<1>2. /\ out' \in Seq(Pieces)
      /\ InOnePiece(out')
      /\ \A p \in Peers : HasNothing(p, out) => HasNothing(p, out')
  <2>1. CASE out' = out
    BY <1>1, <2>1
  <2>2. CASE out' # out
    <3>1. PICK x \in Pieces : x.peer = None /\ out' = Append(out, x)
      BY <1>1, <2>2, MarkIs
    <3>2. \A p \in Peers : p # x.peer
      BY <3>1, ClientNoneAssumption DEF Peers
    <3> QED
      BY <1>1, <3>1, <3>2, AppendInOnePiece
  <2> QED
    BY <2>1, <2>2
<1>3. ReportsInOnePiece'
  BY <1>2 DEF ReportsInOnePiece, InOnePiece
<1>4. NotYetPrinted'
  BY <1>1, <1>2 DEF NotYetPrinted, HasNothing
<1>5. LastIsPrinters'
  BY DEF LastIsPrinters
<1> QED
  BY <1>2, <1>3, <1>4, <1>5 DEF OutInv

\* A step that writes nothing, and after which nobody prints who did not before
\* and was waiting for the mutex.
LEMMA NoOutIInv ==
  ASSUME IInv, UNCHANGED out,
         \A p \in Peers : peer'[p] = "print" => peer[p] \in {"lock", "print"},
         \A p \in Peers : peer'[p] \in {"none", "connect", "query", "lock"}
                            => peer[p] \in {"none", "connect", "query", "lock"}
  PROVE  OutInv'
<1>1. ReportsInOnePiece'
  BY DEF IInv, ReportsInOnePiece
<1>2. NotYetPrinted'
  BY DEF IInv, NotYetPrinted
<1>3. LastIsPrinters'
  BY DEF IInv, LastIsPrinters, NotYetPrinted
<1> QED
  BY <1>1, <1>2, <1>3 DEF OutInv

LEMMA MainIInv == IInv /\ Main => IInv'
<1> SUFFICES ASSUME IInv, Main PROVE IInv'
  OBVIOUS
<1>1. CASE PrintHeader
  <2>1. OutInv' /\ out' \in Seq(Pieces)
    BY <1>1, MarkIInv DEF PrintHeader, IInv, MainInTurn
  <2>2. TypeOK' /\ MainInTurn' /\ OnePrinter'
    BY <1>1, <2>1 DEF PrintHeader, IInv, TypeOK, MainInTurn, OnePrinter
  <2> QED
    BY <2>1, <2>2 DEF IInv, OutInv
<1>2. CASE SpawnThread
  <2>1. next \in Peers /\ peer[next] = "none"
    BY <1>2, NumHostsAssumption
    DEF SpawnThread, IInv, TypeOK, MainInTurn, Peers
  <2>2. OutInv'
    <3>1. \A p \in Peers : peer'[p] # peer[p] => p = next /\ peer'[p] = "connect"
      BY <1>2 DEF SpawnThread, IInv, TypeOK
    <3> QED
      BY <1>2, <2>1, <3>1, NoOutIInv DEF SpawnThread
  <2>3. TypeOK'
    BY <1>2, <2>1, NumHostsAssumption DEF SpawnThread, IInv, TypeOK, Peers
  <2>4. MainInTurn'
    BY <1>2, <2>1, NumHostsAssumption
    DEF SpawnThread, IInv, TypeOK, MainInTurn, Peers
  <2>5. OnePrinter'
    BY <1>2, <2>1 DEF SpawnThread, IInv, TypeOK, OnePrinter
  <2> QED
    BY <2>2, <2>3, <2>4, <2>5 DEF IInv, OutInv
<1>3. CASE SpawnThrows \/ SpawnEnd \/ Join
  <2>1. OutInv'
    BY <1>3, NoOutIInv DEF SpawnThrows, SpawnEnd, Join
  <2>2. TypeOK'
    <3>1. next' \in 1 .. NumHosts + 1
      BY <1>3, NumHostsAssumption
      DEF SpawnThrows, SpawnEnd, Join, IInv, TypeOK
    <3> QED
      BY <1>3, <3>1 DEF SpawnThrows, SpawnEnd, Join, IInv, TypeOK
  <2>3. MainInTurn'
    BY <1>3, NumHostsAssumption
    DEF SpawnThrows, SpawnEnd, Join, IInv, TypeOK, MainInTurn, Peers
  <2>4. OnePrinter'
    BY <1>3 DEF SpawnThrows, SpawnEnd, Join, IInv, OnePrinter
  <2> QED
    BY <2>1, <2>2, <2>3, <2>4 DEF IInv, OutInv
<1>4. CASE Exit
  <2>1. \A p \in Peers : peer[p] = "ended"
    BY <1>4, NumHostsAssumption DEF Exit, IInv, TypeOK, MainInTurn, Peers
  <2>2. OutInv' /\ out' \in Seq(Pieces)
    BY <1>4, <2>1, MarkIInv DEF Exit
  <2>3. TypeOK' /\ MainInTurn' /\ OnePrinter'
    BY <1>4, <2>1, <2>2 DEF Exit, IInv, TypeOK, MainInTurn, OnePrinter
  <2> QED
    BY <2>2, <2>3 DEF IInv, OutInv
<1> QED
  BY <1>1, <1>2, <1>3, <1>4 DEF Main

\* A thread that runs was started, so that main() is not before its start.
LEMMA PeerIInv ==
  ASSUME IInv, NEW p \in Peers, PeerThread(p)
  PROVE  IInv'
<1>1. PICK to \in {"query", "lock", "print", "hangup", "ended"} :
        /\ Alive
        /\ peer' = [peer EXCEPT ![p] = to]
        /\ peer[p] \notin {"none", "ended"}
        /\ to \in {"query", "lock"} => peer[p] \in {"connect", "query"}
        /\ to = "print" => peer[p] \in {"lock", "print"}
  BY DEF PeerThread, PeerGoes, Connected, NotConnected, Answered, NotAnswered,
         Lock, PrintPiece, Unlock, Hangup
<1>2. MainInTurn'
  BY <1>1 DEF PeerThread, Connected, NotConnected, Answered, NotAnswered, Lock,
              PrintPiece, Unlock, Hangup, mainVars, IInv, TypeOK, MainInTurn, Alive
<1>3. \A q \in Peers : peer'[q] = IF q = p THEN to ELSE peer[q]
  BY <1>1 DEF IInv, TypeOK
<1>4. OutInv' /\ out' \in Seq(Pieces)
  <2>1. CASE UNCHANGED out
    BY <1>1, <1>3, <2>1, NoOutIInv DEF IInv, TypeOK
  <2>2. CASE PrintPiece(p) /\ out' # out
    <3> DEFINE x == Piece(p, at[p])
    <3>1. /\ out' = Append(out, x)
          /\ x \in Pieces /\ x.peer = p
          /\ peer[p] = "print" /\ UNCHANGED peer
      BY <2>2, RequestsAssumption
      DEF PrintPiece, PeerGoes, IInv, TypeOK, Piece, Pieces, First, Last
    <3> HIDE DEF x
    <3>2. /\ out \in Seq(Pieces)
          /\ InOnePiece(out)
          /\ EndsWith(p, out)
      BY <3>1
      DEF IInv, TypeOK, ReportsInOnePiece, InOnePiece, LastIsPrinters, EndsWith
    <3>3. /\ out' \in Seq(Pieces)
          /\ InOnePiece(out')
          /\ EndsWith(p, out')
          /\ \A q : HasNothing(q, out) /\ q # p => HasNothing(q, out')
      BY <3>1, <3>2, AppendInOnePiece
    <3>4. \A q \in Peers : peer[q] = "print" => q = p
      BY <3>1, ClientNoneAssumption DEF IInv, OnePrinter, Peers
    <3>5. ReportsInOnePiece'
      BY <3>3 DEF ReportsInOnePiece, InOnePiece
    <3>6. NotYetPrinted'
      BY <3>1, <3>3 DEF IInv, NotYetPrinted, HasNothing
    <3>7. LastIsPrinters'
      BY <3>1, <3>3, <3>4 DEF LastIsPrinters, EndsWith
    <3> QED
      BY <3>3, <3>5, <3>6, <3>7 DEF OutInv
  <2> QED
    BY <2>1, <2>2
    DEF PeerThread, Connected, NotConnected, Answered, NotAnswered, Lock,
        Unlock, Hangup
<1>5. OnePrinter'
  <2>1. CASE Lock(p)
    BY <2>1, ClientNoneAssumption
    DEF Lock, PeerGoes, IInv, TypeOK, OnePrinter, Peers
  <2>2. CASE Unlock(p)
    BY <2>2, ClientNoneAssumption
    DEF Unlock, PeerGoes, IInv, TypeOK, OnePrinter, Peers
  <2>3. CASE ~Lock(p) /\ ~Unlock(p)
    BY <2>3
    DEF PeerThread, PeerGoes, Connected, NotConnected, Answered, NotAnswered,
        PrintPiece, Hangup, IInv, TypeOK, OnePrinter
  <2> QED
    BY <2>1, <2>2, <2>3
<1>6. TypeOK'
  <2>1. main' = main /\ next' = next /\ silent' = silent
    BY DEF PeerThread, Connected, NotConnected, Answered, NotAnswered, Lock,
           PrintPiece, Unlock, Hangup, mainVars
  <2>2. peer' \in [Peers -> {"none", "connect", "query", "lock", "print",
                             "hangup", "ended"}]
    BY <1>1 DEF IInv, TypeOK
  <2>3. responses' \in [Peers -> Seq({"some", "empty"})]
    <3>1. CASE Answered(p)
      <4>1. PICK empty \in SUBSET MayBeEmpty :
              responses' = [responses EXCEPT ![p] =
                [i \in DOMAIN Requests |->
                   IF i \in empty THEN "empty" ELSE "some"]]
        BY <3>1 DEF Answered
      <4> DEFINE rs == [i \in DOMAIN Requests |->
                          IF i \in empty THEN "empty" ELSE "some"]
      <4>2. DOMAIN Requests = 1 .. Len(Requests) /\ Len(Requests) \in Nat
        BY RequestsAssumption
      <4>3. rs \in Seq({"some", "empty"})
        <5>1. rs \in [1 .. Len(Requests) -> {"some", "empty"}]
          BY <4>2
        <5> QED
          BY <4>2, <5>1
      <4> HIDE DEF rs
      <4> QED
        BY <4>1, <4>3 DEF IInv, TypeOK, rs
    <3>2. CASE ~Answered(p)
      BY <3>2 DEF PeerThread, Connected, NotConnected, NotAnswered, Lock, PrintPiece,
                  Unlock, Hangup, IInv, TypeOK
    <3> QED
      BY <3>1, <3>2
  <2>4. at' \in [Peers -> First .. Last + 1]
    <3>1. CASE PrintPiece(p)
      <4>1. Last \in Nat
        BY RequestsAssumption DEF Last
      <4> QED
        BY <3>1, <4>1 DEF PrintPiece, IInv, TypeOK, First
    <3>2. CASE ~PrintPiece(p)
      BY <3>2 DEF PeerThread, Connected, NotConnected, Answered, NotAnswered,
                  Lock, Unlock, Hangup, IInv, TypeOK
    <3> QED
      BY <3>1, <3>2
  <2>5. mtx' \in Peers \cup {None}
    BY DEF PeerThread, Connected, NotConnected, Answered, NotAnswered, Lock,
           PrintPiece, Unlock, Hangup, IInv, TypeOK
  <2> QED
    BY <1>4, <2>1, <2>2, <2>3, <2>4, <2>5 DEF IInv, TypeOK
<1> QED
  BY <1>2, <1>4, <1>5, <1>6 DEF IInv, OutInv

LEMMA NextIInv == IInv /\ [Next]_vars => IInv'
<1> SUFFICES ASSUME IInv, [Next]_vars PROVE IInv'
  OBVIOUS
<1>1. CASE \E p \in Peers : GoSilent(p)
  <2>1. PICK p \in Peers : GoSilent(p)
    BY <1>1
  <2>2. OutInv'
    BY <2>1, NoOutIInv DEF GoSilent
  <2>3. TypeOK' /\ MainInTurn' /\ OnePrinter'
    BY <2>1 DEF GoSilent, mainVars, IInv, TypeOK, MainInTurn, OnePrinter
  <2> QED
    BY <2>2, <2>3 DEF IInv, OutInv
<1>2. CASE UNCHANGED vars
  BY <1>2 DEF vars, mainVars, IInv, TypeOK, MainInTurn, OnePrinter,
              NotYetPrinted, LastIsPrinters, ReportsInOnePiece
<1> QED
  BY <1>1, <1>2, MainIInv, PeerIInv DEF Next, Terminated

\* The invariant, of which the theorems below are parts.
THEOREM ClientInvariant == Spec => []IInv
<1> QED
  BY InitIInv, NextIInv, PTL DEF Spec

\* Every variable keeps its type, whatever the hosts do.
THEOREM ClientTypeOK == Spec => []TypeOK
<1>1. IInv => TypeOK
  BY DEF IInv
<1> QED
  BY <1>1, ClientInvariant, PTL

\* The reports of PeerThreads are never mixed on the output, for any number of
\* hosts, any requests and any outcome of each session.
THEOREM ReportsStayTogether == Spec => []ReportsInOnePiece
<1>1. IInv => ReportsInOnePiece
  BY DEF IInv
<1> QED
  BY <1>1, ClientInvariant, PTL

\* main() does not return while a thread runs that uses what main() owns.
NoThreadLeft == main = "exited" => \A p \in Peers : ~Active(p)

THEOREM ThreadsAreJoined == Spec => []NoThreadLeft
<1>1. IInv => NoThreadLeft
  BY DEF IInv, MainInTurn, NoThreadLeft, Active
<1> QED
  BY <1>1, ClientInvariant, PTL

-------------------------------------------------------------------------------
(* What the invariant RInv says of one thread's report, for any output s and *)
(* any responses rs.                                                         *)

ShownOf(rs, k) ==
  IF k \in {First, Last} THEN Html
  ELSE ~(Html /\ Requests[k] = "logins" /\ rs[k] = "empty")

PlacesIn(s, p) == {i \in DOMAIN s : s[i].peer = p}

Reported(s, p, rs, k) ==
  /\ {s[i].what : i \in PlacesIn(s, p)} = {n \in First .. k - 1 : ShownOf(rs, n)}
  /\ \A i, j \in PlacesIn(s, p) : i < j => s[i].what < s[j].what

LEMMA ReportedIs ==
  ASSUME NEW p \in Peers, NEW k
  PROVE  ReportedUpTo(p, k) <=> Reported(out, p, responses[p], k)
  BY DEF ReportedUpTo, Reported, PlacesOf, PlacesIn, Shows, ShownOf

\* A piece of another thread or of main() leaves p's report as it is.
LEMMA OthersPiece ==
  ASSUME NEW s \in Seq(Pieces), NEW x \in Pieces, NEW p, x.peer # p, NEW rs, NEW k,
         Reported(s, p, rs, k)
  PROVE  Reported(Append(s, x), p, rs, k)
<1> DEFINE t == Append(s, x)
<1>1. /\ DOMAIN s = 1 .. Len(s) /\ DOMAIN t = 1 .. Len(s) + 1 /\ Len(s) \in Nat
      /\ t[Len(s) + 1] = x
      /\ \A i \in 1 .. Len(s) : t[i] = s[i]
  OBVIOUS
<1> HIDE DEF t
<1>2. PlacesIn(t, p) = PlacesIn(s, p) /\ \A i \in PlacesIn(s, p) : t[i] = s[i]
  BY <1>1 DEF PlacesIn
<1>3. {t[i].what : i \in PlacesIn(t, p)} = {s[i].what : i \in PlacesIn(s, p)}
  BY <1>2
<1>4. Reported(t, p, rs, k)
  BY <1>2, <1>3 DEF Reported
<1> QED
  BY <1>4 DEF t

\* The next piece of p's report, at its end.
LEMMA OwnPiece ==
  ASSUME NEW s \in Seq(Pieces), NEW p \in Peers, NEW rs, NEW k \in Nat, ShownOf(rs, k),
         Reported(s, p, rs, k)
  PROVE  Reported(Append(s, Piece(p, k)), p, rs, k + 1)
<1> DEFINE x == Piece(p, k)
           t == Append(s, x)
           n == Len(s) + 1
<1>1. x \in Pieces /\ x.peer = p /\ x.what = k
  BY DEF Piece, Pieces
<1>2. /\ DOMAIN s = 1 .. Len(s) /\ DOMAIN t = 1 .. n /\ Len(s) \in Nat
      /\ t[n] = x
      /\ \A i \in 1 .. Len(s) : t[i] = s[i]
  BY <1>1
<1> HIDE DEF t, x
<1>3. /\ PlacesIn(t, p) = PlacesIn(s, p) \cup {n}
      /\ \A i \in PlacesIn(s, p) : t[i] = s[i] /\ i < n
  BY <1>1, <1>2 DEF PlacesIn
<1>4. \A i \in PlacesIn(s, p) : s[i].what < k
  <2>1. \A i \in PlacesIn(s, p) : s[i].what \in {m \in First .. k - 1 : ShownOf(rs, m)}
    BY DEF Reported
  <2> QED
    BY <2>1 DEF First
<1>5. {t[i].what : i \in PlacesIn(t, p)} = {s[i].what : i \in PlacesIn(s, p)} \cup {k}
  BY <1>1, <1>2, <1>3
<1>6. {m \in First .. (k + 1) - 1 : ShownOf(rs, m)}
        = {m \in First .. k - 1 : ShownOf(rs, m)} \cup {k}
  BY DEF First
<1>7. \A i, j \in PlacesIn(t, p) : i < j => t[i].what < t[j].what
  BY <1>1, <1>2, <1>3, <1>4 DEF Reported, PlacesIn
<1>8. Reported(t, p, rs, k + 1)
  <2>1. {s[i].what : i \in PlacesIn(s, p)} = {m \in First .. k - 1 : ShownOf(rs, m)}
    BY DEF Reported
  <2>2. {t[i].what : i \in PlacesIn(t, p)} = {m \in First .. (k + 1) - 1 : ShownOf(rs, m)}
    BY <1>5, <1>6, <2>1
  <2> QED
    BY <1>7, <2>2 DEF Reported
<1> QED
  BY <1>8 DEF t, x

\* A place of the report that has no piece.
LEMMA NoPiece ==
  ASSUME NEW s, NEW p, NEW rs, NEW k \in Nat, ~ShownOf(rs, k), Reported(s, p, rs, k)
  PROVE  Reported(s, p, rs, k + 1)
<1>1. {m \in First .. (k + 1) - 1 : ShownOf(rs, m)} = {m \in First .. k - 1 : ShownOf(rs, m)}
  BY DEF First
<1> QED
  BY <1>1 DEF Reported

-------------------------------------------------------------------------------
LEMMA InitRInv == Init => RInv
<1> SUFFICES ASSUME Init PROVE RInv
  OBVIOUS
<1>1. AtInPlace
  BY DEF Init, AtInPlace
<1>2. ReportedSoFar
  BY DEF Init, ReportedSoFar, ReportedUpTo, PlacesOf, First
<1>3. PageAround
  BY DEF Init, PageAround
<1> QED
  BY <1>1, <1>2, <1>3 DEF RInv

\* main() prints nothing or its own piece, and changes nobody's report.
LEMMA MainRInv ==
  ASSUME IInv, RInv, Main
  PROVE  RInv'
<1>1. UNCHANGED <<responses, at>>
  BY DEF Main, PrintHeader, SpawnThread, SpawnThrows, SpawnEnd, Join, Exit
<1>2. out \in Seq(Pieces)
  BY DEF IInv, TypeOK
<1>3. \/ UNCHANGED out
      \/ \E x \in Pieces : x.peer = None /\ out' = Append(out, x)
  BY <1>2, MarkIs DEF Main, PrintHeader, SpawnThread, SpawnThrows, SpawnEnd, Join, Exit
<1>4. AtInPlace'
  <2>1. \A p \in Peers : peer'[p] # peer[p] => peer[p] = "none" /\ peer'[p] = "connect"
    BY NumHostsAssumption
    DEF Main, PrintHeader, SpawnThread, SpawnThrows, SpawnEnd, Join, Exit, IInv, TypeOK,
        MainInTurn, Peers
  <2> QED
    BY <1>1, <2>1 DEF RInv, AtInPlace
<1>5. ReportedSoFar'
  <2>1. CASE UNCHANGED out
    BY <1>1, <2>1 DEF RInv, ReportedSoFar, ReportedUpTo, PlacesOf, Shows
  <2>2. CASE ~UNCHANGED out
    <3>1. PICK x \in Pieces : x.peer = None /\ out' = Append(out, x)
      BY <1>3, <2>2
    <3>2. \A p \in Peers : Reported(out', p, responses[p], at[p])
      BY <1>2, <3>1, OthersPiece, ReportedIs, ClientNoneAssumption
      DEF RInv, ReportedSoFar, Peers
    <3> QED
      BY <1>1, <3>2
      DEF ReportedSoFar, ReportedUpTo, Reported, PlacesOf, PlacesIn, Shows, ShownOf
  <2> QED
    BY <2>1, <2>2
<1>6. PageAround'
  <2> SUFFICES ASSUME Html PROVE PageAround'
    <3>1. main' # "start"
      BY DEF Main, PrintHeader, SpawnThread, SpawnThrows, SpawnEnd, Join, Exit
    <3> QED
      BY <3>1, HtmlAssumption DEF PageAround
  <2>1. CASE PrintHeader
    <3>1. out' = Append(out, Piece(None, First)) /\ Piece(None, First) \in Pieces
      BY <1>2, <2>1 DEF PrintHeader, Header, Piece, Pieces, First
    <3>2. out = <<>>
      BY <2>1 DEF PrintHeader, RInv, PageAround
    <3>3. out' # <<>> /\ out'[1] = Piece(None, First) /\ main' = "spawn"
      BY <2>1, <3>1, <3>2 DEF PrintHeader
    <3> QED
      BY <3>3 DEF PageAround
  <2>2. CASE Exit
    <3>1. out' = Append(out, Piece(None, Last)) /\ Piece(None, Last) \in Pieces
      BY <1>2, <2>2, RequestsAssumption DEF Exit, Footer, Piece, Pieces, Last
    <3>2. out # <<>> /\ out[1] = Piece(None, First) /\ main' = "exited"
      BY <2>2 DEF Exit, RInv, PageAround
    <3>3. out' # <<>> /\ out'[1] = out[1] /\ out'[Len(out')] = Piece(None, Last)
      BY <1>2, <3>1, <3>2
    <3> QED
      BY <3>2, <3>3 DEF PageAround
  <2>3. CASE ~PrintHeader /\ ~Exit
    BY <2>3
    DEF Main, SpawnThread, SpawnThrows, SpawnEnd, Join, RInv, PageAround
  <2> QED
    BY <2>1, <2>2, <2>3
<1> QED
  BY <1>4, <1>5, <1>6 DEF RInv

\* PrintPiece goes on with its own report, every other step of a PeerThread
\* leaves the output alone.
LEMMA PeerReported ==
  ASSUME IInv, RInv, NEW p \in Peers, PeerThread(p)
  PROVE  ReportedSoFar'
<1>1. CASE PrintPiece(p)
  <2>1. /\ UNCHANGED responses
        /\ at[p] \in Nat /\ at' = [at EXCEPT ![p] = @ + 1]
        /\ out' = IF ShownOf(responses[p], at[p]) THEN Append(out, Piece(p, at[p])) ELSE out
    BY <1>1, RequestsAssumption
    DEF PrintPiece, IInv, TypeOK, Shows, ShownOf, First, Last
  <2>2. out \in Seq(Pieces) /\ Piece(p, at[p]) \in Pieces /\ Piece(p, at[p]).peer = p
    BY <2>1 DEF IInv, TypeOK, Piece, Pieces
  <2>3. \A q \in Peers : Reported(out, q, responses[q], at[q])
    BY ReportedIs DEF RInv, ReportedSoFar
  <2>4. Reported(out', p, responses[p], at[p] + 1)
    <3>1. CASE ShownOf(responses[p], at[p])
      BY <2>1, <2>2, <2>3, <3>1, OwnPiece
    <3>2. CASE ~ShownOf(responses[p], at[p])
      BY <2>1, <2>2, <2>3, <3>2, NoPiece
    <3> QED
      BY <3>1, <3>2
  <2>5. \A q \in Peers : q # p => Reported(out', q, responses[q], at[q])
    BY <2>1, <2>2, <2>3, OthersPiece
  <2>6. \A q \in Peers : Reported(out', q, responses'[q], at'[q])
    BY <2>1, <2>4, <2>5 DEF IInv, TypeOK
  <2> QED
    BY <2>6 DEF ReportedSoFar, ReportedUpTo, Reported, PlacesOf, PlacesIn, Shows, ShownOf
<1>2. CASE Answered(p)
  <2>1. UNCHANGED <<out, at>> /\ at[p] = First
    BY <1>2 DEF Answered, PeerGoes, RInv, AtInPlace
  <2>2. \A q \in Peers : q # p => responses'[q] = responses[q]
    BY <1>2 DEF Answered, IInv, TypeOK
  <2>3. \A q \in Peers : Reported(out, q, responses[q], at[q])
    BY ReportedIs DEF RInv, ReportedSoFar
  <2>4. Reported(out, p, responses'[p], at[p])
    <3>1. \A n \in First .. at[p] - 1 : FALSE
      BY <2>1 DEF First
    <3>2. /\ {n \in First .. at[p] - 1 : ShownOf(responses[p], n)} = {}
          /\ {n \in First .. at[p] - 1 : ShownOf(responses'[p], n)} = {}
      BY <3>1
    <3> QED
      BY <2>3, <3>2 DEF Reported
  <2>5. \A q \in Peers : Reported(out', q, responses'[q], at'[q])
    BY <2>1, <2>2, <2>3, <2>4
  <2> QED
    BY <2>5 DEF ReportedSoFar, ReportedUpTo, Reported, PlacesOf, PlacesIn, Shows, ShownOf
<1>3. CASE ~PrintPiece(p) /\ ~Answered(p)
  <2>1. UNCHANGED <<out, at, responses>>
    BY <1>3
    DEF PeerThread, Connected, NotConnected, NotAnswered, Lock, Unlock, Hangup
  <2> QED
    BY <2>1 DEF RInv, ReportedSoFar, ReportedUpTo, PlacesOf, Shows
<1> QED
  BY <1>1, <1>2, <1>3

LEMMA PeerRInv ==
  ASSUME IInv, RInv, NEW p \in Peers, PeerThread(p)
  PROVE  RInv'
<1>1. /\ peer[p] # "none" /\ main' = main /\ main # "start" /\ main # "exited"
      /\ \A q \in Peers : q # p => peer'[q] = peer[q] /\ at'[q] = at[q]
                                   /\ responses'[q] = responses[q]
  BY DEF PeerThread, PeerGoes, Connected, NotConnected, Answered, NotAnswered, Lock,
         PrintPiece, Unlock, Hangup, mainVars, IInv, TypeOK, MainInTurn, Alive
<1>2. AtInPlace'
  <2>1. CASE Answered(p)
    <3>1. PICK empty \in SUBSET MayBeEmpty :
            responses'[p] = [i \in DOMAIN Requests |-> IF i \in empty THEN "empty" ELSE "some"]
      BY <2>1 DEF Answered, IInv, TypeOK
    <3>2. 1 \in DOMAIN Requests
      BY RequestsAssumption
    <3>3. responses'[p] # <<>>
      BY <3>1, <3>2
    <3> QED
      BY <1>1, <2>1, <3>3 DEF Answered, PeerGoes, IInv, TypeOK, RInv, AtInPlace
  <2>2. CASE Unlock(p)
    <3>1. at[p] = Last + 1
      BY <2>2, RequestsAssumption DEF Unlock, IInv, TypeOK, First, Last
    <3> QED
      BY <1>1, <2>2, <3>1 DEF Unlock, PeerGoes, IInv, TypeOK, RInv, AtInPlace
  <2>3. CASE ~Answered(p) /\ ~Unlock(p)
    BY <1>1, <2>3
    DEF PeerThread, PeerGoes, Connected, NotConnected, NotAnswered, Lock, PrintPiece, Hangup,
        IInv, TypeOK, RInv, AtInPlace
  <2> QED
    BY <2>1, <2>2, <2>3
<1>3. PageAround'
  <2>1. CASE UNCHANGED out
    BY <1>1, <2>1 DEF RInv, PageAround
  <2>2. CASE ~UNCHANGED out
    <3>1. out' = Append(out, Piece(p, at[p])) /\ out \in Seq(Pieces) /\ out' \in Seq(Pieces)
      BY <2>2, PeerIInv
      DEF PeerThread, Connected, NotConnected, Answered, NotAnswered, Lock, PrintPiece, Unlock,
          Hangup, IInv, TypeOK
    <3>2. out # <<>> => out' # <<>> /\ out'[1] = out[1]
      BY <3>1
    <3> QED
      BY <1>1, <3>2 DEF RInv, PageAround
  <2> QED
    BY <2>1, <2>2
<1> QED
  BY <1>2, <1>3, PeerReported DEF RInv

LEMMA NextRInv == IInv /\ RInv /\ [Next]_vars => RInv'
<1> SUFFICES ASSUME IInv, RInv, [Next]_vars PROVE RInv'
  OBVIOUS
<1>1. CASE UNCHANGED <<main, peer, responses, at, out>>
  BY <1>1 DEF RInv, AtInPlace, ReportedSoFar, ReportedUpTo, PlacesOf, Shows, PageAround
<1>2. UNCHANGED vars \/ (\E p \in Peers : GoSilent(p))
        => UNCHANGED <<main, peer, responses, at, out>>
  BY DEF vars, GoSilent, mainVars
<1> QED
  BY <1>1, <1>2, MainRInv, PeerRInv DEF Next, Terminated

\* When main() returns, each host that answered has its whole report on the
\* output, once and in order, and mctallycgi's page encloses them, for any
\* number of hosts, any requests and any outcome of each session.
THEOREM ReportsAreWhole == Spec => []ExitsWithWholeReports
<1>1. IInv /\ RInv => ExitsWithWholeReports
  BY DEF IInv, RInv, MainInTurn, AtInPlace, ReportedSoFar, PageAround, Active,
         ExitsWithWholeReports
<1> QED
  BY <1>1, InitRInv, NextRInv, ClientInvariant, PTL DEF Spec

================================================================================
