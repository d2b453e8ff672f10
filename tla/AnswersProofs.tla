---------------------------- MODULE AnswersProofs ----------------------------
(***************************************************************************)
(* Proofs about Answers: what a Responder finds out is right when the      *)
(* Response is made of it, whatever the host and the question; and the     *)
(* Response that is read at the other end can be shown, is the one that    *)
(* was written, and if what was written is damaged, is refused or whole.   *)
(***************************************************************************)
EXTENDS Answers, SequenceTheorems, FiniteSetTheorems, TLAPS

(***************************************************************************)
(* HInv of HostInfo: for any hosts, with any lines, and any questions it   *)
(* holds when a Responder begins, every step keeps it, and it says that    *)
(* what is found out is right.                                             *)
(***************************************************************************)
\* What is asked for is what some good expression matches.
LEMMA AskedIsMatched ==
  ASSUME asked \in Questions, NEW n
  PROVE  Asked(n) <=> AnyMatches(n)
<1>1. \A e \in ToSet(asked.exprs) : e.names \subseteq DOMAIN Lower
  BY QuestionsAssumption
<1> QED
  BY <1>1 DEF Asked, AnyMatches, Good, Matches

\* Of a host it is known what the lines of its sources are.
LEMMA LinesAre ==
  ASSUME host \in Hosts, NEW from \in {"packages", "ports", "release"}
  PROVE  /\ Len(host[from]) \in Nat
         /\ DOMAIN host[from] = 1 .. Len(host[from])
         /\ ToSet(host[from]) = {host[from][k] : k \in 1 .. Len(host[from])}
<1>1. /\ host.packages \in Seq(PackageText) /\ host.ports \in Seq(PackageText)
      /\ host.release \in Seq(KeyText)
  BY HostsAssumption
<1>2. host[from] \in Seq(PackageText) \/ host[from] \in Seq(KeyText)
  BY <1>1
<1> QED
  BY <1>2 DEF ToSet

\* What it is to be said, and that nothing is by no lines.
LEMMA SaidIs ==
  ASSUME NEW lines, NEW n, NEW key, NEW k
  PROVE  k \in SaidAt(lines, n, key) <=>
           k \in 1 .. n /\ Gives(lines[k], key)
  BY DEF SaidAt

LEMMA NothingSaid ==
  ASSUME NEW lines, NEW key
  PROVE  SaidAt(lines, 0, key) = {}
<1>1. \A k : k \notin 1 .. 0
  OBVIOUS
<1> QED
  BY <1>1, SaidIs

LEMMA ClockIsNat ==
  ASSUME host \in Hosts
  PROVE  ClockTime \in Nat /\ host.up \in Nat /\ host.now \in Nat /\ host.boot \in Nat
<1>1. {host.up, host.now, host.boot} \subseteq Nat
  BY HostsAssumption
<1> QED
  BY <1>1 DEF ClockTime

-----------------------------------------------------------------------------
LEMMA InitHInv == InitHost => HInv
<1> SUFFICES ASSUME InitHost PROVE HInv
  OBVIOUS
<1>1. asked.form \in {"one", "list", "prettyName", "uptime", "other"}
  BY QuestionsAssumption DEF InitHost
<1>2. /\ source \in {"packages", "release", "uptime", "other"}
      /\ source = "packages" <=> asked.form \in {"one", "list"}
  BY <1>1 DEF InitHost, SourceOf
<1>3. place = IF source = "other" THEN "done" ELSE "open"
  BY DEF InitHost
<1>4. InPlace
  <2>1. host \in Hosts /\ asked \in Questions /\ line = 1
    BY DEF InitHost
  <2> QED
    BY <1>2, <1>3, <2>1 DEF InPlace
<1>5. OnlySought
  <2>1. pkgs = <<>>
    BY DEF InitHost
  <2>2. DOMAIN pkgs = {}
    BY <2>1
  <2> QED
    BY <2>2 DEF OnlySought
<1>6. AllSought
  BY <1>2, <1>3 DEF AllSought
<1>7. NamesSaid
  <2>1. /\ release.name = "" /\ release.vers = "" /\ release.releaseName = ""
        /\ DOMAIN release = {"name", "vers", "releaseName"}
        /\ line = 1 /\ failed = {} /\ host \in Hosts
    BY DEF InitHost
  <2>2. \A key : SaidAt(host.release, line - 1, key) = {}
    <3>1. line = 1
      BY <2>1
    <3>2. line - 1 = 0
      BY <3>1
    <3> QED
      BY <3>2, NothingSaid
  <2>3. PartsSaid
    BY <2>1, <2>2, ReleaseNamesAssumption DEF PartsSaid, LastSaid, FirstSaid
  <2>4. 1 <= Len(host.release) + 1
    <3>1. Len(host["release"]) \in Nat
      BY <2>1, LinesAre
    <3> QED
      BY <3>1
  <2> QED
    BY <1>2, <1>3, <2>1, <2>3, <2>4 DEF NamesSaid
<1>8. UptimeByClock
  <2>1. uptime = 0 /\ host \in Hosts
    BY DEF InitHost
  <2> QED
    BY <2>1, ClockIsNat DEF UptimeByClock
<1> QED
  BY <1>4, <1>5, <1>6, <1>7, <1>8 DEF HInv

\* A step of FindOut goes on with the same host and question.
LEMMA FindOutInPlace ==
  ASSUME HInv, FindOut
  PROVE  InPlace' /\ UNCHANGED <<host, asked>>
<1> USE DEF HInv, InPlace
<1>1. CASE Open
  BY <1>1 DEF Open
<1>2. CASE OpenFails
  BY <1>2 DEF OpenFails, Leave
<1>3. CASE NoExpression
  BY <1>3 DEF NoExpression, NothingToMatch
<1>4. CASE ReadPackage
  BY <1>4 DEF ReadPackage, AtPackage
<1>5. CASE StopAtBad
  BY <1>5 DEF StopAtBad, Stops
<1>6. CASE ReadReceipt
  <2>1. UNCHANGED <<host, asked, source, place>> /\ line' = line + 1 /\ place = "read"
    BY <1>6 DEF ReadReceipt, AtPackage
  <2> QED
    BY <2>1
<1>7. CASE ReadOsRelease
  <2>1. /\ UNCHANGED <<host, asked, source>> /\ line' = line + 1
        /\ place' \in {"done", place} /\ source = "release"
    BY <1>7 DEF ReadOsRelease
  <2> QED
    BY <2>1
<1>8. CASE ReadSwVers
  <2>1. UNCHANGED <<host, asked, source, place>> /\ line' = line + 1
    BY <1>8 DEF ReadSwVers
  <2> QED
    BY <2>1
<1>9. CASE Close
  BY <1>9 DEF Close, Leave
<1>10. CASE GetUptime
  BY <1>10 DEF GetUptime
<1> QED
  BY <1>1, <1>2, <1>3, <1>4, <1>5, <1>6, <1>7, <1>8, <1>9, <1>10 DEF FindOut

-----------------------------------------------------------------------------
(* The map of packages. *)

\* The line that a step deals with is in the map if it is sought, and is in it
\* for no other reason; only a command that failed can keep it out.
Dealt ==
  LET l == host[source][line]
  IN \/ Sought(source, l) /\ pkgs' = With(pkgs, NameIn(source, l), l.version)
     \/ UNCHANGED pkgs /\ (Sought(source, l) => source \in failed')

LEMMA PackageDealt ==
  ASSUME HInv, ReadPackage
  PROVE  Dealt
<1> DEFINE l == host[source][line]
<1>1. /\ source \in {"packages", "ports"}
      /\ ~(host.os = "macOS" /\ source = "packages")
      /\ Take(l)
  BY DEF ReadPackage, AtPackage, Lines
<1>2. /\ host.os \in {"macOS", "FreeBSD", "Linux"} /\ asked \in Questions
      /\ source = "ports" => host.os = "macOS"
  BY HostsAssumption DEF HInv, InPlace
<1>3. AnyMatches(Name(l)) <=> Asked(NameIn(source, l))
  BY <1>2, AskedIsMatched DEF Name
<1>4. Parses(l) /\ AnyMatches(Name(l)) <=> Sought(source, l)
  BY <1>1, <1>2, <1>3 DEF Parses, Sought
<1>5. CASE Sought(source, l)
  <2>1. pkgs' = With(pkgs, NameIn(source, l), l.version)
    BY <1>1, <1>4, <1>5 DEF Take, Name
  <2> QED
    BY <1>5, <2>1 DEF Dealt
<1>6. CASE ~Sought(source, l)
  <2>1. UNCHANGED pkgs
    BY <1>1, <1>4, <1>6 DEF Take
  <2> QED
    BY <1>6, <2>1 DEF Dealt
<1> QED
  BY <1>5, <1>6

LEMMA ReceiptDealt ==
  ASSUME HInv, ReadReceipt
  PROVE  Dealt
<1> DEFINE l == host[source][line]
<1>1. host.os = "macOS" /\ source = "packages" /\ l = Lines[line]
  BY DEF ReadReceipt, AtPackage, Lines
<1>2. NameIn(source, l) = l.name
  BY <1>1 DEF NameIn
<1>3. l.version # "" => l.name # ""
  <2>1. host \in Hosts /\ line \in 1 .. Len(host.packages)
    <3>1. line <= Len(host.packages)
      BY <1>1 DEF ReadReceipt, AtPackage, Lines
    <3> QED
      BY <3>1, LinesAre DEF HInv, InPlace
  <2>2. l \in ToSet(host.packages)
    BY <1>1, <2>1, LinesAre
  <2> QED
    BY <1>1, <2>1, <2>2, HostsAssumption
<1>4. AnyMatches(l.name) <=> Asked(NameIn(source, l))
  BY <1>2, AskedIsMatched DEF HInv, InPlace
<1>5. PICK info \in BOOLEAN :
        /\ IF AnyMatches(l.name) /\ info /\ l.version # ""
           THEN pkgs' = With(pkgs, l.name, l.version) ELSE UNCHANGED pkgs
        /\ failed' = IF AnyMatches(l.name) /\ ~info THEN failed \cup {source} ELSE failed
  BY <1>1 DEF ReadReceipt
<1> HIDE DEF l
<1>6. CASE AnyMatches(l.name) /\ info /\ l.version # ""
  <2>1. pkgs' = With(pkgs, l.name, l.version)
    BY <1>5, <1>6
  <2> QED
    BY <1>2, <1>4, <1>3, <1>6, <2>1 DEF Dealt, Sought, l
<1>7. CASE ~(AnyMatches(l.name) /\ info /\ l.version # "")
  <2>1. UNCHANGED pkgs
    BY <1>5, <1>7
  <2>2. Sought(source, l) => source \in failed'
    <3>1. Sought(source, l) => AnyMatches(l.name) /\ l.version # ""
      BY <1>1, <1>4 DEF Sought
    <3> QED
      BY <1>5, <1>7, <3>1
  <2> QED
    BY <2>1, <2>2 DEF Dealt, l
<1> QED
  BY <1>6, <1>7

\* So do the steps that deal with one line, and no others touch the map.
LEMMA LineDealt ==
  ASSUME HInv, ReadPackage \/ ReadReceipt
  PROVE  /\ source \in {"packages", "ports"} /\ place = "read"
         /\ line \in 1 .. Len(host[source])
         /\ UNCHANGED <<source, place, release>> /\ line' = line + 1
         /\ failed \subseteq failed'
         /\ Dealt
<1>1. AtPackage(FALSE) \/ AtPackage(TRUE)
  BY DEF ReadPackage, ReadReceipt
<1>2. source \in {"packages", "ports"} /\ place = "read" /\ line <= Len(host[source])
  BY <1>1 DEF AtPackage, Lines
<1>3. line \in 1 .. Len(host[source])
  BY <1>2, LinesAre DEF HInv, InPlace
<1>4. UNCHANGED <<source, place, release>> /\ line' = line + 1
  BY DEF ReadPackage, ReadReceipt
<1>5. failed \subseteq failed'
  BY DEF ReadPackage, ReadReceipt
<1> QED
  BY <1>2, <1>3, <1>4, <1>5, PackageDealt, ReceiptDealt

LEMMA OthersLeavePkgs ==
  ASSUME FindOut, ~ReadPackage, ~ReadReceipt
  PROVE  UNCHANGED pkgs
  BY DEF FindOut, Open, OpenFails, NoExpression, StopAtBad, ReadOsRelease, ReadSwVers, Close,
         GetUptime, answer

\* What is sought depends on the host and on the question alone.
LEMMA SoughtStays ==
  ASSUME UNCHANGED <<host, asked>>, NEW from, NEW l
  PROVE  Sought(from, l)' <=> Sought(from, l)
  BY DEF Sought, Asked, NameIn

LEMMA FindOutOnlySought ==
  ASSUME HInv, FindOut
  PROVE  OnlySought'
<1>1. UNCHANGED <<host, asked>>
  BY FindOutInPlace
<1> DEFINE IsFrom(m, n) ==
      \E from \in {"packages", "ports"} : \E l \in ToSet(host[from]) :
        /\ from = "ports" => host.os = "macOS"
        /\ Sought(from, l) /\ n = NameIn(from, l) /\ m[n] = l.version
<1> SUFFICES ASSUME NEW n \in DOMAIN pkgs' PROVE IsFrom(pkgs', n)
  BY <1>1, SoughtStays DEF OnlySought, NameIn
<1>2. \A k \in DOMAIN pkgs : IsFrom(pkgs, k)
  BY DEF HInv, OnlySought
<1>3. CASE UNCHANGED pkgs
  BY <1>2, <1>3
<1>4. CASE ~UNCHANGED pkgs
  <2> DEFINE l == host[source][line]
  <2>1. ReadPackage \/ ReadReceipt
    BY <1>4, OthersLeavePkgs
  <2>2. /\ source \in {"packages", "ports"}
        /\ line \in 1 .. Len(host[source])
        /\ Sought(source, l) /\ pkgs' = With(pkgs, NameIn(source, l), l.version)
    BY <1>4, <2>1, LineDealt DEF Dealt
  <2>3. /\ host \in Hosts
        /\ source = "ports" => host.os = "macOS"
    BY DEF HInv, InPlace
  <2>4. l \in ToSet(host[source])
    BY <2>2, <2>3, LinesAre
  <2> DEFINE name == NameIn(source, l)
  <2>5. /\ DOMAIN pkgs' = DOMAIN pkgs \cup {name}
        /\ pkgs'[name] = l.version
        /\ \A k \in DOMAIN pkgs : k # name => pkgs'[k] = pkgs[k]
    BY <2>2 DEF With
  <2> HIDE DEF l, name
  <2>6. CASE n = name
    BY <2>2, <2>3, <2>4, <2>5, <2>6 DEF name
  <2>7. CASE n # name
    BY <1>2, <2>5, <2>7
  <2> QED
    BY <2>6, <2>7
<1> QED
  BY <1>3, <1>4

\* The map keeps its names, and each line that is dealt with is added to them.
LEMMA PkgsGrow ==
  ASSUME Dealt
  PROVE  /\ DOMAIN pkgs \subseteq DOMAIN pkgs'
         /\ \/ source \in failed'
            \/ Sought(source, host[source][line]) =>
                 NameIn(source, host[source][line]) \in DOMAIN pkgs'
<1> DEFINE l == host[source][line]
<1>1. CASE Sought(source, l) /\ pkgs' = With(pkgs, NameIn(source, l), l.version)
  BY <1>1 DEF With
<1>2. CASE UNCHANGED pkgs /\ (Sought(source, l) => source \in failed')
  BY <1>2
<1> QED
  BY <1>1, <1>2 DEF Dealt

\* Taken of the next state, with the same host and question.
TakenNext(from, n) ==
  from \in failed' \/
    \A k \in 1 .. n :
      Sought(from, host[from][k]) => NameIn(from, host[from][k]) \in DOMAIN pkgs'

LEMMA TakenStays ==
  ASSUME HInv, FindOut, source \in {"packages", "ports"},
         NEW from \in {"packages", "ports"}, NEW n, Taken(from, n)
  PROVE  TakenNext(from, n)
<1>1. failed \subseteq failed'
  BY DEF FindOut, Open, OpenFails, NoExpression, ReadPackage, StopAtBad, ReadReceipt,
         ReadOsRelease, ReadSwVers, Close, GetUptime
<1>2. DOMAIN pkgs \subseteq DOMAIN pkgs'
  <2>1. CASE ReadPackage \/ ReadReceipt
    BY <2>1, LineDealt, PkgsGrow
  <2> QED
    BY <2>1, OthersLeavePkgs
<1> QED
  BY <1>1, <1>2 DEF Taken, TakenNext

LEMMA TakenGrows ==
  ASSUME HInv, ReadPackage \/ ReadReceipt, Taken(source, line - 1)
  PROVE  TakenNext(source, (line + 1) - 1)
<1>1. /\ FindOut /\ source \in {"packages", "ports"}
      /\ line \in Nat \ {0}
  BY LineDealt DEF FindOut, HInv, InPlace
<1>2. TakenNext(source, line - 1)
  BY <1>1, TakenStays
<1>3. \/ source \in failed'
      \/ Sought(source, host[source][line]) =>
           NameIn(source, host[source][line]) \in DOMAIN pkgs'
  BY LineDealt, PkgsGrow
<1> SUFFICES ASSUME source \notin failed', NEW k \in 1 .. (line + 1) - 1,
                    Sought(source, host[source][k])
             PROVE  NameIn(source, host[source][k]) \in DOMAIN pkgs'
  BY DEF TakenNext
<1>4. CASE k = line
  BY <1>3, <1>4
<1>5. CASE k # line
  <2>1. k \in 1 .. line - 1
    BY <1>1, <1>5
  <2> QED
    BY <1>2, <2>1 DEF TakenNext
<1> QED
  BY <1>4, <1>5

\* Without a good expression nothing is sought.
LEMMA NoneSought ==
  ASSUME Good(asked.exprs) = {}, NEW from, NEW l
  PROVE  ~Sought(from, l)
  BY DEF Good, Sought, Asked

LEMMA FindOutAllSought ==
  ASSUME HInv, FindOut
  PROVE  AllSought'
<1> DEFINE P == Len(host.packages)
           Q == Len(host.ports)
<1>1. UNCHANGED <<host, asked>> /\ host \in Hosts /\ asked \in Questions
  BY FindOutInPlace DEF HInv, InPlace
<1>2. P \in Nat /\ Q \in Nat /\ line \in Nat \ {0}
  <2>1. Len(host["packages"]) \in Nat /\ Len(host["ports"]) \in Nat
    BY <1>1, LinesAre
  <2> QED
    BY <2>1 DEF HInv, InPlace
<1> HIDE DEF P, Q
<1> SUFFICES
      /\ source' = "packages" /\ place' = "read" => TakenNext("packages", line' - 1)
      /\ source' = "packages" /\ place' = "done" => TakenNext("packages", P)
      /\ source' = "ports" => TakenNext("packages", P)
      /\ source' = "ports" /\ place' = "read" => TakenNext("ports", line' - 1)
      /\ source' = "ports" /\ place' = "done" => TakenNext("ports", Q)
  BY <1>1, SoughtStays DEF AllSought, Taken, TakenNext, NameIn, P, Q
<1>3. /\ source = "packages" /\ place = "read" => Taken("packages", line - 1)
      /\ source = "ports" => Taken("packages", P)
      /\ source = "ports" /\ place = "read" => Taken("ports", line - 1)
  BY DEF HInv, AllSought, P
<1>4. source = "ports" => TakenNext("packages", P)
  BY <1>3, TakenStays
<1>5. CASE source \notin {"packages", "ports"}
  <2>1. source' = source
    BY <1>5
    DEF FindOut, Open, OpenFails, NoExpression, ReadPackage, StopAtBad, ReadReceipt,
        ReadOsRelease, ReadSwVers, Close, GetUptime, Leave
  <2> QED
    BY <1>5, <2>1
<1>6. CASE Open
  <2>1. line' = 1 /\ place' = "read" /\ UNCHANGED source
    BY <1>6 DEF Open
  <2>2. \A from : TakenNext(from, line' - 1)
    BY <2>1 DEF TakenNext
  <2> QED
    BY <1>4, <2>1, <2>2
<1>7. CASE OpenFails /\ source \in {"packages", "ports"}
  <2>1. source \in failed' /\ Leave
    BY <1>7 DEF OpenFails
  <2>2. \A n : TakenNext(source, n)
    BY <2>1 DEF TakenNext
  <2> QED
    BY <1>4, <1>7, <2>1, <2>2 DEF Leave
<1>8. CASE NoExpression
  <2>1. source = "ports" /\ UNCHANGED source /\ place' = "done" /\ Good(asked.exprs) = {}
    BY <1>8 DEF NoExpression, NothingToMatch
  <2>2. TakenNext("ports", Q)
    BY <2>1, NoneSought DEF TakenNext
  <2> QED
    BY <1>4, <2>1, <2>2
<1>9. CASE ReadPackage \/ ReadReceipt
  <2>1. /\ source \in {"packages", "ports"} /\ place = "read"
        /\ UNCHANGED <<source, place>> /\ line' = line + 1
    BY <1>9, LineDealt
  <2>2. TakenNext(source, (line + 1) - 1)
    BY <1>3, <1>9, <2>1, TakenGrows
  <2> QED
    BY <1>4, <2>1, <2>2
<1>10. CASE StopAtBad
  <2>1. /\ host.os = "Linux" /\ asked.form = "one" /\ asked.exprs[1].bad
        /\ UNCHANGED source
    BY <1>10 DEF StopAtBad, Stops
  <2>2. asked.exprs = <<asked.exprs[1]>>
    BY <1>1, <2>1, QuestionsAssumption
  <2>3. ToSet(asked.exprs) = {asked.exprs[1]}
    BY <2>2 DEF ToSet
  <2>4. Good(asked.exprs) = {}
    BY <2>1, <2>3 DEF Good
  <2>5. \A from, n : TakenNext(from, n)
    BY <2>4, NoneSought DEF TakenNext
  <2> QED
    BY <2>5
<1>11. CASE Close /\ source \in {"packages", "ports"}
  <2>1. place = "read" /\ line > Len(host[source]) /\ Leave
    BY <1>11 DEF Close, Lines
  <2>2. TakenNext(source, line - 1)
    BY <1>3, <1>11, <2>1, TakenStays
  <2>3. source = "packages" => TakenNext("packages", P)
    BY <1>2, <2>1, <2>2 DEF TakenNext, P
  <2>4. source = "ports" => TakenNext("ports", Q)
    BY <1>2, <2>1, <2>2 DEF TakenNext, Q
  <2> QED
    BY <1>4, <1>11, <2>1, <2>3, <2>4 DEF Leave
<1>12. source \in {"packages", "ports"} => ~(ReadOsRelease \/ ReadSwVers \/ GetUptime)
  BY DEF ReadOsRelease, ReadSwVers, GetUptime
<1> QED
  BY <1>5, <1>6, <1>7, <1>8, <1>9, <1>10, <1>11, <1>12 DEF FindOut

-----------------------------------------------------------------------------
(* The pretty name. *)

\* One line more may be said.
LEMMA SaidNext ==
  ASSUME NEW lines, NEW n \in Nat, NEW key, NEW l, l = lines[n + 1], NEW k
  PROVE  k \in SaidAt(lines, n + 1, key) <=>
           \/ k \in SaidAt(lines, n, key)
           \/ k = n + 1 /\ Gives(l, key)
<1>1. k \in 1 .. n + 1 <=> k \in 1 .. n \/ k = n + 1
  OBVIOUS
<1>2. /\ k \in SaidAt(lines, n, key) <=> k \in 1 .. n /\ Gives(lines[k], key)
      /\ k \in SaidAt(lines, n + 1, key) <=> k \in 1 .. n + 1 /\ Gives(lines[k], key)
  BY SaidIs, Zenon
<1> QED
  BY <1>1, <1>2, Zenon

LEMMA SaidBefore ==
  ASSUME NEW lines, NEW n \in Nat, NEW key, NEW k \in SaidAt(lines, n, key)
  PROVE  k \in Nat /\ k <= n /\ Gives(lines[k], key)
<1>1. k \in 1 .. n /\ Gives(lines[k], key)
  BY SaidIs
<1> QED
  BY <1>1

LEMMA LastNext ==
  ASSUME NEW lines, NEW n \in Nat, NEW key, NEW v, LastSaid(lines, n, key, v),
         NEW l, l = lines[n + 1]
  PROVE  LastSaid(lines, n + 1, key, IF Gives(l, key) THEN l.value ELSE v)
<1> DEFINE at == SaidAt(lines, n, key)
           now == SaidAt(lines, n + 1, key)
<1>1. \A k : k \in now <=> k \in at \/ (k = n + 1 /\ Gives(l, key))
  BY SaidNext, Zenon
<1>2. \A k \in at : k \in Nat /\ k <= n
  BY SaidBefore, Zenon
<1>3. (at = {} /\ v = "") \/ \E k \in at : v = lines[k].value /\ \A m \in at : m <= k
  BY Zenon DEF LastSaid
<1> HIDE DEF at, now
<1>4. CASE Gives(l, key)
  <2>1. n + 1 \in now /\ \A m \in now : m <= n + 1
    BY <1>1, <1>2, <1>4
  <2>2. \E k \in now : l.value = lines[k].value /\ \A m \in now : m <= k
    BY <2>1
  <2>3. LastSaid(lines, n + 1, key, l.value)
    BY <2>2, Zenon DEF LastSaid, now
  <2> QED
    BY <1>4, <2>3, Zenon
<1>5. CASE ~Gives(l, key)
  <2>1. now = at
    BY <1>1, <1>5, Zenon
  <2>2. LastSaid(lines, n + 1, key, v)
    BY <1>3, <2>1, Zenon DEF LastSaid, now
  <2> QED
    BY <1>5, <2>2, Zenon
<1> QED
  BY <1>4, <1>5, Zenon

\* If what was said first is nothing, no line has said anything.
LEMMA NoneFirst ==
  ASSUME NEW lines, NEW n \in Nat, NEW key
  PROVE  FirstSaid(lines, n, key, "") => SaidAt(lines, n, key) = {}
<1>1. \A k \in SaidAt(lines, n, key) : Gives(lines[k], key)
  BY SaidBefore, Zenon
<1>2. \A k \in SaidAt(lines, n, key) : lines[k].value # ""
  BY <1>1, Zenon DEF Gives
<1> QED
  BY <1>2, Zenon DEF FirstSaid

LEMMA FirstNext ==
  ASSUME NEW lines, NEW n \in Nat, NEW key, SaidAt(lines, n, key) = {},
         NEW l, l = lines[n + 1]
  PROVE  FirstSaid(lines, n + 1, key, IF Gives(l, key) THEN l.value ELSE "")
<1> DEFINE now == SaidAt(lines, n + 1, key)
<1>1. \A k : k \in now <=> k = n + 1 /\ Gives(l, key)
  <2>1. \A k : k \in now <=> k \in SaidAt(lines, n, key) \/ (k = n + 1 /\ Gives(l, key))
    BY SaidNext
  <2>2. \A k : k \notin SaidAt(lines, n, key)
    OBVIOUS
  <2> HIDE DEF now
  <2> QED
    BY <2>1, <2>2, Zenon
<1> HIDE DEF now
<1>2. CASE Gives(l, key)
  <2>1. now = {n + 1}
    BY <1>1, <1>2, Zenon
  <2>2. \E k \in now : l.value = lines[k].value /\ \A m \in now : k <= m
    BY <2>1
  <2>3. FirstSaid(lines, n + 1, key, l.value)
    BY <2>2, Zenon DEF FirstSaid, now
  <2> QED
    BY <1>2, <2>3, Zenon
<1>3. CASE ~Gives(l, key)
  <2>1. now = {}
    BY <1>1, <1>3, Zenon
  <2>2. FirstSaid(lines, n + 1, key, "")
    BY <2>1, Zenon DEF FirstSaid, now
  <2> QED
    BY <1>3, <2>2, Zenon
<1> QED
  BY <1>2, <1>3, Zenon

\* What was said first stays the first.
LEMMA FirstStays ==
  ASSUME NEW lines, NEW n \in Nat, NEW size \in Nat, n <= size, NEW key, NEW v
  PROVE  FirstSaid(lines, n, key, v) => v = "" \/ FirstSaid(lines, size, key, v)
<1> DEFINE at == SaidAt(lines, n, key)
           all == SaidAt(lines, size, key)
<1>1. /\ \A m : m \in at <=> m \in 1 .. n /\ Gives(lines[m], key)
      /\ \A m : m \in all <=> m \in 1 .. size /\ Gives(lines[m], key)
  BY SaidIs, Zenon
<1> HIDE DEF at, all
<1>2. ASSUME NEW k \in at, \A m \in at : k <= m
      PROVE  k \in all /\ \A m \in all : k <= m
  <2>1. k \in 1 .. n /\ k \in all
    BY <1>1
  <2>2. ASSUME NEW m \in all PROVE k <= m
    <3>1. m \in 1 .. size /\ (m <= n => m \in at)
      BY <1>1
    <3> QED
      BY <1>2, <2>1, <3>1
  <2> QED
    BY <2>1, <2>2
<1> QED
  BY <1>2, Zenon DEF FirstSaid, at, all

LEMMA FindOutNamesSaid ==
  ASSUME HInv, FindOut
  PROVE  NamesSaid'
<1> DEFINE lines == host.release
           size == Len(lines)
<1>1. UNCHANGED <<host, asked>> /\ host \in Hosts /\ place \in {"open", "read", "done"}
      /\ line \in Nat \ {0}
  BY FindOutInPlace DEF HInv, InPlace
<1>2. size \in Nat
  <2>1. Len(host["release"]) \in Nat
    BY <1>1, LinesAre
  <2> QED
    BY <2>1
<1>3. CASE source # "release"
  <2>1. ~(ReadOsRelease \/ ReadSwVers)
    BY <1>3 DEF ReadOsRelease, ReadSwVers
  <2>2. UNCHANGED release
    BY <2>1 DEF FindOut, Open, OpenFails, NoExpression, ReadPackage, StopAtBad, ReadReceipt,
          Close, GetUptime, answer
  <2>3. source' # "release"
    BY <1>3, <2>1 DEF FindOut, Open, OpenFails, NoExpression, ReadPackage, StopAtBad, ReadReceipt,
          Close, GetUptime, Leave
  <2> QED
    BY <2>2, <2>3 DEF HInv, NamesSaid
<1>4. CASE source = "release"
  <2> DEFINE l == lines[line]
             Now(key, v) == IF Gives(l, key) THEN l.value ELSE v
  <2>1. /\ DOMAIN release = {"name", "vers", "releaseName"}
        /\ line <= size + 1
        /\ place = "open" \/ "release" \in failed => line = 1
        /\ place # "done" => "release" \notin failed
        /\ place # "done" /\ host.os # "macOS" => release.name = ""
        /\ PartsSaid
    BY <1>4 DEF HInv, NamesSaid
  <2>2. Open \/ OpenFails \/ ReadOsRelease \/ ReadSwVers \/ Close
    BY <1>4 DEF FindOut, NoExpression, NothingToMatch, ReadPackage, StopAtBad, ReadReceipt,
          AtPackage, GetUptime
  <2>3. CASE Open \/ OpenFails
    <3>1. /\ place = "open" /\ UNCHANGED <<source, release>> /\ line = 1 /\ line' = 1
          /\ \/ place' = "read" /\ failed' = failed
             \/ place' = "done" /\ failed' = failed \cup {"release"}
      BY <1>4, <2>1, <2>3 DEF Open, OpenFails, Leave, answer
    <3>2. PartsSaid'
      BY <1>1, <2>1, <3>1 DEF PartsSaid
    <3> QED
      BY <1>1, <1>2, <1>4, <2>1, <3>1, <3>2 DEF NamesSaid
  <2>4. CASE ReadOsRelease
    <3>1. /\ place = "read" /\ line <= size /\ host.os # "macOS"
          /\ line' = line + 1 /\ UNCHANGED <<source, failed>>
          /\ IF l.key = "PRETTY_NAME" /\ l.value # ""
             THEN release' = [release EXCEPT !.name = l.value] /\ place' = "done"
             ELSE UNCHANGED <<release, place>>
      BY <1>4, <2>4 DEF ReadOsRelease, Lines
    <3>2. release.name = "" /\ FirstSaid(lines, line - 1, "PRETTY_NAME", "")
      BY <2>1, <3>1 DEF PartsSaid
    <3>3. FirstSaid(lines, line, "PRETTY_NAME", Now("PRETTY_NAME", ""))
      <4> HIDE DEF lines
      <4>1. line - 1 \in Nat /\ (line - 1) + 1 = line
        BY <1>1
      <4>2. SaidAt(lines, line - 1, "PRETTY_NAME") = {}
        BY <3>2, <4>1, NoneFirst
      <4> QED
        BY <4>1, <4>2, FirstNext
    <3>4. /\ DOMAIN release' = {"name", "vers", "releaseName"}
          /\ release'.name = Now("PRETTY_NAME", "")
          /\ place' = "done" => release'.name # ""
          /\ place' \in {"read", "done"} /\ (place' # "done" => release'.name = "")
      BY <2>1, <3>1, <3>2 DEF Gives
    <3> HIDE DEF l, size
    <3>5. line' - 1 = line /\ line' <= size + 1
      <4>1. line' = line + 1 /\ line <= size
        BY <3>1
      <4> QED
        BY <1>1, <1>2, <4>1
    <3>6. PartsSaid'
      BY <1>1, <3>1, <3>3, <3>4, <3>5 DEF PartsSaid
    <3> QED
      BY <1>1, <1>4, <2>1, <3>1, <3>4, <3>5, <3>6 DEF NamesSaid, size
  <2>5. CASE ReadSwVers
    <3>1. /\ place = "read" /\ line <= size /\ host.os = "macOS"
          /\ line' = line + 1 /\ UNCHANGED <<source, place, failed>>
          /\ release' =
               IF l.value = "" THEN release
               ELSE IF l.key = "ProductVersion"
               THEN [release EXCEPT !.vers = l.value, !.releaseName =
                       IF l.value \in DOMAIN ReleaseNames THEN ReleaseNames[l.value] ELSE ""]
               ELSE IF l.key = "ProductName" THEN [release EXCEPT !.name = l.value]
               ELSE release
      BY <1>4, <2>5 DEF ReadSwVers, Lines
    <3>2. /\ LastSaid(lines, line - 1, "ProductName", release.name)
          /\ LastSaid(lines, line - 1, "ProductVersion", release.vers)
          /\ release.releaseName =
               IF release.vers \in DOMAIN ReleaseNames THEN ReleaseNames[release.vers] ELSE ""
      BY <2>1, <3>1 DEF PartsSaid
    <3>3. /\ LastSaid(lines, line, "ProductName", Now("ProductName", release.name))
          /\ LastSaid(lines, line, "ProductVersion", Now("ProductVersion", release.vers))
      <4> HIDE DEF lines
      <4>1. line - 1 \in Nat /\ (line - 1) + 1 = line
        BY <1>1
      <4> QED
        BY <3>2, <4>1, LastNext
    <3> HIDE DEF l, size
    <3>4. /\ DOMAIN release' = {"name", "vers", "releaseName"}
          /\ release'.name = Now("ProductName", release.name)
          /\ release'.vers = Now("ProductVersion", release.vers)
          /\ release'.releaseName =
               IF release'.vers \in DOMAIN ReleaseNames THEN ReleaseNames[release'.vers] ELSE ""
      <4>1. CASE l.value = ""
        BY <2>1, <3>1, <3>2, <4>1 DEF Gives
      <4>2. CASE l.value # "" /\ l.key = "ProductVersion"
        BY <2>1, <3>1, <3>2, <4>2 DEF Gives
      <4>3. CASE l.value # "" /\ l.key # "ProductVersion"
        BY <2>1, <3>1, <3>2, <4>3 DEF Gives
      <4> QED
        BY <4>1, <4>2, <4>3
    <3>5. line' - 1 = line /\ line' <= size + 1
      <4>1. line' = line + 1 /\ line <= size
        BY <3>1
      <4> QED
        BY <1>1, <1>2, <4>1
    <3>6. PartsSaid'
      BY <1>1, <3>1, <3>3, <3>4, <3>5 DEF PartsSaid
    <3> QED
      BY <1>1, <1>4, <2>1, <3>1, <3>4, <3>5, <3>6 DEF NamesSaid, size
  <2>6. CASE Close
    <3>1. /\ place = "read" /\ line > size /\ place' = "done"
          /\ UNCHANGED <<source, line, release, failed>>
      BY <1>4, <2>6 DEF Close, Leave, Lines, answer
    <3>2. PartsSaid'
      BY <1>1, <2>1, <3>1 DEF PartsSaid
    <3>3. line = size + 1
      <4> HIDE DEF size
      <4>1. line <= size + 1 /\ line > size
        BY <2>1, <3>1
      <4> QED
        BY <1>1, <1>2, <4>1
    <3> QED
      BY <1>1, <1>2, <1>4, <2>1, <3>1, <3>2, <3>3 DEF NamesSaid
  <2> QED
    BY <2>2, <2>3, <2>4, <2>5, <2>6
<1> QED
  BY <1>3, <1>4

\* An uptime by the clock is a difference that is taken only if it is positive.
LEMMA FindOutUptime ==
  ASSUME HInv, FindOut
  PROVE  UptimeByClock'
<1>1. host' = host /\ host \in Hosts /\ ClockTime' = ClockTime
  BY FindOutInPlace DEF HInv, InPlace, ClockTime
<1>2. CASE GetUptime
  <2>1. uptime' \in {0, IF host.os = "Linux" THEN host.up ELSE Elapsed}
    BY <1>2 DEF GetUptime
  <2>2. Elapsed \in 0 .. host.now
    BY <1>1, ClockIsNat DEF Elapsed
  <2>3. uptime' \in 0 .. ClockTime
    BY <1>1, <2>1, <2>2, ClockIsNat DEF ClockTime
  <2> QED
    BY <1>1, <2>3 DEF UptimeByClock
<1>3. ~GetUptime => UNCHANGED uptime
  BY DEF FindOut, Open, OpenFails, NoExpression, ReadPackage, StopAtBad, ReadReceipt, Close,
         ReadOsRelease, ReadSwVers, answer
<1> QED
  BY <1>1, <1>2, <1>3 DEF HInv, UptimeByClock

LEMMA FindOutHInv ==
  ASSUME HInv, FindOut
  PROVE  HInv'
  BY FindOutInPlace, FindOutOnlySought, FindOutAllSought, FindOutNamesSaid, FindOutUptime
  DEF HInv

-----------------------------------------------------------------------------
(* What HInv says of an answer. *)

LEMMA HInvSelects == HInv => SelectsInstalled
<1> SUFFICES ASSUME HInv, place = "done", source \in {"packages", "ports"}
             PROVE  SelectsInstalled
  BY DEF SelectsInstalled
<1> DEFINE wanted(from) ==
      {p \in Installed[from] : (p[2] # "" \/ host.os = "Linux") /\ Asked(p[1])}
<1>1. host \in Hosts /\ DOMAIN Installed = {"packages", "ports"}
  BY DEF HInv, InPlace, Installed
<1>2. ASSUME NEW from \in {"packages", "ports"}, NEW l \in ToSet(host[from]),
             from = "ports" => host.os = "macOS", Sought(from, l)
      PROVE  <<NameIn(from, l), l.version>> \in wanted(from)
  BY <1>2 DEF Installed, Sought
<1>3. ASSUME NEW from \in {"packages", "ports"}, NEW p \in wanted(from)
      PROVE  \E l \in ToSet(host[from]) :
               /\ from = "ports" => host.os = "macOS"
               /\ Sought(from, l) /\ p[1] = NameIn(from, l)
  <2>1. PICK l \in ToSet(host[from]) :
          /\ l.name # "" /\ (from = "ports" => host.os = "macOS")
          /\ p = <<NameIn(from, l), l.version>>
    BY <1>3 DEF Installed
  <2> QED
    BY <1>3, <2>1 DEF Sought
<1>4. \A n \in DOMAIN pkgs : \E from \in DOMAIN Installed : <<n, pkgs[n]>> \in wanted(from)
  <2> TAKE n \in DOMAIN pkgs
  <2>1. PICK from \in {"packages", "ports"} : \E l \in ToSet(host[from]) :
          /\ from = "ports" => host.os = "macOS"
          /\ Sought(from, l) /\ n = NameIn(from, l) /\ pkgs[n] = l.version
    BY DEF HInv, OnlySought
  <2>2. <<n, pkgs[n]>> \in wanted(from)
    BY <1>2, <2>1
  <2> QED
    BY <1>1, <2>2
<1>5. ASSUME NEW from \in DOMAIN Installed \ failed, NEW p \in wanted(from)
      PROVE  p[1] \in DOMAIN pkgs
  <2>1. PICK l \in ToSet(host[from]) :
          /\ from = "ports" => host.os = "macOS"
          /\ Sought(from, l) /\ p[1] = NameIn(from, l)
    BY <1>1, <1>3, <1>5
  <2>2. PICK k \in 1 .. Len(host[from]) : l = host[from][k]
    <3>1. from \in {"packages", "ports", "release"}
      BY <1>1
    <3>2. ToSet(host[from]) = {host[from][k] : k \in 1 .. Len(host[from])}
      BY <1>1, <3>1, LinesAre
    <3> QED
      BY <3>2
  <2>3. Taken(from, Len(host[from]))
    <3>1. from = "packages" => Taken("packages", Len(host["packages"]))
      BY DEF HInv, AllSought
    <3>2. from = "ports" => Taken("ports", Len(host["ports"]))
      BY <2>1 DEF HInv, InPlace, AllSought
    <3> QED
      BY <1>1, <1>5, <3>1, <3>2
  <2> QED
    BY <1>5, <2>1, <2>2, <2>3 DEF Taken
<1> HIDE DEF wanted
<1>6. \A from \in DOMAIN Installed \ failed : {p[1] : p \in wanted(from)} \subseteq DOMAIN pkgs
  BY <1>5
<1> QED
  BY <1>4, <1>6 DEF SelectsInstalled, wanted

LEMMA HInvPrettyName == HInv => PrettyNameIsWhole
<1> SUFFICES ASSUME HInv, place = "done", source = "release" PROVE PrettyNameIsWhole
  BY DEF PrettyNameIsWhole
<1> DEFINE lines == host.release
           size == Len(lines)
           name == release.name
           vers == release.vers
<1>1. /\ host \in Hosts /\ line \in Nat \ {0} /\ line <= size + 1
      /\ source \in failed => line = 1
      /\ source \notin failed => line = size + 1 \/ (host.os # "macOS" /\ name # "")
      /\ PartsSaid
  BY DEF HInv, InPlace, NamesSaid
<1>2. size \in Nat
  <2>1. Len(host["release"]) \in Nat
    BY <1>1, LinesAre
  <2> QED
    BY <2>1
<1>3. CASE source \in failed
  <2>1. \A key : SaidAt(lines, line - 1, key) = {}
    <3>1. line = 1
      BY <1>1, <1>3
    <3>2. line - 1 = 0
      BY <3>1
    <3> QED
      BY <3>2, NothingSaid
  <2>2. name = ""
    BY <1>1, <2>1 DEF PartsSaid, LastSaid, FirstSaid
  <2> QED
    BY <1>3, <2>2 DEF PrettyNameIsWhole, PrettyName
<1>4. CASE source \notin failed /\ host.os # "macOS"
  <2>1. PrettyName = name /\ FirstSaid(lines, line - 1, "PRETTY_NAME", name)
    BY <1>1, <1>4 DEF PrettyName, PartsSaid
  <2> HIDE DEF lines, name
  <2>2. FirstSaid(lines, size, "PRETTY_NAME", name)
    <3>1. CASE line = size + 1
      <4>1. line - 1 = size
        BY <1>2, <3>1
      <4> QED
        BY <2>1, <4>1
    <3>2. CASE name # ""
      <4> HIDE DEF size
      <4>1. line \in Nat \ {0} /\ line <= size + 1
        BY <1>1
      <4>2. line - 1 \in Nat /\ line - 1 <= size
        BY <1>2, <4>1
      <4> QED
        BY <1>2, <2>1, <3>2, <4>2, FirstStays
    <3> QED
      BY <1>1, <1>4, <3>1, <3>2
  <2> QED
    BY <1>4, <2>1, <2>2 DEF PrettyNameIsWhole, lines
<1>5. CASE source \notin failed /\ host.os = "macOS"
  <2>1. line - 1 = size
    <3>1. line = size + 1
      BY <1>1, <1>5
    <3> HIDE DEF size
    <3> QED
      BY <1>2, <3>1
  <2>2. /\ LastSaid(lines, line - 1, "ProductName", name)
        /\ LastSaid(lines, line - 1, "ProductVersion", vers)
        /\ release.releaseName =
             IF vers \in DOMAIN ReleaseNames THEN ReleaseNames[vers] ELSE ""
    BY <1>1, <1>5 DEF PartsSaid
  <2>3. ASSUME NEW key, NEW v, LastSaid(lines, size, key, v)
        PROVE  v \in Said(key) \cup {""}
    <3>1. SUFFICES ASSUME v # "" PROVE v \in Said(key)
      OBVIOUS
    <3>2. PICK k \in SaidAt(lines, size, key) : v = lines[k].value
      BY <2>3, <3>1 DEF LastSaid
    <3>3. ToSet(lines) = {lines[m] : m \in 1 .. size}
      <4>1. ToSet(host["release"]) = {host["release"][m] : m \in 1 .. Len(host["release"])}
        BY <1>1, LinesAre
      <4> QED
        BY <4>1
    <3>4. k \in 1 .. size /\ lines[k].key = key
      BY <3>2 DEF SaidAt, Gives
    <3> HIDE DEF lines, size
    <3>5. lines[k] \in ToSet(lines)
      BY <3>3, <3>4
    <3> QED
      BY <3>2, <3>4, <3>5 DEF Said, lines
  <2>4. PrettyName = IF name = "" \/ vers \notin DOMAIN ReleaseNames THEN ""
                     ELSE name \o " " \o vers \o " (" \o ReleaseNames[vers] \o ")"
    BY <1>5, <2>2, ReleaseNamesAssumption DEF PrettyName
  <2>5. /\ name \in Said("ProductName") \cup {""} /\ vers \in Said("ProductVersion") \cup {""}
        /\ LastSaid(lines, size, "ProductName", name)
        /\ LastSaid(lines, size, "ProductVersion", vers)
    BY <2>1, <2>2, <2>3
  <2> HIDE DEF name, vers
  <2> QED
    BY <1>5, <2>4, <2>5 DEF PrettyNameIsWhole
<1> QED
  BY <1>3, <1>4, <1>5

\* What is left of the seconds behind each unit is less than the unit.
LEMMA DaysLeave ==
  ASSUME NEW n \in Nat, NEW q, q = n \div 86400
  PROVE  q \in Nat /\ n - q * 86400 \in Nat /\ n - q * 86400 < 86400
  BY SMT

LEMMA HoursLeave ==
  ASSUME NEW n \in Nat, n < 86400, NEW q, q = n \div 3600
  PROVE  q \in Nat /\ q < 24 /\ n - q * 3600 \in Nat /\ n - q * 3600 < 3600
  BY SMT

LEMMA MinutesLeave ==
  ASSUME NEW n \in Nat, n < 3600, NEW q, q = n \div 60
  PROVE  q \in Nat /\ q < 60 /\ n - q * 60 \in Nat /\ n - q * 60 < 60
  BY SMT

\* What the units make of the seconds, before anything is left out.
Adds(n, secs) ==
  /\ n = [d |-> n.d, h |-> n.h, m |-> n.m, s |-> n.s]
  /\ n.d \in Nat /\ n.h \in 0 .. 23 /\ n.m \in 0 .. 59 /\ n.s \in 0 .. 59
  /\ secs = n.d * 86400 + n.h * 3600 + n.m * 60 + n.s

LEMMA UnitsAddUp ==
  ASSUME NEW secs \in Nat
  PROVE  Adds(InUnits(secs), secs)
<1>1. PICK days : days = secs \div 86400
  BY SMT
<1>2. PICK intoDay : intoDay = secs - days * 86400
  BY SMT
<1>3. PICK hours : hours = intoDay \div 3600
  BY SMT
<1>4. PICK intoHour : intoHour = intoDay - hours * 3600
  BY SMT
<1>5. PICK minutes : minutes = intoHour \div 60
  BY SMT
<1>6. PICK seconds : seconds = intoHour - minutes * 60
  BY SMT
<1>7. InUnits(secs) = [d |-> days, h |-> hours, m |-> minutes, s |-> seconds]
  BY <1>1, <1>2, <1>3, <1>4, <1>5, <1>6, SMT DEF InUnits
<1>8. days \in Nat /\ intoDay \in Nat /\ intoDay < 86400
  BY <1>1, <1>2, DaysLeave, SMT
<1>9. hours \in Nat /\ hours < 24 /\ intoHour \in Nat /\ intoHour < 3600
  BY <1>3, <1>4, <1>8, HoursLeave, SMT
<1>10. minutes \in Nat /\ minutes < 60 /\ seconds \in Nat /\ seconds < 60
  BY <1>5, <1>6, <1>9, MinutesLeave, SMT
<1>11. secs = days * 86400 + hours * 3600 + minutes * 60 + seconds
  BY <1>2, <1>4, <1>6, <1>8, <1>9, <1>10, SMT
<1> QED
  BY <1>7, <1>8, <1>9, <1>10, <1>11, SMT DEF Adds

\* What is left out of the text is zero.
LEMMA TextAddsUp ==
  ASSUME NEW secs \in Nat
  PROVE  LET parts == TimeIntervalString(secs)
             count(unit) == IF unit \in DOMAIN parts THEN parts[unit] ELSE 0
         IN /\ "s" \in DOMAIN parts
            /\ secs = count("d") * 86400 + count("h") * 3600 + count("m") * 60 + count("s")
            /\ count("h") < 24 /\ count("m") < 60 /\ count("s") < 60
<1> DEFINE parts == TimeIntervalString(secs)
           count(unit) == IF unit \in DOMAIN parts THEN parts[unit] ELSE 0
<1> DEFINE n == InUnits(secs)
<1>1. Adds(n, secs)
  BY UnitsAddUp, SMT
<1> HIDE DEF n
<1>2. /\ "s" \in DOMAIN parts
      /\ count("d") = n.d /\ count("h") = n.h /\ count("m") = n.m /\ count("s") = n.s
  <2>1. n = [d |-> n.d, h |-> n.h, m |-> n.m, s |-> n.s]
    BY <1>1, SMT DEF Adds
  <2>2. parts = [unit \in {u \in DOMAIN n : n[u] # 0 \/ u = "s"} |-> n[unit]]
    BY SMT DEF n, TimeIntervalString
  <2> HIDE DEF parts
  <2> QED
    BY <2>1, <2>2, SMT
<1> HIDE DEF parts, count
<1>3. /\ secs = count("d") * 86400 + count("h") * 3600 + count("m") * 60 + count("s")
      /\ count("h") < 24 /\ count("m") < 60 /\ count("s") < 60
  BY <1>1, <1>2, SMT DEF Adds
<1> QED
  BY <1>2, <1>3, SMT DEF parts, count

LEMMA HInvReadsAsItsSeconds == HInv => ReadsAsItsSeconds
<1> SUFFICES ASSUME HInv PROVE ReadsAsItsSeconds
  BY SMT
<1>1. uptime \in Nat /\ uptime <= ClockTime
  BY ClockIsNat DEF HInv, InPlace, UptimeByClock
<1> QED
  BY <1>1, TextAddsUp, SMT DEF ReadsAsItsSeconds

-----------------------------------------------------------------------------

(***************************************************************************)
(* Reading.  None of it depends on what the document is.                   *)
(***************************************************************************)
\* An alternative's name alone says which it is.
LEMMA AlternativeIs ==
  ASSUME NEW data, NEW a, DOMAIN data = {a}
  PROVE  Alternative(data) = a
  BY DEF Alternative

LEMMA DataFromJsonIs ==
  ASSUME NEW a, NEW j, NEW old
  PROVE  Alternative(DataFromJson(a, j, old).value) = a
<1> DEFINE data == DataFromJson(a, j, old).value
<1>1. DOMAIN data = {a}
  BY Zenon DEF DataFromJson
<1> QED
  BY <1>1, AlternativeIs

LEMMA MadeOfAgrees ==
  ASSUME NEW req, NEW data, Enum[Alternative(data)] = req.reqEnum
  PROVE  Agrees([req |-> req, data |-> data])
  BY DEF Agrees

LEMMA EnumNumbers ==
  ASSUME NEW e \in 1 .. 5
  PROVE  \E x \in DOMAIN Enum : Enum[x] = e
<1>1. e \in {1, 2, 3, 4, 5}
  OBVIOUS
<1>2. /\ Enum["installedPackages"] = 1 /\ Enum["uname"] = 2 /\ Enum["loadAverages"] = 3
      /\ Enum["logins"] = 4 /\ Enum["uptime"] = 5
      /\ {"installedPackages", "uname", "loadAverages", "logins", "uptime"} \subseteq DOMAIN Enum
  BY DEF Enum
<1> QED
  BY <1>1, <1>2

LEMMA FromJsonAgrees ==
  ASSUME NEW j, NEW old \in Used
  PROVE  Agrees(ResponseFromJson(j, old).value)
<1> DEFINE r == RequestFromJson(j.obj.req)
           a == CHOOSE x \in DOMAIN Enum : Enum[x] = r.value.reqEnum
           data == DataFromJson(a, j.obj.data, Blank(a)[a])
           out == ResponseFromJson(j, old).value
<1>1. CASE out = old
  BY <1>1, UsedAssumption
<1>2. CASE out = [req |-> r.value, data |-> data.value] /\ r.value.reqEnum \in 1 .. 5
  <2>1. \E x \in DOMAIN Enum : Enum[x] = r.value.reqEnum
    BY <1>2, EnumNumbers
  <2>2. Enum[a] = r.value.reqEnum
    BY <2>1
  <2>3. Alternative(data.value) = a
    BY DataFromJsonIs
  <2> HIDE DEF r, a, data, out
  <2>4. Agrees([req |-> r.value, data |-> data.value])
    BY <2>2, <2>3, MadeOfAgrees
  <2>5. Agrees(out)
    BY <1>2, <2>4
  <2> QED
    BY <2>5 DEF out
<1>3. out = old \/ (out = [req |-> r.value, data |-> data.value] /\ r.value.reqEnum \in 1 .. 5)
  BY Zenon DEF ResponseFromJson
<1> QED
  BY <1>1, <1>2, <1>3

-----------------------------------------------------------------------------
(***************************************************************************)
(* Streams.  A Response has three fields, or four with a selector; a read  *)
(* that succeeds has had all of them.                                      *)
(***************************************************************************)
RequestLength(r) == IF r.req.reqEnum = Enum.installedPackages THEN 2 ELSE 1

LEMMA FieldsOf ==
  ASSUME NEW r
  PROVE  /\ Bytes(r) \in Seq({r.req.reqEnum, r.req.selector, Alternative(r.data), r.data})
         /\ Len(Bytes(r)) = RequestLength(r) + 2
         /\ Bytes(r)[1] = r.req.reqEnum
         /\ Bytes(r)[RequestLength(r) + 2] = r.data
         /\ RequestLength(r) = 2 => Bytes(r)[2] = r.req.selector
<1> DEFINE any == {r.req.reqEnum, r.req.selector, Alternative(r.data), r.data}
           head == RequestBytes(r.req)
           tail == <<Alternative(r.data), r.data>>
<1>1. tail \in Seq(any) /\ Len(tail) = 2 /\ tail[2] = r.data
  OBVIOUS
<1>2. /\ head \in Seq(any) /\ Len(head) = RequestLength(r) /\ head[1] = r.req.reqEnum
      /\ RequestLength(r) = 2 => head[2] = r.req.selector
  <2>1. CASE r.req.reqEnum = Enum.installedPackages
    <3>1. head = <<r.req.reqEnum, r.req.selector>> /\ RequestLength(r) = 2
      BY <2>1 DEF RequestBytes, RequestLength
    <3> QED
      BY <3>1
  <2>2. CASE r.req.reqEnum # Enum.installedPackages
    <3>1. head = <<r.req.reqEnum>> /\ RequestLength(r) = 1
      BY <2>2 DEF RequestBytes, RequestLength
    <3> QED
      BY <3>1
  <2> QED
    BY <2>1, <2>2
<1>3. Bytes(r) = head \o tail
  BY DEF Bytes
<1>4. RequestLength(r) \in 1 .. 2
  BY DEF RequestLength
<1> HIDE DEF any, head, tail
<1>5. /\ Bytes(r) \in Seq(any) /\ Len(Bytes(r)) = Len(head) + Len(tail)
      /\ \A k \in 1 .. Len(head) + Len(tail) :
           Bytes(r)[k] = IF k <= Len(head) THEN head[k] ELSE tail[k - Len(head)]
  <2>1. head \in Seq(any) /\ tail \in Seq(any)
    BY <1>1, <1>2
  <2> QED
    BY <2>1, <1>3, ConcatProperties, Zenon
<1>6. /\ Len(Bytes(r)) = RequestLength(r) + 2
      /\ Bytes(r)[1] = head[1] /\ Bytes(r)[RequestLength(r) + 2] = tail[2]
      /\ RequestLength(r) = 2 => Bytes(r)[2] = head[2]
  BY <1>1, <1>2, <1>4, <1>5
<1> QED
  BY <1>1, <1>2, <1>5, <1>6 DEF any

LEMMA FromBytesAgrees ==
  ASSUME NEW r, Enum[Alternative(r.data)] = r.req.reqEnum,
         NEW n \in 0 .. Len(Bytes(r)),
         NEW old, NEW out \in FromBytes(SubSeq(Bytes(r), 1, n), old), out.ok
  PROVE  Agrees(out.value)
<1> DEFINE any == {r.req.reqEnum, r.req.selector, Alternative(r.data), r.data}
           s == SubSeq(Bytes(r), 1, n)
           m == RequestLength(r)
           q == RequestFromBytes(s)
<1>1. m \in 1 .. 2 /\ (m = 2 <=> r.req.reqEnum = Enum.installedPackages)
  BY DEF RequestLength
<1>2. /\ s \in Seq(any) /\ Len(s) = n /\ n \in 0 .. m + 2
      /\ \A k \in 1 .. n : s[k] = Bytes(r)[k]
  <2> DEFINE all == Bytes(r)
  <2>1. all \in Seq(any) /\ Len(all) = m + 2
    BY FieldsOf
  <2> HIDE DEF all, any, m
  <2>2. 1 \in Int /\ n \in Int /\ n \in 0 .. m + 2
    BY <1>1, <2>1 DEF all
  <2>3. \A k \in 1 .. n : all[k] \in any
    BY <1>1, <2>1, <2>2
  <2>4. /\ SubSeq(all, 1, n) \in Seq(any)
        /\ Len(SubSeq(all, 1, n)) = IF 1 <= n THEN n - 1 + 1 ELSE 0
        /\ \A k \in 1 .. n - 1 + 1 : SubSeq(all, 1, n)[k] = all[1 + k - 1]
    BY <2>2, <2>3, SubSeqProperties
  <2> QED
    BY <2>2, <2>4 DEF all
<1>3. /\ Len(q.left) = 2
      /\ out.value = [req |-> q.value, data |-> q.left[2]]
  <2>1. CASE Len(q.left) = 2
    BY <2>1 DEF FromBytes
  <2>2. CASE Len(q.left) = 1
    BY <2>2 DEF FromBytes
  <2>3. CASE Len(q.left) \notin {1, 2}
    BY <2>3 DEF FromBytes
  <2> QED
    BY <2>1, <2>2, <2>3
<1> HIDE DEF s
<1>4. s # <<>>
  <2> SUFFICES ASSUME s = <<>> PROVE FALSE
    OBVIOUS
  <2>1. q.left = SubSeq(s, 2, Len(s))
    BY DEF RequestFromBytes
  <2> QED
    BY <1>3, <2>1
<1>5. s[1] = r.req.reqEnum /\ n \in 1 .. m + 2
  BY <1>1, <1>2, <1>4, FieldsOf
<1>6. /\ q.left = SubSeq(s, m + 1, Len(s))
      /\ q.value.reqEnum = s[1]
  BY <1>1, <1>2, <1>4, <1>5 DEF RequestFromBytes, Request
<1> HIDE DEF q, m
<1>7. n = m + 2 /\ q.left[2] = s[m + 2]
  BY <1>1, <1>2, <1>3, <1>5, <1>6
<1>8. q.left[2] = r.data
  BY <1>1, <1>2, <1>7, FieldsOf DEF m
<1> QED
  BY <1>3, <1>5, <1>6, <1>8, MadeOfAgrees

LEMMA WholeIsBeginning ==
  ASSUME NEW r
  PROVE  \E n \in 0 .. Len(Bytes(r)) : Bytes(r) = SubSeq(Bytes(r), 1, n)
<1> DEFINE all == Bytes(r)
           any == {r.req.reqEnum, r.req.selector, Alternative(r.data), r.data}
<1>1. all \in Seq(any)
  BY FieldsOf
<1> HIDE DEF all, any
<1>2. all = SubSeq(all, 1, Len(all)) /\ Len(all) \in 0 .. Len(all)
  BY <1>1
<1> QED
  BY <1>2 DEF all

\* A stream that ends early once more is still a beginning of the whole.
LEMMA BeginningOfBeginning ==
  ASSUME NEW r, NEW n \in 0 .. Len(Bytes(r)), NEW s, s = SubSeq(Bytes(r), 1, n),
         NEW k \in 0 .. Len(s) - 1
  PROVE  \E m \in 0 .. Len(Bytes(r)) : SubSeq(s, 1, k) = SubSeq(Bytes(r), 1, m)
<1> DEFINE all == Bytes(r)
           any == {r.req.reqEnum, r.req.selector, Alternative(r.data), r.data}
<1>1. all \in Seq(any) /\ n \in 0 .. Len(all) /\ s = SubSeq(all, 1, n)
  BY FieldsOf
<1> HIDE DEF all, any
<1>2. s \in Seq(any) /\ Len(s) = n /\ \A i \in 1 .. n : s[i] = all[i]
  BY <1>1
<1>3. SubSeq(s, 1, k) = SubSeq(all, 1, k) /\ k \in 0 .. Len(all)
  BY <1>1, <1>2
<1> QED
  BY <1>3 DEF all

-----------------------------------------------------------------------------
(***************************************************************************)
(* The invariant.  A Response's variables and those of its host never      *)
(* change in the same step but for Respond.                                *)
(***************************************************************************)
LEMMA InitAInv == Init => AInv
<1> SUFFICES ASSUME Init PROVE AInv
  OBVIOUS
<1>1. HInv
  BY InitHInv DEF Init
<1>2. form = "none" /\ rc = "none" /\ place # "over"
  BY DEF Init, InitHost
<1> QED
  BY <1>1, <1>2 DEF AInv, Written, ToJsonIsSafe

LEMMA NextAInv ==
  ASSUME AInv, [Next]_vars
  PROVE  AInv'
<1> USE DEF AInv
<1>1. CASE FindOut /\ UNCHANGED formVars
  <2>1. place # "over" /\ HInv'
    <3>1. place \in {"open", "read"}
      BY <1>1, Zenon DEF FindOut, Open, OpenFails, NoExpression, ReadPackage, StopAtBad,
            ReadReceipt, AtPackage, ReadOsRelease, ReadSwVers, Close, GetUptime
    <3> QED
      BY <1>1, <3>1, FindOutHInv
  <2>2. /\ form = "none" /\ form' = "none" /\ rc' = rc
        /\ UNCHANGED <<form, got, rc>>
    BY <1>1, <2>1 DEF Written, formVars
  <2>3. place' # "over"
    BY <2>1 DEF HInv, InPlace
  <2> QED
    BY <2>1, <2>2, <2>3 DEF Written, ToJsonIsSafe, Agrees
<1>2. CASE Respond
  <2>1. /\ place = "done" /\ place' = "over" /\ UNCHANGED <<form, got, rc>>
        /\ \E data \in Found : made' = ResponseOf(data)
    BY <1>2 DEF Respond
  <2>2. form = "none"
    BY <2>1 DEF Written
  <2>3. PICK data \in Found : made' = ResponseOf(data)
    BY <2>1
  <2>4. made'.req.reqEnum = Enum[Alternative(data)] /\ made'.data = data
    BY <2>3 DEF ResponseOf, Request
  <2> QED
    BY <2>1, <2>2, <2>4 DEF Written, ToJsonIsSafe, Agrees
<1>3. CASE WriteJson \/ WriteDataJson \/ WriteBytes
  <2>1. /\ place = "over" /\ place' = "over" /\ form = "none"
        /\ UNCHANGED <<made, got, rc>>
        /\ \/ form' \in {"json", "data"}
           \/ form' = "bytes" /\ doc' = Bytes(made)
    BY <1>3 DEF WriteJson, WriteDataJson, WriteBytes, hostVars
  <2>2. doc' = Bytes(made) => \E n \in 0 .. Len(Bytes(made)) : doc' = SubSeq(Bytes(made), 1, n)
    BY WholeIsBeginning
  <2>3. Bytes(made)' = Bytes(made)
    BY <2>1 DEF Bytes, RequestBytes, Alternative
  <2> QED
    BY <2>1, <2>2, <2>3 DEF Written, ToJsonIsSafe, Agrees
<1>4. CASE Damage
  <2>1. /\ form # "none" /\ rc = "none"
        /\ UNCHANGED <<hostVars, made, form, got, rc>>
        /\ form = "bytes" => \E n \in 0 .. Len(doc) - 1 : doc' = SubSeq(doc, 1, n)
    BY <1>4 DEF Damage
  <2>2. place = "over" /\ place' = "over"
    BY <2>1 DEF Written, hostVars
  <2>3. form = "bytes" => \E n \in 0 .. Len(Bytes(made)) : doc' = SubSeq(Bytes(made), 1, n)
    BY <2>1, BeginningOfBeginning DEF Written
  <2>4. Bytes(made)' = Bytes(made)
    BY <2>1 DEF Bytes, RequestBytes, Alternative
  <2> QED
    BY <2>1, <2>2, <2>3, <2>4 DEF Written, ToJsonIsSafe
<1>5. CASE ReadJson \/ ReadDataJson \/ ReadBytes
  <2>1. form # "none" /\ UNCHANGED <<hostVars, made, form, doc>>
    BY <1>5 DEF ReadJson, ReadDataJson, ReadBytes, ReadInto
  <2>2. place = "over" /\ place' = "over"
    BY <2>1 DEF Written, hostVars
  <2>3. Written'
    <3>1. Bytes(made)' = Bytes(made)
      BY <2>1 DEF Bytes, RequestBytes, Alternative
    <3> QED
      BY <2>1, <2>2, <3>1 DEF Written
  <2>4. Agrees(got)' \/ (form = "bytes" /\ rc' = "false")
    <3>1. CASE ReadJson
      <4>1. PICK old \in Used : got' = ResponseFromJson(doc, old).value
        BY <3>1 DEF ReadJson, ReadInto
      <4>2. Agrees(ResponseFromJson(doc, old).value)
        BY FromJsonAgrees
      <4> QED
        BY <4>1, <4>2 DEF Agrees
    <3>2. CASE ReadDataJson
      <4> DEFINE a == Alternative(made.data)
      <4>1. PICK old \in Used :
              /\ DOMAIN old.data = {a}
              /\ got' = [old EXCEPT !.data = DataFromJson(a, doc, old.data[a]).value]
        BY <3>2 DEF ReadDataJson, ReadInto
      <4>2. Alternative(old.data) = a
        BY <4>1, AlternativeIs
      <4>3. Alternative(DataFromJson(a, doc, old.data[a]).value) = a
        BY DataFromJsonIs
      <4>4. old = [req |-> old.req, data |-> old.data] /\ Agrees(old)
        BY UsedAssumption
      <4> HIDE DEF a
      <4>5. /\ got'.req = old.req
            /\ got'.data = DataFromJson(a, doc, old.data[a]).value
        BY <4>1, <4>4
      <4> QED
        BY <4>2, <4>3, <4>4, <4>5 DEF Agrees
    <3>3. CASE ReadBytes
      <4>1. PICK old \in Used : \E out \in FromBytes(doc, old) :
              got' = out.value /\ rc' = IF out.ok THEN "true" ELSE "false"
        BY <3>3 DEF ReadBytes, ReadInto
      <4>2. PICK out \in FromBytes(doc, old) :
              got' = out.value /\ rc' = IF out.ok THEN "true" ELSE "false"
        BY <4>1
      <4>3. form = "bytes"
        BY <3>3 DEF ReadBytes
      <4>4. PICK n \in 0 .. Len(Bytes(made)) : doc = SubSeq(Bytes(made), 1, n)
        BY <4>3 DEF Written
      <4>5. out.ok => Agrees(out.value)
        BY <2>2, <4>4, FromBytesAgrees DEF Written
      <4> QED
        BY <4>2, <4>3, <4>5 DEF Agrees
    <3> QED
      BY <1>5, <3>1, <3>2, <3>3
  <2> QED
    BY <2>1, <2>2, <2>3, <2>4 DEF ToJsonIsSafe
<1>6. CASE UNCHANGED vars
  <2>1. UNCHANGED hostVars /\ UNCHANGED formVars
    BY <1>6 DEF vars
  <2>2. HInv' <=> HInv
    <3>1. /\ host' = host /\ asked' = asked /\ source' = source /\ place' = place
          /\ line' = line /\ pkgs' = pkgs /\ release' = release /\ failed' = failed
          /\ uptime' = uptime
      BY <2>1 DEF hostVars, answer
    <3>2. InPlace' <=> InPlace
      BY <3>1 DEF InPlace
    <3>3. OnlySought' <=> OnlySought
      BY <3>1 DEF OnlySought, Sought, Asked, NameIn
    <3>4. AllSought' <=> AllSought
      BY <3>1 DEF AllSought, Taken, Sought, Asked, NameIn
    <3>5. NamesSaid' <=> NamesSaid
      BY <3>1 DEF NamesSaid, PartsSaid
    <3>6. UptimeByClock' <=> UptimeByClock
      BY <3>1 DEF UptimeByClock, ClockTime
    <3> QED
      BY <3>2, <3>3, <3>4, <3>5, <3>6 DEF HInv
  <2>3. Written' <=> Written
    BY <2>1 DEF hostVars, formVars, Written, Bytes, RequestBytes, Alternative
  <2> QED
    BY <2>1, <2>2, <2>3 DEF hostVars, formVars, ToJsonIsSafe, Agrees
<1> QED
  BY <1>1, <1>2, <1>3, <1>4, <1>5, <1>6 DEF Next, Terminated

LEMMA AInvSays ==
  AInv => SelectsInstalled /\ PrettyNameIsWhole /\ ReadsAsItsSeconds /\ ToJsonIsSafe
<1>1. place = "over" => SelectsInstalled /\ PrettyNameIsWhole /\ ReadsAsItsSeconds
  BY DEF SelectsInstalled, PrettyNameIsWhole, ReadsAsItsSeconds
<1> QED
  BY <1>1, HInvSelects, HInvPrettyName, HInvReadsAsItsSeconds, SMT DEF AInv

-----------------------------------------------------------------------------
(***************************************************************************)
(* Maps as rows.  A map's rows come in some order, each of its names once, *)
(* and any of them that are read are the map's.                            *)
(***************************************************************************)
\* A finite set's sequence has each of its elements once.
LEMMA SetToSeqIs ==
  ASSUME NEW S, IsFiniteSet(S)
  PROVE  /\ Cardinality(S) \in Nat
         /\ SetToSeq(S) \in [1 .. Cardinality(S) -> S]
         /\ \A a, b \in 1 .. Cardinality(S) : SetToSeq(S)[a] = SetToSeq(S)[b] => a = b
         /\ \A x \in S : \E k \in 1 .. Cardinality(S) : SetToSeq(S)[k] = x
<1> DEFINE D == 1 .. Cardinality(S)
           f == SetToSeq(S)
<1>1. Cardinality(S) \in Nat /\ ExistsBijection(D, S)
  BY FS_CardinalityType
<1>2. \E g \in [D -> S] : IsInjective(g)
  <2>1. PICK g : g \in Bijection(D, S)
    BY <1>1 DEF ExistsBijection
  <2>2. g \in [D -> S] /\ \A a, b \in D : g[a] = g[b] => a = b
    BY <2>1 DEF Bijection, Injection, IsInjective
  <2>3. IsInjective(g)
    BY <2>2 DEF IsInjective
  <2> QED
    BY <2>2, <2>3
<1>3. f \in [D -> S] /\ IsInjective(f)
  BY <1>2 DEF SetToSeq
<1>4. f \in Injection(D, S)
  BY <1>3 DEF Injection, IsInjective
<1>5. Cardinality(D) = Cardinality(S)
  <2>1. Cardinality(D) = IF 1 > Cardinality(S) THEN 0 ELSE Cardinality(S) - 1 + 1
    BY <1>1, FS_Interval
  <2> QED
    BY <1>1, <2>1
<1>6. f \in Surjection(D, S)
  BY <1>4, <1>5, FS_Injection
<1> HIDE DEF f, D
<1>7. \A x \in S : \E k \in D : f[k] = x
  BY <1>6 DEF Surjection
<1>8. \A a, b \in D : f[a] = f[b] => a = b
  BY <1>3 DEF IsInjective
<1> QED
  BY <1>1, <1>3, <1>7, <1>8 DEF f, D

LEMMA RowsOfMap ==
  ASSUME NEW m, IsMap(m)
  PROVE  /\ DOMAIN RowsOf(m) = 1 .. Cardinality(DOMAIN m)
         /\ \A k \in DOMAIN RowsOf(m) :
              /\ RowsOf(m)[k][1] \in DOMAIN m
              /\ RowsOf(m)[k] = <<RowsOf(m)[k][1], m[RowsOf(m)[k][1]]>>
         /\ \A a, b \in DOMAIN RowsOf(m) : RowsOf(m)[a][1] = RowsOf(m)[b][1] => a = b
         /\ \A n \in DOMAIN m : \E k \in DOMAIN RowsOf(m) : RowsOf(m)[k][1] = n
<1> DEFINE names == SetToSeq(DOMAIN m)
           D == 1 .. Cardinality(DOMAIN m)
<1>1. /\ names \in [D -> DOMAIN m]
      /\ \A a, b \in D : names[a] = names[b] => a = b
      /\ \A x \in DOMAIN m : \E k \in D : names[k] = x
  BY SetToSeqIs DEF IsMap
<1>2. RowsOf(m) = [k \in DOMAIN names |-> <<names[k], m[names[k]]>>]
  BY DEF RowsOf
<1> HIDE DEF names, D
<1>3. /\ DOMAIN RowsOf(m) = D
      /\ \A k \in D : RowsOf(m)[k] = <<names[k], m[names[k]]>> /\ RowsOf(m)[k][1] = names[k]
  BY <1>1, <1>2
<1> QED
  BY <1>1, <1>3 DEF D

\* A map that is written as rows is made of them again, of all of them.
LEMMA MapOfRows ==
  ASSUME NEW m, IsMap(m)
  PROVE  MapOf(RowsOf(m)) = m
<1> DEFINE rows == RowsOf(m)
           latest(name) == CHOOSE k \in DOMAIN rows :
             /\ rows[k][1] = name
             /\ \A i \in DOMAIN rows : rows[i][1] = name => i <= k
           keys == {rows[k][1] : k \in DOMAIN rows}
<1>1. /\ DOMAIN rows = 1 .. Cardinality(DOMAIN m)
      /\ \A k \in DOMAIN rows : rows[k][1] \in DOMAIN m /\ rows[k] = <<rows[k][1], m[rows[k][1]]>>
      /\ \A a, b \in DOMAIN rows : rows[a][1] = rows[b][1] => a = b
      /\ \A n \in DOMAIN m : \E k \in DOMAIN rows : rows[k][1] = n
  BY RowsOfMap
<1>2. MapOf(rows) = [name \in keys |-> rows[latest(name)][2]]
  BY DEF MapOf
<1> HIDE DEF rows
<1>3. ASSUME NEW n \in DOMAIN m PROVE rows[latest(n)][2] = m[n]
  <2>1. PICK k \in DOMAIN rows : rows[k][1] = n
    BY <1>1
  <2>2. k \in Int
    BY <1>1
  <2>3. \A i \in DOMAIN rows : rows[i][1] = n => i <= k
    BY <1>1, <2>1, <2>2
  <2>4. latest(n) \in DOMAIN rows /\ rows[latest(n)][1] = n
    BY <2>1, <2>3
  <2> HIDE DEF latest
  <2>5. latest(n) = k
    BY <1>1, <2>1, <2>4
  <2>6. rows[k] = <<n, m[n]>>
    BY <1>1, <2>1
  <2> QED
    BY <2>5, <2>6
<1> HIDE DEF latest
<1>4. keys = DOMAIN m
  <2>1. \A n \in DOMAIN m : n \in keys
    BY <1>1
  <2>2. \A n \in keys : n \in DOMAIN m
    BY <1>1
  <2> QED
    BY <2>1, <2>2
<1>5. m = [n \in DOMAIN m |-> m[n]]
  BY DEF IsMap
<1> HIDE DEF keys
<1>6. MapOf(rows) = [n \in DOMAIN m |-> m[n]]
  BY <1>2, <1>3, <1>4
<1> QED
  BY <1>5, <1>6 DEF rows

\* What comes of some of a map's rows is in the map.
LEMMA MapOfSome ==
  ASSUME NEW m, IsMap(m), NEW rows, DOMAIN rows \subseteq DOMAIN RowsOf(m),
         \A k \in DOMAIN rows : rows[k] = RowsOf(m)[k]
  PROVE  \A n \in DOMAIN MapOf(rows) : n \in DOMAIN m /\ MapOf(rows)[n] = m[n]
<1> DEFINE latest(name) == CHOOSE k \in DOMAIN rows :
             /\ rows[k][1] = name
             /\ \A i \in DOMAIN rows : rows[i][1] = name => i <= k
           keys == {rows[k][1] : k \in DOMAIN rows}
<1>1. /\ DOMAIN rows \subseteq 1 .. Cardinality(DOMAIN m)
      /\ \A k \in DOMAIN rows : rows[k][1] \in DOMAIN m /\ rows[k] = <<rows[k][1], m[rows[k][1]]>>
      /\ \A a, b \in DOMAIN rows : rows[a][1] = rows[b][1] => a = b
  BY RowsOfMap
<1>2. MapOf(rows) = [name \in keys |-> rows[latest(name)][2]]
  BY DEF MapOf
<1>3. ASSUME NEW n \in keys PROVE n \in DOMAIN m /\ rows[latest(n)][2] = m[n]
  <2>1. PICK k \in DOMAIN rows : rows[k][1] = n
    OBVIOUS
  <2>2. k \in Int
    BY <1>1
  <2>3. \A i \in DOMAIN rows : rows[i][1] = n => i <= k
    BY <1>1, <2>1, <2>2
  <2>4. latest(n) \in DOMAIN rows /\ rows[latest(n)][1] = n
    BY <2>1, <2>3
  <2> HIDE DEF latest
  <2>5. latest(n) = k
    BY <1>1, <2>1, <2>4
  <2>6. rows[k] = <<n, m[n]>> /\ n \in DOMAIN m
    BY <1>1, <2>1
  <2> QED
    BY <2>5, <2>6
<1> HIDE DEF latest, keys
<1> QED
  BY <1>2, <1>3

-----------------------------------------------------------------------------
(***************************************************************************)
(* Rows as JSON objects.  A field there and of its type is what was        *)
(* written: a damage leaves nothing else of one.                           *)
(***************************************************************************)
\* Each list of fields: its keys are distinct, and none has a type that Null has.
RowFields == {Fields.uname, Fields.loadAverages, Fields.login, Fields.package}

LEMMA FieldsAre ==
  ASSUME NEW fields \in RowFields
  PROVE  /\ \E n \in 2 .. 6 : DOMAIN fields = 1 .. n
         /\ \A a, b \in DOMAIN fields : fields[a][1] = fields[b][1] => a = b
         /\ \A k \in DOMAIN fields : fields[k][2] \in {"str", "int", "float"}
<1>1. CASE fields = Fields.uname
  <2>1. fields = << <<"osName", "str">>, <<"nodeName", "str">>, <<"release", "str">>,
                <<"version", "str">>, <<"machine", "str">>, <<"prettyName", "str">> >>
    BY <1>1 DEF Fields
  <2> QED
    BY <2>1
<1>2. CASE fields = Fields.loadAverages
  <2>1. fields = << <<"load1", "float">>, <<"load5", "float">>, <<"load15", "float">> >>
    BY <1>2 DEF Fields
  <2> QED
    BY <2>1
<1>3. CASE fields = Fields.login
  <2>1. fields = << <<"user", "str">>, <<"tty", "str">>, <<"fromHost", "str">>,
                <<"loginTime", "int">>, <<"idleTime", "int">> >>
    BY <1>3 DEF Fields
  <2> QED
    BY <2>1
<1>4. CASE fields = Fields.package
  <2>1. fields = << <<"pkg", "str">>, <<"ver", "str">> >>
    BY <1>4 DEF Fields
  <2> QED
    BY <2>1
<1> QED
  BY <1>1, <1>2, <1>3, <1>4 DEF RowFields

LEMMA TypedIs ==
  ASSUME NEW type, NEW v
  PROVE  DOMAIN Typed(type, v) = {type} /\ Typed(type, v)[type] = v
  BY DEF Typed

LEMMA NullIs ==
  DOMAIN Null = {"null"}
  BY DEF Null, Typed

LEMMA ObjIs ==
  ASSUME NEW f
  PROVE  DOMAIN Obj(f) = {"obj"} /\ Obj(f).obj = f
  BY DEF Obj, Typed

LEMMA RowToJsonIs ==
  ASSUME NEW fields \in RowFields, NEW row
  PROVE  /\ DOMAIN RowToJson(fields, row) = {"obj"}
         /\ DOMAIN RowToJson(fields, row).obj = {fields[k][1] : k \in DOMAIN fields}
         /\ \A k \in DOMAIN fields :
              RowToJson(fields, row).obj[fields[k][1]] = Typed(fields[k][2], row[k])
<1> DEFINE keys == {fields[k][1] : k \in DOMAIN fields}
           of(key) == CHOOSE n \in DOMAIN fields : fields[n][1] = key
           g == [key \in keys |-> Typed(fields[of(key)][2], row[of(key)])]
<1>1. RowToJson(fields, row) = Obj(g)
  BY DEF RowToJson
<1>2. DOMAIN g = keys
  OBVIOUS
<1>3. ASSUME NEW k \in DOMAIN fields PROVE g[fields[k][1]] = Typed(fields[k][2], row[k])
  <2>1. of(fields[k][1]) \in DOMAIN fields /\ fields[of(fields[k][1])][1] = fields[k][1]
    OBVIOUS
  <2> HIDE DEF of
  <2>2. of(fields[k][1]) = k
    BY <2>1, FieldsAre
  <2>3. fields[k][1] \in keys
    OBVIOUS
  <2> QED
    BY <2>2, <2>3
<1> HIDE DEF g
<1> QED
  BY <1>1, <1>2, <1>3, ObjIs

\* A row that nobody damaged is whole.
LEMMA RowToJsonWorn ==
  ASSUME NEW fields \in RowFields, NEW row
  PROVE  RowWorn(RowToJson(fields, row), fields, row) /\ Whole(RowToJson(fields, row), fields)
<1> DEFINE j == RowToJson(fields, row)
<1>1. /\ DOMAIN j = {"obj"} /\ DOMAIN j.obj = {fields[k][1] : k \in DOMAIN fields}
      /\ \A k \in DOMAIN fields : j.obj[fields[k][1]] = Typed(fields[k][2], row[k])
  BY RowToJsonIs
<1> HIDE DEF j
<1>2. RowWorn(j, fields, row)
  BY <1>1 DEF RowWorn
<1>3. ASSUME NEW k \in DOMAIN fields PROVE Has(j, fields[k][1], fields[k][2])
  <2>1. fields[k][1] \in DOMAIN j.obj
    BY <1>1
  <2>2. fields[k][2] \in DOMAIN j.obj[fields[k][1]]
    <3>1. DOMAIN Typed(fields[k][2], row[k]) = {fields[k][2]}
      BY TypedIs
    <3>2. j.obj[fields[k][1]] = Typed(fields[k][2], row[k])
      BY <1>1
    <3> QED
      BY <3>1, <3>2
  <2> QED
    BY <1>1, <2>1, <2>2 DEF Has
<1>4. \A k \in DOMAIN fields : k \in Int /\ 1 .. k \subseteq DOMAIN fields
  BY FieldsAre
<1>5. Whole(j, fields)
  BY <1>3, <1>4 DEF Whole, Leading
<1> QED
  BY <1>2, <1>5 DEF j

\* A field that is there and of its type is what it was.
LEMMA HasWorn ==
  ASSUME NEW fields \in RowFields, NEW row, NEW j, RowWorn(j, fields, row),
         NEW k \in DOMAIN fields, Has(j, fields[k][1], fields[k][2])
  PROVE  /\ fields[k][1] \in DOMAIN j.obj
         /\ j.obj[fields[k][1]] = Typed(fields[k][2], row[k])
         /\ j.obj[fields[k][1]][fields[k][2]] = row[k]
<1> DEFINE key == fields[k][1]
           type == fields[k][2]
<1>1. key \in DOMAIN j.obj /\ type \in DOMAIN j.obj[key]
  BY DEF Has
<1>2. j.obj[key] \in {Null, Typed(type, row[k])}
  BY <1>1 DEF RowWorn
<1>3. type # "null"
  BY FieldsAre
<1>4. j.obj[key] # Null
  BY <1>1, <1>3, NullIs
<1> HIDE DEF key, type
<1>5. j.obj[key] = Typed(type, row[k]) /\ j.obj[key][type] = row[k]
  BY <1>2, <1>4, TypedIs
<1> QED
  BY <1>1, <1>5 DEF key, type

LEMMA LeadingReads ==
  ASSUME NEW fields \in RowFields, NEW row, NEW j, RowWorn(j, fields, row),
         NEW k \in Leading(j, fields)
  PROVE  RowFromJson(j, fields)[k] = row[k] /\ k \in DOMAIN fields
<1>1. k \in DOMAIN fields /\ k \in 1 .. k
  BY FieldsAre DEF Leading
<1>2. Has(j, fields[k][1], fields[k][2])
  BY <1>1 DEF Leading
<1>3. j.obj[fields[k][1]][fields[k][2]] = row[k]
  BY <1>1, <1>2, HasWorn
<1> QED
  BY <1>1, <1>3 DEF RowFromJson

LEMMA WholeReads ==
  ASSUME NEW fields \in RowFields, NEW row, NEW j, RowWorn(j, fields, row), Whole(j, fields)
  PROVE  RowFromJson(j, fields) = AsRow(fields, row)
<1>1. \A k \in DOMAIN fields : RowFromJson(j, fields)[k] = row[k]
  BY LeadingReads DEF Whole
<1>2. \A k \in DOMAIN fields :
        (IF k \in Leading(j, fields) THEN j.obj[fields[k][1]][fields[k][2]]
         ELSE BlankRow(fields)[k]) = row[k]
  BY <1>1 DEF RowFromJson
<1> QED
  BY <1>2 DEF RowFromJson, AsRow

\* What a row's read leaves of what was there before it: nothing.
LEMMA RowReadsParts ==
  ASSUME NEW fields \in RowFields, NEW row, NEW j,
         RowWorn(j, fields, row) \/ Leading(j, fields) = {}
  PROVE  /\ DOMAIN RowFromJson(j, fields) = DOMAIN fields
         /\ \A k \in DOMAIN fields :
              RowFromJson(j, fields)[k] \in {row[k], BlankRow(fields)[k]}
<1>1. DOMAIN RowFromJson(j, fields) = DOMAIN fields
  BY DEF RowFromJson
<1>2. ASSUME NEW k \in DOMAIN fields
      PROVE  RowFromJson(j, fields)[k] \in {row[k], BlankRow(fields)[k]}
  <2>1. CASE k \in Leading(j, fields)
    BY <2>1, LeadingReads
  <2>2. CASE k \notin Leading(j, fields)
    BY <2>2 DEF RowFromJson
  <2> QED
    BY <2>1, <2>2
<1> QED
  BY <1>1, <1>2

\* A field says what it says, whatever it is a part of.
LEMMA FieldSaysIt ==
  ASSUME NEW type, type \notin {"obj", "arr"}, NEW v
  PROVE  /\ RowSays(Typed(type, v), Typed(type, v))
         /\ ListSays(Typed(type, v), Typed(type, v))
         /\ DataSays(Typed(type, v), Typed(type, v))
<1> DEFINE w == Typed(type, v)
<1>1. DOMAIN w = {type} /\ {type} # {"obj"} /\ {type} # {"arr"}
  BY TypedIs
<1> HIDE DEF w
<1> QED
  <2>1. RowSays(w, w)
    BY <1>1, Zenon DEF RowSays, SaysBy
  <2>2. ListSays(w, w)
    BY <1>1, Zenon DEF ListSays, SaysBy
  <2>3. DataSays(w, w)
    BY <1>1, Zenon DEF DataSays, SaysBy
  <2> QED
    BY <2>1, <2>2, <2>3 DEF w

\* A whole row says all that is written of it, whatever it is a part of.
LEMMA WholeSays ==
  ASSUME NEW fields \in RowFields, NEW row, NEW j, RowWorn(j, fields, row), Whole(j, fields)
  PROVE  /\ RowSays(j, RowToJson(fields, row))
         /\ ListSays(j, RowToJson(fields, row))
         /\ DataSays(j, RowToJson(fields, row))
<1> DEFINE w == RowToJson(fields, row)
<1>1. /\ DOMAIN w = {"obj"} /\ DOMAIN w.obj = {fields[k][1] : k \in DOMAIN fields}
      /\ \A k \in DOMAIN fields : w.obj[fields[k][1]] = Typed(fields[k][2], row[k])
  BY RowToJsonIs
<1>2. DOMAIN j = {"obj"}
  BY DEF RowWorn
<1>3. ASSUME NEW k \in DOMAIN fields
      PROVE  /\ fields[k][1] \in DOMAIN j.obj
             /\ j.obj[fields[k][1]] = Typed(fields[k][2], row[k])
  <2>1. k \in 1 .. k /\ k \in Leading(j, fields)
    BY FieldsAre DEF Whole
  <2>2. Has(j, fields[k][1], fields[k][2])
    BY <2>1 DEF Leading
  <2> QED
    BY <2>2, HasWorn
<1> HIDE DEF w
<1>4. ASSUME NEW key \in DOMAIN w.obj
      PROVE  /\ key \in DOMAIN j.obj /\ FieldSays(j.obj[key], w.obj[key])
             /\ RowSays(j.obj[key], w.obj[key]) /\ ListSays(j.obj[key], w.obj[key])
  <2>1. PICK k \in DOMAIN fields : key = fields[k][1]
    BY <1>1
  <2>2. key \in DOMAIN j.obj /\ j.obj[key] = Typed(fields[k][2], row[k])
    BY <1>3, <2>1
  <2>3. w.obj[key] = Typed(fields[k][2], row[k])
    BY <1>1, <2>1
  <2>4. fields[k][2] \notin {"obj", "arr"}
    BY FieldsAre
  <2>5. /\ RowSays(Typed(fields[k][2], row[k]), Typed(fields[k][2], row[k]))
        /\ ListSays(Typed(fields[k][2], row[k]), Typed(fields[k][2], row[k]))
    BY <2>4, FieldSaysIt
  <2> QED
    BY <2>2, <2>3, <2>5, Zenon DEF FieldSays
<1>5. RowSays(j, w)
  BY <1>1, <1>2, <1>4, Zenon DEF RowSays, SaysBy
<1>6. ListSays(j, w)
  BY <1>1, <1>2, <1>4, Zenon DEF ListSays, SaysBy
<1>7. DataSays(j, w)
  BY <1>1, <1>2, <1>4, Zenon DEF DataSays, SaysBy
<1> QED
  BY <1>5, <1>6, <1>7 DEF w

-----------------------------------------------------------------------------
(***************************************************************************)
(* Lists of rows, and packages.                                            *)
(***************************************************************************)
\* A sequence's domain.
Counted(rows) == \E n \in Nat : DOMAIN rows = 1 .. n

LEMMA WholeRowsAre ==
  ASSUME NEW arr, Counted(arr), NEW fields
  PROVE  /\ \A k \in WholeRows(arr, fields) : k \in DOMAIN arr /\ Whole(arr[k], fields)
         /\ (WholeRows(arr, fields) = DOMAIN arr) <=> (\A k \in DOMAIN arr : Whole(arr[k], fields))
<1>1. \A k \in DOMAIN arr : k \in 1 .. k /\ 1 .. k \subseteq DOMAIN arr
  BY DEF Counted
<1>2. \A k \in WholeRows(arr, fields) : k \in DOMAIN arr /\ \A n \in 1 .. k : Whole(arr[n], fields)
  BY DEF WholeRows
<1>3. ASSUME \A k \in DOMAIN arr : Whole(arr[k], fields)
      PROVE  WholeRows(arr, fields) = DOMAIN arr
  BY <1>1, <1>3 DEF WholeRows
<1> QED
  BY <1>1, <1>2, <1>3

LEMMA ListToJsonIs ==
  ASSUME NEW fields, NEW rows
  PROVE  /\ DOMAIN ListToJson(fields, rows) = {"arr"}
         /\ DOMAIN ListToJson(fields, rows).arr = DOMAIN rows
         /\ \A k \in DOMAIN rows : ListToJson(fields, rows).arr[k] = RowToJson(fields, rows[k])
<1> DEFINE arr == [k \in DOMAIN rows |-> RowToJson(fields, rows[k])]
<1>1. ListToJson(fields, rows) = Typed("arr", arr)
  BY DEF ListToJson
<1>2. DOMAIN arr = DOMAIN rows /\ \A k \in DOMAIN rows : arr[k] = RowToJson(fields, rows[k])
  OBVIOUS
<1> HIDE DEF arr
<1>3. DOMAIN Typed("arr", arr) = {"arr"} /\ Typed("arr", arr).arr = arr
  BY DEF Typed
<1> QED
  BY <1>1, <1>2, <1>3

LEMMA ListToJsonWorn ==
  ASSUME NEW fields \in RowFields, NEW rows, Counted(rows)
  PROVE  /\ ListWorn(ListToJson(fields, rows), fields, rows)
         /\ WholeRows(ListToJson(fields, rows).arr, fields) = DOMAIN ListToJson(fields, rows).arr
<1> DEFINE j == ListToJson(fields, rows)
<1>1. /\ DOMAIN j = {"arr"} /\ DOMAIN j.arr = DOMAIN rows
      /\ \A k \in DOMAIN rows : j.arr[k] = RowToJson(fields, rows[k])
  BY ListToJsonIs
<1> HIDE DEF j
<1>2. \A k \in DOMAIN rows : RowWorn(j.arr[k], fields, rows[k]) /\ Whole(j.arr[k], fields)
  BY <1>1, RowToJsonWorn
<1>3. ListWorn(j, fields, rows)
  BY <1>1, <1>2 DEF ListWorn
<1>4. Counted(j.arr)
  BY <1>1 DEF Counted
<1>5. WholeRows(j.arr, fields) = DOMAIN j.arr
  BY <1>1, <1>2, <1>4, WholeRowsAre
<1> QED
  BY <1>3, <1>5 DEF j

\* Whatever was damaged, a list's rows that are read are some of it.
LEMMA RowsReadSome ==
  ASSUME NEW fields \in RowFields, NEW rows, Counted(rows), NEW j, ListWorn(j, fields, rows)
  PROVE  /\ DOMAIN Rows(j.arr, fields) \subseteq DOMAIN rows
         /\ \A k \in DOMAIN Rows(j.arr, fields) :
              Rows(j.arr, fields)[k] = AsRow(fields, rows[k])
<1>1. DOMAIN j.arr = DOMAIN rows /\ \A k \in DOMAIN rows : RowWorn(j.arr[k], fields, rows[k])
  BY DEF ListWorn
<1>2. Counted(j.arr)
  BY <1>1 DEF Counted
<1>3. \A k \in WholeRows(j.arr, fields) : k \in DOMAIN rows /\ Whole(j.arr[k], fields)
  BY <1>1, <1>2, WholeRowsAre
<1>4. \A k \in WholeRows(j.arr, fields) : RowFromJson(j.arr[k], fields) = AsRow(fields, rows[k])
  BY <1>1, <1>3, WholeReads
<1>5. /\ DOMAIN Rows(j.arr, fields) = WholeRows(j.arr, fields)
      /\ \A k \in WholeRows(j.arr, fields) :
           Rows(j.arr, fields)[k] = RowFromJson(j.arr[k], fields)
  BY DEF Rows
<1> QED
  BY <1>3, <1>4, <1>5

\* If each is whole they are all of it.
LEMMA RowsReadAll ==
  ASSUME NEW fields \in RowFields, NEW rows, Counted(rows), NEW j, ListWorn(j, fields, rows),
         WholeRows(j.arr, fields) = DOMAIN j.arr
  PROVE  /\ Rows(j.arr, fields) = [k \in DOMAIN rows |-> AsRow(fields, rows[k])]
         /\ ListSays(j, ListToJson(fields, rows))
         /\ DataSays(j, ListToJson(fields, rows))
<1>1. DOMAIN j.arr = DOMAIN rows /\ \A k \in DOMAIN rows : RowWorn(j.arr[k], fields, rows[k])
  BY DEF ListWorn
<1>2. \A k \in DOMAIN rows : Whole(j.arr[k], fields)
  <2>1. Counted(j.arr)
    BY <1>1 DEF Counted
  <2> QED
    BY <1>1, <2>1, WholeRowsAre
<1>3. Rows(j.arr, fields) = [k \in DOMAIN rows |-> AsRow(fields, rows[k])]
  <2>1. \A k \in DOMAIN rows : RowFromJson(j.arr[k], fields) = AsRow(fields, rows[k])
    BY <1>1, <1>2, WholeReads
  <2> QED
    BY <1>1, <2>1 DEF Rows
<1> DEFINE w == ListToJson(fields, rows)
<1>4. /\ DOMAIN w = {"arr"} /\ DOMAIN w.arr = DOMAIN rows
      /\ \A k \in DOMAIN rows : w.arr[k] = RowToJson(fields, rows[k])
  BY ListToJsonIs
<1>5. \A k \in DOMAIN rows :
        /\ RowSays(j.arr[k], RowToJson(fields, rows[k]))
        /\ ListSays(j.arr[k], RowToJson(fields, rows[k]))
  BY <1>1, <1>2, WholeSays
<1> HIDE DEF w
<1>6. \A k \in DOMAIN w.arr : RowSays(j.arr[k], w.arr[k]) /\ ListSays(j.arr[k], w.arr[k])
  BY <1>4, <1>5
<1>7. DOMAIN j = {"arr"} /\ {"arr"} # {"obj"}
  BY DEF ListWorn
<1>8. ListSays(j, w)
  BY <1>1, <1>4, <1>6, <1>7, Zenon DEF ListSays, SaysBy
<1>9. DataSays(j, w)
  BY <1>1, <1>4, <1>6, <1>7, Zenon DEF DataSays, SaysBy
<1> QED
  BY <1>3, <1>8, <1>9 DEF w

LEMMA PackageRows ==
  ASSUME NEW m, IsMap(m)
  PROVE  /\ Counted(RowsOf(m))
         /\ \A k \in DOMAIN RowsOf(m) : AsRow(Fields.package, RowsOf(m)[k]) = RowsOf(m)[k]
         /\ RowsOf(m) = [k \in DOMAIN RowsOf(m) |-> RowsOf(m)[k]]
<1>1. Counted(RowsOf(m))
  <2>1. Cardinality(DOMAIN m) \in Nat
    BY FS_CardinalityType DEF IsMap
  <2> QED
    BY <2>1, RowsOfMap DEF Counted
<1>2. DOMAIN Fields.package = 1 .. 2
  BY DEF Fields
<1>3. ASSUME NEW k \in DOMAIN RowsOf(m)
      PROVE  AsRow(Fields.package, RowsOf(m)[k]) = RowsOf(m)[k]
  <2>1. PICK a, b : RowsOf(m)[k] = <<a, b>>
    BY RowsOfMap
  <2>2. AsRow(Fields.package, <<a, b>>) = <<a, b>>
    BY <1>2 DEF AsRow
  <2> QED
    BY <2>1, <2>2
<1>4. RowsOf(m) = [k \in DOMAIN RowsOf(m) |-> RowsOf(m)[k]]
  BY DEF RowsOf
<1> QED
  BY <1>1, <1>3, <1>4

LEMMA PackagesToJsonIs ==
  ASSUME NEW p
  PROVE  /\ DOMAIN PackagesToJson(p) = {"obj"}
         /\ DOMAIN PackagesToJson(p).obj = {"selector", "pkgs"}
         /\ PackagesToJson(p).obj.selector = Typed("str", p.selector)
         /\ PackagesToJson(p).obj.pkgs = ListToJson(Fields.package, RowsOf(p.pkgs))
<1> DEFINE f == [selector |-> Typed("str", p.selector),
                 pkgs |-> ListToJson(Fields.package, RowsOf(p.pkgs))]
<1>1. PackagesToJson(p) = Obj(f)
  BY DEF PackagesToJson
<1>2. /\ DOMAIN f = {"selector", "pkgs"} /\ f.selector = Typed("str", p.selector)
      /\ f.pkgs = ListToJson(Fields.package, RowsOf(p.pkgs))
  OBVIOUS
<1> HIDE DEF f
<1> QED
  BY <1>1, <1>2, ObjIs

LEMMA PackageField == Fields.package \in RowFields
  BY DEF RowFields

LEMMA PackagesToJsonWorn ==
  ASSUME NEW p, IsMap(p.pkgs), NEW old
  PROVE  /\ PackagesWorn(PackagesToJson(p), p)
         /\ PackagesFromJson(PackagesToJson(p), old).ok
<1> DEFINE j == PackagesToJson(p)
           list == ListToJson(Fields.package, RowsOf(p.pkgs))
<1>1. /\ DOMAIN j = {"obj"} /\ DOMAIN j.obj = {"selector", "pkgs"}
      /\ j.obj.selector = Typed("str", p.selector) /\ j.obj.pkgs = list
  BY PackagesToJsonIs
<1>2. /\ ListWorn(list, Fields.package, RowsOf(p.pkgs))
      /\ WholeRows(list.arr, Fields.package) = DOMAIN list.arr
      /\ DOMAIN list = {"arr"}
  BY PackageField, PackageRows, ListToJsonWorn, ListToJsonIs
<1> HIDE DEF j, list
<1>3. PackagesWorn(j, p)
  BY <1>1, <1>2 DEF PackagesWorn
<1>4. Has(j, "selector", "str") /\ Has(j, "pkgs", "arr")
  <2>1. "str" \in DOMAIN Typed("str", p.selector)
    BY TypedIs
  <2> QED
    BY <1>1, <1>2, <2>1 DEF Has
<1>5. PackagesFromJson(j, old).ok
  BY <1>1, <1>2, <1>4 DEF PackagesFromJson
<1> QED
  BY <1>3, <1>5 DEF j

\* What a read of packages leaves, be it right or wrong.
LEMMA PackagesReadSome ==
  ASSUME NEW p, IsMap(p.pkgs), NEW j, j = Null \/ PackagesWorn(j, p), NEW old
  PROVE  LET read == PackagesFromJson(j, old).value
         IN \A n \in DOMAIN read.pkgs : n \in DOMAIN p.pkgs /\ read.pkgs[n] = p.pkgs[n]
<1> DEFINE v == PackagesFromJson(j, old).value
           rows == Rows(j.obj.pkgs.arr, Fields.package)
<1>1. CASE Has(j, "selector", "str") /\ Has(j, "pkgs", "arr")
  <2>1. v.pkgs = MapOf(rows)
    BY <1>1 DEF PackagesFromJson
  <2>2. "obj" \in DOMAIN j /\ "pkgs" \in DOMAIN j.obj /\ "arr" \in DOMAIN j.obj.pkgs
    BY <1>1 DEF Has
  <2>3. j # Null /\ j.obj.pkgs # Null
    BY <2>2, NullIs
  <2>4. ListWorn(j.obj.pkgs, Fields.package, RowsOf(p.pkgs))
    BY <2>2, <2>3 DEF PackagesWorn
  <2>5. /\ DOMAIN rows \subseteq DOMAIN RowsOf(p.pkgs)
        /\ \A k \in DOMAIN rows : rows[k] = AsRow(Fields.package, RowsOf(p.pkgs)[k])
    BY <2>4, PackageField, PackageRows, RowsReadSome
  <2> HIDE DEF v, rows
  <2>6. \A k \in DOMAIN rows : rows[k] = RowsOf(p.pkgs)[k]
    BY <2>5, PackageRows
  <2>7. \A n \in DOMAIN MapOf(rows) : n \in DOMAIN p.pkgs /\ MapOf(rows)[n] = p.pkgs[n]
    BY <2>5, <2>6, MapOfSome
  <2> QED
    BY <2>1, <2>7 DEF v
<1>2. CASE ~Has(j, "selector", "str") \/ ~Has(j, "pkgs", "arr")
  <2>1. v.pkgs = <<>>
    BY <1>2 DEF PackagesFromJson
  <2> QED
    BY <2>1
<1> QED
  BY <1>1, <1>2

LEMMA PackagesReadAll ==
  ASSUME NEW p, IsMap(p.pkgs), p = [selector |-> p.selector, pkgs |-> p.pkgs],
         NEW j, j = Null \/ PackagesWorn(j, p), NEW old, PackagesFromJson(j, old).ok
  PROVE  /\ PackagesFromJson(j, old).value = p
         /\ DataSays(j, PackagesToJson(p))
<1> DEFINE list == j.obj.pkgs
           rows == RowsOf(p.pkgs)
<1>1. /\ Has(j, "selector", "str") /\ Has(j, "pkgs", "arr")
      /\ WholeRows(list.arr, Fields.package) = DOMAIN list.arr
      /\ PackagesFromJson(j, old).value =
           [selector |-> j.obj.selector.str, pkgs |-> MapOf(Rows(list.arr, Fields.package))]
  BY DEF PackagesFromJson
<1>2. /\ "obj" \in DOMAIN j /\ "pkgs" \in DOMAIN j.obj /\ "arr" \in DOMAIN j.obj.pkgs
      /\ "selector" \in DOMAIN j.obj /\ "str" \in DOMAIN j.obj.selector
  BY <1>1 DEF Has
<1>3. j # Null /\ j.obj.pkgs # Null /\ j.obj.selector # Null
  BY <1>2, NullIs
<1>4. /\ DOMAIN j = {"obj"} /\ DOMAIN j.obj = {"selector", "pkgs"}
      /\ j.obj.selector = Typed("str", p.selector)
      /\ ListWorn(list, Fields.package, rows)
  BY <1>2, <1>3 DEF PackagesWorn
<1>5. j.obj.selector.str = p.selector
  BY <1>4, TypedIs
<1>6. /\ Rows(list.arr, Fields.package) = [k \in DOMAIN rows |-> AsRow(Fields.package, rows[k])]
      /\ ListSays(list, ListToJson(Fields.package, rows))
  BY <1>1, <1>4, PackageField, PackageRows, RowsReadAll
<1>7. Rows(list.arr, Fields.package) = rows
  BY <1>6, PackageRows
<1>8. MapOf(rows) = p.pkgs
  BY MapOfRows
<1>9. ListSays(j.obj.selector, Typed("str", p.selector))
  BY <1>4, FieldSaysIt
<1> DEFINE w == PackagesToJson(p)
<1>10. /\ DOMAIN w = {"obj"} /\ DOMAIN w.obj = {"selector", "pkgs"}
       /\ w.obj.selector = Typed("str", p.selector)
       /\ w.obj.pkgs = ListToJson(Fields.package, rows)
  BY PackagesToJsonIs
<1> HIDE DEF w, rows, list
<1>11. \A key \in DOMAIN w.obj : key \in DOMAIN j.obj /\ ListSays(j.obj[key], w.obj[key])
  <2>1. "selector" \in DOMAIN j.obj /\ ListSays(j.obj["selector"], w.obj["selector"])
    BY <1>4, <1>9, <1>10
  <2>2. "pkgs" \in DOMAIN j.obj /\ ListSays(j.obj["pkgs"], w.obj["pkgs"])
    BY <1>4, <1>6, <1>10 DEF list
  <2> QED
    BY <1>10, <2>1, <2>2, Zenon
<1>12. DataSays(j, w)
  BY <1>4, <1>10, <1>11, Zenon DEF DataSays, SaysBy
<1> QED
  BY <1>1, <1>5, <1>7, <1>8, <1>12 DEF w

-----------------------------------------------------------------------------
(***************************************************************************)
(* Data.  What DataFromJson takes of a damaged document is all of the data *)
(* that was written, in its own alternative.                               *)
(***************************************************************************)
Alternatives == {"uname", "loadAverages", "logins", "installedPackages", "uptime"}

LEMMA KeysAre ==
  /\ {Fields.uname[k][1] : k \in DOMAIN Fields.uname} \cap
       {"load1", "load5", "load15", "selector", "pkgs"} = {}
  /\ {Fields.loadAverages[k][1] : k \in DOMAIN Fields.loadAverages} \cap
       {"osName", "selector", "pkgs"} = {}
  /\ Fields.uname[1][1] = "osName" /\ Fields.loadAverages[1][1] = "load1"
<1>1. Fields.uname = << <<"osName", "str">>, <<"nodeName", "str">>, <<"release", "str">>,
                <<"version", "str">>, <<"machine", "str">>, <<"prettyName", "str">> >>
  BY DEF Fields
<1>2. Fields.loadAverages = << <<"load1", "float">>, <<"load5", "float">>, <<"load15", "float">> >>
  BY DEF Fields
<1>3. \A k \in DOMAIN Fields.uname : Fields.uname[k][1] \in
        {"osName", "nodeName", "release", "version", "machine", "prettyName"}
  BY <1>1
<1>4. \A k \in DOMAIN Fields.loadAverages : Fields.loadAverages[k][1] \in
        {"load1", "load5", "load15"}
  BY <1>2
<1>5. Fields.uname[1][1] = "osName" /\ Fields.loadAverages[1][1] = "load1"
  BY <1>1, <1>2
<1> QED
  BY <1>3, <1>4, <1>5

LEMMA FieldsInRowFields ==
  Fields.uname \in RowFields /\ Fields.loadAverages \in RowFields
  /\ Fields.login \in RowFields /\ Fields.package \in RowFields
  BY DEF RowFields

LEMMA WholeHasFirst ==
  ASSUME NEW fields \in RowFields, NEW j, Whole(j, fields)
  PROVE  "obj" \in DOMAIN j /\ fields[1][1] \in DOMAIN j.obj
<1>1. 1 \in Leading(j, fields) /\ 1 \in 1 .. 1
  BY FieldsAre DEF Whole
<1>2. Has(j, fields[1][1], fields[1][2])
  BY <1>1 DEF Leading
<1> QED
  BY <1>2 DEF Has

LEMMA IsDataIs ==
  ASSUME NEW d, IsData(d)
  PROVE  /\ \E a \in Alternatives : DOMAIN d = {a}
         /\ "uname" \in DOMAIN d => d = [uname |-> AsRow(Fields.uname, d.uname)]
         /\ "loadAverages" \in DOMAIN d =>
              d = [loadAverages |-> AsRow(Fields.loadAverages, d.loadAverages)]
         /\ "logins" \in DOMAIN d =>
              /\ Len(d.logins) \in Nat
              /\ d = [logins |-> [k \in 1 .. Len(d.logins) |-> AsRow(Fields.login, d.logins[k])]]
         /\ "installedPackages" \in DOMAIN d =>
              /\ d = [installedPackages |-> [selector |-> d.installedPackages.selector,
                                             pkgs |-> d.installedPackages.pkgs]]
              /\ IsMap(d.installedPackages.pkgs)
         /\ "uptime" \in DOMAIN d => d = [uptime |-> d.uptime]
<1>1. CASE "uname" \in DOMAIN d /\ d = [uname |-> AsRow(Fields.uname, d.uname)]
  <2>1. DOMAIN d = {"uname"}
    BY <1>1
  <2> QED
    BY <1>1, <2>1 DEF Alternatives
<1>2. CASE "loadAverages" \in DOMAIN d /\
           d = [loadAverages |-> AsRow(Fields.loadAverages, d.loadAverages)]
  <2>1. DOMAIN d = {"loadAverages"}
    BY <1>2
  <2> QED
    BY <1>2, <2>1 DEF Alternatives
<1>3. CASE /\ "logins" \in DOMAIN d /\ Len(d.logins) \in Nat
           /\ d = [logins |-> [k \in 1 .. Len(d.logins) |-> AsRow(Fields.login, d.logins[k])]]
  <2>1. DOMAIN d = {"logins"}
    BY <1>3
  <2> QED
    BY <1>3, <2>1 DEF Alternatives
<1>4. CASE /\ "installedPackages" \in DOMAIN d
           /\ d = [installedPackages |-> [selector |-> d.installedPackages.selector,
                                          pkgs |-> d.installedPackages.pkgs]]
           /\ IsMap(d.installedPackages.pkgs)
  <2>1. DOMAIN d = {"installedPackages"}
    BY <1>4
  <2> QED
    BY <1>4, <2>1 DEF Alternatives
<1>5. CASE "uptime" \in DOMAIN d /\ d = [uptime |-> d.uptime]
  <2>1. DOMAIN d = {"uptime"}
    BY <1>5
  <2> QED
    BY <1>5, <2>1 DEF Alternatives
<1> QED
  BY <1>1, <1>2, <1>3, <1>4, <1>5 DEF IsData

LEMMA LoginRows ==
  ASSUME NEW d, IsData(d), "logins" \in DOMAIN d
  PROVE  /\ Counted(d.logins)
         /\ d.logins = [k \in DOMAIN d.logins |-> AsRow(Fields.login, d.logins[k])]
<1> DEFINE rows == [k \in 1 .. Len(d.logins) |-> AsRow(Fields.login, d.logins[k])]
<1>1. Len(d.logins) \in Nat /\ d = [logins |-> rows]
  BY IsDataIs
<1>2. d.logins = rows
  BY <1>1
<1>3. DOMAIN rows = 1 .. Len(d.logins)
  OBVIOUS
<1> HIDE DEF rows
<1>4. DOMAIN d.logins = 1 .. Len(d.logins)
  BY <1>2, <1>3
<1>5. d.logins = [k \in DOMAIN d.logins |-> AsRow(Fields.login, d.logins[k])]
  BY <1>2, <1>4 DEF rows
<1> QED
  BY <1>1, <1>4, <1>5 DEF Counted

\* A document of another alternative, or of none, is refused.
LEMMA DataReadsItsOwn ==
  ASSUME NEW d, IsData(d), NEW j, DataWorn(j, d), NEW a \in Alternatives, NEW old,
         DataFromJson(a, j, old).ok
  PROVE  a \in DOMAIN d /\ j # Null
<1>1. \/ j = Null
      \/ "uname" \in DOMAIN d /\ RowWorn(j, Fields.uname, d.uname)
      \/ "loadAverages" \in DOMAIN d /\ RowWorn(j, Fields.loadAverages, d.loadAverages)
      \/ "logins" \in DOMAIN d /\ ListWorn(j, Fields.login, d.logins)
      \/ "installedPackages" \in DOMAIN d /\ PackagesWorn(j, d.installedPackages)
      \/ "uptime" \in DOMAIN d /\ j = Typed("int", d.uptime)
  BY DEF DataWorn
<1> DEFINE keys(fields) == {fields[k][1] : k \in DOMAIN fields}
<1>2. /\ j = Null => DOMAIN j = {"null"}
      /\ RowWorn(j, Fields.uname, d.uname) =>
           DOMAIN j = {"obj"} /\ DOMAIN j.obj \subseteq keys(Fields.uname)
      /\ RowWorn(j, Fields.loadAverages, d.loadAverages) =>
           DOMAIN j = {"obj"} /\ DOMAIN j.obj \subseteq keys(Fields.loadAverages)
      /\ ListWorn(j, Fields.login, d.logins) => DOMAIN j = {"arr"}
      /\ PackagesWorn(j, d.installedPackages) =>
           DOMAIN j = {"obj"} /\ DOMAIN j.obj \subseteq {"selector", "pkgs"}
      /\ j = Typed("int", d.uptime) => DOMAIN j = {"int"}
  BY NullIs, TypedIs DEF RowWorn, ListWorn, PackagesWorn
<1>3. /\ keys(Fields.uname) \cap {"load1", "load5", "load15", "selector", "pkgs"} = {}
      /\ keys(Fields.loadAverages) \cap {"osName", "selector", "pkgs"} = {}
  BY KeysAre
<1> HIDE DEF keys
<1>4. CASE a = "uname"
  <2>1. Whole(j, Fields.uname)
    BY <1>4 DEF DataFromJson
  <2>2. "obj" \in DOMAIN j /\ "osName" \in DOMAIN j.obj
    BY <2>1, WholeHasFirst, FieldsInRowFields, KeysAre
  <2> QED
    BY <1>1, <1>2, <1>3, <1>4, <2>2
<1>5. CASE a = "loadAverages"
  <2>1. Whole(j, Fields.loadAverages)
    BY <1>5 DEF DataFromJson
  <2>2. "obj" \in DOMAIN j /\ "load1" \in DOMAIN j.obj
    BY <2>1, WholeHasFirst, FieldsInRowFields, KeysAre
  <2> QED
    BY <1>1, <1>2, <1>3, <1>5, <2>2
<1>6. CASE a = "logins"
  <2>1. "arr" \in DOMAIN j
    BY <1>6 DEF DataFromJson, LoginsFromJson
  <2> QED
    BY <1>1, <1>2, <1>6, <2>1
<1>7. CASE a = "installedPackages"
  <2>1. Has(j, "selector", "str")
    BY <1>7 DEF DataFromJson, PackagesFromJson
  <2>2. "obj" \in DOMAIN j /\ "selector" \in DOMAIN j.obj
    BY <2>1 DEF Has
  <2> QED
    BY <1>1, <1>2, <1>3, <1>7, <2>2
<1>8. CASE a = "uptime"
  <2>1. "int" \in DOMAIN j
    BY <1>8 DEF DataFromJson
  <2> QED
    BY <1>1, <1>2, <1>8, <2>1
<1> QED
  BY <1>4, <1>5, <1>6, <1>7, <1>8 DEF Alternatives

\* What is read of its own is all of it.
LEMMA DataReadsAll ==
  ASSUME NEW d, IsData(d), NEW j, DataWorn(j, d), NEW a \in Alternatives, NEW old,
         DataFromJson(a, j, old).ok
  PROVE  /\ DOMAIN d = {a} /\ DataFromJson(a, j, old).value = d
         /\ DataSays(j, DataToJson(d))
<1>1. DOMAIN d = {a} /\ j # Null
  <2>1. a \in DOMAIN d /\ j # Null
    BY DataReadsItsOwn
  <2>2. \E b \in Alternatives : DOMAIN d = {b}
    BY IsDataIs
  <2> QED
    BY <2>1, <2>2
<1> DEFINE out == DataFromJson(a, j, old)
<1>2. CASE a = "uname"
  <2>1. Whole(j, Fields.uname) /\ out.value = [x \in {"uname"} |-> RowFromJson(j, Fields.uname)]
    BY <1>2 DEF DataFromJson
  <2>2. RowWorn(j, Fields.uname, d.uname)
    BY <1>1, <1>2 DEF DataWorn
  <2>3. /\ RowFromJson(j, Fields.uname) = AsRow(Fields.uname, d.uname)
        /\ DataSays(j, RowToJson(Fields.uname, d.uname))
    BY <2>1, <2>2, FieldsInRowFields, WholeReads, WholeSays
  <2>4. d = [uname |-> AsRow(Fields.uname, d.uname)]
    BY <1>1, <1>2, IsDataIs
  <2>5. DataToJson(d) = RowToJson(Fields.uname, d.uname)
    BY <1>1, <1>2 DEF DataToJson
  <2>6. out.value = d
    BY <2>1, <2>3, <2>4
  <2> QED
    BY <1>1, <2>3, <2>5, <2>6
<1>3. CASE a = "loadAverages"
  <2>1. /\ Whole(j, Fields.loadAverages)
        /\ out.value = [x \in {"loadAverages"} |-> RowFromJson(j, Fields.loadAverages)]
    BY <1>3 DEF DataFromJson
  <2>2. RowWorn(j, Fields.loadAverages, d.loadAverages)
    BY <1>1, <1>3 DEF DataWorn
  <2>3. /\ RowFromJson(j, Fields.loadAverages) = AsRow(Fields.loadAverages, d.loadAverages)
        /\ DataSays(j, RowToJson(Fields.loadAverages, d.loadAverages))
    BY <2>1, <2>2, FieldsInRowFields, WholeReads, WholeSays
  <2>4. d = [loadAverages |-> AsRow(Fields.loadAverages, d.loadAverages)]
    BY <1>1, <1>3, IsDataIs
  <2>5. DataToJson(d) = RowToJson(Fields.loadAverages, d.loadAverages)
    BY <1>1, <1>3 DEF DataToJson
  <2>6. out.value = d
    BY <2>1, <2>3, <2>4
  <2> QED
    BY <1>1, <2>3, <2>5, <2>6
<1>4. CASE a = "logins"
  <2>1. /\ "arr" \in DOMAIN j /\ WholeRows(j.arr, Fields.login) = DOMAIN j.arr
        /\ out.value = [x \in {"logins"} |-> Rows(j.arr, Fields.login)]
    BY <1>4 DEF DataFromJson, LoginsFromJson
  <2>2. ListWorn(j, Fields.login, d.logins)
    BY <1>1, <1>4 DEF DataWorn
  <2>3. /\ Counted(d.logins)
        /\ d.logins = [k \in DOMAIN d.logins |-> AsRow(Fields.login, d.logins[k])]
        /\ d = [logins |-> [k \in 1 .. Len(d.logins) |-> AsRow(Fields.login, d.logins[k])]]
    BY <1>1, <1>4, IsDataIs, LoginRows
  <2>4. /\ Rows(j.arr, Fields.login) = d.logins
        /\ DataSays(j, ListToJson(Fields.login, d.logins))
    BY <2>1, <2>2, <2>3, FieldsInRowFields, RowsReadAll
  <2>5. DataToJson(d) = ListToJson(Fields.login, d.logins)
    BY <1>1, <1>4 DEF DataToJson
  <2>6. d = [logins |-> d.logins]
    BY <2>3
  <2>7. out.value = d
    BY <2>1, <2>4, <2>6
  <2> QED
    BY <1>1, <2>4, <2>5, <2>7
<1>5. CASE a = "installedPackages"
  <2> DEFINE p == d.installedPackages
  <2>1. /\ PackagesFromJson(j, old).ok
        /\ out.value = [x \in {"installedPackages"} |-> PackagesFromJson(j, old).value]
    BY <1>5 DEF DataFromJson
  <2>2. PackagesWorn(j, p)
    BY <1>1, <1>5 DEF DataWorn
  <2>3. d = [installedPackages |-> [selector |-> p.selector, pkgs |-> p.pkgs]] /\ IsMap(p.pkgs)
    BY <1>1, <1>5, IsDataIs
  <2>4. p = [selector |-> p.selector, pkgs |-> p.pkgs]
    BY <2>3
  <2> HIDE DEF p
  <2>5. PackagesFromJson(j, old).value = p /\ DataSays(j, PackagesToJson(p))
    BY <2>1, <2>2, <2>3, <2>4, PackagesReadAll
  <2>6. DataToJson(d) = PackagesToJson(p)
    BY <1>1, <1>5 DEF DataToJson, p
  <2>7. out.value = d
    BY <2>1, <2>3, <2>4, <2>5
  <2> QED
    BY <1>1, <2>5, <2>6, <2>7
<1>6. CASE a = "uptime"
  <2>1. out.value = [x \in {"uptime"} |-> j.int]
    BY <1>6 DEF DataFromJson
  <2>2. j = Typed("int", d.uptime) /\ d = [uptime |-> d.uptime]
    BY <1>1, <1>6, IsDataIs DEF DataWorn
  <2>3. j.int = d.uptime
    BY <2>2, TypedIs
  <2>4. DataToJson(d) = Typed("int", d.uptime)
    BY <1>1, <1>6 DEF DataToJson
  <2>5. DataSays(j, DataToJson(d))
    BY <2>2, <2>4, FieldSaysIt
  <2>6. out.value = d
    BY <2>1, <2>2, <2>3
  <2> QED
    BY <1>1, <2>5, <2>6
<1> QED
  BY <1>2, <1>3, <1>4, <1>5, <1>6 DEF Alternatives

\* What is not damaged is worn, and is read.
LEMMA DataToJsonWorn ==
  ASSUME NEW d, IsData(d), NEW a \in DOMAIN d, NEW old
  PROVE  DataWorn(DataToJson(d), d) /\ DataFromJson(a, DataToJson(d), old).ok
<1>1. DOMAIN d = {a} /\ a \in Alternatives
  <2>1. PICK b \in Alternatives : DOMAIN d = {b}
    BY IsDataIs
  <2> QED
    BY <2>1
<1> DEFINE j == DataToJson(d)
<1>2. CASE a \in {"uname", "loadAverages"}
  <2>1. DataToJson(d) = RowToJson(Fields[a], d[a]) /\ Fields[a] \in RowFields
    <3>1. CASE a = "uname"
      BY <1>1, <3>1, FieldsInRowFields DEF DataToJson
    <3>2. CASE a = "loadAverages"
      BY <1>1, <3>2, FieldsInRowFields DEF DataToJson
    <3> QED
      BY <1>2, <3>1, <3>2
  <2>2. RowWorn(j, Fields[a], d[a]) /\ Whole(j, Fields[a])
    BY <2>1, RowToJsonWorn
  <2> HIDE DEF j
  <2>3. DataWorn(j, d)
    BY <1>1, <1>2, <2>2 DEF DataWorn
  <2>4. DataFromJson(a, j, old).ok
    BY <1>2, <2>2 DEF DataFromJson
  <2> QED
    BY <2>3, <2>4 DEF j
<1>3. CASE a = "logins"
  <2>1. j = ListToJson(Fields.login, d.logins)
    BY <1>1, <1>3 DEF DataToJson
  <2>2. /\ ListWorn(j, Fields.login, d.logins) /\ DOMAIN j = {"arr"}
        /\ WholeRows(j.arr, Fields.login) = DOMAIN j.arr
    BY <1>1, <1>3, <2>1, LoginRows, FieldsInRowFields, ListToJsonWorn, ListToJsonIs
  <2> HIDE DEF j
  <2>3. DataWorn(j, d)
    BY <1>1, <1>3, <2>2 DEF DataWorn
  <2>4. DataFromJson(a, j, old).ok
    BY <1>3, <2>2 DEF DataFromJson, LoginsFromJson
  <2> QED
    BY <2>3, <2>4 DEF j
<1>4. CASE a = "installedPackages"
  <2>1. j = PackagesToJson(d.installedPackages) /\ IsMap(d.installedPackages.pkgs)
    BY <1>1, <1>4, IsDataIs DEF DataToJson
  <2>2. PackagesWorn(j, d.installedPackages) /\ PackagesFromJson(j, old).ok
    BY <2>1, PackagesToJsonWorn
  <2> HIDE DEF j
  <2>3. DataWorn(j, d)
    BY <1>1, <1>4, <2>2 DEF DataWorn
  <2>4. DataFromJson(a, j, old).ok
    BY <1>4, <2>2 DEF DataFromJson
  <2> QED
    BY <2>3, <2>4 DEF j
<1>5. CASE a = "uptime"
  <2>1. j = Typed("int", d.uptime)
    BY <1>1, <1>5 DEF DataToJson
  <2>2. DOMAIN j = {"int"}
    BY <2>1, TypedIs
  <2> HIDE DEF j
  <2>3. DataWorn(j, d)
    BY <1>1, <1>5, <2>1 DEF DataWorn
  <2>4. DataFromJson(a, j, old).ok
    BY <1>5, <2>2 DEF DataFromJson
  <2> QED
    BY <2>3, <2>4 DEF j
<1> QED
  BY <1>1, <1>2, <1>3, <1>4, <1>5 DEF Alternatives

-----------------------------------------------------------------------------
(***************************************************************************)
(* Damages.  However often a document is damaged, it stays one of those    *)
(* that the lemmas above are about.                                        *)
(***************************************************************************)
\* What a damage does to a JSON object, a member of it, and an array.
LEMMA DamagedIs ==
  ASSUME NEW j, NEW j2 \in Damaged(j)
  PROVE  /\ "obj" \in DOMAIN j /\ DOMAIN j2 = {"obj"} /\ DOMAIN j2.obj \subseteq DOMAIN j.obj
         /\ \A key \in DOMAIN j2.obj : j2.obj[key] \in {Null, j.obj[key]}
<1>1. "obj" \in DOMAIN j
  BY DEF Damaged
<1>2. PICK key \in DOMAIN j.obj :
        \/ j2 = Obj([k \in DOMAIN j.obj \ {key} |-> j.obj[k]])
        \/ j2 = Obj([j.obj EXCEPT ![key] = Null])
  BY <1>1 DEF Damaged
<1>3. PICK f : /\ j2 = Obj(f)
               /\ \/ f = [k \in DOMAIN j.obj \ {key} |-> j.obj[k]]
                  \/ f = [j.obj EXCEPT ![key] = Null]
  BY <1>2
<1>4. DOMAIN f \subseteq DOMAIN j.obj /\ \A k \in DOMAIN f : f[k] \in {Null, j.obj[k]}
  BY <1>3
<1> QED
  BY <1>1, <1>3, <1>4, ObjIs

LEMMA WithinIs ==
  ASSUME NEW j, NEW key, NEW values, NEW j2 \in Within(j, key, values)
  PROVE  /\ "obj" \in DOMAIN j /\ key \in DOMAIN j.obj
         /\ DOMAIN j2 = {"obj"} /\ DOMAIN j2.obj = DOMAIN j.obj /\ j2.obj[key] \in values
         /\ \A k \in DOMAIN j.obj : k # key => j2.obj[k] = j.obj[k]
<1>1. "obj" \in DOMAIN j /\ key \in DOMAIN j.obj
  BY DEF Within, At
<1>2. PICK v \in values : j2 = Obj([j.obj EXCEPT ![key] = v])
  BY <1>1 DEF Within, At
<1>3. PICK f : j2 = Obj(f) /\ f = [j.obj EXCEPT ![key] = v]
  BY <1>2
<1>4. DOMAIN f = DOMAIN j.obj /\ f[key] = v /\ \A k \in DOMAIN j.obj : k # key => f[k] = j.obj[k]
  BY <1>1, <1>3
<1> QED
  BY <1>1, <1>3, <1>4, ObjIs

LEMMA DamagedElementIs ==
  ASSUME NEW j, NEW j2 \in DamagedElement(j)
  PROVE  /\ "arr" \in DOMAIN j /\ DOMAIN j2 = {"arr"} /\ DOMAIN j2.arr = DOMAIN j.arr
         /\ \A k \in DOMAIN j.arr : j2.arr[k] = j.arr[k] \/ j2.arr[k] \in Damaged(j.arr[k])
<1>1. "arr" \in DOMAIN j
  BY DEF DamagedElement
<1>2. \E k \in DOMAIN j.arr : \E v \in Damaged(j.arr[k]) : j2 = Typed("arr", [j.arr EXCEPT ![k] = v])
  BY <1>1 DEF DamagedElement
<1>3. PICK n \in DOMAIN j.arr : \E v \in Damaged(j.arr[n]) : j2 = Typed("arr", [j.arr EXCEPT ![n] = v])
  BY <1>2
<1>4. PICK v \in Damaged(j.arr[n]) : j2 = Typed("arr", [j.arr EXCEPT ![n] = v])
  BY <1>3
<1>5. PICK f : j2 = Typed("arr", f) /\ f = [j.arr EXCEPT ![n] = v]
  BY <1>4
<1>6. DOMAIN f = DOMAIN j.arr /\ f[n] = v /\ \A k \in DOMAIN j.arr : k # n => f[k] = j.arr[k]
  BY <1>3, <1>5
<1>7. DOMAIN j2 = {"arr"} /\ j2.arr = f
  BY <1>5, TypedIs
<1>8. ASSUME NEW k \in DOMAIN j.arr
      PROVE  j2.arr[k] = j.arr[k] \/ j2.arr[k] \in Damaged(j.arr[k])
  <2>1. CASE k = n
    BY <1>4, <1>6, <1>7, <2>1
  <2>2. CASE k # n
    BY <1>6, <1>7, <2>2
  <2> QED
    BY <2>1, <2>2
<1> QED
  BY <1>1, <1>6, <1>7, <1>8

LEMMA DamagedRow ==
  ASSUME NEW fields, NEW row, NEW j, RowWorn(j, fields, row), NEW j2 \in Damaged(j)
  PROVE  RowWorn(j2, fields, row)
<1>1. /\ DOMAIN j2 = {"obj"} /\ DOMAIN j2.obj \subseteq DOMAIN j.obj
      /\ \A key \in DOMAIN j2.obj : j2.obj[key] \in {Null, j.obj[key]}
  BY DamagedIs
<1>2. /\ DOMAIN j.obj \subseteq {fields[k][1] : k \in DOMAIN fields}
      /\ \A k \in DOMAIN fields : fields[k][1] \in DOMAIN j.obj =>
           j.obj[fields[k][1]] \in {Null, Typed(fields[k][2], row[k])}
  BY DEF RowWorn
<1>3. \A k \in DOMAIN fields : fields[k][1] \in DOMAIN j2.obj =>
        j2.obj[fields[k][1]] \in {Null, Typed(fields[k][2], row[k])}
  BY <1>1, <1>2
<1> QED
  BY <1>1, <1>2, <1>3 DEF RowWorn

LEMMA DamagedList ==
  ASSUME NEW fields, NEW rows, NEW j, ListWorn(j, fields, rows), NEW j2 \in DamagedElement(j)
  PROVE  ListWorn(j2, fields, rows)
<1>1. /\ DOMAIN j2 = {"arr"} /\ DOMAIN j2.arr = DOMAIN j.arr
      /\ \A k \in DOMAIN j.arr : j2.arr[k] = j.arr[k] \/ j2.arr[k] \in Damaged(j.arr[k])
  BY DamagedElementIs
<1>2. DOMAIN j.arr = DOMAIN rows /\ \A k \in DOMAIN rows : RowWorn(j.arr[k], fields, rows[k])
  BY DEF ListWorn
<1>3. ASSUME NEW k \in DOMAIN rows PROVE RowWorn(j2.arr[k], fields, rows[k])
  <2>1. CASE j2.arr[k] = j.arr[k]
    BY <1>2, <2>1
  <2>2. CASE j2.arr[k] \in Damaged(j.arr[k])
    BY <1>2, <2>2, DamagedRow
  <2> QED
    BY <1>1, <1>2, <2>1, <2>2
<1> QED
  BY <1>1, <1>2, <1>3 DEF ListWorn

LEMMA DamagedPackages ==
  ASSUME NEW p, NEW j, PackagesWorn(j, p),
         NEW j2 \in Damaged(j) \cup Within(j, "pkgs", DamagedElement(j.obj.pkgs))
  PROVE  PackagesWorn(j2, p)
<1> DEFINE rows == RowsOf(p.pkgs)
<1>1. /\ DOMAIN j.obj \subseteq {"selector", "pkgs"}
      /\ "selector" \in DOMAIN j.obj => j.obj.selector \in {Null, Typed("str", p.selector)}
      /\ "pkgs" \in DOMAIN j.obj => j.obj.pkgs = Null \/ ListWorn(j.obj.pkgs, Fields.package, rows)
  BY DEF PackagesWorn
<1> HIDE DEF rows
<1>2. CASE j2 \in Damaged(j)
  <2>1. /\ DOMAIN j2 = {"obj"} /\ DOMAIN j2.obj \subseteq DOMAIN j.obj
        /\ \A key \in DOMAIN j2.obj : j2.obj[key] \in {Null, j.obj[key]}
    BY <1>2, DamagedIs
  <2>2. "selector" \in DOMAIN j2.obj => j2.obj["selector"] \in {Null, Typed("str", p.selector)}
    BY <1>1, <2>1
  <2>3. "pkgs" \in DOMAIN j2.obj =>
          j2.obj["pkgs"] = Null \/ ListWorn(j2.obj["pkgs"], Fields.package, rows)
    BY <1>1, <2>1
  <2> QED
    BY <1>1, <2>1, <2>2, <2>3 DEF PackagesWorn, rows
<1>3. CASE j2 \in Within(j, "pkgs", DamagedElement(j.obj.pkgs))
  <2>1. /\ "pkgs" \in DOMAIN j.obj
        /\ DOMAIN j2 = {"obj"} /\ DOMAIN j2.obj = DOMAIN j.obj
        /\ j2.obj["pkgs"] \in DamagedElement(j.obj.pkgs)
        /\ \A k \in DOMAIN j.obj : k # "pkgs" => j2.obj[k] = j.obj[k]
    BY <1>3, WithinIs
  <2>2. "selector" \in DOMAIN j2.obj => j2.obj["selector"] \in {Null, Typed("str", p.selector)}
    BY <1>1, <2>1
  <2>3. "arr" \in DOMAIN j.obj.pkgs
    BY <2>1, DamagedElementIs
  <2>4. ListWorn(j.obj.pkgs, Fields.package, rows)
    BY <1>1, <2>1, <2>3, NullIs
  <2>5. ListWorn(j2.obj["pkgs"], Fields.package, rows)
    BY <2>1, <2>4, DamagedList
  <2> QED
    BY <1>1, <2>1, <2>2, <2>5 DEF PackagesWorn, rows
<1> QED
  BY <1>2, <1>3

\* However data is damaged once more, it is worn.
LEMMA DamagedDataIs ==
  ASSUME NEW d, NEW j, DataWorn(j, d), NEW j2 \in DamagedData(j)
  PROVE  DataWorn(j2, d)
<1>1. CASE RowWorn(j, Fields.uname, d.uname) \/ RowWorn(j, Fields.loadAverages, d.loadAverages)
  <2>1. /\ DOMAIN j = {"obj"}
        /\ "pkgs" \notin DOMAIN j.obj
    BY <1>1, KeysAre DEF RowWorn
  <2>2. j2 \in Damaged(j)
    <3>1. j2 \notin DamagedElement(j)
      BY <2>1, DamagedElementIs
    <3>2. j2 \notin Within(j, "pkgs", DamagedElement(j.obj.pkgs))
      BY <2>1, WithinIs
    <3> QED
      BY <3>1, <3>2 DEF DamagedData
  <2>3. /\ RowWorn(j, Fields.uname, d.uname) => RowWorn(j2, Fields.uname, d.uname)
        /\ RowWorn(j, Fields.loadAverages, d.loadAverages) =>
             RowWorn(j2, Fields.loadAverages, d.loadAverages)
    BY <2>2, DamagedRow
  <2>4. \/ j = Null
        \/ "uname" \in DOMAIN d /\ RowWorn(j, Fields.uname, d.uname)
        \/ "loadAverages" \in DOMAIN d /\ RowWorn(j, Fields.loadAverages, d.loadAverages)
        \/ "logins" \in DOMAIN d /\ ListWorn(j, Fields.login, d.logins)
        \/ "installedPackages" \in DOMAIN d /\ PackagesWorn(j, d.installedPackages)
        \/ "uptime" \in DOMAIN d /\ j = Typed("int", d.uptime)
    BY DEF DataWorn
  <2>5. ASSUME "installedPackages" \in DOMAIN d, PackagesWorn(j, d.installedPackages)
        PROVE  PackagesWorn(j2, d.installedPackages)
    BY <2>2, <2>5, DamagedPackages
  <2>6. j # Null /\ ~ListWorn(j, Fields.login, d.logins) /\ j # Typed("int", d.uptime)
    <3>1. DOMAIN Typed("int", d.uptime) = {"int"}
      BY TypedIs
    <3> QED
      BY <2>1, <3>1, NullIs DEF ListWorn
  <2> QED
    BY <2>3, <2>4, <2>5, <2>6 DEF DataWorn
<1>2. CASE "logins" \in DOMAIN d /\ ListWorn(j, Fields.login, d.logins)
  <2>1. DOMAIN j = {"arr"}
    BY <1>2 DEF ListWorn
  <2>2. j2 \notin Damaged(j) /\ j2 \notin Within(j, "pkgs", DamagedElement(j.obj.pkgs))
    BY <2>1, DamagedIs, WithinIs
  <2>3. j2 \in DamagedElement(j)
    BY <2>2 DEF DamagedData
  <2> QED
    BY <1>2, <2>3, DamagedList DEF DataWorn
<1>3. CASE "installedPackages" \in DOMAIN d /\ PackagesWorn(j, d.installedPackages)
  <2>1. DOMAIN j = {"obj"}
    BY <1>3 DEF PackagesWorn
  <2>2. j2 \notin DamagedElement(j)
    BY <2>1, DamagedElementIs
  <2>3. j2 \in Damaged(j) \cup Within(j, "pkgs", DamagedElement(j.obj.pkgs))
    BY <2>2 DEF DamagedData
  <2> QED
    BY <1>3, <2>3, DamagedPackages DEF DataWorn
<1>4. CASE j = Null \/ j = Typed("int", d.uptime)
  <2>1. "obj" \notin DOMAIN j /\ "arr" \notin DOMAIN j
    <3>1. DOMAIN Typed("int", d.uptime) = {"int"}
      BY TypedIs
    <3> QED
      BY <1>4, <3>1, NullIs
  <2>2. j2 \notin Damaged(j) /\ j2 \notin Within(j, "pkgs", DamagedElement(j.obj.pkgs))
        /\ j2 \notin DamagedElement(j)
    BY <2>1, DamagedIs, WithinIs, DamagedElementIs
  <2> QED
    BY <2>2 DEF DamagedData
<1> QED
  BY <1>1, <1>2, <1>3, <1>4 DEF DataWorn

-----------------------------------------------------------------------------
(***************************************************************************)
(* What a read leaves of data, be it right or wrong.                       *)
(***************************************************************************)
LEMMA BlankRowsAre ==
  /\ Blank("uname").uname = BlankRow(Fields.uname)
  /\ DOMAIN Blank("uname") = {"uname"}
  /\ Blank("loadAverages").loadAverages = BlankRow(Fields.loadAverages)
  /\ DOMAIN Blank("loadAverages") = {"loadAverages"}
  BY DEF Blank

LEMMA PartsOfRow ==
  ASSUME NEW a \in {"uname", "loadAverages"}, NEW data, DOMAIN data = {a}
  PROVE  Parts(data) = {data[a][k] : k \in DOMAIN data[a]}
<1>1. CASE a = "uname"
  BY <1>1 DEF Parts, ToSet
<1>2. CASE a = "loadAverages"
  BY <1>2 DEF Parts, ToSet
<1> QED
  BY <1>1, <1>2

\* A read of data leaves what was written and blanks, whatever was there.
LEMMA DataLeavesOld ==
  ASSUME NEW d, IsData(d), NEW a \in DOMAIN d, NEW j, DataWorn(j, d), NEW old
  PROVE  Parts(DataFromJson(a, j, old).value) \subseteq Parts(d) \cup Parts(Blank(a))
<1>1. DOMAIN d = {a} /\ a \in Alternatives
  <2>1. PICK b \in Alternatives : DOMAIN d = {b}
    BY IsDataIs
  <2> QED
    BY <2>1
<1> DEFINE v == DataFromJson(a, j, old).value
<1>2. CASE a \in {"uname", "loadAverages"}
  <2>1. Fields[a] \in RowFields
    BY <1>2, FieldsInRowFields
  <2>2. v = [x \in {a} |-> RowFromJson(j, Fields[a])]
    BY <1>2 DEF DataFromJson
  <2>3. j = Null \/ RowWorn(j, Fields[a], d[a])
    BY <1>1, <1>2 DEF DataWorn
  <2>4. j = Null => Leading(j, Fields[a]) = {}
    <3> SUFFICES ASSUME j = Null, NEW k \in Leading(j, Fields[a]) PROVE FALSE
      OBVIOUS
    <3>1. k \in DOMAIN Fields[a] /\ k \in 1 .. k
      BY <2>1, FieldsAre DEF Leading
    <3>2. Has(j, Fields[a][k][1], Fields[a][k][2])
      BY <3>1 DEF Leading
    <3> QED
      BY <3>2, NullIs DEF Has
  <2>5. /\ DOMAIN RowFromJson(j, Fields[a]) = DOMAIN Fields[a]
        /\ \A k \in DOMAIN Fields[a] :
             RowFromJson(j, Fields[a])[k] \in {d[a][k], BlankRow(Fields[a])[k]}
    BY <2>1, <2>3, <2>4, RowReadsParts
  <2>6. Parts(v) = {RowFromJson(j, Fields[a])[k] : k \in DOMAIN Fields[a]}
    <3>1. DOMAIN v = {a} /\ v[a] = RowFromJson(j, Fields[a])
      BY <2>2
    <3> HIDE DEF v
    <3>2. Parts(v) = {v[a][k] : k \in DOMAIN v[a]}
      BY <1>2, <3>1, PartsOfRow
    <3> QED
      BY <2>5, <3>1, <3>2
  <2>7. Parts(d) = {d[a][k] : k \in DOMAIN Fields[a]}
    <3>1. Parts(d) = {d[a][k] : k \in DOMAIN d[a]}
      BY <1>1, <1>2, PartsOfRow
    <3>2. d[a] = AsRow(Fields[a], d[a])
      <4>1. CASE a = "uname"
        <5>1. d = [uname |-> AsRow(Fields.uname, d.uname)]
          BY <1>1, <4>1, IsDataIs
        <5> QED
          BY <4>1, <5>1
      <4>2. CASE a = "loadAverages"
        <5>1. d = [loadAverages |-> AsRow(Fields.loadAverages, d.loadAverages)]
          BY <1>1, <4>2, IsDataIs
        <5> QED
          BY <4>2, <5>1
      <4> QED
        BY <1>2, <4>1, <4>2
    <3>3. DOMAIN AsRow(Fields[a], d[a]) = DOMAIN Fields[a]
      BY DEF AsRow
    <3>4. DOMAIN d[a] = DOMAIN Fields[a]
      BY <3>2, <3>3
    <3> QED
      BY <3>1, <3>4
  <2>8. Parts(Blank(a)) = {BlankRow(Fields[a])[k] : k \in DOMAIN Fields[a]}
    <3>1. DOMAIN Blank(a) = {a} /\ Blank(a)[a] = BlankRow(Fields[a])
      BY <1>2, BlankRowsAre
    <3>2. Parts(Blank(a)) = {Blank(a)[a][k] : k \in DOMAIN Blank(a)[a]}
      BY <1>2, <3>1, PartsOfRow
    <3>3. DOMAIN BlankRow(Fields[a]) = DOMAIN Fields[a]
      BY DEF BlankRow
    <3> QED
      BY <3>1, <3>2, <3>3
  <2> HIDE DEF v
  <2>9. \A x \in Parts(v) : x \in Parts(d) \cup Parts(Blank(a))
    BY <2>5, <2>6, <2>7, <2>8
  <2> QED
    BY <2>9 DEF v
<1>3. CASE a = "logins"
  <2>1. Parts(d) = {d.logins[k] : k \in DOMAIN d.logins}
    BY <1>1, <1>3 DEF Parts, ToSet
  <2>2. CASE "arr" \in DOMAIN j
    <3>1. v = [x \in {"logins"} |-> Rows(j.arr, Fields.login)]
      BY <1>3, <2>2 DEF DataFromJson, LoginsFromJson
    <3>2. ListWorn(j, Fields.login, d.logins)
      BY <1>1, <1>3, <2>2, NullIs DEF DataWorn
    <3>3. /\ Counted(d.logins)
          /\ d.logins = [k \in DOMAIN d.logins |-> AsRow(Fields.login, d.logins[k])]
      BY <1>1, <1>3, LoginRows
    <3>4. /\ DOMAIN Rows(j.arr, Fields.login) \subseteq DOMAIN d.logins
          /\ \A k \in DOMAIN Rows(j.arr, Fields.login) :
               Rows(j.arr, Fields.login)[k] = AsRow(Fields.login, d.logins[k])
      BY <3>2, <3>3, FieldsInRowFields, RowsReadSome
    <3>5. Parts(v) = {Rows(j.arr, Fields.login)[k] : k \in DOMAIN Rows(j.arr, Fields.login)}
      <4>1. DOMAIN v = {"logins"} /\ v.logins = Rows(j.arr, Fields.login)
        BY <3>1
      <4> HIDE DEF v
      <4> QED
        BY <4>1 DEF Parts, ToSet
    <3>6. \A k \in DOMAIN d.logins : AsRow(Fields.login, d.logins[k]) = d.logins[k]
      BY <3>3
    <3> HIDE DEF v
    <3>7. \A x \in Parts(v) : x \in Parts(d)
      BY <2>1, <3>4, <3>5, <3>6
    <3> QED
      BY <3>7 DEF v
  <2>3. CASE "arr" \notin DOMAIN j
    <3>1. v = [x \in {"logins"} |-> <<>>]
      BY <1>3, <2>3 DEF DataFromJson, LoginsFromJson
    <3>2. DOMAIN v = {"logins"} /\ v.logins = <<>>
      BY <3>1
    <3> HIDE DEF v
    <3>3. Parts(v) = {}
      BY <3>2 DEF Parts, ToSet
    <3> QED
      BY <3>3 DEF v
  <2> QED
    BY <2>2, <2>3
<1>4. CASE a = "installedPackages"
  <2> DEFINE p == d.installedPackages
             read == PackagesFromJson(j, old).value
  <2>1. v = [x \in {"installedPackages"} |-> read]
    BY <1>4 DEF DataFromJson
  <2>2. j = Null \/ PackagesWorn(j, p)
    BY <1>1, <1>4 DEF DataWorn
  <2>3. IsMap(p.pkgs)
    BY <1>1, <1>4, IsDataIs
  <2> HIDE DEF p
  <2>4. \A n \in DOMAIN read.pkgs : n \in DOMAIN p.pkgs /\ read.pkgs[n] = p.pkgs[n]
    BY <2>2, <2>3, PackagesReadSome
  <2> HIDE DEF read
  <2>5. Parts(v) = {<<n, read.pkgs[n]>> : n \in DOMAIN read.pkgs}
    <3>1. DOMAIN v = {"installedPackages"} /\ v.installedPackages = read
      BY <2>1
    <3> HIDE DEF v
    <3> QED
      BY <3>1 DEF Parts
  <2>6. Parts(d) = {<<n, p.pkgs[n]>> : n \in DOMAIN p.pkgs}
    BY <1>1, <1>4 DEF Parts, p
  <2> HIDE DEF v
  <2>7. \A x \in Parts(v) : x \in Parts(d)
    BY <2>4, <2>5, <2>6
  <2> QED
    BY <2>7 DEF v
<1>5. CASE a = "uptime"
  <2>1. DOMAIN v = {"uptime"}
    BY <1>5, Zenon DEF DataFromJson
  <2> HIDE DEF v
  <2>2. Parts(v) = {}
    BY <2>1 DEF Parts
  <2> QED
    BY <2>2 DEF v
<1> QED
  BY <1>1, <1>2, <1>3, <1>4, <1>5 DEF Alternatives

-----------------------------------------------------------------------------
(***************************************************************************)
(* Requests.                                                               *)
(***************************************************************************)
LEMMA RequestToJsonIs ==
  ASSUME NEW r
  PROVE  /\ DOMAIN RequestToJson(r) = {"obj"}
         /\ DOMAIN RequestToJson(r).obj =
              IF r.reqEnum = 1 THEN {"reqEnum", "selector"} ELSE {"reqEnum"}
         /\ RequestToJson(r).obj.reqEnum = Typed("int", r.reqEnum)
         /\ r.reqEnum = 1 => RequestToJson(r).obj.selector = Typed("str", r.selector)
<1>1. Enum.installedPackages = 1
  BY DEF Enum
<1>2. CASE r.reqEnum = 1
  <2> DEFINE f == [reqEnum |-> Typed("int", r.reqEnum), selector |-> Typed("str", r.selector)]
  <2>1. RequestToJson(r) = Obj(f)
    BY <1>1, <1>2 DEF RequestToJson
  <2>2. /\ DOMAIN f = {"reqEnum", "selector"} /\ f.reqEnum = Typed("int", r.reqEnum)
        /\ f.selector = Typed("str", r.selector)
    OBVIOUS
  <2> HIDE DEF f
  <2> QED
    BY <1>2, <2>1, <2>2, ObjIs
<1>3. CASE r.reqEnum # 1
  <2> DEFINE f == [reqEnum |-> Typed("int", r.reqEnum)]
  <2>1. RequestToJson(r) = Obj(f)
    BY <1>1, <1>3 DEF RequestToJson
  <2>2. DOMAIN f = {"reqEnum"} /\ f.reqEnum = Typed("int", r.reqEnum)
    OBVIOUS
  <2> HIDE DEF f
  <2> QED
    BY <1>3, <2>1, <2>2, ObjIs
<1> QED
  BY <1>2, <1>3

\* A request of data.
IsRequest(r) ==
  /\ r = Request(r.reqEnum, r.selector) /\ r.reqEnum \in 1 .. 5
  /\ r.reqEnum # 1 => r.selector = ""

LEMMA RequestToJsonReads ==
  ASSUME NEW r, IsRequest(r)
  PROVE  /\ RequestWorn(RequestToJson(r))
         /\ RequestFromJson(RequestToJson(r)) = [ok |-> TRUE, value |-> r]
<1> DEFINE j == RequestToJson(r)
<1>1. /\ DOMAIN j = {"obj"}
      /\ DOMAIN j.obj = IF r.reqEnum = 1 THEN {"reqEnum", "selector"} ELSE {"reqEnum"}
      /\ j.obj.reqEnum = Typed("int", r.reqEnum)
      /\ r.reqEnum = 1 => j.obj.selector = Typed("str", r.selector)
  BY RequestToJsonIs
<1>2. /\ DOMAIN Typed("int", r.reqEnum) = {"int"} /\ Typed("int", r.reqEnum).int = r.reqEnum
      /\ DOMAIN Typed("str", r.selector) = {"str"} /\ Typed("str", r.selector).str = r.selector
  BY TypedIs
<1>3. r.reqEnum \in Int /\ r.reqEnum % 256 = r.reqEnum
  <2>1. \A e \in 1 .. 5 : e \in Int /\ e % 256 = e
    OBVIOUS
  <2> QED
    BY <2>1 DEF IsRequest
<1> HIDE DEF j
<1>4. RequestWorn(j)
  <2>1. Typed("int", r.reqEnum) \in [{"int"} -> Int]
    BY <1>3 DEF Typed
  <2> QED
    BY <1>1, <1>2, <2>1 DEF RequestWorn
<1>5. Has(j, "reqEnum", "int") /\ j.obj.reqEnum.int % 256 = r.reqEnum
  BY <1>1, <1>2, <1>3 DEF Has
<1>6. Enum.installedPackages = 1
  BY DEF Enum
<1>7. CASE r.reqEnum = 1
  <2>1. Has(j, "selector", "str") /\ j.obj.selector.str = r.selector
    BY <1>1, <1>2, <1>7 DEF Has
  <2> QED
    BY <1>4, <1>5, <1>6, <1>7, <2>1 DEF RequestFromJson, IsRequest, j
<1>8. CASE r.reqEnum # 1
  BY <1>4, <1>5, <1>6, <1>8 DEF RequestFromJson, IsRequest, j
<1> QED
  BY <1>7, <1>8

\* A request that is taken, in a document, with its number narrowed.
NarrowedRequest(j) ==
  [j EXCEPT !["obj"] = [j.obj EXCEPT !["reqEnum"] =
     [j.obj.reqEnum EXCEPT !["int"] = j.obj.reqEnum.int % 256]]]

LEMMA RequestSays ==
  ASSUME NEW j, RequestWorn(j), RequestFromJson(j).ok
  PROVE  DataSays(NarrowedRequest(j), RequestToJson(RequestFromJson(j).value))
<1> DEFINE e == j.obj.reqEnum.int % 256
           v == RequestFromJson(j).value
           n == NarrowedRequest(j)
           w == RequestToJson(v)
<1>1. Has(j, "reqEnum", "int")
  BY DEF RequestFromJson
<1>2. /\ "obj" \in DOMAIN j /\ "reqEnum" \in DOMAIN j.obj /\ "int" \in DOMAIN j.obj.reqEnum
  BY <1>1 DEF Has
<1>3. /\ DOMAIN j = {"obj"} /\ j.obj.reqEnum \in [{"int"} -> Int]
      /\ "selector" \in DOMAIN j.obj =>
           \/ j.obj.selector = Null
           \/ DOMAIN j.obj.selector = {"str"} /\ j.obj.selector = Typed("str", j.obj.selector.str)
  BY <1>2, NullIs DEF RequestWorn
<1>4. v.reqEnum = e
  BY <1>1 DEF RequestFromJson, Request
<1>5. e = 1 => /\ "selector" \in DOMAIN j.obj
               /\ j.obj.selector = Typed("str", v.selector)
  <2> SUFFICES ASSUME e = 1 PROVE "selector" \in DOMAIN j.obj /\ j.obj.selector = Typed("str", v.selector)
    OBVIOUS
  <2>1. Enum.installedPackages = 1
    BY DEF Enum
  <2>2. Has(j, "selector", "str") /\ v.selector = j.obj.selector.str
    BY <1>1, <2>1 DEF RequestFromJson, Request
  <2>3. "selector" \in DOMAIN j.obj /\ "str" \in DOMAIN j.obj.selector
    BY <2>2 DEF Has
  <2> QED
    BY <1>3, <2>2, <2>3, NullIs
<1>6. /\ DOMAIN n = {"obj"} /\ DOMAIN n.obj = DOMAIN j.obj
      /\ n.obj.reqEnum = [j.obj.reqEnum EXCEPT !["int"] = e]
      /\ \A k \in DOMAIN j.obj : k # "reqEnum" => n.obj[k] = j.obj[k]
  BY <1>2, <1>3 DEF NarrowedRequest
<1>7. [j.obj.reqEnum EXCEPT !["int"] = e] = Typed("int", e)
  BY <1>3 DEF Typed
<1>8. /\ DOMAIN w = {"obj"}
      /\ DOMAIN w.obj = IF v.reqEnum = 1 THEN {"reqEnum", "selector"} ELSE {"reqEnum"}
      /\ w.obj.reqEnum = Typed("int", v.reqEnum)
      /\ v.reqEnum = 1 => w.obj.selector = Typed("str", v.selector)
  BY RequestToJsonIs
<1> HIDE DEF e, v, n, w
<1>9. "reqEnum" \in DOMAIN n.obj /\ ListSays(n.obj["reqEnum"], w.obj["reqEnum"])
  <2>1. ListSays(Typed("int", e), Typed("int", e))
    BY FieldSaysIt
  <2> QED
    BY <1>2, <1>4, <1>6, <1>7, <1>8, <2>1
<1>10. v.reqEnum = 1 => "selector" \in DOMAIN n.obj /\ ListSays(n.obj["selector"], w.obj["selector"])
  <2>1. ListSays(Typed("str", v.selector), Typed("str", v.selector))
    BY FieldSaysIt
  <2> QED
    BY <1>4, <1>5, <1>6, <1>8, <2>1
<1>11. \A key \in DOMAIN w.obj : key \in DOMAIN n.obj /\ ListSays(n.obj[key], w.obj[key])
  BY <1>8, <1>9, <1>10
<1>12. DataSays(n, w)
  BY <1>6, <1>8, <1>11, Zenon DEF DataSays, SaysBy
<1> QED
  BY <1>12 DEF n, w, v

\* However a request is damaged, its parts are of the types they may have.
LEMMA DamagedRequest ==
  ASSUME NEW j, RequestWorn(j), NEW j2 \in Damaged(j) \cup Renumbered(j)
  PROVE  RequestWorn(j2)
<1> DEFINE isNumber(x) == x \in {Null} \cup [{"int"} -> Int]
           isSelector(x) == x = Null \/ (DOMAIN x = {"str"} /\ x = Typed("str", x.str))
<1>1. CASE j2 \in Damaged(j)
  <2>1. /\ "obj" \in DOMAIN j /\ DOMAIN j2 = {"obj"} /\ DOMAIN j2.obj \subseteq DOMAIN j.obj
        /\ \A key \in DOMAIN j2.obj : j2.obj[key] \in {Null, j.obj[key]}
    BY <1>1, DamagedIs
  <2>2. /\ "reqEnum" \in DOMAIN j.obj => isNumber(j.obj["reqEnum"])
        /\ "selector" \in DOMAIN j.obj => isSelector(j.obj["selector"])
    BY <2>1, NullIs DEF RequestWorn
  <2>3. isNumber(Null) /\ isSelector(Null)
    OBVIOUS
  <2> HIDE DEF isNumber, isSelector
  <2>4. /\ "reqEnum" \in DOMAIN j2.obj => isNumber(j2.obj["reqEnum"])
        /\ "selector" \in DOMAIN j2.obj => isSelector(j2.obj["selector"])
    BY <2>1, <2>2, <2>3
  <2> QED
    BY <2>1, <2>4, Zenon DEF RequestWorn, isNumber, isSelector
<1>2. CASE j2 \in Renumbered(j)
  <2>1. Has(j, "reqEnum", "int")
    BY <1>2 DEF Renumbered
  <2>2. "obj" \in DOMAIN j /\ "reqEnum" \in DOMAIN j.obj /\ "int" \in DOMAIN j.obj.reqEnum
    BY <2>1 DEF Has
  <2>3. /\ j.obj.reqEnum \in [{"int"} -> Int]
        /\ "selector" \in DOMAIN j.obj => isSelector(j.obj["selector"])
    BY <2>2, NullIs DEF RequestWorn
  <2>4. PICK e \in 0 .. 5 \cup {j.obj.reqEnum.int + 256} :
          j2 = Obj([j.obj EXCEPT !.reqEnum = Typed("int", e)])
    BY <1>2, <2>1 DEF Renumbered
  <2>5. e \in Int
    BY <2>3
  <2>6. Typed("int", e) \in [{"int"} -> Int]
    BY <2>5 DEF Typed
  <2>7. PICK f : j2 = Obj(f) /\ f = [j.obj EXCEPT !["reqEnum"] = Typed("int", e)]
    BY <2>4
  <2>8. /\ DOMAIN f = DOMAIN j.obj /\ f["reqEnum"] = Typed("int", e)
        /\ \A k \in DOMAIN j.obj : k # "reqEnum" => f[k] = j.obj[k]
    BY <2>2, <2>7
  <2>9. DOMAIN j2 = {"obj"} /\ j2.obj = f
    BY <2>7, ObjIs
  <2>10. isNumber(j2.obj["reqEnum"])
    BY <2>6, <2>8, <2>9
  <2> HIDE DEF isSelector, isNumber
  <2>11. "selector" \in DOMAIN j2.obj => isSelector(j2.obj["selector"])
    BY <2>3, <2>8, <2>9
  <2> QED
    BY <2>9, <2>10, <2>11, Zenon DEF RequestWorn, isNumber, isSelector
<1> QED
  BY <1>1, <1>2

-----------------------------------------------------------------------------
(***************************************************************************)
(* Responses.                                                              *)
(***************************************************************************)
LEMMA EnumIs ==
  /\ Alternatives \subseteq DOMAIN Enum
  /\ \A a \in Alternatives : Enum[a] \in 1 .. 5
  /\ \A a \in Alternatives : Enum[a] = 1 <=> a = "installedPackages"
  /\ \A a \in Alternatives, x \in DOMAIN Enum : Enum[x] = Enum[a] => x = a
  /\ \A e \in 1 .. 5 : \E a \in Alternatives : Enum[a] = e
<1>1. /\ Enum["monostate"] = 0 /\ Enum["installedPackages"] = 1 /\ Enum["uname"] = 2
      /\ Enum["loadAverages"] = 3 /\ Enum["logins"] = 4 /\ Enum["uptime"] = 5
      /\ DOMAIN Enum = {"monostate", "installedPackages", "uname", "loadAverages", "logins", "uptime"}
  BY DEF Enum
<1>2. \A e \in 1 .. 5 : e \in {1, 2, 3, 4, 5}
  OBVIOUS
<1> QED
  BY <1>1, <1>2 DEF Alternatives

LEMMA ChosenAlternative ==
  ASSUME NEW e \in 1 .. 5
  PROVE  /\ (CHOOSE x \in DOMAIN Enum : Enum[x] = e) \in Alternatives
         /\ Enum[CHOOSE x \in DOMAIN Enum : Enum[x] = e] = e
<1> DEFINE a == CHOOSE x \in DOMAIN Enum : Enum[x] = e
<1>1. PICK b \in Alternatives : Enum[b] = e
  BY EnumIs
<1>2. a \in DOMAIN Enum /\ Enum[a] = e
  BY <1>1, EnumIs
<1> HIDE DEF a
<1>3. a = b
  BY <1>1, <1>2, EnumIs
<1> QED
  BY <1>1, <1>2, <1>3 DEF a

LEMMA RequestIs ==
  ASSUME NEW e, NEW s
  PROVE  Request(e, s).reqEnum = e /\ Request(e, s).selector = s
  BY DEF Request

LEMMA ResponseOfIs ==
  ASSUME NEW d, IsData(d)
  PROVE  /\ ResponseOf(d) = [req |-> ResponseOf(d).req, data |-> d]
         /\ ResponseOf(d).data = d
         /\ DOMAIN d = {Alternative(d)} /\ Alternative(d) \in Alternatives
         /\ ResponseOf(d).req.reqEnum = Enum[Alternative(d)]
         /\ IsRequest(ResponseOf(d).req)
<1> DEFINE a == Alternative(d)
           r == ResponseOf(d)
<1>1. DOMAIN d = {a} /\ a \in Alternatives
  <2>1. PICK b \in Alternatives : DOMAIN d = {b}
    BY IsDataIs
  <2>2. a = b
    BY <2>1, AlternativeIs
  <2> HIDE DEF a
  <2> QED
    BY <2>1, <2>2
<1> HIDE DEF a
<1> DEFINE s == IF "installedPackages" \in DOMAIN d THEN d.installedPackages.selector ELSE ""
<1>2. /\ r.data = d /\ r = [req |-> r.req, data |-> d]
      /\ r.req = Request(Enum[a], s)
  BY DEF ResponseOf, a
<1>3. "installedPackages" \notin DOMAIN d => s = ""
  OBVIOUS
<1> HIDE DEF r, s
<1>4. r.req.reqEnum = Enum[a] /\ r.req.selector = s
  BY <1>2, RequestIs
<1>5. Enum[a] \in 1 .. 5 /\ (Enum[a] = 1 <=> a = "installedPackages")
  BY <1>1, EnumIs
<1>6. IsRequest(r.req)
  BY <1>1, <1>2, <1>3, <1>4, <1>5 DEF IsRequest
<1> QED
  BY <1>1, <1>2, <1>4, <1>6 DEF a, r

LEMMA ResponseToJsonIs ==
  ASSUME NEW r
  PROVE  /\ DOMAIN ResponseToJson(r) = {"obj"}
         /\ DOMAIN ResponseToJson(r).obj = {"req", "data"}
         /\ ResponseToJson(r).obj.req = RequestToJson(r.req)
         /\ ResponseToJson(r).obj.data = DataToJson(r.data)
<1> DEFINE f == [req |-> RequestToJson(r.req), data |-> DataToJson(r.data)]
<1>1. ResponseToJson(r) = Obj(f)
  BY DEF ResponseToJson
<1>2. /\ DOMAIN f = {"req", "data"} /\ f.req = RequestToJson(r.req)
      /\ f.data = DataToJson(r.data)
  OBVIOUS
<1> HIDE DEF f
<1> QED
  BY <1>1, <1>2, ObjIs

\* DataReadsAll, for any document at once.
LEMMA AnyDataReadsAll ==
  ASSUME NEW d, IsData(d)
  PROVE  \A y \in Alternatives : \A i, o : DataWorn(i, d) /\ DataFromJson(y, i, o).ok =>
           DataFromJson(y, i, o).value = d /\ DataSays(i, DataToJson(d))
  BY DataReadsAll

\* A document that was not damaged is taken, and gives back what was written.
LEMMA ResponseReads ==
  ASSUME NEW d, IsData(d), NEW old
  PROVE  ResponseFromJson(ResponseToJson(ResponseOf(d)), old) =
           [ok |-> TRUE, value |-> ResponseOf(d)]
<1> DEFINE r == ResponseOf(d)
           j == ResponseToJson(r)
           a == Alternative(d)
           q == RequestFromJson(j.obj.req)
           x == CHOOSE y \in DOMAIN Enum : Enum[y] = q.value.reqEnum
           data == DataFromJson(x, j.obj.data, Blank(x)[x])
<1>1. /\ r = [req |-> r.req, data |-> d] /\ r.data = d
      /\ DOMAIN d = {a} /\ a \in Alternatives
      /\ r.req.reqEnum = Enum[a] /\ IsRequest(r.req)
  BY ResponseOfIs
<1>2. /\ DOMAIN j = {"obj"} /\ DOMAIN j.obj = {"req", "data"}
      /\ j.obj.req = RequestToJson(r.req) /\ j.obj.data = DataToJson(d)
  BY <1>1, ResponseToJsonIs
<1>3. q = [ok |-> TRUE, value |-> r.req]
  BY <1>1, <1>2, RequestToJsonReads
<1>4. q.ok /\ q.value = r.req /\ q.value.reqEnum \in 1 .. 5
  <2> HIDE DEF q, r
  <2> QED
    BY <1>1, <1>3 DEF IsRequest
<1>5. x = a
  <2>1. x \in Alternatives /\ Enum[x] = q.value.reqEnum
    BY <1>4, ChosenAlternative
  <2> HIDE DEF x
  <2> QED
    BY <1>1, <1>4, <2>1, EnumIs
<1>6. data.ok /\ DataWorn(j.obj.data, d)
  BY <1>1, <1>2, <1>5, DataToJsonWorn
<1>7. data.value = d
  <2> HIDE DEF q, r, j, x
  <2> DEFINE i == j.obj.data
             o == Blank(x)[x]
  <2>1. DataWorn(i, d) /\ x \in Alternatives /\ DataFromJson(x, i, o).ok
    BY <1>1, <1>5, <1>6
  <2> HIDE DEF i, o
  <2>2. DataFromJson(x, i, o).value = d
    BY <2>1, AnyDataReadsAll
  <2> QED
    BY <2>2 DEF i, o
<1>8. At(j, "req") /\ At(j, "data")
  BY <1>2 DEF At
<1>9. ResponseFromJson(j, old) =
        IF /\ At(j, "req") /\ q.ok /\ q.value.reqEnum \in 1 .. 5
           /\ At(j, "data") /\ data.ok
        THEN [ok |-> TRUE, value |-> [req |-> q.value, data |-> data.value]]
        ELSE [ok |-> FALSE, value |-> old]
  BY DEF ResponseFromJson
<1> HIDE DEF q, data, x, j, r
<1>10. ResponseFromJson(j, old) = [ok |-> TRUE, value |-> [req |-> r.req, data |-> d]]
  BY <1>4, <1>6, <1>7, <1>8, <1>9
<1> QED
  BY <1>1, <1>10 DEF j, r

\* However it was damaged: what is taken says all of the result, and what is
\* not taken changes nothing.
LEMMA ResponseTaken ==
  ASSUME NEW d, IsData(d), NEW j, DOMAIN j = {"obj"},
         At(j, "req") => RequestWorn(j.obj.req),
         At(j, "data") => DataWorn(j.obj.data, d), NEW old
  PROVE  LET out == ResponseFromJson(j, old)
         IN /\ out.ok => Says(Narrowed(j), ResponseToJson(out.value))
            /\ ~out.ok => out.value = old
<1> DEFINE out == ResponseFromJson(j, old)
           q == RequestFromJson(j.obj.req)
           x == CHOOSE y \in DOMAIN Enum : Enum[y] = q.value.reqEnum
           data == DataFromJson(x, j.obj.data, Blank(x)[x])
           taken == /\ At(j, "req") /\ q.ok /\ q.value.reqEnum \in 1 .. 5
                    /\ At(j, "data") /\ data.ok
<1>1. out = IF taken
            THEN [ok |-> TRUE, value |-> [req |-> q.value, data |-> data.value]]
            ELSE [ok |-> FALSE, value |-> old]
  BY DEF ResponseFromJson
<1>2. CASE ~taken
  <2>1. out = [ok |-> FALSE, value |-> old]
    BY <1>1, <1>2
  <2> HIDE DEF out
  <2> QED
    BY <2>1 DEF out
<1>3. CASE taken
  <2>1. x \in Alternatives
    BY <1>3, ChosenAlternative
  <2>2. data.value = d /\ DataSays(j.obj.data, DataToJson(d))
    <3> HIDE DEF q, x, out
    <3> DEFINE i == j.obj.data
               o == Blank(x)[x]
    <3>1. DataWorn(i, d) /\ DataFromJson(x, i, o).ok
      BY <1>3
    <3> HIDE DEF i, o
    <3>2. DataFromJson(x, i, o).value = d /\ DataSays(i, DataToJson(d))
      BY <2>1, <3>1, AnyDataReadsAll
    <3> QED
      BY <3>2 DEF i, o
  <2> DEFINE v == [req |-> q.value, data |-> d]
             n == Narrowed(j)
             w == ResponseToJson(v)
  <2>3. out = [ok |-> TRUE, value |-> v]
    <3> HIDE DEF out, q, x, taken
    <3> QED
      BY <1>1, <1>3, <2>2
  <2>4. DataSays(NarrowedRequest(j.obj.req), RequestToJson(q.value))
    BY <1>3, RequestSays
  <2>5. "req" \in DOMAIN j.obj /\ "data" \in DOMAIN j.obj
    BY <1>3 DEF At
  <2>6. Narrowed(j) = Obj([j.obj EXCEPT !["req"] = NarrowedRequest(j.obj.req)])
    BY DEF Narrowed, NarrowedRequest
  <2>7. PICK f : n = Obj(f) /\ f = [j.obj EXCEPT !["req"] = NarrowedRequest(j.obj.req)]
    BY <2>6
  <2>8. /\ DOMAIN f = DOMAIN j.obj /\ f["req"] = NarrowedRequest(j.obj.req)
        /\ f["data"] = j.obj["data"]
    BY <2>5, <2>7
  <2>9. DOMAIN n = {"obj"} /\ n.obj = f
    BY <2>7, ObjIs
  <2>10. /\ DOMAIN w = {"obj"} /\ DOMAIN w.obj = {"req", "data"}
         /\ w.obj["req"] = RequestToJson(q.value) /\ w.obj["data"] = DataToJson(d)
    BY ResponseToJsonIs
  <2> HIDE DEF n, w, q
  <2>11. \A key \in DOMAIN w.obj : key \in DOMAIN n.obj /\ DataSays(n.obj[key], w.obj[key])
    BY <2>2, <2>4, <2>5, <2>8, <2>9, <2>10
  <2>12. Says(n, w)
    BY <2>9, <2>10, <2>11, Zenon DEF Says, SaysBy
  <2> HIDE DEF out, v
  <2> QED
    BY <2>3, <2>12 DEF n, w, out
<1> QED
  BY <1>2, <1>3

\* A whole stream gives back what was written, whatever it is read into.
LEMMA FromWholeBytes ==
  ASSUME NEW d, IsData(d), NEW old, NEW out \in FromBytes(Bytes(ResponseOf(d)), old)
  PROVE  out = [ok |-> TRUE, value |-> ResponseOf(d)]
<1> DEFINE r == ResponseOf(d)
           s == Bytes(r)
           m == RequestLength(r)
           q == RequestFromBytes(s)
           any == {r.req.reqEnum, r.req.selector, Alternative(r.data), r.data}
<1>1. r = [req |-> r.req, data |-> d] /\ r.data = d /\ IsRequest(r.req)
  BY ResponseOfIs
<1>2. /\ s \in Seq(any) /\ Len(s) = m + 2 /\ s[1] = r.req.reqEnum /\ s[m + 2] = r.data
      /\ m = 2 => s[2] = r.req.selector
  BY FieldsOf
<1>3. m \in 1 .. 2 /\ (m = 2 <=> r.req.reqEnum = Enum.installedPackages)
  BY DEF RequestLength
<1> HIDE DEF s, m, r, any
<1>4. s # <<>>
  BY <1>2, <1>3
<1>5. /\ q.left = SubSeq(s, m + 1, Len(s))
      /\ q.value = IF m = 2 THEN Request(s[1], s[2]) ELSE Request(s[1], "")
  <2>1. (s # <<>> /\ s[1] = Enum.installedPackages) <=> m = 2
    BY <1>2, <1>3, <1>4
  <2>2. Len(s) >= m
    BY <1>2, <1>3
  <2>3. CASE m = 2
    <3>1. s # <<>> /\ s[1] = Enum.installedPackages /\ Len(s) >= 2
      BY <2>1, <2>2, <2>3
    <3>2. q = [ok |-> Len(s) >= 2, value |-> Request(s[1], s[2]), left |-> SubSeq(s, 2 + 1, Len(s))]
      BY <3>1 DEF RequestFromBytes
    <3> HIDE DEF q
    <3> QED
      BY <2>3, <3>2
  <2>4. CASE m = 1
    BY <1>4, <2>1, <2>2, <2>4 DEF RequestFromBytes
  <2>5. m = 1 \/ m = 2
    BY <1>3
  <2> QED
    BY <2>3, <2>4, <2>5, Zenon
<1>6. Len(q.left) = 2 /\ q.left[2] = d
  <2> HIDE DEF q
  <2>1. Len(SubSeq(s, m + 1, Len(s))) = 2 /\ SubSeq(s, m + 1, Len(s))[2] = s[m + 2]
    BY <1>2, <1>3
  <2> QED
    BY <1>1, <1>2, <1>5, <2>1
<1>7. q.value = r.req
  <2>1. Enum.installedPackages = 1
    BY DEF Enum
  <2>2. r.req = Request(r.req.reqEnum, r.req.selector) /\ (r.req.reqEnum # 1 => r.req.selector = "")
    BY <1>1 DEF IsRequest
  <2> QED
    BY <1>2, <1>3, <1>5, <2>1, <2>2
<1>8. out = [ok |-> TRUE, value |-> [req |-> q.value, data |-> q.left[2]]]
  <2>1. out \in FromBytes(s, old)
    BY DEF s, r
  <2> QED
    BY <1>6, <2>1 DEF FromBytes
<1> HIDE DEF q
<1>9. out = [ok |-> TRUE, value |-> r]
  BY <1>1, <1>6, <1>7, <1>8
<1> QED
  BY <1>9 DEF r

-----------------------------------------------------------------------------
(***************************************************************************)
(* The invariant of documents, made, written, damaged and read.            *)
(***************************************************************************)
LEMMA WithIsMap ==
  ASSUME NEW m, IsMap(m), NEW name, NEW version
  PROVE  IsMap(With(m, name, version))
<1> DEFINE w == With(m, name, version)
<1>1. DOMAIN w = DOMAIN m \cup {name} /\ w = [n \in DOMAIN m \cup {name} |-> w[n]]
  BY DEF With
<1>2. IsFiniteSet(DOMAIN m \cup {name})
  BY FS_AddElement DEF IsMap
<1> HIDE DEF w
<1>3. IsMap(w)
  BY <1>1, <1>2 DEF IsMap
<1> QED
  BY <1>3 DEF w

LEMMA EmptyIsMap == IsMap(<<>>)
<1>1. DOMAIN <<>> = {}
  OBVIOUS
<1>2. <<>> = [n \in DOMAIN <<>> |-> <<>>[n]]
  BY <1>1
<1> QED
  BY <1>1, <1>2, FS_EmptySet DEF IsMap

LEMMA InitDInv == Init => DInv
<1> SUFFICES ASSUME Init PROVE DInv
  OBVIOUS
<1>1. /\ form = "none" /\ rc = "none" /\ damages = 0 /\ place # "over" /\ pkgs = <<>>
  BY DEF Init, InitHost
<1>2. MadeOfData
  BY <1>1, EmptyIsMap, SMT DEF MadeOfData
<1> QED
  BY <1>1, <1>2 DEF DInv, DocWorn, RoundTrip, TakesOnlyWhole, NoLeftovers

\* Whoever is asked whatever, what comes of it is data.
LEMMA FoundIsData ==
  ASSUME IsMap(pkgs), NEW data \in Found
  PROVE  IsData(data)
<1>1. CASE asked.form = "one"
  <2>1. data = [installedPackages |-> [selector |-> asked.exprs[1].text, pkgs |-> pkgs]]
    BY <1>1 DEF Found
  <2> QED
    BY <2>1 DEF IsData
<1>2. CASE asked.form = "prettyName"
  <2> DEFINE any == STRING \cup {PrettyName}
             last == <<PrettyName>>
             row == SystemNames \o last
  <2>1. data = [uname |-> row]
    BY <1>2 DEF Found
  <2>2. SystemNames \in Seq(any) /\ Len(SystemNames) = 5
    BY FoundAssumption
  <2>3. last \in Seq(any) /\ Len(last) = 1
    OBVIOUS
  <2> HIDE DEF any, last
  <2>4. row \in Seq(any) /\ Len(row) = 6
    <3>1. SystemNames \o last \in Seq(any) /\ Len(SystemNames \o last) = Len(SystemNames) + Len(last)
      BY <2>2, <2>3, ConcatProperties
    <3> QED
      BY <2>2, <2>3, <3>1
  <2> HIDE DEF row
  <2>5. DOMAIN Fields.uname = 1 .. 6
    BY DEF Fields
  <2>6. row = AsRow(Fields.uname, row)
    BY <2>4, <2>5 DEF AsRow
  <2>7. data.uname = row /\ "uname" \in DOMAIN data
    BY <2>1
  <2> QED
    BY <2>1, <2>6, <2>7 DEF IsData
<1>3. CASE asked.form = "uptime"
  <2>1. data = [uptime |-> uptime]
    BY <1>3 DEF Found
  <2> QED
    BY <2>1 DEF IsData
<1>4. CASE asked.form = "other"
  <2>1. data \in OtherData
    BY <1>4 DEF Found
  <2>2. CASE data \in [loadAverages : [1 .. 3 -> Int]]
    <3>1. DOMAIN Fields.loadAverages = 1 .. 3
      BY DEF Fields
    <3>2. data.loadAverages = AsRow(Fields.loadAverages, data.loadAverages)
      BY <2>2, <3>1 DEF AsRow
    <3>3. data = [loadAverages |-> data.loadAverages] /\ "loadAverages" \in DOMAIN data
      BY <2>2
    <3> QED
      BY <3>2, <3>3 DEF IsData
  <2>3. CASE data \in [logins : Seq(STRING \X STRING \X STRING \X Int \X Int)]
    <3> DEFINE T == STRING \X STRING \X STRING \X Int \X Int
               rows == data.logins
    <3>1. rows \in Seq(T) /\ data = [logins |-> rows] /\ "logins" \in DOMAIN data
      BY <2>3
    <3>2. DOMAIN Fields.login = 1 .. 5
      BY DEF Fields
    <3>3. \A t \in T : t = AsRow(Fields.login, t)
      BY <3>2 DEF AsRow
    <3> HIDE DEF T, rows
    <3>4. Len(rows) \in Nat /\ rows = [k \in 1 .. Len(rows) |-> rows[k]]
      BY <3>1
    <3>5. \A k \in 1 .. Len(rows) : rows[k] = AsRow(Fields.login, rows[k])
      BY <3>1, <3>3
    <3>6. rows = [k \in 1 .. Len(rows) |-> AsRow(Fields.login, rows[k])]
      BY <3>4, <3>5
    <3> QED
      BY <3>1, <3>4, <3>6 DEF IsData, rows
  <2> QED
    BY <2>1, <2>2, <2>3, FoundAssumption
<1>5. CASE asked.form \notin {"one", "prettyName", "uptime", "other"}
  BY <1>5 DEF Found
<1> QED
  BY <1>1, <1>2, <1>3, <1>4, <1>5

LEMMA FindOutIsMap ==
  ASSUME HInv, FindOut, IsMap(pkgs)
  PROVE  IsMap(pkgs')
<1>1. CASE ReadPackage \/ ReadReceipt
  <2>1. Dealt
    BY <1>1, LineDealt
  <2>2. pkgs' = pkgs \/ \E name, version : pkgs' = With(pkgs, name, version)
    BY <2>1 DEF Dealt
  <2> QED
    BY <2>2, WithIsMap
<1>2. CASE ~ReadPackage /\ ~ReadReceipt
  BY <1>2, OthersLeavePkgs
<1> QED
  BY <1>1, <1>2

\* Nothing is read before the Response is made.
NotWritten == form = "none" /\ rc = "none"

LEMMA NotWrittenDInv ==
  ASSUME NotWritten, MadeOfData
  PROVE  DInv
  BY DEF NotWritten, DInv, DocWorn, RoundTrip, TakesOnlyWhole, NoLeftovers

LEMMA FindOutMadeOfData ==
  ASSUME AInv, DInv, FindOut /\ UNCHANGED formVars
  PROVE  MadeOfData' /\ NotWritten'
<1>1. place \in {"open", "read"}
  BY Zenon DEF FindOut, Open, OpenFails, NoExpression, ReadPackage, StopAtBad,
        ReadReceipt, AtPackage, ReadOsRelease, ReadSwVers, Close, GetUptime
<1>2. HInv
  BY <1>1 DEF AInv
<1>3. place' # "over"
  BY <1>1, <1>2, FindOutHInv DEF HInv, InPlace
<1>4. form = "none" /\ rc = "none" /\ form' = form /\ rc' = rc
      /\ damages \in Nat /\ damages' = damages
  BY <1>1 DEF AInv, Written, DInv, MadeOfData, formVars
<1>5. IsMap(pkgs')
  BY <1>1, <1>2, FindOutIsMap DEF DInv, MadeOfData
<1> QED
  BY <1>3, <1>4, <1>5 DEF MadeOfData, NotWritten

LEMMA RespondMadeOfData ==
  ASSUME AInv, DInv, Respond
  PROVE  MadeOfData' /\ NotWritten'
<1>1. /\ place = "done" /\ place' = "over" /\ UNCHANGED <<form, rc, damages>>
      /\ \E data \in Found : made' = ResponseOf(data)
  BY DEF Respond
<1>2. form = "none" /\ rc = "none" /\ damages \in Nat
  BY <1>1 DEF AInv, Written, DInv, MadeOfData
<1>3. PICK data \in Found : made' = ResponseOf(data)
  BY <1>1
<1>4. IsMap(pkgs)
  BY <1>1 DEF DInv, MadeOfData
<1>5. IsData(data)
  BY <1>4, FoundIsData
<1>6. made'.data = data
  BY <1>3, <1>5, ResponseOfIs
<1> QED
  BY <1>1, <1>2, <1>3, <1>5, <1>6 DEF MadeOfData, NotWritten

\* After the Response is made, nothing changes what it was made of.
LEMMA MadeOfDataStays ==
  ASSUME MadeOfData, place = "over", UNCHANGED <<hostVars, made>>, form' # "none",
         damages' \in {damages, damages + 1}
  PROVE  MadeOfData'
  BY DEF MadeOfData, hostVars

\* A Response that is written, and not read yet.
Unread == rc = "none"

LEMMA UnreadDInv ==
  ASSUME Unread, MadeOfData, DocWorn
  PROVE  DInv
<1>1. RoundTrip /\ NoLeftovers
  BY DEF Unread, RoundTrip, NoLeftovers
<1>2. TakesOnlyWhole
  BY DEF Unread, TakesOnlyWhole
<1> QED
  BY <1>1, <1>2 DEF DInv

LEMMA WriteDInv ==
  ASSUME AInv, DInv, WriteJson \/ WriteDataJson \/ WriteBytes
  PROVE  MadeOfData' /\ DocWorn' /\ Unread'
<1>1. /\ place = "over" /\ form = "none" /\ form' \in {"json", "data", "bytes"}
      /\ UNCHANGED <<hostVars, made, rc, damages>>
      /\ form' = "json" => doc' = ResponseToJson(made)
      /\ form' = "data" => doc' = DataToJson(made.data)
      /\ form' = "bytes" => doc' = Bytes(made)
  BY DEF WriteJson, WriteDataJson, WriteBytes
<1>2. rc = "none" /\ IsData(made.data) /\ made = ResponseOf(made.data) /\ MadeOfData
  BY <1>1 DEF DInv, MadeOfData
<1>3. MadeOfData'
  BY <1>1, <1>2, MadeOfDataStays
<1>4. PICK d : d = made.data
  OBVIOUS
<1>5. IsData(d) /\ made = ResponseOf(d)
  BY <1>2, <1>4
<1>6. DataWorn(DataToJson(d), d)
  <2>1. PICK a : a \in DOMAIN d
    BY <1>5, IsDataIs
  <2> QED
    BY <1>5, <2>1, DataToJsonWorn
<1>7. RequestWorn(RequestToJson(made.req))
  <2>1. IsRequest(ResponseOf(d).req)
    BY <1>5, ResponseOfIs
  <2> QED
    BY <1>5, <2>1, RequestToJsonReads
<1>8. /\ DOMAIN ResponseToJson(made) = {"obj"}
      /\ ResponseToJson(made).obj.req = RequestToJson(made.req)
      /\ ResponseToJson(made).obj.data = DataToJson(d)
  BY <1>4, ResponseToJsonIs
<1>9. DocWorn'
  BY <1>1, <1>4, <1>6, <1>7, <1>8 DEF DocWorn
<1> QED
  BY <1>1, <1>2, <1>3, <1>9 DEF Unread

\* A Response's document that is damaged once more.
ResponseWorn(j, d) ==
  /\ DOMAIN j = {"obj"}
  /\ At(j, "req") => RequestWorn(j.obj.req)
  /\ At(j, "data") => DataWorn(j.obj.data, d)

LEMMA NullIsWorn ==
  ASSUME NEW d
  PROVE  RequestWorn(Null) /\ DataWorn(Null, d)
  BY DEF RequestWorn, DataWorn

LEMMA DamagedResponseIs ==
  ASSUME NEW d, NEW j, ResponseWorn(j, d), NEW j2 \in DamagedResponse(j)
  PROVE  ResponseWorn(j2, d)
<1>1. "obj" \in DOMAIN j
  BY DEF ResponseWorn
<1>2. /\ "req" \in DOMAIN j.obj => RequestWorn(j.obj["req"])
      /\ "data" \in DOMAIN j.obj => DataWorn(j.obj["data"], d)
  BY <1>1 DEF ResponseWorn, At
<1>3. SUFFICES /\ DOMAIN j2 = {"obj"}
               /\ "req" \in DOMAIN j2.obj => RequestWorn(j2.obj["req"])
               /\ "data" \in DOMAIN j2.obj => DataWorn(j2.obj["data"], d)
  BY DEF ResponseWorn, At
<1>4. CASE j2 \in Damaged(j)
  <2>1. /\ DOMAIN j2 = {"obj"} /\ DOMAIN j2.obj \subseteq DOMAIN j.obj
        /\ \A key \in DOMAIN j2.obj : j2.obj[key] \in {Null, j.obj[key]}
    BY <1>4, DamagedIs
  <2> QED
    BY <1>2, <2>1, NullIsWorn
<1>5. CASE j2 \in Within(j, "req", Damaged(j.obj.req) \cup Renumbered(j.obj.req))
  <2>1. /\ "req" \in DOMAIN j.obj
        /\ DOMAIN j2 = {"obj"} /\ DOMAIN j2.obj = DOMAIN j.obj
        /\ j2.obj["req"] \in Damaged(j.obj.req) \cup Renumbered(j.obj.req)
        /\ \A k \in DOMAIN j.obj : k # "req" => j2.obj[k] = j.obj[k]
    BY <1>5, WithinIs
  <2>2. RequestWorn(j2.obj["req"])
    BY <1>2, <2>1, DamagedRequest
  <2> QED
    BY <1>2, <2>1, <2>2
<1>6. CASE j2 \in Within(j, "data", DamagedData(j.obj.data))
  <2>1. /\ "data" \in DOMAIN j.obj
        /\ DOMAIN j2 = {"obj"} /\ DOMAIN j2.obj = DOMAIN j.obj
        /\ j2.obj["data"] \in DamagedData(j.obj.data)
        /\ \A k \in DOMAIN j.obj : k # "data" => j2.obj[k] = j.obj[k]
    BY <1>6, WithinIs
  <2>2. DataWorn(j2.obj["data"], d)
    BY <1>2, <2>1, DamagedDataIs
  <2> QED
    BY <1>2, <2>1, <2>2
<1> QED
  BY <1>4, <1>5, <1>6 DEF DamagedResponse

LEMMA DamageDocWorn ==
  ASSUME AInv, DInv, Damage
  PROVE  MadeOfData' /\ DocWorn' /\ Unread'
<1>1. /\ form # "none" /\ rc = "none" /\ UNCHANGED <<hostVars, made, form, rc>>
      /\ form = "json" => doc' \in DamagedResponse(doc)
      /\ form = "data" => doc' \in DamagedData(doc)
      /\ damages' = damages + 1
  BY DEF Damage
<1>2. place = "over" /\ MadeOfData /\ DocWorn /\ damages \in Nat
  BY <1>1 DEF AInv, Written, DInv, MadeOfData
<1>3. MadeOfData'
  BY <1>1, <1>2, MadeOfDataStays
<1>4. PICK d : d = made.data
  OBVIOUS
<1>5. form = "json" => ResponseWorn(doc', d)
  <2>1. form = "json" => ResponseWorn(doc, d)
    BY <1>2, <1>4 DEF DocWorn, ResponseWorn
  <2> QED
    BY <1>1, <2>1, DamagedResponseIs
<1>6. form = "data" => DataWorn(doc', d)
  <2>1. form = "data" => DataWorn(doc, d)
    BY <1>2, <1>4 DEF DocWorn
  <2> QED
    BY <1>1, <2>1, DamagedDataIs
<1>7. damages' # 0
  BY <1>1, <1>2
<1>8. DocWorn'
  BY <1>1, <1>4, <1>5, <1>6, <1>7 DEF DocWorn, ResponseWorn
<1> QED
  BY <1>1, <1>3, <1>8 DEF Unread

\* A read changes neither the document nor what it was made of.
LEMMA ReadStays ==
  ASSUME DInv, Written, form # "none", UNCHANGED <<hostVars, made, form, doc, damages>>
  PROVE  MadeOfData' /\ DocWorn'
<1>1. MadeOfData /\ DocWorn /\ place = "over"
  BY DEF DInv, Written
<1>2. MadeOfData'
  BY <1>1, MadeOfDataStays
<1>3. DocWorn'
  BY <1>1 DEF DocWorn
<1> QED
  BY <1>2, <1>3

LEMMA ReadJsonDInv ==
  ASSUME AInv, DInv, ReadJson
  PROVE  DInv'
<1>1. PICK old \in Used : ReadInto(old, ResponseFromJson(doc, old))
  BY DEF ReadJson
<1> DEFINE out == ResponseFromJson(doc, old)
<1>2. /\ form = "json" /\ before' = old /\ got' = out.value
      /\ rc' = IF out.ok THEN "true" ELSE "false"
      /\ UNCHANGED <<hostVars, made, form, doc, damages>>
  BY <1>1 DEF ReadJson, ReadInto
<1>3. place = "over" /\ IsData(made.data) /\ made = ResponseOf(made.data) /\ DocWorn
  BY <1>2 DEF AInv, Written, DInv, MadeOfData
<1>4. MadeOfData' /\ DocWorn'
  BY <1>2, ReadStays DEF AInv
<1>5. PICK d : d = made.data
  OBVIOUS
<1>6. IsData(d) /\ made = ResponseOf(d)
  BY <1>3, <1>5
<1>7. RoundTrip'
  <2>1. damages = 0 => out = [ok |-> TRUE, value |-> made]
    <3> SUFFICES ASSUME damages = 0 PROVE out = [ok |-> TRUE, value |-> made]
      OBVIOUS
    <3>1. doc = ResponseToJson(ResponseOf(d))
      BY <1>2, <1>3, <1>6 DEF DocWorn
    <3>2. ResponseFromJson(ResponseToJson(ResponseOf(d)), old) = [ok |-> TRUE, value |-> ResponseOf(d)]
      BY <1>6, ResponseReads
    <3> QED
      BY <1>6, <3>1, <3>2
  <2> HIDE DEF out
  <2>2. damages' = 0 => rc' = "true" /\ got' = made'
    BY <1>2, <2>1
  <2> QED
    BY <1>2, <2>2 DEF RoundTrip
<1>8. TakesOnlyWhole'
  <2>1. /\ DOMAIN doc = {"obj"}
        /\ At(doc, "req") => RequestWorn(doc.obj.req)
        /\ At(doc, "data") => DataWorn(doc.obj.data, d)
    BY <1>2, <1>3, <1>5 DEF DocWorn
  <2>2. PICK j : j = doc
    OBVIOUS
  <2>3. /\ ResponseFromJson(j, old).ok =>
             Says(Narrowed(j), ResponseToJson(ResponseFromJson(j, old).value))
        /\ ~ResponseFromJson(j, old).ok => ResponseFromJson(j, old).value = old
    BY <1>6, <2>1, <2>2, ResponseTaken
  <2>4. /\ out.ok => Says(Narrowed(doc), ResponseToJson(out.value))
        /\ ~out.ok => out.value = old
    BY <2>2, <2>3
  <2> HIDE DEF out
  <2>5. PICK o : o = out
    OBVIOUS
  <2>6. /\ rc' = "true" => Says(Narrowed(j), ResponseToJson(o.value))
        /\ rc' = "false" => o.value = old
    BY <1>2, <2>2, <2>4, <2>5
  <2>7. doc' = j /\ got' = o.value /\ before' = old
    BY <1>2, <2>2, <2>5
  <2> QED
    BY <2>6, <2>7 DEF TakesOnlyWhole
<1>9. NoLeftovers'
  BY <1>2 DEF NoLeftovers
<1> QED
  BY <1>4, <1>7, <1>8, <1>9 DEF DInv

LEMMA ReadDataJsonDInv ==
  ASSUME AInv, DInv, ReadDataJson
  PROVE  DInv'
<1> DEFINE a == Alternative(made.data)
<1>1. PICK old \in Used : /\ DOMAIN old.data = {a}
                          /\ ReadInto(old, [ok |-> DataFromJson(a, doc, old.data[a]).ok,
                               value |-> [old EXCEPT !.data = DataFromJson(a, doc, old.data[a]).value]])
  BY DEF ReadDataJson
<1> DEFINE out == DataFromJson(a, doc, old.data[a])
<1>2. /\ form = "data" /\ got' = [old EXCEPT !.data = out.value]
      /\ rc' = IF out.ok THEN "true" ELSE "false"
      /\ UNCHANGED <<hostVars, made, form, doc, damages>>
  BY <1>1 DEF ReadDataJson, ReadInto
<1>3. place = "over" /\ IsData(made.data) /\ DocWorn
  BY <1>2 DEF AInv, Written, DInv, MadeOfData
<1>4. MadeOfData' /\ DocWorn'
  BY <1>2, ReadStays DEF AInv
<1>5. PICK d : d = made.data
  OBVIOUS
<1>6. IsData(d) /\ a = Alternative(d) /\ DOMAIN d = {a} /\ a \in Alternatives
  BY <1>3, <1>5, ResponseOfIs
<1>7. DataWorn(doc, d) /\ (damages = 0 => doc = DataToJson(d))
  BY <1>2, <1>3, <1>5 DEF DocWorn
<1> HIDE DEF a
<1>8. got'.data = out.value
  <2>1. old = [req |-> old.req, data |-> old.data]
    BY UsedAssumption
  <2> HIDE DEF out
  <2> QED
    BY <1>2, <2>1
<1>9. RoundTrip'
  <2>1. damages = 0 => out.ok /\ out.value = d
    <3> SUFFICES ASSUME damages = 0 PROVE out.ok /\ out.value = d
      OBVIOUS
    <3>1. doc = DataToJson(d)
      BY <1>7
    <3>2. DataFromJson(a, DataToJson(d), old.data[a]).ok
      BY <1>6, DataToJsonWorn
    <3>3. out.ok
      BY <3>1, <3>2
    <3> QED
      BY <1>6, <1>7, <3>3, AnyDataReadsAll
  <2> HIDE DEF out
  <2>2. damages' = 0 => rc' = "true" /\ got'.data = made'.data
    BY <1>2, <1>5, <1>8, <2>1
  <2> QED
    BY <1>2, <2>2 DEF RoundTrip
<1>10. NoLeftovers'
  <2>1. Parts(out.value) \subseteq Parts(d) \cup Parts(Blank(a))
    BY <1>6, <1>7, DataLeavesOld
  <2>2. PICK v : v = out.value
    OBVIOUS
  <2>3. got'.data = v /\ made'.data = d
    BY <1>2, <1>5, <1>8, <2>2
  <2>4. Parts(v) \subseteq Parts(d) \cup Parts(Blank(Alternative(d)))
    BY <1>6, <2>1, <2>2
  <2> QED
    BY <2>3, <2>4 DEF NoLeftovers
<1>11. TakesOnlyWhole'
  BY <1>2 DEF TakesOnlyWhole
<1> QED
  BY <1>4, <1>9, <1>10, <1>11 DEF DInv

LEMMA ReadBytesDInv ==
  ASSUME AInv, DInv, ReadBytes
  PROVE  DInv'
<1>1. PICK old \in Used : \E out \in FromBytes(doc, old) : ReadInto(old, out)
  BY DEF ReadBytes
<1>2. PICK out \in FromBytes(doc, old) : ReadInto(old, out)
  BY <1>1
<1>3. /\ form = "bytes" /\ got' = out.value
      /\ rc' = IF out.ok THEN "true" ELSE "false"
      /\ UNCHANGED <<hostVars, made, form, doc, damages>>
  BY <1>2 DEF ReadBytes, ReadInto
<1>4. place = "over" /\ IsData(made.data) /\ made = ResponseOf(made.data) /\ DocWorn
  BY <1>3 DEF AInv, Written, DInv, MadeOfData
<1>5. MadeOfData' /\ DocWorn'
  BY <1>3, ReadStays DEF AInv
<1>6. damages = 0 => out = [ok |-> TRUE, value |-> made]
  <2> SUFFICES ASSUME damages = 0 PROVE out = [ok |-> TRUE, value |-> made]
    OBVIOUS
  <2>1. PICK d : d = made.data
    OBVIOUS
  <2>2. IsData(d) /\ made = ResponseOf(d)
    BY <1>4, <2>1
  <2>3. doc = Bytes(ResponseOf(d))
    BY <1>3, <1>4, <2>2 DEF DocWorn
  <2>4. out \in FromBytes(Bytes(ResponseOf(d)), old)
    BY <2>3
  <2> QED
    BY <2>2, <2>4, FromWholeBytes
<1>7. RoundTrip'
  <2>1. damages' = 0 => rc' = "true" /\ got' = made'
    BY <1>3, <1>6
  <2> QED
    BY <1>3, <2>1 DEF RoundTrip
<1>8. TakesOnlyWhole' /\ NoLeftovers'
  BY <1>3 DEF TakesOnlyWhole, NoLeftovers
<1> QED
  BY <1>5, <1>7, <1>8 DEF DInv

LEMMA NextDInv ==
  ASSUME AInv, DInv, [Next]_vars
  PROVE  DInv'
<1>1. CASE FindOut /\ UNCHANGED formVars
  BY <1>1, FindOutMadeOfData, NotWrittenDInv, PTL
<1>2. CASE Respond
  BY <1>2, RespondMadeOfData, NotWrittenDInv, PTL
<1>3. CASE WriteJson \/ WriteDataJson \/ WriteBytes
  BY <1>3, WriteDInv, UnreadDInv, PTL
<1>4. CASE Damage
  BY <1>4, DamageDocWorn, UnreadDInv, PTL
<1>5. CASE ReadJson
  BY <1>5, ReadJsonDInv
<1>6. CASE ReadDataJson
  BY <1>6, ReadDataJsonDInv
<1>7. CASE ReadBytes
  BY <1>7, ReadBytesDInv
<1>8. CASE UNCHANGED vars
  <2>1. UNCHANGED <<place, pkgs, made, form, doc, damages, before, got, rc>>
    BY <1>8 DEF vars, hostVars, answer, formVars
  <2>2. MadeOfData' /\ DocWorn'
    BY <2>1 DEF DInv, MadeOfData, DocWorn
  <2>3. RoundTrip' /\ TakesOnlyWhole' /\ NoLeftovers'
    BY <2>1 DEF DInv, RoundTrip, TakesOnlyWhole, NoLeftovers
  <2> QED
    BY <2>2, <2>3 DEF DInv
<1> QED
  BY <1>1, <1>2, <1>3, <1>4, <1>5, <1>6, <1>7, <1>8 DEF Next, Terminated

-----------------------------------------------------------------------------
(***************************************************************************)
(* Results.                                                                *)
(***************************************************************************)
\* AInv is inductive: whoever is asked whatever.
THEOREM AnswersInvariant == Spec => []AInv
<1> QED
  BY InitAInv, NextAInv, PTL DEF Spec

\* Whatever hosts there are, and whatever is asked of them, the packages that
\* become a Response are the installed ones that the question's good
\* expressions match, unless a command for them failed.
THEOREM AnswersSelectInstalled == Spec => []SelectsInstalled
  BY AnswersInvariant, AInvSays, PTL

\* Whatever os-release or sw_vers say, in whatever order and however often, the
\* pretty name is the first that os-release says, or the last name and version of
\* sw_vers with the name of that version's release; and it is empty just if there
\* is no such line, the code knows no such release, or nothing could be read.
THEOREM PrettyNamesAreWhole == Spec => []PrettyNameIsWhole
  BY AnswersInvariant, AInvSays, PTL

\* Whatever the clocks say, an uptime is at most what they say, and the text that
\* clients print for it adds up to it.
THEOREM UptimesReadAsSeconds == Spec => []ReadsAsItsSeconds
  BY AnswersInvariant, AInvSays, PTL

\* Whatever was written, however often it was damaged, and whatever it is read
\* into, ToJson can be called of the result; but for a stream that ended early.
THEOREM ReadsAreSafe == Spec => []ToJsonIsSafe
  BY AnswersInvariant, AInvSays, PTL

\* DInv is inductive, given AInv: whatever was made, written and damaged.
THEOREM DocumentsInvariant == Spec => []DInv
<1> QED
  BY AnswersInvariant, InitDInv, NextDInv, PTL DEF Spec

\* Whatever is made into a Response, if nobody damages what is written of it, it is
\* read back as it was, whatever it is read into: as JSON, as bytes, and each class
\* by itself.
THEOREM ReadsGiveBack == Spec => []RoundTrip
<1>1. DInv => RoundTrip
  BY DEF DInv
<1> QED
  BY <1>1, DocumentsInvariant, PTL

\* However often and wherever a document is damaged, Response::FromJson takes it
\* only if it says all that ToJson would write of the result; and else it changes
\* nothing.
THEOREM DamagedAreRefused == Spec => []TakesOnlyWhole
<1>1. DInv => TakesOnlyWhole
  BY DEF DInv
<1> QED
  BY <1>1, DocumentsInvariant, PTL

\* However often a class's document is damaged, nothing that the object held
\* before is left after the read, but for the selector of packages.
THEOREM NothingIsLeftOver == Spec => []NoLeftovers
<1>1. DInv => NoLeftovers
  BY DEF DInv
<1> QED
  BY <1>1, DocumentsInvariant, PTL

=============================================================================
